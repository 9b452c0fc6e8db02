------------------------------ MODULE License ------------------------------
(***************************************************************************)
(* The licensing step of the connection (src/core/license.rs):             *)
(* client_connect reads one license preamble from the stream, parses the   *)
(* payload that follows it, and either returns Ok(()) or fails.            *)
(*                                                                         *)
(* A server message is abstracted to its fields: the preamble (bMsgtype,   *)
(* flag, wMsgSize), the number of bytes the stream still holds after the   *)
(* 4-byte preamble header, and, for an error alert, dwErrorCode,           *)
(* dwStateTransition and wBlobLen.  The bytes of the payload themselves    *)
(* are left out: nothing the client does depends on them.                  *)
(***************************************************************************)
EXTENDS Naturals

CONSTANTS
  MsgTypeValues,     \* bMsgtype values the server may send
  FlagValues,        \* flag values
  MsgSizeValues,     \* wMsgSize values
  AvailValues,       \* bytes left in the stream after the preamble header
  ErrorCodeValues,   \* dwErrorCode values
  TransitionValues,  \* dwStateTransition values
  BlobLenValues      \* wBlobLen values

\* MessageType, ErrorCode and StateTransition: the values TryFromPrimitive
\* accepts.
MessageType == [LicenseRequest |-> 1, PlatformChallenge |-> 2, NewLicense |-> 3,
                UpgradeLicense |-> 4, LicenseInfo |-> 18, NewLicenseRequest |-> 19,
                PlatformChallengeResponse |-> 21, ErrorAlert |-> 255]
ErrorCode == [ErrInvalidServerCertificate |-> 1, ErrNoLicense |-> 2, ErrInvalidScope |-> 4,
              ErrNoLicenseServer |-> 6, StatusValidClient |-> 7, ErrInvalidClient |-> 8,
              ErrInvalidProductid |-> 11, ErrInvalidMessageLen |-> 12, ErrInvalidMac |-> 3]
StateTransition == [TotalAbort |-> 1, NoTransition |-> 2, ResetPhaseToStart |-> 3,
                    ResendLastMessage |-> 4]

Values(r) == {r[f] : f \in DOMAIN r}

\* Preamble::Version30, the constant the "flag" Check field holds.
Version30 == 3

Msg == [bMsgtype : MsgTypeValues, flag : FlagValues, wMsgSize : MsgSizeValues,
        avail : AvailValues, dwErrorCode : ErrorCodeValues,
        dwStateTransition : TransitionValues, wBlobLen : BlobLenValues]

\* Results: Ok(()) or the error client_connect returns.  "TryError" is the
\* error `?` makes of a TryFromPrimitive failure; "Io" a read past the end;
\* "panic" a thread panic.
Outcomes == {"Ok", "InvalidConst", "NotImplemented", "InvalidRespond", "TryError",
             "Io", "panic"}

VARIABLES
  msg,      \* the server's license message
  outcome   \* "pending", then the result of client_connect

vars == <<msg, outcome>>

\* preamble().read(s): bMsgtype, the flag Check, then wMsgSize, whose
\* DynOption sizes "message" to wMsgSize - 4 bytes.  Below 4 the usize
\* subtraction overflows: a panic with overflow checks, otherwise a length
\* near 2^64, which the Vec read cannot satisfy (allocation failure or a
\* short read).  Returns the set of outcomes, {"read"} when the preamble and
\* its message were read.
preamble_read(m) ==
  IF m.flag # Version30 THEN {"InvalidConst"}
  ELSE IF m.wMsgSize < 4 THEN {"panic", "Io"}
  ELSE IF m.avail < m.wMsgSize - 4 THEN {"Io"}
  ELSE {"read"}

\* licensing_error_message().read over the message bytes: two u32, then
\* license_binary_blob: wBlobType, wBlobLen and wBlobLen bytes of blobData.
licensing_error_message_read(m) ==
  IF m.wMsgSize - 4 < 12 + m.wBlobLen THEN "Io" ELSE "read"

\* parse_payload: "NewLicense", "ErrorAlert" or an error.
parse_payload(m) ==
  IF m.bMsgtype \notin Values(MessageType) THEN "TryError"
  ELSE IF m.bMsgtype = MessageType.NewLicense THEN "NewLicense"
  ELSE IF m.bMsgtype = MessageType.ErrorAlert
    THEN IF licensing_error_message_read(m) = "Io" THEN "Io" ELSE "ErrorAlert"
  ELSE "NotImplemented"

\* Fault: the two conditions joined by || instead of &&.
ErrorAlertVerdictOr(m) ==
  IF m.dwErrorCode \notin Values(ErrorCode) THEN "TryError"
  ELSE IF m.dwErrorCode = ErrorCode.StatusValidClient THEN "Ok"
  ELSE IF m.dwStateTransition \notin Values(StateTransition) THEN "TryError"
  ELSE IF m.dwStateTransition = StateTransition.NoTransition THEN "Ok"
  ELSE "InvalidRespond"

\* The check of an error alert: ErrorCode::try_from(...)? == StatusValidClient
\* && StateTransition::try_from(...)? == NoTransition, evaluated left to
\* right and short-circuiting.
ErrorAlertVerdict(m) ==
  IF m.dwErrorCode \notin Values(ErrorCode) THEN "TryError"
  ELSE IF m.dwErrorCode # ErrorCode.StatusValidClient THEN "InvalidRespond"
  ELSE IF m.dwStateTransition \notin Values(StateTransition) THEN "TryError"
  ELSE IF m.dwStateTransition # StateTransition.NoTransition THEN "InvalidRespond"
  ELSE "Ok"

\* client_connect: the set of results it may return for message m.
client_connect(m) ==
  LET pre == preamble_read(m) IN
  IF pre # {"read"} THEN pre
  ELSE LET p == parse_payload(m) IN
       IF p = "NewLicense" THEN {"Ok"}
       ELSE IF p = "ErrorAlert" THEN {ErrorAlertVerdict(m)}
       ELSE {p}

Init ==
  /\ msg \in Msg
  /\ outcome = "pending"

\* The one step: client_connect runs to completion on the message.
ClientConnect ==
  /\ outcome = "pending"
  /\ outcome' \in client_connect(msg)
  /\ UNCHANGED msg

Next == ClientConnect

Spec == Init /\ [][Next]_vars

-----------------------------------------------------------------------------
(* Properties.                                                             *)

\* Spec section 4.4: a well-framed preamble (flag Version30, a wMsgSize of
\* at least its own 4 bytes, all of them present) carrying NewLicense, or an
\* ErrorAlert whose complete body says StatusValidClient and NoTransition.
SpecAccepts(m) ==
  /\ m.flag = Version30
  /\ m.wMsgSize >= 4
  /\ m.avail >= m.wMsgSize - 4
  /\ \/ m.bMsgtype = 3
     \/ /\ m.bMsgtype = 255
        /\ m.wMsgSize - 4 >= 12 + m.wBlobLen
        /\ m.dwErrorCode = 7
        /\ m.dwStateTransition = 2

(* client_connect returns Ok(()) for exactly the messages the spec accepts: *)
(* the flag Check, the wMsgSize framing, the error-alert body read and the *)
(* short-circuit of the two enum conversions together let nothing else     *)
(* through and refuse none of these.                                       *)
AcceptsExactlySpecCases == outcome # "pending" => (outcome = "Ok" <=> SpecAccepts(msg))


=============================================================================
