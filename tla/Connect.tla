------------------------------- MODULE Connect -------------------------------
(***************************************************************************)
(* The client's GCC conference-create request, whose client core data   *)
(* carries the client name (client_core_data), and the two server         *)
(* responses of the connection sequence (spec section 4.4) that the       *)
(* client parses in src/core: the GCC conference-create response          *)
(* (read_conference_create_response), and, once MCS is joined, the        *)
(* license message (client_connect).  A failure of the first ends the     *)
(* connection before licensing; the license message is chosen when the    *)
(* client comes to read it.  The MCS steps between them are not modelled. *)
(***************************************************************************)
EXTENDS Integers, Sequences

CONSTANTS
  Names,
  BlockSet, MaxBlocks, LimitDeltas,
  MsgTypeValues, FlagValues, MsgSizeValues, AvailValues, ErrorCodeValues,
  TransitionValues, BlobLenValues

VARIABLES
  phase,                                            \* "request", "gcc" or "license"
  cName, cField, cStatus,                           \* ClientCoreData
  blocks, limit, pos, idx, result, gOutcome, serverData,  \* Gcc
  msg, lOutcome                                     \* License

C == INSTANCE ClientCoreData WITH name <- cName, field <- cField, status <- cStatus
G == INSTANCE Gcc WITH outcome <- gOutcome
L == INSTANCE License WITH outcome <- lOutcome

gvars == <<blocks, limit, pos, idx, result, gOutcome, serverData>>
lvars == <<msg, lOutcome>>
vvars == <<cName, cField, cStatus>>
vars == <<phase, vvars, gvars, lvars>>

\* The license message before the client reads it.
NoMsg == [bMsgtype |-> 0, flag |-> 0, wMsgSize |-> 0, avail |-> 0, dwErrorCode |-> 0,
          dwStateTransition |-> 0, wBlobLen |-> 0]

Init ==
  /\ phase = "request"
  /\ C!Init
  /\ G!Init
  /\ msg = NoMsg /\ lOutcome = "pending"

\* The request is built with the client core data, unless client_core_data
\* panics.
WriteRequest ==
  /\ phase = "request" /\ C!Write
  /\ UNCHANGED <<phase, gvars, lvars>>

\* The request is sent and the response read next; the client keeps
\* nothing of ClientData or of the bytes it wrote.
SendRequest ==
  /\ phase = "request" /\ cStatus = "written"
  /\ phase' = "gcc"
  /\ cName' = <<>> /\ cField' = <<>> /\ cStatus' = "sent"
  /\ UNCHANGED <<gvars, lvars>>

ReadGcc == phase = "gcc" /\ G!Next /\ UNCHANGED <<phase, vvars, lvars>>

\* read_conference_create_response returned Ok: of the response the client
\* keeps only ServerData (the bytes and the function's locals are gone), goes
\* on to the license exchange and reads the server's message.
StartLicensing ==
  /\ phase = "gcc" /\ gOutcome = "Ok"
  /\ phase' = "license"
  /\ blocks' = <<>> /\ limit' = 0 /\ pos' = 0 /\ idx' = 1
  /\ result' = [t \in G!ScTypes |-> G!NoBlock]
  /\ msg' \in L!Msg
  /\ UNCHANGED <<vvars, gOutcome, serverData, lOutcome>>

ReadLicense == phase = "license" /\ L!Next /\ UNCHANGED <<phase, vvars, gvars>>

Next == WriteRequest \/ SendRequest \/ ReadGcc \/ StartLicensing \/ ReadLicense

Spec == Init /\ [][Next]_vars

-----------------------------------------------------------------------------
(* Properties.                                                             *)

TypeOK ==
  /\ phase \in {"request", "gcc", "license"}
  /\ cStatus \in {"idle", "written", "panic", "sent"}
  /\ cField \in Seq(0..255)
  /\ G!TypeOK
  /\ phase = "license" => msg \in L!Msg

(* While the GCC response is read: read_conference_create_response       *)
(* returns Ok exactly for the responses spec section 4.4 describes (see    *)
(* Gcc.AcceptsExactlyWellFormed).                                          *)
GccAcceptsExactlyWellFormed == phase = "gcc" => G!AcceptsExactlyWellFormed

(* client_connect returns Ok(()) for exactly the license messages the spec *)
(* accepts (see License.AcceptsExactlySpecCases).                          *)
LicenseAcceptsExactlySpecCases == L!AcceptsExactlySpecCases

(* The client name of the request reads back as the user's name cut after *)
(* whole characters (see ClientCoreData.ClientNameRoundTrips).            *)
ClientNameRoundTrips == C!ClientNameRoundTrips

(* The clientName field of the request never exceeds its 32 bytes (see    *)
(* ClientCoreData.ClientNameFitsField).                                   *)
ClientNameFitsField == C!ClientNameFitsField

(* Spec section 7: every failure of the connection maps to an error kind. *)
(* client_core_data does not panic on the client name, and neither parse   *)
(* panics on what the server sends: not the HashMap index of *)
(* a missing core or network block nor the u16 `length - 4` of a short     *)
(* block header in read_conference_create_response, and not the           *)
(* DynOption's `size - 4` of a short wMsgSize in client_connect.           *)
ConnectNeverPanics == cStatus # "panic" /\ gOutcome # "panic" /\ lOutcome # "panic"

=============================================================================
