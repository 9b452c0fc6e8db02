----------------------------- MODULE DecoderSpec -----------------------------
(***************************************************************************)
(* What a bitmap decompressor promises (spec sections 4.3 and 8): one call *)
(* on compressed bytes whose meaning is expected returns, after finitely  *)
(* many steps, expected's result kind, and on Ok exactly expected's        *)
(* buffer.  On an error the buffer holds whatever was written.  Of input  *)
(* whose meaning is unknown (spec 8: "random opcodes must either decode   *)
(* to a valid buffer or fail cleanly"), the call returns some result kind.*)
(***************************************************************************)
EXTENDS Naturals

VARIABLES
  status,    \* "busy", then the result kind
  buffer,    \* the output buffer
  expected   \* [status, output]: what the input means (its
             \* output has the size of the buffer)

vars == <<status, buffer, expected>>

Results == {"Ok", "Io", "RleDecode"}
Unknown == "unknown"   \* expected.status of input with no reference

Init ==
  /\ status = "busy"
  /\ expected.status \in Results \cup {Unknown}
  /\ \A i \in DOMAIN expected.output : expected.output[i] \in Nat
  /\ buffer = [i \in DOMAIN expected.output |-> 0]

\* The call returns.
Return ==
  /\ status = "busy"
  /\ status' \in IF expected.status = Unknown THEN Results ELSE {expected.status}
  /\ DOMAIN buffer' = DOMAIN expected.output
  /\ \A i \in DOMAIN expected.output : buffer'[i] \in Nat
  /\ status' = "Ok" /\ expected.status # Unknown => buffer' = expected.output
  /\ UNCHANGED expected

Spec == Init /\ [][Return]_vars /\ WF_vars(Return)

\* Return is enabled exactly while the call is busy, so the fairness of
\* Spec says the call returns: Spec written without ENABLED, the form in
\* which an implementation is checked against it.
Returns == <>(status # "busy")
SpecReturns == Init /\ [][Return]_vars /\ Returns

=============================================================================
