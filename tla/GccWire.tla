------------------------------- MODULE GccWire -------------------------------
(* The wire constants of src/core/gcc.rs that the GCC models share.        *)
EXTENDS Integers

\* MessageType discriminants (the server-to-client ones and one other).
MessageType == [ScCore |-> 3073, ScSecurity |-> 3074, ScNet |-> 3075, CsCore |-> 49153]
ScTypes == {"ScCore", "ScSecurity", "ScNet"}

\* Version discriminants.
Version == [RdpVersion |-> 524289, RdpVersion5plus |-> 524292]

NoBlock == [type |-> 0, length |-> 0, rdpVersion |-> 0, mcsChannelId |-> 0,
            channelCount |-> 0]

=============================================================================
