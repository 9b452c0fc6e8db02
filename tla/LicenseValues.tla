---------------------------- MODULE LicenseValues ----------------------------
(* Message fields around every boundary client_connect tests: each message *)
(* type it accepts, one it recognises but refuses, one it does not know;   *)
(* both flags; wMsgSize below, at and around the 4-byte header and the      *)
(* 12-byte error body; a stream short by one byte; known and unknown codes *)
(* and transitions; an empty and a one-byte blob.                          *)
MCMsgTypeValues == {1, 3, 255, 5}
MCFlagValues == {2, 3}
MCMsgSizeValues == {3, 4, 16, 17}
MCAvailValues == {0, 12, 13}
MCErrorCodeValues == {2, 7, 5}
MCTransitionValues == {1, 2, 9}
MCBlobLenValues == {0, 1}
=============================================================================
