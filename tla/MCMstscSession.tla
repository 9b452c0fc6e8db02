--------------------------- MODULE MCMstscSession ---------------------------
(* Model-checking instance of MstscSession: three PDUs of every kind.     *)
EXTENDS MstscSession

MCMaxPdus == 3
MCPduKinds == {"bitmap", "badbitmap", "other", "garbage", "disconnect"}
=============================================================================
