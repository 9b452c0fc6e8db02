------------------------------ MODULE MCRle16 ------------------------------
(* rle_16_decompress on a 4 x 3 bitmap: inputs of up to four orders, each  *)
(* in every wire form.                                                     *)
EXTENDS Rle16, Rle16Orders
=============================================================================
