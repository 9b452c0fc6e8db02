------------------------------ MODULE MCBitmap ------------------------------
(* decompress on a 4 x 2 image of 32-bpp pixel bytes 0 and 128 (deltas of  *)
(* 0, +128 and the extreme -128, so the positive-delta branch only with 0), *)
(* or on a 4 x 3                                                            *)
(* 16-bpp bitmap given by up to three orders of MCRle16's set.             *)
EXTENDS Bitmap, Rle16Orders

MCPixelValues == {0, 128}

=============================================================================
