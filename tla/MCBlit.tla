-------------------------------- MODULE MCBlit --------------------------------
(* fast_bitmap_transfer on a 4 x 3 window.                                *)
EXTENDS Blit

Ev(l, r, t, b, w, h) ==
  [left |-> l, right |-> r, top |-> t, bottom |-> b, width |-> w, height |-> h]

\* A rectangle inside the window; one running past its right edge; the
\* whole window; one below it; one wider than its bitmap; bottom above top
\* by one and by two; right left of left by one and by two.
MCEvents ==
  { Ev(1, 2, 0, 1, 2, 2), Ev(2, 4, 0, 0, 3, 1), Ev(0, 3, 0, 2, 4, 3),
    Ev(0, 1, 2, 3, 2, 2), Ev(0, 2, 0, 1, 1, 3),
    Ev(0, 1, 1, 0, 2, 2), Ev(0, 1, 2, 0, 2, 2),
    Ev(2, 1, 1, 1, 1, 1), Ev(3, 1, 0, 0, 1, 1) }
=============================================================================
