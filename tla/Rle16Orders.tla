----------------------------- MODULE Rle16Orders -----------------------------
(* The 16-bpp orders the models decode (records as Rle16's reference reads *)
(* them).                                                                  *)
EXTENDS Integers

NoMix == -1   \* Rle16's None: the order keeps the mix

Order(op, n, m, c1, c2, data) ==
  [op |-> op, n |-> n, mix |-> m, c1 |-> c1, c2 |-> c2, data |-> data]

\* One order of every kind, the background runs short enough to follow each
\* other (and one long enough to run past the last row), a fill-or-mix run
\* that needs a second mask byte, and an invalid code.
MCOrders ==
  { Order(0, 2, NoMix, 0, 0, <<>>),
    Order(0, 33, NoMix, 0, 0, <<>>),
    Order(1, 3, NoMix, 0, 0, <<>>),
    Order(1, 2, 3855, 0, 0, <<>>),
    Order(2, 10, NoMix, 0, 0, <<165, 2>>),
    Order(2, 3, 15420, 0, 0, <<6>>),
    Order(9, 8, NoMix, 0, 0, <<>>),
    Order(10, 8, NoMix, 0, 0, <<>>),
    Order(3, 2, NoMix, 0, 4660, <<>>),
    Order(4, 2, NoMix, 0, 0, <<258, 48879>>),
    Order(8, 2, NoMix, 255, 65280, <<>>),
    Order(13, 1, NoMix, 0, 0, <<>>),
    Order(14, 1, NoMix, 0, 0, <<>>),
    Order(15, 1, NoMix, 0, 0, <<>>) }

\* Code bytes of every header class: regular orders of each opcode (0x00
\* with its zero count, 0xA1 the invalid opcode 5), lite orders (set mix,
\* bicolour), a mega order with a 16-bit count, fill-or-mix with a fixed
\* mask, and white-solid; each byte also serves as a count or operand.
MCFuzzBytes == {0, 3, 33, 65, 97, 129, 161, 193, 225, 240, 249, 253}

\* The same with a zero-count background run (a mega order with count 0).
MCOrdersZeroBackground ==
  { Order(0, 2, NoMix, 0, 0, <<>>),
    Order(0, 0, NoMix, 0, 0, <<>>),
    Order(1, 3, NoMix, 0, 0, <<>>) }


=============================================================================
