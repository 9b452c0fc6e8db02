------------------------------- MODULE Rle16 -------------------------------
(***************************************************************************)
(* rle_16_decompress (src/codec/rle.rs): the 16-bpp RLE / fill-or-mix      *)
(* decoder.  Each outer iteration reads an order (code byte, count bytes,  *)
(* operands); the pixel loop then writes count pixels, wrapping to the     *)
(* next line up at the right edge.  The repeat! macro unrolls its loop by  *)
(* eight when at least eight pixels remain before the edge; the unrolled  *)
(* body is the same per-pixel step, so a step here is one pixel.          *)
(***************************************************************************)
EXTENDS Integers, Sequences, SequencesExt, Bitwise

CONSTANTS
  Width, Height,   \* the bitmap's size
  Orders,          \* byte sequences, each one order (possibly cut short)
  MaxOrders,       \* the most orders in one input
  MaxCut           \* the most bytes missing from the end of the input

Size == Width * Height
None == -1
Word == 0..65535

VARIABLES
  input, ip,             \* the compressed bytes and the Cursor (1-based)
  x, height, line, prevline,
  colour1, colour2, mix, mask, mixmask, fomMask, bicolour,
  lastopcode, insertmix,
  opcode, count,         \* the order being drawn
  output,                \* the u16 buffer
  status,                \* "ok", then "Ok", "Io", "RleDecode" or "panic"
  expected               \* what the reference decoder gives for the input

vars == <<input, ip, x, height, line, prevline, colour1, colour2, mix, mask,
          mixmask, fomMask, bicolour, lastopcode, insertmix, opcode, count,
          output, status, expected>>

\* read_u8 and read_u16::<LittleEndian> at position i (0 past the end; an
\* order's reads are checked against the length as a whole).
Rd(i) == IF i <= Len(input) THEN input[i] ELSE 0
Rd16(i) == Rd(i) + 256 * Rd(i + 1)

\* The code byte at i: <<opcode, count, offset, position after the count>>.
OrderHeader(i) ==
  LET code == Rd(i)
      hi == code \div 16
      lo == code % 16
  IN CASE hi \in 12..14 -> <<hi - 6, lo, 16, i + 1>>
       [] hi = 15 /\ lo < 9 -> <<lo, Rd16(i + 1), 0, i + 3>>
       [] hi = 15 -> <<lo, IF lo < 11 THEN 8 ELSE 1, 0, i + 1>>
       [] OTHER -> <<hi \div 2, code % 32, 32, i + 1>>

\* A zero short count is extended by a byte; fill-or-mix counts are
\* multiplied by 8.  <<count, position after>>.
ExtendedCount(op, c, offset, j) ==
  IF offset = 0 THEN <<c, j>>
  ELSE IF c = 0 THEN <<Rd(j) + (IF op \in {2, 7} THEN 1 ELSE offset), j + 1>>
  ELSE IF op \in {2, 7} THEN <<c * 8, j>>
  ELSE <<c, j>>

\* Bytes of operands each opcode reads after its count.
OperandBytes(op) == CASE op = 8 -> 4 [] op \in {3, 6, 7} -> 2 [] OTHER -> 0

-----------------------------------------------------------------------------
(* The reference: orders as spec section 4.3 describes them, their wire   *)
(* forms, and a decoder written from the table of pixel rules.            *)
(*                                                                         *)
(* An order is a record: op (0 background, 1 white, 2 fill-or-mix,       *)
(* 3 colour, 4 copy, 8 bicolour, 9 and 10 fill-or-mix with the fixed      *)
(* masks 3 and 5, 13 white-solid, 14 black, 15 invalid), n its count      *)
(* (pixels; pairs for bicolour), mix a new mix value or None, c1 and c2   *)
(* its colours, data its copy words or mask bytes.                        *)

LE16(w) == <<w % 256, w \div 256>>

\* The count part of a regular (base 32 * op) or lite order: the count in
\* the code byte (in units of 8 for fill-or-mix), or a zero there and the
\* count in the next byte.
ShortForms(code, lim, fom, n) ==
  (IF fom THEN (IF n % 8 = 0 /\ n \div 8 \in 1..lim - 1 THEN {<<code + n \div 8>>} ELSE {})
               \cup (IF n \in 1..256 THEN {<<code, n - 1>>} ELSE {})
          ELSE (IF n \in 1..lim - 1 THEN {<<code + n>>} ELSE {})
               \cup (IF n \in lim..lim + 255 THEN {<<code, n - lim>>} ELSE {}))

\* Every wire form of order o: the code and count (regular, lite or the
\* 0xF0-based mega form with a 16-bit count), then the operands and data.
Encodings(o) ==
  LET fom == o.op = 2
      setmix == o.mix # None
      wop == IF setmix THEN o.op + 5 ELSE o.op
      heads == IF o.op \in {9, 10, 13, 14, 15} THEN {<<240 + o.op>>}
               ELSE {<<240 + wop>> \o LE16(o.n)}
                    \cup (CASE o.op = 8 -> ShortForms(224, 16, FALSE, o.n)
                            [] setmix -> ShortForms(IF fom THEN 208 ELSE 192, 16, fom, o.n)
                            [] OTHER -> ShortForms(32 * o.op, 32, fom, o.n))
      operands == CASE o.op = 8 -> LE16(o.c1) \o LE16(o.c2)
                    [] o.op = 3 -> LE16(o.c2)
                    [] setmix -> LE16(o.mix)
                    [] OTHER -> <<>>
      body == IF o.op = 4 THEN FlattenSeq([i \in 1..Len(o.data) |-> LE16(o.data[i])])
              ELSE IF o.op = 2 THEN o.data ELSE <<>>
  IN {h \o operands \o body : h \in heads}

RECURSIVE EncodingsOf(_)
EncodingsOf(s) ==
  IF s = <<>> THEN {<<>>}
  ELSE {<<e>> \o r : e \in Encodings(Head(s)), r \in EncodingsOf(Tail(s))}

\* Order o with its last c bytes missing: its data cut short, or an order
\* whose header or operands cannot be read (op -1).
DataBytes(o) == IF o.op = 4 THEN 2 * Len(o.data) ELSE IF o.op = 2 THEN Len(o.data) ELSE 0
CutOrder(o, c) ==
  IF c > DataBytes(o) THEN [o EXCEPT !.op = -1]
  ELSE [o EXCEPT !.data = SubSeq(@, 1, (DataBytes(o) - c) \div (IF o.op = 4 THEN 2 ELSE 1))]

\* Decode position p (bottom row first) <-> buffer index.
BufIndex(p) == (Height - 1 - p \div Width) * Width + (p % Width)

\* Pixels an order produces, and whether pixel k has its input.
Total(o) == CASE o.op = 8 -> 2 * o.n [] o.op \in {9, 10} -> 8 [] o.op \in {13, 14} -> 1
               [] OTHER -> o.n
Present(o, k) == CASE o.op = 4 -> k < Len(o.data) [] o.op = 2 -> k \div 8 < Len(o.data)
                   [] OTHER -> TRUE
MaskBit(o, k) ==
  LET m == CASE o.op = 9 -> 3 [] o.op = 10 -> 5 [] OTHER -> o.data[k \div 8 + 1]
  IN (m \div 2^(k % 8)) % 2 = 1

\* Pixel k of order o at position p, from the table: the line below is 0
\* on the bottom line, so "mix / prev ^ mix" is below ^ mix.
RefPixel(r, o, k, p) ==
  LET below == IF p < Width THEN 0 ELSE r.pix[p - Width + 1]
  IN CASE o.op = 0 -> IF k = 0 /\ r.insert THEN below ^^ r.mix ELSE below
       [] o.op = 1 -> below ^^ r.mix
       [] o.op \in {2, 9, 10} -> IF MaskBit(o, k) THEN below ^^ r.mix ELSE below
       [] o.op = 3 -> r.c2
       [] o.op = 4 -> o.data[k + 1]
       [] o.op = 8 -> IF k % 2 = 0 THEN r.c1 ELSE r.c2
       [] o.op = 13 -> 65535
       [] o.op = 14 -> 0

\* Pixels k.. of o: past the last row the count is an error.
RECURSIVE RefRun(_, _, _)
RefRun(r, o, k) ==
  IF k = Total(o) THEN r
  ELSE IF Len(r.pix) >= Size THEN [r EXCEPT !.st = "RleDecode"]
  ELSE IF ~Present(o, k) THEN [r EXCEPT !.st = "Io"]
  ELSE RefRun([r EXCEPT !.pix = Append(@, RefPixel(r, o, k, Len(r.pix)))], o, k + 1)

\* One order.  A background run immediately after another one XORs its
\* first pixel, except at the start of the first two rows, where the code
\* (like rdesktop) has x = width and no line below yet.
RefOrder(r, o) ==
  IF r.st # "ok" THEN r
  ELSE IF o.op = -1 THEN [r EXCEPT !.st = "Io"]
  ELSE IF o.op = 15 THEN [r EXCEPT !.st = "RleDecode"]
  ELSE RefRun([r EXCEPT !.mix = IF o.mix # None THEN o.mix ELSE @,
                        !.c1 = IF o.op = 8 THEN o.c1 ELSE @,
                        !.c2 = IF o.op \in {3, 8} THEN o.c2 ELSE @,
                        !.insert = o.op = 0 /\ r.lastbg /\ Len(r.pix) \notin {0, Width},
                        !.lastbg = (o.op = 0)], o, 0)

RefStart == [pix |-> <<>>, st |-> "ok", mix |-> 65535, c1 |-> 0, c2 |-> 0,
             insert |-> FALSE, lastbg |-> FALSE]

\* The status and buffer the reference gives for orders s.
RefDecode(s) ==
  LET r == FoldLeft(RefOrder, RefStart, s)
  IN [status |-> IF r.st = "ok" THEN "Ok" ELSE r.st,
      output |-> [i \in 0..Size - 1 |-> LET p == BufIndex(i)
                                        IN IF p < Len(r.pix) THEN r.pix[p + 1] ELSE 0]]

-----------------------------------------------------------------------------
(* The decoder.                                                            *)

\* The decoder's locals as rle_16_decompress sets them up.
DecoderStart ==
  /\ ip = 1 /\ x = Width /\ height = Height /\ line = None /\ prevline = None
  /\ colour1 = 0 /\ colour2 = 0 /\ mix = 65535 /\ mask = 0 /\ mixmask = 0
  /\ fomMask = 0 /\ bicolour = FALSE /\ lastopcode = 255 /\ insertmix = FALSE
  /\ opcode = 0 /\ count = 0
  /\ output = [i \in 0..Size - 1 |-> 0]
  /\ status = "ok"

\* Every encoding of up to MaxOrders orders, the last one possibly cut
\* short, with the reference decoding.
Init ==
  /\ \E s \in BoundedSeq(Orders, MaxOrders) : \E e \in EncodingsOf(s), c \in 0..MaxCut :
          /\ c = 0 \/ (s # <<>> /\ c < Len(e[Len(s)]))
          /\ input = SubSeq(FlattenSeq(e), 1, Len(FlattenSeq(e)) - c)
          /\ expected = RefDecode(IF c = 0 THEN s ELSE [s EXCEPT ![Len(s)] = CutOrder(@, c)])
  /\ DecoderStart

\* Input of which nothing is known: what a server may send.
NoReference == [status |-> "unknown", output |-> [i \in 0..Size - 1 |-> 0]]

\* Every byte string of up to n bytes drawn from bytes.
FuzzInit(bytes, n) ==
  /\ input \in UNION {[1..k -> bytes] : k \in 0..n}
  /\ expected = NoReference
  /\ DecoderStart

Stop(s) == status' = s /\ UNCHANGED <<expected, input, ip, x, height, line, prevline, colour1,
             colour2, mix, mask, mixmask, fomMask, bicolour, lastopcode, insertmix,
             opcode, count, output>>

\* Head of the outer loop: one order read and decoded.
ReadOrder ==
  /\ status = "ok" /\ count = 0 /\ ip <= Len(input)
  /\ LET h == OrderHeader(ip)
         op == h[1]
         ce == ExtendedCount(op, h[2], h[3], h[4])
         j == ce[2]
     IN IF j + OperandBytes(op) - 1 > Len(input)
          THEN Stop("Io")
          ELSE /\ ip' = j + OperandBytes(op)
               /\ count' = ce[1]
               /\ opcode' = CASE op \in {6, 7} -> op - 5 [] op \in {9, 10} -> 2 [] OTHER -> op
               /\ lastopcode' = opcode'
               /\ insertmix' = (insertmix \/ (op = 0 /\ lastopcode = 0
                                               /\ ~(x = Width /\ prevline = None)))
               /\ colour1' = IF op = 8 THEN Rd16(j) ELSE colour1
               /\ colour2' = CASE op = 8 -> Rd16(j + 2) [] op = 3 -> Rd16(j) [] OTHER -> colour2
               /\ mix' = IF op \in {6, 7} THEN Rd16(j) ELSE mix
               /\ fomMask' = CASE op = 9 -> 3 [] op = 10 -> 5 [] OTHER -> 0
               /\ mask' = IF op \in {9, 10} THEN fomMask' ELSE mask
               /\ mixmask' = 0
               /\ UNCHANGED <<expected, input, x, height, line, prevline, bicolour, output, status>>

\* End of input between orders: Ok(()).
EndOfInput ==
  /\ status = "ok" /\ count = 0 /\ ip > Len(input)
  /\ Stop("Ok")

\* The cursor at the right edge with pixels left: the next line up, or the
\* error when every line is written.
WrapLine ==
  /\ status = "ok" /\ count > 0 /\ x >= Width
  /\ IF height = 0 THEN Stop("RleDecode")
     ELSE /\ x' = 0 /\ height' = height - 1 /\ prevline' = line
          /\ line' = (height - 1) * Width
          /\ UNCHANGED <<expected, input, ip, colour1, colour2, mix, mask, mixmask, fomMask,
                         bicolour, lastopcode, insertmix, opcode, count, output, status>>

\* output[prevline + x], the pixel of the line below.
Prev == output[prevline + x]
HasPrev == prevline # None

\* One pixel of the repeat! body: output[line + x] = v; x += 1; count -= 1.
\* An index past the buffer panics.
\* The count after the pixel is c.
Put(v, c) ==
  IF line + x > Size - 1 \/ (HasPrev /\ prevline + x > Size - 1)
    THEN Stop("panic")
    ELSE /\ output' = [output EXCEPT ![line + x] = v]
         /\ x' = x + 1
         /\ count' = c
         /\ UNCHANGED status
PutPixel(v) == Put(v, count - 1)

Drawing(op) == status = "ok" /\ count > 0 /\ x < Width /\ opcode = op

\* Background: the line below (0 on the bottom line); the one pixel
\* insertmix asks for is XORed with mix.
Background ==
  /\ Drawing(0)
  /\ LET base == IF HasPrev THEN Prev ELSE 0
     IN PutPixel(IF insertmix THEN base ^^ mix ELSE base)
  /\ insertmix' = FALSE
  /\ UNCHANGED <<expected, input, ip, height, line, prevline, colour1, colour2, mix, mask,
                 mixmask, fomMask, bicolour, lastopcode, opcode>>

\* Fault: the mix added rather than XORed.
WhiteAdd ==
  /\ Drawing(1)
  /\ PutPixel(IF HasPrev THEN Prev + mix ELSE mix)
  /\ UNCHANGED <<expected, input, ip, height, line, prevline, colour1, colour2, mix, mask,
                 mixmask, fomMask, bicolour, lastopcode, insertmix, opcode>>

\* White (mix): the line below XOR mix, or mix.
White ==
  /\ Drawing(1)
  /\ PutPixel(IF HasPrev THEN Prev ^^ mix ELSE mix)
  /\ UNCHANGED <<expected, input, ip, height, line, prevline, colour1, colour2, mix, mask,
                 mixmask, fomMask, bicolour, lastopcode, insertmix, opcode>>

\* Fill-or-mix: mixmask moves left one bit (u8); at zero the next mask
\* comes from fom_mask or from the input.  A set bit gives the white pixel,
\* a clear one the background pixel.
FillOrMix ==
  /\ Drawing(2)
  /\ LET mm == (mixmask * 2) % 256
         reload == mm = 0
     IN IF reload /\ fomMask = 0 /\ ip > Len(input)
          THEN Stop("Io")
          ELSE LET m == IF ~reload THEN mask ELSE IF fomMask # 0 THEN fomMask ELSE input[ip]
                   bit == IF reload THEN 1 ELSE mm
                   base == IF HasPrev THEN Prev ELSE 0
               IN /\ mask' = m
                  /\ mixmask' = bit
                  /\ ip' = IF reload /\ fomMask = 0 THEN ip + 1 ELSE ip
                  /\ PutPixel(IF (m & bit) # 0 THEN base ^^ mix ELSE base)
  /\ UNCHANGED <<expected, input, height, line, prevline, colour1, colour2, mix, fomMask,
                 bicolour, lastopcode, insertmix, opcode>>

\* Colour: colour2.
Colour ==
  /\ Drawing(3)
  /\ PutPixel(colour2)
  /\ UNCHANGED <<expected, input, ip, height, line, prevline, colour1, colour2, mix, mask,
                 mixmask, fomMask, bicolour, lastopcode, insertmix, opcode>>

\* White-solid (0xd) and black (0xe) runs.
SolidRun ==
  /\ \E op \in {13, 14} :
       /\ Drawing(op)
       /\ PutPixel(IF op = 13 THEN 65535 ELSE 0)
  /\ UNCHANGED <<expected, input, ip, height, line, prevline, colour1, colour2, mix, mask,
                 mixmask, fomMask, bicolour, lastopcode, insertmix, opcode>>

\* Copy: the next little-endian word of the input.
Copy ==
  /\ Drawing(4)
  /\ IF ip + 1 > Len(input)
       THEN Stop("Io")
       ELSE /\ PutPixel(Rd16(ip))
            /\ ip' = ip + 2
  /\ UNCHANGED <<expected, input, height, line, prevline, colour1, colour2, mix, mask,
                 mixmask, fomMask, bicolour, lastopcode, insertmix, opcode>>

\* Fault: each pixel of a bicolour run counted.
BicolourNoPair ==
  /\ Drawing(8)
  /\ PutPixel(IF bicolour THEN colour2 ELSE colour1)
  /\ bicolour' = ~bicolour
  /\ UNCHANGED <<expected, input, ip, height, line, prevline, colour1, colour2, mix, mask,
                 mixmask, fomMask, lastopcode, insertmix, opcode>>

\* Bicolour: colour1 then colour2; the count += 1 before colour1 makes a
\* pair of pixels cost one count.
Bicolour ==
  /\ Drawing(8)
  /\ IF bicolour
       THEN Put(colour2, count - 1) /\ bicolour' = FALSE
       ELSE Put(colour1, count) /\ bicolour' = TRUE
  /\ UNCHANGED <<expected, input, ip, height, line, prevline, colour1, colour2, mix, mask,
                 mixmask, fomMask, lastopcode, insertmix, opcode>>

\* Any other opcode: "invalid opcode".
InvalidOpcode ==
  /\ status = "ok" /\ count > 0 /\ x < Width
  /\ opcode \notin {0, 1, 2, 3, 4, 8, 13, 14}
  /\ Stop("RleDecode")

Done == status # "ok" /\ UNCHANGED vars

Next ==
  \/ ReadOrder \/ EndOfInput \/ WrapLine
  \/ Background \/ White \/ FillOrMix \/ Colour \/ Copy \/ Bicolour \/ SolidRun
  \/ InvalidOpcode
  \/ Done

Spec == Init /\ [][Next]_vars

-----------------------------------------------------------------------------
(* Properties.                                                             *)

TypeOK ==
  /\ output \in [0..Size - 1 -> Word]
  /\ mixmask \in 0..128 /\ mask \in 0..255
  /\ status \in {"ok", "Ok", "Io", "RleDecode", "panic"}

(* Spec sections 4.3 and 8: rle_16_decompress ends as the reference       *)
(* decoder of the order table does on every input built from the orders,  *)
(* in any of their wire forms and cut short anywhere: the same error      *)
(* kind, never an overrun, and on Ok the same buffer.  This takes the     *)
(* count parse, the remapping of opcodes 6, 7, 9 and 10, the line wrap,   *)
(* the prediction from the line below, the u8 mixmask, the bicolour count *)
(* and the one-shot insertmix of background runs together.               *)
MatchesSpecDecoder ==
  /\ status # "panic"
  /\ status # "ok" => status = expected.status
  /\ status = "Ok" => output = expected.output

=============================================================================
