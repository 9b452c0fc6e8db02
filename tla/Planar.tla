------------------------------- MODULE Planar -------------------------------
(***************************************************************************)
(* process_plane (src/codec/rle.rs), the decoder of one plane of a 32-bpp  *)
(* bitmap: Height lines, bottom-up; the first line plain run-length, each  *)
(* later line a run-length of signed deltas against the line decoded       *)
(* before it.  The input is a byte sequence, the output the plane's bytes. *)
(*                                                                         *)
(* The plane's bytes lie 4 apart in the RGB32 buffer (out += 4); here they *)
(* are numbered 0..Width*Height-1, one per pixel, which keeps every index  *)
(* comparison of the code: an index past Width*Height - 1 is past the end  *)
(* of the output slice in both.                                            *)
(***************************************************************************)
EXTENDS Integers, Sequences, SequencesExt

CONSTANTS
  Width, Height,   \* the bitmap's size
  PixelValues      \* the byte values the images may hold

Size == Width * Height
Byte == 0..255

VARIABLES
  image,     \* the plane the server encoded (checked against the output)
  input,     \* the compressed bytes
  ip,        \* the Cursor position: input[ip] is read next
  indexh,    \* line counter
  indexw,    \* pixel counter in the line
  out,       \* output index of the next pixel
  thisLine,  \* this_line
  lastLine,  \* last_line
  color,     \* colour (first line, u8) or delta (later lines, i8)
  collen,    \* literals left in the current run
  replen,    \* repeats left in the current run
  output,    \* the decoded plane
  status     \* "line", "code", "Ok", "Io" or "panic"

vars == <<image, input, ip, indexh, indexw, out, thisLine, lastLine, color,
          collen, replen, output, status>>

-----------------------------------------------------------------------------
(* The reference encoder, from the format of spec section 4.3.            *)

\* The signed delta from prev to cur, and the byte carrying it.
SignedDelta(cur, prev) == LET d == (cur - prev) % 256 IN IF d < 128 THEN d ELSE d - 256
DeltaByte(d) == IF d >= 0 THEN 2 * d ELSE 2 * (-d - 1) + 1

\* The symbols of line k (k = 0 is the bottom row): the pixels of the first
\* line, the deltas against the line below for the others.
Row(img, r) == [c \in 1..Width |-> img[r * Width + c - 1]]
LineSymbols(img, k) ==
  LET r == Height - 1 - k IN
  IF k = 0 THEN Row(img, r)
  ELSE [c \in 1..Width |-> SignedDelta(img[r * Width + c - 1], img[(r + 1) * Width + c - 1])]
SymbolByte(k, s) == IF k = 0 THEN s ELSE DeltaByte(s)

\* A run of c literals then r repeats: one code byte (long runs of 16..47
\* repeats put the run length's nibbles the other way round).
RunCode(c, r) == IF r >= 16 THEN (r % 16) * 16 + r \div 16 ELSE c * 16 + r
RunShapes == {<<c, r>> \in (0..15) \X ({0} \cup 3..15) : c + r > 0}
             \cup {<<0, r>> : r \in 16..47}

\* Every encoding of the symbols s of line k, the colour being col.
RECURSIVE LineEncodings(_, _, _)
LineEncodings(k, s, col) ==
  IF s = <<>> THEN {<<>>}
  ELSE UNION {LET c == sh[1]
                  r == sh[2]
                  col2 == IF c > 0 THEN s[c] ELSE col
              IN IF \A i \in c + 1..c + r : s[i] = col2
                   THEN {<<RunCode(c, r)>> \o [i \in 1..c |-> SymbolByte(k, s[i])] \o rest :
                           rest \in LineEncodings(k, SubSeq(s, c + r + 1, Len(s)), col2)}
                   ELSE {}
              : sh \in {sh \in RunShapes : sh[1] + sh[2] <= Len(s)}}

\* Every encoding of lines k.. of img.
RECURSIVE PlaneEncodings(_, _)
PlaneEncodings(img, k) ==
  IF k = Height THEN {<<>>}
  ELSE {e1 \o e2 : e1 \in LineEncodings(k, LineSymbols(img, k), 0),
                   e2 \in PlaneEncodings(img, k + 1)}

-----------------------------------------------------------------------------
(* The decoder.                                                            *)

\* `if x & 1 != 0 { -((x >> 1) + 1) } else { x >> 1 }` as i8.
delta_of_byte(x) == IF x % 2 # 0 THEN -(x \div 2 + 1) ELSE x \div 2

\* `(i32::from(prev) + i32::from(color)) as u8`.
plane_byte(prev, d) == (prev + d) % 256

\* The locals as process_plane sets them before its loop.
DecoderStart ==
  /\ ip = 1
  /\ indexh = 0
  /\ indexw = 0
  /\ out = 0
  /\ thisLine = 0
  /\ lastLine = 0
  /\ color = 0
  /\ collen = 0
  /\ replen = 0
  /\ output = [i \in 0..Size - 1 |-> 0]
  /\ status = "line"

\* A reference encoding of an image.
Init ==
  /\ image \in [0..Size - 1 -> PixelValues]
  /\ input \in PlaneEncodings(image, 0)
  /\ DecoderStart

\* Arbitrary input: every string of up to n bytes from bytes (image is not
\* encoded in it and stays zero).
FuzzInit(bytes, n) ==
  /\ image = [i \in 0..Size - 1 |-> 0]
  /\ input \in UNION {[1..k -> bytes] : k \in 0..n}
  /\ DecoderStart

\* Head of the for loop: the next line, or Ok(()) after the last.
StartLine ==
  /\ status = "line"
  /\ IF indexh < Height
       THEN /\ out' = (Height - indexh - 1) * Width
            /\ thisLine' = (Height - indexh - 1) * Width
            /\ indexw' = 0
            /\ color' = 0
            /\ status' = "code"
       ELSE /\ status' = "Ok"
            /\ UNCHANGED <<out, thisLine, indexw, color>>
  /\ UNCHANGED <<image, input, ip, indexh, lastLine, collen, replen, output>>

\* `let code = input.read_u8()?` and its two nibbles, revcode in [16, 47]
\* turning the run into a long repeat.
ReadCode ==
  /\ status = "code" /\ collen = 0 /\ replen = 0
  /\ indexw < Width
  /\ IF ip > Len(input)
       THEN /\ status' = "Io"
            /\ UNCHANGED <<ip, collen, replen>>
       ELSE LET code == input[ip]
                rl == code % 16
                cl == code \div 16
                rev == rl * 16 + cl
            IN /\ ip' = ip + 1
               /\ IF rev >= 16 /\ rev <= 47
                    THEN replen' = rev /\ collen' = 0
                    ELSE replen' = rl /\ collen' = cl
               /\ UNCHANGED status
  /\ UNCHANGED <<image, input, indexh, indexw, out, thisLine, lastLine, color, output>>

\* Write one pixel at out, reading the line before at last_line + indexw.
Emit(v) ==
  /\ output' = [output EXCEPT ![out] = v]
  /\ out' = out + 1
  /\ indexw' = indexw + 1

\* One literal: a colour byte (first line) or a delta byte (later lines).
Literal ==
  /\ status = "code" /\ collen > 0
  /\ IF ip > Len(input)
       THEN /\ status' = "Io"
            /\ UNCHANGED <<ip, color, collen, output, out, indexw>>
       ELSE LET x == input[ip]
                d == IF lastLine = 0 THEN x ELSE delta_of_byte(x)
                v == IF lastLine = 0 THEN x ELSE plane_byte(output[lastLine + indexw], d)
            IN /\ ip' = ip + 1
               /\ color' = d
               /\ collen' = collen - 1
               /\ IF out >= Size \/ (lastLine # 0 /\ lastLine + indexw >= Size)
                    THEN status' = "panic" /\ UNCHANGED <<output, out, indexw>>
                    ELSE Emit(v) /\ UNCHANGED status
  /\ UNCHANGED <<image, input, indexh, thisLine, lastLine, replen>>

\* One repeat of the colour, or of the delta against the line before.
Repeat ==
  /\ status = "code" /\ collen = 0 /\ replen > 0
  /\ replen' = replen - 1
  /\ IF out >= Size \/ (lastLine # 0 /\ lastLine + indexw >= Size)
       THEN status' = "panic" /\ UNCHANGED <<output, out, indexw>>
       ELSE /\ Emit(IF lastLine = 0 THEN color ELSE plane_byte(output[lastLine + indexw], color))
            /\ UNCHANGED status
  /\ UNCHANGED <<image, input, ip, indexh, thisLine, lastLine, color, collen>>

\* The line is full: last_line = this_line.
EndLine ==
  /\ status = "code" /\ collen = 0 /\ replen = 0
  /\ indexw >= Width
  /\ lastLine' = thisLine
  /\ indexh' = indexh + 1
  /\ status' = "line"
  /\ UNCHANGED <<image, input, ip, indexw, out, thisLine, color, collen, replen, output>>

Done == status \in {"Ok", "Io", "panic"} /\ UNCHANGED vars

Next == StartLine \/ ReadCode \/ Literal \/ Repeat \/ EndLine \/ Done

Spec == Init /\ [][Next]_vars

-----------------------------------------------------------------------------
(* Properties.                                                             *)

TypeOK ==
  /\ image \in [0..Size - 1 -> PixelValues]
  /\ output \in [0..Size - 1 -> Byte]
  /\ color \in -128..255
  /\ status \in {"line", "code", "Ok", "Io", "panic"}

=============================================================================
