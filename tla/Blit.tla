-------------------------------- MODULE Blit --------------------------------
(***************************************************************************)
(* fast_bitmap_transfer (src/bin/mstsc-rs.rs): the GUI loop takes bitmap  *)
(* events from the channel one after another and copies each decompressed *)
(* bitmap into the window buffer, one row per pass of the loop, with an   *)
(* unchecked copy_nonoverlapping after four bounds checks.                 *)
(*                                                                         *)
(* The arithmetic is usize: a debug build panics on overflow, a release    *)
(* build wraps; the build is chosen once.  usize has UsizeBits bits here:  *)
(* every value the loop computes before it stops is far below 2^UsizeBits *)
(* (ASSUME below), so only a subtraction that goes below zero wraps, as it *)
(* does with 64 bits.  decompress() is abstracted to success, giving       *)
(* width * height pixels (transmute_vec of 4 bytes a pixel), or an error;  *)
(* the decoders are checked in Bitmap.  A pixel of the buffer holds Old,   *)
(* or the index of the source pixel copied into it.                        *)
(***************************************************************************)
EXTENDS Integers

CONSTANTS
  Width, Height,   \* window.get_size()
  Events,          \* the BitmapEvents the server may send: records with
                   \* left, right, top, bottom (dest_*), width, height
  MaxTransfers,    \* bitmaps taken from the channel in one behaviour
  UsizeBits        \* the width of usize

Word == 2^UsizeBits
Len == Width * Height                 \* buffer.len()
DataLen(e) == e.width * e.height      \* data_aligned.len()
Old == -1                             \* a pixel no transfer has written

ASSUME Word > 2 * (Len + Width) * (Height + 1)
ASSUME \A e \in Events : \A f \in {"left", "right", "top", "bottom", "width", "height"} :
         e[f] \in 0..(Width + Height) /\ DataLen(e) < Word \div 4

VARIABLES
  build,      \* "debug" or "release"
  event,      \* the BitmapEvent being drawn
  before,     \* the buffer when the transfer started
  rows,       \* bitmap_dest_bottom - bitmap_dest_top + 1
  i,          \* the loop index
  buffer,     \* the window buffer
  transfers,  \* events taken from the channel so far
  status      \* "idle", "decompress", "copy", "Ok", "Err", "panic" or "ub"

vars == <<build, event, before, rows, i, buffer, transfers, status>>

NoEvent == [left |-> 0, right |-> 0, top |-> 0, bottom |-> 0, width |-> 0, height |-> 0]

\* A usize result: out of range is a panic in a debug build, wraps otherwise.
Overflows(v) == v < 0 \/ v >= Word
Wrap(v) == v % Word

\* The loop body's locals at row n (lines 82-84), and whether computing any
\* of them overflows.
RowValues(e, n) ==
  LET a == n + e.top
      d == Wrap(a) * Width
      c == e.right - e.left
  IN [dest |-> Wrap(Wrap(d) + e.left), src |-> Wrap(n * e.width),
      count |-> Wrap(Wrap(c) + 1),
      overflow |-> \E v \in {a, d, Wrap(d) + e.left, n * e.width, c, Wrap(c) + 1} :
                      Overflows(v)]

\* Fault: the last check, src_i + count against the data, left out.
RowCheck_nosrccount(v, e) ==
  LET dbg == build = "debug" IN
  IF v.dest > Len THEN "err"
  ELSE IF dbg /\ Overflows(v.dest + v.count) THEN "panic"
  ELSE IF Wrap(v.dest + v.count) > Len THEN "err"
  ELSE IF v.src > DataLen(e) THEN "err"
  ELSE "copy"

\* The four bounds checks of lines 85-88, evaluated left to right with ||:
\* "err" (the InvalidSize return), "panic" (a debug overflow in a sum), or
\* "copy".
RowCheck(v, e) ==
  LET dbg == build = "debug" IN
  IF v.dest > Len THEN "err"
  ELSE IF dbg /\ Overflows(v.dest + v.count) THEN "panic"
  ELSE IF Wrap(v.dest + v.count) > Len THEN "err"
  ELSE IF v.src > DataLen(e) THEN "err"
  ELSE IF dbg /\ Overflows(v.src + v.count) THEN "panic"
  ELSE IF Wrap(v.src + v.count) > DataLen(e) THEN "err"
  ELSE "copy"

\* copy_nonoverlapping of count pixels, src_i.. to dest_i..
CopyPixels(v) ==
  [p \in 0..Len - 1 |-> IF p >= v.dest /\ p < v.dest + v.count
                          THEN v.src + (p - v.dest) ELSE buffer[p]]

Init ==
  /\ build \in {"debug", "release"}
  /\ event = NoEvent
  /\ before = [p \in 0..Len - 1 |-> Old]
  /\ rows = 0 /\ i = 0
  /\ buffer = [p \in 0..Len - 1 |-> Old]
  /\ transfers = 0
  /\ status = "idle"

\* try_recv returned a bitmap (line 335): fast_bitmap_transfer starts.
Receive ==
  /\ status \in {"idle", "Ok"} /\ transfers < MaxTransfers
  /\ event' \in Events
  /\ before' = buffer
  /\ transfers' = transfers + 1
  /\ status' = "decompress"
  /\ UNCHANGED <<build, rows, i, buffer>>

\* Fault: the loop bound without the + 1.
Decompress_exclusive ==
  /\ status = "decompress"
  /\ \/ status' = "Err" /\ UNCHANGED rows
     \/ LET r == event.bottom - event.top IN
        IF build = "debug" /\ Overflows(r)
          THEN status' = "panic" /\ UNCHANGED rows
          ELSE rows' = Wrap(r) /\ status' = "copy"
  /\ i' = 0
  /\ UNCHANGED <<build, event, before, buffer, transfers>>

\* Fault: the loop bound in signed arithmetic.
Decompress_signed ==
  /\ status = "decompress"
  /\ \/ status' = "Err" /\ UNCHANGED rows
     \/ rows' = event.bottom - event.top + 1 /\ status' = "copy"
  /\ i' = 0
  /\ UNCHANGED <<build, event, before, buffer, transfers>>

\* The usize locals, decompress()? and transmute_vec, and the loop bound
\* bitmap_dest_bottom - bitmap_dest_top + 1.
Decompress ==
  /\ status = "decompress"
  /\ \/ status' = "Err" /\ UNCHANGED rows
     \/ LET r == event.bottom - event.top IN
        IF build = "debug" /\ (Overflows(r) \/ Overflows(Wrap(r) + 1))
          THEN status' = "panic" /\ UNCHANGED rows
          ELSE rows' = Wrap(Wrap(r) + 1) /\ status' = "copy"
  /\ i' = 0
  /\ UNCHANGED <<build, event, before, buffer, transfers>>

\* One pass of the for loop: the row's locals, the checks, the copy.  A copy
\* past the end of either buffer is undefined behaviour ("ub").
CopyRow ==
  /\ status = "copy" /\ i < rows
  /\ LET v == RowValues(event, i) IN
     IF build = "debug" /\ v.overflow
       THEN status' = "panic" /\ UNCHANGED <<buffer, i>>
       ELSE CASE RowCheck(v, event) = "err" -> status' = "Err" /\ UNCHANGED <<buffer, i>>
              [] RowCheck(v, event) = "panic" -> status' = "panic" /\ UNCHANGED <<buffer, i>>
              [] OTHER -> IF v.dest + v.count > Len \/ v.src + v.count > DataLen(event)
                            THEN status' = "ub" /\ UNCHANGED <<buffer, i>>
                            ELSE /\ buffer' = CopyPixels(v)
                                 /\ i' = i + 1
                                 /\ UNCHANGED status
  /\ UNCHANGED <<build, event, before, rows, transfers>>

\* The loop ran out: Ok(()).
Finish ==
  /\ status = "copy" /\ i >= rows
  /\ status' = "Ok"
  /\ UNCHANGED <<build, event, before, rows, i, buffer, transfers>>

\* An error ends main_gui_loop through `?`, a panic the process; the
\* channel drained, the GUI loop goes on without bitmaps.
Done ==
  /\ status \in {"Err", "panic", "ub"} \/ (status \in {"idle", "Ok"} /\ transfers = MaxTransfers)
  /\ UNCHANGED vars

Next == Receive \/ Decompress \/ CopyRow \/ Finish \/ Done

Spec == Init /\ [][Next]_vars

-----------------------------------------------------------------------------
(* Properties.                                                             *)

TypeOK ==
  /\ build \in {"debug", "release"}
  /\ event \in Events \cup {NoEvent}
  /\ buffer \in [0..Len - 1 -> {Old} \cup 0..Word - 1]
  /\ i \in 0..Word - 1 /\ rows \in 0..Word - 1
  /\ status \in {"idle", "decompress", "copy", "Ok", "Err", "panic", "ub"}

(* Whatever rectangle the server sends and in either build, the four      *)
(* checks keep copy_nonoverlapping inside both buffers: a count or a loop  *)
(* bound that wrapped below zero in a release build is caught before any  *)
(* pixel is copied out of bounds.                                         *)
BlitMemorySafe == status # "ub"

\* The rectangle's rows and columns, in exact arithmetic.
NRows(e) == e.bottom - e.top + 1
NCols(e) == e.right - e.left + 1

\* The framebuffer after painting the event's pixels, row-major, into the
\* flat buffer at (top + r) * Width + left + k; where rows overlap, the
\* later row wins.
Paint(b, e) ==
  [p \in 0..Len - 1 |->
     LET rs == {r \in 0..NRows(e) - 1 : p - (e.top + r) * Width - e.left \in 0..NCols(e) - 1}
     IN IF rs = {} THEN b[p]
        ELSE LET r == CHOOSE x \in rs : \A y \in rs : y <= x
             IN r * e.width + (p - (e.top + r) * Width - e.left)]

(* A transfer that returns Ok has painted every row of the rectangle from  *)
(* the decompressed data, row r from pixel r * width on, and changed no    *)
(* other pixel: the wrapping loop bound and count never let a transfer    *)
(* end Ok with rows missing, extra rows or a partly copied row.            *)
BlitOkPaintsRectangle == status = "Ok" => buffer = Paint(before, event)

=============================================================================
