# TLA+ models of rdp-rs

This directory holds TLA+ models of the rdp-rs client (`src/src/...`), the
TLC configurations that check them, and `PROJECT.json`, which maps every
definition to the lines of Rust it models and lists runs, mutants, findings
and hazards.

## The system and its parts

| Part | Source | Module | Status |
|---|---|---|---|
| Client threads: reader thread, GUI loop, shared `RdpClient` | `bin/mstsc-rs.rs` (`launch_rdp_thread`, `main_gui_loop`, `main`, `wait_for_fd`) | `MstscSession` | modelled |
| Input translation: keyboard and pointer events | `bin/mstsc-rs.rs` (`main_gui_loop` input blocks, `to_scancode`, `get_rdp_pointer_down`) | `InputSync` | modelled |
| Licensing exchange | `core/license.rs` (`client_connect`) | `License`, `Connect` | modelled |
| GCC conference create response | `core/gcc.rs` (`read_conference_create_response`) | `Gcc`, `GccWire`, `Connect` | partly: the request's PER prelude and constant fields are not modelled |
| Client name of the GCC request | `core/gcc.rs` (`client_core_data`), `model/unicode.rs` (`to_utf16_le`) | `ClientCoreData`, `Connect` | modelled |
| Framebuffer blit | `bin/mstsc-rs.rs` (`fast_bitmap_transfer`) | `Blit` | modelled |
| 32-bpp planar decoder | `codec/rle.rs` (`process_plane`) | `Planar`, `Bitmap` | partly: the header byte and the four calls are not modelled |
| 16-bpp RLE decoder | `codec/rle.rs` (`rle_16_decompress`, `repeat!`) | `Rle16`, `Bitmap` | modelled |
| RGB565 to RGB32 | `codec/rle.rs` (`rgb565torgb32`) | `Bitmap` | modelled |
| Order of the connection's parses | `spec.md` §4 (`Connector::connect`, not in this tree) | `Connect` | partly: only the GCC and license steps |
| CLI, window, TCP setup | `bin/mstsc-rs.rs` | – | not modelled: argument parsing and I/O |
| TPKT, X.224, MCS, security, share layer, `Connector`, message kernel, PER | named by `spec.md`, not in this tree | – | not modelled |

How the parts interact. `main` connects, wraps the `RdpClient` in
`Arc<Mutex<_>>`, creates an unbounded mpsc channel and an `AtomicBool` sync
flag, starts the reader thread, and runs the GUI loop on its own thread.
The reader thread loops: `wait_for_fd` (a `select` with no timeout, *without*
the lock), load `sync`, take the lock, `read` one PDU, and send every bitmap
through the channel. The GUI loop, once per frame, drains the channel for
at most 33 ms (drawing each bitmap with `fast_bitmap_transfer`), writes
pointer and keyboard events under the lock, and updates the window. When the
window closes or the channel reports `Disconnected`, the GUI stores false in
`sync`, takes the lock, calls `shutdown`, and `main` joins the reader.
Licensing (`license::client_connect`) and GCC run once during the connection
sequence, before these threads start; the codecs run inside
`fast_bitmap_transfer` on the GUI thread.

## Modules

### Blit (framebuffer blit)

`fast_bitmap_transfer` as the GUI loop calls it, once per bitmap taken from
the channel. State: `build` (debug: usize overflow panics; release: it
wraps, modulo `2^UsizeBits`), the `event` being drawn (its `dest_left`,
`dest_right`, `dest_top`, `dest_bottom`, `width`, `height`), the window
`buffer` and the buffer `before` the transfer, the loop bound `rows`, the
index `i`, and `status`. Actions: `Receive` (`try_recv` returned a bitmap,
line 335), `Decompress` (lines 68–81: `decompress()?` succeeds with
`width * height` pixels or fails, and the loop bound `bottom - top + 1` is
computed), `CopyRow` (one pass of the loop, 81–97: the row's `dest_i`,
`src_i`, `count`, the four `||` checks in order, and
`copy_nonoverlapping`; a copy outside either buffer is `ub`), `Finish`
(`Ok(())`) and `Done`. The decoders themselves are checked in `Bitmap`; a
pixel of the buffer holds the index of the source pixel copied into it.

### MstscSession (client threads)

State: the socket as `wire` (complete PDUs), `inflight` (a PDU the server
has started but not finished), `eof`; the server's state `srv`; `sync`;
the mutex `lock` (`none`, `reader`, `gui`); the reader's program counter
`rpc` (`select`, `load`, `lock`, `read`, `done`); the GUI's `gpc` (frame,
drain, drainMore, mouse, keys, update, stop, shutdown, join, exited,
panicked); the channel `chan`; `windowOpen`; `shut` (shutdown was called);
`readsAfterShut` (capped at 2) and `failure`.

Actions, each one step of the code between two points where another thread
can act:

- Reader: `wait_for_fd` (returns once the socket is readable: data, a
  partial PDU, or end of file), `ReaderLoadSync` (line 288; exits when
  false), `ReaderLock` (289), `ReaderRead` (290–304: a bitmap is sent on the
  channel, a disconnect or an undecodable PDU ends the thread, other PDUs
  are ignored, and at end of file the I/O error is ignored, because only
  `Error::RdpError` breaks the loop).
- GUI: `GuiLoopCheck` (330), `GuiDrawBitmap`/`GuiBitmapFails` (336, where
  `fast_bitmap_transfer(...)?` returns the error out of the loop),
  `GuiChannelEmpty`, `GuiChannelDisconnected` (338–341),
  `GuiFrameBudgetElapsed`, `GuiMouseInput` (345–368: `get_mouse_pos`
  with `MouseMode::Clamp` always yields a position, so a pointer event is
  written under the lock in every frame), `GuiKeyboardInput` (370–392:
  `GuiNoKeys` when `get_keys()` is empty, otherwise a write under the lock).
  Both writes go through `GuiTryWrite`: once the server has closed the
  connection the write fails, `?` returns the error and main's `unwrap`
  panics. The first write after a FIN may still be accepted and only a later
  one fails on the reset; the model takes the two as one step, `GuiUpdate`, `GuiStoreSync` (401),
  `GuiShutdown` (402: takes the lock, closes the socket), `MainJoin`.
- Environment: `ServerStartPdu(k)`, `ServerFinishPdu`, `ServerClose`,
  `UserCloseWindow`.

PDU kinds: `bitmap`, `badbitmap` (a bitmap that fails to decode or blit),
`other` (any PDU the callback ignores), `garbage` (a read error of kind
RdpError), `disconnect`.

Fairness: weak fairness on the reader's steps (an OS thread that the
scheduler runs while it is enabled), strong fairness on the GUI's steps, and
weak fairness on
`ServerFinishPdu` (TCP delivers the rest of a PDU once its first bytes
arrived). The server's other steps and the user are not fair: the server may
stay silent forever and the user may never close the window. The GUI needs
strong fairness because, after a TCP close, the reader spins (select, load,
lock, read, unlock) and the mutex is free only between its iterations. A GUI
thread blocked in `lock()` is woken at every unlock, and the reader must get
through a `select` and an atomic load before it can lock again, so the GUI
gets the lock (spec §5 also requires that the reader not starve the writer).
With weak fairness TLC finds a run where the GUI never gets the mutex.

### InputSync (input translation)

State: `held` (the keys `get_keys()` reported at the last frame),
`lastKeys`, `lastButton`, and the server's view: `srvKeys` (scancodes it
believes down) and `srvButtons`. One action, `Frame`: the user may change
any keys and buttons between frames; the frame runs the mouse block (only
when the window reports a position) and the keyboard block (only when
`get_keys()` is non-empty), exactly as lines 345–392 do. `to_scancode` is
the table restricted to the model's keys; `ButtonValue` gives the u8 value
of each `PointerButton`, with the assumption that every OR of two values is a
value (so `try_from(...).unwrap()` at 362 never panics).

### License (licensing)

`client_connect` is a function of the server's message, abstracted to its
fields: `bMsgtype`, `flag`, `wMsgSize`, the bytes actually available,
`dwErrorCode`, `dwStateTransition`, `wBlobLen`. `preamble_read` models the
`Check` on the flag and the `wMsgSize - 4` `DynOption`; `parse_payload`
models the `TryFromPrimitive` conversion and the error-alert body read;
`ErrorAlertVerdict` the short-circuit `&&` of two conversions. One step,
`ClientConnect`, takes the message to its outcome. The run enumerates
1,728 messages built from values on each side of every boundary.

### GccWire, GccBlocks, LicenseValues

`GccWire` holds the wire constants (`MessageType`, `Version` discriminants)
that `Gcc` and its model values share. `GccBlocks` and `LicenseValues` hold
the model values (blocks, L deltas, license fields) so that `MCGcc` and
`MCConnect` use the same ones.

### Gcc (GCC conference create response)

The part of `read_conference_create_response` after the PER prelude. State:
the server's `blocks` (a sequence of up to three blocks, each abstracted to
its `type` and `length` header fields and the fields its decoder reads:
`rdpVersion`, `MCSChannelId`, `channelCount`), the PER length `limit` (L),
the bytes of the `take(L)` stream consumed (`pos`), the HashMap `result`,
`outcome` and `serverData`. Blocks lie one after another, each as long as
its length field says. `ReadBlock` is one pass of the loop after a header
read: the u16 buffer length `length - 4` (below 4 it overflows: a panic, or
a 64 KiB buffer `read_exact` cannot fill), `read_exact`, the per-type
decoder (`server_block_read`) and the insert. `EndOfBlocks` is the failed
header read that ends the loop and builds `ServerData`, indexing the HashMap
for `ScNet` and `ScCore`.

### ClientCoreData (the client name of the GCC request)

The `clientName` field of `client_core_data`. A name is a sequence of
Unicode scalar values. `ByteLen` is `str::len` (UTF-8 bytes, `Utf8Len` per
character). `SliceOk` says whether `&name[0..16]` lands on a character
boundary. `client_name` is the code's cut to 16 bytes, or its padding with
`16 - len()` NULs. `to_utf16_le` is `encode_utf16` (one unit below
0x10000, otherwise a surrogate pair of the value minus 0x10000) followed by
the little-endian bytes of each unit. `Write` is the whole function: a
panic on the slice, or the encoded field. The other fields of the block are
constants. `Utf16LeDecode` is a reference decoder written from the Unicode
definition and is used only by the properties.

### Planar (32-bpp plane decoder)

`process_plane` step by step: `StartLine` (the `for` head: `out` and
`this_line` for the line, bottom-up, colour reset), `ReadCode` (the code
byte, its nibbles and the `revcode` long run), `Literal` (a colour byte on
the first line; on later lines a signed-delta byte added in u8 to the byte of
`last_line` at the same column), `Repeat`, and `EndLine`. The plane's bytes,
4 apart in the RGB32 buffer, are numbered one per pixel; the index checks
are the same. Init picks a plane (`image`) and any of its encodings by a
reference encoder written from spec §4.3: every way to cut each line into
runs of up to 15 literals and 0 or 3..15 repeats, or long runs of 16..47
repeats, with the colour carried between runs of a line. `FuzzInit` starts
the same decoder (`DecoderStart`) on any string of up to n bytes instead:
what a server may send.

### Rle16 (16-bpp RLE decoder)

`rle_16_decompress` step by step, with the code's variable names: `x`,
`height`, `line`/`prevline` (row offsets, or none), `colour1`, `colour2`,
`mix`, `mask`, `mixmask` (a u8), `fom_mask`, `bicolour`, `lastopcode`,
`insertmix`, `opcode`, `count`, `status`.

- `ReadOrder` (lines 141–207): one order header (`OrderHeader`: lite orders
  0xC–0xE, mega orders 0xF0–0xF8 with a u16 count, 0xF9/0xFA with mask 3 or
  5 and count 8, 0xFB–0xFF count 1, regular orders), the zero-count
  extension (`ExtendedCount`), the operands (`OperandBytes`), the remap of
  opcodes 6/7 and 9/10, the `insertmix` flag and the `mixmask` reset. A
  header or operand past the end of the input returns `Io`.
- `EndOfInput` (310–312): no input left, `Ok`.
- `WrapLine` (209–224): `x == width` with pixels left: height − 1, the
  previous row, the new row; `RleDecode` when no row is left.
- One pixel of a run each: `Background` (with the one-shot `insertmix`
  XOR), `White`, `FillOrMix` (the mask bit per pixel, the next mask byte
  when the u8 `mixmask` shifts to 0), `Colour`, `SolidRun` (opcodes 13 and
  14), `Copy` (a u16 per pixel, `Io` when it runs out), `Bicolour` (the
  `count += 1` that makes the run count pairs); `InvalidOpcode` returns
  `RleDecode`. `Put`/`PutPixel` are the `repeat!` macro's write, one pixel
  per step.

Init picks a sequence of up to `MaxOrders` orders (from `Rle16Orders`: each
kind of order, with counts that take the short, the zero-extended and the
mega form), any of its encodings (`EncodingsOf`, every header form the
order table allows), and optionally cuts the last `MaxCut` bytes off. The
expected result `expected` is computed by `RefDecode`, a reference decoder
written as operators from spec §4.3's order table, not from the code.
`FuzzInit` gives any string of up to n bytes instead, with `NoReference`
as the expected result.

### DecoderSpec (what a decoder promises)

An abstract decoder: `status` is `busy` and then, in one step, the result;
on `Ok` the buffer is the expected image, on an error any buffer of the
right size. For input with no reference (status `unknown`) the result is
any of `Ok`, `Io` and `RleDecode`: spec §8 asks that random input "decode
to a valid buffer or fail cleanly". Both concrete decoders are checked to
refine it.

### Bitmap (the bitmap decoders composed)

`BitmapEvent::decompress` chooses the decoder by bits per pixel. `Bitmap`
is the sum of `Planar` and `Rle16` (each an `INSTANCE`): `Init` picks
`bpp` 32 or 16, starts that decoder on a reference encoding or on
arbitrary bytes (`pFuzz` records which, for 32 bpp) and holds the other at
an explicit idle state; `Decode32`/`Decode16` are the decoders' steps; `Expand` applies
`rgb565torgb32` to every pixel once a 16-bpp decode returns `Ok`.

`ImplementsDecompress` is `DecoderSpec` instantiated with the refinement
mapping `absStatus` (busy while the chosen decoder runs, then its result,
a panic mapped to a status the abstract spec never takes), `absOutput`
and `absExpected` (for 32 bpp the plane the server encoded with status Ok,
or `unknown` for arbitrary bytes; for 16 bpp `RefDecode`'s result or
`NoReference`). The property checked is
`Abs!SpecReturns`: `Init /\ [][Return]_vars /\ <>(status # "busy")`.
TLC cannot evaluate `WF` of an instantiated action whose variables are
substituted by these expressions, so the weak fairness of `Return` is
stated as the eventuality it implies; `Return` is enabled exactly while the
status is busy, so the two say the same. `Bitmap`'s own fairness is weak
fairness of `Next`: each decoder is one sequential function call.

### Connect (the connection's parses in order)

`Connector::connect` is not in the tree. From spec §4, the client writes
the GCC conference create request, parses the response, and, after the
response returned Ok, parses the license message. `Connect` instantiates
`ClientCoreData`, `Gcc` and `License` and runs them in that order:
`WriteRequest` (`client_core_data`, which may panic on the name),
`SendRequest` (`write_conference_create_request` and the send, after which
the client keeps nothing of the name), `ReadGcc` (a GCC step), `StartLicensing` (only after Ok: the GCC
scratch state `blocks`, `limit`, `pos`, `idx`, `result` is dropped, keeping
`serverData`, and a license message is chosen), `ReadLicense`. Dropping the
scratch state keeps the product of the two input spaces out of the state
space; nothing later reads it.

## Runs

| Run | Config | Expect | What it shows |
|---|---|---|---|
| session | `MCMstscSession.cfg` | pass | `TypeOK`; `AtMostOneReadAfterShutdown`: the reader, having loaded `sync` before the GUI's store, may read once after shutdown, never twice; `SessionEventuallyEnds`: once the window closes or the reader ends, the process exits; `ServerCloseEndsSession`: a TCP close by the server, with or without a disconnect PDU, ends the process. The spinning reader does not end it, but the GUI's next pointer write fails and main panics. 71,225 states, about 20 s. |
| session_bitmap_error | `MCMstscSession_BitmapErrorSparesSession.cfg` | violation | one bad bitmap ends the process. |
| input | `MCInputSync.cfg` | pass | `TypeOK`; `KeysSyncedWhileAnyHeld`: while any key is held, the server's key set equals the held keys. |
| input_forwarding | `MCInputSync_ServerInputFollowsLocal.cfg` | violation | `ServerInputFollowsLocal` (spec §1): the server's keys and button equal the local ones after every frame. TLC's trace releases the last key, which is never sent; the other way to break it is a Left→Middle switch, which releases "Middle" and leaves Left down. |
| connect | `MCConnect.cfg` | pass | `TypeOK`; `GccAcceptsExactlyWellFormed`: Ok exactly when every block whose 4-byte header lies inside L is complete within L and well formed, and a core and a network block are among them, reporting the last network block's channels (a header L cuts is the question of `gcc_whole_blocks`); `LicenseAcceptsExactlySpecCases`: licensing starts only after GCC Ok, and accepts exactly the messages spec §4.4 accepts; `ClientNameRoundTrips` (spec §8): the `clientName` field decodes as UTF-16LE to the user's name, whole characters of it followed by NULs, the characters' UTF-8 bytes and the NULs together 16, and NULs only when the whole name is there; `ClientNameFitsField`: the field never exceeds its 32 bytes. 134,718 states, under a minute. |
| gcc_version | `MCGcc_RdpVersionMatchesWire.cfg` | violation | `Version::from` swaps the two versions. |
| gcc_whole_blocks | `MCGcc_UserDataIsWholeBlocks.cfg` | violation | `UserDataIsWholeBlocks` (spec §4.4, user data is a concatenation of blocks): Ok only when L ends where a block ends. TLC's trace: core, network and a 4-byte block with L = 18, so two bytes of the last header are in L; the header read fails, the loop takes it for the end and the response is accepted. |
| connect_panic | `MCConnect_NeverPanics.cfg` | violation | `ConnectNeverPanics` (spec §7): TLC's trace is a GCC response without a core or network block, which panics on the HashMap index; a license `wMsgSize < 4` overflows `size - 4` as well. The client name is the CLI default here, so that the trace is one a server causes. |
| bitmap | `MCBitmap.cfg` | pass | `TypeOK`; `ImplementsDecompress`: both decoders refine `DecoderSpec`: every reference encoding, including one cut short by a byte, returns, never panics, and on Ok gives the reference image, and every 16-bpp string of up to 3 bytes returns Ok, Io or RleDecode; `Rgb32RoundsChannels`: the expanded 16-bpp image is the decoded image with each channel scaled to round(c·255/31) or round(c·255/63). About 806,000 states, 2–3.5 min. |
| planar_panic | `MCBitmap_PlanarFuzz.cfg` | violation | `ImplementsDecompress` on arbitrary plane bytes: the one-byte plane `0x41` is a 20-pixel repeat that runs past a 4-pixel bottom line and panics. |
| blit | `MCBlit.cfg` | pass | `TypeOK`; `BlitMemorySafe`: in either build and for any rectangle, including ones whose right or bottom is below left or top, no `copy_nonoverlapping` leaves either buffer; `BlitOkPaintsRectangle`: a transfer that returns Ok has painted exactly the rectangle, row r from pixel r·width. 416 states. |
| rle16_zero_background | `MCRle16_ZeroBackground.cfg` | violation | `MatchesSpecDecoder`: a zero-count background order leaves `insertmix` set, and a later background run that follows a white run XORs its first pixel. |

Each property of a passing run has a mutant in `PROJECT.json`: a plausible
bug in the mapped definition (the sync load ignored, the pointer write skipped in some frames, the Disconnected arm
not storing false, the release loop dropped, scancodes narrowed to a byte,
`&&` written as `||`, code units written big-endian, a name cut and padded by characters, raw PDUs forwarded, a white pixel added instead of written, a bicolour run counting pixels instead of pairs, RGB565 channels truncated, the blit's `src_i + count` check dropped, its loop bound without `+ 1` or signed) that TLC finds violating it.

## Bounds

- `MstscSession`: `MaxPdus = 3` PDUs of all five kinds. Three PDUs are
  enough for a bitmap queued behind another while the GUI shuts down, a
  partial PDU at shutdown, and a close after data; `readsAfterShut` is capped
  at 2, which is all the invariant needs to see.
- `InputSync`: three keys, one with a one-byte scancode (A) and two extended
  ones (RightAlt 0xE038, Delete 0xE053), and all three mouse buttons with
  their wire values (Left 1, Right 2, Middle 3, so Left|Middle = Middle and
  Left|Right = Middle). Every subset of keys and buttons is possible at every
  frame.
- `Gcc`: up to three blocks from ten: core blocks with each version value
  and one too short for `rdpVersion`; network blocks with 0, 1 and 2
  channels, one declaring a channel it does not carry and one on channel
  1004; a security block, a client-type block the match ignores, and a
  length of 2. L is the blocks' total minus 6 or 2 (cutting a header or a
  body), equal, or 4 more.
- `Bitmap`, 32 bpp: 4×2 planes over {0, 128}: four pixels a line leave room for
  a literal followed by a repeat run of three, two lines give a delta line,
  and the two values give deltas of 0 and ±128, the extreme delta
  -128 (byte 255) included. Long runs (16..47) do not fit in a line of
  4, so the reference encoder never emits one.
- `Bitmap`, 16 bpp: a 4×3 image, up to 3 orders from 14 (background 2
  and 33, white 3, white 2 after a mix colour, fill-or-mix 10 and 3 with
  and without a new mix, the remapped opcodes 9 and 10, colour, copy,
  bicolour, 13, 14 and the invalid 15), each in every header form, cut by
  0–1 bytes; and every string of up to 3 bytes from 12 code bytes, one of
  each header class (regular orders of each opcode and count 0, lite,
  mega, fill-or-mix with a fixed mask, white). Counts of 2, 3 and 10 cross a line of 4, 33 runs past the
  image (`RleDecode`), a fill-or-mix of 10 needs a second mask byte, and
  three orders give background-after-background. The zero-count run uses
  orders {bg 2, bg 0, white 3} and up to 4 of them.
- `Bitmap`, arbitrary planes (`planar_panic`): every string of up to 2
  of the same 12 bytes, on the 4×2 plane.
- `Blit`: a 4×3 window, nine events (inside the window, touching its right
  and bottom edges, overhanging the right edge, past the bottom, with
  `right < left`, with `bottom < top`, and a bitmap narrower than the
  rectangle), two transfers in a row so the second starts from the first's
  buffer, both builds, and usize of 8 bits: every value the loop computes
  before it stops is far below 256 (an `ASSUME` checks this), so only a
  subtraction below zero wraps, as with 64 bits.
- `Connect`: the `Gcc` and `License` values above. The client names are
  the CLI default `mstsc-rs`; the empty name; 16 and 17 ASCII letters;
  eight e-acutes (16 bytes, so the cut falls on a boundary); a letter and
  eight e-acutes (byte 16 falls inside a character); a euro sign followed by
  U+10000 and U+10FFFF; and four emoji (16 bytes, 8 units). Together they
  put the cut below, at, above and inside a character, and cover every
  UTF-8 length and both ends of the surrogate range.
- `License`: each field takes values on both sides of every comparison the
  code makes (`wMsgSize` 3/4/16/17; available bytes 0/12/13; blob length 0/1;
  known and unknown enum values).

## Findings

1. A header cut by the GCC user-data length is dropped silently
   (`core/gcc.rs:360`): the loop ends at the first header it cannot read,
   whether the blocks ended there or L cut one, and the response is
   accepted without the cut block.
2. Bitmap error ends the process (`bin/mstsc-rs.rs:336`). Spec §7 says the
   frame is aborted, not the session.
3. Last key release never sent (`bin/mstsc-rs.rs:373`).
4. Direct button switch sends a release of `last | current`
   (`bin/mstsc-rs.rs:362–364`).
5. `wMsgSize - 4` overflow in the license preamble (`core/license.rs:76`).
6. `Version::from` swaps RdpVersion and RdpVersion5plus (`core/gcc.rs:28`).
7. A GCC response missing the core or network block panics on the HashMap
   index (`core/gcc.rs:389`); a block length below 4 overflows (364).
   Findings 5 and 7 are both counterexamples to `ConnectNeverPanics`.
9. A 32-bpp plane run longer than the rest of its line is not stopped
   (`codec/rle.rs:28–41`): on the first two lines decoded it indexes past
   the plane and panics. Decompression runs on the GUI thread, so one
   malformed bitmap aborts the client, where spec §7 wants an error kind.

8. A zero-count background order leaves `insertmix` set
   (`codec/rle.rs:180`): the flag is set when a background order follows a
   background order and cleared only when a background pixel is drawn. With
   `02 F0 00 00 23 F0 02 00` (background 2, background 0, white 3,
   background 2) the code XORs pixel 5 with the mix, giving 0xFFFF, where
   spec §4.3 draws 0.

Observation, not a run: the `connect` run reaches a panic of
`client_core_data` for the name of a letter and eight e-acutes
(`core/gcc.rs:222`, `&name[0..16]` inside a character). It also writes a
16-byte `clientName` for eight e-acutes: the padding counts UTF-8 bytes, so
a non-ASCII name yields a field shorter than the 32 bytes MS-RDPBCGR
reserves, and the fields after it shift. `ClientNameFitsField` shows that
the field never runs over.

Observation, not a run: the blit's checks accept a row that overhangs
the right edge of the window (`dest_left + count` up to the buffer's
length); it wraps onto the next row of the framebuffer. Spec §9 recommends
checking `dest_left + count <= width`.

Spec gap: like rdesktop, the code skips the `insertmix` XOR while
`prevline` is none and `x == width`, i.e. at decode positions 0 and W. The
spec's table has no such exception. `RefDecode` includes it, since both
rdesktop and this code agree on it and it is what servers expect.

## Not modelled, and the plan

- `to_scancode`'s panic on an unmapped key, which ends the client (it runs
  on the main thread): spec §9 leaves it as an open question, and
  `InputSync` takes only the keys the table maps.
- The constant fields of `client_core_data` and the PER prelude of
  `write_conference_create_request`: fixed bytes with no behaviour to check.
- `rle_32_decompress`'s header byte and four planes: the planes are the same
  code on disjoint bytes, so `Bitmap` decodes one.
- The rest of the connection sequence (TPKT, X.224, MCS, security, the
  share layer) is described by `spec.md` but its code is not in this tree.
- The mpsc channel's unbounded growth and a stalled server holding the lock in `read` are
  listed as hazards; the second is excluded by the fairness on
  `ServerFinishPdu`.
