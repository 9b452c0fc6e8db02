-------------------------------- MODULE Bitmap --------------------------------
(***************************************************************************)
(* BitmapEvent::decompress: a 32-bpp event goes through rle_32_decompress *)
(* (four planes, each decoded by process_plane); a 16-bpp event through   *)
(* rle_16_decompress, then rgb565torgb32.  One event is decoded per       *)
(* behaviour: the decoder not chosen stays at its initial state.  The     *)
(* 32-bpp side is one plane (the four calls are the same code on disjoint *)
(* bytes of the buffer).                                                  *)
(***************************************************************************)
EXTENDS Integers, Sequences

CONSTANTS
  Width32, Height32, PixelValues,             \* the 32-bpp events
  Width16, Height16, Orders, MaxOrders, MaxCut, \* the 16-bpp events
  FuzzBytes,                  \* the bytes of arbitrary input
  FuzzLen32, FuzzLen16        \* its length, for each decoder

VARIABLES
  bpp,
  pImage, pInput, pIp, pIndexh, pIndexw, pOut, pThisLine, pLastLine, pColor,
  pCollen, pReplen, pOutput, pStatus,
  rInput, rIp, rX, rHeight, rLine, rPrevline, rColour1, rColour2, rMix, rMask,
  rMixmask, rFomMask, rBicolour, rLastopcode, rInsertmix, rOpcode, rCount,
  rOutput, rStatus, rExpected,
  rgb,      \* the RGB32 pixels of a 16-bpp event, <<>> until expanded
  pFuzz     \* the 32-bpp input is arbitrary, not a reference encoding

P == INSTANCE Planar WITH Width <- Width32, Height <- Height32,
       image <- pImage, input <- pInput, ip <- pIp, indexh <- pIndexh,
       indexw <- pIndexw, out <- pOut, thisLine <- pThisLine,
       lastLine <- pLastLine, color <- pColor, collen <- pCollen,
       replen <- pReplen, output <- pOutput, status <- pStatus

R == INSTANCE Rle16 WITH Width <- Width16, Height <- Height16,
       input <- rInput, ip <- rIp, x <- rX, height <- rHeight, line <- rLine,
       prevline <- rPrevline, colour1 <- rColour1, colour2 <- rColour2,
       mix <- rMix, mask <- rMask, mixmask <- rMixmask, fomMask <- rFomMask,
       bicolour <- rBicolour, lastopcode <- rLastopcode, insertmix <- rInsertmix,
       opcode <- rOpcode, count <- rCount, output <- rOutput, status <- rStatus,
       expected <- rExpected

pvars == <<pImage, pInput, pIp, pIndexh, pIndexw, pOut, pThisLine, pLastLine,
           pColor, pCollen, pReplen, pOutput, pStatus>>
rvars == <<rInput, rIp, rX, rHeight, rLine, rPrevline, rColour1, rColour2, rMix,
           rMask, rMixmask, rFomMask, rBicolour, rLastopcode, rInsertmix, rOpcode,
           rCount, rOutput, rStatus, rExpected>>
vars == <<bpp, pvars, rvars, rgb, pFuzz>>

\* Fault: the rounding constants left out.
rgb565torgb32_truncating(v) ==
  << ((v % 32) * 527) \div 64 % 256,
     (((v \div 32) % 64) * 259) \div 64 % 256,
     (((v \div 2048) % 32) * 527) \div 64 % 256,
     255 >>

\* The 16-bit pixel v as <<B, G, R, A>> bytes:
\* ((v & 0x1f) * 527 + 23) >> 6, (((v >> 5) & 0x3f) * 259 + 33) >> 6,
\* (((v >> 11) & 0x1f) * 527 + 23) >> 6, 0xff, each `as u8`.
rgb565torgb32(v) ==
  << ((v % 32) * 527 + 23) \div 64 % 256,
     (((v \div 32) % 64) * 259 + 33) \div 64 % 256,
     (((v \div 2048) % 32) * 527 + 23) \div 64 % 256,
     255 >>

\* A decoder at rest: the state its Init gives an empty input.
PIdle ==
  /\ pImage = [i \in 0..P!Size - 1 |-> 0] /\ pInput = <<>> /\ pIp = 1
  /\ pIndexh = 0 /\ pIndexw = 0 /\ pOut = 0 /\ pThisLine = 0 /\ pLastLine = 0
  /\ pColor = 0 /\ pCollen = 0 /\ pReplen = 0
  /\ pOutput = [i \in 0..P!Size - 1 |-> 0] /\ pStatus = "line"
RIdle ==
  /\ rInput = <<>> /\ rIp = 1 /\ rX = Width16 /\ rHeight = Height16
  /\ rLine = R!None /\ rPrevline = R!None /\ rColour1 = 0 /\ rColour2 = 0
  /\ rMix = 65535 /\ rMask = 0 /\ rMixmask = 0 /\ rFomMask = 0
  /\ rBicolour = FALSE /\ rLastopcode = 255 /\ rInsertmix = FALSE
  /\ rOpcode = 0 /\ rCount = 0 /\ rOutput = [i \in 0..R!Size - 1 |-> 0]
  /\ rStatus = "ok" /\ rExpected = R!RefDecode(<<>>)

Init ==
  /\ rgb = <<>>
  /\ \/ /\ bpp = 32 /\ RIdle
        /\ \/ P!Init /\ pFuzz = FALSE
           \/ P!FuzzInit(FuzzBytes, FuzzLen32) /\ pFuzz = TRUE
     \/ /\ bpp = 16 /\ PIdle /\ pFuzz = FALSE
        /\ R!Init \/ R!FuzzInit(FuzzBytes, FuzzLen16)

Decode32 == bpp = 32 /\ P!Next /\ UNCHANGED <<bpp, rvars, rgb, pFuzz>>
Decode16 == bpp = 16 /\ R!Next /\ UNCHANGED <<bpp, pvars, rgb, pFuzz>>

\* rle_16_decompress returned Ok: the buffer is expanded to RGB32.
Expand ==
  /\ bpp = 16 /\ rStatus = "Ok" /\ rgb = <<>>
  /\ rgb' = [i \in 1..R!Size |-> rgb565torgb32(rOutput[i - 1])]
  /\ UNCHANGED <<bpp, pvars, rvars, pFuzz>>

Next == Decode32 \/ Decode16 \/ Expand

\* decompress is a plain loop on the reader thread: it keeps running.
Spec == Init /\ [][Next]_vars /\ WF_vars(Next)


-----------------------------------------------------------------------------
(* Properties.                                                             *)

TypeOK ==
  /\ bpp \in {16, 32}
  /\ P!TypeOK
  /\ R!TypeOK
  /\ rgb \in {<<>>} \cup [1..R!Size -> [1..4 -> 0..255]]
  /\ pFuzz \in BOOLEAN

\* The decoder of the event, seen as DecoderSpec: still running, or
\* returned with a result kind and a buffer; what the input means is the
\* image the 32-bpp server encoded, or the 16-bpp reference decoding.
Running == IF bpp = 32 THEN pStatus \in {"line", "code"} ELSE rStatus = "ok"
AbsSize == IF bpp = 32 THEN P!Size ELSE R!Size

absStatus == IF Running THEN "busy" ELSE IF bpp = 32 THEN pStatus ELSE rStatus
absOutput == IF Running THEN [i \in 0..AbsSize - 1 |-> 0]
             ELSE IF bpp = 32 THEN pOutput ELSE rOutput
absExpected == CASE bpp = 16 -> rExpected
                [] pFuzz -> [status |-> "unknown", output |-> pImage]
                [] OTHER -> [status |-> "Ok", output |-> pImage]

Abs == INSTANCE DecoderSpec WITH
         status <- absStatus, buffer <- absOutput, expected <- absExpected

(* decompress implements DecoderSpec: whichever decoder the event takes,   *)
(* the call returns (no input keeps either loop running), never panics,   *)
(* and returns the reference's result kind and, on Ok, its buffer.  For   *)
(* 32 bpp every reference encoding of the image decodes to the image; for *)
(* 16 bpp every input made of the orders, in any wire form and cut short, *)
(* decodes as the order table says; and every string of up to FuzzLen32   *)
(* or FuzzLen16 bytes (spec 8: "fail cleanly - never overrun") returns    *)
(* Ok, Io or RleDecode.                                                   *)
ImplementsDecompress == Abs!SpecReturns

\* round(c * 255 / m) for a channel value c of maximum m.
Rounded(c, m) == (2 * c * 255 + m) \div (2 * m)

\* The expansion the spec asks of the 16-bit pixel v.
RoundedRgb32(v) ==
  <<Rounded(v % 32, 31), Rounded((v \div 32) % 64, 63), Rounded(v \div 2048, 31), 255>>

(* rgb565torgb32 scales each channel to 0..255 with rounding (spec 4.3:   *)
(* "scale-and-round constants"), blue from the low 5 bits, green from the *)
(* middle 6, red from the top 5, alpha 0xFF: the buffer of every 16-bpp   *)
(* event decoded Ok is the rounded expansion of the decoded pixels, and   *)
(* the expansion rounds every value of each channel.                      *)
Rgb32RoundsChannels ==
  rgb # <<>> =>
     /\ \A i \in 1..R!Size : rgb[i] = RoundedRgb32(rOutput[i - 1])
     /\ \A c \in 0..63 : LET v == (c % 32) + 32 * c + 2048 * (31 - (c % 32))
                         IN rgb565torgb32(v) = RoundedRgb32(v)

=============================================================================
