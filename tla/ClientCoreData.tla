---------------------------- MODULE ClientCoreData ----------------------------
(***************************************************************************)
(* The clientName field of client_core_data (src/core/gcc.rs), written    *)
(* with the UTF-16LE conversion of src/model/unicode.rs.  A name is the   *)
(* --name string as a sequence of Unicode scalar values; str::len and the *)
(* slice name[0..16] count its UTF-8 bytes, encode_utf16 its UTF-16 code  *)
(* units.  The other fields of the block are constants and not modelled. *)
(***************************************************************************)
EXTENDS Integers, Sequences, SequencesExt

CONSTANT Names   \* the client names the CLI may be given

VARIABLES
  name,     \* ClientData.name
  field,    \* the clientName field's bytes
  status    \* "idle", "written" or "panic" (and "sent" in Connect)

cvars == <<name, field, status>>

NameBytes == 16   \* the 16 of `name.len() >= 16` and `name[0..16]`

\* The UTF-8 length of the character c: what str::len counts.
Utf8Len(c) == CASE c < 128 -> 1 [] c < 2048 -> 2 [] c < 65536 -> 3 [] OTHER -> 4

\* name.len()
ByteLen(s) == FoldLeft(LAMBDA n, c : n + Utf8Len(c), 0, s)

\* The characters of s before byte b, when a character starts at b.
PrefixTo(s, b) == SubSeq(s, 1, CHOOSE k \in 0..Len(s) : ByteLen(SubSeq(s, 1, k)) = b)

\* &name[0..16] panics unless byte 16 is a char boundary.
SliceOk(s) == ByteLen(s) < NameBytes \/ \E k \in 0..Len(s) : ByteLen(SubSeq(s, 1, k)) = NameBytes

\* Fault: the name cut and padded by characters, not bytes.
client_name_chars(s) ==
  IF Len(s) >= NameBytes THEN SubSeq(s, 1, NameBytes)
  ELSE s \o [i \in 1..NameBytes - Len(s) |-> 0]

\* The string client_core_data encodes: the first 16 bytes of the name, or
\* the name followed by 16 - len() NULs.
client_name(s) ==
  IF ByteLen(s) >= NameBytes THEN PrefixTo(s, NameBytes)
  ELSE s \o [i \in 1..NameBytes - ByteLen(s) |-> 0]

\* str::encode_utf16: one unit below 0x10000, a surrogate pair above.
encode_utf16(c) ==
  IF c < 65536 THEN <<c>>
  ELSE LET v == c - 65536 IN <<55296 + v \div 1024, 56320 + (v % 1024)>>

\* Fault: each unit written big-endian.
to_utf16_le_be(s) ==
  LET u == FlattenSeq([i \in DOMAIN s |-> encode_utf16(s[i])])
  IN FlattenSeq([i \in DOMAIN u |-> <<u[i] \div 256, u[i] % 256>>])

\* Unicode::to_utf16_le: encode_utf16, then u16::to_le_bytes of each unit.
to_utf16_le(s) ==
  LET u == FlattenSeq([i \in DOMAIN s |-> encode_utf16(s[i])])
  IN FlattenSeq([i \in DOMAIN u |-> <<u[i] % 256, u[i] \div 256>>])

Init ==
  /\ name \in Names
  /\ field = <<>>
  /\ status = "idle"

\* client_core_data builds the block; the clientName line either panics on
\* the slice or writes the encoded name.
Write ==
  /\ status = "idle"
  /\ IF SliceOk(name)
       THEN field' = to_utf16_le(client_name(name)) /\ status' = "written"
       ELSE status' = "panic" /\ UNCHANGED field
  /\ UNCHANGED name

-----------------------------------------------------------------------------
(* Properties.                                                             *)

\* A UTF-16LE decoder written from the Unicode definition: pairs of bytes
\* to units, a high surrogate followed by a low one to one scalar value.
Units(b) == [i \in 1..Len(b) \div 2 |-> b[2 * i - 1] + 256 * b[2 * i]]
RECURSIVE DecodeUnits(_)
DecodeUnits(u) ==
  IF u = <<>> THEN <<>>
  ELSE IF Len(u) >= 2 /\ u[1] \in 55296..56319 /\ u[2] \in 56320..57343
         THEN <<65536 + (u[1] - 55296) * 1024 + (u[2] - 56320)>> \o DecodeUnits(Tail(Tail(u)))
         ELSE <<u[1]>> \o DecodeUnits(Tail(u))
Utf16LeDecode(b) == DecodeUnits(Units(b))

(* Spec section 8: to_utf16_le is the identity on a round trip through a  *)
(* UTF-16LE decoder.  Read back, the clientName field client_core_data    *)
(* writes is the user's name, whole characters of it, followed by NULs,   *)
(* where the characters take 16 - z UTF-8 bytes for z NULs: the whole     *)
(* name padded by 16 - len() NULs, or, unpadded, the characters of its    *)
(* first 16 bytes.                                                         *)
ClientNameRoundTrips ==
  status = "written" =>
    \E k \in 0..Len(name), z \in 0..NameBytes :
       /\ Utf16LeDecode(field) = SubSeq(name, 1, k) \o [i \in 1..z |-> 0]
       /\ ByteLen(SubSeq(name, 1, k)) + z = NameBytes
       /\ k = Len(name) \/ z = 0

(* The block reserves 32 bytes for clientName (16 UTF-16 units), and the  *)
(* code counts the cut and the padding in UTF-8 bytes: since no character *)
(* has more UTF-16 units than UTF-8 bytes, the field never runs into the  *)
(* next one, whatever the name (it is shorter than 32 bytes, by one unit  *)
(* per extra UTF-8 byte, for a name that is not ASCII).                   *)
ClientNameFitsField == status = "written" => Len(field) <= 2 * NameBytes

=============================================================================
