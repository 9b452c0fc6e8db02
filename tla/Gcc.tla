-------------------------------- MODULE Gcc --------------------------------
(***************************************************************************)
(* The user-data half of read_conference_create_response                   *)
(* (src/core/gcc.rs): after the PER prelude, a length L, then a loop that  *)
(* reads (type, length) block headers from the stream limited to L bytes,  *)
(* reads length - 4 bytes of body, decodes server core, security and       *)
(* network blocks into a HashMap, and at the first header that cannot be   *)
(* read builds ServerData from the ScNet and ScCore entries.               *)
(*                                                                         *)
(* A block is abstracted to its header fields and the fields its decoder   *)
(* looks at: rdpVersion of a core block, MCSChannelId and channelCount of  *)
(* a network block.  Blocks lie one after another, each taking as many     *)
(* bytes as its length field says; the PER length L may be shorter or      *)
(* longer than the blocks the server wrote.                                *)
(***************************************************************************)
EXTENDS Integers, Sequences, SequencesExt, GccWire

CONSTANTS
  BlockSet,     \* the blocks the server may send
  MaxBlocks,    \* the most blocks in one response
  LimitDeltas   \* PER length L minus the bytes of the blocks written

Outcomes == {"Ok", "Io", "InvalidConst", "panic"}

VARIABLES
  blocks,      \* the blocks the server wrote
  limit,       \* the PER length L of the user data
  pos,         \* bytes of the take(L) stream consumed
  idx,         \* index of the next block
  result,      \* the HashMap: block type -> decoded block, or NoBlock
  outcome,     \* "reading", then the result of the function
  serverData   \* the ServerData returned with Ok

vars == <<blocks, limit, pos, idx, result, outcome, serverData>>

SumLengths(s) == FoldLeft(LAMBDA acc, b : acc + b.length, 0, s)

\* Bytes the take(L) stream yields: L, or fewer when the blocks end first.
Avail == IF limit < SumLengths(blocks) THEN limit ELSE SumLengths(blocks)
Remaining == Avail - pos

\* Fault: the server-side security and network codes swapped.
MessageType_from_swapped(e) ==
  CASE e = MessageType.ScCore -> "ScCore"
    [] e = MessageType.ScSecurity -> "ScNet"
    [] e = MessageType.ScNet -> "ScSecurity"
    [] OTHER -> "Unknown"

\* MessageType::from(u16), restricted to the arms the match distinguishes.
MessageType_from(e) ==
  CASE e = MessageType.ScCore -> "ScCore"
    [] e = MessageType.ScSecurity -> "ScSecurity"
    [] e = MessageType.ScNet -> "ScNet"
    [] OTHER -> "Unknown"

\* Version::from(u32).
Version_from(e) ==
  CASE e = 524289 -> "RdpVersion5plus"
    [] e = 524292 -> "RdpVersion"
    [] OTHER -> "Unknown"

\* Fault: server_network_data without the MCSChannelId Check.
server_block_read_nocheck(t, b, n) ==
  CASE t = "ScCore" -> IF n < 4 THEN "Io" ELSE "read"
    [] t = "ScSecurity" -> IF n < 8 THEN "Io" ELSE "read"
    [] t = "ScNet" -> IF n < 4 + 2 * b.channelCount THEN "Io" ELSE "read"
    [] OTHER -> "read"

\* Decoding a block body of n bytes from its Cursor: server_core_data needs
\* the u32 rdpVersion (the two later fields are optional);
\* server_security_data two u32; server_network_data the MCSChannelId
\* Check(1003), the channelCount u16 and channelCount * 2 bytes of ids.
\* Unknown types are only logged.
server_block_read(t, b, n) ==
  CASE t = "ScCore" -> IF n < 4 THEN "Io" ELSE "read"
    [] t = "ScSecurity" -> IF n < 8 THEN "Io" ELSE "read"
    [] t = "ScNet" -> IF n < 2 THEN "Io"
                      ELSE IF b.mcsChannelId # 1003 THEN "InvalidConst"
                      ELSE IF n < 4 + 2 * b.channelCount THEN "Io"
                      ELSE "read"
    [] OTHER -> "read"

\* One pass of the loop body after a successful header read: the buffer of
\* length - header.length() bytes (u16 arithmetic), read_exact, and the
\* decode.  A length below 4 overflows: a panic with overflow checks,
\* otherwise a buffer of nearly 64 KiB that read_exact cannot fill.
BlockOutcomes(b, rem) ==
  LET n == (b.length - 4) % 65536
      t == MessageType_from(b.type)
  IN (IF b.length < 4 THEN {"panic"} ELSE {})
     \cup (IF n > rem - 4 THEN {"Io"} ELSE {server_block_read(t, b, n)})

Init ==
  /\ blocks \in BoundedSeq(BlockSet, MaxBlocks)
  /\ \E d \in LimitDeltas : limit = IF SumLengths(blocks) + d < 0 THEN 0
                                    ELSE SumLengths(blocks) + d
  /\ pos = 0
  /\ idx = 1
  /\ result = [t \in ScTypes |-> NoBlock]
  /\ outcome = "reading"
  /\ serverData = [channelIds |-> 0, rdpVersion |-> "Unknown"]

\* A header is read (at least 4 bytes remain) and its block processed.
ReadBlock ==
  /\ outcome = "reading"
  /\ Remaining >= 4
  /\ LET b == blocks[idx]
         t == MessageType_from(b.type)
     IN \E o \in BlockOutcomes(b, Remaining) :
          IF o = "read"
            THEN /\ pos' = pos + b.length
                 /\ idx' = idx + 1
                 /\ result' = IF t \in ScTypes THEN [result EXCEPT ![t] = b] ELSE result
                 /\ UNCHANGED outcome
            ELSE /\ outcome' = o
                 /\ UNCHANGED <<pos, idx, result>>
  /\ UNCHANGED <<blocks, limit, serverData>>

\* The header read fails ("No more blocks to read"); ServerData is built
\* from result[&ScNet] and result[&ScCore], which panic when absent.
EndOfBlocks ==
  /\ outcome = "reading"
  /\ Remaining < 4
  /\ IF result.ScNet = NoBlock \/ result.ScCore = NoBlock
       THEN /\ outcome' = "panic"
            /\ UNCHANGED serverData
       ELSE /\ outcome' = "Ok"
            /\ serverData' = [channelIds |-> result.ScNet.channelCount,
                              rdpVersion |-> Version_from(result.ScCore.rdpVersion)]
  /\ UNCHANGED <<blocks, limit, pos, idx, result>>

Next == ReadBlock \/ EndOfBlocks

Spec == Init /\ [][Next]_vars /\ WF_vars(Next)

-----------------------------------------------------------------------------
(* Properties.                                                             *)

Block == [type : {MessageType[t] : t \in DOMAIN MessageType}, length : 0..65535,
          rdpVersion : Nat, mcsChannelId : 0..65535, channelCount : 0..65535]

\* Every decoded block sits in the HashMap slot of its own type.
TypeOK ==
  /\ outcome \in Outcomes \cup {"reading"}
  /\ pos \in 0..Avail
  /\ result \in [ScTypes -> Block \cup {NoBlock}]
  /\ \A t \in ScTypes : result[t] \in {NoBlock} \cup {b \in Block : b.type = MessageType[t]}
  /\ serverData.rdpVersion \in {"RdpVersion", "RdpVersion5plus", "Unknown"}

\* Byte offset of block i, counting the declared lengths before it.
Offset(i) == SumLengths(SubSeq(blocks, 1, i - 1))

\* The blocks whose 4-byte header lies within the L bytes.
HeaderRead == {i \in 1..Len(blocks) : Offset(i) + 4 <= Avail}

\* A block whose declared length covers its header and the fields of its
\* type, with the network block naming the I/O channel 1003.
WellFormed(b) ==
  /\ b.length >= 4
  /\ MessageType_from(b.type) = "ScCore" => b.length >= 8
  /\ MessageType_from(b.type) = "ScSecurity" => b.length >= 12
  /\ MessageType_from(b.type) = "ScNet" =>
        b.mcsChannelId = 1003 /\ b.length >= 8 + 2 * b.channelCount

LastOfType(t) ==
  LET is == {i \in HeaderRead : MessageType_from(blocks[i].type) = t}
  IN blocks[CHOOSE i \in is : \A j \in is : j <= i]

\* Spec section 4.4: the response yields server core and server net data;
\* a block is decoded from exactly its declared length.
SpecAccepts ==
  /\ \A i \in HeaderRead : WellFormed(blocks[i]) /\ Offset(i) + blocks[i].length <= Avail
  /\ \A t \in {"ScCore", "ScNet"} : \E i \in HeaderRead : MessageType_from(blocks[i].type) = t

(* read_conference_create_response returns Ok exactly for responses whose *)
(* every block with its 4-byte header inside L is complete within L and    *)
(* well formed, and which carry a core and a network block among those,    *)
(* and then reports the channel count of the last network block: the u16  *)
(* length arithmetic, take(L), read_exact, the per-type decoders and the   *)
(* HashMap together agree with the block layout.  What L does to a header  *)
(* it cuts is the separate question of UserDataIsWholeBlocks.             *)
AcceptsExactlyWellFormed ==
  outcome # "reading" =>
     /\ outcome = "Ok" <=> SpecAccepts
     /\ outcome = "Ok" => serverData.channelIds = LastOfType("ScNet").channelCount

(* Spec section 4.4: the user data is a concatenation of (type, length,  *)
(* body) blocks.  A response is accepted only when L ends where a block   *)
(* ends: the loop's `if header.read(&mut sub).is_err() { break; }` must   *)
(* not treat one to three bytes of a header cut by L as the end of the    *)
(* blocks.                                                                 *)
UserDataIsWholeBlocks ==
  outcome = "Ok" => \E i \in 1..Len(blocks) + 1 : Offset(i) = Avail

(* The rdpVersion reported in ServerData is the Version whose discriminant *)
(* the server's core block carries (Version::from round-trips the enum).   *)
RdpVersionMatchesWire ==
  outcome = "Ok" /\ serverData.rdpVersion # "Unknown" =>
     Version[serverData.rdpVersion] = result.ScCore.rdpVersion


=============================================================================
