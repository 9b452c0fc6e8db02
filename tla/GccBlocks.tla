------------------------------ MODULE GccBlocks ------------------------------
(* The GCC response blocks the models let the server send.                *)
EXTENDS GccWire

\* Core blocks reporting each RdpVersion value and an unknown one; a core
\* block too short for rdpVersion.
MCCore == {[NoBlock EXCEPT !.type = MessageType.ScCore, !.length = 8, !.rdpVersion = v]
             : v \in {524289, 524292}}
          \cup {[NoBlock EXCEPT !.type = MessageType.ScCore, !.length = 6, !.rdpVersion = 524292]}
\* Network blocks with zero to two channel ids, one declaring a channel it
\* does not carry, and one on another MCS channel.
MCNet == {[NoBlock EXCEPT !.type = MessageType.ScNet, !.length = 8 + 2 * c,
             !.mcsChannelId = 1003, !.channelCount = c] : c \in {0, 1, 2}}
         \cup {[NoBlock EXCEPT !.type = MessageType.ScNet, !.length = 8,
                  !.mcsChannelId = 1003, !.channelCount = 1],
               [NoBlock EXCEPT !.type = MessageType.ScNet, !.length = 8,
                  !.mcsChannelId = 1004, !.channelCount = 0]}
\* A security block, a client block the match ignores, a length below 4.
MCOther == {[NoBlock EXCEPT !.type = MessageType.ScSecurity, !.length = 12],
            [NoBlock EXCEPT !.type = MessageType.CsCore, !.length = 4],
            [NoBlock EXCEPT !.type = MessageType.ScSecurity, !.length = 2]}

MCBlockSet == MCCore \cup MCNet \cup MCOther
MCMaxBlocks == 3
\* L cutting a header, cutting a body, exact, and longer than the blocks.
MCLimitDeltas == {-6, -2, 0, 4}
=============================================================================
