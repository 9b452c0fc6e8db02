------------------------------ MODULE MCConnect ------------------------------
(* The connection checked with the GCC blocks of GccBlocks and the        *)
(* license field values of LicenseValues.                                   *)
EXTENDS Connect, GccBlocks, LicenseValues

\* The CLI's default --name, "mstsc-rs".
MCDefaultName == {<<109, 115, 116, 115, 99, 45, 114, 115>>}

\* Names on each side of the 16-byte cut: the default (8 bytes, 8 NULs),
\* the empty name, 16 and 17 ASCII letters, eight e-acutes (2 bytes each,
\* a cut on a boundary), a letter and eight e-acutes (byte 16 inside a
\* character), a euro sign and supplementary characters at both ends of
\* the surrogate range, and four emoji (16 bytes, 8 UTF-16 units).
MCNames ==
  MCDefaultName \cup
  { <<>>,
    [i \in 1..16 |-> 97], [i \in 1..17 |-> 97],
    [i \in 1..8 |-> 233], <<97>> \o [i \in 1..8 |-> 233],
    <<8364, 65536, 1114111>>, [i \in 1..4 |-> 128512] }
=============================================================================
