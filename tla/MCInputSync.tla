----------------------------- MODULE MCInputSync -----------------------------
(* Three keys, two of them extended (0xE0-prefixed) scancodes, and the     *)
(* PointerButton values of rdp::core::event: None 0, Left 1, Right 2,       *)
(* Middle 3.                                                                *)
EXTENDS InputSync

MCKeys == {"A", "RightAlt", "Delete"}
MCScanCode == [k \in MCKeys |-> CASE k = "A" -> 30          \* 0x001E
                                  [] k = "RightAlt" -> 57400 \* 0xE038
                                  [] k = "Delete" -> 57427]  \* 0xE053
MCButtonValue == [b \in Buttons |-> CASE b = "None" -> 0 [] b = "Left" -> 1
                                      [] b = "Right" -> 2 [] b = "Middle" -> 3]
=============================================================================
