---------------------------- MODULE MCWireForms ----------------------------
(***************************************************************************)
(* WireForms with bytes of three bits, and a word of eight of them; the    *)
(* numbers at both sides of every border between two forms.                *)
(***************************************************************************)
EXTENDS WireForms



MCBorders == {0, argInlineMax, B1, B2, B4, B8 \div 2, B8 - 2}
MCNumbers == {0} \cup UNION {{b - 1, b, b + 1} : b \in MCBorders \ {0}}
MCHalves  == {0, 1, 2, B1 \div 2, B2 \div 2, B4 \div 2, B8 \div 2 - 1}
MCSigned  == UNION {{n, - n, - n - 1} : n \in MCHalves}
MCBig     == MCSigned \cup {B8 \div 2, - (B8 \div 2) - 1, B8, B8 * 4 - 1, B8 * 4, -(B8 * 4) - 1}
MCPayloads == MCNumbers \cup {B8, B8 + 1, B8 * 8 - 1, 9, 10}
MCLengths == {0, 1, 2, 3, B8 - 2, B8 - 1}
MCBodies  == UNION {[1 .. n -> {0, 1}] : n \in 0 .. 3}
=============================================================================
