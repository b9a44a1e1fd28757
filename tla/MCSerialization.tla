--------------------------- MODULE MCSerialization ---------------------------
(* Instances of Serialization for TLC: two vdevs, three kinds of commands. *)
EXTENDS Serialization, TLC

CONSTANTS va, vb, a1, a2, b1, b2, c1, c2, c3, t, mc

MCVdev == {va, vb}
MCCmd == {a1, a2, b1, b2}
MCVdevOf == [k \in MCCmd |-> IF k \in {a1, a2} THEN va ELSE vb]
MCCell == {c1, c2, c3}
MCThread == {t, mc}
ThreeCmds == {a1, a2, b1}
ThreeVdevOf == [k \in ThreeCmds |-> IF k = b1 THEN vb ELSE va]
Nothing == {}
OneBlocking == {b1}
TwoBlocking == {a1, b1}
OneHigh == {a2}
Cells == Permutations(MCCell)
=============================================================================
