----------------------------- MODULE MCAppShell -----------------------------
(* Three texts: none, a plain one, and one with an & in it, of which the   *)
(* address carries the part before that.                                   *)
EXTENDS AppShell, TLC

PartOf == [t \in Texts |-> IF t = 2 THEN 3 ELSE t + 1]
Alike == Permutations(Conn)
=============================================================================
