----------------------------- MODULE MCTailShift -----------------------------
(* Instance of TailShift for TLC: every cell starts out distinct, so a cell  *)
(* that is lost, duplicated or misplaced is seen.                            *)
EXTENDS TailShift

MCCell == 0 .. 7
Numbered(n) == [size |-> n, at |-> [i \in 0 .. n - 1 |-> i + 1]]
MCDevices == {Numbered(n) : n \in 1 .. 7}
=============================================================================
