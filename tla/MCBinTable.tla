----------------------------- MODULE MCBinTable ------------------------------
(* Instance of BinTable for TLC: every cell starts out distinct.             *)
EXTENDS BinTable

MCColumn == {"a", "b", "c", "v"}
MCWidth == [c \in MCColumn |-> IF c = "c" THEN 2 ELSE 1]
MCCell == 0 .. 30
MCTables == {[cols |-> <<"a", "c", "b">>, rows |-> 2, theap |-> FALSE],
             [cols |-> <<"v", "a">>, rows |-> 3, theap |-> TRUE]}
=============================================================================
