------------------------------- MODULE MCHeap --------------------------------
(* Instance of Heap for TLC: three cells, a heap of four bytes, and offsets of  *)
(* which the last is more than a descriptor holds.                            *)
EXTENDS Heap

D(len, off) == [len |-> len, off |-> off]

\* A table without payloads; one with a hole between them, and an offset that means
\* nothing.
MCTables == { <<D(0, 0), D(0, 0), D(0, 0)>>, <<D(2, 0), D(1, 3), D(0, -1)>> }

\* Tables of other programs: a shared extent, extents that overlap (the second
\* must move upwards over itself; it would move onto the third; they do not fit
\* one after the other), and descriptors that are no extents.
MCOthers == { <<D(2, 1), D(1, 3), D(2, 1)>>, <<D(2, 0), D(2, 1), D(0, 0)>>,
              <<D(2, 0), D(1, 1), D(1, 2)>>, <<D(3, 0), D(2, 1), D(0, 0)>>,
              <<D(1, -1), D(1, 3), D(0, 0)>>,
              <<D(-1, 0), D(1, 3), D(0, 0)>> }
MCDescs == MCTables \cup MCOthers

MCRanges == {{1, 2}, {2, 3}}
==============================================================================
