---------------------------- MODULE MCFitsHandle -----------------------------
(* Instance of FitsHandle for TLC.  A block is two cells and the staging      *)
(* buffer three, so that, as in the code, a chunk is not a whole number of    *)
(* blocks and a tail of two blocks takes two chunks.                          *)
EXTENDS FitsHandle

MCZero  == <<"zero", 0>>
MCSpace == <<"space", 0>>
MCValue == {<<"new", 0>>}

H(ext, ascii, cards, bytes) ==
    [ext |-> ext, ascii |-> ascii, cards |-> cards, bytes |-> bytes]
\* P* primary, X* image or binary table, T* ASCII table; the L ones have a long
\* header (two blocks), the B ones a big data unit (two blocks).
MCHdr == [P  |-> H(FALSE, FALSE, 1, 1),
          PL |-> H(FALSE, FALSE, 3, 1),
          X  |-> H(TRUE,  FALSE, 1, 1),
          XB |-> H(TRUE,  FALSE, 1, 3),
          XL |-> H(TRUE,  FALSE, 3, 1),
          T  |-> H(TRUE,  TRUE,  1, 1)]
MCMalformed == {"BAD"}

\* Concatenated devices: a header with its data, or loose cells.
Join(a, b) ==
    [size |-> a.size + b.size,
     at |-> [i \in 0 .. a.size + b.size - 1 |->
               IF i < a.size THEN a.at[i] ELSE b.at[i - a.size]]]
Unit(h, tag) ==
    LET n == HdrSize(h) + DataSize(Hdr[h].bytes)
    IN  [size |-> n,
         at |-> [i \in 0 .. n - 1 |->
                   IF i < HdrSize(h) THEN HeaderCells(h)[i]
                   ELSE IF i - HdrSize(h) < Hdr[h].bytes THEN <<tag, i - HdrSize(h)>>
                   ELSE PadOf(h)]]
Loose(tag, n) == [size |-> n, at |-> [i \in 0 .. n - 1 |-> <<tag, i>>]]

MCCell == {MCZero, MCSpace} \cup MCValue
          \cup ((DOMAIN MCHdr) \X (0 .. 2))
          \cup ({"BAD", "special", "a", "b", "c"} \X (0 .. 3))

MCDevices ==
    {Loose("a", 0),
     Join(Unit("P", "a"), Join(Unit("XB", "b"), Unit("X", "c"))),
     Join(Unit("P", "a"), Join(Unit("T", "b"), Loose("special", 2))),
     Join(Unit("P", "a"), Loose("BAD", 2))}
=============================================================================
