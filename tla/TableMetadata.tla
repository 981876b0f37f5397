---------------------------- MODULE TableMetadata ----------------------------
(***************************************************************************)
(* What becomes of the keywords that speak of a table's columns by number     *)
(* (TNULLn, TDISPn, the world coordinates of FITS 4.0 Table 22) when the      *)
(* Python binding rebuilds the table with its columns kept, moved, dropped or *)
(* added: _table_metadata_ops of bindings/python/src/zigfitsio/core.py.       *)
(*                                                                           *)
(* A card is a record: which keyword (one per kind that the code treats alike *)
(* stands for the others), the columns it names, its alternate letter and,    *)
(* for WCST and WCSX, its string.  The keywords' grammar (_TABLE_METADATA's   *)
(* patterns), axis and parameter numbers, and the eight characters a          *)
(* renumbered keyword must fit in are abstracted.                             *)
(***************************************************************************)
EXTENDS Naturals, FiniteSets, Sequences, Functions

CONSTANTS
    NumColumns,     \* columns of the table
    MaxColumns,     \* columns a table rebuilt from it may have
    Alternates,     \* alternate letters of WCS versions
    Labels          \* strings of WCST and WCSX

ASSUME TableMetadataAssumption ==
    NumColumns \in Nat /\ MaxColumns \in Nat /\ NumColumns <= MaxColumns

\* The kinds of _TABLE_METADATA ("plain" is None).  A "shared" keyword is part of the
\* array version of its column and letter where there is one.
KindOf == [TNULL |-> "plain", TDMIN |-> "plain", TCTY |-> "pixel", TPC |-> "pixel",
           CTY |-> "array", WCST |-> "array", WCSX |-> "array", WCSN |-> "shared",
           OBSGX |-> "column"]
Card(key, cols, alt, label) == [key |-> key, cols |-> cols, alt |-> alt, label |-> label]

\* wcs_group: the WCS version a card is part of.  Pixel versions span the table, an array
\* version is that of one column, as are the observation's keywords.
ArrayColumns(header) ==
    {<<c.cols[1], c.alt>> : c \in {d \in header : KindOf[d.key] = "array"}}
WcsGroup(header, c) ==
    LET version == IF KindOf[c.key] # "shared" THEN KindOf[c.key]
                   ELSE IF <<c.cols[1], c.alt>> \in ArrayColumns(header) THEN "array" ELSE "pixel"
    IN <<version, c.alt, IF version \in {"array", "column"} THEN c.cols[1] ELSE 0>>

\* The versions that lose a card with a column (mutant: only the first column of a matrix
\* element is looked at).
InWcs(header) == {c \in header : KindOf[c.key] # "plain"}
NamesDropped(c, map) == \E i \in DOMAIN c.cols : c.cols[i] \notin DOMAIN map
IncompleteFirst(header, map) ==
    {WcsGroup(header, c) : c \in {d \in InWcs(header) : d.cols[1] \notin DOMAIN map}}
Incomplete(header, map) ==
    {WcsGroup(header, c) : c \in {d \in InWcs(header) : NamesDropped(d, map)}}

\* ... and those whose WCSX refers to a WCST that went with one of them.
Targets(header) == {c \in header : c.key = "WCST"}
Surviving(header, map) ==
    {c.label : c \in {d \in Targets(header) : WcsGroup(header, d) \notin Incomplete(header, map)}}
Dangling(header, map) ==
    {WcsGroup(header, c) :
       c \in {d \in header : /\ d.key = "WCSX"
                             /\ d.label \in {t.label : t \in Targets(header)} \ Surviving(header, map)}}

\* _table_metadata_ops: the cards written into the rebuilt table.  Measured extrema are
\* dropped whenever the columns' sources are known, for their cells may have changed.
Kept(header, map, rebuilt) ==
    {c \in header :
       /\ ~NamesDropped(c, map)
       /\ KindOf[c.key] # "plain" =>
            WcsGroup(header, c) \notin Incomplete(header, map) \cup Dangling(header, map)
       /\ ~(rebuilt /\ c.key = "TDMIN")}
Renumbered(c, map) == [c EXCEPT !.cols = [i \in DOMAIN c.cols |-> map[c.cols[i]]]]
TableMetadataOps(header, map, rebuilt) ==
    {Renumbered(c, map) : c \in Kept(header, map, rebuilt)}

-----------------------------------------------------------------------------
\* source_indices: of the old columns a new one was made from, which; a new column was made
\* from one old column or from none
ColumnMaps ==
    {m \in {Restrict(t, S) : t \in [1..NumColumns -> 1..MaxColumns], S \in SUBSET (1..NumColumns)} :
       IsInjective(m)}

CardsOf(keys, alts, labels) ==
    {Card(k, <<c>>, a, l) : k \in keys, c \in 1..NumColumns, a \in alts, l \in labels}
Matrices(none) == {Card("TPC", <<c, d>>, a, none) : c, d \in 1..NumColumns, a \in Alternates}
Cards ==
    CardsOf({"TNULL", "TDMIN", "OBSGX"}, {""}, {""}) \cup Matrices("")
      \cup CardsOf({"TCTY", "CTY", "WCSN"}, Alternates, {""})
      \cup CardsOf({"WCST", "WCSX"}, Alternates, Labels)

\* Headers of up to three cards, with one WCST and one WCSX per column and letter
Headers ==
    {h \in {{b, c, d} : b, c, d \in Cards} :
       \A c \in h, d \in h : c # d => <<c.key, c.cols, c.alt>> # <<d.key, d.cols, d.alt>>}

\* After any change of the columns, the rebuilt header has each WCS version of the old one
\* whole or not at all, and as a version of its own: cards that belonged together still do,
\* and no two versions have become one.  No keyword is about a column it was not about.  A
\* WCSX that is kept does not refer to a version that lost a column.  And saving the
\* rebuilt table once more changes nothing.
Follows(header, map, rebuilt) ==
    LET new == TableMetadataOps(header, map, rebuilt)
        kept == Kept(header, map, rebuilt)
        wcs == InWcs(header)
        Was(c) == WcsGroup(header, c)
        Is(c) == WcsGroup(new, Renumbered(c, map))
    IN /\ \A c \in wcs, d \in wcs : Was(c) = Was(d) => (c \in kept <=> d \in kept)
       /\ \A c \in wcs \cap kept, d \in wcs \cap kept : (Was(c) = Was(d)) <=> (Is(c) = Is(d))
       /\ Cardinality(new) = Cardinality(kept)
       /\ \A c \in kept, d \in header \ kept :
            c.key = "WCSX" /\ d.key = "WCST" /\ c.label = d.label /\ NamesDropped(d, map)
              => \E t \in Targets(header) : t.label = c.label /\ ~NamesDropped(t, map)
       /\ TableMetadataOps(new, [i \in 1..MaxColumns |-> i], rebuilt) = new

\* The changes of the columns for which that is so, whatever the header.
FollowedMaps ==
    {map \in ColumnMaps :
       \A header \in Headers, rebuilt \in BOOLEAN : Follows(header, map, rebuilt)}
=============================================================================
