------------------------------- MODULE PyTable -------------------------------
(***************************************************************************)
(* A table of an open file in the Python binding (core.py, _TableHDU): the    *)
(* record array a program reads, edits in place or replaces (data), the       *)
(* fingerprint of each of its columns as of when they were last read or       *)
(* written (_col_fingerprints), the flush that writes changed columns back    *)
(* (_flush_data) and writeto, which copies the file's bytes where they are    *)
(* what the program sees (_is_pristine_attached) and rebuilds the table       *)
(* otherwise (_emit_columns).  The saved file is published by AtomicWrite;    *)
(* formats and indexed keywords of rebuilt columns are in ColumnFormat and    *)
(* TableMetadata.                                                             *)
(*                                                                           *)
(* A column is one value.  A field of a record array has a value and either   *)
(* the element type its file column reads as or another one of the same       *)
(* width, in which the same bytes mean another value.                         *)
(***************************************************************************)
EXTENDS AtomicWrite, Sequences, FiniteSets, SequencesExt, ColumnFormat, TableMetadata

CONSTANTS
    FileColumns,    \* names of the file's columns, in order
    Arrays,         \* the record arrays the program may assign
    Kinds,          \* kinds of the file's columns: plain, variable-length ("vla"), and
                    \* those no new column can be given ("scaled", complex VLAs included)
    Unset, None,    \* _UNSET and Python's None
    Torn,           \* a column a failing write has left in part as it was
    MaxOps          \* bound: calls of the program

Value == 0..1       \* values of a whole column
Stored == Value \cup {Torn}
Names(rec) == ToSet(rec.names)
Name == ToSet(FileColumns) \cup UNION {Names(a) : a \in Arrays}
Rows == {1} \cup {a.rows : a \in Arrays}

\* Record arrays, and fingerprints by column.
RecordSet ==
    [names : Seq(Name), rows : Rows \cup {0},
     cell : UNION {[S -> [v : Stored, own : BOOLEAN]] : S \in SUBSET Name}]
FingerprintSet == UNION {[S -> Stored \X Rows] : S \in SUBSET Name}

\* The three sentinels are told from what they stand beside.
ASSUME PyTableAssumption ==
    /\ FileColumns \in Seq(Name) /\ IsInjective(FileColumns) /\ NumColumns = Len(FileColumns)
    /\ Rows \subseteq Nat
    /\ \A a \in Arrays :
         /\ a \in RecordSet /\ IsInjective(a.names) /\ DOMAIN a.cell = Names(a)
         /\ Len(a.names) <= MaxColumns
         /\ \A n \in Names(a) : a.cell[n].v \in Value
    /\ Kinds \subseteq [ToSet(FileColumns) -> {"plain", "vla", "scaled"}]
    /\ MaxOps \in Nat
    /\ Unset # None /\ \A x \in {Unset, None, Partial} : x \notin RecordSet
    /\ None \notin FingerprintSet /\ None \notin Stored \X Rows

VARIABLES
    kind,       \* the kinds of the file's columns
    ascii,      \* whether it is an AsciiTableHDU
    mode,       \* how the file was opened
    cells,      \* the file's columns by position
    nrows,      \* its rows
    data,       \* _data
    base,       \* _col_fingerprints
    dirty,      \* the list's _dirty
    flush,      \* the flush under way, or how the last one ended
    ops,
    before,     \* history: cells when the flush began
    retyped     \* history: fields that had another element type in a flush

tableVars == <<kind, ascii, mode, cells, nrows, data, base, dirty, flush, ops, before, retyped>>
vars == <<tableVars, atomicVars>>

Cell(v, own) == [v |-> v, own |-> own]
Record(names, rows, cell) == [names |-> names, rows |-> rows, cell |-> cell]

\* _col_fp: of the bytes of the column, and of nothing else.
Fingerprint(rec, name) ==
    LET c == rec.cell[name] IN <<IF c.own THEN c.v ELSE 1 - c.v, rec.rows>>
Baseline(name) == IF base = None \/ name \notin DOMAIN base THEN None ELSE base[name]

\* _data_changed (mutant: only a replaced array counts as a change).
ChangedNever == FALSE
Changed ==
    /\ data \notin {Unset, None} /\ base # None
    /\ \E name \in Names(data) : Fingerprint(data, name) # Baseline(name)

\* The column of the file with a name (mutant: the one at the place the name has in the
\* program's array).
ColumnAt(name) == IF data \in {Unset, None} THEN 1 ELSE CHOOSE j \in DOMAIN data.names : data.names[j] = name
ColumnOf(name) == CHOOSE j \in DOMAIN FileColumns : FileColumns[j] = name

-----------------------------------------------------------------------------
Init ==
    /\ kind \in Kinds /\ ascii \in BOOLEAN /\ mode \in {"readonly", "update"}
    /\ ascii => \A n \in DOMAIN kind : kind[n] = "plain"
    /\ cells = [j \in DOMAIN FileColumns |-> 0] /\ nrows = 1
    /\ data = Unset /\ base = None /\ dirty = FALSE
    /\ flush = [pc |-> "idle", at |-> 0] /\ ops = 0
    /\ before = cells /\ retyped = {}
    /\ AtomicInit

\* A call of the program, which makes one at a time and none while it is dead.
Calling ==
    /\ ops < MaxOps /\ ops' = ops + 1
    /\ flush.pc \in {"idle", "flushed", "raised"} /\ writer.pc \in Resting \ {"dead"}
Idle == flush' = [flush EXCEPT !.pc = "idle"]
Static == UNCHANGED <<kind, ascii, mode, nrows>>

\* _read_table, and the baselines it records.  A torn column reads as what it holds, which
\* is then what the program means.
OfFile ==
    Record(FileColumns, nrows,
           [n \in ToSet(FileColumns) |-> Cell(cells[ColumnOf(n)], TRUE)])
Baselines(rec) == [n \in Names(rec) |-> Fingerprint(rec, n)]
Read ==
    /\ Calling /\ Idle /\ data = Unset
    /\ data' = OfFile /\ base' = Baselines(OfFile)
    /\ Static /\ UNCHANGED <<cells, dirty, before, retyped, atomicVars>>

\* data["x"][...] = v, which no setter sees
Mutate(name, v) ==
    /\ Calling /\ Idle /\ data \notin {Unset, None}
    /\ name \in Names(data) /\ data.cell[name].v # v
    /\ data' = [data EXCEPT !.cell[name].v = v]
    /\ Static /\ UNCHANGED <<cells, base, dirty, before, retyped, atomicVars>>

\* The data setter: another array, of any columns, rows and element types; or None.
SetData(rec) ==
    /\ Calling /\ Idle
    /\ data' = rec
    /\ base' = IF base = None THEN << >> ELSE base
    /\ dirty' = TRUE
    /\ Static /\ UNCHANGED <<cells, before, retyped, atomicVars>>
SetNone ==
    /\ Calling /\ Idle
    /\ data' = None /\ dirty' = TRUE
    /\ Static /\ UNCHANGED <<cells, base, before, retyped, atomicVars>>

-----------------------------------------------------------------------------
\* HDUList.flush and the checks of _flush_data before it writes: None cannot be written
\* back, and neither can another set of columns.
FlushTo(pc) == flush' = [pc |-> pc, at |-> 1]
SameColumns(rec) == Len(rec.names) = Len(FileColumns) /\ Names(rec) = ToSet(FileColumns)
Flush ==
    /\ Calling
    /\ FlushTo(IF mode = "readonly" \/ data = Unset THEN "syncing"
               ELSE IF data = None THEN "raised"
               ELSE IF base = None THEN "syncing"
               ELSE IF ~SameColumns(data) THEN "raised" ELSE "columns")
    /\ before' = cells
    /\ Static /\ UNCHANGED <<cells, data, base, dirty, retyped, atomicVars>>

\* The columns in the array's order.  An unchanged one is left alone, whatever else the
\* table is.
InColumns == flush.pc = "columns" /\ flush.at <= Len(data.names)
Due == data.names[flush.at]
Unchanged(name) == Fingerprint(data, name) = Baseline(name)
Meant(name) == IF data.cell[name].own THEN retyped ELSE retyped \cup {name}
SkipColumn ==
    /\ InColumns /\ Unchanged(Due)
    /\ flush' = [flush EXCEPT !.at = @ + 1]
    /\ retyped' = Meant(Due)
    /\ Static /\ UNCHANGED <<cells, data, base, dirty, ops, before, atomicVars>>

\* Other numbers of rows, variable-length and scaled columns are refused, after the
\* columns before have been written.
Refusal(name) == nrows # data.rows \/ kind[name] # "plain"
RefuseColumn ==
    /\ InColumns /\ ~Unchanged(Due) /\ Refusal(Due)
    /\ FlushTo("raised")
    /\ Static /\ UNCHANGED <<cells, data, base, dirty, ops, before, retyped, atomicVars>>

\* The column is written, its values converted to the file's type, and becomes its own
\* baseline; or the write fails part way and the baseline stays (mutant: it is recorded
\* before the write).
BaseOnFailureRecorded(name) ==
    [n \in DOMAIN base \cup {name} |-> IF n = name THEN Fingerprint(data, name) ELSE base[n]]
BaseOnFailure(name) == base
WriteColumn ==
    /\ InColumns /\ ~Unchanged(Due) /\ ~Refusal(Due)
    /\ cells' = [cells EXCEPT ![ColumnOf(Due)] = data.cell[Due].v]
    /\ base' = [n \in DOMAIN base \cup {Due} |->
                  IF n = Due THEN Fingerprint(data, Due) ELSE base[n]]
    /\ flush' = [flush EXCEPT !.at = @ + 1]
    /\ retyped' = Meant(Due)
    /\ Static /\ UNCHANGED <<data, dirty, ops, before, atomicVars>>
WriteFails ==
    /\ InColumns /\ ~Unchanged(Due) /\ ~Refusal(Due)
    /\ Failing
    /\ cells' \in {cells, [cells EXCEPT ![ColumnOf(Due)] = Torn]}
    /\ base' = BaseOnFailure(Due)
    /\ FlushTo("raised")
    /\ Static /\ UNCHANGED <<data, dirty, ops, before, retyped, dest, temp, writer, others>>

\* zf_flush
Sync ==
    /\ flush.pc = "syncing" \/ (flush.pc = "columns" /\ flush.at > Len(data.names))
    /\ \/ FlushTo("flushed") /\ UNCHANGED faults
       \/ FlushTo("raised") /\ Failing
    /\ Static /\ UNCHANGED <<cells, data, base, dirty, ops, before, retyped, dest, temp, writer, others>>

-----------------------------------------------------------------------------
\* writeto.  The file's bytes are copied where nothing was replaced or edited in place
\* (the flush before the copy has then nothing to write).
Save(over) ==
    /\ Calling /\ Idle
    /\ Begin(over)
    /\ Static /\ UNCHANGED <<cells, data, base, dirty, before, retyped>>

Pristine == ~dirty /\ ~Changed
CopyBytes ==
    /\ Pristine
    /\ Filled(OfFile)
    /\ UNCHANGED tableVars

\* Otherwise, and always with checksum=True, the table is rebuilt from the array, which is
\* read first if it was not; a scaled column, and in an ASCII table a column the file has
\* not, cannot be.
Unbuildable(rec) ==
    \E n \in Names(rec) :
      IF n \in DOMAIN kind THEN kind[n] = "scaled" ELSE ascii
Materialised == IF data = Unset THEN OfFile ELSE data
Rebuild ==
    /\ data' = Materialised
    /\ base' = IF data = Unset THEN Baselines(OfFile) ELSE base
    /\ \/ data' = None /\ Filled(Record(<< >>, 0, << >>))
       \/ data' # None /\ ~Unbuildable(data') /\ Filled(data')
       \/ data' # None /\ Unbuildable(data') /\ FillRaises /\ UNCHANGED faults
    /\ Static /\ UNCHANGED <<cells, dirty, flush, ops, before, retyped>>

Next ==
    \/ Read
    \/ \E n \in ToSet(FileColumns) \cup UNION {Names(a) : a \in Arrays}, v \in Value : Mutate(n, v)
    \/ \E a \in Arrays : SetData(a)
    \/ SetNone
    \/ Flush \/ SkipColumn \/ RefuseColumn \/ WriteColumn \/ WriteFails \/ Sync
    \/ \E over \in BOOLEAN : Save(over)
    \/ CopyBytes \/ Rebuild
    \/ (FillFails \/ Publish \/ PublishRefused \/ PublishFails \/ Unlink \/ Crash \/ OtherTouches)
         /\ UNCHANGED tableVars

Spec == Init /\ [][Next]_vars

-----------------------------------------------------------------------------
\* A flush that returns has left in every column of the file, found by its name wherever
\* the program's array has it, what the array says; one that raises has left each column
\* as it was, or as the array says, or, where the write itself failed, torn.  Two columns
\* are excepted, neither of which a flush can tell from one that is saved: one that an
\* earlier flush tore and whose array is back at its last baseline, and one whose array
\* has or had another element type, for a fingerprint is of the bytes alone.
FlushExact ==
    /\ flush.pc = "flushed" /\ mode = "update" /\ data \notin {Unset, None} =>
         \A n \in Names(data) \ retyped :
           cells[ColumnOf(n)] \in {data.cell[n].v, Torn}
    /\ flush.pc = "raised" =>
         \A j \in DOMAIN cells :
           \/ cells[j] = before[j]
           \/ cells[j] = Torn /\ faults > 0
           \/ /\ data \notin {Unset, None} /\ FileColumns[j] \in Names(data)
              /\ cells[j] = data.cell[FileColumns[j]].v

\* What the binding takes for saved is on disk: the baseline of a column is that of what
\* the file holds, at every moment, a failing write included, unless the file's column is
\* torn or the array had another element type.  Else a flush would pass over an edit.
BaselineIsDisk ==
    base # None =>
      \A n \in DOMAIN base \ retyped :
        cells[ColumnOf(n)] # Torn => base[n] = <<cells[ColumnOf(n)], nrows>>

\* A saved file has the columns, the rows and the values the program sees: those of its
\* array, edited in place or replaced, or those of the file where it has none; torn
\* columns excepted, which a copy of the bytes carries over.
SavedIsSeen ==
    writer.pc = "publishing" =>
      LET seen == IF data = None THEN Record(<< >>, 0, << >>) ELSE Materialised
      IN /\ temp.names = seen.names /\ temp.rows = seen.rows
         /\ \A n \in Names(seen) : temp.cell[n].v \in {seen.cell[n].v, Torn}

\* Whatever formats the columns of the file and the fields of the array have, a table that is
\* about to be published holds them: no value went into a format of the old column that
\* cannot hold it, and a column that was not edited has its own (core.py 270-300, 1093-1165).
KindIn(name) == IF name \in DOMAIN kind THEN kind[name] ELSE "new"
ColumnRoundTrip ==
    writer.pc = "publishing" => \A n \in Names(temp) : KindIn(n) \in ExactKinds

\* Whatever keywords the table's header has that speak of columns by number, those of the
\* table about to be published speak of the columns they spoke of, and each version of its
\* world coordinates is there whole or not at all (core.py 98-163).
SourceMap(rec) ==
    [j \in {i \in DOMAIN FileColumns : FileColumns[i] \in Names(rec)
                                       /\ rec.cell[FileColumns[i]].own} |->
       CHOOSE k \in DOMAIN rec.names : rec.names[k] = FileColumns[j]]
MetadataFollows == writer.pc = "publishing" => SourceMap(temp) \in FollowedMaps
=============================================================================
