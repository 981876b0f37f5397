---------------------------- MODULE PyTableProofs ----------------------------
(***************************************************************************)
(* Proofs about PyTable and AtomicWrite, for every table, every set of       *)
(* arrays the program may assign and every number of calls, failures and     *)
(* other processes: what writeto may do to its destination, that a baseline  *)
(* is what the file holds, that a flush leaves what the program sees, that a  *)
(* saved file has what the program sees, that its columns hold it whatever    *)
(* their formats are, and that its keywords speak of the columns they spoke   *)
(* of.                                                                       *)
(***************************************************************************)
EXTENDS PyTable, FiniteSetTheorems, TLAPS

IsRecord(d) == d \notin {Unset, None}

\* The arrays a program may have: a cell for each name, and the file's element type where
\* the value is a torn column's.
WellFormed(rec) ==
    /\ rec \in RecordSet /\ rec.rows \in Rows /\ DOMAIN rec.cell = Names(rec)
    /\ \A n \in Names(rec) : rec.cell[n].own \/ rec.cell[n].v \in Value

TableTypeOK ==
    /\ cells \in [DOMAIN FileColumns -> Stored] /\ before \in [DOMAIN FileColumns -> Stored]
    /\ nrows \in Rows
    /\ data \in {Unset, None} \/ WellFormed(data)
    /\ base # None => base \in FingerprintSet /\ DOMAIN base \subseteq ToSet(FileColumns)
    /\ dirty \in BOOLEAN
    /\ flush \in [pc : {"idle", "columns", "syncing", "flushed", "raised"}, at : Nat]
    /\ writer \in [pc : {"idle", "filling", "publishing", "published", "failing",
                         "written", "raised", "dead"}, over : BOOLEAN]
    /\ faults \in Nat

\* One call at a time; what the attributes of a table say of each other.
CallsAlone == flush.pc # "idle" => writer.pc \in Resting \ {"dead"}
Attributes ==
    /\ IsRecord(data) => base # None
    /\ data = None => dirty
    /\ ~dirty => retyped = {}
    /\ ~dirty /\ IsRecord(data) =>
         /\ data.names = FileColumns /\ data.rows = nrows
         /\ \A n \in Names(data) : data.cell[n].own
         /\ DOMAIN base = ToSet(FileColumns)

\* How far a flush is: the columns before the one it is at are as the array says.
FlushProgress ==
    /\ flush.pc = "syncing" => mode = "readonly" \/ data = Unset
    /\ flush.pc = "columns" =>
         /\ IsRecord(data) /\ SameColumns(data) /\ flush.at >= 1
         /\ \A i \in DOMAIN data.names :
              i < flush.at /\ data.names[i] \notin retyped =>
                cells[ColumnOf(data.names[i])] \in {data.cell[data.names[i]].v, Torn}
    /\ flush.pc # "idle" =>
         \A j \in DOMAIN cells :
           \/ cells[j] = before[j]
           \/ cells[j] = Torn /\ faults > 0
           \/ IsRecord(data) /\ FileColumns[j] \in Names(data)
                /\ cells[j] = data.cell[FileColumns[j]].v

\* What is in the temporary file at each step of writeto.
WriterInv ==
    /\ dest # Partial
    /\ writer.pc = "publishing" => temp # Partial
    /\ writer.pc \in {"idle", "written", "raised"} => temp = Absent

TableInv ==
    /\ TableTypeOK /\ CallsAlone /\ Attributes /\ FlushProgress /\ WriterInv
    /\ FlushExact /\ BaselineIsDisk /\ SavedIsSeen
-----------------------------------------------------------------------------
(* The operators.                                                           *)

\* A column of the file is found by its name (core.py 1190-1194).
LEMMA ColumnOfFacts ==
    /\ \A n \in ToSet(FileColumns) :
         ColumnOf(n) \in DOMAIN FileColumns /\ FileColumns[ColumnOf(n)] = n
    /\ \A j \in DOMAIN FileColumns :
         FileColumns[j] \in ToSet(FileColumns) /\ ColumnOf(FileColumns[j]) = j
<1>1. ASSUME NEW n \in ToSet(FileColumns)
      PROVE  ColumnOf(n) \in DOMAIN FileColumns /\ FileColumns[ColumnOf(n)] = n
  <2>1. \E j \in DOMAIN FileColumns : FileColumns[j] = n
    BY DEF ToSet
  <2> QED BY <2>1 DEF ColumnOf
<1>2. \A j \in DOMAIN FileColumns : FileColumns[j] \in ToSet(FileColumns)
  BY DEF ToSet
<1>3. \A j \in DOMAIN FileColumns : ColumnOf(FileColumns[j]) = j
  BY <1>1, <1>2, PyTableAssumption DEF IsInjective
<1> QED BY <1>1, <1>2, <1>3

\* The names of a sequence of names are names.
LEMMA NamesFacts ==
    ASSUME NEW rec, rec.names \in Seq(Name)
    PROVE  Names(rec) \subseteq Name
BY DEF Names, ToSet

\* The fingerprint of a column the file's own type reads is its value's.
LEMMA FingerprintFacts ==
    ASSUME NEW rec, WellFormed(rec), NEW n \in Names(rec)
    PROVE  /\ rec.cell[n].v \in Stored
           /\ Fingerprint(rec, n) \in Stored \X Rows
           /\ rec.cell[n].own => Fingerprint(rec, n) = <<rec.cell[n].v, rec.rows>>
<1>1. rec.cell[n] \in [v : Stored, own : BOOLEAN]
  BY DEF WellFormed, RecordSet
<1>2. ~rec.cell[n].own => 1 - rec.cell[n].v \in Stored
  BY DEF WellFormed, Value, Stored
<1> QED BY <1>1, <1>2 DEF Fingerprint, WellFormed

\* What a read of the file gives, and the baselines it records.
LEMMA OfFileFacts ==
    ASSUME TableTypeOK
    PROVE  /\ WellFormed(OfFile) /\ IsRecord(OfFile) /\ OfFile # Partial
           /\ OfFile.names = FileColumns /\ OfFile.rows = nrows
           /\ \A n \in ToSet(FileColumns) :
                OfFile.cell[n].own /\ OfFile.cell[n].v = cells[ColumnOf(n)]
           /\ Names(OfFile) = ToSet(FileColumns)
           /\ Baselines(OfFile) \in FingerprintSet
           /\ DOMAIN Baselines(OfFile) = ToSet(FileColumns)
           /\ \A n \in ToSet(FileColumns) :
                Baselines(OfFile)[n] = <<cells[ColumnOf(n)], nrows>>
<1> DEFINE S == ToSet(FileColumns)
<1> DEFINE c == [n \in S |-> Cell(cells[ColumnOf(n)], TRUE)]
<1>1. OfFile = Record(FileColumns, nrows, c)
  BY DEF OfFile
<1>2. S \subseteq Name
  BY DEF Name
<1>3. c \in [S -> [v : Stored, own : BOOLEAN]]
  BY ColumnOfFacts DEF TableTypeOK, Cell
<1>4. /\ OfFile.names = FileColumns /\ OfFile.rows = nrows /\ OfFile.cell = c
      /\ Names(OfFile) = S
  BY <1>1 DEF Record, Names
<1>5. \A n \in S : c[n].own /\ c[n].v = cells[ColumnOf(n)]
  BY DEF Cell
<1>6. DOMAIN c = S
  OBVIOUS
<1> HIDE DEF c
<1>7. OfFile \in RecordSet
  <2>1. c \in UNION {[T -> [v : Stored, own : BOOLEAN]] : T \in SUBSET Name}
    BY <1>2, <1>3
  <2> QED BY <2>1, <1>1, PyTableAssumption DEF RecordSet, Record, TableTypeOK
<1>8. WellFormed(OfFile)
  BY <1>4, <1>5, <1>6, <1>7 DEF WellFormed, TableTypeOK
<1>9. \A n \in S : Fingerprint(OfFile, n) \in Stored \X Rows
                   /\ Fingerprint(OfFile, n) = <<cells[ColumnOf(n)], nrows>>
  BY <1>4, <1>5, <1>8, FingerprintFacts
<1>10. /\ Baselines(OfFile) \in [S -> Stored \X Rows]
       /\ \A n \in S : Baselines(OfFile)[n] = <<cells[ColumnOf(n)], nrows>>
  BY <1>4, <1>9 DEF Baselines
<1>11. Baselines(OfFile) \in FingerprintSet
  BY <1>10, <1>2 DEF FingerprintSet
<1>12. IsRecord(OfFile) /\ OfFile # Partial
  BY <1>7, PyTableAssumption DEF IsRecord
<1> QED BY <1>4, <1>5, <1>8, <1>10, <1>11, <1>12

\* A function on names is no sentinel.
LEMMA BaseFacts ==
    ASSUME NEW b \in FingerprintSet
    PROVE  b # None
BY PyTableAssumption

\* What _flush_data makes of a column: its fingerprint becomes the column's baseline.
LEMMA UpdatedBaseFacts ==
    ASSUME NEW b, b \in FingerprintSet, DOMAIN b \subseteq ToSet(FileColumns),
           NEW n \in ToSet(FileColumns), NEW f \in Stored \X Rows,
           NEW c, c = [m \in DOMAIN b \cup {n} |-> IF m = n THEN f ELSE b[m]]
    PROVE  /\ c \in FingerprintSet /\ c # None
           /\ DOMAIN c = DOMAIN b \cup {n} /\ DOMAIN c \subseteq ToSet(FileColumns)
           /\ \A m \in DOMAIN c : c[m] = IF m = n THEN f ELSE b[m]
<1> DEFINE T == DOMAIN b \cup {n}
<1>1. \A m \in DOMAIN b : b[m] \in Stored \X Rows
  BY DEF FingerprintSet
<1>2. c \in [T -> Stored \X Rows]
  BY <1>1
<1>3. T \subseteq Name
  BY DEF Name
<1>4. c \in FingerprintSet
  BY <1>2, <1>3 DEF FingerprintSet
<1> QED BY <1>4, BaseFacts

-----------------------------------------------------------------------------
(* The initial states, and one lemma per action.                            *)

LEMMA InitTable == Init => TableInv
<1> SUFFICES ASSUME Init PROVE TableInv
  OBVIOUS
<1> USE DEF Init, AtomicInit, Writer
<1>1. cells \in [DOMAIN FileColumns -> Stored] /\ nrows \in Rows
  BY DEF Stored, Value, Rows
<1>2. TableTypeOK
  BY <1>1 DEF TableTypeOK
<1>3. WriterInv
  BY AtomicWriteAssumption DEF WriterInv
<1>4. CallsAlone /\ Attributes /\ FlushProgress
  BY PyTableAssumption DEF CallsAlone, Attributes, FlushProgress, IsRecord
<1>5. FlushExact /\ BaselineIsDisk /\ SavedIsSeen
  BY DEF FlushExact, BaselineIsDisk, SavedIsSeen
<1> QED BY <1>2, <1>3, <1>4, <1>5 DEF TableInv

\* A call starts with no flush and no writeto under way.
LEMMA ReadStep == TableInv /\ Read => TableInv'
<1> SUFFICES ASSUME TableInv, Read PROVE TableInv'
  OBVIOUS
<1> USE DEF TableInv, Read, Calling, Idle, Static, atomicVars
<1>1. /\ WellFormed(data') /\ IsRecord(data') /\ data'.names = FileColumns
      /\ data'.rows = nrows /\ \A n \in Names(data') : data'.cell[n].own
      /\ base' \in FingerprintSet /\ DOMAIN base' = ToSet(FileColumns)
      /\ \A n \in DOMAIN base' : base'[n] = <<cells[ColumnOf(n)], nrows>>
  BY OfFileFacts
<1>2. base' # None
  BY <1>1, BaseFacts
<1>3. TableTypeOK'
  BY <1>1 DEF TableTypeOK
<1>4. CallsAlone' /\ WriterInv'
  BY DEF CallsAlone, WriterInv, TableTypeOK
<1>5. Attributes' /\ FlushProgress'
  BY <1>1, <1>2, PyTableAssumption DEF Attributes, FlushProgress, TableTypeOK, IsRecord
<1>6. FlushExact' /\ SavedIsSeen'
  BY DEF FlushExact, SavedIsSeen, TableTypeOK, Resting
<1>7. BaselineIsDisk'
  BY <1>1 DEF BaselineIsDisk
<1> QED BY <1>3, <1>4, <1>5, <1>6, <1>7

LEMMA MutateStep ==
    ASSUME NEW n, NEW v \in Value
    PROVE  TableInv /\ Mutate(n, v) => TableInv'
<1> SUFFICES ASSUME TableInv, Mutate(n, v) PROVE TableInv'
  OBVIOUS
<1> USE DEF TableInv, Mutate, Calling, Idle, Static, atomicVars
<1>1. WellFormed(data) /\ n \in Names(data)
  BY DEF TableTypeOK
<1>2. /\ data'.names = data.names /\ data'.rows = data.rows
      /\ DOMAIN data'.cell = DOMAIN data.cell
      /\ Names(data') = Names(data)
      /\ \A m \in Names(data) : /\ data'.cell[m].own = data.cell[m].own
                                /\ data'.cell[m].v = IF m = n THEN v ELSE data.cell[m].v
                                /\ data'.cell[m] \in [v : Stored, own : BOOLEAN]
  BY <1>1 DEF WellFormed, RecordSet, Names, Stored
<1>3. WellFormed(data')
  <2>1. data'.cell \in [Names(data) -> [v : Stored, own : BOOLEAN]]
    BY <1>1, <1>2 DEF WellFormed, RecordSet
  <2>2. Names(data) \subseteq Name
    BY <1>1, NamesFacts DEF WellFormed, RecordSet
  <2>3. data'.cell \in UNION {[S -> [v : Stored, own : BOOLEAN]] : S \in SUBSET Name}
    BY <2>1, <2>2
  <2>4. data' = [data EXCEPT !.cell = data'.cell]
    BY <1>1 DEF WellFormed, RecordSet
  <2>5. data' \in RecordSet
    BY <1>1, <2>3, <2>4 DEF WellFormed, RecordSet
  <2> QED BY <1>1, <1>2, <2>5 DEF WellFormed
<1>4. IsRecord(data')
  BY <1>3, PyTableAssumption DEF WellFormed, IsRecord
<1>5. TableTypeOK'
  BY <1>3 DEF TableTypeOK
<1>6. CallsAlone' /\ WriterInv'
  BY DEF CallsAlone, WriterInv, TableTypeOK
<1>7. Attributes' /\ FlushProgress'
  BY <1>2, <1>4, ZenonT(30) DEF Attributes, FlushProgress, TableTypeOK, IsRecord
<1>8. FlushExact' /\ SavedIsSeen'
  BY DEF FlushExact, SavedIsSeen, TableTypeOK, Resting
<1>9. BaselineIsDisk'
  BY DEF BaselineIsDisk
<1> QED BY <1>5, <1>6, <1>7, <1>8, <1>9

LEMMA SetDataStep ==
    ASSUME NEW a \in Arrays
    PROVE  TableInv /\ SetData(a) => TableInv'
<1> SUFFICES ASSUME TableInv, SetData(a) PROVE TableInv'
  OBVIOUS
<1> USE DEF TableInv, SetData, Calling, Idle, Static, atomicVars
<1>1. WellFormed(data') /\ IsRecord(data')
  BY PyTableAssumption DEF WellFormed, IsRecord, Rows
<1>2. base' \in FingerprintSet /\ DOMAIN base' \subseteq ToSet(FileColumns)
  <2>1. CASE base = None
    <3>1. base' \in [{} -> Stored \X Rows] /\ DOMAIN base' = {}
      BY <2>1
    <3> QED BY <3>1 DEF FingerprintSet
  <2>2. CASE base # None
    BY <2>2 DEF TableTypeOK
  <2> QED BY <2>1, <2>2
<1>3. base' # None
  BY <1>2, BaseFacts
<1>4. TableTypeOK'
  BY <1>1, <1>2 DEF TableTypeOK
<1>5. CallsAlone' /\ WriterInv'
  BY DEF CallsAlone, WriterInv, TableTypeOK
<1>6. Attributes' /\ FlushProgress'
  BY <1>1, <1>3 DEF Attributes, FlushProgress, TableTypeOK, IsRecord
<1>7. FlushExact' /\ SavedIsSeen'
  BY DEF FlushExact, SavedIsSeen, TableTypeOK, Resting
<1>8. BaselineIsDisk'
  <2>1. base' = base \/ DOMAIN base' = {}
    OBVIOUS
  <2> QED BY <2>1, <1>3 DEF BaselineIsDisk
<1> QED BY <1>4, <1>5, <1>6, <1>7, <1>8

LEMMA SetNoneStep == TableInv /\ SetNone => TableInv'
<1> SUFFICES ASSUME TableInv, SetNone PROVE TableInv'
  OBVIOUS
<1> USE DEF TableInv, SetNone, Calling, Idle, Static, atomicVars
<1>1. TableTypeOK'
  BY DEF TableTypeOK
<1>2. CallsAlone' /\ WriterInv'
  BY DEF CallsAlone, WriterInv, TableTypeOK
<1>3. Attributes' /\ FlushProgress'
  BY DEF Attributes, FlushProgress, TableTypeOK, IsRecord
<1>4. FlushExact' /\ SavedIsSeen'
  BY DEF FlushExact, SavedIsSeen, TableTypeOK, Resting
<1>5. BaselineIsDisk'
  BY DEF BaselineIsDisk
<1> QED BY <1>1, <1>2, <1>3, <1>4, <1>5

LEMMA FlushStep == TableInv /\ Flush => TableInv'
<1> SUFFICES ASSUME TableInv, Flush PROVE TableInv'
  OBVIOUS
<1> USE DEF TableInv, Flush, FlushTo, Calling, Static, atomicVars
<1>1. TableTypeOK'
  BY DEF TableTypeOK
<1>2. CallsAlone' /\ WriterInv'
  BY DEF CallsAlone, WriterInv, TableTypeOK
<1>3. Attributes'
  BY DEF Attributes, IsRecord
<1>4. FlushProgress'
  <2>1. flush'.pc = "syncing" => mode = "readonly" \/ data = Unset
    BY DEF Attributes, IsRecord
  <2>2. flush'.pc = "columns" =>
          IsRecord(data) /\ SameColumns(data) /\ DOMAIN data.names \subseteq Nat \ {0}
    BY DEF IsRecord, TableTypeOK, WellFormed, RecordSet
  <2>3. flush'.at = 1
    OBVIOUS
  <2> QED BY <2>1, <2>2, <2>3 DEF FlushProgress
<1>5. FlushExact' /\ SavedIsSeen'
  BY DEF FlushExact, SavedIsSeen, TableTypeOK, Resting
<1>6. BaselineIsDisk'
  BY DEF BaselineIsDisk
<1> QED BY <1>1, <1>2, <1>3, <1>4, <1>5, <1>6
\* The column a flush is at: one of the file, found there by its name.
LEMMA DueFacts ==
    ASSUME TableInv, InColumns
    PROVE  /\ WellFormed(data) /\ IsRecord(data) /\ base # None
           /\ flush.at \in DOMAIN data.names /\ DOMAIN data.names \subseteq Nat
           /\ Due \in Names(data) /\ Due \in ToSet(FileColumns)
           /\ ColumnOf(Due) \in DOMAIN FileColumns
           /\ writer.pc \in Resting \ {"dead"}
<1>1. WellFormed(data) /\ IsRecord(data) /\ base # None
  BY DEF TableInv, InColumns, FlushProgress, TableTypeOK, Attributes, IsRecord
<1>2. flush.at \in DOMAIN data.names /\ DOMAIN data.names \subseteq Nat
  <2>1. data.names \in Seq(Name)
    BY <1>1 DEF WellFormed, RecordSet
  <2> QED BY <2>1 DEF TableInv, InColumns, FlushProgress, TableTypeOK
<1>3. Due \in Names(data)
  BY <1>2 DEF Due, Names, ToSet
<1>4. Due \in ToSet(FileColumns)
  BY <1>3 DEF TableInv, InColumns, FlushProgress, SameColumns
<1>5. writer.pc \in Resting \ {"dead"}
  BY DEF TableInv, InColumns, CallsAlone
<1> QED BY <1>1, <1>2, <1>3, <1>4, <1>5, ColumnOfFacts

\* A column whose fingerprint is its baseline has in the file what the array says: it is
\* here that a stale baseline would hide an edit.
LEMMA SkipColumnStep == TableInv /\ SkipColumn => TableInv'
<1> SUFFICES ASSUME TableInv, SkipColumn PROVE TableInv'
  OBVIOUS
<1> USE DEF TableInv, SkipColumn, Static, atomicVars
<1>1. /\ WellFormed(data) /\ IsRecord(data) /\ base # None
      /\ flush.at \in DOMAIN data.names /\ DOMAIN data.names \subseteq Nat
      /\ Due \in Names(data) /\ Due \in ToSet(FileColumns)
  BY DueFacts
<1>2. retyped' = IF data.cell[Due].own THEN retyped ELSE retyped \cup {Due}
  BY DEF Meant
<1>3. Due \notin retyped' => cells[ColumnOf(Due)] \in {data.cell[Due].v, Torn}
  <2> SUFFICES ASSUME Due \notin retyped', cells[ColumnOf(Due)] # Torn
               PROVE  cells[ColumnOf(Due)] = data.cell[Due].v
    OBVIOUS
  <2>1. Fingerprint(data, Due) = <<data.cell[Due].v, data.rows>>
    BY <1>1, <1>2, FingerprintFacts
  <2>2. Fingerprint(data, Due) \in Stored \X Rows
    BY <1>1, FingerprintFacts
  <2>3. Due \in DOMAIN base /\ base[Due] = Fingerprint(data, Due)
    BY <2>2, PyTableAssumption DEF Unchanged, Baseline
  <2>4. base[Due] = <<cells[ColumnOf(Due)], nrows>>
    BY <2>3, <1>1, <1>2 DEF BaselineIsDisk
  <2> QED BY <2>1, <2>3, <2>4
<1>4. TableTypeOK'
  BY DEF TableTypeOK
<1>5. CallsAlone' /\ WriterInv'
  BY DEF CallsAlone, WriterInv, TableTypeOK, InColumns
<1>6. Attributes'
  BY <1>1, <1>2 DEF Attributes, IsRecord
<1>7. FlushProgress'
  <2>1. \A i \in DOMAIN data.names :
          i < flush'.at /\ data.names[i] \notin retyped' =>
            cells[ColumnOf(data.names[i])] \in {data.cell[data.names[i]].v, Torn}
    <3> SUFFICES ASSUME NEW i \in DOMAIN data.names, i < flush'.at, data.names[i] \notin retyped'
                 PROVE  cells[ColumnOf(data.names[i])] \in {data.cell[data.names[i]].v, Torn}
      OBVIOUS
    <3>1. i < flush.at \/ i = flush.at
      BY <1>1 DEF TableTypeOK
    <3>2. data.names[i] \notin retyped
      BY <1>2
    <3> QED BY <3>1, <3>2, <1>3, <1>2 DEF FlushProgress, InColumns, Due
  <2>2. flush'.pc = "columns" /\ flush'.at >= 1
    BY DEF InColumns, FlushProgress, TableTypeOK
  <2> QED BY <2>1, <2>2 DEF FlushProgress, IsRecord, InColumns
<1>8. FlushExact' /\ SavedIsSeen'
  BY <1>1, DueFacts DEF FlushExact, SavedIsSeen, Resting, InColumns, TableTypeOK
<1>9. BaselineIsDisk'
  BY <1>2 DEF BaselineIsDisk
<1> QED BY <1>4, <1>5, <1>6, <1>7, <1>8, <1>9

\* A refused column leaves those before it written and those after it as they were.
LEMMA RefuseColumnStep == TableInv /\ RefuseColumn => TableInv'
<1> SUFFICES ASSUME TableInv, RefuseColumn PROVE TableInv'
  OBVIOUS
<1> USE DEF TableInv, RefuseColumn, FlushTo, Static, atomicVars
<1>1. TableTypeOK'
  BY DEF TableTypeOK
<1>2. CallsAlone' /\ WriterInv'
  BY DEF CallsAlone, WriterInv, TableTypeOK, InColumns
<1>3. Attributes'
  BY DEF Attributes, IsRecord
<1>4. FlushProgress'
  BY DEF FlushProgress, IsRecord, InColumns
<1>5. FlushExact'
  BY <1>4 DEF FlushExact, FlushProgress, IsRecord
<1>6. SavedIsSeen'
  BY DueFacts DEF SavedIsSeen, Resting
<1>7. BaselineIsDisk'
  BY DEF BaselineIsDisk
<1> QED BY <1>1, <1>2, <1>3, <1>4, <1>5, <1>6, <1>7

\* A column that is written becomes its own baseline; no other column of the file changes.
LEMMA WriteColumnStep == TableInv /\ WriteColumn => TableInv'
<1> SUFFICES ASSUME TableInv, WriteColumn PROVE TableInv'
  OBVIOUS
<1> USE DEF TableInv, WriteColumn, Static, atomicVars
<1>1. /\ WellFormed(data) /\ IsRecord(data) /\ base # None
      /\ flush.at \in DOMAIN data.names /\ DOMAIN data.names \subseteq Nat
      /\ Due \in Names(data) /\ Due \in ToSet(FileColumns)
      /\ ColumnOf(Due) \in DOMAIN FileColumns
  BY DueFacts
<1>2. retyped' = IF data.cell[Due].own THEN retyped ELSE retyped \cup {Due}
  BY DEF Meant
<1>3. data.rows = nrows
  BY DEF Refusal
<1>4. /\ data.cell[Due].v \in Stored /\ Fingerprint(data, Due) \in Stored \X Rows
      /\ data.cell[Due].own => Fingerprint(data, Due) = <<data.cell[Due].v, nrows>>
  BY <1>1, <1>3, FingerprintFacts
<1>5. /\ base' \in FingerprintSet /\ base' # None
      /\ DOMAIN base' = DOMAIN base \cup {Due} /\ DOMAIN base' \subseteq ToSet(FileColumns)
      /\ \A m \in DOMAIN base' : base'[m] = IF m = Due THEN Fingerprint(data, Due) ELSE base[m]
  <2>1. base \in FingerprintSet /\ DOMAIN base \subseteq ToSet(FileColumns)
    BY <1>1 DEF TableTypeOK
  <2>2. base' = [m \in DOMAIN base \cup {Due} |->
                   IF m = Due THEN Fingerprint(data, Due) ELSE base[m]]
    OBVIOUS
  <2> HIDE DEF WriteColumn, TableInv
  <2> QED BY <1>1, <1>4, <2>1, <2>2, UpdatedBaseFacts
<1>6. /\ cells' \in [DOMAIN FileColumns -> Stored]
      /\ \A m \in ToSet(FileColumns) :
           cells'[ColumnOf(m)] = IF m = Due THEN data.cell[Due].v ELSE cells[ColumnOf(m)]
      /\ \A j \in DOMAIN cells : 
           cells'[j] = IF j = ColumnOf(Due) THEN data.cell[Due].v ELSE cells[j]
  BY <1>1, <1>4, ColumnOfFacts DEF TableTypeOK
<1>7. TableTypeOK'
  BY <1>5, <1>6 DEF TableTypeOK
<1>8. CallsAlone' /\ WriterInv'
  BY DEF CallsAlone, WriterInv, TableTypeOK, InColumns
<1>9. Attributes'
  BY <1>1, <1>2, <1>5 DEF Attributes, IsRecord
<1>10. FlushProgress'
  <2>1. \A i \in DOMAIN data.names :
          i < flush'.at /\ data.names[i] \notin retyped' =>
            cells'[ColumnOf(data.names[i])] \in {data.cell[data.names[i]].v, Torn}
    <3> SUFFICES ASSUME NEW i \in DOMAIN data.names, i < flush'.at, data.names[i] \notin retyped',
                        data.names[i] # Due
                 PROVE  cells'[ColumnOf(data.names[i])] \in {data.cell[data.names[i]].v, Torn}
      <4>1. ASSUME NEW i \in DOMAIN data.names, data.names[i] = Due
            PROVE  cells'[ColumnOf(data.names[i])] = data.cell[data.names[i]].v
        BY <4>1, <1>1, <1>6
      <4> QED BY <4>1
    <3>1. i < flush.at
      BY <1>1 DEF TableTypeOK, Due
    <3>2. data.names[i] \notin retyped
      BY <1>2
    <3>3. data.names[i] \in ToSet(FileColumns)
      BY DEF FlushProgress, InColumns, SameColumns, Names, ToSet
    <3> QED BY <3>1, <3>2, <3>3, <1>6 DEF FlushProgress, InColumns
  <2>2. flush'.pc = "columns" /\ flush'.at >= 1
    BY DEF InColumns, FlushProgress, TableTypeOK
  <2>3. \A j \in DOMAIN cells' :
           \/ cells'[j] = before[j]
           \/ cells'[j] = Torn /\ faults > 0
           \/ IsRecord(data) /\ FileColumns[j] \in Names(data)
                /\ cells'[j] = data.cell[FileColumns[j]].v
    <3>1. FileColumns[ColumnOf(Due)] = Due /\ DOMAIN cells' = DOMAIN cells
      BY <1>1, ColumnOfFacts
    <3> QED BY <3>1, <1>1, <1>6 DEF FlushProgress, InColumns
  <2> QED BY <2>1, <2>2, <2>3 DEF FlushProgress, IsRecord, InColumns
<1>11. FlushExact' /\ SavedIsSeen'
  BY <1>1, DueFacts DEF FlushExact, SavedIsSeen, Resting, InColumns, TableTypeOK
<1>12. BaselineIsDisk'
  <2> SUFFICES ASSUME NEW m \in DOMAIN base' \ retyped', cells'[ColumnOf(m)] # Torn
               PROVE  base'[m] = <<cells'[ColumnOf(m)], nrows>>
    BY DEF BaselineIsDisk
  <2>1. m \in ToSet(FileColumns)
    BY <1>5
  <2>2. CASE m = Due
    BY <2>2, <1>1, <1>2, <1>4, <1>5, <1>6
  <2>3. CASE m # Due
    BY <2>1, <2>3, <1>1, <1>2, <1>5, <1>6 DEF BaselineIsDisk
  <2> QED BY <2>2, <2>3
<1> QED BY <1>7, <1>8, <1>9, <1>10, <1>11, <1>12

\* A failing write leaves the baseline of its column alone, so that the next flush writes
\* the column again.
LEMMA WriteFailsStep == TableInv /\ WriteFails => TableInv'
<1> SUFFICES ASSUME TableInv, WriteFails PROVE TableInv'
  OBVIOUS
<1> USE DEF TableInv, WriteFails, Failing, FlushTo, Static, BaseOnFailure
<1>1. /\ cells' \in [DOMAIN FileColumns -> Stored]
      /\ \A j \in DOMAIN FileColumns : cells'[j] = cells[j] \/ cells'[j] = Torn
  BY DueFacts DEF TableTypeOK, Stored
<1>2. faults' \in Nat /\ faults' > 0
  BY DEF TableTypeOK
<1>3. TableTypeOK'
  BY <1>1, <1>2 DEF TableTypeOK
<1>4. CallsAlone' /\ WriterInv'
  BY DEF CallsAlone, WriterInv, TableTypeOK, InColumns
<1>5. Attributes'
  BY DEF Attributes, IsRecord
<1>6. FlushProgress'
  BY <1>1, <1>2 DEF FlushProgress, IsRecord, InColumns, TableTypeOK
<1>7. FlushExact'
  BY <1>6 DEF FlushExact, FlushProgress, IsRecord
<1>8. SavedIsSeen'
  BY DueFacts DEF SavedIsSeen, Resting
<1>9. BaselineIsDisk'
  BY <1>1, ColumnOfFacts DEF BaselineIsDisk, TableTypeOK
<1> QED BY <1>3, <1>4, <1>5, <1>6, <1>7, <1>8, <1>9

LEMMA SyncStep == TableInv /\ Sync => TableInv'
<1> SUFFICES ASSUME TableInv, Sync PROVE TableInv'
  OBVIOUS
<1> USE DEF TableInv, Sync, Failing, FlushTo, Static
<1>1. faults' \in Nat /\ faults' >= faults
  BY DEF TableTypeOK
<1>2. TableTypeOK'
  BY <1>1 DEF TableTypeOK
<1>3. writer.pc \in Resting \ {"dead"} /\ flush.pc # "idle"
  BY DEF CallsAlone
<1>4. CallsAlone' /\ WriterInv'
  BY <1>3 DEF CallsAlone, WriterInv
<1>5. Attributes'
  BY DEF Attributes, IsRecord
<1>6. FlushProgress'
  BY <1>1, <1>3 DEF FlushProgress, IsRecord, TableTypeOK
<1>7. FlushExact'
  <2>1. ASSUME flush'.pc = "flushed", mode = "update", IsRecord(data), NEW n \in Names(data) \ retyped
        PROVE  cells[ColumnOf(n)] \in {data.cell[n].v, Torn}
    <3>1. flush.pc = "columns" /\ flush.at > Len(data.names)
      BY <2>1 DEF FlushProgress, IsRecord
    <3>2. data.names \in Seq(Name)
      BY <2>1 DEF TableTypeOK, IsRecord, WellFormed, RecordSet
    <3>3. PICK i \in DOMAIN data.names : data.names[i] = n
      BY DEF Names, ToSet
    <3>4. i < flush.at
      BY <3>1, <3>2 DEF TableTypeOK
    <3> QED BY <3>1, <3>3, <3>4 DEF FlushProgress
  <2> QED BY <2>1, <1>6 DEF FlushExact, FlushProgress, IsRecord
<1>8. SavedIsSeen'
  BY <1>3 DEF SavedIsSeen, Resting
<1>9. BaselineIsDisk'
  BY DEF BaselineIsDisk
<1> QED BY <1>2, <1>4, <1>5, <1>6, <1>7, <1>8, <1>9
-----------------------------------------------------------------------------
(* writeto.                                                                  *)

LEMMA SaveStep ==
    ASSUME NEW over \in BOOLEAN
    PROVE  TableInv /\ Save(over) => TableInv'
<1> SUFFICES ASSUME TableInv, Save(over) PROVE TableInv'
  OBVIOUS
<1> USE DEF TableInv, Save, Begin, Calling, Idle, Static, Writer
<1>1. TableTypeOK'
  BY DEF TableTypeOK
<1>2. CallsAlone' /\ WriterInv'
  BY DEF CallsAlone, WriterInv, TableTypeOK, Resting
<1>3. Attributes' /\ FlushProgress'
  BY DEF Attributes, FlushProgress, IsRecord, TableTypeOK
<1>4. FlushExact' /\ SavedIsSeen'
  BY DEF FlushExact, SavedIsSeen, TableTypeOK
<1>5. BaselineIsDisk'
  BY DEF BaselineIsDisk
<1> QED BY <1>1, <1>2, <1>3, <1>4, <1>5

\* The bytes are copied only where the file holds what the program sees: an array that was
\* never replaced and whose fingerprints are all its baselines.
LEMMA CopyBytesStep == TableInv /\ CopyBytes => TableInv'
<1> SUFFICES ASSUME TableInv, CopyBytes PROVE TableInv'
  OBVIOUS
<1> USE DEF TableInv, CopyBytes, Filled, To, tableVars
<1>1. /\ WellFormed(OfFile) /\ IsRecord(OfFile) /\ OfFile # Partial
      /\ OfFile.names = FileColumns /\ OfFile.rows = nrows
      /\ \A n \in ToSet(FileColumns) : OfFile.cell[n].v = cells[ColumnOf(n)]
      /\ Names(OfFile) = ToSet(FileColumns)
  BY OfFileFacts
<1>2. flush.pc = "idle" /\ writer'.pc = "publishing"
  BY DEF CallsAlone, Resting, TableTypeOK
<1>3. TableTypeOK'
  BY DEF TableTypeOK
<1>4. CallsAlone' /\ WriterInv'
  BY <1>1, <1>2 DEF CallsAlone, WriterInv
<1>5. Attributes' /\ FlushProgress'
  BY <1>2 DEF Attributes, FlushProgress, IsRecord
<1>6. FlushExact' /\ BaselineIsDisk'
  BY <1>2 DEF FlushExact, BaselineIsDisk
<1>7. SavedIsSeen'
  <2>1. CASE data = Unset
    BY <2>1, <1>1, PyTableAssumption DEF SavedIsSeen, Materialised, OfFile
  <2>2. CASE data = None
    BY <2>2 DEF Attributes, Pristine
  <2>3. CASE IsRecord(data)
    <3>1. /\ WellFormed(data) /\ base # None /\ retyped = {}
          /\ data.names = FileColumns /\ data.rows = nrows
          /\ DOMAIN base = ToSet(FileColumns) /\ Names(data) = ToSet(FileColumns)
          /\ \A n \in Names(data) : data.cell[n].own
      BY <2>3 DEF IsRecord, TableTypeOK, Attributes, Pristine, Names
    <3>2. ASSUME NEW n \in ToSet(FileColumns)
          PROVE  cells[ColumnOf(n)] \in {data.cell[n].v, Torn}
      <4>1. Fingerprint(data, n) = <<data.cell[n].v, nrows>>
        BY <3>1, FingerprintFacts
      <4>2. Fingerprint(data, n) = Baseline(n)
        BY <2>3, <3>1 DEF Pristine, Changed, IsRecord
      <4>3. base[n] = <<data.cell[n].v, nrows>>
        BY <3>1, <4>1, <4>2 DEF Baseline
      <4>4. cells[ColumnOf(n)] # Torn => base[n] = <<cells[ColumnOf(n)], nrows>>
        BY <3>1 DEF BaselineIsDisk
      <4> QED BY <4>3, <4>4
    <3> QED BY <2>3, <3>1, <3>2, <1>1 DEF SavedIsSeen, Materialised, IsRecord
  <2> QED BY <2>1, <2>2, <2>3 DEF IsRecord
<1> QED BY <1>3, <1>4, <1>5, <1>6, <1>7

\* The empty record of a table without data.
LEMMA EmptyFacts == Record(<< >>, 0, << >>) # Partial
<1>1. << >> \in [{} -> [v : Stored, own : BOOLEAN]]
  OBVIOUS
<1>2. << >> \in UNION {[S -> [v : Stored, own : BOOLEAN]] : S \in SUBSET Name}
  BY <1>1
<1>3. << >> \in Seq(Name)
  OBVIOUS
<1>4. Record(<< >>, 0, << >>) \in RecordSet
  BY <1>2, <1>3 DEF Record, RecordSet
<1> QED BY <1>4, PyTableAssumption

LEMMA RebuildStep == TableInv /\ Rebuild => TableInv'
<1> SUFFICES ASSUME TableInv, Rebuild PROVE TableInv'
  OBVIOUS
<1> USE DEF TableInv, Rebuild, Static
<1>1. /\ WellFormed(OfFile) /\ IsRecord(OfFile)
      /\ OfFile.names = FileColumns /\ OfFile.rows = nrows
      /\ \A n \in ToSet(FileColumns) : OfFile.cell[n].own
      /\ Names(OfFile) = ToSet(FileColumns)
      /\ Baselines(OfFile) \in FingerprintSet /\ Baselines(OfFile) # None
      /\ DOMAIN Baselines(OfFile) = ToSet(FileColumns)
      /\ \A n \in ToSet(FileColumns) : Baselines(OfFile)[n] = <<cells[ColumnOf(n)], nrows>>
  BY OfFileFacts, BaseFacts
<1>2. writer.pc = "filling" /\ UNCHANGED <<dest, others, faults>>
  BY DEF Filled, FillRaises
<1>3. flush.pc = "idle"
  BY <1>2 DEF CallsAlone, Resting
<1>4. \/ data = Unset /\ data' = OfFile /\ base' = Baselines(OfFile)
      \/ data # Unset /\ data' = data /\ base' = base
  BY DEF Materialised
<1>5. IsRecord(data') => data' # Partial
  BY <1>1, <1>4, PyTableAssumption DEF TableTypeOK, WellFormed, IsRecord
<1>6. data' # Unset
  BY <1>1, <1>4 DEF IsRecord
<1>7. \/ /\ writer'.pc = "publishing"
         /\ temp' = IF data' = None THEN Record(<< >>, 0, << >>) ELSE data'
      \/ writer'.pc = "failing"
  BY DEF Filled, FillRaises, To, TableTypeOK
<1>8. TableTypeOK'
  <2>1. writer' \in [pc : {"idle", "filling", "publishing", "published", "failing",
                         "written", "raised", "dead"}, over : BOOLEAN]
    BY DEF Filled, FillRaises, To, TableTypeOK
  <2> QED BY <1>1, <1>2, <1>4, <2>1 DEF TableTypeOK
<1>9. CallsAlone' /\ WriterInv'
  BY <1>2, <1>3, <1>5, <1>6, <1>7, EmptyFacts DEF CallsAlone, WriterInv, IsRecord
<1>10. Attributes'
  BY <1>1, <1>4, PyTableAssumption DEF Attributes, IsRecord
<1>11. FlushProgress' /\ FlushExact'
  BY <1>3 DEF FlushProgress, FlushExact
<1>12. BaselineIsDisk'
  BY <1>1, <1>4 DEF BaselineIsDisk
<1>13. SavedIsSeen'
  BY <1>6, <1>7 DEF SavedIsSeen, Materialised
<1> QED BY <1>8, <1>9, <1>10, <1>11, <1>12, <1>13

\* The steps of _atomic_write, of the system under it and of other processes, which
\* leave the table alone.
Publishing == FillFails \/ Publish \/ PublishRefused \/ PublishFails \/ Unlink \/ Crash \/ OtherTouches

LEMMA PublishingStep == TableInv /\ Publishing /\ UNCHANGED tableVars => TableInv'
<1> SUFFICES ASSUME TableInv, Publishing, UNCHANGED tableVars PROVE TableInv'
  OBVIOUS
<1> USE DEF TableInv, tableVars, Failing, To
<1> USE DEF Publishing, FillFails, FillRaises, Publish, PublishRefused, PublishFails, Unlink,
            Crash, OtherTouches
<1>1. faults' \in Nat /\ faults' >= faults
  BY DEF TableTypeOK
<1>2. writer' \in [pc : {"idle", "filling", "publishing", "published", "failing",
                         "written", "raised", "dead"}, over : BOOLEAN]
  BY DEF TableTypeOK
<1>3. TableTypeOK'
  BY <1>1, <1>2 DEF TableTypeOK
<1>4. writer' = writer \/ writer.pc \notin Resting \ {"dead"}
  BY DEF Resting
<1>5. CallsAlone'
  BY <1>4 DEF CallsAlone
<1>6. WriterInv'
  BY AtomicWriteAssumption DEF WriterInv, TableTypeOK, Resting
<1>7. Attributes'
  BY DEF Attributes, IsRecord
<1>8. FlushProgress'
  BY <1>1 DEF FlushProgress, IsRecord, TableTypeOK
<1>9. FlushExact'
  BY <1>1 DEF FlushExact, TableTypeOK
<1>10. BaselineIsDisk'
  BY DEF BaselineIsDisk
<1>11. SavedIsSeen'
  <2>1. writer'.pc = "publishing" => writer.pc = "publishing" /\ temp' = temp
    BY DEF TableTypeOK
  <2>2. UNCHANGED Materialised
    BY DEF Materialised, OfFile
  <2> QED BY <2>1, <2>2 DEF SavedIsSeen
<1> QED BY <1>3, <1>5, <1>6, <1>7, <1>8, <1>9, <1>10, <1>11

LEMMA StutterTable == TableInv /\ UNCHANGED vars => TableInv'
<1> SUFFICES ASSUME TableInv, UNCHANGED vars PROVE TableInv'
  OBVIOUS
<1> USE DEF TableInv, vars, tableVars, atomicVars
<1>1. TableTypeOK' /\ CallsAlone' /\ WriterInv'
  BY DEF TableTypeOK, CallsAlone, WriterInv
<1>2. Attributes' /\ FlushProgress'
  BY DEF Attributes, FlushProgress, IsRecord
<1>3. FlushExact' /\ BaselineIsDisk'
  BY DEF FlushExact, BaselineIsDisk
<1>4. SavedIsSeen'
  BY DEF SavedIsSeen, Materialised, OfFile
<1> QED BY <1>1, <1>2, <1>3, <1>4

-----------------------------------------------------------------------------
\* The invariant.
THEOREM TableInvariant == Spec => []TableInv
<1>1. TableInv /\ [Next]_vars => TableInv'
  <2> SUFFICES ASSUME TableInv, [Next]_vars PROVE TableInv'
    OBVIOUS
  <2>1. CASE Read
    BY <2>1, ReadStep
  <2>2. ASSUME NEW n \in Name, NEW v \in Value, Mutate(n, v)
        PROVE  TableInv'
    BY <2>2, MutateStep
  <2>3. ASSUME NEW a \in Arrays, SetData(a)
        PROVE  TableInv'
    BY <2>3, SetDataStep
  <2>4. CASE SetNone
    BY <2>4, SetNoneStep
  <2>5. CASE Flush
    BY <2>5, FlushStep
  <2>6. CASE SkipColumn
    BY <2>6, SkipColumnStep
  <2>7. CASE RefuseColumn
    BY <2>7, RefuseColumnStep
  <2>8. CASE WriteColumn
    BY <2>8, WriteColumnStep
  <2>9. CASE WriteFails
    BY <2>9, WriteFailsStep
  <2>10. CASE Sync
    BY <2>10, SyncStep
  <2>11. ASSUME NEW over \in BOOLEAN, Save(over)
         PROVE  TableInv'
    BY <2>11, SaveStep
  <2>12. CASE CopyBytes
    BY <2>12, CopyBytesStep
  <2>13. CASE Rebuild
    BY <2>13, RebuildStep
  <2>14. CASE Publishing /\ UNCHANGED tableVars
    BY <2>14, PublishingStep
  <2>15. CASE UNCHANGED vars
    BY <2>15, StutterTable
  <2> QED BY <2>1, <2>2, <2>3, <2>4, <2>5, <2>6, <2>7, <2>8, <2>9, <2>10, <2>11, <2>12, <2>13,
             <2>14, <2>15 DEF Next, Name, Publishing
<1> QED BY <1>1, InitTable, PTL DEF Spec

\* Whatever the table, the arrays and the failures, what the binding takes for saved is on
\* disk (core.py 1174-1252).
THEOREM TableBaselines == Spec => []BaselineIsDisk
<1>1. TableInv => BaselineIsDisk
  BY DEF TableInv
<1> QED BY <1>1, TableInvariant, PTL

\* A flush that returns has written what the program sees, one that raises has torn nothing
\* but the column whose write failed (core.py 1151-1252).
THEOREM TableFlush == Spec => []FlushExact
<1>1. TableInv => FlushExact
  BY DEF TableInv
<1> QED BY <1>1, TableInvariant, PTL

\* A file that writeto is about to publish has what the program sees (core.py 1892-1979).
THEOREM TableSaved == Spec => []SavedIsSeen
<1>1. TableInv => SavedIsSeen
  BY DEF TableInv
<1> QED BY <1>1, TableInvariant, PTL

\* The destination never holds part of a file, is not replaced without leave, and no
\* temporary file outlives a writeto that returned or raised (core.py 25-54).
THEOREM TableDestination == Spec => DestinationWhole
<1> DEFINE Whole ==
      /\ dest' # Partial
      /\ dest' # dest /\ others' = others => writer.over \/ dest = Absent
      /\ writer'.pc \in {"written", "raised"} => temp' = Absent
<1>1. TableInv /\ TableInv' /\ [Next]_vars => [Whole]_atomicVars
  <2> SUFFICES ASSUME TableInv, TableInv', [Next]_vars PROVE Whole
    OBVIOUS
  <2>1. dest' # Partial /\ (writer'.pc \in {"written", "raised"} => temp' = Absent)
    BY DEF TableInv, WriterInv
  <2>2. dest' = dest \/ (writer.over \/ dest = Absent) \/ others' # others
    <3>1. CASE Publish
      BY <3>1 DEF Publish, Publishes
    <3>2. CASE OtherTouches
      BY <3>2 DEF OtherTouches
    <3>3. CASE ~Publish /\ ~OtherTouches
      BY <3>3 DEF Next, vars, atomicVars, Read, Mutate, SetData, SetNone, Flush, SkipColumn,
                  RefuseColumn, WriteColumn, WriteFails, Sync, Save, Begin, CopyBytes, Rebuild,
                  Filled, FillFails, FillRaises, PublishRefused, PublishFails, Unlink, Crash
    <3> QED BY <3>1, <3>2, <3>3
  <2> QED BY <2>1, <2>2
<1> QED BY <1>1, TableInvariant, PTL DEF Spec, DestinationWhole

-----------------------------------------------------------------------------
\* The formats of the columns (core.py 166-300, 1287-1530), for every count and width.
Elements == {"b1", "u1", "i1", "i2", "u2", "i4", "u4", "i8", "u8", "f4", "f8", "c8", "c16"}

IsNumbers(f) == f.elem \in Elements
IsText(f) == f.elem \in {"S", "U"} /\ f.n = 1 /\ f.width \in Nat
IsObject(f) == f = Field("O", 1, 0) /\ f.elem = "O" /\ f.n = 1

\* A field is a number, a text or the object of a variable-length column; a column's format
\* is one of text, of an array of numbers, or of a variable-length array.
LEMMA FieldForms ==
    ASSUME NEW f \in Fields
    PROVE  IsNumbers(f) \/ IsText(f) \/ IsObject(f)
<1>1. DOMAIN LetterOf = Elements
  BY DEF LetterOf, Elements
<1>2. Counts \subseteq Nat /\ Widths \subseteq Nat
  BY ColumnFormatAssumption
<1>3. CASE f \in [elem : DOMAIN LetterOf, n : Counts, width : {0}]
  BY <1>1, <1>3 DEF IsNumbers
<1>4. CASE f \in [elem : {"S", "U"}, n : {1}, width : Widths]
  BY <1>2, <1>4 DEF IsText
<1>5. CASE f = Field("O", 1, 0)
  BY <1>5 DEF Field, IsObject
<1> QED BY <1>3, <1>4, <1>5 DEF Fields

\* And the columns.
LEMMA ColumnForms ==
    ASSUME NEW c \in Columns
    PROVE  /\ c = Column(c.fmt, c.scaled, c.zero) /\ c # NoColumn
           /\ c.fmt = Format(c.fmt.letter, c.fmt.n, c.fmt.vla)
           /\ c.scaled \in BOOLEAN /\ c.zero \in {"none", "i2", "i4", "i8", "other"}
           /\ \/ c.fmt.letter \in Letters /\ c.fmt.letter # "A" /\ ~c.fmt.vla /\ c.fmt.n \in Nat
              \/ c.fmt.letter \in Letters /\ c.fmt.letter # "A" /\ c.fmt.vla /\ c.fmt.n = 1
              \/ c.fmt.letter = "A" /\ ~c.fmt.vla /\ c.fmt.n \in Nat /\ ~c.scaled
                   /\ c.zero = "none"
<1>1. "A" \notin Letters /\ "refused" \notin Letters
  BY DEF Letters, ElemOf
<1>2. Counts \subseteq Nat /\ Widths \subseteq Nat
  BY ColumnFormatAssumption
<1>3. /\ c = Column(c.fmt, c.scaled, c.zero)
      /\ c.fmt = Format(c.fmt.letter, c.fmt.n, c.fmt.vla)
      /\ c.scaled \in BOOLEAN /\ c.zero \in {"none", "i2", "i4", "i8", "other"}
      /\ c.fmt.letter \in Letters \cup {"A"}
  BY DEF Columns, Column, Format
<1>4. c # NoColumn
  <2>1. NoColumn.fmt.letter = "refused"
    BY DEF NoColumn, Column, Refused, Format
  <2> QED BY <2>1, <1>1, <1>3
<1>5. \/ c.fmt.letter \in Letters /\ ~c.fmt.vla /\ c.fmt.n \in Nat
      \/ c.fmt.letter \in Letters /\ c.fmt.vla /\ c.fmt.n = 1
      \/ c.fmt.letter = "A" /\ ~c.fmt.vla /\ c.fmt.n \in Nat /\ ~c.scaled /\ c.zero = "none"
  BY <1>2 DEF Columns
<1> QED BY <1>1, <1>3, <1>4, <1>5

\* At least one character.
LEMMA Characters ==
    /\ \A w \in Nat : AtLeast1(w) * 1 = AtLeast1(w) /\ AtLeast1(AtLeast1(w)) = AtLeast1(w)
    /\ \A w \in Nat : AtLeast1(w) \in Nat
BY DEF AtLeast1

\* The fields of formats and columns.
LEMMA FormatFields ==
    /\ \A l, n, v : Format(l, n, v).letter = l /\ Format(l, n, v).n = n /\ Format(l, n, v).vla = v
    /\ \A f, s, z : Column(f, s, z).fmt = f /\ Column(f, s, z).scaled = s /\ Column(f, s, z).zero = z
    /\ \A e, n, w : Field(e, n, w).elem = e /\ Field(e, n, w).n = n /\ Field(e, n, w).width = w
BY DEF Format, Column, Field

\* What a column of numbers, of text and of arrays reads as.
LEMMA ReadsText ==
    ASSUME NEW c, c.fmt.letter = "A"
    PROVE  ReadAs(c) = Field("S", 1, AtLeast1(c.fmt.n))
BY DEF ReadAs
\* A variable-length column reads as one object a row.
LEMMA ReadsArrays ==
    ASSUME NEW c, c.fmt.letter # "A", c.fmt.vla
    PROVE  ReadAs(c) = Field("O", 1, 0)
BY DEF ReadAs
ElementRead(c) ==
    LET elem == ElemOf[c.fmt.letter]
    IN IF elem \notin Integers_ THEN elem
       ELSE IF ~c.scaled /\ elem \in DOMAIN UnsignedOf /\ c.zero = elem THEN UnsignedOf[elem]
       ELSE IF c.scaled \/ c.zero # "none" THEN "f8" ELSE elem
\* Any other column reads as numbers of the type its letter, scaling and TZERO give.
LEMMA ReadsNumbers ==
    ASSUME NEW c, c.fmt.letter # "A", ~c.fmt.vla
    PROVE  ReadAs(c) = Field(ElementRead(c), c.fmt.n, 0)
BY DEF ReadAs, ElementRead

\* A field of numbers saved in a format of its element type, and count, reads back.
LEMMA NumbersReadBack ==
    ASSUME NEW f, IsNumbers(f), NEW fmt, fmt.letter \in Letters, ~fmt.vla,
           fmt.n = f.n, ElemOf[fmt.letter] = ElemOf[LetterOf[f.elem]]
    PROVE  ReadsAs(f, ReadAs(Written(fmt, f)))
<1> DEFINE c == Written(fmt, f)
<1>1. c.fmt = fmt /\ ~c.scaled /\ c.zero = UnsignedTzero(fmt, f)
  BY DEF Written, Column
<1> HIDE DEF c
<1>2. fmt.letter # "A"
  BY DEF Letters, ElemOf
<1>3. ReadAs(c) = Field(ElementRead(c), fmt.n, 0)
  BY <1>1, <1>2, ReadsNumbers
<1>4. ElementRead(c) = IF f.elem \in {"b1", "i1"} THEN "u1" ELSE f.elem
  <2>1. fmt.letter \in {"L", "X", "B", "I", "J", "K", "E", "D", "C", "M"}
    BY DEF Letters, ElemOf
  <2>2. CASE f.elem \in {"b1", "u1", "i1"}
    <3>1. ElemOf[fmt.letter] = "u1" /\ UnsignedTzero(fmt, f) = "none"
      BY <2>2 DEF ElemOf, LetterOf, UnsignedTzero, OffsetFor
    <3> QED BY <2>2, <3>1, <1>1 DEF ElementRead, UnsignedOf, Integers_
  <2>3. CASE f.elem \in {"f4", "f8", "c8", "c16"}
    <3>1. ElemOf[fmt.letter] = f.elem
      BY <2>3 DEF ElemOf, LetterOf
    <3> QED BY <2>3, <3>1, <1>1 DEF ElementRead, Integers_
  <2>4. CASE f.elem \in {"i2", "i4", "i8"}
    <3>1. ElemOf[fmt.letter] = f.elem /\ UnsignedTzero(fmt, f) = "none"
      BY <2>4 DEF ElemOf, LetterOf, UnsignedTzero, OffsetFor
    <3> QED BY <2>4, <3>1, <1>1 DEF ElementRead, UnsignedOf, Integers_
  <2>5. CASE f.elem = "u2"
    <3>1. ElemOf[fmt.letter] = "i2"
      BY <2>5 DEF ElemOf, LetterOf
    <3>2. fmt.letter = "I"
      BY <2>1, <3>1 DEF ElemOf
    <3>3. UnsignedTzero(fmt, f) = "i2"
      BY <2>5, <3>2 DEF UnsignedTzero, OffsetFor
    <3> QED BY <2>5, <3>1, <3>3, <1>1 DEF ElementRead, UnsignedOf, Integers_
  <2>6. CASE f.elem = "u4"
    <3>1. ElemOf[fmt.letter] = "i4"
      BY <2>6 DEF ElemOf, LetterOf
    <3>2. fmt.letter = "J"
      BY <2>1, <3>1 DEF ElemOf
    <3>3. UnsignedTzero(fmt, f) = "i4"
      BY <2>6, <3>2 DEF UnsignedTzero, OffsetFor
    <3> QED BY <2>6, <3>1, <3>3, <1>1 DEF ElementRead, UnsignedOf, Integers_
  <2>7. CASE f.elem = "u8"
    <3>1. ElemOf[fmt.letter] = "i8"
      BY <2>7 DEF ElemOf, LetterOf
    <3>2. fmt.letter = "K"
      BY <2>1, <3>1 DEF ElemOf
    <3>3. UnsignedTzero(fmt, f) = "i8"
      BY <2>7, <3>2 DEF UnsignedTzero, OffsetFor
    <3> QED BY <2>7, <3>1, <3>3, <1>1 DEF ElementRead, UnsignedOf, Integers_
  <2> QED BY <2>2, <2>3, <2>4, <2>5, <2>6, <2>7 DEF Elements, IsNumbers
<1>5. f.elem \notin {"S", "U"} /\ ElementRead(c) # "S"
  BY <1>4 DEF Elements, IsNumbers
<1> QED BY <1>3, <1>4, <1>5 DEF ReadsAs, c

\* The format a field of itself is given.
LEMMA FormatOfNumbers ==
    ASSUME NEW f, IsNumbers(f)
    PROVE  /\ TformFromDtype(f) = Format(LetterOf[f.elem], f.n, FALSE)
           /\ LetterOf[f.elem] \in Letters /\ LetterOf[f.elem] # "A"
           /\ TformFromDtype(f) # Refused
<1>1. f.elem \notin {"S", "U"} /\ f.elem \in DOMAIN LetterOf
  BY DEF Elements, LetterOf, IsNumbers
<1>2. TformFromDtype(f) = Format(LetterOf[f.elem], f.n, FALSE)
  BY <1>1 DEF TformFromDtype
<1>3. LetterOf[f.elem] \in Letters /\ LetterOf[f.elem] # "A"
  BY <1>1 DEF LetterOf, Letters, ElemOf
<1>4. "refused" \notin Letters
  BY DEF Letters, ElemOf
<1>5. Refused.letter = "refused" /\ TformFromDtype(f).letter = LetterOf[f.elem]
  BY <1>2 DEF Refused, Format
<1> QED BY <1>2, <1>3, <1>4, <1>5
\* A text has one value of its width.
LEMMA TextCharacters ==
    ASSUME NEW n, n = 1, NEW w \in Nat
    PROVE  AtLeast1(w) * n = AtLeast1(w)
BY Characters
TextCount(f, p) == AtLeast1(f.width) * f.n = p
\* A text is saved in a column of its characters.
LEMMA TextTform ==
    ASSUME NEW f, NEW p, TextCount(f, p), f.elem \in {"S", "U"}
    PROVE  TformFromDtype(f) = Format("A", p, FALSE)
<1>1. f.elem \notin DOMAIN LetterOf
  BY DEF LetterOf
<1>2. TformFromDtype(f) = CASE f.elem \in {"S", "U"} -> Format("A", p, FALSE)
                            [] f.elem \in DOMAIN LetterOf -> Format(LetterOf[f.elem], f.n, FALSE)
                            [] OTHER -> Refused
  BY DEF TformFromDtype, TextCount
<1> QED BY <1>1, <1>2
\* ... which are its width, or one.
LEMMA FormatOfText ==
    ASSUME NEW f, IsText(f)
    PROVE  TformFromDtype(f) = Format("A", AtLeast1(f.width), FALSE) /\ TformFromDtype(f) # Refused
<1> DEFINE n == f.n  w == f.width
<1>1. f.elem \in {"S", "U"}
  BY DEF IsText
<1>2. n = 1 /\ w \in Nat
  BY DEF IsText
<1> DEFINE p == AtLeast1(w)
<1>3. TextCount(f, p)
  <2>1. p * n = p
    <3> HIDE DEF n, w
    <3> QED BY ONLY <1>2, TextCharacters
  <2> QED BY <2>1 DEF TextCount
<1> DEFINE synth == TformFromDtype(f)
<1> HIDE DEF p
<1>4. synth = Format("A", p, FALSE)
  BY <1>1, <1>3, TextTform
<1> HIDE DEF synth
<1>5. synth.letter = "A" /\ Refused.letter = "refused"
  BY <1>4 DEF Format, Refused
<1> QED BY <1>4, <1>5 DEF p, synth
\* An object has no format of its own.
LEMMA FormatOfObject ==
    ASSUME NEW f, IsObject(f)
    PROVE  TformFromDtype(f) = Refused
<1>1. f.elem \notin {"S", "U"} /\ f.elem \notin DOMAIN LetterOf
  BY DEF LetterOf, IsObject
<1> QED BY <1>1 DEF TformFromDtype

\* A field is saved in the format of itself, or in the column's where that is
\* interchangeable with it, and reads back.
LEMMA SavedReadsBack ==
    ASSUME NEW f \in Fields, TformFromDtype(f) # Refused, NEW fmt, ~fmt.vla,
           fmt = Format(fmt.letter, fmt.n, fmt.vla), fmt.letter \in Letters \cup {"A"},
           Interchangeable(fmt, TformFromDtype(f))
    PROVE  ReadsAs(f, ReadAs(Written(fmt, f)))
<1> DEFINE synth == TformFromDtype(f)
<1>1. "A" \notin Letters
  BY DEF Letters, ElemOf
<1>2. ~IsObject(f)
  BY FormatOfObject
<1>3. CASE IsNumbers(f)
  <2>1. synth.letter = LetterOf[f.elem] /\ synth.n = f.n /\ LetterOf[f.elem] # "A"
    <3>1. synth = Format(LetterOf[f.elem], f.n, FALSE) /\ LetterOf[f.elem] # "A"
      BY <1>3, FormatOfNumbers
    <3> HIDE DEF synth
    <3> QED BY <3>1 DEF Format
  <2> HIDE DEF synth
  <2>2. fmt.letter \in Letters /\ fmt.n = f.n /\ ElemOf[fmt.letter] = ElemOf[LetterOf[f.elem]]
    <3>1. fmt.n = synth.n /\ (fmt.letter = synth.letter \/
             ("A" \notin {fmt.letter, synth.letter} /\ ElemOf[fmt.letter] = ElemOf[synth.letter]))
      BY DEF Interchangeable, synth
    <3> QED BY <3>1, <2>1
  <2> QED BY <1>3, <2>2, NumbersReadBack
<1>4. CASE IsText(f)
  <2>1. synth = Format("A", AtLeast1(f.width), FALSE)
    BY <1>4, FormatOfText
  <2>2. fmt.letter = "A" /\ fmt.n = AtLeast1(f.width)
    <3> HIDE DEF synth
    <3>1. synth.letter = "A" /\ synth.n = AtLeast1(f.width)
      BY <2>1 DEF Format
    <3> QED BY <3>1 DEF Interchangeable, synth
  <2> DEFINE c == Written(fmt, f)
  <2>3. c.fmt = fmt
    BY DEF Written, Column
  <2> HIDE DEF c
  <2>4. ReadAs(c) = Field("S", 1, AtLeast1(AtLeast1(f.width)))
    BY <2>2, <2>3, ReadsText
  <2>5. AtLeast1(AtLeast1(f.width)) = AtLeast1(f.width)
    <3> DEFINE w == f.width
    <3>1. w \in Nat
      BY <1>4 DEF IsText
    <3> HIDE DEF w
    <3> QED BY ONLY <3>1, Characters DEF w
  <2> QED BY <1>4, <2>4, <2>5 DEF ReadsAs, c, IsText
<1> QED BY <1>2, <1>3, <1>4, FieldForms

\* A format is interchangeable with itself.
LEMMA SynthReadsBack ==
    ASSUME NEW f \in Fields, TformFromDtype(f) # Refused
    PROVE  /\ ReadsAs(f, ReadAs(Written(TformFromDtype(f), f))) /\ ~IsObject(f)
           /\ ~TformFromDtype(f).vla /\ TformFromDtype(f).letter \in Letters \cup {"A"}
           /\ TformFromDtype(f) = Format(TformFromDtype(f).letter, TformFromDtype(f).n, FALSE)
<1> DEFINE synth == TformFromDtype(f)
<1>1. /\ ~synth.vla /\ synth.letter \in Letters \cup {"A"}
      /\ synth = Format(synth.letter, synth.n, FALSE)
  <2>1. CASE IsNumbers(f)
    <3>1. synth = Format(LetterOf[f.elem], f.n, FALSE) /\ LetterOf[f.elem] \in Letters
      BY <2>1, FormatOfNumbers
    <3> HIDE DEF synth
    <3> QED BY <3>1 DEF Format
  <2>2. CASE IsText(f)
    <3>1. synth = Format("A", AtLeast1(f.width), FALSE)
      BY <2>2, FormatOfText
    <3> HIDE DEF synth
    <3> QED BY <3>1 DEF Format
  <2>3. ~IsObject(f)
    BY FormatOfObject
  <2> QED BY <2>1, <2>2, <2>3, FieldForms
<1> HIDE DEF synth
<1>2. Interchangeable(synth, synth)
  BY DEF Interchangeable
<1>3. synth = Format(synth.letter, synth.n, synth.vla)
  BY <1>1 DEF Format
<1>4. ~IsObject(f)
  BY FormatOfObject
<1> QED BY <1>1, <1>2, <1>3, <1>4, SavedReadsBack DEF synth

\* The format of a column of the file.
Convention(c) == ~c.scaled /\ c.zero \in DOMAIN UnsignedOf
\* Text keeps its width, a scaling without a convention is refused, the rest is copied.
LEMMA TformIs ==
    ASSUME NEW c \in Columns
    PROVE  /\ c.fmt.letter = "A" => TformOf(c) = Format("A", AtLeast1(c.fmt.n), FALSE)
           /\ c.fmt.letter # "A" /\ (c.scaled \/ c.zero # "none") /\ ~Convention(c) =>
                 TformOf(c) = Refused
           /\ c.fmt.letter # "A" /\ ~((c.scaled \/ c.zero # "none") /\ ~Convention(c)) =>
                 TformOf(c) = IF c.fmt.vla THEN Format(c.fmt.letter, 1, TRUE) ELSE c.fmt
<1>1. Convention(c) <=> (~c.scaled /\ c.zero \in DOMAIN UnsignedOf)
  BY DEF Convention
<1> QED BY <1>1 DEF TformOf

\* What is stored where the column is taken for the old one.
StoredAlike(c, fmt, f) ==
    Compatible(c, fmt, f) =>
       /\ Written(fmt, f).zero = c.zero
       /\ Written(fmt, f).fmt = [c.fmt EXCEPT !.n = IF fmt.letter = "A" THEN AtLeast1(@) ELSE @]
\* A column taken for the old one has its format and its TZERO.
LEMMA AlikeIfOwn ==
    ASSUME NEW c \in Columns, NEW fmt, NEW f
    PROVE  StoredAlike(c, fmt, f)
<1> SUFFICES ASSUME Compatible(c, fmt, f)
             PROVE  /\ Written(fmt, f).zero = c.zero
                    /\ Written(fmt, f).fmt =
                         [c.fmt EXCEPT !.n = IF fmt.letter = "A" THEN AtLeast1(@) ELSE @]
  BY DEF StoredAlike
<1>1. fmt = TformOf(c) /\ ~c.scaled /\ c.zero = UnsignedTzero(fmt, f)
  BY DEF Compatible
<1>2. Written(fmt, f).fmt = fmt /\ Written(fmt, f).zero = UnsignedTzero(fmt, f)
  BY DEF Written, Column
<1>3. c.fmt = Format(c.fmt.letter, c.fmt.n, c.fmt.vla)
  BY ColumnForms
<1>4. ASSUME NEW n
      PROVE  [c.fmt EXCEPT !.n = n] = Format(c.fmt.letter, n, c.fmt.vla)
  <2> DEFINE x == c.fmt a == x.letter b == x.n v == x.vla
  <2>1. x = Format(a, b, v)
    BY <1>3
  <2> HIDE DEF a, b, v
  <2>2. [Format(a, b, v) EXCEPT !.n = n] = Format(a, n, v)
    BY DEF Format
  <2> QED BY <2>1, <2>2 DEF a, v
<1>5. CASE c.fmt.letter = "A"
  <2>1. fmt = Format("A", AtLeast1(c.fmt.n), FALSE) /\ ~c.fmt.vla /\ fmt.letter = "A"
    <3>1. fmt = Format("A", AtLeast1(c.fmt.n), FALSE)
      BY <1>1, <1>5, TformIs
    <3>2. ~c.fmt.vla
      BY <1>5, ColumnForms
    <3> DEFINE n == AtLeast1(c.fmt.n)
    <3> HIDE DEF n
    <3>3. fmt.letter = "A"
      BY <3>1 DEF Format, n
    <3> QED BY <3>1, <3>2, <3>3
  <2>2. Format("A", AtLeast1(c.fmt.n), FALSE) = Format(c.fmt.letter, AtLeast1(c.fmt.n), c.fmt.vla)
    <3>1. c.fmt.vla = FALSE
      BY <1>5, ColumnForms
    <3> QED BY <1>5, <3>1
  <2> QED BY <1>1, <1>2, <1>4, <2>1, <2>2
<1>6. CASE c.fmt.letter # "A"
  <2>1. UnsignedTzero(fmt, f) \in {"none", "i2", "i4", "i8"}
    BY DEF UnsignedTzero, OffsetFor
  <2>2. DOMAIN UnsignedOf = {"i2", "i4", "i8"}
    BY DEF UnsignedOf
  <2>3. fmt = IF c.fmt.vla THEN Format(c.fmt.letter, 1, TRUE) ELSE c.fmt
    BY <1>1, <1>6, <2>1, <2>2, TformIs DEF Convention
  <2>4. fmt = c.fmt
    <3>1. c.fmt.vla => c.fmt.vla = TRUE /\ c.fmt.n = 1
      BY ColumnForms, <1>6
    <3> QED BY <2>3, <3>1, <1>3 DEF Format
  <2>5. [c.fmt EXCEPT !.n = c.fmt.n] = c.fmt
    BY <1>3, <1>4
  <2> QED BY <1>1, <1>2, <1>6, <2>4, <2>5
<1> QED BY <1>5, <1>6

\* The format a column of the file that is no array is copied in.
HaveForm(c) ==
    LET have == TformOf(c)
    IN ~have.vla /\ have = Format(have.letter, have.n, have.vla) /\ have.letter \in Letters \cup {"A"}
\* It is that of text or of numbers.
LEMMA HaveForms ==
    ASSUME NEW c \in Columns, ~c.fmt.vla, TformOf(c) # Refused
    PROVE  HaveForm(c)
<1> DEFINE have == TformOf(c)
<1>1. CASE c.fmt.letter = "A"
  <2>1. have = Format("A", AtLeast1(c.fmt.n), FALSE)
    BY <1>1, TformIs
  <2> DEFINE n == AtLeast1(c.fmt.n)
  <2> HIDE DEF have, n
  <2>2. ~have.vla /\ have = Format(have.letter, have.n, have.vla) /\ have.letter = "A"
    BY <2>1 DEF Format, n
  <2> QED BY <2>2 DEF HaveForm, have
<1>2. CASE c.fmt.letter # "A"
  <2>1. have = c.fmt
    BY <1>2, TformIs
  <2> QED BY <2>1, <1>2, ColumnForms DEF HaveForm
<1> QED BY <1>1, <1>2

\* A field saved over any column of the file, or over none.
LEMMA ExactAlways ==
    ASSUME NEW c \in Columns \cup {NoColumn}, NEW f \in Fields
    PROVE  Exact(c, f)
<1> DEFINE fmt == BinaryTformFor(c, f)  synth == TformFromDtype(f)  have == TformOf(c)
<1> SUFFICES ASSUME fmt # Refused
             PROVE  /\ IF c # NoColumn /\ c.fmt.vla THEN ReadAs(Written(fmt, f)) = Field("O", 1, 0)
                       ELSE f.elem # "O" => ReadsAs(f, ReadAs(Written(fmt, f)))
                    /\ StoredAlike(c, fmt, f)
  BY DEF Exact, StoredAlike
<1>1. StoredAlike(c, fmt, f)
  <2>1. CASE c \in Columns
    BY <2>1, AlikeIfOwn
  <2>2. CASE c = NoColumn
    BY <2>2 DEF StoredAlike, Compatible
  <2> QED BY <2>1, <2>2
<1>2. CASE c # NoColumn /\ c.fmt.vla
  <2>1. fmt = have
    BY <1>2 DEF BinaryTformFor
  <2>2. c \in Columns /\ c.fmt.letter # "A"
    BY <1>2, ColumnForms
  <2>3. fmt = Format(c.fmt.letter, 1, TRUE)
    <3>1. have = Refused \/ have = Format(c.fmt.letter, 1, TRUE)
      BY <1>2, <2>2, TformIs
    <3> QED BY <2>1, <3>1
  <2> DEFINE x == Written(fmt, f)
  <2>4. x.fmt = fmt
    BY DEF Written, Column
  <2> HIDE DEF x
  <2> HIDE DEF fmt
  <2>5. x.fmt.letter # "A" /\ x.fmt.vla
    BY <2>2, <2>3, <2>4 DEF Format
  <2>6. ReadAs(x) = Field("O", 1, 0)
    BY <2>5, ReadsArrays
  <2> QED BY <1>1, <1>2, <2>6 DEF x
<1>3. CASE f.elem # "O" /\ ~(c # NoColumn /\ c.fmt.vla)
  <2>1. CASE synth = Refused \/ c = NoColumn
    <3>1. fmt = synth
      BY <1>3, <2>1 DEF BinaryTformFor
    <3> QED BY <1>1, <1>3, <3>1, SynthReadsBack
  <2>2. CASE synth # Refused /\ c # NoColumn /\ ~Interchangeable(have, synth)
    <3>1. fmt = synth
      BY <1>3, <2>2 DEF BinaryTformFor
    <3> QED BY <1>1, <1>3, <3>1, SynthReadsBack
  <2>3. CASE synth # Refused /\ c # NoColumn /\ Interchangeable(have, synth)
    <3>1. fmt = have
      BY <1>3, <2>3 DEF BinaryTformFor
    <3>2. HaveForm(c)
      BY <1>3, <2>3, <3>1, HaveForms
    <3>3. ReadsAs(f, ReadAs(Written(have, f)))
      BY <2>3, <3>1, <3>2, SavedReadsBack DEF HaveForm
    <3> QED BY <1>1, <1>3, <3>1, <3>3
  <2> QED BY <2>1, <2>2, <2>3
<1>4. CASE f.elem = "O" /\ ~(c # NoColumn /\ c.fmt.vla)
  BY <1>1, <1>4
<1> QED BY <1>2, <1>3, <1>4

\* The same of a detached table.
LEMMA DetachedExactAlways ==
    ASSUME NEW c \in Columns \cup {NoColumn}, NEW f \in Fields, NEW same \in BOOLEAN
    PROVE  DetachedExact(c, f, same)
<1> DEFINE fmt == DetachedTformFor(c, f, same)  synth == TformFromDtype(f)
<1> SUFFICES ASSUME fmt # Refused
             PROVE  ReadsAs(f, ReadAs(Written(fmt, f)))
  BY DEF DetachedExact
<1>1. BinaryTformFor(NoColumn, f) = synth
  BY DEF BinaryTformFor
<1>2. CASE c # NoColumn /\ f.elem = "O" /\ c.fmt.vla
  <2>1. fmt = c.fmt
    BY <1>2 DEF DetachedTformFor
  <2>2. c \in Columns /\ c.fmt.letter # "A"
    BY <1>2, ColumnForms
  <2> DEFINE x == Written(fmt, f)
  <2>3. x.fmt = fmt
    BY DEF Written, Column
  <2> HIDE DEF fmt, x
  <2>4. ReadAs(x) = Field("O", 1, 0)
    BY <1>2, <2>1, <2>2, <2>3, ReadsArrays
  <2>5. IsObject(f)
    BY <1>2, FieldForms DEF IsNumbers, IsText, Elements
  <2> QED BY <2>4, <2>5 DEF ReadsAs, IsObject, x
<1>3. CASE ~(c # NoColumn /\ f.elem = "O" /\ c.fmt.vla)
           /\ c # NoColumn /\ ~c.fmt.vla /\ synth # Refused /\ Interchangeable(c.fmt, synth)
  <2>1. fmt = c.fmt
    BY <1>1, <1>3 DEF DetachedTformFor
  <2>2. c.fmt = Format(c.fmt.letter, c.fmt.n, c.fmt.vla) /\ c.fmt.letter \in Letters \cup {"A"}
    BY <1>3, ColumnForms
  <2> QED BY <1>3, <2>1, <2>2, SavedReadsBack
<1>4. CASE ~(c # NoColumn /\ f.elem = "O" /\ c.fmt.vla)
           /\ ~(c # NoColumn /\ ~c.fmt.vla /\ synth # Refused /\ Interchangeable(c.fmt, synth))
  <2>1. fmt = synth
    BY <1>1, <1>4 DEF DetachedTformFor
  <2> QED BY <2>1, SynthReadsBack
<1> QED BY <1>2, <1>3, <1>4

\* The element type a column of numbers reads as is one of its own format's.
LEMMA ElementReadBack ==
    ASSUME NEW c \in Columns, c.fmt.letter # "A", ~c.scaled,
           c.zero = "none" \/ ElemOf[c.fmt.letter] = c.zero
    PROVE  /\ ElementRead(c) \in Elements
           /\ ElemOf[LetterOf[ElementRead(c)]] = ElemOf[c.fmt.letter]
           /\ ~((c.scaled \/ c.zero # "none") /\ ~Convention(c))
<1>1. c.fmt.letter \in {"L", "X", "B", "I", "J", "K", "E", "D", "C", "M"}
  BY ColumnForms DEF Letters, ElemOf
<1>2. c.zero \in {"none", "i2", "i4", "i8", "other"}
  BY ColumnForms
<1>3. CASE c.fmt.letter \in {"L", "X", "B"}
  <2>1. ElemOf[c.fmt.letter] = "u1" /\ c.zero = "none"
    BY <1>2, <1>3 DEF ElemOf
  <2>2. ElementRead(c) = "u1"
    BY <2>1 DEF ElementRead, Integers_, UnsignedOf
  <2>3. "u1" \in Elements /\ ElemOf[LetterOf["u1"]] = "u1"
    BY DEF Elements, LetterOf, ElemOf
  <2> QED BY <2>1, <2>2, <2>3
<1>4. CASE c.fmt.letter \in {"E", "D", "C", "M"}
  <2>1. /\ ElemOf[c.fmt.letter] \in {"f4", "f8", "c8", "c16"} /\ c.zero = "none"
        /\ ElemOf[LetterOf[ElemOf[c.fmt.letter]]] = ElemOf[c.fmt.letter]
    BY <1>2, <1>4 DEF ElemOf, LetterOf
  <2>2. ElementRead(c) = ElemOf[c.fmt.letter]
    BY <2>1 DEF ElementRead, Integers_
  <2> QED BY <2>1, <2>2 DEF Elements
<1>5. CASE c.fmt.letter \in {"I", "J", "K"}
  <2>1. ASSUME NEW l, NEW e, NEW u, c.fmt.letter = l, ElemOf[l] = e,
               e \in Integers_, e \in DOMAIN UnsignedOf, UnsignedOf[e] = u,
               e \in Elements, u \in Elements, ElemOf[LetterOf[u]] = e, ElemOf[LetterOf[e]] = e
        PROVE  /\ ElementRead(c) \in Elements
               /\ ElemOf[LetterOf[ElementRead(c)]] = ElemOf[c.fmt.letter]
               /\ ~((c.scaled \/ c.zero # "none") /\ ~Convention(c))
    BY <2>1 DEF ElementRead, Convention
  <2>2. CASE c.fmt.letter = "I"
    <3> DEFINE e == "i2" u == "u2"
    <3>1. /\ ElemOf[c.fmt.letter] = e /\ e \in Integers_ /\ e \in DOMAIN UnsignedOf
          /\ UnsignedOf[e] = u /\ e \in Elements /\ u \in Elements
          /\ ElemOf[LetterOf[u]] = e /\ ElemOf[LetterOf[e]] = e
      BY <2>2 DEF ElemOf, LetterOf, Integers_, UnsignedOf, Elements
    <3> HIDE DEF e, u
    <3> QED BY <2>1, <3>1
  <2>3. CASE c.fmt.letter = "J"
    <3> DEFINE e == "i4" u == "u4"
    <3>1. /\ ElemOf[c.fmt.letter] = e /\ e \in Integers_ /\ e \in DOMAIN UnsignedOf
          /\ UnsignedOf[e] = u /\ e \in Elements /\ u \in Elements
          /\ ElemOf[LetterOf[u]] = e /\ ElemOf[LetterOf[e]] = e
      BY <2>3 DEF ElemOf, LetterOf, Integers_, UnsignedOf, Elements
    <3> HIDE DEF e, u
    <3> QED BY <2>1, <3>1
  <2>4. CASE c.fmt.letter = "K"
    <3> DEFINE e == "i8" u == "u8"
    <3>1. /\ ElemOf[c.fmt.letter] = e /\ e \in Integers_ /\ e \in DOMAIN UnsignedOf
          /\ UnsignedOf[e] = u /\ e \in Elements /\ u \in Elements
          /\ ElemOf[LetterOf[u]] = e /\ ElemOf[LetterOf[e]] = e
      BY <2>4 DEF ElemOf, LetterOf, Integers_, UnsignedOf, Elements
    <3> HIDE DEF e, u
    <3> QED BY <2>1, <3>1
  <2> QED BY <1>5, <2>2, <2>3, <2>4
<1> QED BY <1>1, <1>3, <1>4, <1>5

\* A column nobody edited keeps its format.
LEMMA KeepsFormatAlways ==
    ASSUME NEW c \in Columns, ~c.scaled
    PROVE  KeepsFormat(c)
<1> DEFINE f == ReadAs(c)  synth == TformFromDtype(f)  have == TformOf(c)
<1> SUFFICES ASSUME c.zero = "none" \/ (~c.fmt.vla /\ ElemOf[c.fmt.letter] = c.zero)
             PROVE  BinaryTformFor(c, f) = have
  BY DEF KeepsFormat
<1>1. c # NoColumn
  BY ColumnForms
<1>2. CASE c.fmt.vla
  BY <1>1, <1>2 DEF BinaryTformFor
<1>3. CASE ~c.fmt.vla /\ c.fmt.letter = "A"
  <2>1. f = Field("S", 1, AtLeast1(c.fmt.n)) /\ c.fmt.n \in Nat
    BY <1>3, ReadsText, ColumnForms DEF Letters, ElemOf
  <2>2. have = Format("A", AtLeast1(c.fmt.n), FALSE)
    BY <1>3, TformIs
  <2> DEFINE w == AtLeast1(c.fmt.n)
  <2>3. w \in Nat /\ AtLeast1(w) = w
    <3> DEFINE n == c.fmt.n
    <3>1. n \in Nat
      BY <2>1
    <3> HIDE DEF n
    <3> QED BY ONLY <3>1, Characters DEF n
  <2> HIDE DEF w
  <2>4. f.elem = "S" /\ f.n = 1 /\ f.width = w
    <3> HIDE DEF f
    <3> QED BY <2>1, FormatFields DEF w
  <2>5. IsText(f)
    BY <2>3, <2>4 DEF IsText
  <2>6. synth = Format("A", w, FALSE) /\ synth # Refused
    <3>1. synth = Format("A", AtLeast1(f.width), FALSE) /\ synth # Refused
      BY <2>5, FormatOfText
    <3> HIDE DEF synth, f
    <3> QED BY <3>1, <2>3, <2>4
  <2>7. Interchangeable(have, synth)
    <3> HIDE DEF have, synth
    <3> QED BY <2>2, <2>6 DEF Interchangeable, w
  <2> QED BY <1>1, <2>6, <2>7 DEF BinaryTformFor
<1>4. CASE ~c.fmt.vla /\ c.fmt.letter # "A"
  <2>1. f = Field(ElementRead(c), c.fmt.n, 0)
    BY <1>4, ReadsNumbers
  <2>2. /\ ElementRead(c) \in Elements
        /\ ElemOf[LetterOf[ElementRead(c)]] = ElemOf[c.fmt.letter]
        /\ ~((c.scaled \/ c.zero # "none") /\ ~Convention(c))
    BY <1>4, ElementReadBack
  <2>3. have = c.fmt
    BY <1>4, <2>2, TformIs
  <2> DEFINE e == ElementRead(c)
  <2> HIDE DEF e
  <2>4. f.elem = e /\ f.n = c.fmt.n
    <3> HIDE DEF f
    <3> QED BY <2>1, FormatFields DEF e
  <2>5. IsNumbers(f)
    BY <2>2, <2>4 DEF IsNumbers, e
  <2>6. synth = Format(LetterOf[f.elem], f.n, FALSE) /\ synth # Refused /\ LetterOf[f.elem] # "A"
    BY <2>5, FormatOfNumbers
  <2>7. Interchangeable(have, synth)
    <3> HIDE DEF have, synth, f
    <3>1. synth.letter = LetterOf[e] /\ synth.n = c.fmt.n
      BY <2>4, <2>6 DEF Format
    <3> QED BY <1>4, <2>2, <2>3, <2>4, <2>6, <3>1 DEF Interchangeable, e
  <2> QED BY <1>1, <2>6, <2>7 DEF BinaryTformFor
<1> QED BY <1>2, <1>3, <1>4

\* Hence every kind of column is saved exactly.
LEMMA EveryKind == {"plain", "vla", "scaled", "new"} \subseteq ExactKinds
<1>1. DOMAIN ColumnsOf = {"plain", "vla", "scaled", "new"}
  BY DEF ColumnsOf
<1>2. ColumnsOf.plain \subseteq Columns /\ ColumnsOf.vla \subseteq Columns
      /\ ColumnsOf.scaled \subseteq Columns /\ ColumnsOf.new = {NoColumn}
  BY DEF ColumnsOf
<1>3. \A k \in DOMAIN ColumnsOf : ColumnsOf[k] \subseteq Columns \cup {NoColumn}
  BY <1>1, <1>2
<1>4. ASSUME NEW k \in DOMAIN ColumnsOf, NEW c \in ColumnsOf[k]
      PROVE  /\ \A f \in Fields : Exact(c, f) /\ \A same \in BOOLEAN : DetachedExact(c, f, same)
             /\ c # NoColumn /\ ~c.scaled => KeepsFormat(c)
  <2>1. c \in Columns \cup {NoColumn}
    BY <1>3
  <2> QED BY <2>1, ExactAlways, DetachedExactAlways, KeepsFormatAlways
<1>5. DOMAIN ColumnsOf \subseteq ExactKinds
  BY <1>4 DEF ExactKinds
<1> QED BY <1>1, <1>5

\* The kinds of the file's columns never change.
LEMMA KindFixed == Spec => [](kind \in Kinds)
<1>1. Init => kind \in Kinds
  BY DEF Init
<1>2. kind \in Kinds /\ [Next]_vars => (kind \in Kinds)'
  BY DEF Next, vars, tableVars, Static, Read, Mutate, SetData, SetNone, Flush, SkipColumn,
         RefuseColumn, WriteColumn, WriteFails, Sync, Save, CopyBytes, Rebuild
<1> QED BY <1>1, <1>2, PTL DEF Spec

\* A published table holds what the program has in it, whatever the formats of its columns
\* and of the array's fields are.
THEOREM TableColumnsRoundTrip == Spec => []ColumnRoundTrip
<1>1. kind \in Kinds => ColumnRoundTrip
  <2> SUFFICES ASSUME kind \in Kinds, NEW n PROVE KindIn(n) \in ExactKinds
    BY DEF ColumnRoundTrip
  <2>1. kind \in [ToSet(FileColumns) -> {"plain", "vla", "scaled"}]
    BY PyTableAssumption
  <2>2. KindIn(n) \in {"plain", "vla", "scaled", "new"}
    BY <2>1 DEF KindIn
  <2> QED BY <2>2, EveryKind
<1> QED BY <1>1, KindFixed, PTL

-----------------------------------------------------------------------------
\* The keywords that speak of columns by number (core.py 66-152), for every change of them.

\* A card: its fields, and the columns it names.
CardOK(c) ==
    /\ c = Card(c.key, c.cols, c.alt, c.label) /\ c.key \in DOMAIN KindOf
    /\ c.cols = [i \in DOMAIN c.cols |-> c.cols[i]] /\ 1 \in DOMAIN c.cols
    /\ \A i \in DOMAIN c.cols : c.cols[i] \in 1..MaxColumns
HasShape(c) ==
    \E k \in DOMAIN KindOf : \E cs, a, l :
      /\ c = Card(k, cs, a, l)
      /\ \/ \E x \in 1..NumColumns : cs = <<x>>
         \/ \E x \in 1..NumColumns, y \in 1..NumColumns : cs = <<x, y>>
\* Each of the sets of cards gives cards of a known keyword and one or two columns.
LEMMA CardShapes ==
    ASSUME NEW c \in Cards
    PROVE  HasShape(c)
<1>1. ASSUME NEW k \in DOMAIN KindOf, NEW x \in 1..NumColumns, NEW a, NEW l
      PROVE  HasShape(Card(k, <<x>>, a, l))
  BY DEF HasShape
<1>2. ASSUME NEW k \in DOMAIN KindOf, NEW x \in 1..NumColumns, NEW y \in 1..NumColumns, NEW a, NEW l
      PROVE  HasShape(Card(k, <<x, y>>, a, l))
  BY DEF HasShape
<1>3. ASSUME NEW keys \in SUBSET DOMAIN KindOf, NEW alts, NEW labels, c \in CardsOf(keys, alts, labels)
      PROVE  HasShape(c)
  <2>1. PICK k \in keys, x \in 1..NumColumns, a \in alts, l \in labels : c = Card(k, <<x>>, a, l)
    BY <1>3 DEF CardsOf
  <2>2. k \in DOMAIN KindOf
    OBVIOUS
  <2> QED BY <1>1, <2>1, <2>2
<1>4. ASSUME NEW none, c \in Matrices(none)
      PROVE  HasShape(c)
  <2>1. "TPC" \in DOMAIN KindOf
    BY DEF KindOf
  <2> DEFINE tpc == "TPC"
  <2> HIDE DEF tpc
  <2>2. PICK x \in 1..NumColumns, y \in 1..NumColumns, a \in Alternates : c = Card(tpc, <<x, y>>, a, none)
    BY <1>4 DEF Matrices, tpc
  <2>3. tpc \in DOMAIN KindOf
    BY <2>1 DEF tpc
  <2> QED BY <1>2, <2>2, <2>3
<1> DEFINE K1 == {"TNULL", "TDMIN", "OBSGX"}  K2 == {"TCTY", "CTY", "WCSN"}  K3 == {"WCST", "WCSX"}
<1>5. K1 \in SUBSET DOMAIN KindOf /\ K2 \in SUBSET DOMAIN KindOf /\ K3 \in SUBSET DOMAIN KindOf
  BY DEF KindOf
<1>6. \/ c \in CardsOf(K1, {""}, {""}) \/ c \in Matrices("")
      \/ c \in CardsOf(K2, Alternates, {""}) \/ c \in CardsOf(K3, Alternates, Labels)
  BY DEF Cards
<1> HIDE DEF K1, K2, K3
<1> QED BY <1>3, <1>4, <1>5, <1>6
\* Hence every card of a header is a card.
LEMMA CardForms ==
    ASSUME NEW c \in Cards
    PROVE  CardOK(c)
<1>1. \A k, cs, a, l : /\ Card(k, cs, a, l).key = k /\ Card(k, cs, a, l).cols = cs
                       /\ Card(k, cs, a, l).alt = a /\ Card(k, cs, a, l).label = l
  BY DEF Card
<1>2. \A k \in 1..NumColumns : k \in 1..MaxColumns
  BY TableMetadataAssumption
<1>3. PICK k, cs, a, l :
        /\ k \in DOMAIN KindOf /\ c = Card(k, cs, a, l)
        /\ \/ \E x \in 1..NumColumns : cs = <<x>>
           \/ \E x \in 1..NumColumns, y \in 1..NumColumns : cs = <<x, y>>
  BY CardShapes DEF HasShape
<1>4. /\ cs = [i \in DOMAIN cs |-> cs[i]] /\ 1 \in DOMAIN cs
      /\ \A i \in DOMAIN cs : cs[i] \in 1..MaxColumns
  BY <1>2, <1>3
<1> QED BY <1>1, <1>3, <1>4 DEF CardOK

\* A change of the columns.
LEMMA MapFacts ==
    ASSUME NEW map \in ColumnMaps
    PROVE  /\ \A i, j \in DOMAIN map : map[i] = map[j] => i = j
           /\ \A i \in DOMAIN map : map[i] \in 1..MaxColumns
<1>1. PICK t \in [1..NumColumns -> 1..MaxColumns], S \in SUBSET (1..NumColumns) : map = Restrict(t, S)
  BY DEF ColumnMaps
<1>2. IsInjective(map)
  BY DEF ColumnMaps
<1> QED BY <1>1, <1>2 DEF Restrict, IsInjective

\* A renumbered card is one, of the same keyword.
LEMMA RenumberedForms ==
    ASSUME NEW map \in ColumnMaps, NEW c, CardOK(c), ~NamesDropped(c, map)
    PROVE  LET r == Renumbered(c, map)
           IN /\ CardOK(r) /\ r.key = c.key /\ r.alt = c.alt /\ r.label = c.label
              /\ DOMAIN r.cols = DOMAIN c.cols
              /\ \A i \in DOMAIN c.cols : r.cols[i] = map[c.cols[i]] /\ c.cols[i] \in DOMAIN map
<1> DEFINE cs == [i \in DOMAIN c.cols |-> map[c.cols[i]]]  r == Renumbered(c, map)
<1>1. r = Card(c.key, cs, c.alt, c.label)
  BY DEF Renumbered, Card, CardOK
<1>2. \A i \in DOMAIN c.cols : c.cols[i] \in DOMAIN map
  BY DEF NamesDropped
<1>3. /\ cs = [i \in DOMAIN cs |-> cs[i]] /\ DOMAIN cs = DOMAIN c.cols
      /\ \A i \in DOMAIN c.cols : cs[i] = map[c.cols[i]]
  OBVIOUS
<1>4. \A i \in DOMAIN cs : cs[i] \in 1..MaxColumns
  BY <1>2, MapFacts
<1> HIDE DEF cs, r
<1>5. r.key = c.key /\ r.cols = cs /\ r.alt = c.alt /\ r.label = c.label
  BY <1>1 DEF Card
<1>6. CardOK(r)
  BY <1>1, <1>3, <1>4, <1>5 DEF CardOK
<1> QED BY <1>2, <1>3, <1>5, <1>6 DEF r

\* The column a card counts under is the first it names.
LEMMA RenumberedFirst ==
    ASSUME NEW map \in ColumnMaps, NEW c, CardOK(c), ~NamesDropped(c, map)
    PROVE  /\ Renumbered(c, map).key = c.key /\ Renumbered(c, map).alt = c.alt
           /\ Renumbered(c, map).label = c.label
           /\ Renumbered(c, map).cols[1] = map[c.cols[1]] /\ c.cols[1] \in DOMAIN map
<1> DEFINE r == Renumbered(c, map)
<1>1. /\ r.key = c.key /\ r.alt = c.alt /\ r.label = c.label
      /\ \A i \in DOMAIN c.cols : r.cols[i] = map[c.cols[i]] /\ c.cols[i] \in DOMAIN map
  BY RenumberedForms
<1>2. 1 \in DOMAIN c.cols
  BY DEF CardOK
<1> HIDE DEF r
<1> QED BY <1>1, <1>2 DEF r

\* Renumbering tells cards apart.
LEMMA RenumberedApart ==
    ASSUME NEW map \in ColumnMaps, NEW c, CardOK(c), ~NamesDropped(c, map),
           NEW d, CardOK(d), ~NamesDropped(d, map), Renumbered(c, map) = Renumbered(d, map)
    PROVE  c = d
<1> DEFINE r == Renumbered(c, map)
<1>1. /\ r.key = c.key /\ r.alt = c.alt /\ r.label = c.label /\ DOMAIN r.cols = DOMAIN c.cols
      /\ \A i \in DOMAIN c.cols : r.cols[i] = map[c.cols[i]] /\ c.cols[i] \in DOMAIN map
  BY RenumberedForms
<1>2. /\ r.key = d.key /\ r.alt = d.alt /\ r.label = d.label /\ DOMAIN r.cols = DOMAIN d.cols
      /\ \A i \in DOMAIN d.cols : r.cols[i] = map[d.cols[i]] /\ d.cols[i] \in DOMAIN map
  BY RenumberedForms
<1> HIDE DEF r
<1>3. DOMAIN c.cols = DOMAIN d.cols /\ \A i \in DOMAIN c.cols : c.cols[i] = d.cols[i]
  BY <1>1, <1>2, MapFacts
<1> DEFINE x == c.cols  y == d.cols
<1>4. x = y
  <2>1. x = [i \in DOMAIN x |-> x[i]] /\ y = [i \in DOMAIN y |-> y[i]]
    BY DEF CardOK
  <2> HIDE DEF x, y
  <2> QED BY <1>3, <2>1 DEF x, y
<1> QED BY <1>1, <1>2, <1>4 DEF CardOK

\* What is kept loses no column; a card of a version goes with the version.
LEMMA KeptFacts ==
    ASSUME NEW header, NEW map, NEW rebuilt
    PROVE  /\ Kept(header, map, rebuilt) \subseteq header
           /\ \A c \in Kept(header, map, rebuilt) : ~NamesDropped(c, map) /\ ~(rebuilt /\ c.key = "TDMIN")
           /\ \A c \in InWcs(header) : NamesDropped(c, map) =>
                WcsGroup(header, c) \in Incomplete(header, map)
           /\ \A c \in InWcs(header) :
                c \in Kept(header, map, rebuilt) <=>
                  WcsGroup(header, c) \notin Incomplete(header, map) \cup Dangling(header, map)
<1>1. \A c \in InWcs(header) : c \in header /\ KindOf[c.key] # "plain"
  BY DEF InWcs
<1>2. \A c \in InWcs(header) : c.key # "TDMIN"
  <2>1. KindOf["TDMIN"] = "plain"
    BY DEF KindOf
  <2> QED BY <1>1, <2>1
<1>3. \A c \in InWcs(header) : NamesDropped(c, map) => WcsGroup(header, c) \in Incomplete(header, map)
  BY DEF Incomplete
<1>4. \A c \in Kept(header, map, rebuilt) :
         c \in header /\ ~NamesDropped(c, map) /\ ~(rebuilt /\ c.key = "TDMIN")
  BY DEF Kept
<1>5. ASSUME NEW c \in InWcs(header)
      PROVE  c \in Kept(header, map, rebuilt) <=>
                WcsGroup(header, c) \notin Incomplete(header, map) \cup Dangling(header, map)
  BY <1>1, <1>2, <1>3 DEF Kept
<1> QED BY <1>3, <1>4, <1>5

\* Cards of one version are kept or dropped together.
LEMMA WholeOrNotAtAll ==
    ASSUME NEW header, NEW map, NEW rebuilt,
           NEW c \in InWcs(header), NEW d \in InWcs(header), WcsGroup(header, c) = WcsGroup(header, d)
    PROVE  c \in Kept(header, map, rebuilt) <=> d \in Kept(header, map, rebuilt)
BY KeptFacts

\* The version a card is part of, by its kind and its column.
Version(header, c) ==
    IF KindOf[c.key] # "shared" THEN KindOf[c.key]
    ELSE IF <<c.cols[1], c.alt>> \in ArrayColumns(header) THEN "array" ELSE "pixel"
OfColumn(version) == version \in {"array", "column"}
\* The version and its letter, and the column where the version is that of a column.
LEMMA GroupIs ==
    ASSUME NEW header, NEW c
    PROVE  WcsGroup(header, c) =
             <<Version(header, c), c.alt, IF OfColumn(Version(header, c)) THEN c.cols[1] ELSE 0>>
BY DEF WcsGroup, Version, OfColumn

\* Renumbering keeps the version of a card that is kept.
LEMMA VersionKept ==
    ASSUME NEW header, \A c \in header : CardOK(c), NEW map \in ColumnMaps, NEW rebuilt,
           NEW c \in InWcs(header) \cap Kept(header, map, rebuilt)
    PROVE  Version(TableMetadataOps(header, map, rebuilt), Renumbered(c, map)) = Version(header, c)
<1> DEFINE new == TableMetadataOps(header, map, rebuilt)  kept == Kept(header, map, rebuilt)
           r == Renumbered(c, map)
<1>1. \A d \in kept : /\ d \in header /\ CardOK(d) /\ ~NamesDropped(d, map)
                      /\ Renumbered(d, map) \in new
  BY KeptFacts DEF TableMetadataOps
<1>2. \A d \in kept : /\ Renumbered(d, map).key = d.key /\ Renumbered(d, map).alt = d.alt
                      /\ Renumbered(d, map).cols[1] = map[d.cols[1]] /\ d.cols[1] \in DOMAIN map
  BY <1>1, RenumberedFirst
<1>3. CASE KindOf[c.key] # "shared"
  BY <1>2, <1>3 DEF Version
<1>4. CASE KindOf[c.key] = "shared"
  <2>1. ASSUME <<c.cols[1], c.alt>> \in ArrayColumns(header)
        PROVE  <<r.cols[1], r.alt>> \in ArrayColumns(new)
    <3>1. PICK d \in header : KindOf[d.key] = "array" /\ d.cols[1] = c.cols[1] /\ d.alt = c.alt
      BY <2>1 DEF ArrayColumns
    <3>2. Version(header, c) = "array" /\ Version(header, d) = "array"
      BY <1>4, <2>1, <3>1 DEF Version
    <3>3. WcsGroup(header, d) = WcsGroup(header, c)
      BY <3>1, <3>2, GroupIs
    <3>4. d \in InWcs(header)
      BY <3>1 DEF InWcs
    <3>5. d \in kept
      BY <3>3, <3>4, WholeOrNotAtAll
    <3> DEFINE s == Renumbered(d, map)
    <3>6. /\ s \in new /\ KindOf[s.key] = "array" /\ s.cols[1] = r.cols[1] /\ s.alt = r.alt
      BY <1>1, <1>2, <3>1, <3>5
    <3> HIDE DEF s, new, r
    <3> QED BY <3>6 DEF ArrayColumns
  <2>2. ASSUME <<r.cols[1], r.alt>> \in ArrayColumns(new)
        PROVE  <<c.cols[1], c.alt>> \in ArrayColumns(header)
    <3>1. PICK s \in new : KindOf[s.key] = "array" /\ s.cols[1] = r.cols[1] /\ s.alt = r.alt
      BY <2>2 DEF ArrayColumns
    <3>2. PICK d \in kept : s = Renumbered(d, map)
      BY DEF TableMetadataOps
    <3>3. KindOf[d.key] = "array" /\ map[d.cols[1]] = map[c.cols[1]] /\ d.alt = c.alt
      BY <1>2, <3>1, <3>2
    <3>4. d.cols[1] = c.cols[1]
      BY <1>2, <3>3, MapFacts
    <3> QED BY <1>1, <3>3, <3>4 DEF ArrayColumns
  <2>3. r.key = c.key
    BY <1>2
  <2> HIDE DEF r, new
  <2> QED BY <1>4, <2>1, <2>2, <2>3 DEF Version, r, new
<1> QED BY <1>3, <1>4

\* No two versions become one, and none becomes two.
LEMMA VersionsApart ==
    ASSUME NEW header, \A c \in header : CardOK(c), NEW map \in ColumnMaps, NEW rebuilt,
           NEW c \in InWcs(header) \cap Kept(header, map, rebuilt),
           NEW d \in InWcs(header) \cap Kept(header, map, rebuilt)
    PROVE  WcsGroup(header, c) = WcsGroup(header, d) <=>
             WcsGroup(TableMetadataOps(header, map, rebuilt), Renumbered(c, map)) =
             WcsGroup(TableMetadataOps(header, map, rebuilt), Renumbered(d, map))
<1> DEFINE new == TableMetadataOps(header, map, rebuilt)
           r == Renumbered(c, map)  s == Renumbered(d, map)
<1>1. CardOK(c) /\ ~NamesDropped(c, map) /\ CardOK(d) /\ ~NamesDropped(d, map)
  BY KeptFacts
<1>2. /\ r.alt = c.alt /\ r.cols[1] = map[c.cols[1]] /\ c.cols[1] \in DOMAIN map
      /\ s.alt = d.alt /\ s.cols[1] = map[d.cols[1]] /\ d.cols[1] \in DOMAIN map
  BY <1>1, RenumberedFirst
<1>3. Version(new, r) = Version(header, c) /\ Version(new, s) = Version(header, d)
  BY VersionKept
<1> HIDE DEF r, s, new
<1>4. map[c.cols[1]] = map[d.cols[1]] <=> c.cols[1] = d.cols[1]
  BY <1>2, MapFacts
<1>5. \A h, b : WcsGroup(h, b) =
        <<Version(h, b), b.alt, IF OfColumn(Version(h, b)) THEN b.cols[1] ELSE 0>>
  BY GroupIs
<1>6. CASE OfColumn(Version(header, c)) /\ OfColumn(Version(header, d))
  BY <1>2, <1>3, <1>4, <1>5, <1>6 DEF r, s, new
<1>7. CASE ~(OfColumn(Version(header, c)) /\ OfColumn(Version(header, d)))
  <2>1. CASE Version(header, c) = Version(header, d)
    BY <1>2, <1>3, <1>5, <1>7, <2>1 DEF r, s, new
  <2>2. CASE Version(header, c) # Version(header, d)
    BY <1>3, <1>5, <2>2 DEF r, s, new
  <2> QED BY <2>1, <2>2
<1> QED BY <1>6, <1>7

\* No two cards become one.
LEMMA CardsApart ==
    ASSUME NEW header, IsFiniteSet(header), \A c \in header : CardOK(c), NEW map \in ColumnMaps,
           NEW rebuilt
    PROVE  Cardinality(TableMetadataOps(header, map, rebuilt)) = Cardinality(Kept(header, map, rebuilt))
<1> DEFINE kept == Kept(header, map, rebuilt)  new == TableMetadataOps(header, map, rebuilt)
           f == [c \in kept |-> Renumbered(c, map)]
<1>1. kept \subseteq header /\ \A c \in kept : CardOK(c) /\ ~NamesDropped(c, map)
  BY KeptFacts
<1>2. IsFiniteSet(kept)
  BY <1>1, FS_Subset
<1>3. new = {Renumbered(c, map) : c \in kept}
  BY DEF TableMetadataOps
<1>4. f \in Bijection(kept, new)
  <2>1. f \in [kept -> new]
    BY <1>3
  <2>2. \A c, d \in kept : f[c] = f[d] => c = d
    BY <1>1, RenumberedApart
  <2>3. \A r \in new : \E c \in kept : f[c] = r
    BY <1>3
  <2> HIDE DEF f, new, kept
  <2> QED BY <2>1, <2>2, <2>3 DEF Bijection, Injection, Surjection, IsInjective
<1> HIDE DEF f, new, kept
<1>5. Cardinality(kept) = Cardinality(new)
  BY <1>2, <1>4, FS_Bijection DEF ExistsBijection
<1> QED BY <1>5 DEF kept, new

\* A WCSX that is kept does not refer to a version that lost a column.
LEMMA NoDanglingLabel ==
    ASSUME NEW header, NEW map, NEW rebuilt, NEW c \in Kept(header, map, rebuilt),
           NEW d \in header \ Kept(header, map, rebuilt),
           c.key = "WCSX", d.key = "WCST", c.label = d.label
    PROVE  \E t \in Targets(header) : t.label = c.label /\ ~NamesDropped(t, map)
<1>1. KindOf["WCSX"] # "plain" /\ KindOf["WCST"] # "plain"
  BY DEF KindOf
<1>2. c \in header /\ c \in InWcs(header)
  BY <1>1, KeptFacts DEF InWcs
<1>3. WcsGroup(header, c) \notin Dangling(header, map)
  BY <1>2, KeptFacts
<1>4. c.label \notin {t.label : t \in Targets(header)} \ Surviving(header, map)
  BY <1>2, <1>3 DEF Dangling
<1>5. c.label \in {t.label : t \in Targets(header)}
  BY DEF Targets
<1>6. PICK t \in Targets(header) :
        t.label = c.label /\ WcsGroup(header, t) \notin Incomplete(header, map)
  BY <1>4, <1>5 DEF Surviving
<1>7. t \in InWcs(header)
  BY <1>1 DEF InWcs, Targets
<1> QED BY <1>6, <1>7, KeptFacts

\* Saving the rebuilt table once more changes nothing.
Same == [i \in 1..MaxColumns |-> i]
\* Nothing is dropped, nothing dangles, and every card is renumbered to itself.
LEMMA SavedAgain ==
    ASSUME NEW header, \A c \in header : CardOK(c), NEW rebuilt,
           \A c \in header : ~(rebuilt /\ c.key = "TDMIN")
    PROVE  TableMetadataOps(header, Same, rebuilt) = header
<1>1. ASSUME NEW c \in header
      PROVE  ~NamesDropped(c, Same)
  BY DEF CardOK, NamesDropped, Same
<1>2. Incomplete(header, Same) = {}
  BY <1>1 DEF Incomplete, InWcs
<1>3. Surviving(header, Same) = {t.label : t \in Targets(header)}
  BY <1>2 DEF Surviving
<1>4. Dangling(header, Same) = {}
  BY <1>3 DEF Dangling
<1>5. Kept(header, Same, rebuilt) = header
  BY <1>1, <1>2, <1>4 DEF Kept
<1>6. ASSUME NEW c \in header
      PROVE  Renumbered(c, Same) = c
  <2> DEFINE x == c.cols
  <2>1. /\ c = Card(c.key, x, c.alt, c.label)
        /\ x = [i \in DOMAIN x |-> x[i]] /\ \A i \in DOMAIN x : x[i] \in 1..MaxColumns
    BY DEF CardOK
  <2>2. [i \in DOMAIN x |-> Same[x[i]]] = x
    <3> HIDE DEF x
    <3>1. \A i \in DOMAIN x : Same[x[i]] = x[i]
      BY <2>1 DEF Same
    <3>2. [i \in DOMAIN x |-> Same[x[i]]] = [i \in DOMAIN x |-> x[i]]
      BY <3>1
    <3> QED BY <2>1, <3>2
  <2>3. Renumbered(c, Same) = [c EXCEPT !.cols = x]
    BY <2>2 DEF Renumbered
  <2> QED BY <2>1, <2>3 DEF Card
<1> QED BY <1>5, <1>6 DEF TableMetadataOps

\* Every header, of any number of cards, follows every change of the columns: its versions are
\* kept apart and whole, nothing dangles, and another save changes nothing (core.py 98-152).
THEOREM EveryHeaderFollows ==
    ASSUME NEW header \in SUBSET Cards, IsFiniteSet(header), NEW map \in ColumnMaps,
           NEW rebuilt \in BOOLEAN
    PROVE  Follows(header, map, rebuilt)
<1> DEFINE new == TableMetadataOps(header, map, rebuilt)  kept == Kept(header, map, rebuilt)
           wcs == InWcs(header)
<1>1. IsFiniteSet(header) /\ \A c \in header : CardOK(c)
  BY CardForms
<1>2. \A c \in wcs, d \in wcs :
         WcsGroup(header, c) = WcsGroup(header, d) => (c \in kept <=> d \in kept)
  BY WholeOrNotAtAll
<1>3. \A c \in wcs \cap kept, d \in wcs \cap kept :
         WcsGroup(header, c) = WcsGroup(header, d) <=>
         WcsGroup(new, Renumbered(c, map)) = WcsGroup(new, Renumbered(d, map))
  BY <1>1, VersionsApart
<1>4. Cardinality(new) = Cardinality(kept)
  BY <1>1, CardsApart
<1>5. \A c \in kept, d \in header \ kept :
         c.key = "WCSX" /\ d.key = "WCST" /\ c.label = d.label /\ NamesDropped(d, map)
           => \E t \in Targets(header) : t.label = c.label /\ ~NamesDropped(t, map)
  BY NoDanglingLabel
<1>6. TableMetadataOps(new, Same, rebuilt) = new
  <2>1. ASSUME NEW r \in new
        PROVE  CardOK(r) /\ ~(rebuilt /\ r.key = "TDMIN")
    <3>1. PICK c \in kept : r = Renumbered(c, map)
      BY DEF TableMetadataOps
    <3>2. CardOK(c) /\ ~NamesDropped(c, map) /\ ~(rebuilt /\ c.key = "TDMIN")
      BY <1>1, KeptFacts
    <3>3. r.key = c.key /\ CardOK(r)
      BY <3>1, <3>2, RenumberedForms
    <3> QED BY <3>2, <3>3
  <2> HIDE DEF new
  <2> QED BY <2>1, SavedAgain
<1> HIDE DEF new, kept, wcs
<1> QED BY <1>2, <1>3, <1>4, <1>5, <1>6 DEF Follows, Same, new, kept, wcs

\* The headers the runs enumerate among them.
LEMMA EveryChangeFollowed == ColumnMaps \subseteq FollowedMaps
<1>1. ASSUME NEW header \in Headers
      PROVE  header \in SUBSET Cards /\ IsFiniteSet(header)
  <2>1. PICK b \in Cards, c \in Cards, d \in Cards : header = {b, c, d}
    BY <1>1 DEF Headers
  <2>2. IsFiniteSet({b}) /\ IsFiniteSet({c}) /\ IsFiniteSet({d})
    BY FS_Singleton
  <2>3. header = {b} \cup {c} \cup {d}
    BY <2>1
  <2>4. IsFiniteSet(header)
    BY <2>2, <2>3, FS_Union
  <2> QED BY <2>1, <2>4
<1> QED BY <1>1, EveryHeaderFollows DEF FollowedMaps

\* The program's array has the file's columns, or is one it assigned.
Listed(d) == d.names = FileColumns \/ \E a \in Arrays : d.names = a.names
ArrayListed == IsRecord(data) => Listed(data)
\* It is read from the file, or assigned, and edits in place change no name.
LEMMA ArrayAlwaysListed == Spec => []ArrayListed
<1>1. Init => ArrayListed
  BY DEF Init, ArrayListed, IsRecord
<1>2. OfFile.names = FileColumns
  BY DEF OfFile, Record
<1>3. ArrayListed /\ [Next]_vars => ArrayListed'
  <2> SUFFICES ASSUME ArrayListed, [Next]_vars PROVE ArrayListed'
    OBVIOUS
  <2> USE DEF ArrayListed
  <2>1. CASE Read
    BY <1>2, <2>1 DEF Read, Listed
  <2>2. ASSUME NEW n, NEW v, Mutate(n, v) PROVE ArrayListed'
    <3>1. data' = [data EXCEPT !.cell = [data.cell EXCEPT ![n] = [@ EXCEPT !.v = v]]]
      BY <2>2 DEF Mutate
    <3> QED BY <2>2, <3>1 DEF Mutate, Listed, IsRecord
  <2>3. ASSUME NEW a \in Arrays, SetData(a) PROVE ArrayListed'
    BY <2>3 DEF SetData, Listed
  <2>4. CASE SetNone
    BY <2>4 DEF SetNone, IsRecord
  <2>5. CASE Rebuild
    BY <1>2, <2>5 DEF Rebuild, Materialised, Listed, IsRecord
  <2>6. CASE UNCHANGED data
    BY <2>6 DEF IsRecord, Listed
  <2>7. CASE \/ Flush \/ SkipColumn \/ RefuseColumn \/ WriteColumn \/ WriteFails \/ Sync
             \/ (\E over \in BOOLEAN : Save(over)) \/ CopyBytes
             \/ (Publishing /\ UNCHANGED tableVars)
    BY <2>6, <2>7 DEF Flush, SkipColumn, RefuseColumn, WriteColumn, WriteFails, Sync, Save,
                      CopyBytes, tableVars
  <2> QED BY <2>1, <2>2, <2>3, <2>4, <2>5, <2>6, <2>7 DEF Next, vars, tableVars, Publishing
<1> QED BY <1>1, <1>3, PTL DEF Spec

\* A table about to be published has no more columns than a table may.
LEMMA SavedWidth ==
    ASSUME TableInv, ArrayListed, writer.pc = "publishing"
    PROVE  temp.names \in Seq(Name) /\ Len(temp.names) <= MaxColumns
<1>1. CASE data = None
  <2>1. temp.names = << >>
    BY <1>1 DEF TableInv, SavedIsSeen, Record
  <2> QED BY <2>1, TableMetadataAssumption
<1>2. CASE data = Unset
  <2>1. temp.names = FileColumns
    BY <1>2, PyTableAssumption DEF TableInv, SavedIsSeen, Materialised, OfFile, Record
  <2> QED BY <2>1, PyTableAssumption, TableMetadataAssumption
<1>3. CASE IsRecord(data)
  <2>1. temp.names = data.names
    BY <1>3 DEF TableInv, SavedIsSeen, Materialised, IsRecord
  <2>2. CASE data.names = FileColumns
    BY <2>1, <2>2, PyTableAssumption, TableMetadataAssumption
  <2>3. ASSUME NEW a \in Arrays, data.names = a.names
        PROVE  temp.names \in Seq(Name) /\ Len(temp.names) <= MaxColumns
    BY <2>1, <2>3, PyTableAssumption DEF RecordSet
  <2> QED BY <1>3, <2>2, <2>3 DEF ArrayListed, Listed
<1> QED BY <1>1, <1>2, <1>3 DEF IsRecord

\* What becomes of the file's columns in a saved table is a change the keywords follow.
LEMMA SourcesAreChanges ==
    ASSUME NEW rec, rec.names \in Seq(Name), Len(rec.names) <= MaxColumns
    PROVE  SourceMap(rec) \in ColumnMaps
<1> DEFINE m == SourceMap(rec)  N == 1..NumColumns  M == 1..MaxColumns
           S == {i \in DOMAIN FileColumns : FileColumns[i] \in Names(rec)
                                            /\ rec.cell[FileColumns[i]].own}
           place(j) == CHOOSE k \in DOMAIN rec.names : rec.names[k] = FileColumns[j]
<1>1. DOMAIN FileColumns = N /\ DOMAIN rec.names \subseteq M
  BY PyTableAssumption, TableMetadataAssumption
<1>2. m = [j \in S |-> place(j)]
  BY DEF SourceMap
<1>3. ASSUME NEW j \in S
      PROVE  place(j) \in DOMAIN rec.names /\ rec.names[place(j)] = FileColumns[j]
  <2>1. \E k \in DOMAIN rec.names : rec.names[k] = FileColumns[j]
    BY DEF Names, ToSet
  <2> QED BY <2>1
<1>a. \A j \in S : m[j] \in DOMAIN rec.names /\ rec.names[m[j]] = FileColumns[j]
  BY <1>2, <1>3
<1>b. S \in SUBSET N
  BY <1>1
<1> HIDE DEF m, S, place
<1>4. ASSUME NEW i \in S, NEW j \in S, m[i] = m[j]
      PROVE  i = j
  <2>1. FileColumns[i] = FileColumns[j]
    BY <1>a, <1>4
  <2> QED BY <1>1, <1>b, <2>1, PyTableAssumption DEF IsInjective
<1>5. S \in SUBSET N /\ \A j \in S : m[j] \in M
  BY <1>1, <1>a, <1>b
<1> DEFINE t == [i \in N |-> IF i \in S THEN m[i] ELSE 1]
<1>6. t \in [N -> M]
  <2>1. \A i \in N : 1 \in M
    BY TableMetadataAssumption
  <2> QED BY <1>5, <2>1
<1>7. Restrict(t, S) = m
  <2>1. m = [j \in S |-> m[j]]
    BY <1>2
  <2> QED BY <1>5, <2>1 DEF Restrict
<1>8. IsInjective(m)
  BY <1>2, <1>4 DEF IsInjective
<1> HIDE DEF t, N, M
<1>9. m \in {Restrict(u, R) : u \in [N -> M], R \in SUBSET N}
  BY <1>5, <1>6, <1>7
<1> QED BY <1>8, <1>9 DEF ColumnMaps, m, N, M

\* The keywords of a published table speak of the columns they spoke of, however the program
\* moved, dropped, added or retyped them.
THEOREM TableKeywordsFollow == Spec => []MetadataFollows
<1>1. TableInv /\ ArrayListed => MetadataFollows
  BY SavedWidth, SourcesAreChanges, EveryChangeFollowed DEF MetadataFollows
<1> QED BY <1>1, TableInvariant, ArrayAlwaysListed, PTL
=============================================================================
