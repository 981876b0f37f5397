------------------------------ MODULE BinTable -------------------------------
(***************************************************************************)
(* A binary table (table/binary.zig, `BinTable`): its rows, its columns and *)
(* its heap in one data unit, edited in place, and the iterator that drives *)
(* columns through it in windows of rows (iterator.zig).                    *)
(*                                                                          *)
(* An edit is planned as the code plans it and carried out one device call  *)
(* or memory update at a time: resize the data unit, move the heap, move or *)
(* restride the rows, change the cards in memory, write the header, parse   *)
(* the columns again.  Any of them may fail, and none is undone.  The data  *)
(* unit is a device of its own: what the resize and the header write do to  *)
(* the rest of the file is FitsHandle.                                      *)
(***************************************************************************)
EXTENDS Device, FiniteSets, SequencesExt

CONSTANTS
    Column,         \* columns: each stands for all its keywords
    Width,          \* the cells a field of each column takes
    Vla,            \* the columns of descriptors
    Heap,           \* PCOUNT: the cells of the heap
    Chunk,          \* MOVE_CHUNK
    WindowRows,     \* the rows of a window of the iterator
    Tables,         \* the tables to begin with: [cols, rows, theap]
    None,           \* no THEAP card
    Fresh,          \* what the caller of the iterator writes
    Foreign,        \* what another handle writes meanwhile
    MaxRows,        \* bound: no edit makes a table longer than this
    MaxEdits,       \* bound: calls
    MaxFaults,      \* bound: device calls and allocations that fail
    MaxForeign      \* bound: fields the other handle writes

ASSUME BinTableAssumption ==
    /\ Width \in [Column -> Nat] /\ Vla \subseteq Column
    /\ {Heap, MaxRows, MaxEdits, MaxFaults, MaxForeign} \subseteq Nat
    /\ {Fresh, Foreign} \subseteq Cell
    /\ {Chunk, WindowRows} \subseteq Nat \ {0}
    /\ \A t \in Tables : t.cols \in Seq(Column) /\ t.rows \in Nat /\ t.theap \in BOOLEAN

VARIABLES
    data,       \* the data unit on the device
    disk,       \* the header on the device
    hdr,        \* `hdu.header`: the header in memory
    view,       \* `columns`, `naxis1` and `naxis2` of the BinTable
    job,        \* the call under way
    faults, edits,
    damaged,    \* history: an edit failed after it had changed something
    others      \* history: the fields another handle has written, <<row, index>>

vars == <<data, disk, hdr, view, job, faults, edits, damaged, others>>

-----------------------------------------------------------------------------
(* Headers: the cards of the columns, each with its index, and the keywords  *)
(* of the geometry.                                                         *)

Offset(cols, i) ==
    LET off[n \in 0 .. Len(cols)] == IF n = 0 THEN 0 ELSE off[n - 1] + Width[cols[n]]
    IN  off[i - 1]
RowWidth(cols) == Offset(cols, Len(cols) + 1)

HasCard(cards, n) == \E i \in DOMAIN cards : cards[i].n = n
FirstCard(cards, n) ==
    CHOOSE i \in DOMAIN cards : cards[i].n = n /\ \A j \in 1 .. i - 1 : cards[j].n # n

\* parseColumns: a column for each n up to TFIELDS, whose widths make NAXIS1.
ColsOf(h) == [n \in 1 .. h.fields |-> h.cards[FirstCard(h.cards, n)].col]
Parses(h) == /\ \A n \in 1 .. h.fields : HasCard(h.cards, n)
             /\ RowWidth(ColsOf(h)) = h.naxis1
Viewed(h) == [cols |-> ColsOf(h), naxis1 |-> h.naxis1, naxis2 |-> h.naxis2]

HeaderOf(cols, rows, theap) ==
    [cards |-> [i \in DOMAIN cols |-> [n |-> i, col |-> cols[i]]], fields |-> Len(cols),
     naxis1 |-> RowWidth(cols), naxis2 |-> rows, theap |-> theap]

\* renameColumnIndex renames the first card that has the old index.  renumberColumns goes
\* from the last column when it makes room (the mutant from the first).
Renamed(cards, old, new) ==
    IF HasCard(cards, old) THEN [cards EXCEPT ![FirstCard(cards, old)].n = new] ELSE cards
RenumberedUpwards(cards, from, to) ==
    LET after[m \in 0 .. to - from + 1] ==
            IF m = 0 THEN cards ELSE Renamed(after[m - 1], from + m - 1, from + m)
    IN  after[to - from + 1]
RenumberedUp(cards, from, to) ==
    LET after[m \in 0 .. to - from + 1] ==
            IF m = 0 THEN cards ELSE Renamed(after[m - 1], to - m + 1, to - m + 2)
    IN  after[to - from + 1]
RenumberedDown(cards, from, to) ==
    LET after[m \in 0 .. to - from + 1] ==
            IF m = 0 THEN cards ELSE Renamed(after[m - 1], from + m - 1, from + m - 2)
    IN  after[to - from + 1]

\* An explicit THEAP follows the end of the rows (updateTheap).  A
\* heap that begins anywhere else makes the code refuse the edit (rejectHeapGap).
Theap(h, width, rows) == IF h.theap = None THEN None ELSE width * rows
NoGap == Heap = 0 \/ hdr.theap \in {None, view.naxis1 * view.naxis2}

WithRows(n) == [hdr EXCEPT !.naxis2 = n, !.theap = Theap(hdr, view.naxis1, n)]
Reshaped(h, fields, width) ==
    [h EXCEPT !.fields = fields, !.naxis1 = width, !.theap = Theap(h, width, view.naxis2)]
Shifted(at) == [hdr EXCEPT !.cards = RenumberedUp(@, at, Len(view.cols))]
WithCard(cards, at, c) ==
    IF HasCard(cards, at) THEN [cards EXCEPT ![FirstCard(cards, at)].col = c]
    ELSE Append(cards, [n |-> at, col |-> c])
WithColumn(at, c) ==
    Reshaped([Shifted(at) EXCEPT !.cards = WithCard(@, at, c)],
             Len(view.cols) + 1, view.naxis1 + Width[c])
Dropped(cards, n) == RemoveAt(cards, FirstCard(cards, n))
WithoutColumn(i) ==
    Reshaped([hdr EXCEPT !.cards =
                 RenumberedDown(Dropped(@, i), i + 1, Len(view.cols))],
             Len(view.cols) - 1, view.naxis1 - Width[view.cols[i]])

-----------------------------------------------------------------------------
(* A table as its header describes it.                                      *)

HeapAt(h) == IF h.theap = None THEN h.naxis1 * h.naxis2 ELSE h.theap
Field(d, cols, naxis1, r, i) == Slice(d, r * naxis1 + Offset(cols, i), Width[cols[i]])
TableOf(h, d) ==
    LET cols == ColsOf(h)
    IN  [cols |-> cols,
         rows |-> [r \in 1 .. h.naxis2 |->
                      [i \in 1 .. h.fields |-> Field(d, cols, h.naxis1, r - 1, i)]],
         heap |-> Slice(d, HeapAt(h), Heap)]

\* What each edit makes of a table.
Blank(cols) == [i \in DOMAIN cols |-> [k \in 0 .. Width[cols[i]] - 1 |-> Zero]]
Goal(op, t) ==
    CASE op.op = "insertRows" ->
            [t EXCEPT !.rows = SubSeq(@, 1, op.at) \o [k \in 1 .. op.n |-> Blank(t.cols)]
                                  \o SubSeq(@, op.at + 1, Len(@))]
      [] op.op = "deleteRows" ->
            [t EXCEPT !.rows = SubSeq(@, 1, op.at) \o SubSeq(@, op.at + op.n + 1, Len(@))]
      [] op.op = "copyRows" ->
            [t EXCEPT !.rows = [r \in DOMAIN @ |->
                IF r - 1 \in op.at .. op.at + op.n - 1 THEN @[r - op.at + op.from] ELSE @[r]]]
      [] op.op = "insertColumn" ->
            [t EXCEPT !.cols = InsertAt(@, op.at, op.col),
                      !.rows = [r \in DOMAIN @ |->
                          InsertAt(@[r], op.at, [k \in 0 .. Width[op.col] - 1 |-> Zero])]]
      [] op.op = "deleteColumn" ->
            [t EXCEPT !.cols = RemoveAt(@, op.at),
                      !.rows = [r \in DOMAIN @ |-> RemoveAt(@[r], op.at)]]
      [] op.op = "copyColumn" ->
            [t EXCEPT !.rows = [r \in DOMAIN @ |-> [t.rows[r] EXCEPT ![op.at] = t.rows[r][op.from]]]]

-----------------------------------------------------------------------------
(* A call, and the steps it is going to take.                                *)

ResizeTo(n) == <<[k |-> "resize", n |-> n]>>
MovedSwapped(src, dst, len) ==
    IF len = 0 \/ src = dst THEN <<>>
    ELSE <<[k |-> "move", src |-> dst, dst |-> src, units |-> len]>>
Moved(src, dst, len) ==
    IF len = 0 \/ src = dst THEN <<>>
    ELSE <<[k |-> "move", src |-> src, dst |-> dst, units |-> len]>>
Zeroed(off, len) == IF len = 0 THEN <<>> ELSE <<[k |-> "zero", off |-> off, units |-> len]>>
\* w cells are put in at offset `at` of every row, or -w cells taken out.
Restrided(at, w) ==
    IF view.naxis2 = 0 THEN <<>>
    ELSE <<[k |-> "restride", at |-> at, w |-> w, units |-> view.naxis2]>>
\* The header is changed in memory, written and parsed after everything else (the mutant
\* writes it before).  `partial` is what a failing change may leave in memory.
CommittedFirst(steps, h, partial) ==
    <<[k |-> "cards", h |-> h, partial |-> partial], [k |-> "rewrite"]>>
        \o steps \o <<[k |-> "reparse"]>>
Committed(steps, h, partial) ==
    steps \o <<[k |-> "cards", h |-> h, partial |-> partial],
               [k |-> "rewrite"], [k |-> "reparse"]>>

NoJob == [pc |-> "idle"]
Idle == job.pc = "idle"
Begin(op, todo) ==
    /\ Idle /\ ~damaged /\ edits < MaxEdits
    /\ edits' = edits + 1 /\ others' = {}
    /\ job' = [pc |-> "run", op |-> op, todo |-> todo, done |-> 0, window |-> <<>>,
               data |-> data, disk |-> disk, view |-> view]
    /\ UNCHANGED <<data, disk, hdr, view, faults, damaged>>

RowsEnd == view.naxis1 * view.naxis2

InsertRows(at, n) ==
    /\ NoGap /\ at <= view.naxis2 /\ n > 0 /\ view.naxis2 + n <= MaxRows
    /\ LET w == view.naxis1
           new == w * (view.naxis2 + n)
       IN  Begin([op |-> "insertRows", at |-> at, n |-> n],
                 Committed(ResizeTo(new + Heap) \o Moved(RowsEnd, new, Heap)
                             \o Moved(w * at, w * (at + n), RowsEnd - w * at)
                             \o Zeroed(w * at, w * n),
                           WithRows(view.naxis2 + n), {}))

DeleteRows(at, n) ==
    /\ NoGap /\ n > 0 /\ at + n <= view.naxis2
    /\ LET w == view.naxis1
           new == w * (view.naxis2 - n)
       IN  Begin([op |-> "deleteRows", at |-> at, n |-> n],
                 Committed(Moved(w * (at + n), w * at, RowsEnd - w * (at + n))
                             \o Moved(RowsEnd, new, Heap) \o ResizeTo(new + Heap),
                           WithRows(view.naxis2 - n), {}))

CopyRows(from, n, at) ==
    /\ n > 0 /\ from + n <= view.naxis2 /\ at + n <= view.naxis2 /\ from # at
    /\ Begin([op |-> "copyRows", from |-> from, n |-> n, at |-> at],
             Moved(view.naxis1 * from, view.naxis1 * at, view.naxis1 * n))

InsertColumn(at, c) ==
    /\ NoGap /\ at \in 1 .. Len(view.cols) + 1 /\ ~Contains(view.cols, c)
    /\ LET new == (view.naxis1 + Width[c]) * view.naxis2
       IN  Begin([op |-> "insertColumn", at |-> at, col |-> c],
                 Committed(ResizeTo(new + Heap) \o Moved(RowsEnd, new, Heap)
                             \o Restrided(Offset(view.cols, at), Width[c]),
                           WithColumn(at, c),
                           {[hdr EXCEPT !.cards = RenumberedUp(@, k, Len(view.cols))] :
                               k \in at .. Len(view.cols) + 1}
                             \cup {[Shifted(at) EXCEPT !.cards = WithCard(@, at, c)]}))

DeleteColumn(i) ==
    /\ NoGap /\ i \in DOMAIN view.cols
    /\ LET w == Width[view.cols[i]]
           new == (view.naxis1 - w) * view.naxis2
       IN  Begin([op |-> "deleteColumn", at |-> i],
                 Committed(Restrided(Offset(view.cols, i), -w)
                             \o Moved(RowsEnd, new, Heap) \o ResizeTo(new + Heap),
                           WithoutColumn(i),
                           {[hdr EXCEPT !.cards = RenumberedDown(Dropped(@, i), i + 1, k)] :
                               k \in i .. Len(view.cols)}))

CopyColumn(i, j) ==
    /\ {i, j} \subseteq DOMAIN view.cols /\ i # j
    /\ {view.cols[i], view.cols[j]} \cap Vla = {}
    /\ Width[view.cols[i]] = Width[view.cols[j]]
    /\ Begin([op |-> "copyColumn", from |-> i, at |-> j],
             FlattenSeq([r \in 1 .. view.naxis2 |->
                 LET base == (r - 1) * view.naxis1
                 IN  Moved(base + Offset(view.cols, i), base + Offset(view.cols, j),
                           Width[view.cols[i]])]))

\* Iterator.run.  Rows are read as a window when that is not too wasteful (`fused`), and
\* written as one only if every column is bound for writing (the mutant: whenever they were
\* read as one); otherwise field by field.
WholeRowsRead(writes, fused) == fused
WholeRows(writes, fused) == fused /\ writes = DOMAIN view.cols

\* `reading`: some column is bound for reading; what it is decoded to is the caller's.
Iterate(reading, writes, fused) ==
    /\ view.naxis2 > 0 /\ (reading \/ writes # {})
    /\ \A i \in writes : view.cols[i] \notin Vla
    /\ fused => reading \/ writes = DOMAIN view.cols
    /\ Begin([op |-> "iterate", writes |-> writes, whole |-> WholeRows(writes, fused)],
             FlattenSeq([w \in 1 .. (view.naxis2 + WindowRows - 1) \div WindowRows |->
                 LET row == (w - 1) * WindowRows
                 IN  (IF reading THEN <<[k |-> "read", row |-> row]>> ELSE <<>>)
                     \o <<[k |-> "work", row |-> row]>>]))

Calls ==
    \/ \E at \in 0 .. MaxRows, n \in 1 .. MaxRows : InsertRows(at, n) \/ DeleteRows(at, n)
    \/ \E from, at \in 0 .. MaxRows, n \in 1 .. MaxRows : CopyRows(from, n, at)
    \/ \E at \in 1 .. Cardinality(Column) + 1, c \in Column : InsertColumn(at, c)
    \/ \E i \in DOMAIN view.cols : DeleteColumn(i)
    \/ \E i, j \in DOMAIN view.cols : CopyColumn(i, j)
    \/ \E writes \in SUBSET DOMAIN view.cols, reading, fused \in BOOLEAN :
          Iterate(reading, writes, fused)

-----------------------------------------------------------------------------
(* The steps.                                                               *)

Step(k) == job.pc = "run" /\ job.todo # <<>> /\ Head(job.todo).k = k
Now == Head(job.todo)
Done == [job EXCEPT !.todo = Tail(@), !.done = 0]

\* The next write of a loop, of `units` of its units: a chunk of moveRegion or zeroBytes, a
\* row of restrideRows, a field or a window of rows of the iterator.
MoveWrite(s, n) ==
    LET m == Smaller(Chunk, s.units - n)
        o == IF s.dst > s.src THEN s.units - n - m ELSE n
    IN  [off |-> s.dst + o, len |-> m, units |-> m, cells |-> Slice(data, s.src + o, m)]
ZeroWrite(s, n) ==
    LET m == Smaller(Chunk, s.units - n)
    IN  [off |-> s.off + n, len |-> m, units |-> m, cells |-> [k \in 0 .. m - 1 |-> Zero]]
RestrideWrite(s, n) ==
    LET old == view.naxis1
        new == old + s.w
        row == IF s.w > 0 THEN s.units - 1 - n ELSE n
    IN  [off |-> row * new, len |-> new, units |-> 1,
         cells |-> [k \in 0 .. new - 1 |->
                       IF k < s.at THEN data.at[row * old + k]
                       ELSE IF k < s.at + s.w THEN Zero ELSE data.at[row * old + k - s.w]]]
LoopWrite(s, n) ==
    CASE s.k = "move" -> MoveWrite(s, n)
      [] s.k = "zero" -> ZeroWrite(s, n)
      [] s.k = "restride" -> RestrideWrite(s, n)
      [] s.k = "write" -> [off |-> s.off, len |-> s.len, units |-> s.units, cells |-> s.cells]

Loops == {"move", "zero", "restride", "write"}
Transfer ==
    /\ \E k \in Loops : Step(k)
    /\ LET w == LoopWrite(Now, job.done)
       IN  /\ data' = Written(data, w.off, w.len, w.cells)
           /\ job' = IF job.done + w.units < Now.units
                     THEN [job EXCEPT !.done = @ + w.units] ELSE Done
    /\ UNCHANGED <<disk, hdr, view, faults, edits, damaged, others>>

Resize ==
    /\ Step("resize")
    /\ data' = Resized(data, Now.n) /\ job' = Done
    /\ UNCHANGED <<disk, hdr, view, faults, edits, damaged, others>>

ChangeCards ==
    /\ Step("cards")
    /\ hdr' = Now.h /\ job' = Done
    /\ UNCHANGED <<data, disk, view, faults, edits, damaged, others>>

RewriteHeader ==
    /\ Step("rewrite")
    /\ disk' = hdr /\ job' = Done
    /\ UNCHANGED <<data, hdr, view, faults, edits, damaged, others>>

Reparse ==
    /\ Step("reparse") /\ Parses(hdr)
    /\ view' = Viewed(hdr) /\ job' = Done
    /\ UNCHANGED <<data, disk, hdr, faults, edits, damaged, others>>

ReadWindow ==
    /\ Step("read")
    /\ job' = [Done EXCEPT !.window =
                  Slice(data, Now.row * view.naxis1,
                        (Smaller(Now.row + WindowRows, view.naxis2) - Now.row) * view.naxis1)]
    /\ UNCHANGED <<data, disk, hdr, view, faults, edits, damaged, others>>

\* The caller's function, and the writes that put its columns back.
WindowWrite(row, rows) ==
    LET bound == UNION {{Offset(view.cols, i) + k : k \in 0 .. Width[view.cols[i]] - 1} :
                            i \in job.op.writes}
        len == (rows - row) * view.naxis1
    IN  <<[k |-> "write", off |-> row * view.naxis1, len |-> len, units |-> 1,
           cells |-> [k \in 0 .. len - 1 |->
                         IF k % view.naxis1 \in bound THEN Fresh ELSE job.window[k]]]>>
FieldWrites(row, rows) ==
    FlattenSeq([i \in DOMAIN view.cols |->
        IF i \notin job.op.writes THEN <<>>
        ELSE [r \in 1 .. rows - row |->
                 [k |-> "write", off |-> (row + r - 1) * view.naxis1 + Offset(view.cols, i),
                  len |-> Width[view.cols[i]], units |-> 1,
                  cells |-> [k \in 0 .. Width[view.cols[i]] - 1 |-> Fresh]]]])

Work ==
    /\ Step("work")
    /\ LET row == Now.row
           rows == Smaller(row + WindowRows, view.naxis2)
       IN  job' = [Done EXCEPT !.todo = (IF job.op.whole THEN WindowWrite(row, rows)
                                         ELSE FieldWrites(row, rows)) \o @]
    /\ UNCHANGED <<data, disk, hdr, view, faults, edits, damaged, others>>

\* Another handle on the same file writes a field while the iterator runs.
OtherWrites(r, i) ==
    /\ job.pc = "run" /\ job.op.op = "iterate"
    /\ r < view.naxis2 /\ Cardinality(others) < MaxForeign
    /\ data' = Filled(data, r * view.naxis1 + Offset(view.cols, i), Width[view.cols[i]], Foreign)
    /\ others' = others \cup {<<r, i>>}
    /\ UNCHANGED <<disk, hdr, view, job, faults, edits, damaged>>

-----------------------------------------------------------------------------
(* Failures: the call returns where it stands.                              *)

Fails == job.pc = "run" /\ faults < MaxFaults /\ faults' = faults + 1
         /\ job' = [job EXCEPT !.pc = "failed"]
         /\ UNCHANGED <<view, edits, damaged, others>>

\* A write may have stored a part of its cells.
TransferFails ==
    /\ \E k \in Loops : Step(k)
    /\ LET w == LoopWrite(Now, job.done)
       IN  \E k \in 0 .. w.len - 1 : data' = Written(data, w.off, k, w.cells)
    /\ Fails /\ UNCHANGED <<disk, hdr>>

\* resizeHduData fails before its shift or after it.
ResizeFails ==
    /\ Step("resize")
    /\ data' \in {data, Resized(data, Now.n)}
    /\ Fails /\ UNCHANGED <<disk, hdr>>

CardsFail ==
    /\ Step("cards")
    /\ hdr' \in Now.partial
    /\ Fails /\ UNCHANGED <<data, disk>>

\* The header on the device is the old one again (rewriteHeaderInPlace rolls back), the
\* window cannot be read, the caller's function fails, or the parse runs out of memory.
CallFails ==
    /\ \E k \in {"rewrite", "read", "work", "reparse"} : Step(k)
    /\ Fails /\ UNCHANGED <<data, disk, hdr>>

Return ==
    /\ job.pc = "failed" \/ (job.pc = "run" /\ job.todo = <<>>)
    /\ job' = NoJob
    /\ damaged' = (job.pc = "failed" /\ <<data, disk, hdr>> # <<job.data, job.disk, job.disk>>
                   /\ job.op.op \notin {"copyRows", "copyColumn", "iterate"})
    /\ UNCHANGED <<data, disk, hdr, view, faults, edits, others>>

-----------------------------------------------------------------------------
TableDevice(size) == [size |-> size, at |-> [i \in 0 .. size - 1 |-> i + 1]]
Init ==
    \E t \in Tables :
        LET h == HeaderOf(t.cols, t.rows,
                          IF t.theap THEN RowWidth(t.cols) * t.rows ELSE None)
        IN  /\ disk = h /\ hdr = h /\ view = Viewed(h)
            /\ data = TableDevice(h.naxis1 * h.naxis2 + Heap)
            /\ job = NoJob /\ faults = 0 /\ edits = 0 /\ damaged = FALSE /\ others = {}

Next ==
    \/ Calls \/ Return
    \/ Transfer \/ Resize \/ ChangeCards \/ RewriteHeader \/ Reparse \/ ReadWindow \/ Work
    \/ \E r \in 0 .. MaxRows, i \in DOMAIN view.cols : OtherWrites(r, i)
    \/ TransferFails \/ ResizeFails \/ CardsFail \/ CallFails

Spec == Init /\ [][Next]_vars

-----------------------------------------------------------------------------
(* Properties.                                                              *)

Completed == job.pc = "run" /\ job.todo = <<>>

\* From the moment the header on the device is the new one, and in any case when the call
\* is about to return, the device holds exactly the table the edit is to make: every field
\* of every row under its column, the new ones blank, and the heap where the header has it
\* (binary.zig:431-604).  Before that moment nothing is promised of rows and heap: the old
\* header no longer fits what has been moved.
Described ==
    ~Idle /\ job.op.op # "iterate" /\ (disk # job.disk \/ Completed) =>
        Parses(disk) /\ TableOf(disk, data) = Goal(job.op, TableOf(job.disk, job.data))

\* The cells an edit may not touch, wherever it fails: those of the rows before the rows
\* it inserts or deletes, those before the field it inserts or deletes in the first row,
\* and for a copy all but the destination.
Apart(op, v) ==
    CASE op.op \in {"insertRows", "deleteRows"} -> 0 .. v.naxis1 * op.at - 1
      [] op.op \in {"insertColumn", "deleteColumn"} ->
            IF v.naxis2 = 0 THEN {} ELSE 0 .. Offset(v.cols, op.at) - 1
      [] op.op = "copyRows" ->
            (DOMAIN job.data.at) \ (v.naxis1 * op.at .. v.naxis1 * (op.at + op.n) - 1)
      [] op.op = "copyColumn" ->
            {k \in DOMAIN job.data.at :
                \/ k >= v.naxis1 * v.naxis2
                \/ k % v.naxis1 \notin Offset(v.cols, op.at) .. Offset(v.cols, op.at + 1) - 1}

\* A failed edit leaves the cells before its edit point, and a failed copy all but its
\* destination, as they were: a row append that fails in a table without a heap loses
\* nothing, since the old header still describes the old rows (binary.zig:448-451, 480-482).
EditTouchesOnly ==
    ~Idle /\ job.op.op # "iterate" =>
        \A k \in Apart(job.op, job.view) : k < data.size /\ data.at[k] = job.data.at[k]

\* The iterator never takes back what another handle wrote to a column that is not bound
\* for writing, and leaves every other field of such a column alone; when it has returned,
\* every bound field is the caller's, or the other handle's if that one wrote it
\* (iterator.zig:190-199: "writing the full row could clobber an adjacent-column update").
IteratesBound ==
    ~Idle /\ job.op.op = "iterate" =>
        \A r \in 0 .. view.naxis2 - 1, i \in DOMAIN view.cols :
            LET now == Field(data, view.cols, view.naxis1, r, i)
                All(v) == [k \in DOMAIN now |-> v]
            IN  /\ i \notin job.op.writes =>
                      now = (IF <<r, i>> \in others THEN All(Foreign)
                             ELSE Field(job.data, view.cols, view.naxis1, r, i))
                /\ i \in job.op.writes /\ Completed =>
                      now = All(Fresh) \/ (<<r, i>> \in others /\ now = All(Foreign))
=============================================================================
