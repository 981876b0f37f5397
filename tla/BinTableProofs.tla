--------------------------- MODULE BinTableProofs ----------------------------
(***************************************************************************)
(* Theorems of BinTable, proved for every table, every width of a column,    *)
(* every size of a chunk or a window, every call and every failure.          *)
(*                                                                          *)
(* A call is a list of pending steps.  The invariant says, for each cell of  *)
(* the table to be, where it comes from (Origin); that each cell is in place *)
(* already or will be written by a pending step (Landed); and that what a    *)
(* pending step is going to read has not been overwritten (Unread).  The     *)
(* order in which the code moves heap, rows and fields is what keeps the     *)
(* last of these true (PlanOK).                                             *)
(***************************************************************************)
EXTENDS BinTable, SequenceFacts

-----------------------------------------------------------------------------
(* The invariant.                                                            *)

\* A header whose cards are the columns 1 .. fields, each once, in any order.
HeaderOK(h) ==
    /\ h = [cards |-> h.cards, fields |-> h.fields, naxis1 |-> h.naxis1,
            naxis2 |-> h.naxis2, theap |-> h.theap]
    /\ h.fields \in Nat /\ h.naxis2 \in Nat
    /\ h.cards \in Seq([n : 1 .. h.fields, col : Column])
    /\ \A i, j \in DOMAIN h.cards : h.cards[i].n = h.cards[j].n => i = j
    /\ \A n \in 1 .. h.fields : HasCard(h.cards, n)
    /\ h.naxis1 = RowWidth(ColsOf(h))
    /\ h.theap \in {None, h.naxis1 * h.naxis2}

\* What a BinTable remembers of its header.
ViewOK(v) ==
    /\ v.cols \in Seq(Column) /\ v.naxis1 = RowWidth(v.cols) /\ v.naxis2 \in Nat

SizeOf(v) == v.naxis1 * v.naxis2 + Heap

DataOK(d) == d.size \in Nat /\ DOMAIN d.at = 0 .. d.size - 1

\* A table between two calls.
TableOK(h, v, d) ==
    HeaderOK(h) /\ v = Viewed(h) /\ DataOK(d) /\ d.size = SizeOf(v)

\* A call whose arguments the code has accepted.
OpOK(op, v) ==
    \/ /\ op.op = "insertRows" /\ op.at \in 0 .. v.naxis2 /\ op.n \in Nat \ {0}
    \/ /\ op.op = "deleteRows" /\ op.at \in Nat /\ op.n \in Nat \ {0}
       /\ op.at + op.n <= v.naxis2
    \/ /\ op.op = "copyRows" /\ op.at \in Nat /\ op.from \in Nat /\ op.n \in Nat \ {0}
       /\ op.at + op.n <= v.naxis2 /\ op.from + op.n <= v.naxis2
    \/ op.op = "insertColumn" /\ op.at \in 1 .. Len(v.cols) + 1 /\ op.col \in Column
    \/ op.op = "deleteColumn" /\ op.at \in 1 .. Len(v.cols)
    \/ /\ op.op = "copyColumn" /\ op.at \in 1 .. Len(v.cols) /\ op.from \in 1 .. Len(v.cols)
       /\ op.at # op.from /\ Width[v.cols[op.at]] = Width[v.cols[op.from]]
    \/ /\ op.op = "iterate" /\ op.writes \subseteq 1 .. Len(v.cols)
       /\ op.whole => op.writes = 1 .. Len(v.cols)

\* The table to be: its columns, the width of its rows, their number.
NewCols(op, v) ==
    CASE op.op = "insertColumn" -> InsertAt(v.cols, op.at, op.col)
      [] op.op = "deleteColumn" -> RemoveAt(v.cols, op.at)
      [] OTHER -> v.cols
Delta(op, v) ==
    CASE op.op = "insertColumn" -> Width[op.col]
      [] op.op = "deleteColumn" -> 0 - Width[v.cols[op.at]]
      [] OTHER -> 0
NewWidth(op, v) == v.naxis1 + Delta(op, v)
NewRows(op, v) ==
    CASE op.op = "insertRows" -> v.naxis2 + op.n
      [] op.op = "deleteRows" -> v.naxis2 - op.n
      [] OTHER -> v.naxis2
NewSize(op, v) == NewWidth(op, v) * NewRows(op, v) + Heap

\* The cell of the old rows that is at y when w cells have been put in at offset `at` of
\* each of them (or -w taken out); -1 for a new one.
RowOrigin(at, w, old, y) ==
    LET r == y \div (old + w)
        k == y % (old + w)
    IN  IF k < at THEN r * old + k ELSE IF k < at + w THEN -1 ELSE r * old + k - w

\* The cell of the old data unit that an edit puts at y; -1 if it puts a zero there.
Origin(op, v, y) ==
    CASE op.op = "insertRows" ->
            IF y < v.naxis1 * op.at THEN y
            ELSE IF y < v.naxis1 * (op.at + op.n) THEN -1 ELSE y - v.naxis1 * op.n
      [] op.op = "deleteRows" ->
            IF y < v.naxis1 * op.at THEN y ELSE y + v.naxis1 * op.n
      [] op.op = "copyRows" ->
            IF v.naxis1 * op.at <= y /\ y < v.naxis1 * (op.at + op.n)
            THEN y - v.naxis1 * op.at + v.naxis1 * op.from ELSE y
      [] op.op \in {"insertColumn", "deleteColumn"} ->
            IF y < NewWidth(op, v) * v.naxis2
            THEN RowOrigin(Offset(v.cols, op.at), Delta(op, v), v.naxis1, y)
            ELSE y - Delta(op, v) * v.naxis2
      [] op.op = "copyColumn" ->
            IF /\ y < v.naxis1 * v.naxis2
               /\ y % v.naxis1 \in Offset(v.cols, op.at) .. Offset(v.cols, op.at + 1) - 1
            THEN y - Offset(v.cols, op.at) + Offset(v.cols, op.from) ELSE y
Sourced(d, o) == IF o = -1 THEN Zero ELSE d.at[o]
Target(op, v, d, y) == Sourced(d, Origin(op, v, y))

\* The header to be.
NewHeader(h, op, v) ==
    /\ HeaderOK(h) /\ ColsOf(h) = NewCols(op, v) /\ h.fields = Len(NewCols(op, v))
    /\ h.naxis1 = NewWidth(op, v) /\ h.naxis2 = NewRows(op, v)

\* The loops of an edit.  After n of its units, a loop still has to write the cells
\* First .. Past - 1, from the cells SrcFirst .. SrcPast - 1.
IsLoop(s) == s.k \in {"move", "zero", "restride"}
StepOK(s, v) ==
    /\ s.units \in Nat \ {0}
    /\ \/ s.k = "move" /\ s.src \in Nat /\ s.dst \in Nat
       \/ s.k = "zero" /\ s.off \in Nat
       \/ /\ s.k = "restride" /\ s.at \in 0 .. v.naxis1 /\ s.w \in Int /\ s.units = v.naxis2
          /\ s.w < 0 => s.at - s.w <= v.naxis1
First(s, v, n) ==
    CASE s.k = "move" -> IF s.dst > s.src THEN s.dst ELSE s.dst + n
      [] s.k = "zero" -> s.off + n
      [] s.k = "restride" -> IF s.w > 0 THEN 0 ELSE n * (v.naxis1 + s.w)
Past(s, v, n) ==
    CASE s.k = "move" -> IF s.dst > s.src THEN s.dst + s.units - n ELSE s.dst + s.units
      [] s.k = "zero" -> s.off + s.units
      [] s.k = "restride" ->
            IF s.w > 0 THEN (s.units - n) * (v.naxis1 + s.w) ELSE s.units * (v.naxis1 + s.w)
SrcFirst(s, v, n) ==
    CASE s.k = "move" -> IF s.dst > s.src THEN s.src ELSE s.src + n
      [] s.k = "zero" -> 0
      [] s.k = "restride" -> IF s.w > 0 THEN 0 ELSE n * v.naxis1
SrcPast(s, v, n) ==
    CASE s.k = "move" -> IF s.dst > s.src THEN s.src + s.units - n ELSE s.src + s.units
      [] s.k = "zero" -> 0
      [] s.k = "restride" -> IF s.w > 0 THEN (s.units - n) * v.naxis1 ELSE s.units * v.naxis1
From(s, v, y) ==
    CASE s.k = "move" -> y - s.dst + s.src
      [] s.k = "zero" -> -1
      [] s.k = "restride" -> RowOrigin(s.at, s.w, v.naxis1, y)

\* Every loop writes what the table to be holds there, inside the data unit; no loop writes
\* what a later one reads; the data unit grows before and shrinks after all of them.
LoopOK(s, op, v) ==
    /\ StepOK(s, v)
    /\ Past(s, v, 0) <= NewSize(op, v) /\ SrcPast(s, v, 0) <= SizeOf(v)
    /\ \A y \in First(s, v, 0) .. Past(s, v, 0) - 1 : From(s, v, y) = Origin(op, v, y)
Clear(s, t, v) ==
    Past(s, v, 0) <= SrcFirst(t, v, 0) \/ SrcPast(t, v, 0) <= First(s, v, 0)
PairOK(s, t, op, v) ==
    /\ IsLoop(s) /\ IsLoop(t) => Clear(s, t, v)
    /\ s.k = "resize" /\ IsLoop(t) => SrcPast(t, v, 0) <= NewSize(op, v)
    /\ IsLoop(s) /\ t.k = "resize" => NewSize(op, v) <= SizeOf(v)
    /\ ~(s.k = "resize" /\ t.k = "resize")
PlanOK(todo, op, v) ==
    /\ \A a \in DOMAIN todo : IsLoop(todo[a]) => LoopOK(todo[a], op, v)
    /\ \A a \in DOMAIN todo : todo[a].k = "resize" => todo[a].n = NewSize(op, v)
    /\ \A a, b \in DOMAIN todo : a < b => PairOK(todo[a], todo[b], op, v)

At(a, n) == IF a = 1 THEN n ELSE 0
Pending(s, v, n, y) == IsLoop(s) /\ First(s, v, n) <= y /\ y < Past(s, v, n)
Landed(todo, n, op, v, d, old) ==
    \A y \in 0 .. NewSize(op, v) - 1 :
        \/ \E a \in DOMAIN todo : Pending(todo[a], v, At(a, n), y)
        \/ y < d.size /\ d.at[y] = Target(op, v, old, y)
Needed(s, v, n, x) == IsLoop(s) /\ SrcFirst(s, v, n) <= x /\ x < SrcPast(s, v, n)
Unread(todo, n, v, d, old) ==
    \A a \in DOMAIN todo, x \in Nat :
        Needed(todo[a], v, At(a, n), x) => x < d.size /\ d.at[x] = old.at[x]
Sized(todo, op, v, d) ==
    d.size = IF \E a \in DOMAIN todo : todo[a].k = "resize" THEN SizeOf(v) ELSE NewSize(op, v)
DoneOK(todo, n) ==
    /\ n \in Nat
    /\ n # 0 => todo # <<>> /\ IsLoop(todo[1]) /\ n < todo[1].units

\* The steps of a call: those on the data unit, then, unless it copies, those that commit
\* the header.
Copies(op) == op.op \in {"copyRows", "copyColumn"}
Closing(op) == IF Copies(op) THEN 0 ELSE 3
Shaped(todo, op, v) ==
    LET L == Len(todo)
    IN  /\ \A a \in 1 .. L - Closing(op) : IsLoop(todo[a]) \/ (todo[a].k = "resize" /\ ~Copies(op))
        /\ ~Copies(op) =>
              /\ L >= 3 => todo[L - 2].k = "cards" /\ NewHeader(todo[L - 2].h, op, v)
              /\ L >= 2 => todo[L - 1].k = "rewrite"
              /\ L >= 1 => todo[L].k = "reparse"

\* Header, its copy in memory and the view of it, at each of the last steps.
HeaderStage(L, op, old) ==
    IF Copies(op) THEN disk = old.disk /\ hdr = disk /\ view = old.view
    ELSE /\ IF L >= 2 THEN disk = old.disk ELSE NewHeader(disk, op, old.view)
         /\ job.pc = "run" =>
               /\ IF L >= 3 THEN hdr = old.disk ELSE NewHeader(hdr, op, old.view)
               /\ L <= 1 => hdr = disk
         /\ IF L >= 1 \/ job.pc = "failed" THEN view = old.view ELSE view = Viewed(disk)

Staged == HeaderStage(Len(job.todo), job.op, job)

\* The cells that no step of the edit changes: Apart of a data unit d.
ApartIn(op, v, d) ==
    CASE op.op \in {"insertRows", "deleteRows"} -> 0 .. v.naxis1 * op.at - 1
      [] op.op \in {"insertColumn", "deleteColumn"} ->
            IF v.naxis2 = 0 THEN {} ELSE 0 .. Offset(v.cols, op.at) - 1
      [] op.op = "copyRows" ->
            (DOMAIN d.at) \ (v.naxis1 * op.at .. v.naxis1 * (op.at + op.n) - 1)
      [] op.op = "copyColumn" ->
            {k \in DOMAIN d.at :
                \/ k >= v.naxis1 * v.naxis2
                \/ k % v.naxis1 \notin Offset(v.cols, op.at) .. Offset(v.cols, op.at + 1) - 1}
Kept ==
    \A k \in ApartIn(job.op, job.view, job.data) : k < data.size /\ data.at[k] = job.data.at[k]

\* When nothing is left to do on the data unit, it is the one to be.
Arrived ==
    Len(job.todo) <= Closing(job.op) /\ (job.pc = "run" \/ ~Copies(job.op)) =>
        /\ data.size = NewSize(job.op, job.view)
        /\ \A y \in 0 .. NewSize(job.op, job.view) - 1 :
              data.at[y] = Target(job.op, job.view, job.data, y)

Listed(todo) == todo \in Seq(ToSet(todo))
OnCourse(todo, n, op, v, d, old) ==
    /\ PlanOK(todo, op, v)
    /\ DoneOK(todo, n)
    /\ Landed(todo, n, op, v, d, old)
    /\ Unread(todo, n, v, d, old)
    /\ Sized(todo, op, v, d)
Planned == OnCourse(job.todo, job.done, job.op, job.view, data, job.data)
EditInv ==
    /\ Shaped(job.todo, job.op, job.view)
    /\ Staged /\ Kept /\ Arrived
    /\ Copies(job.op) => data.size = job.data.size
    /\ job.pc = "run" => Planned

\* The iterator: what a pending write writes, and which fields are still to be written.
FieldAt(v, r, i) == r * v.naxis1 + Offset(v.cols, i)
WriteOK(s, op, v) ==
    /\ s.units = 1 /\ s.off \in Nat /\ s.len \in Nat /\ s.off + s.len <= SizeOf(v)
    /\ \A k \in 0 .. s.len - 1 : s.cells[k] = Fresh
    /\ \/ \E r \in 0 .. v.naxis2 - 1, i \in op.writes :
             s.off = FieldAt(v, r, i) /\ s.len = Width[v.cols[i]]
       \/ /\ op.writes = 1 .. Len(v.cols)
          /\ \E r \in 0 .. v.naxis2 - 1, t \in 0 .. v.naxis2 :
                r <= t /\ s.off = r * v.naxis1 /\ s.len = (t - r) * v.naxis1
ItemOK(s, op, v) ==
    \/ s.k = "read"
    \/ s.k = "work" /\ s.row \in 0 .. v.naxis2 - 1
    \/ s.k = "write" /\ WriteOK(s, op, v)
Covers(s, v, r, i) ==
    \/ s.k = "work" /\ s.row <= r /\ r < s.row + WindowRows
    \/ /\ s.k = "write" /\ s.off <= FieldAt(v, r, i)
       /\ FieldAt(v, r, i) + Width[v.cols[i]] <= s.off + s.len
Holds(d, v, r, i, c) ==
    \A k \in 0 .. Width[v.cols[i]] - 1 : d.at[FieldAt(v, r, i) + k] = c
Alike(d, e, v, r, i) ==
    \A k \in 0 .. Width[v.cols[i]] - 1 : d.at[FieldAt(v, r, i) + k] = e.at[FieldAt(v, r, i) + k]
Unbound(r, i) ==
    IF <<r, i>> \in others THEN Holds(data, view, r, i, Foreign) ELSE Alike(data, job.data, view, r, i)
Bound(r, i) ==
    \/ Holds(data, view, r, i, Fresh)
    \/ <<r, i>> \in others /\ Holds(data, view, r, i, Foreign)
    \/ \E a \in DOMAIN job.todo : Covers(job.todo[a], view, r, i)
IterateInv ==
    /\ disk = job.disk /\ hdr = disk /\ view = job.view /\ data.size = job.data.size
    /\ job.done = 0
    /\ \A a \in 1 .. Len(job.todo) : ItemOK(job.todo[a], job.op, view)
    /\ \A r \in 0 .. view.naxis2 - 1, i \in 1 .. Len(view.cols) :
          /\ i \notin job.op.writes => Unbound(r, i)
          /\ i \in job.op.writes /\ job.pc = "run" => Bound(r, i)

IsJob(j) ==
    j = [pc |-> j.pc, op |-> j.op, todo |-> j.todo, done |-> j.done, window |-> j.window,
         data |-> j.data, disk |-> j.disk, view |-> j.view]
JobOK ==
    /\ IsJob(job) /\ job.pc \in {"run", "failed"}
    /\ TableOK(job.disk, job.view, job.data)
    /\ OpOK(job.op, job.view)
    /\ DataOK(data) /\ Listed(job.todo)
    /\ job.op.op = "iterate" => IterateInv
    /\ job.op.op # "iterate" => EditInv

TableInv ==
    /\ damaged \in BOOLEAN
    /\ job = NoJob \/ (job.pc \in {"run", "failed"} /\ ~damaged /\ JobOK)
    /\ job = NoJob /\ ~damaged => hdr = disk /\ TableOK(disk, view, data)

-----------------------------------------------------------------------------
(* Recursive functions.                                                      *)

\* f begins with a and goes on with G.
Recursive(f, S, a, G, m) ==
    f \in [0 .. m -> S] /\ f[0] = a /\ \A n \in 1 .. m : f[n] = G[<<f[n - 1], n>>]

\* A function defined by recursion on 0 .. m exists: the least m for which it did not
\* would leave one for m - 1 to be extended.
LEMMA RecursionExists ==
    ASSUME NEW S, NEW a \in S, NEW G \in [S \X Nat -> S], NEW m \in Nat
    PROVE  \E f : Recursive(f, S, a, G, m)
<1> DEFINE Rec(f, n) == f[0] = a /\ \A j \in 1 .. n : f[j] = G[<<f[j - 1], j>>]
           T == {n \in Nat : ~ \E f \in [0 .. n -> S] : Rec(f, n)}
<1>1. SUFFICES T = {}
  <2>1. (\E f \in [0 .. m -> S] : Rec(f, m)) => \E f : Recursive(f, S, a, G, m)
    BY DEF Recursive
  <2>2. m \notin T => \E f \in [0 .. m -> S] : Rec(f, m)
    <3> HIDE DEF Rec
    <3> QED OBVIOUS
  <2> HIDE DEF T, Rec
  <2>3. T = {} => m \notin T
    OBVIOUS
  <2> QED BY <2>1, <2>2, <2>3
<1>2. SUFFICES ASSUME T # {} PROVE FALSE
  OBVIOUS
<1>3. PICK n \in T : \A j \in T : n <= j
  BY <1>2, LeastNatural
<1>4. n \in Nat /\ ~ \E f \in [0 .. n -> S] : Rec(f, n)
  BY <1>3
<1>5. CASE n = 0
  <2> DEFINE f == [j \in 0 .. n |-> a]
  <2>1. f \in [0 .. n -> S] /\ f[0] = a
    BY <1>5
  <2>2. \A j \in 1 .. n : FALSE
    BY <1>5
  <2> HIDE DEF f
  <2>3. Rec(f, n)
    BY <2>1, <2>2
  <2> QED BY <2>1, <2>3, <1>4
<1>6. CASE n # 0
  <2>1. n - 1 \in Nat /\ n - 1 \notin T
    BY <1>3, <1>4, <1>6
  <2>2. PICK f \in [0 .. n - 1 -> S] : Rec(f, n - 1)
    BY <2>1
  <2> DEFINE g == [j \in 0 .. n |-> IF j = n THEN G[<<f[n - 1], n>>] ELSE f[j]]
  <2>3. G[<<f[n - 1], n>>] \in S
    BY <1>4, <1>6
  <2>4. g \in [0 .. n -> S]
    BY <1>4, <2>3
  <2>5. g[n] = G[<<f[n - 1], n>>] /\ \A j \in 0 .. n - 1 : g[j] = f[j]
    BY <1>4
  <2> HIDE DEF g
  <2>6. g[0] = a
    BY <2>2, <2>5, <1>4, <1>6
  <2>7. ASSUME NEW j \in 1 .. n PROVE g[j] = G[<<g[j - 1], j>>]
    <3>1. j - 1 \in 0 .. n - 1 /\ (j = n \/ j \in 1 .. n - 1) /\ n \in Nat
      BY <1>4, <2>7
    <3>2. CASE j = n
      BY <3>1, <3>2, <2>5
    <3>3. CASE j \in 1 .. n - 1
      <4>1. g[j] = f[j] /\ g[j - 1] = f[j - 1]
        BY <2>5, <3>1, <3>3, <1>4
      <4> QED BY <4>1, <2>2, <3>3
    <3> QED BY <3>1, <3>2, <3>3
  <2>8. Rec(g, n)
    BY <2>6, <2>7
  <2> QED BY <2>4, <2>8, <1>4
<1> QED BY <1>5, <1>6

\* h goes on with f.
Follows(f, h, m) == f[0] = h[0] /\ \A n \in 1 .. m : f[n - 1] = h[n - 1] => f[n] = h[n]
Agree(f, h, m) == \A n \in 0 .. m : f[n] = h[n]

\* Two functions are the same on 0 .. m if they begin alike and wherever they are the same,
\* so are their next values.
LEMMA RecursionUnique ==
    ASSUME NEW m \in Nat, NEW f, NEW h, Follows(f, h, m)
    PROVE  Agree(f, h, m)
<1> USE DEF Follows, Agree
<1> DEFINE T == {n \in 0 .. m : f[n] # h[n]}
<1>1. T \subseteq Nat /\ \A n : n \in T <=> n \in 0 .. m /\ f[n] # h[n]
  OBVIOUS
<1> HIDE DEF T
<1>2. ASSUME T # {} PROVE FALSE
  <2>1. PICK n \in T : \A j \in T : n <= j
    BY <1>1, <1>2, LeastNatural
  <2>2. n \in 0 .. m /\ f[n] # h[n]
    BY <1>1, <2>1
  <2>3. n \in 1 .. m /\ n - 1 \in 0 .. m /\ ~(n <= n - 1)
    BY <2>2
  <2>4. n - 1 \notin T
    BY <2>1, <2>3
  <2> QED BY <1>1, <2>2, <2>3, <2>4
<1> QED BY <1>1, <1>2

-----------------------------------------------------------------------------
(* The offsets of columns.                                                   *)

\* The widths that parseColumns has added up after n columns.
IsSum(off, cols) ==
    off = [n \in 0 .. Len(cols) |-> IF n = 0 THEN 0 ELSE off[n - 1] + Width[cols[n]]]
Sums(cols) == CHOOSE off : IsSum(off, cols)

\* Each column has a width.
LEMMA ColumnTypes ==
    ASSUME NEW cols \in Seq(Column)
    PROVE  Len(cols) \in Nat /\ \A i \in 1 .. Len(cols) : cols[i] \in Column /\ Width[cols[i]] \in Nat
BY BinTableAssumption, ElementOfSeq, LenProperties

\* The sum over the columns is defined.
LEMMA SumsDefined ==
    ASSUME NEW cols \in Seq(Column)
    PROVE  IsSum(Sums(cols), cols)
<1> DEFINE m == Len(cols)
           G == [p \in Nat \X Nat |-> IF p[2] \in 1 .. m THEN p[1] + Width[cols[p[2]]] ELSE 0]
<1>1. m \in Nat /\ \A i \in 1 .. m : Width[cols[i]] \in Nat
  BY ColumnTypes
<1>2. G \in [Nat \X Nat -> Nat]
  BY <1>1
<1>3. \A x \in Nat, n \in 1 .. m : G[<<x, n>>] = x + Width[cols[n]]
  BY <1>1
<1> HIDE DEF G, m
<1>4. PICK h : Recursive(h, Nat, 0, G, m)
  BY <1>1, <1>2, RecursionExists
<1>5. \A n \in 1 .. m : h[n] = h[n - 1] + Width[cols[n]]
  <2> TAKE n \in 1 .. m
  <2>1. n - 1 \in 0 .. m
    BY <1>1
  <2>2. h[n - 1] \in Nat
    BY <2>1, <1>4 DEF Recursive
  <2> QED BY <2>2, <1>3, <1>4 DEF Recursive
<1>6. \A n \in 0 .. m : n = 0 \/ n \in 1 .. m
  BY <1>1
<1>7. h = [n \in 0 .. m |-> IF n = 0 THEN 0 ELSE h[n - 1] + Width[cols[n]]]
  BY <1>4, <1>5, <1>6 DEF Recursive
<1>8. IsSum(h, cols)
  BY <1>7 DEF IsSum, m
<1> QED BY <1>8, Zenon DEF Sums

\* The first column is at offset 0, each other one where the one before it ends.
LEMMA OffsetSteps ==
    ASSUME NEW cols \in Seq(Column)
    PROVE  /\ Len(cols) \in Nat
           /\ Offset(cols, 1) = 0
           /\ \A i \in 1 .. Len(cols) + 1 : Offset(cols, i) \in Nat
           /\ \A i \in 1 .. Len(cols) :
                /\ Width[cols[i]] \in Nat
                /\ Offset(cols, i + 1) = Offset(cols, i) + Width[cols[i]]
<1> DEFINE m == Len(cols)
           f == Sums(cols)
<1>1. m \in Nat /\ \A i \in 1 .. m : Width[cols[i]] \in Nat
  BY ColumnTypes
<1>2. f = [n \in 0 .. m |-> IF n = 0 THEN 0 ELSE f[n - 1] + Width[cols[n]]]
  BY SumsDefined, Zenon DEF IsSum
<1>3. \A i : Offset(cols, i) = f[i - 1]
  BY Zenon DEF Offset, Sums, IsSum
<1> HIDE DEF f, m
<1>4. f[0] = 0 /\ \A n \in 1 .. m : f[n] = f[n - 1] + Width[cols[n]]
  BY <1>1, <1>2
<1>5. \A n \in 0 .. m : f[n] \in Nat
  <2> DEFINE T == {n \in 0 .. m : f[n] \notin Nat}
  <2>1. T \subseteq Nat /\ \A n : n \in T <=> n \in 0 .. m /\ f[n] \notin Nat
    BY <1>1
  <2> HIDE DEF T
  <2>2. ASSUME T # {} PROVE FALSE
    <3>1. PICK n \in T : \A j \in T : n <= j
      BY <2>1, <2>2, LeastNatural
    <3>2. n \in 0 .. m /\ f[n] \notin Nat
      BY <2>1, <3>1
    <3>3. n \in 1 .. m /\ n - 1 \in 0 .. m /\ ~(n <= n - 1)
      BY <3>2, <1>1, <1>4
    <3>4. n - 1 \notin T
      BY <3>1, <3>3
    <3>5. f[n - 1] \in Nat /\ Width[cols[n]] \in Nat
      BY <2>1, <3>3, <3>4, <1>1
    <3> QED BY <3>2, <3>3, <3>5, <1>4
  <2> QED BY <2>1, <2>2
<1>6. \A i \in 1 .. m + 1 : i - 1 \in 0 .. m
  BY <1>1
<1>7. \A i \in 1 .. m : i \in 1 .. m + 1 /\ i + 1 - 1 = i /\ i - 1 \in 0 .. m
  BY <1>1
<1>8. Offset(cols, 1) = 0
  BY <1>3, <1>4
<1>9. \A i \in 1 .. m + 1 : Offset(cols, i) \in Nat
  BY <1>3, <1>5, <1>6
<1>10. \A i \in 1 .. m : Offset(cols, i + 1) = Offset(cols, i) + Width[cols[i]]
  BY <1>3, <1>4, <1>7
<1> QED BY <1>1, <1>8, <1>9, <1>10 DEF m
\* Later columns lie behind earlier ones, all of them within the row.
LEMMA OffsetOrder ==
    ASSUME NEW cols \in Seq(Column)
    PROVE  /\ \A i, j \in 1 .. Len(cols) + 1 : i <= j => Offset(cols, i) <= Offset(cols, j)
           /\ \A i \in 1 .. Len(cols), j \in 1 .. Len(cols) + 1 :
                i < j => Offset(cols, i) + Width[cols[i]] <= Offset(cols, j)
           /\ \A i \in 1 .. Len(cols) : Offset(cols, i) + Width[cols[i]] <= RowWidth(cols)
           /\ RowWidth(cols) \in Nat
<1> DEFINE m == Len(cols)
           f == [i \in 1 .. m + 1 |-> Offset(cols, i)]
<1>1. /\ m \in Nat /\ f \in [1 .. m + 1 -> Nat]
      /\ \A i \in 1 .. m : Width[cols[i]] \in Nat /\ f[i + 1] = f[i] + Width[cols[i]]
  <2>1. \A i \in 1 .. m : i + 1 \in 1 .. m + 1 /\ i \in 1 .. m + 1
    BY OffsetSteps
  <2> QED BY <2>1, OffsetSteps
<1>2. \A i \in 1 .. m + 1 : Offset(cols, i) = f[i]
  OBVIOUS
<1>3. RowWidth(cols) = f[m + 1]
  BY <1>1 DEF RowWidth
<1> HIDE DEF f, m
<1>4. ASSUME NEW i \in 1 .. m + 1 PROVE \A j \in 1 .. m + 1 : i <= j => f[i] <= f[j]
  <2> DEFINE T == {j \in 1 .. m + 1 : i <= j /\ ~(f[i] <= f[j])}
  <2>1. T \subseteq Nat /\ \A j : j \in T <=> j \in 1 .. m + 1 /\ i <= j /\ ~(f[i] <= f[j])
    BY <1>1
  <2> HIDE DEF T
  <2>2. ASSUME T # {} PROVE FALSE
    <3>1. PICK j \in T : \A k \in T : j <= k
      BY <2>1, <2>2, LeastNatural
    <3>2. j \in 1 .. m + 1 /\ i <= j /\ ~(f[i] <= f[j]) /\ j # i
      BY <2>1, <3>1, <1>1
    <3>3. j - 1 \in 1 .. m /\ j - 1 \in 1 .. m + 1 /\ i <= j - 1 /\ ~(j <= j - 1)
          /\ j - 1 + 1 = j
      BY <3>2, <1>1
    <3>4. f[i] <= f[j - 1]
      BY <3>1, <3>3, <2>1
    <3>5. f[j] = f[j - 1] + Width[cols[j - 1]] /\ Width[cols[j - 1]] \in Nat
      BY <3>3, <1>1
    <3>6. f[i] \in Nat /\ f[j] \in Nat /\ f[j - 1] \in Nat
      BY <1>1, <3>2, <3>3
    <3> QED BY <3>2, <3>4, <3>5, <3>6
  <2> QED BY <2>1, <2>2
<1>5. ASSUME NEW i \in 1 .. m, NEW j \in 1 .. m + 1, i < j PROVE f[i] + Width[cols[i]] <= f[j]
  <2>1. i + 1 \in 1 .. m + 1 /\ i + 1 <= j
    BY <1>5, <1>1
  <2> QED BY <2>1, <1>1, <1>4
<1>6. \A i \in 1 .. m : i \in 1 .. m + 1 /\ m + 1 \in 1 .. m + 1 /\ i < m + 1
  BY <1>1
<1>7. \A i \in 1 .. m : f[i] + Width[cols[i]] <= f[m + 1]
  BY <1>5, <1>6
<1>8. f[m + 1] \in Nat
  BY <1>1
<1>9. \A i \in 1 .. m : Offset(cols, i) = f[i]
  BY <1>2, <1>6
<1> QED BY <1>2, <1>3, <1>4, <1>5, <1>7, <1>8, <1>9 DEF m

\* Each cell of a row belongs to a column.
LEMMA OffsetCovers ==
    ASSUME NEW cols \in Seq(Column), NEW x \in Nat, x < RowWidth(cols)
    PROVE  \E i \in 1 .. Len(cols) :
              Offset(cols, i) <= x /\ x < Offset(cols, i) + Width[cols[i]]
<1> DEFINE m == Len(cols)
           T == {j \in 1 .. m + 1 : x < Offset(cols, j)}
<1>1. m \in Nat /\ T \subseteq Nat /\ \A j : j \in T <=> j \in 1 .. m + 1 /\ x < Offset(cols, j)
  BY OffsetSteps
<1>2. m + 1 \in T
  BY <1>1 DEF RowWidth
<1> HIDE DEF T
<1>3. PICK j \in T : \A k \in T : j <= k
  BY <1>1, <1>2, LeastNatural
<1>4. j \in 1 .. m + 1 /\ x < Offset(cols, j) /\ j # 1
  BY <1>1, <1>3, OffsetSteps
<1>5. j - 1 \in 1 .. m /\ j - 1 \in 1 .. m + 1 /\ ~(j <= j - 1) /\ j - 1 + 1 = j
  BY <1>1, <1>4
<1>6. j - 1 \notin T
  BY <1>3, <1>5
<1>7. Offset(cols, j - 1) \in Nat /\ ~(x < Offset(cols, j - 1))
  BY <1>1, <1>5, <1>6, OffsetSteps
<1>8. Offset(cols, j) = Offset(cols, j - 1) + Width[cols[j - 1]]
  BY <1>5, OffsetSteps
<1>9. Offset(cols, j - 1) <= x /\ x < Offset(cols, j - 1) + Width[cols[j - 1]]
  BY <1>4, <1>7, <1>8
<1> QED BY <1>5, <1>9

\* A new column moves the columns from its place on by its width.
LEMMA OffsetInsert ==
    ASSUME NEW cols \in Seq(Column), NEW at \in 1 .. Len(cols) + 1, NEW c \in Column
    PROVE  /\ InsertAt(cols, at, c) \in Seq(Column)
           /\ Len(InsertAt(cols, at, c)) = Len(cols) + 1
           /\ \A i \in 1 .. Len(cols) + 2 :
                Offset(InsertAt(cols, at, c), i) =
                    IF i <= at THEN Offset(cols, i) ELSE Offset(cols, i - 1) + Width[c]
           /\ RowWidth(InsertAt(cols, at, c)) = RowWidth(cols) + Width[c]
<1> DEFINE new == InsertAt(cols, at, c)
           m == Len(cols)
           f == [n \in 0 .. m + 1 |-> Offset(new, n + 1)]
           h == [n \in 0 .. m + 1 |->
                   IF n + 1 <= at THEN Offset(cols, n + 1) ELSE Offset(cols, n) + Width[c]]
<1>1. m \in Nat /\ new \in Seq(Column) /\ Len(new) = m + 1
      /\ \A j \in 1 .. m + 1 : new[j] = IF j < at THEN cols[j] ELSE IF j = at THEN c ELSE cols[j - 1]
  BY InsertFacts, LenProperties
<1> HIDE DEF new
<1>2. /\ Offset(new, 1) = 0
      /\ \A i \in 1 .. m + 1 : Offset(new, i + 1) = Offset(new, i) + Width[new[i]]
  BY <1>1, OffsetSteps
<1>3. f[0] = h[0]
  BY <1>1, <1>2, OffsetSteps
<1>4. ASSUME NEW n \in 1 .. m + 1, f[n - 1] = h[n - 1] PROVE f[n] = h[n]
  <2>1. /\ n \in 0 .. m + 1 /\ n - 1 \in 0 .. m + 1 /\ n - 1 + 1 = n
    BY <1>1
  <2>2. f[n] = Offset(new, n) + Width[new[n]] /\ f[n - 1] = Offset(new, n)
    BY <1>2, <2>1
  <2>3. h[n] = IF n + 1 <= at THEN Offset(cols, n + 1) ELSE Offset(cols, n) + Width[c]
    BY <2>1
  <2>4. h[n - 1] = IF n <= at THEN Offset(cols, n) ELSE Offset(cols, n - 1) + Width[c]
    BY <2>1
  <2> HIDE DEF f, h
  <2>5. CASE n < at
    <3>1. n \in 1 .. m /\ new[n] = cols[n] /\ n + 1 <= at /\ n <= at
      BY <2>5, <1>1
    <3> QED BY <3>1, <2>2, <2>3, <2>4, <1>4, OffsetSteps
  <2>6. CASE n = at
    <3>1. new[n] = c /\ ~(n + 1 <= at) /\ n <= at
      BY <2>6, <1>1
    <3> QED BY <3>1, <2>2, <2>3, <2>4, <1>4
  <2>7. CASE n > at
    <3>1. n - 1 \in 1 .. m /\ new[n] = cols[n - 1] /\ ~(n + 1 <= at) /\ ~(n <= at)
          /\ n - 1 + 1 = n
      BY <2>7, <1>1
    <3> n - 1 \in 1 .. m + 1
      BY <3>1
    <3>2. /\ Offset(cols, n) = Offset(cols, n - 1) + Width[cols[n - 1]]
          /\ Offset(cols, n - 1) \in Nat /\ Width[cols[n - 1]] \in Nat /\ Width[c] \in Nat
      BY <3>1, OffsetSteps, BinTableAssumption
    <3> QED BY <3>1, <3>2, <2>2, <2>3, <2>4, <1>4
  <2> QED BY <2>5, <2>6, <2>7, <1>1
<1>5. m + 1 \in Nat
  BY <1>1
<1> HIDE DEF f, h
<1>6. \A n \in 0 .. m + 1 : f[n] = h[n]
  <2>1. Follows(f, h, m + 1)
    BY <1>3, <1>4 DEF Follows
  <2>2. Agree(f, h, m + 1)
    BY <2>1, <1>5, RecursionUnique
  <2> QED BY <2>2 DEF Agree
<1>7. ASSUME NEW i \in 1 .. m + 2
      PROVE  Offset(new, i) = IF i <= at THEN Offset(cols, i) ELSE Offset(cols, i - 1) + Width[c]
  <2>1. i - 1 \in 0 .. m + 1 /\ i - 1 + 1 = i
    BY <1>1
  <2> QED BY <2>1, <1>6 DEF f, h
<1>8. RowWidth(new) = RowWidth(cols) + Width[c]
  <2>1. m + 2 \in 1 .. m + 2 /\ ~(m + 2 <= at) /\ m + 2 - 1 = m + 1 /\ m + 1 + 1 = m + 2
    BY <1>1
  <2> QED BY <2>1, <1>1, <1>7 DEF RowWidth
<1> QED BY <1>1, <1>7, <1>8 DEF new

\* A column less moves the columns after it back by its width.
LEMMA OffsetRemove ==
    ASSUME NEW cols \in Seq(Column), NEW at \in 1 .. Len(cols)
    PROVE  /\ RemoveAt(cols, at) \in Seq(Column)
           /\ Len(RemoveAt(cols, at)) = Len(cols) - 1
           /\ \A i \in 1 .. Len(cols) :
                Offset(RemoveAt(cols, at), i) =
                    IF i <= at THEN Offset(cols, i) ELSE Offset(cols, i + 1) - Width[cols[at]]
           /\ RowWidth(RemoveAt(cols, at)) = RowWidth(cols) - Width[cols[at]]
<1> DEFINE new == RemoveAt(cols, at)
           m == Len(cols) - 1
           W == Width[cols[at]]
           f == [n \in 0 .. m |-> Offset(new, n + 1)]
           h == [n \in 0 .. m |->
                   IF n + 1 <= at THEN Offset(cols, n + 1) ELSE Offset(cols, n + 2) - W]
<1>1. m \in Nat /\ Len(cols) = m + 1 /\ new \in Seq(Column) /\ Len(new) = m
      /\ \A j \in 1 .. m : new[j] = IF j < at THEN cols[j] ELSE cols[j + 1]
  BY RemoveFacts, LenProperties
<1> HIDE DEF new, m
<1>2. /\ Offset(new, 1) = 0
      /\ \A i \in 1 .. m : Offset(new, i + 1) = Offset(new, i) + Width[new[i]]
  BY <1>1, OffsetSteps
<1>3. f[0] = h[0]
  BY <1>1, <1>2, OffsetSteps
<1>4. ASSUME NEW n \in 1 .. m, f[n - 1] = h[n - 1] PROVE f[n] = h[n]
  <2>1. /\ n \in 0 .. m /\ n - 1 \in 0 .. m /\ n - 1 + 1 = n /\ n - 1 + 2 = n + 1
    BY <1>1
  <2>2. f[n] = Offset(new, n) + Width[new[n]] /\ f[n - 1] = Offset(new, n)
    BY <1>2, <2>1
  <2>3. h[n] = IF n + 1 <= at THEN Offset(cols, n + 1) ELSE Offset(cols, n + 2) - W
    BY <2>1
  <2>4. h[n - 1] = IF n <= at THEN Offset(cols, n) ELSE Offset(cols, n + 1) - W
    BY <2>1
  <2> HIDE DEF f, h
  <2>5. /\ n \in 1 .. Len(cols) /\ n + 1 \in 1 .. Len(cols) /\ at \in 1 .. Len(cols)
        /\ n + 1 + 1 = n + 2
    BY <1>1
  <2>6. /\ Offset(cols, n + 1) = Offset(cols, n) + Width[cols[n]]
        /\ Offset(cols, n + 2) = Offset(cols, n + 1) + Width[cols[n + 1]]
        /\ Offset(cols, n) \in Nat /\ Offset(cols, n + 1) \in Nat
        /\ Width[cols[n]] \in Nat /\ Width[cols[n + 1]] \in Nat /\ W \in Nat
    <3>1. ASSUME NEW k \in 1 .. Len(cols)
          PROVE  /\ Offset(cols, k + 1) = Offset(cols, k) + Width[cols[k]]
                 /\ Offset(cols, k) \in Nat /\ Width[cols[k]] \in Nat
      BY <3>1, OffsetSteps
    <3>2. W \in Nat
      BY <2>5, <3>1
    <3> HIDE DEF W
    <3> QED BY ONLY <2>5, <3>1, <3>2
  <2>7. new[n] = IF n < at THEN cols[n] ELSE cols[n + 1]
    BY <1>1
  <2> HIDE DEF W
  <2>8. CASE n < at
    <3>1. new[n] = cols[n] /\ n + 1 <= at /\ n <= at
      BY <2>7, <2>8, <2>5
    <3> QED BY <3>1, <2>2, <2>3, <2>4, <2>6, <1>4
  <2>9. CASE n = at
    <3>1. new[n] = cols[n + 1] /\ ~(n + 1 <= at) /\ n <= at /\ W = Width[cols[n]]
      BY <2>7, <2>9, <2>5 DEF W
    <3>2. f[n] = Offset(cols, n) + Width[cols[n + 1]]
      BY <3>1, <2>2, <2>4, <1>4
    <3>3. h[n] = Offset(cols, n + 2) - W
      BY <3>1, <2>3
    <3>4. ASSUME NEW o0 \in Nat, NEW w0 \in Nat, NEW w1 \in Nat PROVE o0 + w0 + w1 - w0 = o0 + w1
      OBVIOUS
    <3>5. Offset(cols, n + 2) = Offset(cols, n) + W + Width[cols[n + 1]]
      BY <3>1, <2>6, Zenon
    <3> QED BY <3>2, <3>3, <3>4, <3>5, <2>6
  <2>10. CASE n > at
    <3>1. ~(n < at) /\ ~(n + 1 <= at) /\ ~(n <= at)
      BY ONLY <2>10, <2>5, n \in 1 .. m
    <3>2. new[n] = cols[n + 1]
      BY ONLY <2>7, <3>1
    <3>3. f[n] = Offset(cols, n + 1) - W + Width[cols[n + 1]]
      BY <3>1, <3>2, <2>2, <2>4, <1>4
    <3>4. h[n] = Offset(cols, n + 1) + Width[cols[n + 1]] - W
      BY <3>1, <2>3, <2>6
    <3>5. ASSUME NEW x \in Nat, NEW y \in Nat, NEW z \in Nat PROVE x - y + z = x + z - y
      OBVIOUS
    <3>6. Offset(cols, n + 1) - W + Width[cols[n + 1]] = Offset(cols, n + 1) + Width[cols[n + 1]] - W
      BY ONLY <2>6, <3>5, Zenon
    <3> QED BY ONLY <3>3, <3>4, <3>6, Zenon
  <2> QED BY <2>8, <2>9, <2>10, <1>1
<1> HIDE DEF f, h
<1>5. m \in Nat /\ \A n \in 1 .. m : f[n - 1] = h[n - 1] => f[n] = h[n]
  BY <1>1, <1>4
<1>6. \A n \in 0 .. m : f[n] = h[n]
  <2>1. Follows(f, h, m)
    BY <1>3, <1>5 DEF Follows
  <2>2. Agree(f, h, m)
    BY <2>1, <1>3, <1>1, RecursionUnique
  <2> QED BY <2>2 DEF Agree
<1>7. ASSUME NEW i \in 1 .. m + 1
      PROVE  Offset(new, i) = IF i <= at THEN Offset(cols, i) ELSE Offset(cols, i + 1) - W
  <2>1. i - 1 \in 0 .. m /\ i - 1 + 1 = i /\ i - 1 + 2 = i + 1
    BY <1>1
  <2> QED BY <2>1, <1>6 DEF f, h
<1>8. RowWidth(new) = RowWidth(cols) - W
  <2>1. m + 1 \in 1 .. m + 1 /\ m + 1 \in 1 .. Len(cols)
    BY <1>1
  <2>2. CASE m + 1 <= at
    <3>1. m + 1 = at
      BY <1>1, <2>2
    <3>2. /\ Offset(cols, m + 2) = Offset(cols, m + 1) + W
          /\ Offset(cols, m + 1) \in Nat /\ W \in Nat /\ m + 1 + 1 = m + 2
      <4>1. m + 1 + 1 = m + 2
        BY <1>1
      <4> QED BY <4>1, <3>1, <2>1, OffsetSteps
    <3>3. RowWidth(cols) = Offset(cols, m + 2) /\ RowWidth(new) = Offset(new, m + 1)
      BY <1>1, <3>2 DEF RowWidth
    <3>4. Offset(new, m + 1) = Offset(cols, m + 1)
      BY <1>7, <2>1, <2>2
    <3> HIDE DEF W
    <3> QED BY <3>2, <3>3, <3>4
  <2>3. CASE ~(m + 1 <= at)
    BY <2>1, <2>3, <1>1, <1>7 DEF RowWidth
  <2> QED BY <2>2, <2>3
<1> QED BY <1>1, <1>7, <1>8 DEF new
-----------------------------------------------------------------------------
(* Rows of w cells.                                                          *)

\* Products of natural numbers.
LEMMA Times ==
    ASSUME NEW a \in Nat, NEW w \in Nat
    PROVE  /\ a * w \in Nat /\ w * a = a * w /\ (a + 1) * w = a * w + w
           /\ w = 0 => a * w = 0
           /\ a = 0 => a * w = 0
           /\ a # 0 /\ w # 0 => a * w # 0
  OBVIOUS

\* More rows have no fewer cells.
LEMMA TimesOrder ==
    ASSUME NEW a \in Nat, NEW b \in Nat, NEW w \in Nat
    PROVE  /\ a <= b => a * w <= b * w
           /\ a < b => a * w + w <= b * w
           /\ (a + b) * w = a * w + b * w
           /\ a <= b => (b - a) * w = b * w - a * w
<1>1. (a + b) * w = a * w + b * w
  OBVIOUS
<1>2. ASSUME NEW c \in Nat, NEW e \in Nat PROVE (c + e) * w = c * w + e * w /\ c * w \in Nat /\ e * w \in Nat
  OBVIOUS
<1>3. ASSUME a <= b PROVE (b - a) * w = b * w - a * w /\ a * w <= b * w
  <2>1. b - a \in Nat /\ a + (b - a) = b
    BY <1>3
  <2>2. (a + (b - a)) * w = a * w + (b - a) * w /\ (b - a) * w \in Nat /\ a * w \in Nat
    BY <1>2, <2>1
  <2> QED BY <2>1, <2>2
<1>4. ASSUME a < b PROVE a * w + w <= b * w
  <2>1. b - a - 1 \in Nat /\ (a + 1) + (b - a - 1) = b /\ a + 1 \in Nat
    BY <1>4
  <2>2. ((a + 1) + (b - a - 1)) * w = (a + 1) * w + (b - a - 1) * w /\ (b - a - 1) * w \in Nat
    BY <1>2, <2>1
  <2>3. (a + 1) * w = a * w + w /\ a * w \in Nat
    BY Times
  <2> QED BY <2>1, <2>2, <2>3
<1> QED BY <1>1, <1>3, <1>4

\* Row and place in the row of a cell, and the cell at a place of a row.
LEMMA RowPlace ==
    ASSUME NEW w \in Nat \ {0}, NEW r \in Nat, NEW k \in 0 .. w - 1
    PROVE  (r * w + k) \div w = r /\ (r * w + k) % w = k
OBVIOUS

\* The row of a cell, and its place in the row.
LEMMA PlaceRow ==
    ASSUME NEW w \in Nat \ {0}, NEW y \in Nat
    PROVE  /\ y \div w \in Nat /\ y % w \in 0 .. w - 1
           /\ y = (y \div w) * w + (y % w)
           /\ \A n \in Nat : y < n * w => y \div w < n
<1>1. y \div w \in Nat /\ y % w \in 0 .. w - 1 /\ y = (y \div w) * w + (y % w)
  OBVIOUS
<1>2. ASSUME NEW n \in Nat, y < n * w PROVE y \div w < n
  <2>1. n <= y \div w => n * w <= (y \div w) * w
    BY <1>1, TimesOrder
  <2>2. (y \div w) * w \in Nat /\ n * w \in Nat
    BY <1>1, Times
  <2> QED BY <1>1, <1>2, <2>1, <2>2
<1> QED BY <1>1, <1>2
-----------------------------------------------------------------------------
(* The cards of a header.                                                    *)

Cards == Seq([n : Nat, col : Column])
Distinct(cards) == \A i, j \in DOMAIN cards : cards[i].n = cards[j].n => i = j

\* The cards of a sequence, by position.
LEMMA CardTypes ==
    ASSUME NEW cards \in Cards
    PROVE  /\ Len(cards) \in Nat /\ DOMAIN cards = 1 .. Len(cards)
           /\ \A i \in DOMAIN cards :
                /\ cards[i].n \in Nat /\ cards[i].col \in Column
                /\ cards[i] = [n |-> cards[i].n, col |-> cards[i].col]
<1>1. Len(cards) \in Nat /\ DOMAIN cards = 1 .. Len(cards)
  BY LenProperties DEF Cards
<1>2. \A i \in 1 .. Len(cards) : cards[i] \in [n : Nat, col : Column]
  BY ElementOfSeq DEF Cards
<1> QED BY <1>1, <1>2

\* Where no two cards have the same index, the first with an index is the only one.
LEMMA OnlyCard ==
    ASSUME NEW cards \in Cards, Distinct(cards), NEW k \in DOMAIN cards
    PROVE  HasCard(cards, cards[k].n) /\ FirstCard(cards, cards[k].n) = k
<1> DEFINE n == cards[k].n
           P(i) == i \in DOMAIN cards /\ cards[i].n = n /\ \A j \in 1 .. i - 1 : cards[j].n # n
<1>1. \A i \in DOMAIN cards : cards[i].n = n => i = k
  BY DEF Distinct
<1>2. \A j \in 1 .. k - 1 : j \in DOMAIN cards /\ j # k
  BY CardTypes
<1>3. P(k)
  BY <1>1, <1>2
<1>4. FirstCard(cards, n) = CHOOSE i \in DOMAIN cards :
          cards[i].n = n /\ \A j \in 1 .. i - 1 : cards[j].n # n
  BY DEF FirstCard
<1>5. FirstCard(cards, n) \in DOMAIN cards /\ cards[FirstCard(cards, n)].n = n
  BY <1>3, <1>4
<1>6. HasCard(cards, n)
  BY DEF HasCard
<1> QED BY <1>1, <1>5, <1>6

\* renameColumnIndex changes the one card that has the index.
LEMMA RenamedIs ==
    ASSUME NEW cards \in Cards, Distinct(cards), NEW old \in Nat, NEW new \in Nat
    PROVE  Renamed(cards, old, new) =
               [i \in DOMAIN cards |-> IF cards[i].n = old THEN [n |-> new, col |-> cards[i].col]
                                       ELSE cards[i]]
<1> DEFINE r == [i \in DOMAIN cards |->
                    IF cards[i].n = old THEN [n |-> new, col |-> cards[i].col] ELSE cards[i]]
<1>1. CASE HasCard(cards, old)
  <2>1. PICK k \in DOMAIN cards : cards[k].n = old
    BY <1>1 DEF HasCard
  <2>2. FirstCard(cards, old) = k
    BY <2>1, OnlyCard
  <2>3. Renamed(cards, old, new) = [cards EXCEPT ![k].n = new]
    BY <1>1, <2>2 DEF Renamed
  <2>4. \A i \in DOMAIN cards : cards[i].n = old => i = k
    BY <2>1 DEF Distinct
  <2>5. [cards[k] EXCEPT !.n = new] = [n |-> new, col |-> cards[k].col]
    BY <2>1, CardTypes
  <2>6. [cards EXCEPT ![k].n = new] =
            [i \in DOMAIN cards |-> IF i = k THEN [cards[k] EXCEPT !.n = new] ELSE cards[i]]
    BY <2>1, CardTypes
  <2> QED BY <2>1, <2>3, <2>4, <2>5, <2>6
<1>2. CASE ~HasCard(cards, old)
  <2>1. \A i \in DOMAIN cards : cards[i].n # old
    BY <1>2 DEF HasCard
  <2>2. Renamed(cards, old, new) = cards
    BY <1>2 DEF Renamed
  <2>3. cards = [i \in DOMAIN cards |-> cards[i]]
    BY CardTypes DEF Cards
  <2>4. r = [i \in DOMAIN cards |-> cards[i]]
    BY <2>1
  <2> QED BY <2>2, <2>3, <2>4
<1> QED BY <1>1, <1>2

\* The cards with an index above b, one higher.
Lifted(cards, b) ==
    [i \in DOMAIN cards |->
        IF cards[i].n > b THEN [n |-> cards[i].n + 1, col |-> cards[i].col] ELSE cards[i]]

\* Lifted cards have distinct indices still.
LEMMA LiftedFacts ==
    ASSUME NEW cards \in Cards, Distinct(cards), NEW b \in Nat
    PROVE  /\ Lifted(cards, b) \in Cards /\ Distinct(Lifted(cards, b))
           /\ Len(Lifted(cards, b)) = Len(cards) /\ DOMAIN Lifted(cards, b) = DOMAIN cards
           /\ \A i \in DOMAIN cards :
                /\ Lifted(cards, b)[i].n = IF cards[i].n > b THEN cards[i].n + 1 ELSE cards[i].n
                /\ Lifted(cards, b)[i].col = cards[i].col
<1> DEFINE l == Lifted(cards, b)
<1>1. /\ l \in [1 .. Len(cards) -> [n : Nat, col : Column]] /\ Len(cards) \in Nat
      /\ DOMAIN cards = 1 .. Len(cards)
  BY CardTypes DEF Lifted
<1>2. \A i \in DOMAIN cards :
        /\ l[i].n = IF cards[i].n > b THEN cards[i].n + 1 ELSE cards[i].n
        /\ l[i].col = cards[i].col
  BY CardTypes DEF Lifted
<1> HIDE DEF l
<1>3. l \in Cards /\ Len(l) = Len(cards) /\ DOMAIN l = DOMAIN cards
  BY <1>1, FunctionIsSeq DEF Cards
<1>4. ASSUME NEW i \in DOMAIN cards, NEW j \in DOMAIN cards, l[i].n = l[j].n PROVE i = j
  <2>1. cards[i].n \in Nat /\ cards[j].n \in Nat
    BY CardTypes
  <2>2. cards[i].n = cards[j].n
    BY <2>1, <1>2, <1>4
  <2> QED BY <2>2 DEF Distinct
<1>5. Distinct(l)
  BY <1>3, <1>4 DEF Distinct
<1> QED BY <1>2, <1>3, <1>5 DEF l

\* renumberColumns from the last column down to `from`: the cards from there on are lifted.
IsRenumberingUp(after, cards, from, to) ==
    after = [m \in 0 .. to - from + 1 |->
                IF m = 0 THEN cards ELSE Renamed(after[m - 1], to - m + 1, to - m + 2)]

\* renumberColumns upwards: every index from `from` on is one higher.
LEMMA RenumberedUpIs ==
    ASSUME NEW cards \in Cards, Distinct(cards), NEW from \in Nat \ {0}, NEW to \in Nat,
           from <= to + 1, \A i \in DOMAIN cards : cards[i].n <= to
    PROVE  RenumberedUp(cards, from, to) = Lifted(cards, from - 1)
<1> DEFINE M == to - from + 1
           h == [m \in 0 .. M |-> Lifted(cards, to - m)]
           f == CHOOSE after : IsRenumberingUp(after, cards, from, to)
<1>1. M \in Nat /\ M <= to
  OBVIOUS
<1>2. h[0] = cards
  <2>1. \A i \in DOMAIN cards : ~(cards[i].n > to - 0)
    BY CardTypes
  <2>2. cards = [i \in DOMAIN cards |-> cards[i]]
    BY CardTypes DEF Cards
  <2>3. Lifted(cards, to - 0) = cards
    BY <2>1, <2>2 DEF Lifted
  <2> QED BY <2>3
<1>3. ASSUME NEW m \in 1 .. M PROVE h[m] = Renamed(h[m - 1], to - m + 1, to - m + 2)
  <2> DEFINE b == to - m
             g == Lifted(cards, b + 1)
  <2>1. b \in Nat /\ b + 1 = to - (m - 1) /\ m - 1 \in 0 .. M /\ m \in 0 .. M
    BY <1>1
  <2>2. h[m - 1] = g /\ h[m] = Lifted(cards, b)
    BY <2>1
  <2> HIDE DEF b, g, h
  <2>3. b + 1 \in Nat /\ b + 2 \in Nat
    BY <2>1
  <2>4. /\ g \in Cards /\ Distinct(g) /\ DOMAIN g = DOMAIN cards
        /\ \A i \in DOMAIN cards :
             /\ g[i].n = IF cards[i].n > b + 1 THEN cards[i].n + 1 ELSE cards[i].n
             /\ g[i].col = cards[i].col
    BY <2>3, LiftedFacts DEF g
  <2>5. Renamed(g, b + 1, b + 2) =
          [i \in DOMAIN g |-> IF g[i].n = b + 1 THEN [n |-> b + 2, col |-> g[i].col] ELSE g[i]]
    BY <2>3, <2>4, RenamedIs
  <2>6. \A i \in DOMAIN cards : g[i] = IF cards[i].n > b + 1
            THEN [n |-> cards[i].n + 1, col |-> cards[i].col] ELSE cards[i]
    BY DEF g, Lifted
  <2>7. ASSUME NEW i \in DOMAIN cards
        PROVE  (IF g[i].n = b + 1 THEN [n |-> b + 2, col |-> g[i].col] ELSE g[i])
               = IF cards[i].n > b THEN [n |-> cards[i].n + 1, col |-> cards[i].col] ELSE cards[i]
    <3>1. cards[i].n \in Nat
      BY CardTypes
    <3>2. CASE cards[i].n > b + 1
      BY <2>1, <2>4, <2>6, <3>1, <3>2
    <3>3. CASE cards[i].n = b + 1
      <4>1. g[i].n = b + 1 /\ g[i].col = cards[i].col /\ cards[i].n > b /\ cards[i].n + 1 = b + 2
        BY <2>1, <2>4, <3>1, <3>3
      <4> QED BY <4>1
    <3>4. CASE cards[i].n < b + 1
      <4>1. g[i].n # b + 1 /\ ~(cards[i].n > b) /\ g[i] = cards[i]
        BY <2>1, <2>4, <2>6, <3>1, <3>4
      <4> QED BY <4>1
    <3> QED BY <2>1, <3>1, <3>2, <3>3, <3>4
  <2>8. Renamed(g, b + 1, b + 2) = Lifted(cards, b)
    BY <2>4, <2>5, <2>7 DEF Lifted
  <2>9. to - m + 1 = b + 1 /\ to - m + 2 = b + 2
    BY DEF b
  <2> QED BY <2>2, <2>8, <2>9
<1>4. RenumberedUp(cards, from, to) = f[M]
  BY DEF RenumberedUp, IsRenumberingUp
<1>5. IsRenumberingUp(h, cards, from, to)
  <2>1. \A m \in 0 .. M : h[m] = IF m = 0 THEN cards ELSE Renamed(h[m - 1], to - m + 1, to - m + 2)
    <3> TAKE m \in 0 .. M
    <3>1. m = 0 \/ m \in 1 .. M
      BY <1>1
    <3> HIDE DEF h
    <3> QED BY <3>1, <1>2, <1>3
  <2>2. h = [m \in 0 .. M |-> h[m]]
    OBVIOUS
  <2> HIDE DEF h
  <2>3. h = [m \in 0 .. M |-> IF m = 0 THEN cards ELSE Renamed(h[m - 1], to - m + 1, to - m + 2)]
    BY <2>1, <2>2
  <2> QED BY <2>3 DEF IsRenumberingUp
<1> HIDE DEF h
<1>6. IsRenumberingUp(f, cards, from, to)
  BY <1>5, Zenon
<1> HIDE DEF f
<1>7. f[0] = cards /\ \A m \in 1 .. M : f[m] = Renamed(f[m - 1], to - m + 1, to - m + 2)
  <2>1. M \in Nat /\ f = [m \in 0 .. M |-> IF m = 0 THEN cards
                                           ELSE Renamed(f[m - 1], to - m + 1, to - m + 2)]
    BY <1>1, <1>6 DEF IsRenumberingUp
  <2> HIDE DEF M
  <2>2. \A m \in 1 .. M : m \in 0 .. M /\ m # 0
    BY <2>1
  <2>3. 0 \in 0 .. M
    BY <2>1
  <2> DEFINE g == [m \in 0 .. M |-> IF m = 0 THEN cards
                                    ELSE Renamed(f[m - 1], to - m + 1, to - m + 2)]
  <2>4. g[0] = cards /\ \A m \in 1 .. M : g[m] = Renamed(f[m - 1], to - m + 1, to - m + 2)
    BY <2>2, <2>3
  <2> HIDE DEF g
  <2>5. f = g
    BY <2>1 DEF g
  <2> QED BY <2>4, <2>5, Zenon
<1>8. f[0] = h[0] /\ \A m \in 1 .. M : f[m - 1] = h[m - 1] => f[m] = h[m]
  BY <1>2, <1>3, <1>7
<1> HIDE DEF M
<1>9. \A m \in 0 .. M : f[m] = h[m]
  <2>1. Follows(f, h, M)
    BY <1>8 DEF Follows
  <2>2. Agree(f, h, M)
    BY <2>1, <1>1, RecursionUnique
  <2> QED BY <2>2 DEF Agree
<1>10. f[M] = h[M]
  BY <1>1, <1>9
<1>11. h[M] = Lifted(cards, from - 1)
  <2>1. M \in 0 .. M /\ to - M = from - 1
    BY DEF M
  <2> QED BY <2>1 DEF h
<1> QED BY <1>4, <1>10, <1>11
\* The cards with an index from `from` to b, one lower.
Lowered(cards, from, b) ==
    [i \in DOMAIN cards |->
        IF from <= cards[i].n /\ cards[i].n <= b
        THEN [n |-> cards[i].n - 1, col |-> cards[i].col] ELSE cards[i]]

\* Lowered cards have distinct indices still, if the index below `from` is free.
LEMMA LoweredFacts ==
    ASSUME NEW cards \in Cards, Distinct(cards), NEW from \in Nat \ {0}, NEW b \in Nat,
           \A i \in DOMAIN cards : cards[i].n # from - 1
    PROVE  /\ Lowered(cards, from, b) \in Cards /\ Distinct(Lowered(cards, from, b))
           /\ Len(Lowered(cards, from, b)) = Len(cards)
           /\ DOMAIN Lowered(cards, from, b) = DOMAIN cards
           /\ \A i \in DOMAIN cards :
                /\ Lowered(cards, from, b)[i].n =
                      IF from <= cards[i].n /\ cards[i].n <= b THEN cards[i].n - 1 ELSE cards[i].n
                /\ Lowered(cards, from, b)[i].col = cards[i].col
<1> DEFINE l == Lowered(cards, from, b)
<1>1. /\ l \in [1 .. Len(cards) -> [n : Nat, col : Column]] /\ Len(cards) \in Nat
      /\ DOMAIN cards = 1 .. Len(cards)
  BY CardTypes DEF Lowered
<1>2. \A i \in DOMAIN cards :
        /\ l[i].n = IF from <= cards[i].n /\ cards[i].n <= b THEN cards[i].n - 1 ELSE cards[i].n
        /\ l[i].col = cards[i].col
  BY CardTypes DEF Lowered
<1> HIDE DEF l
<1>3. l \in Cards /\ Len(l) = Len(cards) /\ DOMAIN l = DOMAIN cards
  BY <1>1, FunctionIsSeq DEF Cards
<1>4. ASSUME NEW i \in DOMAIN cards, NEW j \in DOMAIN cards, l[i].n = l[j].n PROVE i = j
  <2>1. /\ cards[i].n \in Nat /\ cards[j].n \in Nat
        /\ cards[i].n # from - 1 /\ cards[j].n # from - 1
    BY CardTypes
  <2>2. cards[i].n = cards[j].n
    BY <2>1, <1>2, <1>4
  <2> QED BY <2>2 DEF Distinct
<1>5. Distinct(l)
  BY <1>3, <1>4 DEF Distinct
<1> QED BY <1>2, <1>3, <1>5 DEF l

\* renumberColumns down, from the first column to the last.
IsRenumberingDown(after, cards, from, to) ==
    after = [m \in 0 .. to - from + 1 |->
                IF m = 0 THEN cards ELSE Renamed(after[m - 1], from + m - 1, from + m - 2)]

\* renumberColumns downwards: every index from `from` to `to` is one lower.
LEMMA RenumberedDownIs ==
    ASSUME NEW cards \in Cards, Distinct(cards), NEW from \in Nat \ {0, 1}, NEW to \in Nat,
           from <= to + 1, \A i \in DOMAIN cards : cards[i].n # from - 1
    PROVE  RenumberedDown(cards, from, to) = Lowered(cards, from, to)
<1> DEFINE M == to - from + 1
           h == [m \in 0 .. M |-> Lowered(cards, from, from + m - 1)]
           f == CHOOSE after : IsRenumberingDown(after, cards, from, to)
<1>1. M \in Nat
  OBVIOUS
<1>2. h[0] = cards
  <2>1. \A i \in DOMAIN cards : ~(from <= cards[i].n /\ cards[i].n <= from + 0 - 1)
    BY CardTypes
  <2>2. cards = [i \in DOMAIN cards |-> cards[i]]
    BY CardTypes DEF Cards
  <2>3. Lowered(cards, from, from + 0 - 1) = cards
    BY <2>1, <2>2 DEF Lowered
  <2> QED BY <2>3
<1>3. ASSUME NEW m \in 1 .. M PROVE h[m] = Renamed(h[m - 1], from + m - 1, from + m - 2)
  <2> DEFINE b == from + m - 2
             g == Lowered(cards, from, b)
  <2>1. /\ b \in Nat /\ b + 1 = from + m - 1 /\ b = from + (m - 1) - 1 /\ from <= b + 1
        /\ m - 1 \in 0 .. M /\ m \in 0 .. M
    BY <1>1
  <2>2. h[m - 1] = g /\ h[m] = Lowered(cards, from, b + 1)
    BY <2>1
  <2> HIDE DEF b, g, h
  <2>3. b + 1 \in Nat
    BY <2>1
  <2>4. /\ g \in Cards /\ Distinct(g) /\ DOMAIN g = DOMAIN cards
        /\ \A i \in DOMAIN cards :
             /\ g[i].n = IF from <= cards[i].n /\ cards[i].n <= b THEN cards[i].n - 1
                         ELSE cards[i].n
             /\ g[i].col = cards[i].col
    BY <2>1, LoweredFacts DEF g
  <2>5. Renamed(g, b + 1, b) =
          [i \in DOMAIN g |-> IF g[i].n = b + 1 THEN [n |-> b, col |-> g[i].col] ELSE g[i]]
    BY <2>1, <2>3, <2>4, RenamedIs
  <2>6. \A i \in DOMAIN cards : g[i] = IF from <= cards[i].n /\ cards[i].n <= b
            THEN [n |-> cards[i].n - 1, col |-> cards[i].col] ELSE cards[i]
    BY DEF g, Lowered
  <2>7. ASSUME NEW i \in DOMAIN cards
        PROVE  (IF g[i].n = b + 1 THEN [n |-> b, col |-> g[i].col] ELSE g[i])
               = IF from <= cards[i].n /\ cards[i].n <= b + 1
                 THEN [n |-> cards[i].n - 1, col |-> cards[i].col] ELSE cards[i]
    <3>1. cards[i].n \in Nat
      BY CardTypes
    <3>2. CASE from <= cards[i].n /\ cards[i].n <= b
      <4>1. g[i].n # b + 1 /\ g[i] = [n |-> cards[i].n - 1, col |-> cards[i].col]
            /\ cards[i].n <= b + 1
        BY <2>1, <2>4, <2>6, <3>1, <3>2
      <4> QED BY <4>1, <3>2
    <3>3. CASE cards[i].n = b + 1
      <4>1. g[i].n = b + 1 /\ g[i].col = cards[i].col /\ from <= cards[i].n
            /\ cards[i].n - 1 = b /\ cards[i].n <= b + 1
        BY <2>1, <2>4, <3>1, <3>3
      <4> QED BY <4>1
    <3>4. CASE ~(from <= cards[i].n /\ cards[i].n <= b + 1)
      <4>1. g[i].n # b + 1 /\ g[i] = cards[i]
        BY <2>1, <2>4, <2>6, <3>1, <3>4
      <4> QED BY <4>1, <3>4
    <3> QED BY <2>1, <3>1, <3>2, <3>3, <3>4
  <2>8. Renamed(g, b + 1, b) = Lowered(cards, from, b + 1)
    BY <2>4, <2>5, <2>7 DEF Lowered
  <2>9. from + m - 1 = b + 1 /\ from + m - 2 = b
    BY DEF b
  <2> QED BY <2>2, <2>8, <2>9
<1>4. RenumberedDown(cards, from, to) = f[M]
  BY DEF RenumberedDown, IsRenumberingDown
<1>5. IsRenumberingDown(h, cards, from, to)
  <2>1. \A m \in 0 .. M :
          h[m] = IF m = 0 THEN cards ELSE Renamed(h[m - 1], from + m - 1, from + m - 2)
    <3> TAKE m \in 0 .. M
    <3>1. m = 0 \/ m \in 1 .. M
      BY <1>1
    <3> HIDE DEF h
    <3> QED BY <3>1, <1>2, <1>3
  <2>2. h = [m \in 0 .. M |-> h[m]]
    OBVIOUS
  <2> HIDE DEF h
  <2>3. h = [m \in 0 .. M |-> IF m = 0 THEN cards ELSE Renamed(h[m - 1], from + m - 1, from + m - 2)]
    BY <2>1, <2>2
  <2> QED BY <2>3 DEF IsRenumberingDown
<1> HIDE DEF h
<1>6. IsRenumberingDown(f, cards, from, to)
  BY <1>5, Zenon
<1> HIDE DEF f
<1>7. f[0] = cards /\ \A m \in 1 .. M : f[m] = Renamed(f[m - 1], from + m - 1, from + m - 2)
  <2>1. M \in Nat /\ f = [m \in 0 .. M |-> IF m = 0 THEN cards
                                           ELSE Renamed(f[m - 1], from + m - 1, from + m - 2)]
    BY <1>1, <1>6 DEF IsRenumberingDown
  <2> HIDE DEF M
  <2>2. \A m \in 1 .. M : m \in 0 .. M /\ m # 0
    BY <2>1
  <2>3. 0 \in 0 .. M
    BY <2>1
  <2> DEFINE g == [m \in 0 .. M |-> IF m = 0 THEN cards
                                    ELSE Renamed(f[m - 1], from + m - 1, from + m - 2)]
  <2>4. g[0] = cards /\ \A m \in 1 .. M : g[m] = Renamed(f[m - 1], from + m - 1, from + m - 2)
    BY <2>2, <2>3
  <2> HIDE DEF g
  <2>5. f = g
    BY <2>1 DEF g
  <2> QED BY <2>4, <2>5, Zenon
<1>8. f[0] = h[0] /\ \A m \in 1 .. M : f[m - 1] = h[m - 1] => f[m] = h[m]
  BY <1>2, <1>3, <1>7
<1> HIDE DEF M
<1>9. \A m \in 0 .. M : f[m] = h[m]
  <2>1. Follows(f, h, M)
    BY <1>8 DEF Follows
  <2>2. Agree(f, h, M)
    BY <2>1, <1>1, RecursionUnique
  <2> QED BY <2>2 DEF Agree
<1>10. f[M] = h[M]
  BY <1>1, <1>9
<1>11. h[M] = Lowered(cards, from, to)
  <2>1. M \in 0 .. M /\ from + M - 1 = to
    BY <1>1 DEF M
  <2> QED BY <2>1 DEF h
<1> QED BY <1>4, <1>10, <1>11

\* The columns that cards describe, when each has its card.
LEMMA ColsOfIs ==
    ASSUME NEW h, h.cards \in Cards, Distinct(h.cards), NEW cols \in Seq(Column),
           h.fields = Len(cols),
           \A n \in 1 .. Len(cols) : \E i \in DOMAIN h.cards : h.cards[i].n = n /\ h.cards[i].col = cols[n]
    PROVE  ColsOf(h) = cols /\ \A n \in 1 .. h.fields : HasCard(h.cards, n)
<1>1. ASSUME NEW n \in 1 .. Len(cols)
      PROVE  HasCard(h.cards, n) /\ h.cards[FirstCard(h.cards, n)].col = cols[n]
  <2>1. PICK i \in DOMAIN h.cards : h.cards[i].n = n /\ h.cards[i].col = cols[n]
    OBVIOUS
  <2> QED BY <2>1, OnlyCard
<1>2. ColsOf(h) = [n \in 1 .. Len(cols) |-> cols[n]]
  BY <1>1 DEF ColsOf
<1>3. cols = [n \in 1 .. Len(cols) |-> cols[n]]
  OBVIOUS
<1> QED BY <1>1, <1>2, <1>3

\* The columns of a header in order, and its cards.
LEMMA HeaderCols ==
    ASSUME NEW h, HeaderOK(h)
    PROVE  /\ ColsOf(h) \in Seq(Column) /\ Len(ColsOf(h)) = h.fields
           /\ h.cards \in Cards /\ Distinct(h.cards)
           /\ \A i \in DOMAIN h.cards : h.cards[i].n \in 1 .. h.fields
           /\ \A i \in DOMAIN h.cards : h.cards[i].col = ColsOf(h)[h.cards[i].n]
           /\ \A n \in 1 .. h.fields : \E i \in DOMAIN h.cards :
                 h.cards[i].n = n /\ h.cards[i].col = ColsOf(h)[n]
           /\ h.naxis1 \in Nat
           /\ ViewOK(Viewed(h)) /\ Parses(h)
<1> DEFINE cards == h.cards
<1>1. /\ h.fields \in Nat /\ cards \in Seq([n : 1 .. h.fields, col : Column])
      /\ \A n \in 1 .. h.fields : HasCard(cards, n)
      /\ Distinct(cards) /\ h.naxis1 = RowWidth(ColsOf(h)) /\ h.naxis2 \in Nat
  BY Zenon DEF HeaderOK, Distinct
<1>2. /\ Len(cards) \in Nat /\ DOMAIN cards = 1 .. Len(cards)
      /\ \A i \in 1 .. Len(cards) : cards[i] \in [n : 1 .. h.fields, col : Column]
  BY <1>1, ElementOfSeq, LenProperties
<1>3. cards \in [1 .. Len(cards) -> [n : Nat, col : Column]]
  BY <1>1, <1>2
<1>4. cards \in Cards
  BY <1>2, <1>3, FunctionIsSeq DEF Cards
<1>5. ASSUME NEW n \in 1 .. h.fields
      PROVE  /\ FirstCard(cards, n) \in DOMAIN cards /\ cards[FirstCard(cards, n)].n = n
             /\ cards[FirstCard(cards, n)].col \in Column
  <2>1. PICK i \in DOMAIN cards : cards[i].n = n
    BY <1>1 DEF HasCard
  <2> QED BY <2>1, <1>1, <1>2, <1>4, OnlyCard
<1>6. ColsOf(h) = [n \in 1 .. h.fields |-> cards[FirstCard(cards, n)].col]
  BY DEF ColsOf
<1>7. ColsOf(h) \in [1 .. h.fields -> Column]
  BY <1>5, <1>6
<1>8. ColsOf(h) \in Seq(Column) /\ Len(ColsOf(h)) = h.fields
  BY <1>1, <1>7, FunctionIsSeq
<1>9. \A i \in DOMAIN cards : cards[i].n \in 1 .. h.fields
  BY <1>2
<1>10. ASSUME NEW i \in DOMAIN cards PROVE cards[i].col = ColsOf(h)[cards[i].n]
  BY <1>1, <1>4, <1>6, <1>9, OnlyCard
<1>11. \A n \in 1 .. h.fields : \E i \in DOMAIN cards : cards[i].n = n /\ cards[i].col = ColsOf(h)[n]
  BY <1>5, <1>6
<1>12. h.naxis1 \in Nat
  BY <1>1, <1>8, OffsetOrder
<1>13. ViewOK(Viewed(h))
  BY <1>1, <1>8 DEF ViewOK, Viewed
<1>14. Parses(h)
  BY <1>1 DEF Parses
<1> QED BY <1>1, <1>4, <1>8, <1>9, <1>10, <1>11, <1>12, <1>13, <1>14
-----------------------------------------------------------------------------
(* The header that each edit writes.                                         *)

\* The view of a header in order.
LEMMA ViewOf ==
    ASSUME NEW h, HeaderOK(h), NEW v, v = Viewed(h)
    PROVE  /\ v.cols = ColsOf(h) /\ v.naxis1 = h.naxis1 /\ v.naxis2 = h.naxis2
           /\ h.fields = Len(v.cols) /\ ViewOK(v)
           /\ v.cols \in Seq(Column) /\ Len(v.cols) \in Nat /\ DOMAIN v.cols = 1 .. Len(v.cols)
           /\ v.naxis1 \in Nat /\ v.naxis2 \in Nat
<1>1. ColsOf(h) \in Seq(Column) /\ Len(ColsOf(h)) = h.fields /\ h.naxis1 \in Nat /\ ViewOK(Viewed(h))
  BY HeaderCols
<1>2. h.naxis2 \in Nat
  BY DEF HeaderOK
<1>3. Len(ColsOf(h)) \in Nat /\ DOMAIN ColsOf(h) = 1 .. Len(ColsOf(h))
  BY <1>1, LenProperties
<1>4. v.cols = ColsOf(h) /\ v.naxis1 = h.naxis1 /\ v.naxis2 = h.naxis2
  BY DEF Viewed
<1> QED BY <1>1, <1>2, <1>3, <1>4

\* A card for each of the columns, and no others.
Describes(cards, cols) ==
    /\ cards \in Cards /\ Distinct(cards)
    /\ \A i \in DOMAIN cards : cards[i].n \in 1 .. Len(cols)
    /\ \A n \in 1 .. Len(cols) : \E i \in DOMAIN cards : cards[i].n = n /\ cards[i].col = cols[n]

\* A header from its parts.
LEMMA HeaderFrom ==
    ASSUME NEW cards, NEW cols \in Seq(Column), Describes(cards, cols), NEW rows \in Nat,
           NEW theap, theap \in {None, RowWidth(cols) * rows},
           NEW h, h = [cards |-> cards, fields |-> Len(cols), naxis1 |-> RowWidth(cols),
                       naxis2 |-> rows, theap |-> theap]
    PROVE  HeaderOK(h) /\ ColsOf(h) = cols
<1> USE DEF Describes
<1>1. h.cards = cards /\ h.fields = Len(cols) /\ h.naxis1 = RowWidth(cols)
      /\ h.naxis2 = rows /\ h.theap = theap
  OBVIOUS
<1>2. ColsOf(h) = cols /\ \A n \in 1 .. h.fields : HasCard(h.cards, n)
  BY <1>1, ColsOfIs
<1>3. Len(cols) \in Nat
  BY LenProperties
<1>4. cards \in Seq([n : 1 .. Len(cols), col : Column])
  <2>1. cards \in [1 .. Len(cards) -> [n : 1 .. Len(cols), col : Column]] /\ Len(cards) \in Nat
    <3>1. Len(cards) \in Nat /\ DOMAIN cards = 1 .. Len(cards)
          /\ \A i \in DOMAIN cards : cards[i] = [n |-> cards[i].n, col |-> cards[i].col]
                                     /\ cards[i].col \in Column
      BY CardTypes
    <3>2. cards = [i \in 1 .. Len(cards) |-> cards[i]]
      BY DEF Cards
    <3>3. \A i \in 1 .. Len(cards) : cards[i] \in [n : 1 .. Len(cols), col : Column]
      BY <3>1
    <3> QED BY <3>1, <3>2, <3>3
  <2> QED BY <2>1, FunctionIsSeq
<1>5. HeaderOK(h)
  BY <1>1, <1>2, <1>3, <1>4 DEF HeaderOK, Distinct
<1> QED BY <1>2, <1>5

\* insertRows and deleteRows change the number of rows only.
LEMMA WithRowsIs ==
    ASSUME TableOK(disk, view, data), hdr = disk, NEW n \in Nat
    PROVE  /\ HeaderOK(WithRows(n)) /\ ColsOf(WithRows(n)) = view.cols
           /\ WithRows(n).fields = Len(view.cols)
           /\ WithRows(n).naxis1 = view.naxis1 /\ WithRows(n).naxis2 = n
<1> DEFINE h == disk
           new == WithRows(n)
           t == Theap(h, view.naxis1, n)
<1>1. HeaderOK(h) /\ view = Viewed(h)
  BY DEF TableOK
<1>2. /\ h.cards \in Cards /\ Distinct(h.cards) /\ ColsOf(h) \in Seq(Column)
      /\ Len(ColsOf(h)) = h.fields /\ \A i \in DOMAIN h.cards : h.cards[i].n \in 1 .. h.fields
      /\ \A k \in 1 .. h.fields : \E i \in DOMAIN h.cards :
            h.cards[i].n = k /\ h.cards[i].col = ColsOf(h)[k]
  BY <1>1, HeaderCols
<1>3. h.naxis1 = RowWidth(ColsOf(h)) /\ view.naxis1 = h.naxis1 /\ view.cols = ColsOf(h)
      /\ h.fields = Len(view.cols)
  BY <1>1, ViewOf DEF HeaderOK
<1>4. h = [cards |-> h.cards, fields |-> h.fields, naxis1 |-> h.naxis1,
           naxis2 |-> h.naxis2, theap |-> h.theap]
  BY <1>1 DEF HeaderOK
<1>5. new = [hdr EXCEPT !.naxis2 = n, !.theap = t]
  BY DEF WithRows
<1>6. t \in {None, h.naxis1 * n}
  BY <1>3 DEF Theap
<1> HIDE DEF new, t
<1>7. new = [cards |-> h.cards, fields |-> h.fields, naxis1 |-> h.naxis1, naxis2 |-> n, theap |-> t]
  BY <1>4, <1>5
<1>8. HeaderOK(new) /\ ColsOf(new) = ColsOf(h)
  <2> DEFINE cols == ColsOf(h) cards == h.cards
  <2>1. Describes(cards, cols)
    BY <1>2 DEF Describes
  <2>2. cols \in Seq(Column) /\ t \in {None, RowWidth(cols) * n}
    BY <1>2, <1>3, <1>6
  <2>3. new = [cards |-> cards, fields |-> Len(cols), naxis1 |-> RowWidth(cols),
               naxis2 |-> n, theap |-> t]
    BY <1>2, <1>3, <1>7
  <2> HIDE DEF cols, cards
  <2>4. HeaderOK(new) /\ ColsOf(new) = cols
    BY <2>1, <2>2, <2>3, HeaderFrom
  <2> QED BY <2>4 DEF cols
<1> QED BY <1>3, <1>7, <1>8 DEF new

\* insertColumn: the cards from the new column on go up one, and the new one gets its own.
LEMMA WithColumnIs ==
    ASSUME TableOK(disk, view, data), hdr = disk,
           NEW at \in 1 .. Len(view.cols) + 1, NEW c \in Column
    PROVE  /\ HeaderOK(WithColumn(at, c)) /\ ColsOf(WithColumn(at, c)) = InsertAt(view.cols, at, c)
           /\ WithColumn(at, c).fields = Len(view.cols) + 1
           /\ WithColumn(at, c).naxis1 = view.naxis1 + Width[c]
           /\ WithColumn(at, c).naxis2 = view.naxis2
<1> DEFINE h == disk
           m == Len(view.cols)
           cols == InsertAt(view.cols, at, c)
           up == Lifted(h.cards, at - 1)
           e == [n |-> at, col |-> c]
           cards == Append(up, e)
           w == view.naxis1 + Width[c]
           t == Theap(h, w, view.naxis2)
           new == WithColumn(at, c)
<1>1. HeaderOK(h) /\ view = Viewed(h)
  BY DEF TableOK
<1>2. /\ h.cards \in Cards /\ Distinct(h.cards)
      /\ \A i \in DOMAIN h.cards : h.cards[i].n \in 1 .. h.fields
      /\ \A k \in 1 .. h.fields : \E i \in DOMAIN h.cards :
            h.cards[i].n = k /\ h.cards[i].col = ColsOf(h)[k]
  BY <1>1, HeaderCols
<1>3. /\ h.naxis1 = RowWidth(ColsOf(h)) /\ view.naxis1 = h.naxis1 /\ view.cols = ColsOf(h)
      /\ view.naxis2 = h.naxis2 /\ h.fields = m /\ m \in Nat /\ view.cols \in Seq(Column)
      /\ view.naxis2 \in Nat
  BY <1>1, ViewOf DEF HeaderOK
<1>4. h = [cards |-> h.cards, fields |-> h.fields, naxis1 |-> h.naxis1,
           naxis2 |-> h.naxis2, theap |-> h.theap]
  BY <1>1 DEF HeaderOK
<1>5. /\ cols \in Seq(Column) /\ Len(cols) = m + 1 /\ RowWidth(cols) = w
  BY <1>3, OffsetInsert
<1>6. \A j \in 1 .. m + 1 :
        cols[j] = IF j < at THEN view.cols[j] ELSE IF j = at THEN c ELSE view.cols[j - 1]
  BY <1>3, InsertFacts
<1>7. RenumberedUp(h.cards, at, m) = up
  <2>1. at \in Nat \ {0} /\ at <= m + 1 /\ \A i \in DOMAIN h.cards : h.cards[i].n <= m
    BY <1>2, <1>3
  <2> QED BY <2>1, <1>2, <1>3, RenumberedUpIs
<1>8. Shifted(at) = [h EXCEPT !.cards = up]
  BY <1>7 DEF Shifted
<1>9. /\ up \in Cards /\ Distinct(up) /\ Len(up) = Len(h.cards) /\ DOMAIN up = DOMAIN h.cards
      /\ \A i \in DOMAIN h.cards :
           /\ up[i].n = IF h.cards[i].n > at - 1 THEN h.cards[i].n + 1 ELSE h.cards[i].n
           /\ up[i].col = h.cards[i].col
  <2>1. at - 1 \in Nat
    BY <1>3
  <2> QED BY <2>1, <1>2, LiftedFacts
<1> HIDE DEF cols, up, h, m, w
<1>10. \A i \in DOMAIN up : up[i].n # at
  BY <1>2, <1>3, <1>9
<1>11. WithCard(up, at, c) = cards
  BY <1>10 DEF WithCard, HasCard
<1>12. new = [h EXCEPT !.cards = cards, !.fields = m + 1, !.naxis1 = w, !.theap = t]
  <2>1. [Shifted(at) EXCEPT !.cards = WithCard(@, at, c)] = [h EXCEPT !.cards = cards]
    BY <1>4, <1>8, <1>11
  <2>2. Theap([h EXCEPT !.cards = cards], w, view.naxis2) = t
    BY <1>4 DEF Theap
  <2>3. new = Reshaped([h EXCEPT !.cards = cards], m + 1, w)
    BY <2>1 DEF WithColumn, m, w
  <2> QED BY <1>4, <2>2, <2>3 DEF Reshaped
<1>13. new = [cards |-> cards, fields |-> m + 1, naxis1 |-> w, naxis2 |-> view.naxis2, theap |-> t]
  BY <1>3, <1>4, <1>12
<1>14. t \in {None, w * view.naxis2}
  BY DEF Theap
<1>15. e \in [n : Nat, col : Column] /\ e.n = at /\ e.col = c
  BY <1>3
<1> HIDE DEF t, new, e
<1>16. /\ cards \in Cards /\ Len(cards) = Len(up) + 1 /\ Len(up) \in Nat
       /\ DOMAIN up = 1 .. Len(up) /\ DOMAIN cards = 1 .. Len(up) + 1
       /\ \A i \in 1 .. Len(up) : cards[i] = up[i]
       /\ cards[Len(up) + 1] = e
  BY <1>9, <1>15, LenProperties, AppendProperties DEF Cards
<1> HIDE DEF cards
<1>17. Distinct(cards)
  <2>1. ASSUME NEW i \in DOMAIN cards, NEW j \in DOMAIN cards, cards[i].n = cards[j].n PROVE i = j
    <3>1. (i \in DOMAIN up \/ i = Len(up) + 1) /\ (j \in DOMAIN up \/ j = Len(up) + 1)
      BY <1>16
    <3>2. CASE i \in DOMAIN up /\ j \in DOMAIN up
      BY <3>2, <1>9, <1>16, <2>1 DEF Distinct
    <3>3. CASE i = Len(up) + 1 /\ j \in DOMAIN up
      BY <3>3, <1>10, <1>15, <1>16, <2>1
    <3>4. CASE i \in DOMAIN up /\ j = Len(up) + 1
      BY <3>4, <1>10, <1>15, <1>16, <2>1
    <3> QED BY <3>1, <3>2, <3>3, <3>4
  <2> QED BY <2>1 DEF Distinct
<1>18. ASSUME NEW i \in DOMAIN cards PROVE cards[i].n \in 1 .. m + 1
  <2>1. CASE i \in DOMAIN up
    <3>1. h.cards[i].n \in 1 .. m /\ cards[i] = up[i]
      BY <2>1, <1>2, <1>3, <1>9, <1>16
    <3> QED BY <2>1, <3>1, <1>3, <1>9
  <2>2. CASE i = Len(up) + 1
    BY <2>2, <1>3, <1>15, <1>16 DEF m
  <2> QED BY <1>16, <2>1, <2>2
<1>19. ASSUME NEW n \in 1 .. m + 1
       PROVE  \E i \in DOMAIN cards : cards[i].n = n /\ cards[i].col = cols[n]
  <2>1. CASE n < at
    <3>1. n \in 1 .. m
      BY <2>1, <1>3 DEF m
    <3>2. PICK i \in DOMAIN h.cards : h.cards[i].n = n /\ h.cards[i].col = view.cols[n]
      BY <3>1, <1>2, <1>3
    <3>3. up[i].n = n /\ up[i].col = view.cols[n]
      BY <3>1, <3>2, <1>9, <2>1
    <3> QED BY <3>2, <3>3, <1>6, <1>9, <1>16, <2>1
  <2>2. CASE n = at
    BY <2>2, <1>6, <1>15, <1>16
  <2>3. CASE n > at
    <3>1. n - 1 \in 1 .. m /\ n - 1 > at - 1
      BY <2>3, <1>3
    <3>2. PICK i \in DOMAIN h.cards : h.cards[i].n = n - 1 /\ h.cards[i].col = view.cols[n - 1]
      BY <3>1, <1>2, <1>3
    <3>3. up[i].n = n /\ up[i].col = view.cols[n - 1]
      BY <3>1, <3>2, <1>9, <2>3
    <3>4. cols[n] = view.cols[n - 1]
      BY <1>6, <2>3
    <3> QED BY <3>2, <3>3, <3>4, <1>9, <1>16
  <2> QED BY <2>1, <2>2, <2>3, <1>3
<1>20. HeaderOK(new) /\ ColsOf(new) = cols
  <2>1. Describes(cards, cols)
    BY <1>5, <1>16, <1>17, <1>18, <1>19 DEF Describes
  <2> DEFINE rows == view.naxis2
  <2>2. rows \in Nat /\ t \in {None, RowWidth(cols) * rows}
    BY <1>3, <1>5, <1>14
  <2>3. new = [cards |-> cards, fields |-> Len(cols), naxis1 |-> RowWidth(cols),
               naxis2 |-> rows, theap |-> t]
    BY <1>5, <1>13
  <2> HIDE DEF rows
  <2> QED BY <2>1, <2>2, <2>3, <1>5, HeaderFrom
<1>21. new.fields = m + 1 /\ new.naxis1 = w /\ new.naxis2 = view.naxis2
  BY <1>13
<1> QED BY <1>20, <1>21 DEF new, cols, w, m

\* deleteColumn: its card goes, and the cards of the columns after it go down one.
LEMMA WithoutColumnIs ==
    ASSUME TableOK(disk, view, data), hdr = disk, NEW at \in 1 .. Len(view.cols)
    PROVE  /\ HeaderOK(WithoutColumn(at)) /\ ColsOf(WithoutColumn(at)) = RemoveAt(view.cols, at)
           /\ WithoutColumn(at).fields = Len(view.cols) - 1
           /\ WithoutColumn(at).naxis1 = view.naxis1 - Width[view.cols[at]]
           /\ WithoutColumn(at).naxis2 = view.naxis2
<1> DEFINE h == disk
           m == Len(view.cols)
           cols == RemoveAt(view.cols, at)
           less == Dropped(h.cards, at)
           cards == Lowered(less, at + 1, m)
           w == view.naxis1 - Width[view.cols[at]]
           t == Theap(h, w, view.naxis2)
           rows == view.naxis2
           new == WithoutColumn(at)
<1>1. HeaderOK(h) /\ view = Viewed(h)
  BY DEF TableOK
<1>2. /\ h.cards \in Cards /\ Distinct(h.cards)
      /\ \A i \in DOMAIN h.cards : h.cards[i].n \in 1 .. h.fields
      /\ \A k \in 1 .. h.fields : \E i \in DOMAIN h.cards :
            h.cards[i].n = k /\ h.cards[i].col = ColsOf(h)[k]
  BY <1>1, HeaderCols
<1>3. /\ h.naxis1 = RowWidth(ColsOf(h)) /\ view.naxis1 = h.naxis1 /\ view.cols = ColsOf(h)
      /\ rows = h.naxis2 /\ h.fields = m /\ m \in Nat /\ view.cols \in Seq(Column)
      /\ rows \in Nat
  BY <1>1, ViewOf DEF HeaderOK
<1>4. h = [cards |-> h.cards, fields |-> h.fields, naxis1 |-> h.naxis1,
           naxis2 |-> h.naxis2, theap |-> h.theap]
  BY <1>1 DEF HeaderOK
<1>5. /\ cols \in Seq(Column) /\ Len(cols) = m - 1 /\ RowWidth(cols) = w
  BY <1>3, OffsetRemove
<1>6. \A j \in 1 .. m - 1 : cols[j] = IF j < at THEN view.cols[j] ELSE view.cols[j + 1]
  BY <1>3, RemoveFacts
<1>7. PICK k \in DOMAIN h.cards : h.cards[k].n = at /\ h.cards[k].col = view.cols[at]
  BY <1>2, <1>3
<1>8. less = RemoveAt(h.cards, k) /\ \A i \in DOMAIN h.cards : h.cards[i].n = at => i = k
  BY <1>2, <1>7, OnlyCard DEF Dropped, Distinct
<1>9. /\ less \in Cards /\ Len(less) = Len(h.cards) - 1 /\ Len(h.cards) \in Nat
      /\ k \in 1 .. Len(h.cards) /\ DOMAIN h.cards = 1 .. Len(h.cards)
      /\ DOMAIN less = 1 .. Len(h.cards) - 1
      /\ \A i \in 1 .. Len(h.cards) - 1 :
            less[i] = IF i < k THEN h.cards[i] ELSE h.cards[i + 1]
  <2>1. Len(h.cards) \in Nat /\ DOMAIN h.cards = 1 .. Len(h.cards)
    BY <1>2, CardTypes
  <2>2. k \in 1 .. Len(h.cards)
    BY <2>1, <1>7
  <2>3. /\ less \in Cards /\ Len(less) = Len(h.cards) - 1
        /\ \A i \in 1 .. Len(h.cards) - 1 :
              less[i] = IF i < k THEN h.cards[i] ELSE h.cards[i + 1]
    <3> DEFINE cs == h.cards S == [n : Nat, col : Column]
    <3>1. cs \in Seq(S)
      BY <1>2 DEF Cards
    <3> HIDE DEF cs, S
    <3>2. /\ RemoveAt(cs, k) \in Seq(S) /\ Len(RemoveAt(cs, k)) = Len(cs) - 1
          /\ \A i \in 1 .. Len(cs) - 1 : RemoveAt(cs, k)[i] = IF i < k THEN cs[i] ELSE cs[i + 1]
      <4>1. k \in 1 .. Len(cs)
        BY <2>2 DEF cs
      <4> QED BY <3>1, <4>1, RemoveFacts
    <3> QED BY <3>2, <1>8 DEF cs, S, Cards
  <2>4. DOMAIN less = 1 .. Len(less)
    BY <2>3, CardTypes
  <2> QED BY <2>1, <2>2, <2>3, <2>4
<1> HIDE DEF cols, less, h, m, w
<1>10. \A i \in DOMAIN less : \E j \in DOMAIN h.cards : less[i] = h.cards[j] /\ j # k
                                   /\ (i < k => j = i) /\ (~(i < k) => j = i + 1)
  <2> TAKE i \in DOMAIN less
  <2>1. CASE i < k
    <3>1. i \in DOMAIN h.cards /\ i # k /\ less[i] = h.cards[i]
      BY <1>9, <2>1
    <3> QED BY <2>1, <3>1
  <2>2. CASE ~(i < k)
    <3>1. i + 1 \in DOMAIN h.cards /\ i + 1 # k /\ less[i] = h.cards[i + 1]
      BY <1>9, <2>2
    <3> QED BY <2>2, <3>1
  <2> QED BY <2>1, <2>2
<1>11. ASSUME NEW j \in DOMAIN h.cards, j # k
       PROVE  \E i \in DOMAIN less : less[i] = h.cards[j]
  <2>1. CASE j < k
    <3>1. j \in DOMAIN less
      BY <2>1, <1>9
    <3> QED BY <3>1, <2>1, <1>9
  <2>2. CASE j > k
    <3>1. j - 1 \in DOMAIN less /\ ~(j - 1 < k) /\ j - 1 + 1 = j
      BY <2>2, <1>9
    <3> QED BY <3>1, <1>9
  <2> QED BY <2>1, <2>2, <1>9, <1>11
<1>12. Distinct(less)
  <2>1. ASSUME NEW i \in DOMAIN less, NEW j \in DOMAIN less, less[i].n = less[j].n PROVE i = j
    <3>1. PICK a \in DOMAIN h.cards : less[i] = h.cards[a] /\ (i < k => a = i) /\ (~(i < k) => a = i + 1)
      BY <1>10
    <3>2. PICK b \in DOMAIN h.cards : less[j] = h.cards[b] /\ (j < k => b = j) /\ (~(j < k) => b = j + 1)
      BY <1>10
    <3>3. a = b
      BY <3>1, <3>2, <2>1, <1>2 DEF Distinct
    <3>4. i \in Nat /\ j \in Nat /\ k \in Nat
      BY <1>9
    <3> QED BY <3>1, <3>2, <3>3, <3>4
  <2> QED BY <2>1 DEF Distinct
<1>13. \A i \in DOMAIN less : less[i].n \in 1 .. m /\ less[i].n # at
  BY <1>2, <1>3, <1>8, <1>10
<1>14. RenumberedDown(less, at + 1, m) = cards
  <2>1. /\ at + 1 \in Nat \ {0, 1} /\ at + 1 <= m + 1 /\ m \in Nat
        /\ \A i \in DOMAIN less : less[i].n # (at + 1) - 1
    BY <1>3, <1>13 DEF m
  <2> QED BY <2>1, <1>9, <1>12, RenumberedDownIs
<1>15. /\ cards \in Cards /\ Distinct(cards) /\ DOMAIN cards = DOMAIN less
       /\ \A i \in DOMAIN less :
            /\ cards[i].n = IF at + 1 <= less[i].n /\ less[i].n <= m THEN less[i].n - 1 ELSE less[i].n
            /\ cards[i].col = less[i].col
  <2>1. at + 1 \in Nat \ {0} /\ m \in Nat /\ \A i \in DOMAIN less : less[i].n # (at + 1) - 1
    BY <1>3, <1>13 DEF m
  <2> QED BY <2>1, <1>9, <1>12, LoweredFacts
<1> HIDE DEF cards
<1>16. new = [h EXCEPT !.cards = cards, !.fields = m - 1, !.naxis1 = w, !.theap = t]
  <2>1. [hdr EXCEPT !.cards = RenumberedDown(Dropped(@, at), at + 1, m)] = [h EXCEPT !.cards = cards]
    BY <1>4, <1>14 DEF less, h
  <2>2. Theap([h EXCEPT !.cards = cards], w, rows) = t
    BY <1>4 DEF Theap
  <2>3. new = Reshaped([h EXCEPT !.cards = cards], m - 1, w)
    BY <2>1 DEF WithoutColumn, m, w
  <2> QED BY <1>4, <2>2, <2>3 DEF Reshaped
<1>17. new = [cards |-> cards, fields |-> m - 1, naxis1 |-> w, naxis2 |-> rows, theap |-> t]
  BY <1>3, <1>4, <1>16
<1>18. t \in {None, w * rows}
  BY DEF Theap
<1> HIDE DEF t, new
<1>19. ASSUME NEW i \in DOMAIN cards PROVE cards[i].n \in 1 .. m - 1
  <2>1. less[i].n \in 1 .. m /\ less[i].n # at
    BY <1>13, <1>15
  <2>2. at \in 1 .. m /\ m \in Nat
    BY <1>3 DEF m
  <2> QED BY <1>15, <2>1, <2>2
<1>20. ASSUME NEW n \in 1 .. m - 1
       PROVE  \E i \in DOMAIN cards : cards[i].n = n /\ cards[i].col = cols[n]
  <2> at \in 1 .. m /\ m \in Nat
    BY <1>3 DEF m
  <2>1. CASE n < at
    <3>1. n \in 1 .. m
      BY <2>1
    <3>2. PICK j \in DOMAIN h.cards : h.cards[j].n = n /\ h.cards[j].col = view.cols[n]
      BY <3>1, <1>2, <1>3
    <3>3. PICK i \in DOMAIN less : less[i] = h.cards[j]
      BY <3>2, <1>7, <1>11, <2>1
    <3>4. cards[i].n = n /\ cards[i].col = view.cols[n]
      BY <3>2, <3>3, <1>15, <2>1
    <3> QED BY <3>3, <3>4, <1>6, <1>15, <2>1
  <2>2. CASE ~(n < at)
    <3>1. n + 1 \in 1 .. m /\ n + 1 # at /\ at + 1 <= n + 1 /\ n + 1 <= m /\ n + 1 - 1 = n
      BY <2>2
    <3>2. PICK j \in DOMAIN h.cards : h.cards[j].n = n + 1 /\ h.cards[j].col = view.cols[n + 1]
      BY <3>1, <1>2, <1>3
    <3>3. PICK i \in DOMAIN less : less[i] = h.cards[j]
      BY <3>1, <3>2, <1>7, <1>11
    <3>4. cards[i].n = n /\ cards[i].col = view.cols[n + 1]
      BY <3>1, <3>2, <3>3, <1>15
    <3>5. cols[n] = view.cols[n + 1]
      BY <1>6, <2>2
    <3> QED BY <3>3, <3>4, <3>5, <1>15
  <2> QED BY <2>1, <2>2
<1>21. HeaderOK(new) /\ ColsOf(new) = cols
  <2>1. Describes(cards, cols)
    BY <1>5, <1>15, <1>19, <1>20 DEF Describes
  <2>2. rows \in Nat /\ t \in {None, RowWidth(cols) * rows}
    BY <1>3, <1>5, <1>18
  <2>3. new = [cards |-> cards, fields |-> Len(cols), naxis1 |-> RowWidth(cols),
               naxis2 |-> rows, theap |-> t]
    BY <1>5, <1>17
  <2> HIDE DEF rows
  <2> QED BY <2>1, <2>2, <2>3, <1>5, HeaderFrom
<1>22. new.fields = m - 1 /\ new.naxis1 = w /\ new.naxis2 = rows
  BY <1>17
<1> QED BY <1>21, <1>22 DEF new, cols, w, m
-----------------------------------------------------------------------------
(* One write of a loop.                                                      *)

\* The write w of loop s, after n of its units, is made of cells the loop has to write, is
\* of what it has not read yet, and does not touch what it is still to read after it.
Fits(s, v, n, w) ==
    /\ w.units \in Nat \ {0} /\ n + w.units <= s.units /\ w.off \in Nat /\ w.len \in Nat
    /\ First(s, v, n) \in Nat /\ First(s, v, n) <= w.off /\ w.off + w.len <= Past(s, v, n)
    /\ First(s, v, n) <= First(s, v, n + w.units) /\ Past(s, v, n + w.units) <= Past(s, v, n)
    /\ SrcFirst(s, v, n) <= SrcFirst(s, v, n + w.units)
    /\ SrcPast(s, v, n + w.units) <= SrcPast(s, v, n)
    /\ \A y \in Nat : First(s, v, n) <= y /\ y < Past(s, v, n) =>
          \/ w.off <= y /\ y < w.off + w.len
          \/ /\ n + w.units < s.units
             /\ First(s, v, n + w.units) <= y /\ y < Past(s, v, n + w.units)
    /\ \A x \in Nat : SrcFirst(s, v, n + w.units) <= x /\ x < SrcPast(s, v, n + w.units) =>
          ~(w.off <= x /\ x < w.off + w.len)
Brings(s, v, n, w, d) ==
    \A y \in Nat : w.off <= y /\ y < w.off + w.len =>
        /\ w.cells[y - w.off] = Sourced(d, From(s, v, y))
        /\ \/ From(s, v, y) = -1
           \/ /\ From(s, v, y) \in Nat
              /\ SrcFirst(s, v, n) <= From(s, v, y) /\ From(s, v, y) < SrcPast(s, v, n)

\* The smaller of two positive numbers.
LEMMA SmallerFacts ==
    ASSUME NEW a \in Nat \ {0}, NEW b \in Nat \ {0}
    PROVE  Smaller(a, b) \in Nat \ {0} /\ Smaller(a, b) <= a /\ Smaller(a, b) <= b
BY DEF Smaller

\* moveRegion: from the end if it moves up, from the start if it moves down.
LEMMA MoveFits ==
    ASSUME NEW s, NEW v, NEW n \in Nat, s.k = "move", s.src \in Nat, s.dst \in Nat,
           s.units \in Nat, n < s.units, NEW w, w = MoveWrite(s, n)
    PROVE  Fits(s, v, n, w) /\ Brings(s, v, n, w, data)
<1> DEFINE src == s.src dst == s.dst U == s.units
           m == Smaller(Chunk, U - n)
           o == IF dst > src THEN U - n - m ELSE n
<1>1. m \in Nat \ {0} /\ n + m <= U
  <2>1. U - n \in Nat \ {0} /\ Chunk \in Nat \ {0}
    BY BinTableAssumption
  <2> QED BY <2>1, SmallerFacts
<1>2. w = [off |-> dst + o, len |-> m, units |-> m, cells |-> Slice(data, src + o, m)]
  BY DEF MoveWrite
<1>3. w.off = dst + o /\ w.len = m /\ w.units = m /\ w.cells = Slice(data, src + o, m)
  BY <1>2
<1>4. /\ \A i : First(s, v, i) = IF dst > src THEN dst ELSE dst + i
      /\ \A i : Past(s, v, i) = IF dst > src THEN dst + U - i ELSE dst + U
      /\ \A i : SrcFirst(s, v, i) = IF dst > src THEN src ELSE src + i
      /\ \A i : SrcPast(s, v, i) = IF dst > src THEN src + U - i ELSE src + U
      /\ \A y : From(s, v, y) = y - dst + src
  BY DEF First, Past, SrcFirst, SrcPast, From
<1>5. src \in Nat /\ dst \in Nat /\ U \in Nat /\ n < U /\ s.units = U
  OBVIOUS
<1> HIDE DEF src, dst, U, m
<1>6. Fits(s, v, n, w)
  BY <1>1, <1>3, <1>4, <1>5 DEF Fits
<1>7. ASSUME NEW y \in Nat, w.off <= y, y < w.off + w.len
      PROVE  /\ w.cells[y - w.off] = Sourced(data, From(s, v, y))
             /\ From(s, v, y) \in Nat
             /\ SrcFirst(s, v, n) <= From(s, v, y) /\ From(s, v, y) < SrcPast(s, v, n)
  <2>1. y - w.off \in 0 .. m - 1
    BY <1>1, <1>3, <1>5, <1>7
  <2>2. src + o + (y - w.off) = y - dst + src
    BY <1>1, <1>3, <1>5
  <2>3. w.cells[y - w.off] = data.at[y - dst + src]
    BY <1>3, <2>1, <2>2 DEF Slice
  <2>4. y - dst + src \in Nat
    BY <1>1, <1>3, <1>5, <1>7
  <2> QED BY <1>1, <1>3, <1>4, <1>5, <1>7, <2>3, <2>4 DEF Sourced
<1> QED BY <1>6, <1>7 DEF Brings

\* zeroBytes.
LEMMA ZeroFits ==
    ASSUME NEW s, NEW v, NEW n \in Nat, s.k = "zero", s.off \in Nat,
           s.units \in Nat, n < s.units, NEW w, w = ZeroWrite(s, n)
    PROVE  Fits(s, v, n, w) /\ Brings(s, v, n, w, data)
<1> DEFINE off == s.off U == s.units
           m == Smaller(Chunk, U - n)
<1>1. m \in Nat \ {0} /\ n + m <= U
  <2>1. U - n \in Nat \ {0} /\ Chunk \in Nat \ {0}
    BY BinTableAssumption
  <2> QED BY <2>1, SmallerFacts
<1>2. w = [off |-> off + n, len |-> m, units |-> m, cells |-> [k \in 0 .. m - 1 |-> Zero]]
  BY DEF ZeroWrite
<1>3. w.off = off + n /\ w.len = m /\ w.units = m /\ w.cells = [k \in 0 .. m - 1 |-> Zero]
  BY <1>2
<1>4. /\ \A i : First(s, v, i) = off + i
      /\ \A i : Past(s, v, i) = off + U
      /\ \A i : SrcFirst(s, v, i) = 0
      /\ \A i : SrcPast(s, v, i) = 0
      /\ \A y : From(s, v, y) = -1
  BY DEF First, Past, SrcFirst, SrcPast, From
<1>5. off \in Nat /\ U \in Nat /\ n < U /\ s.units = U
  OBVIOUS
<1> HIDE DEF off, U, m
<1>6. Fits(s, v, n, w)
  BY <1>1, <1>3, <1>4, <1>5 DEF Fits
<1>7. ASSUME NEW y \in Nat, w.off <= y, y < w.off + w.len
      PROVE  w.cells[y - w.off] = Sourced(data, From(s, v, y)) /\ From(s, v, y) = -1
  <2>1. y - w.off \in 0 .. m - 1
    BY <1>1, <1>3, <1>5, <1>7
  <2> QED BY <1>3, <1>4, <2>1 DEF Sourced
<1> QED BY <1>6, <1>7 DEF Brings

\* restrideRows: from the last row if they get wider, from the first otherwise.
LEMMA RestrideFits ==
    ASSUME NEW n \in Nat, NEW s, s.k = "restride", NEW v, v = view, v.naxis1 \in Nat,
           StepOK(s, v), n < s.units, NEW w, w = RestrideWrite(s, n)
    PROVE  Fits(s, v, n, w) /\ Brings(s, v, n, w, data)
<1> DEFINE old == v.naxis1 W == s.w U == s.units at == s.at
           new == old + W
           row == IF W > 0 THEN U - 1 - n ELSE n
<1>1. /\ U \in Nat \ {0} /\ at \in 0 .. old /\ W \in Int /\ (W < 0 => at - W <= old)
      /\ s.units = U /\ n < U /\ old \in Nat /\ n \in Nat
  BY DEF StepOK
<1>2. new \in Nat /\ row \in Nat /\ row < U
  BY <1>1
<1>3. w = [off |-> row * new, len |-> new, units |-> 1,
           cells |-> [k \in 0 .. new - 1 |->
                         IF k < at THEN data.at[row * old + k]
                         ELSE IF k < at + W THEN Zero ELSE data.at[row * old + k - W]]]
  BY DEF RestrideWrite
<1>4. /\ w.off = row * new /\ w.len = new /\ w.units = 1
      /\ \A k \in 0 .. new - 1 : w.cells[k] = IF k < at THEN data.at[row * old + k]
            ELSE IF k < at + W THEN Zero ELSE data.at[row * old + k - W]
  BY <1>3
<1>5. /\ \A i : First(s, v, i) = IF W > 0 THEN 0 ELSE i * new
      /\ \A i : Past(s, v, i) = IF W > 0 THEN (U - i) * new ELSE U * new
      /\ \A i : SrcFirst(s, v, i) = IF W > 0 THEN 0 ELSE i * old
      /\ \A i : SrcPast(s, v, i) = IF W > 0 THEN (U - i) * old ELSE U * old
      /\ \A y : From(s, v, y) = RowOrigin(at, W, old, y)
  BY DEF First, Past, SrcFirst, SrcPast, From
<1>6. /\ W > 0 => U - n = row + 1 /\ U - (n + 1) = row
      /\ ~(W > 0) => n = row /\ row + 1 \in Nat /\ row + 1 <= U
      /\ (n + 1 < U \/ n + 1 = U)
  BY <1>1
<1> HIDE DEF old, W, U, at, new, row
<1>7. /\ row * new \in Nat /\ row * old \in Nat /\ U * new \in Nat /\ U * old \in Nat
      /\ (row + 1) * new = row * new + new /\ (row + 1) * old = row * old + old
      /\ row * new + new <= U * new /\ row * old + old <= U * old
      /\ 0 * new = 0 /\ 0 * old = 0
  BY <1>1, <1>2, Times, TimesOrder
<1>8. W > 0 => row * old <= row * new /\ old <= new
  <2>1. ASSUME W > 0 PROVE row * old <= row * new
    <3>1. old <= new
      BY <1>1, <2>1 DEF new
    <3>2. old * row <= new * row /\ old * row = row * old /\ new * row = row * new
      BY <3>1, <1>1, <1>2, Times, TimesOrder
    <3> QED BY <3>2
  <2> QED BY <2>1, <1>1 DEF new
<1>9. ~(W > 0) => row * new + new <= row * old + old
  <2>1. ASSUME ~(W > 0) PROVE (row + 1) * new <= (row + 1) * old
    <3>1. new <= old /\ row + 1 \in Nat
      BY <1>1, <1>2, <2>1 DEF new
    <3>2. /\ new * (row + 1) <= old * (row + 1)
          /\ new * (row + 1) = (row + 1) * new /\ old * (row + 1) = (row + 1) * old
      BY <3>1, <1>1, <1>2, Times, TimesOrder
    <3> QED BY <3>2
  <2> QED BY <2>1, <1>7
<1> DEFINE rn == row * new ro == row * old Un == U * new Uo == U * old
<1>10. /\ First(s, v, n) = (IF W > 0 THEN 0 ELSE rn)
       /\ First(s, v, n + 1) = (IF W > 0 THEN 0 ELSE rn + new)
       /\ Past(s, v, n) = (IF W > 0 THEN rn + new ELSE Un)
       /\ Past(s, v, n + 1) = (IF W > 0 THEN rn ELSE Un)
       /\ SrcFirst(s, v, n) = (IF W > 0 THEN 0 ELSE ro)
       /\ SrcFirst(s, v, n + 1) = (IF W > 0 THEN 0 ELSE ro + old)
       /\ SrcPast(s, v, n) = (IF W > 0 THEN ro + old ELSE Uo)
       /\ SrcPast(s, v, n + 1) = (IF W > 0 THEN ro ELSE Uo)
  BY <1>5, <1>6, <1>7
<1>11. n + 1 = U /\ ~(W > 0) => rn + new = Un
  BY <1>6, <1>7
<1>12. n + 1 = U /\ W > 0 => rn = 0
  BY <1>1, <1>6, <1>7
<1>13. /\ rn \in Nat /\ ro \in Nat /\ Un \in Nat /\ Uo \in Nat /\ rn + new <= Un
       /\ ro + old <= Uo /\ (W > 0 => ro <= rn) /\ (~(W > 0) => rn + new <= ro + old)
       /\ w.off = rn /\ w.len = new /\ w.units = 1
  BY <1>4, <1>7, <1>8, <1>9
<1> HIDE DEF rn, ro, Un, Uo
<1>14. Fits(s, v, n, w)
  BY <1>1, <1>2, <1>6, <1>10, <1>11, <1>12, <1>13 DEF Fits
<1>15. ASSUME NEW y \in Nat, w.off <= y, y < w.off + w.len
       PROVE  /\ w.cells[y - w.off] = Sourced(data, From(s, v, y))
              /\ \/ From(s, v, y) = -1
                 \/ /\ From(s, v, y) \in Nat
                    /\ SrcFirst(s, v, n) <= From(s, v, y) /\ From(s, v, y) < SrcPast(s, v, n)
  <2> DEFINE k == y - w.off
  <2>1. k \in 0 .. new - 1 /\ y = rn + k /\ new \in Nat \ {0}
    BY <1>2, <1>13, <1>15
  <2> HIDE DEF k
  <2>2. y \div new = row /\ y % new = k
    BY <2>1, <1>2, RowPlace DEF rn
  <2>3. From(s, v, y) = IF k < at THEN ro + k ELSE IF k < at + W THEN -1 ELSE ro + k - W
    BY <1>5, <2>2 DEF RowOrigin, new, ro
  <2>4. w.cells[k] = IF k < at THEN data.at[ro + k]
                     ELSE IF k < at + W THEN Zero ELSE data.at[ro + k - W]
    BY <1>4, <2>1 DEF ro
  <2>5. k < at => ro + k \in Nat /\ ro <= ro + k /\ ro + k < ro + old
    BY <1>1, <1>13, <2>1
  <2>6. ~(k < at) /\ ~(k < at + W) =>
            ro + k - W \in Nat /\ ro <= ro + k - W /\ ro + k - W < ro + old
    BY <1>1, <1>13, <2>1 DEF new
  <2>7. w.cells[k] = Sourced(data, From(s, v, y))
    BY <2>3, <2>4, <2>5, <2>6 DEF Sourced
  <2>8. \A x : x \in Nat /\ ro <= x /\ x < ro + old => SrcFirst(s, v, n) <= x /\ x < SrcPast(s, v, n)
    BY <1>1, <1>10, <1>13
  <2> QED BY <2>3, <2>5, <2>6, <2>7, <2>8 DEF k
<1> QED BY <1>14, <1>15 DEF Brings

\* Any of them.
LEMMA LoopFits ==
    ASSUME NEW n \in Nat, NEW s, IsLoop(s), NEW v, v = view, v.naxis1 \in Nat,
           StepOK(s, v), n < s.units, NEW w, w = LoopWrite(s, n)
    PROVE  Fits(s, v, n, w) /\ Brings(s, v, n, w, data)
<1>1. CASE s.k = "move"
  <2>1. w = MoveWrite(s, n) /\ s.src \in Nat /\ s.dst \in Nat /\ s.units \in Nat
    BY <1>1 DEF LoopWrite, StepOK
  <2> QED BY <1>1, <2>1, MoveFits
<1>2. CASE s.k = "zero"
  <2>1. w = ZeroWrite(s, n) /\ s.off \in Nat /\ s.units \in Nat
    BY <1>2 DEF LoopWrite, StepOK
  <2> QED BY <1>2, <2>1, ZeroFits
<1>3. CASE s.k = "restride"
  <2>1. w = RestrideWrite(s, n)
    BY <1>3 DEF LoopWrite
  <2> QED BY <1>3, <2>1, RestrideFits
<1> QED BY <1>1, <1>2, <1>3 DEF IsLoop
-----------------------------------------------------------------------------
(* The pending steps, and one of them carried out.                           *)

\* A write inside the data unit changes the cells it writes and no others.
LEMMA WrittenFacts ==
    ASSUME NEW d, DataOK(d), NEW off \in Nat, NEW n \in Nat, off + n <= d.size, NEW c
    PROVE  /\ DataOK(Written(d, off, n, c)) /\ Written(d, off, n, c).size = d.size
           /\ \A y \in Nat : y < d.size =>
                Written(d, off, n, c).at[y] =
                    IF off <= y /\ y < off + n THEN c[y - off] ELSE d.at[y]
<1> DEFINE e == Written(d, off, n, c)
<1>1. d.size \in Nat /\ DOMAIN d.at = 0 .. d.size - 1
  BY DEF DataOK
<1>2. CASE n = 0
  <2>1. e = d /\ \A y \in Nat : ~(off <= y /\ y < off + n)
    BY <1>2 DEF Written
  <2> QED BY <2>1
<1>3. CASE n # 0
  <2>1. Larger(d.size, off + n) = d.size
    BY <1>1 DEF Larger
  <2>2. e = [size |-> d.size, at |-> [i \in 0 .. d.size - 1 |->
              IF off <= i /\ i < off + n THEN c[i - off]
              ELSE IF i < d.size THEN d.at[i] ELSE Zero]]
    BY <1>3, <2>1 DEF Written
  <2> HIDE DEF e
  <2>3. e.size = d.size /\ DOMAIN e.at = 0 .. d.size - 1
    BY <2>2
  <2>4. \A y \in Nat : y < d.size =>
          e.at[y] = IF off <= y /\ y < off + n THEN c[y - off] ELSE d.at[y]
    BY <2>2, <1>1
  <2> QED BY <1>1, <2>3, <2>4 DEF DataOK, e
<1> QED BY <1>2, <1>3

\* Another size keeps the cells that fit.
LEMMA ResizedFacts ==
    ASSUME NEW d, DataOK(d), NEW n \in Nat
    PROVE  /\ DataOK(Resized(d, n)) /\ Resized(d, n).size = n
           /\ \A y \in Nat : y < n /\ y < d.size => Resized(d, n).at[y] = d.at[y]
<1> DEFINE e == Resized(d, n)
<1>1. e = [size |-> n, at |-> [i \in 0 .. n - 1 |-> IF i < d.size THEN d.at[i] ELSE Zero]]
  BY DEF Resized
<1> HIDE DEF e
<1>2. e.size = n /\ DOMAIN e.at = 0 .. n - 1
  BY <1>1
<1>3. \A y \in Nat : y < n /\ y < d.size => e.at[y] = d.at[y]
  BY <1>1
<1> QED BY <1>2, <1>3 DEF DataOK, e

\* What a loop has not written and read yet gets less.
LEMMA Shrinks ==
    ASSUME NEW s, IsLoop(s), NEW v, v.naxis1 \in Nat, StepOK(s, v), NEW n \in Nat, n <= s.units
    PROVE  /\ First(s, v, 0) \in Nat /\ First(s, v, 0) <= First(s, v, n)
           /\ Past(s, v, 0) \in Nat /\ Past(s, v, n) \in Nat /\ Past(s, v, n) <= Past(s, v, 0)
           /\ SrcFirst(s, v, 0) \in Nat /\ SrcFirst(s, v, 0) <= SrcFirst(s, v, n)
           /\ SrcPast(s, v, 0) \in Nat /\ SrcPast(s, v, n) \in Nat
           /\ SrcPast(s, v, n) <= SrcPast(s, v, 0)
<1>1. CASE s.k = "move"
  <2> DEFINE src == s.src dst == s.dst U == s.units
  <2>1. src \in Nat /\ dst \in Nat /\ U \in Nat /\ n <= U
    BY <1>1 DEF StepOK
  <2>2. /\ \A i : First(s, v, i) = IF dst > src THEN dst ELSE dst + i
        /\ \A i : Past(s, v, i) = IF dst > src THEN dst + U - i ELSE dst + U
        /\ \A i : SrcFirst(s, v, i) = IF dst > src THEN src ELSE src + i
        /\ \A i : SrcPast(s, v, i) = IF dst > src THEN src + U - i ELSE src + U
    BY <1>1 DEF First, Past, SrcFirst, SrcPast
  <2> HIDE DEF src, dst, U
  <2> QED BY <2>1, <2>2
<1>2. CASE s.k = "zero"
  <2> DEFINE off == s.off U == s.units
  <2>1. off \in Nat /\ U \in Nat /\ n <= U
    BY <1>2 DEF StepOK
  <2>2. /\ \A i : First(s, v, i) = off + i /\ Past(s, v, i) = off + U
        /\ \A i : SrcFirst(s, v, i) = 0 /\ SrcPast(s, v, i) = 0
    BY <1>2 DEF First, Past, SrcFirst, SrcPast
  <2> HIDE DEF off, U
  <2> QED BY <2>1, <2>2
<1>3. CASE s.k = "restride"
  <2> DEFINE old == v.naxis1 W == s.w U == s.units
             new == old + W
  <2>1. old \in Nat /\ W \in Int /\ U \in Nat /\ n <= U /\ (W < 0 => s.at - W <= old) /\ s.at \in Nat
    BY <1>3 DEF StepOK
  <2>2. /\ \A i : First(s, v, i) = IF W > 0 THEN 0 ELSE i * new
        /\ \A i : Past(s, v, i) = IF W > 0 THEN (U - i) * new ELSE U * new
        /\ \A i : SrcFirst(s, v, i) = IF W > 0 THEN 0 ELSE i * old
        /\ \A i : SrcPast(s, v, i) = IF W > 0 THEN (U - i) * old ELSE U * old
    BY <1>3 DEF First, Past, SrcFirst, SrcPast
  <2> HIDE DEF W, U, old
  <2>3. new \in Nat
    BY <2>1
  <2> HIDE DEF new
  <2>4. U - n \in Nat /\ U - n <= U /\ U - 0 = U /\ 0 <= n
    BY <2>1
  <2>5. /\ n * new \in Nat /\ n * old \in Nat /\ U * new \in Nat /\ U * old \in Nat
        /\ (U - n) * new \in Nat /\ (U - n) * old \in Nat /\ 0 * new = 0 /\ 0 * old = 0
    BY <2>1, <2>3, <2>4, Times
  <2>6. (U - n) * new <= U * new /\ (U - n) * old <= U * old
    BY <2>1, <2>3, <2>4, TimesOrder
  <2> DEFINE a == n * new b == n * old c == U * new e == U * old f == (U - n) * new g == (U - n) * old
  <2>7. /\ First(s, v, 0) = 0 /\ First(s, v, n) = (IF W > 0 THEN 0 ELSE a)
        /\ Past(s, v, 0) = c /\ Past(s, v, n) = (IF W > 0 THEN f ELSE c)
        /\ SrcFirst(s, v, 0) = 0 /\ SrcFirst(s, v, n) = (IF W > 0 THEN 0 ELSE b)
        /\ SrcPast(s, v, 0) = e /\ SrcPast(s, v, n) = (IF W > 0 THEN g ELSE e)
    BY <2>2, <2>4, <2>5
  <2>8. a \in Nat /\ b \in Nat /\ c \in Nat /\ e \in Nat /\ f \in Nat /\ g \in Nat /\ f <= c /\ g <= e
    BY <2>5, <2>6
  <2> HIDE DEF a, b, c, e, f, g
  <2> QED BY <2>7, <2>8
<1> QED BY <1>1, <1>2, <1>3 DEF IsLoop

\* Sequences, whatever their elements.
LEMMA ListedFacts ==
    ASSUME NEW s, Listed(s)
    PROVE  /\ Len(s) \in Nat /\ DOMAIN s = 1 .. Len(s)
           /\ s # <<>> => Len(s) >= 1 /\ Head(s) = s[1]
           /\ s = <<>> => Len(s) = 0
           /\ s # <<>> => /\ Listed(Tail(s)) /\ Len(Tail(s)) = Len(s) - 1
                          /\ \A i \in 1 .. Len(s) - 1 : Tail(s)[i] = s[i + 1]
<1> DEFINE S == ToSet(s)
<1>1. s \in Seq(S)
  BY DEF Listed
<1> HIDE DEF S
<1>2. Len(s) \in Nat /\ DOMAIN s = 1 .. Len(s)
  BY <1>1, LenProperties
<1>3. s = <<>> => Len(s) = 0
  BY <1>1
<1>4. ASSUME s # <<>>
      PROVE  /\ Len(s) >= 1 /\ Head(s) = s[1] /\ Tail(s) \in Seq(S) /\ Len(Tail(s)) = Len(s) - 1
             /\ \A i \in 1 .. Len(s) - 1 : Tail(s)[i] = s[i + 1]
  BY <1>1, <1>4, HeadTailProperties
<1>5. ASSUME s # <<>> PROVE Tail(s) \in Seq(ToSet(Tail(s)))
  <2> DEFINE t == Tail(s)
  <2>1. t \in Seq(S)
    BY <1>4, <1>5
  <2> HIDE DEF t
  <2>2. Len(t) \in Nat /\ DOMAIN t = 1 .. Len(t) /\ \A i \in 1 .. Len(t) : t[i] \in ToSet(t)
    BY <2>1, ToSetFacts
  <2>3. t = [i \in 1 .. Len(t) |-> t[i]]
    BY <2>1
  <2>4. t \in [1 .. Len(t) -> ToSet(t)]
    BY <2>2, <2>3
  <2>5. t \in Seq(ToSet(t))
    BY <2>2, <2>4, FunctionIsSeq
  <2> QED BY <2>5 DEF t
<1> QED BY <1>2, <1>3, <1>4, <1>5 DEF Listed

\* A sequence is one of its elements.
LEMMA SeqListed ==
    ASSUME NEW S, NEW t \in Seq(S)
    PROVE  Listed(t)
<1>1. Len(t) \in Nat /\ DOMAIN t = 1 .. Len(t) /\ \A i \in 1 .. Len(t) : t[i] \in ToSet(t)
  BY ToSetFacts
<1>2. t = [i \in 1 .. Len(t) |-> t[i]]
  OBVIOUS
<1>3. t \in [1 .. Len(t) -> ToSet(t)]
  BY <1>1, <1>2
<1> QED BY <1>1, <1>3, FunctionIsSeq DEF Listed
\* What is pending after the first step: the others.
LEMMA TailPlan ==
    ASSUME NEW todo, Listed(todo), todo # <<>>, NEW op, NEW v, PlanOK(todo, op, v)
    PROVE  /\ PlanOK(Tail(todo), op, v)
           /\ \A b \in DOMAIN Tail(todo) : b + 1 \in DOMAIN todo /\ Tail(todo)[b] = todo[b + 1]
           /\ \A b \in DOMAIN todo : b # 1 => b - 1 \in DOMAIN Tail(todo) /\ Tail(todo)[b - 1] = todo[b]
<1> DEFINE t == Tail(todo) L == Len(todo)
<1>1. /\ L \in Nat /\ L >= 1 /\ DOMAIN todo = 1 .. L /\ DOMAIN t = 1 .. L - 1
      /\ \A i \in 1 .. L - 1 : t[i] = todo[i + 1]
  BY ListedFacts
<1> HIDE DEF t, L
<1>2. \A b \in DOMAIN t : b + 1 \in DOMAIN todo /\ t[b] = todo[b + 1]
  BY <1>1
<1>3. \A b \in DOMAIN todo : b # 1 => b - 1 \in DOMAIN t /\ t[b - 1] = todo[b]
  BY <1>1
<1>4. \A a \in DOMAIN t : IsLoop(t[a]) => LoopOK(t[a], op, v)
  BY <1>2 DEF PlanOK
<1>5. \A a \in DOMAIN t : t[a].k = "resize" => t[a].n = NewSize(op, v)
  BY <1>2 DEF PlanOK
<1>6. ASSUME NEW a \in DOMAIN t, NEW b \in DOMAIN t, a < b PROVE PairOK(t[a], t[b], op, v)
  <2>1. a + 1 < b + 1
    BY <1>1, <1>6
  <2> QED BY <2>1, <1>2 DEF PlanOK
<1> QED BY <1>2, <1>3, <1>4, <1>5, <1>6 DEF PlanOK, t

\* A step that is no change of size leaves the one that is in the plan.
LEMMA TailResize ==
    ASSUME NEW todo, Listed(todo), todo # <<>>, NEW op, NEW v, PlanOK(todo, op, v),
           todo[1].k # "resize"
    PROVE  (\E a \in DOMAIN todo : todo[a].k = "resize")
             <=> \E a \in DOMAIN Tail(todo) : Tail(todo)[a].k = "resize"
<1>1. /\ \A b \in DOMAIN Tail(todo) : b + 1 \in DOMAIN todo /\ Tail(todo)[b] = todo[b + 1]
      /\ \A b \in DOMAIN todo : b # 1 => b - 1 \in DOMAIN Tail(todo) /\ Tail(todo)[b - 1] = todo[b]
  BY TailPlan
<1>2. ASSUME NEW a \in DOMAIN todo, todo[a].k = "resize"
      PROVE  \E b \in DOMAIN Tail(todo) : Tail(todo)[b].k = "resize"
  <2>1. a # 1
    BY <1>2
  <2>2. a - 1 \in DOMAIN Tail(todo) /\ Tail(todo)[a - 1] = todo[a]
    BY ONLY <1>1, <2>1, a \in DOMAIN todo
  <2> QED BY ONLY <1>2, <2>2
<1>3. ASSUME NEW b \in DOMAIN Tail(todo), Tail(todo)[b].k = "resize"
      PROVE  \E a \in DOMAIN todo : todo[a].k = "resize"
  <2>1. b + 1 \in DOMAIN todo /\ Tail(todo)[b] = todo[b + 1]
    BY ONLY <1>1, b \in DOMAIN Tail(todo)
  <2> QED BY ONLY <1>3, <2>1
<1> QED BY ONLY <1>2, <1>3

\* The kinds of steps are exclusive.
LEMMA Kinds ==
    ASSUME NEW s
    PROVE  /\ IsLoop(s) => s.k \notin {"resize", "cards", "rewrite", "reparse", "read", "work", "write"}
           /\ s.k \in {"resize", "cards", "rewrite", "reparse"} => ~IsLoop(s)
BY DEF IsLoop

\* The data unit has room for what the first step writes, and keeps its size until the step
\* that changes it.
LEMMA Room ==
    ASSUME NEW todo, Listed(todo), todo # <<>>, IsLoop(todo[1]), NEW op, NEW v,
           PlanOK(todo, op, v), NEW d, Sized(todo, op, v, d),
           NewSize(op, v) \in Nat, SizeOf(v) \in Nat
    PROVE  NewSize(op, v) <= d.size /\ Sized(Tail(todo), op, v, d)
<1>1. 1 \in DOMAIN todo /\ DOMAIN todo = 1 .. Len(todo) /\ Len(todo) \in Nat
  BY ListedFacts
<1>2. todo[1].k # "resize"
  BY Kinds
<1>3. /\ \A b \in DOMAIN Tail(todo) : b + 1 \in DOMAIN todo /\ Tail(todo)[b] = todo[b + 1]
      /\ \A b \in DOMAIN todo : b # 1 => b - 1 \in DOMAIN Tail(todo) /\ Tail(todo)[b - 1] = todo[b]
  BY TailPlan
<1>4. (\E a \in DOMAIN todo : todo[a].k = "resize") <=> \E a \in DOMAIN Tail(todo) : Tail(todo)[a].k = "resize"
  BY <1>2, TailResize
<1>5. ASSUME NEW b \in DOMAIN todo, todo[b].k = "resize" PROVE NewSize(op, v) <= SizeOf(v)
  <2>1. 1 < b
    BY <1>1, <1>2, <1>5
  <2>2. PairOK(todo[1], todo[b], op, v)
    BY <1>1, <2>1 DEF PlanOK
  <2> QED BY <2>2, <1>5 DEF PairOK
<1> QED BY <1>4, <1>5 DEF Sized

\* One write of a loop: what it writes is the table to be; what was in place stays; what
\* later steps read is as it was.
LEMMA WriteStep ==
    ASSUME NEW todo, Listed(todo), todo # <<>>, IsLoop(todo[1]), NEW op, NEW v, v.naxis1 \in Nat,
           PlanOK(todo, op, v), NEW n \in Nat, n < todo[1].units, NEW d, DataOK(d), NEW old,
           Landed(todo, n, op, v, d, old), Unread(todo, n, v, d, old), Sized(todo, op, v, d),
           NewSize(op, v) \in Nat, SizeOf(v) \in Nat,
           NEW w, Fits(todo[1], v, n, w), Brings(todo[1], v, n, w, d),
           NEW len \in Nat, len <= w.len, NEW e, e = Written(d, w.off, len, w.cells)
    PROVE  /\ DataOK(e) /\ e.size = d.size /\ NewSize(op, v) <= d.size
           /\ \A y \in Nat : y < d.size => e.at[y] = d.at[y] \/
                 (w.off <= y /\ y < w.off + len /\ e.at[y] = Target(op, v, old, y)
                  /\ y < NewSize(op, v))
           /\ \A y \in Nat : w.off <= y /\ y < w.off + len =>
                 y < NewSize(op, v) /\ e.at[y] = Target(op, v, old, y)
           /\ \A y \in Nat : y < d.size /\ ~(w.off <= y /\ y < w.off + len) => e.at[y] = d.at[y]
<1> DEFINE s == todo[1] N == NewSize(op, v)
<1>1. 1 \in DOMAIN todo
  BY ListedFacts
<1>2. LoopOK(s, op, v)
  BY <1>1 DEF PlanOK
<1>3. /\ First(s, v, 0) \in Nat /\ First(s, v, 0) <= First(s, v, n)
      /\ Past(s, v, n) \in Nat /\ Past(s, v, n) <= Past(s, v, 0) /\ Past(s, v, 0) \in Nat
  <2>1. StepOK(s, v) /\ IsLoop(s) /\ n <= s.units /\ n \in Nat /\ v.naxis1 \in Nat
    BY <1>2 DEF LoopOK, StepOK
  <2> HIDE DEF s
  <2> QED BY ONLY <2>1, Shrinks
<1>4. Past(s, v, 0) <= N /\ \A y \in First(s, v, 0) .. Past(s, v, 0) - 1 : From(s, v, y) = Origin(op, v, y)
  BY <1>2 DEF LoopOK
<1>5. N <= d.size
  BY Room
<1>6. d.size \in Nat
  BY DEF DataOK
<1>7. /\ w.off \in Nat /\ w.len \in Nat /\ First(s, v, n) \in Nat
      /\ First(s, v, n) <= w.off /\ w.off + w.len <= Past(s, v, n)
  BY DEF Fits
<1> DEFINE f0 == First(s, v, 0) p0 == Past(s, v, 0) fn == First(s, v, n) pn == Past(s, v, n)
<1>8. ASSUME NEW y \in Nat, w.off <= y, y < w.off + w.len
      PROVE  /\ y < N /\ y \in f0 .. p0 - 1
             /\ w.cells[y - w.off] = Target(op, v, old, y)
  <2>1. N \in Nat
    OBVIOUS
  <2> HIDE DEF s, N
  <2>2. y < N /\ y \in f0 .. p0 - 1
    <3>1. /\ f0 \in Nat /\ p0 \in Nat /\ fn \in Nat /\ pn \in Nat /\ f0 <= fn /\ pn <= p0
          /\ p0 <= N /\ N \in Nat
      BY <1>3, <1>4, <1>7, <2>1
    <3>2. fn <= w.off /\ w.off + w.len <= pn /\ w.off \in Nat /\ w.len \in Nat
      BY <1>7 DEF s
    <3>3. y \in Nat /\ w.off <= y /\ y < w.off + w.len
      BY <1>8
    <3> HIDE DEF f0, p0, fn, pn
    <3> DEFINE a == w.off l == w.len
    <3>4. fn <= a /\ a + l <= pn /\ a \in Nat /\ l \in Nat /\ a <= y /\ y < a + l
      BY ONLY <3>2, <3>3
    <3> HIDE DEF a, l
    <3> QED BY ONLY <3>1, <3>3, <3>4
  <2>3. From(s, v, y) = Origin(op, v, y)
    BY <1>4, <2>2
  <2>4. w.cells[y - w.off] = Sourced(d, From(s, v, y))
    BY <1>8 DEF Brings, s
  <2>5. CASE From(s, v, y) = -1
    BY <2>2, <2>3, <2>4, <2>5 DEF Target, Sourced
  <2>6. CASE From(s, v, y) # -1
    <3> DEFINE x == From(s, v, y)
    <3>1. x \in Nat /\ SrcFirst(s, v, n) <= x /\ x < SrcPast(s, v, n)
      BY <1>8, <2>6 DEF Brings, s
    <3>2. Needed(todo[1], v, At(1, n), x)
      BY <3>1 DEF Needed, At, s
    <3>3. d.at[x] = old.at[x]
      BY <1>1, <3>1, <3>2 DEF Unread
    <3> DEFINE o == Origin(op, v, y)
    <3>6. x # -1 /\ o = x
      BY <2>3, <2>6
    <3>4. w.cells[y - w.off] = old.at[x]
      BY <2>4, <3>6, <3>3 DEF Sourced
    <3>7. Target(op, v, old, y) = Sourced(old, o)
      BY DEF Target
    <3> HIDE DEF x, o
    <3>5. Target(op, v, old, y) = old.at[x]
      BY ONLY <3>6, <3>7 DEF Sourced
    <3> QED BY <2>2, <3>4, <3>5
  <2> QED BY <2>2, <2>5, <2>6
<1>9. w.off + len <= d.size /\ w.off + len <= w.off + w.len
  <2> DEFINE x == w.off y == w.len qn == Past(s, v, n) q0 == Past(s, v, 0) z == d.size
  <2>1. /\ x \in Nat /\ y \in Nat /\ qn \in Nat /\ q0 \in Nat /\ z \in Nat /\ N \in Nat
        /\ x + y <= qn /\ qn <= q0 /\ q0 <= N /\ N <= z
    BY <1>3, <1>4, <1>5, <1>6, <1>7
  <2>2. len \in Nat /\ len <= y
    BY <2>1
  <2> HIDE DEF x, y, qn, q0, z, N
  <2>3. x + len <= z /\ x + len <= x + y
    BY ONLY <2>1, <2>2
  <2> QED BY ONLY <2>3 DEF x, y, z
<1>10. /\ DataOK(e) /\ e.size = d.size
       /\ \A y \in Nat : y < d.size =>
            e.at[y] = IF w.off <= y /\ y < w.off + len THEN w.cells[y - w.off] ELSE d.at[y]
  <2> DEFINE off == w.off cells == w.cells
  <2>1. off \in Nat /\ off + len <= d.size /\ e = Written(d, off, len, cells)
    BY <1>7, <1>9
  <2> HIDE DEF off, cells
  <2>2. /\ DataOK(e) /\ e.size = d.size
        /\ \A y \in Nat : y < d.size =>
            e.at[y] = IF off <= y /\ y < off + len THEN cells[y - off] ELSE d.at[y]
    BY <2>1, WrittenFacts
  <2> QED BY <2>2 DEF off, cells
<1>11. \A y \in Nat : w.off <= y /\ y < w.off + len => y < w.off + w.len
  BY <1>7, <1>9
<1>12. ASSUME NEW y \in Nat, w.off <= y, y < w.off + len
       PROVE  y < N /\ e.at[y] = Target(op, v, old, y)
  <2>1. y < N /\ w.cells[y - w.off] = Target(op, v, old, y)
    BY <1>8, <1>11, <1>12
  <2>2. y < d.size
    BY <1>5, <1>6, <2>1
  <2> QED BY <2>1, <2>2, <1>10, <1>12
<1>13. \A y \in Nat : y < d.size /\ ~(w.off <= y /\ y < w.off + len) => e.at[y] = d.at[y]
  BY <1>10
<1> QED BY <1>5, <1>10, <1>12, <1>13

\* After it, every cell is in place or pending, and nothing still to be read is lost.
Rest(todo, n, u) == IF n + u < todo[1].units THEN todo ELSE Tail(todo)
RestDone(todo, n, u) == IF n + u < todo[1].units THEN n + u ELSE 0

\* A write of a loop leaves the rest of the plan on course.
LEMMA WriteGoesOn ==
    ASSUME NEW todo, Listed(todo), todo # <<>>, IsLoop(todo[1]), NEW op, NEW v, v.naxis1 \in Nat,
           NEW n \in Nat, n < todo[1].units, NEW d, DataOK(d), NEW old,
           OnCourse(todo, n, op, v, d, old),
           NewSize(op, v) \in Nat, SizeOf(v) \in Nat,
           NEW w, Fits(todo[1], v, n, w), Brings(todo[1], v, n, w, d),
           NEW e, e = Written(d, w.off, w.len, w.cells)
    PROVE  /\ Listed(Rest(todo, n, w.units))
           /\ OnCourse(Rest(todo, n, w.units), RestDone(todo, n, w.units), op, v, e, old)
<1> DEFINE s == todo[1] N == NewSize(op, v) u == w.units
           rest == Rest(todo, n, u) m == RestDone(todo, n, u)
<1>1. /\ PlanOK(todo, op, v) /\ DoneOK(todo, n) /\ Landed(todo, n, op, v, d, old)
      /\ Unread(todo, n, v, d, old) /\ Sized(todo, op, v, d)
  BY DEF OnCourse
<1>2. IF n + w.units < todo[1].units THEN rest = todo /\ m = n + w.units
      ELSE rest = Tail(todo) /\ m = 0
  BY DEF Rest, RestDone
<1> USE <1>1, <1>2
<1> HIDE DEF rest, m
<1>3. /\ 1 \in DOMAIN todo /\ DOMAIN todo \subseteq Nat
      /\ Listed(Tail(todo)) /\ DOMAIN Tail(todo) \subseteq Nat \ {0}
  BY ListedFacts
<1>4. /\ PlanOK(Tail(todo), op, v)
      /\ \A b \in DOMAIN Tail(todo) : b + 1 \in DOMAIN todo /\ Tail(todo)[b] = todo[b + 1]
      /\ \A b \in DOMAIN todo : b # 1 => b - 1 \in DOMAIN Tail(todo) /\ Tail(todo)[b - 1] = todo[b]
  BY TailPlan
<1>5. /\ w.len \in Nat /\ w.len <= w.len /\ w.off \in Nat
  BY DEF Fits
<1> DEFINE len == w.len
<1>6. /\ DataOK(e) /\ e.size = d.size /\ N <= d.size
      /\ \A y \in Nat : w.off <= y /\ y < w.off + len => y < N /\ e.at[y] = Target(op, v, old, y)
      /\ \A y \in Nat : y < d.size /\ ~(w.off <= y /\ y < w.off + len) => e.at[y] = d.at[y]
  <2>1. len \in Nat /\ len <= w.len /\ e = Written(d, w.off, len, w.cells)
    BY <1>5
  <2> HIDE DEF len
  <2> QED BY <2>1, WriteStep
<1>7. Sized(Tail(todo), op, v, d)
  BY Room
<1>8. Listed(rest) /\ PlanOK(rest, op, v) /\ Sized(rest, op, v, e)
  <2>1. \A t : Sized(t, op, v, d) => Sized(t, op, v, e)
    BY <1>6 DEF Sized
  <2> QED BY <1>3, <1>4, <1>7, <2>1
<1>9. /\ u \in Nat \ {0} /\ n + u <= s.units
      /\ \A y \in Nat : First(s, v, n) <= y /\ y < Past(s, v, n) =>
          \/ w.off <= y /\ y < w.off + w.len
          \/ n + u < s.units /\ First(s, v, n + u) <= y /\ y < Past(s, v, n + u)
      /\ \A x \in Nat : SrcFirst(s, v, n + u) <= x /\ x < SrcPast(s, v, n + u) =>
          ~(w.off <= x /\ x < w.off + w.len)
      /\ First(s, v, n) <= w.off /\ w.off + w.len <= Past(s, v, n)
      /\ SrcFirst(s, v, n) <= SrcFirst(s, v, n + u) /\ SrcPast(s, v, n + u) <= SrcPast(s, v, n)
  BY DEF Fits
<1>10. DoneOK(rest, m)
  BY <1>9 DEF DoneOK
<1>11. d.size \in Nat
  BY DEF DataOK
<1>12. Landed(rest, m, op, v, e, old)
  <2>1. ASSUME NEW y \in 0 .. N - 1
        PROVE  \/ \E a \in DOMAIN rest : Pending(rest[a], v, At(a, m), y)
               \/ y < e.size /\ e.at[y] = Target(op, v, old, y)
    <3>1. y \in Nat /\ y < N /\ y < d.size
      BY <1>6, <1>11
    <3>2. CASE w.off <= y /\ y < w.off + w.len
      BY <3>1, <3>2, <1>6
    <3>3. CASE ~(w.off <= y /\ y < w.off + w.len)
      <4>1. e.at[y] = d.at[y]
        BY <3>1, <3>3, <1>6
      <4>2. CASE y < d.size /\ d.at[y] = Target(op, v, old, y)
        BY <4>1, <4>2, <1>6
      <4>3. CASE \E a \in DOMAIN todo : Pending(todo[a], v, At(a, n), y)
        <5>1. PICK a \in DOMAIN todo : Pending(todo[a], v, At(a, n), y)
          BY <4>3
        <5>2. CASE a = 1
          <6>1. First(s, v, n) <= y /\ y < Past(s, v, n)
            BY <5>1, <5>2 DEF Pending, At
          <6>2. n + u < s.units /\ First(s, v, n + u) <= y /\ y < Past(s, v, n + u)
            BY <6>1, <3>1, <3>3, <1>9
          <6>3. rest = todo /\ m = n + u
            BY <6>2
          <6>4. Pending(rest[1], v, At(1, m), y)
            BY <6>2, <6>3 DEF Pending, At
          <6> QED BY <6>3, <6>4, <1>3
        <5>3. CASE a # 1
          <6>1. Pending(todo[a], v, 0, y)
            BY <5>1, <5>3 DEF At
          <6>2. CASE n + u < s.units
            <7>1. rest = todo /\ At(a, m) = 0
              BY <6>2, <5>3 DEF At
            <7> QED BY <7>1, <6>1
          <6>3. CASE ~(n + u < s.units)
            <7>1. rest = Tail(todo) /\ At(a - 1, m) = 0
              BY <6>3 DEF At
            <7>2. a - 1 \in DOMAIN rest /\ rest[a - 1] = todo[a]
              BY <7>1, <5>3, <1>4
            <7> QED BY <7>1, <7>2, <6>1
          <6> QED BY <6>2, <6>3
        <5> QED BY <5>2, <5>3
      <4> QED BY <4>2, <4>3 DEF Landed
    <3> QED BY <3>2, <3>3
  <2> QED BY <2>1 DEF Landed
<1>13. ASSUME NEW b \in DOMAIN todo, b # 1, NEW x \in Nat, Needed(todo[b], v, 0, x)
       PROVE  x < e.size /\ e.at[x] = old.at[x]
  <2>1. x < d.size /\ d.at[x] = old.at[x]
    <3>1. Needed(todo[b], v, At(b, n), x)
      BY <1>13 DEF At
    <3> QED BY <3>1 DEF Unread
  <2>2. PairOK(s, todo[b], op, v)
    <3>1. 1 < b
      BY <1>13, ListedFacts
    <3> QED BY <3>1, <1>3 DEF PlanOK
  <2>3. IsLoop(todo[b]) /\ SrcFirst(todo[b], v, 0) <= x /\ x < SrcPast(todo[b], v, 0)
    BY <1>13 DEF Needed
  <2>4. Past(s, v, 0) <= SrcFirst(todo[b], v, 0) \/ SrcPast(todo[b], v, 0) <= First(s, v, 0)
    BY <2>2, <2>3 DEF PairOK, Clear
  <2>5. LoopOK(s, op, v) /\ LoopOK(todo[b], op, v)
    BY <1>3, <2>3 DEF PlanOK
  <2>6. /\ First(s, v, 0) \in Nat /\ First(s, v, 0) <= First(s, v, n) /\ Past(s, v, 0) \in Nat
        /\ Past(s, v, n) <= Past(s, v, 0) /\ Past(s, v, n) \in Nat
    <3>1. StepOK(s, v) /\ IsLoop(s) /\ n <= s.units /\ n \in Nat /\ v.naxis1 \in Nat
      BY <2>5 DEF LoopOK, StepOK
    <3> HIDE DEF s
    <3> QED BY ONLY <3>1, Shrinks
  <2>7. SrcFirst(todo[b], v, 0) \in Nat /\ SrcPast(todo[b], v, 0) \in Nat
    <3>1. StepOK(todo[b], v) /\ 0 <= todo[b].units /\ 0 \in Nat
      BY <2>5 DEF LoopOK, StepOK
    <3> QED BY <3>1, <2>3, Shrinks
  <2>8. First(s, v, n) \in Nat
    BY DEF Fits
  <2>9. ~(w.off <= x /\ x < w.off + w.len)
    <3> DEFINE f0 == First(s, v, 0) p0 == Past(s, v, 0) fn == First(s, v, n) pn == Past(s, v, n)
               sf == SrcFirst(todo[b], v, 0) sp == SrcPast(todo[b], v, 0)
    <3>1. /\ f0 \in Nat /\ p0 \in Nat /\ fn \in Nat /\ pn \in Nat /\ sf \in Nat /\ sp \in Nat
          /\ f0 <= fn /\ pn <= p0 /\ (p0 <= sf \/ sp <= f0) /\ sf <= x /\ x < sp
          /\ fn <= w.off /\ w.off + len <= pn /\ w.off \in Nat /\ len \in Nat
      BY <1>5, <1>9, <2>3, <2>4, <2>6, <2>7, <2>8
    <3> HIDE DEF f0, p0, fn, pn, sf, sp, len
    <3>2. ~(w.off <= x /\ x < w.off + len)
      BY <3>1
    <3> QED BY <3>2 DEF len
  <2> QED BY <2>1, <2>9, <1>6
<1>14. Unread(rest, m, v, e, old)
  <2>1. ASSUME NEW b \in DOMAIN rest, NEW x \in Nat, Needed(rest[b], v, At(b, m), x)
        PROVE  x < e.size /\ e.at[x] = old.at[x]
    <3>1. CASE n + u < s.units
      <4>1. rest = todo /\ m = n + u
        BY <3>1
      <4>2. CASE b # 1
        BY <4>1, <4>2, <2>1, <1>13 DEF At
      <4>3. CASE b = 1
        <5>1. SrcFirst(s, v, n + u) <= x /\ x < SrcPast(s, v, n + u)
          BY <4>1, <4>3, <2>1 DEF Needed, At
        <5>2. ~(w.off <= x /\ x < w.off + w.len)
          BY <5>1, <1>9
        <5>3. SrcFirst(s, v, n) <= x /\ x < SrcPast(s, v, n)
          <6>1. LoopOK(s, op, v)
            BY <1>3 DEF PlanOK
          <6>2. /\ n <= s.units /\ n + u <= s.units /\ n + u \in Nat /\ StepOK(s, v)
                /\ s.units \in Nat
            BY <6>1, <1>9 DEF LoopOK, StepOK
          <6>3. /\ SrcPast(s, v, n) \in Nat /\ SrcPast(s, v, n + u) \in Nat
            BY <6>2, Shrinks
          <6>4. SrcFirst(s, v, n) \in Int /\ SrcFirst(s, v, n + u) \in Int
            <7>1. v.naxis1 \in Nat
              OBVIOUS
            <7>2. \A i \in Nat : SrcFirst(s, v, i) \in Int
              <8>1. CASE s.k = "restride"
                <9>1. \A i \in Nat : i * v.naxis1 \in Nat
                  BY <7>1, Times
                <9> QED BY <9>1, <8>1 DEF SrcFirst
              <8>2. CASE s.k \in {"move", "zero"}
                BY <8>2, <6>2 DEF SrcFirst, StepOK
              <8> QED BY <8>1, <8>2 DEF IsLoop
            <7> QED BY <7>2, <6>2
          <6> QED BY <6>3, <6>4, <5>1, <1>9
        <5>4. Needed(todo[1], v, At(1, n), x)
          BY <5>3 DEF Needed, At
        <5>5. x < d.size /\ d.at[x] = old.at[x]
          BY <5>4, <1>3 DEF Unread
        <5> QED BY <5>2, <5>5, <1>6
      <4> QED BY <4>2, <4>3
    <3>2. CASE ~(n + u < s.units)
      <4>1. rest = Tail(todo) /\ m = 0
        BY <3>2
      <4>2. b + 1 \in DOMAIN todo /\ rest[b] = todo[b + 1] /\ b \in Nat \ {0}
        BY <4>1, <1>3, <1>4
      <4>3. b + 1 # 1 /\ Needed(todo[b + 1], v, 0, x)
        BY <4>1, <4>2, <2>1 DEF At
      <4> QED BY <4>2, <4>3, <1>13
    <3> QED BY <3>1, <3>2
  <2> QED BY <2>1 DEF Unread
<1>15. Listed(rest) /\ OnCourse(rest, m, op, v, e, old)
  BY <1>8, <1>10, <1>12, <1>14 DEF OnCourse
<1> QED BY <1>15 DEF rest, m
\* A step that is no loop leaves as much pending.
LEMMA LandedTail ==
    ASSUME NEW todo, Listed(todo), todo # <<>>, ~IsLoop(todo[1]), NEW op, NEW v,
           PlanOK(todo, op, v), NEW d, NEW e, NEW old, Landed(todo, 0, op, v, d, old),
           \A y \in 0 .. NewSize(op, v) - 1 : y < d.size => y < e.size /\ e.at[y] = d.at[y]
    PROVE  Landed(Tail(todo), 0, op, v, e, old)
<1>1. \A b \in DOMAIN todo : b # 1 => b - 1 \in DOMAIN Tail(todo) /\ Tail(todo)[b - 1] = todo[b]
  BY TailPlan
<1>2. ASSUME NEW y \in 0 .. NewSize(op, v) - 1
      PROVE  \/ \E a \in DOMAIN Tail(todo) : Pending(Tail(todo)[a], v, At(a, 0), y)
             \/ y < e.size /\ e.at[y] = Target(op, v, old, y)
  <2>1. CASE \E a \in DOMAIN todo : Pending(todo[a], v, At(a, 0), y)
    <3>1. PICK a \in DOMAIN todo : Pending(todo[a], v, At(a, 0), y)
      BY <2>1
    <3>2. a # 1
      BY <3>1 DEF Pending
    <3>3. Pending(Tail(todo)[a - 1], v, At(a - 1, 0), y)
      BY <3>1, <3>2, <1>1 DEF At
    <3> QED BY <3>2, <3>3, <1>1
  <2>2. CASE y < d.size /\ d.at[y] = Target(op, v, old, y)
    BY <2>2
  <2> QED BY <2>1, <2>2 DEF Landed
<1> QED BY <1>2 DEF Landed

\* A step on the header.
LEMMA SkipStep ==
    ASSUME NEW todo, Listed(todo), todo # <<>>, ~IsLoop(todo[1]), todo[1].k # "resize",
           NEW op, NEW v, PlanOK(todo, op, v), NEW d, NEW old,
           Landed(todo, 0, op, v, d, old), Unread(todo, 0, v, d, old), Sized(todo, op, v, d)
    PROVE  /\ Listed(Tail(todo)) /\ PlanOK(Tail(todo), op, v) /\ DoneOK(Tail(todo), 0)
           /\ Sized(Tail(todo), op, v, d) /\ Landed(Tail(todo), 0, op, v, d, old)
           /\ Unread(Tail(todo), 0, v, d, old)
<1>1. /\ PlanOK(Tail(todo), op, v)
      /\ \A b \in DOMAIN Tail(todo) : b + 1 \in DOMAIN todo /\ Tail(todo)[b] = todo[b + 1]
      /\ \A b \in DOMAIN todo : b # 1 => b - 1 \in DOMAIN Tail(todo) /\ Tail(todo)[b - 1] = todo[b]
  BY TailPlan
<1>2. Landed(Tail(todo), 0, op, v, d, old)
  BY LandedTail
<1>3. (\E a \in DOMAIN todo : todo[a].k = "resize") <=> \E a \in DOMAIN Tail(todo) : Tail(todo)[a].k = "resize"
  BY TailResize
<1>4. Sized(Tail(todo), op, v, d)
  BY <1>3 DEF Sized
<1>5. Unread(Tail(todo), 0, v, d, old)
  <2>1. ASSUME NEW b \in DOMAIN Tail(todo), NEW x \in Nat, Needed(Tail(todo)[b], v, At(b, 0), x)
        PROVE  x < d.size /\ d.at[x] = old.at[x]
    <3>1. b + 1 \in DOMAIN todo /\ Needed(todo[b + 1], v, At(b + 1, 0), x)
      BY <2>1, <1>1 DEF At
    <3> QED BY <3>1 DEF Unread
  <2> QED BY <2>1 DEF Unread
<1>6. Listed(Tail(todo)) /\ DoneOK(Tail(todo), 0)
  BY ListedFacts DEF DoneOK
<1> QED BY <1>1, <1>2, <1>4, <1>5, <1>6

\* The data unit gets its new size.
LEMMA ResizeStep ==
    ASSUME NEW todo, Listed(todo), todo # <<>>, todo[1].k = "resize",
           NEW op, NEW v, PlanOK(todo, op, v), NEW d, DataOK(d), NEW old,
           NewSize(op, v) \in Nat, v.naxis1 \in Nat,
           Landed(todo, 0, op, v, d, old), Unread(todo, 0, v, d, old),
           NEW e, e = Resized(d, todo[1].n)
    PROVE  /\ Listed(Tail(todo)) /\ PlanOK(Tail(todo), op, v) /\ DoneOK(Tail(todo), 0)
           /\ DataOK(e) /\ e.size = NewSize(op, v)
           /\ \A y \in Nat : y < NewSize(op, v) /\ y < d.size => e.at[y] = d.at[y]
           /\ Sized(Tail(todo), op, v, e) /\ Landed(Tail(todo), 0, op, v, e, old)
           /\ Unread(Tail(todo), 0, v, e, old)
<1> DEFINE N == NewSize(op, v)
<1>1. /\ PlanOK(Tail(todo), op, v)
      /\ \A b \in DOMAIN Tail(todo) : b + 1 \in DOMAIN todo /\ Tail(todo)[b] = todo[b + 1]
  BY TailPlan
<1>2. /\ 1 \in DOMAIN todo /\ DOMAIN todo \subseteq Nat
      /\ Listed(Tail(todo)) /\ DOMAIN Tail(todo) \subseteq Nat \ {0}
  BY ListedFacts
<1>3. todo[1].n = N
  BY <1>2 DEF PlanOK
<1>4. /\ DataOK(e) /\ e.size = N
      /\ \A y \in Nat : y < N /\ y < d.size => e.at[y] = d.at[y]
  <2>1. N \in Nat /\ e = Resized(d, N)
    BY <1>3
  <2> HIDE DEF N
  <2>2. /\ DataOK(Resized(d, N)) /\ Resized(d, N).size = N
        /\ \A y \in Nat : y < N /\ y < d.size => Resized(d, N).at[y] = d.at[y]
    BY <2>1, ResizedFacts
  <2>3. DataOK(e) /\ e.size = N
    BY <2>1, <2>2
  <2> QED BY <2>1, <2>2, <2>3
<1>5. ~IsLoop(todo[1])
  BY Kinds
<1>6. Landed(Tail(todo), 0, op, v, e, old)
  <2>1. \A y \in 0 .. N - 1 : y < d.size => y < e.size /\ e.at[y] = d.at[y]
    BY <1>4
  <2> QED BY <2>1, <1>5, LandedTail
<1>7. ASSUME NEW b \in DOMAIN Tail(todo)
      PROVE  /\ b + 1 \in DOMAIN todo /\ 1 < b + 1 /\ Tail(todo)[b] = todo[b + 1]
             /\ PairOK(todo[1], todo[b + 1], op, v)
  <2>1. b + 1 \in DOMAIN todo /\ Tail(todo)[b] = todo[b + 1] /\ 1 < b + 1
    BY <1>1, <1>2
  <2> QED BY <2>1, <1>2 DEF PlanOK
<1>8. Sized(Tail(todo), op, v, e)
  <2>1. \A b \in DOMAIN Tail(todo) : Tail(todo)[b].k # "resize"
    BY <1>7 DEF PairOK
  <2> QED BY <2>1, <1>4 DEF Sized
<1>9. Unread(Tail(todo), 0, v, e, old)
  <2>1. ASSUME NEW b \in DOMAIN Tail(todo), NEW x \in Nat, Needed(Tail(todo)[b], v, At(b, 0), x)
        PROVE  x < e.size /\ e.at[x] = old.at[x]
    <3>1. Needed(todo[b + 1], v, 0, x)
      BY <2>1, <1>7 DEF At
    <3>2. Needed(todo[b + 1], v, At(b + 1, 0), x)
      BY <3>1 DEF At
    <3>3. x < d.size /\ d.at[x] = old.at[x]
      BY <3>2, <1>7 DEF Unread
    <3>4. IsLoop(todo[b + 1]) /\ x < SrcPast(todo[b + 1], v, 0) /\ SrcPast(todo[b + 1], v, 0) <= N
      BY <3>1, <1>7 DEF Needed, PairOK
    <3>5. SrcPast(todo[b + 1], v, 0) \in Int
      <4>1. StepOK(todo[b + 1], v) /\ IsLoop(todo[b + 1])
        BY <3>4, <1>7 DEF PlanOK, LoopOK
      <4>2. 0 <= todo[b + 1].units /\ 0 \in Nat
        BY <4>1 DEF StepOK
      <4>3. SrcPast(todo[b + 1], v, 0) \in Nat
        BY <4>1, <4>2, Shrinks
      <4> QED BY <4>3
    <3>6. x < N
      BY <3>4, <3>5
    <3> QED BY <3>3, <3>6, <1>4
  <2> QED BY <2>1 DEF Unread
<1>10. DoneOK(Tail(todo), 0)
  BY DEF DoneOK
<1> QED BY <1>1, <1>2, <1>4, <1>6, <1>8, <1>9, <1>10

\* A shape loses its first step.
LEMMA ShapedTail ==
    ASSUME NEW todo, Listed(todo), todo # <<>>, NEW op, NEW v, Shaped(todo, op, v)
    PROVE  /\ Shaped(Tail(todo), op, v) /\ Len(Tail(todo)) = Len(todo) - 1
           /\ Len(todo) \in Nat /\ Len(todo) >= 1
           /\ IsLoop(todo[1]) \/ todo[1].k = "resize" <=> Len(todo) > Closing(op)
           /\ ~IsLoop(todo[1]) /\ todo[1].k # "resize" => ~Copies(op)
           /\ ~Copies(op) =>
                /\ todo[1].k = "cards" <=> Len(todo) = 3
                /\ Len(todo) = 3 => NewHeader(todo[1].h, op, v)
                /\ todo[1].k = "rewrite" <=> Len(todo) = 2
                /\ todo[1].k = "reparse" <=> Len(todo) = 1
           /\ todo[1].k \notin {"read", "work", "write"}
<1> DEFINE L == Len(todo) t == Tail(todo) C == Closing(op)
<1>1. /\ L \in Nat /\ L >= 1 /\ Len(t) = L - 1 /\ \A i \in 1 .. L - 1 : t[i] = todo[i + 1]
  BY ListedFacts
<1>2. C \in {0, 3} /\ (Copies(op) <=> C = 0)
  BY DEF Closing
<1>3. \A a \in 1 .. L - C : IsLoop(todo[a]) \/ (todo[a].k = "resize" /\ ~Copies(op))
  BY DEF Shaped
<1>4. ~Copies(op) =>
        /\ L >= 3 => todo[L - 2].k = "cards" /\ NewHeader(todo[L - 2].h, op, v)
        /\ L >= 2 => todo[L - 1].k = "rewrite"
        /\ L >= 1 => todo[L].k = "reparse"
  BY DEF Shaped
<1> HIDE DEF L, t, C
<1>5. ASSUME NEW a \in 1 .. (L - 1) - C
      PROVE  IsLoop(t[a]) \/ (t[a].k = "resize" /\ ~Copies(op))
  <2>1. a \in 1 .. L - 1 /\ a + 1 \in 1 .. L - C
    BY <1>1, <1>2
  <2> QED BY <2>1, <1>1, <1>3
<1>6. ASSUME ~Copies(op)
      PROVE  /\ L - 1 >= 3 => t[L - 1 - 2].k = "cards" /\ NewHeader(t[L - 1 - 2].h, op, v)
             /\ L - 1 >= 2 => t[L - 1 - 1].k = "rewrite"
             /\ L - 1 >= 1 => t[L - 1].k = "reparse"
  <2>1. L - 1 >= 3 => L - 1 - 2 \in 1 .. L - 1 /\ L - 1 - 2 + 1 = L - 2
    BY <1>1
  <2>2. L - 1 >= 2 => L - 1 - 1 \in 1 .. L - 1 /\ L - 1 - 1 + 1 = L - 1
    BY <1>1
  <2>3. L - 1 >= 1 => L - 1 \in 1 .. L - 1 /\ L - 1 + 1 = L
    BY <1>1
  <2>4. L >= 3 \/ ~(L - 1 >= 3)
    BY <1>1
  <2> QED BY <2>1, <2>2, <2>3, <1>1, <1>4, <1>6
<1>7. Shaped(t, op, v)
  BY <1>1, <1>5, <1>6 DEF Shaped, C
<1>8. L > C => IsLoop(todo[1]) \/ (todo[1].k = "resize" /\ ~Copies(op))
  <2>1. L > C => 1 \in 1 .. L - C
    BY <1>1, <1>2
  <2> QED BY <2>1, <1>3
<1>9. ~(L > C) => ~Copies(op) /\ (L = 1 \/ L = 2 \/ L = 3)
  BY <1>1, <1>2
<1>10. L = 3 /\ ~Copies(op) => todo[1].k = "cards" /\ NewHeader(todo[1].h, op, v)
  BY <1>4
<1>11. L = 2 /\ ~Copies(op) => todo[1].k = "rewrite"
  BY <1>4
<1>12. L = 1 /\ ~Copies(op) => todo[1].k = "reparse"
  BY <1>4
<1>13. ~Copies(op) => C = 3
  BY <1>2
<1>14. IsLoop(todo[1]) \/ todo[1].k = "resize" => todo[1].k \notin {"cards", "rewrite", "reparse", "read", "work", "write"}
  BY Kinds
<1>15. todo[1].k \in {"cards", "rewrite", "reparse"} => ~IsLoop(todo[1]) /\ todo[1].k # "resize"
  BY Kinds
<1>16. CASE L > C
  <2>1. IsLoop(todo[1]) \/ (todo[1].k = "resize" /\ ~Copies(op))
    BY <1>8, <1>16
  <2>2. ~Copies(op) => L # 3 /\ L # 2 /\ L # 1
    BY <1>1, <1>13, <1>16
  <2> QED BY <1>1, <1>7, <1>14, <1>16, <2>1, <2>2 DEF L, t, C
<1>17. CASE ~(L > C)
  <2>1. ~Copies(op) /\ (L = 1 \/ L = 2 \/ L = 3)
    BY <1>9, <1>17
  <2> QED BY <1>1, <1>7, <1>10, <1>11, <1>12, <1>15, <1>17, <2>1 DEF L, t, C
<1> QED BY <1>16, <1>17

\* Where no step on the data unit is pending, it is the one to be.
LEMMA ArrivedFrom ==
    ASSUME NEW todo, Listed(todo), NEW op, NEW v, Shaped(todo, op, v), Len(todo) <= Closing(op),
           NEW n, NEW d, NEW old, Landed(todo, n, op, v, d, old), Sized(todo, op, v, d)
    PROVE  /\ d.size = NewSize(op, v)
           /\ \A y \in 0 .. NewSize(op, v) - 1 : d.at[y] = Target(op, v, old, y)
<1> DEFINE L == Len(todo)
<1>1. L \in Nat /\ DOMAIN todo = 1 .. L /\ L <= Closing(op)
  BY ListedFacts
<1>2. ASSUME NEW a \in DOMAIN todo PROVE ~IsLoop(todo[a]) /\ todo[a].k # "resize"
  <2>1. ~Copies(op) /\ L <= 3
    BY <1>1, <1>2 DEF Closing
  <2>2. /\ L >= 3 => todo[L - 2].k = "cards"
        /\ L >= 2 => todo[L - 1].k = "rewrite"
        /\ L >= 1 => todo[L].k = "reparse"
    BY <2>1 DEF Shaped
  <2> HIDE DEF L
  <2>3. (L >= 1 /\ a = L) \/ (L >= 2 /\ a = L - 1) \/ (L >= 3 /\ a = L - 2)
    BY <1>1, <1>2, <2>1
  <2>4. todo[a].k \in {"cards", "rewrite", "reparse"}
    BY <2>2, <2>3
  <2> QED BY <2>4, Kinds
<1>3. d.size = NewSize(op, v)
  BY <1>2 DEF Sized
<1>4. \A y \in 0 .. NewSize(op, v) - 1 : d.at[y] = Target(op, v, old, y)
  BY <1>2 DEF Landed, Pending
<1> QED BY <1>3, <1>4

\* The size of the table, and of the table to be.
LEMMA ViewSizes ==
    ASSUME NEW v, ViewOK(v)
    PROVE  /\ v.cols \in Seq(Column) /\ Len(v.cols) \in Nat
           /\ v.naxis1 \in Nat /\ v.naxis2 \in Nat /\ Heap \in Nat
           /\ v.naxis1 * v.naxis2 \in Nat
           /\ SizeOf(v) = v.naxis1 * v.naxis2 + Heap /\ SizeOf(v) \in Nat
<1>1. v.cols \in Seq(Column) /\ v.naxis1 = RowWidth(v.cols) /\ v.naxis2 \in Nat
  BY DEF ViewOK
<1>2. v.naxis1 \in Nat
  BY <1>1, OffsetOrder
<1>3. Heap \in Nat
  BY BinTableAssumption
<1>4. v.naxis1 * v.naxis2 \in Nat
  BY <1>1, <1>2, Times
<1>5. Len(v.cols) \in Nat
  BY <1>1, ColumnTypes
<1> QED BY <1>1, <1>2, <1>3, <1>4, <1>5 DEF SizeOf

\* The sizes of the table to be.
LEMMA NewSizes ==
    ASSUME NEW v, ViewOK(v), NEW op, OpOK(op, v)
    PROVE  /\ NewCols(op, v) \in Seq(Column) /\ NewWidth(op, v) = RowWidth(NewCols(op, v))
           /\ NewWidth(op, v) \in Nat /\ NewRows(op, v) \in Nat
           /\ NewWidth(op, v) * NewRows(op, v) \in Nat
           /\ NewSize(op, v) = NewWidth(op, v) * NewRows(op, v) + Heap /\ NewSize(op, v) \in Nat
<1>1. /\ v.cols \in Seq(Column) /\ Len(v.cols) \in Nat /\ v.naxis1 = RowWidth(v.cols)
      /\ v.naxis1 \in Nat /\ v.naxis2 \in Nat /\ Heap \in Nat
  BY ViewSizes DEF ViewOK
<1>2. NewRows(op, v) \in Nat
  <2>1. CASE op.op = "insertRows"
    BY <2>1, <1>1 DEF OpOK, NewRows
  <2>2. CASE op.op = "deleteRows"
    BY <2>2, <1>1 DEF OpOK, NewRows
  <2>3. CASE op.op \notin {"insertRows", "deleteRows"}
    BY <2>3, <1>1 DEF NewRows
  <2> QED BY <2>1, <2>2, <2>3
<1>3. /\ NewCols(op, v) \in Seq(Column) /\ NewWidth(op, v) = RowWidth(NewCols(op, v))
  <2>1. CASE op.op = "insertColumn"
    <3>1. op.at \in 1 .. Len(v.cols) + 1 /\ op.col \in Column
      BY <2>1 DEF OpOK
    <3>2. /\ InsertAt(v.cols, op.at, op.col) \in Seq(Column)
          /\ RowWidth(InsertAt(v.cols, op.at, op.col)) = RowWidth(v.cols) + Width[op.col]
      BY <3>1, <1>1, OffsetInsert
    <3> QED BY <3>2, <2>1, <1>1 DEF NewCols, NewWidth, Delta
  <2>2. CASE op.op = "deleteColumn"
    <3>1. op.at \in 1 .. Len(v.cols)
      BY <2>2 DEF OpOK
    <3>2. /\ RemoveAt(v.cols, op.at) \in Seq(Column)
          /\ RowWidth(RemoveAt(v.cols, op.at)) = RowWidth(v.cols) - Width[v.cols[op.at]]
      BY <3>1, <1>1, OffsetRemove
    <3>3. Width[v.cols[op.at]] \in Nat
      BY <3>1, <1>1, ColumnTypes
    <3>4. NewCols(op, v) = RemoveAt(v.cols, op.at) /\ Delta(op, v) = 0 - Width[v.cols[op.at]]
      BY <2>2 DEF NewCols, Delta
    <3> DEFINE W == Width[v.cols[op.at]] R == RowWidth(v.cols) D == Delta(op, v)
    <3>5. W \in Nat /\ R \in Nat /\ D = 0 - W
      BY <3>3, <3>4, <1>1
    <3> HIDE DEF W, R, D
    <3>6. R + D = R - W
      BY <3>5
    <3> QED BY <3>2, <3>4, <3>6, <1>1 DEF NewWidth, W, R, D
  <2>3. CASE op.op \notin {"insertColumn", "deleteColumn"}
    <3>1. NewCols(op, v) = v.cols /\ Delta(op, v) = 0
      BY <2>3 DEF NewCols, Delta
    <3> QED BY <3>1, <1>1 DEF NewWidth
  <2> QED BY <2>1, <2>2, <2>3
<1>4. NewWidth(op, v) \in Nat
  BY <1>3, OffsetOrder
<1>5. NewWidth(op, v) * NewRows(op, v) \in Nat
  BY <1>2, <1>4, Times
<1> QED BY <1>1, <1>2, <1>3, <1>4, <1>5 DEF NewSize

\* A cell that an edit may not touch is in the data unit, before and after, and it is where
\* it comes from.
LEMMA ApartSame ==
    ASSUME NEW v, NEW op, NEW d, ViewOK(v), OpOK(op, v), DataOK(d), d.size = SizeOf(v),
           op.op # "iterate", NEW k \in ApartIn(op, v, d)
    PROVE  /\ k \in Nat /\ k < SizeOf(v) /\ k < NewSize(op, v)
           /\ Origin(op, v, k) = k
<1> DEFINE w == v.naxis1 R == v.naxis2 S == SizeOf(v) W == NewWidth(op, v) M == NewRows(op, v)
           T == NewSize(op, v)
<1>1. /\ w \in Nat /\ R \in Nat /\ Heap \in Nat /\ S = w * R + Heap /\ S \in Nat
      /\ w * R \in Nat
  BY ViewSizes
<1>2. W \in Nat /\ M \in Nat /\ T = W * M + Heap /\ T \in Nat /\ W * M \in Nat
  BY NewSizes
<1>3. DOMAIN d.at = 0 .. S - 1
  BY DEF DataOK
<1>4. ASSUME op.op \in {"insertRows", "deleteRows", "copyRows", "copyColumn"}
      PROVE  W = w
  BY <1>1, <1>4 DEF NewWidth, Delta
<1>5. CASE op.op \in {"insertRows", "deleteRows"}
  <2>1. k \in 0 .. w * op.at - 1
    BY <1>5 DEF ApartIn
  <2>2. op.at \in Nat /\ op.at <= R /\ op.at <= M
    BY <1>5, <1>1 DEF OpOK, NewRows
  <2> DEFINE a == op.at
  <2>3. a \in Nat /\ a <= R /\ a <= M
    BY <2>2
  <2>4. W = w
    BY <1>4, <1>5
  <2>5. Origin(op, v, k) = IF k < w * a THEN k ELSE Origin(op, v, k)
    BY <1>5 DEF Origin
  <2> HIDE DEF w, R, W, M, a, S, T
  <2>6. w * a \in Nat /\ w * a <= w * R /\ w * a <= w * M
    <3>1. a * w \in Nat /\ w * a = a * w /\ w * R = R * w /\ w * M = M * w
      BY <1>1, <1>2, <2>3, Times
    <3>2. a * w <= R * w /\ a * w <= M * w
      BY <1>1, <1>2, <2>3, TimesOrder
    <3> QED BY <3>1, <3>2
  <2>7. k \in 0 .. w * a - 1
    BY <2>1 DEF w, a
  <2>8. k \in Nat /\ k < w * a
    BY <2>6, <2>7
  <2>9. k < w * R /\ k < w * M /\ w * M \in Nat
    BY <2>6, <2>8, <1>1, <1>2, <2>4
  <2>10. k < S /\ k < T
    BY <1>1, <1>2, <2>4, <2>8, <2>9
  <2>11. Origin(op, v, k) = k
    BY <2>5, <2>8
  <2> QED BY <2>8, <2>10, <2>11 DEF S, T
<1>6. CASE op.op \in {"copyRows", "copyColumn"}
  <2>1. W = w /\ M = R
    BY <1>4, <1>6 DEF NewRows
  <2>2. T = S
    BY <2>1, <1>1, <1>2
  <2>3. k \in 0 .. S - 1
    BY <1>3, <1>6 DEF ApartIn
  <2>4. k \in Nat /\ k < S /\ k < T
    <3> HIDE DEF S, T
    <3> QED BY <2>2, <2>3, <1>1
  <2>5. Origin(op, v, k) = k
    <3>1. CASE op.op = "copyRows"
      <4> DEFINE a == w * op.at b == w * (op.at + op.n)
      <4>1. k \notin a .. b - 1
        BY <3>1 DEF ApartIn
      <4>2. a \in Int /\ b \in Int
        <5>1. op.at \in Nat /\ op.n \in Nat
          BY <3>1 DEF OpOK
        <5>2. op.at + op.n \in Nat
          BY <5>1
        <5> QED BY <5>1, <5>2, <1>1, Times
      <4>3. Origin(op, v, k) = IF a <= k /\ k < b THEN k - a + w * op.from ELSE k
        BY <3>1 DEF Origin
      <4> HIDE DEF a, b
      <4>4. ~(a <= k /\ k < b)
        BY <4>1, <4>2, <2>4
      <4> QED BY <4>3, <4>4
    <3>2. CASE op.op = "copyColumn"
      <4>1. k >= w * R \/ k % w \notin Offset(v.cols, op.at) .. Offset(v.cols, op.at + 1) - 1
        BY <3>2 DEF ApartIn
      <4>2. ~(k < w * R /\ k % w \in Offset(v.cols, op.at) .. Offset(v.cols, op.at + 1) - 1)
        <5> HIDE DEF w, R
        <5> QED BY <4>1, <1>1, <2>4
      <4> QED BY <3>2, <4>2 DEF Origin
    <3> QED BY <3>1, <3>2, <1>6
  <2> QED BY <2>4, <2>5
<1>7. CASE op.op \in {"insertColumn", "deleteColumn"}
  <2> DEFINE f == Offset(v.cols, op.at)
  <2>1. R # 0 /\ k \in 0 .. f - 1
    BY <1>7 DEF ApartIn
  <2>2. v.cols \in Seq(Column) /\ w = RowWidth(v.cols) /\ Len(v.cols) \in Nat
    BY ViewSizes DEF ViewOK
  <2>3. f \in Nat /\ f <= w /\ f <= W
    <3>1. CASE op.op = "insertColumn"
      <4>1. op.at \in 1 .. Len(v.cols) + 1 /\ op.col \in Column
        BY <3>1 DEF OpOK
      <4>2. Len(v.cols) + 1 \in 1 .. Len(v.cols) + 1 /\ op.at <= Len(v.cols) + 1
        BY <4>1, <2>2
      <4>3. f \in Nat /\ f <= w
        BY <4>1, <4>2, <2>2, OffsetOrder, OffsetSteps DEF RowWidth
      <4>4. W = w + Width[op.col] /\ Width[op.col] \in Nat
        BY <3>1, <4>1, BinTableAssumption DEF NewWidth, Delta
      <4> HIDE DEF f, w, W
      <4> QED BY <4>3, <4>4, <1>1
    <3>2. CASE op.op = "deleteColumn"
      <4>1. op.at \in 1 .. Len(v.cols) /\ op.at \in 1 .. Len(v.cols) + 1
        BY <3>2, <2>2 DEF OpOK
      <4> DEFINE u == Width[v.cols[op.at]]
      <4>2. f + u <= w /\ u \in Nat /\ f \in Nat
        BY <4>1, <2>2, OffsetOrder, OffsetSteps
      <4>3. W = w + (0 - u)
        BY <3>2 DEF NewWidth, Delta
      <4> HIDE DEF f, w, W, u
      <4> QED BY <4>2, <4>3, <1>1
    <3> QED BY <3>1, <3>2, <1>7
  <2>4. M = R
    BY <1>7 DEF NewRows
  <2>5. /\ k < W * R => Origin(op, v, k) = RowOrigin(f, Delta(op, v), w, k)
        /\ W = w + Delta(op, v)
    BY <1>7 DEF Origin, NewWidth
  <2> DEFINE D == Delta(op, v)
  <2>6. RowOrigin(f, D, w, k) = IF k % (w + D) < f THEN (k \div (w + D)) * w + (k % (w + D))
                                ELSE RowOrigin(f, D, w, k)
    BY DEF RowOrigin
  <2>7. W = w + D
    BY <2>5
  <2>8. k < W * R => Origin(op, v, k) = RowOrigin(f, D, w, k)
    BY <2>5
  <2> HIDE DEF f, D, w, W, R, S, T, M
  <2>9. k \in Nat /\ k < f /\ k < w /\ k < W /\ w # 0 /\ W \in Nat \ {0}
    BY <2>1, <2>3, <1>1, <1>2
  <2>10. w <= w * R /\ W <= W * R
    <3>1. 1 <= R /\ 1 \in Nat
      BY <2>1, <1>1
    <3>2. 1 * w <= R * w /\ 1 * W <= R * W
      BY <3>1, <1>1, <1>2, TimesOrder
    <3>3. R * w = w * R /\ R * W = W * R
      BY <1>1, <1>2, Times
    <3> QED BY <3>2, <3>3, <1>1, <1>2
  <2>11. k < w * R /\ k < W * R
    BY <2>9, <2>10, <1>1, <1>2, <2>4
  <2>12. k < S /\ k < T
    BY <2>11, <2>9, <1>1, <1>2, <2>4
  <2>13. k \div W = 0 /\ k % W = k
    <3>1. (0 * W + k) \div W = 0 /\ (0 * W + k) % W = k
      BY <2>9, RowPlace
    <3>2. 0 * W + k = k
      BY <2>9
    <3> QED BY <3>1, <3>2
  <2>14. RowOrigin(f, D, w, k) = 0 * w + k
    BY <2>6, <2>7, <2>9, <2>13
  <2>15. Origin(op, v, k) = k
    BY <2>8, <2>11, <2>14, <2>9, <1>1
  <2> QED BY <2>9, <2>12, <2>15 DEF S, T
<1> QED BY <1>5, <1>6, <1>7 DEF OpOK

\* So it is what the table to be holds there.
LEMMA ApartTarget ==
    ASSUME NEW v, NEW op, NEW d, ViewOK(v), OpOK(op, v), DataOK(d), d.size = SizeOf(v),
           op.op # "iterate", NEW k \in ApartIn(op, v, d)
    PROVE  /\ k \in Nat /\ k < SizeOf(v) /\ k < NewSize(op, v)
           /\ Target(op, v, d, k) = d.at[k]
<1>1. k \in Nat /\ k < SizeOf(v) /\ k < NewSize(op, v) /\ Origin(op, v, k) = k
  BY ApartSame
<1>2. k # -1
  BY <1>1
<1> QED BY <1>1, <1>2 DEF Target, Sourced

-----------------------------------------------------------------------------
(* The steps of an edit.                                                     *)

\* The call goes on.
SameCall(j, k) ==
    IsJob(k) /\ k.op = j.op /\ k.data = j.data /\ k.disk = j.disk /\ k.view = j.view

\* The list of steps changes.
Put(j, t, n) == [j EXCEPT !.todo = t, !.done = n]

\* The call with another list of steps.
LEMMA JobPuts ==
    ASSUME NEW j, IsJob(j), NEW t, NEW n, NEW k, k = Put(j, t, n)
    PROVE  SameCall(j, k) /\ k.pc = j.pc /\ k.todo = t /\ k.done = n /\ k.window = j.window
<1> DEFINE m == [j EXCEPT !.todo = t]
<1>1. j = [pc |-> j.pc, op |-> j.op, todo |-> j.todo, done |-> j.done, window |-> j.window,
           data |-> j.data, disk |-> j.disk, view |-> j.view]
  BY DEF IsJob
<1>2. m = [pc |-> j.pc, op |-> j.op, todo |-> t, done |-> j.done, window |-> j.window,
           data |-> j.data, disk |-> j.disk, view |-> j.view]
  BY <1>1
<1>3. k = [m EXCEPT !.done = n]
  BY DEF Put
<1> HIDE DEF m
<1>4. k = [pc |-> j.pc, op |-> j.op, todo |-> t, done |-> n, window |-> j.window,
           data |-> j.data, disk |-> j.disk, view |-> j.view]
  BY <1>2, <1>3
<1> QED BY <1>4 DEF SameCall, IsJob

\* A loop has written n more of its units.
LEMMA JobAdvances ==
    ASSUME NEW j, IsJob(j), NEW n,
           NEW k, k = [j EXCEPT !.done = @ + n]
    PROVE  SameCall(j, k) /\ k.pc = j.pc /\ k.todo = j.todo /\ k.done = j.done + n /\ k.window = j.window
<1>1. j = [pc |-> j.pc, op |-> j.op, todo |-> j.todo, done |-> j.done, window |-> j.window,
           data |-> j.data, disk |-> j.disk, view |-> j.view]
  BY DEF IsJob
<1>2. k = [pc |-> j.pc, op |-> j.op, todo |-> j.todo, done |-> j.done + n, window |-> j.window,
           data |-> j.data, disk |-> j.disk, view |-> j.view]
  BY <1>1
<1>3. SameCall(j, k) /\ k.pc = j.pc /\ k.todo = j.todo /\ k.done = j.done + n /\ k.window = j.window
  BY <1>2 DEF SameCall, IsJob
<1> QED BY <1>3

\* The call has failed.
LEMMA JobFails ==
    ASSUME NEW j, IsJob(j),
           NEW k, k = [j EXCEPT !.pc = "failed"]
    PROVE  SameCall(j, k) /\ k.pc = "failed" /\ k.todo = j.todo /\ k.done = j.done /\ k.window = j.window
<1>1. j = [pc |-> j.pc, op |-> j.op, todo |-> j.todo, done |-> j.done, window |-> j.window,
           data |-> j.data, disk |-> j.disk, view |-> j.view]
  BY DEF IsJob
<1>2. k = [pc |-> "failed", op |-> j.op, todo |-> j.todo, done |-> j.done, window |-> j.window,
           data |-> j.data, disk |-> j.disk, view |-> j.view]
  BY <1>1
<1>3. SameCall(j, k) /\ k.pc = "failed" /\ k.todo = j.todo /\ k.done = j.done /\ k.window = j.window
  BY <1>2 DEF SameCall, IsJob
<1> QED BY <1>3

\* A window has been read.
LEMMA JobWindow ==
    ASSUME NEW j, IsJob(j), NEW w,
           NEW k, k = [j EXCEPT !.window = w]
    PROVE  SameCall(j, k) /\ k.pc = j.pc /\ k.todo = j.todo /\ k.done = j.done /\ k.window = w
<1>1. j = [pc |-> j.pc, op |-> j.op, todo |-> j.todo, done |-> j.done, window |-> j.window,
           data |-> j.data, disk |-> j.disk, view |-> j.view]
  BY DEF IsJob
<1>2. k = [pc |-> j.pc, op |-> j.op, todo |-> j.todo, done |-> j.done, window |-> w,
           data |-> j.data, disk |-> j.disk, view |-> j.view]
  BY <1>1
<1>3. SameCall(j, k) /\ k.pc = j.pc /\ k.todo = j.todo /\ k.done = j.done /\ k.window = w
  BY <1>2 DEF SameCall, IsJob
<1> QED BY <1>3

\* There is more to do first.
LEMMA JobGets ==
    ASSUME NEW j, IsJob(j), NEW more,
           NEW k, k = [j EXCEPT !.todo = more]
    PROVE  SameCall(j, k) /\ k.pc = j.pc /\ k.todo = more /\ k.done = j.done /\ k.window = j.window
<1>1. j = [pc |-> j.pc, op |-> j.op, todo |-> j.todo, done |-> j.done, window |-> j.window,
           data |-> j.data, disk |-> j.disk, view |-> j.view]
  BY DEF IsJob
<1>2. k = [pc |-> j.pc, op |-> j.op, todo |-> more, done |-> j.done, window |-> j.window,
           data |-> j.data, disk |-> j.disk, view |-> j.view]
  BY <1>1
<1>3. SameCall(j, k) /\ k.pc = j.pc /\ k.todo = more /\ k.done = j.done /\ k.window = j.window
  BY <1>2 DEF SameCall, IsJob
<1> QED BY <1>3

\* What the invariant says of a call under way.
LEMMA CallFacts ==
    ASSUME TableInv, job.pc \in {"run", "failed"}
    PROVE  /\ job # NoJob /\ ~damaged /\ JobOK /\ IsJob(job)
           /\ TableOK(job.disk, job.view, job.data) /\ OpOK(job.op, job.view)
           /\ HeaderOK(job.disk) /\ job.view = Viewed(job.disk) /\ DataOK(job.data)
           /\ job.data.size = SizeOf(job.view)
           /\ DataOK(data) /\ Listed(job.todo)
           /\ ViewOK(job.view) /\ job.view.naxis1 \in Nat
           /\ SizeOf(job.view) \in Nat /\ NewSize(job.op, job.view) \in Nat
<1>1. job # NoJob
  BY DEF NoJob
<1>2. ~damaged /\ JobOK
  BY <1>1 DEF TableInv
<1>3. /\ IsJob(job) /\ TableOK(job.disk, job.view, job.data) /\ OpOK(job.op, job.view)
      /\ DataOK(data) /\ Listed(job.todo)
  BY <1>2 DEF JobOK
<1>4. /\ HeaderOK(job.disk) /\ job.view = Viewed(job.disk) /\ DataOK(job.data)
      /\ job.data.size = SizeOf(job.view)
  BY <1>3 DEF TableOK
<1>5. ViewOK(job.view)
  BY <1>4, ViewOf
<1>6. job.view.naxis1 \in Nat /\ SizeOf(job.view) \in Nat
  BY <1>5, ViewSizes
<1>7. NewSize(job.op, job.view) \in Nat
  BY <1>3, <1>5, NewSizes
<1> QED BY <1>1, <1>2, <1>3, <1>4, <1>5, <1>6, <1>7

\* The invariant of a call that goes on.
LEMMA CallGoesOn ==
    ASSUME TableInv, job.pc \in {"run", "failed"}, SameCall(job, job'),
           job'.pc \in {"run", "failed"}, damaged' = damaged,
           DataOK(data'), Listed(job'.todo),
           job.op.op = "iterate" => IterateInv',
           job.op.op # "iterate" => EditInv'
    PROVE  TableInv'
<1>1. /\ ~damaged /\ TableOK(job.disk, job.view, job.data) /\ OpOK(job.op, job.view)
  BY CallFacts
<1>2. /\ IsJob(job') /\ job'.op = job.op /\ job'.data = job.data /\ job'.disk = job.disk
      /\ job'.view = job.view
  BY DEF SameCall
<1>3. JobOK'
  BY <1>1, <1>2 DEF JobOK
<1>4. job' # NoJob'
  BY DEF NoJob
<1> QED BY <1>1, <1>3, <1>4 DEF TableInv

\* An edit whose cells change only to those of the table to be leaves alone what it may not
\* touch.
LEMMA KeptStays ==
    ASSUME TableInv, job.pc = "run", job.op.op # "iterate", SameCall(job, job'),
           \A y \in Nat : y < NewSize(job.op, job.view) /\ y < data.size =>
               /\ y < data'.size
               /\ \/ data'.at[y] = data.at[y]
                  \/ data'.at[y] = Target(job.op, job.view, job.data, y)
    PROVE  Kept'
<1>1. Kept
  <2>1. JobOK
    BY CallFacts
  <2> QED BY <2>1 DEF JobOK, EditInv
<1>2. job'.op = job.op /\ job'.data = job.data /\ job'.view = job.view
  BY DEF SameCall
<1>3. ASSUME NEW k \in ApartIn(job.op, job.view, job.data)
      PROVE  k < data'.size /\ data'.at[k] = job.data.at[k]
  <2>1. k < data.size /\ data.at[k] = job.data.at[k]
    BY <1>1 DEF Kept
  <2>2. /\ ViewOK(job.view) /\ OpOK(job.op, job.view) /\ DataOK(job.data)
        /\ job.data.size = SizeOf(job.view)
    BY CallFacts
  <2>3. /\ k \in Nat /\ k < NewSize(job.op, job.view)
        /\ Target(job.op, job.view, job.data, k) = job.data.at[k]
    BY <2>2, ApartTarget
  <2> QED BY <2>1, <2>3
<1> QED BY <1>2, <1>3 DEF Kept

\* An edit that has steps to take: the first one, and what is left after it.
LEMMA EditFacts ==
    ASSUME TableInv, job.pc = "run", job.todo # <<>>, job.op.op # "iterate"
    PROVE  /\ Listed(job.todo) /\ Now = job.todo[1] /\ view = job.view
           /\ EditInv
           /\ PlanOK(job.todo, job.op, job.view) /\ DoneOK(job.todo, job.done)
           /\ Landed(job.todo, job.done, job.op, job.view, data, job.data)
           /\ Unread(job.todo, job.done, job.view, data, job.data)
           /\ Sized(job.todo, job.op, job.view, data)
           /\ Shaped(job.todo, job.op, job.view) /\ Shaped(Tail(job.todo), job.op, job.view)
           /\ Len(job.todo) \in Nat /\ Len(job.todo) >= 1
           /\ Len(Tail(job.todo)) = Len(job.todo) - 1
           /\ Closing(job.op) = (IF Copies(job.op) THEN 0 ELSE 3)
           /\ HeaderStage(Len(job.todo), job.op, job)
           /\ Copies(job.op) => data.size = job.data.size
<1>1. JobOK /\ Listed(job.todo)
  BY CallFacts
<1>2. EditInv
  BY <1>1 DEF JobOK
<1>3. /\ Shaped(job.todo, job.op, job.view)
      /\ HeaderStage(Len(job.todo), job.op, job)
      /\ Copies(job.op) => data.size = job.data.size
      /\ PlanOK(job.todo, job.op, job.view) /\ DoneOK(job.todo, job.done)
      /\ Landed(job.todo, job.done, job.op, job.view, data, job.data)
      /\ Unread(job.todo, job.done, job.view, data, job.data)
      /\ Sized(job.todo, job.op, job.view, data)
  BY <1>2 DEF EditInv, Staged, Planned, OnCourse
<1>4. /\ Shaped(Tail(job.todo), job.op, job.view)
      /\ Len(job.todo) \in Nat /\ Len(job.todo) >= 1
      /\ Len(Tail(job.todo)) = Len(job.todo) - 1
  BY <1>1, <1>3, ShapedTail
<1>5. Now = job.todo[1]
  BY <1>1, ListedFacts DEF Now
<1>6. view = job.view
  BY <1>3, <1>4 DEF HeaderStage
<1> QED BY <1>1, <1>2, <1>3, <1>4, <1>5, <1>6 DEF Closing

\* Steps on the data unit leave the header alone.
LEMMA HeaderStays ==
    ASSUME job.pc = "run", SameCall(job, job'), NEW L \in Nat, L > Closing(job.op),
           HeaderStage(L, job.op, job), UNCHANGED <<disk, hdr, view>>,
           Len(job'.todo) \in Nat, Len(job'.todo) >= Closing(job.op)
    PROVE  Staged'
<1> DEFINE M == Len(job'.todo)
<1>1. /\ job'.op = job.op /\ job'.disk = job.disk /\ job'.view = job.view
      /\ M \in Nat /\ M >= Closing(job.op)
  BY DEF SameCall
<1> HIDE DEF M
<1>2. CASE Copies(job.op)
  <2>1. disk = job.disk /\ hdr = disk /\ view = job.view
    BY <1>2 DEF HeaderStage
  <2>2. Staged'
    BY <1>1, <1>2, <2>1 DEF Staged, HeaderStage, M
  <2> QED BY <2>2
<1>3. CASE ~Copies(job.op)
  <2>1. L >= 2 /\ L >= 3 /\ L >= 1 /\ M >= 2 /\ M >= 3 /\ M >= 1 /\ ~(M <= 1)
    BY <1>1, <1>3 DEF Closing
  <2>2. disk = job.disk /\ hdr = job.disk /\ view = job.view
    BY <1>3, <2>1 DEF HeaderStage
  <2>3. Staged'
    BY <1>1, <1>3, <2>1, <2>2 DEF Staged, HeaderStage, M
  <2> QED BY <2>3
<1> QED BY <1>2, <1>3

\* A write of a loop, as the code makes it.
LEMMA WriteFits ==
    ASSUME TableInv, job.pc = "run", job.todo # <<>>, job.op.op # "iterate", IsLoop(Now),
           NEW w, w = LoopWrite(Now, job.done)
    PROVE  /\ job.done \in Nat /\ job.done < job.todo[1].units
           /\ Fits(job.todo[1], job.view, job.done, w)
           /\ Brings(job.todo[1], job.view, job.done, w, data)
<1>1. /\ Listed(job.todo) /\ Now = job.todo[1] /\ view = job.view
      /\ PlanOK(job.todo, job.op, job.view) /\ DoneOK(job.todo, job.done)
  BY EditFacts
<1>2. 1 \in DOMAIN job.todo
  BY <1>1, ListedFacts
<1>3. LoopOK(job.todo[1], job.op, job.view)
  BY <1>1, <1>2 DEF PlanOK
<1>4. StepOK(job.todo[1], job.view) /\ job.todo[1].units \in Nat \ {0}
  BY <1>3 DEF LoopOK, StepOK
<1>5. job.done \in Nat /\ job.done < job.todo[1].units
  <2>1. job.done \in Nat /\ (job.done # 0 => job.done < job.todo[1].units)
    BY <1>1 DEF DoneOK
  <2> QED BY <2>1, <1>4
<1>6. job.view.naxis1 \in Nat
  BY CallFacts
<1> QED BY <1>1, <1>4, <1>5, <1>6, LoopFits

\* A write of a loop.
LEMMA EditTransfer ==
    ASSUME TableInv, Transfer, job.op.op # "iterate"
    PROVE  TableInv'
<1> DEFINE op == job.op v == job.view todo == job.todo n == job.done old == job.data
           w == LoopWrite(Now, job.done)
<1>1. /\ job.pc = "run" /\ todo # <<>> /\ Now.k \in Loops
      /\ data' = Written(data, w.off, w.len, w.cells)
      /\ job' = IF n + w.units < Now.units THEN [job EXCEPT !.done = @ + w.units] ELSE Done
      /\ UNCHANGED <<disk, hdr, view, faults, edits, damaged, others>>
  BY DEF Transfer, Step, Now
<1>2. /\ Listed(todo) /\ Now = todo[1] /\ view = v
      /\ PlanOK(todo, op, v) /\ DoneOK(todo, n)
      /\ Landed(todo, n, op, v, data, old) /\ Unread(todo, n, v, data, old)
      /\ Sized(todo, op, v, data) /\ Shaped(todo, op, v) /\ Shaped(Tail(todo), op, v)
      /\ Len(todo) \in Nat /\ Len(todo) >= 1 /\ Len(Tail(todo)) = Len(todo) - 1
      /\ Closing(op) = (IF Copies(op) THEN 0 ELSE 3)
      /\ HeaderStage(Len(todo), op, job) /\ (Copies(op) => data.size = old.size)
  BY <1>1, EditFacts
<1>3. /\ DataOK(data) /\ v.naxis1 \in Nat /\ SizeOf(v) \in Nat /\ NewSize(op, v) \in Nat
      /\ IsJob(job)
  BY <1>1, CallFacts
<1>4. IsLoop(todo[1]) /\ Len(todo) > Closing(op)
  <2>1. todo[1].k \notin {"read", "work", "write"}
    BY <1>1, <1>2, ShapedTail
  <2>2. IsLoop(todo[1])
    BY <1>1, <1>2, <2>1 DEF Loops, IsLoop
  <2> QED BY <2>2, <1>1, <1>2, ShapedTail
<1>5. n \in Nat /\ n < todo[1].units /\ Fits(todo[1], v, n, w) /\ Brings(todo[1], v, n, w, data)
  BY <1>1, <1>2, <1>4, WriteFits
<1>6. w.len \in Nat /\ w.len <= w.len
  BY <1>5 DEF Fits
<1> HIDE DEF op, v, todo, n, old, w
<1>7. /\ DataOK(data') /\ data'.size = data.size /\ NewSize(op, v) <= data.size
      /\ \A y \in Nat : y < data.size => data'.at[y] = data.at[y] \/
            (w.off <= y /\ y < w.off + w.len /\ data'.at[y] = Target(op, v, old, y)
             /\ y < NewSize(op, v))
  BY <1>1, <1>2, <1>3, <1>4, <1>5, <1>6, WriteStep
<1> DEFINE rest == job'.todo m == job'.done
<1>8. /\ SameCall(job, job') /\ job'.pc = "run"
      /\ IF n + w.units < todo[1].units THEN rest = todo /\ m = n + w.units
         ELSE rest = Tail(todo) /\ m = 0
  <2>1. CASE n + w.units < Now.units
    <3>1. job' = [job EXCEPT !.done = @ + w.units]
      BY <1>1, <2>1
    <3>2. SameCall(job, job') /\ job'.pc = job.pc /\ job'.todo = job.todo
          /\ job'.done = job.done + w.units
      BY <3>1, <1>3, JobAdvances
    <3> QED BY <3>2, <2>1, <1>1, <1>2 DEF todo, n
  <2>2. CASE ~(n + w.units < Now.units)
    <3>1. job' = Put(job, Tail(job.todo), 0)
      BY <1>1, <2>2 DEF Done, Put
    <3>2. SameCall(job, job') /\ job'.pc = job.pc /\ job'.todo = Tail(job.todo) /\ job'.done = 0
      BY <3>1, <1>3, JobPuts
    <3> QED BY <3>2, <2>2, <1>1, <1>2 DEF todo, n
  <2> QED BY <2>1, <2>2
<1> HIDE DEF rest, m
<1>9. Listed(rest) /\ OnCourse(rest, m, op, v, data', old)
  <2>1. rest = Rest(todo, n, w.units) /\ m = RestDone(todo, n, w.units)
    BY <1>8 DEF Rest, RestDone
  <2>2. OnCourse(todo, n, op, v, data, old)
    BY <1>2 DEF OnCourse
  <2>3. data' = Written(data, w.off, w.len, w.cells)
    BY <1>1
  <2>4. /\ Listed(Rest(todo, n, w.units))
        /\ OnCourse(Rest(todo, n, w.units), RestDone(todo, n, w.units), op, v, data', old)
    BY <2>2, <2>3, <1>1, <1>2, <1>3, <1>4, <1>5, WriteGoesOn
  <2> QED BY <2>1, <2>4
<1>10. Shaped(rest, op, v) /\ Len(rest) \in Nat /\ Len(rest) >= Closing(op)
  <2>1. Closing(op) \in Nat
    BY <1>2
  <2>2. Len(todo) >= Closing(op) /\ Len(todo) - 1 >= Closing(op) /\ Len(todo) - 1 \in Nat
    BY <2>1, <1>2, <1>4
  <2> QED BY <2>2, <1>2, <1>8
<1>11. job'.op = op /\ job'.view = v /\ job'.data = old
  BY <1>8 DEF SameCall, op, v, old
<1>12. Staged'
  BY <1>1, <1>2, <1>4, <1>8, <1>10, HeaderStays DEF op, rest
<1>13. Kept'
  <2>1. job.pc = "run"
    BY <1>1
  <2>2. \A y \in Nat : y < NewSize(job.op, job.view) /\ y < data.size =>
               /\ y < data'.size
               /\ \/ data'.at[y] = data.at[y]
                  \/ data'.at[y] = Target(job.op, job.view, job.data, y)
    BY <1>7 DEF op, v, old
  <2> QED BY <2>1, <2>2, <1>8, KeptStays
<1>14. Arrived'
  <2>1. Len(rest) <= Closing(op) =>
          /\ data'.size = NewSize(op, v)
          /\ \A y \in 0 .. NewSize(op, v) - 1 : data'.at[y] = Target(op, v, old, y)
    BY <1>9, <1>10, ArrivedFrom DEF OnCourse
  <2> QED BY <2>1, <1>11 DEF Arrived, rest
<1>15. EditInv'
  <2>1. Shaped(job'.todo, job'.op, job'.view) /\ (Copies(job'.op) => data'.size = job'.data.size)
    BY <1>2, <1>7, <1>10, <1>11 DEF rest
  <2>2. Planned'
    BY <1>9, <1>11 DEF Planned, rest, m
  <2> QED BY <2>1, <2>2, <1>12, <1>13, <1>14 DEF EditInv
<1>16. Listed(job'.todo) /\ job.pc \in {"run", "failed"} /\ job'.pc \in {"run", "failed"}
       /\ damaged' = damaged
  BY <1>1, <1>8, <1>9 DEF rest
<1> QED BY <1>7, <1>8, <1>15, <1>16, CallGoesOn

\* An edit that fails leaves behind what it has done.
LEMMA EditFails ==
    ASSUME TableInv, job.pc = "run", job.todo # <<>>, job.op.op # "iterate", Fails, disk' = disk,
           Copies(job.op) => hdr' = hdr /\ data'.size = data.size,
           DataOK(data'),
           Len(job.todo) <= Closing(job.op) => data' = data,
           \A y \in Nat : y < NewSize(job.op, job.view) /\ y < data.size =>
               /\ y < data'.size
               /\ \/ data'.at[y] = data.at[y]
                  \/ data'.at[y] = Target(job.op, job.view, job.data, y)
    PROVE  TableInv'
<1>1. /\ Listed(job.todo) /\ view = job.view /\ EditInv
      /\ Shaped(job.todo, job.op, job.view)
      /\ Len(job.todo) \in Nat /\ Len(job.todo) >= 1
      /\ HeaderStage(Len(job.todo), job.op, job)
      /\ Copies(job.op) => data.size = job.data.size
  BY EditFacts
<1>2. IsJob(job)
  BY CallFacts
<1>3. job' = [job EXCEPT !.pc = "failed"] /\ view' = view /\ damaged' = damaged
  BY DEF Fails
<1>4. SameCall(job, job') /\ job'.pc = "failed" /\ job'.todo = job.todo
  BY <1>2, <1>3, JobFails
<1>5. /\ job'.op = job.op /\ job'.data = job.data /\ job'.disk = job.disk
      /\ job'.view = job.view
  BY <1>4 DEF SameCall
<1>6. Kept'
  BY <1>4, KeptStays
<1>7. Arrived'
  <2>1. Arrived
    BY <1>1 DEF EditInv
  <2>2. CASE Len(job.todo) <= Closing(job.op)
    <3>1. data' = data
      BY <2>2
    <3> QED BY <3>1, <2>1, <2>2, <1>4, <1>5 DEF Arrived
  <2>3. CASE ~(Len(job.todo) <= Closing(job.op))
    BY <2>3, <1>4, <1>5 DEF Arrived
  <2> QED BY <2>2, <2>3
<1>8. Staged'
  <2> DEFINE L == Len(job.todo)
  <2>1. CASE Copies(job.op)
    <3>1. disk = job.disk /\ hdr = disk
      BY <1>1, <2>1 DEF HeaderStage
    <3>2. disk' = job'.disk /\ hdr' = disk' /\ view' = job'.view
      BY <3>1, <2>1, <1>1, <1>3, <1>5
    <3> QED BY <3>2, <2>1, <1>5 DEF Staged, HeaderStage
  <2>2. CASE ~Copies(job.op)
    <3>1. IF L >= 2 THEN disk = job.disk ELSE NewHeader(disk, job.op, job.view)
      BY <1>1, <2>2 DEF HeaderStage
    <3>2. IF L >= 2 THEN disk' = job'.disk ELSE NewHeader(disk', job'.op, job'.view)
      BY <3>1, <1>5
    <3>3. view' = job'.view /\ job'.pc = "failed" /\ job'.todo = job.todo
      BY <1>1, <1>3, <1>4, <1>5
    <3> QED BY <3>2, <3>3, <2>2, <1>5 DEF Staged, HeaderStage
  <2> QED BY <2>1, <2>2
<1>9. EditInv'
  <2>1. Shaped(job'.todo, job'.op, job'.view) /\ (Copies(job'.op) => data'.size = job'.data.size)
    BY <1>1, <1>4, <1>5
  <2> QED BY <2>1, <1>4, <1>6, <1>7, <1>8 DEF EditInv
<1>10. Listed(job'.todo) /\ job'.pc \in {"run", "failed"} /\ job.pc \in {"run", "failed"}
  BY <1>1, <1>4
<1> QED BY <1>3, <1>4, <1>9, <1>10, CallGoesOn

\* A write that may have stored a part of its cells.
LEMMA EditTransferFails ==
    ASSUME TableInv, TransferFails, job.op.op # "iterate"
    PROVE  TableInv'
<1> DEFINE op == job.op v == job.view todo == job.todo n == job.done old == job.data
           w == LoopWrite(Now, job.done)
<1>1. /\ job.pc = "run" /\ todo # <<>> /\ Now.k \in Loops /\ Fails
      /\ UNCHANGED <<disk, hdr>>
  BY DEF TransferFails, Step, Now
<1>2. /\ Listed(todo) /\ Now = todo[1] /\ view = v
      /\ PlanOK(todo, op, v) /\ Landed(todo, n, op, v, data, old) /\ Unread(todo, n, v, data, old)
      /\ Sized(todo, op, v, data) /\ Shaped(todo, op, v)
  BY <1>1, EditFacts
<1>3. DataOK(data) /\ v.naxis1 \in Nat /\ SizeOf(v) \in Nat /\ NewSize(op, v) \in Nat
  BY <1>1, CallFacts
<1>4. IsLoop(todo[1]) /\ Len(todo) > Closing(op)
  <2>1. todo[1].k \notin {"read", "work", "write"}
    BY <1>1, <1>2, ShapedTail
  <2>2. IsLoop(todo[1])
    BY <1>1, <1>2, <2>1 DEF Loops, IsLoop
  <2> QED BY <2>2, <1>1, <1>2, ShapedTail
<1>5. n \in Nat /\ n < todo[1].units /\ Fits(todo[1], v, n, w) /\ Brings(todo[1], v, n, w, data)
  BY <1>1, <1>2, <1>4, WriteFits
<1>6. PICK k \in 0 .. w.len - 1 : data' = Written(data, w.off, k, w.cells)
  BY DEF TransferFails
<1>7. k \in Nat /\ k <= w.len
  <2>1. w.len \in Nat
    BY <1>5 DEF Fits
  <2> HIDE DEF w
  <2> QED BY <1>6, <2>1
<1> HIDE DEF op, v, todo, n, old, w
<1>8. /\ DataOK(data') /\ data'.size = data.size
      /\ \A y \in Nat : y < data.size => data'.at[y] = data.at[y] \/
            (w.off <= y /\ y < w.off + k /\ data'.at[y] = Target(op, v, old, y)
             /\ y < NewSize(op, v))
  BY <1>1, <1>2, <1>3, <1>4, <1>5, <1>6, <1>7, WriteStep
<1>9. \A y \in Nat : y < NewSize(job.op, job.view) /\ y < data.size =>
               /\ y < data'.size
               /\ \/ data'.at[y] = data.at[y]
                  \/ data'.at[y] = Target(job.op, job.view, job.data, y)
  BY <1>8 DEF op, v, old
<1>10. ~(Len(job.todo) <= Closing(job.op))
  <2>1. Len(todo) \in Nat /\ Closing(op) \in Nat
    BY <1>2, ListedFacts DEF Closing
  <2> QED BY <2>1, <1>4 DEF op, todo
<1>11. job.todo # <<>>
  BY <1>1 DEF todo
<1> QED BY <1>1, <1>8, <1>9, <1>10, <1>11, EditFails

\* resizeHduData: nothing of the table to be is cut off.
LEMMA ResizeKeeps ==
    ASSUME TableInv, job.pc = "run", job.todo # <<>>, job.op.op # "iterate", Now.k = "resize"
    PROVE  /\ DataOK(Resized(data, Now.n)) /\ Listed(Tail(job.todo))
           /\ Len(job.todo) \in Nat /\ Len(job.todo) > Closing(job.op) /\ ~Copies(job.op)
           /\ \A y \in Nat : y < NewSize(job.op, job.view) /\ y < data.size =>
                 y < Resized(data, Now.n).size /\ Resized(data, Now.n).at[y] = data.at[y]
           /\ OnCourse(Tail(job.todo), 0, job.op, job.view, Resized(data, Now.n), job.data)
<1> DEFINE op == job.op v == job.view todo == job.todo old == job.data e == Resized(data, Now.n)
<1>1. /\ Listed(todo) /\ Now = todo[1]
      /\ PlanOK(todo, op, v) /\ DoneOK(todo, job.done)
      /\ Landed(todo, job.done, op, v, data, old) /\ Unread(todo, job.done, v, data, old)
      /\ Shaped(todo, op, v) /\ Len(todo) \in Nat
  BY EditFacts
<1>2. DataOK(data) /\ v.naxis1 \in Nat /\ NewSize(op, v) \in Nat
  BY CallFacts
<1>3. todo[1].k = "resize" /\ ~IsLoop(todo[1])
  BY <1>1, Kinds
<1>4. job.done = 0
  BY <1>1, <1>3 DEF DoneOK
<1>5. Len(todo) > Closing(op)
  BY <1>1, <1>3, ShapedTail
<1>6. ~Copies(op)
  <2>1. Closing(op) \in {0, 3}
    BY DEF Closing
  <2>2. 1 \in 1 .. Len(todo) - Closing(op)
    <3>1. Closing(op) \in Nat
      BY <2>1
    <3> DEFINE L == Len(todo) C == Closing(op)
    <3>2. L \in Nat /\ C \in Nat /\ L > C
      BY <1>1, <1>5, <3>1
    <3> HIDE DEF L, C
    <3>3. 1 \in 1 .. L - C
      BY <3>2
    <3> QED BY <3>3 DEF L, C
  <2> QED BY <2>2, <1>1, <1>3 DEF Shaped
<1>7. /\ Landed(todo, 0, op, v, data, old) /\ Unread(todo, 0, v, data, old)
      /\ e = Resized(data, todo[1].n) /\ todo # <<>>
  BY <1>1, <1>4
<1> HIDE DEF op, v, todo, old, e
<1>8. /\ Listed(Tail(todo)) /\ PlanOK(Tail(todo), op, v) /\ DoneOK(Tail(todo), 0)
      /\ DataOK(e) /\ e.size = NewSize(op, v)
      /\ \A y \in Nat : y < NewSize(op, v) /\ y < data.size => e.at[y] = data.at[y]
      /\ Sized(Tail(todo), op, v, e) /\ Landed(Tail(todo), 0, op, v, e, old)
      /\ Unread(Tail(todo), 0, v, e, old)
  BY <1>1, <1>2, <1>3, <1>7, ResizeStep
<1>9. /\ DataOK(e) /\ Listed(Tail(todo)) /\ Len(todo) \in Nat /\ Len(todo) > Closing(op)
      /\ ~Copies(op)
      /\ \A y \in Nat : y < NewSize(op, v) /\ y < data.size => y < e.size /\ e.at[y] = data.at[y]
      /\ OnCourse(Tail(todo), 0, op, v, e, old)
  BY <1>1, <1>5, <1>6, <1>8 DEF OnCourse
<1> QED BY <1>9 DEF op, v, todo, old, e

\* A resize that fails before its shift or after it.
LEMMA EditResizeFails ==
    ASSUME TableInv, ResizeFails, job.op.op # "iterate"
    PROVE  TableInv'
<1>1. /\ job.pc = "run" /\ job.todo # <<>> /\ Now.k = "resize" /\ Fails
      /\ UNCHANGED <<disk, hdr>> /\ data' \in {data, Resized(data, Now.n)}
  BY DEF ResizeFails, Step, Now
<1>2. /\ DataOK(Resized(data, Now.n))
      /\ Len(job.todo) \in Nat /\ Len(job.todo) > Closing(job.op) /\ ~Copies(job.op)
      /\ \A y \in Nat : y < NewSize(job.op, job.view) /\ y < data.size =>
            y < Resized(data, Now.n).size /\ Resized(data, Now.n).at[y] = data.at[y]
  BY <1>1, ResizeKeeps
<1>3. DataOK(data)
  BY <1>1, CallFacts
<1>4. ~(Len(job.todo) <= Closing(job.op))
  <2>1. Closing(job.op) \in Nat
    BY DEF Closing
  <2> QED BY <1>2, <2>1
<1>5. DataOK(data')
  BY <1>1, <1>2, <1>3
<1>6. \A y \in Nat : y < NewSize(job.op, job.view) /\ y < data.size =>
         y < data'.size /\ data'.at[y] = data.at[y]
  BY <1>1, <1>2
<1> QED BY <1>1, <1>2, <1>4, <1>5, <1>6, EditFails

\* A change of the cards, a write of the header or its parse fails.
LEMMA EditCallFails ==
    ASSUME TableInv, CallFails \/ CardsFail, job.op.op # "iterate"
    PROVE  TableInv'
<1>1. /\ job.pc = "run" /\ job.todo # <<>> /\ Fails /\ UNCHANGED <<data, disk>>
      /\ Now.k \in {"rewrite", "read", "work", "reparse", "cards"}
      /\ Now.k # "cards" => hdr' = hdr
  BY DEF CallFails, CardsFail, Step, Now
<1>2. DataOK(data)
  BY <1>1, CallFacts
<1>3. /\ Listed(job.todo) /\ Now = job.todo[1] /\ Shaped(job.todo, job.op, job.view)
  BY <1>1, EditFacts
<1>4. ~IsLoop(job.todo[1]) /\ job.todo[1].k # "resize"
  BY <1>1, <1>3, Kinds DEF IsLoop
<1>5. ~Copies(job.op)
  BY <1>1, <1>3, <1>4, ShapedTail
<1> QED BY <1>1, <1>2, <1>5, EditFails

\* The resize of the data unit.
LEMMA EditResize ==
    ASSUME TableInv, Resize, job.op.op # "iterate"
    PROVE  TableInv'
<1>1. /\ job.pc = "run" /\ job.todo # <<>> /\ Now.k = "resize"
      /\ data' = Resized(data, Now.n) /\ job' = Put(job, Tail(job.todo), 0)
      /\ UNCHANGED <<disk, hdr, view, faults, edits, damaged, others>>
  BY DEF Resize, Step, Now, Done, Put
<1>2. /\ DataOK(data') /\ Listed(Tail(job.todo))
      /\ Len(job.todo) \in Nat /\ Len(job.todo) > Closing(job.op) /\ ~Copies(job.op)
      /\ \A y \in Nat : y < NewSize(job.op, job.view) /\ y < data.size =>
            y < data'.size /\ data'.at[y] = data.at[y]
      /\ OnCourse(Tail(job.todo), 0, job.op, job.view, data', job.data)
  BY <1>1, ResizeKeeps
<1>3. /\ Shaped(Tail(job.todo), job.op, job.view)
      /\ Len(Tail(job.todo)) = Len(job.todo) - 1 /\ HeaderStage(Len(job.todo), job.op, job)
  BY <1>1, EditFacts
<1>4. IsJob(job)
  BY <1>1, CallFacts
<1>5. /\ SameCall(job, job') /\ job'.pc = "run" /\ job'.todo = Tail(job.todo) /\ job'.done = 0
  BY <1>1, <1>4, JobPuts
<1>6. job'.op = job.op /\ job'.view = job.view /\ job'.data = job.data
  BY <1>5 DEF SameCall
<1>7. Len(job'.todo) \in Nat /\ Len(job'.todo) >= Closing(job.op)
  <2>1. Closing(job.op) \in Nat
    BY DEF Closing
  <2>2. Len(job'.todo) = Len(job.todo) - 1
    BY <1>3, <1>5
  <2> DEFINE L == Len(job.todo) M == Len(job'.todo) C == Closing(job.op)
  <2>3. L \in Nat /\ C \in Nat /\ L > C /\ M = L - 1
    BY <1>2, <2>1, <2>2
  <2> HIDE DEF L, M, C
  <2>4. M \in Nat /\ M >= C
    BY <2>3
  <2> QED BY <2>4 DEF M, C
<1>8. Staged'
  BY <1>1, <1>2, <1>3, <1>5, <1>7, HeaderStays
<1>9. Kept'
  BY <1>1, <1>2, <1>5, KeptStays
<1>10. Arrived'
  <2>1. Len(Tail(job.todo)) <= Closing(job.op) =>
          /\ data'.size = NewSize(job.op, job.view)
          /\ \A y \in 0 .. NewSize(job.op, job.view) - 1 :
                data'.at[y] = Target(job.op, job.view, job.data, y)
    <3> DEFINE t == Tail(job.todo) v == job.view op == job.op old == job.data
    <3>1. /\ Listed(t) /\ Shaped(t, op, v) /\ Landed(t, 0, op, v, data', old)
          /\ Sized(t, op, v, data')
      BY <1>2, <1>3 DEF OnCourse
    <3> HIDE DEF t, v, op, old
    <3>2. Len(t) <= Closing(op) =>
            /\ data'.size = NewSize(op, v)
            /\ \A y \in 0 .. NewSize(op, v) - 1 : data'.at[y] = Target(op, v, old, y)
      BY <3>1, ArrivedFrom
    <3> QED BY <3>2 DEF t, v, op, old
  <2> QED BY <2>1, <1>5, <1>6 DEF Arrived
<1>11. EditInv'
  <2>1. Shaped(job'.todo, job'.op, job'.view) /\ ~Copies(job'.op)
    BY <1>2, <1>3, <1>5, <1>6
  <2>2. Planned'
    BY <1>2, <1>5, <1>6 DEF Planned
  <2> QED BY <2>1, <2>2, <1>8, <1>9, <1>10 DEF EditInv
<1>12. Listed(job'.todo) /\ job'.pc \in {"run", "failed"} /\ job.pc \in {"run", "failed"}
       /\ damaged' = damaged
  BY <1>1, <1>2, <1>5
<1> QED BY <1>2, <1>5, <1>11, <1>12, CallGoesOn

\* A step on the header finds the data unit as it is to be.
LEMMA EditSkips ==
    ASSUME TableInv, job.pc = "run", job.todo # <<>>, job.op.op # "iterate",
           Now.k \in {"cards", "rewrite", "reparse"},
           job' = Put(job, Tail(job.todo), 0), data' = data, damaged' = damaged, Staged'
    PROVE  TableInv'
<1>1. /\ Listed(job.todo) /\ Now = job.todo[1] /\ EditInv
      /\ PlanOK(job.todo, job.op, job.view) /\ DoneOK(job.todo, job.done)
      /\ Landed(job.todo, job.done, job.op, job.view, data, job.data)
      /\ Unread(job.todo, job.done, job.view, data, job.data)
      /\ Sized(job.todo, job.op, job.view, data)
      /\ Shaped(job.todo, job.op, job.view)
      /\ Shaped(Tail(job.todo), job.op, job.view) /\ Len(Tail(job.todo)) = Len(job.todo) - 1
  BY EditFacts
<1>2. ~IsLoop(job.todo[1]) /\ job.todo[1].k # "resize"
  BY <1>1, Kinds DEF IsLoop
<1>3. job.done = 0
  BY <1>1, <1>2 DEF DoneOK
<1>4. ~Copies(job.op) /\ Len(job.todo) <= Closing(job.op)
  <2>1. ~Copies(job.op) /\ ~(Len(job.todo) > Closing(job.op)) /\ Len(job.todo) \in Nat
    BY <1>1, <1>2, ShapedTail
  <2>2. Closing(job.op) \in Nat
    BY DEF Closing
  <2> QED BY <2>1, <2>2
<1>5. Listed(Tail(job.todo)) /\ OnCourse(Tail(job.todo), 0, job.op, job.view, data, job.data)
  BY <1>1, <1>2, <1>3, SkipStep DEF OnCourse
<1>6. IsJob(job) /\ DataOK(data)
  BY CallFacts
<1>7. /\ SameCall(job, job') /\ job'.pc = "run" /\ job'.todo = Tail(job.todo) /\ job'.done = 0
  BY <1>6, JobPuts
<1>8. job'.op = job.op /\ job'.view = job.view /\ job'.data = job.data
  BY <1>7 DEF SameCall
<1>9. Kept'
  BY <1>7, KeptStays
<1>10. Arrived'
  <2>1. Arrived
    BY <1>1 DEF EditInv
  <2>2. /\ data.size = NewSize(job.op, job.view)
        /\ \A y \in 0 .. NewSize(job.op, job.view) - 1 :
              data.at[y] = Target(job.op, job.view, job.data, y)
    BY <2>1, <1>4 DEF Arrived
  <2> QED BY <2>2, <1>7, <1>8 DEF Arrived
<1>11. EditInv'
  <2>1. Shaped(job'.todo, job'.op, job'.view) /\ ~Copies(job'.op)
    BY <1>1, <1>4, <1>7, <1>8
  <2>2. Planned'
    BY <1>5, <1>7, <1>8 DEF Planned
  <2> QED BY <2>1, <2>2, <1>9, <1>10 DEF EditInv
<1>12. Listed(job'.todo) /\ job'.pc \in {"run", "failed"} /\ DataOK(data')
  BY <1>5, <1>6, <1>7
<1> QED BY <1>7, <1>11, <1>12, CallGoesOn

\* The cards change, the header is written, the columns are parsed again.
LEMMA EditHeader ==
    ASSUME TableInv, ChangeCards \/ RewriteHeader \/ Reparse, job.op.op # "iterate"
    PROVE  TableInv'
<1>1. /\ job.pc = "run" /\ job.todo # <<>> /\ Now.k \in {"cards", "rewrite", "reparse"}
      /\ job' = Put(job, Tail(job.todo), 0) /\ data' = data /\ damaged' = damaged
  BY DEF ChangeCards, RewriteHeader, Reparse, Step, Now, Done, Put
<1>2. /\ Listed(job.todo) /\ Now = job.todo[1] /\ Shaped(job.todo, job.op, job.view)
      /\ Len(Tail(job.todo)) = Len(job.todo) - 1
      /\ HeaderStage(Len(job.todo), job.op, job)
  BY <1>1, EditFacts
<1>3. IsJob(job)
  BY <1>1, CallFacts
<1>4. /\ SameCall(job, job') /\ job'.pc = "run" /\ job'.todo = Tail(job.todo) /\ job'.done = 0
  BY <1>1, <1>3, JobPuts
<1>5. job'.op = job.op /\ job'.view = job.view /\ job'.disk = job.disk
  BY <1>4 DEF SameCall
<1>6. /\ ~Copies(job.op)
      /\ Now.k = "cards" <=> Len(job.todo) = 3
      /\ Len(job.todo) = 3 => NewHeader(Now.h, job.op, job.view)
      /\ Now.k = "rewrite" <=> Len(job.todo) = 2
      /\ Now.k = "reparse" <=> Len(job.todo) = 1
  <2>1. ~IsLoop(job.todo[1]) /\ job.todo[1].k # "resize"
    BY <1>1, <1>2, Kinds DEF IsLoop
  <2> QED BY <1>1, <1>2, <2>1, ShapedTail
<1>7. Staged'
  <2>1. CASE ChangeCards
    <3>1. Now.k = "cards" /\ hdr' = Now.h /\ disk' = disk /\ view' = view
      BY <2>1 DEF ChangeCards, Step, Now
    <3>2. Len(job.todo) = 3 /\ NewHeader(hdr', job'.op, job'.view) /\ Len(job'.todo) = 2
      BY <3>1, <1>2, <1>4, <1>5, <1>6
    <3>3. disk' = job'.disk /\ view' = job'.view
      BY <3>1, <3>2, <1>2, <1>5, <1>6 DEF HeaderStage
    <3> QED BY <3>2, <3>3, <1>4, <1>5, <1>6 DEF Staged, HeaderStage
  <2>2. CASE RewriteHeader
    <3>1. Now.k = "rewrite" /\ hdr' = hdr /\ disk' = hdr /\ view' = view
      BY <2>2 DEF RewriteHeader, Step, Now
    <3>2. Len(job.todo) = 2 /\ Len(job'.todo) = 1
      BY <3>1, <1>2, <1>4, <1>6
    <3>3. NewHeader(hdr', job'.op, job'.view) /\ view' = job'.view
      BY <3>1, <3>2, <1>1, <1>2, <1>5, <1>6 DEF HeaderStage
    <3> QED BY <3>1, <3>2, <3>3, <1>4, <1>5, <1>6 DEF Staged, HeaderStage
  <2>3. CASE Reparse
    <3>1. Now.k = "reparse" /\ hdr' = hdr /\ disk' = disk /\ view' = Viewed(hdr)
      BY <2>3 DEF Reparse, Step, Now
    <3>2. Len(job.todo) = 1 /\ Len(job'.todo) = 0
      BY <3>1, <1>2, <1>4, <1>6
    <3>3. NewHeader(hdr, job.op, job.view) /\ hdr = disk
      BY <3>2, <1>1, <1>2, <1>6 DEF HeaderStage
    <3>4. NewHeader(disk', job'.op, job'.view) /\ hdr' = disk' /\ view' = Viewed(disk')
      BY <3>1, <3>3, <1>5
    <3>5. NewHeader(hdr', job'.op, job'.view)
      BY <3>4
    <3> QED BY <3>2, <3>4, <3>5, <1>4, <1>5, <1>6 DEF Staged, HeaderStage
  <2> QED BY <2>1, <2>2, <2>3
<1> QED BY <1>1, <1>7, EditSkips

\* A call returns.
LEMMA Returns ==
    ASSUME TableInv, Return
    PROVE  TableInv'
<1>1. /\ job.pc = "failed" \/ (job.pc = "run" /\ job.todo = <<>>)
      /\ job' = NoJob /\ UNCHANGED <<data, disk, hdr, view, faults, edits, others>>
      /\ damaged' = (job.pc = "failed" /\ <<data, disk, hdr>> # <<job.data, job.disk, job.disk>>
                     /\ job.op.op \notin {"copyRows", "copyColumn", "iterate"})
  BY DEF Return
<1>2. /\ JobOK /\ TableOK(job.disk, job.view, job.data) /\ OpOK(job.op, job.view)
      /\ DataOK(data) /\ Listed(job.todo) /\ ViewOK(job.view)
      /\ HeaderOK(job.disk) /\ job.view = Viewed(job.disk) /\ job.data.size = SizeOf(job.view)
  BY <1>1, CallFacts
<1>3. damaged' \in BOOLEAN
  BY <1>1
<1>4. ASSUME ~damaged' PROVE hdr = disk /\ TableOK(disk, view, data)
  <2>1. CASE job.op.op = "iterate"
    <3>1. disk = job.disk /\ hdr = disk /\ view = job.view /\ data.size = job.data.size
      BY <1>2, <2>1 DEF JobOK, IterateInv
    <3> QED BY <3>1, <1>2 DEF TableOK
  <2>2. CASE job.op.op \in {"copyRows", "copyColumn"}
    <3>1. Copies(job.op) /\ EditInv
      BY <1>2, <2>2 DEF JobOK, Copies
    <3>2. disk = job.disk /\ hdr = disk /\ view = job.view /\ data.size = job.data.size
      BY <3>1 DEF EditInv, Staged, HeaderStage
    <3> QED BY <3>2, <1>2 DEF TableOK
  <2>3. CASE job.op.op \notin {"copyRows", "copyColumn", "iterate"} /\ job.pc = "failed"
    <3>1. data = job.data /\ disk = job.disk /\ hdr = job.disk
      BY <1>1, <1>4, <2>3
    <3>2. ~Copies(job.op) /\ EditInv
      BY <1>2, <2>3 DEF JobOK, Copies
    <3>3. view = job.view
      BY <3>2, <2>3 DEF EditInv, Staged, HeaderStage
    <3> QED BY <3>1, <3>3, <1>2
  <2>4. CASE job.op.op \notin {"copyRows", "copyColumn", "iterate"} /\ job.pc = "run"
    <3>1. ~Copies(job.op) /\ EditInv /\ Len(job.todo) = 0
      BY <1>1, <1>2, <2>4, ListedFacts DEF JobOK, Copies
    <3>2. NewHeader(disk, job.op, job.view) /\ hdr = disk /\ view = Viewed(disk)
      BY <3>1, <2>4 DEF EditInv, Staged, HeaderStage
    <3>3. data.size = NewSize(job.op, job.view)
      BY <3>1 DEF EditInv, Arrived, Closing
    <3>4. SizeOf(view) = NewSize(job.op, job.view)
      BY <3>2 DEF NewHeader, SizeOf, NewSize, Viewed
    <3>5. HeaderOK(disk)
      BY <3>2 DEF NewHeader
    <3> QED BY <3>2, <3>3, <3>4, <3>5, <1>2 DEF TableOK
  <2> QED BY <1>1, <2>1, <2>2, <2>3, <2>4
<1> QED BY <1>1, <1>3, <1>4 DEF TableInv, NoJob

-----------------------------------------------------------------------------
(* The plan of an edit, from its pieces.                                     *)

\* The steps of a piece are in order, and each comes after those of the pieces before it.
Steps(s) == \A a \in DOMAIN s : IsLoop(s[a]) \/ s[a].k = "resize"
Good(s, op, v) == Listed(s) /\ PlanOK(s, op, v)
Cross(s, t, op, v) == \A a \in DOMAIN s, b \in DOMAIN t : PairOK(s[a], t[b], op, v)
Pends(s, v, y) == \E a \in DOMAIN s : Pending(s[a], v, 0, y)
Resizes(s) == \E a \in DOMAIN s : s[a].k = "resize"
\* A cell is pending, or in place already.
Settled(s, op, v, y) == Pends(s, v, y) \/ (y < SizeOf(v) /\ Origin(op, v, y) = y)

\* The elements of two sequences, one after the other.
LEMMA ConcatFacts ==
    ASSUME NEW s, Listed(s), NEW t, Listed(t)
    PROVE  /\ Listed(s \o t) /\ Len(s) \in Nat /\ Len(t) \in Nat
           /\ Len(s \o t) = Len(s) + Len(t) /\ DOMAIN (s \o t) = 1 .. Len(s) + Len(t)
           /\ DOMAIN s = 1 .. Len(s) /\ DOMAIN t = 1 .. Len(t)
           /\ \A i \in 1 .. Len(s) + Len(t) :
                 (s \o t)[i] = IF i <= Len(s) THEN s[i] ELSE t[i - Len(s)]
<1> DEFINE T == ToSet(s) \cup ToSet(t)
<1>1. s \in Seq(T) /\ t \in Seq(T)
  <2>1. s \in Seq(ToSet(s)) /\ t \in Seq(ToSet(t))
    BY DEF Listed
  <2>2. /\ Len(s) \in Nat /\ DOMAIN s = 1 .. Len(s) /\ \A i \in 1 .. Len(s) : s[i] \in ToSet(s)
        /\ Len(t) \in Nat /\ DOMAIN t = 1 .. Len(t) /\ \A i \in 1 .. Len(t) : t[i] \in ToSet(t)
    BY <2>1, ToSetFacts
  <2> QED BY <2>1
<1> HIDE DEF T
<1>2. /\ s \o t \in Seq(T) /\ Len(s \o t) = Len(s) + Len(t)
      /\ \A i \in 1 .. Len(s) + Len(t) :
            (s \o t)[i] = IF i <= Len(s) THEN s[i] ELSE t[i - Len(s)]
  BY <1>1
<1>3. Listed(s \o t)
  BY <1>2, SeqListed
<1>4. Len(s \o t) \in Nat /\ DOMAIN (s \o t) = 1 .. Len(s \o t)
  BY <1>3, ListedFacts
<1> QED BY <1>2, <1>3, <1>4, ListedFacts

\* Each element is one of the two.
LEMMA ConcatElements ==
    ASSUME NEW s, Listed(s), NEW t, Listed(t)
    PROVE  /\ \A i \in DOMAIN (s \o t) :
                \/ i \in DOMAIN s /\ (s \o t)[i] = s[i]
                \/ i - Len(s) \in DOMAIN t /\ i > Len(s) /\ (s \o t)[i] = t[i - Len(s)]
           /\ \A a \in DOMAIN s : a \in DOMAIN (s \o t) /\ (s \o t)[a] = s[a]
           /\ \A b \in DOMAIN t : b + Len(s) \in DOMAIN (s \o t) /\ (s \o t)[b + Len(s)] = t[b]
<1> DEFINE m == Len(s) n == Len(t) u == s \o t
<1>1. /\ m \in Nat /\ n \in Nat /\ DOMAIN u = 1 .. m + n /\ DOMAIN s = 1 .. m /\ DOMAIN t = 1 .. n
      /\ \A i \in 1 .. m + n : u[i] = IF i <= m THEN s[i] ELSE t[i - m]
  BY ConcatFacts
<1> HIDE DEF m, n, u
<1>2. ASSUME NEW i \in DOMAIN u
      PROVE  \/ i \in DOMAIN s /\ u[i] = s[i]
             \/ i - m \in DOMAIN t /\ i > m /\ u[i] = t[i - m]
  BY <1>1
<1>3. ASSUME NEW a \in DOMAIN s PROVE a \in DOMAIN u /\ u[a] = s[a]
  BY <1>1
<1>4. ASSUME NEW b \in DOMAIN t PROVE b + m \in DOMAIN u /\ u[b + m] = t[b]
  <2>1. b + m \in 1 .. m + n /\ ~(b + m <= m) /\ b + m - m = b
    BY <1>1
  <2> QED BY <2>1, <1>1
<1> QED BY <1>2, <1>3, <1>4 DEF m, u

\* A plan from two.
LEMMA GoodConcat ==
    ASSUME NEW op, NEW v, NEW s, Good(s, op, v), NEW t, Good(t, op, v), Cross(s, t, op, v)
    PROVE  Good(s \o t, op, v)
<1> DEFINE u == s \o t m == Len(s)
<1>1. Listed(s) /\ Listed(t) /\ PlanOK(s, op, v) /\ PlanOK(t, op, v)
  BY DEF Good
<1>2. /\ Listed(u) /\ m \in Nat /\ DOMAIN u \subseteq Nat /\ DOMAIN s = 1 .. m
  <2>1. Listed(u) /\ m \in Nat /\ DOMAIN s = 1 .. m /\ DOMAIN u = 1 .. Len(u)
    BY <1>1, ConcatFacts, ListedFacts
  <2> QED BY <2>1
<1>3. \A i \in DOMAIN u : \/ i \in DOMAIN s /\ u[i] = s[i]
                          \/ i - m \in DOMAIN t /\ i > m /\ u[i] = t[i - m]
  BY <1>1, ConcatElements
<1> HIDE DEF u, m
<1>4. \A a \in DOMAIN u : IsLoop(u[a]) => LoopOK(u[a], op, v)
  BY <1>1, <1>3 DEF PlanOK
<1>5. \A a \in DOMAIN u : u[a].k = "resize" => u[a].n = NewSize(op, v)
  BY <1>1, <1>3 DEF PlanOK
<1>6. ASSUME NEW a \in DOMAIN u, NEW b \in DOMAIN u, a < b PROVE PairOK(u[a], u[b], op, v)
  <2>1. CASE a \in DOMAIN s /\ u[a] = s[a] /\ b \in DOMAIN s /\ u[b] = s[b]
    BY <2>1, <1>1, <1>6 DEF PlanOK
  <2>2. CASE a \in DOMAIN s /\ u[a] = s[a] /\ b - m \in DOMAIN t /\ u[b] = t[b - m]
    BY <2>2 DEF Cross
  <2>3. CASE a - m \in DOMAIN t /\ u[a] = t[a - m] /\ b - m \in DOMAIN t /\ u[b] = t[b - m]
    <3>1. a - m < b - m
      BY <1>2, <1>6
    <3> QED BY <2>3, <3>1, <1>1 DEF PlanOK
  <2>4. CASE a > m /\ b \in DOMAIN s
    BY <2>4, <1>2, <1>6
  <2> QED BY <2>1, <2>2, <2>3, <2>4, <1>3, <1>6
<1>7. PlanOK(u, op, v)
  BY <1>4, <1>5, <1>6 DEF PlanOK
<1> QED BY <1>2, <1>7 DEF Good, u

\* What comes after each of two comes after both; what each of two comes before.
LEMMA CrossConcat ==
    ASSUME NEW op, NEW v, NEW s, Listed(s), NEW t, Listed(t), NEW u
    PROVE  /\ Cross(s, u, op, v) /\ Cross(t, u, op, v) => Cross(s \o t, u, op, v)
           /\ Cross(u, s, op, v) /\ Cross(u, t, op, v) => Cross(u, s \o t, op, v)
<1>1. \A i \in DOMAIN (s \o t) : \/ i \in DOMAIN s /\ (s \o t)[i] = s[i]
                                 \/ i - Len(s) \in DOMAIN t /\ (s \o t)[i] = t[i - Len(s)]
  BY ConcatElements
<1> QED BY <1>1 DEF Cross

\* What both do.
LEMMA PendsConcat ==
    ASSUME NEW s, Listed(s), NEW t, Listed(t)
    PROVE  /\ Resizes(s \o t) <=> Resizes(s) \/ Resizes(t)
           /\ Steps(s) /\ Steps(t) => Steps(s \o t)
           /\ \A op, v, y : Settled(s, op, v, y) \/ Settled(t, op, v, y) => Settled(s \o t, op, v, y)
<1> DEFINE u == s \o t
<1>1. /\ \A i \in DOMAIN u : \/ i \in DOMAIN s /\ u[i] = s[i]
                             \/ i - Len(s) \in DOMAIN t /\ u[i] = t[i - Len(s)]
      /\ \A a \in DOMAIN s : a \in DOMAIN u /\ u[a] = s[a]
      /\ \A b \in DOMAIN t : b + Len(s) \in DOMAIN u /\ u[b + Len(s)] = t[b]
  BY ConcatElements
<1> HIDE DEF u
<1>2. Resizes(u) <=> Resizes(s) \/ Resizes(t)
  BY <1>1 DEF Resizes
<1>3. Steps(s) /\ Steps(t) => Steps(u)
  BY <1>1 DEF Steps
<1>4. ASSUME NEW v, NEW y, Pends(s, v, y) \/ Pends(t, v, y) PROVE Pends(u, v, y)
  BY <1>1, <1>4 DEF Pends
<1>5. \A op, v, y : Settled(s, op, v, y) \/ Settled(t, op, v, y) => Settled(u, op, v, y)
  BY <1>4 DEF Settled
<1> QED BY <1>2, <1>3, <1>5 DEF u

\* The loops of a piece write the cells f .. p - 1 from the cells sf .. sp - 1.
Spans(s, v, f, p, sf, sp) ==
    \A a \in DOMAIN s :
        /\ IsLoop(s[a]) /\ First(s[a], v, 0) = f /\ Past(s[a], v, 0) = p
        /\ SrcFirst(s[a], v, 0) = sf /\ SrcPast(s[a], v, 0) = sp

\* Two pieces are in order if the first writes before or behind what the second reads.
LEMMA SpanCross ==
    ASSUME NEW op, NEW v, NEW s, NEW t, NEW f1, NEW p1, NEW sf1, NEW sp1,
           NEW f2, NEW p2, NEW sf2, NEW sp2,
           Spans(s, v, f1, p1, sf1, sp1), Spans(t, v, f2, p2, sf2, sp2),
           p1 <= sf2 \/ sp2 <= f1
    PROVE  Cross(s, t, op, v)
<1>1. ASSUME NEW a \in DOMAIN s, NEW b \in DOMAIN t PROVE PairOK(s[a], t[b], op, v)
  <2>1. /\ IsLoop(s[a]) /\ IsLoop(t[b]) /\ Past(s[a], v, 0) = p1 /\ First(s[a], v, 0) = f1
        /\ SrcFirst(t[b], v, 0) = sf2 /\ SrcPast(t[b], v, 0) = sp2
    BY DEF Spans
  <2>2. s[a].k # "resize" /\ t[b].k # "resize"
    BY <2>1, Kinds
  <2>3. Clear(s[a], t[b], v)
    BY <2>1 DEF Clear
  <2> QED BY <2>1, <2>2, <2>3 DEF PairOK
<1> QED BY <1>1 DEF Cross

\* The resize comes first if the data unit grows and last if it shrinks.
LEMMA ResizeCross ==
    ASSUME NEW op, NEW v, NEW s, NEW f, NEW p, NEW sf, NEW sp, Spans(s, v, f, p, sf, sp), NEW n
    PROVE  /\ sp <= NewSize(op, v) => Cross(ResizeTo(n), s, op, v)
           /\ NewSize(op, v) <= SizeOf(v) => Cross(s, ResizeTo(n), op, v)
<1> DEFINE t == ResizeTo(n)
<1>1. \A b \in DOMAIN t : t[b].k = "resize" /\ ~IsLoop(t[b])
  BY Kinds DEF ResizeTo
<1> HIDE DEF t
<1>2. \A a \in DOMAIN s : IsLoop(s[a]) /\ SrcPast(s[a], v, 0) = sp /\ s[a].k # "resize"
  BY Kinds DEF Spans
<1>3. sp <= NewSize(op, v) => Cross(t, s, op, v)
  BY <1>1, <1>2 DEF Cross, PairOK
<1>4. NewSize(op, v) <= SizeOf(v) => Cross(s, t, op, v)
  BY <1>1, <1>2 DEF Cross, PairOK
<1> QED BY <1>3, <1>4 DEF t

\* A piece of one step or none.
LEMMA OneStep ==
    ASSUME NEW op, NEW v, NEW x, NEW s, s = <<>> \/ s = <<x>>,
           s # <<>> => (IsLoop(x) /\ LoopOK(x, op, v)) \/ (x.k = "resize" /\ x.n = NewSize(op, v))
    PROVE  Good(s, op, v) /\ Steps(s)
<1>1. Listed(s)
  <2>1. <<>> \in Seq({x}) /\ <<x>> \in Seq({x})
    OBVIOUS
  <2> QED BY <2>1, SeqListed
<1>2. s # <<>> => (x.k # "resize" => IsLoop(x))
  OBVIOUS
<1>3. s # <<>> => (IsLoop(x) => x.k # "resize" /\ LoopOK(x, op, v))
  BY Kinds
<1>4. \A a \in DOMAIN s : s # <<>> /\ s[a] = x /\ a = 1
  OBVIOUS
<1>5. PlanOK(s, op, v)
  BY <1>3, <1>4 DEF PlanOK
<1>6. Steps(s)
  BY <1>4 DEF Steps
<1> QED BY <1>1, <1>5, <1>6 DEF Good

\* A resize as a part of a plan.
LEMMA ResizePiece ==
    ASSUME NEW op, NEW v, NEW n, n = NewSize(op, v)
    PROVE  /\ Good(ResizeTo(n), op, v) /\ Steps(ResizeTo(n)) /\ Resizes(ResizeTo(n))
<1> DEFINE x == [k |-> "resize", n |-> n] s == ResizeTo(n)
<1>1. s = <<x>> /\ x.k = "resize" /\ x.n = NewSize(op, v)
  BY DEF ResizeTo
<1>2. 1 \in DOMAIN s /\ s[1] = x
  BY <1>1
<1> HIDE DEF s, x
<1>3. Good(s, op, v) /\ Steps(s)
  BY <1>1, OneStep
<1>4. Resizes(s)
  BY <1>1, <1>2 DEF Resizes
<1> QED BY <1>3, <1>4 DEF s

\* The cells from src on are to be those from dst on.
Fetches(op, v, src, dst, len) ==
    /\ NewSize(op, v) \in Nat /\ SizeOf(v) \in Nat
    /\ src \in Nat /\ dst \in Nat /\ len \in Nat
    /\ dst + len <= NewSize(op, v) /\ src + len <= SizeOf(v)
    /\ \A y \in Nat : dst <= y /\ y < dst + len => Origin(op, v, y) = y - dst + src

\* A move of cells to where the table to be has them.
LEMMA MovedPiece ==
    ASSUME NEW op, NEW v, NEW src, NEW dst, NEW len, Fetches(op, v, src, dst, len)
    PROVE  /\ Good(Moved(src, dst, len), op, v) /\ Steps(Moved(src, dst, len))
           /\ Spans(Moved(src, dst, len), v, dst, dst + len, src, src + len)
           /\ \A y \in Nat : dst <= y /\ y < dst + len => Settled(Moved(src, dst, len), op, v, y)
<1> DEFINE x == [k |-> "move", src |-> src, dst |-> dst, units |-> len] s == Moved(src, dst, len)
           T == NewSize(op, v) S == SizeOf(v)
<1>1. /\ T \in Nat /\ S \in Nat /\ src \in Nat /\ dst \in Nat /\ len \in Nat
      /\ dst + len <= T /\ src + len <= S
      /\ \A y \in Nat : dst <= y /\ y < dst + len => Origin(op, v, y) = y - dst + src
  BY DEF Fetches
<1> USE <1>1
<1>2. s = IF len = 0 \/ src = dst THEN <<>> ELSE <<x>>
  BY DEF Moved
<1>3. /\ IsLoop(x) /\ First(x, v, 0) = dst /\ Past(x, v, 0) = dst + len
      /\ SrcFirst(x, v, 0) = src /\ SrcPast(x, v, 0) = src + len
      /\ \A y : From(x, v, y) = y - dst + src
  BY DEF IsLoop, First, Past, SrcFirst, SrcPast, From
<1>4. len # 0 => StepOK(x, v)
  BY DEF StepOK
<1>5. s = <<>> \/ (s = <<x>> /\ len # 0 /\ src # dst)
  BY <1>2
<1>6. src = dst \/ len = 0 \/ (s = <<x>> /\ 1 \in DOMAIN s /\ s[1] = x)
  BY <1>2
<1>7. \A a \in DOMAIN s : s[a] = x
  BY <1>5
<1> HIDE DEF s, x, T, S
<1>8. ASSUME s # <<>> PROVE LoopOK(x, op, v)
  <2>1. StepOK(x, v)
    BY <1>4, <1>5, <1>8
  <2>2. Past(x, v, 0) <= T /\ SrcPast(x, v, 0) <= S
    BY <1>3 DEF T, S
  <2>3. ASSUME NEW y \in First(x, v, 0) .. Past(x, v, 0) - 1
        PROVE  From(x, v, y) = Origin(op, v, y)
    <3>1. y \in dst .. dst + len - 1
      BY <2>3, <1>3
    <3>2. y \in Nat /\ dst <= y /\ y < dst + len
      BY <3>1
    <3> QED BY <3>2, <1>3
  <2> QED BY <2>1, <2>2, <2>3 DEF LoopOK, T, S
<1>9. Good(s, op, v) /\ Steps(s)
  BY <1>3, <1>5, <1>8, OneStep
<1>10. Spans(s, v, dst, dst + len, src, src + len)
  BY <1>3, <1>7 DEF Spans
<1>11. ASSUME NEW y \in Nat, dst <= y, y < dst + len PROVE Settled(s, op, v, y)
  <2>1. CASE src = dst
    <3>1. Origin(op, v, y) = y - dst + src /\ y < S
      BY <1>11, <2>1 DEF S
    <3>2. y - dst + src = y
      BY <2>1
    <3> QED BY <3>1, <3>2 DEF Settled, S
  <2>2. CASE len = 0
    BY <1>11, <2>2
  <2>3. CASE s = <<x>> /\ 1 \in DOMAIN s /\ s[1] = x
    <3>1. Pending(s[1], v, 0, y)
      BY <2>3, <1>3, <1>11 DEF Pending
    <3> QED BY <3>1, <2>3 DEF Settled, Pends
  <2> QED BY <2>1, <2>2, <2>3, <1>6
<1> QED BY <1>9, <1>10, <1>11 DEF s

\* The cells of new rows.
LEMMA ZeroPiece ==
    ASSUME NEW op, NEW v, NEW off \in Nat, NEW len \in Nat,
           NewSize(op, v) \in Nat, SizeOf(v) \in Nat, off + len <= NewSize(op, v),
           \A y \in Nat : off <= y /\ y < off + len => Origin(op, v, y) = -1
    PROVE  /\ Good(Zeroed(off, len), op, v) /\ Steps(Zeroed(off, len))
           /\ Spans(Zeroed(off, len), v, off, off + len, 0, 0)
           /\ \A y \in Nat : off <= y /\ y < off + len => Settled(Zeroed(off, len), op, v, y)
<1> DEFINE x == [k |-> "zero", off |-> off, units |-> len] s == Zeroed(off, len)
           T == NewSize(op, v) S == SizeOf(v)
<1>1. s = IF len = 0 THEN <<>> ELSE <<x>>
  BY DEF Zeroed
<1>2. /\ IsLoop(x) /\ First(x, v, 0) = off /\ Past(x, v, 0) = off + len
      /\ SrcFirst(x, v, 0) = 0 /\ SrcPast(x, v, 0) = 0
      /\ \A y : From(x, v, y) = -1
  BY DEF IsLoop, First, Past, SrcFirst, SrcPast, From
<1>3. len # 0 => StepOK(x, v)
  BY DEF StepOK
<1>4. s = <<>> \/ (s = <<x>> /\ len # 0)
  BY <1>1
<1>5. len = 0 \/ (s = <<x>> /\ 1 \in DOMAIN s /\ s[1] = x)
  BY <1>1
<1>6. \A a \in DOMAIN s : s[a] = x
  BY <1>4
<1> HIDE DEF s, x, T, S
<1>7. ASSUME s # <<>> PROVE LoopOK(x, op, v)
  <2>1. StepOK(x, v)
    BY <1>3, <1>4, <1>7
  <2>2. Past(x, v, 0) <= T /\ SrcPast(x, v, 0) <= S
    BY <1>2 DEF T, S
  <2>3. ASSUME NEW y \in First(x, v, 0) .. Past(x, v, 0) - 1
        PROVE  From(x, v, y) = Origin(op, v, y)
    <3>1. y \in off .. off + len - 1
      BY <2>3, <1>2
    <3>2. y \in Nat /\ off <= y /\ y < off + len
      BY <3>1
    <3> QED BY <3>2, <1>2
  <2> QED BY <2>1, <2>2, <2>3 DEF LoopOK, T, S
<1>8. Good(s, op, v) /\ Steps(s)
  BY <1>2, <1>4, <1>7, OneStep
<1>9. Spans(s, v, off, off + len, 0, 0)
  BY <1>2, <1>6 DEF Spans
<1>10. ASSUME NEW y \in Nat, off <= y, y < off + len PROVE Settled(s, op, v, y)
  <2>1. CASE len = 0
    BY <1>10, <2>1
  <2>2. CASE s = <<x>> /\ 1 \in DOMAIN s /\ s[1] = x
    <3>1. Pending(s[1], v, 0, y)
      BY <2>2, <1>2, <1>10 DEF Pending
    <3> QED BY <3>1, <2>2 DEF Settled, Pends
  <2> QED BY <2>1, <2>2, <1>5
<1> QED BY <1>8, <1>9, <1>10 DEF s

\* The rows, wider or narrower.
LEMMA RestridePiece ==
    ASSUME NEW op, NEW v, v = view, ViewOK(v), NEW at \in Nat, NEW w \in Int,
           NewSize(op, v) \in Nat, v.naxis1 + w \in Nat, at <= v.naxis1,
           w < 0 => at - w <= v.naxis1,
           (v.naxis1 + w) * v.naxis2 <= NewSize(op, v),
           \A y \in Nat : y < (v.naxis1 + w) * v.naxis2 =>
              Origin(op, v, y) = RowOrigin(at, w, v.naxis1, y)
    PROVE  /\ Good(Restrided(at, w), op, v) /\ Steps(Restrided(at, w))
           /\ Spans(Restrided(at, w), v, 0, (v.naxis1 + w) * v.naxis2, 0, v.naxis1 * v.naxis2)
           /\ \A y \in Nat : y < (v.naxis1 + w) * v.naxis2 => Settled(Restrided(at, w), op, v, y)
<1> DEFINE R == v.naxis2 o == v.naxis1 N == o + w
           x == [k |-> "restride", at |-> at, w |-> w, units |-> R] s == Restrided(at, w)
           T == NewSize(op, v) S == SizeOf(v)
<1>1. s = IF R = 0 THEN <<>> ELSE <<x>>
  BY DEF Restrided
<1>2. /\ o \in Nat /\ R \in Nat /\ o * R \in Nat /\ S = o * R + Heap /\ Heap \in Nat /\ N \in Nat
      /\ N * R \in Nat /\ R * N = N * R /\ R * o = o * R
      /\ 0 * N = 0 /\ 0 * o = 0 /\ (R - 0) * N = R * N /\ (R - 0) * o = R * o
  <2>1. o \in Nat /\ R \in Nat /\ o * R \in Nat /\ S = o * R + Heap /\ Heap \in Nat /\ N \in Nat
    BY ViewSizes
  <2> HIDE DEF o, R, S, N
  <2>2. N * R \in Nat /\ R * N = N * R /\ R * o = o * R /\ 0 * N = 0 /\ 0 * o = 0 /\ R - 0 = R
    BY <2>1, Times
  <2> QED BY <2>1, <2>2
<1>3. /\ IsLoop(x) /\ First(x, v, 0) = 0 /\ Past(x, v, 0) = N * R
      /\ SrcFirst(x, v, 0) = 0 /\ SrcPast(x, v, 0) = o * R
      /\ \A y : From(x, v, y) = RowOrigin(at, w, o, y)
  <2>1. /\ First(x, v, 0) = (IF w > 0 THEN 0 ELSE 0 * N)
        /\ Past(x, v, 0) = (IF w > 0 THEN (R - 0) * N ELSE R * N)
        /\ SrcFirst(x, v, 0) = (IF w > 0 THEN 0 ELSE 0 * o)
        /\ SrcPast(x, v, 0) = (IF w > 0 THEN (R - 0) * o ELSE R * o)
        /\ IsLoop(x) /\ \A y : From(x, v, y) = RowOrigin(at, w, o, y)
    BY DEF IsLoop, First, Past, SrcFirst, SrcPast, From
  <2> HIDE DEF R, N, o, x
  <2> QED BY <2>1, <1>2
<1>4. R # 0 => StepOK(x, v)
  <2>1. R # 0 => R \in Nat \ {0}
    BY <1>2
  <2>2. at \in 0 .. v.naxis1
    BY <1>2
  <2> QED BY <2>1, <2>2 DEF StepOK
<1>5. s = <<>> \/ (s = <<x>> /\ R # 0)
  BY <1>1
<1>6. R = 0 \/ (s = <<x>> /\ 1 \in DOMAIN s /\ s[1] = x)
  BY <1>1
<1>7. \A a \in DOMAIN s : s[a] = x
  BY <1>5
<1>8. N * R <= T /\ \A y \in Nat : y < N * R => Origin(op, v, y) = RowOrigin(at, w, o, y)
  OBVIOUS
<1> HIDE DEF s, x, T, S, R, N, o
<1>9. ASSUME s # <<>> PROVE LoopOK(x, op, v)
  <2>1. StepOK(x, v)
    BY <1>4, <1>5, <1>9
  <2>2. Past(x, v, 0) <= T /\ SrcPast(x, v, 0) <= S
    BY <1>2, <1>3, <1>8
  <2>3. ASSUME NEW y \in First(x, v, 0) .. Past(x, v, 0) - 1
        PROVE  From(x, v, y) = Origin(op, v, y)
    <3>1. y \in 0 .. N * R - 1
      BY <2>3, <1>3
    <3>2. y \in Nat /\ y < N * R
      BY <3>1, <1>2
    <3> QED BY <3>2, <1>3, <1>8
  <2> QED BY <2>1, <2>2, <2>3 DEF LoopOK, T, S
<1>10. Good(s, op, v) /\ Steps(s)
  BY <1>3, <1>5, <1>9, OneStep
<1>11. Spans(s, v, 0, N * R, 0, o * R)
  BY <1>3, <1>7 DEF Spans
<1>12. ASSUME NEW y \in Nat, y < N * R PROVE Settled(s, op, v, y)
  <2>1. CASE R = 0
    <3>1. N * R = 0
      BY <2>1, <1>2, Times
    <3> QED BY <3>1, <1>12
  <2>2. CASE s = <<x>> /\ 1 \in DOMAIN s /\ s[1] = x
    <3>1. Pending(s[1], v, 0, y)
      BY <2>2, <1>3, <1>12 DEF Pending
    <3> QED BY <3>1, <2>2 DEF Settled, Pends
  <2> QED BY <2>1, <2>2, <1>6
<1> QED BY <1>10, <1>11, <1>12 DEF s, N, R, o

\* An edit begins: its plan, and where each cell of the table to be is or comes from.
Planning(s, op, v) ==
    /\ Good(s, op, v) /\ Steps(s)
    /\ Resizes(s) \/ NewSize(op, v) = SizeOf(v)
    /\ \A y \in Nat : y < NewSize(op, v) => Settled(s, op, v, y)

\* A plan that settles every cell of the table to be starts on course.
LEMMA StartsOnCourse ==
    ASSUME NEW op, NEW v, ViewOK(v), NEW s, Listed(s), PlanOK(s, op, v),
           Resizes(s) \/ NewSize(op, v) = SizeOf(v), NewSize(op, v) \in Nat,
           \A y \in Nat : y < NewSize(op, v) => Settled(s, op, v, y),
           NEW d, DataOK(d), d.size = SizeOf(v)
    PROVE  OnCourse(s, 0, op, v, d, d)
<1>1. DOMAIN s \subseteq Nat
  BY ListedFacts
<1>2. \A a : At(a, 0) = 0
  BY DEF At
<1>3. Landed(s, 0, op, v, d, d)
  <2>1. ASSUME NEW y \in 0 .. NewSize(op, v) - 1
        PROVE  \/ \E a \in DOMAIN s : Pending(s[a], v, At(a, 0), y)
               \/ y < d.size /\ d.at[y] = Target(op, v, d, y)
    <3>1. y \in Nat /\ y < NewSize(op, v)
      BY <2>1
    <3>2. Settled(s, op, v, y)
      BY <3>1
    <3>3. CASE Pends(s, v, y)
      BY <3>3, <1>2 DEF Pends
    <3>4. CASE y < SizeOf(v) /\ Origin(op, v, y) = y
      <4>1. y # -1
        BY <3>1
      <4> QED BY <3>4, <4>1 DEF Target, Sourced
    <3> QED BY <3>2, <3>3, <3>4 DEF Settled
  <2> QED BY <2>1 DEF Landed
<1>4. Unread(s, 0, v, d, d)
  <2>1. ASSUME NEW a \in DOMAIN s, NEW x \in Nat, Needed(s[a], v, 0, x)
        PROVE  x < d.size
    <3>1. IsLoop(s[a]) /\ x < SrcPast(s[a], v, 0)
      BY <2>1 DEF Needed
    <3>2. LoopOK(s[a], op, v)
      BY <3>1 DEF PlanOK
    <3>3. StepOK(s[a], v) /\ SrcPast(s[a], v, 0) <= SizeOf(v)
      BY <3>2 DEF LoopOK
    <3>4. 0 <= s[a].units /\ 0 \in Nat /\ v.naxis1 \in Nat /\ SizeOf(v) \in Nat
      BY <3>3, ViewSizes DEF StepOK
    <3>5. SrcPast(s[a], v, 0) \in Nat
      BY <3>1, <3>3, <3>4, Shrinks
    <3> QED BY <3>1, <3>3, <3>4, <3>5
  <2> QED BY <2>1, <1>2 DEF Unread
<1>5. DoneOK(s, 0)
  BY DEF DoneOK
<1>6. Sized(s, op, v, d)
  BY DEF Sized, Resizes
<1> QED BY <1>3, <1>4, <1>5, <1>6 DEF OnCourse

\* A copy has no header to commit.
LEMMA CopyShape ==
    ASSUME NEW op, Copies(op), NEW v, NEW s, Listed(s), Steps(s), ~Resizes(s)
    PROVE  Shaped(s, op, v)
<1>1. Closing(op) = 0 /\ Len(s) \in Nat /\ DOMAIN s = 1 .. Len(s)
  BY ListedFacts DEF Closing
<1>2. 1 .. Len(s) - Closing(op) = DOMAIN s
  BY <1>1
<1> QED BY <1>2 DEF Shaped, Steps, Resizes

\* Every other edit has.
LEMMA CommittedPlan ==
    ASSUME NEW op, ~Copies(op), NEW v, NEW s, Planning(s, op, v), NEW h, NewHeader(h, op, v), NEW partial,
           NEW t, t = Committed(s, h, partial)
    PROVE  /\ Shaped(t, op, v) /\ Listed(t) /\ PlanOK(t, op, v) /\ Len(t) \in Nat /\ Len(t) >= 3
           /\ Resizes(t) \/ NewSize(op, v) = SizeOf(v)
           /\ \A y \in Nat : y < NewSize(op, v) => Settled(t, op, v, y)
<1> DEFINE cards == [k |-> "cards", h |-> h, partial |-> partial]
           c == <<cards, [k |-> "rewrite"], [k |-> "reparse"]>>
<1>1. /\ c[1].k = "cards" /\ c[1].h = h /\ c[2].k = "rewrite" /\ c[3].k = "reparse"
      /\ DOMAIN c = 1 .. 3 /\ Len(c) = 3
  OBVIOUS
<1>2. t = s \o c
  BY DEF Committed
<1>3. Listed(c)
  <2>1. c \in Seq({c[1], c[2], c[3]})
    OBVIOUS
  <2> QED BY <2>1, SeqListed
<1> HIDE DEF c
<1>4. \A b \in DOMAIN c : ~IsLoop(c[b]) /\ c[b].k # "resize"
  <2>1. \A b \in DOMAIN c : c[b].k \in {"cards", "rewrite", "reparse"}
    BY <1>1
  <2> QED BY <2>1, Kinds
<1>5. /\ Good(s, op, v) /\ Steps(s) /\ Listed(s)
      /\ Resizes(s) \/ NewSize(op, v) = SizeOf(v)
      /\ \A y \in Nat : y < NewSize(op, v) => Settled(s, op, v, y)
  BY DEF Planning, Good
<1>6. Good(c, op, v)
  BY <1>3, <1>4 DEF Good, PlanOK, PairOK
<1>7. Cross(s, c, op, v)
  BY <1>4 DEF Cross, PairOK
<1>8. Good(t, op, v)
  BY <1>2, <1>5, <1>6, <1>7, GoodConcat
<1>9. Resizes(t) \/ NewSize(op, v) = SizeOf(v)
  BY <1>2, <1>3, <1>5, PendsConcat
<1>10. \A y \in Nat : y < NewSize(op, v) => Settled(t, op, v, y)
  BY <1>2, <1>3, <1>5, PendsConcat
<1> DEFINE m == Len(s) L == Len(t)
<1>11. /\ m \in Nat /\ L = m + 3 /\ DOMAIN s = 1 .. m
       /\ \A i \in 1 .. m + 3 : t[i] = IF i <= m THEN s[i] ELSE c[i - m]
  <2>1. /\ Len(s) \in Nat /\ DOMAIN s = 1 .. Len(s)
        /\ Len(s \o c) = Len(s) + Len(c)
        /\ \A i \in 1 .. Len(s) + Len(c) :
              (s \o c)[i] = IF i <= Len(s) THEN s[i] ELSE c[i - Len(s)]
    BY <1>3, <1>5, ConcatFacts
  <2>2. Len(c) = 3
    BY <1>1
  <2> QED BY <2>1, <2>2, <1>2
<1> HIDE DEF m, L
<1>12. L - 3 = m /\ L - 2 = m + 1 /\ L - 1 = m + 2 /\ L \in Nat /\ L >= 3 /\ L = m + 3
  BY <1>11
<1>13. /\ t[L - 2] = c[1] /\ t[L - 1] = c[2] /\ t[L] = c[3]
       /\ \A i \in 1 .. m : t[i] = s[i]
  BY <1>11, <1>12
<1>14. \A i \in 1 .. L - 3 : IsLoop(t[i]) \/ t[i].k = "resize"
  BY <1>5, <1>11, <1>12, <1>13 DEF Steps
<1>15. Shaped(t, op, v)
  <2>1. Closing(op) = 3
    BY DEF Closing
  <2>2. NewHeader(t[L - 2].h, op, v)
    BY <1>1, <1>13
  <2> QED BY <2>1, <2>2, <1>1, <1>13, <1>14 DEF Shaped, L
<1> QED BY <1>8, <1>9, <1>10, <1>12, <1>15 DEF Good, L

\* The invariant of an edit that begins.
LEMMA EditBegins ==
    ASSUME TableInv, NEW op, NEW t, Begin(op, t), op.op # "iterate", OpOK(op, view),
           Listed(t), PlanOK(t, op, view), Shaped(t, op, view),
           Copies(op) \/ (Len(t) \in Nat /\ Len(t) >= 3),
           Resizes(t) \/ NewSize(op, view) = SizeOf(view),
           \A y \in Nat : y < NewSize(op, view) => Settled(t, op, view, y)
    PROVE  TableInv'
<1>1. /\ job' = [pc |-> "run", op |-> op, todo |-> t, done |-> 0, window |-> <<>>,
                 data |-> data, disk |-> disk, view |-> view]
      /\ UNCHANGED <<data, disk, hdr, view, damaged>> /\ ~damaged /\ job.pc = "idle"
  BY DEF Begin, Idle
<1>2. /\ IsJob(job') /\ job'.pc = "run" /\ job'.op = op /\ job'.todo = t /\ job'.done = 0
      /\ job'.data = data /\ job'.disk = disk /\ job'.view = view
  BY <1>1 DEF IsJob
<1>3. hdr = disk /\ TableOK(disk, view, data)
  <2>1. job = NoJob
    BY <1>1 DEF TableInv
  <2> QED BY <2>1, <1>1 DEF TableInv
<1>4. /\ HeaderOK(disk) /\ view = Viewed(disk) /\ DataOK(data) /\ data.size = SizeOf(view)
  BY <1>3 DEF TableOK
<1>5. ViewOK(view)
  BY <1>4, ViewOf
<1>6. NewSize(op, view) \in Nat /\ SizeOf(view) \in Nat
  BY <1>5, NewSizes, ViewSizes
<1>7. OnCourse(t, 0, op, view, data, data)
  BY <1>4, <1>5, <1>6, StartsOnCourse
<1>8. Planned'
  BY <1>1, <1>2, <1>7 DEF Planned
<1>9. Kept'
  <2>1. ASSUME NEW k \in ApartIn(op, view, data) PROVE k < data.size
    BY <1>4, <1>5, ApartSame
  <2> QED BY <2>1, <1>1, <1>2 DEF Kept
<1>10. Arrived'
  <2>1. Len(t) <= Closing(op) =>
          /\ data.size = NewSize(op, view)
          /\ \A y \in 0 .. NewSize(op, view) - 1 : data.at[y] = Target(op, view, data, y)
    <3>1. Landed(t, 0, op, view, data, data) /\ Sized(t, op, view, data)
      BY <1>7 DEF OnCourse
    <3> QED BY <3>1, ArrivedFrom
  <2> QED BY <2>1, <1>1, <1>2 DEF Arrived
<1>11. Staged'
  <2>1. CASE Copies(op)
    BY <2>1, <1>1, <1>2, <1>3 DEF Staged, HeaderStage
  <2>2. CASE ~Copies(op)
    <3>1. Len(t) \in Nat /\ Len(t) >= 3
      BY <2>2
    <3>2. Len(t) >= 2 /\ Len(t) >= 1 /\ ~(Len(t) <= 1) /\ Len(t) >= 3
      BY <3>1
    <3> QED BY <2>2, <3>2, <1>1, <1>2, <1>3 DEF Staged, HeaderStage
  <2> QED BY <2>1, <2>2
<1>12. EditInv'
  <2>1. Shaped(job'.todo, job'.op, job'.view) /\ data'.size = job'.data.size
    BY <1>1, <1>2
  <2> QED BY <2>1, <1>8, <1>9, <1>10, <1>11 DEF EditInv
<1>13. JobOK'
  BY <1>1, <1>2, <1>3, <1>4, <1>12 DEF JobOK
<1>14. job' # NoJob'
  BY <1>2 DEF NoJob
<1> QED BY <1>1, <1>2, <1>13, <1>14 DEF TableInv

\* The table to begin with.
LEMMA IdleFacts ==
    ASSUME TableInv, Idle, ~damaged
    PROVE  /\ hdr = disk /\ TableOK(disk, view, data) /\ HeaderOK(disk) /\ view = Viewed(disk)
           /\ ViewOK(view)
<1>1. job = NoJob
  BY DEF TableInv, Idle
<1>2. hdr = disk /\ TableOK(disk, view, data)
  BY <1>1 DEF TableInv
<1>3. HeaderOK(disk) /\ view = Viewed(disk)
  BY <1>2 DEF TableOK
<1> QED BY <1>2, <1>3, ViewOf

\* insertRows: N cells of new rows before cell A of rows that end at E, a heap of H cells.
LEMMA InsertRowsPieces ==
    ASSUME NEW op, NEW v, NEW A \in Nat, NEW N \in Nat, NEW E \in Nat, NEW H \in Nat, A <= E,
           NewSize(op, v) = E + N + H, SizeOf(v) = E + H,
           \A y \in Nat : Origin(op, v, y) =
               IF y < A THEN y ELSE IF y < A + N THEN -1 ELSE y - N,
           NEW r, r = ResizeTo(E + N + H), NEW m1, m1 = Moved(E, E + N, H),
           NEW m2, m2 = Moved(A, A + N, E - A), NEW z, z = Zeroed(A, N)
    PROVE  Planning(r \o m1 \o m2 \o z, op, v)
<1>1. NewSize(op, v) \in Nat /\ SizeOf(v) \in Nat /\ E + N \in Nat /\ A + N \in Nat /\ E - A \in Nat
  OBVIOUS
<1>2. Good(r, op, v) /\ Steps(r) /\ Resizes(r)
  BY ResizePiece
<1>3. /\ Good(m1, op, v) /\ Steps(m1) /\ Spans(m1, v, E + N, E + N + H, E, E + H)
      /\ \A y \in Nat : E + N <= y /\ y < E + N + H => Settled(m1, op, v, y)
  <2>1. \A y \in Nat : E + N <= y /\ y < E + N + H => Origin(op, v, y) = y - (E + N) + E
    OBVIOUS
  <2>2. E + N + H <= NewSize(op, v) /\ E + H <= SizeOf(v)
    OBVIOUS
  <2>3. Fetches(op, v, E, E + N, H)
    BY <2>1, <2>2, <1>1 DEF Fetches
  <2> QED BY <2>3, MovedPiece
<1>4. /\ Good(m2, op, v) /\ Steps(m2) /\ Spans(m2, v, A + N, A + N + (E - A), A, A + (E - A))
      /\ \A y \in Nat : A + N <= y /\ y < A + N + (E - A) => Settled(m2, op, v, y)
  <2>1. \A y \in Nat : A + N <= y /\ y < A + N + (E - A) => Origin(op, v, y) = y - (A + N) + A
    OBVIOUS
  <2>2. A + N + (E - A) <= NewSize(op, v) /\ A + (E - A) <= SizeOf(v)
    OBVIOUS
  <2>3. Fetches(op, v, A, A + N, E - A)
    BY <2>1, <2>2, <1>1 DEF Fetches
  <2> QED BY <2>3, MovedPiece
<1>5. /\ Good(z, op, v) /\ Steps(z) /\ Spans(z, v, A, A + N, 0, 0)
      /\ \A y \in Nat : A <= y /\ y < A + N => Settled(z, op, v, y)
  <2>1. \A y \in Nat : A <= y /\ y < A + N => Origin(op, v, y) = -1
    OBVIOUS
  <2>2. A + N <= NewSize(op, v)
    OBVIOUS
  <2> QED BY <2>1, <2>2, <1>1, ZeroPiece
<1>6. Cross(r, m1, op, v) /\ Cross(r, m2, op, v) /\ Cross(r, z, op, v)
  <2>1. E + H <= NewSize(op, v) /\ A + (E - A) <= NewSize(op, v) /\ 0 <= NewSize(op, v)
    OBVIOUS
  <2> QED BY <2>1, <1>3, <1>4, <1>5, ResizeCross
<1>7. Cross(m1, m2, op, v) /\ Cross(m1, z, op, v) /\ Cross(m2, z, op, v)
  <2>1. A + (E - A) <= E + N /\ 0 <= E + N /\ 0 <= A + N
    OBVIOUS
  <2>2. Cross(m1, m2, op, v)
    BY <2>1, <1>3, <1>4, SpanCross
  <2>3. Cross(m1, z, op, v)
    BY <2>1, <1>3, <1>5, SpanCross
  <2>4. Cross(m2, z, op, v)
    BY <2>1, <1>4, <1>5, SpanCross
  <2> QED BY <2>2, <2>3, <2>4
<1> DEFINE u1 == r \o m1 u2 == u1 \o m2 u3 == u2 \o z
<1>8. Listed(r) /\ Listed(m1) /\ Listed(m2) /\ Listed(z)
  BY <1>2, <1>3, <1>4, <1>5 DEF Good
<1>9. Good(u1, op, v) /\ Listed(u1)
  <2>1. Good(u1, op, v)
    BY <1>2, <1>3, <1>6, GoodConcat
  <2> QED BY <2>1 DEF Good
<1>10. Cross(u1, m2, op, v) /\ Cross(u1, z, op, v)
  BY <1>6, <1>7, <1>8, CrossConcat
<1>11. /\ Resizes(u1) /\ Steps(u1)
       /\ \A y : Settled(m1, op, v, y) => Settled(u1, op, v, y)
  BY <1>2, <1>3, <1>8, PendsConcat
<1> HIDE DEF u1
<1>12. Good(u2, op, v) /\ Listed(u2)
  <2>1. Good(u2, op, v)
    BY <1>9, <1>4, <1>10, GoodConcat
  <2> QED BY <2>1 DEF Good
<1>13. Cross(u2, z, op, v)
  BY <1>7, <1>8, <1>9, <1>10, CrossConcat
<1>14. /\ Resizes(u2) /\ Steps(u2)
       /\ \A y : Settled(m1, op, v, y) \/ Settled(m2, op, v, y) => Settled(u2, op, v, y)
  BY <1>11, <1>4, <1>8, <1>9, PendsConcat
<1> HIDE DEF u2
<1>15. Good(u3, op, v)
  BY <1>5, <1>12, <1>13, GoodConcat
<1>16. /\ Resizes(u3) /\ Steps(u3)
       /\ \A y : Settled(m1, op, v, y) \/ Settled(m2, op, v, y) \/ Settled(z, op, v, y)
                   => Settled(u3, op, v, y)
       /\ \A y : Settled(z, op, v, y) => Settled(u3, op, v, y)
       /\ \A y : y < SizeOf(v) /\ Origin(op, v, y) = y => Settled(u3, op, v, y)
  <2>1. /\ Resizes(u3) /\ Steps(u3)
        /\ \A y : Settled(u2, op, v, y) \/ Settled(z, op, v, y) => Settled(u3, op, v, y)
    BY <1>5, <1>8, <1>12, <1>14, PendsConcat
  <2>2. \A y : y < SizeOf(v) /\ Origin(op, v, y) = y => Settled(u3, op, v, y)
    BY DEF Settled
  <2> QED BY <2>1, <2>2, <1>14
<1> HIDE DEF u3
<1>17. ASSUME NEW y \in Nat, y < NewSize(op, v) PROVE Settled(u3, op, v, y)
  <2>1. CASE y < A
    <3>1. y < SizeOf(v) /\ Origin(op, v, y) = y
      BY <2>1
    <3> QED BY <3>1, <1>16
  <2>2. CASE A <= y /\ y < A + N
    BY <2>2, <1>5, <1>16
  <2>3. CASE A + N <= y /\ y < A + N + (E - A)
    BY <2>3, <1>4, <1>16
  <2>4. CASE E + N <= y
    <3>1. y < E + N + H
      BY <1>17
    <3> QED BY <3>1, <2>4, <1>3, <1>16
  <2>5. A + N + (E - A) = E + N
    OBVIOUS
  <2> QED BY <2>1, <2>2, <2>3, <2>4, <2>5
<1>18. Planning(u3, op, v)
  BY <1>15, <1>16, <1>17 DEF Planning
<1> QED BY <1>18 DEF u1, u2, u3

\* deleteRows: N cells of rows go from cell A on, of rows that end at E.
LEMMA DeleteRowsPieces ==
    ASSUME NEW op, NEW v, NEW A \in Nat, NEW N \in Nat, NEW E \in Nat, NEW H \in Nat,
           NEW F \in Nat, F = A + N, NEW D \in Nat, F + D = E,
           NewSize(op, v) = E - N + H, SizeOf(v) = E + H,
           \A y \in Nat : Origin(op, v, y) = IF y < A THEN y ELSE y + N,
           NEW m1, m1 = Moved(F, A, D),
           NEW m2, m2 = Moved(E, E - N, H), NEW r, r = ResizeTo(E - N + H)
    PROVE  Planning(m1 \o m2 \o r, op, v)
<1>1. /\ NewSize(op, v) \in Nat /\ SizeOf(v) \in Nat /\ E - N \in Nat /\ F \in Nat
  OBVIOUS
<1>2. Good(r, op, v) /\ Steps(r) /\ Resizes(r)
  BY ResizePiece
<1>3. /\ Good(m1, op, v) /\ Steps(m1)
      /\ Spans(m1, v, A, A + D, F, F + D)
      /\ \A y \in Nat : A <= y /\ y < A + D => Settled(m1, op, v, y)
  <2>1. \A y \in Nat : A <= y /\ y < A + D => Origin(op, v, y) = y - A + F
    OBVIOUS
  <2>2. A + D <= NewSize(op, v) /\ F + D <= SizeOf(v)
    OBVIOUS
  <2>3. Fetches(op, v, F, A, D)
    BY <2>1, <2>2, <1>1 DEF Fetches
  <2> QED BY <2>3, MovedPiece
<1>4. /\ Good(m2, op, v) /\ Steps(m2) /\ Spans(m2, v, E - N, E - N + H, E, E + H)
      /\ \A y \in Nat : E - N <= y /\ y < E - N + H => Settled(m2, op, v, y)
  <2>1. \A y \in Nat : E - N <= y /\ y < E - N + H => Origin(op, v, y) = y - (E - N) + E
    OBVIOUS
  <2>2. E - N + H <= NewSize(op, v) /\ E + H <= SizeOf(v)
    OBVIOUS
  <2>3. Fetches(op, v, E, E - N, H)
    BY <2>1, <2>2, <1>1 DEF Fetches
  <2> QED BY <2>3, MovedPiece
<1>5. Cross(m1, r, op, v) /\ Cross(m2, r, op, v)
  <2>1. NewSize(op, v) <= SizeOf(v)
    OBVIOUS
  <2> QED BY <2>1, <1>3, <1>4, ResizeCross
<1>6. Cross(m1, m2, op, v)
  <2>1. A + D <= E
    OBVIOUS
  <2> QED BY <2>1, <1>3, <1>4, SpanCross
<1> DEFINE u1 == m1 \o m2 u2 == u1 \o r
<1>7. Listed(r) /\ Listed(m1) /\ Listed(m2)
  BY <1>2, <1>3, <1>4 DEF Good
<1>8. Good(u1, op, v) /\ Listed(u1)
  <2>1. Good(u1, op, v)
    BY <1>3, <1>4, <1>6, GoodConcat
  <2> QED BY <2>1 DEF Good
<1>9. Cross(u1, r, op, v)
  BY <1>5, <1>7, CrossConcat
<1>10. /\ Steps(u1)
      /\ \A y : Settled(m1, op, v, y) \/ Settled(m2, op, v, y) => Settled(u1, op, v, y)
  BY <1>3, <1>4, <1>7, PendsConcat
<1> HIDE DEF u1
<1>11. Good(u2, op, v)
  BY <1>2, <1>8, <1>9, GoodConcat
<1>12. /\ Resizes(u2) /\ Steps(u2)
       /\ \A y : Settled(m1, op, v, y) \/ Settled(m2, op, v, y) => Settled(u2, op, v, y)
       /\ \A y : y < SizeOf(v) /\ Origin(op, v, y) = y => Settled(u2, op, v, y)
  <2>1. /\ Resizes(u2) /\ Steps(u2)
        /\ \A y : Settled(u1, op, v, y) => Settled(u2, op, v, y)
    BY <1>2, <1>7, <1>8, <1>10, PendsConcat
  <2>2. \A y : y < SizeOf(v) /\ Origin(op, v, y) = y => Settled(u2, op, v, y)
    BY DEF Settled
  <2> QED BY <2>1, <2>2, <1>10
<1> HIDE DEF u2
<1>13. ASSUME NEW y \in Nat, y < NewSize(op, v) PROVE Settled(u2, op, v, y)
  <2>1. CASE y < A
    <3>1. y < SizeOf(v) /\ Origin(op, v, y) = y
      BY <2>1
    <3> QED BY <3>1, <1>12
  <2>2. CASE A <= y /\ y < A + D
    BY <2>2, <1>3, <1>12
  <2>3. CASE E - N <= y
    <3>1. y < E - N + H
      BY <1>13
    <3> QED BY <3>1, <2>3, <1>4, <1>12
  <2>4. A + D = E - N
    OBVIOUS
  <2> QED BY <2>1, <2>2, <2>3, <2>4
<1>14. Planning(u2, op, v)
  BY <1>11, <1>12, <1>13 DEF Planning
<1> QED BY <1>14 DEF u1, u2

\* A plan of three pieces.
LEMMA ThreePieces ==
    ASSUME NEW op, NEW v, NEW s, Good(s, op, v), Steps(s), NEW t, Good(t, op, v), Steps(t),
           NEW u, Good(u, op, v), Steps(u),
           Cross(s, t, op, v), Cross(s, u, op, v), Cross(t, u, op, v), Resizes(s) \/ Resizes(u),
           \A y \in Nat : y < NewSize(op, v) =>
              Settled(s, op, v, y) \/ Settled(t, op, v, y) \/ Settled(u, op, v, y)
    PROVE  Planning(s \o t \o u, op, v)
<1> DEFINE p == s \o t q == p \o u
<1>1. Listed(s) /\ Listed(t) /\ Listed(u)
  BY DEF Good
<1>2. Good(p, op, v)
  BY GoodConcat
<1>3. Listed(p)
  BY <1>2 DEF Good
<1>4. Cross(p, u, op, v)
  BY <1>1, CrossConcat
<1>5. /\ Resizes(s) => Resizes(p)
      /\ Steps(p)
      /\ \A y : Settled(s, op, v, y) \/ Settled(t, op, v, y) => Settled(p, op, v, y)
  BY <1>1, PendsConcat
<1> HIDE DEF p
<1>6. Good(q, op, v)
  BY <1>2, <1>4, GoodConcat
<1>7. /\ Resizes(q) /\ Steps(q)
      /\ \A y : Settled(p, op, v, y) \/ Settled(u, op, v, y) => Settled(q, op, v, y)
  BY <1>1, <1>3, <1>5, PendsConcat
<1> HIDE DEF q
<1>8. Planning(q, op, v)
  BY <1>5, <1>6, <1>7 DEF Planning
<1> QED BY <1>8 DEF q, p

\* insertColumn: the heap goes from cell E to cell N, then u cells come into each row.
LEMMA InsertColumnPieces ==
    ASSUME NEW op, NEW v, v = view, ViewOK(v), NEW at \in Nat, at <= v.naxis1, NEW w \in Nat,
           NEW E \in Nat, NEW N \in Nat, NEW H \in Nat, E = v.naxis1 * v.naxis2,
           N = (v.naxis1 + w) * v.naxis2, E <= N,
           NewSize(op, v) = N + H, SizeOf(v) = E + H,
           \A y \in Nat : Origin(op, v, y) =
               IF y < N THEN RowOrigin(at, w, v.naxis1, y) ELSE y - N + E,
           NEW r, r = ResizeTo(N + H), NEW m, m = Moved(E, N, H), NEW s, s = Restrided(at, w)
    PROVE  Planning(r \o m \o s, op, v)
<1>1. NewSize(op, v) \in Nat /\ SizeOf(v) \in Nat /\ E + H <= NewSize(op, v) /\ E <= NewSize(op, v)
  OBVIOUS
<1>2. Good(r, op, v) /\ Steps(r) /\ Resizes(r)
  BY ResizePiece
<1>3. /\ Good(m, op, v) /\ Steps(m) /\ Spans(m, v, N, N + H, E, E + H)
      /\ \A y \in Nat : N <= y /\ y < N + H => Settled(m, op, v, y)
  <2>1. \A y \in Nat : N <= y /\ y < N + H => Origin(op, v, y) = y - N + E
    OBVIOUS
  <2>2. N + H <= NewSize(op, v) /\ E + H <= SizeOf(v)
    OBVIOUS
  <2>3. Fetches(op, v, E, N, H)
    BY <2>1, <2>2, <1>1 DEF Fetches
  <2> QED BY <2>3, MovedPiece
<1>4. /\ Good(s, op, v) /\ Steps(s) /\ Spans(s, v, 0, N, 0, E)
      /\ \A y \in Nat : y < N => Settled(s, op, v, y)
  <2>1. v.naxis1 \in Nat
    BY ViewSizes
  <2>2. w \in Int /\ v.naxis1 + w \in Nat /\ ~(w < 0)
    BY <2>1
  <2>3. (v.naxis1 + w) * v.naxis2 <= NewSize(op, v)
    OBVIOUS
  <2>4. \A y \in Nat : y < (v.naxis1 + w) * v.naxis2 =>
              Origin(op, v, y) = RowOrigin(at, w, v.naxis1, y)
    OBVIOUS
  <2> QED BY <2>2, <2>3, <2>4, <1>1, RestridePiece
<1>5. Cross(r, m, op, v) /\ Cross(r, s, op, v)
  BY <1>1, <1>3, <1>4, ResizeCross
<1>6. Cross(m, s, op, v)
  BY <1>3, <1>4, SpanCross
<1>7. ASSUME NEW y \in Nat, y < NewSize(op, v)
      PROVE  Settled(m, op, v, y) \/ Settled(s, op, v, y)
  BY <1>3, <1>4, <1>7
<1> QED BY <1>2, <1>3, <1>4, <1>5, <1>6, <1>7, ThreePieces

\* deleteColumn: the rows get narrower, then the heap goes from cell E to cell N.
LEMMA DeleteColumnPieces ==
    ASSUME NEW op, NEW v, v = view, ViewOK(v), NEW at \in Nat, at <= v.naxis1, NEW w \in Int,
           w <= 0, at - w <= v.naxis1,
           NEW E \in Nat, NEW N \in Nat, NEW H \in Nat, E = v.naxis1 * v.naxis2,
           N = (v.naxis1 + w) * v.naxis2, N <= E,
           NewSize(op, v) = N + H, SizeOf(v) = E + H,
           \A y \in Nat : Origin(op, v, y) =
               IF y < N THEN RowOrigin(at, w, v.naxis1, y) ELSE y - N + E,
           NEW s, s = Restrided(at, w), NEW m, m = Moved(E, N, H), NEW r, r = ResizeTo(N + H)
    PROVE  Planning(s \o m \o r, op, v)
<1>1. NewSize(op, v) \in Nat /\ SizeOf(v) \in Nat /\ NewSize(op, v) <= SizeOf(v)
  OBVIOUS
<1>2. Good(r, op, v) /\ Steps(r) /\ Resizes(r)
  BY ResizePiece
<1>3. /\ Good(m, op, v) /\ Steps(m) /\ Spans(m, v, N, N + H, E, E + H)
      /\ \A y \in Nat : N <= y /\ y < N + H => Settled(m, op, v, y)
  <2>1. \A y \in Nat : N <= y /\ y < N + H => Origin(op, v, y) = y - N + E
    OBVIOUS
  <2>2. N + H <= NewSize(op, v) /\ E + H <= SizeOf(v)
    OBVIOUS
  <2>3. Fetches(op, v, E, N, H)
    BY <2>1, <2>2, <1>1 DEF Fetches
  <2> QED BY <2>3, MovedPiece
<1>4. /\ Good(s, op, v) /\ Steps(s) /\ Spans(s, v, 0, N, 0, E)
      /\ \A y \in Nat : y < N => Settled(s, op, v, y)
  <2>1. v.naxis1 \in Nat
    BY ViewSizes
  <2>2. v.naxis1 + w \in Nat
    BY <2>1
  <2>3. (v.naxis1 + w) * v.naxis2 <= NewSize(op, v)
    OBVIOUS
  <2>4. \A y \in Nat : y < (v.naxis1 + w) * v.naxis2 =>
              Origin(op, v, y) = RowOrigin(at, w, v.naxis1, y)
    OBVIOUS
  <2> QED BY <2>2, <2>3, <2>4, <1>1, RestridePiece
<1>5. Cross(s, r, op, v) /\ Cross(m, r, op, v)
  BY <1>1, <1>3, <1>4, ResizeCross
<1>6. Cross(s, m, op, v)
  BY <1>3, <1>4, SpanCross
<1>7. ASSUME NEW y \in Nat, y < NewSize(op, v)
      PROVE  Settled(m, op, v, y) \/ Settled(s, op, v, y)
  BY <1>3, <1>4, <1>7
<1> QED BY <1>2, <1>3, <1>4, <1>5, <1>6, <1>7, ThreePieces

-----------------------------------------------------------------------------
(* The edits begin.                                                          *)

\* An edit that commits a header.
LEMMA CommittedBegins ==
    ASSUME TableInv, NEW op, op.op # "iterate", ~Copies(op), OpOK(op, view), NEW s,
           Planning(s, op, view), NEW h, NewHeader(h, op, view), NEW partial,
           Begin(op, Committed(s, h, partial))
    PROVE  TableInv'
<1> DEFINE t == Committed(s, h, partial)
<1>1. Begin(op, t)
  OBVIOUS
<1>2. /\ Shaped(t, op, view) /\ Listed(t) /\ PlanOK(t, op, view) /\ Len(t) \in Nat /\ Len(t) >= 3
      /\ Resizes(t) \/ NewSize(op, view) = SizeOf(view)
      /\ \A y \in Nat : y < NewSize(op, view) => Settled(t, op, view, y)
  BY CommittedPlan
<1> HIDE DEF t
<1> QED BY <1>1, <1>2, EditBegins

\* The products of the geometry.
LEMMA RowProducts ==
    ASSUME NEW w \in Nat, NEW a \in Nat, NEW n \in Nat, NEW R \in Nat
    PROVE  /\ w * a \in Nat /\ w * n \in Nat /\ w * R \in Nat
           /\ w * (a + n) = w * a + w * n
           /\ w * (R + n) = w * R + w * n
           /\ a <= R => w * a <= w * R
           /\ n <= R => w * (R - n) = w * R - w * n
           /\ a + n <= R => w * a + w * n <= w * R
<1>1. /\ w * a = a * w /\ w * n = n * w /\ w * R = R * w
      /\ a * w \in Nat /\ n * w \in Nat /\ R * w \in Nat
  BY Times
<1>2. a + n \in Nat /\ R + n \in Nat
  OBVIOUS
<1>3. w * (a + n) = (a + n) * w /\ w * (R + n) = (R + n) * w
  BY <1>2, Times
<1>4. (a + n) * w = a * w + n * w /\ (R + n) * w = R * w + n * w
  BY TimesOrder
<1>5. a <= R => a * w <= R * w
  BY TimesOrder
<1>6. a + n <= R => (a + n) * w <= R * w
  BY <1>2, TimesOrder
<1>7. ASSUME n <= R PROVE w * (R - n) = w * R - w * n
  <2>1. R - n \in Nat
    BY <1>7
  <2>2. w * (R - n) = (R - n) * w
    BY <2>1, Times
  <2>3. (R - n) * w = R * w - n * w
    BY <1>7, TimesOrder
  <2> QED BY <2>2, <2>3, <1>1
<1> QED BY <1>1, <1>3, <1>4, <1>5, <1>6, <1>7

\* insertRows.
LEMMA InsertRowsBegins ==
    ASSUME TableInv, NEW at \in Nat, NEW n \in Nat, InsertRows(at, n)
    PROVE  TableInv'
<1> DEFINE op == [op |-> "insertRows", at |-> at, n |-> n]
           w == view.naxis1 R == view.naxis2 A == w * at N == w * n E == w * R
           h == WithRows(R + n)
           s == ResizeTo(w * (R + n) + Heap) \o Moved(E, w * (R + n), Heap)
                  \o Moved(A, w * (at + n), E - A) \o Zeroed(A, N)
<1>1. at <= R /\ n > 0 /\ Begin(op, Committed(s, h, {}))
  BY DEF InsertRows, RowsEnd
<1>2. hdr = disk /\ TableOK(disk, view, data) /\ ViewOK(view)
  BY <1>1, IdleFacts DEF Begin
<1>3. w \in Nat /\ R \in Nat /\ Heap \in Nat /\ SizeOf(view) = E + Heap
  BY <1>2, ViewSizes
<1>4. /\ A \in Nat /\ N \in Nat /\ E \in Nat /\ A <= E /\ w * (at + n) = A + N /\ w * (R + n) = E + N
  BY <1>1, <1>3, RowProducts
<1>5. op.op = "insertRows" /\ op.at = at /\ op.n = n
  OBVIOUS
<1> HIDE DEF op
<1>6. OpOK(op, view) /\ ~Copies(op)
  <2>1. at \in 0 .. R /\ n \in Nat \ {0}
    BY <1>1, <1>3
  <2> QED BY <1>5, <2>1 DEF OpOK, Copies
<1>7. /\ NewCols(op, view) = view.cols /\ NewWidth(op, view) = w + 0
      /\ NewRows(op, view) = R + n
  BY <1>5 DEF NewCols, NewWidth, NewRows, Delta
<1>8. NewWidth(op, view) = w
  BY <1>3, <1>7
<1>9. NewSize(op, view) = E + N + Heap
  BY <1>4, <1>7, <1>8 DEF NewSize
<1>10. \A y : Origin(op, view, y) = IF y < A THEN y ELSE IF y < A + N THEN -1 ELSE y - N
  BY <1>4, <1>5 DEF Origin
<1>11. NewHeader(h, op, view)
  <2>1. R + n \in Nat
    BY <1>3
  <2> QED BY <2>1, <1>2, <1>7, <1>8, WithRowsIs DEF NewHeader
<1>12. s = ResizeTo(E + N + Heap) \o Moved(E, E + N, Heap) \o Moved(A, A + N, E - A) \o Zeroed(A, N)
  BY <1>4
<1> HIDE DEF s, h, A, N, E, w, R
<1>13. Planning(s, op, view)
  BY <1>3, <1>4, <1>9, <1>10, <1>12, InsertRowsPieces
<1> QED BY <1>1, <1>5, <1>6, <1>11, <1>13, CommittedBegins

\* deleteRows.
LEMMA DeleteRowsBegins ==
    ASSUME TableInv, NEW at \in Nat, NEW n \in Nat, DeleteRows(at, n)
    PROVE  TableInv'
<1> DEFINE op == [op |-> "deleteRows", at |-> at, n |-> n]
           w == view.naxis1 R == view.naxis2 A == w * at N == w * n E == w * R
           F == w * (at + n) M == w * (R - n)
           h == WithRows(R - n)
           s == Moved(F, A, E - F) \o Moved(E, M, Heap) \o ResizeTo(M + Heap)
<1>1. at + n <= R /\ n > 0 /\ Begin(op, Committed(s, h, {}))
  BY DEF DeleteRows, RowsEnd
<1>2. hdr = disk /\ TableOK(disk, view, data) /\ ViewOK(view)
  BY <1>1, IdleFacts DEF Begin
<1>3. w \in Nat /\ R \in Nat /\ Heap \in Nat /\ SizeOf(view) = E + Heap
  BY <1>2, ViewSizes
<1>4. n <= R /\ R - n \in Nat
  BY <1>1, <1>3
<1>5. /\ A \in Nat /\ N \in Nat /\ E \in Nat /\ A + N <= E /\ F = A + N /\ M = E - N
  BY <1>1, <1>3, <1>4, RowProducts
<1>6. op.op = "deleteRows" /\ op.at = at /\ op.n = n
  OBVIOUS
<1> HIDE DEF op
<1>7. OpOK(op, view) /\ ~Copies(op)
  BY <1>1, <1>6 DEF OpOK, Copies
<1>8. /\ NewCols(op, view) = view.cols /\ NewWidth(op, view) = w + 0
      /\ NewRows(op, view) = R - n
  BY <1>6 DEF NewCols, NewWidth, NewRows, Delta
<1>9. NewWidth(op, view) = w
  BY <1>3, <1>8
<1>10. NewSize(op, view) = E - N + Heap
  BY <1>5, <1>8, <1>9 DEF NewSize
<1>11. \A y : Origin(op, view, y) = IF y < A THEN y ELSE y + N
  BY <1>5, <1>6 DEF Origin
<1>12. NewHeader(h, op, view)
  BY <1>2, <1>4, <1>8, <1>9, WithRowsIs DEF NewHeader
<1>13. s = Moved(F, A, E - F) \o Moved(E, E - N, Heap) \o ResizeTo(E - N + Heap)
  BY <1>5
<1> DEFINE D == E - F
<1> HIDE DEF s, h, A, N, E, w, R, F, M
<1>14. D \in Nat /\ F + D = E /\ F \in Nat
  BY <1>5
<1> HIDE DEF D
<1>15. s = Moved(F, A, D) \o Moved(E, E - N, Heap) \o ResizeTo(E - N + Heap)
  BY <1>13 DEF D
<1>16. Planning(s, op, view)
  BY <1>3, <1>5, <1>10, <1>11, <1>14, <1>15, DeleteRowsPieces
<1> QED BY <1>1, <1>6, <1>7, <1>12, <1>16, CommittedBegins

\* Rows that get wider or narrower.
LEMMA WidthProducts ==
    ASSUME NEW w \in Nat, NEW u \in Nat, NEW R \in Nat
    PROVE  /\ w * R \in Nat /\ u * R \in Nat
           /\ (w + u) * R = w * R + u * R
           /\ (0 - u) * R = 0 - u * R
           /\ u <= w => (w + (0 - u)) * R = w * R - u * R /\ u * R <= w * R
<1>1. w * R \in Nat /\ u * R \in Nat
  BY Times
<1>2. (w + u) * R = w * R + u * R /\ (u <= w => (w - u) * R = w * R - u * R)
  <2>1. w * R = R * w /\ u * R = R * u
    OBVIOUS
  <2>2. (w + u) * R = w * R + u * R
    BY TimesOrder
  <2>3. u <= w => (w - u) * R = w * R - u * R
    BY TimesOrder
  <2> QED BY <2>2, <2>3
<1>3. (0 - u) * R = 0 - u * R
  OBVIOUS
<1>4. u <= w => u * R <= w * R
  BY TimesOrder
<1>5. u <= w => w + (0 - u) = w - u
  OBVIOUS
<1> QED BY <1>1, <1>2, <1>3, <1>4, <1>5

\* insertColumn.
LEMMA InsertColumnBegins ==
    ASSUME TableInv, NEW at, NEW c \in Column, InsertColumn(at, c)
    PROVE  TableInv'
<1> DEFINE op == [op |-> "insertColumn", at |-> at, col |-> c]
           cols == view.cols w == view.naxis1 R == view.naxis2 u == Width[c] E == w * R
           N == (w + u) * R f == Offset(cols, at)
           h == WithColumn(at, c)
           p == {[hdr EXCEPT !.cards = RenumberedUp(@, k, Len(view.cols))] :
                     k \in at .. Len(view.cols) + 1}
                  \cup {[Shifted(at) EXCEPT !.cards = WithCard(@, at, c)]}
           s == ResizeTo(N + Heap) \o Moved(E, N, Heap) \o Restrided(f, u)
<1>1. at \in 1 .. Len(cols) + 1 /\ Begin(op, Committed(s, h, p))
  BY DEF InsertColumn, RowsEnd
<1>2. hdr = disk /\ TableOK(disk, view, data) /\ ViewOK(view)
  BY <1>1, IdleFacts DEF Begin
<1>3. /\ w \in Nat /\ R \in Nat /\ Heap \in Nat /\ SizeOf(view) = E + Heap
      /\ cols \in Seq(Column) /\ Len(cols) \in Nat
  BY <1>2, ViewSizes
<1>4. u \in Nat
  BY BinTableAssumption
<1>5. E \in Nat /\ N = E + u * R /\ u * R \in Nat
  BY <1>3, <1>4, WidthProducts
<1>6. f \in Nat /\ f <= w
  <2>1. Len(cols) + 1 \in 1 .. Len(cols) + 1 /\ at <= Len(cols) + 1
    BY <1>1, <1>3
  <2>2. f \in Nat /\ f <= RowWidth(cols)
    BY <1>1, <1>3, <2>1, OffsetOrder, OffsetSteps DEF RowWidth
  <2> QED BY <2>2, <1>2 DEF ViewOK
<1>7. op.op = "insertColumn" /\ op.at = at /\ op.col = c
  OBVIOUS
<1> HIDE DEF op
<1>8. OpOK(op, view) /\ ~Copies(op)
  BY <1>1, <1>7 DEF OpOK, Copies
<1>9. /\ NewCols(op, view) = InsertAt(cols, at, c) /\ NewWidth(op, view) = w + u
      /\ NewRows(op, view) = R /\ Delta(op, view) = u
  BY <1>7 DEF NewCols, NewWidth, NewRows, Delta
<1>10. NewSize(op, view) = N + Heap
  BY <1>9 DEF NewSize
<1>11. \A y : Origin(op, view, y) = IF y < N THEN RowOrigin(f, u, w, y) ELSE y - u * R
  BY <1>7, <1>9 DEF Origin
<1>12. NewHeader(h, op, view)
  <2>1. Len(InsertAt(cols, at, c)) = Len(cols) + 1
    BY <1>1, <1>3, OffsetInsert
  <2>2. /\ HeaderOK(h) /\ ColsOf(h) = InsertAt(cols, at, c) /\ h.fields = Len(cols) + 1
        /\ h.naxis1 = w + u /\ h.naxis2 = R
    BY <1>1, <1>2, WithColumnIs
  <2> QED BY <2>1, <2>2, <1>9 DEF NewHeader
<1> HIDE DEF s, h, p, f, E, R, w, N, u
<1>13. \A y \in Nat : Origin(op, view, y) = IF y < N THEN RowOrigin(f, u, w, y) ELSE y - N + E
  <2>1. \A y \in Nat : y - u * R = y - N + E
    BY <1>5
  <2> QED BY <2>1, <1>11
<1>14. N \in Nat /\ E <= N
  BY <1>5
<1>15. Planning(s, op, view)
  <2>1. \A y \in Nat : Origin(op, view, y) =
             IF y < N THEN RowOrigin(f, u, view.naxis1, y) ELSE y - N + E
    BY <1>13 DEF w
  <2>2. E = view.naxis1 * view.naxis2 /\ N = (view.naxis1 + u) * view.naxis2 /\ f <= view.naxis1
    BY <1>6 DEF E, w, R, N
  <2>3. s = ResizeTo(N + Heap) \o Moved(E, N, Heap) \o Restrided(f, u)
    BY DEF s
  <2> QED BY <2>1, <2>2, <2>3, <1>2, <1>3, <1>4, <1>5, <1>6, <1>10, <1>14, InsertColumnPieces
<1> QED BY <1>1, <1>7, <1>8, <1>12, <1>15, CommittedBegins

\* deleteColumn.
LEMMA DeleteColumnBegins ==
    ASSUME TableInv, NEW at, DeleteColumn(at)
    PROVE  TableInv'
<1> DEFINE op == [op |-> "deleteColumn", at |-> at]
           cols == view.cols w == view.naxis1 R == view.naxis2 u == Width[cols[at]] E == w * R
           N == (w - u) * R f == Offset(cols, at) z == -u
           h == WithoutColumn(at)
           p == {[hdr EXCEPT !.cards = RenumberedDown(Dropped(@, at), at + 1, k)] :
                    k \in at .. Len(view.cols)}
           s == Restrided(f, z) \o Moved(E, N, Heap) \o ResizeTo(N + Heap)
<1>1. at \in DOMAIN cols /\ Begin(op, Committed(s, h, p))
  BY DEF DeleteColumn, RowsEnd
<1>2. hdr = disk /\ TableOK(disk, view, data) /\ ViewOK(view)
  BY <1>1, IdleFacts DEF Begin
<1>3. /\ w \in Nat /\ R \in Nat /\ Heap \in Nat /\ SizeOf(view) = E + Heap
      /\ cols \in Seq(Column) /\ Len(cols) \in Nat
  BY <1>2, ViewSizes
<1>4. at \in 1 .. Len(cols) /\ at \in 1 .. Len(cols) + 1
  BY <1>1, <1>3
<1>5. f \in Nat /\ u \in Nat /\ f + u <= w
  <2>1. f \in Nat /\ u \in Nat /\ f + u <= RowWidth(cols)
    BY <1>3, <1>4, OffsetOrder, OffsetSteps
  <2> QED BY <2>1, <1>2 DEF ViewOK
<1>6. op.op = "deleteColumn" /\ op.at = at
  OBVIOUS
<1> HIDE DEF op
<1>7. OpOK(op, view) /\ ~Copies(op)
  BY <1>4, <1>6 DEF OpOK, Copies
<1>8. /\ NewCols(op, view) = RemoveAt(cols, at) /\ NewWidth(op, view) = w + (0 - u)
      /\ NewRows(op, view) = R /\ Delta(op, view) = 0 - u
  BY <1>6 DEF NewCols, NewWidth, NewRows, Delta
<1>9. \A y : Origin(op, view, y) =
         IF y < NewWidth(op, view) * R THEN RowOrigin(f, Delta(op, view), w, y)
         ELSE y - Delta(op, view) * R
  BY <1>6 DEF Origin
<1>10. NewSize(op, view) = NewWidth(op, view) * R + Heap
  BY <1>8 DEF NewSize
<1>11. /\ HeaderOK(h) /\ ColsOf(h) = RemoveAt(cols, at) /\ h.fields = Len(RemoveAt(cols, at))
       /\ h.naxis1 = w - u /\ h.naxis2 = R
  <2>1. Len(RemoveAt(cols, at)) = Len(cols) - 1
    BY <1>3, <1>4, OffsetRemove
  <2> QED BY <2>1, <1>2, <1>4, WithoutColumnIs
<1> DEFINE D == Delta(op, view) W == NewWidth(op, view)
<1> HIDE DEF s, h, p, f, E, R, w, N, u, z, D, W
<1>12. /\ D = z /\ W = w - u /\ W = w + z /\ z \in Int /\ z <= 0 /\ f - z <= w /\ f <= w
  BY <1>3, <1>5, <1>8 DEF z, D, W
<1>13. /\ E \in Nat /\ N = E - u * R /\ u * R \in Nat /\ u * R <= E
       /\ z * R = 0 - u * R /\ W * R = N
  <2>1. u <= w
    BY <1>3, <1>5
  <2>2. /\ w * R \in Nat /\ u * R \in Nat /\ (0 - u) * R = 0 - u * R
        /\ (w + (0 - u)) * R = w * R - u * R /\ u * R <= w * R
    BY <1>3, <1>5, <2>1, WidthProducts
  <2>3. w + (0 - u) = w - u /\ 0 - u = z
    BY <1>3, <1>5 DEF z
  <2> QED BY <2>2, <2>3, <1>12 DEF E, N
<1>14. N \in Nat /\ N <= E
  BY <1>13
<1>15. NewHeader(h, op, view)
  BY <1>8, <1>11, <1>12 DEF NewHeader, W
<1>16. \A y \in Nat : Origin(op, view, y) = IF y < N THEN RowOrigin(f, z, w, y) ELSE y - N + E
  <2>1. \A y \in Nat : y - D * R = y - N + E
    BY <1>12, <1>13
  <2>2. \A y : Origin(op, view, y) = IF y < W * R THEN RowOrigin(f, D, w, y) ELSE y - D * R
    BY <1>9 DEF D, W
  <2> QED BY <2>1, <2>2, <1>12, <1>13
<1>17. NewSize(op, view) = N + Heap
  BY <1>10, <1>13 DEF W
<1>18. Planning(s, op, view)
  <2>1. \A y \in Nat : Origin(op, view, y) =
             IF y < N THEN RowOrigin(f, z, view.naxis1, y) ELSE y - N + E
    BY <1>16 DEF w
  <2>2. /\ E = view.naxis1 * view.naxis2 /\ N = (view.naxis1 + z) * view.naxis2
        /\ f <= view.naxis1 /\ f - z <= view.naxis1
    BY <1>12, <1>13 DEF E, w, R
  <2>3. s = Restrided(f, z) \o Moved(E, N, Heap) \o ResizeTo(N + Heap)
    BY DEF s
  <2> QED BY <2>1, <2>2, <2>3, <1>2, <1>3, <1>5, <1>12, <1>13, <1>14, <1>17, DeleteColumnPieces
<1> QED BY <1>1, <1>6, <1>7, <1>15, <1>18, CommittedBegins

-----------------------------------------------------------------------------
(* Sequences of sequences, flattened.                                        *)

\* What FlattenSeq has put together after each sequence.
IsFlatten(fl, seqs) ==
    fl = [i \in 1 .. Len(seqs) |-> IF i = 1 THEN seqs[i] ELSE fl[i - 1] \o seqs[i]]
Flattened(seqs) == CHOOSE fl : IsFlatten(fl, seqs)

\* It is defined.
LEMMA FlattenDefined ==
    ASSUME NEW S, NEW n \in Nat, NEW f \in [1 .. n -> Seq(S)]
    PROVE  IsFlatten(Flattened(f), f) /\ Len(f) = n
<1> DEFINE G == [p \in Seq(S) \X Nat |-> IF p[2] \in 1 .. n THEN p[1] \o f[p[2]] ELSE <<>>]
<1>1. f \in Seq(Seq(S)) /\ Len(f) = n
  BY FunctionIsSeq
<1>2. <<>> \in Seq(S)
  OBVIOUS
<1>3. G \in [Seq(S) \X Nat -> Seq(S)]
  <2>1. ASSUME NEW p \in Seq(S) \X Nat, p[2] \in 1 .. n PROVE p[1] \o f[p[2]] \in Seq(S)
    <3>1. p[1] \in Seq(S) /\ f[p[2]] \in Seq(S)
      BY <2>1
    <3> QED BY <3>1, ConcatProperties
  <2> QED BY <2>1, <1>2
<1>4. ASSUME NEW x \in Seq(S), NEW k \in 1 .. n PROVE G[<<x, k>>] = x \o f[k]
  <2>1. <<x, k>> \in Seq(S) \X Nat /\ <<x, k>>[1] = x /\ <<x, k>>[2] = k
    OBVIOUS
  <2> QED BY <2>1
<1> HIDE DEF G
<1>5. PICK h : Recursive(h, Seq(S), <<>>, G, n)
  BY <1>2, <1>3, RecursionExists
<1>6. h[0] = <<>> /\ \A k \in 1 .. n : h[k] = h[k - 1] \o f[k]
  <2>1. ASSUME NEW k \in 1 .. n PROVE h[k] = h[k - 1] \o f[k]
    <3>1. k - 1 \in 0 .. n
      BY <2>1
    <3>2. h[k - 1] \in Seq(S)
      BY <3>1, <1>5 DEF Recursive
    <3> QED BY <3>2, <1>4, <1>5 DEF Recursive
  <2> QED BY <2>1, <1>5 DEF Recursive
<1>7. n >= 1 => h[1] = f[1]
  <2>1. ASSUME n >= 1 PROVE h[1] = f[1]
    <3>1. 1 \in 1 .. n /\ f[1] \in Seq(S)
      BY <2>1
    <3>2. h[1] = h[1 - 1] \o f[1]
      BY <1>6, <3>1
    <3>3. 1 - 1 = 0
      OBVIOUS
    <3>4. h[1] = <<>> \o f[1]
      BY <1>6, <3>2, <3>3
    <3> QED BY <3>1, <3>4
  <2> QED BY <2>1
<1> DEFINE fl == [i \in 1 .. n |-> h[i]]
<1>8. \A i \in 1 .. n : i # 1 => i - 1 \in 1 .. n
  OBVIOUS
<1>9. \A i \in 1 .. n : i # 1 => fl[i - 1] = h[i - 1]
  BY <1>8
<1>10. \A i \in 1 .. n : i = 1 => n >= 1
  OBVIOUS
<1>11. \A i \in 1 .. n : h[i] = IF i = 1 THEN f[i] ELSE fl[i - 1] \o f[i]
  BY <1>6, <1>7, <1>9, <1>10
<1> DEFINE g == [i \in 1 .. n |-> IF i = 1 THEN f[i] ELSE fl[i - 1] \o f[i]]
<1>12. fl = g
  BY <1>11
<1>13. IsFlatten(fl, f)
  BY <1>12, <1>1 DEF IsFlatten
<1> HIDE DEF fl
<1> QED BY <1>1, <1>13, Zenon DEF Flattened

\* The first k of the sequences f, one after the other.
Joins(g, S, n, f) ==
    /\ g[0] = <<>> /\ FlattenSeq(f) = g[n]
    /\ \A k \in 0 .. n : g[k] \in Seq(S)
    /\ \A k \in 1 .. n : g[k] = g[k - 1] \o f[k]

\* FlattenSeq puts one sequence after the other.
LEMMA FlattenSteps ==
    ASSUME NEW S, NEW n \in Nat, NEW f \in [1 .. n -> Seq(S)]
    PROVE  \E g : Joins(g, S, n, f)
<1> DEFINE fl == Flattened(f) g == [k \in 0 .. n |-> IF k = 0 THEN <<>> ELSE fl[k]]
<1>1. Len(f) = n /\ fl = [i \in 1 .. n |-> IF i = 1 THEN f[i] ELSE fl[i - 1] \o f[i]]
  BY FlattenDefined DEF IsFlatten
<1>2. FlattenSeq(f) = IF n = 0 THEN f ELSE fl[n]
  <2>1. FlattenSeq(f) = IF Len(f) = 0 THEN f ELSE fl[Len(f)]
    BY Zenon DEF FlattenSeq, Flattened, IsFlatten
  <2> QED BY <2>1, <1>1
<1> HIDE DEF fl
<1>3. n >= 1 => fl[1] = f[1] /\ f[1] \in Seq(S)
  BY <1>1
<1>4. \A k \in 1 .. n : k # 1 => fl[k] = fl[k - 1] \o f[k]
  BY <1>1
<1>5. g[0] = <<>> /\ \A k \in 1 .. n : g[k] = fl[k]
  OBVIOUS
<1> HIDE DEF g
<1>6. ASSUME NEW k \in 1 .. n PROVE g[k] = g[k - 1] \o f[k]
  <2>1. CASE k = 1
    <3>1. n >= 1 /\ k - 1 = 0
      BY <2>1
    <3>2. <<>> \o f[1] = f[1]
      BY <3>1, <1>3
    <3> QED BY <2>1, <3>1, <3>2, <1>3, <1>5
  <2>2. CASE k # 1
    <3>1. k - 1 \in 1 .. n
      BY <2>2
    <3> QED BY <2>2, <3>1, <1>4, <1>5
  <2> QED BY <2>1, <2>2
<1>7. \A k \in 0 .. n : g[k] \in Seq(S)
  <2> DEFINE T == {k \in 0 .. n : g[k] \notin Seq(S)}
  <2>1. T \subseteq Nat /\ \A k : k \in T <=> k \in 0 .. n /\ g[k] \notin Seq(S)
    OBVIOUS
  <2> HIDE DEF T
  <2>2. ASSUME T # {} PROVE FALSE
    <3>1. PICK k \in T : \A j \in T : k <= j
      BY <2>1, <2>2, LeastNatural
    <3>2. k \in 0 .. n /\ g[k] \notin Seq(S) /\ <<>> \in Seq(S)
      BY <2>1, <3>1
    <3>3. k # 0
      BY <3>2, <1>5
    <3>4. k \in 1 .. n /\ k - 1 \in 0 .. n /\ ~(k <= k - 1)
      BY <3>2, <3>3
    <3>5. g[k - 1] \in Seq(S)
      BY <2>1, <3>1, <3>4
    <3>6. f[k] \in Seq(S)
      BY <3>4
    <3>7. g[k - 1] \o f[k] \in Seq(S)
      BY <3>5, <3>6, ConcatProperties
    <3> QED BY <3>2, <3>4, <3>7, <1>6
  <2> QED BY <2>1, <2>2
<1>8. FlattenSeq(f) = g[n]
  <2>1. CASE n = 0
    <3>1. f = <<>>
      BY <2>1
    <3> QED BY <2>1, <3>1, <1>2, <1>5
  <2>2. CASE n # 0
    <3>1. n \in 1 .. n
      BY <2>2
    <3> QED BY <2>2, <3>1, <1>2, <1>5
  <2> QED BY <2>1, <2>2
<1>9. Joins(g, S, n, f)
  BY <1>5, <1>6, <1>7, <1>8 DEF Joins
<1> QED BY <1>9

\* F consists of the elements of the sequences f.
Flattens(F, S, n, f) ==
    /\ F \in Seq(S)
    /\ \A a \in 1 .. Len(F) : \E i \in 1 .. n : \E b \in 1 .. Len(f[i]) : F[a] = f[i][b]
    /\ \A i \in 1 .. n : \A b \in 1 .. Len(f[i]) : \E a \in 1 .. Len(F) : F[a] = f[i][b]

\* x consists of elements of the sequences f, and has all those of the first k of them.
Pieces(x, k, n, f) ==
    /\ \A a \in 1 .. Len(x) : \E i \in 1 .. n : \E b \in 1 .. Len(f[i]) : x[a] = f[i][b]
    /\ \A i \in 1 .. k : \A b \in 1 .. Len(f[i]) : \E a \in 1 .. Len(x) : x[a] = f[i][b]

\* The elements of what is flattened are those of its sequences.
LEMMA FlattenElements ==
    ASSUME NEW S, NEW n \in Nat, NEW f \in [1 .. n -> Seq(S)]
    PROVE  Flattens(FlattenSeq(f), S, n, f)
<1>1. PICK g : Joins(g, S, n, f)
  BY FlattenSteps
<1>2. /\ g[0] = <<>> /\ FlattenSeq(f) = g[n]
      /\ \A k \in 0 .. n : g[k] \in Seq(S)
      /\ \A k \in 1 .. n : g[k] = g[k - 1] \o f[k]
  BY <1>1 DEF Joins
<1> DEFINE P(k) == Pieces(g[k], k, n, f)
           T == {k \in 0 .. n : ~P(k)}
<1>3. P(0)
  BY <1>2 DEF Pieces
<1>4. ASSUME NEW k \in 1 .. n, P(k - 1) PROVE P(k)
  <2> DEFINE u == g[k - 1] w == f[k] x == g[k] L == Len(u) M == Len(w)
  <2>1. u \in Seq(S) /\ w \in Seq(S) /\ x = u \o w
    <3>1. k - 1 \in 0 .. n
      BY <1>4
    <3> QED BY <3>1, <1>2
  <2>2. /\ L \in Nat /\ M \in Nat /\ Len(x) = L + M
        /\ \A a \in 1 .. L + M : x[a] = IF a <= L THEN u[a] ELSE w[a - L]
    BY <2>1, ConcatProperties, LenProperties
  <2>3. /\ \A a \in 1 .. L : \E i \in 1 .. n : \E b \in 1 .. Len(f[i]) : u[a] = f[i][b]
        /\ \A i \in 1 .. k - 1 : \A b \in 1 .. Len(f[i]) : \E a \in 1 .. L : u[a] = f[i][b]
    BY <1>4 DEF Pieces
  <2>4. f[k] = w /\ Len(f[k]) = M /\ k \in 1 .. n
    OBVIOUS
  <2> HIDE DEF u, w, x, L, M
  <2>5. ASSUME NEW a \in 1 .. Len(x)
        PROVE  \E i \in 1 .. n : \E b \in 1 .. Len(f[i]) : x[a] = f[i][b]
    <3>1. CASE a <= L
      <4>1. a \in 1 .. L /\ x[a] = u[a]
        BY <2>2, <2>5, <3>1
      <4> QED BY <4>1, <2>3
    <3>2. CASE ~(a <= L)
      <4>1. a - L \in 1 .. M /\ x[a] = w[a - L]
        BY <2>2, <2>5, <3>2
      <4> QED BY <4>1, <2>4
    <3> QED BY <3>1, <3>2
  <2>6. ASSUME NEW i \in 1 .. k, NEW b \in 1 .. Len(f[i])
        PROVE  \E a \in 1 .. Len(x) : x[a] = f[i][b]
    <3>1. CASE i = k
      <4>1. b \in 1 .. M /\ b \in Nat
        BY <2>4, <2>6, <3>1
      <4>2. b + L \in 1 .. L + M /\ ~(b + L <= L) /\ b + L - L = b
        BY <4>1, <2>2
      <4>3. x[b + L] = w[b]
        BY <4>2, <2>2
      <4> QED BY <4>2, <4>3, <2>2, <2>4, <3>1
    <3>2. CASE i # k
      <4>1. i \in 1 .. k - 1
        BY <3>2, <1>4
      <4>2. PICK a \in 1 .. L : u[a] = f[i][b]
        BY <4>1, <2>3
      <4>3. a \in 1 .. L + M /\ a <= L
        BY <2>2
      <4> QED BY <4>2, <4>3, <2>2
    <3> QED BY <3>1, <3>2
  <2> QED BY <2>5, <2>6 DEF Pieces, x
<1>5. T \subseteq Nat /\ \A k : k \in T <=> k \in 0 .. n /\ ~P(k)
  OBVIOUS
<1> HIDE DEF T, P
<1>6. ASSUME T # {} PROVE FALSE
  <2>1. PICK k \in T : \A j \in T : k <= j
    BY <1>5, <1>6, LeastNatural
  <2>2. k \in 0 .. n /\ ~P(k)
    BY <1>5, <2>1
  <2>3. k \in 1 .. n /\ k - 1 \in 0 .. n /\ ~(k <= k - 1)
    BY <2>2, <1>3
  <2>4. P(k - 1)
    BY <1>5, <2>1, <2>3
  <2> QED BY <2>2, <2>3, <2>4, <1>4
<1>7. P(n) /\ n \in 0 .. n
  BY <1>5, <1>6
<1> DEFINE F == FlattenSeq(f)
<1>8. F \in Seq(S) /\ Pieces(F, n, n, f)
  BY <1>2, <1>7 DEF P
<1> HIDE DEF F
<1>9. Flattens(F, S, n, f)
  BY <1>8 DEF Pieces, Flattens
<1> QED BY <1>9 DEF F

-----------------------------------------------------------------------------
(* Copies begin.                                                             *)

\* A copy, from its plan.
LEMMA CopyBegins ==
    ASSUME TableInv, NEW op, Copies(op), OpOK(op, view), NEW s, Begin(op, s),
           Good(s, op, view), Steps(s), ~Resizes(s), NewSize(op, view) = SizeOf(view),
           \A y \in Nat : y < NewSize(op, view) => Settled(s, op, view, y)
    PROVE  TableInv'
<1>1. op.op # "iterate"
  BY DEF Copies
<1>2. Listed(s) /\ PlanOK(s, op, view)
  BY DEF Good
<1>3. Shaped(s, op, view)
  BY <1>2, CopyShape
<1> QED BY <1>1, <1>2, <1>3, EditBegins

\* Loops do not resize.
LEMMA SpansOnly ==
    ASSUME NEW s, NEW v, NEW f, NEW p, NEW sf, NEW sp, Spans(s, v, f, p, sf, sp)
    PROVE  ~Resizes(s)
BY Kinds DEF Spans, Resizes

\* A copy keeps the size of the table.
LEMMA CopySizes ==
    ASSUME NEW v, ViewOK(v), NEW op, Copies(op)
    PROVE  NewSize(op, v) = SizeOf(v)
<1>1. v.naxis1 \in Nat
  BY ViewSizes
<1>2. NewWidth(op, v) = v.naxis1 + 0 /\ NewRows(op, v) = v.naxis2
  BY DEF Copies, NewWidth, NewRows, Delta
<1>3. NewWidth(op, v) = v.naxis1
  BY <1>1, <1>2
<1> QED BY <1>2, <1>3 DEF NewSize, SizeOf

\* copyRows.
LEMMA CopyRowsBegins ==
    ASSUME TableInv, NEW from \in Nat, NEW n \in Nat, NEW at \in Nat, CopyRows(from, n, at)
    PROVE  TableInv'
<1> DEFINE op == [op |-> "copyRows", from |-> from, n |-> n, at |-> at]
           w == view.naxis1 R == view.naxis2 A == w * from B == w * at N == w * n E == w * R
           s == Moved(A, B, N) T == NewSize(op, view) S == SizeOf(view)
<1>1. n > 0 /\ from + n <= R /\ at + n <= R /\ Begin(op, s)
  BY DEF CopyRows
<1>2. ViewOK(view)
  BY <1>1, IdleFacts DEF Begin
<1>3. w \in Nat /\ R \in Nat /\ Heap \in Nat /\ S = E + Heap
  BY <1>2, ViewSizes
<1>4. op.op = "copyRows" /\ op.at = at /\ op.n = n /\ op.from = from
  OBVIOUS
<1> HIDE DEF op
<1>5. OpOK(op, view) /\ Copies(op)
  BY <1>1, <1>4 DEF OpOK, Copies
<1>6. T = S
  BY <1>2, <1>5, CopySizes
<1>7. /\ A \in Nat /\ B \in Nat /\ N \in Nat /\ E \in Nat /\ w * (at + n) = B + N
      /\ A + N <= E /\ B + N <= E
  BY <1>1, <1>3, RowProducts
<1>8. \A y : Origin(op, view, y) = IF B <= y /\ y < B + N THEN y - B + A ELSE y
  BY <1>4, <1>7 DEF Origin
<1> HIDE DEF A, B, N, E, w, R, T, S
<1>9. Fetches(op, view, A, B, N)
  <2>1. S \in Nat /\ A + N <= S /\ B + N <= S
    BY <1>3, <1>7
  <2>2. \A y \in Nat : B <= y /\ y < B + N => Origin(op, view, y) = y - B + A
    BY <1>8
  <2> QED BY <2>1, <2>2, <1>6, <1>7 DEF Fetches, T, S
<1>10. /\ Good(s, op, view) /\ Steps(s) /\ Spans(s, view, B, B + N, A, A + N)
       /\ \A y \in Nat : B <= y /\ y < B + N => Settled(s, op, view, y)
  BY <1>9, MovedPiece
<1>11. ~Resizes(s)
  BY <1>10, SpansOnly
<1> HIDE DEF s
<1>12. ASSUME NEW y \in Nat, y < NewSize(op, view) PROVE Settled(s, op, view, y)
  <2>1. CASE B <= y /\ y < B + N
    BY <2>1, <1>10
  <2>2. CASE ~(B <= y /\ y < B + N)
    <3>1. Origin(op, view, y) = y /\ y < SizeOf(view)
      BY <2>2, <1>6, <1>8, <1>12 DEF T, S
    <3> QED BY <3>1 DEF Settled
  <2> QED BY <2>1, <2>2
<1> QED BY <1>1, <1>5, <1>6, <1>10, <1>11, <1>12, CopyBegins DEF T, S

\* A plan of many pieces.
LEMMA ManyPieces ==
    ASSUME NEW op, NEW v, NEW S, NEW n \in Nat, NEW f \in [1 .. n -> Seq(S)],
           \A i \in 1 .. n : Good(f[i], op, v) /\ Steps(f[i]) /\ ~Resizes(f[i]),
           \A i, j \in 1 .. n : i < j => Cross(f[i], f[j], op, v)
    PROVE  /\ Good(FlattenSeq(f), op, v) /\ Steps(FlattenSeq(f)) /\ ~Resizes(FlattenSeq(f))
           /\ \A i \in 1 .. n : \A y :
                 Settled(f[i], op, v, y) => Settled(FlattenSeq(f), op, v, y)
<1>1. PICK g : Joins(g, S, n, f)
  BY FlattenSteps
<1>2. /\ g[0] = <<>> /\ FlattenSeq(f) = g[n] /\ \A k \in 1 .. n : g[k] = g[k - 1] \o f[k]
  BY <1>1 DEF Joins
<1> DEFINE P(k) == /\ Good(g[k], op, v) /\ Steps(g[k]) /\ ~Resizes(g[k])
                   /\ \A j \in 1 .. n : k < j => Cross(g[k], f[j], op, v)
                   /\ \A i \in 1 .. k : \A y :
                         Settled(f[i], op, v, y) => Settled(g[k], op, v, y)
           T == {k \in 0 .. n : ~P(k)}
<1>3. P(0)
  <2>1. Good(<<>>, op, v) /\ Steps(<<>>)
    <3>1. <<>> = <<>> \/ <<>> = <<0>>
      OBVIOUS
    <3> QED BY <3>1, OneStep
  <2>2. ~Resizes(<<>>) /\ \A j : Cross(<<>>, f[j], op, v)
    BY DEF Resizes, Cross
  <2>3. \A i \in 1 .. 0 : FALSE
    OBVIOUS
  <2> QED BY <2>1, <2>2, <2>3, <1>2
<1>4. ASSUME NEW k \in 1 .. n, P(k - 1) PROVE P(k)
  <2> DEFINE u == g[k - 1] p == f[k] x == g[k]
  <2>1. x = u \o p
    BY <1>2
  <2>2. /\ Good(u, op, v) /\ Steps(u) /\ ~Resizes(u)
        /\ \A j \in 1 .. n : k - 1 < j => Cross(u, f[j], op, v)
        /\ \A i \in 1 .. k - 1 : \A y : Settled(f[i], op, v, y) => Settled(u, op, v, y)
    BY <1>4
  <2>3. /\ Good(p, op, v) /\ Steps(p) /\ ~Resizes(p)
        /\ \A j \in 1 .. n : k < j => Cross(p, f[j], op, v)
    OBVIOUS
  <2>4. k - 1 < k /\ k \in 1 .. n
    OBVIOUS
  <2>5. Cross(u, p, op, v)
    BY <2>2, <2>4
  <2>6. f[k] = p
    OBVIOUS
  <2>7. g[k] = x
    OBVIOUS
  <2> HIDE DEF u, p, x
  <2>8. Listed(u) /\ Listed(p)
    BY <2>2, <2>3 DEF Good
  <2>9. Good(x, op, v)
    BY <2>1, <2>2, <2>3, <2>5, GoodConcat
  <2>10. /\ Steps(x) /\ ~Resizes(x)
        /\ \A y : Settled(u, op, v, y) \/ Settled(p, op, v, y) => Settled(x, op, v, y)
    BY <2>1, <2>2, <2>3, <2>8, PendsConcat
  <2>11. ASSUME NEW j \in 1 .. n, k < j PROVE Cross(x, f[j], op, v)
    <3>1. k - 1 < j
      BY <2>11
    <3>2. Cross(u, f[j], op, v) /\ Cross(p, f[j], op, v)
      BY <3>1, <2>2, <2>3, <2>11
    <3> QED BY <3>2, <2>1, <2>8, CrossConcat
  <2>12. ASSUME NEW i \in 1 .. k, NEW y, Settled(f[i], op, v, y) PROVE Settled(x, op, v, y)
    <3>1. CASE i = k
      BY <3>1, <2>10, <2>12, <2>6
    <3>2. CASE i # k
      <4>1. i \in 1 .. k - 1
        BY <3>2
      <4> QED BY <4>1, <2>2, <2>10, <2>12
    <3> QED BY <3>1, <3>2
  <2> QED BY <2>9, <2>10, <2>11, <2>12, <2>7
<1>5. T \subseteq Nat /\ \A k : k \in T <=> k \in 0 .. n /\ ~P(k)
  OBVIOUS
<1> HIDE DEF T, P
<1>6. ASSUME T # {} PROVE FALSE
  <2>1. PICK k \in T : \A j \in T : k <= j
    BY <1>5, <1>6, LeastNatural
  <2>2. k \in 0 .. n /\ ~P(k)
    BY <1>5, <2>1
  <2>3. k \in 1 .. n /\ k - 1 \in 0 .. n /\ ~(k <= k - 1)
    BY <2>2, <1>3
  <2>4. P(k - 1)
    BY <1>5, <2>1, <2>3
  <2> QED BY <2>2, <2>3, <2>4, <1>4
<1>7. P(n) /\ n \in 0 .. n
  BY <1>5, <1>6
<1> QED BY <1>2, <1>7 DEF P

\* A field lies within its row.
LEMMA FieldsIn ==
    ASSUME NEW v, ViewOK(v), NEW i \in 1 .. Len(v.cols)
    PROVE  /\ Offset(v.cols, i) \in Nat /\ Width[v.cols[i]] \in Nat
           /\ Offset(v.cols, i) + Width[v.cols[i]] <= v.naxis1
           /\ Offset(v.cols, i + 1) = Offset(v.cols, i) + Width[v.cols[i]]
<1>1. v.cols \in Seq(Column) /\ Len(v.cols) \in Nat /\ v.naxis1 = RowWidth(v.cols)
  BY ViewSizes DEF ViewOK
<1>2. i \in 1 .. Len(v.cols) + 1
  BY <1>1
<1>3. /\ Offset(v.cols, i) \in Nat /\ Width[v.cols[i]] \in Nat
      /\ Offset(v.cols, i + 1) = Offset(v.cols, i) + Width[v.cols[i]]
  BY <1>1, <1>2, OffsetSteps
<1>4. Offset(v.cols, i) + Width[v.cols[i]] <= RowWidth(v.cols)
  BY <1>1, OffsetOrder
<1> QED BY <1>1, <1>3, <1>4

\* A row lies before the next one, and within the rows.
LEMMA RowsIn ==
    ASSUME NEW w \in Nat, NEW R \in Nat, NEW r \in 1 .. R
    PROVE  /\ (r - 1) * w \in Nat /\ (r - 1) * w + w <= w * R
           /\ \A q \in 1 .. R : r < q => (r - 1) * w + w <= (q - 1) * w
<1>1. r - 1 \in Nat /\ r - 1 < R
  OBVIOUS
<1>2. (r - 1) * w \in Nat /\ (r - 1) * w + w <= R * w
  BY <1>1, Times, TimesOrder
<1>3. w * R = R * w
  BY Times
<1>4. ASSUME NEW q \in 1 .. R, r < q PROVE (r - 1) * w + w <= (q - 1) * w
  <2>1. q - 1 \in Nat /\ r - 1 < q - 1
    BY <1>4
  <2> QED BY <2>1, <1>1, TimesOrder
<1> QED BY <1>2, <1>3, <1>4

\* copyColumn, one row at a time: the field at offset j of every row from that at offset i.
LEMMA CopyColumnPieces ==
    ASSUME NEW op, NEW v, ViewOK(v), NEW i \in Nat, NEW j \in Nat, NEW u \in Nat,
           i + u <= v.naxis1, j + u <= v.naxis1, NewSize(op, v) = SizeOf(v),
           \A y \in Nat : Origin(op, v, y) =
               IF y < v.naxis1 * v.naxis2 /\ j <= y % v.naxis1 /\ y % v.naxis1 < j + u
               THEN y - j + i ELSE y,
           NEW f, f = [r \in 1 .. v.naxis2 |->
                          Moved((r - 1) * v.naxis1 + i, (r - 1) * v.naxis1 + j, u)]
    PROVE  /\ Good(FlattenSeq(f), op, v) /\ Steps(FlattenSeq(f)) /\ ~Resizes(FlattenSeq(f))
           /\ \A y \in Nat : y < NewSize(op, v) => Settled(FlattenSeq(f), op, v, y)
<1> DEFINE w == v.naxis1 R == v.naxis2 E == w * R T == NewSize(op, v) S == SizeOf(v)
           O(y) == Origin(op, v, y) s == FlattenSeq(f)
           X == UNION {ToSet(f[r]) : r \in 1 .. R}
<1>1. w \in Nat /\ R \in Nat /\ Heap \in Nat /\ E \in Nat /\ S = E + Heap /\ S \in Nat /\ T = S
  BY ViewSizes
<1>2. /\ DOMAIN f = 1 .. R
      /\ \A r \in 1 .. R : f[r] = Moved((r - 1) * w + i, (r - 1) * w + j, u)
  OBVIOUS
<1>3. /\ i + u <= w /\ j + u <= w
      /\ \A y \in Nat : O(y) =
           IF y < E /\ j <= y % w /\ y % w < j + u THEN y - j + i ELSE y
  OBVIOUS
<1>4. /\ \A r \in 1 .. R : (r - 1) * w \in Nat /\ (r - 1) * w + w <= E
      /\ \A r, q \in 1 .. R : r < q => (r - 1) * w + w <= (q - 1) * w
  BY <1>1, RowsIn
<1> HIDE DEF w, R, E, T, S, O
<1>5. ASSUME NEW r \in 1 .. R, NEW b, b = (r - 1) * w
      PROVE  /\ Good(f[r], op, v) /\ Steps(f[r]) /\ ~Resizes(f[r])
             /\ Spans(f[r], v, b + j, b + j + u, b + i, b + i + u)
             /\ \A y \in Nat : b + j <= y /\ y < b + j + u => Settled(f[r], op, v, y)
  <2>1. b \in Nat /\ b + w <= E /\ b + i \in Nat /\ b + j \in Nat
    BY <1>4, <1>5
  <2>2. b + j + u <= T /\ b + i + u <= S
    BY <2>1, <1>1, <1>3
  <2>3. ASSUME NEW y \in Nat, b + j <= y, y < b + j + u PROVE O(y) = y - (b + j) + (b + i)
    <3>1. y - b \in 0 .. w - 1 /\ j <= y - b /\ y - b < j + u /\ w \in Nat \ {0} /\ y < E
      BY <2>1, <2>3, <1>1, <1>3
    <3>2. r - 1 \in Nat /\ y = (r - 1) * w + (y - b)
      BY <1>5, <2>1
    <3>3. y % w = y - b
      <4> DEFINE k == y - b
      <4>1. k \in 0 .. w - 1 /\ w \in Nat \ {0} /\ r - 1 \in Nat /\ y = (r - 1) * w + k
        BY <3>1, <3>2
      <4> HIDE DEF k
      <4>2. ((r - 1) * w + k) % w = k
        BY <4>1, RowPlace
      <4>3. y % w = k
        BY <4>1, <4>2
      <4> QED BY <4>3 DEF k
    <3>4. O(y) = y - j + i
      BY <3>1, <3>3, <1>3
    <3> QED BY <3>4, <2>1
  <2>4. Fetches(op, v, b + i, b + j, u)
    BY <2>1, <2>2, <2>3, <1>1 DEF Fetches, O, T, S
  <2>5. f[r] = Moved(b + i, b + j, u)
    BY <1>2, <1>5
  <2> DEFINE src == b + i dst == b + j
  <2> HIDE DEF src, dst
  <2>6. /\ Good(Moved(src, dst, u), op, v) /\ Steps(Moved(src, dst, u))
        /\ Spans(Moved(src, dst, u), v, dst, dst + u, src, src + u)
        /\ \A y \in Nat : dst <= y /\ y < dst + u => Settled(Moved(src, dst, u), op, v, y)
    BY <2>4, MovedPiece DEF src, dst
  <2>7. ~Resizes(Moved(src, dst, u))
    BY <2>6, SpansOnly
  <2> QED BY <2>5, <2>6, <2>7 DEF src, dst
<1>6. f \in [1 .. R -> Seq(X)]
  <2>1. ASSUME NEW r \in 1 .. R PROVE f[r] \in Seq(X)
    <3>1. Listed(f[r])
      BY <1>5 DEF Good
    <3>2. f[r] \in Seq(ToSet(f[r])) /\ ToSet(f[r]) \subseteq X
      BY <3>1 DEF Listed
    <3> HIDE DEF X
    <3>3. /\ Len(f[r]) \in Nat /\ DOMAIN f[r] = 1 .. Len(f[r])
          /\ \A k \in 1 .. Len(f[r]) : f[r][k] \in ToSet(f[r])
      BY <3>2, ToSetFacts
    <3> QED BY <3>2, <3>3
  <2> HIDE DEF X
  <2>2. f = [r \in 1 .. R |-> f[r]]
    BY DEF R
  <2> QED BY <2>1, <2>2
<1>7. ASSUME NEW r \in 1 .. R, NEW q \in 1 .. R, r < q PROVE Cross(f[r], f[q], op, v)
  <2> DEFINE b == (r - 1) * w c == (q - 1) * w
  <2>1. b \in Nat /\ c \in Nat /\ b + w <= c
    BY <1>4, <1>7
  <2>2. /\ Spans(f[r], v, b + j, b + j + u, b + i, b + i + u)
        /\ Spans(f[q], v, c + j, c + j + u, c + i, c + i + u)
    BY <1>5
  <2> HIDE DEF b, c
  <2>3. b + j + u <= c + i
    BY <2>1, <1>1, <1>3
  <2> QED BY <2>2, <2>3, SpanCross
<1> HIDE DEF X
<1>8. /\ Good(s, op, v) /\ Steps(s) /\ ~Resizes(s)
      /\ \A r \in 1 .. R : \A y : Settled(f[r], op, v, y) => Settled(s, op, v, y)
  BY <1>1, <1>5, <1>6, <1>7, ManyPieces
<1> HIDE DEF s
<1>9. ASSUME NEW y \in Nat, y < NewSize(op, v) PROVE Settled(s, op, v, y)
  <2>1. CASE y < E /\ j <= y % w /\ y % w < j + u
    <3> DEFINE d == y \div w k == y % w r == d + 1 b == (r - 1) * w
    <3>1. w \in Nat \ {0} /\ E = R * w
      <4>1. w * R = R * w
        BY <1>1, Times
      <4>2. w = 0 => R * w = 0
        BY <1>1, Times
      <4> QED BY <4>1, <4>2, <2>1, <1>1 DEF E
    <3>2. d \in Nat /\ k \in 0 .. w - 1 /\ y = d * w + k /\ d < R
      BY <2>1, <3>1, <1>1, PlaceRow
    <3>3. j <= k /\ k < j + u
      BY <2>1
    <3> HIDE DEF d, k
    <3>4. r \in 1 .. R /\ r - 1 = d
      BY <3>2, <1>1
    <3>5. b \in Nat /\ y = b + k
      BY <3>2, <3>4, <1>4
    <3> HIDE DEF r, b
    <3>6. b + j <= y /\ y < b + j + u
      BY <3>3, <3>5, <3>2, <3>1
    <3>7. Settled(f[r], op, v, y)
      BY <3>4, <3>6, <1>5 DEF b
    <3> QED BY <3>4, <3>7, <1>8
  <2>2. CASE ~(y < E /\ j <= y % w /\ y % w < j + u)
    <3>1. Origin(op, v, y) = y /\ y < SizeOf(v)
      BY <2>2, <1>1, <1>3, <1>9 DEF T, S, O
    <3> QED BY <3>1 DEF Settled
  <2> QED BY <2>1, <2>2
<1> QED BY <1>8, <1>9 DEF s

\* copyColumn.
LEMMA CopyColumnBegins ==
    ASSUME TableInv, NEW from, NEW at, CopyColumn(from, at)
    PROVE  TableInv'
<1> DEFINE op == [op |-> "copyColumn", from |-> from, at |-> at]
           v == view cols == view.cols i == Offset(cols, from) j == Offset(cols, at)
           u == Width[cols[from]]
           f == [r \in 1 .. v.naxis2 |-> Moved((r - 1) * v.naxis1 + i, (r - 1) * v.naxis1 + j, u)]
           s == FlattenSeq(f)
<1>1. /\ from \in DOMAIN cols /\ at \in DOMAIN cols /\ from # at /\ Width[cols[from]] = Width[cols[at]]
      /\ Begin(op, s)
  BY DEF CopyColumn
<1>2. ViewOK(view)
  BY <1>1, IdleFacts DEF Begin
<1>3. from \in 1 .. Len(cols) /\ at \in 1 .. Len(cols)
  BY <1>1, <1>2, ViewSizes
<1>4. op.op = "copyColumn" /\ op.at = at /\ op.from = from
  OBVIOUS
<1> HIDE DEF op
<1>5. OpOK(op, view) /\ Copies(op)
  BY <1>1, <1>3, <1>4 DEF OpOK, Copies
<1>6. NewSize(op, view) = SizeOf(view)
  BY <1>2, <1>5, CopySizes
<1>7. /\ i \in Nat /\ u \in Nat /\ i + u <= v.naxis1 /\ j \in Nat /\ j + u <= v.naxis1
      /\ Offset(cols, at + 1) = j + u
  <2>1. Width[cols[from]] \in Nat /\ i \in Nat /\ i + Width[cols[from]] <= v.naxis1
    BY <1>2, <1>3, FieldsIn
  <2>2. /\ j \in Nat /\ j + Width[cols[at]] <= v.naxis1
        /\ Offset(cols, at + 1) = j + Width[cols[at]]
    BY <1>2, <1>3, FieldsIn
  <2> QED BY <2>1, <2>2, <1>1
<1>8. \A y : Origin(op, view, y) =
         IF y < view.naxis1 * view.naxis2 /\ y % view.naxis1 \in j .. Offset(cols, at + 1) - 1
         THEN y - j + i ELSE y
  BY <1>4 DEF Origin
<1>9. v.naxis1 \in Nat /\ v.naxis2 \in Nat
  BY <1>2, ViewSizes
<1> DEFINE w == v.naxis1 E == v.naxis1 * v.naxis2
<1> HIDE DEF i, j, u, w, E
<1>10. \A y \in Nat : y < E => y % w \in Int
  <2>1. w = 0 => E = 0
    BY <1>9 DEF w, E
  <2> QED BY <2>1, <1>9, PlaceRow DEF w
<1>11. \A y \in Nat : Origin(op, view, y) =
         IF y < view.naxis1 * view.naxis2 /\ j <= y % view.naxis1 /\ y % view.naxis1 < j + u
         THEN y - j + i ELSE y
  <2>1. ASSUME NEW y \in Nat, y < E
        PROVE  y % w \in j .. (j + u) - 1 <=> j <= y % w /\ y % w < j + u
    <3> DEFINE k == y % w
    <3>1. k \in Int
      BY <2>1, <1>10
    <3> HIDE DEF k
    <3>2. k \in j .. (j + u) - 1 <=> j <= k /\ k < j + u
      BY <3>1, <1>7
    <3> QED BY <3>2 DEF k
  <2> QED BY <2>1, <1>7, <1>8 DEF w, E
<1> HIDE DEF s
<1>12. /\ Good(s, op, view) /\ Steps(s) /\ ~Resizes(s)
       /\ \A y \in Nat : y < NewSize(op, view) => Settled(s, op, view, y)
  BY <1>2, <1>6, <1>7, <1>11, CopyColumnPieces DEF s
<1> QED BY <1>1, <1>5, <1>6, <1>12, CopyBegins

-----------------------------------------------------------------------------
(* The iterator.                                                             *)

\* A field lies in its row, and its row before and after others.
LEMMA FieldIn ==
    ASSUME NEW v, ViewOK(v), NEW r \in 0 .. v.naxis2 - 1, NEW i \in 1 .. Len(v.cols)
    PROVE  /\ FieldAt(v, r, i) \in Nat /\ Width[v.cols[i]] \in Nat
           /\ r * v.naxis1 \in Nat /\ r * v.naxis1 <= FieldAt(v, r, i)
           /\ FieldAt(v, r, i) + Width[v.cols[i]] <= r * v.naxis1 + v.naxis1
           /\ r * v.naxis1 + v.naxis1 <= SizeOf(v)
           /\ \A t \in Nat : /\ t * v.naxis1 \in Nat
                             /\ r < t => r * v.naxis1 + v.naxis1 <= t * v.naxis1
                             /\ t <= r => t * v.naxis1 <= r * v.naxis1
<1> DEFINE w == v.naxis1 R == v.naxis2 o == Offset(v.cols, i) u == Width[v.cols[i]]
           F == FieldAt(v, r, i) S == SizeOf(v)
<1>1. w \in Nat /\ R \in Nat /\ Heap \in Nat /\ w * R \in Nat /\ S = w * R + Heap
  BY ViewSizes
<1>2. o \in Nat /\ u \in Nat /\ o + u <= w
  BY FieldsIn
<1>3. F = r * w + o
  BY DEF FieldAt
<1> HIDE DEF w, R, o, u, F, S
<1>4. r \in Nat /\ r < R
  BY <1>1 DEF R
<1>5. r * w \in Nat /\ r * w + w <= R * w /\ R * w = w * R
  BY <1>1, <1>4, Times, TimesOrder
<1>6. \A t \in Nat : /\ t * w \in Nat
                     /\ r < t => r * w + w <= t * w
                     /\ t <= r => t * w <= r * w
  BY <1>1, <1>4, Times, TimesOrder
<1>7. F \in Nat /\ r * w <= F /\ F + u <= r * w + w /\ r * w + w <= S
  BY <1>1, <1>2, <1>3, <1>5
<1> QED BY <1>2, <1>5, <1>6, <1>7 DEF w, u, F, S

\* Two fields share no cell.
LEMMA FieldsApart ==
    ASSUME NEW v, ViewOK(v), NEW r \in 0 .. v.naxis2 - 1, NEW i \in 1 .. Len(v.cols),
           NEW q \in 0 .. v.naxis2 - 1, NEW j \in 1 .. Len(v.cols), <<r, i>> # <<q, j>>
    PROVE  \/ FieldAt(v, r, i) + Width[v.cols[i]] <= FieldAt(v, q, j)
           \/ FieldAt(v, q, j) + Width[v.cols[j]] <= FieldAt(v, r, i)
<1> DEFINE w == v.naxis1 F == FieldAt(v, r, i) G == FieldAt(v, q, j)
           a == Width[v.cols[i]] b == Width[v.cols[j]]
           o == Offset(v.cols, i) p == Offset(v.cols, j)
<1>1. r \in Nat /\ q \in Nat /\ i \in Nat /\ j \in Nat
  OBVIOUS
<1>2. w \in Nat /\ v.cols \in Seq(Column) /\ Len(v.cols) \in Nat
  BY ViewSizes
<1>3. /\ F \in Nat /\ a \in Nat /\ r * w \in Nat /\ r * w <= F /\ F + a <= r * w + w
      /\ r < q => r * w + w <= q * w
  BY <1>1, FieldIn
<1>4. /\ G \in Nat /\ b \in Nat /\ q * w \in Nat /\ q * w <= G /\ G + b <= q * w + w
      /\ q < r => q * w + w <= r * w
  BY <1>1, FieldIn
<1>5. F = r * w + o /\ G = q * w + p /\ o \in Nat /\ p \in Nat
  BY FieldsIn DEF FieldAt
<1>6. /\ i < j => o + a <= p
      /\ j < i => p + b <= o
  <2>1. i \in 1 .. Len(v.cols) + 1 /\ j \in 1 .. Len(v.cols) + 1
    BY <1>2
  <2> QED BY <2>1, <1>2, OffsetOrder
<1> HIDE DEF w, F, G, a, b, o, p
<1>7. ASSUME r < q PROVE F + a <= G \/ G + b <= F
  BY <1>2, <1>3, <1>4, <1>7
<1>8. ASSUME q < r PROVE F + a <= G \/ G + b <= F
  BY <1>2, <1>3, <1>4, <1>8
<1>9. ASSUME r = q PROVE F + a <= G \/ G + b <= F
  <2>1. i < j \/ j < i
    BY <1>1, <1>9
  <2>2. r * w = q * w
    BY <1>9
  <2> DEFINE m == r * w
  <2>3. m \in Nat /\ F = m + o /\ G = m + p /\ o \in Nat /\ p \in Nat /\ a \in Nat /\ b \in Nat
    BY <2>2, <1>3, <1>4, <1>5
  <2> HIDE DEF m
  <2> QED BY ONLY <2>1, <2>3, <1>6
<1>10. F + a <= G \/ G + b <= F
  BY <1>1, <1>7, <1>8, <1>9
<1> QED BY <1>10 DEF F, G, a, b

\* A write of the iterator covers a field as a whole or not at all.
LEMMA WriteSplits ==
    ASSUME NEW v, ViewOK(v), NEW op, OpOK(op, v), op.op = "iterate", NEW s, WriteOK(s, op, v),
           NEW r \in 0 .. v.naxis2 - 1, NEW i \in 1 .. Len(v.cols)
    PROVE  /\ \/ s.off <= FieldAt(v, r, i) /\ FieldAt(v, r, i) + Width[v.cols[i]] <= s.off + s.len
              \/ FieldAt(v, r, i) + Width[v.cols[i]] <= s.off
              \/ s.off + s.len <= FieldAt(v, r, i)
           /\ i \notin op.writes =>
                FieldAt(v, r, i) + Width[v.cols[i]] <= s.off \/ s.off + s.len <= FieldAt(v, r, i)
<1> DEFINE F == FieldAt(v, r, i) a == Width[v.cols[i]] off == s.off len == s.len w == v.naxis1
<1>1. op.writes \subseteq 1 .. Len(v.cols)
  BY DEF OpOK
<1>2. off \in Nat /\ len \in Nat
  BY DEF WriteOK
<1>3. /\ F \in Nat /\ a \in Nat /\ r * w \in Nat /\ r * w <= F /\ F + a <= r * w + w
      /\ \A t \in Nat : /\ t * w \in Nat
                        /\ r < t => r * w + w <= t * w
                        /\ t <= r => t * w <= r * w
  BY FieldIn
<1>4. ASSUME NEW q \in 0 .. v.naxis2 - 1, NEW j \in op.writes,
             off = FieldAt(v, q, j), len = Width[v.cols[j]]
      PROVE  /\ (off <= F /\ F + a <= off + len) \/ F + a <= off \/ off + len <= F
             /\ i \notin op.writes => F + a <= off \/ off + len <= F
  <2>1. j \in 1 .. Len(v.cols)
    BY <1>1
  <2>2. CASE <<r, i>> = <<q, j>>
    <3>1. r = q /\ i = j
      BY <2>2
    <3>2. off = F /\ len = a
      BY <3>1, <1>4
    <3> HIDE DEF F, a, off, len
    <3> QED BY <3>1, <3>2, <1>2
  <2>3. CASE <<r, i>> # <<q, j>>
    BY <2>1, <2>3, <1>4, FieldsApart
  <2> QED BY <2>2, <2>3
<1>5. ASSUME op.writes = 1 .. Len(v.cols), NEW q \in 0 .. v.naxis2 - 1, NEW t \in 0 .. v.naxis2,
             q <= t, off = q * w, len = (t - q) * w
      PROVE  (off <= F /\ F + a <= off + len) \/ F + a <= off \/ off + len <= F
  <2>1. q \in Nat /\ t \in Nat /\ r \in Nat /\ w \in Nat
    BY ViewSizes
  <2>2. (t - q) * w = t * w - q * w
    BY <2>1, <1>5, TimesOrder
  <2>3. /\ q * w \in Nat /\ t * w \in Nat
        /\ r < q => r * w + w <= q * w
        /\ q <= r => q * w <= r * w
        /\ r < t => r * w + w <= t * w
        /\ t <= r => t * w <= r * w
    BY <2>1, <1>3
  <2>4. off = q * w /\ off + len = t * w
    <3> HIDE DEF off, len, w
    <3> QED BY <1>5, <2>2, <2>3
  <2> HIDE DEF off, len, w, F, a
  <2> QED BY <2>1, <2>3, <2>4, <1>2, <1>3
<1>6. \/ \E q \in 0 .. v.naxis2 - 1, j \in op.writes :
             off = FieldAt(v, q, j) /\ len = Width[v.cols[j]]
      \/ /\ op.writes = 1 .. Len(v.cols)
         /\ \E q \in 0 .. v.naxis2 - 1, t \in 0 .. v.naxis2 :
               q <= t /\ off = q * w /\ len = (t - q) * w
  BY DEF WriteOK
<1>7. CASE \E q \in 0 .. v.naxis2 - 1, j \in op.writes :
             off = FieldAt(v, q, j) /\ len = Width[v.cols[j]]
  BY <1>4, <1>7
<1>8. CASE /\ op.writes = 1 .. Len(v.cols)
           /\ \E q \in 0 .. v.naxis2 - 1, t \in 0 .. v.naxis2 :
                 q <= t /\ off = q * w /\ len = (t - q) * w
  BY <1>5, <1>8
<1> QED BY <1>6, <1>7, <1>8

\* A write that does not cover a field leaves it alone.
LEMMA FieldKept ==
    ASSUME NEW v, ViewOK(v), NEW r \in 0 .. v.naxis2 - 1, NEW i \in 1 .. Len(v.cols),
           NEW d, DataOK(d), d.size = SizeOf(v), NEW off \in Nat, NEW n \in Nat, off + n <= d.size,
           FieldAt(v, r, i) + Width[v.cols[i]] <= off \/ off + n <= FieldAt(v, r, i),
           NEW c, NEW e, e = Written(d, off, n, c)
    PROVE  /\ Alike(e, d, v, r, i)
           /\ \A x : Holds(d, v, r, i, x) => Holds(e, v, r, i, x)
           /\ \A f : Alike(d, f, v, r, i) => Alike(e, f, v, r, i)
<1> DEFINE F == FieldAt(v, r, i) a == Width[v.cols[i]] S == d.size
<1>1. /\ F \in Nat /\ a \in Nat /\ F + a <= r * v.naxis1 + v.naxis1
      /\ r * v.naxis1 + v.naxis1 <= S /\ r * v.naxis1 \in Nat
  BY FieldIn
<1>2. v.naxis1 \in Nat /\ S \in Nat
  BY ViewSizes DEF DataOK
<1>3. \A y \in Nat : y < S =>
         e.at[y] = IF off <= y /\ y < off + n THEN c[y - off] ELSE d.at[y]
  BY WrittenFacts
<1>4. F + a <= off \/ off + n <= F
  OBVIOUS
<1> HIDE DEF F, a, S
<1>5. F + a <= S
  BY <1>1, <1>2
<1>6. ASSUME NEW k \in 0 .. a - 1 PROVE e.at[F + k] = d.at[F + k]
  <2>1. F + k \in Nat /\ F + k < S /\ ~(off <= F + k /\ F + k < off + n)
    BY <1>1, <1>2, <1>4, <1>5, <1>6
  <2> QED BY <2>1, <1>3
<1> QED BY <1>6 DEF Alike, Holds, F, a

\* One that covers it fills it with what it writes.
LEMMA FieldFilled ==
    ASSUME NEW v, ViewOK(v), NEW r \in 0 .. v.naxis2 - 1, NEW i \in 1 .. Len(v.cols),
           NEW d, DataOK(d), d.size = SizeOf(v), NEW off \in Nat, NEW n \in Nat, off + n <= d.size,
           off <= FieldAt(v, r, i), FieldAt(v, r, i) + Width[v.cols[i]] <= off + n,
           NEW c, NEW x, \A k \in 0 .. n - 1 : c[k] = x, NEW e, e = Written(d, off, n, c)
    PROVE  Holds(e, v, r, i, x)
<1> DEFINE F == FieldAt(v, r, i) a == Width[v.cols[i]] S == d.size
<1>1. F \in Nat /\ a \in Nat /\ S \in Nat
  BY FieldIn DEF DataOK
<1>2. \A y \in Nat : y < S =>
         e.at[y] = IF off <= y /\ y < off + n THEN c[y - off] ELSE d.at[y]
  BY WrittenFacts
<1>3. off <= F /\ F + a <= off + n
  OBVIOUS
<1> HIDE DEF F, a, S
<1>4. ASSUME NEW k \in 0 .. a - 1 PROVE e.at[F + k] = x
  <2>1. F + k \in Nat /\ F + k < S /\ off <= F + k /\ F + k < off + n
    BY <1>1, <1>3, <1>4 DEF S
  <2>2. F + k - off \in 0 .. n - 1
    BY <1>1, <2>1
  <2> QED BY <2>1, <2>2, <1>2
<1> QED BY <1>4 DEF Holds, F, a

\* The next step of the iterator, and those after it.
LEMMA IterateFacts ==
    ASSUME TableInv, job.pc = "run", job.todo # <<>>, job.op.op = "iterate"
    PROVE  /\ IterateInv /\ Now = job.todo[1] /\ view = job.view /\ job.done = 0
           /\ ItemOK(Now, job.op, view) /\ DataOK(data) /\ data.size = SizeOf(view)
           /\ ViewOK(view) /\ OpOK(job.op, view) /\ IsJob(job)
           /\ Listed(Tail(job.todo))
           /\ \A a \in 1 .. Len(Tail(job.todo)) : ItemOK(Tail(job.todo)[a], job.op, view)
           /\ \A a \in DOMAIN job.todo : \/ job.todo[a] = Now
                                         \/ \E b \in DOMAIN Tail(job.todo) : Tail(job.todo)[b] = job.todo[a]
<1>1. /\ JobOK /\ IsJob(job) /\ OpOK(job.op, job.view) /\ DataOK(data) /\ Listed(job.todo)
      /\ ViewOK(job.view) /\ job.data.size = SizeOf(job.view)
  BY CallFacts
<1>2. IterateInv
  BY <1>1 DEF JobOK
<1>3. /\ view = job.view /\ data.size = SizeOf(view) /\ job.done = 0
      /\ \A a \in 1 .. Len(job.todo) : ItemOK(job.todo[a], job.op, view)
  BY <1>1, <1>2 DEF IterateInv
<1> DEFINE t == job.todo u == Tail(job.todo) L == Len(t)
<1>4. /\ L \in Nat /\ DOMAIN t = 1 .. L /\ L >= 1 /\ Head(t) = t[1] /\ Listed(u) /\ Len(u) = L - 1
      /\ \A i \in 1 .. L - 1 : u[i] = t[i + 1]
  BY <1>1, ListedFacts
<1>5. DOMAIN u = 1 .. Len(u)
  BY <1>4, ListedFacts
<1>6. Now = t[1] /\ \A a \in 1 .. L : ItemOK(t[a], job.op, view)
  BY <1>3, <1>4 DEF Now
<1> HIDE DEF t, u, L
<1>7. 1 \in 1 .. L
  BY <1>4
<1>8. \A a \in 1 .. Len(u) : ItemOK(u[a], job.op, view)
  <2>1. \A a \in 1 .. L - 1 : a + 1 \in 1 .. L
    BY <1>4
  <2> QED BY <2>1, <1>4, <1>6
<1>9. ASSUME NEW a \in DOMAIN t PROVE t[a] = Now \/ \E b \in DOMAIN u : u[b] = t[a]
  <2>1. CASE a = 1
    BY <2>1, <1>6
  <2>2. CASE a # 1
    <3>1. a - 1 \in 1 .. L - 1 /\ a - 1 + 1 = a
      BY <2>2, <1>4
    <3> QED BY <3>1, <1>4, <1>5
  <2> QED BY <2>1, <2>2
<1> QED BY <1>1, <1>2, <1>3, <1>4, <1>6, <1>7, <1>8, <1>9 DEF t, u

\* The invariant of an iterator that goes on.
LEMMA IterateGoesOn ==
    ASSUME TableInv, job.pc = "run", job.op.op = "iterate", SameCall(job, job'),
           job'.pc \in {"run", "failed"}, job'.done = 0,
           UNCHANGED <<disk, hdr, view, damaged>>, DataOK(data'), data'.size = data.size,
           Listed(job'.todo), \A a \in 1 .. Len(job'.todo) : ItemOK(job'.todo[a], job.op, view),
           \A r \in 0 .. view.naxis2 - 1, i \in 1 .. Len(view.cols) :
              /\ i \notin job.op.writes => Unbound(r, i)'
              /\ i \in job.op.writes /\ job'.pc = "run" => Bound(r, i)'
    PROVE  TableInv'
<1>1. job'.op = job.op /\ job'.view = job.view /\ job'.data = job.data /\ job'.disk = job.disk
  BY DEF SameCall
<1>2. IterateInv
  BY CallFacts DEF JobOK
<1>3. IterateInv'
  BY <1>1, <1>2 DEF IterateInv
<1> QED BY <1>3, CallGoesOn

\* What is left alone stays as it is.
LEMMA UnboundStays ==
    ASSUME NEW r, NEW i, Unbound(r, i), UNCHANGED <<view, others>>, job'.data = job.data,
           \A x : Holds(data, view, r, i, x) => Holds(data', view, r, i, x),
           \A f : Alike(data, f, view, r, i) => Alike(data', f, view, r, i)
    PROVE  Unbound(r, i)'
BY DEF Unbound

\* Another handle writes a field.
LEMMA IterateOther ==
    ASSUME TableInv, NEW q \in Nat, NEW j \in DOMAIN view.cols, OtherWrites(q, j)
    PROVE  TableInv'
<1>1. /\ job.pc = "run" /\ job.op.op = "iterate" /\ q < view.naxis2
      /\ data' = Filled(data, FieldAt(view, q, j), Width[view.cols[j]], Foreign)
      /\ others' = others \cup {<<q, j>>}
      /\ UNCHANGED <<disk, hdr, view, job, faults, edits, damaged>>
  BY DEF OtherWrites, FieldAt
<1>2. /\ JobOK /\ IsJob(job) /\ DataOK(data) /\ Listed(job.todo)
      /\ ViewOK(job.view) /\ job.data.size = SizeOf(job.view)
  BY <1>1, CallFacts
<1>3. IterateInv
  BY <1>1, <1>2 DEF JobOK
<1>4. /\ view = job.view /\ ViewOK(view) /\ data.size = SizeOf(view) /\ job.done = 0
      /\ \A a \in 1 .. Len(job.todo) : ItemOK(job.todo[a], job.op, view)
      /\ \A r \in 0 .. view.naxis2 - 1, i \in 1 .. Len(view.cols) :
            /\ i \notin job.op.writes => Unbound(r, i)
            /\ i \in job.op.writes => Bound(r, i)
  BY <1>1, <1>2, <1>3 DEF IterateInv
<1>5. q \in 0 .. view.naxis2 - 1 /\ j \in 1 .. Len(view.cols)
  <2>1. view.naxis2 \in Nat /\ DOMAIN view.cols = 1 .. Len(view.cols)
    BY <1>4, ViewSizes, LenProperties
  <2> QED BY ONLY <2>1, <1>1, q \in Nat, j \in DOMAIN view.cols
<1> DEFINE G == FieldAt(view, q, j) b == Width[view.cols[j]] c == [k \in 0 .. b - 1 |-> Foreign]
<1>6. G \in Nat /\ b \in Nat /\ G + b <= data.size
  <2>1. /\ G \in Nat /\ b \in Nat /\ G + b <= q * view.naxis1 + view.naxis1
        /\ q * view.naxis1 + view.naxis1 <= SizeOf(view) /\ q * view.naxis1 \in Nat
    BY <1>4, <1>5, FieldIn
  <2>2. view.naxis1 \in Nat /\ SizeOf(view) \in Nat
    BY <1>4, ViewSizes
  <2> DEFINE x == q * view.naxis1
  <2>3. /\ G \in Nat /\ b \in Nat /\ x \in Nat /\ G + b <= x + view.naxis1
        /\ x + view.naxis1 <= SizeOf(view) /\ data.size = SizeOf(view)
    BY <2>1, <1>4
  <2> HIDE DEF G, b, x
  <2> QED BY ONLY <2>2, <2>3
<1>7. data' = Written(data, G, b, c) /\ \A k \in 0 .. b - 1 : c[k] = Foreign
  BY <1>1 DEF Filled
<1> HIDE DEF G, b, c
<1>8. DataOK(data') /\ data'.size = data.size
  <2>1. DataOK(Written(data, G, b, c)) /\ Written(data, G, b, c).size = data.size
    BY <1>2, <1>6, WrittenFacts
  <2> QED BY <2>1, <1>7
<1>9. Holds(data', view, q, j, Foreign)
  <2>1. G <= FieldAt(view, q, j) /\ FieldAt(view, q, j) + Width[view.cols[j]] <= G + b
    BY <1>6 DEF G, b
  <2> QED BY <2>1, <1>2, <1>4, <1>5, <1>6, <1>7, FieldFilled
<1>10. ASSUME NEW r \in 0 .. view.naxis2 - 1, NEW i \in 1 .. Len(view.cols)
       PROVE  /\ i \notin job.op.writes => Unbound(r, i)'
              /\ i \in job.op.writes => Bound(r, i)'
  <2>1. CASE <<r, i>> = <<q, j>>
    <3>1. r = q /\ i = j /\ <<r, i>> \in others'
      BY <2>1, <1>1
    <3> QED BY <3>1, <1>1, <1>9 DEF Unbound, Bound
  <2>2. CASE <<r, i>> # <<q, j>>
    <3>1. /\ \A x : Holds(data, view, r, i, x) => Holds(data', view, r, i, x)
          /\ \A f : Alike(data, f, view, r, i) => Alike(data', f, view, r, i)
      <4>1. FieldAt(view, r, i) + Width[view.cols[i]] <= G \/ G + b <= FieldAt(view, r, i)
        BY <2>2, <1>4, <1>5, FieldsApart DEF G, b
      <4> QED BY <4>1, <1>2, <1>4, <1>6, <1>7, FieldKept
    <3>2. <<r, i>> \in others' <=> <<r, i>> \in others
      BY <2>2, <1>1
    <3> QED BY <3>1, <3>2, <1>1, <1>4 DEF Unbound, Bound
  <2> QED BY <2>1, <2>2
<1>11. SameCall(job, job')
  BY <1>1, <1>2 DEF SameCall
<1> QED BY <1>1, <1>2, <1>4, <1>8, <1>10, <1>11, IterateGoesOn

\* A window is read.
LEMMA IterateRead ==
    ASSUME TableInv, ReadWindow, job.op.op = "iterate"
    PROVE  TableInv'
<1> DEFINE k == Put(job, Tail(job.todo), 0)
           win == Slice(data, Now.row * view.naxis1,
                        (Smaller(Now.row + WindowRows, view.naxis2) - Now.row) * view.naxis1)
<1>1. /\ job.pc = "run" /\ job.todo # <<>> /\ Now.k = "read"
      /\ job' = [k EXCEPT !.window = win]
      /\ UNCHANGED <<data, disk, hdr, view, faults, edits, damaged, others>>
  BY DEF ReadWindow, Step, Now, Done, Put
<1>2. /\ IterateInv /\ IsJob(job) /\ DataOK(data)
      /\ Listed(Tail(job.todo))
      /\ \A a \in 1 .. Len(Tail(job.todo)) : ItemOK(Tail(job.todo)[a], job.op, view)
      /\ \A a \in DOMAIN job.todo : \/ job.todo[a] = Now
                                    \/ \E b \in DOMAIN Tail(job.todo) : Tail(job.todo)[b] = job.todo[a]
  BY <1>1, IterateFacts
<1>3. SameCall(job, k) /\ k.pc = job.pc /\ k.todo = Tail(job.todo) /\ k.done = 0
  BY <1>2, JobPuts
<1> HIDE DEF k, win
<1>4. IsJob(k)
  BY <1>3 DEF SameCall
<1>5. /\ SameCall(k, job') /\ job'.pc = k.pc /\ job'.todo = k.todo /\ job'.done = k.done
  BY <1>1, <1>4, JobWindow
<1>6. SameCall(job, job') /\ job'.pc = "run" /\ job'.todo = Tail(job.todo) /\ job'.done = 0
  BY <1>1, <1>3, <1>5 DEF SameCall
<1>7. job'.data = job.data
  BY <1>6 DEF SameCall
<1>8. ASSUME NEW r \in 0 .. view.naxis2 - 1, NEW i \in 1 .. Len(view.cols)
      PROVE  /\ i \notin job.op.writes => Unbound(r, i)'
             /\ i \in job.op.writes => Bound(r, i)'
  <2>1. /\ i \notin job.op.writes => Unbound(r, i)
        /\ i \in job.op.writes => Bound(r, i)
    BY <1>1, <1>2 DEF IterateInv
  <2>2. ~Covers(Now, view, r, i)
    BY <1>1 DEF Covers
  <2>3. (\E a \in DOMAIN job.todo : Covers(job.todo[a], view, r, i)) =>
          \E b \in DOMAIN job'.todo : Covers(job'.todo[b], view, r, i)
    BY <2>2, <1>2, <1>6
  <2>4. i \notin job.op.writes => Unbound(r, i)'
    BY <2>1, <1>1, <1>7 DEF Unbound
  <2>5. Bound(r, i) => Bound(r, i)'
    BY <2>3, <1>1 DEF Bound
  <2> QED BY <2>1, <2>4, <2>5
<1> QED BY <1>1, <1>2, <1>6, <1>8, IterateGoesOn

\* A window cannot be read, or the caller's function fails.
LEMMA IterateCallFails ==
    ASSUME TableInv, CallFails, job.op.op = "iterate"
    PROVE  TableInv'
<1>1. /\ job.pc = "run" /\ job.todo # <<>> /\ job' = [job EXCEPT !.pc = "failed"]
      /\ UNCHANGED <<data, disk, hdr, view, edits, damaged, others>>
  BY DEF CallFails, Fails, Step
<1>2. JobOK /\ IsJob(job) /\ DataOK(data) /\ Listed(job.todo)
  BY <1>1, CallFacts
<1>3. IterateInv
  BY <1>2 DEF JobOK
<1>4. SameCall(job, job') /\ job'.pc = "failed" /\ job'.todo = job.todo /\ job'.done = job.done
  BY <1>1, <1>2, JobFails
<1>5. job'.data = job.data
  BY <1>4 DEF SameCall
<1>6. /\ job'.done = 0 /\ view = job.view
      /\ \A a \in 1 .. Len(job'.todo) : ItemOK(job'.todo[a], job.op, view)
  BY <1>3, <1>4 DEF IterateInv
<1>7. ASSUME NEW r \in 0 .. view.naxis2 - 1, NEW i \in 1 .. Len(view.cols), i \notin job.op.writes
      PROVE  Unbound(r, i)'
  <2>1. Unbound(r, i)
    BY <1>3, <1>7 DEF IterateInv
  <2> QED BY <2>1, <1>1, <1>5 DEF Unbound
<1> QED BY <1>1, <1>2, <1>4, <1>6, <1>7, IterateGoesOn

\* The next write of the iterator.
LEMMA IterateWrite ==
    ASSUME TableInv, job.pc = "run", job.op.op = "iterate", NEW k \in Loops, Step(k)
    PROVE  /\ job.todo # <<>> /\ Now.k = "write" /\ WriteOK(Now, job.op, view)
           /\ Now.units = 1 /\ Now.off \in Nat /\ Now.len \in Nat /\ Now.off + Now.len <= data.size
           /\ LoopWrite(Now, job.done) =
                 [off |-> Now.off, len |-> Now.len, units |-> 1, cells |-> Now.cells]
<1>1. job.todo # <<>> /\ Now.k = k
  BY DEF Step, Now
<1>2. ItemOK(Now, job.op, view) /\ data.size = SizeOf(view)
  BY <1>1, IterateFacts
<1>3. Now.k = "write" /\ WriteOK(Now, job.op, view)
  BY <1>1, <1>2 DEF ItemOK, Loops
<1>4. Now.units = 1 /\ Now.off \in Nat /\ Now.len \in Nat /\ Now.off + Now.len <= data.size
  BY <1>2, <1>3 DEF WriteOK
<1>5. LoopWrite(Now, job.done) =
         [off |-> Now.off, len |-> Now.len, units |-> 1, cells |-> Now.cells]
  BY <1>3, <1>4 DEF LoopWrite
<1> QED BY <1>1, <1>3, <1>4, <1>5

\* A write that stores a part of its cells.
LEMMA IterateTransferFails ==
    ASSUME TableInv, TransferFails, job.op.op = "iterate"
    PROVE  TableInv'
<1>1. /\ job.pc = "run" /\ job' = [job EXCEPT !.pc = "failed"]
      /\ UNCHANGED <<disk, hdr, view, edits, damaged, others>>
      /\ \E k \in Loops : Step(k)
      /\ \E k \in 0 .. LoopWrite(Now, job.done).len - 1 :
            data' = Written(data, LoopWrite(Now, job.done).off, k, LoopWrite(Now, job.done).cells)
  BY DEF TransferFails, Fails
<1>2. /\ job.todo # <<>> /\ Now.k = "write" /\ WriteOK(Now, job.op, view)
      /\ Now.units = 1 /\ Now.off \in Nat /\ Now.len \in Nat /\ Now.off + Now.len <= data.size
      /\ LoopWrite(Now, job.done) =
            [off |-> Now.off, len |-> Now.len, units |-> 1, cells |-> Now.cells]
  BY <1>1, IterateWrite
<1>3. PICK n \in 0 .. Now.len - 1 : data' = Written(data, Now.off, n, Now.cells)
  BY <1>1, <1>2
<1>4. JobOK /\ IsJob(job) /\ DataOK(data) /\ Listed(job.todo)
  BY <1>1, CallFacts
<1>5. /\ IterateInv /\ data.size = SizeOf(view) /\ ViewOK(view) /\ OpOK(job.op, view)
  BY <1>1, <1>2, IterateFacts
<1> DEFINE off == Now.off len == Now.len c == Now.cells S == data.size
<1>6. n \in Nat /\ off \in Nat /\ off + n <= S /\ n <= len /\ len \in Nat
  <2>1. off \in Nat /\ len \in Nat /\ off + len <= S /\ n \in 0 .. len - 1 /\ S \in Nat
    BY <1>2, <1>4 DEF DataOK
  <2> HIDE DEF off, len, S
  <2> QED BY <2>1
<1>7. data' = Written(data, off, n, c)
  BY <1>3
<1>8. DataOK(data') /\ data'.size = data.size
  <2>1. DataOK(Written(data, off, n, c)) /\ Written(data, off, n, c).size = data.size
    BY <1>4, <1>6, WrittenFacts
  <2> QED BY <2>1, <1>7
<1>9. SameCall(job, job') /\ job'.pc = "failed" /\ job'.todo = job.todo /\ job'.done = job.done
  BY <1>1, <1>4, JobFails
<1>10. job'.data = job.data
  BY <1>9 DEF SameCall
<1>11. /\ job'.done = 0 /\ view = job.view
       /\ \A a \in 1 .. Len(job'.todo) : ItemOK(job'.todo[a], job.op, view)
  BY <1>5, <1>9 DEF IterateInv
<1>12. ASSUME NEW r \in 0 .. view.naxis2 - 1, NEW i \in 1 .. Len(view.cols), i \notin job.op.writes
       PROVE  Unbound(r, i)'
  <2>1. Unbound(r, i)
    BY <1>5, <1>12 DEF IterateInv
  <2> DEFINE F == FieldAt(view, r, i) b == Width[view.cols[i]]
  <2>2. F + b <= off \/ off + len <= F
    BY <1>2, <1>5, <1>12, WriteSplits
  <2>3. F \in Nat /\ b \in Nat
    BY <1>5, FieldIn
  <2>4. F + b <= off \/ off + n <= F
    <3> HIDE DEF F, b, off, len, S
    <3> QED BY <2>2, <2>3, <1>6
  <2> HIDE DEF off, len, S, c
  <2>5. /\ \A x : Holds(data, view, r, i, x) => Holds(data', view, r, i, x)
        /\ \A f : Alike(data, f, view, r, i) => Alike(data', f, view, r, i)
    BY <2>4, <1>4, <1>5, <1>6, <1>7, FieldKept DEF S
  <2> QED BY <2>1, <2>5, <1>1, <1>10, UnboundStays
<1> QED BY <1>1, <1>4, <1>8, <1>9, <1>11, <1>12, IterateGoesOn

\* A write.
LEMMA IterateTransfer ==
    ASSUME TableInv, Transfer, job.op.op = "iterate"
    PROVE  TableInv'
<1>1. /\ job.pc = "run" /\ \E k \in Loops : Step(k)
      /\ UNCHANGED <<disk, hdr, view, faults, edits, damaged, others>>
      /\ data' = Written(data, LoopWrite(Now, job.done).off, LoopWrite(Now, job.done).len,
                         LoopWrite(Now, job.done).cells)
      /\ job' = IF job.done + LoopWrite(Now, job.done).units < Now.units
                THEN [job EXCEPT !.done = @ + LoopWrite(Now, job.done).units]
                ELSE Put(job, Tail(job.todo), 0)
  BY DEF Transfer, Step, Done, Put
<1>2. /\ job.todo # <<>> /\ Now.k = "write" /\ WriteOK(Now, job.op, view)
      /\ Now.units = 1 /\ Now.off \in Nat /\ Now.len \in Nat /\ Now.off + Now.len <= data.size
      /\ LoopWrite(Now, job.done) =
            [off |-> Now.off, len |-> Now.len, units |-> 1, cells |-> Now.cells]
  BY <1>1, IterateWrite
<1>3. /\ IterateInv /\ IsJob(job) /\ DataOK(data) /\ data.size = SizeOf(view) /\ ViewOK(view)
      /\ OpOK(job.op, view) /\ job.done = 0
      /\ Listed(Tail(job.todo))
      /\ \A a \in 1 .. Len(Tail(job.todo)) : ItemOK(Tail(job.todo)[a], job.op, view)
      /\ \A a \in DOMAIN job.todo : \/ job.todo[a] = Now
                                    \/ \E b \in DOMAIN Tail(job.todo) : Tail(job.todo)[b] = job.todo[a]
  BY <1>1, <1>2, IterateFacts
<1> DEFINE off == Now.off len == Now.len c == Now.cells
<1>4. data' = Written(data, off, len, c) /\ off \in Nat /\ len \in Nat /\ off + len <= data.size
  BY <1>1, <1>2
<1>5. job' = Put(job, Tail(job.todo), 0)
  <2>1. LoopWrite(Now, job.done).units = 1 /\ ~(job.done + 1 < Now.units)
    BY <1>2, <1>3
  <2> QED BY <2>1, <1>1
<1>6. SameCall(job, job') /\ job'.pc = "run" /\ job'.todo = Tail(job.todo) /\ job'.done = 0
  <2>1. IsJob(job) /\ job.pc = "run"
    BY <1>1, <1>3
  <2> QED BY <2>1, <1>5, JobPuts
<1>7. job'.data = job.data
  BY <1>6 DEF SameCall
<1>8. \A k \in 0 .. len - 1 : c[k] = Fresh
  BY <1>2 DEF WriteOK
<1>9. DataOK(data') /\ data'.size = data.size
  <2>1. DataOK(Written(data, off, len, c)) /\ Written(data, off, len, c).size = data.size
    BY <1>3, <1>4, WrittenFacts
  <2> QED BY <2>1, <1>4
<1>10. ASSUME NEW r \in 0 .. view.naxis2 - 1, NEW i \in 1 .. Len(view.cols)
       PROVE  /\ i \notin job.op.writes => Unbound(r, i)'
              /\ i \in job.op.writes => Bound(r, i)'
  <2>1. /\ i \notin job.op.writes => Unbound(r, i)
        /\ i \in job.op.writes => Bound(r, i)
    BY <1>1, <1>3 DEF IterateInv
  <2> DEFINE F == FieldAt(view, r, i) b == Width[view.cols[i]]
  <2>2. /\ (off <= F /\ F + b <= off + len) \/ F + b <= off \/ off + len <= F
        /\ i \notin job.op.writes => F + b <= off \/ off + len <= F
    BY <1>2, <1>3, WriteSplits
  <2>3. ASSUME F + b <= off \/ off + len <= F
        PROVE  /\ \A x : Holds(data, view, r, i, x) => Holds(data', view, r, i, x)
               /\ \A f : Alike(data, f, view, r, i) => Alike(data', f, view, r, i)
    <3> HIDE DEF off, len, c
    <3> QED BY <2>3, <1>3, <1>4, FieldKept
  <2>4. ASSUME off <= F, F + b <= off + len PROVE Holds(data', view, r, i, Fresh)
    <3> HIDE DEF off, len, c
    <3> QED BY <2>4, <1>3, <1>4, <1>8, FieldFilled
  <2>5. Covers(Now, view, r, i) => off <= F /\ F + b <= off + len
    BY <1>2 DEF Covers
  <2>6. i \notin job.op.writes => Unbound(r, i)'
    BY <2>1, <2>2, <2>3, <1>1, <1>7, UnboundStays
  <2>7. ASSUME Bound(r, i) PROVE Bound(r, i)'
    <3>1. CASE off <= F /\ F + b <= off + len
      BY <3>1, <2>4, <1>1 DEF Bound
    <3>2. CASE ~(off <= F /\ F + b <= off + len)
      <4>1. ~Covers(Now, view, r, i)
        BY <3>2, <2>5
      <4>2. (\E a \in DOMAIN job.todo : Covers(job.todo[a], view, r, i)) =>
              \E e \in DOMAIN job'.todo : Covers(job'.todo[e], view, r, i)
        BY <4>1, <1>3, <1>6
      <4>3. \A x : Holds(data, view, r, i, x) => Holds(data', view, r, i, x)
        BY <2>2, <2>3, <3>2
      <4> QED BY <4>2, <4>3, <2>7, <1>1 DEF Bound
    <3> QED BY <3>1, <3>2
  <2> QED BY <2>1, <2>6, <2>7
<1> QED BY <1>1, <1>3, <1>6, <1>9, <1>10, IterateGoesOn

\* The writes that put back the columns of the rows from `row` to before `rows`.
Writes(more, op, row, rows) ==
    /\ Listed(more)
    /\ \A a \in 1 .. Len(more) : more[a].k = "write" /\ WriteOK(more[a], op, view)
    /\ \A r \in row .. rows - 1, i \in op.writes : \E a \in DOMAIN more : Covers(more[a], view, r, i)

\* The cells of the rows of a window.
LEMMA WindowProducts ==
    ASSUME NEW w \in Nat, NEW row \in Nat, NEW rows \in Nat, NEW R \in Nat, row <= rows, rows <= R
    PROVE  /\ row * w \in Nat /\ (rows - row) * w \in Nat /\ rows * w \in Nat /\ w * R \in Nat
           /\ row * w + (rows - row) * w = rows * w /\ rows * w <= w * R
<1>1. /\ row * w \in Nat /\ rows * w \in Nat /\ R * w \in Nat /\ R * w = w * R
  BY Times
<1>2. row * w <= rows * w /\ (rows - row) * w = rows * w - row * w
  BY TimesOrder
<1>3. rows * w <= R * w
  BY TimesOrder
<1> DEFINE a == row * w b == rows * w c == R * w e == (rows - row) * w g == w * R
<1>4. /\ a \in Nat /\ b \in Nat /\ c \in Nat /\ c = g /\ a <= b /\ e = b - a /\ b <= c
  BY <1>1, <1>2, <1>3
<1> HIDE DEF a, b, c, e, g
<1>5. a \in Nat /\ e \in Nat /\ b \in Nat /\ g \in Nat /\ a + e = b /\ b <= g
  BY <1>4
<1> QED BY <1>5 DEF a, b, c, e, g

\* As one write, every cell of which belongs to a bound column.
LEMMA WindowWriteCovers ==
    ASSUME ViewOK(view), job.op.op = "iterate", OpOK(job.op, view), job.op.whole,
           NEW row \in 0 .. view.naxis2 - 1, NEW rows \in 0 .. view.naxis2, row <= rows
    PROVE  Writes(WindowWrite(row, rows), job.op, row, rows)
<1> DEFINE w == view.naxis1 R == view.naxis2 len == (rows - row) * w off == row * w
           bound == UNION {{Offset(view.cols, i) + k : k \in 0 .. Width[view.cols[i]] - 1} :
                             i \in job.op.writes}
           c == [k \in 0 .. len - 1 |-> IF k % w \in bound THEN Fresh ELSE job.window[k]]
           s == [k |-> "write", off |-> off, len |-> len, units |-> 1, cells |-> c]
           m == WindowWrite(row, rows)
<1>1. m = <<s>>
  BY DEF WindowWrite
<1>2. s.k = "write" /\ s.off = off /\ s.len = len /\ s.units = 1 /\ s.cells = c
  OBVIOUS
<1>3. w \in Nat /\ R \in Nat /\ view.cols \in Seq(Column) /\ w = RowWidth(view.cols)
  BY ViewSizes DEF ViewOK
<1>4. row \in Nat /\ rows \in Nat /\ row <= rows /\ rows <= R /\ row < R
  BY <1>3
<1>5. job.op.writes = 1 .. Len(view.cols)
  BY DEF OpOK
<1>6. /\ off \in Nat /\ len \in Nat /\ off + len = rows * w /\ rows * w \in Nat
      /\ off + len <= SizeOf(view)
  <2>1. SizeOf(view) = w * R + Heap /\ Heap \in Nat /\ w * R \in Nat
    BY ViewSizes
  <2> HIDE DEF w, R
  <2>2. /\ row * w \in Nat /\ (rows - row) * w \in Nat /\ rows * w \in Nat
        /\ row * w + (rows - row) * w = rows * w /\ rows * w <= w * R
    BY <1>3, <1>4, WindowProducts
  <2> DEFINE a == rows * w b == w * R
  <2>3. off \in Nat /\ len \in Nat /\ off + len = a /\ a \in Nat /\ a <= b /\ b \in Nat
    BY <2>1, <2>2
  <2>4. SizeOf(view) = b + Heap
    BY <2>1
  <2> HIDE DEF a, b, off, len
  <2>5. off + len <= SizeOf(view)
    BY <2>1, <2>3, <2>4
  <2> QED BY <2>3, <2>5 DEF a
<1>7. ASSUME NEW k \in 0 .. len - 1 PROVE c[k] = Fresh
  <2>1. w # 0
    <3>1. w = 0 => len = 0
      BY <1>3, <1>4, Times
    <3> QED BY <3>1, <1>7
  <2>2. k \in Nat /\ w \in Nat \ {0}
    BY <1>3, <1>6, <1>7, <2>1
  <2> DEFINE x == k % w
  <2> HIDE DEF w
  <2>3. x \in 0 .. w - 1
    BY <2>2, PlaceRow
  <2> HIDE DEF x
  <2>4. x \in Nat /\ x < w
    BY <2>2, <2>3
  <2>5. PICK i \in 1 .. Len(view.cols) :
           Offset(view.cols, i) <= x /\ x < Offset(view.cols, i) + Width[view.cols[i]]
    BY <2>4, <1>3, OffsetCovers
  <2>6. Offset(view.cols, i) \in Nat /\ Width[view.cols[i]] \in Nat
    BY FieldsIn
  <2> DEFINE o == Offset(view.cols, i) u == Width[view.cols[i]]
  <2>7. x - o \in 0 .. u - 1 /\ o + (x - o) = x
    <3>1. o \in Nat /\ u \in Nat /\ o <= x /\ x < o + u
      BY <2>5, <2>6
    <3> HIDE DEF o, u
    <3> QED BY <3>1, <2>4
  <2>8. x \in {o + q : q \in 0 .. u - 1}
    BY <2>7
  <2>9. x \in bound
    BY <2>8, <1>5
  <2> QED BY <2>9, <1>7 DEF x
<1> HIDE DEF c, s, m
<1>8. WriteOK(s, job.op, view)
  <2>1. \A k \in 0 .. s.len - 1 : s.cells[k] = Fresh
    BY <1>2, <1>7
  <2>2. \E r \in 0 .. view.naxis2 - 1, t \in 0 .. view.naxis2 :
           r <= t /\ s.off = r * view.naxis1 /\ s.len = (t - r) * view.naxis1
    BY <1>2
  <2> HIDE DEF off, len, w, R
  <2>3. s.off \in Nat /\ s.len \in Nat /\ s.off + s.len <= SizeOf(view)
    BY <1>2, <1>6
  <2> QED BY <2>1, <2>2, <2>3, <1>2, <1>5 DEF WriteOK
<1>9. /\ Listed(m) /\ DOMAIN m = 1 .. Len(m) /\ m[1] = s /\ 1 \in DOMAIN m
      /\ \A a \in 1 .. Len(m) : m[a] = s
  <2>1. m \in Seq({s}) /\ DOMAIN m = 1 .. 1 /\ Len(m) = 1 /\ m[1] = s
    BY <1>1
  <2>2. \A a \in 1 .. 1 : a = 1
    OBVIOUS
  <2> QED BY <2>1, <2>2, SeqListed
<1>10. ASSUME NEW r \in row .. rows - 1, NEW i \in job.op.writes PROVE Covers(s, view, r, i)
  <2>1. r \in 0 .. view.naxis2 - 1 /\ r \in Nat /\ row <= r /\ r < rows
    <3>1. R \in Nat
      BY <1>3
    <3> HIDE DEF R
    <3>2. r \in 0 .. R - 1 /\ r \in Nat /\ row <= r /\ r < rows
      BY <3>1, <1>4, <1>10
    <3> QED BY <3>2 DEF R
  <2>2. i \in 1 .. Len(view.cols)
    BY <1>5
  <2> DEFINE F == FieldAt(view, r, i) u == Width[view.cols[i]]
  <2>3. /\ F \in Nat /\ u \in Nat /\ r * w \in Nat /\ r * w <= F /\ F + u <= r * w + w
        /\ row * w <= r * w
        /\ r * w + w <= rows * w
    BY <2>1, <2>2, <1>4, FieldIn
  <2> DEFINE g == r * w e == rows * w
  <2>4. off <= F /\ F + u <= off + len
    <3>1. /\ off \in Nat /\ len \in Nat /\ off + len = e /\ e \in Nat /\ w \in Nat
      BY <1>3, <1>6
    <3>2. /\ F \in Nat /\ u \in Nat /\ g \in Nat /\ g <= F /\ F + u <= g + w
          /\ off <= g /\ g + w <= e
      BY <2>3
    <3> HIDE DEF w, F, u, len, off, g, e
    <3> QED BY <3>1, <3>2
  <2> QED BY <2>4, <1>2 DEF Covers
<1>11. Writes(m, job.op, row, rows)
  BY <1>2, <1>8, <1>9, <1>10 DEF Writes
<1> QED BY <1>11 DEF m

\* Field by field.
LEMMA FieldWritesCover ==
    ASSUME ViewOK(view), job.op.op = "iterate", OpOK(job.op, view),
           NEW row \in 0 .. view.naxis2 - 1, NEW rows \in 0 .. view.naxis2, row <= rows
    PROVE  Writes(FieldWrites(row, rows), job.op, row, rows)
<1> DEFINE n == Len(view.cols) L == rows - row
           X(r, i) == [k |-> "write", off |-> (row + r - 1) * view.naxis1 + Offset(view.cols, i),
                       len |-> Width[view.cols[i]], units |-> 1,
                       cells |-> [k \in 0 .. Width[view.cols[i]] - 1 |-> Fresh]]
           f == [i \in DOMAIN view.cols |->
                    IF i \notin job.op.writes THEN <<>> ELSE [r \in 1 .. L |-> X(r, i)]]
           S == {X(r, i) : r \in 1 .. L, i \in 1 .. n}
           m == FieldWrites(row, rows)
<1>1. /\ n \in Nat /\ DOMAIN view.cols = 1 .. n /\ view.naxis1 \in Nat /\ view.naxis2 \in Nat
      /\ job.op.writes \subseteq 1 .. n
  BY ViewSizes DEF OpOK
<1>2. L \in Nat /\ row \in Nat /\ rows \in Nat /\ rows <= view.naxis2
  BY <1>1
<1>3. m = FlattenSeq(f)
  BY DEF FieldWrites
<1>4. \A i \in 1 .. n : f[i] = IF i \notin job.op.writes THEN <<>> ELSE [r \in 1 .. L |-> X(r, i)]
  BY <1>1
<1>5. \A r \in 1 .. L, i \in 1 .. n : X(r, i) \in S
  <2> HIDE DEF X
  <2> QED OBVIOUS
<1>6. DOMAIN f = 1 .. n /\ f = [i \in 1 .. n |-> f[i]]
  BY <1>1
<1>7. ASSUME NEW r \in 1 .. L, NEW i \in job.op.writes, NEW q, q = row + r - 1
      PROVE  /\ X(r, i).k = "write" /\ WriteOK(X(r, i), job.op, view)
             /\ Covers(X(r, i), view, q, i)
  <2> DEFINE s == X(r, i) F == FieldAt(view, q, i) u == Width[view.cols[i]]
             c == [k \in 0 .. Width[view.cols[i]] - 1 |-> Fresh]
  <2>1. q \in 0 .. view.naxis2 - 1
    BY <1>1, <1>2, <1>7
  <2>2. i \in 1 .. Len(view.cols)
    BY <1>1
  <2>3. /\ F \in Nat /\ u \in Nat /\ q * view.naxis1 \in Nat
        /\ F + u <= q * view.naxis1 + view.naxis1 /\ q * view.naxis1 + view.naxis1 <= SizeOf(view)
    BY <2>1, <2>2, FieldIn
  <2>4. s.k = "write" /\ s.off = F /\ s.len = u /\ s.units = 1 /\ s.cells = c
    BY <1>7 DEF FieldAt
  <2>5. \A k \in 0 .. u - 1 : c[k] = Fresh
    OBVIOUS
  <2>6. SizeOf(view) \in Nat
    BY ViewSizes
  <2> HIDE DEF s, c
  <2>7. F + u <= SizeOf(view)
    <3> HIDE DEF F, u
    <3> QED BY <2>3, <2>6, <1>1
  <2>8. WriteOK(s, job.op, view)
    BY <2>1, <2>3, <2>4, <2>5, <2>7 DEF WriteOK
  <2>9. Covers(s, view, q, i)
    <3>1. F <= F /\ F + u <= F + u
      BY <2>3
    <3> QED BY <3>1, <2>4 DEF Covers
  <2> QED BY <2>4, <2>8, <2>9 DEF s
<1> HIDE DEF n, L, f, S, m, X
<1>8. ASSUME NEW i \in 1 .. n
      PROVE  /\ f[i] \in Seq(S)
             /\ \A b \in 1 .. Len(f[i]) : i \in job.op.writes /\ b \in 1 .. L /\ f[i][b] = X(b, i)
             /\ i \in job.op.writes => \A b \in 1 .. L : b \in 1 .. Len(f[i]) /\ f[i][b] = X(b, i)
  <2>1. CASE i \notin job.op.writes
    <3>1. f[i] = <<>>
      BY <2>1, <1>4
    <3> QED BY <3>1, <2>1
  <2>2. CASE i \in job.op.writes
    <3> DEFINE g == [r \in 1 .. L |-> X(r, i)]
    <3>1. f[i] = g
      BY <2>2, <1>4
    <3>2. g \in [1 .. L -> S]
      BY <1>5
    <3>3. \A b \in 1 .. L : g[b] = X(b, i)
      OBVIOUS
    <3> HIDE DEF g
    <3>4. g \in Seq(S) /\ Len(g) = L
      BY <3>2, <1>2, FunctionIsSeq
    <3> QED BY <3>1, <3>3, <3>4, <2>2
  <2> QED BY <2>1, <2>2
<1>9. f \in [1 .. n -> Seq(S)]
  BY <1>6, <1>8
<1>10. /\ m \in Seq(S)
       /\ \A a \in 1 .. Len(m) : \E i \in 1 .. n : \E b \in 1 .. Len(f[i]) : m[a] = f[i][b]
       /\ \A i \in 1 .. n : \A b \in 1 .. Len(f[i]) : \E a \in 1 .. Len(m) : m[a] = f[i][b]
  <2>1. n \in Nat
    BY <1>1
  <2>2. Flattens(FlattenSeq(f), S, n, f)
    BY <2>1, <1>9, FlattenElements
  <2> QED BY <2>2, <1>3 DEF Flattens
<1>11. Listed(m) /\ DOMAIN m = 1 .. Len(m)
  BY <1>10, SeqListed, ListedFacts
<1>12. ASSUME NEW a \in 1 .. Len(m) PROVE m[a].k = "write" /\ WriteOK(m[a], job.op, view)
  <2>1. PICK i \in 1 .. n : \E b \in 1 .. Len(f[i]) : m[a] = f[i][b]
    BY <1>10
  <2>2. PICK b \in 1 .. Len(f[i]) : m[a] = f[i][b]
    BY <2>1
  <2>3. m[a] = X(b, i) /\ i \in job.op.writes /\ b \in 1 .. L
    BY <2>2, <1>8
  <2> QED BY <2>3, <1>7
<1>13. ASSUME NEW r \in row .. rows - 1, NEW i \in job.op.writes
       PROVE  \E a \in DOMAIN m : Covers(m[a], view, r, i)
  <2> DEFINE b == r - row + 1
  <2>1. b \in 1 .. L /\ r = row + b - 1
    BY <1>2 DEF L
  <2> HIDE DEF b
  <2>2. i \in 1 .. n /\ b \in 1 .. Len(f[i]) /\ f[i][b] = X(b, i)
    BY <2>1, <1>1, <1>8
  <2>3. PICK a \in 1 .. Len(m) : m[a] = f[i][b]
    BY <2>2, <1>10
  <2>4. Covers(X(b, i), view, r, i)
    BY <2>1, <1>7
  <2> QED BY <2>2, <2>3, <2>4, <1>11
<1>14. Writes(m, job.op, row, rows)
  BY <1>11, <1>12, <1>13 DEF Writes
<1> QED BY <1>14 DEF m

\* The rows of a window.
LEMMA WindowRowsFacts ==
    ASSUME NEW R \in Nat, NEW row \in 0 .. R - 1, NEW rows, rows = Smaller(row + WindowRows, R)
    PROVE  /\ rows \in 0 .. R /\ row <= rows
           /\ \A r \in 0 .. R - 1 : row <= r /\ r < row + WindowRows => r \in row .. rows - 1
BY BinTableAssumption DEF Smaller

\* The caller's function, and the writes it leaves to do.
LEMMA IterateWork ==
    ASSUME TableInv, Work, job.op.op = "iterate"
    PROVE  TableInv'
<1> DEFINE k == Put(job, Tail(job.todo), 0)
           row == Now.row
           rows == Smaller(row + WindowRows, view.naxis2)
           more == IF job.op.whole THEN WindowWrite(row, rows) ELSE FieldWrites(row, rows)
           rest == Tail(job.todo)
<1>1. /\ job.pc = "run" /\ job.todo # <<>> /\ Now.k = "work"
      /\ job' = [k EXCEPT !.todo = more \o @]
      /\ UNCHANGED <<data, disk, hdr, view, faults, edits, damaged, others>>
  BY DEF Work, Step, Now, Done, Put
<1>2. /\ IterateInv /\ IsJob(job) /\ DataOK(data) /\ ViewOK(view) /\ OpOK(job.op, view)
      /\ Listed(rest) /\ ItemOK(Now, job.op, view)
      /\ \A a \in 1 .. Len(rest) : ItemOK(rest[a], job.op, view)
      /\ \A a \in DOMAIN job.todo : \/ job.todo[a] = Now
                                    \/ \E b \in DOMAIN rest : rest[b] = job.todo[a]
  BY <1>1, IterateFacts
<1>3. SameCall(job, k) /\ k.pc = job.pc /\ k.todo = rest /\ k.done = 0
  BY <1>2, JobPuts
<1>4. row \in 0 .. view.naxis2 - 1 /\ view.naxis2 \in Nat
  BY <1>1, <1>2, ViewSizes DEF ItemOK
<1>5. /\ rows \in 0 .. view.naxis2 /\ row <= rows
      /\ \A r \in 0 .. view.naxis2 - 1 : row <= r /\ r < row + WindowRows => r \in row .. rows - 1
  BY <1>4, WindowRowsFacts
<1>6. Writes(more, job.op, row, rows)
  <2> HIDE DEF row, rows
  <2>1. CASE job.op.whole
    BY <2>1, <1>2, <1>4, <1>5, WindowWriteCovers
  <2>2. CASE ~job.op.whole
    BY <2>2, <1>2, <1>4, <1>5, FieldWritesCover
  <2> QED BY <2>1, <2>2
<1> HIDE DEF k, more, rest, rows
<1>7. /\ Listed(more)
      /\ \A a \in 1 .. Len(more) : more[a].k = "write" /\ WriteOK(more[a], job.op, view)
      /\ \A r \in row .. rows - 1, i \in job.op.writes : \E a \in DOMAIN more : Covers(more[a], view, r, i)
  BY <1>6 DEF Writes
<1>8. IsJob(k)
  BY <1>3 DEF SameCall
<1>9. /\ SameCall(k, job') /\ job'.pc = k.pc /\ job'.todo = more \o rest /\ job'.done = k.done
  <2> DEFINE t == more \o k.todo
  <2>1. job' = [k EXCEPT !.todo = t]
    BY <1>1
  <2> HIDE DEF t
  <2>2. SameCall(k, job') /\ job'.pc = k.pc /\ job'.todo = t /\ job'.done = k.done
    BY <2>1, <1>8, JobGets
  <2>3. t = more \o rest
    BY <1>3 DEF t
  <2> QED BY <2>2, <2>3
<1>10. SameCall(job, job') /\ job'.pc = "run" /\ job'.done = 0
  BY <1>1, <1>3, <1>9 DEF SameCall
<1>11. job'.data = job.data
  BY <1>10 DEF SameCall
<1>12. /\ Listed(job'.todo) /\ DOMAIN job'.todo = 1 .. Len(job'.todo)
       /\ DOMAIN more = 1 .. Len(more) /\ DOMAIN rest = 1 .. Len(rest)
       /\ \A a \in DOMAIN job'.todo : \/ \E b \in DOMAIN more : job'.todo[a] = more[b]
                                      \/ \E b \in DOMAIN rest : job'.todo[a] = rest[b]
       /\ \A b \in DOMAIN more : \E a \in DOMAIN job'.todo : job'.todo[a] = more[b]
       /\ \A b \in DOMAIN rest : \E a \in DOMAIN job'.todo : job'.todo[a] = rest[b]
  <2> DEFINE t == more \o rest
  <2>1. Listed(t) /\ DOMAIN more = 1 .. Len(more) /\ DOMAIN rest = 1 .. Len(rest)
    BY <1>2, <1>7, ConcatFacts
  <2>2. /\ \A a \in DOMAIN t : \/ \E b \in DOMAIN more : t[a] = more[b]
                               \/ \E b \in DOMAIN rest : t[a] = rest[b]
        /\ \A b \in DOMAIN more : \E a \in DOMAIN t : t[a] = more[b]
        /\ \A b \in DOMAIN rest : \E a \in DOMAIN t : t[a] = rest[b]
    <3>1. /\ \A i \in DOMAIN t :
                \/ i \in DOMAIN more /\ t[i] = more[i]
                \/ i - Len(more) \in DOMAIN rest /\ i > Len(more) /\ t[i] = rest[i - Len(more)]
          /\ \A a \in DOMAIN more : a \in DOMAIN t /\ t[a] = more[a]
          /\ \A b \in DOMAIN rest : b + Len(more) \in DOMAIN t /\ t[b + Len(more)] = rest[b]
      BY <1>2, <1>7, ConcatElements
    <3> HIDE DEF t
    <3> QED BY <3>1
  <2>3. job'.todo = t
    BY <1>9
  <2> HIDE DEF t
  <2>4. DOMAIN t = 1 .. Len(t)
    BY <2>1, ListedFacts
  <2> QED BY <2>1, <2>2, <2>3, <2>4
<1>13. ASSUME NEW a \in 1 .. Len(job'.todo) PROVE ItemOK(job'.todo[a], job.op, view)
  <2>1. CASE \E b \in DOMAIN more : job'.todo[a] = more[b]
    BY <2>1, <1>7, <1>12 DEF ItemOK
  <2>2. CASE \E b \in DOMAIN rest : job'.todo[a] = rest[b]
    BY <2>2, <1>2, <1>12
  <2> QED BY <2>1, <2>2, <1>12
<1>14. ASSUME NEW r \in 0 .. view.naxis2 - 1, NEW i \in 1 .. Len(view.cols)
       PROVE  /\ i \notin job.op.writes => Unbound(r, i)'
              /\ i \in job.op.writes => Bound(r, i)'
  <2>1. /\ i \notin job.op.writes => Unbound(r, i)
        /\ i \in job.op.writes => Bound(r, i)
    BY <1>1, <1>2 DEF IterateInv
  <2>2. ASSUME i \in job.op.writes, Covers(Now, view, r, i)
        PROVE  \E a \in DOMAIN job'.todo : Covers(job'.todo[a], view, r, i)
    <3>1. r \in row .. rows - 1
      BY <2>2, <1>1, <1>5 DEF Covers
    <3>2. PICK b \in DOMAIN more : Covers(more[b], view, r, i)
      BY <2>2, <3>1, <1>7
    <3> QED BY <3>2, <1>12
  <2>3. ASSUME NEW b \in DOMAIN rest, Covers(rest[b], view, r, i)
        PROVE  \E a \in DOMAIN job'.todo : Covers(job'.todo[a], view, r, i)
    BY <2>3, <1>12
  <2>4. i \in job.op.writes /\ (\E a \in DOMAIN job.todo : Covers(job.todo[a], view, r, i)) =>
          \E b \in DOMAIN job'.todo : Covers(job'.todo[b], view, r, i)
    BY <2>2, <2>3, <1>2
  <2>5. i \notin job.op.writes => Unbound(r, i)'
    BY <2>1, <1>1, <1>11 DEF Unbound
  <2>6. i \in job.op.writes /\ Bound(r, i) => Bound(r, i)'
    BY <2>4, <1>1 DEF Bound
  <2> QED BY <2>1, <2>5, <2>6
<1> QED BY <1>1, <1>2, <1>10, <1>12, <1>13, <1>14, IterateGoesOn

\* The windows of n rows each that R rows take.
LEMMA WindowsCover ==
    ASSUME NEW W \in Nat \ {0}, NEW R \in Nat \ {0}, NEW n, n = (R + W - 1) \div W
    PROVE  /\ n \in Nat
           /\ \A w \in 1 .. n : (w - 1) * W \in 0 .. R - 1
           /\ \A r \in 0 .. R - 1 : \E w \in 1 .. n : (w - 1) * W <= r /\ r < (w - 1) * W + W
<1> DEFINE y == R + W - 1 k == y % W
<1>1. y \in Nat
  OBVIOUS
<1>2. n = y \div W
  OBVIOUS
<1>3. y = R + W - 1
  OBVIOUS
<1> HIDE DEF y
<1>4. n \in Nat /\ k \in 0 .. W - 1 /\ y = n * W + k
  <2>1. y \div W \in Nat /\ y % W \in 0 .. W - 1 /\ y = (y \div W) * W + (y % W)
    BY <1>1, PlaceRow
  <2> DEFINE q == y \div W
  <2>2. n = q
    BY <1>2
  <2> HIDE DEF q
  <2>3. q \in Nat /\ k \in 0 .. W - 1 /\ y = q * W + k
    BY <2>1 DEF q
  <2> QED BY <2>2, <2>3
<1> DEFINE e == n * W
<1>5. e \in Nat
  BY <1>4, Times
<1> HIDE DEF e, k
<1>6. e <= R + W - 1 /\ R <= e
  BY <1>3, <1>4, <1>5 DEF e
<1>7. ASSUME NEW w \in 1 .. n PROVE (w - 1) * W \in 0 .. R - 1
  <2> DEFINE v == w - 1 x == v * W
  <2>1. v \in Nat /\ v < n
    BY <1>4
  <2> HIDE DEF v
  <2>2. x \in Nat /\ x + W <= e
    BY <2>1, <1>4, Times, TimesOrder DEF e
  <2> HIDE DEF x
  <2>3. x \in 0 .. R - 1
    BY <2>2, <1>5, <1>6
  <2> QED BY <2>3 DEF x, v
<1>8. ASSUME NEW r \in 0 .. R - 1
      PROVE  \E w \in 1 .. n : (w - 1) * W <= r /\ r < (w - 1) * W + W
  <2> DEFINE q == r \div W j == r % W
  <2>1. r \in Nat
    OBVIOUS
  <2>2. q \in Nat /\ j \in 0 .. W - 1 /\ r = q * W + j
    BY <2>1, PlaceRow
  <2>3. r < e
    BY <1>5, <1>6
  <2>4. q < n
    BY <2>1, <2>3, <1>4, PlaceRow DEF e
  <2> DEFINE x == q * W
  <2>5. x \in Nat
    BY <2>2, Times
  <2> HIDE DEF x, q, j
  <2>6. x <= r /\ r < x + W
    BY <2>2, <2>5 DEF x
  <2>7. q + 1 \in 1 .. n /\ (q + 1) - 1 = q
    BY <2>2, <2>4, <1>4
  <2> DEFINE w == q + 1
  <2>8. w \in 1 .. n /\ w - 1 = q
    BY <2>7, Zenon
  <2> HIDE DEF w
  <2>9. (w - 1) * W <= r /\ r < (w - 1) * W + W
    BY <2>6, <2>8 DEF x
  <2> QED BY <2>8, <2>9
<1> QED BY <1>4, <1>7, <1>8

\* What the iterator is going to do: windows of rows, in order.
Windows(t, v) ==
    /\ Listed(t)
    /\ \A a \in 1 .. Len(t) : t[a].k = "read" \/ (t[a].k = "work" /\ t[a].row \in 0 .. v.naxis2 - 1)
    /\ \A r \in 0 .. v.naxis2 - 1 : \E a \in DOMAIN t :
          t[a].k = "work" /\ t[a].row <= r /\ r < t[a].row + WindowRows

\* The steps x and y, of which x may be missing.
Ends(s, S, x, y) ==
    /\ s \in Seq(S)
    /\ \A b \in 1 .. Len(s) : s[b] = x \/ s[b] = y
    /\ \E b \in 1 .. Len(s) : s[b] = y

\* The steps of one window.
LEMMA WindowSteps ==
    ASSUME NEW S, NEW x \in S, NEW y \in S, NEW c \in BOOLEAN
    PROVE  Ends((IF c THEN <<x>> ELSE <<>>) \o <<y>>, S, x, y)
<1> DEFINE a == IF c THEN <<x>> ELSE <<>> e == <<y>> s == a \o e
<1>1. a \in Seq(S) /\ Len(a) \in Nat /\ \A b \in 1 .. Len(a) : a[b] = x
  <2>1. CASE c
    <3>1. a = <<x>>
      BY <2>1
    <3>2. <<x>> \in Seq(S) /\ Len(<<x>>) = 1 /\ <<x>>[1] = x /\ \A b \in 1 .. 1 : b = 1
      OBVIOUS
    <3> QED BY <3>1, <3>2
  <2>2. CASE ~c
    <3>1. a = <<>>
      BY <2>2
    <3>2. <<>> \in Seq(S) /\ Len(<<>>) = 0 /\ \A b \in 1 .. 0 : FALSE
      OBVIOUS
    <3> QED BY <3>1, <3>2
  <2> QED BY <2>1, <2>2
<1>2. e \in Seq(S) /\ Len(e) = 1 /\ e[1] = y
  OBVIOUS
<1> HIDE DEF a, e
<1>3. /\ s \in Seq(S) /\ Len(s) = Len(a) + 1
      /\ \A b \in 1 .. Len(a) + 1 : s[b] = IF b <= Len(a) THEN a[b] ELSE e[b - Len(a)]
  <2>1. /\ s \in Seq(S) /\ Len(s) = Len(a) + Len(e)
        /\ \A i \in 1 .. Len(a) + Len(e) : s[i] = IF i <= Len(a) THEN a[i] ELSE e[i - Len(a)]
    BY <1>1, <1>2, ConcatProperties
  <2> HIDE DEF s
  <2> QED BY <2>1, <1>2
<1> HIDE DEF s
<1>4. s[Len(a) + 1] = y
  BY <1>1, <1>2, <1>3
<1>5. ASSUME NEW b \in 1 .. Len(s) PROVE s[b] = x \/ s[b] = y
  <2>1. b \in 1 .. Len(a) \/ b = Len(a) + 1
    BY <1>1, <1>3
  <2> QED BY <2>1, <1>1, <1>3, <1>4
<1>6. Ends(s, S, x, y)
  BY <1>1, <1>3, <1>4, <1>5 DEF Ends
<1> QED BY <1>6 DEF s, a, e

\* It goes through all rows.
LEMMA WindowsOf ==
    ASSUME NEW v, ViewOK(v), v.naxis2 > 0, NEW reading \in BOOLEAN,
           NEW n, n = (v.naxis2 + WindowRows - 1) \div WindowRows,
           NEW f, f = [w \in 1 .. n |->
                          (IF reading THEN <<[k |-> "read", row |-> (w - 1) * WindowRows]>> ELSE <<>>)
                              \o <<[k |-> "work", row |-> (w - 1) * WindowRows]>>]
    PROVE  Windows(FlattenSeq(f), v)
<1> DEFINE X(w) == [k |-> "read", row |-> (w - 1) * WindowRows]
           Y(w) == [k |-> "work", row |-> (w - 1) * WindowRows]
           S == {X(w) : w \in 1 .. n} \cup {Y(w) : w \in 1 .. n}
           t == FlattenSeq(f)
<1>1. v.naxis2 \in Nat \ {0} /\ WindowRows \in Nat \ {0}
  BY BinTableAssumption DEF ViewOK
<1>2. /\ n \in Nat
      /\ \A w \in 1 .. n : (w - 1) * WindowRows \in 0 .. v.naxis2 - 1
      /\ \A r \in 0 .. v.naxis2 - 1 : \E w \in 1 .. n :
            (w - 1) * WindowRows <= r /\ r < (w - 1) * WindowRows + WindowRows
  BY <1>1, WindowsCover
<1>3. \A w : /\ X(w).k = "read" /\ Y(w).k = "work" /\ Y(w).row = (w - 1) * WindowRows
  OBVIOUS
<1>4. \A w \in 1 .. n : f[w] = (IF reading THEN <<X(w)>> ELSE <<>>) \o <<Y(w)>>
  OBVIOUS
<1>5. f = [w \in 1 .. n |-> f[w]]
  OBVIOUS
<1> HIDE DEF X, Y
<1>6. \A w \in 1 .. n : X(w) \in S /\ Y(w) \in S
  OBVIOUS
<1> HIDE DEF S, t
<1>7. ASSUME NEW w \in 1 .. n
      PROVE  /\ f[w] \in Seq(S)
             /\ \A b \in 1 .. Len(f[w]) : f[w][b] = X(w) \/ f[w][b] = Y(w)
             /\ \E b \in 1 .. Len(f[w]) : f[w][b] = Y(w)
  <2>1. X(w) \in S /\ Y(w) \in S
    BY <1>6
  <2>2. f[w] = (IF reading THEN <<X(w)>> ELSE <<>>) \o <<Y(w)>>
    BY <1>4
  <2>3. Ends((IF reading THEN <<X(w)>> ELSE <<>>) \o <<Y(w)>>, S, X(w), Y(w))
    BY <2>1, WindowSteps
  <2>4. Ends(f[w], S, X(w), Y(w))
    BY <2>2, <2>3
  <2> QED BY <2>4 DEF Ends
<1>8. f \in [1 .. n -> Seq(S)]
  BY <1>5, <1>7
<1>9. Flattens(t, S, n, f)
  BY <1>2, <1>8, FlattenElements DEF t
<1>10. Listed(t) /\ DOMAIN t = 1 .. Len(t)
  BY <1>9, SeqListed, ListedFacts DEF Flattens
<1>11. ASSUME NEW a \in 1 .. Len(t)
       PROVE  t[a].k = "read" \/ (t[a].k = "work" /\ t[a].row \in 0 .. v.naxis2 - 1)
  <2>1. PICK w \in 1 .. n : \E b \in 1 .. Len(f[w]) : t[a] = f[w][b]
    BY <1>9 DEF Flattens
  <2>2. t[a] = X(w) \/ t[a] = Y(w)
    BY <2>1, <1>7
  <2> QED BY <2>2, <1>2, <1>3
<1>12. ASSUME NEW r \in 0 .. v.naxis2 - 1
       PROVE  \E a \in DOMAIN t : t[a].k = "work" /\ t[a].row <= r /\ r < t[a].row + WindowRows
  <2>1. PICK w \in 1 .. n : (w - 1) * WindowRows <= r /\ r < (w - 1) * WindowRows + WindowRows
    BY <1>2
  <2>2. PICK b \in 1 .. Len(f[w]) : f[w][b] = Y(w)
    BY <1>7
  <2>3. PICK a \in 1 .. Len(t) : t[a] = Y(w)
    <3>1. \E a \in 1 .. Len(t) : t[a] = f[w][b]
      BY <1>9 DEF Flattens
    <3> QED BY <3>1, <2>2
  <2>4. t[a].k = "work" /\ t[a].row <= r /\ r < t[a].row + WindowRows
    BY <2>1, <2>3, <1>3
  <2> QED BY <2>4, <1>10
<1>13. Windows(t, v)
  BY <1>10, <1>11, <1>12 DEF Windows
<1> QED BY <1>13 DEF t

\* The iterator begins.
LEMMA IterateBegins ==
    ASSUME TableInv, NEW reading \in BOOLEAN, NEW writes, NEW fused \in BOOLEAN,
           writes \subseteq DOMAIN view.cols, Iterate(reading, writes, fused)
    PROVE  TableInv'
<1> DEFINE n == (view.naxis2 + WindowRows - 1) \div WindowRows
           f == [w \in 1 .. n |->
                    (IF reading THEN <<[k |-> "read", row |-> (w - 1) * WindowRows]>> ELSE <<>>)
                        \o <<[k |-> "work", row |-> (w - 1) * WindowRows]>>]
           t == FlattenSeq(f)
           op == [op |-> "iterate", writes |-> writes, whole |-> WholeRows(writes, fused)]
<1>1. view.naxis2 > 0 /\ Begin(op, t)
  BY Zenon DEF Iterate
<1>2. op.op = "iterate" /\ op.writes = writes /\ op.whole => writes = DOMAIN view.cols
  BY DEF WholeRows
<1>3. op.op = "iterate" /\ op.writes = writes
  OBVIOUS
<1> HIDE DEF op, t, f, n
<1>4. /\ job' = [pc |-> "run", op |-> op, todo |-> t, done |-> 0, window |-> <<>>,
                 data |-> data, disk |-> disk, view |-> view]
      /\ UNCHANGED <<data, disk, hdr, view, damaged>> /\ others' = {} /\ ~damaged /\ Idle
  BY <1>1 DEF Begin
<1>5. /\ IsJob(job') /\ job'.pc = "run" /\ job'.op = op /\ job'.todo = t /\ job'.done = 0
      /\ job'.data = data /\ job'.disk = disk /\ job'.view = view
  BY <1>4 DEF IsJob
<1>6. /\ hdr = disk /\ TableOK(disk, view, data) /\ ViewOK(view) /\ DataOK(data)
  BY <1>4, IdleFacts DEF TableOK
<1>7. Windows(t, view)
  <2>1. Windows(FlattenSeq(f), view)
    BY <1>1, <1>6, WindowsOf DEF f, n
  <2> QED BY <2>1 DEF t
<1>8. DOMAIN view.cols = 1 .. Len(view.cols)
  BY <1>6, ViewSizes
<1>9. OpOK(op, view)
  BY <1>2, <1>3, <1>8 DEF OpOK
<1>10. \A a \in 1 .. Len(t) : ItemOK(t[a], op, view)
  BY <1>7 DEF Windows, ItemOK
<1>11. ASSUME NEW r \in 0 .. view.naxis2 - 1, NEW i \in 1 .. Len(view.cols)
       PROVE  Unbound(r, i)' /\ Bound(r, i)'
  <2>1. PICK a \in DOMAIN t : t[a].k = "work" /\ t[a].row <= r /\ r < t[a].row + WindowRows
    BY <1>7 DEF Windows
  <2>2. Covers(t[a], view, r, i)
    BY <2>1 DEF Covers
  <2>3. Bound(r, i)'
    BY <2>2, <1>4, <1>5 DEF Bound
  <2>4. Alike(data, data, view, r, i)
    BY DEF Alike
  <2>5. Unbound(r, i)'
    BY <2>4, <1>4, <1>5 DEF Unbound
  <2> QED BY <2>3, <2>5
<1>12. IterateInv'
  <2>1. /\ disk' = job'.disk /\ hdr' = disk' /\ view' = job'.view /\ data'.size = job'.data.size
    BY <1>4, <1>5, <1>6
  <2>2. \A a \in 1 .. Len(job'.todo) : ItemOK(job'.todo[a], job'.op, view')
    BY <1>4, <1>5, <1>10
  <2>3. \A r \in 0 .. view'.naxis2 - 1, i \in 1 .. Len(view'.cols) : Unbound(r, i)' /\ Bound(r, i)'
    BY <1>4, <1>11
  <2> QED BY <2>1, <2>2, <2>3, <1>5 DEF IterateInv
<1>13. JobOK'
  BY <1>3, <1>4, <1>5, <1>6, <1>7, <1>9, <1>12 DEF JobOK, Windows
<1>14. job' # NoJob'
  BY <1>5 DEF NoJob
<1> QED BY <1>4, <1>5, <1>13, <1>14 DEF TableInv

-----------------------------------------------------------------------------
(* The invariant is inductive.                                               *)

\* An edit has no step of the iterator.
LEMMA EditKinds ==
    ASSUME TableInv, job.pc = "run", job.todo # <<>>, job.op.op # "iterate"
    PROVE  Now.k \notin {"read", "work", "write"}
BY EditFacts, ShapedTail

\* The iterator has no step of an edit.
LEMMA IterateKinds ==
    ASSUME TableInv, job.pc = "run", job.todo # <<>>, job.op.op = "iterate"
    PROVE  Now.k \in {"read", "work", "write"}
BY IterateFacts DEF ItemOK

\* The cards of a new table.
LEMMA HeaderOfIs ==
    ASSUME NEW cols \in Seq(Column), NEW rows \in Nat, NEW theap,
           theap \in {None, RowWidth(cols) * rows}
    PROVE  HeaderOK(HeaderOf(cols, rows, theap))
<1> DEFINE cards == [i \in DOMAIN cols |-> [n |-> i, col |-> cols[i]]]
           h == HeaderOf(cols, rows, theap)
           n == Len(cols)
<1>1. n \in Nat /\ DOMAIN cols = 1 .. n /\ \A i \in 1 .. n : cols[i] \in Column
  BY ColumnTypes, LenProperties
<1>2. DOMAIN cards = 1 .. n /\ \A i \in 1 .. n : cards[i] = [n |-> i, col |-> cols[i]]
  BY <1>1
<1>3. cards \in [1 .. n -> [n : Nat, col : Column]]
  BY <1>1
<1>4. h = [cards |-> cards, fields |-> Len(cols), naxis1 |-> RowWidth(cols),
           naxis2 |-> rows, theap |-> theap]
  BY DEF HeaderOf
<1> HIDE DEF cards, h
<1>5. cards \in Cards
  BY <1>1, <1>3, FunctionIsSeq DEF Cards
<1>6. Describes(cards, cols)
  <2>1. \A i \in 1 .. n : cards[i].n = i /\ cards[i].col = cols[i]
    BY <1>2
  <2>2. Distinct(cards)
    BY <2>1, <1>2 DEF Distinct
  <2>3. \A i \in DOMAIN cards : cards[i].n \in 1 .. Len(cols)
    BY ONLY <2>1, <1>2
  <2>4. ASSUME NEW k \in 1 .. Len(cols)
        PROVE  \E i \in DOMAIN cards : cards[i].n = k /\ cards[i].col = cols[k]
    BY ONLY <2>1, <1>2, k \in 1 .. n
  <2>5. \A k \in 1 .. Len(cols) : \E i \in DOMAIN cards : cards[i].n = k /\ cards[i].col = cols[k]
    BY ONLY <2>4
  <2> HIDE DEF n
  <2>6. cards \in Cards
    BY <1>5
  <2> QED BY <2>2, <2>3, <2>5, <2>6 DEF Describes
<1>7. HeaderOK(h)
  BY <1>4, <1>6, HeaderFrom
<1> QED BY <1>7 DEF h

\* A new table.
LEMMA TableInit ==
    ASSUME Init
    PROVE  TableInv
<1>1. PICK t \in Tables :
         LET h == HeaderOf(t.cols, t.rows, IF t.theap THEN RowWidth(t.cols) * t.rows ELSE None)
         IN  /\ disk = h /\ hdr = h /\ view = Viewed(h)
             /\ data = TableDevice(h.naxis1 * h.naxis2 + Heap)
             /\ job = NoJob /\ faults = 0 /\ edits = 0 /\ damaged = FALSE /\ others = {}
  BY Zenon DEF Init
<1> DEFINE theap == IF t.theap THEN RowWidth(t.cols) * t.rows ELSE None
           h == HeaderOf(t.cols, t.rows, theap)
<1>2. /\ disk = h /\ hdr = h /\ view = Viewed(h) /\ job = NoJob /\ damaged = FALSE
      /\ data = TableDevice(h.naxis1 * h.naxis2 + Heap)
  BY <1>1
<1>3. t.cols \in Seq(Column) /\ t.rows \in Nat
  BY BinTableAssumption
<1>4. HeaderOK(h)
  BY <1>3, HeaderOfIs
<1> HIDE DEF h
<1>5. /\ view.naxis1 = h.naxis1 /\ view.naxis2 = h.naxis2 /\ ViewOK(view)
  BY <1>2, <1>4, ViewOf
<1> DEFINE n == h.naxis1 * h.naxis2 + Heap
<1>6. n = SizeOf(view) /\ n \in Nat
  BY <1>5, ViewSizes DEF SizeOf
<1> HIDE DEF n
<1>7. DataOK(TableDevice(n)) /\ TableDevice(n).size = n
  BY <1>6 DEF DataOK, TableDevice
<1>8. DataOK(data) /\ data.size = SizeOf(view)
  BY <1>2, <1>6, <1>7 DEF n
<1>9. hdr = disk /\ TableOK(disk, view, data)
  BY <1>2, <1>4, <1>8 DEF TableOK
<1> QED BY <1>2, <1>9 DEF TableInv

\* A step that changes nothing.
LEMMA TableStutters ==
    ASSUME TableInv, UNCHANGED vars
    PROVE  TableInv'
<1>1. UNCHANGED <<data, disk, hdr, view, job, damaged, others>>
  BY DEF vars
<1>2. IterateInv <=> IterateInv'
  BY <1>1 DEF IterateInv, Unbound, Bound
<1>3. Kept <=> Kept'
  BY <1>1 DEF Kept
<1>4. Arrived <=> Arrived'
  BY <1>1 DEF Arrived
<1>5. Staged <=> Staged'
  BY <1>1 DEF Staged, HeaderStage
<1>6. Planned <=> Planned'
  BY <1>1 DEF Planned
<1>7. EditInv <=> EditInv'
  BY <1>1, <1>3, <1>4, <1>5, <1>6 DEF EditInv
<1>8. JobOK <=> JobOK'
  BY <1>1, <1>2, <1>7 DEF JobOK
<1> QED BY <1>1, <1>8 DEF TableInv

\* The call that begins.
LEMMA CallBegins ==
    ASSUME TableInv, Calls
    PROVE  TableInv'
<1>1. MaxRows \in Nat
  BY BinTableAssumption
<1>2. CASE \E at \in 0 .. MaxRows, n \in 1 .. MaxRows : InsertRows(at, n) \/ DeleteRows(at, n)
  BY <1>1, <1>2, InsertRowsBegins, DeleteRowsBegins
<1>3. CASE \E from, at \in 0 .. MaxRows, n \in 1 .. MaxRows : CopyRows(from, n, at)
  BY <1>1, <1>3, CopyRowsBegins
<1>4. CASE \E at \in 1 .. Cardinality(Column) + 1, c \in Column : InsertColumn(at, c)
  BY <1>4, InsertColumnBegins
<1>5. CASE \E i \in DOMAIN view.cols : DeleteColumn(i)
  BY <1>5, DeleteColumnBegins
<1>6. CASE \E i, j \in DOMAIN view.cols : CopyColumn(i, j)
  BY <1>6, CopyColumnBegins
<1>7. CASE \E writes \in SUBSET DOMAIN view.cols, reading, fused \in BOOLEAN :
              Iterate(reading, writes, fused)
  BY <1>7, IterateBegins
<1> QED BY <1>2, <1>3, <1>4, <1>5, <1>6, <1>7 DEF Calls

\* The step of a call under way.
LEMMA CallSteps ==
    ASSUME TableInv,
           \/ Transfer \/ Resize \/ ChangeCards \/ RewriteHeader \/ Reparse \/ ReadWindow \/ Work
           \/ TransferFails \/ ResizeFails \/ CardsFail \/ CallFails
    PROVE  TableInv'
<1>1. CASE job.op.op = "iterate"
  <2>1. job.pc = "run" /\ job.todo # <<>> => Now.k \in {"read", "work", "write"}
    BY <1>1, IterateKinds
  <2>2. ~(Resize \/ ChangeCards \/ RewriteHeader \/ Reparse \/ ResizeFails \/ CardsFail)
    BY <2>1 DEF Resize, ChangeCards, RewriteHeader, Reparse, ResizeFails, CardsFail, Step, Now
  <2>3. CASE Transfer
    BY <1>1, <2>3, IterateTransfer
  <2>4. CASE TransferFails
    BY <1>1, <2>4, IterateTransferFails
  <2>5. CASE ReadWindow
    BY <1>1, <2>5, IterateRead
  <2>6. CASE Work
    BY <1>1, <2>6, IterateWork
  <2>7. CASE CallFails
    BY <1>1, <2>7, IterateCallFails
  <2> QED BY <2>2, <2>3, <2>4, <2>5, <2>6, <2>7
<1>2. CASE job.op.op # "iterate"
  <2>1. job.pc = "run" /\ job.todo # <<>> => Now.k \notin {"read", "work", "write"}
    BY <1>2, EditKinds
  <2>2. ~(ReadWindow \/ Work)
    BY <2>1 DEF ReadWindow, Work, Step, Now
  <2>3. CASE Transfer
    BY <1>2, <2>3, EditTransfer
  <2>4. CASE TransferFails
    BY <1>2, <2>4, EditTransferFails
  <2>5. CASE Resize
    BY <1>2, <2>5, EditResize
  <2>6. CASE ResizeFails
    BY <1>2, <2>6, EditResizeFails
  <2>7. CASE ChangeCards \/ RewriteHeader \/ Reparse
    BY <1>2, <2>7, EditHeader
  <2>8. CASE CallFails \/ CardsFail
    BY <1>2, <2>8, EditCallFails
  <2> QED BY <2>2, <2>3, <2>4, <2>5, <2>6, <2>7, <2>8
<1> QED BY <1>1, <1>2

\* The invariant is inductive.
LEMMA TableStep ==
    ASSUME TableInv, [Next]_vars
    PROVE  TableInv'
<1>1. CASE Calls
  BY <1>1, CallBegins
<1>2. CASE Return
  BY <1>2, Returns
<1>3. CASE \/ Transfer \/ Resize \/ ChangeCards \/ RewriteHeader \/ Reparse \/ ReadWindow \/ Work
           \/ TransferFails \/ ResizeFails \/ CardsFail \/ CallFails
  BY <1>3, CallSteps
<1>4. CASE \E r \in 0 .. MaxRows, i \in DOMAIN view.cols : OtherWrites(r, i)
  <2>1. MaxRows \in Nat
    BY BinTableAssumption
  <2> QED BY <1>4, <2>1, IterateOther
<1>5. CASE UNCHANGED vars
  BY <1>5, TableStutters
<1> QED BY <1>1, <1>2, <1>3, <1>4, <1>5 DEF Next

\* Of every table, whatever the call, its failures and the other handle (binary.zig:431-604,
\* iterator.zig:120-236): what is pending is in order, and what is not is in place.
THEOREM TableInvariant == Spec => []TableInv
<1>1. Init => TableInv
  BY TableInit
<1>2. TableInv /\ [Next]_vars => TableInv'
  BY TableStep
<1> QED BY <1>1, <1>2, PTL DEF Spec

-----------------------------------------------------------------------------
(* Touched cells and iterated fields.                                        *)

\* A call under way.
LEMMA UnderWay ==
    ASSUME TableInv, ~Idle
    PROVE  job.pc \in {"run", "failed"} /\ JobOK
BY DEF TableInv, Idle, NoJob

\* The cells an edit may not touch are as they were.
LEMMA TouchesOnly ==
    ASSUME TableInv
    PROVE  EditTouchesOnly
<1>1. SUFFICES ASSUME ~Idle, job.op.op # "iterate", NEW k \in Apart(job.op, job.view)
               PROVE  k < data.size /\ data.at[k] = job.data.at[k]
  BY DEF EditTouchesOnly
<1>2. Kept
  BY <1>1, UnderWay DEF JobOK, EditInv
<1>3. k \in ApartIn(job.op, job.view, job.data)
  BY <1>1 DEF Apart, ApartIn
<1> QED BY <1>2, <1>3 DEF Kept

\* A failed edit leaves the cells before its edit point, and a failed copy all but its
\* destination, as they were (binary.zig:431-604).
THEOREM TouchesOnlyItsPart == Spec => []EditTouchesOnly
<1>1. TableInv => EditTouchesOnly
  BY TouchesOnly
<1> QED BY <1>1, TableInvariant, PTL

\* The iterator writes what is bound, and nothing else.
LEMMA Iterates ==
    ASSUME TableInv
    PROVE  IteratesBound
<1>1. SUFFICES ASSUME ~Idle, job.op.op = "iterate",
                      NEW r \in 0 .. view.naxis2 - 1, NEW i \in DOMAIN view.cols
               PROVE  LET now == Field(data, view.cols, view.naxis1, r, i)
                          All(x) == [k \in DOMAIN now |-> x]
                      IN  /\ i \notin job.op.writes =>
                                now = (IF <<r, i>> \in others THEN All(Foreign)
                                       ELSE Field(job.data, view.cols, view.naxis1, r, i))
                          /\ i \in job.op.writes /\ Completed =>
                                now = All(Fresh) \/ (<<r, i>> \in others /\ now = All(Foreign))
  BY Zenon DEF IteratesBound
<1> DEFINE now == Field(data, view.cols, view.naxis1, r, i)
           All(x) == [k \in DOMAIN now |-> x]
<1>2. IterateInv /\ Listed(job.todo) /\ TableOK(job.disk, job.view, job.data)
  BY <1>1, UnderWay DEF JobOK
<1>3. view = job.view /\ ViewOK(job.view)
  BY <1>2, ViewOf DEF IterateInv, TableOK
<1>4. i \in 1 .. Len(view.cols)
  BY <1>3, ViewSizes
<1>5. /\ i \notin job.op.writes => Unbound(r, i)
      /\ i \in job.op.writes /\ job.pc = "run" => Bound(r, i)
  BY <1>2, <1>4 DEF IterateInv
<1>6. /\ now = [k \in 0 .. Width[view.cols[i]] - 1 |-> data.at[FieldAt(view, r, i) + k]]
      /\ \A x : Holds(data, view, r, i, x) => now = [k \in 0 .. Width[view.cols[i]] - 1 |-> x]
      /\ \A e : Alike(data, e, view, r, i) => now = Field(e, view.cols, view.naxis1, r, i)
  BY DEF Field, Slice, FieldAt, Holds, Alike
<1> HIDE DEF now
<1>7. DOMAIN now = 0 .. Width[view.cols[i]] - 1
  BY <1>6
<1>8. \A x : Holds(data, view, r, i, x) => now = All(x)
  BY <1>6, <1>7
<1>9. i \notin job.op.writes =>
        now = (IF <<r, i>> \in others THEN All(Foreign)
               ELSE Field(job.data, view.cols, view.naxis1, r, i))
  BY <1>5, <1>6, <1>8 DEF Unbound
<1>10. ASSUME i \in job.op.writes, Completed
       PROVE  now = All(Fresh) \/ (<<r, i>> \in others /\ now = All(Foreign))
  <2>1. Bound(r, i)
    BY <1>5, <1>10 DEF Completed
  <2>2. DOMAIN job.todo = {}
    BY <1>10 DEF Completed
  <2> QED BY <2>1, <2>2, <1>8 DEF Bound
<1> QED BY <1>9, <1>10 DEF now

\* The iterator takes back nothing that another handle has written to a column not bound
\* for writing, and when it has returned, every bound field is the caller's
\* (iterator.zig:190-199).
THEOREM IteratesOnlyBound == Spec => []IteratesBound
<1>1. TableInv => IteratesBound
  BY Iterates
<1> QED BY <1>1, TableInvariant, PTL

-----------------------------------------------------------------------------
(* The table that an edit makes.                                             *)

\* A sequence is a function of its positions.
LEMMA SeqIs ==
    ASSUME NEW S, NEW s \in Seq(S)
    PROVE  s = [j \in 1 .. Len(s) |-> s[j]]
OBVIOUS

\* A sequence with n times b put in after its a-th element.
PutIn(s, a, n, b) ==
    SubSeq(s, 1, a) \o [k \in 1 .. n |-> b] \o SubSeq(s, a + 1, Len(s)) =
        [j \in 1 .. Len(s) + n |-> IF j <= a THEN s[j] ELSE IF j <= a + n THEN b ELSE s[j - n]]

\* It has the elements the formula says.
LEMMA SplicedIs ==
    ASSUME NEW S, NEW s \in Seq(S), NEW a \in 0 .. Len(s), NEW n \in Nat, NEW b \in S
    PROVE  PutIn(s, a, n, b)
<1> DEFINE L == Len(s) x == SubSeq(s, 1, a) y == [k \in 1 .. n |-> b] z == SubSeq(s, a + 1, L)
           u == x \o y w == u \o z
<1>1. L \in Nat /\ a \in Nat /\ a <= L
  BY LenProperties
<1>2. x \in Seq(S) /\ Len(x) = a /\ \A j \in 1 .. a : x[j] = s[j]
  BY <1>1, SubSeqProperties, Z3
<1>3. z \in Seq(S) /\ Len(z) = L - a /\ \A j \in 1 .. L - a : z[j] = s[a + j]
  BY <1>1, SubSeqProperties, Z3
<1>4. y \in Seq(S) /\ Len(y) = n /\ \A j \in 1 .. n : y[j] = b
  <2>1. y \in [1 .. n -> S] /\ \A j \in 1 .. n : y[j] = b
    OBVIOUS
  <2> HIDE DEF y
  <2> QED BY <2>1, FunctionIsSeq
<1> HIDE DEF L, x, y, z
<1>5. /\ u \in Seq(S) /\ Len(u) = a + n
      /\ \A j \in 1 .. a + n : u[j] = IF j <= a THEN s[j] ELSE b
  <2>1. /\ u \in Seq(S) /\ Len(u) = Len(x) + Len(y)
        /\ \A i \in 1 .. Len(x) + Len(y) : u[i] = IF i <= Len(x) THEN x[i] ELSE y[i - Len(x)]
    BY <1>2, <1>4, ConcatProperties
  <2> HIDE DEF u
  <2> QED BY <2>1, <1>1, <1>2, <1>4
<1> HIDE DEF u
<1>6. /\ w \in Seq(S) /\ Len(w) = L + n
      /\ \A j \in 1 .. L + n : w[j] = IF j <= a THEN s[j] ELSE IF j <= a + n THEN b ELSE s[j - n]
  <2>1. /\ w \in Seq(S) /\ Len(w) = Len(u) + Len(z)
        /\ \A i \in 1 .. Len(u) + Len(z) : w[i] = IF i <= Len(u) THEN u[i] ELSE z[i - Len(u)]
    BY <1>3, <1>5, ConcatProperties
  <2> HIDE DEF w
  <2>2. Len(w) = L + n
    BY <2>1, <1>1, <1>3, <1>5
  <2>3. ASSUME NEW j \in 1 .. L + n
        PROVE  w[j] = IF j <= a THEN s[j] ELSE IF j <= a + n THEN b ELSE s[j - n]
    <3>1. CASE j <= a + n
      <4>1. j \in 1 .. a + n /\ w[j] = u[j]
        <5>1. j \in 1 .. Len(u) + Len(z) /\ j <= Len(u) /\ j \in 1 .. a + n
          BY <3>1, <1>1, <1>3, <1>5
        <5> QED BY <5>1, <2>1
      <4> QED BY <4>1, <1>5
    <3>2. CASE ~(j <= a + n)
      <4>1. j - (a + n) \in 1 .. L - a /\ a + (j - (a + n)) = j - n /\ ~(j <= a)
        BY <3>2, <1>1
      <4>2. w[j] = z[j - (a + n)]
        <5>1. j \in 1 .. Len(u) + Len(z) /\ ~(j <= Len(u)) /\ Len(u) = a + n
          BY <3>2, <1>1, <1>3, <1>5
        <5> QED BY <5>1, <2>1
      <4> QED BY <4>1, <4>2, <3>2, <1>3
    <3> QED BY <3>1, <3>2
  <2> QED BY <2>1, <2>2, <2>3
<1> HIDE DEF w
<1>7. w = [j \in 1 .. L + n |-> w[j]]
  BY <1>6, SeqIs
<1>8. w = [j \in 1 .. L + n |-> IF j <= a THEN s[j] ELSE IF j <= a + n THEN b ELSE s[j - n]]
  BY <1>6, <1>7
<1> QED BY <1>8 DEF PutIn, w, u, x, y, z, L

\* A sequence with n elements taken out after its a-th.
Cut(s, a, n) == SubSeq(s, 1, a) \o SubSeq(s, a + n + 1, Len(s))
Without(s, a, n) == [j \in 1 .. Len(s) - n |-> IF j <= a THEN s[j] ELSE s[j + n]]

\* A sequence with n elements taken out, by position.
LEMMA CutIs ==
    ASSUME NEW S, NEW s \in Seq(S), NEW a \in Nat, NEW n \in Nat, a + n <= Len(s)
    PROVE  Cut(s, a, n) = Without(s, a, n)
<1> DEFINE L == Len(s) x == SubSeq(s, 1, a) z == SubSeq(s, a + n + 1, L) w == x \o z
<1>1. L \in Nat /\ a + n <= L
  BY LenProperties
<1>2. x \in Seq(S) /\ Len(x) = a /\ \A j \in 1 .. a : x[j] = s[j]
  BY <1>1, SubSeqProperties, Z3
<1>3. z \in Seq(S) /\ Len(z) = L - (a + n) /\ \A j \in 1 .. L - (a + n) : z[j] = s[a + n + j]
  BY <1>1, SubSeqProperties, Z3
<1> HIDE DEF L, x, z
<1>4. /\ w \in Seq(S) /\ Len(w) = L - n
      /\ \A j \in 1 .. L - n : w[j] = IF j <= a THEN s[j] ELSE s[j + n]
  <2>1. /\ w \in Seq(S) /\ Len(w) = Len(x) + Len(z)
        /\ \A i \in 1 .. Len(x) + Len(z) : w[i] = IF i <= Len(x) THEN x[i] ELSE z[i - Len(x)]
    <3>1. x \in Seq(S) /\ z \in Seq(S)
      BY <1>2, <1>3
    <3> QED BY <3>1, ConcatProperties
  <2> HIDE DEF w
  <2>2. Len(w) = L - n
    BY <2>1, <1>1, <1>2, <1>3
  <2>3. ASSUME NEW j \in 1 .. L - n PROVE w[j] = IF j <= a THEN s[j] ELSE s[j + n]
    <3>1. CASE j <= a
      BY <3>1, <2>1, <1>1, <1>2, <1>3
    <3>2. CASE ~(j <= a)
      <4>1. j - a \in 1 .. L - (a + n) /\ a + n + (j - a) = j + n
        BY <3>2, <1>1
      <4>2. w[j] = z[j - a]
        BY <3>2, <2>1, <1>1, <1>2, <1>3
      <4> QED BY <4>1, <4>2, <3>2, <1>3
    <3> QED BY <3>1, <3>2
  <2> QED BY <2>1, <2>2, <2>3
<1> HIDE DEF w
<1>5. w = [j \in 1 .. L - n |-> w[j]]
  BY <1>4, SeqIs
<1>6. w = [j \in 1 .. L - n |-> IF j <= a THEN s[j] ELSE s[j + n]]
  BY <1>4, <1>5
<1> QED BY <1>6 DEF Cut, Without, w, x, z, L

\* The rows of a table, and the table.
RowOf(d, cols, w, r) == [i \in 1 .. Len(cols) |-> Field(d, cols, w, r, i)]
Rows(d, cols, w, R) == [r \in 1 .. R |-> RowOf(d, cols, w, r - 1)]
TableAs(d, cols, w, R) ==
    [cols |-> cols, rows |-> Rows(d, cols, w, R), heap |-> Slice(d, w * R, Heap)]

\* A table that a header in order describes.
LEMMA TableIs ==
    ASSUME NEW h, HeaderOK(h), NEW d
    PROVE  TableOf(h, d) = TableAs(d, ColsOf(h), h.naxis1, h.naxis2)
<1>1. h.fields = Len(ColsOf(h))
  BY HeaderCols
<1>2. HeapAt(h) = h.naxis1 * h.naxis2
  BY DEF HeaderOK, HeapAt
<1> QED BY <1>1, <1>2 DEF TableOf, TableAs, Rows, RowOf

\* The data unit d is the one that op makes of the data unit e.
Made(op, v, e, d) ==
    /\ NewSize(op, v) \in Nat
    /\ \A y \in 0 .. NewSize(op, v) - 1 : d.at[y] = Target(op, v, e, y)

\* n cells from F on that come from those from G on, or that are new.
Comes(op, v, F, G, n) == \A k \in 0 .. n - 1 : Origin(op, v, F + k) = G + k
Starts(op, v, F, n) == \A k \in 0 .. n - 1 : Origin(op, v, F + k) = -1

\* Cells in a row that come from cells in a row.
LEMMA SliceFrom ==
    ASSUME NEW op, NEW v, NEW e, NEW d, Made(op, v, e, d), NEW F \in Nat, NEW G \in Nat,
           NEW n \in Nat, F + n <= NewSize(op, v), Comes(op, v, F, G, n)
    PROVE  Slice(d, F, n) = Slice(e, G, n)
<1>1. ASSUME NEW k \in 0 .. n - 1 PROVE d.at[F + k] = e.at[G + k]
  <2>1. F + k \in 0 .. NewSize(op, v) - 1 /\ G + k # -1
    BY DEF Made
  <2>2. d.at[F + k] = Target(op, v, e, F + k)
    BY <2>1 DEF Made
  <2> QED BY <2>1, <2>2 DEF Target, Sourced, Comes
<1> QED BY <1>1 DEF Slice

\* Cells that are new.
LEMMA SliceBlank ==
    ASSUME NEW op, NEW v, NEW e, NEW d, Made(op, v, e, d), NEW F \in Nat,
           NEW n \in Nat, F + n <= NewSize(op, v), Starts(op, v, F, n)
    PROVE  Slice(d, F, n) = [k \in 0 .. n - 1 |-> Zero]
<1>1. ASSUME NEW k \in 0 .. n - 1 PROVE d.at[F + k] = Zero
  <2>1. F + k \in 0 .. NewSize(op, v) - 1
    BY DEF Made
  <2>2. d.at[F + k] = Target(op, v, e, F + k)
    BY <2>1 DEF Made
  <2> QED BY <2>2 DEF Target, Sourced, Starts
<1> QED BY <1>1 DEF Slice

\* A row as a whole from another.
LEMMA RowFrom ==
    ASSUME NEW op, NEW v, ViewOK(v), NEW e, NEW d, Made(op, v, e, d), NEW x \in Nat, NEW z \in Nat,
           x + v.naxis1 <= NewSize(op, v),
           Comes(op, v, x, z, v.naxis1),
           NEW r, x = r * v.naxis1, NEW q, z = q * v.naxis1
    PROVE  RowOf(d, v.cols, v.naxis1, r) = RowOf(e, v.cols, v.naxis1, q)
<1>1. ASSUME NEW i \in 1 .. Len(v.cols)
      PROVE  Field(d, v.cols, v.naxis1, r, i) = Field(e, v.cols, v.naxis1, q, i)
  <2> DEFINE o == Offset(v.cols, i) u == Width[v.cols[i]] w == v.naxis1 N == NewSize(op, v)
  <2>1. o \in Nat /\ u \in Nat /\ o + u <= w /\ w \in Nat
    BY FieldsIn, ViewSizes
  <2>2. N \in Nat
    BY DEF Made
  <2> HIDE DEF o, u
  <2>3. x + o \in Nat /\ z + o \in Nat
    BY <2>1
  <2>4. (x + o) + u <= N
    <3>1. x + w <= N
      OBVIOUS
    <3> HIDE DEF w, N
    <3> QED BY <3>1, <2>1, <2>2
  <2>5. ASSUME NEW k \in 0 .. u - 1 PROVE Origin(op, v, (x + o) + k) = (z + o) + k
    <3>1. o + k \in 0 .. w - 1 /\ x + (o + k) = (x + o) + k /\ z + (o + k) = (z + o) + k
      <4> HIDE DEF w
      <4> QED BY <2>1
    <3>2. Origin(op, v, x + (o + k)) = z + (o + k)
      BY <3>1 DEF Comes
    <3> QED BY <3>1, <3>2
  <2>6. Slice(d, x + o, u) = Slice(e, z + o, u)
    <3> DEFINE F == x + o G == z + o
    <3>1. F \in Nat /\ G \in Nat /\ F + u <= N /\ Comes(op, v, F, G, u)
      BY <2>3, <2>4, <2>5 DEF Comes
    <3> HIDE DEF F, G
    <3>2. Slice(d, F, u) = Slice(e, G, u)
      BY <3>1, <2>1, SliceFrom
    <3> QED BY <3>2 DEF F, G
  <2> QED BY <2>6 DEF Field, o, u
<1> QED BY <1>1 DEF RowOf

\* A new row.
LEMMA RowBlank ==
    ASSUME NEW op, NEW v, ViewOK(v), NEW e, NEW d, Made(op, v, e, d), NEW x \in Nat,
           x + v.naxis1 <= NewSize(op, v), Starts(op, v, x, v.naxis1),
           NEW r, x = r * v.naxis1
    PROVE  RowOf(d, v.cols, v.naxis1, r) = Blank(v.cols)
<1>1. ASSUME NEW i \in 1 .. Len(v.cols)
      PROVE  Field(d, v.cols, v.naxis1, r, i) = [k \in 0 .. Width[v.cols[i]] - 1 |-> Zero]
  <2> DEFINE o == Offset(v.cols, i) u == Width[v.cols[i]] w == v.naxis1 N == NewSize(op, v)
  <2>1. o \in Nat /\ u \in Nat /\ o + u <= w /\ w \in Nat
    BY FieldsIn, ViewSizes
  <2>2. N \in Nat
    BY DEF Made
  <2> HIDE DEF o, u
  <2>3. x + o \in Nat
    BY <2>1
  <2>4. (x + o) + u <= N
    <3>1. x + w <= N
      OBVIOUS
    <3> HIDE DEF w, N
    <3> QED BY <3>1, <2>1, <2>2
  <2>5. ASSUME NEW k \in 0 .. u - 1 PROVE Origin(op, v, (x + o) + k) = -1
    <3>1. o + k \in 0 .. w - 1 /\ x + (o + k) = (x + o) + k
      <4> HIDE DEF w
      <4> QED BY <2>1
    <3>2. Origin(op, v, x + (o + k)) = -1
      BY <3>1 DEF Starts
    <3> QED BY <3>1, <3>2
  <2>6. Slice(d, x + o, u) = [k \in 0 .. u - 1 |-> Zero]
    <3> DEFINE F == x + o
    <3>1. F \in Nat /\ F + u <= N /\ Starts(op, v, F, u)
      BY <2>3, <2>4, <2>5 DEF Starts
    <3> HIDE DEF F
    <3>2. Slice(d, F, u) = [k \in 0 .. u - 1 |-> Zero]
      BY <3>1, <2>1, SliceBlank
    <3> QED BY <3>2 DEF F
  <2> QED BY <2>6 DEF Field, o, u
<1>2. DOMAIN v.cols = 1 .. Len(v.cols)
  BY ViewSizes
<1> QED BY <1>1, <1>2 DEF RowOf, Blank

\* Where rows begin and end.
LEMMA RowBounds ==
    ASSUME NEW w \in Nat, NEW r \in Nat, NEW a \in Nat
    PROVE  /\ r * w \in Nat /\ w * a \in Nat
           /\ r < a => r * w + w <= w * a
           /\ a <= r => w * a <= r * w /\ (r - a) * w \in Nat /\ (r - a) * w = r * w - w * a
           /\ (r + a) * w \in Nat /\ (r + a) * w = r * w + w * a
<1>1. r * w \in Nat /\ a * w \in Nat /\ w * a = a * w
  BY Times
<1>2. /\ r < a => r * w + w <= a * w
      /\ a <= r => a * w <= r * w /\ (r - a) * w = r * w - a * w
      /\ (r + a) * w = r * w + a * w
  BY TimesOrder
<1> DEFINE x == r * w y == a * w z == w * a p == (r - a) * w q == (r + a) * w
<1>3. /\ x \in Nat /\ y \in Nat /\ z = y
      /\ r < a => x + w <= y
      /\ a <= r => y <= x /\ p = x - y
      /\ q = x + y
  BY <1>1, <1>2
<1> HIDE DEF x, y, z, p, q
<1>4. /\ x \in Nat /\ z \in Nat
      /\ r < a => x + w <= z
      /\ a <= r => z <= x /\ p \in Nat /\ p = x - z
      /\ q \in Nat /\ q = x + z
  BY <1>3
<1> QED BY <1>4 DEF x, y, z, p, q

\* The rows as a sequence.
AllRows(e, cols, w, R) == {RowOf(e, cols, w, r - 1) : r \in 1 .. R}

\* The rows of a table are a sequence.
LEMMA RowsAre ==
    ASSUME NEW e, NEW cols, NEW w, NEW R \in Nat, NEW S, AllRows(e, cols, w, R) \subseteq S
    PROVE  /\ Rows(e, cols, w, R) \in Seq(S) /\ Len(Rows(e, cols, w, R)) = R
           /\ DOMAIN Rows(e, cols, w, R) = 1 .. R
           /\ \A j \in 1 .. R : Rows(e, cols, w, R)[j] = RowOf(e, cols, w, j - 1)
<1> DEFINE T == Rows(e, cols, w, R)
<1>1. /\ T \in [1 .. R -> S] /\ DOMAIN T = 1 .. R
      /\ \A j \in 1 .. R : T[j] = RowOf(e, cols, w, j - 1)
  BY DEF Rows, AllRows
<1> HIDE DEF T
<1>2. T \in Seq(S) /\ Len(T) = R
  BY <1>1, FunctionIsSeq
<1>3. /\ T \in Seq(S) /\ Len(T) = R /\ DOMAIN T = 1 .. R
      /\ \A j \in 1 .. R : T[j] = RowOf(e, cols, w, j - 1)
  BY <1>1, <1>2
<1> QED BY <1>3 DEF T

\* The data unit d that op makes of e holds the table that op is to make.
Becomes(op, v, e, d) ==
    TableAs(d, NewCols(op, v), NewWidth(op, v), NewRows(op, v)) =
        Goal(op, TableAs(e, v.cols, v.naxis1, v.naxis2))

\* insertRows.
LEMMA InsertRowsMakes ==
    ASSUME NEW op, op.op = "insertRows", NEW v, ViewOK(v), OpOK(op, v), NEW e, NEW d, Made(op, v, e, d)
    PROVE  Becomes(op, v, e, d)
<1> DEFINE w == v.naxis1 R == v.naxis2 n == op.n a == op.at C == v.cols b == Blank(C)
           T == Rows(e, C, w, R) A == w * a N == w * n E == w * R M == NewSize(op, v)
           S == AllRows(e, C, w, R) \cup {b}
           t == TableAs(e, C, w, R)
<1>1. w \in Nat /\ R \in Nat /\ n \in Nat /\ a \in Nat /\ a <= R /\ Heap \in Nat
  BY ViewSizes DEF OpOK
<1>2. NewCols(op, v) = C /\ NewRows(op, v) = R + n /\ NewWidth(op, v) = w
  <2>1. Delta(op, v) = 0 /\ NewCols(op, v) = C /\ NewRows(op, v) = R + n
    BY DEF Delta, NewCols, NewRows
  <2> QED BY <2>1, <1>1 DEF NewWidth
<1>3. /\ \A y : Origin(op, v, y) = IF y < w * a THEN y ELSE IF y < w * (a + n) THEN -1 ELSE y - w * n
      /\ M = w * (R + n) + Heap
  BY <1>2 DEF Origin, NewSize
<1>4. Goal(op, t) = [t EXCEPT !.rows = SubSeq(@, 1, a) \o [k \in 1 .. n |-> Blank(t.cols)]
                                          \o SubSeq(@, a + 1, Len(@))]
  BY DEF Goal
<1> HIDE DEF w, R, n, a
<1>5. /\ A \in Nat /\ N \in Nat /\ E \in Nat /\ w * (a + n) = A + N /\ w * (R + n) = E + N /\ A <= E
  BY <1>1, RowProducts
<1>6. /\ \A y : Origin(op, v, y) = IF y < A THEN y ELSE IF y < A + N THEN -1 ELSE y - N
      /\ M = E + N + Heap /\ M \in Nat
  BY <1>1, <1>3, <1>5
<1>7. ASSUME NEW r \in 0 .. R + n - 1
      PROVE  RowOf(d, C, w, r) = IF r < a THEN RowOf(e, C, w, r)
                                 ELSE IF r < a + n THEN b ELSE RowOf(e, C, w, r - n)
  <2> DEFINE x == r * w
  <2>1. r \in Nat /\ r < R + n
    BY <1>1
  <2>2. /\ x \in Nat /\ x + w <= E + N
        /\ r < a => x + w <= A
        /\ a <= r => A <= x
        /\ r < a + n => x + w <= A + N
        /\ a + n <= r => A + N <= x
        /\ n <= r => (r - n) * w \in Nat /\ (r - n) * w = x - N
    BY <1>1, <1>5, <2>1, RowBounds
  <2>3. x + w <= M
    <3> HIDE DEF x, E, N, M
    <3> QED BY <2>2, <1>1, <1>5, <1>6
  <2>4. CASE r < a
    <3>1. Comes(op, v, x, x, w)
      <4> HIDE DEF x, A, N
      <4> QED BY <2>2, <2>4, <1>1, <1>5, <1>6 DEF Comes
    <3>2. RowOf(d, C, w, r) = RowOf(e, C, w, r)
      BY <2>2, <2>3, <3>1, RowFrom DEF w
    <3> QED BY <3>2, <2>4
  <2>5. CASE a <= r /\ r < a + n
    <3>1. Starts(op, v, x, w)
      <4> HIDE DEF x, A, N
      <4> QED BY <2>2, <2>5, <1>1, <1>5, <1>6 DEF Starts
    <3>2. RowOf(d, C, w, r) = b
      BY <2>2, <2>3, <3>1, RowBlank DEF w
    <3> QED BY <3>2, <2>5, <2>1, <1>1
  <2>6. CASE a + n <= r
    <3> DEFINE q == r - n z == q * w
    <3>1. n <= r
      BY <2>1, <2>6, <1>1
    <3>2. z \in Nat /\ z = x - N
      BY <2>2, <3>1
    <3> HIDE DEF q
    <3>3. Comes(op, v, x, z, w)
      <4> HIDE DEF x, A, N, z
      <4> QED BY <2>2, <2>6, <3>2, <1>1, <1>5, <1>6 DEF Comes
    <3>4. RowOf(d, C, w, r) = RowOf(e, C, w, q)
      BY <2>2, <2>3, <3>2, <3>3, RowFrom DEF w
    <3> QED BY <3>4, <2>6, <2>1, <1>1 DEF q
  <2> QED BY <2>1, <2>4, <2>5, <2>6, <1>1
<1>8. /\ T \in Seq(S) /\ Len(T) = R /\ \A j \in 1 .. R : T[j] = RowOf(e, C, w, j - 1)
  <2>1. AllRows(e, C, w, R) \subseteq S
    OBVIOUS
  <2> HIDE DEF S
  <2> QED BY <2>1, <1>1, RowsAre
<1>9. b \in S
  OBVIOUS
<1> HIDE DEF S, T, b
<1>10. SubSeq(T, 1, a) \o [k \in 1 .. n |-> b] \o SubSeq(T, a + 1, Len(T)) =
          [j \in 1 .. Len(T) + n |-> IF j <= a THEN T[j] ELSE IF j <= a + n THEN b ELSE T[j - n]]
  <2>1. a \in 0 .. Len(T)
    BY <1>1, <1>8
  <2>2. T \in Seq(S) /\ n \in Nat /\ b \in S
    BY <1>1, <1>8, <1>9
  <2>3. PutIn(T, a, n, b)
    BY ONLY <2>1, <2>2, SplicedIs
  <2> QED BY ONLY <2>3 DEF PutIn
<1>11. [j \in 1 .. R + n |-> IF j <= a THEN T[j] ELSE IF j <= a + n THEN b ELSE T[j - n]]
         = Rows(d, C, w, R + n)
  <2>1. ASSUME NEW j \in 1 .. R + n
        PROVE  RowOf(d, C, w, j - 1) = IF j <= a THEN T[j] ELSE IF j <= a + n THEN b ELSE T[j - n]
    <3>1. j - 1 \in 0 .. R + n - 1 /\ j \in Nat
      BY <1>1
    <3>2. j <= a => j - 1 < a /\ j \in 1 .. R
      BY <3>1, <1>1
    <3>3. ~(j <= a) => ~(j - 1 < a)
      BY <3>1, <1>1
    <3>4. j <= a + n <=> j - 1 < a + n
      BY <3>1, <1>1
    <3>5. ~(j <= a + n) => j - n \in 1 .. R /\ (j - n) - 1 = (j - 1) - n
      BY <3>1, <1>1
    <3> QED BY <3>1, <3>2, <3>3, <3>4, <3>5, <1>7, <1>8
  <2> QED BY <2>1 DEF Rows
<1>12. Slice(d, w * (R + n), Heap) = Slice(e, w * R, Heap)
  <2> DEFINE F == w * (R + n)
  <2>1. F = E + N
    BY <1>5
  <2> HIDE DEF F, E, N, A, M
  <2>2. F \in Nat /\ F + Heap <= M /\ Comes(op, v, F, E, Heap)
    BY <2>1, <1>1, <1>5, <1>6 DEF Comes
  <2>3. Slice(d, F, Heap) = Slice(e, E, Heap)
    BY <2>2, <1>1, <1>5, SliceFrom DEF M
  <2> QED BY <2>3 DEF F, E
<1>13. t.cols = C /\ t.rows = T /\ t.heap = Slice(e, w * R, Heap)
       /\ t = [cols |-> C, rows |-> T, heap |-> Slice(e, w * R, Heap)]
  BY DEF TableAs, T
<1> HIDE DEF t
<1>14. Goal(op, t) = [cols |-> C, rows |-> Rows(d, C, w, R + n), heap |-> Slice(d, w * (R + n), Heap)]
  <2> DEFINE X == SubSeq(t.rows, 1, a) \o [k \in 1 .. n |-> Blank(t.cols)]
                      \o SubSeq(t.rows, a + 1, Len(t.rows))
  <2>1. X = Rows(d, C, w, R + n)
    <3>1. X = SubSeq(T, 1, a) \o [k \in 1 .. n |-> b] \o SubSeq(T, a + 1, Len(T))
      BY <1>13 DEF b
    <3> QED BY <3>1, <1>8, <1>10, <1>11
  <2>2. Goal(op, t) = [t EXCEPT !.rows = X]
    BY <1>4
  <2> HIDE DEF X
  <2>3. Goal(op, t) = [cols |-> C, rows |-> X, heap |-> Slice(e, w * R, Heap)]
    BY <2>2, <1>13
  <2> QED BY <2>1, <2>3, <1>12
<1>15. Goal(op, t) = TableAs(d, C, w, R + n)
  BY <1>14 DEF TableAs
<1>16. TableAs(d, NewCols(op, v), NewWidth(op, v), NewRows(op, v)) = Goal(op, t)
  BY <1>2, <1>15
<1> QED BY <1>16 DEF Becomes, t, w, R

\* deleteRows.
LEMMA DeleteRowsMakes ==
    ASSUME NEW op, op.op = "deleteRows", NEW v, ViewOK(v), OpOK(op, v), NEW e, NEW d, Made(op, v, e, d)
    PROVE  Becomes(op, v, e, d)
<1> DEFINE w == v.naxis1 R == v.naxis2 n == op.n a == op.at C == v.cols
           T == Rows(e, C, w, R) A == w * a N == w * n E == w * R M == NewSize(op, v)
           S == AllRows(e, C, w, R)
           t == TableAs(e, C, w, R)
<1>1. w \in Nat /\ R \in Nat /\ n \in Nat /\ a \in Nat /\ a + n <= R /\ Heap \in Nat
  BY ViewSizes DEF OpOK
<1>2. NewCols(op, v) = C /\ NewRows(op, v) = R - n /\ NewWidth(op, v) = w
  <2>1. Delta(op, v) = 0 /\ NewCols(op, v) = C /\ NewRows(op, v) = R - n
    BY DEF Delta, NewCols, NewRows
  <2> QED BY <2>1, <1>1 DEF NewWidth
<1>3. /\ \A y : Origin(op, v, y) = IF y < w * a THEN y ELSE y + w * n
      /\ M = w * (R - n) + Heap
  BY <1>2 DEF Origin, NewSize
<1>4. Goal(op, t) = [t EXCEPT !.rows = SubSeq(@, 1, a) \o SubSeq(@, a + n + 1, Len(@))]
  BY DEF Goal
<1> HIDE DEF w, R, n, a
<1>5. /\ A \in Nat /\ N \in Nat /\ E \in Nat /\ w * (R - n) = E - N /\ A + N <= E
  BY <1>1, RowProducts
<1>6. /\ \A y : Origin(op, v, y) = IF y < A THEN y ELSE y + N
      /\ M = (E - N) + Heap /\ M \in Nat
  BY <1>1, <1>3, <1>5
<1>7. ASSUME NEW r \in 0 .. (R - n) - 1
      PROVE  RowOf(d, C, w, r) = IF r < a THEN RowOf(e, C, w, r) ELSE RowOf(e, C, w, r + n)
  <2> DEFINE x == r * w
  <2>1. r \in Nat /\ r + n < R
    BY <1>1
  <2>2. /\ x \in Nat
        /\ r < a => x + w <= A
        /\ a <= r => A <= x
        /\ (r + n) * w \in Nat /\ (r + n) * w = x + N
        /\ (r + n) * w + w <= E
    <3>1. r + n \in Nat
      BY <2>1, <1>1
    <3> QED BY <3>1, <1>1, <1>5, <2>1, RowBounds
  <2>3. x + w <= M
    <3> DEFINE p == (r + n) * w
    <3>1. p = x + N /\ p + w <= E
      BY <2>2
    <3> HIDE DEF p, x, E, N, M
    <3> QED BY <3>1, <2>2, <1>1, <1>5, <1>6
  <2>4. CASE r < a
    <3>1. Comes(op, v, x, x, w)
      <4> HIDE DEF x, A, N
      <4> QED BY <2>2, <2>4, <1>1, <1>5, <1>6 DEF Comes
    <3>2. RowOf(d, C, w, r) = RowOf(e, C, w, r)
      BY <2>2, <2>3, <3>1, RowFrom DEF w
    <3> QED BY <3>2, <2>4
  <2>5. CASE a <= r
    <3> DEFINE q == r + n z == q * w
    <3>1. z \in Nat /\ z = x + N
      BY <2>2
    <3> HIDE DEF q
    <3>2. Comes(op, v, x, z, w)
      <4> HIDE DEF x, A, N, z
      <4> QED BY <2>2, <2>5, <3>1, <1>1, <1>5, <1>6 DEF Comes
    <3>3. RowOf(d, C, w, r) = RowOf(e, C, w, q)
      BY <2>2, <2>3, <3>1, <3>2, RowFrom DEF w
    <3> QED BY <3>3, <2>5, <2>1, <1>1 DEF q
  <2> QED BY <2>1, <2>4, <2>5, <1>1
<1>8. /\ T \in Seq(S) /\ Len(T) = R /\ \A j \in 1 .. R : T[j] = RowOf(e, C, w, j - 1)
  <2> HIDE DEF S
  <2>1. AllRows(e, C, w, R) \subseteq S
    BY DEF S
  <2> QED BY <2>1, <1>1, RowsAre
<1> HIDE DEF S, T
<1>9. Cut(T, a, n) = Without(T, a, n)
  <2>1. a + n <= Len(T)
    BY <1>1, <1>8
  <2> QED BY <2>1, <1>1, <1>8, CutIs
<1>10. [j \in 1 .. R - n |-> IF j <= a THEN T[j] ELSE T[j + n]] = Rows(d, C, w, R - n)
  <2>1. ASSUME NEW j \in 1 .. R - n
        PROVE  RowOf(d, C, w, j - 1) = IF j <= a THEN T[j] ELSE T[j + n]
    <3>1. j - 1 \in 0 .. (R - n) - 1 /\ j \in Nat
      BY <1>1
    <3>2. j <= a => j - 1 < a /\ j \in 1 .. R
      BY <3>1, <1>1
    <3>3. ~(j <= a) => ~(j - 1 < a)
      BY <3>1, <1>1
    <3>4. j + n \in 1 .. R /\ (j + n) - 1 = (j - 1) + n
      BY <3>1, <1>1
    <3> QED BY <3>1, <3>2, <3>3, <3>4, <1>7, <1>8
  <2> QED BY <2>1 DEF Rows
<1>11. Slice(d, w * (R - n), Heap) = Slice(e, w * R, Heap)
  <2> DEFINE F == w * (R - n)
  <2>1. F = E - N
    BY <1>5
  <2> HIDE DEF F, E, N, A, M
  <2>2. F \in Nat /\ F + Heap <= M /\ Comes(op, v, F, E, Heap)
    BY <2>1, <1>1, <1>5, <1>6 DEF Comes
  <2>3. Slice(d, F, Heap) = Slice(e, E, Heap)
    BY <2>2, <1>1, <1>5, SliceFrom DEF M
  <2> QED BY <2>3 DEF F, E
<1>12. t.cols = C /\ t.rows = T /\ t.heap = Slice(e, w * R, Heap)
       /\ t = [cols |-> C, rows |-> T, heap |-> Slice(e, w * R, Heap)]
  BY DEF TableAs, T
<1> HIDE DEF t
<1>13. Goal(op, t) = [cols |-> C, rows |-> Rows(d, C, w, R - n), heap |-> Slice(d, w * (R - n), Heap)]
  <2> DEFINE X == SubSeq(t.rows, 1, a) \o SubSeq(t.rows, a + n + 1, Len(t.rows))
  <2>1. X = Rows(d, C, w, R - n)
    <3>1. X = Cut(T, a, n)
      BY <1>12 DEF Cut
    <3> QED BY <3>1, <1>8, <1>9, <1>10 DEF Without
  <2>2. Goal(op, t) = [t EXCEPT !.rows = X]
    BY <1>4
  <2> HIDE DEF X
  <2>3. Goal(op, t) = [cols |-> C, rows |-> X, heap |-> Slice(e, w * R, Heap)]
    BY <2>2, <1>12
  <2> QED BY <2>1, <2>3, <1>11
<1>14. Goal(op, t) = TableAs(d, C, w, R - n)
  BY <1>13 DEF TableAs
<1>15. TableAs(d, NewCols(op, v), NewWidth(op, v), NewRows(op, v)) = Goal(op, t)
  BY <1>2, <1>14
<1> QED BY <1>15 DEF Becomes, t, w, R

\* copyRows.
LEMMA CopyRowsMakes ==
    ASSUME NEW op, op.op = "copyRows", NEW v, ViewOK(v), OpOK(op, v), NEW e, NEW d, Made(op, v, e, d)
    PROVE  Becomes(op, v, e, d)
<1> DEFINE w == v.naxis1 R == v.naxis2 n == op.n a == op.at f == op.from C == v.cols
           T == Rows(e, C, w, R) A == w * a N == w * n E == w * R B == w * f M == NewSize(op, v)
           S == AllRows(e, C, w, R)
           t == TableAs(e, C, w, R)
<1>1. /\ w \in Nat /\ R \in Nat /\ n \in Nat /\ a \in Nat /\ f \in Nat /\ Heap \in Nat
      /\ a + n <= R /\ f + n <= R
  BY ViewSizes DEF OpOK
<1>2. NewCols(op, v) = C /\ NewRows(op, v) = R /\ NewWidth(op, v) = w
  <2>1. Delta(op, v) = 0 /\ NewCols(op, v) = C /\ NewRows(op, v) = R
    BY DEF Delta, NewCols, NewRows
  <2> QED BY <2>1, <1>1 DEF NewWidth
<1>3. /\ \A y : Origin(op, v, y) = IF w * a <= y /\ y < w * (a + n) THEN y - w * a + w * f ELSE y
      /\ M = w * R + Heap
  BY <1>2 DEF Origin, NewSize
<1>4. Goal(op, t) = [t EXCEPT !.rows = [r \in DOMAIN @ |->
          IF r - 1 \in a .. a + n - 1 THEN @[r - a + f] ELSE @[r]]]
  BY DEF Goal
<1> HIDE DEF w, R, n, a, f
<1>5. /\ A \in Nat /\ N \in Nat /\ E \in Nat /\ B \in Nat /\ w * (a + n) = A + N /\ A + N <= E
  BY <1>1, RowProducts
<1>6. /\ \A y : Origin(op, v, y) = IF A <= y /\ y < A + N THEN (y - A) + B ELSE y
      /\ M = E + Heap /\ M \in Nat
  BY <1>1, <1>3, <1>5
<1>7. ASSUME NEW r \in 0 .. R - 1
      PROVE  RowOf(d, C, w, r) = IF a <= r /\ r < a + n THEN RowOf(e, C, w, (r - a) + f)
                                 ELSE RowOf(e, C, w, r)
  <2> DEFINE x == r * w
  <2>1. r \in Nat /\ r < R
    BY <1>1
  <2>2. /\ x \in Nat /\ x + w <= E
        /\ r < a => x + w <= A
        /\ a <= r => A <= x /\ (r - a) * w \in Nat /\ (r - a) * w = x - A
        /\ r < a + n => x + w <= A + N
        /\ a + n <= r => A + N <= x
    BY <1>1, <1>5, <2>1, RowBounds
  <2>3. x + w <= M
    <3> HIDE DEF x, E, M
    <3> QED BY <2>2, <1>1, <1>5, <1>6
  <2>4. CASE r < a \/ a + n <= r
    <3>1. Comes(op, v, x, x, w)
      <4> HIDE DEF x, A, N, B
      <4> QED BY <2>2, <2>4, <1>1, <1>5, <1>6 DEF Comes
    <3>2. RowOf(d, C, w, r) = RowOf(e, C, w, r)
      BY <2>2, <2>3, <3>1, RowFrom DEF w
    <3> QED BY <3>2, <2>4, <2>1, <1>1
  <2>5. CASE a <= r /\ r < a + n
    <3> DEFINE p == r - a q == p + f z == q * w
    <3>1. p \in Nat /\ p * w = x - A
      BY <2>1, <2>2, <2>5, <1>1
    <3> HIDE DEF p
    <3>2. z \in Nat /\ z = p * w + B
      BY <3>1, <1>1, RowBounds
    <3>3. z \in Nat /\ z = (x - A) + B
      BY <3>1, <3>2
    <3> HIDE DEF q
    <3>4. Comes(op, v, x, z, w)
      <4> HIDE DEF x, A, N, B, z
      <4> QED BY <2>2, <2>5, <3>3, <1>1, <1>5, <1>6 DEF Comes
    <3>5. RowOf(d, C, w, r) = RowOf(e, C, w, q)
      BY <2>2, <2>3, <3>3, <3>4, RowFrom DEF w
    <3> QED BY <3>5, <2>5, <2>1, <1>1 DEF q, p
  <2> QED BY <2>1, <2>4, <2>5, <1>1
<1>8. /\ T \in Seq(S) /\ Len(T) = R /\ \A j \in 1 .. R : T[j] = RowOf(e, C, w, j - 1)
      /\ DOMAIN T = 1 .. R
  <2> HIDE DEF S
  <2>1. AllRows(e, C, w, R) \subseteq S
    BY DEF S
  <2> QED BY <2>1, <1>1, RowsAre
<1> HIDE DEF S, T
<1>9. [r \in DOMAIN T |-> IF r - 1 \in a .. a + n - 1 THEN T[r - a + f] ELSE T[r]] = Rows(d, C, w, R)
  <2>1. ASSUME NEW j \in 1 .. R
        PROVE  RowOf(d, C, w, j - 1) = IF j - 1 \in a .. a + n - 1 THEN T[j - a + f] ELSE T[j]
    <3>1. j - 1 \in 0 .. R - 1 /\ j \in Nat
      BY <1>1
    <3>2. j - 1 \in a .. a + n - 1 <=> a <= j - 1 /\ j - 1 < a + n
      BY <3>1, <1>1
    <3>3. a <= j - 1 /\ j - 1 < a + n =>
            j - a + f \in 1 .. R /\ (j - a + f) - 1 = ((j - 1) - a) + f
      BY <3>1, <1>1
    <3> QED BY <3>1, <3>2, <3>3, <1>7, <1>8
  <2> QED BY <2>1, <1>8 DEF Rows
<1>10. Slice(d, w * R, Heap) = Slice(e, w * R, Heap)
  <2>1. E + Heap <= M /\ Comes(op, v, E, E, Heap)
    <3> HIDE DEF E, N, A, M, B
    <3> QED BY <1>1, <1>5, <1>6 DEF Comes
  <2> HIDE DEF E
  <2>2. Slice(d, E, Heap) = Slice(e, E, Heap)
    BY <2>1, <1>1, <1>5, SliceFrom DEF M
  <2> QED BY <2>2 DEF E
<1>11. t.cols = C /\ t.rows = T /\ t.heap = Slice(e, w * R, Heap)
       /\ t = [cols |-> C, rows |-> T, heap |-> Slice(e, w * R, Heap)]
  BY DEF TableAs, T
<1> HIDE DEF t
<1>12. Goal(op, t) = [cols |-> C, rows |-> Rows(d, C, w, R), heap |-> Slice(d, w * R, Heap)]
  <2> DEFINE X == [r \in DOMAIN t.rows |->
                      IF r - 1 \in a .. a + n - 1 THEN t.rows[r - a + f] ELSE t.rows[r]]
  <2>1. X = Rows(d, C, w, R)
    BY <1>9, <1>11
  <2>2. Goal(op, t) = [t EXCEPT !.rows = X]
    BY <1>4
  <2> HIDE DEF X
  <2>3. Goal(op, t) = [cols |-> C, rows |-> X, heap |-> Slice(e, w * R, Heap)]
    BY <2>2, <1>11
  <2> QED BY <2>1, <2>3, <1>10
<1>13. Goal(op, t) = TableAs(d, C, w, R)
  BY <1>12 DEF TableAs
<1>14. TableAs(d, NewCols(op, v), NewWidth(op, v), NewRows(op, v)) = Goal(op, t)
  BY <1>2, <1>13
<1> QED BY <1>14 DEF Becomes, t, w, R

\* The j-th cell of the r-th of R rows of n cells, which had w = n - u before.
InRow(w, u, n, R, r, o, j) ==
    /\ w \in Nat /\ u \in Int /\ n \in Nat /\ n = w + u /\ R \in Nat
    /\ r \in 0 .. R - 1 /\ o \in Nat /\ j \in 0 .. n - 1
CellFrom(w, u, n, R, r, o, j) ==
    /\ r * n + j < n * R
    /\ RowOrigin(o, u, w, r * n + j) =
          IF j < o THEN r * w + j ELSE IF j < o + u THEN -1 ELSE (r * w + j) - u

\* Where a cell of a row with a column more or less comes from.
LEMMA ColumnCell ==
    ASSUME NEW w, NEW u, NEW n, NEW R, NEW r, NEW o, NEW j, InRow(w, u, n, R, r, o, j)
    PROVE  CellFrom(w, u, n, R, r, o, j)
<1>1. /\ w \in Nat /\ u \in Int /\ n \in Nat /\ n = w + u /\ R \in Nat
      /\ r \in 0 .. R - 1 /\ o \in Nat /\ j \in 0 .. n - 1
  BY DEF InRow
<1>2. n \in Nat \ {0} /\ r \in Nat /\ r < R /\ j \in Nat /\ j < n
  BY <1>1
<1>3. r * n \in Nat /\ r * w \in Nat /\ r * n + n <= n * R /\ n * R \in Nat
  BY <1>1, <1>2, RowBounds
<1>4. (r * n + j) \div n = r /\ (r * n + j) % n = j
  BY <1>1, <1>2, RowPlace
<1> DEFINE y == r * n + j x == r * w p == r * n E == n * R
<1>5. y < E
  <2>1. y = p + j
    OBVIOUS
  <2> HIDE DEF y, p, E
  <2> QED BY <2>1, <1>1, <1>2, <1>3 DEF p, E
<1>6. y \div n = r /\ y % n = j
  BY <1>4
<1> HIDE DEF y, x, p, E
<1>7. RowOrigin(o, u, w, y) = IF j < o THEN x + j ELSE IF j < o + u THEN -1 ELSE x + j - u
  <2> DEFINE q == y \div (w + u) k == y % (w + u)
  <2>1. q = r /\ k = j
    BY <1>1, <1>6
  <2>2. RowOrigin(o, u, w, y) = IF k < o THEN q * w + k ELSE IF k < o + u THEN -1 ELSE q * w + k - u
    BY DEF RowOrigin
  <2> HIDE DEF q, k
  <2> QED BY <2>1, <2>2 DEF x
<1>8. x + j - u = (x + j) - u
  <2>1. x \in Nat
    BY <1>3 DEF x
  <2> QED BY <1>1, <2>1
<1> QED BY <1>5, <1>7, <1>8 DEF CellFrom, x, y, E

\* The table with a column more or less.
LEMMA ColumnSizes ==
    ASSUME NEW op, op.op \in {"insertColumn", "deleteColumn"}, NEW v, ViewOK(v), OpOK(op, v)
    PROVE  /\ v.naxis1 \in Nat /\ v.naxis2 \in Nat /\ Heap \in Nat /\ Offset(v.cols, op.at) \in Nat
           /\ Delta(op, v) \in Int /\ NewWidth(op, v) = v.naxis1 + Delta(op, v)
           /\ NewWidth(op, v) \in Nat /\ NewRows(op, v) = v.naxis2
           /\ NewWidth(op, v) * v.naxis2 \in Nat /\ v.naxis1 * v.naxis2 \in Nat
           /\ NewWidth(op, v) * v.naxis2 = v.naxis1 * v.naxis2 + Delta(op, v) * v.naxis2
           /\ Delta(op, v) * v.naxis2 \in Int
           /\ NewSize(op, v) = NewWidth(op, v) * v.naxis2 + Heap
<1> DEFINE w == v.naxis1 R == v.naxis2 D == Delta(op, v)
<1>1. w \in Nat /\ R \in Nat /\ Heap \in Nat /\ v.cols \in Seq(Column) /\ Len(v.cols) \in Nat
  BY ViewSizes
<1>2. NewRows(op, v) = R /\ NewWidth(op, v) = w + D /\ NewWidth(op, v) \in Nat
  BY NewSizes DEF NewRows, NewWidth
<1>3. op.at \in 1 .. Len(v.cols) + 1
  BY <1>1 DEF OpOK
<1>4. Offset(v.cols, op.at) \in Nat
  BY <1>1, <1>3, OffsetSteps
<1>5. D \in Int /\ (w + D) * R = w * R + D * R /\ D * R \in Int /\ w * R \in Nat /\ (w + D) * R \in Nat
  <2>1. CASE op.op = "insertColumn"
    <3> DEFINE u == Width[op.col]
    <3>1. D = u /\ u \in Nat
      BY <2>1, BinTableAssumption DEF Delta, OpOK
    <3> HIDE DEF D, u, w, R
    <3>2. w * R \in Nat /\ u * R \in Nat /\ (w + u) * R = w * R + u * R
      BY <1>1, <3>1, WidthProducts
    <3> DEFINE x == w * R y == u * R z == (w + u) * R
    <3>3. x \in Nat /\ y \in Nat /\ z = x + y
      BY <3>2
    <3> HIDE DEF x, y, z
    <3>4. z \in Nat /\ y \in Int
      BY <3>3
    <3> QED BY <3>1, <3>2, <3>4 DEF y, z
  <2>2. CASE op.op = "deleteColumn"
    <3> DEFINE u == Width[v.cols[op.at]]
    <3>1. op.at \in 1 .. Len(v.cols)
      BY <2>2 DEF OpOK
    <3>2. D = 0 - u /\ u \in Nat /\ Offset(v.cols, op.at) + u <= w
      BY <2>2, <3>1, FieldsIn DEF Delta
    <3> DEFINE o == Offset(v.cols, op.at)
    <3> HIDE DEF D, u, w, R, o
    <3>3. u <= w
      BY <1>1, <1>4, <3>2 DEF o
    <3>4. /\ w * R \in Nat /\ u * R \in Nat /\ (w + (0 - u)) * R = w * R - u * R
          /\ (0 - u) * R = 0 - u * R /\ u * R <= w * R
      BY <1>1, <3>2, <3>3, WidthProducts
    <3> DEFINE x == w * R y == u * R z == (w + (0 - u)) * R q == (0 - u) * R
    <3>5. x \in Nat /\ y \in Nat /\ z = x - y /\ q = 0 - y /\ y <= x
      BY <3>4
    <3> HIDE DEF x, y, z, q
    <3>6. z \in Nat /\ q \in Int /\ z = x + q
      BY <3>5
    <3> QED BY <3>2, <3>4, <3>6 DEF z, q, x
  <2> QED BY <2>1, <2>2
<1>6. NewSize(op, v) = NewWidth(op, v) * R + Heap
  BY <1>2 DEF NewSize
<1> QED BY <1>1, <1>2, <1>4, <1>5, <1>6

\* A part of a row before or behind the column.
LEMMA ColumnPart ==
    ASSUME NEW op, op.op \in {"insertColumn", "deleteColumn"}, NEW v, ViewOK(v), OpOK(op, v),
           NEW e, NEW d, Made(op, v, e, d), NEW r \in 0 .. v.naxis2 - 1,
           NEW p \in Nat, NEW g \in Nat, NEW n \in Nat, p + n <= NewWidth(op, v),
           \/ p + n <= Offset(v.cols, op.at) /\ g = p
           \/ /\ Offset(v.cols, op.at) <= p /\ Offset(v.cols, op.at) + Delta(op, v) <= p
              /\ g = p - Delta(op, v)
    PROVE  Slice(d, r * NewWidth(op, v) + p, n) = Slice(e, r * v.naxis1 + g, n)
<1> DEFINE w == v.naxis1 R == v.naxis2 D == Delta(op, v) o == Offset(v.cols, op.at)
           N == NewWidth(op, v) M == NewSize(op, v) x == r * N z == r * w F == x + p G == z + g
           E == N * R
<1>1. /\ w \in Nat /\ R \in Nat /\ o \in Nat /\ D \in Int /\ N = w + D /\ N \in Nat /\ E \in Nat
      /\ M = E + Heap /\ Heap \in Nat
  BY ColumnSizes
<1>2. r \in Nat /\ r < R
  BY <1>1
<1>3. x \in Nat /\ z \in Nat /\ x + N <= E
  BY <1>1, <1>2, RowBounds
<1>4. ASSUME NEW k \in 0 .. n - 1 PROVE Origin(op, v, F + k) = G + k
  <2> DEFINE j == p + k y == x + j
  <2>1. j \in 0 .. N - 1 /\ F + k = y
    <3>1. p + n <= N /\ k \in 0 .. n - 1
      OBVIOUS
    <3> HIDE DEF x, N, w, R, E
    <3> QED BY <3>1, <1>1, <1>3
  <2>2. r \in 0 .. R - 1
    OBVIOUS
  <2> HIDE DEF j, w, R, D, o, N
  <2>3. CellFrom(w, D, N, R, r, o, j)
    BY <2>1, <2>2, <1>1, ColumnCell DEF InRow
  <2>4. y < E /\ RowOrigin(o, D, w, y) = IF j < o THEN z + j ELSE IF j < o + D THEN -1 ELSE (z + j) - D
    BY <2>3 DEF CellFrom
  <2>5. Origin(op, v, y) = RowOrigin(o, D, w, y)
    BY <2>4 DEF Origin, N, R, D, o, w
  <2>6. G + k = IF j < o THEN z + j ELSE IF j < o + D THEN -1 ELSE (z + j) - D
    <3>1. (p + n <= o /\ g = p) \/ (o <= p /\ o + D <= p /\ g = p - D)
      BY DEF o, D
    <3> HIDE DEF z
    <3> QED BY <3>1, <1>1, <1>3, <1>4 DEF j
  <2> QED BY <2>1, <2>4, <2>5, <2>6
<1>5. F \in Nat /\ G \in Nat /\ F + n <= M
  <2>1. p + n <= N
    OBVIOUS
  <2> HIDE DEF x, z, N, M, E
  <2> QED BY <2>1, <1>1, <1>3
<1> HIDE DEF F, G
<1>6. Comes(op, v, F, G, n)
  BY <1>4 DEF Comes
<1>7. Slice(d, F, n) = Slice(e, G, n)
  BY <1>5, <1>6, SliceFrom
<1> QED BY <1>7 DEF F, G

\* A new field.
LEMMA ColumnNew ==
    ASSUME NEW op, op.op \in {"insertColumn", "deleteColumn"}, NEW v, ViewOK(v), OpOK(op, v),
           NEW e, NEW d, Made(op, v, e, d), NEW r \in 0 .. v.naxis2 - 1,
           NEW p, p = Offset(v.cols, op.at), NEW n \in Nat, n = Delta(op, v), p + n <= NewWidth(op, v)
    PROVE  Slice(d, r * NewWidth(op, v) + p, n) = [k \in 0 .. n - 1 |-> Zero]
<1> DEFINE w == v.naxis1 R == v.naxis2
           N == NewWidth(op, v) M == NewSize(op, v) x == r * N z == r * w F == x + p
           E == N * R
<1>1. /\ w \in Nat /\ R \in Nat /\ p \in Nat /\ N = w + n /\ N \in Nat /\ E \in Nat
      /\ M = E + Heap /\ Heap \in Nat
  BY ColumnSizes
<1>2. r \in Nat /\ r < R
  BY <1>1
<1>3. x \in Nat /\ z \in Nat /\ x + N <= E
  BY <1>1, <1>2, RowBounds
<1>4. ASSUME NEW k \in 0 .. n - 1 PROVE Origin(op, v, F + k) = -1
  <2> DEFINE j == p + k y == x + j
  <2>1. j \in 0 .. N - 1 /\ F + k = y
    <3>1. p + n <= N /\ k \in 0 .. n - 1
      OBVIOUS
    <3> HIDE DEF x, N, w, R, E
    <3> QED BY <3>1, <1>1, <1>3
  <2>2. ~(j < p) /\ j < p + n
    BY <1>1
  <2>3. r \in 0 .. R - 1
    OBVIOUS
  <2> HIDE DEF j, w, R, N
  <2>4. CellFrom(w, n, N, R, r, p, j)
    BY <2>1, <2>3, <1>1, ColumnCell DEF InRow
  <2>5. y < E /\ RowOrigin(p, n, w, y) = IF j < p THEN z + j ELSE IF j < p + n THEN -1 ELSE (z + j) - n
    BY <2>4 DEF CellFrom
  <2>6. Origin(op, v, y) = RowOrigin(p, n, w, y)
    BY <2>5 DEF Origin, N, R, w
  <2> QED BY <2>1, <2>2, <2>5, <2>6
<1>5. F \in Nat /\ F + n <= M
  <2>1. p + n <= N
    OBVIOUS
  <2> HIDE DEF x, z, N, M, E
  <2> QED BY <2>1, <1>1, <1>3
<1> HIDE DEF F
<1>6. Starts(op, v, F, n)
  BY <1>4 DEF Starts
<1>7. Slice(d, F, n) = [k \in 0 .. n - 1 |-> Zero]
  BY <1>5, <1>6, SliceBlank
<1> QED BY <1>7 DEF F

\* The heap goes with the end of the rows.
LEMMA ColumnHeap ==
    ASSUME NEW op, op.op \in {"insertColumn", "deleteColumn"}, NEW v, ViewOK(v), OpOK(op, v),
           NEW e, NEW d, Made(op, v, e, d)
    PROVE  Slice(d, NewWidth(op, v) * NewRows(op, v), Heap) = Slice(e, v.naxis1 * v.naxis2, Heap)
<1> DEFINE F == NewWidth(op, v) * v.naxis2 E == v.naxis1 * v.naxis2 D == Delta(op, v) * v.naxis2
           M == NewSize(op, v)
<1>1. /\ F \in Nat /\ E \in Nat /\ D \in Int /\ F = E + D /\ M = F + Heap /\ Heap \in Nat
      /\ NewRows(op, v) = v.naxis2
  BY ColumnSizes
<1>2. \A y \in Nat : ~(y < F) => Origin(op, v, y) = y - D
  BY DEF Origin
<1> HIDE DEF F, E, D, M
<1>3. Comes(op, v, F, E, Heap) /\ F + Heap <= M
  BY <1>1, <1>2 DEF Comes
<1>4. Slice(d, F, Heap) = Slice(e, E, Heap)
  BY <1>1, <1>3, SliceFrom DEF M
<1> QED BY <1>1, <1>4 DEF F, E

\* A field of the table with a column more.
LEMMA FieldInserted ==
    ASSUME NEW op, op.op = "insertColumn", NEW v, ViewOK(v), OpOK(op, v), NEW e, NEW d,
           Made(op, v, e, d), NEW r \in 0 .. v.naxis2 - 1, NEW i \in 1 .. Len(v.cols) + 1
    PROVE  Field(d, NewCols(op, v), NewWidth(op, v), r, i) =
               IF i < op.at THEN Field(e, v.cols, v.naxis1, r, i)
               ELSE IF i = op.at THEN [k \in 0 .. Width[op.col] - 1 |-> Zero]
               ELSE Field(e, v.cols, v.naxis1, r, i - 1)
<1> DEFINE C == v.cols a == op.at c == op.col L == Len(C) D == NewCols(op, v) N == NewWidth(op, v)
           p == Offset(D, i) n == Width[D[i]]
<1>1. /\ C \in Seq(Column) /\ L \in Nat /\ a \in 1 .. L + 1 /\ c \in Column
      /\ Width[c] \in Nat /\ Delta(op, v) = Width[c] /\ D = InsertAt(C, a, c)
  BY ViewSizes, BinTableAssumption DEF OpOK, Delta, NewCols
<1>2. D \in Seq(Column) /\ Len(D) = L + 1 /\ N = RowWidth(D)
  BY <1>1, OffsetInsert, NewSizes
<1>3. p \in Nat /\ n \in Nat /\ p + n <= N
  <2> HIDE DEF D, N, L, C
  <2>1. i \in 1 .. Len(D)
    BY <1>2 DEF C, L
  <2> QED BY <2>1, <1>2, OffsetSteps, OffsetOrder
<1>4. op.op \in {"insertColumn", "deleteColumn"}
  OBVIOUS
<1>5. D[i] = IF i < a THEN C[i] ELSE IF i = a THEN c ELSE C[i - 1]
  <2> HIDE DEF C, a, c
  <2>1. /\ InsertAt(C, a, c) \in Seq(Column) /\ Len(InsertAt(C, a, c)) = L + 1
        /\ \A j \in 1 .. L + 1 :
             InsertAt(C, a, c)[j] = IF j < a THEN C[j] ELSE IF j = a THEN c ELSE C[j - 1]
    <3>1. C \in Seq(Column) /\ a \in 1 .. Len(C) + 1 /\ c \in Column
      BY <1>1
    <3> QED BY ONLY <3>1, InsertFacts
  <2>2. i \in 1 .. L + 1
    BY DEF C
  <2> HIDE DEF L, D
  <2> QED BY <2>1, <2>2, <1>1
<1>6. p = IF i <= a THEN Offset(C, i) ELSE Offset(C, i - 1) + Width[c]
  <2>1. i \in 1 .. L + 2
    BY <1>1
  <2> HIDE DEF C, a, c
  <2>2. \A j \in 1 .. L + 2 :
          Offset(InsertAt(C, a, c), j) =
              IF j <= a THEN Offset(C, j) ELSE Offset(C, j - 1) + Width[c]
    BY <1>1, OffsetInsert
  <2> HIDE DEF L, D
  <2> QED BY <2>1, <2>2, <1>1
<1>7. Field(d, D, N, r, i) = Slice(d, r * N + p, n)
  BY DEF Field
<1>8. CASE i < a
  <2>1. i \in 1 .. L /\ i <= a
    BY <1>8, <1>1
  <2>2. p = Offset(C, i) /\ n = Width[C[i]] /\ p + n <= Offset(C, a)
    <3>1. Offset(C, i) + Width[C[i]] <= Offset(C, a)
      BY <2>1, <1>1, <1>8, OffsetOrder
    <3> QED BY <3>1, <2>1, <1>5, <1>6, <1>8
  <2> HIDE DEF p, n
  <2>3. Slice(d, r * NewWidth(op, v) + p, n) = Slice(e, r * v.naxis1 + p, n)
    BY <2>2, <1>3, <1>4, ColumnPart
  <2> QED BY <2>2, <2>3, <1>7, <1>8 DEF Field
<1>9. CASE i = a
  <2>1. p = Offset(C, a) /\ n = Delta(op, v)
    BY <1>1, <1>5, <1>6, <1>9
  <2> HIDE DEF p, n
  <2>2. Slice(d, r * NewWidth(op, v) + p, n) = [k \in 0 .. n - 1 |-> Zero]
    BY <2>1, <1>3, <1>4, ColumnNew
  <2> QED BY <2>1, <2>2, <1>1, <1>7, <1>9
<1>10. CASE i > a
  <2> DEFINE g == Offset(C, i - 1)
  <2>1. i - 1 \in 1 .. L /\ ~(i <= a) /\ ~(i < a) /\ i # a /\ a <= i - 1
    BY <1>10, <1>1
  <2>2. p = g + Width[c] /\ n = Width[C[i - 1]]
    <3>1. p = g + Width[c]
      BY <2>1, <1>6
    <3>2. n = Width[C[i - 1]]
      BY <2>1, <1>5
    <3> QED BY ONLY <3>1, <3>2
  <2>3. g \in Nat /\ Offset(C, a) \in Nat /\ Offset(C, a) <= g
    <3> HIDE DEF C, a, L, D, N, p, n
    <3>1. /\ C \in Seq(Column) /\ L = Len(C) /\ L \in Nat /\ a \in 1 .. L + 1
          /\ i - 1 \in 1 .. L /\ a <= i - 1
      BY <1>1, <2>1 DEF L
    <3>2. a \in 1 .. Len(C) + 1 /\ i - 1 \in 1 .. Len(C) + 1 /\ a \in 1 .. Len(C)
      BY ONLY <3>1
    <3> HIDE DEF g
    <3>3. Offset(C, a) \in Nat /\ Offset(C, i - 1) \in Nat
      BY <3>1, <3>2, OffsetSteps
    <3>4. Offset(C, a) <= Offset(C, i - 1)
      BY <3>1, <3>2, OffsetOrder
    <3> QED BY ONLY <3>3, <3>4 DEF g
  <2> HIDE DEF p, n, g
  <2> DEFINE o == Offset(C, a) w == Delta(op, v)
  <2>4. p = g + w /\ w \in Nat /\ g \in Nat /\ o \in Nat /\ o <= g
    BY <2>2, <2>3, <1>1, <1>3
  <2> HIDE DEF o, w
  <2>7. o <= p /\ o + w <= p /\ g = p - w
    BY ONLY <2>4
  <2>8. /\ Offset(C, a) <= p /\ Offset(C, a) + Delta(op, v) <= p /\ g = p - Delta(op, v)
    BY ONLY <2>7 DEF o, w
  <2>5. Slice(d, r * NewWidth(op, v) + p, n) = Slice(e, r * v.naxis1 + g, n)
    BY <2>3, <2>8, <1>3, <1>4, ColumnPart
  <2>6. Field(e, C, v.naxis1, r, i - 1) = Slice(e, r * v.naxis1 + g, n)
    BY <2>2 DEF Field, g
  <2> QED BY <2>1, <2>5, <2>6, <1>7
<1> QED BY <1>1, <1>8, <1>9, <1>10

\* A field of the table with a column less.
LEMMA FieldRemoved ==
    ASSUME NEW op, op.op = "deleteColumn", NEW v, ViewOK(v), OpOK(op, v), NEW e, NEW d,
           Made(op, v, e, d), NEW r \in 0 .. v.naxis2 - 1, NEW i \in 1 .. Len(v.cols) - 1
    PROVE  Field(d, NewCols(op, v), NewWidth(op, v), r, i) =
               IF i < op.at THEN Field(e, v.cols, v.naxis1, r, i)
               ELSE Field(e, v.cols, v.naxis1, r, i + 1)
<1> DEFINE C == v.cols a == op.at L == Len(C) D == NewCols(op, v) N == NewWidth(op, v)
           p == Offset(D, i) n == Width[D[i]] u == Width[C[a]]
<1>1. /\ C \in Seq(Column) /\ L \in Nat /\ a \in 1 .. L
      /\ Delta(op, v) = 0 - u /\ D = RemoveAt(C, a)
  BY ViewSizes, BinTableAssumption DEF OpOK, Delta, NewCols
<1>2. D \in Seq(Column) /\ Len(D) = L - 1 /\ N = RowWidth(D)
  BY <1>1, OffsetRemove, NewSizes
<1>3. p \in Nat /\ n \in Nat /\ p + n <= N
  <2> HIDE DEF D, N, L, C
  <2>1. i \in 1 .. Len(D)
    BY <1>2 DEF C, L
  <2> QED BY <2>1, <1>2, OffsetSteps, OffsetOrder
<1>4. op.op \in {"insertColumn", "deleteColumn"}
  OBVIOUS
<1>5. D[i] = IF i < a THEN C[i] ELSE C[i + 1]
  <2> HIDE DEF C, a
  <2>1. \A j \in 1 .. L - 1 : RemoveAt(C, a)[j] = IF j < a THEN C[j] ELSE C[j + 1]
    BY <1>1, RemoveFacts
  <2>2. i \in 1 .. L - 1
    BY DEF C
  <2> HIDE DEF L, D
  <2> QED BY <2>1, <2>2, <1>1
<1>6. p = IF i <= a THEN Offset(C, i) ELSE Offset(C, i + 1) - u
  <2>1. i \in 1 .. L
    BY <1>1
  <2> QED BY <2>1, <1>1, OffsetRemove
<1>7. Field(d, D, N, r, i) = Slice(d, r * N + p, n)
  BY DEF Field
<1>8. CASE i < a
  <2>1. i \in 1 .. L /\ i <= a
    BY <1>8, <1>1
  <2>2. p = Offset(C, i) /\ n = Width[C[i]] /\ p + n <= Offset(C, a)
    <3>1. Offset(C, i) + Width[C[i]] <= Offset(C, a)
      BY <2>1, <1>1, <1>8, OffsetOrder
    <3> QED BY <3>1, <2>1, <1>5, <1>6, <1>8
  <2> HIDE DEF p, n
  <2>3. Slice(d, r * NewWidth(op, v) + p, n) = Slice(e, r * v.naxis1 + p, n)
    BY <2>2, <1>3, <1>4, ColumnPart
  <2> QED BY <2>2, <2>3, <1>7, <1>8 DEF Field
<1>9. CASE ~(i < a)
  <2> DEFINE g == Offset(C, i + 1) o == Offset(C, a)
  <2>1. i \in 1 .. L /\ i + 1 \in 1 .. L /\ a + 1 \in 1 .. L + 1 /\ a + 1 <= i + 1
    BY <1>9, <1>1
  <2>2. /\ o \in Nat /\ u \in Nat /\ g \in Nat /\ Offset(C, a + 1) = o + u
        /\ Offset(C, a + 1) <= g
    <3> HIDE DEF C, a
    <3>1. i + 1 \in 1 .. L + 1 /\ a \in 1 .. L + 1
      BY <2>1, <1>1
    <3>2. o \in Nat /\ g \in Nat /\ u \in Nat /\ Offset(C, a + 1) = o + u
      BY <3>1, <1>1, OffsetSteps
    <3>3. \A k, l \in 1 .. L + 1 : k <= l => Offset(C, k) <= Offset(C, l)
      BY <1>1, OffsetOrder
    <3> QED BY <3>1, <3>2, <3>3, <2>1
  <2>3. p = g - u
    <3>1. CASE i = a
      <4>1. p = o /\ g = o + u
        BY <3>1, <1>1, <1>6, <2>2
      <4> HIDE DEF p, g, o, u
      <4> QED BY <4>1, <2>2
    <3>2. CASE i # a
      <4>1. ~(i <= a)
        BY <3>2, <1>9, <1>1
      <4> QED BY <4>1, <1>6
    <3> QED BY <3>1, <3>2
  <2>4. n = Width[C[i + 1]]
    BY <1>5, <1>9
  <2> HIDE DEF p, n, g, o, u
  <2>5. o <= p /\ o + Delta(op, v) <= p /\ g = p - Delta(op, v)
    BY <2>2, <2>3, <1>1, <1>3
  <2>6. Slice(d, r * NewWidth(op, v) + p, n) = Slice(e, r * v.naxis1 + g, n)
    BY <2>2, <2>5, <1>3, <1>4, ColumnPart DEF o
  <2>7. Field(e, C, v.naxis1, r, i + 1) = Slice(e, r * v.naxis1 + g, n)
    BY <2>4 DEF Field, g
  <2> QED BY <2>6, <2>7, <1>7, <1>9
<1> QED BY <1>8, <1>9

\* A row of the table with a column more.
LEMMA RowInserted ==
    ASSUME NEW op, op.op = "insertColumn", NEW v, ViewOK(v), OpOK(op, v), NEW e, NEW d,
           Made(op, v, e, d), NEW r \in 0 .. v.naxis2 - 1
    PROVE  RowOf(d, NewCols(op, v), NewWidth(op, v), r) =
               InsertAt(RowOf(e, v.cols, v.naxis1, r), op.at, [k \in 0 .. Width[op.col] - 1 |-> Zero])
<1> DEFINE C == v.cols a == op.at L == Len(C) D == NewCols(op, v) N == NewWidth(op, v)
           b == [k \in 0 .. Width[op.col] - 1 |-> Zero] F(i) == Field(e, C, v.naxis1, r, i)
           s == RowOf(e, C, v.naxis1, r) S == {F(i) : i \in 1 .. L} \cup {b}
           t == InsertAt(s, a, b) G(i) == Field(d, D, N, r, i)
<1>1. L \in Nat /\ a \in 1 .. L + 1 /\ Len(D) = L + 1
  <2>1. C \in Seq(Column) /\ L \in Nat /\ a \in 1 .. L + 1 /\ op.col \in Column /\ D = InsertAt(C, a, op.col)
    BY ViewSizes DEF OpOK, NewCols
  <2> QED BY <2>1, OffsetInsert
<1>2. \A i \in 1 .. L + 1 : G(i) = IF i < a THEN F(i) ELSE IF i = a THEN b ELSE F(i - 1)
  BY FieldInserted
<1>3. RowOf(d, D, N, r) = [i \in 1 .. L + 1 |-> G(i)]
  BY <1>1 DEF RowOf
<1>4. s \in [1 .. L -> S] /\ \A i \in 1 .. L : s[i] = F(i)
  BY DEF RowOf
<1>5. b \in S
  OBVIOUS
<1> HIDE DEF S, s, b, F, G, L, D, N, a
<1>6. s \in Seq(S) /\ Len(s) = L
  BY <1>1, <1>4, FunctionIsSeq
<1>7. /\ t \in Seq(S) /\ Len(t) = Len(s) + 1
      /\ \A j \in 1 .. Len(s) + 1 : t[j] = IF j < a THEN s[j] ELSE IF j = a THEN b ELSE s[j - 1]
  <2>1. s \in Seq(S) /\ a \in 1 .. Len(s) + 1 /\ b \in S
    BY <1>1, <1>5, <1>6
  <2> QED BY ONLY <2>1, InsertFacts
<1> HIDE DEF t
<1>8. t = [j \in 1 .. L + 1 |-> t[j]]
  BY <1>6, <1>7, SeqIs
<1>9. \A j \in 1 .. L + 1 : t[j] = G(j)
  <2> TAKE j \in 1 .. L + 1
  <2>1. t[j] = IF j < a THEN s[j] ELSE IF j = a THEN b ELSE s[j - 1]
    BY <1>6, <1>7
  <2>2. j < a => j \in 1 .. L
    BY <1>1
  <2>3. ~(j < a) /\ j # a => j - 1 \in 1 .. L
    BY <1>1
  <2> QED BY <2>1, <2>2, <2>3, <1>2, <1>4
<1>10. RowOf(d, D, N, r) = t
  BY <1>3, <1>8, <1>9
<1> QED BY <1>10 DEF D, N, t, s, a, b

\* A row of the table with a column less.
LEMMA RowRemoved ==
    ASSUME NEW op, op.op = "deleteColumn", NEW v, ViewOK(v), OpOK(op, v), NEW e, NEW d,
           Made(op, v, e, d), NEW r \in 0 .. v.naxis2 - 1
    PROVE  RowOf(d, NewCols(op, v), NewWidth(op, v), r) =
               RemoveAt(RowOf(e, v.cols, v.naxis1, r), op.at)
<1> DEFINE C == v.cols a == op.at L == Len(C) D == NewCols(op, v) N == NewWidth(op, v)
           F(i) == Field(e, C, v.naxis1, r, i)
           s == RowOf(e, C, v.naxis1, r) S == {F(i) : i \in 1 .. L}
           t == RemoveAt(s, a) G(i) == Field(d, D, N, r, i)
<1>1. L \in Nat /\ a \in 1 .. L /\ Len(D) = L - 1
  <2>1. C \in Seq(Column) /\ L \in Nat /\ a \in 1 .. L /\ D = RemoveAt(C, a)
    BY ViewSizes DEF OpOK, NewCols
  <2> QED BY <2>1, OffsetRemove
<1>2. \A i \in 1 .. L - 1 : G(i) = IF i < a THEN F(i) ELSE F(i + 1)
  BY FieldRemoved
<1>3. RowOf(d, D, N, r) = [i \in 1 .. L - 1 |-> G(i)]
  BY <1>1 DEF RowOf
<1>4. s \in [1 .. L -> S] /\ \A i \in 1 .. L : s[i] = F(i)
  BY DEF RowOf
<1> HIDE DEF S, s, F, G, L, D, N, a
<1>5. s \in Seq(S) /\ Len(s) = L
  BY <1>1, <1>4, FunctionIsSeq
<1>6. /\ t \in Seq(S) /\ Len(t) = Len(s) - 1
      /\ \A j \in 1 .. Len(s) - 1 : t[j] = IF j < a THEN s[j] ELSE s[j + 1]
  <2>1. a \in 1 .. Len(s)
    BY <1>1, <1>5
  <2> QED BY ONLY <2>1, <1>5, RemoveFacts
<1> HIDE DEF t
<1>7. t = [j \in 1 .. L - 1 |-> t[j]]
  BY <1>5, <1>6, SeqIs
<1>8. \A j \in 1 .. L - 1 : t[j] = G(j)
  <2> TAKE j \in 1 .. L - 1
  <2>1. t[j] = IF j < a THEN s[j] ELSE s[j + 1]
    BY <1>5, <1>6
  <2>2. j \in 1 .. L /\ j + 1 \in 1 .. L
    BY <1>1
  <2> QED BY <2>1, <2>2, <1>2, <1>4
<1>9. RowOf(d, D, N, r) = t
  BY <1>3, <1>7, <1>8
<1> QED BY <1>9 DEF D, N, t, s, a

\* insertColumn.
LEMMA InsertColumnMakes ==
    ASSUME NEW op, op.op = "insertColumn", NEW v, ViewOK(v), OpOK(op, v), NEW e, NEW d, Made(op, v, e, d)
    PROVE  Becomes(op, v, e, d)
<1> DEFINE w == v.naxis1 R == v.naxis2 C == v.cols D == NewCols(op, v) N == NewWidth(op, v)
           b == [k \in 0 .. Width[op.col] - 1 |-> Zero]
           T == Rows(e, C, w, R) X == [r \in DOMAIN T |-> InsertAt(T[r], op.at, b)]
           t == TableAs(e, C, w, R) H == Slice(e, w * R, Heap)
<1>1. op.op \in {"insertColumn", "deleteColumn"}
  OBVIOUS
<1>2. R \in Nat /\ NewRows(op, v) = R /\ D = InsertAt(C, op.at, op.col)
  BY ViewSizes DEF NewRows, NewCols
<1>3. X = Rows(d, D, N, R)
  <2>1. DOMAIN T = 1 .. R /\ \A r \in 1 .. R : T[r] = RowOf(e, C, w, r - 1)
    BY DEF Rows
  <2>2. ASSUME NEW r \in 1 .. R PROVE RowOf(d, D, N, r - 1) = InsertAt(T[r], op.at, b)
    <3>1. r - 1 \in 0 .. v.naxis2 - 1
      BY <1>2
    <3> QED BY <3>1, <2>1, RowInserted
  <2> HIDE DEF T, b, D, N, R
  <2> QED BY <2>1, <2>2 DEF Rows
<1>4. Slice(d, N * NewRows(op, v), Heap) = H
  BY <1>1, ColumnHeap
<1>5. t.cols = C /\ t.rows = T /\ t = [cols |-> C, rows |-> T, heap |-> H]
  BY DEF TableAs
<1>6. Goal(op, t) = [cols |-> D, rows |-> X, heap |-> H]
  <2>1. Goal(op, t) = [t EXCEPT !.cols = InsertAt(@, op.at, op.col),
                                !.rows = [r \in DOMAIN @ |-> InsertAt(@[r], op.at, b)]]
    BY DEF Goal
  <2> HIDE DEF t, T, H, D, b, C
  <2>2. Goal(op, t) = [t EXCEPT !.cols = D, !.rows = X]
    BY <2>1, <1>2, <1>5
  <2> HIDE DEF X
  <2> DEFINE y == [t EXCEPT !.cols = D]
  <2>3. y = [cols |-> D, rows |-> T, heap |-> H]
    BY <1>5
  <2>4. Goal(op, t) = [y EXCEPT !.rows = X]
    BY <2>2
  <2> HIDE DEF y
  <2> QED BY <2>3, <2>4
<1>7. TableAs(d, D, N, NewRows(op, v)) = [cols |-> D, rows |-> X, heap |-> H]
  <2> HIDE DEF X, H, D, N, R
  <2> QED BY <1>2, <1>3, <1>4 DEF TableAs
<1> QED BY <1>6, <1>7 DEF Becomes

\* deleteColumn.
LEMMA DeleteColumnMakes ==
    ASSUME NEW op, op.op = "deleteColumn", NEW v, ViewOK(v), OpOK(op, v), NEW e, NEW d, Made(op, v, e, d)
    PROVE  Becomes(op, v, e, d)
<1> DEFINE w == v.naxis1 R == v.naxis2 C == v.cols D == NewCols(op, v) N == NewWidth(op, v)
           T == Rows(e, C, w, R) X == [r \in DOMAIN T |-> RemoveAt(T[r], op.at)]
           t == TableAs(e, C, w, R) H == Slice(e, w * R, Heap)
<1>1. op.op \in {"insertColumn", "deleteColumn"}
  OBVIOUS
<1>2. R \in Nat /\ NewRows(op, v) = R /\ D = RemoveAt(C, op.at)
  BY ViewSizes DEF NewRows, NewCols
<1>3. X = Rows(d, D, N, R)
  <2>1. DOMAIN T = 1 .. R /\ \A r \in 1 .. R : T[r] = RowOf(e, C, w, r - 1)
    BY DEF Rows
  <2>2. ASSUME NEW r \in 1 .. R PROVE RowOf(d, D, N, r - 1) = RemoveAt(T[r], op.at)
    <3>1. r - 1 \in 0 .. v.naxis2 - 1
      BY <1>2
    <3> QED BY <3>1, <2>1, RowRemoved
  <2> HIDE DEF T, D, N, R
  <2> QED BY <2>1, <2>2 DEF Rows
<1>4. Slice(d, N * NewRows(op, v), Heap) = H
  BY <1>1, ColumnHeap
<1>5. t.cols = C /\ t.rows = T /\ t = [cols |-> C, rows |-> T, heap |-> H]
  BY DEF TableAs
<1>6. Goal(op, t) = [cols |-> D, rows |-> X, heap |-> H]
  <2>1. Goal(op, t) = [t EXCEPT !.cols = RemoveAt(@, op.at),
                                !.rows = [r \in DOMAIN @ |-> RemoveAt(@[r], op.at)]]
    BY DEF Goal
  <2> HIDE DEF t, T, H, D, C
  <2>2. Goal(op, t) = [t EXCEPT !.cols = D, !.rows = X]
    BY <2>1, <1>2, <1>5
  <2> HIDE DEF X
  <2> DEFINE y == [t EXCEPT !.cols = D]
  <2>3. y = [cols |-> D, rows |-> T, heap |-> H]
    BY <1>5
  <2>4. Goal(op, t) = [y EXCEPT !.rows = X]
    BY <2>2
  <2> HIDE DEF y
  <2> QED BY <2>3, <2>4
<1>7. TableAs(d, D, N, NewRows(op, v)) = [cols |-> D, rows |-> X, heap |-> H]
  <2> HIDE DEF X, H, D, N, R
  <2> QED BY <1>2, <1>3, <1>4 DEF TableAs
<1> QED BY <1>6, <1>7 DEF Becomes

\* Where a cell of a row with a field copied comes from.
CopiedFrom(op, v, r, j) ==
    Origin(op, v, r * v.naxis1 + j) =
        IF Offset(v.cols, op.at) <= j /\ j < Offset(v.cols, op.at + 1)
        THEN (r * v.naxis1 + j) - Offset(v.cols, op.at) + Offset(v.cols, op.from)
        ELSE r * v.naxis1 + j

\* A cell of a row with a field copied.
LEMMA CopyCell ==
    ASSUME NEW op, op.op = "copyColumn", NEW v, ViewOK(v), OpOK(op, v),
           NEW r \in 0 .. v.naxis2 - 1, NEW j \in 0 .. v.naxis1 - 1
    PROVE  CopiedFrom(op, v, r, j)
<1> DEFINE w == v.naxis1 R == v.naxis2 x == r * w E == w * R y == x + j
           o == Offset(v.cols, op.at) p == Offset(v.cols, op.at + 1) q == Offset(v.cols, op.from)
<1>1. w \in Nat /\ R \in Nat
  BY ViewSizes
<1>2. r \in Nat /\ r < R /\ j \in Nat /\ j < w /\ w \in Nat \ {0}
  BY <1>1
<1>3. x \in Nat /\ E \in Nat /\ x + w <= E
  BY <1>1, <1>2, RowBounds
<1>4. y % w = j
  <2>1. j \in 0 .. w - 1
    OBVIOUS
  <2> HIDE DEF w
  <2> QED BY <1>2, <2>1, RowPlace
<1>5. o \in Nat /\ p \in Nat
  <2> DEFINE i == op.at C == v.cols u == Width[C[i]]
  <2>1. i \in 1 .. Len(v.cols)
    BY DEF OpOK
  <2> HIDE DEF i
  <2>2. Offset(C, i) \in Nat /\ u \in Nat /\ Offset(C, i + 1) = Offset(C, i) + u
    BY <2>1, FieldsIn
  <2> HIDE DEF u, C
  <2> QED BY <2>2 DEF C, i
<1>6. Origin(op, v, y) = IF y < E /\ y % w \in o .. p - 1 THEN y - o + q ELSE y
  BY DEF Origin
<1> HIDE DEF w, R, E, o, p, q
<1>7. y < E
  <2> HIDE DEF x
  <2> QED BY <1>2, <1>3
<1>8. y % w \in o .. p - 1 <=> o <= j /\ j < p
  <2> DEFINE z == y % w
  <2>1. z = j
    BY <1>4
  <2> HIDE DEF z
  <2> QED BY <2>1, <1>2, <1>5
<1> HIDE DEF x
<1>9. Origin(op, v, y) = IF o <= j /\ j < p THEN y - o + q ELSE y
  BY <1>6, <1>7, <1>8
<1> QED BY <1>9 DEF CopiedFrom, x, w, o, p, q

\* A field of the table with a field copied.
LEMMA FieldCopied ==
    ASSUME NEW op, op.op = "copyColumn", NEW v, ViewOK(v), OpOK(op, v), NEW e, NEW d,
           Made(op, v, e, d), NEW r \in 0 .. v.naxis2 - 1, NEW i \in 1 .. Len(v.cols)
    PROVE  Field(d, v.cols, v.naxis1, r, i) =
               Field(e, v.cols, v.naxis1, r, IF i = op.at THEN op.from ELSE i)
<1> DEFINE w == v.naxis1 R == v.naxis2 C == v.cols a == op.at f == op.from
           x == r * w E == w * R o == Offset(C, a) u == Width[C[a]] q == Offset(C, f)
           p == Offset(C, i) n == Width[C[i]] M == NewSize(op, v) F == x + p
<1>1. /\ C \in Seq(Column) /\ Len(C) \in Nat /\ w \in Nat /\ R \in Nat /\ Heap \in Nat
      /\ a \in 1 .. Len(C) /\ f \in 1 .. Len(C) /\ Width[C[f]] = u
  BY ViewSizes DEF OpOK
<1>2. /\ o \in Nat /\ u \in Nat /\ q \in Nat /\ p \in Nat /\ n \in Nat
      /\ p + n <= w /\ q + u <= w /\ Offset(C, a + 1) = o + u
  BY <1>1, FieldsIn
<1>3. M = E + Heap
  <2>1. Delta(op, v) = 0 /\ NewRows(op, v) = R
    BY DEF Delta, NewRows
  <2>2. NewWidth(op, v) = w
    BY <2>1, <1>1 DEF NewWidth
  <2> QED BY <2>1, <2>2 DEF NewSize
<1>4. r \in Nat /\ r < R
  BY <1>1
<1>5. x \in Nat /\ E \in Nat /\ x + w <= E
  BY <1>1, <1>4, RowBounds
<1>6. F \in Nat /\ F + n <= M /\ x + q \in Nat
  <2> HIDE DEF x, E, M, w, p, n, q
  <2> QED BY <1>1, <1>2, <1>3, <1>5
<1>7. ASSUME NEW k \in 0 .. n - 1
      PROVE  Origin(op, v, F + k) = IF i = a THEN (x + q) + k ELSE F + k
  <2> DEFINE j == p + k
  <2>1. k \in 0 .. n - 1
    OBVIOUS
  <2>2. j \in 0 .. w - 1 /\ j \in Nat
    <3> HIDE DEF w, p, n
    <3> QED BY <2>1, <1>1, <1>2
  <2>3. CopiedFrom(op, v, r, j)
    BY <2>2, CopyCell
  <2>4. F + k = x + j
    <3> HIDE DEF x, w, p, n
    <3> QED BY <2>1, <1>2, <1>5
  <2>5. Origin(op, v, x + j) = IF o <= j /\ j < o + u THEN (x + j) - o + q ELSE x + j
    BY <2>3, <1>2 DEF CopiedFrom
  <2>6. CASE i = a
    <3>1. p = o /\ n = u
      BY <2>6
    <3>2. o <= j /\ j < o + u /\ (x + j) - o + q = (x + q) + k
      <4> HIDE DEF x, p, n, o, u, q
      <4> QED BY <3>1, <2>1, <1>2, <1>5
    <3> QED BY <2>4, <2>5, <2>6, <3>2
  <2>7. CASE i # a
    <3>1. p + n <= o \/ o + u <= p
      <4>1. i < a \/ a < i
        BY <2>7, <1>1
      <4>2. i \in 1 .. Len(C) + 1 /\ a \in 1 .. Len(C) + 1
        BY <1>1
      <4> QED BY <4>1, <4>2, <1>1, OffsetOrder
    <3>2. ~(o <= j /\ j < o + u)
      <4> HIDE DEF p, n, o, u
      <4> QED BY <3>1, <2>1, <1>2
    <3> QED BY <2>4, <2>5, <2>7, <3>2
  <2> QED BY <2>6, <2>7
<1>8. CASE i = a
  <2> DEFINE G == x + q
  <2>1. Comes(op, v, F, G, n)
    BY <1>7, <1>8 DEF Comes
  <2>2. n = u
    BY <1>8
  <2>3. Field(d, C, w, r, i) = Slice(d, F, n) /\ Field(e, C, w, r, f) = Slice(e, G, n)
    BY <2>2, <1>1 DEF Field
  <2> HIDE DEF F, G, n, M
  <2>4. Slice(d, F, n) = Slice(e, G, n)
    BY <2>1, <1>2, <1>6, SliceFrom DEF M, G
  <2> QED BY <2>3, <2>4, <1>8
<1>9. CASE i # a
  <2>1. Comes(op, v, F, F, n)
    BY <1>7, <1>9 DEF Comes
  <2>2. Field(d, C, w, r, i) = Slice(d, F, n) /\ Field(e, C, w, r, i) = Slice(e, F, n)
    BY DEF Field
  <2> HIDE DEF F, n, M
  <2>3. Slice(d, F, n) = Slice(e, F, n)
    BY <2>1, <1>2, <1>6, SliceFrom DEF M
  <2> QED BY <2>2, <2>3, <1>9
<1> QED BY <1>8, <1>9

\* copyColumn.
LEMMA CopyColumnMakes ==
    ASSUME NEW op, op.op = "copyColumn", NEW v, ViewOK(v), OpOK(op, v), NEW e, NEW d, Made(op, v, e, d)
    PROVE  Becomes(op, v, e, d)
<1> DEFINE w == v.naxis1 R == v.naxis2 C == v.cols T == Rows(e, C, w, R) L == Len(C)
           X == [r \in DOMAIN T |-> [T[r] EXCEPT ![op.at] = T[r][op.from]]]
           t == TableAs(e, C, w, R) H == Slice(e, w * R, Heap) E == w * R M == NewSize(op, v)
<1>1. /\ R \in Nat /\ w \in Nat /\ E \in Nat /\ Heap \in Nat /\ L \in Nat
      /\ op.at \in 1 .. L /\ op.from \in 1 .. L
  BY ViewSizes DEF OpOK
<1>2. NewCols(op, v) = C /\ NewWidth(op, v) = w /\ NewRows(op, v) = R
  <2>1. Delta(op, v) = 0 /\ NewRows(op, v) = R /\ NewCols(op, v) = C
    BY DEF Delta, NewRows, NewCols
  <2> QED BY <2>1, <1>1 DEF NewWidth
<1>3. M = E + Heap
  BY <1>2 DEF NewSize
<1>4. X = Rows(d, C, w, R)
  <2>1. DOMAIN T = 1 .. R /\ \A r \in 1 .. R : T[r] = RowOf(e, C, w, r - 1)
    BY DEF Rows
  <2>2. ASSUME NEW r \in 1 .. R
        PROVE  RowOf(d, C, w, r - 1) = [T[r] EXCEPT ![op.at] = T[r][op.from]]
    <3> DEFINE s == r - 1
    <3>1. s \in 0 .. v.naxis2 - 1
      BY <1>1
    <3> HIDE DEF s
    <3>2. \A i \in 1 .. L : Field(d, C, w, s, i) = Field(e, C, w, s, IF i = op.at THEN op.from ELSE i)
      BY <3>1, FieldCopied
    <3>3. T[r] = [i \in 1 .. L |-> Field(e, C, w, s, i)]
      BY <2>1 DEF RowOf, s
    <3>4. RowOf(d, C, w, s) = [i \in 1 .. L |-> Field(d, C, w, s, i)]
      BY DEF RowOf
    <3> HIDE DEF C, L, w, T
    <3>5. RowOf(d, C, w, s) = [T[r] EXCEPT ![op.at] = T[r][op.from]]
      BY <3>2, <3>3, <3>4, <1>1
    <3> QED BY <3>5 DEF s
  <2> HIDE DEF T, C, R, w
  <2> QED BY <2>1, <2>2 DEF Rows
<1>5. Slice(d, E, Heap) = H
  <2>1. \A y \in Nat : ~(y < E) => Origin(op, v, y) = y
    BY DEF Origin
  <2> HIDE DEF E, M
  <2>2. Comes(op, v, E, E, Heap) /\ E + Heap <= M
    BY <1>1, <1>3, <2>1 DEF Comes
  <2>3. Slice(d, E, Heap) = Slice(e, E, Heap)
    BY <1>1, <2>2, SliceFrom DEF M
  <2> QED BY <2>3 DEF E
<1>6. t.cols = C /\ t.rows = T /\ t = [cols |-> C, rows |-> T, heap |-> H]
  BY DEF TableAs
<1>7. Goal(op, t) = [cols |-> C, rows |-> X, heap |-> H]
  <2>1. Goal(op, t) = [t EXCEPT !.rows =
                          [r \in DOMAIN @ |-> [t.rows[r] EXCEPT ![op.at] = t.rows[r][op.from]]]]
    BY DEF Goal
  <2> HIDE DEF t, T, H, C
  <2>2. Goal(op, t) = [t EXCEPT !.rows = X]
    BY <2>1, <1>6
  <2> HIDE DEF X
  <2> QED BY <2>2, <1>6
<1>8. TableAs(d, C, w, R) = [cols |-> C, rows |-> X, heap |-> H]
  <2> HIDE DEF X, H, C, w, R
  <2> QED BY <1>4, <1>5 DEF TableAs, E
<1>9. TableAs(d, NewCols(op, v), NewWidth(op, v), NewRows(op, v)) = TableAs(d, C, w, R)
  BY <1>2
<1> QED BY <1>7, <1>8, <1>9 DEF Becomes

\* Every edit.
LEMMA EditMakes ==
    ASSUME NEW op, op.op # "iterate", NEW v, ViewOK(v), OpOK(op, v), NEW e, NEW d, Made(op, v, e, d)
    PROVE  Becomes(op, v, e, d)
<1>1. op.op \in {"insertRows", "deleteRows", "copyRows", "insertColumn", "deleteColumn", "copyColumn"}
  BY DEF OpOK
<1>2. CASE op.op = "insertRows"
  BY <1>2, InsertRowsMakes
<1>3. CASE op.op = "deleteRows"
  BY <1>3, DeleteRowsMakes
<1>4. CASE op.op = "copyRows"
  BY <1>4, CopyRowsMakes
<1>5. CASE op.op = "insertColumn"
  BY <1>5, InsertColumnMakes
<1>6. CASE op.op = "deleteColumn"
  BY <1>6, DeleteColumnMakes
<1>7. CASE op.op = "copyColumn"
  BY <1>7, CopyColumnMakes
<1> QED BY <1>1, <1>2, <1>3, <1>4, <1>5, <1>6, <1>7

\* When the header on the device is the new one, and when the edit is about to return, no
\* step of it is left that changes the data unit.
LEMMA NothingLeft ==
    ASSUME TableInv, ~Idle, job.op.op # "iterate", disk # job.disk \/ Completed
    PROVE  /\ Len(job.todo) <= Closing(job.op) /\ (job.pc = "run" \/ ~Copies(job.op))
           /\ NewHeader(disk, job.op, job.view)
<1> DEFINE L == Len(job.todo)
<1>1. job.pc \in {"run", "failed"}
  BY UnderWay
<1>2. /\ HeaderOK(job.disk) /\ job.view = Viewed(job.disk) /\ EditInv /\ Listed(job.todo)
      /\ ViewOK(job.view)
  BY <1>1, CallFacts DEF JobOK
<1>3. HeaderStage(L, job.op, job)
  BY <1>2 DEF EditInv, Staged
<1>4. Completed => L = 0 /\ job.pc = "run"
  BY DEF Completed
<1>5. L \in Nat
  BY <1>2 DEF Listed
<1> HIDE DEF L
<1>6. CASE Copies(job.op)
  <2>1. disk = job.disk
    BY <1>3, <1>6 DEF HeaderStage
  <2>2. L = 0 /\ job.pc = "run"
    BY <2>1, <1>4
  <2>3. NewHeader(disk, job.op, job.view)
    <3> DEFINE h == job.disk v == job.view op == job.op
    <3>1. NewCols(op, v) = v.cols /\ NewRows(op, v) = v.naxis2 /\ Delta(op, v) = 0
      BY <1>6 DEF Copies, NewCols, NewRows, Delta
    <3>2. v.naxis1 \in Nat
      BY <1>2, ViewSizes
    <3>3. NewWidth(op, v) = v.naxis1
      BY <3>1, <3>2 DEF NewWidth
    <3>4. v.cols = ColsOf(h) /\ v.naxis1 = h.naxis1 /\ v.naxis2 = h.naxis2
      BY <1>2 DEF Viewed
    <3>5. h.fields = Len(ColsOf(h))
      BY <1>2, HeaderCols
    <3> QED BY <2>1, <3>1, <3>3, <3>4, <3>5, <1>2 DEF NewHeader
  <2> QED BY <2>2, <2>3, <1>6 DEF Closing, L
<1>7. CASE ~Copies(job.op)
  <2>1. IF L >= 2 THEN disk = job.disk ELSE NewHeader(disk, job.op, job.view)
    BY <1>3, <1>7 DEF HeaderStage
  <2>2. ~(L >= 2)
    BY <2>1, <1>4, <1>5
  <2>3. L <= 3
    BY <2>2, <1>5
  <2> QED BY <2>1, <2>2, <2>3, <1>7 DEF Closing, L
<1> QED BY <1>6, <1>7

\* What the edit has made of the table.
LEMMA EditDescribes ==
    ASSUME TableInv
    PROVE  Described
<1> SUFFICES ASSUME ~Idle, job.op.op # "iterate", disk # job.disk \/ Completed
             PROVE  Parses(disk) /\ TableOf(disk, data) = Goal(job.op, TableOf(job.disk, job.data))
  BY DEF Described
<1> DEFINE v == job.view op == job.op
<1>1. job.pc \in {"run", "failed"}
  BY UnderWay
<1>2. /\ HeaderOK(job.disk) /\ v = Viewed(job.disk) /\ EditInv /\ ViewOK(v) /\ OpOK(op, v)
      /\ NewSize(op, v) \in Nat
  BY <1>1, CallFacts DEF JobOK
<1>3. /\ Len(job.todo) <= Closing(op) /\ (job.pc = "run" \/ ~Copies(op))
      /\ NewHeader(disk, op, v)
  BY NothingLeft
<1>4. Made(op, v, job.data, data)
  BY <1>2, <1>3 DEF EditInv, Arrived, Made
<1>5. Becomes(op, v, job.data, data)
  BY <1>2, <1>4, EditMakes
<1>6. Parses(disk) /\ TableOf(disk, data) = TableAs(data, NewCols(op, v), NewWidth(op, v), NewRows(op, v))
  <2>1. /\ HeaderOK(disk) /\ ColsOf(disk) = NewCols(op, v)
        /\ disk.naxis1 = NewWidth(op, v) /\ disk.naxis2 = NewRows(op, v)
    BY <1>3 DEF NewHeader
  <2> QED BY <2>1, TableIs, HeaderCols
<1>7. TableOf(job.disk, job.data) = TableAs(job.data, v.cols, v.naxis1, v.naxis2)
  <2>1. v.cols = ColsOf(job.disk) /\ v.naxis1 = job.disk.naxis1 /\ v.naxis2 = job.disk.naxis2
    BY <1>2 DEF Viewed
  <2> QED BY <2>1, <1>2, TableIs
<1> QED BY <1>5, <1>6, <1>7 DEF Becomes

\* When an edit returns, and already when the new header is on the device, the device holds
\* exactly the table that the edit is to make of the one before (binary.zig:431-604).
THEOREM DescribedAlways == Spec => []Described
<1>1. TableInv => Described
  BY EditDescribes
<1> QED BY <1>1, TableInvariant, PTL
=============================================================================
