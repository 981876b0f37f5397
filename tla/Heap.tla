--------------------------------- MODULE Heap --------------------------------
(***************************************************************************)
(* The heap of a binary table (src/table/heap.zig): the descriptors of the  *)
(* variable-length cells, the payloads they point to, and the HeapManager   *)
(* that gives out the space: writeVlaCell and freeVlaCell, writeVlaColumn,  *)
(* compact and initForTable.                                                *)
(*                                                                          *)
(* A call is a job that goes on step by step, one loop turn or device call  *)
(* at a time, so that it can fail, or the program stop, after any of them.  *)
(* An element is one byte.  Freeing a cell is writing no elements to it:    *)
(* freeVlaCell and writeVlaCell do the same then.  What a call refuses      *)
(* before it has changed anything (a bad row, a limit, a descriptor it      *)
(* cannot read) is no step.                                                 *)
(***************************************************************************)
EXTENDS Integers, Sequences, FiniteSets, SequencesExt

CONSTANTS
    Row,            \* the cells of the column: 1 .. n
    Cap,            \* bytes of the heap (PCOUNT - gap)
    MaxOff,         \* the greatest offset a descriptor holds (2^31 - 1 for P)
    MaxLen,         \* the greatest number of elements of a cell (max_vla_elems)
    InitDescs,      \* the descriptors the file may hold
    Ranges,         \* the ranges of rows a column write is called for
    MaxCalls,       \* bound: calls made
    MaxFaults       \* bound: device calls, allocations and conversions that fail

ASSUME HeapAssumption ==
    /\ Row \subseteq Nat /\ IsFiniteSet(Row) /\ Cap \in Nat /\ MaxOff \in Nat /\ MaxLen \in Nat
    /\ Ranges \subseteq SUBSET Row /\ MaxCalls \in Nat /\ MaxFaults \in Nat
    /\ InitDescs \subseteq [Row -> [len : Int, off : Int]]

VARIABLES
    heap,       \* the bytes of the heap, each with the write that put it there
    desc,       \* the descriptors in the rows
    mgr,        \* the HeapManager: top and the list of free extents
    seeded,     \* the manager comes from initForTable
    job,        \* the call under way
    calls, faults,
    should,     \* history: what the last successful write put into each cell
    stale       \* history: cells whose descriptor a failed call left behind

vars == <<heap, desc, mgr, seeded, job, calls, faults, should, stale>>

-----------------------------------------------------------------------------
(* Descriptors and extents.                                                 *)

End(e) == e.off + e.len
Bytes(e) == e.off .. End(e) - 1
Overlap(e, f) == e.off < End(f) /\ f.off < End(e)

\* descriptorExtent: a descriptor that is no extent of the heap is not trusted.
InHeap(d) == d.len > 0 /\ d.off >= 0 /\ End(d) <= Cap
Extents(rows) == {desc[r] : r \in {s \in rows : InHeap(desc[s])}}
Disjoint(rows) == \A r, s \in rows :
    r # s /\ InHeap(desc[r]) /\ InHeap(desc[s]) => ~Overlap(desc[r], desc[s])

\* The elements readVlaCell returns of descriptor d.
ReadAs(h, d) == IF InHeap(d) THEN [i \in 1 .. d.len |-> h[d.off + i - 1]] ELSE <<>>
Read(r) == ReadAs(heap, desc[r])

\* Extents in the order of lessThanGroup.
InOrder(e, f) == e.off < f.off \/ (e.off = f.off /\ e.len < f.len)

\* The rows of a range, and the groups after std.mem.sort, in order: a set has one
\* such sequence.
Listings(S) == {s \in SeqOf(S, Cardinality(S)) : Range(s) = S}
RowsOf(R) == {s \in Listings(R) : \A i, j \in DOMAIN s : i < j => s[i] < s[j]}
GroupsOf(E) == {s \in Listings(E) : \A i, j \in DOMAIN s : i < j => InOrder(s[i], s[j])}

-----------------------------------------------------------------------------
(* The manager (HeapManager).                                               *)

Blank == [top |-> 0, free |-> <<>>]

\* alloc: the first of the smallest free extents that fit, else the top.  The
\* mutant leaves the part used on the list.
Fitting(m, n) == {i \in DOMAIN m.free : m.free[i].len >= n}
Best(m, n) == Min({i \in Fitting(m, n) :
                     \A j \in Fitting(m, n) : m.free[i].len <= m.free[j].len})
HasRoom(m, n) == Fitting(m, n) # {} \/ m.top + n <= Cap
Offset(m, n) == IF Fitting(m, n) # {} THEN m.free[Best(m, n)].off ELSE m.top
ShorterNot(e, n) == [off |-> e.off, len |-> e.len - n]
Shorter(e, n) == [off |-> e.off + n, len |-> e.len - n]
Take(m, n) ==
    IF Fitting(m, n) = {} THEN [m EXCEPT !.top = @ + n]
    ELSE LET i == Best(m, n)
         IN  IF m.free[i].len = n THEN [m EXCEPT !.free = RemoveAt(@, i)]
             ELSE [m EXCEPT !.free[i] = Shorter(@, n)]

\* free: the extents of the list that touch e on its left and on its right.  The
\* mutant coalesces on one side only.
OnLeft(m, e) == {i \in DOMAIN m.free : End(m.free[i]) = e.off}
OnRightNever(m, e) == {}
OnRight(m, e) == {i \in DOMAIN m.free : m.free[i].off = End(e)}
Joined(m, e, i) ==
    IF i \in OnLeft(m, e) THEN [off |-> m.free[i].off, len |-> m.free[i].len + e.len]
    ELSE [off |-> e.off, len |-> e.len + m.free[i].len]

-----------------------------------------------------------------------------
(* Calls.  A write of a cell and of a column are the same job: the rows, how *)
(* many elements each gets, the manager it works with.  A column goes        *)
(* through it twice, the first time (trial) with a copy of the manager.      *)

NoJob == [op |-> "none", trial |-> FALSE, rows |-> <<>>]
Idle == job = NoJob
Busy == Range(job.rows)

Init ==
    /\ desc \in InitDescs
    /\ heap = [i \in 0 .. Cap - 1 |-> <<0, 0, i>>]
    /\ mgr = Blank /\ seeded = FALSE /\ job = NoJob
    /\ calls = 0 /\ faults = 0
    /\ should = [r \in Row |-> Read(r)] /\ stale = {}

Called == Idle /\ calls < MaxCalls /\ calls' = calls + 1

\* initForTable: every descriptor must be valid and no two extents may overlap.
Ends == {0} \cup {End(desc[r]) : r \in {s \in Row : desc[s].len # 0}}
Seeds == /\ \A r \in Row : desc[r].len = 0 \/ (InHeap(desc[r]) /\ desc[r].len <= MaxLen)
         /\ Disjoint(Row)
Seed ==
    /\ Called /\ Seeds
    /\ mgr' = [top |-> Max(Ends), free |-> <<>>]
    /\ seeded' = TRUE
    /\ stale' = {} /\ should' = [r \in Row |-> Read(r)]
    /\ UNCHANGED <<heap, desc, job, faults>>

WriteJob(op, trial, rows, lens) ==
    [op |-> op, trial |-> trial, pc |-> "free", rows |-> rows, lens |-> lens, k |-> 1,
     ext |-> [off |-> 0, len |-> 0], copy |-> mgr, plan |-> [r \in DOMAIN lens |-> 0],
     off |-> 0]

\* To release the extent of a stale cell is to release what may be another's: the
\* histories speak of no cell any more.
Releases(rows) == stale' = IF rows \cap stale = {} THEN stale ELSE Row

WriteVlaCell(r, n) ==
    /\ Called /\ seeded
    /\ job' = WriteJob("cell", FALSE, <<r>>, [s \in {r} |-> n])
    /\ Releases({r})
    /\ UNCHANGED <<heap, desc, mgr, seeded, faults, should>>

\* Target rows whose extents overlap, without being the same, are refused.
WriteVlaColumn(lens) ==
    /\ Called /\ seeded
    /\ \A e, f \in Extents(DOMAIN lens) : Overlap(e, f) => e = f
    /\ \E rows \in RowsOf(DOMAIN lens) : job' = WriteJob("column", TRUE, rows, lens)
    /\ Releases(DOMAIN lens)
    /\ UNCHANGED <<heap, desc, mgr, seeded, faults, should>>

-----------------------------------------------------------------------------
(* The steps of a write.                                                    *)

Working == IF job.trial THEN job.copy ELSE mgr
\* The job goes on as j, and the manager it works with becomes m.
Work(m, j) == IF job.trial THEN job' = [j EXCEPT !.copy = m] /\ UNCHANGED mgr
              ELSE job' = j /\ mgr' = m
At(pc) == job.op \in {"cell", "column"} /\ job.pc = pc
Here == job.rows[job.k]
More == job.k <= Len(job.rows)
KeepTable == UNCHANGED <<heap, desc, seeded, calls, should>>

\* An extent that two targets share is released once.
Owned == /\ InHeap(desc[Here])
         /\ \A k \in 1 .. job.k - 1 : desc[job.rows[k]] # desc[Here]
FreeNext ==
    /\ At("free") /\ More
    /\ job' = IF Owned THEN [job EXCEPT !.pc = "merge", !.ext = desc[Here]]
              ELSE [job EXCEPT !.k = @ + 1]
    /\ UNCHANGED <<mgr, faults, stale>> /\ KeepTable

FreesEnd ==
    /\ At("free") /\ ~More
    /\ job' = [job EXCEPT !.pc = "alloc", !.k = 1]
    /\ UNCHANGED <<mgr, faults, stale>> /\ KeepTable

\* One turn of `while (changed)`.
Touching == OnLeft(Working, job.ext) \cup OnRight(Working, job.ext)
Merge ==
    /\ At("merge") /\ Touching # {}
    /\ LET i == Min(Touching)
       IN  Work([Working EXCEPT !.free = RemoveAt(@, i)],
                [job EXCEPT !.ext = Joined(Working, @, i)])
    /\ UNCHANGED <<faults, stale>> /\ KeepTable

\* An extent that abuts the top lowers it.  The code then looks for further extents
\* that end at the new top; the merging has left none.
Freed(m) == Work(m, [job EXCEPT !.pc = "free", !.k = @ + 1])
MergeEnds ==
    /\ At("merge") /\ Touching = {}
    /\ IF End(job.ext) = Working.top
       THEN Freed([Working EXCEPT !.top = job.ext.off])
       ELSE Freed([Working EXCEPT !.free = Append(@, job.ext)])
    /\ UNCHANGED <<faults, stale>> /\ KeepTable

\* A row that gets nothing; the trial has nothing to plan for it.
AllocNone ==
    /\ At("alloc") /\ More /\ job.lens[Here] = 0
    /\ job' = IF job.trial THEN [job EXCEPT !.k = @ + 1]
              ELSE [job EXCEPT !.pc = "desc", !.off = 0]
    /\ UNCHANGED <<mgr, faults, stale>> /\ KeepTable

\* The trial also finds out whether the descriptor can hold the offset.
Allocates(n) == HasRoom(Working, n) /\ (job.trial => Offset(Working, n) <= MaxOff)
Agrees == job.op = "column" /\ ~job.trial =>
             Offset(Working, job.lens[Here]) = job.plan[Here]
Alloc ==
    /\ At("alloc") /\ More /\ job.lens[Here] > 0
    /\ Allocates(job.lens[Here]) /\ Agrees
    /\ LET n == job.lens[Here]
           off == Offset(Working, n)
       IN  Work(Take(Working, n),
                IF job.trial THEN [job EXCEPT !.plan[Here] = off, !.k = @ + 1]
                ELSE [job EXCEPT !.off = off, !.pc = "drain"])
    /\ UNCHANGED <<faults, stale>> /\ KeepTable

\* The trial has found room for every row: the same again with the manager.
TrialEnds ==
    /\ At("alloc") /\ ~More /\ job.trial
    /\ job' = [job EXCEPT !.trial = FALSE, !.pc = "free", !.k = 1]
    /\ UNCHANGED <<mgr, faults, stale>> /\ KeepTable

Payload(n) == [i \in 1 .. n |-> <<calls, Here, i>>]
Drained(n) == [b \in DOMAIN heap |->
    IF b \in job.off .. job.off + n - 1 THEN Payload(n)[b - job.off + 1] ELSE heap[b]]
Drain ==
    /\ At("drain")
    /\ heap' = Drained(job.lens[Here])
    /\ job' = [job EXCEPT !.pc = "desc"]
    /\ UNCHANGED <<desc, mgr, seeded, calls, faults, should, stale>>

\* The descriptor; an offset it cannot hold is found out here by a cell's write.
WriteDesc ==
    /\ At("desc") /\ job.off <= MaxOff
    /\ desc' = [desc EXCEPT ![Here] = [len |-> job.lens[Here], off |-> job.off]]
    /\ should' = [should EXCEPT ![Here] = Payload(job.lens[Here])]
    /\ job' = [job EXCEPT !.pc = "alloc", !.k = @ + 1]
    /\ UNCHANGED <<heap, mgr, seeded, calls, faults, stale>>

WriteEnds ==
    /\ At("alloc") /\ ~More /\ ~job.trial
    /\ job' = NoJob
    /\ UNCHANGED <<mgr, faults, stale>> /\ KeepTable

-----------------------------------------------------------------------------
(* Writes that fail.  The manager keeps what was released and taken; the     *)
(* rows not written keep their descriptors, to extents that were released.   *)

Left == {job.rows[k] : k \in {i \in 1 .. Len(job.rows) : i >= job.k /\ InHeap(desc[job.rows[i]])}}
WriteFails ==
    /\ job' = NoJob
    /\ stale' = IF job.trial THEN stale ELSE stale \cup Left
    /\ UNCHANGED <<desc, mgr, seeded, calls, should>>

\* HeapOverflow, or BadDescriptor from the trial.
AllocRefused ==
    /\ At("alloc") /\ More /\ job.lens[Here] > 0
    /\ ~(Allocates(job.lens[Here]) /\ Agrees)
    /\ WriteFails
    /\ UNCHANGED <<heap, faults>>

DescRefused ==
    /\ At("desc") /\ job.off > MaxOff
    /\ WriteFails
    /\ UNCHANGED <<heap, faults>>

Fault == faults < MaxFaults /\ faults' = faults + 1

\* The trial's conversion of the values, or its allocations.
TrialFails == /\ Fault /\ job.trial /\ WriteFails /\ UNCHANGED heap

\* The list cannot grow: the extent and what it was merged with belong to nobody.
\* A column has reserved the room before.
AppendFails ==
    /\ Fault /\ At("merge") /\ job.op = "cell"
    /\ Touching = {} /\ End(job.ext) # mgr.top
    /\ job' = NoJob
    /\ UNCHANGED <<heap, desc, mgr, seeded, calls, should, stale>>

\* The device takes a part of the payload, or not the descriptor.
DrainFails ==
    /\ Fault /\ At("drain")
    /\ \E n \in 0 .. job.lens[Here] - 1 : heap' = Drained(n)
    /\ WriteFails
DescFails == /\ Fault /\ At("desc") /\ WriteFails /\ UNCHANGED heap

-----------------------------------------------------------------------------
(* compact.                                                                 *)

\* A cell with a positive length is live; a live descriptor that is no extent of
\* the heap is an error before anything is moved.
Live == {r \in Row : desc[r].len > 0}
Compact ==
    /\ Called /\ \A r \in Live : InHeap(desc[r])
    /\ \E rows \in RowsOf(Live), groups \in GroupsOf(Extents(Live)) :
          job' = [op |-> "compact", trial |-> FALSE, pc |-> "pack",
                  rows |-> rows, groups |-> groups,
                  k |-> 1, bump |-> 0, done |-> 0, dst |-> [e \in Extents(Live) |-> 0]]
    /\ UNCHANGED <<heap, desc, mgr, seeded, faults, should, stale>>

Compacting(pc) == job.op = "compact" /\ job.pc = pc
Group == job.groups[job.k]
Packing == Compacting("pack") /\ job.k <= Len(job.groups)
KeepRest == UNCHANGED <<seeded, calls, should>>

\* The destination must end inside the heap and spare the groups still to move
\* (the mutant looks at none of them).
ClobbersNot(g) == FALSE
Clobbers(g) == job.bump < End(g) /\ g.off < job.bump + Group.len
MayMove ==
    /\ job.bump + Group.len <= Cap
    /\ Group.off # job.bump =>
          \A j \in job.k + 1 .. Len(job.groups) : ~Clobbers(job.groups[j])

\* moveBytes, a byte at a time: downwards from the front, upwards from the back.
NextByte(len, done, down) == IF down THEN done ELSE len - 1 - done
Move ==
    /\ Packing /\ Group.off # job.bump /\ job.done < Group.len /\ MayMove
    /\ LET i == NextByte(Group.len, job.done, job.bump < Group.off)
       IN  heap' = [heap EXCEPT ![job.bump + i] = heap[Group.off + i]]
    /\ job' = [job EXCEPT !.done = @ + 1]
    /\ UNCHANGED <<desc, mgr, faults, stale>> /\ KeepRest

Packed ==
    /\ Packing /\ (job.done = Group.len \/ (Group.off = job.bump /\ MayMove))
    /\ job' = [job EXCEPT !.dst[Group] = job.bump, !.bump = @ + Group.len,
                          !.done = 0, !.k = @ + 1]
    /\ UNCHANGED <<heap, desc, mgr, faults, stale>> /\ KeepRest

PackEnds ==
    /\ Compacting("pack") /\ job.k > Len(job.groups)
    /\ job' = [job EXCEPT !.pc = "point", !.k = 1]
    /\ UNCHANGED <<heap, desc, mgr, faults, stale>> /\ KeepRest

\* The rows get their new offsets.  A row already rewritten is out of the job's
\* lookup, which goes by the extents the rows had.
Point ==
    /\ Compacting("point") /\ More
    /\ desc' = [desc EXCEPT ![Here].off = job.dst[desc[Here]]]
    /\ job' = [job EXCEPT !.k = @ + 1]
    /\ UNCHANGED <<heap, mgr, faults, stale>> /\ KeepRest

\* The manager of the packed heap.
Repacked == [top |-> job.bump, free |-> <<>>]
CompactEnds ==
    /\ Compacting("point") /\ ~More
    /\ mgr' = Repacked
    /\ job' = NoJob
    /\ UNCHANGED <<heap, desc, faults, stale>> /\ KeepRest

\* A compaction that stops once bytes have moved leaves no descriptor to rely on.
Moved == \/ job.done > 0 \/ job.pc = "point"
         \/ \E j \in 1 .. job.k - 1 : job.groups[j].off # job.dst[job.groups[j]]
CompactFails ==
    /\ job' = NoJob
    /\ stale' = IF Moved THEN Row ELSE stale
    /\ UNCHANGED <<heap, desc, mgr>> /\ KeepRest

PackRefused == Packing /\ job.done = 0 /\ ~MayMove /\ CompactFails /\ UNCHANGED faults

MoveFails == Fault /\ Packing /\ Group.off # job.bump /\ MayMove /\ CompactFails
PointFails == Fault /\ Compacting("point") /\ More /\ CompactFails

-----------------------------------------------------------------------------
WriteStep ==
    \/ FreeNext \/ FreesEnd \/ Merge \/ MergeEnds
    \/ AllocNone \/ Alloc \/ TrialEnds \/ Drain \/ WriteDesc \/ WriteEnds
    \/ AllocRefused \/ DescRefused
CompactStep == Move \/ Packed \/ PackEnds \/ Point \/ CompactEnds \/ PackRefused
Step == WriteStep \/ CompactStep

Failure == \/ TrialFails \/ AppendFails \/ DrainFails \/ DescFails
           \/ MoveFails \/ PointFails

Call ==
    \/ Seed \/ Compact
    \/ \E r \in Row, n \in 0 .. MaxLen : WriteVlaCell(r, n)
    \/ \E rows \in Ranges : \E lens \in [rows -> 0 .. MaxLen] : WriteVlaColumn(lens)

Next == Call \/ Step \/ Failure

\* A call that has begun goes on.
Spec == Init /\ [][Next]_vars /\ WF_vars(Step)

-----------------------------------------------------------------------------
(* Properties.                                                              *)

TypeOK ==
    /\ DOMAIN heap = 0 .. Cap - 1
    /\ \A r \in Row : desc[r] \in [len : Int, off : Int]
    /\ mgr.top \in 0 .. Cap
    /\ \A i \in DOMAIN mgr.free : mgr.free[i].len > 0 /\ InHeap(mgr.free[i])
    /\ seeded \in BOOLEAN /\ stale \subseteq Row /\ Busy \subseteq Row
    /\ calls \in 0 .. MaxCalls /\ faults \in 0 .. MaxFaults

FreeBytes == (UNION {Bytes(mgr.free[i]) : i \in DOMAIN mgr.free}) \cup (mgr.top .. Cap - 1)
Settled == Row \ (stale \cup Busy)

\* At every step of every call, failed calls included, the manager gives out no
\* byte of a cell that is not the call's own: the extents of the other cells are
\* disjoint, and disjoint from the free space (heap.zig:845-1001).
Accounting ==
    seeded => /\ Disjoint(Settled)
              /\ \A r \in Settled : InHeap(desc[r]) => Bytes(desc[r]) \cap FreeBytes = {}

\* The free list never fragments: no two of its extents share a byte or touch each
\* other, and none touches the top (heap.zig:953-1001).
Coalesced ==
    seeded /\ stale = {} /\ (job.op = "compact" \/ Idle) =>
        /\ \A i, j \in DOMAIN mgr.free : i # j =>
              \/ End(mgr.free[i]) < mgr.free[j].off
              \/ End(mgr.free[j]) < mgr.free[i].off
        /\ \A i \in DOMAIN mgr.free : End(mgr.free[i]) < mgr.top

\* A cell reads what was last written to it, whatever calls on other cells and
\* compactions came in between, and whether they failed (heap.zig:542-576,
\* 647-798, 1026-1102).
CellsKept == \A r \in Settled : Read(r) = should[r]

=============================================================================
