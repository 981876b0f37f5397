------------------------------ MODULE HeapProofs -----------------------------
(***************************************************************************)
(* Theorems about the heap of Heap, for every table, capacity and number of  *)
(* calls and failures: the manager gives out no byte of a cell it is not     *)
(* writing (HeapAccounting), its list never fragments (HeapCoalesced), and   *)
(* a cell reads what was last written to it (HeapCellsKept).                 *)
(*                                                                         *)
(* They follow from HeapInv, which says who owns each byte: a cell that is   *)
(* held, the free space, or the job under way (the extent it releases and    *)
(* merges, the one it has allocated).  For a compaction it says where each   *)
(* byte is: at its old place, or at its destination.  The proof has a lemma  *)
(* for each action; the actions that end a call share IdleInv.               *)
(***************************************************************************)
EXTENDS Heap, SequenceFacts, FiniteSetTheorems

-----------------------------------------------------------------------------
(* The state.                                                               *)

Descs == [len : Int, off : Int]
HeapExtents == {e \in Descs : InHeap(e)}
Managers == [top : 0 .. Cap, free : Seq(HeapExtents)]
Values == Nat \X Nat \X Nat

Writing == job.op \in {"cell", "column"}
Compaction == job.op = "compact"

\* A write of the cells R, and a compaction that moves the extents E of the cells R.
WriteJobs(R) ==
    [op : {"cell", "column"}, trial : BOOLEAN,
     pc : {"free", "merge", "alloc", "drain", "desc"}, rows : Seq(R),
     lens : [R -> 0 .. MaxLen], k : Nat \ {0}, ext : Descs, copy : Managers,
     plan : [R -> Nat], off : Nat]
PackJobs(R, E) ==
    [op : {"compact"}, trial : {FALSE}, pc : {"pack", "point"}, rows : Seq(R),
     groups : Seq(E), k : Nat \ {0}, bump : 0 .. Cap, done : Nat, dst : [E -> Nat]]

WriteTyped ==
    /\ job \in WriteJobs(Busy) /\ IsInjective(job.rows) /\ job.k <= Len(job.rows) + 1
    /\ job.op = "cell" => ~job.trial /\ Len(job.rows) = 1
    /\ job.pc \in {"merge", "drain", "desc"} => job.k <= Len(job.rows)
    /\ job.pc = "merge" => job.ext \in HeapExtents
    /\ job.pc \in {"drain", "desc"} => ~job.trial
    /\ job.pc = "drain" => job.lens[Here] > 0
    /\ job.pc \in {"drain", "desc"} /\ job.lens[Here] > 0 => job.off + job.lens[Here] <= Cap
    /\ job.pc = "desc" /\ job.lens[Here] = 0 => job.off = 0
PackTyped ==
    /\ job \in PackJobs(Live, Range(job.groups)) /\ IsInjective(job.rows)
    /\ Busy = Live /\ Range(job.groups) \subseteq HeapExtents
    /\ \A i, j \in DOMAIN job.groups : i < j => InOrder(job.groups[i], job.groups[j])
    /\ job.pc = "pack" => job.k <= Len(job.groups) + 1
    /\ job.pc = "point" => job.k <= Len(job.rows) + 1

HeapTypeOK ==
    /\ heap \in [0 .. Cap - 1 -> Values] /\ desc \in [Row -> Descs] /\ mgr \in Managers
    /\ seeded \in BOOLEAN /\ calls \in 0 .. MaxCalls /\ faults \in 0 .. MaxFaults
    /\ should \in [Row -> Seq(Values)] /\ stale \in SUBSET Row
    /\ Busy \subseteq Row /\ (Writing => seeded)
    /\ \/ job = NoJob
       \/ Writing /\ WriteTyped
       \/ Compaction /\ PackTyped

-----------------------------------------------------------------------------
(* Who owns which byte.                                                     *)

\* What the manager and the descriptors say can be relied on: there are cells that no
\* failed call has left behind.
Trusted == seeded /\ (stale = {} \/ stale # Row)

\* Two extents share no byte; an extent lies below the top and shares none with the list.
Apart(e, f) == End(e) <= f.off \/ End(f) <= e.off
Spare(m, e) == End(e) <= m.top /\ \A i \in DOMAIN m.free : Apart(m.free[i], e)
\* The extents of the list neither share bytes nor touch, nor do they touch the top.
Separate(m) ==
    /\ \A i, j \in DOMAIN m.free : i # j =>
          End(m.free[i]) < m.free[j].off \/ End(m.free[j]) < m.free[i].off
    /\ \A i \in DOMAIN m.free : End(m.free[i]) < m.top

\* The cells of a write, not of its trial, that have been released or are about to be, and
\* have not been written.
Released ==
    IF ~Writing \/ job.trial THEN {}
    ELSE {job.rows[j] : j \in {i \in 1 .. Len(job.rows) :
             \/ job.pc = "free" /\ i < job.k
             \/ job.pc = "merge" /\ i <= job.k
             \/ job.pc \in {"alloc", "drain", "desc"} /\ i >= job.k}}
Held == Row \ (stale \cup Released)
HeldApart ==
    /\ \A r \in Held : InHeap(desc[r]) => Spare(mgr, desc[r])
    /\ \A r, s \in Held : r # s /\ InHeap(desc[r]) /\ InHeap(desc[s]) => Apart(desc[r], desc[s])

\* The extent a write has in its hands belongs to nobody else: the one it releases and
\* merges, and the one it has allocated.
Block == [off |-> job.off, len |-> job.lens[Here]]
InHand(e) == Spare(mgr, e) /\ \A r \in Held : InHeap(desc[r]) => Apart(desc[r], e)
HandApart ==
    /\ Writing => Busy \cap stale = {}
    /\ Writing /\ ~job.trial =>
        /\ job.pc = "merge" =>
              /\ InHand(job.ext) /\ InHeap(desc[Here])
              /\ job.ext.off <= desc[Here].off /\ End(desc[Here]) <= End(job.ext)
        /\ job.pc \in {"drain", "desc"} /\ job.lens[Here] > 0 => InHand(Block)

\* A cell reads as what was written to it, but for those a write has released and
\* not written, and those a compaction moves.
Awaiting ==
    IF Compaction THEN Live
    ELSE IF ~Writing \/ job.trial \/ job.pc \notin {"alloc", "drain", "desc"} THEN {}
    ELSE {r \in Released : InHeap(desc[r])}
Kept == \A r \in Row \ stale : r \notin Awaiting => Read(r) = should[r]

\* The payload is in its place before the descriptor says so.
Stored ==
    Writing /\ job.pc = "desc" =>
        \A i \in 1 .. job.lens[Here] : heap[job.off + i - 1] = Payload(job.lens[Here])[i]

-----------------------------------------------------------------------------
(* Compaction.                                                              *)

\* Where byte i of group j is: at its destination if the group has been moved, or the
\* byte has.
MovedByte(i) ==
    /\ job.bump # Group.off
    /\ IF job.bump < Group.off THEN i < job.done ELSE i >= Group.len - job.done
ByteAt(j, i) ==
    IF j < job.k THEN job.dst[job.groups[j]] + i
    ELSE IF j = job.k /\ MovedByte(i) THEN job.bump + i
    ELSE job.groups[j].off + i
Packs ==
    Compaction /\ job.pc = "pack" =>
        /\ \A r \in Live : desc[r] \in Range(job.groups)
        /\ job.done > 0 => /\ job.k <= Len(job.groups) /\ job.done <= Group.len
                           /\ job.bump + Group.len <= Cap /\ job.bump # Group.off
        /\ \A j \in DOMAIN job.groups : j < job.k =>
              /\ job.dst[job.groups[j]] + job.groups[j].len <= job.bump
              /\ \A i \in DOMAIN job.groups : i < j =>
                    job.dst[job.groups[i]] + job.groups[i].len <= job.dst[job.groups[j]]
        /\ \A r \in Live \ stale : Len(should[r]) = desc[r].len
        /\ \A r \in Live \ stale, j \in DOMAIN job.groups : desc[r] = job.groups[j] =>
              \A i \in 0 .. desc[r].len - 1 : heap[ByteAt(j, i)] = should[r][i + 1]

\* Where the payload of a cell is once all groups are packed.
Pointed == {job.rows[j] : j \in {i \in 1 .. Len(job.rows) : i < job.k}}
Place(r) == IF r \in Pointed THEN desc[r].off ELSE job.dst[desc[r]]
Points ==
    Compaction /\ job.pc = "point" =>
        /\ \A r \in Live \ Pointed : desc[r] \in Range(job.groups)
        /\ \A r \in Live : Place(r) \in Nat /\ Place(r) + desc[r].len <= job.bump
        /\ Trusted => \A r, s \in Live \ stale : r # s =>
              Place(r) + desc[r].len <= Place(s) \/ Place(s) + desc[s].len <= Place(r)
        /\ \A r \in Live \ stale : Len(should[r]) = desc[r].len
        /\ \A r \in Live \ stale : \A i \in 0 .. desc[r].len - 1 :
              heap[Place(r) + i] = should[r][i + 1]

HeapInv ==
    /\ HeapTypeOK /\ Kept /\ Stored /\ Packs /\ Points
    /\ Trusted => /\ Separate(mgr) /\ HandApart
                  /\ ~(Compaction /\ job.pc = "point") => HeldApart
-----------------------------------------------------------------------------
(* Managers.                                                                *)

\* A set of natural numbers has a least element.
LEMMA MinFacts ==
    ASSUME NEW T, T \subseteq Nat, T # {}
    PROVE  Min(T) \in T /\ \A y \in T : Min(T) <= y
BY LeastNatural DEF Min

\* A bounded set of natural numbers has a greatest.
LEMMA MaxFacts ==
    ASSUME NEW T, NEW c \in Nat, T \subseteq 0 .. c, T # {}
    PROVE  Max(T) \in T /\ \A y \in T : y <= Max(T)
<1> DEFINE R == {c - y : y \in T}
<1>1. R \subseteq Nat /\ R # {}
  <2>1. \A y \in T : c - y \in Nat
    OBVIOUS
  <2> QED BY <2>1
<1>2. PICK d \in R : \A z \in R : d <= z
  BY <1>1, LeastNatural
<1>3. PICK x \in T : d = c - x
  BY <1>2
<1>4. ASSUME NEW y \in T PROVE y <= x
  <2>1. d <= c - y
    BY <1>2, <1>4
  <2> QED BY <2>1, <1>3
<1> QED BY <1>3, <1>4 DEF Max

\* The numbers of an extent of the heap.
LEMMA ExtentFacts ==
    ASSUME NEW e \in HeapExtents
    PROVE  /\ e.len \in Nat /\ e.off \in Nat /\ e.len > 0 /\ e.off + e.len <= Cap
           /\ e = [len |-> e.len, off |-> e.off]
BY HeapAssumption DEF HeapExtents, Descs, InHeap, End

\* An extent begins and ends at a natural number.
LEMMA EndFacts ==
    ASSUME NEW e \in HeapExtents
    PROVE  End(e) \in Nat /\ e.off \in Nat
BY ExtentFacts DEF End

\* An extent is a pair of numbers in the bounds of the heap.
LEMMA ExtentIs ==
    ASSUME NEW a \in Int, NEW n \in Int, n > 0, a >= 0, a + n <= Cap
    PROVE  [off |-> a, len |-> n] \in HeapExtents
BY DEF HeapExtents, Descs, InHeap, End

\* A top in the heap and a list of extents make a manager.
LEMMA ManagerIs ==
    ASSUME NEW a \in 0 .. Cap, NEW f \in Seq(HeapExtents)
    PROVE  [top |-> a, free |-> f] \in Managers
BY DEF Managers

\* The parts of a manager.
LEMMA FreeFacts ==
    ASSUME NEW m \in Managers
    PROVE  /\ m = [top |-> m.top, free |-> m.free]
           /\ m.top \in 0 .. Cap /\ m.free \in Seq(HeapExtents)
           /\ Len(m.free) \in Nat /\ DOMAIN m.free = 1 .. Len(m.free)
           /\ \A i \in DOMAIN m.free : m.free[i] \in HeapExtents
<1>1. m = [top |-> m.top, free |-> m.free] /\ m.top \in 0 .. Cap /\ m.free \in Seq(HeapExtents)
  BY DEF Managers
<1> QED BY <1>1, LenProperties, ElementOfSeq

Without(m, i) == [m EXCEPT !.free = RemoveAt(@, i)]

\* Without its i-th extent a list has the others, each once.
LEMMA RemovedFree ==
    ASSUME NEW m \in Managers, NEW i \in DOMAIN m.free,
           NEW t, t = Without(m, i)
    PROVE  /\ t \in Managers /\ t.top = m.top
           /\ \A k \in DOMAIN t.free : \E h \in DOMAIN m.free : h # i /\ t.free[k] = m.free[h]
           /\ Separate(m) => Separate(t)
           /\ \A d : Spare(m, d) => Spare(t, d)
<1>1. m.free \in Seq(HeapExtents) /\ m = [top |-> m.top, free |-> m.free] /\ m.top \in 0 .. Cap
      /\ i \in 1 .. Len(m.free) /\ Len(m.free) \in Nat /\ DOMAIN m.free = 1 .. Len(m.free)
  BY FreeFacts
<1>2. PICK f, r : f = m.free /\ r = RemoveAt(f, i)
  OBVIOUS
<1>3. t = [top |-> m.top, free |-> r]
  BY <1>1, <1>2 DEF Without
<1>4. /\ r \in Seq(HeapExtents) /\ Len(r) = Len(f) - 1
      /\ \A j \in 1 .. Len(f) - 1 : r[j] = IF j < i THEN f[j] ELSE f[j + 1]
  BY <1>1, <1>2, RemoveFacts
<1>5. t \in Managers /\ t.top = m.top /\ t.free = r
  BY <1>1, <1>3, <1>4 DEF Managers
<1>6. DOMAIN r = 1 .. Len(f) - 1
  BY <1>4, LenProperties
<1>7. PICK n \in Nat : n = Len(f) /\ DOMAIN f = 1 .. n /\ DOMAIN r = 1 .. n - 1 /\ i \in 1 .. n
  BY <1>1, <1>2, <1>6
<1>8. \A k \in 1 .. n - 1 : r[k] = IF k < i THEN f[k] ELSE f[k + 1]
  BY <1>4, <1>7
<1> DEFINE H(k) == IF k < i THEN k ELSE k + 1
<1>9. \A k \in 1 .. n - 1 : H(k) \in 1 .. n /\ H(k) # i /\ r[k] = f[H(k)]
  BY <1>7, <1>8
<1>10. \A k, l \in 1 .. n - 1 : k # l => H(k) # H(l)
  <2>1. SUFFICES ASSUME NEW k \in 1 .. n - 1, NEW l \in 1 .. n - 1, k # l
                 PROVE  H(k) # H(l)
    OBVIOUS
  <2> QED BY <2>1, <1>7
<1> HIDE DEF H
<1>11. \A k \in DOMAIN t.free : \E h \in DOMAIN m.free : h # i /\ t.free[k] = m.free[h]
  <2>1. ASSUME NEW k \in DOMAIN t.free PROVE \E h \in DOMAIN m.free : h # i /\ t.free[k] = m.free[h]
    <3>1. H(k) \in DOMAIN m.free /\ H(k) # i /\ t.free[k] = m.free[H(k)]
      BY <1>2, <1>5, <1>7, <1>9, Zenon
    <3> QED BY <3>1
  <2> QED BY <2>1
<1>12. ASSUME Separate(m) PROVE Separate(t)
  <2>1. ASSUME NEW k \in DOMAIN t.free, NEW l \in DOMAIN t.free, k # l
        PROVE  End(t.free[k]) < t.free[l].off \/ End(t.free[l]) < t.free[k].off
    <3>1. /\ H(k) \in DOMAIN m.free /\ H(l) \in DOMAIN m.free /\ H(k) # H(l)
          /\ t.free[k] = m.free[H(k)] /\ t.free[l] = m.free[H(l)]
      BY <2>1, <1>2, <1>5, <1>7, <1>9, <1>10, Zenon
    <3>2. End(m.free[H(k)]) < m.free[H(l)].off \/ End(m.free[H(l)]) < m.free[H(k)].off
      BY <3>1, <1>12, Zenon DEF Separate
    <3> QED BY <3>1, <3>2, Zenon
  <2>2. \A k \in DOMAIN t.free : End(t.free[k]) < t.top
    BY <1>5, <1>11, <1>12 DEF Separate
  <2> QED BY <2>1, <2>2 DEF Separate
<1>13. ASSUME NEW d, Spare(m, d) PROVE Spare(t, d)
  BY <1>5, <1>11, <1>13 DEF Spare
<1> QED BY <1>5, <1>11, <1>12, <1>13

\* Extents that touch become one, and it is apart from whatever both were apart from.
LEMMA JoinFacts ==
    ASSUME NEW m \in Managers, NEW e \in HeapExtents, NEW i \in OnLeft(m, e) \cup OnRight(m, e),
           NEW t, t = Without(m, i), NEW j, j = Joined(m, e, i)
    PROVE  /\ j \in HeapExtents /\ j.off <= e.off /\ End(e) <= End(j)
           /\ Separate(m) /\ Spare(m, e) => Spare(t, j)
           /\ \A d \in HeapExtents : Spare(m, d) /\ Apart(d, e) => Apart(d, j)
<1>1. i \in DOMAIN m.free /\ m.free[i] \in HeapExtents
  BY FreeFacts DEF OnLeft, OnRight
<1>2. PICK f : f = m.free[i]
  OBVIOUS
<1>3. \/ f.off + f.len = e.off /\ j = [off |-> f.off, len |-> f.len + e.len]
      \/ f.off = e.off + e.len /\ j = [off |-> e.off, len |-> e.len + f.len]
  BY <1>2 DEF OnLeft, OnRight, Joined, End
<1>4. /\ f.off \in Nat /\ f.len \in Nat /\ f.len > 0 /\ f.off + f.len <= Cap
      /\ e.off \in Nat /\ e.len \in Nat /\ e.len > 0 /\ e.off + e.len <= Cap
  BY <1>1, <1>2, ExtentFacts
<1>5. PICK a, n : a = j.off /\ n = j.len
  OBVIOUS
<1>6. /\ a \in Nat /\ n \in Nat /\ n > 0 /\ a <= e.off /\ e.off + e.len <= a + n
      /\ j = [off |-> a, len |-> n] /\ a <= f.off /\ f.off + f.len <= a + n
      /\ (a = f.off \/ a = e.off) /\ (a + n = e.off + e.len \/ a + n = f.off + f.len)
      /\ n = e.len + f.len /\ a + n <= Cap
  BY <1>3, <1>4, <1>5
<1>7. j \in HeapExtents /\ j.off <= e.off /\ End(e) <= End(j)
  BY <1>5, <1>6, ExtentIs DEF End
<1>8. ASSUME NEW d \in HeapExtents, Apart(f, d), Apart(d, e) PROVE Apart(d, j)
  <2>1. d.off \in Nat /\ d.len \in Nat /\ d.len > 0
    BY <1>8, ExtentFacts
  <2> QED BY <2>1, <1>8, <1>3, <1>4, <1>6, <1>5 DEF Apart, End
<1>9. ASSUME NEW d \in HeapExtents, Spare(m, d), Apart(d, e) PROVE Apart(d, j)
  BY <1>1, <1>2, <1>8, <1>9 DEF Spare
<1>10. ASSUME Separate(m), Spare(m, e) PROVE Spare(t, j)
  <2>1. /\ t.top = m.top /\ t \in Managers
        /\ \A k \in DOMAIN t.free : \E h \in DOMAIN m.free : h # i /\ t.free[k] = m.free[h]
    BY <1>1, RemovedFree
  <2>2. End(j) <= t.top
    <3>1. e.off + e.len <= m.top /\ f.off + f.len < m.top
      BY <1>1, <1>2, <1>10 DEF Spare, Separate, End
    <3>2. m.top \in Nat
      BY FreeFacts
    <3> QED BY <3>1, <3>2, <2>1, <1>4, <1>5, <1>6 DEF End
  <2>3. ASSUME NEW k \in DOMAIN t.free PROVE Apart(t.free[k], j)
    <3>1. PICK h \in DOMAIN m.free : h # i /\ t.free[k] = m.free[h]
      BY <2>1, <2>3
    <3>2. PICK g : g = m.free[h]
      OBVIOUS
    <3>3. g \in HeapExtents
      BY <3>1, <3>2, FreeFacts
    <3>4. Apart(g, e) /\ (End(g) < f.off \/ End(f) < g.off)
      BY <1>1, <1>2, <1>10, <3>1, <3>2 DEF Spare, Separate
    <3>5. g.off \in Nat /\ g.len \in Nat
      BY <3>3, ExtentFacts
    <3>6. Apart(f, g)
      BY <3>4, <3>5, <1>4 DEF Apart, End
    <3> QED BY <1>8, <3>1, <3>2, <3>3, <3>4, <3>6
  <2> QED BY <2>2, <2>3 DEF Spare
<1> QED BY <1>7, <1>9, <1>10

\* An extent that touches none of the list joins the list, or lowers the top.
LEMMA ReleaseFacts ==
    ASSUME NEW m \in Managers, NEW e \in HeapExtents, OnLeft(m, e) \cup OnRight(m, e) = {},
           NEW t, t = IF End(e) = m.top THEN [m EXCEPT !.top = e.off]
                      ELSE [m EXCEPT !.free = Append(@, e)]
    PROVE  /\ t \in Managers
           /\ Separate(m) /\ Spare(m, e) => Separate(t)
           /\ Spare(m, e) => \A d \in HeapExtents : Spare(m, d) /\ Apart(d, e) => Spare(t, d)
<1>1. /\ m = [top |-> m.top, free |-> m.free] /\ m.top \in 0 .. Cap /\ m.free \in Seq(HeapExtents)
      /\ Len(m.free) \in Nat /\ DOMAIN m.free = 1 .. Len(m.free)
      /\ \A i \in DOMAIN m.free : m.free[i] \in HeapExtents
  BY FreeFacts
<1>2. e.len \in Nat /\ e.off \in Nat /\ e.len > 0 /\ e.off + e.len <= Cap
  BY ExtentFacts
<1>3. \A i \in DOMAIN m.free : m.free[i].off + m.free[i].len # e.off /\ m.free[i].off # e.off + e.len
  BY DEF OnLeft, OnRight, End
<1>4. \A i \in DOMAIN m.free : /\ m.free[i].len \in Nat /\ m.free[i].off \in Nat
                               /\ m.free[i].len > 0
  BY <1>1, ExtentFacts
<1>5. CASE End(e) = m.top
  <2>1. t = [top |-> e.off, free |-> m.free]
    BY <1>1, <1>5
  <2>2. t \in Managers
    <3>1. e.off \in 0 .. Cap
      BY <1>2, HeapAssumption
    <3> QED BY <3>1, <2>1, <1>1 DEF Managers
  <2>3. ASSUME Separate(m), Spare(m, e) PROVE Separate(t)
    <3>1. ASSUME NEW i \in DOMAIN m.free PROVE End(m.free[i]) < e.off
      <4>1. PICK f : f = m.free[i]
        OBVIOUS
      <4>2. f.off + f.len < e.off + e.len /\ (f.off + f.len <= e.off \/ e.off + e.len <= f.off)
        BY <4>1, <1>5, <2>3 DEF Separate, Spare, Apart, End
      <4>3. f.off \in Nat /\ f.len \in Nat /\ f.off + f.len # e.off
        BY <4>1, <1>3, <1>4
      <4> QED BY <4>1, <4>2, <4>3, <1>2 DEF End
    <3> QED BY <3>1, <2>1, <2>3 DEF Separate
  <2>4. ASSUME Spare(m, e), NEW d \in HeapExtents, Spare(m, d), Apart(d, e) PROVE Spare(t, d)
    <3>1. d.off \in Nat /\ d.len \in Nat /\ d.len > 0
      BY ExtentFacts
    <3>2. d.off + d.len <= e.off + e.len /\ (d.off + d.len <= e.off \/ e.off + e.len <= d.off)
      BY <2>4, <1>5 DEF Spare, Apart, End
    <3>3. d.off + d.len <= e.off
      BY <3>1, <3>2, <1>2
    <3> QED BY <3>3, <2>1, <2>4 DEF Spare, End
  <2> QED BY <2>2, <2>3, <2>4
<1>6. CASE End(e) # m.top
  <2>1. PICK r : r = Append(m.free, e)
    OBVIOUS
  <2>2. t = [top |-> m.top, free |-> r]
    BY <1>1, <1>6, <2>1
  <2>3. PICK f, n : f = m.free /\ n = Len(f)
    OBVIOUS
  <2>4. /\ r \in Seq(HeapExtents) /\ n \in Nat /\ DOMAIN r = 1 .. n + 1 /\ r[n + 1] = e
        /\ DOMAIN f = 1 .. n /\ \A i \in 1 .. n : r[i] = f[i]
    BY <1>1, <2>1, <2>3, AppendProperties, LenProperties
  <2>5. t \in Managers
    <3>1. m.top \in 0 .. Cap /\ r \in Seq(HeapExtents)
      BY <1>1, <2>4
    <3> QED BY <3>1, <2>2, ManagerIs
  <2>6. \A i \in DOMAIN r : (i \in DOMAIN f /\ r[i] = f[i]) \/ (i = n + 1 /\ r[i] = e)
    <3>1. SUFFICES ASSUME NEW i \in DOMAIN r
                   PROVE  (i \in DOMAIN f /\ r[i] = f[i]) \/ (i = n + 1 /\ r[i] = e)
      OBVIOUS
    <3>2. i \in 1 .. n \/ i = n + 1
      BY <3>1, <2>4
    <3>3. CASE i \in 1 .. n
      BY <3>3, <2>4, Zenon
    <3>4. CASE i = n + 1
      BY <3>4, <2>4
    <3> QED BY <3>2, <3>3, <3>4
  <2>7. ASSUME Separate(m), Spare(m, e) PROVE Separate(t)
    <3>1. e.off + e.len < m.top
      <4>1. e.off + e.len <= m.top /\ e.off + e.len # m.top
        BY <2>7, <1>6 DEF Spare, End
      <4>2. m.top \in Nat
        BY <1>1
      <4> QED BY <4>1, <4>2, <1>2

    <3>2. ASSUME NEW i \in DOMAIN f PROVE End(f[i]) < e.off \/ End(e) < f[i].off
      <4>1. PICK g : g = f[i]
        OBVIOUS
      <4>2. g.off + g.len <= e.off \/ e.off + e.len <= g.off
        BY <4>1, <2>3, <2>7 DEF Spare, Apart, End
      <4>3. g.off \in Nat /\ g.len \in Nat /\ g.off + g.len # e.off /\ g.off # e.off + e.len
        BY <4>1, <2>3, <1>3, <1>4
      <4> QED BY <4>1, <4>2, <4>3, <1>2 DEF End
    <3>3. ASSUME NEW i \in DOMAIN r, NEW j \in DOMAIN r, i # j
          PROVE  End(r[i]) < r[j].off \/ End(r[j]) < r[i].off
      <4>1. CASE i \in DOMAIN f /\ r[i] = f[i] /\ j \in DOMAIN f /\ r[j] = f[j]
        BY <4>1, <3>3, <2>3, <2>7, Zenon DEF Separate
      <4>2. CASE i \in DOMAIN f /\ r[i] = f[i] /\ r[j] = e
        BY <4>2, <3>2, Zenon
      <4>3. CASE j \in DOMAIN f /\ r[j] = f[j] /\ r[i] = e
        BY <4>3, <3>2, Zenon
      <4>4. ~(i = n + 1 /\ j = n + 1)
        BY <3>3
      <4> QED BY <2>6, <4>1, <4>2, <4>3, <4>4, Zenon
    <3>4. ASSUME NEW i \in DOMAIN r PROVE End(r[i]) < m.top
      BY <3>4, <2>6, <2>3, <2>7, <3>1 DEF Separate, End
    <3> QED BY <2>2, <3>3, <3>4 DEF Separate
  <2>8. ASSUME NEW d \in HeapExtents, Spare(m, d), Apart(d, e) PROVE Spare(t, d)
    <3>1. ASSUME NEW i \in DOMAIN r PROVE Apart(r[i], d)
      BY <3>1, <2>8, <2>6, <2>3 DEF Spare, Apart
    <3> QED BY <3>1, <2>2, <2>8 DEF Spare
  <2> QED BY <2>5, <2>7, <2>8
<1> QED BY <1>5, <1>6

\* Of the extents that fit there is a first smallest.
LEMMA BestFacts ==
    ASSUME NEW m \in Managers, NEW n \in Nat, Fitting(m, n) # {}
    PROVE  Best(m, n) \in DOMAIN m.free /\ m.free[Best(m, n)].len >= n
<1>1. /\ DOMAIN m.free \subseteq Nat /\ \A i \in DOMAIN m.free : m.free[i].len \in Nat
  BY FreeFacts, ExtentFacts
<1> DEFINE F == Fitting(m, n)
           L == {m.free[i].len : i \in F}
           S == {i \in F : \A j \in F : m.free[i].len <= m.free[j].len}
<1>2. F \subseteq DOMAIN m.free /\ \A i \in F : m.free[i].len >= n
  BY DEF Fitting
<1>3. L \subseteq Nat /\ L # {}
  BY <1>1, <1>2
<1>4. PICK l \in L : \A k \in L : l <= k
  BY <1>3, LeastNatural
<1>5. PICK i \in F : l = m.free[i].len
  BY <1>4
<1>6. i \in S
  BY <1>4, <1>5
<1>7. S \subseteq Nat /\ S # {}
  BY <1>1, <1>2, <1>6
<1>8. Best(m, n) = Min(S)
  BY DEF Best
<1> HIDE DEF F, S
<1>9. Best(m, n) \in S
  BY <1>7, <1>8, MinFacts
<1> QED BY <1>9, <1>2 DEF S

\* What alloc gives out was free, and is free no more; nothing else becomes free.
LEMMA TakeFacts ==
    ASSUME NEW m \in Managers, NEW n \in Nat, n > 0, HasRoom(m, n),
           NEW t, t = Take(m, n), NEW b, b = [off |-> Offset(m, n), len |-> n]
    PROVE  /\ t \in Managers /\ b \in HeapExtents
           /\ Separate(m) => Separate(t) /\ Spare(t, b)
           /\ Separate(m) => \A d \in HeapExtents : Spare(m, d) => Spare(t, d) /\ Apart(d, b)
<1>1. /\ m = [top |-> m.top, free |-> m.free] /\ m.top \in 0 .. Cap /\ m.free \in Seq(HeapExtents)
      /\ Len(m.free) \in Nat /\ DOMAIN m.free = 1 .. Len(m.free)
      /\ \A i \in DOMAIN m.free : m.free[i] \in HeapExtents
  BY FreeFacts
<1>0. Cap \in Nat
  BY HeapAssumption
<1>2. CASE Fitting(m, n) = {}
  <2>1. m.top + n <= Cap /\ b = [off |-> m.top, len |-> n] /\ t = [top |-> m.top + n, free |-> m.free]
    BY <1>1, <1>2 DEF HasRoom, Offset, Take
  <2>2. m.top \in Nat /\ m.top + n \in 0 .. Cap
    BY <2>1, <1>1, <1>0
  <2>3. t \in Managers /\ b \in HeapExtents
    BY <2>1, <2>2, <1>1, ManagerIs, ExtentIs
  <2>4. ASSUME Separate(m) PROVE Separate(t) /\ Spare(t, b)
    <3>1. ASSUME NEW i \in DOMAIN m.free
          PROVE  End(m.free[i]) < m.top /\ End(m.free[i]) < m.top + n
      <4>1. End(m.free[i]) < m.top /\ End(m.free[i]) \in Nat
        BY <2>4, <1>1, ExtentFacts DEF Separate, End
      <4> QED BY <4>1, <2>2
    <3>2. Separate(t)
      BY <3>1, <2>1, <2>4 DEF Separate
    <3>3. \A i \in DOMAIN t.free : Apart(t.free[i], b)
      <4>1. \A i \in DOMAIN m.free : End(m.free[i]) <= m.top
        <5>1. SUFFICES ASSUME NEW i \in DOMAIN m.free PROVE End(m.free[i]) <= m.top
          OBVIOUS
        <5>2. End(m.free[i]) \in Nat /\ m.top \in Nat
          BY <1>1, <2>2, EndFacts
        <5> QED BY <5>2, <3>1
      <4> QED BY <4>1, <2>1 DEF Apart
    <3>4. End(b) = m.top + n /\ t.top = m.top + n /\ m.top + n <= m.top + n
      BY <2>1, <2>2 DEF End
    <3> QED BY <3>2, <3>3, <3>4 DEF Spare
  <2>5. ASSUME Separate(m), NEW d \in HeapExtents, Spare(m, d) PROVE Spare(t, d) /\ Apart(d, b)
    <3>1. End(d) <= m.top /\ End(d) \in Nat
      BY <2>5, ExtentFacts DEF Spare, End
    <3>2. End(d) <= m.top + n
      BY <3>1, <2>2
    <3> QED BY <3>1, <3>2, <2>1, <2>5 DEF Spare, Apart
  <2> QED BY <2>3, <2>4, <2>5
<1>3. CASE Fitting(m, n) # {}
  <2>1. PICK i : i = Best(m, n)
    OBVIOUS
  <2>2. i \in DOMAIN m.free /\ m.free[i].len >= n
    BY <2>1, <1>3, BestFacts
  <2>3. PICK f : f = m.free[i]
    OBVIOUS
  <2>4. /\ f \in HeapExtents /\ f.off \in Nat /\ f.len \in Nat /\ f.len >= n /\ f.off + f.len <= Cap
        /\ b = [off |-> f.off, len |-> n]
    BY <2>1, <2>2, <2>3, <1>1, <1>3, ExtentFacts DEF Offset
  <2>5. b \in HeapExtents
    <3>1. f.off \in Int /\ n \in Int /\ f.off >= 0 /\ f.off + n <= Cap
      BY <2>4, <1>0
    <3> QED BY <3>1, <2>4, ExtentIs
  <2>6. ASSUME NEW d \in HeapExtents, Apart(f, d) PROVE Apart(d, b)
    <3>1. d.off \in Nat /\ d.len \in Nat
      BY ExtentFacts
    <3> QED BY <3>1, <2>4, <2>6 DEF Apart, End
  <2>7. ASSUME NEW d \in HeapExtents, Spare(m, d) PROVE Apart(d, b)
    BY <2>2, <2>3, <2>6, <2>7 DEF Spare
  <2>8. CASE f.len = n
    <3>1. t = Without(m, i)
      BY <2>1, <2>3, <2>8, <1>3 DEF Take, Without
    <3>2. /\ t \in Managers /\ t.top = m.top /\ (Separate(m) => Separate(t))
          /\ \A d : Spare(m, d) => Spare(t, d)
          /\ \A k \in DOMAIN t.free : \E h \in DOMAIN m.free : h # i /\ t.free[k] = m.free[h]
      BY <2>2, <3>1, RemovedFree
    <3>3. ASSUME Separate(m) PROVE Spare(t, b)
      <4>1. End(b) <= t.top
        <5>1. End(f) < m.top /\ End(f) = f.off + n /\ m.top \in Nat
          BY <2>2, <2>3, <2>8, <3>3, <1>1 DEF Separate, End
        <5> QED BY <5>1, <2>4, <3>2 DEF End
      <4>2. ASSUME NEW k \in DOMAIN t.free PROVE Apart(t.free[k], b)
        <5>1. PICK h \in DOMAIN m.free : h # i /\ t.free[k] = m.free[h]
          BY <3>2, <4>2
        <5>2. PICK g : g = m.free[h]
          OBVIOUS
        <5>3. g \in HeapExtents /\ (End(f) < g.off \/ End(g) < f.off)
          BY <5>1, <5>2, <2>2, <2>3, <3>3, <1>1 DEF Separate
        <5>4. Apart(f, g)
          BY <5>3, <2>4, ExtentFacts DEF Apart, End
        <5> QED BY <5>1, <5>2, <5>3, <5>4, <2>6
      <4> QED BY <4>1, <4>2 DEF Spare
    <3> QED BY <3>2, <3>3, <2>5, <2>7
  <2>9. CASE f.len # n
    <3> DEFINE r == [m.free EXCEPT ![i] = Shorter(@, n)]
    <3>1. t = [top |-> m.top, free |-> r]
      BY <2>1, <2>3, <2>9, <1>1, <1>3 DEF Take
    <3>2. Shorter(f, n) = [off |-> f.off + n, len |-> f.len - n]
      BY DEF Shorter
    <3>3. PICK s : s = Shorter(f, n)
      OBVIOUS
    <3>4. s \in HeapExtents /\ s.off = f.off + n /\ s.len = f.len - n
      <4>1. f.off + n \in Int /\ f.len - n \in Int /\ f.len - n > 0 /\ f.off + n >= 0
            /\ f.off + n + (f.len - n) <= Cap
        BY <2>4, <2>9, <1>0
      <4> QED BY <4>1, <3>2, <3>3, ExtentIs
    <3>5. /\ r \in Seq(HeapExtents) /\ DOMAIN r = DOMAIN m.free /\ r[i] = s
          /\ \A k \in DOMAIN m.free : k # i => r[k] = m.free[k]
      BY <1>1, <2>2, <2>3, <3>3, <3>4
    <3> HIDE DEF r
    <3>6. t \in Managers
      BY <3>1, <3>5, <1>1, ManagerIs
    <3>7. ASSUME Separate(m) PROVE Separate(t) /\ Spare(t, b)
      <4>1. End(f) < m.top /\ End(s) = End(f) /\ f.off < s.off /\ End(b) = s.off /\ End(b) <= m.top
        <5>1. End(f) < m.top /\ m.top \in Nat
          BY <2>2, <2>3, <3>7, <1>1 DEF Separate
        <5> QED BY <5>1, <2>4, <3>4 DEF End
      <4>2. ASSUME NEW k \in DOMAIN m.free, k # i
            PROVE  /\ End(m.free[k]) < s.off \/ End(s) < m.free[k].off
                   /\ Apart(m.free[k], b)
        <5>1. PICK g : g = m.free[k]
          OBVIOUS
        <5>2. g \in HeapExtents /\ (End(f) < g.off \/ End(g) < f.off)
          BY <5>1, <4>2, <2>2, <2>3, <3>7, <1>1 DEF Separate
        <5>3. g.off \in Nat /\ g.len \in Nat
          BY <5>2, ExtentFacts
        <5>4. End(g) < s.off \/ End(s) < g.off
          BY <5>2, <5>3, <4>1, <2>4, <3>4 DEF End
        <5>5. Apart(g, b)
          BY <5>2, <5>3, <4>1, <2>4, <3>4 DEF End, Apart
        <5> QED BY <5>1, <5>4, <5>5
      <4>3. Separate(t)
        <5>1. ASSUME NEW k \in DOMAIN r, NEW l \in DOMAIN r, k # l
              PROVE  End(r[k]) < r[l].off \/ End(r[l]) < r[k].off
          <6>1. CASE k = i
            BY <6>1, <5>1, <3>5, <4>2, Zenon
          <6>2. CASE l = i
            BY <6>2, <5>1, <3>5, <4>2, Zenon
          <6>3. CASE k # i /\ l # i
            BY <6>3, <5>1, <3>5, <3>7, Zenon DEF Separate
          <6> QED BY <6>1, <6>2, <6>3
        <5>2. \A k \in DOMAIN r : End(r[k]) < m.top
          BY <3>5, <3>7, <4>1 DEF Separate
        <5> QED BY <5>1, <5>2, <3>1 DEF Separate
      <4>4. ASSUME NEW k \in DOMAIN r PROVE Apart(r[k], b)
        <5>1. Apart(s, b)
          BY <4>1, <3>4, <2>4 DEF Apart
        <5> QED BY <4>4, <5>1, <4>2, <3>5
      <4> QED BY <4>1, <4>3, <4>4, <3>1 DEF Spare
    <3>8. ASSUME NEW d \in HeapExtents, Spare(m, d) PROVE Spare(t, d)
      <4>1. Apart(f, d)
        BY <2>2, <2>3, <3>8 DEF Spare
      <4>2. Apart(s, d)
        <5>1. d.off \in Nat /\ d.len \in Nat
          BY ExtentFacts
        <5> QED BY <5>1, <4>1, <2>4, <3>4 DEF Apart, End
      <4>3. \A k \in DOMAIN r : Apart(r[k], d)
        BY <4>2, <3>5, <3>8 DEF Spare
      <4> QED BY <4>3, <3>1, <3>8 DEF Spare
    <3> QED BY <3>6, <3>7, <3>8, <2>5, <2>7
  <2> QED BY <2>8, <2>9
<1> QED BY <1>2, <1>3
-----------------------------------------------------------------------------
(* The steps of a write.                                                    *)

\* The parts of a write job.
LEMMA WriteFacts ==
    ASSUME HeapTypeOK, Writing
    PROVE  /\ seeded /\ WriteTyped /\ ~Compaction /\ mgr \in Managers /\ Busy \subseteq Row
           /\ job.rows \in Seq(Row) /\ Len(job.rows) \in Nat /\ DOMAIN job.rows = 1 .. Len(job.rows)
           /\ \A i \in 1 .. Len(job.rows) : job.rows[i] \in Busy
           /\ \A i, j \in 1 .. Len(job.rows) : job.rows[i] = job.rows[j] => i = j
           /\ job.k \in Nat /\ 1 <= job.k /\ job.k <= Len(job.rows) + 1
           /\ job.copy \in Managers /\ Working \in Managers /\ job.trial \in BOOLEAN
           /\ job.lens \in [Busy -> 0 .. MaxLen]
           /\ More => Here \in Busy /\ job.lens[Here] \in 0 .. MaxLen
<1>1. /\ seeded /\ WriteTyped /\ ~Compaction /\ mgr \in Managers /\ Busy \subseteq Row
  BY DEF HeapTypeOK, Writing, Compaction, NoJob
<1>2. /\ job.rows \in Seq(Busy) /\ job.k \in Nat /\ 1 <= job.k /\ job.k <= Len(job.rows) + 1
      /\ job.copy \in Managers /\ job.trial \in BOOLEAN /\ job.lens \in [Busy -> 0 .. MaxLen]
      /\ IsInjective(job.rows)
  BY <1>1 DEF WriteTyped, WriteJobs
<1>3. /\ Len(job.rows) \in Nat /\ DOMAIN job.rows = 1 .. Len(job.rows)
      /\ \A i \in 1 .. Len(job.rows) : job.rows[i] \in Busy
  BY <1>2, ToSetFacts
<1>4. job.rows \in Seq(Row)
  BY <1>1, <1>2
<1>5. \A i, j \in 1 .. Len(job.rows) : job.rows[i] = job.rows[j] => i = j
  BY <1>2, <1>3 DEF IsInjective
<1>6. Working \in Managers
  BY <1>1, <1>2 DEF Working
<1>7. More => Here \in Busy /\ job.lens[Here] \in 0 .. MaxLen
  <2>1. ASSUME More PROVE job.k \in 1 .. Len(job.rows)
    BY <2>1, <1>2, <1>3 DEF More
  <2> QED BY <2>1, <1>2, <1>3 DEF Here
<1> QED BY <1>1, <1>2, <1>3, <1>4, <1>5, <1>6, <1>7

\* A step of a write that changes no byte and no descriptor.
LEMMA WriteGoesOn ==
    ASSUME HeapInv, Writing, Writing', WriteTyped', Busy' = Busy, mgr' \in Managers,
           UNCHANGED <<heap, desc, seeded, calls, faults, should, stale>>,
           Awaiting \subseteq Awaiting', Stored',
           Trusted => Separate(mgr') /\ HandApart' /\ HeldApart'
    PROVE  HeapInv'
<1>1. HeapTypeOK'
  BY DEF HeapInv, HeapTypeOK
<1>2. Kept'
  <2>1. \A r \in Row : Read(r)' = Read(r)
    BY DEF Read, ReadAs
  <2> QED BY <2>1 DEF HeapInv, Kept
<1>3. ~Compaction'
  BY DEF Writing, Compaction
<1>4. Trusted' <=> Trusted
  BY DEF Trusted
<1>5. Packs' /\ Points'
  BY <1>3 DEF Packs, Points
<1>6. Trusted' => Separate(mgr)' /\ HandApart' /\ HeldApart'
  BY <1>4 DEF Separate
<1> QED BY <1>1, <1>2, <1>5, <1>6 DEF HeapInv

\* The cell a write is at is held until it is released.
LEMMA HereHeld ==
    ASSUME HeapInv, Writing, Trusted, ~job.trial, job.pc = "free", More
    PROVE  Here \in Held
<1>1. WriteTyped /\ Here \in Busy /\ Busy \subseteq Row /\ job.k \in 1 .. Len(job.rows)
      /\ \A i, j \in 1 .. Len(job.rows) : job.rows[i] = job.rows[j] => i = j
  BY WriteFacts DEF HeapInv, More
<1>2. Here \notin stale
  BY <1>1 DEF HeapInv, HandApart
<1>3. Here \notin Released
  BY <1>1 DEF Released, Here
<1> QED BY <1>1, <1>2, <1>3 DEF Held

\* The extent of the cell is to be released: its owner is released, and it belongs to
\* the job.
LEMMA FreeNextStep ==
    ASSUME HeapInv, FreeNext
    PROVE  HeapInv'
<1>1. /\ Writing /\ job.pc = "free" /\ More
      /\ UNCHANGED <<heap, desc, seeded, calls, faults, should, stale, mgr>>
  BY DEF FreeNext, At, Writing, KeepTable
<1>2. HeapTypeOK /\ WriteTyped
  BY <1>1, WriteFacts DEF HeapInv
<1>f. /\ job \in WriteJobs(Busy) /\ mgr \in Managers /\ Here \in Busy /\ Busy \subseteq Row
      /\ job.k \in Nat /\ job.k >= 1 /\ job.k <= Len(job.rows) /\ Len(job.rows) \in Nat
      /\ desc[Here] \in Descs
  <2>1. job.k <= Len(job.rows)
    BY <1>1 DEF More
  <2> QED BY <1>1, <1>2, <2>1, WriteFacts DEF WriteTyped, HeapTypeOK
<1>3. CASE Owned
  <2>1. job' = [job EXCEPT !.pc = "merge", !.ext = desc[Here]]
    BY <1>3 DEF FreeNext
  <2>2. /\ job'.pc = "merge" /\ job'.ext = desc[Here] /\ job'.op = job.op /\ job'.trial = job.trial
        /\ job'.rows = job.rows /\ job'.k = job.k /\ job' \in WriteJobs(Busy)
    BY <2>1, <1>f DEF WriteJobs
  <2>3. Writing' /\ Busy' = Busy /\ Here' = Here
    BY <2>2, <1>1 DEF Writing, Busy, Here
  <2>4. desc[Here] \in HeapExtents
    BY <1>3, <1>f DEF Owned, HeapExtents
  <2>5. WriteTyped'
    BY <2>2, <2>3, <2>4, <1>2, <1>f DEF WriteTyped
  <2>6. Awaiting \subseteq Awaiting' /\ Stored'
    BY <1>1, <2>2, <2>3 DEF Awaiting, Stored, Writing, Compaction
  <2>7. ASSUME Trusted PROVE Separate(mgr') /\ HandApart' /\ HeldApart'
    <3>1. Held' \subseteq Held /\ (~job.trial => Here \notin Held')
      <4>1. Released \subseteq Released'
        BY <2>2, <1>1, <1>f, <2>3 DEF Released
      <4>2. ~job.trial => Here \in Released'
        BY <2>2, <1>1, <1>f, <2>3 DEF Released, Here
      <4> QED BY <4>1, <4>2, <1>1 DEF Held
    <3>2. HeldApart'
      BY <3>1, <1>1, <2>7 DEF HeapInv, HeldApart, Compaction, Writing
    <3>3. Separate(mgr')
      BY <1>1, <2>7 DEF HeapInv
    <3>4. ASSUME ~job.trial PROVE InHand(job.ext)'
      <4>1. Here \in Held /\ HeldApart
        BY <3>4, <1>1, <2>7, HereHeld DEF HeapInv, Compaction, Writing
      <4>2. InHeap(desc[Here])
        BY <1>3 DEF Owned
      <4>3. Spare(mgr, desc[Here])
        BY <4>1, <4>2 DEF HeldApart
      <4>4. \A r \in Held' : InHeap(desc[r]) => Apart(desc[r], desc[Here])
        BY <3>1, <3>4, <4>1, <4>2 DEF HeldApart
      <4> QED BY <4>3, <4>4, <1>1, <2>2 DEF InHand
    <3>5. HandApart'
      <4>1. Busy \cap stale = {}
        BY <1>1, <2>7 DEF HeapInv, HandApart
      <4>2. InHeap(desc[Here]) /\ desc[Here].off <= desc[Here].off /\ End(desc[Here]) <= End(desc[Here])
        BY <1>3, <1>f DEF Owned, Descs, End
      <4> QED BY <4>1, <4>2, <3>4, <2>2, <2>3, <1>1 DEF HandApart
    <3> QED BY <3>2, <3>3, <3>5
  <2> QED BY <1>1, <1>f, <2>3, <2>5, <2>6, <2>7, WriteGoesOn
<1>4. CASE ~Owned
  <2>1. job' = [job EXCEPT !.k = @ + 1]
    BY <1>4 DEF FreeNext
  <2>2. /\ job'.pc = "free" /\ job'.op = job.op /\ job'.trial = job.trial
        /\ job'.rows = job.rows /\ job'.k = job.k + 1 /\ job' \in WriteJobs(Busy)
    <3>1. PICK n : n = job.k + 1
      OBVIOUS
    <3>2. n \in Nat \ {0} /\ job' = [job EXCEPT !.k = n]
      BY <3>1, <2>1, <1>f
    <3>3. /\ job'.pc = job.pc /\ job'.op = job.op /\ job'.trial = job.trial
          /\ job'.rows = job.rows /\ job'.k = n /\ job' \in WriteJobs(Busy)
      BY <3>2, <1>f DEF WriteJobs
    <3> QED BY <3>1, <3>3, <1>1
  <2>3. Writing' /\ Busy' = Busy
    BY <2>2, <1>1 DEF Writing, Busy
  <2>5. WriteTyped'
    BY <2>2, <2>3, <1>2, <1>f DEF WriteTyped
  <2>6. Awaiting \subseteq Awaiting' /\ Stored'
    BY <1>1, <2>2, <2>3 DEF Awaiting, Stored, Writing, Compaction
  <2>7. ASSUME Trusted PROVE Separate(mgr') /\ HandApart' /\ HeldApart'
    <3>1. Held' \subseteq Held
      <4>1. Released \subseteq Released'
        BY <2>2, <1>1, <1>f, <2>3 DEF Released
      <4> QED BY <4>1, <1>1 DEF Held
    <3>2. HeldApart'
      BY <3>1, <1>1, <2>7 DEF HeapInv, HeldApart, Compaction, Writing
    <3>3. Separate(mgr') /\ HandApart'
      BY <1>1, <2>7, <2>2, <2>3 DEF HeapInv, HandApart
    <3> QED BY <3>2, <3>3
  <2> QED BY <1>1, <1>f, <2>3, <2>5, <2>6, <2>7, WriteGoesOn
<1> QED BY <1>3, <1>4

\* The numbers of a write job, for the steps that follow.
LEMMA AtFacts ==
    ASSUME HeapInv, NEW pc, At(pc)
    PROVE  /\ Writing /\ ~Compaction /\ job.pc = pc /\ HeapTypeOK /\ WriteTyped
           /\ job \in WriteJobs(Busy) /\ mgr \in Managers /\ Working \in Managers /\ Busy \subseteq Row
           /\ job.k \in Nat /\ job.k >= 1 /\ job.k <= Len(job.rows) + 1 /\ Len(job.rows) \in Nat
           /\ More => Here \in Busy /\ job.lens[Here] \in 0 .. MaxLen /\ desc[Here] \in Descs
           /\ Trusted => Separate(mgr) /\ HandApart /\ HeldApart
<1>1. Writing /\ job.pc = pc
  BY DEF At, Writing
<1>2. HeapTypeOK
  BY DEF HeapInv
<1>3. Trusted => Separate(mgr) /\ HandApart /\ HeldApart
  BY <1>1 DEF HeapInv, Writing, Compaction
<1> QED BY <1>1, <1>2, <1>3, WriteFacts DEF WriteTyped, HeapTypeOK

\* What Work leaves: the job, and the manager it works with.
LEMMA WorkFacts ==
    ASSUME job \in WriteJobs(Busy), NEW m \in Managers, NEW j \in WriteJobs(Busy), Work(m, j),
           j.trial = job.trial, mgr \in Managers
    PROVE  /\ job' \in WriteJobs(Busy) /\ job'.op = j.op /\ job'.trial = j.trial /\ job'.pc = j.pc
           /\ job'.rows = j.rows /\ job'.lens = j.lens /\ job'.k = j.k /\ job'.ext = j.ext
           /\ job'.off = j.off
           /\ mgr' \in Managers /\ (job.trial => mgr' = mgr) /\ (~job.trial => mgr' = m)
<1>1. job.trial \in BOOLEAN
  BY DEF WriteJobs
<1>2. CASE job.trial
  BY <1>2 DEF Work, WriteJobs
<1>3. CASE ~job.trial
  BY <1>3 DEF Work
<1> QED BY <1>2, <1>3

\* With every row released, every row awaits its payload.
LEMMA FreesEndStep ==
    ASSUME HeapInv, FreesEnd
    PROVE  HeapInv'
<1>1. At("free") /\ ~More /\ job' = [job EXCEPT !.pc = "alloc", !.k = 1]
      /\ UNCHANGED <<heap, desc, seeded, calls, faults, should, stale, mgr>>
  BY DEF FreesEnd, KeepTable
<1>2. /\ Writing /\ ~Compaction /\ job.pc = "free" /\ WriteTyped
      /\ job \in WriteJobs(Busy) /\ mgr \in Managers /\ Busy \subseteq Row
      /\ job.k \in Nat /\ job.k >= 1 /\ job.k <= Len(job.rows) + 1 /\ Len(job.rows) \in Nat
      /\ Trusted => Separate(mgr) /\ HandApart /\ HeldApart
  BY <1>1, AtFacts
<1>3. /\ job'.pc = "alloc" /\ job'.op = job.op /\ job'.trial = job.trial
      /\ job'.rows = job.rows /\ job'.k = 1 /\ job' \in WriteJobs(Busy)
  <2>1. job' = [job EXCEPT !.pc = "alloc", !.k = 1] /\ job \in WriteJobs(Busy)
    BY <1>1, <1>2
  <2>2. 1 \in Nat \ {0}
    OBVIOUS
  <2> QED BY <2>1, <2>2, Zenon DEF WriteJobs
<1>4. Writing' /\ Busy' = Busy /\ job.k > Len(job.rows)
  BY <1>1, <1>2, <1>3 DEF Writing, Busy, More
<1>5. WriteTyped'
  BY <1>2, <1>3, <1>4 DEF WriteTyped
<1>6. Awaiting \subseteq Awaiting' /\ Stored'
  BY <1>2, <1>3, <1>4 DEF Awaiting, Stored, Writing, Compaction
<1>7. ASSUME Trusted PROVE Separate(mgr') /\ HandApart' /\ HeldApart'
  <2>1. Released \subseteq Released'
    BY <1>2, <1>3, <1>4 DEF Released
  <2>2. Held' \subseteq Held
    BY <2>1, <1>1 DEF Held
  <2>3. HeldApart'
    BY <2>2, <1>1, <1>2, <1>7 DEF HeldApart
  <2>4. Separate(mgr') /\ HandApart'
    BY <1>1, <1>2, <1>3, <1>4, <1>7 DEF HandApart
  <2> QED BY <2>3, <2>4
<1> QED BY <1>1, <1>2, <1>4, <1>5, <1>6, <1>7, WriteGoesOn

\* The extent released takes up one of its neighbours in the list.
LEMMA MergeStep ==
    ASSUME HeapInv, Merge
    PROVE  HeapInv'
<1> DEFINE i == Min(Touching)
           t == Without(Working, i)
           e == Joined(Working, job.ext, i)
<1>1. At("merge") /\ Touching # {} /\ UNCHANGED <<heap, desc, seeded, calls, faults, should, stale>>
      /\ Work(t, [job EXCEPT !.ext = e])
  BY DEF Merge, KeepTable, Without
<1>2. /\ Writing /\ ~Compaction /\ job.pc = "merge" /\ WriteTyped /\ Working \in Managers
      /\ job \in WriteJobs(Busy) /\ mgr \in Managers /\ Busy \subseteq Row
      /\ job.k \in Nat /\ job.k >= 1 /\ job.k <= Len(job.rows) + 1 /\ Len(job.rows) \in Nat
      /\ Trusted => Separate(mgr) /\ HandApart /\ HeldApart
  BY <1>1, AtFacts
<1>3. job.ext \in HeapExtents /\ job.k <= Len(job.rows)
  BY <1>2 DEF WriteTyped
<1>4. i \in Touching
  <2>1. Touching \subseteq Nat
    BY <1>2, FreeFacts DEF Touching, OnLeft, OnRight
  <2> QED BY <2>1, <1>1, MinFacts
<1>5. i \in OnLeft(Working, job.ext) \cup OnRight(Working, job.ext) /\ i \in DOMAIN Working.free
  BY <1>4 DEF Touching, OnLeft, OnRight
<1> HIDE DEF i, t, e
<1>6. /\ e \in HeapExtents /\ e.off <= job.ext.off /\ End(job.ext) <= End(e)
      /\ Separate(Working) /\ Spare(Working, job.ext) => Spare(t, e)
      /\ \A d \in HeapExtents : Spare(Working, d) /\ Apart(d, job.ext) => Apart(d, e)
  BY <1>2, <1>3, <1>5, JoinFacts DEF t, e
<1>7. t \in Managers /\ (Separate(Working) => Separate(t))
  BY <1>2, <1>5, RemovedFree DEF t
<1>8. \A d : Spare(Working, d) => Spare(t, d)
  BY <1>2, <1>5, RemovedFree DEF t
<1>j. [job EXCEPT !.ext = e] \in WriteJobs(Busy)
  BY <1>2, <1>6 DEF WriteJobs, HeapExtents
<1>9. /\ job' \in WriteJobs(Busy) /\ job'.op = job.op /\ job'.trial = job.trial
      /\ job'.pc = "merge" /\ job'.rows = job.rows /\ job'.k = job.k /\ job'.ext = e
      /\ mgr' \in Managers /\ (job.trial => mgr' = mgr) /\ (~job.trial => mgr' = t)
  <2>1. PICK j : j = [job EXCEPT !.ext = e]
    OBVIOUS
  <2>2. /\ j \in WriteJobs(Busy) /\ j.op = job.op /\ j.trial = job.trial /\ j.pc = job.pc
        /\ j.rows = job.rows /\ j.k = job.k /\ j.ext = e
    BY <2>1, <1>2, <1>j DEF WriteJobs
  <2> QED BY <2>1, <2>2, <1>1, <1>2, <1>7, WorkFacts
<1>10. Writing' /\ Busy' = Busy /\ Here' = Here
  BY <1>2, <1>9 DEF Writing, Busy, Here
<1>11. WriteTyped'
  BY <1>2, <1>3, <1>6, <1>9, <1>10 DEF WriteTyped
<1>12. Awaiting \subseteq Awaiting' /\ Stored'
  BY <1>2, <1>9, <1>10 DEF Awaiting, Stored, Writing, Compaction
<1>13. Held' = Held
  <2>1. Released' = Released
    BY <1>2, <1>9, <1>10 DEF Released
  <2> QED BY <2>1, <1>1 DEF Held
<1>14. ASSUME Trusted PROVE Separate(mgr') /\ HandApart' /\ HeldApart'
  <2>1. CASE job.trial
    <3>1. mgr' = mgr
      BY <2>1, <1>9
    <3>2. HeldApart'
      BY <3>1, <1>1, <1>2, <1>13, <1>14 DEF HeldApart
    <3> QED BY <3>1, <3>2, <2>1, <1>1, <1>2, <1>9, <1>10, <1>14 DEF HandApart
  <2>2. CASE ~job.trial
    <3>1. mgr' = t /\ Working = mgr
      BY <2>2, <1>9 DEF Working
    <3>2. /\ Separate(mgr) /\ HeldApart /\ InHand(job.ext) /\ InHeap(desc[Here]) /\ Busy \cap stale = {}
          /\ job.ext.off <= desc[Here].off /\ End(desc[Here]) <= End(job.ext)
      BY <2>2, <1>2, <1>14 DEF HandApart
    <3>3. ASSUME NEW r \in Held, InHeap(desc[r])
          PROVE  desc[r] \in HeapExtents /\ Spare(mgr, desc[r]) /\ Apart(desc[r], job.ext)
      BY <3>2, <3>3, <1>2 DEF HeldApart, InHand, HeapInv, HeapTypeOK, HeapExtents, Held
    <3>4. \A r \in Held : InHeap(desc[r]) => Spare(mgr', desc[r]) /\ Apart(desc[r], e)
      BY <3>1, <3>3, <1>6, <1>8
    <3>5. HeldApart'
      BY <3>2, <3>4, <1>1, <1>13 DEF HeldApart
    <3>6. Spare(mgr', e) /\ Separate(mgr')
      BY <3>1, <3>2, <1>6, <1>7 DEF InHand
    <3>7. InHand(job.ext)'
      BY <3>4, <3>6, <1>1, <1>9, <1>13 DEF InHand
    <3>8. e.off <= desc[Here].off /\ End(desc[Here]) <= End(e)
      <4>1. desc[Here] \in HeapExtents
        BY <3>2, <1>2, <1>3, AtFacts, <1>1 DEF HeapExtents, More
      <4>2. /\ End(e) \in Nat /\ e.off \in Nat /\ End(job.ext) \in Nat /\ job.ext.off \in Nat
            /\ End(desc[Here]) \in Nat /\ desc[Here].off \in Nat
        BY <4>1, <1>3, <1>6, EndFacts
      <4> QED BY <4>2, <3>2, <1>6
    <3>9. HandApart'
      BY <3>2, <3>7, <3>8, <1>1, <1>9, <1>10 DEF HandApart
    <3> QED BY <3>5, <3>6, <3>9
  <2> QED BY <2>1, <2>2
<1> QED BY <1>1, <1>2, <1>9, <1>10, <1>11, <1>12, <1>14, WriteGoesOn

\* The extent released, merged with its neighbours, joins the free space.
LEMMA MergeEndsStep ==
    ASSUME HeapInv, MergeEnds
    PROVE  HeapInv'
<1> DEFINE t == IF End(job.ext) = Working.top THEN [Working EXCEPT !.top = job.ext.off]
                ELSE [Working EXCEPT !.free = Append(@, job.ext)]
<1>1. At("merge") /\ Touching = {} /\ UNCHANGED <<heap, desc, seeded, calls, faults, should, stale>>
      /\ Work(t, [job EXCEPT !.pc = "free", !.k = @ + 1])
  BY DEF MergeEnds, Freed, KeepTable
<1>2. /\ Writing /\ ~Compaction /\ job.pc = "merge" /\ WriteTyped /\ Working \in Managers
      /\ job \in WriteJobs(Busy) /\ mgr \in Managers /\ Busy \subseteq Row
      /\ job.k \in Nat /\ job.k >= 1 /\ job.k <= Len(job.rows) + 1 /\ Len(job.rows) \in Nat
      /\ Trusted => Separate(mgr) /\ HandApart /\ HeldApart
  BY <1>1, AtFacts
<1>3. job.ext \in HeapExtents /\ job.k <= Len(job.rows)
  BY <1>2 DEF WriteTyped
<1>4. OnLeft(Working, job.ext) \cup OnRight(Working, job.ext) = {}
  BY <1>1 DEF Touching
<1> HIDE DEF t
<1>5. /\ t \in Managers
      /\ Separate(Working) /\ Spare(Working, job.ext) => Separate(t)
      /\ Spare(Working, job.ext) =>
            \A d \in HeapExtents : Spare(Working, d) /\ Apart(d, job.ext) => Spare(t, d)
  BY <1>2, <1>3, <1>4, ReleaseFacts DEF t
<1>6. /\ job' \in WriteJobs(Busy) /\ job'.op = job.op /\ job'.trial = job.trial
      /\ job'.pc = "free" /\ job'.rows = job.rows /\ job'.k = job.k + 1
      /\ mgr' \in Managers /\ (job.trial => mgr' = mgr) /\ (~job.trial => mgr' = t)
  <2>1. PICK n : n = job.k + 1
    OBVIOUS
  <2>2. PICK j : j = [job EXCEPT !.pc = "free", !.k = n]
    OBVIOUS
  <2>3. n \in Nat \ {0} /\ Work(t, j)
    BY <2>1, <2>2, <1>1, <1>2
  <2>4. /\ j \in WriteJobs(Busy) /\ j.op = job.op /\ j.trial = job.trial /\ j.pc = "free"
        /\ j.rows = job.rows /\ j.k = n
    BY <2>2, <2>3, <1>2, Zenon DEF WriteJobs
  <2> QED BY <2>1, <2>3, <2>4, <1>2, <1>5, WorkFacts
<1>7. Writing' /\ Busy' = Busy
  BY <1>2, <1>6 DEF Writing, Busy
<1>8. WriteTyped'
  BY <1>2, <1>3, <1>6, <1>7 DEF WriteTyped
<1>9. Awaiting \subseteq Awaiting' /\ Stored'
  BY <1>2, <1>6, <1>7 DEF Awaiting, Stored, Writing, Compaction
<1>10. Held' = Held
  <2>1. Released' = Released
    <3>1. PICK k, n : k = job.k /\ n = job'.k
      OBVIOUS
    <3>2. k \in Nat /\ n = k + 1
      BY <3>1, <1>2, <1>6
    <3>3. \A x \in 1 .. Len(job.rows) : x < n <=> x <= k
      BY <3>2
    <3> QED BY <3>1, <3>3, <1>2, <1>6, <1>7 DEF Released
  <2> QED BY <2>1, <1>1 DEF Held
<1>11. ASSUME Trusted PROVE Separate(mgr') /\ HandApart' /\ HeldApart'
  <2>1. Busy \cap stale = {}
    BY <1>2, <1>11 DEF HandApart
  <2>2. HandApart'
    BY <2>1, <1>1, <1>6, <1>7 DEF HandApart
  <2>3. CASE job.trial
    <3>1. mgr' = mgr
      BY <2>3, <1>6
    <3>2. HeldApart'
      BY <3>1, <1>1, <1>2, <1>10, <1>11 DEF HeldApart
    <3> QED BY <3>1, <3>2, <2>2, <1>2, <1>11
  <2>4. CASE ~job.trial
    <3>1. mgr' = t /\ Working = mgr
      BY <2>4, <1>6 DEF Working
    <3>2. Separate(mgr) /\ HeldApart /\ InHand(job.ext)
      BY <2>4, <1>2, <1>11 DEF HandApart
    <3>3. ASSUME NEW r \in Held, InHeap(desc[r])
          PROVE  desc[r] \in HeapExtents /\ Spare(mgr, desc[r]) /\ Apart(desc[r], job.ext)
      BY <3>2, <3>3, <1>2 DEF HeldApart, InHand, HeapInv, HeapTypeOK, HeapExtents, Held
    <3>4. \A r \in Held : InHeap(desc[r]) => Spare(mgr', desc[r])
      BY <3>1, <3>2, <3>3, <1>5 DEF InHand
    <3>5. HeldApart'
      BY <3>2, <3>4, <1>1, <1>10 DEF HeldApart
    <3>6. Separate(mgr')
      BY <3>1, <3>2, <1>5 DEF InHand
    <3> QED BY <3>5, <3>6, <2>2
  <2> QED BY <2>3, <2>4
<1> QED BY <1>1, <1>2, <1>6, <1>7, <1>8, <1>9, <1>11, WriteGoesOn

\* A row that gets nothing is given no extent.
LEMMA AllocNoneStep ==
    ASSUME HeapInv, AllocNone
    PROVE  HeapInv'
<1>1. /\ At("alloc") /\ More /\ job.lens[Here] = 0
      /\ UNCHANGED <<heap, desc, seeded, calls, faults, should, stale, mgr>>
  BY DEF AllocNone, KeepTable
<1>2. /\ Writing /\ ~Compaction /\ job.pc = "alloc" /\ WriteTyped
      /\ job \in WriteJobs(Busy) /\ mgr \in Managers /\ Busy \subseteq Row
      /\ job.k \in Nat /\ job.k >= 1 /\ job.k <= Len(job.rows) + 1 /\ Len(job.rows) \in Nat
      /\ Trusted => Separate(mgr) /\ HandApart /\ HeldApart
  BY <1>1, AtFacts
<1>3. job.k <= Len(job.rows) /\ job.trial \in BOOLEAN
  BY <1>1, <1>2 DEF More, WriteJobs
<1>4. CASE job.trial
  <2>1. /\ job'.pc = "alloc" /\ job'.op = job.op /\ job'.trial = job.trial
        /\ job'.rows = job.rows /\ job'.k = job.k + 1 /\ job' \in WriteJobs(Busy)
    <3>1. PICK n : n = job.k + 1
      OBVIOUS
    <3>2. n \in Nat \ {0} /\ job' = [job EXCEPT !.k = n]
      BY <3>1, <1>2, <1>4 DEF AllocNone
    <3>3. /\ job'.pc = job.pc /\ job'.op = job.op /\ job'.trial = job.trial
          /\ job'.rows = job.rows /\ job'.k = n /\ job' \in WriteJobs(Busy)
      BY <3>2, <1>2, Zenon DEF WriteJobs
    <3> QED BY <3>1, <3>3, <1>2
  <2>2. Writing' /\ Busy' = Busy
    BY <2>1, <1>2 DEF Writing, Busy
  <2>3. WriteTyped'
    BY <2>1, <2>2, <1>2, <1>3 DEF WriteTyped
  <2>4. Awaiting \subseteq Awaiting' /\ Stored' /\ Released = {} /\ Released' = {}
    BY <1>2, <1>4, <2>1, <2>2 DEF Awaiting, Stored, Writing, Compaction, Released
  <2>5. ASSUME Trusted PROVE Separate(mgr') /\ HandApart' /\ HeldApart'
    <3>1. Held' = Held
      BY <2>4, <1>1 DEF Held
    <3>2. HeldApart'
      BY <3>1, <1>1, <1>2, <2>5 DEF HeldApart
    <3> QED BY <3>2, <1>1, <1>2, <1>4, <2>1, <2>2, <2>5 DEF HandApart
  <2> QED BY <1>1, <1>2, <2>2, <2>3, <2>4, <2>5, WriteGoesOn
<1>5. CASE ~job.trial
  <2>1. /\ job'.pc = "desc" /\ job'.op = job.op /\ job'.trial = job.trial /\ job'.lens = job.lens
        /\ job'.rows = job.rows /\ job'.k = job.k /\ job'.off = 0 /\ job' \in WriteJobs(Busy)
    <3>1. job' = [job EXCEPT !.pc = "desc", !.off = 0]
      BY <1>5 DEF AllocNone
    <3>2. 0 \in Nat
      OBVIOUS
    <3> QED BY <3>1, <3>2, <1>2, Zenon DEF WriteJobs
  <2>2. Writing' /\ Busy' = Busy /\ Here' = Here
    BY <2>1, <1>2 DEF Writing, Busy, Here
  <2>3. WriteTyped'
    BY <2>1, <2>2, <1>1, <1>2, <1>3, <1>5 DEF WriteTyped
  <2>4. Released' = Released
    BY <2>1, <2>2, <1>2 DEF Released
  <2>5. Awaiting \subseteq Awaiting'
    BY <1>1, <1>2, <1>5, <2>1, <2>2, <2>4 DEF Awaiting, Writing, Compaction
  <2>6. Stored'
    BY <2>1, <2>2, <1>1 DEF Stored
  <2>7. ASSUME Trusted PROVE Separate(mgr') /\ HandApart' /\ HeldApart'
    <3>1. Held' = Held
      BY <2>4, <1>1 DEF Held
    <3>2. HeldApart'
      BY <3>1, <1>1, <1>2, <2>7 DEF HeldApart
    <3> QED BY <3>2, <1>1, <1>2, <1>5, <2>1, <2>2, <2>7 DEF HandApart
  <2> QED BY <1>1, <1>2, <2>2, <2>3, <2>5, <2>6, <2>7, WriteGoesOn
<1> QED BY <1>4, <1>5

\* The trial has changed only the copy of the manager.
LEMMA TrialEndsStep ==
    ASSUME HeapInv, TrialEnds
    PROVE  HeapInv'
<1>1. /\ At("alloc") /\ job.trial /\ job' = [job EXCEPT !.trial = FALSE, !.pc = "free", !.k = 1]
      /\ UNCHANGED <<heap, desc, seeded, calls, faults, should, stale, mgr>>
  BY DEF TrialEnds, KeepTable
<1>2. /\ Writing /\ ~Compaction /\ job.pc = "alloc" /\ WriteTyped
      /\ job \in WriteJobs(Busy) /\ mgr \in Managers /\ Busy \subseteq Row /\ Len(job.rows) \in Nat
      /\ Trusted => Separate(mgr) /\ HandApart /\ HeldApart
  BY <1>1, AtFacts
<1>3. /\ job'.pc = "free" /\ job'.op = job.op /\ job'.trial = FALSE
      /\ job'.rows = job.rows /\ job'.k = 1 /\ job' \in WriteJobs(Busy)
  <2>1. 1 \in Nat \ {0} /\ FALSE \in BOOLEAN
    OBVIOUS
  <2> QED BY <2>1, <1>1, <1>2, Zenon DEF WriteJobs
<1>4. Writing' /\ Busy' = Busy
  BY <1>2, <1>3 DEF Writing, Busy
<1>5. WriteTyped'
  BY <1>1, <1>2, <1>3, <1>4 DEF WriteTyped
<1>6. Awaiting \subseteq Awaiting' /\ Stored'
  BY <1>1, <1>2, <1>3, <1>4 DEF Awaiting, Stored, Writing, Compaction
<1>7. Released = {} /\ Released' = {}
  BY <1>1, <1>2, <1>3, <1>4 DEF Released
<1>8. ASSUME Trusted PROVE Separate(mgr') /\ HandApart' /\ HeldApart'
  <2>1. Held' = Held
    BY <1>1, <1>7 DEF Held
  <2>2. HeldApart'
    BY <2>1, <1>1, <1>2, <1>8 DEF HeldApart
  <2> QED BY <2>2, <1>1, <1>2, <1>3, <1>4, <1>8 DEF HandApart
<1> QED BY <1>1, <1>2, <1>4, <1>5, <1>6, <1>8, WriteGoesOn

\* The extent allocated was free, and belongs to the job.
LEMMA AllocStep ==
    ASSUME HeapInv, Alloc
    PROVE  HeapInv'
<1> DEFINE n == job.lens[Here]
           off == Offset(Working, n)
           t == Take(Working, n)
           b == [off |-> off, len |-> n]
<1>1. /\ At("alloc") /\ More /\ n > 0 /\ HasRoom(Working, n)
      /\ Work(t, IF job.trial THEN [job EXCEPT !.plan[Here] = off, !.k = @ + 1]
                 ELSE [job EXCEPT !.off = off, !.pc = "drain"])
      /\ UNCHANGED <<heap, desc, seeded, calls, faults, should, stale>>
  BY DEF Alloc, Allocates, KeepTable
<1>2. /\ Writing /\ ~Compaction /\ job.pc = "alloc" /\ WriteTyped /\ Working \in Managers
      /\ job \in WriteJobs(Busy) /\ mgr \in Managers /\ Busy \subseteq Row
      /\ job.k \in Nat /\ job.k >= 1 /\ job.k <= Len(job.rows) + 1 /\ Len(job.rows) \in Nat
      /\ Here \in Busy /\ job.lens[Here] \in 0 .. MaxLen
      /\ Trusted => Separate(mgr) /\ HandApart /\ HeldApart
  BY <1>1, AtFacts
<1>3. job.k <= Len(job.rows) /\ job.trial \in BOOLEAN /\ n \in Nat
  BY <1>1, <1>2, HeapAssumption DEF More, WriteJobs
<1> HIDE DEF n, off, t
<1>4. /\ t \in Managers /\ b \in HeapExtents
      /\ Separate(Working) => Separate(t) /\ Spare(t, b)
      /\ Separate(Working) =>
            \A d \in HeapExtents : Spare(Working, d) => Spare(t, d) /\ Apart(d, b)
  BY <1>1, <1>2, <1>3, TakeFacts DEF off, t
<1>5. off \in Nat /\ off + n <= Cap
  BY <1>4, ExtentFacts
<1>6. CASE job.trial
  <2>1. /\ job'.pc = "alloc" /\ job'.op = job.op /\ job'.trial = job.trial
        /\ job'.rows = job.rows /\ job'.k = job.k + 1 /\ job' \in WriteJobs(Busy)
        /\ mgr' = mgr
    <3>1. PICK k, p : k = job.k + 1 /\ p = [job.plan EXCEPT ![Here] = off]
      OBVIOUS
    <3>2. PICK j : j = [job EXCEPT !.plan = p, !.k = k]
      OBVIOUS
    <3>3. k \in Nat \ {0} /\ Work(t, j)
      BY <3>1, <3>2, <1>1, <1>2, <1>6
    <3>4. p \in [Busy -> Nat]
      BY <3>1, <1>2, <1>5 DEF WriteJobs
    <3>5. /\ j \in WriteJobs(Busy) /\ j.op = job.op /\ j.trial = job.trial /\ j.pc = job.pc
          /\ j.rows = job.rows /\ j.k = k
      BY <3>2, <3>3, <3>4, <1>2, Zenon DEF WriteJobs
    <3> QED BY <3>1, <3>3, <3>5, <1>2, <1>4, <1>6, WorkFacts
  <2>2. Writing' /\ Busy' = Busy
    BY <2>1, <1>2 DEF Writing, Busy
  <2>3. WriteTyped'
    BY <2>1, <2>2, <1>2, <1>3 DEF WriteTyped
  <2>4. Awaiting \subseteq Awaiting' /\ Stored' /\ Released = {} /\ Released' = {}
    BY <1>2, <1>6, <2>1, <2>2 DEF Awaiting, Stored, Writing, Compaction, Released
  <2>5. ASSUME Trusted PROVE Separate(mgr') /\ HandApart' /\ HeldApart'
    <3>1. Held' = Held
      BY <2>4, <1>1 DEF Held
    <3>2. HeldApart'
      BY <3>1, <1>1, <2>1, <1>2, <2>5 DEF HeldApart
    <3> QED BY <3>2, <1>1, <1>2, <1>6, <2>1, <2>2, <2>5 DEF HandApart
  <2> QED BY <1>1, <1>2, <2>1, <2>2, <2>3, <2>4, <2>5, WriteGoesOn
<1>7. CASE ~job.trial
  <2>1. /\ job'.pc = "drain" /\ job'.op = job.op /\ job'.trial = job.trial /\ job'.lens = job.lens
        /\ job'.rows = job.rows /\ job'.k = job.k /\ job'.off = off /\ job' \in WriteJobs(Busy)
        /\ mgr' = t /\ Working = mgr
    <3>1. PICK j : j = [job EXCEPT !.off = off, !.pc = "drain"]
      OBVIOUS
    <3>2. Work(t, j)
      BY <3>1, <1>1, <1>7
    <3>3. /\ j \in WriteJobs(Busy) /\ j.op = job.op /\ j.trial = job.trial /\ j.pc = "drain"
          /\ j.rows = job.rows /\ j.k = job.k /\ j.lens = job.lens /\ j.off = off
      BY <3>1, <1>2, <1>5, Zenon DEF WriteJobs
    <3>4. Working = mgr
      BY <1>7 DEF Working
    <3> QED BY <3>2, <3>3, <3>4, <1>2, <1>4, <1>7, WorkFacts
  <2>2. Writing' /\ Busy' = Busy /\ Here' = Here
    BY <2>1, <1>2 DEF Writing, Busy, Here
  <2>3. job'.lens[Here'] = n
    BY <2>1, <2>2 DEF n
  <2>4. WriteTyped'
    BY <2>1, <2>2, <2>3, <1>1, <1>2, <1>3, <1>5, <1>7 DEF WriteTyped
  <2>5. Released' = Released
    BY <2>1, <2>2, <1>2 DEF Released
  <2>6. Awaiting \subseteq Awaiting' /\ Stored'
    BY <1>1, <1>2, <1>7, <2>1, <2>2, <2>5 DEF Awaiting, Writing, Compaction, Stored
  <2>7. Held' = Held
    BY <2>5, <1>1 DEF Held
  <2>8. ASSUME Trusted PROVE Separate(mgr') /\ HandApart' /\ HeldApart'
    <3>1. Separate(mgr) /\ HeldApart /\ Busy \cap stale = {}
      BY <1>2, <2>8 DEF HandApart
    <3>2. ASSUME NEW r \in Held, InHeap(desc[r])
          PROVE  Spare(mgr', desc[r]) /\ Apart(desc[r], b)
      <4>1. desc[r] \in HeapExtents /\ Spare(mgr, desc[r])
        BY <3>1, <3>2 DEF HeldApart, HeapInv, HeapTypeOK, HeapExtents, Held
      <4> QED BY <4>1, <3>1, <1>4, <2>1
    <3>3. HeldApart'
      BY <3>1, <3>2, <1>1, <2>7 DEF HeldApart
    <3>4. Block' = b
      BY <2>1, <2>3 DEF Block
    <3>5. InHand(Block)'
      BY <3>1, <3>2, <3>4, <1>1, <1>4, <2>1, <2>7 DEF InHand
    <3>6. Separate(mgr')
      BY <3>1, <1>4, <2>1
    <3>7. HandApart'
      BY <3>1, <3>5, <1>1, <2>1, <2>2 DEF HandApart
    <3> QED BY <3>3, <3>6, <3>7
  <2> QED BY <1>1, <1>2, <1>4, <2>1, <2>2, <2>4, <2>6, <2>8, WriteGoesOn
<1> QED BY <1>3, <1>6, <1>7

\* The payload, or a part of it, changes no other cell.
LEMMA DrainFacts ==
    ASSUME HeapInv, At("drain"), NEW n \in 0 .. job.lens[Here], heap' = Drained(n), desc' = desc
    PROVE  /\ heap' \in [0 .. Cap - 1 -> Values]
           /\ \A r \in Row \ stale : r \notin Awaiting => Read(r)' = Read(r)
           /\ \A i \in 1 .. n : heap'[job.off + i - 1] = Payload(n)[i]
<1>1. /\ Writing /\ ~Compaction /\ job.pc = "drain" /\ HeapTypeOK /\ WriteTyped
      /\ job \in WriteJobs(Busy) /\ Busy \subseteq Row
      /\ job.k \in Nat /\ Len(job.rows) \in Nat
      /\ Trusted => HandApart /\ HeldApart
  BY AtFacts
<1>2. /\ job.off \in Nat /\ ~job.trial /\ job.lens[Here] > 0 /\ job.off + job.lens[Here] <= Cap
      /\ More
  BY <1>1 DEF WriteTyped, WriteJobs, More
<1>3. Here \in Busy /\ Here \in Nat /\ job.lens[Here] \in Nat /\ calls \in Nat
      /\ heap \in [0 .. Cap - 1 -> Values] /\ desc \in [Row -> Descs]
  <2>1. Here \in Busy /\ job.lens[Here] \in 0 .. MaxLen
    BY <1>2, AtFacts
  <2>2. Row \subseteq Nat /\ MaxLen \in Nat /\ MaxCalls \in Nat
    BY HeapAssumption
  <2>3. calls \in 0 .. MaxCalls /\ heap \in [0 .. Cap - 1 -> Values] /\ desc \in [Row -> Descs]
    BY <1>1 DEF HeapTypeOK
  <2> QED BY <2>1, <2>2, <2>3, <1>1
<1>4. PICK o, l : o = job.off /\ l = job.lens[Here]
  OBVIOUS
<1>5. o \in Nat /\ l \in Nat /\ n \in Nat /\ n <= l /\ o + l <= Cap /\ Cap \in Nat
  BY <1>2, <1>3, <1>4, HeapAssumption
<1>6. \A i \in 1 .. n : Payload(n)[i] = <<calls, Here, i>> /\ Payload(n)[i] \in Values
  BY <1>3, <1>5 DEF Payload, Values
<1>7. /\ DOMAIN heap' = 0 .. Cap - 1
      /\ \A b \in 0 .. Cap - 1 :
           heap'[b] = IF b \in o .. o + n - 1 THEN Payload(n)[b - o + 1] ELSE heap[b]
      /\ heap' = [b \in 0 .. Cap - 1 |-> heap'[b]]
  BY <1>3, <1>4 DEF Drained
<1>8. \A b \in o .. o + n - 1 : b - o + 1 \in 1 .. n
  BY <1>5
<1>9. heap' \in [0 .. Cap - 1 -> Values]
  <2>1. ASSUME NEW b \in 0 .. Cap - 1 PROVE heap'[b] \in Values
    BY <1>3, <1>6, <1>7, <1>8
  <2> QED BY <2>1, <1>7
<1>10. ASSUME NEW i \in 1 .. n PROVE heap'[o + i - 1] = Payload(n)[i]
  <2>1. o + i - 1 \in 0 .. Cap - 1 /\ o + i - 1 \in o .. o + n - 1 /\ (o + i - 1) - o + 1 = i
    BY <1>5
  <2> QED BY <2>1, <1>7
<1>11. ASSUME NEW r \in Row \ stale, r \notin Awaiting PROVE Read(r)' = Read(r)
  <2>1. CASE ~InHeap(desc[r])
    BY <2>1 DEF Read, ReadAs
  <2>2. CASE InHeap(desc[r])
    <3>1. Trusted
      BY <1>1 DEF Trusted, HeapTypeOK
    <3>2. r \in Held
      BY <1>1, <1>2, <1>11, <2>2 DEF Awaiting, Held
    <3>3. Apart(desc[r], Block)
      BY <3>1, <3>2, <2>2, <1>1, <1>2 DEF HandApart, InHand
    <3>4. PICK d, a, c : d = desc[r] /\ a = d.off /\ c = d.len
      OBVIOUS
    <3>5. a \in Nat /\ c \in Nat /\ a + c <= Cap
      BY <3>4, <2>2, <1>3, ExtentFacts DEF HeapExtents
    <3>6. a + c <= o \/ o + l <= a
      BY <3>3, <3>4, <1>4 DEF Apart, Block, End
    <3>7. ASSUME NEW i \in 1 .. c PROVE heap'[a + i - 1] = heap[a + i - 1]
      <4>1. a + i - 1 \in 0 .. Cap - 1 /\ a + i - 1 \notin o .. o + n - 1
        BY <3>5, <3>6, <1>5
      <4> QED BY <4>1, <1>7
    <3>8. Read(r) = [i \in 1 .. c |-> heap[a + i - 1]]
      BY <2>2, <3>4 DEF Read, ReadAs
    <3>9. Read(r)' = [i \in 1 .. c |-> heap'[a + i - 1]]
      BY <2>2, <3>4 DEF Read, ReadAs, InHeap, End
    <3> QED BY <3>7, <3>8, <3>9
  <2> QED BY <2>1, <2>2
<1> QED BY <1>4, <1>9, <1>10, <1>11

\* With the payload in its place, the descriptor can be written.
LEMMA DrainStep ==
    ASSUME HeapInv, Drain
    PROVE  HeapInv'
<1>1. /\ At("drain") /\ heap' = Drained(job.lens[Here]) /\ job' = [job EXCEPT !.pc = "desc"]
      /\ UNCHANGED <<desc, mgr, seeded, calls, faults, should, stale>>
  BY DEF Drain
<1>2. /\ Writing /\ ~Compaction /\ job.pc = "drain" /\ HeapTypeOK /\ WriteTyped
      /\ job \in WriteJobs(Busy)
      /\ Trusted => Separate(mgr) /\ HandApart /\ HeldApart
  BY <1>1, AtFacts
<1>3. job.k <= Len(job.rows) /\ ~job.trial /\ job.lens[Here] > 0 /\ job.lens[Here] \in Nat
      /\ job.off + job.lens[Here] <= Cap
  <2>1. job.k <= Len(job.rows) /\ ~job.trial /\ job.lens[Here] > 0
        /\ job.off + job.lens[Here] <= Cap
    BY <1>2 DEF WriteTyped
  <2>2. job.lens[Here] \in 0 .. MaxLen
    BY <2>1, <1>1, AtFacts DEF More
  <2> QED BY <2>1, <2>2, HeapAssumption
<1>4. job.lens[Here] \in 0 .. job.lens[Here]
  BY <1>3
<1>5. /\ heap' \in [0 .. Cap - 1 -> Values]
      /\ \A r \in Row \ stale : r \notin Awaiting => Read(r)' = Read(r)
      /\ \A i \in 1 .. job.lens[Here] : heap'[job.off + i - 1] = Payload(job.lens[Here])[i]
  BY <1>1, <1>4, DrainFacts
<1>6. /\ job'.pc = "desc" /\ job'.op = job.op /\ job'.trial = job.trial /\ job'.lens = job.lens
      /\ job'.rows = job.rows /\ job'.k = job.k /\ job'.off = job.off /\ job' \in WriteJobs(Busy)
  BY <1>1, <1>2, Zenon DEF WriteJobs
<1>7. Writing' /\ Busy' = Busy /\ Here' = Here /\ ~Compaction'
  BY <1>2, <1>6 DEF Writing, Busy, Here, Compaction
<1>8. WriteTyped'
  BY <1>2, <1>3, <1>6, <1>7 DEF WriteTyped
<1>9. HeapTypeOK'
  BY <1>1, <1>2, <1>5, <1>7, <1>8 DEF HeapTypeOK
<1>10. Released' = Released
  BY <1>2, <1>6, <1>7 DEF Released
<1>11. Awaiting' = Awaiting
  BY <1>1, <1>2, <1>6, <1>7, <1>10 DEF Awaiting
<1>12. Kept'
  BY <1>1, <1>5, <1>11 DEF HeapInv, Kept
<1>13. Stored'
  BY <1>1, <1>5, <1>6, <1>7 DEF Stored, Payload
<1>14. Packs' /\ Points'
  BY <1>7 DEF Packs, Points
<1>15. ASSUME Trusted' PROVE Separate(mgr)' /\ HandApart' /\ HeldApart'
  <2>1. Trusted /\ Held' = Held /\ Block' = Block
    BY <1>1, <1>6, <1>7, <1>10, <1>15 DEF Trusted, Held, Block
  <2>2. Separate(mgr)' /\ HeldApart'
    BY <2>1, <1>1, <1>2 DEF HeldApart, Separate
  <2>3. InHand(Block) /\ Busy \cap stale = {}
    BY <2>1, <1>2, <1>3 DEF HandApart
  <2>4. InHand(Block)'
    BY <2>1, <2>3, <1>1 DEF InHand
  <2> QED BY <2>2, <2>3, <2>4, <1>1, <1>6, <1>7 DEF HandApart
<1> QED BY <1>9, <1>12, <1>13, <1>14, <1>15 DEF HeapInv

\* The cell is held again, with the extent that was the job's.
LEMMA WriteDescStep ==
    ASSUME HeapInv, WriteDesc
    PROVE  HeapInv'
<1>1. /\ At("desc")
      /\ desc' = [desc EXCEPT ![Here] = [len |-> job.lens[Here], off |-> job.off]]
      /\ should' = [should EXCEPT ![Here] = Payload(job.lens[Here])]
      /\ job' = [job EXCEPT !.pc = "alloc", !.k = @ + 1]
      /\ UNCHANGED <<heap, mgr, seeded, calls, faults, stale>>
  BY DEF WriteDesc
<1>2. /\ Writing /\ ~Compaction /\ job.pc = "desc" /\ HeapTypeOK /\ WriteTyped
      /\ job \in WriteJobs(Busy) /\ Busy \subseteq Row
      /\ job.k \in Nat /\ job.k >= 1 /\ Len(job.rows) \in Nat
      /\ Trusted => Separate(mgr) /\ HandApart /\ HeldApart
  BY <1>1, AtFacts
<1>3. job.k <= Len(job.rows) /\ ~job.trial
  BY <1>2 DEF WriteTyped
<1>p. PICK h, n, o, k : h = Here /\ n = job.lens[Here] /\ o = job.off /\ k = job.k
  OBVIOUS
<1>4. /\ h \in Busy /\ h \in Row /\ h \in Nat /\ n \in Nat /\ o \in Nat /\ k \in Nat /\ k >= 1
      /\ (n > 0 => o + n <= Cap)
  <2>1. Here \in Busy /\ job.lens[Here] \in 0 .. MaxLen
    BY <1>1, <1>3, AtFacts DEF More
  <2>2. n > 0 => o + n <= Cap
    BY <1>p, <1>2 DEF WriteTyped
  <2>3. job.off \in Nat
    BY <1>2 DEF WriteJobs
  <2>4. Row \subseteq Nat /\ MaxLen \in Nat
    BY HeapAssumption
  <2>5. h \in Busy /\ h \in Row /\ h \in Nat
    BY <2>1, <2>4, <1>2, <1>p
  <2>6. n \in Nat
    BY <2>1, <2>4, <1>p
  <2>7. o \in Nat /\ k \in Nat /\ k >= 1
    BY <2>3, <1>2, <1>p
  <2> QED BY <2>2, <2>5, <2>6, <2>7
<1>5. /\ job'.pc = "alloc" /\ job'.op = job.op /\ job'.trial = job.trial
      /\ job'.rows = job.rows /\ job'.k = k + 1 /\ job' \in WriteJobs(Busy)
  <2>1. PICK l : l = k + 1
    OBVIOUS
  <2>2. l \in Nat \ {0} /\ job' = [job EXCEPT !.pc = "alloc", !.k = l]
    BY <2>1, <1>1, <1>4, <1>p
  <2>3. /\ job'.pc = "alloc" /\ job'.op = job.op /\ job'.trial = job.trial
        /\ job'.rows = job.rows /\ job'.k = l /\ job' \in WriteJobs(Busy)
    BY <2>2, <1>2, Zenon DEF WriteJobs
  <2> QED BY <2>1, <2>3
<1>6. Writing' /\ Busy' = Busy /\ ~Compaction'
  BY <1>2, <1>5 DEF Writing, Busy, Compaction
<1>7. WriteTyped'
  BY <1>2, <1>3, <1>5, <1>6, <1>p DEF WriteTyped
<1>8. PICK d : d = [len |-> n, off |-> o]
  OBVIOUS
<1>9. /\ d \in Descs /\ d.len = n /\ d.off = o /\ (n > 0 => d \in HeapExtents)
      /\ (InHeap(d) <=> n > 0) /\ desc' = [desc EXCEPT ![h] = d]
      /\ desc' \in [Row -> Descs] /\ desc'[h] = d
      /\ \A r \in Row : r # h => desc'[r] = desc[r]
  <2>1. d \in Descs /\ d.len = n /\ d.off = o
    BY <1>4, <1>8 DEF Descs
  <2>2. InHeap(d) <=> n > 0
    BY <2>1, <1>4 DEF InHeap, End
  <2>3. desc' = [desc EXCEPT ![h] = d] /\ desc \in [Row -> Descs]
    BY <1>1, <1>2, <1>8, <1>p DEF HeapTypeOK
  <2> QED BY <2>1, <2>2, <2>3, <1>4 DEF HeapExtents
<1>10. Payload(n) \in Seq(Values) /\ DOMAIN Payload(n) = 1 .. n
       /\ Payload(n) = [i \in 1 .. n |-> Payload(n)[i]]
  <2>1. calls \in Nat
    BY <1>2, HeapAssumption DEF HeapTypeOK
  <2>2. Payload(n) \in [1 .. n -> Values]
    BY <2>1, <1>4, <1>p DEF Payload, Values
  <2> QED BY <2>2, <1>4, FunctionIsSeq
<1>11. should' \in [Row -> Seq(Values)] /\ should'[h] = Payload(n)
       /\ \A r \in Row : r # h => should'[r] = should[r]
  BY <1>1, <1>2, <1>4, <1>10, <1>p DEF HeapTypeOK
<1>12. HeapTypeOK'
  BY <1>1, <1>2, <1>6, <1>7, <1>9, <1>11 DEF HeapTypeOK
<1>13. Released' = Released \ {h}
  <2>1. Released = {job.rows[j] : j \in {i \in 1 .. Len(job.rows) : i >= k}}
    BY <1>2, <1>3, <1>p DEF Released
  <2>2. Released' = {job.rows[j] : j \in {i \in 1 .. Len(job.rows) : i >= k + 1}}
    BY <1>3, <1>5, <1>6 DEF Released
  <2>3. h = job.rows[k] /\ k \in 1 .. Len(job.rows)
    BY <1>2, <1>3, <1>4, <1>p DEF Here
  <2>4. \A i, j \in 1 .. Len(job.rows) : job.rows[i] = job.rows[j] => i = j
    BY <1>2, WriteFacts
  <2>5. \A i \in 1 .. Len(job.rows) : i >= k /\ i # k <=> i >= k + 1
    BY <1>4
  <2> HIDE <1>p
  <2> QED BY <2>1, <2>2, <2>3, <2>4, <2>5
<1>14. ASSUME NEW r \in Row \ stale, r \notin Awaiting' PROVE Read(r)' = should'[r]
  <2>1. CASE r = h
    <3>1. CASE n = 0
      <4>1. Read(r)' = <<>>
        BY <3>1, <2>1, <1>9 DEF Read, ReadAs, InHeap, End
      <4>2. Payload(n) = <<>>
        BY <3>1, <1>10
      <4> QED BY <4>1, <4>2, <2>1, <1>11
    <3>2. CASE n > 0
      <4>1. Read(r)' = [i \in 1 .. n |-> heap[o + i - 1]]
        BY <3>2, <2>1, <1>1, <1>9 DEF Read, ReadAs, InHeap, End
      <4>2. \A i \in 1 .. n : heap[o + i - 1] = Payload(n)[i]
        BY <1>2, <1>p DEF HeapInv, Stored
      <4> QED BY <4>1, <4>2, <1>10, <1>11, <2>1
    <3> QED BY <3>1, <3>2, <1>4
  <2>2. CASE r # h
    <3>1. r \notin Awaiting
      BY <2>2, <1>2, <1>3, <1>5, <1>6, <1>9, <1>13, <1>14 DEF Awaiting, InHeap, End
    <3>2. Read(r)' = Read(r)
      BY <2>2, <1>1, <1>9 DEF Read, ReadAs, InHeap, End
    <3> QED BY <3>1, <3>2, <2>2, <1>11 DEF HeapInv, Kept
  <2> QED BY <2>1, <2>2
<1>15. Kept' /\ Stored' /\ Packs' /\ Points'
  BY <1>1, <1>5, <1>6, <1>14 DEF Kept, Stored, Packs, Points
<1>16. ASSUME Trusted' PROVE Separate(mgr)' /\ HandApart' /\ HeldApart'
  <2>1. Trusted
    BY <1>1, <1>16 DEF Trusted
  <2>2. /\ Separate(mgr) /\ HeldApart /\ Busy \cap stale = {}
        /\ n > 0 => InHand(Block) /\ Block = [off |-> o, len |-> n]
    BY <2>1, <1>2, <1>3, <1>p DEF HandApart, Block
  <2>3. Held' \subseteq Held \cup {h}
    BY <1>1, <1>13 DEF Held
  <2>4. h \notin Held
    <3>1. h \in Released
      <4>1. k \in 1 .. Len(job.rows) /\ h = job.rows[k]
        BY <1>2, <1>3, <1>4, <1>p DEF Here
      <4>2. Released = {job.rows[j] : j \in {i \in 1 .. Len(job.rows) : i >= k}}
        BY <1>2, <1>3, <1>p DEF Released
      <4> QED BY <4>1, <4>2
    <3> QED BY <3>1 DEF Held
  <2>5. ASSUME n > 0
        PROVE  Spare(mgr, d) /\ \A r \in Held : InHeap(desc[r]) => Apart(desc[r], d)
    BY <2>2, <2>5, <1>9 DEF InHand, Spare, Apart, End
  <2>6. ASSUME NEW r \in Held', InHeap(desc'[r]) PROVE Spare(mgr, desc'[r])
    <3>1. CASE r = h
      BY <3>1, <2>5, <2>6, <1>9
    <3>2. CASE r # h
      BY <3>2, <2>2, <2>3, <2>6, <1>9 DEF HeldApart, Held
    <3> QED BY <3>1, <3>2
  <2>7. ASSUME NEW r \in Held', NEW s \in Held', r # s, InHeap(desc'[r]), InHeap(desc'[s])
        PROVE  Apart(desc'[r], desc'[s])
    <3>1. CASE r = h
      <4>1. s \in Held /\ desc'[s] = desc[s] /\ desc'[r] = d
        BY <3>1, <2>3, <2>7, <1>9 DEF Held
      <4> QED BY <4>1, <2>5, <2>7, <1>9 DEF Apart
    <3>2. CASE s = h
      <4>1. r \in Held /\ desc'[r] = desc[r] /\ desc'[s] = d
        BY <3>2, <2>3, <2>7, <1>9 DEF Held
      <4> QED BY <4>1, <2>5, <2>7, <1>9 DEF Apart
    <3>3. CASE r # h /\ s # h
      <4>1. r \in Held /\ s \in Held /\ desc'[r] = desc[r] /\ desc'[s] = desc[s]
        BY <3>3, <2>3, <2>7, <1>9 DEF Held
      <4> QED BY <4>1, <2>2, <2>7 DEF HeldApart
    <3> QED BY <3>1, <3>2, <3>3
  <2>8. HeldApart'
    BY <2>6, <2>7, <1>1 DEF HeldApart, InHeap, End
  <2>9. HandApart' /\ Separate(mgr)'
    BY <2>2, <1>1, <1>5, <1>6 DEF HandApart, Separate
  <2> QED BY <2>8, <2>9
<1> QED BY <1>12, <1>15, <1>16 DEF HeapInv
-----------------------------------------------------------------------------
(* A write that returns.                                                    *)

\* Without a call under way the invariant speaks of all cells that are not stale.
LEMMA IdleInv ==
    ASSUME HeapInv, job' = NoJob, heap' \in [0 .. Cap - 1 -> Values], desc' \in [Row -> Descs],
           mgr' \in Managers, seeded' \in BOOLEAN, calls' \in 0 .. MaxCalls,
           faults' \in 0 .. MaxFaults, should' \in [Row -> Seq(Values)],
           stale' \in SUBSET Row, \A r \in Row \ stale' : Read(r)' = should'[r],
           Trusted' => Separate(mgr)' /\ HeldApart'
    PROVE  HeapInv'
<1>1. job'.op = "none" /\ job'.rows = <<>>
  BY DEF NoJob
<1>2. ~Writing' /\ ~Compaction' /\ Busy' = {}
  <2>1. Range(<<>>) = {}
    BY DEF Range
  <2> QED BY <1>1, <2>1 DEF Writing, Compaction, Busy
<1>3. HeapTypeOK'
  BY <1>2 DEF HeapTypeOK
<1>4. Kept'
  BY DEF Kept
<1>5. Stored' /\ Packs' /\ Points' /\ HandApart'
  BY <1>2 DEF Stored, Packs, Points, HandApart
<1> QED BY <1>3, <1>4, <1>5 DEF HeapInv

\* A write that stops has left nothing on the way that is not stale.
LEMMA WriteReturns ==
    ASSUME HeapInv, Writing, job' = NoJob, heap' \in [0 .. Cap - 1 -> Values],
           faults' \in 0 .. MaxFaults, UNCHANGED <<desc, mgr, seeded, calls, should>>,
           stale' \in SUBSET Row, stale \subseteq stale',
           \A r \in Row \ stale' : r \notin Awaiting /\ Read(r)' = Read(r),
           Trusted => HeldApart'
    PROVE  HeapInv'
<1>1. HeapTypeOK /\ Kept /\ (Trusted => Separate(mgr))
  BY DEF HeapInv
<1>2. /\ desc' \in [Row -> Descs] /\ mgr' \in Managers /\ seeded' \in BOOLEAN
      /\ calls' \in 0 .. MaxCalls /\ should' \in [Row -> Seq(Values)]
  BY <1>1 DEF HeapTypeOK
<1>3. \A r \in Row \ stale' : Read(r)' = should'[r]
  BY <1>1 DEF Kept
<1>4. Trusted' => Trusted
  <2>1. stale \in SUBSET Row
    BY <1>1 DEF HeapTypeOK
  <2> QED BY <2>1 DEF Trusted
<1>5. Trusted' => Separate(mgr)' /\ HeldApart'
  BY <1>1, <1>4 DEF Separate
<1> QED BY <1>2, <1>3, <1>5, IdleInv

\* The cells that are held stay apart when the others are stale.
LEMMA HeldStays ==
    ASSUME HeldApart, job' = NoJob, UNCHANGED <<desc, mgr>>,
           \A r \in Row \ stale' : InHeap(desc[r]) => r \in Held
    PROVE  HeldApart'
<1>1. Held' = Row \ stale'
  <2>1. job'.op = "none"
    BY DEF NoJob
  <2> QED BY <2>1 DEF Held, Released, Writing
<1>2. \A r \in Held' : InHeap(desc[r]) => r \in Held
  BY <1>1
<1> QED BY <1>2 DEF HeldApart

\* What a failure leaves behind is stale.
LEMMA FailsFacts ==
    ASSUME HeapInv, Writing, WriteFails, job.trial \/ job.pc \in {"alloc", "drain", "desc"}
    PROVE  /\ job' = NoJob /\ UNCHANGED <<desc, mgr, seeded, calls, should>>
           /\ stale' \in SUBSET Row /\ stale \subseteq stale'
           /\ \A r \in Row \ stale' : r \notin Awaiting /\ (InHeap(desc[r]) => r \in Held)
<1>1. /\ HeapTypeOK /\ ~Compaction /\ Busy \subseteq Row /\ job.k \in Nat
      /\ \A i \in 1 .. Len(job.rows) : job.rows[i] \in Busy
  <2>1. HeapTypeOK
    BY DEF HeapInv
  <2> QED BY <2>1, WriteFacts
<1>2. stale \in SUBSET Row
  BY <1>1 DEF HeapTypeOK
<1>3. job' = NoJob /\ UNCHANGED <<desc, mgr, seeded, calls, should>>
      /\ stale' = IF job.trial THEN stale ELSE stale \cup Left
  BY DEF WriteFails
<1>4. CASE job.trial
  <2>1. stale' = stale /\ Released = {} /\ Awaiting = {}
    BY <1>1, <1>3, <1>4 DEF Released, Awaiting
  <2> QED BY <2>1, <1>2, <1>3 DEF Held
<1>5. CASE ~job.trial
  <2>1. stale' = stale \cup Left /\ Left \subseteq Row
    BY <1>1, <1>3, <1>5 DEF Left
  <2>2. Released = {job.rows[j] : j \in {i \in 1 .. Len(job.rows) : i >= job.k}}
    BY <1>5 DEF Released
  <2>3. \A r \in Released : InHeap(desc[r]) => r \in Left
    BY <2>2 DEF Left
  <2>4. \A r \in Awaiting : r \in Left
    BY <2>3, <1>1, <1>5 DEF Awaiting
  <2> QED BY <2>1, <2>3, <2>4, <1>2, <1>3 DEF Held
<1> QED BY <1>4, <1>5

\* A failure that changes nothing but the histories.
LEMMA FailsStep ==
    ASSUME HeapInv, Writing, WriteFails, job.trial \/ job.pc \in {"alloc", "drain", "desc"},
           heap' = heap, faults' \in 0 .. MaxFaults
    PROVE  HeapInv'
<1>1. /\ job' = NoJob /\ UNCHANGED <<desc, mgr, seeded, calls, should>>
      /\ stale' \in SUBSET Row /\ stale \subseteq stale'
      /\ \A r \in Row \ stale' : r \notin Awaiting /\ (InHeap(desc[r]) => r \in Held)
  BY FailsFacts
<1>2. heap' \in [0 .. Cap - 1 -> Values]
  BY DEF HeapInv, HeapTypeOK
<1>3. \A r \in Row \ stale' : Read(r)' = Read(r)
  BY <1>1 DEF Read, ReadAs, InHeap, End
<1>4. ASSUME Trusted PROVE HeldApart'
  <2>1. HeldApart
    BY <1>4 DEF HeapInv, Writing, Compaction
  <2> QED BY <2>1, <1>1, HeldStays
<1> QED BY <1>1, <1>2, <1>3, <1>4, WriteReturns

\* The failures are counted to their bound.
LEMMA FaultFacts ==
    ASSUME HeapTypeOK, Fault
    PROVE  faults' \in 0 .. MaxFaults
BY HeapAssumption DEF HeapTypeOK, Fault

\* A write that is refused its space: the rows not written are stale.
LEMMA AllocRefusedStep ==
    ASSUME HeapInv, AllocRefused
    PROVE  HeapInv'
<1>1. Writing /\ job.pc = "alloc" /\ WriteFails /\ UNCHANGED <<heap, faults>>
  BY DEF AllocRefused, At, Writing
<1>2. faults' \in 0 .. MaxFaults
  BY <1>1 DEF HeapInv, HeapTypeOK
<1> QED BY <1>1, <1>2, FailsStep

\* A descriptor that cannot hold the offset: the rows not written are stale.
LEMMA DescRefusedStep ==
    ASSUME HeapInv, DescRefused
    PROVE  HeapInv'
<1>1. Writing /\ job.pc = "desc" /\ WriteFails /\ UNCHANGED <<heap, faults>>
  BY DEF DescRefused, At, Writing
<1>2. faults' \in 0 .. MaxFaults
  BY <1>1 DEF HeapInv, HeapTypeOK
<1> QED BY <1>1, <1>2, FailsStep

\* The trial fails before anything is released.
LEMMA TrialFailsStep ==
    ASSUME HeapInv, TrialFails
    PROVE  HeapInv'
<1>1. job.trial /\ WriteFails /\ heap' = heap
  BY DEF TrialFails
<1>2. faults' \in 0 .. MaxFaults
  BY FaultFacts DEF TrialFails, HeapInv
<1>3. Writing
  <2>1. ~NoJob.trial
    BY DEF NoJob
  <2>2. PackTyped => ~job.trial
    BY DEF PackTyped, PackJobs
  <2> QED BY <2>1, <2>2, <1>1 DEF HeapInv, HeapTypeOK
<1> QED BY <1>1, <1>2, <1>3, FailsStep

\* A descriptor the device does not take: the rows not written are stale.
LEMMA DescFailsStep ==
    ASSUME HeapInv, DescFails
    PROVE  HeapInv'
<1>1. Writing /\ job.pc = "desc" /\ WriteFails /\ heap' = heap
  BY DEF DescFails, At, Writing
<1>2. faults' \in 0 .. MaxFaults
  BY FaultFacts DEF DescFails, HeapInv
<1> QED BY <1>1, <1>2, FailsStep

\* A part of the payload is written to an extent that nobody else has.
LEMMA DrainFailsStep ==
    ASSUME HeapInv, DrainFails
    PROVE  HeapInv'
<1>1. Fault /\ At("drain") /\ WriteFails
      /\ \E n \in 0 .. job.lens[Here] - 1 : heap' = Drained(n)
  BY DEF DrainFails
<1>2. Writing /\ job.pc = "drain" /\ HeapTypeOK
      /\ (Trusted => HeldApart)
  BY <1>1, AtFacts
<1>3. /\ job' = NoJob /\ UNCHANGED <<desc, mgr, seeded, calls, should>>
      /\ stale' \in SUBSET Row /\ stale \subseteq stale'
      /\ \A r \in Row \ stale' : r \notin Awaiting /\ (InHeap(desc[r]) => r \in Held)
  BY <1>1, <1>2, FailsFacts
<1>4. PICK n \in 0 .. job.lens[Here] - 1 : heap' = Drained(n)
  BY <1>1
<1>5. n \in 0 .. job.lens[Here]
  <2>1. job.lens[Here] \in 0 .. MaxLen /\ MaxLen \in Nat
    BY <1>1, <1>2, AtFacts, HeapAssumption DEF WriteTyped, More
  <2> QED BY <2>1
<1>6. /\ heap' \in [0 .. Cap - 1 -> Values]
      /\ \A r \in Row \ stale : r \notin Awaiting => Read(r)' = Read(r)
  BY <1>1, <1>3, <1>4, <1>5, DrainFacts
<1>7. \A r \in Row \ stale' : r \notin Awaiting /\ Read(r)' = Read(r)
  BY <1>3, <1>6
<1>8. Trusted => HeldApart'
  BY <1>2, <1>3, HeldStays
<1>9. faults' \in 0 .. MaxFaults
  BY <1>1, <1>2, FaultFacts
<1> QED BY <1>2, <1>3, <1>6, <1>7, <1>8, <1>9, WriteReturns

\* All rows are written: no cell is on the way any more.
LEMMA WriteEndsStep ==
    ASSUME HeapInv, WriteEnds
    PROVE  HeapInv'
<1>1. /\ At("alloc") /\ ~More /\ ~job.trial /\ job' = NoJob
      /\ UNCHANGED <<heap, desc, mgr, seeded, calls, faults, should, stale>>
  BY DEF WriteEnds, KeepTable
<1>2. /\ Writing /\ ~Compaction /\ job.pc = "alloc" /\ HeapTypeOK
      /\ job.k \in Nat /\ Len(job.rows) \in Nat /\ (Trusted => HeldApart)
  BY <1>1, AtFacts
<1>3. Released = {} /\ Awaiting = {}
  <2>1. job.k > Len(job.rows)
    BY <1>1, <1>2 DEF More
  <2> QED BY <2>1, <1>1, <1>2 DEF Released, Awaiting
<1>4. /\ heap' \in [0 .. Cap - 1 -> Values] /\ faults' \in 0 .. MaxFaults
      /\ stale' \in SUBSET Row /\ stale' = stale
  BY <1>1, <1>2 DEF HeapTypeOK
<1>5. \A r \in Row \ stale' : r \notin Awaiting /\ Read(r)' = Read(r)
  BY <1>1, <1>3 DEF Read, ReadAs, InHeap, End
<1>6. Trusted => HeldApart'
  BY <1>1, <1>2, <1>3, <1>4, HeldStays DEF Held
<1> QED BY <1>1, <1>2, <1>4, <1>5, <1>6, WriteReturns

\* The extent released is in nobody's hands: the cell still has it.
LEMMA AppendFailsStep ==
    ASSUME HeapInv, AppendFails
    PROVE  HeapInv'
<1>1. /\ Fault /\ At("merge") /\ job.op = "cell" /\ job' = NoJob
      /\ UNCHANGED <<heap, desc, mgr, seeded, calls, should, stale>>
  BY DEF AppendFails
<1>2. /\ Writing /\ ~Compaction /\ job.pc = "merge" /\ HeapTypeOK /\ WriteTyped
      /\ job.k \in Nat /\ job.k >= 1 /\ Len(job.rows) \in Nat
      /\ (Trusted => HandApart /\ HeldApart)
  BY <1>1, AtFacts
<1>3. ~job.trial /\ Len(job.rows) = 1 /\ job.k = 1 /\ job.ext \in HeapExtents
  <2>1. ~job.trial /\ Len(job.rows) = 1 /\ job.k <= Len(job.rows) /\ job.ext \in HeapExtents
    BY <1>1, <1>2, Zenon DEF WriteTyped
  <2>2. job.k = 1
    BY <2>1, <1>2
  <2> QED BY <2>1, <2>2
<1>4. Here \in Busy /\ Here \in Row /\ desc[Here] \in Descs
  <2>1. More
    BY <1>3 DEF More
  <2> QED BY <2>1, <1>1, <1>2, AtFacts
<1>5. Released = {Here} /\ Awaiting = {}
  <2>1. {i \in 1 .. Len(job.rows) : i <= job.k} = {1}
    BY <1>3
  <2> QED BY <2>1, <1>2, <1>3 DEF Released, Awaiting, Here
<1>6. /\ heap' \in [0 .. Cap - 1 -> Values] /\ faults' \in 0 .. MaxFaults
      /\ stale' \in SUBSET Row /\ stale' = stale
  BY <1>1, <1>2, FaultFacts DEF HeapTypeOK
<1>7. \A r \in Row \ stale' : r \notin Awaiting /\ Read(r)' = Read(r)
  BY <1>1, <1>5 DEF Read, ReadAs, InHeap, End
<1>8. ASSUME Trusted PROVE HeldApart'
  <2>1. /\ HeldApart /\ InHand(job.ext) /\ InHeap(desc[Here])
        /\ job.ext.off <= desc[Here].off /\ End(desc[Here]) <= End(job.ext)
    BY <1>2, <1>3, <1>8 DEF HandApart
  <2>2. Held' = Row \ stale /\ Held = (Row \ stale) \ {Here}
    <3>1. job'.op = "none"
      BY <1>1 DEF NoJob
    <3> QED BY <3>1, <1>1, <1>5 DEF Held, Released, Writing
  <2>3. desc[Here] \in HeapExtents
    BY <2>1, <1>4 DEF HeapExtents
  <2>4. PICK e, d : e = job.ext /\ d = desc[Here]
    OBVIOUS
  <2>5. /\ e \in HeapExtents /\ d \in HeapExtents /\ e.off <= d.off /\ d.off + d.len <= e.off + e.len
        /\ e.off \in Nat /\ e.len \in Nat /\ d.off \in Nat /\ d.len \in Nat
    BY <2>1, <2>3, <2>4, <1>3, ExtentFacts DEF End
  <2>6. ASSUME NEW f \in HeapExtents, Apart(f, e) PROVE Apart(f, d) /\ Apart(d, f)
    <3>1. PICK x, y : x = f.off /\ y = f.len
      OBVIOUS
    <3>2. x \in Nat /\ y \in Nat
      BY <3>1, ExtentFacts
    <3>3. x + y <= e.off \/ e.off + e.len <= x
      BY <2>6, <3>1 DEF Apart, End
    <3>4. x + y <= d.off \/ d.off + d.len <= x
      BY <3>2, <3>3, <2>5
    <3> QED BY <3>1, <3>4 DEF Apart, End
  <2>7. Spare(mgr, d)
    <3>1. Spare(mgr, e) /\ mgr \in Managers
      BY <2>1, <2>4, <1>2 DEF InHand, HeapTypeOK
    <3>2. \A i \in DOMAIN mgr.free : mgr.free[i] \in HeapExtents /\ Apart(mgr.free[i], e)
      BY <3>1, FreeFacts DEF Spare
    <3>3. \A i \in DOMAIN mgr.free : Apart(mgr.free[i], d)
      BY <3>2, <2>6
    <3>4. mgr.top \in Int
      BY <3>1, FreeFacts, HeapAssumption
    <3>5. e.off + e.len <= mgr.top
      BY <3>1 DEF Spare, End
    <3>6. d.off + d.len <= mgr.top
      BY <3>4, <3>5, <2>5
    <3> QED BY <3>3, <3>6 DEF Spare, End
  <2>8. ASSUME NEW r \in Held, InHeap(desc[r]) PROVE Apart(desc[r], d) /\ Apart(d, desc[r])
    <3>1. desc[r] \in HeapExtents
      BY <2>8, <1>2 DEF HeapExtents, Held, HeapTypeOK
    <3>2. Apart(desc[r], e)
      BY <2>1, <2>4, <2>8 DEF InHand
    <3> QED BY <3>1, <3>2, <2>6
  <2> QED BY <2>1, <2>2, <2>4, <2>7, <2>8, <1>1 DEF HeldApart
<1> QED BY <1>1, <1>2, <1>6, <1>7, <1>8, WriteReturns
-----------------------------------------------------------------------------
(* The calls.                                                               *)

\* What a cell reads is a sequence of bytes.
LEMMA ReadFacts ==
    ASSUME heap \in [0 .. Cap - 1 -> Values], desc \in [Row -> Descs], NEW r \in Row
    PROVE  /\ Read(r) \in Seq(Values)
           /\ InHeap(desc[r]) =>
                /\ Len(Read(r)) = desc[r].len
                /\ \A i \in 0 .. desc[r].len - 1 : Read(r)[i + 1] = heap[desc[r].off + i]
           /\ ~InHeap(desc[r]) => Read(r) = <<>>
<1>1. CASE InHeap(desc[r])
  <2>1. PICK a, n : a = desc[r].off /\ n = desc[r].len
    OBVIOUS
  <2>2. a \in Nat /\ n \in Nat /\ a + n <= Cap /\ Cap \in Nat
    BY <1>1, <2>1, ExtentFacts, HeapAssumption DEF HeapExtents
  <2>3. Read(r) = [i \in 1 .. n |-> heap[a + i - 1]]
    BY <1>1, <2>1 DEF Read, ReadAs
  <2>4. ASSUME NEW i \in 1 .. n PROVE heap[a + i - 1] \in Values
    <3>1. a + i - 1 \in 0 .. Cap - 1
      BY <2>2
    <3> QED BY <3>1
  <2>5. Read(r) \in [1 .. n -> Values]
    BY <2>3, <2>4
  <2>6. Read(r) \in Seq(Values) /\ Len(Read(r)) = n
    BY <2>2, <2>5, FunctionIsSeq
  <2>7. ASSUME NEW i \in 0 .. n - 1 PROVE Read(r)[i + 1] = heap[a + i]
    <3>1. i + 1 \in 1 .. n /\ a + (i + 1) - 1 = a + i
      BY <2>2
    <3> QED BY <3>1, <2>3
  <2> QED BY <1>1, <2>1, <2>6, <2>7
<1>2. CASE ~InHeap(desc[r])
  BY <1>2 DEF Read, ReadAs
<1> QED BY <1>1, <1>2

\* Without a call every cell is held.
LEMMA IdleFacts ==
    ASSUME HeapInv, Idle
    PROVE  /\ ~Writing /\ ~Compaction /\ HeapTypeOK /\ Held = Row \ stale
           /\ \A r \in Row \ stale : Read(r) = should[r]
           /\ Trusted => Separate(mgr) /\ HeldApart
<1>1. ~Writing /\ ~Compaction
  BY DEF Idle, NoJob, Writing, Compaction
<1>2. Released = {} /\ Awaiting = {}
  BY <1>1 DEF Released, Awaiting
<1> QED BY <1>1, <1>2 DEF HeapInv, Held, Kept

\* Extents that do not overlap lie on either side of each other.
LEMMA OverlapFacts ==
    ASSUME NEW e \in HeapExtents, NEW f \in HeapExtents, ~Overlap(e, f)
    PROVE  Apart(e, f)
<1>1. PICK a, n, b, m : a = e.off /\ n = e.len /\ b = f.off /\ m = f.len
  OBVIOUS
<1>2. a \in Nat /\ n \in Nat /\ b \in Nat /\ m \in Nat
  BY <1>1, ExtentFacts
<1>3. ~(a < b + m /\ b < a + n)
  BY <1>1 DEF Overlap, End
<1>4. a + n <= b \/ b + m <= a
  BY <1>2, <1>3
<1> QED BY <1>1, <1>4 DEF Apart, End

\* A call begins when none is under way.
LEMMA CalledFacts ==
    ASSUME HeapTypeOK, Called
    PROVE  Idle /\ calls' \in 0 .. MaxCalls
BY HeapAssumption DEF HeapTypeOK, Called

\* initForTable: extents in the heap that do not overlap lie below the new top.
LEMMA SeedStep ==
    ASSUME HeapInv, Seed
    PROVE  HeapInv'
<1>1. /\ Called /\ Seeds /\ mgr' = [top |-> Max(Ends), free |-> <<>>] /\ seeded' = TRUE
      /\ stale' = {} /\ should' = [r \in Row |-> Read(r)]
      /\ UNCHANGED <<heap, desc, job, faults>>
  BY DEF Seed
<1>2. HeapTypeOK
  BY DEF HeapInv
<1>3. Idle /\ calls' \in 0 .. MaxCalls
  BY <1>1, <1>2, CalledFacts
<1>4. \A r \in Row : desc[r] \in Descs /\ (desc[r].len # 0 => desc[r] \in HeapExtents)
  BY <1>1, <1>2 DEF HeapTypeOK, Seeds, HeapExtents
<1>5. Ends \subseteq 0 .. Cap /\ Ends # {}
  <2>1. ASSUME NEW r \in Row, desc[r].len # 0 PROVE End(desc[r]) \in 0 .. Cap
    <3>1. desc[r] \in HeapExtents
      BY <2>1, <1>4
    <3>2. PICK a, n : a = desc[r].off /\ n = desc[r].len
      OBVIOUS
    <3>3. a \in Nat /\ n \in Nat /\ a + n <= Cap
      BY <3>1, <3>2, ExtentFacts
    <3> QED BY <3>2, <3>3, HeapAssumption DEF End
  <2> QED BY <2>1, HeapAssumption DEF Ends
<1>6. Max(Ends) \in 0 .. Cap /\ \A y \in Ends : y <= Max(Ends)
  BY <1>5, MaxFacts, HeapAssumption
<1>7. mgr' \in Managers
  <2>1. <<>> \in Seq(HeapExtents)
    OBVIOUS
  <2> QED BY <2>1, <1>1, <1>6, ManagerIs
<1>8. should' \in [Row -> Seq(Values)]
  BY <1>1, <1>2, ReadFacts DEF HeapTypeOK
<1>9. \A r \in Row \ stale' : Read(r)' = should'[r]
  BY <1>1 DEF Read, ReadAs, InHeap, End
<1>10. Separate(mgr)'
  BY <1>1 DEF Separate
<1>11. HeldApart'
  <2>1. ASSUME NEW r \in Row, InHeap(desc[r]) PROVE Spare(mgr', desc[r])
    <3>1. desc[r].len # 0
      BY <2>1, <1>4 DEF InHeap, Descs
    <3>2. End(desc[r]) \in Ends
      BY <3>1 DEF Ends
    <3> QED BY <3>2, <1>1, <1>6 DEF Spare
  <2>2. ASSUME NEW r \in Row, NEW s \in Row, r # s, InHeap(desc[r]), InHeap(desc[s])
        PROVE  Apart(desc[r], desc[s])
    BY <2>2, <1>1, <1>4, OverlapFacts DEF Seeds, Disjoint, HeapExtents
  <2> QED BY <2>1, <2>2, <1>1 DEF HeldApart, Held, InHeap, End
<1>12. job' = NoJob /\ seeded' \in BOOLEAN /\ stale' \in SUBSET Row
       /\ heap' \in [0 .. Cap - 1 -> Values] /\ desc' \in [Row -> Descs]
       /\ faults' \in 0 .. MaxFaults
  BY <1>1, <1>2, <1>3 DEF Idle, HeapTypeOK
<1> QED BY <1>3, <1>7, <1>8, <1>9, <1>10, <1>11, <1>12, IdleInv

\* A write begins with no cell released.
LEMMA WriteBegins ==
    ASSUME HeapInv, Idle, seeded, NEW op \in {"cell", "column"}, NEW trial \in BOOLEAN,
           NEW R \in SUBSET Row, NEW rows \in Seq(R), Range(rows) = R, IsInjective(rows),
           NEW lens \in [R -> 0 .. MaxLen], job' = WriteJob(op, trial, rows, lens),
           op = "cell" => ~trial /\ Len(rows) = 1, Releases(R), calls' \in 0 .. MaxCalls,
           UNCHANGED <<heap, desc, mgr, seeded, faults, should>>
    PROVE  HeapInv'
<1>1. /\ HeapTypeOK /\ Held = Row \ stale /\ (\A r \in Row \ stale : Read(r) = should[r])
      /\ Trusted => Separate(mgr) /\ HeldApart
  BY IdleFacts
<1>2. /\ job'.op = op /\ job'.trial = trial /\ job'.pc = "free" /\ job'.rows = rows
      /\ job'.lens = lens /\ job'.k = 1
  BY DEF WriteJob
<1>3. Writing' /\ ~Compaction' /\ Busy' = R
  BY <1>2 DEF Writing, Compaction, Busy
<1>4. job' \in WriteJobs(R)
  <2>1. PICK e, p : e = [off |-> 0, len |-> 0] /\ p = [r \in DOMAIN lens |-> 0]
    OBVIOUS
  <2>2. e \in Descs /\ p \in [R -> Nat] /\ mgr \in Managers /\ 1 \in Nat \ {0} /\ 0 \in Nat
    BY <2>1, <1>1 DEF Descs, HeapTypeOK
  <2>3. job' = [op |-> op, trial |-> trial, pc |-> "free", rows |-> rows, lens |-> lens,
                k |-> 1, ext |-> e, copy |-> mgr, plan |-> p, off |-> 0]
    BY <2>1 DEF WriteJob
  <2> QED BY <2>2, <2>3 DEF WriteJobs
<1>5. Len(rows) \in Nat
  OBVIOUS
<1>6. WriteTyped'
  BY <1>2, <1>3, <1>4, <1>5 DEF WriteTyped
<1>7. stale' = (IF R \cap stale = {} THEN stale ELSE Row) /\ stale \in SUBSET Row
  BY <1>1 DEF Releases, HeapTypeOK
<1>8. HeapTypeOK'
  BY <1>1, <1>3, <1>6, <1>7 DEF HeapTypeOK
<1>9. Released' = {} /\ Awaiting' = {}
  BY <1>2, <1>3, <1>5 DEF Released, Awaiting
<1>10. Kept'
  <2>1. \A r \in Row : Read(r)' = Read(r)
    BY DEF Read, ReadAs, InHeap, End
  <2> QED BY <2>1, <1>1, <1>7 DEF Kept
<1>11. Stored' /\ Packs' /\ Points'
  BY <1>2, <1>3 DEF Stored, Packs, Points
<1>12. ASSUME Trusted' PROVE Separate(mgr)' /\ HandApart' /\ HeldApart'
  <2>1. stale' = stale /\ R \cap stale = {} /\ Trusted
    BY <1>7, <1>12 DEF Trusted
  <2>2. Held' = Held
    BY <2>1, <1>1, <1>9 DEF Held
  <2>3. HeldApart' /\ Separate(mgr)'
    BY <2>1, <2>2, <1>1 DEF HeldApart, Separate
  <2>4. HandApart'
    BY <2>1, <1>2, <1>3 DEF HandApart
  <2> QED BY <2>3, <2>4
<1> QED BY <1>8, <1>10, <1>11, <1>12 DEF HeapInv

\* The write of a cell is a write of one row, without a trial.
LEMMA WriteVlaCellStep ==
    ASSUME HeapInv, NEW r \in Row, NEW n \in 0 .. MaxLen, WriteVlaCell(r, n)
    PROVE  HeapInv'
<1>1. /\ Called /\ seeded /\ job' = WriteJob("cell", FALSE, <<r>>, [s \in {r} |-> n])
      /\ Releases({r}) /\ UNCHANGED <<heap, desc, mgr, seeded, faults, should>>
  BY DEF WriteVlaCell
<1>2. Idle /\ calls' \in 0 .. MaxCalls
  BY <1>1, CalledFacts DEF HeapInv
<1>3. /\ <<r>> \in Seq({r}) /\ Len(<<r>>) = 1 /\ Range(<<r>>) = {r} /\ IsInjective(<<r>>)
      /\ [s \in {r} |-> n] \in [{r} -> 0 .. MaxLen] /\ {r} \in SUBSET Row
  BY DEF Range, IsInjective
<1> QED BY <1>1, <1>2, <1>3, WriteBegins

\* SeqOf gives sequences.
LEMMA SeqOfFacts ==
    ASSUME NEW S, NEW n \in Nat, NEW s \in SeqOf(S, n)
    PROVE  s \in Seq(S)
<1>1. PICK m \in 0 .. n : s \in [1 .. m -> S]
  BY DEF SeqOf
<1> QED BY <1>1, FunctionIsSeq

\* The rows in order are all different.
LEMMA RowsSorted ==
    ASSUME NEW R \in SUBSET Row, NEW rows \in SeqOf(R, Cardinality(R)), Range(rows) = R,
           \A i, j \in DOMAIN rows : i < j => rows[i] < rows[j]
    PROVE  rows \in Seq(R) /\ IsInjective(rows)
<1>2. rows \in Seq(R)
  <2>1. Cardinality(R) \in Nat
    BY FS_Subset, FS_CardinalityType, HeapAssumption
  <2> QED BY <2>1, SeqOfFacts
<1>3. DOMAIN rows = 1 .. Len(rows) /\ Len(rows) \in Nat
  BY <1>2
<1>4. \A i \in DOMAIN rows : rows[i] \in Nat
  <2>1. \A i \in 1 .. Len(rows) : rows[i] \in R
    BY <1>2
  <2> QED BY <2>1, <1>3, HeapAssumption
<1>5. \A i, j \in DOMAIN rows : rows[i] = rows[j] => i = j
  <2>1. ASSUME NEW i \in DOMAIN rows, NEW j \in DOMAIN rows, i < j PROVE rows[i] # rows[j]
    <3>1. rows[i] < rows[j]
      BY <2>1
    <3> QED BY <3>1, <1>4
  <2> QED BY <2>1, <1>3
<1> QED BY <1>2, <1>5 DEF IsInjective

\* The write of a column is a write of its rows in order, on trial first.
LEMMA WriteVlaColumnStep ==
    ASSUME HeapInv, NEW R \in Ranges, NEW lens \in [R -> 0 .. MaxLen], WriteVlaColumn(lens)
    PROVE  HeapInv'
<1>1. /\ Called /\ seeded /\ Releases(DOMAIN lens)
      /\ \E rows \in SeqOf(DOMAIN lens, Cardinality(DOMAIN lens)) :
           /\ Range(rows) = DOMAIN lens
           /\ \A i, j \in DOMAIN rows : i < j => rows[i] < rows[j]
           /\ job' = WriteJob("column", TRUE, rows, lens)
      /\ UNCHANGED <<heap, desc, mgr, seeded, faults, should>>
  BY DEF WriteVlaColumn, RowsOf, Listings
<1>2. Idle /\ calls' \in 0 .. MaxCalls
  BY <1>1, CalledFacts DEF HeapInv
<1>3. DOMAIN lens = R /\ R \in SUBSET Row
  BY HeapAssumption
<1>4. PICK rows \in SeqOf(R, Cardinality(R)) :
         /\ Range(rows) = R /\ job' = WriteJob("column", TRUE, rows, lens)
         /\ \A i, j \in DOMAIN rows : i < j => rows[i] < rows[j]
  BY <1>1, <1>3
<1>5. rows \in Seq(R) /\ IsInjective(rows)
  BY <1>3, <1>4, RowsSorted
<1> QED BY <1>1, <1>2, <1>3, <1>4, <1>5, WriteBegins
-----------------------------------------------------------------------------
(* Compactions.                                                             *)

\* There are no more extents than cells.
LEMMA ExtentsFinite ==
    IsFiniteSet(Extents(Live))
<1> DEFINE S == {r \in Live : InHeap(desc[r])}
           f == [r \in S |-> desc[r]]
<1>1. S \subseteq Row /\ IsFiniteSet(Row)
  BY HeapAssumption DEF Live
<1>2. IsFiniteSet(S)
  BY <1>1, FS_Subset
<1>3. f \in [S -> Extents(Live)] /\ (\A e \in Extents(Live) : \E r \in S : f[r] = e)
  BY DEF Extents
<1>4. f \in Surjection(S, Extents(Live))
  BY <1>3 DEF Surjection
<1> HIDE DEF S, f
<1> QED BY <1>2, <1>4, FS_Surjection

\* Extents in order are all different.
LEMMA GroupsSorted ==
    ASSUME NEW E, E \subseteq HeapExtents, NEW groups \in Seq(E),
           \A i, j \in DOMAIN groups : i < j => InOrder(groups[i], groups[j])
    PROVE  /\ DOMAIN groups = 1 .. Len(groups) /\ Len(groups) \in Nat
           /\ \A i \in DOMAIN groups : groups[i] \in HeapExtents
           /\ \A i, j \in DOMAIN groups : groups[i] = groups[j] => i = j
<1>1. DOMAIN groups = 1 .. Len(groups) /\ Len(groups) \in Nat
  OBVIOUS
<1>2. \A i \in DOMAIN groups : groups[i] \in HeapExtents
  <2>1. \A i \in 1 .. Len(groups) : groups[i] \in E
    OBVIOUS
  <2> QED BY <2>1, <1>1
<1>3. ASSUME NEW i \in DOMAIN groups, NEW j \in DOMAIN groups, i < j PROVE groups[i] # groups[j]
  <2>1. InOrder(groups[i], groups[j]) /\ groups[i] \in HeapExtents
    BY <1>2, <1>3
  <2> QED BY <2>1, ExtentFacts DEF InOrder
<1> QED BY <1>1, <1>2, <1>3

\* A compaction begins with every byte where its descriptor says.
LEMMA CompactBegins ==
    ASSUME HeapInv, Compact
    PROVE  HeapInv'
<1>1. /\ Called /\ (\A r \in Live : InHeap(desc[r]))
      /\ UNCHANGED <<heap, desc, mgr, seeded, faults, should, stale>>
  BY DEF Compact
<1>2. PICK rows \in SeqOf(Live, Cardinality(Live)),
           groups \in SeqOf(Extents(Live), Cardinality(Extents(Live))) :
         /\ Range(rows) = Live /\ Range(groups) = Extents(Live)
         /\ \A i, j \in DOMAIN rows : i < j => rows[i] < rows[j]
         /\ \A i, j \in DOMAIN groups : i < j => InOrder(groups[i], groups[j])
         /\ job' = [op |-> "compact", trial |-> FALSE, pc |-> "pack",
                    rows |-> rows, groups |-> groups, k |-> 1, bump |-> 0, done |-> 0,
                    dst |-> [e \in Extents(Live) |-> 0]]
  BY DEF Compact, RowsOf, GroupsOf, Listings
<1>3. Idle /\ calls' \in 0 .. MaxCalls
  BY <1>1, CalledFacts DEF HeapInv
<1>4. /\ HeapTypeOK /\ Held = Row \ stale /\ (\A r \in Row \ stale : Read(r) = should[r])
      /\ Trusted => Separate(mgr) /\ HeldApart
  BY <1>3, IdleFacts
<1>5. Live \in SUBSET Row /\ rows \in Seq(Live) /\ IsInjective(rows)
  BY <1>2, RowsSorted DEF Live
<1>6. /\ Extents(Live) \subseteq HeapExtents
      /\ \A r \in Live : desc[r] \in Extents(Live) /\ desc[r] \in HeapExtents
  BY <1>1, <1>4, <1>5 DEF Extents, HeapExtents, HeapTypeOK
<1>7. groups \in Seq(Extents(Live))
  BY ExtentsFinite, FS_CardinalityType, SeqOfFacts
<1>8. /\ DOMAIN groups = 1 .. Len(groups) /\ Len(groups) \in Nat
      /\ \A i \in DOMAIN groups : groups[i] \in HeapExtents
  BY <1>2, <1>6, <1>7, GroupsSorted
<1>9. /\ job'.op = "compact" /\ job'.pc = "pack" /\ job'.rows = rows /\ job'.groups = groups
      /\ job'.k = 1 /\ job'.bump = 0 /\ job'.done = 0
  BY <1>2
<1>10. Compaction' /\ ~Writing' /\ Live' = Live /\ Busy' = Live
  BY <1>1, <1>2, <1>9 DEF Compaction, Writing, Live, Busy
<1>11. job' \in PackJobs(Live, Extents(Live))
  <2>1. PICK d : d = [e \in Extents(Live) |-> 0]
    OBVIOUS
  <2>2. d \in [Extents(Live) -> Nat] /\ 0 \in 0 .. Cap /\ 1 \in Nat \ {0} /\ 0 \in Nat
    BY <2>1, HeapAssumption
  <2>3. job' = [op |-> "compact", trial |-> FALSE, pc |-> "pack", rows |-> rows,
                groups |-> groups, k |-> 1, bump |-> 0, done |-> 0, dst |-> d]
    BY <2>1, <1>2
  <2> QED BY <2>2, <2>3, <1>5, <1>7 DEF PackJobs
<1>12. PackTyped'
  BY <1>2, <1>5, <1>6, <1>8, <1>9, <1>10, <1>11 DEF PackTyped
<1>13. HeapTypeOK'
  BY <1>1, <1>3, <1>4, <1>5, <1>10, <1>12 DEF HeapTypeOK
<1>14. Kept' /\ Stored' /\ Points'
  <2>1. \A r \in Row : Read(r)' = Read(r)
    BY <1>1 DEF Read, ReadAs, InHeap, End
  <2> QED BY <2>1, <1>1, <1>4, <1>9, <1>10 DEF Kept, Stored, Points
<1>15. ASSUME NEW r \in Live \ stale
       PROVE  /\ Len(should[r]) = desc[r].len
              /\ \A i \in 0 .. desc[r].len - 1 : heap[desc[r].off + i] = should[r][i + 1]
  BY <1>1, <1>4, <1>5, ReadFacts DEF HeapTypeOK
<1>16. ASSUME NEW j \in DOMAIN groups, NEW i \in 0 .. groups[j].len - 1
       PROVE  ByteAt(j, i)' = groups[j].off + i
  <2>1. ~(j < 1)
    BY <1>8
  <2>2. j = 1 => ~MovedByte(i)'
    <3>1. ASSUME j = 1 PROVE ~MovedByte(i)'
      <4>1. Group' = groups[1] /\ groups[1] \in HeapExtents
        BY <3>1, <1>8, <1>9 DEF Group
      <4>2. PICK a, n : a = groups[1].off /\ n = groups[1].len
        OBVIOUS
      <4>3. a \in Nat /\ n \in Nat /\ i \in 0 .. n - 1
        BY <3>1, <4>1, <4>2, <1>16, ExtentFacts
      <4>4. ~(0 # a /\ IF 0 < a THEN i < 0 ELSE i >= n - 0)
        BY <4>3
      <4> QED BY <4>1, <4>2, <4>4, <1>9 DEF MovedByte
    <3> QED BY <3>1
  <2> QED BY <2>1, <2>2, <1>9 DEF ByteAt
<1>17. Packs'
  <2>1. \A r \in Live : desc[r] \in Range(groups)
    BY <1>2, <1>6
  <2>2. \A j \in DOMAIN groups : ~(j < 1)
    BY <1>8
  <2>3. ASSUME NEW r \in Live \ stale, NEW j \in DOMAIN groups, desc[r] = groups[j],
               NEW i \in 0 .. desc[r].len - 1
        PROVE  heap[ByteAt(j, i)'] = should[r][i + 1]
    BY <2>3, <1>15, <1>16
  <2> QED BY <2>1, <2>2, <2>3, <1>1, <1>9, <1>10, <1>15 DEF Packs
<1>18. ASSUME Trusted' PROVE Separate(mgr)' /\ HandApart' /\ HeldApart'
  <2>1. Trusted /\ Held' = Held
    BY <1>1, <1>4, <1>10, <1>18 DEF Trusted, Held, Released
  <2> QED BY <2>1, <1>1, <1>4, <1>10 DEF HeldApart, HandApart, Separate
<1> QED BY <1>13, <1>14, <1>17, <1>18 DEF HeapInv

\* The numbers of a compaction, for the steps that follow.
LEMMA PackFacts ==
    ASSUME HeapInv, Compaction
    PROVE  /\ HeapTypeOK /\ ~Writing /\ PackTyped /\ Kept /\ Awaiting = Live
           /\ job \in PackJobs(Live, Range(job.groups)) /\ Busy = Live /\ Live \subseteq Row
           /\ Len(job.rows) \in Nat /\ job.rows \in Seq(Live)
           /\ \A i, j \in 1 .. Len(job.rows) : job.rows[i] = job.rows[j] => i = j
           /\ DOMAIN job.groups = 1 .. Len(job.groups) /\ Len(job.groups) \in Nat
           /\ \A i \in DOMAIN job.groups : job.groups[i] \in HeapExtents
           /\ \A i, j \in DOMAIN job.groups : job.groups[i] = job.groups[j] => i = j
           /\ \A i \in DOMAIN job.groups : job.groups[i] \in Range(job.groups)
           /\ job.k \in Nat /\ job.k >= 1 /\ job.bump \in Nat /\ job.bump <= Cap
           /\ job.done \in Nat /\ job.dst \in [Range(job.groups) -> Nat] /\ Cap \in Nat
           /\ job.pc \in {"pack", "point"}
           /\ Trusted => Separate(mgr)
<1>1. HeapTypeOK /\ ~Writing /\ Kept /\ (Trusted => Separate(mgr))
  BY DEF HeapInv, Compaction, Writing
<1>2. PackTyped
  BY <1>1 DEF HeapTypeOK, Compaction, NoJob
<1>3. /\ job \in PackJobs(Live, Range(job.groups)) /\ IsInjective(job.rows) /\ Busy = Live
      /\ Range(job.groups) \subseteq HeapExtents
      /\ \A i, j \in DOMAIN job.groups : i < j => InOrder(job.groups[i], job.groups[j])
  BY <1>2 DEF PackTyped
<1>4. /\ job.rows \in Seq(Live) /\ job.groups \in Seq(Range(job.groups)) /\ job.k \in Nat \ {0}
      /\ job.bump \in 0 .. Cap /\ job.done \in Nat /\ job.dst \in [Range(job.groups) -> Nat]
      /\ job.pc \in {"pack", "point"}
  BY <1>3 DEF PackJobs
<1>5. Live \subseteq Row /\ Awaiting = Live
  BY DEF Live, Awaiting
<1>6. /\ DOMAIN job.groups = 1 .. Len(job.groups) /\ Len(job.groups) \in Nat
      /\ \A i \in DOMAIN job.groups : job.groups[i] \in HeapExtents
      /\ \A i, j \in DOMAIN job.groups : job.groups[i] = job.groups[j] => i = j
  BY <1>3, <1>4, GroupsSorted
<1>7. \A i \in DOMAIN job.groups : job.groups[i] \in Range(job.groups)
  BY DEF Range
<1>8. /\ Len(job.rows) \in Nat
      /\ \A i, j \in 1 .. Len(job.rows) : job.rows[i] = job.rows[j] => i = j
  BY <1>3, <1>4 DEF IsInjective
<1>9. job.k \in Nat /\ job.k >= 1 /\ job.bump \in Nat /\ job.bump <= Cap /\ Cap \in Nat
  BY <1>4, HeapAssumption
<1> QED BY <1>1, <1>2, <1>3, <1>4, <1>5, <1>6, <1>7, <1>8, <1>9

\* A compaction goes on: only the bytes and descriptors of the cells it moves change.
LEMMA CompactGoesOn ==
    ASSUME HeapInv, Compaction, Compaction', heap' \in [0 .. Cap - 1 -> Values],
           desc' \in [Row -> Descs], UNCHANGED <<mgr, seeded, calls, faults, should, stale>>,
           Live' = Live, Busy' = Busy, \A r \in Row \ Live : desc'[r] = desc[r],
           PackTyped', Packs', Points', desc' = desc \/ job'.pc = "point",
           job'.pc = job.pc \/ job'.pc = "point"
    PROVE  HeapInv'
<1>1. /\ HeapTypeOK /\ Kept /\ Awaiting = Live /\ ~Writing /\ Live \subseteq Row /\ Busy = Live
      /\ Trusted => Separate(mgr)
  BY PackFacts
<1>2. ~Writing'
  BY DEF Compaction, Writing
<1>3. HeapTypeOK'
  BY <1>1, <1>2 DEF HeapTypeOK
<1>4. Awaiting' = Live
  BY DEF Awaiting
<1>5. ASSUME NEW r \in Row \ Live PROVE Read(r)' = Read(r)
  <2>1. ~InHeap(desc[r])
    BY DEF InHeap, Live
  <2> QED BY <2>1 DEF Read, ReadAs, InHeap, End
<1>6. Kept'
  BY <1>1, <1>4, <1>5 DEF Kept
<1>7. Stored' /\ HandApart'
  BY <1>2 DEF Stored, HandApart
<1>8. ASSUME Trusted' PROVE Separate(mgr)' /\ (job'.pc # "point" => HeldApart')
  <2>1. Trusted
    BY <1>8 DEF Trusted
  <2>2. Separate(mgr)'
    BY <2>1, <1>1 DEF Separate
  <2>3. ASSUME job'.pc # "point" PROVE HeldApart'
    <3>1. HeldApart
      BY <2>1, <2>3 DEF HeapInv
    <3>2. Held' = Held /\ desc' = desc
      BY <2>3, <1>1, <1>2 DEF Held, Released
    <3> QED BY <3>1, <3>2 DEF HeldApart
  <2> QED BY <2>2, <2>3
<1> QED BY <1>3, <1>6, <1>7, <1>8 DEF HeapInv

\* The group being packed.
LEMMA PackingFacts ==
    ASSUME HeapInv, Packing
    PROVE  /\ Compaction /\ job.pc = "pack" /\ job.k \in DOMAIN job.groups
           /\ job.k <= Len(job.groups)
           /\ Group \in HeapExtents /\ Group = job.groups[job.k] /\ Group \in Range(job.groups)
           /\ \A r \in Live : desc[r] \in Range(job.groups)
           /\ job.done > 0 => /\ job.done <= Group.len /\ job.bump + Group.len <= Cap
                              /\ job.bump # Group.off
           /\ \A j \in DOMAIN job.groups : j < job.k =>
                 /\ job.dst[job.groups[j]] + job.groups[j].len <= job.bump
                 /\ \A i \in DOMAIN job.groups : i < j =>
                       job.dst[job.groups[i]] + job.groups[i].len <= job.dst[job.groups[j]]
           /\ \A r \in Live \ stale : Len(should[r]) = desc[r].len
           /\ \A r \in Live \ stale, j \in DOMAIN job.groups : desc[r] = job.groups[j] =>
                 \A i \in 0 .. desc[r].len - 1 : heap[ByteAt(j, i)] = should[r][i + 1]
<1>1. Compaction /\ job.pc = "pack" /\ job.k <= Len(job.groups)
  BY DEF Packing, Compacting, Compaction
<1>2. job.k \in DOMAIN job.groups
  BY <1>1, PackFacts
<1>3. Group = job.groups[job.k] /\ Group \in HeapExtents /\ Group \in Range(job.groups)
  BY <1>1, <1>2, PackFacts DEF Group
<1>4. Packs
  BY DEF HeapInv
<1> QED BY <1>1, <1>2, <1>3, <1>4 DEF Packs

\* A byte is moved to a place where no byte still to be moved lies, nor one already moved.
LEMMA MoveFacts ==
    ASSUME HeapInv, Packing, Group.off # job.bump, job.done < Group.len, MayMove,
           NEW t, t = NextByte(Group.len, job.done, job.bump < Group.off),
           NEW j \in DOMAIN job.groups, NEW i \in 0 .. job.groups[j].len - 1,
           ~(j = job.k /\ i = t)
    PROVE  ByteAt(j, i) # job.bump + t
<1>1. PICK b, a, n, d, k : b = job.bump /\ a = Group.off /\ n = Group.len /\ d = job.done /\ k = job.k
  OBVIOUS
<1>2. /\ b \in Nat /\ a \in Nat /\ n \in Nat /\ d \in Nat /\ k \in Nat /\ a # b /\ d < n
  BY <1>1, PackFacts, PackingFacts, ExtentFacts
<1>3. t = IF b < a THEN d ELSE n - 1 - d
  BY <1>1 DEF NextByte
<1>4. t \in Nat /\ t < n
  BY <1>2, <1>3
<1>5. PICK e, m : e = job.groups[j].off /\ m = job.groups[j].len
  OBVIOUS
<1>6. e \in Nat /\ m \in Nat /\ i \in Nat /\ i < m /\ j \in Nat
  <2>1. job.groups[j] \in HeapExtents /\ j \in 1 .. Len(job.groups)
    BY PackFacts, PackingFacts
  <2> QED BY <2>1, <1>5, ExtentFacts
<1>7. CASE j < k
  <2>1. PICK x : x = job.dst[job.groups[j]]
    OBVIOUS
  <2>2. x \in Nat
    BY <2>1, PackFacts, PackingFacts
  <2>3. x + m <= b
    BY <2>1, <1>1, <1>5, <1>7, PackingFacts
  <2>4. ByteAt(j, i) = x + i
    BY <2>1, <1>1, <1>7 DEF ByteAt
  <2>5. x + i # b + t
    BY <2>2, <2>3, <1>2, <1>4, <1>6
  <2> QED BY <2>4, <2>5, <1>1
<1>8. CASE j = k
  <2>1. job.groups[j] = Group /\ e = a /\ m = n
    BY <1>1, <1>5, <1>8, PackingFacts
  <2>2. MovedByte(i) <=> IF b < a THEN i < d ELSE i >= n - d
    BY <1>1, <1>2 DEF MovedByte
  <2>3. ByteAt(j, i) = IF MovedByte(i) THEN b + i ELSE a + i
    BY <2>1, <1>1, <1>2, <1>5, <1>8 DEF ByteAt
  <2>4. i # t
    BY <1>1, <1>8
  <2>5. CASE MovedByte(i)
    <3>1. b + i # b + t
      BY <2>4, <1>2, <1>4, <1>6
    <3> QED BY <3>1, <2>3, <2>5, <1>1
  <2>6. CASE ~MovedByte(i)
    <3>1. ~(IF b < a THEN i < d ELSE i >= n - d)
      BY <2>2, <2>6
    <3>2. a + i # b + t
      BY <3>1, <2>4, <1>2, <1>3, <1>6
    <3> QED BY <3>2, <2>3, <2>6, <1>1
  <2> QED BY <2>5, <2>6
<1>9. CASE j > k
  <2>1. ~Clobbers(job.groups[j])
    <3>1. j \in job.k + 1 .. Len(job.groups)
      BY <1>1, <1>2, <1>6, <1>9, PackFacts, PackingFacts
    <3> QED BY <3>1 DEF MayMove
  <2>2. ~(b < e + m /\ e < b + n)
    BY <2>1, <1>1, <1>5 DEF Clobbers, End
  <2>3. ByteAt(j, i) = e + i
    BY <1>1, <1>2, <1>5, <1>6, <1>9 DEF ByteAt
  <2>4. e + i # b + t
    BY <2>2, <1>2, <1>4, <1>6
  <2> QED BY <2>3, <2>4, <1>1
<1> QED BY <1>2, <1>6, <1>7, <1>8, <1>9

\* Moving a byte loses none: the place it goes to holds none still needed.
LEMMA MoveStep ==
    ASSUME HeapInv, Move
    PROVE  HeapInv'
<1>1. /\ Packing /\ Group.off # job.bump /\ job.done < Group.len /\ MayMove
      /\ job' = [job EXCEPT !.done = @ + 1]
      /\ UNCHANGED <<desc, mgr, seeded, calls, faults, should, stale>>
  BY DEF Move, KeepRest
<1>2. PICK t, a, b, n, d, k : /\ t = NextByte(Group.len, job.done, job.bump < Group.off)
                              /\ a = Group.off /\ b = job.bump /\ n = Group.len /\ d = job.done
                              /\ k = job.k
  OBVIOUS
<1>3. heap' = [heap EXCEPT ![b + t] = heap[a + t]]
  BY <1>2 DEF Move
<1>4. /\ Compaction /\ job.pc = "pack" /\ HeapTypeOK /\ PackTyped
      /\ job \in PackJobs(Live, Range(job.groups))
  BY <1>1, PackFacts, PackingFacts
<1>5. /\ a \in Nat /\ b \in Nat /\ n \in Nat /\ d \in Nat /\ k \in Nat /\ Cap \in Nat
      /\ a # b /\ d < n /\ a + n <= Cap /\ b + n <= Cap /\ k \in DOMAIN job.groups
  BY <1>1, <1>2, <1>4, PackFacts, PackingFacts, ExtentFacts DEF MayMove
<1>6. t = (IF b < a THEN d ELSE n - 1 - d) /\ t \in Nat /\ t < n
  <2>1. t = IF b < a THEN d ELSE n - 1 - d
    BY <1>2 DEF NextByte
  <2> QED BY <2>1, <1>5
<1>7. /\ job'.pc = "pack" /\ job'.op = "compact" /\ job'.rows = job.rows
      /\ job'.groups = job.groups /\ job'.k = k /\ job'.bump = b /\ job'.dst = job.dst
      /\ job'.done = d + 1 /\ job' \in PackJobs(Live, Range(job.groups))
  <2>1. PICK l : l = d + 1
    OBVIOUS
  <2>2. l \in Nat /\ job' = [job EXCEPT !.done = l]
    BY <2>1, <1>1, <1>2, <1>5
  <2>3. /\ job'.pc = job.pc /\ job'.op = job.op /\ job'.rows = job.rows
        /\ job'.groups = job.groups /\ job'.k = job.k /\ job'.bump = job.bump
        /\ job'.dst = job.dst /\ job'.done = l /\ job' \in PackJobs(Live, Range(job.groups))
    BY <2>2, <1>4, Zenon DEF PackJobs
  <2> QED BY <2>1, <2>3, <1>2, <1>4 DEF Compaction
<1>8. Compaction' /\ Live' = Live /\ Busy' = Busy /\ Group' = Group
  BY <1>1, <1>2, <1>7 DEF Compaction, Live, Busy, Group
<1>9. PackTyped'
  BY <1>2, <1>4, <1>7, <1>8 DEF PackTyped
<1>10. /\ heap' \in [0 .. Cap - 1 -> Values] /\ heap'[b + t] = heap[a + t]
       /\ \A x \in 0 .. Cap - 1 : x # b + t => heap'[x] = heap[x]
       /\ DOMAIN heap = 0 .. Cap - 1
  <2>1. heap \in [0 .. Cap - 1 -> Values]
    BY <1>4 DEF HeapTypeOK
  <2>2. a + t \in 0 .. Cap - 1 /\ b + t \in 0 .. Cap - 1
    BY <1>5, <1>6
  <2> QED BY <2>1, <2>2, <1>3
<1>11. ASSUME NEW j \in DOMAIN job.groups, NEW i \in 0 .. job.groups[j].len - 1
       PROVE  heap'[ByteAt(j, i)'] = heap[ByteAt(j, i)]
  <2>1. i \in Nat /\ j \in Nat
    <3>1. job.groups[j] \in HeapExtents /\ j \in 1 .. Len(job.groups)
      BY <1>4, PackFacts
    <3>2. job.groups[j].len \in Nat
      BY <3>1, ExtentFacts
    <3> QED BY <3>1, <3>2
  <2>2. MovedByte(i) <=> IF b < a THEN i < d ELSE i >= n - d
    BY <1>2, <1>5 DEF MovedByte
  <2>3. MovedByte(i)' <=> IF b < a THEN i < d + 1 ELSE i >= n - (d + 1)
    BY <1>2, <1>5, <1>7, <1>8 DEF MovedByte
  <2>4. CASE j = k /\ i = t
    <3>1. ~MovedByte(i) /\ MovedByte(i)'
      BY <2>2, <2>3, <2>4, <1>5, <1>6
    <3>2. ByteAt(j, i) = a + t
      <4>1. j = job.k /\ ~(j < job.k) /\ job.groups[j].off = a
        BY <2>4, <1>2, <1>5 DEF Group
      <4> QED BY <4>1, <3>1, <2>4 DEF ByteAt
    <3>3. ByteAt(j, i)' = b + t
      BY <3>1, <2>4, <1>5, <1>7 DEF ByteAt
    <3> QED BY <3>2, <3>3, <1>10
  <2>5. CASE ~(j = k /\ i = t)
    <3>1. ByteAt(j, i) # b + t
      BY <2>5, <1>1, <1>2, MoveFacts
    <3>2. j = k => (MovedByte(i)' <=> MovedByte(i))
      BY <2>1, <2>2, <2>3, <2>5, <1>5, <1>6
    <3>3. ByteAt(j, i)' = ByteAt(j, i)
      BY <3>2, <1>2, <1>7 DEF ByteAt
    <3>4. \A x : x # b + t => heap'[x] = heap[x]
      BY <1>3
    <3> QED BY <3>1, <3>3, <3>4
  <2> QED BY <2>4, <2>5
<1>12. Packs'
  <2>1. ASSUME NEW r \in Live \ stale, NEW j \in DOMAIN job.groups, desc[r] = job.groups[j],
               NEW i \in 0 .. desc[r].len - 1
        PROVE  heap'[ByteAt(j, i)'] = should[r][i + 1]
    BY <2>1, <1>1, <1>11, PackingFacts
  <2>2. d + 1 <= n /\ b + n <= Cap /\ b # a /\ k <= Len(job.groups)
    BY <1>1, <1>2, <1>5, PackingFacts
  <2>3. /\ \A r \in Live : desc[r] \in Range(job.groups)
        /\ \A j \in DOMAIN job.groups : j < job.k =>
              /\ job.dst[job.groups[j]] + job.groups[j].len <= job.bump
              /\ \A i \in DOMAIN job.groups : i < j =>
                    job.dst[job.groups[i]] + job.groups[i].len <= job.dst[job.groups[j]]
        /\ \A r \in Live \ stale : Len(should[r]) = desc[r].len
    BY <1>1, PackingFacts
  <2> QED BY <2>1, <2>2, <2>3, <1>1, <1>2, <1>7, <1>8 DEF Packs
<1>13. Points'
  BY <1>7 DEF Points
<1>14. desc' \in [Row -> Descs] /\ desc' = desc
  BY <1>1, <1>4 DEF HeapTypeOK
<1> QED BY <1>1, <1>4, <1>7, <1>8, <1>9, <1>10, <1>12, <1>13, <1>14, CompactGoesOn

\* A group is packed when all of its bytes are at the destination.
LEMMA PackedStep ==
    ASSUME HeapInv, Packed
    PROVE  HeapInv'
<1>1. /\ Packing /\ (job.done = Group.len \/ (Group.off = job.bump /\ MayMove))
      /\ job' = [job EXCEPT !.dst[Group] = job.bump, !.bump = @ + Group.len,
                            !.done = 0, !.k = @ + 1]
      /\ UNCHANGED <<heap, desc, mgr, seeded, calls, faults, should, stale>>
  BY DEF Packed, KeepRest
<1>2. PICK a, b, n, d, k, c, l, D :
         /\ a = Group.off /\ b = job.bump /\ n = Group.len /\ d = job.done /\ k = job.k
         /\ c = b + n /\ l = k + 1 /\ D = [job.dst EXCEPT ![Group] = b]
  OBVIOUS
<1>3. /\ Compaction /\ job.pc = "pack" /\ HeapTypeOK /\ PackTyped
      /\ job \in PackJobs(Live, Range(job.groups)) /\ job.dst \in [Range(job.groups) -> Nat]
      /\ Group \in Range(job.groups) /\ Group = job.groups[k] /\ k \in DOMAIN job.groups
      /\ Len(job.groups) \in Nat /\ DOMAIN job.groups = 1 .. Len(job.groups)
      /\ \A i, j \in DOMAIN job.groups : job.groups[i] = job.groups[j] => i = j
      /\ \A i \in DOMAIN job.groups : job.groups[i] \in Range(job.groups)
  BY <1>1, <1>2, PackFacts, PackingFacts
<1>4. /\ a \in Nat /\ b \in Nat /\ n \in Nat /\ d \in Nat /\ k \in Nat /\ k >= 1 /\ n > 0
      /\ Cap \in Nat /\ k <= Len(job.groups)
  BY <1>1, <1>2, <1>3, PackFacts, PackingFacts, ExtentFacts
<1>5. b + n <= Cap
  <2>1. CASE job.done = Group.len
    BY <2>1, <1>1, <1>2, <1>4, PackingFacts
  <2>2. CASE MayMove
    BY <2>2, <1>2 DEF MayMove
  <2> QED BY <2>1, <2>2, <1>1
<1>6. /\ D \in [Range(job.groups) -> Nat] /\ D[job.groups[k]] = b
      /\ \A j \in DOMAIN job.groups : j # k => D[job.groups[j]] = job.dst[job.groups[j]]
  BY <1>2, <1>3, <1>4
<1>7. c \in 0 .. Cap /\ l \in Nat \ {0} /\ c \in Nat /\ l \in Nat
  BY <1>2, <1>4, <1>5
<1>8. /\ job'.pc = "pack" /\ job'.op = "compact" /\ job'.rows = job.rows
      /\ job'.groups = job.groups /\ job'.k = l /\ job'.bump = c /\ job'.dst = D
      /\ job'.done = 0 /\ job' \in PackJobs(Live, Range(job.groups))
  <2>1. job' = [job EXCEPT !.dst = D, !.bump = c, !.done = 0, !.k = l]
    BY <1>1, <1>2, <1>3 DEF PackJobs
  <2>2. 0 \in Nat
    OBVIOUS
  <2>3. /\ job'.pc = job.pc /\ job'.op = job.op /\ job'.rows = job.rows
        /\ job'.groups = job.groups /\ job'.k = l /\ job'.bump = c
        /\ job'.dst = D /\ job'.done = 0 /\ job' \in PackJobs(Live, Range(job.groups))
    BY <2>1, <2>2, <1>3, <1>6, <1>7, Zenon DEF PackJobs
  <2> QED BY <2>3, <1>3 DEF Compaction
<1>9. Compaction' /\ Live' = Live /\ Busy' = Busy
  BY <1>1, <1>8 DEF Compaction, Live, Busy
<1>10. PackTyped'
  <2>1. l <= Len(job.groups) + 1
    BY <1>2, <1>4
  <2> QED BY <2>1, <1>3, <1>8, <1>9 DEF PackTyped
<1>11. ASSUME NEW j \in DOMAIN job.groups, NEW i \in 0 .. job.groups[j].len - 1
       PROVE  ByteAt(j, i)' = ByteAt(j, i)
  <2>1. PICK e, m : e = job.groups[j].off /\ m = job.groups[j].len
    OBVIOUS
  <2>2. e \in Nat /\ m \in Nat /\ i \in Nat /\ i < m /\ j \in Nat
    <3>1. job.groups[j] \in HeapExtents
      BY <1>3, PackFacts
    <3> QED BY <3>1, <2>1, <1>3, ExtentFacts
  <2>3. CASE j < k
    <3>1. ByteAt(j, i)' = D[job.groups[j]] + i
      BY <2>2, <2>3, <1>2, <1>4, <1>8 DEF ByteAt
    <3>2. ByteAt(j, i) = job.dst[job.groups[j]] + i
      BY <2>3, <1>2 DEF ByteAt
    <3>3. D[job.groups[j]] = job.dst[job.groups[j]]
      BY <2>2, <2>3, <1>4, <1>6
    <3> QED BY <3>1, <3>2, <3>3
  <2>4. CASE j = k
    <3>1. ByteAt(j, i)' = b + i
      BY <2>4, <1>2, <1>4, <1>6, <1>8 DEF ByteAt
    <3>2. job.groups[j] = Group /\ e = a /\ m = n
      BY <2>1, <2>4, <1>2, <1>3
    <3>3. MovedByte(i) <=> b # a /\ IF b < a THEN i < d ELSE i >= n - d
      BY <1>2 DEF MovedByte
    <3>4. ByteAt(j, i) = IF MovedByte(i) THEN b + i ELSE a + i
      BY <2>1, <2>4, <3>2, <1>2, <1>4 DEF ByteAt
    <3>5. d > 0 => b # a
      BY <1>1, <1>2, PackingFacts
    <3>6. d = n \/ a = b
      BY <1>1, <1>2
    <3>7. CASE a = b
      BY <3>1, <3>4, <3>7
    <3>8. CASE a # b
      <4>1. b # a /\ IF b < a THEN i < d ELSE i >= n - d
        BY <3>2, <3>6, <3>8, <2>2, <1>4
      <4> QED BY <4>1, <3>1, <3>3, <3>4
    <3> QED BY <3>7, <3>8
  <2>5. CASE j > k
    <3>1. ByteAt(j, i) = e + i
      BY <2>1, <2>2, <2>5, <1>2, <1>4 DEF ByteAt
    <3>2. j = l => ~MovedByte(i)'
      <4>1. ASSUME j = l PROVE ~MovedByte(i)'
        <5>1. Group' = job.groups[j]
          BY <4>1, <1>8 DEF Group
        <5>2. MovedByte(i)' <=> c # e /\ IF c < e THEN i < 0 ELSE i >= m - 0
          BY <5>1, <2>1, <1>8 DEF MovedByte
        <5>3. ~(IF c < e THEN i < 0 ELSE i >= m - 0)
          BY <2>2, <1>7
        <5> QED BY <5>2, <5>3
      <4> QED BY <4>1
    <3>3. ByteAt(j, i)' = e + i
      <4>1. ~(j < l)
        BY <2>2, <2>5, <1>2, <1>4
      <4> QED BY <4>1, <3>2, <2>1, <1>8 DEF ByteAt
    <3> QED BY <3>1, <3>3
  <2> QED BY <2>2, <2>3, <2>4, <2>5, <1>4
<1>12. ASSUME NEW j \in DOMAIN job.groups, j < l
       PROVE  /\ D[job.groups[j]] + job.groups[j].len <= c
              /\ \A i \in DOMAIN job.groups : i < j =>
                    D[job.groups[i]] + job.groups[i].len <= D[job.groups[j]]
  <2>1. j \in Nat /\ j <= k
    BY <1>2, <1>3, <1>4, <1>12
  <2>2. ASSUME NEW i \in DOMAIN job.groups, i < k
        PROVE  /\ D[job.groups[i]] = job.dst[job.groups[i]]
               /\ D[job.groups[i]] + job.groups[i].len <= b
    <3>1. i # k
      BY <2>2, <1>4
    <3> QED BY <3>1, <2>2, <1>1, <1>2, <1>6, PackingFacts
  <2>3. ASSUME NEW i \in DOMAIN job.groups
        PROVE  D[job.groups[i]] \in Nat /\ job.groups[i].len \in Nat /\ i \in Nat
    <3>1. D[job.groups[i]] \in Nat /\ i \in Nat
      BY <1>3, <1>6
    <3>2. job.groups[i] \in HeapExtents
      BY <1>3, PackFacts
    <3> QED BY <3>1, <3>2, ExtentFacts
  <2>4. CASE j = k
    <3>1. D[job.groups[j]] + job.groups[j].len <= c
      BY <2>4, <1>2, <1>3, <1>6, <1>4
    <3> QED BY <3>1, <2>2, <2>4, <1>6
  <2>5. CASE j < k
    <3>1. D[job.groups[j]] + job.groups[j].len <= b
      BY <2>2, <2>5
    <3>2. D[job.groups[j]] + job.groups[j].len <= c
      <4>1. PICK x, y : x = D[job.groups[j]] /\ y = job.groups[j].len
        OBVIOUS
      <4>2. x \in Nat /\ y \in Nat /\ x + y <= b
        BY <4>1, <3>1, <2>3
      <4>3. x + y <= c
        BY <4>2, <1>2, <1>4
      <4> QED BY <4>1, <4>3
    <3>3. ASSUME NEW i \in DOMAIN job.groups, i < j
          PROVE  D[job.groups[i]] + job.groups[i].len <= D[job.groups[j]]
      <4>1. i < k
        BY <3>3, <2>3, <2>5, <1>4
      <4>2. job.dst[job.groups[i]] + job.groups[i].len <= job.dst[job.groups[j]]
        BY <3>3, <2>5, <1>1, <1>2, PackingFacts
      <4> QED BY <4>1, <4>2, <2>2, <2>5
    <3> QED BY <3>2, <3>3
  <2> QED BY <2>1, <2>4, <2>5, <1>4
<1>13. Packs'
  <2>1. ASSUME NEW r \in Live \ stale, NEW j \in DOMAIN job.groups, desc[r] = job.groups[j],
               NEW i \in 0 .. desc[r].len - 1
        PROVE  heap[ByteAt(j, i)'] = should[r][i + 1]
    BY <2>1, <1>1, <1>11, PackingFacts
  <2>2. /\ \A r \in Live : desc[r] \in Range(job.groups)
        /\ \A r \in Live \ stale : Len(should[r]) = desc[r].len
    BY <1>1, PackingFacts
  <2>3. ~(job'.done > 0)
    BY <1>8
  <2>4. /\ job'.groups = job.groups /\ job'.k = l /\ job'.bump = c /\ job'.dst = D
        /\ UNCHANGED <<heap, desc, stale, should>>
    BY <1>1, <1>8
  <2> QED BY <2>1, <2>2, <2>3, <2>4, <1>9, <1>12 DEF Packs
<1>14. Points'
  BY <1>8 DEF Points
<1>15. heap' \in [0 .. Cap - 1 -> Values] /\ desc' \in [Row -> Descs]
  BY <1>1, <1>3 DEF HeapTypeOK
<1> QED BY <1>1, <1>3, <1>8, <1>9, <1>10, <1>13, <1>14, <1>15, CompactGoesOn

\* The destinations of the groups are disjoint, as the groups of trusted cells were.
LEMMA PackEndsStep ==
    ASSUME HeapInv, PackEnds
    PROVE  HeapInv'
<1>1. /\ Compaction /\ job.pc = "pack" /\ job.k > Len(job.groups)
      /\ job' = [job EXCEPT !.pc = "point", !.k = 1]
      /\ UNCHANGED <<heap, desc, mgr, seeded, calls, faults, should, stale>>
  BY DEF PackEnds, KeepRest, Compacting, Compaction
<1>2. /\ HeapTypeOK /\ PackTyped /\ job \in PackJobs(Live, Range(job.groups))
      /\ job.k \in Nat /\ Len(job.groups) \in Nat /\ DOMAIN job.groups = 1 .. Len(job.groups)
      /\ job.dst \in [Range(job.groups) -> Nat] /\ Len(job.rows) \in Nat /\ Live \subseteq Row
      /\ job.bump \in Nat /\ ~Writing
  BY <1>1, PackFacts
<1>3. /\ job'.pc = "point" /\ job'.op = job.op /\ job'.rows = job.rows
      /\ job'.groups = job.groups /\ job'.k = 1 /\ job'.bump = job.bump /\ job'.dst = job.dst
      /\ job' \in PackJobs(Live, Range(job.groups))
  <2>1. job' = [job EXCEPT !.pc = "point", !.k = 1] /\ 1 \in Nat \ {0}
    BY <1>1
  <2> QED BY <2>1, <1>2, Zenon DEF PackJobs
<1>4. Compaction' /\ Live' = Live /\ Busy' = Busy
  BY <1>1, <1>3 DEF Compaction, Live, Busy
<1>5. PackTyped'
  BY <1>2, <1>3, <1>4 DEF PackTyped
<1>6. Pointed' = {} /\ \A r \in Row : Place(r)' = job.dst[desc[r]]
  <2>1. Pointed' = {}
    BY <1>3 DEF Pointed
  <2> QED BY <2>1, <1>1, <1>3 DEF Place
<1>7. /\ \A r \in Live : desc[r] \in Range(job.groups)
      /\ \A r \in Live \ stale : Len(should[r]) = desc[r].len
      /\ \A j \in DOMAIN job.groups :
            /\ job.dst[job.groups[j]] + job.groups[j].len <= job.bump
            /\ \A i \in DOMAIN job.groups : i < j =>
                  job.dst[job.groups[i]] + job.groups[i].len <= job.dst[job.groups[j]]
      /\ \A r \in Live \ stale, j \in DOMAIN job.groups : desc[r] = job.groups[j] =>
            \A i \in 0 .. desc[r].len - 1 : heap[ByteAt(j, i)] = should[r][i + 1]
  <2>1. Packs
    BY DEF HeapInv
  <2>2. \A j \in DOMAIN job.groups : j < job.k
    BY <1>1, <1>2
  <2> QED BY <2>1, <2>2, <1>1 DEF Packs
<1>8. ASSUME NEW r \in Live
      PROVE  \E j \in DOMAIN job.groups : desc[r] = job.groups[j] /\ j < job.k
  <2>1. \E j \in DOMAIN job.groups : desc[r] = job.groups[j]
    BY <1>7 DEF Range
  <2> QED BY <2>1, <1>1, <1>2
<1>9. ASSUME NEW r \in Live
      PROVE  job.dst[desc[r]] \in Nat /\ job.dst[desc[r]] + desc[r].len <= job.bump
  BY <1>2, <1>7, <1>8
<1>10. ASSUME Trusted, NEW r \in Live \ stale, NEW s \in Live \ stale, r # s
       PROVE  \/ job.dst[desc[r]] + desc[r].len <= job.dst[desc[s]]
              \/ job.dst[desc[s]] + desc[s].len <= job.dst[desc[r]]
  <2>1. PICK i \in DOMAIN job.groups, j \in DOMAIN job.groups :
           desc[r] = job.groups[i] /\ desc[s] = job.groups[j]
    BY <1>8, <1>10
  <2>2. i # j
    <3>1. desc[r] \in HeapExtents /\ desc[s] \in HeapExtents
      BY <2>1, <1>1, PackFacts
    <3>2. Apart(desc[r], desc[s])
      <4>1. HeldApart /\ r \in Held /\ s \in Held
        BY <1>1, <1>2, <1>10 DEF HeapInv, Held, Released
      <4> QED BY <4>1, <3>1, <1>10 DEF HeldApart, HeapExtents
    <3>3. desc[r] # desc[s]
      BY <3>1, <3>2, ExtentFacts DEF Apart, End
    <3> QED BY <3>3, <2>1
  <2>3. i < j \/ j < i
    BY <2>2, <1>2
  <2> QED BY <2>1, <2>3, <1>7
<1>11. ASSUME NEW r \in Live \ stale, NEW i \in 0 .. desc[r].len - 1
       PROVE  heap[job.dst[desc[r]] + i] = should[r][i + 1]
  <2>1. PICK j \in DOMAIN job.groups : desc[r] = job.groups[j] /\ j < job.k
    BY <1>8
  <2>2. ByteAt(j, i) = job.dst[desc[r]] + i
    BY <2>1 DEF ByteAt
  <2> QED BY <2>1, <2>2, <1>7
<1>12. Points'
  <2>1. \A r \in Live : Place(r)' = job.dst[desc[r]]
    BY <1>2, <1>6
  <2>2. Trusted' => Trusted
    BY <1>1 DEF Trusted
  <2> QED BY <2>1, <2>2, <1>1, <1>3, <1>4, <1>6, <1>7, <1>9, <1>10, <1>11 DEF Points
<1>13. Packs'
  BY <1>3 DEF Packs
<1>14. heap' \in [0 .. Cap - 1 -> Values] /\ desc' \in [Row -> Descs]
  BY <1>1, <1>2 DEF HeapTypeOK
<1> QED BY <1>1, <1>3, <1>4, <1>5, <1>12, <1>13, <1>14, CompactGoesOn

\* The cell a compaction points next reads from where its payload has been packed.
LEMMA PointStep ==
    ASSUME HeapInv, Point
    PROVE  HeapInv'
<1>1. /\ Compaction /\ job.pc = "point" /\ job.k <= Len(job.rows)
      /\ desc' = [desc EXCEPT ![Here].off = job.dst[desc[Here]]]
      /\ job' = [job EXCEPT !.k = @ + 1]
      /\ UNCHANGED <<heap, mgr, seeded, calls, faults, should, stale>>
  BY DEF Point, KeepRest, Compacting, Compaction, More
<1>2. /\ HeapTypeOK /\ PackTyped /\ job \in PackJobs(Live, Range(job.groups)) /\ Busy = Live
      /\ job.k \in Nat /\ job.k >= 1 /\ job.dst \in [Range(job.groups) -> Nat]
      /\ Len(job.rows) \in Nat /\ job.rows \in Seq(Live) /\ Live \subseteq Row
      /\ \A i, j \in 1 .. Len(job.rows) : job.rows[i] = job.rows[j] => i = j
  BY <1>1, PackFacts
<1>3. /\ \A r \in Live \ Pointed : desc[r] \in Range(job.groups)
      /\ \A r \in Live : Place(r) \in Nat /\ Place(r) + desc[r].len <= job.bump
      /\ Trusted => \A r, s \in Live \ stale : r # s =>
            Place(r) + desc[r].len <= Place(s) \/ Place(s) + desc[s].len <= Place(r)
      /\ \A r \in Live \ stale : Len(should[r]) = desc[r].len
      /\ \A r \in Live \ stale : \A i \in 0 .. desc[r].len - 1 :
            heap[Place(r) + i] = should[r][i + 1]
  BY <1>1 DEF HeapInv, Points
<1>4. PICK h, k, l, o : h = Here /\ k = job.k /\ l = k + 1 /\ o = job.dst[desc[Here]]
  OBVIOUS
<1>5. k \in 1 .. Len(job.rows) /\ k \in Nat /\ l \in Nat \ {0} /\ l <= Len(job.rows) + 1
  BY <1>1, <1>2, <1>4
<1>6. h = job.rows[k] /\ h \in Live /\ h \in Row
  <2>1. job.rows[k] \in Live
    BY <1>2, <1>5
  <2> QED BY <2>1, <1>2, <1>4 DEF Here
<1>7. h \notin Pointed
  <2>1. \A j \in 1 .. Len(job.rows) : j < k => job.rows[j] # h
    BY <1>2, <1>5, <1>6
  <2> QED BY <2>1, <1>4 DEF Pointed
<1>8. o \in Nat /\ o = Place(h)
  <2>1. desc[h] \in Range(job.groups)
    BY <1>3, <1>6, <1>7
  <2> QED BY <2>1, <1>2, <1>4, <1>7 DEF Place
<1>9. /\ job'.pc = "point" /\ job'.op = "compact" /\ job'.rows = job.rows
      /\ job'.groups = job.groups /\ job'.k = l /\ job'.bump = job.bump /\ job'.dst = job.dst
      /\ job' \in PackJobs(Live, Range(job.groups))
  <2>1. job' = [job EXCEPT !.k = l]
    BY <1>1, <1>4
  <2>2. /\ job'.pc = job.pc /\ job'.op = job.op /\ job'.rows = job.rows
        /\ job'.groups = job.groups /\ job'.k = l /\ job'.bump = job.bump
        /\ job'.dst = job.dst /\ job' \in PackJobs(Live, Range(job.groups))
    BY <2>1, <1>2, <1>5, Zenon DEF PackJobs
  <2> QED BY <2>2, <1>1 DEF Compaction
<1>10. /\ desc' \in [Row -> Descs] /\ desc'[h].off = o /\ desc'[h].len = desc[h].len
       /\ \A r \in Row : r # h => desc'[r] = desc[r]
  <2>1. desc \in [Row -> Descs] /\ desc[h] \in Descs
    BY <1>2, <1>6 DEF HeapTypeOK
  <2>2. desc' = [desc EXCEPT ![h] = [desc[h] EXCEPT !.off = o]]
    BY <2>1, <1>1, <1>4, <1>6
  <2>3. PICK d : d = [desc[h] EXCEPT !.off = o]
    OBVIOUS
  <2>4. d \in Descs /\ d.off = o /\ d.len = desc[h].len
    BY <2>1, <2>3, <1>8 DEF Descs
  <2>5. desc' = [desc EXCEPT ![h] = d]
    BY <2>2, <2>3
  <2> QED BY <2>1, <2>4, <2>5, <1>6
<1>11. \A r \in Row : desc'[r].len = desc[r].len
  BY <1>10
<1>12. Compaction' /\ Live' = Live /\ Busy' = Busy
  BY <1>9, <1>11 DEF Compaction, Live, Busy
<1>13. Pointed' = Pointed \cup {h}
  <2>1. Pointed' = {job.rows[j] : j \in {i \in 1 .. Len(job.rows) : i < l}}
    BY <1>9 DEF Pointed
  <2>2. Pointed = {job.rows[j] : j \in {i \in 1 .. Len(job.rows) : i < k}}
    BY <1>4 DEF Pointed
  <2>3. \A i \in 1 .. Len(job.rows) : i < l <=> i < k \/ i = k
    BY <1>2, <1>4, <1>5
  <2>4. h = job.rows[k] /\ k \in 1 .. Len(job.rows)
    BY <1>5, <1>6
  <2> QED BY <2>1, <2>2, <2>3, <2>4
<1>14. ASSUME NEW r \in Live PROVE Place(r)' = Place(r)
  <2>1. CASE r = h
    BY <2>1, <1>8, <1>10, <1>13 DEF Place
  <2>2. CASE r # h
    <3>1. desc'[r] = desc[r] /\ (r \in Pointed' <=> r \in Pointed)
      BY <2>2, <1>2, <1>10, <1>13
    <3> QED BY <3>1, <1>9 DEF Place
  <2> QED BY <2>1, <2>2
<1>15. PackTyped'
  BY <1>2, <1>5, <1>9, <1>12 DEF PackTyped
<1>16. Points'
  <2>1. ASSUME NEW r \in Live \ Pointed' PROVE desc'[r] \in Range(job.groups)
    BY <1>2, <1>3, <1>10, <1>13
  <2>2. \A r \in Live : Place(r)' = Place(r) /\ desc'[r].len = desc[r].len
    BY <1>2, <1>11, <1>14
  <2>3. Trusted' => Trusted
    BY <1>1 DEF Trusted
  <2>4. job'.groups = job.groups /\ job'.bump = job.bump /\ UNCHANGED <<heap, should, stale>>
    BY <1>1, <1>9
  <2>5. \A r \in Live : Place(r)' \in Nat /\ Place(r)' + desc'[r].len <= job'.bump
    BY <2>2, <2>4, <1>3
  <2>6. Trusted' => \A r, s \in Live \ stale : r # s =>
            \/ Place(r)' + desc'[r].len <= Place(s)'
            \/ Place(s)' + desc'[s].len <= Place(r)'
    BY <2>2, <2>3, <1>3
  <2>7. /\ \A r \in Live \ stale : Len(should[r]) = desc'[r].len
        /\ \A r \in Live \ stale : \A i \in 0 .. desc'[r].len - 1 :
              heap[Place(r)' + i] = should[r][i + 1]
    BY <2>2, <1>3
  <2> QED BY <2>1, <2>4, <2>5, <2>6, <2>7, <1>12 DEF Points
<1>17. Packs'
  BY <1>9 DEF Packs
<1>18. heap' \in [0 .. Cap - 1 -> Values] /\ \A r \in Row \ Live : desc'[r] = desc[r]
  BY <1>1, <1>2, <1>6, <1>10 DEF HeapTypeOK
<1> QED BY <1>1, <1>9, <1>10, <1>12, <1>15, <1>16, <1>17, <1>18, CompactGoesOn

\* A cell whose bytes are those it should have reads as it should.
LEMMA ReadsAsShould ==
    ASSUME HeapTypeOK, NEW r \in Row, InHeap(desc[r]), Len(should[r]) = desc[r].len,
           \A i \in 0 .. desc[r].len - 1 : heap[desc[r].off + i] = should[r][i + 1]
    PROVE  Read(r) = should[r]
<1>1. PICK a, n : a = desc[r].off /\ n = desc[r].len
  OBVIOUS
<1>2. a \in Nat /\ n \in Nat
  BY <1>1, ExtentFacts DEF HeapTypeOK, HeapExtents
<1>3. Read(r) = [i \in 1 .. n |-> heap[a + i - 1]]
  BY <1>1 DEF Read, ReadAs
<1>4. ASSUME NEW i \in 1 .. n PROVE heap[a + i - 1] = should[r][i]
  <2>1. i - 1 \in 0 .. n - 1 /\ a + (i - 1) = a + i - 1 /\ (i - 1) + 1 = i
    BY <1>2
  <2>2. heap[a + (i - 1)] = should[r][(i - 1) + 1]
    BY <2>1, <1>1
  <2> QED BY <2>1, <2>2
<1>5. should[r] \in Seq(Values)
  BY DEF HeapTypeOK
<1>6. should[r] = [i \in 1 .. n |-> should[r][i]]
  BY <1>1, <1>5
<1> QED BY <1>3, <1>4, <1>6

\* All cells are pointed: they lie below the new top, and none overlap.
LEMMA CompactEndsStep ==
    ASSUME HeapInv, CompactEnds
    PROVE  HeapInv'
<1>1. /\ Compaction /\ job.pc = "point" /\ ~(job.k <= Len(job.rows))
      /\ mgr' = [top |-> job.bump, free |-> <<>>] /\ job' = NoJob
      /\ UNCHANGED <<heap, desc, seeded, calls, faults, should, stale>>
  BY DEF CompactEnds, KeepRest, Compacting, Compaction, More, Repacked
<1>2. /\ HeapTypeOK /\ Kept /\ Awaiting = Live /\ Busy = Live /\ Live \subseteq Row
      /\ job.k \in Nat /\ Len(job.rows) \in Nat /\ job.rows \in Seq(Live)
      /\ job.bump \in Nat /\ job.bump <= Cap /\ Cap \in Nat
  BY <1>1, PackFacts
<1>3. Pointed = Live
  <2>1. DOMAIN job.rows = 1 .. Len(job.rows)
    BY <1>2
  <2>2. {i \in 1 .. Len(job.rows) : i < job.k} = DOMAIN job.rows
    BY <2>1, <1>1, <1>2
  <2> QED BY <2>2, <1>2 DEF Pointed, Busy, Range
<1>4. /\ \A r \in Live : desc[r].off \in Nat /\ desc[r].off + desc[r].len <= job.bump
      /\ Trusted => \A r, s \in Live \ stale : r # s =>
            \/ desc[r].off + desc[r].len <= desc[s].off
            \/ desc[s].off + desc[s].len <= desc[r].off
      /\ \A r \in Live \ stale : Len(should[r]) = desc[r].len
      /\ \A r \in Live \ stale : \A i \in 0 .. desc[r].len - 1 :
            heap[desc[r].off + i] = should[r][i + 1]
  <2>1. Points
    BY DEF HeapInv
  <2>2. \A r \in Live : Place(r) = desc[r].off
    BY <1>3 DEF Place
  <2> QED BY <2>1, <2>2, <1>1 DEF Points
<1>5. ASSUME NEW r \in Live PROVE InHeap(desc[r])
  <2>1. PICK a, n, c : a = desc[r].off /\ n = desc[r].len /\ c = job.bump
    OBVIOUS
  <2>2. a \in Nat /\ n \in Int /\ n > 0 /\ c \in Nat /\ c <= Cap /\ a + n <= c
    BY <2>1, <1>2, <1>4 DEF Live, HeapTypeOK, Descs
  <2>3. n > 0 /\ a >= 0 /\ a + n <= Cap
    BY <2>2, <1>2
  <2> QED BY <2>1, <2>3 DEF InHeap, End
<1>6. ASSUME NEW r \in Row \ stale PROVE Read(r)' = should'[r]
  <2>1. Read(r)' = Read(r) /\ should'[r] = should[r]
    BY <1>1 DEF Read, ReadAs, InHeap, End
  <2>2. CASE r \in Live
    BY <2>1, <2>2, <1>2, <1>4, <1>5, ReadsAsShould
  <2>3. CASE r \notin Live
    BY <2>1, <2>3, <1>2 DEF Kept
  <2> QED BY <2>2, <2>3
<1>7. mgr' \in Managers
  <2>1. <<>> \in Seq(HeapExtents) /\ job.bump \in 0 .. Cap
    BY <1>2
  <2> QED BY <2>1, <1>1, ManagerIs
<1>8. ASSUME Trusted' PROVE Separate(mgr)' /\ HeldApart'
  <2>1. Trusted /\ mgr'.top = job.bump /\ mgr'.free = <<>>
    BY <1>1, <1>8 DEF Trusted
  <2>2. Separate(mgr)'
    BY <2>1 DEF Separate
  <2>3. Held' = Row \ stale
    <3>1. job'.op = "none"
      BY <1>1 DEF NoJob
    <3> QED BY <3>1, <1>1 DEF Held, Released, Writing
  <2>4. \A r \in Row : InHeap(desc[r]) => r \in Live
    BY DEF InHeap, Live
  <2>5. \A r \in Held' : InHeap(desc[r]) => Spare(mgr', desc[r])
    BY <2>1, <2>3, <2>4, <1>4 DEF Spare, End
  <2>6. ASSUME NEW r \in Held', NEW s \in Held', r # s, InHeap(desc[r]), InHeap(desc[s])
        PROVE  Apart(desc[r], desc[s])
    BY <2>1, <2>3, <2>4, <2>6, <1>4 DEF Apart, End
  <2> QED BY <2>2, <2>5, <2>6, <1>1 DEF HeldApart
<1>9. /\ heap' \in [0 .. Cap - 1 -> Values] /\ desc' \in [Row -> Descs]
      /\ seeded' \in BOOLEAN /\ calls' \in 0 .. MaxCalls /\ faults' \in 0 .. MaxFaults
      /\ should' \in [Row -> Seq(Values)] /\ stale' \in SUBSET Row /\ stale' = stale
  BY <1>1, <1>2 DEF HeapTypeOK
<1> QED BY <1>1, <1>6, <1>7, <1>8, <1>9, IdleInv

\* A compaction that has moved nothing leaves every cell where it was.
LEMMA NothingMoved ==
    ASSUME HeapInv, Compaction, ~Moved, NEW r \in Live \ stale
    PROVE  Read(r) = should[r]
<1>1. /\ job.pc = "pack" /\ ~(job.done > 0)
      /\ \A j \in 1 .. job.k - 1 : job.groups[j].off = job.dst[job.groups[j]]
  BY PackFacts DEF Moved
<1>2. /\ HeapTypeOK /\ job.done = 0 /\ job.k \in Nat /\ Live \subseteq Row /\ job.bump \in Nat
      /\ DOMAIN job.groups = 1 .. Len(job.groups) /\ Len(job.groups) \in Nat
  BY <1>1, PackFacts
<1>3. /\ \E j \in DOMAIN job.groups : desc[r] = job.groups[j]
      /\ Len(should[r]) = desc[r].len
      /\ \A j \in DOMAIN job.groups : desc[r] = job.groups[j] =>
            \A i \in 0 .. desc[r].len - 1 : heap[ByteAt(j, i)] = should[r][i + 1]
  BY <1>1 DEF HeapInv, Packs, Range
<1>4. PICK j \in DOMAIN job.groups : desc[r] = job.groups[j]
  BY <1>3
<1>5. desc[r] \in HeapExtents /\ InHeap(desc[r])
  BY <1>4, PackFacts DEF HeapExtents
<1>6. ASSUME NEW i \in 0 .. desc[r].len - 1 PROVE ByteAt(j, i) = desc[r].off + i
  <2>1. PICK e, m, b : e = desc[r].off /\ m = desc[r].len /\ b = job.bump
    OBVIOUS
  <2>2. e \in Nat /\ m \in Nat /\ i \in Nat /\ i < m /\ j \in Nat /\ j >= 1 /\ b \in Nat
    BY <2>1, <1>2, <1>5, ExtentFacts
  <2>3. CASE j < job.k
    <3>1. j \in 1 .. job.k - 1
      BY <2>2, <2>3, <1>2
    <3>2. job.dst[job.groups[j]] = e
      BY <3>1, <2>1, <1>1, <1>4
    <3> QED BY <3>2, <2>1, <2>3 DEF ByteAt
  <2>4. CASE ~(j < job.k)
    <3>1. j = job.k => ~MovedByte(i)
      <4>1. ASSUME j = job.k PROVE ~MovedByte(i)
        <5>1. MovedByte(i) <=> b # e /\ IF b < e THEN i < 0 ELSE i >= m - 0
          BY <4>1, <2>1, <1>2, <1>4 DEF MovedByte, Group
        <5>2. ~(IF b < e THEN i < 0 ELSE i >= m - 0)
          BY <2>2
        <5> QED BY <5>1, <5>2
      <4> QED BY <4>1
    <3> QED BY <3>1, <2>1, <2>4, <1>4 DEF ByteAt
  <2> QED BY <2>3, <2>4
<1>7. \A i \in 0 .. desc[r].len - 1 : heap[desc[r].off + i] = should[r][i + 1]
  BY <1>3, <1>4, <1>6
<1> QED BY <1>2, <1>3, <1>5, <1>7, ReadsAsShould

\* A compaction that stops: the cells are stale, unless nothing has moved.
LEMMA CompactFailsStep ==
    ASSUME HeapInv, Compaction, CompactFails, faults' \in 0 .. MaxFaults
    PROVE  HeapInv'
<1>1. /\ job' = NoJob /\ stale' = (IF Moved THEN Row ELSE stale)
      /\ UNCHANGED <<heap, desc, mgr, seeded, calls, should>>
  BY DEF CompactFails, KeepRest
<1>2. /\ HeapTypeOK /\ ~Writing /\ Kept /\ Awaiting = Live /\ Live \subseteq Row
      /\ Trusted => Separate(mgr)
  BY PackFacts
<1>3. stale \in SUBSET Row
  BY <1>2 DEF HeapTypeOK
<1>4. ASSUME NEW r \in Row \ stale' PROVE Read(r)' = should'[r]
  <2>1. ~Moved /\ r \notin stale
    BY <1>1, <1>4
  <2>2. Read(r)' = Read(r) /\ should'[r] = should[r]
    BY <1>1 DEF Read, ReadAs, InHeap, End
  <2>3. CASE r \in Live
    BY <2>1, <2>2, <2>3, NothingMoved
  <2>4. CASE r \notin Live
    BY <2>1, <2>2, <2>4, <1>2 DEF Kept
  <2> QED BY <2>3, <2>4
<1>5. Held' = Row \ stale'
  <2>1. job'.op = "none"
    BY <1>1 DEF NoJob
  <2> QED BY <2>1 DEF Held, Released, Writing
<1>6. ASSUME Trusted' PROVE Separate(mgr)' /\ HeldApart'
  <2>1. Trusted
    BY <1>1, <1>3, <1>6 DEF Trusted
  <2>2. Separate(mgr)'
    BY <2>1, <1>1, <1>2 DEF Separate
  <2>3. CASE Moved
    <3>1. Held' = {}
      BY <2>3, <1>1, <1>5
    <3> QED BY <3>1, <2>2 DEF HeldApart
  <2>4. CASE ~Moved
    <3>1. HeldApart
      BY <2>1, <2>4 DEF HeapInv, Moved
    <3>2. Held' = Held
      BY <2>4, <1>1, <1>2, <1>5 DEF Held, Released
    <3> QED BY <3>1, <3>2, <2>2, <1>1 DEF HeldApart
  <2> QED BY <2>3, <2>4
<1>7. /\ heap' \in [0 .. Cap - 1 -> Values] /\ desc' \in [Row -> Descs] /\ mgr' \in Managers
      /\ seeded' \in BOOLEAN /\ calls' \in 0 .. MaxCalls
      /\ should' \in [Row -> Seq(Values)] /\ stale' \in SUBSET Row
  BY <1>1, <1>2, <1>3 DEF HeapTypeOK
<1> QED BY <1>1, <1>4, <1>6, <1>7, IdleInv
-----------------------------------------------------------------------------
(* The theorems.                                                            *)

\* The invariant speaks of nothing but the variables.
LEMMA StutterStep ==
    ASSUME HeapInv, UNCHANGED vars
    PROVE  HeapInv'
<1>1. UNCHANGED <<heap, desc, mgr, seeded, job, calls, faults, should, stale>>
  BY DEF vars
<1>2. /\ Busy' = Busy /\ Live' = Live /\ (Writing' <=> Writing) /\ (Compaction' <=> Compaction)
      /\ Here' = Here /\ Group' = Group /\ Released' = Released
  BY <1>1 DEF Busy, Live, Writing, Compaction, Here, Group, Released
<1>3. Held' = Held /\ Awaiting' = Awaiting /\ Block' = Block /\ Pointed' = Pointed
  BY <1>1, <1>2 DEF Held, Awaiting, Block, Pointed, InHeap, End
<1>4. HeapTypeOK'
  <2>1. WriteTyped' <=> WriteTyped
    BY <1>1, <1>2 DEF WriteTyped
  <2>2. PackTyped' <=> PackTyped
    BY <1>1, <1>2 DEF PackTyped
  <2> QED BY <2>1, <2>2, <1>1, <1>2 DEF HeapInv, HeapTypeOK
<1>5. Kept'
  <2>1. \A r \in Row : Read(r)' = Read(r)
    BY <1>1 DEF Read, ReadAs, InHeap, End
  <2> QED BY <2>1, <1>1, <1>3 DEF HeapInv, Kept
<1>6. Stored'
  BY <1>1, <1>2 DEF HeapInv, Stored, Payload
<1>7. Packs'
  <2>1. \A j, i : ByteAt(j, i)' = ByteAt(j, i)
    BY <1>1, <1>2 DEF ByteAt, MovedByte
  <2> QED BY <2>1, <1>1, <1>2 DEF HeapInv, Packs
<1>8. Points'
  <2>1. \A r : Place(r)' = Place(r)
    BY <1>1, <1>3 DEF Place
  <2>2. Trusted' <=> Trusted
    BY <1>1 DEF Trusted
  <2> QED BY <2>1, <2>2, <1>1, <1>2, <1>3 DEF HeapInv, Points
<1>9. ASSUME Trusted' PROVE /\ Separate(mgr)' /\ HandApart'
                            /\ ~(Compaction' /\ job'.pc = "point") => HeldApart'
  <2>1. Trusted
    BY <1>1, <1>9 DEF Trusted
  <2>2. /\ Separate(mgr) /\ HandApart
        /\ ~(Compaction /\ job.pc = "point") => HeldApart
    BY <2>1 DEF HeapInv
  <2>3. \A e : InHand(e)' <=> InHand(e)
    BY <1>1, <1>3 DEF InHand
  <2>4. HandApart'
    BY <2>2, <2>3, <1>1, <1>2, <1>3 DEF HandApart
  <2>5. HeldApart' <=> HeldApart
    BY <1>1, <1>3 DEF HeldApart
  <2>6. Separate(mgr)'
    BY <2>2, <1>1 DEF Separate
  <2> QED BY <2>2, <2>4, <2>5, <2>6, <1>1, <1>2
<1> QED BY <1>4, <1>5, <1>6, <1>7, <1>8, <1>9 DEF HeapInv

\* A file that has just been opened: nothing is trusted yet.
LEMMA InitInv ==
    ASSUME Init
    PROVE  HeapInv
<1>1. /\ desc \in InitDescs /\ heap = [i \in 0 .. Cap - 1 |-> <<0, 0, i>>]
      /\ mgr = [top |-> 0, free |-> <<>>] /\ seeded = FALSE /\ job = NoJob
      /\ calls = 0 /\ faults = 0 /\ should = [r \in Row |-> Read(r)] /\ stale = {}
  BY DEF Init, Blank
<1>2. desc \in [Row -> Descs]
  BY <1>1, HeapAssumption DEF Descs
<1>3. heap \in [0 .. Cap - 1 -> Values]
  BY <1>1, HeapAssumption DEF Values
<1>4. mgr \in Managers
  <2>1. <<>> \in Seq(HeapExtents) /\ 0 \in 0 .. Cap
    BY HeapAssumption
  <2> QED BY <2>1, <1>1, ManagerIs
<1>5. should \in [Row -> Seq(Values)]
  BY <1>1, <1>2, <1>3, ReadFacts
<1>6. ~Writing /\ ~Compaction /\ Busy = {}
  <2>1. job.op = "none" /\ job.rows = <<>>
    BY <1>1 DEF NoJob
  <2> QED BY <2>1 DEF Writing, Compaction, Busy, Range
<1>7. HeapTypeOK
  <2>1. calls \in 0 .. MaxCalls /\ faults \in 0 .. MaxFaults
    BY <1>1, HeapAssumption
  <2>2. seeded \in BOOLEAN /\ stale \in SUBSET Row /\ Busy \subseteq Row /\ job = NoJob
    BY <1>1, <1>6
  <2> QED BY <2>1, <2>2, <1>2, <1>3, <1>4, <1>5, <1>6 DEF HeapTypeOK
<1>8. Kept
  BY <1>1 DEF Kept
<1>9. Stored /\ Packs /\ Points /\ ~Trusted
  BY <1>1, <1>6 DEF Stored, Packs, Points, Trusted
<1> QED BY <1>7, <1>8, <1>9 DEF HeapInv

\* The invariant: who owns which byte of the heap, and which cells read as they
\* should, at every step of every write, column write and compaction, whether it
\* succeeds or fails (heap.zig:542-1102).
THEOREM HeapInvariant == Spec => []HeapInv
<1>1. ASSUME HeapInv, [Next]_vars PROVE HeapInv'
  <2>1. CASE UNCHANGED vars
    BY <2>1, <1>1, StutterStep
  <2>2. CASE Call
    <3>1. CASE Seed
      BY <3>1, <1>1, SeedStep
    <3>2. CASE Compact
      BY <3>2, <1>1, CompactBegins
    <3>3. CASE \E r \in Row, n \in 0 .. MaxLen : WriteVlaCell(r, n)
      BY <3>3, <1>1, WriteVlaCellStep
    <3>4. CASE \E R \in Ranges : \E lens \in [R -> 0 .. MaxLen] : WriteVlaColumn(lens)
      BY <3>4, <1>1, WriteVlaColumnStep
    <3> QED BY <2>2, <3>1, <3>2, <3>3, <3>4 DEF Call
  <2>3. CASE WriteStep
    BY <2>3, <1>1, FreeNextStep, FreesEndStep, MergeStep, MergeEndsStep, AllocNoneStep,
       AllocStep, TrialEndsStep, DrainStep, WriteDescStep, WriteEndsStep,
       AllocRefusedStep, DescRefusedStep DEF WriteStep
  <2>4. CASE CompactStep
    <3>1. CASE PackRefused
      <4>1. Compaction /\ CompactFails /\ faults' = faults
        BY <3>1 DEF PackRefused, Packing, Compacting, Compaction
      <4>2. faults' \in 0 .. MaxFaults
        BY <4>1, <1>1 DEF HeapInv, HeapTypeOK
      <4> QED BY <4>1, <4>2, <1>1, CompactFailsStep
    <3> QED BY <2>4, <3>1, <1>1, MoveStep, PackedStep, PackEndsStep, PointStep,
               CompactEndsStep DEF CompactStep
  <2>5. CASE Failure
    <3>1. CASE MoveFails \/ PointFails
      <4>1. Compaction /\ CompactFails /\ Fault
        BY <3>1 DEF MoveFails, PointFails, Packing, Compacting, Compaction
      <4>2. faults' \in 0 .. MaxFaults
        BY <4>1, <1>1, FaultFacts DEF HeapInv
      <4> QED BY <4>1, <4>2, <1>1, CompactFailsStep
    <3> QED BY <2>5, <3>1, <1>1, TrialFailsStep, AppendFailsStep, DrainFailsStep,
               DescFailsStep DEF Failure
  <2> QED BY <1>1, <2>1, <2>2, <2>3, <2>4, <2>5 DEF Next, Step
<1> QED BY <1>1, InitInv, PTL DEF Spec

\* The state keeps its types, and no extent of the free list leaves the heap.
THEOREM HeapTypes == Spec => []TypeOK
<1>1. HeapInv => TypeOK
  <2>1. ASSUME HeapInv PROVE TypeOK
    <3>1. HeapTypeOK /\ mgr \in Managers
      BY <2>1 DEF HeapInv, HeapTypeOK
    <3>2. /\ mgr.top \in 0 .. Cap
          /\ \A i \in DOMAIN mgr.free : mgr.free[i] \in HeapExtents
      BY <3>1, FreeFacts
    <3>3. \A i \in DOMAIN mgr.free : mgr.free[i].len > 0 /\ InHeap(mgr.free[i])
      BY <3>2 DEF HeapExtents, InHeap
    <3> QED BY <3>1, <3>2, <3>3 DEF TypeOK, HeapTypeOK, Descs
  <2> QED BY <2>1
<1> QED BY <1>1, HeapInvariant, PTL

\* The cells that no call is at are held.
LEMMA SettledFacts ==
    ASSUME HeapInv
    PROVE  /\ Settled \subseteq Row \ stale /\ \A r \in Settled : r \notin Awaiting
           /\ ~Compaction => Settled \subseteq Held
           /\ Compaction => \A r \in Settled : ~InHeap(desc[r])
<1>1. CASE Compaction
  <2>1. Awaiting = Live /\ Busy = Live
    BY <1>1, PackFacts
  <2> QED BY <2>1, <1>1 DEF Settled, Live, InHeap
<1>2. CASE Writing
  <2>1. ~Compaction /\ \A i \in 1 .. Len(job.rows) : job.rows[i] \in Busy
    BY <1>2, WriteFacts DEF HeapInv
  <2>2. Released \subseteq Busy
    BY <2>1 DEF Released
  <2> QED BY <2>1, <2>2 DEF Settled, Awaiting, Held
<1>3. CASE ~Writing /\ ~Compaction
  BY <1>3 DEF Settled, Awaiting, Released, Held
<1> QED BY <1>1, <1>2, <1>3

\* At every step of every call, failed calls included, no byte of a cell that is not
\* the call's own is another cell's or free (heap.zig:845-1001).
THEOREM HeapAccounting == Spec => []Accounting
<1>1. HeapInv => Accounting
  <2>1. ASSUME HeapInv, seeded
        PROVE  /\ Disjoint(Settled)
               /\ \A r \in Settled : InHeap(desc[r]) => Bytes(desc[r]) \cap FreeBytes = {}
    <3>1. HeapTypeOK
      BY <2>1 DEF HeapInv
    <3>2. CASE Compaction
      BY <3>2, <2>1, SettledFacts DEF Disjoint
    <3>3. CASE stale = Row
      <4>1. Settled = {}
        BY <3>3 DEF Settled
      <4> QED BY <4>1 DEF Disjoint
    <3>4. CASE ~Compaction /\ stale # Row
      <4>1. HeldApart /\ Settled \subseteq Held
        BY <3>4, <2>1, SettledFacts DEF HeapInv, Trusted
      <4>2. \A r \in Settled : InHeap(desc[r]) => desc[r] \in HeapExtents
        BY <3>1 DEF Settled, HeapTypeOK, HeapExtents
      <4>3. ASSUME NEW e \in HeapExtents, NEW f \in HeapExtents, Apart(e, f)
            PROVE  ~Overlap(e, f)
        BY <4>3, ExtentFacts DEF Apart, Overlap, End
      <4>4. Disjoint(Settled)
        BY <4>1, <4>2, <4>3 DEF Disjoint, HeldApart
      <4>5. ASSUME NEW r \in Settled, InHeap(desc[r]) PROVE Bytes(desc[r]) \cap FreeBytes = {}
        <5>1. desc[r] \in HeapExtents /\ Spare(mgr, desc[r])
          BY <4>1, <4>2, <4>5 DEF HeldApart
        <5>2. PICK a, n : a = desc[r].off /\ n = desc[r].len
          OBVIOUS
        <5>3. a \in Nat /\ n \in Nat /\ Bytes(desc[r]) = a .. a + n - 1
          BY <5>1, <5>2, ExtentFacts DEF Bytes, End
        <5>4. a + n <= mgr.top /\ mgr.top \in Nat
          <6>1. mgr \in Managers
            BY <3>1 DEF HeapTypeOK
          <6>2. mgr.top \in 0 .. Cap
            BY <6>1, FreeFacts
          <6> QED BY <6>2, <5>1, <5>2, HeapAssumption DEF Spare, End
        <5>5. \A b \in a .. a + n - 1 : b \notin mgr.top .. Cap - 1
          BY <5>3, <5>4, HeapAssumption
        <5>6. ASSUME NEW i \in DOMAIN mgr.free, NEW b \in a .. a + n - 1
              PROVE  b \notin Bytes(mgr.free[i])
          <6>1. mgr.free[i] \in HeapExtents
            BY <3>1, FreeFacts DEF HeapTypeOK
          <6>2. PICK c, m : c = mgr.free[i].off /\ m = mgr.free[i].len
            OBVIOUS
          <6>3. c \in Nat /\ m \in Nat /\ Bytes(mgr.free[i]) = c .. c + m - 1
            BY <6>1, <6>2, ExtentFacts DEF Bytes, End
          <6>4. c + m <= a \/ a + n <= c
            BY <5>1, <5>2, <6>2 DEF Spare, Apart, End
          <6> QED BY <6>3, <6>4, <5>3
        <5>7. ASSUME NEW b \in FreeBytes
              PROVE  \/ b \in mgr.top .. Cap - 1
                     \/ \E i \in DOMAIN mgr.free : b \in Bytes(mgr.free[i])
          BY DEF FreeBytes
        <5>8. ASSUME NEW b \in a .. a + n - 1 PROVE b \notin FreeBytes
          BY <5>5, <5>6, <5>7
        <5> QED BY <5>3, <5>8
      <4> QED BY <4>4, <4>5
    <3> QED BY <3>2, <3>3, <3>4
  <2> QED BY <2>1 DEF Accounting
<1> QED BY <1>1, HeapInvariant, PTL

\* The free list never fragments: no two of its extents share a byte or touch, and
\* none touches the top (heap.zig:953-1001).
THEOREM HeapCoalesced == Spec => []Coalesced
<1>1. HeapInv => Coalesced
  BY DEF HeapInv, Trusted, Separate, Coalesced
<1> QED BY <1>1, HeapInvariant, PTL

\* A cell reads what was last written to it, whatever writes of other cells and
\* compactions came in between, and whether they failed (heap.zig:542-576, 647-798,
\* 1026-1102).
THEOREM HeapCellsKept == Spec => []CellsKept
<1>1. HeapInv => CellsKept
  <2>1. ASSUME HeapInv, NEW r \in Settled PROVE Read(r) = should[r]
    BY <2>1, SettledFacts DEF HeapInv, Kept
  <2> QED BY <2>1 DEF CellsKept
<1> QED BY <1>1, HeapInvariant, PTL
=============================================================================
