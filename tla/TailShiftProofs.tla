--------------------------- MODULE TailShiftProofs ---------------------------
(***************************************************************************)
(* Proofs about Fits.shiftTailImpl, for every device, every chunk size and  *)
(* every pair (from, delta): what a completed call promises, and what no    *)
(* failure inside it can disturb.                                           *)
(***************************************************************************)
EXTENDS TailShift, TLAPS

-----------------------------------------------------------------------------
(* The device operations.                                                   *)

\* setSize: the result is a device of the size asked for; it keeps the cells
\* that still fit and reads as zero beyond the old end (memory.zig:78-84).
LEMMA ResizedFacts ==
    ASSUME NEW d, IsDevice(d), NEW n \in Nat
    PROVE  /\ IsDevice(Resized(d, n))
           /\ Resized(d, n).size = n
           /\ \A i \in 0 .. n - 1 :
                 Resized(d, n).at[i] = IF i < d.size THEN d.at[i] ELSE Zero
BY ZeroAssumption DEF IsDevice, Resized

\* writeAll: the result is a device, long enough for the write, in which
\* exactly the cells written differ (memory.zig:60-70).
LEMMA WrittenFacts ==
    ASSUME NEW d, IsDevice(d), NEW off \in Nat, NEW n \in Nat, NEW c,
           \A i \in 0 .. n - 1 : c[i] \in Cell
    PROVE  /\ IsDevice(Written(d, off, n, c))
           /\ Written(d, off, n, c).size =
                 IF n = 0 \/ off + n <= d.size THEN d.size ELSE off + n
           /\ \A i \in 0 .. Written(d, off, n, c).size - 1 :
                 Written(d, off, n, c).at[i] =
                    IF off <= i /\ i < off + n THEN c[i - off]
                    ELSE IF i < d.size THEN d.at[i] ELSE Zero
<1>1. CASE n = 0
  BY <1>1 DEF IsDevice, Written
<1>2. CASE n # 0
  <2> DEFINE len == Larger(d.size, off + n)
  <2> DEFINE f == [i \in 0 .. len - 1 |->
                     IF off <= i /\ i < off + n THEN c[i - off]
                     ELSE IF i < d.size THEN d.at[i] ELSE Zero]
  <2>1. Written(d, off, n, c) = [size |-> len, at |-> f]
    BY <1>2 DEF Written
  <2>2. len \in Nat /\ len = IF off + n <= d.size THEN d.size ELSE off + n
    BY DEF Larger, IsDevice
  <2>3. ASSUME NEW i \in 0 .. len - 1
        PROVE  f[i] \in Cell
    <3>1. CASE off <= i /\ i < off + n
      <4>1. i - off \in 0 .. n - 1
        BY <3>1, <2>2
      <4> QED BY <3>1, <4>1
    <3>2. CASE ~(off <= i /\ i < off + n)
      BY <3>2, <2>2, ZeroAssumption DEF IsDevice
    <3> QED BY <3>1, <3>2
  <2>4. f \in [0 .. len - 1 -> Cell]
    BY <2>3
  <2> HIDE DEF f, len
  <2>5. IsDevice(Written(d, off, n, c))
    BY <2>1, <2>2, <2>4 DEF IsDevice
  <2>6. \A i \in 0 .. len - 1 : f[i] = IF off <= i /\ i < off + n THEN c[i - off]
                     ELSE IF i < d.size THEN d.at[i] ELSE Zero
    BY DEF f
  <2> QED BY <1>2, <2>1, <2>2, <2>5, <2>6
<1> QED BY <1>1, <1>2

\* A read inside the device delivers cells.
LEMMA SliceFacts ==
    ASSUME NEW d, IsDevice(d), NEW off \in Nat, NEW n \in Nat, off + n <= d.size
    PROVE  \A i \in 0 .. n - 1 : /\ Slice(d, off, n)[i] \in Cell
                                 /\ Slice(d, off, n)[i] = d.at[off + i]
BY DEF IsDevice, Slice

\* w is d after the first k cells of a chunk read at src were stored at dst.
ChunkStored(w, d, src, dst, k) ==
    /\ IsDevice(w) /\ w.size = d.size
    /\ \A i \in 0 .. d.size - 1 :
          w.at[i] = IF dst <= i /\ i < dst + k
                    THEN d.at[src + (i - dst)] ELSE d.at[i]

\* One chunk of either copy loop, k of its n cells stored: only the cells
\* [dst, dst + k) change, each to the source cell it stands for.
LEMMA ChunkFacts ==
    ASSUME NEW d, IsDevice(d), NEW src \in Nat, NEW dst \in Nat,
           NEW n \in Nat, NEW k \in 0 .. n,
           src + n <= d.size, dst + n <= d.size
    PROVE  ChunkStored(Written(d, dst, k, Slice(d, src, n)), d, src, dst, k)
<1> DEFINE c == Slice(d, src, n)
<1>1. \A i \in 0 .. n - 1 : c[i] \in Cell /\ c[i] = d.at[src + i]
  BY SliceFacts
<1>2. \A i \in 0 .. k - 1 : c[i] \in Cell /\ c[i] = d.at[src + i]
  BY <1>1
<1> HIDE DEF c
<1> DEFINE w == Written(d, dst, k, c)
<1>3. /\ IsDevice(w)
      /\ w.size = IF k = 0 \/ dst + k <= d.size THEN d.size ELSE dst + k
      /\ \A i \in 0 .. w.size - 1 :
            w.at[i] = IF dst <= i /\ i < dst + k THEN c[i - dst]
                      ELSE IF i < d.size THEN d.at[i] ELSE Zero
  <2>1. k \in Nat
    OBVIOUS
  <2> HIDE DEF w
  <2> QED BY <1>2, <2>1, WrittenFacts DEF w
<1> HIDE DEF w
<1>4. w.size = d.size /\ d.size \in Nat
  BY <1>3 DEF IsDevice
<1>5. \A i \in 0 .. d.size - 1 : dst <= i /\ i < dst + k => i - dst \in 0 .. k - 1
  BY <1>4
<1>6. \A i \in 0 .. d.size - 1 :
         w.at[i] = IF dst <= i /\ i < dst + k
                   THEN d.at[src + (i - dst)] ELSE d.at[i]
  BY <1>2, <1>3, <1>4, <1>5
<1> QED BY <1>3, <1>4, <1>6 DEF w, c, ChunkStored

\* A fill, k of its cells stored.
LEMMA FillFacts ==
    ASSUME NEW d, IsDevice(d), NEW off \in Nat, NEW k \in Nat
    PROVE  LET w == Filled(d, off, k, Zero)
           IN  /\ IsDevice(w)
               /\ off + k <= d.size => w.size = d.size
               /\ \A i \in 0 .. w.size - 1 :
                     w.at[i] = IF off <= i /\ i < off + k THEN Zero
                               ELSE IF i < d.size THEN d.at[i] ELSE Zero
<1> DEFINE c == [i \in 0 .. k - 1 |-> Zero]
<1>1. \A i \in 0 .. k - 1 : c[i] \in Cell /\ c[i] = Zero
  BY ZeroAssumption
<1> HIDE DEF c
<1> DEFINE w == Written(d, off, k, c)
<1>2. /\ IsDevice(w)
      /\ w.size = IF k = 0 \/ off + k <= d.size THEN d.size ELSE off + k
      /\ \A i \in 0 .. w.size - 1 :
            w.at[i] = IF off <= i /\ i < off + k THEN c[i - off]
                      ELSE IF i < d.size THEN d.at[i] ELSE Zero
  <2> HIDE DEF w
  <2> QED BY <1>1, WrittenFacts DEF w
<1> HIDE DEF w
<1>3. \A i \in 0 .. w.size - 1 : off <= i /\ i < off + k => i - off \in 0 .. k - 1
  BY <1>2 DEF IsDevice
<1> QED BY <1>1, <1>2, <1>3 DEF w, c, Filled, IsDevice

-----------------------------------------------------------------------------
(* The loops keep the invariant, action by action.                          *)

\* In a call whose loop still has cells to move, the tail is inside the file.
LEMMA TailInside ==
    ASSUME TypeOK, LoopInv, sh.pc # "idle", sh.tail > 0
    PROVE  /\ InFile /\ sh.tail = sh.was.size - sh.from
           /\ sh.from \in Nat /\ sh.was.size \in Nat /\ sh.delta \in Int
           /\ sh.tail \in Nat /\ sh.n \in Nat
BY DEF TypeOK, IsCall, NoShift, LoopInv, CounterInv, InFile, TailLen, IsDevice

\* One chunk of the grow loop.
LEMMA MoveBackStep ==
    ASSUME TypeOK, LoopInv, MoveBack
    PROVE  TypeOK' /\ LoopInv'
<1> DEFINE n == Smaller(Chunk, sh.n)
           src == sh.from + sh.n - n
<1>1. /\ IsCall(sh) /\ sh.pc = "back" /\ sh.n > 0 /\ IsDevice(dev)
      /\ faults \in Nat /\ faults' = faults
  BY DEF MoveBack, TypeOK, NoShift
<1>2. /\ sh.delta \in Nat /\ sh.delta > 0 /\ sh.n <= sh.tail
      /\ dev.size = sh.was.size + sh.delta
  BY <1>1 DEF LoopInv, CounterInv, IsCall
<1>3. /\ InFile /\ sh.tail = sh.was.size - sh.from
      /\ sh.from \in Nat /\ sh.was.size \in Nat /\ sh.tail \in Nat /\ sh.n \in Nat
  BY <1>1, <1>2, TailInside DEF IsCall
<1>4. n \in Nat /\ n > 0 /\ n <= sh.n /\ src \in Nat
  BY <1>1, <1>3, ChunkAssumption DEF Smaller
<1>5. dev' = Written(dev, src + sh.delta, n, Slice(dev, src, n))
  BY DEF MoveBack, BackCopy, Copied
<1>6. sh' = [sh EXCEPT !.n = sh.n - n]
  BY DEF MoveBack
<1> HIDE DEF n, src
<1>7. /\ IsDevice(dev') /\ dev'.size = dev.size
      /\ \A i \in 0 .. dev.size - 1 :
            dev'.at[i] = IF src + sh.delta <= i /\ i < src + sh.delta + n
                         THEN dev.at[src + (i - (src + sh.delta))] ELSE dev.at[i]
  <2>1. src + n <= dev.size /\ src + sh.delta + n <= dev.size
    BY <1>1, <1>2, <1>3, <1>4 DEF src
  <2>2. src + sh.delta \in Nat /\ n \in 0 .. n
    BY <1>2, <1>4
  <2>3. ChunkStored(dev', dev, src, src + sh.delta, n)
    BY <1>1, <1>4, <1>5, <2>1, <2>2, ChunkFacts
  <2> QED BY <2>3 DEF ChunkStored
<1>8. /\ sh'.pc = "back" /\ sh'.n = sh.n - n /\ sh'.n \in Nat
      /\ sh'.from = sh.from /\ sh'.delta = sh.delta /\ sh'.zero = sh.zero
      /\ sh'.tail = sh.tail /\ sh'.was = sh.was /\ IsCall(sh')
  BY <1>1, <1>3, <1>4, <1>6 DEF IsCall
<1>9. TypeOK'
  BY <1>1, <1>7, <1>8 DEF TypeOK
<1>10. CounterInv'
  BY <1>1, <1>2, <1>3, <1>4, <1>7, <1>8 DEF LoopInv, CounterInv
<1>11. GrowInv'
  <2>1. Same(0, sh.from + sh.n) /\ Landed(sh.n, sh.tail)
    BY <1>1, <1>2, <1>3 DEF LoopInv, GrowInv
  <2>2. \A i \in 0 .. sh.from + sh.n - n - 1 : dev'.at[i] = sh.was.at[i]
    BY <2>1, <1>2, <1>3, <1>4, <1>7 DEF Same, src
  <2>3. \A j \in sh.n .. sh.tail - 1 :
           dev'.at[sh.from + sh.delta + j] = sh.was.at[sh.from + j]
    BY <2>1, <1>2, <1>3, <1>4, <1>7 DEF Landed, src
  <2>4. \A j \in sh.n - n .. sh.n - 1 :
           dev'.at[sh.from + sh.delta + j] = sh.was.at[sh.from + j]
    <3>1. ASSUME NEW j \in sh.n - n .. sh.n - 1
          PROVE  dev'.at[sh.from + sh.delta + j] = sh.was.at[sh.from + j]
      <4> DEFINE i == sh.from + sh.delta + j
      <4>1. /\ i \in 0 .. dev.size - 1
            /\ src + sh.delta <= i /\ i < src + sh.delta + n
            /\ src + (i - (src + sh.delta)) = sh.from + j
            /\ sh.from + j \in 0 .. sh.from + sh.n - 1
        BY <1>2, <1>3, <1>4 DEF src
      <4>2. dev'.at[i] = dev.at[src + (i - (src + sh.delta))]
        BY <1>7, <4>1
      <4>3. dev.at[sh.from + j] = sh.was.at[sh.from + j]
        BY <2>1, <4>1, <1>3 DEF Same
      <4> QED BY <4>1, <4>2, <4>3
    <3> QED BY <3>1
  <2>5. ~sh.zero /\ sh.tail <= sh.delta =>
           \A i \in 0 .. sh.was.size - 1 : dev'.at[i] = sh.was.at[i]
    <3>1. ~sh.zero /\ sh.tail <= sh.delta => Same(0, sh.was.size)
      BY <1>2, <1>3 DEF LoopInv, GrowInv
    <3> QED BY <3>1, <1>2, <1>3, <1>4, <1>7 DEF Same, src
  <2>6. \A i \in 0 .. sh.from - 1 : dev'.at[i] = sh.was.at[i]
    BY <2>2, <1>3, <1>4
  <2>7. \A j \in sh.n - n .. sh.tail - 1 :
           dev'.at[sh.from + sh.delta + j] = sh.was.at[sh.from + j]
    BY <2>3, <2>4, <1>3, <1>4
  <2> QED BY <1>2, <1>3, <1>4, <1>7, <1>8, <2>2, <2>5, <2>6, <2>7
          DEF GrowInv, Same, Landed
<1>12. ShrinkInv'
  BY <1>2, <1>8 DEF ShrinkInv
<1> QED BY <1>9, <1>10, <1>11, <1>12 DEF LoopInv

\* The end of the grow loop: every tail cell has landed.
LEMMA BackDoneStep ==
    ASSUME TypeOK, LoopInv, BackDone
    PROVE  TypeOK' /\ LoopInv'
<1>1. /\ IsCall(sh) /\ sh.pc = "back" /\ sh.n = 0 /\ dev' = dev /\ faults' = faults
      /\ IsDevice(dev) /\ faults \in Nat
  BY DEF BackDone, TypeOK, NoShift
<1>2. sh.delta \in Nat /\ sh.delta > 0 /\ sh.tail \in Nat /\ sh.from \in Nat
      /\ sh.was.size \in Nat
  BY <1>1 DEF LoopInv, CounterInv, IsCall, IsDevice
<1>3. /\ IsCall(sh')
      /\ sh'.pc = (IF sh.zero THEN "gap" ELSE "done")
      /\ sh'.n = (IF sh.zero THEN sh.delta ELSE 0)
      /\ sh'.from = sh.from /\ sh'.delta = sh.delta /\ sh'.zero = sh.zero
      /\ sh'.tail = sh.tail /\ sh'.was = sh.was
  BY <1>1, <1>2 DEF BackDone, IsCall, Running
<1>4. TypeOK'
  BY <1>1, <1>3 DEF TypeOK
<1>5. CounterInv'
  BY <1>1, <1>2, <1>3 DEF LoopInv, CounterInv
<1>6. GrowInv'
  BY <1>1, <1>2, <1>3 DEF LoopInv, GrowInv, InFile, Same, Landed
<1>7. ShrinkInv'
  BY <1>2, <1>3 DEF ShrinkInv
<1> QED BY <1>4, <1>5, <1>6, <1>7 DEF LoopInv

\* One chunk of the zero fill of the gap.
LEMMA FillGapStep ==
    ASSUME TypeOK, LoopInv, FillGap
    PROVE  TypeOK' /\ LoopInv'
<1> DEFINE n == Smaller(Chunk, sh.n)
           off == sh.from + sh.delta - sh.n
<1>1. /\ IsCall(sh) /\ sh.pc = "gap" /\ sh.n > 0 /\ IsDevice(dev)
      /\ faults \in Nat /\ faults' = faults
  BY DEF FillGap, TypeOK, NoShift
<1>2. /\ sh.delta \in Nat /\ sh.delta > 0 /\ sh.n <= sh.delta /\ sh.zero
      /\ sh.from \in Nat /\ sh.tail \in Nat /\ sh.n \in Nat /\ sh.was.size \in Nat
      /\ IsDevice(sh.was)
  BY <1>1 DEF LoopInv, CounterInv, IsCall, IsDevice
<1>3. n \in Nat /\ n > 0 /\ n <= sh.n /\ off \in Nat
  BY <1>1, <1>2, ChunkAssumption DEF Smaller
<1>4. dev' = Filled(dev, off, n, Zero)
  BY DEF FillGap
<1>11. sh' = [sh EXCEPT !.n = sh.n - n]
  BY DEF FillGap
<1> HIDE DEF n, off
<1>5. /\ IsDevice(dev')
      /\ off + n <= dev.size => dev'.size = dev.size
      /\ \A i \in 0 .. dev'.size - 1 :
            dev'.at[i] = IF off <= i /\ i < off + n THEN Zero
                         ELSE IF i < dev.size THEN dev.at[i] ELSE Zero
  BY <1>1, <1>3, <1>4, FillFacts
<1>6. /\ sh'.pc = "gap" /\ sh'.n = sh.n - n /\ sh'.n \in Nat
      /\ sh'.from = sh.from /\ sh'.delta = sh.delta /\ sh'.zero = sh.zero
      /\ sh'.tail = sh.tail /\ sh'.was = sh.was /\ IsCall(sh')
  <2>1. sh.n \in Nat /\ sh.n - n \in Nat
    BY <1>2, <1>3
  <2> QED BY <1>1, <2>1, <1>11 DEF IsCall
<1>7. TypeOK'
  BY <1>1, <1>5, <1>6 DEF TypeOK
<1>8. CounterInv'
  BY <1>1, <1>2, <1>3, <1>6 DEF LoopInv, CounterInv
<1>9. GrowInv'
  <2> SUFFICES ASSUME InFile
               PROVE  GrowInv'
    BY <1>1, <1>6 DEF GrowInv, InFile
  <2>1. /\ sh.tail = sh.was.size - sh.from
        /\ dev.size = sh.was.size + sh.delta
        /\ sh.from <= sh.was.size
    BY <1>1, <1>2 DEF InFile, LoopInv, CounterInv, GrowInv, TailLen
  <2>2. off + n <= dev.size /\ dev'.size = dev.size
    BY <2>1, <1>2, <1>3, <1>5 DEF off
  <2>3. /\ Same(0, sh.from) /\ Landed(0, sh.tail)
        /\ \A i \in sh.from .. sh.from + sh.delta - sh.n - 1 : dev.at[i] = Zero
    BY <1>1, <1>2 DEF LoopInv, GrowInv
  <2>4. \A i \in 0 .. sh.from - 1 : dev'.at[i] = sh.was.at[i]
    BY <2>1, <2>2, <2>3, <1>2, <1>3, <1>5 DEF Same, off
  <2>5. \A j \in 0 .. sh.tail - 1 :
           dev'.at[sh.from + sh.delta + j] = sh.was.at[sh.from + j]
    BY <2>1, <2>2, <2>3, <1>2, <1>3, <1>5 DEF Landed, off
  <2>6. \A i \in sh.from .. sh.from + sh.delta - (sh.n - n) - 1 : dev'.at[i] = Zero
    BY <2>1, <2>2, <2>3, <1>2, <1>3, <1>5 DEF off
  <2> QED BY <1>2, <1>6, <2>1, <2>2, <2>4, <2>5, <2>6 DEF GrowInv, Same, Landed
<1>10. ShrinkInv'
  BY <1>2, <1>6 DEF ShrinkInv
<1> QED BY <1>7, <1>8, <1>9, <1>10 DEF LoopInv

\* The end of the zero fill.
LEMMA GapDoneStep ==
    ASSUME TypeOK, LoopInv, GapDone
    PROVE  TypeOK' /\ LoopInv'
<1>1. /\ IsCall(sh) /\ sh.pc = "gap" /\ sh.n = 0 /\ dev' = dev /\ faults' = faults
      /\ IsDevice(dev) /\ faults \in Nat
  BY DEF GapDone, TypeOK, NoShift
<1>2. /\ sh.delta \in Nat /\ sh.delta > 0 /\ sh.zero
      /\ sh.from \in Nat /\ sh.was.size \in Nat /\ sh.tail \in Nat
  BY <1>1 DEF LoopInv, CounterInv, IsCall, IsDevice
<1>3. /\ IsCall(sh') /\ sh'.pc = "done" /\ sh'.n = sh.n
      /\ sh'.from = sh.from /\ sh'.delta = sh.delta /\ sh'.zero = sh.zero
      /\ sh'.tail = sh.tail /\ sh'.was = sh.was
  BY <1>1 DEF GapDone, IsCall
<1>4. TypeOK' /\ CounterInv' /\ ShrinkInv'
  BY <1>1, <1>2, <1>3 DEF TypeOK, LoopInv, CounterInv, ShrinkInv
<1>5. GrowInv'
  BY <1>1, <1>2, <1>3 DEF LoopInv, GrowInv, InFile, Same, Landed
<1> QED BY <1>4, <1>5 DEF LoopInv

\* One chunk of the shrink loop.
LEMMA MoveFrontStep ==
    ASSUME TypeOK, LoopInv, MoveFront
    PROVE  TypeOK' /\ LoopInv'
<1> DEFINE n == Smaller(Chunk, sh.tail - sh.n)
           src == sh.from + sh.n
<1>1. /\ IsCall(sh) /\ sh.pc = "front" /\ sh.n < sh.tail /\ IsDevice(dev)
      /\ faults \in Nat /\ faults' = faults
  BY DEF MoveFront, TypeOK, NoShift
<1>2. /\ sh.delta \in Int /\ sh.delta < 0 /\ -sh.delta <= sh.from
      /\ dev.size = sh.was.size /\ sh.n \in Nat /\ sh.tail > 0
      /\ -sh.delta <= sh.was.size
  BY <1>1 DEF LoopInv, CounterInv, IsCall
<1>3. /\ InFile /\ sh.tail = sh.was.size - sh.from
      /\ sh.from \in Nat /\ sh.was.size \in Nat /\ sh.tail \in Nat
  BY <1>1, <1>2, TailInside DEF IsCall
<1>4. n \in Nat /\ n > 0 /\ sh.n + n <= sh.tail /\ src \in Nat
  BY <1>1, <1>2, <1>3, ChunkAssumption DEF Smaller
<1>5. /\ dev' = Written(dev, src + sh.delta, n, Slice(dev, src, n))
      /\ sh' = [sh EXCEPT !.n = sh.n + n]
  BY DEF MoveFront, FrontCopy, Copied
<1> HIDE DEF n
<1>6. /\ IsDevice(dev') /\ dev'.size = dev.size
      /\ \A i \in 0 .. dev.size - 1 :
            dev'.at[i] = IF src + sh.delta <= i /\ i < src + sh.delta + n
                         THEN dev.at[src + (i - (src + sh.delta))] ELSE dev.at[i]
  <2>1. src + n <= dev.size /\ src + sh.delta + n <= dev.size
    BY <1>1, <1>2, <1>3, <1>4
  <2>2. src + sh.delta \in Nat /\ n \in 0 .. n
    BY <1>2, <1>3, <1>4
  <2>3. ChunkStored(dev', dev, src, src + sh.delta, n)
    BY <1>1, <1>4, <1>5, <2>1, <2>2, ChunkFacts
  <2> QED BY <2>3 DEF ChunkStored
<1>7. /\ sh'.pc = "front" /\ sh'.n = sh.n + n /\ sh'.n \in Nat
      /\ sh'.from = sh.from /\ sh'.delta = sh.delta /\ sh'.zero = sh.zero
      /\ sh'.tail = sh.tail /\ sh'.was = sh.was /\ IsCall(sh')
  BY <1>1, <1>2, <1>4, <1>5 DEF IsCall
<1>8. TypeOK'
  BY <1>1, <1>6, <1>7 DEF TypeOK
<1>9. CounterInv'
  BY <1>1, <1>2, <1>3, <1>4, <1>6, <1>7 DEF LoopInv, CounterInv
<1>10. ShrinkInv'
  <2>1. /\ Same(0, sh.from + sh.delta) /\ Landed(0, sh.n)
        /\ Same(sh.from + sh.n, sh.was.size)
    BY <1>1, <1>2, <1>3 DEF LoopInv, ShrinkInv
  <2>2. \A i \in 0 .. sh.from + sh.delta - 1 : dev'.at[i] = sh.was.at[i]
    BY <2>1, <1>2, <1>3, <1>4, <1>6 DEF Same
  <2>3. \A j \in 0 .. sh.n - 1 :
           dev'.at[sh.from + sh.delta + j] = sh.was.at[sh.from + j]
    <3>1. ASSUME NEW j \in 0 .. sh.n - 1
          PROVE  dev'.at[sh.from + sh.delta + j] = sh.was.at[sh.from + j]
      <4> DEFINE i == sh.from + sh.delta + j
      <4>1. i \in 0 .. dev.size - 1 /\ i < src + sh.delta
        BY <1>2, <1>3, <1>4
      <4>2. dev'.at[i] = dev.at[i]
        BY <1>2, <1>3, <1>6, <4>1
      <4> QED BY <2>1, <4>2 DEF Landed
    <3> QED BY <3>1
  <2>4. ASSUME NEW j \in sh.n .. sh.n + n - 1
        PROVE  dev'.at[sh.from + sh.delta + j] = sh.was.at[sh.from + j]
    <3> DEFINE i == sh.from + sh.delta + j
    <3>1. /\ i \in 0 .. dev.size - 1
          /\ src + sh.delta <= i /\ i < src + sh.delta + n
          /\ src + (i - (src + sh.delta)) = sh.from + j
          /\ sh.from + j \in sh.from + sh.n .. sh.was.size - 1
      BY <1>2, <1>3, <1>4
    <3>2. dev'.at[i] = dev.at[src + (i - (src + sh.delta))]
      BY <1>6, <3>1
    <3>3. dev.at[sh.from + j] = sh.was.at[sh.from + j]
      BY <2>1, <3>1, <1>3 DEF Same
    <3> QED BY <3>1, <3>2, <3>3
  <2>5. \A j \in 0 .. sh.n + n - 1 :
           dev'.at[sh.from + sh.delta + j] = sh.was.at[sh.from + j]
    BY <2>3, <2>4, <1>2, <1>4
  <2>6. \A i \in sh.from + (sh.n + n) .. sh.was.size - 1 : dev'.at[i] = sh.was.at[i]
    BY <2>1, <1>2, <1>3, <1>4, <1>6 DEF Same
  <2>7. -sh'.delta <= sh'.from /\ dev'.size = sh'.was.size
    BY <1>2, <1>6, <1>7
  <2>8. Same(0, sh.from + sh.delta)'
    BY <1>2, <1>3, <1>7, <2>2 DEF Same
  <2>9. Landed(0, sh.n)'
    <3>1. ASSUME NEW j \in 0 .. sh'.n - 1
          PROVE  dev'.at[sh'.from + sh'.delta + j] = sh'.was.at[sh'.from + j]
      <4>1. j \in 0 .. sh.n + n - 1
        BY <1>2, <1>4, <1>7
      <4> QED BY <1>7, <2>5, <4>1
    <3> QED BY <3>1 DEF Landed
  <2>10. Same(sh.from + sh.n, sh.was.size)'
    BY <1>7, <2>6 DEF Same
  <2> QED BY <1>3, <1>6, <1>7, <2>7, <2>8, <2>9, <2>10 DEF ShrinkInv
<1>11. GrowInv'
  BY <1>2, <1>7 DEF GrowInv
<1> QED BY <1>8, <1>9, <1>10, <1>11 DEF LoopInv

\* The setSize that ends a shrink drops nothing but the vacated cells.
LEMMA CutStep ==
    ASSUME TypeOK, LoopInv, Cut
    PROVE  TypeOK' /\ LoopInv'
<1>1. /\ IsCall(sh) /\ sh.pc = "front" /\ sh.n = sh.tail /\ IsDevice(dev)
      /\ faults \in Nat /\ faults' = faults
  BY DEF Cut, TypeOK, NoShift
<1>2. /\ sh.delta \in Int /\ sh.delta < 0 /\ -sh.delta <= sh.from
      /\ dev.size = sh.was.size /\ -sh.delta <= sh.was.size
      /\ sh.from \in Nat /\ sh.tail \in Nat /\ sh.was.size \in Nat
  BY <1>1 DEF LoopInv, CounterInv, IsCall, IsDevice
<1> DEFINE m == sh.was.size + sh.delta
<1>3. m \in Nat /\ m < dev.size
  BY <1>2
<1>4. dev' = Resized(dev, m)
  BY DEF Cut
<1>5. /\ IsDevice(dev') /\ dev'.size = m
      /\ \A i \in 0 .. m - 1 : dev'.at[i] = dev.at[i]
  <2> HIDE DEF m
  <2>1. /\ IsDevice(Resized(dev, m)) /\ Resized(dev, m).size = m
        /\ \A i \in 0 .. m - 1 :
              Resized(dev, m).at[i] = IF i < dev.size THEN dev.at[i] ELSE Zero
    BY <1>1, <1>3, ResizedFacts
  <2>2. dev.size \in Nat
    BY <1>1 DEF IsDevice
  <2> QED BY <1>3, <1>4, <2>1, <2>2
<1>6. /\ sh'.pc = "done" /\ sh'.n = sh.n
      /\ sh'.from = sh.from /\ sh'.delta = sh.delta /\ sh'.zero = sh.zero
      /\ sh'.tail = sh.tail /\ sh'.was = sh.was /\ IsCall(sh')
  BY <1>1 DEF Cut, IsCall
<1>7. TypeOK' /\ CounterInv' /\ GrowInv'
  BY <1>1, <1>2, <1>5, <1>6 DEF TypeOK, LoopInv, CounterInv, GrowInv
<1>8. ShrinkInv'
  <2> SUFFICES ASSUME InFile
               PROVE  ShrinkInv'
    BY <1>1, <1>6 DEF ShrinkInv, InFile
  <2>1. sh.tail = sh.was.size - sh.from /\ sh.from <= sh.was.size
    BY <1>1, <1>2 DEF LoopInv, CounterInv, InFile, TailLen
  <2>2. Same(0, sh.from + sh.delta) /\ Landed(0, sh.tail)
    BY <1>1, <1>2 DEF LoopInv, ShrinkInv
  <2>3. \A i \in 0 .. sh.from + sh.delta - 1 : dev'.at[i] = sh.was.at[i]
    BY <2>1, <2>2, <1>2, <1>5 DEF Same
  <2>4. \A j \in 0 .. sh.tail - 1 :
           dev'.at[sh.from + sh.delta + j] = sh.was.at[sh.from + j]
    BY <2>1, <2>2, <1>2, <1>5 DEF Landed
  <2> QED BY <1>2, <1>5, <1>6, <2>3, <2>4 DEF ShrinkInv, Same, Landed
<1> QED BY <1>7, <1>8 DEF LoopInv

-----------------------------------------------------------------------------
(* Failures: the loop stops with part of one write stored.                  *)

\* A call that fails becomes a "failed" call with the same arguments.
LEMMA FailedCall ==
    ASSUME IsCall(sh), NEW d, FailWith(d), faults \in Nat
    PROVE  /\ faults' \in Nat /\ dev' = d
           /\ sh'.pc = "failed" /\ sh'.n = sh.n
           /\ sh'.from = sh.from /\ sh'.delta = sh.delta /\ sh'.zero = sh.zero
           /\ sh'.tail = sh.tail /\ sh'.was = sh.was /\ IsCall(sh')
BY DEF FailWith, IsCall

\* A failing write of the grow loop.
LEMMA MoveBackFailsStep ==
    ASSUME TypeOK, LoopInv, MoveBackFails
    PROVE  TypeOK' /\ LoopInv'
<1> DEFINE n == Smaller(Chunk, sh.n)
           src == sh.from + sh.n - n
<1>1. /\ IsCall(sh) /\ sh.pc = "back" /\ sh.n > 0 /\ IsDevice(dev)
      /\ faults \in Nat
  BY DEF MoveBackFails, TypeOK, NoShift
<1>2. /\ sh.delta \in Nat /\ sh.delta > 0 /\ sh.n <= sh.tail
      /\ dev.size = sh.was.size + sh.delta
  BY <1>1 DEF LoopInv, CounterInv, IsCall
<1>3. /\ InFile /\ sh.tail = sh.was.size - sh.from
      /\ sh.from \in Nat /\ sh.was.size \in Nat /\ sh.tail \in Nat /\ sh.n \in Nat
  BY <1>1, <1>2, TailInside DEF IsCall
<1>4. n \in Nat /\ n > 0 /\ n <= sh.n /\ src \in Nat
  BY <1>1, <1>3, ChunkAssumption DEF Smaller
<1>5. PICK k \in 0 .. n - 1 :
         FailWith(Written(dev, src + sh.delta, k, Slice(dev, src, n)))
  BY DEF MoveBackFails
<1> HIDE DEF n, src
<1>6. /\ faults' \in Nat
      /\ dev' = Written(dev, src + sh.delta, k, Slice(dev, src, n))
      /\ sh'.pc = "failed" /\ sh'.n = sh.n
      /\ sh'.from = sh.from /\ sh'.delta = sh.delta /\ sh'.zero = sh.zero
      /\ sh'.tail = sh.tail /\ sh'.was = sh.was /\ IsCall(sh')
  BY <1>1, <1>5, FailedCall
<1>7. /\ IsDevice(dev') /\ dev'.size = dev.size
      /\ \A i \in 0 .. dev.size - 1 :
            dev'.at[i] = IF src + sh.delta <= i /\ i < src + sh.delta + k
                         THEN dev.at[src + (i - (src + sh.delta))] ELSE dev.at[i]
  <2>1. src + n <= dev.size /\ src + sh.delta + n <= dev.size
    BY <1>1, <1>2, <1>3, <1>4 DEF src
  <2>2. src + sh.delta \in Nat /\ k \in 0 .. n
    BY <1>2, <1>4
  <2> DEFINE dst == src + sh.delta
  <2>3. /\ dst \in Nat /\ dst + n <= dev.size /\ k \in 0 .. n
        /\ IsDevice(dev) /\ src \in Nat /\ n \in Nat /\ src + n <= dev.size
    BY <1>1, <1>4, <2>1, <2>2
  <2> HIDE DEF dst, src
  <2> DEFINE w == Written(dev, dst, k, Slice(dev, src, n))
  <2>4. ChunkStored(w, dev, src, dst, k)
    BY <2>3, ChunkFacts
  <2>5. dev' = w
    BY <1>6 DEF dst
  <2> HIDE DEF w
  <2> QED BY <2>4, <2>5 DEF dst, ChunkStored
<1>8. TypeOK' /\ CounterInv' /\ ShrinkInv'
  BY <1>1, <1>2, <1>3, <1>6, <1>7 DEF TypeOK, LoopInv, CounterInv, ShrinkInv
<1>9. GrowInv'
  <2>1. Same(0, sh.from + sh.n)
    BY <1>1, <1>2, <1>3 DEF LoopInv, GrowInv
  <2>2. \A i \in 0 .. sh.from - 1 : dev'.at[i] = sh.was.at[i]
    BY <2>1, <1>2, <1>3, <1>4, <1>7 DEF Same, src
  <2>3. ~sh.zero /\ sh.tail <= sh.delta =>
           \A i \in 0 .. sh.was.size - 1 : dev'.at[i] = sh.was.at[i]
    <3>1. ~sh.zero /\ sh.tail <= sh.delta => Same(0, sh.was.size)
      BY <1>2, <1>3 DEF LoopInv, GrowInv
    <3> QED BY <3>1, <1>2, <1>3, <1>4, <1>7 DEF Same, src
  <2> QED BY <1>2, <1>3, <1>6, <1>7, <2>2, <2>3 DEF GrowInv, Same
<1> QED BY <1>8, <1>9 DEF LoopInv

\* A failing write of the zero fill.
LEMMA FillGapFailsStep ==
    ASSUME TypeOK, LoopInv, FillGapFails
    PROVE  TypeOK' /\ LoopInv'
<1> DEFINE off == sh.from + sh.delta - sh.n
<1>1. /\ IsCall(sh) /\ sh.pc = "gap" /\ sh.n > 0 /\ IsDevice(dev)
      /\ faults \in Nat
  BY DEF FillGapFails, TypeOK, NoShift
<1>2. /\ sh.delta \in Nat /\ sh.delta > 0 /\ sh.n <= sh.delta /\ sh.zero
      /\ sh.from \in Nat /\ sh.tail \in Nat /\ sh.n \in Nat /\ sh.was.size \in Nat
  BY <1>1 DEF LoopInv, CounterInv, IsCall, IsDevice
<1>3. PICK k \in 0 .. Smaller(Chunk, sh.n) - 1 : FailWith(Filled(dev, off, k, Zero))
  BY DEF FillGapFails
<1>4. k \in Nat /\ k <= sh.n /\ off \in Nat
  BY <1>2, ChunkAssumption DEF Smaller
<1> HIDE DEF off
<1>5. /\ faults' \in Nat /\ dev' = Filled(dev, off, k, Zero)
      /\ sh'.pc = "failed" /\ sh'.n = sh.n
      /\ sh'.from = sh.from /\ sh'.delta = sh.delta /\ sh'.zero = sh.zero
      /\ sh'.tail = sh.tail /\ sh'.was = sh.was /\ IsCall(sh')
  BY <1>1, <1>3, FailedCall
<1>6. /\ IsDevice(dev')
      /\ off + k <= dev.size => dev'.size = dev.size
      /\ \A i \in 0 .. dev'.size - 1 :
            dev'.at[i] = IF off <= i /\ i < off + k THEN Zero
                         ELSE IF i < dev.size THEN dev.at[i] ELSE Zero
  BY <1>1, <1>4, <1>5, FillFacts
<1>7. TypeOK' /\ CounterInv' /\ ShrinkInv'
  BY <1>1, <1>2, <1>5, <1>6 DEF TypeOK, LoopInv, CounterInv, ShrinkInv
<1>8. GrowInv'
  <2> SUFFICES ASSUME InFile
               PROVE  GrowInv'
    BY <1>1, <1>5 DEF GrowInv, InFile
  <2>1. dev.size = sh.was.size + sh.delta /\ sh.from <= sh.was.size
    BY <1>1, <1>2 DEF InFile, LoopInv, GrowInv
  <2>2. off + k <= dev.size /\ dev'.size = dev.size
    BY <2>1, <1>2, <1>4, <1>6 DEF off
  <2>3. Same(0, sh.from)
    BY <1>1, <1>2 DEF LoopInv, GrowInv
  <2>4. \A i \in 0 .. sh.from - 1 : dev'.at[i] = sh.was.at[i]
    BY <2>1, <2>2, <2>3, <1>2, <1>4, <1>6 DEF Same, off
  <2> QED BY <1>2, <1>5, <2>1, <2>2, <2>4 DEF GrowInv, Same
<1> QED BY <1>7, <1>8 DEF LoopInv

\* A failing write of the shrink loop.
LEMMA MoveFrontFailsStep ==
    ASSUME TypeOK, LoopInv, MoveFrontFails
    PROVE  TypeOK' /\ LoopInv'
<1> DEFINE n == Smaller(Chunk, sh.tail - sh.n)
           src == sh.from + sh.n
<1>1. /\ IsCall(sh) /\ sh.pc = "front" /\ sh.n < sh.tail /\ IsDevice(dev)
      /\ faults \in Nat
  BY DEF MoveFrontFails, TypeOK, NoShift
<1>2. /\ sh.delta \in Int /\ sh.delta < 0 /\ -sh.delta <= sh.from
      /\ dev.size = sh.was.size /\ sh.n \in Nat /\ sh.tail > 0
      /\ -sh.delta <= sh.was.size
  BY <1>1 DEF LoopInv, CounterInv, IsCall
<1>3. /\ InFile /\ sh.tail = sh.was.size - sh.from
      /\ sh.from \in Nat /\ sh.was.size \in Nat /\ sh.tail \in Nat
  BY <1>1, <1>2, TailInside DEF IsCall
<1>4. n \in Nat /\ n > 0 /\ sh.n + n <= sh.tail /\ src \in Nat
  BY <1>1, <1>2, <1>3, ChunkAssumption DEF Smaller
<1>5. PICK k \in 0 .. n - 1 :
         FailWith(Written(dev, src + sh.delta, k, Slice(dev, src, n)))
  BY DEF MoveFrontFails
<1> HIDE DEF n
<1>6. /\ faults' \in Nat
      /\ dev' = Written(dev, src + sh.delta, k, Slice(dev, src, n))
      /\ sh'.pc = "failed" /\ sh'.n = sh.n
      /\ sh'.from = sh.from /\ sh'.delta = sh.delta /\ sh'.zero = sh.zero
      /\ sh'.tail = sh.tail /\ sh'.was = sh.was /\ IsCall(sh')
  BY <1>1, <1>5, FailedCall
<1>7. /\ IsDevice(dev') /\ dev'.size = dev.size
      /\ \A i \in 0 .. dev.size - 1 :
            dev'.at[i] = IF src + sh.delta <= i /\ i < src + sh.delta + k
                         THEN dev.at[src + (i - (src + sh.delta))] ELSE dev.at[i]
  <2>1. src + n <= dev.size /\ src + sh.delta + n <= dev.size
    BY <1>1, <1>2, <1>3, <1>4
  <2>2. src + sh.delta \in Nat /\ k \in 0 .. n
    BY <1>2, <1>3, <1>4
  <2> DEFINE dst == src + sh.delta
  <2>3. /\ dst \in Nat /\ dst + n <= dev.size /\ k \in 0 .. n
        /\ IsDevice(dev) /\ src \in Nat /\ n \in Nat /\ src + n <= dev.size
    BY <1>1, <1>4, <2>1, <2>2
  <2> HIDE DEF dst, src
  <2> DEFINE w == Written(dev, dst, k, Slice(dev, src, n))
  <2>4. ChunkStored(w, dev, src, dst, k)
    BY <2>3, ChunkFacts
  <2>5. dev' = w
    BY <1>6 DEF dst
  <2> HIDE DEF w
  <2> QED BY <2>4, <2>5 DEF dst, ChunkStored
<1>8. TypeOK' /\ CounterInv' /\ GrowInv'
  BY <1>1, <1>2, <1>3, <1>6, <1>7 DEF TypeOK, LoopInv, CounterInv, GrowInv
<1>9. ShrinkInv'
  <2>1. Same(0, sh.from + sh.delta)
    BY <1>1, <1>2, <1>3 DEF LoopInv, ShrinkInv
  <2>2. \A i \in 0 .. sh.from + sh.delta - 1 : dev'.at[i] = sh.was.at[i]
    BY <2>1, <1>2, <1>3, <1>4, <1>7 DEF Same
  <2> QED BY <1>2, <1>3, <1>6, <1>7, <2>2 DEF ShrinkInv, Same
<1> QED BY <1>8, <1>9 DEF LoopInv

\* A failing setSize at the end of a shrink: every cell has been moved, none
\* has been dropped.
LEMMA CutFailsStep ==
    ASSUME TypeOK, LoopInv, CutFails
    PROVE  TypeOK' /\ LoopInv'
<1>1. /\ IsCall(sh) /\ sh.pc = "front" /\ IsDevice(dev) /\ faults \in Nat
      /\ FailWith(dev)
  BY DEF CutFails, TypeOK, NoShift
<1>2. /\ sh.delta \in Int /\ sh.delta < 0 /\ -sh.delta <= sh.from
      /\ dev.size = sh.was.size
      /\ sh.from \in Nat /\ sh.tail \in Nat /\ sh.was.size \in Nat
  BY <1>1 DEF LoopInv, CounterInv, IsCall, IsDevice
<1>3. /\ faults' \in Nat /\ dev' = dev
      /\ sh'.pc = "failed" /\ sh'.n = sh.n
      /\ sh'.from = sh.from /\ sh'.delta = sh.delta /\ sh'.zero = sh.zero
      /\ sh'.tail = sh.tail /\ sh'.was = sh.was /\ IsCall(sh')
  BY <1>1, FailedCall
<1>4. TypeOK' /\ CounterInv' /\ GrowInv'
  BY <1>1, <1>2, <1>3 DEF TypeOK, LoopInv, CounterInv, GrowInv
<1>5. ShrinkInv'
  BY <1>1, <1>2, <1>3 DEF LoopInv, ShrinkInv, InFile, Same
<1> QED BY <1>4, <1>5 DEF LoopInv

-----------------------------------------------------------------------------
(* The entry and the return of a call.                                      *)

\* setSize grows the device and no cell of the old device changes.
LEMMA GrowStartStep ==
    ASSUME TypeOK, LoopInv, NEW from \in Nat, NEW delta \in Int,
           NEW zero \in BOOLEAN,
           GrowStart(from, delta, zero) \/ GrowStartFails(from, delta, zero)
    PROVE  TypeOK' /\ LoopInv'
<1>1. /\ IsDevice(dev) /\ faults \in Nat /\ delta \in Nat /\ delta > 0
      /\ dev.size \in Nat /\ TailLen(dev, from) \in Nat
  BY DEF TypeOK, GrowStart, GrowStartFails, IsDevice, TailLen
<1> DEFINE c(pc) == Call(pc, from, delta, zero, TailLen(dev, from))
<1>2. ASSUME NEW pc \in {"back", "failed"}
      PROVE  /\ IsCall(c(pc)) /\ c(pc).pc = pc /\ c(pc).n = TailLen(dev, from)
             /\ c(pc).from = from /\ c(pc).delta = delta /\ c(pc).zero = zero
             /\ c(pc).tail = TailLen(dev, from) /\ c(pc).was = dev
  BY <1>1, <1>2 DEF Call, IsCall, Running
<1> HIDE DEF c
<1>3. CASE GrowStart(from, delta, zero)
  <2>1. sh' = c("back") /\ dev' = Resized(dev, dev.size + delta) /\ faults' = faults
    BY <1>3 DEF GrowStart, c
  <2>2. /\ IsDevice(dev') /\ dev'.size = dev.size + delta
        /\ \A i \in 0 .. dev.size - 1 : dev'.at[i] = dev.at[i]
    <3> DEFINE m == dev.size + delta
    <3>1. m \in Nat /\ dev.size <= m
      BY <1>1
    <3> HIDE DEF m
    <3>2. /\ IsDevice(Resized(dev, m)) /\ Resized(dev, m).size = m
          /\ \A i \in 0 .. m - 1 :
                Resized(dev, m).at[i] = IF i < dev.size THEN dev.at[i] ELSE Zero
      BY <1>1, <3>1, ResizedFacts
    <3>3. dev' = Resized(dev, m) /\ m = dev.size + delta
      BY <2>1 DEF m
    <3> QED BY <1>1, <3>1, <3>2, <3>3
  <2>3. /\ IsCall(sh') /\ sh'.pc = "back" /\ sh'.n = TailLen(dev, from)
        /\ sh'.from = from /\ sh'.delta = delta /\ sh'.zero = zero
        /\ sh'.tail = TailLen(dev, from) /\ sh'.was = dev
    BY <1>2, <2>1
  <2>4. TypeOK' /\ CounterInv' /\ ShrinkInv'
    BY <1>1, <2>1, <2>2, <2>3 DEF TypeOK, CounterInv, ShrinkInv
  <2>5. GrowInv'
    BY <1>1, <2>2, <2>3 DEF GrowInv, InFile, Same, Landed, TailLen
  <2> QED BY <2>4, <2>5 DEF LoopInv
<1>4. CASE GrowStartFails(from, delta, zero)
  <2>1. sh' = c("failed") /\ dev' = dev /\ faults' = faults + 1
    BY <1>4 DEF GrowStartFails, c
  <2>2. /\ IsCall(sh') /\ sh'.pc = "failed" /\ sh'.n = TailLen(dev, from)
        /\ sh'.from = from /\ sh'.delta = delta /\ sh'.zero = zero
        /\ sh'.tail = TailLen(dev, from) /\ sh'.was = dev
    BY <1>2, <2>1
  <2>3. TypeOK' /\ CounterInv' /\ ShrinkInv' /\ GrowInv'
    BY <1>1, <2>1, <2>2
       DEF TypeOK, CounterInv, ShrinkInv, GrowInv, InFile, Same, Landed
  <2> QED BY <2>3 DEF LoopInv
<1> QED BY <1>3, <1>4

\* A shrink starts with the device untouched.
LEMMA ShrinkStartStep ==
    ASSUME TypeOK, LoopInv, NEW from \in Nat, NEW delta \in Int,
           NEW zero \in BOOLEAN, ShrinkStart(from, delta, zero)
    PROVE  TypeOK' /\ LoopInv'
<1>1. /\ IsDevice(dev) /\ faults \in Nat /\ delta < 0
      /\ -delta <= from /\ -delta <= dev.size
      /\ dev.size \in Nat /\ TailLen(dev, from) \in Nat
      /\ dev' = dev /\ faults' = faults
      /\ sh' = Call("front", from, delta, zero, 0)
  BY DEF TypeOK, ShrinkStart, IsDevice, TailLen
<1>2. /\ IsCall(sh') /\ sh'.pc = "front" /\ sh'.n = 0
      /\ sh'.from = from /\ sh'.delta = delta /\ sh'.zero = zero
      /\ sh'.tail = TailLen(dev, from) /\ sh'.was = dev
  BY <1>1 DEF Call, IsCall, Running
<1>3. TypeOK' /\ CounterInv' /\ ShrinkInv' /\ GrowInv'
  BY <1>1, <1>2
     DEF TypeOK, CounterInv, ShrinkInv, GrowInv, InFile, Same, Landed
<1> QED BY <1>3 DEF LoopInv

\* Between calls the invariant says nothing.
LEMMA IdleStep ==
    ASSUME IsDevice(dev'), faults' \in Nat, sh' = NoShift
    PROVE  TypeOK' /\ LoopInv'
<1>1. sh'.pc = "idle"
  BY DEF NoShift
<1> QED BY <1>1
        DEF TypeOK, LoopInv, CounterInv, GrowInv, ShrinkInv, InFile

-----------------------------------------------------------------------------
(* The theorems.                                                            *)

LEMMA InvInit ==
    ASSUME Init PROVE TypeOK /\ LoopInv
<1>1. IsDevice(dev) /\ faults \in Nat /\ sh = NoShift
  BY DeviceAssumption DEF Init
<1>2. sh.pc = "idle"
  BY <1>1 DEF NoShift
<1> QED BY <1>1, <1>2
        DEF TypeOK, LoopInv, CounterInv, GrowInv, ShrinkInv, InFile

LEMMA InvNext ==
    ASSUME TypeOK, LoopInv, [Next]_shiftVars
    PROVE  TypeOK' /\ LoopInv'
<1>1. CASE Start
  <2>1. PICK from \in 0 .. MaxSize, delta \in -MaxSize .. MaxSize, zero \in BOOLEAN :
           \/ GrowStart(from, delta, zero)
           \/ ShrinkStart(from, delta, zero)
           \/ GrowStartFails(from, delta, zero)
    BY <1>1 DEF Start
  <2>2. from \in Nat /\ delta \in Int
    BY BoundsAssumption
  <2> QED BY <2>1, <2>2, GrowStartStep, ShrinkStartStep
<1>2. CASE ShiftStep
  BY <1>2, MoveBackStep, BackDoneStep, FillGapStep, GapDoneStep, MoveFrontStep,
     CutStep DEF ShiftStep
<1>3. CASE ShiftFault
  BY <1>3, MoveBackFailsStep, FillGapFailsStep, MoveFrontFailsStep, CutFailsStep
     DEF ShiftFault
<1>4. CASE ShiftReturn
  <2>1. IsDevice(dev') /\ faults' \in Nat /\ sh' = NoShift
    BY <1>4 DEF ShiftReturn, TypeOK
  <2> QED BY <2>1, IdleStep
<1>5. CASE UNCHANGED shiftVars
  BY <1>5 DEF shiftVars, TypeOK, LoopInv, CounterInv, GrowInv, ShrinkInv,
              InFile, Same, Landed
<1> QED BY <1>1, <1>2, <1>3, <1>4, <1>5 DEF Next

\* Type correctness, and the loop invariant it needs: no chunk is read or
\* written outside the device (fits.zig:491-533).
THEOREM ShiftTypeOK == Spec => [](TypeOK /\ LoopInv)
<1>1. Init => TypeOK /\ LoopInv
  BY InvInit
<1>2. TypeOK /\ LoopInv /\ [Next]_shiftVars => (TypeOK /\ LoopInv)'
  BY InvNext
<1> QED BY <1>1, <1>2, PTL DEF Spec

\* A completed shift moved every tail cell by delta and nothing else.
THEOREM ShiftCorrect == Spec => []ShiftContract
<1>1. TypeOK /\ LoopInv => ShiftContract
  <2> SUFFICES ASSUME TypeOK, LoopInv, sh.pc = "done", InFile
               PROVE  ShiftContract
    BY DEF ShiftContract
  <2>1. /\ sh.delta \in Int /\ sh.delta # 0 /\ sh.from \in Nat
        /\ sh.was.size \in Nat /\ sh.tail \in Nat
    BY DEF TypeOK, IsCall, NoShift, IsDevice
  <2>2. CASE sh.delta > 0
    BY <2>1, <2>2 DEF LoopInv, GrowInv, ShiftContract, Same, Landed, Smaller
  <2>3. CASE sh.delta < 0
    BY <2>1, <2>3 DEF LoopInv, ShrinkInv, ShiftContract, Same, Landed, Smaller
  <2> QED BY <2>1, <2>2, <2>3
<1> QED BY <1>1, ShiftTypeOK, PTL

\* No failure inside a shift reaches the cells before the moved range.
THEOREM ShiftPrefix == Spec => []PrefixUntouched
<1>1. TypeOK /\ LoopInv => PrefixUntouched
  <2> SUFFICES ASSUME TypeOK, LoopInv, InFile,
                      NEW i \in 0 .. Smaller(sh.from, sh.from + sh.delta) - 1
               PROVE  i < dev.size /\ dev.at[i] = sh.was.at[i]
    BY DEF PrefixUntouched
  <2>1. /\ sh.delta \in Int /\ sh.delta # 0 /\ sh.from \in Nat
        /\ sh.was.size \in Nat /\ sh.from <= sh.was.size
    BY DEF TypeOK, IsCall, NoShift, IsDevice, InFile
  <2>2. CASE sh.delta > 0
    <3>1. i \in 0 .. sh.from - 1
      BY <2>1, <2>2 DEF Smaller
    <3>2. Same(0, sh.from) /\ (dev.size = sh.was.size + sh.delta \/ dev = sh.was)
      BY <2>2 DEF LoopInv, GrowInv
    <3> QED BY <2>1, <2>2, <3>1, <3>2 DEF Same
  <2>3. CASE sh.delta < 0
    <3>1. i \in 0 .. sh.from + sh.delta - 1
      BY <2>1, <2>3 DEF Smaller
    <3>2. /\ Same(0, sh.from + sh.delta)
          /\ dev.size = sh.was.size + (IF sh.pc = "done" THEN sh.delta ELSE 0)
      BY <2>3 DEF LoopInv, ShrinkInv
    <3> QED BY <2>1, <2>3, <3>1, <3>2 DEF Same
  <2> QED BY <2>1, <2>2, <2>3
<1> QED BY <1>1, ShiftTypeOK, PTL

\* Where the tail fits in the inserted gap, setting the size back undoes a
\* grow that stopped anywhere: the exact scope of fits.zig:488-490.
THEOREM ShiftRollback == Spec => []ShortTailRollback
<1>1. TypeOK /\ LoopInv => ShortTailRollback
  <2> SUFFICES ASSUME TypeOK, LoopInv, InFile, sh.delta > 0, ~sh.zero,
                      sh.tail <= sh.delta
               PROVE  Resized(dev, sh.was.size) = sh.was
    BY DEF ShortTailRollback
  <2>1. /\ IsDevice(sh.was) /\ IsDevice(dev) /\ sh.delta \in Int
    BY DEF TypeOK, IsCall, NoShift, InFile
  <2>2. /\ dev.size = sh.was.size + sh.delta \/ dev = sh.was
        /\ \A i \in 0 .. sh.was.size - 1 : dev.at[i] = sh.was.at[i]
    BY DEF LoopInv, GrowInv, Same
  <2>3. sh.was.size \in Nat /\ sh.was.size <= dev.size
    BY <2>1, <2>2 DEF IsDevice
  <2> DEFINE f == [i \in 0 .. sh.was.size - 1 |->
                     IF i < dev.size THEN dev.at[i] ELSE Zero]
  <2>4. sh.was.at = f
    <3>1. \A i \in 0 .. sh.was.size - 1 : f[i] = sh.was.at[i]
      <4>1. \A i \in 0 .. sh.was.size - 1 : i < dev.size
        BY <2>1, <2>3 DEF IsDevice
      <4> QED BY <2>2, <4>1
    <3>2. sh.was.at = [i \in 0 .. sh.was.size - 1 |-> sh.was.at[i]]
      BY <2>1 DEF IsDevice
    <3>3. f = [i \in 0 .. sh.was.size - 1 |-> sh.was.at[i]]
      BY <3>1
    <3> QED BY <3>2, <3>3
  <2> QED BY <2>1, <2>4 DEF Resized, IsDevice
<1> QED BY <1>1, ShiftTypeOK, PTL
=============================================================================
