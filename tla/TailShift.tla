------------------------------ MODULE TailShift ------------------------------
(***************************************************************************)
(* Fits.shiftTailImpl (src/fits.zig): the primitive under every structural  *)
(* edit.  It moves the cells [from, EOF) of the device by delta, through a  *)
(* staging buffer of Chunk cells, and re-sizes the device.                  *)
(*                                                                          *)
(*   grow    setSize(size + delta); copy chunks back to front; then, only   *)
(*           when `zero` is asked for, zero the gap [from, from + delta).   *)
(*   shrink  copy chunks front to back; then setSize(size - |delta|).       *)
(*                                                                          *)
(* Every device call is a step of its own, and every one of them can fail;  *)
(* a failing write may have stored a prefix of its cells.  `sh` is the      *)
(* activation record of the call.  Its fields `was` (the device at the      *)
(* entry of the call) is a history variable: the code keeps no such copy.   *)
(***************************************************************************)
EXTENDS Device

CONSTANTS
    Chunk,          \* CHUNK, the staging buffer
    InitDevices,    \* the devices the caller may hold when it makes a call
    MaxSize,        \* bound on offsets, and on the size a shift grows a device to
    MaxFaults       \* bound: how many device calls may fail in a behaviour

ASSUME ChunkAssumption  == Chunk \in Nat \ {0}
ASSUME DeviceAssumption == \A d \in InitDevices : IsDevice(d)
ASSUME BoundsAssumption == MaxSize \in Nat /\ MaxFaults \in Nat

VARIABLES
    dev,        \* the device
    sh,         \* the call under way
    faults      \* how many device calls have failed so far

shiftVars == <<dev, sh, faults>>

Running == {"back", "gap", "front", "cut"}
NoShift == [pc |-> "idle"]

\* The activation record: the arguments, the tail length read at entry
\* (`tail_len`), and the loop counter (`remaining`, `z` or `done`).
IsCall(c) ==
    /\ c = [pc |-> c.pc, from |-> c.from, delta |-> c.delta, zero |-> c.zero,
            tail |-> c.tail, n |-> c.n, was |-> c.was]
    /\ c.pc \in Running \cup {"done", "failed"}
    /\ c.from \in Nat /\ c.delta \in Int \ {0} /\ c.zero \in BOOLEAN
    /\ c.tail \in Nat /\ c.n \in Nat
    /\ IsDevice(c.was)

TypeOK ==
    /\ IsDevice(dev)
    /\ sh = NoShift \/ IsCall(sh)
    /\ faults \in Nat

TailLenSigned(d, from) == d.size - from
TailLen(d, from) == IF from < d.size THEN d.size - from ELSE 0
Mag(delta) == IF delta < 0 THEN -delta ELSE delta

Call(pc, from, delta, zero, n) ==
    [pc |-> pc, from |-> from, delta |-> delta, zero |-> zero,
     tail |-> TailLen(dev, from), n |-> n, was |-> dev]

-----------------------------------------------------------------------------
(* The entry of the call.                                                   *)

\* delta > 0: the device grows before a cell is moved.
GrowStart(from, delta, zero) ==
    /\ sh.pc = "idle" /\ delta > 0
    /\ dev' = Resized(dev, dev.size + delta)
    /\ sh' = Call("back", from, delta, zero, TailLen(dev, from))
    /\ UNCHANGED faults

\* delta < 0.  Taking more than the device holds makes `size - d` underflow;
\* taking more than precedes the tail makes `src - d` underflow.
ShrinkStart(from, delta, zero) ==
    /\ sh.pc = "idle" /\ delta < 0
    /\ -delta <= from /\ -delta <= dev.size
    /\ sh' = Call("front", from, delta, zero, 0)
    /\ UNCHANGED <<dev, faults>>

-----------------------------------------------------------------------------
(* The loops.                                                               *)

\* One chunk of the grow loop.  `remaining` counts down: the last chunk first.
\* Mutants of this file's definitions are defined just before them.
BackAscending ==
    LET n == Smaller(Chunk, sh.n)
        src == sh.from + sh.tail - sh.n
    IN  dev' = Copied(dev, src, src + sh.delta, n)

BackCopy ==
    LET n == Smaller(Chunk, sh.n)
        src == sh.from + sh.n - n
    IN  dev' = Copied(dev, src, src + sh.delta, n)

MoveBack ==
    /\ sh.pc = "back" /\ sh.n > 0
    /\ BackCopy
    /\ sh' = [sh EXCEPT !.n = @ - Smaller(Chunk, @)]
    /\ UNCHANGED faults

BackDoneNoFill ==
    /\ sh.pc = "back" /\ sh.n = 0
    /\ sh' = [sh EXCEPT !.pc = "done"]
    /\ UNCHANGED <<dev, faults>>

BackDoneAlwaysFills ==
    /\ sh.pc = "back" /\ sh.n = 0
    /\ sh' = [sh EXCEPT !.pc = "gap", !.n = sh.delta]
    /\ UNCHANGED <<dev, faults>>

BackDone ==
    /\ sh.pc = "back" /\ sh.n = 0
    /\ sh' = IF sh.zero THEN [sh EXCEPT !.pc = "gap", !.n = sh.delta]
                        ELSE [sh EXCEPT !.pc = "done"]
    /\ UNCHANGED <<dev, faults>>

\* One chunk of the zero fill; sh.n is `z`, and `zo` is from + delta - z.
FillGap ==
    /\ sh.pc = "gap" /\ sh.n > 0
    /\ LET n == Smaller(Chunk, sh.n)
       IN  /\ dev' = Filled(dev, sh.from + sh.delta - sh.n, n, Zero)
           /\ sh' = [sh EXCEPT !.n = @ - n]
    /\ UNCHANGED faults

GapDone ==
    /\ sh.pc = "gap" /\ sh.n = 0
    /\ sh' = [sh EXCEPT !.pc = "done"]
    /\ UNCHANGED <<dev, faults>>

\* One chunk of the shrink loop; sh.n is `done`.
FrontDescending ==
    LET n == Smaller(Chunk, sh.tail - sh.n)
        src == sh.from + sh.tail - sh.n - n
    IN  dev' = Copied(dev, src, src + sh.delta, n)

FrontLow ==
    LET n == Smaller(Chunk, sh.tail - sh.n)
        src == sh.from + sh.n
    IN  dev' = Copied(dev, src, src + sh.delta - 1, n)

FrontCopy ==
    LET n == Smaller(Chunk, sh.tail - sh.n)
        src == sh.from + sh.n
    IN  dev' = Copied(dev, src, src + sh.delta, n)

MoveFront ==
    /\ sh.pc = "front" /\ sh.n < sh.tail
    /\ FrontCopy
    /\ sh' = [sh EXCEPT !.n = @ + Smaller(Chunk, sh.tail - @)]
    /\ UNCHANGED faults

\* The final setSize of a shrink, to the size read at entry less |delta|.
Cut ==
    /\ sh.pc = "front" /\ sh.n = sh.tail
    /\ dev' = Resized(dev, sh.was.size + sh.delta)
    /\ sh' = [sh EXCEPT !.pc = "done"]
    /\ UNCHANGED faults

-----------------------------------------------------------------------------
(* Failures: an error return leaves the loop where it stands.  A failed     *)
(* setSize or read stores nothing; a failed write stores k cells of n.      *)

FailWith(d) ==
    /\ faults < MaxFaults
    /\ faults' = faults + 1
    /\ dev' = d
    /\ sh' = [sh EXCEPT !.pc = "failed"]

GrowStartFails(from, delta, zero) ==
    /\ sh.pc = "idle" /\ delta > 0
    /\ faults < MaxFaults
    /\ faults' = faults + 1
    /\ sh' = Call("failed", from, delta, zero, TailLen(dev, from))
    /\ UNCHANGED dev

MoveBackFails ==
    /\ sh.pc = "back" /\ sh.n > 0
    /\ LET n == Smaller(Chunk, sh.n)
           src == sh.from + sh.n - n
       IN  \E k \in 0 .. n - 1 :
              FailWith(Written(dev, src + sh.delta, k, Slice(dev, src, n)))

FillGapFails ==
    /\ sh.pc = "gap" /\ sh.n > 0
    /\ \E k \in 0 .. Smaller(Chunk, sh.n) - 1 :
          FailWith(Filled(dev, sh.from + sh.delta - sh.n, k, Zero))

MoveFrontFails ==
    /\ sh.pc = "front" /\ sh.n < sh.tail
    /\ LET n == Smaller(Chunk, sh.tail - sh.n)
           src == sh.from + sh.n
       IN  \E k \in 0 .. n - 1 :
              FailWith(Written(dev, src + sh.delta, k, Slice(dev, src, n)))

CutFails ==
    /\ sh.pc = "front" /\ sh.n = sh.tail
    /\ FailWith(dev)

-----------------------------------------------------------------------------
ShiftStep == MoveBack \/ BackDone \/ FillGap \/ GapDone \/ MoveFront \/ Cut
ShiftFault == MoveBackFails \/ FillGapFails \/ MoveFrontFails \/ CutFails

\* shiftTailImpl returns to its caller.
ShiftReturn ==
    /\ sh.pc \in {"done", "failed"}
    /\ sh' = NoShift
    /\ UNCHANGED <<dev, faults>>

Start ==
    \E from \in 0 .. MaxSize, delta \in -MaxSize .. MaxSize, zero \in BOOLEAN :
        /\ dev \in InitDevices /\ dev.size + delta <= MaxSize
        /\ \/ GrowStart(from, delta, zero)
           \/ ShrinkStart(from, delta, zero)
           \/ GrowStartFails(from, delta, zero)

Init == dev \in InitDevices /\ sh = NoShift /\ faults = 0

Next == Start \/ ShiftStep \/ ShiftFault \/ ShiftReturn

Spec == Init /\ [][Next]_shiftVars /\ WF_shiftVars(ShiftStep)

-----------------------------------------------------------------------------
(* Properties.  All but the first speak of calls whose tail begins inside   *)
(* the device, which is what Hdu.nextOff gives in a file that is not        *)
(* truncated.                                                               *)

InFile == sh.pc # "idle" /\ sh.from <= sh.was.size

\* What a completed call promises its caller: the size changed by exactly
\* delta, the cells before the moved range kept their place, every tail cell
\* moved by delta, and a gap that had to be zeroed is zero (fits.zig:480-483).
ShiftContract ==
    sh.pc = "done" /\ InFile =>
      /\ dev.size = sh.was.size + sh.delta
      /\ \A i \in 0 .. Smaller(sh.from, sh.from + sh.delta) - 1 :
            dev.at[i] = sh.was.at[i]
      /\ \A j \in 0 .. sh.tail - 1 :
            dev.at[sh.from + sh.delta + j] = sh.was.at[sh.from + j]
      /\ sh.delta > 0 /\ sh.zero =>
            \A i \in sh.from .. sh.from + sh.delta - 1 : dev.at[i] = Zero

\* Whatever fails and wherever it fails, no cell before the moved range is
\* ever touched, so every HDU before an edit survives it (fits.zig:491-533).
PrefixUntouched ==
    InFile => \A i \in 0 .. Smaller(sh.from, sh.from + sh.delta) - 1 :
                 i < dev.size /\ dev.at[i] = sh.was.at[i]

\* The rollback the comment at fits.zig:488-490 relies on, where it is true:
\* a grow without zero fill whose tail is no longer than the inserted gap can
\* be undone, at any point, by setting the size back.  (For a longer tail it is not: a chunk is
\* written over cells that other chunks still have to move.)
ShortTailRollback ==
    InFile /\ sh.delta > 0 /\ ~sh.zero /\ sh.tail <= sh.delta =>
        Resized(dev, sh.was.size) = sh.was

-----------------------------------------------------------------------------
(* What the loops maintain, step by step: the inductive invariant behind    *)
(* the properties above.  Same(lo, hi): cells [lo, hi) are as at the entry. *)
(* Landed(lo, hi): tail cells [lo, hi) are in their new place.              *)

Same(lo, hi)   == \A i \in lo .. hi - 1 : dev.at[i] = sh.was.at[i]
Landed(lo, hi) == \A j \in lo .. hi - 1 :
                     dev.at[sh.from + sh.delta + j] = sh.was.at[sh.from + j]

\* The loop counter of each phase, and the device it works on.
CounterInv ==
    sh.pc # "idle" =>
      /\ sh.tail = TailLen(sh.was, sh.from)
      /\ sh.pc = "back" =>
           sh.delta > 0 /\ sh.n <= sh.tail /\ dev.size = sh.was.size + sh.delta
      /\ sh.pc = "gap" => sh.delta > 0 /\ sh.n <= sh.delta /\ sh.zero
      /\ sh.pc = "front" =>
           /\ sh.delta < 0 /\ sh.n <= sh.tail /\ dev.size = sh.was.size
           /\ -sh.delta <= sh.from /\ -sh.delta <= sh.was.size

GrowInv ==
    InFile /\ sh.delta > 0 =>
      /\ dev.size = sh.was.size + sh.delta \/ (sh.pc = "failed" /\ dev = sh.was)
      /\ sh.pc # "front"
      /\ Same(0, sh.from)
      /\ ~sh.zero /\ sh.tail <= sh.delta => Same(0, sh.was.size)
      /\ sh.pc = "back" => Same(0, sh.from + sh.n) /\ Landed(sh.n, sh.tail)
      /\ sh.pc = "gap" =>
           /\ Landed(0, sh.tail)
           /\ \A i \in sh.from .. sh.from + sh.delta - sh.n - 1 : dev.at[i] = Zero
      /\ sh.pc = "done" =>
           /\ Landed(0, sh.tail)
           /\ sh.zero => \A i \in sh.from .. sh.from + sh.delta - 1 : dev.at[i] = Zero

ShrinkInv ==
    InFile /\ sh.delta < 0 =>
      /\ sh.pc \notin {"back", "gap"}
      /\ -sh.delta <= sh.from
      /\ dev.size = sh.was.size + (IF sh.pc = "done" THEN sh.delta ELSE 0)
      /\ Same(0, sh.from + sh.delta)
      /\ sh.pc = "front" => Landed(0, sh.n) /\ Same(sh.from + sh.n, sh.was.size)
      /\ sh.pc = "done" => Landed(0, sh.tail)

LoopInv == CounterInv /\ GrowInv /\ ShrinkInv
=============================================================================
