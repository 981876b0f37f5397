--------------------------- MODULE FitsHandleProofs --------------------------
(***************************************************************************)
(* Proofs about FitsHandle, for every file, every header, every size of the *)
(* blocks, of the copies and of the window, every limit on the HDUs and      *)
(* every number of calls and of failures: a scan never reads the window      *)
(* where it is out of date, an append or a copy that fails leaves the file   *)
(* as it was, no call changes a cell before the HDU it edits, and a failed   *)
(* replacement of a header puts the file back.                               *)
(*                                                                           *)
(* A call is a list of steps, and its rollback another.  The invariant says  *)
(* what both may hold: every step leaves the cells before a limit alone      *)
(* (Jobs), every shift to come starts inside the file as the steps before it *)
(* leave it (Reach), the list in memory is replaced by the last step of a    *)
(* call (TodoOK), and the rollback of an append and of a structural          *)
(* replacement keep the step that restores the size and the one that drops   *)
(* the window (AddingOK, WindowOK).  With that, each step is examined once,  *)
(* whatever call it is from, and each kind of call once, where its steps are *)
(* laid out; what a shift does on the way is taken from TailShiftProofs.     *)
(*                                                                           *)
(* A replacement of a header makes up to two shifts, each with its inverse   *)
(* armed behind it.  Doing and Undoing say where each cell of the file is    *)
(* between the steps, by the shifts that the armed steps would take back;    *)
(* the rest writes only where no kept cell is (MildSteps), so the rollback   *)
(* ends with every kept cell where it was (ReplaceOK).                       *)
(***************************************************************************)
EXTENDS FitsHandle, SequenceFacts

\* The same shift, with what has been proved about it.
SP == INSTANCE TailShiftProofs

-----------------------------------------------------------------------------
(* The state.                                                               *)

Devices == UNION {[size : {n}, at : [0 .. n - 1 -> Cell]] : n \in Nat}
HduRec == [name : Name, hoff : Nat, doff : Nat, bytes : Nat]

\* The HDUs of a list stand one behind the other, and before the scan position.
Ordered(us, scan) ==
    \A i \in DOMAIN us :
        /\ us[i].hoff <= us[i].doff /\ NextOff(us[i]) <= scan
        /\ \A j \in DOMAIN us : i < j => NextOff(us[i]) <= us[j].hoff

\* The steps of a queue that leaves the cells before F alone.
Bottom(c) == Smaller(c.from, c.from + c.delta)
WriteSteps(F) ==
    UNION {[k : {"write"}, off : {o \in Nat : o >= F}, n : {m}, cells : [0 .. m - 1 -> Cell]] :
               m \in Nat \ {0}}
SizeSteps(F) == [k : {"size"}, n : {m \in Nat : m >= F}]
BackShifts(F) ==
    {c \in [k : {"shift"}, from : Nat, delta : Int \ {0}, zero : BOOLEAN, back : {<<>>}] :
        Bottom(c) >= F}
ShiftSteps(F) ==
    {c \in [k : {"shift"}, from : Nat, delta : Int \ {0}, zero : BOOLEAN,
            back : Seq(BackShifts(F))] :
        /\ Bottom(c) >= F
        /\ c.back = <<>> \/ c.back = OneWay(c.from + c.delta, -c.delta, FALSE)}
KeepSteps ==
    {c \in [k : {"keep"}, us : Seq(HduRec), cur : Nat, scan : Nat, last : BOOLEAN] :
        Ordered(c.us, c.scan)}
ArmedSteps(F) == WriteSteps(F) \cup SizeSteps(F) \cup [k : {"unload"}]
UndoSteps(F) == ArmedSteps(F) \cup BackShifts(F)
Steps(F) ==
    WriteSteps(F) \cup SizeSteps(F) \cup ShiftSteps(F) \cup KeepSteps
        \cup [k : {"arm"}, undo : Seq(ArmedSteps(F))]
        \cup [k : {"adopt"}, off : Nat] \cup [k : {"need"}, n : Int]
        \cup [k : {"alloc", "fresh", "swap", "invalid"}]

\* The calls; and what the handle remembers of one under way, which leaves the cells before F.
Adding == {"append", "copy"}
Ops ==
    [op : {"select", "copy", "delete"}, n : Nat] \cup [op : {"append"}, name : Name]
        \cup [op : {"header", "structure", "rows"}, n : Nat, name : Name]
Jobs(F) ==
    [pc : {"scan", "run", "undo"}, op : Ops, want : Nat, todo : Seq(Steps(F)),
     undo : Seq(UndoSteps(F)), was : Devices, hdus : Seq(HduRec), scanOff : Nat,
     full : BOOLEAN, chdu : Nat, torn : BOOLEAN, ok : BOOLEAN]

\* The HDU a call edits was on the device as a whole when the call began.
EditedIsWhole ==
    ~Idle /\ job.op.op \notin Adding \cup {"select"} /\ job.op.n \in DOMAIN job.hdus =>
        NextOff(job.hdus[job.op.n]) <= job.was.size

\* A call leaves the cells before its limit alone: those of the file it began with, when it adds
\* an HDU, and those before the HDU it edits, when the file holds that as a whole.
Limit ==
    IF Idle THEN 0
    ELSE IF job.op.op \in Adding \cup {"select"} THEN job.was.size
    ELSE IF job.op.n \in DOMAIN job.hdus /\ NextOff(job.hdus[job.op.n]) <= job.was.size
    THEN job.hdus[job.op.n].hoff ELSE 0

\* Every variable has its type, the shift keeps its own invariant, and a shift under way is the
\* one the pending list of steps begins with.
HandleTypeOK ==
    /\ SP!TypeOK /\ SP!LoopInv
    /\ hdus \in Seq(HduRec) /\ chdu \in Nat /\ scanOff \in Nat /\ full \in BOOLEAN
    /\ win.off \in Nat /\ win.size \in Int
    /\ job = NoJob \/ job \in Jobs(Limit)
    /\ edits \in Nat /\ damaged \in BOOLEAN
    /\ sh.pc # "idle" =>
         /\ Pending({"shift"})
         /\ sh.from = Head(Queue).from /\ sh.delta = Head(Queue).delta
            /\ sh.zero = Head(Queue).zero

-----------------------------------------------------------------------------
(* The list.                                                                *)

ListOK(us, scan, all) == Ordered(us, scan) /\ (~all => Len(us) <= MaxHduCount)

\* The calls whose last step replaces the list: until then, and while they are rolled back, the
\* list in memory begins with the one they found.  A scan changes neither file nor list so far.
Whole == {"append", "copy", "header", "structure"}
Lists ==
    /\ ListOK(hdus, scanOff, full)
    /\ ~Idle =>
        /\ ListOK(job.hdus, job.scanOff, job.full)
        /\ job.op.op \in {"header", "structure", "rows"} => job.op.n \in DOMAIN job.hdus
        /\ job.pc = "run" => full /\ job.op.op # "select"
        /\ job.pc = "scan" => /\ dev = job.was /\ job.todo = <<>> /\ job.undo = <<>>
                              /\ ~job.torn /\ (job.full => full) 
                              /\ job.scanOff <= scanOff
                              /\ job.want = MaxHduCount + 1 \/ job.op.op = "select"
        /\ job.pc = "scan" \/ (job.op.op \in Whole /\ (job.pc = "undo" \/ job.todo # <<>>)) =>
              /\ Len(job.hdus) <= Len(hdus) /\ chdu = job.chdu
              /\ \A i \in DOMAIN job.hdus : hdus[i] = job.hdus[i]

\* Which steps a call may hold, and where.
TodoOK ==
    ~Idle =>
    /\ job.pc = "undo" => job.todo = <<>>
    /\ \A i \in DOMAIN job.todo :
        /\ job.todo[i].k \in {"keep", "adopt"} /\ job.op.op \in Whole => i = Len(job.todo)
        /\ job.todo[i].k = "adopt" => job.op.op = "copy" /\ job.todo[i].off = scanOff
        /\ job.todo[i].k = "arm" => job.op.op = "rows"
        /\ job.todo[i].k = "shift" => job.op.op \notin Adding
        /\ job.todo[i].k = "size" => job.op.op \in Adding

-----------------------------------------------------------------------------
(* The window.                                                              *)

\* What the window holds from an offset on is on the device.
Fresh(from) == \A i \in from .. win.off + win.size - 1 :
                  win.off <= i => i < dev.size /\ win.at[i] = dev.at[i]

\* It is so from the scan position on in every state a scan may start from; a structural
\* replacement, which writes behind it, drops the window as the last step of its rollback.
WindowOK ==
    /\ Idle /\ ~full => Fresh(scanOff)
    /\ job.pc = "scan" /\ ~job.full => Fresh(job.scanOff)
    /\ job.pc = "undo" /\ job.op.op # "structure" /\ ~full => Fresh(scanOff) /\ job.undo = <<>>
    /\ ~Idle /\ job.op.op = "structure" /\ ~job.full =>
         /\ job.pc = "run" => job.undo # <<>> /\ job.undo[Len(job.undo)].k = "unload"
         /\ job.pc = "undo" =>
              \/ job.undo # <<>> /\ job.undo[Len(job.undo)].k = "unload"
              \/ job.undo = <<>> /\ Fresh(job.scanOff)

-----------------------------------------------------------------------------
(* The cells.                                                               *)

\* The first n cells are those the call found.
Kept(n) == n <= dev.size /\ \A i \in 0 .. n - 1 : dev.at[i] = job.was.at[i]

\* The rollback of an append or a copy is one setSize, and it restores the device.
AddingOK ==
    ~Idle /\ job.op.op \in Adding =>
        /\ job.pc = "run" => job.undo = SizeCall(job.was.size)
        /\ job.pc = "undo" => \/ job.undo = SizeCall(job.was.size)
                              \/ job.undo = <<>> /\ (job.torn \/ dev = job.was)

\* The shifts of a list of steps; the size the file has for the steps to come.
Shifts(q) == {i \in DOMAIN q : q[i].k = "shift"}
Base == IF sh.pc = "idle" THEN dev.size ELSE sh.was.size

\* Each shift of a rollback starts inside the file, also when those before it are done.
UndoOrder(q, size) ==
    \A j \in Shifts(q) :
        /\ q[j].from <= size
        /\ \A i \in 1 .. j - 1 :
              /\ q[i].k # "size"
              /\ q[i].k = "shift" => q[j].from <= Bottom(q[i])

\* So do the shifts of a call, two at most, of which the second stays behind where the first has
\* put its cells.
TodoOrder(q, size) ==
    /\ \A i \in Shifts(q) : (\A j \in Shifts(q) : i <= j) => q[i].from <= size
    /\ \A i, j \in Shifts(q) : i < j =>
         /\ q[j].from <= size + q[i].delta
         /\ q[i].from + q[i].delta <= Bottom(q[j])
         /\ Shifts(q) = {i, j}

\* So a shift that is reversed puts back what it moved, and none reaches behind the limit.
Reach ==
    ~Idle /\ Limit > 0 =>
        /\ TodoOrder(job.todo, Base) /\ UndoOrder(job.undo, Base)
        /\ \A i \in Shifts(job.todo), j \in Shifts(job.undo) :
              job.undo[j].from <= Bottom(job.todo[i])

\* A change of rows that asks a file cut short to lose more cells than it has: the code computes
\* `size - d` there (fits.zig:529), and the model goes no further.
Stuck ==
    /\ job.pc = "run" /\ job.op.op \notin Adding \cup {"select"} /\ job.hdus \in Seq(HduRec)
    /\ sh.pc = "idle" /\ Limit = 0 /\ job.todo # <<>>
    /\ Head(job.todo).k = "shift" /\ Head(job.todo).delta \in Int /\ Head(job.todo).delta < 0
    /\ dev.size \in Nat /\ dev.size < -Head(job.todo).delta

\* The invariant.
Good ==
    HandleTypeOK /\ Lists /\ TodoOK /\ WindowOK /\ AddingOK /\ Reach /\ (~Idle => Kept(Limit))
HandleInv == Stuck \/ Good
-----------------------------------------------------------------------------
(* The proofs: geometry.                                                    *)

\* Rounding up to blocks adds cells.
LEMMA RoundUpFacts ==
    ASSUME NEW n \in Nat
    PROVE  RoundUp(n) \in Nat /\ n <= RoundUp(n)
<1>1. Block \in Nat /\ Block > 0
  BY HandleAssumption
<1> DEFINE m == n + Block - 1 q == m \div Block
<1>2. m \in Nat
  BY <1>1
<1> HIDE DEF m
<1>3. q \in Nat /\ m < q * Block + Block
  BY <1>1, <1>2, SMT
<1> HIDE DEF q
<1>4. q * Block \in Nat
  BY <1>1, <1>3, SMT
<1>5. n <= q * Block
  BY <1>1, <1>3, <1>4 DEF m
<1> QED BY <1>4, <1>5 DEF RoundUp, q, m

\* The headers there are.
LEMMA HdrFacts ==
    ASSUME NEW h \in Name
    PROVE  /\ Hdr[h].ext \in BOOLEAN /\ Hdr[h].ascii \in BOOLEAN
           /\ Hdr[h].cards \in Nat \ {0} /\ Hdr[h].bytes \in Nat
           /\ HdrSize(h) \in Nat /\ Hdr[h].cards <= HdrSize(h)
           /\ HeaderCells(h) \in [0 .. HdrSize(h) - 1 -> Cell]
           /\ FillCell(h) \in Cell
<1>1. /\ Hdr[h].ext \in BOOLEAN /\ Hdr[h].ascii \in BOOLEAN
      /\ Hdr[h].cards \in Nat \ {0} /\ Hdr[h].bytes \in Nat
  BY HandleAssumption DEF Name
<1>2. HdrSize(h) \in Nat /\ Hdr[h].cards <= HdrSize(h)
  BY <1>1, RoundUpFacts DEF HdrSize
<1>3. \A k \in 0 .. HdrSize(h) - 1 : (IF k < Hdr[h].cards THEN <<h, k>> ELSE Space) \in Cell
  <2>1. Space \in Cell /\ \A k \in 0 .. Hdr[h].cards - 1 : <<h, k>> \in Cell
    BY HandleAssumption DEF Name
  <2> QED BY <1>1, <1>2, <2>1
<1>4. HeaderCells(h) \in [0 .. HdrSize(h) - 1 -> Cell]
  BY <1>3 DEF HeaderCells
<1>5. FillCell(h) \in Cell
  BY HandleAssumption, ZeroAssumption DEF FillCell
<1> QED BY <1>1, <1>2, <1>4, <1>5

\* Where an HDU ends.
LEMMA HduFacts ==
    ASSUME NEW u \in HduRec
    PROVE  /\ u.name \in Name /\ u.hoff \in Nat /\ u.doff \in Nat /\ u.bytes \in Nat
           /\ DataSize(u.bytes) \in Nat /\ u.bytes <= DataSize(u.bytes)
           /\ NextOff(u) = u.doff + DataSize(u.bytes)
           /\ NextOff(u) \in Nat /\ u.doff <= NextOff(u)
<1>1. u.name \in Name /\ u.hoff \in Nat /\ u.doff \in Nat /\ u.bytes \in Nat
  BY DEF HduRec
<1>2. DataSize(u.bytes) \in Nat /\ u.bytes <= DataSize(u.bytes)
  BY <1>1, RoundUpFacts DEF DataSize
<1> QED BY <1>1, <1>2 DEF NextOff

\* An HDU that is parsed or written at an offset.
LEMMA NewHduFacts ==
    ASSUME NEW h \in Name, NEW off \in Nat
    PROVE  /\ NewHdu(h, off) \in HduRec /\ NewHdu(h, off).hoff = off
           /\ NewHdu(h, off).doff = off + HdrSize(h)
           /\ NewHdu(h, off).bytes = Hdr[h].bytes
           /\ off <= NewHdu(h, off).doff
           /\ NextOff(NewHdu(h, off)) \in Nat /\ off <= NextOff(NewHdu(h, off))
<1>1. /\ NewHdu(h, off) \in HduRec /\ NewHdu(h, off).hoff = off
      /\ NewHdu(h, off).doff = off + HdrSize(h) /\ off <= NewHdu(h, off).doff
      /\ NewHdu(h, off).bytes = Hdr[h].bytes
  BY HdrFacts DEF NewHdu, HduRec
<1> QED BY <1>1, HduFacts

\* A list with one HDU more, behind the others.
LEMMA AppendOrdered ==
    ASSUME NEW us \in Seq(HduRec), NEW scan \in Nat, Ordered(us, scan),
           NEW h \in Name
    PROVE  LET u == NewHdu(h, scan)
           IN  /\ Append(us, u) \in Seq(HduRec) /\ Len(Append(us, u)) = Len(us) + 1
               /\ Ordered(Append(us, u), NextOff(u))
               /\ \A i \in DOMAIN us : Append(us, u)[i] = us[i]
<1> DEFINE u == NewHdu(h, scan)
<1>1. /\ u \in HduRec /\ u.hoff = scan /\ scan <= u.doff
      /\ NextOff(u) \in Nat /\ scan <= NextOff(u)
  BY NewHduFacts
<1> HIDE DEF u
<1>2. /\ Append(us, u) \in Seq(HduRec) /\ Len(Append(us, u)) = Len(us) + 1 /\ Len(us) \in Nat
      /\ \A i \in 1 .. Len(us) : Append(us, u)[i] = us[i]
      /\ Append(us, u)[Len(us) + 1] = u
  BY <1>1
<1>3. DOMAIN us = 1 .. Len(us) /\ DOMAIN Append(us, u) = 1 .. Len(us) + 1
  BY <1>2
<1>4. \A i \in 1 .. Len(us) : us[i] \in HduRec /\ NextOff(us[i]) \in Nat
  BY HduFacts
<1>5. Ordered(Append(us, u), NextOff(u))
  BY <1>1, <1>2, <1>3, <1>4 DEF Ordered
<1> QED BY <1>2, <1>3, <1>5 DEF u

\* A list cut short.
LEMMA SubOrdered ==
    ASSUME NEW us \in Seq(HduRec), NEW ws \in Seq(HduRec), Len(ws) <= Len(us),
           \A i \in DOMAIN ws : us[i] = ws[i]
    PROVE  SubSeq(us, 1, Len(ws)) = ws
<1>1. /\ SubSeq(us, 1, Len(ws)) \in Seq(HduRec) /\ Len(SubSeq(us, 1, Len(ws))) = Len(ws)
      /\ \A i \in 1 .. Len(ws) : SubSeq(us, 1, Len(ws))[i] = us[i]
  BY SubSeqProperties, Z3
<1> QED BY <1>1, SeqEqual
-----------------------------------------------------------------------------
(* The device, and the shift on it.                                         *)

\* The operators of a shift are those of the handle.
LEMMA SameOperators ==
    /\ \A d : SP!IsDevice(d) <=> IsDevice(d)
    /\ \A d, n : SP!Resized(d, n) = Resized(d, n)
    /\ \A d, off, n, c : SP!Written(d, off, n, c) = Written(d, off, n, c)
<1>1. \A d : SP!IsDevice(d) <=> IsDevice(d)
  BY DEF SP!IsDevice, IsDevice
<1>2. \A d, n : SP!Resized(d, n) = Resized(d, n)
  BY DEF SP!Resized, Resized
<1>3. \A d, off, n, c : SP!Written(d, off, n, c) = Written(d, off, n, c)
  BY DEF SP!Written, Written, SP!Larger, Larger
<1> QED BY <1>1, <1>2, <1>3

\* What the proofs about the shift assume of its constants.
LEMMA ShiftAssumptions ==
    SP!ZeroAssumption /\ SP!ChunkAssumption /\ SP!DeviceAssumption /\ SP!BoundsAssumption
BY SameOperators, HandleAssumption, ZeroAssumption
   DEF SP!ZeroAssumption, SP!ChunkAssumption, SP!DeviceAssumption, SP!BoundsAssumption

\* So are its steps.
LEMMA SameShift ==
    /\ Shift!ShiftStep => SP!ShiftStep
    /\ Shift!ShiftFault => SP!ShiftFault
    /\ Shift!ShiftReturn => SP!ShiftReturn
    /\ \A f, d, z : /\ Shift!GrowStart(f, d, z) => SP!GrowStart(f, d, z)
                    /\ Shift!ShrinkStart(f, d, z) => SP!ShrinkStart(f, d, z)
                    /\ Shift!GrowStartFails(f, d, z) => SP!GrowStartFails(f, d, z)
<1> USE DEF Shift!Smaller, SP!Smaller, Shift!Larger, SP!Larger, Shift!Written, SP!Written,
            Shift!Resized, SP!Resized, Shift!Slice, SP!Slice, Shift!Copied, SP!Copied,
            Shift!Filled, SP!Filled, Shift!FailWith, SP!FailWith
<1>1. Shift!ShiftStep => SP!ShiftStep
  BY Zenon DEF Shift!ShiftStep, Shift!MoveBack, Shift!BackCopy, Shift!BackDone, Shift!FillGap,
         Shift!GapDone, Shift!MoveFront, Shift!FrontCopy, Shift!Cut,
         SP!ShiftStep, SP!MoveBack, SP!BackCopy, SP!BackDone, SP!FillGap,
         SP!GapDone, SP!MoveFront, SP!FrontCopy, SP!Cut
<1>2. Shift!ShiftFault => SP!ShiftFault
  BY Zenon DEF Shift!ShiftFault, Shift!MoveBackFails, Shift!FillGapFails, Shift!MoveFrontFails,
         Shift!CutFails, SP!ShiftFault, SP!MoveBackFails, SP!FillGapFails,
         SP!MoveFrontFails, SP!CutFails
<1>3. Shift!ShiftReturn => SP!ShiftReturn
  BY DEF Shift!ShiftReturn, SP!ShiftReturn, Shift!NoShift, SP!NoShift
<1>4. \A f, d, z : /\ Shift!GrowStart(f, d, z) => SP!GrowStart(f, d, z)
                   /\ Shift!ShrinkStart(f, d, z) => SP!ShrinkStart(f, d, z)
                   /\ Shift!GrowStartFails(f, d, z) => SP!GrowStartFails(f, d, z)
  BY DEF Shift!GrowStart, Shift!ShrinkStart, Shift!GrowStartFails, Shift!Call, Shift!TailLen,
         SP!GrowStart, SP!ShrinkStart, SP!GrowStartFails, SP!Call, SP!TailLen
<1> QED BY <1>1, <1>2, <1>3, <1>4

\* Devices as a set of records.
LEMMA DeviceSet ==
    ASSUME NEW d
    PROVE  d \in Devices <=> IsDevice(d)
<1>1. ASSUME IsDevice(d) PROVE d \in Devices
  <2>1. d \in [size : {d.size}, at : [0 .. d.size - 1 -> Cell]] /\ d.size \in Nat
    BY <1>1 DEF IsDevice
  <2> QED BY <2>1 DEF Devices
<1>2. ASSUME d \in Devices PROVE IsDevice(d)
  <2>1. PICK n \in Nat : d \in [size : {n}, at : [0 .. n - 1 -> Cell]]
    BY <1>2 DEF Devices
  <2> QED BY <2>1 DEF IsDevice
<1> QED BY <1>1, <1>2

\* Writes keep the cells before them; setSize keeps those that fit.
LEMMA WrittenDev ==
    ASSUME NEW d, IsDevice(d), NEW off \in Nat, NEW n \in Nat, NEW c,
           \A i \in 0 .. n - 1 : c[i] \in Cell
    PROVE  /\ IsDevice(Written(d, off, n, c))
           /\ d.size <= Written(d, off, n, c).size
           /\ \A i \in 0 .. d.size - 1 : i < off =>
                 Written(d, off, n, c).at[i] = d.at[i]
           /\ \A i \in 0 .. d.size - 1 : off + n <= i =>
                 Written(d, off, n, c).at[i] = d.at[i]
           /\ n > 0 => off + n <= Written(d, off, n, c).size
<1> DEFINE w == Written(d, off, n, c)
<1>1. /\ IsDevice(w)
      /\ w.size = IF n = 0 \/ off + n <= d.size THEN d.size ELSE off + n
      /\ \A i \in 0 .. w.size - 1 :
           w.at[i] = IF off <= i /\ i < off + n THEN c[i - off]
                     ELSE IF i < d.size THEN d.at[i] ELSE Zero
  BY ShiftAssumptions, SameOperators, SP!WrittenFacts
<1>2. d.size \in Nat
  BY DEF IsDevice
<1> HIDE DEF w
<1>3. d.size <= w.size
  BY <1>1, <1>2
<1> QED BY <1>1, <1>2, <1>3 DEF w

\* setSize keeps the cells that fit.
LEMMA ResizedDev ==
    ASSUME NEW d, IsDevice(d), NEW n \in Nat
    PROVE  /\ IsDevice(Resized(d, n)) /\ Resized(d, n).size = n
           /\ \A i \in 0 .. n - 1 : i < d.size => Resized(d, n).at[i] = d.at[i]
<1>1. /\ IsDevice(Resized(d, n)) /\ Resized(d, n).size = n
      /\ \A i \in 0 .. n - 1 : Resized(d, n).at[i] = IF i < d.size THEN d.at[i] ELSE Zero
  BY ShiftAssumptions, SameOperators, SP!ResizedFacts
<1> QED BY <1>1

\* Two devices of one size with the same cells are the same.
LEMMA SameDevice ==
    ASSUME NEW d, NEW e, IsDevice(d), IsDevice(e), d.size = e.size,
           \A i \in 0 .. d.size - 1 : d.at[i] = e.at[i]
    PROVE  d = e
<1>1. d.at = [i \in 0 .. d.size - 1 |-> d.at[i]] /\ e.at = [i \in 0 .. d.size - 1 |-> e.at[i]]
  BY DEF IsDevice
<1>2. [i \in 0 .. d.size - 1 |-> d.at[i]] = [i \in 0 .. d.size - 1 |-> e.at[i]]
  OBVIOUS
<1>3. d.at = e.at
  BY <1>1, <1>2
<1> QED BY <1>3 DEF IsDevice
\* A shift under way.
LEMMA ShiftGoes ==
    ASSUME SP!TypeOK, SP!LoopInv, Shift!ShiftStep \/ Shift!ShiftFault
    PROVE  /\ SP!TypeOK' /\ SP!LoopInv'
           /\ sh.pc # "idle" /\ sh'.pc # "idle"
           /\ sh'.from = sh.from /\ sh'.delta = sh.delta /\ sh'.zero = sh.zero
           /\ sh'.was = sh.was
<1>1. SP!ShiftStep \/ SP!ShiftFault
  BY SameShift
<1>2. SP!TypeOK' /\ SP!LoopInv'
  BY <1>1, ShiftAssumptions, SP!InvNext DEF SP!Next
<1>3. sh = SP!NoShift \/ SP!IsCall(sh)
  BY DEF SP!TypeOK
<1>4. sh.pc \in {"back", "gap", "front"}
  BY <1>1 DEF SP!ShiftStep, SP!MoveBack, SP!BackDone, SP!FillGap, SP!GapDone, SP!MoveFront,
              SP!Cut, SP!ShiftFault, SP!MoveBackFails, SP!FillGapFails, SP!MoveFrontFails,
              SP!CutFails
<1>5. SP!IsCall(sh)
  BY <1>3, <1>4 DEF SP!NoShift
<1>6. \A n, pc :
        /\ \A c \in {[sh EXCEPT !.n = n], [sh EXCEPT !.pc = pc], [sh EXCEPT !.pc = pc, !.n = n]} :
             c.from = sh.from /\ c.delta = sh.delta /\ c.zero = sh.zero /\ c.was = sh.was
  BY <1>5 DEF SP!IsCall
<1>7. sh'.from = sh.from /\ sh'.delta = sh.delta /\ sh'.zero = sh.zero /\ sh'.was = sh.was
  <2>1. CASE SP!MoveBack
    BY <2>1, <1>6 DEF SP!MoveBack
  <2>2. CASE SP!BackDone
    BY <2>2, <1>6 DEF SP!BackDone
  <2>3. CASE SP!FillGap
    BY <2>3, <1>6 DEF SP!FillGap
  <2>4. CASE SP!GapDone \/ SP!Cut
    BY <2>4, <1>5 DEF SP!GapDone, SP!Cut, SP!IsCall
  <2>5. CASE SP!MoveFront
    BY <2>5, <1>6 DEF SP!MoveFront
  <2>6. CASE SP!ShiftFault
    <3>1. sh' = [sh EXCEPT !.pc = "failed"]
      BY <2>6 DEF SP!ShiftFault, SP!MoveBackFails, SP!FillGapFails, SP!MoveFrontFails,
         SP!CutFails, SP!FailWith
    <3> QED BY <3>1, <1>5 DEF SP!IsCall
  <2> QED BY <1>1, <2>1, <2>2, <2>3, <2>4, <2>5, <2>6 DEF SP!ShiftStep
<1>8. sh'.pc # "idle"
  <2>1. SP!ShiftStep => sh'.pc \in {"back", "gap", "front", "done"}
    BY <1>5, <1>4 DEF SP!ShiftStep, SP!MoveBack, SP!BackDone, SP!FillGap, SP!GapDone,
       SP!MoveFront, SP!Cut, SP!IsCall
  <2>2. SP!ShiftFault => sh'.pc = "failed"
    BY <1>5 DEF SP!ShiftFault, SP!MoveBackFails, SP!FillGapFails, SP!MoveFrontFails,
       SP!CutFails, SP!FailWith, SP!IsCall
  <2> QED BY <1>1, <2>1, <2>2
<1> QED BY <1>2, <1>4, <1>7, <1>8

\* A shift that begins.
LEMMA ShiftStarts ==
    ASSUME SP!TypeOK, SP!LoopInv, NEW from \in Nat, NEW delta \in Int \ {0}, NEW zero \in BOOLEAN,
           \/ Shift!GrowStart(from, delta, zero) \/ Shift!ShrinkStart(from, delta, zero)
           \/ Shift!GrowStartFails(from, delta, zero)
    PROVE  /\ SP!TypeOK' /\ SP!LoopInv'
           /\ sh.pc = "idle" /\ sh'.pc # "idle"
           /\ sh'.from = from /\ sh'.delta = delta /\ sh'.zero = zero /\ sh'.was = dev
<1>1. \/ SP!GrowStart(from, delta, zero) \/ SP!ShrinkStart(from, delta, zero)
      \/ SP!GrowStartFails(from, delta, zero)
  BY SameShift
<1>2. SP!TypeOK' /\ SP!LoopInv'
  BY <1>1, ShiftAssumptions, SP!GrowStartStep, SP!ShrinkStartStep
<1> QED BY <1>1, <1>2 DEF SP!GrowStart, SP!ShrinkStart, SP!GrowStartFails, SP!Call

\* A shift that returns.
LEMMA ShiftReturns ==
    ASSUME SP!TypeOK, SP!LoopInv, Shift!ShiftReturn
    PROVE  /\ SP!TypeOK' /\ SP!LoopInv' /\ sh.pc \in {"done", "failed"} /\ sh'.pc = "idle"
           /\ dev' = dev /\ faults' = faults
<1>1. SP!ShiftReturn
  BY SameShift
<1>2. /\ sh.pc \in {"done", "failed"} /\ sh' = SP!NoShift /\ dev' = dev /\ faults' = faults
  BY <1>1 DEF SP!ShiftReturn
<1>3. SP!IsDevice(dev') /\ faults' \in Nat
  BY <1>2 DEF SP!TypeOK
<1>4. SP!TypeOK' /\ SP!LoopInv'
  BY <1>2, <1>3, ShiftAssumptions, SP!IdleStep
<1> QED BY <1>2, <1>4 DEF SP!NoShift

\* The state outside a shift.
LEMMA NoShiftInv ==
    ASSUME SP!TypeOK, sh.pc = "idle", sh' = sh, IsDevice(dev'), faults' \in Nat
    PROVE  SP!TypeOK' /\ SP!LoopInv'
<1>1. sh = SP!NoShift
  BY DEF SP!TypeOK, SP!IsCall, SP!Running
<1>2. SP!IsDevice(dev')
  BY SameOperators
<1> QED BY <1>1, <1>2, ShiftAssumptions, SP!IdleStep

\* What a shift keeps of a file that reaches to its range.
LEMMA ShiftKeeps ==
    ASSUME SP!TypeOK, SP!LoopInv, sh.pc # "idle", sh.from <= sh.was.size,
           NEW n \in Nat, n <= Smaller(sh.from, sh.from + sh.delta)
    PROVE  /\ n <= dev.size /\ \A i \in 0 .. n - 1 : dev.at[i] = sh.was.at[i]
           /\ sh.pc = "done" => dev.size = sh.was.size + sh.delta
           /\ sh.pc = "failed" => sh.was.size <= dev.size
<1>1. /\ sh.delta \in Int /\ sh.delta # 0 /\ sh.from \in Nat /\ sh.was.size \in Nat
      /\ dev.size \in Nat
  BY DEF SP!TypeOK, SP!IsCall, SP!NoShift, SP!IsDevice
<1>2. CASE sh.delta > 0
  <2>1. /\ dev.size = sh.was.size + sh.delta \/ (sh.pc = "failed" /\ dev = sh.was)
        /\ \A i \in 0 .. sh.from - 1 : dev.at[i] = sh.was.at[i]
    BY <1>2 DEF SP!LoopInv, SP!GrowInv, SP!InFile, SP!Same
  <2>2. n <= sh.from
    BY <1>1, <1>2 DEF Smaller
  <2> QED BY <1>1, <1>2, <2>1, <2>2
<1>3. CASE sh.delta < 0
  <2>1. /\ dev.size = sh.was.size + (IF sh.pc = "done" THEN sh.delta ELSE 0)
        /\ -sh.delta <= sh.from /\ SP!Same(0, sh.from + sh.delta)
    BY <1>3 DEF SP!LoopInv, SP!ShrinkInv, SP!InFile
  <2>3. \A i \in 0 .. sh.from + sh.delta - 1 : dev.at[i] = sh.was.at[i]
    BY <2>1, <1>1 DEF SP!Same
  <2>2. n <= sh.from + sh.delta
    BY <1>1, <1>3 DEF Smaller
  <2> QED BY <1>1, <1>3, <2>1, <2>2, <2>3
<1> QED BY <1>1, <1>2, <1>3

-----------------------------------------------------------------------------
(* The job.                                                                 *)

\* The head and the tail of a queue.
LEMMA TailFacts ==
    ASSUME NEW S, NEW q \in Seq(S), q # <<>>
    PROVE  /\ Len(q) \in Nat \ {0} /\ DOMAIN q = 1 .. Len(q) /\ Head(q) = q[1] /\ Head(q) \in S
           /\ Tail(q) \in Seq(S) /\ Len(Tail(q)) = Len(q) - 1 /\ DOMAIN Tail(q) = 1 .. Len(q) - 1
           /\ \A i \in 1 .. Len(q) - 1 : Tail(q)[i] = q[i + 1]
<1>1. Len(q) \in Nat \ {0} /\ DOMAIN q = 1 .. Len(q) /\ Head(q) = q[1] /\ Head(q) \in S
  OBVIOUS
<1>2. Tail(q) \in Seq(S) /\ Len(Tail(q)) = Len(q) - 1
  OBVIOUS
<1>3. \A i \in 1 .. Len(q) - 1 : Tail(q)[i] = q[i + 1]
  OBVIOUS
<1>4. DOMAIN Tail(q) = 1 .. Len(q) - 1
  BY <1>1, <1>2
<1> QED BY <1>1, <1>2, <1>3, <1>4

\* The fields of a call.
LEMMA JobFacts ==
    ASSUME HandleTypeOK, ~Idle
    PROVE  /\ job \in Jobs(Limit) /\ job.pc \in {"scan", "run", "undo"} /\ job.op \in Ops
           /\ job.want \in Nat /\ job.todo \in Seq(Steps(Limit)) /\ job.undo \in Seq(UndoSteps(Limit))
           /\ job.was \in Devices /\ job.hdus \in Seq(HduRec) /\ job.scanOff \in Nat
           /\ job.full \in BOOLEAN /\ job.chdu \in Nat /\ job.torn \in BOOLEAN /\ job.ok \in BOOLEAN
           /\ IsDevice(job.was) /\ job.was.size \in Nat
           /\ IsDevice(dev) /\ dev.size \in Nat
<1>1. job \in Jobs(Limit)
  BY DEF HandleTypeOK, Idle, NoJob
<1>2. /\ job.pc \in {"scan", "run", "undo"} /\ job.op \in Ops
      /\ job.want \in Nat /\ job.todo \in Seq(Steps(Limit)) /\ job.undo \in Seq(UndoSteps(Limit))
      /\ job.was \in Devices /\ job.hdus \in Seq(HduRec) /\ job.scanOff \in Nat
      /\ job.full \in BOOLEAN /\ job.chdu \in Nat /\ job.torn \in BOOLEAN /\ job.ok \in BOOLEAN
  BY <1>1 DEF Jobs
<1>3. IsDevice(job.was) /\ IsDevice(dev)
  BY <1>2, DeviceSet, SameOperators DEF HandleTypeOK, SP!TypeOK
<1>4. job.was.size \in Nat /\ dev.size \in Nat
  BY <1>3 DEF IsDevice
<1> QED BY <1>1, <1>2, <1>3, <1>4

\* The device, outside a call too.
LEMMA DevFacts ==
    ASSUME HandleTypeOK
    PROVE  IsDevice(dev) /\ dev.size \in Nat
<1>1. IsDevice(dev)
  BY SameOperators DEF HandleTypeOK, SP!TypeOK
<1> QED BY <1>1 DEF IsDevice

\* The limit of a call is a number.
LEMMA LimitFacts ==
    ASSUME HandleTypeOK, Lists
    PROVE  Limit \in Nat
<1>1. CASE Idle
  BY <1>1 DEF Limit
<1>2. CASE ~Idle
  <2>1. /\ job.was.size \in Nat /\ job.hdus \in Seq(HduRec)
    BY <1>2, JobFacts
  <2>2. job.op.n \in DOMAIN job.hdus => job.hdus[job.op.n].hoff \in Nat
    BY <2>1, HduFacts
  <2> QED BY <2>1, <2>2 DEF Limit
<1> QED BY <1>1, <1>2

\* The call goes on: what it was asked, and what it found, stay.
SameCall ==
    /\ job'.op = job.op /\ job'.want = job.want /\ job'.was = job.was
    /\ job'.hdus = job.hdus /\ job'.scanOff = job.scanOff /\ job'.full = job.full
    /\ job'.chdu = job.chdu
Carried(pc, todo, undo, torn, ok) ==
    [job EXCEPT !.pc = pc, !.todo = todo, !.undo = undo, !.torn = torn, !.ok = ok]

\* A call that goes on with other steps is the same call.
LEMMA CarriedFacts ==
    ASSUME HandleTypeOK, Lists, ~Idle, NEW pc \in {"run", "undo"},
           NEW todo \in Seq(Steps(Limit)), NEW undo \in Seq(UndoSteps(Limit)),
           NEW torn \in BOOLEAN, NEW ok \in BOOLEAN,
           job' = Carried(pc, todo, undo, torn, ok)
    PROVE  /\ SameCall /\ Limit' = Limit /\ ~Idle' /\ job' \in Jobs(Limit)'
           /\ job'.pc = pc /\ job'.todo = todo /\ job'.undo = undo /\ job'.torn = torn
           /\ job'.ok = ok
<1>1. job \in Jobs(Limit)
  BY JobFacts
<1>2. /\ SameCall /\ job'.pc = pc /\ job'.todo = todo /\ job'.undo = undo
      /\ job'.torn = torn /\ job'.ok = ok /\ job' \in Jobs(Limit)
  BY <1>1 DEF Carried, SameCall, Jobs
<1>3. ~Idle'
  BY <1>2 DEF Idle
<1>4. Limit' = Limit
  BY <1>2, <1>3 DEF Limit, SameCall
<1>5. Jobs(Limit)' = Jobs(Limit)
  BY <1>4 DEF Jobs, Steps, WriteSteps, SizeSteps, ShiftSteps, BackShifts, KeepSteps, UndoSteps,
     ArmedSteps
<1> QED BY <1>2, <1>3, <1>4, <1>5

\* The ways a job is written are these.
LEMMA JobForms ==
    ASSUME HandleTypeOK, ~Idle
    PROVE  /\ \A todo, undo : [job EXCEPT !.pc = "run", !.todo = todo, !.undo = undo]
                                = Carried("run", todo, undo, job.torn, job.ok)
           /\ [job EXCEPT !.pc = "undo", !.todo = <<>>]
                = Carried("undo", <<>>, job.undo, job.torn, job.ok)
           /\ job.pc = "run" =>
                /\ Popped = Carried("run", Tail(job.todo), job.undo, job.torn, job.ok)
                /\ GiveUp = Carried("undo", <<>>, job.undo, job.torn, job.ok)
                /\ [GiveUp EXCEPT !.torn = TRUE]
                     = Carried("undo", <<>>, job.undo, TRUE, job.ok)
                /\ \A undo : [Popped EXCEPT !.undo = undo]
                     = Carried("run", Tail(job.todo), undo, job.torn, job.ok)
                /\ \A ok : [Popped EXCEPT !.ok = ok]
                     = Carried("run", Tail(job.todo), job.undo, job.torn, ok)
           /\ job.pc = "undo" =>
                /\ Popped = Carried("undo", job.todo, Tail(job.undo), job.torn, job.ok)
                /\ GiveUp = Carried("undo", job.todo, Tail(job.undo), TRUE, job.ok)
                /\ [GiveUp EXCEPT !.torn = TRUE]
                     = Carried("undo", job.todo, Tail(job.undo), TRUE, job.ok)
<1>1. job \in Jobs(Limit)
  BY JobFacts
<1>2. \A todo, undo : [job EXCEPT !.pc = "run", !.todo = todo, !.undo = undo]
                        = Carried("run", todo, undo, job.torn, job.ok)
  BY <1>1 DEF Carried, Jobs
<1>3. [job EXCEPT !.pc = "undo", !.todo = <<>>]
        = Carried("undo", <<>>, job.undo, job.torn, job.ok)
  BY <1>1 DEF Carried, Jobs
<1>4. ASSUME job.pc = "run"
      PROVE  /\ Popped = Carried("run", Tail(job.todo), job.undo, job.torn, job.ok)
             /\ GiveUp = Carried("undo", <<>>, job.undo, job.torn, job.ok)
             /\ [GiveUp EXCEPT !.torn = TRUE]
                  = Carried("undo", <<>>, job.undo, TRUE, job.ok)
             /\ \A undo : [Popped EXCEPT !.undo = undo]
                  = Carried("run", Tail(job.todo), undo, job.torn, job.ok)
             /\ \A ok : [Popped EXCEPT !.ok = ok]
                  = Carried("run", Tail(job.todo), job.undo, job.torn, ok)
  BY <1>1, <1>4, Zenon DEF Carried, Jobs, Popped, GiveUp
<1>5. ASSUME job.pc = "undo"
      PROVE  /\ Popped = Carried("undo", job.todo, Tail(job.undo), job.torn, job.ok)
             /\ GiveUp = Carried("undo", job.todo, Tail(job.undo), TRUE, job.ok)
             /\ [GiveUp EXCEPT !.torn = TRUE]
                  = Carried("undo", job.todo, Tail(job.undo), TRUE, job.ok)
  BY <1>1, <1>5 DEF Carried, Jobs, Popped, GiveUp
<1> QED BY <1>2, <1>3, <1>4, <1>5

\* The queue a step is taken from.
LEMMA QueueFacts ==
    ASSUME HandleTypeOK, NEW K, Pending(K)
    PROVE  /\ ~Idle /\ Head(Queue).k \in K
           /\ \/ /\ job.pc = "run" /\ Queue = job.todo /\ job.todo # <<>>
                 /\ Head(Queue) \in Steps(Limit) /\ Head(Queue) = job.todo[1]
              \/ /\ job.pc = "undo" /\ Queue = job.undo /\ job.undo # <<>>
                 /\ Head(Queue) \in UndoSteps(Limit) /\ Head(Queue) = job.undo[1]
<1>1. Queue # <<>> /\ Head(Queue).k \in K
  BY DEF Pending
<1>2. ~Idle
  BY <1>1 DEF Queue, Idle
<1>3. job.todo \in Seq(Steps(Limit)) /\ job.undo \in Seq(UndoSteps(Limit))
  BY <1>2, JobFacts
<1>4. (job.pc = "run" /\ Queue = job.todo) \/ (job.pc = "undo" /\ Queue = job.undo)
  BY <1>1 DEF Queue
<1> QED BY <1>1, <1>2, <1>3, <1>4, TailFacts

-----------------------------------------------------------------------------
(* The steps.                                                               *)

\* A step is of one kind, and has the fields of its kind.
LEMMA UndoKinds ==
    ASSUME NEW F \in Nat, NEW c \in UndoSteps(F)
    PROVE  /\ c.k \in {"write", "size", "unload", "shift"}
           /\ c.k = "write" => /\ c.off \in Nat /\ c.off >= F /\ c.n \in Nat \ {0}
                               /\ \A i \in 0 .. c.n - 1 : c.cells[i] \in Cell
           /\ c.k = "size" => c.n \in Nat /\ c.n >= F
           /\ c.k = "shift" => /\ c.from \in Nat /\ c.delta \in Int \ {0} /\ c.zero \in BOOLEAN
                               /\ Bottom(c) >= F
<1>1. CASE c \in WriteSteps(F)
  BY <1>1 DEF WriteSteps
<1>2. CASE c \in SizeSteps(F)
  BY <1>2 DEF SizeSteps
<1>3. CASE c \in [k : {"unload"}]
  BY <1>3
<1>4. CASE c \in BackShifts(F)
  BY <1>4 DEF BackShifts
<1> QED BY <1>1, <1>2, <1>3, <1>4 DEF UndoSteps, ArmedSteps

\* A step of a call has the fields of its kind too.
LEMMA StepKinds ==
    ASSUME NEW F \in Nat, NEW c \in Steps(F)
    PROVE  /\ c.k = "write" => /\ c.off \in Nat /\ c.off >= F /\ c.n \in Nat \ {0}
                               /\ \A i \in 0 .. c.n - 1 : c.cells[i] \in Cell
           /\ c.k = "size" => c.n \in Nat /\ c.n >= F
           /\ c.k = "shift" => c \in ShiftSteps(F)
           /\ c.k = "keep" => c \in KeepSteps
           /\ c.k = "arm" => c.undo \in Seq(ArmedSteps(F))
           /\ c.k = "adopt" => c.off \in Nat
           /\ c.k = "need" => c.n \in Int
           /\ c.k \in {"write", "size", "shift", "keep", "arm", "adopt", "need", "alloc", "fresh",
                       "swap", "invalid"}
<1>1. CASE c \in WriteSteps(F)
  BY <1>1 DEF WriteSteps
<1>2. CASE c \in SizeSteps(F)
  BY <1>2 DEF SizeSteps
<1>3. CASE c \in ShiftSteps(F)
  BY <1>3 DEF ShiftSteps
<1>4. CASE c \in KeepSteps
  BY <1>4 DEF KeepSteps
<1>5. CASE c \in [k : {"arm"}, undo : Seq(ArmedSteps(F))]
  BY <1>5
<1>6. CASE c \in [k : {"adopt"}, off : Nat]
  BY <1>6
<1>7. CASE c \in [k : {"need"}, n : Int]
  BY <1>7
<1>8. CASE c \in [k : {"alloc", "fresh", "swap", "invalid"}]
  BY <1>8
<1> QED BY <1>1, <1>2, <1>3, <1>4, <1>5, <1>6, <1>7, <1>8 DEF Steps

\* A shift, and the one that reverses it.
LEMMA ShiftFields ==
    ASSUME NEW F \in Nat, NEW c \in ShiftSteps(F)
    PROVE  /\ c.k = "shift" /\ c.from \in Nat /\ c.delta \in Int \ {0} /\ c.zero \in BOOLEAN
           /\ c.from + c.delta \in Nat
           /\ Bottom(c) \in Nat /\ Bottom(c) >= F /\ Bottom(c) <= c.from
           /\ Bottom(c) <= c.from + c.delta
           /\ Bottom(c) = c.from \/ Bottom(c) = c.from + c.delta
           /\ c.back \in Seq(BackShifts(F))
           /\ c.back = <<>> \/ c.back = OneWay(c.from + c.delta, -c.delta, FALSE)
<1>1. /\ c.k = "shift" /\ c.from \in Nat /\ c.delta \in Int \ {0} /\ c.zero \in BOOLEAN
      /\ Bottom(c) >= F /\ c.back \in Seq(BackShifts(F))
      /\ c.back = <<>> \/ c.back = OneWay(c.from + c.delta, -c.delta, FALSE)
  BY DEF ShiftSteps
<1>2. /\ Bottom(c) <= c.from /\ Bottom(c) <= c.from + c.delta
      /\ Bottom(c) = c.from \/ Bottom(c) = c.from + c.delta
  BY <1>1 DEF Bottom, Smaller
<1>3. Bottom(c) \in Nat /\ c.from + c.delta \in Nat
  BY <1>1, <1>2
<1> QED BY <1>1, <1>2, <1>3

\* The shift a pending queue begins with, in a call or in its rollback.
LEMMA PendingShift ==
    ASSUME HandleTypeOK, Lists, Pending({"shift"})
    PROVE  LET c == Head(Queue)
           IN  /\ c.from \in Nat /\ c.delta \in Int \ {0} /\ c.zero \in BOOLEAN
               /\ Bottom(c) \in Nat /\ Limit <= Bottom(c) /\ Bottom(c) <= c.from
               /\ Bottom(c) <= c.from + c.delta
               /\ job.pc = "run" => c \in ShiftSteps(Limit)
<1> DEFINE c == Head(Queue)
<1>1. Limit \in Nat
  BY LimitFacts
<1>2. /\ c.from \in Nat /\ c.delta \in Int \ {0} /\ c.zero \in BOOLEAN /\ Bottom(c) >= Limit
      /\ job.pc = "run" => c \in ShiftSteps(Limit)
  <2>1. CASE job.pc = "run"
    <3>1. c \in ShiftSteps(Limit)
      BY <1>1, <2>1, QueueFacts, StepKinds
    <3> QED BY <3>1, <1>1, ShiftFields
  <2>2. CASE job.pc = "undo"
    BY <1>1, <2>2, QueueFacts, UndoKinds
  <2> QED BY <2>1, <2>2, QueueFacts
<1> HIDE DEF c
<1>3. /\ Bottom(c) <= c.from /\ Bottom(c) <= c.from + c.delta
      /\ Bottom(c) = c.from \/ Bottom(c) = c.from + c.delta
  BY <1>2 DEF Bottom, Smaller
<1> QED BY <1>1, <1>2, <1>3 DEF c

-----------------------------------------------------------------------------
(* What a step leaves alone.                                                *)

\* The lists, after a step that leaves the one in memory alone.
LEMMA ListsStep ==
    ASSUME Lists, ~Idle, ~Idle', SameCall, mem' = mem, job'.pc \in {"run", "undo"},
           job'.pc = "run" => full /\ job.op.op # "select",
           job.pc \in {"scan", "undo"} \/ job.todo # <<>>
    PROVE  Lists'
<1>1. hdus' = hdus /\ chdu' = chdu /\ scanOff' = scanOff /\ full' = full
  BY DEF mem
<1>3. ListOK(hdus, scanOff, full)' <=> ListOK(hdus, scanOff, full)
  BY <1>1 DEF ListOK, Ordered, NextOff, DataSize, RoundUp
<1>4. ListOK(job.hdus, job.scanOff, job.full)' <=> ListOK(job.hdus, job.scanOff, job.full)
  BY DEF SameCall, ListOK, Ordered, NextOff, DataSize, RoundUp
<1> QED BY <1>1, <1>3, <1>4 DEF Lists, SameCall

\* The steps to come, after one of them or when they are given up.
LEMMA TodoStep ==
    ASSUME HandleTypeOK, TodoOK, ~Idle, ~Idle', SameCall,
           \/ job'.todo = <<>>
           \/ /\ job'.todo = Tail(job.todo) /\ job.todo # <<>> /\ job'.pc # "undo"
              /\ scanOff' = scanOff \/ job.op.op # "copy" \/ Tail(job.todo) = <<>>
    PROVE  TodoOK'
<1>1. CASE job'.todo = <<>>
  BY <1>1 DEF TodoOK
<1>2. CASE /\ job'.todo = Tail(job.todo) /\ job.todo # <<>> /\ job'.pc # "undo"
           /\ scanOff' = scanOff \/ job.op.op # "copy" \/ Tail(job.todo) = <<>>
  <2>1. /\ Len(job.todo) \in Nat \ {0} /\ DOMAIN job.todo = 1 .. Len(job.todo)
        /\ Len(Tail(job.todo)) = Len(job.todo) - 1
        /\ DOMAIN Tail(job.todo) = 1 .. Len(job.todo) - 1
        /\ \A i \in 1 .. Len(job.todo) - 1 : Tail(job.todo)[i] = job.todo[i + 1]
    BY <1>2, JobFacts, TailFacts
  <2>2. ASSUME NEW i \in DOMAIN Tail(job.todo)
        PROVE  LET c == job.todo[i + 1]
               IN  /\ Tail(job.todo)[i] = c
                   /\ c.k \in {"keep", "adopt"} /\ job.op.op \in Whole => i = Len(Tail(job.todo))
                   /\ c.k = "adopt" => job.op.op = "copy" /\ c.off = scanOff
                   /\ c.k = "arm" => job.op.op = "rows"
                   /\ c.k = "shift" => job.op.op \notin Adding
                   /\ c.k = "size" => job.op.op \in Adding
    <3>1. i \in 1 .. Len(job.todo) - 1 /\ i + 1 \in DOMAIN job.todo
      BY <2>1
    <3>2. i + 1 = Len(job.todo) => i = Len(Tail(job.todo))
      BY <3>1, <2>1
    <3> QED BY <3>1, <3>2, <2>1 DEF TodoOK
  <2>3. ASSUME NEW i \in DOMAIN Tail(job.todo) PROVE scanOff' = scanOff \/ job.op.op # "copy"
    <3>1. Tail(job.todo) # <<>>
      BY <2>1
    <3> QED BY <3>1, <1>2
  <2> HIDE DEF TodoOK
  <2>4. job'.pc = "undo" => job'.todo = <<>>
    BY <1>2
  <2> QED BY <1>2, <2>2, <2>3, <2>4 DEF TodoOK, SameCall
<1> QED BY <1>1, <1>2

\* The last step of a sequence is that of its tail, and of what is put before it.
LEMMA LastOfTail ==
    ASSUME NEW S, NEW q \in Seq(S), Len(q) > 1
    PROVE  Tail(q) # <<>> /\ Tail(q)[Len(Tail(q))] = q[Len(q)]
<1>1. q # <<>> /\ Len(q) \in Nat
  OBVIOUS
<1>2. Len(q) - 1 \in 1 .. Len(q) - 1 /\ (Len(q) - 1) + 1 = Len(q)
  BY <1>1
<1>3. Len(Tail(q)) = Len(q) - 1 /\ Tail(q)[Len(q) - 1] = q[(Len(q) - 1) + 1]
  BY <1>1, <1>2, TailFacts
<1>4. Tail(q) # <<>>
  <2>1. Len(Tail(q)) # 0
    BY <1>1, <1>3
  <2>2. Len(<<>>) = 0
    OBVIOUS
  <2> QED BY <2>1, <2>2, Zenon
<1>5. Tail(q)[Len(Tail(q))] = q[Len(q)]
  BY <1>2, <1>3
<1> QED BY <1>4, <1>5

\* What a rollback ends with is not changed by what is put before it.
LEMMA LastOfConcat ==
    ASSUME NEW S, NEW q \in Seq(S), NEW b \in Seq(S), q # <<>>
    PROVE  b \o q # <<>> /\ (b \o q)[Len(b \o q)] = q[Len(q)]
<1>1. /\ b \o q \in Seq(S) /\ Len(b \o q) = Len(b) + Len(q) /\ Len(b) \in Nat
      /\ Len(q) \in Nat \ {0}
  BY ConcatProperties, TailFacts
<1>2. (b \o q)[Len(b) + Len(q)] = q[Len(q)]
  <2>1. Len(b) + Len(q) \in 1 .. Len(b) + Len(q) /\ ~(Len(b) + Len(q) <= Len(b))
        /\ (Len(b) + Len(q)) - Len(b) = Len(q)
    BY <1>1
  <2> QED BY <2>1, ConcatProperties
<1> QED BY <1>1, <1>2

\* The window stays right where a scan reads it: a structural replacement keeps the step that
\* drops it at the end of its rollback.
LEMMA WindowStep ==
    ASSUME HandleTypeOK, Lists, WindowOK, NEW K, Pending(K), ~Idle', SameCall,
           full' = full \/ full' = TRUE, job'.pc = job.pc \/ job'.pc = "undo",
           \/ job.op.op # "structure" \/ job'.undo = job.undo
           \/ \E b \in Seq(UndoSteps(Limit)) : job'.undo = b \o job.undo
           \/ job.pc = "undo" /\ job'.undo = Tail(job.undo) /\ Head(Queue).k # "unload"
    PROVE  WindowOK'
<1>1. /\ ~Idle /\ job.undo \in Seq(UndoSteps(Limit)) /\ job.pc \in {"run", "undo"}
      /\ job.pc = "undo" => job.undo # <<>> /\ Head(Queue) = job.undo[1]
  BY QueueFacts, JobFacts
<1>2. ~(Idle' /\ ~full') /\ job'.pc # "scan"
  BY <1>1
<1>3. ~(job'.pc = "undo" /\ job'.op.op # "structure" /\ ~full')
  <2>1. job.op.op # "structure" => full
    BY <1>1 DEF WindowOK, Lists
  <2> QED BY <2>1 DEF SameCall
<1>4. ASSUME job.op.op = "structure", ~job.full
      PROVE  job'.undo # <<>> /\ job'.undo[Len(job'.undo)].k = "unload"
  <2>1. job.undo # <<>> /\ job.undo[Len(job.undo)].k = "unload"
    BY <1>1, <1>4 DEF WindowOK
  <2>2. CASE job'.undo = job.undo
    BY <2>1, <2>2
  <2>3. CASE \E b \in Seq(UndoSteps(Limit)) : job'.undo = b \o job.undo
    BY <2>1, <2>3, <1>1, LastOfConcat
  <2>4. CASE job.pc = "undo" /\ job'.undo = Tail(job.undo) /\ Head(Queue).k # "unload"
    <3>1. Len(job.undo) \in Nat \ {0} /\ Len(job.undo) # 1
      BY <1>1, <2>1, <2>4, TailFacts
    <3> QED BY <3>1, <1>1, <2>1, <2>4, LastOfTail
  <2> QED BY <1>4, <2>2, <2>3, <2>4
<1> QED BY <1>2, <1>3, <1>4 DEF WindowOK, SameCall

\* An append or a copy keeps its rollback while it runs.
LEMMA AddingStep ==
    ASSUME AddingOK, ~Idle, SameCall, job.pc = "run", job'.pc \in {"run", "undo"},
           job'.undo = job.undo \/ job.op.op \notin Adding
    PROVE  AddingOK'
BY DEF AddingOK, SameCall, SizeCall

\* The rollback of an append or a copy is one setSize.
LEMMA AddingUndo ==
    ASSUME HandleTypeOK, Lists, AddingOK, NEW K, Pending(K), job.pc = "undo", job.op.op \in Adding
    PROVE  /\ Head(Queue) = [k |-> "size", n |-> job.was.size] /\ Tail(job.undo) = <<>>
           /\ "size" \in K /\ Limit = job.was.size
<1>1. ~Idle /\ job.undo # <<>> /\ Queue = job.undo /\ Head(Queue).k \in K
  BY QueueFacts
<1>2. job.undo = SizeCall(job.was.size)
  BY <1>1 DEF AddingOK
<1>3. Limit = job.was.size
  BY <1>1 DEF Limit, Adding
<1> QED BY <1>1, <1>2, <1>3 DEF SizeCall

\* The tail of a queue whose shifts are in order.
LEMMA ShiftsOfTail ==
    ASSUME NEW S, NEW q \in Seq(S), q # <<>>
    PROVE  /\ \A i \in Shifts(Tail(q)) : /\ i \in Nat \ {0} /\ i + 1 \in Shifts(q) /\ 1 < i + 1
                                         /\ Tail(q)[i] = q[i + 1]
           /\ \A i \in Shifts(q) : i \in Nat \ {0} /\ (i # 1 => i - 1 \in Shifts(Tail(q)))
           /\ q[1].k = "shift" <=> 1 \in Shifts(q)
<1>1. /\ Len(q) \in Nat \ {0} /\ DOMAIN q = 1 .. Len(q) /\ DOMAIN Tail(q) = 1 .. Len(q) - 1
      /\ \A i \in 1 .. Len(q) - 1 : Tail(q)[i] = q[i + 1]
  BY TailFacts
<1>2. ASSUME NEW i \in Shifts(Tail(q))
      PROVE  i \in Nat \ {0} /\ i + 1 \in Shifts(q) /\ 1 < i + 1 /\ Tail(q)[i] = q[i + 1]
  BY <1>1 DEF Shifts
<1>3. ASSUME NEW i \in Shifts(q)
      PROVE  i \in Nat \ {0} /\ (i # 1 => i - 1 \in Shifts(Tail(q)))
  <2>1. i \in 1 .. Len(q) /\ q[i].k = "shift"
    BY <1>1 DEF Shifts
  <2>2. i # 1 => i - 1 \in 1 .. Len(q) - 1 /\ (i - 1) + 1 = i
    BY <2>1, <1>1
  <2> QED BY <2>1, <2>2, <1>1 DEF Shifts
<1>4. q[1].k = "shift" <=> 1 \in Shifts(q)
  BY <1>1 DEF Shifts
<1> QED BY <1>2, <1>3, <1>4

\* The shifts of a rollback stay in order when its first step is done.
LEMMA UndoTail ==
    ASSUME NEW F \in Nat, NEW q \in Seq(UndoSteps(F)), q # <<>>,
           NEW size \in Int, NEW size2 \in Int, UndoOrder(q, size),
           \/ size <= size2 \/ q[1].k = "size"
           \/ q[1].k = "shift" /\ Bottom(q[1]) <= size2
    PROVE  UndoOrder(Tail(q), size2)
<1>1. ASSUME NEW j \in Shifts(Tail(q))
      PROVE  /\ Tail(q)[j].from <= size2
             /\ \A i \in 1 .. j - 1 :
                   /\ Tail(q)[i].k # "size"
                   /\ Tail(q)[i].k = "shift" => Tail(q)[j].from <= Bottom(Tail(q)[i])
  <2>1. /\ j \in Nat \ {0} /\ j + 1 \in Shifts(q) /\ Tail(q)[j] = q[j + 1]
    BY ShiftsOfTail
  <2>2. /\ q[j + 1].from <= size
        /\ \A i \in 1 .. j :
              /\ q[i].k # "size"
              /\ q[i].k = "shift" => q[j + 1].from <= Bottom(q[i])
    <3>1. (j + 1) - 1 = j
      BY <2>1
    <3> QED BY <2>1, <3>1 DEF UndoOrder
  <2>3. Len(q) \in Nat /\ j + 1 \in 1 .. Len(q) /\ q[j + 1] \in UndoSteps(F) /\ q[j + 1].k = "shift"
        /\ q[1] \in UndoSteps(F)
    BY <2>1, TailFacts DEF Shifts
  <2>4. q[j + 1].from \in Nat
    BY <2>3, UndoKinds
  <2>5. q[1].k # "size" /\ (q[1].k = "shift" => q[j + 1].from <= Bottom(q[1]))
    <3>1. 1 \in 1 .. j
      BY <2>1
    <3> QED BY <3>1, <2>2
  <2>6. q[1].k = "shift" => Bottom(q[1]) \in Int
    BY <2>3, UndoKinds DEF Bottom, Smaller
  <2>7. q[j + 1].from <= size2
    BY <2>2, <2>4, <2>5, <2>6
  <2>8. ASSUME NEW i \in 1 .. j - 1
        PROVE  /\ Tail(q)[i].k # "size"
               /\ Tail(q)[i].k = "shift" => Tail(q)[j].from <= Bottom(Tail(q)[i])
    <3>1. i + 1 \in 1 .. j /\ i \in 1 .. Len(q) - 1
      BY <2>1, <2>3
    <3>2. Tail(q)[i] = q[i + 1]
      BY <3>1, TailFacts
    <3> QED BY <3>1, <3>2, <2>1, <2>2
  <2> QED BY <2>1, <2>7, <2>8
<1> QED BY <1>1 DEF UndoOrder

\* So do those of a call, and what is to come lies behind where the one done has put the tail.
LEMMA TodoTail ==
    ASSUME NEW F \in Nat, NEW q \in Seq(Steps(F)), q # <<>>,
           NEW size \in Int, NEW size2 \in Int, TodoOrder(q, size),
           \/ q[1].k # "shift" /\ size <= size2
           \/ q[1].k = "shift" /\ size2 = size + q[1].delta
    PROVE  /\ TodoOrder(Tail(q), size2)
           /\ q[1].k = "shift" =>
                \A j \in Shifts(Tail(q)) : q[1].from + q[1].delta <= Bottom(Tail(q)[j])
<1> DEFINE r == Tail(q)
<1>1. /\ \A i \in Shifts(r) : /\ i \in Nat \ {0} /\ i + 1 \in Shifts(q) /\ 1 < i + 1
                              /\ r[i] = q[i + 1]
      /\ \A i \in Shifts(q) : i \in Nat \ {0} /\ (i # 1 => i - 1 \in Shifts(r))
      /\ q[1].k = "shift" <=> 1 \in Shifts(q)
  BY ShiftsOfTail
<1>2. \A i \in Shifts(q) : q[i].from \in Nat /\ q[i].delta \in Int
  <2>1. ASSUME NEW i \in Shifts(q) PROVE q[i].from \in Nat /\ q[i].delta \in Int
    <3>1. q[i] \in Steps(F) /\ q[i].k = "shift"
      BY DEF Shifts
    <3> QED BY <3>1, StepKinds, ShiftFields
  <2> QED BY <2>1
<1> HIDE DEF r
<1>3. CASE q[1].k # "shift" /\ size <= size2
  <2>0. 1 \notin Shifts(q)
    BY <1>1, <1>3
  <2>1. ASSUME NEW i \in Shifts(r), \A j \in Shifts(r) : i <= j PROVE r[i].from <= size2
    <3>1. \A j \in Shifts(q) : i + 1 <= j
      BY <1>1, <2>0, <2>1
    <3>2. q[i + 1].from <= size
      BY <3>1, <1>1 DEF TodoOrder
    <3> QED BY <3>2, <1>1, <1>2, <1>3
  <2>2. ASSUME NEW i \in Shifts(r), NEW j \in Shifts(r), i < j
        PROVE  /\ r[j].from <= size2 + r[i].delta /\ r[i].from + r[i].delta <= Bottom(r[j])
               /\ Shifts(r) = {i, j}
    <3>1. i + 1 \in Shifts(q) /\ j + 1 \in Shifts(q) /\ i + 1 < j + 1
      BY <1>1, <2>2
    <3>2. /\ q[j + 1].from <= size + q[i + 1].delta
          /\ q[i + 1].from + q[i + 1].delta <= Bottom(q[j + 1])
          /\ Shifts(q) = {i + 1, j + 1}
      BY <3>1 DEF TodoOrder
    <3>3. \A m \in Shifts(r) : m = i \/ m = j
      BY <3>2, <1>1
    <3>4. Shifts(r) = {i, j}
      BY <3>3, <2>2
    <3>5. r[i] = q[i + 1] /\ r[j] = q[j + 1]
      BY <1>1
    <3>6. r[j].from \in Nat /\ r[i].delta \in Int
      BY <3>1, <3>5, <1>2
    <3>7. r[j].from <= size2 + r[i].delta
      BY <3>2, <3>5, <3>6, <1>3
    <3> QED BY <3>2, <3>4, <3>5, <3>7
  <2> QED BY <1>3, <2>1, <2>2 DEF TodoOrder, r
<1>4. CASE q[1].k = "shift" /\ size2 = size + q[1].delta
  <2>0. 1 \in Shifts(q)
    BY <1>1, <1>4
  <2>1. ASSUME NEW j \in Shifts(r)
        PROVE  /\ r[j].from <= size2 /\ q[1].from + q[1].delta <= Bottom(r[j])
               /\ Shifts(q) = {1, j + 1}
    <3>1. j + 1 \in Shifts(q) /\ 1 < j + 1
      BY <1>1
    <3>2. /\ q[j + 1].from <= size + q[1].delta
          /\ q[1].from + q[1].delta <= Bottom(q[j + 1]) /\ Shifts(q) = {1, j + 1}
      BY <2>0, <3>1 DEF TodoOrder
    <3> QED BY <3>2, <1>1, <1>4
  <2>2. \A i, j \in Shifts(r) : ~(i < j)
    <3>1. ASSUME NEW i \in Shifts(r), NEW j \in Shifts(r), i < j PROVE FALSE
      <4>1. Shifts(q) = {1, j + 1} /\ i + 1 \in Shifts(q) /\ i \in Nat \ {0} /\ j \in Nat
        BY <2>1, <1>1
      <4> QED BY <4>1, <3>1
    <3> QED BY <3>1
  <2> QED BY <1>4, <2>1, <2>2 DEF TodoOrder, r
<1> QED BY <1>3, <1>4

\* Outside a shift the device is as long as it looks.
LEMMA NotShifting ==
    ASSUME HandleTypeOK, NEW K, Pending(K), "shift" \notin K
    PROVE  sh.pc = "idle" /\ Base = dev.size /\ (sh' = sh => Base' = dev'.size)
<1>1. sh.pc = "idle"
  BY DEF HandleTypeOK, Pending
<1> QED BY <1>1 DEF Base

\* The types, after a step outside a shift.
LEMMA TypeStep ==
    ASSUME HandleTypeOK, sh.pc = "idle", sh' = sh, IsDevice(dev'), faults' \in Nat,
           job' = NoJob \/ job' \in Jobs(Limit)',
           hdus' \in Seq(HduRec), chdu' \in Nat, scanOff' \in Nat, full' \in BOOLEAN,
           win'.off \in Nat, win'.size \in Int, edits' \in Nat, damaged' \in BOOLEAN
    PROVE  HandleTypeOK'
<1>1. SP!TypeOK' /\ SP!LoopInv'
  BY NoShiftInv DEF HandleTypeOK
<1>2. sh'.pc = "idle"
  OBVIOUS
<1> QED BY <1>1, <1>2 DEF HandleTypeOK

\* The cells before the limit, after a step that leaves them alone.
LEMMA KeptStep ==
    ASSUME Kept(Limit), Limit' = Limit, SameCall, Limit <= dev'.size,
           \A i \in 0 .. Limit - 1 : dev'.at[i] = dev.at[i]
    PROVE  Kept(Limit)'
BY DEF Kept, SameCall

\* A list of steps without a shift is in order.
LEMMA NoShiftsOrdered ==
    ASSUME NEW q, NEW size, Shifts(q) = {}
    PROVE  TodoOrder(q, size) /\ UndoOrder(q, size)
BY DEF TodoOrder, UndoOrder

\* Lists of steps without a shift.
LEMMA EmptyShifts == Shifts(<<>>) = {} /\ \A n : Shifts(SizeCall(n)) = {}
BY DEF Shifts, SizeCall

\* Every shift to come starts inside the file, after a step of the call that is no shift.
LEMMA ReachRun ==
    ASSUME Good, NEW K, Pending(K), "shift" \notin K, job.pc = "run", sh' = sh, SameCall, ~Idle',
           Limit' = Limit, job'.todo \in {Tail(job.todo), <<>>},
           job'.undo = job.undo \/ Shifts(job'.undo) = {},
           dev'.size \in Nat, dev.size <= dev'.size \/ job.op.op \in Adding
    PROVE  Reach'
<1>1. /\ ~Idle /\ job.todo # <<>> /\ Queue = job.todo /\ Head(Queue) = job.todo[1]
      /\ job.todo[1].k # "shift"
  BY QueueFacts DEF Good
<1>2. /\ job.todo \in Seq(Steps(Limit)) /\ job.undo \in Seq(UndoSteps(Limit)) /\ dev.size \in Nat
  BY <1>1, JobFacts DEF Good
<1>3. Base = dev.size /\ Base' = dev'.size /\ Limit \in Nat
  BY NotShifting, LimitFacts DEF Good
<1>4. CASE job.op.op \in Adding
  <2>1. Shifts(job.todo) = {}
    BY <1>1, <1>4 DEF Good, TodoOK, Shifts
  <2>2. Shifts(Tail(job.todo)) = {}
    BY <2>1, <1>1, <1>2, ShiftsOfTail
  <2>3. job.undo = SizeCall(job.was.size)
    BY <1>1, <1>4 DEF Good, AddingOK
  <2>4. Shifts(job'.todo) = {} /\ Shifts(job'.undo) = {}
    BY <2>2, <2>3, EmptyShifts
  <2> QED BY <2>4, NoShiftsOrdered DEF Reach
<1>5. CASE job.op.op \notin Adding
  <2> SUFFICES ASSUME Limit > 0
               PROVE  /\ TodoOrder(job'.todo, dev'.size) /\ UndoOrder(job'.undo, dev'.size)
                      /\ \A i \in Shifts(job'.todo), j \in Shifts(job'.undo) :
                            job'.undo[j].from <= Bottom(job'.todo[i])
    BY <1>3 DEF Reach, Shifts, TodoOrder, UndoOrder, Bottom, Smaller
  <2>1. /\ TodoOrder(job.todo, dev.size) /\ UndoOrder(job.undo, dev.size)
        /\ \A i \in Shifts(job.todo), j \in Shifts(job.undo) :
              job.undo[j].from <= Bottom(job.todo[i])
    BY <1>1, <1>3 DEF Good, Reach
  <2>2. TodoOrder(Tail(job.todo), dev'.size)
    BY <1>1, <1>2, <1>3, <1>5, <2>1, TodoTail
  <2>3. TodoOrder(job'.todo, dev'.size)
    BY <2>2, EmptyShifts, NoShiftsOrdered
  <2>4. UndoOrder(job'.undo, dev'.size)
    <3>1. CASE job'.undo = job.undo
      <4>1. ASSUME NEW j \in Shifts(job.undo) PROVE job.undo[j].from <= dev'.size
        <5>1. job.undo[j].from \in Nat
          BY <1>2, <1>3, UndoKinds DEF Shifts
        <5>2. job.undo[j].from <= dev.size
          BY <2>1 DEF UndoOrder
        <5> QED BY <5>1, <5>2, <1>2, <1>5
      <4> QED BY <3>1, <4>1, <2>1 DEF UndoOrder
    <3>2. CASE Shifts(job'.undo) = {}
      BY <3>2, NoShiftsOrdered
    <3> QED BY <3>1, <3>2
  <2>5. ASSUME NEW i \in Shifts(job'.todo), NEW j \in Shifts(job'.undo)
        PROVE  job'.undo[j].from <= Bottom(job'.todo[i])
    <3>1. job'.todo = Tail(job.todo) /\ job'.undo = job.undo
      BY EmptyShifts
    <3>2. i + 1 \in Shifts(job.todo) /\ job'.todo[i] = job.todo[i + 1]
      BY <3>1, <1>1, <1>2, ShiftsOfTail
    <3> QED BY <3>1, <3>2, <2>1
  <2> QED BY <2>3, <2>4, <2>5
<1> QED BY <1>4, <1>5

\* The same, after a step of the rollback that is no shift.
LEMMA ReachUndo ==
    ASSUME Good, NEW K, Pending(K), "shift" \notin K, job.pc = "undo", sh' = sh, SameCall, ~Idle',
           Limit' = Limit, job'.todo = job.todo, job'.undo = Tail(job.undo),
           dev'.size \in Nat, dev.size <= dev'.size \/ Head(Queue).k = "size"
    PROVE  Reach'
<1>1. /\ ~Idle /\ job.undo # <<>> /\ Queue = job.undo /\ Head(Queue) = job.undo[1]
  BY QueueFacts DEF Good
<1>2. job.undo \in Seq(UndoSteps(Limit)) /\ dev.size \in Nat
  BY <1>1, JobFacts DEF Good
<1>3. Base = dev.size /\ Base' = dev'.size /\ Limit \in Nat
  BY NotShifting, LimitFacts DEF Good
<1>4. job'.todo = <<>>
  BY <1>1 DEF Good, TodoOK
<1>5. Limit > 0 => UndoOrder(job.undo, dev.size)
  BY <1>1, <1>3 DEF Good, Reach
<1>6. Limit > 0 => UndoOrder(Tail(job.undo), dev'.size)
  <2>1. /\ dev.size \in Int /\ dev'.size \in Int
        /\ dev.size <= dev'.size \/ job.undo[1].k = "size"
    BY <1>1, <1>2
  <2> QED BY <1>1, <1>2, <1>3, <1>5, <2>1, UndoTail
<1>7. TodoOrder(<<>>, dev'.size) /\ Shifts(<<>>) = {}
  BY EmptyShifts, NoShiftsOrdered
<1> QED BY <1>3, <1>4, <1>6, <1>7 DEF Reach

-----------------------------------------------------------------------------
(* The steps of a call: device calls.                                       *)

\* A pending step that is no shift.
LEMMA CallFacts ==
    ASSUME HandleTypeOK, Lists, NEW K, Pending(K)
    PROVE  LET c == Head(Queue)
           IN  /\ c.k = "write" => /\ c.off \in Nat /\ c.off >= Limit /\ c.n \in Nat \ {0}
                                   /\ \A i \in 0 .. c.n - 1 : c.cells[i] \in Cell
               /\ c.k = "size" => c.n \in Nat /\ c.n >= Limit
<1>1. Limit \in Nat
  BY LimitFacts
<1>2. Head(Queue) \in Steps(Limit) \/ Head(Queue) \in UndoSteps(Limit)
  BY QueueFacts
<1> QED BY <1>1, <1>2, StepKinds, UndoKinds

\* The call goes on with its next step, or gives up.
LEMMA PopFacts ==
    ASSUME HandleTypeOK, Lists, NEW K, Pending(K),
           job' = Popped \/ job' = GiveUp
    PROVE  /\ ~Idle /\ ~Idle' /\ SameCall /\ Limit' = Limit /\ job' \in Jobs(Limit)'
           /\ job.pc = "run" =>
                /\ job'.undo = job.undo /\ job.todo # <<>>
                /\ \/ job'.pc = "run" /\ job'.todo = Tail(job.todo) /\ job' = Popped
                   \/ job'.pc = "undo" /\ job'.todo = <<>> /\ job' = GiveUp
           /\ job.pc = "undo" =>
                /\ job'.pc = "undo" /\ job'.todo = job.todo /\ job'.undo = Tail(job.undo)
                /\ job.undo # <<>> /\ (job' = GiveUp => job'.torn)
           /\ job.pc \in {"run", "undo"} /\ job'.pc \in {"run", "undo"}
<1>1. /\ ~Idle /\ job.pc \in {"run", "undo"}
      /\ job.pc = "run" => job.todo # <<>>
      /\ job.pc = "undo" => job.undo # <<>>
  BY QueueFacts
<1>2. /\ job.todo \in Seq(Steps(Limit)) /\ job.undo \in Seq(UndoSteps(Limit))
      /\ job.torn \in BOOLEAN /\ job.ok \in BOOLEAN /\ <<>> \in Seq(Steps(Limit))
  BY <1>1, JobFacts
<1>3. /\ job.pc = "run" => Tail(job.todo) \in Seq(Steps(Limit))
      /\ job.pc = "undo" => Tail(job.undo) \in Seq(UndoSteps(Limit))
  BY <1>1, <1>2, TailFacts
<1>4. CASE job.pc = "run"
  <2>1. CASE job' = Popped
    <3>1. job' = Carried("run", Tail(job.todo), job.undo, job.torn, job.ok)
      BY <1>1, <1>4, <2>1, JobForms
    <3> QED BY <1>1, <1>2, <1>3, <1>4, <2>1, <3>1, CarriedFacts
  <2>2. CASE job' = GiveUp
    <3>1. job' = Carried("undo", <<>>, job.undo, job.torn, job.ok)
      BY <1>1, <1>4, <2>2, JobForms
    <3> QED BY <1>1, <1>2, <1>4, <2>2, <3>1, CarriedFacts
  <2> QED BY <2>1, <2>2
<1>5. CASE job.pc = "undo"
  <2>1. \E torn \in BOOLEAN : /\ job' = Carried("undo", job.todo, Tail(job.undo), torn, job.ok)
                              /\ job' = GiveUp => torn = TRUE
    <3>1. CASE job' = GiveUp
      BY <1>1, <1>5, <3>1, JobForms
    <3>2. CASE job' # GiveUp
      BY <1>1, <1>2, <1>5, <3>2, JobForms
    <3> QED BY <3>1, <3>2
  <2>2. PICK torn \in BOOLEAN : /\ job' = Carried("undo", job.todo, Tail(job.undo), torn, job.ok)
                                /\ job' = GiveUp => torn = TRUE
    BY <2>1
  <2> QED BY <1>1, <1>2, <1>3, <1>5, <2>2, CarriedFacts
<1> QED BY <1>1, <1>4, <1>5

\* What a step on the device or on nothing keeps.
LEMMA PopStep ==
    ASSUME Good, NEW K, Pending(K), "shift" \notin K,
           job' = Popped \/ job' = GiveUp, mem' = mem, sh' = sh, faults' \in Nat, IsDevice(dev'),
           win'.off \in Nat, win'.size \in Int, edits' = edits, damaged' = damaged,
           Limit <= dev'.size, \A i \in 0 .. Limit - 1 : dev'.at[i] = dev.at[i],
           \/ dev.size <= dev'.size
           \/ Head(Queue).k = "size" /\ (job.pc = "run" => job.op.op \in Adding)
    PROVE  /\ HandleTypeOK' /\ Lists' /\ TodoOK' /\ Reach' /\ Kept(Limit)'
           /\ "unload" \notin K => WindowOK'
           /\ job.pc = "run" => AddingOK'
<1>0. HandleTypeOK /\ Lists
  BY DEF Good
<1>1. /\ ~Idle /\ ~Idle' /\ SameCall /\ Limit' = Limit /\ job' \in Jobs(Limit)'
      /\ job.pc = "run" =>
           /\ job'.undo = job.undo /\ job.todo # <<>>
           /\ \/ job'.pc = "run" /\ job'.todo = Tail(job.todo)
              \/ job'.pc = "undo" /\ job'.todo = <<>>
      /\ job.pc = "undo" =>
           job'.pc = "undo" /\ job'.todo = job.todo /\ job'.undo = Tail(job.undo)
      /\ job.pc \in {"run", "undo"} /\ job'.pc \in {"run", "undo"}
  BY <1>0, PopFacts
<1>2. hdus' = hdus /\ chdu' = chdu /\ scanOff' = scanOff /\ full' = full
  BY DEF mem
<1>3. sh.pc = "idle"
  BY <1>0, NotShifting
<1>4. HandleTypeOK'
  BY <1>0, <1>1, <1>2, <1>3, TypeStep DEF HandleTypeOK
<1>5. Lists'
  <2>1. job.pc = "run" => full /\ job.op.op # "select"
    BY <1>0, <1>1 DEF Lists
  <2> QED BY <1>0, <1>1, <2>1, ListsStep
<1>6. TodoOK'
  <2>1. job.pc = "undo" => job.todo = <<>>
    BY <1>1 DEF Good, TodoOK
  <2> QED BY <1>0, <1>1, <1>2, <2>1, TodoStep DEF Good
<1>7. ASSUME "unload" \notin K PROVE WindowOK'
  <2>1. Head(Queue).k # "unload"
    BY <1>7 DEF Pending
  <2> QED BY <1>0, <1>1, <1>2, <2>1, WindowStep DEF Good
<1>8. Reach'
  <2>1. dev'.size \in Nat
    BY DEF IsDevice
  <2>2. CASE job.pc = "run"
    BY <1>1, <2>1, <2>2, ReachRun
  <2>3. CASE job.pc = "undo"
    BY <1>1, <2>1, <2>3, ReachUndo
  <2> QED BY <1>1, <2>2, <2>3
<1>9. Kept(Limit)'
  BY <1>1, KeptStep DEF Good
<1>10. job.pc = "run" => AddingOK'
  BY <1>1, AddingStep DEF Good
<1> QED BY <1>4, <1>5, <1>6, <1>7, <1>8, <1>9, <1>10

\* A call on the device: writeAll or setSize.
LEMMA DeviceCallStep ==
    ASSUME Good, DeviceCall
    PROVE  Good'
<1> DEFINE c == Head(Queue) K == {"write", "size"}
<1>0. HandleTypeOK /\ Lists /\ Limit \in Nat /\ Pending(K)
  BY LimitFacts DEF Good, DeviceCall
<1>1. /\ c.k \in K
      /\ c.k = "write" => /\ c.off \in Nat /\ c.off >= Limit /\ c.n \in Nat \ {0}
                          /\ \A i \in 0 .. c.n - 1 : c.cells[i] \in Cell
      /\ c.k = "size" => c.n \in Nat /\ c.n >= Limit
  BY <1>0, CallFacts, QueueFacts
<1>2. /\ dev' = IF c.k = "size" THEN Resized(dev, c.n) ELSE Written(dev, c.off, c.n, c.cells)
      /\ job' = Popped /\ mem' = mem /\ sh' = sh /\ faults' = faults /\ win' = win
      /\ edits' = edits /\ damaged' = damaged
  BY DEF DeviceCall
<1>3. /\ ~Idle /\ ~Idle' /\ SameCall /\ Limit' = Limit
      /\ job.pc = "undo" => job'.pc = "undo" /\ job'.undo = Tail(job.undo)
      /\ job.pc \in {"run", "undo"}
  BY <1>0, <1>2, PopFacts
<1>4. IsDevice(dev) /\ dev.size \in Nat /\ Kept(Limit) /\ Limit <= dev.size
  BY <1>0, <1>3, DevFacts DEF Good, Kept
<1>5. /\ IsDevice(dev') /\ Limit <= dev'.size /\ \A i \in 0 .. Limit - 1 : dev'.at[i] = dev.at[i]
      /\ c.k = "write" => dev.size <= dev'.size
      /\ c.k = "size" => dev'.size = c.n
  <2>1. CASE c.k = "size"
    <3>1. /\ IsDevice(dev') /\ dev'.size = c.n
          /\ \A i \in 0 .. c.n - 1 : i < dev.size => dev'.at[i] = dev.at[i]
      BY <1>1, <1>2, <1>4, <2>1, ResizedDev
    <3> QED BY <1>0, <1>1, <1>4, <2>1, <3>1
  <2>2. CASE c.k = "write"
    <3>0. dev' = Written(dev, c.off, c.n, c.cells)
      BY <1>2, <2>2
    <3>1. /\ IsDevice(dev') /\ dev.size <= dev'.size
          /\ \A i \in 0 .. dev.size - 1 : i < c.off => dev'.at[i] = dev.at[i]
      BY <1>1, <1>4, <2>2, <3>0, WrittenDev
    <3>2. dev'.size \in Nat
      BY <3>1 DEF IsDevice
    <3> QED BY <1>0, <1>1, <1>4, <2>2, <3>1, <3>2
  <2> QED BY <1>1, <2>1, <2>2
<1>6. c.k = "size" /\ job.pc = "run" => job.op.op \in Adding
  <2>1. ASSUME c.k = "size", job.pc = "run" PROVE job.op.op \in Adding
    <3>1. job.todo # <<>> /\ c = job.todo[1] /\ 1 \in DOMAIN job.todo
      BY <1>0, <1>3, <2>1, QueueFacts, JobFacts, TailFacts
    <3> QED BY <1>3, <2>1, <3>1 DEF Good, TodoOK
  <2> QED BY <2>1
<1>7. /\ HandleTypeOK' /\ Lists' /\ TodoOK' /\ WindowOK' /\ Reach' /\ Kept(Limit)'
      /\ job.pc = "run" => AddingOK'
  <2>1. faults' \in Nat /\ win'.off \in Nat /\ win'.size \in Int
    BY <1>0, <1>2 DEF HandleTypeOK, SP!TypeOK
  <2> QED BY <1>0, <1>1, <1>2, <1>5, <1>6, <2>1, PopStep
<1>8. AddingOK'
  <2>1. ASSUME job.pc = "undo", job.op.op \in Adding
        PROVE  dev' = job.was /\ Tail(job.undo) = <<>>
    <3>1. c = [k |-> "size", n |-> job.was.size] /\ Tail(job.undo) = <<>> /\ Limit = job.was.size
      BY <1>0, <2>1, AddingUndo DEF Good
    <3>2. IsDevice(job.was)
      BY <1>0, <1>3, JobFacts
    <3>3. \A i \in 0 .. dev'.size - 1 : dev'.at[i] = job.was.at[i]
      BY <1>4, <1>5, <3>1 DEF Kept
    <3>4. dev'.size = job.was.size
      BY <1>5, <3>1
    <3> QED BY <1>5, <3>1, <3>2, <3>3, <3>4, SameDevice
  <2>2. CASE job.pc = "run"
    BY <1>7, <2>2
  <2>3. CASE job.pc = "undo"
    BY <1>3, <2>1, <2>3 DEF AddingOK, SameCall
  <2> QED BY <1>3, <2>2, <2>3
<1> QED BY <1>7, <1>8 DEF Good

\* A rollback that gives up a step of an append or a copy is torn.
LEMMA AddingGivesUp ==
    ASSUME Good, NEW K, Pending(K), job' = GiveUp, job.pc = "undo"
    PROVE  AddingOK'
<1>0. HandleTypeOK /\ Lists /\ AddingOK
  BY DEF Good
<1>1. /\ SameCall /\ job'.pc = "undo" /\ job'.undo = Tail(job.undo) /\ job'.torn
  BY <1>0, PopFacts
<1>2. job.op.op \in Adding => Tail(job.undo) = <<>>
  BY <1>0, AddingUndo
<1> QED BY <1>1, <1>2 DEF AddingOK, SameCall

\* A call on the device that fails, part of it written.
LEMMA DeviceFailsStep ==
    ASSUME Good, DeviceFails
    PROVE  Good'
<1> DEFINE c == Head(Queue) K == {"write", "size"}
<1>0. HandleTypeOK /\ Lists /\ Limit \in Nat /\ Pending(K)
  BY LimitFacts DEF Good, DeviceFails
<1>1. /\ c.k \in K
      /\ c.k = "write" => /\ c.off \in Nat /\ c.off >= Limit /\ c.n \in Nat \ {0}
                          /\ \A i \in 0 .. c.n - 1 : c.cells[i] \in Cell
  BY <1>0, CallFacts, QueueFacts
<1>2. /\ \/ dev' = dev
         \/ c.k = "write" /\ \E k \in 0 .. c.n - 1 : dev' = Written(dev, c.off, k, c.cells)
      /\ job' = GiveUp /\ mem' = mem /\ sh' = sh /\ faults' = faults + 1 /\ win' = win
      /\ edits' = edits /\ damaged' = damaged
  BY <1>1 DEF DeviceFails, Fallible
<1>3. ~Idle /\ job.pc \in {"run", "undo"}
  BY <1>0, <1>2, PopFacts
<1>4. IsDevice(dev) /\ dev.size \in Nat /\ Limit <= dev.size
  BY <1>0, <1>3, DevFacts DEF Good, Kept
<1>5. /\ IsDevice(dev') /\ Limit <= dev'.size /\ \A i \in 0 .. Limit - 1 : dev'.at[i] = dev.at[i]
      /\ dev.size <= dev'.size
  <2>1. CASE dev' = dev
    BY <1>4, <2>1
  <2>2. ASSUME c.k = "write", NEW k \in 0 .. c.n - 1, dev' = Written(dev, c.off, k, c.cells)
        PROVE  /\ IsDevice(dev') /\ Limit <= dev'.size
               /\ \A i \in 0 .. Limit - 1 : dev'.at[i] = dev.at[i]
               /\ dev.size <= dev'.size
    <3>0. k \in Nat /\ \A i \in 0 .. k - 1 : c.cells[i] \in Cell
      BY <1>1, <2>2
    <3>1. /\ IsDevice(dev') /\ dev.size <= dev'.size
          /\ \A i \in 0 .. dev.size - 1 : i < c.off => dev'.at[i] = dev.at[i]
      BY <1>1, <1>4, <2>2, <3>0, WrittenDev
    <3>2. dev'.size \in Nat
      BY <3>1 DEF IsDevice
    <3> QED BY <1>0, <1>1, <1>4, <2>2, <3>1, <3>2
  <2> QED BY <1>2, <2>1, <2>2
<1>7. /\ HandleTypeOK' /\ Lists' /\ TodoOK' /\ WindowOK' /\ Reach' /\ Kept(Limit)'
      /\ job.pc = "run" => AddingOK'
  <2>1. faults' \in Nat /\ win'.off \in Nat /\ win'.size \in Int
    BY <1>0, <1>2 DEF HandleTypeOK, SP!TypeOK
  <2> QED BY <1>0, <1>1, <1>2, <1>5, <2>1, PopStep
<1>8. job.pc = "undo" => AddingOK'
  BY <1>0, <1>2, AddingGivesUp
<1> QED BY <1>3, <1>7, <1>8 DEF Good

\* A step that changes neither the device nor the window.
LEMMA QuietStep ==
    ASSUME Good, NEW K, Pending(K), K \cap {"shift", "unload"} = {}, K \cap {"write", "size"} = {},
           job' = Popped \/ job' = GiveUp,
           UNCHANGED <<dev, sh, mem, win, edits, damaged>>, faults' \in Nat
    PROVE  Good'
<1>0. HandleTypeOK /\ Lists /\ Limit \in Nat /\ AddingOK
  BY LimitFacts DEF Good
<1>1. ~Idle /\ job.pc \in {"run", "undo"}
  BY <1>0, PopFacts
<1>2. IsDevice(dev) /\ dev.size \in Nat /\ Limit <= dev.size
  BY <1>0, <1>1, DevFacts DEF Good, Kept
<1>3. /\ HandleTypeOK' /\ Lists' /\ TodoOK' /\ WindowOK' /\ Reach' /\ Kept(Limit)'
      /\ job.pc = "run" => AddingOK'
  <2>1. win'.off \in Nat /\ win'.size \in Int
    BY <1>0 DEF HandleTypeOK
  <2>2. /\ mem' = mem /\ sh' = sh /\ edits' = edits /\ damaged' = damaged /\ dev' = dev
    OBVIOUS
  <2> QED BY <1>0, <1>2, <2>1, <2>2, PopStep
<1>4. job.pc = "undo" => AddingOK'
  <2>1. SUFFICES ASSUME job.pc = "undo" PROVE job.op.op \notin Adding
    <3>1. SameCall
      BY <1>0, PopFacts
    <3> QED BY <3>1 DEF AddingOK, SameCall
  <2> QED BY <1>0, <2>1, AddingUndo
<1> QED BY <1>1, <1>3, <1>4 DEF Good

\* A size that is refused.
LEMMA RejectsStep ==
    ASSUME Good, Rejects
    PROVE  Good'
<1>1. Pending({"invalid", "need"}) /\ (job' = Popped \/ job' = GiveUp)
  BY DEF Rejects
<1>2. faults' \in Nat
  BY DEF Rejects, Good, HandleTypeOK, SP!TypeOK
<1>3. UNCHANGED <<dev, sh, mem, win, edits, damaged>>
  BY DEF Rejects
<1> QED BY <1>1, <1>2, <1>3, QuietStep

\* An allocation or a check that fails.
LEMMA StepFailsStep ==
    ASSUME Good, StepFails
    PROVE  Good'
<1>1. Pending({"fresh", "alloc", "adopt"}) /\ job' = GiveUp
  BY DEF StepFails
<1>2. faults' \in Nat
  BY DEF StepFails, Fallible, Good, HandleTypeOK, SP!TypeOK
<1>3. UNCHANGED <<dev, sh, mem, win, edits, damaged>>
  BY DEF StepFails
<1> QED BY <1>1, <1>2, <1>3, QuietStep

-----------------------------------------------------------------------------
(* The steps of a call: its memory.                                         *)

\* A rollback that a change of rows arms holds no shift.
LEMMA ArmedFacts ==
    ASSUME NEW F \in Nat, NEW q \in Seq(ArmedSteps(F))
    PROVE  q \in Seq(UndoSteps(F)) /\ Shifts(q) = {}
<1>1. ArmedSteps(F) \subseteq UndoSteps(F)
  BY DEF UndoSteps
<1>2. ASSUME NEW c \in ArmedSteps(F) PROVE c.k # "shift"
  <2>1. CASE c \in WriteSteps(F)
    BY <2>1 DEF WriteSteps
  <2>2. CASE c \in SizeSteps(F)
    BY <2>2 DEF SizeSteps
  <2> QED BY <1>2, <2>1, <2>2 DEF ArmedSteps
<1>3. \A i \in DOMAIN q : q[i] \in ArmedSteps(F)
  OBVIOUS
<1> QED BY <1>1, <1>2, <1>3 DEF Shifts

\* A step outside the device: allocations, checks, the window dropped, the rollback armed.
LEMMA StepStep ==
    ASSUME Good, Step
    PROVE  Good'
<1> DEFINE c == Head(Queue) K == {"fresh", "swap", "unload", "arm", "alloc"}
<1>0. HandleTypeOK /\ Lists /\ Limit \in Nat /\ Pending(K) /\ AddingOK /\ TodoOK /\ WindowOK
  BY LimitFacts DEF Good, Step
<1>1. /\ win' = IF c.k \in {"fresh", "swap", "unload"} THEN NoWindow ELSE win
      /\ job' = IF c.k = "arm" THEN [Popped EXCEPT !.undo = c.undo] ELSE Popped
      /\ dev' = dev /\ sh' = sh /\ faults' = faults /\ mem' = mem /\ edits' = edits
      /\ damaged' = damaged
  BY DEF Step
<1>2. /\ c.k \in K /\ ~Idle
      /\ \/ job.pc = "run" /\ job.todo # <<>> /\ c = job.todo[1] /\ c \in Steps(Limit)
         \/ job.pc = "undo" /\ job.undo # <<>> /\ c = job.undo[1] /\ c \in UndoSteps(Limit)
  BY <1>0, QueueFacts
<1> HIDE DEF c
<1>3. IsDevice(dev) /\ dev.size \in Nat /\ Limit <= dev.size /\ Kept(Limit)
  BY <1>0, <1>2, DevFacts DEF Good, Kept
<1>4. win'.off \in Nat /\ win'.size \in Int /\ faults' \in Nat
  BY <1>0, <1>1 DEF HandleTypeOK, SP!TypeOK, NoWindow
<1>5. job.pc = "undo" => c.k = "unload"
  BY <1>0, <1>2, UndoKinds
<1>6. job.pc = "run" => c.k # "unload"
  BY <1>0, <1>2, StepKinds
<1>7. CASE job.pc = "run" /\ c.k # "arm"
  <2>1. Pending({"fresh", "swap", "alloc"}) /\ job' = Popped
    BY <1>0, <1>1, <1>2, <1>6, <1>7 DEF Pending, c
  <2>2. /\ HandleTypeOK' /\ Lists' /\ TodoOK' /\ Reach' /\ Kept(Limit)' /\ WindowOK' /\ AddingOK'
    BY <1>1, <1>3, <1>4, <1>7, <2>1, PopStep
  <2> QED BY <2>2 DEF Good
<1>8. CASE job.pc = "run" /\ c.k = "arm"
  <2>1. /\ job.op.op = "rows" /\ job.op.op \notin Adding
    <3>1. 1 \in DOMAIN job.todo
      BY <1>0, <1>2, <1>8, JobFacts, TailFacts
    <3> QED BY <1>0, <1>2, <1>8, <3>1 DEF TodoOK, Adding
  <2>2. c.undo \in Seq(UndoSteps(Limit)) /\ Shifts(c.undo) = {}
    BY <1>0, <1>2, <1>8, StepKinds, ArmedFacts
  <2>3. job' = Carried("run", Tail(job.todo), c.undo, job.torn, job.ok)
    BY <1>0, <1>1, <1>2, <1>8, JobForms
  <2>4. Tail(job.todo) \in Seq(Steps(Limit)) /\ job.torn \in BOOLEAN /\ job.ok \in BOOLEAN
    BY <1>0, <1>2, <1>8, JobFacts, TailFacts
  <2>5. /\ SameCall /\ Limit' = Limit /\ ~Idle' /\ job' \in Jobs(Limit)'
        /\ job'.pc = "run" /\ job'.todo = Tail(job.todo) /\ job'.undo = c.undo
    <3>1. HandleTypeOK /\ Lists /\ ~Idle
      BY <1>0, <1>2
    <3> QED BY <3>1, <2>2, <2>3, <2>4, CarriedFacts
  <2>6. hdus' = hdus /\ chdu' = chdu /\ scanOff' = scanOff /\ full' = full
    BY <1>1 DEF mem
  <2>7. Pending({"arm"}) /\ job.todo # <<>>
    BY <1>0, <1>2, <1>8 DEF Pending, c
  <2>8. sh.pc = "idle"
    BY <1>0, <2>7, NotShifting
  <2>9. HandleTypeOK'
    BY <1>0, <1>1, <1>3, <1>4, <2>5, <2>6, <2>8, TypeStep DEF HandleTypeOK
  <2>10. Lists'
    <3>1. full /\ job.op.op # "select"
      BY <1>0, <1>2, <1>8 DEF Lists
    <3> QED BY <1>0, <1>1, <1>2, <2>5, <2>7, <3>1, ListsStep
  <2>11. TodoOK'
    BY <1>0, <1>2, <2>5, <2>6, <2>7, TodoStep
  <2>12. WindowOK'
    BY <1>0, <1>8, <2>1, <2>5, <2>6, WindowStep
  <2>13. Reach'
    <3>1. dev'.size \in Nat /\ dev.size <= dev'.size
      BY <1>1, <1>3
    <3>2. "shift" \notin {"arm"} /\ job'.todo \in {Tail(job.todo), <<>>} /\ Shifts(job'.undo) = {}
      BY <2>2, <2>5
    <3> QED BY <1>1, <1>8, <2>5, <2>7, <3>1, <3>2, ReachRun
  <2>14. Kept(Limit)'
    BY <1>1, <1>3, <2>5, KeptStep
  <2>15. AddingOK'
    BY <1>0, <1>2, <1>8, <2>1, <2>5, AddingStep
  <2> QED BY <2>9, <2>10, <2>11, <2>12, <2>13, <2>14, <2>15 DEF Good
<1>9. CASE job.pc = "undo"
  <2>1. Pending({"unload"}) /\ job' = Popped /\ win' = NoWindow
    BY <1>0, <1>1, <1>2, <1>5, <1>9 DEF Pending, c
  <2>2. HandleTypeOK' /\ Lists' /\ TodoOK' /\ Reach' /\ Kept(Limit)'
    BY <1>1, <1>3, <1>4, <2>1, PopStep
  <2>3. /\ SameCall /\ ~Idle' /\ job'.pc = "undo" /\ job'.undo = Tail(job.undo)
    BY <1>0, <1>9, <2>1, PopFacts
  <2>4. AddingOK'
    <3>1. job.op.op \notin Adding
      BY <1>0, <1>9, <2>1, AddingUndo
    <3> QED BY <2>3, <3>1 DEF AddingOK, SameCall
  <2>5. WindowOK'
    <3>1. Fresh(job.scanOff)'
      <4>1. job'.scanOff \in Nat
        BY <1>0, <1>2, <2>3, JobFacts DEF SameCall
      <4> QED BY <2>1, <4>1 DEF Fresh, NoWindow
    <3>2. job.op.op # "structure" => full'
      BY <1>0, <1>1, <1>2, <1>9 DEF WindowOK, mem
    <3>3. ASSUME job.op.op = "structure", ~job.full
          PROVE  Tail(job.undo) = <<>> \/
                 (Tail(job.undo) # <<>> /\ Tail(job.undo)[Len(Tail(job.undo))].k = "unload")
      <4>1. job.undo \in Seq(UndoSteps(Limit)) /\ job.undo[Len(job.undo)].k = "unload"
        BY <1>0, <1>2, <1>9, <3>3, JobFacts DEF WindowOK
      <4>2. Len(job.undo) \in Nat \ {0} /\ Len(Tail(job.undo)) = Len(job.undo) - 1
            /\ Tail(job.undo) \in Seq(UndoSteps(Limit))
        BY <1>2, <1>9, <4>1, TailFacts
      <4>3. CASE Len(job.undo) > 1
        BY <4>1, <4>3, LastOfTail
      <4>4. CASE Len(job.undo) = 1
        BY <4>2, <4>4, EmptySeq
      <4> QED BY <4>2, <4>3, <4>4
    <3> QED BY <2>3, <3>1, <3>2, <3>3 DEF WindowOK, SameCall, Idle
  <2> QED BY <2>2, <2>4, <2>5 DEF Good
<1> QED BY <1>2, <1>7, <1>8, <1>9

\* A call that goes on, its outcome set.
LEMMA PoppedWith ==
    ASSUME HandleTypeOK, Lists, ~Idle, job.pc = "run", job.todo # <<>>, NEW ok \in BOOLEAN,
           job' = [Popped EXCEPT !.ok = ok]
    PROVE  /\ SameCall /\ Limit' = Limit /\ ~Idle' /\ job' \in Jobs(Limit)'
           /\ job'.pc = "run" /\ job'.todo = Tail(job.todo) /\ job'.undo = job.undo
<1>1. /\ Tail(job.todo) \in Seq(Steps(Limit)) /\ job.torn \in BOOLEAN
      /\ job.undo \in Seq(UndoSteps(Limit))
  BY JobFacts, TailFacts
<1>2. job' = Carried("run", Tail(job.todo), job.undo, job.torn, ok)
  BY JobForms
<1> DEFINE todo == Tail(job.todo) undo == job.undo torn == job.torn pc == "run"
<1>3. /\ pc \in {"run", "undo"} /\ todo \in Seq(Steps(Limit)) /\ undo \in Seq(UndoSteps(Limit))
      /\ torn \in BOOLEAN /\ job' = Carried(pc, todo, undo, torn, ok)
  BY <1>1, <1>2
<1> HIDE DEF todo, undo, torn, pc
<1>4. /\ SameCall /\ Limit' = Limit /\ ~Idle' /\ job' \in Jobs(Limit)'
      /\ job'.pc = pc /\ job'.todo = todo /\ job'.undo = undo
  BY <1>3, CarriedFacts
<1> QED BY <1>4 DEF todo, undo, pc

\* A step that replaces the list: for all calls but a change of rows it is the last.
LEMMA MemoryStep ==
    ASSUME Good, NEW K, Pending(K), K \subseteq {"keep", "adopt"}, NEW ok \in BOOLEAN,
           job' = [Popped EXCEPT !.ok = ok],
           hdus' \in Seq(HduRec), chdu' \in Nat, scanOff' \in Nat, full' = TRUE,
           Ordered(hdus', scanOff'), win'.off \in Nat, win'.size \in Int,
           UNCHANGED <<dev, sh, faults, edits, damaged>>
    PROVE  Good'
<1> DEFINE c == Head(Queue)
<1>0. HandleTypeOK /\ Lists /\ Limit \in Nat /\ AddingOK /\ TodoOK /\ WindowOK
  BY LimitFacts DEF Good
<1>2. /\ c.k \in {"keep", "adopt"} /\ ~Idle /\ job.pc = "run" /\ job.todo # <<>>
      /\ c = job.todo[1]
  BY <1>0, QueueFacts, UndoKinds
<1> HIDE DEF c
<1>4. IsDevice(dev) /\ dev.size \in Nat /\ Limit <= dev.size /\ Kept(Limit)
  BY <1>0, <1>2, DevFacts DEF Good, Kept
<1>5. /\ Tail(job.todo) \in Seq(Steps(Limit)) /\ job.torn \in BOOLEAN /\ job.ok \in BOOLEAN
      /\ job.undo \in Seq(UndoSteps(Limit)) /\ job.op \in Ops
      /\ Len(job.todo) \in Nat \ {0} /\ DOMAIN job.todo = 1 .. Len(job.todo)
  BY <1>0, <1>2, JobFacts, TailFacts
<1>7. /\ SameCall /\ Limit' = Limit /\ ~Idle' /\ job' \in Jobs(Limit)'
      /\ job'.pc = "run" /\ job'.todo = Tail(job.todo) /\ job'.undo = job.undo
  BY <1>0, <1>2, PoppedWith
<1>8. job.op.op \in Whole => Tail(job.todo) = <<>>
  <2>1. ASSUME job.op.op \in Whole PROVE Len(Tail(job.todo)) = 0
    <3>0. 1 \in DOMAIN job.todo /\ job.todo[1].k \in {"keep", "adopt"} /\ ~Idle
      BY <1>2, <1>5
    <3>1. 1 = Len(job.todo)
      BY <1>0, <3>0, <2>1 DEF TodoOK
    <3> QED BY <1>0, <1>2, <3>1, JobFacts, TailFacts
  <2> QED BY <1>5, <2>1, EmptySeq
<1>9. sh.pc = "idle"
  BY <1>0, NotShifting
<1>10. HandleTypeOK'
  <2>1. faults' \in Nat /\ edits' \in Nat /\ damaged' \in BOOLEAN
    BY <1>0 DEF HandleTypeOK, SP!TypeOK
  <2> QED BY <1>0, <1>4, <1>7, <1>9, <2>1, TypeStep
<1>11. Lists'
  <2>1. full /\ job.op.op # "select"
    BY <1>0, <1>2 DEF Lists
  <2>2. ListOK(hdus, scanOff, full)'
    BY DEF ListOK, Ordered, NextOff, DataSize, RoundUp
  <2>3. ListOK(job.hdus, job.scanOff, job.full)'
    BY <1>0, <1>2, <1>7 DEF Lists, SameCall, ListOK, Ordered, NextOff, DataSize, RoundUp
  <2>4. job'.op.op \in {"header", "structure", "rows"} => job'.op.n \in DOMAIN job'.hdus
    BY <1>0, <1>2, <1>7 DEF Lists, SameCall
  <2>5. ~(job'.pc = "scan" \/
          (job'.op.op \in Whole /\ (job'.pc = "undo" \/ job'.todo # <<>>)))
    BY <1>7, <1>8 DEF SameCall
  <2> QED BY <1>7, <2>1, <2>2, <2>3, <2>4, <2>5 DEF Lists, SameCall
<1>12. TodoOK'
  <2>1. job.op.op # "copy" \/ Tail(job.todo) = <<>>
    BY <1>8 DEF Whole
  <2> QED BY <1>0, <1>2, <1>7, <2>1, TodoStep
<1>13. WindowOK'
  BY <1>0, <1>7, <1>2, WindowStep
<1>14. Reach'
  <2>1. dev'.size \in Nat /\ dev.size <= dev'.size /\ sh' = sh
    BY <1>4
  <2>2. "shift" \notin K /\ job'.todo \in {Tail(job.todo), <<>>}
    BY <1>7
  <2> QED BY <1>2, <1>7, <2>1, <2>2, ReachRun
<1>15. Kept(Limit)'
  BY <1>4, <1>7, KeptStep
<1>16. AddingOK'
  BY <1>0, <1>2, <1>7, AddingStep
<1> QED BY <1>10, <1>11, <1>12, <1>13, <1>14, <1>15, <1>16 DEF Good

\* The list of a call replaces that of the handle.
LEMMA KeepStep ==
    ASSUME Good, Keep
    PROVE  Good'
<1> DEFINE c == Head(Queue)
<1>0. HandleTypeOK /\ Lists /\ Limit \in Nat /\ Pending({"keep"})
  BY LimitFacts DEF Good, Keep
<1>2. c.k = "keep" /\ ~Idle /\ job.pc = "run" /\ c \in KeepSteps
  BY <1>0, QueueFacts, UndoKinds, StepKinds
<1>1. /\ hdus' = c.us /\ chdu' = c.cur /\ scanOff' = c.scan /\ full' = TRUE
      /\ job' = [Popped EXCEPT !.ok = job.ok \/ c.last]
      /\ UNCHANGED <<dev, sh, faults, win, edits, damaged>>
  <2>1. job' = [Popped EXCEPT !.ok = Popped.ok \/ c.last]
    BY DEF Keep
  <2>3. Popped.ok = job.ok
    BY <1>0, <1>2, JobFacts DEF Popped, Jobs
  <2> QED BY <2>1, <2>3 DEF Keep
<1>3. /\ c.us \in Seq(HduRec) /\ c.cur \in Nat /\ c.scan \in Nat /\ c.last \in BOOLEAN
      /\ Ordered(c.us, c.scan)
  BY <1>2 DEF KeepSteps
<1> HIDE DEF c
<1>4. win'.off \in Nat /\ win'.size \in Int /\ (job.ok \/ c.last) \in BOOLEAN
  BY <1>0, <1>1 DEF HandleTypeOK
<1> QED BY <1>0, <1>1, <1>3, <1>4, MemoryStep

\* Reading cards leaves the window right wherever it was.
LEMMA LoadedFacts ==
    ASSUME IsDevice(dev), NEW off \in Nat
    PROVE  /\ LoadedAt(off).off \in Nat /\ LoadedAt(off).size \in Int
           /\ \A i \in LoadedAt(off).off .. LoadedAt(off).off + LoadedAt(off).size - 1 :
                 i < dev.size /\ LoadedAt(off).at[i] = dev.at[i]
<1> DEFINE al == off - (off % Block)
           n == Smaller(Window, dev.size - al)
<1>1. Block \in Nat \ {0} /\ Window \in Nat /\ dev.size \in Nat
  BY HandleAssumption DEF IsDevice
<1>2. al \in Nat
  <2>1. off % Block \in 0 .. Block - 1 /\ off % Block <= off
    BY <1>1, SMT
  <2> QED BY <2>1, <1>1
<1> HIDE DEF al
<1>3. n \in Int /\ n <= dev.size - al
  BY <1>1, <1>2 DEF Smaller
<1> HIDE DEF n
<1>4. LoadedAt(off) = [off |-> al, size |-> n, at |-> [i \in al .. al + n - 1 |-> dev.at[i]]]
  BY DEF LoadedAt, al, n
<1>5. \A i \in al .. al + n - 1 : i < dev.size
  BY <1>1, <1>2, <1>3
<1> QED BY <1>2, <1>3, <1>4, <1>5

\* Reading through the window leaves it right where it was.
LEMMA ReadFresh ==
    ASSUME HandleTypeOK, NEW start \in Nat, NEW n \in Nat, win' = WindowAfter(start, n), dev' = dev
    PROVE  /\ win'.off \in Nat /\ win'.size \in Int
           /\ \A from \in Nat : Fresh(from) => Fresh(from)'
<1>1. win.off \in Nat /\ win.size \in Int
  BY DEF HandleTypeOK
<1>2. win' = win \/ \E off \in Nat : win' = LoadedAt(off)
  <2>1. Cached(start) => win.off + win.size \in Nat
    BY <1>1 DEF Cached
  <2> QED BY <2>1 DEF WindowAfter
<1>3. CASE win' = win
  BY <1>1, <1>3 DEF Fresh
<1>4. ASSUME NEW off \in Nat, win' = LoadedAt(off)
      PROVE  /\ win'.off \in Nat /\ win'.size \in Int
             /\ \A from \in Nat : Fresh(from)'
  <2>1. /\ win'.off \in Nat /\ win'.size \in Int
        /\ \A i \in win'.off .. win'.off + win'.size - 1 : i < dev.size /\ win'.at[i] = dev.at[i]
    BY <1>4, DevFacts, LoadedFacts
  <2>2. ASSUME NEW from \in Nat, NEW i \in from .. win'.off + win'.size - 1, win'.off <= i
        PROVE  i < dev'.size /\ win'.at[i] = dev'.at[i]
    BY <2>1, <2>2
  <2> QED BY <2>1, <2>2 DEF Fresh
<1> QED BY <1>2, <1>3, <1>4

\* A copy reads the header it has written and registers the HDU.
LEMMA AdoptStep ==
    ASSUME Good, Adopt
    PROVE  Good'
<1> DEFINE c == Head(Queue)
<1>0. HandleTypeOK /\ Lists /\ TodoOK /\ Limit \in Nat /\ Pending({"adopt"})
  BY LimitFacts DEF Good, Adopt
<1>1. /\ c.k = "adopt" /\ ~Idle /\ job.pc = "run" /\ job.todo # <<>> /\ c = job.todo[1]
      /\ 1 \in DOMAIN job.todo
  <2>1. c.k = "adopt" /\ ~Idle /\ job.pc = "run" /\ job.todo # <<>> /\ c = job.todo[1]
    BY <1>0, QueueFacts, UndoKinds
  <2> QED BY <1>0, <2>1, JobFacts, TailFacts
<1>2. c.off = scanOff
  BY <1>0, <1>1 DEF TodoOK
<1>3. /\ \/ \E h \in ParsedAt(scanOff) :
               /\ hdus' = Append(hdus, NewHdu(h, scanOff))
               /\ chdu' = Len(hdus)
               /\ scanOff' = NextOff(NewHdu(h, scanOff))
               /\ full' = TRUE
               /\ win' = WindowAfter(scanOff, Hdr[h].cards)
               /\ job' = [Popped EXCEPT !.ok = TRUE]
         \/ win' = WindowAfter(scanOff, 1) /\ Fail /\ UNCHANGED mem
      /\ UNCHANGED <<dev, sh, faults, edits, damaged>>
  BY <1>2 DEF Adopt
<1> HIDE DEF c
<1>4. hdus \in Seq(HduRec) /\ scanOff \in Nat /\ faults \in Nat /\ Ordered(hdus, scanOff)
  BY <1>0 DEF HandleTypeOK, SP!TypeOK, Lists, ListOK
<1>5. ASSUME NEW h \in ParsedAt(scanOff),
             hdus' = Append(hdus, NewHdu(h, scanOff)), chdu' = Len(hdus),
             scanOff' = NextOff(NewHdu(h, scanOff)), full' = TRUE,
             win' = WindowAfter(scanOff, Hdr[h].cards), job' = [Popped EXCEPT !.ok = TRUE]
      PROVE  Good'
  <2>1. h \in Name /\ Hdr[h].cards \in Nat
    BY <1>5, HdrFacts DEF ParsedAt
  <2>2. /\ hdus' \in Seq(HduRec) /\ chdu' \in Nat /\ scanOff' \in Nat /\ Ordered(hdus', scanOff')
    BY <1>4, <1>5, <2>1, AppendOrdered, NewHduFacts
  <2>3. win'.off \in Nat /\ win'.size \in Int
    BY <1>0, <1>3, <1>4, <1>5, <2>1, ReadFresh
  <2>4. UNCHANGED <<dev, sh, faults, edits, damaged>> /\ {"adopt"} \subseteq {"keep", "adopt"}
    BY <1>3
  <2> QED BY <1>0, <1>5, <2>2, <2>3, <2>4, MemoryStep
<1>6. ASSUME win' = WindowAfter(scanOff, 1), Fail, UNCHANGED mem
      PROVE  Good'
  <2>1. job' = GiveUp
    BY <1>1, <1>6 DEF Fail, GiveUp
  <2>2. /\ win'.off \in Nat /\ win'.size \in Int /\ mem' = mem /\ dev' = dev /\ sh' = sh
        /\ faults' \in Nat /\ edits' = edits /\ damaged' = damaged
    BY <1>0, <1>3, <1>4, <1>6, ReadFresh
  <2>3. IsDevice(dev) /\ dev.size \in Nat /\ Limit <= dev.size /\ Kept(Limit)
    BY <1>0, <1>1, DevFacts DEF Good, Kept
  <2>4. /\ HandleTypeOK' /\ Lists' /\ TodoOK' /\ WindowOK' /\ Reach' /\ Kept(Limit)' /\ AddingOK'
    BY <1>0, <1>1, <2>1, <2>2, <2>3, PopStep
  <2> QED BY <2>4 DEF Good
<1> QED BY <1>3, <1>5, <1>6

-----------------------------------------------------------------------------
(* The end of a call.                                                       *)

\* Between calls nothing is under way.
LEMMA IdleGood ==
    ASSUME sh.pc = "idle", HandleTypeOK, sh' = sh, IsDevice(dev'), faults' \in Nat, job' = NoJob,
           hdus' \in Seq(HduRec), chdu' \in Nat, scanOff' \in Nat, full' \in BOOLEAN,
           win'.off \in Nat, win'.size \in Int, edits' \in Nat, damaged' \in BOOLEAN,
           Ordered(hdus', scanOff'), ~full' => Len(hdus') <= MaxHduCount /\ Fresh(scanOff)'
    PROVE  Good'
<1>1. HandleTypeOK'
  BY TypeStep
<1>2. Idle'
  BY DEF Idle, NoJob
<1>3. Lists'
  BY <1>2 DEF Lists, ListOK, Ordered, NextOff, DataSize, RoundUp
<1>4. TodoOK' /\ AddingOK' /\ Reach'
  BY <1>2 DEF TodoOK, AddingOK, Reach
<1>5. WindowOK'
  BY <1>2 DEF WindowOK, Idle
<1> QED BY <1>1, <1>2, <1>3, <1>4, <1>5 DEF Good

\* No shift is under way when there is nothing to do.
LEMMA NothingPending ==
    ASSUME HandleTypeOK, Queue = <<>>
    PROVE  sh.pc = "idle"
BY DEF HandleTypeOK, Pending

\* A call returns.
LEMMA ReturnStep ==
    ASSUME Good, Return
    PROVE  Good'
<1>0. HandleTypeOK /\ Lists
  BY DEF Good
<1>1. /\ job.pc = "run" /\ job.todo = <<>> /\ job' = NoJob
      /\ dev' = dev /\ sh' = sh /\ faults' = faults /\ hdus' = hdus /\ chdu' = chdu
      /\ scanOff' = scanOff /\ full' = full /\ win' = win /\ edits' = edits
      /\ damaged' = damaged
  BY DEF Return, mem
<1>2. sh.pc = "idle"
  BY <1>0, <1>1, NothingPending DEF Queue
<1>3. full /\ Ordered(hdus, scanOff)
  BY <1>0, <1>1 DEF Lists, ListOK, Idle
<1>4. /\ IsDevice(dev) /\ faults \in Nat /\ hdus \in Seq(HduRec) /\ chdu \in Nat
      /\ scanOff \in Nat /\ win.off \in Nat /\ win.size \in Int /\ edits \in Nat
      /\ damaged \in BOOLEAN
  BY <1>0, DevFacts DEF HandleTypeOK, SP!TypeOK
<1> QED BY <1>0, <1>1, <1>2, <1>3, <1>4, IdleGood

\* A call returns an error.
LEMMA ReturnErrorStep ==
    ASSUME Good, ReturnError
    PROVE  Good'
<1>0. HandleTypeOK /\ Lists /\ WindowOK
  BY DEF Good
<1>1. /\ job.pc = "undo" /\ job.undo = <<>> /\ job' = NoJob
      /\ dev' = dev /\ sh' = sh /\ faults' = faults /\ chdu' = chdu
      /\ win' = win /\ edits' = edits
      /\ damaged' \in BOOLEAN
      /\ IF job.op.op = "structure"
         THEN hdus' = SubSeq(hdus, 1, Len(job.hdus)) /\ scanOff' = job.scanOff /\ full' = job.full
         ELSE hdus' = hdus /\ scanOff' = scanOff /\ full' = full
  BY DEF ReturnError, Unscans
<1>2. sh.pc = "idle" /\ ~Idle
  BY <1>0, <1>1, NothingPending DEF Queue, Idle
<1>3. /\ IsDevice(dev) /\ faults \in Nat /\ hdus \in Seq(HduRec) /\ chdu \in Nat
      /\ scanOff \in Nat /\ win.off \in Nat /\ win.size \in Int /\ edits \in Nat
      /\ full \in BOOLEAN
      /\ job.hdus \in Seq(HduRec) /\ job.scanOff \in Nat /\ job.full \in BOOLEAN
  BY <1>0, <1>2, DevFacts, JobFacts DEF HandleTypeOK, SP!TypeOK
<1>4. CASE job.op.op = "structure"
  <2>1. SubSeq(hdus, 1, Len(job.hdus)) = job.hdus
    <3>1. Len(job.hdus) <= Len(hdus) /\ \A i \in DOMAIN job.hdus : hdus[i] = job.hdus[i]
      BY <1>0, <1>1, <1>2, <1>4 DEF Lists, Whole
    <3> QED BY <1>3, <3>1, SubOrdered
  <2>2. hdus' = job.hdus /\ scanOff' = job.scanOff /\ full' = job.full
    BY <1>1, <1>4, <2>1
  <2>3. Ordered(job.hdus, job.scanOff) /\ (~job.full => Len(job.hdus) <= MaxHduCount)
    BY <1>0, <1>2 DEF Lists, ListOK
  <2>4. ~job.full => Fresh(job.scanOff)
    BY <1>0, <1>1, <1>2, <1>4 DEF WindowOK
  <2>5. ~full' => Fresh(scanOff)'
    BY <1>1, <2>2, <2>4 DEF Fresh
  <2> QED BY <1>0, <1>1, <1>2, <1>3, <2>2, <2>3, <2>5, IdleGood
<1>5. CASE job.op.op # "structure"
  <2>1. hdus' = hdus /\ scanOff' = scanOff /\ full' = full
    BY <1>1, <1>5
  <2>2. Ordered(hdus, scanOff) /\ (~full => Len(hdus) <= MaxHduCount)
    BY <1>0 DEF Lists, ListOK
  <2>3. ~full => Fresh(scanOff)
    BY <1>0, <1>1, <1>5 DEF WindowOK
  <2>4. ~full' => Fresh(scanOff)'
    BY <1>1, <2>1, <2>3 DEF Fresh
  <2> QED BY <1>0, <1>1, <1>2, <1>3, <2>1, <2>2, <2>4, IdleGood
<1> QED BY <1>4, <1>5

-----------------------------------------------------------------------------
(* The steps of a call: shifts.                                             *)

\* A shift inside the file, and what it keeps; the state after a step is one of these too.
InRange ==
    /\ SP!TypeOK /\ SP!LoopInv /\ sh.pc # "idle" /\ sh.from <= sh.was.size
    /\ Limit \in Nat /\ Limit <= Smaller(sh.from, sh.from + sh.delta)
RangeKept == Limit <= dev.size /\ \A i \in 0 .. Limit - 1 : dev.at[i] = sh.was.at[i]

\* What SP!Keeps says of a shift that starts inside the file.
LEMMA InRangeKeeps == InRange => RangeKept
BY ShiftKeeps DEF InRange, RangeKept

\* The same of the next state.
LEMMA InRangeKeepsNext == InRange' => RangeKept'
BY InRangeKeeps, PTL

\* A pending shift belongs to no append and no copy, and starts inside the file.
LEMMA ShiftPlace ==
    ASSUME Good, Pending({"shift"})
    PROVE  /\ job.op.op \notin Adding
           /\ Limit > 0 => Head(Queue).from <= Base
<1> DEFINE c == Head(Queue)
<1>0. HandleTypeOK /\ Lists /\ TodoOK /\ AddingOK /\ Reach
  BY DEF Good
<1>1. /\ c.k = "shift" /\ ~Idle
      /\ \/ job.pc = "run" /\ job.todo # <<>> /\ c = job.todo[1]
         \/ job.pc = "undo" /\ job.undo # <<>> /\ c = job.undo[1]
  BY <1>0, QueueFacts
<1>2. job.todo \in Seq(Steps(Limit)) /\ job.undo \in Seq(UndoSteps(Limit))
  BY <1>0, <1>1, JobFacts
<1>3. CASE job.pc = "run"
  <2>1. /\ 1 \in DOMAIN job.todo /\ 1 \in Shifts(job.todo)
        /\ \A j \in Shifts(job.todo) : 1 <= j
    BY <1>1, <1>2, <1>3, TailFacts DEF Shifts
  <2>2. job.op.op \notin Adding
    BY <1>0, <1>1, <1>3, <2>1 DEF TodoOK
  <2>3. ASSUME Limit > 0 PROVE c.from <= Base
    <3>1. TodoOrder(job.todo, Base)
      BY <1>0, <1>1, <2>3 DEF Reach
    <3> QED BY <1>1, <1>3, <2>1, <3>1 DEF TodoOrder
  <2> QED BY <2>2, <2>3
<1>4. CASE job.pc = "undo"
  <2>1. 1 \in Shifts(job.undo)
    BY <1>1, <1>2, <1>4, TailFacts DEF Shifts
  <2>2. job.op.op \notin Adding
    BY <1>0, <1>4, AddingUndo
  <2>3. ASSUME Limit > 0 PROVE c.from <= Base
    <3>1. UndoOrder(job.undo, Base)
      BY <1>0, <1>1, <2>3 DEF Reach
    <3> QED BY <1>1, <1>4, <2>1, <3>1 DEF UndoOrder
  <2> QED BY <2>2, <2>3
<1> QED BY <1>1, <1>3, <1>4

\* A step inside a shift.
LEMMA ShiftStays ==
    ASSUME Good, Pending({"shift"}), UNCHANGED <<mem, win, job, edits, damaged>>,
           SP!TypeOK', SP!LoopInv', sh'.pc # "idle",
           sh'.from = Head(Queue).from, sh'.delta = Head(Queue).delta,
           sh'.zero = Head(Queue).zero, sh'.was.size = Base,
           Limit > 0 => \A i \in 0 .. Limit - 1 : sh'.was.at[i] = job.was.at[i]
    PROVE  Good'
<1> DEFINE c == Head(Queue)
<1>0. HandleTypeOK /\ Lists /\ TodoOK /\ WindowOK /\ AddingOK /\ Reach /\ Limit \in Nat
  BY LimitFacts DEF Good
<1>1. /\ job' = job /\ win' = win /\ edits' = edits /\ damaged' = damaged
      /\ hdus' = hdus /\ chdu' = chdu /\ scanOff' = scanOff /\ full' = full
      /\ mem' = mem
  BY DEF mem
<1>2. /\ ~Idle /\ job.pc \in {"run", "undo"} /\ (job.pc = "run" => job.todo # <<>>)
  BY <1>0, QueueFacts
<1>3. Queue' = Queue /\ Limit' = Limit /\ ~Idle' /\ SameCall
  BY <1>1, <1>2 DEF Queue, Limit, Idle, SameCall
<1>4. Jobs(Limit)' = Jobs(Limit)
  BY <1>3 DEF Jobs, Steps, WriteSteps, SizeSteps, ShiftSteps, BackShifts, KeepSteps, UndoSteps,
     ArmedSteps
<1>5. HandleTypeOK'
  <2>1. job' \in Jobs(Limit)'
    BY <1>0, <1>1, <1>2, <1>4, JobFacts
  <2>2. Pending({"shift"})'
    BY <1>3 DEF Pending
  <2> QED BY <1>0, <1>1, <1>3, <2>1, <2>2 DEF HandleTypeOK
<1>6. Lists'
  <2>1. job'.pc = "run" => full /\ job.op.op # "select"
    BY <1>0, <1>1, <1>2 DEF Lists
  <2> QED BY <1>0, <1>1, <1>2, <1>3, <2>1, ListsStep
<1>7. TodoOK'
  BY <1>0, <1>1, <1>2, <1>3 DEF TodoOK
<1>8. WindowOK'
  BY <1>0, <1>1, <1>2, <1>3, WindowStep
<1>9. AddingOK'
  BY <1>1, <1>3, ShiftPlace DEF AddingOK
<1>10. Base' = Base
  BY DEF Base
<1>11. Reach'
  BY <1>0, <1>1, <1>2, <1>3, <1>10 DEF Reach, TodoOrder, UndoOrder, Shifts, Bottom, Smaller
<1>12. Kept(Limit)'
  <2>1. CASE Limit = 0
    <3>1. IsDevice(dev')
      BY SameOperators DEF SP!TypeOK
    <3>2. dev'.size \in Nat
      BY <3>1 DEF IsDevice
    <3> QED BY <1>1, <1>3, <2>1, <3>2 DEF Kept
  <2>2. CASE Limit > 0
    <3>1. c.from \in Nat /\ c.delta \in Int /\ Limit <= Bottom(c) /\ c.from <= Base
      BY <1>0, <2>2, PendingShift, ShiftPlace
    <3>2. InRange'
      BY <1>0, <1>3, <3>1 DEF InRange, Bottom, Smaller
    <3>3. RangeKept'
      BY <3>2, InRangeKeepsNext
    <3> QED BY <1>0, <1>1, <1>3, <2>2, <3>3 DEF Kept, RangeKept
  <2> QED BY <1>0, <2>1, <2>2
<1> QED BY <1>3, <1>5, <1>6, <1>7, <1>8, <1>9, <1>11, <1>12 DEF Good

\* A shift begins.
LEMMA ShiftBeginStep ==
    ASSUME Good, ShiftBegin
    PROVE  Good'
<1> DEFINE c == Head(Queue)
<1>0. HandleTypeOK /\ Lists /\ Limit \in Nat /\ Pending({"shift"}) /\ ~Idle
  BY LimitFacts, QueueFacts DEF Good, ShiftBegin
<1>1. c.from \in Nat /\ c.delta \in Int \ {0} /\ c.zero \in BOOLEAN
  BY <1>0, PendingShift
<1>2. \/ Shift!GrowStart(c.from, c.delta, c.zero) \/ Shift!ShrinkStart(c.from, c.delta, c.zero)
      \/ Shift!GrowStartFails(c.from, c.delta, c.zero)
  BY DEF ShiftBegin
<1>3. UNCHANGED <<mem, win, job, edits, damaged>>
  BY DEF ShiftBegin
<1>4. SP!TypeOK /\ SP!LoopInv
  BY <1>0 DEF HandleTypeOK
<1> HIDE DEF c
<1>5. /\ SP!TypeOK' /\ SP!LoopInv' /\ sh.pc = "idle" /\ sh'.pc # "idle"
      /\ sh'.from = c.from /\ sh'.delta = c.delta /\ sh'.zero = c.zero /\ sh'.was = dev
  BY <1>1, <1>2, <1>4, ShiftStarts
<1>6. sh'.was.size = Base /\ \A i \in 0 .. Limit - 1 : sh'.was.at[i] = job.was.at[i]
  BY <1>0, <1>5 DEF Base, Good, Kept
<1> QED BY <1>0, <1>3, <1>5, <1>6, ShiftStays DEF c

\* A shift goes on: it moves a chunk, zeroes a gap, changes the size, or fails at one of these.
LEMMA ShiftGoesOnStep ==
    ASSUME Good, ShiftGoesOn
    PROVE  Good'
<1> DEFINE c == Head(Queue)
<1>0. HandleTypeOK /\ Lists /\ Limit \in Nat
  BY LimitFacts DEF Good
<1>1. SP!TypeOK /\ SP!LoopInv /\ (Shift!ShiftStep \/ Shift!ShiftFault)
  BY <1>0 DEF HandleTypeOK, ShiftGoesOn
<1>2. UNCHANGED <<mem, win, job, edits, damaged>>
  BY DEF ShiftGoesOn
<1>3. /\ SP!TypeOK' /\ SP!LoopInv' /\ sh.pc # "idle" /\ sh'.pc # "idle"
      /\ sh'.from = sh.from /\ sh'.delta = sh.delta /\ sh'.zero = sh.zero /\ sh'.was = sh.was
  BY <1>1, ShiftGoes
<1>4. /\ Pending({"shift"})
      /\ sh.from = c.from /\ sh.delta = c.delta /\ sh.zero = c.zero
  BY <1>0, <1>3 DEF HandleTypeOK
<1>5. ~Idle
  BY <1>0, <1>4, QueueFacts
<1>6. sh'.was.size = Base
  BY <1>3 DEF Base
<1>7. ASSUME Limit > 0 PROVE \A i \in 0 .. Limit - 1 : sh'.was.at[i] = job.was.at[i]
  <2>1. /\ c.from \in Nat /\ c.delta \in Int /\ Limit <= Bottom(c) /\ c.from <= Base
    BY <1>0, <1>4, <1>7, PendingShift, ShiftPlace
  <2>2. InRange
    BY <1>0, <1>1, <1>3, <1>4, <1>6, <2>1 DEF InRange, Bottom, Smaller
  <2> QED BY <1>3, <1>5, <2>2, InRangeKeeps DEF RangeKept, Good, Kept
<1> QED BY <1>2, <1>3, <1>4, <1>6, <1>7, ShiftStays

\* The rollback with the reverse of a shift before it.
LEMMA PrependShift ==
    ASSUME NEW F \in Nat, NEW s \in BackShifts(F), NEW q \in Seq(UndoSteps(F)), NEW size \in Int,
           UndoOrder(q, size), s.from <= size, \A j \in Shifts(q) : q[j].from <= Bottom(s)
    PROVE  /\ <<s>> \o q \in Seq(UndoSteps(F))
           /\ UndoOrder(<<s>> \o q, size)
           /\ \A j \in Shifts(<<s>> \o q) :
                \/ (<<s>> \o q)[j] = s
                \/ j - 1 \in Shifts(q) /\ (<<s>> \o q)[j] = q[j - 1]
<1> DEFINE r == <<s>> \o q
<1>1. s \in UndoSteps(F) /\ <<s>> \in Seq(UndoSteps(F)) /\ Len(<<s>>) = 1 /\ s.k = "shift"
  BY DEF UndoSteps, BackShifts
<1>2. /\ r \in Seq(UndoSteps(F)) /\ Len(r) = 1 + Len(q) /\ Len(q) \in Nat
      /\ DOMAIN r = 1 .. 1 + Len(q) /\ DOMAIN q = 1 .. Len(q)
      /\ \A j \in 1 .. 1 + Len(q) : r[j] = IF j <= 1 THEN s ELSE q[j - 1]
  <2>1. \A j \in 1 .. 1 : <<s>>[j] = s
    OBVIOUS
  <2>2. /\ r \in Seq(UndoSteps(F)) /\ Len(r) = Len(<<s>>) + Len(q) /\ Len(q) \in Nat
        /\ \A j \in 1 .. Len(<<s>>) + Len(q) :
             r[j] = IF j <= Len(<<s>>) THEN <<s>>[j] ELSE q[j - Len(<<s>>)]
    BY <1>1, ConcatProperties, LenProperties
  <2>3. DOMAIN r = 1 .. Len(r) /\ DOMAIN q = 1 .. Len(q)
    BY <2>2
  <2> HIDE DEF r
  <2> QED BY <1>1, <2>1, <2>2, <2>3
<1> HIDE DEF r
<1>3. ASSUME NEW j \in Shifts(r)
      PROVE  /\ (j = 1 /\ r[j] = s) \/ (j > 1 /\ j - 1 \in Shifts(q) /\ r[j] = q[j - 1])
             /\ j \in 1 .. 1 + Len(q)
  <2>1. j \in 1 .. 1 + Len(q) /\ r[j].k = "shift"
    BY <1>2 DEF Shifts
  <2>2. CASE j = 1
    BY <1>2, <2>1, <2>2
  <2>3. CASE j > 1
    <3>1. j - 1 \in 1 .. Len(q) /\ r[j] = q[j - 1]
      BY <1>2, <2>1, <2>3
    <3> QED BY <1>2, <2>1, <2>3, <3>1 DEF Shifts
  <2> QED BY <2>1, <2>2, <2>3
<1>4. ASSUME NEW j \in Shifts(r)
      PROVE  /\ r[j].from <= size
             /\ \A i \in 1 .. j - 1 :
                   /\ r[i].k # "size"
                   /\ r[i].k = "shift" => r[j].from <= Bottom(r[i])
  <2>1. CASE j = 1
    BY <1>3, <1>2, <2>1
  <2>2. CASE j > 1
    <3>1. j - 1 \in Shifts(q) /\ r[j] = q[j - 1] /\ j \in 1 .. 1 + Len(q)
      BY <1>3, <2>2
    <3>2. /\ q[j - 1].from <= size /\ q[j - 1].from <= Bottom(s)
          /\ \A i \in 1 .. (j - 1) - 1 :
                /\ q[i].k # "size"
                /\ q[i].k = "shift" => q[j - 1].from <= Bottom(q[i])
      BY <3>1 DEF UndoOrder
    <3>3. ASSUME NEW i \in 1 .. j - 1
          PROVE  r[i].k # "size" /\ (r[i].k = "shift" => r[j].from <= Bottom(r[i]))
      <4>1. CASE i = 1
        <5>1. r[i] = s
          BY <4>1, <1>2
        <5> QED BY <5>1, <1>1, <3>1, <3>2
      <4>2. CASE i > 1
        <5>1. r[i] = q[i - 1] /\ i - 1 \in 1 .. (j - 1) - 1
          BY <4>2, <3>1, <1>2
        <5> QED BY <5>1, <3>1, <3>2
      <4> QED BY <4>1, <4>2, <3>1
    <3> QED BY <3>1, <3>2, <3>3
  <2> QED BY <1>3, <2>1, <2>2
<1>5. UndoOrder(r, size)
  BY <1>4 DEF UndoOrder
<1>6. \A j \in Shifts(r) : r[j] = s \/ (j - 1 \in Shifts(q) /\ r[j] = q[j - 1])
  BY <1>3
<1> QED BY <1>2, <1>5, <1>6 DEF r

\* What follows when a shift returns, whatever becomes of the job.
LEMMA ShiftOver ==
    ASSUME Good, Shift!ShiftReturn, UNCHANGED <<mem, win, edits, damaged>>,
           Pending({"shift"}), SameCall, Limit' = Limit, ~Idle', job' \in Jobs(Limit)',
           job'.pc = job.pc \/ job'.pc = "undo",
           \/ /\ job'.todo = Tail(job.todo) /\ job.pc = "run" /\ job'.pc = "run"
           \/ job'.todo = <<>>,
           \/ job'.undo = job.undo
           \/ \E b \in Seq(UndoSteps(Limit)) : job'.undo = b \o job.undo
           \/ job.pc = "undo" /\ job'.undo = Tail(job.undo)
    PROVE  /\ HandleTypeOK' /\ Lists' /\ TodoOK' /\ WindowOK' /\ AddingOK' /\ Kept(Limit)'
           /\ dev' = dev /\ Base' = dev.size /\ sh.pc \in {"done", "failed"}
<1>0. HandleTypeOK /\ Lists /\ TodoOK /\ WindowOK /\ Kept(Limit)
  <2>1. ~Idle
    BY QueueFacts DEF Good
  <2> QED BY <2>1 DEF Good
<1>1. /\ ~Idle /\ Head(Queue).k = "shift" /\ job.pc \in {"run", "undo"}
      /\ job.pc = "run" => job.todo # <<>>
  BY <1>0, QueueFacts
<1>2. /\ SP!TypeOK' /\ SP!LoopInv' /\ sh.pc \in {"done", "failed"} /\ sh'.pc = "idle"
      /\ dev' = dev /\ faults' = faults
  BY <1>0, ShiftReturns DEF HandleTypeOK
<1>3. /\ hdus' = hdus /\ chdu' = chdu /\ scanOff' = scanOff /\ full' = full /\ mem' = mem
      /\ win' = win /\ edits' = edits /\ damaged' = damaged
  BY DEF mem
<1>4. HandleTypeOK'
  BY <1>0, <1>2, <1>3 DEF HandleTypeOK
<1>5. Lists'
  <2>1. job.pc = "run" => full /\ job.op.op # "select"
    BY <1>0, <1>1 DEF Lists
  <2>2. job'.pc = "run" => job.pc = "run"
    OBVIOUS
  <2> QED BY <1>0, <1>1, <1>3, <2>1, <2>2, ListsStep
<1>6. TodoOK'
  BY <1>0, <1>1, <1>3, TodoStep
<1>7. WindowOK'
  BY <1>0, <1>1, <1>3, WindowStep
<1>8. AddingOK'
  BY ShiftPlace DEF AddingOK, SameCall
<1>9. Kept(Limit)'
  BY <1>0, <1>2 DEF Kept, SameCall
<1>10. Base' = dev.size
  BY <1>2 DEF Base
<1> QED BY <1>2, <1>4, <1>5, <1>6, <1>7, <1>8, <1>9, <1>10

\* A rollback behind another size of the device.
LEMMA UndoResized ==
    ASSUME NEW F \in Nat, NEW q \in Seq(UndoSteps(F)), NEW size \in Int, NEW size2 \in Int,
           UndoOrder(q, size), size <= size2 \/ \A j \in Shifts(q) : q[j].from <= size2
    PROVE  UndoOrder(q, size2)
<1>1. ASSUME NEW j \in Shifts(q) PROVE q[j].from <= size2
  <2>1. q[j].from \in Nat
    BY UndoKinds DEF Shifts
  <2>2. q[j].from <= size
    BY DEF UndoOrder
  <2> QED BY <2>1, <2>2
<1> QED BY <1>1 DEF UndoOrder

\* What is known of the file when a shift inside it returns.
LEMMA ShiftSizes ==
    ASSUME Good, Shift!ShiftReturn, Limit > 0
    PROVE  LET c == Head(Queue)
           IN  /\ Pending({"shift"}) /\ Base \in Nat /\ dev.size \in Nat
               /\ c.from \in Nat /\ c.delta \in Int \ {0} /\ c.from <= Base
               /\ sh.pc = "done" => dev.size = Base + c.delta
               /\ sh.pc = "failed" => Base <= dev.size
<1> DEFINE c == Head(Queue)
<1>0. HandleTypeOK /\ Lists /\ Limit \in Nat
  BY LimitFacts DEF Good
<1>1. sh.pc \in {"done", "failed"} /\ SP!TypeOK /\ SP!LoopInv
  BY <1>0, ShiftReturns DEF HandleTypeOK
<1>2. Pending({"shift"}) /\ sh.from = c.from /\ sh.delta = c.delta
  BY <1>0, <1>1 DEF HandleTypeOK
<1>3. Base = sh.was.size
  BY <1>1 DEF Base
<1>4. /\ c.from \in Nat /\ c.delta \in Int \ {0} /\ Limit <= Bottom(c) /\ c.from <= Base
  BY <1>0, <1>2, PendingShift, ShiftPlace
<1>5. sh.was.size \in Nat
  BY <1>1 DEF SP!TypeOK, SP!IsCall, SP!NoShift, SP!IsDevice
<1>6. dev.size \in Nat
  BY <1>0, DevFacts
<1> HIDE DEF c
<1>7. Limit <= Smaller(sh.from, sh.from + sh.delta)
  BY <1>2, <1>4 DEF Bottom
<1>8. /\ sh.pc = "done" => dev.size = sh.was.size + sh.delta
      /\ sh.pc = "failed" => sh.was.size <= dev.size
  BY <1>0, <1>1, <1>2, <1>3, <1>4, <1>7, ShiftKeeps
<1> QED BY <1>2, <1>3, <1>4, <1>5, <1>6, <1>8 DEF c

\* A shift of a call is complete, and joins the rollback.
LEMMA ShiftJoins ==
    ASSUME Good, Shift!ShiftReturn, sh.pc = "done", job.pc = "run", Limit' = Limit, ~Idle',
           dev' = dev, Base' = dev.size, job.todo # <<>>, Head(Queue) = job.todo[1],
           job'.todo = Tail(job.todo), job'.undo = job.todo[1].back \o job.undo
    PROVE  Reach'
<1> SUFFICES ASSUME Limit > 0
             PROVE  /\ TodoOrder(job'.todo, dev.size) /\ UndoOrder(job'.undo, dev.size)
                    /\ \A i \in Shifts(job'.todo), j \in Shifts(job'.undo) :
                          job'.undo[j].from <= Bottom(job'.todo[i])
  BY DEF Reach
<1> DEFINE c == job.todo[1] u == job.undo
<1>0. HandleTypeOK /\ Lists /\ Reach /\ Limit \in Nat /\ ~Idle
  BY LimitFacts DEF Good, Idle
<1>1. /\ Pending({"shift"}) /\ Base \in Nat /\ dev.size \in Nat /\ c.from <= Base
      /\ dev.size = Base + c.delta
  BY ShiftSizes
<1>2. /\ c \in ShiftSteps(Limit) /\ job.todo \in Seq(Steps(Limit)) /\ u \in Seq(UndoSteps(Limit))
  BY <1>0, <1>1, PendingShift, JobFacts
<1> HIDE DEF c
<1>3. /\ c.k = "shift" /\ c.from \in Nat /\ c.delta \in Int \ {0}
      /\ c.from + c.delta \in Nat /\ Bottom(c) \in Nat
      /\ Bottom(c) <= c.from + c.delta /\ Bottom(c) <= c.from
      /\ c.back \in Seq(BackShifts(Limit))
      /\ c.back = <<>> \/ c.back = OneWay(c.from + c.delta, -c.delta, FALSE)
  BY <1>0, <1>2, ShiftFields
<1>4. /\ TodoOrder(job.todo, Base) /\ UndoOrder(u, Base)
      /\ \A i \in Shifts(job.todo), j \in Shifts(u) : u[j].from <= Bottom(job.todo[i])
  BY <1>0 DEF Reach
<1>5. 1 \in Shifts(job.todo)
  <2>1. 1 \in DOMAIN job.todo
    BY <1>2, TailFacts
  <2> QED BY <1>3, <2>1 DEF Shifts, c
<1>6. /\ TodoOrder(Tail(job.todo), dev.size)
      /\ \A i \in Shifts(Tail(job.todo)) : c.from + c.delta <= Bottom(Tail(job.todo)[i])
  <2>1. Base \in Int /\ dev.size \in Int /\ c.k = "shift" /\ dev.size = Base + c.delta
    BY <1>1, <1>3
  <2> QED BY <1>0, <1>2, <1>4, <2>1, TodoTail DEF c
<1>7. \A j \in Shifts(u) : u[j].from \in Nat /\ u[j].from <= Bottom(c)
  <2>1. ASSUME NEW j \in Shifts(u) PROVE u[j].from \in Nat
    <3>1. u[j] \in UndoSteps(Limit) /\ u[j].k = "shift"
      BY <1>2 DEF Shifts
    <3> QED BY <1>0, <3>1, UndoKinds
  <2> QED BY <2>1, <1>4, <1>5 DEF c
<1>8. UndoOrder(u, dev.size)
  <2>1. \A j \in Shifts(u) : u[j].from <= dev.size
    BY <1>1, <1>3, <1>7
  <2> QED BY <1>0, <1>1, <1>2, <1>4, <2>1, UndoResized
<1>9. \A i \in Shifts(Tail(job.todo)), j \in Shifts(u) : u[j].from <= Bottom(Tail(job.todo)[i])
  <2>1. \A i \in Shifts(Tail(job.todo)) : /\ i + 1 \in Shifts(job.todo)
                                         /\ Tail(job.todo)[i] = job.todo[i + 1]
    BY <1>2, ShiftsOfTail
  <2> QED BY <2>1, <1>4
<1>10. CASE c.back = <<>>
  <2>1. job'.undo = u
    BY <1>2, <1>10 DEF c
  <2> QED BY <1>6, <1>8, <1>9, <2>1
<1>11. CASE c.back # <<>>
  <2> DEFINE s == [k |-> "shift", from |-> c.from + c.delta, delta |-> -c.delta, zero |-> FALSE,
                   back |-> <<>>]
  <2>1. c.back = <<s>>
    BY <1>3, <1>11 DEF OneWay
  <2>2. s \in BackShifts(Limit) /\ s.from = c.from + c.delta /\ Bottom(s) = Bottom(c)
    <3>1. Bottom(s) = Bottom(c)
      BY <1>3 DEF Bottom, Smaller
    <3>2. s \in BackShifts(Limit)
      BY <1>3, <2>1
    <3> QED BY <3>1, <3>2
  <2> HIDE DEF s
  <2>3. s.from <= dev.size
    BY <1>1, <1>3, <2>2
  <2>4. /\ UndoOrder(<<s>> \o u, dev.size)
        /\ \A j \in Shifts(<<s>> \o u) :
             \/ (<<s>> \o u)[j] = s
             \/ j - 1 \in Shifts(u) /\ (<<s>> \o u)[j] = u[j - 1]
    <3>1. u \in Seq(UndoSteps(Limit)) /\ dev.size \in Int /\ \A j \in Shifts(u) : u[j].from <= Bottom(s)
      BY <1>1, <1>2, <1>7, <2>2
    <3> HIDE DEF u
    <3> QED BY <1>0, <1>8, <2>2, <2>3, <3>1, PrependShift
  <2>5. job'.undo = <<s>> \o u
    BY <2>1 DEF c
  <2>6. \A i \in Shifts(Tail(job.todo)), j \in Shifts(<<s>> \o u) :
           (<<s>> \o u)[j].from <= Bottom(Tail(job.todo)[i])
    BY <1>6, <1>9, <2>2, <2>4
  <2> QED BY <1>6, <2>4, <2>5, <2>6
<1> QED BY <1>10, <1>11

\* A shift fails, or one of the rollback ends.
LEMMA ShiftLeaves ==
    ASSUME Good, Shift!ShiftReturn, Limit' = Limit, ~Idle',
           dev' = dev, Base' = dev.size, job'.todo = <<>>,
           \/ job.pc = "run" /\ sh.pc = "failed" /\ job'.undo = job.undo
           \/ job.pc = "undo" /\ job.undo # <<>> /\ job'.undo = Tail(job.undo)
              /\ Head(Queue) = job.undo[1]
    PROVE  Reach'
<1> SUFFICES ASSUME Limit > 0 PROVE UndoOrder(job'.undo, dev.size)
  BY EmptyShifts, NoShiftsOrdered DEF Reach
<1> DEFINE c == Head(Queue)
<1>0. HandleTypeOK /\ Lists /\ Reach /\ Limit \in Nat /\ ~Idle
  BY LimitFacts DEF Good, Idle
<1>1. /\ Pending({"shift"}) /\ Base \in Nat /\ dev.size \in Nat
      /\ c.from \in Nat /\ c.delta \in Int \ {0} /\ c.from <= Base
      /\ sh.pc = "done" => dev.size = Base + c.delta
      /\ sh.pc = "failed" => Base <= dev.size
  BY ShiftSizes
<1>2. job.undo \in Seq(UndoSteps(Limit)) /\ UndoOrder(job.undo, Base)
  BY <1>0, JobFacts DEF Reach
<1>3. sh.pc \in {"done", "failed"}
  BY <1>0, ShiftReturns DEF HandleTypeOK
<1>4. CASE job.pc = "run"
  BY <1>0, <1>1, <1>2, <1>4, UndoResized
<1>5. CASE job.pc = "undo"
  <2>1. /\ Bottom(c) <= c.from /\ Bottom(c) <= c.from + c.delta /\ c.k = "shift"
        /\ Bottom(c) \in Nat
    BY <1>0, <1>1, PendingShift DEF Pending
  <2>2. Base <= dev.size \/ Bottom(c) <= dev.size
    BY <1>1, <1>3, <2>1
  <2>3. c = job.undo[1] /\ job.undo # <<>> /\ job'.undo = Tail(job.undo)
    BY <1>5
  <2> HIDE DEF c
  <2>4. UndoOrder(Tail(job.undo), dev.size)
    BY <1>0, <1>1, <1>2, <2>1, <2>2, <2>3, UndoTail
  <2> QED BY <2>3, <2>4
<1> QED BY <1>4, <1>5

\* A shift ends, complete or not.
LEMMA ShiftEndsStep ==
    ASSUME Good, ShiftEnds
    PROVE  Good'
<1> DEFINE c == Head(Queue)
<1>0. HandleTypeOK /\ Lists /\ TodoOK /\ Limit \in Nat
  BY LimitFacts DEF Good
<1>1. Shift!ShiftReturn /\ UNCHANGED <<mem, win, edits, damaged>>
  BY DEF ShiftEnds
<1>2. sh.pc \in {"done", "failed"}
  BY <1>0, <1>1, ShiftReturns DEF HandleTypeOK
<1>3. Pending({"shift"})
  BY <1>0, <1>2 DEF HandleTypeOK
<1>4. /\ ~Idle /\ c.k = "shift"
      /\ \/ job.pc = "run" /\ Queue = job.todo /\ job.todo # <<>> /\ c = job.todo[1]
         \/ job.pc = "undo" /\ job.undo # <<>> /\ c = job.undo[1] /\ job.todo = <<>>
  BY <1>0, <1>3, QueueFacts DEF TodoOK
<1>5. /\ job.todo \in Seq(Steps(Limit)) /\ job.undo \in Seq(UndoSteps(Limit))
      /\ job.torn \in BOOLEAN /\ job.ok \in BOOLEAN /\ <<>> \in Seq(Steps(Limit))
      /\ <<>> \in Seq(UndoSteps(Limit))
  BY <1>0, <1>4, JobFacts
<1>6. CASE job.pc = "run" /\ sh.pc = "done"
  <2> DEFINE b == job.todo[1].back
  <2>1. b \in Seq(UndoSteps(Limit))
    <3>1. c \in ShiftSteps(Limit) /\ c = job.todo[1]
      BY <1>0, <1>3, <1>4, <1>6, PendingShift
    <3>2. b \in Seq(BackShifts(Limit)) /\ BackShifts(Limit) \subseteq UndoSteps(Limit)
      BY <1>0, <3>1, ShiftFields DEF UndoSteps
    <3> QED BY <3>2
  <2>2. job' = Carried("run", Tail(job.todo), b \o job.undo, job.torn, job.ok)
    <3>1. job' = [Popped EXCEPT !.undo = Head(job.todo).back \o Popped.undo]
      BY <1>6 DEF ShiftEnds
    <3>2. Head(job.todo) = job.todo[1]
      BY <1>4, <1>6
    <3>3. Popped.undo = job.undo
      BY <1>0, <1>4, <1>6, JobFacts DEF Popped, Jobs
    <3>4. job' = [Popped EXCEPT !.undo = b \o job.undo]
      BY <3>1, <3>2, <3>3
    <3> QED BY <1>0, <1>4, <1>6, <3>4, JobForms
  <2> HIDE DEF b
  <2>3. Tail(job.todo) \in Seq(Steps(Limit)) /\ b \o job.undo \in Seq(UndoSteps(Limit))
    BY <1>4, <1>5, <1>6, <2>1, TailFacts, ConcatProperties
  <2>4. /\ SameCall /\ Limit' = Limit /\ ~Idle' /\ job' \in Jobs(Limit)'
        /\ job'.pc = "run" /\ job'.todo = Tail(job.todo) /\ job'.undo = b \o job.undo
    <3> DEFINE todo == Tail(job.todo) undo == b \o job.undo
    <3>1. /\ todo \in Seq(Steps(Limit)) /\ undo \in Seq(UndoSteps(Limit))
          /\ job' = Carried("run", todo, undo, job.torn, job.ok)
      BY <2>2, <2>3
    <3> HIDE DEF todo, undo
    <3>2. /\ SameCall /\ Limit' = Limit /\ ~Idle' /\ job' \in Jobs(Limit)'
          /\ job'.pc = "run" /\ job'.todo = todo /\ job'.undo = undo
      BY <1>0, <1>4, <1>5, <3>1, CarriedFacts
    <3> QED BY <3>2 DEF todo, undo
  <2>5. /\ HandleTypeOK' /\ Lists' /\ TodoOK' /\ WindowOK' /\ AddingOK' /\ Kept(Limit)'
        /\ dev' = dev /\ Base' = dev.size
    BY <1>1, <1>3, <1>6, <2>1, <2>4, ShiftOver
  <2>6. Reach'
    BY <1>1, <1>4, <1>6, <2>4, <2>5, ShiftJoins DEF b
  <2> QED BY <2>5, <2>6 DEF Good
<1>7. CASE ~(job.pc = "run" /\ sh.pc = "done")
  <2>1. \E undo \in Seq(UndoSteps(Limit)), torn \in BOOLEAN :
           /\ job' = Carried("undo", <<>>, undo, torn, job.ok)
           /\ \/ job.pc = "run" /\ sh.pc = "failed" /\ undo = job.undo
              \/ job.pc = "undo" /\ undo = Tail(job.undo)
    <3>1. CASE job.pc = "run"
      <4>1. sh.pc = "failed" /\ job' = [GiveUp EXCEPT !.torn = TRUE]
        BY <1>2, <1>7, <3>1 DEF ShiftEnds
      <4>2. job' = Carried("undo", <<>>, job.undo, TRUE, job.ok)
        BY <1>0, <1>4, <3>1, <4>1, JobForms
      <4> QED BY <1>5, <3>1, <4>1, <4>2
    <3>2. CASE job.pc = "undo"
      <4>1. Tail(job.undo) \in Seq(UndoSteps(Limit)) /\ job.todo = <<>>
        BY <1>4, <1>5, <3>2, TailFacts
      <4>2. \/ job' = Carried("undo", job.todo, Tail(job.undo), TRUE, job.ok)
            \/ job' = Carried("undo", job.todo, Tail(job.undo), job.torn, job.ok)
        <5>1. job' = [GiveUp EXCEPT !.torn = TRUE] \/ job' = Popped
          BY <3>2 DEF ShiftEnds
        <5> QED BY <1>0, <1>4, <3>2, <5>1, JobForms
      <4> QED BY <1>5, <3>2, <4>1, <4>2
    <3> QED BY <1>4, <3>1, <3>2
  <2>2. PICK undo \in Seq(UndoSteps(Limit)), torn \in BOOLEAN :
           /\ job' = Carried("undo", <<>>, undo, torn, job.ok)
           /\ \/ job.pc = "run" /\ sh.pc = "failed" /\ undo = job.undo
              \/ job.pc = "undo" /\ undo = Tail(job.undo)
    BY <2>1
  <2>3. /\ SameCall /\ Limit' = Limit /\ ~Idle' /\ job' \in Jobs(Limit)'
        /\ job'.pc = "undo" /\ job'.todo = <<>> /\ job'.undo = undo
    BY <1>0, <1>4, <1>5, <2>2, CarriedFacts
  <2>4. /\ HandleTypeOK' /\ Lists' /\ TodoOK' /\ WindowOK' /\ AddingOK' /\ Kept(Limit)'
        /\ dev' = dev /\ Base' = dev.size
    BY <1>1, <1>3, <2>2, <2>3, ShiftOver
  <2>5. Reach'
    BY <1>1, <1>4, <2>2, <2>3, <2>4, ShiftLeaves
  <2> QED BY <2>4, <2>5 DEF Good
<1> QED BY <1>6, <1>7

-----------------------------------------------------------------------------
(* A call begins.                                                           *)

\* A call begins to scan.
LEMMA BeginStep ==
    ASSUME Good, NEW op \in Ops, NEW want \in Nat, Begin(op, want), edits' \in Nat,
           want = MaxHduCount + 1 \/ op.op = "select",
           op.op \in {"header", "structure", "rows"} => op.n \in DOMAIN hdus
    PROVE  Good'
<1>0. HandleTypeOK /\ Lists /\ WindowOK /\ Idle
  BY DEF Good, Begin, Idle
<1>1. /\ job' = NewJob(op, want) /\ dev' = dev /\ sh' = sh /\ faults' = faults /\ mem' = mem
      /\ hdus' = hdus /\ chdu' = chdu /\ scanOff' = scanOff /\ full' = full
      /\ win' = win /\ damaged' = damaged
  BY DEF Begin, mem
<1>2. /\ IsDevice(dev) /\ dev.size \in Nat /\ dev \in Devices /\ hdus \in Seq(HduRec)
      /\ scanOff \in Nat /\ full \in BOOLEAN /\ chdu \in Nat /\ faults \in Nat
      /\ win.off \in Nat /\ win.size \in Int /\ damaged \in BOOLEAN
  BY <1>0, DevFacts, DeviceSet DEF HandleTypeOK, SP!TypeOK
<1>3. /\ job'.pc = "scan" /\ job'.op = op /\ job'.want = want /\ job'.todo = <<>>
      /\ job'.undo = <<>> /\ job'.was = dev /\ job'.hdus = hdus /\ job'.scanOff = scanOff
      /\ job'.full = full /\ job'.chdu = chdu /\ job'.torn = FALSE /\ job'.ok = FALSE
  BY <1>1 DEF NewJob
<1>4. ~Idle'
  BY <1>3 DEF Idle
<1>5. sh.pc = "idle"
  BY <1>0, NothingPending DEF Queue, Idle
<1>6. job' \in Jobs(Limit)'
  <2>1. \A F : job' \in Jobs(F)
    BY <1>1, <1>2 DEF NewJob, Jobs
  <2>2. Jobs(Limit)' = Jobs(Limit')
    BY DEF Jobs, Steps, WriteSteps, SizeSteps, ShiftSteps, BackShifts, KeepSteps, UndoSteps,
       ArmedSteps
  <2> QED BY <2>1, <2>2
<1>7. HandleTypeOK'
  BY <1>0, <1>1, <1>2, <1>5, <1>6, TypeStep
<1>8. Lists'
  <2>1. ListOK(hdus, scanOff, full)
    BY <1>0 DEF Lists
  <2>2. ListOK(hdus, scanOff, full)' /\ ListOK(job.hdus, job.scanOff, job.full)'
    BY <2>1, <1>1, <1>3 DEF ListOK, Ordered, NextOff, DataSize, RoundUp
  <2>3. Len(hdus) \in Nat
    BY <1>2, LenProperties
  <2> QED BY <2>2, <2>3, <1>1, <1>2, <1>3 DEF Lists
<1>9. TodoOK' /\ AddingOK'
  BY <1>3 DEF TodoOK, AddingOK
<1>10. WindowOK'
  <2>1. ~full => Fresh(scanOff)'
    BY <1>0, <1>1 DEF WindowOK, Fresh
  <2>2. ~full => Fresh(job.scanOff)'
    BY <2>1, <1>1, <1>3 DEF Fresh
  <2> QED BY <2>2, <1>3, <1>4 DEF WindowOK
<1>11. Reach'
  BY <1>3, EmptyShifts, NoShiftsOrdered DEF Reach
<1>12. Kept(Limit)'
  <2>1. Limit' <= dev.size
    <3>1. CASE op.op = "select"
      BY <1>2, <1>3, <1>4, <3>1 DEF Limit
    <3>2. CASE op.op \in Adding
      BY <1>2, <1>3, <1>4, <3>2 DEF Limit, Adding
    <3>3. CASE op.op \notin Adding \cup {"select"}
      <4>1. CASE op.n \in DOMAIN hdus /\ NextOff(hdus[op.n]) <= dev.size
        <5>1. /\ hdus[op.n].hoff <= hdus[op.n].doff /\ hdus[op.n] \in HduRec
          <6>1. Ordered(hdus, scanOff)
            BY <1>0 DEF Lists, ListOK
          <6>2. hdus[op.n].hoff <= hdus[op.n].doff
            BY <4>1, <6>1 DEF Ordered
          <6> HIDE DEF Ordered
          <6>3. hdus[op.n] \in HduRec
            BY <1>2, <4>1
          <6> QED BY <6>2, <6>3
        <5>2. hdus[op.n].hoff <= dev.size
          <6> DEFINE u == hdus[op.n]
          <6>1. u \in HduRec /\ u.hoff <= u.doff /\ NextOff(u) <= dev.size
            BY <4>1, <5>1
          <6> HIDE DEF u
          <6>2. u.hoff <= dev.size
            <7>1. u.hoff \in Nat /\ u.doff \in Nat /\ NextOff(u) \in Nat /\ u.doff <= NextOff(u)
              BY <6>1, HduFacts
            <7> QED BY <1>2, <6>1, <7>1
          <6> QED BY <6>2 DEF u
        <5>3. Limit' = hdus[op.n].hoff
          <6>1. NextOff(job.hdus[job.op.n])' = NextOff(hdus[op.n])
            BY <1>3 DEF NextOff, DataSize, RoundUp
          <6> QED BY <1>3, <1>4, <3>3, <4>1, <6>1 DEF Limit
        <5> QED BY <5>2, <5>3
      <4>2. CASE ~(op.n \in DOMAIN hdus /\ NextOff(hdus[op.n]) <= dev.size)
        <5>1. NextOff(job.hdus[job.op.n])' = NextOff(hdus[op.n])
          BY <1>3 DEF NextOff, DataSize, RoundUp
        <5> QED BY <1>2, <1>3, <1>4, <3>3, <4>2, <5>1 DEF Limit
      <4> QED BY <4>1, <4>2
    <3> QED BY <3>1, <3>2, <3>3
  <2> QED BY <2>1, <1>1, <1>3 DEF Kept
<1> QED BY <1>7, <1>8, <1>9, <1>10, <1>11, <1>12 DEF Good

\* Every public call begins so.
LEMMA CallBeginsStep ==
    ASSUME Good,
           \/ \E n \in 1 .. MaxHduCount + 1 : SelectHdu(n)
           \/ \E h \in Name : AppendHdu(h)
           \/ \E n \in 1 .. Len(hdus) + 1 : CopyHdu(n) \/ DeleteHdu(n)
           \/ \E n \in 1 .. Len(hdus), h \in Name : Replace(n, h) \/ Restructure(n, h) \/ Rows(n, h)
    PROVE  Good'
<1>0. MaxHduCount + 1 \in Nat /\ edits \in Nat /\ Len(hdus) \in Nat /\ DOMAIN hdus = 1 .. Len(hdus)
  BY HandleAssumption DEF Good, HandleTypeOK
<1>1. ASSUME NEW n \in 1 .. MaxHduCount + 1, SelectHdu(n) PROVE Good'
  <2>1. [op |-> "select", n |-> n] \in Ops /\ n \in Nat /\ [op |-> "select", n |-> n].op = "select"
    BY <1>0 DEF Ops
  <2>2. Begin([op |-> "select", n |-> n], n) /\ edits' = edits
    BY <1>1 DEF SelectHdu
  <2> QED BY <1>0, <2>1, <2>2, BeginStep
<1>2. ASSUME NEW op \in Ops, BeginEdit(op),
             op.op \in {"header", "structure", "rows"} => op.n \in DOMAIN hdus
      PROVE  Good'
  <2>1. Begin(op, MaxHduCount + 1) /\ edits' \in Nat
    BY <1>0, <1>2 DEF BeginEdit
  <2> QED BY <1>0, <1>2, <2>1, BeginStep
<1>3. ASSUME NEW h \in Name, AppendHdu(h) PROVE Good'
  <2>1. [op |-> "append", name |-> h] \in Ops
    BY DEF Ops
  <2> QED BY <2>1, <1>2, <1>3 DEF AppendHdu
<1>4. ASSUME NEW n \in 1 .. Len(hdus) + 1, CopyHdu(n) \/ DeleteHdu(n) PROVE Good'
  <2>1. [op |-> "copy", n |-> n] \in Ops /\ [op |-> "delete", n |-> n] \in Ops
    BY <1>0 DEF Ops
  <2> QED BY <2>1, <1>2, <1>4 DEF CopyHdu, DeleteHdu
<1>5. ASSUME NEW n \in 1 .. Len(hdus), NEW h \in Name,
             Replace(n, h) \/ Restructure(n, h) \/ Rows(n, h)
      PROVE  Good'
  <2>1. \A o \in {"header", "structure", "rows"} :
           [op |-> o, n |-> n, name |-> h] \in Ops /\ [op |-> o, n |-> n, name |-> h].n \in DOMAIN hdus
    BY <1>0 DEF Ops
  <2>2. \E o \in {"header", "structure", "rows"} : BeginEdit([op |-> o, n |-> n, name |-> h])
    BY <1>5 DEF Replace, Restructure, Rows
  <2> QED BY <2>1, <2>2, <1>2
<1> QED BY <1>1, <1>3, <1>4, <1>5

\* The first HDU, as `open` finds it.
LEMMA OpenedFacts ==
    ASSUME NEW d, IsDevice(d), NEW o \in Opened(d)
    PROVE  /\ o.hdus \in Seq(HduRec) /\ o.scanOff \in Nat /\ o.full \in BOOLEAN
           /\ o.win.off \in Nat /\ o.win.size \in Int
           /\ Ordered(o.hdus, o.scanOff) /\ (~o.full => Len(o.hdus) <= MaxHduCount)
           /\ \A i \in 0 .. o.win.size - 1 :
                 o.win.off = 0 /\ i < d.size /\ o.win.at[i] = d.at[i]
<1>1. CASE d.size = 0
  <2>1. o = [hdus |-> <<>>, scanOff |-> 0, full |-> TRUE, win |-> NoWindow]
    BY <1>1 DEF Opened
  <2> QED BY <2>1 DEF NoWindow, Ordered
<1>2. CASE d.size # 0
  <2> DEFINE n == Smaller(Window, d.size)
  <2>1. PICK h \in FirstHeader(d) :
           o = [hdus |-> <<NewHdu(h, 0)>>, scanOff |-> NextOff(NewHdu(h, 0)),
                full |-> NextOff(NewHdu(h, 0)) >= d.size,
                win |-> [off |-> 0, size |-> n, at |-> [i \in 0 .. n - 1 |-> d.at[i]]]]
    BY <1>2 DEF Opened
  <2>2. n \in Nat /\ n <= d.size /\ d.size \in Nat
    BY HandleAssumption DEF IsDevice, Smaller
  <2> HIDE DEF n
  <2>3. h \in Name
    BY DEF FirstHeader
  <2> DEFINE u == NewHdu(h, 0)
  <2>4. u \in HduRec /\ u.hoff = 0 /\ 0 <= u.doff /\ NextOff(u) \in Nat
    BY <2>3, NewHduFacts
  <2>5. /\ o.hdus = <<u>> /\ o.scanOff = NextOff(u) /\ o.full \in BOOLEAN
        /\ o.win = [off |-> 0, size |-> n, at |-> [i \in 0 .. n - 1 |-> d.at[i]]]
    BY <2>1
  <2> HIDE DEF u
  <2>6. Ordered(<<u>>, NextOff(u)) /\ <<u>> \in Seq(HduRec) /\ Len(<<u>>) = 1
    BY <2>4 DEF Ordered
  <2>7. 1 <= MaxHduCount
    BY HandleAssumption
  <2>8. /\ o.win.off \in Nat /\ o.win.size \in Int
        /\ \A i \in 0 .. o.win.size - 1 : o.win.off = 0 /\ i < d.size /\ o.win.at[i] = d.at[i]
    BY <2>2, <2>5
  <2> QED BY <2>4, <2>5, <2>6, <2>7, <2>8
<1> QED BY <1>1, <1>2

\* The file is closed and opened again.
LEMMA ReopenStep ==
    ASSUME Good, Reopen
    PROVE  Good'
<1>0. HandleTypeOK
  BY DEF Good
<1>1. sh.pc = "idle" /\ job = NoJob
  BY <1>0, NothingPending DEF Reopen, Queue, HandleTypeOK, Jobs
<1>2. PICK o \in Opened(dev) : /\ hdus' = o.hdus /\ scanOff' = o.scanOff
                               /\ full' = o.full /\ win' = o.win
  BY DEF Reopen
<1>3. /\ chdu' = 0 /\ edits' = edits + 1 /\ dev' = dev /\ sh' = sh /\ faults' = faults
      /\ job' = job /\ damaged' = damaged
  BY DEF Reopen
<1>4. IsDevice(dev) /\ faults \in Nat /\ edits \in Nat /\ damaged \in BOOLEAN
  BY <1>0, DevFacts DEF HandleTypeOK, SP!TypeOK
<1>5. /\ hdus' \in Seq(HduRec) /\ scanOff' \in Nat /\ full' \in BOOLEAN
      /\ win'.off \in Nat /\ win'.size \in Int
      /\ Ordered(hdus', scanOff') /\ (~full' => Len(hdus') <= MaxHduCount)
      /\ \A i \in 0 .. win'.size - 1 : win'.off = 0 /\ i < dev.size /\ win'.at[i] = dev.at[i]
  BY <1>2, <1>4, OpenedFacts
<1>6. Fresh(scanOff)'
  <2>1. ASSUME NEW i \in scanOff' .. win'.off + win'.size - 1, win'.off <= i
        PROVE  i < dev'.size /\ win'.at[i] = dev'.at[i]
    <3>1. i \in Nat /\ scanOff' <= i /\ i <= win'.off + win'.size - 1
      BY <1>5
    <3>2. CASE win'.off = 0
      BY <1>3, <1>5, <3>1, <3>2
    <3>3. CASE win'.size <= 0
      BY <1>5, <2>1, <3>1, <3>3
    <3>4. win'.size > 0 => win'.off = 0
      <4>1. win'.size > 0 => 0 \in 0 .. win'.size - 1
        BY <1>5
      <4> QED BY <1>5, <4>1
    <3> QED BY <1>5, <3>2, <3>3, <3>4
  <2> QED BY <2>1 DEF Fresh
<1>7. faults' \in Nat /\ edits' \in Nat /\ damaged' \in BOOLEAN /\ chdu' \in Nat /\ IsDevice(dev')
      /\ job' = NoJob /\ sh' = sh
  BY <1>1, <1>3, <1>4
<1> QED BY <1>0, <1>1, <1>5, <1>6, <1>7, IdleGood

\* The program writes into a data unit.
LEMMA WriteDataStep ==
    ASSUME Good, NEW n \in 1 .. Len(hdus), NEW v \in Value, NEW k \in 0 .. MaxSize,
           WriteData(n, k, v)
    PROVE  Good'
<1>0. HandleTypeOK /\ Lists /\ WindowOK
  BY DEF Good
<1>1. sh.pc = "idle" /\ job = NoJob /\ Idle
  BY <1>0, NothingPending DEF WriteData, Queue, HandleTypeOK, Jobs, Idle
<1>2. /\ k < hdus[n].bytes /\ dev' = Written(dev, hdus[n].doff + k, 1, [i \in {0} |-> v])
      /\ edits' = edits + 1 /\ sh' = sh /\ faults' = faults /\ hdus' = hdus /\ chdu' = chdu
      /\ scanOff' = scanOff /\ full' = full /\ win' = win /\ job' = job /\ damaged' = damaged
  BY DEF WriteData, mem
<1>3. /\ IsDevice(dev) /\ faults \in Nat /\ hdus \in Seq(HduRec) /\ chdu \in Nat
      /\ scanOff \in Nat /\ full \in BOOLEAN /\ win.off \in Nat /\ win.size \in Int
      /\ edits \in Nat /\ damaged \in BOOLEAN /\ dev.size \in Nat
  BY <1>0, DevFacts DEF HandleTypeOK, SP!TypeOK
<1>4. Ordered(hdus, scanOff) /\ (~full => Len(hdus) <= MaxHduCount)
  BY <1>0 DEF Lists, ListOK
<1>5. /\ hdus[n] \in HduRec /\ n \in DOMAIN hdus /\ NextOff(hdus[n]) <= scanOff /\ k \in Nat
  <2>1. n \in DOMAIN hdus /\ hdus[n] \in HduRec
    BY <1>3
  <2>2. NextOff(hdus[n]) <= scanOff
    BY <1>4, <2>1 DEF Ordered
  <2>3. k \in Nat
    BY HandleAssumption
  <2> QED BY <2>1, <2>2, <2>3
<1>6. hdus[n].doff + k \in Nat /\ hdus[n].doff + k + 1 <= scanOff
  <2> DEFINE u == hdus[n]
  <2>1. u \in HduRec /\ NextOff(u) <= scanOff /\ k < u.bytes
    BY <1>2, <1>5
  <2> HIDE DEF u
  <2>2. /\ u.doff \in Nat /\ u.bytes \in Nat /\ DataSize(u.bytes) \in Nat
        /\ u.bytes <= DataSize(u.bytes) /\ NextOff(u) = u.doff + DataSize(u.bytes)
    BY <2>1, HduFacts
  <2>3. u.doff + k \in Nat /\ u.doff + k + 1 <= scanOff
    BY <1>3, <1>5, <2>1, <2>2
  <2> QED BY <2>3 DEF u
<1>7. v \in Cell
  BY HandleAssumption
<1> DEFINE off == hdus[n].doff + k cells == [i \in {0} |-> v]
<1>8. /\ off \in Nat /\ off + 1 <= scanOff /\ dev' = Written(dev, off, 1, cells)
      /\ \A i \in 0 .. 1 - 1 : cells[i] \in Cell
  BY <1>2, <1>6, <1>7
<1> HIDE DEF off, cells
<1>9. /\ IsDevice(dev') /\ dev.size <= dev'.size
      /\ \A i \in 0 .. dev.size - 1 : off + 1 <= i => dev'.at[i] = dev.at[i]
  <2>1. 1 \in Nat /\ \A i \in 0 .. 1 - 1 : cells[i] \in Cell
    BY <1>8
  <2> QED BY <1>3, <1>8, <2>1, WrittenDev
<1>10. dev'.size \in Nat
  BY <1>9 DEF IsDevice
<1>11. ~full => Fresh(scanOff)'
  <2>1. ASSUME ~full, NEW i \in scanOff .. win.off + win.size - 1, win.off <= i
        PROVE  i < dev'.size /\ win.at[i] = dev'.at[i]
    <3>1. i < dev.size /\ win.at[i] = dev.at[i]
      BY <1>0, <1>1, <2>1 DEF WindowOK, Fresh
    <3>2. i \in 0 .. dev.size - 1 /\ off + 1 <= i
      BY <1>3, <1>8, <3>1
    <3> QED BY <1>3, <1>9, <1>10, <3>1, <3>2
  <2> QED BY <1>2, <2>1 DEF Fresh
<1>12. Ordered(hdus', scanOff') /\ (~full' => Len(hdus') <= MaxHduCount /\ Fresh(scanOff)')
  BY <1>2, <1>4, <1>11
<1> QED BY <1>0, <1>1, <1>2, <1>3, <1>9, <1>12, IdleGood

-----------------------------------------------------------------------------
(* Scanning.                                                                *)

\* The state of a call that is scanning.
LEMMA ScanFacts ==
    ASSUME Good, job.pc = "scan"
    PROVE  /\ HandleTypeOK /\ Lists /\ TodoOK /\ WindowOK /\ Limit \in Nat /\ ~Idle
           /\ sh.pc = "idle" /\ Kept(Limit)
           /\ IsDevice(dev) /\ dev.size \in Nat /\ dev = job.was /\ faults \in Nat
           /\ hdus \in Seq(HduRec) /\ chdu \in Nat /\ scanOff \in Nat /\ full \in BOOLEAN
           /\ win.off \in Nat /\ win.size \in Int /\ edits \in Nat /\ damaged \in BOOLEAN
           /\ job.todo = <<>> /\ job.undo = <<>> /\ job.hdus \in Seq(HduRec) /\ job.scanOff \in Nat
           /\ (job.full => full) /\ job.scanOff <= scanOff /\ job.full \in BOOLEAN
           /\ Len(job.hdus) \in Nat /\ Len(hdus) \in Nat
           /\ Len(job.hdus) <= Len(hdus) /\ chdu = job.chdu
           /\ DOMAIN job.hdus = 1 .. Len(job.hdus) /\ DOMAIN hdus = 1 .. Len(hdus)
           /\ \A i \in DOMAIN job.hdus : hdus[i] = job.hdus[i]
           /\ ListOK(hdus, scanOff, full) /\ ListOK(job.hdus, job.scanOff, job.full)
           /\ (~job.full => Fresh(job.scanOff))
           /\ job.want = MaxHduCount + 1 \/ job.op.op = "select"
           /\ job.op.op \in {"header", "structure", "rows"} => job.op.n \in DOMAIN job.hdus
<1>1. ~Idle
  BY DEF Idle
<1>2. /\ HandleTypeOK /\ Lists /\ TodoOK /\ WindowOK /\ Limit \in Nat /\ Kept(Limit)
  BY <1>1, LimitFacts DEF Good
<1>3. sh.pc = "idle"
  BY <1>2, NothingPending DEF Queue
<1>4. /\ IsDevice(dev) /\ dev.size \in Nat /\ faults \in Nat
      /\ hdus \in Seq(HduRec) /\ chdu \in Nat /\ scanOff \in Nat /\ full \in BOOLEAN
      /\ win.off \in Nat /\ win.size \in Int /\ edits \in Nat /\ damaged \in BOOLEAN
  BY <1>2, DevFacts DEF HandleTypeOK, SP!TypeOK
<1>5. /\ job.hdus \in Seq(HduRec) /\ job.scanOff \in Nat /\ job.full \in BOOLEAN
  BY <1>1, <1>2, JobFacts
<1>6. /\ Len(job.hdus) \in Nat /\ Len(hdus) \in Nat
      /\ DOMAIN job.hdus = 1 .. Len(job.hdus) /\ DOMAIN hdus = 1 .. Len(hdus)
  BY <1>4, <1>5
<1>7. /\ dev = job.was /\ job.todo = <<>> /\ job.undo = <<>>
      /\ (job.full => full) /\ job.scanOff <= scanOff
      /\ Len(job.hdus) <= Len(hdus) /\ chdu = job.chdu
      /\ \A i \in DOMAIN job.hdus : hdus[i] = job.hdus[i]
      /\ ListOK(hdus, scanOff, full) /\ ListOK(job.hdus, job.scanOff, job.full)
      /\ job.want = MaxHduCount + 1 \/ job.op.op = "select"
      /\ job.op.op \in {"header", "structure", "rows"} => job.op.n \in DOMAIN job.hdus
  BY <1>1, <1>2 DEF Lists
<1>8. ~job.full => Fresh(job.scanOff)
  BY <1>2 DEF WindowOK
<1> QED BY <1>1, <1>2, <1>3, <1>4, <1>5, <1>6, <1>7, <1>8

\* A call that has not scanned all it needs goes on scanning.
LEMMA ScanStep ==
    ASSUME Good, job.pc = "scan", job' = job, UNCHANGED <<dev, sh, faults, chdu, edits, damaged>>,
           hdus' \in Seq(HduRec), scanOff' \in Nat, full' \in BOOLEAN,
           win'.off \in Nat, win'.size \in Int, ListOK(hdus', scanOff', full'),
           full => full', scanOff <= scanOff', Len(hdus) <= Len(hdus'),
           \A i \in DOMAIN hdus : hdus'[i] = hdus[i],
           \A from \in Nat : Fresh(from) => Fresh(from)'
    PROVE  Good'
<1>0. /\ HandleTypeOK /\ Lists /\ TodoOK /\ WindowOK /\ Limit \in Nat /\ ~Idle
      /\ sh.pc = "idle" /\ Kept(Limit)
      /\ IsDevice(dev) /\ dev.size \in Nat /\ dev = job.was /\ faults \in Nat
      /\ hdus \in Seq(HduRec) /\ chdu \in Nat /\ scanOff \in Nat /\ full \in BOOLEAN
      /\ edits \in Nat /\ damaged \in BOOLEAN
      /\ job.todo = <<>> /\ job.undo = <<>> /\ job.hdus \in Seq(HduRec) /\ job.scanOff \in Nat
      /\ (job.full => full) /\ job.scanOff <= scanOff /\ job.full \in BOOLEAN
      /\ Len(job.hdus) \in Nat /\ Len(hdus) \in Nat
      /\ Len(job.hdus) <= Len(hdus) /\ chdu = job.chdu
      /\ DOMAIN job.hdus = 1 .. Len(job.hdus) /\ DOMAIN hdus = 1 .. Len(hdus)
      /\ \A i \in DOMAIN job.hdus : hdus[i] = job.hdus[i]
      /\ ListOK(job.hdus, job.scanOff, job.full)
      /\ (~job.full => Fresh(job.scanOff))
  BY ScanFacts
<1>1. ~Idle' /\ job'.pc = "scan" /\ dev' = dev /\ sh' = sh /\ faults' = faults /\ chdu' = chdu
      /\ edits' = edits /\ damaged' = damaged
  BY DEF Idle
<1>2. Limit' = Limit
  BY <1>0, <1>1 DEF Limit
<1>3. job' \in Jobs(Limit)'
  <2>1. Jobs(Limit)' = Jobs(Limit)
    BY <1>2 DEF Jobs, Steps, WriteSteps, SizeSteps, ShiftSteps, BackShifts, KeepSteps, UndoSteps,
       ArmedSteps
  <2> QED BY <1>0, <2>1, JobFacts
<1>4. HandleTypeOK'
  BY <1>0, <1>1, <1>3, TypeStep
<1>5. Lists'
  <2>1. ListOK(hdus, scanOff, full)'
    BY DEF ListOK, Ordered, NextOff, DataSize, RoundUp
  <2>2. ListOK(job.hdus, job.scanOff, job.full)'
    BY <1>0 DEF ListOK, Ordered, NextOff, DataSize, RoundUp
  <2>3. Len(hdus') \in Nat
    BY LenProperties
  <2>4. Len(job.hdus) <= Len(hdus')
    BY <1>0, <2>3
  <2>5. \A i \in DOMAIN job.hdus : hdus'[i] = job.hdus[i]
    BY <1>0
  <2>6. job.scanOff <= scanOff'
    BY <1>0
  <2> QED BY <1>0, <1>1, <2>1, <2>2, <2>4, <2>5, <2>6 DEF Lists
<1>6. TodoOK' /\ AddingOK'
  BY <1>0, <1>1 DEF TodoOK, AddingOK
<1>7. WindowOK'
  <2>1. ~job.full => Fresh(job.scanOff)'
    BY <1>0 DEF Fresh
  <2> QED BY <1>0, <1>1, <2>1 DEF WindowOK
<1>8. Reach'
  BY <1>0, EmptyShifts, NoShiftsOrdered DEF Reach
<1>9. Kept(Limit)'
  BY <1>0, <1>1, <1>2 DEF Kept
<1> QED BY <1>4, <1>5, <1>6, <1>7, <1>8, <1>9 DEF Good

\* A scan ends.
LEMMA ScanEndStep ==
    ASSUME Good, ScanEnd
    PROVE  Good'
<1>1. job.pc = "scan" /\ full' = TRUE
      /\ UNCHANGED <<dev, sh, faults, hdus, chdu, scanOff, win, job, edits, damaged>>
  BY DEF ScanEnd, Scanning
<1>2. /\ hdus \in Seq(HduRec) /\ scanOff \in Nat /\ win.off \in Nat /\ win.size \in Int
      /\ ListOK(hdus, scanOff, full) /\ Len(hdus) \in Nat
  BY <1>1, ScanFacts
<1>3. ListOK(hdus', scanOff', full')
  BY <1>1, <1>2 DEF ListOK
<1>4. \A from \in Nat : Fresh(from) => Fresh(from)'
  BY <1>1 DEF Fresh
<1> QED BY <1>1, <1>2, <1>3, <1>4, ScanStep

\* A scan registers an HDU.
LEMMA ScanHduStep ==
    ASSUME Good, ScanHdu
    PROVE  Good'
<1>1. job.pc = "scan" /\ ~full /\ Len(hdus) < MaxHduCount
      /\ UNCHANGED <<dev, sh, faults, chdu, job, edits, damaged>>
  BY DEF ScanHdu, Scanning
<1>2. PICK h \in ParsedAt(scanOff) :
          /\ hdus' = Append(hdus, NewHdu(h, scanOff))
          /\ scanOff' = NextOff(NewHdu(h, scanOff))
          /\ full' = (scanOff' >= dev.size)
          /\ win' = WindowAfter(scanOff, Hdr[h].cards)
  BY DEF ScanHdu
<1>3. /\ hdus \in Seq(HduRec) /\ scanOff \in Nat /\ HandleTypeOK
      /\ ListOK(hdus, scanOff, full) /\ Len(hdus) \in Nat /\ DOMAIN hdus = 1 .. Len(hdus)
  BY <1>1, ScanFacts
<1>4. h \in Name /\ Hdr[h].cards \in Nat
  BY HdrFacts DEF ParsedAt
<1>5. /\ hdus' \in Seq(HduRec) /\ Len(hdus') = Len(hdus) + 1 /\ Ordered(hdus', scanOff')
      /\ \A i \in DOMAIN hdus : hdus'[i] = hdus[i]
  BY <1>2, <1>3, <1>4, AppendOrdered DEF ListOK
<1>6. scanOff' \in Nat /\ scanOff <= scanOff'
  BY <1>2, <1>3, <1>4, NewHduFacts
<1>7. ListOK(hdus', scanOff', full')
  BY <1>1, <1>3, <1>5, HandleAssumption DEF ListOK
<1>8. /\ win'.off \in Nat /\ win'.size \in Int
      /\ \A from \in Nat : Fresh(from) => Fresh(from)'
  BY <1>1, <1>2, <1>3, <1>4, ReadFresh
<1>9. full' \in BOOLEAN /\ Len(hdus) <= Len(hdus')
  BY <1>2, <1>3, <1>5
<1> QED BY <1>1, <1>5, <1>6, <1>7, <1>8, <1>9, ScanStep

\* A call that fails before it has changed anything.
LEMMA FailStep ==
    ASSUME Good, job.pc = "scan", Fail, UNCHANGED <<dev, sh, mem, edits, damaged>>,
           faults' \in Nat, win'.off \in Nat, win'.size \in Int,
           \A from \in Nat : Fresh(from) => Fresh(from)'
    PROVE  Good'
<1>0. /\ HandleTypeOK /\ Lists /\ TodoOK /\ WindowOK /\ Limit \in Nat /\ ~Idle
      /\ sh.pc = "idle" /\ Kept(Limit)
      /\ IsDevice(dev) /\ dev.size \in Nat /\ dev = job.was
      /\ hdus \in Seq(HduRec) /\ chdu \in Nat /\ scanOff \in Nat /\ full \in BOOLEAN
      /\ edits \in Nat /\ damaged \in BOOLEAN
      /\ job.todo = <<>> /\ job.undo = <<>> /\ job.scanOff \in Nat
      /\ (job.full => full) /\ job.scanOff <= scanOff
      /\ (~job.full => Fresh(job.scanOff))
  BY ScanFacts
<1>1. dev' = dev /\ sh' = sh /\ hdus' = hdus /\ chdu' = chdu /\ scanOff' = scanOff /\ full' = full
      /\ edits' = edits /\ damaged' = damaged /\ mem' = mem
  BY DEF mem
<1>2. /\ SameCall /\ Limit' = Limit /\ ~Idle' /\ job' \in Jobs(Limit)'
      /\ job'.pc = "undo" /\ job'.todo = <<>> /\ job'.undo = <<>>
  <2>1. job.undo \in Seq(UndoSteps(Limit)) /\ job.torn \in BOOLEAN /\ job.ok \in BOOLEAN
        /\ <<>> \in Seq(Steps(Limit))
    BY <1>0, JobFacts
  <2>2. job' = Carried("undo", <<>>, job.undo, job.torn, job.ok)
    BY <1>0, JobForms DEF Fail
  <2>3. /\ SameCall /\ Limit' = Limit /\ ~Idle' /\ job' \in Jobs(Limit)'
        /\ job'.pc = "undo" /\ job'.todo = <<>> /\ job'.undo = job.undo
    BY <1>0, <2>1, <2>2, CarriedFacts
  <2> QED BY <1>0, <2>3
<1>3. HandleTypeOK'
  BY <1>0, <1>1, <1>2, TypeStep
<1>4. Lists'
  BY <1>0, <1>1, <1>2, ListsStep
<1>5. TodoOK'
  BY <1>2 DEF TodoOK
<1>6. AddingOK'
  BY <1>0, <1>1, <1>2 DEF AddingOK, SameCall
<1>7. WindowOK'
  <2>1. ~job.full => Fresh(job.scanOff)'
    BY <1>0, <1>2 DEF Fresh, SameCall
  <2>2. ~full => Fresh(scanOff)'
    <3>1. ASSUME ~full PROVE Fresh(scanOff)
      <4>1. Fresh(job.scanOff)
        BY <1>0, <3>1
      <4>2. \A i \in scanOff .. win.off + win.size - 1 : i \in job.scanOff .. win.off + win.size - 1
        <5>1. win.off \in Nat /\ win.size \in Int
          BY ScanFacts
        <5> QED BY <1>0, <5>1
      <4> QED BY <4>1, <4>2 DEF Fresh
    <3> QED BY <1>0, <1>1, <3>1 DEF Fresh
  <2>3. job'.scanOff = job.scanOff /\ job'.full = job.full /\ job'.op = job.op
    BY <1>2 DEF SameCall
  <2>4. ~full' => Fresh(scanOff)'
    BY <1>1, <2>2 DEF Fresh
  <2>5. ~job'.full => Fresh(job.scanOff)'
    BY <2>1, <2>3 DEF Fresh
  <2> QED BY <1>2, <2>4, <2>5 DEF WindowOK
<1>8. Reach'
  BY <1>2, EmptyShifts, NoShiftsOrdered DEF Reach
<1>9. Kept(Limit)'
  BY <1>0, <1>1, <1>2 DEF Kept, SameCall
<1> QED BY <1>3, <1>4, <1>5, <1>6, <1>7, <1>8, <1>9 DEF Good

\* A scan fails.
LEMMA ScanErrorStep ==
    ASSUME Good, ScanError
    PROVE  Good'
<1>1. /\ job.pc = "scan" /\ Fail /\ win' = WindowAfter(scanOff, 1)
      /\ UNCHANGED <<dev, sh, faults, mem, edits, damaged>>
  BY DEF ScanError, Scanning
<1>2. HandleTypeOK /\ scanOff \in Nat /\ faults \in Nat
  BY <1>1, ScanFacts
<1>3. /\ win'.off \in Nat /\ win'.size \in Int
      /\ \A from \in Nat : Fresh(from) => Fresh(from)'
  BY <1>1, <1>2, ReadFresh
<1> QED BY <1>1, <1>2, <1>3, FailStep

\* A call fails before its first step.
LEMMA PrepareFailsStep ==
    ASSUME Good, PrepareFails
    PROVE  Good'
<1>1. /\ job.pc = "scan" /\ Fail /\ win' = win /\ faults' = faults + 1
      /\ UNCHANGED <<dev, sh, mem, edits, damaged>>
  BY DEF PrepareFails, Fallible
<1>2. faults \in Nat /\ win.off \in Nat /\ win.size \in Int
  BY <1>1, ScanFacts
<1>3. \A from \in Nat : Fresh(from) => Fresh(from)'
  BY <1>1 DEF Fresh
<1> QED BY <1>1, <1>2, <1>3, FailStep

\* A selection.
LEMMA PlanSelectStep ==
    ASSUME Good, PlanSelect
    PROVE  Good'
<1>1. /\ job.pc = "scan" /\ job' = NoJob
      /\ chdu' = IF job.op.n \in 1 .. Len(hdus) THEN job.op.n - 1 ELSE chdu
      /\ UNCHANGED <<dev, sh, faults, hdus, scanOff, full, win, edits, damaged>>
  BY DEF PlanSelect, Scanned
<1>2. /\ HandleTypeOK /\ sh.pc = "idle" /\ IsDevice(dev) /\ faults \in Nat
      /\ hdus \in Seq(HduRec) /\ chdu \in Nat /\ scanOff \in Nat /\ full \in BOOLEAN
      /\ win.off \in Nat /\ win.size \in Int /\ edits \in Nat /\ damaged \in BOOLEAN
      /\ job.scanOff \in Nat /\ (job.full => full) /\ job.scanOff <= scanOff
      /\ Len(hdus) \in Nat /\ ListOK(hdus, scanOff, full)
      /\ (~job.full => Fresh(job.scanOff))
  BY <1>1, ScanFacts
<1>3. chdu' \in Nat
  BY <1>1, <1>2
<1>4. ~full => Fresh(scanOff)'
  <2>1. ASSUME ~full PROVE Fresh(scanOff)
    <3>1. Fresh(job.scanOff)
      BY <1>2, <2>1
    <3>2. \A i \in scanOff .. win.off + win.size - 1 : i \in job.scanOff .. win.off + win.size - 1
      BY <1>2
    <3> QED BY <3>1, <3>2 DEF Fresh
  <2> QED BY <1>1, <2>1 DEF Fresh
<1>5. Ordered(hdus', scanOff') /\ (~full' => Len(hdus') <= MaxHduCount /\ Fresh(scanOff)')
  BY <1>1, <1>2, <1>4 DEF ListOK
<1> QED BY <1>1, <1>2, <1>3, <1>5, IdleGood

-----------------------------------------------------------------------------
(* A plan: the steps of a call, typed and in order.                         *)

\* A call that has been planned: what its steps must be for it to be carried out.
LEMMA PlanStep ==
    ASSUME Good, job.pc = "scan", full, job.op.op # "select", Planning,
           NEW todo \in Seq(Steps(Limit)), NEW undo \in Seq(ArmedSteps(Limit)), Plan(todo, undo),
           \A i \in DOMAIN todo :
              /\ todo[i].k \in {"keep", "adopt"} /\ job.op.op \in Whole => i = Len(todo)
              /\ todo[i].k = "adopt" => job.op.op = "copy" /\ todo[i].off = scanOff
              /\ todo[i].k = "arm" => job.op.op = "rows"
              /\ todo[i].k = "shift" => job.op.op \notin Adding
              /\ todo[i].k = "size" => job.op.op \in Adding,
           job.op.op = "structure" => undo # <<>> /\ undo[Len(undo)].k = "unload",
           job.op.op \in Adding => undo = SizeCall(dev.size),
           Limit > 0 => TodoOrder(todo, dev.size)
    PROVE  Good'
<1>0. /\ HandleTypeOK /\ Lists /\ TodoOK /\ WindowOK /\ Limit \in Nat /\ ~Idle
      /\ sh.pc = "idle" /\ Kept(Limit)
      /\ IsDevice(dev) /\ dev.size \in Nat /\ dev = job.was /\ faults \in Nat
      /\ hdus \in Seq(HduRec) /\ chdu \in Nat /\ scanOff \in Nat
      /\ win.off \in Nat /\ win.size \in Int /\ edits \in Nat /\ damaged \in BOOLEAN
      /\ Len(job.hdus) <= Len(hdus) /\ chdu = job.chdu
      /\ \A i \in DOMAIN job.hdus : hdus[i] = job.hdus[i]
      /\ ListOK(hdus, scanOff, full) /\ ListOK(job.hdus, job.scanOff, job.full)
      /\ job.op.op \in {"header", "structure", "rows"} => job.op.n \in DOMAIN job.hdus
  BY ScanFacts
<1>1. dev' = dev /\ sh' = sh /\ hdus' = hdus /\ chdu' = chdu /\ scanOff' = scanOff /\ full' = full
      /\ faults' = faults /\ win' = win /\ edits' = edits /\ damaged' = damaged /\ mem' = mem
  BY DEF Planning, mem
<1>2. undo \in Seq(UndoSteps(Limit)) /\ Shifts(undo) = {}
  BY <1>0, ArmedFacts
<1>3. /\ SameCall /\ Limit' = Limit /\ ~Idle' /\ job' \in Jobs(Limit)'
      /\ job'.pc = "run" /\ job'.todo = todo /\ job'.undo = undo
  <2>1. job.torn \in BOOLEAN /\ job.ok \in BOOLEAN
    BY <1>0, JobFacts
  <2>2. job' = Carried("run", todo, undo, job.torn, job.ok)
    BY <1>0, JobForms DEF Plan
  <2> DEFINE pc == "run"
  <2>3. pc \in {"run", "undo"} /\ job' = Carried(pc, todo, undo, job.torn, job.ok)
    BY <2>2
  <2> HIDE DEF pc
  <2>4. /\ SameCall /\ Limit' = Limit /\ ~Idle' /\ job' \in Jobs(Limit)'
        /\ job'.pc = pc /\ job'.todo = todo /\ job'.undo = undo
    BY <1>0, <1>2, <2>1, <2>3, CarriedFacts
  <2> QED BY <2>4 DEF pc
<1>4. HandleTypeOK'
  BY <1>0, <1>1, <1>3, TypeStep
<1>5. Lists'
  <2>1. job'.pc \in {"run", "undo"}
    BY <1>3
  <2> QED BY <1>0, <1>1, <1>3, <2>1, ListsStep
<1>6. TodoOK'
  BY <1>1, <1>3 DEF TodoOK, SameCall
<1>7. WindowOK'
  BY <1>1, <1>3 DEF WindowOK, SameCall
<1>8. AddingOK'
  BY <1>0, <1>3 DEF AddingOK, SameCall
<1>9. Base' = dev.size
  BY <1>0, <1>1 DEF Base
<1>10. Reach'
  <2>1. UndoOrder(undo, dev.size) /\ \A i \in Shifts(todo), j \in Shifts(undo) : FALSE
    BY <1>2, NoShiftsOrdered
  <2> QED BY <1>3, <1>9, <2>1 DEF Reach
<1>11. Kept(Limit)'
  BY <1>0, <1>1, <1>3 DEF Kept, SameCall
<1> QED BY <1>4, <1>5, <1>6, <1>7, <1>8, <1>10, <1>11 DEF Good

\* The steps that neither move data nor change the list, the size or the rollback; and those
\* of an addition, and of a change of rows.
Plain(F) ==
    WriteSteps(F) \cup [k : {"alloc", "fresh", "swap", "invalid"}] \cup [k : {"need"}, n : Int]
AddSteps(F) == Plain(F) \cup SizeSteps(F)
ArmSteps(F) == [k : {"arm"}, undo : Seq(ArmedSteps(F))]
RowSteps(F) == Plain(F) \cup KeepSteps \cup ArmSteps(F)

\* Which steps are of which kind.
LEMMA PlainKinds ==
    ASSUME NEW F
    PROVE  /\ Plain(F) \subseteq AddSteps(F) /\ Plain(F) \subseteq RowSteps(F)
           /\ AddSteps(F) \subseteq Steps(F) /\ RowSteps(F) \subseteq Steps(F)
           /\ ShiftSteps(F) \subseteq Steps(F) /\ KeepSteps \subseteq RowSteps(F)
           /\ \A c \in Plain(F) : c.k \notin {"keep", "adopt", "arm", "shift", "size"}
           /\ \A c \in AddSteps(F) : c.k \notin {"keep", "adopt", "arm", "shift"}
           /\ \A c \in RowSteps(F) : /\ c.k \notin {"adopt", "shift", "size"}
                                     /\ c.k = "arm" => c \in ArmSteps(F)
           /\ \A c \in ShiftSteps(F) : c.k = "shift"
           /\ \A c \in KeepSteps : c.k = "keep"
<1>1. \A c \in WriteSteps(F) : c.k = "write"
  BY DEF WriteSteps
<1>2. /\ \A c \in [k : {"alloc", "fresh", "swap", "invalid"}] : c.k \in {"alloc", "fresh", "swap", "invalid"}
      /\ \A c \in [k : {"need"}, n : Int] : c.k = "need"
      /\ \A c \in SizeSteps(F) : c.k = "size"
      /\ \A c \in ArmSteps(F) : c.k = "arm"
  BY DEF SizeSteps, ArmSteps
<1>3. /\ \A c \in ShiftSteps(F) : c.k = "shift"
      /\ \A c \in KeepSteps : c.k = "keep"
  BY DEF ShiftSteps, KeepSteps
<1>4. \A c \in Plain(F) : c.k \in {"write", "alloc", "fresh", "swap", "invalid", "need"}
  BY <1>1, <1>2 DEF Plain
<1>5. /\ Plain(F) \subseteq AddSteps(F) /\ Plain(F) \subseteq RowSteps(F)
      /\ KeepSteps \subseteq RowSteps(F)
  BY DEF AddSteps, RowSteps
<1>6. AddSteps(F) \subseteq Steps(F) /\ RowSteps(F) \subseteq Steps(F)
      /\ ShiftSteps(F) \subseteq Steps(F)
  BY DEF AddSteps, RowSteps, ArmSteps, Plain, Steps
<1>7. \A c \in AddSteps(F) : c.k \notin {"keep", "adopt", "arm", "shift"}
  BY <1>2, <1>4 DEF AddSteps
<1>8. \A c \in RowSteps(F) : /\ c.k \notin {"adopt", "shift", "size"}
                             /\ c.k = "arm" => c \in ArmSteps(F)
  BY <1>2, <1>3, <1>4 DEF RowSteps
<1> QED BY <1>3, <1>4, <1>5, <1>6, <1>7, <1>8

\* Two lists of steps, one behind the other.
LEMMA JoinFacts ==
    ASSUME NEW S, NEW a \in Seq(S), NEW b \in Seq(S)
    PROVE  /\ a \o b \in Seq(S) /\ Len(a \o b) = Len(a) + Len(b) /\ Len(a) \in Nat /\ Len(b) \in Nat
           /\ DOMAIN a = 1 .. Len(a) /\ DOMAIN b = 1 .. Len(b)
           /\ DOMAIN (a \o b) = 1 .. Len(a) + Len(b)
           /\ \A i \in DOMAIN a : i \in DOMAIN (a \o b) /\ (a \o b)[i] = a[i]
           /\ \A i \in DOMAIN (a \o b) :
                \/ i \in DOMAIN a /\ (a \o b)[i] = a[i]
                \/ /\ i > Len(a) /\ i - Len(a) \in DOMAIN b /\ (a \o b)[i] = b[i - Len(a)]
<1>1. /\ a \o b \in Seq(S) /\ Len(a \o b) = Len(a) + Len(b)
      /\ \A i \in 1 .. Len(a) + Len(b) :
            (a \o b)[i] = IF i <= Len(a) THEN a[i] ELSE b[i - Len(a)]
  BY ConcatProperties
<1>2. /\ Len(a) \in Nat /\ Len(b) \in Nat /\ DOMAIN a = 1 .. Len(a) /\ DOMAIN b = 1 .. Len(b)
  OBVIOUS
<1>3. DOMAIN (a \o b) = 1 .. Len(a) + Len(b)
  BY <1>1, LenProperties
<1>4. \A i \in 1 .. Len(a) : i \in 1 .. Len(a) + Len(b) /\ (a \o b)[i] = a[i]
  BY <1>1, <1>2
<1>5. ASSUME NEW i \in 1 .. Len(a) + Len(b), i > Len(a)
      PROVE  i - Len(a) \in 1 .. Len(b) /\ (a \o b)[i] = b[i - Len(a)]
  BY <1>1, <1>2, <1>5
<1>6. \A i \in 1 .. Len(a) + Len(b) :
         \/ i \in 1 .. Len(a) /\ (a \o b)[i] = a[i]
         \/ i > Len(a) /\ i - Len(a) \in 1 .. Len(b) /\ (a \o b)[i] = b[i - Len(a)]
  BY <1>2, <1>4, <1>5
<1> QED BY <1>1, <1>2, <1>3, <1>4, <1>6

\* Shifts that are in order, with other steps behind them.
LEMMA JoinOrder ==
    ASSUME NEW S, NEW a \in Seq(S), NEW b \in Seq(S), Shifts(b) = {}, NEW size,
           TodoOrder(a, size)
    PROVE  TodoOrder(a \o b, size)
<1> DEFINE q == a \o b
<1>1. /\ \A i \in DOMAIN a : i \in DOMAIN q /\ q[i] = a[i]
      /\ \A i \in DOMAIN q :
           \/ i \in DOMAIN a /\ q[i] = a[i]
           \/ i - Len(a) \in DOMAIN b /\ q[i] = b[i - Len(a)]
  BY JoinFacts
<1> HIDE DEF q
<1>2. Shifts(q) = Shifts(a)
  <2>1. ASSUME NEW i \in Shifts(q) PROVE i \in Shifts(a)
    <3>1. i \in DOMAIN q /\ q[i].k = "shift"
      BY DEF Shifts
    <3>2. CASE i \in DOMAIN a /\ q[i] = a[i]
      BY <3>1, <3>2 DEF Shifts
    <3>3. CASE i - Len(a) \in DOMAIN b /\ q[i] = b[i - Len(a)]
      BY <3>1, <3>3 DEF Shifts
    <3> QED BY <1>1, <3>1, <3>2, <3>3
  <2>2. ASSUME NEW i \in Shifts(a) PROVE i \in Shifts(q)
    BY <1>1 DEF Shifts
  <2> QED BY <2>1, <2>2
<1>3. \A i \in Shifts(a) : q[i] = a[i]
  BY <1>1 DEF Shifts
<1>4. TodoOrder(q, size)
  <2>1. ASSUME NEW i \in Shifts(q), \A j \in Shifts(q) : i <= j PROVE q[i].from <= size
    BY <1>2, <1>3, <2>1 DEF TodoOrder
  <2>2. ASSUME NEW i \in Shifts(q), NEW j \in Shifts(q), i < j
        PROVE  /\ q[j].from <= size + q[i].delta /\ q[i].from + q[i].delta <= Bottom(q[j])
               /\ Shifts(q) = {i, j}
    BY <1>2, <1>3, <2>2 DEF TodoOrder
  <2> QED BY <2>1, <2>2 DEF TodoOrder
<1> QED BY <1>4 DEF q

\* The plan of an append or a copy: one step behind the others changes the list.
LEMMA AddPlan ==
    ASSUME Good, job.pc = "scan", full, job.op.op \in Adding, Planning,
           NEW body \in Seq(AddSteps(Limit)), NEW x,
           \/ x \in KeepSteps
           \/ x \in [k : {"adopt"}, off : Nat] /\ x.off = scanOff /\ job.op.op = "copy",
           Plan(body \o <<x>>, SizeCall(dev.size))
    PROVE  Good'
<1> DEFINE todo == body \o <<x>>
<1>0. Limit \in Nat /\ dev.size \in Nat /\ dev = job.was /\ ~Idle
  BY ScanFacts
<1>1. Limit = dev.size
  BY <1>0 DEF Limit, Adding
<1>2. x \in Steps(Limit) /\ x.k \in {"keep", "adopt"} /\ (x.k = "adopt" => job.op.op = "copy" /\ x.off = scanOff)
  BY PlainKinds DEF Steps
<1>3. body \in Seq(Steps(Limit)) /\ <<x>> \in Seq(Steps(Limit)) /\ Len(<<x>>) = 1 /\ <<x>>[1] = x
  BY <1>2, PlainKinds
<1>4. /\ todo \in Seq(Steps(Limit)) /\ Len(todo) = Len(body) + 1 /\ Len(body) \in Nat
      /\ DOMAIN body = 1 .. Len(body) /\ DOMAIN <<x>> = 1 .. 1
      /\ \A i \in DOMAIN todo :
           \/ i \in DOMAIN body /\ todo[i] = body[i]
           \/ i > Len(body) /\ i - Len(body) \in DOMAIN <<x>> /\ todo[i] = <<x>>[i - Len(body)]
  BY <1>3, JoinFacts
<1> HIDE DEF todo
<1>5. \A i \in DOMAIN body : body[i] \in AddSteps(Limit)
  OBVIOUS
<1>6. ASSUME NEW i \in DOMAIN todo
      PROVE  \/ todo[i].k \notin {"keep", "adopt", "arm", "shift"}
             \/ i = Len(todo) /\ todo[i] = x
  <2>1. CASE i \in DOMAIN body /\ todo[i] = body[i]
    BY <1>5, <2>1, PlainKinds
  <2>2. CASE i > Len(body) /\ i - Len(body) \in DOMAIN <<x>> /\ todo[i] = <<x>>[i - Len(body)]
    <3>1. i \in Int /\ i - Len(body) = 1
      <4>1. i \in 1 .. Len(todo)
        BY <1>4
      <4> QED BY <4>1, <1>4, <2>2
    <3>2. i = Len(todo)
      BY <3>1, <1>4
    <3> QED BY <3>1, <3>2, <1>3, <2>2
  <2> QED BY <1>4, <2>1, <2>2
<1>7. \A i \in DOMAIN todo :
        /\ todo[i].k \in {"keep", "adopt"} /\ job.op.op \in Whole => i = Len(todo)
        /\ todo[i].k = "adopt" => job.op.op = "copy" /\ todo[i].off = scanOff
        /\ todo[i].k = "arm" => job.op.op = "rows"
        /\ todo[i].k = "shift" => job.op.op \notin Adding
        /\ todo[i].k = "size" => job.op.op \in Adding
  BY <1>2, <1>6
<1>8. TodoOrder(todo, dev.size)
  <2>1. Shifts(todo) = {}
    BY <1>2, <1>6 DEF Shifts
  <2> QED BY <2>1, NoShiftsOrdered
<1>9. SizeCall(dev.size) \in Seq(ArmedSteps(Limit))
  <2>1. [k |-> "size", n |-> dev.size] \in SizeSteps(Limit)
    BY <1>0, <1>1 DEF SizeSteps
  <2> QED BY <2>1 DEF SizeCall, ArmedSteps
<1>10. job.op.op # "select" /\ job.op.op # "structure" /\ Plan(todo, SizeCall(dev.size))
  BY DEF Adding, todo
<1> QED BY <1>4, <1>7, <1>8, <1>9, <1>10, PlanStep

\* The plan of a header: shifts, steps on the device and the window, and last the list.
LEMMA HeaderPlan ==
    ASSUME Good, job.pc = "scan", full, job.op.op \in {"header", "structure"}, Planning,
           NEW lead \in Seq(ShiftSteps(Limit)), NEW body \in Seq(Plain(Limit)), NEW x \in KeepSteps,
           NEW undo \in Seq(ArmedSteps(Limit)), Plan(lead \o (body \o <<x>>), undo),
           job.op.op = "structure" => undo # <<>> /\ undo[Len(undo)].k = "unload",
           Limit > 0 => TodoOrder(lead, dev.size)
    PROVE  Good'
<1> DEFINE rest == body \o <<x>> todo == lead \o rest
<1>2. x \in Steps(Limit) /\ x.k = "keep"
  BY PlainKinds DEF Steps
<1>3. /\ body \in Seq(Steps(Limit)) /\ <<x>> \in Seq(Steps(Limit)) /\ Len(<<x>>) = 1
      /\ <<x>>[1] = x /\ lead \in Seq(Steps(Limit))
  BY <1>2, PlainKinds
<1>4. /\ rest \in Seq(Steps(Limit)) /\ Len(rest) = Len(body) + 1 /\ Len(body) \in Nat
      /\ DOMAIN body = 1 .. Len(body) /\ DOMAIN <<x>> = 1 .. 1
      /\ \A i \in DOMAIN rest :
           \/ i \in DOMAIN body /\ rest[i] = body[i]
           \/ i > Len(body) /\ i - Len(body) \in DOMAIN <<x>> /\ rest[i] = <<x>>[i - Len(body)]
  BY <1>3, JoinFacts
<1> HIDE DEF rest
<1>5. \A i \in DOMAIN body : body[i] \in Plain(Limit)
  OBVIOUS
<1>6. ASSUME NEW i \in DOMAIN rest
      PROVE  \/ rest[i].k \notin {"keep", "adopt", "arm", "shift", "size"}
             \/ i = Len(rest) /\ rest[i] = x
  <2>1. CASE i \in DOMAIN body /\ rest[i] = body[i]
    BY <1>5, <2>1, PlainKinds
  <2>2. CASE i > Len(body) /\ i - Len(body) \in DOMAIN <<x>> /\ rest[i] = <<x>>[i - Len(body)]
    <3>1. i \in Int /\ i - Len(body) = 1
      <4>1. i \in 1 .. Len(rest)
        BY <1>4
      <4> QED BY <4>1, <1>4, <2>2
    <3>2. i = Len(rest)
      BY <3>1, <1>4
    <3> QED BY <3>1, <3>2, <1>3, <2>2
  <2> QED BY <1>4, <2>1, <2>2
<1>7. Shifts(rest) = {}
  BY <1>2, <1>6 DEF Shifts
<1>8. /\ todo \in Seq(Steps(Limit)) /\ Len(todo) = Len(lead) + Len(rest) /\ Len(lead) \in Nat
      /\ Len(rest) \in Nat /\ DOMAIN todo = 1 .. Len(lead) + Len(rest)
      /\ \A i \in DOMAIN todo :
           \/ i \in DOMAIN lead /\ todo[i] = lead[i]
           \/ i > Len(lead) /\ i - Len(lead) \in DOMAIN rest /\ todo[i] = rest[i - Len(lead)]
  <2>1. lead \in Seq(Steps(Limit)) /\ rest \in Seq(Steps(Limit))
    BY <1>3, <1>4
  <2> QED BY <2>1, JoinFacts
<1>9. Limit > 0 => TodoOrder(todo, dev.size)
  BY <1>3, <1>4, <1>7, JoinOrder
<1> HIDE DEF todo
<1>10. ASSUME NEW i \in DOMAIN todo
       PROVE  \/ todo[i].k \notin {"keep", "adopt", "arm", "size"}
              \/ i = Len(todo) /\ todo[i] = x
  <2>1. CASE i \in DOMAIN lead /\ todo[i] = lead[i]
    <3>1. lead[i] \in ShiftSteps(Limit)
      BY <2>1
    <3> QED BY <2>1, <3>1, PlainKinds
  <2>2. CASE i > Len(lead) /\ i - Len(lead) \in DOMAIN rest /\ todo[i] = rest[i - Len(lead)]
    <3>1. i - Len(lead) = Len(rest) => i = Len(todo)
      <4>1. i \in 1 .. Len(todo)
        BY <1>8
      <4> QED BY <4>1, <1>8
    <3> QED BY <3>1, <1>6, <2>2
  <2> QED BY <1>8, <2>1, <2>2
<1>11. \A i \in DOMAIN todo :
        /\ todo[i].k \in {"keep", "adopt"} /\ job.op.op \in Whole => i = Len(todo)
        /\ todo[i].k = "adopt" => job.op.op = "copy" /\ todo[i].off = scanOff
        /\ todo[i].k = "arm" => job.op.op = "rows"
        /\ todo[i].k = "shift" => job.op.op \notin Adding
        /\ todo[i].k = "size" => job.op.op \in Adding
  BY <1>2, <1>10 DEF Adding
<1>12. job.op.op # "select" /\ job.op.op \notin Adding /\ Plan(todo, undo)
  BY DEF Adding, todo, rest
<1> QED BY <1>8, <1>9, <1>11, <1>12, PlanStep

\* The plan of a deletion or of a change of rows: a shift, and steps of any other kind.
LEMMA RowPlan ==
    ASSUME Good, job.pc = "scan", full, job.op.op \in {"delete", "rows"}, Planning,
           NEW lead \in Seq(ShiftSteps(Limit)), NEW rest \in Seq(RowSteps(Limit)),
           job.op.op = "delete" => \A i \in DOMAIN rest : rest[i].k # "arm",
           Plan(lead \o rest, <<>>), Limit > 0 => TodoOrder(lead, dev.size)
    PROVE  Good'
<1> DEFINE todo == lead \o rest
<1>1. lead \in Seq(Steps(Limit)) /\ rest \in Seq(Steps(Limit))
  BY PlainKinds
<1>2. \A i \in DOMAIN rest : rest[i].k \notin {"adopt", "shift", "size"}
  <2>1. \A i \in DOMAIN rest : rest[i] \in RowSteps(Limit)
    OBVIOUS
  <2> QED BY <2>1, PlainKinds
<1>3. Shifts(rest) = {}
  BY <1>2 DEF Shifts
<1>4. /\ todo \in Seq(Steps(Limit))
      /\ \A i \in DOMAIN todo :
           \/ i \in DOMAIN lead /\ todo[i] = lead[i]
           \/ i > Len(lead) /\ i - Len(lead) \in DOMAIN rest /\ todo[i] = rest[i - Len(lead)]
  BY <1>1, JoinFacts
<1>5. Limit > 0 => TodoOrder(todo, dev.size)
  BY <1>1, <1>3, JoinOrder
<1> HIDE DEF todo
<1>6. ASSUME NEW i \in DOMAIN todo
      PROVE  todo[i].k \notin {"adopt", "size"} /\ (todo[i].k = "arm" => job.op.op = "rows")
  <2>1. CASE i \in DOMAIN lead /\ todo[i] = lead[i]
    <3>1. lead[i] \in ShiftSteps(Limit)
      BY <2>1
    <3> QED BY <2>1, <3>1, PlainKinds
  <2>2. CASE i > Len(lead) /\ i - Len(lead) \in DOMAIN rest /\ todo[i] = rest[i - Len(lead)]
    BY <1>2, <2>2
  <2> QED BY <1>4, <2>1, <2>2
<1>7. job.op.op \notin Whole /\ job.op.op \notin Adding /\ job.op.op # "select"
      /\ job.op.op # "structure" /\ Plan(todo, <<>>) /\ <<>> \in Seq(ArmedSteps(Limit))
  BY DEF Whole, Adding, todo
<1> QED BY <1>4, <1>5, <1>6, <1>7, PlanStep

-----------------------------------------------------------------------------
(* The calls a plan is made of.                                             *)

\* A write of a plan leaves the cells before F alone.
LEMMA WriteCallFacts ==
    ASSUME NEW F, NEW off \in Nat, off >= F, NEW n \in Nat, NEW cells \in [0 .. n - 1 -> Cell]
    PROVE  WriteCall(off, n, cells) \in Seq(WriteSteps(F))
<1>1. CASE n = 0
  BY <1>1 DEF WriteCall
<1>2. CASE n # 0
  <2>1. [k |-> "write", off |-> off, n |-> n, cells |-> cells] \in WriteSteps(F)
    <3>1. n \in Nat \ {0} /\ off \in {o \in Nat : o >= F}
      BY <1>2
    <3> QED BY <3>1 DEF WriteSteps
  <2> QED BY <1>2, <2>1 DEF WriteCall
<1> QED BY <1>1, <1>2

\* So does a fill.
LEMMA FillCallFacts ==
    ASSUME NEW F, NEW off \in Nat, off >= F, NEW n \in Nat, NEW v \in Cell
    PROVE  FillCall(off, n, v) \in Seq(WriteSteps(F))
<1>1. [i \in 0 .. n - 1 |-> v] \in [0 .. n - 1 -> Cell]
  OBVIOUS
<1> QED BY <1>1, WriteCallFacts DEF FillCall

\* The calls of a plan that neither move data nor change list, size or rollback.
LEMMA PlainCalls ==
    ASSUME NEW F
    PROVE  /\ \A q \in Seq(WriteSteps(F)) : q \in Seq(Plain(F))
           /\ \A k \in {"alloc", "fresh", "swap"} : Call(k) \in Seq(Plain(F))
           /\ \A valid \in BOOLEAN : CheckCall(valid) \in Seq(Plain(F))
           /\ \A n \in Int : NeedCall(n) \in Seq(Plain(F))
<1>1. WriteSteps(F) \subseteq Plain(F)
  BY DEF Plain
<1>2. \A k \in {"alloc", "fresh", "swap", "invalid"} : [k |-> k] \in Plain(F)
  BY DEF Plain
<1>3. \A n \in Int : [k |-> "need", n |-> n] \in Plain(F)
  BY DEF Plain
<1> QED BY <1>1, <1>2, <1>3 DEF Call, CheckCall, NeedCall

\* The call that changes the list.
LEMMA KeepCallFacts ==
    ASSUME NEW us \in Seq(HduRec), NEW cur \in Nat, NEW scan \in Nat, NEW last \in BOOLEAN,
           Ordered(us, scan)
    PROVE  \E x \in KeepSteps : KeepCall(us, cur, scan, last) = <<x>>
<1> DEFINE x == [k |-> "keep", us |-> us, cur |-> cur, scan |-> scan, last |-> last]
<1>1. x \in KeepSteps
  BY DEF KeepSteps
<1> QED BY <1>1 DEF KeepCall

\* A shift that is not reversed is one step, or none.
LEMMA OneWayFacts ==
    ASSUME NEW F \in Nat, NEW from \in Nat, NEW delta \in Int, NEW zero \in BOOLEAN,
           F <= from, F <= from + delta
    PROVE  /\ OneWay(from, delta, zero) \in Seq(ShiftSteps(F))
           /\ zero = FALSE => OneWay(from, delta, zero) \in Seq(BackShifts(F))
           /\ \A size : from <= size => TodoOrder(OneWay(from, delta, zero), size)
<1> DEFINE c == [k |-> "shift", from |-> from, delta |-> delta, zero |-> zero, back |-> <<>>]
<1>1. CASE delta = 0
  BY <1>1, EmptyShifts, NoShiftsOrdered DEF OneWay
<1>2. CASE delta # 0
  <2>1. Bottom(c) >= F
    BY DEF Bottom, Smaller
  <2>2. /\ c \in [k : {"shift"}, from : Nat, delta : Int \ {0}, zero : BOOLEAN, back : {<<>>}]
        /\ c \in [k : {"shift"}, from : Nat, delta : Int \ {0}, zero : BOOLEAN,
                  back : Seq(BackShifts(F))]
    BY <1>2
  <2>3. c \in ShiftSteps(F) /\ c \in BackShifts(F) /\ c.from = from
    BY <2>1, <2>2 DEF ShiftSteps, BackShifts
  <2>4. OneWay(from, delta, zero) = <<c>>
    BY <1>2 DEF OneWay
  <2> HIDE DEF c
  <2>5. Shifts(<<c>>) \subseteq {1} /\ <<c>>[1] = c
    BY DEF Shifts
  <2>6. \A size : from <= size => TodoOrder(<<c>>, size)
    BY <2>3, <2>5 DEF TodoOrder
  <2> QED BY <2>3, <2>4, <2>6
<1> QED BY <1>1, <1>2

\* A shift with its reverse is one step, or none.
LEMMA ReversibleFacts ==
    ASSUME NEW F \in Nat, NEW from \in Nat, NEW delta \in Int, F <= from, F <= from + delta
    PROVE  /\ Reversible(from, delta) \in Seq(ShiftSteps(F))
           /\ \A size : from <= size => TodoOrder(Reversible(from, delta), size)
           /\ delta = 0 => Reversible(from, delta) = <<>>
<1> DEFINE b == OneWay(from + delta, -delta, FALSE)
           c == [k |-> "shift", from |-> from, delta |-> delta, zero |-> FALSE, back |-> b]
<1>1. CASE delta = 0
  BY <1>1, EmptyShifts, NoShiftsOrdered DEF Reversible
<1>2. CASE delta # 0
  <2>1. b \in Seq(BackShifts(F))
    <3>1. from + delta \in Nat /\ -delta \in Int /\ F <= from + delta
          /\ F <= (from + delta) + (-delta)
      OBVIOUS
    <3> QED BY <3>1, OneWayFacts
  <2>2. c.back = OneWay(c.from + c.delta, -c.delta, FALSE) /\ c.from = from /\ c.delta = delta
    OBVIOUS
  <2>3. Reversible(from, delta) = <<c>>
    BY <1>2 DEF Reversible
  <2> HIDE DEF b
  <2>4. Bottom(c) >= F
    BY DEF Bottom, Smaller
  <2>5. c \in [k : {"shift"}, from : Nat, delta : Int \ {0}, zero : BOOLEAN,
               back : Seq(BackShifts(F))]
    BY <1>2, <2>1
  <2> HIDE DEF c
  <2>6. c \in ShiftSteps(F)
    BY <2>2, <2>4, <2>5 DEF ShiftSteps
  <2>7. Shifts(<<c>>) \subseteq {1} /\ <<c>>[1] = c
    BY DEF Shifts
  <2>8. \A size : from <= size => TodoOrder(<<c>>, size)
    BY <2>2, <2>7 DEF TodoOrder
  <2> QED BY <1>2, <2>2, <2>3, <2>6, <2>8
<1> QED BY <1>1, <1>2

\* Which shift that is.
LEMMA ReversibleShape ==
    ASSUME NEW from, NEW delta, delta # 0
    PROVE  LET q == Reversible(from, delta)
           IN  Len(q) = 1 /\ q[1].from = from /\ q[1].delta = delta
BY DEF Reversible

\* Two shifts: the second starts inside the file as the first leaves it, and behind its gap.
LEMMA TwoShifts ==
    ASSUME NEW F \in Nat, NEW from \in Nat, NEW delta \in Int, F <= from, F <= from + delta,
           NEW from2 \in Nat, NEW delta2 \in Int,
           from + delta <= from2, from + delta <= from2 + delta2,
           NEW size \in Int
    PROVE  /\ Reversible(from, delta) \o Reversible(from2, delta2) \in Seq(ShiftSteps(F))
           /\ from <= size /\ from2 <= size + delta =>
                TodoOrder(Reversible(from, delta) \o Reversible(from2, delta2), size)
<1> DEFINE a == Reversible(from, delta) b == Reversible(from2, delta2) S == ShiftSteps(F)
<1>0. F <= from2 /\ F <= from2 + delta2
  OBVIOUS
<1>1. /\ a \in Seq(S) /\ (from <= size => TodoOrder(a, size)) /\ (delta = 0 => a = <<>>)
      /\ delta # 0 => Len(a) = 1 /\ a[1].from = from /\ a[1].delta = delta
  <2>1. a \in Seq(S) /\ (delta = 0 => a = <<>>)
    BY ReversibleFacts
  <2>2. from <= size => TodoOrder(a, size)
    BY ReversibleFacts
  <2>3. delta # 0 => Len(a) = 1 /\ a[1].from = from /\ a[1].delta = delta
    BY ReversibleShape
  <2> QED BY <2>1, <2>2, <2>3
<1>2. /\ b \in Seq(S) /\ (from2 <= size => TodoOrder(b, size)) /\ (delta2 = 0 => b = <<>>)
      /\ delta2 # 0 => Len(b) = 1 /\ b[1].from = from2 /\ b[1].delta = delta2
  <2>1. b \in Seq(S) /\ (delta2 = 0 => b = <<>>)
    BY <1>0, ReversibleFacts
  <2>2. from2 <= size => TodoOrder(b, size)
    BY <1>0, ReversibleFacts
  <2>3. delta2 # 0 => Len(b) = 1 /\ b[1].from = from2 /\ b[1].delta = delta2
    BY ReversibleShape
  <2> QED BY <2>1, <2>2, <2>3
<1> HIDE DEF a, b, S
<1>3. a \o b \in Seq(S)
  BY <1>1, <1>2, ConcatProperties
<1>4. ASSUME from <= size, from2 <= size + delta PROVE TodoOrder(a \o b, size)
  <2>1. CASE delta = 0
    <3>1. a \o b = b
      BY <1>1, <1>2, <2>1, ConcatEmptySeq
    <3> QED BY <1>2, <1>4, <2>1, <3>1
  <2>2. CASE delta2 = 0
    <3>1. a \o b = a
      BY <1>1, <1>2, <2>2, ConcatEmptySeq
    <3> QED BY <1>1, <1>4, <3>1
  <2>3. CASE delta # 0 /\ delta2 # 0
    <3> DEFINE c == a[1] d == b[1] q == a \o b
    <3>1. Len(a) = 1 /\ c \in S /\ c.from = from /\ c.delta = delta
      <4>0. Len(a) = 1 /\ a[1].from = from /\ a[1].delta = delta
        <5>1. (delta # 0 => Len(a) = 1 /\ a[1].from = from /\ a[1].delta = delta) /\ delta # 0
          BY <1>1, <2>3, Zenon
        <5> QED BY <5>1, Zenon
      <4>1. Len(a) = 1 /\ a[1].from = from /\ a[1].delta = delta /\ 1 \in 1 .. Len(a)
        BY <4>0
      <4>2. a[1] \in S
        BY <4>1, <1>1, ElementOfSeq
      <4> QED BY <4>1, <4>2
    <3>2. Len(b) = 1 /\ d \in S /\ d.from = from2 /\ d.delta = delta2
      <4>1. Len(b) = 1 /\ b[1].from = from2 /\ b[1].delta = delta2 /\ 1 \in 1 .. Len(b)
        BY <1>2, <2>3
      <4>2. b[1] \in S
        BY <4>1, <1>2, ElementOfSeq
      <4> QED BY <4>1, <4>2
    <3>4. c.k = "shift" /\ d.k = "shift"
      BY <3>1, <3>2 DEF S, ShiftSteps
    <3>8. q \in Seq(S) /\ Len(q) = 2 /\ q[1] = c /\ q[2] = d
      <4>1. /\ q \in Seq(S) /\ Len(q) = Len(a) + Len(b)
            /\ \A i \in 1 .. Len(a) + Len(b) : q[i] = IF i <= Len(a) THEN a[i] ELSE b[i - Len(a)]
        BY <1>1, <1>2, ConcatProperties
      <4>2. 1 \in 1 .. 2 /\ 2 \in 1 .. 2 /\ 1 + 1 = 2 /\ 2 - 1 = 1 /\ ~(2 <= 1)
        OBVIOUS
      <4> HIDE DEF q
      <4> QED BY <3>1, <3>2, <4>1, <4>2
    <3> HIDE DEF c, d
    <3> HIDE DEF q
    <3>5. q[1] = c /\ q[2] = d /\ Shifts(q) = {1, 2}
      <4>1. DOMAIN q = 1 .. 2
        BY <3>8
      <4> QED BY <3>4, <3>8, <4>1 DEF Shifts
    <3>6. from + delta <= Bottom(d)
      BY <3>2 DEF Bottom, Smaller
    <3>7. TodoOrder(q, size)
      <4>1. ASSUME NEW i \in Shifts(q), \A j \in Shifts(q) : i <= j PROVE q[i].from <= size
        BY <1>4, <3>1, <3>5, <4>1
      <4>2. ASSUME NEW i \in Shifts(q), NEW j \in Shifts(q), i < j
            PROVE  /\ q[j].from <= size + q[i].delta /\ q[i].from + q[i].delta <= Bottom(q[j])
                   /\ Shifts(q) = {i, j}
        <5>1. i = 1 /\ j = 2
          BY <3>5, <4>2
        <5> QED BY <1>4, <3>1, <3>2, <3>5, <3>6, <5>1
      <4> QED BY <4>1, <4>2 DEF TodoOrder
    <3> QED BY <3>7 DEF q
  <2> QED BY <2>1, <2>2, <2>3
<1> QED BY <1>3, <1>4 DEF a, b, S

-----------------------------------------------------------------------------
(* The list after an edit.                                                  *)

\* A list whose n-th HDU has become w, the ones behind it moved: still one behind the other.
LEMMA EditOrdered ==
    ASSUME NEW us \in Seq(HduRec), NEW scan \in Nat, Ordered(us, scan), NEW n \in DOMAIN us,
           NEW delta \in Int, NEW w \in HduRec, w.hoff = us[n].hoff, w.hoff <= w.doff,
           NextOff(w) = NextOff(us[n]) + delta,
           NEW e, e = [i \in 1 .. Len(us) |-> e[i]], e[n] = w,
           \A i \in 1 .. Len(us) : i # n => e[i] = Following(us, n, delta)[i]
    PROVE  e \in Seq(HduRec) /\ Ordered(e, scan + delta) /\ scan + delta \in Nat
<1>1. Len(us) \in Nat /\ DOMAIN us = 1 .. Len(us) /\ n \in 1 .. Len(us)
  OBVIOUS
<1>2. \A i \in 1 .. Len(us) :
        /\ us[i] \in HduRec /\ us[i].hoff \in Nat /\ us[i].doff \in Nat /\ us[i].bytes \in Nat
        /\ NextOff(us[i]) \in Nat /\ us[i].hoff <= us[i].doff /\ us[i].doff <= NextOff(us[i])
        /\ NextOff(us[i]) <= scan
  <2>1. ASSUME NEW i \in 1 .. Len(us)
        PROVE  /\ us[i] \in HduRec /\ us[i].hoff <= us[i].doff /\ NextOff(us[i]) <= scan
    BY <1>1 DEF Ordered
  <2> QED BY <2>1, HduFacts
<1>3. \A i, j \in 1 .. Len(us) : i < j => NextOff(us[i]) <= us[j].hoff
  BY <1>1 DEF Ordered
<1>4. NextOff(w) \in Nat /\ w.hoff \in Nat /\ w.doff \in Nat /\ w.doff <= NextOff(w)
  BY HduFacts
<1>5. ASSUME NEW i \in 1 .. Len(us), i < n
      PROVE  e[i] = us[i]
  <2>1. i # n /\ ~(i > n)
    BY <1>1, <1>5
  <2> QED BY <2>1 DEF Following
<1>6. ASSUME NEW i \in 1 .. Len(us), i > n
      PROVE  /\ e[i] \in HduRec /\ e[i].hoff = us[i].hoff + delta
             /\ e[i].doff = us[i].doff + delta /\ NextOff(e[i]) = NextOff(us[i]) + delta
  <2> DEFINE u == us[i]
  <2>1. e[i] = [u EXCEPT !.hoff = @ + delta, !.doff = @ + delta]
    <3>1. i # n
      BY <1>1, <1>6
    <3>2. e[i] = Following(us, n, delta)[i]
      BY <3>1
    <3>3. Following(us, n, delta)[i] = [u EXCEPT !.hoff = @ + delta, !.doff = @ + delta]
      BY <1>6 DEF Following
    <3> QED BY <3>2, <3>3
  <2>2. /\ u \in HduRec /\ u.hoff \in Nat /\ u.doff \in Nat /\ u.hoff <= u.doff
        /\ NextOff(us[n]) <= u.hoff
    BY <1>1, <1>2, <1>3, <1>6
  <2>3. u.hoff + delta \in Nat /\ u.doff + delta \in Nat
    <3>1. NextOff(us[n]) + delta \in Nat /\ NextOff(us[n]) \in Nat
      BY <1>1, <1>2, <1>4
    <3> QED BY <2>2, <3>1
  <2> HIDE DEF u
  <2>4. /\ e[i] \in HduRec /\ e[i].hoff = u.hoff + delta
        /\ e[i].doff = u.doff + delta /\ e[i].bytes = u.bytes
    BY <2>1, <2>2, <2>3 DEF HduRec
  <2>5. NextOff(e[i]) = NextOff(u) + delta
    <3>1. DataSize(u.bytes) \in Nat
      BY <2>2, HduFacts
    <3> QED BY <2>2, <2>4, <3>1 DEF NextOff
  <2> QED BY <2>4, <2>5 DEF u
<1>7. \A i \in 1 .. Len(us) : e[i] \in HduRec
  <2>1. ASSUME NEW i \in 1 .. Len(us) PROVE e[i] \in HduRec
    <3>1. i < n \/ i = n \/ i > n
      BY <1>1
    <3>2. i = n => e[i] = w
      OBVIOUS
    <3> QED BY <1>2, <1>5, <1>6, <3>1, <3>2
  <2> QED BY <2>1
<1>8. e \in Seq(HduRec) /\ DOMAIN e = 1 .. Len(us)
  BY <1>1, <1>7, FunctionIsSeq
<1>9. scan + delta \in Nat /\ NextOff(w) <= scan + delta
  BY <1>1, <1>2, <1>4
<1>10. ASSUME NEW i \in 1 .. Len(us)
       PROVE  /\ e[i].hoff <= e[i].doff /\ NextOff(e[i]) <= scan + delta
  <2>1. CASE i < n
    <3>1. NextOff(us[i]) <= us[n].hoff
      BY <1>1, <1>3, <2>1
    <3> QED BY <1>1, <1>2, <1>4, <1>5, <1>9, <2>1, <3>1
  <2>2. CASE i = n
    BY <1>9, <2>2
  <2>3. CASE i > n
    <3>1. /\ us[i].hoff \in Nat /\ us[i].doff \in Nat /\ us[i].hoff <= us[i].doff
          /\ NextOff(us[i]) \in Nat /\ NextOff(us[i]) <= scan
      BY <1>2
    <3>2. /\ e[i].hoff = us[i].hoff + delta /\ e[i].doff = us[i].doff + delta
          /\ NextOff(e[i]) = NextOff(us[i]) + delta
      BY <1>6, <2>3
    <3> QED BY <3>1, <3>2
  <2> QED BY <1>1, <2>1, <2>2, <2>3
<1>11. ASSUME NEW i \in 1 .. Len(us), NEW j \in 1 .. Len(us), i < j
       PROVE  NextOff(e[i]) <= e[j].hoff
  <2>0. NextOff(us[i]) <= us[j].hoff /\ NextOff(us[i]) \in Nat /\ us[j].hoff \in Nat
        /\ NextOff(us[n]) \in Nat /\ us[n].hoff \in Nat /\ i \in Nat /\ j \in Nat /\ n \in Nat
    BY <1>1, <1>2, <1>3, <1>11
  <2>1. CASE j < n
    <3>1. i < n
      BY <1>11, <2>0, <2>1
    <3> QED BY <1>5, <2>0, <2>1, <3>1
  <2>2. CASE j = n
    BY <1>5, <1>11, <2>0, <2>2
  <2>3. CASE j > n /\ i = n
    BY <1>6, <2>0, <2>3
  <2>4. CASE j > n /\ i > n
    BY <1>6, <2>0, <2>4
  <2>5. CASE j > n /\ i < n
    <3>1. NextOff(us[i]) <= us[n].hoff /\ NextOff(us[n]) <= us[j].hoff
      BY <1>1, <1>3, <2>5
    <3>2. e[i] = us[i] /\ e[j].hoff = us[j].hoff + delta
      BY <1>5, <1>6, <2>5
    <3> QED BY <1>4, <2>0, <3>1, <3>2
  <2> QED BY <2>0, <2>1, <2>2, <2>3, <2>4, <2>5
<1>12. Ordered(e, scan + delta)
  BY <1>8, <1>10, <1>11 DEF Ordered
<1> QED BY <1>8, <1>9, <1>12

\* A list without its n-th HDU, the ones behind it moved up to its place.
LEMMA DeleteOrdered ==
    ASSUME NEW us \in Seq(HduRec), NEW scan \in Nat, Ordered(us, scan), NEW n \in DOMAIN us
    PROVE  LET delta == -Span(us[n])
               fs == Following(us, n, delta)
               d == SubSeq(fs, 1, n - 1) \o SubSeq(fs, n + 1, Len(fs))
           IN  d \in Seq(HduRec) /\ Ordered(d, scan + delta) /\ scan + delta \in Nat
<1> DEFINE delta == -Span(us[n])
           fs == Following(us, n, delta)
           d == SubSeq(fs, 1, n - 1) \o SubSeq(fs, n + 1, Len(fs))
<1>1. Len(us) \in Nat /\ DOMAIN us = 1 .. Len(us) /\ n \in 1 .. Len(us)
  OBVIOUS
<1>2. \A i \in 1 .. Len(us) :
        /\ us[i] \in HduRec /\ us[i].hoff \in Nat /\ us[i].doff \in Nat /\ us[i].bytes \in Nat
        /\ NextOff(us[i]) \in Nat /\ us[i].hoff <= us[i].doff /\ us[i].doff <= NextOff(us[i])
        /\ NextOff(us[i]) <= scan
  <2>1. ASSUME NEW i \in 1 .. Len(us)
        PROVE  /\ us[i] \in HduRec /\ us[i].hoff <= us[i].doff /\ NextOff(us[i]) <= scan
    BY <1>1 DEF Ordered
  <2> QED BY <2>1, HduFacts
<1>3. \A i, j \in 1 .. Len(us) : i < j => NextOff(us[i]) <= us[j].hoff
  BY <1>1 DEF Ordered
<1>4. delta \in Int /\ NextOff(us[n]) + delta = us[n].hoff
  BY <1>1, <1>2 DEF Span
<1> HIDE DEF delta
<1>5. ASSUME NEW i \in 1 .. Len(us), i < n
      PROVE  fs[i] = us[i]
  <2>1. ~(i > n)
    BY <1>1, <1>5
  <2> QED BY <2>1 DEF Following
<1>6. ASSUME NEW i \in 1 .. Len(us), i > n
      PROVE  /\ fs[i] \in HduRec /\ fs[i].hoff = us[i].hoff + delta
             /\ fs[i].doff = us[i].doff + delta /\ NextOff(fs[i]) = NextOff(us[i]) + delta
             /\ NextOff(us[n]) <= us[i].hoff
  <2> DEFINE u == us[i]
  <2>1. fs[i] = [u EXCEPT !.hoff = @ + delta, !.doff = @ + delta]
    BY <1>6 DEF Following
  <2>2. /\ u \in HduRec /\ u.hoff \in Nat /\ u.doff \in Nat /\ u.hoff <= u.doff
        /\ NextOff(us[n]) <= u.hoff
    BY <1>1, <1>2, <1>3, <1>6
  <2>3. u.hoff + delta \in Nat /\ u.doff + delta \in Nat
    <3>1. NextOff(us[n]) + delta \in Nat /\ NextOff(us[n]) \in Nat
      BY <1>1, <1>2, <1>4
    <3> QED BY <1>4, <2>2, <3>1
  <2> HIDE DEF u, fs
  <2>4. /\ fs[i] \in HduRec /\ fs[i].hoff = u.hoff + delta
        /\ fs[i].doff = u.doff + delta /\ fs[i].bytes = u.bytes
    BY <2>1, <2>2, <2>3 DEF HduRec
  <2>5. NextOff(fs[i]) = NextOff(u) + delta
    <3>1. DataSize(u.bytes) \in Nat
      BY <2>2, HduFacts
    <3> QED BY <1>4, <2>2, <2>4, <3>1 DEF NextOff
  <2> QED BY <2>2, <2>4, <2>5 DEF u
<1>7. fs = [i \in 1 .. Len(us) |-> fs[i]] /\ fs[n] = us[n]
  BY <1>1 DEF Following
<1> HIDE DEF fs
<1>8. fs \in Seq(HduRec) /\ Len(fs) = Len(us)
  <2>1. \A i \in 1 .. Len(us) : fs[i] \in HduRec
    BY <1>1, <1>2, <1>5, <1>6, <1>7
  <2> QED BY <1>1, <1>7, <2>1, FunctionIsSeq
<1>9. /\ d \in Seq(HduRec) /\ Len(d) = Len(us) - 1
      /\ \A i \in 1 .. Len(us) - 1 : d[i] = IF i < n THEN fs[i] ELSE fs[i + 1]
  <2>1. d = RemoveAt(fs, n)
    BY DEF RemoveAt
  <2> HIDE DEF d
  <2>2. n \in 1 .. Len(fs)
    BY <1>1, <1>8
  <2>3. /\ RemoveAt(fs, n) \in Seq(HduRec) /\ Len(RemoveAt(fs, n)) = Len(fs) - 1
        /\ \A j \in 1 .. Len(fs) - 1 :
             RemoveAt(fs, n)[j] = IF j < n THEN fs[j] ELSE fs[j + 1]
    BY <1>8, <2>2, RemoveFacts
  <2> QED BY <1>8, <2>1, <2>3
<1> HIDE DEF d
<1>10. DOMAIN d = 1 .. Len(us) - 1
  BY <1>9
<1>11. scan + delta \in Nat /\ NextOff(us[n]) <= scan /\ us[n].hoff <= scan + delta
  BY <1>1, <1>2, <1>4
<1>12. ASSUME NEW i \in 1 .. Len(us) - 1, i < n
       PROVE  /\ d[i] = us[i] /\ i \in 1 .. Len(us)
              /\ d[i].hoff <= d[i].doff /\ NextOff(d[i]) <= us[n].hoff /\ NextOff(d[i]) \in Nat
  <2>1. i \in 1 .. Len(us) /\ d[i] = us[i]
    BY <1>1, <1>5, <1>9, <1>12
  <2> QED BY <1>1, <1>2, <1>3, <1>12, <2>1
<1>13. ASSUME NEW i \in 1 .. Len(us) - 1, ~(i < n)
       PROVE  /\ i + 1 \in 1 .. Len(us) /\ d[i].hoff = us[i + 1].hoff + delta
              /\ d[i].doff = us[i + 1].doff + delta
              /\ NextOff(d[i]) = NextOff(us[i + 1]) + delta /\ us[n].hoff <= d[i].hoff
  <2>1. i + 1 \in 1 .. Len(us) /\ i + 1 > n /\ d[i] = fs[i + 1]
    BY <1>1, <1>9, <1>13
  <2>2. us[i + 1].hoff \in Nat /\ us[n].hoff \in Nat /\ NextOff(us[n]) \in Nat
    BY <1>1, <1>2, <2>1
  <2> QED BY <1>4, <1>6, <2>1, <2>2
<1>14. ASSUME NEW i \in 1 .. Len(us) - 1
       PROVE  d[i].hoff <= d[i].doff /\ NextOff(d[i]) <= scan + delta
  <2>1. CASE i < n
    BY <1>1, <1>2, <1>11, <1>12, <2>1
  <2>2. CASE ~(i < n)
    BY <1>2, <1>4, <1>13, <2>2
  <2> QED BY <2>1, <2>2
<1>15. ASSUME NEW i \in 1 .. Len(us) - 1, NEW j \in 1 .. Len(us) - 1, i < j
       PROVE  NextOff(d[i]) <= d[j].hoff
  <2>1. CASE j < n
    <3>1. i < n
      BY <1>1, <1>15, <2>1
    <3> QED BY <1>3, <1>12, <1>15, <2>1, <3>1
  <2>2. CASE ~(j < n) /\ i < n
    <3>1. /\ NextOff(d[i]) <= us[n].hoff /\ us[n].hoff <= d[j].hoff /\ NextOff(d[i]) \in Nat
          /\ us[n].hoff \in Nat
      BY <1>1, <1>2, <1>12, <1>13, <2>2
    <3>2. d[j].hoff \in Int
      <4>1. j + 1 \in 1 .. Len(us) /\ d[j].hoff = us[j + 1].hoff + delta
        BY <1>13, <2>2
      <4>2. us[j + 1].hoff \in Nat
        BY <1>2, <4>1
      <4> QED BY <1>4, <4>1, <4>2
    <3> QED BY <3>1, <3>2
  <2>3. CASE ~(i < n)
    <3>1. ~(j < n) /\ i + 1 < j + 1
      BY <1>1, <1>15, <2>3
    <3>2. NextOff(us[i + 1]) <= us[j + 1].hoff /\ NextOff(us[i + 1]) \in Nat /\ us[j + 1].hoff \in Nat
      BY <1>2, <1>3, <1>13, <2>3, <3>1
    <3>3. NextOff(d[i]) = NextOff(us[i + 1]) + delta /\ d[j].hoff = us[j + 1].hoff + delta
      BY <1>13, <2>3, <3>1
    <3> DEFINE a == NextOff(us[i + 1]) b == us[j + 1].hoff
    <3>4. a \in Nat /\ b \in Nat /\ a <= b /\ NextOff(d[i]) = a + delta /\ d[j].hoff = b + delta
      BY <3>2, <3>3
    <3> HIDE DEF a, b
    <3> QED BY <1>4, <3>4
  <2> QED BY <2>1, <2>2, <2>3
<1>16. Ordered(d, scan + delta)
  BY <1>10, <1>14, <1>15 DEF Ordered
<1> QED BY <1>9, <1>11, <1>16 DEF d, fs, delta

-----------------------------------------------------------------------------
(* The plans.                                                               *)

\* A call that edits is planned when every HDU is registered.
LEMMA ScannedFacts ==
    ASSUME Good, NEW op, Scanned(op), op # "select"
    PROVE  job.pc = "scan" /\ full /\ job.op.op = op
<1>1. job.pc = "scan" /\ (full \/ Len(hdus) >= job.want) /\ job.op.op = op
  BY DEF Scanned
<1>2. job.want = MaxHduCount + 1 /\ Len(hdus) \in Nat /\ (~full => Len(hdus) <= MaxHduCount)
  <2>1. /\ job.want = MaxHduCount + 1 \/ job.op.op = "select"
        /\ Len(hdus) \in Nat /\ ListOK(hdus, scanOff, full)
    BY <1>1, ScanFacts
  <2> QED BY <1>1, <2>1 DEF ListOK
<1>3. MaxHduCount \in Nat
  BY HandleAssumption
<1> QED BY <1>1, <1>2, <1>3

\* A call that is refused.
LEMMA RefusedStep ==
    ASSUME Good, job.pc = "scan", Planning, Fail
    PROVE  Good'
<1>1. UNCHANGED <<dev, sh, mem, edits, damaged>> /\ faults' = faults /\ win' = win
  BY DEF Planning
<1>2. faults \in Nat /\ win.off \in Nat /\ win.size \in Int
  BY ScanFacts
<1>3. \A from \in Nat : Fresh(from) => Fresh(from)'
  BY <1>1 DEF Fresh
<1> QED BY <1>1, <1>2, <1>3, FailStep

\* What a call was asked.
LEMMA OpFacts ==
    ASSUME NEW op \in Ops
    PROVE  /\ op.op \in {"append", "header", "structure", "rows"} => op.name \in Name
           /\ op.op \notin {"append"} => op.n \in Nat
<1>1. CASE op \in [op : {"select", "copy", "delete"}, n : Nat]
  BY <1>1
<1>2. CASE op \in [op : {"append"}, name : Name]
  BY <1>2
<1>3. CASE op \in [op : {"header", "structure", "rows"}, n : Nat, name : Name]
  BY <1>3
<1> QED BY <1>1, <1>2, <1>3 DEF Ops

\* The HDU a call edits: where it begins, and where the cells before it end.
LEMMA EditedFacts ==
    ASSUME Good, job.pc = "scan", full, job.op.op \in {"delete", "header", "structure", "rows"},
           job.op.n \in DOMAIN hdus
    PROVE  LET u == hdus[job.op.n]
           IN  /\ u \in HduRec /\ u.hoff <= u.doff /\ NextOff(u) <= scanOff
               /\ Limit <= u.hoff /\ (Limit > 0 => NextOff(u) <= dev.size)
<1> DEFINE u == hdus[job.op.n]
<1>1. /\ hdus \in Seq(HduRec) /\ ListOK(hdus, scanOff, full) /\ dev = job.was /\ ~Idle
      /\ DOMAIN hdus = 1 .. Len(hdus)
      /\ \A i \in DOMAIN job.hdus : hdus[i] = job.hdus[i]
  BY ScanFacts
<1>2. u \in HduRec /\ u.hoff <= u.doff /\ NextOff(u) <= scanOff
  <2>1. u \in HduRec
    BY <1>1
  <2> QED BY <1>1, <2>1 DEF ListOK, Ordered
<1>3. u.hoff \in Nat
  BY <1>2, HduFacts
<1>4. \/ Limit = 0
      \/ Limit = u.hoff /\ NextOff(u) <= dev.size
  <2>1. job.op.op \notin Adding /\ job.op.op # "select"
    BY DEF Adding
  <2> QED BY <1>1, <2>1 DEF Limit
<1> QED BY <1>2, <1>3, <1>4

\* The cells of a device that are read.
LEMMA SliceFacts ==
    ASSUME NEW d, IsDevice(d), NEW off \in Nat, NEW n \in Nat, off + n <= d.size
    PROVE  Slice(d, off, n) \in [0 .. n - 1 -> Cell]
<1>1. \A i \in 0 .. n - 1 : d.at[off + i] \in Cell
  BY DEF IsDevice
<1> QED BY <1>1 DEF Slice

\* An append.
LEMMA PlanAppendStep ==
    ASSUME Good, PlanAppend
    PROVE  Good'
<1>0. Scanned("append") /\ Planning
  BY DEF PlanAppend
<1>1. job.pc = "scan" /\ full /\ job.op.op = "append"
  BY <1>0, ScannedFacts
<1> DEFINE h == job.op.name
           u == NewHdu(h, scanOff)
           end == NextOff(u)
           grow == IF end > Larger(dev.size, u.doff) THEN SizeCall(end) ELSE <<>>
           fill == IF Hdr[h].ascii THEN FillCall(u.doff, DataSize(u.bytes), Space) ELSE <<>>
           body == WriteCall(scanOff, HdrSize(h), HeaderCells(h))
                     \o CheckCall(Hdr[h].ext = (hdus # <<>>)) \o grow \o fill \o Call("alloc")
<1>2. CASE Fail
  BY <1>0, <1>1, <1>2, RefusedStep
<1>3. CASE /\ ~SpecialRecords
           /\ Plan(body \o KeepCall(Append(hdus, u), Len(hdus), end, TRUE), AddUndo)
  <2>1. /\ HandleTypeOK /\ ~Idle /\ dev = job.was /\ dev.size \in Nat /\ Limit \in Nat
        /\ hdus \in Seq(HduRec) /\ scanOff \in Nat /\ Len(hdus) \in Nat
        /\ ListOK(hdus, scanOff, full)
    BY <1>1, ScanFacts
  <2>2. h \in Name
    <3>1. job.op \in Ops
      BY <2>1, JobFacts
    <3> QED BY <1>1, <3>1, OpFacts
  <2>3. Limit = dev.size /\ Limit <= scanOff
    <3>1. Limit = dev.size
      BY <1>1, <2>1 DEF Limit, Adding
    <3> QED BY <1>3, <2>1, <3>1 DEF SpecialRecords
  <2>4. /\ u \in HduRec /\ u.doff = scanOff + HdrSize(h) /\ scanOff <= u.doff /\ u.doff \in Nat
        /\ end \in Nat /\ scanOff <= end /\ u.bytes \in Nat /\ DataSize(u.bytes) \in Nat
    BY <2>1, <2>2, NewHduFacts, HduFacts
  <2>5. HdrSize(h) \in Nat /\ HeaderCells(h) \in [0 .. HdrSize(h) - 1 -> Cell] /\ Space \in Cell
    BY <2>2, HdrFacts, HandleAssumption
  <2> DEFINE S == AddSteps(Limit)
  <2>6. WriteCall(scanOff, HdrSize(h), HeaderCells(h)) \in Seq(S)
    <3>1. WriteCall(scanOff, HdrSize(h), HeaderCells(h)) \in Seq(WriteSteps(Limit))
      BY <2>1, <2>3, <2>5, WriteCallFacts
    <3> QED BY <3>1, PlainCalls, PlainKinds
  <2>7. /\ CheckCall(Hdr[h].ext = (hdus # <<>>)) \in Seq(S) /\ Call("alloc") \in Seq(S)
    <3>1. (Hdr[h].ext = (hdus # <<>>)) \in BOOLEAN
      OBVIOUS
    <3> DEFINE valid == (Hdr[h].ext = (hdus # <<>>))
    <3> HIDE DEF valid
    <3>2. valid \in BOOLEAN
      BY <3>1 DEF valid
    <3>3. CheckCall(valid) \in Seq(Plain(Limit)) /\ Call("alloc") \in Seq(Plain(Limit))
      BY <3>2, PlainCalls
    <3> QED BY <3>3, PlainKinds DEF valid
  <2>8. grow \in Seq(S)
    <3>1. end >= Limit
      BY <2>1, <2>3, <2>4
    <3>2. SizeCall(end) \in Seq(S)
      BY <2>4, <3>1 DEF SizeCall, AddSteps, SizeSteps
    <3> QED BY <3>2
  <2>9. fill \in Seq(S)
    <3>1. u.doff >= Limit
      BY <2>1, <2>3, <2>4
    <3>2. FillCall(u.doff, DataSize(u.bytes), Space) \in Seq(WriteSteps(Limit))
      BY <2>4, <2>5, <3>1, FillCallFacts
    <3> QED BY <3>2, PlainCalls, PlainKinds
  <2>10. \E x \in KeepSteps : KeepCall(Append(hdus, u), Len(hdus), end, TRUE) = <<x>>
    <3>1. Append(hdus, u) \in Seq(HduRec) /\ Ordered(Append(hdus, u), end)
      BY <2>1, <2>2, AppendOrdered DEF ListOK
    <3> DEFINE us == Append(hdus, u) cur == Len(hdus) last == TRUE
    <3>2. us \in Seq(HduRec) /\ Ordered(us, end) /\ cur \in Nat /\ end \in Nat /\ last \in BOOLEAN
      BY <2>1, <2>4, <3>1
    <3> HIDE DEF us, cur, last, end
    <3>3. \E x \in KeepSteps : KeepCall(us, cur, end, last) = <<x>>
      BY <3>2, KeepCallFacts
    <3> QED BY <3>3 DEF us, cur, last
  <2>11. body \in Seq(S)
    <3> HIDE DEF grow, fill, S
    <3> QED BY <2>6, <2>7, <2>8, <2>9, ConcatProperties
  <2>12. PICK x \in KeepSteps : KeepCall(Append(hdus, u), Len(hdus), end, TRUE) = <<x>>
    BY <2>10
  <2>13. Plan(body \o <<x>>, SizeCall(dev.size)) /\ job.op.op \in Adding
    BY <1>1, <1>3, <2>12 DEF AddUndo, Adding
  <2> HIDE DEF body
  <2> QED BY <1>0, <1>1, <2>11, <2>13, AddPlan
<1>4. Fail \/ ( /\ ~SpecialRecords
               /\ Plan(body \o KeepCall(Append(hdus, u), Len(hdus), end, TRUE), AddUndo) )
  BY DEF PlanAppend
<1> QED BY <1>2, <1>3, <1>4

\* A copy.
LEMMA PlanCopyStep ==
    ASSUME Good, PlanCopy
    PROVE  Good'
<1>0. Scanned("copy") /\ Planning
  BY DEF PlanCopy
<1>1. job.pc = "scan" /\ full /\ job.op.op = "copy"
  BY <1>0, ScannedFacts
<1> DEFINE u == hdus[job.op.n]
           len == Span(u)
           end == scanOff + len
           grow == IF end > dev.size THEN SizeCall(end) ELSE <<>>
           d == Resized(dev, Larger(dev.size, end))
           body == grow \o WriteCall(scanOff, len, Slice(d, u.hoff, len)) \o Call("fresh")
<1>2. CASE Fail
  BY <1>0, <1>1, <1>2, RefusedStep
<1>3. CASE /\ ~SpecialRecords /\ job.op.n \in 2 .. Len(hdus)
           /\ Plan(body \o AdoptCall(scanOff), AddUndo)
  <2>1. /\ HandleTypeOK /\ ~Idle /\ dev = job.was /\ dev.size \in Nat /\ Limit \in Nat
        /\ hdus \in Seq(HduRec) /\ scanOff \in Nat /\ Len(hdus) \in Nat /\ IsDevice(dev)
        /\ ListOK(hdus, scanOff, full)
    BY <1>1, ScanFacts
  <2>2. job.op.n \in DOMAIN hdus /\ u \in HduRec
    BY <1>3, <2>1
  <2>3. Limit = dev.size /\ Limit <= scanOff
    <3>1. Limit = dev.size
      BY <1>1, <2>1 DEF Limit, Adding
    <3> QED BY <1>3, <2>1, <3>1 DEF SpecialRecords
  <2>4. /\ u.hoff \in Nat /\ NextOff(u) \in Nat /\ len \in Nat /\ u.hoff + len <= scanOff
        /\ end \in Nat
    <3>1. u.hoff <= u.doff /\ NextOff(u) <= scanOff
      BY <2>1, <2>2 DEF ListOK, Ordered
    <3>2. u.hoff \in Nat /\ u.doff \in Nat /\ NextOff(u) \in Nat /\ u.doff <= NextOff(u)
      BY <2>2, HduFacts
    <3>3. len = NextOff(u) - u.hoff /\ end = scanOff + len /\ scanOff \in Nat
      BY <2>1 DEF Span
    <3> DEFINE a == u.hoff b == NextOff(u) c == u.doff
    <3>4. a \in Nat /\ b \in Nat /\ c \in Nat /\ a <= c /\ c <= b /\ b <= scanOff /\ len = b - a
      BY <3>1, <3>2, <3>3
    <3> HIDE DEF a, b, c, len, end
    <3>5. a \in Nat /\ b \in Nat /\ len \in Nat /\ a + len <= scanOff /\ end \in Nat
      BY <3>3, <3>4
    <3> QED BY <3>5 DEF a, b
  <2>5. Larger(dev.size, end) \in Nat /\ scanOff <= Larger(dev.size, end)
    <3>1. dev.size \in Nat /\ end \in Nat /\ scanOff <= end /\ scanOff \in Nat
      <4>1. len \in Nat /\ end = scanOff + len /\ scanOff \in Nat /\ dev.size \in Nat
        BY <2>1, <2>4
      <4> HIDE DEF len, end
      <4> QED BY <4>1
    <3> HIDE DEF end
    <3> QED BY <3>1 DEF Larger
  <2>6. IsDevice(d) /\ d.size = Larger(dev.size, end)
    BY <2>1, <2>5, ResizedDev
  <2> HIDE DEF d
  <2>7. Slice(d, u.hoff, len) \in [0 .. len - 1 -> Cell]
    <3> DEFINE a == u.hoff L == Larger(dev.size, end)
    <3>0. a \in Nat /\ len \in Nat /\ a + len <= scanOff /\ scanOff <= L /\ L \in Nat /\ scanOff \in Nat
          /\ d.size = L
      BY <2>1, <2>4, <2>5, <2>6
    <3> HIDE DEF a, L, len, u
    <3>1. u.hoff + len <= d.size
      <4>1. a + len <= L
        BY <3>0
      <4> QED BY <3>0, <4>1 DEF a
    <3> QED BY <2>4, <2>6, <3>1, SliceFacts
  <2> DEFINE S == AddSteps(Limit)
  <2>8. WriteCall(scanOff, len, Slice(d, u.hoff, len)) \in Seq(S) /\ Call("fresh") \in Seq(S)
    <3> HIDE DEF len, u
    <3>1. WriteCall(scanOff, len, Slice(d, u.hoff, len)) \in Seq(WriteSteps(Limit))
      BY <2>1, <2>3, <2>4, <2>7, WriteCallFacts
    <3> QED BY <3>1, PlainCalls, PlainKinds
  <2>9. grow \in Seq(S)
    <3>1. end >= Limit
      <4>1. len \in Nat /\ end = scanOff + len /\ scanOff \in Nat /\ Limit <= scanOff /\ Limit \in Nat
        BY <2>1, <2>3, <2>4
      <4> HIDE DEF len, end
      <4> QED BY <4>1
    <3> HIDE DEF end
    <3>2. SizeCall(end) \in Seq(S)
      BY <2>4, <3>1 DEF SizeCall, AddSteps, SizeSteps
    <3> QED BY <3>2
  <2>10. body \in Seq(S)
    <3> HIDE DEF grow, S, len, u
    <3> QED BY <2>8, <2>9, ConcatProperties
  <2> DEFINE x == [k |-> "adopt", off |-> scanOff]
  <2>11. x \in [k : {"adopt"}, off : Nat] /\ x.off = scanOff /\ AdoptCall(scanOff) = <<x>>
    BY <2>1 DEF AdoptCall
  <2> HIDE DEF x
  <2>12. Plan(body \o <<x>>, SizeCall(dev.size)) /\ job.op.op \in Adding
    BY <1>1, <1>3, <2>11 DEF AddUndo, Adding
  <2> HIDE DEF body
  <2> QED BY <1>0, <1>1, <2>10, <2>11, <2>12, AddPlan
<1>4. Fail \/ ( /\ ~SpecialRecords /\ job.op.n \in 2 .. Len(hdus)
               /\ Plan(body \o AdoptCall(scanOff), AddUndo) )
  BY DEF PlanCopy
<1> QED BY <1>2, <1>3, <1>4

\* What moves with an edit: all but the HDU edited.
LEMMA FollowingFacts ==
    ASSUME NEW us \in Seq(HduRec), NEW n \in DOMAIN us, NEW delta \in Int
    PROVE  /\ DOMAIN Following(us, n, delta) = 1 .. Len(us) /\ n \in 1 .. Len(us)
           /\ Following(us, n, delta) = [i \in 1 .. Len(us) |-> Following(us, n, delta)[i]]
           /\ Following(us, n, delta)[n] = us[n]
<1>1. n \in 1 .. Len(us) /\ ~(n > n)
  OBVIOUS
<1>2. DOMAIN Following(us, n, delta) = 1 .. Len(us)
  BY DEF Following
<1>3. Following(us, n, delta)[n] = us[n]
  BY <1>1 DEF Following
<1>4. Following(us, n, delta) = [i \in 1 .. Len(us) |-> Following(us, n, delta)[i]]
  BY DEF Following
<1> QED BY <1>1, <1>2, <1>3, <1>4

\* The three ways a plan writes that list.
LEMMA RowsList ==
    ASSUME NEW us \in Seq(HduRec), NEW scan \in Nat, Ordered(us, scan), NEW n \in DOMAIN us,
           NEW h \in Name, NEW bytes \in Nat
    PROVE  LET delta == DataSize(bytes) - DataSize(us[n].bytes)
               e == [Following(us, n, delta) EXCEPT ![n].bytes = bytes]
               g == [Following(us, n, delta) EXCEPT ![n].bytes = bytes, ![n].name = h]
           IN  /\ e \in Seq(HduRec) /\ Ordered(e, scan + delta) /\ scan + delta \in Nat
               /\ g \in Seq(HduRec) /\ Ordered(g, scan + delta)
<1> DEFINE u == us[n]
           delta == DataSize(bytes) - DataSize(u.bytes)
           f == Following(us, n, delta)
           e == [f EXCEPT ![n].bytes = bytes]
           g == [f EXCEPT ![n].bytes = bytes, ![n].name = h]
<1>1. /\ u \in HduRec /\ u.name \in Name /\ u.hoff \in Nat /\ u.doff \in Nat /\ u.bytes \in Nat
      /\ DataSize(u.bytes) \in Nat /\ NextOff(u) = u.doff + DataSize(u.bytes) /\ u.hoff <= u.doff
  <2>1. u \in HduRec
    OBVIOUS
  <2>2. u.hoff <= u.doff
    BY DEF Ordered
  <2> QED BY <2>1, <2>2, HduFacts
<1>2. DataSize(bytes) \in Nat /\ delta \in Int /\ u.doff + DataSize(bytes) = NextOff(u) + delta
  <2>1. DataSize(bytes) \in Nat
    BY RoundUpFacts DEF DataSize
  <2> QED BY <1>1, <2>1
<1> HIDE DEF delta
<1>3. DOMAIN f = 1 .. Len(us) /\ n \in 1 .. Len(us) /\ f = [i \in 1 .. Len(us) |-> f[i]] /\ f[n] = u
  BY <1>2, FollowingFacts
<1> DEFINE w == [u EXCEPT !.bytes = bytes] x == [u EXCEPT !.bytes = bytes, !.name = h]
<1>4. /\ w \in HduRec /\ w.hoff = u.hoff /\ w.hoff <= w.doff
      /\ NextOff(w) = NextOff(u) + delta
  <2>0. u \in HduRec
    BY <1>1
  <2> HIDE DEF u
  <2>1. w \in HduRec /\ w.hoff = u.hoff /\ w.doff = u.doff /\ w.bytes = bytes
    BY <2>0 DEF HduRec
  <2> HIDE DEF w
  <2> QED BY <1>1, <1>2, <2>1 DEF NextOff
<1>5. /\ x \in HduRec /\ x.hoff = u.hoff /\ x.hoff <= x.doff
      /\ NextOff(x) = NextOff(u) + delta
  <2>0. u \in HduRec
    BY <1>1
  <2> HIDE DEF u
  <2>1. x \in HduRec /\ x.hoff = u.hoff /\ x.doff = u.doff /\ x.bytes = bytes
    BY <2>0 DEF HduRec
  <2> HIDE DEF x
  <2> QED BY <1>1, <1>2, <2>1 DEF NextOff
<1> HIDE DEF f
<1>7. /\ e = [i \in 1 .. Len(us) |-> e[i]] /\ e[n] = w
      /\ \A i \in 1 .. Len(us) : i # n => e[i] = f[i]
  BY <1>3
<1>8. /\ g = [i \in 1 .. Len(us) |-> g[i]] /\ g[n] = x
      /\ \A i \in 1 .. Len(us) : i # n => g[i] = f[i]
  BY <1>3
<1> HIDE DEF e, g, w, x
<1>9. e \in Seq(HduRec) /\ Ordered(e, scan + delta) /\ scan + delta \in Nat
  BY <1>2, <1>4, <1>7, EditOrdered DEF f
<1>10. g \in Seq(HduRec) /\ Ordered(g, scan + delta) /\ scan + delta \in Nat
  BY <1>2, <1>5, <1>8, EditOrdered DEF f
<1> QED BY <1>9, <1>10 DEF e, g, f, delta

\* The list that a replaced header commits.
LEMMA HeaderList ==
    ASSUME NEW us \in Seq(HduRec), NEW scan \in Nat, Ordered(us, scan), NEW n \in DOMAIN us,
           NEW h \in Name
    PROVE  LET delta == HdrSize(h) - (us[n].doff - us[n].hoff)
               e == [Following(us, n, delta) EXCEPT ![n].name = h, ![n].doff = @ + delta]
           IN  e \in Seq(HduRec) /\ Ordered(e, scan + delta) /\ scan + delta \in Nat
<1> DEFINE u == us[n]
           delta == HdrSize(h) - (u.doff - u.hoff)
           f == Following(us, n, delta)
           e == [f EXCEPT ![n].name = h, ![n].doff = @ + delta]
           doff == u.hoff + HdrSize(h)
<1>1. /\ u \in HduRec /\ u.hoff \in Nat /\ u.doff \in Nat /\ u.bytes \in Nat
      /\ DataSize(u.bytes) \in Nat /\ NextOff(u) = u.doff + DataSize(u.bytes) /\ HdrSize(h) \in Nat
  <2>1. u \in HduRec
    OBVIOUS
  <2> QED BY <2>1, HduFacts, HdrFacts
<1>2. delta \in Int /\ u.doff + delta = doff /\ doff \in Nat /\ u.hoff <= doff
      /\ doff + DataSize(u.bytes) = NextOff(u) + delta
  BY <1>1
<1> HIDE DEF delta, doff
<1>3. DOMAIN f = 1 .. Len(us) /\ n \in 1 .. Len(us) /\ f = [i \in 1 .. Len(us) |-> f[i]] /\ f[n] = u
  BY <1>2, FollowingFacts
<1> DEFINE w == [u EXCEPT !.name = h, !.doff = doff]
<1>4. /\ w \in HduRec /\ w.hoff = u.hoff /\ w.hoff <= w.doff
      /\ NextOff(w) = NextOff(u) + delta
  <2>0. u \in HduRec /\ doff \in Nat
    BY <1>1, <1>2
  <2> HIDE DEF u
  <2>1. w \in HduRec /\ w.hoff = u.hoff /\ w.doff = doff /\ w.bytes = u.bytes
    BY <2>0 DEF HduRec
  <2> HIDE DEF w
  <2> QED BY <1>1, <1>2, <2>1 DEF NextOff
<1> HIDE DEF f
<1>6. /\ e = [i \in 1 .. Len(us) |-> e[i]] /\ e[n] = w
      /\ \A i \in 1 .. Len(us) : i # n => e[i] = f[i]
  <2>1. e[n] = [u EXCEPT !.name = h, !.doff = @ + delta]
    BY <1>3
  <2>2. [u EXCEPT !.name = h, !.doff = @ + delta] = w
    <3>1. [u EXCEPT !.name = h].doff = u.doff
      BY <1>1 DEF HduRec
    <3> QED BY <1>2, <3>1
  <2> QED BY <1>3, <2>1, <2>2
<1> HIDE DEF e, w
<1>7. e \in Seq(HduRec) /\ Ordered(e, scan + delta) /\ scan + delta \in Nat
  BY <1>2, <1>4, <1>6, EditOrdered DEF f
<1> QED BY <1>7 DEF e, f, delta

\* The list that a structural replacement commits.
LEMMA StructureList ==
    ASSUME NEW us \in Seq(HduRec), NEW scan \in Nat, Ordered(us, scan), NEW n \in DOMAIN us,
           NEW h \in Name, NEW bytes \in Nat
    PROVE  LET hdelta == HdrSize(h) - (us[n].doff - us[n].hoff)
               ddelta == DataSize(bytes) - DataSize(us[n].bytes)
               doff == us[n].hoff + HdrSize(h)
               e == [Following(us, n, hdelta + ddelta) EXCEPT
                        ![n].name = h, ![n].doff = doff, ![n].bytes = bytes]
           IN  /\ e \in Seq(HduRec) /\ Ordered(e, scan + (hdelta + ddelta))
               /\ scan + (hdelta + ddelta) \in Nat
<1> DEFINE u == us[n]
           hdelta == HdrSize(h) - (u.doff - u.hoff)
           ddelta == DataSize(bytes) - DataSize(u.bytes)
           delta == hdelta + ddelta
           doff == u.hoff + HdrSize(h)
           f == Following(us, n, delta)
           e == [f EXCEPT ![n].name = h, ![n].doff = doff, ![n].bytes = bytes]
<1>1. /\ u \in HduRec /\ u.hoff \in Nat /\ u.doff \in Nat /\ u.bytes \in Nat
      /\ DataSize(u.bytes) \in Nat /\ NextOff(u) = u.doff + DataSize(u.bytes) /\ HdrSize(h) \in Nat
      /\ DataSize(bytes) \in Nat
  <2>1. u \in HduRec
    OBVIOUS
  <2>2. DataSize(bytes) \in Nat
    BY RoundUpFacts DEF DataSize
  <2> QED BY <2>1, <2>2, HduFacts, HdrFacts
<1>2. delta \in Int /\ doff \in Nat /\ u.hoff <= doff
      /\ doff + DataSize(bytes) = NextOff(u) + delta
  <2> DEFINE a == HdrSize(h) b == u.hoff c == u.doff x == DataSize(bytes) y == DataSize(u.bytes)
  <2>1. a \in Nat /\ b \in Nat /\ c \in Nat /\ x \in Nat /\ y \in Nat /\ NextOff(u) = c + y
        /\ delta = (a - (c - b)) + (x - y) /\ doff = b + a
    BY <1>1
  <2> HIDE DEF a, b, c, x, y, delta, doff
  <2>2. delta \in Int /\ doff \in Nat /\ b <= doff /\ doff + x = NextOff(u) + delta
    BY <2>1
  <2> QED BY <2>2 DEF b, x
<1> HIDE DEF delta, doff
<1>3. DOMAIN f = 1 .. Len(us) /\ n \in 1 .. Len(us) /\ f = [i \in 1 .. Len(us) |-> f[i]] /\ f[n] = u
  BY <1>2, FollowingFacts
<1> DEFINE w == [u EXCEPT !.name = h, !.doff = doff, !.bytes = bytes]
<1>4. /\ w \in HduRec /\ w.hoff = u.hoff /\ w.hoff <= w.doff
      /\ NextOff(w) = NextOff(u) + delta
  <2>0. u \in HduRec /\ doff \in Nat
    BY <1>1, <1>2
  <2> HIDE DEF u
  <2>1. w \in HduRec /\ w.hoff = u.hoff /\ w.doff = doff /\ w.bytes = bytes
    BY <2>0 DEF HduRec
  <2> HIDE DEF w
  <2> QED BY <1>1, <1>2, <2>1 DEF NextOff
<1> HIDE DEF f
<1>6. /\ e = [i \in 1 .. Len(us) |-> e[i]]
      /\ e[n] = w
      /\ \A i \in 1 .. Len(us) : i # n => e[i] = f[i]
  BY <1>3
<1> HIDE DEF e, w
<1>7. e \in Seq(HduRec) /\ Ordered(e, scan + delta) /\ scan + delta \in Nat
  BY <1>2, <1>4, <1>6, EditOrdered DEF f
<1> QED BY <1>7 DEF e, f, delta, doff

\* A deletion.
LEMMA PlanDeleteStep ==
    ASSUME Good, PlanDelete
    PROVE  Good'
<1>0. Scanned("delete") /\ Planning
  BY DEF PlanDelete
<1>1. job.pc = "scan" /\ full /\ job.op.op = "delete"
  BY <1>0, ScannedFacts
<1> DEFINE n == job.op.n
           u == hdus[n]
           total == Span(u)
           us == Following(hdus, n, -total)
           d == SubSeq(us, 1, n - 1) \o SubSeq(us, n + 1, Len(us))
           lead == OneWay(NextOff(u), -total, TRUE)
           keep == KeepCall(d, CurrentAfterDelete(n), scanOff - total, TRUE)
<1>2. CASE Fail
  BY <1>0, <1>1, <1>2, RefusedStep
<1>3. CASE n \in 2 .. Len(hdus) /\ Plan(lead \o keep \o Call("fresh"), <<>>)
  <2>1. /\ hdus \in Seq(HduRec) /\ scanOff \in Nat /\ Len(hdus) \in Nat /\ DOMAIN hdus = 1 .. Len(hdus)
        /\ ListOK(hdus, scanOff, full) /\ Limit \in Nat /\ dev.size \in Nat /\ chdu \in Nat
    BY <1>1, ScanFacts
  <2>2. n \in DOMAIN hdus
    BY <1>3, <2>1
  <2>3. /\ u \in HduRec /\ u.hoff <= u.doff /\ NextOff(u) <= scanOff
        /\ Limit <= u.hoff /\ (Limit > 0 => NextOff(u) <= dev.size)
    BY <1>1, <2>2, EditedFacts
  <2>4. /\ u.hoff \in Nat /\ u.doff \in Nat /\ NextOff(u) \in Nat /\ u.doff <= NextOff(u)
    BY <2>3, HduFacts
  <2>5. /\ total \in Int /\ -total \in Int /\ NextOff(u) + (-total) = u.hoff
        /\ scanOff + (-total) = scanOff - total
    <3> DEFINE a == NextOff(u) b == u.hoff
    <3>1. total = a - b /\ a \in Nat /\ b \in Nat
      BY <2>4 DEF Span
    <3> HIDE DEF a, b, total
    <3>2. /\ total \in Int /\ -total \in Int /\ a + (-total) = b /\ scanOff + (-total) = scanOff - total
      BY <2>1, <3>1
    <3> QED BY <3>2 DEF a, b
  <2>6. /\ d \in Seq(HduRec) /\ Ordered(d, scanOff - total) /\ scanOff - total \in Nat
    <3>1. /\ d \in Seq(HduRec) /\ Ordered(d, scanOff + (-total)) /\ scanOff + (-total) \in Nat
      BY <2>1, <2>2, DeleteOrdered DEF ListOK
    <3> HIDE DEF d, total
    <3> QED BY <2>5, <3>1
  <2> HIDE DEF d, total
  <2>7. /\ lead \in Seq(ShiftSteps(Limit)) /\ (NextOff(u) <= dev.size => TodoOrder(lead, dev.size))
    <3> DEFINE from == NextOff(u) delta == -total zero == TRUE
    <3>1. from \in Nat /\ delta \in Int /\ Limit <= from /\ Limit <= from + delta /\ zero \in BOOLEAN
      BY <2>1, <2>3, <2>4, <2>5
    <3> HIDE DEF from, delta, zero
    <3>2. /\ OneWay(from, delta, zero) \in Seq(ShiftSteps(Limit))
          /\ \A size : from <= size => TodoOrder(OneWay(from, delta, zero), size)
      BY <2>1, <3>1, OneWayFacts
    <3> QED BY <3>2 DEF from, delta, zero
  <2>8. CurrentAfterDelete(n) \in Nat
    BY <1>3, <2>1 DEF CurrentAfterDelete
  <2>9. PICK x \in KeepSteps : keep = <<x>>
    <3> DEFINE cur == CurrentAfterDelete(n) scan == scanOff - total last == TRUE
    <3>1. cur \in Nat /\ scan \in Nat /\ last \in BOOLEAN /\ Ordered(d, scan) /\ d \in Seq(HduRec)
      BY <2>6, <2>8
    <3> HIDE DEF cur, scan, last
    <3>2. \E x \in KeepSteps : KeepCall(d, cur, scan, last) = <<x>>
      BY <3>1, KeepCallFacts
    <3> QED BY <3>2 DEF cur, scan, last
  <2> HIDE DEF lead, keep
  <2> DEFINE rest == <<x>> \o Call("fresh")
  <2>10. /\ rest \in Seq(RowSteps(Limit)) /\ lead \in Seq(Steps(Limit))
         /\ \A i \in DOMAIN rest : rest[i].k # "arm"
         /\ lead \o keep \o Call("fresh") = lead \o rest
    <3>1. x \in RowSteps(Limit) /\ x \in Steps(Limit) /\ lead \in Seq(Steps(Limit)) /\ x.k = "keep"
      BY <2>7, PlainKinds
    <3>2. Call("fresh") \in Seq(RowSteps(Limit)) /\ Call("fresh") \in Seq(Steps(Limit))
      BY PlainCalls, PlainKinds
    <3> DEFINE a == <<x>> b == Call("fresh")
    <3>3. /\ \A i \in DOMAIN a : a[i].k # "arm"
          /\ \A i \in DOMAIN b : b[i].k # "arm"
      BY <3>1 DEF Call
    <3>6. a \in Seq(RowSteps(Limit)) /\ b \in Seq(RowSteps(Limit))
      BY <3>1, <3>2
    <3>7. a \in Seq(Steps(Limit)) /\ b \in Seq(Steps(Limit))
      BY <3>1, <3>2
    <3> HIDE DEF a, b
    <3>4. a \o b \in Seq(RowSteps(Limit))
      BY <3>6, ConcatProperties
    <3>5. \A i \in DOMAIN (a \o b) : (a \o b)[i].k # "arm"
      <4>1. \A i \in DOMAIN (a \o b) :
              \/ i \in DOMAIN a /\ (a \o b)[i] = a[i]
              \/ /\ i > Len(a) /\ i - Len(a) \in DOMAIN b /\ (a \o b)[i] = b[i - Len(a)]
        BY <3>6, JoinFacts
      <4> QED BY <3>3, <4>1
    <3>8. (lead \o a) \o b = lead \o (a \o b)
      BY <3>1, <3>7, ConcatAssociative
    <3> QED BY <2>9, <3>1, <3>4, <3>5, <3>8 DEF a, b
  <2>11. Plan(lead \o rest, <<>>) /\ job.op.op \in {"delete", "rows"}
    BY <1>1, <1>3, <2>10, Zenon DEF lead, keep, d, total
  <2>12. Limit > 0 => TodoOrder(lead, dev.size)
    BY <2>3, <2>7
  <2> HIDE DEF rest
  <2> QED BY <1>0, <1>1, <2>7, <2>10, <2>11, <2>12, RowPlan
<1>4. Fail \/ (n \in 2 .. Len(hdus) /\ Plan(lead \o keep \o Call("fresh"), <<>>))
  BY DEF PlanDelete
<1> QED BY <1>2, <1>3, <1>4

\* Steps of which the last changes the list.
Committing(F, q) == \E body \in Seq(Plain(F)), x \in KeepSteps : q = body \o <<x>>

\* The steps that commit a header.
LEMMA CommitFacts ==
    ASSUME NEW F \in Nat, NEW off \in Nat, off >= F, NEW h \in Name,
           NEW us \in Seq(HduRec), NEW cur \in Nat, NEW scan \in Nat, Ordered(us, scan),
           NEW last \in BOOLEAN
    PROVE  Committing(F, Commit(WriteCall(off, HdrSize(h), HeaderCells(h)),
                                KeepCall(us, cur, scan, last)))
<1>1. PICK x \in KeepSteps : KeepCall(us, cur, scan, last) = <<x>>
  BY KeepCallFacts
<1>2. HdrSize(h) \in Nat /\ HeaderCells(h) \in [0 .. HdrSize(h) - 1 -> Cell]
  BY HdrFacts
<1> DEFINE w == WriteCall(off, HdrSize(h), HeaderCells(h)) body == w \o Call("swap")
<1>3. w \in Seq(WriteSteps(F))
  BY <1>2, WriteCallFacts
<1> HIDE DEF w
<1>4. w \in Seq(Plain(F)) /\ Call("swap") \in Seq(Plain(F))
  BY <1>3, PlainCalls
<1>5. body \in Seq(Plain(F))
  BY <1>4, ConcatProperties
<1>6. Commit(w, KeepCall(us, cur, scan, last)) = body \o <<x>>
  BY <1>1 DEF Commit
<1> HIDE DEF body
<1> QED BY <1>5, <1>6 DEF w, Committing

\* The rollback of a header.
LEMMA HeaderUndoFacts ==
    ASSUME Good, NEW F \in Nat, F <= dev.size, NEW off \in Nat, off >= F, NEW n \in Nat,
           off + n <= dev.size
    PROVE  LET q == WriteCall(off, n, Slice(dev, off, n)) \o SizeCall(dev.size)
           IN  q \in Seq(ArmedSteps(F)) /\ q \o Call("unload") \in Seq(ArmedSteps(F))
<1> DEFINE w == WriteCall(off, n, Slice(dev, off, n)) s == SizeCall(dev.size) l == Call("unload")
<1>1. IsDevice(dev) /\ dev.size \in Nat
  BY DevFacts DEF Good
<1>2. w \in Seq(WriteSteps(F))
  BY <1>1, SliceFacts, WriteCallFacts
<1> HIDE DEF w
<1>3. w \in Seq(ArmedSteps(F))
  BY <1>2 DEF ArmedSteps
<1>4. s \in Seq(ArmedSteps(F))
  <2>1. [k |-> "size", n |-> dev.size] \in SizeSteps(F)
    BY <1>1 DEF SizeSteps
  <2> QED BY <2>1 DEF SizeCall, ArmedSteps
<1>5. l \in Seq(ArmedSteps(F))
  <2>1. [k |-> "unload"] \in [k : {"unload"}]
    OBVIOUS
  <2> QED BY <2>1 DEF Call, ArmedSteps
<1> HIDE DEF s, l
<1>6. w \o s \in Seq(ArmedSteps(F)) /\ (w \o s) \o l \in Seq(ArmedSteps(F))
  BY <1>3, <1>4, <1>5, ConcatProperties
<1> QED BY <1>6 DEF w, s, l

\* A header replaced.
LEMMA PlanHeaderStep ==
    ASSUME Good, PlanHeader
    PROVE  Good'
<1>0. Scanned("header") /\ Planning
  BY Zenon DEF PlanHeader
<1>1. job.pc = "scan" /\ full /\ job.op.op = "header"
  BY <1>0, ScannedFacts
<1> DEFINE n == job.op.n
           u == hdus[n]
           h == job.op.name
           old == u.doff - u.hoff
           delta == HdrSize(h) - old
           us == [Following(hdus, n, delta) EXCEPT ![n].name = h, ![n].doff = @ + delta]
           lead == Reversible(u.doff, delta)
           rest == Commit(WriteCall(u.hoff, HdrSize(h), HeaderCells(h)),
                          KeepCall(us, chdu, scanOff + delta, TRUE))
           undo == WriteCall(u.hoff, old, Slice(dev, u.hoff, old)) \o SizeCall(dev.size)
<1>2. CASE Fail
  BY <1>0, <1>1, <1>2, RefusedStep
<1>3. CASE u.hoff + old <= dev.size /\ Plan(lead \o rest, undo)
  <2>1. /\ hdus \in Seq(HduRec) /\ scanOff \in Nat /\ ListOK(hdus, scanOff, full)
        /\ Limit \in Nat /\ dev.size \in Nat /\ chdu \in Nat /\ HandleTypeOK /\ ~Idle
        /\ n \in DOMAIN hdus
    <3>1. /\ hdus \in Seq(HduRec) /\ scanOff \in Nat /\ ListOK(hdus, scanOff, full)
          /\ Limit \in Nat /\ dev.size \in Nat /\ chdu \in Nat /\ HandleTypeOK /\ ~Idle
          /\ n \in DOMAIN job.hdus /\ Len(job.hdus) <= Len(hdus) /\ Len(job.hdus) \in Nat
          /\ Len(hdus) \in Nat
          /\ DOMAIN job.hdus = 1 .. Len(job.hdus) /\ DOMAIN hdus = 1 .. Len(hdus)
      BY <1>1, ScanFacts
    <3> HIDE DEF n
    <3>2. n \in DOMAIN hdus
      BY <3>1
    <3> QED BY <3>1, <3>2
  <2>2. /\ u \in HduRec /\ u.hoff <= u.doff /\ NextOff(u) <= scanOff
        /\ Limit <= u.hoff /\ (Limit > 0 => NextOff(u) <= dev.size)
    BY <1>1, <2>1, EditedFacts
  <2>3. h \in Name
    <3>1. job.op \in Ops
      BY <2>1, JobFacts
    <3> QED BY <1>1, <3>1, OpFacts
  <2>4. /\ u.hoff \in Nat /\ u.doff \in Nat /\ NextOff(u) \in Nat /\ u.doff <= NextOff(u)
        /\ HdrSize(h) \in Nat
    BY <2>2, <2>3, HduFacts, HdrFacts
  <2>5. /\ us \in Seq(HduRec) /\ Ordered(us, scanOff + delta) /\ scanOff + delta \in Nat
    BY <2>1, <2>3, HeaderList, Zenon DEF ListOK
  <2> HIDE DEF us
  <2>6. /\ old \in Nat /\ delta \in Int /\ u.doff + delta = u.hoff + HdrSize(h)
        /\ Limit <= u.doff /\ Limit <= u.doff + delta /\ u.hoff + old = u.doff
    <3> DEFINE a == u.hoff b == u.doff c == HdrSize(h)
    <3>1. /\ a \in Nat /\ b \in Nat /\ c \in Nat /\ a <= b /\ Limit <= a /\ Limit \in Nat
          /\ old = b - a /\ delta = c - old
      BY <2>1, <2>2, <2>4
    <3> HIDE DEF a, b, c, old, delta
    <3>2. /\ old \in Nat /\ delta \in Int /\ b + delta = a + c
          /\ Limit <= b /\ Limit <= b + delta /\ a + old = b
      BY <3>1
    <3> QED BY <3>2 DEF a, b, c
  <2> HIDE DEF old, delta
  <2>7. /\ lead \in Seq(ShiftSteps(Limit)) /\ (u.doff <= dev.size => TodoOrder(lead, dev.size))
    BY <2>1, <2>4, <2>6, ReversibleFacts
  <2> HIDE DEF lead
  <2>8. PICK body \in Seq(Plain(Limit)), x \in KeepSteps : rest = body \o <<x>>
    <3> DEFINE last == TRUE scan == scanOff + delta off == u.hoff
    <3>1. last \in BOOLEAN /\ off \in Nat /\ off >= Limit /\ scan \in Nat /\ Ordered(us, scan)
      BY <2>1, <2>2, <2>4, <2>5
    <3> HIDE DEF last, scan, off, h
    <3>2. Committing(Limit, Commit(WriteCall(off, HdrSize(h), HeaderCells(h)),
                                   KeepCall(us, chdu, scan, last)))
      BY <2>1, <2>3, <2>5, <3>1, CommitFacts
    <3> QED BY <3>2 DEF last, scan, off, Committing
  <2> HIDE DEF rest
  <2>9. undo \in Seq(ArmedSteps(Limit))
    <3> DEFINE off == u.hoff
    <3>1. off \in Nat /\ off >= Limit /\ Limit <= dev.size /\ off + old <= dev.size
      <4>1. Kept(Limit)
        BY <1>1, ScanFacts
      <4>2. Limit <= dev.size
        BY <4>1 DEF Kept
      <4> QED BY <1>3, <2>1, <2>2, <2>4, <4>2
    <3> HIDE DEF off
    <3>2. WriteCall(off, old, Slice(dev, off, old)) \o SizeCall(dev.size) \in Seq(ArmedSteps(Limit))
      BY <2>1, <2>6, <3>1, HeaderUndoFacts
    <3> QED BY <3>2 DEF off
  <2> HIDE DEF undo
  <2>10. Limit > 0 => TodoOrder(lead, dev.size)
    <3>1. Limit > 0 => u.doff <= dev.size
      BY <2>1, <2>2, <2>4
    <3> QED BY <2>7, <3>1
  <2>11. Plan(lead \o (body \o <<x>>), undo) /\ job.op.op # "structure"
    BY <1>1, <1>3, <2>8
  <2> QED BY <1>0, <1>1, <2>7, <2>8, <2>9, <2>10, <2>11, HeaderPlan
<1>4. Fail \/ (u.hoff + old <= dev.size /\ Plan(lead \o rest, undo))
  BY Zenon DEF PlanHeader, Readable
<1> QED BY <1>2, <1>3, <1>4, Zenon

\* The cells of a data unit that a new size keeps.
LEMMA KeptFacts ==
    ASSUME NEW u \in HduRec, NEW bytes \in Nat
    PROVE  /\ KeptBytes(u, bytes) \in Nat /\ DataSize(bytes) \in Nat /\ bytes <= DataSize(bytes)
           /\ DataSize(bytes) - KeptBytes(u, bytes) \in Nat
<1>1. u.bytes \in Nat
  BY HduFacts
<1>2. DataSize(bytes) \in Nat /\ bytes <= DataSize(bytes)
  BY RoundUpFacts DEF DataSize
<1>3. KeptBytes(u, bytes) \in Nat /\ KeptBytes(u, bytes) <= bytes
  BY <1>1 DEF KeptBytes, Smaller
<1> QED BY <1>2, <1>3

\* Regrouping lists of steps.
Regrouped(a, b, c, d) == (a \o b) \o (c \o d) = a \o ((b \o c) \o d)
\* Concatenation is associative.
LEMMA Regroup ==
    ASSUME NEW S, NEW a \in Seq(S), NEW b \in Seq(S), NEW c \in Seq(S), NEW d \in Seq(S)
    PROVE  Regrouped(a, b, c, d)
<1>1. c \o d \in Seq(S)
  BY ConcatProperties
<1>2. (a \o b) \o (c \o d) = a \o (b \o (c \o d))
  BY <1>1, ConcatAssociative
<1>3. b \o (c \o d) = (b \o c) \o d
  BY ConcatAssociative
<1> QED BY <1>2, <1>3 DEF Regrouped

\* Shifts, then steps that change neither list nor size, then the list.
LeadsTo(F, lead, q) ==
    \E body \in Seq(Plain(F)), x \in KeepSteps : q = lead \o (body \o <<x>>)

\* Shifts and a fill, and then a commit.
LEMMA CommitLast ==
    ASSUME NEW F, NEW lead \in Seq(ShiftSteps(F)), NEW fill \in Seq(Plain(F)), NEW q, Committing(F, q)
    PROVE  LeadsTo(F, lead, (lead \o fill) \o q)
<1>1. PICK body \in Seq(Plain(F)), x \in KeepSteps : q = body \o <<x>>
  BY DEF Committing
<1> DEFINE a == lead b == fill c == body d == <<x>>
<1>2. a \in Seq(Steps(F)) /\ b \in Seq(Steps(F)) /\ c \in Seq(Steps(F)) /\ d \in Seq(Steps(F))
  <2>1. x \in Steps(F)
    BY PlainKinds
  <2> QED BY <2>1, PlainKinds
<1>3. b \o c \in Seq(Plain(F)) /\ q = c \o d
  BY <1>1, ConcatProperties
<1> HIDE DEF a, b, c, d
<1>4. (a \o b) \o (c \o d) = a \o ((b \o c) \o d)
  <2>1. Regrouped(a, b, c, d)
    BY <1>2, Regroup
  <2> QED BY <2>1 DEF Regrouped
<1> QED BY <1>3, <1>4 DEF a, b, d, LeadsTo

\* A header replaced with another data unit behind it.
LEMMA PlanStructureStep ==
    ASSUME Good, PlanStructure
    PROVE  Good'
<1>0. Scanned("structure") /\ Planning
  BY Zenon DEF PlanStructure
<1>1. job.pc = "scan" /\ full /\ job.op.op = "structure"
  BY <1>0, ScannedFacts
<1> DEFINE n == job.op.n
           u == hdus[n]
           h == job.op.name
           old == u.doff - u.hoff
           bytes == Hdr[h].bytes
           kept == KeptBytes(u, bytes)
           hdelta == HdrSize(h) - old
           ddelta == DataSize(bytes) - DataSize(u.bytes)
           doff == u.hoff + HdrSize(h)
           us == [Following(hdus, n, hdelta + ddelta) EXCEPT
                     ![n].name = h, ![n].doff = doff, ![n].bytes = bytes]
           lead == Reversible(u.doff, hdelta) \o Reversible(doff + DataSize(u.bytes), ddelta)
           fill == FillCall(doff + kept, DataSize(bytes) - kept, FillCell(u.name))
           rest == Commit(WriteCall(u.hoff, HdrSize(h), HeaderCells(h)),
                          KeepCall(us, chdu, scanOff + hdelta + ddelta, TRUE))
           undo == StructureUndo(u)
<1>2. CASE Fail
  BY <1>0, <1>1, <1>2, RefusedStep
<1>3. CASE ~(NextOff(u) > dev.size) /\ Plan((lead \o fill) \o rest, undo)
  <2>1. /\ hdus \in Seq(HduRec) /\ scanOff \in Nat /\ ListOK(hdus, scanOff, full)
        /\ Limit \in Nat /\ dev.size \in Nat /\ chdu \in Nat /\ HandleTypeOK /\ ~Idle
        /\ n \in DOMAIN hdus
    <3>1. /\ hdus \in Seq(HduRec) /\ scanOff \in Nat /\ ListOK(hdus, scanOff, full)
          /\ Limit \in Nat /\ dev.size \in Nat /\ chdu \in Nat /\ HandleTypeOK /\ ~Idle
          /\ n \in DOMAIN job.hdus /\ Len(job.hdus) <= Len(hdus) /\ Len(job.hdus) \in Nat
          /\ Len(hdus) \in Nat
          /\ DOMAIN job.hdus = 1 .. Len(job.hdus) /\ DOMAIN hdus = 1 .. Len(hdus)
      BY <1>1, ScanFacts
    <3> HIDE DEF n
    <3>2. n \in DOMAIN hdus
      BY <3>1
    <3> QED BY <3>1, <3>2
  <2>2. /\ u \in HduRec /\ u.hoff <= u.doff /\ NextOff(u) <= scanOff /\ Limit <= u.hoff
    BY <1>1, <2>1, EditedFacts
  <2>3. h \in Name
    <3>1. job.op \in Ops
      BY <2>1, JobFacts
    <3> QED BY <1>1, <3>1, OpFacts
  <2>4. /\ u.hoff \in Nat /\ u.doff \in Nat /\ NextOff(u) \in Nat /\ DataSize(u.bytes) \in Nat
        /\ NextOff(u) = u.doff + DataSize(u.bytes) /\ u.name \in Name
        /\ HdrSize(h) \in Nat /\ bytes \in Nat
    BY <2>2, <2>3, HduFacts, HdrFacts
  <2>5. kept \in Nat /\ DataSize(bytes) \in Nat /\ DataSize(bytes) - kept \in Nat
    <3> HIDE DEF u, bytes
    <3> QED BY <2>2, <2>4, KeptFacts
  <2>6. /\ us \in Seq(HduRec) /\ Ordered(us, scanOff + (hdelta + ddelta))
        /\ scanOff + (hdelta + ddelta) \in Nat
    <3> HIDE DEF bytes
    <3> QED BY <2>1, <2>3, <2>4, StructureList, Zenon DEF ListOK
  <2> HIDE DEF us, kept
  <2>7. /\ old \in Nat /\ hdelta \in Int /\ ddelta \in Int /\ u.doff + hdelta = doff /\ doff \in Nat
        /\ Limit <= u.doff /\ Limit <= doff /\ u.hoff + old = u.doff
        /\ doff + DataSize(u.bytes) \in Nat /\ doff <= doff + DataSize(u.bytes)
        /\ doff <= (doff + DataSize(u.bytes)) + ddelta
        /\ u.doff <= dev.size /\ doff + DataSize(u.bytes) <= dev.size + hdelta
        /\ scanOff + hdelta + ddelta = scanOff + (hdelta + ddelta)
        /\ doff + kept >= Limit /\ doff + kept \in Nat
    <3> DEFINE a == u.hoff b == u.doff c == HdrSize(h) x == DataSize(u.bytes) y == DataSize(bytes)
               z == NextOff(u)
    <3>1. /\ a \in Nat /\ b \in Nat /\ c \in Nat /\ x \in Nat /\ y \in Nat /\ z \in Nat /\ z = b + x
          /\ a <= b /\ Limit <= a /\ Limit \in Nat /\ old = b - a /\ hdelta = c - old
          /\ ddelta = y - x /\ doff = a + c /\ ~(z > dev.size) /\ dev.size \in Nat /\ scanOff \in Nat
          /\ kept \in Nat
      BY <1>3, <2>1, <2>2, <2>4, <2>5
    <3> HIDE DEF a, b, c, x, y, z, old, hdelta, ddelta, doff
    <3>2. /\ old \in Nat /\ hdelta \in Int /\ ddelta \in Int /\ b + hdelta = doff /\ doff \in Nat
          /\ Limit <= b /\ Limit <= doff /\ a + old = b
      BY <3>1
    <3>3. /\ doff + x \in Nat /\ doff <= doff + x
          /\ doff <= (doff + x) + ddelta
          /\ b <= dev.size /\ doff + x <= dev.size + hdelta
          /\ scanOff + hdelta + ddelta = scanOff + (hdelta + ddelta)
          /\ doff + kept >= Limit /\ doff + kept \in Nat
      BY <3>1, <3>2
    <3> QED BY <3>2, <3>3 DEF a, b, x
  <2> HIDE DEF old, hdelta, ddelta, doff
  <2>8. lead \in Seq(ShiftSteps(Limit)) /\ TodoOrder(lead, dev.size)
    <3> DEFINE from == u.doff from2 == doff + DataSize(u.bytes)
    <3>0. /\ from \in Nat /\ from2 \in Nat /\ hdelta \in Int /\ ddelta \in Int
          /\ from + hdelta = doff /\ Limit <= from /\ Limit <= doff /\ doff <= from2
          /\ doff <= from2 + ddelta
          /\ from <= dev.size /\ from2 <= dev.size + hdelta /\ dev.size \in Nat
      BY <2>1, <2>4, <2>7
    <3> HIDE DEF from, from2
    <3>1. /\ from \in Nat /\ from2 \in Nat /\ hdelta \in Int /\ ddelta \in Int
          /\ Limit <= from /\ Limit <= from + hdelta /\ from + hdelta <= from2
          /\ from + hdelta <= from2 + ddelta
          /\ from <= dev.size /\ from2 <= dev.size + hdelta /\ dev.size \in Int
      BY <3>0
    <3>2. /\ Reversible(from, hdelta) \o Reversible(from2, ddelta) \in Seq(ShiftSteps(Limit))
          /\ TodoOrder(Reversible(from, hdelta) \o Reversible(from2, ddelta), dev.size)
      BY <2>1, <3>1, TwoShifts
    <3> QED BY <3>2 DEF from, from2
  <2> HIDE DEF lead
  <2>9. fill \in Seq(Plain(Limit))
    <3> DEFINE off == doff + kept m == DataSize(bytes) - kept v == FillCell(u.name)
    <3>1. off \in Nat /\ off >= Limit /\ m \in Nat /\ v \in Cell
      BY <2>4, <2>5, <2>7, HdrFacts
    <3> HIDE DEF off, m, v
    <3>2. FillCall(off, m, v) \in Seq(WriteSteps(Limit))
      BY <3>1, FillCallFacts
    <3>3. FillCall(off, m, v) \in Seq(Plain(Limit))
      BY <3>2, PlainCalls
    <3> QED BY <3>3 DEF off, m, v
  <2> HIDE DEF fill
  <2>10. Committing(Limit, rest)
    <3> DEFINE last == TRUE scan == scanOff + hdelta + ddelta off == u.hoff
    <3>1. last \in BOOLEAN /\ off \in Nat /\ off >= Limit /\ scan \in Nat /\ Ordered(us, scan)
      BY <2>1, <2>2, <2>4, <2>6, <2>7
    <3> HIDE DEF last, scan, off, h
    <3>2. Committing(Limit, Commit(WriteCall(off, HdrSize(h), HeaderCells(h)),
                                   KeepCall(us, chdu, scan, last)))
      BY <2>1, <2>3, <2>6, <3>1, CommitFacts
    <3> QED BY <3>2 DEF last, scan, off
  <2> HIDE DEF rest
  <2>11. PICK body \in Seq(Plain(Limit)), x \in KeepSteps :
            (lead \o fill) \o rest = lead \o (body \o <<x>>)
    <3>1. lead \in Seq(ShiftSteps(Limit))
      BY <2>8
    <3>2. LeadsTo(Limit, lead, (lead \o fill) \o rest)
      BY <2>9, <2>10, <3>1, CommitLast
    <3> QED BY <3>2 DEF LeadsTo
  <2>12. undo \in Seq(ArmedSteps(Limit)) /\ undo # <<>> /\ undo[Len(undo)].k = "unload"
    <3> DEFINE off == u.hoff q == WriteCall(off, old, Slice(dev, off, old)) \o SizeCall(dev.size)
    <3>0. off \in Nat /\ Limit <= off /\ off + old = u.doff /\ u.doff <= dev.size
      BY <2>2, <2>4, <2>7
    <3>2. undo = q \o Call("unload")
      BY DEF StructureUndo, old
    <3> HIDE DEF off
    <3>1. off \in Nat /\ off >= Limit /\ Limit <= dev.size /\ off + old <= dev.size
      <4>1. Kept(Limit)
        BY <1>1, ScanFacts
      <4>2. Limit <= dev.size
        BY <4>1 DEF Kept
      <4>3. off >= Limit
        BY <2>1, <3>0
      <4>4. off + old <= dev.size
        BY <3>0
      <4> QED BY <3>0, <4>2, <4>3, <4>4
    <3> DEFINE l == Call("unload")
    <3>3. q \in Seq(ArmedSteps(Limit)) /\ q \o l \in Seq(ArmedSteps(Limit))
      BY <2>1, <2>7, <3>1, HeaderUndoFacts
    <3>4. l \in Seq(ArmedSteps(Limit)) /\ l # <<>> /\ Len(l) = 1 /\ l[1] = [k |-> "unload"]
      <4>1. [k |-> "unload"] \in ArmedSteps(Limit)
        BY DEF ArmedSteps
      <4> QED BY <4>1 DEF Call
    <3>5. undo = q \o l
      BY <3>2
    <3> HIDE DEF q, undo, l
    <3>6. q \o l # <<>> /\ (q \o l)[Len(q \o l)] = l[Len(l)]
      BY <3>3, <3>4, LastOfConcat
    <3> QED BY <3>3, <3>4, <3>5, <3>6
  <2> HIDE DEF undo
  <2>13. Plan(lead \o (body \o <<x>>), undo) /\ job.op.op \in {"header", "structure"}
    BY <1>1, <1>3, <2>11
  <2> QED BY <1>0, <1>1, <2>8, <2>12, <2>13, HeaderPlan
<1>4. Fail \/ (~(NextOff(u) > dev.size) /\ Plan((lead \o fill) \o rest, undo))
  BY Zenon DEF PlanStructure
<1> QED BY <1>2, <1>3, <1>4, Zenon

\* A list of steps that begins with `lead`, and goes on with steps of S.
Led(q, lead, S) == \E r \in Seq(S) : q = lead \o r

\* A list of steps begins with what it was made of.
LEMMA LedStart ==
    ASSUME NEW S, NEW lead, NEW c \in Seq(S)
    PROVE  Led(lead \o c, lead, S)
BY DEF Led

\* It may be continued.
LEMMA LedGrows ==
    ASSUME NEW T, NEW S \in SUBSET T, NEW lead \in Seq(T), NEW q, Led(q, lead, S),
           NEW c \in Seq(S)
    PROVE  Led(q \o c, lead, S)
<1>1. PICK r \in Seq(S) : q = lead \o r
  BY DEF Led
<1>2. r \o c \in Seq(S)
  BY ConcatProperties
<1>3. r \in Seq(T) /\ c \in Seq(T)
  OBVIOUS
<1>4. (lead \o r) \o c = lead \o (r \o c)
  BY <1>3, ConcatAssociative
<1> QED BY <1>1, <1>2, <1>4 DEF Led

\* The list of a change of rows, part by part.
Joined(lead, c1, c2, c3, c4, c5, c6, c7, c8, c9, c10, c11, c12) ==
    lead \o c1 \o c2 \o c3 \o c4 \o c5 \o c6 \o c7 \o c8 \o c9 \o c10 \o c11 \o c12

\* So the list of a change of rows begins with its first part.
LEMMA LedChain ==
    ASSUME NEW T, NEW S \in SUBSET T, NEW lead \in Seq(T),
           NEW c1 \in Seq(S), NEW c2 \in Seq(S), NEW c3 \in Seq(S), NEW c4 \in Seq(S),
           NEW c5 \in Seq(S), NEW c6 \in Seq(S), NEW c7 \in Seq(S), NEW c8 \in Seq(S),
           NEW c9 \in Seq(S), NEW c10 \in Seq(S), NEW c11 \in Seq(S), NEW c12 \in Seq(S)
    PROVE  Led(Joined(lead, c1, c2, c3, c4, c5, c6, c7, c8, c9, c10, c11, c12), lead, S)
<1> DEFINE q3 == lead \o c1 \o c2 \o c3
           q6 == q3 \o c4 \o c5 \o c6
           q9 == q6 \o c7 \o c8 \o c9
<1>1. Led(q3, lead, S)
  <2>1. Led(lead \o c1, lead, S)
    BY LedStart
  <2>2. Led(lead \o c1 \o c2, lead, S)
    BY <2>1, LedGrows
  <2> QED BY <2>2, LedGrows
<1> HIDE DEF q3
<1>2. Led(q6, lead, S)
  <2>1. Led(q3 \o c4, lead, S)
    BY <1>1, LedGrows
  <2>2. Led(q3 \o c4 \o c5, lead, S)
    BY <2>1, LedGrows
  <2> QED BY <2>2, LedGrows
<1> HIDE DEF q6
<1>3. Led(q9, lead, S)
  <2>1. Led(q6 \o c7, lead, S)
    BY <1>2, LedGrows
  <2>2. Led(q6 \o c7 \o c8, lead, S)
    BY <2>1, LedGrows
  <2> QED BY <2>2, LedGrows
<1> HIDE DEF q9
<1>4. Led(q9 \o c10 \o c11 \o c12, lead, S)
  <2>1. Led(q9 \o c10, lead, S)
    BY <1>3, LedGrows
  <2>2. Led(q9 \o c10 \o c11, lead, S)
    BY <2>1, LedGrows
  <2> QED BY <2>2, LedGrows
<1> QED BY <1>4 DEF q3, q6, q9, Joined

\* The steps of a change of rows, but for the one that arms its rollback.
LEMMA RowsCalls ==
    ASSUME NEW F \in Nat, NEW u \in HduRec, F <= u.hoff, u.hoff <= u.doff,
           NEW bytes \in Nat, NEW h \in Name
    PROVE  LET S == RowSteps(F)
               kept == KeptBytes(u, bytes)
           IN  /\ FillCall(u.doff + kept, DataSize(bytes) - kept, FillCell(u.name)) \in Seq(S)
               /\ FillCall(u.doff + u.bytes, Larger(bytes - u.bytes, 0), Zero) \in Seq(S)
               /\ NeedCall(u.doff + DataSize(bytes)) \in Seq(S)
               /\ FillCall(u.doff + bytes, DataSize(bytes) - bytes, FillCell(u.name)) \in Seq(S)
               /\ WriteCall(u.hoff, HdrSize(h), HeaderCells(h)) \in Seq(S)
               /\ WriteCall(u.hoff, HdrSize(u.name), HeaderCells(u.name)) \in Seq(ArmedSteps(F))
               /\ \A k \in {"alloc", "fresh", "swap"} : Call(k) \in Seq(S)
<1> DEFINE S == RowSteps(F)
           kept == KeptBytes(u, bytes)
           a == u.hoff b == u.doff x == u.bytes y == DataSize(bytes) v == FillCell(u.name)
           name == u.name
<1>1. /\ name \in Name /\ a \in Nat /\ b \in Nat /\ x \in Nat /\ F <= a /\ a <= b
      /\ y \in Nat /\ bytes <= y /\ kept \in Nat /\ y - kept \in Nat
  BY HduFacts, KeptFacts
<1>2. v \in Cell /\ Zero \in Cell
  BY <1>1, HdrFacts, ZeroAssumption
<1>0. \A q \in Seq(Plain(F)) : q \in Seq(S)
  BY PlainKinds
<1> HIDE DEF S
<1>3. \A q \in Seq(WriteSteps(F)) : q \in Seq(S)
  BY <1>0, PlainCalls
<1>4. \A k \in {"alloc", "fresh", "swap"} : Call(k) \in Seq(S)
  BY <1>0, PlainCalls
<1>5. \A m \in Int : NeedCall(m) \in Seq(S)
  BY <1>0, PlainCalls
<1> HIDE DEF S, kept, a, b, x, y, v, name
<1>6. FillCall(b + kept, y - kept, v) \in Seq(S)
  <2> DEFINE off == b + kept m == y - kept
  <2>1. off \in Nat /\ off >= F /\ m \in Nat
    BY <1>1
  <2> HIDE DEF off, m
  <2>2. FillCall(off, m, v) \in Seq(WriteSteps(F))
    BY <1>2, <2>1, FillCallFacts
  <2> QED BY <1>3, <2>2 DEF off, m
<1>7. FillCall(b + x, Larger(bytes - x, 0), Zero) \in Seq(S)
  <2> DEFINE off == b + x m == Larger(bytes - x, 0)
  <2>1. off \in Nat /\ off >= F /\ m \in Nat
    BY <1>1 DEF Larger
  <2> HIDE DEF off, m
  <2>2. FillCall(off, m, Zero) \in Seq(WriteSteps(F))
    BY <1>2, <2>1, FillCallFacts
  <2> QED BY <1>3, <2>2 DEF off, m
<1>8. NeedCall(b + y) \in Seq(S)
  BY <1>1, <1>5
<1>9. FillCall(b + bytes, y - bytes, v) \in Seq(S)
  <2> DEFINE off == b + bytes m == y - bytes
  <2>1. off \in Nat /\ off >= F /\ m \in Nat
    BY <1>1
  <2> HIDE DEF off, m
  <2>2. FillCall(off, m, v) \in Seq(WriteSteps(F))
    BY <1>2, <2>1, FillCallFacts
  <2> QED BY <1>3, <2>2 DEF off, m
<1>10. WriteCall(a, HdrSize(h), HeaderCells(h)) \in Seq(S)
  <2>1. WriteCall(a, HdrSize(h), HeaderCells(h)) \in Seq(WriteSteps(F))
    BY <1>1, HdrFacts, WriteCallFacts
  <2> QED BY <1>3, <2>1
<1>11. WriteCall(a, HdrSize(name), HeaderCells(name)) \in Seq(ArmedSteps(F))
  <2>1. WriteCall(a, HdrSize(name), HeaderCells(name)) \in Seq(WriteSteps(F))
    BY <1>1, HdrFacts, WriteCallFacts
  <2> QED BY <2>1 DEF ArmedSteps
<1> QED BY <1>4, <1>6, <1>7, <1>8, <1>9, <1>10, <1>11 DEF S, kept, a, b, x, y, v, name

\* The rollback of a change of rows.
LEMMA ArmFacts ==
    ASSUME NEW F, NEW w \in Seq(ArmedSteps(F)), NEW size \in Nat, size >= F
    PROVE  ArmCall(w \o SizeCall(size) \o Call("unload")) \in Seq(RowSteps(F))
<1> DEFINE s == SizeCall(size) l == Call("unload")
<1>1. s \in Seq(ArmedSteps(F))
  <2>1. [k |-> "size", n |-> size] \in SizeSteps(F)
    BY DEF SizeSteps
  <2> QED BY <2>1 DEF SizeCall, ArmedSteps
<1>2. l \in Seq(ArmedSteps(F))
  <2>1. [k |-> "unload"] \in [k : {"unload"}]
    OBVIOUS
  <2> QED BY <2>1 DEF Call, ArmedSteps
<1> HIDE DEF s, l
<1> DEFINE undo == (w \o s) \o l
<1>3. undo \in Seq(ArmedSteps(F))
  BY <1>1, <1>2, ConcatProperties
<1> HIDE DEF undo
<1>4. [k |-> "arm", undo |-> undo] \in RowSteps(F)
  BY <1>3 DEF RowSteps, ArmSteps
<1>5. ArmCall(undo) \in Seq(RowSteps(F))
  BY <1>4 DEF ArmCall
<1> QED BY <1>5 DEF undo, s, l

\* A change of rows that asks a file to lose more cells than it has.
LEMMA StuckPlan ==
    ASSUME Good, job.pc = "scan", job.op.op = "rows", Planning, NEW todo, Plan(todo, <<>>),
           NEW c, NEW S, Led(todo, <<c>>, S), Limit = 0,
           c.k = "shift", c.delta \in Int, c.delta < 0, dev.size < -c.delta
    PROVE  Stuck'
<1>1. job \in Jobs(Limit) /\ job.hdus \in Seq(HduRec) /\ sh.pc = "idle" /\ ~Idle
  BY ScanFacts, JobFacts
<1>2. /\ job'.pc = "run" /\ job'.op = job.op /\ job'.hdus = job.hdus /\ job'.todo = todo
      /\ job'.was = job.was
  BY <1>1 DEF Plan, Jobs
<1>3. sh'.pc = "idle" /\ dev' = dev /\ dev.size \in Nat
  BY <1>1, ScanFacts DEF Planning
<1>4. Limit' = 0
  <2>1. ~Idle'
    BY <1>2 DEF Idle
  <2> QED BY <1>1, <1>2, <2>1 DEF Limit
<1>5. todo # <<>> /\ Head(todo) = c
  <2>1. PICK r \in Seq(S) : todo = <<c>> \o r
    BY DEF Led
  <2> DEFINE T == S \cup {c} q == <<c>>
  <2>2. q \in Seq(T) /\ r \in Seq(T) /\ Len(q) = 1 /\ q[1] = c
    OBVIOUS
  <2> HIDE DEF q, T
  <2>3. /\ q \o r \in Seq(T) /\ Len(q \o r) = Len(q) + Len(r) /\ Len(r) \in Nat
        /\ 1 \in DOMAIN q /\ \A i \in DOMAIN q : (q \o r)[i] = q[i]
    <3>1. 1 \in DOMAIN q
      BY <2>2
    <3>2. q \o r \in Seq(T) /\ Len(q \o r) = Len(q) + Len(r) /\ Len(r) \in Nat
      BY <2>2, JoinFacts
    <3>3. \A i \in DOMAIN q : (q \o r)[i] = q[i]
      BY <2>2, JoinFacts
    <3> QED BY <3>1, <3>2, <3>3
  <2> DEFINE t == q \o r
  <2>4. t \in Seq(T) /\ Len(t) \in Nat \ {0} /\ t[1] = c /\ todo = t
    BY <2>1, <2>2, <2>3 DEF q
  <2> HIDE DEF t
  <2>5. t # <<>>
    BY <2>4
  <2>6. Head(t) = t[1]
    BY <2>4, <2>5, TailFacts
  <2> QED BY <2>4, <2>5, <2>6
<1>6. job.op.op \notin Adding \cup {"select"}
  BY DEF Adding
<1> QED BY <1>1, <1>2, <1>3, <1>4, <1>5, <1>6 DEF Stuck

\* A change of rows.
LEMMA PlanRowsStep ==
    ASSUME Good, PlanRows
    PROVE  Good' \/ Stuck'
<1>0. Scanned("rows") /\ Planning
  BY Zenon DEF PlanRows
<1>1. job.pc = "scan" /\ full /\ job.op.op = "rows"
  BY <1>0, ScannedFacts
<1> DEFINE n == job.op.n
           u == hdus[n]
           h == job.op.name
           bytes == Hdr[h].bytes
           delta == DataSize(bytes) - DataSize(u.bytes)
           kept == KeptBytes(u, bytes)
           e == [Following(hdus, n, delta) EXCEPT ![n].bytes = bytes]
           us == [Following(hdus, n, delta) EXCEPT ![n].bytes = bytes, ![n].name = h]
           scan == scanOff + delta
           lead == OneWay(NextOff(u), delta, TRUE)
           c1 == KeepCall(e, chdu, scan, FALSE)
           c2 == FillCall(u.doff + kept, DataSize(bytes) - kept, FillCell(u.name))
           c3 == Call("fresh")
           c4 == FillCall(u.doff + u.bytes, Larger(bytes - u.bytes, 0), Zero)
           c5 == KeepCall(us, chdu, scan, FALSE)
           c6 == NeedCall(u.doff + DataSize(bytes))
           c7 == Call("alloc")
           w == WriteCall(u.hoff, HdrSize(u.name), HeaderCells(u.name))
           arm == w \o SizeCall(dev.size + delta) \o Call("unload")
           c8 == ArmCall(arm)
           c9 == FillCall(u.doff + bytes, DataSize(bytes) - bytes, FillCell(u.name))
           c10 == WriteCall(u.hoff, HdrSize(h), HeaderCells(h))
           c11 == Call("swap")
           c12 == KeepCall(us, chdu, scan, TRUE)
           todo == Joined(lead, c1, c2, c3, c4, c5, c6, c7, c8, c9, c10, c11, c12)
<1>2. CASE Fail
  BY <1>0, <1>1, <1>2, RefusedStep
<1>3. CASE Plan(todo, <<>>)
  <2>1. /\ hdus \in Seq(HduRec) /\ scanOff \in Nat /\ ListOK(hdus, scanOff, full)
        /\ Limit \in Nat /\ dev.size \in Nat /\ chdu \in Nat /\ HandleTypeOK /\ ~Idle
        /\ n \in DOMAIN hdus
    <3>1. /\ hdus \in Seq(HduRec) /\ scanOff \in Nat /\ ListOK(hdus, scanOff, full)
          /\ Limit \in Nat /\ dev.size \in Nat /\ chdu \in Nat /\ HandleTypeOK /\ ~Idle
          /\ n \in DOMAIN job.hdus /\ Len(job.hdus) <= Len(hdus) /\ Len(job.hdus) \in Nat
          /\ Len(hdus) \in Nat
          /\ DOMAIN job.hdus = 1 .. Len(job.hdus) /\ DOMAIN hdus = 1 .. Len(hdus)
      BY <1>1, ScanFacts
    <3> HIDE DEF n
    <3>2. n \in DOMAIN hdus
      BY <3>1
    <3> QED BY <3>1, <3>2
  <2>2. /\ u \in HduRec /\ u.hoff <= u.doff /\ NextOff(u) <= scanOff
        /\ Limit <= u.hoff /\ (Limit > 0 => NextOff(u) <= dev.size)
    BY <1>1, <2>1, EditedFacts
  <2>3. h \in Name
    <3>1. job.op \in Ops
      BY <2>1, JobFacts
    <3> QED BY <1>1, <3>1, OpFacts
  <2>4. /\ u.hoff \in Nat /\ u.doff \in Nat /\ NextOff(u) \in Nat /\ DataSize(u.bytes) \in Nat
        /\ NextOff(u) = u.doff + DataSize(u.bytes)
        /\ bytes \in Nat /\ DataSize(bytes) \in Nat
    <3>1. bytes \in Nat
      BY <2>3, HdrFacts
    <3>2. DataSize(bytes) \in Nat
      <4> HIDE DEF bytes
      <4> QED BY <3>1, RoundUpFacts DEF DataSize
    <3> QED BY <2>2, <3>1, <3>2, HduFacts
  <2>5. /\ e \in Seq(HduRec) /\ Ordered(e, scan) /\ scan \in Nat
        /\ us \in Seq(HduRec) /\ Ordered(us, scan)
    <3> HIDE DEF bytes
    <3> QED BY <2>1, <2>3, <2>4, RowsList, Zenon DEF ListOK
  <2> HIDE DEF e, us, scan
  <2> DEFINE S == RowSteps(Limit)
  <2>6. /\ c2 \in Seq(S) /\ c3 \in Seq(S) /\ c4 \in Seq(S) /\ c6 \in Seq(S) /\ c7 \in Seq(S)
        /\ c9 \in Seq(S) /\ c10 \in Seq(S) /\ c11 \in Seq(S) /\ w \in Seq(ArmedSteps(Limit))
    <3> HIDE DEF u, bytes, h
    <3> QED BY <2>1, <2>2, <2>3, <2>4, RowsCalls
  <2>7. c1 \in Seq(S) /\ c5 \in Seq(S) /\ c12 \in Seq(S)
    <3> DEFINE no == FALSE yes == TRUE
    <3>1. no \in BOOLEAN /\ yes \in BOOLEAN
      OBVIOUS
    <3> HIDE DEF no, yes
    <3>2. /\ \E x \in KeepSteps : KeepCall(e, chdu, scan, no) = <<x>>
          /\ \E x \in KeepSteps : KeepCall(us, chdu, scan, no) = <<x>>
          /\ \E x \in KeepSteps : KeepCall(us, chdu, scan, yes) = <<x>>
      BY <2>1, <2>5, <3>1, KeepCallFacts
    <3>3. \A x \in KeepSteps : <<x>> \in Seq(S)
      BY PlainKinds
    <3> QED BY <3>2, <3>3 DEF no, yes
  <2> HIDE DEF c1, c2, c3, c4, c5, c6, c7, c9, c10, c11, c12, w
  <2>8. /\ delta \in Int /\ NextOff(u) + delta \in Nat /\ Limit <= NextOff(u)
        /\ Limit <= NextOff(u) + delta
        /\ NextOff(u) <= dev.size => dev.size + delta \in Nat /\ Limit <= dev.size + delta
    <3> DEFINE a == u.hoff b == u.doff x == DataSize(u.bytes) y == DataSize(bytes) z == NextOff(u)
    <3>1. /\ a \in Nat /\ b \in Nat /\ x \in Nat /\ y \in Nat /\ z = b + x /\ a <= b /\ Limit <= a
          /\ delta = y - x /\ dev.size \in Nat /\ Limit \in Nat
      BY <2>1, <2>2, <2>4
    <3> HIDE DEF a, b, x, y, z, delta
    <3>2. /\ delta \in Int /\ z + delta \in Nat /\ Limit <= z /\ Limit <= z + delta
          /\ z <= dev.size => dev.size + delta \in Nat /\ Limit <= dev.size + delta
      BY <3>1
    <3> QED BY <3>2 DEF z
  <2> HIDE DEF delta
  <2>9. /\ lead \in Seq(ShiftSteps(Limit)) /\ (NextOff(u) <= dev.size => TodoOrder(lead, dev.size))
    <3> DEFINE from == NextOff(u) zero == TRUE
    <3>1. from \in Nat /\ delta \in Int /\ Limit <= from /\ Limit <= from + delta /\ zero \in BOOLEAN
      BY <2>4, <2>8
    <3> HIDE DEF from, zero
    <3>2. /\ OneWay(from, delta, zero) \in Seq(ShiftSteps(Limit))
          /\ \A size : from <= size => TodoOrder(OneWay(from, delta, zero), size)
      BY <2>1, <3>1, OneWayFacts
    <3> QED BY <3>2 DEF from, zero
  <2>10. CASE dev.size + delta \in Nat /\ Limit <= dev.size + delta
    <3> DEFINE size == dev.size + delta
    <3>1. size \in Nat /\ size >= Limit /\ w \in Seq(ArmedSteps(Limit))
      BY <2>1, <2>6, <2>10
    <3> HIDE DEF size
    <3>2. ArmCall(w \o SizeCall(size) \o Call("unload")) \in Seq(S)
      BY <3>1, ArmFacts
    <3>3. c8 \in Seq(S)
      BY <3>2 DEF size
    <3> HIDE DEF c8, lead
    <3> DEFINE T == Steps(Limit)
    <3>4. S \in SUBSET T /\ lead \in Seq(T)
      BY <2>9, PlainKinds
    <3> HIDE DEF S, T
    <3>5. Led(todo, lead, S)
      BY <2>6, <2>7, <3>3, <3>4, LedChain
    <3> HIDE DEF todo
    <3>6. PICK rest \in Seq(S) : todo = lead \o rest
      BY <3>5 DEF Led
    <3>7. Plan(lead \o rest, <<>>) /\ job.op.op \in {"delete", "rows"} /\ job.op.op # "delete"
      BY <1>1, <1>3, <3>6
    <3>8. Limit > 0 => TodoOrder(lead, dev.size)
      BY <2>2, <2>9
    <3>9. rest \in Seq(RowSteps(Limit)) /\ lead \in Seq(ShiftSteps(Limit))
      BY <2>9, <3>6 DEF S
    <3> QED BY <1>0, <1>1, <3>7, <3>8, <3>9, RowPlan
  <2>11. CASE ~(dev.size + delta \in Nat /\ Limit <= dev.size + delta)
    <3>1. Limit = 0
      BY <2>1, <2>2, <2>8, <2>11
    <3>2. delta < 0 /\ dev.size < -delta
      BY <2>1, <2>8, <2>11, <3>1
    <3> DEFINE c == [k |-> "shift", from |-> NextOff(u), delta |-> delta, zero |-> TRUE, back |-> <<>>]
    <3>3. lead = <<c>> /\ c.k = "shift" /\ c.delta = delta
      <4>1. delta # 0
        BY <2>8, <3>2
      <4> QED BY <4>1 DEF OneWay
    <3> DEFINE x == [k |-> "arm", undo |-> arm] R == S \cup {x} T == Steps(Limit) \cup {x}
    <3>4. c8 \in Seq(R)
      <4>1. x \in R
        OBVIOUS
      <4> HIDE DEF R, x, S
      <4>2. c8 = <<x>>
        BY DEF ArmCall, x
      <4> HIDE DEF c8
      <4> QED BY <4>1, <4>2
    <3> HIDE DEF c8, lead, c
    <3>5. R \in SUBSET T /\ lead \in Seq(T) /\ S \subseteq R
      <4>1. lead \in Seq(Steps(Limit)) /\ S \subseteq Steps(Limit)
        BY <2>9, PlainKinds
      <4> HIDE DEF S, x
      <4> QED BY <4>1
    <3>6. /\ c1 \in Seq(R) /\ c2 \in Seq(R) /\ c3 \in Seq(R) /\ c4 \in Seq(R) /\ c5 \in Seq(R)
          /\ c6 \in Seq(R) /\ c7 \in Seq(R) /\ c9 \in Seq(R) /\ c10 \in Seq(R) /\ c11 \in Seq(R)
          /\ c12 \in Seq(R)
      <4> HIDE DEF S, R
      <4>1. \A q \in Seq(S) : q \in Seq(R)
        BY <3>5
      <4> QED BY <2>6, <2>7, <4>1
    <3> HIDE DEF R, T
    <3>7. Led(todo, lead, R)
      BY <3>4, <3>5, <3>6, LedChain
    <3> HIDE DEF todo
    <3>8. Led(todo, <<c>>, R)
      BY <3>3, <3>7
    <3>9. c.k = "shift" /\ c.delta \in Int /\ c.delta < 0 /\ dev.size < -c.delta
      BY <2>8, <3>2, <3>3
    <3> QED BY <1>0, <1>1, <1>3, <3>1, <3>8, <3>9, StuckPlan
  <2> QED BY <2>10, <2>11
<1>4. Fail \/ Plan(todo, <<>>)
  BY Zenon DEF PlanRows, ResizeCalls, Joined
<1> QED BY <1>2, <1>3, <1>4, Zenon

-----------------------------------------------------------------------------
(* The invariant.                                                           *)

\* A change of rows that is stuck stays so: none of the steps can be taken.
LEMMA StuckStays ==
    ASSUME Stuck, Next
    PROVE  FALSE
<1>1. /\ job.pc = "run" /\ sh.pc = "idle" /\ job.todo # <<>> /\ Head(job.todo).k = "shift"
      /\ Head(job.todo).delta \in Int /\ Head(job.todo).delta < 0
      /\ dev.size \in Nat /\ dev.size < -Head(job.todo).delta
  BY DEF Stuck
<1>2. Queue = job.todo
  BY <1>1 DEF Queue
<1>3. \A K : Pending(K) => "shift" \in K
  BY <1>1, <1>2 DEF Pending
<1>4. ~CallBegins
  BY <1>1 DEF CallBegins, Reopen, SelectHdu, AppendHdu, CopyHdu, DeleteHdu, Replace, Restructure,
     Rows, WriteData, BeginEdit, Begin
<1>5. ~(ScanEnd \/ ScanHdu \/ ScanError \/ PlanSelect \/ PlanEdit \/ PrepareFails)
  BY <1>1 DEF ScanEnd, ScanHdu, ScanError, Scanning, PlanSelect, PlanEdit, PlanAppend, PlanCopy,
     PlanDelete, PlanRows, PlanHeader, PlanStructure, Scanned, PrepareFails
<1>6. ~(DeviceCall \/ Adopt \/ Keep \/ Step \/ Rejects \/ DeviceFails \/ StepFails)
  BY <1>3 DEF DeviceCall, Adopt, Keep, Step, Rejects, DeviceFails, StepFails
<1>7. ~(Return \/ ReturnError)
  BY <1>1 DEF Return, ReturnError
<1>8. ~ShiftBegin
  <2> DEFINE c == Head(job.todo)
  <2>1. c.delta \in Int /\ c.delta < 0 /\ dev.size < -c.delta /\ dev.size \in Nat
    BY <1>1
  <2>2. ~(-c.delta <= dev.size)
    BY <2>1
  <2>3. ~(c.delta > 0)
    BY <2>1
  <2> QED BY <1>2, <2>2, <2>3 DEF ShiftBegin, Shift!GrowStart, Shift!ShrinkStart, Shift!GrowStartFails
<1>9. ~(ShiftGoesOn \/ ShiftEnds)
  BY <1>1 DEF ShiftGoesOn, ShiftEnds, Shift!ShiftReturn, Shift!ShiftStep, Shift!ShiftFault,
     Shift!MoveBack, Shift!BackDone, Shift!FillGap, Shift!GapDone, Shift!MoveFront, Shift!Cut,
     Shift!MoveBackFails, Shift!FillGapFails, Shift!MoveFrontFails, Shift!CutFails
<1> QED BY <1>4, <1>5, <1>6, <1>7, <1>8, <1>9 DEF Next, CallGoesOn, CallFails

\* A handle as it is opened.
LEMMA GoodInit == Init => Good
<1> SUFFICES ASSUME Init PROVE Good
  OBVIOUS
<1>1. PICK o \in Opened(dev) : /\ hdus = o.hdus /\ scanOff = o.scanOff
                               /\ full = o.full /\ win = o.win
  BY DEF Init
<1>2. /\ dev \in InitDevices /\ chdu = 0 /\ sh = Shift!NoShift /\ job = NoJob /\ faults = 0
      /\ edits = 0 /\ damaged = FALSE
  BY DEF Init
<1>3. IsDevice(dev) /\ SP!IsDevice(dev)
  BY <1>2, HandleAssumption, SameOperators
<1>4. SP!TypeOK /\ SP!LoopInv
  <2>1. SP!Init
    BY <1>2 DEF SP!Init, SP!NoShift, Shift!NoShift
  <2> QED BY <2>1, ShiftAssumptions, SP!InvInit
<1>5. /\ hdus \in Seq(HduRec) /\ scanOff \in Nat /\ full \in BOOLEAN
      /\ win.off \in Nat /\ win.size \in Int
      /\ Ordered(hdus, scanOff) /\ (~full => Len(hdus) <= MaxHduCount)
      /\ \A i \in 0 .. win.size - 1 : win.off = 0 /\ i < dev.size /\ win.at[i] = dev.at[i]
  BY <1>1, <1>3, OpenedFacts
<1>6. Idle /\ sh.pc = "idle"
  BY <1>2 DEF Idle, NoJob, Shift!NoShift
<1>7. HandleTypeOK
  BY <1>2, <1>4, <1>5, <1>6 DEF HandleTypeOK
<1>8. Fresh(scanOff)
  <2>1. ASSUME NEW i \in scanOff .. win.off + win.size - 1, win.off <= i
        PROVE  i < dev.size /\ win.at[i] = dev.at[i]
    <3>1. i \in Nat /\ i <= win.off + win.size - 1
      BY <1>5
    <3>2. CASE win.size > 0
      <4>1. win.off = 0
        <5>1. 0 \in 0 .. win.size - 1
          BY <1>5, <3>2
        <5> QED BY <1>5, <5>1
      <4>2. i \in 0 .. win.size - 1
        BY <1>5, <3>1, <4>1
      <4> QED BY <1>5, <4>2
    <3>3. CASE win.size <= 0
      BY <1>5, <2>1, <3>1, <3>3
    <3> QED BY <1>5, <3>2, <3>3
  <2> QED BY <2>1 DEF Fresh
<1>9. Lists /\ TodoOK /\ AddingOK /\ Reach
  BY <1>5, <1>6 DEF Lists, ListOK, TodoOK, AddingOK, Reach
<1>10. WindowOK
  BY <1>6, <1>8 DEF WindowOK, Idle
<1> QED BY <1>6, <1>7, <1>9, <1>10 DEF Good

\* The invariant is about the state alone.
LEMMA GoodStutters ==
    ASSUME HandleInv, UNCHANGED vars
    PROVE  HandleInv'
<1>1. /\ dev' = dev /\ sh' = sh /\ faults' = faults /\ hdus' = hdus /\ chdu' = chdu
      /\ scanOff' = scanOff /\ full' = full /\ win' = win /\ job' = job /\ edits' = edits
      /\ damaged' = damaged
  BY DEF vars
<1>2. Idle' = Idle /\ Limit' = Limit /\ Queue' = Queue
  BY <1>1 DEF Idle, Limit, Queue, NextOff, DataSize, RoundUp
<1>3. Stuck => Stuck'
  BY <1>1, <1>2 DEF Stuck, HduRec, Name
<1>4. ASSUME Good PROVE Good'
  <2>1. HandleTypeOK'
    <3>1. SP!TypeOK' /\ SP!LoopInv'
      <4>1. [SP!Next]_SP!shiftVars
        BY <1>1 DEF SP!shiftVars
      <4> QED BY <1>4, <4>1, ShiftAssumptions, SP!InvNext DEF Good, HandleTypeOK
    <3>2. Jobs(Limit)' = Jobs(Limit)
      BY <1>2 DEF Jobs, Steps, WriteSteps, SizeSteps, ShiftSteps, BackShifts, KeepSteps, UndoSteps,
         ArmedSteps
    <3> QED BY <1>1, <1>2, <1>4, <3>1, <3>2 DEF Good, HandleTypeOK, Pending
  <2>2. Lists' /\ TodoOK'
    BY <1>1, <1>2, <1>4 DEF Good, Lists, TodoOK, ListOK, Ordered, NextOff, DataSize, RoundUp
  <2>3. WindowOK' /\ AddingOK'
    BY <1>1, <1>2, <1>4 DEF Good, WindowOK, AddingOK, Fresh
  <2>4. Reach' /\ (~Idle => Kept(Limit))'
    BY <1>1, <1>2, <1>4 DEF Good, Reach, Kept, Base
  <2> QED BY <2>1, <2>2, <2>3, <2>4 DEF Good
<1> QED BY <1>3, <1>4 DEF HandleInv

\* Every step keeps it.
LEMMA HandleStep ==
    ASSUME HandleInv, Next
    PROVE  HandleInv'
<1>1. Good
  BY StuckStays DEF HandleInv
<1>2. CASE CallBegins
  <2>1. CASE Reopen
    BY <1>1, <2>1, ReopenStep DEF HandleInv
  <2>2. CASE \E n \in 1 .. Len(hdus), v \in Value, k \in 0 .. MaxSize : WriteData(n, k, v)
    BY <1>1, <2>2, WriteDataStep DEF HandleInv
  <2>3. CASE \/ \E n \in 1 .. MaxHduCount + 1 : SelectHdu(n)
             \/ \E h \in Name : AppendHdu(h)
             \/ \E n \in 1 .. Len(hdus) + 1 : CopyHdu(n) \/ DeleteHdu(n)
             \/ \E n \in 1 .. Len(hdus), h \in Name :
                   Replace(n, h) \/ Restructure(n, h) \/ Rows(n, h)
    <3>1. Good'
      BY <1>1, <2>3, CallBeginsStep
    <3> QED BY <3>1 DEF HandleInv
  <2> QED BY <1>2, <2>1, <2>2, <2>3 DEF CallBegins
<1>3. CASE ScanEnd \/ ScanHdu \/ ScanError \/ PlanSelect
  BY <1>1, <1>3, ScanEndStep, ScanHduStep, ScanErrorStep, PlanSelectStep DEF HandleInv
<1>4. CASE PlanEdit
  BY <1>1, <1>4, PlanAppendStep, PlanCopyStep, PlanDeleteStep, PlanRowsStep, PlanHeaderStep,
     PlanStructureStep DEF PlanEdit, HandleInv
<1>5. CASE DeviceCall \/ ShiftBegin \/ ShiftGoesOn \/ ShiftEnds
  BY <1>1, <1>5, DeviceCallStep, ShiftBeginStep, ShiftGoesOnStep, ShiftEndsStep DEF HandleInv
<1>6. CASE Adopt \/ Keep \/ Step \/ Rejects
  BY <1>1, <1>6, AdoptStep, KeepStep, StepStep, RejectsStep DEF HandleInv
<1>7. CASE Return \/ ReturnError
  BY <1>1, <1>7, ReturnStep, ReturnErrorStep DEF HandleInv
<1>8. CASE CallFails
  BY <1>1, <1>8, PrepareFailsStep, DeviceFailsStep, StepFailsStep DEF CallFails, HandleInv
<1> QED BY <1>2, <1>3, <1>4, <1>5, <1>6, <1>7, <1>8 DEF Next, CallGoesOn

\* HandleInv holds in every state of the handle: whatever the file, the calls and the failures, the
\* list stands in order, the rollback under way fits the file, and the cells before the HDU a call
\* edits are those it found - unless the call is a change of rows that asks a file cut short to
\* lose more cells than it has, which is as far as the model follows it (fits.zig:484-946).
THEOREM HandleInvariant == Spec => []HandleInv
<1>1. Init => HandleInv
  BY GoodInit DEF HandleInv
<1>2. HandleInv /\ [Next]_vars => HandleInv'
  BY HandleStep, GoodStutters
<1> QED BY <1>1, <1>2, PTL DEF Spec

-----------------------------------------------------------------------------
(* What a rollback of a replacement finds.                                  *)

Replacing == {"header", "structure"}

\* The HDU that a call replaces and the file as it was: where its header and its data begin,
\* where the cells end that the new data unit keeps, where the next HDU is, and by how much
\* the header and the data unit grow.
Edit ==
    LET u == job.hdus[job.op.n]
        new == Hdr[job.op.name]
    IN  [hoff |-> u.hoff, doff |-> u.doff, next |-> NextOff(u),
         keep |-> u.doff + KeptBytes(u, new.bytes), was |-> job.was,
         data |-> job.op.op = "structure",
         hdelta |-> HdrSize(job.op.name) - (u.doff - u.hoff),
         ddelta |-> IF job.op.op = "structure" THEN DataSize(new.bytes) - DataSize(u.bytes) ELSE 0]

\* Where cell i of the file is, when the header has grown by h and the data unit by b.
At(doff, next, i, h, b) == IF i < doff THEN i ELSE IF i < next THEN i + h ELSE i + h + b

\* The device d holds the file so; `all` with the old header, which is to be written again else.
Lying(e, d, h, b, all) ==
    /\ d.size = e.was.size + h + b
    /\ \A i \in 0 .. e.was.size - 1 :
         \/ e.keep <= i /\ i < e.next
         \/ ~all /\ e.hoff <= i /\ i < e.doff
         \/ d.at[At(e.doff, e.next, i, h, b)] = e.was.at[i]

\* The file has room for what is replaced.
Room(e) == e.doff <= e.was.size /\ (e.data => e.next <= e.was.size)

\* The steps forward: two shifts, and then steps that touch only the new header and the part of
\* the new data unit that is not kept.
First(e) == Reversible(e.doff, e.hdelta)
Second(e) == Reversible(e.next + e.hdelta, e.ddelta)
MildSteps(e) ==
    [k : {"swap"}] \cup KeepSteps \cup
    {c \in WriteSteps(e.hoff) :
       \/ c.off + c.n <= e.doff + e.hdelta
       \/ e.data /\ e.keep + e.hdelta <= c.off /\ c.off + c.n <= e.next + e.hdelta + e.ddelta}

\* And back: the shifts that were made, the old header, the size, the window.
Ends(e) == SizeCall(e.was.size) \o (IF e.data THEN Call("unload") ELSE <<>>)
OldHeader(e) == WriteCall(e.hoff, e.doff - e.hoff, Slice(e.was, e.hoff, e.doff - e.hoff))
Restore(e) == OldHeader(e) \o Ends(e)
Back1(e) == OneWay(e.doff + e.hdelta, -e.hdelta, FALSE)
Back2(e) == OneWay(e.next + e.hdelta + e.ddelta, -e.ddelta, FALSE)
Backward1(e) == Back1(e) \o Restore(e)
Backward2(e) == Back2(e) \o Backward1(e)

\* The device the step under way began with.
Entry == IF sh.pc = "idle" THEN dev ELSE sh.was

Doing(e, todo, undo, d) ==
    /\ Room(e)
    /\ \/ /\ \E r \in Seq(MildSteps(e)) : todo = First(e) \o (Second(e) \o r)
          /\ undo = Restore(e) /\ Lying(e, d, 0, 0, FALSE)
       \/ /\ \E r \in Seq(MildSteps(e)) : todo = Second(e) \o r
          /\ undo = Backward1(e) /\ Lying(e, d, e.hdelta, 0, FALSE)
       \/ /\ todo \in Seq(MildSteps(e))
          /\ undo = Backward2(e) /\ Lying(e, d, e.hdelta, e.ddelta, FALSE)
Undoing(e, undo, d) ==
    \/ /\ Room(e)
       /\ \/ undo = Restore(e) /\ Lying(e, d, 0, 0, FALSE)
          \/ undo = Backward1(e) /\ Lying(e, d, e.hdelta, 0, FALSE)
          \/ undo = Backward2(e) /\ Lying(e, d, e.hdelta, e.ddelta, FALSE)
    \/ undo \in {Ends(e), Tail(Ends(e)), <<>>} /\ Lying(e, d, 0, 0, TRUE)

\* A replacement whose shifts have been complete so far knows where each cell of the file is.
ReplaceOK ==
    ~Idle /\ job.op.op \in Replacing /\ ~job.torn =>
        /\ job.pc = "run" => Doing(Edit, job.todo, job.undo, Entry)
        /\ job.pc = "undo" => Undoing(Edit, job.undo, Entry)

\* The numbers of a replacement.
EditOK(e) ==
    /\ e.hoff \in Nat /\ e.doff \in Nat /\ e.keep \in Nat /\ e.next \in Nat
    /\ e.hdelta \in Int /\ e.ddelta \in Int /\ e.data \in BOOLEAN
    /\ e.hoff <= e.doff /\ e.doff <= e.keep /\ e.keep <= e.next
    /\ e.hoff <= e.doff + e.hdelta /\ e.keep <= e.next + e.ddelta
    /\ e.ddelta # 0 => e.data
    /\ IsDevice(e.was) /\ e.was.size \in Nat

\* A call that goes on replaces the same HDU of the same file.
LEMMA SameEdit ==
    ASSUME SameCall
    PROVE  Edit' = Edit
BY DEF SameCall, Edit, NextOff, DataSize, RoundUp, HdrSize, KeptBytes, Smaller

\* The numbers of a replacement are what its arithmetic needs.
LEMMA EditFacts ==
    ASSUME HandleTypeOK, Lists, ~Idle, job.op.op \in Replacing
    PROVE  EditOK(Edit)
<1> DEFINE u == job.hdus[job.op.n] bytes == Hdr[job.op.name].bytes kept == KeptBytes(u, bytes)
           old == u.doff - u.hoff  size == HdrSize(job.op.name) x == DataSize(u.bytes)
           y == DataSize(bytes)
<1>1. /\ job.hdus \in Seq(HduRec) /\ job.op \in Ops /\ IsDevice(job.was) /\ job.was.size \in Nat
      /\ job.op.n \in DOMAIN job.hdus /\ Ordered(job.hdus, job.scanOff)
  BY JobFacts DEF Lists, ListOK, Replacing
<1>2. u \in HduRec /\ u.hoff <= u.doff
  <2>1. DOMAIN job.hdus = 1 .. Len(job.hdus)
    BY <1>1
  <2> QED BY <1>1, <2>1 DEF Ordered
<1>3. job.op.name \in Name
  BY <1>1, OpFacts DEF Replacing
<1>4. /\ u.hoff \in Nat /\ u.doff \in Nat /\ NextOff(u) = u.doff + x /\ x \in Nat
      /\ u.bytes \in Nat /\ u.bytes <= x /\ size \in Nat /\ bytes \in Nat
  BY <1>2, <1>3, HduFacts, HdrFacts
<1>5. y \in Nat /\ kept \in Nat /\ kept <= y /\ kept <= x
  <2> HIDE DEF u, bytes, x
  <2>1. y \in Nat /\ bytes <= y
    BY <1>4, RoundUpFacts DEF DataSize
  <2>2. kept \in Nat /\ kept <= bytes /\ kept <= u.bytes
    BY <1>4 DEF KeptBytes, Smaller
  <2> QED BY <1>4, <2>1, <2>2
<1> DEFINE e == Edit  hoff == u.hoff  doff == u.doff  next == NextOff(u)
<1>6. /\ e.hoff = hoff /\ e.doff = doff /\ e.next = next /\ e.keep = doff + kept
      /\ e.was = job.was /\ e.data = (job.op.op = "structure") /\ e.hdelta = size - old
      /\ e.ddelta = IF e.data THEN y - x ELSE 0
  BY DEF Edit
<1>7. old = doff - hoff
  OBVIOUS
<1> HIDE DEF e, hoff, doff, next, kept, old, size, x, y, u, bytes
<1>8. /\ hoff \in Nat /\ doff \in Nat /\ hoff <= doff /\ next = doff + x
  BY <1>2, <1>4 DEF hoff, doff, next
<1>9. e.data \in BOOLEAN
  BY <1>6
<1>10. /\ doff + kept \in Nat /\ next \in Nat /\ size - old \in Int /\ e.ddelta \in Int
       /\ doff <= doff + kept /\ doff + kept <= next /\ hoff <= doff + (size - old)
       /\ doff + kept <= next + e.ddelta /\ (e.ddelta # 0 => e.data)
  <2>1. CASE e.data
    BY <1>4, <1>5, <1>6, <1>7, <1>8, <2>1
  <2>2. CASE ~e.data
    BY <1>4, <1>5, <1>6, <1>7, <1>8, <2>2
  <2> QED BY <2>1, <2>2
<1>11. EditOK(e)
  BY <1>1, <1>6, <1>8, <1>9, <1>10 DEF EditOK
<1> QED BY <1>11 DEF e

\* Positions: where a cell that is kept lies, once one unit or both have moved, and how that
\* compares with the shifts and the writes that come next.
Sizes(hoff, doff, keep, next, hd, dd, size) ==
    /\ hoff <= doff /\ doff <= keep /\ keep <= next /\ hoff <= doff + hd /\ keep <= next + dd
    /\ doff <= size /\ (dd = 0 \/ next <= size)

Places3(doff, next, i, hd, dd, size) ==
    LET p == At(doff, next, i, hd, 0) q == At(doff, next, i, hd, dd)
    IN  /\ At(doff, next, i, 0, 0) = i
        /\ p \in 0 .. size + hd - 1 /\ q \in 0 .. size + hd + dd - 1
        /\ \/ i < doff /\ i < doff + hd /\ p = i
           \/ i >= doff /\ p = i + hd
        /\ \/ p < next + hd /\ p < next + hd + dd /\ q = p
           \/ p >= next + hd /\ q = p + dd

\* Each cell that is kept is in the file, and on the side of each shift that it moved to.
LEMMA Positions ==
    ASSUME NEW hoff \in Nat, NEW doff \in Nat, NEW keep \in Nat, NEW next \in Nat,
           NEW hd \in Int, NEW dd \in Int, NEW size \in Nat, NEW i \in 0 .. size - 1,
           Sizes(hoff, doff, keep, next, hd, dd, size),
           ~(keep <= i /\ i < next), ~(hoff <= i /\ i < doff)
    PROVE  Places3(doff, next, i, hd, dd, size)
<1> USE DEF Sizes, Places3
<1>1. At(doff, next, i, 0, 0) = i
  BY DEF At
<1>2. CASE i < hoff
  BY <1>1, <1>2 DEF At
<1>3. CASE doff <= i /\ i < keep
  BY <1>1, <1>3 DEF At
<1>4. CASE next <= i
  <2>1. At(doff, next, i, hd, 0) = i + hd /\ At(doff, next, i, hd, dd) = i + hd + dd
    BY <1>4 DEF At
  <2> QED BY <1>1, <1>4, <2>1
<1> QED BY <1>2, <1>3, <1>4

Apart(hoff, doff, keep, next, i, hd, dd) ==
    LET q == At(doff, next, i, hd, dd)
    IN  /\ q < hoff \/ doff + hd <= q
        /\ q < keep + hd \/ next + hd + dd <= q

\* The new header and the filled part of the new data unit hold no cell that is kept.
LEMMA ApartFromWrites ==
    ASSUME NEW hoff \in Nat, NEW doff \in Nat, NEW keep \in Nat, NEW next \in Nat,
           NEW hd \in Int, NEW dd \in Int, NEW size \in Nat, NEW i \in 0 .. size - 1,
           Sizes(hoff, doff, keep, next, hd, dd, size),
           ~(keep <= i /\ i < next), ~(hoff <= i /\ i < doff)
    PROVE  Apart(hoff, doff, keep, next, i, hd, dd)
<1> USE DEF Sizes, Apart
<1>2. CASE i < hoff
  BY <1>2 DEF At
<1>3. CASE doff <= i /\ i < keep
  BY <1>3 DEF At
<1>4. CASE next <= i
  <2>1. At(doff, next, i, hd, dd) = i + hd + dd
    BY <1>4 DEF At
  <2> QED BY <1>4, <2>1
<1> QED BY <1>2, <1>3, <1>4

\* The same of a replacement.
LEMMA Places ==
    ASSUME NEW e, EditOK(e), Room(e)
    PROVE  /\ e.was.size \in Nat
           /\ Sizes(e.hoff, e.doff, e.keep, e.next, e.hdelta, e.ddelta, e.was.size)
BY DEF EditOK, Room, Sizes

\* A shift that is complete: d2 is d with the cells from `from` on moved by delta.
Moved(d, d2, from, delta) ==
    /\ d2.size = d.size + delta
    /\ \A x \in 0 .. d.size - 1 :
         /\ x < from /\ x < from + delta => d2.at[x] = d.at[x]
         /\ x >= from => d2.at[x + delta] = d.at[x]

\* The four shifts take the file from one state of the replacement to another.
LEMMA FirstMoves ==
    ASSUME NEW e, EditOK(e), Room(e), NEW d, NEW d2, Moved(d, d2, e.doff, e.hdelta),
           Lying(e, d, 0, 0, FALSE)
    PROVE  Lying(e, d2, e.hdelta, 0, FALSE)
<1> DEFINE hoff == e.hoff doff == e.doff keep == e.keep next == e.next hd == e.hdelta
           dd == e.ddelta size == e.was.size from == e.doff delta == e.hdelta
           p(i) == At(doff, next, i, 0, 0)
           q(i) == At(doff, next, i, hd, 0)
<1>1. /\ hoff \in Nat /\ doff \in Nat /\ keep \in Nat /\ next \in Nat /\ hd \in Int /\ dd \in Int
      /\ size \in Nat /\ Sizes(hoff, doff, keep, next, hd, dd, size)
  BY Places DEF EditOK
<1>2. from = doff /\ delta = hd
  OBVIOUS
<1>3. /\ d.size = size + 0 + 0
      /\ \A i \in 0 .. size - 1 : \/ keep <= i /\ i < next
                                  \/ hoff <= i /\ i < doff
                                  \/ d.at[p(i)] = e.was.at[i]
  BY DEF Lying
<1>4. /\ d2.size = d.size + delta
      /\ \A x \in 0 .. d.size - 1 : /\ x < from /\ x < from + delta => d2.at[x] = d.at[x]
                                    /\ x >= from => d2.at[x + delta] = d.at[x]
  BY DEF Moved
<1>5. SUFFICES /\ d2.size = size + hd + 0
               /\ \A i \in 0 .. size - 1 : \/ keep <= i /\ i < next
                                           \/ hoff <= i /\ i < doff
                                           \/ d2.at[q(i)] = e.was.at[i]
  BY DEF Lying
<1> HIDE DEF hoff, doff, keep, next, hd, dd, size, from, delta
<1>6. ASSUME NEW i \in 0 .. size - 1, ~(keep <= i /\ i < next), ~(hoff <= i /\ i < doff)
      PROVE  d2.at[q(i)] = e.was.at[i]
  <2>1. d.at[p(i)] = e.was.at[i]
    BY <1>3, <1>6
  <2>2. Places3(doff, next, i, hd, dd, size)
    BY <1>1, <1>6, Positions
  <2>3. /\ p(i) \in 0 .. d.size - 1
        /\ \/ p(i) < from /\ p(i) < from + delta /\ q(i) = p(i)
           \/ p(i) >= from /\ q(i) = p(i) + delta
    BY <1>1, <1>2, <1>3, <1>6, <2>2 DEF Places3
  <2> HIDE DEF p, q
  <2> QED BY <1>4, <2>1, <2>3
<1>7. d2.size = size + hd + 0
  BY <1>1, <1>2, <1>3, <1>4
<1> QED BY <1>6, <1>7

\* The second shift moves what is behind the data unit.
LEMMA SecondMoves ==
    ASSUME NEW e, EditOK(e), Room(e), NEW d, NEW d2, Moved(d, d2, e.next + e.hdelta, e.ddelta),
           Lying(e, d, e.hdelta, 0, FALSE)
    PROVE  Lying(e, d2, e.hdelta, e.ddelta, FALSE)
<1> DEFINE hoff == e.hoff doff == e.doff keep == e.keep next == e.next hd == e.hdelta
           dd == e.ddelta size == e.was.size from == e.next + e.hdelta delta == e.ddelta
           p(i) == At(doff, next, i, hd, 0)
           q(i) == At(doff, next, i, hd, dd)
<1>1. /\ hoff \in Nat /\ doff \in Nat /\ keep \in Nat /\ next \in Nat /\ hd \in Int /\ dd \in Int
      /\ size \in Nat /\ Sizes(hoff, doff, keep, next, hd, dd, size)
  BY Places DEF EditOK
<1>2. from = next + hd /\ delta = dd
  OBVIOUS
<1>3. /\ d.size = size + hd + 0
      /\ \A i \in 0 .. size - 1 : \/ keep <= i /\ i < next
                                  \/ hoff <= i /\ i < doff
                                  \/ d.at[p(i)] = e.was.at[i]
  BY DEF Lying
<1>4. /\ d2.size = d.size + delta
      /\ \A x \in 0 .. d.size - 1 : /\ x < from /\ x < from + delta => d2.at[x] = d.at[x]
                                    /\ x >= from => d2.at[x + delta] = d.at[x]
  BY DEF Moved
<1>5. SUFFICES /\ d2.size = size + hd + dd
               /\ \A i \in 0 .. size - 1 : \/ keep <= i /\ i < next
                                           \/ hoff <= i /\ i < doff
                                           \/ d2.at[q(i)] = e.was.at[i]
  BY DEF Lying
<1> HIDE DEF hoff, doff, keep, next, hd, dd, size, from, delta
<1>6. ASSUME NEW i \in 0 .. size - 1, ~(keep <= i /\ i < next), ~(hoff <= i /\ i < doff)
      PROVE  d2.at[q(i)] = e.was.at[i]
  <2>1. d.at[p(i)] = e.was.at[i]
    BY <1>3, <1>6
  <2>2. Places3(doff, next, i, hd, dd, size)
    BY <1>1, <1>6, Positions
  <2>3. /\ p(i) \in 0 .. d.size - 1
        /\ \/ p(i) < from /\ p(i) < from + delta /\ q(i) = p(i)
           \/ p(i) >= from /\ q(i) = p(i) + delta
    BY <1>1, <1>2, <1>3, <1>6, <2>2 DEF Places3
  <2> HIDE DEF p, q
  <2> QED BY <1>4, <2>1, <2>3
<1>7. d2.size = size + hd + dd
  BY <1>1, <1>2, <1>3, <1>4
<1> QED BY <1>6, <1>7

\* Its rollback brings that back.
LEMMA SecondMovesBack ==
    ASSUME NEW e, EditOK(e), Room(e), NEW d, NEW d2, Moved(d, d2, e.next + e.hdelta + e.ddelta, -e.ddelta),
           Lying(e, d, e.hdelta, e.ddelta, FALSE)
    PROVE  Lying(e, d2, e.hdelta, 0, FALSE)
<1> DEFINE hoff == e.hoff doff == e.doff keep == e.keep next == e.next hd == e.hdelta
           dd == e.ddelta size == e.was.size from == e.next + e.hdelta + e.ddelta delta == -e.ddelta
           p(i) == At(doff, next, i, hd, dd)
           q(i) == At(doff, next, i, hd, 0)
<1>1. /\ hoff \in Nat /\ doff \in Nat /\ keep \in Nat /\ next \in Nat /\ hd \in Int /\ dd \in Int
      /\ size \in Nat /\ Sizes(hoff, doff, keep, next, hd, dd, size)
  BY Places DEF EditOK
<1>2. from = next + hd + dd /\ delta = -dd
  OBVIOUS
<1>3. /\ d.size = size + hd + dd
      /\ \A i \in 0 .. size - 1 : \/ keep <= i /\ i < next
                                  \/ hoff <= i /\ i < doff
                                  \/ d.at[p(i)] = e.was.at[i]
  BY DEF Lying
<1>4. /\ d2.size = d.size + delta
      /\ \A x \in 0 .. d.size - 1 : /\ x < from /\ x < from + delta => d2.at[x] = d.at[x]
                                    /\ x >= from => d2.at[x + delta] = d.at[x]
  BY DEF Moved
<1>5. SUFFICES /\ d2.size = size + hd + 0
               /\ \A i \in 0 .. size - 1 : \/ keep <= i /\ i < next
                                           \/ hoff <= i /\ i < doff
                                           \/ d2.at[q(i)] = e.was.at[i]
  BY DEF Lying
<1> HIDE DEF hoff, doff, keep, next, hd, dd, size, from, delta
<1>6. ASSUME NEW i \in 0 .. size - 1, ~(keep <= i /\ i < next), ~(hoff <= i /\ i < doff)
      PROVE  d2.at[q(i)] = e.was.at[i]
  <2>1. d.at[p(i)] = e.was.at[i]
    BY <1>3, <1>6
  <2>2. Places3(doff, next, i, hd, dd, size)
    BY <1>1, <1>6, Positions
  <2>3. /\ p(i) \in 0 .. d.size - 1
        /\ \/ p(i) < from /\ p(i) < from + delta /\ q(i) = p(i)
           \/ p(i) >= from /\ q(i) = p(i) + delta
    BY <1>1, <1>2, <1>3, <1>6, <2>2 DEF Places3
  <2> HIDE DEF p, q
  <2> QED BY <1>4, <2>1, <2>3
<1>7. d2.size = size + hd + 0
  BY <1>1, <1>2, <1>3, <1>4
<1> QED BY <1>6, <1>7

\* The rollback of the first shift brings back what is behind the header.
LEMMA FirstMovesBack ==
    ASSUME NEW e, EditOK(e), Room(e), NEW d, NEW d2, Moved(d, d2, e.doff + e.hdelta, -e.hdelta),
           Lying(e, d, e.hdelta, 0, FALSE)
    PROVE  Lying(e, d2, 0, 0, FALSE)
<1> DEFINE hoff == e.hoff doff == e.doff keep == e.keep next == e.next hd == e.hdelta
           dd == e.ddelta size == e.was.size from == e.doff + e.hdelta delta == -e.hdelta
           p(i) == At(doff, next, i, hd, 0)
           q(i) == At(doff, next, i, 0, 0)
<1>1. /\ hoff \in Nat /\ doff \in Nat /\ keep \in Nat /\ next \in Nat /\ hd \in Int /\ dd \in Int
      /\ size \in Nat /\ Sizes(hoff, doff, keep, next, hd, dd, size)
  BY Places DEF EditOK
<1>2. from = doff + hd /\ delta = -hd
  OBVIOUS
<1>3. /\ d.size = size + hd + 0
      /\ \A i \in 0 .. size - 1 : \/ keep <= i /\ i < next
                                  \/ hoff <= i /\ i < doff
                                  \/ d.at[p(i)] = e.was.at[i]
  BY DEF Lying
<1>4. /\ d2.size = d.size + delta
      /\ \A x \in 0 .. d.size - 1 : /\ x < from /\ x < from + delta => d2.at[x] = d.at[x]
                                    /\ x >= from => d2.at[x + delta] = d.at[x]
  BY DEF Moved
<1>5. SUFFICES /\ d2.size = size + 0 + 0
               /\ \A i \in 0 .. size - 1 : \/ keep <= i /\ i < next
                                           \/ hoff <= i /\ i < doff
                                           \/ d2.at[q(i)] = e.was.at[i]
  BY DEF Lying
<1> HIDE DEF hoff, doff, keep, next, hd, dd, size, from, delta
<1>6. ASSUME NEW i \in 0 .. size - 1, ~(keep <= i /\ i < next), ~(hoff <= i /\ i < doff)
      PROVE  d2.at[q(i)] = e.was.at[i]
  <2>1. d.at[p(i)] = e.was.at[i]
    BY <1>3, <1>6
  <2>2. Places3(doff, next, i, hd, dd, size)
    BY <1>1, <1>6, Positions
  <2>3. /\ p(i) \in 0 .. d.size - 1
        /\ \/ p(i) < from /\ p(i) < from + delta /\ q(i) = p(i)
           \/ p(i) >= from /\ q(i) = p(i) + delta
    BY <1>1, <1>2, <1>3, <1>6, <2>2 DEF Places3
  <2> HIDE DEF p, q
  <2> QED BY <1>4, <2>1, <2>3
<1>7. d2.size = size + 0 + 0
  BY <1>1, <1>2, <1>3, <1>4
<1> QED BY <1>6, <1>7

\* The writes of a replacement, whole or in part, change no cell that is kept.
LEMMA MildWrites ==
    ASSUME NEW e, NEW d, NEW c \in MildSteps(e), NEW k \in 0 .. c.n, EditOK(e), Room(e), IsDevice(d),
           c.k = "write", Lying(e, d, e.hdelta, e.ddelta, FALSE)
    PROVE  Lying(e, Written(d, c.off, k, c.cells), e.hdelta, e.ddelta, FALSE)
<1> DEFINE hoff == e.hoff doff == e.doff keep == e.keep next == e.next hd == e.hdelta
           dd == e.ddelta size == e.was.size off == c.off n == c.n cells == c.cells
           d2 == Written(d, c.off, k, c.cells) q(i) == At(doff, next, i, hd, dd)
<1>1. /\ hoff \in Nat /\ doff \in Nat /\ keep \in Nat /\ next \in Nat /\ hd \in Int /\ dd \in Int
      /\ size \in Nat /\ Sizes(hoff, doff, keep, next, hd, dd, size)
      /\ e.data => next <= size
  BY Places DEF EditOK, Room
<1>2. /\ off \in Nat /\ n \in Nat \ {0} /\ off >= hoff /\ \A x \in 0 .. n - 1 : cells[x] \in Cell
      /\ \/ off + n <= doff + hd
         \/ e.data /\ keep + hd <= off /\ off + n <= next + hd + dd
  <2>1. c \notin [k : {"swap"}] /\ c \notin KeepSteps
    BY DEF KeepSteps
  <2>2. c \in WriteSteps(e.hoff)
    BY <2>1 DEF MildSteps
  <2>3. /\ off + n <= doff + hd \/ (e.data /\ keep + hd <= off /\ off + n <= next + hd + dd)
    BY <2>1 DEF MildSteps
  <2>4. PICK m \in Nat \ {0} : c \in [k : {"write"}, off : {o \in Nat : o >= hoff}, n : {m}, cells : [0 .. m - 1 -> Cell]]
    BY <2>2 DEF WriteSteps
  <2>5. off \in Nat /\ off >= hoff /\ n = m /\ cells \in [0 .. m - 1 -> Cell]
    BY <2>4
  <2> QED BY <2>3, <2>5
<1>3. /\ d.size = size + hd + dd
      /\ \A i \in 0 .. size - 1 : \/ keep <= i /\ i < next
                                  \/ hoff <= i /\ i < doff
                                  \/ d.at[q(i)] = e.was.at[i]
  BY DEF Lying
<1>4. d.size \in Nat
  BY DEF IsDevice
<1>5. SUFFICES /\ d2.size = size + hd + dd
               /\ \A i \in 0 .. size - 1 : \/ keep <= i /\ i < next
                                           \/ hoff <= i /\ i < doff
                                           \/ d2.at[q(i)] = e.was.at[i]
  BY DEF Lying
<1>6. d2 = Written(d, off, k, cells) /\ k \in 0 .. n
  OBVIOUS
<1> HIDE DEF hoff, doff, keep, next, hd, dd, size, off, n, cells, d2
<1>7. k \in Nat /\ k <= n /\ off + k <= d.size
  BY <1>1, <1>2, <1>3, <1>4, <1>6 DEF Sizes
<1>8. /\ d2.size = d.size
      /\ \A x \in 0 .. d.size - 1 : x < off \/ off + n <= x => d2.at[x] = d.at[x]
  <2> DEFINE w == Written(d, off, k, cells)
  <2>1. /\ w.size = IF k = 0 \/ off + k <= d.size THEN d.size ELSE off + k
        /\ \A x \in 0 .. w.size - 1 :
             w.at[x] = IF off <= x /\ x < off + k THEN cells[x - off]
                       ELSE IF x < d.size THEN d.at[x] ELSE Zero
    <3>1. \A x \in 0 .. k - 1 : cells[x] \in Cell
      BY <1>2, <1>7
    <3> QED BY <1>2, <1>7, <3>1, ShiftAssumptions, SameOperators, SP!WrittenFacts
  <2>2. w = d2
    BY <1>6
  <2> HIDE DEF w
  <2>3. d2.size = d.size
    BY <1>7, <2>1, <2>2
  <2>4. ASSUME NEW x \in 0 .. d.size - 1, x < off \/ off + n <= x
        PROVE  d2.at[x] = d.at[x]
    BY <1>2, <1>4, <1>7, <2>1, <2>2, <2>3, <2>4
  <2> QED BY <2>3, <2>4
<1>9. ASSUME NEW i \in 0 .. size - 1, ~(keep <= i /\ i < next), ~(hoff <= i /\ i < doff)
      PROVE  d2.at[q(i)] = e.was.at[i]
  <2>1. d.at[q(i)] = e.was.at[i]
    BY <1>3, <1>9
  <2>2. Places3(doff, next, i, hd, dd, size)
    BY <1>1, <1>9, Positions
  <2>3. q(i) \in 0 .. d.size - 1
    BY <1>1, <1>3, <1>4, <1>9, <2>2 DEF Places3
  <2>4. Apart(hoff, doff, keep, next, i, hd, dd)
    BY <1>1, <1>9, ApartFromWrites
  <2>5. q(i) < off \/ off + n <= q(i)
    BY <1>1, <1>2, <1>3, <1>4, <2>3, <2>4 DEF Apart
  <2> HIDE DEF q
  <2> QED BY <1>8, <2>1, <2>3, <2>5
<1> QED BY <1>3, <1>8, <1>9

\* The old header in its place completes the file.
LEMMA RestoredHeader ==
    ASSUME NEW e, EditOK(e), Room(e), NEW d, IsDevice(d), Lying(e, d, 0, 0, FALSE),
           e.doff - e.hoff # 0
    PROVE  Lying(e, Written(d, e.hoff, e.doff - e.hoff, Slice(e.was, e.hoff, e.doff - e.hoff)),
                 0, 0, TRUE)
<1> DEFINE hoff == e.hoff doff == e.doff keep == e.keep next == e.next n == e.doff - e.hoff
           size == e.was.size cells == Slice(e.was, e.hoff, e.doff - e.hoff)
           d2 == Written(d, e.hoff, n, cells)
<1>1. /\ hoff \in Nat /\ doff \in Nat /\ keep \in Nat /\ next \in Nat /\ size \in Nat
      /\ Sizes(hoff, doff, keep, next, e.hdelta, e.ddelta, size) /\ n = doff - hoff
      /\ e.hdelta \in Int /\ e.ddelta \in Int
  BY Places DEF EditOK
<1>2. n \in Nat /\ hoff + n <= size
  <2> HIDE DEF hoff, doff, n, size
  <2> QED BY <1>1 DEF Sizes
<1>3. cells \in [0 .. n - 1 -> Cell] /\ \A x \in 0 .. n - 1 : cells[x] = e.was.at[hoff + x]
  <2>1. IsDevice(e.was)
    BY DEF EditOK
  <2> DEFINE off == e.hoff m == n
  <2>2. off \in Nat /\ m \in Nat /\ off + m <= e.was.size
    BY <1>1, <1>2
  <2> HIDE DEF off, m, n
  <2>3. Slice(e.was, off, m) \in [0 .. m - 1 -> Cell]
    BY <2>1, <2>2, SliceFacts
  <2>4. \A x \in 0 .. m - 1 : Slice(e.was, off, m)[x] = e.was.at[off + x]
    BY <2>2 DEF Slice
  <2> QED BY <2>3, <2>4 DEF off, m, n
<1>4. /\ d.size = size
      /\ \A i \in 0 .. size - 1 : \/ keep <= i /\ i < next
                                  \/ hoff <= i /\ i < doff
                                  \/ d.at[At(doff, next, i, 0, 0)] = e.was.at[i]
  <2>1. d.size = size + 0 + 0
    BY DEF Lying
  <2> HIDE DEF size
  <2>2. d.size = size
    BY <1>1, <2>1
  <2> QED BY <2>2 DEF Lying, size
<1>5. /\ d2.size = size
      /\ \A x \in 0 .. size - 1 :
           d2.at[x] = IF hoff <= x /\ x < hoff + n THEN cells[x - hoff] ELSE d.at[x]
  <2>1. /\ d2.size = IF n = 0 \/ hoff + n <= d.size THEN d.size ELSE hoff + n
        /\ \A x \in 0 .. d2.size - 1 :
             d2.at[x] = IF hoff <= x /\ x < hoff + n THEN cells[x - hoff]
                        ELSE IF x < d.size THEN d.at[x] ELSE Zero
    <3> DEFINE off == e.hoff
    <3>1. /\ off \in Nat /\ n \in Nat /\ \A x \in 0 .. n - 1 : cells[x] \in Cell
      BY <1>1, <1>2, <1>3
    <3> HIDE DEF off, n, cells
    <3>2. LET w == Written(d, off, n, cells)
          IN  /\ w.size = IF n = 0 \/ off + n <= d.size THEN d.size ELSE off + n
              /\ \A x \in 0 .. w.size - 1 :
                   w.at[x] = IF off <= x /\ x < off + n THEN cells[x - off]
                             ELSE IF x < d.size THEN d.at[x] ELSE Zero
      BY <3>1, ShiftAssumptions, SameOperators, SP!WrittenFacts
    <3> QED BY <3>2 DEF off
  <2> HIDE DEF d2, hoff, n, size, cells
  <2> QED BY <1>1, <1>2, <1>4, <2>1
<1> HIDE DEF d2
<1>6. ASSUME NEW i \in 0 .. size - 1, ~(keep <= i /\ i < next)
      PROVE  d2.at[At(doff, next, i, 0, 0)] = e.was.at[i]
  <2>1. At(doff, next, i, 0, 0) = i
    <3> HIDE DEF doff, next, size
    <3> QED BY <1>1 DEF At
  <2>2. CASE hoff <= i /\ i < doff
    <3> HIDE DEF hoff, doff, n, size, cells
    <3>1. i < hoff + n /\ i - hoff \in 0 .. n - 1 /\ hoff + (i - hoff) = i
      BY <1>1, <2>2
    <3> QED BY <1>3, <1>5, <2>1, <2>2, <3>1
  <2>3. CASE ~(hoff <= i /\ i < doff)
    <3>1. d.at[i] = e.was.at[i]
      BY <1>4, <1>6, <2>1, <2>3
    <3>2. ~(hoff <= i /\ i < hoff + n)
      <4> HIDE DEF hoff, doff, n, size
      <4> QED BY <1>1, <2>3
    <3> QED BY <1>5, <2>1, <3>1, <3>2
  <2> QED BY <2>2, <2>3
<1>7. d2.size = size + 0 + 0
  <2> HIDE DEF size
  <2> QED BY <1>1, <1>5
<1> QED BY <1>6, <1>7 DEF Lying, d2

\* A list of steps that begins with the step c and goes on with r.
Begins(q, c, r) == q # <<>> /\ Head(q) = c /\ Tail(q) = r

\* One step and a list behind it.
LEMMA InFront ==
    ASSUME NEW S, NEW c \in S, NEW q \in Seq(S), NEW s, s = <<c>>
    PROVE  Begins(s \o q, c, q) /\ s \o q \in Seq(S)
<1>1. s \in Seq(S) /\ Len(s) = 1 /\ s[1] = c
  <2>1. <<c>> \in Seq(S)
    OBVIOUS
  <2>2. Len(<<c>>) = 1 /\ <<c>>[1] = c
    OBVIOUS
  <2> QED BY <2>1, <2>2
<1>2. /\ s \o q \in Seq(S) /\ Len(s \o q) = Len(s) + Len(q) /\ Len(q) \in Nat
      /\ \A i \in 1 .. Len(s) + Len(q) :
           (s \o q)[i] = IF i <= Len(s) THEN s[i] ELSE q[i - Len(s)]
  BY <1>1, ConcatProperties, LenProperties
<1> DEFINE r == s \o q
<1>3. /\ r \in Seq(S) /\ Len(r) = 1 + Len(q)
      /\ \A i \in 1 .. 1 + Len(q) : r[i] = IF i <= 1 THEN c ELSE q[i - 1]
  <2>1. ASSUME NEW i \in 1 .. 1 + Len(q) PROVE r[i] = IF i <= 1 THEN c ELSE q[i - 1]
    <3>1. r[i] = IF i <= 1 THEN s[i] ELSE q[i - 1]
      BY <1>1, <1>2
    <3>2. i <= 1 => i = 1
      BY <1>2
    <3> QED BY <1>1, <3>1, <3>2
  <2> QED BY <1>1, <1>2, <2>1
<1> HIDE DEF r
<1>4. r # <<>>
  BY <1>2, <1>3
<1>5. /\ Head(r) = r[1] /\ Tail(r) \in Seq(S) /\ Len(Tail(r)) = Len(r) - 1
      /\ \A i \in 1 .. Len(r) - 1 : Tail(r)[i] = r[i + 1]
  BY <1>3, <1>4, TailFacts
<1>6. Head(r) = c
  BY <1>2, <1>3, <1>5
<1>7. Len(Tail(r)) = Len(q) /\ \A i \in 1 .. Len(q) : Tail(r)[i] = q[i]
  BY <1>2, <1>3, <1>5
<1>8. Tail(r) = q
  BY <1>5, <1>7, SeqEqual
<1> QED BY <1>3, <1>4, <1>6, <1>8 DEF Begins, r

\* A step, or none, before a list of steps.
Perhaps(p, c) == p = <<>> \/ p = <<c>>
\* At most one step and a list behind it.
LEMMA Before ==
    ASSUME NEW S, NEW c \in S, NEW q \in Seq(S), NEW p, Perhaps(p, c)
    PROVE  /\ p \o q \in Seq(S)
           /\ p = <<>> => p \o q = q
           /\ p # <<>> => Begins(p \o q, c, q)
<1>1. CASE p = <<>>
  <2>1. <<>> \o q = q
    OBVIOUS
  <2> QED BY <1>1, <2>1
<1>2. CASE p = <<c>>
  <2>1. p # <<>>
    BY <1>2
  <2>2. Begins(p \o q, c, q) /\ p \o q \in Seq(S)
    BY <1>2, InFront
  <2> QED BY <2>1, <2>2
<1> QED BY <1>1, <1>2 DEF Perhaps

\* A step that is made unless a number is zero, before a list of steps.
LEMMA Unless ==
    ASSUME NEW S, NEW c \in S, NEW q \in Seq(S), NEW n, NEW p, p = IF n = 0 THEN <<>> ELSE <<c>>
    PROVE  /\ p \o q \in Seq(S)
           /\ n = 0 => p \o q = q
           /\ n # 0 => Begins(p \o q, c, q)
<1>1. CASE n = 0
  <2>1. p = <<>>
    BY <1>1
  <2> QED BY <1>1, <2>1, Before DEF Perhaps
<1>2. CASE n # 0
  <2>1. p = <<c>>
    BY <1>2
  <2> QED BY <1>2, <2>1, InFront
<1> QED BY <1>1, <1>2

\* The steps themselves.
Do1(e) == [k |-> "shift", from |-> e.doff, delta |-> e.hdelta, zero |-> FALSE,
           back |-> Back1(e)]
Do2(e) == [k |-> "shift", from |-> e.next + e.hdelta, delta |-> e.ddelta, zero |-> FALSE,
           back |-> Back2(e)]
Undo1(e) == [k |-> "shift", from |-> e.doff + e.hdelta, delta |-> -e.hdelta, zero |-> FALSE,
             back |-> <<>>]
Undo2(e) == [k |-> "shift", from |-> e.next + e.hdelta + e.ddelta, delta |-> -e.ddelta,
             zero |-> FALSE, back |-> <<>>]
OldWrite(e) == [k |-> "write", off |-> e.hoff, n |-> e.doff - e.hoff,
                cells |-> Slice(e.was, e.hoff, e.doff - e.hoff)]
OldSize(e) == [k |-> "size", n |-> e.was.size]
Drop == [k |-> "unload"]

\* The lists a rollback consists of.
LEMMA Pieces ==
    ASSUME NEW e, EditOK(e)
    PROVE  /\ First(e) = (IF e.hdelta = 0 THEN <<>> ELSE <<Do1(e)>>)
           /\ Second(e) = (IF e.ddelta = 0 THEN <<>> ELSE <<Do2(e)>>)
           /\ Back1(e) = (IF e.hdelta = 0 THEN <<>> ELSE <<Undo1(e)>>)
           /\ Back2(e) = (IF e.ddelta = 0 THEN <<>> ELSE <<Undo2(e)>>)
           /\ OldHeader(e) = (IF e.doff = e.hoff THEN <<>> ELSE <<OldWrite(e)>>)
           /\ SizeCall(e.was.size) = <<OldSize(e)>>
           /\ Call("unload") = <<Drop>>
<1>1. e.hdelta \in Int /\ e.ddelta \in Int /\ e.hoff \in Nat /\ e.doff \in Nat
  BY DEF EditOK
<1>2. /\ First(e) = (IF e.hdelta = 0 THEN <<>> ELSE <<Do1(e)>>)
      /\ Second(e) = (IF e.ddelta = 0 THEN <<>> ELSE <<Do2(e)>>)
  <2>1. First(e) = (IF e.hdelta = 0 THEN <<>> ELSE <<Do1(e)>>)
    BY DEF First, Reversible, Do1, Back1
  <2>2. Second(e) = (IF e.ddelta = 0 THEN <<>> ELSE <<Do2(e)>>)
    BY DEF Second, Reversible, Do2, Back2
  <2> QED BY <2>1, <2>2
<1>4. Back1(e) = (IF e.hdelta = 0 THEN <<>> ELSE <<Undo1(e)>>)
  BY <1>1 DEF Back1, OneWay, Undo1
<1>5. Back2(e) = (IF e.ddelta = 0 THEN <<>> ELSE <<Undo2(e)>>)
  BY <1>1 DEF Back2, OneWay, Undo2
<1>6. OldHeader(e) = (IF e.doff = e.hoff THEN <<>> ELSE <<OldWrite(e)>>)
  <2>1. e.doff - e.hoff = 0 <=> e.doff = e.hoff
    BY <1>1
  <2> QED BY <2>1 DEF OldHeader, WriteCall, OldWrite
<1>7. SizeCall(e.was.size) = <<OldSize(e)>> /\ Call("unload") = <<Drop>>
  BY DEF SizeCall, OldSize, Call, Drop
<1> QED BY <1>2, <1>4, <1>5, <1>6, <1>7

\* How a rollback begins.
BackwardLists(e) ==
    LET last == Backward2(e)
        first == Backward1(e)
    IN  /\ last = Back2(e) \o first /\ first = Back1(e) \o Restore(e)
        /\ e.ddelta = 0 => last = first
        /\ e.ddelta # 0 => Begins(last, Undo2(e), first)
        /\ e.hdelta = 0 => first = Restore(e)
        /\ e.hdelta # 0 => Begins(first, Undo1(e), Restore(e))
        /\ e.doff = e.hoff => Restore(e) = Ends(e)
        /\ e.doff # e.hoff => Begins(Restore(e), OldWrite(e), Ends(e))
        /\ Begins(Ends(e), OldSize(e), Tail(Ends(e)))
        /\ Tail(Ends(e)) = <<>> \/ Begins(Tail(Ends(e)), Drop, <<>>)
\* A rollback begins with the last shift that was made, if it moved anything.
LEMMA BackwardForms ==
    ASSUME NEW e, EditOK(e)
    PROVE  BackwardLists(e)
<1> DEFINE S == {Drop, OldSize(e), OldWrite(e), Undo1(e), Undo2(e)}
           tail == IF e.data THEN Call("unload") ELSE <<>>
           b1 == Back1(e) b2 == Back2(e)
           size == SizeCall(e.was.size) old == OldHeader(e) n == e.doff - e.hoff
           hd == e.hdelta dd == e.ddelta
           c0 == Drop c1 == OldSize(e) c2 == OldWrite(e) c3 == Undo1(e) c4 == Undo2(e)
           ends == Ends(e) rest == Restore(e) first == b1 \o rest last == b2 \o first
<1>1. /\ b1 = (IF hd = 0 THEN <<>> ELSE <<c3>>)
      /\ b2 = (IF dd = 0 THEN <<>> ELSE <<c4>>)
      /\ old = (IF e.doff = e.hoff THEN <<>> ELSE <<c2>>)
      /\ size = <<c1>> /\ tail = (IF e.data THEN <<c0>> ELSE <<>>)
  BY Pieces
<1>2. n = 0 <=> e.doff = e.hoff
  BY DEF EditOK
<1>3. c0 \in S /\ c1 \in S /\ c2 \in S /\ c3 \in S /\ c4 \in S
  OBVIOUS
<1>4. /\ ends = size \o tail /\ rest = old \o ends
      /\ Backward1(e) = first /\ Backward2(e) = last
  BY DEF Ends, Restore, Backward1, Backward2
<1> HIDE DEF S, tail, b1, b2, size, old, n, hd, dd, c0, c1, c2, c3, c4, ends, rest
<1>5. tail \in Seq(S) /\ (tail = <<>> \/ Begins(tail, c0, <<>>))
  <2>1. <<>> \in Seq(S) /\ <<c0>> \in Seq(S)
    BY <1>3
  <2>2. Head(<<c0>>) = c0 /\ Tail(<<c0>>) = <<>> /\ <<c0>> # <<>>
    OBVIOUS
  <2> QED BY <1>1, <2>1, <2>2 DEF Begins
<1>6. Begins(ends, c1, tail) /\ ends \in Seq(S)
  BY <1>1, <1>3, <1>4, <1>5, InFront
<1>7. Tail(ends) = tail
  BY <1>6 DEF Begins
<1>8. old = IF n = 0 THEN <<>> ELSE <<c2>>
  BY <1>1, <1>2
<1>9. /\ rest \in Seq(S)
      /\ n = 0 => rest = ends
      /\ n # 0 => Begins(rest, c2, ends)
  <2>1. /\ old \o ends \in Seq(S)
        /\ n = 0 => old \o ends = ends
        /\ n # 0 => Begins(old \o ends, c2, ends)
    BY ONLY <1>3, <1>6, <1>8, Unless
  <2> QED BY <1>4, <2>1
<1>10. b1 = IF hd = 0 THEN <<>> ELSE <<c3>>
  BY <1>1
<1>11. /\ first \in Seq(S)
       /\ hd = 0 => first = rest
       /\ hd # 0 => Begins(first, c3, rest)
  BY <1>3, <1>9, <1>10, Unless
<1>12. b2 = IF dd = 0 THEN <<>> ELSE <<c4>>
  BY <1>1
<1> HIDE DEF first
<1>13. /\ dd = 0 => last = first
       /\ dd # 0 => Begins(last, c4, first)
  BY <1>3, <1>11, <1>12, Unless
<1> QED BY <1>2, <1>4, <1>5, <1>6, <1>7, <1>9, <1>11, <1>13
        DEF BackwardLists, b1, b2, hd, dd, ends, rest, first, c0, c1, c2, c3, c4, n

\* How the steps forward begin.
ForwardLists(e, r) ==
    LET second == Second(e) \o r
        first == First(e) \o second
    IN  /\ e.hdelta = 0 => first = second
        /\ e.hdelta # 0 => Begins(first, Do1(e), second)
        /\ e.ddelta = 0 => second = r
        /\ e.ddelta # 0 => Begins(second, Do2(e), r)
\* A replacement begins with its first shift, if it moves anything.
LEMMA ForwardForms ==
    ASSUME NEW e, NEW r \in Seq(MildSteps(e)), EditOK(e)
    PROVE  ForwardLists(e, r)
<1> DEFINE S == MildSteps(e) \cup {Do1(e), Do2(e)} hd == e.hdelta dd == e.ddelta
           c1 == Do1(e) c2 == Do2(e) f == First(e) s == Second(e) second == s \o r
<1>1. /\ f = (IF hd = 0 THEN <<>> ELSE <<c1>>)
      /\ s = (IF dd = 0 THEN <<>> ELSE <<c2>>)
  BY Pieces
<1>2. r \in Seq(S)
  <2>1. MildSteps(e) \subseteq S
    OBVIOUS
  <2> HIDE DEF S
  <2> QED BY <2>1
<1>3. c1 \in S /\ c2 \in S
  OBVIOUS
<1> HIDE DEF S, hd, dd, c1, c2, f, s
<1>4. /\ second \in Seq(S)
      /\ dd = 0 => second = r
      /\ dd # 0 => Begins(second, c2, r)
  BY <1>1, <1>2, <1>3, Unless
<1> HIDE DEF second
<1>5. /\ hd = 0 => f \o second = second
      /\ hd # 0 => Begins(f \o second, c1, second)
  BY <1>1, <1>3, <1>4, Unless
<1> QED BY <1>4, <1>5 DEF ForwardLists, hd, dd, c1, c2, f, s, second

\* The steps a replacement has before it: the first shift, the second, or the rest.
DoFirst(e, todo, undo, d) ==
    /\ e.hdelta # 0 /\ \E r \in Seq(MildSteps(e)) : Begins(todo, Do1(e), Second(e) \o r)
    /\ undo = Restore(e) /\ Lying(e, d, 0, 0, FALSE)
DoSecond(e, todo, undo, d) ==
    /\ e.ddelta # 0 /\ \E r \in Seq(MildSteps(e)) : Begins(todo, Do2(e), r)
    /\ undo = Backward1(e) /\ Lying(e, d, e.hdelta, 0, FALSE)
DoRest(e, todo, undo, d) ==
    /\ todo \in Seq(MildSteps(e))
    /\ undo = Backward2(e) /\ Lying(e, d, e.hdelta, e.ddelta, FALSE)

\* A replacement has its first shift before it, or its second, or neither.
LEMMA DoingCases ==
    ASSUME NEW e, NEW todo, NEW undo, NEW d, EditOK(e), Doing(e, todo, undo, d)
    PROVE  /\ Room(e)
           /\ DoFirst(e, todo, undo, d) \/ DoSecond(e, todo, undo, d) \/ DoRest(e, todo, undo, d)
<1> DEFINE M == MildSteps(e) hd == e.hdelta dd == e.ddelta
<1>1. Room(e)
  BY DEF Doing
<1>2. /\ dd = 0 => Backward2(e) = Backward1(e)
      /\ hd = 0 => Backward1(e) = Restore(e)
  BY BackwardForms DEF BackwardLists
<1>3. ASSUME NEW r \in Seq(M)
      PROVE  /\ hd = 0 => First(e) \o (Second(e) \o r) = Second(e) \o r
             /\ hd # 0 => Begins(First(e) \o (Second(e) \o r), Do1(e), Second(e) \o r)
             /\ dd = 0 => Second(e) \o r = r
             /\ dd # 0 => Begins(Second(e) \o r, Do2(e), r)
  BY ForwardForms DEF ForwardLists
<1>4. ASSUME NEW r \in Seq(M), todo = Second(e) \o r, undo = Backward1(e), Lying(e, d, hd, 0, FALSE)
      PROVE  DoSecond(e, todo, undo, d) \/ DoRest(e, todo, undo, d)
  <2>1. CASE dd = 0
    BY <1>2, <1>3, <1>4, <2>1 DEF DoRest
  <2>2. CASE dd # 0
    <3>1. Begins(todo, Do2(e), r)
      BY <1>3, <1>4, <2>2
    <3> QED BY <1>4, <2>2, <3>1 DEF DoSecond
  <2> QED BY <2>1, <2>2
<1>5. ASSUME NEW r \in Seq(M), todo = First(e) \o (Second(e) \o r), undo = Restore(e),
             Lying(e, d, 0, 0, FALSE)
      PROVE  \/ DoFirst(e, todo, undo, d) \/ DoSecond(e, todo, undo, d)
             \/ DoRest(e, todo, undo, d)
  <2>1. CASE hd = 0
    <3>1. todo = Second(e) \o r /\ undo = Backward1(e) /\ Lying(e, d, hd, 0, FALSE)
      BY <1>2, <1>3, <1>5, <2>1
    <3> QED BY <1>4, <3>1
  <2>2. CASE hd # 0
    <3>1. Begins(todo, Do1(e), Second(e) \o r)
      BY <1>3, <1>5, <2>2
    <3> QED BY <1>5, <2>2, <3>1 DEF DoFirst
  <2> QED BY <2>1, <2>2
<1>6. CASE \E r \in Seq(M) : todo = First(e) \o (Second(e) \o r) /\ undo = Restore(e)
                             /\ Lying(e, d, 0, 0, FALSE)
  BY <1>1, <1>5, <1>6
<1>7. CASE \E r \in Seq(M) : todo = Second(e) \o r /\ undo = Backward1(e)
                             /\ Lying(e, d, hd, 0, FALSE)
  BY <1>1, <1>4, <1>7
<1>8. CASE todo \in Seq(M) /\ undo = Backward2(e) /\ Lying(e, d, hd, dd, FALSE)
  BY <1>1, <1>8 DEF DoRest
<1> QED BY <1>6, <1>7, <1>8 DEF Doing

\* Wherever a replacement is, what is armed puts the file back.
LEMMA DoingIsUndoing ==
    ASSUME NEW e, NEW todo, NEW undo, NEW d, Doing(e, todo, undo, d)
    PROVE  Undoing(e, undo, d)
BY DEF Doing, Undoing

\* The steps a rollback has before it: the shifts back, the old header, the size, the window.
UndoNext(e, undo, d) ==
    \/ /\ Begins(undo, Undo2(e), Backward1(e)) /\ e.ddelta # 0
       /\ Room(e) /\ Lying(e, d, e.hdelta, e.ddelta, FALSE)
    \/ /\ Begins(undo, Undo1(e), Restore(e)) /\ e.hdelta # 0
       /\ Room(e) /\ Lying(e, d, e.hdelta, 0, FALSE)
    \/ /\ Begins(undo, OldWrite(e), Ends(e)) /\ e.doff # e.hoff
       /\ Room(e) /\ Lying(e, d, 0, 0, FALSE)
    \/ Begins(undo, OldSize(e), Tail(Ends(e))) /\ Lying(e, d, 0, 0, TRUE)
    \/ Begins(undo, Drop, <<>>) /\ Lying(e, d, 0, 0, TRUE)

\* Without an old header there is nothing to write again.
LEMMA NoHeader ==
    ASSUME NEW e, NEW d, EditOK(e), e.doff = e.hoff, Lying(e, d, 0, 0, FALSE)
    PROVE  Lying(e, d, 0, 0, TRUE)
<1>1. ASSUME NEW i \in 0 .. e.was.size - 1
      PROVE  ~(e.hoff <= i /\ i < e.doff)
  <2>1. e.hoff \in Nat /\ e.was.size \in Nat
    BY DEF EditOK
  <2> QED BY <2>1
<1> QED BY <1>1 DEF Lying

\* A rollback that is over has every cell back, and one that is not knows its next step.
LEMMA UndoingCases ==
    ASSUME NEW e, NEW undo, NEW d, EditOK(e), Undoing(e, undo, d)
    PROVE  /\ undo = <<>> => Lying(e, d, 0, 0, TRUE)
           /\ undo # <<>> => UndoNext(e, undo, d)
<1> DEFINE hd == e.hdelta dd == e.ddelta
<1>1. /\ dd = 0 => Backward2(e) = Backward1(e)
      /\ dd # 0 => Begins(Backward2(e), Undo2(e), Backward1(e))
      /\ hd = 0 => Backward1(e) = Restore(e)
      /\ hd # 0 => Begins(Backward1(e), Undo1(e), Restore(e))
      /\ e.doff = e.hoff => Restore(e) = Ends(e)
      /\ e.doff # e.hoff => Begins(Restore(e), OldWrite(e), Ends(e))
      /\ Begins(Ends(e), OldSize(e), Tail(Ends(e)))
      /\ Tail(Ends(e)) = <<>> \/ Begins(Tail(Ends(e)), Drop, <<>>)
  BY BackwardForms DEF BackwardLists
<1>2. ASSUME undo = Restore(e), Room(e), Lying(e, d, 0, 0, FALSE)
      PROVE  undo # <<>> /\ UndoNext(e, undo, d)
  <2>1. CASE e.doff = e.hoff
    <3>1. Lying(e, d, 0, 0, TRUE)
      BY <1>2, <2>1, NoHeader
    <3> QED BY <1>1, <1>2, <2>1, <3>1 DEF UndoNext, Begins
  <2>2. CASE e.doff # e.hoff
    BY <1>1, <1>2, <2>2 DEF UndoNext, Begins
  <2> QED BY <2>1, <2>2
<1>3. ASSUME undo = Backward1(e), Room(e), Lying(e, d, hd, 0, FALSE)
      PROVE  undo # <<>> /\ UndoNext(e, undo, d)
  <2>1. CASE hd = 0
    BY <1>1, <1>2, <1>3, <2>1
  <2>2. CASE hd # 0
    BY <1>1, <1>3, <2>2 DEF UndoNext, Begins
  <2> QED BY <2>1, <2>2
<1>4. ASSUME undo = Backward2(e), Room(e), Lying(e, d, hd, dd, FALSE)
      PROVE  undo # <<>> /\ UndoNext(e, undo, d)
  <2>1. CASE dd = 0
    BY <1>1, <1>3, <1>4, <2>1
  <2>2. CASE dd # 0
    BY <1>1, <1>4, <2>2 DEF UndoNext, Begins
  <2> QED BY <2>1, <2>2
<1>5. ASSUME undo \in {Ends(e), Tail(Ends(e)), <<>>}, Lying(e, d, 0, 0, TRUE)
      PROVE  undo # <<>> => UndoNext(e, undo, d)
  BY <1>1, <1>5 DEF UndoNext
<1> QED BY <1>2, <1>3, <1>4, <1>5 DEF Undoing

\* A rollback that has come to its last steps.
LEMMA Ending ==
    ASSUME NEW e, NEW undo, NEW d, Lying(e, d, 0, 0, TRUE),
           undo \in {Ends(e), Tail(Ends(e)), <<>>}
    PROVE  Undoing(e, undo, d)
BY DEF Undoing

\* The file as it was.
LEMMA AsItWas ==
    ASSUME NEW e, EditOK(e)
    PROVE  Lying(e, e.was, 0, 0, TRUE) /\ Lying(e, e.was, 0, 0, FALSE)
<1> DEFINE size == e.was.size
<1>1. size \in Nat /\ size = size + 0 + 0
  BY DEF EditOK
<1>2. ASSUME NEW i \in 0 .. size - 1 PROVE At(e.doff, e.next, i, 0, 0) = i
  <2>1. i \in Int /\ i + 0 = i /\ i + 0 + 0 = i
    BY <1>1
  <2> QED BY <2>1 DEF At
<1> QED BY <1>1, <1>2 DEF Lying

\* The kinds of the steps that are neither shift.
LEMMA MildKinds ==
    ASSUME NEW e, NEW c \in MildSteps(e)
    PROVE  /\ c.k \in {"swap", "keep", "write"}
           /\ c.k = "write" => c \in WriteSteps(e.hoff)
<1>1. CASE c \in [k : {"swap"}]
  BY <1>1
<1>2. CASE c \in KeepSteps
  BY <1>2 DEF KeepSteps
<1>3. CASE c \in WriteSteps(e.hoff)
  BY <1>3 DEF WriteSteps
<1> QED BY <1>1, <1>2, <1>3 DEF MildSteps

\* The first step of a replacement and what it is made on.
LEMMA DoingNext ==
    ASSUME NEW e, NEW todo, NEW undo, NEW d, EditOK(e), Doing(e, todo, undo, d),
           todo # <<>>, Head(todo).k # "shift"
    PROVE  /\ Head(todo) \in MildSteps(e) /\ Tail(todo) \in Seq(MildSteps(e)) /\ Room(e)
           /\ undo = Backward2(e) /\ Lying(e, d, e.hdelta, e.ddelta, FALSE)
<1>1. Do1(e).k = "shift" /\ Do2(e).k = "shift"
  BY DEF Do1, Do2
<1>2. Room(e) /\ DoRest(e, todo, undo, d)
  BY <1>1, DoingCases DEF DoFirst, DoSecond, Begins
<1> QED BY <1>2, TailFacts DEF DoRest

\* The next step of a rollback, when it is no shift.
LEMMA UndoingNext ==
    ASSUME NEW e, NEW undo, NEW d, EditOK(e), Undoing(e, undo, d),
           undo # <<>>, Head(undo).k # "shift"
    PROVE  \/ /\ Head(undo) = OldWrite(e) /\ Tail(undo) = Ends(e) /\ e.doff # e.hoff
              /\ Room(e) /\ Lying(e, d, 0, 0, FALSE) /\ Head(undo).k = "write"
           \/ /\ Head(undo) = OldSize(e) /\ Tail(undo) = Tail(Ends(e)) /\ Lying(e, d, 0, 0, TRUE)
              /\ Head(undo).k = "size"
           \/ Head(undo).k = "unload" /\ Tail(undo) = <<>> /\ Lying(e, d, 0, 0, TRUE)
<1>1. /\ Undo1(e).k = "shift" /\ Undo2(e).k = "shift" /\ OldWrite(e).k = "write"
      /\ OldSize(e).k = "size" /\ Drop.k = "unload"
  BY DEF Undo1, Undo2, OldWrite, OldSize, Drop
<1>2. UndoNext(e, undo, d)
  BY UndoingCases
<1> QED BY <1>1, <1>2 DEF UndoNext, Begins

\* What a call that goes on carries.
LEMMA CarriedFields ==
    ASSUME job \in Jobs(Limit), NEW pc, NEW todo, NEW undo, NEW torn, NEW ok,
           job' = Carried(pc, todo, undo, torn, ok)
    PROVE  /\ SameCall /\ job'.pc = pc /\ job'.todo = todo /\ job'.undo = undo
           /\ job'.torn = torn
BY DEF Carried, SameCall, Jobs

\* What a replacement that goes on has, and what it has to show.
Goes ==
    /\ SameCall /\ ~Idle /\ ~Idle' /\ (~job'.torn => ~job.torn)
    /\ job.pc = "run" =>
         \/ job'.pc = "run" /\ job'.todo = Tail(job.todo) /\ job'.undo = job.undo
         \/ job'.pc = "undo" /\ job'.undo = job.undo
    /\ job.pc = "undo" => job'.pc = "undo" /\ job'.undo = Tail(job.undo)

\* A step that is done, or given up, leaves the call the same.
LEMMA PopGoes ==
    ASSUME HandleTypeOK, Lists, NEW K, Pending(K), job' = Popped \/ job' = GiveUp
    PROVE  Goes
<1>1. /\ ~Idle /\ ~Idle' /\ SameCall
      /\ job.pc = "run" =>
           /\ job'.undo = job.undo
           /\ \/ job'.pc = "run" /\ job'.todo = Tail(job.todo)
              \/ job'.pc = "undo" /\ job'.todo = <<>>
      /\ job.pc = "undo" => job'.pc = "undo" /\ job'.undo = Tail(job.undo)
      /\ job.pc \in {"run", "undo"}
  BY PopFacts
<1>2. job \in Jobs(Limit)
  BY <1>1, JobFacts
<1>3. job'.torn = job.torn \/ job'.torn = TRUE
  BY <1>1, <1>2 DEF Popped, GiveUp, Jobs
<1>4. job.torn \in BOOLEAN
  BY <1>2 DEF Jobs
<1> QED BY <1>1, <1>3, <1>4 DEF Goes

\* The device at a step that is no shift, and the call whose step it is.
LEMMA AtStep ==
    ASSUME Good, ReplaceOK, NEW K, Pending(K), "shift" \notin K, SameCall, ~Idle', sh' = sh,
           ~job'.torn => ~job.torn
    PROVE  /\ Entry = dev /\ Entry' = dev' /\ Edit' = Edit /\ job.pc \in {"run", "undo"}
           /\ Head(Queue).k \in K
           /\ job.pc = "run" => job.todo # <<>> /\ Queue = job.todo
           /\ job.pc = "undo" => job.undo # <<>> /\ Queue = job.undo
           /\ job'.op.op \in Replacing /\ ~job'.torn =>
                /\ job.op.op \in Replacing
                /\ EditOK(Edit)
                /\ job.pc = "run" => Doing(Edit, job.todo, job.undo, dev)
                /\ job.pc = "undo" => Undoing(Edit, job.undo, dev)
<1>0. HandleTypeOK /\ Lists
  BY DEF Good
<1>1. sh.pc = "idle"
  BY <1>0, NotShifting
<1>2. Entry = dev /\ Entry' = dev'
  BY <1>1 DEF Entry
<1>3. /\ ~Idle /\ job.pc \in {"run", "undo"} /\ Head(Queue).k \in K
      /\ job.pc = "run" => job.todo # <<>> /\ Queue = job.todo
      /\ job.pc = "undo" => job.undo # <<>> /\ Queue = job.undo
  BY <1>0, QueueFacts
<1>4. Edit' = Edit /\ job'.op = job.op
  BY SameEdit DEF SameCall
<1>5. job'.op.op \in Replacing /\ ~job'.torn =>
        /\ job.op.op \in Replacing
        /\ EditOK(Edit)
        /\ job.pc = "run" => Doing(Edit, job.todo, job.undo, dev)
        /\ job.pc = "undo" => Undoing(Edit, job.undo, dev)
  <2>1. SUFFICES ASSUME job.op.op \in Replacing, ~job.torn
                 PROVE  /\ EditOK(Edit)
                        /\ job.pc = "run" => Doing(Edit, job.todo, job.undo, dev)
                        /\ job.pc = "undo" => Undoing(Edit, job.undo, dev)
    BY <1>4
  <2>2. EditOK(Edit)
    BY <1>0, <1>3, <2>1, EditFacts
  <2> QED BY <1>2, <1>3, <2>1, <2>2 DEF ReplaceOK
<1> QED BY <1>2, <1>3, <1>4, <1>5

\* A step that leaves the device alone.
LEMMA ReplaceQuiet ==
    ASSUME Good, ReplaceOK, NEW K, Pending(K), K \cap {"shift", "write", "size"} = {}, Goes,
           dev' = dev, sh' = sh
    PROVE  ReplaceOK'
<1> DEFINE e == Edit
<1>1. /\ SameCall /\ ~Idle' /\ (~job'.torn => ~job.torn) /\ "shift" \notin K
      /\ job.pc = "run" =>
           \/ job'.pc = "run" /\ job'.todo = Tail(job.todo) /\ job'.undo = job.undo
           \/ job'.pc = "undo" /\ job'.undo = job.undo
      /\ job.pc = "undo" => job'.pc = "undo" /\ job'.undo = Tail(job.undo)
  BY DEF Goes
<1>2. /\ Entry = dev /\ Entry' = dev' /\ e' = e /\ job.pc \in {"run", "undo"}
      /\ Head(Queue).k \in K
      /\ job.pc = "run" => job.todo # <<>> /\ Queue = job.todo
      /\ job.pc = "undo" => job.undo # <<>> /\ Queue = job.undo
      /\ job'.op.op \in Replacing /\ ~job'.torn =>
           /\ EditOK(e)
           /\ job.pc = "run" => Doing(e, job.todo, job.undo, dev)
           /\ job.pc = "undo" => Undoing(e, job.undo, dev)
  BY <1>1, AtStep
<1>3. Head(Queue).k \notin {"shift", "write", "size"}
  BY <1>2
<1> HIDE DEF e
<1>4. SUFFICES ASSUME job'.op.op \in Replacing, ~job'.torn
               PROVE  /\ job'.pc = "run" => Doing(e, job'.todo, job'.undo, dev)
                      /\ job'.pc = "undo" => Undoing(e, job'.undo, dev)
  BY <1>2 DEF ReplaceOK, e
<1>5. CASE job.pc = "run"
  <2>1. Doing(e, job.todo, job.undo, dev) /\ EditOK(e) /\ Head(job.todo).k # "shift"
    BY <1>2, <1>3, <1>4, <1>5
  <2>2. /\ Tail(job.todo) \in Seq(MildSteps(e)) /\ Room(e) /\ job.undo = Backward2(e)
        /\ Lying(e, dev, e.hdelta, e.ddelta, FALSE)
    BY <1>2, <1>5, <2>1, DoingNext
  <2>3. Doing(e, Tail(job.todo), job.undo, dev)
    BY <2>2 DEF Doing
  <2>4. Undoing(e, job.undo, dev)
    BY <2>1, DoingIsUndoing
  <2> QED BY <1>1, <1>5, <2>3, <2>4
<1>6. CASE job.pc = "undo"
  <2>1. Undoing(e, job.undo, dev) /\ EditOK(e) /\ Head(job.undo).k \notin {"shift", "write", "size"}
    BY <1>2, <1>3, <1>4, <1>6
  <2>2. Tail(job.undo) = <<>> /\ Lying(e, dev, 0, 0, TRUE)
    BY <1>2, <1>6, <2>1, UndoingNext
  <2>3. Undoing(e, Tail(job.undo), dev)
    BY <2>2, Ending
  <2> QED BY <1>1, <1>6, <2>3
<1> QED BY <1>2, <1>5, <1>6

\* A check that refuses, or passes.
LEMMA ReplaceRejects ==
    ASSUME Good, ReplaceOK, Rejects
    PROVE  ReplaceOK'
<1> DEFINE K == {"invalid", "need"}
<1>1. Pending(K) /\ (job' = Popped \/ job' = GiveUp) /\ dev' = dev /\ sh' = sh
  BY DEF Rejects
<1>2. Goes
  BY <1>1, PopGoes DEF Good
<1>3. K \cap {"shift", "write", "size"} = {}
  OBVIOUS
<1> QED BY <1>1, <1>2, <1>3, ReplaceQuiet

\* An allocation or a check that fails.
LEMMA ReplaceStepFails ==
    ASSUME Good, ReplaceOK, StepFails
    PROVE  ReplaceOK'
<1> DEFINE K == {"fresh", "alloc", "adopt"}
<1>1. Pending(K) /\ job' = GiveUp /\ dev' = dev /\ sh' = sh
  BY DEF StepFails
<1>2. Goes
  BY <1>1, PopGoes DEF Good
<1>3. K \cap {"shift", "write", "size"} = {}
  OBVIOUS
<1> QED BY <1>1, <1>2, <1>3, ReplaceQuiet

\* The list is updated.
LEMMA ReplaceKeep ==
    ASSUME Good, ReplaceOK, Keep
    PROVE  ReplaceOK'
<1> DEFINE K == {"keep"} c == Head(Queue)
<1>0. HandleTypeOK /\ Lists /\ Limit \in Nat
  BY LimitFacts DEF Good
<1>1. Pending(K) /\ job' = [Popped EXCEPT !.ok = @ \/ c.last] /\ dev' = dev /\ sh' = sh
  BY DEF Keep
<1>2. /\ ~Idle /\ c.k = "keep"
      /\ \/ job.pc = "run" /\ job.todo # <<>> /\ c \in Steps(Limit)
         \/ job.pc = "undo" /\ c \in UndoSteps(Limit)
  BY <1>0, <1>1, QueueFacts
<1>3. job.pc = "run" /\ c \in KeepSteps
  BY <1>0, <1>2, UndoKinds, StepKinds
<1>4. Popped = Carried("run", Tail(job.todo), job.undo, job.torn, job.ok)
  BY <1>0, <1>2, <1>3, JobForms
<1>5. job \in Jobs(Limit) /\ c.last \in BOOLEAN
  BY <1>0, <1>2, <1>3, JobFacts DEF KeepSteps
<1>6. Popped.ok = job.ok /\ job.ok \in BOOLEAN /\ job.torn \in BOOLEAN
  BY <1>4, <1>5 DEF Carried, Jobs
<1> DEFINE ok == job.ok \/ c.last
<1>7. job' = [Popped EXCEPT !.ok = ok]
  BY <1>1, <1>6
<1>8. ok \in BOOLEAN
  BY <1>5, <1>6
<1> HIDE DEF ok, c
<1>9. job' = Carried("run", Tail(job.todo), job.undo, job.torn, ok)
  BY <1>0, <1>2, <1>3, <1>7, JobForms
<1>10. /\ SameCall /\ job'.pc = "run" /\ job'.todo = Tail(job.todo)
       /\ job'.undo = job.undo /\ job'.torn = job.torn
  BY <1>5, <1>9, CarriedFields
<1>11. ~Idle'
  BY <1>10 DEF Idle
<1>12. Goes
  BY <1>2, <1>3, <1>10, <1>11 DEF Goes
<1> QED BY <1>1, <1>12, ReplaceQuiet

\* The window and the rollback: a replacement arms its own when it is planned.
LEMMA ReplaceStep ==
    ASSUME Good, ReplaceOK, Step
    PROVE  ReplaceOK'
<1> DEFINE K == {"fresh", "swap", "unload", "arm", "alloc"} c == Head(Queue)
<1>0. HandleTypeOK /\ Lists /\ Limit \in Nat /\ TodoOK
  BY LimitFacts DEF Good
<1>1. /\ Pending(K) /\ dev' = dev /\ sh' = sh
      /\ job' = IF c.k = "arm" THEN [Popped EXCEPT !.undo = c.undo] ELSE Popped
  BY DEF Step
<1>2. CASE c.k # "arm"
  <2>1. Goes
    BY <1>0, <1>1, <1>2, PopGoes
  <2>2. K \cap {"shift", "write", "size"} = {}
    OBVIOUS
  <2> QED BY <1>1, <2>1, <2>2, ReplaceQuiet
<1>3. CASE c.k = "arm"
  <2>1. /\ ~Idle
        /\ \/ job.pc = "run" /\ job.todo # <<>> /\ c = job.todo[1] /\ c \in Steps(Limit)
           \/ job.pc = "undo" /\ c \in UndoSteps(Limit)
    BY <1>0, <1>1, QueueFacts
  <2>2. job.pc = "run" /\ c.undo \in Seq(ArmedSteps(Limit))
    BY <1>0, <1>3, <2>1, UndoKinds, StepKinds
  <2>3. job.todo \in Seq(Steps(Limit)) /\ job \in Jobs(Limit)
    BY <1>0, <2>1, JobFacts
  <2>4. 1 \in DOMAIN job.todo
    BY <2>1, <2>2, <2>3, TailFacts
  <2>5. job.op.op = "rows"
    BY <1>0, <1>3, <2>1, <2>2, <2>4 DEF TodoOK
  <2>6. job'.op = job.op
    BY <1>1, <1>3, <2>2, <2>3 DEF Popped, Jobs
  <2> QED BY <2>5, <2>6 DEF ReplaceOK, Replacing
<1> QED BY <1>2, <1>3

\* Only a copy takes up an HDU it finds.
LEMMA ReplaceAdopt ==
    ASSUME Good, ReplaceOK, Adopt
    PROVE  ReplaceOK'
<1>0. HandleTypeOK /\ Lists /\ Limit \in Nat /\ TodoOK
  BY LimitFacts DEF Good
<1> DEFINE c == Head(Queue)
<1>1. Pending({"adopt"})
  BY DEF Adopt
<1>2. /\ ~Idle /\ c.k = "adopt"
      /\ \/ job.pc = "run" /\ job.todo # <<>> /\ c = job.todo[1] /\ c \in Steps(Limit)
         \/ job.pc = "undo" /\ c \in UndoSteps(Limit)
  BY <1>0, <1>1, QueueFacts
<1>3. job.pc = "run"
  BY <1>0, <1>2, UndoKinds
<1>4. job.todo \in Seq(Steps(Limit)) /\ job \in Jobs(Limit)
  BY <1>0, <1>2, JobFacts
<1>5. 1 \in DOMAIN job.todo
  BY <1>2, <1>3, <1>4, TailFacts
<1>6. job.op.op = "copy"
  BY <1>0, <1>2, <1>3, <1>5 DEF TodoOK
<1>7. job'.op = job.op
  <2>1. job' = [Popped EXCEPT !.ok = TRUE] \/ job' = [job EXCEPT !.pc = "undo", !.todo = <<>>]
    BY DEF Adopt, Fail
  <2> QED BY <1>3, <1>4, <2>1 DEF Popped, Jobs
<1> QED BY <1>6, <1>7 DEF ReplaceOK, Replacing

\* A call on the device: one that goes forward touches what is replaced, one that goes back
\* completes the file.
LEMMA ReplaceDeviceCall ==
    ASSUME Good, ReplaceOK, DeviceCall
    PROVE  ReplaceOK'
<1> DEFINE e == Edit c == Head(Queue) K == {"write", "size"}
<1>0. HandleTypeOK /\ Lists
  BY DEF Good
<1>1. /\ Pending(K) /\ job' = Popped /\ sh' = sh
      /\ dev' = IF c.k = "size" THEN Resized(dev, c.n) ELSE Written(dev, c.off, c.n, c.cells)
  BY DEF DeviceCall
<1>2. /\ SameCall /\ ~Idle' /\ (~job'.torn => ~job.torn) /\ "shift" \notin K
      /\ job.pc = "undo" => job'.pc = "undo" /\ job'.undo = Tail(job.undo)
  BY <1>0, <1>1, PopGoes DEF Goes
<1>3. job.pc = "run" => job'.pc = "run" /\ job'.todo = Tail(job.todo) /\ job'.undo = job.undo
  <2>1. ASSUME job.pc = "run" PROVE job.undo = job'.undo /\ job'.pc = "run" /\ job'.todo = Tail(job.todo)
    <3>1. ~Idle
      BY <1>0, <1>1, QueueFacts
    <3>2. job' = Carried("run", Tail(job.todo), job.undo, job.torn, job.ok)
      BY <1>0, <1>1, <2>1, <3>1, JobForms
    <3> QED BY <1>0, <3>1, <3>2, JobFacts, CarriedFields
  <2> QED BY <2>1
<1>4. /\ Entry = dev /\ Entry' = dev' /\ e' = e /\ job.pc \in {"run", "undo"} /\ c.k \in K
      /\ job.pc = "run" => job.todo # <<>> /\ Queue = job.todo
      /\ job.pc = "undo" => job.undo # <<>> /\ Queue = job.undo
      /\ job'.op.op \in Replacing /\ ~job'.torn =>
           /\ EditOK(e)
           /\ job.pc = "run" => Doing(e, job.todo, job.undo, dev)
           /\ job.pc = "undo" => Undoing(e, job.undo, dev)
  BY <1>1, <1>2, AtStep
<1>5. IsDevice(dev) /\ dev.size \in Nat
  BY <1>0, DevFacts
<1>6. /\ c.k = "write" => /\ c.off \in Nat /\ c.n \in Nat \ {0}
                          /\ \A i \in 0 .. c.n - 1 : c.cells[i] \in Cell
      /\ c.k = "size" => c.n \in Nat
  BY <1>0, <1>1, CallFacts
<1> HIDE DEF e
<1>7. SUFFICES ASSUME job'.op.op \in Replacing, ~job'.torn
               PROVE  /\ job'.pc = "run" => Doing(e, job'.todo, job'.undo, dev')
                      /\ job'.pc = "undo" => Undoing(e, job'.undo, dev')
  BY <1>4 DEF ReplaceOK, e
<1>8. CASE job.pc = "run"
  <2>1. /\ Doing(e, job.todo, job.undo, dev) /\ EditOK(e) /\ job.todo # <<>>
        /\ Head(job.todo) = c /\ Head(job.todo).k # "shift"
    BY <1>2, <1>4, <1>7, <1>8
  <2>2. /\ c \in MildSteps(e) /\ Tail(job.todo) \in Seq(MildSteps(e)) /\ Room(e)
        /\ job.undo = Backward2(e) /\ Lying(e, dev, e.hdelta, e.ddelta, FALSE)
    BY <2>1, DoingNext
  <2>3. c.k = "write" /\ c.k # "size"
    BY <1>4, <2>2, MildKinds
  <2>4. dev' = Written(dev, c.off, c.n, c.cells) /\ c.n \in 0 .. c.n
    BY <1>1, <1>6, <2>3
  <2> HIDE DEF c
  <2>5. Lying(e, dev', e.hdelta, e.ddelta, FALSE)
    BY <1>5, <2>1, <2>2, <2>3, <2>4, MildWrites
  <2>6. Doing(e, Tail(job.todo), job.undo, dev')
    BY <2>2, <2>5 DEF Doing
  <2> QED BY <1>3, <1>8, <2>6
<1>9. CASE job.pc = "undo"
  <2>1. /\ Undoing(e, job.undo, dev) /\ EditOK(e) /\ job.undo # <<>>
        /\ Head(job.undo) = c /\ Head(job.undo).k # "shift" /\ c.k # "unload"
    BY <1>2, <1>4, <1>7, <1>9
  <2>2. \/ /\ c = OldWrite(e) /\ Tail(job.undo) = Ends(e) /\ e.doff # e.hoff
           /\ Room(e) /\ Lying(e, dev, 0, 0, FALSE) /\ c.k = "write"
        \/ /\ c = OldSize(e) /\ Tail(job.undo) = Tail(Ends(e)) /\ Lying(e, dev, 0, 0, TRUE)
           /\ c.k = "size"
    BY <2>1, UndoingNext
  <2>3. CASE c = OldWrite(e) /\ Tail(job.undo) = Ends(e) /\ e.doff # e.hoff
             /\ Room(e) /\ Lying(e, dev, 0, 0, FALSE) /\ c.k = "write"
    <3>1. /\ c.off = e.hoff /\ c.n = e.doff - e.hoff
          /\ c.cells = Slice(e.was, e.hoff, e.doff - e.hoff)
      BY <2>3 DEF OldWrite
    <3>2. dev' = Written(dev, e.hoff, e.doff - e.hoff, Slice(e.was, e.hoff, e.doff - e.hoff))
      BY <1>1, <2>3, <3>1
    <3>3. e.doff - e.hoff # 0
      BY <1>6, <2>3, <3>1
    <3>4. Lying(e, dev', 0, 0, TRUE)
      BY <1>5, <2>1, <2>3, <3>2, <3>3, RestoredHeader
    <3>5. Undoing(e, Tail(job.undo), dev')
      BY <2>3, <3>4, Ending
    <3> QED BY <1>2, <1>9, <3>5
  <2>4. CASE c = OldSize(e) /\ Tail(job.undo) = Tail(Ends(e)) /\ Lying(e, dev, 0, 0, TRUE)
             /\ c.k = "size"
    <3>1. c.n = e.was.size
      BY <2>4 DEF OldSize
    <3>2. dev.size = c.n
      BY <1>6, <2>4, <3>1 DEF Lying
    <3>3. /\ IsDevice(dev') /\ dev'.size = c.n
          /\ \A i \in 0 .. c.n - 1 : i < dev.size => dev'.at[i] = dev.at[i]
      BY <1>1, <1>5, <1>6, <2>4, ResizedDev
    <3>4. dev' = dev
      <4>1. \A i \in 0 .. dev.size - 1 : dev.at[i] = dev'.at[i]
        BY <1>5, <3>2, <3>3
      <4> QED BY <1>5, <3>2, <3>3, <4>1, SameDevice
    <3>5. Undoing(e, Tail(job.undo), dev')
      BY <2>4, <3>4, Ending
    <3> QED BY <1>2, <1>9, <3>5
  <2> QED BY <2>2, <2>3, <2>4
<1> QED BY <1>4, <1>8, <1>9

\* One that fails, part of it written: the rollback begins, or is torn.
LEMMA ReplaceDeviceFails ==
    ASSUME Good, ReplaceOK, DeviceFails
    PROVE  ReplaceOK'
<1> DEFINE e == Edit c == Head(Queue) K == {"write", "size"}
<1>0. HandleTypeOK /\ Lists
  BY DEF Good
<1>1. /\ Pending(K) /\ job' = GiveUp /\ sh' = sh
      /\ IF c.k = "size" THEN dev' = dev
         ELSE \E k \in 0 .. c.n - 1 : dev' = Written(dev, c.off, k, c.cells)
  BY DEF DeviceFails
<1>2. /\ SameCall /\ ~Idle' /\ (~job'.torn => ~job.torn) /\ "shift" \notin K
  BY <1>0, <1>1, PopGoes DEF Goes
<1>3. /\ job.pc = "run" => job'.pc = "undo" /\ job'.undo = job.undo
      /\ job.pc = "undo" => job'.torn
  BY <1>0, <1>1, PopFacts DEF GiveUp
<1>4. /\ Entry = dev /\ Entry' = dev' /\ e' = e /\ job.pc \in {"run", "undo"} /\ c.k \in K
      /\ job.pc = "run" => job.todo # <<>> /\ Queue = job.todo
      /\ job'.op.op \in Replacing /\ ~job'.torn =>
           /\ EditOK(e)
           /\ job.pc = "run" => Doing(e, job.todo, job.undo, dev)
  BY <1>1, <1>2, AtStep
<1>5. IsDevice(dev) /\ dev.size \in Nat
  BY <1>0, DevFacts
<1>6. c.k = "write" => c.n \in Nat \ {0}
  BY <1>0, <1>1, CallFacts
<1> HIDE DEF e
<1>7. SUFFICES ASSUME job'.op.op \in Replacing, ~job'.torn, job.pc = "run"
               PROVE  Undoing(e, job.undo, dev')
  BY <1>3, <1>4 DEF ReplaceOK, e
<1>8. /\ Doing(e, job.todo, job.undo, dev) /\ EditOK(e) /\ job.todo # <<>>
      /\ Head(job.todo) = c /\ Head(job.todo).k # "shift"
  BY <1>2, <1>4, <1>7
<1>9. /\ c \in MildSteps(e) /\ Room(e)
      /\ job.undo = Backward2(e) /\ Lying(e, dev, e.hdelta, e.ddelta, FALSE)
  BY <1>8, DoingNext
<1>10. c.k = "write" /\ c.k # "size"
  BY <1>4, <1>9, MildKinds
<1>11. PICK k \in 0 .. c.n - 1 : dev' = Written(dev, c.off, k, c.cells)
  BY <1>1, <1>10
<1>12. k \in 0 .. c.n
  BY <1>6, <1>10, <1>11
<1> HIDE DEF c
<1>13. Lying(e, dev', e.hdelta, e.ddelta, FALSE)
  BY <1>5, <1>8, <1>9, <1>10, <1>11, <1>12, MildWrites
<1> QED BY <1>9, <1>13 DEF Undoing

-----------------------------------------------------------------------------
(* The shifts of a replacement.                                             *)

\* A shift within the file that is done has moved the rest of it.
LEMMA ShiftDone ==
    ASSUME SP!TypeOK, SP!LoopInv, sh.pc = "done", sh.from <= sh.was.size
    PROVE  Moved(sh.was, dev, sh.from, sh.delta)
<1> DEFINE was == sh.was from == sh.from delta == sh.delta tail == sh.tail
<1>1. /\ delta \in Int /\ delta # 0 /\ from \in Nat /\ was.size \in Nat /\ tail \in Nat
      /\ tail = SP!TailLen(was, from)
  BY DEF SP!TypeOK, SP!IsCall, SP!NoShift, SP!IsDevice, SP!LoopInv, SP!CounterInv
<1>2. tail = was.size - from
  BY <1>1 DEF SP!TailLen
<1>3. /\ dev.size = was.size + delta
      /\ \A j \in 0 .. tail - 1 : dev.at[from + delta + j] = was.at[from + j]
      /\ \A i \in 0 .. from - 1 : i < from + delta => dev.at[i] = was.at[i]
  <2>1. CASE delta > 0
    <3>1. /\ dev.size = was.size + delta /\ SP!Same(0, from) /\ SP!Landed(0, tail)
      BY <2>1 DEF SP!LoopInv, SP!GrowInv, SP!InFile
    <3> QED BY <1>1, <2>1, <3>1 DEF SP!Same, SP!Landed
  <2>2. CASE delta < 0
    <3>1. /\ dev.size = was.size + delta /\ SP!Same(0, from + delta) /\ SP!Landed(0, tail)
      BY <2>2 DEF SP!LoopInv, SP!ShrinkInv, SP!InFile
    <3> QED BY <1>1, <2>2, <3>1 DEF SP!Same, SP!Landed
  <2> QED BY <1>1, <2>1, <2>2
<1> HIDE DEF was, from, delta, tail
<1>4. ASSUME NEW x \in 0 .. was.size - 1
      PROVE  /\ x < from /\ x < from + delta => dev.at[x] = was.at[x]
             /\ x >= from => dev.at[x + delta] = was.at[x]
  <2>1. ASSUME x >= from PROVE dev.at[x + delta] = was.at[x]
    <3>1. x - from \in 0 .. tail - 1 /\ from + (x - from) = x /\ from + delta + (x - from) = x + delta
      BY <1>1, <1>2, <2>1
    <3>2. dev.at[from + delta + (x - from)] = was.at[from + (x - from)]
      BY <1>3, <3>1
    <3> QED BY <3>1, <3>2
  <2>2. ASSUME x < from, x < from + delta PROVE dev.at[x] = was.at[x]
    <3>1. x \in 0 .. from - 1
      BY <1>1, <2>2
    <3> QED BY <1>3, <2>2, <3>1
  <2> QED BY <2>1, <2>2
<1> QED BY <1>3, <1>4 DEF Moved, was, from, delta, tail

\* A shift that is complete takes the replacement on, or its rollback back.
LEMMA Advances ==
    ASSUME NEW e, NEW todo, NEW undo, NEW d, NEW d2, EditOK(e), Doing(e, todo, undo, d),
           todo # <<>>, Head(todo).k = "shift",
           Head(todo).from <= d.size => Moved(d, d2, Head(todo).from, Head(todo).delta)
    PROVE  Doing(e, Tail(todo), Head(todo).back \o undo, d2)
<1>1. /\ Backward1(e) = Back1(e) \o Restore(e)
      /\ Backward2(e) = Back2(e) \o Backward1(e)
  BY DEF Backward1, Backward2
<1>2. Room(e) /\ (DoFirst(e, todo, undo, d) \/ DoSecond(e, todo, undo, d) \/ DoRest(e, todo, undo, d))
  BY DoingCases
<1>3. ~DoRest(e, todo, undo, d)
  <2>1. SUFFICES ASSUME todo \in Seq(MildSteps(e)) PROVE FALSE
    BY DEF DoRest
  <2>2. Head(todo) \in MildSteps(e)
    BY <2>1, TailFacts
  <2> QED BY <2>2, MildKinds
<1> DEFINE hd == e.hdelta dd == e.ddelta size == e.was.size
<1>4. /\ hd \in Int /\ dd \in Int /\ size \in Nat /\ e.doff \in Nat /\ e.next \in Nat
      /\ dd # 0 => e.data
  BY DEF EditOK
<1>5. CASE DoFirst(e, todo, undo, d)
  <2>1. PICK r \in Seq(MildSteps(e)) : Begins(todo, Do1(e), Second(e) \o r)
    BY <1>5 DEF DoFirst
  <2>2. /\ Head(todo).from = e.doff /\ Head(todo).delta = hd /\ Head(todo).back = Back1(e)
        /\ Tail(todo) = Second(e) \o r /\ undo = Restore(e) /\ Lying(e, d, 0, 0, FALSE)
    <3>1. Head(todo) = Do1(e) /\ Tail(todo) = Second(e) \o r
      BY <2>1 DEF Begins
    <3>2. Do1(e).from = e.doff /\ Do1(e).delta = hd /\ Do1(e).back = Back1(e)
      BY DEF Do1
    <3>3. undo = Restore(e) /\ Lying(e, d, 0, 0, FALSE)
      BY <1>5 DEF DoFirst
    <3> QED BY <3>1, <3>2, <3>3
  <2>3. e.doff <= d.size
    <3>1. d.size = size + 0 + 0
      BY <2>2 DEF Lying
    <3> QED BY <1>2, <1>4, <3>1 DEF Room
  <2>4. Lying(e, d2, hd, 0, FALSE)
    BY <1>2, <2>2, <2>3, FirstMoves
  <2> QED BY <1>1, <1>2, <2>1, <2>2, <2>4 DEF Doing
<1>6. CASE DoSecond(e, todo, undo, d)
  <2>1. PICK r \in Seq(MildSteps(e)) : Begins(todo, Do2(e), r)
    BY <1>6 DEF DoSecond
  <2>2. /\ Head(todo).from = e.next + hd /\ Head(todo).delta = dd /\ Head(todo).back = Back2(e)
        /\ Tail(todo) = r /\ undo = Backward1(e) /\ Lying(e, d, hd, 0, FALSE) /\ dd # 0
    <3>1. Head(todo) = Do2(e) /\ Tail(todo) = r
      BY <2>1 DEF Begins
    <3>2. Do2(e).from = e.next + hd /\ Do2(e).delta = dd /\ Do2(e).back = Back2(e)
      BY DEF Do2
    <3>3. undo = Backward1(e) /\ Lying(e, d, hd, 0, FALSE) /\ dd # 0
      BY <1>6 DEF DoSecond
    <3> QED BY <3>1, <3>2, <3>3
  <2>3. e.next + hd <= d.size
    <3>1. d.size = size + hd + 0
      BY <2>2 DEF Lying
    <3> QED BY <1>2, <1>4, <2>2, <3>1 DEF Room
  <2>4. Lying(e, d2, hd, dd, FALSE)
    BY <1>2, <2>2, <2>3, SecondMoves
  <2> QED BY <1>1, <1>2, <2>1, <2>2, <2>4 DEF Doing
<1> QED BY <1>2, <1>3, <1>5, <1>6

\* A shift back brings the cells back that it moved.
LEMMA Retreats ==
    ASSUME NEW e, NEW undo, NEW d, NEW d2, EditOK(e), Undoing(e, undo, d),
           undo # <<>>, Head(undo).k = "shift",
           Head(undo).from <= d.size => Moved(d, d2, Head(undo).from, Head(undo).delta)
    PROVE  Undoing(e, Tail(undo), d2)
<1> DEFINE hd == e.hdelta dd == e.ddelta size == e.was.size
<1>1. UndoNext(e, undo, d)
  BY UndoingCases
<1>2. OldWrite(e).k # "shift" /\ OldSize(e).k # "shift" /\ Drop.k # "shift"
  BY DEF OldWrite, OldSize, Drop
<1>3. /\ hd \in Int /\ dd \in Int /\ size \in Nat /\ e.doff \in Nat /\ e.next \in Nat
      /\ dd # 0 => e.data
  BY DEF EditOK
<1>4. CASE Begins(undo, Undo2(e), Backward1(e)) /\ dd # 0 /\ Room(e) /\ Lying(e, d, hd, dd, FALSE)
  <2>1. /\ Head(undo).from = e.next + hd + dd /\ Head(undo).delta = -dd
        /\ Tail(undo) = Backward1(e)
    BY <1>4 DEF Begins, Undo2
  <2>2. e.next + hd + dd <= d.size
    <3>1. d.size = size + hd + dd
      BY <1>4 DEF Lying
    <3> QED BY <1>3, <1>4, <3>1 DEF Room
  <2>3. Lying(e, d2, hd, 0, FALSE)
    BY <1>4, <2>1, <2>2, SecondMovesBack
  <2> QED BY <1>4, <2>1, <2>3 DEF Undoing
<1>5. CASE Begins(undo, Undo1(e), Restore(e)) /\ hd # 0 /\ Room(e) /\ Lying(e, d, hd, 0, FALSE)
  <2>1. /\ Head(undo).from = e.doff + hd /\ Head(undo).delta = -hd
        /\ Tail(undo) = Restore(e)
    BY <1>5 DEF Begins, Undo1
  <2>2. e.doff + hd <= d.size
    <3>1. d.size = size + hd + 0
      BY <1>5 DEF Lying
    <3> QED BY <1>3, <1>5, <3>1 DEF Room
  <2>3. Lying(e, d2, 0, 0, FALSE)
    BY <1>5, <2>1, <2>2, FirstMovesBack
  <2> QED BY <1>5, <2>1, <2>3 DEF Undoing
<1> QED BY <1>1, <1>2, <1>4, <1>5 DEF UndoNext, Begins

\* The device a shift works on is the one it began with.
LEMMA ReplaceShiftBegin ==
    ASSUME Good, ReplaceOK, ShiftBegin
    PROVE  ReplaceOK'
<1> DEFINE c == Head(Queue)
<1>0. HandleTypeOK /\ Lists /\ Pending({"shift"})
  BY DEF Good, ShiftBegin
<1>1. c.from \in Nat /\ c.delta \in Int \ {0} /\ c.zero \in BOOLEAN
  BY <1>0, PendingShift
<1>2. /\ \/ Shift!GrowStart(c.from, c.delta, c.zero) \/ Shift!ShrinkStart(c.from, c.delta, c.zero)
         \/ Shift!GrowStartFails(c.from, c.delta, c.zero)
      /\ job' = job
  BY DEF ShiftBegin
<1>3. SP!TypeOK /\ SP!LoopInv
  BY <1>0 DEF HandleTypeOK
<1> HIDE DEF c
<1>4. sh.pc = "idle" /\ sh'.pc # "idle" /\ sh'.was = dev
  BY <1>1, <1>2, <1>3, ShiftStarts
<1>5. Entry' = Entry
  BY <1>4 DEF Entry
<1>6. Edit' = Edit
  BY <1>2, SameEdit DEF SameCall
<1> QED BY <1>2, <1>5, <1>6 DEF ReplaceOK, Idle

\* A copy of a shift under way changes nothing that a replacement knows: it began on the file
\* as the shift found it.
LEMMA ReplaceShiftGoesOn ==
    ASSUME Good, ReplaceOK, ShiftGoesOn
    PROVE  ReplaceOK'
<1>1. SP!TypeOK /\ SP!LoopInv /\ (Shift!ShiftStep \/ Shift!ShiftFault) /\ job' = job
  BY DEF Good, HandleTypeOK, ShiftGoesOn
<1>2. sh.pc # "idle" /\ sh'.pc # "idle" /\ sh'.was = sh.was
  BY <1>1, ShiftGoes
<1>3. Entry' = Entry
  BY <1>2 DEF Entry
<1>4. Edit' = Edit
  BY <1>1, SameEdit DEF SameCall
<1> QED BY <1>1, <1>3, <1>4 DEF ReplaceOK, Idle

\* A shift ends: one that failed leaves the call torn, and one that is done its reverse.
LEMMA ReplaceShiftEnds ==
    ASSUME Good, ReplaceOK, ShiftEnds
    PROVE  ReplaceOK'
<1> DEFINE c == Head(Queue) e == Edit
<1>0. HandleTypeOK /\ Lists
  BY DEF Good
<1>1. SP!TypeOK /\ SP!LoopInv /\ Shift!ShiftReturn
  BY <1>0 DEF HandleTypeOK, ShiftEnds
<1>2. sh.pc \in {"done", "failed"} /\ sh'.pc = "idle" /\ dev' = dev
  BY <1>1, ShiftReturns
<1>3. Pending({"shift"}) /\ sh.from = c.from /\ sh.delta = c.delta
  BY <1>0, <1>2 DEF HandleTypeOK
<1>4. /\ ~Idle /\ c.k = "shift"
      /\ \/ job.pc = "run" /\ Queue = job.todo /\ job.todo # <<>>
         \/ job.pc = "undo" /\ Queue = job.undo /\ job.undo # <<>>
  BY <1>0, <1>3, QueueFacts
<1>5. job \in Jobs(Limit)
  BY <1>0, <1>4, JobFacts
<1>6. Entry = sh.was /\ Entry' = dev
  BY <1>2 DEF Entry
<1>7. c.from <= Entry.size /\ sh.pc = "done" => Moved(Entry, dev, c.from, c.delta)
  BY <1>1, <1>3, <1>6, ShiftDone
<1>8. CASE sh.pc = "failed"
  <2>1. job' = [GiveUp EXCEPT !.torn = TRUE]
    BY <1>8 DEF ShiftEnds
  <2>2. job'.torn
    BY <1>4, <1>5, <2>1 DEF GiveUp, Popped, Jobs
  <2> QED BY <2>2 DEF ReplaceOK
<1>9. CASE sh.pc = "done" /\ job.pc = "run"
  <2>1. job' = [Popped EXCEPT !.undo = Head(job.todo).back \o Popped.undo]
    BY <1>9 DEF ShiftEnds
  <2>2. Popped.undo = job.undo
    BY <1>5, <1>9 DEF Popped, Jobs
  <2> DEFINE undo == Head(job.todo).back \o job.undo
  <2>3. job' = [Popped EXCEPT !.undo = undo]
    BY <2>1, <2>2
  <2> HIDE DEF undo
  <2>4. job' = Carried("run", Tail(job.todo), undo, job.torn, job.ok)
    BY <1>0, <1>4, <1>9, <2>3, JobForms
  <2>5. /\ SameCall /\ job'.pc = "run" /\ job'.todo = Tail(job.todo) /\ job'.undo = undo
        /\ job'.torn = job.torn
    BY <1>5, <2>4, CarriedFields
  <2>6. e' = e /\ job'.op = job.op
    BY <2>5, SameEdit DEF SameCall
  <2>7. SUFFICES ASSUME job.op.op \in Replacing, ~job.torn
                 PROVE  Doing(e, Tail(job.todo), undo, dev)
    BY <1>6, <2>5, <2>6 DEF ReplaceOK
  <2>8. EditOK(e) /\ Doing(e, job.todo, job.undo, Entry)
    BY <1>0, <1>4, <1>9, <2>7, EditFacts DEF ReplaceOK
  <2>9. Head(job.todo) = c /\ job.todo # <<>>
    BY <1>4, <1>9
  <2> HIDE DEF e, c
  <2>10. Head(job.todo).from <= Entry.size =>
           Moved(Entry, dev, Head(job.todo).from, Head(job.todo).delta)
    BY <1>7, <1>9, <2>9
  <2>11. Head(job.todo).k = "shift"
    BY <1>4, <2>9
  <2> QED BY <2>8, <2>9, <2>10, <2>11, Advances DEF undo
<1>10. CASE sh.pc = "done" /\ job.pc = "undo"
  <2>1. job' = Popped
    BY <1>10 DEF ShiftEnds
  <2>2. job' = Carried("undo", job.todo, Tail(job.undo), job.torn, job.ok)
    BY <1>0, <1>4, <1>10, <2>1, JobForms
  <2>3. /\ SameCall /\ job'.pc = "undo" /\ job'.undo = Tail(job.undo) /\ job'.torn = job.torn
    BY <1>5, <2>2, CarriedFields
  <2>4. e' = e /\ job'.op = job.op
    BY <2>3, SameEdit DEF SameCall
  <2>5. SUFFICES ASSUME job.op.op \in Replacing, ~job.torn
                 PROVE  Undoing(e, Tail(job.undo), dev)
    BY <1>6, <2>3, <2>4 DEF ReplaceOK
  <2>6. EditOK(e) /\ Undoing(e, job.undo, Entry)
    BY <1>0, <1>4, <1>10, <2>5, EditFacts DEF ReplaceOK
  <2>7. Head(job.undo) = c /\ job.undo # <<>>
    BY <1>4, <1>10
  <2> HIDE DEF e, c
  <2>8. Head(job.undo).from <= Entry.size =>
           Moved(Entry, dev, Head(job.undo).from, Head(job.undo).delta)
    BY <1>7, <1>10, <2>7
  <2>9. Head(job.undo).k = "shift"
    BY <1>4, <2>7
  <2> QED BY <2>6, <2>7, <2>8, <2>9, Retreats
<1> QED BY <1>2, <1>4, <1>8, <1>9, <1>10

-----------------------------------------------------------------------------
(* A replacement begins.                                                    *)

\* A call that fails before its first step has the file as it was.
LEMMA ReplaceRefused ==
    ASSUME Good, job.pc = "scan", Fail, dev' = dev, sh' = sh
    PROVE  ReplaceOK'
<1>1. /\ HandleTypeOK /\ Lists /\ ~Idle /\ sh.pc = "idle" /\ dev = job.was /\ job.undo = <<>>
  BY ScanFacts
<1>2. job \in Jobs(Limit)
  BY <1>1, JobFacts
<1>3. job' = Carried("undo", <<>>, job.undo, job.torn, job.ok)
  BY <1>1, JobForms DEF Fail
<1>4. /\ SameCall /\ job'.pc = "undo" /\ job'.undo = <<>>
  BY <1>1, <1>2, <1>3, CarriedFields
<1>5. Edit' = Edit /\ job'.op = job.op /\ Entry' = dev
  BY <1>1, <1>4, SameEdit DEF SameCall, Entry
<1>6. SUFFICES ASSUME job.op.op \in Replacing PROVE Undoing(Edit, <<>>, dev)
  BY <1>4, <1>5 DEF ReplaceOK
<1>7. EditOK(Edit)
  BY <1>1, <1>6, EditFacts
<1>8. Edit.was = dev
  BY <1>1 DEF Edit
<1> DEFINE e == Edit undo == <<>>
<1>9. Lying(e, dev, 0, 0, TRUE)
  BY <1>7, <1>8, AsItWas
<1>10. undo \in {Ends(e), Tail(Ends(e)), <<>>}
  OBVIOUS
<1> HIDE DEF e, undo
<1>11. Undoing(e, undo, dev)
  BY <1>9, <1>10, Ending
<1> QED BY <1>11 DEF e, undo

\* A replacement that is planned has its steps before it.
LEMMA ReplacePlanned ==
    ASSUME Good, job.pc = "scan", NEW todo, NEW undo, Plan(todo, undo), dev' = dev, sh' = sh,
           Doing(Edit, todo, undo, dev)
    PROVE  ReplaceOK'
<1>1. /\ HandleTypeOK /\ Lists /\ ~Idle /\ sh.pc = "idle"
  BY ScanFacts
<1>2. job \in Jobs(Limit)
  BY <1>1, JobFacts
<1>3. job' = Carried("run", todo, undo, job.torn, job.ok)
  BY <1>1, JobForms DEF Plan
<1>4. /\ SameCall /\ job'.pc = "run" /\ job'.undo = undo /\ job'.todo = todo
  BY <1>1, <1>2, <1>3, CarriedFields
<1>5. Edit' = Edit /\ Entry' = dev
  BY <1>1, <1>4, SameEdit DEF Entry
<1> QED BY <1>4, <1>5 DEF ReplaceOK

\* What a planned replacement is about.
LEMMA EditAtStart ==
    ASSUME Good, job.pc = "scan", job.op.op \in Replacing
    PROVE  LET u == hdus[job.op.n]
               h == job.op.name
           IN  /\ u \in HduRec /\ h \in Name /\ EditOK(Edit) /\ job.op.n \in DOMAIN hdus
               /\ Edit.hoff = u.hoff /\ Edit.doff = u.doff /\ Edit.next = NextOff(u)
               /\ Edit.keep = u.doff + KeptBytes(u, Hdr[h].bytes) /\ Edit.was = dev
               /\ Edit.data = (job.op.op = "structure")
               /\ Edit.hdelta = HdrSize(h) - (u.doff - u.hoff)
               /\ Edit.ddelta = IF job.op.op = "structure"
                                THEN DataSize(Hdr[h].bytes) - DataSize(u.bytes) ELSE 0
<1>1. /\ HandleTypeOK /\ Lists /\ ~Idle /\ dev = job.was /\ hdus \in Seq(HduRec)
      /\ Len(job.hdus) \in Nat /\ Len(hdus) \in Nat /\ Len(job.hdus) <= Len(hdus)
      /\ DOMAIN job.hdus = 1 .. Len(job.hdus) /\ DOMAIN hdus = 1 .. Len(hdus)
      /\ \A i \in DOMAIN job.hdus : hdus[i] = job.hdus[i]
      /\ job.op.op \in {"header", "structure", "rows"} => job.op.n \in DOMAIN job.hdus
  BY ScanFacts
<1> DEFINE n == job.op.n
<1>2. n \in DOMAIN job.hdus
  BY <1>1 DEF Replacing
<1>3. n \in DOMAIN hdus /\ hdus[n] = job.hdus[n]
  <2> HIDE DEF n
  <2> QED BY <1>1, <1>2
<1>4. hdus[n] \in HduRec
  BY <1>1, <1>3
<1>5. job.op.name \in Name
  <2>1. job.op \in Ops
    BY <1>1, JobFacts
  <2> QED BY <2>1, OpFacts DEF Replacing
<1>6. EditOK(Edit)
  BY <1>1, EditFacts
<1> QED BY <1>1, <1>3, <1>4, <1>5, <1>6 DEF Edit

\* What its steps are made of.
LEMMA MildWrite ==
    ASSUME NEW e, NEW off \in Nat, NEW n \in Nat, NEW cells \in [0 .. n - 1 -> Cell],
           off >= e.hoff,
           n # 0 => \/ off + n <= e.doff + e.hdelta
                    \/ e.data /\ e.keep + e.hdelta <= off /\ off + n <= e.next + e.hdelta + e.ddelta
    PROVE  WriteCall(off, n, cells) \in Seq(MildSteps(e))
<1>1. CASE n = 0
  BY <1>1 DEF WriteCall
<1>2. CASE n # 0
  <2> DEFINE c == [k |-> "write", off |-> off, n |-> n, cells |-> cells]
  <2>1. c \in WriteSteps(e.hoff)
    BY <1>2 DEF WriteSteps
  <2>2. c.off = off /\ c.n = n
    OBVIOUS
  <2>3. WriteCall(off, n, cells) = <<c>>
    BY <1>2 DEF WriteCall
  <2> HIDE DEF c
  <2>4. c \in MildSteps(e)
    BY <1>2, <2>1, <2>2 DEF MildSteps
  <2> QED BY <2>3, <2>4
<1> QED BY <1>1, <1>2

\* The steps that store the new header and the new list change no cell that is kept.
LEMMA MildCommit ==
    ASSUME NEW e, NEW off \in Nat, NEW h \in Name, NEW us \in Seq(HduRec), NEW cur \in Nat,
           NEW scan \in Nat, NEW last \in BOOLEAN,
           off >= e.hoff, off + HdrSize(h) <= e.doff + e.hdelta, Ordered(us, scan)
    PROVE  Commit(WriteCall(off, HdrSize(h), HeaderCells(h)), KeepCall(us, cur, scan, last))
             \in Seq(MildSteps(e))
<1> DEFINE M == MildSteps(e) n == HdrSize(h) w == WriteCall(off, n, HeaderCells(h))
           s == Call("swap") k == KeepCall(us, cur, scan, last)
<1>1. n \in Nat /\ HeaderCells(h) \in [0 .. n - 1 -> Cell]
  BY HdrFacts
<1>2. w \in Seq(M)
  <2> HIDE DEF n
  <2> QED BY <1>1, MildWrite DEF n
<1>3. PICK x \in KeepSteps : k = <<x>>
  BY KeepCallFacts
<1>4. k \in Seq(M) /\ s \in Seq(M)
  <2>1. x \in M /\ [k |-> "swap"] \in M
    BY <1>3 DEF MildSteps
  <2> HIDE DEF M
  <2> QED BY <1>3, <2>1 DEF Call
<1> HIDE DEF M, w, s, k
<1>5. w \o s \in Seq(M)
  BY <1>2, <1>4, ConcatProperties
<1>6. (w \o s) \o k \in Seq(M)
  BY <1>4, <1>5, ConcatProperties
<1> QED BY <1>6 DEF Commit, M, w, s, k, n

\* A replacement whose steps are these begins with the file as it was.
LEMMA DoingStarts ==
    ASSUME NEW e, NEW r \in Seq(MildSteps(e)), EditOK(e), Room(e)
    PROVE  Doing(e, First(e) \o (Second(e) \o r), Restore(e), e.was)
<1>1. Lying(e, e.was, 0, 0, FALSE)
  BY AsItWas
<1> DEFINE todo == First(e) \o (Second(e) \o r)
<1>2. \E q \in Seq(MildSteps(e)) : todo = First(e) \o (Second(e) \o q)
  OBVIOUS
<1> HIDE DEF todo
<1>3. Doing(e, todo, Restore(e), e.was)
  BY <1>1, <1>2, Zenon DEF Doing
<1> QED BY <1>3 DEF todo

\* A header is replaced.
LEMMA ReplacePlanHeader ==
    ASSUME Good, PlanHeader
    PROVE  ReplaceOK'
<1>0. Scanned("header") /\ dev' = dev /\ sh' = sh
  BY Zenon DEF PlanHeader, Planning
<1>1. job.pc = "scan" /\ full /\ job.op.op = "header"
  BY <1>0, ScannedFacts
<1> DEFINE n == job.op.n
           u == hdus[n]
           h == job.op.name
           old == u.doff - u.hoff
           delta == HdrSize(h) - old
           us == [Following(hdus, n, delta) EXCEPT ![n].name = h, ![n].doff = @ + delta]
           lead == Reversible(u.doff, delta)
           rest == Commit(WriteCall(u.hoff, HdrSize(h), HeaderCells(h)),
                          KeepCall(us, chdu, scanOff + delta, TRUE))
           write == WriteCall(u.hoff, old, Slice(dev, u.hoff, old))
           size == SizeCall(dev.size)
           e == Edit
<1>2. CASE Fail
  BY <1>0, <1>1, <1>2, ReplaceRefused
<1>3. CASE u.hoff + old <= dev.size /\ Plan(lead \o rest, write \o size)
  <2>1. /\ u \in HduRec /\ h \in Name /\ EditOK(e) /\ n \in DOMAIN hdus
        /\ e.hoff = u.hoff /\ e.doff = u.doff /\ e.was = dev /\ ~e.data
        /\ e.hdelta = delta /\ e.ddelta = 0
    <3>1. job.op.op \in Replacing /\ job.op.op # "structure"
      BY <1>1 DEF Replacing
    <3> QED BY <1>1, <3>1, EditAtStart
  <2>2. /\ hdus \in Seq(HduRec) /\ scanOff \in Nat /\ Ordered(hdus, scanOff) /\ dev.size \in Nat
        /\ chdu \in Nat
    BY <1>1, ScanFacts DEF ListOK
  <2>3. us \in Seq(HduRec) /\ Ordered(us, scanOff + delta) /\ scanOff + delta \in Nat
    BY <2>1, <2>2, HeaderList, Zenon
  <2>4. u.hoff \in Nat /\ u.doff \in Nat /\ HdrSize(h) \in Nat
    BY <2>1, HduFacts, HdrFacts
  <2> HIDE DEF us
  <2>5. u.hoff + HdrSize(h) = u.doff + delta /\ u.hoff + old = u.doff
    <3> DEFINE a == u.hoff b == u.doff c == HdrSize(h)
    <3>1. a \in Nat /\ b \in Nat /\ c \in Nat /\ old = b - a /\ delta = c - (b - a)
      BY <2>4
    <3> HIDE DEF a, b, c, old, delta
    <3>2. a + c = b + delta /\ a + old = b
      BY <3>1
    <3> QED BY <3>2 DEF a, b, c
  <2>6. Room(e)
    BY <1>3, <2>1, <2>5 DEF Room
  <2>7. rest \in Seq(MildSteps(e))
    <3> DEFINE off == u.hoff scan == scanOff + delta last == TRUE
    <3>1. /\ off \in Nat /\ scan \in Nat /\ last \in BOOLEAN /\ off >= e.hoff /\ Ordered(us, scan)
          /\ off + HdrSize(h) <= e.doff + e.hdelta
      BY <2>1, <2>3, <2>4, <2>5
    <3> HIDE DEF off, scan, last, h, e
    <3>2. Commit(WriteCall(off, HdrSize(h), HeaderCells(h)), KeepCall(us, chdu, scan, last))
            \in Seq(MildSteps(e))
      BY <2>1, <2>2, <2>3, <3>1, MildCommit
    <3> QED BY <3>2 DEF off, scan, last
  <2>8. lead = First(e) /\ Second(e) = <<>>
    BY <2>1 DEF First, Second, Reversible
  <2>9. write \o size = Restore(e)
    <3>1. OldHeader(e) = write /\ Ends(e) = size \o <<>>
      BY <2>1 DEF OldHeader, Ends
    <3>2. size \o <<>> = size
      BY DEF SizeCall
    <3> QED BY <3>1, <3>2 DEF Restore
  <2> DEFINE undo == write \o size
  <2> HIDE DEF rest, lead, undo, e
  <2>10. <<>> \o rest = rest
    BY <2>7
  <2>11. Doing(e, First(e) \o (Second(e) \o rest), Restore(e), e.was)
    BY ONLY <2>1, <2>6, <2>7, DoingStarts
  <2>12. Doing(e, lead \o rest, undo, dev)
    BY <2>1, <2>8, <2>9, <2>10, <2>11 DEF undo
  <2> DEFINE todo == lead \o rest
  <2>13. Plan(todo, undo) /\ Doing(Edit, todo, undo, dev)
    BY <1>3, <2>12 DEF undo, e
  <2> HIDE DEF todo
  <2> QED BY <1>0, <1>1, <2>13, ReplacePlanned
<1>4. Fail \/ (u.hoff + old <= dev.size /\ Plan(lead \o rest, write \o size))
  BY Zenon DEF PlanHeader, Readable
<1> HIDE DEF u, old, lead, rest, write, size
<1> QED BY <1>2, <1>3, <1>4

\* A header and its data unit are replaced.
LEMMA ReplacePlanStructure ==
    ASSUME Good, PlanStructure
    PROVE  ReplaceOK'
<1>0. Scanned("structure") /\ dev' = dev /\ sh' = sh
  BY Zenon DEF PlanStructure, Planning
<1>1. job.pc = "scan" /\ full /\ job.op.op = "structure"
  BY <1>0, ScannedFacts
<1> DEFINE n == job.op.n
           u == hdus[n]
           h == job.op.name
           old == u.doff - u.hoff
           bytes == Hdr[h].bytes
           kept == KeptBytes(u, bytes)
           hdelta == HdrSize(h) - old
           ddelta == DataSize(bytes) - DataSize(u.bytes)
           doff == u.hoff + HdrSize(h)
           us == [Following(hdus, n, hdelta + ddelta) EXCEPT
                     ![n].name = h, ![n].doff = doff, ![n].bytes = bytes]
           first == Reversible(u.doff, hdelta)
           second == Reversible(doff + DataSize(u.bytes), ddelta)
           fill == FillCall(doff + kept, DataSize(bytes) - kept, FillCell(u.name))
           rest == Commit(WriteCall(u.hoff, HdrSize(h), HeaderCells(h)),
                          KeepCall(us, chdu, scanOff + hdelta + ddelta, TRUE))
           undo == StructureUndo(u)
           e == Edit
<1>2. CASE Fail
  BY <1>0, <1>1, <1>2, ReplaceRefused
<1>3. CASE ~(NextOff(u) > dev.size) /\ Plan(((first \o second) \o fill) \o rest, undo)
  <2>1. /\ u \in HduRec /\ h \in Name /\ EditOK(e) /\ n \in DOMAIN hdus
        /\ e.hoff = u.hoff /\ e.doff = u.doff /\ e.was = dev /\ e.data
        /\ e.next = NextOff(u) /\ e.keep = u.doff + kept
        /\ e.hdelta = hdelta /\ e.ddelta = ddelta
    <3>1. job.op.op \in Replacing
      BY <1>1 DEF Replacing
    <3> QED BY <1>1, <3>1, EditAtStart
  <2>2. /\ hdus \in Seq(HduRec) /\ scanOff \in Nat /\ Ordered(hdus, scanOff) /\ dev.size \in Nat
        /\ chdu \in Nat
    BY <1>1, ScanFacts DEF ListOK
  <2>3. /\ u.hoff \in Nat /\ u.doff \in Nat /\ HdrSize(h) \in Nat /\ bytes \in Nat
        /\ DataSize(u.bytes) \in Nat /\ NextOff(u) = u.doff + DataSize(u.bytes) /\ u.name \in Name
        /\ NextOff(u) \in Nat
    BY <2>1, HduFacts, HdrFacts
  <2>4. kept \in Nat /\ DataSize(bytes) \in Nat /\ DataSize(bytes) - kept \in Nat
    <3> HIDE DEF u, bytes
    <3> QED BY <2>1, <2>3, KeptFacts
  <2>5. /\ us \in Seq(HduRec) /\ Ordered(us, scanOff + (hdelta + ddelta))
        /\ scanOff + (hdelta + ddelta) \in Nat
    <3> HIDE DEF bytes
    <3> QED BY <2>1, <2>2, <2>3, StructureList, Zenon
  <2> HIDE DEF us
  <2>6. /\ u.hoff + HdrSize(h) = u.doff + hdelta /\ doff = u.doff + hdelta
        /\ doff + DataSize(u.bytes) = NextOff(u) + hdelta
        /\ doff + kept = (u.doff + kept) + hdelta
        /\ (doff + kept) + (DataSize(bytes) - kept) = NextOff(u) + hdelta + ddelta
        /\ scanOff + hdelta + ddelta = scanOff + (hdelta + ddelta)
        /\ doff + kept \in Nat /\ doff + kept >= u.hoff
        /\ u.doff <= dev.size /\ NextOff(u) <= dev.size
    <3> DEFINE a == u.hoff b == u.doff c == HdrSize(h) x == DataSize(u.bytes) y == DataSize(bytes)
               z == NextOff(u)
    <3>1. /\ a \in Nat /\ b \in Nat /\ c \in Nat /\ x \in Nat /\ y \in Nat /\ z \in Nat /\ z = b + x
          /\ hdelta = c - (b - a) /\ ddelta = y - x /\ doff = a + c /\ ~(z > dev.size)
          /\ dev.size \in Nat /\ scanOff \in Nat /\ kept \in Nat
      BY <1>3, <2>2, <2>3, <2>4, Zenon
    <3> HIDE DEF a, b, c, x, y, z, hdelta, ddelta, doff, kept
    <3>2. /\ a + c = b + hdelta /\ doff = b + hdelta /\ doff + x = z + hdelta
          /\ doff + kept = (b + kept) + hdelta /\ (doff + kept) + (y - kept) = z + hdelta + ddelta
      BY <3>1
    <3>3. /\ scanOff + hdelta + ddelta = scanOff + (hdelta + ddelta)
          /\ doff + kept \in Nat /\ doff + kept >= a /\ b <= dev.size /\ z <= dev.size
      BY <3>1
    <3> QED BY <3>2, <3>3 DEF a, b, c, x, y, z
  <2>7. Room(e)
    BY <2>1, <2>6 DEF Room
  <2>8. rest \in Seq(MildSteps(e))
    <3> DEFINE off == u.hoff scan == scanOff + hdelta + ddelta last == TRUE
    <3>1. /\ off \in Nat /\ scan \in Nat /\ last \in BOOLEAN /\ off >= e.hoff /\ Ordered(us, scan)
          /\ off + HdrSize(h) <= e.doff + e.hdelta
      BY <2>1, <2>3, <2>5, <2>6
    <3> HIDE DEF off, scan, last, h, e
    <3>2. Commit(WriteCall(off, HdrSize(h), HeaderCells(h)), KeepCall(us, chdu, scan, last))
            \in Seq(MildSteps(e))
      BY <2>1, <2>2, <2>5, <3>1, MildCommit
    <3> QED BY <3>2 DEF off, scan, last
  <2>9. fill \in Seq(MildSteps(e))
    <3> DEFINE off == doff + kept m == DataSize(bytes) - kept v == FillCell(u.name)
               cells == [i \in 0 .. m - 1 |-> v]
    <3>1. off \in Nat /\ off >= e.hoff /\ m \in Nat /\ v \in Cell /\ e.data
      BY <2>1, <2>3, <2>4, <2>6, HdrFacts
    <3>2. e.keep + e.hdelta <= off /\ off + m <= e.next + e.hdelta + e.ddelta
      <4>1. off = e.keep + e.hdelta /\ off + m = e.next + e.hdelta + e.ddelta
        BY <2>1, <2>6
      <4>2. off + m \in Nat
        BY <3>1
      <4> HIDE DEF off, m
      <4> QED BY <3>1, <4>1, <4>2
    <3>3. fill = WriteCall(off, m, cells)
      BY DEF FillCall
    <3> HIDE DEF off, m, v, fill
    <3>4. cells \in [0 .. m - 1 -> Cell]
      BY <3>1
    <3> HIDE DEF cells
    <3>5. WriteCall(off, m, cells) \in Seq(MildSteps(e))
      BY <3>1, <3>2, <3>4, MildWrite
    <3> QED BY <3>3, <3>5
  <2>10. first = First(e)
    BY <2>1 DEF First
  <2>11. second = Second(e)
    <3>1. doff + DataSize(u.bytes) = e.next + e.hdelta /\ ddelta = e.ddelta
      BY <2>1, <2>6
    <3> HIDE DEF doff, u, ddelta, e
    <3> QED BY <3>1 DEF Second
  <2>12. undo = Restore(e)
    <3> DEFINE q == OldHeader(e) s == SizeCall(dev.size) l == Call("unload")
               S == {OldWrite(e), OldSize(e), Drop}
    <3>1. undo = (q \o s) \o l
      BY <2>1 DEF StructureUndo, OldHeader
    <3>2. Restore(e) = q \o (s \o l)
      BY <2>1 DEF Restore, Ends
    <3>3. q \in Seq(S) /\ s \in Seq(S) /\ l \in Seq(S)
      <4>1. /\ q = (IF e.doff = e.hoff THEN <<>> ELSE <<OldWrite(e)>>)
            /\ s = <<OldSize(e)>> /\ l = <<Drop>>
        BY <2>1, Pieces
      <4>2. OldWrite(e) \in S /\ OldSize(e) \in S /\ Drop \in S
        OBVIOUS
      <4> HIDE DEF q, s, l, S
      <4> QED BY <4>1, <4>2
    <3> HIDE DEF q, s, l, S, undo
    <3>4. (q \o s) \o l = q \o (s \o l)
      BY <3>3, ConcatAssociative
    <3> QED BY <3>1, <3>2, <3>4
  <2>13. ((first \o second) \o fill) \o rest = first \o (second \o (fill \o rest))
    <3> DEFINE S == MildSteps(e) \cup {Do1(e), Do2(e)}
    <3>1. /\ First(e) = (IF e.hdelta = 0 THEN <<>> ELSE <<Do1(e)>>)
          /\ Second(e) = (IF e.ddelta = 0 THEN <<>> ELSE <<Do2(e)>>)
      BY <2>1, Pieces
    <3>2. MildSteps(e) \subseteq S /\ Do1(e) \in S /\ Do2(e) \in S
      OBVIOUS
    <3> HIDE DEF S, first, second, fill, rest, e
    <3>3. first \in Seq(S) /\ second \in Seq(S)
      BY <2>10, <2>11, <3>1, <3>2
    <3>4. fill \in Seq(S) /\ rest \in Seq(S)
      BY <2>8, <2>9, <3>2
    <3>5. first \o second \in Seq(S) /\ fill \o rest \in Seq(S)
      <4>1. first \o second \in Seq(S)
        BY ONLY <3>3
      <4>2. fill \o rest \in Seq(S)
        BY ONLY <3>4
      <4> QED BY ONLY <4>1, <4>2
    <3>6. ((first \o second) \o fill) \o rest = (first \o second) \o (fill \o rest)
      <4> DEFINE both == first \o second
      <4>1. both \in Seq(S)
        BY <3>5
      <4> HIDE DEF both
      <4>2. (both \o fill) \o rest = both \o (fill \o rest)
        BY ONLY <3>4, <4>1, ConcatAssociative
      <4> QED BY <4>2 DEF both
    <3>7. (first \o second) \o (fill \o rest) = first \o (second \o (fill \o rest))
      <4> DEFINE both == fill \o rest
      <4>1. both \in Seq(S)
        BY <3>5
      <4> HIDE DEF both
      <4>2. (first \o second) \o both = first \o (second \o both)
        BY ONLY <3>3, <4>1, ConcatAssociative
      <4> QED BY <4>2 DEF both
    <3> QED BY ONLY <3>6, <3>7
  <2> HIDE DEF first, second, fill, rest, undo, e
  <2>14. fill \o rest \in Seq(MildSteps(e))
    BY <2>8, <2>9, ConcatProperties
  <2>15. Doing(e, First(e) \o (Second(e) \o (fill \o rest)), Restore(e), e.was)
    BY ONLY <2>1, <2>7, <2>14, DoingStarts
  <2> DEFINE todo == ((first \o second) \o fill) \o rest
  <2>16. Doing(e, todo, undo, dev)
    BY <2>1, <2>10, <2>11, <2>12, <2>13, <2>15
  <2>17. Plan(todo, undo) /\ Doing(Edit, todo, undo, dev)
    BY <1>3, <2>16, Zenon DEF e
  <2> HIDE DEF todo
  <2> QED BY <1>0, <1>1, <2>17, ReplacePlanned
<1>4. Fail \/ (~(NextOff(u) > dev.size) /\ Plan(((first \o second) \o fill) \o rest, undo))
  BY Zenon DEF PlanStructure
<1> HIDE DEF u, first, second, fill, rest, undo
<1> QED BY <1>2, <1>3, <1>4

\* The other calls are no replacements.
LEMMA OtherPlans ==
    ASSUME Good, PlanAppend \/ PlanCopy \/ PlanDelete \/ PlanRows
    PROVE  ReplaceOK'
<1>1. /\ job.op.op \notin Replacing /\ job.pc = "scan"
  BY Zenon DEF PlanAppend, PlanCopy, PlanDelete, PlanRows, Scanned, Replacing
<1>2. ~Idle
  BY <1>1 DEF Idle
<1>3. HandleTypeOK
  BY DEF Good
<1>4. job \in Jobs(Limit)
  BY ONLY <1>2, <1>3, JobFacts
<1>5. Fail \/ \E todo, undo : Plan(todo, undo)
  BY Zenon DEF PlanAppend, PlanCopy, PlanDelete, PlanRows
<1>6. job'.op = job.op
  BY <1>4, <1>5 DEF Fail, Plan, Jobs
<1> QED BY <1>1, <1>6, Zenon DEF ReplaceOK

-----------------------------------------------------------------------------
(* A rollback of a replacement.                                             *)

\* A call that begins, and one that ends, has no steps.
LEMMA ReplaceQuietJob ==
    ASSUME job' = NoJob \/ job'.pc = "scan" \/ (job' = job /\ dev' = dev /\ sh' = sh), ReplaceOK
    PROVE  ReplaceOK'
<1>1. CASE job' = NoJob
  BY <1>1 DEF ReplaceOK, Idle, NoJob
<1>2. CASE job'.pc = "scan"
  BY <1>2 DEF ReplaceOK
<1>3. CASE job' = job /\ dev' = dev /\ sh' = sh
  <2>1. Edit' = Edit /\ Entry' = Entry
    BY <1>3, SameEdit DEF SameCall, Entry
  <2> QED BY <1>3, <2>1 DEF ReplaceOK, Idle
<1> QED BY <1>1, <1>2, <1>3

\* No call is under way at first.
LEMMA ReplaceInit == Init => ReplaceOK
BY DEF Init, ReplaceOK, Idle, NoJob

\* Every step keeps what a replacement knows of its cells.
LEMMA ReplaceNext ==
    ASSUME Good, ReplaceOK, Next
    PROVE  ReplaceOK'
<1>1. CASE CallBegins
  <2>1. CASE Reopen
    <3>1. job' = job /\ dev' = dev /\ sh' = sh
      BY <2>1 DEF Reopen
    <3> QED BY <3>1, ReplaceQuietJob
  <2>2. CASE \E n \in 1 .. Len(hdus), v \in Value, k \in 0 .. MaxSize : WriteData(n, k, v)
    <3>1. Idle'
      BY <2>2 DEF WriteData, Idle
    <3> QED BY <3>1 DEF ReplaceOK
  <2>3. CASE \/ \E n \in 1 .. MaxHduCount + 1 : SelectHdu(n)
             \/ \E h \in Name : AppendHdu(h)
             \/ \E n \in 1 .. Len(hdus) + 1 : CopyHdu(n) \/ DeleteHdu(n)
             \/ \E n \in 1 .. Len(hdus), h \in Name :
                   Replace(n, h) \/ Restructure(n, h) \/ Rows(n, h)
    <3>1. \E op, want : Begin(op, want)
      BY <2>3 DEF SelectHdu, AppendHdu, CopyHdu, DeleteHdu, Replace, Restructure, Rows, BeginEdit
    <3>2. job'.pc = "scan"
      BY <3>1 DEF Begin, NewJob
    <3> QED BY <3>2, ReplaceQuietJob
  <2> QED BY <1>1, <2>1, <2>2, <2>3 DEF CallBegins
<1>2. CASE ScanEnd \/ ScanHdu
  <2>1. job' = job /\ dev' = dev /\ sh' = sh
    BY <1>2 DEF ScanEnd, ScanHdu
  <2> QED BY <2>1, ReplaceQuietJob
<1>3. CASE ScanError \/ PrepareFails
  <2>1. job.pc = "scan" /\ Fail /\ dev' = dev /\ sh' = sh
    BY <1>3 DEF ScanError, Scanning, PrepareFails
  <2> QED BY <2>1, ReplaceRefused
<1>4. CASE PlanSelect \/ Return \/ ReturnError
  <2>1. job' = NoJob
    BY <1>4 DEF PlanSelect, Return, ReturnError
  <2> QED BY <2>1, ReplaceQuietJob
<1>5. CASE PlanEdit
  BY <1>5, OtherPlans, ReplacePlanHeader, ReplacePlanStructure DEF PlanEdit
<1>6. CASE DeviceCall \/ ShiftBegin \/ ShiftGoesOn \/ ShiftEnds
  BY <1>6, ReplaceDeviceCall, ReplaceShiftBegin, ReplaceShiftGoesOn, ReplaceShiftEnds
<1>7. CASE Adopt \/ Keep \/ Step \/ Rejects
  BY <1>7, ReplaceAdopt, ReplaceKeep, ReplaceStep, ReplaceRejects
<1>8. CASE DeviceFails \/ StepFails
  BY <1>8, ReplaceDeviceFails, ReplaceStepFails
<1> QED BY <1>1, <1>2, <1>3, <1>4, <1>5, <1>6, <1>7, <1>8 DEF Next, CallGoesOn, CallFails

\* Where the model goes no further, it also does not move.
LEMMA StuckStutters ==
    ASSUME Stuck, UNCHANGED vars
    PROVE  Stuck'
<1>1. /\ dev' = dev /\ sh' = sh /\ faults' = faults /\ hdus' = hdus /\ chdu' = chdu
      /\ scanOff' = scanOff /\ full' = full /\ win' = win /\ job' = job /\ edits' = edits
      /\ damaged' = damaged
  BY DEF vars
<1>2. Limit' = Limit
  BY <1>1 DEF Limit, Idle, NextOff, DataSize, RoundUp
<1> QED BY <1>1, <1>2 DEF Stuck, HduRec, Name

\* Together with what every call keeps.
ReplaceInv == Stuck \/ (Good /\ ReplaceOK)

\* A replacement whose rollback is over, its shifts complete, has every cell back.
LEMMA ReplaceIsBack ==
    ASSUME ReplaceInv
    PROVE  ReplaceRollsBack
<1> DEFINE u == job.hdus[job.op.n]
           kept == KeptBytes(u, Hdr[job.op.name].bytes)
<1>1. ASSUME Failing({"header", "structure"}), ~job.torn
      PROVE  /\ dev.size = job.was.size
             /\ \A i \in 0 .. dev.size - 1 :
                   i \notin u.doff + kept .. NextOff(u) - 1 => dev.at[i] = job.was.at[i]
  <2>1. job.pc = "undo" /\ job.undo = <<>> /\ job.op.op \in Replacing /\ ~Idle
    BY <1>1 DEF Failing, Replacing, Idle
  <2>2. Good /\ ReplaceOK
    BY <2>1 DEF ReplaceInv, Stuck
  <2>3. HandleTypeOK /\ Lists
    BY <2>2 DEF Good
  <2>4. sh.pc = "idle"
    BY <2>1, <2>3 DEF HandleTypeOK, Pending, Queue
  <2> DEFINE e == Edit
  <2>5. EditOK(e)
    BY <2>1, <2>3, EditFacts
  <2>6. Undoing(e, job.undo, dev)
    BY <1>1, <2>1, <2>2, <2>4 DEF ReplaceOK, Entry
  <2>7. e.keep = u.doff + kept /\ e.next = NextOff(u) /\ e.was = job.was
    BY DEF Edit
  <2> HIDE DEF e, u, kept
  <2>8. Lying(e, dev, 0, 0, TRUE)
    BY <2>1, <2>5, <2>6, UndoingCases
  <2>9. e.was.size \in Nat /\ e.keep \in Nat /\ e.next \in Nat /\ e.doff \in Nat
    BY <2>5 DEF EditOK
  <2>10. dev.size = e.was.size
    BY <2>8, <2>9 DEF Lying
  <2>11. ASSUME NEW i \in 0 .. dev.size - 1, i \notin e.keep .. e.next - 1
         PROVE  dev.at[i] = e.was.at[i]
    <3>1. i \in 0 .. e.was.size - 1 /\ i \in Int
      BY <2>9, <2>10, <2>11
    <3>2. At(e.doff, e.next, i, 0, 0) = i
      BY <2>9, <3>1 DEF At
    <3>3. ~(e.keep <= i /\ i < e.next)
      BY <2>9, <2>11, <3>1
    <3> QED BY <2>8, <3>1, <3>2, <3>3 DEF Lying
  <2> QED BY <2>7, <2>10, <2>11
<1> QED BY <1>1 DEF ReplaceRollsBack

-----------------------------------------------------------------------------
(* What follows from it.                                                    *)

\* A scan never reads the window where it is out of date, for every file, every sequence of calls
\* and every failure (WindowFresh; fits.zig:568-574, 746-754).
THEOREM HandleWindowFresh == Spec => []WindowFresh
<1>1. HandleInv => WindowFresh
  BY DEF HandleInv, Stuck, Good, WindowOK, Fresh, WindowFresh, Idle
<1> QED BY <1>1, HandleInvariant, PTL

\* An append or a copy that fails, at any step and for any reason, leaves the device byte for byte
\* and the HDU list as it found them, unless its rollback is hit too, for every file and every
\* failure (AddingIsAtomic; fits.zig:388-403, 909-912).
THEOREM HandleAddingIsAtomic == Spec => []AddingIsAtomic
<1>1. ASSUME HandleInv PROVE AddingIsAtomic
  <2>1. ASSUME Failing({"append", "copy"}), ~job.torn
        PROVE  dev = job.was /\ SubSeq(hdus, 1, Len(job.hdus)) = job.hdus /\ chdu = job.chdu
    <3>1. job.pc = "undo" /\ job.undo = <<>> /\ job.op.op \in Adding /\ ~Idle
      BY <2>1 DEF Failing, Adding, Idle
    <3>2. Good
      BY <1>1, <3>1 DEF HandleInv, Stuck
    <3>3. HandleTypeOK /\ Lists /\ AddingOK
      BY <3>2 DEF Good
    <3>4. dev = job.was
      BY <2>1, <3>1, <3>3 DEF AddingOK, SizeCall
    <3>5. /\ Len(job.hdus) <= Len(hdus) /\ chdu = job.chdu
          /\ \A i \in DOMAIN job.hdus : hdus[i] = job.hdus[i]
      BY <3>1, <3>3 DEF Lists, Whole, Adding
    <3>6. hdus \in Seq(HduRec) /\ job.hdus \in Seq(HduRec)
      BY <3>1, <3>3, JobFacts DEF HandleTypeOK
    <3>7. SubSeq(hdus, 1, Len(job.hdus)) = job.hdus
      BY <3>5, <3>6, SubOrdered
    <3> QED BY <3>4, <3>5, <3>7
  <2> QED BY <2>1 DEF AddingIsAtomic
<1> QED BY <1>1, HandleInvariant, PTL

\* No step of a call, failed steps and rollbacks included, changes a cell of an HDU before the one
\* the call edits, or of any HDU when the call adds one (PriorHdusUntouched; fits.zig:484-531,
\* 682-946).  The HDU that is edited must be on the file as a whole: a scan registers one that the
\* file is too short for (254-300), and a shrink may then cut the file inside an HDU before it.
THEOREM HandlePriorHdus == Spec => [](EditedIsWhole => PriorHdusUntouched)
<1>1. ASSUME HandleInv, EditedIsWhole, ~Idle, NEW i \in 0 .. FirstEdited - 1
      PROVE  i < dev.size /\ dev.at[i] = job.was.at[i]
  <2>1. CASE Stuck
    <3>1. job.op.op \notin Adding \cup {"select"} /\ Limit = 0 /\ job.hdus \in Seq(HduRec)
      BY <2>1 DEF Stuck
    <3>2. FirstEdited = 0
      <4>1. DOMAIN job.hdus = 1 .. Len(job.hdus)
        BY <3>1
      <4> QED BY <1>1, <3>1, <4>1 DEF EditedIsWhole, FirstEdited, Limit, Adding
    <3> QED BY <1>1, <3>2
  <2>2. CASE Good
    <3>1. HandleTypeOK /\ Lists /\ Kept(Limit)
      BY <1>1, <2>2 DEF Good
    <3>2. Limit \in Nat /\ job.scanOff \in Nat /\ job.was.size \in Nat /\ job.hdus \in Seq(HduRec)
          /\ dev.size \in Nat
      BY <1>1, <3>1, LimitFacts, JobFacts
    <3>3. FirstEdited \in Nat /\ FirstEdited <= Limit
      <4>1. DOMAIN job.hdus = 1 .. Len(job.hdus)
        BY <3>2
      <4>2. CASE job.op.op \in Adding
        BY <1>1, <3>2, <4>2 DEF FirstEdited, Limit, Adding, Smaller
      <4>3. CASE job.op.op = "select"
        BY <1>1, <3>2, <4>3 DEF FirstEdited, Limit, Adding
      <4>4. CASE job.op.op \notin Adding \cup {"select"}
        BY <1>1, <3>2, <4>1, <4>4 DEF EditedIsWhole, FirstEdited, Limit, Adding
      <4> QED BY <4>2, <4>3, <4>4
    <3>4. i \in 0 .. Limit - 1 /\ i < dev.size
      BY <3>1, <3>2, <3>3 DEF Kept
    <3> QED BY <3>1, <3>4 DEF Kept
  <2> QED BY <1>1, <2>1, <2>2 DEF HandleInv
<1>2. HandleInv => (EditedIsWhole => PriorHdusUntouched)
  BY <1>1 DEF PriorHdusUntouched
<1> QED BY <1>2, HandleInvariant, PTL

\* A header replacement, of the header alone or of the data unit with it, that fails with its
\* shifts complete puts every cell back, except cells of the edited data unit that the new
\* geometry does not keep, for every file and every failure (ReplaceRollsBack; fits.zig:746-762,
\* 826-842).
THEOREM HandleReplaceRollsBack == Spec => []ReplaceRollsBack
<1>1. Init => ReplaceInv
  BY GoodInit, ReplaceInit DEF ReplaceInv
<1>2. ReplaceInv /\ [Next]_vars => ReplaceInv'
  <2>1. ASSUME ReplaceInv, Next PROVE ReplaceInv'
    <3>1. Good /\ ReplaceOK
      BY <2>1, StuckStays DEF ReplaceInv
    <3>2. Stuck' \/ Good'
      BY <2>1, <3>1, HandleStep DEF HandleInv
    <3>3. ReplaceOK'
      BY <2>1, <3>1, ReplaceNext
    <3> QED BY <3>2, <3>3 DEF ReplaceInv
  <2>2. ASSUME ReplaceInv, UNCHANGED vars PROVE ReplaceInv'
    <3>1. CASE Stuck
      BY <2>2, <3>1, StuckStutters DEF ReplaceInv
    <3>2. CASE Good /\ ReplaceOK
      <4>1. Stuck' \/ Good'
        BY <2>2, <3>2, GoodStutters DEF HandleInv
      <4>2. job' = job /\ dev' = dev /\ sh' = sh
        BY <2>2 DEF vars
      <4>3. ReplaceOK'
        BY <3>2, <4>2, ReplaceQuietJob
      <4> QED BY <4>1, <4>3 DEF ReplaceInv
    <3> QED BY <2>2, <3>1, <3>2 DEF ReplaceInv
  <2> QED BY <2>1, <2>2
<1>3. ReplaceInv => ReplaceRollsBack
  BY ReplaceIsBack
<1> QED BY <1>1, <1>2, <1>3, PTL DEF Spec
=============================================================================
