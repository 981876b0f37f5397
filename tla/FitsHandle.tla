----------------------------- MODULE FitsHandle ------------------------------
(***************************************************************************)
(* A file handle (src/fits.zig, `Fits`) editing the HDUs of one file.       *)
(*                                                                          *)
(* A handle is single-threaded and synchronous: it runs one public call at  *)
(* a time.  What makes it hard is that a call is many device calls, any of  *)
(* which can fail and leave part of its cells stored, and that the handle   *)
(* keeps three views of one file that must not drift apart: the bytes on    *)
(* the device, the list of HDUs with their offsets, and the read window.    *)
(*                                                                          *)
(* A public call is a `job`.  It first scans the HDUs it needs, is then     *)
(* planned - the checks and early returns of the code, and the sequence of  *)
(* device calls and memory updates it is about to make - and is carried out *)
(* one step at a time.  When a step fails, the `errdefer` rollback that is  *)
(* armed at that point (`undo`) runs instead, ignoring its own failures as  *)
(* the code's `catch {}` do.  Every step of a shift is a step of TailShift. *)
(*                                                                          *)
(* Bytes are cells: a card is one cell, a block is Block cells, a header    *)
(* card is <<name, k>> for the k-th card of a header of that name.          *)
(***************************************************************************)
EXTENDS Device, Sequences, FiniteSets

CONSTANTS
    Block,          \* BLOCK, in cells
    Chunk,          \* CHUNK, the staging buffer of a shift
    Window,         \* the cells the block reader caches
    Hdr,            \* the headers there are: name |-> [ext, ascii, cards, bytes]
    Malformed,      \* names of headers with an XTENSION card that do not parse
    Space,          \* the cell of ASCII spaces
    Value,          \* what a caller writes into a data unit
    InitDevices,    \* the files a handle may open (or the empty file it creates)
    MaxHduCount,    \* limits.max_hdu_count
    MaxSize,        \* bound: no call grows the device past this size
    MaxEdits,       \* bound: how many editing calls a behaviour makes
    MaxFaults       \* bound: how many calls into the system fail

\* BLOCK and CHUNK are positive, a header has at least its END card, and limits.zig allows one
\* HDU at least; a file is any device of cells.
ASSUME HandleAssumption ==
    /\ {Block, Chunk, Window, MaxHduCount} \subseteq Nat \ {0}
    /\ Hdr \in [DOMAIN Hdr -> [ext : BOOLEAN, ascii : BOOLEAN, cards : Nat \ {0}, bytes : Nat]]
    /\ \A h \in DOMAIN Hdr : \A k \in 0 .. Hdr[h].cards - 1 : <<h, k>> \in Cell
    /\ Space \in Cell /\ Value \subseteq Cell
    /\ \A d \in InitDevices : IsDevice(d)
    /\ {MaxSize, MaxEdits, MaxFaults} \subseteq Nat

VARIABLES
    dev,        \* the device
    sh,         \* the shift under way (TailShift)
    faults,     \* how many device calls or allocations have failed
    hdus,       \* `hdus`: the registered HDUs
    chdu,       \* `chdu`: the current HDU, from 0
    scanOff,    \* `scan_off`: where the next unscanned HDU begins
    full,       \* `fully_scanned`
    win,        \* the read window of `reader`
    job,        \* the public call under way
    edits,      \* how many editing calls were made
    damaged     \* history: a failed call left the file changed

vars == <<dev, sh, faults, hdus, chdu, scanOff, full, win, job, edits, damaged>>
mem  == <<hdus, chdu, scanOff, full>>

Shift == INSTANCE TailShift

Name == DOMAIN Hdr

-----------------------------------------------------------------------------
(* Geometry (io/block.zig, hdu.zig).                                        *)

RoundUp(n) == ((n + Block - 1) \div Block) * Block

HdrSize(h)  == RoundUp(Hdr[h].cards)
DataSize(n) == RoundUp(n)

\* The pad of a header unit is spaces; `dataFillByte` is the pad of a data unit.
\* (FillCellZero, and other definitions said to be mutants, are bugs the runs
\* can be asked to find: PROJECT.json names the definition each one replaces.)
HeaderCells(h) ==
    [k \in 0 .. HdrSize(h) - 1 |-> IF k < Hdr[h].cards THEN <<h, k>> ELSE Space]
FillCellZero(h) == Zero
FillCell(h) == IF Hdr[h].ascii THEN Space ELSE Zero

\* Hdu.init: the offsets of an HDU whose header `h` starts at `off`.
NewHdu(h, off) ==
    [name |-> h, hoff |-> off, doff |-> off + HdrSize(h), bytes |-> Hdr[h].bytes]
NextOff(u) == u.doff + DataSize(u.bytes)

\* The cells an HDU takes on the device.
SpanOneBlockMore(u) == NextOff(u) - u.hoff + Block
Span(u) == NextOff(u) - u.hoff

\* `shiftFollowing`: the offsets of every HDU after number n move by delta.
\* The mutant forgets the data units.
FollowingHeaders(us, n, delta) ==
    [i \in 1 .. Len(us) |->
        IF i > n THEN [us[i] EXCEPT !.hoff = @ + delta] ELSE us[i]]
Following(us, n, delta) ==
    [i \in 1 .. Len(us) |->
        IF i > n THEN [us[i] EXCEPT !.hoff = @ + delta, !.doff = @ + delta]
                 ELSE us[i]]

-----------------------------------------------------------------------------
(* The block reader: cards are read through a cached window, which is       *)
(* reloaded, block aligned, at the first card it does not hold.             *)

NoWindow == [off |-> 0, size |-> 0, at |-> <<>>]

Cached(off) == win.off <= off /\ off < win.off + win.size

\* What a parse that starts at `start` sees at offset i >= start.
Seen(start, i) == IF Cached(start) /\ i < win.off + win.size THEN win.at[i]
                                                              ELSE dev.at[i]

LoadedAt(off) ==
    LET al == off - (off % Block)
        n  == Smaller(Window, dev.size - al)
    IN  [off |-> al, size |-> n, at |-> [i \in al .. al + n - 1 |-> dev.at[i]]]

\* The window after the cards [start, start + n) have been read.
WindowAfter(start, n) ==
    IF Cached(start)
    THEN IF start + n <= win.off + win.size \/ win.off + win.size >= dev.size
         THEN win ELSE LoadedAt(win.off + win.size)
    ELSE LoadedAt(start)

\* Header.parse and Hdu.init at `off`: the name of the well-formed extension
\* header that is seen there; none when it does not parse.
ParsedAt(off) ==
    {h \in Name : /\ Hdr[h].ext
                  /\ off + Hdr[h].cards <= dev.size
                  /\ \A k \in 0 .. Hdr[h].cards - 1 : Seen(off, off + k) = <<h, k>>}

\* The signature read that tells an extension from special records (3.5): it
\* goes to the device, not through the window.
Xtension(cell) ==
    cell[2] = 0 /\ cell[1] \in Malformed \cup {h \in Name : Hdr[h].ext}

-----------------------------------------------------------------------------
(* Jobs.                                                                    *)

NoJob == [pc |-> "idle"]

\* A device call or a memory update a job is about to make.
\*   write  writeAll of n cells at off (a fill or a copy loop is one write: its
\*          reads and its writes do not overlap)
\*   size   setSize
\*   shift  shiftTailImpl; once complete, `back` joins the rollback
\*   arm    from here on a failure runs the rollback `undo`
\*   alloc  an allocation; fresh: reinitReader, which allocates the new window
\*   swap   a window allocated beforehand takes the place of the old one
\*   unload reader.loaded = false
\*   need   an error when the condition, evaluated then, is false
\*   adopt  Header.parse, Hdu.init and registration of the HDU at off
\*   keep   the memory updates; `last` when the file now is what was asked for
WriteCall(off, n, cells) ==
    IF n = 0 THEN <<>> ELSE <<[k |-> "write", off |-> off, n |-> n, cells |-> cells]>>
FillCall(off, n, v) == WriteCall(off, n, [i \in 0 .. n - 1 |-> v])
SizeCall(n) == <<[k |-> "size", n |-> n]>>
ArmCall(undo) == <<[k |-> "arm", undo |-> undo]>>
NeedCall(n) == <<[k |-> "need", n |-> n]>>
CheckCall(valid) == IF valid THEN <<[k |-> "alloc"]>> ELSE <<[k |-> "invalid"]>>
AdoptCall(off) == <<[k |-> "adopt", off |-> off]>>
KeepCall(us, cur, scan, last) ==
    <<[k |-> "keep", us |-> us, cur |-> cur, scan |-> scan, last |-> last]>>
Call(k) == <<[k |-> k]>>

\* A shift that is not undone, and one whose reverse the code runs when a later
\* step fails.  A delta of zero moves nothing.
OneWay(from, delta, zero) ==
    IF delta = 0 THEN <<>>
    ELSE <<[k |-> "shift", from |-> from, delta |-> delta, zero |-> zero, back |-> <<>>]>>
ReversibleNot(from, delta) == OneWay(from, delta, FALSE)
Reversible(from, delta) ==
    IF delta = 0 THEN <<>>
    ELSE <<[k |-> "shift", from |-> from, delta |-> delta, zero |-> FALSE,
            back |-> OneWay(from + delta, -delta, FALSE)]>>

\* The two ways to commit a new header: the code touches the memory only after
\* the last device call.
Commit(write, keep) == write \o Call("swap") \o keep

\* A call that has begun.  was, hdus, ... are the state at entry; torn records
\* that a shift or the rollback was cut short, ok that the file is what was
\* asked for.
NewJob(op, want) ==
    [pc |-> "scan", op |-> op, want |-> want, todo |-> <<>>, undo |-> <<>>,
     was |-> dev, hdus |-> hdus, scanOff |-> scanOff, full |-> full, chdu |-> chdu,
     torn |-> FALSE, ok |-> FALSE]

Plan(todo, undo) == job' = [job EXCEPT !.pc = "run", !.todo = todo, !.undo = undo]

\* An error return; whatever rollback is armed runs first.
Fail == job' = [job EXCEPT !.pc = "undo", !.todo = <<>>]

Fallible == faults < MaxFaults /\ faults' = faults + 1

-----------------------------------------------------------------------------
(* open and create.                                                         *)

FirstHeader(d) ==
    {h \in Name : /\ ~Hdr[h].ext /\ Hdr[h].cards <= d.size
                  /\ \A k \in 0 .. Hdr[h].cards - 1 : d.at[k] = <<h, k>>}

\* `open` parses the first HDU and leaves the rest for later; `create` starts
\* with an empty, fully scanned file.
Opened(d) ==
    IF d.size = 0
    THEN {[hdus |-> <<>>, scanOff |-> 0, full |-> TRUE, win |-> NoWindow]}
    ELSE LET n == Smaller(Window, d.size)
             first == [off |-> 0, size |-> n, at |-> [i \in 0 .. n - 1 |-> d.at[i]]]
         IN  {[hdus |-> <<NewHdu(h, 0)>>, scanOff |-> NextOff(NewHdu(h, 0)),
               full |-> NextOff(NewHdu(h, 0)) >= d.size, win |-> first] :
                 h \in FirstHeader(d)}

Init ==
    /\ dev \in InitDevices
    /\ \E o \in Opened(dev) : /\ hdus = o.hdus /\ scanOff = o.scanOff
                             /\ full = o.full /\ win = o.win
    /\ chdu = 0
    /\ sh = Shift!NoShift /\ job = NoJob
    /\ faults = 0 /\ edits = 0 /\ damaged = FALSE

\* The handle is closed (`deinit`) and the file opened again.
Reopen ==
    /\ job.pc = "idle" /\ ~damaged /\ edits < MaxEdits
    /\ dev.size >= Block
    /\ \E o \in Opened(dev) : /\ hdus' = o.hdus /\ scanOff' = o.scanOff
                             /\ full' = o.full /\ win' = o.win
    /\ chdu' = 0
    /\ edits' = edits + 1
    /\ UNCHANGED <<dev, sh, faults, job, damaged>>

-----------------------------------------------------------------------------
(* The calls.  An HDU is named by its number, or by a pointer to one that   *)
(* is registered.                                                           *)

Begin(op, want) ==
    /\ job.pc = "idle"
    /\ job' = NewJob(op, want)
    /\ UNCHANGED <<dev, sh, faults, mem, win, damaged>>

BeginEdit(op) ==
    /\ ~damaged /\ edits < MaxEdits
    /\ Begin(op, MaxHduCount + 1)
    /\ edits' = edits + 1

SelectHdu(n) == Begin([op |-> "select", n |-> n], n) /\ UNCHANGED edits
AppendHdu(h) == BeginEdit([op |-> "append", name |-> h])
CopyHdu(n)   == BeginEdit([op |-> "copy", n |-> n])
DeleteHdu(n) == BeginEdit([op |-> "delete", n |-> n])

\* The headers h an HDU may be given: of its kind; of its geometry too for
\* replaceHeaderInPlace, whose callers reject other edits; with as many cards
\* for a change of the row count, which updates NAXIS2 in place.
SameKind(n, h) ==
    Hdr[h].ext = Hdr[hdus[n].name].ext /\ Hdr[h].ascii = Hdr[hdus[n].name].ascii
Replace(n, h) ==
    /\ SameKind(n, h) /\ Hdr[h].bytes = hdus[n].bytes
    /\ BeginEdit([op |-> "header", n |-> n, name |-> h])
Restructure(n, h) ==
    /\ SameKind(n, h)
    /\ BeginEdit([op |-> "structure", n |-> n, name |-> h])
Rows(n, h) ==
    /\ SameKind(n, h) /\ Hdr[h].ext /\ ~Hdr[h].ascii
    /\ Hdr[h].cards = Hdr[hdus[n].name].cards /\ Hdr[h].bytes # hdus[n].bytes
    /\ BeginEdit([op |-> "rows", n |-> n, name |-> h])

\* The typed views write the data unit in place, without the handle.
WriteData(n, k, v) ==
    /\ job.pc = "idle" /\ ~damaged /\ edits < MaxEdits
    /\ k < hdus[n].bytes
    /\ dev' = Written(dev, hdus[n].doff + k, 1, [i \in {0} |-> v])
    /\ edits' = edits + 1
    /\ UNCHANGED <<sh, faults, mem, win, job, damaged>>

-----------------------------------------------------------------------------
(* Scanning (scanOne, ensureScanned).                                       *)

Scanning == job.pc = "scan" /\ ~full /\ Len(hdus) < job.want

AtEnd == scanOff >= dev.size \/ ~Xtension(dev.at[scanOff])

\* End of the file, or special records after the last HDU.
ScanEnd ==
    /\ Scanning /\ AtEnd
    /\ full' = TRUE
    /\ UNCHANGED <<dev, sh, faults, hdus, chdu, scanOff, win, job, edits, damaged>>

ScanHdu ==
    /\ Scanning /\ ~AtEnd /\ Len(hdus) < MaxHduCount
    /\ \E h \in ParsedAt(scanOff) :
          /\ hdus' = Append(hdus, NewHdu(h, scanOff))
          /\ scanOff' = NextOff(NewHdu(h, scanOff))
          /\ full' = (scanOff' >= dev.size)
          /\ win' = WindowAfter(scanOff, Hdr[h].cards)
    /\ UNCHANGED <<dev, sh, faults, chdu, job, edits, damaged>>

\* A header that does not parse, or too many HDUs: the call fails.
ScanError ==
    /\ Scanning /\ ~AtEnd
    /\ ParsedAt(scanOff) = {} \/ Len(hdus) >= MaxHduCount
    /\ win' = WindowAfter(scanOff, 1)
    /\ Fail
    /\ UNCHANGED <<dev, sh, faults, mem, edits, damaged>>

\* A read or an allocation fails while scanning or preparing.
PrepareFails ==
    /\ job.pc = "scan" /\ Fallible
    /\ Fail
    /\ UNCHANGED <<dev, sh, mem, win, edits, damaged>>

-----------------------------------------------------------------------------
(* Planning: the checks of each call, and the steps that follow.            *)

Scanned(op) == job.pc = "scan" /\ (full \/ Len(hdus) >= job.want) /\ job.op.op = op

Planning == UNCHANGED <<dev, sh, faults, mem, win, edits, damaged>>

PlanSelect ==
    /\ Scanned("select")
    /\ job' = NoJob
    /\ chdu' = IF job.op.n \in 1 .. Len(hdus) THEN job.op.n - 1 ELSE chdu
    /\ UNCHANGED <<dev, sh, faults, hdus, scanOff, full, win, edits, damaged>>

\* Special records after the last HDU would be overwritten by a new one.
SpecialRecords == dev.size > scanOff

\* The device size appendHdu and copyHdu restore when a later step fails.
AddUndoNone == <<>>
AddUndo == SizeCall(dev.size)

PlanAppend ==
    /\ Scanned("append") /\ Planning
    /\ LET h == job.op.name
           u == NewHdu(h, scanOff)
           end == NextOff(u)
       IN  IF SpecialRecords \/ end > MaxSize THEN Fail
           ELSE Plan(
              WriteCall(scanOff, HdrSize(h), HeaderCells(h))
              \o CheckCall(Hdr[h].ext = (hdus # <<>>))
              \o (IF end > Larger(dev.size, u.doff) THEN SizeCall(end) ELSE <<>>)
              \o (IF Hdr[h].ascii THEN FillCall(u.doff, DataSize(u.bytes), Space)
                                  ELSE <<>>)
              \o Call("alloc") \o KeepCall(Append(hdus, u), Len(hdus), end, TRUE),
              AddUndo)

PlanCopy ==
    /\ Scanned("copy") /\ Planning
    /\ IF SpecialRecords \/ job.op.n \notin 2 .. Len(hdus) THEN Fail
       ELSE LET u == hdus[job.op.n]
                len == Span(u)
                end == scanOff + len
            IN  IF end > MaxSize THEN Fail
                ELSE Plan(
                   (IF end > dev.size THEN SizeCall(end) ELSE <<>>)
                   \o WriteCall(scanOff, len,
                                Slice(Resized(dev, Larger(dev.size, end)), u.hoff, len))
                   \o Call("fresh") \o AdoptCall(scanOff),
                   AddUndo)

\* `if (chdu > n - 1) chdu -= 1`, then the last HDU if there is none there.
CurrentAfterDeleteLoose(n) == IF chdu > n - 1 THEN chdu - 1 ELSE chdu
CurrentAfterDelete(n) ==
    LET c == IF chdu > n - 1 THEN chdu - 1 ELSE chdu
    IN  IF c >= Len(hdus) - 1 THEN Len(hdus) - 2 ELSE c

PlanDelete ==
    /\ Scanned("delete") /\ Planning
    /\ IF job.op.n \notin 2 .. Len(hdus) THEN Fail
       ELSE LET n == job.op.n
                u == hdus[n]
                total == Span(u)
                us == Following(hdus, n, -total)
            IN  Plan(OneWay(NextOff(u), -total, TRUE)
                     \o KeepCall(SubSeq(us, 1, n - 1) \o SubSeq(us, n + 1, Len(us)),
                                 CurrentAfterDelete(n), scanOff - total, TRUE)
                     \o Call("fresh"),
                     <<>>)

\* resizeHduData: the data unit of HDU n gets room for `bytes`; everything from
\* the last cell kept to the padded end is filled.
KeptBytes(u, bytes) == Smaller(u.bytes, bytes)
ResizeCalls(n, bytes) ==
    LET u == hdus[n]
        delta == DataSize(bytes) - DataSize(u.bytes)
        kept == KeptBytes(u, bytes)
    IN  OneWay(NextOff(u), delta, TRUE)
        \o KeepCall([Following(hdus, n, delta) EXCEPT ![n].bytes = bytes],
                    chdu, scanOff + delta, FALSE)
        \o FillCall(u.doff + kept, DataSize(bytes) - kept, FillCell(u.name))
        \o Call("fresh")

\* BinTable.appendRows, and deleteRows of the last rows, of a table without a
\* heap: resizeHduData, zeros in the new rows, NAXIS2 in the in-memory header,
\* then rewriteHeaderInPlace of a header with as many cards.
PlanRows ==
    /\ Scanned("rows") /\ Planning
    /\ LET n == job.op.n
           u == hdus[n]
           bytes == Hdr[job.op.name].bytes
           delta == DataSize(bytes) - DataSize(u.bytes)
           us == [Following(hdus, n, delta) EXCEPT ![n].bytes = bytes,
                                                  ![n].name = job.op.name]
       IN  IF dev.size + delta > MaxSize THEN Fail
           ELSE Plan(
              ResizeCalls(n, bytes)
              \o FillCall(u.doff + u.bytes, Larger(bytes - u.bytes, 0), Zero)
              \o KeepCall(us, chdu, scanOff + delta, FALSE)
              \o NeedCall(u.doff + DataSize(bytes)) \o Call("alloc")
              \o ArmCall(WriteCall(u.hoff, HdrSize(u.name), HeaderCells(u.name))
                         \o SizeCall(dev.size + delta) \o Call("unload"))
              \o FillCall(u.doff + bytes, DataSize(bytes) - bytes, FillCell(u.name))
              \o WriteCall(u.hoff, HdrSize(job.op.name), HeaderCells(job.op.name))
              \o Call("swap") \o KeepCall(us, chdu, scanOff + delta, TRUE),
              <<>>)

\* replaceHeaderInPlace: the header unit alone, with a change of its blocks.
PlanHeader ==
    /\ Scanned("header") /\ Planning
    /\ LET n == job.op.n
           u == hdus[n]
           h == job.op.name
           old == u.doff - u.hoff
           delta == HdrSize(h) - old
       IN  IF ~Readable(dev, u.hoff, old) \/ dev.size + delta > MaxSize THEN Fail
           ELSE Plan(
              Reversible(u.doff, delta)
              \o Commit(WriteCall(u.hoff, HdrSize(h), HeaderCells(h)),
                        KeepCall([Following(hdus, n, delta) EXCEPT
                                     ![n].name = h, ![n].doff = @ + delta],
                                 chdu, scanOff + delta, TRUE)),
              WriteCall(u.hoff, old, Slice(dev, u.hoff, old)) \o SizeCall(dev.size))

\* The rollback of a structural replacement, after its shifts are reversed.
StructureUndoStale(u) ==
    WriteCall(u.hoff, u.doff - u.hoff, Slice(dev, u.hoff, u.doff - u.hoff))
    \o SizeCall(dev.size)
StructureUndo(u) ==
    WriteCall(u.hoff, u.doff - u.hoff, Slice(dev, u.hoff, u.doff - u.hoff))
    \o SizeCall(dev.size) \o Call("unload")

\* replaceStructuralHeaderInPlace: the header unit and the data unit.
PlanStructure ==
    /\ Scanned("structure") /\ Planning
    /\ LET n == job.op.n
           u == hdus[n]
           h == job.op.name
           old == u.doff - u.hoff
           bytes == Hdr[h].bytes
           kept == KeptBytes(u, bytes)
           hdelta == HdrSize(h) - old
           ddelta == DataSize(bytes) - DataSize(u.bytes)
           doff == u.hoff + HdrSize(h)
       IN  IF \/ NextOff(u) > dev.size
              \/ dev.size + Larger(hdelta, 0) + Larger(ddelta, 0) > MaxSize
           THEN Fail
           ELSE Plan(
              Reversible(u.doff, hdelta)
              \o Reversible(doff + DataSize(u.bytes), ddelta)
              \o FillCall(doff + kept, DataSize(bytes) - kept, FillCell(u.name))
              \o Commit(WriteCall(u.hoff, HdrSize(h), HeaderCells(h)),
                        KeepCall([Following(hdus, n, hdelta + ddelta) EXCEPT
                                     ![n].name = h, ![n].doff = doff,
                                     ![n].bytes = bytes],
                                 chdu, scanOff + hdelta + ddelta, TRUE)),
              StructureUndo(u))

PlanEdit == \/ PlanAppend \/ PlanCopy \/ PlanDelete \/ PlanRows
            \/ PlanHeader \/ PlanStructure

-----------------------------------------------------------------------------
(* Carrying a job out.                                                      *)

Queue == CASE job.pc = "run" -> job.todo [] job.pc = "undo" -> job.undo [] OTHER -> <<>>
Pending(kinds) == Queue # <<>> /\ Head(Queue).k \in kinds

Popped == IF job.pc = "run" THEN [job EXCEPT !.todo = Tail(@)]
                            ELSE [job EXCEPT !.undo = Tail(@)]

\* A step that fails: a call gives up, a rollback carries on with its next step.
GiveUp == IF job.pc = "run" THEN [job EXCEPT !.pc = "undo", !.todo = <<>>]
                            ELSE [Popped EXCEPT !.torn = TRUE]

\* setSize or writeAll.
DeviceCall ==
    /\ Pending({"write", "size"})
    /\ LET c == Head(Queue)
       IN  dev' = IF c.k = "size" THEN Resized(dev, c.n)
                                  ELSE Written(dev, c.off, c.n, c.cells)
    /\ job' = Popped
    /\ UNCHANGED <<sh, faults, mem, win, edits, damaged>>

\* It fails: a setSize changes nothing, a write may have stored some cells.
DeviceFails ==
    /\ Pending({"write", "size"}) /\ Fallible
    /\ LET c == Head(Queue)
       IN  IF c.k = "size" THEN dev' = dev
           ELSE \E k \in 0 .. c.n - 1 : dev' = Written(dev, c.off, k, c.cells)
    /\ job' = GiveUp
    /\ UNCHANGED <<sh, mem, win, edits, damaged>>

ShiftBegin ==
    /\ Pending({"shift"})
    /\ LET c == Head(Queue)
       IN  \/ Shift!GrowStart(c.from, c.delta, c.zero)
           \/ Shift!ShrinkStart(c.from, c.delta, c.zero)
           \/ Shift!GrowStartFails(c.from, c.delta, c.zero)
    /\ UNCHANGED <<mem, win, job, edits, damaged>>

ShiftGoesOn ==
    /\ Shift!ShiftStep \/ Shift!ShiftFault
    /\ UNCHANGED <<mem, win, job, edits, damaged>>

ShiftEnds ==
    /\ Shift!ShiftReturn
    /\ job' = IF sh.pc = "failed" THEN [GiveUp EXCEPT !.torn = TRUE]
              ELSE IF job.pc = "run" THEN [Popped EXCEPT !.undo = Head(job.todo).back \o @]
              ELSE Popped
    /\ UNCHANGED <<mem, win, edits, damaged>>

Adopt ==
    /\ Pending({"adopt"})
    /\ LET off == Head(Queue).off
       IN  \/ \E h \in ParsedAt(off) :
                 /\ hdus' = Append(hdus, NewHdu(h, off))
                 /\ chdu' = Len(hdus)
                 /\ scanOff' = NextOff(NewHdu(h, off))
                 /\ full' = TRUE
                 /\ win' = WindowAfter(off, Hdr[h].cards)
                 /\ job' = [Popped EXCEPT !.ok = TRUE]
           \/ /\ ParsedAt(off) = {}
              /\ win' = WindowAfter(off, 1)
              /\ Fail /\ UNCHANGED mem
    /\ UNCHANGED <<dev, sh, faults, edits, damaged>>

Keep ==
    /\ Pending({"keep"})
    /\ LET c == Head(Queue)
       IN  /\ hdus' = c.us /\ chdu' = c.cur /\ scanOff' = c.scan
           /\ full' = TRUE
           /\ job' = [Popped EXCEPT !.ok = @ \/ c.last]
    /\ UNCHANGED <<dev, sh, faults, win, edits, damaged>>

\* The steps that change the read window, the rollback, or nothing.
Step ==
    /\ Pending({"fresh", "swap", "unload", "arm", "alloc"})
    /\ LET c == Head(Queue)
       IN  /\ win' = IF c.k \in {"fresh", "swap", "unload"} THEN NoWindow ELSE win
           /\ job' = IF c.k = "arm" THEN [Popped EXCEPT !.undo = c.undo] ELSE Popped
    /\ UNCHANGED <<dev, sh, faults, mem, edits, damaged>>

\* A header that is not valid where it stands; a device that is too short.
Rejects ==
    /\ Pending({"invalid", "need"})
    /\ LET c == Head(Queue)
       IN  job' = IF c.k = "need" /\ c.n <= dev.size THEN Popped ELSE GiveUp
    /\ UNCHANGED <<dev, sh, faults, mem, win, edits, damaged>>

\* An allocation, a read or a parse fails.
StepFails ==
    /\ Pending({"fresh", "alloc", "adopt"}) /\ Fallible
    /\ job' = GiveUp
    /\ UNCHANGED <<dev, sh, mem, win, edits, damaged>>

Return ==
    /\ job.pc = "run" /\ job.todo = <<>>
    /\ job' = NoJob
    /\ UNCHANGED <<dev, sh, faults, mem, win, edits, damaged>>

\* The error return.  replaceStructuralHeaderInPlace also takes back the HDUs
\* it scanned.  `damaged` is what an observer with a copy of the file sees.
Unscans(op) == op = "structure"
ReturnError ==
    /\ job.pc = "undo" /\ job.undo = <<>>
    /\ job' = NoJob
    /\ IF Unscans(job.op.op)
       THEN hdus' = SubSeq(hdus, 1, Len(job.hdus)) /\ scanOff' = job.scanOff
            /\ full' = job.full
       ELSE UNCHANGED <<hdus, scanOff, full>>
    /\ damaged' = (damaged \/ (~job.ok /\
                     (dev # job.was \/ SubSeq(hdus, 1, Len(job.hdus)) # job.hdus)))
    /\ UNCHANGED <<dev, sh, faults, chdu, win, edits>>

-----------------------------------------------------------------------------
CallBegins ==
    \/ Reopen
    \/ \E n \in 1 .. MaxHduCount + 1 : SelectHdu(n)
    \/ \E h \in Name : AppendHdu(h)
    \/ \E n \in 1 .. Len(hdus) + 1 : CopyHdu(n) \/ DeleteHdu(n)
    \/ \E n \in 1 .. Len(hdus), h \in Name :
          Replace(n, h) \/ Restructure(n, h) \/ Rows(n, h)
    \/ \E n \in 1 .. Len(hdus), v \in Value, k \in 0 .. MaxSize : WriteData(n, k, v)

CallGoesOn ==
    \/ ScanEnd \/ ScanHdu \/ ScanError
    \/ PlanSelect \/ PlanEdit
    \/ DeviceCall \/ ShiftBegin \/ ShiftGoesOn \/ ShiftEnds
    \/ Adopt \/ Keep \/ Step \/ Rejects
    \/ Return \/ ReturnError

CallFails == PrepareFails \/ DeviceFails \/ StepFails

Next == CallBegins \/ CallGoesOn \/ CallFails

\* A call that has begun runs to its end: the code is synchronous.
Spec == Init /\ [][Next]_vars /\ WF_vars(CallGoesOn)

-----------------------------------------------------------------------------
(* What is on the device, read without the handle: the chain of HDUs, each  *)
(* found where the one before it ends.                                      *)

HeaderOnDisk(d, off) ==
    /\ off < d.size
    /\ LET h == d.at[off][1]
       IN  /\ h \in Name /\ Hdr[h].ext = (off > 0)
           /\ NextOff(NewHdu(h, off)) <= d.size
           /\ \A k \in 0 .. Hdr[h].cards - 1 : d.at[off + k] = <<h, k>>

Chain(d) ==
    LET from[off \in 0 .. d.size] ==
          IF HeaderOnDisk(d, off)
          THEN LET u == NewHdu(d.at[off][1], off) IN <<u>> \o from[NextOff(u)]
          ELSE <<>>
    IN  from[0]

ChainEnd(us) == IF us = <<>> THEN 0 ELSE NextOff(us[Len(us)])

\* The same, and what follows it, by content instead of by place.
FileOf(d) ==
    LET us == Chain(d)
    IN  [i \in 1 .. Len(us) |->
            [hdr  |-> us[i].name,
             data |-> [k \in 0 .. us[i].bytes - 1 |-> d.at[us[i].doff + k]]]]

TailOf(d) == LET end == ChainEnd(Chain(d)) IN Slice(d, end, d.size - end)

-----------------------------------------------------------------------------
(* Properties.                                                              *)

Idle == job.pc = "idle"
Sound == Idle /\ ~damaged

TypeOK ==
    /\ IsDevice(dev) /\ faults \in 0 .. MaxFaults /\ edits \in 0 .. MaxEdits
    /\ \A i \in 1 .. Len(hdus) :
          /\ hdus[i].name \in Name
          /\ hdus[i].hoff \in Nat /\ hdus[i].doff \in Nat /\ hdus[i].bytes \in Nat
    /\ chdu \in Nat /\ scanOff \in Nat /\ full \in BOOLEAN /\ damaged \in BOOLEAN
    /\ job.pc \in {"idle", "scan", "run", "undo"}
    /\ sh.pc # "idle" => Pending({"shift"})

\* Between calls the HDUs the handle has registered, their names, offsets and
\* sizes, are the ones a reader of the bytes finds, and `scan_off` is the end
\* of the last of them (fits.zig:555-566, 581-605, 755-783, 861-883).
ListMatchesDisk ==
    Sound => LET us == Chain(dev)
             IN  /\ Len(hdus) <= Len(us) /\ hdus = SubSeq(us, 1, Len(hdus))
                 /\ scanOff = ChainEnd(hdus)
                 /\ full => Len(hdus) = Len(us)
                 /\ chdu < Len(hdus) \/ hdus = <<>>

PadOf(h) == IF Hdr[h].ascii THEN Space ELSE Zero

\* Between calls the pad of every unit is what FITS asks for: spaces after the
\* last card and after an ASCII table, zeros after other data (fits.zig:549-553).
PaddingClean ==
    Sound =>
      LET us == Chain(dev)
      IN  \A u \in {us[i] : i \in 1 .. Len(us)} :
            /\ \A k \in 0 .. HdrSize(u.name) - 1 :
                  dev.at[u.hoff + k] = HeaderCells(u.name)[k]
            /\ \A k \in u.bytes .. DataSize(u.bytes) - 1 :
                  dev.at[u.doff + k] = PadOf(u.name)

\* A scan never reads the window where it is out of date: what the reader holds
\* beyond `scan_off` is on the device, in every state a call can start from,
\* also after a failed call (fits.zig:568-574, 746-754).
WindowFresh ==
    Idle /\ ~full => \A i \in scanOff .. win.off + win.size - 1 :
                        win.off <= i => i < dev.size /\ win.at[i] = dev.at[i]

\* No step of a call, failed steps and rollbacks included, changes a cell of an
\* HDU before the one the call edits, or of any HDU when the call adds one
\* (fits.zig:484-531, 682-946).
FirstEdited ==
    IF job.op.op \in {"append", "copy"} THEN Smaller(job.scanOff, job.was.size)
    ELSE IF job.op.op = "select" THEN job.was.size
    ELSE IF job.op.n \in 1 .. Len(job.hdus) THEN job.hdus[job.op.n].hoff ELSE 0
PriorHdusUntouched ==
    ~Idle => \A i \in 0 .. FirstEdited - 1 :
                i < dev.size /\ dev.at[i] = job.was.at[i]

\* An append or a copy that fails, at any step and for any reason, leaves the
\* device byte for byte and the HDU list as it found them, as long as the
\* rollback itself is not hit (fits.zig:388-403, 909-912).
Failing(ops) == job.pc = "undo" /\ job.undo = <<>> /\ job.op.op \in ops
AddingIsAtomic ==
    Failing({"append", "copy"}) /\ ~job.torn =>
        dev = job.was /\ SubSeq(hdus, 1, Len(job.hdus)) = job.hdus /\ chdu = job.chdu

\* A header replacement that fails with its shifts complete puts every cell
\* back, except cells of the edited data unit that the new geometry does not
\* keep; so no other HDU is lost (fits.zig:746-762, 826-842).
ReplaceRollsBack ==
    Failing({"header", "structure"}) /\ ~job.torn =>
        LET n == job.op.n
            u == job.hdus[n]
            kept == KeptBytes(u, Hdr[job.op.name].bytes)
        IN  /\ dev.size = job.was.size
            /\ \A i \in 0 .. dev.size - 1 :
                  i \notin u.doff + kept .. NextOff(u) - 1 => dev.at[i] = job.was.at[i]

\* The handle implements the abstract file: every call is one step of it.
File == INSTANCE FitsFile WITH
    file <- IF damaged THEN <<>> ELSE FileOf(IF Idle THEN dev ELSE job.was),
    tail <- IF damaged THEN <<>> ELSE TailOf(IF Idle THEN dev ELSE job.was),
    cur  <- IF damaged THEN 0 ELSE IF Idle THEN chdu ELSE job.chdu,
    ok   <- ~damaged
ImplementsFile == File!Spec
=============================================================================
