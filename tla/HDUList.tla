------------------------------- MODULE HDUList -------------------------------
(***************************************************************************)
(* The HDUList of the Python binding (bindings/python/src/zigfitsio/core.py) *)
(* over one open native handle: the list the program edits, the header edits *)
(* that go through to the file at once, and flush, which makes the file's    *)
(* layout match the list (_reconcile), writes back the data edited in memory *)
(* and syncs.  writeto takes the file's bytes or rebuilds them (Written).    *)
(*                                                                           *)
(* Of the file this module keeps one slot per HDU: whose header and whose    *)
(* data it holds, which objects' edits have gone into the header, and the    *)
(* revision of the native header.  What a call of the library does to the    *)
(* bytes is the subject of FitsHandle; here it happens, or it fails.         *)
(***************************************************************************)
EXTENDS Naturals, Sequences, FiniteSets, SequencesExt

CONSTANTS
    Obj,            \* the HDU objects of the program
    Opened,         \* those of the file when it is opened, in order
    Compressed,     \* those that are CompImageHDUs
    Options,        \* what open may be called with: [mode, sums]
    FailAt,         \* the library calls that may fail
    None,           \* Python's None, and _UNSET
    Reuse,          \* whether the program goes on using an HDU it has removed
    Retry,          \* whether it goes on after a flush that failed while it deleted
    MaxOps,         \* bound: calls of the program
    MaxFaults       \* bound: library calls that fail

Calls == {"copy", "create", "fill", "undo", "delete", "deleted", "write", "sync"}

\* A header is whose it is and the objects that edited it; data is whose and which
\* version: 0 as created, 1 edited, 2 torn by a write that failed.
Header(o, marks) == [of |-> o, marks |-> marks]
Data(o, version) == [of |-> o, version |-> version]
Headers == [of : Obj, marks : SUBSET Obj]
Arrays  == [of : Obj, version : 0 .. 2]

ASSUME HDUListAssumption ==
    /\ Opened \in Seq(Obj) /\ Opened # <<>> /\ IsInjective(Opened)
    /\ Compressed \subseteq Obj /\ None \notin Headers \cup Arrays
    /\ Options \subseteq [mode : {"readonly", "update"}, sums : BOOLEAN]
    /\ FailAt \subseteq Calls /\ Reuse \in BOOLEAN /\ Retry \in BOOLEAN
    /\ MaxOps \in Nat /\ MaxFaults \in Nat

VARIABLES
    disk,       \* the slots of the file
    list,       \* the HDUList
    obj,        \* the state of each HDU object
    opts,       \* how the file was opened
    scanned,    \* _scanned_count
    dirty,      \* _dirty
    call,       \* the flush under way, or how the last call ended
    ops, faults,
    want,       \* history: the header and the data the program has given each HDU
    gone,       \* history: HDUs whose slot a flush has deleted
    extra       \* history: a rollback has left a tail behind

vars == <<disk, list, obj, opts, scanned, dirty, call, ops, faults, want, gone, extra>>

\* `_header` (None: not yet read), its `_revision` (0: no check) and whether it has the
\* hooks that persist its edits; `_data` and the fingerprint of its baseline.  Slots
\* count from 1.
Attached(i) ==
    [attached |-> TRUE, index |-> i, header |-> None, revision |-> 0, hooks |-> FALSE,
     data |-> None, base |-> None]
Detached(o) ==
    [attached |-> FALSE, index |-> 0, header |-> Header(o, {}), revision |-> 0,
     hooks |-> FALSE, data |-> Data(o, 0), base |-> None]

Idle(how) == [pc |-> "idle", how |-> how, prefix |-> 0, i |-> 0, count |-> 0,
              serialized |-> {}, before |-> <<>>]
Go(pc, i) == call' = [call EXCEPT !.pc = pc, !.i = i]
Raise(how) == call' = [Idle(how) EXCEPT !.before = call.before]

Init ==
    /\ opts \in Options
    /\ disk = [i \in DOMAIN Opened |->
                  [header |-> Header(Opened[i], {}), data |-> Data(Opened[i], 0), revision |-> 1]]
    /\ list = Opened
    /\ obj = [o \in Obj |-> IF Contains(Opened, o)
                            THEN Attached(CHOOSE i \in DOMAIN Opened : Opened[i] = o)
                            ELSE Detached(o)]
    /\ scanned = Len(Opened) /\ dirty = FALSE
    /\ call = Idle("ok")
    /\ ops = 0 /\ faults = 0
    /\ want = [o \in Obj |-> [header |-> Header(o, {}), data |-> Data(o, 0)]]
    /\ gone = {} /\ extra = FALSE

-----------------------------------------------------------------------------
(* What the program does between two flushes.                               *)

Update == opts.mode = "update"
Listed == ToSet(list)
Ready == call.pc = "idle" /\ ops < MaxOps /\ (call.how = "displaced" => Retry)
Calling(how) == /\ Ready /\ ops' = ops + 1
                /\ call' = Idle(how) /\ UNCHANGED <<opts, faults, extra, gone>>
Usable(o) == o \notin gone \/ Reuse
Slot(o) == disk[obj[o].index]
Reachable(o) == obj[o].attached /\ obj[o].index \in DOMAIN disk

\* `header` and `data` are read from the slot when they are first asked for.
ReadHeader(o) ==
    IF obj[o].header # None THEN obj[o]
    ELSE [obj[o] EXCEPT !.header = Slot(o).header, !.revision = Slot(o).revision,
                        !.hooks = Update]
Read(o) ==
    /\ Calling("ok") /\ Usable(o) /\ Reachable(o) /\ obj[o].data = None
    /\ obj' = [obj EXCEPT ![o] = [ReadHeader(o) EXCEPT !.data = Slot(o).data,
                                                       !.base = Slot(o).data]]
    /\ UNCHANGED <<disk, list, scanned, dirty, want>>

\* An edit that changes the array in place, and one that replaces it.
Mutate(o) ==
    /\ Calling("ok") /\ Usable(o) /\ obj[o].data # None /\ obj[o].data.version = 0
    /\ obj' = [obj EXCEPT ![o].data.version = 1]
    /\ want' = [want EXCEPT ![o].data.version = 1]
    /\ UNCHANGED <<disk, list, scanned, dirty>>
Replace(o) ==
    /\ Calling("ok") /\ Usable(o) /\ obj[o].data # Data(o, 1)
    /\ obj' = [obj EXCEPT ![o].data = Data(o, 1)]
    /\ want' = [want EXCEPT ![o].data.version = 1]
    /\ dirty' = (dirty \/ obj[o].attached)
    /\ UNCHANGED <<disk, list, scanned>>

\* zf_header_apply_v1 refuses an edit made against another revision (the mutant
\* forgets that a flush has moved it on).
Conflict(o) == LET rev == ReadHeader(o).revision IN rev # 0 /\ rev # Slot(o).revision
Marked(h, o) == [h EXCEPT !.marks = @ \cup {o}]
EditThrough(o) ==
    /\ Usable(o) /\ Reachable(o) /\ Update /\ ReadHeader(o).hooks
    /\ IF Conflict(o)
       THEN /\ Calling("conflict")
            /\ obj' = [obj EXCEPT ![o] = ReadHeader(o)]
            /\ UNCHANGED <<disk, want>>
       ELSE /\ Calling("ok")
            /\ disk' = [disk EXCEPT ![obj[o].index].header = Marked(@, o),
                                    ![obj[o].index].revision = @ + 1]
            /\ obj' = [obj EXCEPT ![o] = [ReadHeader(o) EXCEPT
                                             !.header = Marked(@, o),
                                             !.revision = Slot(o).revision + 1]]
            /\ want' = [want EXCEPT ![o].header = Marked(@, o)]
    /\ UNCHANGED <<list, scanned, dirty>>

\* A header without hooks is edited in memory only: that of a detached HDU, or of a
\* file opened for reading, whose list is dirty from then on.
EditLocal(o) ==
    /\ Calling("ok") /\ Usable(o)
    /\ IF obj[o].header = None THEN Reachable(o) /\ ~Update ELSE ~obj[o].hooks
    /\ obj' = [obj EXCEPT ![o] = [ReadHeader(o) EXCEPT !.header = Marked(@, o)]]
    /\ want' = [want EXCEPT ![o].header = Marked(@, o)]
    /\ dirty' = (dirty \/ obj[o].attached)
    /\ UNCHANGED <<disk, list, scanned>>

Insert(o, i) ==
    /\ Calling("ok") /\ Usable(o) /\ list' = InsertAt(list, i, o)
    /\ UNCHANGED <<disk, obj, scanned, dirty, want>>
Drop(i) ==
    /\ Calling("ok") /\ list' = RemoveAt(list, i)
    /\ UNCHANGED <<disk, obj, scanned, dirty, want>>

Move(i, j) ==
    /\ Calling("ok") /\ i # j /\ list' = InsertAt(RemoveAt(list, i), j, list[i])
    /\ UNCHANGED <<disk, obj, scanned, dirty, want>>

-----------------------------------------------------------------------------
(* flush.                                                                   *)

Library(c) == c \in FailAt /\ faults < MaxFaults /\ faults' = faults + 1
Flushing(pc) == call.pc = pc /\ UNCHANGED <<list, opts, ops, want>>
KeepList == UNCHANGED <<scanned, dirty, gone>>

AttachedAt(o, i) == obj[o].attached /\ obj[o].index = i
Prefix == CHOOSE n \in 0 .. Len(list) :
              /\ \A i \in 1 .. n : AttachedAt(list[i], i)
              /\ n < Len(list) => ~AttachedAt(list[n + 1], n + 1)
Changed(o) == obj[o].data # None /\ obj[o].data # obj[o].base

\* The layouts _reconcile refuses before it has changed anything.
Refused == \/ Prefix = 0
           \/ ~IsInjective(list)
           \/ \E o \in Listed \cap Compressed : obj[o].attached /\ Changed(o)

Flush ==
    /\ Ready /\ ops' = ops + 1
    /\ LET begin == [Idle("flushing") EXCEPT !.prefix = Prefix, !.count = Len(disk),
                                             !.before = disk]
       IN  call' = IF ~Update THEN [begin EXCEPT !.pc = "sync"]
                   ELSE IF Prefix = Len(list) /\ Prefix = scanned
                        THEN [begin EXCEPT !.pc = "data", !.i = 1]
                   ELSE IF Refused THEN [begin EXCEPT !.pc = "idle", !.how = "refused"]
                   ELSE [begin EXCEPT !.pc = "append", !.i = Prefix + 1]
    /\ UNCHANGED <<list, opts, want, disk, obj, faults, extra>> /\ KeepList

\* The append phase: an attached HDU is copied from its slot, any other is created
\* and then filled from memory.
Appending == Flushing("append") /\ call.i <= Len(list)
Copied(o) == obj[o].attached /\ obj[o].index >= 2
Next_ == list[call.i]

Copy ==
    /\ Appending /\ Copied(Next_) /\ obj[Next_].index <= Len(disk)
    /\ disk' = Append(disk, [Slot(Next_) EXCEPT !.revision = 1])
    /\ Go("append", call.i + 1)
    /\ UNCHANGED <<obj, faults, extra>> /\ KeepList
Create ==
    /\ Appending /\ ~Copied(Next_)
    /\ disk' = Append(disk, [header |-> Header(Next_, {}), data |-> None, revision |-> 1])
    /\ Go("fill", call.i)
    /\ UNCHANGED <<obj, faults, extra>> /\ KeepList
Fill ==
    /\ Flushing("fill")
    /\ disk' = [disk EXCEPT ![Len(disk)] =
                   [header |-> obj[Next_].header, data |-> obj[Next_].data, revision |-> 2]]
    /\ call' = [call EXCEPT !.pc = "append", !.i = @ + 1, !.serialized = @ \cup {Next_}]
    /\ UNCHANGED <<obj, faults, extra>> /\ KeepList
AppendFails ==
    /\ \/ Appending /\ Copied(Next_) /\ Library("copy")
       \/ Appending /\ Copied(Next_) /\ obj[Next_].index > Len(disk) /\ UNCHANGED faults
       \/ Appending /\ ~Copied(Next_) /\ Library("create")
       \/ Flushing("fill") /\ Library("fill")
    /\ Go("undo", 0)
    /\ UNCHANGED <<disk, obj, extra>> /\ KeepList

\* The partial tail goes, driven by the count (the mutant leaves one HDU).
UndoneButOne == Len(disk) <= call.count + 1
Undone == Len(disk) <= call.count
Undo ==
    /\ Flushing("undo") /\ ~Undone
    /\ disk' = RemoveAt(disk, call.count + 1)
    /\ UNCHANGED <<call, obj, faults, extra>> /\ KeepList
UndoEnds ==
    /\ Flushing("undo") /\ Undone /\ Raise("undone")
    /\ UNCHANGED <<disk, obj, faults, extra>> /\ KeepList
UndoFails ==
    /\ Flushing("undo") /\ ~Undone /\ Library("undo") /\ Raise("raised")
    /\ extra' = TRUE
    /\ UNCHANGED <<disk, obj>> /\ KeepList

\* The delete phase: the displaced originals go, i of them so far.  zf_delete_hdu may
\* fail before it has deleted the HDU or, making a new reader, after ("deleted").
AppendEnds ==
    /\ Flushing("append") /\ call.i > Len(list) /\ Go("delete", 0)
    /\ UNCHANGED <<disk, obj, faults, extra>> /\ KeepList
\* Each deletion brings the next original to the same place (the mutant goes on).
VictimNext == call.prefix + 1 + call.i
Victim == call.prefix + 1
Deleting == Flushing("delete") /\ call.i < call.count - call.prefix
Delete ==
    /\ Deleting
    /\ disk' = RemoveAt(disk, Victim)
    /\ Go("delete", call.i + 1)
    /\ UNCHANGED <<obj, faults, extra>> /\ KeepList
DeleteFails ==
    /\ Deleting /\ Raise("displaced")
    /\ \/ Library("delete") /\ UNCHANGED disk
       \/ Library("deleted") /\ disk' = RemoveAt(disk, Victim)
    /\ UNCHANGED <<obj, extra>> /\ KeepList

\* Every object after the prefix is bound to its new slot.  What was written from memory
\* is the new baseline; a copied HDU keeps its own, so that an edit that waits for the
\* data phase is still one (the mutant takes every array as written).
BoundBaselined(o, i) ==
    [obj[o] EXCEPT !.attached = TRUE, !.index = i, !.revision = 0,
                   !.hooks = @ \/ obj[o].header # None, !.base = obj[o].data]
Bound(o, i) ==
    [obj[o] EXCEPT !.attached = TRUE, !.index = i, !.revision = 0,
                   !.hooks = @ \/ obj[o].header # None,
                   !.base = IF o \in call.serialized THEN obj[o].data ELSE @]
Rebind ==
    /\ Flushing("delete") /\ call.i >= call.count - call.prefix
    /\ obj' = [o \in Obj |->
                  IF \E i \in call.prefix + 1 .. Len(list) : list[i] = o
                  THEN Bound(o, CHOOSE i \in DOMAIN list : list[i] = o) ELSE obj[o]]
    /\ scanned' = Len(list)
    /\ gone' = {o \in Obj : obj[o].attached} \ Listed
    /\ extra' = FALSE
    /\ Go("data", 1)
    /\ UNCHANGED <<disk, faults, dirty>>

\* The data phase: every array that differs from its baseline is written to the slot
\* of its object.  A compressed image that has changed stops it.
Writing == Flushing("data") /\ call.i <= Len(list)
Stuck(o) == o \in Compressed /\ Changed(o)
Skip ==
    /\ Writing /\ ~Changed(Next_) /\ Go("data", call.i + 1)
    /\ UNCHANGED <<disk, obj, faults, extra>> /\ KeepList
WriteData ==
    /\ Writing /\ Changed(Next_) /\ ~Stuck(Next_)
    /\ disk' = [disk EXCEPT ![obj[Next_].index].data = obj[Next_].data]
    /\ obj' = [obj EXCEPT ![Next_].base = obj[Next_].data]
    /\ Go("data", call.i + 1)
    /\ UNCHANGED <<faults, extra>> /\ KeepList
WriteFails ==
    /\ Writing /\ Changed(Next_) /\ Raise("raised")
    /\ \/ Stuck(Next_) /\ UNCHANGED <<disk, faults>>
       \/ /\ ~Stuck(Next_) /\ Library("write")
          /\ disk' = [disk EXCEPT ![obj[Next_].index].data = Data(Next_, 2)]
    /\ UNCHANGED <<obj, extra>> /\ KeepList
WriteEnds ==
    /\ Flushing("data") /\ call.i > Len(list) /\ Go("sync", 0)
    /\ UNCHANGED <<disk, obj, faults, extra>> /\ KeepList

\* zf_flush.  With checksum_on_close it moves on the revisions of the first n slots (of
\* all, unless it fails), and the revisions the list knows are dropped (mutant: kept)
\* either way.
Summed(n) == [i \in DOMAIN disk |->
                 IF opts.sums /\ i <= n THEN [disk[i] EXCEPT !.revision = @ + 1] ELSE disk[i]]
ForgottenNot == obj
Forgotten == [o \in Obj |-> IF opts.sums /\ o \in Listed /\ obj[o].attached
                            THEN [obj[o] EXCEPT !.revision = 0] ELSE obj[o]]
Sync ==
    /\ Flushing("sync") /\ disk' = Summed(Len(disk)) /\ obj' = Forgotten
    /\ Raise("ok")
    /\ UNCHANGED <<faults, extra>> /\ KeepList
SyncFails ==
    /\ Flushing("sync") /\ Library("sync") /\ Raise("raised")
    /\ \E n \in 0 .. Len(disk) : disk' = Summed(n)
    /\ obj' = Forgotten
    /\ UNCHANGED extra /\ KeepList

-----------------------------------------------------------------------------
(* writeto and to_bytes: the bytes of the file when nothing in memory differs *)
(* from them (_is_pristine_attached), and the list serialized otherwise.  The  *)
(* mutant forgets the arrays changed in place, which do not set _dirty.       *)

PristineClean == ~dirty /\ Len(list) = scanned /\ \A i \in DOMAIN list : AttachedAt(list[i], i)
Pristine ==
    /\ ~dirty /\ Len(list) = scanned
    /\ \A i \in DOMAIN list : ~Changed(list[i]) /\ AttachedAt(list[i], i)

Serialized(o) ==
    [header |-> ReadHeader(o).header,
     data |-> IF obj[o].data # None THEN obj[o].data ELSE Slot(o).data]
Written == IF Pristine THEN [i \in DOMAIN disk |-> [header |-> disk[i].header,
                                                    data |-> disk[i].data]]
           ELSE [i \in DOMAIN list |-> Serialized(list[i])]

-----------------------------------------------------------------------------
Program ==
    \/ \E o \in Obj : Read(o) \/ Mutate(o) \/ Replace(o) \/ EditThrough(o) \/ EditLocal(o)
    \/ \E o \in Obj, i \in 1 .. Len(list) + 1 : Insert(o, i)
    \/ \E i \in DOMAIN list : Drop(i)
    \/ \E i, j \in DOMAIN list : Move(i, j)
    \/ Flush

Step == Copy \/ Create \/ Fill \/ AppendEnds \/ Delete \/ Rebind
        \/ Undo \/ UndoEnds \/ Skip \/ WriteData \/ WriteEnds \/ Sync
Failure == AppendFails \/ UndoFails \/ DeleteFails \/ WriteFails \/ SyncFails

Next == Program \/ Step \/ Failure
Spec == Init /\ [][Next]_vars

-----------------------------------------------------------------------------
(* Properties.                                                              *)

Resting == call.pc = "idle"
Flushed == Resting /\ Update /\ call.how = "ok" /\ call.before # <<>>
Slots == [header : Headers, data : Arrays \cup {None}, revision : Nat]
TypeOK ==
    /\ disk \in Seq(Slots) /\ list \in Seq(Obj)
    /\ \A o \in Obj :
           /\ obj[o].attached \in BOOLEAN /\ obj[o].index \in Nat /\ obj[o].revision \in Nat
           /\ obj[o].header = None \/ obj[o].header.of \in Obj
           /\ obj[o].attached => obj[o].index # 0
    /\ call.i \in Nat /\ call.serialized \subseteq Obj

\* What the program has given each HDU of the list is in its slot when flush returns,
\* in the order of the list: appends, insertions, deletions, reorders, header edits and
\* data alike (flush, _reconcile).
FlushPersists ==
    Flushed =>
        /\ \A i \in DOMAIN list : disk[i].header = want[list[i]].header
                                 /\ disk[i].data = want[list[i]].data
        /\ Len(disk) = Len(list) \/ extra

\* Wherever a flush stops, the file still holds the header with every edit, and the data,
\* of each HDU of the list that was in the file ("duplicates, never missing HDUs").
NeverMissing ==
    Update => \A o \in Listed : obj[o].attached =>
        \E s \in DOMAIN disk : disk[s].header = want[o].header /\ disk[s].data # None
                              /\ disk[s].data.of = o

\* The same, of a file whose flush has failed in the delete phase and was called again:
\* once it returns, no HDU of the list is missing ("A failure here leaves duplicates,
\* never missing HDUs").
RetryKeepsHDUs == Flushed => NeverMissing

\* An edit of an HDU's header goes into that HDU's header, or is an error ("operation on a
\* detached or closed HDU").
EditsLandHome == \A s \in DOMAIN disk : disk[s].header.marks \subseteq {disk[s].header.of}

\* A flush that is refused, or fails while it appends and cleans up, leaves the file as
\* it was.
AppendRollsBack ==
    Resting /\ call.how \in {"refused", "undone"} => disk = call.before

\* No edit of an HDU of the list is taken for one against an old header.
NoFalseConflict == call.how # "conflict"

\* What writeto writes is the list as the program sees it, whichever way it takes, unless
\* a flush has left the objects with the indices of a file it has half deleted.
WritesWhatIsSeen ==
    Resting /\ call.how # "displaced" =>
        LET w == Written
        IN  /\ \A i \in DOMAIN list : /\ w[i].header = want[list[i]].header
                                      /\ w[i].data = want[list[i]].data
            /\ Len(w) = Len(list) \/ extra
==============================================================================
