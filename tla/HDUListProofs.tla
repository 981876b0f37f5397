---------------------------- MODULE HDUListProofs ----------------------------
(***************************************************************************)
(* Proofs about HDUList, for every file, every set of HDU objects, every way *)
(* the library may fail and every number of calls: no HDU of the list is     *)
(* ever missing from the file, a flush that stops while it appends leaves    *)
(* the file as it was, one that returns has written what the program gave,   *)
(* and writeto writes the list as the program sees it.  The program does not *)
(* use an HDU after it is removed, nor go on once a flush has failed while   *)
(* it deletes: the runs show what happens then.                              *)
(***************************************************************************)
EXTENDS HDUList, SequenceFacts

Objects == [attached : BOOLEAN, index : Nat, header : Headers \cup {None}, revision : Nat,
            hooks : BOOLEAN, data : Arrays \cup {None}, base : Arrays \cup {None}]
Wanted == [header : Headers, data : [of : Obj, version : 0 .. 1]]
FlushCalls == [pc : {"idle", "append", "fill", "undo", "delete", "data", "sync"},
               how : {"ok", "conflict", "flushing", "refused", "undone", "raised", "displaced"},
               prefix : Nat, i : Nat, count : Nat, serialized : SUBSET Obj,
               before : Seq(Slots)]

ListTypeOK ==
    /\ disk \in Seq(Slots) /\ list \in Seq(Obj) /\ obj \in [Obj -> Objects]
    /\ opts \in Options /\ scanned \in Nat /\ dirty \in BOOLEAN /\ call \in FlushCalls
    /\ want \in [Obj -> Wanted] /\ gone \in SUBSET Obj /\ extra \in BOOLEAN

\* An object of the file that the program may still use.
Live(o) == obj[o].attached /\ o \notin gone

\* What an object has in memory is what the program gave it; one that is in no file has
\* all of it in memory, and the header of one that is in a file is written through.
Memory ==
    /\ Listed \cap gone = {}
    /\ \A o \in Obj :
         /\ want[o].header.of = o /\ want[o].data.of = o
         /\ obj[o].header # None => obj[o].header = want[o].header
         /\ obj[o].data # None => obj[o].data = want[o].data
         /\ obj[o].base # None => /\ obj[o].data # None
                                 /\ obj[o].base.version <= obj[o].data.version
         /\ ~obj[o].attached => obj[o].header # None /\ obj[o].data # None /\ obj[o].base = None
         /\ obj[o].attached /\ Update /\ obj[o].header # None => obj[o].hooks

\* Slot s keeps what the program gave o, but for what is in memory and still to be written.
HeaderKept(o, s) == Update \/ ~dirty \/ obj[o].header = None => disk[s].header = want[o].header
DataKept(o, s) ==
    /\ disk[s].data # None /\ disk[s].data.of = o
    /\ ~Changed(o) => disk[s].data = want[o].data
RevisionKnown(o, s) ==
    Update /\ obj[o].header # None /\ obj[o].revision # 0 => obj[o].revision = disk[s].revision
Keeps(o, s) == s \in DOMAIN disk /\ HeaderKept(o, s) /\ DataKept(o, s)

\* The same of a slot an HDU was appended to, which its object is not yet bound to.
AppendedAt(o, s) ==
    /\ s \in DOMAIN disk /\ disk[s].header = want[o].header
    /\ disk[s].data # None /\ disk[s].data.of = o
    /\ o \in call.serialized \/ ~Changed(o) => disk[s].data = want[o].data

\* Outside the delete phase every live object has a slot of its own.
Halved == call.pc = "idle" /\ call.how = "displaced"
Homes ==
    call.pc # "delete" /\ ~Halved =>
        /\ scanned <= Len(disk)
        /\ \A o \in Obj : Live(o) => /\ obj[o].index \in 1 .. scanned
                                     /\ Keeps(o, obj[o].index)
                                     /\ RevisionKnown(o, obj[o].index)
        /\ \A o, q \in Obj : Live(o) /\ Live(q) /\ obj[o].index = obj[q].index => o = q

\* A flush of the layout: the prefix stays, the rest is appended behind the file as it was,
\* and then the originals go.
Appends == call.pc \in {"append", "fill", "undo"}
Layout ==
    call.pc \in {"append", "fill", "delete"} =>
        /\ Update /\ IsInjective(list) /\ call.prefix \in 1 .. Len(list)
        /\ call.prefix <= call.count /\ \A o \in call.serialized : ~obj[o].attached
        /\ \A k \in 1 .. call.prefix : AttachedAt(list[k], k)
AppendProgress ==
    call.pc \in {"append", "fill"} =>
        /\ call.i \in call.prefix + 1 .. Len(list) + 1
        /\ call.pc = "append" => Len(disk) = call.count + (call.i - call.prefix) - 1
        /\ call.pc = "fill" => Len(disk) = call.count + (call.i - call.prefix)
        /\ call.pc = "fill" => call.i <= Len(list) /\ ~Copied(list[call.i])
Appended ==
    call.pc \in {"append", "fill"} =>
        \A k \in call.prefix + 1 .. call.i - 1 :
            AppendedAt(list[k], call.count + (k - call.prefix))
DeleteProgress ==
    call.pc = "delete" =>
        /\ call.i \in 0 .. call.count - call.prefix
        /\ Len(disk) = call.count - call.i + (Len(list) - call.prefix)
Remaining ==
    call.pc = "delete" =>
        /\ \A k \in 1 .. call.prefix : Keeps(list[k], k) /\ RevisionKnown(list[k], k)
        /\ \A k \in call.prefix + 1 .. Len(list) :
             AppendedAt(list[k], call.count - call.i + (k - call.prefix))

\* The file before the flush is in front of what it appends.
Rollback ==
    /\ Appends => /\ scanned <= call.count /\ (call.count = scanned \/ extra)
                  /\ Len(call.before) = call.count /\ call.count <= Len(disk)
                  /\ \A s \in 1 .. call.count : disk[s] = call.before[s]
    /\ AppendRollsBack

\* In the data phase the list and the file have one layout; what is before the HDU it is
\* at is written.
Aligned == Len(list) = scanned /\ \A k \in DOMAIN list : AttachedAt(list[k], k)
DataProgress ==
    /\ ~Update => call.pc \in {"idle", "sync"}
    /\ Update /\ call.pc = "data" =>
         /\ Aligned /\ call.i >= 1 /\ \A k \in DOMAIN list : k < call.i => ~Changed(list[k])
    /\ (Update /\ call.pc = "sync") \/ Flushed => Aligned /\ \A k \in DOMAIN list : ~Changed(list[k])
Extent == call.pc \in {"idle", "data", "sync"} /\ ~Halved => Len(disk) = scanned \/ extra

ListInv ==
    /\ ListTypeOK /\ Memory /\ Homes /\ Layout /\ AppendProgress /\ Appended
    /\ DeleteProgress /\ Remaining /\ Rollback /\ DataProgress /\ Extent /\ NeverMissing /\ call.how # "conflict"
-----------------------------------------------------------------------------
(* Calls of the program between two flushes.                                *)

\* While no flush is deleting, every HDU of the list is in its own slot.
LEMMA NothingMissing ==
    ListTypeOK /\ Memory /\ Homes /\ call.pc # "delete" /\ ~Halved => NeverMissing
<1> SUFFICES ASSUME ListTypeOK, Memory, Homes, call.pc # "delete", ~Halved, Update,
                    NEW o \in Listed, obj[o].attached
             PROVE  \E s \in DOMAIN disk : /\ disk[s].header = want[o].header
                                           /\ disk[s].data # None /\ disk[s].data.of = o
  BY DEF NeverMissing
<1>1. o \in Obj /\ Live(o)
  BY ToSetFacts DEF ListTypeOK, Memory, Listed, Live
<1> QED BY <1>1 DEF Homes, Keeps, HeaderKept, DataKept

\* A call other than flush starts and ends outside flush.
LEMMA CallingFacts ==
    ASSUME ListInv, ~Retry, NEW how \in {"ok", "conflict"}, Calling(how)
    PROVE  /\ call.pc = "idle" /\ ~Halved
           /\ call' \in FlushCalls /\ call'.pc = "idle" /\ call'.how = how /\ ~Halved'
           /\ opts' = opts /\ extra' = extra /\ gone' = gone /\ (Update' <=> Update)
           /\ Layout' /\ AppendProgress' /\ Appended' /\ DeleteProgress' /\ Remaining'
           /\ Rollback' /\ DataProgress'
<1>1. call.pc = "idle" /\ ~Halved
  BY DEF Calling, Ready, Halved
<1>2. /\ call'.pc = "idle" /\ call'.how = how /\ call'.before = <<>>
      /\ call' \in FlushCalls
  <2>1. <<>> \in Seq(Slots)
    BY EmptySeq
  <2> QED BY <2>1 DEF Calling, Idle, FlushCalls
<1>3. opts' = opts /\ extra' = extra /\ gone' = gone /\ (Update' <=> Update)
  BY DEF Calling, Update
<1> QED BY <1>1, <1>2, <1>3 DEF Layout, AppendProgress, Appended, DeleteProgress, Remaining,
             Rollback, DataProgress, Halved, Appends, AppendRollsBack, Flushed, Resting

\* What is left to show of such a call.
LEMMA ProgramStep ==
    ASSUME ListInv, ~Retry, Calling("ok"), Len(disk') = Len(disk), scanned' = scanned,
           ListTypeOK', Memory', Homes'
    PROVE  ListInv'
<1>1. NeverMissing'
  <2>1. (ListTypeOK /\ Memory /\ Homes /\ call.pc # "delete" /\ ~Halved => NeverMissing)'
    BY NothingMissing, PTL
  <2> QED BY <2>1, CallingFacts
<1>2. Extent'
  BY CallingFacts DEF ListInv, Extent
<1> QED BY <1>1, <1>2, CallingFacts DEF ListInv

\* A call that changes what one object has in memory to x, what the program gave it to w,
\* and nothing in the file.
Edited(o, x, w) ==
    /\ Calling("ok") /\ disk' = disk /\ list' = list /\ scanned' = scanned
    /\ dirty' \in BOOLEAN /\ (dirty => dirty')
    /\ x \in Objects /\ obj' = [obj EXCEPT ![o] = x]
    /\ w \in Wanted /\ want' = [want EXCEPT ![o] = w]
    /\ x.attached = obj[o].attached /\ x.index = obj[o].index
    /\ w.header.of = o /\ w.data.of = o
    /\ x.header # None => x.header = w.header
    /\ x.data # None => x.data = w.data
    /\ x.base # None => x.data # None /\ x.base.version <= x.data.version
    /\ ~x.attached => x.header # None /\ x.data # None /\ x.base = None
    /\ x.attached /\ Update /\ x.header # None => x.hooks
    /\ x.attached /\ o \notin gone =>
          /\ Update \/ ~dirty' \/ x.header = None => Slot(o).header = w.header
          /\ x.data = None \/ x.data = x.base => Slot(o).data = w.data
          /\ Update /\ x.header # None /\ x.revision # 0 => x.revision = Slot(o).revision

LEMMA LocalEdit ==
    ASSUME ListInv, ~Retry, NEW o \in Obj, NEW x, NEW w, Edited(o, x, w)
    PROVE  ListInv'
<1> USE DEF Edited
<1> USE DEF ListInv, ListTypeOK
<1>1. /\ call.pc = "idle" /\ ~Halved /\ call' \in FlushCalls
      /\ opts' = opts /\ extra' = extra /\ gone' = gone /\ (Update' <=> Update)
  BY CallingFacts
<1>2. /\ obj' \in [Obj -> Objects] /\ obj'[o] = x /\ \A q \in Obj \ {o} : obj'[q] = obj[q]
      /\ want' \in [Obj -> Wanted] /\ want'[o] = w /\ \A q \in Obj \ {o} : want'[q] = want[q]
  OBVIOUS
<1>3. disk' = disk /\ list' = list /\ scanned' = scanned /\ Listed' = Listed
  BY DEF Listed
<1>4. ListTypeOK'
  BY <1>1, <1>2, <1>3
<1>5. Memory'
  <2>1. (Listed \cap gone = {})'
    BY <1>1, <1>3 DEF Memory
  <2>2. ASSUME NEW q \in Obj
        PROVE  (/\ want[q].header.of = q /\ want[q].data.of = q
                /\ obj[q].header # None => obj[q].header = want[q].header
                /\ obj[q].data # None => obj[q].data = want[q].data
                /\ obj[q].base # None => /\ obj[q].data # None
                                        /\ obj[q].base.version <= obj[q].data.version
                /\ ~obj[q].attached => obj[q].header # None /\ obj[q].data # None /\ obj[q].base = None
                /\ obj[q].attached /\ Update /\ obj[q].header # None => obj[q].hooks)'
    BY <1>1, <1>2 DEF Memory
  <2> QED BY <2>1, <2>2 DEF Memory
<1>6. Homes'
  <2>1. \A q \in Obj : (Live(q)' <=> Live(q)) /\ obj'[q].index = obj[q].index
    BY <1>1, <1>2 DEF Live
  <2>2. ASSUME NEW q \in Obj, Live(q)
        PROVE  /\ Keeps(q, obj[q].index)' /\ RevisionKnown(q, obj[q].index)'
               /\ obj'[q].index \in 1 .. scanned
    <3>1. /\ Keeps(q, obj[q].index) /\ RevisionKnown(q, obj[q].index)
          /\ obj[q].index \in 1 .. scanned
      BY <1>1, <2>2 DEF Homes
    <3>2. CASE q = o
      BY <3>1, <3>2, <2>2, <1>1, <1>2, <1>3 DEF Live, Slot, Keeps, HeaderKept, DataKept, Changed,
         RevisionKnown
    <3>3. CASE q # o
      BY <3>1, <3>3, <1>1, <1>2, <1>3 DEF Keeps, HeaderKept, DataKept, Changed, RevisionKnown
    <3> QED BY <3>2, <3>3
  <2>3. scanned' <= Len(disk')
    BY <1>1, <1>3 DEF Homes
  <2>4. ASSUME NEW p, NEW q, p \in Obj, q \in Obj, Live(p)', Live(q)', obj'[p].index = obj'[q].index
        PROVE  p = q
    BY <2>1, <2>4, <1>1 DEF Homes
  <2> QED BY <1>3, <2>1, <2>2, <2>3, <2>4 DEF Homes
<1> QED BY <1>3, <1>4, <1>5, <1>6, ProgramStep

\* The header an object has once it is read.
LEMMA ReadHeaderFacts ==
    ASSUME ListInv, ~Halved, call.pc = "idle", NEW o \in Obj, NEW x, x = ReadHeader(o),
           obj[o].header # None \/ Live(o)
    PROVE  /\ x \in Objects /\ x.header # None /\ x.header = want[o].header
           /\ x.attached = obj[o].attached /\ x.index = obj[o].index
           /\ x.data = obj[o].data /\ x.base = obj[o].base
           /\ x.attached /\ Update => x.hooks
           /\ Live(o) => /\ Slot(o) \in Slots
                         /\ Update \/ ~dirty => Slot(o).header = want[o].header
                         /\ Update /\ x.revision # 0 => x.revision = Slot(o).revision
<1> USE DEF ListInv, ListTypeOK
<1>1. Live(o) => /\ obj[o].index \in DOMAIN disk /\ HeaderKept(o, obj[o].index)
                 /\ RevisionKnown(o, obj[o].index)
  BY DEF Homes, Keeps
<1>2. Live(o) => Slot(o) \in Slots
  BY <1>1, ToSetFacts DEF Slot
<1>3. CASE obj[o].header # None
  <2>1. x = obj[o]
    BY <1>3 DEF ReadHeader
  <2> QED BY <2>1, <1>1, <1>2, <1>3 DEF Memory, HeaderKept, RevisionKnown, Slot
<1>4. CASE obj[o].header = None
  <2>1. x = [obj[o] EXCEPT !.header = Slot(o).header, !.revision = Slot(o).revision,
                           !.hooks = Update]
    BY <1>4 DEF ReadHeader
  <2>2. Live(o) /\ Slot(o).header \in Headers /\ Slot(o).revision \in Nat /\ Update \in BOOLEAN
    BY <1>2, <1>4 DEF Slots, Update
  <2>3. Slot(o).header # None
    BY <2>2, HDUListAssumption
  <2>4. obj[o] \in Objects
    OBVIOUS
  <2>5. /\ x.attached = obj[o].attached /\ x.index = obj[o].index /\ x.header = Slot(o).header
        /\ x.revision = Slot(o).revision /\ x.hooks = Update
        /\ x.data = obj[o].data /\ x.base = obj[o].base /\ x \in Objects
    BY <2>1, <2>2, <2>4 DEF Objects
  <2> QED BY <2>2, <2>3, <2>5, <1>1, <1>2, <1>4 DEF HeaderKept, Slot
<1> QED BY <1>3, <1>4

\* While it is not removed, an HDU the program uses is live if it is in a file.
LEMMA UsableFacts ==
    ASSUME ListInv, ~Reuse, ~Retry, NEW how \in {"ok", "conflict"}, Calling(how),
           NEW o \in Obj, Usable(o)
    PROVE  /\ o \notin gone /\ obj[o] \in Objects /\ want[o] \in Wanted
           /\ want[o].header.of = o /\ want[o].data.of = o
           /\ (obj[o].attached <=> Live(o))
           /\ Live(o) => /\ obj[o].index \in DOMAIN disk /\ Slot(o) \in Slots
                         /\ HeaderKept(o, obj[o].index) /\ DataKept(o, obj[o].index)
                         /\ RevisionKnown(o, obj[o].index)
<1> USE DEF ListInv, ListTypeOK
<1>1. o \notin gone /\ obj[o] \in Objects /\ want[o] \in Wanted
  BY DEF Usable
<1>2. obj[o].attached <=> Live(o)
  BY <1>1 DEF Live, Objects
<1>3. Live(o) => /\ obj[o].index \in DOMAIN disk /\ HeaderKept(o, obj[o].index)
                 /\ DataKept(o, obj[o].index) /\ RevisionKnown(o, obj[o].index)
  BY CallingFacts DEF Homes, Keeps
<1>4. Live(o) => Slot(o) \in Slots
  BY <1>3, ToSetFacts DEF Slot
<1> QED BY <1>1, <1>2, <1>3, <1>4 DEF Memory

LEMMA ReadStep ==
    ASSUME ListInv, ~Reuse, ~Retry, NEW o \in Obj, Read(o)
    PROVE  ListInv'
<1> USE DEF Read
<1> DEFINE r == ReadHeader(o)
<1> DEFINE x == [r EXCEPT !.data = Slot(o).data, !.base = Slot(o).data]
<1>1. /\ o \notin gone /\ want[o] \in Wanted /\ Live(o) /\ obj[o].data = None
      /\ want[o].header.of = o /\ want[o].data.of = o
      /\ Slot(o) \in Slots /\ Slot(o).data = want[o].data
      /\ Update \/ ~dirty \/ obj[o].header = None => Slot(o).header = want[o].header
  BY UsableFacts DEF Reachable, DataKept, HeaderKept, Changed, Slot
<1>2. call.pc = "idle" /\ ~Halved /\ opts' = opts /\ gone' = gone
  BY CallingFacts
<1>3. /\ r \in Objects /\ r.header # None /\ r.header = want[o].header
      /\ r.attached = obj[o].attached /\ r.index = obj[o].index
      /\ r.attached /\ Update => r.hooks
      /\ Update /\ r.revision # 0 => r.revision = Slot(o).revision
  BY <1>1, <1>2, ReadHeaderFacts
<1>4. Slot(o).data \in Arrays
  BY <1>1 DEF Wanted, Arrays
<1> HIDE DEF r
<1>5. /\ x \in Objects /\ x.header = r.header /\ x.attached = r.attached /\ x.index = r.index
      /\ x.hooks = r.hooks /\ x.revision = r.revision
      /\ x.data = Slot(o).data /\ x.base = Slot(o).data
  BY <1>3, <1>4 DEF Objects
<1>6. obj' = [obj EXCEPT ![o] = x]
  BY DEF r
<1> HIDE DEF x
<1>7. want' = [want EXCEPT ![o] = want[o]]
  BY DEF ListInv, ListTypeOK
<1>8. dirty' = dirty /\ dirty \in BOOLEAN
  BY DEF ListInv, ListTypeOK
<1>9. obj[o].attached
  BY <1>1 DEF Live
<1>10. Calling("ok") /\ disk' = disk /\ list' = list /\ scanned' = scanned
  OBVIOUS
<1>11. Update \/ ~dirty' \/ x.header = None => Slot(o).header = want[o].header
  BY <1>1, <1>3, <1>5, <1>8
<1>12. /\ x.header # None => x.header = want[o].header
       /\ x.data # None => x.data = want[o].data
       /\ x.base # None => x.data # None /\ x.base.version <= x.data.version
       /\ x.attached /\ Update /\ x.header # None => x.hooks
  BY <1>1, <1>3, <1>4, <1>5, <1>9 DEF Arrays
<1>13. /\ x.data = None \/ x.data = x.base => Slot(o).data = want[o].data
       /\ Update /\ x.header # None /\ x.revision # 0 => x.revision = Slot(o).revision
  BY <1>1, <1>3, <1>5
<1> HIDE DEF Read
<1>14. Edited(o, x, want[o])
  BY <1>1, <1>3, <1>5, <1>6, <1>7, <1>8, <1>9, <1>10, <1>11, <1>12, <1>13 DEF Edited
<1> QED BY <1>14, LocalEdit

LEMMA MutateStep ==
    ASSUME ListInv, ~Reuse, ~Retry, NEW o \in Obj, Mutate(o)
    PROVE  ListInv'
<1> DEFINE x == [obj[o] EXCEPT !.data = Data(o, 1)]
<1> DEFINE w == [want[o] EXCEPT !.data = Data(o, 1)]
<1>0. Calling("ok") /\ Usable(o) /\ UNCHANGED <<disk, list, scanned, dirty>>
  BY DEF Mutate
<1>1. /\ o \notin gone /\ obj[o] \in Objects /\ want[o] \in Wanted
      /\ want[o].header.of = o /\ want[o].data.of = o
      /\ (obj[o].attached <=> Live(o))
      /\ Live(o) => HeaderKept(o, obj[o].index) /\ DataKept(o, obj[o].index)
                    /\ RevisionKnown(o, obj[o].index)
  BY <1>0, UsableFacts
<1>2. /\ obj[o].data = want[o].data /\ obj[o].data # None /\ obj[o].data.version = 0
      /\ obj[o].header # None => obj[o].header = want[o].header
      /\ ~obj[o].attached => obj[o].header # None /\ obj[o].base = None
      /\ obj[o].base # None => obj[o].base.version <= 0
      /\ obj[o].attached /\ Update /\ obj[o].header # None => obj[o].hooks
      /\ dirty' = dirty /\ dirty \in BOOLEAN
  BY DEF Mutate, ListInv, ListTypeOK, Memory
<1>3. Data(o, 1) \in Arrays /\ Data(o, 1) # None
  BY HDUListAssumption DEF Arrays, Data
<1>4. [obj[o].data EXCEPT !.version = 1] = Data(o, 1) /\ [want[o].data EXCEPT !.version = 1] = Data(o, 1)
  BY <1>1, <1>2 DEF Wanted, Arrays, Data
<1>5. obj' = [obj EXCEPT ![o] = x] /\ want' = [want EXCEPT ![o] = w]
  BY <1>1, <1>4 DEF Mutate, ListInv, ListTypeOK
<1>6. /\ x \in Objects /\ x.header = obj[o].header /\ x.attached = obj[o].attached
      /\ x.index = obj[o].index /\ x.hooks = obj[o].hooks /\ x.revision = obj[o].revision
      /\ x.data = Data(o, 1) /\ x.base = obj[o].base
  BY <1>1, <1>3 DEF Objects
<1>7. w \in Wanted /\ w.header = want[o].header /\ w.data = Data(o, 1) /\ w.data.of = o
  BY <1>1, <1>3 DEF Wanted, Data
<1>8. obj[o].base # None => obj[o].base.version <= 1 /\ obj[o].base # Data(o, 1)
  BY <1>1, <1>2 DEF Objects, Arrays, Data
<1> HIDE DEF x, w
<1>9. x.attached /\ o \notin gone =>
         /\ Update \/ ~dirty' \/ x.header = None => Slot(o).header = w.header
         /\ x.data = None \/ x.data = x.base => Slot(o).data = w.data
         /\ Update /\ x.header # None /\ x.revision # 0 => x.revision = Slot(o).revision
  BY <1>1, <1>2, <1>3, <1>6, <1>7, <1>8 DEF HeaderKept, RevisionKnown, Slot
<1>10. Data(o, 1).version = 1
  BY DEF Data
<1>11. Edited(o, x, w)
  BY <1>0, <1>1, <1>2, <1>3, <1>5, <1>6, <1>7, <1>8, <1>9, <1>10 DEF Edited
<1> QED BY <1>11, LocalEdit

LEMMA ReplaceStep ==
    ASSUME ListInv, ~Reuse, ~Retry, NEW o \in Obj, Replace(o)
    PROVE  ListInv'
<1> DEFINE x == [obj[o] EXCEPT !.data = Data(o, 1)]
<1> DEFINE w == [want[o] EXCEPT !.data = Data(o, 1)]
<1>0. /\ Calling("ok") /\ Usable(o) /\ disk' = disk /\ list' = list /\ scanned' = scanned
      /\ obj[o].data # Data(o, 1) /\ dirty' = (dirty \/ obj[o].attached) /\ obj' = [obj EXCEPT ![o] = x]
  BY DEF Replace, ListInv, ListTypeOK
<1>1. /\ o \notin gone /\ obj[o] \in Objects /\ want[o] \in Wanted
      /\ want[o].header.of = o /\ want[o].data.of = o
      /\ (obj[o].attached <=> Live(o))
      /\ Live(o) => HeaderKept(o, obj[o].index) /\ RevisionKnown(o, obj[o].index)
  BY <1>0, UsableFacts
<1>2. /\ obj[o].data # None => obj[o].data = want[o].data
      /\ obj[o].header # None => obj[o].header = want[o].header
      /\ ~obj[o].attached => obj[o].header # None /\ obj[o].base = None
      /\ obj[o].base # None => obj[o].data # None /\ obj[o].base.version <= obj[o].data.version
      /\ obj[o].attached /\ Update /\ obj[o].header # None => obj[o].hooks
      /\ dirty \in BOOLEAN
  BY DEF ListInv, ListTypeOK, Memory
<1>3. Data(o, 1) \in Arrays /\ Data(o, 1) # None /\ Data(o, 1).of = o /\ Data(o, 1).version = 1
  BY HDUListAssumption DEF Arrays, Data
<1>4. [want[o].data EXCEPT !.version = 1] = Data(o, 1)
  BY <1>1 DEF Wanted, Data
<1>5. want' = [want EXCEPT ![o] = w]
  BY <1>1, <1>4 DEF Replace, ListInv, ListTypeOK
<1>6. /\ x \in Objects /\ x.header = obj[o].header /\ x.attached = obj[o].attached
      /\ x.index = obj[o].index /\ x.hooks = obj[o].hooks /\ x.revision = obj[o].revision
      /\ x.data = Data(o, 1) /\ x.base = obj[o].base
  BY <1>1, <1>3 DEF Objects
<1>7. w \in Wanted /\ w.header = want[o].header /\ w.data = Data(o, 1)
  BY <1>1, <1>3 DEF Wanted, Data
<1>8. obj[o].base # None => obj[o].base.version <= 0 /\ obj[o].base # Data(o, 1)
  <2> SUFFICES ASSUME obj[o].base # None
               PROVE  obj[o].base.version <= 0 /\ obj[o].base # Data(o, 1)
    OBVIOUS
  <2>1. obj[o].data \in [of : {o}, version : {0}]
    BY <1>0, <1>1, <1>2 DEF Wanted, Data
  <2>2. obj[o].base.version <= 0
    BY <1>2, <2>1
  <2> QED BY <1>3, <2>2
<1> HIDE DEF x, w
<1>9. x.attached /\ o \notin gone =>
         /\ Update \/ ~dirty' \/ x.header = None => Slot(o).header = w.header
         /\ x.data = None \/ x.data = x.base => Slot(o).data = w.data
         /\ Update /\ x.header # None /\ x.revision # 0 => x.revision = Slot(o).revision
  BY <1>0, <1>1, <1>2, <1>3, <1>6, <1>7, <1>8 DEF HeaderKept, RevisionKnown, Slot
<1>10. obj[o].base # None => obj[o].base.version <= 1
  BY <1>1, <1>8 DEF Objects, Arrays
<1>11. dirty' \in BOOLEAN /\ (dirty => dirty')
  BY <1>0, <1>2
<1>12. Edited(o, x, w)
  BY <1>0, <1>1, <1>2, <1>3, <1>5, <1>6, <1>7, <1>8, <1>9, <1>10, <1>11 DEF Edited
<1> QED BY <1>12, LocalEdit

LEMMA EditLocalStep ==
    ASSUME ListInv, ~Reuse, ~Retry, NEW o \in Obj, EditLocal(o)
    PROVE  ListInv'
<1> DEFINE r == ReadHeader(o)
<1> DEFINE h == Marked(want[o].header, o)
<1> DEFINE x == [r EXCEPT !.header = h]
<1> DEFINE w == [want[o] EXCEPT !.header = h]
<1>0. /\ Calling("ok") /\ Usable(o) /\ disk' = disk /\ list' = list /\ scanned' = scanned
      /\ dirty' = (dirty \/ obj[o].attached)
      /\ IF obj[o].header = None THEN Reachable(o) /\ ~Update ELSE ~obj[o].hooks
      /\ dirty \in BOOLEAN
  BY DEF EditLocal, ListInv, ListTypeOK
<1>1. /\ o \notin gone /\ obj[o] \in Objects /\ want[o] \in Wanted
      /\ want[o].header.of = o /\ want[o].data.of = o
      /\ (obj[o].attached <=> Live(o))
      /\ Live(o) => DataKept(o, obj[o].index)
  BY <1>0, UsableFacts
<1>2. call.pc = "idle" /\ ~Halved
  BY <1>0, CallingFacts
<1>3. /\ r \in Objects /\ r.header # None /\ r.header = want[o].header
      /\ r.attached = obj[o].attached /\ r.index = obj[o].index
      /\ r.data = obj[o].data /\ r.base = obj[o].base
  BY <1>0, <1>1, <1>2, ReadHeaderFacts DEF Reachable
<1>4. /\ obj[o].data # None => obj[o].data = want[o].data
      /\ obj[o].base # None => obj[o].data # None /\ obj[o].base.version <= obj[o].data.version
      /\ ~obj[o].attached => obj[o].data # None /\ obj[o].base = None
      /\ obj[o].attached /\ Update /\ obj[o].header # None => obj[o].hooks
  BY DEF ListInv, ListTypeOK, Memory
<1>5. h \in Headers /\ h # None /\ h.of = o
  BY <1>1, HDUListAssumption DEF Marked, Wanted, Headers
<1>6. /\ obj' = [obj EXCEPT ![o] = x] /\ want' = [want EXCEPT ![o] = w]
  BY <1>1, <1>3 DEF EditLocal, ListInv, ListTypeOK, Marked
<1> HIDE DEF r, h
<1>7. /\ x \in Objects /\ x.header = h /\ x.attached = obj[o].attached /\ x.index = obj[o].index
      /\ x.data = obj[o].data /\ x.base = obj[o].base
  BY <1>3, <1>5 DEF Objects
<1>8. w \in Wanted /\ w.header = h /\ w.data = want[o].data
  BY <1>1, <1>5 DEF Wanted
<1> HIDE DEF x, w
<1>9. ~(x.attached /\ Update)
  BY <1>0, <1>4, <1>7
<1>10. x.attached => dirty'
  BY <1>0, <1>7
<1>11. x.attached /\ o \notin gone => (x.data = None \/ x.data = x.base => Slot(o).data = w.data)
  BY <1>1, <1>7, <1>8 DEF DataKept, Changed, Slot
<1>12. dirty' \in BOOLEAN /\ (dirty => dirty')
  BY <1>0
<1>13. Edited(o, x, w)
  BY <1>0, <1>1, <1>4, <1>5, <1>6, <1>7, <1>8, <1>9, <1>10, <1>11, <1>12 DEF Edited
<1> QED BY <1>13, LocalEdit

\* An edit that goes through to the file is never refused, and changes no other slot.
LEMMA EditThroughStep ==
    ASSUME ListInv, ~Reuse, ~Retry, NEW o \in Obj, EditThrough(o)
    PROVE  ListInv'
<1> DEFINE i == obj[o].index
<1> DEFINE r == ReadHeader(o)
<1> DEFINE h == Marked(want[o].header, o)
<1> DEFINE v == Slot(o).revision + 1
<1> DEFINE x == [r EXCEPT !.header = h, !.revision = v]
<1> DEFINE w == [want[o] EXCEPT !.header = h]
<1> DEFINE d == [disk[i] EXCEPT !.header = h, !.revision = v]
<1>0. /\ Usable(o) /\ Reachable(o) /\ Update /\ UNCHANGED <<list, scanned, dirty>>
      /\ Calling("ok") \/ Calling("conflict")
  BY DEF EditThrough
<1>00. ListTypeOK /\ Memory /\ Homes
  BY DEF ListInv
<1>1. /\ o \notin gone /\ obj[o] \in Objects /\ want[o] \in Wanted /\ Live(o)
      /\ want[o].header.of = o /\ want[o].data.of = o
      /\ i \in DOMAIN disk /\ Slot(o) \in Slots /\ disk[i] \in Slots
      /\ HeaderKept(o, i) /\ DataKept(o, i) /\ RevisionKnown(o, i)
  <2>1. Slot(o) = disk[i]
    BY DEF Slot
  <2>2. /\ o \notin gone /\ obj[o] \in Objects /\ want[o] \in Wanted
        /\ want[o].header.of = o /\ want[o].data.of = o
        /\ (obj[o].attached <=> Live(o))
        /\ Live(o) => /\ i \in DOMAIN disk /\ Slot(o) \in Slots
                      /\ HeaderKept(o, i) /\ DataKept(o, i) /\ RevisionKnown(o, i)
    BY <1>0, UsableFacts
  <2> QED BY <1>0, <2>1, <2>2 DEF Reachable
<1>2. call.pc = "idle" /\ ~Halved
  BY <1>0, CallingFacts
<1>3. /\ r \in Objects /\ r.header # None /\ r.header = want[o].header
      /\ r.attached = obj[o].attached /\ r.index = obj[o].index
      /\ r.data = obj[o].data /\ r.base = obj[o].base
      /\ r.hooks
      /\ Slot(o).header = want[o].header
      /\ r.revision # 0 => r.revision = Slot(o).revision
  <2>1. /\ r \in Objects /\ r.header # None /\ r.header = want[o].header
        /\ r.attached = obj[o].attached /\ r.index = obj[o].index
        /\ r.data = obj[o].data /\ r.base = obj[o].base
        /\ r.attached /\ Update => r.hooks
        /\ Update /\ r.revision # 0 => r.revision = Slot(o).revision
        /\ Update \/ ~dirty => Slot(o).header = want[o].header
    BY <1>1, <1>2, ReadHeaderFacts
  <2> QED BY <2>1, <1>0 DEF Reachable
<1>4. ~Conflict(o)
  BY <1>3 DEF Conflict
<1>5. /\ Calling("ok")
      /\ disk' = [disk EXCEPT ![i] = d] /\ obj' = [obj EXCEPT ![o] = x]
      /\ want' = [want EXCEPT ![o] = w]
  <2>1. Slot(o) = disk[i]
    BY DEF Slot
  <2>2. /\ Calling("ok")
        /\ disk' = [disk EXCEPT ![i].header = Marked(@, o), ![i].revision = @ + 1]
        /\ obj' = [obj EXCEPT ![o] = [r EXCEPT !.header = Marked(@, o), !.revision = v]]
        /\ want' = [want EXCEPT ![o].header = Marked(@, o)]
    BY <1>4 DEF EditThrough
  <2>3. want' = [want EXCEPT ![o] = w]
    BY <2>2, <1>00 DEF ListTypeOK
  <2>4. obj' = [obj EXCEPT ![o] = x]
    BY <2>2, <1>3
  <2>5. disk' = [disk EXCEPT ![i] = d]
    BY <2>1, <2>2, <1>1, <1>3, <1>00 DEF ListTypeOK
  <2> QED BY <2>2, <2>3, <2>4, <2>5
<1>6. /\ call' \in FlushCalls /\ call'.pc = "idle" /\ ~Halved'
      /\ opts' = opts /\ extra' = extra /\ gone' = gone /\ Update'
  BY <1>0, <1>5, CallingFacts
<1>7. h \in Headers /\ h # None /\ h.of = o /\ v \in Nat
  <2>1. h \in Headers /\ h.of = o
    BY <1>1 DEF Marked, Wanted, Headers
  <2>2. v \in Nat
    BY <1>1 DEF Slots
  <2> QED BY <2>1, <2>2, HDUListAssumption
<1> HIDE DEF r, h, v
<1>8. /\ x \in Objects /\ x.header = h /\ x.attached = obj[o].attached /\ x.index = i
      /\ x.data = obj[o].data /\ x.base = obj[o].base /\ x.hooks = r.hooks /\ x.revision = v
  BY <1>3, <1>7 DEF Objects
<1>9. w \in Wanted /\ w.header = h /\ w.data = want[o].data
  BY <1>1, <1>7 DEF Wanted
<1>10. d \in Slots /\ d.header = h /\ d.data = disk[i].data /\ d.revision = v
  BY <1>1, <1>7 DEF Slots
<1> HIDE DEF x, w, d
<1>11. /\ obj' \in [Obj -> Objects] /\ obj'[o] = x /\ \A q \in Obj \ {o} : obj'[q] = obj[q]
       /\ want' \in [Obj -> Wanted] /\ want'[o] = w /\ \A q \in Obj \ {o} : want'[q] = want[q]
  BY <1>00, <1>5, <1>8, <1>9 DEF ListTypeOK
<1>12. /\ disk' \in Seq(Slots) /\ Len(disk') = Len(disk) /\ DOMAIN disk' = DOMAIN disk
       /\ disk'[i] = d /\ \A s \in DOMAIN disk \ {i} : disk'[s] = disk[s]
  BY <1>00, <1>1, <1>5, <1>10, ExceptSeq, LenProperties DEF ListTypeOK
<1>13. list' = list /\ scanned' = scanned /\ dirty' = dirty /\ Listed' = Listed
  BY <1>0 DEF Listed
<1>14. ListTypeOK'
  BY <1>00, <1>6, <1>11, <1>12, <1>13 DEF ListTypeOK
<1>15. Memory'
  <2>1. (Listed \cap gone = {})'
    BY <1>6, <1>13, <1>00 DEF Memory
  <2>2. ASSUME NEW q \in Obj
        PROVE  (/\ want[q].header.of = q /\ want[q].data.of = q
                /\ obj[q].header # None => obj[q].header = want[q].header
                /\ obj[q].data # None => obj[q].data = want[q].data
                /\ obj[q].base # None => /\ obj[q].data # None
                                        /\ obj[q].base.version <= obj[q].data.version
                /\ ~obj[q].attached => obj[q].header # None /\ obj[q].data # None /\ obj[q].base = None
                /\ obj[q].attached /\ Update /\ obj[q].header # None => obj[q].hooks)'
    <3>1. CASE q = o
      <4>1. /\ obj'[o].header = want'[o].header /\ want'[o].header.of = o /\ want'[o].data.of = o
            /\ obj'[o].data = obj[o].data /\ obj'[o].base = obj[o].base
            /\ want'[o].data = want[o].data /\ obj'[o].hooks = r.hooks
            /\ obj'[o].attached = obj[o].attached /\ obj[o].attached
        BY <1>1, <1>7, <1>8, <1>9, <1>11 DEF Live
      <4> QED BY <3>1, <4>1, <1>3, <1>00 DEF Memory
    <3>2. CASE q # o
      BY <3>2, <1>0, <1>6, <1>11, <1>00 DEF Memory
    <3> QED BY <3>1, <3>2
  <2> QED BY <2>1, <2>2 DEF Memory
<1>16. Homes'
  <2>1. \A q \in Obj : (Live(q)' <=> Live(q)) /\ obj'[q].index = obj[q].index
    BY <1>6, <1>8, <1>11 DEF Live
  <2>2. ASSUME NEW q \in Obj, Live(q)
        PROVE  /\ Keeps(q, obj[q].index)' /\ RevisionKnown(q, obj[q].index)'
               /\ obj'[q].index \in 1 .. scanned
    <3>1. /\ Keeps(q, obj[q].index) /\ RevisionKnown(q, obj[q].index)
          /\ obj[q].index \in 1 .. scanned /\ (q # o => obj[q].index # i)
      BY <1>1, <1>2, <2>2, <1>00 DEF Homes
    <3>2. CASE q = o
      BY <3>1, <3>2, <1>1, <1>7, <1>8, <1>9, <1>10, <1>11, <1>12
         DEF Keeps, HeaderKept, DataKept, Changed, RevisionKnown
    <3>3. CASE q # o
      <4>1. /\ obj'[q] = obj[q] /\ want'[q] = want[q] /\ disk'[obj[q].index] = disk[obj[q].index]
            /\ obj[q].index \in DOMAIN disk'
        BY <3>1, <3>3, <1>11, <1>12 DEF Keeps
      <4> QED BY <4>1, <3>1, <1>0, <1>6, <1>13 DEF Keeps, HeaderKept, DataKept, Changed, RevisionKnown
    <3> QED BY <3>2, <3>3
  <2>3. scanned' <= Len(disk')
    BY <1>2, <1>12, <1>13, <1>00 DEF Homes
  <2>4. ASSUME NEW p, NEW q, p \in Obj, q \in Obj, Live(p)', Live(q)', obj'[p].index = obj'[q].index
        PROVE  p = q
    BY <2>1, <2>4, <1>2, <1>00 DEF Homes
  <2> QED BY <1>13, <2>1, <2>2, <2>3, <2>4 DEF Homes
<1> QED BY <1>5, <1>12, <1>13, <1>14, <1>15, <1>16, ProgramStep

\* An edit of the list alone.
LEMMA ListEdit ==
    ASSUME ListInv, ~Retry, Calling("ok"), disk' = disk, obj' = obj, scanned' = scanned,
           dirty' = dirty, want' = want, list' \in Seq(Obj), ToSet(list') \cap gone = {}
    PROVE  ListInv'
<1>1. /\ call' \in FlushCalls /\ call.pc = "idle" /\ ~Halved /\ call'.pc = "idle" /\ ~Halved'
      /\ opts' = opts /\ extra' = extra /\ gone' = gone /\ (Update' <=> Update)
  BY CallingFacts
<1>2. ListTypeOK'
  BY <1>1 DEF ListInv, ListTypeOK
<1>3. Memory'
  BY <1>1 DEF ListInv, Memory, Listed
<1>4. Homes'
  BY <1>1 DEF ListInv, Homes, Live, Keeps, HeaderKept, DataKept, Changed, RevisionKnown
<1> QED BY <1>2, <1>3, <1>4, ProgramStep

LEMMA InsertStep ==
    ASSUME ListInv, ~Reuse, ~Retry, NEW o \in Obj, NEW i \in 1 .. Len(list) + 1, Insert(o, i)
    PROVE  ListInv'
<1>1. list \in Seq(Obj) /\ Listed \cap gone = {}
  BY DEF ListInv, ListTypeOK, Memory
<1>2. list' \in Seq(Obj) /\ ToSet(list') \subseteq Listed \cup {o}
  BY <1>1, InsertFacts, InsertElements DEF Insert, Listed
<1> QED BY <1>1, <1>2, ListEdit DEF Insert, Usable

LEMMA DropStep ==
    ASSUME ListInv, ~Retry, NEW i \in DOMAIN list, Drop(i)
    PROVE  ListInv'
<1>1. list \in Seq(Obj) /\ Listed \cap gone = {} /\ i \in 1 .. Len(list)
  BY LenProperties DEF ListInv, ListTypeOK, Memory
<1>2. list' \in Seq(Obj) /\ ToSet(list') \subseteq Listed
  BY <1>1, RemoveFacts, RemoveElements DEF Drop, Listed
<1> QED BY <1>1, <1>2, ListEdit DEF Drop

LEMMA MoveStep ==
    ASSUME ListInv, ~Retry, NEW i \in DOMAIN list, NEW j \in DOMAIN list, Move(i, j)
    PROVE  ListInv'
<1>1. list \in Seq(Obj) /\ Listed \cap gone = {} /\ i \in 1 .. Len(list) /\ j \in 1 .. Len(list)
  BY LenProperties DEF ListInv, ListTypeOK, Memory
<1> DEFINE r == RemoveAt(list, i)
<1>2. r \in Seq(Obj) /\ Len(r) = Len(list) - 1 /\ ToSet(r) \subseteq Listed
  BY <1>1, RemoveFacts, RemoveElements DEF Listed
<1>3. list' = InsertAt(r, j, list[i])
  BY DEF Move
<1> HIDE DEF r
<1>4. list[i] \in Obj /\ list[i] \in Listed /\ j \in 1 .. Len(r) + 1
  BY <1>1, <1>2, ToSetFacts DEF Listed
<1>5. list' \in Seq(Obj) /\ ToSet(list') \subseteq Listed
  BY <1>2, <1>3, <1>4, InsertFacts, InsertElements
<1> QED BY <1>1, <1>5, ListEdit DEF Move

-----------------------------------------------------------------------------
(* The start of a flush.                                                    *)

\* There is a longest prefix of the list that is where the file has it.
LEMMA PrefixFacts ==
    ASSUME ListInv
    PROVE  /\ Prefix \in 0 .. Len(list)
           /\ \A i \in 1 .. Prefix : AttachedAt(list[i], i)
<1>1. Len(list) \in Nat
  BY LenProperties DEF ListInv, ListTypeOK
<1> DEFINE T == {n \in 0 .. Len(list) : n < Len(list) => ~AttachedAt(list[n + 1], n + 1)}
<1>2. T \subseteq Nat /\ Len(list) \in T
  BY <1>1
<1>3. PICK n \in T : \A m \in T : n <= m
  BY <1>2, LeastNatural
<1>4. ASSUME NEW i \in 1 .. n PROVE AttachedAt(list[i], i)
  <2>1. i - 1 \in 0 .. Len(list) /\ ~(n <= i - 1) /\ (i - 1) + 1 = i /\ i - 1 < Len(list)
    BY <1>1, <1>3
  <2> QED BY <2>1, <1>3
<1> DEFINE P(m) == /\ \A i \in 1 .. m : AttachedAt(list[i], i)
                   /\ m < Len(list) => ~AttachedAt(list[m + 1], m + 1)
<1>5. n \in 0 .. Len(list) /\ P(n)
  BY <1>3, <1>4
<1>6. Prefix = CHOOSE m \in 0 .. Len(list) : P(m)
  BY DEF Prefix
<1> HIDE DEF P
<1>7. Prefix \in 0 .. Len(list) /\ P(Prefix)
  BY <1>5, <1>6
<1> QED BY <1>7 DEF P

\* A flush begins on a file that is as the invariant says.
LEMMA FlushStep ==
    ASSUME ListInv, ~Retry, Flush
    PROVE  ListInv'
<1> DEFINE begin == [Idle("flushing") EXCEPT !.prefix = Prefix, !.count = Len(disk),
                                             !.before = disk]
<1> DEFINE c == IF ~Update THEN [begin EXCEPT !.pc = "sync"]
                ELSE IF Prefix = Len(list) /\ Prefix = scanned
                     THEN [begin EXCEPT !.pc = "data", !.i = 1]
                ELSE IF Refused THEN [begin EXCEPT !.pc = "idle", !.how = "refused"]
                ELSE [begin EXCEPT !.pc = "append", !.i = Prefix + 1]
<1>0. ListTypeOK /\ Memory /\ Homes /\ Extent /\ NeverMissing
  BY DEF ListInv
<1>1. call.pc = "idle" /\ ~Halved
  BY DEF Flush, Ready, Halved
<1>2. /\ call' = c
      /\ UNCHANGED <<list, opts, want, disk, obj, extra, scanned, dirty, gone>>
  BY DEF Flush, KeepList
<1>3. /\ Prefix \in Nat /\ Prefix <= Len(list) /\ Len(list) \in Nat /\ Len(disk) \in Nat
      /\ \A i \in 1 .. Prefix : AttachedAt(list[i], i)
      /\ disk \in Seq(Slots) /\ scanned <= Len(disk) /\ scanned \in Nat
      /\ Len(disk) = scanned \/ extra
  BY <1>0, <1>1, PrefixFacts, LenProperties DEF ListTypeOK, Homes, Extent
<1>4. /\ begin \in FlushCalls /\ begin.prefix = Prefix /\ begin.count = Len(disk)
      /\ begin.before = disk /\ begin.how = "flushing" /\ begin.pc = "idle"
      /\ begin.serialized = {}
  BY <1>3 DEF Idle, FlushCalls
<1> HIDE DEF begin
<1>5. /\ c \in FlushCalls /\ c.prefix = Prefix /\ c.count = Len(disk) /\ c.before = disk
      /\ c.serialized = {} /\ c.pc \in {"sync", "data", "idle", "append"}
      /\ c.how \in {"flushing", "refused"}
      /\ c.pc = "sync" => ~Update
      /\ ~Update => c.pc = "sync"
      /\ c.pc = "data" => Prefix = Len(list) /\ Prefix = scanned /\ c.i = 1
      /\ c.pc = "append" => ~Refused /\ c.i = Prefix + 1 /\ Update
      /\ c.pc # "idle" => c.how = "flushing"
  <2>1. CASE ~Update
    <3>1. c = [begin EXCEPT !.pc = "sync"]
      BY <2>1
    <3> HIDE DEF c
    <3> QED BY <2>1, <3>1, <1>4 DEF FlushCalls
  <2>2. CASE Update /\ Prefix = Len(list) /\ Prefix = scanned
    <3>1. c = [begin EXCEPT !.pc = "data", !.i = 1]
      BY <2>2
    <3> HIDE DEF c
    <3> QED BY <2>2, <3>1, <1>4 DEF FlushCalls
  <2>3. CASE Update /\ ~(Prefix = Len(list) /\ Prefix = scanned) /\ Refused
    <3>1. c = [begin EXCEPT !.pc = "idle", !.how = "refused"]
      BY <2>3
    <3> HIDE DEF c
    <3> QED BY <2>3, <3>1, <1>4 DEF FlushCalls
  <2>4. CASE Update /\ ~(Prefix = Len(list) /\ Prefix = scanned) /\ ~Refused
    <3>1. c = [begin EXCEPT !.pc = "append", !.i = Prefix + 1]
      BY <2>4
    <3> HIDE DEF c
    <3>2. Prefix + 1 \in Nat
      BY <1>3
    <3> QED BY <2>4, <3>1, <3>2, <1>4 DEF FlushCalls
  <2> QED BY <2>1, <2>2, <2>3, <2>4
<1> HIDE DEF c
<1>6. (Update' <=> Update) /\ ~Halved' /\ call'.pc # "delete"
  BY <1>2, <1>5 DEF Update, Halved
<1>7. ListTypeOK'
  BY <1>0, <1>2, <1>5 DEF ListTypeOK
<1>8. Memory'
  BY <1>0, <1>2, <1>6 DEF Memory, Listed
<1>9. Homes'
  BY <1>0, <1>1, <1>2, <1>6 DEF Homes, Live, Keeps, HeaderKept, DataKept, Changed, RevisionKnown
<1>10. Layout'
  <2>1. ~Refused => IsInjective(list) /\ Prefix >= 1
    BY <1>3 DEF Refused
  <2>2. CASE c.pc = "append"
    <3>1. 1 <= Prefix
      BY <2>1, <2>2, <1>5, <1>3
    <3>2. Prefix <= Len(disk)
      <4>1. AttachedAt(list[Prefix], Prefix) /\ Prefix \in 1 .. Len(list)
        BY <3>1, <1>3
      <4>2. list[Prefix] \in Listed /\ list[Prefix] \in Obj
        BY <4>1, <1>0, ToSetFacts DEF ListTypeOK, Listed
      <4>3. Live(list[Prefix]) /\ obj[list[Prefix]].index = Prefix
        BY <4>1, <4>2, <1>0 DEF Memory, Live, AttachedAt
      <4>4. Prefix \in 1 .. scanned
        BY <4>2, <4>3, <1>0, <1>1 DEF Homes
      <4> QED BY <4>4, <1>3
    <3> QED BY <2>1, <2>2, <3>1, <3>2, <1>2, <1>3, <1>5, <1>6 DEF Layout, AttachedAt
  <2> QED BY <2>2, <1>2, <1>5 DEF Layout
<1>11. AppendProgress' /\ Appended'
  <2>1. AppendProgress'
    BY <1>2, <1>3, <1>5 DEF AppendProgress
  <2>2. c.pc = "append" => c.prefix + 1 .. c.i - 1 = {}
    BY <1>3, <1>5
  <2>3. c.pc # "fill"
    BY <1>5
  <2> QED BY <2>1, <2>2, <2>3, <1>2, Zenon DEF Appended
<1>12. DeleteProgress' /\ Remaining'
  BY <1>6 DEF DeleteProgress, Remaining
<1>13. Rollback'
  BY <1>2, <1>3, <1>5 DEF Rollback, Appends, AppendRollsBack, Resting
<1>14. DataProgress'
  <2>1. ~Flushed'
    BY <1>2, <1>5 DEF Flushed, Resting
  <2>2. DOMAIN list = 1 .. Len(list)
    BY <1>0, LenProperties DEF ListTypeOK
  <2>3. CASE c.pc = "data"
    <3>1. Aligned'
      BY <2>2, <2>3, <1>2, <1>3, <1>5 DEF Aligned, AttachedAt
    <3> QED BY <2>1, <2>2, <2>3, <3>1, <1>2, <1>5, <1>6 DEF DataProgress
  <2> QED BY <2>1, <2>3, <1>2, <1>5, <1>6 DEF DataProgress
<1>15. Extent'
  BY <1>2, <1>3 DEF Extent
<1>16. NeverMissing'
  BY <1>0, <1>2, <1>6 DEF NeverMissing, Listed
<1> QED BY <1>2, <1>5, <1>7, <1>8, <1>9, <1>10, <1>11, <1>12, <1>13, <1>14, <1>15, <1>16 DEF ListInv

-----------------------------------------------------------------------------
(* The append phase.                                                        *)

\* A step of a flush that changes nothing but the call and the slots behind the file as
\* the list knows it leaves every HDU where it was.
FrontStays ==
    /\ UNCHANGED <<list, obj, opts, scanned, dirty, want, gone>>
    /\ disk' \in Seq(Slots) /\ scanned <= Len(disk')
    /\ \A s \in 1 .. scanned : disk'[s] = disk[s]

LEMMA HomesStay ==
    ASSUME ListInv, call.pc # "delete", ~Halved, FrontStays
    PROVE  Memory' /\ Homes' /\ NeverMissing' /\ (Update' <=> Update)
<1>0. ListTypeOK /\ Memory /\ Homes
  BY DEF ListInv
<1>1. /\ list' = list /\ obj' = obj /\ opts' = opts /\ scanned' = scanned /\ dirty' = dirty
      /\ want' = want /\ gone' = gone /\ Listed' = Listed /\ (Update' <=> Update)
      /\ \A o \in Obj : Live(o)' <=> Live(o)
  BY DEF FrontStays, Listed, Update, Live
<1>2. Memory'
  BY <1>0, <1>1 DEF Memory
<1>3. DOMAIN disk' = 1 .. Len(disk') /\ Len(disk') \in Nat
  BY LenProperties DEF FrontStays
<1>4. ASSUME NEW o \in Obj, Live(o)
      PROVE  /\ obj[o].index \in 1 .. scanned /\ disk'[obj[o].index] = disk[obj[o].index]
             /\ Keeps(o, obj[o].index)' /\ RevisionKnown(o, obj[o].index)'
  <2>1. /\ obj[o].index \in 1 .. scanned /\ Keeps(o, obj[o].index)
        /\ RevisionKnown(o, obj[o].index) /\ scanned \in Nat
    BY <1>0, <1>4 DEF Homes, ListTypeOK
  <2>2. disk'[obj[o].index] = disk[obj[o].index] /\ obj[o].index \in DOMAIN disk'
    BY <2>1, <1>3 DEF FrontStays
  <2> QED BY <2>1, <2>2, <1>1 DEF Keeps, HeaderKept, DataKept, Changed, RevisionKnown
<1>5. scanned' <= Len(disk')
  BY <1>1 DEF FrontStays
<1>6. \A o, q \in Obj : Live(o) /\ Live(q) /\ obj[o].index = obj[q].index => o = q
  BY <1>0 DEF Homes
<1>7. Homes'
  BY <1>1, <1>4, <1>5, <1>6 DEF Homes
<1>8. NeverMissing'
  <2>1. ASSUME Update, NEW o \in Listed, obj[o].attached
        PROVE  \E s \in DOMAIN disk' : /\ disk'[s].header = want[o].header
                                      /\ disk'[s].data # None /\ disk'[s].data.of = o
    <3>1. o \in Obj /\ Live(o)
      BY <2>1, <1>0, ToSetFacts DEF ListTypeOK, Memory, Listed, Live
    <3>2. Keeps(o, obj[o].index)'
      BY <3>1, <1>4
    <3> QED BY <3>2, <2>1, <1>1 DEF Keeps, HeaderKept, DataKept
  <2> QED BY <2>1, <1>1 DEF NeverMissing
<1> QED BY <1>1, <1>2, <1>7, <1>8

\* What is known while a flush appends.
AppendNumbers ==
    /\ scanned \in Nat /\ call.count \in Nat /\ call.i \in Nat /\ call.prefix \in Nat
    /\ Len(disk) \in Nat /\ Len(list) \in Nat
    /\ scanned <= call.count /\ call.count <= Len(disk)
    /\ call.prefix + 1 <= call.i /\ call.i <= Len(list) + 1
    /\ call.pc = "append" => Len(disk) = call.count + (call.i - call.prefix) - 1
    /\ call.pc = "fill" => Len(disk) = call.count + (call.i - call.prefix)
AppendPhase ==
    /\ ListTypeOK /\ ~Halved /\ Update /\ call.pc # "delete" /\ call \in FlushCalls
    /\ AppendNumbers
    /\ DOMAIN disk = 1 .. Len(disk) /\ DOMAIN list = 1 .. Len(list)
    /\ call.count = scanned \/ extra
    /\ Len(call.before) = call.count /\ \A s \in 1 .. call.count : disk[s] = call.before[s]
    /\ \A k \in 1 .. Len(list) : list[k] \in Obj /\ list[k] \in Listed

LEMMA AppendFacts ==
    ASSUME ListInv, call.pc \in {"append", "fill"}
    PROVE  AppendPhase
<1>1. ListTypeOK /\ Layout /\ AppendProgress /\ Rollback
  BY DEF ListInv
<1>2. /\ scanned \in Nat /\ call.count \in Nat /\ call.i \in Nat /\ call.prefix \in Nat
      /\ disk \in Seq(Slots) /\ list \in Seq(Obj) /\ call \in FlushCalls
  BY <1>1 DEF ListTypeOK, FlushCalls
<1>3. /\ Len(disk) \in Nat /\ Len(list) \in Nat
      /\ DOMAIN disk = 1 .. Len(disk) /\ DOMAIN list = 1 .. Len(list)
      /\ \A k \in 1 .. Len(list) : list[k] \in Obj /\ list[k] \in Listed
  BY <1>2, LenProperties, ToSetFacts DEF Listed
<1>4. AppendNumbers
  <2>1. scanned <= call.count /\ call.count <= Len(disk)
    BY <1>1 DEF Rollback, Appends
  <2>2. /\ call.i \in call.prefix + 1 .. Len(list) + 1
        /\ call.pc = "append" => Len(disk) = call.count + (call.i - call.prefix) - 1
        /\ call.pc = "fill" => Len(disk) = call.count + (call.i - call.prefix)
    BY <1>1, Zenon DEF AppendProgress
  <2>3. call.prefix + 1 <= call.i /\ call.i <= Len(list) + 1
    BY <2>2, <1>2, <1>3
  <2> QED BY <2>1, <2>2, <2>3, <1>2, <1>3 DEF AppendNumbers
<1> QED BY <1>1, <1>2, <1>3, <1>4 DEF AppendPhase, Halved, Layout, Rollback, Appends

\* The fields of the call as a flush goes on, and as it ends.
LEMMA GoFacts ==
    ASSUME call \in FlushCalls, NEW i \in Nat,
           NEW pc \in {"append", "fill", "undo", "delete", "data", "sync"}, Go(pc, i)
    PROVE  /\ call' \in FlushCalls /\ call'.pc = pc /\ call'.i = i /\ call'.how = call.how
           /\ call'.count = call.count /\ call'.prefix = call.prefix
           /\ call'.before = call.before /\ call'.serialized = call.serialized
           /\ ~Halved' /\ ~Flushed'
BY DEF FlushCalls, Go, Halved, Flushed, Resting

LEMMA RaiseFacts ==
    ASSUME call \in FlushCalls,
           NEW how \in {"ok", "undone", "raised", "displaced"}, Raise(how)
    PROVE  /\ call' \in FlushCalls /\ call'.pc = "idle" /\ call'.how = how
           /\ call'.before = call.before /\ (Halved' <=> how = "displaced")
BY DEF FlushCalls, Raise, Idle, Halved

\* An HDU that is not copied is in no file: the object of the first slot is in the prefix.
LEMMA UncopiedIsDetached ==
    ASSUME ListInv, call.pc \in {"append", "fill"}, call.i <= Len(list), ~Copied(Next_)
    PROVE  ~obj[Next_].attached
<1> SUFFICES ASSUME obj[Next_].attached PROVE FALSE
  OBVIOUS
<1>0. ListTypeOK /\ Memory /\ Homes /\ Layout
  BY DEF ListInv
<1>a. AppendPhase
  BY AppendFacts
<1>1. /\ call.i \in 1 .. Len(list) /\ call.i > call.prefix /\ call.prefix >= 1
      /\ IsInjective(list) /\ AttachedAt(list[1], 1) /\ 1 \in 1 .. Len(list)
  BY <1>0, <1>a DEF Layout, AppendPhase, AppendNumbers
<1>2. /\ list[1] \in Obj /\ list[1] \in Listed /\ Next_ \in Obj /\ Next_ \in Listed
  BY <1>1, <1>a DEF Next_, AppendPhase
<1>3. Live(list[1]) /\ Live(Next_) /\ obj[list[1]].index = 1
  BY <1>0, <1>1, <1>2 DEF Live, Memory, AttachedAt
<1>4. obj[Next_].index \in 1 .. scanned
  BY <1>0, <1>2, <1>3, <1>a DEF Homes, AppendPhase, AppendNumbers
<1>5. obj[Next_].index = 1
  <2>1. scanned \in Nat
    BY <1>0 DEF ListTypeOK
  <2> QED BY <1>4, <2>1 DEF Copied
<1>6. list[1] = Next_
  BY <1>0, <1>2, <1>3, <1>5, <1>a DEF Homes, AppendPhase
<1>7. 1 = call.i
  <2>1. DOMAIN list = 1 .. Len(list)
    BY <1>a DEF AppendPhase
  <2>2. 1 \in DOMAIN list /\ call.i \in DOMAIN list /\ list[1] = list[call.i]
    BY <2>1, <1>1, <1>6 DEF Next_
  <2>3. \A a, b \in DOMAIN list : list[a] = list[b] => a = b
    BY <1>1 DEF IsInjective
  <2> QED BY <2>2, <2>3, Zenon
<1>8. call.prefix \in Nat
  BY <1>a DEF AppendPhase, AppendNumbers
<1> QED BY <1>1, <1>7, <1>8

\* Where the k-th HDU of the list is appended; it stays there while more are.
LEMMA PlaceBounds ==
    ASSUME NEW c \in Nat, NEW p \in Nat, NEW i \in Nat, NEW n \in Nat, NEW m \in Nat, NEW k, NEW s,
           k \in p + 1 .. i - 1, i <= m + 1, s = c + (k - p), n >= c + (i - p) - 1
    PROVE  /\ s \in Nat /\ s > c /\ s <= n /\ k \in 1 .. m
           /\ (n = c + (i - p) => s < n)
OBVIOUS

LEMMA PlaceFacts ==
    ASSUME AppendNumbers, call.pc \in {"append", "fill"}, NEW k, k \in call.prefix + 1 .. call.i - 1,
           NEW s, s = call.count + (k - call.prefix)
    PROVE  /\ s \in Nat /\ s > call.count /\ s <= Len(disk) /\ k \in 1 .. Len(list)
           /\ (call.pc = "fill" => s < Len(disk))
<1>1. PICK c, p, i, n, m : /\ c = call.count /\ p = call.prefix /\ i = call.i
                           /\ n = Len(disk) /\ m = Len(list)
  OBVIOUS
<1>2. /\ c \in Nat /\ p \in Nat /\ i \in Nat /\ n \in Nat /\ m \in Nat /\ i <= m + 1
      /\ call.pc = "append" => n = c + (i - p) - 1
      /\ call.pc = "fill" => n = c + (i - p)
  BY <1>1, Zenon DEF AppendNumbers
<1>3. k \in p + 1 .. i - 1 /\ s = c + (k - p)
  BY <1>1, Zenon
<1>4. n >= c + (i - p) - 1
  BY <1>2
<1>5. s \in Nat /\ s > c /\ s <= n /\ k \in 1 .. m /\ (n = c + (i - p) => s < n)
  BY <1>2, <1>3, <1>4, PlaceBounds
<1> QED BY <1>1, <1>2, <1>5, Zenon

LEMMA AppendedKept ==
    ASSUME ListInv, call.pc \in {"append", "fill"}, FrontStays,
           call'.count = call.count, call'.prefix = call.prefix, Len(disk') >= Len(disk),
           \A s \in 1 .. Len(disk) : call.pc = "append" \/ s < Len(disk) => disk'[s] = disk[s],
           NEW k \in call.prefix + 1 .. call.i - 1,
           list[k] \in call'.serialized => list[k] \in call.serialized
    PROVE  AppendedAt(list[k], call.count + (k - call.prefix))'
<1>1. AppendPhase /\ AppendNumbers /\ Appended
  BY AppendFacts DEF AppendPhase, ListInv
<1>2. PICK s, o : s = call.count + (k - call.prefix) /\ o = list[k]
  OBVIOUS
<1>3. AppendedAt(o, s)
  BY <1>1, <1>2, Zenon DEF Appended
<1>4. /\ s \in Nat /\ s > call.count /\ s <= Len(disk)
      /\ (call.pc = "fill" => s < Len(disk)) /\ call.count \in Nat
  BY <1>1, <1>2, PlaceFacts, Zenon DEF AppendNumbers
<1>5. s \in 1 .. Len(disk') /\ disk'[s] = disk[s]
  <2>1. Len(disk) \in Nat /\ Len(disk') \in Nat /\ Len(disk') >= Len(disk)
    BY <1>1, LenProperties DEF FrontStays, AppendNumbers
  <2>2. s \in 1 .. Len(disk) /\ s \in 1 .. Len(disk')
    BY <1>4, <2>1
  <2> QED BY <2>2, <1>4
<1>6. o \in call'.serialized => o \in call.serialized
  BY <1>2
<1>7. AppendedAt(o, s)'
  <2>1. s \in DOMAIN disk' /\ want' = want /\ obj' = obj
    BY <1>5, LenProperties DEF FrontStays
  <2> QED BY <2>1, <1>3, <1>5, <1>6, Zenon DEF AppendedAt, Changed
<1>8. list' = list
  BY DEF FrontStays
<1> QED BY <1>2, <1>7, <1>8, Zenon

\* What is left to show of a step that leaves the flush in the append phase, or undoes it.
LEMMA AppendStep ==
    ASSUME ListInv, call.pc \in {"append", "fill"}, FrontStays, extra' = extra,
           call' \in FlushCalls, Appends', call'.how = call.how, call'.count = call.count,
           call'.prefix = call.prefix, call'.before = call.before,
           call.count <= Len(disk'), \A s \in 1 .. call.count : disk'[s] = disk[s],
           \A o \in call'.serialized : ~obj[o].attached, AppendProgress', Appended'
    PROVE  ListInv'
<1>1. AppendPhase /\ AppendNumbers /\ Layout /\ call.how # "conflict"
  BY AppendFacts DEF AppendPhase, ListInv
<1>2. call'.pc \in {"append", "fill", "undo"} /\ call'.pc # "delete" /\ ~Halved' /\ ~Flushed'
  BY DEF Appends, Halved, Flushed, Resting
<1>3. Memory' /\ Homes' /\ NeverMissing' /\ (Update' <=> Update)
  BY <1>1, HomesStay DEF AppendPhase
<1>4. ListTypeOK'
  BY <1>1 DEF FrontStays, AppendPhase, ListTypeOK
<1>5. Layout'
  BY <1>1, <1>3 DEF Layout, AttachedAt, FrontStays
<1>6. Rollback'
  <2>1. \A s \in 1 .. call.count : disk'[s] = call.before[s]
    BY <1>1 DEF AppendPhase
  <2> QED BY <2>1, <1>1, <1>2
      DEF Rollback, Appends, AppendRollsBack, Resting, AppendPhase, AppendNumbers, FrontStays
<1>7. DeleteProgress' /\ Remaining' /\ DataProgress' /\ Extent'
  BY <1>1, <1>2, <1>3 DEF DeleteProgress, Remaining, DataProgress, Extent, AppendPhase
<1> QED BY <1>1, <1>3, <1>4, <1>5, <1>6, <1>7 DEF ListInv

LEMMA CopyStep ==
    ASSUME ListInv, Copy
    PROVE  ListInv'
<1>0. ListTypeOK /\ Memory /\ Homes /\ Layout /\ AppendProgress /\ Appended /\ Rollback
  BY DEF ListInv
<1>p. PICK o, n : o = Next_ /\ n = call.count + (call.i - call.prefix)
  OBVIOUS
<1>s. PICK s : s = [disk[obj[o].index] EXCEPT !.revision = 1]
  OBVIOUS
<1>1. /\ call.pc = "append" /\ call.i <= Len(list) /\ obj[o].attached
      /\ disk' = Append(disk, s) /\ Go("append", call.i + 1)
      /\ UNCHANGED <<list, opts, want, obj, extra, scanned, dirty, gone>>
  BY <1>p, <1>s DEF Copy, Appending, Flushing, KeepList, Copied, Slot
<1>a. AppendPhase
  BY <1>1, AppendFacts
<1>n. AppendNumbers
  BY <1>a DEF AppendPhase
<1>2. /\ call' \in FlushCalls /\ call'.pc = "append" /\ call'.i = call.i + 1
      /\ call'.how = call.how
      /\ call'.count = call.count /\ call'.prefix = call.prefix /\ call'.before = call.before
      /\ call'.serialized = call.serialized /\ ~Halved' /\ ~Flushed'
  BY <1>1, <1>a, GoFacts DEF AppendPhase, AppendNumbers
<1>3. o \in Obj /\ o \in Listed /\ Live(o)
  BY <1>0, <1>1, <1>a, <1>p DEF Next_, Memory, Live, AppendPhase, AppendNumbers
<1>4. /\ obj[o].index \in DOMAIN disk /\ disk[obj[o].index] \in Slots
      /\ disk[obj[o].index].header = want[o].header /\ DataKept(o, obj[o].index)
  <2>1. Keeps(o, obj[o].index)
    BY <1>0, <1>3, <1>a DEF Homes, AppendPhase, AppendNumbers
  <2> QED BY <2>1, <1>0, <1>a, ElementOfSeq DEF Keeps, HeaderKept, ListTypeOK, AppendPhase
<1>5. s \in Slots /\ s.header = want[o].header /\ s.data = disk[obj[o].index].data
  BY <1>4, <1>s DEF Slots
<1>6. /\ disk' \in Seq(Slots) /\ Len(disk') = Len(disk) + 1 /\ DOMAIN disk' = 1 .. Len(disk) + 1
      /\ disk'[Len(disk) + 1] = s /\ \A j \in 1 .. Len(disk) : disk'[j] = disk[j]
  BY <1>0, <1>1, <1>5, AppendProperties, LenProperties DEF ListTypeOK
<1>7. FrontStays
  BY <1>1, <1>6, <1>n, SMTT(30) DEF FrontStays, AppendNumbers
<1>11. Len(disk) + 1 = n /\ n \in Nat
  <2>1. PICK c, i, m, l : c = call.count /\ i = call.i /\ m = call.prefix /\ l = Len(disk)
    OBVIOUS
  <2>2. /\ c \in Nat /\ i \in Nat /\ m \in Nat /\ l \in Nat /\ m + 1 <= i
        /\ l = c + (i - m) - 1 /\ n = c + (i - m)
    BY <2>1, <1>1, <1>n, <1>p, Zenon DEF AppendNumbers
  <2>3. l + 1 = n /\ n \in Nat
    BY <2>2
  <2> QED BY <2>1, <2>3, Zenon
<1>12. AppendedAt(o, n)'
  <2>1. o \notin call'.serialized
    BY <1>0, <1>1, <1>2 DEF Layout
  <2>2. n \in DOMAIN disk' /\ disk'[n] = s /\ want' = want /\ obj' = obj
    BY <1>1, <1>6, <1>11, <1>n, SMTT(30) DEF AppendNumbers
  <2> QED BY <2>1, <2>2, <1>4, <1>5 DEF AppendedAt, DataKept, Changed
<1>13. AppendProgress' /\ Appended'
  <2>1. ASSUME NEW k \in call'.prefix + 1 .. call'.i - 1
        PROVE  AppendedAt(list[k], call.count + (k - call.prefix))'
    <3>1. CASE k = call.i
      BY <3>1, <1>1, <1>2, <1>12, <1>p DEF Next_
    <3>2. CASE k # call.i
      <4>1. k \in call.prefix + 1 .. call.i - 1
        BY <2>1, <3>2, <1>2, <1>n DEF AppendNumbers
      <4>2. list[k] \in call'.serialized => list[k] \in call.serialized
        BY <1>2
      <4>3. Len(disk') >= Len(disk)
        BY <1>6, <1>n DEF AppendNumbers
      <4> QED BY <4>1, <4>2, <4>3, <1>1, <1>2, <1>6, <1>7, AppendedKept, Zenon
    <3> QED BY <3>1, <3>2
  <2>2. /\ call'.i \in call'.prefix + 1 .. Len(list') + 1
        /\ Len(disk') = call'.count + (call'.i - call'.prefix) - 1
    BY <1>1, <1>2, <1>6, <1>n, SMTT(30) DEF AppendNumbers
  <2>3. AppendProgress'
    BY <2>2, <1>1, <1>2 DEF AppendProgress
  <2>4. Appended'
    BY <2>1 DEF Appended
  <2> QED BY <2>3, <2>4
<1>14. /\ Appends' /\ call.count <= Len(disk') /\ \A j \in 1 .. call.count : disk'[j] = disk[j]
       /\ \A q \in call'.serialized : ~obj[q].attached
  BY <1>0, <1>1, <1>2, <1>6, <1>n, SMTT(30) DEF Appends, AppendNumbers, Layout
<1> QED BY <1>1, <1>2, <1>7, <1>13, <1>14, AppendStep

LEMMA CreateStep ==
    ASSUME ListInv, Create
    PROVE  ListInv'
<1> DEFINE s == [header |-> Header(Next_, {}), data |-> None, revision |-> 1]
<1>0. ListTypeOK /\ Layout
  BY DEF ListInv
<1>1. /\ call.pc = "append" /\ call.i <= Len(list) /\ ~Copied(list[call.i])
      /\ disk' = Append(disk, s) /\ Go("fill", call.i)
      /\ UNCHANGED <<list, opts, want, obj, extra, scanned, dirty, gone>>
  BY DEF Create, Appending, Flushing, KeepList, Next_
<1>2. AppendPhase /\ AppendNumbers
  BY <1>1, AppendFacts DEF AppendPhase
<1>3. /\ call' \in FlushCalls /\ call'.pc = "fill" /\ call'.i = call.i /\ call'.how = call.how
      /\ call'.count = call.count /\ call'.prefix = call.prefix /\ call'.before = call.before
      /\ call'.serialized = call.serialized
  BY <1>1, <1>2, GoFacts DEF AppendPhase, AppendNumbers
<1>4. s \in Slots
  <2>1. Next_ \in Obj
    BY <1>1, <1>2 DEF Next_, AppendPhase, AppendNumbers
  <2> QED BY <2>1 DEF Slots, Headers, Header
<1> HIDE DEF s
<1>5. /\ disk' \in Seq(Slots) /\ Len(disk') = Len(disk) + 1
      /\ \A j \in 1 .. Len(disk) : disk'[j] = disk[j]
  BY <1>0, <1>1, <1>4, AppendProperties DEF ListTypeOK
<1>6. FrontStays
  BY <1>1, <1>2, <1>5, SMTT(30) DEF FrontStays, AppendNumbers
<1>7. Len(disk') >= Len(disk) /\ call.count <= Len(disk') /\ \A j \in 1 .. call.count : disk'[j] = disk[j]
  BY <1>2, <1>5 DEF AppendNumbers
<1>8. Appended'
  <2>1. ASSUME NEW k \in call.prefix + 1 .. call.i - 1
        PROVE  AppendedAt(list[k], call.count + (k - call.prefix))'
    <3>1. list[k] \in call'.serialized => list[k] \in call.serialized
      BY <1>3
    <3> QED BY <3>1, <1>1, <1>3, <1>5, <1>6, <1>7, AppendedKept, Zenon
  <2> QED BY <2>1, <1>3, Zenon DEF Appended
<1>9. AppendProgress'
  <2>1. call.i \in call.prefix + 1 .. Len(list) + 1
    BY <1>2 DEF AppendNumbers
  <2>2. Len(disk') = call.count + (call.i - call.prefix)
    BY <1>1, <1>2, <1>5 DEF AppendNumbers
  <2>3. ~Copied(list[call.i])'
    BY <1>1, <1>3 DEF Copied
  <2> QED BY <2>1, <2>2, <2>3, <1>1, <1>3 DEF AppendProgress
<1>10. Appends' /\ \A q \in call'.serialized : ~obj[q].attached
  BY <1>0, <1>1, <1>3 DEF Appends, Layout
<1> QED BY <1>1, <1>3, <1>6, <1>7, <1>8, <1>9, <1>10, AppendStep

LEMMA FillStep ==
    ASSUME ListInv, Fill
    PROVE  ListInv'
<1> DEFINE s == [header |-> obj[Next_].header, data |-> obj[Next_].data, revision |-> 2]
<1>0. ListTypeOK /\ Memory /\ Layout /\ AppendProgress
  BY DEF ListInv
<1>p. PICK o, n : o = list[call.i] /\ n = Len(disk)
  OBVIOUS
<1>1. /\ call.pc = "fill" /\ disk' = [disk EXCEPT ![n] = s]
      /\ call' = [call EXCEPT !.pc = "append", !.i = @ + 1, !.serialized = @ \cup {o}]
      /\ UNCHANGED <<list, opts, want, obj, extra, scanned, dirty, gone>>
  BY <1>p DEF Fill, Flushing, KeepList, Next_
<1>2. AppendPhase /\ AppendNumbers
  BY <1>1, AppendFacts DEF AppendPhase
<1>3. call.i <= Len(list) /\ ~Copied(Next_) /\ call.i \in 1 .. Len(list)
  BY <1>0, <1>1, <1>2 DEF AppendProgress, Next_, AppendNumbers
<1>4. o \in Obj /\ ~obj[o].attached
  BY <1>1, <1>2, <1>3, <1>p, UncopiedIsDetached DEF Next_, AppendPhase
<1>5. /\ s \in Slots /\ s.header = want[o].header /\ s.data # None
      /\ s.data = want[o].data /\ s.data.of = o
  <2>1. /\ obj[o].header # None /\ obj[o].header = want[o].header /\ obj[o].data # None
        /\ obj[o].data = want[o].data /\ want[o].data.of = o /\ obj[o] \in Objects
    BY <1>0, <1>4 DEF Memory, ListTypeOK
  <2> QED BY <2>1, <1>p DEF Next_, Slots, Objects
<1> HIDE DEF s
<1>6. /\ call' \in FlushCalls /\ call'.pc = "append" /\ call'.i = call.i + 1
      /\ call'.how = call.how
      /\ call'.count = call.count /\ call'.prefix = call.prefix /\ call'.before = call.before
      /\ call'.serialized = call.serialized \cup {o}
  <2>1. call.serialized \cup {o} \in SUBSET Obj /\ call.i + 1 \in Nat
    BY <1>2, <1>4 DEF AppendPhase, AppendNumbers, FlushCalls
  <2>2. PICK i, t : i = call.i + 1 /\ t = call.serialized \cup {o}
    OBVIOUS
  <2>3. call' = [call EXCEPT !.pc = "append", !.i = i, !.serialized = t]
    BY <1>1, <2>2
  <2>4. call \in FlushCalls /\ i \in Nat /\ t \in SUBSET Obj
    BY <2>1, <2>2, <1>2 DEF AppendPhase
  <2>5. /\ call' \in FlushCalls /\ call'.pc = "append" /\ call'.i = i /\ call'.how = call.how
        /\ call'.count = call.count /\ call'.prefix = call.prefix
        /\ call'.before = call.before /\ call'.serialized = t
    BY <2>3, <2>4 DEF FlushCalls
  <2> QED BY <2>2, <2>5
<1>7. n \in 1 .. Len(disk) /\ n = call.count + (call.i - call.prefix) /\ n > call.count
  BY <1>1, <1>2, <1>p, SMTT(30) DEF AppendNumbers
<1>8. /\ disk' \in Seq(Slots) /\ Len(disk') = Len(disk) /\ disk'[n] = s
      /\ \A j \in 1 .. Len(disk) : j # n => disk'[j] = disk[j]
  BY <1>0, <1>1, <1>5, <1>7, ExceptSeq, LenProperties DEF ListTypeOK
<1>9. /\ FrontStays /\ Len(disk') >= Len(disk) /\ call.count <= Len(disk')
      /\ \A j \in 1 .. call.count : disk'[j] = disk[j]
  BY <1>1, <1>2, <1>7, <1>8 DEF FrontStays, AppendNumbers
<1>10. \A j \in 1 .. Len(disk) : call.pc = "append" \/ j < Len(disk) => disk'[j] = disk[j]
  BY <1>1, <1>2, <1>8, <1>p DEF AppendNumbers
<1>11. AppendedAt(o, n)'
  <2>1. n \in DOMAIN disk'
    BY <1>7, <1>8, LenProperties
  <2> QED BY <2>1, <1>1, <1>5, <1>8 DEF AppendedAt
<1>12. Appended'
  <2>1. ASSUME NEW k \in call'.prefix + 1 .. call'.i - 1
        PROVE  AppendedAt(list[k], call.count + (k - call.prefix))'
    <3>1. CASE k = call.i
      BY <3>1, <1>1, <1>6, <1>7, <1>11, <1>p
    <3>2. CASE k # call.i
      <4>1. k \in call.prefix + 1 .. call.i - 1
        BY <2>1, <3>2, <1>2, <1>6 DEF AppendNumbers
      <4>2. k \in DOMAIN list /\ call.i \in DOMAIN list
        BY <4>1, <1>2, <1>3 DEF AppendNumbers, AppendPhase
      <4>3. \A a, b \in DOMAIN list : list[a] = list[b] => a = b
        BY <1>0, <1>1 DEF Layout, IsInjective
      <4>4. list[k] # o
        BY <4>2, <4>3, <3>2, <1>p, Zenon
      <4>5. list[k] \in call'.serialized => list[k] \in call.serialized
        BY <4>4, <1>6
      <4>6. call.pc \in {"append", "fill"}
        BY <1>1
      <4> QED BY <4>1, <4>5, <4>6, <1>6, <1>9, <1>10, AppendedKept, Zenon
    <3> QED BY <3>1, <3>2
  <2> QED BY <2>1, <1>6 DEF Appended
<1>13. AppendProgress'
  <2>1. call.i + 1 \in call.prefix + 1 .. Len(list) + 1
    BY <1>2, <1>3 DEF AppendNumbers
  <2>2. Len(disk') = call.count + ((call.i + 1) - call.prefix) - 1
    BY <1>2, <1>7, <1>8, <1>p DEF AppendNumbers
  <2> QED BY <2>1, <2>2, <1>1, <1>6 DEF AppendProgress
<1>14. Appends' /\ \A q \in call'.serialized : ~obj[q].attached
  BY <1>0, <1>1, <1>4, <1>6 DEF Appends, Layout
<1>15. call.pc \in {"append", "fill"} /\ extra' = extra
  BY <1>1
<1> QED BY <1>6, <1>9, <1>12, <1>13, <1>14, <1>15, AppendStep

LEMMA AppendFailsStep ==
    ASSUME ListInv, AppendFails
    PROVE  ListInv'
<1>1. /\ call.pc \in {"append", "fill"} /\ Go("undo", 0)
      /\ UNCHANGED <<list, opts, want, disk, obj, extra, scanned, dirty, gone>>
  BY DEF AppendFails, Appending, Flushing, KeepList
<1>2. AppendPhase /\ AppendNumbers /\ Layout
  BY <1>1, AppendFacts DEF AppendPhase, ListInv
<1>3. /\ call' \in FlushCalls /\ call'.pc = "undo" /\ call'.how = call.how
      /\ call'.count = call.count /\ call'.prefix = call.prefix /\ call'.before = call.before
      /\ call'.serialized = call.serialized
  BY <1>1, <1>2, GoFacts DEF AppendPhase
<1>4. FrontStays
  BY <1>1, <1>2 DEF FrontStays, AppendPhase, AppendNumbers, ListTypeOK
<1>5. /\ AppendProgress' /\ Appended' /\ Appends'
      /\ call.count <= Len(disk') /\ \A s \in 1 .. call.count : disk'[s] = disk[s]
      /\ \A o \in call'.serialized : ~obj[o].attached
  BY <1>1, <1>2, <1>3 DEF AppendProgress, Appended, Appends, AppendNumbers, Layout
<1> QED BY <1>1, <1>3, <1>4, <1>5, AppendStep

\* What is known while a flush undoes what it has appended.
LEMMA UndoFacts ==
    ASSUME ListInv, call.pc = "undo"
    PROVE  /\ ListTypeOK /\ call \in FlushCalls /\ Update /\ ~Halved /\ call.how # "conflict"
           /\ scanned \in Nat /\ call.count \in Nat /\ Len(disk) \in Nat
           /\ scanned <= call.count /\ call.count <= Len(disk) /\ (call.count = scanned \/ extra)
           /\ call.before \in Seq(Slots) /\ Len(call.before) = call.count
           /\ \A s \in 1 .. call.count : disk[s] = call.before[s]
<1>1. ListTypeOK /\ Rollback /\ DataProgress /\ call.how # "conflict"
  BY DEF ListInv
<1>2. call \in FlushCalls /\ scanned \in Nat /\ Len(disk) \in Nat
  BY <1>1, LenProperties DEF ListTypeOK
<1> QED BY <1>1, <1>2 DEF Rollback, Appends, DataProgress, Halved, FlushCalls

LEMMA UndoStep ==
    ASSUME ListInv, Undo
    PROVE  ListInv'
<1>1. /\ call.pc = "undo" /\ ~(Len(disk) <= call.count) /\ disk' = RemoveAt(disk, call.count + 1)
      /\ UNCHANGED <<call, list, opts, want, obj, extra, scanned, dirty, gone>>
  BY DEF Undo, Undone, Flushing, KeepList
<1>2. /\ ListTypeOK /\ call \in FlushCalls /\ ~Halved /\ call.how # "conflict" /\ Update
      /\ scanned \in Nat /\ call.count \in Nat /\ Len(disk) \in Nat
      /\ scanned <= call.count /\ (call.count = scanned \/ extra)
      /\ Len(call.before) = call.count /\ \A s \in 1 .. call.count : disk[s] = call.before[s]
  BY <1>1, UndoFacts
<1>c. PICK c : c = call.count + 1
  OBVIOUS
<1>3. c \in 1 .. Len(disk) /\ disk \in Seq(Slots) /\ disk' = RemoveAt(disk, c)
  BY <1>1, <1>2, <1>c DEF ListTypeOK
<1>4. /\ disk' \in Seq(Slots) /\ Len(disk') = Len(disk) - 1
      /\ \A j \in 1 .. Len(disk) - 1 :
           disk'[j] = IF j < c THEN disk[j] ELSE disk[j + 1]
  BY <1>3, RemoveFacts
<1>5. call.count <= Len(disk') /\ \A j \in 1 .. call.count : disk'[j] = disk[j]
  <2>1. call.count = c - 1 /\ c \in 1 .. Len(disk)
    BY <1>2, <1>3, <1>c
  <2> QED BY <2>1, <1>2, <1>4
<1>6. FrontStays /\ ~Halved'
  BY <1>1, <1>2, <1>4, <1>5 DEF FrontStays, Halved
<1>7. Memory' /\ Homes' /\ NeverMissing' /\ (Update' <=> Update)
  BY <1>1, <1>2, <1>6, HomesStay
<1>8. ListTypeOK'
  BY <1>1, <1>2, <1>4 DEF ListTypeOK
<1>9. Rollback'
  BY <1>1, <1>2, <1>5 DEF Rollback, AppendRollsBack, Resting, Appends
<1> QED BY <1>1, <1>2, <1>7, <1>8, <1>9
    DEF ListInv, Layout, AppendProgress, Appended, DeleteProgress, Remaining, DataProgress, Extent,
        Flushed, Resting

LEMMA UndoneStep ==
    ASSUME ListInv, UndoEnds \/ UndoFails
    PROVE  ListInv'
<1>1. /\ call.pc = "undo" /\ UNCHANGED <<disk, list, opts, want, obj, scanned, dirty, gone>>
      /\ \/ Len(disk) <= call.count /\ Raise("undone") /\ extra' = extra
         \/ Raise("raised") /\ extra' = TRUE
  BY DEF UndoEnds, UndoFails, Undone, Flushing, KeepList
<1>2. /\ ListTypeOK /\ call \in FlushCalls /\ ~Halved /\ Update
      /\ scanned \in Nat /\ call.count \in Nat /\ Len(disk) \in Nat
      /\ scanned <= call.count /\ call.count <= Len(disk) /\ (call.count = scanned \/ extra)
      /\ call.before \in Seq(Slots) /\ Len(call.before) = call.count
      /\ \A s \in 1 .. call.count : disk[s] = call.before[s]
  BY <1>1, UndoFacts
<1>3. /\ call' \in FlushCalls /\ call'.pc = "idle" /\ call'.how \in {"undone", "raised"}
      /\ call'.before = call.before /\ ~Halved'
      /\ call'.how = "undone" => Len(disk) <= call.count /\ extra' = extra
      /\ call'.how = "raised" => extra' = TRUE
  BY <1>1, <1>2, RaiseFacts
<1>4. FrontStays
  BY <1>1, <1>2 DEF FrontStays, ListTypeOK
<1>5. Memory' /\ Homes' /\ NeverMissing' /\ (Update' <=> Update)
  BY <1>1, <1>2, <1>3, <1>4, HomesStay
<1>6. ListTypeOK'
  BY <1>1, <1>2, <1>3 DEF ListTypeOK
<1>7. call'.how = "undone" => disk = call.before /\ (Len(disk) = scanned \/ extra')
  <2>1. SUFFICES ASSUME call'.how = "undone" PROVE disk = call.before /\ (Len(disk) = scanned \/ extra')
    OBVIOUS
  <2>2. Len(disk) = call.count
    BY <2>1, <1>2, <1>3
  <2>3. disk = call.before
    BY <2>2, <1>2, SeqEqual DEF ListTypeOK
  <2> QED BY <2>1, <2>2, <2>3, <1>2, <1>3
<1>8. Rollback' /\ Extent'
  BY <1>1, <1>3, <1>7 DEF Rollback, AppendRollsBack, Resting, Appends, Extent
<1> QED BY <1>3, <1>5, <1>6, <1>8
    DEF ListInv, Layout, AppendProgress, Appended, DeleteProgress, Remaining, DataProgress,
        Flushed, Resting

-----------------------------------------------------------------------------
(* The delete phase.                                                        *)

\* What is known while a flush deletes.
DeleteNumbers ==
    /\ call.count \in Nat /\ call.i \in Nat /\ call.prefix \in Nat
    /\ Len(disk) \in Nat /\ Len(list) \in Nat
    /\ 1 <= call.prefix /\ call.prefix <= Len(list) /\ call.i <= call.count - call.prefix
    /\ call.prefix <= call.count
    /\ Len(disk) = call.count - call.i + (Len(list) - call.prefix)
DeletePhase ==
    /\ ListTypeOK /\ Memory /\ Update /\ call \in FlushCalls /\ IsInjective(list)
    /\ DeleteNumbers
    /\ DOMAIN disk = 1 .. Len(disk) /\ DOMAIN list = 1 .. Len(list)
    /\ \A k \in 1 .. Len(list) : list[k] \in Obj /\ list[k] \in Listed
    /\ \A o \in Listed : \E k \in 1 .. Len(list) : list[k] = o
    /\ \A k \in 1 .. call.prefix : /\ AttachedAt(list[k], k)
                                   /\ Keeps(list[k], k) /\ RevisionKnown(list[k], k)

LEMMA DeleteFacts ==
    ASSUME ListInv, call.pc = "delete"
    PROVE  DeletePhase
<1>1. ListTypeOK /\ Memory /\ Layout /\ DeleteProgress /\ Remaining
  BY DEF ListInv
<1>2. /\ call.count \in Nat /\ call.i \in Nat /\ call.prefix \in Nat
      /\ disk \in Seq(Slots) /\ list \in Seq(Obj) /\ call \in FlushCalls
  BY <1>1 DEF ListTypeOK, FlushCalls
<1>3. /\ Len(disk) \in Nat /\ Len(list) \in Nat
      /\ DOMAIN disk = 1 .. Len(disk) /\ DOMAIN list = 1 .. Len(list)
      /\ \A k \in 1 .. Len(list) : list[k] \in Obj /\ list[k] \in Listed
      /\ \A o \in Listed : \E k \in 1 .. Len(list) : list[k] = o
  BY <1>2, LenProperties, ToSetFacts DEF Listed
<1>4. /\ call.i \in 0 .. call.count - call.prefix /\ call.prefix \in 1 .. Len(list)
      /\ Len(disk) = call.count - call.i + (Len(list) - call.prefix)
      /\ call.prefix <= call.count /\ Update /\ IsInjective(list)
  BY <1>1, Zenon DEF DeleteProgress, Layout
<1>5. \A k \in 1 .. call.prefix : /\ AttachedAt(list[k], k)
                                  /\ Keeps(list[k], k) /\ RevisionKnown(list[k], k)
  BY <1>1, Zenon DEF Layout, Remaining
<1>6. DeleteNumbers
  <2>1. 1 <= call.prefix /\ call.prefix <= Len(list) /\ call.i <= call.count - call.prefix
    BY <1>2, <1>3, <1>4
  <2> QED BY <2>1, <1>2, <1>3, <1>4, Zenon DEF DeleteNumbers
<1> QED BY <1>1, <1>2, <1>3, <1>4, <1>5, <1>6, Zenon DEF DeletePhase

\* Where the k-th HDU of the list was appended, and is after one more deletion.
LEMMA RemainingBounds ==
    ASSUME DeleteNumbers
    PROVE  \A k, s : /\ k \in call.prefix + 1 .. Len(list)
                     /\ s = call.count - call.i + (k - call.prefix)
                  => /\ s \in 1 .. Len(disk) /\ s > call.prefix /\ k \in 1 .. Len(list)
                     /\ call.i < call.count - call.prefix =>
                           s - 1 \in 1 .. Len(disk) - 1 /\ s - 1 > call.prefix
                     /\ s - 1 = call.count - (call.i + 1) + (k - call.prefix)
<1>1. PICK c, p, i, n, m : /\ c = call.count /\ p = call.prefix /\ i = call.i
                           /\ n = Len(disk) /\ m = Len(list)
  OBVIOUS
<1>2. /\ c \in Nat /\ p \in Nat /\ i \in Nat /\ n \in Nat /\ m \in Nat
      /\ 1 <= p /\ p <= m /\ p <= c /\ i <= c - p /\ n = c - i + (m - p)
  BY <1>1, Zenon DEF DeleteNumbers
<1>3. \A k, s : k \in p + 1 .. m /\ s = c - i + (k - p)
                => /\ s \in 1 .. n /\ s > p /\ k \in 1 .. m
                   /\ i < c - p => s - 1 \in 1 .. n - 1 /\ s - 1 > p
                   /\ s - 1 = c - (i + 1) + (k - p)
  BY <1>2
<1> QED BY <1>1, <1>3, Zenon

\* Each HDU of the list is where it was appended.
LEMMA RemainingAt ==
    ASSUME ListInv, call.pc = "delete", NEW k, k \in call.prefix + 1 .. Len(list),
           NEW s, s = call.count - call.i + (k - call.prefix)
    PROVE  AppendedAt(list[k], s)
BY Zenon DEF ListInv, Remaining

LEMMA AppendEndsStep ==
    ASSUME ListInv, AppendEnds
    PROVE  ListInv'
<1>0. ListTypeOK /\ Memory /\ Homes /\ Layout /\ AppendProgress /\ Appended /\ NeverMissing
  BY DEF ListInv
<1>1. /\ call.pc = "append" /\ call.i > Len(list) /\ Go("delete", 0)
      /\ UNCHANGED <<list, opts, want, disk, obj, extra, scanned, dirty, gone>>
  BY DEF AppendEnds, Flushing, KeepList
<1>2. AppendPhase /\ AppendNumbers
  BY <1>1, AppendFacts DEF AppendPhase
<1>3. /\ call' \in FlushCalls /\ call'.pc = "delete" /\ call'.i = 0 /\ call'.how = call.how
      /\ call'.count = call.count /\ call'.prefix = call.prefix
      /\ call'.serialized = call.serialized /\ ~Halved' /\ ~Flushed'
  BY <1>1, <1>2, GoFacts DEF AppendPhase
<1>4. call.i = Len(list) + 1 /\ (Update' <=> Update)
  BY <1>1, <1>2 DEF AppendNumbers, Update
<1>5. ListTypeOK' /\ Memory' /\ NeverMissing'
  BY <1>0, <1>1, <1>3, <1>4 DEF ListTypeOK, Memory, NeverMissing, Listed
<1>6. Layout'
  BY <1>0, <1>1, <1>3, <1>4 DEF Layout, AttachedAt
<1>7. DeleteProgress'
  <2>1. call.prefix <= call.count
    BY <1>0, <1>1 DEF Layout
  <2>2. 0 \in 0 .. call.count - call.prefix /\ Len(disk) = call.count - 0 + (Len(list) - call.prefix)
    BY <2>1, <1>1, <1>2, <1>4, SMTT(30) DEF AppendNumbers
  <2> QED BY <2>2, <1>1, <1>3 DEF DeleteProgress
<1>8. Remaining'
  <2>1. ASSUME NEW k \in 1 .. call.prefix
        PROVE  Keeps(list[k], k)' /\ RevisionKnown(list[k], k)'
    <3>1. k \in 1 .. Len(list) /\ AttachedAt(list[k], k)
      BY <1>0, <1>1, <1>2 DEF Layout, AppendNumbers
    <3>2. list[k] \in Obj /\ Live(list[k]) /\ obj[list[k]].index = k
      BY <3>1, <1>0, <1>2 DEF AppendPhase, Memory, Live, AttachedAt
    <3>3. Keeps(list[k], k) /\ RevisionKnown(list[k], k)
      BY <3>2, <1>0, <1>2 DEF Homes, AppendPhase
    <3> QED BY <3>3, <1>1, <1>4 DEF Keeps, HeaderKept, DataKept, RevisionKnown, Changed
  <2>2. ASSUME NEW k, k \in (call.prefix + 1 .. Len(list))'
        PROVE  AppendedAt(list[k], call.count - call.i + (k - call.prefix))'
    <3>1. call.prefix + 1 .. Len(list) = call.prefix + 1 .. call.i - 1
      BY <1>2, <1>4 DEF AppendNumbers
    <3>2. PICK s, o : s = call.count + (k - call.prefix) /\ o = list[k]
      OBVIOUS
    <3>3. call.pc \in {"append", "fill"} /\ k \in call.prefix + 1 .. call.i - 1
      BY <1>1, <1>3, <2>2, <3>1
    <3>4. AppendedAt(o, s)
      BY <3>2, <3>3, <1>0, Zenon DEF Appended
    <3>5. AppendedAt(o, s)'
      BY <3>4, <1>1, <1>3, Zenon DEF AppendedAt, Changed
    <3>6. call'.count - call'.i = call.count
      BY <1>2, <1>3 DEF AppendNumbers
    <3> QED BY <3>2, <3>5, <3>6, <1>1, <1>3, Zenon
  <2> QED BY <2>1, <2>2, <1>1, <1>3, Zenon DEF Remaining
<1>9. Rollback'
  BY <1>3 DEF Rollback, Appends, AppendRollsBack, Resting
<1> QED BY <1>2, <1>3, <1>4, <1>5, <1>6, <1>7, <1>8, <1>9
    DEF ListInv, Homes, AppendProgress, Appended, DataProgress, Extent, AppendPhase

\* One more original goes: what was appended behind it is one slot nearer the front.
LEMMA DeletedFacts ==
    ASSUME ListInv, call.pc = "delete", call.i < call.count - call.prefix,
           disk' = RemoveAt(disk, Victim), UNCHANGED <<list, obj, want, opts, dirty, gone>>
    PROVE  /\ disk' \in Seq(Slots) /\ Len(disk') = Len(disk) - 1
           /\ \A k \in 1 .. call.prefix : Keeps(list[k], k)' /\ RevisionKnown(list[k], k)'
           /\ \A k, s : k \in call.prefix + 1 .. Len(list)
                        /\ s = call.count - call.i + (k - call.prefix)
                        => s - 1 \in DOMAIN disk' /\ disk'[s - 1] = disk[s]
           /\ NeverMissing'
<1>1. DeletePhase /\ DeleteNumbers /\ disk \in Seq(Slots)
  BY DeleteFacts DEF DeletePhase, ListTypeOK
<1>p. PICK v, p, n : v = call.prefix + 1 /\ p = call.prefix /\ n = Len(disk)
  OBVIOUS
<1>2. v \in 1 .. n /\ v = p + 1 /\ p \in Nat /\ n \in Nat /\ disk' = RemoveAt(disk, v)
  BY <1>1, <1>p, SMTT(30) DEF DeleteNumbers, Victim
<1>3. /\ disk' \in Seq(Slots) /\ Len(disk') = n - 1 /\ DOMAIN disk' = 1 .. n - 1
      /\ \A j \in 1 .. n - 1 : disk'[j] = IF j < v THEN disk[j] ELSE disk[j + 1]
  <2>1. /\ disk' \in Seq(Slots) /\ Len(disk') = n - 1
        /\ \A j \in 1 .. n - 1 : disk'[j] = IF j < v THEN disk[j] ELSE disk[j + 1]
    <3>1. disk \in Seq(Slots) /\ v \in 1 .. Len(disk) /\ disk' = RemoveAt(disk, v)
      BY <1>1, <1>2, <1>p, Zenon
    <3>2. /\ disk' \in Seq(Slots) /\ Len(disk') = Len(disk) - 1
          /\ \A j \in 1 .. Len(disk) - 1 : disk'[j] = IF j < v THEN disk[j] ELSE disk[j + 1]
      <4>1. \A q \in Seq(Slots) : \A w \in 1 .. Len(q) :
                 /\ RemoveAt(q, w) \in Seq(Slots) /\ Len(RemoveAt(q, w)) = Len(q) - 1
                 /\ \A j \in 1 .. Len(q) - 1 :
                      RemoveAt(q, w)[j] = IF j < w THEN q[j] ELSE q[j + 1]
        BY RemoveFacts, Zenon
      <4>2. /\ RemoveAt(disk, v) \in Seq(Slots) /\ Len(RemoveAt(disk, v)) = Len(disk) - 1
            /\ \A j \in 1 .. Len(disk) - 1 :
                 RemoveAt(disk, v)[j] = IF j < v THEN disk[j] ELSE disk[j + 1]
        BY <3>1, <4>1, ZenonT(30)
      <4> QED BY <3>1, <4>2, ZenonT(30)
    <3> QED BY <3>2, <1>p, Zenon
  <2> QED BY <2>1, LenProperties
<1>4. (Update' <=> Update) /\ Listed' = Listed
  BY DEF Update, Listed
<1>5. ASSUME NEW k \in 1 .. p
      PROVE  /\ k \in DOMAIN disk' /\ Keeps(list[k], k)' /\ RevisionKnown(list[k], k)'
  <2>1. k \in 1 .. n - 1 /\ k < v
    <3>1. PICK c, i, m : c = call.count /\ i = call.i /\ m = Len(list)
      OBVIOUS
    <3>2. /\ c \in Nat /\ i \in Nat /\ m \in Nat /\ p <= m /\ i < c - p
          /\ n = c - i + (m - p)
      BY <3>1, <1>1, <1>p, Zenon DEF DeleteNumbers
    <3> QED BY <3>2, <1>2
  <2>2. disk'[k] = disk[k] /\ k \in DOMAIN disk'
    BY <2>1, <1>3
  <2>3. Keeps(list[k], k) /\ RevisionKnown(list[k], k)
    BY <1>1, <1>p DEF DeletePhase
  <2> QED BY <2>2, <2>3, <1>4 DEF Keeps, HeaderKept, DataKept, RevisionKnown, Changed
<1>6. ASSUME NEW k, NEW s, k \in call.prefix + 1 .. Len(list), s = call.count - call.i + (k - call.prefix)
      PROVE  s - 1 \in DOMAIN disk' /\ disk'[s - 1] = disk[s]
  <2>1. s \in 1 .. n /\ s - 1 \in 1 .. n - 1 /\ s - 1 > p
    BY <1>1, <1>6, <1>p, RemainingBounds, Zenon
  <2>2. PICK t : t = s - 1
    OBVIOUS
  <2>3. t \in 1 .. n - 1 /\ ~(t < v) /\ t + 1 = s
    BY <2>1, <2>2, <1>2
  <2> QED BY <2>2, <2>3, <1>3
<1>7. NeverMissing'
  <2>1. ASSUME Update, NEW o \in Listed
        PROVE  \E t \in DOMAIN disk' : /\ disk'[t].header = want[o].header
                                      /\ disk'[t].data # None /\ disk'[t].data.of = o
    <3>1. PICK k \in 1 .. Len(list) : list[k] = o
      BY <2>1, <1>1 DEF DeletePhase
    <3>2. CASE k <= call.prefix
      <4>1. k \in 1 .. p
        BY <3>1, <3>2, <1>2, <1>p
      <4> QED BY <4>1, <3>1, <2>1, <1>4, <1>5 DEF Keeps, HeaderKept, DataKept
    <3>3. CASE ~(k <= call.prefix)
      <4>1. k \in call.prefix + 1 .. Len(list)
        BY <3>1, <3>3, <1>1 DEF DeleteNumbers
      <4>2. PICK s : s = call.count - call.i + (k - call.prefix)
        OBVIOUS
      <4>3. AppendedAt(o, s)
        BY <4>1, <4>2, <3>1, RemainingAt, Zenon
      <4>4. s - 1 \in DOMAIN disk' /\ disk'[s - 1] = disk[s]
        BY <4>1, <4>2, <1>6, Zenon
      <4> QED BY <4>3, <4>4, Zenon DEF AppendedAt
    <3> QED BY <3>2, <3>3
  <2> QED BY <2>1, <1>4 DEF NeverMissing
<1>8. Len(disk') = Len(disk) - 1
  BY <1>3, <1>p
<1> QED BY <1>3, <1>5, <1>6, <1>7, <1>8, <1>p, Zenon

LEMMA DeleteStep ==
    ASSUME ListInv, Delete
    PROVE  ListInv'
<1>0. ListTypeOK /\ Memory /\ Layout /\ call.how # "conflict"
  BY DEF ListInv
<1>1. /\ call.pc = "delete" /\ call.i < call.count - call.prefix
      /\ disk' = RemoveAt(disk, Victim) /\ Go("delete", call.i + 1)
      /\ UNCHANGED <<list, opts, want, obj, extra, scanned, dirty, gone>>
  BY DEF Delete, Deleting, Flushing, KeepList
<1>2. DeletePhase /\ DeleteNumbers
  BY <1>1, DeleteFacts DEF DeletePhase
<1>3. /\ call' \in FlushCalls /\ call'.pc = "delete" /\ call'.i = call.i + 1
      /\ call'.how = call.how /\ call'.count = call.count /\ call'.prefix = call.prefix
      /\ call'.serialized = call.serialized /\ ~Halved' /\ ~Flushed'
  <2>1. call.i + 1 \in Nat /\ call \in FlushCalls
    BY <1>2 DEF DeletePhase, DeleteNumbers
  <2> QED BY <2>1, <1>1, GoFacts
<1>4. /\ disk' \in Seq(Slots) /\ Len(disk') = Len(disk) - 1 /\ NeverMissing'
      /\ \A k \in 1 .. call.prefix : Keeps(list[k], k)' /\ RevisionKnown(list[k], k)'
      /\ \A k, s : k \in call.prefix + 1 .. Len(list)
                   /\ s = call.count - call.i + (k - call.prefix)
                   => s - 1 \in DOMAIN disk' /\ disk'[s - 1] = disk[s]
  BY <1>1, DeletedFacts
<1>5. (Update' <=> Update) /\ Listed' = Listed
  BY <1>1 DEF Update, Listed
<1>6. ListTypeOK' /\ Memory'
  BY <1>0, <1>1, <1>3, <1>4, <1>5 DEF ListTypeOK, Memory
<1>7. Layout'
  BY <1>0, <1>1, <1>3, <1>5 DEF Layout, AttachedAt
<1>8. DeleteProgress'
  <2>1. /\ call.i + 1 \in 0 .. call.count - call.prefix
        /\ Len(disk') = call.count - (call.i + 1) + (Len(list) - call.prefix)
    <3>1. PICK c, q, i, m, n : /\ c = call.count /\ q = call.prefix /\ i = call.i
                               /\ m = Len(list) /\ n = Len(disk)
      OBVIOUS
    <3>2. /\ c \in Nat /\ q \in Nat /\ i \in Nat /\ m \in Nat /\ q <= m /\ i < c - q
          /\ n = c - i + (m - q) /\ Len(disk') = n - 1
      BY <3>1, <1>1, <1>2, <1>4, Zenon DEF DeleteNumbers
    <3>3. i + 1 \in 0 .. c - q /\ Len(disk') = c - (i + 1) + (m - q)
      BY <3>2
    <3> QED BY <3>1, <3>3, Zenon
  <2>2. /\ call'.i \in 0 .. call'.count - call'.prefix
        /\ Len(disk') = call'.count - call'.i + (Len(list') - call'.prefix)
    BY <2>1, <1>1, <1>3, Zenon
  <2> QED BY <2>2, Zenon DEF DeleteProgress
<1>9. Remaining'
  <2>1. ASSUME NEW k, k \in (call.prefix + 1 .. Len(list))'
        PROVE  AppendedAt(list[k], call.count - call.i + (k - call.prefix))'
    <3>0. k \in call.prefix + 1 .. Len(list)
      BY <2>1, <1>1, <1>3, Zenon
    <3>1. PICK s, t, o : /\ s = call.count - call.i + (k - call.prefix) /\ o = list[k]
                         /\ t = s - 1
      OBVIOUS
    <3>2. AppendedAt(o, s)
      BY <3>0, <3>1, <1>1, RemainingAt, Zenon
    <3>3. t \in DOMAIN disk' /\ disk'[t] = disk[s]
      BY <3>0, <3>1, <1>4, Zenon
    <3>4. t = call.count - (call.i + 1) + (k - call.prefix)
      BY <3>0, <3>1, <1>2, RemainingBounds, Zenon
    <3>5. AppendedAt(o, t)'
      <4>1. want' = want /\ obj' = obj /\ call'.serialized = call.serialized
        BY <1>1, <1>3
      <4> QED BY <3>2, <3>3, <4>1, Zenon DEF AppendedAt, Changed
    <3>6. call.count - (call.i + 1) = call'.count - call'.i
      BY <1>3
    <3> QED BY <3>1, <3>4, <3>5, <3>6, <1>1, <1>3, Zenon
  <2> QED BY <2>1, <1>1, <1>3, <1>4, Zenon DEF Remaining
<1>10. Rollback'
  BY <1>3 DEF Rollback, Appends, AppendRollsBack, Resting
<1> QED BY <1>0, <1>2, <1>3, <1>4, <1>5, <1>6, <1>7, <1>8, <1>9, <1>10
    DEF ListInv, Homes, AppendProgress, Appended, DataProgress, Extent, DeletePhase

LEMMA DeleteFailsStep ==
    ASSUME ListInv, DeleteFails
    PROVE  ListInv'
<1>0. ListTypeOK /\ Memory /\ NeverMissing
  BY DEF ListInv
<1>1. /\ call.pc = "delete" /\ call.i < call.count - call.prefix /\ Raise("displaced")
      /\ disk' = disk \/ disk' = RemoveAt(disk, Victim)
      /\ UNCHANGED <<list, opts, want, obj, extra, scanned, dirty, gone>>
  BY DEF DeleteFails, Deleting, Flushing, KeepList
<1>2. DeletePhase
  BY <1>1, DeleteFacts
<1>3. /\ call' \in FlushCalls /\ call'.pc = "idle" /\ call'.how = "displaced" /\ Halved'
  BY <1>1, <1>2, RaiseFacts DEF DeletePhase
<1>4. (Update' <=> Update) /\ Listed' = Listed
  BY <1>1 DEF Update, Listed
<1>5. disk' \in Seq(Slots) /\ NeverMissing'
  <2>1. CASE disk' = disk
    BY <2>1, <1>0, <1>1, <1>4 DEF NeverMissing, ListTypeOK
  <2>2. CASE disk' = RemoveAt(disk, Victim)
    BY <2>2, <1>1, DeletedFacts
  <2> QED BY <2>1, <2>2, <1>1
<1>6. ListTypeOK' /\ Memory'
  BY <1>0, <1>1, <1>3, <1>4, <1>5 DEF ListTypeOK, Memory
<1> QED BY <1>3, <1>5, <1>6
    DEF ListInv, Homes, Layout, AppendProgress, Appended, DeleteProgress, Remaining, Rollback,
        Appends, AppendRollsBack, DataProgress, Extent, Flushed, Resting

\* What an object is once it is bound to its new slot.
LEMMA BoundFacts ==
    ASSUME ListTypeOK, Memory, NEW o \in Obj, NEW k \in Nat, NEW x, x = Bound(o, k)
    PROVE  /\ x \in Objects /\ x.attached /\ x.index = k /\ x.revision = 0
           /\ x.header = obj[o].header /\ x.data = obj[o].data
           /\ (x.header # None => x.hooks)
           /\ o \notin call.serialized => x.base = obj[o].base
           /\ o \in call.serialized => x.base = obj[o].data
<1>1. obj[o] \in Objects
  BY DEF ListTypeOK
<1>2. PICK h, b : /\ h = (obj[o].hooks \/ obj[o].header # None)
                  /\ b = IF o \in call.serialized THEN obj[o].data ELSE obj[o].base
  OBVIOUS
<1>3. h \in BOOLEAN /\ b \in Arrays \cup {None}
  BY <1>1, <1>2 DEF Objects
<1>4. x = [obj[o] EXCEPT !.attached = TRUE, !.index = k, !.revision = 0, !.hooks = h, !.base = b]
  BY <1>2 DEF Bound
<1>5. /\ x \in Objects /\ x.attached = TRUE /\ x.index = k /\ x.revision = 0 /\ x.hooks = h
      /\ x.base = b /\ x.header = obj[o].header /\ x.data = obj[o].data
  <2>1. PICK y : y = obj[o]
    OBVIOUS
  <2>2. /\ y \in Objects
        /\ x = [y EXCEPT !.attached = TRUE, !.index = k, !.revision = 0, !.hooks = h, !.base = b]
    BY <1>1, <1>4, <2>1
  <2>3. /\ x \in Objects /\ x.attached = TRUE /\ x.index = k /\ x.revision = 0 /\ x.hooks = h
        /\ x.base = b /\ x.header = y.header /\ x.data = y.data
    <3>0. x = [attached |-> TRUE, index |-> k, header |-> y.header, revision |-> 0,
               hooks |-> h, data |-> y.data, base |-> b]
      BY <2>2 DEF Objects
    <3>1. x \in Objects
      <4>1. y.header \in Headers \cup {None} /\ y.data \in Arrays \cup {None}
        BY <2>2 DEF Objects
      <4> QED BY <1>3, <3>0, <4>1 DEF Objects
    <3>2. x.attached = TRUE /\ x.hooks = h
      BY <1>3, <2>2 DEF Objects
    <3>3. x.index = k /\ x.revision = 0 /\ x.base = b
      BY <1>3, <2>2 DEF Objects
    <3>4. x.header = y.header /\ x.data = y.data
      BY <1>3, <2>2 DEF Objects
    <3> QED BY <3>1, <3>2, <3>3, <3>4
  <2> QED BY <2>1, <2>3
<1> QED BY <1>2, <1>5

LEMMA RebindStep ==
    ASSUME ListInv, Rebind
    PROVE  ListInv'
<1>0. ListTypeOK /\ Memory /\ Layout /\ call.how # "conflict"
  BY DEF ListInv
<1>1. /\ call.pc = "delete" /\ call.i >= call.count - call.prefix /\ scanned' = Len(list)
      /\ obj' = [o \in Obj |->
                    IF \E i \in call.prefix + 1 .. Len(list) : list[i] = o
                    THEN Bound(o, CHOOSE i \in DOMAIN list : list[i] = o) ELSE obj[o]]
      /\ gone' = {o \in Obj : obj[o].attached} \ Listed /\ extra' = FALSE /\ Go("data", 1)
      /\ UNCHANGED <<list, opts, want, disk, dirty>>
  BY DEF Rebind, Flushing
<1>2. DeletePhase /\ DeleteNumbers
  BY <1>1, DeleteFacts DEF DeletePhase
<1>p. PICK p, m : p = call.prefix /\ m = Len(list)
  OBVIOUS
<1>3. /\ p \in Nat /\ m \in Nat /\ p <= m /\ Len(disk) = m
      /\ DOMAIN list = 1 .. m /\ DOMAIN disk = 1 .. m
      /\ \A k \in 1 .. m : list[k] \in Obj /\ list[k] \in Listed
      /\ \A o \in Listed : \E k \in 1 .. m : list[k] = o
  BY <1>1, <1>2, <1>p DEF DeletePhase, DeleteNumbers
<1>4. \A j, k \in 1 .. m : list[j] = list[k] => j = k
  BY <1>2, <1>3 DEF DeletePhase, IsInjective
<1>5. /\ call' \in FlushCalls /\ call'.pc = "data" /\ call'.i = 1 /\ call'.how = call.how
      /\ ~Halved' /\ ~Flushed'
  BY <1>1, <1>2, GoFacts DEF DeletePhase
<1>6. /\ Listed' = Listed /\ list' = list /\ want' = want /\ disk' = disk /\ dirty' = dirty
      /\ Update /\ Update'
  BY <1>1, <1>2 DEF Listed, Update, DeletePhase
<1>7. ASSUME NEW k \in 1 .. p
      PROVE  /\ k \in 1 .. m /\ obj'[list[k]] = obj[list[k]] /\ AttachedAt(list[k], k)'
             /\ Keeps(list[k], k)' /\ RevisionKnown(list[k], k)'
  <2>1. k \in 1 .. m /\ list[k] \in Obj
    BY <1>3
  <2>2. ~ \E i \in call.prefix + 1 .. Len(list) : list[i] = list[k]
    BY <2>1, <1>3, <1>4, <1>p
  <2>3. obj'[list[k]] = obj[list[k]]
    BY <2>1, <2>2, <1>1
  <2>4. AttachedAt(list[k], k) /\ Keeps(list[k], k) /\ RevisionKnown(list[k], k)
    BY <1>2, <1>p DEF DeletePhase
  <2> QED BY <2>1, <2>3, <2>4, <1>6
      DEF AttachedAt, Keeps, HeaderKept, DataKept, RevisionKnown, Changed
<1>8. ASSUME NEW k \in p + 1 .. m
      PROVE  /\ k \in 1 .. m /\ obj'[list[k]] = Bound(list[k], k) /\ AttachedAt(list[k], k)'
             /\ Keeps(list[k], k)' /\ RevisionKnown(list[k], k)'
  <2>1. k \in 1 .. m /\ list[k] \in Obj /\ k \in Nat
    BY <1>3
  <2>2. \E i \in call.prefix + 1 .. Len(list) : list[i] = list[k]
    BY <1>p
  <2>3. (CHOOSE i \in DOMAIN list : list[i] = list[k]) = k
    BY <2>1, <1>3, <1>4
  <2>4. obj'[list[k]] = Bound(list[k], k)
    BY <2>1, <2>2, <2>3, <1>1
  <2>5. PICK o, x : o = list[k] /\ x = Bound(o, k)
    OBVIOUS
  <2>6. /\ x.attached /\ x.index = k /\ x.revision = 0
        /\ x.data = obj[o].data
        /\ o \notin call.serialized => x.base = obj[o].base
    BY <2>1, <2>5, <1>0, BoundFacts
  <2>7. AppendedAt(o, k)
    <3>1. PICK c, i, s : c = call.count /\ i = call.i /\ s = call.count - call.i + (k - call.prefix)
      OBVIOUS
    <3>2. AppendedAt(list[k], s)
      BY <3>1, <1>1, <1>p, RemainingAt, Zenon
    <3>3. s = c - i + (k - p) /\ c \in Nat /\ i \in Nat /\ p \in Nat /\ i >= c - p /\ i <= c - p
      BY <3>1, <1>1, <1>2, <1>p, Zenon DEF DeleteNumbers
    <3>4. s = k
      BY <3>3, <2>1
    <3> QED BY <3>2, <3>4, <2>5
  <2>8. obj'[o] = x
    BY <2>4, <2>5
  <2> QED BY <2>1, <2>4, <2>5, <2>6, <2>7, <2>8, <1>6
      DEF AttachedAt, AppendedAt, Keeps, HeaderKept, DataKept, RevisionKnown, Changed
<1>9. ASSUME NEW k \in 1 .. m
      PROVE  AttachedAt(list[k], k)' /\ Keeps(list[k], k)' /\ RevisionKnown(list[k], k)'
  <2>1. k \in 1 .. p \/ k \in p + 1 .. m
    BY <1>3
  <2> QED BY <2>1, <1>7, <1>8
<1>10. ASSUME NEW o \in Obj
       PROVE  \/ obj'[o] = obj[o]
              \/ \E k \in p + 1 .. m : o = list[k] /\ obj'[o] = Bound(o, k)
  <2>1. CASE \E i \in call.prefix + 1 .. Len(list) : list[i] = o
    BY <2>1, <1>8, <1>p
  <2>2. CASE ~ \E i \in call.prefix + 1 .. Len(list) : list[i] = o
    BY <2>2, <1>1
  <2> QED BY <2>1, <2>2
<1>11. ListTypeOK'
  <2>1. ASSUME NEW o \in Obj PROVE obj'[o] \in Objects
    <3>1. CASE obj'[o] = obj[o]
      BY <3>1, <1>0 DEF ListTypeOK
    <3>2. ASSUME NEW k \in p + 1 .. m, obj'[o] = Bound(o, k) PROVE obj'[o] \in Objects
      BY <3>2, <1>0, <1>3, BoundFacts
    <3> QED BY <3>1, <3>2, <1>10
  <2>2. obj' \in [Obj -> Objects]
    BY <2>1, <1>1
  <2>3. gone' \in SUBSET Obj /\ extra' \in BOOLEAN /\ scanned' \in Nat /\ opts' = opts
    BY <1>1, <1>3, <1>p
  <2> QED BY <2>2, <2>3, <1>0, <1>5, <1>6 DEF ListTypeOK
<1>12. Memory'
  <2>1. (Listed \cap gone = {})'
    BY <1>1, <1>6
  <2>2. ASSUME NEW o \in Obj
        PROVE  (/\ want[o].header.of = o /\ want[o].data.of = o
                /\ obj[o].header # None => obj[o].header = want[o].header
                /\ obj[o].data # None => obj[o].data = want[o].data
                /\ obj[o].base # None => /\ obj[o].data # None
                                        /\ obj[o].base.version <= obj[o].data.version
                /\ ~obj[o].attached => obj[o].header # None /\ obj[o].data # None /\ obj[o].base = None
                /\ obj[o].attached /\ Update /\ obj[o].header # None => obj[o].hooks)'
    <3>1. CASE obj'[o] = obj[o]
      BY <3>1, <1>0, <1>6 DEF Memory
    <3>2. ASSUME NEW k \in p + 1 .. m, o = list[k], obj'[o] = Bound(o, k)
          PROVE  /\ obj'[o].attached /\ obj'[o].header = obj[o].header
                 /\ obj'[o].data = obj[o].data /\ (obj'[o].header # None => obj'[o].hooks)
                 /\ o \notin call.serialized => obj'[o].base = obj[o].base
                 /\ o \in call.serialized => obj'[o].base = obj[o].data
                 /\ o \in call.serialized => obj[o].data \in Arrays
      <4>1. o \in call.serialized => obj[o].data # None /\ obj[o] \in Objects
        BY <1>0, <1>1 DEF Layout, Memory, ListTypeOK
      <4> QED BY <3>2, <4>1, <1>0, <1>3, BoundFacts DEF Objects
    <3>3. ASSUME NEW k \in p + 1 .. m, o = list[k], obj'[o] = Bound(o, k)
          PROVE  obj'[o].base # None => /\ obj'[o].data # None
                                       /\ obj'[o].base.version <= obj'[o].data.version
      BY <3>2, <3>3, <1>0 DEF Memory, Arrays
    <3> QED BY <3>1, <3>2, <3>3, <1>10, <1>0, <1>6 DEF Memory
  <2> QED BY <2>1, <2>2 DEF Memory
<1>13. ASSUME NEW o \in Obj, Live(o)'
       PROVE  \E k \in 1 .. m : o = list[k] /\ obj'[o].index = k
  <2>1. o \in Listed
    <3>1. CASE obj'[o] = obj[o]
      BY <3>1, <1>13, <1>1 DEF Live
    <3>2. ASSUME NEW k \in p + 1 .. m, o = list[k] PROVE o \in Listed
      BY <3>2, <1>3
    <3> QED BY <3>1, <3>2, <1>10
  <2>2. PICK k \in 1 .. m : list[k] = o
    BY <2>1, <1>3
  <2>3. obj'[list[k]].index = k
    BY <2>2, <1>6, <1>9 DEF AttachedAt
  <2> QED BY <2>2, <2>3
<1>14. Homes'
  <2>1. scanned' = m /\ Len(disk') = m /\ m <= m
    BY <1>1, <1>3, <1>6, <1>p
  <2>2. ASSUME NEW o \in Obj, Live(o)'
        PROVE  /\ obj'[o].index \in 1 .. m
               /\ Keeps(o, obj[o].index)' /\ RevisionKnown(o, obj[o].index)'
    <3>1. PICK k \in 1 .. m : o = list[k] /\ obj'[o].index = k
      BY <2>2, <1>13
    <3> QED BY <3>1, <1>6, <1>9
  <2>3. ASSUME NEW o \in Obj, NEW q \in Obj, Live(o)', Live(q)', obj'[o].index = obj'[q].index
        PROVE  o = q
    BY <2>3, <1>13
  <2> QED BY <2>1, <2>2, <2>3 DEF Homes
<1>15. Aligned'
  BY <1>1, <1>3, <1>6, <1>9, <1>p DEF Aligned
<1>16. DataProgress'
  BY <1>3, <1>5, <1>6, <1>15 DEF DataProgress
<1>17. Extent'
  BY <1>1, <1>3, <1>6, <1>p DEF Extent
<1>18. NeverMissing'
  <2>1. (ListTypeOK /\ Memory /\ Homes /\ call.pc # "delete" /\ ~Halved => NeverMissing)'
    BY NothingMissing, PTL
  <2> QED BY <2>1, <1>5, <1>11, <1>12, <1>14
<1> QED BY <1>0, <1>5, <1>11, <1>12, <1>14, <1>16, <1>17, <1>18
    DEF ListInv, Layout, AppendProgress, Appended, DeleteProgress, Remaining, Rollback,
        Appends, AppendRollsBack, Resting

-----------------------------------------------------------------------------
(* The data phase.                                                          *)

\* What is known while a flush writes the arrays that have changed.
DataPhase ==
    /\ ListTypeOK /\ Memory /\ Homes /\ Update /\ ~Halved /\ call.pc = "data"
    /\ call \in FlushCalls /\ call.how # "conflict" /\ call.i \in Nat /\ call.i >= 1
    /\ scanned = Len(list) /\ Len(list) \in Nat /\ DOMAIN list = 1 .. Len(list)
    /\ DOMAIN disk = 1 .. Len(disk) /\ scanned <= Len(disk) /\ (Len(disk) = scanned \/ extra)
    /\ \A k \in 1 .. Len(list) :
         /\ list[k] \in Obj /\ AttachedAt(list[k], k) /\ Live(list[k])
         /\ Keeps(list[k], k) /\ disk[k] \in Slots
         /\ k < call.i => ~Changed(list[k])

LEMMA DataFacts ==
    ASSUME ListInv, call.pc = "data"
    PROVE  DataPhase
<1>1. ListTypeOK /\ Memory /\ Homes /\ DataProgress /\ Extent /\ call.how # "conflict"
  BY DEF ListInv
<1>2. Update /\ ~Halved /\ Aligned /\ call.i >= 1
  BY <1>1 DEF DataProgress, Halved
<1>3. /\ call \in FlushCalls /\ call.i \in Nat
      /\ Len(list) \in Nat /\ DOMAIN list = 1 .. Len(list) /\ DOMAIN disk = 1 .. Len(disk)
      /\ \A k \in 1 .. Len(list) : list[k] \in Obj /\ list[k] \in Listed
  BY <1>1, LenProperties, ToSetFacts DEF ListTypeOK, FlushCalls, Listed
<1>4. scanned = Len(list) /\ \A k \in 1 .. Len(list) : AttachedAt(list[k], k)
  BY <1>2, <1>3 DEF Aligned
<1>5. ASSUME NEW k \in 1 .. Len(list)
      PROVE  /\ Live(list[k]) /\ Keeps(list[k], k) /\ disk[k] \in Slots
             /\ k < call.i => ~Changed(list[k])
  <2>1. list[k] \in Obj /\ Live(list[k]) /\ obj[list[k]].index = k
    BY <1>1, <1>3, <1>4 DEF Memory, Live, AttachedAt
  <2>2. Keeps(list[k], k)
    BY <2>1, <1>1, <1>2 DEF Homes
  <2>3. disk[k] \in Slots
    BY <2>2, <1>1, ElementOfSeq, <1>3 DEF Keeps, ListTypeOK
  <2>4. k < call.i => ~Changed(list[k])
    BY <1>1, <1>2, <1>3 DEF DataProgress
  <2> QED BY <2>1, <2>2, <2>3, <2>4
<1> QED BY <1>1, <1>2, <1>3, <1>4, <1>5 DEF DataPhase, Homes, Extent

\* What is left to show of a step that changes no object's place and no header.
LEMMA DataStep ==
    ASSUME DataPhase, UNCHANGED <<list, opts, want, scanned, dirty, gone, extra>>,
           call' \in FlushCalls, call'.pc \in {"data", "sync", "idle"}, ~Halved',
           call'.how # "conflict", ListTypeOK', Memory', Len(disk') = Len(disk),
           \A o \in Obj : /\ obj'[o].attached = obj[o].attached /\ obj'[o].index = obj[o].index
                          /\ obj'[o].header = obj[o].header /\ obj'[o].revision = obj[o].revision,
           \A o \in Obj : Live(o) => /\ disk'[obj[o].index].header = disk[obj[o].index].header
                                     /\ disk'[obj[o].index].revision = disk[obj[o].index].revision
                                     /\ DataKept(o, obj[o].index)',
           AppendRollsBack', DataProgress'
    PROVE  ListInv'
<1>1. /\ ListTypeOK /\ Memory /\ Homes /\ Update /\ ~Halved /\ call.pc = "data"
      /\ Len(disk) = scanned \/ extra
  BY DEF DataPhase
<1>2. Update' /\ Update /\ \A o \in Obj : Live(o)' <=> Live(o)
  BY <1>1 DEF Update, Live
<1>3. DOMAIN disk' = DOMAIN disk
  BY <1>1, LenProperties DEF ListTypeOK
<1>4. Homes'
  <2>1. ASSUME NEW o \in Obj, Live(o)
        PROVE  /\ obj'[o].index \in 1 .. scanned
               /\ Keeps(o, obj[o].index)' /\ RevisionKnown(o, obj[o].index)'
    <3>1. /\ Keeps(o, obj[o].index) /\ RevisionKnown(o, obj[o].index)
          /\ obj[o].index \in 1 .. scanned
      BY <2>1, <1>1 DEF Homes
    <3>2. /\ obj'[o].index = obj[o].index /\ obj'[o].header = obj[o].header
          /\ obj'[o].revision = obj[o].revision
          /\ disk'[obj[o].index].header = disk[obj[o].index].header
          /\ disk'[obj[o].index].revision = disk[obj[o].index].revision
          /\ DataKept(o, obj[o].index)'
      BY <2>1
    <3> QED BY <3>1, <3>2, <1>2, <1>3 DEF Keeps, HeaderKept, RevisionKnown
  <2>2. scanned' <= Len(disk') /\ scanned' = scanned
    BY <1>1 DEF Homes
  <2>3. ASSUME NEW o \in Obj, NEW q \in Obj, Live(o)', Live(q)', obj'[o].index = obj'[q].index
        PROVE  o = q
    BY <2>3, <1>1, <1>2 DEF Homes
  <2> QED BY <2>1, <2>2, <2>3, <1>2 DEF Homes
<1>5. NeverMissing'
  <2>1. (ListTypeOK /\ Memory /\ Homes /\ call.pc # "delete" /\ ~Halved => NeverMissing)'
    BY NothingMissing, PTL
  <2> QED BY <2>1, <1>4
<1> QED BY <1>1, <1>4, <1>5
    DEF ListInv, Layout, AppendProgress, Appended, DeleteProgress, Remaining, Rollback,
        Appends, Extent

LEMMA SkipStep ==
    ASSUME ListInv, Skip
    PROVE  ListInv'
<1>1. /\ call.pc = "data" /\ call.i <= Len(list) /\ ~Changed(list[call.i])
      /\ Go("data", call.i + 1)
      /\ UNCHANGED <<list, opts, want, disk, obj, extra, scanned, dirty, gone>>
  BY DEF Skip, Writing, Flushing, KeepList, Next_
<1>2. DataPhase
  BY <1>1, DataFacts
<1>3. /\ call' \in FlushCalls /\ call'.pc = "data" /\ call'.i = call.i + 1
      /\ call'.how = call.how /\ ~Halved' /\ ~Flushed'
  <2>1. call.i + 1 \in Nat /\ call \in FlushCalls
    BY <1>2 DEF DataPhase
  <2> QED BY <2>1, <1>1, GoFacts
<1>4. ListTypeOK' /\ Memory' /\ (Update' <=> Update)
  BY <1>1, <1>2, <1>3 DEF DataPhase, ListTypeOK, Memory, Listed, Update
<1>5. AppendRollsBack'
  BY <1>3 DEF AppendRollsBack, Resting
<1>6. DataProgress'
  <2>1. Aligned'
    BY <1>1, <1>2 DEF DataPhase, Aligned, AttachedAt
  <2>2. ASSUME NEW k \in DOMAIN list, k < call.i + 1 PROVE ~Changed(list[k])
    <3>1. k < call.i \/ k = call.i
      BY <2>2, <1>2 DEF DataPhase
    <3> QED BY <3>1, <1>1, <1>2 DEF DataPhase
  <2>3. call.i + 1 >= 1
    BY <1>2 DEF DataPhase
  <2>4. \A k \in DOMAIN list' : k < call'.i => ~Changed(list[k])'
    BY <2>2, <1>1, <1>3 DEF Changed
  <2> QED BY <2>1, <2>3, <2>4, <1>2, <1>3, <1>4 DEF DataProgress, DataPhase
<1>7. \A o \in Obj : Live(o) => DataKept(o, obj[o].index)'
  BY <1>1, <1>2 DEF DataPhase, Homes, Keeps, DataKept, Changed
<1>8. call'.how # "conflict"
  BY <1>2, <1>3 DEF DataPhase
<1> QED BY <1>1, <1>2, <1>3, <1>4, <1>5, <1>6, <1>7, <1>8, DataStep

\* What a write to the slot of one HDU leaves, d being what the slot then has.
LEMMA WrittenFacts ==
    ASSUME DataPhase, NEW k \in 1 .. Len(list), NEW d \in Arrays \cup {None},
           disk' = [disk EXCEPT ![k].data = d]
    PROVE  /\ disk' \in Seq(Slots) /\ Len(disk') = Len(disk)
           /\ k \in DOMAIN disk /\ disk'[k].data = d /\ disk'[k].header = disk[k].header
           /\ disk'[k].revision = disk[k].revision
           /\ \A s \in DOMAIN disk \ {k} : disk'[s] = disk[s]
<1>1. disk \in Seq(Slots) /\ k \in DOMAIN disk /\ disk[k] \in Slots
  BY DEF DataPhase, ListTypeOK, Keeps
<1>2. PICK e, y : y = disk[k] /\ e = [y EXCEPT !.data = d]
  OBVIOUS
<1>3. e \in Slots /\ e.data = d /\ e.header = y.header /\ e.revision = y.revision
  BY <1>1, <1>2 DEF Slots
<1>4. disk' = [disk EXCEPT ![k] = e]
  BY <1>1, <1>2
<1>5. /\ disk' \in Seq(Slots) /\ Len(disk') = Len(disk) /\ disk'[k] = e
      /\ \A s \in DOMAIN disk \ {k} : disk'[s] = disk[s]
  BY <1>1, <1>3, <1>4, ExceptSeq, LenProperties
<1> QED BY <1>1, <1>2, <1>3, <1>5

LEMMA WriteDataStep ==
    ASSUME ListInv, WriteData
    PROVE  ListInv'
<1>p. PICK o, k : o = list[call.i] /\ k = call.i
  OBVIOUS
<1>1. /\ call.pc = "data" /\ k <= Len(list) /\ Changed(o)
      /\ disk' = [disk EXCEPT ![obj[o].index].data = obj[o].data]
      /\ obj' = [obj EXCEPT ![o].base = obj[o].data] /\ Go("data", call.i + 1)
      /\ UNCHANGED <<list, opts, want, extra, scanned, dirty, gone>>
  BY <1>p DEF WriteData, Writing, Flushing, KeepList, Next_
<1>2. DataPhase
  BY <1>1, DataFacts
<1>3. /\ k \in 1 .. Len(list) /\ o \in Obj /\ obj[o].index = k /\ Live(o) /\ obj[o].attached
      /\ obj[o] \in Objects /\ obj[o].data \in Arrays /\ obj[o].data = want[o].data
      /\ want[o].data.of = o
  <2>1. k \in 1 .. Len(list)
    <3>1. PICK m : m = Len(list)
      OBVIOUS
    <3>2. m \in Nat /\ k \in Nat /\ k >= 1 /\ k <= m
      BY <3>1, <1>1, <1>2, <1>p, Zenon DEF DataPhase
    <3>3. k \in 1 .. m
      BY <3>2
    <3> QED BY <3>1, <3>3, Zenon
  <2>2. o \in Obj /\ obj[o].index = k /\ Live(o) /\ obj[o].attached
    BY <2>1, <1>2, <1>p DEF DataPhase, AttachedAt
  <2>3. obj[o] \in Objects /\ obj[o].data # None /\ obj[o].data = want[o].data /\ want[o].data.of = o
    BY <2>2, <1>1, <1>2 DEF DataPhase, Memory, Changed, ListTypeOK
  <2> QED BY <2>1, <2>2, <2>3 DEF Objects
<1>d. PICK d, x : d = obj[o].data /\ x = [obj[o] EXCEPT !.base = d]
  OBVIOUS
<1>4. /\ disk' \in Seq(Slots) /\ Len(disk') = Len(disk) /\ k \in DOMAIN disk
      /\ disk'[k].data = d /\ disk'[k].header = disk[k].header
      /\ disk'[k].revision = disk[k].revision
      /\ \A s \in DOMAIN disk \ {k} : disk'[s] = disk[s]
  <2>1. disk' = [disk EXCEPT ![k].data = d] /\ d \in Arrays \cup {None}
    BY <1>1, <1>3, <1>d
  <2> QED BY <2>1, <1>2, <1>3, WrittenFacts, ZenonT(30)
<1>5. /\ x \in Objects /\ x.attached = obj[o].attached /\ x.index = k
      /\ x.header = obj[o].header /\ x.revision = obj[o].revision /\ x.hooks = obj[o].hooks
      /\ x.data = d /\ x.base = d
  BY <1>3, <1>d DEF Objects
<1>6. obj' \in [Obj -> Objects] /\ obj'[o] = x /\ \A q \in Obj \ {o} : obj'[q] = obj[q]
  <2>1. obj \in [Obj -> Objects] /\ obj' = [obj EXCEPT ![o] = x]
    BY <1>1, <1>2, <1>d DEF DataPhase, ListTypeOK
  <2> QED BY <2>1, <1>3, <1>5
<1>7. /\ call' \in FlushCalls /\ call'.pc = "data" /\ call'.i = call.i + 1
      /\ call'.how = call.how /\ ~Halved' /\ ~Flushed'
  <2>1. call.i + 1 \in Nat /\ call \in FlushCalls
    BY <1>2 DEF DataPhase
  <2> QED BY <2>1, <1>1, GoFacts
<1>8. ListTypeOK' /\ (Update' <=> Update) /\ Listed' = Listed
  BY <1>1, <1>2, <1>4, <1>6, <1>7 DEF DataPhase, ListTypeOK, Update, Listed
<1>9. Memory'
  <2>1. (Listed \cap gone = {})'
    BY <1>1, <1>2, <1>8 DEF DataPhase, Memory
  <2>2. ASSUME NEW q \in Obj
        PROVE  (/\ want[q].header.of = q /\ want[q].data.of = q
                /\ obj[q].header # None => obj[q].header = want[q].header
                /\ obj[q].data # None => obj[q].data = want[q].data
                /\ obj[q].base # None => /\ obj[q].data # None
                                        /\ obj[q].base.version <= obj[q].data.version
                /\ ~obj[q].attached => obj[q].header # None /\ obj[q].data # None /\ obj[q].base = None
                /\ obj[q].attached /\ Update /\ obj[q].header # None => obj[q].hooks)'
    <3>0. Memory /\ want' = want /\ (Update' <=> Update)
      BY <1>1, <1>2, <1>8 DEF DataPhase
    <3>1. CASE q = o
      <4>1. d.version \in Nat /\ d # None
        BY <1>3, <1>d, HDUListAssumption DEF Arrays
      <4> QED BY <3>0, <3>1, <4>1, <1>3, <1>5, <1>6, <1>d DEF Memory
    <3>2. CASE q # o
      BY <3>0, <3>2, <1>6 DEF Memory
    <3> QED BY <3>1, <3>2
  <2> QED BY <2>1, <2>2 DEF Memory
<1>10. ASSUME NEW q \in Obj
       PROVE  /\ obj'[q].attached = obj[q].attached /\ obj'[q].index = obj[q].index
              /\ obj'[q].header = obj[q].header /\ obj'[q].revision = obj[q].revision
  BY <1>3, <1>5, <1>6
<1>11. ASSUME NEW q \in Obj, Live(q)
       PROVE  /\ disk'[obj[q].index].header = disk[obj[q].index].header
              /\ disk'[obj[q].index].revision = disk[obj[q].index].revision
              /\ DataKept(q, obj[q].index)'
  <2>1. CASE q = o
    <3>1. /\ disk'[k].data = want[o].data /\ obj[q].index = k /\ obj'[q].index = k
          /\ want' = want /\ want[o].data.of = o /\ want[o].data # None
      BY <2>1, <1>1, <1>3, <1>4, <1>5, <1>6, <1>d, HDUListAssumption
    <3> QED BY <2>1, <3>1, <1>4 DEF DataKept
  <2>2. CASE q # o
    <3>1. obj[q].index # k /\ Keeps(q, obj[q].index)
      BY <2>2, <1>2, <1>3, <1>11 DEF DataPhase, Homes
    <3>2. disk'[obj[q].index] = disk[obj[q].index] /\ obj'[q] = obj[q] /\ want' = want
      BY <2>2, <3>1, <1>1, <1>4, <1>6 DEF Keeps
    <3> QED BY <3>1, <3>2 DEF Keeps, DataKept, Changed
  <2> QED BY <2>1, <2>2
<1>12. AppendRollsBack' /\ call'.how # "conflict"
  BY <1>2, <1>7 DEF AppendRollsBack, Resting, DataPhase
<1>13. DataProgress'
  <2>1. Aligned'
    <3>1. \A j \in 1 .. Len(list) : AttachedAt(list[j], j)'
      BY <1>1, <1>2, <1>10 DEF DataPhase, AttachedAt
    <3> QED BY <3>1, <1>1, <1>2 DEF DataPhase, Aligned
  <2>2. ASSUME NEW j \in 1 .. Len(list), j < call.i + 1 PROVE ~Changed(list[j])'
    <3>1. j < call.i \/ j = call.i
      BY <2>2, <1>2 DEF DataPhase
    <3>2. CASE list[j] = o
      BY <3>2, <1>1, <1>5, <1>6 DEF Changed
    <3>3. CASE list[j] # o
      <4>1. list[j] \in Obj /\ ~Changed(list[j])
        BY <3>1, <3>3, <1>2, <1>p DEF DataPhase
      <4> QED BY <4>1, <3>3, <1>1, <1>6 DEF Changed
    <3> QED BY <3>2, <3>3
  <2>3. call.i + 1 >= 1
    BY <1>2 DEF DataPhase
  <2>4. \A j \in DOMAIN list' : j < call'.i => ~Changed(list[j])'
    BY <2>2, <1>1, <1>2, <1>7 DEF DataPhase
  <2> QED BY <2>1, <2>3, <2>4, <1>2, <1>7, <1>8 DEF DataProgress, DataPhase
<1> QED BY <1>1, <1>2, <1>4, <1>7, <1>8, <1>9, <1>10, <1>11, <1>12, <1>13, DataStep

LEMMA WriteFailsStep ==
    ASSUME ListInv, WriteFails
    PROVE  ListInv'
<1>p. PICK o, k : o = list[call.i] /\ k = call.i
  OBVIOUS
<1>1. /\ call.pc = "data" /\ k <= Len(list) /\ Changed(o) /\ Raise("raised")
      /\ disk' = disk \/ disk' = [disk EXCEPT ![obj[o].index].data = Data(o, 2)]
      /\ UNCHANGED <<list, opts, want, obj, extra, scanned, dirty, gone>>
  BY <1>p DEF WriteFails, Writing, Flushing, KeepList, Next_
<1>2. DataPhase
  BY <1>1, DataFacts
<1>3. k \in 1 .. Len(list) /\ o \in Obj /\ obj[o].index = k /\ Live(o)
  <2>1. k \in 1 .. Len(list)
    <3>1. PICK m : m = Len(list)
      OBVIOUS
    <3>2. m \in Nat /\ k \in Nat /\ k >= 1 /\ k <= m
      BY <3>1, <1>1, <1>2, <1>p, Zenon DEF DataPhase
    <3>3. k \in 1 .. m
      BY <3>2
    <3> QED BY <3>1, <3>3, Zenon
  <2> QED BY <2>1, <1>2, <1>p DEF DataPhase, AttachedAt
<1>d. PICK d : d = Data(o, 2)
  OBVIOUS
<1>4. d \in Arrays /\ d # None /\ d.of = o
  BY <1>3, <1>d, HDUListAssumption DEF Arrays, Data
<1>5. /\ disk' \in Seq(Slots) /\ Len(disk') = Len(disk)
      /\ \A s \in DOMAIN disk : /\ disk'[s].header = disk[s].header
                                /\ disk'[s].revision = disk[s].revision
                                /\ disk'[s].data = disk[s].data \/ (s = k /\ disk'[s].data = d)
  <2>1. CASE disk' = disk
    BY <2>1, <1>2 DEF DataPhase, ListTypeOK
  <2>2. CASE disk' = [disk EXCEPT ![k].data = d]
    BY <2>2, <1>2, <1>3, <1>4, WrittenFacts
  <2> QED BY <2>1, <2>2, <1>1, <1>3, <1>d
<1>6. /\ call' \in FlushCalls /\ call'.pc = "idle" /\ call'.how = "raised" /\ ~Halved'
  BY <1>1, <1>2, RaiseFacts DEF DataPhase
<1>7. ListTypeOK' /\ Memory' /\ (Update' <=> Update)
  BY <1>1, <1>2, <1>5, <1>6 DEF DataPhase, ListTypeOK, Memory, Listed, Update
<1>8. AppendRollsBack' /\ DataProgress'
  BY <1>6 DEF AppendRollsBack, Resting, DataProgress, Flushed
<1>9. ASSUME NEW q \in Obj, Live(q)
      PROVE  /\ disk'[obj[q].index].header = disk[obj[q].index].header
             /\ disk'[obj[q].index].revision = disk[obj[q].index].revision
             /\ DataKept(q, obj[q].index)'
  <2>1. Keeps(q, obj[q].index) /\ (obj[q].index = k => q = o)
    BY <1>2, <1>3, <1>9 DEF DataPhase, Homes
  <2>2. obj[q].index \in DOMAIN disk /\ DataKept(q, obj[q].index)
    BY <2>1 DEF Keeps
  <2> QED BY <2>1, <2>2, <1>1, <1>4, <1>5 DEF DataKept, Changed
<1> QED BY <1>1, <1>2, <1>5, <1>6, <1>7, <1>8, <1>9, DataStep

LEMMA WriteEndsStep ==
    ASSUME ListInv, WriteEnds
    PROVE  ListInv'
<1>1. /\ call.pc = "data" /\ call.i > Len(list) /\ Go("sync", 0)
      /\ UNCHANGED <<list, opts, want, disk, obj, extra, scanned, dirty, gone>>
  BY DEF WriteEnds, Flushing, KeepList
<1>2. DataPhase
  BY <1>1, DataFacts
<1>3. /\ call' \in FlushCalls /\ call'.pc = "sync" /\ call'.how = call.how /\ ~Halved' /\ ~Flushed'
  BY <1>1, <1>2, GoFacts DEF DataPhase
<1>4. ListTypeOK' /\ Memory' /\ (Update' <=> Update)
  BY <1>1, <1>2, <1>3 DEF DataPhase, ListTypeOK, Memory, Listed, Update
<1>5. AppendRollsBack' /\ call'.how # "conflict"
  BY <1>2, <1>3 DEF AppendRollsBack, Resting, DataPhase
<1>6. DataProgress'
  <2>1. Aligned'
    BY <1>1, <1>2 DEF DataPhase, Aligned, AttachedAt
  <2>2. ASSUME NEW k \in DOMAIN list PROVE ~Changed(list[k])
    BY <1>1, <1>2 DEF DataPhase
  <2>3. \A k \in DOMAIN list' : ~Changed(list[k])'
    BY <2>2, <1>1 DEF Changed
  <2> QED BY <2>1, <2>3, <1>3 DEF DataProgress
<1>7. \A o \in Obj : Live(o) => DataKept(o, obj[o].index)'
  BY <1>1, <1>2 DEF DataPhase, Homes, Keeps, DataKept, Changed
<1> QED BY <1>1, <1>2, <1>3, <1>4, <1>5, <1>6, <1>7, DataStep

-----------------------------------------------------------------------------
(* The sync.                                                                *)

\* zf_flush moves on revisions only.
LEMMA SummedFacts ==
    ASSUME ListTypeOK, NEW n \in Nat, disk' = Summed(n)
    PROVE  /\ disk' \in Seq(Slots) /\ Len(disk') = Len(disk) /\ DOMAIN disk' = DOMAIN disk
           /\ \A s \in DOMAIN disk : /\ disk'[s].header = disk[s].header
                                     /\ disk'[s].data = disk[s].data
                                     /\ ~opts.sums => disk'[s].revision = disk[s].revision
<1>1. /\ disk \in Seq(Slots) /\ Len(disk) \in Nat /\ DOMAIN disk = 1 .. Len(disk)
      /\ \A s \in DOMAIN disk : disk[s] \in Slots
  BY LenProperties, ElementOfSeq DEF ListTypeOK
<1>2. ASSUME NEW s \in DOMAIN disk
      PROVE  /\ disk'[s] \in Slots /\ disk'[s].header = disk[s].header
             /\ disk'[s].data = disk[s].data
             /\ ~opts.sums => disk'[s].revision = disk[s].revision
  <2>1. PICK y, z : y = disk[s] /\ z = [y EXCEPT !.revision = @ + 1]
    OBVIOUS
  <2>2. y \in Slots
    BY <1>1, <2>1
  <2>3. z \in Slots /\ z.header = y.header /\ z.data = y.data
    BY <2>1, <2>2 DEF Slots
  <2>4. disk'[s] = IF opts.sums /\ s <= n THEN z ELSE y
    BY <2>1 DEF Summed
  <2> QED BY <2>1, <2>2, <2>3, <2>4
<1>3. DOMAIN disk' = DOMAIN disk /\ disk' \in [1 .. Len(disk) -> Slots]
  BY <1>1, <1>2 DEF Summed
<1> QED BY <1>1, <1>2, <1>3, FunctionIsSeq

LEMMA ForgottenFacts ==
    ASSUME ListTypeOK, obj' = Forgotten
    PROVE  /\ obj' \in [Obj -> Objects]
           /\ \A o \in Obj :
                /\ obj'[o].attached = obj[o].attached /\ obj'[o].index = obj[o].index
                /\ obj'[o].header = obj[o].header /\ obj'[o].hooks = obj[o].hooks
                /\ obj'[o].data = obj[o].data /\ obj'[o].base = obj[o].base
                /\ obj'[o].revision = 0 \/ obj'[o].revision = obj[o].revision
                /\ opts.sums /\ o \in Listed /\ obj[o].attached => obj'[o].revision = 0
<1>1. ASSUME NEW o \in Obj
      PROVE  /\ obj'[o] \in Objects
             /\ obj'[o].attached = obj[o].attached /\ obj'[o].index = obj[o].index
             /\ obj'[o].header = obj[o].header /\ obj'[o].hooks = obj[o].hooks
             /\ obj'[o].data = obj[o].data /\ obj'[o].base = obj[o].base
             /\ obj'[o].revision = 0 \/ obj'[o].revision = obj[o].revision
             /\ opts.sums /\ o \in Listed /\ obj[o].attached => obj'[o].revision = 0
  <2>1. PICK y, z : y = obj[o] /\ z = [y EXCEPT !.revision = 0]
    OBVIOUS
  <2>2. y \in Objects
    BY <2>1 DEF ListTypeOK
  <2>3. /\ z \in Objects /\ z.attached = y.attached /\ z.index = y.index /\ z.header = y.header
        /\ z.hooks = y.hooks /\ z.data = y.data /\ z.base = y.base /\ z.revision = 0
    BY <2>1, <2>2 DEF Objects
  <2>4. obj'[o] = IF opts.sums /\ o \in Listed /\ y.attached THEN z ELSE y
    BY <2>1 DEF Forgotten
  <2> QED BY <2>1, <2>2, <2>3, <2>4
<1>2. obj' \in [Obj -> Objects]
  BY <1>1 DEF Forgotten
<1> QED BY <1>1, <1>2

LEMMA SyncedStep ==
    ASSUME ListInv, Sync \/ SyncFails
    PROVE  ListInv'
<1>0. ListTypeOK /\ Memory /\ Homes /\ DataProgress /\ Extent
  BY DEF ListInv
<1>1. PICK n \in Nat, how \in {"ok", "raised"} :
          /\ call.pc = "sync" /\ disk' = Summed(n) /\ obj' = Forgotten /\ Raise(how)
          /\ UNCHANGED <<list, opts, want, extra, scanned, dirty, gone>>
  <2>1. Len(disk) \in Nat
    BY <1>0, LenProperties DEF ListTypeOK
  <2> QED BY <2>1 DEF Sync, SyncFails, Flushing, KeepList
<1>2. ~Halved /\ (Len(disk) = scanned \/ extra) /\ (Update' <=> Update) /\ Listed' = Listed
  BY <1>0, <1>1 DEF Halved, Extent, Update, Listed
<1>3. call' \in FlushCalls /\ call'.pc = "idle" /\ call'.how = how /\ ~Halved'
  <2>1. call \in FlushCalls
    BY <1>0 DEF ListTypeOK
  <2> QED BY <2>1, <1>1, RaiseFacts
<1>4. /\ disk' \in Seq(Slots) /\ Len(disk') = Len(disk) /\ DOMAIN disk' = DOMAIN disk
      /\ \A s \in DOMAIN disk : /\ disk'[s].header = disk[s].header
                                /\ disk'[s].data = disk[s].data
                                /\ ~opts.sums => disk'[s].revision = disk[s].revision
  BY <1>0, <1>1, SummedFacts
<1>5. /\ obj' \in [Obj -> Objects]
      /\ \A o \in Obj :
           /\ obj'[o].attached = obj[o].attached /\ obj'[o].index = obj[o].index
           /\ obj'[o].header = obj[o].header /\ obj'[o].hooks = obj[o].hooks
           /\ obj'[o].data = obj[o].data /\ obj'[o].base = obj[o].base
           /\ obj'[o].revision = 0 \/ obj'[o].revision = obj[o].revision
           /\ opts.sums /\ o \in Listed /\ obj[o].attached => obj'[o].revision = 0
  BY <1>0, <1>1, ForgottenFacts
<1>6. ListTypeOK'
  BY <1>0, <1>1, <1>3, <1>4, <1>5 DEF ListTypeOK
<1>7. Memory'
  BY <1>0, <1>1, <1>2, <1>5 DEF Memory
<1>8. \A o \in Obj : (Live(o)' <=> Live(o)) /\ (Changed(o)' <=> Changed(o))
  BY <1>1, <1>5 DEF Live, Changed
<1>9. ASSUME Update, NEW o \in Obj, Live(o)
      PROVE  o \in Listed
  <2>1. scanned = Len(list) /\ obj[o].index \in 1 .. Len(list)
    BY <1>0, <1>1, <1>2, <1>9 DEF DataProgress, Aligned, Homes
  <2>2. PICK q : q = list[obj[o].index]
    OBVIOUS
  <2>3. q \in Obj /\ q \in Listed /\ obj[o].index \in DOMAIN list
    BY <2>1, <2>2, <1>0, ToSetFacts DEF ListTypeOK, Listed
  <2>4. Live(q) /\ obj[q].index = obj[o].index
    BY <2>2, <2>3, <1>0, <1>1, <1>9 DEF DataProgress, Aligned, AttachedAt, Live, Memory
  <2> QED BY <2>3, <2>4, <1>0, <1>1, <1>2, <1>9 DEF Homes
<1>10. Homes'
  <2>1. ASSUME NEW o \in Obj, Live(o)
        PROVE  /\ obj'[o].index \in 1 .. scanned
               /\ Keeps(o, obj[o].index)' /\ RevisionKnown(o, obj[o].index)'
    <3>1. /\ Keeps(o, obj[o].index) /\ RevisionKnown(o, obj[o].index)
          /\ obj[o].index \in 1 .. scanned
      BY <2>1, <1>0, <1>1, <1>2 DEF Homes
    <3>2. PICK s : s = obj[o].index
      OBVIOUS
    <3>3. s \in DOMAIN disk /\ obj'[o].index = s /\ s \in 1 .. scanned
      BY <3>1, <3>2, <1>5 DEF Keeps
    <3>4. Keeps(o, s)'
      BY <3>1, <3>2, <3>3, <1>1, <1>2, <1>4, <1>5, <1>8 DEF Keeps, HeaderKept, DataKept
    <3>5. RevisionKnown(o, s)'
      <4>1. CASE opts.sums /\ Update
        <5>1. obj'[o].revision = 0
          BY <4>1, <2>1, <1>5, <1>9 DEF Live
        <5> QED BY <5>1 DEF RevisionKnown
      <4>2. CASE ~(opts.sums /\ Update)
        BY <4>2, <3>1, <3>2, <3>3, <1>2, <1>4, <1>5 DEF RevisionKnown
      <4> QED BY <4>1, <4>2
    <3> QED BY <3>3, <3>4, <3>5
  <2>2. scanned' = scanned /\ scanned' <= Len(disk')
    BY <1>0, <1>1, <1>2, <1>4 DEF Homes
  <2>3. ASSUME NEW o \in Obj, NEW q \in Obj, Live(o)', Live(q)', obj'[o].index = obj'[q].index
        PROVE  o = q
    <3>1. Live(o) /\ Live(q) /\ obj[o].index = obj[q].index
      BY <2>3, <1>5, <1>8
    <3> QED BY <3>1, <1>0, <1>1, <1>2 DEF Homes
  <2> QED BY <2>1, <2>2, <2>3, <1>8 DEF Homes
<1>11. DataProgress'
  <2>1. ASSUME Update PROVE Aligned' /\ \A k \in DOMAIN list' : ~Changed(list[k])'
    <3>1. Aligned /\ \A k \in DOMAIN list : ~Changed(list[k])
      BY <2>1, <1>0, <1>1 DEF DataProgress
    <3>2. \A k \in DOMAIN list : list[k] \in Obj
      BY <1>0, ToSetFacts DEF ListTypeOK
    <3> QED BY <3>1, <3>2, <1>1, <1>5, <1>8 DEF Aligned, AttachedAt
  <2> QED BY <2>1, <1>2, <1>3 DEF DataProgress, Flushed
<1>12. Extent' /\ Rollback'
  BY <1>1, <1>2, <1>3, <1>4 DEF Extent, Rollback, Appends, AppendRollsBack, Resting
<1>13. NeverMissing'
  <2>1. (ListTypeOK /\ Memory /\ Homes /\ call.pc # "delete" /\ ~Halved => NeverMissing)'
    BY NothingMissing, PTL
  <2> QED BY <2>1, <1>3, <1>6, <1>7, <1>10
<1> QED BY <1>3, <1>6, <1>7, <1>10, <1>11, <1>12, <1>13
    DEF ListInv, Layout, AppendProgress, Appended, DeleteProgress, Remaining

-----------------------------------------------------------------------------
(* The theorems.                                                            *)

\* When the file is opened, every object of it is in its slot and nothing is in memory.
LEMMA InitStep ==
    ASSUME Init
    PROVE  ListInv
<1>1. /\ Opened \in Seq(Obj) /\ Opened # <<>> /\ IsInjective(Opened)
      /\ Len(Opened) \in Nat /\ DOMAIN Opened = 1 .. Len(Opened)
      /\ \A i \in 1 .. Len(Opened) : Opened[i] \in Obj /\ Opened[i] \in ToSet(Opened)
      /\ \A o \in ToSet(Opened) : \E i \in 1 .. Len(Opened) : Opened[i] = o
  BY HDUListAssumption, ToSetFacts
<1>2. /\ list = Opened /\ scanned = Len(Opened) /\ dirty = FALSE /\ call = Idle("ok")
      /\ gone = {} /\ extra = FALSE /\ opts \in Options
  BY DEF Init
<1>3. /\ disk \in Seq(Slots) /\ Len(disk) = Len(Opened) /\ DOMAIN disk = 1 .. Len(Opened)
      /\ \A i \in 1 .. Len(Opened) : /\ disk[i].header = Header(Opened[i], {})
                                     /\ disk[i].data = Data(Opened[i], 0)
  <2>1. disk = [i \in 1 .. Len(Opened) |->
                  [header |-> Header(Opened[i], {}), data |-> Data(Opened[i], 0), revision |-> 1]]
    BY <1>1 DEF Init
  <2>2. disk \in [1 .. Len(Opened) -> Slots]
    BY <2>1, <1>1 DEF Slots, Headers, Arrays, Header, Data
  <2> QED BY <2>1, <2>2, <1>1, FunctionIsSeq
<1>4. ASSUME NEW o \in Obj
      PROVE  /\ o \in ToSet(Opened) =>
                   \E i \in 1 .. Len(Opened) : Opened[i] = o /\ obj[o] = Attached(i)
             /\ o \notin ToSet(Opened) => obj[o] = Detached(o)
  <2>1. obj[o] = IF Contains(Opened, o)
                 THEN Attached(CHOOSE i \in DOMAIN Opened : Opened[i] = o) ELSE Detached(o)
    BY DEF Init
  <2>2. Contains(Opened, o) <=> o \in ToSet(Opened)
    BY DEF Contains, ToSet
  <2> QED BY <2>1, <2>2, <1>1
<1>5. ASSUME NEW o \in Obj
      PROVE  /\ obj[o] \in Objects /\ obj[o].base = None
             /\ obj[o].header = None \/ obj[o].header = Header(o, {})
             /\ obj[o].data = None \/ obj[o].data = Data(o, 0)
             /\ obj[o].attached =>
                   /\ obj[o].header = None /\ obj[o].data = None /\ o \in ToSet(Opened)
                   /\ obj[o].index \in 1 .. Len(Opened) /\ Opened[obj[o].index] = o
             /\ ~obj[o].attached => obj[o].header # None /\ obj[o].data # None
  <2>1. CASE o \in ToSet(Opened)
    <3>1. PICK i \in 1 .. Len(Opened) : Opened[i] = o /\ obj[o] = Attached(i)
      BY <2>1, <1>4
    <3>2. i \in Nat
      BY <1>1
    <3> QED BY <2>1, <3>1, <3>2 DEF Attached, Objects
  <2>2. CASE o \notin ToSet(Opened)
    <3>1. /\ Header(o, {}) \in Headers /\ Header(o, {}) # None
          /\ Data(o, 0) \in Arrays /\ Data(o, 0) # None
      BY HDUListAssumption DEF Header, Data, Headers, Arrays
    <3>2. PICK h, d, x : h = Header(o, {}) /\ d = Data(o, 0) /\ x = obj[o]
      OBVIOUS
    <3>3. x = [attached |-> FALSE, index |-> 0, header |-> h, revision |-> 0, hooks |-> FALSE,
               data |-> d, base |-> None]
      BY <2>2, <3>2, <1>4 DEF Detached
    <3>4. x \in Objects
      BY <3>1, <3>2, <3>3 DEF Objects
    <3> QED BY <3>1, <3>2, <3>3, <3>4
  <2> QED BY <2>1, <2>2
<1>6. /\ want \in [Obj -> Wanted]
      /\ \A o \in Obj : /\ want[o].header = Header(o, {}) /\ want[o].data = Data(o, 0)
                        /\ want[o].header.of = o /\ want[o].data.of = o /\ Data(o, 0) # None
  <2>1. ASSUME NEW o \in Obj
        PROVE  /\ Header(o, {}) \in Headers /\ Header(o, {}).of = o
               /\ Data(o, 0) \in [of : Obj, version : 0 .. 1] /\ Data(o, 0).of = o
               /\ Data(o, 0) # None
    <3>1. Data(o, 0) \in Arrays
      BY DEF Data, Arrays
    <3> QED BY <3>1, HDUListAssumption DEF Header, Headers, Data
  <2>2. want = [o \in Obj |-> [header |-> Header(o, {}), data |-> Data(o, 0)]]
    BY DEF Init
  <2> QED BY <2>1, <2>2 DEF Wanted
<1>7. /\ call \in FlushCalls /\ call.pc = "idle" /\ call.how = "ok" /\ call.before = <<>>
      /\ ~Halved /\ ~Flushed
  <2>1. <<>> \in Seq(Slots)
    BY EmptySeq
  <2> QED BY <2>1, <1>2 DEF Idle, FlushCalls, Halved, Flushed
<1>8. ListTypeOK
  <2>1. obj \in [Obj -> Objects]
    BY <1>5 DEF Init
  <2> QED BY <2>1, <1>1, <1>2, <1>3, <1>6, <1>7 DEF ListTypeOK
<1>9. Memory
  BY <1>2, <1>5, <1>6 DEF Memory
<1>10. Homes
  <2>1. ASSUME NEW o \in Obj, Live(o)
        PROVE  /\ obj[o].index \in 1 .. scanned /\ Opened[obj[o].index] = o
               /\ Keeps(o, obj[o].index) /\ RevisionKnown(o, obj[o].index)
    <3>1. PICK s : s = obj[o].index
      OBVIOUS
    <3>2. /\ s \in 1 .. Len(Opened) /\ Opened[s] = o /\ obj[o].header = None
      BY <2>1, <3>1, <1>5 DEF Live
    <3>3. disk[s].header = want[o].header /\ disk[s].data = want[o].data /\ want[o].data # None
      BY <3>2, <1>3, <1>6
    <3> QED BY <3>1, <3>2, <3>3, <1>2, <1>3, <1>6 DEF Keeps, HeaderKept, DataKept, RevisionKnown
  <2> QED BY <2>1, <1>1, <1>2, <1>3 DEF Homes
<1>11. NeverMissing
  BY <1>7, <1>8, <1>9, <1>10, NothingMissing
<1> QED BY <1>2, <1>3, <1>7, <1>8, <1>9, <1>10, <1>11
    DEF ListInv, Layout, AppendProgress, Appended, DeleteProgress, Remaining, Rollback, Appends,
        AppendRollsBack, Resting, DataProgress, Extent

\* The steps in which nothing happens.
LEMMA IdleStep ==
    ASSUME ListInv, UNCHANGED vars
    PROVE  ListInv'
<1>1. UNCHANGED <<disk, list, obj, opts, scanned, dirty, call, ops, faults, want, gone, extra>>
  BY DEF vars
<1>2. ListTypeOK' /\ Memory'
  BY <1>1 DEF ListInv, ListTypeOK, Memory, Live, Listed, Update
<1>3. Homes'
  BY <1>1 DEF ListInv, Homes, Halved, Live, Keeps, HeaderKept, DataKept, RevisionKnown, Changed,
     Update, Listed
<1>4. Layout' /\ AppendProgress'
  BY <1>1 DEF ListInv, Layout, AttachedAt, AppendProgress, Copied, Update, Halved
<1>5. DeleteProgress' /\ Rollback'
  BY <1>1 DEF ListInv, DeleteProgress, Rollback, Appends, AppendRollsBack, Resting, Halved, Listed
<1>6. Appended' /\ Remaining'
  BY <1>1 DEF ListInv, Appended, AppendedAt, Remaining, Changed, DataKept, Live, Keeps, HeaderKept,
     RevisionKnown, Update
<1>7. DataProgress'
  <2>1. (Update' <=> Update) /\ (Halved' <=> Halved) /\ (Flushed' <=> Flushed)
    BY <1>1 DEF Update, Halved, Flushed, Resting
  <2>2. \A o : Changed(o)' <=> Changed(o)
    BY <1>1 DEF Changed
  <2> QED BY <1>1, <2>1, <2>2 DEF ListInv, DataProgress, Aligned, AttachedAt
<1>8. Extent'
  BY <1>1 DEF ListInv, Extent, Resting, Halved
<1>9. NeverMissing'
  BY <1>1 DEF ListInv, NeverMissing, Live, Listed, Update, Keeps, HeaderKept, DataKept
<1> QED BY <1>1, <1>2, <1>3, <1>4, <1>5, <1>6, <1>7, <1>8, <1>9 DEF ListInv

\* The invariant, of a program that does not use an HDU after it is removed and does not go
\* on once a flush has failed while it deletes (HDUList: __delitem__, flush, _reconcile).
THEOREM ListInvariant ==
    ASSUME ~Reuse, ~Retry
    PROVE  Spec => []ListInv
<1>1. Init => ListInv
  BY InitStep
<1>2. ListInv /\ [Next]_vars => ListInv'
  <2> SUFFICES ASSUME ListInv, [Next]_vars PROVE ListInv'
    OBVIOUS
  <2>1. CASE UNCHANGED vars
    BY <2>1, IdleStep
  <2>2. CASE Program
    <3>1. ASSUME NEW o \in Obj, Read(o) \/ Mutate(o) \/ Replace(o) \/ EditThrough(o) \/ EditLocal(o)
          PROVE  ListInv'
      BY <3>1, ReadStep, MutateStep, ReplaceStep, EditThroughStep, EditLocalStep
    <3>2. ASSUME NEW o \in Obj, NEW i \in 1 .. Len(list) + 1, Insert(o, i) PROVE ListInv'
      BY <3>2, InsertStep
    <3>3. ASSUME NEW i \in DOMAIN list, Drop(i) PROVE ListInv'
      BY <3>3, DropStep
    <3>4. ASSUME NEW i \in DOMAIN list, NEW j \in DOMAIN list, Move(i, j) PROVE ListInv'
      BY <3>4, MoveStep
    <3>5. CASE Flush
      BY <3>5, FlushStep
    <3> QED BY <2>2, <3>1, <3>2, <3>3, <3>4, <3>5 DEF Program
  <2>3. CASE Step
    BY <2>3, CopyStep, CreateStep, FillStep, AppendEndsStep, DeleteStep, RebindStep, UndoStep,
       UndoneStep, SkipStep, WriteDataStep, WriteEndsStep, SyncedStep DEF Step
  <2>4. CASE Failure
    BY <2>4, AppendFailsStep, UndoneStep, DeleteFailsStep, WriteFailsStep, SyncedStep DEF Failure
  <2> QED BY <2>1, <2>2, <2>3, <2>4 DEF Next
<1> QED BY <1>1, <1>2, PTL DEF Spec

\* "Duplicates, never missing HDUs": wherever a flush stops (_reconcile).
THEOREM ListNeverMissing ==
    ASSUME ~Reuse, ~Retry
    PROVE  Spec => []NeverMissing
<1>1. ListInv => NeverMissing
  BY DEF ListInv
<1> QED BY <1>1, ListInvariant, PTL

\* A flush that is refused, or fails while it appends, leaves the file as it was (_reconcile).
THEOREM ListAppendRollsBack ==
    ASSUME ~Reuse, ~Retry
    PROVE  Spec => []AppendRollsBack
<1>1. ListInv => AppendRollsBack
  BY DEF ListInv, Rollback
<1> QED BY <1>1, ListInvariant, PTL

\* No edit of an HDU of the list meets an old header (Header.apply, _revision).
THEOREM ListNoFalseConflict ==
    ASSUME ~Reuse, ~Retry
    PROVE  Spec => []NoFalseConflict
<1>1. ListInv => NoFalseConflict
  BY DEF ListInv, NoFalseConflict
<1> QED BY <1>1, ListInvariant, PTL

\* What the program gave the HDUs is in the file when flush returns (flush).
THEOREM ListFlushPersists ==
    ASSUME ~Reuse, ~Retry
    PROVE  Spec => []FlushPersists
<1>1. ListInv => FlushPersists
  <2> SUFFICES ASSUME ListInv, Flushed
               PROVE  /\ \A i \in DOMAIN list : /\ disk[i].header = want[list[i]].header
                                                /\ disk[i].data = want[list[i]].data
                      /\ Len(disk) = Len(list) \/ extra
    BY DEF FlushPersists
  <2>1. ListTypeOK /\ Memory /\ Homes /\ DataProgress /\ Extent
    BY DEF ListInv
  <2>2. call.pc = "idle" /\ ~Halved /\ Update /\ Aligned /\ \A k \in DOMAIN list : ~Changed(list[k])
    BY <2>1 DEF Flushed, Resting, Halved, DataProgress
  <2>3. ASSUME NEW i \in DOMAIN list
        PROVE  disk[i].header = want[list[i]].header /\ disk[i].data = want[list[i]].data
    <3>1. list[i] \in Obj /\ list[i] \in Listed
      BY <2>1, ToSetFacts DEF ListTypeOK, Listed
    <3>2. Live(list[i]) /\ obj[list[i]].index = i
      BY <3>1, <2>1, <2>2 DEF Aligned, AttachedAt, Live, Memory
    <3>3. Keeps(list[i], i)
      BY <3>1, <3>2, <2>1, <2>2 DEF Homes
    <3> QED BY <3>3, <2>2 DEF Keeps, HeaderKept, DataKept
  <2>4. Len(disk) = Len(list) \/ extra
    BY <2>1, <2>2 DEF Extent, Aligned
  <2> QED BY <2>3, <2>4
<1> QED BY <1>1, ListInvariant, PTL

\* writeto writes the list as the program sees it, from the file or from memory (to_bytes).
THEOREM ListWritesWhatIsSeen ==
    ASSUME ~Reuse, ~Retry
    PROVE  Spec => []WritesWhatIsSeen
<1>1. ListInv => WritesWhatIsSeen
  <2> SUFFICES ASSUME ListInv, call.pc = "idle", call.how # "displaced"
               PROVE  /\ \A i \in DOMAIN list : /\ Written[i].header = want[list[i]].header
                                                /\ Written[i].data = want[list[i]].data
                      /\ Len(Written) = Len(list) \/ extra
    BY DEF WritesWhatIsSeen, Resting
  <2>1. ListTypeOK /\ Memory /\ Homes /\ ~Halved /\ (Len(disk) = scanned \/ extra)
    BY DEF ListInv, Halved, Extent
  <2>2. /\ DOMAIN list = 1 .. Len(list) /\ DOMAIN disk = 1 .. Len(disk)
        /\ Len(list) \in Nat /\ Len(disk) \in Nat /\ scanned \in Nat /\ scanned <= Len(disk)
        /\ \A i \in DOMAIN list : list[i] \in Obj /\ list[i] \in Listed
    BY <2>1, ToSetFacts, LenProperties DEF ListTypeOK, Listed, Homes
  <2>3. CASE Pristine
    <3>1. /\ ~dirty /\ Len(list) = scanned
          /\ \A i \in DOMAIN list : ~Changed(list[i]) /\ AttachedAt(list[i], i)
          /\ Written = [i \in 1 .. Len(disk) |-> [header |-> disk[i].header, data |-> disk[i].data]]
      BY <2>2, <2>3 DEF Pristine, Written
    <3>2. ASSUME NEW i \in DOMAIN list
          PROVE  Written[i].header = want[list[i]].header /\ Written[i].data = want[list[i]].data
      <4>1. list[i] \in Obj /\ Live(list[i]) /\ obj[list[i]].index = i
        BY <2>1, <2>2, <3>1 DEF AttachedAt, Live, Memory
      <4>2. Keeps(list[i], i)
        BY <4>1, <2>1 DEF Homes
      <4>3. disk[i].header = want[list[i]].header /\ disk[i].data = want[list[i]].data
        BY <4>2, <3>1 DEF Keeps, HeaderKept, DataKept
      <4>4. i \in 1 .. Len(disk)
        BY <2>2, <3>1
      <4> QED BY <4>3, <4>4, <3>1
    <3>3. Len(Written) = Len(disk)
      BY <2>2, <3>1
    <3> QED BY <3>1, <3>2, <3>3, <2>1
  <2>4. CASE ~Pristine
    <3>1. Written = [i \in 1 .. Len(list) |-> Serialized(list[i])]
      BY <2>2, <2>4 DEF Written
    <3>2. ASSUME NEW i \in DOMAIN list
          PROVE  Written[i].header = want[list[i]].header /\ Written[i].data = want[list[i]].data
      <4>1. PICK o : o = list[i]
        OBVIOUS
      <4>2. o \in Obj /\ o \notin gone
        BY <4>1, <2>1, <2>2 DEF Memory
      <4>3. Live(o) => HeaderKept(o, obj[o].index) /\ DataKept(o, obj[o].index)
        BY <4>2, <2>1 DEF Homes, Keeps
      <4>4. obj[o].header = None \/ obj[o].data = None => Live(o)
        BY <4>2, <2>1 DEF Memory, Live
      <4>5. ReadHeader(o).header = want[o].header
        <5>1. CASE obj[o].header # None
          BY <5>1, <4>2, <2>1 DEF ReadHeader, Memory
        <5>2. CASE obj[o].header = None
          <6>1. Slot(o).header = want[o].header
            BY <5>2, <4>3, <4>4 DEF HeaderKept, Slot
          <6>2. PICK h, v : h = Slot(o).header /\ v = Slot(o).revision
            OBVIOUS
          <6>3. ReadHeader(o) = [obj[o] EXCEPT !.header = h, !.revision = v, !.hooks = Update]
            BY <5>2, <6>2 DEF ReadHeader
          <6>4. obj[o] \in Objects
            BY <4>2, <2>1 DEF ListTypeOK
          <6> QED BY <6>1, <6>2, <6>3, <6>4 DEF Objects
        <5> QED BY <5>1, <5>2
      <4>6. Serialized(o).data = want[o].data
        BY <4>2, <4>3, <4>4, <2>1 DEF Serialized, Memory, DataKept, Changed, Slot
      <4>7. Serialized(o).header = want[o].header
        BY <4>5 DEF Serialized
      <4> QED BY <4>1, <4>6, <4>7, <3>1, <2>2
    <3>3. Len(Written) = Len(list)
      BY <2>2, <3>1
    <3> QED BY <3>2, <3>3
  <2> QED BY <2>3, <2>4
<1> QED BY <1>1, ListInvariant, PTL
==============================================================================
