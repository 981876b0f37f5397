------------------------------ MODULE PyHeader -------------------------------
(***************************************************************************)
(* A Header of the Python binding attached to an open file                  *)
(* (bindings/python/src/zigfitsio/header.py with the methods of _HDU in     *)
(* core.py that it persists through).  The cards the program sees are read  *)
(* once; every edit goes to the file as a batch the library applies whole   *)
(* or not at all, against the revision the header believes in, and to the   *)
(* cards in memory.  Others may edit the same header through the same       *)
(* handle.                                                                 *)
(*                                                                         *)
(* A card is a keyword and a value (its comment is part of the value); the  *)
(* cards of the file are those before END.                                  *)
(***************************************************************************)
EXTENDS Integers, Sequences, SequencesExt

CONSTANTS
    Valued,         \* keywords with a value
    Structural,     \* those of them the library derives from the data
    Sum, NewSum,    \* the one a flush with checksums writes, and what it writes
    Commentary,     \* keywords whose cards accumulate
    Blank,          \* the commentary keyword of eight spaces
    Empty,          \* its empty text: such a card is free for reuse
    Val, Texts,     \* values the program writes, and texts, as the cards they need
    Theirs,         \* the text others write
    FirstCards,     \* the header of the file
    Attempts,       \* at a snapshot of the header
    MaxEdits,       \* bound on the edits of the program
    MaxOthers,      \* bound on what others do
    MaxFaults       \* bound on failing writes

ASSUME HeaderAssumption ==
    /\ Structural \subseteq Valued /\ Sum \in Valued /\ Blank \in Commentary
    /\ Valued \cap Commentary = {} /\ Attempts \in Nat \ {0}
    /\ \A t \in Texts : Theirs \notin Range(t)
    /\ MaxEdits \in Nat /\ MaxOthers \in Nat /\ MaxFaults \in Nat

None == 0   \* no revision is expected

VARIABLES
    mode,       \* "update" or "readonly"
    file,       \* the cards of the file
    rev,        \* the revision the library gives them
    reading,    \* the revision a snapshot was queried at, and the attempt
    loaded,     \* whether the program has the header
    shown,      \* the cards it sees
    known,      \* the revision it expects, or None
    txn,        \* the edit() context: open, the cards before it, the staged edits
    chunks,     \* the cards a commentary append still has to write
    dirty,      \* the list of HDUs is rebuilt when it is saved
    edits, others, faults,
    ahead,      \* history: keywords changed in memory while the file refused
    strange,    \* history: keywords others changed since the header was read
    blind,      \* history: those of them an edit without a revision stepped over
    ever        \* history: the cards the program has seen
disk    == <<file, rev>>
counts  == <<edits, others, faults>>
memory  == <<shown, known, txn, chunks, dirty>>
history == <<ahead, strange, blind, ever>>
vars == <<mode, disk, reading, loaded, memory, counts, history>>

Card(kw, val) == [kw |-> kw, val |-> val]
CardsOf(cards, kw) == SelectSeq(cards, LAMBDA c : c.kw = kw)
Cards(kw, texts) == [n \in DOMAIN texts |-> Card(kw, texts[n])]
NoRead == [rev |-> None, attempt |-> 0]
NoEdit == [open |-> FALSE, backup |-> <<>>, ops |-> <<>>]

Init ==
    /\ mode \in {"update", "readonly"}
    /\ file = FirstCards /\ rev = 1
    /\ reading = NoRead /\ loaded = FALSE
    /\ shown = <<>> /\ known = None /\ txn = NoEdit /\ chunks = <<>> /\ dirty = FALSE
    /\ edits = 0 /\ others = 0 /\ faults = 0
    /\ ahead = {} /\ strange = {} /\ blind = {} /\ ever = {}

-----------------------------------------------------------------------------
(* The edits the library applies (zf_header_apply_v1) *)

Op(kind, kw, val) == [kind |-> kind, kw |-> kw, val |-> val]
Upsert(kw, val) == Op("upsert", kw, val)
DeleteFirst(kw) == Op("delete_first", kw, Empty)
DeleteAll(kw)   == Op("delete_all", kw, Empty)
AppendText(kw, text) == Op("append_commentary", kw, text)

\* The place of the first card of a keyword, or 0 (the mutant finds the last).
FindLast(cards, kw) == SelectLastInSeq(cards, LAMBDA c : c.kw = kw)
Find(cards, kw) == SelectInSeq(cards, LAMBDA c : c.kw = kw)     \* in memory
FindRun(cards, kw) == SelectInSeq(cards, LAMBDA c : c.kw = kw)  \* in the file

\* A new card takes the place of the first empty one, if there is any.
InsertUsingReservedBlanks(cards, card) ==
    LET first == SelectInSeq(cards, LAMBDA c : c = Card(Blank, Empty))
    IN  IF first = 0 THEN Append(cards, card) ELSE [cards EXCEPT ![first] = card]

Applied(cards, op) ==
    LET i == FindRun(cards, op.kw)
    IN  CASE op.kind = "upsert" ->
                IF i = 0 THEN InsertUsingReservedBlanks(cards, Card(op.kw, op.val))
                         ELSE [cards EXCEPT ![i].val = op.val]
          [] op.kind = "delete_first" -> RemoveAt(cards, i)
          [] op.kind = "delete_all" -> SelectSeq(cards, LAMBDA c : c.kw # op.kw)
          [] op.kind = "append_commentary" -> Append(cards, Card(op.kw, op.val))

\* The cards after a batch, by way of those after each of its edits.
Staged(cards, ops) == FoldLeft(Applied, cards, ops)

\* Structural keywords are refused, and the deletion of what is not there.
Legal(cards, ops) ==
    \A n \in DOMAIN ops :
        /\ ops[n].kw \notin Structural
        /\ ops[n].kind = "delete_first" =>
              FindRun(Staged(cards, SubSeq(ops, 1, n - 1)), ops[n].kw) # 0

\* The header was changed by somebody else since the program read it (the mutant
\* does not look).
ConflictNever(expected) == FALSE
Conflict(expected) == expected # None /\ expected # rev

Accepts(ops) == ~Conflict(known) /\ Legal(file, ops)

Commit(ops) ==
    /\ Accepts(ops)
    /\ file' = Staged(file, ops) /\ rev' = rev + 1
    /\ known' = rev + 1
    /\ blind' = IF known = None THEN strange ELSE blind
    /\ UNCHANGED faults

\* A refused batch, or one that a failing write has undone.
Refuse(ops) ==
    /\ IF Accepts(ops) THEN faults < MaxFaults /\ faults' = faults + 1
                       ELSE UNCHANGED faults
    /\ UNCHANGED <<disk, known, blind>>

-----------------------------------------------------------------------------
(* Reading the header *)

Query ==
    /\ ~loaded /\ reading.rev = None
    /\ reading' = [rev |-> rev, attempt |-> reading.attempt + 1]
    /\ UNCHANGED <<mode, disk, loaded, memory, counts, history>>

\* The header is filled in if it is still the one that was queried; else it is
\* queried again, and after the last attempt the caller gets the error.
Fill ==
    /\ reading.rev # None
    /\ IF reading.rev = rev
       THEN /\ shown' = file /\ known' = rev /\ loaded' = TRUE /\ reading' = NoRead
            /\ ever' = Range(file) /\ strange' = {}
       ELSE /\ reading' = IF reading.attempt = Attempts THEN NoRead
                          ELSE [reading EXCEPT !.rev = None]
            /\ UNCHANGED <<shown, known, loaded, ever, strange>>
    /\ UNCHANGED <<mode, disk, txn, chunks, dirty, counts, ahead, blind>>

-----------------------------------------------------------------------------
(* Editing *)

Ready == loaded /\ chunks = <<>> /\ edits < MaxEdits
Attached == mode = "update"
See(cards) == shown' = cards /\ ever' = ever \cup Range(cards)

\* Within edit() an edit is staged; on a read-only file it stays in memory and the
\* list is rebuilt when saved.
Stage(ops, cards) ==
    /\ txn.open
    /\ txn' = [txn EXCEPT !.ops = @ \o ops]
    /\ See(cards)
    /\ UNCHANGED <<disk, known, dirty, faults, ahead, blind>>

Local(cards) ==
    /\ ~txn.open /\ ~Attached
    /\ dirty' = TRUE
    /\ See(cards)
    /\ UNCHANGED <<disk, known, txn, faults, ahead, blind>>

\* Persisted, then shown: what the file refuses is not shown either.
Through(ops, cards) ==
    /\ ~txn.open /\ Attached
    /\ \/ Commit(ops) /\ See(cards)
       \/ Refuse(ops) /\ UNCHANGED <<shown, ever>>
    /\ UNCHANGED <<txn, dirty, ahead>>

\* Shown, then persisted: what the file refuses is shown all the same.
ThroughLate(kw, ops, cards) ==
    /\ ~txn.open /\ Attached
    /\ See(cards)
    /\ \/ Commit(ops) /\ ahead' = ahead \ {kw}
       \/ Refuse(ops) /\ ahead' = ahead \cup {kw}
    /\ UNCHANGED <<txn, dirty>>

Edit == edits' = edits + 1 /\ UNCHANGED <<mode, reading, loaded, others, strange>>

\* header[kw] = val: the first card shown gets the value, or there is a new one.
SetItem(kw, val) ==
    LET i     == Find(shown, kw)
        cards == IF i = 0 THEN Append(shown, Card(kw, val)) ELSE [shown EXCEPT ![i].val = val]
        ops   == <<Upsert(kw, val)>>
    IN  /\ Ready /\ Edit /\ UNCHANGED chunks
        /\ Stage(ops, cards) \/ Local(cards) \/ Through(ops, cards)

DelItem(kw) ==
    LET i   == Find(shown, kw)
        ops == <<DeleteFirst(kw)>>
    IN  /\ Ready /\ Edit /\ UNCHANGED chunks
        /\ i # 0
        /\ \/ Stage(ops, RemoveAt(shown, i)) \/ Local(RemoveAt(shown, i))
           \/ Through(ops, RemoveAt(shown, i))

\* Every chunk of an appended text is a card, and a batch of its own.
AppendCommentary(cards) ==
    LET ops == [n \in DOMAIN cards |-> AppendText(cards[n].kw, cards[n].val)]
    IN  /\ Ready /\ Edit
        /\ \/ (Stage(ops, shown \o cards) \/ Local(shown \o cards)) /\ UNCHANGED chunks
           \/ /\ ~txn.open /\ Attached /\ chunks' = cards
              /\ UNCHANGED <<disk, shown, known, txn, dirty, faults, ahead, blind, ever>>

AppendChunk ==
    /\ chunks # <<>>
    /\ LET card == Head(chunks)
           ops  == <<AppendText(card.kw, card.val)>>
       IN  \/ Commit(ops) /\ See(Append(shown, card)) /\ chunks' = Tail(chunks)
           \/ Refuse(ops) /\ chunks' = <<>> /\ UNCHANGED <<shown, ever>>
    /\ UNCHANGED <<mode, reading, loaded, txn, dirty, edits, others, ahead, strange>>

\* What becomes of a keyword's cards in memory becomes of them in the file: all are
\* deleted, and those shown are appended (the mutant does not delete).
Resync(kw, cards) ==
    <<DeleteAll(kw)>>
    \o [n \in DOMAIN CardsOf(cards, kw) |-> AppendText(kw, CardsOf(cards, kw)[n].val)]

Rewrite(kw, cards) ==
    /\ Ready /\ Edit /\ UNCHANGED chunks
    /\ \/ Stage(Resync(kw, cards), cards) \/ Local(cards)
       \/ ThroughLate(kw, Resync(kw, cards), cards)

\* header[kw] = [...], del header[kw]
Without(kw) == SelectSeq(shown, LAMBDA c : c.kw # kw)
SetCommentary(kw, cards) == Rewrite(kw, Without(kw) \o cards)
DelCommentary(kw) == CardsOf(shown, kw) # <<>> /\ Rewrite(kw, Without(kw))

\* view[i] = text, del view[i]; a long text spills into cards that follow.
ViewSet(i, cards) ==
    Rewrite(shown[i].kw, SubSeq(shown, 1, i - 1) \o cards
                         \o SubSeq(shown, i + 1, Len(shown)))
ViewDel(i) == Rewrite(shown[i].kw, RemoveAt(shown, i))

-----------------------------------------------------------------------------
(* with header.edit(): ...   (an edit() within it joins it) *)

BeginEdit ==
    /\ Ready /\ ~txn.open
    /\ txn' = [open |-> TRUE, backup |-> shown, ops |-> <<>>]
    /\ UNCHANGED <<mode, disk, reading, loaded, shown, known, chunks, dirty, counts, history>>

Restore == shown' = txn.backup /\ txn' = NoEdit

EndEdit ==
    /\ txn.open
    /\ \/ /\ txn.ops = <<>>
          /\ txn' = NoEdit /\ UNCHANGED <<disk, shown, known, dirty, faults, blind>>
       \/ /\ txn.ops # <<>> /\ Attached
          /\ \/ Commit(txn.ops) /\ txn' = NoEdit /\ UNCHANGED shown
             \/ Refuse(txn.ops) /\ Restore
          /\ UNCHANGED dirty
       \/ /\ txn.ops # <<>> /\ ~Attached
          /\ dirty' = TRUE /\ txn' = NoEdit
          /\ UNCHANGED <<disk, shown, known, faults, blind>>
    /\ UNCHANGED <<mode, reading, loaded, chunks, edits, others, ahead, strange, ever>>

BodyRaises ==
    /\ txn.open /\ Restore
    /\ UNCHANGED <<mode, disk, reading, loaded, known, chunks, dirty, counts, history>>

-----------------------------------------------------------------------------
(* The others, and the flush of a file opened with checksums *)

Other(op) ==
    /\ Attached /\ others < MaxOthers /\ others' = others + 1
    /\ Legal(file, <<op>>)
    /\ file' = Applied(file, op) /\ rev' = rev + 1
    /\ strange' = strange \cup {op.kw}
    /\ UNCHANGED <<mode, reading, loaded, memory, edits, faults, ahead, blind, ever>>

\* The sum is written under the header's feet, which then expects no revision.
Flush ==
    /\ Attached /\ others < MaxOthers /\ others' = others + 1
    /\ reading.rev = None /\ chunks = <<>>
    /\ file' = Applied(file, Upsert(Sum, NewSum)) /\ rev' = rev + 1
    /\ known' = None
    /\ UNCHANGED <<mode, reading, loaded, shown, txn, chunks, dirty, edits, faults, history>>

Next ==
    \/ Query \/ Fill
    \/ \E kw \in Valued, v \in Val : SetItem(kw, v)
    \/ \E kw \in Valued : DelItem(kw)
    \/ \E kw \in Commentary, t \in Texts :
          AppendCommentary(Cards(kw, t)) \/ SetCommentary(kw, Cards(kw, t))
    \/ AppendChunk
    \/ \E kw \in Commentary : DelCommentary(kw)
    \/ \E i \in {n \in DOMAIN shown : shown[n].kw \in Commentary} :
          ViewDel(i) \/ \E t \in Texts : ViewSet(i, Cards(shown[i].kw, t))
    \/ BeginEdit \/ EndEdit \/ BodyRaises
    \/ \E kw \in Commentary \ {Blank} : Other(AppendText(kw, Theirs))
    \/ \E kw \in Valued, v \in Val : Other(Upsert(kw, v)) \/ Other(DeleteFirst(kw))
    \/ Flush

Spec == Init /\ [][Next]_vars

-----------------------------------------------------------------------------
(* Saving: the bytes of the file, or the header built anew *)

\* The user's keywords are written again into a new header (the mutant drops the
\* commentary).
RebuiltValued(cards) ==
    LET user == SelectSeq(cards, LAMBDA c : c.kw \in Valued \ (Structural \cup {Sum}))
    IN  Staged(<<>>, [n \in DOMAIN user |-> Upsert(user[n].kw, user[n].val)])
Rebuilt(cards) ==
    LET user == SelectSeq(cards, LAMBDA c : c.kw \notin Structural \cup {Sum})
    IN  Staged(<<>>, [n \in DOMAIN user |-> IF user[n].kw \in Commentary
                                            THEN AppendText(user[n].kw, user[n].val)
                                            ELSE Upsert(user[n].kw, user[n].val)])
Saved == IF dirty THEN Rebuilt(shown) ELSE file

-----------------------------------------------------------------------------
(* Properties *)

User == (Valued \cup Commentary) \ (Structural \cup {Sum})
Lasting(cards, kw) == SelectSeq(CardsOf(cards, kw), LAMBDA c : c # Card(Blank, Empty))

\* Outside edit(), the cards of each keyword are in the file as the program sees
\* them, but for what others wrote and for what the file refused after it was shown
\* (a rewrite of commentary).  Empty cards are left out: the library reuses them.
HeaderIsFile ==
    (loaded /\ Attached /\ ~txn.open) =>
        \A kw \in (User \cup Structural) \ (ahead \cup strange) :
            Lasting(shown, kw) = Lasting(file, kw)

\* An edit of the program, made against a revision, removes no commentary from the
\* file that the program has never seen, unless an edit without one came between.
TextKept ==
    [][(others' = others /\ known # None) =>
          \A n \in DOMAIN file :
              (file[n].kw \in Commentary \ blind /\ file[n] \notin ever)
                 => Contains(file', file[n])]_vars

\* A saved file has what the program sees, whether it is copied or rebuilt.  Of a
\* valued keyword with several cards the last is left, where the program sees the first.
SavedIsSeen ==
    (loaded /\ ~txn.open) =>
        \A kw \in User \ (ahead \cup strange) :
            \/ Lasting(Saved, kw) = Lasting(shown, kw)
            \/ kw \in Valued /\ Len(CardsOf(shown, kw)) > 1
=============================================================================
