------------------------------ MODULE FitsFile -------------------------------
(***************************************************************************)
(* What a handle promises about the file it edits: a FITS file is a         *)
(* sequence of HDUs followed by special records, one HDU is the current     *)
(* one, and an editing call changes exactly the HDU it names, in one step,  *)
(* or changes nothing.                                                      *)
(***************************************************************************)
EXTENDS Integers, Sequences

CONSTANTS Hdr, Zero, Space

VARIABLES
    file,       \* the HDUs: a sequence of [hdr, data]
    tail,       \* the cells after the last HDU
    cur,        \* the current HDU, from 0
    ok          \* FALSE once a call was interrupted by an error it did not undo

Pad(h) == IF Hdr[h].ascii THEN Space ELSE Zero

\* The data unit of u under the header h: what fits is kept, the rest is blank.
Refit(u, h) ==
    [hdr  |-> h,
     data |-> [k \in 0 .. Hdr[h].bytes - 1 |->
                 IF k \in DOMAIN u.data THEN u.data[k] ELSE Pad(h)]]
Blank(h) == Refit([data |-> <<>>], h)

Init ==
    /\ ok = TRUE /\ cur = 0
    /\ \A n \in 1 .. Len(file) :
          /\ Hdr[file[n].hdr].ext = (n > 1)
          /\ DOMAIN file[n].data = 0 .. Hdr[file[n].hdr].bytes - 1

AppendBlank ==
    /\ tail = <<>>
    /\ \E h \in DOMAIN Hdr : /\ Hdr[h].ext = (file # <<>>)
                             /\ file' = Append(file, Blank(h))
    /\ cur' = Len(file)

\* Only an extension can be copied: the copy is an extension.
AppendCopy ==
    /\ tail = <<>>
    /\ \E n \in 2 .. Len(file) : file' = Append(file, file[n])
    /\ cur' = Len(file)

\* The current HDU stays current; when it is the one deleted, the HDU that
\* takes its place is, or the last one.  The primary HDU cannot be deleted.
Remove ==
    \E n \in 2 .. Len(file) :
        /\ file' = SubSeq(file, 1, n - 1) \o SubSeq(file, n + 1, Len(file))
        /\ cur' = IF cur >= n \/ cur = Len(file) - 1 THEN cur - 1 ELSE cur

Rewrite ==
    /\ \E n \in 1 .. Len(file), h \in DOMAIN Hdr :
          /\ Hdr[h].ext = (n > 1) /\ Hdr[h].ascii = Hdr[file[n].hdr].ascii
          /\ file' = [file EXCEPT ![n] = Refit(@, h)]
    /\ UNCHANGED cur

WriteData ==
    /\ Len(file') = Len(file)
    /\ \E n \in 1 .. Len(file) :
          /\ file' = [file EXCEPT ![n].data = file'[n].data]
          /\ DOMAIN file'[n].data = DOMAIN file[n].data
    /\ UNCHANGED cur

Move == cur' \in 0 .. Len(file) - 1 /\ UNCHANGED file

Edit == /\ ok /\ UNCHANGED <<tail, ok>>
        /\ AppendBlank \/ AppendCopy \/ Remove \/ Rewrite \/ WriteData \/ Move

\* A call fails and could not put everything back: nothing more is promised.
Break == ok /\ ok' = FALSE /\ file' = <<>> /\ tail' = <<>> /\ cur' = 0

Next == Edit \/ Break

Spec == Init /\ [][Next]_<<file, tail, cur, ok>>
=============================================================================
