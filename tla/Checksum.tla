------------------------------ MODULE Checksum -------------------------------
(***************************************************************************)
(* DATASUM and CHECKSUM (src/checksum.zig): the one's complement sum, its   *)
(* encoding in printable characters, and the update of every HDU that       *)
(* `flush` makes (Fits.flush, updateAll, update) and `verify` checks.       *)
(*                                                                          *)
(* Scale: a summed word is one byte instead of four, with halves of four    *)
(* bits instead of sixteen, so a checksum is one byte and its field is the  *)
(* four characters the encoder makes of a byte; the rotation of the sixteen *)
(* characters, which only aligns the four byte columns with the words of    *)
(* the card, disappears.  The byte arithmetic of the encoder is the code's. *)
(*                                                                          *)
(* A header is kept twice, in memory and on the device: update changes the  *)
(* first, step by step, and then writes it; verify reads the first.         *)
(***************************************************************************)
EXTENDS Integers, Sequences

CONSTANTS
    InitHdus,       \* the HDUs the file may hold: sequences of [mem, disk, data, has]
    Value,          \* words a caller writes
    MaxEdits,       \* bound: how many words the caller changes
    MaxFaults       \* bound: how many reads, writes or allocations fail

VARIABLES
    hdus,       \* the HDUs: header in memory, header on the device, data
    job,        \* the flush under way
    fresh,      \* history: HDUs updated since they were last changed
    edits, faults

vars == <<hdus, job, fresh, edits, faults>>

Half == 16                      \* a half word holds 0 .. Half - 1; 2^16 in the code
Word == 0 .. Half * Half - 1
Ones == Half * Half - 1         \* the word 0xFFFFFFFF

-----------------------------------------------------------------------------
(* The sum (sumBytes, combineSums).                                         *)

\* The fold of the end-around carries.
Fold[p \in Nat \X Nat] ==
    IF p[1] < Half /\ p[2] < Half THEN p[1] * Half + p[2]
    ELSE Fold[<<(p[1] % Half) + (p[2] \div Half), (p[2] % Half) + (p[1] \div Half)>>]

\* One pass over the words adds up their high and their low halves.
SumWords(prev, words) ==
    LET high[k \in 0 .. Len(words)] ==
          IF k = 0 THEN prev \div Half ELSE high[k - 1] + (words[k] \div Half)
        low[k \in 0 .. Len(words)] ==
          IF k = 0 THEN prev % Half ELSE low[k - 1] + (words[k] % Half)
    IN  Fold[<<high[Len(words)], low[Len(words)]>>]

CombineSums(a, b) == ((a + b) % (Half * Half)) + ((a + b) \div (Half * Half))

-----------------------------------------------------------------------------
(* The encoding (encodeChecksum, decodeChecksum).                           *)

Offset == 48                    \* ASCII '0'
Exclude == << 58, 59, 60, 61, 62, 63, 64, 91, 92, 93, 94, 95, 96 >>

\* The characters a byte is spread over, before the fix-up.
Spread(byte) ==
    LET q == (byte \div 4) + Offset IN <<q + (byte % 4), q, q, q>>

\* The fix-up of one pair for one excluded code (mutant: it leaves the pair
\* as it is).
Hit(ch, j, ex) == ch[j] = ex \/ ch[j + 1] = ex
NudgeNot(ch, j, ex) == ch
Nudge(ch, j, ex) ==
    IF Hit(ch, j, ex) THEN [ch EXCEPT ![j] = @ + 1, ![j + 1] = @ - 1] ELSE ch

-----------------------------------------------------------------------------
(* A header: the card of the caller, DATASUM and CHECKSUM.                  *)

Placeholder == <<Offset, Offset, Offset, Offset>>

\* The decimal text of DATASUM, left justified in a quoted string.
Blank == 32
Digits(n) ==
    IF n < 10 THEN <<Offset + n, Blank, Blank>>
    ELSE IF n < 100 THEN <<Offset + (n \div 10), Offset + (n % 10), Blank>>
    ELSE <<Offset + (n \div 100), Offset + ((n \div 10) % 10), Offset + (n % 10)>>

HeaderWords(h) == <<h.card>> \o Digits(h.datasum) \o h.checksum
HeaderSum(h) == SumWords(0, HeaderWords(h))
DataSum(u) == SumWords(0, u.data)
HduSumFromDataSum(u, sum) == CombineSums(HeaderSum(u.mem), sum)

\* What verify reports of HDU u; the trusting mutant takes the data sum from the
\* DATASUM card.
VerifyTrusting(u) ==
    [data |-> u.mem.datasum = DataSum(u),
     sum  |-> HduSumFromDataSum(u, u.mem.datasum) = Ones]
Verify(u) ==
    [data |-> u.mem.datasum = DataSum(u),
     sum  |-> HduSumFromDataSum(u, DataSum(u)) = Ones]

-----------------------------------------------------------------------------
NoJob == [pc |-> "idle"]

Init ==
    /\ hdus \in InitHdus
    /\ job = NoJob /\ fresh = {} /\ edits = 0 /\ faults = 0

\* A write to a data unit, which does not look at the checksum cards.
WriteData(i, k, v) ==
    /\ job = NoJob /\ edits < MaxEdits
    /\ v # hdus[i].data[k]
    /\ hdus' = [hdus EXCEPT ![i].data[k] = v]
    /\ fresh' = fresh \ {i}
    /\ edits' = edits + 1
    /\ UNCHANGED <<job, faults>>

\* A header edit, in memory and on the device (Fits.replaceHeaderInPlace).
WriteCard(i, v) ==
    /\ job = NoJob /\ edits < MaxEdits
    /\ hdus' = [hdus EXCEPT ![i].mem.card = v, ![i].disk = [hdus[i].mem EXCEPT !.card = v]]
    /\ fresh' = fresh \ {i}
    /\ edits' = edits + 1
    /\ UNCHANGED <<job, faults>>

Flush ==
    /\ job = NoJob
    /\ job' = [pc |-> "next", i |-> 1]
    /\ UNCHANGED <<hdus, fresh, edits, faults>>

\* updateAll: an HDU without the two cards is skipped.
FlushSkips ==
    /\ job.pc = "next" /\ job.i <= Len(hdus) /\ ~hdus[job.i].has
    /\ job' = [job EXCEPT !.i = @ + 1]
    /\ UNCHANGED <<hdus, fresh, edits, faults>>

FlushEnds ==
    /\ job.pc = "next" /\ job.i > Len(hdus)
    /\ job' = NoJob
    /\ UNCHANGED <<hdus, fresh, edits, faults>>

\* update, steps 1 to 3: the data sum, DATASUM, the placeholder, the byte to
\* encode.  The late mutant sums the header before DATASUM is in it.
StampedLate(u) ==
    LET reset == [u EXCEPT !.mem.checksum = Placeholder]
    IN  [hdu  |-> [reset EXCEPT !.mem.datasum = DataSum(u)],
         byte |-> Ones - HduSumFromDataSum(reset, DataSum(u))]
Stamped(u) ==
    LET stamped == [u EXCEPT !.mem.datasum = DataSum(u),
                             !.mem.checksum = Placeholder]
    IN  [hdu |-> stamped, byte |-> Ones - HduSumFromDataSum(stamped, DataSum(u))]

UpdateSums ==
    /\ job.pc = "next" /\ job.i <= Len(hdus) /\ hdus[job.i].has
    /\ \E s \in {Stamped(hdus[job.i])} :
           /\ hdus' = [hdus EXCEPT ![job.i] = s.hdu]
           /\ job' = [pc |-> "encode", i |-> job.i, byte |-> s.byte,
                      ch |-> Spread(s.byte), ex |-> 1, check |-> FALSE]
    /\ UNCHANGED <<fresh, edits, faults>>

\* One turn of `for (exclude)`.
EncodeStep ==
    /\ job.pc = "encode" /\ job.ex <= Len(Exclude)
    /\ LET ex == Exclude[job.ex]
           one == Nudge(job.ch, 1, ex)
       IN  job' = [job EXCEPT !.ch = Nudge(one, 3, ex), !.ex = @ + 1,
                              !.check = @ \/ Hit(job.ch, 1, ex) \/ Hit(one, 3, ex)]
    /\ UNCHANGED <<hdus, fresh, edits, faults>>

\* One more turn of `while (check)`.
EncodeAgain ==
    /\ job.pc = "encode" /\ job.ex > Len(Exclude) /\ job.check
    /\ job' = [job EXCEPT !.ex = 1, !.check = FALSE]
    /\ UNCHANGED <<hdus, fresh, edits, faults>>

EncodeEnds ==
    /\ job.pc = "encode" /\ job.ex > Len(Exclude) /\ ~job.check
    /\ hdus' = [hdus EXCEPT ![job.i].mem.checksum = job.ch]
    /\ job' = [job EXCEPT !.pc = "write"]
    /\ UNCHANGED <<fresh, edits, faults>>

UpdateWrites ==
    /\ job.pc = "write"
    /\ hdus' = [hdus EXCEPT ![job.i].disk = hdus[job.i].mem]
    /\ fresh' = fresh \cup {job.i}
    /\ job' = [pc |-> "next", i |-> job.i + 1]
    /\ UNCHANGED <<edits, faults>>

-----------------------------------------------------------------------------
(* Failures.  A flush that fails stops there; the memory keeps what update  *)
(* has put in it.                                                           *)

FlushFails(us) ==
    /\ faults < MaxFaults /\ faults' = faults + 1
    /\ hdus' = us
    /\ job' = NoJob
    /\ fresh' = fresh \ {job.i}
    /\ UNCHANGED edits

\* The data unit cannot be read.
DataFails ==
    /\ job.pc = "next" /\ job.i <= Len(hdus) /\ hdus[job.i].has
    /\ FlushFails(hdus)

\* The header is not written, or only its first cards are.
WriteFails ==
    /\ job.pc = "write"
    /\ LET m == hdus[job.i].mem
           d == hdus[job.i].disk
       IN  \E got \in {d, [d EXCEPT !.card = m.card],
                       [d EXCEPT !.card = m.card, !.datasum = m.datasum]} :
              FlushFails([hdus EXCEPT ![job.i].disk = got])

-----------------------------------------------------------------------------
FlushStep == \/ FlushSkips \/ FlushEnds \/ UpdateSums
             \/ EncodeStep \/ EncodeAgain \/ EncodeEnds \/ UpdateWrites

Edit ==
    \E i \in 1 .. Len(hdus), v \in Value :
        \/ WriteCard(i, v)
        \/ \E k \in 1 .. Len(hdus[i].data) : WriteData(i, k, v)

Next == Edit \/ Flush \/ FlushStep \/ DataFails \/ WriteFails

Spec == Init /\ [][Next]_vars /\ WF_vars(FlushStep)

-----------------------------------------------------------------------------
(* Properties.                                                              *)

\* The one's complement sum as FITS defines it, of the words on the device.
Reference(words) ==
    LET sum[k \in 0 .. Len(words)] == IF k = 0 THEN 0 ELSE sum[k - 1] + words[k]
        n == sum[Len(words)]
    IN  IF n = 0 THEN 0 ELSE 1 + ((n - 1) % Ones)
OnDevice(u) == HeaderWords(u.disk) \o u.data

TypeOK ==
    /\ \A i \in 1 .. Len(hdus) :
          /\ hdus[i].mem.datasum \in Word /\ hdus[i].disk.datasum \in Word
          /\ \A k \in 1 .. 4 : hdus[i].mem.checksum[k] \in Word
    /\ job.pc \in {"idle", "next", "encode", "write"}
    /\ job.pc \in {"encode", "write"} => \A k \in 1 .. 4 : job.ch[k] \in Word
    /\ edits \in 0 .. MaxEdits /\ faults \in 0 .. MaxFaults
    /\ fresh \subseteq 1 .. Len(hdus)

\* update has HDU i half stamped: nobody else can look at it, and the device
\* still holds the header of the flush before.
Stamping(i) == job.pc \in {"encode", "write"} /\ job.i = i

\* What a flush leaves on the device verifies, for a reader who knows only the
\* FITS definition of the sum and for `verify`: DATASUM is the sum of the data,
\* CHECKSUM is made of letters and digits, and the whole HDU sums to ones; whatever
\* failed flushes and edits came before (checksum.zig:108-159, 253-307).
Alphanumeric == (48 .. 57) \cup (65 .. 90) \cup (97 .. 122)
FlushedSums ==
    \A i \in fresh :
        LET u == hdus[i]
        IN  /\ u.disk.datasum = Reference(u.data)
            /\ \A k \in 1 .. 4 : u.disk.checksum[k] \in Alphanumeric
            /\ Reference(OnDevice(u)) = Ones
            /\ ~Stamping(i) => Verify(u) = [data |-> TRUE, sum |-> TRUE]

\* Verify finds a change of one word of the data, both in DATASUM and in
\* CHECKSUM, unless the words are the two zeros of one's complement
\* (checksum.zig:316-344).
ChangeIsFound ==
    \A i \in fresh : \A k \in 1 .. Len(hdus[i].data), v \in Value :
        LET u == [hdus[i] EXCEPT !.data[k] = v]
        IN  ~Stamping(i) /\ (v - hdus[i].data[k]) % Ones # 0
               => Verify(u) = [data |-> FALSE, sum |-> FALSE]

\* Every flush returns: the fix-up of every byte comes to an end.
FlushReturns == [](job.pc # "idle" => <>(job.pc = "idle"))
=============================================================================
