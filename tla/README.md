# A verification development of zigfitsio

zigfitsio reads, writes and edits FITS files in place: a Zig library with a C
interface, and Python and TypeScript bindings over it. These modules model the parts
of it that keep state and change files, TLC checks them on small instances, and TLAPS
proves theorems about them for every value of their constants.

## The system

| part | state | operations | made hard by |
|---|---|---|---|
| device (`io/device.zig`, `memory.zig`, `file.zig`) | bytes, size | readAll, writeAll, setSize | any call may fail, a write after storing a part of its bytes |
| block reader (`io/block.zig`) | one cached window | cardAt, bytes | the window outlives the bytes it was read from |
| tail shift (`fits.zig` 480-531) | - | grow or shrink the device, moving what follows | chunks that overlap, a failure between two chunks |
| file handle (`fits.zig`, `hdu.zig`) | list of HDUs and their offsets, current HDU, scan position, window | open, create, select, appendHdu, copyHdu, deleteHdu, replaceHeaderInPlace, replaceStructuralHeaderInPlace, resizeHduData, flush | lazy scan; three views of one file; rollbacks |
| checksums (`checksum.zig`) | DATASUM and CHECKSUM cards | update, updateAll (on flush), verify | carries, the fix-up of the encoding, memory changed before the device |
| heap (`table/heap.zig`) | free list, bump pointer; the descriptors and the heap on the device | initForTable, alloc, free, writeVlaCell, writeVlaColumn, compact | shared and overlapping extents, release before allocation, moves that overlap |
| binary and ASCII tables (`table/`) | rows, columns, their header | insert and delete rows and columns, read and write cells | edits of several device calls without a rollback |
| header and header edits (`header/`) | the cards | batches of edits on a staged clone | reserved blanks, runs of cards |
| images, iterator, random groups, WCS | - | read, write, convert | windows, numbers |
| tile compression and codecs (`compress/`) | a table of compressed tiles | writeCompressed, read tiles, encode, decode | lossless codecs, fallbacks, order of heap and descriptor writes |
| grouping tables (`group_table.zig`) | members, GRPID links | addMember, removeMember, resolve | HDU positions that change |
| HTTP device, streams (`io/http.zig`, `io/stream.zig`) | known size, cache | range reads, fallback | a resource that changes |
| C interface (`bindings/capi`) | handles; a table handle keeps its heap manager | the above | state kept between calls |
| Python `HDUList` (`core.py`) | the list, per HDU: header snapshot and revision, data and fingerprint, index | list operations, header edits, flush, close, writeto | everything the program holds refers to slots that move; a flush may stop anywhere |
| Python header (`header.py`, `core.py`) | the cards it shows, the revision it expects, staged edits | edits of values and of commentary, edit(), snapshot, rebuild | somebody else edits the same header; memory and file change one after the other |
| Python tables and saving (`core.py`, `_dtypes.py`) | the record array, a fingerprint per column; a temporary file | read, edit in place, replace, flush, writeto | what changed is found by fingerprints; formats and column numbers of a rebuilt table; other processes at the destination |
| Wiki tools (`tools/wiki`, `.github/workflows/publish-wiki.yml`) | the manifest and pages of the Wiki; runs, tags and releases on GitHub | gate, generate, install, push | events in any order, reruns, people who edit the Wiki |
| TypeScript binding | the same | the same | `hdulist.ts` is a port of the Python flush |

The layers call down: bindings - C interface - tables, images, compression, groups -
file handle - tail shift and block reader - device. In the library nothing runs
concurrently: a handle is used by one thread and a call returns before the next one
begins. What is hard is that one call is many device calls, that any of them may fail,
and that the state kept in memory, on every layer, has to agree with the file afterwards.
The bindings add views of one file that do not know of each other, and processes that
share a directory. The Wiki tools are a distributed program: workflows that finish in any
order, a job that reads GitHub's state piece by piece, and a repository people write to.

Where each part is exposed is listed under `hazards` in `PROJECT.json`, with the
properties that would catch it.

## The modules

    Device          the device: a size and cells           (io/device.zig, memory.zig)
      TailShift     shiftTailImpl, chunk by chunk           (fits.zig 480-531)
        TailShiftProofs   theorems about it
        FitsHandle  the handle, its calls, its rollbacks    (fits.zig, hdu.zig, block.zig)
          FitsFile  the abstract file FitsHandle implements
          FitsHandleProofs  theorems about the handle
    Checksum        sums, encoding, update, flush, verify   (checksum.zig)
    Heap            free list, cell writes, compaction      (table/heap.zig)
      HeapProofs    theorems about it
    BinTable        rows, columns and heap of a table, iterator (table/binary.zig, iterator.zig)
      BinTableProofs theorems about it
    HDUList         the Python list over one handle         (core.py)
      HDUListProofs theorems about it
    PyHeader        the Python header, over others' edits    (header.py, core.py, edit.zig)
    AtomicWrite     publication of a saved file             (core.py, _atomic_write)
    ColumnFormat    from fields to formats and back         (core.py, _dtypes.py)
    TableMetadata   keywords that name columns by number     (core.py, _table_metadata_ops)
      PyTable       tables, flush and writeto over the three (core.py, _TableHDU)
        PyTableProofs   theorems about it and AtomicWrite
    AbiCheck        C header against declared prototypes    (tools/wiki/generate.py)
      WikiBundle    generating and installing a bundle      (generate.py, publish_bundle.py)
        WikiPublish gate, job, queue, push                  (release_gate.py, publish-wiki.yml)
          WikiPublishProofs theorems about it
    SequenceFacts   lemmas on sequences that four of the proof modules share
    MC...           their instances for TLC

**Device.** Functions over `[size, at]`. A cell stands for bytes the code never splits:
a card, or one unit of data. A write past the end grows the device with zeros in between.

**TailShift.** `pc` is where the code is: resize, copy loop, zero fill, truncation.
Each turn of the copy loop is one action that copies `Chunk` cells or fewer; a failure
stores a part of the chunk and ends the shift. Growing goes from the back. The comment
at `fits.zig:489` says that until the move completes every tail byte is at its old offset
and restoring the size undoes it; that is so, and stated (`ShortTailRollback`), for a tail
no longer than the gap. A longer one is written over itself.

**FitsHandle.** A public call is a `job`. It first scans the HDUs it needs, one per step;
then the plan operator of the call (`PlanAppend`, `PlanCopy`, `PlanDelete`, `PlanHeader`,
`PlanStructure`, `PlanRows`) makes the checks of the code, in its order, and the sequence
of device calls and memory updates it is about to carry out, each of which is then one
step. Loops that copy or fill between regions that do not overlap are one write; shifts
are steps of TailShift. When a step fails the armed `errdefer` runs, and ignores its own
failures as the code's `catch {}` do. Headers are names of a table (`Hdr`) that gives
their cards, data size and kind, so that every change of geometry is a change of name;
`Malformed` ones fail to parse. PCOUNT is zero in `PlanRows`. After a call that failed
and left the file changed (`damaged`) no further edit is modelled: what the code then
does with a half-written file is not promised anywhere.

**FitsFile.** What a user of the handle sees: a sequence of HDUs, the cells after it and
the current HDU. An edit changes exactly one HDU, in one step, or the file is
broken and nothing more is promised. `FitsHandle` implements it under the mapping
`File`, which reads the HDUs off the device, not off the list.

**Checksum.** A word is one byte instead of four and the sixteen encoded digits are
four: the ones-complement addition with its carries, the excluded punctuation, the
fix-up loop that moves pairs of digits apart and the order DATASUM, placeholder, sum,
CHECKSUM are those of the code. The rotation of the digits by one place, which depends
only on the alignment of the value in its card, is left out. Memory and device are kept
apart: `update` changes cards in memory before it writes them.

**Heap.** Elements are one byte. The heap is a function from offsets to the payload
bytes, a descriptor is `[len, off]`; the manager is the free list with the bump pointer
and the capacity. A cell or column write is: the plan, the release of old extents (with
coalescing, one merge per step), the trial allocations on a copy, the drain to the real
manager, and the writes of payloads and descriptors, each of which may fail. Compaction
moves one byte per step in the direction `moveBytes` picks. `stale` and `should` are
histories: cells whose descriptor a failed call has left to bytes it does not own, and
what each cell should read as.

**BinTable.** The data unit is a device of its own, the header a sequence of numbered
column cards (a card stands for all the keywords of a column) with TFIELDS, NAXIS1, NAXIS2
and THEAP; it exists in memory, on the device, and as the parsed view of the open table. An
edit is planned from the view, as in the code: resize, moves, zero fill or restriding, then
the cards in memory, the header on the device and the parse. Each chunk, each row and each
update is one step and may fail; nothing is undone. The iterator is a call of the same
kind: per window a read, the caller's function, and the writes, as whole rows or field by
field, while another handle may write a field. After an edit that failed halfway
(`damaged`) no further call is modelled: the code goes on with a view, a header in memory
and a header on the device that differ, and promises nothing.

**HDUList.** The file is a sequence of slots that record whose header and data they
hold and which objects' edits have reached them; an object has its index, its header
snapshot with revision and hooks, its data and the baseline that fingerprints compare it
with. Every call of the library that flush makes is one step and may fail: before it has
an effect, for the deletion also after it, for a data write in the middle and for the final
sync after any number of slots. The geometry of data never changes (the code refuses
it). `want` is the history of what the program asked for.

**PyHeader.** The file is a sequence of cards with a revision; the header shows a copy and
remembers the revision. A batch goes to the library, which refuses it whole, on a staged
clone, for a revision that has passed, a structural keyword or a failing write. A snapshot
is two steps, asking for the size and reading, between which the header may change.
Others edit the same header, and a flush with `checksum_on_close` writes sums under it.
Outside `edit()` a long commentary is one batch per card; replacing commentary changes
memory first and then rewrites the file's cards. `ahead`, `strange` and `blind` are
histories of the three ways memory and file may differ by design: a rewrite the file
refused, somebody else's keyword, and an edit made without a revision after such a flush.

**AtomicWrite.** One writer with its temporary file, and other processes that create and
remove the destination. Each system call of `_atomic_write` is a step that may fail, and the
process may die between any two. The content is opaque: what fills the file is the
business of the module that extends this one.

**ColumnFormat** and **TableMetadata** are pure. The first gives the field a column is read
as and the format a field is saved in, reused or made anew (`ExactKinds`: the kinds of
columns for which the two agree, for all formats and fields of the bounds). The second gives, for a set of cards that name columns by
number and a map of old columns to new, the cards that remain and their numbers, with the
incomplete versions of world coordinates dropped (`FollowedMaps`: the changes of the
columns after which every header still says what it said). PyTable asks for both of every
table it saves.

**PyTable.** A column is one value; an array may have the file's columns in another order,
with another element type, other rows or other columns. A flush takes one column per
step: skip, refuse or write, and after a write its fingerprint; a failing write leaves the
column `Torn`. `writeto` copies the bytes of the file if the program sees them unchanged,
and rebuilds the table otherwise, through AtomicWrite.

**AbiCheck.** The types of the C header and of the hand-written Python and TypeScript
prototypes are mapped to shapes, as the generator does, and the lists of shapes are
compared; against it stands a table of what each type means to the machine, and of the C
type behind each name that `lowlevel.py` and the neutral types of `ffi/types.ts` use.

**WikiBundle** and **WikiPublish.** A page is who wrote it and for which release; a bundle
is pages and a manifest. Installing one makes the checks of `publish_bundle.py` in its
order, on a checkout. The job is a state machine with a step for each thing it reads:
runs, tag, release, the gate again before the push, the push, one rebase and a second
push. One job runs and one event waits; a newer event displaces it. Runs have attempts;
tags move, releases are withdrawn, operators dispatch and force, people edit pages and the
manifest (they list a page with the digest it has, strike one out, state another version, or
enter the digest of a page in the commit that changes it), pushes break after or before they took effect, jobs die: each takes one of
`MaxDisturb` disturbances. `seen` is the history of what has held of the release at some
moment since the job cloned the Wiki.

## What is checked

| run | checks | result |
|---|---|---|
| `tail_shift` | a completed shift moves the tail by exactly delta, keeps the rest, sizes the device and zeroes the gap; no step touches what is before; a grow whose tail is no longer than the gap can be undone by restoring the size | holds |
| `handle` | list and offsets match the bytes; padding; the window is fresh where it will be read; earlier HDUs are never touched; append and copy are atomic; replacements roll back | holds |
| `handle_file` | the handle implements `FitsFile` | holds |
| `checksum` | after a flush the sums verify and are printable; a change of any one cell is found; flush returns | holds |
| `heap` | no extent is given out twice; free extents are coalesced; no call changes a cell it is not about | holds |
| `table` | once an edit has written the header the device holds exactly the edited table; a failed edit leaves what is before it; the iterator keeps what another handle wrote | holds |
| `hdulist` | a flush puts into each slot what the program gave the HDU; wherever it stops no listed HDU is missing; a failed append phase is undone; no edit is refused as a false conflict; writeto writes what the program sees | holds |
| `hdulist_retry` | the same "never missing" once a flush has failed while deleting and is called again | violated |
| `hdulist_reuse` | an edit of an HDU's header never lands in another HDU | violated |
| `py_header` | the file has each keyword as the program sees it; no edit made against a revision removes text the program never saw; a saved file has what it sees, copied or rebuilt | holds |
| `py_table` | a flush writes every column by its name, and one that raises changes nothing else; baselines are what is on disk; a saved file has the columns, rows and values the program sees; a format holds what its field holds; column keywords follow their columns; the destination never holds part of a file and is never replaced unasked | holds |
| `wiki` | what is published had passed the gate; the Wiki never goes back; people's text survives; no push leaves a generated page unowned; a drift of the Python or TypeScript prototypes is found; a release that settles reaches the Wiki | holds |

`TypeOK` is part of a run for `tail_shift` only; of the other modules with theorems it is
a part of the inductive invariant, and proved.

Each property of a run that holds is also checked to be able to fail: `mutants` names,
for each, a change of a definition, of the kind a slip in the code would be, under which
TLC finds it violated.

### What the violations show

- A `flush` that fails in its delete phase leaves old indices behind; the flush of `close`
  then copies by them and loses an HDU of the list (`core.py:1836`).
- An HDU removed from the list keeps an index that names another HDU after the flush, and
  an edit of its header goes there (`core.py:1839`).

### Where the properties make exceptions

Reading the code for the models showed places where it promises less than one might
expect. The properties state them as exceptions; no run counts them as violations.

- `deleteHdu` (`fits.zig:869`) does not compare the end of the HDU with the device; on a
  file cut off before the end of its last HDU, the resize takes bytes of the HDU before.
  A change of rows has the same shift. The `handle` runs start from complete files;
  the theorem about it, which is about all files, says so (`EditedIsWhole`).
- `checksum.update` leaves the new cards in memory when the write fails, and `verify`
  sums the memory. `FlushedSums` and `ChangeIsFound` speak of flushes that wrote.
- `writeVlaCell` releases the old extent before it asks for the new one (`heap.zig:562`);
  after `HeapOverflow` the descriptor refers to free space, which the next write may take.
  `Accounting` and `CellsKept` leave such cells (`stale`) out.
- A rewrite of commentary that the file refuses leaves memory ahead of it (`ahead`).
- After a checksum flush a header expects no revision; its next edit adopts the new one
  without reading, so that a later rewrite of commentary may remove text it never showed
  (`blind`). `TextKept` excepts these keywords.
- Of a valued keyword with several cards a rebuilt header keeps the last value, while
  the program sees the first; upserts use up cards that are blank.
- A fingerprint is of bytes: a field retyped to another element type with the same bytes
  is passed over by a flush (`retyped`), and so is a torn column whose array has gone back
  to its baseline.
- Values assigned as `u1` to a logical or bit column keep its letter: only their truth
  survives, and that is what `ColumnRoundTrip` asks. A WCSX card may name a version
  that is dropped because of a further one (its dropping is one pass).

### The bounds, and why they are enough

- Shifts: the distances and tails are chosen so that a tail takes one to three chunks and
  is shorter than, as long as and longer than the gap; the proofs remove the bound.
- Handle: a block of two cells, a chunk of three (not a multiple of it, as in the code), a
  window of three blocks; headers of one and two blocks, data of one and two; files that
  are empty, have three HDUs, an ASCII table with special records, and a malformed
  extension. Two edits (`MaxEdits`) let one call meet what another left behind; the
  refinement run has one, each being a step of its own. One failure (`MaxFaults`) strikes
  anywhere, in rollbacks too. `MaxHduCount` is a limit of the code.
- Checksum: every value a cell of two HDUs can be given, one edit, one failure.
- Heap: four bytes and three cells are the smallest with a hole between two extents, a
  shared and an overlapping pair; four calls, one failure.
- Tables: fields of one and two cells, two or three rows, moves in chunks of two cells that
  do and do not overlap, a heap of three, with and without a THEAP card, with and without
  descriptors. Two calls, so that an edit meets what another left; windows of two rows in a
  table of three, so that the last one is short.
- HDUList: three HDUs and one that the program makes: a prefix, a displaced compressed
  image, a displaced image, an insertion. Four calls reach read, edit, reorder, flush; two
  failures, so that a rollback can fail too. `hdulist` has the program stop using removed
  HDUs (`Reuse`) and stop after a flush that failed while deleting (`Retry`): the two other
  runs show what happens otherwise.
- Python header: a structural keyword, one that is there twice, a blank card and a comment;
  two edits, two edits of others, one failure; texts of one and two cards. A snapshot has
  two attempts (`Attempts`; the code has three).
- Python table: two columns, of which one may be variable-length or scaled, two values,
  in either order, with other values, types, rows or columns, a third column too; five calls
  reach edit, failing flush, revert, flush and save; two failures, so that a save may fail
  after a flush did. Formats are compared for counts of 0, 1 and 3 and widths of 0, 1 and 5,
  indexed cards for every header of up to three cards over two columns and two alternates,
  in tables that have up to three columns afterwards (`MaxColumns`). The theorems have no
  such bounds; `EveryHeaderFollows` is about headers of any number of cards.
- Wiki: two releases, six commits (the last two with a drift of one binding each), three pages, two polls, one disturbance: the hazards
  are about one thing that goes wrong while two releases are on their way.

A crash is a behaviour that stops. Invariants that hold in every state, between the steps
of a call as well (`PrefixUntouched`, `PriorHdusUntouched`, `NeverMissing`, `CellsKept`, `DestinationWhole`),
say what is on the device then. In AtomicWrite and WikiPublish a death is a step, since
others go on after it.

### Fairness

The code is synchronous: a call that has begun is carried on by the thread that made it
until it returns. So the steps of a call under way are weakly fair, and the calls
themselves, and failures, are not: a program need not call again. `FlushReturns` is about
a loop that could go on for ever, the fix-up of the encoded sum.

In WikiPublish GitHub runs what it has started: while the job or a workflow run can go on,
one of them does (one weak fairness for all of them; which one goes first is left open).
Pushing a tag, people, operators and failures are not fair. Under that a release whose runs
have succeeded for good, and which is tagged and public for good, comes to have its pages on
the Wiki, or a newer one does, unless from some moment on it stays given up: its last event
was displaced, or its job failed, and no later event takes it up (`ReleaseReachesWiki`). A
displaced event is thus excepted, and left to an operator, as in the code.

## What is proved

Every theorem is about the specification its runs check (`Spec` of the module), for all
values of the constants that satisfy the module's named `ASSUME`s. None bounds a number of
calls, failures, disturbances or processes: the bounds are constants of which the
proofs know only that they are numbers.

**TailShiftProofs**, for every device, chunk size, distance, range and number of faults:
`ShiftTypeOK` (the type invariant and `LoopInv`), `ShiftCorrect` (`ShiftContract`),
`ShiftPrefix` (`PrefixUntouched`, failed steps included), `ShiftRollback`
(`ShortTailRollback`). The contract is not inductive: it says nothing before the last
step. `LoopInv` says, at each point of the loop, which cells have reached their new place,
which are still at the old one, and that the two sets are separated by the position of
the loop in the direction it moves; this is where the order of the chunks matters. Under it
are lemmas on what one copied chunk leaves where. Assumed: `Chunk` is a positive number,
`Zero` is a cell, the devices at the start are devices, distances are not zero.

**FitsHandleProofs**, for every file, every table of headers, every size of a block, a chunk
and the window, every limit on the HDUs and any number of calls and failures:
`HandleWindowFresh` (`WindowFresh`), `HandleAddingIsAtomic` (`AddingIsAtomic`),
`HandleReplaceRollsBack` (`ReplaceRollsBack`) and `HandlePriorHdus` (`PriorHdusUntouched`).
The first three hold of all files. The last holds
of calls on an HDU that the file has room for (`EditedIsWhole`; an HDU that is added has no
such condition): the scan registers an HDU whose data unit the file ends in (`fits.zig`
254-300), and the shrink by which `deleteHdu` and a change of rows end, `setSize(size - d)`
(529), then cuts the file before that HDU. With a file in
`InitDevices` whose second and last HDU is cut short, TLC finds that deleting it removes the
data of the first. Where `d` is more
than the whole file `TailShift` has no step, and a change of rows that asks for that is the
disjunct `Stuck` of `HandleInv`, in which nothing can happen any more (`StuckStays`).

None of the four is inductive: they speak of what a call leaves behind, and a call is a
list of steps made beforehand, with a second one to undo it. `HandleInv` speaks of both
lists. Every step in them leaves the cells before `Limit` alone (`Jobs`, `Steps`); every
shift to come starts inside the file as the steps before it leave it, and behind the place
where an earlier one has put its cells, so that its reverse can put them back (`Reach`); the
list in memory changes with the last step of a call only, but for a change of rows, so that
a call that fails still has the one it found (`TodoOK`, `Lists`); the rollback of an append
or copy is one `setSize` to the size it found (`AddingOK`), and that of a structural replacement ends by dropping the
window (`WindowOK`). The proof has one part per kind of step, whatever call it is from,
and one per plan, which shows that the steps laid out meet those conditions.

For `ReplaceRollsBack` the invariant gains `ReplaceOK`, which says where the old bytes are
between the steps of a header replacement, of the header alone or with its data unit. Each
cell of the file found lies where the shifts made so far have put it (`Lying`, by the
distances that the header and the data unit grow), and these are the shifts whose reverses
the rollback still holds: none, the first, or both (`Doing`, `Undoing`). The steps between
them write only where no kept cell is: to the new header, which the rollback writes again
from the copy it took, and to the part of the new data unit that is not kept (`MildSteps`,
`ApartFromWrites`). A shift that fails, or a failed step of a rollback, sets `torn`, the
case the property leaves out. No file is excluded: a call refuses a file too short for the
header it replaces, or for the data unit, before its first step (`Room`).

What a shift does between its first and its last step is not proved again: `LoopInv` of
TailShiftProofs and the lemma that every step keeps it (`InvNext`) are used through `SP`,
for the shift the handle instantiates.

Assumed: sizes and limits are positive numbers, a header has a card and its cards are cells,
the files are devices.

**HeapProofs**, for every finite set of rows and every capacity: `HeapTypes` (`TypeOK`),
`HeapAccounting`, `HeapCoalesced`, `HeapCellsKept`. `Accounting` is not inductive, because
between two steps of a write a byte may belong to neither a cell nor the list: it is in
the job's hand. `HeapInv` says who owns each byte. A held cell, the free list and the
top are apart (`HeldApart`, `Separate`); so is the extent that a write is merging or has
allocated (`HandApart`); the cells a write has released and not yet written are counted
apart (`Released`, `Awaiting`), and all others read what they should (`Kept`). Of a
compaction `Packs` says which byte of which group is already at its destination, and that
destinations lie one behind the other up to `bump` (that a move spares the groups still to
be moved is the code's own check); `Points` says which descriptors already name them. `Trusted` is the exception of the list above: after a failed call has
left all cells behind (`stale`), nothing is claimed of the list. `HeapInv` is proved one
action at a time; actions that end a call share `IdleInv`. Assumed: capacity and lengths
are natural numbers, the first descriptors are pairs of integers, any of them, negative
and overlapping ones too.

**HDUListProofs**, for every file, list, set of HDU objects and choice of the calls that
may fail: `ListNeverMissing`, `ListFlushPersists`, `ListAppendRollsBack`,
`ListNoFalseConflict`, `ListWritesWhatIsSeen`. Each has the hypothesis that the program
stops using an HDU it removed and stops after a flush that failed while deleting
(`~Reuse`, `~Retry`), as in the run `hdulist`: without it two of the properties are false,
as the other two runs show. `ListInv` follows the phases of a flush. Outside the delete phase
every usable HDU has a slot of its own with what the program gave it, but for what memory
still holds (`Memory`, `Homes`); while appending, the file before the flush is in front of
the copies made so far (`Rollback`, `Appended`); while deleting, each HDU of the list is
found by its distance from the front or from the end, not by its index (`Remaining`),
which is why a second flush over the old indices goes wrong; in the data phase list and file
have one layout and what lies before the position of the loop is written (`DataProgress`).

**BinTableProofs**, for every table, every width of a column, every chunk and window, any
sequence of edits and iterator runs and any failures: `TouchesOnlyItsPart` (`EditTouchesOnly`),
`IteratesOnlyBound` (`IteratesBound`) and `DescribedAlways` (`Described`). The second and third
say what the device holds when a list of moves, fills and restridings is through. `TableInv`
says it at every step: `Origin` gives for each cell of the table to be the cell of the old
table it comes from; each cell is in place or is yet to be written by a loop of the list
(`Landed`), and what a loop is yet to read has not been written over (`Unread`). That no loop
writes what it or a later one reads is `PlanOK`: it is shown once for each edit, and is where
the order of heap, rows and fields and the direction of a loop matter. That the table so
described is the one the header describes is a lemma for each edit: it takes the fields of a
row one after the other with their offsets, and follows the cards through their renumbering
one step at a time. Assumed: columns have natural widths, chunk and window are positive,
the tables at the start have columns, rows, and a heap of the size they say.

**PyTableProofs**, for every table, every set of arrays the program assigns, any number of
failures and of other processes at the destination: `TableBaselines` (`BaselineIsDisk`),
`TableFlush` (`FlushExact`), `TableSaved` (`SavedIsSeen`) and `TableDestination`
(`DestinationWhole`, about the AtomicWrite that PyTable extends). `TableInv` adds to the
first three what the attributes of a table say of each other (`Attributes`: a table that is
not dirty has the file's columns, rows and types), how far a flush has come
(`FlushProgress`: each column before its position holds what the program sees, or is torn;
no column holds anything but that or what it held when the flush began) and when the
temporary file may be partial or still there (`WriterInv`).
`TableColumnsRoundTrip` (`ColumnRoundTrip`) is about what a save writes, for all counts and
widths: the formats and the fields are taken by their forms, and for each pair
what the field is saved as is compared with what a reader makes of it. `TableKeywordsFollow`
(`MetadataFollows`) has two halves. `EveryHeaderFollows` is about `_table_metadata_ops` alone: for
headers of any number of cards and columns, versions of world coordinates stay apart and whole,
nothing refers to a dropped version, and another save changes nothing. The other half
shows that what a save rebuilds is a change of that kind: the table assigned is one of the
arrays (`ArrayListed`), and no two of its columns have one source (`SourcesAreChanges`).
Assumed: the columns of the file and of an array have different names, an array has no more
columns than `MaxColumns`, the contents of other processes' files are not a part of ours.

**WikiPublishProofs**, for every set of pages, versions, commits and workflows:
`WikiNeverDowngraded`, `WikiPublishedWasGated` and `WikiTextKept` (`PeoplesTextKept`), which
are about the pushes of jobs, as `WikiNoOrphans` is, and `WikiAbiDriftFound`
(`AbiDriftFound`). A push replaces the Wiki by a tree the job made earlier, from a Wiki it
cloned earlier, and people edit pages and manifest in between; so `PublishInv` says of the
tree that it keeps the text of its clone, adds no orphan to it and is no older (`Kept`,
`Forward`), and is the clone if its manifest is (`Clean`), relates the clone to the Wiki by
the count of edits since (`CloneInv`), says that a manifest states a positive version
(`Dated`), and which gates of the job's release have been seen open since the clone
(`SeenInv`). For `AbiDriftFound`, `WikiReleasesGenerate` says of every run that succeeded,
every job past its gate, and every generated page of clone, tree and Wiki (`GoodPages`) that
the generator accepts the release; and what the generator accepts calls as the
header declares, because equal shapes mean equal sizes and kinds, type by type. Assumed: versions are positive and workflows finitely many.

**SequenceFacts**: what `RemoveAt`, `InsertAt` and `Append` return, element by element; that a
function on an interval is a sequence; that a set of natural numbers has a least element
and a bounded one a greatest. The free list and the slots of a file change by
these operations only.

### Only model-checked

- Liveness under fairness (`FlushReturns`, `ReleaseReachesWiki`): outside the prover's reach.
- `FlushedSums` and `ChangeIsFound`: sums over a whole HDU, by a recursive operator, with carries
  whose invariant is an induction over the cells. `HeaderIsFile`, `SavedIsSeen` and `TextKept` of
  PyHeader: they compare subsequences of cards (`SelectSeq`), which is recursive too.
- `ListMatchesDisk`, `PaddingClean` and the refinement of `FitsFile`: they read the chain of
  HDUs off the device, and hold of files that are whole from their first header to their
  last data unit only; each call has to be followed to its end, with the content of what it moves.

Facts about recursive functions that the theorems do need (offsets of the fields of a row, a
renumbering after n cards) are proved by taking the least number at which they fail
(`LeastNatural`); this does not reach recursive operators.

## What is not modelled

The values in files (numbers, text, WCS, the codecs' arithmetic), parsing of file names,
templates and cards, the validator's report, argument marshalling of the C interface and
the bindings, TypeScript's `HDUList` (a port of the one modelled), the rendering of Wiki pages from Python
sources (text to text), the upload of the release archive. Of the Python tables: ASCII
columns' widths, sections of images, scaled and complex variable-length columns (refused
alike), fields that are arrays of strings, keywords that grow past eight characters when
renumbered, file systems without links. `PROJECT.json` lists
every part with its status and the reason.

## Plan

1. Proofs: `ListAppendRollsBack` without its hypothesis.
2. The parts of `ListMatchesDisk` that one call disturbs, from the contract of the shift.
3. Models still missing: the codecs against their decoders over bounded inputs, the tile
   grid and its order of writes, grouping tables over positions that move, the HTTP device.
