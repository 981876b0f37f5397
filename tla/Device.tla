------------------------------- MODULE Device -------------------------------
(***************************************************************************)
(* The random-access byte device every FITS handle edits: src/io/device.zig *)
(* (the vtable: readAll, writeAll, getSize, setSize) with the growth rule   *)
(* of src/io/memory.zig and of a POSIX file.                                *)
(*                                                                          *)
(* A device is a record [size, at]: `size` cells, at offsets 0..size-1.  A  *)
(* cell stands for a run of bytes that the code never splits.               *)
(***************************************************************************)
EXTENDS Integers

CONSTANTS
    Cell,       \* what a cell can hold
    Zero        \* the cell of NUL bytes a growing device is extended with

ASSUME ZeroAssumption == Zero \in Cell

IsDevice(d) ==
    /\ d = [size |-> d.size, at |-> d.at]
    /\ d.size \in Nat
    /\ d.at \in [0 .. d.size - 1 -> Cell]

Smaller(a, b) == IF a < b THEN a ELSE b
Larger(a, b)  == IF a < b THEN b ELSE a

\* setSize: truncate, or grow with zeros.
Resized(d, n) ==
    [size |-> n,
     at   |-> [i \in 0 .. n - 1 |-> IF i < d.size THEN d.at[i] ELSE Zero]]

\* writeAll of the cells c[0], ..., c[n-1] at off: a write past the end grows
\* the device, and a hole in between reads as zeros.
Written(d, off, n, c) ==
    IF n = 0 THEN d ELSE
    LET len == Larger(d.size, off + n)
    IN  [size |-> len,
         at   |-> [i \in 0 .. len - 1 |->
                     IF off <= i /\ i < off + n THEN c[i - off]
                     ELSE IF i < d.size THEN d.at[i] ELSE Zero]]

\* readAll of n cells at off; an error (EndOfStream) past the end.
Readable(d, off, n) == off + n <= d.size
Slice(d, off, n)    == [i \in 0 .. n - 1 |-> d.at[off + i]]

\* One turn of a copy loop: read n cells at src, write them at dst.
Copied(d, src, dst, n) == Written(d, dst, n, Slice(d, src, n))

\* A fill loop: n cells of value v at off.
Filled(d, off, n, v) == Written(d, off, n, [i \in 0 .. n - 1 |-> v])
=============================================================================
