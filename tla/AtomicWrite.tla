----------------------------- MODULE AtomicWrite -----------------------------
(***************************************************************************)
(* How writeto of the Python binding publishes a file (core.py:              *)
(* _atomic_write, called by HDUList.writeto): the bytes go into a temporary   *)
(* file of the destination's directory, which then replaces the destination   *)
(* (overwrite=True) or is linked to it; other processes create and remove     *)
(* the destination meanwhile, every call of the operating system may fail,    *)
(* and the process may die between any two.                                   *)
(*                                                                           *)
(* The content of a file is opaque here; what the filler puts into the        *)
(* temporary file is the business of the module that extends this one.        *)
(***************************************************************************)
EXTENDS Naturals

CONSTANTS
    Absent,         \* no such file
    Partial,        \* a file that has been written in part, or just created
    Others,         \* contents other processes give the destination
    MaxOthers,      \* bound: what other processes do to it
    MaxFaults       \* bound: calls that fail

ASSUME AtomicWriteAssumption ==
    /\ Partial \notin {Absent} \cup Others
    /\ MaxOthers \in Nat /\ MaxFaults \in Nat

VARIABLES
    dest,           \* the file at the destination
    temp,           \* the temporary file
    writer,         \* the writeto under way, or how the last one ended
    others, faults

atomicVars == <<dest, temp, writer, others, faults>>

Writer(pc, over) == [pc |-> pc, over |-> over]
Resting == {"idle", "written", "raised", "dead"}

AtomicInit ==
    /\ dest \in {Absent} \cup Others /\ temp = Absent
    /\ writer = Writer("idle", FALSE)
    /\ others = 0 /\ faults = 0

To(pc) == writer' = [writer EXCEPT !.pc = pc]
Failing == faults < MaxFaults /\ faults' = faults + 1

\* writeto: a destination that exists is refused unless it may be overwritten; then the
\* temporary file is created (O_EXCL, a name of its own).
Begin(over) ==
    /\ writer.pc \in Resting \ {"dead"}
    /\ IF dest # Absent /\ ~over
       THEN writer' = Writer("raised", over) /\ UNCHANGED temp
       ELSE writer' = Writer("filling", over) /\ temp' = Partial
    /\ UNCHANGED <<dest, others, faults>>

\* `write` returns with the whole content in the file, or raises and leaves part of it.
Filled(content) ==
    /\ writer.pc = "filling"
    /\ temp' = content
    /\ To("publishing")
    /\ UNCHANGED <<dest, others, faults>>
FillRaises ==
    /\ writer.pc = "filling"
    /\ To("failing")
    /\ UNCHANGED <<dest, temp, others>>
FillFails == FillRaises /\ Failing

\* os.replace, or os.link, which fails where a destination has appeared (mutant: the
\* temporary file is renamed in either case).
PublishesAlways == TRUE
Publishes == writer.over \/ dest = Absent
Publish ==
    /\ writer.pc = "publishing"
    /\ Publishes
    /\ dest' = temp
    /\ temp' = IF writer.over THEN Absent ELSE temp
    /\ To("published")
    /\ UNCHANGED <<others, faults>>
PublishRefused ==
    /\ writer.pc = "publishing"
    /\ ~Publishes
    /\ To("failing")
    /\ UNCHANGED <<dest, temp, others, faults>>
PublishFails ==
    /\ writer.pc = "publishing"
    /\ Failing
    /\ To("failing")
    /\ UNCHANGED <<dest, temp, others>>

\* finally: os.unlink, which an os.replace has left nothing to do.
Unlink ==
    /\ writer.pc \in {"published", "failing"}
    /\ temp' = Absent
    /\ To(IF writer.pc = "published" THEN "written" ELSE "raised")
    /\ UNCHANGED <<dest, others, faults>>

\* The process dies.
Crash ==
    /\ writer.pc \notin Resting
    /\ Failing
    /\ To("dead")
    /\ UNCHANGED <<dest, temp, others>>

OtherTouches ==
    /\ others < MaxOthers /\ others' = others + 1
    /\ dest' \in (Others \cup {Absent}) \ {dest}
    /\ UNCHANGED <<temp, writer, faults>>

\* Whatever fails, whoever else uses the destination and wherever the process dies: the
\* destination never holds part of a file; without overwrite=True a file that is there is
\* never replaced, not even one that appeared after writeto had looked; and nothing is
\* left of the temporary file unless the process died.
DestinationWhole ==
    [][/\ dest' # Partial
       /\ dest' # dest /\ others' = others => writer.over \/ dest = Absent
       /\ writer'.pc \in {"written", "raised"} => temp' = Absent]_atomicVars
=============================================================================
