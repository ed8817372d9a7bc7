---------------------------- MODULE AtomicRegister ----------------------------
(***************************************************************************)
(* What src/sandcastle/state.py promises about a file it keeps: whoever    *)
(* opens it finds a whole document, the old one or the new one, and so     *)
(* does whoever opens it after the host went down and came up again.       *)
(* AtomicFile.tla shows that temporary file, fsync and rename implement it.*)
(***************************************************************************)
CONSTANTS Path,    \* the files: specs, known hosts, `current`, GC roots
          Doc,     \* whole documents, and the targets of symlinks
          Absent   \* no such file

VARIABLES value,   \* what a reader of each file finds
          safe     \* what a reader would find after a crash of the host

vars == <<value, safe>>

TypeOK ==
  /\ value \in [Path -> Doc \cup {Absent}]
  /\ safe \in [Path -> Doc \cup {Absent}]

Init ==
  /\ value \in [Path -> Doc \cup {Absent}]
  /\ safe = value

\* A file is replaced, or made, in one step that no crash can tear.
Put(f, d) ==
  /\ value' = [value EXCEPT ![f] = d]
  /\ UNCHANGED safe

Drop(f) ==
  /\ value' = [value EXCEPT ![f] = Absent]
  /\ UNCHANGED safe

\* The directory reaches the disk, because it was asked to or by itself.
Settle ==
  /\ safe' = value
  /\ UNCHANGED value

\* The host goes down and comes up with what the disk has.
Crash ==
  /\ value' = safe
  /\ UNCHANGED safe

Next ==
  \/ \E f \in Path, d \in Doc : Put(f, d)
  \/ \E f \in Path : Drop(f)
  \/ Settle
  \/ Crash

Spec == Init /\ [][Next]_vars
=============================================================================
