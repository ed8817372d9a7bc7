------------------------------- MODULE Rebuild -------------------------------
(***************************************************************************)
(* lifecycle.rebuild with its rollback, and `sandcastle build --install`.  *)
(* Both load the spec and build before they take the sandbox's lock, and   *)
(* neither looks at the spec again after that.                             *)
(***************************************************************************)
EXTENDS HostState

\* Mutant: a spec that is not there is not noticed.
RebuildUnknown(p, n, restart, wait) ==
  /\ Begin(p, "build", [NoJob EXCEPT !.cmd = "rebuild", !.name = n, !.id = spec[n],
                                     !.restart = restart, !.wait = wait])
  /\ UNCHANGED <<spec, lastId, disk, host, lock>>

Rebuild(p, n, restart, wait) ==
  /\ Exists(n)
  /\ Begin(p, "build", [NoJob EXCEPT !.cmd = "rebuild", !.name = n, !.id = spec[n],
                                     !.restart = restart, !.wait = wait])
  /\ UNCHANGED <<spec, lastId, disk, host, lock>>

\* build, of which only --install changes anything but the Nix store.
BuildInstall(p, n) ==
  /\ Exists(n)
  /\ Begin(p, "build", [NoJob EXCEPT !.cmd = "build", !.name = n, !.id = spec[n]])
  /\ UNCHANGED <<spec, lastId, disk, host, lock>>

ShouldRestart(p) ==
  \/ job[p].restart = "yes"
  \/ job[p].restart = "auto" /\ job[p].name \in Running

\* Under the lock: what is installed, and does the guest have to come back?
ReadInstalled(p) ==
  LET old == Installed(job[p].name) IN
  /\ Goto(p, "read", "install")
  /\ old # job[p].runner
  /\ job' = [job EXCEPT ![p].old = old,
                        ![p].restart = IF ShouldRestart(p) THEN "yes" ELSE "no"]
  /\ UNCHANGED <<spec, lastId, disk, host, lock>>

\* The candidate is the runner installed already: nothing to do but an explicit
\* restart, whose failure rolls nothing back.
UpToDate(p) ==
  /\ Goto(p, "read", IF job[p].restart = "yes" THEN "act" ELSE "done")
  /\ Installed(job[p].name) = job[p].runner
  /\ job' = [job EXCEPT ![p].cmd = "restart"]
  /\ UNCHANGED <<spec, lastId, disk, host, lock>>

\* Mutant: read_gc_root is called without a slot, and its default is "current".
RollBackToCurrent(p) ==
  LET previous == root[job[p].name]["current"] IN
  /\ Goto(p, "roll", "install")
  /\ previous # NoRunner
  /\ job' = [job EXCEPT ![p].cmd = "rollback", ![p].runner = previous]
  /\ UNCHANGED <<spec, lastId, disk, host, lock>>

\* rollback_runner installs what the previous root leads to.
RollBack(p) ==
  LET previous == root[job[p].name]["previous"] IN
  /\ Goto(p, "roll", "install")
  /\ previous # NoRunner
  /\ job' = [job EXCEPT ![p].cmd = "rollback", ![p].runner = previous]
  /\ UNCHANGED <<spec, lastId, disk, host, lock>>

\* ... "and has no previous runner to roll back to; it is left stopped".
NothingToRollBackTo(p) ==
  /\ Goto(p, "roll", "left_stopped")
  /\ root[job[p].name]["previous"] = NoRunner
  /\ UNCHANGED <<spec, lastId, disk, host, lock, job>>

RebuildStep(p) ==
  ReadInstalled(p) \/ UpToDate(p) \/ RollBack(p) \/ NothingToRollBackTo(p)
=============================================================================
