------------------------------ MODULE Lifecycle ------------------------------
(***************************************************************************)
(* Every sandcastle command that changes a host's sandboxes, run by        *)
(* concurrent processes against the shared state, with guests that die,    *)
(* systemd that starts them again, nix-collect-garbage, enrolled           *)
(* credentials, failures and kills.                                        *)
(***************************************************************************)
EXTENDS Create, Rebuild, Delete, Activation

\* Files appear in credentials/<name>: enrolled in the guest, or put there.  That
\* it was late for an unwind no command can tell; only the properties do.
Enrol(n) ==
  /\ "enrol" \in Commands
  /\ creds[n] = "empty"
  /\ creds' = [creds EXCEPT ![n] =
                 IF \E p \in Proc : pc[p] = "u_rmtree" /\ job[p].name = n
                 THEN "late" ELSE "filled"]
  /\ UNCHANGED <<spec, lastId, current, root, hosts, host, lock, pc, job>>

\* nix-collect-garbage keeps what a GC root leads to.
CollectGarbage ==
  /\ "nix-collect-garbage" \in Commands
  /\ realised' = realised \cap Rooted
  /\ realised' # realised
  /\ UNCHANGED <<spec, lastId, disk, unit, disturbed, lock, pc, job>>

Waits == IF "--no-wait" \in Commands THEN BOOLEAN ELSE {TRUE}

Begins(p, n) ==
  \/ Reserve(p, n)
  \/ \E wait \in Waits : Start(p, n, wait) \/ Restart(p, n, wait)
  \/ Stop(p, n)
  \/ \E restart \in {"auto", "yes", "no"}, wait \in Waits :
       Rebuild(p, n, restart, wait)
  \/ BuildInstall(p, n)
  \/ \E keep \in BOOLEAN : Delete(p, n, keep)

Build(p) == \E input \in Input : Realise(p, input)

Step(p) ==
  \/ Lock(p)
  \/ Build(p)
  \/ CreateStep(p)
  \/ InstallStep(p)
  \/ RebuildStep(p)
  \/ ActivationStep(p)
  \/ DeleteStep(p)
  \/ Exit(p)

Environment ==
  \/ CollectGarbage
  \/ \E n \in Name : Die(n) \/ StartAgain(n) \/ Enrol(n)

Next ==
  \/ \E p \in Proc, n \in Name : Begins(p, n)
  \/ \E p \in Proc : Step(p) \/ ConfirmRefuses(p) \/ Fail(p) \/ Crash(p)
  \/ Environment

Spec == Init /\ [][Next]_vars

\* Processes are scheduled, builds end, the kernel wakes the waiters of a flock,
\* and a guest that cannot stay up for the settle time goes down.  No command
\* counts on a failure, a kill or a refusal.
Fairness ==
  /\ \A p \in Proc : WF_vars(Step(p)) /\ SF_vars(Lock(p))
  /\ \A n \in Name : WF_vars(unit[n].input \notin Bootable /\ Die(n))

LiveSpec == Spec /\ Fairness
-----------------------------------------------------------------------------
\* One command at a time changes a sandbox in its locked section: an install
\* never runs into another install or into a delete (state.file_lock).
Locked == InstallAt \cup DeleteAt \cup {"mkdir", "mkcreds", "mkhosts", "read"}

OneWriter ==
  \A p, q \in Proc :
    /\ pc[p] \in Locked
    /\ pc[q] \in Locked
    /\ job[p].name = job[q].name
    => p = q

\* Nobody keeps a sandbox's lock and waits, unwinds or is gone: who has it is a
\* command on that sandbox, past the lock and, outside a create, past its build, so
\* no commands wait for each other and none is shut out for good.
NobodyWaitsHolding ==
  \A n \in Name, p \in Proc : <<n, p>> \in lock =>
    /\ job[p].name = n
    /\ pc[p] \notin {"idle", "peek", "lock", "unwound"} \cup UnwindAt
    /\ pc[p] = "build" => job[p].cmd = "create"

\* Why: every way into a locked section leads through the lock, and nothing gives
\* it up before the section's end; a create builds, and a rebuild tries its
\* candidate and rolls back, under the lock too.
Holding(p) ==
  \/ pc[p] \in Locked \cup {"roll"}
  \/ pc[p] = "build" /\ job[p].cmd = "create"
  \/ pc[p] \in {"act", "confirm"} /\ job[p].cmd = "rebuild"
  \/ job[p].cmd = "rollback"

\* Which commands come where.
CommandAt(p) ==
  LET only(locations, commands) == pc[p] \in locations => job[p].cmd \in commands IN
  /\ only({"idle"}, {"none"})
  /\ only({"peek", "mkdir", "mkcreds", "mkhosts", "unwound"} \cup UnwindAt, {"create"})
  /\ only({"build"}, {"create", "rebuild", "build"})
  /\ only({"lock"}, {"create", "rebuild", "build", "delete"})
  /\ only(InstallAt, {"create", "rebuild", "build", "rollback"})
  /\ only({"read", "roll", "left_stopped"}, {"rebuild"})
  /\ only({"act", "confirm"}, {"start", "restart", "stop", "rebuild", "rollback"})
  /\ only({"rolled_back"}, {"rollback"})
  /\ only(DeleteAt, {"delete"})
  /\ job[p].cmd \in {"create", "rebuild", "build"} => job[p].id # NoId

LockInv ==
  /\ \A n \in Name, p, q \in Proc : <<n, p>> \in lock /\ <<n, q>> \in lock => p = q
  /\ \A p \in Proc : pc[p] # "idle" => job[p].name \in Name
  /\ \A p \in Proc : CommandAt(p)
  /\ \A p \in Proc : Holding(p) => <<job[p].name, p>> \in lock
  /\ NobodyWaitsHolding

\* A command that changes what is installed under a name, until its process is gone;
\* and whether it is the only one of its sandbox.
Works(p) == job[p].cmd \in {"create", "rebuild", "rollback", "build", "delete"}
Alone(p) == \A q \in Proc \ {p} : job[q].name = job[p].name => ~Works(q)

\* While a failed create of n unwinds, which it does without the lock, no other
\* command works on n, and no removal fails.
OrderlyUnwind(n) ==
  \A p \in Proc : job[p].name = n /\ pc[p] \in UnwindAt => Alone(p) /\ ~RemovalsFail

\* So too while a delete removes what there is of n.
OrderlyRemoval(n) ==
  /\ OrderlyUnwind(n)
  /\ \A p \in Proc : job[p].name = n /\ pc[p] \in DeleteAt => Alone(p)

Bare(n) ==
  /\ current[n] = NoDir
  /\ \A slot \in Slot : root[n][slot] = NoRunner
  /\ n \notin hosts

\* Without a spec there is no VM directory, GC root or host key under a name:
\* whatever a kill leaves half done is still addressable, so that it can be
\* deleted, and the next sandbox of that name starts clean.
NoOrphans == \A n \in Name : ~Exists(n) => Bare(n)

\* The installed runner was built for the sandbox that holds the name now, not
\* for a deleted namesake with another address and another key.
InstalledMatchesSpec ==
  \A n \in Name : Exists(n) /\ Installed(n) # NoRunner => Installed(n).id = spec[n]

RootedAt(n) ==
  Installed(n) # NoRunner => \E slot \in Slot : root[n][slot] = Installed(n)

\* The runner `current` leads to is held by one of the sandbox's GC roots, in
\* the middle of an install, a rollback or a delete too.
RunnerRooted == \A n \in Name : RootedAt(n)

\* While a rebuild finds out whether its candidate comes up, the runner it may
\* have to go back to stays rooted as `previous`.
RollbackPossible ==
  \A p \in Proc :
    /\ job[p].cmd = "rebuild" /\ pc[p] \in {"act", "confirm", "roll"}
    /\ job[p].old # NoRunner
    => root[job[p].name]["previous"] = job[p].old

\* "Rolled back to X and restarted it": X is the runner that was installed when
\* the rebuild took the lock.
RollbackRestores ==
  \A p \in Proc :
    pc[p] = "rolled_back" /\ job[p].old # NoRunner =>
      Installed(job[p].name) = job[p].old

\* Why these hold of a sandbox whose failed creates unwind in order: nobody but the
\* holder of its lock moves its runners, and at every step of an install it is known
\* which root has the runner installed and which has the one to go back to.
Installs(p) ==
  LET n == job[p].name IN
  /\ pc[p] = "current" =>
       Installed(n) \in {NoRunner, job[p].runner, root[n]["previous"]}
  /\ pc[p] = "link" => root[n]["current"] = job[p].runner
  /\ pc[p] \in {"d_current", "d_previous", "u_current", "u_previous"} =>
       Installed(n) = NoRunner

KeepsPrevious(p) ==
  LET n == job[p].name IN
  job[p].cmd = "rebuild" /\ job[p].old # NoRunner =>
    /\ pc[p] \in {"install", "previous"} =>
         Installed(n) = job[p].old /\ job[p].old # job[p].runner
    /\ pc[p] \in {"current", "link", "act", "confirm", "roll"} =>
         root[n]["previous"] = job[p].old

GoesBack(p) ==
  LET n == job[p].name IN
  job[p].cmd = "rollback" /\ job[p].old # NoRunner =>
    /\ job[p].runner = job[p].old
    /\ pc[p] \in {"act", "confirm", "rolled_back"} => Installed(n) = job[p].old

UpgradeAt(n) ==
  /\ RootedAt(n)
  /\ \A p \in Proc :
       job[p].name = n => Installs(p) /\ KeepsPrevious(p) /\ GoesBack(p)

UpgradeInv == \A n \in Name : UpgradeAt(n)

\* Why NoOrphans and InstalledMatchesSpec hold of a sandbox whose removals and
\* unwinds are in order: what is installed or rooted has the identity of the spec, a
\* command keeps to the spec it has loaded, and the spec goes when all the rest is
\* gone.
Keeps(p) ==
  /\ /\ job[p].cmd \in {"create", "rebuild", "build", "rollback"}
     /\ pc[p] # "unwound"
     => /\ Exists(job[p].name)
        /\ spec[job[p].name] = job[p].id
        /\ job[p].runner # NoRunner => job[p].runner.id = job[p].id
  /\ job[p].cmd = "delete" /\ pc[p] # "done" => Exists(job[p].name)

Removed(p) ==
  LET n == job[p].name
      at(locations) == pc[p] \in locations
      hostsGone == {"d_creds", "d_spec", "u_creds", "u_rmtree", "u_spec"}
      rootsGone == hostsGone \cup {"d_hosts", "u_hosts"}
      currentGone == rootsGone \cup {"d_previous", "u_previous"}
      dirGone == currentGone \cup {"d_current", "u_current"}
  IN
  /\ at(dirGone) => current[n] = NoDir
  /\ at(currentGone) => root[n]["current"] = NoRunner
  /\ at(rootsGone) => root[n]["previous"] = NoRunner
  /\ at(hostsGone) => n \notin hosts

Matches(n) ==
  /\ ~Exists(n) => Bare(n)
  /\ Exists(n) =>
       /\ Installed(n) # NoRunner => Installed(n).id = spec[n]
       /\ \A slot \in Slot : root[n][slot] # NoRunner => root[n][slot].id = spec[n]

TidyAt(n) ==
  /\ Matches(n)
  /\ \A p \in Proc : job[p].name = n => Keeps(p) /\ Removed(p)

TidyInv == \A n \in Name : TidyAt(n)

\* Credentials disappear by `delete --delete-credentials` of their sandbox, or with
\* the failed create that found no directory and finds it empty when it looks again:
\* no unwind takes what a delete had kept, or what was enrolled before it looked.
\* What is enrolled between that look and the removal is lost.
MayTake(p, n) ==
  /\ job[p].name = n /\ ~job[p].keep
  /\ \/ job[p].cmd = "delete"
     \/ job[p].cmd = "create" /\ creds[n] # "filled"

CredentialsKept ==
  [][\A n \in Name : creds[n] # "absent" /\ creds'[n] = "absent" =>
       \E p \in Proc : MayTake(p, n)]_vars

\* Why: no command gets to removing what it is to keep, and nothing is enrolled in
\* time where an unwind is about to remove.
Careful(p) ==
  /\ pc[p] \in {"d_creds", "u_creds", "u_rmtree"} => ~job[p].keep
  /\ pc[p] = "u_rmtree" => creds[job[p].name] # "filled"

\* Every command ends, whatever the guest and the other commands do.
EveryCommandEnds == \A p \in Proc : pc[p] # "idle" ~> pc[p] = "idle"
-----------------------------------------------------------------------------
(* Claims of the documentation that the code does not keep. *)

\* PLAN.md, Delete: it refuses to delete a running VM.
RunningNeverDeleted == \A n \in Running : current[n] # NoDir

\* lifecycle.rebuild: `current` only moves once what it leads to exists, and
\* nix/host-module.nix: the GC roots keep the runners from nix-collect-garbage.
NothingDangles == \A n \in Name : Installed(n) \in realised \cup {NoRunner}
=============================================================================
