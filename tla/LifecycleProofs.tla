--------------------------- MODULE LifecycleProofs ---------------------------
(***************************************************************************)
(* What Lifecycle.tla promises of its locks, for any number of processes,  *)
(* names and inputs: its type invariant, and that one command at a time is *)
(* in the locked section of a sandbox.                                     *)
(***************************************************************************)
EXTENDS Lifecycle, FiniteSetTheorems, TLAPS

\* Init gives every variable a value of its type (HostState!TypeOK).
LEMMA TypeInit == Init => TypeOK
<1> SUFFICES ASSUME Init PROVE TypeOK
  OBVIOUS
<1> DEFINE count == Cardinality(Existing)
<1>1. PICK ids \in [Existing -> 1 .. count], inputs \in [Existing -> Input] :
        LET installed == [n \in Existing |-> [id |-> ids[n], input |-> inputs[n]]] IN
        /\ spec = [n \in Name |-> IF n \in Existing THEN ids[n] ELSE NoId]
        /\ lastId = count
        /\ current = [n \in Name |-> IF n \in Existing THEN installed[n] ELSE NoDir]
        /\ root = [n \in Name |->
                     [slot \in Slot |-> IF n \in Existing /\ slot = "current"
                                        THEN installed[n] ELSE NoRunner]]
        /\ hosts = Existing
        /\ creds = [n \in Name |-> IF n \in Existing THEN "empty" ELSE "absent"]
        /\ realised = {installed[n] : n \in Existing}
        /\ unit = [n \in Name |-> Down]
        /\ disturbed = {}
        /\ lock = {}
        /\ pc = [p \in Proc |-> "idle"]
        /\ job = [p \in Proc |-> NoJob]
  BY DEF Init
<1>2. count \in 0 .. MaxId
  BY ExistingAssumption, BoundsAssumption, FS_CardinalityType
<1>3. \A n \in Existing : ids[n] \in Id
  BY <1>2, BoundsAssumption DEF Id
<1>4. \A n \in Existing : [id |-> ids[n], input |-> inputs[n]] \in Runner
  BY <1>3 DEF Runner
<1>5. NoJob \in Job
  BY DEF NoJob, Job, NoName, NoRunner
<1> HIDE DEF count
<1> QED
  BY <1>1, <1>2, <1>3, <1>4, <1>5, ExistingAssumption
     DEF TypeOK, Locations, Down, NotUp

\* What stands for a missing directory is no runner.
LEMMA RunnerIsNoDir == \A r \in Runner \cup {NoRunner} : r # NoDir
<1>1. ASSUME NEW r \in Runner PROVE r # NoDir
  <2>1. r.id # NoDir.id
    BY DEF Runner, Id, NoDir, NoId
  <2>. QED
    BY <2>1
<1>2. NoRunner # NoDir
  <2>1. NoRunner.input # NoDir.input
    BY DEF NoRunner, NoDir
  <2>. QED
    BY <2>1
<1>. QED
  BY <1>1, <1>2

\* The updates of a command's locals keep them locals.
LEMMA Locals ==
  ASSUME NEW j \in Job,
         NEW c \in {"create", "rebuild", "rollback", "build", "start", "restart", "stop",
                    "delete"},
         NEW r \in Runner \cup {NoRunner}, NEW w \in BOOLEAN,
         NEW x \in {"auto", "yes", "no"}
  PROVE  /\ [j EXCEPT !.cmd = c] \in Job
         /\ [j EXCEPT !.runner = r] \in Job
         /\ [j EXCEPT !.cmd = c, !.runner = r] \in Job
         /\ [j EXCEPT !.old = r, !.restart = x] \in Job
         /\ [j EXCEPT !.keep = w] \in Job
<1>1. [j EXCEPT !.cmd = c] \in Job
  BY DEF Job
<1>2. [j EXCEPT !.runner = r] \in Job
  BY DEF Job
<1>3. [j EXCEPT !.cmd = c, !.runner = r] \in Job
  BY DEF Job
<1>4. [j EXCEPT !.old = r, !.restart = x] \in Job
  BY DEF Job
<1>5. [j EXCEPT !.keep = w] \in Job
  BY DEF Job
<1> QED BY <1>1, <1>2, <1>3, <1>4, <1>5

\* Types are kept by: the start of a command.
LEMMA BeginsTypes ==
  ASSUME TypeOK, LockInv,
         NEW p \in Proc, NEW n \in Name, Begins(p, n)
  PROVE  TypeOK'
<1> USE DEF TypeOK, LockInv, Goto, Locations, InstallAt, UnwindAt, DeleteAt, FinishedAt,
           disk, host, NotUp
<1>1. CASE Reserve(p, n)
  <2>1. lastId' \in Id
    BY <1>1, BoundsAssumption DEF Reserve, Id
  <2>2. [NoJob EXCEPT !.cmd = "create", !.name = n, !.id = lastId'] \in Job
    BY <2>1 DEF Job, NoJob, NoName
  <2> QED BY <2>1, <2>2, <1>1 DEF Reserve, Begin, Id
<1>2. ASSUME NEW restart \in {"auto", "yes", "no"},
             NEW wait \in BOOLEAN, Rebuild(p, n, restart, wait)
      PROVE TypeOK'
  BY <1>2 DEF Rebuild, Begin, Exists, Id, NoId, NoName, Job, NoJob
<1>3. CASE BuildInstall(p, n)
  BY <1>3 DEF BuildInstall, Begin, Exists, Id, NoId, NoName, Job, NoJob
<1>4. ASSUME NEW keep \in BOOLEAN, Delete(p, n, keep) PROVE TypeOK'
  BY <1>4 DEF Delete, Begin, Id, NoId, NoName, Job, NoJob
<1>5. ASSUME NEW wait \in BOOLEAN, Start(p, n, wait) PROVE TypeOK'
  BY <1>5 DEF Start, Begin, Id, NoId, NoName, Job, NoJob
<1>6. CASE Stop(p, n)
  BY <1>6 DEF Stop, Begin, Id, NoId, NoName, Job, NoJob
<1>7. ASSUME NEW wait \in BOOLEAN, Restart(p, n, wait) PROVE TypeOK'
  BY <1>7 DEF Restart, Begin, Id, NoId, NoName, Job, NoJob
<1>8. Waits \subseteq BOOLEAN
  BY DEF Waits
<1> QED
  BY <1>1, <1>2, <1>3, <1>4, <1>5, <1>6, <1>7, <1>8 DEF Begins

\* Types are kept by: a lock, a build or an end.
LEMMA ControlTypes ==
  ASSUME TypeOK, LockInv,
         NEW p \in Proc, Lock(p) \/ Build(p) \/ Exit(p) \/ Fail(p) \/ Crash(p)
                        \/ ConfirmRefuses(p)
  PROVE  TypeOK'
<1> USE DEF TypeOK, LockInv, Goto, Locations, InstallAt, UnwindAt, DeleteAt, FinishedAt,
           disk, host, NotUp
<1>1. CASE Lock(p)
  BY <1>1 DEF Lock, AfterLock, CommandAt
<1>2. CASE Exit(p)
  BY <1>2 DEF Exit, Unlocked, NoId, NoName, Job, NoJob
<1>3. CASE Fail(p)
  <2>1. PICK to \in Locations : pc' = [pc EXCEPT ![p] = to]
    BY <1>3 DEF Fail, Raise
  <2>2. lock' \subseteq lock
    BY <1>3 DEF Fail, Raise, Unlocked
  <2>3. UNCHANGED <<spec, lastId, disk, host, job>>
    BY <1>3 DEF Fail
  <2> QED BY <2>1, <2>2, <2>3
<1>4. CASE Crash(p)
  BY <1>4 DEF Crash, Unlocked, NoId, NoName, Job, NoJob
<1>5. CASE ConfirmRefuses(p)
  BY <1>5 DEF ConfirmRefuses, NotActivated
<1>6. ASSUME NEW input \in Input, Realise(p, input) PROVE TypeOK'
  <2> DEFINE r == [id |-> job[p].id, input |-> input]
  <2>1. r \in Runner
    BY <1>6 DEF Realise, Runner, Job, CommandAt
  <2>2. [job[p] EXCEPT !.runner = r] \in Job
    BY <2>1, Locals
  <2>3. job' \in [Proc -> Job]
    BY <2>2, <1>6 DEF Realise
  <2> QED BY <2>1, <2>3, <1>6 DEF Realise
<1> QED
  BY <1>1, <1>2, <1>3, <1>4, <1>5, <1>6 DEF Build

\* Types are kept by: install_runner.
LEMMA InstallTypes ==
  ASSUME TypeOK, LockInv,
         NEW p \in Proc, InstallStep(p)
  PROVE  TypeOK'
<1> USE DEF TypeOK, LockInv, Goto, Locations, InstallAt, UnwindAt, DeleteAt, FinishedAt,
           disk, host, NotUp
<1>1. CASE EnsureVmDir(p)
  BY <1>1 DEF EnsureVmDir, MakeDir
<1>2. CASE RootPrevious(p)
  <2>1. Installed(job[p].name) \in Runner \cup {NoRunner}
    BY <1>2 DEF RootPrevious, Installed
  <2> QED BY <2>1, <1>2 DEF RootPrevious, Slot
<1>3. CASE RootCurrent(p)
  <2>1. job[p].runner \in Runner \cup {NoRunner}
    BY DEF Job
  <2> QED BY <2>1, <1>3 DEF RootCurrent, Slot
<1>4. CASE MoveCurrent(p)
  <2>1. job[p].runner \in Runner \cup {NoRunner}
    BY DEF Job
  <2> QED BY <2>1, <1>4 DEF MoveCurrent
<1>5. CASE MoveCurrentRaises(p)
  BY <1>5 DEF MoveCurrentRaises, Raise, Unlocked
<1> QED
  BY <1>1, <1>2, <1>3, <1>4, <1>5 DEF InstallStep

\* Types are kept by: create and its unwind.
LEMMA CreateTypes ==
  ASSUME TypeOK, LockInv,
         NEW p \in Proc, CreateStep(p)
  PROVE  TypeOK'
<1> USE DEF TypeOK, LockInv, Goto, Locations, InstallAt, UnwindAt, DeleteAt, FinishedAt,
           disk, host, NotUp
<1>1. CASE PeekCredentials(p)
  <2>1. [job[p] EXCEPT !.keep = creds[job[p].name] # "absent"] \in Job
    BY Locals
  <2> QED BY <2>1, <1>1 DEF PeekCredentials
<1>2. CASE CreateVmDir(p)
  BY <1>2 DEF CreateVmDir, MakeDir
<1>3. CASE CreateCredentials(p)
  BY <1>3 DEF CreateCredentials
<1>4. CASE EnsureKnownHosts(p)
  BY <1>4 DEF EnsureKnownHosts
<1>5. CASE UnwindVmDir(p)
  BY <1>5 DEF UnwindVmDir, RemoveVmDir
<1>6. CASE UnwindCurrentRoot(p)
  BY <1>6 DEF UnwindCurrentRoot, RemoveRoot, Slot
<1>7. CASE UnwindPreviousRoot(p)
  BY <1>7 DEF UnwindPreviousRoot, RemoveRoot, Slot
<1>8. CASE UnwindKnownHosts(p)
  BY <1>8 DEF UnwindKnownHosts, ForgetKnownHosts
<1>9. CASE UnwindCredentials(p)
  BY <1>9 DEF UnwindCredentials, RemoveCredentials
<1>10. CASE UnwindSpec(p)
  BY <1>10 DEF UnwindSpec, RemoveSpec
<1>11. CASE UnwindSwallows(p)
  <2>1. PICK to \in Locations : pc' = [pc EXCEPT ![p] = to]
    BY <1>11 DEF UnwindSwallows
  <2> QED BY <2>1, <1>11 DEF UnwindSwallows
<1>12. CASE UnwindLooks(p)
  BY <1>12 DEF UnwindLooks
<1> QED
  BY <1>1, <1>2, <1>3, <1>4, <1>5, <1>6, <1>7, <1>8, <1>9, <1>10, <1>11, <1>12 DEF CreateStep

\* Types are kept by: rebuild and its rollback.
LEMMA RebuildTypes ==
  ASSUME TypeOK, LockInv,
         NEW p \in Proc, RebuildStep(p)
  PROVE  TypeOK'
<1> USE DEF TypeOK, LockInv, Goto, Locations, InstallAt, UnwindAt, DeleteAt, FinishedAt,
           disk, host, NotUp
<1>1. CASE ReadInstalled(p)
  <2>1. Installed(job[p].name) \in Runner \cup {NoRunner}
    BY <1>1 DEF ReadInstalled, Installed
  <2>2. [job[p] EXCEPT !.old = Installed(job[p].name),
                       !.restart = IF ShouldRestart(p) THEN "yes" ELSE "no"] \in Job
    BY <2>1, Locals
  <2> QED BY <2>2, <1>1 DEF ReadInstalled
<1>2. CASE UpToDate(p)
  <2>1. [job[p] EXCEPT !.cmd = "restart"] \in Job
    BY Locals
  <2> QED BY <2>1, <1>2 DEF UpToDate
<1>3. CASE RollBack(p)
  <2>1. root[job[p].name]["previous"] \in Runner \cup {NoRunner}
    BY <1>3 DEF RollBack, Slot
  <2>2. [job[p] EXCEPT !.cmd = "rollback", !.runner = root[job[p].name]["previous"]] \in Job
    BY <2>1, Locals
  <2> QED BY <2>2, <1>3 DEF RollBack
<1>4. CASE NothingToRollBackTo(p)
  BY <1>4 DEF NothingToRollBackTo
<1> QED
  BY <1>1, <1>2, <1>3, <1>4 DEF RebuildStep

\* Types are kept by: delete.
LEMMA DeleteTypes ==
  ASSUME TypeOK, LockInv,
         NEW p \in Proc, DeleteStep(p)
  PROVE  TypeOK'
<1> USE DEF TypeOK, LockInv, Goto, Locations, InstallAt, UnwindAt, DeleteAt, FinishedAt,
           disk, host, NotUp
<1>1. CASE DeleteVmDir(p)
  BY <1>1 DEF DeleteVmDir, RemoveVmDir
<1>2. CASE DeleteCurrentRoot(p)
  BY <1>2 DEF DeleteCurrentRoot, RemoveRoot, Slot
<1>3. CASE DeletePreviousRoot(p)
  BY <1>3 DEF DeletePreviousRoot, RemoveRoot, Slot
<1>4. CASE DeleteKnownHosts(p)
  BY <1>4 DEF DeleteKnownHosts, ForgetKnownHosts
<1>5. CASE DeleteCredentials(p)
  BY <1>5 DEF DeleteCredentials, RemoveCredentials
<1>6. CASE DeleteSpec(p)
  BY <1>6 DEF DeleteSpec, RemoveSpec
<1> QED
  BY <1>1, <1>2, <1>3, <1>4, <1>5, <1>6 DEF DeleteStep

\* Types are kept by: an activation.
LEMMA ActivationTypes ==
  ASSUME TypeOK, LockInv,
         NEW p \in Proc, ActivationStep(p)
  PROVE  TypeOK'
<1> USE DEF TypeOK, LockInv, Goto, Locations, InstallAt, UnwindAt, DeleteAt, FinishedAt,
           disk, host, NotUp
<1>1. CASE Act(p)
  BY <1>1 DEF Act, Activated, Boot, Disturb
<1>2. CASE ActFails(p)
  BY <1>2 DEF ActFails, NotActivated
<1>3. CASE Confirm(p)
  BY <1>3 DEF Confirm, Activated
<1>4. CASE ConfirmFails(p)
  BY <1>4 DEF ConfirmFails, NotActivated
<1> QED
  BY <1>1, <1>2, <1>3, <1>4 DEF ActivationStep

\* Types are kept by: systemd, a guest, or another program.
LEMMA EnvironmentTypes ==
  ASSUME TypeOK, LockInv,
         Environment
  PROVE  TypeOK'
<1> USE DEF TypeOK, LockInv, Goto, Locations, InstallAt, UnwindAt, DeleteAt, FinishedAt,
           disk, host, NotUp
<1>1. ASSUME NEW n \in Name, Die(n) PROVE TypeOK'
  BY <1>1 DEF Die, Running
<1>2. ASSUME NEW n \in Name, StartAgain(n) PROVE TypeOK'
  BY <1>2 DEF StartAgain, Boot, Disturb
<1>3. CASE CollectGarbage
  BY <1>3 DEF CollectGarbage
<1>4. ASSUME NEW n \in Name, Enrol(n) PROVE TypeOK'
  BY <1>4 DEF Enrol
<1> QED
  BY <1>1, <1>2, <1>3, <1>4 DEF Environment

\* Every step keeps the types.
LEMMA TypeStep == TypeOK /\ LockInv /\ [Next]_vars => TypeOK'
<1> SUFFICES ASSUME TypeOK, LockInv, [Next]_vars PROVE TypeOK'
  OBVIOUS
<1>1. CASE UNCHANGED vars
  BY <1>1 DEF vars, disk, host, TypeOK
<1>2. ASSUME NEW p \in Proc, NEW n \in Name, Begins(p, n) PROVE TypeOK'
  BY <1>2, BeginsTypes
<1>3. ASSUME NEW p \in Proc, Step(p) \/ ConfirmRefuses(p) \/ Fail(p) \/ Crash(p) PROVE TypeOK'
  BY <1>3, ControlTypes, InstallTypes, CreateTypes,
         RebuildTypes, DeleteTypes, ActivationTypes
     DEF Step
<1>4. CASE Environment
  BY <1>4, EnvironmentTypes
<1> QED BY <1>1, <1>2, <1>3, <1>4 DEF Next
-----------------------------------------------------------------------------
\* The lock invariant is kept by: the start of a command.
LEMMA BeginsLocks ==
  ASSUME TypeOK, LockInv,
         NEW p \in Proc, NEW n \in Name, Begins(p, n)
  PROVE  LockInv'
<1> USE DEF TypeOK, LockInv, NobodyWaitsHolding, CommandAt, Holding, Locked, InstallAt,
      DeleteAt, UnwindAt, FinishedAt, Goto, disk, host
<1>1. CASE Reserve(p, n)
  BY <1>1 DEF Reserve, Begin, NoJob, TypeOK, NoId
<1>2. ASSUME NEW restart \in {"auto", "yes", "no"},
             NEW wait \in BOOLEAN, Rebuild(p, n, restart, wait)
      PROVE LockInv'
  BY <1>2 DEF Rebuild, Begin, Exists, NoJob
<1>3. CASE BuildInstall(p, n)
  BY <1>3 DEF BuildInstall, Begin, Exists, NoJob
<1>4. ASSUME NEW keep \in BOOLEAN, Delete(p, n, keep) PROVE LockInv'
  BY <1>4 DEF Delete, Begin, NoJob
<1>5. ASSUME NEW wait \in BOOLEAN, Start(p, n, wait) PROVE LockInv'
  BY <1>5 DEF Start, Begin, NoJob
<1>6. CASE Stop(p, n)
  BY <1>6 DEF Stop, Begin, NoJob
<1>7. ASSUME NEW wait \in BOOLEAN, Restart(p, n, wait) PROVE LockInv'
  BY <1>7 DEF Restart, Begin, NoJob
<1>8. Waits \subseteq BOOLEAN
  BY DEF Waits
<1> QED
  BY <1>1, <1>2, <1>3, <1>4, <1>5, <1>6, <1>7, <1>8 DEF Begins

\* The lock invariant is kept by: a lock, a build or an end.
LEMMA ControlLocks ==
  ASSUME TypeOK, LockInv,
         NEW p \in Proc, Lock(p) \/ Build(p) \/ Exit(p) \/ Fail(p) \/ Crash(p)
                        \/ ConfirmRefuses(p)
  PROVE  LockInv'
<1> USE DEF TypeOK, LockInv, NobodyWaitsHolding, CommandAt, Holding, Locked, InstallAt,
      DeleteAt, UnwindAt, FinishedAt, Goto, disk, host
<1>1. CASE Lock(p)
  BY <1>1 DEF Lock, AfterLock
<1>2. CASE Exit(p)
  BY <1>2 DEF Exit, Unlocked, NoJob
<1>3. CASE Fail(p)
  <2>1. pc[p] # "idle" /\ job' = job
    BY <1>3 DEF Fail
  <2>2. CASE job[p].cmd = "create"
    <3>1. pc' = [pc EXCEPT ![p] = "u_dir"] /\ lock' = {l \in lock : l[2] # p}
      BY <1>3, <2>2 DEF Fail, Raise, Unlocked
    <3> QED BY <2>1, <2>2, <3>1
  <2>3. CASE job[p].cmd # "create"
    <3>1. pc' = [pc EXCEPT ![p] = "done"] /\ lock' = lock
      BY <1>3, <2>3 DEF Fail, Raise
    <3> QED BY <2>1, <2>3, <3>1
  <2> QED BY <2>2, <2>3
<1>4. CASE Crash(p)
  BY <1>4 DEF Crash, Unlocked, NoJob
<1>5. CASE ConfirmRefuses(p)
  BY <1>5 DEF ConfirmRefuses, NotActivated
<1>6. ASSUME NEW input \in Input, Realise(p, input) PROVE LockInv'
  BY <1>6 DEF Realise
<1> QED
  BY <1>1, <1>2, <1>3, <1>4, <1>5, <1>6 DEF Build

\* The lock invariant is kept by: install_runner.
LEMMA InstallLocks ==
  ASSUME TypeOK, LockInv,
         NEW p \in Proc, InstallStep(p)
  PROVE  LockInv'
<1> USE DEF TypeOK, LockInv, NobodyWaitsHolding, CommandAt, Holding, Locked, InstallAt,
      DeleteAt, UnwindAt, FinishedAt, Goto, disk, host
<1>1. CASE EnsureVmDir(p)
  BY <1>1 DEF EnsureVmDir, MakeDir
<1>2. CASE RootPrevious(p)
  BY <1>2 DEF RootPrevious, Installed
<1>3. CASE RootCurrent(p)
  BY <1>3 DEF RootCurrent
<1>4. CASE MoveCurrent(p)
  BY <1>4 DEF MoveCurrent
<1>5. CASE MoveCurrentRaises(p)
  <2>1. CASE job[p].cmd = "create"
    BY <1>5, <2>1 DEF MoveCurrentRaises, Raise, Unlocked
  <2>2. CASE job[p].cmd # "create"
    BY <1>5, <2>2 DEF MoveCurrentRaises, Raise
  <2>. QED
    BY <2>1, <2>2
<1> QED
  BY <1>1, <1>2, <1>3, <1>4, <1>5 DEF InstallStep

\* The lock invariant is kept by: create and its unwind.
LEMMA CreateLocks ==
  ASSUME TypeOK, LockInv,
         NEW p \in Proc, CreateStep(p)
  PROVE  LockInv'
<1> USE DEF TypeOK, LockInv, NobodyWaitsHolding, CommandAt, Holding, Locked, InstallAt,
      DeleteAt, UnwindAt, FinishedAt, Goto, disk, host
<1>1. CASE PeekCredentials(p)
  BY <1>1 DEF PeekCredentials
<1>2. CASE CreateVmDir(p)
  BY <1>2 DEF CreateVmDir, MakeDir
<1>3. CASE CreateCredentials(p)
  BY <1>3 DEF CreateCredentials
<1>4. CASE EnsureKnownHosts(p)
  BY <1>4 DEF EnsureKnownHosts
<1>5. CASE UnwindVmDir(p)
  BY <1>5 DEF UnwindVmDir, RemoveVmDir
<1>6. CASE UnwindCurrentRoot(p)
  BY <1>6 DEF UnwindCurrentRoot, RemoveRoot, Slot
<1>7. CASE UnwindPreviousRoot(p)
  BY <1>7 DEF UnwindPreviousRoot, RemoveRoot, Slot
<1>8. CASE UnwindKnownHosts(p)
  BY <1>8 DEF UnwindKnownHosts, ForgetKnownHosts
<1>9. CASE UnwindCredentials(p)
  BY <1>9 DEF UnwindCredentials, RemoveCredentials
<1>10. CASE UnwindSpec(p)
  BY <1>10 DEF UnwindSpec, RemoveSpec
<1>11. CASE UnwindSwallows(p)
  BY <1>11 DEF UnwindSwallows
<1>12. CASE UnwindLooks(p)
  BY <1>12 DEF UnwindLooks
<1> QED
  BY <1>1, <1>2, <1>3, <1>4, <1>5, <1>6, <1>7, <1>8, <1>9, <1>10, <1>11, <1>12 DEF CreateStep

\* The lock invariant is kept by: rebuild and its rollback.
LEMMA RebuildLocks ==
  ASSUME TypeOK, LockInv,
         NEW p \in Proc, RebuildStep(p)
  PROVE  LockInv'
<1> USE DEF TypeOK, LockInv, NobodyWaitsHolding, CommandAt, Holding, Locked, InstallAt,
      DeleteAt, UnwindAt, FinishedAt, Goto, disk, host
<1>1. CASE ReadInstalled(p)
  <2>1. /\ job'[p].cmd = job[p].cmd /\ job'[p].name = job[p].name
        /\ job'[p].id = job[p].id
        /\ \A q \in Proc \ {p} : job'[q] = job[q]
    BY <1>1 DEF ReadInstalled
  <2>2. pc[p] = "read" /\ pc' = [pc EXCEPT ![p] = "install"] /\ lock' = lock
    BY <1>1 DEF ReadInstalled
  <2>. QED
    BY <2>1, <2>2
<1>2. CASE UpToDate(p)
  <2>1. /\ job'[p].cmd = "restart" /\ job'[p].name = job[p].name
        /\ \A q \in Proc \ {p} : job'[q] = job[q]
    BY <1>2 DEF UpToDate
  <2>2. /\ pc[p] = "read" /\ lock' = lock
        /\ \E to \in {"act", "done"} : pc' = [pc EXCEPT ![p] = to]
    BY <1>2 DEF UpToDate
  <2>. QED
    BY <2>1, <2>2
<1>3. CASE RollBack(p)
  <2>1. /\ job'[p].cmd = "rollback" /\ job'[p].name = job[p].name
        /\ job'[p].id = job[p].id
        /\ \A q \in Proc \ {p} : job'[q] = job[q]
    BY <1>3 DEF RollBack
  <2>2. pc[p] = "roll" /\ pc' = [pc EXCEPT ![p] = "install"] /\ lock' = lock
    BY <1>3 DEF RollBack
  <2>. QED
    BY <2>1, <2>2
<1>4. CASE NothingToRollBackTo(p)
  BY <1>4 DEF NothingToRollBackTo
<1> QED
  BY <1>1, <1>2, <1>3, <1>4 DEF RebuildStep

\* The lock invariant is kept by: delete.
LEMMA DeleteLocks ==
  ASSUME TypeOK, LockInv,
         NEW p \in Proc, DeleteStep(p)
  PROVE  LockInv'
<1> USE DEF TypeOK, LockInv, NobodyWaitsHolding, CommandAt, Holding, Locked, InstallAt,
      DeleteAt, UnwindAt, FinishedAt, Goto, disk, host
<1>1. CASE DeleteVmDir(p)
  BY <1>1 DEF DeleteVmDir, RemoveVmDir
<1>2. CASE DeleteCurrentRoot(p)
  BY <1>2 DEF DeleteCurrentRoot, RemoveRoot, Slot
<1>3. CASE DeletePreviousRoot(p)
  BY <1>3 DEF DeletePreviousRoot, RemoveRoot, Slot
<1>4. CASE DeleteKnownHosts(p)
  BY <1>4 DEF DeleteKnownHosts, ForgetKnownHosts
<1>5. CASE DeleteCredentials(p)
  BY <1>5 DEF DeleteCredentials, RemoveCredentials
<1>6. CASE DeleteSpec(p)
  BY <1>6 DEF DeleteSpec, RemoveSpec
<1> QED
  BY <1>1, <1>2, <1>3, <1>4, <1>5, <1>6 DEF DeleteStep

\* The lock invariant is kept by: an activation.
LEMMA ActivationLocks ==
  ASSUME TypeOK, LockInv,
         NEW p \in Proc, ActivationStep(p)
  PROVE  LockInv'
<1> USE DEF TypeOK, LockInv, NobodyWaitsHolding, CommandAt, Holding, Locked, InstallAt,
      DeleteAt, UnwindAt, FinishedAt, Goto, disk, host
<1>1. CASE Act(p)
  BY <1>1 DEF Act, Activated, Boot, Disturb
<1>2. CASE ActFails(p)
  BY <1>2 DEF ActFails, NotActivated
<1>3. CASE Confirm(p)
  BY <1>3 DEF Confirm, Activated
<1>4. CASE ConfirmFails(p)
  BY <1>4 DEF ConfirmFails, NotActivated
<1> QED
  BY <1>1, <1>2, <1>3, <1>4 DEF ActivationStep

\* The lock invariant is kept by: systemd, a guest, or another program.
LEMMA EnvironmentLocks ==
  ASSUME TypeOK, LockInv,
         Environment
  PROVE  LockInv'
<1> USE DEF TypeOK, LockInv, NobodyWaitsHolding, CommandAt, Holding, Locked, InstallAt,
      DeleteAt, UnwindAt, FinishedAt, Goto, disk, host
<1>1. ASSUME NEW n \in Name, Die(n) PROVE LockInv'
  BY <1>1 DEF Die, Running
<1>2. ASSUME NEW n \in Name, StartAgain(n) PROVE LockInv'
  BY <1>2 DEF StartAgain, Boot, Disturb
<1>3. CASE CollectGarbage
  BY <1>3 DEF CollectGarbage
<1>4. ASSUME NEW n \in Name, Enrol(n) PROVE LockInv'
  BY <1>4 DEF Enrol
<1> QED
  BY <1>1, <1>2, <1>3, <1>4 DEF Environment

\* Every step keeps the lock invariant.
LEMMA LockStep == TypeOK /\ LockInv /\ [Next]_vars => LockInv'
<1> SUFFICES ASSUME TypeOK, LockInv, [Next]_vars PROVE LockInv'
  OBVIOUS
<1>1. CASE UNCHANGED vars
  BY <1>1 DEF vars, disk, host, LockInv, NobodyWaitsHolding, CommandAt, Holding
<1>2. ASSUME NEW p \in Proc, NEW n \in Name, Begins(p, n) PROVE LockInv'
  BY <1>2, BeginsLocks
<1>3. ASSUME NEW p \in Proc, Step(p) \/ ConfirmRefuses(p) \/ Fail(p) \/ Crash(p) PROVE LockInv'
  BY <1>3, ControlLocks, InstallLocks, CreateLocks,
         RebuildLocks, DeleteLocks, ActivationLocks
     DEF Step
<1>4. CASE Environment
  BY <1>4, EnvironmentLocks
<1> QED BY <1>1, <1>2, <1>3, <1>4 DEF Next

\* Nothing is locked and no command runs at first.
LEMMA LockInit == Init => LockInv
BY DEF Init, LockInv, NobodyWaitsHolding, CommandAt, Holding, Locked, InstallAt, DeleteAt,
       UnwindAt, NoJob
-----------------------------------------------------------------------------
(* How far a step of one command reaches: the other proofs need it to see that it *)
(* leaves the rest of the host alone.                                             *)

Unmoved(n) ==
  /\ spec'[n] = spec[n] /\ current'[n] = current[n] /\ root'[n] = root[n]
  /\ n \in hosts' <=> n \in hosts

\* A step of p leaves the other processes and their locks alone, ...
Elsewhere(p) ==
  \A q \in Proc \ {p} :
    /\ pc'[q] = pc[q]
    /\ job'[q] = job[q]
    /\ \A n \in Name : <<n, q>> \in lock => <<n, q>> \in lock'

\* ... what p is and works on, until it is gone, ...
StaysItself(p) ==
  \/ job'[p] = NoJob /\ pc'[p] = "idle"
  \/ /\ job'[p].name = job[p].name /\ job'[p].id = job[p].id
     /\ job'[p].cmd \in {job[p].cmd} \cup
          (IF job[p].cmd = "rebuild" THEN {"rollback", "restart"} ELSE {})

\* ... and all sandboxes but that one, which only a command that works on it, under
\* its lock or in an unwind, changes, and only a removal or an unwind takes away.
Reaches(p) ==
  \A n \in Name :
    /\ n # job[p].name \/ ~Works(p) \/ (<<n, p>> \notin lock /\ pc[p] \notin UnwindAt)
       => Unmoved(n)
    /\ pc[p] \notin DeleteAt \cup UnwindAt => spec'[n] = spec[n]

\* What a command does reaches no further than that.
LEMMA StepReach ==
  ASSUME TypeOK, LockInv, NEW p \in Proc,
         Step(p) \/ ConfirmRefuses(p) \/ Fail(p) \/ Crash(p)
  PROVE  Elsewhere(p) /\ StaysItself(p) /\ Reaches(p)
<1> USE DEF TypeOK, LockInv, CommandAt, Holding, Locked, Works, Unmoved, Elsewhere,
      StaysItself, Reaches, NoJob, InstallAt, DeleteAt, UnwindAt, FinishedAt, Goto,
      disk, host
<1>1. CASE Lock(p)
  BY <1>1 DEF Lock, AfterLock
<1>2. CASE PeekCredentials(p)
  BY <1>2 DEF PeekCredentials
<1>3. CASE CreateVmDir(p)
  BY <1>3 DEF CreateVmDir, MakeDir
<1>4. CASE CreateCredentials(p)
  BY <1>4 DEF CreateCredentials
<1>5. CASE EnsureKnownHosts(p)
  BY <1>5 DEF EnsureKnownHosts
<1>6. CASE UnwindVmDir(p)
  BY <1>6 DEF UnwindVmDir, RemoveVmDir
<1>7. CASE UnwindCurrentRoot(p)
  BY <1>7 DEF UnwindCurrentRoot, RemoveRoot
<1>8. CASE UnwindPreviousRoot(p)
  BY <1>8 DEF UnwindPreviousRoot, RemoveRoot
<1>9. CASE UnwindKnownHosts(p)
  BY <1>9 DEF UnwindKnownHosts, ForgetKnownHosts
<1>10. CASE UnwindCredentials(p)
  BY <1>10 DEF UnwindCredentials, RemoveCredentials
<1>11. CASE UnwindSpec(p)
  BY <1>11 DEF UnwindSpec, RemoveSpec
<1>12. CASE UnwindSwallows(p)
  BY <1>12 DEF UnwindSwallows
<1>13. ASSUME NEW input \in Input, Realise(p, input) 
            PROVE Elsewhere(p) /\ StaysItself(p) /\ Reaches(p)
  BY <1>13 DEF Realise
<1>14. CASE EnsureVmDir(p)
  BY <1>14 DEF EnsureVmDir, MakeDir
<1>15. CASE RootPrevious(p)
  BY <1>15 DEF RootPrevious
<1>16. CASE RootCurrent(p)
  BY <1>16 DEF RootCurrent
<1>17. CASE MoveCurrent(p)
  BY <1>17 DEF MoveCurrent
<1>18. CASE MoveCurrentRaises(p)
  BY <1>18 DEF MoveCurrentRaises, Raise, Unlocked
<1>19. CASE ReadInstalled(p)
  BY <1>19 DEF ReadInstalled
<1>20. CASE UpToDate(p)
  BY <1>20 DEF UpToDate
<1>21. CASE RollBack(p)
  BY <1>21 DEF RollBack
<1>22. CASE NothingToRollBackTo(p)
  BY <1>22 DEF NothingToRollBackTo
<1>23. CASE Act(p)
  BY <1>23 DEF Act, Activated, Boot
<1>24. CASE ActFails(p)
  BY <1>24 DEF ActFails, NotActivated
<1>25. CASE Confirm(p)
  BY <1>25 DEF Confirm, Activated
<1>26. CASE ConfirmFails(p)
  BY <1>26 DEF ConfirmFails, NotActivated
<1>27. CASE ConfirmRefuses(p)
  BY <1>27 DEF ConfirmRefuses, NotActivated
<1>28. CASE DeleteVmDir(p)
  BY <1>28 DEF DeleteVmDir, RemoveVmDir
<1>29. CASE DeleteCurrentRoot(p)
  BY <1>29 DEF DeleteCurrentRoot, RemoveRoot
<1>30. CASE DeletePreviousRoot(p)
  BY <1>30 DEF DeletePreviousRoot, RemoveRoot
<1>31. CASE DeleteKnownHosts(p)
  BY <1>31 DEF DeleteKnownHosts, ForgetKnownHosts
<1>32. CASE DeleteCredentials(p)
  BY <1>32 DEF DeleteCredentials, RemoveCredentials
<1>33. CASE DeleteSpec(p)
  BY <1>33 DEF DeleteSpec, RemoveSpec
<1>34. CASE Exit(p)
  BY <1>34 DEF Exit, Unlocked, NoJob
<1>35. CASE Fail(p)
  BY <1>35 DEF Fail, Raise, Unlocked
<1>36. CASE Crash(p)
  BY <1>36 DEF Crash, Unlocked, NoJob
<1>37. CASE UnwindLooks(p)
  BY <1>37 DEF UnwindLooks
<1>. QED
  BY <1>1, <1>2, <1>3, <1>4, <1>5, <1>6, <1>7, <1>8, <1>9, <1>10, <1>11, <1>12,
       <1>13, <1>14, <1>15, <1>16, <1>17, <1>18, <1>19, <1>20, <1>21, <1>22, <1>23,
       <1>24, <1>25, <1>26, <1>27, <1>28, <1>29, <1>30, <1>31, <1>32, <1>33, <1>34,
       <1>35, <1>36, <1>37
     DEF Step, Build, CreateStep, InstallStep, RebuildStep, ActivationStep, DeleteStep

\* A command begins outside every lock, with nothing built yet, and either takes a free
\* name with its create or finds the spec of its sandbox.
Begun(p, n) ==
  /\ Elsewhere(p)
  /\ UNCHANGED <<disk, host, lock>>
  /\ pc[p] = "idle" /\ pc'[p] \in {"peek", "build", "lock", "act"}
  /\ job'[p].name = n /\ job'[p].runner = NoRunner /\ job'[p].old = NoRunner
  /\ job'[p].cmd \in Commands /\ job'[p].cmd # "rollback"
  /\ \/ /\ job'[p].cmd = "create" /\ ~Exists(n)
        /\ job'[p].id # NoId /\ spec' = [spec EXCEPT ![n] = job'[p].id]
     \/ /\ job'[p].cmd # "create" /\ Exists(n) /\ UNCHANGED spec
        /\ job'[p].cmd \in {"rebuild", "build"} => job'[p].id = spec[n]

\* Every command begins so.
LEMMA BeginsReach ==
  ASSUME TypeOK, NEW p \in Proc, NEW n \in Name, Begins(p, n)
  PROVE  Begun(p, n)
<1> USE DEF TypeOK, Begun, Elsewhere, Begin, Goto, NoJob, Exists, disk, host
<1>1. CASE Reserve(p, n)
  <2>1. lastId + 1 # NoId
    BY DEF NoId
  <2> QED BY <1>1, <2>1 DEF Reserve
<1>2. ASSUME NEW wait \in BOOLEAN, Start(p, n, wait) PROVE Begun(p, n)
  BY <1>2 DEF Start
<1>3. ASSUME NEW wait \in BOOLEAN, Restart(p, n, wait) PROVE Begun(p, n)
  BY <1>3 DEF Restart
<1>4. CASE Stop(p, n)
  BY <1>4 DEF Stop
<1>5. ASSUME NEW restart \in {"auto", "yes", "no"}, NEW wait \in BOOLEAN, Rebuild(p, n, restart, wait) PROVE Begun(p, n)
  BY <1>5 DEF Rebuild
<1>6. CASE BuildInstall(p, n)
  BY <1>6 DEF BuildInstall
<1>7. ASSUME NEW keep \in BOOLEAN, Delete(p, n, keep) PROVE Begun(p, n)
  BY <1>7 DEF Delete
<1>. QED
  BY <1>1, <1>2, <1>3, <1>4, <1>5, <1>6, <1>7 DEF Begins, Waits

\* Guests, systemd, collections and enrolments touch none of it.
LEMMA EnvironmentReach ==
  Environment => UNCHANGED <<spec, current, root, hosts, lock, pc, job>>
BY DEF Environment, CollectGarbage, Die, StartAgain, Enrol, disk, host
-----------------------------------------------------------------------------
\* Type correctness of the whole host, and why its locks exclude (LockInv).
THEOREM Invariance == Spec => [](TypeOK /\ LockInv)
<1>1. Init => TypeOK /\ LockInv
  BY TypeInit, LockInit
<1>2. TypeOK /\ LockInv /\ [Next]_vars => TypeOK' /\ LockInv'
  BY TypeStep, LockStep
<1> QED BY <1>1, <1>2, PTL DEF Spec

\* The state the commands share keeps its types (Store, build, systemd).
THEOREM TypeCorrect == Spec => []TypeOK
  BY Invariance, PTL

\* One command at a time in the locked section of a sandbox (state.file_lock).
THEOREM OneWriterAlways == Spec => []OneWriter
<1>1. LockInv => OneWriter
  BY DEF LockInv, OneWriter, Holding, Locked, InstallAt, DeleteAt
<1> QED BY <1>1, Invariance, PTL

\* No hold and wait: a lock is held by a command on its own sandbox that is past
\* waiting, and is free again when the command fails, ends or is killed
\* (state.file_lock, lifecycle.create).
THEOREM NobodyWaits == Spec => []NobodyWaitsHolding
<1>1. LockInv => NobodyWaitsHolding
  BY DEF LockInv
<1> QED BY <1>1, Invariance, PTL
=============================================================================
