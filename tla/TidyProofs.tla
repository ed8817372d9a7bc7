------------------------------ MODULE TidyProofs ------------------------------
(***************************************************************************)
(* What Lifecycle.tla promises of what is left of a sandbox, for any       *)
(* number of processes, names and inputs, whatever fails or is killed: it  *)
(* belongs to the spec under its name.  Commands may overlap, but a delete *)
(* in its removals and a failed create in its unwind must be alone with    *)
(* their sandbox, and the removals of an unwind must not fail: neither     *)
(* holds of the code by itself (MCNoOrphans).                              *)
(***************************************************************************)
EXTENDS LifecycleProofs

\* What TidyInv says of one process is not disturbed by another: the other works on
\* another sandbox, or takes nothing away, or this one is not at work.
LEMMA Aside ==
  ASSUME TypeOK, LockInv, NEW n \in Name, OrderlyRemoval(n),
         NEW p \in Proc, NEW q \in Proc \ {p}, job[q].name = n,
         Elsewhere(p), Reaches(p), Keeps(q), Removed(q)
  PROVE  Keeps(q)' /\ Removed(q)'
<1>1. pc'[q] = pc[q] /\ job'[q] = job[q]
  BY DEF Elsewhere
<1>2. CASE Unmoved(n)
  BY <1>1, <1>2 DEF Keeps, Removed, Exists, Unmoved
<1>3. CASE ~Works(q)
  BY <1>1, <1>3 DEF Keeps, Removed, Works, LockInv, CommandAt, InstallAt, DeleteAt,
                    UnwindAt
<1>4. CASE ~Unmoved(n) /\ Works(q)
  <2>1. job[p].name = n /\ Works(p)
    BY <1>4 DEF Reaches
  <2>2. pc[p] \notin DeleteAt \cup UnwindAt /\ pc[q] \notin DeleteAt \cup UnwindAt
    BY <1>4, <2>1 DEF OrderlyRemoval, OrderlyUnwind, Alone
  <2>3. spec'[n] = spec[n]
    BY <2>2 DEF Reaches
  <2>. QED
    BY <1>1, <2>2, <2>3 DEF Keeps, Removed, Exists, DeleteAt, UnwindAt
<1>. QED
  BY <1>2, <1>3, <1>4

\* Every step of a command leaves its sandbox tidy.
LEMMA StepTidies ==
  ASSUME TypeOK, LockInv, NEW p \in Proc, NEW n \in Name, job[p].name = n,
         pc[p] \in UnwindAt => ~RemovalsFail, Matches(n), Keeps(p), Removed(p),
         Step(p) \/ ConfirmRefuses(p) \/ Fail(p) \/ Crash(p)
  PROVE  Matches(n)' /\ Keeps(p)' /\ Removed(p)'
<1> DEFINE Tidy == Matches(n) /\ Keeps(p) /\ Removed(p)
<1> USE DEF TypeOK, LockInv, CommandAt, Matches, Bare, Keeps, Removed, Exists,
      Installed, InstallAt, DeleteAt, UnwindAt, FinishedAt, Slot, Goto, disk, host
<1>1. CASE Lock(p)
  BY <1>1 DEF Lock, AfterLock
<1>2. CASE PeekCredentials(p)
  BY <1>2 DEF PeekCredentials
<1>3. CASE CreateVmDir(p)
  BY <1>3 DEF CreateVmDir, MakeDir
<1>4. CASE CreateCredentials(p)
  BY <1>4 DEF CreateCredentials
<1>5. CASE EnsureKnownHosts(p)
  BY <1>5 DEF EnsureKnownHosts
<1>6. CASE UnwindVmDir(p)
  BY <1>6 DEF UnwindVmDir, RemoveVmDir
<1>7. CASE UnwindCurrentRoot(p)
  BY <1>7 DEF UnwindCurrentRoot, RemoveRoot
<1>8. CASE UnwindPreviousRoot(p)
  BY <1>8 DEF UnwindPreviousRoot, RemoveRoot
<1>9. CASE UnwindKnownHosts(p)
  BY <1>9 DEF UnwindKnownHosts, ForgetKnownHosts
<1>10. CASE UnwindCredentials(p)
  BY <1>10 DEF UnwindCredentials, RemoveCredentials
<1>11. CASE UnwindSpec(p)
  BY <1>11 DEF UnwindSpec, RemoveSpec
<1>12. CASE UnwindSwallows(p)
  BY <1>12 DEF UnwindSwallows
<1>13. ASSUME NEW input \in Input, Realise(p, input) PROVE Tidy'
  <2>1. /\ job'[p].cmd = job[p].cmd /\ job'[p].name = job[p].name /\ job'[p].id = job[p].id
        /\ job'[p].runner.id = job[p].id
    BY <1>13 DEF Realise, Job
  <2>2. /\ pc[p] = "build" /\ pc'[p] \in {"install", "lock"}
        /\ UNCHANGED <<spec, current, root, hosts>>
    BY <1>13 DEF Realise
  <2>. QED
    BY <2>1, <2>2
<1>14. CASE EnsureVmDir(p)
  BY <1>14 DEF EnsureVmDir, MakeDir
<1>15. CASE RootPrevious(p)
  BY <1>15 DEF RootPrevious
<1>16. CASE RootCurrent(p)
  BY <1>16 DEF RootCurrent
<1>17. CASE MoveCurrent(p)
  BY <1>17, RunnerIsNoDir DEF MoveCurrent, Job
<1>18. CASE MoveCurrentRaises(p)
  BY <1>18 DEF MoveCurrentRaises, Raise, Unlocked
<1>19. CASE ReadInstalled(p)
  BY <1>19 DEF ReadInstalled
<1>20. CASE UpToDate(p)
  <2>1. job'[p].cmd = "restart" /\ job'[p].name = n
    BY <1>20 DEF UpToDate, Job
  <2>2. /\ pc[p] = "read" /\ pc'[p] \in {"act", "done"}
        /\ UNCHANGED <<spec, current, root, hosts>>
    BY <1>20 DEF UpToDate
  <2>. QED
    BY <2>1, <2>2
<1>21. CASE RollBack(p)
  <2>1. /\ job'[p].cmd = "rollback" /\ job'[p].name = n /\ job'[p].id = job[p].id
        /\ job'[p].runner = root[n]["previous"]
    BY <1>21 DEF RollBack, Job
  <2>2. /\ pc[p] = "roll" /\ pc' = [pc EXCEPT ![p] = "install"]
        /\ UNCHANGED <<spec, current, root, hosts>>
    BY <1>21 DEF RollBack
  <2>. QED
    BY <2>1, <2>2
<1>22. CASE NothingToRollBackTo(p)
  BY <1>22 DEF NothingToRollBackTo
<1>23. CASE Act(p)
  BY <1>23 DEF Act, Activated, Boot
<1>24. CASE ActFails(p)
  BY <1>24 DEF ActFails, NotActivated
<1>25. CASE Confirm(p)
  BY <1>25 DEF Confirm, Activated
<1>26. CASE ConfirmFails(p)
  BY <1>26 DEF ConfirmFails, NotActivated
<1>27. CASE ConfirmRefuses(p)
  BY <1>27 DEF ConfirmRefuses, NotActivated
<1>28. CASE DeleteVmDir(p)
  BY <1>28 DEF DeleteVmDir, RemoveVmDir
<1>29. CASE DeleteCurrentRoot(p)
  BY <1>29 DEF DeleteCurrentRoot, RemoveRoot
<1>30. CASE DeletePreviousRoot(p)
  BY <1>30 DEF DeletePreviousRoot, RemoveRoot
<1>31. CASE DeleteKnownHosts(p)
  BY <1>31 DEF DeleteKnownHosts, ForgetKnownHosts
<1>32. CASE DeleteCredentials(p)
  BY <1>32 DEF DeleteCredentials, RemoveCredentials
<1>33. CASE DeleteSpec(p)
  BY <1>33 DEF DeleteSpec, RemoveSpec
<1>34. CASE Exit(p)
  BY <1>34 DEF Exit, Unlocked, NoJob
<1>35. CASE Fail(p)
  BY <1>35 DEF Fail, Raise, Unlocked
<1>36. CASE Crash(p)
  BY <1>36 DEF Crash, Unlocked, NoJob
<1>37. CASE UnwindLooks(p)
  BY <1>37 DEF UnwindLooks
<1>. QED
  BY <1>1, <1>2, <1>3, <1>4, <1>5, <1>6, <1>7, <1>8, <1>9, <1>10, <1>11, <1>12,
       <1>13, <1>14, <1>15, <1>16, <1>17, <1>18, <1>19, <1>20, <1>21, <1>22, <1>23,
       <1>24, <1>25, <1>26, <1>27, <1>28, <1>29, <1>30, <1>31, <1>32, <1>33, <1>34,
       <1>35, <1>36, <1>37
     DEF Step, Build, CreateStep, InstallStep, RebuildStep, ActivationStep, DeleteStep

\* Whatever step is taken, by whomever, what is left of one sandbox is tidy.
LEMMA TidyStep ==
  ASSUME TypeOK, LockInv, NEW n \in Name, OrderlyRemoval(n), TidyAt(n), [Next]_vars
  PROVE  TidyAt(n)'
<1>1. ASSUME UNCHANGED <<spec, current, root, hosts, pc, job>> PROVE TidyAt(n)'
  BY <1>1 DEF TidyAt, Matches, Bare, Keeps, Removed, Exists, Installed
<1>2. ASSUME NEW p \in Proc, Elsewhere(p), Reaches(p), Matches(n)',
             job'[p].name = n => Keeps(p)' /\ Removed(p)'
      PROVE  TidyAt(n)'
  <2>1. ASSUME NEW q \in Proc, job'[q].name = n PROVE Keeps(q)' /\ Removed(q)'
    <3>1. CASE q = p
      BY <1>2, <2>1, <3>1
    <3>2. CASE q # p
      <4>1. job[q].name = n
        BY <1>2, <2>1, <3>2 DEF Elsewhere
      <4>2. Keeps(q) /\ Removed(q)
        BY <4>1 DEF TidyAt
      <4>. QED
        BY <1>2, <3>2, <4>1, <4>2, Aside
    <3>. QED
      BY <3>1, <3>2
  <2>. QED
    BY <1>2, <2>1 DEF TidyAt
<1>3. ASSUME NEW p \in Proc, NEW m \in Name, Begins(p, m) PROVE TidyAt(n)'
  <2>1. Begun(p, m)
    BY <1>3, BeginsReach
  <2>2. UNCHANGED <<current, root, hosts>>
    BY <2>1 DEF Begun, disk
  <2>3. spec'[n] = spec[n] \/ (~Exists(n) /\ Exists(n)' /\ n = m)
    BY <2>1 DEF Begun, Exists, TypeOK
  <2>4. Matches(n)'
    BY <2>2, <2>3 DEF TidyAt, Matches, Bare, Exists, Installed
  <2>5. job'[p].name = n => Keeps(p)' /\ Removed(p)'
    BY <2>1 DEF Begun, Keeps, Removed, Exists, TypeOK
  <2>6. ASSUME NEW q \in Proc, q # p, job'[q].name = n PROVE Keeps(q)' /\ Removed(q)'
    BY <2>1, <2>2, <2>3, <2>6 DEF Begun, Elsewhere, TidyAt, Keeps, Removed, Exists
  <2>. QED
    BY <2>4, <2>5, <2>6 DEF TidyAt
<1>4. ASSUME NEW p \in Proc, Step(p) \/ ConfirmRefuses(p) \/ Fail(p) \/ Crash(p)
      PROVE  TidyAt(n)'
  <2>1. Elsewhere(p) /\ StaysItself(p) /\ Reaches(p)
    BY <1>4, StepReach
  <2>2. CASE job[p].name = n
    <3>1. /\ pc[p] \in UnwindAt => ~RemovalsFail
          /\ Matches(n) /\ Keeps(p) /\ Removed(p)
      BY <2>2 DEF OrderlyRemoval, OrderlyUnwind, TidyAt
    <3>2. Matches(n)' /\ Keeps(p)' /\ Removed(p)'
      BY <1>4, <2>2, <3>1, StepTidies
    <3>. QED
      BY <1>2, <2>1, <3>2
  <2>3. CASE job[p].name # n
    <3>1. Unmoved(n)
      BY <2>1, <2>3 DEF Reaches
    <3>2. Matches(n)'
      BY <3>1 DEF Unmoved, TidyAt, Matches, Bare, Exists, Installed
    <3>3. job'[p].name = n => Keeps(p)' /\ Removed(p)'
      BY <2>1, <2>3 DEF StaysItself, NoJob, Keeps, Removed
    <3>. QED
      BY <1>2, <2>1, <3>2, <3>3
  <2>. QED
    BY <2>2, <2>3
<1>5. ASSUME Environment \/ UNCHANGED vars
      PROVE  UNCHANGED <<spec, current, root, hosts, pc, job>>
  BY <1>5, EnvironmentReach DEF vars, disk
<1>. QED
  BY <1>1, <1>3, <1>4, <1>5 DEF Next

\* The sandboxes there are at first are tidy.
LEMMA TidyStarts == ASSUME Init, NEW n \in Name PROVE TidyAt(n)
<1>1. pc = [p \in Proc |-> "idle"] /\ job = [p \in Proc |-> NoJob]
  BY DEF Init
<1>2. PICK ids \in [Existing -> 1 .. Cardinality(Existing)], inputs \in [Existing -> Input] :
        LET installed == [m \in Existing |-> [id |-> ids[m], input |-> inputs[m]]] IN
        /\ spec = [m \in Name |-> IF m \in Existing THEN ids[m] ELSE NoId]
        /\ current = [m \in Name |-> IF m \in Existing THEN installed[m] ELSE NoDir]
        /\ root = [m \in Name |->
                     [slot \in Slot |-> IF m \in Existing /\ slot = "current"
                                        THEN installed[m] ELSE NoRunner]]
        /\ hosts = Existing
  BY DEF Init
<1>3. n \in Existing => ids[n] # NoId
  BY DEF NoId
<1>4. Matches(n)
  BY <1>2, <1>3 DEF Matches, Bare, Exists, Installed, Slot
<1>. QED
  BY <1>1, <1>4 DEF TidyAt, Keeps, Removed, NoJob

\* What the invariant is for.
LEMMA TidyShows == TidyInv => NoOrphans /\ InstalledMatchesSpec
BY DEF TidyInv, TidyAt, Matches, NoOrphans, InstalledMatchesSpec
-----------------------------------------------------------------------------
\* What is left of one sandbox belongs to it as long as its own removals and unwinds
\* are in order, whatever becomes of the others.
THEOREM TidyPerSandbox ==
  ASSUME NEW n \in Name
  PROVE  Spec /\ []OrderlyRemoval(n) => []TidyAt(n)
<1>1. Init => TidyAt(n)
  BY TidyStarts
<1>2. TypeOK /\ LockInv /\ OrderlyRemoval(n) /\ TidyAt(n) /\ [Next]_vars => TidyAt(n)'
  BY TidyStep
<1>. QED
  BY <1>1, <1>2, Invariance, PTL DEF Spec

\* The invariant of all sandboxes at once, where all of them are removed in order.
THEOREM TidyInvariance ==
  Spec /\ [](\A n \in Name : OrderlyRemoval(n)) => []TidyInv
<1> DEFINE Orderly == \A n \in Name : OrderlyRemoval(n)
<1>1. Init => TidyInv
  BY TidyStarts DEF TidyInv
<1>2. TypeOK /\ LockInv /\ Orderly /\ TidyInv /\ [Next]_vars => TidyInv'
  <2> SUFFICES ASSUME TypeOK, LockInv, Orderly, TidyInv, [Next]_vars, NEW n \in Name
               PROVE  TidyAt(n)'
    BY DEF TidyInv
  <2>. QED
    BY TidyStep DEF TidyInv
<1> HIDE DEF Orderly
<1>3. Spec /\ []Orderly => []TidyInv
  BY <1>1, <1>2, Invariance, PTL DEF Spec
<1>. QED
  BY <1>3 DEF Orderly

\* What a failed create or a delete killed at any point leaves behind can still be
\* addressed (lifecycle._unwind_create, lifecycle.delete).
THEOREM NothingOrphaned ==
  Spec /\ [](\A n \in Name : OrderlyRemoval(n)) => []NoOrphans
BY TidyInvariance, TidyShows, PTL

\* A sandbox never runs what was built for a deleted namesake (lifecycle.delete,
\* build.install_runner).
THEOREM RunnersMatchSpecs ==
  Spec /\ [](\A n \in Name : OrderlyRemoval(n)) => []InstalledMatchesSpec
BY TidyInvariance, TidyShows, PTL

OneAtATime == (\A p, q \in Proc : p = q) /\ ~RemovalsFail

\* One command after the other, each of which may fail or be killed anywhere, is in
\* order: an operator who waits for each command is never left with an orphan
\* (lifecycle._unwind_create, lifecycle.delete).
THEOREM TidyOneAtATime ==
  ASSUME OneAtATime
  PROVE  Spec => []NoOrphans /\ []InstalledMatchesSpec
<1> DEFINE Orderly == \A n \in Name : OrderlyRemoval(n)
<1>1. Orderly
  BY DEF OneAtATime, OrderlyRemoval, OrderlyUnwind, Alone
<1>2. Spec /\ []Orderly => []TidyInv
  BY TidyInvariance
<1> HIDE DEF Orderly
<1>. QED
  BY <1>1, <1>2, TidyShows, PTL
==============================================================================
