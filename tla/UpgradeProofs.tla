---------------------------- MODULE UpgradeProofs ----------------------------
(***************************************************************************)
(* What Lifecycle.tla promises of a rebuild and its rollback, for any      *)
(* number of processes, names and inputs: of each sandbox, as long as its  *)
(* failed creates unwind in order, and so of every sandbox of a host where *)
(* nothing is being created.  The unwind does not hold the sandbox's lock, *)
(* and without that order it does not hold (MCNoOrphans).                  *)
(***************************************************************************)
EXTENDS LifecycleProofs

Own(p) == Installs(p) /\ KeepsPrevious(p) /\ GoesBack(p)

\* What UpgradeInv says of one process is not disturbed by another: the other works
\* on another sandbox, or is kept out by the lock, or this one is not at work.
LEMMA Aside ==
  ASSUME TypeOK, LockInv, NEW n \in Name, OrderlyUnwind(n),
         NEW p \in Proc, NEW q \in Proc \ {p}, job[q].name = n,
         Elsewhere(p), Reaches(p), Own(q)
  PROVE  Own(q)'
<1>1. pc'[q] = pc[q] /\ job'[q] = job[q]
  BY DEF Elsewhere
<1>2. CASE Unmoved(n)
  BY <1>1, <1>2 DEF Own, Installs, KeepsPrevious, GoesBack, Installed, Unmoved
<1>3. CASE ~Works(q)
  BY <1>1, <1>3 DEF Own, Installs, KeepsPrevious, GoesBack, Works, LockInv, CommandAt,
                    InstallAt, DeleteAt, UnwindAt
<1>4. CASE ~Unmoved(n) /\ Works(q)
  <2>1. job[p].name = n /\ Works(p) /\ (<<n, p>> \in lock \/ pc[p] \in UnwindAt)
    BY <1>4 DEF Reaches
  <2>2. pc[p] \notin UnwindAt /\ pc[q] \notin UnwindAt
    BY <1>4, <2>1 DEF OrderlyUnwind, Alone
  <2>3. ~Holding(q)
    BY <2>1, <2>2 DEF LockInv
  <2>. QED
    BY <1>1, <2>2, <2>3 DEF Own, Installs, KeepsPrevious, GoesBack, Holding, Locked,
                            InstallAt, DeleteAt, UnwindAt
<1>. QED
  BY <1>2, <1>3, <1>4

\* Every step of a command keeps what UpgradeInv says of it.
LEMMA StepOwn ==
  ASSUME TypeOK, LockInv, NEW p \in Proc,
         pc[p] \in UnwindAt => ~RemovalsFail, Own(p),
         Step(p) \/ ConfirmRefuses(p) \/ Fail(p) \/ Crash(p)
  PROVE  Own(p)'
<1> USE DEF TypeOK, LockInv, CommandAt, Own, Installs, KeepsPrevious, GoesBack,
      Installed, Holding, Locked, InstallAt, DeleteAt, UnwindAt, FinishedAt, Slot,
      Goto, disk, host
<1>1. CASE Lock(p)
  BY <1>1 DEF Lock, AfterLock
<1>2. CASE PeekCredentials(p)
  BY <1>2 DEF PeekCredentials
<1>3. CASE CreateVmDir(p)
  BY <1>3 DEF CreateVmDir, MakeDir
<1>4. CASE CreateCredentials(p)
  BY <1>4 DEF CreateCredentials
<1>5. CASE EnsureKnownHosts(p)
  BY <1>5 DEF EnsureKnownHosts
<1>6. CASE UnwindVmDir(p)
  BY <1>6 DEF UnwindVmDir, RemoveVmDir
<1>7. CASE UnwindCurrentRoot(p)
  BY <1>7 DEF UnwindCurrentRoot, RemoveRoot
<1>8. CASE UnwindPreviousRoot(p)
  BY <1>8 DEF UnwindPreviousRoot, RemoveRoot
<1>9. CASE UnwindKnownHosts(p)
  BY <1>9 DEF UnwindKnownHosts, ForgetKnownHosts
<1>10. CASE UnwindCredentials(p)
  BY <1>10 DEF UnwindCredentials, RemoveCredentials
<1>11. CASE UnwindSpec(p)
  BY <1>11 DEF UnwindSpec, RemoveSpec
<1>12. CASE UnwindSwallows(p)
  BY <1>12 DEF UnwindSwallows
<1>13. ASSUME NEW input \in Input, Realise(p, input) PROVE Own(p)'
  BY <1>13 DEF Realise
<1>14. CASE EnsureVmDir(p)
  BY <1>14 DEF EnsureVmDir, MakeDir
<1>15. CASE RootPrevious(p)
  BY <1>15 DEF RootPrevious
<1>16. CASE RootCurrent(p)
  BY <1>16 DEF RootCurrent
<1>17. CASE MoveCurrent(p)
  <2>1. job[p].runner # NoDir /\ job[p].name \in Name
    BY <1>17, RunnerIsNoDir DEF MoveCurrent, Job
  <2>2. Installed(job[p].name)' = job[p].runner /\ UNCHANGED <<root, lock, job>>
    BY <1>17, <2>1 DEF MoveCurrent
  <2>3. pc[p] = "link" /\ pc'[p] \in {"act", "done"}
    BY <1>17 DEF MoveCurrent
  <2>. QED
    BY <2>2, <2>3
<1>18. CASE MoveCurrentRaises(p)
  BY <1>18 DEF MoveCurrentRaises, Raise, Unlocked
<1>19. CASE ReadInstalled(p)
  <2>1. /\ job'[p].cmd = job[p].cmd /\ job'[p].name = job[p].name
        /\ job'[p].runner = job[p].runner /\ job'[p].old = Installed(job[p].name)
    BY <1>19 DEF ReadInstalled, Job
  <2>2. /\ pc[p] = "read" /\ pc'[p] = "install" /\ UNCHANGED <<current, root, lock>>
        /\ Installed(job[p].name) # job[p].runner
    BY <1>19 DEF ReadInstalled
  <2>. QED
    BY <2>1, <2>2
<1>20. CASE UpToDate(p)
  BY <1>20 DEF UpToDate
<1>21. CASE RollBack(p)
  <2>1. /\ job'[p].cmd = "rollback" /\ job'[p].name = job[p].name
        /\ job'[p].runner = root[job[p].name]["previous"] /\ job'[p].old = job[p].old
    BY <1>21 DEF RollBack, Job
  <2>2. pc[p] = "roll" /\ pc'[p] = "install" /\ UNCHANGED <<current, root, lock>>
    BY <1>21 DEF RollBack
  <2>3. job[p].cmd = "rebuild" /\ <<job[p].name, p>> \in lock
    BY <2>2
  <2>. QED
    BY <2>1, <2>2, <2>3
<1>22. CASE NothingToRollBackTo(p)
  BY <1>22 DEF NothingToRollBackTo
<1>23. CASE Act(p)
  BY <1>23 DEF Act, Activated, Boot
<1>24. CASE ActFails(p)
  BY <1>24 DEF ActFails, NotActivated
<1>25. CASE Confirm(p)
  BY <1>25 DEF Confirm, Activated
<1>26. CASE ConfirmFails(p)
  BY <1>26 DEF ConfirmFails, NotActivated
<1>27. CASE ConfirmRefuses(p)
  BY <1>27 DEF ConfirmRefuses, NotActivated
<1>28. CASE DeleteVmDir(p)
  BY <1>28 DEF DeleteVmDir, RemoveVmDir
<1>29. CASE DeleteCurrentRoot(p)
  BY <1>29 DEF DeleteCurrentRoot, RemoveRoot
<1>30. CASE DeletePreviousRoot(p)
  BY <1>30 DEF DeletePreviousRoot, RemoveRoot
<1>31. CASE DeleteKnownHosts(p)
  BY <1>31 DEF DeleteKnownHosts, ForgetKnownHosts
<1>32. CASE DeleteCredentials(p)
  BY <1>32 DEF DeleteCredentials, RemoveCredentials
<1>33. CASE DeleteSpec(p)
  BY <1>33 DEF DeleteSpec, RemoveSpec
<1>34. CASE Exit(p)
  BY <1>34 DEF Exit, Unlocked, NoJob
<1>35. CASE Fail(p)
  BY <1>35 DEF Fail, Raise, Unlocked
<1>36. CASE Crash(p)
  BY <1>36 DEF Crash, Unlocked, NoJob
<1>37. CASE UnwindLooks(p)
  BY <1>37 DEF UnwindLooks
<1>. QED
  BY <1>1, <1>2, <1>3, <1>4, <1>5, <1>6, <1>7, <1>8, <1>9, <1>10, <1>11, <1>12,
       <1>13, <1>14, <1>15, <1>16, <1>17, <1>18, <1>19, <1>20, <1>21, <1>22, <1>23,
       <1>24, <1>25, <1>26, <1>27, <1>28, <1>29, <1>30, <1>31, <1>32, <1>33, <1>34,
       <1>35, <1>36, <1>37
     DEF Step, Build, CreateStep, InstallStep, RebuildStep, ActivationStep, DeleteStep

\* Every step of a command leaves the runner installed rooted.
LEMMA StepRooted ==
  ASSUME TypeOK, LockInv, NEW p \in Proc, NEW n \in Name, job[p].name = n,
         pc[p] \in UnwindAt => ~RemovalsFail, Own(p), RootedAt(n),
         Step(p) \/ ConfirmRefuses(p) \/ Fail(p) \/ Crash(p)
  PROVE  RootedAt(n)'
<1> USE DEF TypeOK, LockInv, Own, Installs, RootedAt, Installed, InstallAt,
      DeleteAt, UnwindAt, FinishedAt, Slot, Goto, disk, host
<1>1. CASE Lock(p)
  BY <1>1 DEF Lock, AfterLock
<1>2. CASE PeekCredentials(p)
  BY <1>2 DEF PeekCredentials
<1>3. CASE CreateVmDir(p)
  BY <1>3 DEF CreateVmDir, MakeDir
<1>4. CASE CreateCredentials(p)
  BY <1>4 DEF CreateCredentials
<1>5. CASE EnsureKnownHosts(p)
  BY <1>5 DEF EnsureKnownHosts
<1>6. CASE UnwindVmDir(p)
  BY <1>6 DEF UnwindVmDir, RemoveVmDir
<1>7. CASE UnwindCurrentRoot(p)
  BY <1>7 DEF UnwindCurrentRoot, RemoveRoot
<1>8. CASE UnwindPreviousRoot(p)
  BY <1>8 DEF UnwindPreviousRoot, RemoveRoot
<1>9. CASE UnwindKnownHosts(p)
  BY <1>9 DEF UnwindKnownHosts, ForgetKnownHosts
<1>10. CASE UnwindCredentials(p)
  BY <1>10 DEF UnwindCredentials, RemoveCredentials
<1>11. CASE UnwindSpec(p)
  BY <1>11 DEF UnwindSpec, RemoveSpec
<1>12. CASE UnwindSwallows(p)
  BY <1>12 DEF UnwindSwallows
<1>13. ASSUME NEW input \in Input, Realise(p, input) PROVE RootedAt(n)'
  BY <1>13 DEF Realise
<1>14. CASE EnsureVmDir(p)
  BY <1>14 DEF EnsureVmDir, MakeDir
<1>15. CASE RootPrevious(p)
  BY <1>15 DEF RootPrevious
<1>16. CASE RootCurrent(p)
  BY <1>16 DEF RootCurrent
<1>17. CASE MoveCurrent(p)
  BY <1>17 DEF MoveCurrent
<1>18. CASE MoveCurrentRaises(p)
  BY <1>18 DEF MoveCurrentRaises, Raise, Unlocked
<1>19. CASE ReadInstalled(p)
  BY <1>19 DEF ReadInstalled
<1>20. CASE UpToDate(p)
  BY <1>20 DEF UpToDate
<1>21. CASE RollBack(p)
  BY <1>21 DEF RollBack
<1>22. CASE NothingToRollBackTo(p)
  BY <1>22 DEF NothingToRollBackTo
<1>23. CASE Act(p)
  BY <1>23 DEF Act, Activated, Boot
<1>24. CASE ActFails(p)
  BY <1>24 DEF ActFails, NotActivated
<1>25. CASE Confirm(p)
  BY <1>25 DEF Confirm, Activated
<1>26. CASE ConfirmFails(p)
  BY <1>26 DEF ConfirmFails, NotActivated
<1>27. CASE ConfirmRefuses(p)
  BY <1>27 DEF ConfirmRefuses, NotActivated
<1>28. CASE DeleteVmDir(p)
  BY <1>28 DEF DeleteVmDir, RemoveVmDir
<1>29. CASE DeleteCurrentRoot(p)
  BY <1>29 DEF DeleteCurrentRoot, RemoveRoot
<1>30. CASE DeletePreviousRoot(p)
  BY <1>30 DEF DeletePreviousRoot, RemoveRoot
<1>31. CASE DeleteKnownHosts(p)
  BY <1>31 DEF DeleteKnownHosts, ForgetKnownHosts
<1>32. CASE DeleteCredentials(p)
  BY <1>32 DEF DeleteCredentials, RemoveCredentials
<1>33. CASE DeleteSpec(p)
  BY <1>33 DEF DeleteSpec, RemoveSpec
<1>34. CASE Exit(p)
  BY <1>34 DEF Exit, Unlocked, NoJob
<1>35. CASE Fail(p)
  BY <1>35 DEF Fail, Raise, Unlocked
<1>36. CASE Crash(p)
  BY <1>36 DEF Crash, Unlocked, NoJob
<1>37. CASE UnwindLooks(p)
  BY <1>37 DEF UnwindLooks
<1>. QED
  BY <1>1, <1>2, <1>3, <1>4, <1>5, <1>6, <1>7, <1>8, <1>9, <1>10, <1>11, <1>12,
       <1>13, <1>14, <1>15, <1>16, <1>17, <1>18, <1>19, <1>20, <1>21, <1>22, <1>23,
       <1>24, <1>25, <1>26, <1>27, <1>28, <1>29, <1>30, <1>31, <1>32, <1>33, <1>34,
       <1>35, <1>36, <1>37
     DEF Step, Build, CreateStep, InstallStep, RebuildStep, ActivationStep, DeleteStep

\* Whatever step is taken, by whomever, the invariant of one sandbox is kept.
LEMMA UpgradeStep ==
  ASSUME TypeOK, LockInv, NEW n \in Name, OrderlyUnwind(n), UpgradeAt(n), [Next]_vars
  PROVE  UpgradeAt(n)'
<1>1. ASSUME UNCHANGED <<current, root, pc, job>> PROVE UpgradeAt(n)'
  BY <1>1 DEF UpgradeAt, RootedAt, Installs, KeepsPrevious, GoesBack, Installed
<1>2. ASSUME NEW p \in Proc, Elsewhere(p), Reaches(p), job'[p].name = n => Own(p)',
             RootedAt(n)'
      PROVE  UpgradeAt(n)'
  <2>1. ASSUME NEW q \in Proc, job'[q].name = n PROVE Own(q)'
    <3>1. CASE q = p
      BY <1>2, <2>1, <3>1
    <3>2. CASE q # p
      <4>1. job[q].name = n
        BY <1>2, <2>1, <3>2 DEF Elsewhere
      <4>2. Own(q)
        BY <4>1 DEF UpgradeAt, Own
      <4>. QED
        BY <1>2, <3>2, <4>1, <4>2, Aside
    <3>. QED
      BY <3>1, <3>2
  <2>. QED
    BY <1>2, <2>1 DEF UpgradeAt, Own
<1>3. ASSUME NEW p \in Proc, NEW m \in Name, Begins(p, m) PROVE UpgradeAt(n)'
  <2>1. Begun(p, m)
    BY <1>3, BeginsReach
  <2>2. UNCHANGED <<current, root>>
    BY <2>1 DEF Begun, disk
  <2>3. RootedAt(n)'
    BY <2>2 DEF UpgradeAt, RootedAt, Installed
  <2>4. Own(p)'
    BY <2>1 DEF Begun, Own, Installs, KeepsPrevious, GoesBack
  <2>5. ASSUME NEW q \in Proc, q # p, job'[q].name = n PROVE Own(q)'
    BY <2>1, <2>2, <2>5 DEF Begun, Elsewhere, UpgradeAt, Own, Installs, KeepsPrevious,
                            GoesBack, Installed
  <2>. QED
    BY <2>3, <2>4, <2>5 DEF UpgradeAt, Own
<1>4. ASSUME NEW p \in Proc, Step(p) \/ ConfirmRefuses(p) \/ Fail(p) \/ Crash(p)
      PROVE  UpgradeAt(n)'
  <2>1. Elsewhere(p) /\ StaysItself(p) /\ Reaches(p)
    BY <1>4, StepReach
  <2>2. CASE job[p].name = n
    <3>1. (pc[p] \in UnwindAt => ~RemovalsFail) /\ Own(p) /\ RootedAt(n)
      BY <2>2 DEF OrderlyUnwind, UpgradeAt, Own
    <3>2. Own(p)' /\ RootedAt(n)'
      BY <1>4, <2>2, <3>1, StepOwn, StepRooted
    <3>. QED
      BY <1>2, <2>1, <3>2
  <2>3. CASE job[p].name # n
    <3>1. Unmoved(n)
      BY <2>1, <2>3 DEF Reaches
    <3>2. RootedAt(n)'
      BY <3>1 DEF Unmoved, UpgradeAt, RootedAt, Installed
    <3>3. job'[p].name = n => Own(p)'
      BY <2>1, <2>3 DEF StaysItself, NoJob, Own, Installs, KeepsPrevious, GoesBack
    <3>. QED
      BY <1>2, <2>1, <3>2, <3>3
  <2>. QED
    BY <2>2, <2>3
<1>5. ASSUME Environment \/ UNCHANGED vars PROVE UNCHANGED <<current, root, pc, job>>
  BY <1>5, EnvironmentReach DEF vars, disk
<1>. QED
  BY <1>1, <1>3, <1>4, <1>5 DEF Next

\* At first nothing runs, and every sandbox has its runner in its current root.
LEMMA UpgradeStarts == ASSUME Init, NEW n \in Name PROVE UpgradeAt(n)
<1>1. pc = [p \in Proc |-> "idle"] /\ job = [p \in Proc |-> NoJob]
  BY DEF Init
<1>2. PICK installed :
        /\ current = [m \in Name |-> IF m \in Existing THEN installed[m] ELSE NoDir]
        /\ root = [m \in Name |->
                     [slot \in Slot |-> IF m \in Existing /\ slot = "current"
                                        THEN installed[m] ELSE NoRunner]]
  BY DEF Init
<1>3. RootedAt(n)
  BY <1>2 DEF RootedAt, Installed, Slot
<1>. QED
  BY <1>1, <1>3 DEF UpgradeAt, Installs, KeepsPrevious, GoesBack, NoJob

\* What the invariant is for.
LEMMA UpgradeShows ==
  ASSUME LockInv, UpgradeInv
  PROVE  RunnerRooted /\ RollbackPossible /\ RollbackRestores
<1>1. ASSUME NEW p \in Proc, job[p].name \in Name PROVE Own(p)
  BY <1>1 DEF UpgradeInv, UpgradeAt, Own
<1>2. RollbackPossible
  BY <1>1 DEF LockInv, RollbackPossible, Own, KeepsPrevious
<1>3. RollbackRestores
  BY <1>1 DEF LockInv, CommandAt, RollbackRestores, Own, GoesBack
<1>. QED
  BY <1>2, <1>3 DEF UpgradeInv, UpgradeAt, RunnerRooted
-----------------------------------------------------------------------------
\* One sandbox's upgrades are in order as long as its own failed creates unwind in
\* order, whatever becomes of the others (state.file_lock, build.install_runner).
THEOREM UpgradePerSandbox ==
  ASSUME NEW n \in Name
  PROVE  Spec /\ []OrderlyUnwind(n) => []UpgradeAt(n)
<1>1. Init => UpgradeAt(n)
  BY UpgradeStarts
<1>2. TypeOK /\ LockInv /\ OrderlyUnwind(n) /\ UpgradeAt(n) /\ [Next]_vars => UpgradeAt(n)'
  BY UpgradeStep
<1>. QED
  BY <1>1, <1>2, Invariance, PTL DEF Spec

\* The invariant of all sandboxes at once, where all of them unwind in order.
THEOREM UpgradeInvariance ==
  Spec /\ [](\A n \in Name : OrderlyUnwind(n)) => [](LockInv /\ UpgradeInv)
<1> DEFINE Orderly == \A n \in Name : OrderlyUnwind(n)
<1>1. Init => UpgradeInv
  BY UpgradeStarts DEF UpgradeInv
<1>2. TypeOK /\ LockInv /\ Orderly /\ UpgradeInv /\ [Next]_vars => UpgradeInv'
  <2> SUFFICES ASSUME TypeOK, LockInv, Orderly, UpgradeInv, [Next]_vars, NEW n \in Name
               PROVE  UpgradeAt(n)'
    BY DEF UpgradeInv
  <2>. QED
    BY UpgradeStep DEF UpgradeInv
<1> HIDE DEF Orderly
<1>3. Spec /\ []Orderly => [](LockInv /\ UpgradeInv)
  BY <1>1, <1>2, Invariance, PTL DEF Spec
<1>. QED
  BY <1>3 DEF Orderly

\* A garbage collection never takes the runner that `current` leads to, whatever
\* creates, rebuilds, rollbacks, builds and deletes are under way or were cut short
\* (build.install_runner, lifecycle.delete).
THEOREM RunnersRooted == Spec /\ [](\A n \in Name : OrderlyUnwind(n)) => []RunnerRooted
BY UpgradeInvariance, UpgradeShows, PTL

\* While a rebuild tries its candidate, the runner it found stays the previous root
\* (lifecycle.rebuild, build.install_runner).
THEOREM RollbacksPossible ==
  Spec /\ [](\A n \in Name : OrderlyUnwind(n)) => []RollbackPossible
BY UpgradeInvariance, UpgradeShows, PTL

\* A rebuild that says it rolled back has put back the runner it found
\* (lifecycle._roll_back, build.rollback_runner).
THEOREM RollbacksRestore ==
  Spec /\ [](\A n \in Name : OrderlyUnwind(n)) => []RollbackRestores
BY UpgradeInvariance, UpgradeShows, PTL
-----------------------------------------------------------------------------
\* Where nobody creates there is no unwind, so none is out of order.
NoCreate == \A p \in Proc : job[p].cmd # "create"

LEMMA NoCreateStep ==
  ASSUME TypeOK, LockInv, NoCreate, "create" \notin Commands, [Next]_vars
  PROVE  NoCreate'
<1>1. ASSUME NEW p \in Proc, Elsewhere(p), job'[p].cmd # "create" PROVE NoCreate'
  BY <1>1 DEF Elsewhere, NoCreate
<1>2. ASSUME NEW p \in Proc, NEW n \in Name, Begins(p, n) PROVE NoCreate'
  BY <1>1, <1>2, BeginsReach DEF Begun
<1>3. ASSUME NEW p \in Proc, Step(p) \/ ConfirmRefuses(p) \/ Fail(p) \/ Crash(p)
      PROVE  NoCreate'
  BY <1>1, <1>3, StepReach DEF StaysItself, NoCreate, NoJob
<1>4. ASSUME Environment \/ UNCHANGED vars PROVE NoCreate'
  BY <1>4, EnvironmentReach DEF vars, NoCreate
<1>. QED
  BY <1>2, <1>3, <1>4 DEF Next

\* On a host where nobody creates, rebuilds and rollbacks are in order whatever else
\* goes on at the same time.
THEOREM UpgradeWithoutCreates ==
  ASSUME "create" \notin Commands
  PROVE  Spec => []RunnerRooted /\ []RollbackPossible /\ []RollbackRestores
<1> DEFINE Orderly == \A n \in Name : OrderlyUnwind(n)
<1>1. Init => NoCreate
  BY DEF Init, NoCreate, NoJob
<1>2. TypeOK /\ LockInv /\ NoCreate /\ [Next]_vars => NoCreate'
  BY NoCreateStep
<1>3. LockInv /\ NoCreate => Orderly
  BY DEF LockInv, CommandAt, NoCreate, OrderlyUnwind
<1>4. Spec /\ []Orderly => [](LockInv /\ UpgradeInv)
  BY UpgradeInvariance
<1> HIDE DEF Orderly
<1>. QED
  BY <1>1, <1>2, <1>3, <1>4, Invariance, UpgradeShows, PTL DEF Spec
==============================================================================
