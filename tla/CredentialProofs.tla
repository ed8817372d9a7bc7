--------------------------- MODULE CredentialProofs ---------------------------
(***************************************************************************)
(* That Lifecycle.tla spares the credentials, for any number of processes, *)
(* names and inputs, any commands and any failures.  It needs no lock, and *)
(* the unwind holds none: only an enrolment can come between its look and  *)
(* its removal, and then it is late.                                       *)
(***************************************************************************)
EXTENDS LifecycleProofs

Spared ==
  \A n \in Name : creds[n] # "absent" /\ creds'[n] = "absent" =>
    \E p \in Proc : MayTake(p, n)

\* No command enrols credentials.
Unfilled == \A n \in Name : creds'[n] = "filled" => creds[n] = "filled"

\* Every step of a command.
LEMMA StepSpares ==
  ASSUME TypeOK, LockInv, NEW p \in Proc, Careful(p),
         Step(p) \/ ConfirmRefuses(p) \/ Fail(p) \/ Crash(p)
  PROVE  Careful(p)' /\ Spared /\ Unfilled
<1> DEFINE Fine == Careful(p)' /\ Spared /\ Unfilled
<1> USE DEF TypeOK, LockInv, CommandAt, Careful, Spared, MayTake, Unfilled,
      InstallAt, DeleteAt, UnwindAt, FinishedAt, Goto, disk, host
<1>1. CASE Lock(p)
  BY <1>1 DEF Lock, AfterLock
<1>2. CASE PeekCredentials(p)
  BY <1>2 DEF PeekCredentials
<1>3. CASE CreateVmDir(p)
  BY <1>3 DEF CreateVmDir, MakeDir
<1>4. CASE CreateCredentials(p)
  BY <1>4 DEF CreateCredentials
<1>5. CASE EnsureKnownHosts(p)
  BY <1>5 DEF EnsureKnownHosts
<1>6. CASE UnwindVmDir(p)
  BY <1>6 DEF UnwindVmDir, RemoveVmDir
<1>7. CASE UnwindCurrentRoot(p)
  BY <1>7 DEF UnwindCurrentRoot, RemoveRoot
<1>8. CASE UnwindPreviousRoot(p)
  BY <1>8 DEF UnwindPreviousRoot, RemoveRoot
<1>9. CASE UnwindKnownHosts(p)
  BY <1>9 DEF UnwindKnownHosts, ForgetKnownHosts
<1>10. CASE UnwindCredentials(p)
  BY <1>10 DEF UnwindCredentials, RemoveCredentials
<1>11. CASE UnwindSpec(p)
  BY <1>11 DEF UnwindSpec, RemoveSpec
<1>12. CASE UnwindSwallows(p)
  BY <1>12 DEF UnwindSwallows
<1>13. ASSUME NEW input \in Input, Realise(p, input) PROVE Fine
  BY <1>13 DEF Realise
<1>14. CASE EnsureVmDir(p)
  BY <1>14 DEF EnsureVmDir, MakeDir
<1>15. CASE RootPrevious(p)
  BY <1>15 DEF RootPrevious
<1>16. CASE RootCurrent(p)
  BY <1>16 DEF RootCurrent
<1>17. CASE MoveCurrent(p)
  BY <1>17 DEF MoveCurrent
<1>18. CASE MoveCurrentRaises(p)
  BY <1>18 DEF MoveCurrentRaises, Raise, Unlocked
<1>19. CASE ReadInstalled(p)
  BY <1>19 DEF ReadInstalled
<1>20. CASE UpToDate(p)
  BY <1>20 DEF UpToDate
<1>21. CASE RollBack(p)
  BY <1>21 DEF RollBack
<1>22. CASE NothingToRollBackTo(p)
  BY <1>22 DEF NothingToRollBackTo
<1>23. CASE Act(p)
  BY <1>23 DEF Act, Activated, Boot
<1>24. CASE ActFails(p)
  BY <1>24 DEF ActFails, NotActivated
<1>25. CASE Confirm(p)
  BY <1>25 DEF Confirm, Activated
<1>26. CASE ConfirmFails(p)
  BY <1>26 DEF ConfirmFails, NotActivated
<1>27. CASE ConfirmRefuses(p)
  BY <1>27 DEF ConfirmRefuses, NotActivated
<1>28. CASE DeleteVmDir(p)
  BY <1>28 DEF DeleteVmDir, RemoveVmDir
<1>29. CASE DeleteCurrentRoot(p)
  BY <1>29 DEF DeleteCurrentRoot, RemoveRoot
<1>30. CASE DeletePreviousRoot(p)
  BY <1>30 DEF DeletePreviousRoot, RemoveRoot
<1>31. CASE DeleteKnownHosts(p)
  BY <1>31 DEF DeleteKnownHosts, ForgetKnownHosts
<1>32. CASE DeleteCredentials(p)
  BY <1>32 DEF DeleteCredentials, RemoveCredentials
<1>33. CASE DeleteSpec(p)
  BY <1>33 DEF DeleteSpec, RemoveSpec
<1>34. CASE Exit(p)
  BY <1>34 DEF Exit, Unlocked, NoJob
<1>35. CASE Fail(p)
  BY <1>35 DEF Fail, Raise, Unlocked
<1>36. CASE Crash(p)
  BY <1>36 DEF Crash, Unlocked, NoJob
<1>37. CASE UnwindLooks(p)
  BY <1>37 DEF UnwindLooks
<1>. QED
  BY <1>1, <1>2, <1>3, <1>4, <1>5, <1>6, <1>7, <1>8, <1>9, <1>10, <1>11, <1>12,
       <1>13, <1>14, <1>15, <1>16, <1>17, <1>18, <1>19, <1>20, <1>21, <1>22, <1>23,
       <1>24, <1>25, <1>26, <1>27, <1>28, <1>29, <1>30, <1>31, <1>32, <1>33, <1>34,
       <1>35, <1>36, <1>37
     DEF Step, Build, CreateStep, InstallStep, RebuildStep, ActivationStep, DeleteStep

\* The beginning of a command.
LEMMA BeginsSpare ==
  ASSUME TypeOK, NEW p \in Proc, NEW m \in Name, Begins(p, m)
  PROVE  Elsewhere(p) /\ Careful(p)' /\ Spared /\ Unfilled
<1>1. Begun(p, m)
  BY BeginsReach
<1>. QED
  BY <1>1 DEF Begun, Careful, Spared, Unfilled, disk

\* Every step of the host.
LEMMA CarefulStep ==
  ASSUME TypeOK, LockInv, \A p \in Proc : Careful(p), [Next]_vars
  PROVE  (\A p \in Proc : Careful(p))' /\ Spared
<1>1. ASSUME NEW p \in Proc, Elsewhere(p), Careful(p)', Unfilled
      PROVE  (\A q \in Proc : Careful(q))'
  <2>1. ASSUME NEW q \in Proc \ {p} PROVE Careful(q)'
    <3>1. pc'[q] = pc[q] /\ job'[q] = job[q] /\ Careful(q)
      BY <1>1, <2>1 DEF Elsewhere
    <3>2. pc[q] = "u_rmtree" => job[q].name \in Name
      BY DEF LockInv
    <3>. QED
      BY <1>1, <3>1, <3>2 DEF Careful, Unfilled
  <2>. QED
    BY <1>1, <2>1
<1>2. ASSUME NEW p \in Proc, NEW n \in Name, Begins(p, n)
      PROVE  (\A q \in Proc : Careful(q))' /\ Spared
  BY <1>1, <1>2, BeginsSpare
<1>3. ASSUME NEW p \in Proc, Step(p) \/ ConfirmRefuses(p) \/ Fail(p) \/ Crash(p)
      PROVE  (\A q \in Proc : Careful(q))' /\ Spared
  BY <1>1, <1>3, StepSpares, StepReach
<1>4. ASSUME UNCHANGED <<pc, job, creds>> PROVE (\A q \in Proc : Careful(q))' /\ Spared
  BY <1>4 DEF Careful, Spared
<1>5. ASSUME NEW n \in Name, Enrol(n)
      PROVE  (\A q \in Proc : Careful(q))' /\ Spared
  <2>1. /\ UNCHANGED <<pc, job>> /\ creds[n] = "empty"
        /\ creds' = [creds EXCEPT ![n] =
                       IF \E q \in Proc : pc[q] = "u_rmtree" /\ job[q].name = n
                       THEN "late" ELSE "filled"]
    BY <1>5 DEF Enrol
  <2>2. ASSUME NEW q \in Proc PROVE Careful(q)'
    BY <2>1, <2>2 DEF Careful, TypeOK
  <2>3. Spared
    BY <2>1 DEF Spared, TypeOK
  <2>. QED
    BY <2>2, <2>3
<1>6. ASSUME Environment, \A n \in Name : ~Enrol(n) PROVE UNCHANGED <<pc, job, creds>>
  BY <1>6 DEF Environment, CollectGarbage, Die, StartAgain, disk
<1>7. CASE UNCHANGED vars
  BY <1>4, <1>7 DEF vars, disk
<1>. QED
  BY <1>2, <1>3, <1>4, <1>5, <1>6, <1>7 DEF Next
-----------------------------------------------------------------------------
\* Credentials go only with a delete that is asked to remove them, or with the failed
\* create that found no directory and, when it looked again, an empty one; what was
\* enrolled before that look, or kept by a delete, stays, however the commands
\* overlap, fail and are killed (lifecycle._unwind_create, lifecycle.delete,
\* state.remove_credentials).
THEOREM CredentialsSpared == Spec => CredentialsKept
<1> DEFINE AllCareful == \A p \in Proc : Careful(p)
<1>1. Init => AllCareful
  <2> SUFFICES ASSUME Init, NEW p \in Proc PROVE Careful(p)
    OBVIOUS
  <2>1. pc[p] = "idle"
    BY DEF Init
  <2>. QED
    BY <2>1 DEF Careful, DeleteAt, UnwindAt
<1>2. TypeOK /\ LockInv /\ AllCareful /\ [Next]_vars => AllCareful' /\ [Spared]_vars
  BY CarefulStep
<1> HIDE DEF AllCareful
<1>3. Spec => [][Spared]_vars
  BY <1>1, <1>2, Invariance, PTL DEF Spec
<1>. QED
  BY <1>3 DEF CredentialsKept, Spared
==============================================================================
