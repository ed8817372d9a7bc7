---------------------------- MODULE ReadinessProofs ----------------------------
(***************************************************************************)
(* What Readiness.tla promises, for any settle time, timeout, poll         *)
(* interval, delay and number of restarts.                                 *)
(***************************************************************************)
EXTENDS Readiness, TLAPS

USE TimesAssumption, InvocationsAssumption

\* The deadline and the comparison of two times.
LEMMA Times ==
  /\ Deadline \in Nat /\ End \in Nat
  /\ \A m, n \in Int : Larger(m, n) \in {m, n} /\ Larger(m, n) >= m /\ Larger(m, n) >= n
BY DEF Deadline, End, Larger

\* The call of confirm_running establishes the invariant.
LEMMA InitIInv == Init => IInv
<1> SUFFICES ASSUME Init PROVE IInv
  OBVIOUS
<1> USE Times DEF Init, Sub, None, Never, NoAnswer
<1>1. TypeOK
  BY DEF TypeOK, Unit, Answer, Ended
<1>2. InWindow /\ WatchesOne /\ SawWatched
  BY DEF InWindow, WatchesOne, SawWatched, SawRunning, Ended
<1>3. NoticedInTime
  BY DEF NoticedInTime, NoticedSince, SawRunning, Larger
<1>4. HeldForSettleTime /\ RefusedForAReason
  BY DEF HeldForSettleTime, RefusedForAReason
<1> QED BY <1>1, <1>2, <1>3, <1>4 DEF IInv

\* Systemd and other commands change the unit: what is watched is not disturbed.
LEMMA UnitStepIInv == ASSUME IInv, UnitStep PROVE IInv'
<1> USE Times DEF IInv, TypeOK, Unit, Sub, None, Never, UnitStep
<1>1. \/ unit'.inv = unit.inv + 1 /\ unit'.up = now
      \/ /\ unit.sub = "starting" /\ unit'.sub = "running"
         /\ unit'.inv = unit.inv /\ unit'.up = now
      \/ /\ unit'.sub \notin {"starting", "running"}
         /\ unit'.inv = unit.inv /\ unit'.up = unit.up
  <2>1. CASE Invoke
    BY <2>1 DEF Invoke
  <2>2. CASE ComeUp
    BY <2>2 DEF ComeUp
  <2>3. CASE GoDown
    BY <2>3 DEF GoDown
  <2> QED BY <2>1, <2>2, <2>3
<1>2. TypeOK'
  <2>1. CASE Invoke
    BY <2>1 DEF Invoke, Answer
  <2>2. CASE ComeUp
    BY <2>2 DEF ComeUp, Answer
  <2>3. CASE GoDown
    BY <2>3 DEF GoDown, Answer
  <2> QED BY <2>1, <2>2, <2>3
<1>3. InWindow'
  BY DEF InWindow
<1>4. WatchesOne'
  BY <1>1, <1>2 DEF WatchesOne
<1>5. SawWatched'
  BY <1>1, <1>2 DEF SawWatched, SawRunning, Answer
<1>6. NoticedInTime'
  BY <1>1, <1>2 DEF NoticedInTime, NoticedSince, SawRunning, InWindow, Ended, WatchesOne,
     Answer, SawWatched
<1>7. HeldForSettleTime' /\ RefusedForAReason'
  BY DEF HeldForSettleTime, RefusedForAReason, Ended
<1> QED BY <1>2, <1>3, <1>4, <1>5, <1>6, <1>7 DEF IInv

\* Time passes within the window of the command's next step.
LEMMA TickIInv == ASSUME IInv, Tick PROVE IInv'
<1> USE Times DEF IInv, TypeOK, Unit, Tick
<1>1. TypeOK'
  BY DEF Answer
<1>2. InWindow' /\ WatchesOne' /\ SawWatched'
  BY DEF InWindow, WatchesOne, SawWatched, SawRunning, Answer, Never, Ended
<1>3. NoticedInTime'
  BY DEF NoticedInTime, NoticedSince, SawRunning
<1>4. HeldForSettleTime' /\ RefusedForAReason'
  BY DEF HeldForSettleTime, RefusedForAReason, Ended
<1> QED BY <1>1, <1>2, <1>3, <1>4 DEF IInv

\* systemctl show answers, or not; what is new in an answer is up to date.
LEMMA ShowIInv == ASSUME IInv, Show PROVE IInv'
<1> USE Times DEF IInv, TypeOK, Unit, Sub, None, Never, Ended
<1>1. /\ pc = "show" /\ due' = now + Late
      /\ pc' \in {"failed", "died", "clock"}
      /\ UNCHANGED <<now, unit, invocation, stableSince, wake>>
  BY DEF Show
<1>2. \/ seen' = [sub |-> unit.sub, inv |-> unit.inv, up |-> unit.up, at |-> now]
           /\ blind' = blind
      \/ seen' = NoAnswer /\ blind' = now
  BY DEF Show
<1>3. pc' = "clock" =>
        ~(None \notin {invocation, seen'.inv} /\ seen'.inv # invocation)
  BY DEF Show, SeesRestart
<1>4. TypeOK'
  BY <1>1, <1>2 DEF NoAnswer, Answer
<1>5. InWindow'
  BY <1>1, <1>2 DEF InWindow, NoAnswer
<1>6. WatchesOne'
  BY <1>1 DEF WatchesOne
<1>7. SawWatched'
  BY <1>1, <1>2, <1>3 DEF SawWatched, SawRunning, WatchesOne, NoAnswer
<1>8. NoticedInTime'
  BY <1>1, <1>2, <1>4 DEF NoticedInTime, NoticedSince, SawRunning, NoAnswer, InWindow,
     WatchesOne, Larger
<1>9. HeldForSettleTime' /\ RefusedForAReason'
  BY <1>1 DEF HeldForSettleTime, RefusedForAReason
<1> QED BY <1>4, <1>5, <1>6, <1>7, <1>8, <1>9 DEF IInv

\* The clock is read: the command accepts, gives up or sleeps.
LEMMA ClockIInv == ASSUME IInv, Clock PROVE IInv'
<1> USE Times DEF IInv, TypeOK, Unit, Sub, None, Never, Ended
<1>1. /\ pc = "clock"
      /\ stableSince' = StableFrom
      /\ invocation' = IF seen.sub = "running" /\ invocation = None
                       THEN seen.inv ELSE invocation
      /\ UNCHANGED <<now, unit, seen, blind>>
  BY DEF Clock
<1>2. \/ pc' = "confirmed" /\ Settled /\ UNCHANGED <<wake, due>>
      \/ pc' = "refused" /\ ~Settled /\ now >= Deadline /\ UNCHANGED <<wake, due>>
      \/ pc' = "show" /\ ~Settled /\ now < Deadline /\ wake' = now + Poll
           /\ due' = now + Poll + Late
  BY DEF Clock, Accept, GiveUp, Sleep
<1>3. TypeOK'
  BY <1>1, <1>2 DEF Answer, StableFrom
<1>4. InWindow'
  BY <1>1, <1>2 DEF InWindow
<1>5. WatchesOne'
  BY <1>1 DEF WatchesOne, SawWatched, SawRunning, StableFrom, InWindow, Answer
<1>6. SawWatched'
  BY <1>1, <1>2 DEF SawWatched, SawRunning
<1>7. blind \in Int /\ seen.up \in Nat /\ seen.at \in Nat /\ unit.up \in Nat
  BY DEF Answer
<1>8. seen.sub = "running" =>
        /\ StableFrom \in Nat
        /\ StableFrom <= Larger(seen.up, blind) + Poll + 3 * Late
  BY <1>1, <1>7 DEF NoticedInTime, NoticedSince, SawRunning, StableFrom, InWindow, WatchesOne
<1>9. NoticedInTime'
  <2>1. SUFFICES ASSUME pc' = "show", unit.sub = "running"
                 PROVE  NoticedSince(unit.up, 2 * Late)'
    BY <1>1, <1>2 DEF NoticedInTime, SawRunning, NoticedSince
  <2>2. due' <= seen.at + Poll + 2 * Late
    BY <1>1, <1>2, <1>7, <2>1 DEF InWindow
  <2>3. CASE seen.sub = "running" /\ seen.inv = unit.inv
    BY <1>1, <1>8, <2>3 DEF NoticedSince, SawWatched, SawRunning
  <2>4. CASE seen.at <= Larger(unit.up, blind)
    BY <1>1, <1>2, <1>7, <2>1, <2>2, <2>4 DEF NoticedSince
  <2> QED BY <1>1, <2>1, <2>3, <2>4 DEF NoticedInTime
<1>10. HeldForSettleTime'
  BY <1>1, <1>2 DEF HeldForSettleTime, Settled, StableFrom, SawWatched, SawRunning,
     InWindow, Answer
<1>11. RefusedForAReason'
  BY <1>1, <1>2, <1>7, <1>8 DEF RefusedForAReason, Settled
<1> QED BY <1>3, <1>4, <1>5, <1>6, <1>9, <1>10, <1>11 DEF IInv

\* Every step keeps the invariant.
LEMMA StepIInv == IInv /\ [Next]_vars => IInv'
<1> SUFFICES ASSUME IInv, [Next]_vars PROVE IInv'
  OBVIOUS
<1>1. CASE UNCHANGED vars
  BY <1>1 DEF vars, IInv, TypeOK, InWindow, WatchesOne, SawWatched, NoticedInTime,
     NoticedSince, SawRunning, HeldForSettleTime, RefusedForAReason
<1> QED BY <1>1, UnitStepIInv, TickIInv, ShowIInv, ClockIInv DEF Next

-----------------------------------------------------------------------------
\* Types and timing of confirm_running (src/sandcastle/systemd.py).
THEOREM Invariance == Spec => []IInv
BY InitIInv, StepIInv, PTL DEF Spec

\* What confirm_running accepts has stayed up for the settle time, less one delay.
THEOREM Held == Spec => []HeldForSettleTime
<1>1. IInv => HeldForSettleTime
  BY DEF IInv
<1> QED BY <1>1, Invariance, PTL

\* What it refuses at the deadline came up too late, or could not be seen.
THEOREM Refused == Spec => []RefusedForAReason
<1>1. IInv => RefusedForAReason
  BY DEF IInv
<1> QED BY <1>1, Invariance, PTL

\* It waits no longer than the deadline, one poll and two delays.
THEOREM Bounded == Spec => []EndsInTime
<1>1. IInv => EndsInTime
  BY Times DEF IInv, TypeOK, InWindow, EndsInTime, End, Ended, Answer
<1> QED BY <1>1, Invariance, PTL
===============================================================================
