------------------------------- MODULE Readiness -------------------------------
(***************************************************************************)
(* systemd.confirm_running: a command polls microvm@<name>.service until   *)
(* the unit has held one invocation for the settle time, is seen to have   *)
(* died, or the deadline passes.  Each poll is two steps, systemctl show   *)
(* and then the clock, and the unit changes between any two steps.         *)
(***************************************************************************)
EXTENDS Integers

CONSTANTS Settle,        \* settle
          Timeout,       \* timeout
          Poll,          \* POLL_INTERVAL_SECONDS
          Late,          \* how long after its earliest time a step may be taken
          MaxInvocation  \* bound on the starts of the unit

ASSUME TimesAssumption ==
  Settle \in Nat /\ Timeout \in Nat /\ Poll \in Nat \ {0} /\ Late \in Nat
ASSUME InvocationsAssumption == MaxInvocation \in Nat \ {0}

VARIABLES
  now,          \* the monotonic clock; confirm_running is called at 0
  unit,         \* the unit: sub state, invocation, and since when it is up
  pc,           \* "show", "clock", or how confirm_running ended
  seen,         \* latest, and when systemctl show answered
  invocation,   \* the first one that was seen running
  stableSince,
  wake, due,    \* the earliest and the latest time of the next step
  blind         \* when systemctl show last had no answer

vars == <<now, unit, pc, seen, invocation, stableSince, wake, due, blind>>

Sub == {"starting", "running", "dead", "auto-restart", "failed"}
None == 0
Never == -1
Ended == {"confirmed", "died", "failed", "refused"}

Larger(m, n) == IF m >= n THEN m ELSE n
Deadline == Larger(Timeout, Settle)
\* By then every call has ended.
End == Deadline + Poll + 2 * Late

Unit == [sub : Sub, inv : 1 .. MaxInvocation, up : Nat]
Answer == [sub : Sub \cup {"unknown"}, inv : 0 .. MaxInvocation, up : Nat, at : Nat]
NoAnswer == [sub |-> "unknown", inv |-> None, up |-> 0, at |-> now]

TypeOK ==
  /\ now \in Nat
  /\ unit \in Unit
  /\ pc \in {"show", "clock"} \cup Ended
  /\ seen \in Answer
  /\ invocation \in 0 .. MaxInvocation
  /\ stableSince \in Nat \cup {Never}
  /\ wake \in Nat /\ due \in Nat
  /\ blind \in Nat \cup {Never}

\* systemctl start or restart has returned; the guest may have died already.
Init ==
  /\ now = 0
  /\ unit \in {[sub |-> sub, inv |-> 1, up |-> 0] : sub \in Sub}
  /\ pc = "show"
  /\ seen = NoAnswer
  /\ invocation = None
  /\ stableSince = Never
  /\ wake = 0 /\ due = Late
  /\ blind = Never
-----------------------------------------------------------------------------
(* The unit *)

\* systemd or another command starts the unit, running or not: a new invocation.
Invoke ==
  /\ unit.inv < MaxInvocation
  /\ \E sub \in {"starting", "running"} :
       unit' = [sub |-> sub, inv |-> unit.inv + 1, up |-> now]

ComeUp ==
  /\ unit.sub = "starting"
  /\ unit' = [unit EXCEPT !.sub = "running", !.up = now]

GoDown ==
  /\ unit.sub \notin {"dead", "failed"}
  /\ \E sub \in {"dead", "auto-restart", "failed"} \ {unit.sub} :
       unit' = [unit EXCEPT !.sub = sub]

UnitStep ==
  /\ pc \notin Ended
  /\ Invoke \/ ComeUp \/ GoDown
  /\ UNCHANGED <<now, pc, seen, invocation, stableSince, wake, due, blind>>

\* The clock, which the next step of the command does not let pass `due`.
Tick ==
  /\ pc \notin Ended
  /\ now < due
  /\ now' = now + 1
  /\ UNCHANGED <<unit, pc, seen, invocation, stableSince, wake, due, blind>>
-----------------------------------------------------------------------------
(* The command *)

\* Mutant: a new invocation is not compared with the one that is watched.
SeesRestartOnce(answer) == answer.sub = "auto-restart"

\* Why an answer of systemctl show ends the wait at once.
SeesRestart(answer) ==
  \/ answer.sub = "auto-restart"
  \/ None \notin {invocation, answer.inv} /\ answer.inv # invocation

\* properties(name, READINESS_PROPERTIES), which is empty if systemctl fails.
Show ==
  /\ pc = "show"
  /\ now >= wake
  /\ \E answers \in BOOLEAN :
       /\ seen' = IF answers THEN [sub |-> unit.sub, inv |-> unit.inv,
                                   up |-> unit.up, at |-> now]
                             ELSE NoAnswer
       /\ blind' = IF answers THEN blind ELSE now
  /\ pc' = CASE seen'.sub = "failed" -> "failed"
             [] seen'.sub # "failed" /\ SeesRestart(seen') -> "died"
             [] OTHER -> "clock"
  /\ due' = now + Late
  /\ UNCHANGED <<now, unit, invocation, stableSince, wake>>

\* Mutant: every look at a running unit starts the settle time again.
StableFromHere == IF seen.sub = "running" THEN now ELSE Never

\* stable_since as it is after this look.
StableFrom ==
  IF seen.sub # "running" THEN Never
  ELSE IF stableSince = Never THEN now ELSE stableSince

Settled == seen.sub = "running" /\ now - StableFrom >= Settle

Accept ==
  /\ Settled
  /\ pc' = "confirmed"
  /\ UNCHANGED <<wake, due>>

GiveUp ==
  /\ ~Settled
  /\ now >= Deadline
  /\ pc' = "refused"
  /\ UNCHANGED <<wake, due>>

\* Mutant: a unit that is up is not given up.
SleepWhileUp ==
  /\ ~Settled
  /\ now < Deadline \/ seen.sub = "running"
  /\ pc' = "show"
  /\ wake' = now + Poll
  /\ due' = now + Poll + Late

Sleep ==
  /\ ~Settled
  /\ now < Deadline
  /\ pc' = "show"
  /\ wake' = now + Poll
  /\ due' = now + Poll + Late

\* now = clock(), and what follows from it.
Clock ==
  /\ pc = "clock"
  /\ stableSince' = StableFrom
  /\ invocation' = IF seen.sub = "running" /\ invocation = None
                   THEN seen.inv ELSE invocation
  /\ Accept \/ GiveUp \/ Sleep
  /\ UNCHANGED <<now, unit, seen, blind>>

Next == UnitStep \/ Tick \/ Show \/ Clock

Spec == Init /\ [][Next]_vars
-----------------------------------------------------------------------------
\* A confirmed guest has held one invocation for the settle time, less what may
\* pass between the answer of systemctl and the reading of the clock: a loop of
\* Restart=always is never taken for a guest that is up.
HeldForSettleTime ==
  pc = "confirmed" => seen.sub = "running" /\ seen.at - seen.up >= Settle - Late

\* A guest that is up in time is not refused: unless it came up, or systemctl went
\* without an answer, in the last stretch before the deadline that the settle
\* time, the poll interval and the delays need.
RefusedForAReason ==
  pc = "refused" /\ seen.sub = "running" =>
    Larger(seen.up, blind) > Deadline - Settle - Poll - 3 * Late

\* Whatever the unit does, the wait ends by the deadline and one poll.
EndsInTime == pc \notin Ended => now <= End
-----------------------------------------------------------------------------
(* Why: what holds between two steps of the command. *)

\* The next step is taken within its window, and the windows end with End.
InWindow ==
  /\ pc \notin Ended => now <= due
  /\ pc = "show" => due <= now + Poll + Late /\ due <= Deadline + Poll + Late
  /\ pc = "clock" =>
       seen.at <= now /\ due = seen.at + Late /\ seen.at <= Deadline + Poll + Late

\* While one invocation is watched it has been up since before stable_since.
WatchesOne ==
  /\ unit.up <= now /\ stableSince <= now
  /\ invocation <= unit.inv
  /\ stableSince # Never => invocation # None
  /\ invocation = unit.inv =>
       unit.sub # "starting" /\ (stableSince # Never => unit.up <= stableSince)

SawRunning == pc = "clock" /\ seen.sub = "running"

\* What was seen running is that invocation, or the first.
SawWatched ==
  SawRunning =>
    /\ seen.up <= seen.at
    /\ seen.inv \in 1 .. unit.inv
    /\ invocation \in {None, seen.inv}
    /\ stableSince # Never => seen.up <= stableSince
    /\ seen.inv = unit.inv => unit.sub # "starting" /\ unit.up = seen.up

\* A unit that runs is known to be stable soon after it came up, or after the last
\* answer that was missing; before that, the look that will notice is due.
NoticedSince(up, slack) ==
  \/ stableSince # Never /\ stableSince <= Larger(up, blind) + Poll + 3 * Late
  \/ due <= Larger(up, blind) + Poll + slack

NoticedInTime ==
  /\ pc = "show" /\ unit.sub = "running" => NoticedSince(unit.up, 2 * Late)
  /\ SawRunning => NoticedSince(seen.up, 3 * Late)
  /\ pc = "clock" /\ unit.sub = "running" =>
       \/ seen.sub = "running" /\ seen.inv = unit.inv
       \/ seen.at <= Larger(unit.up, blind)

IInv ==
  /\ TypeOK /\ InWindow /\ WatchesOne /\ SawWatched /\ NoticedInTime
  /\ HeldForSettleTime /\ RefusedForAReason
=============================================================================
