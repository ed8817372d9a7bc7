------------------------------ MODULE Activation ------------------------------
(***************************************************************************)
(* lifecycle.start, stop and restart, the _activate they share with        *)
(* rebuild, and what systemd does with microvm@<name>.service meanwhile:   *)
(* it is Type=simple with Restart=always, so a start that cannot boot      *)
(* succeeds, and then loops.                                               *)
(***************************************************************************)
EXTENDS HostState

\* What starting the unit makes of it: the runner `current` leads to, or, where
\* it leads nowhere, an inactive unit.
Boot(n) == IF current[n] \in realised THEN current[n] ELSE Down

\* Whoever is watching the unit of n sees another InvocationID from here on.
Disturb(n) ==
  disturbed' = disturbed \cup {q \in Proc : pc[q] = "confirm" /\ job[q].name = n}

\* start: the spec, the runner and the number of running sandboxes are looked at
\* without any lock.
Start(p, n, wait) ==
  /\ Exists(n)
  /\ Installed(n) # NoRunner
  /\ LET running == {m \in Running : Exists(m)} IN
       n \notin running /\ Cardinality(running) < MaxRunning
  /\ Begin(p, "act", [NoJob EXCEPT !.cmd = "start", !.name = n, !.wait = wait])
  /\ UNCHANGED <<spec, lastId, disk, host, lock>>

Stop(p, n) ==
  /\ Exists(n)
  /\ Begin(p, "act", [NoJob EXCEPT !.cmd = "stop", !.name = n, !.wait = FALSE])
  /\ UNCHANGED <<spec, lastId, disk, host, lock>>

Restart(p, n, wait) ==
  /\ Exists(n)
  /\ Installed(n) # NoRunner
  /\ Begin(p, "act", [NoJob EXCEPT !.cmd = "restart", !.name = n, !.wait = wait])
  /\ UNCHANGED <<spec, lastId, disk, host, lock>>

Activated(p) == IF job[p].cmd = "rollback" THEN "rolled_back" ELSE "done"
NotActivated(p) == IF job[p].cmd = "rebuild" THEN "roll" ELSE "done"

\* systemctl start, stop or restart returns 0.  Starting an active unit does
\* nothing, so it is the only verb that begins no invocation of its own.
Act(p) ==
  LET n == job[p].name
      verb == job[p].cmd IN
  /\ Goto(p, "act", IF job[p].wait THEN "confirm" ELSE Activated(p))
  /\ unit' = [unit EXCEPT ![n] = CASE verb = "stop" -> Down
                                   [] verb = "start" /\ n \in Running -> @
                                   [] OTHER -> Boot(n)]
  /\ IF unit'[n] = unit[n] /\ verb = "start" THEN UNCHANGED disturbed ELSE Disturb(n)
  /\ UNCHANGED <<spec, lastId, disk, realised, lock, job>>

\* systemctl fails: the unit is as it was or, its dependencies failing, down.
ActFails(p) ==
  /\ Goto(p, "act", NotActivated(p))
  /\ unit' \in {unit, [unit EXCEPT ![job[p].name] = Down]}
  /\ UNCHANGED <<spec, lastId, disk, realised, disturbed, lock, job>>

\* confirm_running, which Readiness.tla models poll by poll: one invocation stayed up for the settle time.
Confirm(p) ==
  LET n == job[p].name IN
  /\ Goto(p, "confirm", Activated(p))
  /\ n \in Running
  /\ unit[n].input \in Bootable
  /\ disturbed' = disturbed \ {p}
  /\ UNCHANGED <<spec, lastId, disk, realised, unit, lock, job>>

\* Mutant: no deadline; a unit that never gets up is polled for ever.
ConfirmWithoutDeadline(p) ==
  /\ Goto(p, "confirm", NotActivated(p))
  /\ unit[job[p].name] = AutoRestart \/ p \in disturbed
  /\ disturbed' = disturbed \ {p}
  /\ UNCHANGED <<spec, lastId, disk, realised, unit, lock, job>>

\* confirm_running: the unit is seen in auto-restart, or under another
\* invocation, or not up at the deadline.
ConfirmFails(p) ==
  /\ Goto(p, "confirm", NotActivated(p))
  /\ job[p].name \notin Running \/ p \in disturbed
  /\ disturbed' = disturbed \ {p}
  /\ UNCHANGED <<spec, lastId, disk, realised, unit, lock, job>>

\* The deadline passes over a guest that is up: it came up late, or systemctl show
\* had no answer.
ConfirmRefuses(p) ==
  /\ Goto(p, "confirm", NotActivated(p))
  /\ disturbed' = disturbed \ {p}
  /\ UNCHANGED <<spec, lastId, disk, realised, unit, lock, job>>

ActivationStep(p) == Act(p) \/ ActFails(p) \/ Confirm(p) \/ ConfirmFails(p)
-----------------------------------------------------------------------------
\* The guest panics, powers off or never comes up; systemd will start it again.
Die(n) ==
  /\ n \in Running
  /\ unit' = [unit EXCEPT ![n] = AutoRestart]
  /\ UNCHANGED <<spec, lastId, disk, realised, disturbed, lock, pc, job>>

\* RestartSec later: a new invocation of whatever `current` leads to by now.
StartAgain(n) ==
  /\ unit[n] = AutoRestart
  /\ unit' = [unit EXCEPT ![n] = Boot(n)]
  /\ Disturb(n)
  /\ UNCHANGED <<spec, lastId, disk, realised, lock, pc, job>>
=============================================================================
