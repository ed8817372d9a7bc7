----------------------------- MODULE MCLifecycle -----------------------------
(***************************************************************************)
(* Small hosts for Lifecycle: builds come out as a guest that boots or as  *)
(* one that does not.                                                      *)
(***************************************************************************)
EXTENDS Lifecycle

CONSTANTS p1, p2, a

OneProc == {p1}
TwoProcs == {p1, p2}
OneName == {a}
Nobody == {}

Inputs == {"good", "bad"}
Good == {"good"}
Bad == {"bad"}

AllCommands ==
  {"create", "rebuild", "build", "start", "stop", "restart", "delete",
   "--no-wait", "nix-collect-garbage", "enrol"}

\* What two processes need to get in each other's way over one sandbox ...
Contending == {"create", "rebuild", "build", "delete", "restart", "stop"}
\* ... but for what a failed create does to those it shares a name with
\* (MCNoOrphans),
Orderly == \A n \in Name : OrderlyUnwind(n)
\* ... and to meet in the middle of an unwind, waiting for a lock and a guest.
CreateAndRebuild == {"create", "rebuild"}
StartAndDelete == {"start", "delete"}
RebuildAndCollect == {"rebuild", "nix-collect-garbage"}
=============================================================================
