------------------------------ MODULE HostState ------------------------------
(***************************************************************************)
(* The state the sandcastle commands share on one host, and the steps more *)
(* than one of them takes: the per-sandbox flock, build.install_runner and *)
(* the removal of one piece of a sandbox.  A command runs in a process of  *)
(* its own; pc says where it is and job holds its local variables.         *)
(***************************************************************************)
EXTENDS Naturals, FiniteSets

CONSTANTS Proc,      \* CLI processes
          Name,      \* sandbox names
          Input,     \* what a build may come out as, besides the spec it is for
          Bootable,  \* the inputs whose guest stays up for the settle time
          MaxId,     \* bound on the sandboxes ever created
          Existing,  \* the sandboxes there are at the start
          Commands,  \* the commands and options this host's operators use
          MaxRunning,\* max_running of the host configuration
          RemovalsFail \* whether a removal may fail for lack of permission, say

ASSUME BootableAssumption == Bootable \subseteq Input
ASSUME BoundsAssumption == MaxId \in Nat /\ MaxRunning \in Nat \ {0}
ASSUME ExistingAssumption ==
  Existing \subseteq Name /\ IsFiniteSet(Existing) /\ Cardinality(Existing) <= MaxId
ASSUME RemovalsAssumption == RemovalsFail \in BOOLEAN

\* An identity stands for the whole of an allocated Spec.  Every create makes a
\* fresh machine_id, so no two sandboxes, not even of one name, share one.
Id == 1 .. MaxId
NoId == 0

\* A runner's store path is a function of the spec and of what was built for it.
Runner == [id : Id, input : Input]
NoRunner == [id |-> NoId, input |-> "none"]   \* no symlink
NoDir == [id |-> NoId, input |-> "no dir"]    \* not even the directory it is in

\* What systemd knows of microvm@<name>: the runner its invocation was started
\* from, or why there is none.  Down stands for inactive and for failed.
Down == [id |-> NoId, input |-> "down"]
AutoRestart == [id |-> NoId, input |-> "auto-restart"]

VARIABLES
  spec,       \* specs/<name>.json: the identity the name holds
  lastId,     \* the identities handed out so far are 1 .. lastId
  current,    \* vms/<name> and the current symlink in it
  root,       \* the GC roots of each name: slots "current" and "previous"
  hosts,      \* names with a known-hosts file
  creds,      \* credentials/<name>: absent, empty, filled, or filled late, when an
              \* unwind had found it empty and was about to remove it
  realised,   \* runners in the Nix store
  unit,       \* microvm@<name>.service
  disturbed,  \* processes whose sandbox began a new invocation behind their back
  lock,       \* names locked, as pairs of a name and the process that holds it
  pc, job

disk == <<current, root, hosts, creds>>
host == <<realised, unit, disturbed>>
vars == <<spec, lastId, disk, host, lock, pc, job>>

Slot == {"current", "previous"}
NotUp == {Down, AutoRestart}

\* The locals of a command: the sandbox it works on and the identity it loaded,
\* the runner to install, the one installed before, and its options.
NoName == "none"
NoJob == [cmd |-> "none", name |-> NoName, id |-> NoId, runner |-> NoRunner,
          old |-> NoRunner, wait |-> TRUE, restart |-> "auto", keep |-> TRUE]

Job == [cmd : {"none", "create", "rebuild", "rollback", "build", "start",
               "restart", "stop", "delete"},
        name : Name \cup {NoName}, id : Id \cup {NoId},
        runner : Runner \cup {NoRunner}, old : Runner \cup {NoRunner},
        wait : BOOLEAN, restart : {"auto", "yes", "no"}, keep : BOOLEAN]

InstallAt == {"install", "previous", "current", "link"}
UnwindAt == {"u_dir", "u_current", "u_previous", "u_hosts", "u_creds", "u_rmtree", "u_spec"}
DeleteAt == {"d_dir", "d_current", "d_previous", "d_hosts", "d_creds", "d_spec"}
FinishedAt == {"done", "unwound", "rolled_back", "left_stopped"}
Locations ==
  {"idle", "peek", "build", "lock", "mkdir", "mkcreds", "mkhosts", "read", "act",
   "confirm", "roll"} \cup InstallAt \cup UnwindAt \cup DeleteAt \cup FinishedAt

TypeOK ==
  /\ spec \in [Name -> Id \cup {NoId}]
  /\ lastId \in 0 .. MaxId
  /\ current \in [Name -> Runner \cup {NoRunner, NoDir}]
  /\ root \in [Name -> [Slot -> Runner \cup {NoRunner}]]
  /\ hosts \subseteq Name
  /\ creds \in [Name -> {"absent", "empty", "filled", "late"}]
  /\ realised \subseteq Runner
  /\ unit \in [Name -> Runner \cup NotUp]
  /\ disturbed \subseteq Proc
  /\ lock \subseteq Name \X Proc
  /\ pc \in [Proc -> Locations]
  /\ job \in [Proc -> Job]

\* A host on which the Existing sandboxes were created, one by one, and are stopped.
Init ==
  \E ids \in [Existing -> 1 .. Cardinality(Existing)], inputs \in [Existing -> Input] :
    LET installed == [n \in Existing |-> [id |-> ids[n], input |-> inputs[n]]] IN
    /\ \A m, n \in Existing : ids[m] = ids[n] => m = n
    /\ spec = [n \in Name |-> IF n \in Existing THEN ids[n] ELSE NoId]
    /\ lastId = Cardinality(Existing)
    /\ current = [n \in Name |-> IF n \in Existing THEN installed[n] ELSE NoDir]
    /\ root = [n \in Name |->
                 [slot \in Slot |-> IF n \in Existing /\ slot = "current"
                                    THEN installed[n] ELSE NoRunner]]
    /\ hosts = Existing
    /\ creds = [n \in Name |-> IF n \in Existing THEN "empty" ELSE "absent"]
    /\ realised = {installed[n] : n \in Existing}
    /\ unit = [n \in Name |-> Down]
    /\ disturbed = {}
    /\ lock = {}
    /\ pc = [p \in Proc |-> "idle"]
    /\ job = [p \in Proc |-> NoJob]
-----------------------------------------------------------------------------
Goto(p, from, to) ==
  /\ pc[p] = from
  /\ pc' = [pc EXCEPT ![p] = to]

\* A command line is parsed and its process begins at `to` with these locals.
Begin(p, to, locals) ==
  /\ Goto(p, "idle", to)
  /\ locals.cmd \in Commands
  /\ job' = [job EXCEPT ![p] = locals]

Exists(n) == spec[n] # NoId
Installed(n) == IF current[n] = NoDir THEN NoRunner ELSE current[n]
Rooted == {root[n][slot] : n \in Name, slot \in Slot}
Running == {n \in Name : unit[n] \notin NotUp}

\* The descriptor of the lock file, if there is one, is closed.
Unlocked(p) == lock' = {l \in lock : l[2] # p}

\* Where a command goes on once it has its sandbox's lock.
AfterLock(p) ==
  CASE job[p].cmd = "create" -> "mkdir"
    [] job[p].cmd = "rebuild" -> "read"
    [] job[p].cmd = "build" -> "install"
    [] job[p].cmd = "delete" -> "d_dir"

\* Mutant: the flock is shared, or forgotten.
LockShared(p) ==
  /\ Goto(p, "lock", AfterLock(p))
  /\ lock' = lock \cup {<<job[p].name, p>>}
  /\ UNCHANGED <<spec, lastId, disk, host, job>>

\* file_lock(config, name): wait for the sandbox's flock.
Lock(p) ==
  /\ Goto(p, "lock", AfterLock(p))
  /\ \A q \in Proc : <<job[p].name, q>> \notin lock
  /\ lock' = lock \cup {<<job[p].name, p>>}
  /\ UNCHANGED <<spec, lastId, disk, host, job>>

\* The command returns, or raises, out of its with block and the process exits.
Exit(p) ==
  /\ pc[p] \in FinishedAt
  /\ pc' = [pc EXCEPT ![p] = "idle"]
  /\ job' = [job EXCEPT ![p] = NoJob]
  /\ disturbed' = disturbed \ {p}
  /\ Unlocked(p)
  /\ UNCHANGED <<spec, lastId, disk, realised, unit>>

\* Mutant: the handler runs before the with block is left.
RaiseLocked(p) ==
  /\ pc' = [pc EXCEPT ![p] = IF job[p].cmd = "create" THEN "u_dir" ELSE "done"]
  /\ UNCHANGED lock

\* An exception inside the command.  Leaving the with block frees the lock before
\* create's handler unwinds; the other commands have no handler for it.
Raise(p) ==
  IF job[p].cmd = "create"
  THEN /\ pc' = [pc EXCEPT ![p] = "u_dir"]
       /\ Unlocked(p)
  ELSE /\ pc' = [pc EXCEPT ![p] = "done"]
       /\ UNCHANGED lock

\* BuildError, a full disk, an interrupt: whatever else the try block meets.
Fail(p) ==
  /\ \/ pc[p] \in {"build"} \cup InstallAt
     \/ pc[p] \in {"lock", "mkdir", "mkcreds", "mkhosts", "done"} /\ job[p].cmd = "create"
  /\ Raise(p)
  /\ UNCHANGED <<spec, lastId, disk, host, job>>

\* The process is killed, or an exception nothing handles ends it, at any point.
Crash(p) ==
  /\ pc[p] # "idle"
  /\ pc' = [pc EXCEPT ![p] = "idle"]
  /\ job' = [job EXCEPT ![p] = NoJob]
  /\ disturbed' = disturbed \ {p}
  /\ Unlocked(p)
  /\ UNCHANGED <<spec, lastId, disk, realised, unit>>
-----------------------------------------------------------------------------
(* build.build_runner and build.install_runner *)

\* Mutant: build --install goes on without the sandbox's lock.
RealiseUnlocked(p, input) ==
  LET r == [id |-> job[p].id, input |-> input] IN
  /\ Goto(p, "build", IF job[p].cmd = "rebuild" THEN "lock" ELSE "install")
  /\ job' = [job EXCEPT ![p].runner = r]
  /\ realised' = realised \cup {r}
  /\ UNCHANGED <<spec, lastId, disk, unit, disturbed, lock>>

\* nix build realises what the loaded spec comes out as, and roots nothing.
Realise(p, input) ==
  LET r == [id |-> job[p].id, input |-> input] IN
  /\ Goto(p, "build", IF job[p].cmd = "create" THEN "install" ELSE "lock")
  /\ job' = [job EXCEPT ![p].runner = r]
  /\ realised' = realised \cup {r}
  /\ UNCHANGED <<spec, lastId, disk, unit, disturbed, lock>>

\* ensure_vm_dir
MakeDir(n) ==
  current' = [current EXCEPT ![n] = IF @ = NoDir THEN NoRunner ELSE @]

\* Mutant: `current` moves before anything is rooted.
MoveCurrentFirst(p) ==
  /\ Goto(p, "install", "previous")
  /\ current' = [current EXCEPT ![job[p].name] = job[p].runner]
  /\ UNCHANGED <<spec, lastId, root, hosts, creds, host, lock, job>>

\* Mutant: the runner being replaced is not kept.
RootNoPrevious(p) ==
  /\ Goto(p, "previous", "current")
  /\ UNCHANGED <<spec, lastId, disk, host, lock, job>>

EnsureVmDir(p) ==
  /\ Goto(p, "install", "previous")
  /\ MakeDir(job[p].name)
  /\ UNCHANGED <<spec, lastId, root, hosts, creds, host, lock, job>>

\* The installed runner becomes the previous root, unless there is none or it is
\* the one being installed.
RootPrevious(p) ==
  LET n == job[p].name IN
  /\ Goto(p, "previous", "current")
  /\ root' = IF Installed(n) \in {NoRunner, job[p].runner}
             THEN root
             ELSE [root EXCEPT ![n]["previous"] = Installed(n)]
  /\ UNCHANGED <<spec, lastId, current, hosts, creds, host, lock, job>>

RootCurrent(p) ==
  /\ Goto(p, "current", "link")
  /\ root' = [root EXCEPT ![job[p].name]["current"] = job[p].runner]
  /\ UNCHANGED <<spec, lastId, current, hosts, creds, host, lock, job>>

\* The symlink moves last.
MoveCurrent(p) ==
  /\ Goto(p, "link", IF \/ job[p].cmd = "rollback"
                        \/ job[p].cmd = "rebuild" /\ job[p].restart = "yes"
                     THEN "act" ELSE "done")
  /\ current[job[p].name] # NoDir
  /\ current' = [current EXCEPT ![job[p].name] = job[p].runner]
  /\ UNCHANGED <<spec, lastId, root, hosts, creds, host, lock, job>>

\* In a directory that is gone since, writing the symlink raises.
MoveCurrentRaises(p) ==
  /\ pc[p] = "link"
  /\ current[job[p].name] = NoDir
  /\ Raise(p)
  /\ UNCHANGED <<spec, lastId, disk, host, job>>

InstallStep(p) ==
  \/ EnsureVmDir(p)
  \/ RootPrevious(p)
  \/ RootCurrent(p)
  \/ MoveCurrent(p)
  \/ MoveCurrentRaises(p)
-----------------------------------------------------------------------------
(* The removals of lifecycle.delete and lifecycle._unwind_create *)

RemoveVmDir(n) ==
  /\ current' = [current EXCEPT ![n] = NoDir]
  /\ UNCHANGED <<root, hosts, creds>>

RemoveRoot(n, slot) ==
  /\ root' = [root EXCEPT ![n][slot] = NoRunner]
  /\ UNCHANGED <<current, hosts, creds>>

ForgetKnownHosts(n) ==
  /\ hosts' = hosts \ {n}
  /\ UNCHANGED <<current, root, creds>>

RemoveCredentials(n) ==
  /\ creds' = [creds EXCEPT ![n] = "absent"]
  /\ UNCHANGED <<current, root, hosts>>

RemoveSpec(n) == spec' = [spec EXCEPT ![n] = NoId]
=============================================================================
