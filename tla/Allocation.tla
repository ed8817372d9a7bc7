------------------------------ MODULE Allocation ------------------------------
(***************************************************************************)
(* Concurrent `sandcastle create` processes reserving a name, as           *)
(* lifecycle.create and state.allocate do it: take the global flock, check *)
(* the name, list the spec files, read each of them, pick the first free   *)
(* value of each kind, check the free space, write the spec file, let go   *)
(* of the lock.  Delete (and the unwind of a failed create) removes spec   *)
(* files WITHOUT the global lock, an operator may edit a spec file by      *)
(* hand, and a process may be killed at any point, which frees its flock.  *)
(***************************************************************************)
EXTENDS Naturals, Sequences

CONSTANTS Proc,        \* CLI processes
          Name,        \* sandbox names
          Kind,        \* kinds of identity value: ipv4, vsock_cid, mac
          Value,       \* the values themselves
          Candidates,  \* the values tried for a name, in the order tried
          NoSpec       \* no spec file

Identity == [Kind -> Value]

ASSUME NoSpecAssumption == NoSpec \notin Identity
ASSUME CandidatesAssumption == Candidates \in [Name -> [Kind -> Seq(Value)]]

VARIABLES spec,     \* the readable content of each spec file
          damaged,  \* names whose spec file does not parse or validate
          lock,     \* the processes that hold the global flock
          pc,       \* where each process is
          name,     \* the name each process wants to create
          todo,     \* listed spec files a process has still to read
          loaded    \* what it has read so far: names with their identity

vars == <<spec, damaged, lock, pc, name, todo, loaded>>

Locations == {"idle", "waiting", "check", "list", "scan", "leave"}
Critical == {"check", "list", "scan", "leave"}

\* A spec that a process has read: the name and the identity found under it.
Entry == [name : Name, id : Identity]

Present == {n \in Name : spec[n] # NoSpec}

TypeOK ==
  /\ spec \in [Name -> Identity \cup {NoSpec}]
  /\ damaged \subseteq Present
  /\ lock \subseteq Proc
  /\ pc \in [Proc -> Locations]
  /\ name \in [Proc -> Name]
  /\ todo \in [Proc -> SUBSET Name]
  /\ loaded \in [Proc -> SUBSET Entry]

Init ==
  /\ spec = [n \in Name |-> NoSpec]
  /\ damaged = {}
  /\ lock = {}
  /\ pc = [p \in Proc |-> "idle"]
  /\ name \in [Proc -> Name]
  /\ todo = [p \in Proc |-> {}]
  /\ loaded = [p \in Proc |-> {}]
-----------------------------------------------------------------------------
Goto(p, from, to) ==
  /\ pc[p] = from
  /\ pc' = [pc EXCEPT ![p] = to]

Taken(p, k) == {e.id[k] : e \in loaded[p]}

\* _first_free over a list of candidates, and the same loop over MAC salts.
IsFirstFree(v, candidates, taken) ==
  \E i \in DOMAIN candidates :
    /\ v = candidates[i]
    /\ candidates[i] \notin taken
    /\ \A j \in 1 .. i - 1 : candidates[j] \in taken
-----------------------------------------------------------------------------
(* Mutants: the actions below with a slip in them, to show that the properties *)
(* at the end of the module notice it.  Nothing else uses them.                *)

\* The flock is shared, or forgotten.
AcquireShared(p) ==
  /\ Goto(p, "waiting", "check")
  /\ lock' = lock \cup {p}
  /\ UNCHANGED <<spec, damaged, name, todo, loaded>>

\* allocate trusts the caller and does not ask store.exists.
CheckNothing(p) ==
  /\ Goto(p, "check", "list")
  /\ UNCHANGED <<spec, damaged, lock, name, todo, loaded>>

\* load_all skips what it cannot read.
LoadSkips(p, m) ==
  /\ pc[p] = "scan"
  /\ m \in todo[p]
  /\ m \in damaged \/ m \notin Present
  /\ todo' = [todo EXCEPT ![p] = @ \ {m}]
  /\ UNCHANGED <<spec, damaged, lock, pc, name, loaded>>

\* The None of _first_free is not checked for and lands in the spec.
SaveExhausted(p) ==
  /\ Goto(p, "scan", "leave")
  /\ todo[p] = {}
  /\ \E id \in [Kind -> Value \cup {NoSpec}] :
       /\ \A k \in Kind :
            \/ IsFirstFree(id[k], Candidates[name[p]][k], Taken(p, k))
            \/ /\ id[k] = NoSpec
               /\ \A v \in Value :
                    ~IsFirstFree(v, Candidates[name[p]][k], Taken(p, k))
       /\ spec' = [spec EXCEPT ![name[p]] = id]
  /\ UNCHANGED <<damaged, lock, name, todo, loaded>>

\* The error path closes no descriptor while the process lives on.
RefuseLocked(p) ==
  /\ Goto(p, "scan", "idle")
  /\ todo[p] = {}
  /\ UNCHANGED <<spec, damaged, lock, name, todo, loaded>>
-----------------------------------------------------------------------------
\* `sandcastle create n` is started and opens the lock file.
Invoke(p, n) ==
  /\ Goto(p, "idle", "waiting")
  /\ name' = [name EXCEPT ![p] = n]
  /\ UNCHANGED <<spec, damaged, lock, todo, loaded>>

\* flock(LOCK_EX) on locks/global.lock.
Acquire(p) ==
  /\ Goto(p, "waiting", "check")
  /\ lock = {}
  /\ lock' = lock \cup {p}
  /\ UNCHANGED <<spec, damaged, name, todo, loaded>>

\* `if store.exists(name): raise ConflictError`; a damaged file exists too.
CheckName(p) ==
  /\ Goto(p, "check", IF spec[name[p]] = NoSpec THEN "list" ELSE "leave")
  /\ UNCHANGED <<spec, damaged, lock, name, todo, loaded>>

\* store.names() of load_all: one listdir of the specs directory.
ListSpecs(p) ==
  /\ Goto(p, "list", "scan")
  /\ todo' = [todo EXCEPT ![p] = Present]
  /\ loaded' = [loaded EXCEPT ![p] = {}]
  /\ UNCHANGED <<spec, damaged, lock, name>>

\* store.load(m) of load_all.  The order of the files is left open.
Load(p, m) ==
  /\ pc[p] = "scan"
  /\ m \in (todo[p] \cap Present) \ damaged
  /\ todo' = [todo EXCEPT ![p] = @ \ {m}]
  /\ loaded' = [loaded EXCEPT ![p] = @ \cup {[name |-> m, id |-> spec[m]]}]
  /\ UNCHANGED <<spec, damaged, lock, pc, name>>

\* store.load(m) raises: the file is damaged, or was removed since the listing.
LoadFails(p, m) ==
  /\ Goto(p, "scan", "leave")
  /\ m \in todo[p]
  /\ m \in damaged \/ m \notin Present
  /\ UNCHANGED <<spec, damaged, lock, name, todo, loaded>>

\* allocate returns, the free space suffices and the spec is saved.
Save(p) ==
  /\ Goto(p, "scan", "leave")
  /\ todo[p] = {}
  /\ \E id \in Identity :
       /\ \A k \in Kind :
            IsFirstFree(id[k], Candidates[name[p]][k], Taken(p, k))
       /\ spec' = [spec EXCEPT ![name[p]] = id]
  /\ UNCHANGED <<damaged, lock, name, todo, loaded>>

\* ExhaustedError of a kind, or StateError for lack of free space.
Refuse(p) ==
  /\ Goto(p, "scan", "leave")
  /\ todo[p] = {}
  /\ UNCHANGED <<spec, damaged, lock, name, todo, loaded>>

\* The locals of allocate go out of scope and the descriptor is closed.
Closed(p) ==
  /\ lock' = lock \ {p}
  /\ todo' = [todo EXCEPT ![p] = {}]
  /\ loaded' = [loaded EXCEPT ![p] = {}]
  /\ UNCHANGED <<spec, damaged, name>>

\* The with block ends, by return or by exception.
Leave(p) == Goto(p, "leave", "idle") /\ Closed(p)

\* The process is killed; the kernel closes its descriptors.  A spec file is
\* replaced by a rename, so there is no half-written one to leave behind.
Crash(p) ==
  /\ pc[p] # "idle"
  /\ pc' = [pc EXCEPT ![p] = "idle"]
  /\ Closed(p)

\* Store.remove, called by delete and by the unwind of a failed create; both
\* hold at most the sandbox's own lock, never the global one.
Remove(n) ==
  /\ n \in Present
  /\ spec' = [spec EXCEPT ![n] = NoSpec]
  /\ damaged' = damaged \ {n}
  /\ UNCHANGED <<lock, pc, name, todo, loaded>>

\* Somebody edits a spec file into one that does not validate, or repairs it.
Edit(n) ==
  /\ n \in Present
  /\ damaged' = IF n \in damaged THEN damaged \ {n} ELSE damaged \cup {n}
  /\ UNCHANGED <<spec, lock, pc, name, todo, loaded>>

Step(p) ==
  \/ Acquire(p)
  \/ CheckName(p)
  \/ ListSpecs(p)
  \/ \E m \in Name : Load(p, m)
  \/ \E m \in Name : LoadFails(p, m)
  \/ Save(p)
  \/ Refuse(p)
  \/ Leave(p)

Next ==
  \/ \E p \in Proc : Step(p)
  \/ \E p \in Proc, n \in Name : Invoke(p, n)
  \/ \E p \in Proc : Crash(p)
  \/ \E n \in Name : Remove(n)
  \/ \E n \in Name : Edit(n)

Spec == Init /\ [][Next]_vars

\* A running process is scheduled, and the kernel wakes the waiters of a flock:
\* a process that again and again finds the lock free gets it in the end.
Fairness ==
  \A p \in Proc : WF_vars(Step(p)) /\ SF_vars(Acquire(p))

LiveSpec == Spec /\ Fairness
-----------------------------------------------------------------------------
\* At most one process is inside the locked section, and it is the one that
\* holds the flock; every exception path gives the lock back.
Exclusive ==
  /\ \A p \in Proc : pc[p] \in Critical <=> p \in lock
  /\ \A p, q \in lock : p = q

\* What a scan may rely on: every spec on disk is still to be read or was read
\* as it is now, although specs are removed while the scan is under way.
Scanned(p) ==
  \A m \in Present :
    m \in todo[p] \/ [name |-> m, id |-> spec[m]] \in loaded[p]

ScanSound == \A p \in Proc : pc[p] = "scan" => Scanned(p)

\* The name a process found free stays free until that process writes it.
NameStaysFree ==
  \A p \in Proc : pc[p] \in {"list", "scan"} => spec[name[p]] = NoSpec

\* Two specs on disk never share a value of any kind, whatever the processes,
\* removals, crashes and hand edits do (state.allocate, lifecycle.create).
Distinct ==
  \A m, n \in Present : m # n => \A k \in Kind : spec[m][k] # spec[n][k]

\* The strengthening of Distinct that every step preserves.
IInv == TypeOK /\ Exclusive /\ ScanSound /\ NameStaysFree /\ Distinct

\* Reserving and releasing are indivisible for whoever looks at the specs only.
Pool == INSTANCE AddressPool
PoolSpec == Pool!Spec

\* A create that waits for the global lock ends: no error path keeps the lock,
\* and other creates coming and going do not starve it.
EveryCreateEnds == \A p \in Proc : pc[p] = "waiting" ~> pc[p] = "idle"
=============================================================================
