-------------------------------- MODULE Create --------------------------------
(***************************************************************************)
(* lifecycle.create and lifecycle._unwind_create.  Reserving the name and  *)
(* its identity is one step here: Allocation.tla shows that it behaves so. *)
(***************************************************************************)
EXTENDS HostState

\* The locked allocation of a fresh identity to a free name.
Reserve(p, n) ==
  /\ ~Exists(n)
  /\ lastId < MaxId
  /\ lastId' = lastId + 1
  /\ spec' = [spec EXCEPT ![n] = lastId']
  /\ Begin(p, "peek", [NoJob EXCEPT !.cmd = "create", !.name = n, !.id = lastId'])
  /\ UNCHANGED <<disk, host, lock>>

\* credentials_existed, looked up with no lock held.
PeekCredentials(p) ==
  /\ Goto(p, "peek", "lock")
  /\ job' = [job EXCEPT ![p].keep = creds[job[p].name] # "absent"]
  /\ UNCHANGED <<spec, lastId, disk, host, lock>>

CreateVmDir(p) ==
  /\ Goto(p, "mkdir", "mkcreds")
  /\ MakeDir(job[p].name)
  /\ UNCHANGED <<spec, lastId, root, hosts, creds, host, lock, job>>

CreateCredentials(p) ==
  /\ Goto(p, "mkcreds", "mkhosts")
  /\ creds' = [creds EXCEPT ![job[p].name] = IF @ = "absent" THEN "empty" ELSE @]
  /\ UNCHANGED <<spec, lastId, current, root, hosts, host, lock, job>>

EnsureKnownHosts(p) ==
  /\ Goto(p, "mkhosts", "build")
  /\ hosts' = hosts \cup {job[p].name}
  /\ UNCHANGED <<spec, lastId, current, root, creds, host, lock, job>>
-----------------------------------------------------------------------------
\* Mutant: the unwind takes the credentials whatever is in them.
UnwindAnyCredentials(p) ==
  /\ Goto(p, "u_creds", "u_rmtree")
  /\ UNCHANGED <<spec, lastId, disk, host, lock, job>>
-----------------------------------------------------------------------------
(* _unwind_create holds no lock: the with block is left before the handler runs. *)

UnwindVmDir(p) ==
  /\ Goto(p, "u_dir", "u_current")
  /\ RemoveVmDir(job[p].name)
  /\ UNCHANGED <<spec, lastId, host, lock, job>>

UnwindCurrentRoot(p) ==
  /\ Goto(p, "u_current", "u_previous")
  /\ RemoveRoot(job[p].name, "current")
  /\ UNCHANGED <<spec, lastId, host, lock, job>>

UnwindPreviousRoot(p) ==
  /\ Goto(p, "u_previous", "u_hosts")
  /\ RemoveRoot(job[p].name, "previous")
  /\ UNCHANGED <<spec, lastId, host, lock, job>>

UnwindKnownHosts(p) ==
  /\ Goto(p, "u_hosts", IF job[p].keep THEN "u_spec" ELSE "u_creds")
  /\ ForgetKnownHosts(job[p].name)
  /\ UNCHANGED <<spec, lastId, host, lock, job>>

\* only_if_empty: what it finds enrolled is not the unwind's to remove ...
UnwindLooks(p) ==
  /\ Goto(p, "u_creds", IF creds[job[p].name] = "empty" THEN "u_rmtree" ELSE "u_spec")
  /\ UNCHANGED <<spec, lastId, disk, host, lock, job>>

\* ... but rmtree takes what is there by then.
UnwindCredentials(p) ==
  /\ Goto(p, "u_rmtree", "u_spec")
  /\ RemoveCredentials(job[p].name)
  /\ UNCHANGED <<spec, lastId, host, lock, job>>

UnwindSpec(p) ==
  /\ Goto(p, "u_spec", "unwound")
  /\ RemoveSpec(job[p].name)
  /\ UNCHANGED <<lastId, disk, host, lock, job>>

\* A removal raises; the handler swallows it and goes on with the next one.
UnwindSwallows(p) ==
  /\ RemovalsFail
  /\ \/ Goto(p, "u_dir", "u_current")
     \/ Goto(p, "u_current", "u_previous")
     \/ Goto(p, "u_previous", "u_hosts")
     \/ Goto(p, "u_hosts", IF job[p].keep THEN "u_spec" ELSE "u_creds")
     \/ Goto(p, "u_creds", "u_spec")
     \/ Goto(p, "u_rmtree", "u_spec")
     \/ Goto(p, "u_spec", "unwound")
  /\ UNCHANGED <<spec, lastId, disk, host, lock, job>>

CreateStep(p) ==
  \/ PeekCredentials(p)
  \/ CreateVmDir(p)
  \/ CreateCredentials(p)
  \/ EnsureKnownHosts(p)
  \/ UnwindVmDir(p)
  \/ UnwindCurrentRoot(p)
  \/ UnwindPreviousRoot(p)
  \/ UnwindKnownHosts(p)
  \/ UnwindLooks(p)
  \/ UnwindCredentials(p)
  \/ UnwindSpec(p)
  \/ UnwindSwallows(p)
=============================================================================
