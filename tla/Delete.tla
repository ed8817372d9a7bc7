-------------------------------- MODULE Delete --------------------------------
(***************************************************************************)
(* lifecycle.delete.  It asks systemd before it takes the sandbox's lock,  *)
(* and removes the spec file, and with it the name, last.                  *)
(***************************************************************************)
EXTENDS HostState

\* keep is the absence of --delete-credentials.
Delete(p, n, keep) ==
  /\ Exists(n)
  /\ n \notin Running
  /\ Begin(p, "lock", [NoJob EXCEPT !.cmd = "delete", !.name = n, !.keep = keep])
  /\ UNCHANGED <<spec, lastId, disk, host, lock>>

\* Mutant: the name is given back while the GC roots are still there.
DeleteSpecEarly(p) ==
  /\ Goto(p, "d_dir", "d_current")
  /\ RemoveVmDir(job[p].name)
  /\ RemoveSpec(job[p].name)
  /\ UNCHANGED <<lastId, host, lock, job>>

\* Mutant: the VM directory is forgotten.
DeleteNoVmDir(p) ==
  /\ Goto(p, "d_dir", "d_current")
  /\ UNCHANGED <<spec, lastId, disk, host, lock, job>>

DeleteVmDir(p) ==
  /\ Goto(p, "d_dir", "d_current")
  /\ RemoveVmDir(job[p].name)
  /\ UNCHANGED <<spec, lastId, host, lock, job>>

DeleteCurrentRoot(p) ==
  /\ Goto(p, "d_current", "d_previous")
  /\ RemoveRoot(job[p].name, "current")
  /\ UNCHANGED <<spec, lastId, host, lock, job>>

DeletePreviousRoot(p) ==
  /\ Goto(p, "d_previous", "d_hosts")
  /\ RemoveRoot(job[p].name, "previous")
  /\ UNCHANGED <<spec, lastId, host, lock, job>>

DeleteKnownHosts(p) ==
  /\ Goto(p, "d_hosts", IF job[p].keep THEN "d_spec" ELSE "d_creds")
  /\ ForgetKnownHosts(job[p].name)
  /\ UNCHANGED <<spec, lastId, host, lock, job>>

DeleteCredentials(p) ==
  /\ Goto(p, "d_creds", "d_spec")
  /\ RemoveCredentials(job[p].name)
  /\ UNCHANGED <<spec, lastId, host, lock, job>>

DeleteSpec(p) ==
  /\ Goto(p, "d_spec", "done")
  /\ RemoveSpec(job[p].name)
  /\ UNCHANGED <<lastId, disk, host, lock, job>>

DeleteStep(p) ==
  \/ DeleteVmDir(p)
  \/ DeleteCurrentRoot(p)
  \/ DeletePreviousRoot(p)
  \/ DeleteKnownHosts(p)
  \/ DeleteCredentials(p)
  \/ DeleteSpec(p)
=============================================================================
