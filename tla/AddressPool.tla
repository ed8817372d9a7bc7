----------------------------- MODULE AddressPool -----------------------------
(***************************************************************************)
(* What the state tree promises about identities, without the means: a     *)
(* name is taken and given back in one indivisible step, and an identity   *)
(* handed out shares no value with an identity in use.  Allocation.tla     *)
(* shows that the locked read-scan-save of src/sandcastle/state.py         *)
(* implements it; Lifecycle.tla builds on it, so that there a reservation  *)
(* can be one step.                                                        *)
(***************************************************************************)
CONSTANTS Name,    \* sandbox names
          Kind,    \* the kinds of value an identity is made of
          Value,   \* addresses, context identifiers and hardware addresses
          NoSpec   \* no spec file under this name

Identity == [Kind -> Value]

VARIABLE spec      \* the identity each name holds

TypeOK == spec \in [Name -> Identity \cup {NoSpec}]

Used == {m \in Name : spec[m] # NoSpec}

Init == spec = [n \in Name |-> NoSpec]

\* Take a free name with an identity that differs in every kind from all those in use.
Reserve(n) ==
  /\ spec[n] = NoSpec
  /\ \E id \in Identity :
       /\ \A m \in Used, k \in Kind : id[k] # spec[m][k]
       /\ spec' = [spec EXCEPT ![n] = id]

\* Give the name and its identity back.
Release(n) ==
  /\ spec[n] # NoSpec
  /\ spec' = [spec EXCEPT ![n] = NoSpec]

Next == \E n \in Name : Reserve(n) \/ Release(n)

Spec == Init /\ [][Next]_spec

\* No two sandboxes share an address, a VSOCK context identifier or a hardware
\* address: the reason src/sandcastle/state.py allocates under a lock at all.
Distinct ==
  \A m, n \in Used : m # n => \A k \in Kind : spec[m][k] # spec[n][k]
=============================================================================
