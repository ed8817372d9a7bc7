--------------------------- MODULE AllocationProofs ---------------------------
(***************************************************************************)
(* What Allocation.tla promises, for any number of processes, names, kinds *)
(* and candidates: its type invariant, that no two specs share a value,    *)
(* and that the locked read-scan-save implements AddressPool.tla.          *)
(***************************************************************************)
EXTENDS Allocation, TLAPS

\* Init and every step keep each variable in its type (Allocation!TypeOK).
LEMMA TypeInit == Init => TypeOK
BY NoSpecAssumption DEF Init, TypeOK, Present, Locations

LEMMA TypeStep == TypeOK /\ [Next]_vars => TypeOK'
<1> SUFFICES ASSUME TypeOK, [Next]_vars PROVE TypeOK'
  OBVIOUS
<1> USE DEF TypeOK, Present, Locations
<1>1. ASSUME NEW p \in Proc, Acquire(p) PROVE TypeOK'
  BY <1>1 DEF Acquire, Goto
<1>2. ASSUME NEW p \in Proc, CheckName(p) PROVE TypeOK'
  BY <1>2 DEF CheckName, Goto
<1>3. ASSUME NEW p \in Proc, ListSpecs(p) PROVE TypeOK'
  BY <1>3 DEF ListSpecs, Goto
<1>4. ASSUME NEW p \in Proc, NEW m \in Name, Load(p, m) PROVE TypeOK'
  <2>1. [name |-> m, id |-> spec[m]] \in Entry
    BY <1>4 DEF Load, Entry
  <2>2. loaded' \in [Proc -> SUBSET Entry]
    BY <2>1, <1>4 DEF Load
  <2> QED BY <2>2, <1>4 DEF Load
<1>5. ASSUME NEW p \in Proc, NEW m \in Name, LoadFails(p, m) PROVE TypeOK'
  BY <1>5 DEF LoadFails, Goto
<1>6. ASSUME NEW p \in Proc, Save(p) PROVE TypeOK'
  <2>1. PICK id \in Identity : spec' = [spec EXCEPT ![name[p]] = id]
    BY <1>6 DEF Save
  <2>2. spec' \in [Name -> Identity \cup {NoSpec}] /\ damaged' \subseteq Present'
    BY <2>1, <1>6, NoSpecAssumption DEF Save
  <2> QED BY <2>2, <1>6 DEF Save, Goto
<1>7. ASSUME NEW p \in Proc, Refuse(p) PROVE TypeOK'
  BY <1>7 DEF Refuse, Goto
<1>8. ASSUME NEW p \in Proc, Leave(p) PROVE TypeOK'
  BY <1>8 DEF Leave, Closed, Goto
<1>9. ASSUME NEW p \in Proc, NEW n \in Name, Invoke(p, n) PROVE TypeOK'
  BY <1>9 DEF Invoke, Goto
<1>10. ASSUME NEW p \in Proc, Crash(p) PROVE TypeOK'
  BY <1>10 DEF Crash, Closed
<1>11. ASSUME NEW n \in Name, Remove(n) PROVE TypeOK'
  BY <1>11 DEF Remove
<1>12. ASSUME NEW n \in Name, Edit(n) PROVE TypeOK'
  BY <1>12 DEF Edit
<1>13. CASE UNCHANGED vars
  BY <1>13 DEF vars
<1> QED
  BY <1>1, <1>2, <1>3, <1>4, <1>5, <1>6, <1>7, <1>8, <1>9, <1>10, <1>11,
     <1>12, <1>13 DEF Next, Step

\* Type correctness of the allocation protocol (src/sandcastle/state.py).
THEOREM TypeCorrect == Spec => []TypeOK
BY TypeInit, TypeStep, PTL DEF Spec
-----------------------------------------------------------------------------
\* A lock is held by one process, the one inside the locked section.
LEMMA ExclusiveStep == TypeOK /\ Exclusive /\ [Next]_vars => Exclusive'
<1> SUFFICES ASSUME TypeOK, Exclusive, [Next]_vars PROVE Exclusive'
  OBVIOUS
<1> USE DEF TypeOK, Exclusive, Critical
<1>1. ASSUME NEW p \in Proc, Acquire(p) PROVE Exclusive'
  BY <1>1 DEF Acquire, Goto
<1>2. ASSUME NEW p \in Proc,
             \/ CheckName(p) \/ ListSpecs(p) \/ Save(p) \/ Refuse(p)
             \/ \E m \in Name : Load(p, m) \/ LoadFails(p, m)
      PROVE Exclusive'
  BY <1>2 DEF CheckName, ListSpecs, Save, Refuse, Load, LoadFails, Goto
<1>3. ASSUME NEW p \in Proc, Leave(p) \/ Crash(p) PROVE Exclusive'
  BY <1>3 DEF Leave, Crash, Closed, Goto
<1>4. ASSUME NEW p \in Proc, NEW n \in Name, Invoke(p, n) PROVE Exclusive'
  BY <1>4 DEF Invoke, Goto
<1>5. ASSUME NEW n \in Name, Remove(n) \/ Edit(n) PROVE Exclusive'
  BY <1>5 DEF Remove, Edit
<1>6. CASE UNCHANGED vars
  BY <1>6 DEF vars
<1> QED
  BY <1>1, <1>2, <1>3, <1>4, <1>5, <1>6 DEF Next, Step

\* Two processes in the locked section are one process.
LEMMA OneInside ==
  ASSUME TypeOK, Exclusive, NEW p \in Proc, NEW q \in Proc,
         pc[p] \in Critical, pc[q] \in Critical
  PROVE  p = q
BY DEF Exclusive

\* What Save writes is free: it differs in every kind from every spec on disk.
LEMMA SavedIsFresh ==
  ASSUME TypeOK, ScanSound, NEW p \in Proc, pc[p] = "scan", todo[p] = {},
         NEW id \in Identity,
         \A k \in Kind : IsFirstFree(id[k], Candidates[name[p]][k], Taken(p, k)),
         NEW m \in Present, NEW k \in Kind
  PROVE  id[k] # spec[m][k]
<1>1. [name |-> m, id |-> spec[m]] \in loaded[p]
  BY DEF ScanSound, Scanned
<1>2. spec[m][k] \in Taken(p, k)
  BY <1>1 DEF Taken
<1> QED BY <1>2 DEF IsFirstFree
-----------------------------------------------------------------------------
\* A step of one process never leaves a spec unscanned by the process that scans.
LEMMA ScanStep == IInv /\ [Next]_vars => ScanSound'
<1> SUFFICES ASSUME IInv, [Next]_vars PROVE ScanSound'
  OBVIOUS
<1> USE DEF IInv, TypeOK, ScanSound, Scanned, Present
<1>1. ASSUME NEW p \in Proc, Acquire(p) \/ CheckName(p) PROVE ScanSound'
  BY <1>1 DEF Acquire, CheckName, Goto
<1>2. ASSUME NEW p \in Proc, ListSpecs(p) PROVE ScanSound'
  BY <1>2 DEF ListSpecs, Goto
<1>3. ASSUME NEW p \in Proc, NEW m \in Name, Load(p, m) PROVE ScanSound'
  <2> SUFFICES ASSUME NEW q \in Proc, pc[q] = "scan", NEW n \in Present
               PROVE  n \in todo'[q] \/ [name |-> n, id |-> spec[n]] \in loaded'[q]
    BY <1>3 DEF Load
  <2>1. n \in todo[q] \/ [name |-> n, id |-> spec[n]] \in loaded[q]
    OBVIOUS
  <2>2. CASE q # p
    BY <2>1, <2>2, <1>3 DEF Load
  <2>3. CASE q = p
    BY <2>1, <2>3, <1>3 DEF Load
  <2> QED BY <2>2, <2>3
<1>4. ASSUME NEW p \in Proc, NEW m \in Name, LoadFails(p, m) PROVE ScanSound'
  BY <1>4 DEF LoadFails, Goto
<1>5. ASSUME NEW p \in Proc, Save(p) PROVE ScanSound'
  \* No other process scans while p does, and p is no longer scanning.
  <2>1. \A q \in Proc : pc'[q] # "scan"
    <3> SUFFICES ASSUME NEW q \in Proc, pc'[q] = "scan" PROVE FALSE
      OBVIOUS
    <3>1. q # p /\ pc[q] = "scan" /\ pc[p] = "scan"
      BY <1>5 DEF Save, Goto
    <3> QED BY <3>1, OneInside DEF Critical
  <2> QED BY <2>1
<1>6. ASSUME NEW p \in Proc, Refuse(p) \/ Leave(p) \/ Crash(p) PROVE ScanSound'
  BY <1>6 DEF Refuse, Leave, Crash, Closed, Goto
<1>7. ASSUME NEW p \in Proc, NEW n \in Name, Invoke(p, n) PROVE ScanSound'
  BY <1>7 DEF Invoke, Goto
<1>8. ASSUME NEW n \in Name, Remove(n) PROVE ScanSound'
  BY <1>8 DEF Remove
<1>9. ASSUME NEW n \in Name, Edit(n) PROVE ScanSound'
  BY <1>9 DEF Edit
<1>10. CASE UNCHANGED vars
  BY <1>10 DEF vars
<1> QED
  BY <1>1, <1>2, <1>3, <1>4, <1>5, <1>6, <1>7, <1>8, <1>9, <1>10 DEF Next, Step

\* Nobody but the process that found a name free writes it.
LEMMA NameStep == IInv /\ [Next]_vars => NameStaysFree'
<1> SUFFICES ASSUME IInv, [Next]_vars PROVE NameStaysFree'
  OBVIOUS
<1> USE DEF IInv, TypeOK, NameStaysFree, Present
<1>1. ASSUME NEW p \in Proc, Acquire(p) \/ CheckName(p) \/ ListSpecs(p)
      PROVE NameStaysFree'
  BY <1>1 DEF Acquire, CheckName, ListSpecs, Goto
<1>2. ASSUME NEW p \in Proc, NEW m \in Name, Load(p, m) \/ LoadFails(p, m)
      PROVE NameStaysFree'
  BY <1>2 DEF Load, LoadFails, Goto
<1>3. ASSUME NEW p \in Proc, Save(p) PROVE NameStaysFree'
  <2>1. \A q \in Proc : pc'[q] \notin {"list", "scan"}
    <3> SUFFICES ASSUME NEW q \in Proc, pc'[q] \in {"list", "scan"} PROVE FALSE
      OBVIOUS
    <3>1. q # p /\ pc[q] \in {"list", "scan"} /\ pc[p] = "scan"
      BY <1>3 DEF Save, Goto
    <3> QED BY <3>1, OneInside DEF Critical
  <2> QED BY <2>1
<1>4. ASSUME NEW p \in Proc, Refuse(p) \/ Leave(p) \/ Crash(p)
      PROVE NameStaysFree'
  BY <1>4 DEF Refuse, Leave, Crash, Closed, Goto
<1>5. ASSUME NEW p \in Proc, NEW n \in Name, Invoke(p, n) PROVE NameStaysFree'
  BY <1>5 DEF Invoke, Goto
<1>6. ASSUME NEW n \in Name, Remove(n) \/ Edit(n) PROVE NameStaysFree'
  BY <1>6 DEF Remove, Edit
<1>7. CASE UNCHANGED vars
  BY <1>7 DEF vars
<1> QED
  BY <1>1, <1>2, <1>3, <1>4, <1>5, <1>6, <1>7 DEF Next, Step
-----------------------------------------------------------------------------
\* Only Save and Remove write a spec file.
LEMMA SpecStep ==
  ASSUME [Next]_vars, ~\E p \in Proc : Save(p), ~\E n \in Name : Remove(n)
  PROVE  UNCHANGED spec
BY DEF Next, Step, vars, Acquire, CheckName, ListSpecs, Load, LoadFails, Refuse,
       Leave, Closed, Invoke, Crash, Edit

\* A saved identity keeps the specs on disk distinct; removing one cannot harm.
LEMMA DistinctStep == IInv /\ [Next]_vars => Distinct'
<1> SUFFICES ASSUME IInv, [Next]_vars PROVE Distinct'
  OBVIOUS
<1> USE DEF IInv, TypeOK, Distinct, Present
<1>1. ASSUME NEW p \in Proc, Save(p) PROVE Distinct'
  <2>1. PICK id \in Identity :
          /\ \A k \in Kind :
               IsFirstFree(id[k], Candidates[name[p]][k], Taken(p, k))
          /\ spec' = [spec EXCEPT ![name[p]] = id]
    BY <1>1 DEF Save
  <2>2. \A m \in Present, k \in Kind : id[k] # spec[m][k]
    BY <1>1, <2>1, SavedIsFresh DEF Save, Goto
  <2> QED BY <2>1, <2>2
<1>2. ASSUME NEW n \in Name, Remove(n) PROVE Distinct'
  BY <1>2 DEF Remove
<1>3. CASE UNCHANGED spec
  BY <1>3
<1> QED BY <1>1, <1>2, <1>3, SpecStep

\* The inductive invariant holds at the start and is kept by every step.
LEMMA IInvInit == Init => IInv
BY TypeInit DEF Init, IInv, Exclusive, Critical, ScanSound, NameStaysFree,
                Distinct, Present

LEMMA IInvStep == IInv /\ [Next]_vars => IInv'
<1> SUFFICES ASSUME IInv, [Next]_vars PROVE IInv'
  OBVIOUS
<1>1. TypeOK' BY TypeStep DEF IInv
<1>2. Exclusive' BY ExclusiveStep DEF IInv
<1> QED BY <1>1, <1>2, ScanStep, NameStep, DistinctStep DEF IInv

THEOREM Invariance == Spec => []IInv
BY IInvInit, IInvStep, PTL DEF Spec

\* No two sandboxes ever share an IPv4 address, a VSOCK context identifier or a
\* MAC address, however creates, deletes, hand edits and kills interleave.
THEOREM Distinctness == Spec => []Distinct
BY Invariance, PTL DEF IInv
-----------------------------------------------------------------------------
\* Every step of the protocol reserves, releases or leaves the pool alone.
LEMMA PoolStep == IInv /\ [Next]_vars => [Pool!Next]_spec
<1> SUFFICES ASSUME IInv, [Next]_vars PROVE [Pool!Next]_spec
  OBVIOUS
<1> USE DEF IInv, TypeOK
<1>1. ASSUME NEW p \in Proc, Save(p) PROVE Pool!Next
  <2>1. PICK id \in Identity :
          /\ \A k \in Kind :
               IsFirstFree(id[k], Candidates[name[p]][k], Taken(p, k))
          /\ spec' = [spec EXCEPT ![name[p]] = id]
    BY <1>1 DEF Save
  <2>2. \A m \in Present, k \in Kind : id[k] # spec[m][k]
    BY <1>1, <2>1, SavedIsFresh DEF Save, Goto
  <2>3. spec[name[p]] = NoSpec
    BY <1>1 DEF Save, Goto, NameStaysFree
  <2>4. Pool!Reserve(name[p])
    BY <2>1, <2>2, <2>3 DEF Pool!Reserve, Pool!Used, Pool!Identity, Present, Identity
  <2> QED BY <2>4 DEF Pool!Next
<1>2. ASSUME NEW n \in Name, Remove(n) PROVE Pool!Next
  BY <1>2 DEF Remove, Present, Pool!Next, Pool!Release
<1>3. CASE UNCHANGED spec
  BY <1>3
<1> QED BY <1>1, <1>2, <1>3, SpecStep

\* The locked read-scan-save of src/sandcastle/state.py behaves, to whoever looks
\* at the spec files, like a pool that hands out and takes back in one step.
THEOREM Refinement == Spec => PoolSpec
<1>1. Init => Pool!Init
  BY DEF Init, Pool!Init
<1> QED BY <1>1, Invariance, PoolStep, PTL DEF Spec, PoolSpec, Pool!Spec
=============================================================================
