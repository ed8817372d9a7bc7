--------------------------- MODULE GuestAccessProofs ---------------------------
(***************************************************************************)
(* Proofs about GuestAccess.tla: for every number of processes, names and  *)
(* configurations, what its runs check for one sandbox and two processes.  *)
(***************************************************************************)
EXTENDS GuestAccess, TLAPS
-----------------------------------------------------------------------------
\* What stands for nothing has the type of what is there.
LEMMA NullTypes ==
  /\ NoSpec \in SpecType
  /\ NoJob \in JobType
  BY DEF NoSpec, NoJob, SpecType, JobType

\* The beginning and the end of a command keep the types.
LEMMA BeginType ==
  ASSUME TypeOK,
         NEW p \in Proc, NEW n \in Name, NEW c \in Config \cup {NoConfig},
         NEW s \in SpecType, NEW to \in Locations,
         NEW cmd \in {"create", "rebuild", "delete", "ssh"},
         Begin(p, cmd, to, n, c, s)
  PROVE  /\ pc' \in [Proc -> Locations]
         /\ job' \in [Proc -> JobType]
<1> DEFINE j == [cmd |-> cmd, name |-> n, cfg |-> c, spec |-> s]
<1>1. j \in JobType
  BY DEF JobType
<1>. QED
  BY <1>1 DEF TypeOK, Begin, Goto

LEMMA EndsType ==
  ASSUME TypeOK, NEW p \in Proc, Ends(p)
  PROVE  /\ KeyTypeOK'
         /\ pc' \in [Proc -> Locations]
         /\ job' \in [Proc -> JobType]
<1>1. "idle" \in Locations
  BY DEF Locations
<1>. QED
  BY <1>1, NullTypes DEF TypeOK, KeyTypeOK, Ends, files

\* A configuration's network is a set of addresses.
LEMMA NetworkInt ==
  ASSUME TypeOK, NEW p \in Proc
  PROVE  Network(job[p].cfg) \in SUBSET Int
<1>1. job[p].cfg.base \in Int /\ job[p].cfg.size \in Int
  <2>1. job[p].cfg \in Config \/ job[p].cfg = NoConfig
    BY DEF TypeOK, JobType
  <2>2. ASSUME job[p].cfg \in Config PROVE  job[p].cfg.base \in Int /\ job[p].cfg.size \in Int
    BY <2>2, ConfigAssumption
  <2>. QED
    BY <2>1, <2>2 DEF NoConfig
<1>. QED
  BY <1>1 DEF Network

\* Neither no file nor an empty one is a key.
LEMMA NoSuchKey ==
  NoKey \notin Key /\ Empty \notin Key /\ NoKey # Empty
  BY MaxKeyAssumption DEF Key, NoKey, Empty

\* ssh-keygen makes a key that is a key, and a build a volume that is a volume.
LEMMA FreshKey ==
  ASSUME TypeOK, NEW p \in Proc, Keygen(p)
  PROVE  lastKey' \in Key /\ lastKey' \in 0 .. MaxKey
<1>1. lastKey \in 0 .. MaxKey /\ lastKey < MaxKey /\ lastKey' = lastKey + 1
  BY DEF TypeOK, KeyTypeOK, Keygen
<1>. QED
  BY <1>1, MaxKeyAssumption DEF Key

LEMMA FreshVolume ==
  ASSUME TypeOK, JobInv, NEW p \in Proc, Install(p)
  PROVE  /\ lastVolume' \in 0 .. MaxVolume
         /\ guest' \in [Name -> GuestType \cup {NoGuest}]
<1> DEFINE n == job[p].name
           volume == IF HasGuest(n) THEN guest[n].volume ELSE lastVolume + 1
           g == [volume |-> volume, key |-> key[p], ipv4 |-> job[p].spec.ipv4,
                 cid |-> job[p].spec.cid, network |-> Network(job[p].cfg)]
<1>1. n \in Name /\ guest' = [guest EXCEPT ![n] = g] /\ volume \in Volume
  BY DEF Install, JobInv
<1>2. lastVolume' \in 0 .. MaxVolume
  <2>1. lastVolume \in 0 .. MaxVolume /\ lastVolume' \in {lastVolume, volume}
    BY DEF TypeOK, Install
  <2>. QED
    BY <2>1, <1>1, MaxVolumeAssumption DEF Volume
<1>3. g \in GuestType
  <2>1. job[p].spec.ipv4 \in Int /\ job[p].spec.cid \in Int
    BY DEF TypeOK, JobType, SpecType
  <2>2. key[p] \in Key \cup {NoKey}
    BY DEF TypeOK, KeyTypeOK
  <2>. QED
    BY <1>1, <2>1, <2>2, NetworkInt DEF GuestType
<1>. QED
  BY <1>1, <1>2, <1>3 DEF TypeOK

\* What is allocated is an address of the network, and neither is taken.
LEMMA AllocatedFits ==
  ASSUME NEW c, NEW specs, NEW s \in Allocated(c, specs)
  PROVE  /\ s.ipv4 \in Network(c)
         /\ s.cid \in MinCid .. MaxCid
         /\ s = [ipv4 |-> s.ipv4, cid |-> s.cid]
         /\ \A t \in specs : t.ipv4 # s.ipv4 /\ t.cid # s.cid
         /\ Loads(c, s)
<1>1. /\ s = [ipv4 |-> s.ipv4, cid |-> s.cid]
      /\ s.ipv4 \in FirstFree(AllocationRange(c), {t.ipv4 : t \in specs})
      /\ s.cid \in FirstFree(CidRange(c), {t.cid : t \in specs})
      /\ ValidIpv4(s.ipv4, c, {c.host}) /\ ValidCid(s.cid)
  BY DEF Allocated
<1>. QED
  BY <1>1 DEF FirstFree, ValidIpv4, ValidCid, Loads

\* What is allocated has the type of a spec.
LEMMA ReservedType ==
  ASSUME TypeOK, NEW p \in Proc, NEW s \in Allocated(job[p].cfg, Present)
  PROVE  s \in SpecType
<1>1. s.ipv4 \in Int
  BY AllocatedFits, NetworkInt
<1>2. s.cid \in Int
  BY AllocatedFits, CidAssumption
<1>. QED
  BY <1>1, <1>2, AllocatedFits DEF SpecType

\* Every step keeps the types.
LEMMA TypeStep ==
  ASSUME TypeOK, JobInv, [Next]_vars
  PROVE  TypeOK'
<1> USE DEF TypeOK, KeyTypeOK, Locations, AfterHosts, KeyAt, GeneratingAt,
      keyVars, files, sandboxes, Goto
<1>1. ASSUME NEW p \in Proc, FindPair(p),
            UNCHANGED <<cfg, sandboxes, pin, strayed, job>>
     PROVE  TypeOK'
  BY <1>1 DEF FindPair
<1>2. ASSUME NEW p \in Proc, ClearPrivate(p),
            UNCHANGED <<cfg, sandboxes, pin, strayed, job>>
     PROVE  TypeOK'
  BY <1>2 DEF ClearPrivate
<1>3. ASSUME NEW p \in Proc, ClearPublic(p),
            UNCHANGED <<cfg, sandboxes, pin, strayed, job>>
     PROVE  TypeOK'
  BY <1>3 DEF ClearPublic
<1>4. ASSUME NEW p \in Proc, Keygen(p),
            UNCHANGED <<cfg, sandboxes, pin, strayed, job>>
     PROVE  TypeOK'
  BY <1>4, FreshKey DEF Keygen
<1>5. ASSUME NEW p \in Proc, WritePrivate(p),
            UNCHANGED <<cfg, sandboxes, pin, strayed, job>>
     PROVE  TypeOK'
  BY <1>5 DEF WritePrivate
<1>6. ASSUME NEW p \in Proc, CreatePublic(p),
            UNCHANGED <<cfg, sandboxes, pin, strayed, job>>
     PROVE  TypeOK'
  BY <1>6 DEF CreatePublic
<1>7. ASSUME NEW p \in Proc, ChmodPair(p),
            UNCHANGED <<cfg, sandboxes, pin, strayed, job>>
     PROVE  TypeOK'
  BY <1>7 DEF ChmodPair
<1>8. ASSUME NEW p \in Proc, ReadPublicKey(p, "install"),
            UNCHANGED <<cfg, sandboxes, pin, strayed, job>>
     PROVE  TypeOK'
  BY <1>8 DEF ReadPublicKey
<1>9. ASSUME NEW p \in Proc, Reserve(p)
     PROVE  TypeOK'
<2>1. PICK s \in Allocated(job[p].cfg, Present) :
         /\ spec' = [spec EXCEPT ![job[p].name] = s]
         /\ job' = [job EXCEPT ![p].spec = s]
  BY <1>9 DEF Reserve
<2>2. s \in SpecType
  BY <2>1, ReservedType
<2>3. job' \in [Proc -> JobType]
  BY <2>1, <2>2 DEF JobType
<2>. QED
  BY <1>9, <2>1, <2>2, <2>3 DEF Reserve
<1>10. ASSUME NEW p \in Proc, EnsureKnownHosts(p)
     PROVE  TypeOK'
  BY <1>10 DEF EnsureKnownHosts
<1>11. ASSUME NEW p \in Proc, WriteKnownHosts(p)
     PROVE  TypeOK'
  BY <1>11 DEF WriteKnownHosts
<1>12. ASSUME NEW p \in Proc, CheckKey(p)
     PROVE  TypeOK'
  BY <1>12 DEF CheckKey
<1>13. ASSUME NEW p \in Proc, Connect(p)
     PROVE  TypeOK'
<2>1. PICK m \in Name : HasGuest(m) /\ pin' = [pin EXCEPT ![job[p].name] = guest[m].volume]
                            /\ strayed' \subseteq strayed \cup {job[p].name}
  BY <1>13 DEF Connect
<2>2. guest[m].volume \in Volume
  BY <2>1 DEF HasGuest, GuestType
<2>3. pin' \in [Name -> {NoFile, NoPin} \cup Volume]
  BY <2>1, <2>2
<2>4. job[p].name \in Name
  BY <1>13 DEF Connect, JobInv
<2>. QED
  BY <1>13, <2>1, <2>3, <2>4, EndsType DEF Connect
<1>14. ASSUME NEW p \in Proc, Install(p)
     PROVE  TypeOK'
  BY <1>14, FreshVolume, EndsType DEF Install
<1>15. ASSUME NEW p \in Proc, RemoveDir(p)
     PROVE  TypeOK'
  BY <1>15, EndsType, NullTypes DEF RemoveDir, JobInv
<1>16. ASSUME NEW p \in Proc, ForgetKnownHosts(p)
     PROVE  TypeOK'
  BY <1>16 DEF ForgetKnownHosts
<1>17. ASSUME NEW p \in Proc, RemoveSpec(p)
     PROVE  TypeOK'
  BY <1>17, EndsType, NullTypes DEF RemoveSpec
<1>18. ASSUME NEW p \in Proc, Fail(p)
     PROVE  TypeOK'
  BY <1>18, EndsType, NullTypes DEF Fail
<1>19. ASSUME NEW p \in Proc, Kill(p)
     PROVE  TypeOK'
  BY <1>19, EndsType, NullTypes DEF Kill
<1>20. ASSUME NEW p \in Proc, NEW n \in Name, Create(p, n)
     PROVE  TypeOK'
  BY <1>20, BeginType, NullTypes DEF Create
<1>21. ASSUME NEW p \in Proc, NEW n \in Name, Rebuild(p, n)
     PROVE  TypeOK'
  BY <1>21, BeginType, NullTypes DEF Rebuild
<1>22. ASSUME NEW p \in Proc, NEW n \in Name, Delete(p, n)
     PROVE  TypeOK'
  BY <1>22, BeginType, NullTypes DEF Delete
<1>23. ASSUME NEW p \in Proc, NEW n \in Name, Ssh(p, n)
     PROVE  TypeOK'
  BY <1>23, BeginType, NullTypes DEF Ssh
<1>24. ASSUME NEW c \in Config, Reconfigure(c)
     PROVE  TypeOK'
  BY <1>24 DEF Reconfigure
<1>25. CASE RetireKey
  BY <1>25 DEF RetireKey, Rotate
<1>26. CASE UNCHANGED vars
  BY <1>26 DEF vars
<1>27. ASSUME NEW p \in Proc, FillPublic(p),
            UNCHANGED <<cfg, sandboxes, pin, strayed, job>>
     PROVE  TypeOK'
  BY <1>27 DEF FillPublic
<1>. QED
  BY <1>1, <1>2, <1>3, <1>4, <1>5, <1>6, <1>7, <1>8, <1>9, <1>10, <1>11, <1>12,
      <1>13, <1>14, <1>15, <1>16, <1>17, <1>18, <1>19, <1>20, <1>21, <1>22,
      <1>23, <1>24, <1>25, <1>26, <1>27
  DEF Next, Begins, Step, EnsureControlKey, KeyStep

\* What is allocated is not nothing.
LEMMA AllocatedNew ==
  ASSUME TypeOK, NEW p \in Proc, NEW s \in Allocated(job[p].cfg, Present)
  PROVE  s.ipv4 \in Network(job[p].cfg) /\ s.cid \in Nat /\ s # NoSpec
<1>1. s.cid \in Nat
  BY AllocatedFits, CidAssumption
<1>. QED
  BY <1>1, AllocatedFits DEF NoSpec

\* Every step keeps what is known of a command's locals.
LEMMA JobInvStep ==
  ASSUME TypeOK, JobInv, [Next]_vars
  PROVE  JobInv'
<1> USE DEF TypeOK, KeyTypeOK, JobInv, JobType, NoJob, AfterHosts, KeyAt,
      GeneratingAt, keyVars, files, sandboxes, Goto
<1>1. ASSUME NEW p \in Proc, FindPair(p),
            UNCHANGED <<cfg, sandboxes, pin, strayed, job>>
     PROVE  JobInv'
  BY <1>1 DEF FindPair
<1>2. ASSUME NEW p \in Proc, ClearPrivate(p),
            UNCHANGED <<cfg, sandboxes, pin, strayed, job>>
     PROVE  JobInv'
  BY <1>2 DEF ClearPrivate
<1>3. ASSUME NEW p \in Proc, ClearPublic(p),
            UNCHANGED <<cfg, sandboxes, pin, strayed, job>>
     PROVE  JobInv'
  BY <1>3 DEF ClearPublic
<1>4. ASSUME NEW p \in Proc, Keygen(p),
            UNCHANGED <<cfg, sandboxes, pin, strayed, job>>
     PROVE  JobInv'
  BY <1>4, FreshKey DEF Keygen
<1>5. ASSUME NEW p \in Proc, WritePrivate(p),
            UNCHANGED <<cfg, sandboxes, pin, strayed, job>>
     PROVE  JobInv'
  BY <1>5 DEF WritePrivate
<1>6. ASSUME NEW p \in Proc, CreatePublic(p),
            UNCHANGED <<cfg, sandboxes, pin, strayed, job>>
     PROVE  JobInv'
  BY <1>6 DEF CreatePublic
<1>7. ASSUME NEW p \in Proc, ChmodPair(p),
            UNCHANGED <<cfg, sandboxes, pin, strayed, job>>
     PROVE  JobInv'
  BY <1>7 DEF ChmodPair
<1>8. ASSUME NEW p \in Proc, ReadPublicKey(p, "install"),
            UNCHANGED <<cfg, sandboxes, pin, strayed, job>>
     PROVE  JobInv'
  BY <1>8 DEF ReadPublicKey
<1>9. ASSUME NEW p \in Proc, Reserve(p)
     PROVE  JobInv'
<2>1. PICK s \in Allocated(job[p].cfg, Present) : job' = [job EXCEPT ![p].spec = s]
  BY <1>9 DEF Reserve
<2>2. s.ipv4 \in Network(job[p].cfg) /\ s # NoSpec
  BY AllocatedNew
<2>3. pc' = [pc EXCEPT ![p] = "hosts"] /\ pc[p] = "reserve" /\ key' = key
  BY <1>9 DEF Reserve
<2>. QED
  BY <2>1, <2>2, <2>3
<1>10. ASSUME NEW p \in Proc, EnsureKnownHosts(p)
     PROVE  JobInv'
  BY <1>10 DEF EnsureKnownHosts
<1>11. ASSUME NEW p \in Proc, WriteKnownHosts(p)
     PROVE  JobInv'
  BY <1>11 DEF WriteKnownHosts
<1>12. ASSUME NEW p \in Proc, CheckKey(p)
     PROVE  JobInv'
  BY <1>12 DEF CheckKey
<1>13. ASSUME NEW p \in Proc, Connect(p)
     PROVE  JobInv'
  BY <1>13 DEF Connect, Ends
<1>14. ASSUME NEW p \in Proc, Install(p)
     PROVE  JobInv'
  BY <1>14 DEF Install, Ends
<1>15. ASSUME NEW p \in Proc, RemoveDir(p)
     PROVE  JobInv'
  BY <1>15 DEF RemoveDir
<1>16. ASSUME NEW p \in Proc, ForgetKnownHosts(p)
     PROVE  JobInv'
  BY <1>16 DEF ForgetKnownHosts
<1>17. ASSUME NEW p \in Proc, RemoveSpec(p)
     PROVE  JobInv'
  BY <1>17 DEF RemoveSpec, Ends
<1>18. ASSUME NEW p \in Proc, Fail(p)
     PROVE  JobInv'
<2>1. CASE job[p].cmd = "create"
  BY <1>18, <2>1 DEF Fail
<2>2. CASE job[p].cmd # "create"
  <3>1. Ends(p) /\ UNCHANGED <<cfg, sandboxes, pin, strayed>>
    BY <1>18, <2>2 DEF Fail
  <3>. QED
    BY <3>1 DEF Ends
<2>. QED
  BY <2>1, <2>2
<1>19. ASSUME NEW p \in Proc, Kill(p)
     PROVE  JobInv'
  BY <1>19 DEF Kill, Ends
<1>20. ASSUME NEW p \in Proc, NEW n \in Name, Create(p, n)
     PROVE  JobInv'
  BY <1>20 DEF Create, Begin
<1>21. ASSUME NEW p \in Proc, NEW n \in Name, Rebuild(p, n)
     PROVE  JobInv'
  BY <1>21 DEF Rebuild, Begin, Load, Exists, Loads, ValidIpv4
<1>22. ASSUME NEW p \in Proc, NEW n \in Name, Delete(p, n)
     PROVE  JobInv'
  BY <1>22 DEF Delete, Begin
<1>23. ASSUME NEW p \in Proc, NEW n \in Name, Ssh(p, n)
     PROVE  JobInv'
  BY <1>23 DEF Ssh, Begin, Load, Exists
<1>24. ASSUME NEW c \in Config, Reconfigure(c)
     PROVE  JobInv'
  BY <1>24 DEF Reconfigure
<1>25. CASE RetireKey
  BY <1>25 DEF RetireKey, Rotate
<1>26. CASE UNCHANGED vars
  BY <1>26 DEF vars
<1>27. ASSUME NEW p \in Proc, FillPublic(p),
            UNCHANGED <<cfg, sandboxes, pin, strayed, job>>
     PROVE  JobInv'
  BY <1>27 DEF FillPublic
<1>. QED
  BY <1>1, <1>2, <1>3, <1>4, <1>5, <1>6, <1>7, <1>8, <1>9, <1>10, <1>11, <1>12,
      <1>13, <1>14, <1>15, <1>16, <1>17, <1>18, <1>19, <1>20, <1>21, <1>22,
      <1>23, <1>24, <1>25, <1>26, <1>27
  DEF Next, Begins, Step, EnsureControlKey, KeyStep

\* A step that touches neither the pair nor anybody's use of it is harmless to it.
LEMMA KeyInvQuiet ==
  ASSUME KeyInv,
         UNCHANGED <<private, public, retired, contested>>,
         \A q \in Proc : pc'[q] \in GeneratingAt \cup {"install"} =>
                         pc'[q] = pc[q] /\ key'[q] = key[q],
         \A n \in Name : guest'[n].key \in {guest[n].key, NoKey}
  PROVE  KeyInv'
<1>1. InUse' \subseteq InUse
  BY DEF InUse
<1>2. \A q \in Proc : Generating(q) => Generating(q)'
  BY DEF Generating, GeneratingAt
<1>. QED
  BY <1>1, <1>2 DEF KeyInv

\* Every step keeps what KeyInv says of the pair and of who is making it.
LEMMA KeyInvStep ==
  ASSUME TypeOK, KeyInv, JobInv, [Next]_vars
  PROVE  KeyInv'
<1> USE DEF TypeOK, KeyTypeOK, KeyInv, Generating, InUse, NoKey, Empty, KeyAt,
      GeneratingAt, keyVars, files, sandboxes, Goto
<1>1. ASSUME NEW p \in Proc, FindPair(p),
            UNCHANGED <<cfg, sandboxes, pin, strayed, job>>
     PROVE  KeyInv'
  BY <1>1 DEF FindPair
<1>2. ASSUME NEW p \in Proc, ClearPrivate(p),
            UNCHANGED <<cfg, sandboxes, pin, strayed, job>>
     PROVE  KeyInv'
  BY <1>2 DEF ClearPrivate
<1>3. ASSUME NEW p \in Proc, ClearPublic(p),
            UNCHANGED <<cfg, sandboxes, pin, strayed, job>>
     PROVE  KeyInv'
  BY <1>3 DEF ClearPublic
<1>4. ASSUME NEW p \in Proc, Keygen(p),
            UNCHANGED <<cfg, sandboxes, pin, strayed, job>>
     PROVE  KeyInv'
  BY <1>4 DEF Keygen
<1>5. ASSUME NEW p \in Proc, WritePrivate(p),
            UNCHANGED <<cfg, sandboxes, pin, strayed, job>>
     PROVE  KeyInv'
  BY <1>5 DEF WritePrivate
<1>6. ASSUME NEW p \in Proc, CreatePublic(p),
            UNCHANGED <<cfg, sandboxes, pin, strayed, job>>
     PROVE  KeyInv'
  BY <1>6 DEF CreatePublic
<1>7. ASSUME NEW p \in Proc, ChmodPair(p),
            UNCHANGED <<cfg, sandboxes, pin, strayed, job>>
     PROVE  KeyInv'
  BY <1>7 DEF ChmodPair
<1>8. ASSUME NEW p \in Proc, ReadPublicKey(p, "install"),
            UNCHANGED <<cfg, sandboxes, pin, strayed, job>>
     PROVE  KeyInv'
  BY <1>8 DEF ReadPublicKey
<1>9. ASSUME NEW p \in Proc, Reserve(p)
     PROVE  KeyInv'
  BY <1>9, KeyInvQuiet DEF Reserve
<1>10. ASSUME NEW p \in Proc, EnsureKnownHosts(p)
     PROVE  KeyInv'
  BY <1>10, KeyInvQuiet DEF EnsureKnownHosts, AfterHosts
<1>11. ASSUME NEW p \in Proc, WriteKnownHosts(p)
     PROVE  KeyInv'
  BY <1>11, KeyInvQuiet DEF WriteKnownHosts, AfterHosts
<1>12. ASSUME NEW p \in Proc, CheckKey(p)
     PROVE  KeyInv'
  BY <1>12, KeyInvQuiet DEF CheckKey
<1>13. ASSUME NEW p \in Proc, Connect(p)
     PROVE  KeyInv'
  BY <1>13, KeyInvQuiet DEF Connect, Ends
<1>14. ASSUME NEW p \in Proc, Install(p)
     PROVE  KeyInv'
  BY <1>14 DEF Install, Ends
<1>15. ASSUME NEW p \in Proc, RemoveDir(p)
     PROVE  KeyInv'
  BY <1>15, KeyInvQuiet DEF RemoveDir, NoGuest
<1>16. ASSUME NEW p \in Proc, ForgetKnownHosts(p)
     PROVE  KeyInv'
  BY <1>16, KeyInvQuiet DEF ForgetKnownHosts
<1>17. ASSUME NEW p \in Proc, RemoveSpec(p)
     PROVE  KeyInv'
  BY <1>17, KeyInvQuiet DEF RemoveSpec, Ends
<1>18. ASSUME NEW p \in Proc, Fail(p)
     PROVE  KeyInv'
<2>1. CASE job[p].cmd = "create"
  BY <1>18, <2>1, KeyInvQuiet DEF Fail
<2>2. CASE job[p].cmd # "create"
  <3>1. Ends(p) /\ UNCHANGED <<cfg, sandboxes, pin, strayed>>
    BY <1>18, <2>2 DEF Fail
  <3>. QED
    BY <3>1, KeyInvQuiet DEF Ends
<2>. QED
  BY <2>1, <2>2
<1>19. ASSUME NEW p \in Proc, Kill(p)
     PROVE  KeyInv'
  BY <1>19, KeyInvQuiet DEF Kill, Ends
<1>20. ASSUME NEW p \in Proc, NEW n \in Name, Create(p, n)
     PROVE  KeyInv'
  BY <1>20, KeyInvQuiet DEF Create, Begin
<1>21. ASSUME NEW p \in Proc, NEW n \in Name, Rebuild(p, n)
     PROVE  KeyInv'
  BY <1>21, KeyInvQuiet DEF Rebuild, Begin
<1>22. ASSUME NEW p \in Proc, NEW n \in Name, Delete(p, n)
     PROVE  KeyInv'
  BY <1>22, KeyInvQuiet DEF Delete, Begin
<1>23. ASSUME NEW p \in Proc, NEW n \in Name, Ssh(p, n)
     PROVE  KeyInv'
  BY <1>23, KeyInvQuiet DEF Ssh, Begin
<1>24. ASSUME NEW c \in Config, Reconfigure(c)
     PROVE  KeyInv'
  BY <1>24 DEF Reconfigure
<1>25. CASE RetireKey
  <2>1. /\ private # Empty
        /\ retired' = (retired \cup {private, public}) \ {NoKey, Empty}
        /\ private # NoKey /\ private' = NoKey /\ public' = NoKey
        /\ UNCHANGED <<contested, key, pc, guest>>
    BY <1>25, NoSuchKey DEF RetireKey, Rotate
  <2>2. InUse' \subseteq InUse
    BY <2>1
  <2>3. retired \subseteq retired' /\ private \in retired'
    BY <2>1, NoSuchKey
  <2>4. ASSUME NEW q \in Proc, ~contested PROVE Generating(q)'
    BY <2>1, <2>3, <2>4
  <2>. QED
    BY <2>1, <2>2, <2>3, <2>4
<1>26. CASE UNCHANGED vars
  BY <1>26 DEF vars
<1>27. ASSUME NEW p \in Proc, FillPublic(p),
            UNCHANGED <<cfg, sandboxes, pin, strayed, job>>
     PROVE  KeyInv'
  BY <1>27 DEF FillPublic
<1>. QED
  BY <1>1, <1>2, <1>3, <1>4, <1>5, <1>6, <1>7, <1>8, <1>9, <1>10, <1>11, <1>12,
      <1>13, <1>14, <1>15, <1>16, <1>17, <1>18, <1>19, <1>20, <1>21, <1>22,
      <1>23, <1>24, <1>25, <1>26, <1>27
  DEF Next, Begins, Step, EnsureControlKey, KeyStep

\* Which steps touch the specs, the guests and the known hosts.
LEMMA Touches ==
  ASSUME [Next]_vars
  PROVE  /\ spec' = spec \/ \E p \in Proc : Reserve(p) \/ RemoveSpec(p)
         /\ guest' = guest \/ \E p \in Proc : Install(p) \/ RemoveDir(p)
         /\ \/ pin' = pin /\ strayed' = strayed
            \/ \E p \in Proc :
                 WriteKnownHosts(p) \/ Connect(p) \/ RemoveDir(p) \/ ForgetKnownHosts(p)
<1> USE DEF sandboxes
<1>1. ASSUME NEW p \in Proc, EnsureControlKey(p)
     PROVE  UNCHANGED <<spec, guest, pin, strayed>>
  BY <1>1 DEF EnsureControlKey
<1>2. ASSUME NEW p \in Proc, NEW n \in Name, Begins(p, n)
     PROVE  UNCHANGED <<spec, guest, pin, strayed>>
  BY <1>2 DEF Begins, Create, Rebuild, Delete, Ssh
<1>3. ASSUME NEW p \in Proc, Reserve(p) \/ RemoveSpec(p)
     PROVE  UNCHANGED <<guest, pin, strayed>>
  BY <1>3 DEF Reserve, RemoveSpec
<1>4. ASSUME NEW p \in Proc, WriteKnownHosts(p) \/ Connect(p) \/ ForgetKnownHosts(p)
     PROVE  UNCHANGED <<spec, guest>>
  BY <1>4 DEF WriteKnownHosts, Connect, ForgetKnownHosts
<1>5. ASSUME NEW p \in Proc, Install(p)
     PROVE  UNCHANGED <<spec, pin, strayed>>
  BY <1>5 DEF Install
<1>6. ASSUME NEW p \in Proc, RemoveDir(p)
     PROVE  UNCHANGED spec
  BY <1>6 DEF RemoveDir
<1>7. ASSUME NEW p \in Proc, Fail(p) \/ Kill(p)
     PROVE  UNCHANGED <<spec, guest, pin, strayed>>
  BY <1>7 DEF Fail, Kill
<1>10. ASSUME NEW p \in Proc, EnsureKnownHosts(p) \/ CheckKey(p)
     PROVE  UNCHANGED <<spec, guest, pin, strayed>>
  BY <1>10 DEF EnsureKnownHosts, CheckKey
<1>8. ASSUME NEW c \in Config, Reconfigure(c)
     PROVE  UNCHANGED <<spec, guest, pin, strayed>>
  BY <1>8 DEF Reconfigure
<1>9. ASSUME RetireKey \/ UNCHANGED vars
     PROVE  UNCHANGED <<spec, guest, pin, strayed>>
  BY <1>9 DEF RetireKey, vars
<1>. QED
  BY <1>1, <1>2, <1>3, <1>4, <1>5, <1>6, <1>7, <1>8, <1>9, <1>10
  DEF Next, Step

\* Every step leaves every name with addresses of its own.
LEMMA NoneTwiceStep ==
  ASSUME TypeOK, JobInv, NoneTwice, [Next]_vars
  PROVE  NoneTwice'
<1>1. ASSUME NEW p \in Proc, Reserve(p)
     PROVE  NoneTwice'
  <2>1. PICK s \in Allocated(job[p].cfg, Present) : spec' = [spec EXCEPT ![job[p].name] = s]
    BY <1>1 DEF Reserve
  <2>2. s.cid \in Nat /\ \A m \in Name :
                           Exists(m) => spec[m].cid # s.cid /\ spec[m].ipv4 # s.ipv4
    <3>1. s.cid \in Nat
      BY AllocatedNew
    <3>2. ASSUME NEW m \in Name, Exists(m)
          PROVE  spec[m] \in Present
      BY <3>2 DEF Present
    <3>. QED
      BY <3>1, <3>2, AllocatedFits
  <2>3. spec \in [Name -> SpecType]
    BY DEF TypeOK
  <2>. QED
    BY <2>1, <2>2, <2>3 DEF NoneTwice, Exists
<1>2. ASSUME NEW p \in Proc, RemoveSpec(p)
     PROVE  NoneTwice'
  <2>1. spec' = [spec EXCEPT ![job[p].name] = NoSpec]
    BY <1>2 DEF RemoveSpec
  <2>. QED
    BY <2>1 DEF NoneTwice, Exists, TypeOK
<1>3. ASSUME spec' = spec
     PROVE  NoneTwice'
  BY <1>3 DEF NoneTwice, Exists
<1>. QED
  BY <1>1, <1>2, <1>3, Touches

\* Every step leaves a guest with a key and with an address of its network.
LEMMA GuestInvStep ==
  ASSUME TypeOK, JobInv, GuestInv, [Next]_vars
  PROVE  GuestInv'
<1>1. ASSUME NEW p \in Proc, Install(p)
     PROVE  GuestInv'
  <2>1. job[p].cmd \in {"create", "rebuild"} /\ job[p].spec # NoSpec /\ key[p] \in Key
    BY <1>1 DEF Install, JobInv
  <2>2. job[p].spec.ipv4 \in Network(job[p].cfg)
    BY <2>1 DEF JobInv
  <2>3. PICK v : guest' = [guest EXCEPT ![job[p].name] =
                   [volume |-> v, key |-> key[p], ipv4 |-> job[p].spec.ipv4,
                    cid |-> job[p].spec.cid, network |-> Network(job[p].cfg)]]
    BY <1>1 DEF Install
  <2>. QED
    BY <2>1, <2>2, <2>3 DEF GuestInv, HasGuest, TypeOK
<1>2. ASSUME NEW p \in Proc, RemoveDir(p)
     PROVE  GuestInv'
  BY <1>2 DEF RemoveDir, GuestInv, HasGuest, TypeOK
<1>3. ASSUME guest' = guest
     PROVE  GuestInv'
  BY <1>3 DEF GuestInv, HasGuest
<1>. QED
  BY <1>1, <1>2, <1>3, Touches

\* Every step leaves what is pinned right, except where a removal is in its way.
LEMMA PinIsOwnStep ==
  ASSUME TypeOK, JobInv, NoneTwice, PinIsOwn, [Next]_vars
  PROVE  PinIsOwn'
<1>1. ASSUME NEW p \in Proc, WriteKnownHosts(p)
     PROVE  PinIsOwn'
  <2>1. /\ pin' = [pin EXCEPT ![job[p].name] = NoPin]
        /\ strayed' = strayed /\ guest' = guest
    BY <1>1 DEF WriteKnownHosts, sandboxes
  <2>2. NoPin \notin Volume
    BY DEF NoPin, Volume
  <2>. QED
    BY <2>1, <2>2 DEF PinIsOwn, TypeOK
<1>2. ASSUME NEW p \in Proc, Connect(p)
     PROVE  PinIsOwn'
  <2> DEFINE n == job[p].name
  <2>1. PICK m \in Name :
          /\ HasGuest(m) /\ guest[m].cid = job[p].spec.cid
          /\ pin' = [pin EXCEPT ![n] = guest[m].volume]
          /\ strayed' = IF spec[n] = job[p].spec /\ ~Outdated(m)
                        THEN strayed ELSE strayed \cup {n}
    BY <1>2 DEF Connect
  <2>2. guest' = guest /\ n \in Name
    BY <1>2 DEF Connect, sandboxes, JobInv
  <2>3. CASE spec[n] = job[p].spec /\ ~Outdated(m)
    <3>1. spec[m].cid = spec[n].cid
      BY <2>1, <2>3 DEF Outdated
    <3>2. Exists(n)
      BY <1>2, <2>3 DEF Connect, JobInv, Exists
    <3>3. spec[n].cid \in Nat
      BY <3>2, <2>2 DEF NoneTwice
    <3>4. Exists(m)
      BY <3>1, <3>3 DEF Exists, NoSpec
    <3>5. m = n
      BY <3>1, <3>2, <3>4, <2>2 DEF NoneTwice
    <3>. QED
      BY <2>1, <2>2, <2>3, <3>5 DEF PinIsOwn, TypeOK
  <2>4. CASE ~(spec[n] = job[p].spec /\ ~Outdated(m))
    BY <2>1, <2>2, <2>4 DEF PinIsOwn, TypeOK
  <2>. QED
    BY <2>3, <2>4
<1>3. ASSUME NEW p \in Proc, Install(p)
     PROVE  PinIsOwn'
  <2> DEFINE n == job[p].name
  <2>1. PICK v \in Volume :
          /\ HasGuest(n) => v = guest[n].volume
          /\ guest' = [guest EXCEPT ![n] =
                         [volume |-> v, key |-> key[p], ipv4 |-> job[p].spec.ipv4,
                          cid |-> job[p].spec.cid, network |-> Network(job[p].cfg)]]
    BY <1>3 DEF Install
  <2>2. pin' = pin /\ strayed' = strayed
    BY <1>3 DEF Install
  <2>3. ~HasGuest(n) => guest[n].volume \notin Volume
    BY DEF HasGuest, NoGuest, Volume
  <2>. QED
    BY <2>1, <2>2, <2>3 DEF PinIsOwn, TypeOK
<1>4. ASSUME NEW p \in Proc, RemoveDir(p)
     PROVE  PinIsOwn'
  BY <1>4 DEF RemoveDir, PinIsOwn, TypeOK
<1>5. ASSUME NEW p \in Proc, ForgetKnownHosts(p)
     PROVE  PinIsOwn'
  <2>1. NoFile \notin Volume
    BY DEF NoFile, Volume
  <2>. QED
    BY <1>5, <2>1 DEF ForgetKnownHosts, PinIsOwn, TypeOK, sandboxes
<1>6. ASSUME guest' = guest, pin' = pin, strayed' = strayed
     PROVE  PinIsOwn'
  BY <1>6 DEF PinIsOwn
<1>. QED
  BY <1>1, <1>2, <1>3, <1>4, <1>5, <1>6, Touches
-----------------------------------------------------------------------------
\* On a host that nothing has happened on yet, all of it holds.
LEMMA Starts == Init => IInv
<1> SUFFICES ASSUME Init PROVE IInv
  OBVIOUS
<1> USE DEF Init, KeyInit
<1>1. TypeOK
  <2>1. 0 \in 0 .. MaxKey /\ 0 \in 0 .. MaxVolume
    BY MaxKeyAssumption, MaxVolumeAssumption
  <2>. QED
    BY <2>1, NullTypes DEF TypeOK, KeyTypeOK, Locations
<1>2. KeyInv
  BY DEF KeyInv, InUse, Generating, GeneratingAt, NoGuest
<1>3. NoneTwice
  BY DEF NoneTwice, Exists
<1>4. JobInv
  BY DEF JobInv, NoJob, KeyAt, GeneratingAt
<1>5. GuestInv
  BY DEF GuestInv, HasGuest
<1>6. PinIsOwn
  BY DEF PinIsOwn, NoFile, Volume
<1>. QED
  BY <1>1, <1>2, <1>3, <1>4, <1>5, <1>6 DEF IInv

\* IInv is an invariant: of the types, the pair of keys and who makes it, the
\* context identifiers, what commands have read, the guests and the pinned keys.
THEOREM Invariance == Spec => []IInv
<1>1. IInv /\ [Next]_vars => IInv'
  BY TypeStep, KeyInvStep, NoneTwiceStep, JobInvStep, GuestInvStep, PinIsOwnStep DEF IInv
<1>. QED
  BY Starts, <1>1, PTL DEF Spec

\* Every guest lets the control key in, or one that was retired since, unless two
\* builds have ever been making the key at once (ssh.ensure_control_key).
THEOREM KeysLetIn == Spec => []KeyLetsIn
<1>1. IInv => KeyLetsIn
  <2> SUFFICES ASSUME IInv, NEW n \in Name, HasGuest(n), ~contested
               PROVE  guest[n].key \in {private} \cup retired
    BY DEF KeyLetsIn, EveryGuestLetsIn
  <2>1. guest[n].key \in InUse
    BY DEF IInv, GuestInv, InUse, Key, NoKey, Empty
  <2>. QED
    BY <2>1 DEF IInv, KeyInv
<1>. QED
  BY Invariance, <1>1, PTL

\* No sandbox is refused for the host key of another or of an earlier namesake
\* (ssh.ensure_known_hosts and forget_known_hosts, lifecycle.delete).
THEOREM PinsAreOwn == Spec => []PinIsOwn
<1>1. IInv => PinIsOwn
  BY DEF IInv
<1>. QED
  BY Invariance, <1>1, PTL

\* A runner has an address of the network it was built for, whatever subnets the
\* host has been moved to (spec.from_dict, build.build_input).
THEOREM AddressesInNetwork == Spec => []AddressInItsNetwork
<1>1. IInv => AddressInItsNetwork
  BY DEF IInv, GuestInv, AddressInItsNetwork
<1>. QED
  BY Invariance, <1>1, PTL

\* What Config.allocation_range offers and what validate.validate_ipv4 accepts are
\* the same addresses of the range, under every configuration.
THEOREM RangesMatch == Spec => []RangeMatchesValidation
<1>1. IInv => RangeMatchesValidation
  <2> SUFFICES ASSUME IInv PROVE RangeMatchesValidation
    OBVIOUS
  <2>1. /\ cfg.base \in Int /\ cfg.size \in Nat
        /\ cfg.start \in Int /\ cfg.end \in Int /\ cfg.host \in Int
    BY ConfigAssumption DEF IInv, TypeOK
  <2>2. ASSUME NEW x \in AllocationRange(cfg)
        PROVE  x \in cfg.start .. cfg.end /\ ValidIpv4(x, cfg, {cfg.host})
    BY <2>1, <2>2 DEF AllocationRange, ValidIpv4, Network
  <2>3. ASSUME NEW x \in cfg.start .. cfg.end, ValidIpv4(x, cfg, {cfg.host}),
               cfg.size > 2, cfg.start \in Network(cfg)
        PROVE  x \in AllocationRange(cfg)
    BY <2>1, <2>3 DEF AllocationRange, ValidIpv4, Network
  <2>. QED
    BY <2>2, <2>3 DEF RangeMatchesValidation
<1>. QED
  BY Invariance, <1>1, PTL
-----------------------------------------------------------------------------
\* Nobody lays hands on a complete pair except an operator who retires it.
LEMMA PairStep ==
  ASSUME TypeOK, KeyInv, [Next]_vars, private # NoKey, private = public, ~contested
  PROVE  UNCHANGED files \/ private \in retired'
<1> USE DEF files, keyVars
<1>1. ASSUME NEW p \in Proc, EnsureControlKey(p)
      PROVE  UNCHANGED files
  <2>1. Generating(p)
    BY DEF KeyInv
  <2>2. pc[p] \notin {"clear private", "clear public", "keygen", "write private",
                    "write public", "fill public"}
    BY <2>1, NoSuchKey DEF Generating, TypeOK, KeyTypeOK
  <2>3. FindPair(p) \/ Keygen(p) \/ ChmodPair(p) \/ ReadPublicKey(p, "install")
    BY <1>1, <2>2 DEF EnsureControlKey, KeyStep, ClearPrivate, ClearPublic, WritePrivate,
      CreatePublic, FillPublic, Goto
  <2>. QED
    BY <2>3 DEF FindPair, Keygen, ChmodPair, ReadPublicKey
<1>2. CASE RetireKey
  BY <1>2, NoSuchKey DEF RetireKey, Rotate, TypeOK, KeyTypeOK
<1>3. ASSUME NEW p \in Proc, NEW n \in Name, Begins(p, n)
      PROVE  UNCHANGED files
  BY <1>3 DEF Begins, Create, Rebuild, Delete, Ssh
<1>4. ASSUME NEW p \in Proc, Step(p), ~EnsureControlKey(p)
      PROVE  UNCHANGED files
  BY <1>4 DEF Step, Reserve, EnsureKnownHosts, WriteKnownHosts, CheckKey, Connect, Install,
    RemoveDir, ForgetKnownHosts, RemoveSpec, Ends
<1>5. ASSUME NEW p \in Proc, Fail(p) \/ Kill(p)
      PROVE  UNCHANGED files
  BY <1>5 DEF Fail, Kill, Ends
<1>6. ASSUME NEW c \in Config, Reconfigure(c)
      PROVE  UNCHANGED files
  BY <1>6 DEF Reconfigure
<1>7. CASE UNCHANGED vars
  BY <1>7 DEF vars
<1>. QED
  BY <1>1, <1>2, <1>3, <1>4, <1>5, <1>6, <1>7 DEF Next

\* A complete pair of keys stays as it is until an operator retires it, unless two
\* builds have ever been making one at once (ssh.ensure_control_key).
THEOREM KeysStay == Spec => KeyStays
<1>1. IInv /\ [Next]_vars =>
        [private # NoKey /\ private = public /\ ~contested =>
           (UNCHANGED files \/ private \in retired')]_vars
  BY PairStep DEF IInv
<1>. QED
  BY Invariance, <1>1, PTL DEF Spec, KeyStays

\* Whatever state.allocate hands out, the configuration it was handed out under lets
\* it be read again, and it shares nothing with any of the specs allocate has read:
\* for every configuration, sound or not, and for any set of specs.
THEOREM AllocatedLoads ==
  ASSUME NEW c, NEW specs, NEW s \in Allocated(c, specs)
  PROVE  Loads(c, s) /\ \A t \in specs : t.ipv4 # s.ipv4 /\ t.cid # s.cid
  BY AllocatedFits

\* A create reserves, for a command has no configuration that it has not read.
LEMMA ReserveIsPool ==
  ASSUME TypeOK, JobInv, NEW p \in Proc, Reserve(p)
  PROVE  Pool!Next
<1> DEFINE n == job[p].name
           c == job[p].cfg
<1>1. PICK s \in Allocated(c, Present) : spec' = [spec EXCEPT ![n] = s]
  BY DEF Reserve
<1>2. n \in Name /\ spec[n] = NoSpec
  BY DEF Reserve, JobInv, Goto, Exists
<1>3. c \in Config
  <2>1. s.ipv4 \in AllocationRange(c)
    BY <1>1 DEF Allocated, FirstFree
  <2>2. AllocationRange(NoConfig) = {}
    BY DEF AllocationRange, NoConfig, NetworkAndBroadcast
  <2>3. c \in Config \cup {NoConfig}
    BY DEF TypeOK, JobType
  <2>. QED
    BY <2>1, <2>2, <2>3
<1>4. s.ipv4 \in Address /\ s.cid \in Address
  BY <1>1, <1>3, AllocatedFits DEF Address
<1>5. s \in [{"ipv4", "cid"} -> Address]
  BY <1>1, <1>4, AllocatedFits
<1>6. \A m \in Pool!Used, k \in {"ipv4", "cid"} : s[k] # spec[m][k]
  <2>1. ASSUME NEW m \in Pool!Used
        PROVE  spec[m] \in Present
    BY DEF Pool!Used, Present, Exists
  <2>. QED
    BY <1>1, <2>1, AllocatedFits
<1>7. Pool!Reserve(n)
  BY <1>1, <1>2, <1>5, <1>6 DEF Pool!Reserve, Pool!Identity
<1>. QED
  BY <1>2, <1>7 DEF Pool!Next

\* Every step takes addresses, gives them back or leaves the specs alone.
LEMMA PoolStep ==
  ASSUME IInv, [Next]_vars
  PROVE  [Pool!Next]_spec
<1>1. ASSUME NEW p \in Proc, Reserve(p)
      PROVE  Pool!Next
  BY <1>1, ReserveIsPool DEF IInv
<1>2. ASSUME NEW p \in Proc, RemoveSpec(p)
      PROVE  [Pool!Next]_spec
  <2>1. job[p].name \in Name /\ spec' = [spec EXCEPT ![job[p].name] = NoSpec]
    BY <1>2 DEF RemoveSpec, IInv, JobInv
  <2>2. CASE spec[job[p].name] = NoSpec
    BY <2>1, <2>2 DEF IInv, TypeOK
  <2>3. CASE spec[job[p].name] # NoSpec
    BY <2>1, <2>3 DEF Pool!Next, Pool!Release
  <2>. QED
    BY <2>2, <2>3
<1>. QED
  BY <1>1, <1>2, Touches

\* Specs come and go as AddressPool.tla promises, whatever configurations the
\* commands have read: a create that validates and saves what it has allocated takes
\* addresses no other spec has, in one step, although deletes, unwinds and a move to
\* another subnet go on beside it.
THEOREM ImplementsPool == Spec => PoolSpec
<1>1. Init => Pool!Init
  BY DEF Init, Pool!Init
<1>. QED
  BY <1>1, Invariance, PoolStep, PTL DEF Spec, PoolSpec, Pool!Spec
==============================================================================
