----------------------------- MODULE GuestAccess -----------------------------
(***************************************************************************)
(* What it takes to log in to a sandbox over the life of a host: the       *)
(* addresses in its spec, the network and the control key baked into its   *)
(* runner, and the host key pinned in its known-hosts file, while          *)
(* concurrent commands create, rebuild, delete and ssh, an operator moves  *)
(* the host to another configuration or retires the control key, and any   *)
(* command may fail or be killed.  Lifecycle.tla has the rest of what      *)
(* these commands do; here a removal and an install are one step each.     *)
(***************************************************************************)
EXTENDS Configuration, ControlKey

CONSTANTS Name,       \* sandbox names
          MaxVolume,  \* bound on the identity volumes ever made
          Commands    \* the commands and events that occur

ASSUME MaxVolumeAssumption == MaxVolume \in Nat

\* Every identity volume has a host key that no other ever had.
Volume == 1 .. MaxVolume
NoSpec == [ipv4 |-> -1, cid |-> -1]
NoConfig == [base |-> -1, size |-> 1, host |-> -1, start |-> -1, end |-> -1,
             cidStart |-> -1, cidEnd |-> -1]
NoGuest == [volume |-> 0, key |-> NoKey, ipv4 |-> -1, cid |-> -1, network |-> {}]

\* known-hosts/<name>: no file, no line in it, or the volume whose host key it has.
NoFile == 0
NoPin == -1

VARIABLES cfg,       \* /etc/sandcastle/config.json
          spec,      \* specs/<name>.json
          guest,     \* vms/<name>: its identity volume, and what the runner has
          lastVolume,
          pin,
          strayed,   \* names whose pin a removal has left behind, or was overtaken by
          job        \* a command's locals: its name, the configuration and the spec it has read

sandboxes == <<spec, guest, lastVolume>>
vars == <<keyVars, pc, cfg, sandboxes, pin, strayed, job>>

NoJob == [cmd |-> "none", name |-> "none", cfg |-> NoConfig, spec |-> NoSpec]

Locations == {"idle", "reserve", "hosts", "write hosts", "install", "remove dir",
              "remove hosts", "remove spec", "check key", "connect"} \cup KeyAt

Exists(n) == spec[n] # NoSpec
HasGuest(n) == guest[n] # NoGuest

\* A rebuild that loaded its spec before a delete has installed this since.
Outdated(n) == HasGuest(n) /\ guest[n].cid # spec[n].cid

SpecType == [ipv4 : Int, cid : Int]
GuestType == [volume : Volume, key : Key \cup {NoKey}, ipv4 : Int, cid : Int,
              network : SUBSET Int]
JobType == [cmd : {"none", "create", "rebuild", "delete", "ssh"}, name : Name \cup {"none"},
            cfg : Config \cup {NoConfig}, spec : SpecType]

TypeOK ==
  /\ KeyTypeOK
  /\ pc \in [Proc -> Locations]
  /\ cfg \in Config
  /\ spec \in [Name -> SpecType]
  /\ guest \in [Name -> GuestType \cup {NoGuest}]
  /\ lastVolume \in 0 .. MaxVolume
  /\ pin \in [Name -> {NoFile, NoPin} \cup Volume]
  /\ strayed \subseteq Name
  /\ job \in [Proc -> JobType]

Init ==
  /\ KeyInit
  /\ pc = [p \in Proc |-> "idle"]
  /\ cfg \in Config
  /\ spec = [n \in Name |-> NoSpec]
  /\ guest = [n \in Name |-> NoGuest]
  /\ lastVolume = 0
  /\ pin = [n \in Name |-> NoFile]
  /\ strayed = {}
  /\ job = [p \in Proc |-> NoJob]
-----------------------------------------------------------------------------
\* A command reads the host configuration c when it begins, and keeps to it: of
\* what it reads, job has what it uses later.
Begin(p, cmd, to, n, c, s) ==
  /\ cmd \in Commands
  /\ Goto(p, "idle", to)
  /\ job' = [job EXCEPT ![p] = [cmd |-> cmd, name |-> n, cfg |-> c, spec |-> s]]

Ends(p) ==
  /\ pc' = [pc EXCEPT ![p] = "idle"]
  /\ job' = [job EXCEPT ![p] = NoJob]
  /\ key' = [key EXCEPT ![p] = NoKey]
  /\ UNCHANGED <<files, lastKey, retired, contested>>

\* Some other command is inside its locked section on n.
Busy(p, n) ==
  \E q \in Proc \ {p} :
    /\ job[q].name = n
    /\ \/ job[q].cmd = "create" /\ pc[q] \in KeyAt \cup {"write hosts", "install"}
       \/ job[q].cmd = "delete" /\ pc[q] \in {"remove hosts", "remove spec"}

Load(c, n) == Exists(n) /\ Loads(c, spec[n])

\* The specs there are, all of which Store.load_all has to read.
Present == {spec[n] : n \in {m \in Name : Exists(m)}}
-----------------------------------------------------------------------------
(* Mutants *)

\* The known-hosts file stays for the next sandbox of the name.
KeepKnownHosts(p) ==
  /\ Goto(p, "remove hosts", "remove spec")
  /\ strayed' = strayed \ {job[p].name}
  /\ UNCHANGED <<keyVars, cfg, sandboxes, pin, job>>

\* A rebuild is given a new identity volume.
InstallAnew(p) ==
  LET n == job[p].name IN
  /\ pc[p] = "install"
  /\ ~Busy(p, n)
  /\ lastVolume < MaxVolume
  /\ lastVolume' = lastVolume + 1
  /\ guest' = [guest EXCEPT ![n] =
                 [volume |-> lastVolume + 1, key |-> key[p], ipv4 |-> job[p].spec.ipv4,
                  cid |-> job[p].spec.cid, network |-> Network(job[p].cfg)]]
  /\ Ends(p)
  /\ UNCHANGED <<cfg, spec, pin, strayed>>
-----------------------------------------------------------------------------
Create(p, n) ==
  /\ Begin(p, "create", "reserve", n, cfg, NoSpec)
  /\ UNCHANGED <<keyVars, cfg, sandboxes, pin, strayed>>

\* Under the allocation lock: a free name, and addresses that none of the specs
\* has.  A create to which one of the specs does not load, or nothing is free,
\* goes no further.
Reserve(p) ==
  LET n == job[p].name
      c == job[p].cfg
  IN
  /\ Goto(p, "reserve", "hosts")
  /\ ~Exists(n)
  /\ \A s \in Present : Loads(c, s)
  /\ \E s \in Allocated(c, Present) :
       /\ spec' = [spec EXCEPT ![n] = s]
       /\ job' = [job EXCEPT ![p].spec = s]
  /\ UNCHANGED <<keyVars, cfg, guest, lastVolume, pin, strayed>>

\* rebuild, and build --install, load the spec and go on to build.
Rebuild(p, n) ==
  /\ Load(cfg, n)
  /\ Begin(p, "rebuild", "key", n, cfg, spec[n])
  /\ UNCHANGED <<keyVars, cfg, sandboxes, pin, strayed>>

Delete(p, n) ==
  /\ Load(cfg, n)
  /\ Begin(p, "delete", "remove dir", n, NoConfig, NoSpec)
  /\ UNCHANGED <<keyVars, cfg, sandboxes, pin, strayed>>

Ssh(p, n) ==
  /\ Load(cfg, n)
  /\ Begin(p, "ssh", "hosts", n, NoConfig, spec[n])
  /\ UNCHANGED <<keyVars, cfg, sandboxes, pin, strayed>>

\* Where a create and ssh go on once the known-hosts file is there.
AfterHosts(p) == IF job[p].cmd = "create" THEN "key" ELSE "check key"

\* ssh.ensure_known_hosts, by a create under its lock and by ssh under none: it
\* looks whether there is a file ...
EnsureKnownHosts(p) ==
  /\ job[p].cmd = "create" => ~Busy(p, job[p].name)
  /\ Goto(p, "hosts",
          IF pin[job[p].name] = NoFile THEN "write hosts" ELSE AfterHosts(p))
  /\ UNCHANGED <<keyVars, cfg, sandboxes, pin, strayed, job>>

\* ... and puts an empty one in place of whatever is there by then.
WriteKnownHosts(p) ==
  /\ Goto(p, "write hosts", AfterHosts(p))
  /\ pin' = [pin EXCEPT ![job[p].name] = NoPin]
  /\ UNCHANGED <<keyVars, cfg, sandboxes, strayed, job>>

\* That there is a control key is all ssh_command asks before it hands over to ssh.
CheckKey(p) ==
  /\ Goto(p, "check key", "connect")
  /\ private # NoKey
  /\ UNCHANGED <<keyVars, cfg, sandboxes, pin, strayed, job>>

\* ssh reaches whichever guest has the context identifier it read from the spec,
\* and pins that guest's key unless it has one pinned.
Connect(p) ==
  LET n == job[p].name IN
  /\ pc[p] = "connect"
  /\ pin[n] \in {NoFile, NoPin}
  /\ \E m \in Name :
       /\ HasGuest(m)
       /\ guest[m].cid = job[p].spec.cid
       /\ pin' = [pin EXCEPT ![n] = guest[m].volume]
       /\ strayed' = IF spec[n] = job[p].spec /\ ~Outdated(m)
                     THEN strayed ELSE strayed \cup {n}
  /\ Ends(p)
  /\ UNCHANGED <<cfg, sandboxes>>

\* build_input composes spec, network and key; the runner goes into the VM
\* directory, whose identity volume stays what it is if there is one.
Install(p) ==
  LET n == job[p].name
      volume == IF HasGuest(n) THEN guest[n].volume ELSE lastVolume + 1
  IN
  /\ pc[p] = "install"
  /\ ~Busy(p, n)
  /\ volume \in Volume
  /\ lastVolume' = IF HasGuest(n) THEN lastVolume ELSE volume
  /\ guest' = [guest EXCEPT ![n] =
                 [volume |-> volume, key |-> key[p], ipv4 |-> job[p].spec.ipv4,
                  cid |-> job[p].spec.cid, network |-> Network(job[p].cfg)]]
  /\ Ends(p)
  /\ UNCHANGED <<cfg, spec, pin, strayed>>

\* The removals of delete, and of a create that unwinds, in their order.
RemoveDir(p) ==
  /\ Goto(p, "remove dir", "remove hosts")
  /\ job[p].cmd = "delete" => ~Busy(p, job[p].name)
  /\ guest' = [guest EXCEPT ![job[p].name] = NoGuest]
  /\ strayed' = strayed \cup {job[p].name}
  /\ UNCHANGED <<keyVars, cfg, spec, lastVolume, pin, job>>

ForgetKnownHosts(p) ==
  /\ Goto(p, "remove hosts", "remove spec")
  /\ pin' = [pin EXCEPT ![job[p].name] = NoFile]
  /\ strayed' = strayed \ {job[p].name}
  /\ UNCHANGED <<keyVars, cfg, sandboxes, job>>

RemoveSpec(p) ==
  /\ pc[p] = "remove spec"
  /\ spec' = [spec EXCEPT ![job[p].name] = NoSpec]
  /\ Ends(p)
  /\ UNCHANGED <<cfg, guest, lastVolume, pin, strayed>>

\* Nothing to read, nothing to run, a build that fails, an interrupt.
Fail(p) ==
  /\ pc[p] \in KeyAt \cup {"hosts", "write hosts", "check key", "install"}
  /\ IF job[p].cmd = "create"
     THEN /\ pc' = [pc EXCEPT ![p] = "remove dir"]
          /\ UNCHANGED <<keyVars, job>>
     ELSE Ends(p)
  /\ UNCHANGED <<cfg, sandboxes, pin, strayed>>

\* The process is killed, or ssh gets no answer or a key it does not expect.
Kill(p) ==
  /\ pc[p] # "idle"
  /\ Ends(p)
  /\ UNCHANGED <<cfg, sandboxes, pin, strayed>>

\* The NixOS module writes another configuration.
Reconfigure(c) ==
  /\ "reconfigure" \in Commands
  /\ c # cfg
  /\ cfg' = c
  /\ UNCHANGED <<keyVars, pc, sandboxes, pin, strayed, job>>

RetireKey ==
  /\ "rotate" \in Commands
  /\ Rotate
  /\ UNCHANGED <<cfg, sandboxes, pin, strayed, job>>

Begins(p, n) ==
  \/ Create(p, n)
  \/ Rebuild(p, n)
  \/ Delete(p, n)
  \/ Ssh(p, n)

EnsureControlKey(p) ==
  /\ KeyStep(p)
  /\ UNCHANGED <<cfg, sandboxes, pin, strayed, job>>

Step(p) ==
  \/ Reserve(p)
  \/ EnsureControlKey(p)
  \/ EnsureKnownHosts(p)
  \/ WriteKnownHosts(p)
  \/ CheckKey(p)
  \/ Connect(p)
  \/ Install(p)
  \/ RemoveDir(p)
  \/ ForgetKnownHosts(p)
  \/ RemoveSpec(p)

Next ==
  \/ \E p \in Proc, n \in Name : Begins(p, n)
  \/ \E p \in Proc : Step(p) \/ Fail(p) \/ Kill(p)
  \/ \E c \in Config : Reconfigure(c)
  \/ RetireKey

Spec == Init /\ [][Next]_vars
-----------------------------------------------------------------------------
\* Whatever address the host's range offers, a spec with it can be read, and it is
\* not the bridge's; and the range misses none of those, wherever it begins and
\* ends, as long as it begins inside the subnet.
RangeMatchesValidation ==
  LET usable == {x \in cfg.start .. cfg.end : ValidIpv4(x, cfg, {cfg.host})} IN
  /\ AllocationRange(cfg) \subseteq usable
  /\ cfg.size > 2 /\ cfg.start \in Network(cfg) => usable \subseteq AllocationRange(cfg)

\* ssh.py: there is one control key, and its public half is in every guest, so that
\* the CLI can log in; and PLAN.md: what changes the state tree takes the allocation
\* lock.  So every guest was built with the key there is, or with one an operator
\* has retired since.  The code does not keep this on a host where two builds make
\* the key at the same time ...
EveryGuestLetsIn ==
  \A n \in Name : HasGuest(n) => guest[n].key \in {private} \cup retired

\* ... and does on all others, with pairs that a killed build has left half made,
\* with runners installed long after their key was read, and through rotations.
KeyLetsIn == ~contested => EveryGuestLetsIn

\* A sandbox is never refused for the host key of another, or for one it had
\* before a rebuild: what is pinned is the key on its identity volume, unless a
\* removal is between the volume and the pin or was cut short there, or has
\* overtaken the ssh that pinned it or the rebuild of the guest it reached.
PinIsOwn ==
  \A n \in Name \ strayed : pin[n] \in Volume => pin[n] = guest[n].volume

\* The address in a runner is one of the network it was built for, also after the
\* host has moved to another subnet and the sandbox has been built again.
AddressInItsNetwork ==
  \A n \in Name : HasGuest(n) => guest[n].ipv4 \in guest[n].network
\* Why: a key that somebody relies on is retired, or is both halves of the pair,
\* and whoever makes a pair finds, or has seen to it, that there is none to lose.
InUse ==
  ({guest[n].key : n \in Name} \cup {key[p] : p \in {q \in Proc : pc[q] = "install"}}
     \cup {public}) \ {NoKey, Empty}

Generating(p) ==
  /\ pc[p] = "clear private" => private = NoKey \/ public = NoKey
  /\ pc[p] = "clear public" => private = NoKey
  /\ pc[p] \in {"keygen", "write private"} => private = NoKey /\ public = NoKey
  /\ pc[p] = "write public" => public = NoKey
  /\ pc[p] = "fill public" => public \in {NoKey, Empty}
  /\ pc[p] \in {"write public", "fill public"} => key[p] \in {private} \cup retired

KeyInv ==
  ~contested =>
    /\ \A p, q \in Proc : pc[p] \in GeneratingAt /\ pc[q] \in GeneratingAt => p = q
    /\ \A k \in InUse : k \in retired \/ (k = private /\ k = public)
    /\ \A p \in Proc : Generating(p)

\* A complete pair of keys stays as it is, whatever the builds that look for one do,
\* fail or are killed at, until an operator retires it, unless two builds have ever
\* been making a key at once: nobody is locked out of the guests built with it.
KeyStays ==
  [][private # NoKey /\ private = public /\ ~contested =>
       (UNCHANGED files \/ private \in retired')]_vars

\* Every name has addresses of its own, so that ssh reaches the guest it means.
NoneTwice ==
  /\ \A n \in Name : Exists(n) => spec[n].cid \in Nat
  /\ \A m, n \in Name :
       m # n /\ Exists(m) /\ Exists(n) =>
         spec[m].ipv4 # spec[n].ipv4 /\ spec[m].cid # spec[n].cid

\* What a build installs it has read under one configuration.
JobInv ==
  \A p \in Proc :
    /\ pc[p] # "idle" => job[p].name \in Name
    /\ pc[p] \in KeyAt \cup {"install"} => job[p].cmd \in {"create", "rebuild"}
    /\ pc[p] \in KeyAt \cup {"install", "hosts", "write hosts", "check key", "connect"} =>
         job[p].spec # NoSpec
    /\ job[p].cmd \in {"create", "rebuild"} /\ job[p].spec # NoSpec =>
         job[p].spec.ipv4 \in Network(job[p].cfg)
    /\ pc[p] \in {"write private", "write public", "fill public", "install"} =>
         key[p] \in Key

GuestInv ==
  \A n \in Name : HasGuest(n) => guest[n].key \in Key /\ guest[n].ipv4 \in guest[n].network

IInv == TypeOK /\ KeyInv /\ NoneTwice /\ JobInv /\ GuestInv /\ PinIsOwn

\* Specs are handed out and given back as AddressPool promises, also by commands that
\* have read different configurations: one step of a create reserves, one of a
\* delete or an unwind releases, and a move to another subnet does neither.
Address == (MinCid .. MaxCid) \cup UNION {Network(c) : c \in Config}

Pool == INSTANCE AddressPool WITH Kind <- {"ipv4", "cid"}, Value <- Address

PoolSpec == Pool!Spec
-----------------------------------------------------------------------------
(* A claim of the documentation that the code does not keep. *)

\* PLAN.md: moving the subnet is a rebuild of every sandbox, so each can be read.
MovedHostCanRebuild == \A n \in Name : Exists(n) => Load(cfg, n)
=============================================================================
