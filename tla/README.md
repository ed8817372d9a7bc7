# Verification of agent-sandcastle

TLA+ models of the `sandcastle` CLI (`src/sandcastle/`), the TLC runs that check
them on small hosts, and the theorems about them that TLAPS checks for hosts of
any size. `PROJECT.json` ties every definition to the lines it models and
every property to its run, its mutant and the hazard it is about.

## 1. The system

`sandcastle` manages MicroVMs ("sandboxes") on one NixOS host. It is no daemon:
each command is a short-lived process, and the processes meet only in the file
system under `/var/lib/sandcastle`, in the Nix store with its GC roots, and in
systemd. Nothing but `flock` orders them.

| Component | State it keeps | Operations | Meets the others through |
| --- | --- | --- | --- |
| Identity allocation (`state.py` `allocate`, `Store`) | `specs/<name>.json`: name, IPv4, MAC, VSOCK CID, machine id | `exists`, `load_all`, first free value, `save`, `remove` | the global flock; `remove` is called without it |
| Locks (`state.file_lock`) | `locks/<name>.lock`, `locks/global.lock` | take, free (also by dying) | every mutating command |
| Runners (`build.py`) | Nix store, `vms/<name>/current`, GC roots `current` and `previous` | `build_runner`, `install_runner`, `rollback_runner` | create, rebuild, build --install; nix-collect-garbage |
| Create and unwind (`lifecycle.create`, `_unwind_create`) | all of the above plus `credentials/<name>`, `known-hosts/<name>` | reserve, make directories, build, install; on any exception undo | allocation, sandbox lock (not held by the unwind) |
| Rebuild and rollback (`lifecycle.rebuild`, `_roll_back`) | `current`, both GC roots, the unit | build a candidate, install, restart, confirm, go back | sandbox lock after the build |
| Activation (`start`, `stop`, `restart`, `_activate`, `systemd.py`) | `microvm@<name>.service` | systemctl verbs, `confirm_running` | no lock; systemd's `Restart=always` |
| Delete (`lifecycle.delete`) | everything under a name | check, then remove in a fixed order, spec last | sandbox lock after the check |
| Readiness polling (`systemd.confirm_running`) | deadline, invocation id, time of stability | poll | systemd, the clock |
| Atomic files (`atomic_write_bytes`, `atomic_symlink`) | temporary file, target, directory | write, fsync, rename, fsync | every file above |
| Control key, known hosts (`ssh.py`) | key pair, one pin file per sandbox | `ensure_control_key`, `ensure_known_hosts`, `ssh_command` | builds bake the public key in; no lock |
| Configuration, specs, validation (`config.py`, `spec.py`, `validate.py`) | `/etc/sandcastle/config.json`, which the NixOS module replaces | `allocation_range`, `cid_range`, `from_dict`, `validate_*` | every command reads it once and keeps to it |
| Status and list | none | read specs and units | reads only |
| Command line (`cli.py`) | none | parsing, printing, `build --install` | lifecycle |
| Host module, guest module, builder, network (`nix/`) | TAP devices, firewall sets | attach script, egress refresh script | udev, nftables |

What is hard, and what makes each part correct:

- *Allocation*: concurrent creates, specs removed during a scan, damaged specs,
  kills. Correct if no two specs share a value, ever, and the lock comes back.
- *Install, rollback, delete*: kills between any two file operations, a garbage
  collection at any time, another process in the same sandbox. Correct if
  `current` is always rooted, the runner to go back to stays rooted and is the one
  gone back to, and a name is free only when nothing lies under it.
- *Unwind*: runs after the lock is released and swallows errors. Correct if it
  releases everything of its own and nothing of anyone else, and spares enrolled
  credentials.
- *Activation*: a start that "succeeds" and then loops, a restart by somebody
  else under watch, a limit counted without a lock. Correct if every
  confirmation ends and the limit holds.
- *Atomic files*: failures, kills and power loss between two system calls, with a
  page cache that reaches the disk in any order. Correct if a reader, then or after
  the crash, finds a whole document.
- *Control key and known hosts*: two first uses at once, half a pair left over, pins
  written by an ssh without a lock while the sandbox is deleted. Correct if every
  guest lets the control key in and no sandbox is refused for another's host key.
- *Configuration*: an allocation range that reaches the ends of the subnet or beyond,
  a host moved to another subnet under existing specs. Correct if what allocation
  offers is what validation accepts, and a runner's address is in its own network.

## 2. Modules

```
AddressPool        what allocation promises: reserve and release in one step
  ^ implemented by                    ... and by GuestAccess, below
Allocation         the locked read-scan-save, process by process
  ^ AllocationProofs   theorems         ^ MCAllocation   small instance

HostState          shared state, locks, build and install_runner, removals
  ^ Create   ^ Rebuild   ^ Delete   ^ Activation      one module per command
         Lifecycle     all of them, with systemd, guests, GC, failures, kills
           ^ LifecycleProofs   theorems      ^ MCLifecycle   small hosts
               ^ UpgradeProofs   ^ TidyProofs   ^ CredentialProofs

Readiness          confirm_running, poll by poll; in Activation it is one step
  ^ ReadinessProofs   theorems

AtomicRegister     what a kept file promises: replaced in one step, never torn
  ^ implemented by
AtomicFile         write, fsync, rename, fsync, call by call
  ^ AtomicFileProofs   theorems         ^ MCAtomicFile   small instance

Configuration      address ranges, their choice and validation (operators)
ControlKey         ensure_control_key, step by step
  ^ both extended by
GuestAccess        key, host-key pins and addresses over creates, rebuilds, deletes
  ^ GuestAccessProofs   theorems        ^ MCGuestAccess   small hosts
```

**AddressPool** is the abstract specification: `spec` maps a name to an identity
(one value of each kind) or to `NoSpec`; `Reserve` picks an identity that shares
no value with any other, `Release` gives it back.

**Allocation** (`lifecycle.create` 70-76, `state.allocate`, `Store`). A process is
`waiting` for the global flock, in `check` (`store.exists`), `list` (one
`listdir`), `scan` (one `store.load` per file) or about to `leave` the `with`
block. `todo` and `loaded` are what is left to read and what was read. `Save` is
the first-free choice for each kind (IPv4, CID, MAC over its salts) and the write;
`Refuse` stands for an exhausted range and for too little free space. `Remove`
(from delete and from the unwind) and `Edit` (a spec made unreadable by hand, or
repaired) happen at any time, since neither takes the global lock. `Crash` frees
the flock. The order in which files are read is left open, which covers the
sorted order of the code. A hand edit that makes two readable specs share a value
is not modelled: no code would notice it.

**HostState** holds what the commands share. A sandbox's `spec` is here an
identity number, fresh per create because every create draws a new machine id; a
runner is an identity with an `Input`, what the build came out as (the flake or
the package list may have changed since the last one). `current[n]` is `NoDir`
without a VM directory, `NoRunner` without a symlink in it. `unit[n]` is the
runner the unit's invocation was started from, `AutoRestart` while systemd waits
to start it again, or `Down`, which stands for both inactive and failed. `pc` and
`job` are where each command is and its local variables. `install_runner` is four
steps: directory, previous root, current root, symlink. Leaving a `with` block
and closing the lock's descriptor is one step.

**Create**, **Rebuild**, **Delete**, **Activation** have one action per system
call that others can see, in the order of the code. `Fail` is a failing build, a
full disk or an interrupt in a try block; in a create it releases the lock and
enters the unwind, which runs without one. `UnwindSwallows` is a removal that
failed and was ignored. The credentials take the unwind two steps: `UnwindLooks` is
the `listdir` that asks whether they are empty, `UnwindCredentials` the `rmtree` that
follows, which takes whatever is there by then. In Activation, `Act` is a systemctl verb that returned 0
(a unit whose `current` leads nowhere is then inactive), `ActFails` one that did
not. `Confirm` and `ConfirmFails` are the ends of `confirm_running`: a process is
in `disturbed` if the sandbox it watches began another invocation meanwhile.
Reading the spec and asking systemd at the start of a command is one step.

`ConfirmRefuses` is the deadline passing over a guest that is up, because it came up
late or `systemctl show` had no answer; no command counts on it, so it is outside
fairness.

**Readiness** (`systemd.confirm_running`). One call, on a clock that starts at 0. A
poll is `Show`, which takes the unit's sub state and invocation or no answer at all,
and then `Clock`, which reads the time and accepts, gives up or sleeps. Each step
may be taken up to `Late` after its earliest time (a slow systemctl, a busy host).
The unit starts, comes up and goes down between any two steps; `Invoke` covers
`Restart=always` and another command. The field `up` of the unit, `seen.at` and `blind` are
history, there for the properties: the code does not have them. The properties show
what the one-step `Confirm` and `ConfirmFails` of Activation stand for.

**AtomicRegister** is the abstract specification of a file: `value` is what a reader
finds, `safe` what one would find after a crash of the host. `Put` and `Drop` change
it in one step, `Settle` is the directory reaching the disk, `Crash` the power loss.

**AtomicFile** (`state.atomic_write_bytes`, `atomic_symlink`, `_fsync_directory`,
`Store.remove`). `dir` and `data` are the directory and the inodes as the running
system sees them, `diskDir` and `disk` as the disk has them; `WriteBack` and `Commit`
are the kernel writing what it likes when it likes. A process makes a temporary
(`MakeTemp`, or `ClearLink` and `Symlink`), writes, fsyncs, sets the mode, renames,
fsyncs the directory; any of these may raise (`Raise`, which removes the temporary),
the directory fsync may be refused and is then taken for done, a process may be
killed and leave its temporary behind, and another process may have its pid later.
The refinement mapping reads the files through the directory: `value` is
`Reads(dir, data)`, `safe` is `Reads(diskDir, disk)`. Every other module takes a file
for such a register. Assumed of the file system: a rename is one journal entry, and
the target of a symlink is in its inode. `atomic_symlink` does not fsync the link.

**Configuration** has the operators on addresses: `AllocationRange` is what
`Config.allocation_range` yields until it ends or, at the first address outside the
subnet, fails; `FirstFree` is `_first_free`, `ValidIpv4` and `ValidCid` are the
validations, `Loads` is `spec.from_dict`, `Allocated` is `state.allocate`.

**ControlKey** (`ssh.ensure_control_key`, `read_public_key`). A key is a number, a
pair matches when both halves have the same one. `FindPair` looks for both halves,
`ClearPrivate` and `ClearPublic` remove what is left over, `Keygen` is ssh-keygen's
own look (it refuses to overwrite), and it writes the halves one after the other. The
public half is a file first (`CreatePublic`, which leaves it `Empty`) and has the key
in it after (`FillPublic`); an empty one counts as found and cannot be read. `Rotate`
is an operator taking the pair away. `contested` is history: it records that two
processes have ever been generating at once.

**GuestAccess** puts the two under the commands that use them: `cfg` is the
configuration in force, `job[p].cfg` the one a command read when it began; `guest[n]`
has the identity volume (whose host key no other has) and the key, address and
network baked into the runner; `pin[n]` is the known-hosts file: none, empty, or the
volume whose key it has. `EnsureKnownHosts` looks and `WriteKnownHosts` writes, two
steps, since ssh holds no lock there. `Connect` is ssh reaching whichever guest has
the context identifier it had read. `strayed` is history: names whose pin a removal
left behind or was overtaken by. Reserving, installing and each removal are one step
here; Allocation and Lifecycle have their details, and the lock is `Busy`.

**Lifecycle** composes the commands. `Die` is a guest that goes down, `StartAgain` systemd's
`Restart=always`, `Enrol` credentials that appear, `CollectGarbage` removes what
no GC root holds, at any time. Crash may strike a command between any two steps.
Credentials that appear where an unwind has looked and not yet removed are `late`;
that is history in the data, which no command tells from `filled`.

Mutants (definitions commented `Mutant`) are an action with a slip in it; each shows
that one property is about the code. No specification uses them.

## 3. Runs

| Run | Shows |
| --- | --- |
| `allocation` | `Distinct`, the inductive `IInv`, refinement of AddressPool, and every waiting create ends |
| `lifecycle_one` | one operator, all commands, kills anywhere: `NoOrphans`, `InstalledMatchesSpec` and the inductive `TidyInv`, `RunnerRooted`, `CredentialsKept` |
| `lifecycle_two` | two processes in one sandbox: `OneWriter`, `NobodyWaitsHolding` and the inductive `LockInv`, `RunnerRooted`, `RollbackPossible`, `RollbackRestores` and the inductive `UpgradeInv` |
| `lifecycle_live` | two processes, a guest that never boots, failing removals: `EveryCommandEnds` |
| `readiness` | the inductive `IInv`, `HeldForSettleTime`, `RefusedForAReason`, `EndsInTime` |
| `atomic_file` | `NeverTruncated`, `RenameSurvives`, `LinkNotBlocked`, the inductive `IInv`, refinement of AtomicRegister |
| `guest_access` | `KeyLetsIn`, `KeyStays`, `PinIsOwn`, `AddressInItsNetwork`, `RangeMatchesValidation` and the inductive `IInv` |
| `running_deleted` | violation: delete checks before it locks, so a running VM loses its disk |
| `orphan_after_failed_create` | violation: a rebuild installs what a failed create's unwind has released |
| `candidate_collected` | violation: a collection between a build and its root takes the candidate, and `current` moves to it all the same |
| `two_control_keys` | violation: two builds make the key at once, and a guest has a public key whose private half is gone |
| `moved_subnet` | violation: after a move of the subnet no spec can be read, so none can be rebuilt |

`candidate_collected` has a second way to come about, at the end of a rebuild: a
rollback uses `install_runner`, which moves the `previous` root to the failed candidate
before the `current` root has the runner that is being restored (`build.py` 113 and
115), and for as long nothing roots that runner. `NothingDangles` is the property of
both; TLC shows the shorter of them.

`_roll_back` says of a unit with nothing to roll back to that it is left stopped, and
systemd's `Restart=always` goes on with it. That is how the unit is meant to be, and
the message speaks of the command only, so it is listed as a hazard and not as a
finding.

Bounds and why they suffice.

- `allocation`: two processes are the fewest that race, and the lock treats a third
  as a second. Three names for two addresses and two CIDs exhaust the ranges and
  leave gaps by removal. The MAC candidates of the names overlap, so the salt loop
  runs.
- `lifecycle_one`: one name (locks, roots and files are per name), `MaxId = 2`, so
  that a name is deleted and created again, two inputs, so that a rebuild changes
  the runner or not and a guest boots or not.
- `lifecycle_two`: two processes on one sandbox, which one of them creates and
  either may delete, and two inputs; `MaxId = 1`, for what a successor of the name
  meets is `lifecycle_one`'s. RunnerRooted holds here by the lock and not by the
  order alone. `CONSTRAINT Orderly` leaves out what follows when a failed create
  unwinds, which it does without the lock, while another command works on the
  name: there the code does not keep these properties, and
  `orphan_after_failed_create` shows it. It is the hypothesis of the theorems about
  these properties, word for word. Collections, which
  change nothing these properties are about but what a unit finds to start, are in
  `lifecycle_one`, and what they take of runners that nothing roots yet is
  `candidate_collected`'s.
- `lifecycle_live`: one input that does not boot, the hard case for ending: with a
  bootable one `Confirm` is the way out. Two processes create and rebuild the one
  name, which brings waiting for the lock, the unwind under a rebuild, and a
  symlink whose directory is gone.
- `readiness`: times in units of the poll interval, a delay of one unit, a settle
  time of two polls and a timeout that leaves room for a guest that comes up late,
  one that is refused, and one in between; three invocations, so that one restart
  goes unseen and another one is watched. The theorems have no such bounds.
- `atomic_file`: two processes with one file, one temporary name to draw, so that it
  collides, two documents, and three inodes: the old file and one in preparation per
  process. A link's temporary name belongs to a pid, so a process killed and begun
  again meets its own leftover. Power may be lost at any step.
- `guest_access`: two processes that create, rebuild, delete and ssh one name; two
  subnets of eight addresses, of which one's allocation range begins at the network
  address and the other's runs over the broadcast address and beyond; two keys, so
  that one is retired or half made, and two volumes, so that a name has a successor.
  One name suffices for keys and pins, as what two names share, the addresses, is
  `Allocation`'s; the theorem has any number. `CONSTRAINT Uncontested` leaves out
  what follows two generations at once, where `KeyLetsIn`, `KeyStays` and `KeyInv` say nothing
  and the rest of `IInv` does not depend on it; the theorems have no such constraint,
  and `two_control_keys` has none either: it shows what does follow.
- The violation runs have the fewest processes and commands that show it: one
  process that rebuilds, with collections, for `candidate_collected`; a create and a
  rebuild of one name for `two_control_keys`.
- `CHECK_DEADLOCK FALSE` in `readiness`, which ends with its one call, and in the
  lifecycle runs: `MaxId` bounds the creates, so a host
  whose last sandbox is deleted stops. That no command gets stuck is
  `EveryCommandEnds`. The other runs check deadlock.

Fairness. Weak fairness of each process's steps: a running process is scheduled
and `nix build` and systemctl return. Strong fairness of taking a lock: the kernel
queues the waiters of a flock, so one that is free again and again is got in the
end. Weak fairness of a guest that cannot stay up going down. Nothing is assumed
of failures, kills, operators, `StartAgain` or `CollectGarbage`.

## 4. What is proved

`AllocationProofs` proves, for any sets of processes, names, kinds and values and
any candidate lists:

- `TypeCorrect`: `Spec => []TypeOK`;
- `Invariance`: `Spec => []IInv`;
- `Distinctness`: `Spec => []Distinct`;
- `Refinement`: `Spec => PoolSpec`.

`Distinct` is not inductive: a save keeps it only if the scan before it saw every
spec there is. `IInv` adds what makes that so. `Exclusive`: the process inside the
locked section is the one that holds the lock, and there is one. `ScanSound`:
every spec on disk is still to be read by the scanning process or was read as it
is now; removals only shrink what has to be seen, and nobody else can save.
`NameStaysFree`: the name found free is still free when it is written. A failing
load ends the scan, so a damaged spec can never be overlooked. The argument: at
`Save`, `todo` is empty, so each spec's values are among the taken ones, and a
first free candidate is not. Refinement follows from the same lemma: `Save` is
`Reserve`, `Remove` is `Release`, everything else stutters.

`LifecycleProofs` proves, for any sets of processes, names and inputs and any
commands in use:

- `Invariance`: `Spec => [](TypeOK /\ LockInv)`;
- `TypeCorrect`: `Spec => []TypeOK`;
- `OneWriterAlways`: `Spec => []OneWriter`;
- `NobodyWaits`: `Spec => []NobodyWaitsHolding`.

`OneWriter` alone is not inductive: two processes could stand before a locked
section without the lock. `LockInv` says that a name has one holder, that every
process in a locked section holds the lock of its sandbox, and also one that is
about to fall back into such a section without locking again: a create that
builds, a rebuild whose candidate is being activated and that may have to roll
back. Which commands come where (`CommandAt`) is needed for where a lock or a build
leads on, and `NobodyWaitsHolding` is the converse: who has the lock is past waiting
for it, and an unwind, an end and a kill have given it up. The type invariant needs
all of it, so these facts are one induction. The module also has what the next three
share: how far a step reaches, by its action (`StepReach`, `BeginsReach`,
`EnvironmentReach`), and that it leaves every other process where it was.

`ReadinessProofs` proves, for any settle time, timeout, delay, number of restarts
and positive poll interval:

- `Invariance`: `Spec => []IInv`;
- `Held`: `Spec => []HeldForSettleTime`;
- `Refused`: `Spec => []RefusedForAReason`;
- `Bounded`: `Spec => []EndsInTime`.

`IInv` has three parts. `InWindow`: where the next step is due, so that no window
opens after the deadline. `WatchesOne` and `SawWatched`: an invocation that was seen
running can only go down, so as long as it is the one that is watched it has been up
since before `stable_since`. `NoticedInTime`: a unit that is up either is known to
be, since soon after it came up, or the look that will notice it is due soon. The
slack of three delays is exact: with two TLC refutes `RefusedForAReason`. With no
delay, `HeldForSettleTime` is what the documentation says, a single invocation
running for the whole settle time. The defaults (settle 5 s, timeout 30 s, poll 0.5 s)
leave a guest more than 24 s to come up if the delays are short.

What a failed create does to a command that works on its name meanwhile is a finding,
so the next two modules cannot do without a hypothesis. It is one about the behaviour
and about a single sandbox, not about the constants. `OrderlyUnwind(n)`: while a
create of `n` unwinds, no other command works on `n` (starts, stops and restarts
may), and no removal fails. `OrderlyRemoval(n)`: the same, and no other command works
on `n` while a delete removes what there is of it.

`UpgradeProofs` proves, for any number of processes, names and inputs, and any
commands, failures and kills:

- `UpgradePerSandbox`: `Spec /\ []OrderlyUnwind(n) => []UpgradeAt(n)`, whatever
  becomes of the other sandboxes;
- `UpgradeInvariance`: of all sandboxes at once, `LockInv /\ UpgradeInv`, and from it
  `RunnersRooted`, `RollbacksPossible`, `RollbacksRestore` (`RunnerRooted`,
  `RollbackPossible`, `RollbackRestores`);
- `UpgradeWithoutCreates`: the last three with no hypothesis on the behaviour, if
  `"create" \notin Commands`.

`UpgradeAt(n)` says at every step of an install which root has the installed runner
and which the one to go back to. It is kept by the holder's own steps; other
processes cannot disturb it, because only the holder of a sandbox's lock moves its
runners, and because an unwind, the one exception, meets nobody.

What `current` leads to is always rooted once it is installed (`RunnersRooted`); that it
is still there when it is rooted the code does not ensure, see `candidate_collected`.

`TidyProofs` proves, likewise:

- `TidyPerSandbox`: `Spec /\ []OrderlyRemoval(n) => []TidyAt(n)`;
- `TidyInvariance`: of all sandboxes at once, and from it `NothingOrphaned`
  (`NoOrphans`) and `RunnersMatchSpecs` (`InstalledMatchesSpec`);
- `TidyOneAtATime`: `NoOrphans` and `InstalledMatchesSpec` with no hypothesis on the
  behaviour, for an operator who gives one command after the other and a file system
  on which removals do not fail.

`NoOrphans` is not inductive: where a removal or an unwind is, its earlier removals
must have been done (`Removed`), and what a command installs must belong to the spec
that is there (`Keeps`). `[]OrderlyUnwind(n)` would not do as the
hypothesis: a rebuild or a build that loaded its spec before a delete waits for the
lock and then installs under a name that is gone.

`CredentialProofs` proves, with no assumption on processes, commands or failures:

- `CredentialsSpared`: `Spec => CredentialsKept`.

It needs no lock: which command may remove credentials, and whether it was to keep
them, is in its own locals at every step that does it, and what an unwind has found
empty can only be filled late (`Careful`). The exception, `late`, is one the code has:
see the limits below.

`AtomicFileProofs` proves, for any sets of processes, files, temporary names, inodes
and documents: `TypeCorrect`, `Invariance` (`Spec => []IInv`), `WholeFiles`
(`NeverTruncated`), `RenamesLast` (`RenameSurvives`), `LinksGoThrough`
(`LinkNotBlocked`) and `Implements`: `Spec => RegisterSpec`. `IInv` says that a file
in preparation is known to nobody else and hidden (`Own`, `Hidden`), that it is whole
and on the disk when it is renamed (`Prepared`), and so that whatever a name leads to
is whole and the same in the page cache and on the disk (`NamedWhole`). A rename then
is `Put`, a removal `Drop`, a directory fsync `Settle`, a power loss `Crash`, and
everything else a stutter.

`GuestAccessProofs` proves, for any sets of processes and names, any configurations
and any numbers of keys and volumes:

- `Invariance` (`Spec => []IInv`), `KeysLetIn`, `PinsAreOwn`, `AddressesInNetwork` and
  `RangesMatch`, one for each invariant of the run;
- `KeysStay`: `Spec => KeyStays`, an action property;
- `AllocatedLoads`: what `state.allocate` hands out under a configuration,
  `spec.from_dict` accepts under the same one, and it shares nothing with the specs
  that were read;
- `ImplementsPool`: `Spec => PoolSpec`. Specs are taken and given back as AddressPool
  promises, here with the ranges, the first-free choice and the validation of the
  code instead of a list of candidates, under configurations that change between the
  read and the reservation.

`KeyInv` is why the keys let in and stay: a key that somebody relies on is retired or
is both halves of the pair, and whoever generates has seen that there is no pair to
lose. `NoneTwice` (no two names share an address or a context identifier) is why ssh
reaches the guest it means. The refinement needs that a create which reserves has a
configuration it has read: of no configuration there is no range to take from.

Assumptions: `NoSpec` is not an identity; `Candidates` gives each name and kind a
finite sequence of values; times and bounds are natural numbers; the existing
sandboxes are finitely many and fit under `MaxId`; `Torn` and `Absent` are no
documents, `NoInode` is no inode, and names of files, temporaries and links differ;
a configuration is a record of numbers. TLC evaluates them in the passing runs.

Only model-checked: liveness (`EveryCreateEnds`, `EveryCommandEnds`; `ENABLED` and
fairness are out of the prover's reach). Only proved: `ImplementsPool` and
`AllocatedLoads`, which no run states. On the one name of `guest_access` the refinement
would show little, and with two names its state space is too large.

## 5. Not modelled, and known limits

Left out for good: argument parsing and printing, `status` and `list` (they only
read), regular expressions and the fields of a spec or configuration that are
validated one by one and keep no state, file modes and owners, the NixOS
configuration itself, `exec` of ssh and journalctl. The TAP script and the egress
timer in `nix/` are shell scripts that systemd runs outside the program; they touch
nothing the program keeps.

`Delete` is modelled but for its check for web routes (`lifecycle.py` 248-253): no
code of this version writes a route, so the check always finds none.

Known limits of the code, met while modelling. A document speaks against the first two;
they are not runs of their own because one needs no interleaving to be seen and the
other is the exception of a property that is run:

- restart, and rebuild with --restart, start a stopped sandbox without counting the
  running ones (`lifecycle.py` 134-140, 185-189), although `nix/host-module.nix`
  160-163 says that the limit is enforced "before it starts another VM".
- Credentials enrolled between the unwind's look (`state.py` 326) and its `rmtree` (328)
  are lost, although the docstring there (303-306) and `PLAN.md` 280-285 promise that
  an unwind loses none (`late`). With `late` counted as filled, `CredentialsKept` fails.

Of the others no document says otherwise:

- An ssh-keygen killed after it has made the public file and before it has filled it
  leaves an empty one. `ssh.py` 52 takes it for found and 100 refuses it, so every
  build fails until an operator removes the pair.
- A delete killed between the VM directory and the known-hosts file leaves a pin that
  no longer matches; ssh then refuses the sandbox until it is deleted (`strayed`).
- `ensure_known_hosts` looks and then writes: a pin made in between is lost, and the
  next connection trusts the key it meets.
- On a subnet of one or two addresses `validate_ipv4` accepts its ends, which
  `allocation_range` never offers.
- Moving the bridge's address onto a sandbox's address is not noticed by a rebuild.

Abstractions to know of: ssh and ssh-keygen are external; a kill of the command while
its ssh-keygen child runs on is not modelled; a removal is one step although
`rmtree` is many calls; reading a spec and asking systemd at the start of a command
is one step.

What could come next: the TAP script as a module of its own, and a route store for
`Delete` once the code has one.
