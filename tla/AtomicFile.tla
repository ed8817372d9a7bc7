------------------------------ MODULE AtomicFile ------------------------------
(***************************************************************************)
(* state.atomic_write_bytes, state.atomic_symlink and Store.remove, step   *)
(* by step, by concurrent processes on one directory of a journalling file *)
(* system: the page cache reaches the disk in any order unless an fsync    *)
(* says otherwise, any call may fail, a process may be killed between two  *)
(* calls, and the host may go down.                                        *)
(***************************************************************************)
EXTENDS Naturals, FiniteSets

CONSTANTS Proc,     \* CLI processes, by their process identifiers
          Path,     \* the names of the files
          Temp,     \* the names mkstemp draws from, all with the prefix .tmp-
          Inode,    \* files on the file system, named or not
          Doc,      \* whole documents, and targets of symlinks
          Torn,     \* content that is not a whole document: empty, or cut short
          Absent,   \* no such file
          NoInode   \* no entry of this name

ASSUME TornAssumption == Torn \notin Doc /\ Absent \notin Doc
ASSUME NoInodeAssumption == NoInode \notin Inode
ASSUME EntryAssumption ==
  Path \cap Temp = {} /\ (Path \cup Temp) \cap (Path \X Proc) = {}

\* .tmp-<file>-<pid>, the temporary name of atomic_symlink.
LinkTemp(f, p) == <<f, p>>
Entry == Path \cup Temp \cup (Path \X Proc)

VARIABLES dir,      \* the directory, as the running system sees it
          diskDir,  \* the directory, as the disk has it
          data,     \* the content of each inode in the page cache
          disk,     \* the content of each inode on the disk
          pc,       \* where each process is
          job,      \* its locals
          synced    \* the processes whose fsync of the directory went through

vars == <<dir, diskDir, data, disk, pc, job, synced>>

Content == Doc \cup {Torn}
Directory == [Entry -> Inode \cup {NoInode}]
Locations == {"idle", "write", "fsync", "chmod", "symlink", "replace", "fsync dir",
              "returned"}

NoFile == "no file"
NoJob == [file |-> NoFile, temp |-> NoFile, inode |-> NoInode, doc |-> Torn]
Job == [file : Path, temp : Entry, inode : Inode \cup {NoInode}, doc : Content]

TypeOK ==
  /\ dir \in Directory
  /\ diskDir \in Directory
  /\ data \in [Inode -> Content]
  /\ disk \in [Inode -> Content]
  /\ pc \in [Proc -> Locations]
  /\ job \in [Proc -> Job \cup {NoJob}]
  /\ \A p \in Proc : pc[p] # "idle" => job[p] \in Job
  /\ synced \subseteq Proc

\* Some files are there, whole and on the disk, and no process is at work.
Init ==
  /\ dir \in Directory
  /\ \A e \in Entry \ Path : dir[e] = NoInode
  /\ \A e, g \in Path : dir[e] = dir[g] /\ dir[e] # NoInode => e = g
  /\ data \in [Inode -> Content]
  /\ \A i \in Inode : data[i] \in Doc <=> \E e \in Path : dir[e] = i
  /\ diskDir = dir
  /\ disk = data
  /\ pc = [p \in Proc |-> "idle"]
  /\ job = [p \in Proc |-> NoJob]
  /\ synced = {}
-----------------------------------------------------------------------------
Goto(p, from, to) ==
  /\ pc[p] = from
  /\ pc' = [pc EXCEPT ![p] = to]

\* An inode that no name and no open file leads to.
Free(i) ==
  /\ \A e \in Entry : dir[e] # i /\ diskDir[e] # i
  /\ \A p \in Proc : job[p].inode # i

\* The call is over, by return, by exception or by a kill.
Over(p) ==
  /\ pc' = [pc EXCEPT ![p] = "idle"]
  /\ job' = [job EXCEPT ![p] = NoJob]
  /\ synced' = synced \ {p}
-----------------------------------------------------------------------------
(* Mutants: the steps below with a slip in them. *)

\* The file is not fsynced before it is renamed.
FsyncForgotten(p) ==
  /\ Goto(p, "fsync", "chmod")
  /\ UNCHANGED <<dir, diskDir, data, disk, job, synced>>

\* The file is opened and written in place.
WriteInPlace(p) ==
  /\ Goto(p, "write", "fsync")
  /\ dir' = [dir EXCEPT ![job[p].file] = job[p].inode]
  /\ data' = [data EXCEPT ![job[p].inode] = job[p].doc]
  /\ UNCHANGED <<diskDir, disk, job, synced>>

\* The directory is taken to be on the disk already.
FsyncDirectoryForgotten(p) ==
  /\ Goto(p, "fsync dir", "returned")
  /\ synced' = synced \cup {p}
  /\ UNCHANGED <<dir, diskDir, data, disk, job>>

\* The leftover of a process that had this pid is not cleared away.
LinkWithoutUnlink(p, f, d) ==
  /\ Goto(p, "idle", "symlink")
  /\ job' = [job EXCEPT ![p] = [file |-> f, temp |-> LinkTemp(f, p),
                                inode |-> NoInode, doc |-> d]]
  /\ UNCHANGED <<dir, diskDir, data, disk, synced>>

\* Store.names lists whatever is in the directory.
ListEverything(e) == dir[e] # NoInode
-----------------------------------------------------------------------------
\* atomic_write_bytes: mkstemp makes an empty file under a name nobody has.
MakeTemp(p, f, d, t, i) ==
  /\ Goto(p, "idle", "write")
  /\ dir[t] = NoInode
  /\ Free(i)
  /\ dir' = [dir EXCEPT ![t] = i]
  /\ data' = [data EXCEPT ![i] = Torn]
  /\ disk' = [disk EXCEPT ![i] = Torn]
  /\ job' = [job EXCEPT ![p] = [file |-> f, temp |-> t, inode |-> i, doc |-> d]]
  /\ UNCHANGED <<diskDir, synced>>

\* stream.write and flush.  Before they are through the file is torn.
Write(p) ==
  /\ Goto(p, "write", "fsync")
  /\ data' = [data EXCEPT ![job[p].inode] = job[p].doc]
  /\ UNCHANGED <<dir, diskDir, disk, job, synced>>

Fsync(p) ==
  /\ Goto(p, "fsync", "chmod")
  /\ disk' = [disk EXCEPT ![job[p].inode] = data[job[p].inode]]
  /\ UNCHANGED <<dir, diskDir, data, job, synced>>

Chmod(p) ==
  /\ Goto(p, "chmod", "replace")
  /\ UNCHANGED <<dir, diskDir, data, disk, job, synced>>

\* atomic_symlink first removes a leftover of its own temporary name ...
ClearLink(p, f, d) ==
  /\ Goto(p, "idle", "symlink")
  /\ dir' = [dir EXCEPT ![LinkTemp(f, p)] = NoInode]
  /\ job' = [job EXCEPT ![p] = [file |-> f, temp |-> LinkTemp(f, p),
                                inode |-> NoInode, doc |-> d]]
  /\ UNCHANGED <<diskDir, data, disk, synced>>

\* ... and makes the link.  A target is in the inode itself, which the journal
\* writes no later than the entry that leads to it.
Symlink(p, i) ==
  /\ Goto(p, "symlink", "replace")
  /\ dir[job[p].temp] = NoInode
  /\ Free(i)
  /\ dir' = [dir EXCEPT ![job[p].temp] = i]
  /\ data' = [data EXCEPT ![i] = job[p].doc]
  /\ disk' = [disk EXCEPT ![i] = job[p].doc]
  /\ job' = [job EXCEPT ![p].inode = i]
  /\ UNCHANGED <<diskDir, synced>>

\* os.replace: one entry goes and the other leads to the new file, at once.
Replace(p) ==
  /\ Goto(p, "replace", "fsync dir")
  /\ dir' = [dir EXCEPT ![job[p].file] = job[p].inode, ![job[p].temp] = NoInode]
  /\ UNCHANGED <<diskDir, data, disk, job, synced>>

\* _fsync_directory ...
FsyncDirectory(p) ==
  /\ Goto(p, "fsync dir", "returned")
  /\ diskDir' = dir
  /\ synced' = synced \cup {p}
  /\ UNCHANGED <<dir, data, disk, job>>

\* ... which takes a refusal of the file system for an answer.
FsyncDirectoryRefused(p) ==
  /\ Goto(p, "fsync dir", "returned")
  /\ UNCHANGED <<dir, diskDir, data, disk, job, synced>>

Return(p) ==
  /\ pc[p] = "returned"
  /\ Over(p)
  /\ UNCHANGED <<dir, diskDir, data, disk>>

\* Whatever is raised before the rename is through: the temporary goes.
Raise(p) ==
  /\ pc[p] \in {"write", "fsync", "chmod", "symlink", "replace"}
  /\ dir' = [dir EXCEPT ![job[p].temp] = NoInode]
  /\ Over(p)
  /\ UNCHANGED <<diskDir, data, disk>>

\* Store.remove of a file that exists.
Remove(p, f) ==
  /\ Goto(p, "idle", "fsync dir")
  /\ dir[f] # NoInode
  /\ dir' = [dir EXCEPT ![f] = NoInode]
  /\ job' = [job EXCEPT ![p] = [file |-> f, temp |-> f, inode |-> NoInode, doc |-> Torn]]
  /\ UNCHANGED <<diskDir, data, disk, synced>>

\* The process is killed, and what it had made stays where it is.
Kill(p) ==
  /\ pc[p] # "idle"
  /\ Over(p)
  /\ UNCHANGED <<dir, diskDir, data, disk>>
-----------------------------------------------------------------------------
\* The kernel writes a file, or the directory, to the disk in its own time.
WriteBack(i) ==
  /\ disk' = [disk EXCEPT ![i] = data[i]]
  /\ UNCHANGED <<dir, diskDir, data, pc, job, synced>>

Commit ==
  /\ diskDir' = dir
  /\ UNCHANGED <<dir, data, disk, pc, job, synced>>

\* The host loses power and comes up again with what the disk has.
PowerLoss ==
  /\ dir' = diskDir
  /\ data' = disk
  /\ pc' = [p \in Proc |-> "idle"]
  /\ job' = [p \in Proc |-> NoJob]
  /\ synced' = {}
  /\ UNCHANGED <<diskDir, disk>>

Step(p) ==
  \/ Write(p)
  \/ Fsync(p)
  \/ Chmod(p)
  \/ \E i \in Inode : Symlink(p, i)
  \/ Replace(p)
  \/ FsyncDirectory(p)
  \/ FsyncDirectoryRefused(p)
  \/ Return(p)

Begins(p, f) ==
  \/ \E d \in Doc, t \in Temp, i \in Inode : MakeTemp(p, f, d, t, i)
  \/ \E d \in Doc : ClearLink(p, f, d)
  \/ Remove(p, f)

Next ==
  \/ \E p \in Proc, f \in Path : Begins(p, f)
  \/ \E p \in Proc : Step(p) \/ Raise(p) \/ Kill(p)
  \/ \E i \in Inode : WriteBack(i)
  \/ Commit
  \/ PowerLoss

Spec == Init /\ [][Next]_vars
-----------------------------------------------------------------------------
\* What Store.names lists: entries that end in .json and begin with no dot.
Listed(e) == dir[e] # NoInode /\ e \in Path

\* Every file a command finds by listing or opening is a whole document, though
\* others are in the middle of writing it, were killed there, or the host went
\* down: "never a truncated file" (state.py).
NeverTruncated == \A e \in Entry : Listed(e) => data[dir[e]] \in Doc

\* Once an fsync of the directory went through, the file just written, as long
\* as nobody has replaced it since, is the one found after a crash.
RenameSurvives ==
  \A p \in synced :
    /\ job[p].inode # NoInode
    /\ dir[job[p].file] = job[p].inode
    => diskDir[job[p].file] = job[p].inode

\* atomic_symlink never meets a temporary name that is taken, not even after a
\* process of the same pid was killed with its link half made.
LinkNotBlocked == \A p \in Proc : pc[p] = "symlink" => dir[job[p].temp] = NoInode

\* Why.  The file in preparation is known to no name but its own temporary one,
\* and is whole and on the disk when its turn comes to be renamed.
Own(p) == job[p].inode # NoInode =>
  \A q \in Proc : q # p => job[q].inode # job[p].inode

Hidden(p) == pc[p] \in {"write", "fsync", "chmod", "replace"} =>
  /\ job[p].inode # NoInode
  /\ job[p].temp \notin Path
  /\ \A f \in Path : dir[f] # job[p].inode /\ diskDir[f] # job[p].inode

Prepared(p) ==
  /\ p \in synced => pc[p] = "returned"
  /\ pc[p] \in {"write", "fsync", "chmod", "symlink", "replace"} => job[p].doc \in Doc
  /\ pc[p] = "fsync" => data[job[p].inode] = job[p].doc
  /\ pc[p] \in {"chmod", "replace"} =>
       data[job[p].inode] = job[p].doc /\ disk[job[p].inode] = job[p].doc

\* Whatever a name leads to, in the running system or on the disk, is whole and
\* the same in both.
Whole(i) == data[i] \in Doc /\ disk[i] = data[i]

NamedWhole ==
  \A f \in Path :
    /\ dir[f] # NoInode => Whole(dir[f])
    /\ diskDir[f] # NoInode => Whole(diskDir[f])

Linking(p) == pc[p] = "symlink" =>
  /\ job[p].temp = LinkTemp(job[p].file, p)
  /\ job[p].inode = NoInode
  /\ dir[job[p].temp] = NoInode

IInv ==
  /\ TypeOK
  /\ \A p \in Proc : Own(p) /\ Hidden(p) /\ Prepared(p) /\ Linking(p)
  /\ NamedWhole
  /\ RenameSurvives

\* A reader sees an atomic register in the running system and on the disk.
Reads(d, c) == [f \in Path |-> IF d[f] = NoInode THEN Absent ELSE c[d[f]]]

Register == INSTANCE AtomicRegister
            WITH value <- Reads(dir, data), safe <- Reads(diskDir, disk)
RegisterSpec == Register!Spec
=============================================================================
