------------------------------ MODULE ControlKey ------------------------------
(***************************************************************************)
(* ssh.ensure_control_key, which every build calls, without a lock, to get *)
(* the public half of the installation's key for the guest it builds.  A   *)
(* key is a number; a pair matches when both halves are the same number.   *)
(***************************************************************************)
EXTENDS Integers

CONSTANTS Proc,    \* CLI processes
          MaxKey   \* bound on the keys ever generated

ASSUME MaxKeyAssumption == MaxKey \in Nat

NoKey == 0    \* no file, or no key
Empty == -1   \* a file with no key in it
Key == 1 .. MaxKey

VARIABLES private,    \* ssh/control_ed25519
          public,     \* ssh/control_ed25519.pub
          lastKey,    \* the keys generated so far are 1 .. lastKey
          retired,    \* keys an operator has taken away to have new ones made
          contested,  \* whether two processes have ever been generating at once
          key,        \* what each process's ssh-keygen is writing, or it has read
          pc          \* where each process is

files == <<private, public>>
keyVars == <<files, lastKey, retired, contested, key>>

GeneratingAt ==
  {"clear private", "clear public", "keygen", "write private", "write public",
   "fill public", "chmod"}
KeyAt == {"key", "read"} \cup GeneratingAt

KeyTypeOK ==
  /\ private \in Key \cup {NoKey}
  /\ public \in Key \cup {NoKey, Empty}
  /\ lastKey \in 0 .. MaxKey
  /\ retired \subseteq Key
  /\ contested \in BOOLEAN
  /\ key \in [Proc -> Key \cup {NoKey}]

KeyInit ==
  /\ private = NoKey
  /\ public = NoKey
  /\ lastKey = 0
  /\ retired = {}
  /\ contested = FALSE
  /\ key = [p \in Proc |-> NoKey]
-----------------------------------------------------------------------------
Goto(p, from, to) ==
  /\ pc[p] = from
  /\ pc' = [pc EXCEPT ![p] = to]

\* Mutant: a pair that is there is generated anew.
FindNothing(p) ==
  /\ Goto(p, "key", "clear private")
  /\ contested' = (contested \/ \E q \in Proc : pc[q] \in GeneratingAt)
  /\ UNCHANGED <<files, lastKey, retired, key>>

\* Both halves exist, whatever is in them, or the pair is to be made.
FindPair(p) ==
  LET found == private # NoKey /\ public # NoKey IN
  /\ Goto(p, "key", IF found THEN "read" ELSE "clear private")
  /\ contested' = (\/ contested
                   \/ ~found /\ \E q \in Proc : pc[q] \in GeneratingAt)
  /\ UNCHANGED <<files, lastKey, retired, key>>

\* A half that a run before left over is removed.
ClearPrivate(p) ==
  /\ Goto(p, "clear private", "clear public")
  /\ private' = NoKey
  /\ UNCHANGED <<public, lastKey, retired, contested, key>>

ClearPublic(p) ==
  /\ Goto(p, "clear public", "keygen")
  /\ public' = NoKey
  /\ UNCHANGED <<private, lastKey, retired, contested, key>>

\* ssh-keygen looks for the private half, which it refuses to overwrite ...
Keygen(p) ==
  /\ Goto(p, "keygen", "write private")
  /\ private = NoKey
  /\ lastKey < MaxKey
  /\ lastKey' = lastKey + 1
  /\ key' = [key EXCEPT ![p] = lastKey + 1]
  /\ UNCHANGED <<files, retired, contested>>

\* ... writes the one half, makes a file for the other ...
WritePrivate(p) ==
  /\ Goto(p, "write private", "write public")
  /\ private' = key[p]
  /\ UNCHANGED <<public, lastKey, retired, contested, key>>

CreatePublic(p) ==
  /\ Goto(p, "write public", "fill public")
  /\ public' = Empty
  /\ UNCHANGED <<private, lastKey, retired, contested, key>>

\* ... and fills it: the file there is, unless its own was taken away meanwhile, or
\* replaced by that of another ssh-keygen.
FillPublic(p) ==
  /\ Goto(p, "fill public", "chmod")
  /\ \/ public # NoKey /\ public' = key[p]
     \/ (public = NoKey \/ contested) /\ UNCHANGED public
  /\ key' = [key EXCEPT ![p] = NoKey]
  /\ UNCHANGED <<private, lastKey, retired, contested>>

\* os.chmod of both, which raises if one is gone since.
ChmodPair(p) ==
  /\ Goto(p, "chmod", "read")
  /\ private # NoKey /\ public # NoKey
  /\ UNCHANGED keyVars

\* read_public_key, which raises StateError when there is no key to read.
ReadPublicKey(p, to) ==
  /\ Goto(p, "read", to)
  /\ public \in Key
  /\ key' = [key EXCEPT ![p] = public]
  /\ UNCHANGED <<files, lastKey, retired, contested>>

\* An operator takes the pair away so that the next build makes another.
Rotate ==
  /\ private # NoKey
  /\ retired' = (retired \cup {private, public}) \ {NoKey, Empty}
  /\ private' = NoKey
  /\ public' = NoKey
  /\ UNCHANGED <<lastKey, contested, key, pc>>

KeyStep(p) ==
  \/ FindPair(p)
  \/ ClearPrivate(p)
  \/ ClearPublic(p)
  \/ Keygen(p)
  \/ WritePrivate(p)
  \/ CreatePublic(p)
  \/ FillPublic(p)
  \/ ChmodPair(p)
  \/ ReadPublicKey(p, "install")
=============================================================================
