--------------------------- MODULE AtomicFileProofs ---------------------------
(***************************************************************************)
(* What AtomicFile.tla shows, for any number of processes, files, names    *)
(* and inodes: no reader ever finds a truncated file, a rename that was    *)
(* synced survives a crash, and the whole of it implements the atomic      *)
(* register of AtomicRegister.tla.                                         *)
(***************************************************************************)
EXTENDS AtomicFile, TLAPS

LEMMA TypeInit == Init => TypeOK
BY DEF Init, TypeOK, Directory, Content, Locations, Job, NoJob

LEMMA LinkTempIsEntry ==
  ASSUME NEW g \in Path, NEW p \in Proc
  PROVE  /\ LinkTemp(g, p) \in Entry
         /\ LinkTemp(g, p) \notin Path
         /\ LinkTemp(g, p) \notin Temp
BY EntryAssumption DEF LinkTemp, Entry

\* Every step keeps each variable in its type (AtomicFile!TypeOK).
LEMMA TypeStep == TypeOK /\ [Next]_vars => TypeOK'
<1> SUFFICES ASSUME TypeOK, [Next]_vars PROVE TypeOK'
  OBVIOUS
<1> USE DEF TypeOK, Directory, Content, Locations
<1>a. \A p \in Proc : pc[p] # "idle" => /\ job[p].file \in Path
                                        /\ job[p].temp \in Entry
                                        /\ job[p].inode \in Inode \cup {NoInode}
                                        /\ job[p].doc \in Content
  BY DEF Job
<1>b. Path \subseteq Entry /\ Temp \subseteq Entry
  BY DEF Entry
<1>1. ASSUME NEW p \in Proc, NEW g \in Path, NEW d \in Doc, NEW t \in Temp,
             NEW i \in Inode, MakeTemp(p, g, d, t, i)
      PROVE TypeOK'
  <2>1. [file |-> g, temp |-> t, inode |-> i, doc |-> d] \in Job
    BY <1>b DEF Job
  <2> QED BY <2>1, <1>1, <1>b DEF MakeTemp, Goto
<1>2. ASSUME NEW p \in Proc, NEW g \in Path, NEW d \in Doc, ClearLink(p, g, d)
      PROVE TypeOK'
  <2>1. [file |-> g, temp |-> LinkTemp(g, p), inode |-> NoInode, doc |-> d] \in Job
    BY LinkTempIsEntry DEF Job
  <2> QED BY <2>1, <1>2, LinkTempIsEntry DEF ClearLink, Goto
<1>3. ASSUME NEW p \in Proc, NEW g \in Path, Remove(p, g) PROVE TypeOK'
  <2>1. [file |-> g, temp |-> g, inode |-> NoInode, doc |-> Torn] \in Job
    BY <1>b DEF Job
  <2> QED BY <2>1, <1>3, <1>b DEF Remove, Goto
<1>4. ASSUME NEW p \in Proc, Write(p) PROVE TypeOK'
  BY <1>4, <1>a DEF Write, Goto
<1>5. ASSUME NEW p \in Proc, Fsync(p) PROVE TypeOK'
  BY <1>5, <1>a DEF Fsync, Goto
<1>6. ASSUME NEW p \in Proc, Chmod(p) PROVE TypeOK'
  BY <1>6 DEF Chmod, Goto
<1>7. ASSUME NEW p \in Proc, NEW i \in Inode, Symlink(p, i) PROVE TypeOK'
  <2>1. [job[p] EXCEPT !.inode = i] \in Job
    BY <1>7 DEF Symlink, Goto, Job
  <2> QED BY <2>1, <1>7, <1>a DEF Symlink, Goto
<1>8. ASSUME NEW p \in Proc, Replace(p) PROVE TypeOK'
  BY <1>8, <1>a DEF Replace, Goto
<1>9. ASSUME NEW p \in Proc, FsyncDirectory(p) \/ FsyncDirectoryRefused(p)
      PROVE TypeOK'
  BY <1>9 DEF FsyncDirectory, FsyncDirectoryRefused, Goto
<1>10. ASSUME NEW p \in Proc, Return(p) \/ Kill(p) PROVE TypeOK'
  BY <1>10 DEF Return, Kill, Over
<1>11. ASSUME NEW p \in Proc, Raise(p) PROVE TypeOK'
  BY <1>11, <1>a DEF Raise, Over
<1>12. ASSUME NEW i \in Inode, WriteBack(i) PROVE TypeOK'
  BY <1>12 DEF WriteBack
<1>13. ASSUME Commit \/ PowerLoss PROVE TypeOK'
  BY <1>13 DEF Commit, PowerLoss
<1>14. CASE UNCHANGED vars
  BY <1>14 DEF vars
<1> QED
  BY <1>1, <1>2, <1>3, <1>4, <1>5, <1>6, <1>7, <1>8, <1>9, <1>10, <1>11, <1>12,
     <1>13, <1>14 DEF Next, Begins, Step

\* Type correctness of the writes to the state tree (AtomicFile!TypeOK).
THEOREM TypeCorrect == Spec => []TypeOK
BY TypeInit, TypeStep, PTL DEF Spec
-----------------------------------------------------------------------------
LEMMA IInit == Init => IInv
<1> SUFFICES ASSUME Init PROVE IInv
  OBVIOUS
<1>1. TypeOK
  BY TypeInit
<1>2. \A p \in Proc : Own(p) /\ Hidden(p) /\ Prepared(p) /\ Linking(p)
  BY DEF Init, Own, Hidden, Prepared, Linking, NoJob
<1>3. NamedWhole
  <2> SUFFICES ASSUME NEW g \in Path, dir[g] # NoInode PROVE Whole(dir[g])
    BY DEF Init, NamedWhole
  <2>1. dir[g] \in Inode
    BY DEF Init, Directory, Entry
  <2> QED BY <2>1 DEF Init, Whole
<1>4. RenameSurvives
  BY DEF Init, RenameSurvives
<1> QED BY <1>1, <1>2, <1>3, <1>4 DEF IInv

\* What the steps below rely on, taken out of the invariant.
LEMMA Facts ==
  ASSUME IInv
  PROVE  /\ \A p \in Proc : pc[p] # "idle" =>
              /\ job[p].file \in Path
              /\ job[p].temp \in Entry
              /\ job[p].inode \in Inode \cup {NoInode}
         /\ \A p \in Proc : pc[p] \in {"write", "fsync", "chmod", "replace"} =>
              /\ job[p].inode \in Inode
              /\ job[p].temp \notin Path
              /\ \A q \in Proc : q # p => job[q].inode # job[p].inode
              /\ \A g \in Path : dir[g] # job[p].inode /\ diskDir[g] # job[p].inode
         /\ \A p \in Proc : pc[p] = "symlink" =>
              /\ job[p].temp = LinkTemp(job[p].file, p)
              /\ job[p].temp \notin Path
         /\ Path \subseteq Entry
         /\ Temp \subseteq Entry
<1> USE DEF IInv, TypeOK
<1>1. \A p \in Proc : pc[p] # "idle" =>
        /\ job[p].file \in Path
        /\ job[p].temp \in Entry
        /\ job[p].inode \in Inode \cup {NoInode}
  BY DEF Job
<1>2. \A p \in Proc : pc[p] \in {"write", "fsync", "chmod", "replace"} =>
        /\ job[p].inode \in Inode
        /\ job[p].temp \notin Path
        /\ \A q \in Proc : q # p => job[q].inode # job[p].inode
        /\ \A g \in Path : dir[g] # job[p].inode /\ diskDir[g] # job[p].inode
  BY <1>1 DEF Hidden, Own
<1>3. \A p \in Proc : pc[p] = "symlink" =>
        /\ job[p].temp = LinkTemp(job[p].file, p)
        /\ job[p].temp \notin Path
  BY <1>1, LinkTempIsEntry DEF Linking
<1> QED BY <1>1, <1>2, <1>3 DEF Entry

\* An inode that is free is no process's, and no name leads to it.
LEMMA FreeFacts ==
  ASSUME NEW i \in Inode, Free(i)
  PROVE  /\ \A g \in Path : dir[g] # i /\ diskDir[g] # i
         /\ \A p \in Proc : job[p].inode # i
BY DEF Free, Entry
-----------------------------------------------------------------------------
\* The invariant is kept by every step.
LEMMA IStep == IInv /\ [Next]_vars => IInv'
<1> SUFFICES ASSUME IInv, [Next]_vars PROVE IInv'
  OBVIOUS
<1> USE NoInodeAssumption, TornAssumption, EntryAssumption
<1>a. TypeOK /\ TypeOK'
  BY TypeStep DEF IInv
<1>b. \A q \in Proc : Own(q) /\ Hidden(q) /\ Prepared(q) /\ Linking(q)
  BY DEF IInv
<1>c. NamedWhole /\ RenameSurvives
  BY DEF IInv
<1>d. (\A q \in Proc : Own(q) /\ Hidden(q) /\ Prepared(q) /\ Linking(q))'
      /\ NamedWhole' /\ RenameSurvives'
      => IInv'
  BY <1>a DEF IInv
<1>1. ASSUME NEW p \in Proc, NEW g \in Path, NEW d \in Doc, NEW t \in Temp,
             NEW i \in Inode, MakeTemp(p, g, d, t, i) PROVE IInv'
  <2>1. ASSUME NEW q \in Proc PROVE Own(q)'
    BY <1>1, <1>a, <1>b, Facts, FreeFacts DEF Own, MakeTemp, Goto, TypeOK
  <2>2. ASSUME NEW q \in Proc PROVE Hidden(q)'
    BY <1>1, <1>a, <1>b, Facts, FreeFacts DEF Hidden, MakeTemp, Goto, TypeOK, Directory
  <2>3. ASSUME NEW q \in Proc PROVE Prepared(q)'
    BY <1>1, <1>a, <1>b, Facts, FreeFacts DEF Prepared, MakeTemp, Goto, TypeOK
  <2>4. ASSUME NEW q \in Proc PROVE Linking(q)'
    BY <1>1, <1>a, <1>b, Facts, LinkTempIsEntry DEF Linking, MakeTemp, Goto, TypeOK, Directory
  <2>5. NamedWhole'
    BY <1>1, <1>a, <1>b, <1>c, Facts, FreeFacts DEF NamedWhole, Whole, Prepared, MakeTemp, Goto, TypeOK, Directory
  <2>6. RenameSurvives'
    BY <1>1, <1>a, <1>b, <1>c, Facts, FreeFacts DEF RenameSurvives, Prepared, MakeTemp, Goto, TypeOK, Directory
  <2> QED BY <2>1, <2>2, <2>3, <2>4, <2>5, <2>6, <1>d
<1>2. ASSUME NEW p \in Proc, NEW g \in Path, NEW d \in Doc, ClearLink(p, g, d) PROVE IInv'
  <2>1. ASSUME NEW q \in Proc PROVE Own(q)'
    BY <1>2, <1>a, <1>b, Facts, LinkTempIsEntry DEF Own, ClearLink, Goto, TypeOK
  <2>2. ASSUME NEW q \in Proc PROVE Hidden(q)'
    BY <1>2, <1>a, <1>b, Facts, LinkTempIsEntry DEF Hidden, ClearLink, Goto, TypeOK, Directory
  <2>3. ASSUME NEW q \in Proc PROVE Prepared(q)'
    BY <1>2, <1>a, <1>b, Facts, LinkTempIsEntry DEF Prepared, ClearLink, Goto, TypeOK
  <2>4. ASSUME NEW q \in Proc PROVE Linking(q)'
    BY <1>2, <1>a, <1>b, Facts, LinkTempIsEntry DEF Linking, ClearLink, Goto, TypeOK, Directory, LinkTemp
  <2>5. NamedWhole'
    BY <1>2, <1>a, <1>b, <1>c, Facts, LinkTempIsEntry DEF NamedWhole, Whole, Prepared, ClearLink, Goto, TypeOK, Directory
  <2>6. RenameSurvives'
    BY <1>2, <1>a, <1>b, <1>c, Facts, LinkTempIsEntry DEF RenameSurvives, Prepared, ClearLink, Goto, TypeOK, Directory
  <2> QED BY <2>1, <2>2, <2>3, <2>4, <2>5, <2>6, <1>d
<1>3. ASSUME NEW p \in Proc, NEW g \in Path, Remove(p, g) PROVE IInv'
  <2>1. ASSUME NEW q \in Proc PROVE Own(q)'
    BY <1>3, <1>a, <1>b, Facts DEF Own, Remove, Goto, TypeOK
  <2>2. ASSUME NEW q \in Proc PROVE Hidden(q)'
    BY <1>3, <1>a, <1>b, Facts DEF Hidden, Remove, Goto, TypeOK, Directory
  <2>3. ASSUME NEW q \in Proc PROVE Prepared(q)'
    BY <1>3, <1>a, <1>b, Facts DEF Prepared, Remove, Goto, TypeOK
  <2>4. ASSUME NEW q \in Proc PROVE Linking(q)'
    BY <1>3, <1>a, <1>b, Facts DEF Linking, Remove, Goto, TypeOK, Directory, LinkTemp
  <2>5. NamedWhole'
    BY <1>3, <1>a, <1>b, <1>c, Facts DEF NamedWhole, Whole, Prepared, Remove, Goto, TypeOK, Directory
  <2>6. RenameSurvives'
    BY <1>3, <1>a, <1>b, <1>c, Facts DEF RenameSurvives, Prepared, Remove, Goto, TypeOK, Directory
  <2> QED BY <2>1, <2>2, <2>3, <2>4, <2>5, <2>6, <1>d
<1>4. ASSUME NEW p \in Proc, Write(p) PROVE IInv'
  <2>1. ASSUME NEW q \in Proc PROVE Own(q)'
    BY <1>4, <1>a, <1>b, Facts DEF Own, Write, Goto, TypeOK
  <2>2. ASSUME NEW q \in Proc PROVE Hidden(q)'
    BY <1>4, <1>a, <1>b, Facts DEF Hidden, Write, Goto, TypeOK, Directory
  <2>3. ASSUME NEW q \in Proc PROVE Prepared(q)'
    BY <1>4, <1>a, <1>b, Facts DEF Prepared, Write, Goto, TypeOK
  <2>4. ASSUME NEW q \in Proc PROVE Linking(q)'
    BY <1>4, <1>a, <1>b, Facts DEF Linking, Write, Goto, TypeOK, Directory, LinkTemp
  <2>5. NamedWhole'
    BY <1>4, <1>a, <1>b, <1>c, Facts DEF NamedWhole, Whole, Prepared, Write, Goto, TypeOK, Directory
  <2>6. RenameSurvives'
    BY <1>4, <1>a, <1>b, <1>c, Facts DEF RenameSurvives, Prepared, Write, Goto, TypeOK, Directory
  <2> QED BY <2>1, <2>2, <2>3, <2>4, <2>5, <2>6, <1>d
<1>5. ASSUME NEW p \in Proc, Fsync(p) PROVE IInv'
  <2>1. ASSUME NEW q \in Proc PROVE Own(q)'
    BY <1>5, <1>a, <1>b, Facts DEF Own, Fsync, Goto, TypeOK
  <2>2. ASSUME NEW q \in Proc PROVE Hidden(q)'
    BY <1>5, <1>a, <1>b, Facts DEF Hidden, Fsync, Goto, TypeOK, Directory
  <2>3. ASSUME NEW q \in Proc PROVE Prepared(q)'
    BY <1>5, <1>a, <1>b, Facts DEF Prepared, Fsync, Goto, TypeOK
  <2>4. ASSUME NEW q \in Proc PROVE Linking(q)'
    BY <1>5, <1>a, <1>b, Facts DEF Linking, Fsync, Goto, TypeOK, Directory, LinkTemp
  <2>5. NamedWhole'
    BY <1>5, <1>a, <1>b, <1>c, Facts DEF NamedWhole, Whole, Prepared, Fsync, Goto, TypeOK, Directory
  <2>6. RenameSurvives'
    BY <1>5, <1>a, <1>b, <1>c, Facts DEF RenameSurvives, Prepared, Fsync, Goto, TypeOK, Directory
  <2> QED BY <2>1, <2>2, <2>3, <2>4, <2>5, <2>6, <1>d
<1>6. ASSUME NEW p \in Proc, Chmod(p) PROVE IInv'
  <2>1. ASSUME NEW q \in Proc PROVE Own(q)'
    BY <1>6, <1>a, <1>b, Facts DEF Own, Chmod, Goto, TypeOK
  <2>2. ASSUME NEW q \in Proc PROVE Hidden(q)'
    BY <1>6, <1>a, <1>b, Facts DEF Hidden, Chmod, Goto, TypeOK, Directory
  <2>3. ASSUME NEW q \in Proc PROVE Prepared(q)'
    BY <1>6, <1>a, <1>b, Facts DEF Prepared, Chmod, Goto, TypeOK
  <2>4. ASSUME NEW q \in Proc PROVE Linking(q)'
    BY <1>6, <1>a, <1>b, Facts DEF Linking, Chmod, Goto, TypeOK, Directory, LinkTemp
  <2>5. NamedWhole'
    BY <1>6, <1>a, <1>b, <1>c, Facts DEF NamedWhole, Whole, Prepared, Chmod, Goto, TypeOK, Directory
  <2>6. RenameSurvives'
    BY <1>6, <1>a, <1>b, <1>c, Facts DEF RenameSurvives, Prepared, Chmod, Goto, TypeOK, Directory
  <2> QED BY <2>1, <2>2, <2>3, <2>4, <2>5, <2>6, <1>d
<1>7. ASSUME NEW p \in Proc, NEW i \in Inode, Symlink(p, i) PROVE IInv'
  <2>1. ASSUME NEW q \in Proc PROVE Own(q)'
    BY <1>7, <1>a, <1>b, Facts, FreeFacts DEF Own, Symlink, Goto, TypeOK
  <2>2. ASSUME NEW q \in Proc PROVE Hidden(q)'
    BY <1>7, <1>a, <1>b, Facts, FreeFacts DEF Hidden, Symlink, Goto, TypeOK, Directory
  <2>3. ASSUME NEW q \in Proc PROVE Prepared(q)'
    BY <1>7, <1>a, <1>b, Facts, FreeFacts DEF Prepared, Symlink, Goto, TypeOK
  <2>4. ASSUME NEW q \in Proc PROVE Linking(q)'
    BY <1>7, <1>a, <1>b, Facts, FreeFacts DEF Linking, Symlink, Goto, TypeOK, Directory, LinkTemp
  <2>5. NamedWhole'
    BY <1>7, <1>a, <1>b, <1>c, Facts, FreeFacts DEF NamedWhole, Whole, Prepared, Symlink, Goto, TypeOK, Directory
  <2>6. RenameSurvives'
    BY <1>7, <1>a, <1>b, <1>c, Facts, FreeFacts DEF RenameSurvives, Prepared, Symlink, Goto, TypeOK, Directory
  <2> QED BY <2>1, <2>2, <2>3, <2>4, <2>5, <2>6, <1>d
<1>8. ASSUME NEW p \in Proc, Replace(p) PROVE IInv'
  <2>1. ASSUME NEW q \in Proc PROVE Own(q)'
    BY <1>8, <1>a, <1>b, Facts DEF Own, Replace, Goto, TypeOK
  <2>2. ASSUME NEW q \in Proc PROVE Hidden(q)'
    BY <1>8, <1>a, <1>b, Facts DEF Hidden, Replace, Goto, TypeOK, Directory
  <2>3. ASSUME NEW q \in Proc PROVE Prepared(q)'
    BY <1>8, <1>a, <1>b, Facts DEF Prepared, Replace, Goto, TypeOK
  <2>4. ASSUME NEW q \in Proc PROVE Linking(q)'
    BY <1>8, <1>a, <1>b, Facts DEF Linking, Replace, Goto, TypeOK, Directory, LinkTemp
  <2>5. NamedWhole'
    BY <1>8, <1>a, <1>b, <1>c, Facts DEF NamedWhole, Whole, Prepared, Replace, Goto, TypeOK, Directory
  <2>6. RenameSurvives'
    <3> SUFFICES ASSUME NEW q \in synced, job[q].inode # NoInode,
                        dir'[job[q].file] = job[q].inode
                 PROVE  diskDir[job[q].file] = job[q].inode
      BY <1>8 DEF RenameSurvives, Replace
    <3>1. q \in Proc /\ pc[q] = "returned" /\ job[q].file \in Path /\ q # p
      BY <1>8, <1>a, <1>b, Facts DEF Prepared, Replace, Goto, TypeOK
    <3>2. job[q].inode # job[p].inode /\ job[p].temp \notin Path
      BY <1>8, <3>1, Facts DEF Replace, Goto
    <3>3. dir'[job[q].file] = dir[job[q].file]
      BY <1>8, <1>a, <3>1, <3>2, Facts DEF Replace, TypeOK, Directory
    <3> QED BY <3>3, <1>c DEF RenameSurvives
  <2> QED BY <2>1, <2>2, <2>3, <2>4, <2>5, <2>6, <1>d
<1>9. ASSUME NEW p \in Proc, FsyncDirectory(p) PROVE IInv'
  <2>1. ASSUME NEW q \in Proc PROVE Own(q)'
    BY <1>9, <1>a, <1>b, Facts DEF Own, FsyncDirectory, Goto, TypeOK
  <2>2. ASSUME NEW q \in Proc PROVE Hidden(q)'
    BY <1>9, <1>a, <1>b, Facts DEF Hidden, FsyncDirectory, Goto, TypeOK, Directory
  <2>3. ASSUME NEW q \in Proc PROVE Prepared(q)'
    BY <1>9, <1>a, <1>b, Facts DEF Prepared, FsyncDirectory, Goto, TypeOK
  <2>4. ASSUME NEW q \in Proc PROVE Linking(q)'
    BY <1>9, <1>a, <1>b, Facts DEF Linking, FsyncDirectory, Goto, TypeOK, Directory, LinkTemp
  <2>5. NamedWhole'
    BY <1>9, <1>a, <1>b, <1>c, Facts DEF NamedWhole, Whole, Prepared, FsyncDirectory, Goto, TypeOK, Directory
  <2>6. RenameSurvives'
    BY <1>9, <1>a, <1>b, <1>c, Facts DEF RenameSurvives, Prepared, FsyncDirectory, Goto, TypeOK, Directory
  <2> QED BY <2>1, <2>2, <2>3, <2>4, <2>5, <2>6, <1>d
<1>10. ASSUME NEW p \in Proc, FsyncDirectoryRefused(p) PROVE IInv'
  <2>1. ASSUME NEW q \in Proc PROVE Own(q)'
    BY <1>10, <1>a, <1>b, Facts DEF Own, FsyncDirectoryRefused, Goto, TypeOK
  <2>2. ASSUME NEW q \in Proc PROVE Hidden(q)'
    BY <1>10, <1>a, <1>b, Facts DEF Hidden, FsyncDirectoryRefused, Goto, TypeOK, Directory
  <2>3. ASSUME NEW q \in Proc PROVE Prepared(q)'
    BY <1>10, <1>a, <1>b, Facts DEF Prepared, FsyncDirectoryRefused, Goto, TypeOK
  <2>4. ASSUME NEW q \in Proc PROVE Linking(q)'
    BY <1>10, <1>a, <1>b, Facts DEF Linking, FsyncDirectoryRefused, Goto, TypeOK, Directory, LinkTemp
  <2>5. NamedWhole'
    BY <1>10, <1>a, <1>b, <1>c, Facts DEF NamedWhole, Whole, Prepared, FsyncDirectoryRefused, Goto, TypeOK, Directory
  <2>6. RenameSurvives'
    BY <1>10, <1>a, <1>b, <1>c, Facts DEF RenameSurvives, Prepared, FsyncDirectoryRefused, Goto, TypeOK, Directory
  <2> QED BY <2>1, <2>2, <2>3, <2>4, <2>5, <2>6, <1>d
<1>11. ASSUME NEW p \in Proc, Return(p) \/ Kill(p) PROVE IInv'
  <2>1. ASSUME NEW q \in Proc PROVE Own(q)'
    BY <1>11, <1>a, <1>b, Facts DEF Own, Return, Kill, Over, NoJob, TypeOK
  <2>2. ASSUME NEW q \in Proc PROVE Hidden(q)'
    BY <1>11, <1>a, <1>b, Facts DEF Hidden, Return, Kill, Over, NoJob, TypeOK, Directory
  <2>3. ASSUME NEW q \in Proc PROVE Prepared(q)'
    BY <1>11, <1>a, <1>b, Facts DEF Prepared, Return, Kill, Over, NoJob, TypeOK
  <2>4. ASSUME NEW q \in Proc PROVE Linking(q)'
    BY <1>11, <1>a, <1>b, Facts DEF Linking, Return, Kill, Over, NoJob, TypeOK, Directory, LinkTemp
  <2>5. NamedWhole'
    BY <1>11, <1>a, <1>b, <1>c, Facts DEF NamedWhole, Whole, Prepared, Return, Kill, Over, NoJob, TypeOK, Directory
  <2>6. RenameSurvives'
    BY <1>11, <1>a, <1>b, <1>c, Facts DEF RenameSurvives, Prepared, Return, Kill, Over, NoJob, TypeOK, Directory
  <2> QED BY <2>1, <2>2, <2>3, <2>4, <2>5, <2>6, <1>d
<1>12. ASSUME NEW p \in Proc, Raise(p) PROVE IInv'
  <2>1. ASSUME NEW q \in Proc PROVE Own(q)'
    BY <1>12, <1>a, <1>b, Facts DEF Own, Raise, Over, NoJob, TypeOK
  <2>2. ASSUME NEW q \in Proc PROVE Hidden(q)'
    BY <1>12, <1>a, <1>b, Facts DEF Hidden, Raise, Over, NoJob, TypeOK, Directory
  <2>3. ASSUME NEW q \in Proc PROVE Prepared(q)'
    BY <1>12, <1>a, <1>b, Facts DEF Prepared, Raise, Over, NoJob, TypeOK
  <2>4. ASSUME NEW q \in Proc PROVE Linking(q)'
    BY <1>12, <1>a, <1>b, Facts DEF Linking, Raise, Over, NoJob, TypeOK, Directory, LinkTemp
  <2>5. NamedWhole'
    BY <1>12, <1>a, <1>b, <1>c, Facts DEF NamedWhole, Whole, Prepared, Raise, Over, NoJob, TypeOK, Directory
  <2>6. RenameSurvives'
    BY <1>12, <1>a, <1>b, <1>c, Facts DEF RenameSurvives, Prepared, Raise, Over, NoJob, TypeOK, Directory
  <2> QED BY <2>1, <2>2, <2>3, <2>4, <2>5, <2>6, <1>d
<1>13. ASSUME NEW i \in Inode, WriteBack(i) PROVE IInv'
  <2>1. ASSUME NEW q \in Proc PROVE Own(q)'
    BY <1>13, <1>a, <1>b, Facts DEF Own, WriteBack, TypeOK
  <2>2. ASSUME NEW q \in Proc PROVE Hidden(q)'
    BY <1>13, <1>a, <1>b, Facts DEF Hidden, WriteBack, TypeOK, Directory
  <2>3. ASSUME NEW q \in Proc PROVE Prepared(q)'
    BY <1>13, <1>a, <1>b, Facts DEF Prepared, WriteBack, TypeOK
  <2>4. ASSUME NEW q \in Proc PROVE Linking(q)'
    BY <1>13, <1>a, <1>b, Facts DEF Linking, WriteBack, TypeOK, Directory, LinkTemp
  <2>5. NamedWhole'
    BY <1>13, <1>a, <1>b, <1>c, Facts DEF NamedWhole, Whole, Prepared, WriteBack, TypeOK, Directory
  <2>6. RenameSurvives'
    BY <1>13, <1>a, <1>b, <1>c, Facts DEF RenameSurvives, Prepared, WriteBack, TypeOK, Directory
  <2> QED BY <2>1, <2>2, <2>3, <2>4, <2>5, <2>6, <1>d
<1>14. ASSUME Commit PROVE IInv'
  <2>1. ASSUME NEW q \in Proc PROVE Own(q)'
    BY <1>14, <1>a, <1>b, Facts DEF Own, Commit, TypeOK
  <2>2. ASSUME NEW q \in Proc PROVE Hidden(q)'
    BY <1>14, <1>a, <1>b, Facts DEF Hidden, Commit, TypeOK, Directory
  <2>3. ASSUME NEW q \in Proc PROVE Prepared(q)'
    BY <1>14, <1>a, <1>b, Facts DEF Prepared, Commit, TypeOK
  <2>4. ASSUME NEW q \in Proc PROVE Linking(q)'
    BY <1>14, <1>a, <1>b, Facts DEF Linking, Commit, TypeOK, Directory, LinkTemp
  <2>5. NamedWhole'
    BY <1>14, <1>a, <1>b, <1>c, Facts DEF NamedWhole, Whole, Prepared, Commit, TypeOK, Directory
  <2>6. RenameSurvives'
    BY <1>14, <1>a, <1>b, <1>c, Facts DEF RenameSurvives, Prepared, Commit, TypeOK, Directory
  <2> QED BY <2>1, <2>2, <2>3, <2>4, <2>5, <2>6, <1>d
<1>15. ASSUME PowerLoss PROVE IInv'
  <2>1. ASSUME NEW q \in Proc PROVE Own(q)'
    BY <1>15, <1>a, <1>b, Facts DEF Own, PowerLoss, NoJob, TypeOK
  <2>2. ASSUME NEW q \in Proc PROVE Hidden(q)'
    BY <1>15, <1>a, <1>b, Facts DEF Hidden, PowerLoss, NoJob, TypeOK, Directory
  <2>3. ASSUME NEW q \in Proc PROVE Prepared(q)'
    BY <1>15, <1>a, <1>b, Facts DEF Prepared, PowerLoss, NoJob, TypeOK
  <2>4. ASSUME NEW q \in Proc PROVE Linking(q)'
    BY <1>15, <1>a, <1>b, Facts DEF Linking, PowerLoss, NoJob, TypeOK, Directory, LinkTemp
  <2>5. NamedWhole'
    BY <1>15, <1>a, <1>b, <1>c, Facts DEF NamedWhole, Whole, Prepared, PowerLoss, NoJob, TypeOK, Directory
  <2>6. RenameSurvives'
    BY <1>15, <1>a, <1>b, <1>c, Facts DEF RenameSurvives, Prepared, PowerLoss, NoJob, TypeOK, Directory
  <2> QED BY <2>1, <2>2, <2>3, <2>4, <2>5, <2>6, <1>d
<1>16. ASSUME UNCHANGED vars PROVE IInv'
  <2>1. ASSUME NEW q \in Proc PROVE Own(q)'
    BY <1>16, <1>a, <1>b, Facts DEF Own, vars, TypeOK
  <2>2. ASSUME NEW q \in Proc PROVE Hidden(q)'
    BY <1>16, <1>a, <1>b, Facts DEF Hidden, vars, TypeOK, Directory
  <2>3. ASSUME NEW q \in Proc PROVE Prepared(q)'
    BY <1>16, <1>a, <1>b, Facts DEF Prepared, vars, TypeOK
  <2>4. ASSUME NEW q \in Proc PROVE Linking(q)'
    BY <1>16, <1>a, <1>b, Facts DEF Linking, vars, TypeOK, Directory, LinkTemp
  <2>5. NamedWhole'
    BY <1>16, <1>a, <1>b, <1>c, Facts DEF NamedWhole, Whole, Prepared, vars, TypeOK, Directory
  <2>6. RenameSurvives'
    BY <1>16, <1>a, <1>b, <1>c, Facts DEF RenameSurvives, Prepared, vars, TypeOK, Directory
  <2> QED BY <2>1, <2>2, <2>3, <2>4, <2>5, <2>6, <1>d
<1> QED
  BY <1>1, <1>2, <1>3, <1>4, <1>5, <1>6, <1>7, <1>8, <1>9, <1>10, <1>11, <1>12, <1>13, <1>14, <1>15, <1>16
  DEF Next, Begins, Step

\* The inductive invariant of the writes (AtomicFile!IInv).
THEOREM Invariance == Spec => []IInv
BY IInit, IStep, PTL DEF Spec

\* No reader finds a truncated file, whatever is under way, was killed or was
\* interrupted by a power loss (state.atomic_write_bytes, state.atomic_symlink).
THEOREM WholeFiles == Spec => []NeverTruncated
<1>1. IInv => NeverTruncated
  BY DEF IInv, NeverTruncated, Listed, NamedWhole, Whole
<1> QED BY <1>1, Invariance, PTL

\* A rename whose directory was synced is not lost (state._fsync_directory).
THEOREM RenamesLast == Spec => []RenameSurvives
<1>1. IInv => RenameSurvives
  BY DEF IInv
<1> QED BY <1>1, Invariance, PTL

\* The temporary name of a symlink is free when the link is made.
THEOREM LinksGoThrough == Spec => []LinkNotBlocked
<1>1. IInv => LinkNotBlocked
  BY DEF IInv, LinkNotBlocked, Linking
<1> QED BY <1>1, Invariance, PTL
-----------------------------------------------------------------------------
(* The refinement *)

\* The running system and the disk hold the same content under every name.
LEMMA ReadsAgree ==
  ASSUME NamedWhole
  PROVE  /\ Reads(dir, disk) = Reads(dir, data)
         /\ Reads(diskDir, data) = Reads(diskDir, disk)
BY DEF NamedWhole, Whole, Reads

\* Steps that change neither a named inode nor the directory's files.
Quiet ==
  \A g \in Path :
    /\ dir'[g] = dir[g] /\ diskDir'[g] = diskDir[g]
    /\ dir[g] # NoInode => data'[dir[g]] = data[dir[g]]
    /\ diskDir[g] # NoInode => disk'[diskDir[g]] = disk[diskDir[g]]

LEMMA QuietStutters == ASSUME Quiet PROVE UNCHANGED Register!vars
<1>1. Reads(dir, data)' = Reads(dir, data)
  BY DEF Quiet, Reads
<1>2. Reads(diskDir, disk)' = Reads(diskDir, disk)
  BY DEF Quiet, Reads
<1> QED BY <1>1, <1>2 DEF Register!vars

LEMMA RefinesInit == Init => Register!Init
<1> SUFFICES ASSUME Init PROVE Register!Init
  OBVIOUS
<1>1. \A g \in Path : dir[g] # NoInode => data[dir[g]] \in Doc
  BY DEF Init, Directory, Entry
<1>2. Reads(dir, data) \in [Path -> Doc \cup {Absent}]
  BY <1>1 DEF Reads
<1>3. Reads(diskDir, disk) = Reads(dir, data)
  BY DEF Init
<1> QED BY <1>2, <1>3 DEF Register!Init

LEMMA RefinesStep == IInv /\ [Next]_vars => [Register!Next]_(Register!vars)
<1> SUFFICES ASSUME IInv, [Next]_vars
             PROVE  Register!Next \/ UNCHANGED Register!vars
  OBVIOUS
<1> USE NoInodeAssumption, EntryAssumption
<1>a. TypeOK /\ NamedWhole
  BY DEF IInv
<1>1. ASSUME NEW p \in Proc, NEW g \in Path, NEW d \in Doc, NEW t \in Temp,
             NEW i \in Inode, MakeTemp(p, g, d, t, i)
      PROVE UNCHANGED Register!vars
  <2>1. Quiet
    BY <1>1, <1>a, FreeFacts DEF MakeTemp, Quiet, TypeOK, Directory, Entry
  <2> QED BY <2>1, QuietStutters
<1>2. ASSUME NEW p \in Proc, NEW g \in Path, NEW d \in Doc, ClearLink(p, g, d)
      PROVE UNCHANGED Register!vars
  <2>1. Quiet
    BY <1>2, <1>a, LinkTempIsEntry DEF ClearLink, Quiet, TypeOK, Directory
  <2> QED BY <2>1, QuietStutters
<1>3. ASSUME NEW p \in Proc, Write(p) \/ Fsync(p) PROVE UNCHANGED Register!vars
  <2>1. Quiet
    BY <1>3, <1>a, Facts DEF Write, Fsync, Goto, Quiet, TypeOK, Directory
  <2> QED BY <2>1, QuietStutters
<1>4. ASSUME NEW p \in Proc,
             Chmod(p) \/ FsyncDirectoryRefused(p) \/ Return(p) \/ Kill(p)
      PROVE UNCHANGED Register!vars
  <2>1. Quiet
    BY <1>4 DEF Chmod, FsyncDirectoryRefused, Return, Kill, Quiet
  <2> QED BY <2>1, QuietStutters
<1>5. ASSUME NEW p \in Proc, NEW i \in Inode, Symlink(p, i)
      PROVE UNCHANGED Register!vars
  <2>1. Quiet
    BY <1>5, <1>a, Facts, FreeFacts DEF Symlink, Goto, Quiet, TypeOK, Directory
  <2> QED BY <2>1, QuietStutters
<1>6. ASSUME NEW p \in Proc, Raise(p) PROVE UNCHANGED Register!vars
  <2>1. Quiet
    BY <1>6, <1>a, Facts DEF Raise, Quiet, TypeOK, Directory
  <2> QED BY <2>1, QuietStutters
<1>7. ASSUME NEW i \in Inode, WriteBack(i) PROVE UNCHANGED Register!vars
  <2>1. Quiet
    BY <1>7, <1>a DEF WriteBack, Quiet, NamedWhole, Whole, TypeOK
  <2> QED BY <2>1, QuietStutters
\* The rename is where a reader's view changes.
<1>8. ASSUME NEW p \in Proc, Replace(p) PROVE Register!Next
  <2>1. /\ job[p].file \in Path /\ job[p].temp \notin Path /\ job[p].inode \in Inode
        /\ data[job[p].inode] = job[p].doc /\ job[p].doc \in Doc
    BY <1>8, Facts DEF Replace, Goto, IInv, Prepared
  <2>2. \A g \in Path : dir'[g] = IF g = job[p].file THEN job[p].inode ELSE dir[g]
    BY <1>8, <1>a, <2>1, Facts DEF Replace, TypeOK, Directory
  <2>3. Reads(dir', data') = [Reads(dir, data) EXCEPT ![job[p].file] = job[p].doc]
    <3>1. data' = data
      BY <1>8 DEF Replace
    <3>2. ASSUME NEW g \in Path
          PROVE  (IF dir'[g] = NoInode THEN Absent ELSE data'[dir'[g]]) =
                 IF g = job[p].file THEN job[p].doc
                 ELSE IF dir[g] = NoInode THEN Absent ELSE data[dir[g]]
      BY <2>1, <2>2, <3>1
    <3>3. [Reads(dir, data) EXCEPT ![job[p].file] = job[p].doc] =
            [g \in Path |-> IF g = job[p].file THEN job[p].doc
                            ELSE IF dir[g] = NoInode THEN Absent ELSE data[dir[g]]]
      BY <2>1 DEF Reads
    <3> QED BY <3>2, <3>3 DEF Reads
  <2>4. UNCHANGED Reads(diskDir, disk)
    BY <1>8 DEF Replace, Reads
  <2> QED BY <2>1, <2>3, <2>4 DEF Register!Next, Register!Put
<1>9. ASSUME NEW p \in Proc, NEW g \in Path, Remove(p, g) PROVE Register!Next
  <2>1. \A h \in Path : dir'[h] = IF h = g THEN NoInode ELSE dir[h]
    BY <1>9, <1>a DEF Remove, TypeOK, Directory, Entry
  <2>2. Reads(dir', data') = [Reads(dir, data) EXCEPT ![g] = Absent]
    <3>1. data' = data
      BY <1>9 DEF Remove
    <3>2. ASSUME NEW h \in Path
          PROVE  (IF dir'[h] = NoInode THEN Absent ELSE data'[dir'[h]]) =
                 IF h = g THEN Absent
                 ELSE IF dir[h] = NoInode THEN Absent ELSE data[dir[h]]
      BY <2>1, <3>1
    <3>3. [Reads(dir, data) EXCEPT ![g] = Absent] =
            [h \in Path |-> IF h = g THEN Absent
                            ELSE IF dir[h] = NoInode THEN Absent ELSE data[dir[h]]]
      BY DEF Reads
    <3> QED BY <3>2, <3>3 DEF Reads
  <2>3. UNCHANGED Reads(diskDir, disk)
    BY <1>9 DEF Remove, Reads
  <2> QED BY <2>2, <2>3 DEF Register!Next, Register!Drop
<1>10. ASSUME Commit \/ \E p \in Proc : FsyncDirectory(p) PROVE Register!Next
  <2>1. diskDir' = dir /\ UNCHANGED <<dir, data, disk>>
    BY <1>10 DEF Commit, FsyncDirectory
  <2>2. Reads(diskDir', disk') = Reads(dir, data) /\ Reads(dir', data') = Reads(dir, data)
    BY <2>1, <1>a, ReadsAgree
  <2> QED BY <2>2 DEF Register!Next, Register!Settle
<1>11. ASSUME PowerLoss PROVE Register!Next
  <2>1. dir' = diskDir /\ data' = disk /\ diskDir' = diskDir /\ disk' = disk
    BY <1>11 DEF PowerLoss
  <2> QED BY <2>1 DEF Register!Next, Register!Crash
<1>12. CASE UNCHANGED vars
  BY <1>12 DEF vars, Register!vars, Reads
<1> QED
  BY <1>1, <1>2, <1>3, <1>4, <1>5, <1>6, <1>7, <1>8, <1>9, <1>10, <1>11, <1>12
  DEF Next, Begins, Step

\* Temporary file, fsync and rename implement an atomic register, on the disk
\* and for the readers (AtomicFile!RegisterSpec).
THEOREM Implements == Spec => RegisterSpec
BY RefinesInit, RefinesStep, Invariance, PTL DEF Spec, RegisterSpec, Register!Spec
=============================================================================
