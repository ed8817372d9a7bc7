---------------------------- MODULE MCAtomicFile ----------------------------
(***************************************************************************)
(* Two processes on a directory with one file.                             *)
(***************************************************************************)
EXTENDS AtomicFile, TLC

CONSTANTS p1, p2, f, t1, d1, d2, i1, i2, i3

MCProc == {p1, p2}
MCPath == {f}
MCTemp == {t1}
MCDoc == {d1, d2}
MCInode == {i1, i2, i3}
Symmetric == Permutations(MCInode)
=============================================================================
