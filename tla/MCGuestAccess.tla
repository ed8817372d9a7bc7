---------------------------- MODULE MCGuestAccess ----------------------------
(***************************************************************************)
(* A host that moves from one subnet of eight addresses to another, with   *)
(* an allocation range that reaches beyond it.                             *)
(***************************************************************************)
EXTENDS GuestAccess, TLC

CONSTANTS p1, p2, a

OneProc == {p1}
TwoProcs == {p1, p2}
OneName == {a}
Symmetry == Permutations(TwoProcs)

On(base, size, host, start, end) ==
  [base |-> base, size |-> size, host |-> host, start |-> start, end |-> end,
   cidStart |-> 3, cidEnd |-> 4]

Moves == {On(0, 8, 1, 0, 3), On(8, 8, 9, 14, 17)}

Everything == {"create", "rebuild", "delete", "ssh", "reconfigure", "rotate"}
\* What follows two builds that made a key at the same time is not explored.
Uncontested == ~contested

Moving == {"create", "reconfigure"}
Stays == {On(0, 8, 1, 2, 5)}
CreateAndRebuild == {"create", "rebuild"}
=============================================================================
