----------------------------- MODULE MCAllocation -----------------------------
(***************************************************************************)
(* Allocation on a small host: two addresses, two context identifiers, and *)
(* names whose derived hardware addresses collide on the first salt.       *)
(***************************************************************************)
EXTENDS Allocation, TLC

CONSTANTS p1, p2, n1, n2, n3

MCProc == {p1, p2}
MCKind == {"ipv4", "vsock_cid", "mac"}
MCValue == 1 .. 3

\* Three names compete for two addresses, so a range runs out.
MCName == {n1, n2, n3}
Salted == (n1 :> <<1, 2>>) @@ (n2 :> <<1, 3>>) @@ (n3 :> <<3, 1>>)

MCCandidates ==
  [n \in Name |-> [k \in Kind |-> IF k = "mac" THEN Salted[n] ELSE <<1, 2>>]]
=============================================================================
