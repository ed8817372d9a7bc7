---------------------------- MODULE Configuration ----------------------------
(***************************************************************************)
(* What the host configuration says about the addresses a sandbox may      *)
(* have, as src/sandcastle/config.py hands them out and                    *)
(* src/sandcastle/validate.py and spec.py accept them when a spec is read. *)
(* An address is a number.                                                 *)
(***************************************************************************)
EXTENDS Integers

CONSTANTS Config,           \* host configurations, sound or not
          MinCid, MaxCid    \* MIN_VSOCK_CID and MAX_VSOCK_CID, 3 and 0xFFFFFFFE

\* The subnet by its first address and its size, the address of the bridge, the
\* allocation range, and the range of VSOCK context identifiers.
ASSUME ConfigAssumption ==
  Config \subseteq [base : Int, size : Nat \ {0}, host : Int, start : Int, end : Int,
                    cidStart : Int, cidEnd : Int]
ASSUME CidAssumption == MinCid \in Nat /\ MaxCid \in Nat

Network(c) == c.base .. c.base + c.size - 1
NetworkAndBroadcast(c) == {c.base, c.base + c.size - 1}
-----------------------------------------------------------------------------
(* Mutants: what follows with a slip in it. *)

\* The addresses of the subnet itself are handed out as well.
RangeToTheEnds(c) ==
  {a \in c.start .. c.end :
     /\ \A b \in c.start .. a : b \in Network(c)
     /\ a # c.host}

\* A spec is read without the subnet of the host.
LoadsAnywhere(c, s) == s.cid \in MinCid .. MaxCid
-----------------------------------------------------------------------------
\* Config.allocation_range: what the generator yields, in ascending order, before
\* it ends or, at the first address outside the subnet, fails.
AllocationRange(c) ==
  {a \in c.start .. c.end :
     /\ \A b \in c.start .. a : b \in Network(c)
     /\ a \notin NetworkAndBroadcast(c) \cup {c.host}}

\* Config.cid_range
CidRange(c) == c.cidStart .. c.cidEnd

\* _first_free over ascending values: the set of the value it finds, or of none,
\* be it that they are exhausted or that the generator fails before one is found.
FirstFree(values, taken) ==
  {x \in values \ taken : \A y \in values \ taken : x <= y}

\* validate.validate_ipv4: the two ends of a subnet are refused only where a
\* subnet has ends.
ValidIpv4(address, c, forbidden) ==
  /\ address \in Network(c)
  /\ c.size > 2 => address \notin NetworkAndBroadcast(c)
  /\ address \notin forbidden

\* validate.validate_vsock_cid
ValidCid(cid) == cid \in MinCid .. MaxCid

\* spec.from_dict under a configuration: an address outside the subnet is an error.
Loads(c, s) == ValidIpv4(s.ipv4, c, {}) /\ ValidCid(s.cid)

\* What state.allocate makes of a configuration and the specs it has read.
Allocated(c, specs) ==
  [ipv4 : {a \in FirstFree(AllocationRange(c), {s.ipv4 : s \in specs}) :
             ValidIpv4(a, c, {c.host})},
   cid : {k \in FirstFree(CidRange(c), {s.cid : s \in specs}) : ValidCid(k)}]
=============================================================================
