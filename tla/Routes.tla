------------------------------- MODULE Routes -------------------------------
(***************************************************************************)
(* The AllowedIPs that get a main-table route of their own, and how the    *)
(* routes are read back and pruned (daemon/src/wireguard.rs).              *)
(*                                                                         *)
(* A prefix is a family, the bits of an address and a length.  A list of   *)
(* prefixes is the set of its members: neither its order nor a repetition  *)
(* matters to ip route.                                                    *)
(***************************************************************************)
EXTENDS Naturals

CONSTANT Width   \* bits of an address: 32 and 128 in the code

ASSUME WidthAssumption == Width \in Nat \ {0}

Prefix == [v6 : BOOLEAN, address : [1..Width -> {0, 1}], cidr : 0..Width]

\* How defguard tells a default route: by the address, whatever its length.
IsUnspecified(p) == \A i \in 1..Width : p.address[i] = 0

\* The host bits cleared.
NetworkPrefix(p) ==
  [p EXCEPT !.address = [i \in 1..Width |-> IF i <= p.cidr THEN p.address[i] ELSE 0]]

\* What the kernel can hold: ip route refuses an address with host bits.
Network == {p \in Prefix : NetworkPrefix(p) = p}

SplitRoutePrefixes(allowed) == {NetworkPrefix(p) : p \in {q \in allowed : ~IsUnspecified(q)}}

\* A peer with a default route among its AllowedIPs gets the kill switch.
HasDefaultRoute(allowed) == \E p \in allowed : IsUnspecified(p)

-----------------------------------------------------------------------------
\* The dst of ip -j route show: "default", a bare address for a host route, or a
\* CIDR.
Dst(r) ==
  IF r.cidr = 0 THEN [form |-> "default", v6 |-> r.v6]
  ELSE IF r.cidr = Width THEN [form |-> "address", v6 |-> r.v6, address |-> r.address]
  ELSE [form |-> "cidr", v6 |-> r.v6, address |-> r.address, cidr |-> r.cidr]

ParseIpRoutePrefixes_CidrOnly(json) ==
  {[v6 |-> d.v6, address |-> d.address, cidr |-> d.cidr] :
     d \in {e \in json : e.form = "cidr"}}

\* A bare address parses as a host route; "default" does not parse.
ParseIpRoutePrefixes(json) ==
  {[v6 |-> d.v6, address |-> d.address,
    cidr |-> IF d.form = "cidr" THEN d.cidr ELSE Width] :
     d \in {e \in json : e.form # "default"}}

\* Each family is read by a command of its own, and one that fails yields nothing.
InstalledSplitRoutes(routes, families) ==
  ParseIpRoutePrefixes({Dst(r) : r \in {q \in routes : q.v6 \in families}})

StaleRoutes_All(installed, wanted) == installed

\* Ours, and not wanted any more.
StaleRoutes(installed, wanted) == installed \ wanted
=============================================================================
