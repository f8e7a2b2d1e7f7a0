---------------------------- MODULE Routes_proofs ----------------------------
(***************************************************************************)
(* What the operators on prefixes return, for every width of an address.   *)
(***************************************************************************)
EXTENDS Routes, TLAPS

\* network_prefix returns what the kernel can hold and reports back.
LEMMA NetworkPrefixType ==
  ASSUME NEW p \in Prefix
  PROVE NetworkPrefix(p) \in Network
<1> DEFINE q == NetworkPrefix(p)
           masked == [i \in 1..Width |-> IF i <= p.cidr THEN p.address[i] ELSE 0]
<1>0. masked \in [1..Width -> {0, 1}]
  BY DEF Prefix
<1>1. q \in Prefix /\ q.address = masked /\ q.cidr = p.cidr /\ q.v6 = p.v6
  <2>1. q = [p EXCEPT !.address = masked]
    BY DEF NetworkPrefix
  <2> HIDE DEF q, masked
  <2> QED
    BY <1>0, <2>1 DEF Prefix
<1>2. NetworkPrefix(q).address = q.address
  BY <1>1 DEF NetworkPrefix, Prefix
<1>3. NetworkPrefix(q) = q
  BY <1>1, <1>2 DEF NetworkPrefix, Prefix
<1> QED
  BY <1>1, <1>3 DEF Network

\* split_route_prefixes: every prefix handed to ip route is one it accepts.
LEMMA SplitRoutePrefixesType ==
  ASSUME NEW allowed \in SUBSET Prefix
  PROVE SplitRoutePrefixes(allowed) \subseteq Network
BY NetworkPrefixType DEF SplitRoutePrefixes

\* Reading the routes back returns each of the families read as it was installed,
\* host routes included, and no default route.
LEMMA ReadBackExact ==
  ASSUME NEW routes \in SUBSET Prefix, NEW families
  PROVE InstalledSplitRoutes(routes, families) =
          {r \in routes : r.v6 \in families /\ r.cidr # 0}
<1> DEFINE Json == {Dst(r) : r \in {q \in routes : q.v6 \in families}}
           Back(d) == [v6 |-> d.v6, address |-> d.address,
                       cidr |-> IF d.form = "cidr" THEN d.cidr ELSE Width]
<1>1. ASSUME NEW r \in routes
      PROVE /\ Dst(r).form = "default" <=> r.cidr = 0
            /\ r.cidr # 0 => Back(Dst(r)) = r
  <2>1. r \in Prefix
    OBVIOUS
  <2>2. CASE r.cidr = 0
    BY <2>2 DEF Dst
  <2>3. CASE r.cidr # 0 /\ r.cidr = Width
    <3>1. Dst(r) = [form |-> "address", v6 |-> r.v6, address |-> r.address]
      BY <2>3 DEF Dst
    <3> QED
      BY <2>1, <2>3, <3>1 DEF Prefix
  <2>4. CASE r.cidr # 0 /\ r.cidr # Width
    <3>1. Dst(r) = [form |-> "cidr", v6 |-> r.v6, address |-> r.address, cidr |-> r.cidr]
      BY <2>4 DEF Dst
    <3> QED
      BY <2>1, <2>4, <3>1 DEF Prefix
  <2> QED
    BY <2>2, <2>3, <2>4
<1>2. InstalledSplitRoutes(routes, families) = {Back(d) : d \in {e \in Json : e.form # "default"}}
  BY DEF InstalledSplitRoutes, ParseIpRoutePrefixes
<1> HIDE DEF Back
<1>3. ASSUME NEW r \in routes, r.v6 \in families, r.cidr # 0
      PROVE r \in InstalledSplitRoutes(routes, families)
  BY <1>1, <1>2, <1>3
<1>4. ASSUME NEW r \in InstalledSplitRoutes(routes, families)
      PROVE r \in routes /\ r.v6 \in families /\ r.cidr # 0
  <2>1. PICK q \in routes : q.v6 \in families /\ Dst(q).form # "default" /\ r = Back(Dst(q))
    BY <1>2
  <2> QED
    BY <2>1, <1>1
<1> QED
  BY <1>3, <1>4

\* sync_split_routes, when nothing it runs fails: the new server's prefixes are the
\* only routes left, but for the default routes that no read returns.
THEOREM SyncExact ==
  ASSUME NEW routes \in SUBSET Network, NEW wanted \in SUBSET Network
  PROVE LET installed == routes \cup wanted
            stale == StaleRoutes(InstalledSplitRoutes(installed, BOOLEAN), wanted)
        IN  installed \ stale = wanted \cup {r \in routes : r.cidr = 0}
<1> DEFINE installed == routes \cup wanted
<1>1. installed \in SUBSET Prefix
  BY DEF Network
<1>2. InstalledSplitRoutes(installed, BOOLEAN) = {r \in installed : r.cidr # 0}
  BY <1>1, ReadBackExact DEF Prefix
<1> QED
  BY <1>2 DEF StaleRoutes
=============================================================================
