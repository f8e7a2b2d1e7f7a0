------------------------------ MODULE MCTunnel ------------------------------
(***************************************************************************)
(* Instances of Tunnel for TLC.  Home and Work are full tunnels that share *)
(* the prefix 10/1, which Work spells with host bits; Lab is a split       *)
(* tunnel that shares a host route and its one address, an IPv6 one, with  *)
(* Work, and has an AllowedIP of length 0 that is not the unspecified      *)
(* address; Broken has a private key that does not parse.                  *)
(***************************************************************************)
EXTENDS Tunnel, TLC

CONSTANTS Home, Work, Lab, Broken, a1, a2, a3, lo, tun

P4(address, cidr) == [v6 |-> FALSE, address |-> address, cidr |-> cidr]
P6(address, cidr) == [v6 |-> TRUE, address |-> address, cidr |-> cidr]

MCAddressesOf == (Home :> {a1}) @@ (Work :> {a2, a3}) @@ (Lab :> {a3}) @@ (Broken :> {a3})
MCAllowedOf ==
  (Home :> {P4(<<0, 0>>, 0), P4(<<1, 0>>, 1)}) @@
  (Work :> {P6(<<0, 0>>, 0), P4(<<1, 1>>, 1), P6(<<1, 1>>, 2)}) @@
  (Lab :> {P6(<<1, 1>>, 2), P4(<<1, 0>>, 0)}) @@
  (Broken :> {})

Line(prefix, valid, star, padded) ==
  [prefix |-> prefix, valid |-> valid, star |-> star, padded |-> padded]
OrderFile ==
  <<Line(lo, TRUE, FALSE, FALSE), Line(lo, FALSE, TRUE, TRUE),
    Line(tun, TRUE, TRUE, FALSE), Line(lo, TRUE, TRUE, FALSE)>>
PaddedFile == <<Line(lo, TRUE, TRUE, TRUE), Line(tun, TRUE, TRUE, FALSE)>>

\* systemd-resolved, openresolv with an order file, resolvectl behind a symlink with
\* an order file left over, openresolv with spaces in its order file.
Resolved == [tool |-> "symlink", order |-> NoFile]
Openresolv == [tool |-> "binary", order |-> OrderFile]
Resolvectl == [tool |-> "symlink", order |-> OrderFile]
Padded == [tool |-> "binary", order |-> PaddedFile]

AllFaults ==
  {[faults |-> {"hard", "soft", "read", "remove", "exit"}, host |-> Resolved]}
CleanFaults == [faults : {{"hard", "exit"}}, host : {Openresolv, Resolvectl}]
PartFaults == {[faults |-> {"hard", "remove", "exit"}, host |-> Padded]}
FaultWorlds == AllFaults \cup CleanFaults \cup PartFaults
ReadWorlds == {[faults |-> {"read"}, host |-> Resolved]}
NoFaultWorlds == {[faults |-> {}, host |-> Resolved]}
=============================================================================
