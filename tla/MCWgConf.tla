------------------------------ MODULE MCWgConf ------------------------------
(***************************************************************************)
(* Instances of WgConf for TLC: the lines a file is made of.  The required *)
(* settings, a list in each section, a number that fits and one that is    *)
(* too wide, a key of the wrong section, and each way a line can be wrong. *)
(***************************************************************************)
EXTENDS WgConf, TLC

CONSTANTS key, net, home, wide

Blank == [kind |-> "blank"]
Garbage == [kind |-> "malformed"]
HeaderOf(name) == [kind |-> "header", name |-> name]
Line(k, value) == [kind |-> "setting", key |-> k, value |-> value]

MCFits ==
  ("listenport" :> {home}) @@ ("mtu" :> {home, wide}) @@ ("persistentkeepalive" :> {home})

MCLines ==
  {Blank, Garbage, HeaderOf("interface"), HeaderOf("peer"), HeaderOf("bogus"),
   Line("privatekey", <<key>>), Line("address", <<net, Empty>>),
   Line("publickey", <<key>>), Line("endpoint", <<home>>),
   Line("allowedips", <<Empty>>), Line("allowedips", <<net, home>>),
   Line("listenport", <<home>>), Line("listenport", <<wide>>)}
=============================================================================
