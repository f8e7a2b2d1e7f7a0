----------------------------- MODULE Resolvconf -----------------------------
(***************************************************************************)
(* The name a tunnel's resolvers are registered under.  defguard picks it  *)
(* when it registers them; reset_dns must arrive at the same one to take   *)
(* them away (daemon/src/wireguard.rs).                                    *)
(*                                                                         *)
(* A host is what the two of them look at: which resolvconf the PATH finds *)
(* and the interface-order file, missing, unreadable or a list of lines,   *)
(* each a prefix, valid or not, with or without a star at its end and      *)
(* spaces around it.                                                       *)
(***************************************************************************)
EXTENDS Naturals, Sequences

CONSTANTS
  Bare,    \* the interface's own name, with no prefix
  NoFile   \* the interface-order file is missing or cannot be read

Host(prefixes) ==
  [tool : {"binary", "symlink", "none"},
   order : {NoFile} \cup Seq([prefix : prefixes, valid : BOOLEAN,
                              star : BOOLEAN, padded : BOOLEAN])]

Matching(order) == {i \in DOMAIN order : order[i].star /\ order[i].valid}

\* The first line of the form <prefix>*, once trimmed.
InterfaceOrderPrefix(order) ==
  LET first == CHOOSE i \in Matching(order) : \A j \in Matching(order) : i <= j
  IN  IF Matching(order) = {} THEN Bare ELSE order[first].prefix

ResolvconfIfname_AnyTool(host) ==
  IF host.order = NoFile THEN Bare ELSE InterfaceOrderPrefix(host.order)

\* Only openresolv, a real binary with an order file, has prefixed names.
ResolvconfIfname(host) ==
  IF host.order = NoFile \/ host.tool # "binary"
    THEN Bare
    ELSE InterfaceOrderPrefix(host.order)

\* defguard's construct_resolvconf_ifname, from what the comments say of it: the
\* first line matching ^([A-Za-z0-9-]+)\*$, read in turn, under openresolv.  That
\* expression is anchored: a line with spaces around it does not match.
Anchored(line) == line.valid /\ line.star /\ ~line.padded
DefguardIfname(host) ==
  LET read[i \in Nat] ==
        IF i > Len(host.order) THEN Bare
        ELSE IF Anchored(host.order[i]) THEN host.order[i].prefix
        ELSE read[i + 1]
  IN  IF host.tool = "binary" /\ host.order # NoFile THEN read[1] ELSE Bare

\* A host on which the trim makes no difference.
Tidy(host) ==
  host.order # NoFile => \A i \in Matching(host.order) : ~host.order[i].padded
=============================================================================
