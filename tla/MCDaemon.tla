------------------------------ MODULE MCDaemon ------------------------------
(***************************************************************************)
(* Instances of Daemon for TLC: two names, keys to repeat or run out of,   *)
(* endpoints to move between and addresses to rotate.  The state file is   *)
(* missing at first, or edited by hand so that one key does not parse.     *)
(***************************************************************************)
EXTENDS Daemon, TLC

CONSTANTS n1, n2, h1

NoEntries == [n \in Names |-> Nothing]
EditedByHand ==
  [NoEntries EXCEPT ![n1] = [key |-> BadKey, host |-> h1, cached |-> Nothing]]

MCFirstFiles == {NoEntries, EditedByHand}

\* Keys and addresses are interchangeable.
Symmetry == Permutations(Keys) \cup Permutations(Versions)
=============================================================================
