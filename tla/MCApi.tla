------------------------------- MODULE MCApi -------------------------------
(***************************************************************************)
(* An instance of Api for TLC: two names, one typed with a space around    *)
(* it; one peer, its key spelled as the kernel does, with a space and in   *)
(* base16; a file to import; and a hand-edited file at first.              *)
(***************************************************************************)
EXTENDS Api, TLC

CONSTANTS home, homePad, work, pk, pkPad, pkHex, junk, ep, lan, file,
          Lan, psk1, port1

MCTexts == {Blank, home, homePad, work, pk, pkPad, pkHex, junk, ep, lan, file} \cup Commands
Itself == [t \in MCTexts |-> t]
MCTrim == [Itself EXCEPT ![homePad] = home, ![pkPad] = pk]
MCPeerOf == [[t \in MCTexts |-> None] EXCEPT ![pk] = pk, ![pkPad] = pk, ![pkHex] = pk]
MCContains == [[t \in MCTexts |-> {t}] EXCEPT ![homePad] = {home, homePad}]
MCAllowedOf == [t \in MCTexts |-> Lan]

MCConfs ==
  [f \in {file} |-> [peer |-> pk, endpoint |-> ep, allowed |-> Lan, port |-> port1,
                     psk |-> psk1]]
MCFileStem == [f \in {file} |-> home]

MCArgvs == {
  <<"add", homePad, pkHex, ep, Blank>>,
  <<"add", home, pkPad, ep, Blank, lan>>,
  <<"add", work, junk, ep, Blank>>,
  <<"import", file>>, <<"import", file, work>>, <<"import", junk>>,
  <<"remove", home>>, <<"remove", work>>, <<"switch", home>>, <<"switch", work>>,
  <<"get", home>>, <<"servers", home>>, <<"servers">>, <<"disconnect">>, <<"info">>,
  <<"switch">>, <<>>}

MCNewForms == {[name |-> homePad, peer |-> pk, endpoint |-> ep, allowed |-> DualStack,
                port |-> None, psk |-> FALSE]}

NoEntries == [s \in Slots |-> None]
EditedByHand ==
  {[NoEntries EXCEPT ![s] =
      [name |-> work, key |-> BadKey, peer |-> pk, endpoint |-> ep,
       allowed |-> DualStack, port |-> NoPort, psk |-> None]] : s \in Slots}
MCFirstFiles == {NoEntries} \cup EditedByHand

\* Keys are interchangeable, and so is the room for entries.
Symmetry == Permutations(Keys) \cup Permutations(Slots)
=============================================================================
