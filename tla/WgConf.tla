------------------------------- MODULE WgConf -------------------------------
(***************************************************************************)
(* The import of a wg-quick file: wgconf::parse (daemon/src/wgconf.rs).  A *)
(* step reads one line; the text is whatever lines the user's file has.    *)
(*                                                                         *)
(* A line is what is left of it once its comment and surrounding blanks    *)
(* are gone, with section names and keys in lower case.  A value is the    *)
(* sequence of what stands between its commas, Empty where nothing does;   *)
(* tokens stand for keys, addresses and numbers, none of which is looked   *)
(* at here except to see whether a number fits.                            *)
(***************************************************************************)
EXTENDS Naturals, FiniteSets, SequencesExt

CONSTANTS
  Tokens,
  Empty,      \* what stands between two commas with nothing between them
  Unset,      \* a setting the section does not have
  Ipv4All,    \* the token 0.0.0.0/0
  Fits,       \* numeric key -> the tokens that are numbers of its width
  Lines,      \* the lines a file may have
  MaxLines    \* bound: lines of a file

VARIABLES
  text,       \* the lines read so far
  iface,      \* the [Interface] section, if there has been one: at most one element
  peers,      \* the [Peer] sections
  section,    \* which of them the next setting belongs to
  outcome,
  config      \* the ParsedConfig

vars == <<text, iface, peers, section, outcome, config>>

-----------------------------------------------------------------------------
InterfaceKeys ==
  [scalars |-> {"privatekey"}, lists |-> {"address", "dns"},
   numbers |-> {"listenport", "mtu"}]
PeerKeys ==
  [scalars |-> {"publickey", "endpoint", "presharedkey"}, lists |-> {"allowedips"},
   numbers |-> {"persistentkeepalive"}]

Known(keys) == keys.scalars \cup keys.lists \cup keys.numbers
Numbers == InterfaceKeys.numbers \cup PeerKeys.numbers

Values == Seq(Tokens \cup {Empty})

\* What a section may hold.
Slots(keys) == [Known(keys) -> Values \cup {Unset}]

\* Unset is none of the values it is told from, and a line that sets something has a
\* value.
ASSUME WgConfAssumption ==
  /\ Empty \notin Tokens
  /\ Ipv4All \in Tokens
  /\ Unset \notin Values
  /\ Unset \notin [Known(InterfaceKeys) \cup Known(PeerKeys) -> Values \cup {Unset}]
  /\ Fits \in [Numbers -> SUBSET Tokens]
  /\ MaxLines \in Nat
  /\ \A l \in Lines : l.kind = "setting" => l.value \in Values

Csv_EmptyKept(value) == value

\* The value of a line, split at its commas; empty parts are dropped.
Csv(value) ==
  LET kept[i \in 0..Len(value)] ==
        IF i = 0 THEN <<>>
        ELSE IF value[i] = Empty THEN kept[i - 1] ELSE Append(kept[i - 1], value[i])
  IN  kept[Len(value)]

\* Iface::default and PeerAcc::default
Fresh(keys) == [k \in Known(keys) |-> IF k \in keys.lists THEN <<>> ELSE Unset]

Init ==
  /\ text = <<>>
  /\ iface = <<>>
  /\ peers = <<>>
  /\ section = "none"
  /\ outcome = "reading"
  /\ config = Unset

Read(l) ==
  /\ outcome = "reading"
  /\ Len(text) < MaxLines
  /\ text' = Append(text, l)
  /\ config' = config

Accept == outcome' = outcome
Refuse == outcome' = "refused" /\ UNCHANGED <<iface, peers, section>>

\* A blank line, or one that is all comment.
Skip(l) ==
  /\ Read(l)
  /\ l.kind = "blank"
  /\ Accept /\ UNCHANGED <<iface, peers, section>>

Header_Lazy(l) ==
  /\ Read(l)
  /\ l.kind = "header"
  /\ \/ /\ l.name = "interface" /\ iface = <<>>
        /\ iface' = <<Fresh(InterfaceKeys)>>
        /\ section' = "interface"
        /\ Accept /\ peers' = peers
     \/ /\ l.name = "peer"
        /\ section' = "peer"
        /\ Accept /\ UNCHANGED <<iface, peers>>
     \/ (l.name = "interface" => iface # <<>>) /\ l.name # "peer" /\ Refuse

Header(l) ==
  /\ Read(l)
  /\ l.kind = "header"
  /\ \/ /\ l.name = "interface" /\ iface = <<>>
        /\ iface' = <<Fresh(InterfaceKeys)>>
        /\ section' = "interface"
        /\ Accept /\ peers' = peers
     \/ /\ l.name = "peer"
        /\ peers' = Append(peers, Fresh(PeerKeys))
        /\ section' = "peer"
        /\ Accept /\ iface' = iface
     \/ (l.name = "interface" => iface # <<>>) /\ l.name # "peer" /\ Refuse

\* A line without "=".
Malformed(l) == Read(l) /\ l.kind = "malformed" /\ Refuse

\* set_scalar and parse_num: a scalar is given once per section, a number must fit.
Settable(slots, keys, l) ==
  /\ l.key \in keys.scalars => slots[l.key] = Unset
  /\ l.key \in keys.numbers => \E n \in Fits[l.key] : l.value = <<n>>

Set_Replaced(slots, keys, l) ==
  [k \in DOMAIN slots |-> IF k # l.key THEN slots[k]
                          ELSE IF k \in keys.lists THEN Csv(l.value) ELSE l.value]

\* Lists accumulate over lines, other settings take the value; the rest are ignored.
Set(slots, keys, l) ==
  [k \in DOMAIN slots |-> IF k # l.key THEN slots[k]
                          ELSE IF k \in keys.lists THEN slots[k] \o Csv(l.value)
                          ELSE l.value]

Setting(l) ==
  /\ Read(l)
  /\ l.kind = "setting"
  /\ \/ section = "none" /\ Refuse
     \/ /\ section = "interface"
        /\ IF Settable(iface[1], InterfaceKeys, l)
             THEN /\ iface' = [iface EXCEPT ![1] = Set(@, InterfaceKeys, l)]
                  /\ Accept /\ UNCHANGED <<peers, section>>
             ELSE Refuse
     \/ /\ section = "peer"
        /\ IF Settable(Last(peers), PeerKeys, l)
             THEN /\ peers' = [peers EXCEPT ![Len(peers)] = Set(@, PeerKeys, l)]
                  /\ Accept /\ UNCHANGED <<iface, section>>
             ELSE Refuse

Complete_AnyPeer ==
  /\ iface # <<>>
  /\ peers # <<>>
  /\ iface[1]["privatekey"] # Unset
  /\ iface[1]["address"] # <<>>
  /\ peers[1]["publickey"] # Unset
  /\ peers[1]["endpoint"] # Unset

\* One section of each kind, with what a tunnel cannot do without.
Complete ==
  /\ iface # <<>>
  /\ Len(peers) = 1
  /\ iface[1]["privatekey"] # Unset
  /\ iface[1]["address"] # <<>>
  /\ peers[1]["publickey"] # Unset
  /\ peers[1]["endpoint"] # Unset

\* A peer without AllowedIPs is taken for a full tunnel.
AllowedOrAll(allowed) == IF allowed = <<>> THEN <<Ipv4All>> ELSE allowed

Config(i, p) ==
  [k \in DOMAIN i \cup DOMAIN p |->
     IF k \in DOMAIN i THEN i[k]
     ELSE IF k = "allowedips" THEN AllowedOrAll(p[k])
     ELSE p[k]]

\* The end of the text.
End ==
  /\ outcome = "reading"
  /\ \/ Complete /\ outcome' = "parsed" /\ config' = Config(iface[1], peers[1])
     \/ ~Complete /\ outcome' = "refused" /\ config' = config
  /\ UNCHANGED <<text, iface, peers, section>>

Next == End \/ \E l \in Lines : Skip(l) \/ Header(l) \/ Malformed(l) \/ Setting(l)

Spec == Init /\ [][Next]_vars

-----------------------------------------------------------------------------
(* What a file means, read as a whole                                      *)

IsHeader(l, name) == l.kind = "header" /\ l.name = name

\* There is one header of that name and no other.
OneHeader(t, name) ==
  \E i \in 1..Len(t) : \A j \in 1..Len(t) : IsHeader(t[j], name) <=> j = i

\* One section of each kind and nothing outside of them.
SectionsFine(t) ==
  /\ OneHeader(t, "interface") /\ OneHeader(t, "peer")
  /\ \A i \in 1..Len(t) :
       /\ t[i].kind # "malformed"
       /\ t[i].kind = "header" => t[i].name \in {"interface", "peer"}
       /\ t[i].kind = "setting" => \E j \in 1..i : t[j].kind = "header"

\* The section line i of t belongs to: that of the closest header above it.
SectionAt(t, i) ==
  LET above == {j \in 1..i : t[j].kind = "header"}
  IN  IF above = {} THEN "none" ELSE t[CHOOSE j \in above : \A k \in above : k <= j].name

Given(t, name, key) ==
  {i \in 1..Len(t) : t[i].kind = "setting" /\ t[i].key = key /\ SectionAt(t, i) = name}

IsLastOf(i, lines) == i \in lines /\ \A j \in lines : j <= i

\* The parts a list has over all the lines of its section that name it.
Gathered(t, name, key) ==
  Csv(FlattenSeq([i \in 1..Len(t) |->
        IF i \in Given(t, name, key) THEN t[i].value ELSE <<>>]))

KeysAreFine(t, name, keys, required) ==
  /\ \A k \in keys.scalars : Cardinality(Given(t, name, k)) <= 1
  /\ \A k \in keys.numbers : \A i \in Given(t, name, k) : \E n \in Fits[k] : t[i].value = <<n>>
  /\ \A k \in required : Given(t, name, k) # {}

WellFormed(t) ==
  /\ SectionsFine(t)
  /\ KeysAreFine(t, "interface", InterfaceKeys, {"privatekey"})
  /\ KeysAreFine(t, "peer", PeerKeys, {"publickey", "endpoint"})
  /\ Gathered(t, "interface", "address") # <<>>

\* Whether value is what key of a section of t has: a list, what was gathered; a
\* setting given more than once, the last.
Says(t, name, keys, key, value) ==
  IF key \in keys.lists THEN value = Gathered(t, name, key)
  ELSE IF Given(t, name, key) = {} THEN value = Unset
  ELSE \E i \in 1..Len(t) : IsLastOf(i, Given(t, name, key)) /\ value = t[i].value

-----------------------------------------------------------------------------
\* The two sections a setting is stored in exist whenever it is: neither expect of
\* parse fails.
SectionStarted ==
  /\ section = "interface" => iface # <<>>
  /\ section = "peer" => peers # <<>>

TypeOK ==
  /\ text \in Seq(Lines)
  /\ iface \in Seq(Slots(InterfaceKeys)) /\ Len(iface) <= 1
  /\ peers \in Seq(Slots(PeerKeys))
  /\ section \in {"none", "interface", "peer"}
  /\ outcome \in {"reading", "refused", "parsed"}
  /\ \A slots \in ToSet(iface \o peers) : \A k \in {"address", "dns", "allowedips"} :
       k \in DOMAIN slots => slots[k] \in Seq(Tokens)
  /\ config # Unset <=> outcome = "parsed"

\* A file is accepted exactly when it is well-formed as a whole, and then every
\* setting is what the file says in that setting's section, wherever its lines are:
\* nothing is lost, misplaced or taken from the other section.
MeansWhatItSays ==
  outcome # "reading" =>
    /\ outcome = "parsed" <=> WellFormed(text)
    /\ outcome = "parsed" =>
         /\ \A k \in Known(InterfaceKeys) :
              Says(text, "interface", InterfaceKeys, k, config[k])
         /\ \A k \in Known(PeerKeys) \ {"allowedips"} :
              Says(text, "peer", PeerKeys, k, config[k])
         /\ \/ Says(text, "peer", PeerKeys, "allowedips", config["allowedips"])
            \/ /\ Gathered(text, "peer", "allowedips") = <<>>
               /\ config["allowedips"] = <<Ipv4All>>
=============================================================================
