------------------------------- MODULE Config -------------------------------
(***************************************************************************)
(* The stored tunnels, the definitions clients send and the views they get *)
(* back (daemon/src/config.rs, validate_server, the types of               *)
(* proto/src/lib.rs).                                                      *)
(*                                                                         *)
(* A text is a model value; Trim says what is left of it without the       *)
(* spaces around it, Lower folds its case, and PeerOf says what key it     *)
(* spells.  The endpoint stands also for the addresses, the keepalive, the *)
(* MTU and the resolvers, which are checked and copied as it is; the       *)
(* cached address is Daemon's subject.  The list of tunnels is a set of    *)
(* slots: its order is left out.                                           *)
(***************************************************************************)
CONSTANTS
  Slots,      \* room in the list: a bound of the model
  Texts,      \* what clients type
  Blank,      \* the empty text
  Trim, Lower,
  PeerOf,     \* Texts -> the spelling the kernel gives of that key, or None
  Contains,   \* Texts -> the lower-case texts found in it
  Endpoints,  \* the texts that name an endpoint
  AllowedIps, \* the lists of allowed IPs, well formed
  Keys,       \* private keys
  BadKey,     \* a private key that does not parse
  Psks,       \* preshared keys
  Ports,      \* listen ports but 0
  NoPort,     \* 0
  None

ASSUME TextAssumption ==
  /\ Blank \in Texts
  /\ Trim \in [Texts -> Texts] /\ Lower \in [Texts -> Texts]
  /\ PeerOf \in [Texts -> Texts \cup {None}]
  /\ Contains \in [Texts -> SUBSET Texts]
  /\ \A t \in Texts :
       /\ Trim[Trim[t]] = Trim[t]
       /\ PeerOf[Trim[t]] = PeerOf[t]
       /\ t \in Endpoints => Trim[t] \in Endpoints
       /\ Lower[Trim[t]] \in Contains[Trim[t]]

ASSUME SecretAssumption ==
  /\ BadKey \notin Keys
  /\ Blank \notin Keys \cup Psks \cup {BadKey}
  /\ NoPort \notin Ports
  /\ None \notin Texts \cup Keys \cup Psks \cup Ports \cup {NoPort, BadKey}

\* ServerConfig: what is stored.
Entry == [name : Texts, key : Keys \cup {BadKey}, peer : Texts, endpoint : Texts,
          allowed : AllowedIps, port : Ports \cup {NoPort}, psk : Psks \cup {None}]
Configs == [Slots -> Entry \cup {None}]

\* ServerSpec: what a client sends.  None is a field left out.
ServerSpec ==
  [name : Texts, key : Keys \cup {BadKey, Blank, None}, peer : Texts,
   endpoint : Texts, allowed : AllowedIps, port : Ports \cup {NoPort, None},
   psk : Psks \cup {Blank, None}]

\* ServerDetail: what the edit form starts from.
ServerDetail ==
  [name : Texts, peer : Texts, endpoint : Texts, allowed : AllowedIps,
   port : Ports \cup {NoPort, None}, psk : BOOLEAN]

ASSUME NoneAssumption == None \notin Entry \cup ServerDetail

-----------------------------------------------------------------------------
(* the list                                                                *)

Stored(cfg) == {s \in Slots : cfg[s] # None}
FindServer(cfg, n) == {s \in Stored(cfg) : cfg[s].name = n}

\* Names are trimmed, and no two entries share one.
WellNamed(cfg) ==
  /\ \A s \in Stored(cfg) : cfg[s].name # Blank /\ Trim[cfg[s].name] = cfg[s].name
  /\ \A s, t \in Stored(cfg) : cfg[s].name = cfg[t].name => s = t

Upserted_Pushed(cfg, e) == {[cfg EXCEPT ![s] = e] : s \in Slots \ Stored(cfg)}

\* upsert_server: the entry takes the place of the one with its name, or a new one.
Upserted(cfg, e) ==
  {[cfg EXCEPT ![s] = e] :
     s \in IF FindServer(cfg, e.name) # {} THEN FindServer(cfg, e.name)
                                           ELSE Slots \ Stored(cfg)}

\* remove_server: every entry of that name goes.
Removed(cfg, n) == [s \in Slots |-> IF s \in FindServer(cfg, n) THEN None ELSE cfg[s]]

-----------------------------------------------------------------------------
(* what a definition makes of an entry                                     *)

\* The parts of an entry that validate_server parses; whether the endpoint resolves
\* is up to the network.
Validates(e) ==
  /\ e.key # BadKey
  /\ PeerOf[e.peer] # None
  /\ e.endpoint \in Endpoints
  /\ e.psk # Blank

OrElse(secret, other) == IF secret \in {None, Blank} THEN other ELSE secret

Added_NameAsTyped(spec, k) ==
  [name |-> spec.name, key |-> k, peer |-> spec.peer, endpoint |-> spec.endpoint,
   allowed |-> spec.allowed, psk |-> spec.psk,
   port |-> IF spec.port = None THEN NoPort ELSE spec.port]

\* add_server: k is the key supplied, or the one generated.
Added(spec, k) ==
  [name |-> Trim[spec.name], key |-> k, peer |-> spec.peer,
   endpoint |-> spec.endpoint, allowed |-> spec.allowed, psk |-> spec.psk,
   port |-> IF spec.port = None THEN NoPort ELSE spec.port]

Edited_PskForgotten(old, spec) == Added(spec, OrElse(spec.key, old.key))

\* edit_server: a secret left out, or empty, stays.
Edited(old, spec) ==
  [Added(spec, OrElse(spec.key, old.key)) EXCEPT !.psk = OrElse(spec.psk, old.psk)]

-----------------------------------------------------------------------------
(* what clients are told                                                   *)

\* keys::public_key; one that cannot be derived shows as a placeholder.
PublicKey(k) == IF k = BadKey THEN None ELSE [public |-> k]

\* ServerConfig::detail
Detail(e) ==
  [name |-> e.name, peer |-> e.peer, endpoint |-> e.endpoint, allowed |-> e.allowed,
   port |-> IF e.port = NoPort THEN None ELSE e.port,
   psk |-> e.psk # None]

\* ServerConfig::info, and the placeholder list_servers has for one that fails.
Info(e, active, state) ==
  [name |-> e.name, endpoint |-> e.endpoint, public |-> PublicKey(e.key),
   active |-> active, state |-> state]

\* ServerInfo::matches
Matches(info, query) ==
  LET q == Lower[Trim[query]] IN
  q = Blank \/ q \in Contains[info.name] \cup Contains[info.endpoint]

\* What build_interface_config and build_peer make of an entry.
Meaning(e) ==
  [key |-> e.key, peer |-> PeerOf[e.peer], endpoint |-> Trim[e.endpoint],
   allowed |-> e.allowed, port |-> e.port, psk |-> e.psk]
=============================================================================
