----------------------------- MODULE Api_proofs -----------------------------
(***************************************************************************)
(* Proofs about Api.  The inductive invariant is the type invariant with   *)
(* WellNamed: names are trimmed on the way in and unique.  What clients    *)
(* are told of the live tunnel, and what the edit form keeps, then follow  *)
(* from the definitions of the answers, for every text, key, age and       *)
(* window.                                                                 *)
(***************************************************************************)
EXTENDS Api, TLAPS

Inv ==
  /\ TypeOK
  /\ WellNamed(cfg)
  /\ form # None => Trim[form.name] = form.name

\* A stored entry has the shape of one.
LEMMA StoredIsEntry ==
  ASSUME NEW c \in Configs, NEW s \in Stored(c)
  PROVE  s \in Slots /\ c[s] \in Entry
BY DEF Configs, Stored

\* add_server makes a well-formed entry with a trimmed name of a valid definition.
LEMMA AddedIsEntry ==
  ASSUME NEW spec \in ServerSpec, NEW k \in Keys \cup {BadKey, Blank, None},
         Validates(Added(spec, k)), k \notin {Blank, None}
  PROVE  /\ Added(spec, k) \in Entry
         /\ Added(spec, k).name = Trim[spec.name]
         /\ Trim[Added(spec, k).name] = Added(spec, k).name
BY TextAssumption, SecretAssumption DEF ServerSpec, Added, Entry, Validates

\* edit_server does, from the entry it edits.
LEMMA EditedIsEntry ==
  ASSUME NEW old \in Entry, NEW spec \in ServerSpec
  PROVE  /\ Edited(old, spec) \in Entry
         /\ Edited(old, spec).name = Trim[spec.name]
         /\ Trim[Edited(old, spec).name] = Edited(old, spec).name
BY TextAssumption, SecretAssumption, Zenon, SMT
DEF ServerSpec, Edited, OrElse, Added, Entry

\* upsert_server keeps names unique.
LEMMA UpsertedKeeps ==
  ASSUME NEW c \in Configs, WellNamed(c), NEW e \in Entry,
         e.name # Blank, Trim[e.name] = e.name, NEW d \in Upserted(c, e)
  PROVE  d \in Configs /\ WellNamed(d)
<1>1. PICK s \in Slots :
        /\ d = [c EXCEPT ![s] = e]
        /\ s \in FindServer(c, e.name) \/ FindServer(c, e.name) = {}
  BY DEF Upserted, FindServer, Stored
<1>2. d \in Configs
  BY <1>1 DEF Configs
<1>3. \A t \in Slots : d[t] = IF t = s THEN e ELSE c[t]
  BY <1>1 DEF Configs
<1>4. \A t \in Stored(d) : t # s => t \in Stored(c) /\ d[t] = c[t] /\ d[t].name # e.name
  BY <1>1, <1>3 DEF Stored, FindServer, WellNamed
<1>5. \A t \in Stored(d) : d[t].name # Blank /\ Trim[d[t].name] = d[t].name
  BY <1>3, <1>4 DEF Stored, WellNamed
<1>6. \A t, u \in Stored(d) : d[t].name = d[u].name => t = u
  BY <1>3, <1>4 DEF Stored, WellNamed
<1>7. QED
  BY <1>2, <1>5, <1>6 DEF WellNamed

\* An edit in place keeps names unique, since the name stays.
LEMMA ReplacedKeeps ==
  ASSUME NEW c \in Configs, WellNamed(c), NEW s \in Stored(c), NEW e \in Entry,
         e.name = c[s].name
  PROVE  /\ [c EXCEPT ![s] = e] \in Configs
         /\ WellNamed([c EXCEPT ![s] = e])
         /\ Stored([c EXCEPT ![s] = e]) = Stored(c)
<1> DEFINE d == [c EXCEPT ![s] = e]
<1>1. d \in Configs /\ s \in Slots
  BY DEF Configs, Stored
<1>2. \A t \in Slots : d[t] = IF t = s THEN e ELSE c[t]
  BY DEF Configs
<1>3. e # None
  BY NoneAssumption
<1>4. Stored(d) = Stored(c)
  BY <1>1, <1>2, <1>3 DEF Stored
<1>5. \A t \in Stored(d) : d[t].name = c[t].name
  BY <1>2, <1>4 DEF Stored
<1>6. QED
  BY <1>1, <1>4, <1>5 DEF WellNamed

LEMMA RemovedKeeps ==
  ASSUME NEW c \in Configs, WellNamed(c), NEW n
  PROVE  Removed(c, n) \in Configs /\ WellNamed(Removed(c, n))
BY DEF Configs, WellNamed, Removed, Stored

-----------------------------------------------------------------------------
(* every step keeps the invariant                                          *)

LEMMA AddServerKeeps ==
  ASSUME Inv, NEW spec \in ServerSpec, AddServer(spec)
  PROVE  Inv'
<1>1. PICK k \in IF spec.key \in {None, Blank} THEN FreshKeys ELSE {spec.key} :
        /\ Validates(Added(spec, k))
        /\ cfg' \in Upserted(cfg, Added(spec, k))
  BY DEF AddServer
<1>2. k \in Keys \cup {BadKey} /\ k \notin {Blank, None}
  BY <1>1, SecretAssumption DEF FreshKeys, ServerSpec
<1>3. /\ Added(spec, k) \in Entry
      /\ Added(spec, k).name # Blank
      /\ Trim[Added(spec, k).name] = Added(spec, k).name
  BY <1>1, <1>2, AddedIsEntry DEF AddServer
<1>4. cfg' \in Configs /\ WellNamed(cfg')
  BY <1>1, <1>3, UpsertedKeeps DEF Inv, TypeOK
<1>5. QED
  BY <1>4 DEF Inv, TypeOK, AddServer

\* An edit changes the entry it names, keeps its name, and adds none.
LEMMA EditServerEffect ==
  ASSUME Inv, NEW spec \in ServerSpec, EditServer(spec)
  PROVE  /\ cfg' \in Configs /\ WellNamed(cfg') /\ Stored(cfg') = Stored(cfg)
         /\ \A s \in Stored(cfg) : cfg'[s] # cfg[s] =>
              cfg[s].name = Trim[spec.name] /\ cfg'[s].name = Trim[spec.name]
<1>1. PICK s \in FindServer(cfg, Trim[spec.name]) :
        cfg' = [cfg EXCEPT ![s] = Edited(cfg[s], spec)]
  BY DEF EditServer
<1>2. s \in Stored(cfg) /\ cfg[s] \in Entry /\ cfg[s].name = Trim[spec.name]
  BY <1>1, StoredIsEntry DEF FindServer, Inv, TypeOK
<1>3. /\ Edited(cfg[s], spec) \in Entry
      /\ Edited(cfg[s], spec).name = cfg[s].name
  BY <1>2, EditedIsEntry
<1>4. cfg' \in Configs /\ WellNamed(cfg') /\ Stored(cfg') = Stored(cfg)
  BY <1>1, <1>2, <1>3, ReplacedKeeps DEF Inv, TypeOK
<1>5. \A t \in Slots : cfg'[t] = IF t = s THEN Edited(cfg[s], spec) ELSE cfg[t]
  BY <1>1 DEF Inv, TypeOK, Configs
<1>6. QED
  BY <1>2, <1>3, <1>4, <1>5 DEF Stored

LEMMA ConfigureType ==
  ASSUME Inv, NEW s \in Stored(cfg), Switchable(s), Configure(s)
  PROVE  dev' \in Device
<1>1. cfg[s] \in Entry
  BY StoredIsEntry DEF Inv, TypeOK
<1>2. cfg[s].key \in Keys /\ PeerOf[cfg[s].peer] \in Texts
  BY <1>1, TextAssumption DEF Switchable, Validates, Entry
<1>3. 0 \in Steps
  BY ApiAssumption DEF Steps
<1>4. QED
  BY <1>2, <1>3 DEF Configure, Meaning, Device

\* The definition the form sends has the shape of one.
LEMMA FormSpecType ==
  ASSUME NEW fields \in ServerDetail, NEW key \in Keys \cup {None},
         NEW psk \in Psks \cup {None}
  PROVE  FormSpec(fields, key, psk) \in ServerSpec
BY TextAssumption DEF ServerDetail, FormSpec, ServerSpec

\* So have the requests of the command line.
LEMMA RequestType ==
  ASSUME NEW args \in Seq(Texts), MainRequest(args) # None
  PROVE  LET r == MainRequest(args) IN
         /\ r.op \in {"add", "import", "remove", "switch", "disconnect",
                      "status", "list", "get"}
         /\ r.op = "add" => r.spec \in ServerSpec
         /\ r.op = "import" => r.name \in Texts /\ r.conf \in Conf
<1> DEFINE r == MainRequest(args)
<1>1. CASE IsImport(args)
  BY <1>1, CliAssumption DEF MainRequest, ImportRequest, IsImport
<1>2. CASE ~IsImport(args)
  <2>1. r = ParseRequest(args)
    BY <1>2 DEF MainRequest
  <2>2. Len(args) >= 5 => AddSpec(args) \in ServerSpec
    BY CliAssumption DEF AddSpec, ServerSpec
  <2>3. QED
    BY <2>1, <2>2 DEF ParseRequest
<1>3. QED
  BY <1>1, <1>2

LEMMA CommandLineKeeps ==
  ASSUME Inv, NEW args \in Argvs, CommandLine(args)
  PROVE  Inv'
<1> DEFINE r == MainRequest(args)
<1>1. /\ r.op \in {"add", "import", "remove", "switch", "disconnect",
                   "status", "list", "get"}
      /\ r.op = "add" => r.spec \in ServerSpec
      /\ r.op = "import" => r.name \in Texts /\ r.conf \in Conf
  BY RequestType, ApiAssumption DEF CommandLine
<1>2. Handle(r)
  BY DEF CommandLine
<1> HIDE DEF r
<1>3. CASE r.op = "add"
  BY <1>1, <1>2, <1>3, AddServerKeeps DEF Handle
<1>4. CASE r.op = "import"
  <2>1. PICK k \in Keys :
          AddServer([name |-> r.name, key |-> k, peer |-> r.conf.peer,
                     endpoint |-> r.conf.endpoint, allowed |-> r.conf.allowed,
                     port |-> r.conf.port, psk |-> r.conf.psk])
    BY <1>2, <1>4 DEF Handle, ImportServer
  <2>2. [name |-> r.name, key |-> k, peer |-> r.conf.peer,
         endpoint |-> r.conf.endpoint, allowed |-> r.conf.allowed,
         port |-> r.conf.port, psk |-> r.conf.psk] \in ServerSpec
    BY <1>1, <1>4 DEF Conf, ServerSpec
  <2>3. QED
    BY <2>1, <2>2, AddServerKeeps
<1>5. CASE r.op = "remove"
  <2>1. RemoveServer(r.name)
    BY <1>2, <1>5 DEF Handle
  <2>2. cfg' \in Configs /\ WellNamed(cfg')
    BY <2>1, RemovedKeeps DEF RemoveServer, Inv, TypeOK
  <2>3. QED
    BY <2>1, <2>2 DEF RemoveServer, Inv, TypeOK
<1>6. CASE r.op = "switch"
  <2>1. SwitchServer(r.name) \/ SwitchFails(r.name)
    BY <1>2, <1>6 DEF Handle
  <2>2. PICK s \in Stored(cfg) : Switchable(s) /\ Configure(s)
    BY <2>1 DEF SwitchServer, SwitchFails, FindServer
  <2>3. dev' \in Device
    BY <2>2, ConfigureType
  <2>4. cfg' = cfg /\ form' = form /\ since' \in {0, since}
    BY <2>1 DEF SwitchServer, SwitchFails
  <2>5. QED
    BY <2>3, <2>4, ApiAssumption DEF Inv, TypeOK, WellNamed, Stored
<1>7. CASE r.op = "disconnect"
  <2>1. Disconnect \/ DisconnectFails
    BY <1>2, <1>7 DEF Handle
  <2>2. QED
    BY <2>1 DEF Disconnect, DisconnectFails, Inv, TypeOK, WellNamed, Stored
<1>8. CASE r.op \in {"status", "list", "get"}
  <2>1. UNCHANGED vars
    BY <1>2, <1>8 DEF Handle
  <2>2. QED
    BY <2>1 DEF vars, Inv, TypeOK, WellNamed, Stored
<1>9. QED
  BY <1>1, <1>3, <1>4, <1>5, <1>6, <1>7, <1>8

\* What is typed into an open form.
LEMMA TypedType ==
  ASSUME Inv, form # None, NEW peer \in PeersTyped, NEW port \in PortsTyped
  PROVE  LET fields == [form EXCEPT !.peer = peer, !.port = port] IN
         fields \in ServerDetail /\ fields.name = form.name
<1>1. form \in ServerDetail
  BY DEF Inv, TypeOK
<1>2. peer \in Texts /\ port \in Ports \cup {NoPort, None}
  BY <1>1, ApiAssumption DEF ServerDetail, PeersTyped, PortsTyped
<1>3. QED
  BY <1>1, <1>2 DEF ServerDetail

LEMMA DetailType ==
  ASSUME NEW e \in Entry
  PROVE  Detail(e) \in ServerDetail
BY DEF Entry, Detail, ServerDetail

LEMMA GuiKeeps ==
  ASSUME Inv, Gui
  PROVE  Inv'
<1>1. CASE \E fields \in NewForms, key \in Keys \cup {None}, psk \in Psks \cup {None} :
             AddForm(fields, key, psk)
  BY <1>1, FormSpecType, AddServerKeeps, ApiAssumption DEF AddForm
<1>2. CASE \E s \in Stored(cfg) : OpenForm(s)
  <2>1. PICK s \in Stored(cfg) : OpenForm(s)
    BY <1>2
  <2>2. form' \in ServerDetail /\ Trim[form'.name] = form'.name
    BY <2>1, StoredIsEntry, DetailType DEF OpenForm, Inv, TypeOK, WellNamed, Detail
  <2>3. QED
    BY <2>1, <2>2 DEF OpenForm, Inv, TypeOK, WellNamed, Stored
<1>3. CASE /\ form # None
           /\ \E peer \in PeersTyped, port \in PortsTyped,
                 key \in Keys \cup {None}, psk \in Psks \cup {None} :
                SaveForm(peer, port, key, psk)
  <2>1. PICK peer \in PeersTyped, port \in PortsTyped,
             key \in Keys \cup {None}, psk \in Psks \cup {None} :
          SaveForm(peer, port, key, psk)
    BY <1>3
  <2> DEFINE fields == [form EXCEPT !.peer = peer, !.port = port]
  <2>0. fields \in ServerDetail
    BY <1>3, TypedType
  <2>2. FormSpec(fields, key, psk) \in ServerSpec
    BY <2>0, FormSpecType
  <2>3. EditServer(FormSpec(fields, key, psk))
    BY <2>1 DEF SaveForm
  <2>4. cfg' \in Configs /\ WellNamed(cfg')
    BY <2>2, <2>3, EditServerEffect
  <2>5. dev' = dev /\ since' = since /\ form' = None
    BY <2>1 DEF SaveForm, EditServer
  <2>6. QED
    BY <2>4, <2>5 DEF Inv, TypeOK
<1>4. CASE CloseForm
  BY <1>4 DEF CloseForm, Inv, TypeOK, WellNamed, Stored
<1>5. QED
  BY <1>1, <1>2, <1>3, <1>4 DEF Gui

LEMMA TickKeeps ==
  ASSUME Inv, Tick
  PROVE  Inv'
<1>1. since' \in 0..Window \cup {None}
  BY ApiAssumption DEF Tick, Inv, TypeOK
<1>2. dev' \in Device \cup {None}
  <2>1. CASE dev = None \/ dev' = dev
    BY <2>1 DEF Tick, Inv, TypeOK
  <2>2. CASE dev # None /\ dev' # dev
    <3>1. dev \in Device /\ dev.shook \in 0..MaxAge /\ dev.shook # MaxAge
      BY <2>2 DEF Tick, Inv, TypeOK, Device
    <3>2. dev' = [dev EXCEPT !.shook = dev.shook + 1]
      BY <2>2 DEF Tick
    <3>3. dev.shook + 1 \in 0..MaxAge
      BY <3>1, ApiAssumption DEF MaxAge
    <3>4. QED
      BY <3>1, <3>2, <3>3 DEF Device
  <2>3. QED
    BY <2>1, <2>2
<1>3. QED
  BY <1>1, <1>2 DEF Tick, Inv, TypeOK, WellNamed, Stored

LEMMA PeerKeeps ==
  ASSUME Inv, Handshake \/ (\E by \in {-1, 1} : SetClock(by)) \/ Restart
  PROVE  Inv'
<1>1. CASE Handshake
  <2>1. 0 \in 0..MaxAge /\ 0 \in Steps
    BY ApiAssumption DEF MaxAge, Steps
  <2>2. dev' \in Device
    BY <1>1, <2>1 DEF Handshake, Inv, TypeOK, Device
  <2>3. QED
    BY <1>1, <2>2 DEF Handshake, Inv, TypeOK, WellNamed, Stored
<1>2. CASE \E by \in {-1, 1} : SetClock(by)
  <2>1. dev' \in Device
    BY <1>2 DEF SetClock, Inv, TypeOK, Device
  <2>2. QED
    BY <1>2, <2>1 DEF SetClock, Inv, TypeOK, WellNamed, Stored
<1>3. CASE Restart
  BY <1>3 DEF Restart, Inv, TypeOK, WellNamed, Stored
<1>4. QED
  BY <1>1, <1>2, <1>3

LEMMA InvHolds == Spec => []Inv
<1>1. Init => Inv
  BY ApiAssumption DEF Init, Inv, TypeOK
<1>2. Inv /\ [Next]_vars => Inv'
  <2> SUFFICES ASSUME Inv, [Next]_vars
               PROVE  Inv'
    OBVIOUS
  <2>1. CASE \E args \in Argvs : CommandLine(args)
    BY <2>1, CommandLineKeeps
  <2>2. CASE Gui
    BY <2>2, GuiKeeps
  <2>3. CASE Tick
    BY <2>3, TickKeeps
  <2>4. CASE Handshake \/ (\E by \in {-1, 1} : SetClock(by)) \/ Restart
    BY <2>4, PeerKeeps
  <2>5. CASE UNCHANGED vars
    BY <2>5 DEF vars, Inv, TypeOK, WellNamed, Stored
  <2>6. QED
    BY <2>1, <2>2, <2>3, <2>4, <2>5 DEF Next
<1>3. QED
  BY <1>1, <1>2, PTL DEF Spec

-----------------------------------------------------------------------------
(* what clients may rely on                                                *)

\* Type correctness of handle: whatever clients send, only well-formed entries are
\* stored, and only parsed ones reach the interface.
THEOREM TypeCorrect == Spec => []TypeOK
<1>1. Inv => TypeOK
  BY DEF Inv
<1>2. QED
  BY <1>1, InvHolds, PTL

\* Every listed tunnel is found under the name it is listed with, by the command
\* line, the form and the filter.
THEOREM ListedIsReachableHolds == Spec => []ListedIsReachable
<1>1. Inv => ListedIsReachable
  <2> SUFFICES ASSUME Inv, NEW s \in Stored(cfg)
               PROVE  LET n == cfg[s].name IN
                      /\ n # Blank
                      /\ FindServer(cfg, n) = {s}
                      /\ \A op \in {"switch", "remove", "get"} :
                           ParseRequest(<<op, n>>) = [op |-> op, name |-> n]
                      /\ FormSpec(Detail(cfg[s]), None, None).name = n
                      /\ \A readable \in BOOLEAN :
                           Matches(ListServers(Live(readable))[s], n)
    BY DEF ListedIsReachable
  <2> DEFINE n == cfg[s].name
  <2>1. cfg[s] \in Entry /\ n \in Texts
    BY StoredIsEntry DEF Inv, TypeOK, Entry
  <2>2. n # Blank /\ Trim[n] = n
    BY DEF Inv, WellNamed
  <2>3. FindServer(cfg, n) = {s}
    BY DEF Inv, WellNamed, FindServer
  <2>4. ASSUME NEW op \in {"switch", "remove", "get"}
        PROVE  ParseRequest(<<op, n>>) = [op |-> op, name |-> n]
    BY DEF ParseRequest
  <2>5. FormSpec(Detail(cfg[s]), None, None).name = n
    BY <2>2 DEF FormSpec, Detail
  <2>6. ASSUME NEW readable \in BOOLEAN
        PROVE  Matches(ListServers(Live(readable))[s], n)
    <3>1. ListServers(Live(readable))[s].name = n
      BY DEF ListServers, Info
    <3>2. Lower[Trim[n]] \in Contains[n]
      BY <2>1, <2>2, TextAssumption
    <3>3. QED
      BY <3>1, <3>2 DEF Matches
  <2>7. QED
    BY <2>2, <2>3, <2>4, <2>5, <2>6
<1>2. QED
  BY <1>1, InvHolds, PTL

\* Saving the edit form as it opened changes nothing of the tunnel.
THEOREM EditKeepsHolds == Spec => []EditKeeps
<1>1. Inv => EditKeeps
  <2> SUFFICES ASSUME Inv, NEW s \in Stored(cfg), Validates(cfg[s])
               PROVE  LET e == Edited(cfg[s], FormSpec(Detail(cfg[s]), None, None)) IN
                      Validates(e) /\ Meaning(e) = Meaning(cfg[s])
    BY DEF EditKeeps
  <2> DEFINE old == cfg[s]
             e == Edited(old, FormSpec(Detail(old), None, None))
  <2>1. old \in Entry
    BY StoredIsEntry DEF Inv, TypeOK
  <2>2. /\ e.key = old.key /\ e.peer = Trim[old.peer] /\ e.psk = old.psk
        /\ e.endpoint = Trim[old.endpoint] /\ e.allowed = old.allowed
    BY DEF Edited, Added, OrElse, FormSpec, Detail
  <2>3. e.port = old.port
    BY <2>1, SecretAssumption DEF Edited, Added, OrElse, FormSpec, Detail, Entry
  <2>4. /\ PeerOf[e.peer] = PeerOf[old.peer]
        /\ Trim[e.endpoint] = Trim[old.endpoint]
        /\ old.endpoint \in Endpoints => e.endpoint \in Endpoints
    BY <2>1, <2>2, TextAssumption DEF Entry
  <2>5. Validates(e)
    BY <2>2, <2>4 DEF Validates
  <2>6. Meaning(e) = Meaning(old)
    BY <2>2, <2>3, <2>4 DEF Meaning
  <2>7. QED
    BY <2>5, <2>6
<1>2. QED
  BY <1>1, InvHolds, PTL

\* A request of the command line leaves the form alone.
LEMMA CommandLineSparesForm ==
  ASSUME NEW args \in Argvs, CommandLine(args)
  PROVE  form' = form
<1> DEFINE r == MainRequest(args)
<1>1. r.op \in {"add", "import", "remove", "switch", "disconnect",
               "status", "list", "get"}
  BY RequestType, ApiAssumption DEF CommandLine
<1>2. Handle(r)
  BY DEF CommandLine
<1> HIDE DEF r
<1>3. CASE r.op = "add"
  BY <1>2, <1>3 DEF Handle, AddServer
<1>4. CASE r.op = "import"
  BY <1>2, <1>4 DEF Handle, ImportServer, AddServer
<1>5. CASE r.op = "remove"
  BY <1>2, <1>5 DEF Handle, RemoveServer
<1>6. CASE r.op = "switch"
  BY <1>2, <1>6 DEF Handle, SwitchServer, SwitchFails
<1>7. CASE r.op = "disconnect"
  BY <1>2, <1>7 DEF Handle, Disconnect, DisconnectFails
<1>8. CASE r.op \in {"status", "list", "get"}
  BY <1>2, <1>8 DEF Handle, vars
<1>9. QED
  BY <1>1, <1>3, <1>4, <1>5, <1>6, <1>7, <1>8

\* A late save of the form is an edit of the entry it names, or nothing.
THEOREM LateSaveHolds == Spec => LateSaveIsEdit
<1>1. Inv /\ [Next]_vars =>
        [form # None /\ form' = None =>
           /\ Stored(cfg') = Stored(cfg)
           /\ \A s \in Stored(cfg) : cfg'[s] # cfg[s] =>
                cfg[s].name = form.name /\ cfg'[s].name = form.name]_vars
  <2> SUFFICES ASSUME Inv, Next, form # None, form' = None
               PROVE  /\ Stored(cfg') = Stored(cfg)
                      /\ \A s \in Stored(cfg) : cfg'[s] # cfg[s] =>
                           cfg[s].name = form.name /\ cfg'[s].name = form.name
    OBVIOUS
  <2>1. CASE CloseForm
    BY <2>1 DEF CloseForm
  <2>2. CASE form # None /\ \E peer \in PeersTyped, port \in PortsTyped,
               key \in Keys \cup {None}, psk \in Psks \cup {None} :
               SaveForm(peer, port, key, psk)
    <3>1. PICK peer \in PeersTyped, port \in PortsTyped,
               key \in Keys \cup {None}, psk \in Psks \cup {None} :
            SaveForm(peer, port, key, psk)
      BY <2>2
    <3> DEFINE fields == [form EXCEPT !.peer = peer, !.port = port]
    <3>2. /\ FormSpec(fields, key, psk) \in ServerSpec
          /\ FormSpec(fields, key, psk).name = Trim[form.name]
      BY TypedType, FormSpecType DEF FormSpec
    <3>3. EditServer(FormSpec(fields, key, psk))
      BY <3>1 DEF SaveForm
    <3>4. Trim[form.name] = form.name
      BY DEF Inv
    <3>5. QED
      BY <3>2, <3>3, <3>4, EditServerEffect
  <2>3. CASE \E args \in Argvs : CommandLine(args)
    BY <2>3, CommandLineSparesForm
  <2>4. CASE \E fields \in NewForms, key \in Keys \cup {None}, psk \in Psks \cup {None} :
               AddForm(fields, key, psk)
    BY <2>4 DEF AddForm, AddServer
  <2>5. CASE \E s \in Stored(cfg) : OpenForm(s)
    BY <2>5 DEF OpenForm
  <2>6. CASE Handshake \/ Tick \/ (\E by \in {-1, 1} : SetClock(by)) \/ Restart
    BY <2>6 DEF Handshake, Tick, SetClock, Restart
  <2>7. QED
    BY <2>1, <2>2, <2>3, <2>4, <2>5, <2>6 DEF Next, Gui
<1>2. QED
  BY <1>1, InvHolds, PTL DEF Spec, LateSaveIsEdit

\* The state a client is told of the live peer is true of it.
THEOREM StateIsTrueHolds == Spec => []StateIsTrue
<1>1. Inv => StateIsTrue
  <2> SUFFICES ASSUME Inv, dev # None
               PROVE  LET told == DeriveState(HandshakeAge(dev), IsConnecting) IN
                      /\ told \in {"alive", "stale"} <=> dev.shook \notin NeverShook
                      /\ told = "alive" /\ dev.step >= 0 => dev.shook < StaleAfter
                      /\ told = "stale" /\ dev.step <= 0 => dev.shook >= StaleAfter
    BY DEF StateIsTrue, ReadStatus
  <2> DEFINE age == HandshakeAge(dev)
             told == DeriveState(age, IsConnecting)
  <2>1. CASE dev.shook \in NeverShook
    <3>1. told \in {"connecting", "never"}
      BY <2>1 DEF HandshakeAge, DeriveState
    <3>2. QED
      BY <2>1, <3>1
  <2>2. CASE dev.shook \notin NeverShook
    <3>1. dev.shook \in Nat /\ dev.step \in Int
      BY <2>2, ApiAssumption DEF Inv, TypeOK, Device, Steps, MaxAge
    <3>2. /\ age \in Nat
          /\ dev.step >= 0 => age >= dev.shook
          /\ dev.step <= 0 => age <= dev.shook
      BY <2>2, <3>1 DEF HandshakeAge
    <3>3. told = IF age < StaleAfter THEN "alive" ELSE "stale"
      BY <3>2, ApiAssumption DEF DeriveState
    <3>4. QED
      BY <2>2, <3>1, <3>2, <3>3, ApiAssumption
  <2>3. QED
    BY <2>1, <2>2
<1>2. QED
  BY <1>1, InvHolds, PTL
=============================================================================
