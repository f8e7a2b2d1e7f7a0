-------------------------------- MODULE Api --------------------------------
(***************************************************************************)
(* What clients can say to the daemon and what it tells them               *)
(* (Daemon::handle in daemon/src/daemon.rs, with the definitions of Config *)
(* and the clients of Cli): the stored tunnels, the tunnel on the          *)
(* interface with its handshake, the connecting window, and the edit form  *)
(* of one desktop client, open while others change the list.               *)
(*                                                                         *)
(* Here a request is one step and its save succeeds: what happens inside   *)
(* it, and when a save fails, is Daemon's subject.  The requests that only *)
(* read are functions of the state, ListServers and ReadStatus.  An        *)
(* interface without a tunnel counts as none.  Time passes one unit at a   *)
(* step; no property tells apart ages beyond MaxAge.                       *)
(***************************************************************************)
EXTENDS Cli

CONSTANTS
  Argvs,       \* command lines users run
  NewForms,    \* what users fill into an empty form
  FormPeers,   \* what they type over the peer's key
  FirstFiles,  \* the configurations the daemon may load at first
  StaleAfter, Window,
  MaxStep,     \* bound: how far the wall clock is ever stepped
  Epoch        \* the time of a handshake that never was, as some kernels tell it

MaxAge == StaleAfter + MaxStep
Steps == -MaxStep..MaxStep
NeverShook == {None, Epoch}

ASSUME ApiAssumption ==
  /\ Argvs \subseteq Seq(Texts)
  /\ FirstFiles \subseteq Configs /\ \A c \in FirstFiles : WellNamed(c)
  /\ FormPeers \subseteq Texts
  /\ StaleAfter \in Nat \ {0} /\ Window \in Nat \ {0} /\ MaxStep \in Nat
  /\ None \notin Int /\ Epoch \notin Int /\ None # Epoch
  /\ NewForms \subseteq ServerDetail

VARIABLES
  cfg,    \* the stored tunnels
  dev,    \* the tunnel on the interface, or None: see Device
  since,  \* last_connect: how long ago a connect succeeded, up to Window, or None
  form    \* what the open edit form was filled with, or None

vars == <<cfg, dev, since, form>>

\* shook: the time since the last handshake.  step: by how much the wall clock has
\* been stepped since then.
Device ==
  [key : Keys, peer : Texts, shook : 0..MaxAge \cup NeverShook, step : Steps]

ASSUME DeviceAssumption == None \notin Device

Init ==
  /\ cfg \in FirstFiles
  /\ dev = None
  /\ since = None
  /\ form = None

-----------------------------------------------------------------------------
(* what the daemon reads and answers                                       *)

\* Wireguard::status: the interface, or an error that counts as none.
Live(readable) == IF readable THEN dev ELSE None

ActivePublicKey(live) == IF live = None THEN None ELSE PublicKey(live.key)

Active(s, live) ==
  /\ live # None
  /\ PublicKey(cfg[s].key) # None
  /\ PublicKey(cfg[s].key) = ActivePublicKey(live)

IsConnecting == since # None /\ since < Window

HandshakeAge_EpochIsTime(d) ==
  IF d.shook = None THEN None
  ELSE IF d.shook = Epoch THEN MaxAge
  ELSE IF d.shook + d.step < 0 THEN 0 ELSE d.shook + d.step

\* A handshake in the future, after the clock was stepped back, counts as just made.
HandshakeAge(d) ==
  IF d.shook \in NeverShook THEN None
  ELSE IF d.shook + d.step < 0 THEN 0 ELSE d.shook + d.step

DeriveState(age, connecting) ==
  IF age = None
    THEN IF connecting THEN "connecting" ELSE "never"
    ELSE IF age < StaleAfter THEN "alive" ELSE "stale"

\* The state the list gives the active tunnel: its peer is looked up on the
\* interface by the text stored for it.
ListState(s, live) ==
  DeriveState(IF cfg[s].peer = live.peer THEN HandshakeAge(live) ELSE None,
              IsConnecting)

ListServers(live) ==
  [s \in Stored(cfg) |->
     Info(cfg[s], Active(s, live), IF Active(s, live) THEN ListState(s, live) ELSE None)]

ReadStatus(live) ==
  IF live = None THEN None
  ELSE [peer |-> live.peer, state |-> DeriveState(HandshakeAge(live), IsConnecting)]

-----------------------------------------------------------------------------
(* the requests that change the list                                       *)

\* generate_private_key never repeats one; the model has a bounded supply of them.
FreshKeys ==
  Keys \ ({cfg[s].key : s \in Stored(cfg)} \cup IF dev = None THEN {} ELSE {dev.key})

AddServer(spec) ==
  /\ Trim[spec.name] # Blank
  /\ \E k \in IF spec.key \in {None, Blank} THEN FreshKeys ELSE {spec.key} :
       /\ Validates(Added(spec, k))
       /\ cfg' \in Upserted(cfg, Added(spec, k))
  /\ UNCHANGED <<dev, since, form>>

\* The file may hold any key.
ImportServer(n, conf) ==
  \E k \in Keys :
    AddServer([name |-> n, key |-> k, peer |-> conf.peer, endpoint |-> conf.endpoint,
               allowed |-> conf.allowed, port |-> conf.port, psk |-> conf.psk])

EditServer_ReAdded(spec) ==
  /\ Trim[spec.name] # Blank
  /\ \E k \in IF spec.key = None THEN FreshKeys ELSE {spec.key} :
       /\ Validates(Added(spec, k))
       /\ cfg' \in Upserted(cfg, Added(spec, k))
  /\ UNCHANGED <<dev, since>>

\* An edit never creates, and is refused for the active tunnel, if
\* the interface can be read to tell.
EditServer(spec) ==
  \E s \in FindServer(cfg, Trim[spec.name]), readable \in BOOLEAN :
    /\ Trim[spec.name] # Blank
    /\ cfg[s].key # BadKey
    /\ ~Active(s, Live(readable))
    /\ Validates(Edited(cfg[s], spec))
    /\ cfg' = [cfg EXCEPT ![s] = Edited(cfg[s], spec)]
    /\ UNCHANGED <<dev, since>>

RemoveServer(n) ==
  /\ FindServer(cfg, n) # {}
  /\ cfg' = Removed(cfg, n)
  /\ UNCHANGED <<dev, since, form>>

-----------------------------------------------------------------------------
(* the tunnel                                                              *)

\* Configuring replaces all peers, and the handshakes with them.
Configure(s) ==
  \E never \in NeverShook :
    dev' = [key |-> Meaning(cfg[s]).key, peer |-> Meaning(cfg[s]).peer,
            shook |-> never, step |-> 0]

Switchable_AsStored(s) == TRUE

\* An entry that does not parse fails before the interface is touched.
Switchable(s) == Validates(cfg[s])

SwitchServer(n) ==
  \E s \in FindServer(cfg, n) :
    /\ Switchable(s)
    /\ Configure(s)
    /\ since' = 0
    /\ UNCHANGED <<cfg, form>>

\* Routing, the packet filter or DNS failed, after the interface was configured.
SwitchFails(n) ==
  \E s \in FindServer(cfg, n) :
    /\ Switchable(s)
    /\ Configure(s)
    /\ UNCHANGED <<cfg, since, form>>

Disconnect ==
  /\ dev # None
  /\ dev' = None
  /\ since' = None
  /\ UNCHANGED <<cfg, form>>

\* The removal failed part-way, with the interface gone or not: last_connect stays.
DisconnectFails ==
  /\ dev' \in {dev, None}
  /\ UNCHANGED <<cfg, since, form>>

-----------------------------------------------------------------------------
(* the clients                                                             *)

Handle(request) ==
  CASE request.op = "add" -> AddServer(request.spec)
    [] request.op = "import" -> ImportServer(request.name, request.conf)
    [] request.op = "remove" -> RemoveServer(request.name)
    [] request.op = "switch" ->
         SwitchServer(request.name) \/ SwitchFails(request.name)
    [] request.op = "disconnect" -> Disconnect \/ DisconnectFails
    [] request.op \in {"status", "list", "get"} -> UNCHANGED vars

CommandLine(args) == MainRequest(args) # None /\ Handle(MainRequest(args))

AddForm(fields, key, psk) == AddServer(FormSpec(fields, key, psk))

\* get_server fills the form.
OpenForm(s) ==
  /\ form = None
  /\ form' = Detail(cfg[s])
  /\ UNCHANGED <<cfg, dev, since>>

\* What may be typed over the peer's key and the port.
PeersTyped == {form.peer} \cup FormPeers
PortsTyped == {form.port, None} \cup Ports

\* The name found is the one the form was opened with; the entry need not be.
SaveForm(peer, port, key, psk) ==
  /\ EditServer(FormSpec([form EXCEPT !.peer = peer, !.port = port], key, psk))
  /\ form' = None

CloseForm ==
  /\ form # None
  /\ form' = None
  /\ UNCHANGED <<cfg, dev, since>>

Gui ==
  \/ \E fields \in NewForms, key \in Keys \cup {None}, psk \in Psks \cup {None} :
       AddForm(fields, key, psk)
  \/ \E s \in Stored(cfg) : OpenForm(s)
  \/ /\ form # None
     /\ \E peer \in PeersTyped, port \in PortsTyped,
           key \in Keys \cup {None}, psk \in Psks \cup {None} :
          SaveForm(peer, port, key, psk)
  \/ CloseForm

-----------------------------------------------------------------------------
(* the peer, the clocks and the process                                    *)

Handshake ==
  /\ dev # None
  /\ dev' = [dev EXCEPT !.shook = 0, !.step = 0]
  /\ UNCHANGED <<cfg, since, form>>

Tick ==
  /\ since' = IF since = None \/ since = Window THEN since ELSE since + 1
  /\ dev' = IF dev = None THEN None
            ELSE IF dev.shook \in NeverShook \cup {MaxAge} THEN dev
            ELSE [dev EXCEPT !.shook = @ + 1]
  /\ UNCHANGED <<cfg, form>>

\* Someone sets the wall clock; last_connect is on the monotonic one.
SetClock(by) ==
  /\ dev # None
  /\ dev.shook \notin NeverShook
  /\ dev.step + by \in Steps
  /\ dev' = [dev EXCEPT !.step = @ + by]
  /\ UNCHANGED <<cfg, since, form>>

\* The interface outlives the daemon, not the machine.
Restart ==
  /\ since' = None
  /\ dev' \in {dev, None}
  /\ UNCHANGED <<cfg, form>>

Next ==
  \/ \E args \in Argvs : CommandLine(args)
  \/ Gui
  \/ Handshake
  \/ Tick
  \/ \E by \in {-1, 1} : SetClock(by)
  \/ Restart

Spec == Init /\ [][Next]_vars

-----------------------------------------------------------------------------
TypeOK ==
  /\ cfg \in Configs
  /\ dev \in Device \cup {None}
  /\ since \in 0..Window \cup {None}
  /\ form \in ServerDetail \cup {None}

\* Every tunnel in the list can be acted on by the name it is listed under, typed
\* at the command line or sent back by the form, and by no other: names are
\* trimmed when stored and never when looked up, and an add replaces by name.
ListedIsReachable ==
  \A s \in Stored(cfg) : LET n == cfg[s].name IN
    /\ n # Blank
    /\ FindServer(cfg, n) = {s}
    /\ \A op \in {"switch", "remove", "get"} :
         ParseRequest(<<op, n>>) = [op |-> op, name |-> n]
    /\ FormSpec(Detail(cfg[s]), None, None).name = n
    /\ \A readable \in BOOLEAN : Matches(ListServers(Live(readable))[s], n)

\* Opening the edit form of a tunnel that works and saving it as it is, is accepted
\* (when the tunnel is not the active one) and changes nothing of what it will
\* configure, although the form never sees the secrets: they stay, an unset port
\* stays unset, and no text is cut.
EditKeeps ==
  \A s \in Stored(cfg) : Validates(cfg[s]) =>
    LET e == Edited(cfg[s], FormSpec(Detail(cfg[s]), None, None)) IN
    Validates(e) /\ Meaning(e) = Meaning(cfg[s])

\* A form saved late, after other clients removed the tunnel it shows or replaced
\* it, brings nothing back: an edit finds its entry by the name, or fails, and
\* touches no other.
LateSaveIsEdit ==
  [][form # None /\ form' = None =>
       /\ Stored(cfg') = Stored(cfg)
       /\ \A s \in Stored(cfg) : cfg'[s] # cfg[s] =>
            cfg[s].name = form.name /\ cfg'[s].name = form.name]_vars

\* The state told of the live peer is true of it, whatever was switched, edited,
\* restarted or set: a handshake is never made up nor denied, a clock stepped back
\* errs only towards alive, and one stepped forward only towards stale.
StateIsTrue ==
  dev # None =>
    LET told == ReadStatus(dev).state IN
    /\ told \in {"alive", "stale"} <=> dev.shook \notin NeverShook
    /\ told = "alive" /\ dev.step >= 0 => dev.shook < StaleAfter
    /\ told = "stale" /\ dev.step <= 0 => dev.shook >= StaleAfter

\* The comments on list_servers: the active tunnel's state is derived "using the same
\* rule as read_status", "exactly as read_status does", so that a client renders the
\* two consistently.
StatesAgree ==
  \A s \in Stored(cfg) :
    Active(s, dev) => ListServers(dev)[s].state = ReadStatus(dev).state
=============================================================================
