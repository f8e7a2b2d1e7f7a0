------------------------------- MODULE Daemon -------------------------------
(***************************************************************************)
(* Daemon::handle (daemon/src/daemon.rs): the requests that change state,  *)
(* over the configuration in memory, the state file (AtomicFile, which     *)
(* Store implements) and the tunnel (Wireguard, which Tunnel implements).  *)
(* One request is handled at a time; a save or a tunnel call takes several *)
(* steps, and between any two the signal handler may end the process or    *)
(* the machine lose power.                                                 *)
(*                                                                         *)
(* An entry is a tunnel's secrets (key), its endpoint (host) and the       *)
(* address that endpoint resolved to (cached).  Fields that are only       *)
(* validated and copied are left out, and so are requests that only read:  *)
(* what they would answer is Active.  Host names resolve to whatever the   *)
(* environment says at the time, or not at all.                            *)
(***************************************************************************)
EXTENDS Naturals, FiniteSets

CONSTANTS
  Names,
  Keys,         \* private keys that parse
  BadKey,       \* one that does not (a state file edited by hand)
  Hosts,        \* endpoints
  Versions,     \* what a host resolves to, over time
  Nothing,      \* no entry, no address, no tunnel, no save under way
  FullHosts,    \* endpoints whose tunnels are full tunnels
  FirstFiles,   \* the configurations the state file may hold at first
  MaxUnsettled, \* bound: contents a power loss may choose from when a save is cut
  Environment   \* what happens: see the assumption

\* "supply": clients supply private keys, as an import does; "disk": saves fail;
\* "wg": tunnel calls fail; "unread": the interface cannot be read at times;
\* "exit": a signal stops the daemon; "power": the machine restarts.
Address == [host : Hosts, version : Versions]
Entry == [key : Keys \cup {BadKey}, host : Hosts, cached : Address \cup {Nothing}]
Configs == [Names -> Entry \cup {Nothing}]
Tunnels == [key : Keys, host : Hosts]
Full == {t \in Tunnels : t.host \in FullHosts}

\* The fallback address of every entry is one its own endpoint resolved to.
OwnCache(config) ==
  \A n \in Names :
    config[n] # Nothing /\ config[n].cached # Nothing =>
      config[n].cached.host = config[n].host

ASSUME DaemonAssumption ==
  /\ BadKey \notin Keys
  /\ Nothing \notin Entry \cup Address \cup Tunnels \cup Configs
  /\ FullHosts \subseteq Hosts
  /\ FirstFiles \subseteq Configs /\ \A config \in FirstFiles : OwnCache(config)
  /\ Environment \subseteq {"supply", "disk", "wg", "unread", "exit", "power"}

VARIABLES
  cfg,         \* the configuration in memory
  connecting,  \* whether a connect is recent: last_connect within its window
  pc,          \* what the daemon is waiting for
  req,         \* the request being handled, or handled last
  answer,      \* its response
  live, armed, intent, target, reply,   \* the tunnel, see Wireguard
  content, maybe, saving, saved         \* the state file, see AtomicFile

tunnel == <<live, armed, intent, target, reply>>
file == <<content, maybe, saving, saved>>
vars == <<cfg, connecting, pc, req, answer, tunnel, file>>

Wg == INSTANCE Wireguard WITH
  Servers <- Tunnels, NoServer <- Nothing, FullTunnel <- Full
File == INSTANCE AtomicFile WITH Values <- Configs, NoValue <- Nothing

-----------------------------------------------------------------------------
Stored(n) == cfg[n] # Nothing
Requests ==
  [op : {"none", "add", "edit", "remove", "switch", "disconnect"},
   name : Names \cup {Nothing}, addr : Address \cup {Nothing}]
NoRequest == [op |-> "none", name |-> Nothing, addr |-> Nothing]
Request(op, n) == [op |-> op, name |-> n, addr |-> Nothing]

\* The peer's key is its endpoint's: tunnels to one server share it.
ActiveIn_ByPeer(config, n) ==
  live # Nothing /\ config[n] # Nothing /\ config[n].host = live.host

\* list_servers: the tunnel whose own key the interface holds.
ActiveIn(config, n) ==
  live # Nothing /\ config[n] # Nothing /\ config[n].key = live.key
Active(n) == ActiveIn(cfg, n)

Init ==
  /\ cfg \in FirstFiles
  /\ connecting = FALSE
  /\ pc = "Idle"
  /\ req = NoRequest
  /\ answer = "none"
  /\ Wg!WgInit
  /\ File!AfInit(cfg)

\* A request refused before anything changed.
RefuseRequest ==
  /\ pc = "Idle"
  /\ req' = NoRequest
  /\ answer' = "error"
  /\ UNCHANGED <<cfg, connecting, pc, tunnel, file>>

\* persist: the whole configuration is saved.
Persist(r, config) ==
  /\ cfg' = config
  /\ req' = r
  /\ pc' = "Saving"
  /\ answer' = "none"
  /\ File!BeginSave(config)

-----------------------------------------------------------------------------
(* add, import, edit, remove                                               *)

KeysOf(config) == {config[n].key : n \in {m \in Names : config[m] # Nothing}}

KeysInUse ==
  UNION {KeysOf(config) : config \in {cfg} \cup maybe}
  \cup IF live = Nothing THEN {} ELSE {live.key}

\* generate_private_key never repeats one; the model has a bounded supply of them.
FreshKeys == Keys \ KeysInUse

\* add_server: validate_server must have resolved the endpoint.
AddServer(n, k, h) ==
  \/ /\ pc = "Idle"
     /\ \E v \in Versions :
          Persist(Request("add", n),
                  [cfg EXCEPT ![n] = [key |-> k, host |-> h,
                                      cached |-> [host |-> h, version |-> v]]])
     /\ UNCHANGED <<connecting, tunnel>>
  \/ RefuseRequest

Add(n, h) ==
  \E k \in FreshKeys \cup (IF "supply" \in Environment THEN Keys ELSE {}) :
    AddServer(n, k, h)

\* The key is the one in the file; with an empty one, add_server generates it.
Import(n, h) ==
  \E k \in FreshKeys \cup (IF "supply" \in Environment THEN Keys ELSE {}) :
    AddServer(n, k, h)

EditAllowed_NoActiveCheck(n) == Stored(n) /\ cfg[n].key # BadKey

\* The entry exists, its key parses, and it is not the one status finds on the
\* interface; an interface that cannot be read counts as holding none.
EditAllowed(n) ==
  /\ Stored(n)
  /\ cfg[n].key # BadKey
  /\ ~Active(n) \/ "unread" \in Environment

Edited_CacheKept(old, k, h, v) ==
  [key |-> k, host |-> h, cached |-> old.cached]

\* resolved_endpoint is reset and taken anew from the endpoint as edited.
Edited(old, k, h, v) ==
  [key |-> k, host |-> h, cached |-> [host |-> h, version |-> v]]

\* Without a new key the stored one stays.
Edit(n, h) ==
  \/ /\ pc = "Idle"
     /\ EditAllowed(n)
     /\ \E k \in {cfg[n].key} \cup (IF "supply" \in Environment THEN Keys ELSE {}),
           v \in Versions :
          Persist(Request("edit", n), [cfg EXCEPT ![n] = Edited(cfg[n], k, h, v)])
     /\ UNCHANGED <<connecting, tunnel>>
  \/ RefuseRequest

Remove(n) ==
  \/ /\ pc = "Idle"
     /\ Stored(n)
     /\ Persist(Request("remove", n), [cfg EXCEPT ![n] = Nothing])
     /\ UNCHANGED <<connecting, tunnel>>
  \/ ~Stored(n) /\ RefuseRequest

-----------------------------------------------------------------------------
(* switch and disconnect                                                   *)

\* Any other entry is unknown, or fails before the tunnel is touched.
Switchable(n) == Stored(n) /\ cfg[n].key # BadKey

\* The entry is cloned and handed to Wireguard::switch.
Switch(n) ==
  \/ /\ pc = "Idle"
     /\ Switchable(n)
     /\ Wg!Ask([key |-> cfg[n].key, host |-> cfg[n].host])
     /\ pc' = "Switching"
     /\ req' = Request("switch", n)
     /\ answer' = "none"
     /\ UNCHANGED <<cfg, connecting, file>>
  \/ /\ ~Switchable(n) \/ "wg" \in Environment
     /\ RefuseRequest

Disconnect ==
  /\ pc = "Idle"
  /\ Wg!AskDisconnect
  /\ pc' = "Disconnecting"
  /\ req' = Request("disconnect", Nothing)
  /\ answer' = "none"
  /\ UNCHANGED <<cfg, connecting, file>>

TunnelStep ==
  /\ pc \in {"Switching", "Disconnecting"}
  /\ \/ Wg!Progress /\ live' # live
     \/ Wg!Progress /\ armed' # armed
     \/ Wg!Switched
     \/ Wg!TearDown
     \/ Wg!Disconnected
     \/ "wg" \in Environment /\ (Wg!SwitchFailed \/ Wg!TearDownFailed)
     \/ ("wg" \in Environment \/ live = Nothing) /\ Wg!DisconnectFailed
  /\ UNCHANGED <<cfg, connecting, pc, req, answer, file>>

\* or_cached: what the host resolves to now, or the cached address when it does not.
Endpoints(entry) ==
  [host : {entry.host}, version : Versions] \cup ({entry.cached} \ {Nothing})

Connected_MemoryOnly ==
  /\ connecting' = TRUE
  /\ \E a \in Endpoints(cfg[req.name]) :
       /\ req' = [req EXCEPT !.addr = a]
       /\ cfg' = [cfg EXCEPT ![req.name].cached = a]
  /\ pc' = "Idle"
  /\ answer' = "ok"
  /\ UNCHANGED <<tunnel, file>>

\* The endpoint cache follows every successful connection, and is saved when it
\* changed.
Connected ==
  /\ connecting' = TRUE
  /\ \E a \in Endpoints(cfg[req.name]) :
       IF cfg[req.name].cached = a
         THEN /\ req' = [req EXCEPT !.addr = a]
              /\ pc' = "Idle"
              /\ answer' = "ok"
              /\ UNCHANGED <<cfg, file>>
         ELSE Persist([req EXCEPT !.addr = a], [cfg EXCEPT ![req.name].cached = a])
  /\ UNCHANGED tunnel

SwitchDone_ErrIgnored == pc = "Switching" /\ reply # "none" /\ Connected

SwitchDone == pc = "Switching" /\ reply = "switched" /\ Connected

CallFailed ==
  /\ pc \in {"Switching", "Disconnecting"}
  /\ reply = "failed"
  /\ pc' = "Idle"
  /\ req' = NoRequest
  /\ answer' = "error"
  /\ UNCHANGED <<cfg, connecting, tunnel, file>>

DisconnectDone_WindowLeft ==
  /\ pc = "Disconnecting"
  /\ reply = "disconnected"
  /\ pc' = "Idle"
  /\ answer' = "ok"
  /\ UNCHANGED <<cfg, connecting, req, tunnel, file>>

DisconnectDone ==
  /\ pc = "Disconnecting"
  /\ reply = "disconnected"
  /\ connecting' = FALSE
  /\ pc' = "Idle"
  /\ answer' = "ok"
  /\ UNCHANGED <<cfg, req, tunnel, file>>

-----------------------------------------------------------------------------
(* the state file, the clock and the process                               *)

\* A bound of the model: failed saves pile up only so many possible contents.
Bounded == Cardinality(maybe) <= MaxUnsettled

FileStep ==
  /\ pc = "Saving"
  /\ \/ File!Replace /\ content # saving
     \/ File!SaveOk
     \/ "disk" \in Environment /\ Bounded /\ File!SaveFailed
  /\ UNCHANGED <<cfg, connecting, pc, req, answer, tunnel>>

SaveAnswer_AlwaysOk(op, outcome) == "ok"

\* A failed save fails the request, except for a switch: that one has happened.
SaveAnswer(op, outcome) ==
  IF outcome = "ok" \/ op = "switch" THEN "ok" ELSE "error"

Answered ==
  /\ pc' = "Idle"
  /\ answer' = SaveAnswer(req.op, saved)
  /\ UNCHANGED <<cfg, connecting, req, tunnel, file>>

SaveDone_Early == pc = "Saving" /\ Answered
SaveDone_OkOnly == pc = "Saving" /\ saved = "ok" /\ Answered

SaveDone == pc = "Saving" /\ saved # "none" /\ Answered

\* CONNECTING_WINDOW has passed since last_connect.
Expire ==
  /\ connecting
  /\ connecting' = FALSE
  /\ UNCHANGED <<cfg, pc, req, answer, tunnel, file>>

Down ==
  /\ pc' = "Down"
  /\ cfg' = [n \in Names |-> Nothing]
  /\ connecting' = FALSE
  /\ req' = NoRequest
  /\ answer' = "none"

\* The signal handler exits at once; the tunnel is left as it is.
Exit ==
  /\ "exit" \in Environment
  /\ pc # "Down"
  /\ pc = "Saving" => Bounded
  /\ Down
  /\ Wg!Abandoned
  /\ File!SaveCut

\* The interface does not survive a restart of the machine.
PowerLoss ==
  /\ "power" \in Environment
  /\ Down
  /\ Wg!Rebooted
  /\ File!PowerCut

\* Daemon::load
Load ==
  /\ pc = "Down"
  /\ pc' = "Idle"
  /\ cfg' = content
  /\ UNCHANGED <<connecting, req, answer, tunnel, file>>

ClientRequest ==
  \/ \E n \in Names, h \in Hosts : Add(n, h) \/ Import(n, h) \/ Edit(n, h)
  \/ \E n \in Names : Remove(n) \/ Switch(n)
  \/ Disconnect

DaemonStep ==
  TunnelStep \/ SwitchDone \/ CallFailed \/ DisconnectDone \/ FileStep \/ SaveDone

Next == ClientRequest \/ DaemonStep \/ Expire \/ Exit \/ PowerLoss \/ Load

Spec == Init /\ [][Next]_vars

\* The daemon's only thread keeps running, and what it waits for returns.
FairSpec == Spec /\ WF_vars(DaemonStep) /\ WF_vars(Load)

-----------------------------------------------------------------------------
TypeOK ==
  /\ cfg \in Configs
  /\ connecting \in BOOLEAN
  /\ pc \in {"Idle", "Saving", "Switching", "Disconnecting", "Down"}
  /\ req \in Requests
  /\ answer \in {"none", "ok", "error"}
  /\ live \in Tunnels \cup {Nothing}
  /\ armed \in BOOLEAN
  /\ content \in Configs /\ maybe \subseteq Configs
  /\ saving \in Configs \cup {Nothing}
  /\ pc # "Saving" => saving = Nothing
  /\ pc \notin {"Switching", "Disconnecting"} => intent = "none"
  /\ pc = "Switching" => Stored(req.name)

\* The address a tunnel falls back to when the resolver is dead is one of its own
\* endpoint's, in memory and in whatever the file may hold: an edit that moves the
\* endpoint cannot leave the old server's address behind.
CacheIsOwn == \A config \in {cfg} \cup maybe : OwnCache(config)

\* A mutation answered with success is what a restart finds, even after a power
\* loss, whatever saves failed before it.
AckedIsDurable ==
  pc = "Idle" /\ answer = "ok" /\ req.op \in {"add", "edit", "remove"} =>
    maybe = {cfg}

\* "Editing the currently-active tunnel is rejected": the entry whose key is on the
\* interface changes only by being replaced, removed, or by its endpoint cache.
EditSparesActive ==
  [][\A n \in Names :
       Active(n) /\ cfg'[n] # cfg[n] /\ pc' # "Down" => req'.op # "edit"]_vars

\* A switch answered with success has made that very tunnel the live one, and the
\* list shows it active.
SwitchedIsListed ==
  pc = "Idle" /\ answer = "ok" /\ req.op = "switch" =>
    Active(req.name) /\ live.host = cfg[req.name].host

\* The connecting window is open over nothing only after a tunnel call that failed: a
\* disconnect that took the interface and then failed leaves last_connect as it was.
\* A disconnect that succeeds, an exit or a power loss never does.
ConnectingIsLive ==
  connecting /\ pc \in {"Idle", "Saving"} => live # Nothing \/ reply = "failed"

\* Every request is answered, unless the daemon goes down first.
RequestAnswered == pc \notin {"Idle", "Down"} ~> pc \in {"Idle", "Down"}

\* The comment on list_servers: the live key "is unique per tunnel".  It is while the
\* daemon generates every key.
AtMostOneActive == \A m, n \in Names : Active(m) /\ Active(n) => m = n

\* The comment in SwitchServer: the cached endpoint is refreshed "so the DNS-dead
\* fallback is as fresh as the last successful connection".
FallbackFresh ==
  pc = "Idle" /\ answer = "ok" /\ req.op = "switch" =>
    content[req.name] # Nothing /\ content[req.name].cached = req.addr
=============================================================================
