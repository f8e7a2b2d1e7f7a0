--------------------------- MODULE Daemon_proofs ---------------------------
(***************************************************************************)
(* Proofs about Daemon.  The inductive invariant says, besides the types,  *)
(* what each wait is about (Calls: the tunnel call under way is for the    *)
(* entry of the request; Saves: the save under way is of the configuration *)
(* in memory), that every content the file may have kept has its own       *)
(* caches, and that the answers already given still hold.                  *)
(***************************************************************************)
EXTENDS Daemon, TLAPS

Mutations == {"add", "edit", "remove"}

\* The tunnel a switch is for.
Wanted == [key |-> cfg[req.name].key, host |-> cfg[req.name].host]

Calls ==
  /\ target \in Tunnels \cup {Nothing}
  /\ pc = "Switching" =>
       /\ req.op = "switch" /\ req.name \in Names /\ Switchable(req.name)
       /\ intent = "switch" => target = Wanted /\ reply = "none"
       /\ intent \in {"none", "switch"}
       /\ reply \in {"none", "switched", "failed"}
       /\ reply = "switched" => live = Wanted
  /\ pc = "Disconnecting" =>
       /\ req.op = "disconnect"
       /\ intent \in {"none", "disconnect", "removed"}
       /\ reply \in {"none", "failed", "disconnected"}
       /\ reply # "none" => intent = "none"
  /\ pc = "Down" => req.op = "none" /\ ~connecting

Saves ==
  /\ content \in maybe
  /\ saved \in {"none", "ok", "failed"}
  /\ pc = "Saving" =>
       /\ req.op \in Mutations \cup {"switch"} /\ req.name \in Names
       /\ saving # Nothing => saving = cfg /\ saved = "none"
       /\ saved = "ok" => maybe = {cfg}

\* A switch that has happened is listed, while its endpoint is saved and after.
Listed ==
  req.op = "switch" /\ (pc = "Saving" \/ (pc = "Idle" /\ answer = "ok")) =>
    req.name \in Names /\ Active(req.name) /\ live.host = cfg[req.name].host

\* The window outlives the interface only until a call has ended, or after one that
\* failed: CallFailed leaves last_connect alone.
Window ==
  connecting =>
    live # Nothing \/ reply = "failed" \/ pc \in {"Switching", "Disconnecting"}

IInv ==
  /\ TypeOK /\ Calls /\ Saves
  /\ CacheIsOwn
  /\ AckedIsDurable
  /\ Listed
  /\ Window

-----------------------------------------------------------------------------
(* the shape of the steps                                                  *)

\* A mutation: one entry replaced or removed, the whole saved.
Mutate(op, n, entry) ==
  /\ pc = "Idle"
  /\ Persist(Request(op, n), [cfg EXCEPT ![n] = entry])
  /\ UNCHANGED <<connecting, tunnel>>

\* An entry as add_server and edit_server build it.
Fresh(entry) ==
  \E k \in Keys \cup {BadKey}, h \in Hosts, v \in Versions :
    entry = [key |-> k, host |-> h, cached |-> [host |-> h, version |-> v]]

LEMMA FreshIsEntry ==
  ASSUME NEW entry, Fresh(entry)
  PROVE  /\ entry \in Entry
         /\ entry # Nothing
         /\ entry.cached.host = entry.host
<1>1. entry \in Entry /\ entry.cached.host = entry.host
  BY DEF Fresh, Entry, Address
<1>2. QED
  BY <1>1, DaemonAssumption

LEMMA AddShape ==
  ASSUME NEW n \in Names, NEW k \in Keys, NEW h \in Hosts, AddServer(n, k, h)
  PROVE  RefuseRequest \/ \E entry : Fresh(entry) /\ Mutate("add", n, entry)
<1>1. CASE RefuseRequest
  BY <1>1
<1>2. CASE ~RefuseRequest
  <2>1. PICK v \in Versions :
          /\ pc = "Idle"
          /\ Persist(Request("add", n),
                     [cfg EXCEPT ![n] = [key |-> k, host |-> h,
                                         cached |-> [host |-> h, version |-> v]]])
          /\ UNCHANGED <<connecting, tunnel>>
    BY <1>2 DEF AddServer
  <2>2. Fresh([key |-> k, host |-> h, cached |-> [host |-> h, version |-> v]])
    BY DEF Fresh
  <2>3. QED
    BY <2>1, <2>2 DEF Mutate
<1>3. QED
  BY <1>1, <1>2

LEMMA EditShape ==
  ASSUME TypeOK, NEW n \in Names, NEW h \in Hosts, Edit(n, h)
  PROVE  \/ RefuseRequest
         \/ EditAllowed(n) /\ \E entry : Fresh(entry) /\ Mutate("edit", n, entry)
<1>1. CASE RefuseRequest
  BY <1>1
<1>2. CASE ~RefuseRequest
  <2>1. PICK k \in {cfg[n].key} \cup (IF "supply" \in Environment THEN Keys ELSE {}),
             v \in Versions :
          /\ pc = "Idle" /\ EditAllowed(n)
          /\ Persist(Request("edit", n), [cfg EXCEPT ![n] = Edited(cfg[n], k, h, v)])
          /\ UNCHANGED <<connecting, tunnel>>
    BY <1>2 DEF Edit
  <2>2. k \in Keys \cup {BadKey}
    BY <2>1 DEF TypeOK, Configs, Entry, EditAllowed, Stored
  <2>3. Fresh(Edited(cfg[n], k, h, v))
    BY <2>2 DEF Fresh, Edited
  <2>4. QED
    BY <2>1, <2>3 DEF Mutate
<1>3. QED
  BY <1>1, <1>2

\* Every request is refused, mutates the list, or calls the tunnel.
LEMMA RequestShape ==
  ASSUME TypeOK, ClientRequest
  PROVE  \/ RefuseRequest
         \/ \E n \in Names : \E entry : Fresh(entry) /\ Mutate("add", n, entry)
         \/ \E n \in Names : \E entry :
              EditAllowed(n) /\ Fresh(entry) /\ Mutate("edit", n, entry)
         \/ \E n \in Names : Mutate("remove", n, Nothing)
         \/ \E n \in Names : Switch(n) /\ ~RefuseRequest
         \/ Disconnect
<1>1. ASSUME NEW n \in Names, NEW h \in Hosts, Add(n, h) \/ Import(n, h)
      PROVE  RefuseRequest \/ \E entry : Fresh(entry) /\ Mutate("add", n, entry)
  <2>1. PICK k \in Keys : AddServer(n, k, h)
    BY <1>1 DEF Add, Import, FreshKeys
  <2>2. QED
    BY <2>1, AddShape
<1>2. ASSUME NEW n \in Names, Remove(n)
      PROVE  RefuseRequest \/ Mutate("remove", n, Nothing)
  BY <1>2 DEF Remove, Mutate
<1>3. QED
  BY <1>1, <1>2, EditShape DEF ClientRequest

-----------------------------------------------------------------------------
(* every step keeps the invariant                                          *)

LEMMA RequestType ==
  /\ NoRequest \in Requests
  /\ \A op \in Mutations \cup {"switch", "disconnect"}, n \in Names \cup {Nothing} :
       Request(op, n) \in Requests
BY DEF NoRequest, Requests, Request, Mutations

LEMMA RefuseKeeps ==
  ASSUME IInv, RefuseRequest
  PROVE  IInv'
<1> USE DEF RefuseRequest, tunnel, file
<1>1. TypeOK'
  BY RequestType DEF IInv, TypeOK, Stored
<1> USE DEF NoRequest
<1>2. Calls' /\ Saves'
  BY DEF IInv, Calls, Saves
<1>3. CacheIsOwn' /\ AckedIsDurable' /\ Listed' /\ Window'
  BY DEF IInv, CacheIsOwn, AckedIsDurable, Listed, Window
<1>4. QED
  BY <1>1, <1>2, <1>3 DEF IInv

LEMMA MutateKeeps ==
  ASSUME IInv, NEW op \in Mutations, NEW n \in Names, NEW entry,
         Fresh(entry) \/ entry = Nothing, Mutate(op, n, entry)
  PROVE  IInv'
<1> USE DEF Mutate, Persist, Request, File!BeginSave, tunnel
<1>1. entry \in Entry \cup {Nothing} /\ cfg' \in Configs
  BY FreshIsEntry DEF IInv, TypeOK, Configs
<1>2. TypeOK'
  BY <1>1, RequestType DEF IInv, TypeOK, Configs
<1>3. Calls'
  BY DEF IInv, Calls
<1>4. Saves'
  BY DEF IInv, Saves, Mutations
<1>5. OwnCache(cfg')
  <2>1. OwnCache(cfg) /\ cfg \in Configs
    BY DEF IInv, CacheIsOwn, TypeOK
  <2>2. entry # Nothing => entry.cached.host = entry.host
    BY FreshIsEntry
  <2>3. QED
    BY <2>1, <2>2 DEF OwnCache, Configs
<1>6. CacheIsOwn'
  BY <1>5 DEF IInv, CacheIsOwn
<1>7. AckedIsDurable' /\ Listed' /\ Window'
  BY DEF IInv, AckedIsDurable, Listed, Window, Mutations
<1>8. QED
  BY <1>2, <1>3, <1>4, <1>6, <1>7 DEF IInv

LEMMA AskKeeps ==
  ASSUME IInv, NEW n \in Names, Switch(n), ~RefuseRequest
  PROVE  IInv'
<1> DEFINE t == [key |-> cfg[n].key, host |-> cfg[n].host]
<1>1. /\ pc = "Idle" /\ Switchable(n) /\ Wg!Ask(t)
      /\ pc' = "Switching" /\ req' = Request("switch", n) /\ answer' = "none"
      /\ UNCHANGED <<cfg, connecting, file>>
  BY DEF Switch
<1>2. t \in Tunnels
  BY <1>1 DEF IInv, TypeOK, Configs, Entry, Switchable, Stored, Tunnels
<1> USE DEF Wg!Ask, file
<1>3. TypeOK'
  <2>1. req' \in Requests /\ req'.name = n
    BY <1>1, RequestType DEF Request
  <2>2. QED
    BY <1>1, <2>1 DEF IInv, TypeOK, Switchable, Stored
<1> USE DEF Request
<1>4. Calls'
  BY <1>1, <1>2 DEF IInv, Calls, Wanted, Switchable, Stored
<1>5. Saves' /\ CacheIsOwn'
  BY <1>1 DEF IInv, Saves, CacheIsOwn
<1>6. AckedIsDurable' /\ Listed' /\ Window'
  BY <1>1 DEF IInv, AckedIsDurable, Listed, Window
<1>7. QED
  BY <1>3, <1>4, <1>5, <1>6 DEF IInv

LEMMA DisconnectKeeps ==
  ASSUME IInv, Disconnect
  PROVE  IInv'
<1> USE DEF Disconnect, Wg!AskDisconnect, file
<1>1. TypeOK'
  BY RequestType DEF IInv, TypeOK
<1> USE DEF Request
<1>2. Calls'
  BY DEF IInv, Calls
<1>3. Saves' /\ CacheIsOwn'
  BY DEF IInv, Saves, CacheIsOwn
<1>4. AckedIsDurable' /\ Listed' /\ Window'
  BY DEF IInv, AckedIsDurable, Listed, Window
<1>5. QED
  BY <1>1, <1>2, <1>3, <1>4 DEF IInv

\* What a step of a tunnel call may do while the daemon waits for it.
LEMMA TunnelShape ==
  ASSUME IInv, TunnelStep
  PROVE  /\ live' \in Tunnels \cup {Nothing} /\ armed' \in BOOLEAN
         /\ Calls'
         /\ Window'
<1> USE DEF TunnelStep
<1>1. CASE pc = "Switching" /\ intent = "switch"
  <2>1. target = Wanted /\ target \in Tunnels /\ reply = "none"
    <3>1. cfg[req.name].key \in Keys /\ cfg[req.name].host \in Hosts
      BY <1>1 DEF IInv, Calls, TypeOK, Switchable, Stored, Configs, Entry
    <3>2. QED
      BY <1>1, <3>1 DEF IInv, Calls, Wanted, Tunnels
  <2>2. Wg!Progress \/ Wg!Switched \/ Wg!SwitchFailed
    BY <1>1 DEF Wg!TearDown, Wg!TearDownFailed, Wg!Disconnected, Wg!DisconnectFailed
  <2>3. /\ live' \in {live, target} /\ armed' \in BOOLEAN
        /\ \/ intent' = "switch" /\ target' = target /\ reply' = "none"
           \/ intent' = "none" /\ target' = Nothing /\ reply' = "failed"
           \/ intent' = "none" /\ target' = Nothing /\ reply' = "switched" /\ live' = target
    BY <1>1, <2>1, <2>2 DEF Wg!Progress, Wg!Switched, Wg!SwitchFailed, Wg!Effect, IInv, TypeOK
  <2>4. target # Nothing
    BY <2>1, DaemonAssumption
  <2>5. Calls'
    BY <1>1, <2>1, <2>3 DEF IInv, Calls, Wanted, Switchable, Stored
  <2>6. Window'
    BY <1>1, <2>3, <2>4 DEF IInv, Window
  <2>7. QED
    BY <2>1, <2>3, <2>5, <2>6 DEF IInv, TypeOK
<1>2. CASE pc = "Disconnecting" /\ intent # "switch"
  <2>1. Wg!TearDown \/ Wg!TearDownFailed \/ Wg!Disconnected \/ Wg!DisconnectFailed
    BY <1>2 DEF Wg!Progress, Wg!Switched, Wg!SwitchFailed
  <2>2. Calls'
    BY <1>2, <2>1 DEF IInv, Calls, Wg!TearDown, Wg!TearDownFailed, Wg!Disconnected,
       Wg!DisconnectFailed
  <2>3. live' \in Tunnels \cup {Nothing} /\ armed' \in BOOLEAN
    BY <2>1 DEF IInv, TypeOK, Wg!TearDown, Wg!TearDownFailed, Wg!Disconnected,
       Wg!DisconnectFailed
  <2>4. Window'
    BY <1>2, <2>1 DEF IInv, Calls, Window, Wg!TearDown, Wg!TearDownFailed,
       Wg!Disconnected, Wg!DisconnectFailed
  <2>5. QED
    BY <2>2, <2>3, <2>4
<1>3. CASE pc = "Switching" /\ intent # "switch"
  <2>1. intent = "none"
    BY <1>3 DEF IInv, Calls
  <2>2. QED
    BY <2>1 DEF Wg!Progress, Wg!Switched, Wg!SwitchFailed, Wg!TearDown,
       Wg!TearDownFailed, Wg!Disconnected, Wg!DisconnectFailed
<1>4. CASE pc = "Disconnecting" /\ intent = "switch"
  BY <1>4 DEF IInv, Calls
<1>5. QED
  BY <1>1, <1>2, <1>3, <1>4

LEMMA TunnelKeeps ==
  ASSUME IInv, TunnelStep
  PROVE  IInv'
<1>1. TypeOK'
  BY TunnelShape DEF TunnelStep, IInv, TypeOK, Stored, file
<1>2. Saves' /\ CacheIsOwn' /\ AckedIsDurable' /\ Listed'
  BY DEF TunnelStep, IInv, Saves, CacheIsOwn, AckedIsDurable, Listed, file
<1>3. QED
  BY <1>1, <1>2, TunnelShape DEF IInv

\* A successful switch: the cache of its entry follows the address connected to.
LEMMA ConnectedShape ==
  ASSUME IInv, SwitchDone
  PROVE  /\ req.name \in Names /\ Stored(req.name) /\ live = Wanted /\ live # Nothing
         /\ \E a \in Endpoints(cfg[req.name]) :
              /\ a \in Address /\ a.host = cfg[req.name].host
              /\ req' = [req EXCEPT !.addr = a]
              /\ \/ /\ cfg[req.name].cached = a /\ pc' = "Idle" /\ answer' = "ok"
                    /\ UNCHANGED <<cfg, file>>
                 \/ Persist([req EXCEPT !.addr = a], [cfg EXCEPT ![req.name].cached = a])
         /\ connecting' = TRUE /\ UNCHANGED tunnel
<1>1. /\ pc = "Switching" /\ reply = "switched" /\ Connected
  BY DEF SwitchDone
<1>2. req.name \in Names /\ Switchable(req.name) /\ live = Wanted
  BY <1>1 DEF IInv, Calls
<1>3. cfg[req.name] \in Entry /\ cfg[req.name].key \in Keys
  BY <1>2 DEF Switchable, Stored, IInv, TypeOK, Configs, Entry
<1>4. live # Nothing
  BY <1>2, <1>3, DaemonAssumption DEF Wanted, Tunnels, Entry
<1>5. \A a \in Endpoints(cfg[req.name]) : a \in Address /\ a.host = cfg[req.name].host
  <2> SUFFICES ASSUME NEW a \in Endpoints(cfg[req.name])
               PROVE  a \in Address /\ a.host = cfg[req.name].host
    OBVIOUS
  <2>1. CASE a \in [host : {cfg[req.name].host}, version : Versions]
    BY <1>3, <2>1 DEF Address, Entry
  <2>2. CASE a = cfg[req.name].cached /\ a # Nothing
    BY <1>2, <1>3, <2>2 DEF Address, Entry, IInv, CacheIsOwn, OwnCache, Switchable, Stored
  <2>3. QED
    BY <2>1, <2>2 DEF Endpoints
<1>6. \E a \in Endpoints(cfg[req.name]) :
        /\ req' = [req EXCEPT !.addr = a]
        /\ \/ /\ cfg[req.name].cached = a /\ pc' = "Idle" /\ answer' = "ok"
              /\ UNCHANGED <<cfg, file>>
           \/ Persist([req EXCEPT !.addr = a], [cfg EXCEPT ![req.name].cached = a])
  BY <1>1 DEF Connected, Persist
<1>7. QED
  BY <1>1, <1>2, <1>4, <1>5, <1>6 DEF Connected, Switchable

LEMMA SwitchDoneKeeps ==
  ASSUME IInv, SwitchDone
  PROVE  IInv'
<1> DEFINE n == req.name
<1>1. PICK a \in Address :
        /\ a.host = cfg[n].host
        /\ req' = [req EXCEPT !.addr = a]
        /\ \/ /\ cfg[n].cached = a /\ pc' = "Idle" /\ answer' = "ok"
              /\ UNCHANGED <<cfg, file>>
           \/ Persist([req EXCEPT !.addr = a], [cfg EXCEPT ![n].cached = a])
  BY ConnectedShape
<1>2. /\ n \in Names /\ Stored(n) /\ live = Wanted /\ live # Nothing
      /\ connecting' = TRUE /\ UNCHANGED tunnel
  BY ConnectedShape
<1>3. pc = "Switching" /\ req.op = "switch" /\ intent = "none" /\ saving = Nothing
  BY DEF SwitchDone, IInv, Calls, TypeOK
<1>4. req' \in Requests /\ req'.op = "switch" /\ req'.name = n /\ req'.addr = a
  <2>1. req' = [req EXCEPT !.addr = a]
    BY <1>1
  <2>2. req \in Requests
    BY DEF IInv, TypeOK
  <2>3. QED
    BY <1>3, <2>1, <2>2 DEF Requests
<1>5. CASE cfg[n].cached = a /\ pc' = "Idle" /\ answer' = "ok" /\ UNCHANGED <<cfg, file>>
  <2>1. TypeOK'
    BY <1>2, <1>3, <1>4, <1>5 DEF IInv, TypeOK, tunnel, file
  <2>2. Calls' /\ Saves' /\ CacheIsOwn' /\ AckedIsDurable' /\ Window'
    BY <1>2, <1>3, <1>4, <1>5
    DEF IInv, Calls, Saves, CacheIsOwn, AckedIsDurable, Window, tunnel, file
  <2>3. Listed'
    BY <1>2, <1>4, <1>5 DEF Listed, Active, ActiveIn, Stored, Wanted, tunnel, file
  <2>4. QED
    BY <2>1, <2>2, <2>3 DEF IInv
<1>6. CASE Persist([req EXCEPT !.addr = a], [cfg EXCEPT ![n].cached = a])
  <2>1. cfg[n] \in Entry
    BY <1>2 DEF IInv, TypeOK, Configs, Stored
  <2>2. /\ cfg' = [cfg EXCEPT ![n] = [cfg[n] EXCEPT !.cached = a]]
        /\ pc' = "Saving" /\ answer' = "none" /\ saving' = cfg' /\ saved' = "none"
        /\ UNCHANGED <<content, maybe>>
    BY <1>6 DEF Persist, File!BeginSave
  <2>3. [cfg[n] EXCEPT !.cached = a] \in Entry
    BY <2>1 DEF Entry
  <2>4. /\ cfg' \in Configs
        /\ cfg'[n] = [cfg[n] EXCEPT !.cached = a]
        /\ \A m \in Names : m # n => cfg'[m] = cfg[m]
    BY <1>2, <2>2, <2>3 DEF IInv, TypeOK, Configs
  <2>5. cfg'[n] # Nothing /\ cfg'[n].key = cfg[n].key /\ cfg'[n].host = cfg[n].host
        /\ cfg'[n].cached = a
    BY <2>1, <2>3, <2>4, DaemonAssumption DEF Entry
  <2>6. TypeOK'
    BY <1>2, <1>3, <1>4, <2>2, <2>4 DEF IInv, TypeOK, tunnel
  <2>7. Calls' /\ Saves' /\ AckedIsDurable' /\ Window'
    BY <1>2, <1>3, <1>4, <2>2
    DEF IInv, Calls, Saves, AckedIsDurable, Window, tunnel
  <2>8. CacheIsOwn'
    <3>1. OwnCache(cfg)
      BY DEF IInv, CacheIsOwn
    <3>2. OwnCache(cfg')
      <4> SUFFICES ASSUME NEW m \in Names, cfg'[m] # Nothing, cfg'[m].cached # Nothing
                   PROVE  cfg'[m].cached.host = cfg'[m].host
        BY DEF OwnCache
      <4>1. CASE m = n
        BY <1>1, <2>5, <4>1
      <4>2. CASE m # n
        BY <2>4, <3>1, <4>2 DEF OwnCache
      <4>3. QED
        BY <4>1, <4>2
    <3>3. QED
      BY <2>2, <3>2 DEF IInv, CacheIsOwn
  <2>9. Listed'
    BY <1>2, <1>4, <2>5 DEF Listed, Active, ActiveIn, Wanted, tunnel
  <2>10. QED
    BY <2>6, <2>7, <2>8, <2>9 DEF IInv
<1>7. QED
  BY <1>1, <1>5, <1>6

LEMMA CallEndKeeps ==
  ASSUME IInv, CallFailed \/ DisconnectDone
  PROVE  IInv'
<1> USE DEF CallFailed, DisconnectDone, tunnel, file
<1>0. intent = "none" /\ reply \in {"failed", "disconnected"}
  BY DEF IInv, Calls
<1>1. TypeOK'
  BY <1>0, RequestType DEF IInv, TypeOK, Stored
<1> USE DEF NoRequest
<1>2. Calls'
  BY <1>0 DEF IInv, Calls
<1>3. Saves' /\ CacheIsOwn'
  BY DEF IInv, Saves, CacheIsOwn
<1>4. AckedIsDurable' /\ Listed'
  BY DEF IInv, AckedIsDurable, Listed, Calls
<1>5. Window'
  BY <1>0 DEF IInv, Window, Calls
<1>6. QED
  BY <1>1, <1>2, <1>3, <1>4, <1>5 DEF IInv

LEMMA FileKeeps ==
  ASSUME IInv, FileStep
  PROVE  IInv'
<1> USE DEF FileStep, File!Replace, File!SaveOk, File!SaveFailed, tunnel
<1>1. saving = cfg /\ cfg \in Configs
  BY DEF IInv, Saves, TypeOK
<1>2. TypeOK'
  BY <1>1 DEF IInv, TypeOK, Stored
<1>3. Calls' /\ Saves'
  BY <1>1 DEF IInv, Calls, Saves, Wanted
<1>4. CacheIsOwn'
  BY <1>1 DEF IInv, CacheIsOwn
<1>5. AckedIsDurable' /\ Listed' /\ Window'
  BY DEF IInv, AckedIsDurable, Listed, Window, Active, ActiveIn
<1>6. QED
  BY <1>2, <1>3, <1>4, <1>5 DEF IInv

LEMMA SaveDoneKeeps ==
  ASSUME IInv, SaveDone
  PROVE  IInv'
<1> USE DEF SaveDone, Answered, tunnel, file
<1>1. saving = Nothing /\ (saved = "ok" => maybe = {cfg})
  BY DEF IInv, Saves
<1>2. TypeOK'
  BY <1>1 DEF IInv, TypeOK, SaveAnswer, Stored, Saves
<1>3. Calls' /\ Saves' /\ CacheIsOwn' /\ Window'
  BY DEF IInv, Calls, Saves, CacheIsOwn, Window
<1>4. AckedIsDurable'
  BY <1>1 DEF AckedIsDurable, SaveAnswer
<1>5. Listed'
  <2>1. Listed /\ pc = "Saving"
    BY DEF IInv
  <2>2. /\ cfg' = cfg /\ req' = req /\ live' = live
    OBVIOUS
  <2>3. QED
    BY <2>1, <2>2 DEF Listed, Active, ActiveIn
<1>6. QED
  BY <1>2, <1>3, <1>4, <1>5 DEF IInv

LEMMA ExpireKeeps ==
  ASSUME IInv, Expire \/ UNCHANGED vars
  PROVE  IInv'
<1> USE DEF Expire, vars, tunnel, file
<1>1. TypeOK'
  BY DEF IInv, TypeOK, Stored
<1>2. Calls' /\ Saves'
  BY DEF IInv, Calls, Saves, Wanted, Stored, Switchable
<1>3. CacheIsOwn' /\ AckedIsDurable' /\ Listed' /\ Window'
  BY DEF IInv, CacheIsOwn, AckedIsDurable, Listed, Window, Active, ActiveIn
<1>4. QED
  BY <1>1, <1>2, <1>3 DEF IInv

LEMMA DownKeeps ==
  ASSUME IInv, Exit \/ PowerLoss
  PROVE  IInv'
<1> USE DEF Down
<1>1. /\ Down /\ saving' = Nothing /\ saved' = "none"
      /\ intent' = "none" /\ target' = Nothing
      /\ live' \in {live, Nothing} /\ armed' \in {armed, FALSE}
      /\ content' \in maybe' /\ maybe' \subseteq maybe
  BY DEF Exit, PowerLoss, Wg!Abandoned, Wg!Rebooted, File!SaveCut, File!PowerCut, IInv, Saves
<1>2. cfg' \in Configs /\ OwnCache(cfg')
  BY <1>1 DEF Configs, OwnCache
<1>3. TypeOK'
  BY <1>1, <1>2, RequestType DEF IInv, TypeOK
<1> USE DEF NoRequest
<1>4. Calls' /\ Saves'
  BY <1>1 DEF IInv, Calls, Saves
<1>5. CacheIsOwn'
  BY <1>1, <1>2 DEF IInv, CacheIsOwn
<1>6. AckedIsDurable' /\ Listed' /\ Window'
  BY <1>1 DEF AckedIsDurable, Listed, Window
<1>7. QED
  BY <1>3, <1>4, <1>5, <1>6 DEF IInv

LEMMA LoadKeeps ==
  ASSUME IInv, Load
  PROVE  IInv'
<1> USE DEF Load, tunnel, file
<1>1. content \in maybe /\ req.op = "none"
  BY DEF IInv, Saves, Calls
<1>2. TypeOK'
  BY DEF IInv, TypeOK
<1>3. Calls' /\ Saves' /\ Window'
  BY DEF IInv, Calls, Saves, Window
<1>4. CacheIsOwn'
  BY <1>1 DEF IInv, CacheIsOwn
<1>5. AckedIsDurable' /\ Listed'
  BY <1>1 DEF AckedIsDurable, Listed
<1>6. QED
  BY <1>2, <1>3, <1>4, <1>5 DEF IInv

LEMMA InitHolds == Init => IInv
<1> SUFFICES ASSUME Init
             PROVE  IInv
  OBVIOUS
<1> USE DEF Init, Wg!WgInit, File!AfInit
<1>1. cfg \in Configs /\ OwnCache(cfg)
  BY DaemonAssumption
<1>2. TypeOK
  BY <1>1, RequestType DEF TypeOK
<1> USE DEF NoRequest
<1>3. Calls /\ Saves /\ CacheIsOwn /\ AckedIsDurable /\ Listed /\ Window
  BY <1>1 DEF Calls, Saves, CacheIsOwn, AckedIsDurable, Listed, Window
<1>4. QED
  BY <1>2, <1>3 DEF IInv

LEMMA StepKeeps == IInv /\ [Next]_vars => IInv'
<1> SUFFICES ASSUME IInv, [Next]_vars
             PROVE  IInv'
  OBVIOUS
<1>1. CASE ClientRequest
  <2>1. TypeOK
    BY DEF IInv
  <2>2. QED
    BY <1>1, <2>1, RequestShape, RefuseKeeps, MutateKeeps, AskKeeps, DisconnectKeeps
    DEF Mutations
<1>2. CASE DaemonStep
  BY <1>2, TunnelKeeps, SwitchDoneKeeps, CallEndKeeps, FileKeeps, SaveDoneKeeps
  DEF DaemonStep
<1>3. CASE Expire \/ UNCHANGED vars
  BY <1>3, ExpireKeeps
<1>4. CASE Exit \/ PowerLoss
  BY <1>4, DownKeeps
<1>5. CASE Load
  BY <1>5, LoadKeeps
<1>6. QED
  BY <1>1, <1>2, <1>3, <1>4, <1>5 DEF Next

LEMMA Invariance == Spec => []IInv
BY InitHolds, StepKeeps, PTL DEF Spec

-----------------------------------------------------------------------------
(* what the daemon promises                                                *)

\* Type correctness of the handlers, between any two of their steps.
THEOREM TypeCorrect == Spec => []TypeOK
<1>1. IInv => TypeOK
  BY DEF IInv
<1>2. QED
  BY <1>1, Invariance, PTL

\* No fallback address is another endpoint's, in memory or in any content the file
\* may turn out to have after a power loss.
THEOREM CachesAreOwn == Spec => []CacheIsOwn
<1>1. IInv => CacheIsOwn
  BY DEF IInv
<1>2. QED
  BY <1>1, Invariance, PTL

\* A mutation answered with success is all the file may hold, after any failures.
THEOREM AckedStays == Spec => []AckedIsDurable
<1>1. IInv => AckedIsDurable
  BY DEF IInv
<1>2. QED
  BY <1>1, Invariance, PTL

\* A switch answered with success made that tunnel live, and the list says so.
THEOREM SwitchedShows == Spec => []SwitchedIsListed
<1>1. IInv => SwitchedIsListed
  BY DEF IInv, Listed, SwitchedIsListed
<1>2. QED
  BY <1>1, Invariance, PTL

\* Between two tunnel calls the connecting window is open over a tunnel that is there,
\* or the last call failed: only an answered disconnect closes it.
THEOREM ConnectingHasTunnel == Spec => []ConnectingIsLive
<1>1. IInv => ConnectingIsLive
  BY DEF IInv, Window, ConnectingIsLive
<1>2. QED
  BY <1>1, Invariance, PTL

\* The active tunnel is not edited, as long as the interface can be read.
THEOREM ActiveIsSpared ==
  ASSUME "unread" \notin Environment
  PROVE  Spec => EditSparesActive
<1>1. IInv /\ [Next]_vars =>
        [\A n \in Names :
           Active(n) /\ cfg'[n] # cfg[n] /\ pc' # "Down" => req'.op # "edit"]_vars
  <2> SUFFICES ASSUME IInv, Next, NEW n \in Names,
                      Active(n), cfg'[n] # cfg[n], pc' # "Down"
               PROVE  req'.op # "edit"
    OBVIOUS
  <2>1. CASE ClientRequest
    <3>1. CASE RefuseRequest \/ Disconnect \/ \E m \in Names : Switch(m) /\ ~RefuseRequest
      BY <3>1 DEF RefuseRequest, Disconnect, Switch
    <3>2. CASE \E m \in Names, op \in {"add", "remove"} : \E entry : Mutate(op, m, entry)
      BY <3>2 DEF Mutate, Persist, Request
    <3>3. ASSUME NEW m \in Names, NEW entry, EditAllowed(m), Mutate("edit", m, entry)
          PROVE  FALSE
      <4>1. m # n
        BY <3>3 DEF EditAllowed
      <4>2. cfg' = [cfg EXCEPT ![m] = entry]
        BY <3>3 DEF Mutate, Persist
      <4>3. QED
        BY <4>1, <4>2 DEF IInv, TypeOK, Configs
    <3>4. TypeOK
      BY DEF IInv
    <3>5. QED
      BY <2>1, <3>1, <3>2, <3>3, <3>4, RequestShape
  <2>2. CASE DaemonStep
    <3>1. CASE SwitchDone
      <4>1. pc = "Switching" /\ req \in Requests
        BY <3>1 DEF SwitchDone, IInv, TypeOK
      <4>2. req.op = "switch"
        BY <4>1 DEF IInv, Calls
      <4>3. \E a : req' = [req EXCEPT !.addr = a]
        BY <3>1, ConnectedShape
      <4>4. QED
        BY <4>1, <4>2, <4>3 DEF Requests
    <3>2. CASE ~SwitchDone
      BY <2>2, <3>2 DEF DaemonStep, TunnelStep, CallFailed, DisconnectDone, FileStep,
         SaveDone, Answered
    <3>3. QED
      BY <3>1, <3>2
  <2>3. CASE Expire
    BY <2>3 DEF Expire
  <2>4. CASE Exit \/ PowerLoss
    BY <2>4 DEF Exit, PowerLoss, Down
  <2>5. CASE Load
    <3>1. req.op = "none"
      BY <2>5 DEF Load, IInv, Calls
    <3>2. QED
      BY <2>5, <3>1 DEF Load
  <2>6. QED
    BY <2>1, <2>2, <2>3, <2>4, <2>5 DEF Next
<1>2. QED
  BY <1>1, Invariance, PTL DEF Spec, EditSparesActive

-----------------------------------------------------------------------------
(* without failing saves                                                   *)

\* The file and the memory agree between saves, and a switch's address is in both.
Mirrored ==
  /\ pc \notin {"Saving", "Down"} => content = cfg
  /\ pc = "Saving" /\ saving = Nothing => saved = "ok" /\ content = cfg
  /\ req.op = "switch" /\ (pc = "Saving" \/ (pc = "Idle" /\ answer = "ok")) =>
       cfg[req.name] # Nothing /\ cfg[req.name].cached = req.addr

LEMMA MirroredStep ==
  ASSUME "disk" \notin Environment, IInv, Mirrored, [Next]_vars
  PROVE  Mirrored'
<1>1. CASE ClientRequest
  <2>1. CASE RefuseRequest
    BY <2>1 DEF RefuseRequest, NoRequest, Mirrored, file
  <2>2. ASSUME NEW op \in Mutations, NEW n \in Names, NEW entry,
               Mutate(op, n, entry), Fresh(entry) \/ entry = Nothing
        PROVE  Mirrored'
    <3>1. cfg' \in Configs
      BY <2>2, FreshIsEntry DEF Mutate, Persist, IInv, TypeOK, Configs
    <3>2. cfg' # Nothing
      BY <3>1, DaemonAssumption
    <3>3. QED
      BY <2>2, <3>2 DEF Mutate, Persist, File!BeginSave, Request, Mirrored, Mutations
  <2>3. ASSUME NEW n \in Names, Switch(n), ~RefuseRequest
        PROVE  Mirrored'
    BY <2>3 DEF Switch, Mirrored, file
  <2>4. CASE Disconnect
    BY <2>4 DEF Disconnect, Request, Mirrored, file
  <2>5. TypeOK
    BY DEF IInv
  <2>6. QED
    BY <1>1, <2>1, <2>2, <2>3, <2>4, <2>5, RequestShape DEF Mutations
<1>2. CASE TunnelStep
  BY <1>2 DEF TunnelStep, Mirrored, file
<1>3. CASE SwitchDone
  <2> DEFINE n == req.name
  <2>1. PICK a \in Address :
          /\ req' = [req EXCEPT !.addr = a]
          /\ \/ /\ cfg[n].cached = a /\ pc' = "Idle" /\ answer' = "ok"
                /\ UNCHANGED <<cfg, file>>
             \/ Persist([req EXCEPT !.addr = a], [cfg EXCEPT ![n].cached = a])
    BY <1>3, ConnectedShape
  <2>2. /\ pc = "Switching" /\ req \in Requests /\ n \in Names /\ cfg[n] \in Entry
        /\ cfg \in Configs
    BY <1>3, ConnectedShape DEF SwitchDone, Stored, IInv, TypeOK, Configs
  <2>3. req'.name = n /\ req'.addr = a
    BY <2>1, <2>2 DEF Requests
  <2>4. CASE cfg[n].cached = a /\ pc' = "Idle" /\ UNCHANGED <<cfg, file>>
    BY <2>2, <2>3, <2>4, DaemonAssumption DEF Mirrored, file
  <2>5. CASE Persist([req EXCEPT !.addr = a], [cfg EXCEPT ![n].cached = a])
    <3>1. cfg' = [cfg EXCEPT ![n] = [cfg[n] EXCEPT !.cached = a]]
      BY <2>5 DEF Persist
    <3>2. [cfg[n] EXCEPT !.cached = a] \in Entry
      BY <2>2 DEF Entry
    <3>3. cfg'[n] \in Entry /\ cfg'[n].cached = a /\ cfg' \in Configs
      BY <2>2, <3>1, <3>2 DEF Configs, Entry
    <3>4. saving' = cfg' /\ pc' = "Saving"
      BY <2>5 DEF Persist, File!BeginSave
    <3>5. QED
      BY <2>3, <3>3, <3>4, DaemonAssumption DEF Mirrored
  <2>6. QED
    BY <2>1, <2>4, <2>5
<1>4. CASE CallFailed \/ DisconnectDone
  BY <1>4 DEF CallFailed, DisconnectDone, NoRequest, Mirrored, file, IInv, Calls
<1>5. CASE FileStep
  <2>1. saving = cfg /\ (File!Replace \/ File!SaveOk)
    BY <1>5 DEF FileStep, IInv, Saves, File!Replace, File!SaveOk
  <2>2. cfg # Nothing
    BY DaemonAssumption DEF IInv, TypeOK
  <2>3. QED
    BY <1>5, <2>1, <2>2 DEF FileStep, File!Replace, File!SaveOk, Mirrored
<1>6. CASE SaveDone
  <2>1. saving = Nothing /\ content = cfg
    BY <1>6 DEF SaveDone, IInv, Saves, Mirrored
  <2>2. QED
    BY <1>6, <2>1 DEF SaveDone, Answered, Mirrored, file
<1>7. CASE Expire \/ UNCHANGED vars
  BY <1>7 DEF Expire, vars, file, Mirrored
<1>8. CASE Exit \/ PowerLoss
  BY <1>8 DEF Exit, PowerLoss, Down, NoRequest, Mirrored
<1>9. CASE Load
  BY <1>9 DEF Load, IInv, Calls, Mirrored, file
<1>10. QED
  BY <1>1, <1>2, <1>3, <1>4, <1>5, <1>6, <1>7, <1>8, <1>9 DEF Next, DaemonStep

\* After every successful switch the file holds, as the fallback, the very address
\* connected to, unless saves fail.
THEOREM FallbackIsFresh ==
  ASSUME "disk" \notin Environment
  PROVE  Spec => []FallbackFresh
<1>1. Init => Mirrored
  BY DEF Init, File!AfInit, NoRequest, Mirrored
<1>2. IInv /\ Mirrored /\ [Next]_vars => Mirrored'
  BY MirroredStep
<1>3. Mirrored => FallbackFresh
  BY DEF Mirrored, FallbackFresh
<1>4. QED
  BY <1>1, <1>2, <1>3, Invariance, PTL DEF Spec

-----------------------------------------------------------------------------
(* without keys from clients                                               *)

\* No two entries have the same key; one that does not parse is nobody's.
Distinct(config) ==
  \A m, n \in Names :
    /\ config[m] # Nothing /\ config[n] # Nothing
    /\ config[m].key = config[n].key /\ config[m].key \in Keys
    => m = n

AllDistinct == \A config \in {cfg} \cup maybe : Distinct(config)

\* An entry that takes n's place has n's key, or one no other entry has.
Keyed(n, entry) ==
  \/ entry = Nothing
  \/ cfg[n] # Nothing /\ entry.key = cfg[n].key
  \/ entry.key \in FreshKeys

LEMMA KeyedKeepsDistinct ==
  ASSUME cfg \in Configs, Distinct(cfg), NEW n \in Names, NEW entry, Keyed(n, entry)
  PROVE  Distinct([cfg EXCEPT ![n] = entry])
<1> DEFINE new == [cfg EXCEPT ![n] = entry]
<1>1. new[n] = entry /\ \A m \in Names : m # n => new[m] = cfg[m]
  BY DEF Configs
<1>2. \A m \in Names : m # n /\ cfg[m] # Nothing /\ entry # Nothing
                       /\ entry.key = cfg[m].key => entry.key \notin Keys
  <2>1. \A m \in Names : cfg[m] # Nothing => cfg[m].key \notin FreshKeys
    <3>1. \A m \in Names : cfg[m] # Nothing => cfg[m].key \in KeysOf(cfg)
      BY DEF KeysOf
    <3>2. KeysOf(cfg) \subseteq KeysInUse
      BY DEF KeysInUse
    <3> QED
      BY <3>1, <3>2 DEF FreshKeys
  <2> QED
    BY <2>1 DEF Keyed, Distinct
<1> HIDE DEF new
<1>3. Distinct(new)
  BY <1>1, <1>2 DEF Distinct
<1> QED
  BY <1>3 DEF new

\* What a request does to the list when clients do not supply keys.
LEMMA RequestKeys ==
  ASSUME "supply" \notin Environment, IInv, ClientRequest
  PROVE  /\ maybe' = maybe
         /\ \/ cfg' = cfg
            \/ \E n \in Names : \E entry : Keyed(n, entry) /\ cfg' = [cfg EXCEPT ![n] = entry]
<1> DEFINE Kept == /\ maybe' = maybe
                   /\ \/ cfg' = cfg
                      \/ \E n \in Names : \E entry :
                           Keyed(n, entry) /\ cfg' = [cfg EXCEPT ![n] = entry]
<1>0. RefuseRequest => Kept
  BY DEF RefuseRequest, file
<1>1. ASSUME NEW n \in Names, NEW k \in FreshKeys, NEW h \in Hosts, AddServer(n, k, h)
      PROVE  Kept
  <2>1. CASE ~RefuseRequest
    <3>1. PICK v \in Versions :
            Persist(Request("add", n),
                    [cfg EXCEPT ![n] = [key |-> k, host |-> h,
                                        cached |-> [host |-> h, version |-> v]]])
      BY <1>1, <2>1 DEF AddServer
    <3>2. Keyed(n, [key |-> k, host |-> h, cached |-> [host |-> h, version |-> v]])
      BY DEF Keyed
    <3> QED
      BY <3>1, <3>2 DEF Persist, File!BeginSave
  <2> QED
    BY <1>0, <2>1
<1>2. ASSUME NEW n \in Names, NEW h \in Hosts, Edit(n, h)
      PROVE  Kept
  <2>1. CASE ~RefuseRequest
    <3>1. PICK v \in Versions :
            Stored(n) /\ Persist(Request("edit", n),
                                 [cfg EXCEPT ![n] = Edited(cfg[n], cfg[n].key, h, v)])
      BY <1>2, <2>1 DEF Edit, EditAllowed
    <3>2. Keyed(n, Edited(cfg[n], cfg[n].key, h, v))
      BY <3>1 DEF Keyed, Edited, Stored
    <3> QED
      BY <3>1, <3>2 DEF Persist, File!BeginSave
  <2> QED
    BY <1>0, <2>1
<1>3. ASSUME NEW n \in Names, Remove(n)
      PROVE  Kept
  <2>1. CASE ~RefuseRequest
    <3>1. Persist(Request("remove", n), [cfg EXCEPT ![n] = Nothing])
      BY <1>3, <2>1 DEF Remove
    <3>2. Keyed(n, Nothing)
      BY DEF Keyed
    <3> QED
      BY <3>1, <3>2 DEF Persist, File!BeginSave
  <2> QED
    BY <1>0, <2>1
<1>4. ASSUME NEW n \in Names, Switch(n)
      PROVE  Kept
  BY <1>0, <1>4 DEF Switch, file
<1>5. Disconnect => Kept
  BY DEF Disconnect, file
<1>6. \A n \in Names, h \in Hosts : Add(n, h) \/ Import(n, h) => Kept
  BY <1>1 DEF Add, Import
<1> HIDE DEF Kept
<1>7. Kept
  BY <1>2, <1>3, <1>4, <1>5, <1>6 DEF ClientRequest
<1> QED
  BY <1>7 DEF Kept

LEMMA DistinctStep ==
  ASSUME "supply" \notin Environment, IInv, AllDistinct, [Next]_vars
  PROVE  AllDistinct'
<1>1. cfg \in Configs /\ Distinct(cfg) /\ \A config \in maybe : Distinct(config)
  BY DEF IInv, TypeOK, AllDistinct
<1>2. SUFFICES Distinct(cfg') /\ maybe' \subseteq maybe \cup {cfg}
  BY <1>1 DEF AllDistinct, Distinct
<1>3. CASE ClientRequest
  BY <1>1, <1>3, RequestKeys, KeyedKeepsDistinct
<1>4. CASE SwitchDone
  <2> DEFINE n == req.name
  <2>1. PICK a \in Address :
          \/ UNCHANGED <<cfg, file>>
          \/ Persist([req EXCEPT !.addr = a], [cfg EXCEPT ![n].cached = a])
    BY <1>4, ConnectedShape
  <2>2. n \in Names /\ Stored(n) /\ cfg[n] \in Entry
    BY <1>1, <1>4, ConnectedShape DEF Configs, Stored
  <2>3. CASE Persist([req EXCEPT !.addr = a], [cfg EXCEPT ![n].cached = a])
    <3>1. cfg' = [cfg EXCEPT ![n] = [cfg[n] EXCEPT !.cached = a]] /\ maybe' = maybe
      BY <2>3 DEF Persist, File!BeginSave
    <3>2. Keyed(n, [cfg[n] EXCEPT !.cached = a])
      BY <2>2 DEF Keyed, Stored, Entry
    <3> QED
      BY <1>1, <2>2, <3>1, <3>2, KeyedKeepsDistinct
  <2> QED
    BY <1>1, <2>1, <2>3 DEF file
<1>5. CASE FileStep
  BY <1>1, <1>5 DEF FileStep, File!Replace, File!SaveOk, File!SaveFailed, IInv, Saves
<1>6. CASE TunnelStep \/ CallFailed \/ DisconnectDone \/ SaveDone \/ Expire \/ UNCHANGED vars
  BY <1>1, <1>6 DEF TunnelStep, CallFailed, DisconnectDone, SaveDone, Answered, Expire,
     vars, file
<1>7. CASE Exit \/ PowerLoss
  BY <1>7 DEF Exit, PowerLoss, Down, Distinct, File!SaveCut, File!PowerCut
<1>8. CASE Load
  BY <1>1, <1>8 DEF Load, file, IInv, Saves
<1> QED
  BY <1>3, <1>4, <1>5, <1>6, <1>7, <1>8 DEF Next, DaemonStep

\* The comment on list_servers holds, the live key is one tunnel's, as long as every
\* key was generated by the daemon and the file it first read repeats none.
THEOREM GeneratedKeysAreUnique ==
  ASSUME "supply" \notin Environment, \A config \in FirstFiles : Distinct(config)
  PROVE  Spec => []AtMostOneActive
<1>1. Init => AllDistinct
  BY DEF Init, File!AfInit, AllDistinct
<1>2. IInv /\ AllDistinct /\ [Next]_vars => AllDistinct'
  BY DistinctStep
<1>3. IInv /\ AllDistinct => AtMostOneActive
  <2> SUFFICES ASSUME IInv, AllDistinct, NEW m \in Names, NEW n \in Names,
                      Active(m), Active(n)
               PROVE  m = n
    BY DEF AtMostOneActive
  <2>1. live.key \in Keys
    BY DEF IInv, TypeOK, Tunnels, Active, ActiveIn
  <2> QED
    BY <2>1 DEF AllDistinct, Distinct, Active, ActiveIn
<1> QED
  BY <1>1, <1>2, <1>3, Invariance, PTL DEF Spec
=============================================================================
