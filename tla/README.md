# wirefinder, formally

A TLA+ model of wirefinder: a privileged daemon (`wirefinderd`) that brings one
WireGuard tunnel up or down in the kernel on behalf of a command line and a desktop
GUI, and keeps the configured tunnels in a state file. The specifications follow the
source; TLC checks them on small instances and TLAPS proves the central properties
for every value of the constants.

## The system

| Part | Source | State it keeps | Operations | What is hard |
|---|---|---|---|---|
| Tunnel backend, `KernelWireguard` over `WgOps` | `daemon/src/wireguard.rs` | none of its own: the kernel's device, ip rules, routes, nftables table, and the resolvconf entry | `switch`, `disconnect`, `status` | a dozen operations per intent, any may fail or be the last one before the process is stopped; the kernel's state outlives the process |
| `trait Wireguard` | same | | the contract between daemon and backend | |
| State file, `Store` | `daemon/src/config.rs` | `state.json` and its temporary sibling | `load`, `save` | crash and power loss between write, fsync, rename, directory fsync |
| `Daemon` | `daemon/src/daemon.rs`, `keys.rs` | the configuration in memory, `last_connect` | add, edit, import, remove, switch, disconnect, list, status | three copies of the truth (memory, file, interface) that change at different times; partial failure |
| Process | `daemon/src/main.rs`, `install/wirefinderd.service` | | start, SIGTERM | the signal handler exits from its own thread in the middle of anything |
| Control socket | `daemon/src/server.rs`, `proto/src/lib.rs` (`request`) | the accept queue | accept, read a line, dispatch, reply | one thread for all clients; stalled clients; a request given up on that is done later |
| GUI state | `ui/src/App.tsx`, `useServerList.ts`, `Dashboard.tsx` | list shown, query, busy, failures, screen | poll, refresh, act, applyServers, forms, retry | every call is asynchronous and answers return in any order |
| Tauri bridge, command line | `ui/src-tauri/src/lib.rs`, `cli/src/main.rs` | none | one call of `request` each | defaults and trimming that must agree with the daemon's |
| Edit form | `ui/src/components/ServerForm.tsx` | what `get_server` answered when it was opened | submit | saved long after it was filled; never sees the secrets |
| Import parser | `daemon/src/wgconf.rs` | two sections being filled | read a line, end | lines of any kind in any order; what belongs to which section |
| Routes and resolver name | parts of `wireguard.rs` | none: `ip` and `resolvconf` hold it | canonical prefixes, what is stale, the name to take away | written in one form and read back in another; a name another library chose |
| Connection state | `derive_state`, `handshake_age`, `last_connect` in `daemon.rs` | `last_connect` | | two clocks, one of which is set |
| Stored tunnels | `Config` in `config.rs`, `validate_server` | the list | upsert, remove, find | found by name; fields merged, defaulted and trimmed in different places |
| Presentation, packaging, CI | `ui/src/components`, `install`, `release`, `.github` | | | |

A request travels GUI or command line -> `request` -> socket -> `handle_client` ->
`Daemon::handle` -> `Store::save` and `Wireguard::switch/disconnect` -> netlink, `ip`,
`nft`, `resolvconf`. The daemon has one thread, so handlers never overlap; what
overlaps them is the signal handler, the machine, other programs' failures, and, on the
other side of the socket, the clients.

What makes each part correct, in words:

- **Tunnel**: a successful switch leaves every layer on one server; nothing but a
  disconnect ever takes the kill switch down; a prefix both servers carry leaves the tunnel
  only while the device has no address; the address it keeps stays guarded; the next success
  retires the earlier server, whatever failed before.
- **Store**: the file always parses, and an answered save survives a power loss.
- **Daemon**: an answered mutation survives; memory, list and interface agree after a
  switch; the active tunnel is not edited; the fallback address belongs to its endpoint.
- **Stored tunnels and answers**: every tunnel listed can be acted on; an edit loses no secret
  and creates nothing; the state told of the live peer is true of it.
- **Import**: a file means what its lines say, wherever they stand, or is refused.
- **Socket**: a response belongs to its request, a request is done at most once and in
  order, and no client blocks the others.
- **GUI**: an action's effect is on screen when it ends, an old answer never replaces a
  newer one, and the screen converges to the daemon's list.

## The modules

```
 Tunnel ----implements----> Wireguard (contract) <---INSTANCE---.
   |                                                             Daemon
 Store -----implements----> AtomicFile (contract) <---INSTANCE---'
 Server        the socket between request() and Daemon::handle
 ServerList    the GUI over an abstract daemon
 WgConf        the parser whose result Daemon's Import adds
 Routes, Resolvconf <--EXTENDS-- Tunnel     what is routed, what the resolver is called
 Config <--EXTENDS-- Cli <--EXTENDS-- Api   the list, the requests, the answers
 MCTunnel, MCDaemon, MCWgConf, MCApi     instances for TLC
 Routes_proofs, Tunnel_proofs, Store_proofs, Daemon_proofs, Api_proofs,
 WgConf_proofs, Server_proofs, ServerList_proofs
```

The composition is by contract: `Daemon` uses `Wireguard` and `AtomicFile`, and
`Tunnel` and `Store` are shown, by TLC and by proof, to implement them, so a
property of `Daemon` does not depend on how the two do their work.

`Daemon` and `Api` are two views of the same handlers, each abstracting what the other is
about. `Daemon` takes a handler apart into the steps of its save and its tunnel call, with
every failure between them, and keeps of an entry only its key, its endpoint and its cached
address. `Api` takes a request as one step whose save succeeds, and keeps what clients send
and are told: names as typed, the spellings of a key, secrets left out, handshakes and clocks.

**Tunnel** (`KernelWireguard`). `pc` is the next statement of `switch` or `disconnect`;
every `WgOps` call is an action. `dev`, `rules`, `routes`, `fw` and `dns` are what the
kernel holds; `srv`, `mark` and `todo` are the handler's locals. `faults` says what may go
wrong in a behaviour: `"hard"` an error that ends the switch, possibly after part of the
operation's effect; `"soft"` an error the code only logs; `"read"` a read of a live
interface that fails, which sends `switch` down its cold path; `"remove"` a
`remove_interface` that ends part-way, the device gone or not; `"exit"` the signal
handler. `host` is the resolvconf installation. Both are chosen from `Worlds` at first and
never change, so that one run has properties that need the absence of a fault beside those
that do not. A server is its identity: its key, peer and resolver are named by it, its
addresses are a set that may overlap with another's, and its AllowedIPs are prefixes of
`Routes`. The library behind `WgOps` (defguard) is external. Its effects are taken from how
the source uses it and what its comments say: `configure_interface` flushes the old address
and replaces key, peers, mark and address (`wireguard.rs:503-507`), `configure_peer_routing`
picks a mark when the device has none and installs the ip rules for a default route only
(`:519`, `:527-529`), and `remove_interface` takes the rules and the resolver entry along
(`:474-477`). Each of the three is one call for several changes. As nothing says in which
order they are made, an error may leave any of them behind: a device with part of a list of
addresses has no server's (`NoServer`), and a removal that failed may have taken the device.
With a device's last IPv4 address the kernel drops its IPv4 routes (`FlushedRoutes`). The
default route that `configure_peer_routing` keeps in the mark's own table is not modelled:
its rules stand for it.

**Routes**. A prefix is a family, the bits of an address and a length. `SplitRoutePrefixes` is
what a switch installs; `Dst` is the form in which `ip -j route show` gives a route back
(external), `ParseIpRoutePrefixes` and `InstalledSplitRoutes` what the code makes of it, and
`StaleRoutes` what it then deletes. `Tunnel`'s routes go through all of them.

**Resolvconf**. `DefguardIfname` (external) is the name under which the library registers a
resolver, `ResolvconfIfname` the one under which the daemon takes it away; a `Host` is what
the two look at. The daemon trims a line of the interface-order file before it matches
(`wireguard.rs:822`); the library's expression, which the daemon says it mirrors, is anchored
(`:819`), so a `padded` line, one with spaces around it, is a match to one of them only.
`ResetResolvconf` in `Tunnel` has an effect only if the two names agree.

**Wireguard**. What the caller of the trait may rely on: which server is live and whether
the kill switch is armed, at every step, after an answer, and after the process died. Of a
disconnect that failed it may rely on nothing: the tunnel may be there or gone.

**Store**. One action per system call of `save` and `write_private`; `kept` is the set of
contents a power loss may leave. External: the file system, in the usual sense (reads see
the cache; unsynced data may be torn; an unsynced rename may be undone). The temporary
file's directory is one directory, and only the daemon writes to it. A path without a
directory of its own, for which `save` skips the last fsync (`config.rs:181-183`), is left
out: the daemon's is absolute.

**AtomicFile**. The promise of `Store::save`: replaced as a whole, durable once answered
Ok, possibly done when answered Err.

**Daemon**. `Daemon::handle` over the two contracts. A handler is a few steps: it
changes `cfg` and begins the save, or asks the tunnel, waits in `pc`, and answers.
Between any two of them the process may exit and the machine may lose power. A tunnel
is its private key, its endpoint (`host`) and the address cached for it; `Address` names
the host it was resolved for, which is what `CacheIsOwn` is about. Names resolve to a
version the environment chooses, since providers rotate addresses. The remaining fields
are validated and copied, and so is every rejection of malformed input: `RefuseRequest`.
`Environment` selects who is present: clients that supply keys, failing saves, failing
tunnel calls, an interface that cannot be read, exits, power losses. The state file may
hold, at first, an entry whose key does not parse (`EditedByHand`).

**Config**. The list of tunnels, the records clients send and get, and the functions between
them: `Upserted`, `Removed`, `Added`, `Edited`, `Detail`, `Info`, `Matches`, `Validates`, and
`Meaning`, what an entry configures. A text is a model value; the constants `Trim`, `Lower`,
`PeerOf` and `Contains` say what the code's string operations make of it. `endpoint` also
stands for the fields treated like it. Some places trim and some do not, as in the code: a
name is trimmed when stored and compared as it is; a peer's key is trimmed and parsed when
used, and stored as typed.

**Cli**. The requests of the command line, from its arguments, and the definition the desktop
form submits, from its fields.

**Api**. `Daemon::handle` over `Config` and `Cli`: command lines, one desktop client whose
edit form stays open while others change the list, the tunnel on the interface (`dev`) with
the time since its last handshake, and the connecting window (`since`). The wall clock is
modelled by how far it was set since the handshake (`dev.step`), as only differences
matter; `last_connect` is on the monotonic clock.

**Server**. `request` on the client's side and `serve`/`handle_client` on the daemon's,
one action per blocking call. A timeout is a step that may happen while what it bounds
has not. A `line` in the socket is a part of the request, its whole `"text"` without the
newline, which is handled if the client goes away by then, the `"whole"` line, or one longer
than `MAX_REQUEST_BYTES`, which is cut and refused (`server.rs:93-95`). A `result` of `"ok"` is a response of `Daemon::handle`, whatever it says;
`"error"` is everything else, from a refused connection to `bad request`.

**ServerList**. The hook `useServerList` with its refs, the flows of `Dashboard` and the
phases of `App`. A refresh in flight carries whether it is the latest (`refreshSeq`), the
query it was sent with, and what the daemon answered. `daemon.at` counts the daemon's
changes, so that two lists can be compared by age. `calls` are those that no dashboard waits
for: App's own loads, of which there may be several, and a removal whose dashboard was
unmounted before it was answered, which still makes App load when it took the last tunnel
(`Dashboard.tsx:213-216`). A superseded refresh that nobody
awaits has no effect, and two that look alike are one. Simplifications: the debounced
refresh of a typed query is one of `Poll`'s, one form is in flight at a time, and an edit
form being opened is not modelled.

**WgConf** (`wgconf::parse`). One action per kind of line: `iface`, `peers` and `section` are
the parser's variables, `text` the lines read. A line stands for its content without
comment, in lower case where the code ignores case; values are sequences of tokens, the
parts between commas, with `Empty` where nothing is. `Fits` says which tokens are numbers
of a field's width. Beside the parser, `WellFormed` and `Says` read a file as a whole:
which section a line is in, how often a key is given there, what a list gathers.
Whether keys and addresses are valid is looked at later, by `add_server` (`RefuseRequest`).

### What the names correspond to

`PROJECT.json` maps every definition to its lines. Definitions with a suffix, such as
`Create_Fresh` beside `Create`, are seeded bugs: what the code would be with a
plausible mistake. No specification uses them; they show that a property can fail.

## The runs

| Run | Question | Instance | Distinct states |
|---|---|---|---|
| `tunnel_faults` | With every fault at every operation: does the kill switch hold, does the device's address stay guarded, do shared prefixes stay routed once it has an address, is an answered switch coherent, does the backend keep the trait's promises, does every intent end? When best-effort operations succeed and reads do not fail: does the next successful intent retire the earlier server? | two full tunnels, one split tunnel and one bad key, sharing prefixes and an address; two marks; all five faults on one host, `"hard"` and `"exit"` alone on two more, and with `"remove"` on a fourth | 1,119,447 |
| `tunnel_two_rules` | Is a live interface healed in place? (violated) | the same, `"read"` alone | |
| `tunnel_shared_route` | Is a prefix that both servers carry never without a route? (violated) | the same, no faults | |
| `store_save` | Is the file whole and durable, and the protocol an atomic file? | three configurations | 993 |
| `daemon_requests` | In every order of requests, with failing tunnel calls and restarts: do list, interface, cache and window agree? | two names, two keys, two endpoints (one a full tunnel), two addresses each | 587,420 |
| `daemon_disk` | Through failed saves, power losses and everything else: do answered mutations stay, is every request answered, and is one tunnel at most active while the daemon generates every key? | two names, two keys, one endpoint | 63,092 |
| `api_answers` | Are the answers true, is every tunnel listed reachable, does an edit keep what it does not carry? | two entries, three keys, one peer in three spellings, a name typed in two ways, a file to import, an entry corrupted by hand | 227,166 |
| `api_states` | Do list and status tell the same state of the active tunnel? (violated) | the same | |
| `import_conf` | Is a file accepted exactly when it is well-formed, with every setting as written? | every file of up to seven lines, from thirteen kinds of line | 5,221,948 |
| `server_calls` | Own response, at most once, in order, nobody wedged? | two clients with two tries each, one restart | 1,376,513 |
| `gui_list` | Does an action show its effect, and does the dashboard converge? | two names, a query that matches one, three moves, two refreshes and two further calls at once | 1,373,964 |
| `gui_clobber` | Is a list ever replaced by an older one? (violated) | the same, without forms | |

### What the runs show

The kill switch holds through every failure and stop, warm or cold: it goes only in
disconnect's own removal. `WarmKeepsExemption` is the other half: the mark a switch reads
at its beginning and writes back with the new key keeps the device's packets out of its own
tunnel. `GuardHeld` is about the packet filter: as the table is replaced in one transaction,
and only once the device has the address, no failure or exit takes the guard off an address
the device keeps. (An address it has just been given is not guarded until `apply_firewall`;
a switch that fails in between, or a disconnect that clears the table after a removal that
failed, leaves it so until the next success.)

`SharedRouteHeld` is what "installs before pruning" is for: from `configure_interface` on, no
step drops a prefix the new server also carries. In `configure_interface` itself one may go,
if it is IPv4 and the device had an IPv4 address to flush, and `tunnel_shared_route` shows
that it does, on a warm switch with no fault at all.

`OneKillSwitch` holds exactly as long as reads of a live device and removals do not fail;
`tunnel_two_rules` shows what one failed read costs.

`OldServerRetired` says what a success leaves of earlier servers when best-effort operations
succeed: after a disconnect nothing, after a switch no route, resolver or connmark. It is not
about the rules and the mark of an earlier full tunnel, which a switch to a split one leaves
by design ("torn down only by remove_interface"). Its two exceptions are real. An AllowedIP
such as `1.2.3.4/0` is not a default route to the code, which goes by the address
(`wireguard.rs:297`), so its network `0.0.0.0/0` is installed as a route of its own; `ip`
gives it back as "default", which the parser skips (`:717-719`, "a default route is never
ours"), and only a disconnect takes it away. And on an openresolv host whose interface-order
file has spaces around a pattern, the two names differ and the old resolver stays.

For the daemon, `AckedIsDurable` is about the answer and not about the save: a save that
failed, or was cut short, may still have replaced the file, and the next one that
succeeds settles it. `CacheIsOwn` holds of every file a power loss may bring back.
`EditSparesActive` needs an interface that can be read. With `"unread"` added to the
`Environment` of its run TLC finds add, switch, and an edit that comes while a read fails: the
live tunnel's entry is changed, because `active_public_key` turns an error into "none"
(`daemon.rs:234-236`), although "editing the currently-active tunnel is rejected"
(`proto/src/lib.rs:91`). `AtMostOneActive` needs keys that the daemon generated: with
`"supply"` added, TLC adds two tunnels with one key, switches to one and finds both active,
although the key "is unique per tunnel" (`:242`). `FallbackFresh`
needs saves that succeed: a failed save of the cache is not retried, since the next
comparison is with memory (`:369`). `ConnectingIsLive` allows for a call that failed:
a disconnect that took the interface and then reported an error leaves `last_connect` as it
was (`:386`).

`StateIsTrue` says what the state shown may be wrong about: a clock set back errs towards
alive, one set forward towards stale, and nothing ever makes up or denies a handshake.
`StatesAgree`, that list and status tell the same state, is violated (`api_states`). The list looks the active tunnel's peer up by the text
stored for it (`daemon.rs:274`), the interface by the kernel's spelling of the key. A key
typed at the command line with a space around it, or in base16 (which `validate_server`
accepts), makes a tunnel that works show as connecting and then as never connected in the
list, while `info` shows it alive. The doc of `list_servers` (`:243-245`) expects the two to
be rendered "consistently", by "the same rule as `read_status`". The same happens when an add or an import replaces the entry of
the active tunnel, which, unlike an edit, is not refused.

`LateSaveIsEdit` and `EditKeeps` are about the edit form: saved late it creates nothing, and
saved as it is it changes nothing. What nothing forbids is a late save over an entry that was
replaced in between, whose secrets then stay beside the form's peer. (The comment on
`upsert_server`, `config.rs:45-46`, that the GUI's edit "is just a re-add" is older than
`edit_server`: a re-add would bring a removed tunnel back and forget its secrets, which is
the seeded bug `EditServer_ReAdded`.)

Four disagreements between what the source says and what it does have runs of their own:

1. `tunnel_two_rules`: "reconfiguring in place fully heals a stale interface" does not
   hold for a full tunnel: the mark is cleared, another is picked, and the old pair of
   rules stays.
2. `tunnel_shared_route`: a prefix both servers carry is to be "never momentarily
   route-less" (`wireguard.rs:639-642`), but `configure_interface`, which flushes the old
   address (`:503-504`), comes first.
3. `api_states`: list and status may tell different states of one tunnel, as above.
4. `gui_clobber`: a poll begun before a removal puts the removed server back.

One more was only read: a file without AllowedIPs is to "mirror the CLI `add` default"
(`wgconf.rs:176-179`), but gets IPv4 only; the default of the command line and of the form has
both families (`cli/src/main.rs:122-127`). `WgConf` has the default as the parser gives it.

One consequence of partial failure that no property forbids: a mutation whose save failed is
answered with an error, yet stays in memory and is written by the next save.

### Bounds

- Tunnel: two `Marks`. The library scans upward without limit; a failed read, and a removal
  that takes the device and not its rules, need a free one left (`SomeMarkIsFree`), so that
  the accident can happen once per disconnect. Four servers
  give every pair of kinds (full, split), overlaps of prefixes and addresses, with and
  without a resolver, and a key that does not parse. Addresses have two bits: enough for
  host bits to clear, host routes, lengths of 0, and the unspecified address of any length.
  One server has no IPv4 address, so that a flush does and does not take routes along.
  The hosts are systemd-resolved, openresolv with an order file whose first valid line is
  not its first, a symlink beside an order file left over, and openresolv with spaces in
  its order file. Nothing bounds the number
  of intents.
- Api: two entries; three keys, so that the generated key of a new entry differs from the
  two in use; a name and a peer's key in each of the ways they can be written;
  `StaleAfter` 2 and `Window` 1, so that fresh, stale, open and expired all occur; the clock
  off by at most `MaxStep`, ages up to `MaxAge`. Nothing bounds the number of requests. Keys and
  slots are interchangeable.
- Store: three configurations, so that old, new and a third one from an earlier failed
  save differ. No other bound.
- Daemon: `MaxUnsettled` bounds how many contents failed saves may leave open at a time;
  two let one failure happen on top of another. Keys and versions are interchangeable
  (symmetry, in runs without liveness properties). Nothing bounds the number of requests.
- WgConf: `MaxLines`. The shortest accepted file has six lines; seven leave room for any
  one line more, which repeats a key, adds a section, belongs elsewhere or is wrong.
  `MCLines` has one line per way the parser can treat one; keys treated alike are not
  repeated.
- Server: `MaxTries` and `MaxExits`. Two tries are what a retry needs.
- ServerList: `MaxMoves` bounds what users, other clients and failures do in all, which is
  also what "left alone" means in `Converges`; polls and answers are not bounded. Three moves
  are an action, a change behind its back and a failure. `Threshold` is 2 rather
  than the code's 3, so that the offline screen and the way back fit. `MaxRefreshes`
  bounds the refreshes polls may have in flight, `MaxCalls` the loads and late removals.

### Fairness

- Tunnel: weak fairness of the handler's steps. The daemon's only thread runs a handler to its
  end, and each command it waits for is assumed to return: the code sets no timeout on them.
- Daemon: weak fairness of its steps and of `Load` (systemd restarts the unit).
- Server: weak fairness of `handle_client`'s steps. Each blocking read and write has
  `IO_TIMEOUT`, and each handler ends by the above. None for clients.
- ServerList: weak fairness of answers (a call returns or times out), of continuations (the
  event loop), and of the interval timer. No fairness for users. Polls every three seconds
  may overtake a daemon that takes longer to answer, for ever: `Converges` says so.

A run with `CHECK_DEADLOCK FALSE` is one whose bounds (or a screen that waits for its user)
may stop the system.

## What is proved

`Tunnel_proofs`, for every set of servers, addresses, prefixes of any width, marks, hosts and
worlds:

- `TypeCorrect`, `SequencingHolds`, `SwitchCoherent`, `KillSwitchSafe`, `SharedRouteSafe`,
  `GuardSafe`, `WarmSafe`: the type invariant and the safety properties.
- `OneKillSwitchSafe`: with one more conjunct, that a cold switch meets no rule and no live
  device in a world where reads and removals do not fail.
- `RetiresOldServers` (`OldServerRetired`): on any host. For the resolver it rests on a lemma,
  `NamesAgree`, about hosts whose matching lines have no spaces around them: there, the name
  the daemon takes a resolver away under is the one the library registered it under.
- `Implementation`: every step of the kernel sequence is a step of the contract
  `Wireguard` or changes nothing in it.

`Routes_proofs`: clearing host bits is idempotent and yields what the kernel can hold, a
route read back is the one that was written (`ReadBackExact`) unless its length is 0, and
`SyncExact`: what is found stale is exactly what is installed and not wanted, but for those.

The inductive invariant is `TypeOK /\ Sequencing`. Coherence after a switch is not
inductive, since it says nothing of the states in between; `Sequencing` says, for each
operation, what the ones before have established (after `configure_interface` the
device is up with this server's key; after routing its mark has a rule; while routes
are replaced those not in `todo` are there; while they are pruned none of the wanted ones
is in `todo`). `TypeOK` carries that an absent device has no mark. The action
properties then follow step by step: only `Remove` shrinks `rules`; only `PruneRoute`,
`Remove` and the flush shrink `routes`; only `ApplyFirewall`, when the device has the
addresses of the new table, and `ClearFirewall` change `fw`; and a warm configuration writes back the mark it read.

`Store_proofs`, for every set of configurations: `TypeCorrect`, `LoadAlwaysSucceeds`,
`SavedStays` and `Implementation`. The invariant adds to the type what `save` relies on:
by `Rename` the temporary file holds the whole value, on disk; `SequencingHolds` is that
part, as a property of its own.

`Daemon_proofs`, for every set of names, keys, endpoints and first files and every
environment: `TypeCorrect`, `CachesAreOwn`, `AckedStays`, `SwitchedShows` and
`ConnectingHasTunnel`; `ActiveIsSpared` assumes that the interface can be read,
`FallbackIsFresh` that saves do not fail and `GeneratedKeysAreUnique` (`AtMostOneActive`) that
clients supply no keys and the file repeats none at first, since without that the three are
false. For the last, keys are distinct in memory and in every content a power loss may bring
back: an edit keeps its entry's key, and a generated one is no other's. The
invariant says, for each `pc`, which contract call is under way and for which request
(`Calls`, `Saves`), which is what an answer given at the end of it rests on: while a save is
pending, `saving` is the configuration in memory, and everything the file may hold is one
whose caches are its own; while the tunnel is asked, its target is the entry as it was when
the request came, and no other request can have changed it.

`Api_proofs`, for any texts and any functions on them that satisfy `TextAssumption`, any keys,
command lines and first files: `TypeCorrect`, `ListedIsReachableHolds`, `EditKeepsHolds`,
`LateSaveHolds` and `StateIsTrueHolds`. What carries them is that names are
trimmed, not empty and distinct (`WellNamed`), and that the interface only ever holds a key
that parses and a peer in the kernel's spelling; the form's name is one the list once had.

`WgConf_proofs`, for every set of lines, files of any length and lists of any length:
`TypeCorrect`, `NeverPanics` (a setting's section exists, so that neither `expect` of `parse`
fails) and `ParsesWhatItSays` (`MeansWhatItSays`): a file is accepted exactly when it is
well-formed as a whole, and then every setting is what the file says. The invariant is that
the parser's sections are at every line what the text read so far says, key by key: a scalar is
the value given in its section, a list what the lines of its section gather. One more line
changes what the text says of its own key and section and of nothing else, which is where a
setting after a second header, or a list key given twice, would go wrong. `Csv` and the library's
`FlattenSeq` are recursive functions, defined by CHOOSE. What they do with one more
element is proved by induction over a set of naturals (which, if it lacked a number, would lack a
least one) after showing that such functions exist.

`Server_proofs`, for any number of clients, tries and exits: `TypeCorrect`,
`AnswersItsOwnRequest` (`OkMeansHandled`) and `RequestsInOrder` (`HandledInOrder`). The order
of `handled` alone is not inductive: the invariant orders everything a client has made,
handled requests before the one being served before those in the backlog, and says that
no connection exists that was not made yet, so that a new one comes after all of them.
For the answers it says that "ok" is in no socket unless that connection's request was
handled, and that once its line has ended, or its client is gone, the line does not change
any more.

`ServerList_proofs`, for any names, query, threshold and number of refreshes and calls in
flight: `TypeCorrect` and `ActionShownHolds`. The invariant says whose refreshes there may be
(one is the latest at most, one is an action's and one a form's, each only once its call has
succeeded) and how old what they hold may be: once an action re-reads the list, the answer of
the latest refresh is no older than the action's, and if the action's own read has been
overtaken, that was by a form's, or its result is shown already, or it failed.

Assumptions are the named `ASSUME`s of the modules, which only state what the constants are.

Every invariant and every action property of the passing runs is stated by a theorem. Only
model-checked are the liveness properties (`IntentEnds`, `RequestAnswered`, `NobodyIsWedged`,
`Converges`), which are out of the prover's reach, and, by their runs, the four violations.

## What is not modelled

- The text of `nft_script`, and `parse_addresses` and `parse_dns`, which pass values on or
  refuse them: the models have a set of addresses, a resolver or none, and a refusal.
- How often `list_servers` is asked and by whom (`ServerList` has the GUI's part of it); what
  it answers is a function of `Api`'s state.
- Socket modes and ownership, secrecy of keys, the encoding of messages.
- What the command line prints, the Tauri window and tray, the headline of the dashboard,
  presentation, packaging and CI: they keep no state another part depends on.
- Other programs that change the interface or the state file.

## The plan

Done: the tunnel, the state file, the request handlers, the answers, the socket and the import
parser and the GUI's list, each with its proofs. What is left:

1. The tray and the headline of the dashboard.
2. One module that composes `Api` with `ServerList`, so that the dashboard's convergence is
   about the list `Api` answers rather than an abstract one.
