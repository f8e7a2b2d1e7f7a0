------------------------------- MODULE Tunnel -------------------------------
(***************************************************************************)
(* KernelWireguard (daemon/src/wireguard.rs): the two intents the daemon   *)
(* has, switch and disconnect, at the grain of the kernel operations they  *)
(* are made of.  Between any two operations the process may be stopped by  *)
(* a signal (main.rs installs a handler that exits at once and leaves the  *)
(* tunnel as it is); every operation may fail.                             *)
(*                                                                         *)
(* What the kernel holds (the device, the kill-switch ip rules, the routes *)
(* tagged proto static, the nftables table, the resolvconf entry) survives *)
(* the process.  Those operations belong to defguard, ip, nft and          *)
(* resolvconf: their effect is taken from how the source uses them and     *)
(* what it says of them.                                                   *)
(*                                                                         *)
(* Simplifications: a server's key, peer and resolver are named by the     *)
(* server; fwmarks are an unordered set of free routing tables; the order  *)
(* in which prefixes are installed or retired is left open.                *)
(***************************************************************************)
EXTENDS FiniteSets, Routes, Resolvconf

CONSTANTS
  Servers,      \* the configured tunnels
  NoServer,     \* "none": no device configuration, no resolver
  Addresses,    \* tunnel addresses
  V4Addresses,  \* those of them that are IPv4
  Marks,        \* the routing tables / fwmarks defguard may pick
  NoMark,       \* fwmark 0
  AddressesOf,  \* server -> its Address list
  AllowedOf,    \* server -> its AllowedIPs
  WithDns,      \* servers that name a resolver
  BadKey,       \* servers whose stored private key does not parse
  LinePrefixes, \* what precedes the star in the interface-order file
  Worlds        \* the faults a behaviour may meet, on which host

\* "hard": an operation whose error fails the switch; "soft": one whose error is
\* only logged; "read": read_interface_data fails on a live device; "remove":
\* remove_interface ends part-way; "exit": a signal stops the daemon.
ASSUME TunnelAssumption ==
  /\ NoServer \notin Servers
  /\ NoMark \notin Marks
  /\ V4Addresses \subseteq Addresses
  /\ AddressesOf \in [Servers -> SUBSET Addresses]
  /\ AllowedOf \in [Servers -> SUBSET Prefix]
  /\ WithDns \subseteq Servers
  /\ BadKey \subseteq Servers
  /\ \A w \in Worlds : /\ w.faults \subseteq {"hard", "soft", "read", "remove", "exit"}
                      /\ w.host \in Host(LinePrefixes)

VARIABLES
  dev,      \* the network device: present or not, whose key and peer it holds,
            \* whose address, and its fwmark
  rules,    \* the marks for which the pair of kill-switch ip rules is installed
  routes,   \* our main-table routes on the device (proto static)
  fw,       \* our nftables table: the guarded addresses, the connmark
  dns,      \* whose resolver is registered with resolvconf
  pc,       \* what the daemon's only thread does next
  srv,      \* the server of the switch under way, or of the last one
  mark,     \* the fwmark that switch carries from one operation to the next
  todo,     \* prefixes still to install or to retire
  outcome,  \* how the last intent ended
  faults,   \* which faults happen in this behaviour; never changes
  host      \* the resolvconf installation; never changes

kernel == <<dev, rules, routes, fw, dns>>
vars == <<dev, rules, routes, fw, dns, pc, srv, mark, todo, outcome, faults, host>>

-----------------------------------------------------------------------------
SplitOf == [s \in Servers |-> SplitRoutePrefixes(AllowedOf[s])]
FullTunnel == {s \in Servers : HasDefaultRoute(AllowedOf[s])}

MaybeServer == Servers \cup {NoServer}
MaybeMark == Marks \cup {NoMark}
Device == [up : BOOLEAN, conf : MaybeServer, addr : MaybeServer, mark : MaybeMark]
Ruleset == [addrs : SUBSET Addresses, mark : MaybeMark]

Absent == [up |-> FALSE, conf |-> NoServer, addr |-> NoServer, mark |-> NoMark]
NoRules == [addrs |-> {}, mark |-> NoMark]

SwitchSteps == {"Read", "Reconfigure", "Create", "BringUp", "Route", "Replace",
                "Prune", "ReadMark", "Firewall", "Dns"}
DisconnectSteps == {"Remove", "Clear"}

\* The further outcomes an operation has when its error is only logged.
Soft(outcomes) == IF "soft" \in faults THEN outcomes ELSE {}

Init ==
  /\ dev = Absent
  /\ rules = {}
  /\ routes = {}
  /\ fw = NoRules
  /\ dns = NoServer
  /\ pc = "Idle"
  /\ srv = NoServer
  /\ mark = NoMark
  /\ todo = {}
  /\ outcome = "none"
  /\ \E w \in Worlds : faults = w.faults /\ host = w.host

Finish(how) ==
  /\ pc' = "Idle"
  /\ todo' = {}
  /\ mark' = NoMark
  /\ outcome' = how

-----------------------------------------------------------------------------
(* switch: everything parsed before the tunnel is touched                  *)

BeginSwitch(s) ==
  /\ pc = "Idle"
  /\ pc' = "Read"
  /\ srv' = s
  /\ outcome' = "none"
  /\ UNCHANGED <<kernel, mark, todo>>

\* The peer, an address, a resolver or the endpoint does not parse or resolve.
RejectSwitch(s) ==
  /\ pc = "Idle"
  /\ "hard" \in faults
  /\ srv' = s
  /\ Finish("failed")
  /\ UNCHANGED kernel

PreservedMark_Forgotten(device) == NoMark

\* The fwmark a warm switch hands back to the device it just read.
PreservedMark(device) == device.mark

\* A bound of the model: defguard scans upward for a free table without limit.
SomeMarkIsFree == Marks \ rules # {}

ReadHostWarm ==
  /\ pc = "Read"
  /\ dev.up
  /\ srv \notin BadKey
  /\ pc' = "Reconfigure"
  /\ mark' = PreservedMark(dev)
  /\ UNCHANGED <<kernel, srv, todo, outcome>>

ReadHostCold ==
  /\ pc = "Read"
  /\ ~dev.up \/ ("read" \in faults /\ SomeMarkIsFree)
  /\ srv \notin BadKey
  /\ pc' = "Create"
  /\ mark' = NoMark
  /\ UNCHANGED <<kernel, srv, todo, outcome>>

\* build_interface_config parses the private key only now.
RejectKey ==
  /\ pc = "Read"
  /\ srv \in BadKey
  /\ Finish("failed")
  /\ UNCHANGED <<kernel, srv>>

-----------------------------------------------------------------------------
(* switch: the device                                                      *)

\* A cold path that clears the way first, which takes the ip rules with it.
Create_Fresh ==
  /\ pc = "Create"
  /\ dev' = [Absent EXCEPT !.up = TRUE]
  /\ rules' = {}
  /\ pc' = "BringUp"
  /\ UNCHANGED <<routes, fw, dns, srv, mark, todo, outcome>>

\* create_interface fails on a device that is there, and may fail otherwise; its
\* result is ignored either way.
Create ==
  /\ pc = "Create"
  /\ \/ ~dev.up /\ dev' = [Absent EXCEPT !.up = TRUE]
     \/ (dev.up \/ "hard" \in faults) /\ dev' = dev
  /\ pc' = "BringUp"
  /\ UNCHANGED <<rules, routes, fw, dns, srv, mark, todo, outcome>>

\* configure_interface flushes the old address, sets the new one and the key, replaces
\* the peers and writes the fwmark.  With a device's last IPv4 address the kernel
\* drops its IPv4 routes.  A device with part of a list of addresses has no server's.
HasV4(s) == AddressesOf[s] \cap V4Addresses # {}
V6Routes == {r \in routes : r.v6}
FlushedRoutes ==
  IF dev.addr = NoServer THEN {routes, V6Routes}
  ELSE IF HasV4(dev.addr) THEN {V6Routes} ELSE {routes}

Configured == [up |-> TRUE, conf |-> srv, addr |-> srv, mark |-> mark]

\* What an error may leave behind: any part of it, whatever the order.
PartlyConfigured ==
  \E conf \in {dev.conf, srv}, addr \in {dev.addr, NoServer, srv}, m \in {dev.mark, mark} :
    /\ dev' = [up |-> TRUE, conf |-> conf, addr |-> addr, mark |-> m]
    /\ routes' \in FlushedRoutes \cup {routes}
    /\ (addr = srv /\ dev.addr # srv) => routes' \in FlushedRoutes

ConfigureInterface ==
  \/ /\ dev.up
     /\ dev' = Configured
     /\ routes' \in FlushedRoutes
     /\ pc' = "Route"
     /\ UNCHANGED <<rules, fw, dns, srv, mark, todo, outcome>>
  \/ /\ "hard" \in faults
     /\ dev.up
     /\ PartlyConfigured
     /\ Finish("failed")
     /\ UNCHANGED <<rules, fw, dns, srv>>
  \/ /\ ~dev.up
     /\ Finish("failed")
     /\ UNCHANGED <<kernel, srv>>

Reconfigure == pc = "Reconfigure" /\ ConfigureInterface

BringUp_Ignored ==
  /\ pc = "BringUp"
  /\ dev.up
  /\ \/ dev' = Configured /\ routes' \in FlushedRoutes
     \/ "hard" \in faults /\ PartlyConfigured
  /\ pc' = "Route"
  /\ UNCHANGED <<rules, fw, dns, srv, mark, todo, outcome>>

BringUp == pc = "BringUp" /\ ConfigureInterface

-----------------------------------------------------------------------------
(* switch: routing                                                         *)

\* The mark routing works with: the device's own, else a free table's.
RoutingMarks == IF dev.mark = NoMark THEN Marks \ rules ELSE {dev.mark}

\* configure_peer_routing installs the pair of ip rules for a default route only.
Route ==
  /\ pc = "Route"
  /\ \/ /\ IF srv \in FullTunnel
             THEN \E m \in RoutingMarks :
                    dev' = [dev EXCEPT !.mark = m] /\ rules' = rules \cup {m}
             ELSE UNCHANGED <<dev, rules>>
        /\ pc' = "Replace"
        /\ todo' = SplitOf[srv]
        /\ UNCHANGED <<mark, outcome>>
     \/ /\ "hard" \in faults
        /\ \/ UNCHANGED <<dev, rules>>
           \/ /\ srv \in FullTunnel
              /\ \E m \in RoutingMarks :
                   /\ dev' = [dev EXCEPT !.mark = m]
                   /\ rules' \in {rules, rules \cup {m}}
        /\ Finish("failed")
  /\ UNCHANGED <<routes, fw, dns, srv>>

ReplaceRoute_Logged ==
  /\ pc = "Replace"
  /\ \E p \in todo :
       /\ \/ routes' = routes \cup {p}
          \/ "hard" \in faults /\ routes' = routes
       /\ todo' = todo \ {p}
  /\ UNCHANGED <<dev, rules, fw, dns, pc, srv, mark, outcome>>

\* ip route replace: an error ends the switch.
ReplaceRoute ==
  /\ pc = "Replace"
  /\ \E p \in todo :
       \/ /\ routes' = routes \cup {p}
          /\ todo' = todo \ {p}
          /\ UNCHANGED <<pc, mark, outcome>>
       \/ /\ "hard" \in faults
          /\ routes' = routes
          /\ Finish("failed")
  /\ UNCHANGED <<dev, rules, fw, dns, srv>>

ReadBack ==
  /\ pc = "Replace"
  /\ todo = {}
  /\ \E families \in {BOOLEAN} \cup Soft(SUBSET BOOLEAN) :
       todo' = StaleRoutes(InstalledSplitRoutes(routes, families), SplitOf[srv])
  /\ pc' = "Prune"
  /\ UNCHANGED <<kernel, srv, mark, outcome>>

\* ip route del: an error is logged.
PruneRoute ==
  /\ pc = "Prune"
  /\ \E p \in todo :
       /\ \/ routes' = routes \ {p}
          \/ "soft" \in faults /\ routes' = routes
       /\ todo' = todo \ {p}
  /\ UNCHANGED <<dev, rules, fw, dns, pc, srv, mark, outcome>>

PruneDone_Verified ==
  /\ pc = "Prune"
  /\ todo = {}
  /\ todo' = StaleRoutes(InstalledSplitRoutes(routes, BOOLEAN), SplitOf[srv])
  /\ pc' = IF todo' = {} THEN "ReadMark" ELSE "Prune"
  /\ UNCHANGED <<kernel, srv, mark, outcome>>

PruneDone ==
  /\ pc = "Prune"
  /\ todo = {}
  /\ pc' = "ReadMark"
  /\ UNCHANGED <<kernel, srv, mark, todo, outcome>>

-----------------------------------------------------------------------------
(* switch: packet filter and resolver                                      *)

\* The fwmark is whatever the device has after routing; unreadable counts as none.
ReadMark ==
  /\ pc = "ReadMark"
  /\ mark' \in {dev.mark} \cup Soft({NoMark})
  /\ pc' = "Firewall"
  /\ UNCHANGED <<kernel, srv, todo, outcome>>

\* nft_script: one transaction that replaces the table, or deletes it when there
\* is no address to guard.
NftScript(addrs, m) == [addrs |-> addrs, mark |-> IF addrs = {} THEN NoMark ELSE m]

\* The table deleted and added again by two runs of nft.
ApplyFirewall_TwoScripts ==
  /\ pc = "Firewall"
  /\ \/ /\ fw' = NftScript(AddressesOf[srv], mark)
        /\ pc' = "Dns"
        /\ UNCHANGED <<mark, todo, outcome>>
     \/ /\ "hard" \in faults
        /\ fw' \in {fw, NoRules}
        /\ Finish("failed")
  /\ UNCHANGED <<dev, rules, routes, dns, srv>>

ApplyFirewall ==
  /\ pc = "Firewall"
  /\ \/ /\ fw' = NftScript(AddressesOf[srv], mark)
        /\ pc' = "Dns"
        /\ UNCHANGED <<mark, todo, outcome>>
     \/ /\ "hard" \in faults
        /\ fw' = fw
        /\ Finish("failed")
  /\ UNCHANGED <<dev, rules, routes, dns, srv>>

ApplyDns_OnlyWhenSet ==
  /\ pc = "Dns"
  /\ dns' = IF srv \in WithDns THEN srv ELSE dns
  /\ Finish("switched")
  /\ UNCHANGED <<dev, rules, routes, fw, srv>>

\* reset_resolvconf: resolvconf -d drops the registration if the name is the one it
\* was made under.
ResetResolvconf(registered) ==
  IF ResolvconfIfname(host) = DefguardIfname(host) THEN NoServer ELSE registered

\* apply_dns: configure the resolver (a hard error) or reset it (best effort).
ApplyDns ==
  /\ pc = "Dns"
  /\ \/ /\ dns' = IF srv \in WithDns THEN srv ELSE ResetResolvconf(dns)
        /\ Finish("switched")
     \/ /\ srv \in WithDns
        /\ "hard" \in faults
        /\ dns' = dns
        /\ Finish("failed")
     \/ /\ srv \notin WithDns
        /\ "soft" \in faults
        /\ dns' = dns
        /\ Finish("switched")
  /\ UNCHANGED <<dev, rules, routes, fw, srv>>

-----------------------------------------------------------------------------
(* disconnect                                                              *)

BeginDisconnect ==
  /\ pc = "Idle"
  /\ pc' = "Remove"
  /\ outcome' = "none"
  /\ UNCHANGED <<kernel, srv, mark, todo>>

RemovedDevice_Down(device) == [device EXCEPT !.up = FALSE]

\* remove_interface deletes the device, it does not only set it down.
RemovedDevice(device) == Absent

\* remove_interface takes the ip rules and the resolver entry along, and the
\* kernel drops the device's routes.  It fails on a missing device.  It is one call
\* for all of it: an error may come after any part, in any order, the device's own
\* removal included.
Remove ==
  /\ pc = "Remove"
  /\ pc' = "Clear"
  /\ \/ /\ dev.up
        /\ dev' = RemovedDevice(dev)
        /\ rules' = {}
        /\ routes' = {}
        /\ dns' = NoServer
        /\ outcome' = "disconnected"
     \/ /\ ~dev.up
        /\ outcome' = "failed"
        /\ UNCHANGED <<dev, rules, routes, dns>>
     \/ /\ "remove" \in faults
        /\ dev' \in {dev, RemovedDevice(dev)}
        /\ rules' \in SUBSET rules
        /\ dev'.up \/ (SomeMarkIsFree')
        /\ routes' = IF dev'.up THEN routes ELSE {}
        /\ dns' \in {dns, NoServer}
        /\ outcome' = "failed"
  /\ UNCHANGED <<fw, srv, mark, todo>>

\* clear_firewall runs whether or not the removal succeeded; its error is logged.
ClearFirewall ==
  /\ pc = "Clear"
  /\ fw' \in {NftScript({}, NoMark)} \cup Soft({fw})
  /\ Finish(outcome)
  /\ UNCHANGED <<dev, rules, routes, dns, srv>>

-----------------------------------------------------------------------------
(* the process                                                             *)

\* The signal handler exits from its own thread, whatever the main thread does.
Exit ==
  /\ "exit" \in faults
  /\ pc # "Stopped"
  /\ pc' = "Stopped"
  /\ srv' = NoServer
  /\ mark' = NoMark
  /\ todo' = {}
  /\ outcome' = "none"
  /\ UNCHANGED kernel

\* A restarted daemon finds the device by reading it; it undoes nothing.
Restart ==
  /\ pc = "Stopped"
  /\ pc' = "Idle"
  /\ UNCHANGED <<kernel, srv, mark, todo, outcome>>

Request ==
  \/ \E s \in Servers : BeginSwitch(s) \/ RejectSwitch(s)
  \/ BeginDisconnect

SwitchStep ==
  \/ ReadHostWarm \/ ReadHostCold \/ RejectKey
  \/ Create \/ BringUp \/ Reconfigure
  \/ Route \/ ReplaceRoute \/ ReadBack \/ PruneRoute \/ PruneDone
  \/ ReadMark \/ ApplyFirewall \/ ApplyDns

DisconnectStep == Remove \/ ClearFirewall

Next == (Request \/ SwitchStep \/ DisconnectStep \/ Exit \/ Restart) /\ UNCHANGED <<faults, host>>

Spec == Init /\ [][Next]_vars

\* The one thread runs a handler to its end, and every command it waits for
\* (ip, nft, resolvconf, a netlink exchange) returns.
FairSpec == Spec /\ WF_vars((SwitchStep \/ DisconnectStep) /\ UNCHANGED <<faults, host>>)

-----------------------------------------------------------------------------
TypeOK ==
  /\ dev \in Device
  /\ ~dev.up => dev = Absent
  /\ rules \subseteq Marks
  /\ routes \subseteq Network
  /\ fw \in Ruleset
  /\ dns \in MaybeServer
  /\ pc \in {"Idle", "Stopped"} \cup SwitchSteps \cup DisconnectSteps
  /\ srv \in MaybeServer
  /\ pc \in SwitchSteps => srv \in Servers
  /\ mark \in MaybeMark
  /\ todo \subseteq Network
  /\ outcome \in {"none", "switched", "failed", "disconnected"}
  /\ \E w \in Worlds : faults = w.faults /\ host = w.host

-----------------------------------------------------------------------------
(* Properties                                                              *)

\* A switch that reports success has made every layer agree on one server: the
\* device's key and address, the guarded addresses, the routes, the kill switch
\* (which exempts the device's own mark), the connmark and the resolver, whatever
\* failed or was interrupted before it.
SwitchedIsCoherent ==
  pc = "Idle" /\ outcome = "switched" =>
    /\ dev.up /\ dev.conf = srv /\ dev.addr = srv
    /\ srv \in FullTunnel => dev.mark \in rules
    /\ SplitOf[srv] \subseteq routes
    /\ fw.addrs = AddressesOf[srv]
    /\ fw.mark \in {NoMark, dev.mark}
    /\ srv \in WithDns => dns = srv

\* What each operation may rely on when its turn comes, in a switch and in a
\* disconnect: the reason SwitchedIsCoherent holds.
AfterConfigure == pc \in {"Route", "Replace", "Prune", "ReadMark", "Firewall", "Dns"}
AfterRoute == pc \in {"Replace", "Prune", "ReadMark", "Firewall", "Dns"}
Sequencing ==
  /\ pc = "Reconfigure" => dev.up /\ mark = dev.mark
  /\ AfterConfigure => dev.up /\ dev.conf = srv /\ dev.addr = srv
  /\ AfterRoute /\ srv \in FullTunnel => dev.mark \in rules
  /\ pc = "Replace" => SplitOf[srv] \ todo \subseteq routes
  /\ AfterRoute /\ pc # "Replace" => SplitOf[srv] \subseteq routes
  /\ pc = "Prune" => todo \cap SplitOf[srv] = {}
  /\ pc \notin {"Replace", "Prune"} => todo = {}
  /\ pc = "Firewall" => mark \in {NoMark, dev.mark}
  /\ pc = "Dns" => fw.addrs = AddressesOf[srv] /\ fw.mark \in {NoMark, dev.mark}
  /\ pc = "Clear" => outcome \in {"failed", "disconnected"}
  /\ pc = "Stopped" => outcome = "none"
  /\ SwitchedIsCoherent

\* "Torn down only by remove_interface": no step but disconnect's removal takes a
\* kill-switch rule away, not even a switch that fails or starts from nothing.
KillSwitchHeld == [][pc # "Remove" => rules \subseteq rules']_vars

\* "Installs BEFORE pruning": once the device is configured, a prefix the new server
\* also carries stays routed into the tunnel.  Before that, only the flush of the
\* device's last IPv4 address may drop one, and only an IPv4 one.
FlushMayDrop(r) ==
  /\ ~r.v6
  /\ pc \in {"Reconfigure", "BringUp"}
  /\ dev.addr # NoServer => HasV4(dev.addr)
SharedRouteHeld ==
  [][(pc \in SwitchSteps) =>
       \A r \in (routes \cap SplitOf[srv]) \ routes' : FlushMayDrop(r)]_vars

\* "A prefix that BOTH the old and new server carry is never momentarily
\* route-less", as the comment on sync_split_routes_via_ip has it.
NeverRouteless ==
  [][(pc \in SwitchSteps) => routes \cap SplitOf[srv] \subseteq routes']_vars

\* Once the device's own packets are exempt from the kill switch, only a cold
\* bring-up or a disconnect may end that: a warm switch carries the mark over.
WarmKeepsExemption ==
  [][dev.mark \in rules /\ pc \notin {"BringUp", "Remove"} => dev'.mark \in rules']_vars

\* "Nothing else should leave the tunnel address unguarded": an address that is the
\* device's, and stays it, loses its anti-spoof rule to disconnect only, whatever
\* fails and however the device was configured since the table was written.
DeviceAddresses == IF dev.addr = NoServer THEN {} ELSE AddressesOf[dev.addr]
GuardHeld ==
  [][pc # "Clear" => fw.addrs \cap DeviceAddresses \cap (DeviceAddresses') \subseteq fw'.addrs]_vars

\* As long as a live device can be read and a removal is not cut short, there is
\* never more than one pair of kill-switch rules, and its mark is the device's: a
\* rule for any other mark would send the tunnel's own packets back into the tunnel.
OneKillSwitch == faults \cap {"read", "remove"} = {} => rules \subseteq {dev.mark}

\* When no best-effort operation fails, a disconnect that succeeds leaves nothing at
\* all of what earlier intents did, failed or interrupted as they may be.  A switch
\* that succeeds leaves no route or resolver of an earlier server, and no connmark
\* but the device's.  The rules and the mark of an earlier full tunnel it leaves:
\* see KillSwitchHeld.  Two things of an earlier server may stay: the route of an
\* AllowedIP like 1.2.3.4/0, which is never read back, and a resolver registered
\* under a name that reset_dns does not arrive at.
OldServerRetired ==
  pc = "Idle" /\ faults \cap {"soft", "read"} = {} =>
    /\ outcome = "switched" =>
         /\ \A r \in routes \ SplitOf[srv] : r.cidr = 0
         /\ srv \in WithDns => dns = srv
         /\ srv \notin WithDns /\ Tidy(host) => dns = NoServer
         /\ fw.mark = dev.mark \/ fw.addrs = {}
    /\ outcome = "disconnected" =>
         /\ dev = Absent /\ rules = {} /\ routes = {}
         /\ fw = NoRules /\ dns = NoServer

\* An intent once begun ends, or the daemon exits: nothing in a handler waits on
\* anything but the command it runs.
IntentEnds == pc \in SwitchSteps \cup DisconnectSteps ~> pc \in {"Idle", "Stopped"}

\* The comment on bring_up_with: configuring a live device in place, with no mark,
\* after a transient read error "fully heals" it.
HealedInPlace ==
  pc = "Idle" /\ outcome = "switched" /\ srv \in FullTunnel => rules = {dev.mark}

-----------------------------------------------------------------------------
(* Tunnel implements what trait Wireguard promises its caller.             *)

Wg == INSTANCE Wireguard WITH
  live <- dev.conf,
  armed <- rules # {},
  intent <- CASE pc \in SwitchSteps -> "switch"
              [] pc = "Remove" \/ (pc = "Clear" /\ outcome = "failed") -> "disconnect"
              [] pc = "Clear" /\ outcome # "failed" -> "removed"
              [] OTHER -> "none",
  target <- IF pc \in SwitchSteps THEN srv ELSE NoServer,
  reply <- IF pc = "Idle" THEN outcome ELSE "none"

\* Every step of the kernel sequence is a step the trait's contract allows: what an
\* answer says of the live tunnel is true when it is given.
ImplementsWireguard == Wg!WgSpec
=============================================================================
