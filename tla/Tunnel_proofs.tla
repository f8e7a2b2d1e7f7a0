--------------------------- MODULE Tunnel_proofs ---------------------------
(***************************************************************************)
(* Proofs about Tunnel, for every choice of servers, prefixes, marks and   *)
(* faults.                                                                 *)
(***************************************************************************)
EXTENDS Tunnel, Routes_proofs, WellFoundedInduction, TLAPS

\* The inductive invariant behind all of this module: the types, and what each
\* operation of a switch may rely on.
IInv == TypeOK /\ Sequencing

LEMMA SplitType == SplitOf \in [Servers -> SUBSET Network]
  BY TunnelAssumption, SplitRoutePrefixesType DEF SplitOf

\* What a prune retires is ours and not wanted, whichever families could be read.
LEMMA PrunedIsStale ==
  ASSUME TypeOK, ReadBack
  PROVE todo' \subseteq routes \ SplitOf[srv]
<1>1. routes \in SUBSET Prefix
  BY DEF TypeOK, Network
<1> QED
  BY <1>1, ReadBackExact DEF ReadBack, StaleRoutes

\* configure_interface, whole or in part: only its own server's fields come in, and it
\* drops no route but IPv4 ones of a device that had an IPv4 address.
LEMMA ConfigureShape ==
  ASSUME IInv, ConfigureInterface, pc \in {"BringUp", "Reconfigure"}
  PROVE  /\ UNCHANGED <<rules, fw, dns, srv>>
         /\ routes' \subseteq routes
         /\ \A r \in routes \ routes' : ~r.v6 /\ (dev.addr # NoServer => HasV4(dev.addr))
         /\ \/ dev' = dev
            \/ \E conf \in {dev.conf, srv}, addr \in {dev.addr, NoServer, srv},
                  m \in {dev.mark, mark} :
                 dev' = [up |-> TRUE, conf |-> conf, addr |-> addr, mark |-> m]
         /\ \/ /\ pc' = "Route" /\ dev' = Configured
               /\ UNCHANGED <<mark, todo, outcome>>
            \/ Finish("failed")
<1>1. \A flushed \in FlushedRoutes \cup {routes} :
        /\ flushed \subseteq routes
        /\ \A r \in routes \ flushed : ~r.v6 /\ (dev.addr # NoServer => HasV4(dev.addr))
  BY DEF FlushedRoutes, V6Routes
<1>2. CASE pc' = "Route" /\ dev' = Configured /\ routes' \in FlushedRoutes
           /\ UNCHANGED <<rules, fw, dns, srv, mark, todo, outcome>>
  BY <1>1, <1>2 DEF Configured
<1>3. CASE PartlyConfigured /\ Finish("failed") /\ UNCHANGED <<rules, fw, dns, srv>>
  <2>1. routes' \in FlushedRoutes \cup {routes}
    BY <1>3 DEF PartlyConfigured
  <2>2. \E conf \in {dev.conf, srv}, addr \in {dev.addr, NoServer, srv},
           m \in {dev.mark, mark} :
          dev' = [up |-> TRUE, conf |-> conf, addr |-> addr, mark |-> m]
    BY <1>3 DEF PartlyConfigured
  <2> QED
    BY <1>1, <1>3, <2>1, <2>2
<1>4. CASE UNCHANGED <<kernel, srv>> /\ Finish("failed")
  BY <1>4 DEF kernel
<1> QED
  BY <1>2, <1>3, <1>4 DEF ConfigureInterface

\* remove_interface, whole or in part.
LEMMA RemoveShape ==
  ASSUME Remove
  PROVE  /\ pc = "Remove" /\ pc' = "Clear"
         /\ dev' \in {dev, Absent}
         /\ rules' \subseteq rules /\ routes' \in {routes, {}} /\ dns' \in {dns, NoServer}
         /\ UNCHANGED <<fw, srv, mark, todo>>
         /\ \/ /\ outcome' = "disconnected"
               /\ dev' = Absent /\ rules' = {} /\ routes' = {} /\ dns' = NoServer
            \/ /\ outcome' = "failed"
               /\ "remove" \in faults \/ UNCHANGED <<dev, rules, routes, dns>>
  BY DEF Remove, RemovedDevice

\* An operation of a switch can only run on a device that is there, so the mark that
\* routing assigns never lands on an absent one.
LEMMA TypeStep == IInv /\ [Next]_vars => TypeOK'
<1> SUFFICES ASSUME IInv, [Next]_vars, UNCHANGED <<faults, host>> PROVE TypeOK'
  BY DEF Next, vars
<1> USE TunnelAssumption, SplitType
<1> USE DEF IInv, TypeOK, Device, Ruleset, MaybeServer, MaybeMark, SwitchSteps,
            DisconnectSteps, kernel, Soft
<1>1. ASSUME NEW s \in Servers, BeginSwitch(s) PROVE TypeOK'
  BY <1>1 DEF BeginSwitch
<1>2. ASSUME NEW s \in Servers, RejectSwitch(s) PROVE TypeOK'
  BY <1>2 DEF RejectSwitch, Finish
<1>3. CASE BeginDisconnect
  BY <1>3 DEF BeginDisconnect
<1>4. CASE ReadHostWarm
  BY <1>4 DEF ReadHostWarm, PreservedMark
<1>5. CASE ReadHostCold
  BY <1>5 DEF ReadHostCold
<1>6. CASE RejectKey
  BY <1>6 DEF RejectKey, Finish
<1>7. CASE Create
  <2>1. dev' = dev \/ dev' = [Absent EXCEPT !.up = TRUE]
    BY <1>7 DEF Create
  <2>2. dev' \in Device /\ (~dev'.up => dev' = Absent)
    <3>1. CASE dev' = dev
      BY <3>1
    <3>2. CASE dev' = [Absent EXCEPT !.up = TRUE]
      BY <3>2 DEF Absent, Device, MaybeServer, MaybeMark
    <3> QED
      BY <2>1, <3>1, <3>2
  <2> QED
    BY <1>7, <2>2 DEF Create
<1>8. ASSUME ConfigureInterface, pc \in {"BringUp", "Reconfigure"} PROVE TypeOK'
  <2>1. /\ pc' \in {"Idle", "Route"}
        /\ outcome' \in {outcome, "failed"}
        /\ todo' \in {todo, {}}
        /\ mark' \in {mark, NoMark}
        /\ routes' \subseteq routes
        /\ UNCHANGED <<rules, fw, dns, srv>>
    BY <1>8, ConfigureShape DEF Finish
  <2>2. \/ dev' = dev
        \/ \E conf \in MaybeServer, addr \in MaybeServer, m \in MaybeMark :
             dev' = [up |-> TRUE, conf |-> conf, addr |-> addr, mark |-> m]
    <3>1. dev.conf \in MaybeServer /\ dev.addr \in MaybeServer /\ dev.mark \in MaybeMark
      OBVIOUS
    <3>2. srv \in MaybeServer /\ NoServer \in MaybeServer /\ mark \in MaybeMark
      OBVIOUS
    <3> QED
      BY <1>8, <3>1, <3>2, ConfigureShape
  <2>3. dev' \in Device /\ (~dev'.up => dev' = Absent)
    <3>1. CASE dev' = dev
      BY <3>1
    <3>2. ASSUME NEW conf \in MaybeServer, NEW addr \in MaybeServer, NEW m \in MaybeMark,
                 dev' = [up |-> TRUE, conf |-> conf, addr |-> addr, mark |-> m]
          PROVE dev' \in Device /\ dev'.up
      BY <3>2
    <3> QED
      BY <2>2, <3>1, <3>2
  <2> QED
    BY <1>8, <2>1, <2>3
<1>9. CASE Route
  <2>1. /\ pc' \in {"Replace", "Idle"}
        /\ outcome' \in {outcome, "failed"}
        /\ todo' \in {SplitOf[srv], {}}
        /\ mark' \in {mark, NoMark}
        /\ UNCHANGED <<routes, fw, dns, srv>>
    BY <1>9 DEF Route, Finish
  <2>2. /\ rules' \subseteq Marks
        /\ dev' = dev \/ \E m \in Marks : dev' = [dev EXCEPT !.mark = m]
    BY <1>9 DEF Route, RoutingMarks
  <2>3. dev.up
    BY <1>9 DEF Route, Sequencing, AfterConfigure
  <2>4. dev' \in Device /\ dev'.up
    BY <2>2, <2>3
  <2>5. srv' \in Servers /\ SplitOf[srv] \subseteq Network
    BY <1>9, <2>1 DEF Route
  <2>6. todo' \subseteq Network /\ mark' \in MaybeMark
    BY <2>1, <2>5
  <2> QED
    BY <2>1, <2>2, <2>4, <2>5, <2>6
<1>10. CASE ReplaceRoute
  BY <1>10 DEF ReplaceRoute, Finish
<1>11. CASE ReadBack
  BY <1>11, PrunedIsStale DEF ReadBack
<1>12. CASE PruneRoute
  BY <1>12 DEF PruneRoute
<1>13. CASE PruneDone
  BY <1>13 DEF PruneDone
<1>14. CASE ReadMark
  BY <1>14 DEF ReadMark
<1>15. CASE ApplyFirewall
  BY <1>15 DEF ApplyFirewall, NftScript, Finish
<1>16. CASE ApplyDns
  BY <1>16 DEF ApplyDns, ResetResolvconf, Finish
<1>17. CASE Remove
  <2>1. /\ dev' \in {dev, Absent} /\ rules' \subseteq Marks /\ dns' \in MaybeServer
        /\ routes' \subseteq Network
    BY <1>17, RemoveShape
  <2>2. Absent \in Device
    BY DEF Absent
  <2>3. dev' \in Device /\ (~dev'.up => dev' = Absent)
    <3>1. CASE dev' = dev
      BY <3>1
    <3>2. CASE dev' = Absent
      BY <2>2, <3>2
    <3> QED
      BY <2>1, <3>1, <3>2
  <2> QED
    BY <1>17, <2>1, <2>3, RemoveShape
<1>18. CASE ClearFirewall
  BY <1>18 DEF ClearFirewall, NftScript, Finish
<1>19. CASE Exit
  BY <1>19 DEF Exit
<1>20. CASE Restart
  BY <1>20 DEF Restart
<1>21. CASE UNCHANGED vars
  BY <1>21 DEF vars
<1> QED
  BY <1>1, <1>2, <1>3, <1>4, <1>5, <1>6, <1>7, <1>8, <1>9, <1>10, <1>11, <1>12,
     <1>13, <1>14, <1>15, <1>16, <1>17, <1>18, <1>19, <1>20, <1>21
     DEF Next, Request, SwitchStep, DisconnectStep, BringUp, Reconfigure

\* Each operation hands the next one what Sequencing says it may rely on.
LEMMA SequencingStep == IInv /\ [Next]_vars => Sequencing'
<1> SUFFICES ASSUME IInv, [Next]_vars PROVE Sequencing'
  OBVIOUS
<1> USE TunnelAssumption, SplitType
<1> USE DEF IInv, Sequencing, SwitchedIsCoherent, AfterConfigure, AfterRoute,
            SwitchSteps, DisconnectSteps, kernel, Soft
<1>1. ASSUME NEW s \in Servers, BeginSwitch(s) PROVE Sequencing'
  BY <1>1 DEF BeginSwitch
<1>2. ASSUME NEW s \in Servers, RejectSwitch(s) PROVE Sequencing'
  BY <1>2 DEF RejectSwitch, Finish
<1>3. CASE BeginDisconnect
  BY <1>3 DEF BeginDisconnect
<1>4. CASE ReadHostWarm
  BY <1>4 DEF ReadHostWarm, PreservedMark
<1>5. CASE ReadHostCold
  BY <1>5 DEF ReadHostCold
<1>6. CASE RejectKey
  BY <1>6 DEF RejectKey, Finish
<1>7. CASE Create
  BY <1>7 DEF Create
<1>8. ASSUME ConfigureInterface, pc \in {"BringUp", "Reconfigure"} PROVE Sequencing'
  <2>1. CASE pc' = "Route"
    BY <1>8, <2>1, ConfigureShape DEF Configured, Finish
  <2>2. CASE pc' # "Route"
    BY <1>8, <2>2, ConfigureShape DEF Finish
  <2> QED
    BY <2>1, <2>2
<1>9. CASE Route
  <2>1. CASE pc' = "Replace"
    <3>1. todo' = SplitOf[srv] /\ srv' = srv
      BY <1>9, <2>1 DEF Route, Finish
    <3>2. dev'.up /\ dev'.conf = srv /\ dev'.addr = srv
      BY <1>9, <2>1 DEF Route, Finish, TypeOK, Device
    <3>3. srv \in FullTunnel => dev'.mark \in rules'
      BY <1>9, <2>1 DEF Route, Finish, TypeOK, Device
    <3> QED
      BY <2>1, <3>1, <3>2, <3>3
  <2>2. CASE pc' # "Replace"
    BY <1>9, <2>2 DEF Route, Finish
  <2> QED
    BY <2>1, <2>2
<1>10. CASE ReplaceRoute
  <2>1. CASE pc' = "Idle"
    BY <1>10, <2>1 DEF ReplaceRoute, Finish
  <2>2. CASE pc' # "Idle"
    BY <1>10, <2>2 DEF ReplaceRoute, Finish
  <2> QED
    BY <2>1, <2>2
<1>11. CASE ReadBack
  BY <1>11, PrunedIsStale DEF ReadBack
<1>12. CASE PruneRoute
  BY <1>12 DEF PruneRoute
<1>13. CASE PruneDone
  BY <1>13 DEF PruneDone
<1>14. CASE ReadMark
  BY <1>14 DEF ReadMark
<1>15. CASE ApplyFirewall
  BY <1>15 DEF ApplyFirewall, NftScript, Finish
<1>16. CASE ApplyDns
  BY <1>16 DEF ApplyDns, ResetResolvconf, Finish
<1>17. CASE Remove
  BY <1>17, RemoveShape
<1>18. CASE ClearFirewall
  BY <1>18 DEF ClearFirewall, Finish
<1>19. CASE Exit
  BY <1>19 DEF Exit
<1>20. CASE Restart
  BY <1>20 DEF Restart
<1>21. CASE UNCHANGED vars
  BY <1>21 DEF vars
<1> QED
  BY <1>1, <1>2, <1>3, <1>4, <1>5, <1>6, <1>7, <1>8, <1>9, <1>10, <1>11, <1>12,
     <1>13, <1>14, <1>15, <1>16, <1>17, <1>18, <1>19, <1>20, <1>21
     DEF Next, Request, SwitchStep, DisconnectStep, BringUp, Reconfigure

LEMMA Invariance == Spec => []IInv
<1>1. Init => IInv
  BY TunnelAssumption
     DEF Init, IInv, TypeOK, Sequencing, SwitchedIsCoherent, AfterConfigure,
         AfterRoute, Device, Ruleset, MaybeServer, MaybeMark, Absent, NoRules,
         SwitchSteps, DisconnectSteps
<1>2. IInv /\ [Next]_vars => IInv'
  BY TypeStep, SequencingStep DEF IInv
<1> QED
  BY <1>1, <1>2, PTL DEF Spec

\* Type correctness of the switch and disconnect sequences: every field of the
\* kernel's state and of the running intent stays in its domain, and an absent
\* device holds nothing.
THEOREM TypeCorrect == Spec => []TypeOK
<1>1. IInv => TypeOK
  BY DEF IInv
<1> QED
  BY <1>1, Invariance, PTL

\* A switch that answers Ok has left device, kill switch, routes, packet filter and
\* resolver in agreement, for any mix of failures and restarts before it.
THEOREM SwitchCoherent == Spec => []SwitchedIsCoherent
<1>1. IInv => SwitchedIsCoherent
  BY DEF IInv, Sequencing
<1> QED
  BY <1>1, Invariance, PTL

\* The module documentation's leak-safety argument: only remove_interface, hence
\* only disconnect, takes a kill-switch rule away.
THEOREM KillSwitchSafe == Spec => KillSwitchHeld
<1>1. [Next]_vars => [pc # "Remove" => rules \subseteq rules']_vars
  <2> SUFFICES ASSUME Next, pc # "Remove" PROVE rules \subseteq rules'
    OBVIOUS
  <2>1. ~Remove
    BY DEF Remove
  <2>2. CASE Route
    BY <2>2 DEF Route
  <2>3. CASE UNCHANGED rules
    BY <2>3
  <2>4. Next => Route \/ UNCHANGED rules
    BY <2>1 DEF Next, Request, SwitchStep, DisconnectStep, BeginSwitch, RejectSwitch,
       BeginDisconnect, ReadHostWarm, ReadHostCold, RejectKey, Create, BringUp,
       Reconfigure, ConfigureInterface, ReplaceRoute, ReadBack, PruneRoute, PruneDone,
       ReadMark, ApplyFirewall, ApplyDns, ClearFirewall, Exit, Restart, kernel
  <2> QED
    BY <2>2, <2>3, <2>4
<1> QED
  BY <1>1, PTL DEF Spec, KillSwitchHeld

\* sync_split_routes: a prefix both servers carry is routed into the tunnel at every
\* step of the switch, because what is pruned is never wanted; before that the flush
\* in configure_interface may drop IPv4 ones, with the device's last IPv4 address.
THEOREM SharedRouteSafe == Spec => SharedRouteHeld
<1>1. IInv /\ [Next]_vars
        => [(pc \in SwitchSteps) =>
              \A r \in (routes \cap SplitOf[srv]) \ routes' : FlushMayDrop(r)]_vars
  <2> SUFFICES ASSUME IInv, Next, pc \in SwitchSteps,
                      NEW r \in (routes \cap SplitOf[srv]) \ routes'
               PROVE FlushMayDrop(r)
    OBVIOUS
  <2>1. ~Remove
    BY DEF Remove, SwitchSteps
  <2>2. CASE PruneRoute
    BY <2>2 DEF PruneRoute, IInv, Sequencing
  <2>3. CASE ReplaceRoute
    BY <2>3 DEF ReplaceRoute
  <2>4. CASE UNCHANGED routes
    BY <2>4
  <2>5. CASE BringUp \/ Reconfigure
    BY <2>5, ConfigureShape DEF BringUp, Reconfigure, FlushMayDrop
  <2>6. Next => PruneRoute \/ ReplaceRoute \/ BringUp \/ Reconfigure \/ UNCHANGED routes
    BY <2>1 DEF Next, Request, SwitchStep, DisconnectStep, BeginSwitch, RejectSwitch,
       BeginDisconnect, ReadHostWarm, ReadHostCold, RejectKey, Create,
       Route, ReadBack, PruneDone, ReadMark,
       ApplyFirewall, ApplyDns, ClearFirewall, Exit, Restart, kernel
  <2> QED
    BY <2>2, <2>3, <2>4, <2>5, <2>6
<1> QED
  BY <1>1, Invariance, PTL DEF Spec, SharedRouteHeld

\* The packet filter is replaced in one transaction, for the addresses the device was
\* given by then: no failure, switch or exit takes the guard off an address the device
\* keeps.
THEOREM GuardSafe == Spec => GuardHeld
<1>1. IInv /\ [Next]_vars
        => [pc # "Clear" =>
              fw.addrs \cap DeviceAddresses \cap (DeviceAddresses') \subseteq fw'.addrs]_vars
  <2> SUFFICES ASSUME IInv, Next, pc # "Clear"
               PROVE fw.addrs \cap DeviceAddresses \cap (DeviceAddresses') \subseteq fw'.addrs
    OBVIOUS
  <2>1. ~ClearFirewall
    BY DEF ClearFirewall
  <2>2. CASE ApplyFirewall
    <3>1. fw' = fw \/ fw'.addrs = AddressesOf[srv]
      BY <2>2 DEF ApplyFirewall, NftScript
    <3>2. dev.addr = srv /\ srv \in Servers
      BY <2>2 DEF ApplyFirewall, IInv, Sequencing, AfterConfigure, TypeOK, SwitchSteps
    <3>3. DeviceAddresses = AddressesOf[srv]
      BY <3>2, TunnelAssumption DEF DeviceAddresses
    <3> QED
      BY <3>1, <3>3
  <2>3. CASE UNCHANGED fw
    BY <2>3
  <2>4. Next => ApplyFirewall \/ UNCHANGED fw
    BY <2>1 DEF Next, Request, SwitchStep, DisconnectStep, BeginSwitch, RejectSwitch,
       BeginDisconnect, ReadHostWarm, ReadHostCold, RejectKey, Create, BringUp,
       Reconfigure, ConfigureInterface, Route, ReplaceRoute, ReadBack, PruneRoute,
       PruneDone, ReadMark, ApplyDns, Remove, Exit, Restart, kernel
  <2> QED
    BY <2>2, <2>3, <2>4
<1> QED
  BY <1>1, Invariance, PTL DEF Spec, GuardHeld

\* The warm path hands the device back the mark it read, so the tunnel's own packets
\* stay exempt from the kill switch through every warm switch.
THEOREM WarmSafe == Spec => WarmKeepsExemption
<1>1. IInv /\ [Next]_vars
        => [dev.mark \in rules /\ pc \notin {"BringUp", "Remove"} => dev'.mark \in rules']_vars
  <2> SUFFICES ASSUME IInv, Next, dev.mark \in rules, pc \notin {"BringUp", "Remove"}
               PROVE dev'.mark \in rules'
    OBVIOUS
  <2>1. ~Remove /\ ~BringUp
    BY DEF Remove, BringUp
  <2>2. CASE Create
    BY <2>2, TunnelAssumption DEF Create, IInv, TypeOK, Absent
  <2>3. CASE Reconfigure
    <3>1. mark = dev.mark
      BY <2>3 DEF Reconfigure, IInv, Sequencing
    <3>2. UNCHANGED rules /\ dev'.mark \in {dev.mark, mark}
      BY <2>3, ConfigureShape DEF Reconfigure
    <3> QED
      BY <3>1, <3>2
  <2>4. CASE Route
    <3>1. dev.mark # NoMark
      BY TunnelAssumption DEF IInv, TypeOK
    <3>2. rules \subseteq rules' /\ (dev' = dev \/ dev' = [dev EXCEPT !.mark = dev.mark])
      BY <2>4, <3>1 DEF Route, RoutingMarks
    <3> QED
      BY <3>2 DEF IInv, TypeOK, Device
  <2>5. Next => Create \/ Reconfigure \/ Route \/ UNCHANGED <<dev, rules>>
    BY <2>1 DEF Next, Request, SwitchStep, DisconnectStep, BeginSwitch, RejectSwitch,
       BeginDisconnect, ReadHostWarm, ReadHostCold, RejectKey, ReplaceRoute, ReadBack,
       PruneRoute, PruneDone, ReadMark, ApplyFirewall, ApplyDns, ClearFirewall, Exit,
       Restart, kernel
  <2> QED
    BY <2>2, <2>3, <2>4, <2>5
<1> QED
  BY <1>1, Invariance, PTL DEF Spec, WarmKeepsExemption

-----------------------------------------------------------------------------
\* Without transient read errors a cold bring-up meets no device, hence no rules,
\* unless a removal that was cut short left some.
ColdMeetsNothing ==
  faults \cap {"read", "remove"} = {} =>
    /\ rules \subseteq {dev.mark}
    /\ pc = "Create" => ~dev.up
    /\ pc = "BringUp" => dev.mark = NoMark

LEMMA ColdStep == IInv /\ ColdMeetsNothing /\ [Next]_vars => ColdMeetsNothing'
<1> SUFFICES ASSUME IInv, ColdMeetsNothing, [Next]_vars, faults \cap {"read", "remove"} = {}
             PROVE ColdMeetsNothing'
  BY DEF Next, vars, ColdMeetsNothing
<1> USE TunnelAssumption DEF ColdMeetsNothing, Absent, kernel
<1>1. CASE ReadHostCold
  BY <1>1 DEF ReadHostCold
<1>2. CASE Create
  BY <1>2 DEF Create, IInv, TypeOK
<1>3. CASE BringUp
  <2>1. rules = {}
    BY <1>3 DEF BringUp, IInv, TypeOK
  <2> QED
    BY <1>3, <2>1, ConfigureShape DEF BringUp, Finish
<1>4. CASE Reconfigure
  <2>1. mark = dev.mark /\ UNCHANGED rules /\ pc' \notin {"Create", "BringUp"}
    BY <1>4, ConfigureShape DEF Reconfigure, IInv, Sequencing, Finish
  <2>2. dev'.mark = dev.mark
    BY <1>4, <2>1, ConfigureShape DEF Reconfigure
  <2> QED
    BY <2>1, <2>2
<1>5. CASE Route
  <2>1. pc' \notin {"Create", "BringUp"}
    BY <1>5 DEF Route, Finish
  <2>2. dev.mark = NoMark => rules = {}
    BY DEF IInv, TypeOK
  <2>3. \/ UNCHANGED <<dev, rules>>
        \/ \E m \in RoutingMarks : dev' = [dev EXCEPT !.mark = m] /\ rules' \subseteq rules \cup {m}
    BY <1>5 DEF Route
  <2>4. ASSUME NEW m \in RoutingMarks, dev' = [dev EXCEPT !.mark = m]
        PROVE dev'.mark = m /\ rules \subseteq {m}
    BY <2>2, <2>4 DEF RoutingMarks, IInv, TypeOK, Device
  <2> QED
    BY <2>1, <2>3, <2>4
<1>6. CASE Remove
  <2>1. rules' = {} \/ UNCHANGED <<dev, rules>>
    BY <1>6, RemoveShape
  <2> QED
    BY <1>6, <2>1, RemoveShape
<1>7. CASE UNCHANGED vars
  BY <1>7 DEF vars
<1>8. Next => \/ ReadHostCold \/ Create \/ BringUp \/ Reconfigure \/ Route \/ Remove
              \/ UNCHANGED <<dev, rules>> /\ pc' \notin {"Create", "BringUp"}
  BY DEF Next, Request, SwitchStep, DisconnectStep, BeginSwitch, RejectSwitch,
     BeginDisconnect, ReadHostWarm, RejectKey, ReplaceRoute, ReadBack, PruneRoute,
     PruneDone, ReadMark, ApplyFirewall, ApplyDns, ClearFirewall, Exit, Restart, Finish
<1> QED
  BY <1>1, <1>2, <1>3, <1>4, <1>5, <1>6, <1>7, <1>8

\* As long as a live device can always be read, at most one pair of kill-switch
\* rules exists and it exempts the device's own mark.
THEOREM OneKillSwitchSafe == Spec => []OneKillSwitch
<1>1. Init => ColdMeetsNothing
  BY DEF Init, ColdMeetsNothing
<1>2. IInv /\ ColdMeetsNothing /\ [Next]_vars => ColdMeetsNothing'
  BY ColdStep
<1>3. ColdMeetsNothing => OneKillSwitch
  BY DEF ColdMeetsNothing, OneKillSwitch
<1> QED
  BY <1>1, <1>2, <1>3, Invariance, PTL DEF Spec

-----------------------------------------------------------------------------
\* What each operation may rely on when its turn comes holds at every step.
THEOREM SequencingHolds == Spec => []Sequencing
<1>1. IInv => Sequencing
  BY DEF IInv
<1> QED
  BY <1>1, Invariance, PTL

-----------------------------------------------------------------------------
(* the name the resolvers are registered under                             *)

\* A set of line numbers that is not empty has a first one.
LEMMA FirstOf ==
  ASSUME NEW S \in SUBSET Nat, S # {}
  PROVE  \E n \in S : \A m \in S : n <= m
<1> DEFINE Less == {p \in Nat \X Nat : p[1] < p[2]}
<1>1. IsWellFoundedOn(Less, Nat)
  BY NatLessThanWellFounded DEF OpToRel
<1>2. PICK n \in S : \A m \in S : <<m, n>> \notin Less
  <2> HIDE DEF Less
  <2> QED
    BY <1>1, WFMin
<1>3. n \in Nat /\ \A m \in S : ~(m < n)
  BY <1>2
<1> QED
  BY <1>3

\* What the lines from i on give: the prefix of the first that matches.
From(order, i) == {j \in Matching(order) : j >= i}
FirstFrom(order, i) ==
  IF From(order, i) = {} THEN Bare
  ELSE order[CHOOSE j \in From(order, i) : \A k \in From(order, i) : j <= k].prefix

\* Reading the lines in turn from i on gives that.
LEMMA FirstFromStep ==
  ASSUME NEW order, Len(order) \in Nat, DOMAIN order = 1..Len(order),
         \A j \in Matching(order) : ~order[j].padded,
         NEW i \in Nat, i # 0
  PROVE  FirstFrom(order, i) =
           IF i > Len(order) THEN Bare
           ELSE IF Anchored(order[i]) THEN order[i].prefix
           ELSE FirstFrom(order, i + 1)
<1>1. CASE i > Len(order)
  <2>1. From(order, i) = {}
    BY <1>1 DEF From, Matching
  <2> QED
    BY <1>1, <2>1 DEF FirstFrom
<1>2. CASE i <= Len(order) /\ Anchored(order[i])
  <2>1. i \in From(order, i) /\ \A k \in From(order, i) : k \in Nat /\ i <= k
    BY <1>2 DEF From, Matching, Anchored
  <2>2. \A j \in From(order, i) : (\A k \in From(order, i) : j <= k) => j = i
    BY <2>1
  <2>3. (CHOOSE j \in From(order, i) : \A k \in From(order, i) : j <= k) = i
    BY <2>1, <2>2
  <2> QED
    BY <1>2, <2>1, <2>3 DEF FirstFrom
<1>3. CASE i <= Len(order) /\ ~Anchored(order[i])
  <2>1. i \notin Matching(order) /\ Matching(order) \subseteq Nat
    BY <1>3 DEF Matching, Anchored
  <2>2. From(order, i) = From(order, i + 1)
    BY <2>1 DEF From
  <2> QED
    BY <1>3, <2>2 DEF FirstFrom
<1> QED
  BY <1>1, <1>2, <1>3

\* reset_dns and defguard arrive at the same name on a host whose order file has no
\* spaces around a line that counts: resolvconf_ifname takes the first line that
\* matches once trimmed, defguard reads the lines in turn, as they are.
LEMMA NamesAgree ==
  ASSUME NEW prefixes, NEW h \in Host(prefixes), Tidy(h)
  PROVE  ResolvconfIfname(h) = DefguardIfname(h)
<1>1. CASE h.tool # "binary" \/ h.order = NoFile
  BY <1>1 DEF ResolvconfIfname, DefguardIfname
<1>2. CASE h.tool = "binary" /\ h.order # NoFile
  <2> DEFINE order == h.order
             Reads(f, i) == IF i > Len(order) THEN Bare
                            ELSE IF Anchored(order[i]) THEN order[i].prefix
                            ELSE f[i + 1]
             Read(f) == f = [i \in Nat |-> Reads(f, i)]
             read == CHOOSE f : Read(f)
             g == [i \in Nat |-> IF i # 0 THEN FirstFrom(order, i)
                                 ELSE IF 0 > Len(order) THEN Bare
                                 ELSE IF Anchored(order[0]) THEN order[0].prefix
                                 ELSE FirstFrom(order, 1)]
  <2>1. order \in Seq([prefix : prefixes, valid : BOOLEAN, star : BOOLEAN, padded : BOOLEAN])
    BY <1>2 DEF Host
  <2>2. /\ Len(order) \in Nat /\ DOMAIN order = 1..Len(order)
        /\ \A j \in Matching(order) : ~order[j].padded
    <3>1. \A j \in Matching(order) : ~order[j].padded
      BY <1>2 DEF Tidy
    <3> DEFINE Line == [prefix : prefixes, valid : BOOLEAN, star : BOOLEAN, padded : BOOLEAN]
    <3> HIDE DEF order
    <3>2. order \in Seq(Line)
      BY <2>1
    <3> HIDE DEF Line
    <3> QED
      BY <3>1, <3>2
  <2>3. DefguardIfname(h) = read[1]
    BY <1>2 DEF DefguardIfname
  <2>4. ResolvconfIfname(h) = FirstFrom(order, 1)
    <3>1. ResolvconfIfname(h) = InterfaceOrderPrefix(order)
      BY <1>2 DEF ResolvconfIfname
    <3>2. From(order, 1) = Matching(order)
      BY <2>2 DEF From, Matching
    <3> QED
      BY <3>1, <3>2 DEF InterfaceOrderPrefix, FirstFrom
  <2> HIDE DEF order
  <2>5. \E f : Read(f)
    <3>1. \A i \in Nat : g[i] = Reads(g, i)
      <4>1. \A i \in Nat : i # 0 => g[i] = Reads(g, i)
        BY <2>2, FirstFromStep
      <4>2. g[0] = Reads(g, 0)
        OBVIOUS
      <4> QED
        BY <4>1, <4>2
    <3> HIDE DEF Reads
    <3>2. Read(g)
      BY <3>1
    <3> QED
      BY <3>2
  <2>6. Read(read)
    <3> HIDE DEF Read
    <3> QED
      BY <2>5
  <2>7. \A i \in Nat : read[i] = Reads(read, i)
    <3> HIDE DEF read, Reads
    <3> QED
      BY <2>6
  <2> HIDE DEF read
  <2> DEFINE D == {d \in Nat : \E i \in Nat : /\ i # 0 /\ i + d = Len(order) + 1
                                              /\ read[i] # FirstFrom(order, i)}
  <2>8. \A i \in Nat : i > Len(order) => read[i] = FirstFrom(order, i)
    <3> SUFFICES ASSUME NEW i \in Nat, i > Len(order) PROVE read[i] = FirstFrom(order, i)
      OBVIOUS
    <3>1. read[i] = Bare
      BY <2>7
    <3>2. i # 0
      BY <2>2
    <3>3. FirstFrom(order, i) = Bare
      BY <2>2, <3>2, FirstFromStep
    <3> QED
      BY <3>1, <3>3
  <2>9. D = {}
    <3> SUFFICES ASSUME D # {} PROVE FALSE
      OBVIOUS
    <3>1. PICK d \in D : \A e \in D : d <= e
      <4> D \in SUBSET Nat
        OBVIOUS
      <4> HIDE DEF D
      <4> QED
        BY FirstOf
    <3>2. PICK i \in Nat : i # 0 /\ i + d = Len(order) + 1 /\ read[i] # FirstFrom(order, i)
      OBVIOUS
    <3>3. i <= Len(order)
      BY <3>2, <2>2, <2>8
    <3>4. read[i + 1] # FirstFrom(order, i + 1)
      BY <3>2, <3>3, <2>2, <2>7, FirstFromStep
    <3>5. d \in Nat /\ d - 1 \in Nat /\ i + 1 \in Nat /\ (i + 1) + (d - 1) = Len(order) + 1
      BY <3>2, <3>3, <2>2
    <3>6. d - 1 \in D
      BY <3>4, <3>5
    <3>7. d <= d - 1
      <4> HIDE DEF D
      <4> QED
        BY <3>1, <3>6
    <3> QED
      BY <3>5, <3>7
  <2>10. read[1] = FirstFrom(order, 1)
    <3>1. Len(order) \in D \/ read[1] = FirstFrom(order, 1)
      BY <2>2
    <3> QED
      BY <2>9, <3>1
  <2> QED
    BY <2>3, <2>4, <2>10
<1> QED
  BY <1>1, <1>2

-----------------------------------------------------------------------------
(* what a switch and a disconnect leave behind                             *)

\* How a switch gets rid of what it found, when nothing it does best-effort fails:
\* the routes that are not its own are on the list to retire until they are gone.
Retiring ==
  /\ pc = "Prune" => \A r \in routes \ SplitOf[srv] : r.cidr = 0 \/ r \in todo
  /\ pc \in {"ReadMark", "Firewall", "Dns"} => \A r \in routes \ SplitOf[srv] : r.cidr = 0
  /\ pc = "Firewall" => mark = dev.mark
  /\ pc = "Dns" => fw.mark = dev.mark \/ fw.addrs = {}
  /\ pc = "Clear" /\ outcome = "disconnected" =>
       dev = Absent /\ rules = {} /\ routes = {} /\ dns = NoServer
Clean == faults \cap {"soft", "read"} = {} => Retiring

LEMMA CleanStep == IInv /\ Clean /\ [Next]_vars => Clean'
<1> SUFFICES ASSUME IInv, Retiring, [Next]_vars, faults \cap {"soft", "read"} = {}
             PROVE Retiring'
  BY DEF Next, vars, Clean
<1> USE SplitType DEF Retiring, kernel, Soft
<1>1. CASE ReadBack
  <2>1. todo' = {r \in routes : r.cidr # 0} \ SplitOf[srv]
    <3>1. routes \in SUBSET Prefix /\ \A r \in routes : r.v6 \in BOOLEAN
      BY DEF IInv, TypeOK, Network, Prefix
    <3> QED
      BY <1>1, <3>1, ReadBackExact DEF ReadBack, StaleRoutes
  <2> QED
    BY <1>1, <2>1 DEF ReadBack
<1>2. CASE PruneRoute
  BY <1>2 DEF PruneRoute
<1>3. CASE PruneDone
  BY <1>3 DEF PruneDone
<1>4. CASE ReadMark
  BY <1>4 DEF ReadMark
<1>5. CASE ApplyFirewall
  BY <1>5 DEF ApplyFirewall, NftScript, Finish
<1>6. CASE Remove
  BY <1>6, RemoveShape
<1>7. CASE UNCHANGED vars
  BY <1>7 DEF vars
<1>8. Next => \/ ReadBack \/ PruneRoute \/ PruneDone \/ ReadMark \/ ApplyFirewall \/ Remove
              \/ pc' \notin {"Prune", "ReadMark", "Firewall", "Dns", "Clear"}
  BY DEF Next, Request, SwitchStep, DisconnectStep, BeginSwitch, RejectSwitch,
     BeginDisconnect, ReadHostWarm, ReadHostCold, RejectKey, Create, BringUp, Reconfigure,
     ConfigureInterface, Route, ReplaceRoute, ApplyDns, ClearFirewall, Exit, Restart, Finish
<1> QED
  BY <1>1, <1>2, <1>3, <1>4, <1>5, <1>6, <1>7, <1>8

LEMMA OldServerRetiredStep ==
  IInv /\ Clean /\ OldServerRetired /\ [Next]_vars => OldServerRetired'
<1> SUFFICES ASSUME IInv, Clean, OldServerRetired, [Next]_vars,
                    faults \cap {"soft", "read"} = {}, pc' = "Idle"
             PROVE /\ outcome' = "switched" =>
                        /\ \A r \in routes' \ SplitOf[srv'] : r.cidr = 0
                        /\ srv' \in WithDns => dns' = srv'
                        /\ srv' \notin WithDns /\ Tidy(host') => dns' = NoServer
                        /\ fw'.mark = dev'.mark \/ fw'.addrs = {}
                   /\ outcome' = "disconnected" =>
                        /\ dev' = Absent /\ rules' = {} /\ routes' = {}
                        /\ fw' = NoRules /\ dns' = NoServer
  BY DEF Next, vars, OldServerRetired
<1> USE DEF Clean, Retiring, kernel, Soft
<1>1. CASE ApplyDns
  <2>1. host \in Host(LinePrefixes)
    BY TunnelAssumption DEF IInv, TypeOK
  <2>2. Tidy(host) => ResetResolvconf(dns) = NoServer
    BY <2>1, NamesAgree DEF ResetResolvconf
  <2>3. host' = host
    BY DEF Next, vars
  <2> QED
    BY <1>1, <2>2, <2>3 DEF ApplyDns, Finish
<1>2. CASE ClearFirewall
  <2>1. outcome \in {"failed", "disconnected"}
    BY <1>2 DEF ClearFirewall, IInv, Sequencing
  <2>2. fw' = NoRules
    BY <1>2 DEF ClearFirewall, NftScript, NoRules
  <2> QED
    BY <1>2, <2>1, <2>2 DEF ClearFirewall, Finish
<1>3. CASE UNCHANGED vars
  BY <1>3 DEF vars, OldServerRetired
<1>4. CASE Restart
  BY <1>4 DEF Restart, IInv, Sequencing
<1>5. Next => ApplyDns \/ ClearFirewall \/ Restart \/ pc' # "Idle" \/ outcome' = "failed"
  BY DEF Next, Request, SwitchStep, DisconnectStep, BeginSwitch, RejectSwitch,
     BeginDisconnect, ReadHostWarm, ReadHostCold, RejectKey, Create, BringUp, Reconfigure,
     ConfigureInterface, Route, ReplaceRoute, ReadBack, PruneRoute, PruneDone, ReadMark,
     ApplyFirewall, Remove, Exit, Finish
<1> QED
  BY <1>1, <1>2, <1>3, <1>4, <1>5

\* With no best-effort operation failing, a disconnect that succeeds leaves nothing
\* behind, and a switch that succeeds no route, connmark or resolver of an earlier
\* server but the two exceptions OldServerRetired names, whatever failed before.  What
\* an earlier full tunnel has of rules and mark is disconnect's to remove.
THEOREM RetiresOldServers == Spec => []OldServerRetired
<1>1. Init => Clean /\ OldServerRetired
  BY DEF Init, Clean, Retiring, OldServerRetired
<1>2. IInv /\ Clean /\ OldServerRetired /\ [Next]_vars => Clean' /\ OldServerRetired'
  BY CleanStep, OldServerRetiredStep
<1> QED
  BY <1>1, <1>2, Invariance, PTL DEF Spec

-----------------------------------------------------------------------------
(* Tunnel implements Wireguard                                             *)

\* Every operation of the kernel sequence is one step of the trait's contract, or
\* none: an answer is given only in a state in which it is true.
LEMMA StepImplementsWireguard == IInv /\ [Next]_vars => [Wg!WgNext]_Wg!wgvars
<1> SUFFICES ASSUME IInv, [Next]_vars PROVE [Wg!WgNext]_Wg!wgvars
  OBVIOUS
<1> USE TunnelAssumption, SplitType
<1> USE DEF SwitchSteps, DisconnectSteps, kernel, Wg!wgvars
<1>a. /\ Wg!SwitchFailed => Wg!WgNext
      /\ Wg!Progress => Wg!WgNext
  BY DEF Wg!WgNext, Wg!SwitchCall
<1>1. ASSUME NEW s \in Servers, BeginSwitch(s) PROVE Wg!WgNext
  <2>1. Wg!Ask(s)
    BY <1>1 DEF BeginSwitch, Wg!Ask
  <2> QED
    BY <2>1 DEF Wg!WgNext
<1>2. ASSUME NEW s \in Servers, RejectSwitch(s) PROVE Wg!WgNext
  <2>1. Wg!Refuse
    BY <1>2 DEF RejectSwitch, Finish, Wg!Refuse
  <2> QED
    BY <2>1 DEF Wg!WgNext
<1>3. CASE BeginDisconnect
  BY <1>3 DEF BeginDisconnect, Wg!AskDisconnect, Wg!WgNext
<1>4. CASE ReadHostWarm \/ ReadHostCold
  BY <1>4 DEF ReadHostWarm, ReadHostCold
<1>5. CASE RejectKey
  <2>1. Wg!SwitchFailed
    BY <1>5 DEF RejectKey, Finish, Wg!SwitchFailed, Wg!Effect
  <2> QED
    BY <2>1, <1>a
<1>6. CASE Create
  <2>1. UNCHANGED dev.conf
    BY <1>6 DEF Create, IInv, TypeOK, Absent
  <2> QED
    BY <1>6, <2>1 DEF Create
<1>7. ASSUME ConfigureInterface, pc \in {"BringUp", "Reconfigure"} PROVE Wg!WgNext
  <2>1. dev'.conf \in {dev.conf, srv} /\ UNCHANGED <<rules, srv>>
    BY <1>7, ConfigureShape
  <2>2. CASE pc' = "Route"
    <3>1. Wg!Progress
      BY <1>7, <2>1, <2>2, ConfigureShape DEF Finish, Wg!Progress, Wg!Effect
    <3> QED
      BY <3>1, <1>a
  <2>3. CASE pc' # "Route"
    <3>1. pc' = "Idle" /\ outcome' = "failed"
      BY <1>7, <2>3, ConfigureShape DEF Finish
    <3>2. Wg!SwitchFailed
      BY <1>7, <2>1, <3>1 DEF Wg!SwitchFailed, Wg!Effect
    <3> QED
      BY <3>2, <1>a
  <2> QED
    BY <2>2, <2>3
<1>8. CASE Route
  <2>1. UNCHANGED srv /\ UNCHANGED dev.conf
    BY <1>8 DEF Route, IInv, TypeOK, Device
  <2>2. rules' = rules \/ (srv \in FullTunnel /\ \E m : rules' = rules \cup {m})
    BY <1>8 DEF Route
  <2>3. (rules # {})' = (rules # {}) \/ ((rules # {})' = TRUE /\ srv \in FullTunnel)
    BY <2>2
  <2>4. CASE pc' = "Replace"
    <3>1. Wg!Progress
      BY <1>8, <2>1, <2>3, <2>4 DEF Route, Finish, Wg!Progress, Wg!Effect
    <3> QED
      BY <3>1, <1>a
  <2>5. CASE pc' # "Replace"
    <3>1. pc' = "Idle" /\ outcome' = "failed"
      BY <1>8, <2>5 DEF Route, Finish
    <3>2. Wg!SwitchFailed
      BY <1>8, <2>1, <2>3, <3>1 DEF Route, Wg!SwitchFailed, Wg!Effect
    <3> QED
      BY <3>2, <1>a
  <2> QED
    BY <2>4, <2>5
<1>9. ASSUME pc \in SwitchSteps, UNCHANGED <<dev, rules, srv>>, Finish("failed")
      PROVE Wg!WgNext
  <2>1. Wg!SwitchFailed
    BY <1>9 DEF Finish, Wg!SwitchFailed, Wg!Effect
  <2> QED
    BY <2>1, <1>a
<1>10. CASE ReplaceRoute
  <2>1. CASE pc' = pc
    BY <1>10, <2>1 DEF ReplaceRoute
  <2>2. CASE pc' # pc
    BY <1>9, <1>10, <2>2 DEF ReplaceRoute
  <2> QED
    BY <2>1, <2>2
<1>11. CASE ReadBack \/ PruneRoute \/ PruneDone \/ ReadMark
  BY <1>11 DEF ReadBack, PruneRoute, PruneDone, ReadMark
<1>12. CASE ApplyFirewall
  <2>1. CASE pc' = "Dns"
    BY <1>12, <2>1 DEF ApplyFirewall
  <2>2. CASE pc' # "Dns"
    BY <1>9, <1>12, <2>2 DEF ApplyFirewall
  <2> QED
    BY <2>1, <2>2
<1>13. CASE ApplyDns
  <2>1. CASE Finish("switched")
    <3>1. dev.conf = srv /\ (srv \in FullTunnel => rules # {})
      BY <1>13 DEF ApplyDns, IInv, Sequencing, AfterConfigure, AfterRoute
    <3>2. Wg!Switched
      BY <1>13, <2>1, <3>1 DEF ApplyDns, Finish, Wg!Switched
    <3> QED
      BY <3>2 DEF Wg!WgNext, Wg!SwitchCall
  <2>2. CASE Finish("failed")
    BY <1>9, <1>13, <2>2 DEF ApplyDns
  <2> QED
    BY <1>13, <2>1, <2>2 DEF ApplyDns
<1>14. CASE Remove
  <2>0. pc = "Remove" /\ pc' = "Clear" /\ UNCHANGED srv
    BY <1>14, RemoveShape
  <2>1. CASE dev' = Absent /\ rules' = {} /\ outcome' = "disconnected"
    <3>1. Wg!TearDown
      BY <2>0, <2>1 DEF Absent, Wg!TearDown
    <3> QED
      BY <3>1 DEF Wg!WgNext, Wg!DisconnectCall
  <2>2. CASE dev' \in {dev, Absent} /\ rules' \subseteq rules /\ outcome' = "failed"
    <3>1. dev'.conf \in {dev.conf, NoServer}
      BY <2>2 DEF Absent
    <3>2. (rules # {})' = (rules # {}) \/ (rules # {})' = FALSE
      <4>1. CASE rules' = {}
        BY <4>1
      <4>2. CASE rules' # {}
        <5>1. rules # {}
          BY <2>2, <4>2
        <5>2. (rules # {})' = TRUE /\ (rules # {}) = TRUE
          BY <4>2, <5>1
        <5> QED
          BY <5>2
      <4> QED
        BY <4>1, <4>2
    <3>3. Wg!TearDownFailed
      BY <2>0, <2>2, <3>1, <3>2 DEF Wg!TearDownFailed
    <3> QED
      BY <3>3 DEF Wg!WgNext, Wg!DisconnectCall
  <2> QED
    BY <1>14, <2>1, <2>2, RemoveShape
<1>15. CASE ClearFirewall
  <2>1. outcome \in {"failed", "disconnected"} /\ UNCHANGED <<dev, rules, srv>>
    BY <1>15 DEF ClearFirewall, IInv, Sequencing
  <2>2. pc = "Clear" /\ pc' = "Idle" /\ outcome' = outcome
    BY <1>15 DEF ClearFirewall, Finish
  <2>3. Wg!Disconnected \/ Wg!DisconnectFailed
    BY <2>1, <2>2 DEF Wg!Disconnected, Wg!DisconnectFailed
  <2> QED
    BY <2>3 DEF Wg!WgNext, Wg!DisconnectCall
<1>16. CASE Exit
  BY <1>16 DEF Exit, Wg!Abandoned, Wg!WgNext
<1>17. CASE Restart
  BY <1>17 DEF Restart, IInv, Sequencing
<1>18. CASE UNCHANGED vars
  BY <1>18 DEF vars
<1> QED
  BY <1>1, <1>2, <1>3, <1>4, <1>5, <1>6, <1>7, <1>8, <1>10, <1>11, <1>12, <1>13,
     <1>14, <1>15, <1>16, <1>17, <1>18
     DEF Next, Request, SwitchStep, DisconnectStep, BringUp, Reconfigure

\* The detailed sequence implements trait Wireguard's contract.
THEOREM Implementation == Spec => ImplementsWireguard
<1>1. Init => Wg!WgInit
  BY DEF Init, Absent, SwitchSteps, DisconnectSteps, Wg!WgInit
<1> QED
  BY <1>1, StepImplementsWireguard, Invariance, PTL
     DEF Spec, ImplementsWireguard, Wg!WgSpec
=============================================================================
