----------------------------- MODULE Wireguard -----------------------------
(***************************************************************************)
(* The trait the daemon drives the tunnel through (trait Wireguard in      *)
(* daemon/src/wireguard.rs), as a promise: what a caller may rely on about *)
(* the live tunnel and the kill switch while an intent runs, when it has   *)
(* been answered, and when the process died before an answer.  Tunnel      *)
(* implements it; Daemon is built on it.                                   *)
(***************************************************************************)
CONSTANTS
  Servers,     \* what switch may be asked to bring up
  NoServer,
  FullTunnel   \* the servers that need the kill switch

VARIABLES
  live,    \* the server whose key and peer the interface holds
  armed,   \* whether the kill-switch rules are installed
  intent,  \* the call under way
  target,  \* its argument, when it is a switch
  reply    \* how the last call ended

wgvars == <<live, armed, intent, target, reply>>

WgInit ==
  /\ live = NoServer
  /\ armed = FALSE
  /\ intent = "none"
  /\ target = NoServer
  /\ reply = "none"

Ask(s) ==
  /\ intent = "none"
  /\ intent' = "switch"
  /\ target' = s
  /\ reply' = "none"
  /\ UNCHANGED <<live, armed>>

AskDisconnect ==
  /\ intent = "none"
  /\ intent' = "disconnect"
  /\ reply' = "none"
  /\ UNCHANGED <<live, armed, target>>

\* A configuration that does not parse fails before the tunnel is touched.
Refuse ==
  /\ intent = "none"
  /\ reply' = "failed"
  /\ UNCHANGED <<live, armed, intent, target>>

\* What a switch may do to the interface on its way: bring up its own server and,
\* for a full tunnel, arm the kill switch.  It never disarms it.
Effect ==
  /\ live' \in {live, target}
  /\ \/ armed' = armed
     \/ armed' = TRUE /\ target \in FullTunnel

Progress ==
  /\ intent = "switch"
  /\ Effect
  /\ UNCHANGED <<intent, target, reply>>

\* Ok: the server asked for is the live one, behind its kill switch.
Switched ==
  /\ intent = "switch"
  /\ live = target
  /\ target \in FullTunnel => armed
  /\ intent' = "none"
  /\ target' = NoServer
  /\ reply' = "switched"
  /\ UNCHANGED <<live, armed>>

\* Err: the old server or the new one is live.
SwitchFailed ==
  /\ intent = "switch"
  /\ Effect
  /\ intent' = "none"
  /\ target' = NoServer
  /\ reply' = "failed"

TearDown ==
  /\ intent = "disconnect"
  /\ live' = NoServer
  /\ armed' = FALSE
  /\ intent' = "removed"
  /\ UNCHANGED <<target, reply>>

\* A removal that will fail may still have taken the interface or the kill switch.
TearDownFailed ==
  /\ intent = "disconnect"
  /\ live' \in {live, NoServer}
  /\ armed' \in {armed, FALSE}
  /\ UNCHANGED <<intent, target, reply>>

Disconnected ==
  /\ intent = "removed"
  /\ intent' = "none"
  /\ reply' = "disconnected"
  /\ UNCHANGED <<live, armed, target>>

\* Err says nothing of the interface: it may be there, or gone.
DisconnectFailed ==
  /\ intent = "disconnect"
  /\ intent' = "none"
  /\ reply' = "failed"
  /\ UNCHANGED <<live, armed, target>>

\* The process is gone; the interface is as the call left it.
Abandoned ==
  /\ intent' = "none"
  /\ target' = NoServer
  /\ reply' = "none"
  /\ UNCHANGED <<live, armed>>

\* The machine restarted: no interface, no rules.
Rebooted ==
  /\ live' = NoServer
  /\ armed' = FALSE
  /\ intent' = "none"
  /\ target' = NoServer
  /\ reply' = "none"

SwitchCall == Progress \/ Switched \/ SwitchFailed
DisconnectCall == TearDown \/ TearDownFailed \/ Disconnected \/ DisconnectFailed

WgNext ==
  \/ \E s \in Servers : Ask(s)
  \/ Refuse
  \/ AskDisconnect
  \/ SwitchCall
  \/ DisconnectCall
  \/ Abandoned
  \/ Rebooted

WgSpec == WgInit /\ [][WgNext]_wgvars
=============================================================================
