----------------------------- MODULE ServerList -----------------------------
(***************************************************************************)
(* The GUI's view of the daemon: useServerList (the polled list, its       *)
(* filter, act and applyServers), the flows Dashboard runs over it, and    *)
(* the screen App shows.  Every call is asynchronous: between sending it   *)
(* and reading its answer, any other step may happen.  Calls travel on     *)
(* connections of their own, so they reach the daemon and return in any    *)
(* order.                                                                  *)
(*                                                                         *)
(* The daemon is its list: the tunnels' names, which one is active, and    *)
(* how many changes it has been through.  The interface status read beside *)
(* the list only matters here by when it arrives, and an edit that is only *)
(* being opened, by nothing.                                               *)
(***************************************************************************)
EXTENDS Naturals, FiniteSets

CONSTANTS
  Names,
  Matching,      \* the names the filter query matches
  Nobody,        \* no active tunnel, no tunnel acted upon
  Threshold,     \* OFFLINE_THRESHOLD
  Forms,         \* the forms in use: "save" (add, edit), "import"
  MaxRefreshes,  \* bound: refreshes in flight at once
  MaxCalls,      \* bound: calls in flight outside of the dashboard
  MaxMoves       \* bound: what users, other clients and outages do, in all

ASSUME ServerListAssumption ==
  /\ Matching \subseteq Names
  /\ Nobody \notin Names
  /\ Threshold \in Nat \ {0}
  /\ Forms \subseteq {"save", "import"}
  /\ MaxRefreshes \in Nat \ {0, 1}
  /\ MaxCalls \in Nat \ {0}
  /\ MaxMoves \in Nat

VARIABLES
  daemon,     \* its list
  screen,     \* what App shows
  calls,      \* App's own listServers calls, and removals whose dashboard is gone
  shown,      \* the list on the dashboard
  filtering,  \* whether a query is set
  refreshes,  \* refresh calls in flight
  failures,   \* consecutive failed refreshes
  action,     \* the act in flight; busy is that there is one
  form,       \* the submit in flight of the add, edit or import form
  moves       \* how many of MaxMoves were made

hook == <<shown, filtering, refreshes, failures, action, form>>
vars == <<daemon, screen, calls, hook, moves>>

-----------------------------------------------------------------------------
Lists == [names : SUBSET Names, active : Names \cup {Nobody}, at : 0..MaxMoves]
Blank == [names |-> {}, active |-> Nobody, at |-> 0]
NoAnswer == [answer |-> "pending", list |-> Blank]
Failure == [answer |-> "failed", list |-> Blank]
Answer(list) == [answer |-> "ok", list |-> list]
Answers == [answer : {"pending", "failed", "ok"}, list : Lists]

NoCall == [kind |-> "none", name |-> Nobody, call |-> NoAnswer]
Call(kind, n) == [kind |-> kind, name |-> n, call |-> NoAnswer]

busy == action # NoCall

Slots == 1..MaxCalls
Free(i) == calls[i] = NoCall /\ \A j \in Slots : j < i => calls[j] # NoCall
Send(c) == \E i \in Slots : Free(i) /\ calls' = [calls EXCEPT ![i] = c]
Load == Call("load", Nobody)
Loading == \E i \in Slots : calls[i].kind = "load"

Move == moves < MaxMoves /\ moves' = moves + 1

\* list_servers, retained by the query.
Filtered(list, filter) ==
  IF filter THEN [list EXCEPT !.names = @ \cap Matching] ELSE list

-----------------------------------------------------------------------------
(* refresh                                                                 *)

Superseded_Never(rs) == rs

\* A newer refreshSeq makes every earlier refresh stale.
Superseded(rs) == {[r EXCEPT !.latest = FALSE] : r \in rs}

NewRefresh(by, filter) ==
  [by |-> by, latest |-> TRUE, filter |-> filter, list |-> NoAnswer]

Refresh(by, filter) ==
  refreshes' = Superseded(refreshes) \cup {NewRefresh(by, filter)}

\* The poll and the query effect refresh only when no action is in flight.
BackgroundRefresh(filter) ==
  IF busy THEN UNCHANGED refreshes ELSE Refresh("background", filter)

Room == Cardinality(refreshes) < MaxRefreshes

Poll_WhileBusy ==
  /\ screen = "dashboard"
  /\ Room
  /\ Refresh("background", filtering)
  /\ UNCHANGED <<daemon, screen, calls, shown, filtering, failures, action, form, moves>>

\* The interval timer.
Poll ==
  /\ screen = "dashboard"
  /\ ~busy
  /\ Room
  /\ Refresh("background", filtering)
  /\ UNCHANGED <<daemon, screen, calls, shown, filtering, failures, action, form, moves>>

\* Clearing the query refetches at once; typing one does when its debounce timer
\* fires, which is one more background refresh at some time: Poll.
SetQuery ==
  /\ screen = "dashboard"
  /\ Room
  /\ Move
  /\ filtering' = ~filtering
  /\ IF filtering THEN BackgroundRefresh(FALSE) ELSE UNCHANGED refreshes
  /\ UNCHANGED <<daemon, screen, calls, shown, failures, action, form>>

\* The list is read when its call reaches the daemon; the refresh goes on some time
\* later, when the status has come as well, or at once when either call fails.
ReadList(r) ==
  /\ r.list = NoAnswer
  /\ refreshes' =
       (refreshes \ {r}) \cup {[r EXCEPT !.list = Answer(Filtered(daemon, r.filter))]}
  /\ UNCHANGED <<daemon, screen, calls, shown, filtering, failures, action, form, moves>>

LoseRead(r) ==
  /\ r.list # Failure
  /\ Move
  /\ refreshes' = (refreshes \ {r}) \cup {[r EXCEPT !.list = Failure]}
  /\ UNCHANGED <<daemon, screen, calls, shown, filtering, failures, action, form>>

\* Whoever awaited the refresh goes on, whether it was applied or not.
Awaited(r) ==
  /\ action' = IF r.by = "act" THEN NoCall ELSE action
  /\ form' = IF r.by = "form" THEN NoCall ELSE form

RefreshDone(r) ==
  /\ r.list.answer = "ok"
  /\ IF r.latest THEN shown' = r.list.list /\ failures' = 0
                 ELSE UNCHANGED <<shown, failures>>
  /\ refreshes' = refreshes \ {r}
  /\ Awaited(r)
  /\ UNCHANGED <<daemon, screen, calls, filtering, moves>>

\* The dashboard is gone: what it still waits for changes nothing any more, but for a
\* removal, which goes on without it.
Unmounted ==
  /\ shown' = Blank
  /\ filtering' = FALSE
  /\ refreshes' = {}
  /\ failures' = 0
  /\ action' = NoCall
  /\ form' = NoCall

RefreshFailed(r) ==
  /\ r.list = Failure
  /\ IF r.latest /\ failures + 1 >= Threshold
       THEN /\ screen' = "offline"
            /\ IF action.kind = "remove" THEN Send(action) ELSE UNCHANGED calls
            /\ Unmounted
       ELSE /\ failures' = IF r.latest THEN failures + 1 ELSE failures
            /\ refreshes' = refreshes \ {r}
            /\ Awaited(r)
            /\ UNCHANGED <<screen, calls, shown, filtering>>
  /\ UNCHANGED <<daemon, moves>>

-----------------------------------------------------------------------------
(* act: switch, disconnect and remove                                      *)

\* A row's buttons are disabled while busy, and its own when it is shown active.
Act(kind, n) ==
  /\ screen = "dashboard"
  /\ ~busy
  /\ n \in shown.names /\ n # shown.active
  /\ Move
  /\ action' = Call(kind, n)
  /\ UNCHANGED <<daemon, screen, calls, shown, filtering, refreshes, failures, form>>

ActDisconnect ==
  /\ screen = "dashboard"
  /\ ~busy
  /\ Move
  /\ action' = Call("disconnect", Nobody)
  /\ UNCHANGED <<daemon, screen, calls, shown, filtering, refreshes, failures, form>>

Changed(names, active) ==
  [names |-> names, active |-> IF active \in names THEN active ELSE Nobody,
   at |-> IF daemon.at < MaxMoves THEN daemon.at + 1 ELSE daemon.at]

\* What the daemon makes of the call; it answers an error to an unknown name.
Handled(c) ==
  CASE c.kind = "switch" -> Changed(daemon.names, c.name)
    [] c.kind = "disconnect" -> Changed(daemon.names, Nobody)
    [] c.kind = "remove" -> Changed(daemon.names \ {c.name}, daemon.active)
    [] OTHER -> Changed(daemon.names \cup {c.name}, daemon.active)

Known(c) == c.kind \in {"switch", "remove"} => c.name \in daemon.names

HandleAct ==
  /\ busy /\ action.call = NoAnswer
  /\ \/ /\ Known(action)
        /\ daemon' = Handled(action)
        /\ action' = [action EXCEPT !.call = Answer(daemon')]
        /\ UNCHANGED moves
     \/ /\ ~Known(action)
        /\ action' = [action EXCEPT !.call = Failure]
        /\ UNCHANGED <<daemon, moves>>
     \/ /\ Move
        /\ action' = [action EXCEPT !.call = Failure]
        /\ UNCHANGED daemon
  /\ UNCHANGED <<screen, calls, shown, filtering, refreshes, failures, form>>

Refreshing(by) == \E r \in refreshes : r.by = by

\* The action has succeeded: re-read, and stay busy until that has returned.
ActRefreshes ==
  /\ action.kind \in {"switch", "disconnect"}
  /\ action.call.answer = "ok"
  /\ ~Refreshing("act")
  /\ Refresh("act", filtering)
  /\ UNCHANGED <<daemon, screen, calls, shown, filtering, failures, action, form, moves>>

\* removeServer's answer is the list that is left, applied as it is; after the last
\* removal App takes over.
Removed ==
  /\ action.kind = "remove"
  /\ action.call.answer = "ok"
  /\ IF action.call.list.names = {}
       THEN Send(Load) /\ UNCHANGED shown
       ELSE shown' = action.call.list /\ UNCHANGED calls
  /\ action' = NoCall
  /\ UNCHANGED <<daemon, screen, filtering, refreshes, failures, form, moves>>

ActFailed_StaysBusy ==
  /\ action.call.answer = "failed"
  /\ UNCHANGED vars

ActFailed ==
  /\ action.call.answer = "failed"
  /\ action' = NoCall
  /\ UNCHANGED <<daemon, screen, calls, shown, filtering, refreshes, failures, form, moves>>

-----------------------------------------------------------------------------
(* the forms: they submit outside of act                                   *)

Submit(kind, n) ==
  /\ screen = "dashboard"
  /\ form = NoCall
  /\ Move
  /\ form' = Call(kind, n)
  /\ UNCHANGED <<daemon, screen, calls, shown, filtering, refreshes, failures, action>>

HandleForm ==
  /\ form # NoCall /\ form.call = NoAnswer
  /\ \/ /\ daemon' = Handled(form)
        /\ form' = [form EXCEPT !.call = Answer(daemon')]
        /\ UNCHANGED moves
     \/ /\ Move
        /\ form' = [form EXCEPT !.call = Failure]
        /\ UNCHANGED daemon
  /\ UNCHANGED <<screen, calls, shown, filtering, refreshes, failures, action>>

\* addServer and editServer are followed by a refresh, importServer by its answer.
FormSaved ==
  /\ form.kind = "save"
  /\ form.call.answer = "ok"
  /\ ~Refreshing("form")
  /\ Refresh("form", filtering)
  /\ UNCHANGED <<daemon, screen, calls, shown, filtering, failures, action, form, moves>>

Imported ==
  /\ form.kind = "import"
  /\ form.call.answer = "ok"
  /\ shown' = form.call.list
  /\ form' = NoCall
  /\ UNCHANGED <<daemon, screen, calls, filtering, refreshes, failures, action, moves>>

FormFailed ==
  /\ form.call.answer = "failed"
  /\ form' = NoCall
  /\ UNCHANGED <<daemon, screen, calls, shown, filtering, refreshes, failures, action, moves>>

-----------------------------------------------------------------------------
(* App                                                                     *)

Init ==
  /\ daemon \in {[names |-> names, active |-> Nobody, at |-> 0] : names \in SUBSET Names}
  /\ screen = "loading"
  /\ calls = [i \in Slots |-> IF i = 1 THEN Load ELSE NoCall]
  /\ shown = Blank
  /\ filtering = FALSE
  /\ refreshes = {}
  /\ failures = 0
  /\ action = NoCall
  /\ form = NoCall
  /\ moves = 0

HandleLoad(i) ==
  /\ calls[i] = Load
  /\ \/ calls' = [calls EXCEPT ![i].call = Answer(daemon)] /\ UNCHANGED moves
     \/ calls' = [calls EXCEPT ![i].call = Failure] /\ Move
  /\ UNCHANGED <<daemon, screen, hook>>

\* What an unmounted dashboard leaves in App's hands.
LeftBehind == IF action.kind = "remove" THEN action ELSE NoCall

\* A dashboard that was not there is mounted: the poll and the query effect each
\* refresh at once.  One that was there stays as it is.
Loaded(i) ==
  /\ calls[i].kind = "load" /\ calls[i].call.answer = "ok"
  /\ screen' = IF calls[i].call.list.names = {} THEN "onboarding" ELSE "dashboard"
  /\ calls' = [calls EXCEPT ![i] = IF screen' = "onboarding" THEN LeftBehind ELSE NoCall]
  /\ CASE screen' = "onboarding" -> Unmounted
       [] screen = "dashboard" /\ screen' = "dashboard" -> UNCHANGED hook
       [] OTHER ->
            /\ refreshes' = {NewRefresh("background", FALSE)}
                 \cup Superseded({NewRefresh("background", FALSE)})
            /\ UNCHANGED <<shown, filtering, failures, action, form>>
  /\ UNCHANGED <<daemon, moves>>

LoadFailed(i) ==
  /\ calls[i].kind = "load" /\ calls[i].call.answer = "failed"
  /\ calls' = [calls EXCEPT ![i] = LeftBehind]
  /\ screen' = "offline"
  /\ Unmounted
  /\ UNCHANGED <<daemon, moves>>

\* A removal whose dashboard is gone: the daemon does it all the same, and App still
\* loads when nothing is left.
HandleRemoval(i) ==
  /\ calls[i].kind = "remove" /\ calls[i].call = NoAnswer
  /\ \/ /\ Known(calls[i])
        /\ daemon' = Handled(calls[i])
        /\ calls' = [calls EXCEPT ![i].call = Answer(daemon')]
        /\ UNCHANGED moves
     \/ /\ calls' = [calls EXCEPT ![i].call = Failure]
        /\ IF Known(calls[i]) THEN Move ELSE UNCHANGED moves
        /\ UNCHANGED daemon
  /\ UNCHANGED <<screen, hook>>

LateRemoved(i) ==
  /\ calls[i].kind = "remove" /\ calls[i].call # NoAnswer
  /\ calls' = [calls EXCEPT ![i] =
       IF @.call.answer = "ok" /\ @.call.list.names = {} THEN Load ELSE NoCall]
  /\ UNCHANGED <<daemon, screen, hook, moves>>

Retry ==
  /\ screen = "offline"
  /\ Move
  /\ screen' = "loading"
  /\ Send(Load)
  /\ UNCHANGED <<daemon, hook>>

\* The first server was added: onComplete loads.
Onboarded(n) ==
  /\ screen = "onboarding"
  /\ Move
  /\ daemon' = Handled(Call("save", n))
  /\ Send(Load)
  /\ UNCHANGED <<screen, hook>>

\* The command line, or a call this GUI has already given up on.
OtherClient ==
  /\ Move
  /\ \E n \in Names, kind \in {"switch", "disconnect", "remove", "save"} :
       /\ Known(Call(kind, n))
       /\ daemon' = Handled(Call(kind, n))
  /\ UNCHANGED <<screen, calls, hook>>

-----------------------------------------------------------------------------
Users ==
  \/ \E n \in Names : Act("switch", n) \/ Act("remove", n)
  \/ ActDisconnect
  \/ \E n \in Names, kind \in Forms : Submit(kind, n)
  \/ SetQuery
  \/ Retry
  \/ \E n \in Names : Onboarded(n)

Serving ==
  \/ \E r \in refreshes : ReadList(r)
  \/ HandleAct \/ HandleForm
  \/ \E i \in Slots : HandleLoad(i) \/ HandleRemoval(i)

Continuing ==
  \/ \E r \in refreshes : RefreshDone(r) \/ RefreshFailed(r)
  \/ ActRefreshes \/ Removed \/ ActFailed
  \/ FormSaved \/ Imported \/ FormFailed
  \/ \E i \in Slots : Loaded(i) \/ LoadFailed(i) \/ LateRemoved(i)

Next ==
  \/ Users \/ Serving \/ Continuing \/ Poll \/ OtherClient
  \/ \E r \in refreshes : LoseRead(r)

Spec == Init /\ [][Next]_vars

\* Calls are answered or time out, continuations run, and the interval fires.
FairSpec == Spec /\ WF_vars(Serving) /\ WF_vars(Continuing) /\ WF_vars(Poll)

-----------------------------------------------------------------------------
TypeOK ==
  /\ daemon \in Lists
  /\ screen \in {"loading", "offline", "onboarding", "dashboard"}
  /\ shown \in Lists
  /\ failures \in 0..(Threshold - 1)
  /\ screen # "dashboard" => hook = <<Blank, FALSE, {}, 0, NoCall, NoCall>>
  /\ screen = "loading" => Loading
  /\ Cardinality({r \in refreshes : r.latest}) <= 1
  /\ Refreshing("act") => busy
  /\ Refreshing("form") => form.kind = "save"

\* "Run an action, then re-read state": when a switch or disconnect that succeeded
\* stops being busy, the list shown already has its effect, unless that read failed
\* or a form's own read has taken over.
ActionShown ==
  [][action.kind \in {"switch", "disconnect"} /\ action.call.answer = "ok"
       /\ action' = NoCall /\ screen' = "dashboard" =>
         \/ shown'.at >= action.call.list.at
         \/ failures' > 0
         \/ \E r \in refreshes' : r.by = "form"]_vars

\* A poll that overtakes a refresh whose answer is not there yet.
Overtakes == Poll /\ \E r \in refreshes : r.latest

\* Once users, other clients and outages leave it alone, the dashboard comes to show
\* the daemon's list under the current query, unless polls keep overtaking each other.
Converges ==
  \/ []<><<Overtakes>>_vars
  \/ <>[](screen = "dashboard" => shown = Filtered(daemon, filtering))

\* The comment on the poll: a background poll must not "race (and clobber) an
\* in-flight action"; a list once shown is never replaced by an older one.
ShownNeverOlder ==
  [][screen = "dashboard" /\ screen' = "dashboard" => shown'.at >= shown.at]_vars
=============================================================================
