------------------------- MODULE ServerList_proofs -------------------------
(***************************************************************************)
(* The GUI's list, for any names, threshold and number of refreshes in     *)
(* flight: a switch or disconnect that succeeded is on the screen by the   *)
(* time it stops being busy.                                               *)
(***************************************************************************)
EXTENDS ServerList, FiniteSetTheorems, TLAPS

RefreshCalls ==
  [by : {"background", "act", "form"}, latest : BOOLEAN, filter : BOOLEAN, list : Answers]

CallsOf(kinds) == [kind : kinds, name : Names \cup {Nobody}, call : Answers]
AppCalls == CallsOf({"none", "load", "remove"})
ActionCalls == CallsOf({"none", "switch", "disconnect", "remove"})
FormCalls == CallsOf({"none", "save", "import"})

Typed ==
  /\ daemon \in Lists
  /\ shown \in Lists
  /\ filtering \in BOOLEAN
  /\ failures \in 0..(Threshold - 1)
  /\ refreshes \subseteq RefreshCalls
  /\ calls \in [Slots -> AppCalls]
  /\ \A i \in Slots : calls[i].kind = "none" => calls[i] = NoCall
  /\ action \in ActionCalls
  /\ form \in FormCalls
  /\ \A c \in {action, form} : c.kind = "none" => c = NoCall
  /\ form # NoCall => form.name \in Names

Mounted ==
  /\ screen \in {"loading", "offline", "onboarding", "dashboard"}
  /\ screen # "dashboard" => hook = <<Blank, FALSE, {}, 0, NoCall, NoCall>>
  /\ screen = "loading" => Loading

\* One refresh is the latest, and each call that succeeded has one at most.
Single ==
  /\ \A r, s \in refreshes : r.latest /\ s.latest => r = s
  /\ \A r, s \in refreshes : r.by = s.by /\ r.by # "background" => r = s
  /\ Refreshing("act") =>
       action.kind \in {"switch", "disconnect"} /\ action.call.answer = "ok"
  /\ Refreshing("form") => form.kind = "save" /\ form.call.answer = "ok"

\* Once an action re-reads the list, whatever may still be shown is no older than its
\* answer; when its own read is overtaken, it is by a form's.
Ages ==
  /\ action.call.list.at <= daemon.at
  /\ \A a \in refreshes : a.by = "act" =>
       /\ \A r \in refreshes :
            r.latest /\ r.list.answer = "ok" => r.list.list.at >= action.call.list.at
       /\ ~a.latest =>
            /\ \/ shown.at >= action.call.list.at
               \/ failures > 0
               \/ \E f \in refreshes : f.by = "form" /\ f.latest
            /\ form.kind = "import" /\ form.call.answer = "ok" =>
                 form.call.list.at >= action.call.list.at

IInv == Typed /\ Mounted /\ Single /\ Ages

-----------------------------------------------------------------------------
LEMMA ListParts ==
  ASSUME NEW l \in Lists
  PROVE  l.names \subseteq Names /\ l.active \in Names \cup {Nobody} /\ l.at \in Nat
         /\ l.at <= MaxMoves
  BY ServerListAssumption DEF Lists

LEMMA AnswerParts ==
  ASSUME NEW a \in Answers
  PROVE  a.answer \in {"pending", "failed", "ok"} /\ a.list \in Lists /\ a.list.at \in Nat
  BY ListParts DEF Answers

LEMMA AnswerTypes ==
  /\ Blank \in Lists /\ Blank.at = 0
  /\ NoAnswer \in Answers /\ NoAnswer.answer = "pending" /\ NoAnswer.list = Blank
  /\ Failure \in Answers /\ Failure.answer = "failed" /\ Failure.list = Blank
  /\ \A l \in Lists : Answer(l) \in Answers /\ Answer(l).answer = "ok" /\ Answer(l).list = l
<1>1. Blank \in Lists /\ Blank.at = 0
  BY ServerListAssumption DEF Blank, Lists
<1> QED  BY <1>1 DEF NoAnswer, Failure, Answer, Answers

LEMMA CallTypes ==
  /\ Load \in AppCalls /\ Load.kind = "load"
  /\ Call("disconnect", Nobody) \in ActionCalls
  /\ \A n \in Names :
       /\ \A kind \in {"switch", "remove"} : Call(kind, n) \in ActionCalls
       /\ \A kind \in {"save", "import"} : Call(kind, n) \in FormCalls
  /\ NoCall \in AppCalls /\ NoCall \in ActionCalls /\ NoCall \in FormCalls
  /\ NoCall.kind = "none" /\ NoCall.call = NoAnswer
  /\ \A kind, n : Call(kind, n).kind = kind /\ Call(kind, n).name = n
                  /\ Call(kind, n).call = NoAnswer
  BY AnswerTypes DEF Call, Load, NoCall, CallsOf, AppCalls, ActionCalls, FormCalls

LEMMA CallAnswered ==
  ASSUME NEW kinds, NEW c \in CallsOf(kinds), NEW a \in Answers
  PROVE  /\ [c EXCEPT !.call = a] \in CallsOf(kinds)
         /\ [c EXCEPT !.call = a].call = a
         /\ [c EXCEPT !.call = a].kind = c.kind
         /\ [c EXCEPT !.call = a].name = c.name
  BY DEF CallsOf

\* App's calls, when one of them is another.
LEMMA CallReplaced ==
  ASSUME Typed, NEW i \in Slots, NEW c \in AppCalls, c.kind = "none" => c = NoCall,
         calls' = [calls EXCEPT ![i] = c]
  PROVE  /\ calls' \in [Slots -> AppCalls]
         /\ \A j \in Slots : calls'[j].kind = "none" => calls'[j] = NoCall
         /\ c.kind = "load" => Loading'
         /\ c.kind = calls[i].kind => Loading' = Loading
  BY DEF Typed, Loading, Slots

LEMMA Sent ==
  ASSUME Typed, NEW c \in AppCalls, c.kind # "none", Send(c)
  PROVE  /\ calls' \in [Slots -> AppCalls]
         /\ \A j \in Slots : calls'[j].kind = "none" => calls'[j] = NoCall
         /\ c.kind = "load" => Loading'
<1>1. PICK i \in Slots : calls' = [calls EXCEPT ![i] = c]
  BY DEF Send
<1> QED  BY <1>1, CallReplaced

LEMMA LeftBehindType ==
  ASSUME Typed
  PROVE  LeftBehind \in AppCalls /\ (LeftBehind.kind = "none" => LeftBehind = NoCall)
  BY CallTypes DEF Typed, LeftBehind, CallsOf, AppCalls, ActionCalls

LEMMA FilteredType ==
  ASSUME NEW l \in Lists, NEW filter \in BOOLEAN
  PROVE  Filtered(l, filter) \in Lists /\ Filtered(l, filter).at = l.at
  BY DEF Filtered, Lists

\* A change of the daemon's list is no older than it.
LEMMA HandledType ==
  ASSUME Typed, NEW c, c.name \in Names \/ c.kind = "disconnect"
  PROVE  Handled(c) \in Lists /\ Handled(c).at >= daemon.at
<1>1. ASSUME NEW names \in SUBSET Names, NEW active \in Names \cup {Nobody}
      PROVE  Changed(names, active) \in Lists /\ Changed(names, active).at >= daemon.at
  <2>1. daemon \in Lists /\ daemon.at \in 0..MaxMoves
    BY DEF Typed, Lists
  <2> DEFINE at == IF daemon.at < MaxMoves THEN daemon.at + 1 ELSE daemon.at
  <2>2. at \in 0..MaxMoves /\ at >= daemon.at
    BY <2>1, ServerListAssumption
  <2> QED  BY <2>2 DEF Changed, Lists
<1>2. daemon.names \subseteq Names /\ daemon.active \in Names \cup {Nobody}
  BY ListParts DEF Typed
<1>4. CASE c.kind = "switch"
  BY <1>1, <1>2, <1>4 DEF Handled
<1>5. CASE c.kind = "disconnect"
  BY <1>1, <1>2, <1>5 DEF Handled
<1>6. CASE c.kind = "remove"
  BY <1>1, <1>2, <1>6 DEF Handled
<1>7. CASE c.kind \notin {"switch", "disconnect", "remove"}
  <2>1. Handled(c) = Changed(daemon.names \cup {c.name}, daemon.active)
    BY <1>7 DEF Handled
  <2> QED  BY <1>1, <1>2, <1>7, <2>1
<1> QED  BY <1>4, <1>5, <1>6, <1>7

LEMMA RefreshParts ==
  ASSUME NEW r \in RefreshCalls
  PROVE  /\ r.by \in {"background", "act", "form"} /\ r.latest \in BOOLEAN
         /\ r.filter \in BOOLEAN /\ r.list \in Answers
         /\ r.list.list \in Lists /\ r.list.list.at \in Nat
  BY AnswerParts DEF RefreshCalls

\* A read that is answered or lost is the same refresh otherwise.
LEMMA RefreshAnswered ==
  ASSUME NEW r \in RefreshCalls, NEW a \in Answers
  PROVE  /\ [r EXCEPT !.list = a] \in RefreshCalls
         /\ [r EXCEPT !.list = a].list = a
         /\ [r EXCEPT !.list = a].by = r.by
         /\ [r EXCEPT !.list = a].latest = r.latest
  BY DEF RefreshCalls

\* A new refresh is the latest one, and supersedes all the others.
LEMMA Refreshed ==
  ASSUME Typed, NEW by \in {"background", "act", "form"}, NEW filter \in BOOLEAN,
         Refresh(by, filter)
  PROVE  /\ refreshes' \subseteq RefreshCalls
         /\ \A r \in refreshes' :
              \/ r.latest /\ r.by = by /\ r.list = NoAnswer /\ r = NewRefresh(by, filter)
              \/ /\ ~r.latest
                 /\ \E s \in refreshes : r = [s EXCEPT !.latest = FALSE] /\ r.by = s.by
         /\ NewRefresh(by, filter) \in refreshes'
         /\ NewRefresh(by, filter).latest /\ NewRefresh(by, filter).by = by
<1>1. NewRefresh(by, filter) \in RefreshCalls
      /\ NewRefresh(by, filter).latest /\ NewRefresh(by, filter).by = by
      /\ NewRefresh(by, filter).list = NoAnswer
  BY AnswerTypes DEF NewRefresh, RefreshCalls
<1>2. \A s \in refreshes : /\ [s EXCEPT !.latest = FALSE] \in RefreshCalls
                           /\ ~[s EXCEPT !.latest = FALSE].latest
                           /\ [s EXCEPT !.latest = FALSE].by = s.by
  BY DEF Typed, RefreshCalls
<1>3. \A r \in refreshes' : r = NewRefresh(by, filter)
        \/ \E s \in refreshes : r = [s EXCEPT !.latest = FALSE]
  BY DEF Refresh, Superseded
<1>4. NewRefresh(by, filter) \in refreshes'
  BY DEF Refresh
<1>5. ASSUME NEW r \in refreshes'
      PROVE  /\ r \in RefreshCalls
             /\ \/ r.latest /\ r.by = by /\ r.list = NoAnswer /\ r = NewRefresh(by, filter)
                \/ /\ ~r.latest
                   /\ \E s \in refreshes : r = [s EXCEPT !.latest = FALSE] /\ r.by = s.by
  <2>1. CASE r = NewRefresh(by, filter)
    BY <1>1, <2>1
  <2>2. CASE r # NewRefresh(by, filter)
    <3>1. PICK s \in refreshes : r = [s EXCEPT !.latest = FALSE]
      BY <1>3, <2>2
    <3>2. r \in RefreshCalls /\ ~r.latest /\ r.by = s.by
      BY <1>2, <3>1
    <3> QED  BY <3>1, <3>2
  <2> QED  BY <2>1, <2>2
<1> QED  BY <1>1, <1>4, <1>5

\* What is true of who refreshes stays true when one more does.
LEMMA RefreshedOnce ==
  ASSUME Typed, Single, NEW by \in {"background", "act", "form"}, NEW filter \in BOOLEAN,
         Refresh(by, filter), by # "background" => ~Refreshing(by)
  PROVE  /\ \A r, s \in refreshes' : r.latest /\ s.latest => r = s
         /\ \A r, s \in refreshes' : r.by = s.by /\ r.by # "background" => r = s
         /\ Refreshing("act")' => by = "act" \/ Refreshing("act")
         /\ Refreshing("form")' => by = "form" \/ Refreshing("form")
<1>1. \A r, s \in refreshes' : r.latest /\ s.latest => r = s
  BY Refreshed
<1>2. ASSUME NEW r \in refreshes', NEW s \in refreshes', r.by = s.by, r.by # "background"
      PROVE  r = s
  <2>1. CASE r.by = by
    <3>1. \A q \in refreshes' : q.by = by => q = NewRefresh(by, filter)
      <4> SUFFICES ASSUME NEW q \in refreshes', q.by = by
                   PROVE  q = NewRefresh(by, filter)
        OBVIOUS
      <4>1. ~\E q0 \in refreshes : q0.by = q.by
        BY <1>2, <2>1 DEF Refreshing
      <4> QED  BY <4>1, Refreshed
    <3> QED  BY <1>2, <2>1, <3>1
  <2>2. CASE r.by # by
    <3>1. PICK r0 \in refreshes : r = [r0 EXCEPT !.latest = FALSE] /\ r.by = r0.by
      BY <2>2, Refreshed
    <3>2. PICK s0 \in refreshes : s = [s0 EXCEPT !.latest = FALSE] /\ s.by = s0.by
      BY <1>2, <2>2, Refreshed
    <3>3. r0 = s0
      BY <1>2, <3>1, <3>2 DEF Single
    <3> QED  BY <3>1, <3>2, <3>3
  <2> QED  BY <2>1, <2>2
<1>3. \A r \in refreshes' : r.by # by => \E s \in refreshes : s.by = r.by
  BY Refreshed
<1> QED  BY <1>1, <1>2, <1>3 DEF Refreshing

-----------------------------------------------------------------------------
LEMMA InitIInv == Init => IInv
<1> SUFFICES ASSUME Init PROVE IInv
  OBVIOUS
<1>1. daemon \in Lists /\ daemon.at = 0
  BY ServerListAssumption DEF Init, Lists
<1>2. Typed
  <2>1. 0 \in 0..(Threshold - 1)
    BY ServerListAssumption
  <2>2. /\ calls \in [Slots -> AppCalls]
        /\ \A i \in Slots : calls[i].kind = "none" => calls[i] = NoCall
        /\ action \in ActionCalls /\ form \in FormCalls
    BY CallTypes DEF Init
  <2>3. action = NoCall /\ form = NoCall
    BY DEF Init
  <2> QED  BY <1>1, <2>1, <2>2, <2>3, AnswerTypes DEF Init, Typed
<1>3. Loading
  <2>1. 1 \in Slots
    BY ServerListAssumption DEF Slots
  <2> QED  BY <2>1, CallTypes DEF Init, Loading
<1>4. Mounted
  BY <1>3 DEF Init, Mounted, hook
<1>5. Single
  BY DEF Init, Single, Refreshing
<1>6. Ages
  BY <1>1, AnswerTypes, CallTypes DEF Init, Ages
<1> QED  BY <1>2, <1>4, <1>5, <1>6 DEF IInv

\* The parts of the invariant that say of the dashboard's calls what they are.
LEMMA CallFacts ==
  ASSUME IInv
  PROVE  /\ daemon \in Lists /\ daemon.at \in Nat /\ shown.at \in Nat
         /\ action.call \in Answers /\ form.call \in Answers
         /\ action.call.list \in Lists /\ action.call.list.at \in Nat
         /\ form.call.list \in Lists /\ form.call.list.at \in Nat
         /\ failures \in Nat
         /\ ~busy => ~Refreshing("act")
         /\ action.call.answer # "ok" => ~Refreshing("act")
         /\ action.kind \notin {"switch", "disconnect"} => ~Refreshing("act")
<1> USE DEF IInv
<1>1. daemon \in Lists /\ daemon.at \in Nat /\ shown.at \in Nat
  BY ListParts DEF Typed
<1>2. action.call \in Answers /\ form.call \in Answers
  BY DEF Typed, CallsOf, ActionCalls, FormCalls
<1>3. action.call.list \in Lists /\ action.call.list.at \in Nat
      /\ form.call.list \in Lists /\ form.call.list.at \in Nat
  BY <1>2, AnswerParts
<1>4. failures \in Nat
  BY ServerListAssumption DEF Typed
<1>5. ~busy => ~Refreshing("act")
  BY CallTypes DEF busy, Single
<1> QED  BY <1>1, <1>2, <1>3, <1>4, <1>5 DEF Single

\* A dashboard that is not there keeps nothing.
LEMMA UnmountedIInv ==
  ASSUME IInv, Unmounted, UNCHANGED daemon,
         screen' \in {"offline", "onboarding"},
         calls' \in [Slots -> AppCalls],
         \A i \in Slots : calls'[i].kind = "none" => calls'[i] = NoCall
  PROVE  IInv'
<1>1. Typed'
  <2>1. 0 \in 0..(Threshold - 1)
    BY ServerListAssumption
  <2>3. action' \in ActionCalls /\ action' = NoCall /\ form' \in FormCalls /\ form' = NoCall
    BY CallTypes DEF Unmounted
  <2> QED  BY <2>1, <2>3, AnswerTypes DEF Unmounted, Typed, IInv
<1>2. Mounted'
  BY DEF Unmounted, Mounted, hook
<1>3. Single'
  BY DEF Unmounted, Single, Refreshing
<1>4. Ages'
  BY CallFacts, AnswerTypes, CallTypes DEF Unmounted, Ages
<1> QED  BY <1>1, <1>2, <1>3, <1>4 DEF IInv

\* A background refresh comes only while no action is in flight; a form's may
\* overtake an action's.
LEMMA BackgroundIInv ==
  ASSUME IInv, screen = "dashboard", ~busy, NEW filter \in BOOLEAN,
         Refresh("background", filter), filtering' \in BOOLEAN,
         UNCHANGED <<daemon, screen, calls, shown, failures, action, form>>
  PROVE  IInv'
<1> USE DEF IInv
<1>1. Typed'
  BY Refreshed DEF Typed
<1>2. Mounted'
  BY DEF Mounted
<1>3. \A r \in refreshes' : r.by # "act"
  BY Refreshed, CallFacts DEF Refreshing
<1>4. Single'
  BY <1>3, RefreshedOnce DEF Single, Refreshing
<1>5. Ages'
  BY <1>3 DEF Ages
<1> QED  BY <1>1, <1>2, <1>4, <1>5

\* Answering or losing a read changes nothing but that read; the daemon's list is no
\* older than any answer it gave.
LEMMA ReadIInv ==
  ASSUME IInv, NEW r \in refreshes, NEW a \in Answers,
         refreshes' = (refreshes \ {r}) \cup {[r EXCEPT !.list = a]},
         a.answer = "ok" => a.list.at >= daemon.at,
         screen = "dashboard",
         UNCHANGED <<daemon, screen, calls, shown, filtering, failures, action, form>>
  PROVE  IInv'
<1> USE DEF IInv
<1> DEFINE q == [r EXCEPT !.list = a]
<1>0. q \in RefreshCalls /\ q.list = a /\ q.by = r.by /\ q.latest = r.latest
  BY RefreshAnswered DEF Typed
<1>1. Typed'
  BY <1>0 DEF Typed
<1>2. Mounted'
  BY DEF Mounted
<1>3. \A s \in refreshes' : s # q => s \in refreshes /\ s # r
  OBVIOUS
<1>4. q \in refreshes' /\ \A s \in refreshes : s # r => s \in refreshes'
  OBVIOUS
<1> HIDE DEF q
<1>5. Single'
  BY <1>0, <1>3, <1>4 DEF Single, Refreshing
<1>6. Ages'
  <2> SUFFICES ASSUME NEW b \in refreshes', b.by = "act"
               PROVE  /\ \A s \in refreshes' :
                           s.latest /\ s.list.answer = "ok" =>
                             s.list.list.at >= action.call.list.at
                      /\ ~b.latest =>
                           /\ \/ shown.at >= action.call.list.at
                              \/ failures > 0
                              \/ \E f \in refreshes' : f.by = "form" /\ f.latest
                           /\ form.kind = "import" /\ form.call.answer = "ok" =>
                                form.call.list.at >= action.call.list.at
    BY DEF Ages
  <2>1. PICK b0 \in refreshes : b0.by = "act" /\ b0.latest = b.latest
    BY <1>0, <1>3
  <2>2. a.answer = "ok" => a.list.at >= action.call.list.at
    BY AnswerParts, CallFacts DEF Ages
  <2>3. \A s \in refreshes' :
          s.latest /\ s.list.answer = "ok" => s.list.list.at >= action.call.list.at
    BY <1>0, <1>3, <2>1, <2>2 DEF Ages
  <2>4. (\E f \in refreshes : f.by = "form" /\ f.latest) =>
          \E f \in refreshes' : f.by = "form" /\ f.latest
    BY <1>0, <1>4
  <2> QED  BY <2>1, <2>3, <2>4 DEF Ages
<1> QED  BY <1>1, <1>2, <1>5, <1>6

\* When a refresh has returned, a newer one that it did not take away is still there,
\* and what it put on the screen is no older than the action's answer.
LEMMA RefreshEndedIInv ==
  ASSUME IInv, NEW r \in refreshes, screen = "dashboard",
         refreshes' = refreshes \ {r}, Awaited(r),
         \/ /\ r.latest /\ r.list.answer = "ok"
            /\ shown' = r.list.list /\ failures' = 0
         \/ /\ r.latest /\ failures' = failures + 1 /\ failures + 1 < Threshold
            /\ UNCHANGED shown
         \/ ~r.latest /\ UNCHANGED <<shown, failures>>,
         UNCHANGED <<daemon, screen, calls, filtering>>
  PROVE  IInv'
<1> USE DEF IInv
<1>0. r \in RefreshCalls
  BY DEF Typed
<1>1. Typed'
  <2>1. failures' \in 0..(Threshold - 1)
    BY ServerListAssumption DEF Typed
  <2>2. shown' \in Lists
    BY <1>0, RefreshParts DEF Typed
  <2>3. (action' = action \/ action' = NoCall) /\ (form' = form \/ form' = NoCall)
    BY DEF Awaited
  <2> QED  BY <2>1, <2>2, <2>3, CallTypes DEF Typed
<1>2. Mounted'
  BY DEF Mounted
<1>3. /\ Refreshing("act")' => r.by # "act" /\ Refreshing("act") /\ action' = action
      /\ Refreshing("form")' => r.by # "form" /\ Refreshing("form") /\ form' = form
  BY <1>0, RefreshParts DEF Single, Refreshing, Awaited
<1>4. Single'
  BY <1>3 DEF Single, Refreshing
<1>5. Ages'
  <2>1. action'.call.list.at <= daemon'.at
    BY CallFacts, AnswerTypes, CallTypes DEF Awaited, Ages
  <2>2. ASSUME NEW a \in refreshes', a.by = "act"
        PROVE  /\ \A s \in refreshes' :
                    s.latest /\ s.list.answer = "ok" =>
                      s.list.list.at >= action'.call.list.at
               /\ ~a.latest =>
                    /\ \/ shown'.at >= action'.call.list.at
                       \/ failures' > 0
                       \/ \E f \in refreshes' : f.by = "form" /\ f.latest
                    /\ form'.kind = "import" /\ form'.call.answer = "ok" =>
                         form'.call.list.at >= action'.call.list.at
    <3>1. a \in refreshes /\ action' = action
      BY <1>3, <2>2 DEF Refreshing
    <3>2. \A s \in refreshes' :
            s.latest /\ s.list.answer = "ok" => s.list.list.at >= action'.call.list.at
      BY <2>2, <3>1 DEF Ages
    <3>3. form'.kind = "import" => form' = form
      BY CallTypes DEF Awaited
    <3>4. ASSUME ~a.latest
          PROVE  \/ shown'.at >= action.call.list.at
                 \/ failures' > 0
                 \/ \E f \in refreshes' : f.by = "form" /\ f.latest
      BY <2>2, <3>1, <3>4, CallFacts DEF Ages
    <3> QED  BY <2>2, <3>1, <3>2, <3>3, <3>4 DEF Ages
  <2> QED  BY <2>1, <2>2 DEF Ages
<1> QED  BY <1>1, <1>2, <1>4, <1>5

-----------------------------------------------------------------------------
LEMMA OnlyMounted ==
  ASSUME IInv, refreshes # {} \/ busy \/ form # NoCall
  PROVE  screen = "dashboard"
  BY DEF IInv, Mounted, hook, busy

\* What refreshes leave as it is, and the parts of an action or a form that change
\* while none of its own refreshes is in flight.
LEMMA NoReadIInv ==
  ASSUME IInv, Typed', Mounted', UNCHANGED refreshes,
         daemon'.at >= daemon.at,
         \/ UNCHANGED action
         \/ ~Refreshing("act") /\ action'.call.list.at <= daemon'.at,
         \/ UNCHANGED form
         \/ ~Refreshing("form"),
         Refreshing("act") =>
           /\ \/ UNCHANGED <<shown, failures>>
              \/ /\ \A a \in refreshes : ~a.latest /\ a.by = "act" =>
                      shown'.at >= action.call.list.at
                 /\ UNCHANGED failures
           /\ \/ UNCHANGED form
              \/ form'.kind = "import" /\ form'.call.answer = "ok" =>
                   form'.call.list.at >= daemon.at
  PROVE  IInv'
<1> USE DEF IInv
<1>1. Single'
  BY DEF Single, Refreshing
<1>2. Ages'
  <2>1. action'.call.list.at <= daemon'.at
    BY CallFacts, ListParts DEF Ages, Typed
  <2>2. ASSUME NEW a \in refreshes, a.by = "act"
        PROVE  /\ action' = action
               /\ UNCHANGED failures
               /\ shown' = shown \/ (~a.latest => shown'.at >= action.call.list.at)
               /\ \/ UNCHANGED form
                  \/ form'.kind = "import" /\ form'.call.answer = "ok" =>
                       form'.call.list.at >= daemon.at
    BY <2>2 DEF Refreshing
  <2>3. ASSUME form'.kind = "import" /\ form'.call.answer = "ok" =>
                 form'.call.list.at >= daemon.at,
               form'.kind = "import" /\ form'.call.answer = "ok"
        PROVE  form'.call.list.at >= action.call.list.at
    BY <2>3, CallFacts, AnswerParts DEF Ages, Typed, CallsOf, FormCalls
  <2> QED  BY <2>1, <2>2, <2>3 DEF Ages
<1> QED  BY <1>1, <1>2

LEMMA UsersIInv ==
  ASSUME IInv, Users
  PROVE  IInv'
<1> USE DEF IInv
<1>1. ASSUME NEW n \in Names, NEW kind \in {"switch", "remove"}, Act(kind, n)
      PROVE  IInv'
  <2>1. action' \in ActionCalls /\ action'.kind = kind /\ action'.call = NoAnswer
    BY <1>1, CallTypes DEF Act
  <2>2. Typed'
    BY <1>1, <2>1 DEF Act, Typed
  <2>3. Mounted'
    BY <1>1 DEF Act, Mounted
  <2>4. ~Refreshing("act") /\ action'.call.list.at <= daemon'.at
    BY <1>1, <2>1, CallFacts, AnswerTypes DEF Act
  <2> QED  BY <1>1, <2>2, <2>3, <2>4, NoReadIInv, CallFacts DEF Act
<1>2. CASE ActDisconnect
  <2>1. action' \in ActionCalls /\ action'.kind = "disconnect" /\ action'.call = NoAnswer
    BY <1>2, CallTypes DEF ActDisconnect
  <2>2. Typed'
    BY <1>2, <2>1 DEF ActDisconnect, Typed
  <2>3. Mounted'
    BY <1>2 DEF ActDisconnect, Mounted
  <2>4. ~Refreshing("act") /\ action'.call.list.at <= daemon'.at
    BY <1>2, <2>1, CallFacts, AnswerTypes DEF ActDisconnect
  <2> QED  BY <1>2, <2>2, <2>3, <2>4, NoReadIInv, CallFacts DEF ActDisconnect
<1>3. ASSUME NEW n \in Names, NEW kind \in Forms, Submit(kind, n)
      PROVE  IInv'
  <2>0. kind \in {"save", "import"}
    BY <1>3, ServerListAssumption
  <2>1. /\ form' \in FormCalls /\ form'.kind = kind /\ form'.name = n
        /\ form'.call = NoAnswer /\ form'.call.answer = "pending"
    BY <1>3, <2>0, CallTypes, AnswerTypes DEF Submit
  <2>2. Typed'
    BY <1>3, <2>0, <2>1 DEF Submit, Typed
  <2>3. Mounted'
    BY <1>3 DEF Submit, Mounted
  <2>4. ~Refreshing("form")
    BY <1>3, CallTypes DEF Submit, Single
  <2> QED  BY <1>3, <2>1, <2>2, <2>3, <2>4, NoReadIInv, CallFacts DEF Submit
<1>4. CASE SetQuery
  <2>1. filtering' \in BOOLEAN
    BY <1>4 DEF SetQuery, Typed
  <2>2. CASE filtering /\ ~busy
    BY <1>4, <2>1, <2>2, BackgroundIInv DEF SetQuery, BackgroundRefresh
  <2>3. CASE ~(filtering /\ ~busy)
    <3>1. UNCHANGED <<daemon, screen, calls, shown, refreshes, failures, action, form>>
      BY <1>4, <2>3 DEF SetQuery, BackgroundRefresh
    <3>2. Typed' /\ Mounted'
      BY <1>4, <2>1, <3>1 DEF SetQuery, Typed, Mounted
    <3> QED  BY <3>1, <3>2, NoReadIInv, CallFacts
  <2> QED  BY <2>2, <2>3
<1>5. CASE Retry
  <2>1. /\ calls' \in [Slots -> AppCalls] /\ Loading'
        /\ \A i \in Slots : calls'[i].kind = "none" => calls'[i] = NoCall
    BY <1>5, CallTypes, Sent DEF Retry
  <2>3. Typed' /\ Mounted'
    BY <1>5, <2>1 DEF Retry, Typed, Mounted, hook
  <2> QED  BY <1>5, <2>3, NoReadIInv, CallFacts DEF Retry, hook
<1>6. ASSUME NEW n \in Names, Onboarded(n)
      PROVE  IInv'
  <2>1. /\ calls' \in [Slots -> AppCalls]
        /\ \A i \in Slots : calls'[i].kind = "none" => calls'[i] = NoCall
    BY <1>6, CallTypes, Sent DEF Onboarded
  <2>3. daemon' \in Lists /\ daemon'.at >= daemon.at
    BY <1>6, HandledType, CallTypes DEF Onboarded
  <2>4. Typed' /\ Mounted'
    BY <1>6, <2>1, <2>3 DEF Onboarded, Typed, Mounted, hook
  <2> QED  BY <1>6, <2>3, <2>4, NoReadIInv, CallFacts DEF Onboarded, hook
<1> QED  BY <1>1, <1>2, <1>3, <1>4, <1>5, <1>6 DEF Users

LEMMA ServingIInv ==
  ASSUME IInv, Serving
  PROVE  IInv'
<1> USE DEF IInv
<1>1. ASSUME NEW r \in refreshes, ReadList(r)
      PROVE  IInv'
  <2>1. r.filter \in BOOLEAN
    BY RefreshParts DEF Typed
  <2>2. /\ Answer(Filtered(daemon, r.filter)) \in Answers
        /\ Answer(Filtered(daemon, r.filter)).list.at >= daemon.at
    BY <2>1, CallFacts, FilteredType, AnswerTypes
  <2>3. screen = "dashboard"
    BY OnlyMounted
  <2> QED  BY <1>1, <2>2, <2>3, ReadIInv DEF ReadList
<1>2. CASE HandleAct
  <2>1. ~Refreshing("act")
    BY <1>2, CallFacts, AnswerTypes DEF HandleAct
  <2>2. screen = "dashboard"
    BY <1>2, OnlyMounted DEF HandleAct
  <2>3. CASE /\ Known(action) /\ daemon' = Handled(action)
             /\ action' = [action EXCEPT !.call = Answer(daemon')]
    <3>1. action.name \in Names \/ action.kind = "disconnect"
      <4>1. action.kind \in {"switch", "disconnect", "remove"}
        BY <1>2 DEF HandleAct, busy, Typed, CallsOf, ActionCalls
      <4> QED  BY <2>3, <4>1, CallFacts, ListParts DEF Known
    <3>2. daemon' \in Lists /\ daemon'.at >= daemon.at
      BY <2>3, <3>1, HandledType
    <3>3. /\ action' \in ActionCalls /\ action'.kind = action.kind
          /\ action'.call.list = daemon'
      BY <2>3, <3>2, AnswerTypes, CallAnswered DEF Typed, ActionCalls
    <3>4. action.kind # "none"
      BY <1>2 DEF HandleAct, busy, Typed
    <3>5. Typed' /\ Mounted'
      BY <1>2, <2>2, <3>2, <3>3, <3>4 DEF HandleAct, Typed, Mounted
    <3>6. action'.call.list.at <= daemon'.at
      BY <3>2, <3>3, ListParts
    <3> QED  BY <1>2, <2>1, <3>2, <3>5, <3>6, NoReadIInv DEF HandleAct
  <2>4. CASE daemon' = daemon /\ action' = [action EXCEPT !.call = Failure]
    <3>1. /\ action' \in ActionCalls /\ action'.kind = action.kind
          /\ action'.call.list = Blank
      BY <2>4, AnswerTypes, CallAnswered DEF Typed, ActionCalls
    <3>2. action.kind # "none"
      BY <1>2 DEF HandleAct, busy, Typed
    <3>3. Typed' /\ Mounted'
      BY <1>2, <2>2, <2>4, <3>1, <3>2 DEF HandleAct, Typed, Mounted
    <3>4. action'.call.list.at <= daemon'.at /\ daemon'.at >= daemon.at
      BY <2>4, <3>1, AnswerTypes, CallFacts
    <3> QED  BY <1>2, <2>1, <3>3, <3>4, NoReadIInv DEF HandleAct
  <2> QED  BY <1>2, <2>3, <2>4 DEF HandleAct
<1>3. CASE HandleForm
  <2>1. ~Refreshing("form")
    BY <1>3, AnswerTypes DEF HandleForm, Single
  <2>2. screen = "dashboard"
    BY <1>3, OnlyMounted DEF HandleForm
  <2>3. form.kind # "none" /\ form.name \in Names
    BY <1>3 DEF HandleForm, Typed
  <2>4. CASE daemon' = Handled(form) /\ form' = [form EXCEPT !.call = Answer(daemon')]
    <3>1. daemon' \in Lists /\ daemon'.at >= daemon.at
      BY <2>3, <2>4, HandledType
    <3>2. /\ form' \in FormCalls /\ form'.kind = form.kind /\ form'.name = form.name
          /\ form'.call.list = daemon'
      BY <2>4, <3>1, AnswerTypes, CallAnswered DEF Typed, FormCalls
    <3>3. Typed' /\ Mounted'
      BY <1>3, <2>2, <2>3, <3>1, <3>2 DEF HandleForm, Typed, Mounted
    <3> QED  BY <1>3, <2>1, <3>1, <3>2, <3>3, NoReadIInv DEF HandleForm
  <2>5. CASE daemon' = daemon /\ form' = [form EXCEPT !.call = Failure]
    <3>1. /\ form' \in FormCalls /\ form'.kind = form.kind /\ form'.name = form.name
          /\ form'.call.answer = "failed"
      BY <2>5, AnswerTypes, CallAnswered DEF Typed, FormCalls
    <3>2. Typed' /\ Mounted'
      BY <1>3, <2>2, <2>3, <2>5, <3>1 DEF HandleForm, Typed, Mounted
    <3>3. daemon'.at >= daemon.at
      BY <2>5, CallFacts
    <3> QED  BY <1>3, <2>1, <3>1, <3>2, <3>3, NoReadIInv DEF HandleForm
  <2> QED  BY <1>3, <2>4, <2>5 DEF HandleForm
<1>4. ASSUME NEW i \in Slots, HandleLoad(i)
      PROVE  IInv'
  <2>1. PICK a \in Answers : calls' = [calls EXCEPT ![i].call = a]
    BY <1>4, AnswerTypes, CallFacts DEF HandleLoad
  <2>2. calls[i] \in AppCalls /\ calls[i].kind = "load"
    BY <1>4, CallTypes DEF HandleLoad
  <2>3. [calls[i] EXCEPT !.call = a] \in AppCalls
        /\ [calls[i] EXCEPT !.call = a].kind = "load"
    BY <2>2, CallAnswered DEF AppCalls
  <2>4. calls' = [calls EXCEPT ![i] = [calls[i] EXCEPT !.call = a]]
    BY <2>1
  <2>5. /\ calls' \in [Slots -> AppCalls] /\ Loading'
        /\ \A j \in Slots : calls'[j].kind = "none" => calls'[j] = NoCall
    BY <2>3, <2>4, CallReplaced
  <2>6. Typed' /\ Mounted'
    BY <1>4, <2>5 DEF HandleLoad, Typed, Mounted, hook
  <2>7. daemon'.at >= daemon.at
    BY <1>4, CallFacts DEF HandleLoad
  <2> QED  BY <1>4, <2>6, <2>7, NoReadIInv DEF HandleLoad, hook
<1>5. ASSUME NEW i \in Slots, HandleRemoval(i)
      PROVE  IInv'
  <2>1. daemon' \in Lists /\ daemon'.at >= daemon.at
    <3>1. CASE Known(calls[i]) /\ daemon' = Handled(calls[i])
      <4>1. calls[i].name \in Names
        BY <1>5, <3>1, CallFacts, ListParts DEF HandleRemoval, Known
      <4> QED  BY <3>1, <4>1, HandledType
    <3> QED  BY <1>5, <3>1, CallFacts DEF HandleRemoval
  <2>2. PICK a \in Answers : calls' = [calls EXCEPT ![i].call = a]
    BY <1>5, <2>1, AnswerTypes DEF HandleRemoval
  <2>3. calls[i] \in AppCalls /\ calls[i].kind = "remove"
    BY <1>5 DEF HandleRemoval, Typed
  <2>4. [calls[i] EXCEPT !.call = a] \in AppCalls
        /\ [calls[i] EXCEPT !.call = a].kind = "remove"
    BY <2>3, CallAnswered DEF AppCalls
  <2>5. calls' = [calls EXCEPT ![i] = [calls[i] EXCEPT !.call = a]]
    BY <2>2
  <2>6. /\ calls' \in [Slots -> AppCalls] /\ Loading' = Loading
        /\ \A j \in Slots : calls'[j].kind = "none" => calls'[j] = NoCall
    BY <2>3, <2>4, <2>5, CallReplaced
  <2>7. Typed' /\ Mounted'
    BY <1>5, <2>1, <2>6 DEF HandleRemoval, Typed, Mounted, hook
  <2> QED  BY <1>5, <2>1, <2>7, NoReadIInv DEF HandleRemoval, hook
<1> QED  BY <1>1, <1>2, <1>3, <1>4, <1>5 DEF Serving

LEMMA OthersIInv ==
  ASSUME IInv, Poll \/ OtherClient \/ \E r \in refreshes : LoseRead(r)
  PROVE  IInv'
<1> USE DEF IInv
<1>1. CASE Poll
  BY <1>1, BackgroundIInv DEF Poll, Typed
<1>2. CASE OtherClient
  <2>1. daemon' \in Lists /\ daemon'.at >= daemon.at
    BY <1>2, HandledType, CallTypes DEF OtherClient
  <2>2. Typed' /\ Mounted'
    BY <1>2, <2>1 DEF OtherClient, Typed, Mounted, Loading, Slots, hook
  <2> QED  BY <1>2, <2>1, <2>2, NoReadIInv DEF OtherClient, hook
<1>3. ASSUME NEW r \in refreshes, LoseRead(r)
      PROVE  IInv'
  <2>1. screen = "dashboard"
    BY OnlyMounted
  <2> QED  BY <1>3, <2>1, ReadIInv, AnswerTypes DEF LoseRead
<1> QED  BY <1>1, <1>2, <1>3

LEMMA ContinuingIInv ==
  ASSUME IInv, Continuing
  PROVE  IInv'
<1> USE DEF IInv
<1>1. ASSUME NEW r \in refreshes, RefreshDone(r)
      PROVE  IInv'
  <2>1. screen = "dashboard"
    BY OnlyMounted
  <2>2. r.latest \in BOOLEAN
    BY RefreshParts DEF Typed
  <2> QED  BY <1>1, <2>1, <2>2, RefreshEndedIInv DEF RefreshDone
<1>2. ASSUME NEW r \in refreshes, RefreshFailed(r)
      PROVE  IInv'
  <2>1. screen = "dashboard"
    BY OnlyMounted
  <2>2. CASE r.latest /\ failures + 1 >= Threshold
    <3>1. /\ calls' \in [Slots -> AppCalls]
          /\ \A i \in Slots : calls'[i].kind = "none" => calls'[i] = NoCall
      <4>1. CASE action.kind = "remove"
        <5>1. action \in AppCalls
          BY <4>1 DEF Typed, CallsOf, AppCalls, ActionCalls
        <5> QED  BY <1>2, <2>2, <4>1, <5>1, Sent DEF RefreshFailed
      <4>2. CASE action.kind # "remove"
        BY <1>2, <2>2, <4>2 DEF RefreshFailed, Typed
      <4> QED  BY <4>1, <4>2
    <3> QED  BY <1>2, <2>2, <3>1, UnmountedIInv DEF RefreshFailed
  <2>3. CASE ~(r.latest /\ failures + 1 >= Threshold)
    <3>1. r.latest \in BOOLEAN
      BY RefreshParts DEF Typed
    <3>2. r.latest => failures + 1 < Threshold
      BY <2>3, CallFacts, ServerListAssumption
    <3> QED  BY <1>2, <2>1, <2>3, <3>1, <3>2, RefreshEndedIInv DEF RefreshFailed
  <2> QED  BY <2>2, <2>3
<1>3. CASE ActRefreshes
  <2>1. screen = "dashboard" /\ filtering \in BOOLEAN
    BY <1>3, CallTypes, OnlyMounted DEF ActRefreshes, busy, Typed
  <2>2. Refresh("act", filtering) /\ ~Refreshing("act")
    BY <1>3 DEF ActRefreshes
  <2>3. Typed' /\ Mounted'
    BY <1>3, <2>1, <2>2, Refreshed DEF ActRefreshes, Typed, Mounted
  <2>4. Single'
    BY <1>3, <2>1, <2>2, RefreshedOnce DEF ActRefreshes, Single, Refreshing
  <2>5. \A r \in refreshes' : /\ r.latest => r.list = NoAnswer
                              /\ r.by = "act" => r.latest
    BY <2>1, <2>2, Refreshed DEF Refreshing
  <2>6. Ages'
    BY <1>3, <2>5, AnswerTypes DEF ActRefreshes, Ages
  <2> QED  BY <2>3, <2>4, <2>6
<1>4. CASE Removed
  <2>1. ~Refreshing("act")
    BY <1>4, CallFacts DEF Removed
  <2>2. screen = "dashboard"
    BY <1>4, CallTypes, OnlyMounted DEF Removed, busy
  <2>3. /\ calls' \in [Slots -> AppCalls]
        /\ \A i \in Slots : calls'[i].kind = "none" => calls'[i] = NoCall
    BY <1>4, CallTypes, Sent DEF Removed, Typed
  <2>4. shown' \in Lists
    BY <1>4, CallFacts DEF Removed, Typed
  <2>5. Typed' /\ Mounted'
    BY <1>4, <2>2, <2>3, <2>4, CallTypes DEF Removed, Typed, Mounted
  <2>6. action'.call.list.at <= daemon'.at /\ daemon'.at >= daemon.at
    BY <1>4, CallFacts, CallTypes, AnswerTypes DEF Removed
  <2> QED  BY <1>4, <2>1, <2>5, <2>6, NoReadIInv DEF Removed
<1>5. CASE ActFailed
  <2>1. ~Refreshing("act")
    BY <1>5, CallFacts DEF ActFailed
  <2>2. screen = "dashboard"
    BY <1>5, CallTypes, AnswerTypes, OnlyMounted DEF ActFailed, busy
  <2>3. Typed' /\ Mounted'
    BY <1>5, <2>2, CallTypes DEF ActFailed, Typed, Mounted
  <2>4. action'.call.list.at <= daemon'.at /\ daemon'.at >= daemon.at
    BY <1>5, CallFacts, CallTypes, AnswerTypes DEF ActFailed
  <2> QED  BY <1>5, <2>1, <2>3, <2>4, NoReadIInv DEF ActFailed
<1>6. CASE FormSaved
  <2>1. screen = "dashboard" /\ filtering \in BOOLEAN
    BY <1>6, CallTypes, OnlyMounted DEF FormSaved, Typed
  <2>2. Refresh("form", filtering) /\ ~Refreshing("form")
    BY <1>6 DEF FormSaved
  <2>3. Typed' /\ Mounted'
    BY <1>6, <2>1, <2>2, Refreshed DEF FormSaved, Typed, Mounted
  <2>4. Single'
    BY <1>6, <2>1, <2>2, RefreshedOnce DEF FormSaved, Single, Refreshing
  <2>5. /\ \A r \in refreshes' : r.latest => r.list = NoAnswer
        /\ \E f \in refreshes' : f.by = "form" /\ f.latest
        /\ \A r \in refreshes' : r.by = "act" => ~r.latest
    BY <2>1, <2>2, Refreshed
  <2>6. Ages'
    BY <1>6, <2>5, AnswerTypes DEF FormSaved, Ages
  <2> QED  BY <2>3, <2>4, <2>6
<1>7. CASE Imported
  <2>1. ~Refreshing("form")
    BY <1>7 DEF Imported, Single
  <2>2. screen = "dashboard"
    BY <1>7, CallTypes, OnlyMounted DEF Imported
  <2>3. Typed' /\ Mounted'
    BY <1>7, <2>2, CallTypes, CallFacts DEF Imported, Typed, Mounted
  <2>4. \A a \in refreshes : ~a.latest /\ a.by = "act" =>
          shown'.at >= action.call.list.at
    BY <1>7 DEF Imported, Ages
  <2>5. daemon'.at >= daemon.at /\ form'.kind = "none"
    BY <1>7, CallFacts, CallTypes DEF Imported
  <2> QED  BY <1>7, <2>1, <2>3, <2>4, <2>5, NoReadIInv DEF Imported
<1>8. CASE FormFailed
  <2>1. ~Refreshing("form")
    BY <1>8 DEF FormFailed, Single
  <2>2. screen = "dashboard"
    BY <1>8, CallTypes, AnswerTypes, OnlyMounted DEF FormFailed
  <2>3. Typed' /\ Mounted'
    BY <1>8, <2>2, CallTypes DEF FormFailed, Typed, Mounted
  <2>4. daemon'.at >= daemon.at /\ form'.kind = "none"
    BY <1>8, CallFacts, CallTypes DEF FormFailed
  <2> QED  BY <1>8, <2>1, <2>3, <2>4, NoReadIInv DEF FormFailed
<1>9. ASSUME NEW i \in Slots, Loaded(i)
      PROVE  IInv'
  <2>0. /\ calls' \in [Slots -> AppCalls]
        /\ \A j \in Slots : calls'[j].kind = "none" => calls'[j] = NoCall
    <3>1. PICK c \in {LeftBehind, NoCall} : calls' = [calls EXCEPT ![i] = c]
      BY <1>9 DEF Loaded
    <3>2. c \in AppCalls /\ (c.kind = "none" => c = NoCall)
      BY LeftBehindType, CallTypes
    <3> QED  BY <3>1, <3>2, CallReplaced
  <2>1. CASE screen' = "onboarding"
    <3>1. Unmounted
      BY <1>9, <2>1 DEF Loaded
    <3>2. UNCHANGED daemon
      BY <1>9 DEF Loaded
    <3> QED  BY <2>0, <2>1, <3>1, <3>2, UnmountedIInv
  <2>2. CASE screen = "dashboard" /\ screen' = "dashboard"
    <3>1. UNCHANGED <<daemon, shown, filtering, refreshes, failures, action, form>>
      BY <1>9, <2>2 DEF Loaded, hook
    <3>2. Typed' /\ Mounted'
      BY <2>0, <2>2, <3>1, CallTypes DEF Typed, Mounted, hook
    <3> QED  BY <3>1, <3>2, NoReadIInv, CallFacts
  <2>3. CASE screen # "dashboard" /\ screen' = "dashboard"
    <3> DEFINE new == NewRefresh("background", FALSE)
    <3>1. action = NoCall /\ form = NoCall /\ ~Refreshing("act") /\ ~Refreshing("form")
      BY <2>3, OnlyMounted DEF busy, Refreshing
    <3>2. refreshes' = {new} \cup Superseded({new})
          /\ UNCHANGED <<daemon, shown, filtering, failures, action, form>>
      BY <1>9, <2>3 DEF Loaded
    <3>3. new \in RefreshCalls /\ new.by = "background" /\ new.latest /\ new.list = NoAnswer
      BY AnswerTypes DEF NewRefresh, RefreshCalls
    <3>4. /\ [new EXCEPT !.latest = FALSE] \in RefreshCalls
          /\ [new EXCEPT !.latest = FALSE].by = "background"
          /\ ~[new EXCEPT !.latest = FALSE].latest
      BY <3>3 DEF RefreshCalls
    <3>5. refreshes' = {new, [new EXCEPT !.latest = FALSE]}
      BY <3>2 DEF Superseded
    <3> HIDE DEF new
    <3>6. Typed' /\ Mounted'
      BY <2>0, <2>3, <3>2, <3>3, <3>4, <3>5, CallTypes DEF Typed, Mounted
    <3>7. \A r \in refreshes' : r.by = "background"
      BY <3>3, <3>4, <3>5
    <3>8. Single'
      BY <3>3, <3>4, <3>5, <3>7 DEF Single, Refreshing
    <3>9. Ages'
      BY <3>2, <3>7 DEF Ages
    <3> QED  BY <3>6, <3>8, <3>9
  <2>4. screen' \in {"onboarding", "dashboard"}
    BY <1>9 DEF Loaded
  <2> QED  BY <2>1, <2>2, <2>3, <2>4
<1>10. ASSUME NEW i \in Slots, LoadFailed(i)
       PROVE  IInv'
  <2>1. /\ calls' \in [Slots -> AppCalls]
        /\ \A j \in Slots : calls'[j].kind = "none" => calls'[j] = NoCall
    BY <1>10, LeftBehindType, CallReplaced DEF LoadFailed
  <2> QED  BY <1>10, <2>1, UnmountedIInv DEF LoadFailed
<1>11. ASSUME NEW i \in Slots, LateRemoved(i)
       PROVE  IInv'
  <2>1. PICK c \in {Load, NoCall} : calls' = [calls EXCEPT ![i] = c]
    BY <1>11 DEF LateRemoved
  <2>2. c \in AppCalls /\ (c.kind = "none" => c = NoCall)
    BY CallTypes
  <2>3. /\ calls' \in [Slots -> AppCalls]
        /\ \A j \in Slots : calls'[j].kind = "none" => calls'[j] = NoCall
    BY <2>1, <2>2, CallReplaced
  <2>4. Loading => Loading'
    <3>1. calls[i].kind = "remove"
      BY <1>11 DEF LateRemoved
    <3> QED  BY <2>1, <3>1, CallTypes DEF Loading, Typed
  <2>5. Typed' /\ Mounted'
    BY <1>11, <2>3, <2>4 DEF LateRemoved, Typed, Mounted, hook
  <2>6. daemon'.at >= daemon.at
    BY <1>11, CallFacts DEF LateRemoved
  <2> QED  BY <1>11, <2>5, <2>6, NoReadIInv DEF LateRemoved, hook
<1> QED
  BY <1>1, <1>2, <1>3, <1>4, <1>5, <1>6, <1>7, <1>8, <1>9, <1>10, <1>11 DEF Continuing

-----------------------------------------------------------------------------
LEMMA StepIInv == IInv /\ [Next]_vars => IInv'
<1> SUFFICES ASSUME IInv, [Next]_vars PROVE IInv'
  OBVIOUS
<1>1. CASE UNCHANGED vars
  BY <1>1 DEF vars, hook, IInv, Typed, Mounted, Single, Ages, Refreshing, Loading
<1> QED  BY <1>1, UsersIInv, ServingIInv, ContinuingIInv, OthersIInv DEF Next

LEMMA IInvTypeOK == IInv => TypeOK
<1> SUFFICES ASSUME IInv PROVE TypeOK
  OBVIOUS
<1> DEFINE latest == {r \in refreshes : r.latest}
<1>1. latest = {} \/ \E r : latest = {r}
  BY DEF IInv, Single
<1>2. Cardinality(latest) <= 1
  <2>1. CASE latest = {}
    BY <2>1, FS_EmptySet
  <2>2. ASSUME NEW r, latest = {r}
        PROVE  Cardinality(latest) <= 1
    <3>1. Cardinality({r}) = 1
      BY FS_Singleton
    <3> QED  BY <2>2, <3>1
  <2> QED  BY <1>1, <2>1, <2>2
<1>3. Refreshing("act") => busy
  BY CallTypes DEF IInv, Single, busy
<1> QED  BY <1>2, <1>3 DEF IInv, Typed, Mounted, Single, TypeOK

\* The list, the calls in flight and the screen are what the code takes them for: one
\* refresh at most is the latest, an action's refresh is awaited while it is busy and a
\* form's while it is saving, and a dashboard that is gone waits for nothing.
THEOREM TypeCorrect == Spec => []TypeOK
<1>1. Spec => []IInv
  BY InitIInv, StepIInv, PTL DEF Spec
<1> QED  BY <1>1, IInvTypeOK, PTL

\* One step of ActionShown: only the action's own refresh ends a switch or disconnect
\* that succeeded, and by then its effect is shown, a read has failed, or a form's read
\* has overtaken it.
LEMMA ShownStep ==
  ASSUME IInv, Next, action.kind \in {"switch", "disconnect"}, action.call.answer = "ok",
         action' = NoCall, screen' = "dashboard"
  PROVE  \/ shown'.at >= action.call.list.at
         \/ failures' > 0
         \/ \E r \in refreshes' : r.by = "form"
<1>0. busy
  BY CallTypes DEF busy
<1>1. \E r \in refreshes : r.by = "act" /\ (RefreshDone(r) \/ RefreshFailed(r))
  <2>1. screen = "dashboard" /\ action # NoCall
    BY <1>0, OnlyMounted DEF busy
  <2>2. ~Users
    BY <1>0, <2>1, CallTypes DEF Users, Act, ActDisconnect, Submit, SetQuery, Retry, Onboarded
  <2>3. ~Serving
    BY <2>1, AnswerTypes DEF Serving, ReadList, HandleAct, HandleForm, HandleLoad,
                            HandleRemoval, hook
  <2>4. ~Poll /\ ~OtherClient /\ ~\E r \in refreshes : LoseRead(r)
    BY <2>1 DEF Poll, OtherClient, LoseRead, hook
  <2>5. \E r \in refreshes : RefreshDone(r) \/ RefreshFailed(r)
    BY <2>1, <2>2, <2>3, <2>4
       DEF Next, Continuing, ActRefreshes, Removed, ActFailed, FormSaved, Imported,
           FormFailed, Loaded, LoadFailed, LateRemoved, hook, Unmounted
  <2> QED  BY <2>1, <2>5 DEF RefreshDone, RefreshFailed, Awaited
<1>2. PICK r \in refreshes : r.by = "act" /\ (RefreshDone(r) \/ RefreshFailed(r))
  BY <1>1
<1>3. r.latest \in BOOLEAN
  BY RefreshParts DEF IInv, Typed
<1>4. CASE RefreshDone(r)
  <2>1. CASE r.latest
    BY <1>2, <1>4, <2>1 DEF RefreshDone, IInv, Ages
  <2>2. CASE ~r.latest
    BY <1>2, <1>4, <2>2 DEF RefreshDone, IInv, Ages
  <2> QED  BY <2>1, <2>2
<1>5. CASE RefreshFailed(r)
  <2>1. CASE r.latest
    BY <1>5, <2>1, CallFacts DEF RefreshFailed
  <2>2. CASE ~r.latest
    BY <1>2, <1>5, <2>2 DEF RefreshFailed, IInv, Ages
  <2> QED  BY <2>1, <2>2
<1> QED  BY <1>2, <1>4, <1>5

\* "Run an action, then re-read state" (useServerList.act), whatever polls, forms, lost
\* reads and other clients come between: a switch or disconnect that succeeded is never
\* released while the list shown is older than it, unless a read failed or a form's own
\* read is still to come.
THEOREM ActionShownHolds == Spec => ActionShown
<1>1. IInv /\ [Next]_vars =>
        [action.kind \in {"switch", "disconnect"} /\ action.call.answer = "ok"
           /\ action' = NoCall /\ screen' = "dashboard" =>
             \/ shown'.at >= action.call.list.at
             \/ failures' > 0
             \/ \E r \in refreshes' : r.by = "form"]_vars
  BY ShownStep
<1> QED  BY <1>1, InitIInv, StepIInv, PTL DEF Spec, ActionShown

=============================================================================
