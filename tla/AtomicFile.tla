----------------------------- MODULE AtomicFile -----------------------------
(***************************************************************************)
(* What Store::save promises (daemon/src/config.rs): the state file is     *)
(* replaced as a whole, a save answered Ok survives a power loss, and one  *)
(* answered Err, or cut short, may or may not have taken place.  Store     *)
(* implements it; Daemon is built on it.                                   *)
(***************************************************************************)
CONSTANTS Values, NoValue

VARIABLES
  content,   \* what a reader of the file gets
  maybe,     \* what it may get after a power loss
  saving,    \* the value of the save under way
  saved      \* how the last save ended

afvars == <<content, maybe, saving, saved>>

AfInit(first) ==
  /\ content = first
  /\ maybe = {first}
  /\ saving = NoValue
  /\ saved = "none"

BeginSave(v) ==
  /\ saving = NoValue
  /\ saving' = v
  /\ saved' = "none"
  /\ UNCHANGED <<content, maybe>>

Replace ==
  /\ saving # NoValue
  /\ content' = saving
  /\ maybe' = maybe \cup {saving}
  /\ UNCHANGED <<saving, saved>>

SaveOk ==
  /\ saving # NoValue
  /\ content = saving
  /\ maybe' = {saving}
  /\ saving' = NoValue
  /\ saved' = "ok"
  /\ UNCHANGED content

SaveFailed ==
  /\ saving # NoValue
  /\ saving' = NoValue
  /\ saved' = "failed"
  /\ UNCHANGED <<content, maybe>>

SaveCut ==
  /\ saving' = NoValue
  /\ saved' = "none"
  /\ UNCHANGED <<content, maybe>>

PowerCut ==
  /\ content' \in maybe
  /\ maybe' = {content'}
  /\ saving' = NoValue
  /\ saved' = "none"

SaveCall == Replace \/ SaveOk \/ SaveFailed

AfNext ==
  \/ \E v \in Values : BeginSave(v)
  \/ SaveCall
  \/ SaveCut
  \/ PowerCut

AfSpec == (\E first \in Values : AfInit(first)) /\ [][AfNext]_afvars
=============================================================================
