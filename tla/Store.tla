------------------------------- MODULE Store -------------------------------
(***************************************************************************)
(* Store::save and Store::load (daemon/src/config.rs): the state file is   *)
(* written to a temporary sibling, synced, renamed into place, and its     *)
(* directory synced.  The process may be stopped, and the machine lose     *)
(* power, between any two of these; each may fail.                         *)
(*                                                                         *)
(* The file system is external: a read sees the page cache; after a power  *)
(* loss a file that was not synced may be torn, and a rename whose         *)
(* directory was not synced may be undone.                                 *)
(***************************************************************************)
CONSTANTS
  Values,    \* the configurations; a missing file reads as the empty one
  NoValue,
  Torn       \* a file cut short

ASSUME StoreAssumption ==
  /\ NoValue \notin Values
  /\ Torn \notin Values \cup {NoValue}

VARIABLES
  path,    \* what the state file holds
  kept,    \* what it may hold after a power loss
  tmp,     \* the temporary file: its data, and whether it was synced
  pc,      \* the next step of save, "Idle" outside of it
  value,   \* the configuration being saved, or saved last
  saved    \* how the last save ended

vars == <<path, kept, tmp, pc, value, saved>>

NoFile == [data |-> NoValue, synced |-> FALSE]
TornFile == [data |-> Torn, synced |-> FALSE]

Init ==
  /\ path \in Values
  /\ kept = {path}
  /\ tmp = NoFile
  /\ pc = "Idle"
  /\ value = NoValue
  /\ saved = "none"

Fail_GoesOn ==
  /\ pc' = pc
  /\ saved' = "failed"

Fail ==
  /\ pc' = "Idle"
  /\ saved' = "failed"

Save(v) ==
  /\ pc = "Idle"
  /\ pc' = "Open"
  /\ value' = v
  /\ saved' = "none"
  /\ UNCHANGED <<path, kept, tmp>>

\* create_dir_all, then open with truncation: what an earlier save left is gone.
Open ==
  /\ pc = "Open"
  /\ \/ tmp' = TornFile /\ pc' = "Write" /\ saved' = saved
     \/ tmp' = tmp /\ Fail
  /\ UNCHANGED <<path, kept, value>>

Write ==
  /\ pc = "Write"
  /\ \/ tmp' = [data |-> value, synced |-> FALSE] /\ pc' = "Sync" /\ saved' = saved
     \/ tmp' = TornFile /\ Fail
  /\ UNCHANGED <<path, kept, value>>

Sync_Skipped ==
  /\ pc = "Sync"
  /\ pc' = "Rename"
  /\ UNCHANGED <<path, kept, tmp, value, saved>>

Sync ==
  /\ pc = "Sync"
  /\ \/ tmp' = [tmp EXCEPT !.synced = TRUE] /\ pc' = "Rename" /\ saved' = saved
     \/ tmp' = tmp /\ Fail
  /\ UNCHANGED <<path, kept, value>>

Rename ==
  /\ pc = "Rename"
  /\ \/ /\ path' = tmp.data
        /\ kept' = kept \cup {tmp.data} \cup (IF tmp.synced THEN {} ELSE {Torn})
        /\ tmp' = NoFile
        /\ pc' = "SyncDir"
        /\ saved' = saved
     \/ Fail /\ UNCHANGED <<path, kept, tmp>>
  /\ UNCHANGED value

SyncDir_Skipped ==
  /\ pc = "SyncDir"
  /\ pc' = "Idle"
  /\ saved' = "ok"
  /\ UNCHANGED <<path, kept, tmp, value>>

\* save skips this for a path without a directory; main's path is absolute.
SyncDir ==
  /\ pc = "SyncDir"
  /\ \/ kept' = {path} /\ pc' = "Idle" /\ saved' = "ok"
     \/ kept' = kept /\ Fail
  /\ UNCHANGED <<path, tmp, value>>

\* The signal handler exits; the files stay.
Exit ==
  /\ pc' = "Idle"
  /\ saved' = "none"
  /\ UNCHANGED <<path, kept, tmp, value>>

PowerLoss ==
  /\ path' \in kept
  /\ kept' = {path'}
  /\ tmp' \in {tmp, NoFile} \cup (IF tmp.synced THEN {} ELSE {TornFile})
  /\ pc' = "Idle"
  /\ saved' = "none"
  /\ UNCHANGED value

Next ==
  \/ \E v \in Values : Save(v)
  \/ Open \/ Write \/ Sync \/ Rename \/ SyncDir
  \/ Exit \/ PowerLoss

Spec == Init /\ [][Next]_vars

-----------------------------------------------------------------------------
Contents == Values \cup {Torn}
TmpFiles == [data : Contents \cup {NoValue}, synced : BOOLEAN]

TypeOK ==
  /\ path \in Contents
  /\ kept \subseteq Contents
  /\ tmp \in TmpFiles
  /\ pc \in {"Idle", "Open", "Write", "Sync", "Rename", "SyncDir"}
  /\ value \in Values \cup {NoValue}
  /\ pc # "Idle" => value \in Values
  /\ saved \in {"none", "ok", "failed"}
  /\ pc # "Idle" => saved = "none"

\* "A reader sees either the old file or the new one": Store::load, whenever it runs
\* and whatever was lost, finds a whole configuration, so the daemon can start.
LoadSucceeds == path \in Values /\ kept \subseteq Values

\* "The directory fsync gives durability": once save has answered Ok, a power loss
\* cannot bring an older configuration back.
SavedIsDurable == pc = "Idle" /\ saved = "ok" => path = value /\ kept = {value}

\* What each step of save may rely on.
Sequencing ==
  /\ path \in kept
  /\ pc \in {"Sync", "Rename"} => tmp.data = value
  /\ pc = "Rename" => tmp.synced
  /\ pc = "SyncDir" => path = value

File == INSTANCE AtomicFile WITH
  content <- path,
  maybe <- kept,
  saving <- IF pc = "Idle" THEN NoValue ELSE value

\* save and load implement an atomically replaced, durable file.
ImplementsAtomicFile == File!AfSpec
=============================================================================
