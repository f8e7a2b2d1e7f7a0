---------------------------- MODULE Store_proofs ----------------------------
(***************************************************************************)
(* Proofs about Store, for every set of configurations.                    *)
(***************************************************************************)
EXTENDS Store, TLAPS

\* What save relies on from one step to the next, with what it achieves.
IInv == TypeOK /\ Sequencing /\ LoadSucceeds /\ SavedIsDurable

LEMMA InitStep == Init => IInv
  BY StoreAssumption
  DEF Init, IInv, TypeOK, Sequencing, LoadSucceeds, SavedIsDurable, NoFile, Contents,
      TmpFiles

LEMMA TypeStep == IInv /\ [Next]_vars => TypeOK'
<1> SUFFICES ASSUME IInv, [Next]_vars PROVE TypeOK'
  OBVIOUS
<1> USE StoreAssumption
<1> USE DEF IInv, TypeOK, Contents, Fail
<1>a. NoFile \in TmpFiles /\ TornFile \in TmpFiles
  BY DEF NoFile, TornFile, TmpFiles
<1>b. value \in Values => [data |-> value, synced |-> FALSE] \in TmpFiles
  BY DEF TmpFiles
<1>c. [tmp EXCEPT !.synced = TRUE] \in TmpFiles
  BY DEF TmpFiles
<1>1. ASSUME NEW v \in Values, Save(v) PROVE TypeOK'
  BY <1>1 DEF Save
<1>2. CASE Open
  BY <1>a, <1>2 DEF Open
<1>3. CASE Write
  BY <1>a, <1>b, <1>3 DEF Write
<1>4. CASE Sync
  BY <1>c, <1>4 DEF Sync
<1>5. CASE Rename
  BY <1>a, <1>5 DEF Rename, Sequencing
<1>6. CASE SyncDir
  BY <1>6 DEF SyncDir
<1>7. CASE Exit
  BY <1>7 DEF Exit
<1>8. CASE PowerLoss
  <2>1. tmp' \in TmpFiles
    BY <1>a, <1>8 DEF PowerLoss
  <2> QED
    BY <1>8, <2>1 DEF PowerLoss
<1>9. CASE UNCHANGED vars
  BY <1>9 DEF vars
<1> QED
  BY <1>1, <1>2, <1>3, <1>4, <1>5, <1>6, <1>7, <1>8, <1>9 DEF Next

LEMMA SequencingStep == IInv /\ [Next]_vars => Sequencing'
<1> SUFFICES ASSUME IInv, [Next]_vars PROVE Sequencing'
  OBVIOUS
<1> USE StoreAssumption
<1> USE DEF IInv, Sequencing, TypeOK, NoFile, TornFile, Fail
<1>1. ASSUME NEW v \in Values, Save(v) PROVE Sequencing'
  BY <1>1 DEF Save
<1>2. CASE Open
  BY <1>2 DEF Open
<1>3. CASE Write
  BY <1>3 DEF Write
<1>4. CASE Sync
  BY <1>4 DEF Sync, TmpFiles
<1>5. CASE Rename
  BY <1>5 DEF Rename
<1>6. CASE SyncDir
  BY <1>6 DEF SyncDir
<1>7. CASE Exit
  BY <1>7 DEF Exit
<1>8. CASE PowerLoss
  BY <1>8 DEF PowerLoss
<1>9. CASE UNCHANGED vars
  BY <1>9 DEF vars
<1> QED
  BY <1>1, <1>2, <1>3, <1>4, <1>5, <1>6, <1>7, <1>8, <1>9 DEF Next

\* The heart of the protocol is Rename: it exposes the temporary file's data, which
\* by then is the whole value, on disk.
LEMMA LoadStep == IInv /\ [Next]_vars => LoadSucceeds'
<1> SUFFICES ASSUME IInv, [Next]_vars PROVE LoadSucceeds'
  OBVIOUS
<1> USE StoreAssumption
<1> USE DEF IInv, LoadSucceeds, TypeOK, Sequencing, Fail
<1>1. ASSUME NEW v \in Values, Save(v) PROVE LoadSucceeds'
  BY <1>1 DEF Save
<1>2. CASE Open
  BY <1>2 DEF Open
<1>3. CASE Write
  BY <1>3 DEF Write
<1>4. CASE Sync
  BY <1>4 DEF Sync
<1>5. CASE Rename
  BY <1>5 DEF Rename
<1>6. CASE SyncDir
  BY <1>6 DEF SyncDir
<1>7. CASE Exit
  BY <1>7 DEF Exit
<1>8. CASE PowerLoss
  BY <1>8 DEF PowerLoss
<1>9. CASE UNCHANGED vars
  BY <1>9 DEF vars
<1> QED
  BY <1>1, <1>2, <1>3, <1>4, <1>5, <1>6, <1>7, <1>8, <1>9 DEF Next

LEMMA DurableStep == IInv /\ [Next]_vars => SavedIsDurable'
<1> SUFFICES ASSUME IInv, [Next]_vars PROVE SavedIsDurable'
  OBVIOUS
<1> USE StoreAssumption
<1> USE DEF IInv, SavedIsDurable, TypeOK, Sequencing, Fail
<1>1. ASSUME NEW v \in Values, Save(v) PROVE SavedIsDurable'
  BY <1>1 DEF Save
<1>2. CASE Open
  BY <1>2 DEF Open
<1>3. CASE Write
  BY <1>3 DEF Write
<1>4. CASE Sync
  BY <1>4 DEF Sync
<1>5. CASE Rename
  BY <1>5 DEF Rename
<1>6. CASE SyncDir
  BY <1>6 DEF SyncDir
<1>7. CASE Exit
  BY <1>7 DEF Exit
<1>8. CASE PowerLoss
  BY <1>8 DEF PowerLoss
<1>9. CASE UNCHANGED vars
  BY <1>9 DEF vars
<1> QED
  BY <1>1, <1>2, <1>3, <1>4, <1>5, <1>6, <1>7, <1>8, <1>9 DEF Next

LEMMA Invariance == Spec => []IInv
<1>1. Init => IInv
  BY InitStep
<1>2. IInv /\ [Next]_vars => IInv'
  BY TypeStep, SequencingStep, LoadStep, DurableStep DEF IInv
<1> QED
  BY <1>1, <1>2, PTL DEF Spec

\* The type invariant of Store.
THEOREM TypeCorrect == Spec => []TypeOK
<1>1. IInv => TypeOK
  BY DEF IInv
<1> QED
  BY <1>1, Invariance, PTL

\* What each system call of save may rely on holds at every step.
THEOREM SequencingHolds == Spec => []Sequencing
<1>1. IInv => Sequencing
  BY DEF IInv
<1> QED
  BY <1>1, Invariance, PTL

\* Store::load never meets a torn file, whatever failed and whenever power was lost:
\* the daemon always starts again.
THEOREM LoadAlwaysSucceeds == Spec => []LoadSucceeds
<1>1. IInv => LoadSucceeds
  BY DEF IInv
<1> QED
  BY <1>1, Invariance, PTL

\* A save that has answered Ok cannot be undone by a power loss.
THEOREM SavedStays == Spec => []SavedIsDurable
<1>1. IInv => SavedIsDurable
  BY DEF IInv
<1> QED
  BY <1>1, Invariance, PTL

-----------------------------------------------------------------------------
(* Store implements AtomicFile                                             *)

LEMMA StepImplementsAtomicFile == IInv /\ [Next]_vars => [File!AfNext]_(File!afvars)
<1> SUFFICES ASSUME IInv, [Next]_vars PROVE [File!AfNext]_(File!afvars)
  OBVIOUS
<1> USE StoreAssumption
<1> USE DEF IInv, TypeOK, File!AfNext, File!SaveCall, File!afvars
<1>1. ASSUME NEW v \in Values, Save(v) PROVE [File!AfNext]_(File!afvars)
  BY <1>1 DEF Save, File!BeginSave
<1>2. ASSUME Fail, pc # "Idle", UNCHANGED <<path, kept, value>> PROVE File!SaveFailed
  BY <1>2 DEF Fail, File!SaveFailed
<1>3. CASE Open
  BY <1>2, <1>3 DEF Open
<1>4. CASE Write
  BY <1>2, <1>4 DEF Write
<1>5. CASE Sync
  BY <1>2, <1>5 DEF Sync
<1>6. CASE Rename
  <2>1. CASE Fail /\ UNCHANGED <<path, kept, tmp>>
    BY <1>2, <1>6, <2>1 DEF Rename
  <2>2. CASE pc' = "SyncDir"
    <3>1. tmp.data = value /\ tmp.synced
      BY <1>6 DEF Rename, Sequencing
    <3>2. path' = value /\ kept' = kept \cup {value} /\ saved' = saved
      BY <1>6, <2>2, <3>1 DEF Rename, Fail
    <3> QED
      BY <1>6, <2>2, <3>2 DEF Rename, File!Replace
  <2> QED
    BY <1>6, <2>1, <2>2 DEF Rename
<1>7. CASE SyncDir
  <2>1. CASE Fail /\ kept' = kept
    BY <1>2, <1>7, <2>1 DEF SyncDir
  <2>2. CASE ~(Fail /\ kept' = kept)
    BY <1>7, <2>2 DEF SyncDir, Sequencing, File!SaveOk
  <2> QED
    BY <2>1, <2>2
<1>8. CASE Exit
  BY <1>8 DEF Exit, File!SaveCut
<1>9. CASE PowerLoss
  BY <1>9 DEF PowerLoss, File!PowerCut
<1>10. CASE UNCHANGED vars
  BY <1>10 DEF vars
<1> QED
  BY <1>1, <1>3, <1>4, <1>5, <1>6, <1>7, <1>8, <1>9, <1>10 DEF Next

\* The five system calls of save, with load, are an atomically replaced file that
\* Daemon may rely on.
THEOREM Implementation == Spec => ImplementsAtomicFile
<1>1. Init => \E first \in Values : File!AfInit(first)
  BY DEF Init, File!AfInit
<1>2. IInv /\ [Next]_vars => [File!AfNext]_(File!afvars)
  BY StepImplementsAtomicFile
<1> QED
  BY <1>1, <1>2, Invariance, PTL DEF Spec, ImplementsAtomicFile, File!AfSpec
=============================================================================
