----------------------- MODULE ContainerStorageProofs -----------------------
(***************************************************************************)
(* For any containers: a session works on the file's content, create and   *)
(* import leave an existing container alone, and all writes implement      *)
(* AtomicFile.  The invariant says, for each control point of              *)
(* _atomic_write, which of the old and new contents the path shows.        *)
(***************************************************************************)
EXTENDS ContainerStorage, TLAPS

(* Zenon proves the leaves that name no prover.                            *)
USE ZenonT(60)

(* Before the installation nothing has changed; after it previous_data is  *)
(* the content the call found; a verified restore shows it again.          *)
WriteInv ==
  /\ pc # "idle" => new \in Data
  /\ pc \in {"read", "stage", "install"} => view = old /\ may = base
  /\ pc \in {"stage", "install"} =>
       prev = IF mode = "create" THEN Absent ELSE old
  /\ pc \notin {"idle", "read", "stage", "install"} => prev = old
  /\ pc \in {"linked", "undo", "sync", "check"} => view = new
  /\ pc \in {"restore", "verify"} => view \in {old, new}
  /\ pc \in {"resync", "recheck"} => view = old
  /\ pc = "recheck" => may = {old}
  /\ pc \in {"linked", "undo"} => mode = "create"
  /\ pc = "read" => mode # "create"

(* A create that has installed its link found no file.                     *)
CreateInv ==
  mode = "create" /\ pc \notin {"idle", "read", "stage", "install"}
    => old = Absent

SessionInv ==
  held # Closed =>
    IF pc = "idle" THEN held = view ELSE held = old /\ mode = "persist"

StorageInv == TypeOK /\ WriteInv /\ CreateInv /\ SessionInv

-----------------------------------------------------------------------------
LEMMA InitStorage == Init => StorageInv
  BY StorageAssumption
  DEF Init, StorageInv, TypeOK, WriteInv, CreateInv, SessionInv

(* The host's calls and what surrounds them.                               *)
LEMMA CallPreserves ==
  ASSUME StorageInv,
         \/ \E d \in Data : Create(d) \/ Persist(d) \/ Migrate(d)
         \/ Open \/ Lock \/ Crash \/ PowerLoss
  PROVE  StorageInv'
  <1> USE StorageAssumption
          DEF StorageInv, TypeOK, WriteInv, CreateInv, SessionInv, callVars
  <1>1. ASSUME NEW d \in Data, Create(d) PROVE StorageInv'
    BY <1>1 DEF Create, Begin
  <1>2. ASSUME NEW d \in Data, Persist(d) PROVE StorageInv'
    BY <1>2 DEF Persist, Begin
  <1>3. ASSUME NEW d \in Data, Migrate(d) PROVE StorageInv'
    BY <1>3 DEF Migrate, Begin
  <1>4. CASE Open
    BY <1>4 DEF Open
  <1>5. CASE Lock
    BY <1>5 DEF Lock
  <1>6. CASE Crash
    BY <1>6 DEF Crash
  <1>7. CASE PowerLoss
    BY <1>7 DEF PowerLoss
  <1> QED
    BY <1>1, <1>2, <1>3, <1>4, <1>5, <1>6, <1>7

(* _atomic_write up to the directory sync.                                 *)
LEMMA WritePreserves ==
  ASSUME StorageInv,
         \/ ReadPrevious \/ Stage \/ Replace \/ Link \/ DropStaged
         \/ UndoLink \/ SyncDirectory
  PROVE  StorageInv'
  <1> USE StorageAssumption
          DEF StorageInv, TypeOK, WriteInv, CreateInv, SessionInv, callVars,
              End, Goto, Show
  <1>1. CASE ReadPrevious
    BY <1>1 DEF ReadPrevious
  <1>2. CASE Stage
    BY <1>2 DEF Stage
  <1>3. CASE Replace
    BY SMT, <1>3 DEF Replace
  <1>4. CASE Link
    BY SMT, <1>4 DEF Link
  <1>5. CASE DropStaged
    BY <1>5 DEF DropStaged
  <1>6. CASE UndoLink
    BY <1>6 DEF UndoLink
  <1>7. CASE SyncDirectory
    BY <1>7 DEF SyncDirectory
  <1> QED
    BY <1>1, <1>2, <1>3, <1>4, <1>5, <1>6, <1>7

(* The restore after a failed sync.                                        *)
LEMMA RestorePreserves ==
  ASSUME StorageInv,
         CheckInstalled \/ Restore \/ Verify \/ Resync \/ Recheck
  PROVE  StorageInv'
  <1> USE StorageAssumption
          DEF StorageInv, TypeOK, WriteInv, CreateInv, SessionInv, callVars,
              End, Goto, Show
  <1>1. CASE CheckInstalled
    BY <1>1 DEF CheckInstalled
  <1>2. CASE Restore
    BY <1>2 DEF Restore
  <1>3. CASE Verify
    BY <1>3 DEF Verify
  <1>4. CASE Resync
    BY <1>4 DEF Resync
  <1>5. CASE Recheck
    BY <1>5 DEF Recheck
  <1> QED
    BY <1>1, <1>2, <1>3, <1>4, <1>5

(* Every reachable state satisfies the invariant of _atomic_write.         *)
THEOREM StorageInvariant == Spec => []StorageInv
  <1>1. StorageInv /\ [Next]_vars => StorageInv'
    <2> SUFFICES ASSUME StorageInv, [Next]_vars PROVE StorageInv'
      OBVIOUS
    <2>1. CASE UNCHANGED vars
      BY SMT, <2>1
      DEF StorageInv, TypeOK, WriteInv, CreateInv, SessionInv, vars, callVars
    <2>2. CASE Next
      BY <2>2, CallPreserves, WritePreserves, RestorePreserves DEF Next
    <2> QED
      BY <2>1, <2>2
  <1> QED
    BY InitStorage, <1>1, PTL DEF Spec

(* The unlocked session and the container file agree, for every fault in   *)
(* _persist_envelope and whatever _atomic_write reports.                   *)
THEOREM SessionIsFile == Spec => []SessionHoldsFile
  <1>1. StorageInv => SessionHoldsFile
    BY DEF StorageInv, SessionInv, SessionHoldsFile
  <1> QED
    BY StorageInvariant, <1>1, PTL

(* create and import never touch an existing container.                    *)
THEOREM ExistingContainerIsKept == Spec => []ExistingContainerKept
  <1>1. StorageInv => ExistingContainerKept
    BY DEF StorageInv, TypeOK, WriteInv, CreateInv, ExistingContainerKept
  <1> QED
    BY StorageInvariant, <1>1, PTL

-----------------------------------------------------------------------------
(* Calls, crashes and the steps before the installation.                   *)
LEMMA CallRefines ==
  ASSUME StorageInv,
         \/ \E d \in Data : Create(d) \/ Persist(d) \/ Migrate(d)
         \/ Open \/ Lock \/ Crash \/ PowerLoss
  PROVE  File!Next \/ UNCHANGED File!vars
  <1> USE DEF StorageInv, TypeOK, File!vars, callVars
  <1>1. ASSUME NEW d \in Data, Create(d) \/ Persist(d) \/ Migrate(d)
        PROVE  File!Begin(d)
    BY <1>1 DEF Create, Persist, Migrate, Begin, File!Begin
  <1>2. CASE Open \/ Lock
    BY <1>2 DEF Open, Lock
  <1>3. CASE Crash \/ PowerLoss
    BY <1>3 DEF Crash, PowerLoss, File!Lose, File!Next
  <1> QED
    BY <1>1, <1>2, <1>3 DEF File!Next

(* Each step of a write is a step of AtomicFile or invisible.              *)
LEMMA WriteRefines ==
  ASSUME StorageInv,
         \/ ReadPrevious \/ Stage \/ Replace \/ Link \/ DropStaged
         \/ UndoLink \/ SyncDirectory
  PROVE  File!Next \/ UNCHANGED File!vars
  <1> USE DEF StorageInv, TypeOK, WriteInv, callVars, End, Goto, Show,
              File!vars
  <1>1. CASE ReadPrevious
    BY <1>1 DEF ReadPrevious, File!Fail, File!Next
  <1>2. CASE Stage
    BY <1>2 DEF Stage, File!Fail, File!GiveUp, File!Next
  <1>3. CASE Replace
    BY <1>3 DEF Replace, File!Change, File!Fail, File!Next
  <1>4. CASE Link
    BY <1>4 DEF Link, File!Change, File!GiveUp, File!Next
  <1>5. CASE DropStaged
    BY <1>5 DEF DropStaged
  <1>6. CASE UndoLink
    BY <1>6 DEF UndoLink, CreateInv, File!GiveUp, File!Next
  <1>7. CASE SyncDirectory
    BY <1>7 DEF SyncDirectory, File!Succeed, File!Sync, File!Next
  <1> QED
    BY <1>1, <1>2, <1>3, <1>4, <1>5, <1>6, <1>7

LEMMA RestoreRefines ==
  ASSUME StorageInv,
         CheckInstalled \/ Restore \/ Verify \/ Resync \/ Recheck
  PROVE  File!Next \/ UNCHANGED File!vars
  <1> USE DEF StorageInv, TypeOK, WriteInv, callVars, End, Goto, Show,
              File!vars
  <1>1. CASE CheckInstalled
    BY <1>1 DEF CheckInstalled, File!GiveUp, File!Next
  <1>2. CASE Restore
    BY <1>2 DEF Restore, File!Change, File!GiveUp, File!Next
  <1>3. CASE Verify
    BY <1>3 DEF Verify, File!GiveUp, File!Next
  <1>4. CASE Resync
    BY <1>4 DEF Resync, File!Sync, File!GiveUp, File!Next
  <1>5. CASE Recheck
    BY <1>5 DEF Recheck, File!Fail, File!GiveUp, File!Next
  <1> QED
    BY <1>1, <1>2, <1>3, <1>4, <1>5

(* _atomic_write gives what AtomicFile promises: success is durable,       *)
(* StorageFailure of a persist or migrate means the previous bytes are     *)
(* back, and only StorageOutcomeUnknown, a failed create or import, or the *)
(* loss of the process leaves two contents possible.                       *)
THEOREM WritesImplementAtomicFile == Spec => ImplementsAtomicFile
  <1>1. Init => File!Init
    BY DEF Init, File!Init
  <1>2. StorageInv /\ [Next]_vars => [File!Next]_File!vars
    <2> SUFFICES ASSUME StorageInv, [Next]_vars
                 PROVE  File!Next \/ UNCHANGED File!vars
      OBVIOUS
    <2>1. CASE UNCHANGED vars
      BY <2>1 DEF vars, callVars, File!vars
    <2>2. CASE Next
      BY <2>2, CallRefines, WriteRefines, RestoreRefines DEF Next
    <2> QED
      BY <2>1, <2>2
  <1> QED
    BY <1>1, <1>2, StorageInvariant, PTL
    DEF Spec, ImplementsAtomicFile, File!Spec

=============================================================================
