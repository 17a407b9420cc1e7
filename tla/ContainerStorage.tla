-------------------------- MODULE ContainerStorage --------------------------
(***************************************************************************)
(* The container file under the Python wallet: _atomic_write with its      *)
(* staging, installation, directory sync and verified restore, and the     *)
(* operations that call it (create, import, migrate, and every persist of  *)
(* an open session).  Every system call may fail; the process may die and  *)
(* the power may fail between any two of them.                             *)
(*                                                                         *)
(* A staged file is synced before it is installed, so a name never shows a *)
(* partial container; what is at stake is which whole container it shows.  *)
(***************************************************************************)
CONSTANTS
  Data,       \* serialized containers
  Absent,     \* no file at the path
  Closed      \* no unlocked session

ASSUME StorageAssumption == Absent \notin Data /\ Closed \notin Data

VARIABLES
  view, may,           \* the path now, and after a power loss
  old, new, base,      \* of the call: view before, content, may before
  held,                \* the envelope of the unlocked session, or Closed
  pc, mode, prev,      \* control, kind of call, previous_data
  outcome              \* how the last call ended

callVars == <<old, new, base, mode>>
vars == <<view, may, callVars, held, pc, prev, outcome>>

Init ==
  /\ view \in Data \cup {Absent} /\ may = {view}
  /\ old = view /\ new = view /\ base = may
  /\ held = Closed
  /\ pc = "idle" /\ mode = "persist" /\ prev = Absent /\ outcome = "ok"

-----------------------------------------------------------------------------
(* Calls.                                                                  *)

Begin(m, d, at) ==
  /\ pc = "idle"
  /\ mode' = m /\ new' = d /\ old' = view /\ base' = may
  /\ pc' = at /\ prev' = Absent
  /\ UNCHANGED <<view, may, held, outcome>>

(* _create_storage and import_container: replace=False, no session yet.    *)
Create(d) == held = Closed /\ Begin("create", d, "stage")

(* _persist_envelope of an unlocked session.                               *)
Persist(d) == held # Closed /\ Begin("persist", d, "read")

(* migrate_container: the session it returns exists only on success.       *)
Migrate(d) == held = Closed /\ view # Absent /\ Begin("migrate", d, "read")

\* Mutant: an unknown outcome does not lock the session.
EndWithoutLock(r) ==
  /\ pc' = "idle" /\ outcome' = r
  /\ held' = IF r = "ok" THEN new ELSE IF mode = "persist" THEN held ELSE Closed
  /\ UNCHANGED <<callVars, prev>>

(* The call returns; an unlocked session survives only a success or a      *)
(* StorageFailure of its own persist.                                      *)
End(r) ==
  /\ pc' = "idle" /\ outcome' = r
  /\ held' = IF r = "ok" THEN new
             ELSE IF r = "failed" /\ mode = "persist" THEN held ELSE Closed
  /\ UNCHANGED <<callVars, prev>>

Goto(at) == pc' = at /\ UNCHANGED <<callVars, held, prev, outcome>>

Show(d) == view' = d /\ may' = may \cup {d}

-----------------------------------------------------------------------------
(* _atomic_write and _stage_file.                                          *)

ReadPrevious ==
  /\ pc = "read"
  /\ \/ /\ prev' = view /\ pc' = "stage"
        /\ UNCHANGED <<callVars, held, outcome>>
     \/ End("failed")
  /\ UNCHANGED <<view, may>>

(* mkstemp, write, flush and fsync of the temporary file.                  *)
Stage ==
  /\ pc = "stage"
  /\ Goto("install") \/ End("failed")
  /\ UNCHANGED <<view, may>>

Replace ==
  /\ pc = "install" /\ mode # "create"
  /\ \/ Show(new) /\ Goto("sync")
     \/ End("failed") /\ UNCHANGED <<view, may>>

\* Mutant: a new container is installed by rename.
LinkByRename ==
  /\ pc = "install" /\ mode = "create"
  /\ \/ Show(new) /\ Goto("linked")
     \/ End("failed") /\ UNCHANGED <<view, may>>

(* os.link refuses an existing target.                                     *)
Link ==
  /\ pc = "install" /\ mode = "create"
  /\ \/ view = Absent /\ Show(new) /\ Goto("linked")
     \/ End("failed") /\ UNCHANGED <<view, may>>

DropStaged ==
  /\ pc = "linked"
  /\ Goto("sync") \/ Goto("undo")
  /\ UNCHANGED <<view, may>>

(* The finally block, and _create_storage when no session can be built:    *)
(* the name is removed if possible, errors are ignored, nothing is synced. *)
UndoLink ==
  /\ pc = "undo"
  /\ Show(Absent) \/ UNCHANGED <<view, may>>
  /\ End("failed")

(* _create_storage builds its session after the write and may fail there.  *)
SyncDirectory ==
  /\ pc = "sync"
  /\ \/ may' = {view} /\ End("ok")
     \/ mode = "create" /\ may' = {view} /\ Goto("undo")
     \/ Goto("check") /\ UNCHANGED may
  /\ UNCHANGED view

-----------------------------------------------------------------------------
(* _restore_previous_after_failed_sync.                                    *)

CheckInstalled ==
  /\ pc = "check"
  /\ Goto("restore") \/ End("unknown")
  /\ UNCHANGED <<view, may>>

(* Unlink, or stage and rename the previous bytes; errors are left to the  *)
(* verification, except that a vanished file is reported at once.          *)
Restore ==
  /\ pc = "restore"
  /\ \/ Show(prev) /\ Goto("verify")
     \/ Goto("verify") /\ UNCHANGED <<view, may>>
     \/ prev # Absent /\ End("unknown") /\ UNCHANGED <<view, may>>

\* Mutant: a restore that raised nothing is trusted without reading back.
VerifyTrusting ==
  /\ pc = "verify"
  /\ Goto("resync") \/ End("unknown")
  /\ UNCHANGED <<view, may>>

Verify ==
  /\ pc = "verify"
  /\ \/ view = prev /\ Goto("resync")
     \/ End("unknown")
  /\ UNCHANGED <<view, may>>

\* Mutant: the restored name is not synced before it is reported.
ResyncSkipped ==
  /\ pc = "resync"
  /\ Goto("recheck")
  /\ UNCHANGED <<view, may>>

Resync ==
  /\ pc = "resync"
  /\ \/ may' = {view} /\ Goto("recheck")
     \/ End("unknown") /\ UNCHANGED may
  /\ UNCHANGED view

Recheck ==
  /\ pc = "recheck"
  /\ \/ view = prev /\ End("failed")
     \/ End("unknown")
  /\ UNCHANGED <<view, may>>

-----------------------------------------------------------------------------
Open ==
  /\ pc = "idle" /\ held = Closed /\ view # Absent
  /\ held' = view
  /\ UNCHANGED <<view, may, callVars, pc, prev, outcome>>

Lock ==
  /\ pc = "idle" /\ held # Closed
  /\ held' = Closed
  /\ UNCHANGED <<view, may, callVars, pc, prev, outcome>>

(* The process dies and the file system does not.                          *)
Crash ==
  /\ pc' = "idle" /\ outcome' = "lost" /\ held' = Closed
  /\ UNCHANGED <<view, may, callVars, prev>>

PowerLoss ==
  /\ pc' = "idle" /\ outcome' = "lost" /\ held' = Closed
  /\ view' \in may /\ may' = {view'}
  /\ UNCHANGED <<callVars, prev>>

Next ==
  \/ \E d \in Data : Create(d) \/ Persist(d) \/ Migrate(d)
  \/ ReadPrevious \/ Stage \/ Replace \/ Link \/ DropStaged \/ UndoLink
  \/ SyncDirectory \/ CheckInstalled \/ Restore \/ Verify \/ Resync \/ Recheck
  \/ Open \/ Lock \/ Crash \/ PowerLoss

Spec == Init /\ [][Next]_vars

-----------------------------------------------------------------------------
(* The path shows one of the contents a power loss could leave, and a call *)
(* in progress has read its previous bytes before it needs them.           *)
TypeOK ==
  /\ view \in may /\ may \subseteq Data \cup {Absent}
  /\ old \in Data \cup {Absent} /\ new \in Data \cup {Absent}
  /\ base \subseteq Data \cup {Absent}
  /\ held \in Data \cup {Closed}
  /\ mode \in {"create", "persist", "migrate"}
  /\ pc \in {"idle", "read", "stage", "install", "linked", "undo", "sync",
             "check", "restore", "verify", "resync", "recheck"}
  /\ prev \in Data \cup {Absent}
  /\ outcome \in {"ok", "failed", "unknown", "lost"}

(* An unlocked session never works on an envelope other than the one in    *)
(* the file: not after a failed persist, a partial restore or a reopen.    *)
SessionHoldsFile == pc = "idle" /\ held # Closed => held = view

(* create and import leave an existing container alone at every step, also *)
(* when they fail, roll back or are interrupted.                           *)
ExistingContainerKept ==
  mode = "create" /\ old # Absent /\ pc # "idle" => view = old /\ may = base

(* A failed create or import leaves no container behind.                   *)
FailedCreateLeavesNothing ==
  mode = "create" /\ outcome = "failed" /\ pc = "idle" /\ held = Closed
    /\ old = Absent => view = Absent

(* Every write is what AtomicFile promises, if the StorageFailure of a     *)
(* create or import is read as an unknown outcome.                         *)
File == INSTANCE AtomicFile
          WITH status <- IF pc # "idle" THEN "busy"
                         ELSE IF mode = "create" /\ outcome = "failed" THEN "unknown"
                         ELSE outcome

ImplementsAtomicFile == File!Spec

=============================================================================
