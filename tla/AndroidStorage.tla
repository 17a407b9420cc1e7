--------------------------- MODULE AndroidStorage ---------------------------
(***************************************************************************)
(* The container file under the Android wallet: AtomicWalletFiles with its *)
(* path lock, install lock, comparison with the expected original, restore *)
(* and removal, and the calls of AndroidWallet and WalletSession that use  *)
(* it.  The threads of one process share the path lock; the install lock   *)
(* is shared by processes, which race only to import.  One wallet copy is  *)
(* active: sessions and imports of other processes do not overlap.  Every  *)
(* system call may fail, a process may die and the power may go at any     *)
(* step.                                                                   *)
(*                                                                         *)
(* A container is the set of updates that went into it, so that a lost or  *)
(* resurrected update shows; no file is the empty set.                     *)
(***************************************************************************)
EXTENDS Naturals

CONSTANTS
  Sessions,      \* threads of one process, with a wallet session each
  Importers,     \* other processes, each importing a container
  Free, Closed,  \* no holder of a lock; no unlocked session
  MaxUpdates     \* bound on the updates made

Actors == Sessions \cup Importers

ASSUME AndroidStorageAssumption ==
  /\ Sessions \cap Importers = {} /\ Free \notin Actors
  /\ MaxUpdates \in Nat

VARIABLES
  view, may,             \* the path now, and after a power loss
  pathLock, installLock,
  held,                  \* per session: rawContainer, or Closed
  pc, call,              \* per actor: control, and the call's arguments
  made,                  \* how many updates have been made
  acked, refused         \* updates whose call reported success, or failure

locks == <<pathLock, installLock>>
reports == <<acked, refused>>
vars == <<view, may, locks, held, pc, call, made, reports>>

Updates == 1..MaxUpdates
Absent == {}
NoCall == [kind |-> "create", new |-> Absent, expected |-> Absent]

Init ==
  /\ view = Absent /\ may = {Absent}
  /\ pathLock = Free /\ installLock = Free
  /\ held = [s \in Sessions |-> Closed]
  /\ pc = [a \in Actors |-> "idle"] /\ call = [a \in Actors |-> NoCall]
  /\ made = 0 /\ acked = {} /\ refused = {}

-----------------------------------------------------------------------------
(* Calls.  Each builds a container from what it holds or has read.         *)

Begin(a, kind, from) ==
  /\ pc[a] = "idle" /\ made < MaxUpdates
  /\ made' = made + 1
  /\ call' = [call EXCEPT ![a] = [kind |-> kind, expected |-> from,
                                  new |-> from \cup {made + 1}]]
  /\ pc' = [pc EXCEPT ![a] = "wait"]
  /\ UNCHANGED <<view, may, locks, held, reports>>

(* Only one active wallet copy is supported: a host that imports elsewhere *)
(* has no session open, and conversely.                                    *)
OneCopy(a) ==
  IF a \in Sessions THEN \A i \in Importers : pc[i] = "idle"
  ELSE \A s \in Sessions : pc[s] = "idle" /\ held[s] = Closed

(* AndroidWallet.create and importContainer.                               *)
Create(a) ==
  /\ OneCopy(a) /\ (a \in Sessions => held[a] = Closed)
  /\ Begin(a, "create", Absent)

(* persistPayloadCandidate of an unlocked session.                         *)
Persist(s) == OneCopy(s) /\ held[s] # Closed /\ Begin(s, "persist", held[s])

(* migrateContainer reads under the path lock and converts outside it.     *)
Migrate(s) ==
  /\ OneCopy(s) /\ held[s] = Closed /\ view # Absent /\ pathLock = Free
  /\ Begin(s, "migrate", view)

Open(s) ==
  /\ OneCopy(s) /\ pc[s] = "idle" /\ held[s] = Closed
  /\ view # Absent /\ pathLock = Free
  /\ held' = [held EXCEPT ![s] = view]
  /\ UNCHANGED <<view, may, locks, pc, call, made, reports>>

Lock(s) ==
  /\ pc[s] = "idle" /\ held[s] # Closed
  /\ held' = [held EXCEPT ![s] = Closed]
  /\ UNCHANGED <<view, may, locks, pc, call, made, reports>>

Release(a) ==
  /\ pathLock' = IF pathLock = a THEN Free ELSE pathLock
  /\ installLock' = IF installLock = a THEN Free ELSE installLock

\* Mutant: an unknown outcome leaves the path lock behind.
EndKeepsLock(a, r) ==
  /\ pc' = [pc EXCEPT ![a] = "idle"]
  /\ IF r = "unknown" THEN UNCHANGED locks ELSE Release(a)
  /\ held' = IF a \notin Sessions THEN held
             ELSE [held EXCEPT ![a] =
                     IF r = "ok" THEN call[a].new
                     ELSE IF r = "failed" THEN @ ELSE Closed]
  /\ LET u == call[a].new \ call[a].expected IN
     /\ acked' = IF r = "ok" THEN acked \cup u ELSE acked
     /\ refused' = IF r \in {"failed", "stale"} THEN refused \cup u ELSE refused
  /\ UNCHANGED <<call, made>>

(* The call returns or throws.  A success opens the session; an unknown    *)
(* outcome and a stale original lock it.                                   *)
End(a, r) ==
  /\ pc' = [pc EXCEPT ![a] = "idle"] /\ Release(a)
  /\ held' = IF a \notin Sessions THEN held
             ELSE [held EXCEPT ![a] =
                     IF r = "ok" THEN call[a].new
                     ELSE IF r = "failed" THEN @ ELSE Closed]
  /\ LET u == call[a].new \ call[a].expected IN
     /\ acked' = IF r = "ok" THEN acked \cup u ELSE acked
     /\ refused' = IF r \in {"failed", "stale"} THEN refused \cup u ELSE refused
  /\ UNCHANGED <<call, made>>

Stay == UNCHANGED <<view, may>>
Show(c) == view' = c /\ may' = may \cup {c}
Goto(a, there) ==
  /\ pc' = [pc EXCEPT ![a] = there]
  /\ UNCHANGED <<locks, held, call, made, reports>>

(* Nothing installed: the staged file is removed, or the outcome unknown.  *)
GiveUp(a) == (End(a, "failed") \/ End(a, "unknown")) /\ Stay

-----------------------------------------------------------------------------
(* replaceLocked and restore.                                              *)

Acquire(a) ==
  /\ pc[a] = "wait"
  /\ a \in Sessions => pathLock = Free
  /\ pathLock' = IF a \in Sessions THEN a ELSE pathLock
  /\ pc' = [pc EXCEPT ![a] = IF call[a].kind = "create" THEN "exists"
                             ELSE "compare"]
  /\ UNCHANGED <<view, may, installLock, held, call, made, reports>>

\* Mutant: the file is replaced whatever it holds.
CompareSkipped(s) ==
  /\ pc[s] = "compare"
  /\ Goto(s, "stage")
  /\ Stay

(* A missing or unreadable file fails; another content is a stale original.*)
Compare(s) ==
  /\ pc[s] = "compare"
  /\ \/ view = call[s].expected /\ Goto(s, "stage")
     \/ view \notin {call[s].expected, Absent} /\ End(s, "stale")
     \/ End(s, "failed")
  /\ Stay

Stage(a) ==
  /\ pc[a] = "stage"
  /\ \/ Goto(a, IF call[a].kind = "create" THEN "recheck" ELSE "replace") /\ Stay
     \/ GiveUp(a)

Replace(s) ==
  /\ pc[s] = "replace"
  /\ \/ Show(call[s].new) /\ Goto(s, "sync")
     \/ GiveUp(s)

Sync(s) ==
  /\ pc[s] = "sync"
  /\ \/ Goto(s, "verify") /\ may' = {view}
     \/ Goto(s, "restore") /\ UNCHANGED may
  /\ UNCHANGED view

Verify(s) ==
  /\ pc[s] = "verify"
  /\ \/ view = call[s].new /\ End(s, "ok")
     \/ Goto(s, "restore")
  /\ Stay

Restore(s) ==
  /\ pc[s] = "restore"
  /\ \/ Show(call[s].expected) /\ Goto(s, "resync")
     \/ End(s, "unknown") /\ Stay

\* Mutant: the restored name is not synced before failure is reported.
ResyncSkipped(s) ==
  /\ pc[s] = "resync"
  /\ Goto(s, "restored") \/ End(s, "unknown")
  /\ Stay

Resync(s) ==
  /\ pc[s] = "resync"
  /\ \/ Goto(s, "restored") /\ may' = {view}
     \/ End(s, "unknown") /\ UNCHANGED may
  /\ UNCHANGED view

Restored(s) ==
  /\ pc[s] = "restored"
  /\ \/ view = call[s].expected /\ End(s, "failed")
     \/ End(s, "unknown")
  /\ Stay

-----------------------------------------------------------------------------
(* createNewLocked and removeCreatedFile.                                  *)

Exists(a) ==
  /\ pc[a] = "exists"
  /\ \/ view = Absent /\ Goto(a, "stage")
     \/ End(a, "failed")
  /\ Stay

Recheck(a) ==
  /\ pc[a] = "recheck"
  /\ \/ view = Absent /\ Goto(a, "install") /\ Stay
     \/ GiveUp(a)

TakeInstallLock(a) ==
  /\ pc[a] = "install"
  /\ \/ /\ installLock = Free /\ installLock' = a
        /\ pc' = [pc EXCEPT ![a] = "look"] /\ Stay
        /\ UNCHANGED <<pathLock, held, call, made, reports>>
     \/ GiveUp(a)

(* The last look at the target, under the install lock.                    *)
Look(a) ==
  /\ pc[a] = "look"
  /\ \/ view = Absent /\ Goto(a, "move") /\ Stay
     \/ GiveUp(a)

(* Files.move looks for the target and renames in two steps, so nothing is *)
(* assumed of it but the rename.                                           *)
Move(a) ==
  /\ pc[a] = "move"
  /\ \/ Show(call[a].new) /\ Goto(a, "syncNew")
     \/ GiveUp(a)

(* Removal begins after the install lock has been given back.              *)
Undo(a) ==
  /\ pc' = [pc EXCEPT ![a] = "remove"] /\ installLock' = Free
  /\ UNCHANGED <<pathLock, held, call, made, reports>>

SyncNew(a) ==
  /\ pc[a] = "syncNew"
  /\ \/ Goto(a, "verifyNew") /\ may' = {view}
     \/ Undo(a) /\ UNCHANGED may
  /\ UNCHANGED view

VerifyNew(a) ==
  /\ pc[a] = "verifyNew"
  /\ \/ view = call[a].new /\ End(a, "ok")
     \/ Undo(a)
  /\ Stay

Remove(a) ==
  /\ pc[a] = "remove"
  /\ \/ /\ view \in {Absent, call[a].new}
        /\ Goto(a, IF view = Absent THEN "syncGone" ELSE "delete")
     \/ End(a, "unknown")
  /\ Stay

Delete(a) ==
  /\ pc[a] = "delete"
  /\ \/ Show(Absent) /\ Goto(a, "syncGone")
     \/ End(a, "unknown") /\ Stay

SyncGone(a) ==
  /\ pc[a] = "syncGone"
  /\ \/ Goto(a, "gone") /\ may' = {view}
     \/ End(a, "unknown") /\ UNCHANGED may
  /\ UNCHANGED view

Gone(a) ==
  /\ pc[a] = "gone"
  /\ \/ view = Absent /\ End(a, "failed")
     \/ End(a, "unknown")
  /\ Stay

-----------------------------------------------------------------------------
(* The processes of a set of actors die; locks of a dead process are gone. *)
Die(dead) ==
  /\ pc' = [a \in Actors |-> IF a \in dead THEN "idle" ELSE pc[a]]
  /\ held' = [s \in Sessions |-> IF s \in dead THEN Closed ELSE held[s]]
  /\ pathLock' = IF pathLock \in dead THEN Free ELSE pathLock
  /\ installLock' = IF installLock \in dead THEN Free ELSE installLock
  /\ UNCHANGED <<call, made, reports>>

Crash == (Die(Sessions) \/ \E i \in Importers : Die({i})) /\ Stay

PowerLoss == Die(Actors) /\ view' \in may /\ may' = {view'}

Replacing(s) ==
  Compare(s) \/ Replace(s) \/ Sync(s) \/ Verify(s) \/ Restore(s) \/ Resync(s)
    \/ Restored(s)

Creating(a) ==
  Exists(a) \/ Recheck(a) \/ TakeInstallLock(a) \/ Look(a) \/ Move(a)
    \/ SyncNew(a) \/ VerifyNew(a) \/ Remove(a) \/ Delete(a) \/ SyncGone(a) \/ Gone(a)

Next ==
  \/ \E a \in Actors : Create(a) \/ Acquire(a) \/ Stage(a) \/ Creating(a)
  \/ \E s \in Sessions : Persist(s) \/ Migrate(s) \/ Open(s) \/ Lock(s)
                           \/ Replacing(s)
  \/ Crash \/ PowerLoss

Spec == Init /\ [][Next]_vars

-----------------------------------------------------------------------------
(* Contents are sets of updates made, locks have holders that can use them *)
(* and the path shows one of the contents a power loss could leave.        *)
TypeOK ==
  /\ view \in may /\ may \subseteq SUBSET Updates
  /\ pathLock \in Sessions \cup {Free} /\ installLock \in Actors \cup {Free}
  /\ held \in [Sessions -> (SUBSET Updates) \cup {Closed}]
  /\ pc \in [Actors -> {"idle", "wait", "compare", "stage", "replace", "sync",
                        "verify", "restore", "resync", "restored", "exists",
                        "recheck", "install", "look", "move", "syncNew",
                        "verifyNew", "remove", "delete", "syncGone", "gone"}]
  /\ call \in [Actors -> [kind : {"create", "persist", "migrate"},
                          new : SUBSET Updates, expected : SUBSET Updates]]
  /\ made \in 0..MaxUpdates /\ acked \subseteq Updates /\ refused \subseteq Updates

(* An update whose call reported success is in every content the path can  *)
(* show from then on: no stale session, concurrent import, rollback or     *)
(* power failure takes it away again.                                      *)
AckedKept == \A c \in may : acked \subseteq c

(* An update whose call reported failure is nowhere: neither the path nor  *)
(* a session can bring it back.                                            *)
RefusedGone ==
  /\ \A c \in may : c \cap refused = {}
  /\ \A s \in Sessions : held[s] # Closed => held[s] \cap refused = {}

=============================================================================
