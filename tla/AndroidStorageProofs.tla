------------------------ MODULE AndroidStorageProofs ------------------------
(***************************************************************************)
(* The inductive invariant of AndroidStorage and what follows from it, for *)
(* any number of sessions of one process, of importing processes and of    *)
(* updates: no reported update is lost and no refused one comes back.      *)
(* First ends of calls, moves from step to step, new calls and crashes     *)
(* preserve the invariant, then each step of a replacement and of a        *)
(* creation.                                                               *)
(***************************************************************************)
EXTENDS AndroidStorage, TLAPS

(* Zenon proves the leaves that name no prover.                            *)
USE ZenonT(60)

Before == {"wait", "compare", "exists", "stage", "recheck", "install", "replace",
           "look", "move"}
Installed == {"sync", "verify", "restore", "syncNew", "verifyNew", "remove",
              "delete"}
Undone == {"resync", "restored", "syncGone", "gone"}
Busy == (Before \ {"wait"}) \cup Installed \cup Undone
Replaces == {"compare", "replace", "sync", "verify", "restore", "resync",
             "restored"}
Locked == {"look", "move", "syncNew", "verifyNew"}
Active(a) == pc[a] # "idle"
Update(a) == call[a].new \ call[a].expected

(* The path lock covers a session's call, the install lock an importer's   *)
(* installation.                                                           *)
LockInv ==
  /\ \A s \in Sessions : pathLock = s <=> pc[s] \in Busy
  /\ \A a \in Actors : installLock = a <=> pc[a] \in Locked

(* Sessions and imports of other processes do not overlap.                 *)
CopyInv ==
  \A i \in Importers, s \in Sessions :
    Active(i) => ~Active(s) /\ held[s] = Closed

(* Creating and replacing calls take different steps.                      *)
KindInv ==
  \A a \in Actors :
    /\ call[a].kind = "create" => pc[a] \notin Replaces
    /\ call[a].kind # "create" => a \in Sessions
    /\ call[a].kind # "create" => pc[a] \in Replaces \cup {"idle", "wait", "stage"}
    /\ call[a].kind = "create" => call[a].expected = Absent

(* Only updates that were made are anywhere.                               *)
MadeInv ==
  /\ \A c \in may : c \subseteq 1..made
  /\ \A s \in Sessions : held[s] # Closed => held[s] \subseteq 1..made
  /\ \A a \in Actors : call[a].new \subseteq 1..made
  /\ acked \subseteq 1..made /\ refused \subseteq 1..made

(* A running call makes one update.                                        *)
OwnInv ==
  \A a \in Actors : Active(a) =>
    \E u \in 1..made : /\ u \notin call[a].expected
                       /\ call[a].new = call[a].expected \cup {u}

(* The update of a running call is not reported, and neither a session nor *)
(* another call has it.                                                    *)
ApartInv ==
  \A a \in Actors : Active(a) =>
    /\ Update(a) \cap acked = {} /\ Update(a) \cap refused = {}
    /\ \A b \in Actors \ {a} : Active(b) => Update(a) \cap call[b].new = {}
    /\ \A s \in Sessions : held[s] # Closed => Update(a) \cap held[s] = {}

(* It is in no file before it is installed, nor after it has been undone.  *)
HiddenInv ==
  \A a \in Actors : pc[a] \in Before \cup {"gone", "restored"} =>
    \A c \in may : Update(a) \cap c = {}

(* What the path shows at each step of a call.                             *)
ViewInv ==
  \A a \in Actors :
    /\ pc[a] \in Installed => view = call[a].new
    /\ pc[a] \in {"replace", "resync", "restored"} => view = call[a].expected
    /\ pc[a] = "move" => view = Absent
    /\ pc[a] = "stage" /\ call[a].kind # "create" => view = call[a].expected
    /\ pc[a] \in {"verify", "verifyNew"} => may = {view}
    /\ pc[a] = "syncGone" => Update(a) \cap view = {}

FreshInv == MadeInv /\ OwnInv /\ ApartInv /\ HiddenInv

(* Every update is accounted for, from the call that makes it to the       *)
(* report of its outcome and ever after.                                   *)
AndroidStorageInv ==
  /\ TypeOK /\ LockInv /\ CopyInv /\ KindInv /\ FreshInv /\ ViewInv
  /\ AckedKept /\ RefusedGone

-----------------------------------------------------------------------------
USE AndroidStorageAssumption DEF Actors

(* The end of a call: what is reported done is in the file, and what is    *)
(* reported failed is not.                                                 *)
LEMMA EndPreserves ==
  ASSUME AndroidStorageInv, NEW a \in Actors,
         NEW r \in {"ok", "failed", "stale", "unknown"},
         pc[a] \in Busy, End(a, r), Stay,
         r = "ok" => view = call[a].new /\ may = {view},
         r \in {"failed", "stale"} => \A c \in may : Update(a) \cap c = {}
  PROVE  AndroidStorageInv'
<1>0. /\ TypeOK /\ LockInv /\ CopyInv /\ KindInv /\ MadeInv /\ OwnInv
      /\ ApartInv /\ HiddenInv /\ ViewInv /\ AckedKept /\ RefusedGone
  BY DEF AndroidStorageInv, FreshInv
<1>1. /\ pc' = [pc EXCEPT ![a] = "idle"] /\ call' = call /\ made' = made
      /\ view' = view /\ may' = may
  BY DEF End, Stay
<1>2. /\ acked' = IF r = "ok" THEN acked \cup Update(a) ELSE acked
      /\ refused' = IF r \in {"failed", "stale"} THEN refused \cup Update(a)
                    ELSE refused
  BY DEF End, Update
<1>3. /\ a \notin Sessions => held' = held
      /\ a \in Sessions => held' = [held EXCEPT ![a] =
              IF r = "ok" THEN call[a].new ELSE IF r = "failed" THEN @ ELSE Closed]
  BY DEF End
<1>4. /\ Active(a) /\ pc'[a] = "idle" /\ Update(a) \subseteq call[a].new
      /\ \A b \in Actors \ {a} : pc'[b] = pc[b]
      /\ call \in [Actors -> [kind : {"create", "persist", "migrate"},
                          new : SUBSET Updates, expected : SUBSET Updates]]
  BY <1>0, <1>1 DEF TypeOK, Active, Busy, Before, Installed, Undone, Update
<1>5. TypeOK'
  <2>1. held' \in [Sessions -> (SUBSET Updates) \cup {Closed}]
    BY <1>0, <1>3, <1>4 DEF TypeOK
  <2>2. /\ pathLock' \in Sessions \cup {Free} /\ installLock' \in Actors \cup {Free}
    BY <1>0 DEF TypeOK, End, Release
  <2>3. acked' \subseteq Updates /\ refused' \subseteq Updates
    BY <1>0, <1>2, <1>4 DEF TypeOK
  <2>. QED
    BY <1>0, <1>1, <2>1, <2>2, <2>3 DEF TypeOK
<1>6. LockInv'
  BY SMT, <1>0, <1>1, <1>4 DEF TypeOK, LockInv, End, Release, Busy, Before, Installed,
    Undone, Locked
<1>7. KindInv'
  BY <1>0, <1>1, <1>4 DEF TypeOK, KindInv, Replaces
<1>8. \A s \in Sessions : held'[s] # Closed =>
        \/ held[s] # Closed /\ held'[s] = held[s]
        \/ s = a /\ r = "ok" /\ held'[s] = call[a].new
  BY SMT, <1>0, <1>3 DEF TypeOK
<1>9. MadeInv'
  <2>1. acked' \subseteq 1..made /\ refused' \subseteq 1..made
    BY <1>0, <1>2, <1>4 DEF MadeInv
  <2>2. \A s \in Sessions : held'[s] # Closed => held'[s] \subseteq 1..made
    BY <1>0, <1>8 DEF MadeInv
  <2>. QED
    BY <1>0, <1>1, <2>1, <2>2 DEF MadeInv
<1>10. OwnInv'
  BY <1>0, <1>1, <1>4 DEF OwnInv, Active
<1>11. ApartInv'
  <2>. SUFFICES ASSUME NEW b \in Actors, Active(b)'
                PROVE  /\ Update(b) \cap acked' = {} /\ Update(b) \cap refused' = {}
                       /\ \A d \in Actors \ {b} :
                            Active(d)' => Update(b) \cap call[d].new = {}
                       /\ \A s \in Sessions :
                            held'[s] # Closed => Update(b) \cap held'[s] = {}
    BY <1>1 DEF ApartInv, Update
  <2>1. b # a /\ Active(b)
    BY <1>4 DEF Active
  <2>2. Update(b) \cap call[a].new = {}
    BY <1>0, <1>4, <2>1 DEF ApartInv
  <2>3. Update(b) \cap acked' = {} /\ Update(b) \cap refused' = {}
    BY <1>0, <1>2, <1>4, <2>1, <2>2 DEF ApartInv
  <2>4. \A d \in Actors \ {b} : Active(d)' => Update(b) \cap call[d].new = {}
    BY <1>0, <1>4, <2>1 DEF ApartInv, Active
  <2>5. \A s \in Sessions : held'[s] # Closed => Update(b) \cap held'[s] = {}
    BY <1>0, <1>8, <2>1, <2>2 DEF ApartInv
  <2>. QED
    BY <2>3, <2>4, <2>5
<1>12. HiddenInv'
  BY <1>0, <1>1, <1>4 DEF HiddenInv, Before, Update
<1>13. ViewInv'
  BY SMT, <1>0, <1>1, <1>4 DEF ViewInv, Installed, Update
<1>14. AckedKept'
  BY SMT, <1>0, <1>1, <1>2, <1>4 DEF AckedKept
<1>15. RefusedGone'
  <2>1. \A c \in may : c \cap refused' = {}
    BY <1>0, <1>2 DEF RefusedGone
  <2>2. ASSUME NEW s \in Sessions, held'[s] # Closed
        PROVE  held'[s] \cap refused' = {}
    <3>1. CASE r = "ok"
      BY <1>0, <1>2, <1>8, <2>2, <3>1 DEF RefusedGone, TypeOK
    <3>2. CASE r # "ok"
      BY <1>0, <1>2, <1>4, <1>8, <2>2, <3>2 DEF RefusedGone, ApartInv
    <3>. QED
      BY <3>1, <3>2
  <2>. QED
    BY <1>1, <2>1, <2>2 DEF RefusedGone
<1>16. CopyInv'
  BY SMT, <1>0, <1>4, <1>8 DEF CopyInv, Active
<1>. QED
  BY <1>5, <1>6, <1>7, <1>9, <1>10, <1>11, <1>12, <1>13, <1>14, <1>15, <1>16
  DEF AndroidStorageInv, FreshInv

-----------------------------------------------------------------------------
(* A step inside a call: what it does to the locks.                        *)
MoveTo(a, there) ==
  /\ pc' = [pc EXCEPT ![a] = there]
  /\ pathLock' = IF a \in Sessions THEN a ELSE pathLock
  /\ installLock' = IF there \in Locked THEN a
                    ELSE IF installLock = a THEN Free ELSE installLock
  /\ UNCHANGED <<held, call, made, reports>>

(* When a call may be at a step.                                           *)
Allowed(a, there) ==
  /\ Active(a) /\ there \in Busy
  /\ a \in Sessions => pathLock \in {Free, a}
  /\ there \in Locked => installLock \in {Free, a}
  /\ IF call[a].kind = "create" THEN there \notin Replaces
     ELSE there \in Replaces \cup {"stage"}

(* What a step inside a call cannot disturb.                               *)
LEMMA MoveFrame ==
  ASSUME AndroidStorageInv, NEW a \in Actors, NEW there, Allowed(a, there),
         MoveTo(a, there), view' \in may', may' \subseteq SUBSET Updates
  PROVE  TypeOK' /\ LockInv' /\ CopyInv' /\ KindInv' /\ OwnInv' /\ ApartInv'
<1>0. TypeOK /\ LockInv /\ CopyInv /\ KindInv /\ OwnInv /\ ApartInv
  BY DEF AndroidStorageInv, FreshInv
<1>1. /\ pc' = [pc EXCEPT ![a] = there] /\ call' = call /\ made' = made
      /\ held' = held /\ acked' = acked /\ refused' = refused
      /\ pc'[a] = there /\ \A b \in Actors \ {a} : pc'[b] = pc[b]
  BY <1>0 DEF MoveTo, reports, TypeOK
<1>2. there # "idle" /\ there # "wait"
  BY DEF Allowed, Busy, Before, Installed, Undone
<1>3. \A b \in Actors : Active(b)' <=> Active(b)
  BY <1>1, <1>2 DEF Active, Allowed
<1>4. TypeOK'
  <2>1. pc' \in [Actors -> {"idle", "wait", "compare", "stage", "replace", "sync",
                        "verify", "restore", "resync", "restored", "exists",
                        "recheck", "install", "look", "move", "syncNew",
                        "verifyNew", "remove", "delete", "syncGone", "gone"}]
    BY <1>0, <1>1 DEF TypeOK, Allowed, Busy, Before, Installed, Undone
  <2>2. pathLock' \in Sessions \cup {Free} /\ installLock' \in Actors \cup {Free}
    BY <1>0 DEF TypeOK, MoveTo
  <2>. QED
    BY <1>0, <1>1, <2>1, <2>2 DEF TypeOK
<1>5. LockInv'
  <2>1. ASSUME NEW s \in Sessions
        PROVE  pathLock' = s <=> pc'[s] \in Busy
    BY <1>0, <1>1, <2>1 DEF LockInv, Allowed, MoveTo
  <2>2. ASSUME NEW b \in Actors
        PROVE  installLock' = b <=> pc'[b] \in Locked
    BY <1>0, <1>1, <2>2 DEF LockInv, Allowed, MoveTo
  <2>. QED
    BY <2>1, <2>2 DEF LockInv
<1>6. KindInv'
  BY SMT, <1>0, <1>1, <1>2 DEF KindInv, Allowed
<1>7. OwnInv'
  BY <1>0, <1>1, <1>3 DEF OwnInv
<1>8. ApartInv'
  BY <1>0, <1>1, <1>3 DEF ApartInv, Update
<1>9. CopyInv'
  BY <1>0, <1>1, <1>3 DEF CopyInv
<1>. QED
  BY <1>4, <1>5, <1>6, <1>7, <1>8, <1>9

(* What a call knows of the path when it is at a step.                     *)
Knows(a, there) ==
  /\ there \in Before \cup {"gone", "restored"} =>
       \A c \in may' : Update(a) \cap c = {}
  /\ there \in Installed => view' = call[a].new
  /\ there \in {"replace", "resync", "restored"} => view' = call[a].expected
  /\ there = "move" => view' = Absent
  /\ there = "stage" /\ call[a].kind # "create" => view' = call[a].expected
  /\ there \in {"verify", "verifyNew"} => may' = {view'}
  /\ there = "syncGone" => Update(a) \cap view' = {}

(* A step that leaves the path alone, or syncs it.                         *)
LEMMA MovePreserves ==
  ASSUME AndroidStorageInv, NEW a \in Actors, NEW there, Allowed(a, there),
         MoveTo(a, there), view' = view, may' = may \/ may' = {view},
         Knows(a, there)
  PROVE  AndroidStorageInv'
<1>0. /\ TypeOK /\ MadeInv /\ HiddenInv /\ ViewInv /\ AckedKept /\ RefusedGone
  BY DEF AndroidStorageInv, FreshInv
<1>1. /\ call' = call /\ made' = made
      /\ held' = held /\ acked' = acked /\ refused' = refused
      /\ pc'[a] = there /\ \A b \in Actors \ {a} : pc'[b] = pc[b]
      /\ may' \subseteq may /\ view' \in may'
  BY <1>0 DEF MoveTo, reports, TypeOK
<1>2. may' \subseteq SUBSET Updates
  BY <1>0, <1>1 DEF TypeOK
<1>3. TypeOK' /\ LockInv' /\ CopyInv' /\ KindInv' /\ OwnInv' /\ ApartInv'
  BY <1>1, <1>2, MoveFrame
<1>4. MadeInv' /\ AckedKept' /\ RefusedGone'
  BY <1>0, <1>1 DEF MadeInv, AckedKept, RefusedGone
<1>5. HiddenInv'
  BY <1>0, <1>1 DEF HiddenInv, Knows, Update
<1>6. ViewInv'
  <2>. SUFFICES ASSUME NEW b \in Actors, b # a
                PROVE  /\ pc[b] \in Installed => view = call[b].new
                       /\ pc[b] \in {"replace", "resync", "restored"} =>
                            view = call[b].expected
                       /\ pc[b] = "move" => view = Absent
                       /\ pc[b] = "stage" /\ call[b].kind # "create" =>
                            view = call[b].expected
                       /\ pc[b] \in {"verify", "verifyNew"} => may' = {view}
                       /\ pc[b] = "syncGone" => Update(b) \cap view = {}
    BY <1>1 DEF ViewInv, Knows, Update
  <2>. QED
    BY <1>0, <1>1 DEF ViewInv
<1>. QED
  BY <1>3, <1>4, <1>5, <1>6 DEF AndroidStorageInv, FreshInv

(* A step that installs or takes away a container while nobody else relies *)
(* on the path.                                                            *)
Alone(a) ==
  \A b \in Actors \ {a} :
    /\ pc[b] \notin Installed \cup {"replace", "resync", "restored", "move"}
    /\ pc[b] = "stage" => call[b].kind = "create"

LEMMA ShowPreserves ==
  ASSUME AndroidStorageInv, NEW a \in Actors, NEW there, Allowed(a, there),
         MoveTo(a, there), NEW c, Show(c), Alone(a), Knows(a, there),
         c \subseteq Updates, acked \subseteq c, c \cap refused = {},
         c \subseteq 1..made,
         \A b \in Actors \ {a} : Active(b) => Update(b) \cap c = {}
  PROVE  AndroidStorageInv'
<1>0. /\ TypeOK /\ MadeInv /\ HiddenInv /\ ViewInv /\ AckedKept /\ RefusedGone
  BY DEF AndroidStorageInv, FreshInv
<1>1. /\ call' = call /\ made' = made
      /\ held' = held /\ acked' = acked /\ refused' = refused
      /\ pc'[a] = there /\ \A b \in Actors \ {a} : pc'[b] = pc[b]
      /\ may' = may \cup {c} /\ view' = c
  BY <1>0 DEF MoveTo, reports, TypeOK, Show
<1>2. view' \in may' /\ may' \subseteq SUBSET Updates
  BY SMT, <1>0, <1>1 DEF TypeOK
<1>3. TypeOK' /\ LockInv' /\ CopyInv' /\ KindInv' /\ OwnInv' /\ ApartInv'
  BY <1>2, MoveFrame
<1>4. MadeInv' /\ AckedKept' /\ RefusedGone'
  BY <1>0, <1>1 DEF MadeInv, AckedKept, RefusedGone
<1>5. HiddenInv'
  <2>. SUFFICES ASSUME NEW b \in Actors, b # a,
                       pc[b] \in Before \cup {"gone", "restored"}
                PROVE  \A d \in may \cup {c} : Update(b) \cap d = {}
    BY <1>1 DEF HiddenInv, Knows, Update
  <2>1. Active(b)
    BY DEF Active, Before
  <2>. QED
    BY <1>0, <2>1 DEF HiddenInv
<1>6. ViewInv'
  <2>. SUFFICES ASSUME NEW b \in Actors, b # a
                PROVE  /\ pc[b] \notin Installed
                       /\ pc[b] \notin {"replace", "resync", "restored", "move"}
                       /\ ~(pc[b] = "stage" /\ call[b].kind # "create")
                       /\ pc[b] = "syncGone" => Update(b) \cap c = {}
    BY <1>1 DEF ViewInv, Knows, Update, Installed
  <2>. QED
    BY DEF Alone, Active
<1>. QED
  BY <1>3, <1>4, <1>5, <1>6 DEF AndroidStorageInv, FreshInv

-----------------------------------------------------------------------------
(* A step of the calls by which the locks stay as they are.                *)
LEMMA GotoMoves ==
  ASSUME AndroidStorageInv, NEW a \in Actors, NEW there, pc[a] \in Busy,
         there \in Busy, pc[a] \in Locked <=> there \in Locked, Goto(a, there),
         IF call[a].kind = "create" THEN there \notin Replaces
         ELSE there \in Replaces \cup {"stage"}
  PROVE  MoveTo(a, there) /\ Allowed(a, there)
<1>1. LockInv
  BY DEF AndroidStorageInv
<1>2. Active(a)
  BY DEF Active, Busy, Before, Installed, Undone
<1>3. a \in Sessions => pathLock = a
  BY <1>1 DEF LockInv
<1>4. there \in Locked <=> installLock = a
  BY <1>1 DEF LockInv
<1>. QED
  BY <1>2, <1>3, <1>4 DEF MoveTo, Allowed, Goto, locks

LEMMA GiveUpPreserves ==
  ASSUME AndroidStorageInv, NEW a \in Actors, pc[a] \in Before \ {"wait"},
         GiveUp(a)
  PROVE  AndroidStorageInv'
<1>1. pc[a] \in Busy /\ \A c \in may : Update(a) \cap c = {}
  BY DEF Busy, AndroidStorageInv, FreshInv, HiddenInv
<1>2. CASE End(a, "failed") /\ Stay
  BY <1>1, <1>2, EndPreserves
<1>3. CASE End(a, "unknown") /\ Stay
  BY <1>1, <1>3, EndPreserves
<1>. QED
  BY <1>2, <1>3 DEF GiveUp

(* Who installs or takes away a container does so alone.                   *)
LEMMA AloneHolds ==
  ASSUME AndroidStorageInv, NEW a \in Actors,
         \/ pc[a] \in {"replace", "restore"} /\ a \in Sessions
         \/ pc[a] \in {"move", "delete"}
  PROVE  Alone(a)
<1>0. /\ TypeOK /\ LockInv /\ CopyInv /\ KindInv /\ OwnInv /\ ApartInv /\ ViewInv
  BY DEF AndroidStorageInv, FreshInv
<1>1. CASE a \in Sessions
  <2>1. pathLock = a /\ Active(a)
    BY <1>0, <1>1 DEF LockInv, Busy, Before, Installed, Active
  <2>2. \A b \in Actors \ {a} : pc[b] \notin Busy
    <3>1. \A b \in Sessions \ {a} : pc[b] \notin Busy
      BY <1>0, <2>1 DEF LockInv
    <3>2. \A b \in Importers : pc[b] = "idle"
      BY <1>0, <1>1, <2>1 DEF CopyInv, Active
    <3>. QED
      BY <3>1, <3>2 DEF Busy, Before, Installed, Undone
  <2>. QED
    BY <2>2 DEF Alone, Busy, Before, Undone
<1>2. CASE a \in Importers
  <2>. SUFFICES ASSUME NEW b \in Actors, b # a
                PROVE  /\ pc[b] \notin {"syncNew", "verifyNew", "remove", "delete"}
                       /\ pc[b] # "move" /\ pc[b] \notin Replaces
                       /\ pc[b] = "stage" => call[b].kind = "create"
    BY DEF Alone, Installed, Replaces
  <2>1. call[a].kind = "create" /\ call[a].expected = Absent
    BY <1>0, <1>2 DEF KindInv
  <2>2. pc[a] \in {"move", "delete"} /\ Active(a)
    BY <1>2 DEF Active
  <2>3. pc[b] \notin Replaces /\ (pc[b] = "stage" => call[b].kind = "create")
    <3>1. CASE b \in Sessions
      BY <1>0, <1>2, <2>2, <3>1 DEF CopyInv, Active, Replaces
    <3>2. CASE b \in Importers
      BY <1>0, <3>2 DEF KindInv
    <3>. QED
      BY <3>1, <3>2
  <2>4. PICK u \in 1..made : call[a].new = {u}
    BY <1>0, <2>1, <2>2 DEF OwnInv, Absent
  <2>5. pc[a] = "delete" => view = {u}
    BY <1>0, <2>4 DEF ViewInv, Installed
  <2>6. pc[a] = "move" => view = {} /\ installLock = a
    BY <1>0 DEF ViewInv, LockInv, Locked, Absent
  <2>7. pc[b] # "move"
    BY <1>0, <2>2, <2>5, <2>6 DEF ViewInv, LockInv, Locked, Absent
  <2>8. pc[b] \notin {"syncNew", "verifyNew", "remove", "delete"}
    <3>. SUFFICES ASSUME pc[b] \in {"syncNew", "verifyNew", "remove", "delete"}
                  PROVE  FALSE
      OBVIOUS
    <3>1. view = call[b].new /\ Active(b)
      BY <1>0 DEF ViewInv, Installed, Active
    <3>2. view # {}
      BY <1>0, <3>1 DEF OwnInv
    <3>3. u \in Update(a) \cap call[b].new
      BY <2>1, <2>2, <2>4, <2>5, <2>6, <3>1, <3>2 DEF Update, Absent
    <3>. QED
      BY <1>0, <2>2, <3>1, <3>3 DEF ApartInv
  <2>. QED
    BY <2>3, <2>7, <2>8
<1>. QED
  BY <1>1, <1>2

-----------------------------------------------------------------------------
(* A call starts from a content that has none of the running calls'        *)
(* updates.                                                                *)
LEMMA BeginPreserves ==
  ASSUME AndroidStorageInv, NEW a \in Actors,
         NEW kind \in {"create", "persist", "migrate"}, NEW from,
         Begin(a, kind, from), OneCopy(a), from \subseteq Updates, from \subseteq 1..made,
         kind = "create" => from = Absent, kind # "create" => a \in Sessions,
         \A b \in Actors : Active(b) => Update(b) \cap from = {}
  PROVE  AndroidStorageInv'
<1>0. /\ TypeOK /\ LockInv /\ CopyInv /\ KindInv /\ MadeInv /\ OwnInv
      /\ ApartInv /\ HiddenInv /\ ViewInv /\ AckedKept /\ RefusedGone
  BY DEF AndroidStorageInv, FreshInv
<1>1. /\ view' = view /\ may' = may /\ pathLock' = pathLock
      /\ installLock' = installLock /\ held' = held
      /\ acked' = acked /\ refused' = refused
  BY DEF Begin, locks, reports
<1>2. /\ pc[a] = "idle" /\ pc'[a] = "wait" /\ made \in Nat /\ made' = made + 1
      /\ made < MaxUpdates
      /\ call'[a] = [kind |-> kind, expected |-> from, new |-> from \cup {made + 1}]
      /\ \A b \in Actors \ {a} : pc'[b] = pc[b] /\ call'[b] = call[b]
  BY SMT, <1>0 DEF Begin, TypeOK
<1>3. 1..made \subseteq 1..made' /\ made + 1 \notin 1..made /\ made + 1 \in 1..made'
  BY SMT, <1>2
<1>4. TypeOK'
  <2>1. made' \in 0..MaxUpdates /\ made + 1 \in Updates
    BY SMT, <1>2 DEF Updates
  <2>2. call' \in [Actors -> [kind : {"create", "persist", "migrate"},
                              new : SUBSET Updates, expected : SUBSET Updates]]
    <3>1. from \cup {made + 1} \in SUBSET Updates
      BY <2>1
    <3>. QED
      BY <1>0, <3>1 DEF Begin, TypeOK
  <2>3. pc' \in [Actors -> {"idle", "wait", "compare", "stage", "replace", "sync",
                        "verify", "restore", "resync", "restored", "exists",
                        "recheck", "install", "look", "move", "syncNew",
                        "verifyNew", "remove", "delete", "syncGone", "gone"}]
    BY <1>0 DEF Begin, TypeOK
  <2>. QED
    BY <1>0, <1>1, <2>1, <2>2, <2>3 DEF TypeOK
<1>5. LockInv'
  BY <1>0, <1>1, <1>2 DEF LockInv, Busy, Before, Installed, Undone, Locked
<1>6. KindInv'
  BY SMT, <1>0, <1>2 DEF KindInv, Replaces
<1>7. MadeInv'
  <2>1. ASSUME NEW b \in Actors
        PROVE  call'[b].new \subseteq 1..made'
    <3>1. CASE b = a
      <4>1. call'[a].new = from \cup {made + 1}
        BY SMT, <1>2
      <4>. QED
        BY <1>3, <3>1, <4>1
    <3>2. CASE b # a
      BY <1>0, <1>2, <1>3, <3>2 DEF MadeInv
    <3>. QED
      BY <3>1, <3>2
  <2>. QED
    BY <1>0, <1>1, <1>3, <2>1 DEF MadeInv
<1>8. Update(a)' = {made + 1}
  BY SMT, <1>2, <1>3 DEF Update
<1>9. \A b \in Actors \ {a} :
        /\ Update(b)' = Update(b) /\ (Active(b)' <=> Active(b))
        /\ Update(b) \subseteq 1..made
  BY <1>0, <1>2 DEF Update, Active, MadeInv
<1>10. OwnInv'
  <2>1. \E u \in 1..made' : /\ u \notin call'[a].expected
                            /\ call'[a].new = call'[a].expected \cup {u}
    BY SMT, <1>2, <1>3
  <2>2. ASSUME NEW b \in Actors \ {a}, Active(b)
        PROVE  \E u \in 1..made' : /\ u \notin call'[b].expected
                                   /\ call'[b].new = call'[b].expected \cup {u}
    BY <1>0, <1>2, <1>3, <2>2 DEF OwnInv
  <2>. QED
    BY <1>9, <2>1, <2>2 DEF OwnInv
<1>11. ApartInv'
  <2>1. /\ {made + 1} \cap acked = {} /\ {made + 1} \cap refused = {}
        /\ \A b \in Actors \ {a} : {made + 1} \cap call[b].new = {}
        /\ \A s \in Sessions : held[s] # Closed => {made + 1} \cap held[s] = {}
    BY <1>0, <1>3 DEF MadeInv
  <2>2. ASSUME NEW b \in Actors \ {a}, Active(b)
        PROVE  Update(b) \cap call'[a].new = {}
    BY SMT, <1>2, <1>3, <1>9, <2>2
  <2>. SUFFICES ASSUME NEW b \in Actors, Active(b)'
                PROVE  /\ Update(b)' \cap acked = {} /\ Update(b)' \cap refused = {}
                       /\ \A d \in Actors \ {b} :
                            Active(d)' => Update(b)' \cap call'[d].new = {}
                       /\ \A s \in Sessions :
                            held[s] # Closed => Update(b)' \cap held[s] = {}
    BY <1>1 DEF ApartInv
  <2>3. CASE b = a
    BY <1>2, <1>8, <2>1, <2>3
  <2>4. CASE b # a
    BY <1>0, <1>2, <1>9, <2>2, <2>4 DEF ApartInv
  <2>. QED
    BY <2>3, <2>4
<1>12. HiddenInv'
  BY SMT, <1>0, <1>1, <1>2, <1>3, <1>8, <1>9 DEF HiddenInv, MadeInv
<1>13. ViewInv'
  BY <1>0, <1>1, <1>2, <1>9 DEF ViewInv, Installed
<1>14. AckedKept' /\ RefusedGone'
  BY <1>0, <1>1 DEF AckedKept, RefusedGone
<1>15. CopyInv'
  BY <1>0, <1>1, <1>2, <1>9 DEF CopyInv, OneCopy, Active
<1>. QED
  BY <1>4, <1>5, <1>6, <1>7, <1>10, <1>11, <1>12, <1>13, <1>14, <1>15
  DEF AndroidStorageInv, FreshInv

(* With the path lock free, no session's update is at the path.            *)
LEMMA FreePath ==
  ASSUME AndroidStorageInv, NEW s \in Sessions, OneCopy(s), pathLock = Free
  PROVE  \A b \in Actors : Active(b) => Update(b) \cap view = {}
<1>0. TypeOK /\ LockInv /\ HiddenInv
  BY DEF AndroidStorageInv, FreshInv
<1>. SUFFICES ASSUME NEW b \in Actors, Active(b)
              PROVE  Update(b) \cap view = {}
  OBVIOUS
<1>1. b \in Sessions /\ pc[b] \notin Busy
  BY <1>0 DEF LockInv, OneCopy, Active
<1>2. pc[b] = "wait"
  BY <1>0, <1>1 DEF TypeOK, Active, Busy, Before, Installed, Undone
<1>. QED
  BY <1>0, <1>2 DEF HiddenInv, Before, TypeOK

LEMMA CallPreserves ==
  ASSUME AndroidStorageInv,
         \/ \E a \in Actors : Create(a)
         \/ \E s \in Sessions : Persist(s) \/ Migrate(s)
  PROVE  AndroidStorageInv'
<1>0. TypeOK /\ MadeInv /\ ApartInv
  BY DEF AndroidStorageInv, FreshInv
<1>1. ASSUME NEW a \in Actors, Create(a)
      PROVE  AndroidStorageInv'
  BY <1>1, BeginPreserves DEF Create, Absent
<1>2. ASSUME NEW s \in Sessions, Persist(s)
      PROVE  AndroidStorageInv'
  <2>1. /\ held[s] \subseteq Updates /\ held[s] \subseteq 1..made
        /\ \A b \in Actors : Active(b) => Update(b) \cap held[s] = {}
    BY <1>0, <1>2 DEF TypeOK, MadeInv, ApartInv, Persist
  <2>. QED
    BY <1>2, <2>1, BeginPreserves DEF Persist
<1>3. ASSUME NEW s \in Sessions, Migrate(s)
      PROVE  AndroidStorageInv'
  <2>1. view \subseteq Updates /\ view \subseteq 1..made
    BY <1>0 DEF TypeOK, MadeInv
  <2>2. \A b \in Actors : Active(b) => Update(b) \cap view = {}
    BY <1>3, FreePath DEF Migrate
  <2>. QED
    BY <1>3, <2>1, <2>2, BeginPreserves DEF Migrate
<1>. QED
  BY <1>1, <1>2, <1>3

(* Opening and locking change only what a session holds.                   *)
LEMMA OpenPreserves ==
  ASSUME AndroidStorageInv, NEW s \in Sessions, Open(s) \/ Lock(s)
  PROVE  AndroidStorageInv'
<1>0. /\ TypeOK /\ LockInv /\ CopyInv /\ KindInv /\ MadeInv /\ OwnInv
      /\ ApartInv /\ HiddenInv /\ ViewInv /\ AckedKept /\ RefusedGone
  BY DEF AndroidStorageInv, FreshInv
<1>1. /\ view' = view /\ may' = may /\ pathLock' = pathLock
      /\ installLock' = installLock /\ acked' = acked /\ refused' = refused
      /\ pc' = pc /\ call' = call /\ made' = made
  BY DEF Open, Lock, locks, reports
<1>2. /\ held' \in [Sessions -> (SUBSET Updates) \cup {Closed}]
      /\ \A t \in Sessions : held'[t] # Closed =>
           \/ held[t] # Closed /\ held'[t] = held[t]
           \/ held'[t] = view /\ pathLock = Free /\ OneCopy(s)
  BY <1>0 DEF TypeOK, Open, Lock
<1>3. TypeOK' /\ LockInv' /\ KindInv' /\ OwnInv' /\ HiddenInv' /\ ViewInv' /\ AckedKept'
  BY SMT, <1>0, <1>1, <1>2 DEF TypeOK, LockInv, KindInv, OwnInv, HiddenInv, ViewInv,
    AckedKept, Active, Update
<1>4. MadeInv' /\ RefusedGone'
  BY <1>0, <1>1, <1>2 DEF MadeInv, RefusedGone, TypeOK
<1>5. ApartInv'
  <2>1. ASSUME NEW b \in Actors, Active(b), NEW t \in Sessions, held'[t] # Closed
        PROVE  Update(b) \cap held'[t] = {}
    BY <1>0, <1>2, <2>1, FreePath DEF ApartInv
  <2>. QED
    BY <1>0, <1>1, <2>1 DEF ApartInv, Active, Update
<1>6. CopyInv'
  BY <1>0, <1>1, <1>2 DEF CopyInv, OneCopy, Active
<1>. QED
  BY <1>3, <1>4, <1>5, <1>6 DEF AndroidStorageInv, FreshInv

(* A crash, with or without a power failure: what reaches the disk is one  *)
(* of the contents that could.                                             *)
LEMMA DiePreserves ==
  ASSUME AndroidStorageInv, NEW dead \in SUBSET Actors, Die(dead),
         Free \notin dead, view' \in may, may' = may \/ may' = {view'},
         view' = view \/ dead = Actors
  PROVE  AndroidStorageInv'
<1>0. /\ TypeOK /\ LockInv /\ CopyInv /\ KindInv /\ MadeInv /\ OwnInv
      /\ ApartInv /\ HiddenInv /\ ViewInv /\ AckedKept /\ RefusedGone
  BY DEF AndroidStorageInv, FreshInv
<1>1. /\ acked' = acked /\ refused' = refused /\ call' = call /\ made' = made
      /\ may' \subseteq may /\ view' \in may'
  BY DEF Die, reports
<1>2. \A a \in Actors : pc'[a] = IF a \in dead THEN "idle" ELSE pc[a]
  BY DEF Die
<1>3. /\ \A s \in Sessions : held'[s] # Closed => held'[s] = held[s]
      /\ held' \in [Sessions -> (SUBSET Updates) \cup {Closed}]
  BY <1>0 DEF Die, TypeOK
<1>4. TypeOK'
  <2>1. pc' \in [Actors -> {"idle", "wait", "compare", "stage", "replace", "sync",
                        "verify", "restore", "resync", "restored", "exists",
                        "recheck", "install", "look", "move", "syncNew",
                        "verifyNew", "remove", "delete", "syncGone", "gone"}]
    BY <1>0 DEF Die, TypeOK
  <2>2. pathLock' \in Sessions \cup {Free} /\ installLock' \in Actors \cup {Free}
    BY <1>0 DEF Die, TypeOK
  <2>. QED
    BY <1>0, <1>1, <1>3, <2>1, <2>2 DEF TypeOK
<1>5. LockInv'
  BY <1>0, <1>2 DEF LockInv, Die, Busy, Before, Installed, Undone, Locked
<1>6. KindInv' /\ OwnInv'
  BY <1>0, <1>1, <1>2 DEF KindInv, OwnInv, Active, Replaces
<1>7. MadeInv' /\ AckedKept' /\ RefusedGone'
  BY <1>0, <1>1, <1>3 DEF MadeInv, AckedKept, RefusedGone
<1>8. \A a \in Actors : Active(a)' => Active(a)
  BY <1>2 DEF Active
<1>9. ApartInv'
  BY <1>0, <1>1, <1>3, <1>8 DEF ApartInv, Update
<1>10. HiddenInv'
  BY <1>0, <1>1, <1>2 DEF HiddenInv, Before, Update
<1>11. ViewInv'
  BY <1>0, <1>1, <1>2 DEF ViewInv, Installed, Update
<1>12. CopyInv'
  BY <1>0, <1>3, <1>8 DEF CopyInv
<1>. QED
  BY <1>4, <1>5, <1>6, <1>7, <1>9, <1>10, <1>11, <1>12 DEF AndroidStorageInv, FreshInv

-----------------------------------------------------------------------------
(* The steps of replaceLocked and createNewLocked.                         *)

LEMMA ComparePreserves ==
  ASSUME AndroidStorageInv, NEW s \in Sessions, Compare(s)
  PROVE  AndroidStorageInv'
<1>1. /\ pc[s] \in Busy /\ \A c \in may : Update(s) \cap c = {}
      /\ call[s].kind # "create"
  BY DEF Compare, Busy, Before, Replaces, AndroidStorageInv, FreshInv, HiddenInv,
    KindInv
<1>2. CASE view = call[s].expected /\ Goto(s, "stage") /\ Stay
  <2>1. MoveTo(s, "stage") /\ Allowed(s, "stage")
    BY <1>1, <1>2, GotoMoves DEF Compare, Busy, Before, Locked
  <2>2. Knows(s, "stage")
    BY <1>1, <1>2 DEF Knows, Stay, Installed
  <2>. QED
    BY <1>2, <2>1, <2>2, MovePreserves DEF Stay
<1>3. CASE End(s, "stale") /\ Stay
  BY <1>1, <1>3, EndPreserves
<1>4. CASE End(s, "failed") /\ Stay
  BY <1>1, <1>4, EndPreserves
<1>. QED
  BY <1>2, <1>3, <1>4 DEF Compare

LEMMA StagePreserves ==
  ASSUME AndroidStorageInv, NEW a \in Actors, Stage(a)
  PROVE  AndroidStorageInv'
<1>1. /\ pc[a] \in Busy /\ \A c \in may : Update(a) \cap c = {}
      /\ call[a].kind # "create" => view = call[a].expected
  BY DEF Stage, Busy, Before, AndroidStorageInv, FreshInv, HiddenInv, ViewInv
<1>2. CASE call[a].kind = "create" /\ Goto(a, "recheck") /\ Stay
  <2>1. MoveTo(a, "recheck") /\ Allowed(a, "recheck")
    BY <1>1, <1>2, GotoMoves DEF Stage, Busy, Before, Locked, Replaces
  <2>2. Knows(a, "recheck")
    BY <1>1, <1>2 DEF Knows, Stay, Installed
  <2>. QED
    BY <1>2, <2>1, <2>2, MovePreserves DEF Stay
<1>3. CASE call[a].kind # "create" /\ Goto(a, "replace") /\ Stay
  <2>1. MoveTo(a, "replace") /\ Allowed(a, "replace")
    BY <1>1, <1>3, GotoMoves DEF Stage, Busy, Before, Locked, Replaces
  <2>2. Knows(a, "replace")
    BY <1>1, <1>3 DEF Knows, Stay, Installed
  <2>. QED
    BY <1>3, <2>1, <2>2, MovePreserves DEF Stay
<1>4. CASE GiveUp(a)
  BY <1>4, GiveUpPreserves DEF Stage, Before
<1>. QED
  BY <1>2, <1>3, <1>4 DEF Stage

LEMMA ReplacePreserves ==
  ASSUME AndroidStorageInv, NEW s \in Sessions, Replace(s)
  PROVE  AndroidStorageInv'
<1>0. /\ TypeOK /\ KindInv /\ MadeInv /\ OwnInv /\ ApartInv /\ ViewInv
      /\ AckedKept /\ RefusedGone
  BY DEF AndroidStorageInv, FreshInv
<1>1. pc[s] \in Busy /\ pc[s] = "replace" /\ Active(s)
  BY DEF Replace, Busy, Before, Active
<1>2. call[s].kind # "create" /\ view = call[s].expected
  BY <1>0, <1>1 DEF KindInv, ViewInv, Replaces
<1>3. CASE Show(call[s].new) /\ Goto(s, "sync")
  <2>1. MoveTo(s, "sync") /\ Allowed(s, "sync")
    BY <1>1, <1>2, <1>3, GotoMoves DEF Busy, Before, Installed, Locked, Replaces
  <2>2. Knows(s, "sync")
    BY <1>3 DEF Knows, Show, Before
  <2>3. call[s].new = view \cup Update(s) /\ view \in may
    BY <1>0, <1>1, <1>2 DEF OwnInv, Update, TypeOK
  <2>4. /\ acked \subseteq call[s].new /\ call[s].new \cap refused = {}
    BY <1>0, <1>1, <2>3 DEF AckedKept, RefusedGone, ApartInv
  <2>5. call[s].new \subseteq Updates /\ call[s].new \subseteq 1..made
    BY <1>0 DEF TypeOK, MadeInv
  <2>6. \A b \in Actors \ {s} : Active(b) => Update(b) \cap call[s].new = {}
    BY <1>0, <1>1 DEF ApartInv
  <2>7. Alone(s)
    BY <1>1, AloneHolds
  <2>. QED
    BY <1>3, <2>1, <2>2, <2>4, <2>5, <2>6, <2>7, ShowPreserves
<1>4. CASE GiveUp(s)
  BY <1>1, <1>4, GiveUpPreserves DEF Before
<1>. QED
  BY <1>3, <1>4 DEF Replace

LEMMA SyncPreserves ==
  ASSUME AndroidStorageInv, NEW s \in Sessions, Sync(s)
  PROVE  AndroidStorageInv'
<1>1. /\ pc[s] \in Busy /\ call[s].kind # "create" /\ view = call[s].new
  BY DEF Sync, Busy, Installed, Replaces, AndroidStorageInv, KindInv, ViewInv
<1>2. CASE Goto(s, "verify") /\ may' = {view} /\ view' = view
  <2>1. MoveTo(s, "verify") /\ Allowed(s, "verify")
    BY <1>1, <1>2, GotoMoves DEF Sync, Busy, Installed, Locked, Replaces
  <2>2. Knows(s, "verify")
    BY <1>1, <1>2 DEF Knows, Before
  <2>. QED
    BY <1>2, <2>1, <2>2, MovePreserves
<1>3. CASE Goto(s, "restore") /\ may' = may /\ view' = view
  <2>1. MoveTo(s, "restore") /\ Allowed(s, "restore")
    BY <1>1, <1>3, GotoMoves DEF Sync, Busy, Installed, Locked, Replaces
  <2>2. Knows(s, "restore")
    BY <1>1, <1>3 DEF Knows, Before
  <2>. QED
    BY <1>3, <2>1, <2>2, MovePreserves
<1>. QED
  BY <1>2, <1>3 DEF Sync

LEMMA VerifyPreserves ==
  ASSUME AndroidStorageInv, NEW s \in Sessions, Verify(s)
  PROVE  AndroidStorageInv'
<1>1. /\ pc[s] \in Busy /\ call[s].kind # "create" /\ view = call[s].new
      /\ may = {view}
  BY DEF Verify, Busy, Installed, Replaces, AndroidStorageInv, KindInv, ViewInv
<1>2. CASE End(s, "ok") /\ Stay
  BY <1>1, <1>2, EndPreserves
<1>3. CASE Goto(s, "restore") /\ Stay
  <2>1. MoveTo(s, "restore") /\ Allowed(s, "restore")
    BY <1>1, <1>3, GotoMoves DEF Verify, Busy, Installed, Locked, Replaces
  <2>2. Knows(s, "restore")
    BY <1>1, <1>3 DEF Knows, Before, Stay
  <2>. QED
    BY <1>3, <2>1, <2>2, MovePreserves DEF Stay
<1>. QED
  BY <1>2, <1>3 DEF Verify

LEMMA RestorePreserves ==
  ASSUME AndroidStorageInv, NEW s \in Sessions, Restore(s)
  PROVE  AndroidStorageInv'
<1>0. /\ TypeOK /\ KindInv /\ MadeInv /\ OwnInv /\ ApartInv /\ ViewInv
      /\ AckedKept /\ RefusedGone
  BY DEF AndroidStorageInv, FreshInv
<1>1. pc[s] \in Busy /\ pc[s] = "restore" /\ Active(s)
  BY DEF Restore, Busy, Installed, Active
<1>2. call[s].kind # "create" /\ view = call[s].new
  BY <1>0, <1>1 DEF KindInv, ViewInv, Replaces, Installed
<1>3. CASE Show(call[s].expected) /\ Goto(s, "resync")
  <2>1. MoveTo(s, "resync") /\ Allowed(s, "resync")
    BY <1>1, <1>2, <1>3, GotoMoves DEF Busy, Installed, Undone, Locked, Replaces
  <2>2. Knows(s, "resync")
    BY <1>3 DEF Knows, Show, Before, Installed
  <2>3. view = call[s].expected \cup Update(s) /\ view \in may
    BY <1>0, <1>1, <1>2 DEF OwnInv, Update, TypeOK
  <2>4. /\ acked \subseteq call[s].expected /\ call[s].expected \cap refused = {}
    BY <1>0, <1>1, <2>3 DEF AckedKept, RefusedGone, ApartInv
  <2>5. call[s].expected \subseteq Updates /\ call[s].expected \subseteq 1..made
    BY <1>0, <1>2, <2>3 DEF TypeOK, MadeInv
  <2>6. \A b \in Actors \ {s} : Active(b) => Update(b) \cap call[s].expected = {}
    BY <1>0, <1>1, <1>2, <2>3 DEF ApartInv
  <2>7. Alone(s)
    BY <1>1, AloneHolds
  <2>. QED
    BY <1>3, <2>1, <2>2, <2>4, <2>5, <2>6, <2>7, ShowPreserves
<1>4. CASE End(s, "unknown") /\ Stay
  BY <1>1, <1>4, EndPreserves
<1>. QED
  BY <1>3, <1>4 DEF Restore

LEMMA ResyncPreserves ==
  ASSUME AndroidStorageInv, NEW s \in Sessions, Resync(s)
  PROVE  AndroidStorageInv'
<1>1. /\ pc[s] \in Busy /\ call[s].kind # "create" /\ view = call[s].expected
  BY DEF Resync, Busy, Undone, Replaces, AndroidStorageInv, KindInv, ViewInv
<1>2. CASE Goto(s, "restored") /\ may' = {view} /\ view' = view
  <2>1. MoveTo(s, "restored") /\ Allowed(s, "restored")
    BY <1>1, <1>2, GotoMoves DEF Resync, Busy, Undone, Locked, Replaces
  <2>2. Knows(s, "restored")
    BY <1>1, <1>2 DEF Knows, Before, Installed, Update
  <2>. QED
    BY <1>2, <2>1, <2>2, MovePreserves
<1>3. CASE End(s, "unknown") /\ Stay
  BY <1>1, <1>3, EndPreserves
<1>. QED
  BY <1>2, <1>3 DEF Resync, Stay

LEMMA RestoredPreserves ==
  ASSUME AndroidStorageInv, NEW s \in Sessions, Restored(s)
  PROVE  AndroidStorageInv'
<1>1. pc[s] \in Busy /\ \A c \in may : Update(s) \cap c = {}
  BY DEF Restored, Busy, Undone, AndroidStorageInv, FreshInv, HiddenInv
<1>2. CASE End(s, "failed") /\ Stay
  BY <1>1, <1>2, EndPreserves
<1>3. CASE End(s, "unknown") /\ Stay
  BY <1>1, <1>3, EndPreserves
<1>. QED
  BY <1>2, <1>3 DEF Restored

-----------------------------------------------------------------------------
(* The steps of a creating call before anything is installed.              *)
LEMMA ExistsPreserves ==
  ASSUME AndroidStorageInv, NEW a \in Actors, Exists(a) \/ Recheck(a) \/ Look(a)
  PROVE  AndroidStorageInv'
<1>1. /\ pc[a] \in Busy /\ pc[a] \in Before \ {"wait"}
      /\ call[a].kind = "create" /\ \A c \in may : Update(a) \cap c = {}
  BY DEF Exists, Recheck, Look, Busy, Before, AndroidStorageInv, FreshInv,
    HiddenInv, KindInv, Replaces
<1>2. CASE pc[a] = "exists" /\ Goto(a, "stage") /\ Stay
  <2>1. MoveTo(a, "stage") /\ Allowed(a, "stage")
    BY <1>1, <1>2, GotoMoves DEF Busy, Before, Locked, Replaces
  <2>2. Knows(a, "stage")
    BY <1>1, <1>2 DEF Knows, Stay, Installed
  <2>. QED
    BY <1>2, <2>1, <2>2, MovePreserves DEF Stay
<1>3. CASE pc[a] = "recheck" /\ Goto(a, "install") /\ Stay
  <2>1. MoveTo(a, "install") /\ Allowed(a, "install")
    BY <1>1, <1>3, GotoMoves DEF Busy, Before, Locked, Replaces
  <2>2. Knows(a, "install")
    BY <1>1, <1>3 DEF Knows, Stay, Installed
  <2>. QED
    BY <1>3, <2>1, <2>2, MovePreserves DEF Stay
<1>4. CASE pc[a] = "look" /\ view = Absent /\ Goto(a, "move") /\ Stay
  <2>1. MoveTo(a, "move") /\ Allowed(a, "move")
    BY <1>1, <1>4, GotoMoves DEF Busy, Before, Locked, Replaces
  <2>2. Knows(a, "move")
    BY <1>1, <1>4 DEF Knows, Stay, Installed
  <2>. QED
    BY <1>4, <2>1, <2>2, MovePreserves DEF Stay
<1>5. CASE End(a, "failed") /\ Stay
  BY <1>1, <1>5, EndPreserves
<1>6. CASE GiveUp(a)
  BY <1>1, <1>6, GiveUpPreserves
<1>. QED
  BY <1>2, <1>3, <1>4, <1>5, <1>6 DEF Exists, Recheck, Look

LEMMA TakeInstallLockPreserves ==
  ASSUME AndroidStorageInv, NEW a \in Actors, TakeInstallLock(a)
  PROVE  AndroidStorageInv'
<1>1. /\ pc[a] \in Busy /\ pc[a] \in Before \ {"wait"} /\ Active(a)
      /\ call[a].kind = "create" /\ \A c \in may : Update(a) \cap c = {}
  BY DEF TakeInstallLock, Busy, Before, AndroidStorageInv, FreshInv, HiddenInv,
    KindInv, Replaces, Active
<1>2. CASE /\ installLock = Free /\ installLock' = a /\ Stay
           /\ pc' = [pc EXCEPT ![a] = "look"]
           /\ UNCHANGED <<pathLock, held, call, made, reports>>
  <2>1. a \in Sessions => pathLock = a
    BY <1>1 DEF AndroidStorageInv, LockInv
  <2>2. MoveTo(a, "look") /\ Allowed(a, "look")
    BY <1>1, <1>2, <2>1 DEF MoveTo, Allowed, Busy, Before, Locked, Replaces
  <2>3. Knows(a, "look")
    BY <1>1, <1>2 DEF Knows, Stay, Installed
  <2>. QED
    BY <1>2, <2>2, <2>3, MovePreserves DEF Stay
<1>3. CASE GiveUp(a)
  BY <1>1, <1>3, GiveUpPreserves
<1>. QED
  BY <1>2, <1>3 DEF TakeInstallLock

LEMMA InstallPreserves ==
  ASSUME AndroidStorageInv, NEW a \in Actors, Move(a)
  PROVE  AndroidStorageInv'
<1>0. /\ TypeOK /\ KindInv /\ MadeInv /\ OwnInv /\ ApartInv /\ ViewInv
      /\ AckedKept /\ RefusedGone
  BY DEF AndroidStorageInv, FreshInv
<1>1. pc[a] \in Busy /\ pc[a] = "move" /\ Active(a)
  BY DEF Move, Busy, Before, Active
<1>2. call[a].kind = "create" /\ call[a].expected = {} /\ view = {}
  BY <1>0, <1>1 DEF KindInv, ViewInv, Replaces, Absent
<1>3. CASE Show(call[a].new) /\ Goto(a, "syncNew")
  <2>1. MoveTo(a, "syncNew") /\ Allowed(a, "syncNew")
    BY <1>1, <1>2, <1>3, GotoMoves DEF Busy, Before, Installed, Locked, Replaces
  <2>2. Knows(a, "syncNew")
    BY <1>3 DEF Knows, Show, Before
  <2>3. call[a].new = Update(a) /\ view \in may
    BY <1>0, <1>2 DEF Update, TypeOK
  <2>4. /\ acked \subseteq call[a].new /\ call[a].new \cap refused = {}
    BY <1>0, <1>1, <1>2, <2>3 DEF AckedKept, ApartInv
  <2>5. call[a].new \subseteq Updates /\ call[a].new \subseteq 1..made
    BY <1>0 DEF TypeOK, MadeInv
  <2>6. \A b \in Actors \ {a} : Active(b) => Update(b) \cap call[a].new = {}
    BY <1>0, <1>1 DEF ApartInv
  <2>7. Alone(a)
    BY <1>1, AloneHolds
  <2>. QED
    BY <1>3, <2>1, <2>2, <2>4, <2>5, <2>6, <2>7, ShowPreserves
<1>4. CASE GiveUp(a)
  BY <1>1, <1>4, GiveUpPreserves DEF Before
<1>. QED
  BY <1>3, <1>4 DEF Move

LEMMA UndoPreserves ==
  ASSUME AndroidStorageInv, NEW a \in Actors, pc[a] \in {"syncNew", "verifyNew"},
         Undo(a), Stay
  PROVE  AndroidStorageInv'
<1>1. /\ pc[a] \in Busy /\ Active(a) /\ call[a].kind = "create"
      /\ view = call[a].new /\ installLock = a /\ (a \in Sessions => pathLock = a)
  BY DEF Busy, Installed, Locked, AndroidStorageInv, LockInv, KindInv, ViewInv,
    Replaces, Active
<1>2. MoveTo(a, "remove") /\ Allowed(a, "remove")
  BY <1>1 DEF Undo, MoveTo, Allowed, Busy, Installed, Locked, Replaces
<1>3. Knows(a, "remove")
  BY <1>1 DEF Knows, Stay, Before
<1>. QED
  BY <1>2, <1>3, MovePreserves DEF Stay

LEMMA SyncNewPreserves ==
  ASSUME AndroidStorageInv, NEW a \in Actors, SyncNew(a)
  PROVE  AndroidStorageInv'
<1>1. /\ pc[a] \in Busy /\ call[a].kind = "create" /\ view = call[a].new
  BY DEF SyncNew, Busy, Installed, Replaces, AndroidStorageInv, KindInv, ViewInv
<1>2. CASE Goto(a, "verifyNew") /\ may' = {view} /\ view' = view
  <2>1. MoveTo(a, "verifyNew") /\ Allowed(a, "verifyNew")
    BY <1>1, <1>2, GotoMoves DEF SyncNew, Busy, Installed, Locked, Replaces
  <2>2. Knows(a, "verifyNew")
    BY <1>1, <1>2 DEF Knows, Before
  <2>. QED
    BY <1>2, <2>1, <2>2, MovePreserves
<1>3. CASE Undo(a) /\ Stay
  BY <1>3, UndoPreserves DEF SyncNew
<1>. QED
  BY <1>2, <1>3 DEF SyncNew, Stay

LEMMA VerifyNewPreserves ==
  ASSUME AndroidStorageInv, NEW a \in Actors, VerifyNew(a)
  PROVE  AndroidStorageInv'
<1>1. /\ pc[a] \in Busy /\ view = call[a].new /\ may = {view}
  BY DEF VerifyNew, Busy, Installed, AndroidStorageInv, ViewInv
<1>2. CASE End(a, "ok") /\ Stay
  BY <1>1, <1>2, EndPreserves
<1>3. CASE Undo(a) /\ Stay
  BY <1>3, UndoPreserves DEF VerifyNew
<1>. QED
  BY <1>2, <1>3 DEF VerifyNew

(* A container that was installed is still there when its call comes to    *)
(* remove it.                                                              *)
LEMMA RemovePreserves ==
  ASSUME AndroidStorageInv, NEW a \in Actors, Remove(a)
  PROVE  AndroidStorageInv'
<1>1. /\ pc[a] \in Busy /\ call[a].kind = "create" /\ view = call[a].new
      /\ Active(a)
  BY DEF Remove, Busy, Installed, Replaces, AndroidStorageInv, KindInv, ViewInv,
    Active
<1>2. view # Absent
  BY <1>1 DEF AndroidStorageInv, FreshInv, OwnInv, Absent
<1>3. CASE Goto(a, "delete") /\ Stay
  <2>1. MoveTo(a, "delete") /\ Allowed(a, "delete")
    BY <1>1, <1>3, GotoMoves DEF Remove, Busy, Installed, Locked, Replaces
  <2>2. Knows(a, "delete")
    BY <1>1, <1>3 DEF Knows, Before, Stay
  <2>. QED
    BY <1>3, <2>1, <2>2, MovePreserves DEF Stay
<1>4. CASE End(a, "unknown") /\ Stay
  BY <1>1, <1>4, EndPreserves
<1>. QED
  BY <1>2, <1>3, <1>4 DEF Remove

LEMMA DeletePreserves ==
  ASSUME AndroidStorageInv, NEW a \in Actors, Delete(a)
  PROVE  AndroidStorageInv'
<1>0. /\ TypeOK /\ KindInv /\ OwnInv /\ ApartInv /\ ViewInv /\ AckedKept
  BY DEF AndroidStorageInv, FreshInv
<1>1. pc[a] \in Busy /\ pc[a] = "delete" /\ Active(a)
  BY DEF Delete, Busy, Installed, Active
<1>2. call[a].kind = "create" /\ call[a].expected = {} /\ view = call[a].new
  BY <1>0, <1>1 DEF KindInv, ViewInv, Replaces, Installed, Absent
<1>3. CASE Show(Absent) /\ Goto(a, "syncGone")
  <2>1. MoveTo(a, "syncGone") /\ Allowed(a, "syncGone")
    BY <1>1, <1>2, <1>3, GotoMoves DEF Busy, Installed, Undone, Locked, Replaces
  <2>2. Knows(a, "syncGone")
    BY <1>3 DEF Knows, Show, Before, Installed, Absent
  <2>3. view = Update(a) /\ view \in may
    BY <1>0, <1>2 DEF Update, TypeOK
  <2>4. acked \subseteq Absent
    BY <1>0, <1>1, <2>3 DEF AckedKept, ApartInv
  <2>5. Alone(a)
    BY <1>1, AloneHolds
  <2>. QED
    BY <1>3, <2>1, <2>2, <2>4, <2>5, ShowPreserves DEF Absent
<1>4. CASE End(a, "unknown") /\ Stay
  BY <1>1, <1>4, EndPreserves
<1>. QED
  BY <1>3, <1>4 DEF Delete

LEMMA SyncGonePreserves ==
  ASSUME AndroidStorageInv, NEW a \in Actors, SyncGone(a)
  PROVE  AndroidStorageInv'
<1>1. /\ pc[a] \in Busy /\ call[a].kind = "create" /\ Update(a) \cap view = {}
  BY DEF SyncGone, Busy, Undone, Replaces, AndroidStorageInv, KindInv, ViewInv
<1>2. CASE Goto(a, "gone") /\ may' = {view} /\ view' = view
  <2>1. MoveTo(a, "gone") /\ Allowed(a, "gone")
    BY <1>1, <1>2, GotoMoves DEF SyncGone, Busy, Undone, Locked, Replaces
  <2>2. Knows(a, "gone")
    BY <1>1, <1>2 DEF Knows, Before, Installed
  <2>. QED
    BY <1>2, <2>1, <2>2, MovePreserves
<1>3. CASE End(a, "unknown") /\ Stay
  BY <1>1, <1>3, EndPreserves
<1>. QED
  BY <1>2, <1>3 DEF SyncGone, Stay

LEMMA GonePreserves ==
  ASSUME AndroidStorageInv, NEW a \in Actors, Gone(a)
  PROVE  AndroidStorageInv'
<1>1. pc[a] \in Busy /\ \A c \in may : Update(a) \cap c = {}
  BY DEF Gone, Busy, Undone, AndroidStorageInv, FreshInv, HiddenInv
<1>2. CASE End(a, "failed") /\ Stay
  BY <1>1, <1>2, EndPreserves
<1>3. CASE End(a, "unknown") /\ Stay
  BY <1>1, <1>3, EndPreserves
<1>. QED
  BY <1>2, <1>3 DEF Gone

-----------------------------------------------------------------------------
LEMMA AcquirePreserves ==
  ASSUME AndroidStorageInv, NEW a \in Actors, Acquire(a)
  PROVE  AndroidStorageInv'
<1>0. LockInv
  BY DEF AndroidStorageInv
<1>1. Active(a) /\ \A c \in may : Update(a) \cap c = {}
  BY DEF Acquire, Before, AndroidStorageInv, FreshInv, HiddenInv, Active
<1>2. installLock # a
  BY <1>0 DEF LockInv, Acquire, Locked
<1>3. CASE call[a].kind = "create"
  <2>1. MoveTo(a, "exists") /\ Allowed(a, "exists")
    BY <1>1, <1>2, <1>3 DEF Acquire, MoveTo, Allowed, Busy, Before, Locked, Replaces
  <2>2. Knows(a, "exists")
    BY <1>1, <1>3 DEF Acquire, Knows, Installed
  <2>. QED
    BY <2>1, <2>2, MovePreserves DEF Acquire
<1>4. CASE call[a].kind # "create"
  <2>1. MoveTo(a, "compare") /\ Allowed(a, "compare")
    BY <1>1, <1>2, <1>4 DEF Acquire, MoveTo, Allowed, Busy, Before, Locked, Replaces
  <2>2. Knows(a, "compare")
    BY <1>1, <1>4 DEF Acquire, Knows, Installed
  <2>. QED
    BY <2>1, <2>2, MovePreserves DEF Acquire
<1>. QED
  BY <1>3, <1>4

-----------------------------------------------------------------------------
LEMMA InitInv == Init => AndroidStorageInv
<1>. SUFFICES ASSUME Init PROVE AndroidStorageInv
  OBVIOUS
<1>1. TypeOK
  BY SMT DEF Init, TypeOK, NoCall, Absent, Updates
<1>2. LockInv /\ CopyInv /\ KindInv
  BY DEF Init, LockInv, CopyInv, Active, KindInv, NoCall, Absent, Busy, Before, Installed, Undone,
    Locked, Replaces
<1>3. MadeInv /\ OwnInv /\ ApartInv
  BY DEF Init, MadeInv, OwnInv, ApartInv, NoCall, Absent, Active
<1>4. HiddenInv /\ ViewInv
  BY DEF Init, HiddenInv, ViewInv, Before, Installed
<1>5. AckedKept /\ RefusedGone
  BY DEF Init, AckedKept, RefusedGone
<1>. QED
  BY <1>1, <1>2, <1>3, <1>4, <1>5 DEF AndroidStorageInv, FreshInv

LEMMA NextInv ==
  ASSUME AndroidStorageInv, [Next]_vars
  PROVE  AndroidStorageInv'
<1>1. CASE \E a \in Actors : Create(a) \/ Acquire(a) \/ Stage(a) \/ Creating(a)
  BY <1>1, CallPreserves, AcquirePreserves, StagePreserves, ExistsPreserves,
    TakeInstallLockPreserves, InstallPreserves, SyncNewPreserves,
    VerifyNewPreserves, RemovePreserves, DeletePreserves, SyncGonePreserves,
    GonePreserves
  DEF Creating
<1>2. CASE \E s \in Sessions : Persist(s) \/ Migrate(s) \/ Open(s) \/ Lock(s)
                                 \/ Replacing(s)
  BY <1>2, CallPreserves, OpenPreserves, ComparePreserves, ReplacePreserves,
    SyncPreserves, VerifyPreserves, RestorePreserves, ResyncPreserves,
    RestoredPreserves
  DEF Replacing
<1>3. CASE Crash
  <2>1. view \in may /\ Free \notin Sessions /\ Sessions \in SUBSET Actors
    BY DEF AndroidStorageInv, TypeOK
  <2>2. CASE Die(Sessions) /\ Stay
    BY <2>1, <2>2, DiePreserves DEF Stay
  <2>3. ASSUME NEW i \in Importers, Die({i}), Stay
        PROVE  AndroidStorageInv'
    <3>1. Free # i /\ {i} \in SUBSET Actors
      OBVIOUS
    <3>. QED
      BY <2>1, <2>3, <3>1, DiePreserves DEF Stay
  <2>. QED
    BY <1>3, <2>2, <2>3 DEF Crash
<1>4. CASE PowerLoss
  BY <1>4, DiePreserves DEF PowerLoss
<1>5. CASE UNCHANGED vars
  <2>1. /\ view' = view /\ may' = may /\ pathLock' = pathLock
        /\ installLock' = installLock /\ acked' = acked /\ refused' = refused
        /\ pc' = pc /\ call' = call /\ made' = made /\ held' = held
    BY <1>5 DEF vars, locks, reports
  <2>2. TypeOK' /\ LockInv' /\ CopyInv' /\ KindInv' /\ AckedKept' /\ RefusedGone'
    BY <2>1 DEF AndroidStorageInv, TypeOK, LockInv, CopyInv, KindInv, AckedKept,
      RefusedGone, Active
  <2>3. FreshInv'
    BY <2>1 DEF AndroidStorageInv, FreshInv, MadeInv, OwnInv, ApartInv, HiddenInv,
      Active, Update
  <2>4. ViewInv'
    BY <2>1 DEF AndroidStorageInv, ViewInv, Update
  <2>. QED
    BY <2>2, <2>3, <2>4 DEF AndroidStorageInv
<1>. QED
  BY <1>1, <1>2, <1>3, <1>4, <1>5 DEF Next

(* AtomicWalletFiles and its callers account for every update, with any    *)
(* number of sessions of one process and of importing processes.           *)
THEOREM AccountsForUpdates == Spec => []AndroidStorageInv
<1>1. Init => AndroidStorageInv
  BY InitInv
<1>2. AndroidStorageInv /\ [Next]_vars => AndroidStorageInv'
  BY NextInv
<1>. QED
  BY <1>1, <1>2, PTL DEF Spec

(* Once a persist, create or import has reported success, its update is in *)
(* every content the path can show.                                        *)
THEOREM SuccessIsKept == Spec => []AckedKept
<1>1. AndroidStorageInv => AckedKept
  BY DEF AndroidStorageInv
<1>. QED
  BY <1>1, AccountsForUpdates, PTL

(* Once it has reported failure, its update is in none of them.            *)
THEOREM FailureIsGone == Spec => []RefusedGone
<1>1. AndroidStorageInv => RefusedGone
  BY DEF AndroidStorageInv
<1>. QED
  BY <1>1, AccountsForUpdates, PTL

=============================================================================
