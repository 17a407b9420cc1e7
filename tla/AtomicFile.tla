----------------------------- MODULE AtomicFile -----------------------------
(***************************************************************************)
(* What the wallet is promised of a container write: success means the new *)
(* content is durable, failure that nothing has changed, and only an       *)
(* outcome reported as unknown, or the loss of the process, leaves it open *)
(* which of the two contents survives.  ContainerStorage implements it for *)
(* container.py (_atomic_write).                                           *)
(***************************************************************************)
CONSTANTS Data, Absent

VARIABLES
  view,            \* what a reader of the path sees now
  may,             \* what a reader may see after a power loss
  status,          \* "busy" during a call, else how the last one ended
  old, new, base   \* of the last call: view before, content, may before

vars == <<view, may, status, old, new, base>>

Init ==
  /\ view \in Data \cup {Absent} /\ may = {view}
  /\ status = "ok" /\ old = view /\ new = view /\ base = may

Begin(d) ==
  /\ status # "busy"
  /\ status' = "busy" /\ new' = d /\ old' = view /\ base' = may
  /\ UNCHANGED <<view, may>>

Change ==
  /\ status = "busy"
  /\ view' \in {old, new} /\ may' = may \cup {view'}
  /\ UNCHANGED <<status, old, new, base>>

Sync ==
  /\ status = "busy"
  /\ may' = {view}
  /\ UNCHANGED <<view, status, old, new, base>>

(* The last directory sync and the report may be one step.                 *)
Succeed ==
  /\ status = "busy" /\ view = new
  /\ status' = "ok" /\ may' = {new}
  /\ UNCHANGED <<view, old, new, base>>

Fail ==
  /\ status = "busy" /\ view = old
  /\ may \in {base, {old}}
  /\ status' = "failed"
  /\ UNCHANGED <<view, may, old, new, base>>

(* The last attempt to repair and the report may be one step.              *)
GiveUp ==
  /\ status = "busy"
  /\ status' = "unknown"
  /\ \/ UNCHANGED <<view, may>>
     \/ view' \in {old, new} /\ may' = may \cup {view'}
  /\ UNCHANGED <<old, new, base>>

(* The process dies, or the power fails and unsynced changes may go.       *)
Lose ==
  /\ status' = "lost"
  /\ \/ UNCHANGED <<view, may>>
     \/ view' \in may /\ may' = {view'}
  /\ UNCHANGED <<old, new, base>>

Next ==
  \/ \E d \in Data : Begin(d)
  \/ Change \/ Sync \/ Succeed \/ Fail \/ GiveUp \/ Lose

Spec == Init /\ [][Next]_vars

=============================================================================
