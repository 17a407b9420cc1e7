---------------------------- MODULE ReplayJournal ----------------------------
(***************************************************************************)
(* FileAndroidIdentityReplayNonceStore: consume under a lock per process   *)
(* and a file lock between processes, over an append-only journal.  Reads, *)
(* writes and forces may fail, a process may die between two writes, and   *)
(* a power failure may cut or garble what was not forced.                  *)
(*                                                                         *)
(* A record is its digest, or Garbage when its magic or checksum is wrong, *)
(* and how far it is on disk: "cached", "forced", or "doubtful" when a     *)
(* force failed after it was written (a later force need not write it).    *)
(***************************************************************************)
EXTENDS Naturals, Sequences

CONSTANTS
  Threads, Processes, ProcessOf,   \* the callers, and where they run
  Digests, Garbage, Free,
  MaxRecords                       \* MAX_RECORDS

ASSUME JournalAssumption ==
  /\ ProcessOf \in [Threads -> Processes]
  /\ Garbage \notin Digests /\ Free \notin Threads
  /\ MaxRecords \in Nat

VARIABLES
  log, torn,              \* whole records, and whether a part of one follows
  processLock, fileLock,  \* holders
  pc, digest,             \* per thread
  granted                 \* per digest: how often consume returned true

vars == <<log, torn, processLock, fileLock, pc, digest, granted>>

Init ==
  /\ log = <<>> /\ torn = FALSE
  /\ processLock = [p \in Processes |-> Free] /\ fileLock = Free
  /\ pc = [t \in Threads |-> "idle"] /\ digest \in [Threads -> Digests]
  /\ granted = [d \in Digests |-> 0]

-----------------------------------------------------------------------------
Call(t, d) ==
  /\ pc[t] = "idle"
  /\ pc' = [pc EXCEPT ![t] = "enter"] /\ digest' = [digest EXCEPT ![t] = d]
  /\ UNCHANGED <<log, torn, processLock, fileLock, granted>>

(* consume returns or throws, and the locks are given back.                *)
Return(t, r) ==
  /\ pc' = [pc EXCEPT ![t] = "idle"]
  /\ processLock' = [processLock EXCEPT ![ProcessOf[t]] = Free]
  /\ fileLock' = IF fileLock = t THEN Free ELSE fileLock
  /\ granted' = [granted EXCEPT ![digest[t]] = IF r = "true" THEN @ + 1 ELSE @]
  /\ UNCHANGED digest

Goto(t, there) ==
  /\ pc' = [pc EXCEPT ![t] = there]
  /\ UNCHANGED <<processLock, fileLock, digest, granted>>

Enter(t) ==
  /\ pc[t] = "enter" /\ processLock[ProcessOf[t]] = Free
  /\ processLock' = [processLock EXCEPT ![ProcessOf[t]] = t]
  /\ pc' = [pc EXCEPT ![t] = "lock"]
  /\ UNCHANGED <<log, torn, fileLock, digest, granted>>

\* Mutant: the file lock of another process is not waited for.
LockFileShared(t) ==
  /\ pc[t] = "lock"
  /\ \/ /\ fileLock' = t /\ pc' = [pc EXCEPT ![t] = "scan"]
        /\ UNCHANGED <<processLock, digest, granted>>
     \/ Return(t, "error")
  /\ UNCHANGED <<log, torn>>

(* The directory or a lock file may be unusable.                           *)
LockFile(t) ==
  /\ pc[t] = "lock"
  /\ \/ /\ fileLock = Free /\ fileLock' = t /\ pc' = [pc EXCEPT ![t] = "scan"]
        /\ UNCHANGED <<processLock, digest, granted>>
     \/ Return(t, "error")
  /\ UNCHANGED <<log, torn>>

(* The first record that stops the scan: garbage, or the digest itself.    *)
Stops(t, i) == log[i].digest \in {Garbage, digest[t]}
FirstStop(t, i) == Stops(t, i) /\ \A j \in 1..(i - 1) : ~Stops(t, j)

\* Mutant: a full journal takes one more record.
RoomOffByOne == Len(log) <= MaxRecords

Room == Len(log) < MaxRecords

Scan(t) ==
  /\ pc[t] = "scan"
  /\ \/ Return(t, "error")
     \/ /\ ~torn /\ Len(log) <= MaxRecords
        /\ \E i \in 1..Len(log) : FirstStop(t, i) /\ log[i].digest = digest[t]
        /\ Return(t, "false")
     \/ /\ ~torn /\ Room
        /\ \A i \in 1..Len(log) : ~Stops(t, i)
        /\ Goto(t, "append")
  /\ UNCHANGED <<log, torn>>

(* channel.write may write a part, and may fail before or after it.        *)
Append1(t) ==
  /\ pc[t] = "append"
  /\ \/ torn' = TRUE /\ Goto(t, "rest")
     \/ Return(t, "error") /\ UNCHANGED torn
  /\ UNCHANGED log

AppendRest(t) ==
  /\ pc[t] = "rest"
  /\ \/ /\ log' = Append(log, [digest |-> digest[t], disk |-> "cached"])
        /\ torn' = FALSE /\ Goto(t, "force")
     \/ Return(t, "error") /\ UNCHANGED <<log, torn>>

\* Mutant: success is reported without a force.
ForceSkipped(t) ==
  /\ pc[t] = "force" /\ Return(t, "true")
  /\ UNCHANGED <<log, torn>>

Mark(from, to) ==
  log' = [i \in DOMAIN log |->
            IF log[i].disk = from THEN [log[i] EXCEPT !.disk = to] ELSE log[i]]

ForceChannel(t) ==
  /\ pc[t] = "force"
  /\ \/ Mark("cached", "forced") /\ Return(t, "true")
     \/ Mark("cached", "doubtful") /\ Return(t, "error")
  /\ UNCHANGED torn

-----------------------------------------------------------------------------
(* A process dies; its locks go with it, its writes stay.                  *)
Die(dead) ==
  /\ pc' = [t \in Threads |-> IF ProcessOf[t] \in dead THEN "idle" ELSE pc[t]]
  /\ processLock' = [p \in Processes |-> IF p \in dead THEN Free ELSE processLock[p]]
  /\ fileLock' = IF fileLock # Free /\ ProcessOf[fileLock] \in dead THEN Free
                 ELSE fileLock
  /\ UNCHANGED <<digest, granted>>

Crash(p) == Die({p}) /\ UNCHANGED <<log, torn>>

(* What was not forced is cut off or garbled; forced records and the file  *)
(* name stay.                                                              *)
PowerLoss ==
  /\ Die(Processes)
  /\ \E n \in 0..Len(log), bad \in SUBSET (1..Len(log)) :
       /\ \A i \in 1..Len(log) : log[i].disk = "forced" => i <= n /\ i \notin bad
       /\ log' = [i \in 1..n |-> [digest |-> IF i \in bad THEN Garbage ELSE log[i].digest,
                                  disk |-> "forced"]]
       /\ torn' \in (IF n = Len(log) THEN {torn, FALSE} ELSE BOOLEAN)

Next ==
  \/ \E t \in Threads :
       \/ \E d \in Digests : Call(t, d)
       \/ Enter(t) \/ LockFile(t) \/ Scan(t) \/ Append1(t) \/ AppendRest(t)
       \/ ForceChannel(t)
  \/ \E p \in Processes : Crash(p)
  \/ PowerLoss

Spec == Init /\ [][Next]_vars

-----------------------------------------------------------------------------
(* Types, and the journal never outgrows MAX_RECORDS: one record more and  *)
(* every later consume would be refused for its size.                      *)
TypeOK ==
  /\ log \in Seq([digest : Digests \cup {Garbage},
                  disk : {"cached", "forced", "doubtful"}])
  /\ Len(log) <= MaxRecords /\ torn \in BOOLEAN
  /\ processLock \in [Processes -> Threads \cup {Free}]
  /\ fileLock \in Threads \cup {Free}
  /\ pc \in [Threads -> {"idle", "enter", "lock", "scan", "append", "rest", "force"}]
  /\ digest \in [Threads -> Digests]
  /\ granted \in [Digests -> Nat]

(* consume returns true at most once for a digest: not to two threads, not *)
(* to two processes, and not again after a torn write, a failed force, a   *)
(* crash or a power failure.                                               *)
GrantedOnce == \A d \in Digests : granted[d] <= 1

(* What force(true) is for: once a digest is granted, its record stays     *)
(* whole and on disk, whatever is torn, garbled or cut around it, so that  *)
(* no restart can make the store forget it.                                *)
GrantIsRemembered ==
  \A d \in Digests : granted[d] > 0 =>
    \E i \in 1..Len(log) : log[i].digest = d /\ log[i].disk = "forced"

=============================================================================
