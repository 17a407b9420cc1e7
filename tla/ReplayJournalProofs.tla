------------------------- MODULE ReplayJournalProofs -------------------------
(***************************************************************************)
(* That the replay journal grants a digest once and never forgets it, for  *)
(* any threads, processes and digests and a journal of any size.           *)
(***************************************************************************)
EXTENDS ReplayJournal, TLAPS

(* Zenon proves the leaves that name no prover.                            *)
USE ZenonT(60)

Working == {"scan", "append", "rest", "force"}

(* A thread that reads or writes the journal holds the file lock, and the  *)
(* holder of the file lock does.                                           *)
LockInv == \A t \in Threads : pc[t] \in Working <=> fileLock = t

Unrecorded(d) == \A i \in 1..Len(log) : log[i].digest # d

(* What the holder knows of the journal, from its scan on: its digest has  *)
(* not been granted and, until its record is whole, not been written.      *)
HolderInv ==
  \A t \in Threads :
    /\ pc[t] \in {"append", "rest"} =>
         Len(log) < MaxRecords /\ Unrecorded(digest[t])
    /\ pc[t] = "force" =>
         /\ Len(log) > 0
         /\ log[Len(log)] = [digest |-> digest[t], disk |-> "cached"]
         /\ granted[digest[t]] = 0

JournalInv ==
  TypeOK /\ LockInv /\ HolderInv /\ GrantIsRemembered /\ GrantedOnce

-----------------------------------------------------------------------------
Records == [digest : Digests \cup {Garbage},
            disk : {"cached", "forced", "doubtful"}]

(* A step that leaves forced records as they are forgets no grant.         *)
KeepsForced ==
  \A i \in 1..Len(log) : log[i].disk = "forced" =>
    i \in 1..Len(log)' /\ log'[i].digest = log[i].digest /\ log'[i].disk = "forced"

LEMMA StillRemembered ==
  ASSUME GrantIsRemembered, GrantedOnce, KeepsForced, UNCHANGED granted
  PROVE  GrantIsRemembered' /\ GrantedOnce'
  BY DEF GrantIsRemembered, GrantedOnce, KeepsForced

(* Only the holder of the file lock works on the journal.                  *)
LEMMA OthersDoNotWork ==
  ASSUME JournalInv, NEW t \in Threads, pc[t] \in Working
  PROVE  /\ fileLock = t
         /\ \A u \in Threads : u # t => pc[u] \notin Working
  BY DEF JournalInv, LockInv

(* consume gives up or refuses: whatever the holder did to the journal,    *)
(* its forced records stay.                                                *)
LEMMA ReturnPreserves ==
  ASSUME JournalInv, NEW t \in Threads, NEW r \in {"false", "error"},
         pc[t] \in Working \cup {"lock"}, Return(t, r), torn' \in BOOLEAN,
         \/ UNCHANGED log
         \/ /\ pc[t] \in Working /\ log' \in Seq(Records)
            /\ Len(log') <= MaxRecords /\ KeepsForced
  PROVE  JournalInv'
<1>1. TypeOK /\ LockInv /\ HolderInv /\ GrantIsRemembered /\ GrantedOnce
  BY DEF JournalInv
<1>2. /\ pc' = [pc EXCEPT ![t] = "idle"] /\ UNCHANGED <<digest, granted>>
      /\ fileLock' = IF fileLock = t THEN Free ELSE fileLock
  BY <1>1 DEF Return, TypeOK
<1>3. KeepsForced
  BY <1>1 DEF KeepsForced
<1>4. TypeOK'
  <2>1. log' \in Seq(Records) /\ Len(log') <= MaxRecords
    BY <1>1 DEF TypeOK, Records
  <2>2. processLock' \in [Processes -> Threads \cup {Free}]
    BY <1>1, JournalAssumption DEF TypeOK, Return
  <2>. QED
    BY <1>1, <1>2, <2>1, <2>2 DEF TypeOK, Records
<1>5. LockInv'
  BY <1>1, <1>2, JournalAssumption DEF LockInv, TypeOK, Working
<1>6. HolderInv'
  <2> SUFFICES ASSUME NEW u \in Threads, u # t, pc[u] \in {"append", "rest", "force"}
               PROVE  UNCHANGED log
    BY <1>1, <1>2 DEF HolderInv, TypeOK, Unrecorded
  <2>1. pc[t] \notin Working
    BY OthersDoNotWork DEF Working
  <2>. QED
    BY <2>1
<1>7. GrantIsRemembered' /\ GrantedOnce'
  BY <1>1, <1>2, <1>3, StillRemembered
<1>. QED
  BY <1>4, <1>5, <1>6, <1>7 DEF JournalInv

(* A step on the way in.                                                   *)
LEMMA ApproachPreserves ==
  ASSUME JournalInv, NEW t \in Threads,
         \/ \E d \in Digests : Call(t, d)
         \/ Enter(t)
  PROVE  JournalInv'
<1>1. TypeOK /\ LockInv /\ HolderInv /\ GrantIsRemembered /\ GrantedOnce
  BY DEF JournalInv
<1>2. PICK to \in {"enter", "lock"} : pc' = [pc EXCEPT ![t] = to]
  BY DEF Call, Enter
<1>3. /\ UNCHANGED <<log, torn, fileLock, granted>> /\ pc[t] \notin Working
      /\ \A u \in Threads : u # t => digest'[u] = digest[u] /\ pc'[u] = pc[u]
  BY <1>1 DEF Call, Enter, TypeOK, Working
<1>4. TypeOK'
  BY <1>1, <1>2, <1>3 DEF TypeOK, Call, Enter
<1>5. LockInv' /\ HolderInv'
  <2>1. pc'[t] \notin Working
    BY <1>1, <1>2 DEF TypeOK, Working
  <2>2. LockInv'
    BY <1>1, <1>3, <2>1 DEF LockInv
  <2>3. HolderInv'
    BY <1>1, <1>3, <2>1 DEF HolderInv, Unrecorded, Working
  <2>. QED
    BY <2>2, <2>3
<1>6. GrantIsRemembered' /\ GrantedOnce'
  BY <1>1, <1>3 DEF GrantIsRemembered, GrantedOnce
<1>. QED
  BY <1>4, <1>5, <1>6 DEF JournalInv

LEMMA LockFilePreserves ==
  ASSUME JournalInv, NEW t \in Threads, LockFile(t)
  PROVE  JournalInv'
<1>1. TypeOK /\ LockInv /\ HolderInv /\ GrantIsRemembered /\ GrantedOnce
  BY DEF JournalInv
<1>2. CASE Return(t, "error")
  BY <1>1, <1>2, ReturnPreserves DEF LockFile, TypeOK
<1>3. CASE /\ fileLock = Free /\ fileLock' = t /\ pc' = [pc EXCEPT ![t] = "scan"]
           /\ UNCHANGED <<processLock, digest, granted>>
  <2>1. UNCHANGED <<log, torn>>
    BY DEF LockFile
  <2>2. \A u \in Threads : pc[u] \notin Working
    BY <1>1, <1>3, JournalAssumption DEF LockInv
  <2>3. TypeOK'
    BY <1>1, <1>3, <2>1 DEF TypeOK
  <2>4. LockInv'
    BY <1>1, <1>3, <2>2 DEF LockInv, TypeOK, Working
  <2>5. HolderInv'
    BY <1>1, <1>3, <2>2 DEF HolderInv, TypeOK, Working
  <2>6. GrantIsRemembered' /\ GrantedOnce'
    BY <1>1, <1>3, <2>1 DEF GrantIsRemembered, GrantedOnce
  <2>. QED
    BY <2>3, <2>4, <2>5, <2>6 DEF JournalInv
<1>. QED
  BY <1>2, <1>3 DEF LockFile

(* The holder goes on with its call.                                       *)
LEMMA GotoPreserves ==
  ASSUME JournalInv, NEW t \in Threads, pc[t] \in Working,
         NEW to \in {"append", "rest", "force"}, Goto(t, to),
         torn' \in BOOLEAN, log' \in Seq(Records), Len(log') <= MaxRecords,
         KeepsForced,
         to \in {"append", "rest"} =>
           Len(log') < MaxRecords /\ Unrecorded(digest[t])',
         to = "force" =>
           /\ Len(log') > 0
           /\ log'[Len(log')] = [digest |-> digest[t], disk |-> "cached"]
           /\ granted[digest[t]] = 0
  PROVE  JournalInv'
<1>1. TypeOK /\ LockInv /\ HolderInv /\ GrantIsRemembered /\ GrantedOnce
  BY DEF JournalInv
<1>2. /\ pc' = [pc EXCEPT ![t] = to]
      /\ UNCHANGED <<processLock, fileLock, digest, granted>>
  BY DEF Goto
<1>3. TypeOK'
  BY <1>1, <1>2 DEF TypeOK, Records
<1>4. LockInv'
  BY <1>1, <1>2 DEF LockInv, TypeOK, Working
<1>5. HolderInv'
  <2> SUFFICES ASSUME NEW u \in Threads, u # t PROVE pc'[u] \notin Working
    BY <1>1, <1>2 DEF HolderInv, TypeOK, Unrecorded, Working
  <2>. QED
    BY <1>1, <1>2, OthersDoNotWork DEF TypeOK
<1>6. GrantIsRemembered' /\ GrantedOnce'
  BY <1>1, <1>2, StillRemembered
<1>. QED
  BY <1>3, <1>4, <1>5, <1>6 DEF JournalInv
-----------------------------------------------------------------------------
LEMMA ScanPreserves ==
  ASSUME JournalInv, NEW t \in Threads, Scan(t)
  PROVE  JournalInv'
<1>1. TypeOK /\ pc[t] = "scan" /\ UNCHANGED <<log, torn>>
  BY DEF JournalInv, Scan
<1>2. CASE Return(t, "error") \/ Return(t, "false")
  BY <1>1, <1>2, ReturnPreserves DEF TypeOK, Working
<1>3. CASE Room /\ (\A i \in 1..Len(log) : ~Stops(t, i)) /\ Goto(t, "append")
  <2>1. KeepsForced
    BY <1>1 DEF KeepsForced
  <2>2. Unrecorded(digest[t])'
    BY <1>1, <1>3 DEF Stops, Unrecorded, Goto
  <2>3. log' \in Seq(Records) /\ torn' \in BOOLEAN /\ Len(log') < MaxRecords
    BY <1>1, <1>3 DEF TypeOK, Room, Records
  <2>. QED
    BY <1>1, <1>3, <2>1, <2>2, <2>3, GotoPreserves, JournalAssumption
       DEF Working, TypeOK
<1>. QED
  BY <1>2, <1>3 DEF Scan

LEMMA Append1Preserves ==
  ASSUME JournalInv, NEW t \in Threads, Append1(t)
  PROVE  JournalInv'
<1>1. TypeOK /\ HolderInv /\ pc[t] = "append" /\ UNCHANGED log
  BY DEF JournalInv, Append1
<1>2. CASE Return(t, "error") /\ UNCHANGED torn
  BY <1>1, <1>2, ReturnPreserves DEF TypeOK, Working
<1>3. CASE torn' = TRUE /\ Goto(t, "rest")
  <2>1. KeepsForced
    BY <1>1 DEF KeepsForced
  <2>2. Unrecorded(digest[t])' /\ Len(log') < MaxRecords
    BY <1>1, <1>3 DEF HolderInv, Unrecorded, Goto
  <2>3. log' \in Seq(Records) /\ Len(log') <= MaxRecords
    BY <1>1 DEF TypeOK, Records
  <2>. QED
    BY <1>1, <1>3, <2>1, <2>2, <2>3, GotoPreserves DEF Working
<1>. QED
  BY <1>2, <1>3 DEF Append1

(* The whole record is there, for the first time.                          *)
LEMMA AppendRestPreserves ==
  ASSUME JournalInv, NEW t \in Threads, AppendRest(t)
  PROVE  JournalInv'
<1>1. TypeOK /\ HolderInv /\ GrantIsRemembered /\ pc[t] = "rest"
  BY DEF JournalInv, AppendRest
<1>2. CASE Return(t, "error") /\ UNCHANGED <<log, torn>>
  BY <1>1, <1>2, ReturnPreserves DEF TypeOK, Working
<1>3. CASE /\ log' = Append(log, [digest |-> digest[t], disk |-> "cached"])
           /\ torn' = FALSE /\ Goto(t, "force")
  <2> DEFINE new == [digest |-> digest[t], disk |-> "cached"]
  <2>1. new \in Records /\ log \in Seq(Records) /\ Len(log) < MaxRecords
    BY <1>1 DEF TypeOK, Records, HolderInv
  <2> HIDE DEF new
  <2>2. /\ log' \in Seq(Records) /\ Len(log') = Len(log) + 1
        /\ log'[Len(log')] = new
        /\ \A i \in 1..Len(log) : i \in 1..Len(log') /\ log'[i] = log[i]
    BY SMT, <1>3, <2>1 DEF new
  <2>3. Len(log') > 0 /\ Len(log') <= MaxRecords
    BY SMT, <2>1, <2>2, JournalAssumption
  <2>4. KeepsForced
    BY <2>2 DEF KeepsForced
  <2>5. granted[digest[t]] = 0
    <3>1. digest[t] \in Digests /\ granted[digest[t]] \in Nat
      BY <1>1 DEF TypeOK
    <3>2. Unrecorded(digest[t])
      BY <1>1 DEF HolderInv
    <3>3. ~(granted[digest[t]] > 0)
      BY <1>1, <3>1, <3>2 DEF GrantIsRemembered, Unrecorded
    <3>. QED
      BY SMT, <3>1, <3>3
  <2>. QED
    BY <1>1, <1>3, <2>2, <2>3, <2>4, <2>5, GotoPreserves DEF Working, new
<1>. QED
  BY <1>2, <1>3 DEF AppendRest

(* Marking what is cached keeps the records and what is forced.            *)
LEMMA MarkKeeps ==
  ASSUME TypeOK, NEW to \in {"forced", "doubtful"}, Mark("cached", to)
  PROVE  /\ log' \in Seq(Records) /\ Len(log') = Len(log) /\ KeepsForced
         /\ \A i \in 1..Len(log) : log[i].disk = "cached" =>
              log'[i].digest = log[i].digest /\ log'[i].disk = to
<1>1. log \in Seq(Records)
  BY DEF TypeOK, Records
<1>2. \A i \in 1..Len(log) : log[i] \in Records
  BY SMT, <1>1
<1>3. \A i \in 1..Len(log) :
        /\ log'[i] \in Records /\ log'[i].digest = log[i].digest
        /\ log'[i].disk = IF log[i].disk = "cached" THEN to ELSE log[i].disk
  BY SMT, <1>1, <1>2 DEF Mark, Records
<1>4. log' \in Seq(Records) /\ Len(log') = Len(log)
  <2>1. DOMAIN log' = 1..Len(log) /\ log' = [i \in 1..Len(log) |-> log'[i]]
    BY SMT, <1>1 DEF Mark
  <2>. QED
    BY SMT, <1>1, <1>3, <2>1
<1>. QED
  BY <1>3, <1>4 DEF KeepsForced

(* Success is reported only now, when the record has been forced.          *)
LEMMA ForcePreserves ==
  ASSUME JournalInv, NEW t \in Threads, ForceChannel(t)
  PROVE  JournalInv'
<1>1. /\ TypeOK /\ LockInv /\ HolderInv /\ GrantIsRemembered /\ GrantedOnce
      /\ pc[t] = "force" /\ UNCHANGED torn
  BY DEF JournalInv, ForceChannel
<1>2. CASE Mark("cached", "doubtful") /\ Return(t, "error")
  <2>1. log' \in Seq(Records) /\ Len(log') <= MaxRecords /\ KeepsForced
    BY <1>1, <1>2, MarkKeeps DEF TypeOK
  <2>. QED
    BY <1>1, <1>2, <2>1, ReturnPreserves DEF TypeOK, Working
<1>3. CASE Mark("cached", "forced") /\ Return(t, "true")
  <2> DEFINE own == digest[t]
             n == Len(log)
  <2>1. /\ log' \in Seq(Records) /\ Len(log') = n /\ KeepsForced
        /\ \A i \in 1..n : log[i].disk = "cached" =>
             log'[i].digest = log[i].digest /\ log'[i].disk = "forced"
    BY <1>1, <1>3, MarkKeeps
  <2>2. /\ n \in 1..n /\ log[n].digest = own /\ log[n].disk = "cached"
        /\ granted[own] = 0 /\ own \in Digests
    <3>1. n > 0 /\ log[n] = [digest |-> own, disk |-> "cached"] /\ granted[own] = 0
      BY <1>1 DEF HolderInv
    <3>2. n \in Nat /\ own \in Digests
      BY SMT, <1>1 DEF TypeOK
    <3> HIDE DEF n, own
    <3>. QED
      BY SMT, <3>1, <3>2
  <2>3. /\ pc' = [pc EXCEPT ![t] = "idle"] /\ UNCHANGED digest
        /\ fileLock' = IF fileLock = t THEN Free ELSE fileLock
        /\ granted' = [granted EXCEPT ![own] = 1]
    BY SMT, <1>1, <1>3, <2>2 DEF Return, TypeOK
  <2> HIDE DEF own, n
  <2>4. TypeOK'
    <3>1. processLock' \in [Processes -> Threads \cup {Free}]
      BY <1>1, <1>3, JournalAssumption DEF TypeOK, Return
    <3>2. Len(log') <= MaxRecords
      BY <1>1, <2>1 DEF TypeOK, n
    <3>3. granted' \in [Digests -> Nat]
      BY <1>1, <2>3 DEF TypeOK
    <3>. QED
      BY <1>1, <2>1, <2>3, <3>1, <3>2, <3>3 DEF TypeOK, Records
  <2>5. \A u \in Threads : pc'[u] \notin Working /\ fileLock' # u
    <3>1. fileLock = t /\ \A u \in Threads : u # t => pc[u] \notin Working
      BY <1>1, OthersDoNotWork DEF Working
    <3>. QED
      BY <1>1, <2>3, <3>1, JournalAssumption DEF TypeOK, Working
  <2>6. LockInv' /\ HolderInv'
    BY <2>5 DEF LockInv, HolderInv, Working
  <2>7. GrantedOnce'
    BY SMT, <1>1, <2>3 DEF GrantedOnce, TypeOK
  <2>8. GrantIsRemembered'
    <3> SUFFICES ASSUME NEW g \in Digests, granted'[g] > 0
                 PROVE  \E i \in 1..Len(log') :
                          log'[i].digest = g /\ log'[i].disk = "forced"
      BY DEF GrantIsRemembered
    <3>1. CASE g = own
      BY <2>1, <2>2, <3>1
    <3>2. CASE g # own
      <4>1. granted[g] > 0
        BY <1>1, <2>3, <3>2 DEF TypeOK
      <4>2. PICK i \in 1..Len(log) : log[i].digest = g /\ log[i].disk = "forced"
        BY <1>1, <4>1 DEF GrantIsRemembered
      <4>. QED
        BY <2>1, <4>2 DEF KeepsForced
    <3>. QED
      BY <3>1, <3>2
  <2>. QED
    BY <2>4, <2>6, <2>7, <2>8 DEF JournalInv
<1>. QED
  BY <1>2, <1>3 DEF ForceChannel
(* Processes die; every thread left that works on the journal still holds  *)
(* its lock.                                                               *)
LEMMA DiePreserves ==
  ASSUME JournalInv, NEW dead, Die(dead), torn' \in BOOLEAN,
         log' \in Seq(Records), Len(log') <= MaxRecords, KeepsForced,
         log' = log \/ \A t \in Threads : ProcessOf[t] \in dead
  PROVE  JournalInv'
<1>1. TypeOK /\ LockInv /\ HolderInv /\ GrantIsRemembered /\ GrantedOnce
  BY DEF JournalInv
<1>2. /\ pc' = [t \in Threads |-> IF ProcessOf[t] \in dead THEN "idle" ELSE pc[t]]
      /\ fileLock' = IF fileLock # Free /\ ProcessOf[fileLock] \in dead
                       THEN Free ELSE fileLock
      /\ UNCHANGED <<digest, granted>>
  BY DEF Die
<1>3. TypeOK'
  <2>1. processLock' \in [Processes -> Threads \cup {Free}]
    BY <1>1 DEF Die, TypeOK
  <2>. QED
    BY <1>1, <1>2, <2>1 DEF TypeOK, Records
<1>4. LockInv'
  <2> SUFFICES ASSUME NEW t \in Threads
               PROVE  pc'[t] \in Working <=> fileLock' = t
    BY DEF LockInv
  <2>1. t # Free
    BY JournalAssumption
  <2>2. CASE ProcessOf[t] \in dead
    BY <1>2, <2>1, <2>2 DEF Working
  <2>3. CASE ProcessOf[t] \notin dead
    BY <1>1, <1>2, <2>1, <2>3 DEF LockInv
  <2>. QED
    BY <2>2, <2>3
<1>5. HolderInv'
  <2> SUFFICES ASSUME NEW t \in Threads, pc'[t] \in {"append", "rest", "force"}
               PROVE  pc'[t] = pc[t] /\ UNCHANGED log
    BY <1>1, <1>2 DEF HolderInv, Unrecorded
  <2>. QED
    BY <1>2
<1>6. GrantIsRemembered' /\ GrantedOnce'
  BY <1>1, <1>2, StillRemembered
<1>. QED
  BY <1>3, <1>4, <1>5, <1>6 DEF JournalInv

LEMMA CrashPreserves ==
  ASSUME JournalInv, NEW p \in Processes, Crash(p)
  PROVE  JournalInv'
<1>1. TypeOK /\ UNCHANGED <<log, torn>> /\ Die({p})
  BY DEF JournalInv, Crash
<1>2. KeepsForced
  BY <1>1 DEF KeepsForced
<1>3. torn' \in BOOLEAN /\ log' \in Seq(Records) /\ Len(log') <= MaxRecords
  BY <1>1 DEF TypeOK, Records
<1>. QED
  BY <1>1, <1>2, <1>3, DiePreserves

LEMMA PowerLossPreserves ==
  ASSUME JournalInv, PowerLoss
  PROVE  JournalInv'
<1>1. TypeOK /\ Die(Processes)
  BY DEF JournalInv, PowerLoss
<1>2. PICK n \in 0..Len(log), bad \in SUBSET (1..Len(log)) :
        /\ \A i \in 1..Len(log) : log[i].disk = "forced" => i <= n /\ i \notin bad
        /\ log' = [i \in 1..n |->
                     [digest |-> IF i \in bad THEN Garbage ELSE log[i].digest,
                      disk |-> "forced"]]
        /\ torn' \in (IF n = Len(log) THEN {torn, FALSE} ELSE BOOLEAN)
  BY DEF PowerLoss
<1>3. log \in Seq(Records) /\ Len(log) \in Nat /\ Len(log) <= MaxRecords
  BY SMT, <1>1 DEF TypeOK, Records
<1>4. \A i \in 1..n : log[i].digest \in Digests \cup {Garbage}
  <2>1. \A i \in 1..n : i \in 1..Len(log)
    BY SMT, <1>3
  <2>2. \A i \in 1..Len(log) : log[i] \in Records
    BY SMT, <1>3
  <2>. QED
    BY <2>1, <2>2 DEF Records
<1>5. log' \in Seq(Records) /\ Len(log') = n
  <2>1. \A i \in 1..n :
          [digest |-> IF i \in bad THEN Garbage ELSE log[i].digest,
           disk |-> "forced"] \in Records
    BY <1>4 DEF Records
  <2>2. n \in Nat
    BY SMT, <1>3
  <2>. QED
    BY SMT, <1>2, <2>1, <2>2
<1>6. Len(log') <= MaxRecords /\ torn' \in BOOLEAN
  <2>1. Len(log') <= MaxRecords
    BY SMT, <1>3, <1>5, JournalAssumption
  <2>2. torn \in BOOLEAN
    BY <1>1 DEF TypeOK
  <2>3. torn' \in BOOLEAN
    BY <1>2, <2>2
  <2>. QED
    BY <2>1, <2>3
<1>7. KeepsForced
  <2> SUFFICES ASSUME NEW i \in 1..Len(log), log[i].disk = "forced"
               PROVE  /\ i \in 1..Len(log') /\ log'[i].digest = log[i].digest
                      /\ log'[i].disk = "forced"
    BY DEF KeepsForced
  <2>1. i \in 1..n /\ i \notin bad
    BY SMT, <1>2, <1>3
  <2>. QED
    BY <1>2, <1>5, <2>1
<1>8. \A t \in Threads : ProcessOf[t] \in Processes
  BY JournalAssumption
<1>. QED
  BY <1>1, <1>5, <1>6, <1>7, <1>8, DiePreserves

-----------------------------------------------------------------------------
(* The invariant of the journal, its locks and its callers holds in every  *)
(* behaviour.                                                              *)
THEOREM JournalInvariant == Spec => []JournalInv
<1>1. Init => JournalInv
  <2> SUFFICES ASSUME Init PROVE JournalInv
    OBVIOUS
  <2>1. TypeOK
    <3>1. log \in Seq(Records) /\ Len(log) <= MaxRecords
      BY SMT, JournalAssumption DEF Init
    <3>2. /\ torn \in BOOLEAN
          /\ processLock \in [Processes -> Threads \cup {Free}]
          /\ fileLock \in Threads \cup {Free}
          /\ granted \in [Digests -> Nat]
      BY DEF Init
    <3>. QED
      BY <3>1, <3>2 DEF Init, TypeOK, Records
  <2>2. LockInv /\ HolderInv
    BY JournalAssumption DEF Init, LockInv, HolderInv, Working
  <2>3. GrantIsRemembered /\ GrantedOnce
    BY SMT DEF Init, GrantIsRemembered, GrantedOnce
  <2>. QED
    BY <2>1, <2>2, <2>3 DEF JournalInv
<1>2. ASSUME JournalInv, [Next]_vars PROVE JournalInv'
  <2>1. ASSUME NEW t \in Threads,
               \/ \E d \in Digests : Call(t, d)
               \/ Enter(t) \/ LockFile(t) \/ Scan(t) \/ Append1(t)
               \/ AppendRest(t) \/ ForceChannel(t)
        PROVE  JournalInv'
    BY <1>2, <2>1, ApproachPreserves, LockFilePreserves, ScanPreserves,
       Append1Preserves, AppendRestPreserves, ForcePreserves
  <2>2. CASE UNCHANGED vars
    BY <1>2, <2>2 DEF vars, JournalInv, TypeOK, LockInv, HolderInv, Unrecorded,
       GrantIsRemembered, GrantedOnce
  <2>. QED
    BY <1>2, <2>1, <2>2, CrashPreserves, PowerLossPreserves DEF Next
<1>. QED
  BY <1>1, <1>2, PTL DEF Spec

(* The journal never outgrows MAX_RECORDS, so that a full store refuses    *)
(* new nonces and still recognizes the old ones.                           *)
THEOREM JournalTypeCorrect == Spec => []TypeOK
<1>1. JournalInv => TypeOK
  BY DEF JournalInv
<1>. QED
  BY <1>1, JournalInvariant, PTL

(* consume returns true at most once for a digest, whatever threads,       *)
(* processes, torn writes, failed forces, crashes and power failures do.   *)
THEOREM NonceIsGrantedOnce == Spec => []GrantedOnce
<1>1. JournalInv => GrantedOnce
  BY DEF JournalInv
<1>. QED
  BY <1>1, JournalInvariant, PTL

(* The record of a granted digest stays whole and forced for ever.         *)
THEOREM NonceIsRemembered == Spec => []GrantIsRemembered
<1>1. JournalInv => GrantIsRemembered
  BY DEF JournalInv
<1>. QED
  BY <1>1, JournalInvariant, PTL

=============================================================================
