---------------------- MODULE IdentitySubmissionProofs ----------------------
(***************************************************************************)
(* For any number of threads, nonces and states: ordinary writes and the   *)
(* latch exclude each other, no capability outlives what it was made for,  *)
(* a nonce stands for at most one accepted update and reports are true.    *)
(* LockInv and GateInv carry the first two, NonceInv the others.           *)
(***************************************************************************)
EXTENDS IdentitySubmission, TLAPS

(* Zenon proves the leaves that name no prover.                            *)
USE ZenonT(60)

Locked == {"reread", "signer", "sign", "recheck", "put"}
SubmitSteps == {"idle", "nonce", "consent", "owner", "readback"} \cup Locked
PublishSteps == {"idle", "nonce", "consent", "pubReread", "owner", "put",
                 "readback"}
Critical == {"persist", "mark", "clear"}
RotateSteps == {"idle", "latchOwner", "finishOwner"} \cup Critical

(* Who holds which lock, read off the program counters.                    *)
LockInv ==
  /\ \A t \in Submitters :
       /\ pc[t] \in SubmitSteps
       /\ ownerLock = t <=> pc[t] \in Locked \cup {"readback"}
  /\ \A t \in Publishers :
       pc[t] \in PublishSteps /\ (ownerLock = t <=> pc[t] = "put")
  /\ \A r \in Rotators :
       /\ pc[r] \in RotateSteps
       /\ ownerLock = r <=> pc[r] \in Critical
       /\ rotationLock = r <=> pc[r] # "idle"

(* What the holder of a lock has established and nobody else can undo.     *)
GateInv ==
  /\ \A t \in Callers : pc[t] \in Locked => ~latched
  /\ \A r \in Rotators :
       /\ pc[r] \in {"latchOwner", "persist"} => unlocked /\ ~intent
       /\ pc[r] \in {"persist", "mark"} => ~latched

(* The call that consumed a nonce and has not handed it to the Registry.   *)
Later == Locked \cup {"consent", "owner", "pubReread", "readback"}
Owns(t) == pc[t] \in Later \/ result[t] \in {"refused", "proof"}
Unsent(n) == ~Wrote(n) /\ \A w \in inFlight : w.nonce # n

NonceInv ==
  /\ \A t \in Callers :
       /\ pc[t] # "idle" => call[t].nonce \in Nonces /\ result[t] = "none"
       /\ result[t] # "none" => call[t].nonce \in Nonces
       /\ Owns(t) => call[t].nonce \in consumed
       /\ Owns(t) /\ pc[t] # "readback" => Unsent(call[t].nonce)
       /\ result[t] = "confirmed" => Wrote(call[t].nonce)
  /\ \A t, u \in Callers :
       Owns(t) /\ Owns(u) /\ call[t].nonce = call[u].nonce => t = u
  /\ \A w \in inFlight :
       w.nonce \in Nonces => w.nonce \in consumed /\ ~Wrote(w.nonce)
  /\ \A v, w \in inFlight : v.nonce = w.nonce /\ v.nonce \in Nonces => v = w
  /\ \A n \in Nonces : Wrote(n) => n \in consumed

SubmissionInv ==
  TypeOK /\ LockInv /\ GateInv /\ SignerUsable /\ NonceInv /\ AcceptedOnce

-----------------------------------------------------------------------------
(* What one more accepted state changes.                                   *)
LEMMA Appended ==
  ASSUME TypeOK, NEW n \in Nonces \cup {Other, Rotation}, head' = Append(head, n)
  PROVE  /\ head' \in Seq(Nonces \cup {Other, Rotation})
         /\ \A m : Wrote(m)' <=> Wrote(m) \/ m = n
         /\ (n \in Nonces => ~Wrote(n)) /\ AcceptedOnce => AcceptedOnce'
  <1>1. /\ head' \in Seq(Nonces \cup {Other, Rotation})
        /\ Len(head') = Len(head) + 1 /\ Len(head) \in Nat
        /\ head'[Len(head) + 1] = n
        /\ \A i \in 1..Len(head) : head'[i] = head[i]
    BY SMT DEF TypeOK
  <1>2. \A i \in 1..Len(head') : i \in 1..Len(head) \/ i = Len(head) + 1
    BY SMT, <1>1
  <1>3. \A m : Wrote(m)' <=> Wrote(m) \/ m = n
    BY SMT, <1>1, <1>2 DEF Wrote
  <1>4. ASSUME n \in Nonces => ~Wrote(n), AcceptedOnce
        PROVE  AcceptedOnce'
    <2> SUFFICES ASSUME NEW i \in 1..Len(head'), NEW j \in 1..Len(head'),
                        head'[i] = head'[j], head'[i] \in Nonces
                 PROVE  i = j
      BY DEF AcceptedOnce
    <2> QED
      BY <1>1, <1>2, <1>4 DEF AcceptedOnce, Wrote
  <1> QED
    BY <1>1, <1>3, <1>4

LEMMA InitSubmission == Init => SubmissionInv
  <1> SUFFICES ASSUME Init PROVE SubmissionInv
    OBVIOUS
  <1> USE SubmissionAssumption DEF Init
  <1>1. TypeOK
    <2>1. unlocked \in BOOLEAN /\ intent \in BOOLEAN /\ latched \in BOOLEAN
      OBVIOUS
    <2>2. NoCall \in [nonce : Nonces \cup {Other}, state : Nat, draft : BOOLEAN]
      BY DEF NoCall
    <2>3. call \in [Callers -> [nonce : Nonces \cup {Other}, state : Nat,
                               draft : BOOLEAN]]
      BY <2>2
    <2>4. /\ head \in Seq(Nonces \cup {Other, Rotation}) /\ inFlight \subseteq Writes
          /\ rotationLock \in Rotators \cup {Free} /\ ownerLock \in Threads \cup {Free}
          /\ consumed \subseteq Nonces
      BY SMT
    <2> QED
      BY <2>1, <2>3, <2>4 DEF TypeOK
  <1>2. LockInv /\ GateInv /\ SignerUsable
    BY DEF LockInv, GateInv, SignerUsable, Locked, SubmitSteps, PublishSteps,
           RotateSteps, Critical, Callers, Threads
  <1>3. \A n : ~Wrote(n)
    BY SMT DEF Wrote
  <1>4. NonceInv
    BY <1>3 DEF NonceInv, Owns, Later, Locked, Callers, Threads
  <1>5. AcceptedOnce
    BY SMT DEF AcceptedOnce
  <1> QED
    BY <1>1, <1>2, <1>4, <1>5 DEF SubmissionInv

(* The steps that touch neither the Registry nor a nonce: the Registry and *)
(* nonce parts of the invariant read only what they leave alone.           *)
LEMMA NonceFrame ==
  ASSUME NonceInv, AcceptedOnce, UNCHANGED <<registry, consumed, call, result>>,
         \A t \in Callers : pc'[t] = pc[t]
  PROVE  NonceInv' /\ AcceptedOnce'
  BY SMT DEF NonceInv, AcceptedOnce, Owns, Unsent, Wrote, registry

(* A wallet call that returns gives back whatever it held.                 *)
LEMMA LeaveKeepsLocks ==
  ASSUME TypeOK, LockInv, NEW r \in Rotators, pc[r] # "idle",
         ownerLock \in {r, Free}, Leave(r)
  PROVE  LockInv'
  <1> USE SubmissionAssumption
      DEF TypeOK, LockInv, Leave, Goto, Callers, Threads, Locked, Critical,
          SubmitSteps, PublishSteps, RotateSteps
  <1>1. /\ \A t \in Threads \ {r} : pc'[t] = pc[t]
        /\ pc'[r] = "idle" /\ rotationLock' = Free /\ ownerLock' = Free
        /\ rotationLock = r /\ Free \notin Threads
    OBVIOUS
  <1>2. \A t \in Threads \ {r} : ownerLock # t /\ rotationLock # t
    BY SMT, <1>1
  <1> QED
    BY SMT, <1>1, <1>2

(* No caller is past the gate while the owner lock is free.                *)
LEMMA LockFree ==
  ASSUME LockInv, ownerLock = Free
  PROVE  \A t \in Callers : pc[t] \notin Locked
  <1>1. \A t \in Callers : t # ownerLock
    BY SubmissionAssumption DEF Callers, Threads
  <1>2. \A t \in Submitters : pc[t] \notin Locked
    BY <1>1 DEF LockInv, Callers
  <1>3. \A t \in Publishers : pc[t] \notin Locked
    BY <1>1 DEF LockInv, Callers, Locked, PublishSteps
  <1> QED
    BY <1>2, <1>3 DEF Callers

LEMMA RotatorPreserves ==
  ASSUME SubmissionInv, NEW r \in Rotators,
         Latch(r) \/ Finish(r) \/ Rotating(r)
  PROVE  SubmissionInv'
  <1> USE SubmissionAssumption DEF SubmissionInv
  <1>1. /\ UNCHANGED <<registry, consumed, call, result>>
        /\ \E there \in RotateSteps : Goto(r, there)
    BY DEF Latch, Finish, Rotating, LatchOwner, LatchPersist, MarkLatched,
           FinishOwner, FinishPersist, Leave, PersistUnknown, RotateSteps, Critical
  <1>2. \A t \in Callers : pc'[t] = pc[t]
    BY <1>1 DEF TypeOK, Goto, Callers, Threads
  <1>3. NonceInv' /\ AcceptedOnce'
    BY <1>1, <1>2, NonceFrame
  <1> USE DEF At, Goto, Leave, wallet, registry, Callers, Threads, Locked,
              Critical, SubmitSteps, PublishSteps, RotateSteps, Invalidated
  <1>4. CASE Latch(r)
    <2>1. TypeOK'
      BY <1>4 DEF Latch, TypeOK
    <2>2. LockInv'
      BY SMT, <1>4 DEF Latch, TypeOK, LockInv
    <2>3. GateInv'
      BY <1>4 DEF Latch, TypeOK, LockInv, GateInv
    <2>4. SignerUsable'
      BY <1>4 DEF Latch, TypeOK, LockInv, SignerUsable
    <2> QED
      BY <1>3, <2>1, <2>2, <2>3, <2>4
  <1>5. CASE Finish(r)
    <2>1. TypeOK'
      BY <1>5 DEF Finish, TypeOK
    <2>2. LockInv'
      BY SMT, <1>5 DEF Finish, TypeOK, LockInv
    <2>3. GateInv'
      BY <1>5 DEF Finish, TypeOK, LockInv, GateInv
    <2>4. SignerUsable'
      BY <1>5 DEF Finish, TypeOK, LockInv, SignerUsable
    <2> QED
      BY <1>3, <2>1, <2>2, <2>3, <2>4
  <1>6. CASE LatchOwner(r)
    <2>1. TypeOK'
      BY SMT, <1>6 DEF LatchOwner, TypeOK
    <2>2. LockInv'
      <3>1. CASE latched
        BY <1>6, <3>1, LeaveKeepsLocks DEF LatchOwner
      <3>2. CASE ~latched
        BY SMT, <1>6, <3>2 DEF LatchOwner, TypeOK, LockInv
      <3> QED
        BY <3>1, <3>2
    <2>3. GateInv'
      BY SMT, <1>6 DEF LatchOwner, TypeOK, LockInv, GateInv
    <2>4. SignerUsable'
      BY SMT, <1>6 DEF LatchOwner, TypeOK, LockInv, SignerUsable
    <2> QED
      BY <1>3, <2>1, <2>2, <2>3, <2>4
  <1>7. CASE LatchPersist(r)
    <2>1. TypeOK'
      BY <1>7 DEF LatchPersist, PersistUnknown, TypeOK
    <2>2. LockInv'
      <3>1. CASE Goto(r, "mark")
        BY SMT, <1>7, <3>1 DEF LatchPersist, PersistUnknown, TypeOK, LockInv
      <3>2. CASE Leave(r)
        BY SMT, <1>7, <3>2 DEF TypeOK, LockInv, LatchPersist
      <3> QED
        BY <1>7, <3>1, <3>2 DEF LatchPersist, PersistUnknown
    <2>3. GateInv'
      BY SMT, <1>7 DEF LatchPersist, PersistUnknown, TypeOK, LockInv, GateInv
    <2>4. SignerUsable'
      BY SMT, <1>7 DEF LatchPersist, PersistUnknown, TypeOK, LockInv, SignerUsable
    <2> QED
      BY <1>3, <2>1, <2>2, <2>3, <2>4
  <1>8. CASE MarkLatched(r)
    <2>1. TypeOK'
      BY <1>8 DEF MarkLatched, TypeOK
    <2>2. LockInv'
      BY SMT, <1>8 DEF MarkLatched, TypeOK, LockInv
    <2>3. GateInv'
      <3>1. ownerLock = r /\ rotationLock = r
        BY <1>8 DEF MarkLatched, LockInv
      <3>2. \A t \in Threads \ {r} : pc'[t] = pc[t] /\ ownerLock # t
        BY <1>8, <3>1 DEF MarkLatched, TypeOK
      <3>3. \A t \in Callers : pc'[t] \notin Locked
        BY <3>2 DEF LockInv
      <3>4. \A u \in Rotators : pc'[u] = "idle"
        BY <1>8, <3>1, <3>2 DEF MarkLatched, TypeOK, LockInv
      <3> QED
        BY <3>3, <3>4 DEF GateInv
    <2>4. SignerUsable'
      BY <1>8 DEF MarkLatched, TypeOK, LockInv, SignerUsable
    <2> QED
      BY <1>3, <2>1, <2>2, <2>3, <2>4
  <1>9. CASE FinishOwner(r)
    <2>1. TypeOK'
      BY <1>9 DEF FinishOwner, TypeOK
    <2>2. LockInv'
      <3>1. CASE latched
        BY SMT, <1>9, <3>1 DEF FinishOwner, TypeOK, LockInv
      <3>2. CASE ~latched
        BY <1>9, <3>2, LeaveKeepsLocks DEF FinishOwner
      <3> QED
        BY <3>1, <3>2
    <2>3. GateInv'
      BY SMT, <1>9 DEF FinishOwner, TypeOK, LockInv, GateInv
    <2>4. SignerUsable'
      BY <1>9 DEF FinishOwner, TypeOK, LockInv, SignerUsable
    <2> QED
      BY <1>3, <2>1, <2>2, <2>3, <2>4
  <1>10. CASE FinishPersist(r)
    <2>1. TypeOK'
      BY <1>10 DEF FinishPersist, PersistUnknown, TypeOK
    <2>2. LockInv'
      <3>1. pc[r] = "clear" /\ Leave(r)
        BY <1>10 DEF FinishPersist, PersistUnknown
      <3>2. ownerLock = r
        BY <3>1 DEF LockInv
      <3> QED
        BY <3>1, <3>2, LeaveKeepsLocks
    <2>3. GateInv'
      BY SMT, <1>10 DEF FinishPersist, PersistUnknown, TypeOK, LockInv, GateInv
    <2>4. SignerUsable'
      BY SMT, <1>10 DEF FinishPersist, PersistUnknown, TypeOK, LockInv, SignerUsable
    <2> QED
      BY <1>3, <2>1, <2>2, <2>3, <2>4
  <1> QED
    BY <1>4, <1>5, <1>6, <1>7, <1>8, <1>9, <1>10 DEF Rotating

(* A caller that gives the owner lock back, or moves on holding it.        *)
LEMMA CallerKeepsLocks ==
  ASSUME TypeOK, LockInv, NEW t \in Callers, ownerLock = t,
         UNCHANGED rotationLock,
         \/ Goto(t, "idle") /\ ownerLock' = Free
         \/ t \in Publishers /\ Goto(t, "readback") /\ ownerLock' = Free
         \/ /\ t \in Submitters /\ ownerLock' = ownerLock
            /\ \E there \in Locked \cup {"readback"} : Goto(t, there)
  PROVE  LockInv'
  <1> USE SubmissionAssumption
      DEF TypeOK, LockInv, Goto, Callers, Threads, Locked, Critical,
          SubmitSteps, PublishSteps, RotateSteps
  <1>1. /\ \A u \in Threads \ {t} : pc'[u] = pc[u] /\ ownerLock # u
        /\ Free \notin Threads /\ t \notin Rotators
        /\ t \in Submitters => t \notin Publishers
    OBVIOUS
  <1>2. CASE Goto(t, "idle") /\ ownerLock' = Free
    BY SMT, <1>1, <1>2
  <1>3. CASE t \in Publishers /\ Goto(t, "readback") /\ ownerLock' = Free
    BY SMT, <1>1, <1>3
  <1>4. CASE /\ t \in Submitters /\ ownerLock' = ownerLock
             /\ \E there \in Locked \cup {"readback"} : Goto(t, there)
    BY SMT, <1>1, <1>4
  <1> QED
    BY <1>2, <1>3, <1>4

(* A call that owns its nonce keeps it while it works and when it gives up.*)
LEMMA OwnerKeepsNonce ==
  ASSUME TypeOK, NonceInv, AcceptedOnce, NEW t \in Callers,
         UNCHANGED <<registry, consumed, call>>, pc[t] \in Later \ {"readback"},
         \/ /\ \E there \in Later \ {"readback"} : Goto(t, there)
            /\ UNCHANGED result
         \/ \E r \in {"refused", "proof"} : Return(t, r)
  PROVE  NonceInv' /\ AcceptedOnce'
  <1> USE DEF TypeOK, Callers, Threads, registry
  <1>1. /\ \A u \in Callers : Owns(u)' <=> Owns(u)
        /\ \A u \in Callers \ {t} : pc'[u] = pc[u] /\ result'[u] = result[u]
        /\ pc'[t] # "readback" /\ Owns(t)
        /\ pc'[t] # "idle" => result'[t] = "none"
        /\ result'[t] # "confirmed"
    BY SMT DEF NonceInv, Owns, Goto, Return, Later, Locked
  <1>2. \A n : Wrote(n)' <=> Wrote(n)
    BY DEF Wrote
  <1>3. \A n : Unsent(n)' <=> Unsent(n)
    BY <1>2 DEF Unsent
  <1>4. call[t].nonce \in Nonces
    BY DEF NonceInv, Later, Locked
  <1>5. NonceInv'
    BY <1>1, <1>2, <1>3, <1>4 DEF NonceInv
  <1> QED
    BY <1>5 DEF AcceptedOnce

LEMMA SubmitterPreserves ==
  ASSUME SubmissionInv, NEW t \in Submitters,
         Reread(t) \/ MakeSigner(t) \/ Sign(t) \/ Recheck(t) \/ Timeout(t)
  PROVE  SubmissionInv'
  <1> USE SubmissionAssumption
      DEF SubmissionInv, At, Goto, Return, Quit, wallet, registry, Callers,
          Threads, Locked, Critical, SubmitSteps, PublishSteps, RotateSteps
  <1>1. CASE Reread(t)
    <2>1. TypeOK'
      BY <1>1 DEF Reread, TypeOK
    <2>2. LockInv'
      <3>1. ownerLock = t /\ t \in Callers
        BY <1>1 DEF Reread, LockInv
      <3> QED
        BY <1>1, <3>1, CallerKeepsLocks DEF Reread
    <2>3. GateInv'
      BY SMT, <1>1 DEF Reread, TypeOK, LockInv, GateInv
    <2>4. SignerUsable'
      BY <1>1 DEF Reread, TypeOK, LockInv, SignerUsable
    <2>5. NonceInv' /\ AcceptedOnce'
      BY <1>1, OwnerKeepsNonce DEF Reread, Later
    <2> QED
      BY <2>1, <2>2, <2>3, <2>4, <2>5
  <1>2. CASE MakeSigner(t)
    <2>1. TypeOK'
      BY <1>2 DEF MakeSigner, TypeOK
    <2>2. LockInv'
      <3>1. ownerLock = t /\ t \in Callers
        BY <1>2 DEF MakeSigner, LockInv
      <3> QED
        BY <1>2, <3>1, CallerKeepsLocks DEF MakeSigner
    <2>3. GateInv'
      BY <1>2 DEF MakeSigner, TypeOK, LockInv, GateInv
    <2>4. SignerUsable'
      BY SMT, <1>2 DEF MakeSigner, TypeOK, LockInv, SignerUsable
    <2>5. NonceInv' /\ AcceptedOnce'
      BY <1>2, OwnerKeepsNonce DEF MakeSigner, Later
    <2> QED
      BY <2>1, <2>2, <2>3, <2>4, <2>5
  <1>3. CASE Sign(t)
    <2>1. TypeOK'
      BY <1>3 DEF Sign, TypeOK
    <2>2. LockInv'
      <3>1. ownerLock = t /\ t \in Callers
        BY <1>3 DEF Sign, LockInv
      <3> QED
        BY <1>3, <3>1, CallerKeepsLocks DEF Sign
    <2>3. GateInv'
      BY SMT, <1>3 DEF Sign, TypeOK, LockInv, GateInv
    <2>4. SignerUsable'
      BY <1>3 DEF Sign, TypeOK, LockInv, SignerUsable
    <2>5. NonceInv' /\ AcceptedOnce'
      BY <1>3, OwnerKeepsNonce DEF Sign, Later
    <2> QED
      BY <2>1, <2>2, <2>3, <2>4, <2>5
  <1>4. CASE Recheck(t)
    <2>1. TypeOK'
      <3>1. /\ pc' \in [Threads -> {pc[u] : u \in Threads} \cup {"idle", "put"}]
            /\ result' \in [Callers -> {result[u] : u \in Callers}
                                         \cup {"proof", "refused"}]
        BY SMT, <1>4 DEF Recheck, TypeOK
      <3>2. ownerLock' \in {ownerLock, Free}
        BY <1>4 DEF Recheck
      <3>3. UNCHANGED <<head, inFlight, rotationLock, unlocked, intent, evidence,
                        latched, consumed, call, signer>>
        BY <1>4 DEF Recheck
      <3> QED
        BY SMT, <3>1, <3>2, <3>3 DEF TypeOK
    <2>2. LockInv'
      <3>1. ownerLock = t /\ t \in Callers
        BY <1>4 DEF Recheck, LockInv
      <3> QED
        BY <1>4, <3>1, CallerKeepsLocks DEF Recheck
    <2>3. GateInv'
      BY SMT, <1>4 DEF Recheck, TypeOK, LockInv, GateInv
    <2>4. SignerUsable'
      BY <1>4 DEF Recheck, TypeOK, LockInv, SignerUsable
    <2>5. NonceInv' /\ AcceptedOnce'
      BY <1>4, OwnerKeepsNonce DEF Recheck, Later
    <2> QED
      BY <2>1, <2>2, <2>3, <2>4, <2>5
  <1>5. CASE Timeout(t)
    <2>1. TypeOK'
      BY <1>5 DEF Timeout, TypeOK
    <2>2. LockInv'
      BY <1>5 DEF Timeout, TypeOK, LockInv
    <2>3. GateInv'
      BY <1>5 DEF Timeout, TypeOK, LockInv, GateInv
    <2>4. SignerUsable'
      BY SMT, <1>5 DEF Timeout, TypeOK, LockInv, SignerUsable
    <2>5. NonceInv' /\ AcceptedOnce'
      BY <1>5, NonceFrame DEF Timeout
    <2> QED
      BY <2>1, <2>2, <2>3, <2>4, <2>5
  <1> QED
    BY <1>1, <1>2, <1>3, <1>4, <1>5

(* Steps of a caller without a lock: it moves between the steps before the *)
(* owner lock, or returns.                                                 *)
LEMMA OutsideKeepsLocks ==
  ASSUME TypeOK, LockInv, GateInv, SignerUsable, NEW t \in Callers,
         UNCHANGED <<rotationLock, ownerLock, wallet, latched, signer>>,
         pc[t] \in {"idle", "nonce", "consent", "owner", "pubReread"},
         \E there \in {"idle", "nonce", "consent"} \cup
             (IF t \in Submitters THEN {"owner"} ELSE {"owner", "pubReread"}) :
           Goto(t, there)
  PROVE  LockInv' /\ GateInv' /\ SignerUsable'
  <1> USE SubmissionAssumption
      DEF TypeOK, Goto, Callers, Threads, Locked, Critical, wallet,
          SubmitSteps, PublishSteps, RotateSteps
  <1>1. /\ \A u \in Threads \ {t} : pc'[u] = pc[u]
        /\ pc'[t] \in {"idle", "nonce", "consent", "owner", "pubReread"}
        /\ t \in Submitters => pc'[t] # "pubReread"
        /\ t \notin Rotators /\ ownerLock # t
        /\ t \in Submitters => t \notin Publishers
    <2>1. PICK there \in {"idle", "nonce", "consent", "owner", "pubReread"} :
            Goto(t, there) /\ (t \in Submitters => there # "pubReread")
      OBVIOUS
    <2>2. ownerLock # t
      BY DEF LockInv
    <2> QED
      BY <2>1, <2>2
  <1>2. LockInv'
    BY SMT, <1>1 DEF LockInv
  <1>3. GateInv'
    BY <1>1 DEF GateInv
  <1>4. SignerUsable'
    BY <1>1 DEF SignerUsable
  <1> QED
    BY <1>2, <1>3, <1>4

LEMMA StartPreserves ==
  ASSUME SubmissionInv, NEW t \in Callers, NEW n \in Nonces, NEW d \in BOOLEAN,
         Start(t, n, d)
  PROVE  SubmissionInv'
  <1> USE DEF SubmissionInv, Start, At
  <1>1. TypeOK'
    BY SMT DEF TypeOK, Goto, Callers, Threads, wallet, registry, State
  <1>2. LockInv' /\ GateInv' /\ SignerUsable'
    BY OutsideKeepsLocks
  <1>3. /\ \A u \in Callers \ {t} : /\ Owns(u)' <=> Owns(u)
                                   /\ pc'[u] = pc[u] /\ result'[u] = result[u]
                                   /\ call'[u] = call[u]
        /\ ~Owns(t)' /\ call'[t].nonce = n /\ result'[t] = "none"
    BY DEF TypeOK, Owns, Goto, Callers, Threads, Later, Locked
  <1>4. \A m : /\ Wrote(m)' <=> Wrote(m)
               /\ Unsent(m)' <=> Unsent(m)
    BY DEF Wrote, Unsent, registry
  <1>5. NonceInv'
    <2>1. \A u \in Callers :
            /\ pc'[u] # "idle" => call'[u].nonce \in Nonces /\ result'[u] = "none"
            /\ result'[u] # "none" => call'[u].nonce \in Nonces
            /\ Owns(u)' => call'[u].nonce \in consumed
            /\ Owns(u)' /\ pc'[u] # "readback" => Unsent(call'[u].nonce)
            /\ result'[u] = "confirmed" => Wrote(call'[u].nonce)
      <3> TAKE u \in Callers
      <3>1. CASE u = t
        BY <1>3, <3>1
      <3>2. CASE u # t
        BY <1>3, <3>2 DEF NonceInv
      <3> QED
        BY <3>1, <3>2
    <2>2. \A u, v \in Callers :
            Owns(u)' /\ Owns(v)' /\ call'[u].nonce = call'[v].nonce => u = v
      BY SMT, <1>3 DEF NonceInv
    <2>3. UNCHANGED <<head, inFlight, consumed>>
      BY DEF registry
    <2> QED
      BY <1>4, <2>1, <2>2, <2>3 DEF NonceInv
  <1>6. AcceptedOnce'
    BY DEF AcceptedOnce, registry
  <1> QED
    BY <1>1, <1>2, <1>5, <1>6

LEMMA ReservePreserves ==
  ASSUME SubmissionInv, NEW t \in Callers, Reserve(t)
  PROVE  SubmissionInv'
  <1> USE DEF SubmissionInv, Reserve, At
  <1>1. call[t].nonce \in Nonces /\ result[t] = "none" /\ ~Owns(t)
    BY DEF NonceInv, Owns, Later, Locked
  <1>2. TypeOK'
    <2>1. /\ pc' \in [Threads -> {pc[u] : u \in Threads} \cup {"idle", "consent"}]
          /\ result' \in [Callers -> {result[u] : u \in Callers}
                                       \cup {"replay", "refused"}]
      BY SMT DEF TypeOK, Goto, Return, Callers, Threads
    <2>2. consumed' \subseteq Nonces
      BY <1>1 DEF TypeOK
    <2>3. UNCHANGED <<head, inFlight, rotationLock, ownerLock, unlocked, intent,
                      evidence, latched, call, signer>>
      BY DEF wallet, registry
    <2> QED
      BY SMT, <2>1, <2>2, <2>3 DEF TypeOK
  <1>3. LockInv' /\ GateInv' /\ SignerUsable'
    BY OutsideKeepsLocks DEF Return
  <1>4. \A u \in Callers \ {t} : /\ Owns(u)' <=> Owns(u)
                               /\ pc'[u] = pc[u] /\ result'[u] = result[u]
    BY DEF TypeOK, Owns, Goto, Return, Callers, Threads
  <1>5. \A m : /\ Wrote(m)' <=> Wrote(m)
               /\ Unsent(m)' <=> Unsent(m)
    BY DEF Wrote, Unsent, registry
  <1>6. NonceInv'
    <2>1. CASE /\ consumed' \in {consumed, consumed \cup {call[t].nonce}}
               /\ Return(t, "replay")
      <3>1. /\ pc'[t] = "idle" /\ result'[t] = "replay"
            /\ consumed \subseteq consumed'
        BY <2>1 DEF TypeOK, Return, Goto, Callers, Threads
      <3>2. ~Owns(t)'
        BY <3>1 DEF Owns, Later, Locked
      <3> QED
        BY <1>1, <1>4, <1>5, <3>1, <3>2 DEF NonceInv, registry
    <2>2. CASE /\ call[t].nonce \notin consumed
               /\ consumed' = consumed \cup {call[t].nonce}
               /\ \/ Goto(t, "consent") /\ UNCHANGED result
                  \/ Return(t, "refused")
      <3>1. /\ consumed' = consumed \cup {call[t].nonce}
            /\ \/ pc'[t] = "consent" /\ result'[t] = "none"
               \/ pc'[t] = "idle" /\ result'[t] = "refused"
        BY <1>1, <2>2 DEF TypeOK, Return, Goto, Callers, Threads
      <3>2. Unsent(call[t].nonce)
        BY <1>1, <2>2 DEF NonceInv, Unsent
      <3>3. \A u \in Callers \ {t} : Owns(u) => call[u].nonce # call[t].nonce
        BY <2>2 DEF NonceInv
      <3> QED
        BY SMT, <1>1, <1>4, <1>5, <3>1, <3>2, <3>3 DEF NonceInv, registry
    <2> QED
      BY <2>1, <2>2
  <1>7. AcceptedOnce'
    BY DEF AcceptedOnce, registry
  <1> QED
    BY <1>2, <1>3, <1>6, <1>7

-----------------------------------------------------------------------------
(* From consent to readback, lock() and the Registry.                      *)
LEMMA ConsentPreserves ==
  ASSUME SubmissionInv, NEW t \in Callers, Consent(t) \/ PubReread(t),
         PubReread(t) => t \in Publishers
  PROVE  SubmissionInv'
  <1> USE SubmissionAssumption DEF SubmissionInv, At
  <1>1. /\ UNCHANGED <<registry, rotationLock, ownerLock, wallet, latched,
                       consumed, call, signer>>
        /\ pc[t] \in {"consent", "pubReread"}
    BY DEF Consent, PubReread
  <1>2. \/ UNCHANGED result /\ Goto(t, "owner")
        \/ UNCHANGED result /\ Goto(t, "pubReread") /\ t \notin Submitters
        \/ Return(t, "refused")
    BY DEF Consent, PubReread, Callers
  <1>3. TypeOK'
    <2> USE DEF TypeOK, Goto, Return, Callers, Threads, wallet, registry
    <2>1. CASE UNCHANGED result /\ Goto(t, "owner")
      BY <1>1, <2>1
    <2>2. CASE UNCHANGED result /\ Goto(t, "pubReread")
      BY <1>1, <2>2
    <2>3. CASE Return(t, "refused")
      BY <1>1, <2>3
    <2> QED
      BY <1>2, <2>1, <2>2, <2>3
  <1>4. LockInv' /\ GateInv' /\ SignerUsable'
    BY <1>1, <1>2, OutsideKeepsLocks DEF Return
  <1>5. NonceInv' /\ AcceptedOnce'
    BY <1>1, <1>2, OwnerKeepsNonce DEF Later
  <1> QED
    BY <1>3, <1>4, <1>5

LEMMA TakeOwnerPreserves ==
  ASSUME SubmissionInv, NEW t \in Callers, TakeOwner(t)
  PROVE  SubmissionInv'
  <1> USE SubmissionAssumption DEF SubmissionInv, TakeOwner, At
  <1>1. CASE latched
    <2>1. UNCHANGED ownerLock /\ Return(t, "refused")
      BY <1>1
    <2>2. TypeOK'
      BY <2>1 DEF TypeOK, Goto, Return, Callers, Threads, wallet, registry
    <2>3. LockInv' /\ GateInv' /\ SignerUsable'
      BY <2>1, OutsideKeepsLocks DEF Return
    <2>4. NonceInv' /\ AcceptedOnce'
      BY <2>1, OwnerKeepsNonce DEF Later
    <2> QED
      BY <2>2, <2>3, <2>4
  <1>2. CASE ~latched
    <2>1. /\ ownerLock' = t /\ UNCHANGED result
          /\ Goto(t, IF t \in Submitters THEN "reread" ELSE "put")
      BY <1>2
    <2>2. TypeOK'
      BY <2>1 DEF TypeOK, Goto, Callers, Threads, wallet, registry
    <2>3. /\ \A u \in Threads \ {t} : pc'[u] = pc[u] /\ ownerLock # u
          /\ pc'[t] = IF t \in Submitters THEN "reread" ELSE "put"
          /\ t \notin Rotators
      BY <2>1 DEF TypeOK, Goto, Callers, Threads
    <2>4. LockInv'
      BY <2>1, <2>3 DEF LockInv, Callers, Threads, Locked, Critical,
                        SubmitSteps, PublishSteps, RotateSteps
    <2>5. GateInv' /\ SignerUsable'
      BY <1>2, <2>3 DEF GateInv, SignerUsable, Callers, Threads, Locked, wallet
    <2>6. NonceInv' /\ AcceptedOnce'
      BY <2>1, OwnerKeepsNonce DEF Later, Locked
    <2> QED
      BY <2>2, <2>4, <2>5, <2>6
  <1> QED
    BY <1>1, <1>2 DEF TypeOK

(* Only the nonce's owner hands it to the Registry, and then no longer     *)
(* owns an unsent one.                                                     *)
LEMMA PutPreserves ==
  ASSUME SubmissionInv, NEW t \in Callers, Put(t)
  PROVE  SubmissionInv'
  <1> DEFINE n == call[t].nonce
             s == call[t].state
  <1> USE SubmissionAssumption DEF SubmissionInv
  <1>1. pc[t] = "put" /\ ownerLock = t /\ n \in Nonces /\ s \in Nat
    <2>1. pc[t] = "put" /\ s \in Nat
      BY DEF Put, At, TypeOK
    <2>2. ownerLock = t
      BY <2>1 DEF LockInv, Callers, Locked
    <2> QED
      BY <2>1, <2>2 DEF NonceInv
  <1>2. CASE Return(t, "refused") /\ ownerLock' = Free /\ UNCHANGED registry
    <2>1. TypeOK'
      BY <1>2 DEF Put, TypeOK, Goto, Return, Callers, Threads, wallet, registry
    <2>2. LockInv'
      BY <1>1, <1>2, CallerKeepsLocks DEF Put, Return
    <2>3. GateInv' /\ SignerUsable'
      BY <1>1, <1>2 DEF Put, GateInv, SignerUsable, TypeOK, Return, Goto, Callers,
                   Threads, Locked, wallet
    <2>4. NonceInv' /\ AcceptedOnce'
      BY <1>1, <1>2, OwnerKeepsNonce DEF Put, Later, Locked
    <2> QED
      BY <2>1, <2>2, <2>3, <2>4
  <1>3. CASE /\ Taken(n, s) \/ Raised(n, s)
             /\ Goto(t, "readback") /\ UNCHANGED result
             /\ ownerLock' = IF t \in Submitters THEN t ELSE Free
    <2>1. /\ UNCHANGED <<rotationLock, wallet, latched, consumed, call, signer>>
          /\ \A u \in Threads \ {t} : pc'[u] = pc[u]
          /\ pc'[t] = "readback"
      BY <1>3 DEF Put, TypeOK, Goto, Callers, Threads
    <2>2. LockInv'
      BY <1>1, <1>3, <2>1, CallerKeepsLocks DEF Callers
    <2>3. GateInv' /\ SignerUsable'
      BY <1>1, <2>1 DEF GateInv, SignerUsable, Callers, Threads, Locked, wallet
    <2>4. /\ result' = result
          /\ \A u \in Callers : Owns(u)' <=> Owns(u)
          /\ Owns(t) /\ Unsent(n) /\ n \in consumed /\ n \notin {Other, Rotation}
      BY <1>1, <1>3, <2>1 DEF TypeOK, NonceInv, Owns, Goto, Later, Locked, Callers,
                         Threads
    <2>5. \A u \in Callers \ {t} : Owns(u) => call[u].nonce # n
      BY <2>4 DEF NonceInv
    <2>6. CASE Taken(n, s)
      <3>1. head' = Append(head, n) /\ UNCHANGED inFlight
        BY <2>6 DEF Taken, Accept
      <3>2. /\ head' \in Seq(Nonces \cup {Other, Rotation}) /\ AcceptedOnce'
            /\ \A m : Wrote(m)' <=> Wrote(m) \/ m = n
        BY <1>1, <2>4, <3>1, Appended DEF Unsent
      <3>3. TypeOK'
        BY <1>3, <2>1, <3>1, <3>2 DEF TypeOK, Goto, Callers, Threads, wallet
      <3>4. NonceInv'
        BY <1>1, <2>1, <2>4, <2>5, <3>1, <3>2
        DEF NonceInv, Unsent, Callers, Threads
      <3> QED
        BY <2>2, <2>3, <3>2, <3>3, <3>4
    <2>7. CASE Raised(n, s)
      <3>1. /\ UNCHANGED head
            /\ inFlight' \in {inFlight,
                              inFlight \cup {[nonce |-> n, expected |-> s]}}
        BY <2>7 DEF Raised, registry
      <3>2. AcceptedOnce' /\ \A m : Wrote(m)' <=> Wrote(m)
        BY <3>1 DEF AcceptedOnce, Wrote
      <3>3. TypeOK'
        BY SMT, <1>1, <1>3, <2>1, <3>1 DEF TypeOK, Goto, Callers, Threads, wallet, Writes
      <3>4. \A m : m # n /\ Unsent(m) => Unsent(m)'
        BY SMT, <3>1, <3>2 DEF Unsent
      <3>5. /\ \A w \in inFlight' : w \in inFlight \/ w = [nonce |-> n, expected |-> s]
            /\ \A w \in inFlight : w.nonce # n
        BY <2>4, <3>1 DEF Unsent
      <3>6. \A u \in Callers :
              /\ pc'[u] # "idle" => call[u].nonce \in Nonces /\ result[u] = "none"
              /\ result[u] # "none" => call[u].nonce \in Nonces
              /\ Owns(u) => call[u].nonce \in consumed
              /\ Owns(u) /\ pc'[u] # "readback" => Unsent(call[u].nonce)'
              /\ result[u] = "confirmed" => Wrote(call[u].nonce)'
        <4> TAKE u \in Callers
        <4>1. CASE u = t
          BY <1>1, <2>1, <2>4, <3>2, <4>1 DEF NonceInv
        <4>2. CASE u # t
          BY <2>1, <2>5, <3>2, <3>4, <4>2 DEF NonceInv, Callers, Threads
        <4> QED
          BY <4>1, <4>2
      <3>7. /\ \A w \in inFlight' :
                 w.nonce \in Nonces => w.nonce \in consumed /\ ~Wrote(w.nonce)'
            /\ \A v, w \in inFlight' :
                 v.nonce = w.nonce /\ v.nonce \in Nonces => v = w
        BY SMT, <2>4, <3>2, <3>5 DEF NonceInv, Unsent
      <3>8. NonceInv'
        BY <2>1, <2>4, <3>2, <3>6, <3>7 DEF NonceInv
      <3> QED
        BY <2>2, <2>3, <3>2, <3>3, <3>8
    <2> QED
      BY <1>3, <2>6, <2>7
  <1> QED
    BY <1>2, <1>3 DEF Put

LEMMA ReadbackPreserves ==
  ASSUME SubmissionInv, NEW t \in Callers, Readback(t)
  PROVE  SubmissionInv'
  <1> USE SubmissionAssumption DEF SubmissionInv
  <1>1. /\ UNCHANGED <<registry, rotationLock, wallet, latched, consumed, call,
                       signer>>
        /\ pc[t] = "readback" /\ call[t].nonce \in Nonces
        /\ ownerLock' = IF t \in Submitters THEN Free ELSE ownerLock
    BY DEF Readback, At, NonceInv
  <1>2. PICK r \in {"confirmed", "unknown"} :
          Return(t, r) /\ (r = "confirmed" => Wrote(call[t].nonce))
    <2>1. ASSUME State > 0, head[State] = call[t].nonce
          PROVE  Wrote(call[t].nonce)
      BY SMT, <2>1 DEF Wrote, State, TypeOK
    <2> QED
      BY <2>1 DEF Readback
  <1>3. TypeOK'
    BY <1>1, <1>2 DEF TypeOK, Goto, Return, Callers, Threads, wallet, registry
  <1>4. /\ \A u \in Threads \ {t} : pc'[u] = pc[u]
        /\ \A u \in Callers \ {t} : result'[u] = result[u]
        /\ pc'[t] = "idle" /\ result'[t] = r
    BY <1>2 DEF TypeOK, Return, Goto, Callers, Threads
  <1>5. LockInv'
    <2>1. CASE t \in Submitters
      <3>1. ownerLock = t
        BY <1>1, <2>1 DEF LockInv
      <3> QED
        BY <1>1, <1>2, <2>1, <3>1, CallerKeepsLocks DEF Return
    <2>2. CASE t \notin Submitters
      <3>1. ownerLock # t /\ ownerLock' = ownerLock /\ t \in Publishers
        BY <1>1, <2>2 DEF LockInv, Callers
      <3> QED
        BY SMT, <1>1, <1>4, <2>2, <3>1
        DEF LockInv, Callers, Threads, Locked, Critical, SubmitSteps, PublishSteps
    <2> QED
      BY <2>1, <2>2
  <1>6. GateInv' /\ SignerUsable'
    BY <1>1, <1>4 DEF GateInv, SignerUsable, Callers, Threads, Locked, wallet
  <1>7. \A m : /\ Wrote(m)' <=> Wrote(m)
               /\ Unsent(m)' <=> Unsent(m)
    BY <1>1 DEF Wrote, Unsent, registry
  <1>8. /\ \A u \in Callers \ {t} : Owns(u)' <=> Owns(u)
        /\ ~Owns(t)'
    BY <1>4 DEF Owns, Threads, Later, Locked
  <1>9. NonceInv'
    BY SMT, <1>1, <1>2, <1>4, <1>7, <1>8 DEF NonceInv, registry, Threads
  <1>10. AcceptedOnce'
    BY <1>1 DEF AcceptedOnce, registry
  <1> QED
    BY <1>3, <1>5, <1>6, <1>9, <1>10

(* Writes that arrive or go elsewhere keep the claims on unsent nonces.     *)
LEMMA NonceRegistry ==
  ASSUME SubmissionInv, UNCHANGED <<consumed, pc, call, result>>,
         \A w \in inFlight' : w \in inFlight \/ w.nonce = Rotation,
         \A m \in Nonces : Wrote(m) => Wrote(m)',
         \A m \in Nonces : Unsent(m) => Unsent(m)',
         \A m \in Nonces : Wrote(m)' => m \in consumed,
         \A w \in inFlight' : w.nonce \in Nonces => ~Wrote(w.nonce)'
  PROVE  NonceInv'
  <1>1. \A t \in Callers : Owns(t)' <=> Owns(t)
    BY DEF Owns
  <1>2. \A t \in Callers : Owns(t) => call[t].nonce \in Nonces
    BY DEF SubmissionInv, NonceInv, TypeOK
  <1>3. \A t \in Callers :
          /\ pc[t] # "idle" => call[t].nonce \in Nonces /\ result[t] = "none"
          /\ result[t] # "none" => call[t].nonce \in Nonces
          /\ Owns(t) => call[t].nonce \in consumed
          /\ Owns(t) /\ pc[t] # "readback" => Unsent(call[t].nonce)'
          /\ result[t] = "confirmed" => Wrote(call[t].nonce)'
    BY <1>2 DEF SubmissionInv, NonceInv
  <1>4. /\ \A t, u \in Callers :
             Owns(t) /\ Owns(u) /\ call[t].nonce = call[u].nonce => t = u
        /\ \A w \in inFlight' : w.nonce \in Nonces => w.nonce \in consumed
        /\ \A v, w \in inFlight' :
             v.nonce = w.nonce /\ v.nonce \in Nonces => v = w
    BY SubmissionAssumption DEF SubmissionInv, NonceInv
  <1> QED
    BY <1>1, <1>3, <1>4 DEF NonceInv

(* Lock, reopen, the rotation's own write and its confirmation.            *)
LEMMA WalletPreserves ==
  ASSUME SubmissionInv,
         Lock \/ Open \/ \E r \in Rotators : Dispatch(r) \/ Confirm(r)
  PROVE  SubmissionInv'
  <1> USE SubmissionAssumption DEF SubmissionInv
  <1>1. CASE Lock
    <2>1. TypeOK' /\ LockInv'
      BY <1>1 DEF Lock, TypeOK, LockInv, Invalidated, registry
    <2>2. GateInv' /\ SignerUsable'
      BY <1>1 DEF Lock, TypeOK, LockInv, GateInv, SignerUsable, Invalidated, Threads
    <2>3. NonceInv' /\ AcceptedOnce'
      BY <1>1, NonceFrame DEF Lock
    <2> QED
      BY <2>1, <2>2, <2>3
  <1>2. CASE Open
    <2>1. TypeOK' /\ LockInv'
      BY <1>2 DEF Open, TypeOK, LockInv, registry
    <2>2. GateInv' /\ SignerUsable'
      BY <1>2 DEF Open, GateInv, SignerUsable
    <2>3. NonceInv' /\ AcceptedOnce'
      BY <1>2, NonceFrame DEF Open
    <2> QED
      BY <2>1, <2>2, <2>3
  <1>3. ASSUME NEW r \in Rotators, Confirm(r) PROVE SubmissionInv'
    <2>1. TypeOK' /\ LockInv'
      BY <1>3 DEF Confirm, TypeOK, LockInv, registry
    <2>2. GateInv' /\ SignerUsable'
      <3>1. /\ ownerLock = Free
            /\ UNCHANGED <<ownerLock, unlocked, intent, pc, signer>>
        BY <1>3 DEF Confirm
      <3>2. \A t \in Callers : pc[t] \notin Locked
        BY <3>1, LockFree
      <3>3. \A u \in Rotators : pc[u] \notin Critical
        BY <3>1 DEF LockInv, Threads
      <3> QED
        BY <3>1, <3>2, <3>3 DEF GateInv, SignerUsable, Critical
    <2>3. NonceInv' /\ AcceptedOnce'
      BY <1>3, NonceFrame DEF Confirm
    <2> QED
      BY <2>1, <2>2, <2>3
  <1>4. ASSUME NEW r \in Rotators, Dispatch(r) PROVE SubmissionInv'
    <2>1. /\ UNCHANGED <<rotationLock, ownerLock, unlocked, intent, latched,
                         consumed, pc, call, result, signer>>
          /\ evidence' \in {"confirmed", "sent", "expired"}
          /\ Taken(Rotation, State) \/ Raised(Rotation, State) \/ UNCHANGED registry
      BY <1>4 DEF Dispatch
    <2>2. LockInv' /\ GateInv' /\ SignerUsable'
      BY <2>1 DEF LockInv, GateInv, SignerUsable
    <2>3. /\ head' \in Seq(Nonces \cup {Other, Rotation}) /\ AcceptedOnce'
          /\ \A m \in Nonces : Wrote(m)' <=> Wrote(m)
      <3>1. CASE UNCHANGED head
        BY <3>1 DEF TypeOK, AcceptedOnce, Wrote
      <3>2. CASE head' = Append(head, Rotation)
        BY <3>2, Appended
      <3> QED
        BY <2>1, <3>1, <3>2 DEF Taken, Accept, Raised, registry
    <2>4. /\ inFlight' \subseteq Writes
          /\ \A w \in inFlight' : w \in inFlight \/ w.nonce = Rotation
          /\ inFlight \subseteq inFlight'
      BY SMT, <2>1 DEF TypeOK, Taken, Raised, registry, Writes, State
    <2>5. TypeOK'
      BY <2>1, <2>3, <2>4 DEF TypeOK
    <2>6. NonceInv'
      <3>1. \A m \in Nonces : Unsent(m) => Unsent(m)'
        BY <2>3, <2>4 DEF Unsent
      <3>2. /\ \A m \in Nonces : Wrote(m)' => m \in consumed
            /\ \A w \in inFlight' : w.nonce \in Nonces => ~Wrote(w.nonce)'
        BY <2>3, <2>4 DEF NonceInv
      <3> QED
        BY <2>1, <2>3, <2>4, <3>1, <3>2, NonceRegistry
    <2> QED
      BY <2>2, <2>3, <2>5, <2>6
  <1> QED
    BY <1>1, <1>2, <1>3, <1>4

(* A late write and the updates of others.                                 *)
LEMMA RegistryPreserves ==
  ASSUME SubmissionInv, Arrive \/ OtherUpdate
  PROVE  SubmissionInv'
  <1> USE SubmissionAssumption DEF SubmissionInv
  <1>1. UNCHANGED <<rotationLock, ownerLock, wallet, latched, consumed, pc, call,
                    result, signer>>
    BY DEF Arrive, OtherUpdate
  <1>2. LockInv' /\ GateInv' /\ SignerUsable' /\ \A u \in Callers : Owns(u)' <=> Owns(u)
    BY <1>1 DEF LockInv, GateInv, SignerUsable, Owns, wallet
  <1>3. CASE OtherUpdate
    <2>1. head' = Append(head, Other) /\ UNCHANGED inFlight
      BY <1>3 DEF OtherUpdate, Accept
    <2>2. /\ head' \in Seq(Nonces \cup {Other, Rotation}) /\ AcceptedOnce'
          /\ \A m \in Nonces : Wrote(m)' <=> Wrote(m)
      BY <2>1, Appended
    <2>3. TypeOK'
      BY <1>1, <2>1, <2>2 DEF TypeOK, wallet
    <2>4. NonceInv'
      <3>1. /\ \A m \in Nonces : Unsent(m) => Unsent(m)'
            /\ \A m \in Nonces : Wrote(m)' => m \in consumed
            /\ \A w \in inFlight' : w.nonce \in Nonces => ~Wrote(w.nonce)'
        BY <2>1, <2>2 DEF Unsent, NonceInv
      <3> QED
        BY <1>1, <2>1, <2>2, <3>1, NonceRegistry
    <2> QED
      BY <1>2, <2>2, <2>3, <2>4
  <1>4. ASSUME NEW w \in inFlight, inFlight' = inFlight \ {w},
               head' = head \/ head' = Append(head, w.nonce)
        PROVE  SubmissionInv'
    <2>1. w.nonce \in Nonces \cup {Rotation}
      BY DEF TypeOK, Writes
    <2>2. /\ head' \in Seq(Nonces \cup {Other, Rotation}) /\ AcceptedOnce'
          /\ \A m \in Nonces : Wrote(m)' => Wrote(m) \/ m = w.nonce
          /\ \A m \in Nonces : Wrote(m) => Wrote(m)'
      <3>1. CASE head' = head
        BY <3>1 DEF TypeOK, AcceptedOnce, Wrote
      <3>2. CASE head' = Append(head, w.nonce)
        <4>1. w.nonce \in Nonces => ~Wrote(w.nonce)
          BY DEF NonceInv
        <4> QED
          BY <2>1, <3>2, <4>1, Appended
      <3> QED
        BY <1>4, <3>1, <3>2
    <2>3. TypeOK'
      BY <1>1, <1>4, <2>2 DEF TypeOK, wallet
    <2>4. NonceInv'
      <3>1. \A m \in Nonces : Unsent(m) => Unsent(m)'
        BY <1>4, <2>2 DEF Unsent
      <3>2. \A m \in Nonces : Wrote(m)' => m \in consumed
        BY <1>4, <2>2 DEF NonceInv
      <3>3. \A v \in inFlight' : v.nonce \in Nonces => ~Wrote(v.nonce)'
        BY <1>4, <2>2 DEF NonceInv
      <3> QED
        BY <1>1, <1>4, <2>2, <3>1, <3>2, <3>3, NonceRegistry
    <2> QED
      BY <1>2, <2>2, <2>3, <2>4
  <1> QED
    BY <1>3, <1>4 DEF Arrive, Accept

-----------------------------------------------------------------------------
LEMMA StepPreserves == SubmissionInv /\ [Next]_vars => SubmissionInv'
  <1> SUFFICES ASSUME SubmissionInv, [Next]_vars PROVE SubmissionInv'
    OBVIOUS
  <1>1. CASE \E t \in Submitters, n \in Nonces : SubmitIdentity(t, n) \/ SignDraft(t, n)
    BY <1>1, StartPreserves DEF Callers, SubmitIdentity, SignDraft
  <1>2. CASE \E t \in Publishers, n \in Nonces : PublishBundle(t, n)
    BY <1>2, StartPreserves DEF Callers, PublishBundle
  <1>3. ASSUME NEW t \in Submitters, Submitting(t) \/ Timeout(t)
        PROVE  SubmissionInv'
    <2>1. t \in Callers
      BY DEF Callers
    <2>2. CASE Consent(t)
      <3>1. ~PubReread(t)
        BY <2>2 DEF Consent, PubReread, At
      <3> QED
        BY <2>1, <2>2, <3>1, ConsentPreserves
    <2> QED
      BY <1>3, <2>1, <2>2, SubmitterPreserves, ReservePreserves,
         TakeOwnerPreserves, PutPreserves, ReadbackPreserves DEF Submitting
  <1>4. ASSUME NEW t \in Publishers, Publishing(t) PROVE SubmissionInv'
    BY <1>4, ReservePreserves, ConsentPreserves, TakeOwnerPreserves,
       PutPreserves, ReadbackPreserves DEF Publishing, Callers
  <1>5. CASE Lock \/ Open \/ \E r \in Rotators : Dispatch(r) \/ Confirm(r)
    BY <1>5, WalletPreserves
  <1>6. ASSUME NEW r \in Rotators, Latch(r) \/ Finish(r) \/ Rotating(r)
        PROVE  SubmissionInv'
    BY <1>6, RotatorPreserves
  <1>7. CASE Arrive \/ OtherUpdate
    BY <1>7, RegistryPreserves
  <1>8. CASE UNCHANGED vars
    <2>1. /\ UNCHANGED <<registry, rotationLock, ownerLock, wallet, latched,
                         consumed, pc, call, result, signer>>
      BY <1>8 DEF vars
    <2>2. TypeOK' /\ LockInv' /\ GateInv' /\ SignerUsable'
      BY <2>1 DEF SubmissionInv, TypeOK, LockInv, GateInv, SignerUsable, wallet,
                  registry
    <2>3. NonceInv' /\ AcceptedOnce'
      BY <2>1, NonceFrame DEF SubmissionInv
    <2> QED
      BY <2>2, <2>3 DEF SubmissionInv
  <1> QED
    BY <1>1, <1>2, <1>3, <1>4, <1>5, <1>6, <1>7, <1>8 DEF Next

(* The inductive invariant holds whatever the threads do.                  *)
THEOREM SubmissionInvariant == Spec => []SubmissionInv
  BY InitSubmission, StepPreserves, PTL DEF Spec

(* publish_bundle and submit_identity never write under a latched gate or  *)
(* while a latch or its clearing is being persisted.                       *)
THEOREM WritesAreSerialized == Spec => []WritesSerialized
  <1>1. SubmissionInv => WritesSerialized
    <2> SUFFICES ASSUME SubmissionInv, NEW t \in Callers, pc[t] = "put"
                 PROVE  /\ ~latched
                        /\ \A r \in Rotators : pc[r] \notin {"persist", "mark", "clear"}
      BY DEF WritesSerialized
    <2>1. ownerLock = t /\ t \notin Rotators
      BY SubmissionAssumption DEF SubmissionInv, LockInv, Callers, Locked
    <2> QED
      BY <2>1 DEF SubmissionInv, LockInv, GateInv, Locked, Critical
  <1> QED
    BY <1>1, SubmissionInvariant, PTL

(* lock(), the latch and the end of a submission leave no capability that  *)
(* can sign.                                                               *)
THEOREM SignersAreUsable == Spec => []SignerUsable
  BY SubmissionInvariant, PTL DEF SubmissionInv

(* A replay nonce stands for at most one accepted update.                  *)
THEOREM NoncesWriteOnce == Spec => []OneWritePerNonce
  <1>1. SubmissionInv => OneWritePerNonce
    BY DEF SubmissionInv, NonceInv, OneWritePerNonce
  <1> QED
    BY <1>1, SubmissionInvariant, PTL

(* Refused calls wrote nothing, confirmed ones were accepted.              *)
THEOREM ReportsHold == Spec => []ReportsAreTrue
  <1>1. SubmissionInv => ReportsAreTrue
    BY DEF SubmissionInv, NonceInv, ReportsAreTrue, Owns, Unsent
  <1> QED
    BY <1>1, SubmissionInvariant, PTL

(* Calls wait for running calls only, and for ever only around the signer  *)
(* that submit_identity makes under the owner lock.                        *)
THEOREM OnlyTheSignerBlocks == Spec => []OnlySignerBlocks
  <1>1. SubmissionInv => OnlySignerBlocks
    <2> SUFFICES ASSUME SubmissionInv, NEW t \in Threads, Waits(t)
                 PROVE  /\ pc[Holder(t)] # "idle"
                        /\ Waits(Holder(t)) => "signer" \in {pc[t], pc[Holder(t)]}
      BY DEF OnlySignerBlocks
    <2>1. CASE pc[t] = "signer"
      <3>1. Holder(t) = rotationLock /\ rotationLock \in Rotators
        BY <2>1 DEF Waits, Holder, SubmissionInv, TypeOK
      <3> QED
        BY <2>1, <3>1 DEF SubmissionInv, LockInv
    <2>2. CASE pc[t] # "signer"
      <3>1. Holder(t) = ownerLock /\ ownerLock \in Threads
        BY <2>2 DEF Waits, Holder, SubmissionInv, TypeOK
      <3>2. pc[ownerLock] \in Locked \cup {"readback", "put"} \cup Critical
        BY <3>1 DEF SubmissionInv, LockInv, Threads, Callers
      <3> QED
        BY <3>1, <3>2 DEF Waits, Locked, Critical
    <2> QED
      BY <2>1, <2>2
  <1> QED
    BY <1>1, SubmissionInvariant, PTL

=============================================================================
