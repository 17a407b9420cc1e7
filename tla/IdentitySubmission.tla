------------------------- MODULE IdentitySubmission -------------------------
(***************************************************************************)
(* Ordinary Identity updates beside an owner-key rotation, in the threads  *)
(* of one process: submit_identity (and sign_draft, which calls it),       *)
(* publish_bundle, the wallet's latch, finalize and resolve, its lock(),   *)
(* and the one-use signer capabilities with their timers.  One owner name, *)
(* one wallet, one RegistryAdapter.                                        *)
(*                                                                         *)
(* Two locks matter: the wallet's _rotation_lock and the adapter's lock of *)
(* the owner name.  A step that holds a lock only for itself is one action *)
(* guarded by the lock being free.  Clocks are abstracted: every expiry    *)
(* check may find the consent expired.  What a rotation dispatches is the  *)
(* subject of OwnerKeyRotation; here only its locks, its gate and its      *)
(* effect on the Registry count.                                           *)
(***************************************************************************)
EXTENDS Naturals, Sequences

CONSTANTS
  Submitters, Publishers, Rotators,   \* threads, by the call they make
  Nonces,                             \* replay nonces
  Free, Other, Rotation,              \* no thread; writers besides Nonces
  MaxStates                           \* bound on accepted Identity states

Callers == Submitters \cup Publishers
Threads == Callers \cup Rotators

ASSUME SubmissionAssumption ==
  /\ Submitters \cap Publishers = {} /\ Callers \cap Rotators = {}
  /\ Free \notin Threads
  /\ Other \notin Nonces /\ Rotation \notin Nonces /\ Other # Rotation
  /\ MaxStates \in Nat

VARIABLES
  head,            \* the accepted states: who wrote each one
  inFlight,        \* writes that may still arrive, with their expected state
  rotationLock, ownerLock,
  unlocked,        \* the session
  intent,          \* the container holds a dispatch intent
  latched,         \* the adapter's gate for the owner
  evidence,        \* what the adapter has handed out about the dispatch
  consumed,        \* the replay store
  pc, call, result,\* per thread: control; per caller: request and outcome
  signer           \* per submitter: its signer capability

wallet == <<unlocked, intent, evidence>>
registry == <<head, inFlight>>
vars == <<registry, rotationLock, ownerLock, wallet, latched, consumed, pc,
          call, result, signer>>

Writes == [nonce : Nonces \cup {Rotation}, expected : Nat]
NoCall == [nonce |-> Other, state |-> 0, draft |-> FALSE]

Init ==
  /\ head = <<>> /\ inFlight = {}
  /\ rotationLock = Free /\ ownerLock = Free
  /\ unlocked = TRUE /\ intent = FALSE /\ latched = FALSE /\ evidence = "none"
  /\ consumed = {}
  /\ pc = [t \in Threads |-> "idle"]
  /\ call = [t \in Callers |-> NoCall]
  /\ result = [t \in Callers |-> "none"]
  /\ signer = [t \in Submitters |-> "none"]

At(t, here) == pc[t] = here
Goto(t, there) == pc' = [pc EXCEPT ![t] = there]
Return(t, r) == Goto(t, "idle") /\ result' = [result EXCEPT ![t] = r]

-----------------------------------------------------------------------------
(* The Registry, as the transport shows it.                                *)

State == Len(head)
Wrote(n) == \E i \in 1..Len(head) : head[i] = n
Accept(n) == State < MaxStates /\ head' = Append(head, n)

(* A conditional put: taken, refused as stale or expired, or it raises and *)
(* the write is lost or still under way.                                   *)
Taken(n, s) == s = State /\ Accept(n) /\ UNCHANGED inFlight
Raised(n, s) ==
  \/ UNCHANGED registry
  \/ inFlight' = inFlight \cup {[nonce |-> n, expected |-> s]} /\ UNCHANGED head

Arrive ==
  \E w \in inFlight :
    /\ inFlight' = inFlight \ {w}
    /\ IF w.expected = State THEN Accept(w.nonce) ELSE UNCHANGED head
    /\ UNCHANGED <<rotationLock, ownerLock, wallet, latched, consumed, pc, call,
                   result, signer>>

OtherUpdate ==
  /\ Accept(Other)
  /\ UNCHANGED <<inFlight, rotationLock, ownerLock, wallet, latched, consumed,
                 pc, call, result, signer>>

-----------------------------------------------------------------------------
(* What submit_identity and publish_bundle share.                          *)

(* The gate and the accepted state are read before consent.                *)
Start(t, n, d) ==
  /\ At(t, "idle") /\ ~latched
  /\ call' = [call EXCEPT ![t] = [nonce |-> n, state |-> State, draft |-> d]]
  /\ Goto(t, "nonce") /\ result' = [result EXCEPT ![t] = "none"]
  /\ UNCHANGED <<registry, rotationLock, ownerLock, wallet, latched, consumed,
                 signer>>

SubmitIdentity(t, n) == Start(t, n, FALSE)
SignDraft(t, n) == Start(t, n, TRUE)
PublishBundle(t, n) == Start(t, n, FALSE)

\* Mutant: the replay store remembers but does not refuse.
ReserveAlways(t) ==
  /\ At(t, "nonce")
  /\ consumed' = consumed \cup {call[t].nonce}
  /\ Goto(t, "consent") /\ UNCHANGED result
  /\ UNCHANGED <<registry, rotationLock, ownerLock, wallet, latched, call, signer>>

(* _consent_gate: the nonce is spent first, whatever follows.  A call is   *)
(* turned down if the nonce was spent before, or if the replay store fails,*)
(* with the nonce recorded or not.                                         *)
Reserve(t) ==
  /\ At(t, "nonce")
  /\ \/ /\ call[t].nonce \notin consumed
        /\ consumed' = consumed \cup {call[t].nonce}
        /\ \/ Goto(t, "consent") /\ UNCHANGED result
           \/ Return(t, "refused")
     \/ /\ consumed' \in {consumed, consumed \cup {call[t].nonce}}
        /\ Return(t, "replay")
  /\ UNCHANGED <<registry, rotationLock, ownerLock, wallet, latched, call, signer>>

(* The user's answer, and the expiry check after it.                       *)
Consent(t) ==
  /\ At(t, "consent")
  /\ \/ Goto(t, IF t \in Submitters THEN "owner" ELSE "pubReread")
        /\ UNCHANGED result
     \/ Return(t, "refused")
  /\ UNCHANGED <<registry, rotationLock, ownerLock, wallet, latched, consumed,
                 call, signer>>

\* Mutant: the gate is not looked at again under the owner lock.
TakeOwnerUnchecked(t) ==
  /\ At(t, "owner") /\ ownerLock = Free
  /\ ownerLock' = t
  /\ Goto(t, IF t \in Submitters THEN "reread" ELSE "put") /\ UNCHANGED result
  /\ UNCHANGED <<registry, rotationLock, wallet, latched, consumed, call, signer>>

(* Under the owner lock the gate is looked at again.                       *)
TakeOwner(t) ==
  /\ At(t, "owner") /\ ownerLock = Free
  /\ IF latched
       THEN Return(t, "refused") /\ UNCHANGED ownerLock
       ELSE /\ ownerLock' = t /\ UNCHANGED result
            /\ Goto(t, IF t \in Submitters THEN "reread" ELSE "put")
  /\ UNCHANGED <<registry, rotationLock, wallet, latched, consumed, call, signer>>

\* Mutant: any error of the put counts as a refusal.
PutErrorIsRefusal(t) ==
  /\ At(t, "put")
  /\ LET n == call[t].nonce  s == call[t].state IN
     \/ /\ Return(t, "refused") /\ ownerLock' = Free
        /\ UNCHANGED registry \/ Raised(n, s)
     \/ /\ Taken(n, s)
        /\ Goto(t, "readback") /\ UNCHANGED result
        /\ ownerLock' = IF t \in Submitters THEN t ELSE Free
  /\ UNCHANGED <<rotationLock, wallet, latched, consumed, call, signer>>

\* Mutant: a refused put returns with the owner lock held.
PutLeaksLock(t) ==
  /\ At(t, "put")
  /\ LET n == call[t].nonce  s == call[t].state IN
     \/ Return(t, "refused") /\ UNCHANGED <<ownerLock, registry>>
     \/ /\ Taken(n, s) \/ Raised(n, s)
        /\ Goto(t, "readback") /\ UNCHANGED result
        /\ ownerLock' = IF t \in Submitters THEN t ELSE Free
  /\ UNCHANGED <<rotationLock, wallet, latched, consumed, call, signer>>

(* put_identity_envelope.  publish_bundle holds the lock for the put only, *)
(* submit_identity until it has read back.                                 *)
Put(t) ==
  /\ At(t, "put")
  /\ LET n == call[t].nonce  s == call[t].state IN
     \/ Return(t, "refused") /\ ownerLock' = Free /\ UNCHANGED registry
     \/ /\ Taken(n, s) \/ Raised(n, s)
        /\ Goto(t, "readback") /\ UNCHANGED result
        /\ ownerLock' = IF t \in Submitters THEN t ELSE Free
  /\ UNCHANGED <<rotationLock, wallet, latched, consumed, call, signer>>

(* _confirm: only the exact envelope confirms, and the read may fail.      *)
Readback(t) ==
  /\ At(t, "readback")
  /\ \/ State > 0 /\ head[State] = call[t].nonce /\ Return(t, "confirmed")
     \/ Return(t, "unknown")
  /\ ownerLock' = IF t \in Submitters THEN Free ELSE ownerLock
  /\ UNCHANGED <<registry, rotationLock, wallet, latched, consumed, call, signer>>

(* publish_bundle compares the accepted state before it takes the lock.    *)
PubReread(t) ==
  /\ At(t, "pubReread")
  /\ \/ call[t].state = State /\ Goto(t, "owner") /\ UNCHANGED result
     \/ Return(t, "refused")
  /\ UNCHANGED <<registry, rotationLock, ownerLock, wallet, latched, consumed,
                 call, signer>>

-----------------------------------------------------------------------------
(* complete_submission, under the owner lock.                              *)

Quit(t, r) == Return(t, r) /\ ownerLock' = Free

Reread(t) ==
  /\ At(t, "reread")
  /\ \/ call[t].state = State /\ Goto(t, "signer") /\ UNCHANGED <<result, ownerLock>>
     \/ Quit(t, "refused")
  /\ UNCHANGED <<registry, rotationLock, wallet, latched, consumed, call, signer>>

\* Mutant: create_signer does not look for a dispatch intent.
MakeSignerAnyway(t) ==
  /\ At(t, "signer") /\ rotationLock = Free
  /\ \/ /\ unlocked
        /\ signer' = [signer EXCEPT ![t] = "active"]
        /\ Goto(t, "sign") /\ UNCHANGED <<result, ownerLock>>
     \/ Quit(t, "refused") /\ UNCHANGED signer
  /\ UNCHANGED <<registry, rotationLock, wallet, latched, consumed, call>>

(* signer_factory, which is the wallet's create_signer: it takes the       *)
(* _rotation_lock while the owner lock is held.                            *)
MakeSigner(t) ==
  /\ At(t, "signer") /\ rotationLock = Free
  /\ \/ /\ unlocked /\ ~intent
        /\ signer' = [signer EXCEPT ![t] = "active"]
        /\ Goto(t, "sign") /\ UNCHANGED <<result, ownerLock>>
     \/ Quit(t, "refused") /\ UNCHANGED signer
  /\ UNCHANGED <<registry, rotationLock, wallet, latched, consumed, call>>

(* sign_identity_update invalidates the capability whatever it returns;    *)
(* an inactive one, an expired consent or a failed signature end the call. *)
Sign(t) ==
  /\ At(t, "sign")
  /\ \/ signer[t] = "active" /\ Goto(t, "recheck") /\ UNCHANGED <<result, ownerLock>>
     \/ Quit(t, "refused")
  /\ signer' = [signer EXCEPT ![t] = "spent"]
  /\ UNCHANGED <<registry, rotationLock, wallet, latched, consumed, call>>

(* A draft, or an update that needs more proofs, ends with the proof.      *)
Recheck(t) ==
  /\ At(t, "recheck")
  /\ \/ /\ call[t].state = State
        /\ IF call[t].draft
             THEN Quit(t, "proof")
             ELSE Goto(t, "put") /\ UNCHANGED <<result, ownerLock>>
     \/ Quit(t, "refused")
  /\ UNCHANGED <<registry, rotationLock, wallet, latched, consumed, call, signer>>

-----------------------------------------------------------------------------
(* The wallet.                                                             *)

Invalidated == [t \in Submitters |->
                  IF signer[t] = "active" THEN "spent" ELSE signer[t]]

(* The capability's timer.                                                 *)
Timeout(t) ==
  /\ signer[t] = "active"
  /\ signer' = [signer EXCEPT ![t] = "spent"]
  /\ UNCHANGED <<registry, rotationLock, ownerLock, wallet, latched, consumed,
                 pc, call, result>>

\* Mutant: lock() forgets the capabilities it handed out.
LockKeepsSigners ==
  /\ unlocked /\ rotationLock = Free
  /\ unlocked' = FALSE
  /\ UNCHANGED <<registry, rotationLock, ownerLock, intent, evidence, latched,
                 consumed, pc, call, result, signer>>

(* lock(), also by background() and by the inactivity check.               *)
Lock ==
  /\ unlocked /\ rotationLock = Free
  /\ unlocked' = FALSE /\ signer' = Invalidated
  /\ UNCHANGED <<registry, rotationLock, ownerLock, intent, evidence, latched,
                 consumed, pc, call, result>>

Open ==
  /\ ~unlocked /\ rotationLock = Free
  /\ unlocked' = TRUE
  /\ UNCHANGED <<registry, rotationLock, ownerLock, intent, evidence, latched,
                 consumed, pc, call, result, signer>>

(* latch_signing_key_rotation_dispatch_intent: the _rotation_lock, then the*)
(* owner lock, then the container, then the gate.                          *)
Latch(r) ==
  /\ At(r, "idle") /\ rotationLock = Free /\ unlocked /\ ~intent
  /\ rotationLock' = r /\ Goto(r, "latchOwner")
  /\ UNCHANGED <<registry, ownerLock, wallet, latched, consumed, call, result,
                 signer>>

Leave(r) == Goto(r, "idle") /\ rotationLock' = Free /\ ownerLock' = Free

\* Mutant: the latch does not take the owner lock.
LatchUnserialized(r) ==
  /\ At(r, "latchOwner")
  /\ Goto(r, "persist") /\ signer' = Invalidated
  /\ UNCHANGED <<registry, rotationLock, ownerLock, wallet, latched, consumed,
                 call, result>>

LatchOwner(r) ==
  /\ At(r, "latchOwner") /\ ownerLock = Free
  /\ IF latched
       THEN Leave(r) /\ UNCHANGED signer
       ELSE /\ Goto(r, "persist") /\ ownerLock' = r /\ signer' = Invalidated
            /\ UNCHANGED rotationLock
  /\ UNCHANGED <<registry, wallet, latched, consumed, call, result>>

(* _persist_envelope.  After an unknown outcome the session is locked and  *)
(* the container may hold either payload.                                  *)
PersistUnknown(r) ==
  /\ Leave(r) /\ unlocked' = FALSE /\ intent' \in BOOLEAN
  /\ signer' = Invalidated

LatchPersist(r) ==
  /\ At(r, "persist")
  /\ \/ intent' = TRUE /\ evidence' = "none" /\ Goto(r, "mark")
        /\ UNCHANGED <<unlocked, rotationLock, ownerLock, signer>>
     \/ Leave(r) /\ UNCHANGED <<wallet, signer>>
     \/ PersistUnknown(r) /\ evidence' = "none"
  /\ UNCHANGED <<registry, latched, consumed, call, result>>

MarkLatched(r) ==
  /\ At(r, "mark")
  /\ latched' = TRUE /\ evidence' = "permit" /\ Leave(r)
  /\ UNCHANGED <<registry, unlocked, intent, consumed, call, result, signer>>

(* dispatch_owner_key_rotation, all of it under the owner lock.            *)
Dispatch(r) ==
  /\ At(r, "idle") /\ ownerLock = Free /\ latched /\ evidence = "permit"
  /\ \/ Taken(Rotation, State) /\ evidence' \in {"confirmed", "sent"}
     \/ Raised(Rotation, State) /\ evidence' = "sent"
     \/ UNCHANGED registry /\ evidence' = "expired"
  /\ UNCHANGED <<rotationLock, ownerLock, unlocked, intent, latched, consumed,
                 pc, call, result, signer>>

(* confirm_owner_key_rotation registers the gate before it reads.          *)
Confirm(r) ==
  /\ At(r, "idle") /\ ownerLock = Free /\ unlocked /\ intent
  /\ latched' = TRUE
  /\ \/ State > 0 /\ head[State] = Rotation /\ evidence' = "confirmed"
     \/ UNCHANGED evidence
  /\ UNCHANGED <<registry, rotationLock, ownerLock, unlocked, intent, consumed,
                 pc, call, result, signer>>

(* finalize_signing_key_rotation and resolve_signing_key_rotation_rejection*)
(* lock and write alike.                                                   *)
Finish(r) ==
  /\ At(r, "idle") /\ rotationLock = Free /\ unlocked /\ intent
  /\ evidence \in {"confirmed", "expired"}
  /\ rotationLock' = r /\ Goto(r, "finishOwner")
  /\ UNCHANGED <<registry, ownerLock, wallet, latched, consumed, call, result,
                 signer>>

FinishOwner(r) ==
  /\ At(r, "finishOwner") /\ ownerLock = Free
  /\ IF latched
       THEN Goto(r, "clear") /\ ownerLock' = r /\ UNCHANGED rotationLock
       ELSE Leave(r)
  /\ UNCHANGED <<registry, wallet, latched, consumed, call, result, signer>>

FinishPersist(r) ==
  /\ At(r, "clear")
  /\ \/ /\ intent' = FALSE /\ latched' = FALSE /\ evidence' = "none" /\ Leave(r)
        /\ signer' = Invalidated /\ UNCHANGED unlocked
     \/ Leave(r) /\ UNCHANGED <<wallet, latched, signer>>
     \/ PersistUnknown(r) /\ UNCHANGED <<evidence, latched>>
  /\ UNCHANGED <<registry, consumed, call, result>>

-----------------------------------------------------------------------------
Submitting(t) ==
  Reserve(t) \/ Consent(t) \/ TakeOwner(t) \/ Reread(t) \/ MakeSigner(t)
    \/ Sign(t) \/ Recheck(t) \/ Put(t) \/ Readback(t)

Publishing(t) ==
  Reserve(t) \/ Consent(t) \/ PubReread(t) \/ TakeOwner(t) \/ Put(t) \/ Readback(t)

Rotating(r) ==
  LatchOwner(r) \/ LatchPersist(r) \/ MarkLatched(r) \/ FinishOwner(r)
    \/ FinishPersist(r)

Next ==
  \/ \E t \in Submitters, n \in Nonces : SubmitIdentity(t, n) \/ SignDraft(t, n)
  \/ \E t \in Publishers, n \in Nonces : PublishBundle(t, n)
  \/ \E t \in Submitters : Submitting(t) \/ Timeout(t)
  \/ \E t \in Publishers : Publishing(t)
  \/ \E r \in Rotators : Latch(r) \/ Dispatch(r) \/ Confirm(r) \/ Finish(r)
                            \/ Rotating(r)
  \/ Lock \/ Open \/ Arrive \/ OtherUpdate

Spec == Init /\ [][Next]_vars

(* Threads run, users answer and transports return; a lock that is free    *)
(* again and again is got in the end.                                      *)
Fairness ==
  /\ \A t \in Submitters : SF_vars(Submitting(t))
  /\ \A t \in Publishers : SF_vars(Publishing(t))
  /\ \A r \in Rotators : SF_vars(Rotating(r))

FairSpec == Spec /\ Fairness

-----------------------------------------------------------------------------
(* Every lock is some thread's or free and every thread is at a step of    *)
(* its own calls.                                                          *)
TypeOK ==
  /\ head \in Seq(Nonces \cup {Other, Rotation}) /\ inFlight \subseteq Writes
  /\ rotationLock \in Rotators \cup {Free} /\ ownerLock \in Threads \cup {Free}
  /\ unlocked \in BOOLEAN /\ intent \in BOOLEAN /\ latched \in BOOLEAN
  /\ evidence \in {"none", "permit", "sent", "confirmed", "expired"}
  /\ consumed \subseteq Nonces
  /\ pc \in [Threads -> {"idle", "nonce", "consent", "owner", "reread", "signer",
                         "sign", "recheck", "put", "readback", "pubReread",
                         "latchOwner", "persist", "mark", "finishOwner", "clear"}]
  /\ call \in [Callers -> [nonce : Nonces \cup {Other}, state : Nat,
                           draft : BOOLEAN]]
  /\ result \in [Callers -> {"none", "replay", "refused", "proof", "confirmed",
                             "unknown"}]
  /\ signer \in [Submitters -> {"none", "active", "spent"}]

(* No ordinary conditional write starts or runs while the owner's gate is  *)
(* latched, or while a latch or its clearing is being persisted.           *)
WritesSerialized ==
  \A t \in Callers :
    pc[t] = "put" =>
      ~latched /\ \A r \in Rotators : pc[r] \notin {"persist", "mark", "clear"}

(* A capability that can still sign belongs to an unlocked wallet without  *)
(* a dispatch intent and to the submission that asked for it: lock(), the  *)
(* latch and the end of the call all leave it dead.                        *)
SignerUsable ==
  \A t \in Submitters :
    signer[t] = "active" => unlocked /\ ~intent /\ pc[t] = "sign"

AcceptedOnce ==
  \A i, j \in 1..Len(head) :
    head[i] = head[j] /\ head[i] \in Nonces => i = j

(* One consent, one replay nonce, at most one update accepted or still     *)
(* under way: not by two threads, nor by a write that arrives after its    *)
(* call reported unknown (_reserve_replay_nonce, identity.py:2353).        *)
OneWritePerNonce ==
  /\ AcceptedOnce
  /\ \A w \in inFlight : w.nonce \in Nonces => ~Wrote(w.nonce)
  /\ \A v, w \in inFlight : v.nonce = w.nonce /\ v.nonce \in Nonces => v = w

(* A call that reports a refusal or a bare proof has written nothing and   *)
(* nothing of it is under way; a confirmed one has been accepted.          *)
ReportsAreTrue ==
  \A t \in Callers :
    LET n == call[t].nonce IN
    /\ result[t] \in {"refused", "proof"} =>
         ~Wrote(n) /\ \A w \in inFlight : w.nonce # n
    /\ result[t] = "confirmed" => Wrote(n)

(* The lock a call waits for, and who has it.                              *)
Waits(t) ==
  \/ pc[t] \in {"owner", "latchOwner", "finishOwner"} /\ ownerLock # Free
  \/ pc[t] = "signer" /\ rotationLock # Free
Holder(t) == IF pc[t] = "signer" THEN rotationLock ELSE ownerLock

(* A call that waits for a lock waits for a call that is running, and that *)
(* one goes on unless submit_identity, which makes its signer under the    *)
(* owner lock (identity.py:2518), is one of the two: no other pair of calls*)
(* can block each other, and no call leaves a lock behind.                 *)
OnlySignerBlocks ==
  \A t \in Threads :
    Waits(t) =>
      /\ pc[Holder(t)] # "idle"
      /\ Waits(Holder(t)) => "signer" \in {pc[t], pc[Holder(t)]}

(* Every submit_identity, publish_bundle, latch, finalize and resolve that *)
(* was started returns.                                                    *)
CallsReturn == \A t \in Threads : pc[t] # "idle" ~> pc[t] = "idle"

=============================================================================
