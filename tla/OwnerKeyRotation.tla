-------------------------- MODULE OwnerKeyRotation --------------------------
(***************************************************************************)
(* Owner-key rotation in the Python core: the wallet session over its      *)
(* encrypted container (container.py), the Registry adapter with its       *)
(* per-owner latch registry and one-use capabilities (identity.py), and    *)
(* the part of the Registry both talk to (registry_transport.py).          *)
(*                                                                         *)
(* The container is reduced to what rotation reads and writes: the active  *)
(* key, the pending successor and the dispatch intent.  A key stands for   *)
(* its seed and public key; an Identity state is its owner key and         *)
(* sequence number; a finalized operation-5 bundle is the state it         *)
(* replaces and the successor key, so two artifacts of one bundle have     *)
(* equal bindings, as _rotation_binding gives them.                        *)
(*                                                                         *)
(* An operation that raises before it changes anything is a stuttering     *)
(* step and has no action: in particular StorageFailure, which             *)
(* _atomic_write raises only after the previous bytes are verifiably back. *)
(***************************************************************************)
EXTENDS Naturals, FiniteSets

CONSTANTS
  Keys,            \* Ed25519 key pairs the CSRNG may return
  FirstKey,        \* the key the wallet was created with
  Publications,    \* RotationPublication objects the process can hold
  Realms,          \* Registry environment labels
  AdapterRealm,    \* the label this adapter and its transport are built with
  None, Locked,    \* absent value; the session after lock()
  MaxSeq,          \* bound on the Identity sequence number
  HostReprepares   \* may the host prepare a bundle that is already prepared?

Unbound == "unbound"                    \* environment None of a legacy intent

ASSUME ConstantsAssumption ==
  /\ FirstKey \in Keys
  /\ AdapterRealm \in Realms
  /\ Unbound \notin Realms
  /\ MaxSeq \in Nat
  /\ HostReprepares \in BOOLEAN

States  == [key : Keys, seq : Nat]
Bundles == [prev : States, key : Keys]
Intents == [bundle : Bundles, realm : Realms \cup {Unbound}]
Content == [active : Keys, pending : Keys \cup {None},
            intent : Intents \cup {None}]
Writes  == [prev : States, next : States]
Gates   == [intent : Intents, ready : BOOLEAN]

ASSUME DistinctAssumption ==
  /\ None \notin Keys
  /\ None \notin Intents
  /\ None \notin Bundles
  /\ None \notin Gates
  /\ Locked \notin Content

(* The two views of the Registry the adapter reads: the one behind         *)
(* get_identity_envelope and put, and the independent readback peer.       *)
Peers == {"local", "remote"}

(* Control points of a publication: prepare_owner_key_rotation_publication *)
(* waits for consent, then the object is ready; its single dispatch runs   *)
(* from "consumed" to "done".                                              *)
Phases == {"free", "consent", "ready", "consumed", "holding", "checked",
           "clearable", "ambiguous", "done"}

VARIABLES
  disk,           \* content of the container file
  session,        \* content of the unlocked session, or Locked
  review,         \* legacy intent a binding consent callback is looking at
  generated,      \* keys the CSRNG has returned
  retired,        \* keys a promotion has replaced (history)
  gate,           \* the owner's entry in _RotationLatchRegistry, or None
  phase, artifact, expired, rejection,   \* per publication object
  permits,        \* intents of the RotationDispatchPermits the host holds
  confirming,     \* intents of confirm calls between register and readback
  confirmations,  \* intents of the RotationConfirmations the host holds
  bundles,        \* finalized operation-5 bundles the host holds
  head,           \* the accepted Identity state each peer shows
  net             \* writes begun; each may reach a peer late, twice or never

walletVars == <<disk, session, review, generated, retired>>
pubVars    == <<phase, artifact, expired, rejection>>
proofVars  == <<permits, confirming, confirmations>>
registry   == <<head, net>>
vars == <<walletVars, gate, pubVars, proofVars, bundles, registry>>

-----------------------------------------------------------------------------
(* The Identity update a bundle publishes, and the write that carries it.  *)
Candidate(b) == [key |-> b.key, seq |-> b.prev.seq + 1]

WriteOf(b) == [prev |-> b.prev, next |-> Candidate(b)]

Unlocked == session # Locked

Latched == session.intent # None

(* The intent latched for a publication of this adapter.                   *)
IntentOf(p) == [bundle |-> artifact[p], realm |-> AdapterRealm]

(* A dispatch holds the owner lock from the re-check of the latch to its   *)
(* return; the wallet's latch, finalize and resolve take the same lock.    *)
OwnerLockFree ==
  \A p \in Publications :
    phase[p] \notin {"holding", "checked", "clearable", "ambiguous"}

(* _persist_envelope: the write is durable, or its outcome is unknown and  *)
(* the session locks itself with either content on disk.                   *)
Persisted(c) == disk' = c /\ session' = c

\* Mutant: StorageOutcomeUnknown is reported but the session stays unlocked.
PersistUnknownKeepsSession(c) ==
  disk' \in {disk, c} /\ UNCHANGED <<session, review>>

PersistUnknown(c) == disk' \in {disk, c} /\ session' = Locked /\ review' = None

(* The container finalize writes: the successor active, nothing pending.   *)
Promoted(i) == [active |-> i.bundle.key, pending |-> None, intent |-> None]

Holds(c, k) == k \in {c.active, c.pending}

-----------------------------------------------------------------------------
(* The wallet.                                                             *)

Open ==
  /\ session = Locked
  /\ session' = disk
  /\ UNCHANGED <<disk, review, generated, retired, gate, pubVars, proofVars,
                 bundles, registry>>

(* lock, background and an elapsed inactivity period; the consent callback *)
(* of a binding in progress then finds the session locked.                 *)
Lock ==
  /\ Unlocked
  /\ session' = Locked
  /\ review' = None
  /\ UNCHANGED <<disk, generated, retired, gate, pubVars, proofVars, bundles,
                 registry>>

PrepareSigningKeyRotation ==
  /\ Unlocked /\ ~Latched
  /\ session.pending = None
  /\ \E k \in Keys \ generated :
       /\ generated' = generated \cup {k}
       /\ LET c == [session EXCEPT !.pending = k] IN
          \/ Persisted(c) /\ UNCHANGED review
          \/ PersistUnknown(c)
  /\ UNCHANGED <<retired, gate, pubVars, proofVars, bundles, registry>>

\* Mutant: cancellation forgets to ask whether a dispatch is latched.
CancelWhileLatched ==
  /\ Unlocked
  /\ session.pending # None
  /\ LET c == [session EXCEPT !.pending = None, !.intent = None] IN
     \/ Persisted(c) /\ UNCHANGED review
     \/ PersistUnknown(c)
  /\ UNCHANGED <<generated, retired, gate, pubVars, proofVars, bundles,
                 registry>>

CancelSigningKeyRotation ==
  /\ Unlocked /\ ~Latched
  /\ session.pending # None
  /\ LET c == [session EXCEPT !.pending = None] IN
     \/ Persisted(c) /\ UNCHANGED review
     \/ PersistUnknown(c)
  /\ UNCHANGED <<generated, retired, gate, pubVars, proofVars, bundles,
                 registry>>

(* update_payload and change_password rewrite the container and carry the  *)
(* rotation fields over; only an unknown outcome shows here.               *)
RewriteContainer ==
  /\ Unlocked
  /\ PersistUnknown(session)
  /\ UNCHANGED <<generated, retired, gate, pubVars, proofVars, bundles,
                 registry>>

(* create_owner_key_rotation_draft from the accepted state, the successor  *)
(* and predecessor proofs (refused while latched), and finalize.           *)
CreateBundle ==
  /\ Unlocked /\ ~Latched
  /\ session.pending # None
  /\ gate = None
  /\ head["local"].key = session.active
  /\ head["local"].seq < MaxSeq
  /\ bundles' = bundles \cup {[prev |-> head["local"], key |-> session.pending]}
  /\ UNCHANGED <<walletVars, gate, pubVars, proofVars, registry>>

(* The bundle proves the wallet's own pending key, the publication is of   *)
(* that bundle and unexpired, and the adapter has no latch for the owner.  *)
CanLatch(p) ==
  /\ Unlocked /\ ~Latched
  /\ phase[p] \notin {"free", "consent"}
  /\ ~expired[p]
  /\ artifact[p].key = session.pending
  /\ artifact[p].prev.key = session.active
  /\ OwnerLockFree
  /\ gate = None

\* Mutant: the gate and the permit are issued before the intent is durable.
LatchBeforePersist(p) ==
  LET i == IntentOf(p)
      c == [session EXCEPT !.intent = i] IN
  /\ CanLatch(p)
  /\ \/ Persisted(c) /\ UNCHANGED review
     \/ PersistUnknown(c)
  /\ gate' = [intent |-> i, ready |-> TRUE]
  /\ permits' = permits \cup {i}
  /\ UNCHANGED <<generated, retired, pubVars, confirming, confirmations,
                 bundles, registry>>

LatchDispatchIntent(p) ==
  LET i == IntentOf(p)
      c == [session EXCEPT !.intent = i] IN
  /\ CanLatch(p)
  /\ \/ /\ Persisted(c)
        /\ gate' = [intent |-> i, ready |-> TRUE]
        /\ permits' = permits \cup {i}
        /\ UNCHANGED review
     \/ /\ PersistUnknown(c)
        /\ UNCHANGED <<gate, permits>>
  /\ UNCHANGED <<generated, retired, pubVars, confirming, confirmations,
                 bundles, registry>>

(* bind_legacy_rotation_dispatch_environment runs the consent callback     *)
(* inside the wallet's re-entrant lock, so the callback may call any wallet*)
(* operation; afterwards the intent must be the one it was shown.          *)
BindReview ==
  /\ Unlocked /\ Latched
  /\ session.intent.realm = Unbound
  /\ review' = session.intent
  /\ UNCHANGED <<disk, session, generated, retired, gate, pubVars, proofVars,
                 bundles, registry>>

BindLegacyEnvironment ==
  /\ review # None
  /\ Unlocked /\ session.intent = review
  /\ \E r \in Realms :
       LET c == [session EXCEPT !.intent = [review EXCEPT !.realm = r]] IN
       \/ Persisted(c) /\ review' = None
       \/ PersistUnknown(c)
  /\ UNCHANGED <<generated, retired, gate, pubVars, proofVars, bundles,
                 registry>>

BindRefused ==
  /\ review # None
  /\ review' = None
  /\ UNCHANGED <<disk, session, generated, retired, gate, pubVars, proofVars,
                 bundles, registry>>

(* The intent on disk is the capability's, its keys are the wallet's, and  *)
(* the adapter that issued the capability has it latched.                  *)
MatchesLatched(i) ==
  /\ Unlocked
  /\ session.intent = i
  /\ i.bundle.prev.key = session.active
  /\ i.bundle.key = session.pending
  /\ OwnerLockFree
  /\ gate # None /\ gate.intent = i

FinalizeSigningKeyRotation(i) ==
  LET c == Promoted(i) IN
  /\ i \in confirmations
  /\ MatchesLatched(i)
  /\ \/ Persisted(c) /\ gate' = None /\ UNCHANGED review
     \/ PersistUnknown(c) /\ UNCHANGED gate
  /\ retired' = IF disk' = disk THEN retired ELSE retired \cup {disk.active}
  /\ UNCHANGED <<generated, pubVars, proofVars, bundles, registry>>

(* A failed persist releases the claim, so the rejection stays usable.     *)
ResolveRejection(p) ==
  LET c == [session EXCEPT !.intent = None] IN
  /\ rejection[p] = "issued"
  /\ MatchesLatched(IntentOf(p))
  /\ \/ /\ Persisted(c)
        /\ gate' = None
        /\ rejection' = [rejection EXCEPT ![p] = "claimed"]
        /\ UNCHANGED review
     \/ /\ PersistUnknown(c)
        /\ UNCHANGED <<gate, rejection>>
  /\ UNCHANGED <<generated, retired, phase, artifact, expired, proofVars,
                 bundles, registry>>
-----------------------------------------------------------------------------
(* The adapter.                                                            *)

(* A publication that could still be latched, dispatched or resolved.      *)
Outstanding(q) ==
  \/ phase[q] \notin {"free", "done"}
  \/ rejection[q] = "issued"

(* prepare_owner_key_rotation_publication up to the consent callback.  The *)
(* last conjunct is no check of the code but the host's discipline: unless *)
(* HostReprepares, one outstanding publication per bundle.                 *)
PrepareConsent(p) ==
  /\ phase[p] = "free"
  /\ gate = None
  /\ \E b \in bundles :
       /\ head["local"] = b.prev
       /\ \/ HostReprepares
          \/ \A q \in Publications : Outstanding(q) => artifact[q] # b
       /\ artifact' = [artifact EXCEPT ![p] = b]
  /\ phase' = [phase EXCEPT ![p] = "consent"]
  /\ UNCHANGED <<walletVars, gate, expired, rejection, proofVars, bundles,
                 registry>>

(* Approved consent, the second read and the second expiry check.          *)
PrepareReady(p) ==
  /\ phase[p] = "consent"
  /\ head["local"] = artifact[p].prev
  /\ ~expired[p]
  /\ phase' = [phase EXCEPT ![p] = "ready"]
  /\ UNCHANGED <<walletVars, gate, artifact, expired, rejection, proofVars,
                 bundles, registry>>

(* A preparation that ends without a publication (denied, replayed, stale, *)
(* expired), or a publication object the host drops.                       *)
Forget(p) ==
  /\ phase[p] \in {"consent", "ready", "done"}
  /\ phase' = [phase EXCEPT ![p] = "free"]
  /\ artifact' = [artifact EXCEPT ![p] = None]
  /\ expired' = [expired EXCEPT ![p] = FALSE]
  /\ rejection' = [rejection EXCEPT ![p] = "none"]
  /\ UNCHANGED <<walletVars, gate, proofVars, bundles, registry>>

(* expires_at passes.                                                      *)
Expire(p) ==
  /\ phase[p] # "free"
  /\ ~expired[p]
  /\ expired' = [expired EXCEPT ![p] = TRUE]
  /\ UNCHANGED <<walletVars, gate, phase, artifact, rejection, proofVars,
                 bundles, registry>>

(* The entry guard: a permit for an equal binding, a dispatch-ready latch, *)
(* and the first use of the publication.                                   *)
DispatchConsume(p) ==
  /\ phase[p] = "ready"
  /\ IntentOf(p) \in permits
  /\ gate = [intent |-> IntentOf(p), ready |-> TRUE]
  /\ phase' = [phase EXCEPT ![p] = "consumed"]
  /\ UNCHANGED <<walletVars, gate, artifact, expired, rejection, proofVars,
                 bundles, registry>>

(* Owner lock taken; a latch resolved in the meantime raises.              *)
DispatchLock(p) ==
  /\ phase[p] = "consumed"
  /\ OwnerLockFree
  /\ phase' = [phase EXCEPT ![p] =
                 IF gate # None /\ gate.intent = IntentOf(p)
                 THEN "holding" ELSE "done"]
  /\ UNCHANGED <<walletVars, gate, artifact, expired, rejection, proofVars,
                 bundles, registry>>

(* read_state and the adapter's own expiry check.  A changed state, or one *)
(* that cannot be read, is a refusal that never clears the latch.          *)
DispatchCheck(p) ==
  /\ phase[p] = "holding"
  /\ \/ /\ head["local"] = artifact[p].prev
        /\ phase' = [phase EXCEPT ![p] =
                       IF expired[p] THEN "clearable" ELSE "checked"]
     \/ phase' = [phase EXCEPT ![p] = "ambiguous"]
  /\ UNCHANGED <<walletVars, gate, artifact, expired, rejection, proofVars,
                 bundles, registry>>

\* Mutant: an untyped transport failure is treated like a typed expiry.
DispatchPutFailureClears(p) ==
  /\ phase[p] = "checked"
  /\ \/ /\ head["local"] = artifact[p].prev
        /\ ~expired[p]
        /\ net' = net \cup {WriteOf(artifact[p])}
     \/ UNCHANGED net
  /\ phase' = [phase EXCEPT ![p] = "clearable"]
  /\ UNCHANGED <<walletVars, gate, artifact, expired, rejection, proofVars,
                 bundles, head>>

(* put_identity_envelope: the Registry repeats both checks and begins the  *)
(* write, raises a typed expiry before it, or fails at an unknown point.   *)
DispatchPut(p) ==
  /\ phase[p] = "checked"
  /\ \/ /\ head["local"] = artifact[p].prev
        /\ ~expired[p]
        /\ net' = net \cup {WriteOf(artifact[p])}
        /\ phase' = [phase EXCEPT ![p] = "ambiguous"]
     \/ /\ expired[p]
        /\ phase' = [phase EXCEPT ![p] = "clearable"]
        /\ UNCHANGED net
     \/ /\ phase' = [phase EXCEPT ![p] = "ambiguous"]
        /\ UNCHANGED net
  /\ UNCHANGED <<walletVars, gate, artifact, expired, rejection, proofVars,
                 bundles, head>>

\* Mutant: an unknown result hands the publication back for another try.
DispatchReadbackRetries(p) ==
  /\ phase[p] \in {"clearable", "ambiguous"}
  /\ phase' = [phase EXCEPT ![p] =
                 IF head["remote"] = Candidate(artifact[p])
                 THEN "done" ELSE "ready"]
  /\ confirmations' = IF head["remote"] = Candidate(artifact[p])
                      THEN confirmations \cup {IntentOf(p)} ELSE confirmations
  /\ UNCHANGED <<walletVars, gate, artifact, expired, rejection, permits,
                 confirming, bundles, registry>>

(* The independent read that ends a dispatch: confirmed when it shows the  *)
(* candidate, an expiry rejection when it succeeds and does not, unknown   *)
(* otherwise.                                                              *)
DispatchReadback(p) ==
  /\ phase[p] \in {"clearable", "ambiguous"}
  /\ phase' = [phase EXCEPT ![p] = "done"]
  /\ \/ /\ head["remote"] = Candidate(artifact[p])
        /\ confirmations' = confirmations \cup {IntentOf(p)}
        /\ UNCHANGED rejection
     \/ /\ phase[p] = "clearable"
        /\ head["remote"] # Candidate(artifact[p])
        /\ rejection' = [rejection EXCEPT ![p] = "issued"]
        /\ UNCHANGED confirmations
     \/ UNCHANGED <<rejection, confirmations>>
  /\ UNCHANGED <<walletVars, gate, artifact, expired, permits, confirming,
                 bundles, registry>>

\* Mutant: no upgrade of a legacy latch to the bound form.
RegistersEqualOnly(i) ==
  \/ gate = None /\ gate' = [intent |-> i, ready |-> FALSE]
  \/ gate # None /\ gate.intent = i /\ UNCHANGED gate

(* _RotationLatchRegistry.register without dispatch authority: a first or  *)
(* equal binding, or a legacy latch that has since been bound to a realm.  *)
Registers(i) ==
  \/ gate = None /\ gate' = [intent |-> i, ready |-> FALSE]
  \/ gate # None /\ gate.intent = i /\ UNCHANGED gate
  \/ /\ gate # None /\ ~gate.ready
     /\ gate.intent.realm = Unbound /\ i.realm # Unbound
     /\ gate.intent.bundle = i.bundle
     /\ gate' = [intent |-> i, ready |-> FALSE]

(* confirm_owner_key_rotation with the intent read from the wallet or kept *)
(* in a permit; nothing is read for an unbound or foreign realm.           *)
ConfirmRegister ==
  \E i \in permits \cup (IF Unlocked /\ Latched THEN {session.intent} ELSE {}) :
    /\ OwnerLockFree
    /\ Registers(i)
    /\ confirming' = IF i.realm = AdapterRealm
                     THEN confirming \cup {i} ELSE confirming
    /\ UNCHANGED <<walletVars, pubVars, permits, confirmations, bundles,
                   registry>>

\* Mutant: confirmation reads the write-through view instead of the peer.
ConfirmReadLocal(i) ==
  /\ i \in confirming
  /\ confirming' = confirming \ {i}
  /\ \/ /\ head["local"] = Candidate(i.bundle)
        /\ confirmations' = confirmations \cup {i}
     \/ UNCHANGED confirmations
  /\ UNCHANGED <<walletVars, gate, pubVars, permits, bundles, registry>>

ConfirmRead(i) ==
  /\ i \in confirming
  /\ confirming' = confirming \ {i}
  /\ \/ /\ head["remote"] = Candidate(i.bundle)
        /\ confirmations' = confirmations \cup {i}
     \/ UNCHANGED confirmations
  /\ UNCHANGED <<walletVars, gate, pubVars, permits, bundles, registry>>
-----------------------------------------------------------------------------
(* The Registry, and the loss of the process.                              *)

(* Other holders of signer keys publish an update that keeps the owner key.*)
OrdinaryUpdate(q) ==
  /\ head[q].seq < MaxSeq
  /\ net' = net \cup {[prev |-> head[q],
                       next |-> [head[q] EXCEPT !.seq = @ + 1]]}
  /\ UNCHANGED <<walletVars, gate, pubVars, proofVars, bundles, head>>

(* A peer accepts a write that extends the state it holds.                 *)
Land(w, q) ==
  /\ head[q] = w.prev
  /\ head' = [head EXCEPT ![q] = w.next]
  /\ UNCHANGED <<walletVars, gate, pubVars, proofVars, bundles, net>>

(* Only the container, public bundles and the Registry outlive a process.  *)
Crash ==
  /\ session' = Locked
  /\ review' = None
  /\ gate' = None
  /\ phase' = [p \in Publications |-> "free"]
  /\ artifact' = [p \in Publications |-> None]
  /\ expired' = [p \in Publications |-> FALSE]
  /\ rejection' = [p \in Publications |-> "none"]
  /\ permits' = {} /\ confirming' = {} /\ confirmations' = {}
  /\ UNCHANGED <<disk, generated, retired, bundles, registry>>

(* A new wallet, or one that an earlier release left latched with a six-   *)
(* field intent whose write may or may not have begun.                     *)
FreshContainer ==
  /\ disk = [active |-> FirstKey, pending |-> None, intent |-> None]
  /\ generated = {FirstKey}
  /\ bundles = {} /\ net = {}

LegacyContainer ==
  \E k \in Keys \ {FirstKey} :
    LET b == [prev |-> [key |-> FirstKey, seq |-> 1], key |-> k] IN
    /\ disk = [active |-> FirstKey, pending |-> k,
               intent |-> [bundle |-> b, realm |-> Unbound]]
    /\ generated = {FirstKey, k}
    /\ bundles = {b}
    /\ net \in {{}, {WriteOf(b)}}

Init ==
  /\ FreshContainer \/ LegacyContainer
  /\ session = Locked /\ review = None /\ retired = {}
  /\ gate = None
  /\ phase = [p \in Publications |-> "free"]
  /\ artifact = [p \in Publications |-> None]
  /\ expired = [p \in Publications |-> FALSE]
  /\ rejection = [p \in Publications |-> "none"]
  /\ permits = {} /\ confirming = {} /\ confirmations = {}
  /\ head = [q \in Peers |-> [key |-> FirstKey, seq |-> 1]]

Next ==
  \/ Open \/ Lock \/ Crash
  \/ PrepareSigningKeyRotation \/ CancelSigningKeyRotation
  \/ RewriteContainer \/ CreateBundle
  \/ BindReview \/ BindLegacyEnvironment \/ BindRefused
  \/ ConfirmRegister
  \/ \E i \in confirming : ConfirmRead(i)
  \/ \E i \in confirmations : FinalizeSigningKeyRotation(i)
  \/ \E p \in Publications :
       \/ LatchDispatchIntent(p) \/ ResolveRejection(p)
       \/ PrepareConsent(p) \/ PrepareReady(p) \/ Forget(p) \/ Expire(p)
       \/ DispatchConsume(p) \/ DispatchLock(p) \/ DispatchCheck(p)
       \/ DispatchPut(p) \/ DispatchReadback(p)
  \/ \E q \in Peers : OrdinaryUpdate(q) \/ \E w \in net : Land(w, q)

Spec == Init /\ [][Next]_vars

(* A running dispatch goes on to its end, and a host keeps doing what the  *)
(* interface asks of it after a reopen: open the wallet, have a legacy     *)
(* intent bound, confirm, finalize.  Strong fairness, because locks and    *)
(* failed reads and writes may come between any two steps; crashes may too,*)
(* but some process eventually stays up.                                   *)
Recovery ==
  /\ <>[][~Crash]_vars
  /\ \A p \in Publications :
       WF_vars(DispatchCheck(p) \/ DispatchPut(p) \/ DispatchReadback(p))
  /\ WF_vars(Open)
  /\ SF_vars(BindReview)
  /\ SF_vars(BindLegacyEnvironment /\ session' # Locked)
  /\ SF_vars(Unlocked /\ ConfirmRegister /\ session.intent \in confirming')
  /\ SF_vars(\E i \in confirming :
               ConfirmRead(i) /\ i \in confirmations' \ confirmations)
  /\ SF_vars(\E i \in confirmations :
               FinalizeSigningKeyRotation(i) /\ session' # Locked)

FairSpec == Spec /\ Recovery

-----------------------------------------------------------------------------
(* Every variable stays in the shape the handlers assume: the container    *)
(* always has an active key, also across a promotion or a legacy binding.  *)
TypeOK ==
  /\ disk \in Content
  /\ session \in Content \cup {Locked}
  /\ review \in Intents \cup {None}
  /\ generated \subseteq Keys
  /\ retired \subseteq Keys
  /\ gate \in Gates \cup {None}
  /\ phase \in [Publications -> Phases]
  /\ artifact \in [Publications -> Bundles \cup {None}]
  /\ expired \in [Publications -> BOOLEAN]
  /\ rejection \in [Publications -> {"none", "issued", "claimed"}]
  /\ permits \subseteq Intents
  /\ confirming \subseteq Intents
  /\ confirmations \subseteq Intents
  /\ bundles \subseteq Bundles
  /\ head \in [Peers -> States]
  /\ net \subseteq Writes

(* Writes that would change the owner key.                                 *)
RotationWrites == {w \in net : w.next.key # w.prev.key}

(* The wallet can sign for the Identity: the owner key the independent     *)
(* peer shows is one whose seed the container still holds, through every   *)
(* interleaving of dispatch, promotion, rejection, cancellation, ambiguous *)
(* storage and restart.                                                    *)
RegisteredKeyHeld == Holds(disk, head["remote"].key)

(* "Retain both keys after any ambiguous outcome": the successor of every  *)
(* rotation write that has begun, however late it may arrive, is held by   *)
(* the container until a promotion has made it active.                     *)
DispatchedSuccessorHeld ==
  \A w \in RotationWrites : Holds(disk, w.next.key) \/ w.next.key \in retired

(* A rotation write begins only while the container durably holds the      *)
(* intent for exactly that write.                                          *)
WriteUnderDurableLatch ==
  [][\A w \in net' \ net : w.next.key # w.prev.key =>
       disk.intent # None /\ WriteOf(disk.intent.bundle) = w]_vars

(* No automatic retry: the adapter never begins a rotation write that has  *)
(* already begun.                                                          *)
NoSecondWrite ==
  [][\A p \in Publications :
       phase[p] = "checked" /\ phase'[p] = "ambiguous"
         => WriteOf(artifact[p]) \notin net]_vars

(* The predecessor is replaced only by the owner key the independent peer  *)
(* shows at that moment.                                                   *)
PromotionObserved ==
  [][disk'.active # disk.active => disk'.active = head["remote"].key]_vars

(* A wallet does not stay latched while the peer keeps showing exactly the *)
(* envelope of its intent: repeated opening and read-only confirmation in  *)
(* the right realm ends in promotion, whatever was lost on the way.        *)
LatchedOnAccepted ==
  /\ disk.intent # None
  /\ disk.intent.realm \in {AdapterRealm, Unbound}
  /\ head["remote"] = Candidate(disk.intent.bundle)

AcceptedIsPromoted == []<>~LatchedOnAccepted

(* An unlocked session works on exactly what the container holds, also     *)
(* after a persist whose outcome was unknown.                              *)
SessionMirrorsDisk == session # Locked => session = disk

(* The rotation write of the container's intent has begun.                 *)
Begun == disk.intent # None /\ WriteOf(disk.intent.bundle) \in net

(* Rotation is a key handover: the successor is never withdrawn once its   *)
(* write has begun, the peer passes from the active key to that successor  *)
(* only, and the promotion follows the peer, through every cancellation,   *)
(* rejection, late write, unknown storage outcome and restart.             *)
Handover == INSTANCE KeyHandover
              WITH active <- disk.active, pending <- disk.pending,
                   begun <- Begun, served <- head["remote"].key,
                   used <- generated

ImplementsHandover == Handover!Spec

=============================================================================
