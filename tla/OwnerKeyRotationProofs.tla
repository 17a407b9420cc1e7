----------------------- MODULE OwnerKeyRotationProofs -----------------------
(***************************************************************************)
(* For any number of keys, publications and realms: as long as the host    *)
(* keeps one outstanding publication per bundle, rotation never loses the  *)
(* key the Identity is, or may still become, registered under.             *)
(*                                                                         *)
(* The argument.  A rotation write that has begun is either the one the    *)
(* container's intent names or one that a promotion has caught up with     *)
(* (NetInv).  To clear the intent otherwise takes an expiry rejection, and *)
(* a publication that has one, or can still get one, has begun no write    *)
(* (RejectionInv, DispatchInv, GateInv); no second publication of the      *)
(* bundle can begin it behind its back (OneOutstanding).  So rotation      *)
(* implements the key handover of KeyHandover.                             *)
(***************************************************************************)
EXTENDS OwnerKeyRotation, TLAPS

(* Zenon proves the leaves that name no prover.                            *)
USE ZenonT(60)

-----------------------------------------------------------------------------
(* The container: both keys known, distinct and not retired; an intent     *)
(* names exactly these two keys.                                           *)
ContentInv ==
  /\ disk.active \in generated \ retired
  /\ disk.pending # None => disk.pending \in generated \ retired
  /\ disk.pending # disk.active
  /\ retired \subseteq generated
  /\ disk.intent # None =>
       /\ disk.intent.bundle.prev.key = disk.active
       /\ disk.intent.bundle.key = disk.pending

(* A binding in progress looks at an unbound intent.                       *)
ReviewInv == review # None => review.realm = Unbound

(* Every rotation write that has begun is the latched one or is behind a   *)
(* promotion.                                                              *)
NetInv ==
  \A w \in net : w.next.key # w.prev.key =>
    \/ disk.intent # None /\ w = WriteOf(disk.intent.bundle)
    \/ w.prev.key \in retired /\ w.next.key \in retired \cup {disk.active}

(* The peer shows the active key, or the pending one once the latched      *)
(* write has begun.                                                        *)
RemoteInv ==
  \/ head["remote"].key = disk.active
  \/ /\ disk.intent # None
     /\ head["remote"].key = disk.pending
     /\ WriteOf(disk.intent.bundle) \in net

(* What was confirmed is what the peer shows, unless already promoted.     *)
ConfirmedInv ==
  \A i \in confirmations :
    i.bundle.key \in retired \cup {disk.active, head["remote"].key}

(* Bundles rotate to another key; a publication in use is of one of them.  *)
BundleInv == \A b \in bundles : b.key # b.prev.key

ArtifactInv ==
  \A p \in Publications :
    /\ phase[p] # "free" => artifact[p] \in bundles
    /\ rejection[p] # "none" => phase[p] = "done"

OneOutstanding ==
  \A p, q \in Publications :
    p # q /\ Outstanding(p) /\ Outstanding(q) => artifact[p] # artifact[q]

(* A dispatch that has not reached put runs under its durable intent and   *)
(* its write has not begun.                                                *)
DispatchInv ==
  \A p \in Publications :
    phase[p] \in {"consumed", "holding", "checked", "clearable"} =>
      disk.intent = IntentOf(p) /\ WriteOf(artifact[p]) \notin net

(* So will one that a dispatch-ready gate may still let in.                *)
GateInv ==
  \A p \in Publications :
    /\ phase[p] \in {"consent", "ready"}
    /\ gate = [intent |-> IntentOf(p), ready |-> TRUE]
    => disk.intent = IntentOf(p) /\ WriteOf(artifact[p]) \notin net

RejectionInv ==
  \A p \in Publications :
    rejection[p] = "issued" => WriteOf(artifact[p]) \notin net

(* The inductive invariant.                                                *)
RotationInv ==
  /\ TypeOK /\ SessionMirrorsDisk /\ ContentInv /\ ReviewInv
  /\ NetInv /\ RemoteInv /\ ConfirmedInv
  /\ BundleInv /\ ArtifactInv /\ OneOutstanding
  /\ DispatchInv /\ GateInv /\ RejectionInv

-----------------------------------------------------------------------------
USE DEF Unbound, Peers

(* Bundles, intents, gates and writes are records of the expected parts.   *)
LEMMA CandidateType ==
  ASSUME NEW b \in Bundles
  PROVE  /\ Candidate(b) \in States
         /\ WriteOf(b) \in Writes
         /\ [bundle |-> b, realm |-> AdapterRealm] \in Intents
  BY SMT, ConstantsAssumption
  DEF Candidate, WriteOf, Bundles, States, Writes, Intents

LEMMA InitType == Init => TypeOK
  <1> SUFFICES ASSUME Init PROVE TypeOK
    OBVIOUS
  <1>1. [key |-> FirstKey, seq |-> 1] \in States
    BY ConstantsAssumption DEF States
  <1>2. disk \in Content /\ generated \subseteq Keys
        /\ bundles \subseteq Bundles /\ net \subseteq Writes
    <2>1. CASE FreshContainer
      BY <2>1, ConstantsAssumption DEF FreshContainer, Content
    <2>2. CASE LegacyContainer
      <3>1. PICK k \in Keys \ {FirstKey} :
              LET b == [prev |-> [key |-> FirstKey, seq |-> 1], key |-> k] IN
              /\ disk = [active |-> FirstKey, pending |-> k,
                         intent |-> [bundle |-> b, realm |-> Unbound]]
              /\ generated = {FirstKey, k}
              /\ bundles = {b}
              /\ net \in {{}, {WriteOf(b)}}
        BY <2>2 DEF LegacyContainer
      <3> DEFINE b == [prev |-> [key |-> FirstKey, seq |-> 1], key |-> k]
      <3>2. b \in Bundles
        BY <1>1 DEF Bundles
      <3>3. WriteOf(b) \in Writes
        BY <3>2, CandidateType
      <3>4. disk \in Content
        BY <3>1, <3>2, ConstantsAssumption DEF Content, Intents
      <3> QED
        BY <3>1, <3>2, <3>3, <3>4, ConstantsAssumption
    <2> QED
      BY <2>1, <2>2 DEF Init
  <1> QED
    BY <1>1, <1>2 DEF Init, TypeOK, Phases

(* What an operation persists is again container content, whether the      *)
(* write is known to be durable or not.                                    *)
LEMMA PersistType ==
  ASSUME TypeOK, NEW c \in Content,
         \/ Persisted(c) /\ review' \in {review, None}
         \/ PersistUnknown(c)
  PROVE  disk' \in Content /\ session' \in Content \cup {Locked}
         /\ review' \in Intents \cup {None}
  BY DEF TypeOK, Persisted, PersistUnknown

LEMMA SessionContent ==
  ASSUME TypeOK, Unlocked
  PROVE  session \in Content
  BY DEF TypeOK, Unlocked

LEMMA WalletType ==
  ASSUME TypeOK,
         \/ Open \/ Lock \/ PrepareSigningKeyRotation
         \/ CancelSigningKeyRotation \/ RewriteContainer \/ CreateBundle
         \/ BindReview \/ BindLegacyEnvironment \/ BindRefused
  PROVE  TypeOK'
  <1>1. CASE Open \/ Lock \/ BindRefused
    BY <1>1 DEF TypeOK, Open, Lock, BindRefused, pubVars, proofVars, registry
  <1>2. CASE PrepareSigningKeyRotation
    <2>1. PICK k \in Keys \ generated :
            /\ generated' = generated \cup {k}
            /\ LET c == [session EXCEPT !.pending = k] IN
               \/ Persisted(c) /\ UNCHANGED review
               \/ PersistUnknown(c)
      BY <1>2 DEF PrepareSigningKeyRotation
    <2>2. [session EXCEPT !.pending = k] \in Content
      BY <1>2, SessionContent DEF PrepareSigningKeyRotation, Content
    <2>3. disk' \in Content /\ session' \in Content \cup {Locked}
          /\ review' \in Intents \cup {None}
      BY <2>1, <2>2, PersistType
    <2> QED
      BY <1>2, <2>1, <2>3
      DEF PrepareSigningKeyRotation, TypeOK, pubVars, proofVars, registry
  <1>3. CASE CancelSigningKeyRotation
    <2>1. [session EXCEPT !.pending = None] \in Content
      BY <1>3, SessionContent DEF CancelSigningKeyRotation, Content
    <2>2. disk' \in Content /\ session' \in Content \cup {Locked}
          /\ review' \in Intents \cup {None}
      BY <1>3, <2>1, PersistType DEF CancelSigningKeyRotation
    <2> QED
      BY <1>3, <2>2
      DEF CancelSigningKeyRotation, TypeOK, pubVars, proofVars, registry
  <1>4. CASE RewriteContainer
    <2>1. disk' \in Content /\ session' \in Content \cup {Locked}
          /\ review' \in Intents \cup {None}
      BY <1>4, SessionContent, PersistType DEF RewriteContainer
    <2> QED
      BY <1>4, <2>1 DEF RewriteContainer, TypeOK, pubVars, proofVars, registry
  <1>5. CASE CreateBundle
    <2>1. [prev |-> head["local"], key |-> session.pending] \in Bundles
      BY <1>5, SessionContent DEF CreateBundle, TypeOK, Content, Bundles
    <2> QED
      BY <1>5, <2>1
      DEF CreateBundle, TypeOK, walletVars, pubVars, proofVars, registry
  <1>6. CASE BindReview
    BY <1>6, SessionContent
    DEF BindReview, Latched, TypeOK, Content, pubVars, proofVars, registry
  <1>7. CASE BindLegacyEnvironment
    <2>1. PICK r \in Realms :
            LET c == [session EXCEPT !.intent = [review EXCEPT !.realm = r]] IN
            \/ Persisted(c) /\ review' = None
            \/ PersistUnknown(c)
      BY <1>7 DEF BindLegacyEnvironment
    <2>2. [review EXCEPT !.realm = r] \in Intents
      BY <1>7 DEF BindLegacyEnvironment, TypeOK, Intents
    <2>3. [session EXCEPT !.intent = [review EXCEPT !.realm = r]] \in Content
      BY <1>7, <2>2, SessionContent DEF BindLegacyEnvironment, Content
    <2>4. disk' \in Content /\ session' \in Content \cup {Locked}
          /\ review' \in Intents \cup {None}
      BY <2>1, <2>3, PersistType
    <2> QED
      BY <1>7, <2>4
      DEF BindLegacyEnvironment, TypeOK, pubVars, proofVars, registry
  <1> QED
    BY <1>1, <1>2, <1>3, <1>4, <1>5, <1>6, <1>7

LEMMA LatchType ==
  ASSUME TypeOK, NEW p \in Publications, ArtifactInv,
         LatchDispatchIntent(p)
  PROVE  TypeOK'
  <1> DEFINE i == IntentOf(p)
             c == [session EXCEPT !.intent = i]
  <1>1. artifact[p] \in Bundles
    BY DEF LatchDispatchIntent, CanLatch, ArtifactInv, TypeOK
  <1>2. i \in Intents
    BY <1>1, CandidateType DEF IntentOf
  <1>3. c \in Content
    BY <1>2, SessionContent DEF LatchDispatchIntent, CanLatch, Content
  <1>4. disk' \in Content /\ session' \in Content \cup {Locked}
        /\ review' \in Intents \cup {None}
    BY <1>3, PersistType DEF LatchDispatchIntent
  <1>5. [intent |-> i, ready |-> TRUE] \in Gates
    BY <1>2 DEF Gates
  <1>6. gate' \in Gates \cup {None} /\ permits' \subseteq Intents
    BY <1>2, <1>5 DEF LatchDispatchIntent, TypeOK
  <1> QED
    BY <1>4, <1>6 DEF LatchDispatchIntent, TypeOK, pubVars, registry

LEMMA CapabilityType ==
  ASSUME TypeOK,
         \/ \E i \in confirmations : FinalizeSigningKeyRotation(i)
         \/ \E p \in Publications : ResolveRejection(p)
  PROVE  TypeOK'
  <1>1. CASE \E i \in confirmations : FinalizeSigningKeyRotation(i)
    <2>1. PICK i \in confirmations : FinalizeSigningKeyRotation(i)
      BY <1>1
    <2>2. Promoted(i) \in Content
      BY DEF Promoted, Content, TypeOK, Intents, Bundles
    <2>3. disk' \in Content /\ session' \in Content \cup {Locked}
          /\ review' \in Intents \cup {None}
      BY <2>1, <2>2, PersistType DEF FinalizeSigningKeyRotation
    <2>4. gate' \in Gates \cup {None} /\ retired' \subseteq Keys
      BY <2>1 DEF FinalizeSigningKeyRotation, TypeOK, Content
    <2> QED
      BY <2>1, <2>3, <2>4
      DEF FinalizeSigningKeyRotation, TypeOK, pubVars, proofVars, registry
  <1>2. CASE \E p \in Publications : ResolveRejection(p)
    <2>1. PICK p \in Publications : ResolveRejection(p)
      BY <1>2
    <2>2. [session EXCEPT !.intent = None] \in Content
      BY <2>1, SessionContent DEF ResolveRejection, MatchesLatched, Content
    <2>3. disk' \in Content /\ session' \in Content \cup {Locked}
          /\ review' \in Intents \cup {None}
      BY <2>1, <2>2, PersistType DEF ResolveRejection
    <2>4. gate' \in Gates \cup {None}
          /\ rejection' \in [Publications -> {"none", "issued", "claimed"}]
      BY <2>1 DEF ResolveRejection, TypeOK
    <2> QED
      BY <2>1, <2>3, <2>4
      DEF ResolveRejection, TypeOK, proofVars, registry
  <1> QED
    BY <1>1, <1>2

LEMMA AdapterType ==
  ASSUME TypeOK, ArtifactInv, NEW p \in Publications,
         \/ PrepareConsent(p) \/ PrepareReady(p) \/ Forget(p) \/ Expire(p)
         \/ DispatchConsume(p) \/ DispatchLock(p) \/ DispatchCheck(p)
         \/ DispatchPut(p) \/ DispatchReadback(p)
  PROVE  TypeOK'
  <1> USE DEF TypeOK, Phases, walletVars, proofVars, registry
  <1>1. CASE PrepareConsent(p)
    BY <1>1 DEF PrepareConsent
  <1>2. CASE PrepareReady(p) \/ Forget(p) \/ Expire(p)
    BY <1>2 DEF PrepareReady, Forget, Expire
  <1>3. CASE DispatchConsume(p) \/ DispatchLock(p) \/ DispatchCheck(p)
    BY <1>3 DEF DispatchConsume, DispatchLock, DispatchCheck
  <1>4. CASE DispatchPut(p)
    <2>1. artifact[p] \in Bundles
      BY <1>4 DEF DispatchPut, ArtifactInv
    <2>2. WriteOf(artifact[p]) \in Writes
      BY <2>1, CandidateType
    <2> QED
      BY <1>4, <2>2 DEF DispatchPut
  <1>5. CASE DispatchReadback(p)
    <2>1. artifact[p] \in Bundles
      BY <1>5 DEF DispatchReadback, ArtifactInv
    <2>2. IntentOf(p) \in Intents
      BY <2>1, CandidateType DEF IntentOf
    <2> QED
      BY <1>5, <2>2 DEF DispatchReadback
  <1> QED
    BY <1>1, <1>2, <1>3, <1>4, <1>5

LEMMA ConfirmType ==
  ASSUME TypeOK,
         ConfirmRegister \/ \E i \in confirming : ConfirmRead(i)
  PROVE  TypeOK'
  <1> USE DEF walletVars, pubVars, registry
  <1>1. CASE ConfirmRegister
    <2>1. PICK i \in permits \cup
                 (IF Unlocked /\ Latched THEN {session.intent} ELSE {}) :
            /\ Registers(i)
            /\ confirming' = IF i.realm = AdapterRealm
                             THEN confirming \cup {i} ELSE confirming
            /\ UNCHANGED <<walletVars, pubVars, permits, confirmations,
                           bundles, registry>>
      BY <1>1 DEF ConfirmRegister
    <2>2. i \in Intents
      BY SessionContent DEF TypeOK, Latched, Content
    <2>3. [intent |-> i, ready |-> FALSE] \in Gates
      BY <2>2 DEF Gates
    <2>4. gate' \in Gates \cup {None}
      BY <2>1, <2>3 DEF Registers, TypeOK
    <2> QED
      BY <2>1, <2>2, <2>4 DEF TypeOK
  <1>2. CASE \E i \in confirming : ConfirmRead(i)
    BY <1>2 DEF ConfirmRead, TypeOK
  <1> QED
    BY <1>1, <1>2

LEMMA RegistryType ==
  ASSUME TypeOK,
         Crash \/ \E q \in Peers : OrdinaryUpdate(q) \/ \E w \in net : Land(w, q)
  PROVE  TypeOK'
  <1> USE DEF walletVars, pubVars, proofVars, registry
  <1>1. CASE Crash
    BY <1>1 DEF Crash, TypeOK, Phases
  <1>2. ASSUME NEW q \in Peers, OrdinaryUpdate(q) PROVE TypeOK'
    <2>1. [prev |-> head[q], next |-> [head[q] EXCEPT !.seq = @ + 1]] \in Writes
      BY SMT DEF TypeOK, States, Writes
    <2> QED
      BY <1>2, <2>1 DEF OrdinaryUpdate, TypeOK
  <1>3. ASSUME NEW q \in Peers, NEW w \in net, Land(w, q) PROVE TypeOK'
    BY <1>3 DEF Land, TypeOK, Writes
  <1> QED
    BY <1>1, <1>2, <1>3

(* Types are preserved together with the shape of publication objects.     *)
LEMMA NextType ==
  ASSUME TypeOK, ArtifactInv, [Next]_vars
  PROVE  TypeOK'
  <1>1. CASE UNCHANGED vars
    BY <1>1 DEF vars, walletVars, pubVars, proofVars, registry, TypeOK
  <1>2. CASE Next
    BY <1>2, WalletType, LatchType, CapabilityType, AdapterType, ConfirmType,
       RegistryType
    DEF Next
  <1> QED
    BY <1>1, <1>2

(* A publication object keeps its bundle from preparation to disposal.     *)
LEMMA NextArtifact ==
  ASSUME TypeOK, ArtifactInv, [Next]_vars
  PROVE  ArtifactInv'
  <1> USE DEF TypeOK, ArtifactInv, Phases
  <1>1. CASE UNCHANGED <<phase, artifact, rejection>>
             /\ bundles \subseteq bundles'
    BY <1>1
  <1>2. CASE Crash
    BY <1>2 DEF Crash
  <1>3. ASSUME NEW p \in Publications,
               PrepareConsent(p) \/ PrepareReady(p) \/ Forget(p)
        PROVE  ArtifactInv'
    BY <1>3 DEF PrepareConsent, PrepareReady, Forget, registry
  <1>4. ASSUME NEW p \in Publications,
               DispatchConsume(p) \/ DispatchLock(p) \/ DispatchCheck(p)
               \/ DispatchPut(p)
        PROVE  ArtifactInv'
    BY <1>4 DEF DispatchConsume, DispatchLock, DispatchCheck, DispatchPut
  <1>5. ASSUME NEW p \in Publications,
               DispatchReadback(p) \/ ResolveRejection(p)
        PROVE  ArtifactInv'
    BY <1>5 DEF DispatchReadback, ResolveRejection
  <1>6. ASSUME NEW p \in Publications,
               Expire(p) \/ LatchDispatchIntent(p)
        PROVE  ArtifactInv'
    BY <1>6, <1>1 DEF Expire, LatchDispatchIntent, pubVars
  <1>7. CASE \/ Open \/ Lock \/ PrepareSigningKeyRotation
             \/ CancelSigningKeyRotation \/ RewriteContainer \/ CreateBundle
             \/ BindReview \/ BindLegacyEnvironment \/ BindRefused
             \/ ConfirmRegister
             \/ \E i \in confirming : ConfirmRead(i)
             \/ \E i \in confirmations : FinalizeSigningKeyRotation(i)
    BY <1>7, <1>1
    DEF Open, Lock, PrepareSigningKeyRotation, CancelSigningKeyRotation,
        RewriteContainer, CreateBundle, BindReview, BindLegacyEnvironment,
        BindRefused, ConfirmRegister, ConfirmRead,
        FinalizeSigningKeyRotation, pubVars
  <1>8. CASE \E q \in Peers : OrdinaryUpdate(q) \/ \E w \in net : Land(w, q)
    BY <1>8, <1>1 DEF OrdinaryUpdate, Land, pubVars
  <1>9. CASE UNCHANGED vars
    BY <1>9, <1>1 DEF vars, pubVars
  <1> QED
    BY <1>2, <1>3, <1>4, <1>5, <1>6, <1>7, <1>8, <1>9 DEF Next

(* A binding callback is only ever shown a legacy intent.                  *)
LEMMA NextReview ==
  ASSUME ReviewInv, [Next]_vars
  PROVE  ReviewInv'
  <1>1. CASE review' \in {review, None}
    BY <1>1 DEF ReviewInv
  <1>2. CASE BindReview
    BY <1>2 DEF BindReview, ReviewInv
  <1>3. CASE \/ Open \/ Lock \/ Crash \/ PrepareSigningKeyRotation
             \/ CancelSigningKeyRotation \/ RewriteContainer \/ CreateBundle
             \/ BindLegacyEnvironment \/ BindRefused \/ ConfirmRegister
             \/ \E i \in confirming : ConfirmRead(i)
             \/ \E i \in confirmations : FinalizeSigningKeyRotation(i)
    BY <1>1, <1>3
    DEF Open, Lock, Crash, PrepareSigningKeyRotation,
        CancelSigningKeyRotation, RewriteContainer, CreateBundle,
        BindLegacyEnvironment, BindRefused, ConfirmRegister, ConfirmRead,
        FinalizeSigningKeyRotation, PersistUnknown, walletVars
  <1>4. ASSUME NEW p \in Publications,
               \/ LatchDispatchIntent(p) \/ ResolveRejection(p)
               \/ PrepareConsent(p) \/ PrepareReady(p) \/ Forget(p)
               \/ Expire(p) \/ DispatchConsume(p) \/ DispatchLock(p)
               \/ DispatchCheck(p) \/ DispatchPut(p) \/ DispatchReadback(p)
        PROVE  ReviewInv'
    BY <1>1, <1>4
    DEF LatchDispatchIntent, ResolveRejection, PrepareConsent, PrepareReady,
        Forget, Expire, DispatchConsume, DispatchLock, DispatchCheck,
        DispatchPut, DispatchReadback, PersistUnknown, walletVars
  <1>5. CASE \/ UNCHANGED vars
             \/ \E q \in Peers : OrdinaryUpdate(q) \/ \E w \in net : Land(w, q)
    BY <1>1, <1>5 DEF OrdinaryUpdate, Land, vars, walletVars
  <1> QED
    BY <1>2, <1>3, <1>4, <1>5 DEF Next

(* Every variable keeps its type, for every value of the constants and     *)
(* also for a host that prepares a bundle twice.                           *)
THEOREM TypeCorrect == Spec => []TypeOK
  <1>1. Init => TypeOK /\ ArtifactInv
    <2>1. Init => ArtifactInv
      BY DEF Init, ArtifactInv
    <2> QED
      BY <2>1, InitType
  <1>2. TypeOK /\ ArtifactInv /\ [Next]_vars => (TypeOK /\ ArtifactInv)'
    BY NextType, NextArtifact
  <1> QED
    BY <1>1, <1>2, PTL DEF Spec

-----------------------------------------------------------------------------
(* Each part of the invariant survives a step that leaves its state alone. *)
LEMMA Frame ==
  ASSUME RotationInv
  PROVE  /\ UNCHANGED <<disk, generated, retired>> => ContentInv'
         /\ UNCHANGED <<disk, retired, net>> => NetInv'
         /\ UNCHANGED <<disk, head, net>> => RemoteInv'
         /\ UNCHANGED <<disk, retired, confirmations, head>> => ConfirmedInv'
         /\ UNCHANGED bundles => BundleInv'
         /\ UNCHANGED <<phase, artifact, rejection>> => OneOutstanding'
         /\ UNCHANGED <<disk, phase, artifact, net>> => DispatchInv'
         /\ UNCHANGED <<disk, phase, artifact, gate, net>> => GateInv'
         /\ UNCHANGED <<artifact, rejection, net>> => RejectionInv'
  <1> USE DEF RotationInv
  <1>1. UNCHANGED <<disk, generated, retired>> => ContentInv'
    BY SMT DEF ContentInv
  <1>2. UNCHANGED <<disk, retired, net>> => NetInv'
    BY DEF NetInv, WriteOf, Candidate
  <1>3. UNCHANGED <<disk, head, net>> => RemoteInv'
    BY DEF RemoteInv, WriteOf, Candidate
  <1>4. UNCHANGED <<disk, retired, confirmations, head>> => ConfirmedInv'
    BY DEF ConfirmedInv
  <1>5. UNCHANGED bundles => BundleInv'
    BY DEF BundleInv
  <1>6. UNCHANGED <<phase, artifact, rejection>> => OneOutstanding'
    BY DEF OneOutstanding, Outstanding
  <1>7. UNCHANGED <<disk, phase, artifact, net>> => DispatchInv'
    BY DEF DispatchInv, IntentOf
  <1>8. UNCHANGED <<disk, phase, artifact, gate, net>> => GateInv'
    BY DEF GateInv, IntentOf
  <1>9. UNCHANGED <<artifact, rejection, net>> => RejectionInv'
    BY DEF RejectionInv
  <1> QED
    BY <1>1, <1>2, <1>3, <1>4, <1>5, <1>6, <1>7, <1>8, <1>9

(* A persist leaves the session equal to the disk, or locked.              *)
LEMMA PersistMirrors ==
  ASSUME NEW c, Persisted(c) \/ PersistUnknown(c)
  PROVE  /\ (disk' = disk /\ session' = Locked) \/ disk' = c
         /\ SessionMirrorsDisk'
  BY DEF Persisted, PersistUnknown, SessionMirrorsDisk

LEMMA UnlockedIsDisk ==
  ASSUME RotationInv, Unlocked
  PROVE  session = disk /\ disk \in Content
  BY DEF RotationInv, SessionMirrorsDisk, Unlocked, TypeOK

(* Distinct bundles are distinct writes, and a bundle in use changes the   *)
(* owner key.                                                              *)
LEMMA WriteOfInjective ==
  ASSUME NEW a \in Bundles, NEW b \in Bundles, WriteOf(a) = WriteOf(b)
  PROVE  a = b
  BY SMT DEF WriteOf, Candidate, Bundles, States

LEMMA ArtifactRotates ==
  ASSUME RotationInv, NEW p \in Publications, phase[p] # "free"
  PROVE  artifact[p] \in Bundles /\ artifact[p].key # artifact[p].prev.key
  BY DEF RotationInv, TypeOK, BundleInv, ArtifactInv

(* Steps that write nothing new to the container.                          *)
LEMMA QuietPreserves ==
  ASSUME RotationInv,
         Open \/ Lock \/ BindReview \/ BindRefused \/ RewriteContainer
         \/ UNCHANGED vars
  PROVE  RotationInv'
  <1>1. UNCHANGED <<disk, generated, retired, gate, phase, artifact,
                    rejection, confirmations, bundles, head, net>>
    <2>1. CASE RewriteContainer
      BY <2>1, UnlockedIsDisk
      DEF RewriteContainer, PersistUnknown, pubVars, proofVars, registry
    <2> QED
      BY <2>1
      DEF Open, Lock, BindReview, BindRefused, vars, walletVars, pubVars,
          proofVars, registry
  <1>2. SessionMirrorsDisk'
    BY DEF RotationInv, SessionMirrorsDisk, Open, Lock, BindReview,
           BindRefused, RewriteContainer, PersistUnknown, vars, walletVars
  <1>3. [Next]_vars
    BY DEF Next
  <1>4. TypeOK' /\ ArtifactInv' /\ ReviewInv'
    BY <1>3, NextType, NextArtifact, NextReview DEF RotationInv
  <1> QED
    BY <1>1, <1>2, <1>4, Frame DEF RotationInv

LEMMA IntentOfPublication ==
  ASSUME RotationInv, NEW p \in Publications, phase[p] # "free"
  PROVE  IntentOf(p) \in Intents /\ IntentOf(p) # None
  BY ArtifactRotates, CandidateType, DistinctAssumption DEF IntentOf

(* While nothing is latched the pending key may change freely.             *)
LEMMA PendingPreserves ==
  ASSUME RotationInv, disk.intent = None, disk'.intent = None,
         disk'.active = disk.active,
         UNCHANGED <<retired, gate, phase, artifact, rejection, confirmations,
                     bundles, head, net>>
  PROVE  /\ NetInv' /\ RemoteInv' /\ ConfirmedInv' /\ BundleInv'
         /\ OneOutstanding' /\ DispatchInv' /\ GateInv' /\ RejectionInv'
  <1>1. NetInv'
    BY DEF RotationInv, NetInv
  <1>2. RemoteInv' /\ ConfirmedInv'
    BY DEF RotationInv, RemoteInv, ConfirmedInv
  <1>3. DispatchInv'
    BY IntentOfPublication DEF RotationInv, DispatchInv, IntentOf
  <1>4. GateInv'
    BY IntentOfPublication DEF RotationInv, GateInv, IntentOf
  <1> QED
    BY <1>1, <1>2, <1>3, <1>4, Frame

LEMMA PreparePreserves ==
  ASSUME RotationInv, PrepareSigningKeyRotation
  PROVE  RotationInv'
  <1>1. session = disk /\ disk \in Content /\ disk.intent = None
    BY UnlockedIsDisk DEF PrepareSigningKeyRotation, Latched
  <1>2. PICK k \in Keys \ generated :
          /\ generated' = generated \cup {k}
          /\ LET c == [session EXCEPT !.pending = k] IN
             Persisted(c) \/ PersistUnknown(c)
    BY DEF PrepareSigningKeyRotation
  <1>3. /\ disk' = disk \/ disk' = [disk EXCEPT !.pending = k]
        /\ SessionMirrorsDisk'
    BY <1>1, <1>2, PersistMirrors
  <1>4. disk'.intent = None /\ disk'.active = disk.active
        /\ disk'.pending \in {disk.pending, k}
    BY <1>1, <1>3 DEF Content
  <1>5. UNCHANGED <<retired, gate, phase, artifact, rejection, confirmations,
                    bundles, head, net>>
    BY DEF PrepareSigningKeyRotation, pubVars, proofVars, registry
  <1>6. ContentInv'
    BY <1>2, <1>4, <1>5 DEF RotationInv, ContentInv
  <1>7. TypeOK' /\ ArtifactInv' /\ ReviewInv'
    BY NextType, NextArtifact, NextReview DEF RotationInv, Next
  <1> QED
    BY <1>1, <1>3, <1>4, <1>5, <1>6, <1>7, PendingPreserves DEF RotationInv

LEMMA CancelPreserves ==
  ASSUME RotationInv, CancelSigningKeyRotation
  PROVE  RotationInv'
  <1>1. session = disk /\ disk \in Content /\ disk.intent = None
    BY UnlockedIsDisk DEF CancelSigningKeyRotation, Latched
  <1>2. /\ disk' = disk \/ disk' = [disk EXCEPT !.pending = None]
        /\ SessionMirrorsDisk'
    BY <1>1, PersistMirrors DEF CancelSigningKeyRotation
  <1>3. disk'.intent = None /\ disk'.active = disk.active
        /\ disk'.pending \in {disk.pending, None}
    BY <1>1, <1>2 DEF Content
  <1>4. UNCHANGED <<generated, retired, gate, phase, artifact, rejection,
                    confirmations, bundles, head, net>>
    BY DEF CancelSigningKeyRotation, pubVars, proofVars, registry
  <1>5. disk.active # None
    BY <1>1, DistinctAssumption DEF Content
  <1>6. ContentInv'
    BY <1>3, <1>4, <1>5 DEF RotationInv, ContentInv
  <1>7. TypeOK' /\ ArtifactInv' /\ ReviewInv'
    BY NextType, NextArtifact, NextReview DEF RotationInv, Next
  <1> QED
    BY <1>1, <1>2, <1>3, <1>4, <1>6, <1>7, PendingPreserves DEF RotationInv

LEMMA BundlePreserves ==
  ASSUME RotationInv, CreateBundle
  PROVE  RotationInv'
  <1>1. session = disk
    BY UnlockedIsDisk DEF CreateBundle
  <1>2. UNCHANGED <<walletVars, gate, pubVars, proofVars, registry>>
    BY DEF CreateBundle
  <1>3. BundleInv'
    BY SMT, <1>1 DEF CreateBundle, RotationInv, ContentInv, BundleInv
  <1>4. SessionMirrorsDisk'
    BY <1>2 DEF RotationInv, SessionMirrorsDisk, walletVars
  <1>5. TypeOK' /\ ArtifactInv' /\ ReviewInv'
    BY NextType, NextArtifact, NextReview DEF RotationInv, Next
  <1> QED
    BY <1>2, <1>3, <1>4, <1>5, Frame
    DEF RotationInv, walletVars, pubVars, proofVars, registry

-----------------------------------------------------------------------------
(* Every step that latches, sends, confirms or clears keeps the invariant. *)

LEMMA LatchPreserves ==
  ASSUME RotationInv, NEW p \in Publications, LatchDispatchIntent(p)
  PROVE  RotationInv'
  <1> DEFINE i == IntentOf(p)
  <1>1. session = disk /\ disk \in Content /\ disk.intent = None
    BY UnlockedIsDisk DEF LatchDispatchIntent, CanLatch, Latched
  <1>2. /\ artifact[p] \in Bundles
        /\ artifact[p].key # artifact[p].prev.key
        /\ i \in Intents /\ i # None
    BY ArtifactRotates, IntentOfPublication DEF LatchDispatchIntent, CanLatch
  <1>3. artifact[p].prev.key = disk.active /\ artifact[p].key = disk.pending
    BY <1>1 DEF LatchDispatchIntent, CanLatch
  <1>4. UNCHANGED <<generated, retired, phase, artifact, rejection,
                    confirmations, bundles, head, net>>
    BY DEF LatchDispatchIntent, pubVars, registry
  <1>5. /\ disk' = disk \/ disk' = [disk EXCEPT !.intent = i]
        /\ SessionMirrorsDisk'
    BY <1>1, PersistMirrors DEF LatchDispatchIntent
  <1>6. disk'.active = disk.active /\ disk'.pending = disk.pending
        /\ disk'.intent \in {None, i}
    BY <1>1, <1>5 DEF Content
  <1>7. i.bundle = artifact[p] /\ i.realm = AdapterRealm
    BY DEF IntentOf
  <1>8. ContentInv'
    BY <1>3, <1>4, <1>6, <1>7 DEF RotationInv, ContentInv
  <1>9. NetInv' /\ RemoteInv' /\ ConfirmedInv'
    BY <1>1, <1>4, <1>6 DEF RotationInv, NetInv, RemoteInv, ConfirmedInv
  <1>10. DispatchInv'
    BY <1>1, <1>4, IntentOfPublication DEF RotationInv, DispatchInv, IntentOf
  <1>11. WriteOf(artifact[p]) \notin net
    <2> SUFFICES ASSUME WriteOf(artifact[p]) \in net PROVE FALSE
      OBVIOUS
    <2>1. artifact[p].prev.key \in retired
      BY <1>1, <1>2 DEF RotationInv, NetInv, WriteOf, Candidate
    <2> QED
      BY <1>3, <2>1 DEF RotationInv, ContentInv
  <1>12. GateInv'
    <2> SUFFICES ASSUME NEW q \in Publications,
                        phase[q] # "free",
                        gate' = [intent |-> IntentOf(q), ready |-> TRUE]
                 PROVE  disk'.intent = IntentOf(q)
                        /\ WriteOf(artifact[q]) \notin net
      BY <1>4 DEF GateInv, IntentOf
    <2>1. gate' \in Gates
      BY IntentOfPublication DEF Gates
    <2>2. Persisted([disk EXCEPT !.intent = i])
          /\ gate' = [intent |-> i, ready |-> TRUE]
      BY <1>1, <2>1, DistinctAssumption DEF LatchDispatchIntent, CanLatch
    <2>3. IntentOf(q) = i
      BY SMT, <2>2
    <2>4. artifact[q] = artifact[p]
      BY <2>3 DEF IntentOf
    <2>5. disk'.intent = i
      BY <1>1, <2>2 DEF Persisted, Content
    <2> QED
      BY <1>11, <2>3, <2>4, <2>5
  <1>13. TypeOK' /\ ArtifactInv' /\ ReviewInv'
    BY NextType, NextArtifact, NextReview DEF RotationInv, Next
  <1> QED
    BY <1>4, <1>5, <1>8, <1>9, <1>10, <1>12, <1>13, Frame DEF RotationInv

LEMMA BindPreserves ==
  ASSUME RotationInv, BindLegacyEnvironment
  PROVE  RotationInv'
  <1>1. session = disk /\ disk \in Content /\ disk.intent = review
    BY UnlockedIsDisk DEF BindLegacyEnvironment
  <1>2. review \in Intents /\ review.realm = Unbound
    BY DEF BindLegacyEnvironment, RotationInv, TypeOK, ReviewInv
  <1>3. PICK r \in Realms :
          LET c == [session EXCEPT !.intent = [review EXCEPT !.realm = r]] IN
          Persisted(c) \/ PersistUnknown(c)
    BY DEF BindLegacyEnvironment, Persisted, PersistUnknown
  <1>4. /\ disk' = disk
             \/ disk' = [disk EXCEPT !.intent = [review EXCEPT !.realm = r]]
        /\ SessionMirrorsDisk'
    BY <1>1, <1>3, PersistMirrors
  <1>5. [review EXCEPT !.realm = r] \in Intents
        /\ [review EXCEPT !.realm = r].bundle = review.bundle
    BY <1>2 DEF Intents
  <1>6. /\ disk'.active = disk.active /\ disk'.pending = disk.pending
        /\ disk'.intent \in Intents /\ disk'.intent.bundle = disk.intent.bundle
    BY <1>1, <1>2, <1>4, <1>5 DEF Content
  <1>7. disk.intent # None /\ disk'.intent # None
    BY <1>1, <1>2, <1>6, DistinctAssumption
  <1>8. UNCHANGED <<generated, retired, gate, phase, artifact, rejection,
                    confirmations, bundles, head, net>>
    BY DEF BindLegacyEnvironment, pubVars, proofVars, registry
  <1>9. ContentInv' /\ NetInv' /\ RemoteInv' /\ ConfirmedInv'
    BY <1>6, <1>7, <1>8
    DEF RotationInv, ContentInv, NetInv, RemoteInv, ConfirmedInv, WriteOf,
        Candidate
  <1>10. \A p \in Publications : disk.intent # IntentOf(p)
    BY SMT, <1>1, <1>2, ConstantsAssumption DEF IntentOf
  <1>11. DispatchInv' /\ GateInv'
    BY <1>8, <1>10 DEF RotationInv, DispatchInv, GateInv, IntentOf
  <1>12. TypeOK' /\ ArtifactInv' /\ ReviewInv'
    BY NextType, NextArtifact, NextReview DEF RotationInv, Next
  <1> QED
    BY <1>4, <1>8, <1>9, <1>11, <1>12, Frame DEF RotationInv


(* A gate that is cleared or left alone admits no new publication.         *)
LEMMA NoGateRecord ==
  ASSUME RotationInv, NEW p \in Publications, phase[p] # "free"
  PROVE  None # [intent |-> IntentOf(p), ready |-> TRUE]
  <1>1. [intent |-> IntentOf(p), ready |-> TRUE] \in Gates
    BY IntentOfPublication DEF Gates
  <1> QED
    BY <1>1, DistinctAssumption

LEMMA FinalizePreserves ==
  ASSUME RotationInv, NEW i \in confirmations, FinalizeSigningKeyRotation(i)
  PROVE  RotationInv'
  <1>1. session = disk /\ disk \in Content /\ disk.intent = i
    BY UnlockedIsDisk DEF FinalizeSigningKeyRotation, MatchesLatched
  <1>2. i \in Intents /\ i # None
    BY DistinctAssumption DEF RotationInv, TypeOK
  <1>3. i.bundle \in Bundles /\ i.bundle.key \in Keys
    BY <1>2 DEF Intents, Bundles
  <1>4. i.bundle.prev.key = disk.active /\ i.bundle.key = disk.pending
    BY <1>1, <1>2 DEF RotationInv, ContentInv
  <1>5. disk.pending \in generated \ retired /\ disk.pending # disk.active
        /\ disk.pending # None
    BY <1>3, <1>4, DistinctAssumption DEF RotationInv, ContentInv
  <1>6. head["remote"].key = disk.pending
    BY <1>4, <1>5 DEF RotationInv, ConfirmedInv
  <1>7. WriteOf(i.bundle) \in net
    BY <1>1, <1>5, <1>6 DEF RotationInv, RemoteInv
  <1>8. UNCHANGED <<generated, phase, artifact, rejection, confirmations,
                    bundles, head, net>>
        /\ gate' \in {gate, None}
    BY DEF FinalizeSigningKeyRotation, pubVars, proofVars, registry
  <1>9. /\ disk' = disk \/ disk' = Promoted(i)
        /\ SessionMirrorsDisk'
    BY PersistMirrors DEF FinalizeSigningKeyRotation
  <1>10. ContentInv' /\ NetInv' /\ RemoteInv' /\ ConfirmedInv'
    <2>1. CASE disk' = disk
      <3>1. retired' = retired
        BY <2>1 DEF FinalizeSigningKeyRotation
      <3> QED
        BY <1>8, <2>1, <3>1, Frame
    <2>2. CASE disk' = Promoted(i) /\ disk' # disk
      <3>1. disk'.active = disk.pending /\ disk'.pending = None
            /\ disk'.intent = None
        BY <1>4, <2>2 DEF Promoted
      <3>2. retired' = retired \cup {disk.active}
        BY <2>2 DEF FinalizeSigningKeyRotation
      <3>3. ContentInv'
        BY <1>5, <1>8, <3>1, <3>2 DEF RotationInv, ContentInv
      <3>4. WriteOf(i.bundle).prev.key = disk.active
            /\ WriteOf(i.bundle).next.key = disk.pending
        BY <1>4 DEF WriteOf, Candidate
      <3>5. NetInv'
        BY <1>1, <1>8, <3>1, <3>2, <3>4 DEF RotationInv, NetInv
      <3>6. RemoteInv' /\ ConfirmedInv'
        BY <1>6, <1>8, <3>1, <3>2
        DEF RotationInv, RemoteInv, ConfirmedInv
      <3> QED
        BY <3>3, <3>5, <3>6
    <2> QED
      BY <1>9, <2>1, <2>2
  <1>11. \A p \in Publications :
           disk.intent = IntentOf(p) => WriteOf(artifact[p]) \in net
    BY SMT, <1>1, <1>7 DEF IntentOf
  <1>12. DispatchInv'
    BY <1>8, <1>11 DEF RotationInv, DispatchInv, IntentOf
  <1>13. GateInv'
    BY <1>8, <1>11, NoGateRecord DEF RotationInv, GateInv, IntentOf
  <1>14. TypeOK' /\ ArtifactInv' /\ ReviewInv'
    BY NextType, NextArtifact, NextReview DEF RotationInv, Next
  <1> QED
    BY <1>8, <1>9, <1>10, <1>12, <1>13, <1>14, Frame DEF RotationInv

LEMMA ResolvePreserves ==
  ASSUME RotationInv, NEW p \in Publications, ResolveRejection(p)
  PROVE  RotationInv'
  <1>1. session = disk /\ disk \in Content /\ disk.intent = IntentOf(p)
    BY UnlockedIsDisk DEF ResolveRejection, MatchesLatched
  <1>2. rejection[p] = "issued" /\ phase[p] = "done"
        /\ WriteOf(artifact[p]) \notin net
    BY DEF ResolveRejection, RotationInv, ArtifactInv, RejectionInv
  <1>3. disk.intent # None /\ disk.intent.bundle = artifact[p]
    BY SMT, <1>1, <1>2, IntentOfPublication DEF IntentOf
  <1>4. /\ UNCHANGED <<generated, retired, phase, artifact, confirmations,
                       bundles, head, net>>
        /\ gate' \in {gate, None}
        /\ rejection' \in {rejection, [rejection EXCEPT ![p] = "claimed"]}
    BY DEF ResolveRejection, proofVars, registry
  <1>5. /\ disk' = disk \/ disk' = [disk EXCEPT !.intent = None]
        /\ SessionMirrorsDisk'
    BY <1>1, PersistMirrors DEF ResolveRejection
  <1>6. disk'.active = disk.active /\ disk'.pending = disk.pending
        /\ disk'.intent \in {disk.intent, None}
    BY <1>1, <1>5 DEF Content
  <1>7. ContentInv' /\ ConfirmedInv'
    BY <1>4, <1>6 DEF RotationInv, ContentInv, ConfirmedInv
  <1>8. NetInv' /\ RemoteInv'
    BY <1>2, <1>3, <1>4, <1>6 DEF RotationInv, NetInv, RemoteInv
  <1>9. \A q \in Publications :
          phase[q] \notin {"free", "done"} => disk.intent # IntentOf(q)
    <2> SUFFICES ASSUME NEW q \in Publications,
                        phase[q] \notin {"free", "done"},
                        disk.intent = IntentOf(q)
                 PROVE  FALSE
      OBVIOUS
    <2>1. artifact[q] = artifact[p]
      BY SMT, <1>3 DEF IntentOf
    <2> QED
      BY <1>2, <2>1 DEF RotationInv, OneOutstanding, Outstanding
  <1>10. DispatchInv'
    BY <1>4, <1>9 DEF RotationInv, DispatchInv, IntentOf
  <1>11. GateInv'
    BY <1>4, <1>9, NoGateRecord DEF RotationInv, GateInv, IntentOf
  <1>12. OneOutstanding' /\ RejectionInv'
    BY <1>4 DEF RotationInv, TypeOK, OneOutstanding, Outstanding, RejectionInv
  <1>13. TypeOK' /\ ArtifactInv' /\ ReviewInv'
    BY NextType, NextArtifact, NextReview DEF RotationInv, Next
  <1> QED
    BY <1>4, <1>5, <1>7, <1>8, <1>10, <1>11, <1>12, <1>13, Frame
    DEF RotationInv

LEMMA ConsentPreserves ==
  ASSUME RotationInv, ~HostReprepares,
         NEW p \in Publications, PrepareConsent(p)
  PROVE  RotationInv'
  <1>1. PICK b \in bundles :
          /\ \A q \in Publications : Outstanding(q) => artifact[q] # b
          /\ artifact' = [artifact EXCEPT ![p] = b]
    BY DEF PrepareConsent
  <1>2. /\ phase[p] = "free" /\ gate = None
        /\ phase' = [phase EXCEPT ![p] = "consent"]
        /\ UNCHANGED <<walletVars, gate, rejection, proofVars, bundles,
                       registry>>
    BY DEF PrepareConsent
  <1>3. rejection[p] = "none"
    BY <1>2 DEF RotationInv, TypeOK, ArtifactInv
  <1>4. TypeOK' /\ ArtifactInv' /\ ReviewInv'
    BY NextType, NextArtifact, NextReview DEF RotationInv, Next
  <1>5. OneOutstanding'
    BY SMT, <1>1, <1>2, <1>3
    DEF RotationInv, TypeOK, OneOutstanding, Outstanding
  <1>6. DispatchInv' /\ RejectionInv'
    BY <1>1, <1>2, <1>3
    DEF RotationInv, TypeOK, DispatchInv, RejectionInv, IntentOf, walletVars,
        registry
  <1>7. GateInv'
    <2> SUFFICES ASSUME NEW q \in Publications, phase'[q] # "free",
                        gate' = [intent |-> IntentOf(q)', ready |-> TRUE]
                 PROVE  FALSE
      BY DEF GateInv
    <2>1. artifact'[q] \in Bundles
      BY <1>4 DEF TypeOK, ArtifactInv
    <2>2. IntentOf(q)' \in Intents
      BY <2>1, CandidateType DEF IntentOf
    <2>3. gate' \in Gates
      BY <2>2 DEF Gates
    <2> QED
      BY <1>2, <2>3, DistinctAssumption
  <1>8. SessionMirrorsDisk'
    BY <1>2 DEF RotationInv, SessionMirrorsDisk, walletVars
  <1> QED
    BY <1>2, <1>4, <1>5, <1>6, <1>7, <1>8, Frame
    DEF RotationInv, walletVars, proofVars, registry

(* The steps of a publication that touch neither wallet nor Registry, by    *)
(* what they do to the publication and to the proofs handed out.           *)
PublicationMove(p) ==
  /\ UNCHANGED <<disk, session, generated, retired, gate, bundles, head, net>>
  /\ \A q \in Publications \ {p} : /\ phase'[q] = phase[q]
                                   /\ artifact'[q] = artifact[q]
                                   /\ rejection'[q] = rejection[q]
  /\ artifact'[p] # artifact[p] => phase'[p] = "free" /\ rejection'[p] = "none"
  /\ phase'[p] \in {"consent", "ready"} => phase[p] \in {"consent", "ready"}
  /\ phase'[p] \in {"consumed", "holding", "checked", "clearable"} =>
       \/ phase[p] \in {"consumed", "holding", "checked", "clearable"}
       \/ phase[p] = "ready" /\ gate = [intent |-> IntentOf(p), ready |-> TRUE]
  /\ Outstanding(p)' => Outstanding(p)
  /\ rejection'[p] = "issued" =>
       rejection[p] = "issued" \/ phase[p] = "clearable"
  /\ confirmations' # confirmations =>
       /\ head["remote"] = Candidate(artifact[p])
       /\ confirmations' = confirmations \cup {IntentOf(p)}

LEMMA PublicationMoves ==
  ASSUME RotationInv, NEW p \in Publications,
         \/ PrepareReady(p) \/ Forget(p) \/ Expire(p) \/ DispatchConsume(p)
         \/ DispatchLock(p) \/ DispatchCheck(p) \/ DispatchReadback(p)
  PROVE  PublicationMove(p)
  <1>1. /\ phase \in [Publications -> Phases]
        /\ DOMAIN artifact = Publications /\ DOMAIN rejection = Publications
    BY DEF RotationInv, TypeOK
  <1> USE DEF PublicationMove, Outstanding, walletVars, proofVars, registry
  <1>2. CASE PrepareReady(p)
    BY <1>1, <1>2 DEF PrepareReady
  <1>3. CASE Forget(p)
    BY <1>1, <1>3 DEF Forget
  <1>4. CASE Expire(p)
    BY <1>1, <1>4 DEF Expire
  <1>5. CASE DispatchConsume(p)
    BY <1>1, <1>5 DEF DispatchConsume
  <1>6. CASE DispatchLock(p)
    BY <1>1, <1>6 DEF DispatchLock
  <1>7. CASE DispatchCheck(p)
    BY <1>1, <1>7 DEF DispatchCheck
  <1>8. CASE DispatchReadback(p)
    BY <1>1, <1>8 DEF DispatchReadback
  <1> QED
    BY <1>2, <1>3, <1>4, <1>5, <1>6, <1>7, <1>8

LEMMA PublicationPreserves ==
  ASSUME RotationInv, NEW p \in Publications,
         \/ PrepareReady(p) \/ Forget(p) \/ Expire(p) \/ DispatchConsume(p)
         \/ DispatchLock(p) \/ DispatchCheck(p) \/ DispatchReadback(p)
  PROVE  RotationInv'
  <1>1. PublicationMove(p)
    BY PublicationMoves
  <1>2. TypeOK' /\ ArtifactInv' /\ ReviewInv'
    BY NextType, NextArtifact, NextReview DEF RotationInv, Next
  <1>3. UNCHANGED <<disk, session, generated, retired, gate, bundles, head, net>>
    BY <1>1 DEF PublicationMove
  <1>4. OneOutstanding'
    BY SMT, <1>1 DEF RotationInv, OneOutstanding, Outstanding, PublicationMove
  <1>5. DispatchInv'
    BY <1>1 DEF RotationInv, DispatchInv, GateInv, IntentOf, PublicationMove
  <1>6. GateInv'
    BY <1>1 DEF RotationInv, GateInv, IntentOf, PublicationMove
  <1>7. RejectionInv'
    BY <1>1 DEF RotationInv, RejectionInv, DispatchInv, PublicationMove
  <1>8. ConfirmedInv'
    <2>1. CASE confirmations' = confirmations
      BY <1>3, <2>1, Frame
    <2>2. CASE /\ head["remote"] = Candidate(artifact[p])
               /\ confirmations' = confirmations \cup {IntentOf(p)}
      BY SMT, <1>3, <2>2 DEF RotationInv, ConfirmedInv, IntentOf, Candidate
    <2> QED
      BY <1>1, <2>1, <2>2 DEF PublicationMove
  <1>9. SessionMirrorsDisk'
    BY <1>3 DEF RotationInv, SessionMirrorsDisk
  <1> QED
    BY <1>2, <1>3, <1>4, <1>5, <1>6, <1>7, <1>8, <1>9, Frame DEF RotationInv

-----------------------------------------------------------------------------

(* The write begins under its intent, and no other publication of the      *)
(* bundle is outstanding.                                                  *)
LEMMA PutPreserves ==
  ASSUME RotationInv, NEW p \in Publications, DispatchPut(p)
  PROVE  RotationInv'
  <1> DEFINE w == WriteOf(artifact[p])
  <1>1. /\ phase[p] = "checked"
        /\ UNCHANGED <<walletVars, gate, artifact, rejection, proofVars,
                       bundles, head>>
        /\ phase' \in {[phase EXCEPT ![p] = "ambiguous"],
                       [phase EXCEPT ![p] = "clearable"]}
        /\ net' = net \/ (net' = net \cup {w}
                          /\ phase' = [phase EXCEPT ![p] = "ambiguous"])
    BY DEF DispatchPut
  <1>2. disk.intent = IntentOf(p) /\ disk.intent # None
        /\ disk.intent.bundle = artifact[p]
    BY SMT, <1>1, IntentOfPublication DEF RotationInv, DispatchInv, IntentOf
  <1>3. \A q \in Publications \ {p} :
          Outstanding(q) => WriteOf(artifact[q]) # w
    <2> SUFFICES ASSUME NEW q \in Publications \ {p}, Outstanding(q),
                        WriteOf(artifact[q]) = w
                 PROVE  FALSE
      OBVIOUS
    <2>1. phase[q] # "free"
      BY DEF RotationInv, TypeOK, ArtifactInv, Outstanding
    <2>2. artifact[q] \in Bundles /\ artifact[p] \in Bundles
      BY <1>1, <2>1, ArtifactRotates
    <2>3. artifact[q] = artifact[p]
      BY <2>2, WriteOfInjective
    <2> QED
      BY <1>1, <2>3 DEF RotationInv, OneOutstanding, Outstanding
  <1>4. TypeOK' /\ ArtifactInv' /\ ReviewInv'
    BY NextType, NextArtifact, NextReview DEF RotationInv, Next
  <1>5. SessionMirrorsDisk' /\ ContentInv'
    BY <1>1, Frame DEF RotationInv, SessionMirrorsDisk, walletVars
  <1>6. NetInv'
    BY <1>1, <1>2 DEF RotationInv, NetInv, walletVars
  <1>7. RemoteInv'
    BY <1>1 DEF RotationInv, RemoteInv, walletVars
  <1>8. OneOutstanding'
    BY <1>1 DEF RotationInv, TypeOK, OneOutstanding, Outstanding
  <1>9. DispatchInv'
    BY <1>1, <1>3
    DEF RotationInv, TypeOK, DispatchInv, IntentOf, Outstanding, walletVars
  <1>10. GateInv'
    BY <1>1, <1>3
    DEF RotationInv, TypeOK, GateInv, IntentOf, Outstanding, walletVars
  <1>11. RejectionInv'
    BY <1>1, <1>3
    DEF RotationInv, TypeOK, RejectionInv, ArtifactInv, Outstanding
  <1> QED
    BY <1>1, <1>4, <1>5, <1>6, <1>7, <1>8, <1>9, <1>10, <1>11, Frame
    DEF RotationInv, walletVars, proofVars

LEMMA ConfirmPreserves ==
  ASSUME RotationInv,
         ConfirmRegister \/ \E i \in confirming : ConfirmRead(i)
  PROVE  RotationInv'
  <1>1. UNCHANGED <<disk, session, generated, retired, phase, artifact,
                    rejection, bundles, head, net>>
    BY DEF ConfirmRegister, ConfirmRead, walletVars, pubVars, registry
  <1>2. TypeOK' /\ ArtifactInv' /\ ReviewInv'
    BY NextType, NextArtifact, NextReview DEF RotationInv, Next
  <1>3. ConfirmedInv'
    <2>1. CASE ConfirmRegister
      BY <1>1, <2>1, Frame DEF ConfirmRegister
    <2>2. ASSUME NEW i \in confirming, ConfirmRead(i) PROVE ConfirmedInv'
      <3>1. CASE UNCHANGED confirmations
        BY <1>1, <3>1, Frame
      <3>2. CASE /\ head["remote"] = Candidate(i.bundle)
                 /\ confirmations' = confirmations \cup {i}
        <4>1. head["remote"].key = i.bundle.key
          BY SMT, <3>2 DEF Candidate
        <4> QED
          BY <1>1, <3>2, <4>1 DEF RotationInv, ConfirmedInv
      <3> QED
        BY <2>2, <3>1, <3>2 DEF ConfirmRead
    <2> QED
      BY <2>1, <2>2
  <1>4. GateInv'
    <2>1. CASE gate' = gate
      BY <1>1, <2>1, Frame
    <2>2. CASE \E i : gate' = [intent |-> i, ready |-> FALSE]
      <3>1. \A j : gate' # [intent |-> j, ready |-> TRUE]
        BY SMT, <2>2
      <3> QED
        BY <3>1 DEF GateInv
    <2> QED
      BY <2>1, <2>2 DEF ConfirmRegister, ConfirmRead, Registers
  <1>5. SessionMirrorsDisk'
    BY <1>1 DEF RotationInv, SessionMirrorsDisk
  <1> QED
    BY <1>1, <1>2, <1>3, <1>4, <1>5, Frame DEF RotationInv

(* Other signers' updates keep the owner key, so no part of the invariant  *)
(* mistakes one for a rotation.                                            *)
LEMMA OrdinaryPreserves ==
  ASSUME RotationInv, NEW q \in Peers, OrdinaryUpdate(q)
  PROVE  RotationInv'
  <1> DEFINE u == [prev |-> head[q],
                   next |-> [head[q] EXCEPT !.seq = @ + 1]]
  <1>1. net' = net \cup {u}
        /\ UNCHANGED <<walletVars, gate, pubVars, proofVars, bundles, head>>
    BY DEF OrdinaryUpdate
  <1>2. u.next.key = u.prev.key
    BY DEF RotationInv, TypeOK, States
  <1>3. \A p \in Publications : phase[p] # "free" => WriteOf(artifact[p]) # u
    <2> SUFFICES ASSUME NEW p \in Publications, phase[p] # "free",
                        WriteOf(artifact[p]) = u
                 PROVE  FALSE
      OBVIOUS
    <2>1. artifact[p].key # artifact[p].prev.key
      BY ArtifactRotates
    <2>2. u.next.key = artifact[p].key /\ u.prev.key = artifact[p].prev.key
      BY DEF WriteOf, Candidate
    <2> QED
      BY <1>2, <2>1, <2>2
  <1> HIDE DEF u
  <1>4. TypeOK' /\ ArtifactInv' /\ ReviewInv'
    BY NextType, NextArtifact, NextReview DEF RotationInv, Next
  <1>5. NetInv' /\ RemoteInv'
    BY <1>1, <1>2 DEF RotationInv, NetInv, RemoteInv, walletVars
  <1>6. DispatchInv' /\ GateInv'
    BY <1>1, <1>3
    DEF RotationInv, DispatchInv, GateInv, IntentOf, walletVars, pubVars
  <1>7. RejectionInv'
    BY <1>1, <1>3 DEF RotationInv, RejectionInv, ArtifactInv, pubVars
  <1>8. SessionMirrorsDisk'
    BY <1>1 DEF RotationInv, SessionMirrorsDisk, walletVars
  <1> QED
    BY <1>1, <1>4, <1>5, <1>6, <1>7, <1>8, Frame
    DEF RotationInv, walletVars, pubVars, proofVars

(* Only the latched write can still change the key the peer shows.         *)
LEMMA LandPreserves ==
  ASSUME RotationInv, NEW q \in Peers, NEW w \in net, Land(w, q)
  PROVE  RotationInv'
  <1>1. /\ head[q] = w.prev /\ head' = [head EXCEPT ![q] = w.next]
        /\ UNCHANGED <<walletVars, gate, pubVars, proofVars, bundles, net>>
    BY DEF Land
  <1>2. TypeOK' /\ ArtifactInv' /\ ReviewInv'
    BY NextType, NextArtifact, NextReview DEF RotationInv, Next
  <1>3. head' = [head EXCEPT ![q] = w.next] /\ head \in [Peers -> States]
    BY <1>1 DEF RotationInv, TypeOK
  <1>4. RemoteInv' /\ ConfirmedInv'
    <2>1. CASE head'["remote"].key = head["remote"].key
      BY <1>1, <2>1 DEF RotationInv, RemoteInv, ConfirmedInv, walletVars,
                        proofVars
    <2>2. CASE head'["remote"].key # head["remote"].key
      <3>1. /\ head["remote"] = w.prev /\ head'["remote"] = w.next
            /\ w.next.key # w.prev.key
        BY <1>1, <1>3, <2>2
      <3>2. head["remote"].key \notin retired
        <4>1. head["remote"].key \in Keys
          BY <1>3 DEF States
        <4>2. head["remote"].key # None
          BY <4>1, DistinctAssumption
        <4> QED
          BY <4>2 DEF RotationInv, RemoteInv, ContentInv
      <3>3. disk.intent # None /\ w = WriteOf(disk.intent.bundle)
        BY <3>1, <3>2 DEF RotationInv, NetInv
      <3>4. w.prev.key = disk.active /\ w.next.key = disk.pending
        BY <3>3 DEF RotationInv, ContentInv, WriteOf, Candidate
      <3>5. RemoteInv'
        BY <1>1, <3>1, <3>3, <3>4 DEF RemoteInv, walletVars
      <3>6. ConfirmedInv'
        BY <1>1, <3>1, <3>4 DEF RotationInv, ConfirmedInv, walletVars,
                                proofVars
      <3> QED
        BY <3>5, <3>6
    <2> QED
      BY <2>1, <2>2
  <1>5. SessionMirrorsDisk'
    BY <1>1 DEF RotationInv, SessionMirrorsDisk, walletVars
  <1> QED
    BY <1>1, <1>2, <1>4, <1>5, Frame
    DEF RotationInv, walletVars, pubVars, proofVars

(* A restart forgets every capability and gate but nothing on disk.        *)
LEMMA CrashPreserves ==
  ASSUME RotationInv, Crash
  PROVE  RotationInv'
  <1>1. UNCHANGED <<disk, generated, retired, bundles, head, net>>
    BY DEF Crash, registry
  <1>2. TypeOK' /\ ArtifactInv' /\ ReviewInv'
    BY NextType, NextArtifact, NextReview DEF RotationInv, Next
  <1>3. /\ ConfirmedInv' /\ OneOutstanding' /\ DispatchInv' /\ GateInv'
        /\ RejectionInv' /\ SessionMirrorsDisk'
    BY DEF Crash, ConfirmedInv, OneOutstanding, Outstanding, DispatchInv,
           GateInv, RejectionInv, SessionMirrorsDisk
  <1> QED
    BY <1>1, <1>2, <1>3, Frame DEF RotationInv

LEMMA InitInv == Init => RotationInv
  <1> SUFFICES ASSUME Init PROVE RotationInv
    OBVIOUS
  <1>1. TypeOK
    BY InitType
  <1>2. head["remote"].key = FirstKey /\ retired = {}
    BY DEF Init
  <1>3. /\ ContentInv /\ NetInv /\ BundleInv
        /\ disk.active = FirstKey
    <2>1. CASE FreshContainer
      BY <1>2, <2>1, ConstantsAssumption, DistinctAssumption
      DEF FreshContainer, ContentInv, NetInv, BundleInv
    <2>2. CASE LegacyContainer
      <3>1. PICK k \in Keys \ {FirstKey} :
              LET b == [prev |-> [key |-> FirstKey, seq |-> 1], key |-> k] IN
              /\ disk = [active |-> FirstKey, pending |-> k,
                         intent |-> [bundle |-> b, realm |-> Unbound]]
              /\ generated = {FirstKey, k}
              /\ bundles = {b}
              /\ net \in {{}, {WriteOf(b)}}
        BY <2>2 DEF LegacyContainer
      <3> DEFINE b == [prev |-> [key |-> FirstKey, seq |-> 1], key |-> k]
      <3>2. b.prev.key = FirstKey /\ b.key = k
        OBVIOUS
      <3>3. disk.active = FirstKey /\ disk.pending = k
            /\ disk.intent.bundle = b
        BY <3>1
      <3>4. [bundle |-> b, realm |-> Unbound] \in Intents
        BY ConstantsAssumption DEF Intents, Bundles, States
      <3>5. disk.intent # None
        BY <3>1, <3>4, DistinctAssumption
      <3>6. ContentInv /\ BundleInv
        BY <1>2, <3>1, <3>2, <3>3 DEF ContentInv, BundleInv
      <3>7. NetInv
        BY <3>1, <3>3, <3>5 DEF NetInv
      <3> QED
        BY <3>3, <3>6, <3>7
    <2> QED
      BY <2>1, <2>2 DEF Init
  <1>4. RemoteInv
    BY <1>2, <1>3 DEF RemoteInv
  <1>5. /\ SessionMirrorsDisk /\ ReviewInv /\ ConfirmedInv /\ ArtifactInv
        /\ OneOutstanding /\ DispatchInv /\ GateInv /\ RejectionInv
    BY DEF Init, SessionMirrorsDisk, ReviewInv, ConfirmedInv, ArtifactInv,
           OneOutstanding, Outstanding, DispatchInv, GateInv, RejectionInv
  <1> QED
    BY <1>1, <1>3, <1>4, <1>5 DEF RotationInv

LEMMA NextInv ==
  ASSUME ~HostReprepares, RotationInv, [Next]_vars
  PROVE  RotationInv'
  BY QuietPreserves, PreparePreserves, CancelPreserves, BundlePreserves,
     LatchPreserves, BindPreserves, FinalizePreserves, ResolvePreserves,
     ConsentPreserves, PublicationPreserves, PutPreserves, ConfirmPreserves,
     OrdinaryPreserves, LandPreserves, CrashPreserves
  DEF Next

(* The inductive invariant holds for a host that keeps one outstanding     *)
(* publication per bundle.                                                 *)
THEOREM RotationInvariant ==
  ASSUME ~HostReprepares
  PROVE  Spec => []RotationInv
  <1>1. RotationInv /\ [Next]_vars => RotationInv'
    BY NextInv
  <1> QED
    BY <1>1, InitInv, PTL DEF Spec

(* The container always holds the owner key the independent peer shows.    *)
THEOREM RegisteredKeyIsHeld ==
  ASSUME ~HostReprepares
  PROVE  Spec => []RegisteredKeyHeld
  <1>1. RotationInv => RegisteredKeyHeld
    BY DEF RotationInv, RemoteInv, RegisteredKeyHeld, Holds
  <1> QED
    BY <1>1, RotationInvariant, PTL

(* The successor of every rotation write that has begun is kept until it   *)
(* is promoted: no ambiguous outcome loses it.                             *)
THEOREM DispatchedSuccessorIsHeld ==
  ASSUME ~HostReprepares
  PROVE  Spec => []DispatchedSuccessorHeld
  <1>1. RotationInv => DispatchedSuccessorHeld
    <2> SUFFICES ASSUME RotationInv, NEW w \in RotationWrites
                 PROVE  Holds(disk, w.next.key) \/ w.next.key \in retired
      BY DEF DispatchedSuccessorHeld
    <2>1. CASE disk.intent # None /\ w = WriteOf(disk.intent.bundle)
      BY <2>1
      DEF RotationInv, ContentInv, Holds, WriteOf, Candidate
    <2>2. CASE w.next.key \in retired \cup {disk.active}
      BY <2>2 DEF Holds
    <2> QED
      BY <2>1, <2>2 DEF RotationInv, NetInv, RotationWrites
  <1> QED
    BY <1>1, RotationInvariant, PTL

(* Which steps begin writes, and which replace the active key.             *)
LEMMA OnlyPutWrites ==
  ASSUME RotationInv, [Next]_vars
  PROVE  \/ net' = net
         \/ \E q \in Peers : OrdinaryUpdate(q)
         \/ \E p \in Publications : DispatchPut(p)
  BY DEF Next, vars, walletVars, pubVars, registry, Open, Lock, Crash,
         PrepareSigningKeyRotation, CancelSigningKeyRotation,
         RewriteContainer, CreateBundle, BindReview, BindLegacyEnvironment,
         BindRefused, ConfirmRegister, ConfirmRead,
         FinalizeSigningKeyRotation, LatchDispatchIntent, ResolveRejection,
         PrepareConsent, PrepareReady, Forget, Expire, DispatchConsume,
         DispatchLock, DispatchCheck, DispatchReadback, Land

(* A rotation write begins only under its durable intent.                  *)
THEOREM WritesUnderDurableLatch ==
  ASSUME ~HostReprepares
  PROVE  Spec => WriteUnderDurableLatch
  <1> DEFINE A == \A w \in net' \ net : w.next.key # w.prev.key =>
                    disk.intent # None /\ WriteOf(disk.intent.bundle) = w
  <1>1. RotationInv /\ [Next]_vars => [A]_vars
    <2> SUFFICES ASSUME RotationInv, [Next]_vars, NEW w \in net' \ net,
                        w.next.key # w.prev.key
                 PROVE  disk.intent # None /\ WriteOf(disk.intent.bundle) = w
      OBVIOUS
    <2>1. ASSUME NEW q \in Peers, OrdinaryUpdate(q) PROVE FALSE
      <3>1. w = [prev |-> head[q], next |-> [head[q] EXCEPT !.seq = @ + 1]]
        BY <2>1 DEF OrdinaryUpdate
      <3> QED
        BY <3>1 DEF RotationInv, TypeOK, States
    <2>2. ASSUME NEW p \in Publications, DispatchPut(p)
          PROVE  disk.intent # None /\ WriteOf(disk.intent.bundle) = w
      <3>1. phase[p] = "checked" /\ w = WriteOf(artifact[p])
        BY <2>2 DEF DispatchPut
      <3>2. disk.intent = IntentOf(p)
        BY <3>1 DEF RotationInv, DispatchInv
      <3> QED
        BY SMT, <3>1, <3>2, IntentOfPublication DEF IntentOf
    <2> QED
      BY <2>1, <2>2, OnlyPutWrites
  <1> QED
    BY <1>1, RotationInvariant, PTL DEF Spec, WriteUnderDurableLatch

(* What the unlocked session shows is what the file holds, whatever failed *)
(* or was locked in between (_persist_envelope, container.py:1503).        *)
THEOREM SessionShowsDisk ==
  ASSUME ~HostReprepares
  PROVE  Spec => []SessionMirrorsDisk
  <1>1. RotationInv => SessionMirrorsDisk
    BY DEF RotationInv
  <1> QED
    BY <1>1, RotationInvariant, PTL

(* The adapter never begins the same rotation write twice.                 *)
THEOREM NoWriteIsRepeated ==
  ASSUME ~HostReprepares
  PROVE  Spec => NoSecondWrite
  <1> DEFINE A == \A p \in Publications :
                    phase[p] = "checked" /\ phase'[p] = "ambiguous"
                      => WriteOf(artifact[p]) \notin net
  <1>1. RotationInv => A
    BY DEF RotationInv, DispatchInv
  <1> QED
    BY <1>1, RotationInvariant, PTL DEF NoSecondWrite

(* The active key is replaced only by the one the independent peer shows.  *)
THEOREM PromotionIsObserved ==
  ASSUME ~HostReprepares
  PROVE  Spec => PromotionObserved
  <1> DEFINE A == disk'.active # disk.active
                    => disk'.active = head["remote"].key
  <1>1. RotationInv /\ RotationInv' /\ [Next]_vars => [A]_vars
    <2> SUFFICES ASSUME RotationInv, RotationInv', [Next]_vars,
                        disk'.active # disk.active
                 PROVE  disk'.active = head["remote"].key
      OBVIOUS
    <2>1. \E i \in confirmations : FinalizeSigningKeyRotation(i)
      <3>1. CASE disk' = disk
        BY <3>1
      <3>2. CASE PrepareSigningKeyRotation \/ CancelSigningKeyRotation
                 \/ RewriteContainer \/ BindLegacyEnvironment
        BY <3>2, UnlockedIsDisk
        DEF PrepareSigningKeyRotation, CancelSigningKeyRotation,
            RewriteContainer, BindLegacyEnvironment, Persisted,
            PersistUnknown, Content
      <3>3. ASSUME NEW p \in Publications,
                   LatchDispatchIntent(p) \/ ResolveRejection(p)
            PROVE  FALSE
        BY <3>3, UnlockedIsDisk
        DEF LatchDispatchIntent, CanLatch, ResolveRejection, MatchesLatched,
            Persisted, PersistUnknown, Content
      <3> QED
        BY <3>1, <3>2, <3>3
        DEF Next, vars, walletVars, Open, Lock, Crash, CreateBundle,
            BindReview, BindRefused, ConfirmRegister, ConfirmRead,
            PrepareConsent, PrepareReady, Forget, Expire, DispatchConsume,
            DispatchLock, DispatchCheck, DispatchPut, DispatchReadback,
            OrdinaryUpdate, Land
    <2>2. PICK i \in confirmations : FinalizeSigningKeyRotation(i)
      BY <2>1
    <2>3. disk' = Promoted(i) /\ head' = head
      BY <2>2, PersistMirrors DEF FinalizeSigningKeyRotation, registry
    <2>4. disk'.intent = None
      BY <2>3 DEF Promoted
    <2> QED
      BY <2>3, <2>4 DEF RotationInv, RemoteInv
  <1> QED
    BY <1>1, RotationInvariant, PTL DEF Spec, PromotionObserved

-----------------------------------------------------------------------------
(* Rotation implements KeyHandover, one action at a time.                  *)
HandoverStep == Handover!Next \/ UNCHANGED Handover!vars

(* Steps that neither change the container nor begin or land a write.      *)
LEMMA QuietHandover ==
  ASSUME UNCHANGED <<disk, generated, head, net>>
  PROVE  HandoverStep
  <1>1. Begun' = Begun
    BY DEF Begun
  <1> QED
    BY <1>1 DEF HandoverStep, Handover!vars

(* What is not latched has not begun.                                      *)
LEMMA UnlatchedNotBegun ==
  /\ disk.intent = None => Begun = FALSE
  /\ disk'.intent = None => Begun' = FALSE
  BY DEF Begun

LEMMA PendingHandover ==
  ASSUME RotationInv, PrepareSigningKeyRotation \/ CancelSigningKeyRotation
  PROVE  HandoverStep
  <1>1. session = disk /\ disk \in Content /\ disk.intent = None
    BY UnlockedIsDisk
    DEF PrepareSigningKeyRotation, CancelSigningKeyRotation, Latched
  <1>2. UNCHANGED <<head, net>>
    BY DEF PrepareSigningKeyRotation, CancelSigningKeyRotation, registry
  <1>3. CASE PrepareSigningKeyRotation
    <2>1. PICK k \in Keys \ generated :
            /\ generated' = generated \cup {k}
            /\ \/ Persisted([session EXCEPT !.pending = k])
               \/ PersistUnknown([session EXCEPT !.pending = k])
      BY <1>3 DEF PrepareSigningKeyRotation
    <2>2. disk' = disk \/ disk' = [disk EXCEPT !.pending = k]
      BY <1>1, <2>1, PersistMirrors
    <2>3. disk'.active = disk.active /\ disk'.intent = None
          /\ disk'.pending \in {disk.pending, k}
      BY <1>1, <2>2 DEF Content
    <2>4. disk.pending = None
      BY <1>1, <1>3 DEF PrepareSigningKeyRotation
    <2>5. Handover!Propose
      BY <1>1, <1>2, <2>1, <2>3, <2>4, UnlatchedNotBegun DEF Handover!Propose
    <2> QED
      BY <2>5 DEF HandoverStep, Handover!Next
  <1>4. CASE CancelSigningKeyRotation
    <2>1. disk' = disk \/ disk' = [disk EXCEPT !.pending = None]
      BY <1>1, <1>4, PersistMirrors DEF CancelSigningKeyRotation
    <2>2. generated' = generated /\ disk.pending # None
      BY <1>1, <1>4 DEF CancelSigningKeyRotation
    <2>3. CASE disk' = disk
      BY <1>2, <2>2, <2>3, QuietHandover
    <2>4. CASE disk' = [disk EXCEPT !.pending = None]
      <3>1. disk'.active = disk.active /\ disk'.intent = None
            /\ disk'.pending = None
        BY <1>1, <2>4 DEF Content
      <3>2. Handover!Withdraw
        BY <1>1, <1>2, <2>2, <3>1, UnlatchedNotBegun DEF Handover!Withdraw
      <3> QED
        BY <3>2 DEF HandoverStep, Handover!Next
    <2> QED
      BY <2>1, <2>3, <2>4
  <1> QED
    BY <1>3, <1>4

(* Latching, binding and resolving an intent do not begin a write, and     *)
(* none of them forgets one that has begun.                                *)
LEMMA IntentHandover ==
  ASSUME disk'.active = disk.active, disk'.pending = disk.pending,
         UNCHANGED <<generated, head, net>>, Begun' = Begun
  PROVE  HandoverStep
  BY DEF HandoverStep, Handover!vars

LEMMA LatchHandover ==
  ASSUME RotationInv, NEW p \in Publications, LatchDispatchIntent(p)
  PROVE  HandoverStep
  <1> DEFINE i == IntentOf(p)
  <1>1. session = disk /\ disk \in Content /\ disk.intent = None
    BY UnlockedIsDisk DEF LatchDispatchIntent, CanLatch, Latched
  <1>2. /\ artifact[p].key # artifact[p].prev.key
        /\ artifact[p].prev.key = disk.active
    BY <1>1, ArtifactRotates DEF LatchDispatchIntent, CanLatch
  <1>3. UNCHANGED <<generated, head, net>>
    BY DEF LatchDispatchIntent, registry
  <1>4. disk' = disk \/ disk' = [disk EXCEPT !.intent = i]
    BY <1>1, PersistMirrors DEF LatchDispatchIntent
  <1>5. disk'.active = disk.active /\ disk'.pending = disk.pending
        /\ disk'.intent \in {None, i}
    BY <1>1, <1>4 DEF Content
  <1>6. WriteOf(artifact[p]) \notin net
    <2> SUFFICES ASSUME WriteOf(artifact[p]) \in net PROVE FALSE
      OBVIOUS
    <2>1. artifact[p].prev.key \in retired
      BY <1>1, <1>2 DEF RotationInv, NetInv, WriteOf, Candidate
    <2> QED
      BY <1>2, <2>1 DEF RotationInv, ContentInv
  <1>7. i.bundle = artifact[p]
    BY DEF IntentOf
  <1>8. Begun = FALSE /\ Begun' = FALSE
    BY <1>1, <1>3, <1>5, <1>6, <1>7 DEF Begun, WriteOf, Candidate
  <1> QED
    BY <1>3, <1>5, <1>8, IntentHandover

LEMMA BindHandover ==
  ASSUME RotationInv, BindLegacyEnvironment
  PROVE  HandoverStep
  <1>1. session = disk /\ disk \in Content /\ disk.intent = review
    BY UnlockedIsDisk DEF BindLegacyEnvironment
  <1>2. review \in Intents /\ UNCHANGED <<generated, head, net>>
    BY DEF BindLegacyEnvironment, RotationInv, TypeOK, registry
  <1>3. PICK r \in Realms :
          LET c == [session EXCEPT !.intent = [review EXCEPT !.realm = r]] IN
          Persisted(c) \/ PersistUnknown(c)
    BY DEF BindLegacyEnvironment
  <1>4. disk' = disk
        \/ disk' = [disk EXCEPT !.intent = [review EXCEPT !.realm = r]]
    BY <1>1, <1>3, PersistMirrors
  <1>5. [review EXCEPT !.realm = r] \in Intents
        /\ [review EXCEPT !.realm = r].bundle = review.bundle
    BY <1>2 DEF Intents
  <1>6. /\ disk'.active = disk.active /\ disk'.pending = disk.pending
        /\ disk'.intent \in Intents /\ disk'.intent.bundle = disk.intent.bundle
    BY <1>1, <1>2, <1>4, <1>5 DEF Content
  <1>7. Begun' = Begun
    BY <1>1, <1>2, <1>6, DistinctAssumption DEF Begun, WriteOf, Candidate
  <1> QED
    BY <1>2, <1>6, <1>7, IntentHandover

LEMMA ResolveHandover ==
  ASSUME RotationInv, NEW p \in Publications, ResolveRejection(p)
  PROVE  HandoverStep
  <1>1. session = disk /\ disk \in Content /\ disk.intent = IntentOf(p)
    BY UnlockedIsDisk DEF ResolveRejection, MatchesLatched
  <1>2. WriteOf(artifact[p]) \notin net
    BY DEF ResolveRejection, RotationInv, RejectionInv
  <1>3. disk.intent.bundle = artifact[p]
    BY SMT, <1>1 DEF IntentOf
  <1>4. UNCHANGED <<generated, head, net>>
    BY DEF ResolveRejection, registry
  <1>5. disk' = disk \/ disk' = [disk EXCEPT !.intent = None]
    BY <1>1, PersistMirrors DEF ResolveRejection
  <1>6. disk'.active = disk.active /\ disk'.pending = disk.pending
        /\ disk'.intent \in {disk.intent, None}
    BY <1>1, <1>5 DEF Content
  <1>7. Begun = FALSE /\ Begun' = FALSE
    BY <1>2, <1>3, <1>4, <1>6 DEF Begun, WriteOf, Candidate
  <1> QED
    BY <1>4, <1>6, <1>7, IntentHandover

(* A promotion finds the successor at the peer, its write begun.           *)
LEMMA FinalizeHandover ==
  ASSUME RotationInv, NEW i \in confirmations, FinalizeSigningKeyRotation(i)
  PROVE  HandoverStep
  <1>1. session = disk /\ disk.intent = i
    BY UnlockedIsDisk DEF FinalizeSigningKeyRotation, MatchesLatched
  <1>2. i \in Intents /\ i # None
    BY DistinctAssumption DEF RotationInv, TypeOK
  <1>3. i.bundle.key \in Keys /\ i.bundle.key = disk.pending
    BY <1>1, <1>2 DEF RotationInv, ContentInv, Intents, Bundles
  <1>4. disk.pending \notin retired \cup {disk.active}
    BY <1>3, DistinctAssumption DEF RotationInv, ContentInv
  <1>5. head["remote"].key = disk.pending
    BY <1>3, <1>4 DEF RotationInv, ConfirmedInv
  <1>6. Begun = TRUE
    BY <1>1, <1>2, <1>4, <1>5 DEF RotationInv, RemoteInv, Begun
  <1>7. UNCHANGED <<generated, head, net>>
    BY DEF FinalizeSigningKeyRotation, registry
  <1>8. disk' = disk \/ disk' = Promoted(i)
    BY PersistMirrors DEF FinalizeSigningKeyRotation
  <1>9. CASE disk' = Promoted(i)
    <2>1. disk'.active = disk.pending /\ disk'.pending = None
          /\ disk'.intent = None
      BY <1>3, <1>9 DEF Promoted
    <2>2. Handover!Promote
      BY <1>5, <1>6, <1>7, <2>1, UnlatchedNotBegun DEF Handover!Promote
    <2> QED
      BY <2>2 DEF HandoverStep, Handover!Next
  <1> QED
    BY <1>7, <1>8, <1>9, QuietHandover

(* The put begins the write; whatever else reaches the network does not.   *)
LEMMA PutHandover ==
  ASSUME RotationInv, NEW p \in Publications, DispatchPut(p)
  PROVE  HandoverStep
  <1>1. /\ phase[p] = "checked" /\ UNCHANGED <<disk, generated, head>>
        /\ net' = net \/ net' = net \cup {WriteOf(artifact[p])}
    BY DEF DispatchPut, walletVars
  <1>2. disk.intent = IntentOf(p) /\ disk.intent # None
        /\ WriteOf(artifact[p]) \notin net
    BY <1>1, IntentOfPublication DEF RotationInv, DispatchInv
  <1>3. disk.intent.bundle = artifact[p]
    BY SMT, <1>2 DEF IntentOf
  <1>4. CASE net' = net \cup {WriteOf(artifact[p])}
    <2>1. Begun = FALSE /\ Begun' = TRUE
      BY <1>1, <1>2, <1>3, <1>4 DEF Begun, WriteOf, Candidate
    <2>2. disk.pending = artifact[p].key /\ artifact[p].key \in Keys
      BY <1>1, <1>2, <1>3, ArtifactRotates DEF RotationInv, ContentInv, Bundles
    <2>3. Handover!Begin
      BY <1>1, <2>1, <2>2, DistinctAssumption DEF Handover!Begin
    <2> QED
      BY <2>3 DEF HandoverStep, Handover!Next
  <1> QED
    BY <1>1, <1>4, QuietHandover

LEMMA OrdinaryHandover ==
  ASSUME RotationInv, NEW q \in Peers, OrdinaryUpdate(q)
  PROVE  HandoverStep
  <1> DEFINE u == [prev |-> head[q],
                   next |-> [head[q] EXCEPT !.seq = @ + 1]]
  <1>1. net' = net \cup {u} /\ UNCHANGED <<disk, generated, head>>
    BY DEF OrdinaryUpdate, walletVars
  <1>2. u.next.key = u.prev.key
    BY DEF RotationInv, TypeOK, States
  <1>3. disk.intent # None => WriteOf(disk.intent.bundle) # u
    <2> SUFFICES ASSUME disk.intent # None, WriteOf(disk.intent.bundle) = u
                 PROVE  FALSE
      OBVIOUS
    <2>1. u.prev.key = disk.active /\ u.next.key = disk.pending
      BY DEF RotationInv, ContentInv, WriteOf, Candidate
    <2> QED
      BY <1>2, <2>1 DEF RotationInv, ContentInv
  <1> HIDE DEF u
  <1>4. Begun' = Begun
    BY <1>1, <1>3 DEF Begun, WriteOf, Candidate
  <1> QED
    BY <1>1, <1>4 DEF HandoverStep, Handover!vars

LEMMA LandHandover ==
  ASSUME RotationInv, NEW q \in Peers, NEW w \in net, Land(w, q)
  PROVE  HandoverStep
  <1>1. /\ head[q] = w.prev /\ head' = [head EXCEPT ![q] = w.next]
        /\ UNCHANGED <<disk, generated, net>>
    BY DEF Land, walletVars
  <1>2. head \in [Peers -> States]
    BY DEF RotationInv, TypeOK
  <1>3. Begun' = Begun
    BY <1>1 DEF Begun
  <1>4. CASE head'["remote"].key = head["remote"].key
    BY <1>1, <1>3, <1>4 DEF HandoverStep, Handover!vars
  <1>5. CASE head'["remote"].key # head["remote"].key
    <2>1. /\ head["remote"] = w.prev /\ head'["remote"] = w.next
          /\ w.next.key # w.prev.key
      BY <1>1, <1>2, <1>5
    <2>2. head["remote"].key \notin retired
      <3>1. head["remote"].key # None
        BY <1>2, DistinctAssumption DEF States
      <3> QED
        BY <3>1 DEF RotationInv, RemoteInv, ContentInv
    <2>3. disk.intent # None /\ w = WriteOf(disk.intent.bundle)
      BY <2>1, <2>2 DEF RotationInv, NetInv
    <2>4. w.prev.key = disk.active /\ w.next.key = disk.pending
      BY <2>3 DEF RotationInv, ContentInv, WriteOf, Candidate
    <2>5. Begun
      BY <2>3 DEF Begun
    <2>6. Handover!Serve
      BY <1>1, <1>3, <2>1, <2>4, <2>5 DEF Handover!Serve
    <2> QED
      BY <2>6 DEF HandoverStep, Handover!Next
  <1> QED
    BY <1>4, <1>5

LEMMA InitHandover == Init => Handover!Init
  <1> SUFFICES ASSUME Init PROVE Handover!Init
    OBVIOUS
  <1>1. head["remote"].key = FirstKey /\ FirstKey \in Keys
    BY ConstantsAssumption DEF Init
  <1>2. Begun \in BOOLEAN
    BY DEF Begun
  <1>3. CASE FreshContainer
    <2>1. /\ disk.active = FirstKey /\ disk.pending = None
          /\ disk.intent = None /\ generated = {FirstKey}
      BY <1>3 DEF FreshContainer
    <2> QED
      BY <1>1, <2>1, UnlatchedNotBegun DEF Handover!Init
  <1>4. CASE LegacyContainer
    <2>1. PICK k \in Keys \ {FirstKey} :
            /\ disk.active = FirstKey /\ disk.pending = k
            /\ generated = {FirstKey, k}
      BY SMT, <1>4 DEF LegacyContainer
    <2> QED
      BY <1>1, <1>2, <2>1 DEF Handover!Init
  <1> QED
    BY <1>3, <1>4 DEF Init

(* Rotation in the Python core is a key handover, step for step, for a     *)
(* host that keeps one outstanding publication per bundle.                 *)
THEOREM RotationImplementsHandover ==
  ASSUME ~HostReprepares
  PROVE  Spec => ImplementsHandover
  <1>1. RotationInv /\ [Next]_vars => [Handover!Next]_Handover!vars
    <2> SUFFICES ASSUME RotationInv, [Next]_vars
                 PROVE  HandoverStep
      BY DEF HandoverStep
    <2>1. CASE UNCHANGED <<disk, generated, head, net>>
      BY <2>1, QuietHandover
    <2>2. CASE RewriteContainer
      BY <2>2, UnlockedIsDisk, QuietHandover
      DEF RewriteContainer, PersistUnknown, registry
    <2>3. \/ UNCHANGED <<disk, generated, head, net>> \/ RewriteContainer
          \/ PrepareSigningKeyRotation \/ CancelSigningKeyRotation
          \/ BindLegacyEnvironment
          \/ \E i \in confirmations : FinalizeSigningKeyRotation(i)
          \/ \E p \in Publications :
               LatchDispatchIntent(p) \/ ResolveRejection(p) \/ DispatchPut(p)
          \/ \E q \in Peers : OrdinaryUpdate(q) \/ \E w \in net : Land(w, q)
      BY DEF Next, vars, walletVars, registry, Open, Lock, Crash, CreateBundle,
             BindReview, BindRefused, ConfirmRegister, ConfirmRead,
             PrepareConsent, PrepareReady, Forget, Expire, DispatchConsume,
             DispatchLock, DispatchCheck, DispatchReadback
    <2> QED
      BY <2>1, <2>2, <2>3, PendingHandover, BindHandover, FinalizeHandover,
         LatchHandover, ResolveHandover, PutHandover, OrdinaryHandover,
         LandHandover
  <1> QED
    BY <1>1, InitHandover, RotationInvariant, PTL
    DEF Spec, ImplementsHandover, Handover!Spec

=============================================================================
