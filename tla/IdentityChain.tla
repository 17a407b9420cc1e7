---------------------------- MODULE IdentityChain ----------------------------
(***************************************************************************)
(* The states of one Identity and the rules that lead from one to the      *)
(* next: the legacy update, signed by its owner key, and the version-1     *)
(* operations, signed by two of three signers.  The rules are written out  *)
(* several times in the code: where a draft is made, where a signature is  *)
(* asked for, in the signer itself, where a bundle of proofs is finalized, *)
(* and where an envelope read from the Registry is parsed after its        *)
(* predecessors.  Each is an operator here, and the properties say that    *)
(* they fit together.                                                      *)
(*                                                                         *)
(* A hash is the update it was computed from.  A proof is the signer ID it *)
(* names and the key that made its signature; a legacy proof names no ID.  *)
(* A signer set is a function from IDs to keys: a list out of order, or    *)
(* with an ID twice, is refused wherever it is met and is left out.  When  *)
(* calls overlap, crash or time out is the subject of IdentitySubmission   *)
(* and OwnerKeyRotation; here every call is one step.                      *)
(***************************************************************************)
EXTENDS Naturals, Sequences, FiniteSets, Functions

CONSTANTS
  Owners,        \* keys that callers name as the owner's
  Ids,           \* signer IDs
  SignerSets,    \* the signer sets callers propose
  MaxEpoch,      \* bound on the epochs callers propose
  Depth,         \* _MAX_PREDECESSOR_DEPTH
  MaxStates,     \* bound on accepted states
  NoId, Zero     \* the ID of a legacy proof, the hash of no state

Keys == Owners \cup UNION {Range(s) : s \in SignerSets}
Operations == {"genesis", "ordinary", "replace", "upgrade", "rotate"}

ASSUME ChainAssumption ==
  /\ \A s \in SignerSets : DOMAIN s \in SUBSET Ids
  /\ IsFiniteSet(Ids) /\ NoId \notin Ids
  /\ MaxEpoch \in Nat \ {0} /\ Depth \in Nat \ {0} /\ MaxStates \in Nat

VARIABLES
  store,    \* the accepted envelopes, as the Registry keeps and returns them
  bundle    \* the draft a host collects proofs for, with the proofs

vars == <<store, bundle>>

-----------------------------------------------------------------------------
(* Updates and envelopes.  Nil is no state, and Legacy no authorization.   *)

Nil == <<>>
Legacy == <<>>

Update(owner, seq, auth) == [owner |-> owner, seq |-> seq, auth |-> auth]
Envelope(u, proofs) == [update |-> u, proofs |-> proofs]
Proof(id, key) == [id |-> id, key |-> key]
Digest(u) == <<u>>

Governed(e) == e.update.auth # Legacy
Owner(e) == e.update.owner
SignersOf(e) == e.update.auth.signers

(* _validate_authorization, and the signer's own.                          *)
WellFormed(auth) ==
  /\ DOMAIN auth.signers # {} /\ IsInjective(auth.signers)
  /\ auth.threshold \in 1..Cardinality(DOMAIN auth.signers)

TwoOfThree(auth) ==
  auth.threshold = 2 /\ Cardinality(DOMAIN auth.signers) = 3

SameGovernance(p, auth) ==
  /\ auth.epoch = p.update.auth.epoch
  /\ auth.threshold = p.update.auth.threshold
  /\ auth.signers = SignersOf(p)

Replaces(p, auth) ==
  /\ TwoOfThree(auth)
  /\ auth.epoch > p.update.auth.epoch /\ auth.signers # SignersOf(p)

Follows(p, u) ==
  u.auth.pred = Digest(p.update) /\ u.seq = p.update.seq + 1

-----------------------------------------------------------------------------
(* _parse_identity_envelope: whether an envelope stands after state p.     *)

RotatesLegacy(p, auth) == auth.op = "rotate" /\ p # Nil /\ ~Governed(p)

TransitionParses(p, u) ==
  LET auth == u.auth IN
  \/ /\ auth.op = "genesis" /\ p = Nil
     /\ u.seq = 1 /\ auth.epoch = 1 /\ auth.pred = Zero /\ TwoOfThree(auth)
  \/ /\ auth.op = "upgrade" /\ p # Nil /\ ~Governed(p)
     /\ auth.epoch = 1 /\ TwoOfThree(auth) /\ Owner(p) = u.owner /\ Follows(p, u)
  \/ /\ auth.op = "ordinary" /\ p # Nil /\ Governed(p)
     /\ Owner(p) = u.owner /\ Follows(p, u) /\ SameGovernance(p, auth)
  \/ /\ auth.op = "replace" /\ p # Nil /\ Governed(p)
     /\ Owner(p) = u.owner /\ Follows(p, u) /\ Replaces(p, auth)
  \/ /\ auth.op = "rotate" /\ p # Nil
     /\ Owner(p) # u.owner /\ Follows(p, u)
     /\ IF Governed(p)
          THEN SameGovernance(p, auth)
          ELSE auth.epoch = 1 /\ TwoOfThree(auth) /\ u.owner \in Range(auth.signers)

\* Mutant: every proof is verified with the keys the update itself lists.
CandidateKeys(p, auth) == auth.signers

VerificationKeys(p, auth) ==
  IF auth.op \in {"ordinary", "replace", "rotate"} THEN SignersOf(p) ELSE auth.signers

(* Proof IDs are distinct, so that counting proofs counts signers.         *)
DistinctIds(proofs) == \A x, y \in proofs : x.id = y.id => x = y

ProofsParse(p, e) ==
  LET auth == e.update.auth
      keys == VerificationKeys(p, auth)
      signedBy == {x.id : x \in e.proofs}
  IN /\ DistinctIds(e.proofs)
     /\ IF RotatesLegacy(p, auth)
          THEN e.proofs = {Proof(NoId, Owner(p))}
          ELSE /\ \A x \in e.proofs : x.id \in DOMAIN keys /\ x.key = keys[x.id]
               /\ IF auth.op = "upgrade"
                    THEN \E i \in DOMAIN keys : signedBy = {i} /\ keys[i] = Owner(e)
                    ELSE Cardinality(signedBy) >= auth.threshold

(* A legacy envelope is parsed without looking at what came before it.     *)
Accepts(p, e) ==
  IF ~Governed(e)
    THEN e.proofs = {Proof(NoId, Owner(e))}
    ELSE /\ WellFormed(e.update.auth)
         /\ TransitionParses(p, e.update) /\ ProofsParse(p, e)

-----------------------------------------------------------------------------
(* read_state: the envelope the Registry shows, and its predecessors by    *)
(* hash, newest first, until one needs none; then all of them are parsed   *)
(* from the oldest on.                                                     *)

Newest == store[Len(store)]
\* Mutant: the upgrade is taken for an anchor.
UpgradeIsAnchor(e) ==
  Governed(e) /\ e.update.auth.op \in {"ordinary", "replace", "rotate"}

NeedsPredecessor(e) ==
  Governed(e) /\ e.update.auth.op \in {"ordinary", "replace", "upgrade", "rotate"}

(* get_identity_envelope_by_hash.                                          *)
ByHash(h) == {i \in DOMAIN store : Digest(store[i].update) = h}

Fetched[n \in 0..Depth] ==
  IF n = 0
    THEN <<Newest>>
    ELSE LET c == Fetched[n - 1]
             oldest == c[Len(c)]
         IN IF NeedsPredecessor(oldest) /\ ByHash(oldest.update.auth.pred) # {}
              THEN Append(c, store[CHOOSE i \in ByHash(oldest.update.auth.pred) : TRUE])
              ELSE c

(* _parse_previous_state_chain.                                            *)
Replays(c) ==
  /\ Accepts(Nil, c[Len(c)])
  /\ \A i \in 1..Len(c) - 1 : Accepts(c[i + 1], c[i])

(* The state read, as its envelope, and the predecessors it carries.       *)
Chain == Fetched[Depth]
Readable ==
  store # <<>> => ~NeedsPredecessor(Chain[Len(Chain)]) /\ Replays(Chain)
Current == IF store = <<>> THEN Nil ELSE Newest
History == IF store = <<>> THEN <<>> ELSE Tail(Chain)

\* Mutant: the first state has sequence 0.
NextSeqFromZero == IF store = <<>> THEN 0 ELSE Newest.update.seq + 1

NextSeq == IF store = <<>> THEN 1 ELSE Newest.update.seq + 1

-----------------------------------------------------------------------------
(* _validate_draft_transition.                                             *)
DraftFollows(p, u) ==
  LET auth == u.auth IN
  IF p = Nil
    THEN /\ u.seq = 1
         /\ auth # Legacy => /\ auth.op = "genesis" /\ auth.epoch = 1
                             /\ auth.pred = Zero /\ TwoOfThree(auth)
    ELSE /\ u.seq = p.update.seq + 1
         /\ IF auth = Legacy
              THEN ~Governed(p) /\ u.owner = Owner(p)
              ELSE /\ auth.pred = Digest(p.update)
                   /\ (auth.op = "rotate") <=> (u.owner # Owner(p))
                   /\ IF ~Governed(p)
                        THEN /\ auth.op \in {"rotate", "upgrade"}
                             /\ auth.epoch = 1 /\ TwoOfThree(auth)
                             /\ u.owner \in Range(auth.signers)
                        ELSE \/ auth.op \in {"rotate", "ordinary"}
                                /\ SameGovernance(p, auth)
                             \/ auth.op = "replace" /\ Replaces(p, auth)

(* IdentityDraft.__post_init__.                                            *)
Drafts(p, history, u) ==
  /\ u.auth # Legacy => WellFormed(u.auth)
  /\ Len(history) <= Depth
  /\ DraftFollows(p, u)
  /\ p # Nil => Replays(<<p>> \o history)

Bundle(p, history, u, proofs) ==
  [prev |-> p, history |-> history, update |-> u, proofs |-> proofs]

\* Mutant: the signers a replacement installs are asked to authorize it.
SuccessorKeys(p, auth) ==
  IF auth.op = "rotate" THEN SignersOf(p) ELSE auth.signers

(* IdentityBundle.finalize, which parses what it has put together.         *)
AuthorizedKeys(p, auth) ==
  IF auth.op \in {"replace", "rotate"} THEN SignersOf(p) ELSE auth.signers

Finalizes(b) ==
  LET auth == b.update.auth IN
  /\ b.proofs # {}
  /\ IF auth = Legacy
       THEN b.proofs = {Proof(NoId, b.update.owner)}
       ELSE IF RotatesLegacy(b.prev, auth)
       THEN b.proofs = {Proof(NoId, Owner(b.prev))}
       ELSE LET keys == AuthorizedKeys(b.prev, auth) IN
            /\ \A x \in b.proofs : x.id \in DOMAIN keys /\ x.key = keys[x.id]
            /\ IF auth.op = "upgrade"
                 THEN \E x \in b.proofs : b.proofs = {x} /\ x.key = b.update.owner
                 ELSE Cardinality({x.id : x \in b.proofs}) >= auth.threshold
  /\ Accepts(b.prev, Envelope(b.update, b.proofs))

-----------------------------------------------------------------------------
HoldsId(signers, id, key) == id \in DOMAIN signers /\ signers[id] = key

\* Mutant: a replacement may keep the epoch.
MaySignSameEpoch(p, auth, id, key) ==
  IF p = Nil
    THEN /\ auth.op = "genesis" /\ auth.epoch = 1 /\ auth.pred = Zero
         /\ TwoOfThree(auth) /\ HoldsId(auth.signers, id, key)
    ELSE IF ~Governed(p)
    THEN \/ /\ auth.op = "rotate" /\ auth.epoch = 1 /\ TwoOfThree(auth)
            /\ id = NoId /\ key = Owner(p)
         \/ /\ auth.op = "upgrade" /\ auth.epoch = 1 /\ TwoOfThree(auth)
            /\ auth.pred = Digest(p.update)
            /\ key = Owner(p) /\ HoldsId(auth.signers, id, key)
    ELSE /\ HoldsId(SignersOf(p), id, key)
         /\ \/ auth.op \in {"rotate", "ordinary"} /\ SameGovernance(p, auth)
            \/ /\ auth.op = "replace" /\ TwoOfThree(auth)
               /\ auth.epoch >= p.update.auth.epoch /\ auth.signers # SignersOf(p)

(* _validate_transition: may this signer be asked for a proof?             *)
MaySign(p, auth, id, key) ==
  IF p = Nil
    THEN /\ auth.op = "genesis" /\ auth.epoch = 1 /\ auth.pred = Zero
         /\ TwoOfThree(auth) /\ HoldsId(auth.signers, id, key)
    ELSE IF ~Governed(p)
    THEN \/ /\ auth.op = "rotate" /\ auth.epoch = 1 /\ TwoOfThree(auth)
            /\ id = NoId /\ key = Owner(p)
         \/ /\ auth.op = "upgrade" /\ auth.epoch = 1 /\ TwoOfThree(auth)
            /\ auth.pred = Digest(p.update)
            /\ key = Owner(p) /\ HoldsId(auth.signers, id, key)
    ELSE /\ HoldsId(SignersOf(p), id, key)
         /\ \/ auth.op \in {"rotate", "ordinary"} /\ SameGovernance(p, auth)
            \/ auth.op = "replace" /\ Replaces(p, auth)

(* submit_identity, up to the consent: the update, then who signs it.      *)
Submits(u, drafted) ==
  IF u.auth = Legacy
    THEN store # <<>> => Owner(Newest) = u.owner /\ ~Governed(Newest)
    ELSE /\ u.auth.pred = IF store = <<>> THEN Zero ELSE Digest(Newest.update)
         /\ WellFormed(u.auth)
         /\ u.auth.op = "rotate" => drafted
         /\ (store # <<>> /\ u.auth.op # "rotate") => Owner(Newest) = u.owner

Proves(u, id, key) ==
  IF u.auth = Legacy
    THEN key = u.owner /\ id = NoId
    ELSE MaySign(Current, u.auth, id, key)

\* Mutant: a signer that a replacement removes may not sign it.
SignerMustRemain(u, key) ==
  IF u.auth = Legacy
    THEN key = u.owner
    ELSE WellFormed(u.auth)
         /\ (key \in Range(u.auth.signers) \/ u.auth.op = "rotate")

(* The signer's own check of the bytes it is given.                        *)
SignerAccepts(u, key) ==
  IF u.auth = Legacy
    THEN key = u.owner
    ELSE WellFormed(u.auth)
         /\ (key \in Range(u.auth.signers) \/ u.auth.op \in {"replace", "rotate"})

-----------------------------------------------------------------------------
Init == store = <<>> /\ bundle = Nil

Room == Len(store) < MaxStates

(* What a caller may propose.  The hash of an older state is refused just  *)
(* as the zero hash is.                                                    *)
Auths == [op : Operations, epoch : 1..MaxEpoch, threshold : 1..3,
          signers : SignerSets,
          pred : {Zero} \cup (IF store = <<>> THEN {} ELSE {Digest(Newest.update)})]

Collect(u, proofs) == bundle' = Bundle(Current, History, u, proofs)

(* create_draft.                                                           *)
CreateDraft(owner, auth) ==
  LET u == Update(owner, NextSeq, auth) IN
  /\ bundle = Nil
  /\ store # <<>> => Owner(Newest) = owner
  /\ Drafts(Current, History, u)
  /\ Collect(u, {}) /\ UNCHANGED store

(* create_owner_key_rotation_draft.                                        *)
RotationAuth(signers) ==
  IF Governed(Newest)
    THEN [Newest.update.auth EXCEPT !.op = "rotate", !.pred = Digest(Newest.update)]
    ELSE [op |-> "rotate", epoch |-> 1, threshold |-> 2, signers |-> signers,
          pred |-> Digest(Newest.update)]

CreateRotationDraft(successor, signers) ==
  /\ bundle = Nil /\ store # <<>>
  /\ successor # Owner(Newest)
  /\ LET u == Update(successor, NextSeq, RotationAuth(signers)) IN
     Drafts(Current, History, u) /\ Collect(u, {})
  /\ UNCHANGED store

(* sign_draft, from_submission and merge: the draft must stand on the      *)
(* state just read, and nobody proves twice.                               *)
Sign(id, key) ==
  /\ bundle # Nil
  /\ bundle.prev = Current /\ bundle.history = History
  /\ Submits(bundle.update, TRUE) /\ Proves(bundle.update, id, key)
  /\ SignerAccepts(bundle.update, key)
  /\ \A x \in bundle.proofs : x.id # id
  /\ bundle' = [bundle EXCEPT !.proofs = @ \cup {Proof(id, key)}]
  /\ UNCHANGED store

(* submit_identity without a draft.  A version-1 update, whose threshold is*)
(* never one, comes back as a draft with its first proof.                  *)
SubmitVersioned(owner, auth) ==
  LET u == Update(owner, NextSeq, auth) IN
  /\ bundle = Nil /\ auth.threshold > 1 /\ Submits(u, FALSE)
  /\ \E id \in Ids \cup {NoId}, key \in Keys :
       /\ Proves(u, id, key) /\ SignerAccepts(u, key)
       /\ Collect(u, {Proof(id, key)})
  /\ UNCHANGED store

(* put_identity_envelope: the Registry takes an envelope when its current  *)
(* state is the one the writer expects.                                    *)
Put(e) == store' = Append(store, e)

SubmitLegacy(owner) ==
  LET u == Update(owner, NextSeq, Legacy) IN
  /\ Submits(u, FALSE) /\ Proves(u, NoId, owner) /\ SignerAccepts(u, owner)
  /\ Put(Envelope(u, {Proof(NoId, owner)})) /\ UNCHANGED bundle

(* publish_bundle, and the dispatch of a rotation.                         *)
Publish ==
  /\ bundle # Nil /\ bundle.prev = Current /\ Finalizes(bundle)
  /\ Put(Envelope(bundle.update, bundle.proofs)) /\ UNCHANGED bundle

Discard == bundle # Nil /\ bundle' = Nil /\ UNCHANGED store

(* Another client.  Its envelope parses after the current state, as every  *)
(* reader has it, and takes the next sequence number, which the Registry   *)
(* sees to (docs/specs/wallet-implementation.md:271).  The bound is that   *)
(* it writes between two drafts of this host; drafts that have been        *)
(* overtaken are met after Publish and SubmitLegacy.                       *)
Signatures(auth) ==
  {Proof(i, auth.signers[i]) : i \in DOMAIN auth.signers}
    \cup (IF store # <<>> /\ Governed(Newest)
            THEN {Proof(i, SignersOf(Newest)[i]) : i \in DOMAIN SignersOf(Newest)}
            ELSE {Proof(NoId, k) : k \in Owners})

OtherUpdate(owner, auth) ==
  LET u == Update(owner, NextSeq, auth) IN
  /\ Room /\ bundle = Nil /\ WellFormed(auth) /\ TransitionParses(Current, u)
  /\ \E x, y \in Signatures(auth) :
       Accepts(Current, Envelope(u, {x, y})) /\ Put(Envelope(u, {x, y}))
  /\ UNCHANGED bundle

(* A legacy envelope of any owner key over any state: the parser asks no   *)
(* more than that this key signed it.                                      *)
OtherLegacy(owner) ==
  LET e == Envelope(Update(owner, NextSeq, Legacy), {Proof(NoId, owner)}) IN
  /\ Room /\ bundle = Nil
  /\ Accepts(Current, e) /\ Put(e)
  /\ UNCHANGED bundle

(* Every call of the adapter reads the accepted state first, and fails     *)
(* with it.                                                                *)
Adapter ==
  /\ Room /\ Readable
  /\ \/ \E owner \in Owners :
          \/ \E auth \in Auths \cup {Legacy} : CreateDraft(owner, auth)
          \/ \E auth \in Auths : SubmitVersioned(owner, auth)
          \/ \E signers \in SignerSets : CreateRotationDraft(owner, signers)
          \/ SubmitLegacy(owner)
     \/ \E id \in Ids \cup {NoId}, key \in Keys : Sign(id, key)
     \/ Publish

Next ==
  \/ Adapter
  \/ Discard
  \/ \E owner \in Owners, auth \in Auths : OtherUpdate(owner, auth)
  \/ \E owner \in Owners : OtherLegacy(owner)

Spec == Init /\ [][Next]_vars

-----------------------------------------------------------------------------
(* Every accepted envelope and every draft is an update with proofs.       *)
IsUpdate(u) ==
  /\ u.owner \in Owners /\ u.seq \in 1..MaxStates + 1
  /\ u.auth # Legacy =>
       /\ u.auth.op \in Operations /\ u.auth.epoch \in 1..MaxEpoch
       /\ u.auth.signers \in SignerSets

AreProofs(s) == s \subseteq [id : Ids \cup {NoId}, key : Keys]

TypeOK ==
  /\ Len(store) <= MaxStates
  /\ \A i \in DOMAIN store : IsUpdate(store[i].update) /\ AreProofs(store[i].proofs)
  /\ bundle # Nil => /\ IsUpdate(bundle.update) /\ AreProofs(bundle.proofs)
                     /\ bundle.prev \in {Nil} \cup Range(store)
                     /\ Range(bundle.history) \subseteq Range(store)

(* When a state stands soundly on the one before it, in terms of who       *)
(* signed it and not of operations: it names the one before it and comes   *)
(* with the signatures of the owner, or of two of the three signers, that  *)
(* the one before it names; governance is not given up, changes with a new *)
(* epoch only, and never together with the owner key.                      *)
Signed(e) == {x.key : x \in e.proofs}

SoundStep(p, e) ==
  /\ e.update.seq = p.update.seq + 1
  /\ IF Governed(p)
       THEN Governed(e) /\ \E j, k \in Signed(e) \cap Range(SignersOf(p)) : j # k
       ELSE Signed(e) = {Owner(p)}
  /\ IF ~Governed(e)
       THEN Owner(e) = Owner(p)
       ELSE /\ e.update.auth.pred = Digest(p.update)
            /\ TwoOfThree(e.update.auth)
            /\ ~Governed(p) => Owner(e) \in Range(SignersOf(e))
            /\ Governed(p) =>
                 \/ SignersOf(e) = SignersOf(p) /\ e.update.auth.epoch = p.update.auth.epoch
                 \/ /\ e.update.auth.epoch > p.update.auth.epoch
                    /\ Owner(e) = Owner(p)

SoundAnchor(e) ==
  /\ e.update.seq = 1
  /\ IF Governed(e)
       THEN TwoOfThree(e.update.auth)
            /\ \E j, k \in Signed(e) \cap Range(SignersOf(e)) : j # k
       ELSE Signed(e) = {Owner(e)}

SoundUpdate ==
  IF store = <<>> THEN SoundAnchor(Newest') ELSE SoundStep(Newest, Newest')

OwnWrite == Publish \/ \E owner \in Owners : SubmitLegacy(owner)

(* AcceptedSound: a version-1 state that the parser lets through, whoever  *)
(* wrote it (_parse_identity_envelope, identity.py:1179), and any state    *)
(* this library writes, legacy ones included ("Wallets do not downgrade",  *)
(* ADR 0001:34), stands soundly on the one before it.  Nothing is said of  *)
(* a legacy envelope by another client: the parser does not look at its    *)
(* predecessor (identity.py:1191), and refusing it is up to the Registry.  *)
AcceptedSound ==
  [][(store' # store /\ (Governed(Newest') \/ OwnWrite)) => SoundUpdate]_vars

(* SignedDraftsValid: the draft that comes back from a signature, from     *)
(* create_draft or from submit_identity, is one the constructor accepts:   *)
(* no signature is made, and no nonce spent, for an update that is thrown  *)
(* away afterwards (identity.py:2590).                                     *)
SignedDraftsValid ==
  bundle # Nil => Drafts(bundle.prev, bundle.history, bundle.update)

(* Who may prove a draft, in terms of the state it stands on.              *)
Authority ==
  LET p == bundle.prev  auth == bundle.update.auth IN
  IF auth = Legacy THEN {Proof(NoId, bundle.update.owner)}
  ELSE IF p = Nil THEN {Proof(i, auth.signers[i]) : i \in DOMAIN auth.signers}
  ELSE IF Governed(p) THEN {Proof(i, SignersOf(p)[i]) : i \in DOMAIN SignersOf(p)}
  ELSE IF auth.op = "rotate" THEN {Proof(NoId, Owner(p))}
  ELSE {Proof(i, Owner(p)) : i \in {j \in DOMAIN auth.signers : auth.signers[j] = Owner(p)}}

(* AuthorityServed: while a draft stands on the accepted state, everyone   *)
(* with authority over it can sign it, those it removes included: the      *)
(* adapter asks for the proof and the signer gives it (signer.py:127).     *)
AuthorityServed ==
  (bundle # Nil /\ Readable /\ bundle.prev = Current) =>
    \A x \in Authority :
      /\ Submits(bundle.update, TRUE) /\ Proves(bundle.update, x.id, x.key)
      /\ SignerAccepts(bundle.update, x.key)

(* AuthoritySuffices: once the proofs of the one owner, or of two signers, *)
(* are collected the bundle finalizes into an envelope that parses after   *)
(* its predecessor, and not before (IdentityBundle.finalize).              *)
AuthoritySuffices ==
  bundle # Nil =>
    (Finalizes(bundle) <=>
       /\ bundle.proofs \subseteq Authority
       /\ bundle.proofs # {}
       /\ Cardinality(Authority) > 1 => Cardinality(bundle.proofs) > 1)

(* Transitions: the accepted states since the newest one that needs no     *)
(* predecessor.                                                            *)
Transitions ==
  Cardinality({i \in DOMAIN store :
                 \A j \in i..Len(store) : NeedsPredecessor(store[j])})

(* ReadableToTheLimit: an Identity whose chain has at most Depth           *)
(* transitions is read by everyone, with its whole history                 *)
(* (_parse_state_with_history, identity.py:1638).                          *)
ReadableToTheLimit ==
  Transitions <= Depth => Readable /\ Len(History) = Transitions

(* BundlesWithinLimit: no bundle finalizes into a chain beyond the limit   *)
(* that a reader refuses (README.md:105: "chains exceeding 1,024           *)
(* transitions fail closed").                                              *)
BundlesWithinLimit ==
  (bundle # Nil /\ Finalizes(bundle) /\ bundle.update.auth # Legacy) =>
    Len(bundle.history) + (IF bundle.prev = Nil THEN 0 ELSE 1) <= Depth

=============================================================================
