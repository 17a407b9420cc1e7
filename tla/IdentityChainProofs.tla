------------------------- MODULE IdentityChainProofs -------------------------
(***************************************************************************)
(* That every version-1 state accepted, and every state the wallet writes, *)
(* stands soundly on the one before it, and that the wallet reads back     *)
(* what was accepted up to the depth it may follow, for any number of      *)
(* states, keys and signer sets.                                           *)
(*                                                                         *)
(* Reading is recursive.  FetchedForm gives the sequence of envelopes that *)
(* Fetched returns in closed form, by induction on the links followed, and *)
(* ReadExactly turns it into a statement about the anchor of the chain.    *)
(***************************************************************************)
EXTENDS IdentityChain, FiniteSetTheorems, WellFoundedInduction, TLAPS

(* Zenon proves the leaves that name no prover.                            *)
USE ZenonT(60)

IsAuth(auth) == WellFormed(auth) /\ DOMAIN auth.signers \subseteq Ids

SoundGovernance(p) ==
  (p # Nil /\ Governed(p)) => IsAuth(p.update.auth) /\ TwoOfThree(p.update.auth)

(* ChainInv: the inductive invariant.  The signer sets of what was         *)
(* accepted are well formed and two of three, so that two proofs are two   *)
(* signers'; and a draft in the making follows the state it was made on,   *)
(* which the parser does not ask of a legacy update, and holds proofs and  *)
(* nothing else.                                                           *)
ChainInv ==
  /\ store \in Seq(Range(store))
  /\ \A i \in DOMAIN store : store[i] # Nil /\ SoundGovernance(store[i])
  /\ bundle # Nil =>
       /\ bundle = Bundle(bundle.prev, bundle.history, bundle.update, bundle.proofs)
       /\ DraftFollows(bundle.prev, bundle.update)
       /\ bundle.update.auth # Legacy => IsAuth(bundle.update.auth)
       /\ SoundGovernance(bundle.prev)
       /\ \A x \in bundle.proofs : x = Proof(x.id, x.key)

-----------------------------------------------------------------------------
LEMMA TwoElements ==
  ASSUME NEW S, IsFiniteSet(S), Cardinality(S) >= 2
  PROVE  \E x, y \in S : x # y
<1>1. S # {}
  BY SMT, FS_EmptySet
<1>2. PICK x \in S : TRUE
  BY <1>1
<1>3. IsFiniteSet(S \ {x}) /\ Cardinality(S \ {x}) = Cardinality(S) - 1
  BY <1>2, FS_RemoveElement
<1>4. S \ {x} # {}
  BY SMT, <1>3, FS_EmptySet, FS_CardinalityType
<1>5. QED
  BY <1>2, <1>4

(* Enough distinct IDs, each with the key its signer set lists, are two    *)
(* different keys of that set.                                             *)
LEMMA TwoSigners ==
  ASSUME NEW keys, DOMAIN keys \subseteq Ids, IsInjective(keys),
         NEW proofs,
         \A x \in proofs : x.id \in DOMAIN keys /\ x.key = keys[x.id],
         Cardinality({x.id : x \in proofs}) >= 2
  PROVE  \E j, k \in {x.key : x \in proofs} \cap Range(keys) : j # k
<1>1. IsFiniteSet({x.id : x \in proofs})
  BY SMT, FS_Subset, ChainAssumption
<1>2. PICK i, j \in {x.id : x \in proofs} : i # j
  BY SMT, <1>1, TwoElements
<1>3. PICK x \in proofs : x.id = i
  BY <1>2
<1>4. PICK y \in proofs : y.id = j
  BY <1>2
<1>5. x.key # y.key
  BY <1>2, <1>3, <1>4 DEF IsInjective
<1>6. x.key \in Range(keys) /\ y.key \in Range(keys)
  BY <1>3, <1>4 DEF Range
<1>7. QED
  BY <1>5, <1>6

-----------------------------------------------------------------------------
(* A version-1 envelope that parses after a state stands soundly on it.    *)
LEMMA ParsedStepSound ==
  ASSUME NEW p, NEW e, p # Nil, Governed(e), Accepts(p, e),
         IsAuth(e.update.auth),
         Governed(p) => IsAuth(p.update.auth) /\ TwoOfThree(p.update.auth)
  PROVE  SoundStep(p, e)
<1> DEFINE auth == e.update.auth
           signedBy == {x.id : x \in e.proofs}
<1>1. TransitionParses(p, e.update) /\ ProofsParse(p, e)
  BY DEF Accepts
<1>2. CASE Governed(p)
  <2>1. auth.op \in {"ordinary", "replace", "rotate"} /\ TwoOfThree(auth)
    BY <1>1, <1>2 DEF TransitionParses, Replaces, SameGovernance, TwoOfThree, SignersOf
  <2>2. /\ VerificationKeys(p, auth) = SignersOf(p)
        /\ ~RotatesLegacy(p, auth) /\ auth.op # "upgrade" /\ auth.threshold = 2
    BY <1>2, <2>1 DEF VerificationKeys, RotatesLegacy, TwoOfThree
  <2>3. /\ \A x \in e.proofs : x.id \in DOMAIN SignersOf(p) /\ x.key = SignersOf(p)[x.id]
        /\ Cardinality(signedBy) >= 2
    BY <1>1, <2>2 DEF ProofsParse
  <2>4. \E j, k \in Signed(e) \cap Range(SignersOf(p)) : j # k
    BY <1>2, <2>3, TwoSigners DEF IsAuth, WellFormed, SignersOf, Signed
  <2>5. /\ e.update.seq = p.update.seq + 1 /\ auth.pred = Digest(p.update)
        /\ \/ SignersOf(e) = SignersOf(p) /\ auth.epoch = p.update.auth.epoch
           \/ auth.epoch > p.update.auth.epoch /\ Owner(e) = Owner(p)
    BY <1>1, <1>2 DEF TransitionParses, Follows, Replaces, SameGovernance, SignersOf, Owner
  <2>6. QED
    BY <1>2, <2>1, <2>4, <2>5 DEF SoundStep
<1>3. CASE ~Governed(p)
  <2>1. /\ e.update.seq = p.update.seq + 1 /\ auth.pred = Digest(p.update)
        /\ TwoOfThree(auth)
        /\ \/ auth.op = "upgrade" /\ Owner(p) = Owner(e)
           \/ auth.op = "rotate" /\ Owner(e) \in Range(SignersOf(e))
    BY <1>1, <1>3 DEF TransitionParses, Follows, Owner, SignersOf
  <2>2. CASE auth.op = "rotate"
    <3>1. e.proofs = {Proof(NoId, Owner(p))}
      BY <1>1, <1>3, <2>2 DEF ProofsParse, RotatesLegacy
    <3>2. Signed(e) = {Owner(p)}
      BY SMT, <3>1 DEF Signed, Proof
    <3>3. QED
      BY <1>3, <2>1, <2>2, <3>2 DEF SoundStep
  <2>3. CASE auth.op = "upgrade"
    <3>1. VerificationKeys(p, auth) = auth.signers /\ ~RotatesLegacy(p, auth)
      BY <2>3 DEF VerificationKeys, RotatesLegacy
    <3>2. PICK i \in DOMAIN auth.signers : signedBy = {i} /\ auth.signers[i] = Owner(e)
      BY <1>1, <2>3, <3>1 DEF ProofsParse
    <3>3. \A x \in e.proofs : x.id \in DOMAIN auth.signers /\ x.key = auth.signers[x.id]
      BY <1>1, <2>3, <3>1 DEF ProofsParse
    <3>4. Signed(e) = {Owner(e)}
      <4>1. \A x \in e.proofs : x.key = Owner(e)
        BY <3>2, <3>3
      <4>2. \E x \in e.proofs : TRUE
        BY <3>2
      <4>3. QED
        BY <4>1, <4>2 DEF Signed
    <3>5. Owner(e) \in Range(SignersOf(e))
      BY <3>2 DEF Range, SignersOf
    <3>6. QED
      BY <1>3, <2>1, <2>3, <3>4, <3>5 DEF SoundStep
  <2>4. QED
    BY <2>1, <2>2, <2>3
<1>4. QED
  BY <1>2, <1>3

(* A first envelope that parses is a sound anchor, given its sequence.     *)
LEMMA ParsedAnchorSound ==
  ASSUME NEW e, Accepts(Nil, e), Governed(e) => IsAuth(e.update.auth),
         e.update.seq = 1
  PROVE  SoundAnchor(e)
<1>1. CASE ~Governed(e)
  <2>1. Signed(e) = {Owner(e)}
    <3>1. e.proofs = {Proof(NoId, Owner(e))}
      BY <1>1 DEF Accepts
    <3>2. QED
      BY SMT, <3>1 DEF Signed, Proof
  <2>2. QED
    BY <1>1, <2>1 DEF SoundAnchor
<1>2. CASE Governed(e)
  <2>1. /\ e.update.auth.op = "genesis" /\ TwoOfThree(e.update.auth)
        /\ ProofsParse(Nil, e)
    BY <1>2 DEF Accepts, TransitionParses
  <2>2. /\ VerificationKeys(Nil, e.update.auth) = SignersOf(e)
        /\ ~RotatesLegacy(Nil, e.update.auth) /\ e.update.auth.threshold = 2
    BY <2>1 DEF VerificationKeys, RotatesLegacy, SignersOf, TwoOfThree
  <2>3. /\ \A x \in e.proofs : x.id \in DOMAIN SignersOf(e) /\ x.key = SignersOf(e)[x.id]
        /\ Cardinality({x.id : x \in e.proofs}) >= 2
    BY <2>1, <2>2 DEF ProofsParse
  <2>4. \E j, k \in Signed(e) \cap Range(SignersOf(e)) : j # k
    BY <1>2, <2>3, TwoSigners DEF IsAuth, WellFormed, SignersOf, Signed
  <2>5. QED
    BY <1>2, <2>1, <2>4 DEF SoundAnchor
<1>3. QED
  BY <1>1, <1>2

-----------------------------------------------------------------------------
(* What the invariant says of the state an update is made on.              *)
LEMMA CurrentState ==
  ASSUME ChainInv
  PROVE  /\ Current = Nil <=> store = <<>>
         /\ NextSeq = IF Current = Nil THEN 1 ELSE Current.update.seq + 1
         /\ SoundGovernance(Current)
<1>1. CASE store = <<>>
  BY <1>1 DEF Current, NextSeq, SoundGovernance
<1>2. CASE store # <<>>
  <2>1. Len(store) \in DOMAIN store /\ Current = store[Len(store)]
    BY SMT, <1>2 DEF ChainInv, Current, Newest
  <2>2. Current # Nil /\ NextSeq = Current.update.seq + 1
    BY <1>2, <2>1 DEF ChainInv, NextSeq, Newest
  <2>3. QED
    BY <1>2, <2>1, <2>2 DEF ChainInv
<1>3. QED
  BY <1>1, <1>2

(* Appending an envelope whose governance is sound.                        *)
LEMMA PutInv ==
  ASSUME ChainInv, NEW u, NEW proofs, Put(Envelope(u, proofs)),
         u.auth # Legacy => IsAuth(u.auth) /\ TwoOfThree(u.auth),
         UNCHANGED bundle
  PROVE  ChainInv' /\ Newest' = Envelope(u, proofs) /\ store' # store
<1> DEFINE e == Envelope(u, proofs)
           n == Len(store)
<1>1. e # Nil /\ e.update = u
  BY SMT DEF Envelope, Nil
<1> HIDE DEF e
<1>2. /\ store' \in Seq(Range(store) \cup {e}) /\ Len(store') = n + 1 /\ n \in Nat
      /\ DOMAIN store = 1..n /\ DOMAIN store' = 1..(n + 1)
      /\ \A i \in 1..n : store'[i] = store[i]
      /\ store'[n + 1] = e
  BY SMT DEF ChainInv, Put, e
<1>3. store' \in Seq(Range(store'))
  BY SMT, <1>2 DEF Range
<1>4. SoundGovernance(e)
  BY <1>1 DEF SoundGovernance, Governed
<1>5. \A i \in DOMAIN store' : store'[i] # Nil /\ SoundGovernance(store'[i])
  <2>1. \A i \in DOMAIN store' : i \in DOMAIN store \/ i = n + 1
    BY SMT, <1>2
  <2>2. QED
    BY <1>1, <1>2, <1>4, <2>1 DEF ChainInv
<1>6. Newest' = e /\ store' # store
  BY SMT, <1>2 DEF Newest
<1>7. QED
  BY <1>3, <1>5, <1>6 DEF ChainInv, e

(* A sound envelope is a sound update.                                     *)
LEMMA PutSound ==
  ASSUME ChainInv, NEW u, NEW proofs, Put(Envelope(u, proofs)),
         u.auth # Legacy => IsAuth(u.auth),
         IF Current = Nil THEN SoundAnchor(Envelope(u, proofs))
                          ELSE SoundStep(Current, Envelope(u, proofs)),
         UNCHANGED bundle
  PROVE  ChainInv' /\ SoundUpdate
<1> DEFINE e == Envelope(u, proofs)
<1>1. e.update = u
  BY DEF Envelope
<1> HIDE DEF e
<1>2. u.auth # Legacy => TwoOfThree(u.auth)
  BY <1>1 DEF SoundAnchor, SoundStep, Governed, e
<1>3. ChainInv' /\ Newest' = e
  BY <1>2, PutInv DEF e
<1>4. SoundUpdate
  BY <1>3, CurrentState DEF SoundUpdate, Current, e
<1>5. QED
  BY <1>3, <1>4

(* A draft that follows the accepted state, with the proofs that make its  *)
(* envelope parse, is sound.                                               *)
LEMMA DraftSound ==
  ASSUME ChainInv, NEW u, NEW proofs,
         DraftFollows(Current, u), u.auth # Legacy => IsAuth(u.auth),
         Accepts(Current, Envelope(u, proofs))
  PROVE  IF Current = Nil THEN SoundAnchor(Envelope(u, proofs))
                          ELSE SoundStep(Current, Envelope(u, proofs))
<1> DEFINE e == Envelope(u, proofs)
<1>1. e.update = u /\ (Governed(e) <=> u.auth # Legacy)
  BY DEF Envelope, Governed
<1> HIDE DEF e
<1>2. CASE Current = Nil
  <2>1. u.seq = 1
    BY <1>2 DEF DraftFollows
  <2>2. QED
    BY <1>1, <1>2, <2>1, ParsedAnchorSound DEF e
<1>3. CASE Current # Nil /\ Governed(e)
  BY <1>1, <1>3, CurrentState, ParsedStepSound DEF e, SoundGovernance
<1>4. CASE Current # Nil /\ ~Governed(e)
  <2>1. ~Governed(Current) /\ u.owner = Owner(Current) /\ u.seq = Current.update.seq + 1
    BY <1>1, <1>4 DEF DraftFollows
  <2>2. Signed(e) = {Owner(Current)}
    <3>1. e.proofs = {Proof(NoId, Owner(Current))}
      BY <1>1, <1>4, <2>1 DEF Accepts, Owner, e
    <3>2. QED
      BY SMT, <3>1 DEF Signed, Proof
  <2>3. QED
    BY <1>1, <1>4, <2>1, <2>2 DEF SoundStep, Owner, e
<1>5. QED
  BY <1>2, <1>3, <1>4

(* A draft that starts its collection of proofs follows the accepted state.*)
LEMMA CollectSound ==
  ASSUME ChainInv, NEW u, NEW proofs, Collect(u, proofs), UNCHANGED store,
         \A x \in proofs : x = Proof(x.id, x.key),
         DraftFollows(Current, u), u.auth # Legacy => IsAuth(u.auth)
  PROVE  ChainInv'
<1>1. /\ bundle' = Bundle(Current, History, u, proofs)
      /\ bundle'.prev = Current /\ bundle'.update = u
      /\ bundle'.history = History /\ bundle'.proofs = proofs
  BY DEF Collect, Bundle
<1>2. DraftFollows(bundle'.prev, bundle'.update)
  BY <1>1
<1>3. QED
  BY <1>1, <1>2, CurrentState DEF ChainInv

-----------------------------------------------------------------------------
LEMMA CreateDraftInv ==
  ASSUME ChainInv, NEW owner, NEW auth \in Auths \cup {Legacy},
         CreateDraft(owner, auth)
  PROVE  ChainInv'
<1> DEFINE u == Update(owner, NextSeq, auth)
<1>1. u.auth = auth
  BY DEF Update
<1>2. Drafts(Current, History, u) /\ Collect(u, {}) /\ UNCHANGED store
  BY DEF CreateDraft
<1>3. u.auth # Legacy => IsAuth(u.auth)
  BY <1>1, <1>2, ChainAssumption DEF Drafts, IsAuth, Auths
<1>4. DraftFollows(Current, u)
  BY <1>2 DEF Drafts
<1> HIDE DEF u
<1>5. QED
  BY SMT, <1>2, <1>3, <1>4, CollectSound

LEMMA CreateRotationDraftInv ==
  ASSUME ChainInv, NEW successor, NEW signers \in SignerSets,
         CreateRotationDraft(successor, signers)
  PROVE  ChainInv'
<1> DEFINE u == Update(successor, NextSeq, RotationAuth(signers))
<1>1. u.auth = RotationAuth(signers)
  BY DEF Update
<1>2. Drafts(Current, History, u) /\ Collect(u, {}) /\ UNCHANGED store
  BY DEF CreateRotationDraft
<1>3. DraftFollows(Current, u) /\ (u.auth # Legacy => WellFormed(u.auth))
  BY <1>2 DEF Drafts
<1>4. ASSUME u.auth # Legacy PROVE DOMAIN u.auth.signers \subseteq Ids
  <2>1. Current # Nil /\ Current = Newest
    BY CurrentState DEF CreateRotationDraft, Current
  <2>2. CASE Governed(Newest)
    <3>1. u.auth.signers = SignersOf(Current) \/ u.auth.op = "replace"
      BY <1>3, <1>4, <2>1, <2>2 DEF DraftFollows, SameGovernance
    <3>2. u.auth.op = "rotate"
      BY <1>3, <1>4, <2>1 DEF DraftFollows, CreateRotationDraft, Update
    <3>3. QED
      BY <2>1, <2>2, <3>1, <3>2, CurrentState DEF IsAuth, SignersOf, SoundGovernance
  <2>3. CASE ~Governed(Newest)
    BY SMT, <1>1, <2>3, ChainAssumption DEF RotationAuth
  <2>4. QED
    BY <2>2, <2>3
<1> HIDE DEF u
<1>5. QED
  BY SMT, <1>2, <1>3, <1>4, CollectSound DEF IsAuth

LEMMA SubmitVersionedInv ==
  ASSUME ChainInv, NEW owner, NEW auth \in Auths, SubmitVersioned(owner, auth)
  PROVE  ChainInv'
<1> DEFINE u == Update(owner, NextSeq, auth)
<1>1. u.auth = auth /\ u.owner = owner /\ u.seq = NextSeq
  BY DEF Update
<1>2. PICK id, key : Proves(u, id, key) /\ Collect(u, {Proof(id, key)})
  BY DEF SubmitVersioned
<1>3. Submits(u, FALSE) /\ UNCHANGED store
  BY DEF SubmitVersioned
<1> HIDE DEF u
<1>4. auth # Legacy
  BY SMT DEF Auths, Legacy
<1>5. /\ MaySign(Current, auth, id, key) /\ WellFormed(auth) /\ auth.op # "rotate"
      /\ store # <<>> => auth.pred = Digest(Current.update) /\ Owner(Current) = owner
  BY <1>1, <1>2, <1>3, <1>4 DEF Proves, Submits, Current
<1>6. IsAuth(auth)
  BY <1>5, ChainAssumption DEF IsAuth, Auths
<1>7. DraftFollows(Current, u)
  <2>1. CASE Current = Nil
    BY <1>1, <1>4, <1>5, <2>1, CurrentState DEF DraftFollows, MaySign
  <2>2. CASE Current # Nil /\ ~Governed(Current)
    <3>1. /\ auth.op = "upgrade" /\ auth.epoch = 1 /\ TwoOfThree(auth)
          /\ owner \in Range(auth.signers)
      BY <1>5, <2>2, CurrentState DEF MaySign, HoldsId, Range
    <3>2. QED
      BY <1>1, <1>4, <1>5, <2>2, <3>1, CurrentState DEF DraftFollows
  <2>3. CASE Current # Nil /\ Governed(Current)
    BY <1>1, <1>4, <1>5, <2>3, CurrentState DEF DraftFollows, MaySign
  <2>4. QED
    BY <2>1, <2>2, <2>3
<1>8. QED
  <2>1. \A x \in {Proof(id, key)} : x = Proof(x.id, x.key)
    BY SMT DEF Proof
  <2>2. QED
    BY SMT, <1>1, <1>2, <1>3, <1>6, <1>7, <2>1, CollectSound

LEMMA SignInv ==
  ASSUME ChainInv, NEW id, NEW key, Sign(id, key)
  PROVE  ChainInv'
<1>1. bundle # Nil /\ UNCHANGED store
  BY DEF Sign
<1>2. bundle' = Bundle(bundle.prev, bundle.history, bundle.update,
                       bundle.proofs \cup {Proof(id, key)})
  BY <1>1 DEF Sign, ChainInv, Bundle
<1>3. /\ bundle'.prev = bundle.prev /\ bundle'.update = bundle.update
      /\ bundle' = Bundle(bundle'.prev, bundle'.history, bundle'.update, bundle'.proofs)
  BY <1>2 DEF Bundle
<1>4. DraftFollows(bundle'.prev, bundle'.update) /\ SoundGovernance(bundle'.prev)
  BY <1>1, <1>3 DEF ChainInv
<1>5. \A x \in bundle'.proofs : x = Proof(x.id, x.key)
  <2>1. bundle'.proofs = bundle.proofs \cup {Proof(id, key)}
    BY <1>2 DEF Bundle
  <2>2. \A x \in {Proof(id, key)} : x = Proof(x.id, x.key)
    BY SMT DEF Proof
  <2>3. QED
    BY <1>1, <2>1, <2>2 DEF ChainInv
<1>6. QED
  BY <1>1, <1>3, <1>4, <1>5 DEF ChainInv

LEMMA SubmitLegacyInv ==
  ASSUME ChainInv, NEW owner, SubmitLegacy(owner)
  PROVE  ChainInv' /\ SoundUpdate
<1> DEFINE u == Update(owner, NextSeq, Legacy)
           proofs == {Proof(NoId, owner)}
<1>1. u.auth = Legacy /\ u.owner = owner /\ u.seq = NextSeq
  BY DEF Update
<1>2. Submits(u, FALSE) /\ Put(Envelope(u, proofs)) /\ UNCHANGED bundle
  BY DEF SubmitLegacy
<1>3. Accepts(Current, Envelope(u, proofs))
  BY <1>1 DEF Accepts, Envelope, Governed, Owner
<1> HIDE DEF u, proofs
<1>4. DraftFollows(Current, u)
  BY <1>1, <1>2, CurrentState DEF DraftFollows, Submits, Current
<1>5. QED
  BY <1>1, <1>2, <1>3, <1>4, DraftSound, PutSound

LEMMA PublishInv ==
  ASSUME ChainInv, Publish
  PROVE  ChainInv' /\ SoundUpdate
<1>1. /\ Accepts(Current, Envelope(bundle.update, bundle.proofs))
      /\ DraftFollows(Current, bundle.update)
      /\ bundle.update.auth # Legacy => IsAuth(bundle.update.auth)
      /\ Put(Envelope(bundle.update, bundle.proofs)) /\ UNCHANGED bundle
  BY DEF Publish, Finalizes, ChainInv
<1>2. QED
  BY <1>1, DraftSound, PutSound

LEMMA OtherUpdateInv ==
  ASSUME ChainInv, NEW owner, NEW auth \in Auths, OtherUpdate(owner, auth)
  PROVE  ChainInv' /\ SoundUpdate
<1> DEFINE u == Update(owner, NextSeq, auth)
<1>1. u.auth = auth /\ u.seq = NextSeq
  BY DEF Update
<1>2. PICK x, y : Accepts(Current, Envelope(u, {x, y})) /\ Put(Envelope(u, {x, y}))
  BY DEF OtherUpdate
<1>3. WellFormed(auth) /\ UNCHANGED bundle
  BY DEF OtherUpdate
<1> DEFINE e == Envelope(u, {x, y})
<1>4. e.update = u
  BY DEF Envelope
<1> HIDE DEF u
<1>5. auth # Legacy /\ IsAuth(auth)
  BY SMT, <1>3, ChainAssumption DEF IsAuth, Auths, Legacy
<1>6. Governed(e) /\ Accepts(Current, e)
  BY <1>1, <1>2, <1>4, <1>5 DEF Governed
<1> HIDE DEF e
<1>7. CASE Current = Nil
  <2>1. SoundAnchor(e)
    BY <1>1, <1>4, <1>5, <1>6, <1>7, CurrentState, ParsedAnchorSound
  <2>2. QED
    BY <1>1, <1>2, <1>3, <1>5, <1>7, <2>1, PutSound DEF e
<1>8. CASE Current # Nil
  <2>1. SoundStep(Current, e)
    BY <1>1, <1>4, <1>5, <1>6, <1>8, CurrentState, ParsedStepSound DEF SoundGovernance
  <2>2. QED
    BY <1>1, <1>2, <1>3, <1>5, <1>8, <2>1, PutSound DEF e
<1>9. QED
  BY <1>7, <1>8

(* Another client's legacy update has no governance to be sound.           *)
LEMMA OtherLegacyInv ==
  ASSUME ChainInv, NEW owner, OtherLegacy(owner)
  PROVE  ChainInv' /\ ~Governed(Newest')
<1> DEFINE u == Update(owner, NextSeq, Legacy)
<1>1. u.auth = Legacy
  BY DEF Update
<1>2. Put(Envelope(u, {Proof(NoId, owner)})) /\ UNCHANGED bundle
  BY DEF OtherLegacy
<1>3. Envelope(u, {Proof(NoId, owner)}).update = u
  BY DEF Envelope
<1> HIDE DEF u
<1>4. ChainInv' /\ Newest' = Envelope(u, {Proof(NoId, owner)})
  BY <1>1, <1>2, PutInv
<1>5. QED
  BY <1>1, <1>3, <1>4 DEF Governed

-----------------------------------------------------------------------------
LEMMA ChainNext ==
  ASSUME ChainInv, [Next]_vars
  PROVE  /\ ChainInv'
         /\ (store' # store /\ (Governed(Newest') \/ OwnWrite)) => SoundUpdate
<1>1. CASE Adapter
  <2>1. ChainInv'
    BY <1>1, CreateDraftInv, SubmitVersionedInv, CreateRotationDraftInv,
       SubmitLegacyInv, SignInv, PublishInv DEF Adapter
  <2>2. store' = store \/ OwnWrite
    BY <1>1 DEF Adapter, CreateDraft, SubmitVersioned, CreateRotationDraft, Sign,
       OwnWrite
  <2>3. OwnWrite => SoundUpdate
    BY SubmitLegacyInv, PublishInv DEF OwnWrite
  <2>4. QED
    BY <2>1, <2>2, <2>3
<1>2. CASE Discard \/ UNCHANGED vars
  BY <1>2 DEF Discard, vars, ChainInv
<1>3. CASE \E owner \in Owners, auth \in Auths : OtherUpdate(owner, auth)
  BY <1>3, OtherUpdateInv
<1>4. CASE \E owner \in Owners : OtherLegacy(owner)
  BY <1>4, OtherLegacyInv, SubmitLegacyInv, PublishInv DEF OwnWrite
<1>5. QED
  BY <1>1, <1>2, <1>3, <1>4 DEF Next

(* ChainInv is an invariant of every behaviour.                            *)
THEOREM ChainInvariant == Spec => []ChainInv
<1>1. Init => ChainInv
  BY SMT DEF Init, ChainInv, Range
<1>2. ChainInv /\ [Next]_vars => ChainInv'
  BY ChainNext
<1>3. QED
  BY <1>1, <1>2, PTL DEF Spec

(* Every version-1 state that _parse_identity_envelope lets through was    *)
(* signed by the signers, or the owner, of the state before it, whoever    *)
(* wrote it, and so is every state of this library, a legacy one included: *)
(* for any number of states, keys and signer sets, and whatever legacy     *)
(* envelopes other clients put in between.                                 *)
THEOREM AcceptedIsSound == Spec => AcceptedSound
<1>1. ChainInv /\ [Next]_vars =>
        [(store' # store /\ (Governed(Newest') \/ OwnWrite)) => SoundUpdate]_vars
  BY ChainNext
<1>2. QED
  BY <1>1, ChainInvariant, PTL DEF Spec, AcceptedSound

-----------------------------------------------------------------------------
(* Everyone with authority over a draft on the accepted state can sign it: *)
(* the adapter's _validate_transition and the signer's own check let them. *)
THEOREM AuthorityIsServed == Spec => []AuthorityServed
<1>1. ASSUME ChainInv PROVE AuthorityServed
  <2> SUFFICES ASSUME bundle # Nil, bundle.prev = Current, NEW x \in Authority
               PROVE  /\ Submits(bundle.update, TRUE)
                      /\ Proves(bundle.update, x.id, x.key)
                      /\ SignerAccepts(bundle.update, x.key)
    BY DEF AuthorityServed
  <2> DEFINE u == bundle.update
             auth == u.auth
             p == Current
  <2>1. /\ DraftFollows(p, u) /\ (auth # Legacy => IsAuth(auth))
        /\ SoundGovernance(p) /\ (p = Nil <=> store = <<>>)
        /\ p # Nil => p = Newest
    BY <1>1, CurrentState DEF ChainInv, Current
  <2>2. CASE auth = Legacy
    <3>1. x.id = NoId /\ x.key = u.owner
      BY SMT, <2>2 DEF Authority, Proof
    <3>2. Submits(u, TRUE)
      BY <2>1, <2>2 DEF DraftFollows, Submits
    <3>3. QED
      BY <2>2, <3>1, <3>2 DEF Proves, SignerAccepts
  <2>3. CASE auth # Legacy
    <3>1. Submits(u, TRUE)
      BY <2>1, <2>3 DEF DraftFollows, Submits, IsAuth, Owner
    <3>2. CASE p = Nil
      <4>1. PICK i \in DOMAIN auth.signers : x = Proof(i, auth.signers[i])
        BY <2>3, <3>2 DEF Authority
      <4>2. HoldsId(auth.signers, x.id, x.key) /\ x.key \in Range(auth.signers)
        BY <4>1 DEF Proof, HoldsId, Range
      <4>3. QED
        BY <2>1, <2>3, <3>1, <3>2, <4>2
           DEF DraftFollows, Proves, MaySign, SignerAccepts, IsAuth
    <3>3. CASE p # Nil /\ Governed(p)
      <4>1. PICK i \in DOMAIN SignersOf(p) : x = Proof(i, SignersOf(p)[i])
        BY <2>3, <3>3 DEF Authority
      <4>2. HoldsId(SignersOf(p), x.id, x.key) /\ x.key \in Range(SignersOf(p))
        BY <4>1 DEF Proof, HoldsId, Range
      <4>3. \/ auth.op \in {"rotate", "ordinary"} /\ SameGovernance(p, auth)
            \/ auth.op = "replace" /\ Replaces(p, auth)
        BY <2>1, <2>3, <3>3 DEF DraftFollows
      <4>4. Proves(u, x.id, x.key)
        BY <2>3, <3>3, <4>2, <4>3 DEF Proves, MaySign
      <4>5. SignerAccepts(u, x.key)
        BY <2>1, <2>3, <4>2, <4>3 DEF SignerAccepts, SameGovernance, IsAuth
      <4>6. QED
        BY <3>1, <4>4, <4>5
    <3>4. CASE p # Nil /\ ~Governed(p) /\ auth.op = "rotate"
      <4>1. x.id = NoId /\ x.key = Owner(p)
        BY SMT, <2>3, <3>4 DEF Authority, Proof
      <4>2. QED
        BY <2>1, <2>3, <3>1, <3>4, <4>1
           DEF DraftFollows, Proves, MaySign, SignerAccepts, IsAuth
    <3>5. CASE p # Nil /\ ~Governed(p) /\ auth.op # "rotate"
      <4>1. PICK i \in DOMAIN auth.signers :
              auth.signers[i] = Owner(p) /\ x = Proof(i, Owner(p))
        BY <2>3, <3>5 DEF Authority
      <4>2. /\ HoldsId(auth.signers, x.id, x.key) /\ x.key \in Range(auth.signers)
            /\ x.key = Owner(p)
        BY <4>1 DEF Proof, HoldsId, Range
      <4>3. QED
        BY <2>1, <2>3, <3>1, <3>5, <4>2
           DEF DraftFollows, Proves, MaySign, SignerAccepts, IsAuth
    <3>6. QED
      BY <3>2, <3>3, <3>4, <3>5
  <2>4. QED
    BY <2>2, <2>3
<1>2. QED
  BY <1>1, ChainInvariant, PTL

-----------------------------------------------------------------------------
LEMMA TwoOrMore ==
  ASSUME NEW S, IsFiniteSet(S)
  PROVE  /\ Cardinality(S) >= 2 <=> \E x, y \in S : x # y
         /\ Cardinality(S) > 1 <=> \E x, y \in S : x # y
<1>1. Cardinality(S) \in Nat
  BY FS_CardinalityType
<1>2. ASSUME NEW x \in S, NEW y \in S, x # y PROVE Cardinality(S) >= 2
  <2>1. IsFiniteSet(S \ {x}) /\ Cardinality(S \ {x}) = Cardinality(S) - 1
    BY FS_RemoveElement
  <2>2. Cardinality(S \ {x}) # 0
    BY SMT, <1>2, <2>1, FS_EmptySet
  <2>3. QED
    BY SMT, <1>1, <2>1, <2>2, FS_CardinalityType
<1>3. QED
  BY SMT, <1>1, <1>2, TwoElements

IdsOf(proofs) == {x.id : x \in proofs}
ProofsOf(keys) == {Proof(i, keys[i]) : i \in DOMAIN keys}

(* Of a signer set of three, proofs by two signers are two proofs.         *)
LEMMA TwoProofs ==
  ASSUME NEW keys, DOMAIN keys \subseteq Ids, Cardinality(DOMAIN keys) = 3,
         NEW proofs, \A x \in proofs : x = Proof(x.id, x.key)
  PROVE  /\ proofs \subseteq ProofsOf(keys) <=>
              \A x \in proofs : x.id \in DOMAIN keys /\ x.key = keys[x.id]
         /\ Cardinality(ProofsOf(keys)) > 1
         /\ proofs \subseteq ProofsOf(keys) =>
              /\ DistinctIds(proofs)
              /\ Cardinality(IdsOf(proofs)) >= 2 <=> Cardinality(proofs) > 1
<1>1. \A i, k : Proof(i, k).id = i /\ Proof(i, k).key = k
  BY DEF Proof
<1> DEFINE all == ProofsOf(keys)
<1>0. all = {Proof(i, keys[i]) : i \in DOMAIN keys}
  BY DEF ProofsOf
<1> HIDE DEF all
<1>2. IsFiniteSet(DOMAIN keys)
  BY ChainAssumption, FS_Subset
<1>3. IsFiniteSet(all)
  <2> DEFINE f == [i \in DOMAIN keys |-> Proof(i, keys[i])]
  <2>1. f \in Surjection(DOMAIN keys, all)
    BY <1>0 DEF Surjection
  <2>2. QED
    BY <1>2, <2>1, FS_Surjection
<1>4. proofs \subseteq all <=>
        \A x \in proofs : x.id \in DOMAIN keys /\ x.key = keys[x.id]
  <2>1. ASSUME proofs \subseteq all, NEW x \in proofs
        PROVE  x.id \in DOMAIN keys /\ x.key = keys[x.id]
    <3>1. PICK i \in DOMAIN keys : x = Proof(i, keys[i])
      BY <1>0, <2>1
    <3>2. QED
      BY SMT, <1>1, <3>1
  <2>2. ASSUME \A x \in proofs : x.id \in DOMAIN keys /\ x.key = keys[x.id],
               NEW x \in proofs
        PROVE  x \in all
    <3>1. x = Proof(x.id, keys[x.id]) /\ x.id \in DOMAIN keys
      BY <2>2
    <3>2. QED
      BY <1>0, <3>1
  <2>3. QED
    BY <2>1, <2>2
<1>5. Cardinality(all) > 1
  <2>1. PICK i, j \in DOMAIN keys : i # j
    BY SMT, <1>2, TwoElements
  <2>2. Proof(i, keys[i]) # Proof(j, keys[j])
    BY SMT, <1>1, <2>1
  <2>3. QED
    BY <1>0, <1>3, <2>1, <2>2, TwoOrMore
<1>6. ASSUME proofs \subseteq all
      PROVE  /\ DistinctIds(proofs)
             /\ Cardinality(IdsOf(proofs)) >= 2 <=> Cardinality(proofs) > 1
  <2>1. DistinctIds(proofs)
    BY <1>4, <1>6 DEF DistinctIds
  <2>2. IsFiniteSet(proofs) /\ IsFiniteSet(IdsOf(proofs))
    BY SMT, <1>2, <1>3, <1>4, <1>6, FS_Subset DEF IdsOf
  <2>3. (\E i, j \in IdsOf(proofs) : i # j) <=> (\E x, y \in proofs : x # y)
    <3>1. ASSUME NEW i \in IdsOf(proofs), NEW j \in IdsOf(proofs), i # j
          PROVE  \E x, y \in proofs : x # y
      BY <3>1 DEF IdsOf
    <3>2. ASSUME NEW x \in proofs, NEW y \in proofs, x # y
          PROVE  \E i, j \in IdsOf(proofs) : i # j
      <4>1. x.id # y.id
        BY <2>1, <3>2 DEF DistinctIds
      <4>2. QED
        BY <4>1 DEF IdsOf
    <3>3. QED
      BY <3>1, <3>2
  <2>4. Cardinality(proofs) > 1 <=> \E x, y \in proofs : x # y
    BY SMT, <2>2, TwoOrMore
  <2>5. Cardinality(IdsOf(proofs)) >= 2 <=> \E i, j \in IdsOf(proofs) : i # j
    BY SMT, <2>2, TwoOrMore
  <2>6. QED
    BY <2>1, <2>3, <2>4, <2>5
<1>7. QED
  BY <1>4, <1>5, <1>6 DEF all

(* One authorized proof, and no other, is the whole of its bundle.         *)
LEMMA OneProof ==
  ASSUME NEW proofs, NEW a
  PROVE  /\ Cardinality({a}) = 1 /\ DistinctIds({a})
         /\ proofs = {a} <=> (proofs \subseteq {a} /\ proofs # {})
  BY SMT, FS_Singleton DEF DistinctIds

(* A draft that follows a state is one the parser takes after it, once the *)
(* proofs are right.                                                       *)
LEMMA DraftParses ==
  ASSUME NEW p, NEW u, u.auth # Legacy, DraftFollows(p, u)
  PROVE  TransitionParses(p, u)
<1>1. CASE p = Nil
  BY <1>1 DEF DraftFollows, TransitionParses
<1>2. CASE p # Nil /\ Governed(p)
  BY <1>2 DEF DraftFollows, TransitionParses, Follows
<1>3. CASE p # Nil /\ ~Governed(p)
  BY <1>3 DEF DraftFollows, TransitionParses, Follows
<1>4. QED
  BY <1>1, <1>2, <1>3

(* A bundle finalizes exactly when it holds the proof of the one owner, or *)
(* those of two of the three signers, that the state before it names: what *)
(* IdentityBundle.finalize asks and what _parse_identity_envelope asks of  *)
(* the result are the same.                                                *)
THEOREM AuthorityIsEnough == Spec => []AuthoritySuffices
<1>1. ASSUME ChainInv PROVE AuthoritySuffices
  <2> DEFINE p == bundle.prev
             u == bundle.update
             auth == u.auth
             proofs == bundle.proofs
             e == Envelope(u, proofs)
             Enough == /\ proofs \subseteq Authority /\ proofs # {}
                       /\ Cardinality(Authority) > 1 => Cardinality(proofs) > 1
  <2> SUFFICES ASSUME bundle # Nil PROVE Finalizes(bundle) <=> Enough
    BY DEF AuthoritySuffices
  <2>1. /\ DraftFollows(p, u) /\ (auth # Legacy => IsAuth(auth))
        /\ SoundGovernance(p) /\ \A x \in proofs : x = Proof(x.id, x.key)
    BY <1>1 DEF ChainInv
  <2>2. e.update = u /\ e.proofs = proofs /\ (Governed(e) <=> auth # Legacy)
        /\ Owner(e) = u.owner
    BY DEF Envelope, Governed, Owner
  <2>3. CASE auth = Legacy
    <3>1. Authority = {Proof(NoId, u.owner)}
      BY <2>3 DEF Authority
    <3>2. Enough <=> proofs = {Proof(NoId, u.owner)}
      <4>0. Cardinality(Authority) = 1
        BY <3>1, OneProof
      <4>1. ~(Cardinality(Authority) > 1)
        BY SMT, <4>0
      <4>2. proofs = Authority <=> proofs \subseteq Authority /\ proofs # {}
        BY <3>1, OneProof
      <4> QED
        BY <3>1, <4>1, <4>2
    <3>3. Finalizes(bundle) <=> proofs = {Proof(NoId, u.owner)}
      BY <2>2, <2>3 DEF Finalizes, Accepts
    <3>4. QED
      BY <3>2, <3>3
  <2>4. ASSUME auth # Legacy
        PROVE  /\ WellFormed(auth)
               /\ Accepts(p, e) <=> ProofsParse(p, e)
    BY <2>1, <2>2, <2>4, DraftParses DEF Accepts, IsAuth
  <2>5. CASE auth # Legacy /\ RotatesLegacy(p, auth)
    <3>1. Authority = {Proof(NoId, Owner(p))}
      BY <2>5 DEF Authority, RotatesLegacy
    <3>2. Enough <=> proofs = {Proof(NoId, Owner(p))}
      BY SMT, <3>1, OneProof
    <3>3. Accepts(p, e) <=> proofs = {Proof(NoId, Owner(p))}
      <4>1. Accepts(p, e) <=> DistinctIds(proofs) /\ proofs = {Proof(NoId, Owner(p))}
        BY <2>2, <2>4, <2>5 DEF ProofsParse
      <4>2. DistinctIds({Proof(NoId, Owner(p))})
        BY OneProof
      <4>3. QED
        BY <4>1, <4>2
    <3>4. Finalizes(bundle) <=>
            proofs # {} /\ proofs = {Proof(NoId, Owner(p))} /\ Accepts(p, e)
      BY <2>5 DEF Finalizes
    <3>5. QED
      BY <3>2, <3>3, <3>4
  <2>6. CASE auth # Legacy /\ auth.op = "upgrade"
    <3>1. /\ p # Nil /\ ~Governed(p) /\ ~RotatesLegacy(p, auth)
          /\ u.owner = Owner(p) /\ u.owner \in Range(auth.signers)
          /\ VerificationKeys(p, auth) = auth.signers
          /\ AuthorizedKeys(p, auth) = auth.signers
          /\ IsInjective(auth.signers)
      BY <2>1, <2>4, <2>6
         DEF DraftFollows, RotatesLegacy, VerificationKeys, AuthorizedKeys, WellFormed
    <3>2. PICK i \in DOMAIN auth.signers : auth.signers[i] = u.owner
      BY <3>1 DEF Range
    <3>3. \A j \in DOMAIN auth.signers : auth.signers[j] = u.owner <=> j = i
      BY <3>1, <3>2 DEF IsInjective
    <3> DEFINE a == Proof(i, u.owner)
               Listed == \A x \in proofs : /\ x.id \in DOMAIN auth.signers
                                           /\ x.key = auth.signers[x.id]
    <3>4. Authority = {a}
      <4>1. Authority = {Proof(j, u.owner) :
                           j \in {k \in DOMAIN auth.signers : auth.signers[k] = u.owner}}
        BY <2>6, <3>1 DEF Authority
      <4>2. {k \in DOMAIN auth.signers : auth.signers[k] = u.owner} = {i}
        BY <3>2, <3>3
      <4>3. QED
        BY <4>1, <4>2
    <3>5. Enough <=> proofs = {a}
      BY SMT, <3>4, OneProof
    <3>6. Finalizes(bundle) <=>
            /\ proofs # {} /\ Listed
            /\ \E x \in proofs : proofs = {x} /\ x.key = u.owner
            /\ Accepts(p, e)
      <4>1. Finalizes(bundle) <=>
              /\ proofs # {}
              /\ \A x \in proofs : /\ x.id \in DOMAIN AuthorizedKeys(p, auth)
                                   /\ x.key = AuthorizedKeys(p, auth)[x.id]
              /\ \E x \in proofs : proofs = {x} /\ x.key = u.owner
              /\ Accepts(p, e)
        BY <2>6, <3>1 DEF Finalizes
      <4>2. QED
        BY <3>1, <4>1
    <3>7. a.id = i /\ a.key = u.owner
      BY DEF Proof
    <3>8. ASSUME Finalizes(bundle) PROVE proofs = {a}
      <4>1. PICK x \in proofs : proofs = {x} /\ x.key = u.owner
        BY <3>6, <3>8
      <4>2. x.id = i
        BY <3>3, <3>6, <3>8, <4>1
      <4>3. QED
        BY <2>1, <4>1, <4>2
    <3>9. ASSUME proofs = {a} PROVE Finalizes(bundle)
      <4>1. Listed /\ {x.id : x \in proofs} = {i}
        BY <3>2, <3>7, <3>9
      <4>2. DistinctIds(proofs)
        <5>1. DistinctIds({a})
          BY OneProof
        <5>2. QED
          BY <3>9, <5>1
      <4>3. ProofsParse(p, e)
        <5>1. /\ ~RotatesLegacy(p, e.update.auth) /\ e.update.auth.op = "upgrade"
              /\ VerificationKeys(p, e.update.auth) = auth.signers
              /\ e.proofs = proofs /\ Owner(e) = u.owner
          BY <2>2, <2>6, <3>1
        <5>2. \E j \in DOMAIN auth.signers :
                {x.id : x \in proofs} = {j} /\ auth.signers[j] = u.owner
          BY <3>2, <4>1
        <5> HIDE DEF e, proofs, auth, u, p
        <5>3. QED
          BY <4>1, <4>2, <5>1, <5>2 DEF ProofsParse
      <4>4. QED
        BY <2>4, <2>6, <3>6, <3>7, <3>9, <4>1, <4>3
    <3>10. QED
      BY <3>5, <3>8, <3>9
  <2>7. CASE auth # Legacy /\ ~RotatesLegacy(p, auth) /\ auth.op # "upgrade"
    <3> DEFINE keys == VerificationKeys(p, auth)
    <3>1. /\ AuthorizedKeys(p, auth) = keys
          /\ Authority = ProofsOf(keys)
          /\ auth.threshold = 2 /\ Cardinality(DOMAIN keys) = 3
          /\ DOMAIN keys \subseteq Ids
      <4>1. CASE p = Nil
        BY <2>1, <2>7, <4>1
           DEF DraftFollows, VerificationKeys, AuthorizedKeys, Authority, ProofsOf, TwoOfThree, IsAuth
      <4>2. CASE p # Nil
        <5>1. /\ Governed(p) /\ keys = SignersOf(p)
              /\ TwoOfThree(p.update.auth) /\ IsAuth(p.update.auth)
          BY <2>1, <2>7, <4>2
             DEF DraftFollows, VerificationKeys, RotatesLegacy, SoundGovernance
        <5>2. auth.threshold = 2 /\ AuthorizedKeys(p, auth) = keys
          BY <2>1, <2>7, <4>2, <5>1
             DEF DraftFollows, AuthorizedKeys, SameGovernance, Replaces, TwoOfThree
        <5>3. QED
          BY <2>7, <4>2, <5>1, <5>2 DEF Authority, ProofsOf, TwoOfThree, IsAuth, SignersOf
      <4>3. QED
        BY <4>1, <4>2
    <3> HIDE DEF keys
    <3> DEFINE Listed == \A x \in proofs : x.id \in DOMAIN keys /\ x.key = keys[x.id]
               Ids2 == IdsOf(proofs)
    <3>2. /\ proofs \subseteq Authority <=> Listed
          /\ Cardinality(Authority) > 1
          /\ Listed => DistinctIds(proofs) /\ (Cardinality(Ids2) >= 2 <=> Cardinality(proofs) > 1)
      <4>1. \A x \in proofs : x = Proof(x.id, x.key)
        BY <2>1
      <4>2. DOMAIN keys \subseteq Ids /\ Cardinality(DOMAIN keys) = 3
        BY <3>1
      <4> HIDE DEF proofs
      <4>3. /\ proofs \subseteq ProofsOf(keys) <=> Listed
            /\ Cardinality(ProofsOf(keys)) > 1
            /\ proofs \subseteq ProofsOf(keys) =>
                 DistinctIds(proofs) /\ (Cardinality(Ids2) >= 2 <=> Cardinality(proofs) > 1)
        BY <4>1, <4>2, TwoProofs
      <4>4. QED
        BY <3>1, <4>3
    <3>3. Enough <=> Listed /\ proofs # {} /\ Cardinality(Ids2) >= 2
      BY <3>2
    <3>4. Accepts(p, e) <=> DistinctIds(proofs) /\ Listed /\ Cardinality(Ids2) >= 2
      BY <2>2, <2>4, <2>7, <3>1 DEF ProofsParse, keys, IdsOf
    <3>5. Finalizes(bundle) <=>
            proofs # {} /\ Listed /\ Cardinality(Ids2) >= 2 /\ Accepts(p, e)
      <4>1. Finalizes(bundle) <=>
              /\ proofs # {}
              /\ \A x \in proofs : /\ x.id \in DOMAIN AuthorizedKeys(p, auth)
                                   /\ x.key = AuthorizedKeys(p, auth)[x.id]
              /\ Cardinality(Ids2) >= auth.threshold
              /\ Accepts(p, e)
        BY <2>7 DEF Finalizes, IdsOf
      <4>2. QED
        BY <3>1, <4>1
    <3>6. QED
      BY <3>2, <3>3, <3>4, <3>5
  <2>8. QED
    BY <2>3, <2>5, <2>6, <2>7
<1>2. QED
  BY <1>1, ChainInvariant, PTL

-----------------------------------------------------------------------------
(* Reading the chain back.  A state is accepted after the one stored       *)
(* before it, and its sequence number is its place in the store, so that   *)
(* no two states have one hash.                                            *)
Before(i) == IF i = 1 THEN Nil ELSE store[i - 1]

StoreInv ==
  \A i \in DOMAIN store :
    store[i].update.seq = i /\ Accepts(Before(i), store[i])

(* Induction over the naturals, in the form of a least element.            *)
LEMMA LeastNat ==
  ASSUME NEW T \in SUBSET Nat, T # {}
  PROVE  \E m \in T : \A k \in T : m <= k
<1> DEFINE R == OpToRel(<, Nat)
<1>1. IsWellFoundedOn(R, Nat)
  BY NatLessThanWellFounded
<1>2. \A x, y \in Nat : x < y => <<x, y>> \in R
  BY DEF OpToRel
<1> HIDE DEF R
<1>3. PICK m \in T : \A y \in T : <<y, m>> \notin R
  BY <1>1, WFMin
<1>4. \A k \in T : k \in Nat /\ m \in Nat /\ ~(k < m)
  BY <1>2, <1>3
<1>5. \A k \in T : m <= k
  BY SMT, <1>4
<1>. QED
  BY <1>5

(* Sequences with the same elements are the same.                          *)
LEMMA SameElements ==
  ASSUME NEW S, NEW s \in Seq(S), NEW t \in Seq(S), NEW n \in Nat,
         Len(s) = n, Len(t) = n, \A j \in 1..n : s[j] = t[j]
  PROVE  s = t
  BY SMT

LEMMA LastOf ==
  ASSUME NEW n \in Nat, NEW A \in SUBSET (1..n), A # {}
  PROVE  \E k \in A : \A i \in A : i <= k
<1> DEFINE T == {n - i : i \in A}
<1>1. T \in SUBSET Nat /\ T # {}
  <2>1. \A i \in A : i \in 1..n
    OBVIOUS
  <2>2. \A i \in 1..n : n - i \in Nat
    BY SMT
  <2>. QED
    BY <2>1, <2>2
<1>2. PICK m \in T : \A t \in T : m <= t
  BY <1>1, LeastNat
<1>3. PICK k \in A : m = n - k
  BY <1>2
<1>4. \A i \in A : n - k <= n - i
  BY <1>2, <1>3
<1>. QED
  BY SMT, <1>4

(* What needs no predecessor parses without one; the first state is such.  *)
LEMMA AnchorParses ==
  ASSUME NEW p, NEW e, Accepts(p, e)
  PROVE  /\ ~NeedsPredecessor(e) => Accepts(Nil, e)
         /\ NeedsPredecessor(e) =>
              p # Nil /\ e.update.auth.pred = Digest(p.update)
<1>1. CASE ~Governed(e)
  BY <1>1 DEF Accepts, NeedsPredecessor
<1>2. CASE Governed(e)
  <2>1. TransitionParses(p, e.update)
    BY <1>2 DEF Accepts
  <2>2. CASE NeedsPredecessor(e)
    BY <2>1, <2>2 DEF NeedsPredecessor, TransitionParses, Follows
  <2>3. CASE ~NeedsPredecessor(e)
    <3>1. p = Nil
      BY <1>2, <2>1, <2>3 DEF NeedsPredecessor, TransitionParses
    <3>. QED
      BY <2>3, <3>1
  <2>. QED
    BY <2>2, <2>3
<1>. QED
  BY <1>1, <1>2

(* The predecessor hash of a state finds the state stored before it.       *)
LEMMA PredecessorFound ==
  ASSUME StoreInv, store \in Seq(Range(store)), NEW i \in 1..Len(store),
         NeedsPredecessor(store[i])
  PROVE  /\ i - 1 \in 1..Len(store)
         /\ ByHash(store[i].update.auth.pred) = {i - 1}
         /\ Accepts(store[i - 1], store[i])
<1>0. DOMAIN store = 1..Len(store) /\ Len(store) \in Nat
  BY SMT
<1>1. Accepts(Before(i), store[i])
  BY <1>0 DEF StoreInv
<1>2. Before(i) # Nil /\ store[i].update.auth.pred = Digest(Before(i).update)
  BY <1>1, AnchorParses
<1>3. i # 1 /\ Before(i) = store[i - 1]
  BY <1>2 DEF Before
<1>4. i - 1 \in 1..Len(store)
  BY SMT, <1>0, <1>3
<1>5. \A j \in 1..Len(store) :
        Digest(store[j].update) = Digest(store[i - 1].update) => j = i - 1
  <2> SUFFICES ASSUME NEW j \in 1..Len(store),
                      Digest(store[j].update) = Digest(store[i - 1].update)
               PROVE  j = i - 1
    OBVIOUS
  <2>1. store[j].update = store[i - 1].update
    BY DEF Digest
  <2>2. store[j].update.seq = j /\ store[i - 1].update.seq = i - 1
    BY <1>0, <1>4 DEF StoreInv
  <2>. QED
    BY <2>1, <2>2
<1>6. ByHash(store[i].update.auth.pred) = {i - 1}
  BY <1>0, <1>2, <1>3, <1>4, <1>5 DEF ByHash
<1>. QED
  BY <1>1, <1>3, <1>4, <1>6

(* Anchor(k): the newest state that needs no predecessor is the k-th.      *)
Anchor(k) ==
  /\ k \in 1..Len(store) /\ ~NeedsPredecessor(store[k])
  /\ \A i \in 1..Len(store) : i > k => NeedsPredecessor(store[i])

LEMMA AnchorExists ==
  ASSUME StoreInv, store \in Seq(Range(store)), store # <<>>
  PROVE  \E k \in 1..Len(store) : Anchor(k)
<1> DEFINE A == {i \in 1..Len(store) : ~NeedsPredecessor(store[i])}
<1>0. Len(store) \in Nat /\ 1 \in 1..Len(store)
  BY SMT
<1>1. 1 \in A
  <2>1. CASE NeedsPredecessor(store[1])
    <3>1. 1 - 1 \in 1..Len(store)
      BY <1>0, <2>1, PredecessorFound
    <3>. QED
      BY SMT, <1>0, <3>1
  <2>. QED
    BY <1>0, <2>1
<1>2. PICK k \in A : \A i \in A : i <= k
  <2>1. A \in SUBSET (1..Len(store)) /\ A # {}
    BY <1>1
  <2> HIDE DEF A
  <2>. QED
    BY <1>0, <2>1, LastOf
<1>3. ASSUME NEW i \in 1..Len(store), i > k PROVE NeedsPredecessor(store[i])
  <2>1. i \notin A
    BY SMT, <1>0, <1>2, <1>3
  <2>. QED
    BY <2>1
<1>. QED
  BY <1>2, <1>3 DEF Anchor

(* The newest m + 1 states, newest first; and how many predecessors m      *)
(* fetches find.                                                           *)
Suffix(m) == [j \in 1..(m + 1) |-> store[Len(store) + 1 - j]]
Links(k, m) == IF m <= Len(store) - k THEN m ELSE Len(store) - k

LEMMA SuffixType ==
  ASSUME store \in Seq(Range(store)), NEW m \in 0..(Len(store) - 1)
  PROVE  /\ Suffix(m) \in Seq(Range(store)) /\ Len(Suffix(m)) = m + 1
         /\ \A j \in 1..(m + 1) : /\ Len(store) + 1 - j \in 1..Len(store)
                                  /\ Suffix(m)[j] = store[Len(store) + 1 - j]
<1>1. Len(store) \in Nat /\ m \in Nat
  BY SMT
<1>2. \A j \in 1..(m + 1) : Len(store) + 1 - j \in 1..Len(store)
  BY SMT, <1>1
<1>3. \A j \in 1..(m + 1) : store[Len(store) + 1 - j] \in Range(store)
  BY SMT, <1>2 DEF Range
<1>. QED
  BY SMT, <1>1, <1>2, <1>3 DEF Suffix

(* One more fetch.                                                         *)
FetchMore(c) ==
  LET oldest == c[Len(c)]
  IN IF NeedsPredecessor(oldest) /\ ByHash(oldest.update.auth.pred) # {}
       THEN Append(c, store[CHOOSE i \in ByHash(oldest.update.auth.pred) : TRUE])
       ELSE c

LEMMA FetchStep ==
  ASSUME StoreInv, store \in Seq(Range(store)), NEW k, Anchor(k), NEW m \in Nat
  PROVE  FetchMore(Suffix(Links(k, m))) = Suffix(Links(k, m + 1))
<1> DEFINE n == Len(store)
           l == Links(k, m)
           c == Suffix(l)
           o == n - l
<1>0. n \in Nat /\ k \in 1..n
  BY SMT DEF Anchor
<1>1. l \in 0..(n - k) /\ l \in 0..(n - 1)
  BY SMT, <1>0 DEF Links
<1>2. /\ c \in Seq(Range(store)) /\ Len(c) = l + 1
      /\ c[l + 1] = store[o] /\ o \in k..n
  <2> HIDE DEF l, n
  <2>1. l + 1 \in 1..(l + 1) /\ n + 1 - (l + 1) = o /\ o \in k..n
    BY SMT, <1>0, <1>1
  <2> USE DEF n
  <2>. QED
    BY <1>1, <2>1, SuffixType
<1>3. CASE m < n - k
  <2>1. l = m /\ Links(k, m + 1) = m + 1 /\ o > k /\ o \in 1..n
    BY SMT, <1>0, <1>3 DEF Links
  <2>2. NeedsPredecessor(store[o])
    BY <2>1 DEF Anchor
  <2>3. o - 1 \in 1..n /\ ByHash(store[o].update.auth.pred) = {o - 1}
    BY <2>1, <2>2, PredecessorFound
  <2>4. FetchMore(c) = Append(c, store[o - 1])
    <3> HIDE DEF c, l, o
    <3>1. c[Len(c)] = store[o]
      BY <1>2
    <3>. QED
      BY SMTT(30), <2>2, <2>3, <3>1 DEF FetchMore
  <2>5. Append(c, store[o - 1]) = Suffix(m + 1)
    <3>1. m + 1 \in 0..(n - 1) /\ Len(c) = m + 1
      BY SMT, <1>0, <1>2, <1>3, <2>1
    <3>2. /\ Suffix(m + 1) \in Seq(Range(store)) /\ Len(Suffix(m + 1)) = m + 2
          /\ \A j \in 1..(m + 2) : Suffix(m + 1)[j] = store[n + 1 - j]
      BY SMT, <3>1, SuffixType
    <3>3. \A j \in 1..(m + 1) : c[j] = store[n + 1 - j]
      BY <1>1, <2>1, SuffixType
    <3>4. n + 1 - (m + 2) = o - 1
      BY SMT, <1>0, <2>1
    <3>5. store[o - 1] \in Range(store)
      BY SMT, <2>3 DEF Range
    <3> HIDE DEF c, o, l
    <3>6. Append(c, store[o - 1]) \in Seq(Range(store))
          /\ Len(Append(c, store[o - 1])) = m + 2
      BY SMT, <1>2, <3>1, <3>5
    <3>7. \A j \in 1..(m + 2) : Append(c, store[o - 1])[j] = Suffix(m + 1)[j]
      BY SMT, <1>2, <3>1, <3>2, <3>3, <3>4
    <3>8. m + 2 \in Nat
      BY SMT
    <3>. QED
      BY <3>2, <3>6, <3>7, <3>8, SameElements
  <2>. QED
    BY <2>1, <2>4, <2>5
<1>4. CASE m >= n - k
  <2>1. l = n - k /\ Links(k, m + 1) = l /\ o = k
    BY SMT, <1>0, <1>4 DEF Links
  <2>2. ~NeedsPredecessor(store[o])
    BY <2>1 DEF Anchor
  <2>3. FetchMore(c) = c
    <3> HIDE DEF c, o, l
    <3>. QED
      BY <1>2, <2>2 DEF FetchMore
  <2>. QED
    BY <2>1, <2>3
<1>. QED
  BY SMT, <1>0, <1>3, <1>4

(* What the loop of _parse_state_with_history has collected after m        *)
(* fetches: the definition by recursion has the closed form Suffix.        *)
LEMMA FetchedForm ==
  ASSUME StoreInv, store \in Seq(Range(store)), NEW k, Anchor(k)
  PROVE  \A m \in 0..Depth : Fetched[m] = Suffix(Links(k, m))
<1> DEFINE G == [m \in 0..Depth |-> Suffix(Links(k, m))]
           Step(f) == [m \in 0..Depth |->
                         IF m = 0 THEN <<Newest>> ELSE FetchMore(f[m - 1])]
<1>0. Depth \in Nat /\ Len(store) \in Nat /\ k \in 1..Len(store)
  BY SMT, ChainAssumption DEF Anchor
<1>1. Suffix(Links(k, 0)) = <<Newest>>
  <2>1. Links(k, 0) = 0
    BY SMT, <1>0 DEF Links
  <2>2. /\ 0 \in 0..(Len(store) - 1) /\ Len(store) + 1 - 1 = Len(store)
        /\ 1 \in 1..(0 + 1) /\ 0 + 1 = 1
    BY SMT, <1>0
  <2>3. /\ Suffix(0) \in Seq(Range(store)) /\ Len(Suffix(0)) = 0 + 1
        /\ \A j \in 1..(0 + 1) : Suffix(0)[j] = store[Len(store) + 1 - j]
    BY <2>2, SuffixType
  <2>. QED
    BY SMT, <2>1, <2>2, <2>3 DEF Newest
<1>2. \A m \in 1..Depth :
        m - 1 \in 0..Depth /\ Suffix(Links(k, m)) = FetchMore(Suffix(Links(k, m - 1)))
  <2> SUFFICES ASSUME NEW m \in 1..Depth
               PROVE  /\ m - 1 \in 0..Depth
                      /\ Suffix(Links(k, m)) = FetchMore(Suffix(Links(k, m - 1)))
    OBVIOUS
  <2>1. m - 1 \in Nat /\ m - 1 \in 0..Depth /\ (m - 1) + 1 = m
    BY SMT, <1>0
  <2>. QED
    BY <2>1, FetchStep
<1>3. G = Step(G)
  <2>1. \A m \in 0..Depth : Suffix(Links(k, m)) =
          IF m = 0 THEN <<Newest>> ELSE FetchMore(G[m - 1])
    <3> SUFFICES ASSUME NEW m \in 0..Depth
                 PROVE  Suffix(Links(k, m)) =
                          IF m = 0 THEN <<Newest>> ELSE FetchMore(G[m - 1])
      OBVIOUS
    <3>1. CASE m = 0
      BY <1>1, <3>1
    <3>2. CASE m # 0
      <4>1. m \in 1..Depth
        BY SMT, <1>0, <3>2
      <4>2. G[m - 1] = Suffix(Links(k, m - 1))
        BY <1>2, <4>1
      <4>. QED
        BY <1>2, <3>2, <4>1, <4>2
    <3>. QED
      BY <3>1, <3>2
  <2>. QED
    BY <2>1
<1>4. Fetched = Step(Fetched)
  <2>1. \E f : f = Step(f)
    BY <1>3
  <2>. QED
    BY <2>1 DEF Fetched, FetchMore
<1>5. \A m \in 0..Depth :
        Fetched[m] = IF m = 0 THEN <<Newest>> ELSE FetchMore(Fetched[m - 1])
  <2> HIDE DEF Fetched
  <2>. QED
    BY <1>4
<1> DEFINE Wrong == {m \in 0..Depth : Fetched[m] # Suffix(Links(k, m))}
<1>6. CASE Wrong # {}
  <2>1. Wrong \in SUBSET Nat
    BY SMT, <1>0
  <2>2. PICK m \in Wrong : \A w \in Wrong : m <= w
    BY <1>6, <2>1, LeastNat
  <2>3. m \in 0..Depth /\ Fetched[m] # Suffix(Links(k, m))
    BY <2>2
  <2>4. CASE m = 0
    BY <1>1, <1>5, <2>3, <2>4
  <2>5. CASE m # 0
    <3>1. m \in 1..Depth /\ m - 1 \in 0..Depth /\ ~(m <= m - 1)
      BY SMT, <1>0, <2>3, <2>5
    <3>2. m - 1 \notin Wrong
      BY <2>2, <3>1
    <3>3. Fetched[m - 1] = Suffix(Links(k, m - 1))
      BY <3>1, <3>2
    <3>. QED
      BY <1>2, <1>5, <2>3, <2>5, <3>1, <3>3
  <2>. QED
    BY <2>4, <2>5
<1>. QED
  BY <1>6

(* The chain a reader gets: the newest state and its predecessors down to  *)
(* the anchor, or to the depth limit.                                      *)
LEMMA ChainForm ==
  ASSUME StoreInv, store \in Seq(Range(store)), NEW k, Anchor(k)
  PROVE  /\ Links(k, Depth) \in 0..(Len(store) - k) /\ Links(k, Depth) <= Depth
         /\ Chain = Suffix(Links(k, Depth))
         /\ Chain \in Seq(Range(store)) /\ Len(Chain) = Links(k, Depth) + 1
         /\ \A j \in 1..Len(Chain) : /\ Len(store) + 1 - j \in 1..Len(store)
                                     /\ Chain[j] = store[Len(store) + 1 - j]
<1>0. Depth \in Nat /\ Len(store) \in Nat /\ k \in 1..Len(store)
  BY SMT, ChainAssumption DEF Anchor
<1>1. /\ Links(k, Depth) \in 0..(Len(store) - k)
      /\ Links(k, Depth) \in 0..(Len(store) - 1) /\ Links(k, Depth) <= Depth
  BY SMT, <1>0 DEF Links
<1>2. Chain = Suffix(Links(k, Depth))
  <2>1. Depth \in 0..Depth
    BY SMT, <1>0
  <2>. QED
    BY <2>1, FetchedForm DEF Chain
<1> HIDE DEF Chain
<1>. QED
  BY <1>1, <1>2, SuffixType

LEMMA TransitionsForm ==
  ASSUME store \in Seq(Range(store)), NEW k, Anchor(k)
  PROVE  Transitions = Len(store) - k
<1>0. Len(store) \in Nat /\ k \in 1..Len(store) /\ DOMAIN store = 1..Len(store)
  BY SMT DEF Anchor
<1> DEFINE T == {i \in DOMAIN store :
                   \A j \in i..Len(store) : NeedsPredecessor(store[j])}
<1>1. T = (k + 1)..Len(store)
  <2>1. ASSUME NEW i \in T PROVE i \in (k + 1)..Len(store)
    <3>1. i \in 1..Len(store) /\ k \notin i..Len(store)
      BY <1>0 DEF Anchor
    <3>. QED
      BY SMT, <1>0, <3>1
  <2>2. ASSUME NEW i \in (k + 1)..Len(store) PROVE i \in T
    <3>1. i \in 1..Len(store) /\ \A j \in i..Len(store) : j \in 1..Len(store) /\ j > k
      BY SMT, <1>0
    <3>. QED
      BY <1>0, <3>1 DEF Anchor
  <2>. QED
    BY <2>1, <2>2
<1>2. Cardinality((k + 1)..Len(store)) = Len(store) - k
  <2>1. k + 1 \in Int /\ Len(store) \in Int
    BY SMT, <1>0
  <2>2. Cardinality((k + 1)..Len(store)) =
          IF k + 1 > Len(store) THEN 0 ELSE Len(store) - (k + 1) + 1
    BY <2>1, FS_Interval
  <2>. QED
    BY SMT, <1>0, <2>2
<1>. QED
  BY <1>1, <1>2 DEF Transitions

(* A reader gets the whole chain, and it parses, exactly when it is not    *)
(* longer than the limit.                                                  *)
LEMMA ReadExactly ==
  ASSUME StoreInv, store \in Seq(Range(store))
  PROVE  /\ store # <<>> => (Readable <=> Transitions <= Depth)
         /\ ReadableToTheLimit
<1>1. CASE store = <<>>
  <2>1. Transitions = 0
    <3>1. {i \in DOMAIN store : \A j \in i..Len(store) : NeedsPredecessor(store[j])} = {}
      BY SMT, <1>1
    <3>. QED
      BY <3>1, FS_EmptySet DEF Transitions
  <2>. QED
    BY <1>1, <2>1 DEF ReadableToTheLimit, Readable, History
<1>2. CASE store # <<>>
  <2>1. PICK k \in 1..Len(store) : Anchor(k)
    BY <1>2, AnchorExists
  <2> DEFINE n == Len(store)
             l == Links(k, Depth)
  <2>2. n \in Nat /\ Depth \in Nat /\ k \in 1..n /\ DOMAIN store = 1..n
    BY SMT, <2>1, ChainAssumption DEF Anchor
  <2>3. /\ l \in 0..(n - k) /\ Len(Chain) = l + 1 /\ Chain \in Seq(Range(store))
        /\ \A j \in 1..(l + 1) : /\ n + 1 - j \in 1..n
                                 /\ Chain[j] = store[n + 1 - j]
    BY <2>1, ChainForm
  <2>4. Chain[Len(Chain)] = store[n - l] /\ n - l \in k..n
    BY SMT, <2>2, <2>3
  <2>5. l = IF Depth <= n - k THEN Depth ELSE n - k
    BY DEF Links
  <2> HIDE DEF Chain, l, n
  <2>6. ASSUME n - k > Depth PROVE ~Readable
    <3>1. l = Depth
      BY SMT, <2>2, <2>6, <2>5
    <3>2. n - l \in 1..n /\ n - l > k
      BY SMT, <2>2, <2>6, <3>1
    <3>3. NeedsPredecessor(store[n - l])
      BY <2>1, <3>2 DEF Anchor, n
    <3>. QED
      BY <1>2, <2>4, <3>3 DEF Readable
  <2>7. ASSUME n - k <= Depth PROVE Readable /\ Len(History) = n - k
    <3>1. l = n - k /\ n - l = k
      BY SMT, <2>2, <2>7, <2>5
    <3>2. ~NeedsPredecessor(Chain[Len(Chain)])
      BY <2>1, <2>4, <3>1 DEF Anchor
    <3>3. Accepts(Nil, Chain[Len(Chain)])
      <4>1. Accepts(Before(k), store[k])
        BY <2>2 DEF StoreInv
      <4>. QED
        BY <2>4, <3>1, <3>2, <4>1, AnchorParses
    <3>4. ASSUME NEW i \in 1..Len(Chain) - 1 PROVE Accepts(Chain[i + 1], Chain[i])
      <4> DEFINE t == n + 1 - i
      <4>1. /\ i \in 1..(l + 1) /\ i + 1 \in 1..(l + 1)
            /\ t \in 1..n /\ t > k /\ n + 1 - (i + 1) = t - 1
        BY SMT, <2>2, <2>3, <3>1
      <4>2. Chain[i] = store[t] /\ Chain[i + 1] = store[t - 1]
        BY <2>3, <4>1
      <4> HIDE DEF t
      <4>3. NeedsPredecessor(store[t])
        BY <2>1, <4>1 DEF Anchor, n
      <4>. QED
        BY <4>1, <4>2, <4>3, PredecessorFound DEF n
    <3>5. Len(History) = n - k
      BY SMT, <1>2, <2>3, <3>1 DEF History
    <3>. QED
      BY <1>2, <3>2, <3>3, <3>4, <3>5 DEF Readable, Replays
  <2>8. Transitions = n - k
    BY <2>1, TransitionsForm DEF n
  <2>9. n - k <= Depth \/ n - k > Depth
    BY SMT, <2>2
  <2>10. Readable <=> Transitions <= Depth
    BY <2>6, <2>7, <2>8, <2>9
  <2>. QED
    BY <2>7, <2>8, <2>10 DEF ReadableToTheLimit
<1>. QED
  BY <1>1, <1>2

-----------------------------------------------------------------------------
(* ReadInv: the store as a reader meets it, and the drafts made from what  *)
(* was read.                                                               *)
ReadInv == ChainInv /\ StoreInv /\ SignedDraftsValid /\ TypeOK

(* What a successful read gives the draft that is made on it.              *)
LEMMA ReadGives ==
  ASSUME ReadInv, Readable
  PROVE  /\ Len(History) <= Depth /\ Range(History) \subseteq Range(store)
         /\ Current \in {Nil} \cup Range(store)
         /\ Current # Nil => Replays(<<Current>> \o History)
<1>0. /\ StoreInv /\ store \in Seq(Range(store))
      /\ Depth \in Nat /\ (Current = Nil <=> store = <<>>)
  BY ChainAssumption, CurrentState DEF ReadInv, ChainInv
<1>1. CASE store = <<>>
  <2>1. History = <<>> /\ Current = Nil
    BY <1>0, <1>1 DEF History
  <2>2. Range(<<>>) = {}
    BY SMT DEF Range
  <2>. QED
    BY SMT, <1>0, <2>1, <2>2
<1>2. CASE store # <<>>
  <2>1. PICK k \in 1..Len(store) : Anchor(k)
    BY <1>0, <1>2, AnchorExists
  <2> DEFINE l == Links(k, Depth)
  <2>2. /\ l \in Nat /\ l <= Depth
        /\ Chain \in Seq(Range(store)) /\ Len(Chain) = l + 1
        /\ \A j \in 1..Len(Chain) : Chain[j] = store[Len(store) + 1 - j]
    <3>1. l \in 0..(Len(store) - k)
      BY <1>0, <2>1, ChainForm
    <3>. QED
      BY SMT, <1>0, <2>1, <3>1, ChainForm
  <2>3. History = Tail(Chain) /\ Current = Newest
    BY <1>2 DEF History, Current
  <2>4. Chain[1] = Newest /\ Newest \in Range(store)
    <3>1. /\ 1 \in 1..Len(Chain) /\ Len(store) + 1 - 1 = Len(store)
          /\ Len(store) \in DOMAIN store
      BY SMT, <1>0, <1>2, <2>2
    <3>. QED
      BY <2>2, <3>1 DEF Newest, Range
  <2>5. Replays(Chain)
    BY <1>2 DEF Readable
  <2> HIDE DEF Chain, Newest, l
  <2>6. /\ History \in Seq(Range(store)) /\ Len(History) = l
        /\ \A j \in 1..l : History[j] = Chain[j + 1]
    BY SMT, <2>2, <2>3
  <2>7. <<Current>> \o History = Chain
    <3>1. /\ <<Current>> \o History \in Seq(Range(store))
          /\ Len(<<Current>> \o History) = l + 1
      BY SMT, <2>2, <2>3, <2>4, <2>6
    <3>2. \A j \in 1..(l + 1) : (<<Current>> \o History)[j] = Chain[j]
      BY SMT, <2>2, <2>3, <2>4, <2>6
    <3>3. l + 1 \in Nat
      BY SMT, <2>2
    <3>. QED
      BY <2>2, <3>1, <3>2, <3>3, SameElements
  <2>8. Range(History) \subseteq Range(store)
    <3>1. \A j \in DOMAIN History : History[j] \in Range(store)
      BY SMT, <2>6
    <3>2. \A r \in Range(History) : \E j \in DOMAIN History : r = History[j]
      BY DEF Range
    <3>. QED
      BY <3>1, <3>2
  <2>. QED
    BY <1>0, <2>2, <2>3, <2>4, <2>5, <2>6, <2>7, <2>8
<1>. QED
  BY <1>1, <1>2

LEMMA NextSeqIs ==
  ASSUME ReadInv
  PROVE  NextSeq = Len(store) + 1 /\ NextSeq \in 1..MaxStates + 1
<1>1. /\ StoreInv /\ store \in Seq(Range(store))
      /\ Len(store) <= MaxStates /\ MaxStates \in Nat
  BY ChainAssumption DEF ReadInv, ChainInv, TypeOK
<1>2. Len(store) \in Nat /\ DOMAIN store = 1..Len(store)
  BY SMT, <1>1
<1>3. NextSeq = Len(store) + 1
  BY SMT, <1>1, <1>2 DEF NextSeq, Newest, StoreInv
<1>. QED
  BY SMT, <1>1, <1>2, <1>3

(* A draft starts on the state just read.                                  *)
LEMMA CollectRead ==
  ASSUME ReadInv, Readable, ChainInv', NEW u, NEW proofs, Collect(u, proofs),
         UNCHANGED store, IsUpdate(u), AreProofs(proofs)
  PROVE  ReadInv'
<1>1. /\ bundle' # Nil
      /\ bundle'.prev = Current /\ bundle'.update = u
      /\ bundle'.history = History /\ bundle'.proofs = proofs
  BY SMT DEF Collect, Bundle, Nil
<1>2. /\ DraftFollows(bundle'.prev, bundle'.update)
      /\ bundle'.update.auth # Legacy => WellFormed(bundle'.update.auth)
  BY <1>1 DEF ChainInv, IsAuth
<1>3. SignedDraftsValid'
  BY <1>1, <1>2, ReadGives DEF SignedDraftsValid, Drafts
<1>4. StoreInv'
  BY DEF ReadInv, StoreInv, Before
<1>5. TypeOK'
  BY <1>1, ReadGives DEF ReadInv, TypeOK
<1>. QED
  BY <1>3, <1>4, <1>5 DEF ReadInv

(* The Registry takes an envelope that parses after the accepted state.    *)
LEMMA PutRead ==
  ASSUME ReadInv, ChainInv', Room, NEW u, NEW proofs,
         Put(Envelope(u, proofs)), UNCHANGED bundle, u.seq = NextSeq,
         Accepts(Current, Envelope(u, proofs)), IsUpdate(u), AreProofs(proofs)
  PROVE  ReadInv'
<1> DEFINE e == Envelope(u, proofs)
           n == Len(store)
<1>1. e.update = u /\ e.proofs = proofs
  BY DEF Envelope
<1>2. /\ store \in Seq(Range(store)) /\ n \in Nat /\ n < MaxStates
      /\ DOMAIN store = 1..n /\ MaxStates \in Nat
  BY SMT, ChainAssumption DEF ReadInv, ChainInv, Room
<1>3. store' = Append(store, e)
  BY DEF Put
<1>4. Current = IF n = 0 THEN Nil ELSE store[n]
  BY SMT, <1>2 DEF Current, Newest
<1> HIDE DEF e
<1>5. /\ Len(store') = n + 1 /\ DOMAIN store' = 1..(n + 1)
      /\ store'[n + 1] = e /\ \A i \in 1..n : store'[i] = store[i]
  BY SMT, <1>2, <1>3
<1>6. StoreInv'
  <2> SUFFICES ASSUME NEW i \in 1..(n + 1)
               PROVE  /\ store'[i].update.seq = i
                      /\ Accepts(IF i = 1 THEN Nil ELSE store'[i - 1], store'[i])
    BY <1>5 DEF StoreInv, Before
  <2>1. CASE i \in 1..n
    <3>1. i = 1 \/ i - 1 \in 1..n
      BY SMT, <1>2, <2>1
    <3>2. store[i].update.seq = i /\ Accepts(Before(i), store[i])
      BY <1>2, <2>1 DEF ReadInv, StoreInv
    <3>. QED
      BY <1>5, <2>1, <3>1, <3>2 DEF Before
  <2>2. CASE i = n + 1
    <3>1. u.seq = i
      BY <2>2, NextSeqIs
    <3>2. Current = IF i = 1 THEN Nil ELSE store'[i - 1]
      <4>1. CASE n = 0
        BY SMT, <1>4, <2>2, <4>1
      <4>2. CASE n # 0
        <5>1. n \in 1..n /\ i # 1 /\ i - 1 = n
          BY SMT, <1>2, <2>2, <4>2
        <5>. QED
          BY <1>4, <1>5, <4>2, <5>1
      <4>. QED
        BY <4>1, <4>2
    <3>. QED
      BY <1>1, <1>5, <2>2, <3>1, <3>2 DEF e
  <2>. QED
    BY SMT, <1>2, <2>1, <2>2
<1>7. Range(store) \subseteq Range(store')
  <2>1. \A i \in 1..n : i \in 1..(n + 1)
    BY SMT, <1>2
  <2>. QED
    BY <1>2, <1>5, <2>1 DEF Range
<1>8. TypeOK'
  <2>1. Len(store') <= MaxStates
    BY SMT, <1>2, <1>5
  <2>2. \A i \in DOMAIN store' :
          IsUpdate(store'[i].update) /\ AreProofs(store'[i].proofs)
    <3> SUFFICES ASSUME NEW i \in 1..(n + 1)
                 PROVE  IsUpdate(store'[i].update) /\ AreProofs(store'[i].proofs)
      BY <1>5
    <3>1. CASE i \in 1..n
      BY <1>2, <1>5, <3>1 DEF ReadInv, TypeOK
    <3>2. CASE i = n + 1
      BY <1>1, <1>5, <3>2
    <3>. QED
      BY SMT, <1>2, <3>1, <3>2
  <2>. QED
    BY <1>7, <2>1, <2>2 DEF ReadInv, TypeOK
<1>9. SignedDraftsValid'
  BY DEF ReadInv, SignedDraftsValid
<1>. QED
  BY <1>6, <1>8, <1>9 DEF ReadInv

(* What callers propose is typed.                                          *)
LEMMA ProposalTyped ==
  ASSUME ReadInv, NEW owner \in Owners, NEW auth \in Auths \cup {Legacy}
  PROVE  IsUpdate(Update(owner, NextSeq, auth))
<1>1. auth # Legacy => /\ auth.op \in Operations /\ auth.epoch \in 1..MaxEpoch
                       /\ auth.signers \in SignerSets
  BY DEF Auths
<1>. QED
  BY <1>1, NextSeqIs DEF Update, IsUpdate

LEMMA ProofTyped ==
  ASSUME NEW id \in Ids \cup {NoId}, NEW key \in Keys
  PROVE  Proof(id, key) \in [id : Ids \cup {NoId}, key : Keys]
BY DEF Proof

LEMMA CreateDraftRead ==
  ASSUME ReadInv, Readable, NEW owner \in Owners, NEW auth \in Auths \cup {Legacy},
         CreateDraft(owner, auth)
  PROVE  ReadInv'
<1>1. /\ Collect(Update(owner, NextSeq, auth), {}) /\ UNCHANGED store
  BY DEF CreateDraft
<1>2. ChainInv'
  BY CreateDraftInv DEF ReadInv
<1>. QED
  BY <1>1, <1>2, ProposalTyped, CollectRead DEF AreProofs

LEMMA CreateRotationDraftRead ==
  ASSUME ReadInv, Readable, NEW successor \in Owners, NEW signers \in SignerSets,
         CreateRotationDraft(successor, signers)
  PROVE  ReadInv'
<1> DEFINE u == Update(successor, NextSeq, RotationAuth(signers))
<1>1. u.owner = successor /\ u.seq = NextSeq /\ u.auth = RotationAuth(signers)
  BY DEF Update
<1>2. /\ Collect(u, {}) /\ UNCHANGED store /\ store # <<>>
      /\ DraftFollows(Current, u) /\ successor # Owner(Newest)
  BY DEF CreateRotationDraft, Drafts
<1>3. ChainInv' /\ ChainInv
  BY CreateRotationDraftInv DEF ReadInv
<1>4. Current = Newest /\ Current # Nil
  BY <1>2, <1>3, CurrentState DEF Current
<1>5. IsUpdate(Newest.update)
  <2>1. Len(store) \in DOMAIN store
    BY SMT, <1>2 DEF ReadInv, ChainInv
  <2>. QED
    BY <2>1 DEF ReadInv, TypeOK, Newest
<1> HIDE DEF u
<1>6. u.auth # Legacy =>
        /\ u.auth.op \in Operations /\ u.auth.epoch \in 1..MaxEpoch
        /\ u.auth.signers \in SignerSets
  <2> SUFFICES ASSUME u.auth # Legacy
               PROVE  /\ u.auth.op \in Operations /\ u.auth.epoch \in 1..MaxEpoch
                      /\ u.auth.signers \in SignerSets
    OBVIOUS
  <2>1. u.auth.op = "rotate"
    BY <1>1, <1>2, <1>4 DEF DraftFollows
  <2>2. CASE Governed(Newest)
    <3>1. SameGovernance(Newest, u.auth)
      BY <1>2, <1>4, <2>1, <2>2 DEF DraftFollows
    <3>. QED
      BY <1>5, <2>1, <2>2, <3>1 DEF SameGovernance, SignersOf, IsUpdate, Governed, Operations
  <2>3. CASE ~Governed(Newest)
    <3>1. u.auth.epoch = 1 /\ u.auth.signers = signers
      BY SMT, <1>1, <2>3 DEF RotationAuth
    <3>2. 1 \in 1..MaxEpoch
      BY SMT, ChainAssumption
    <3>. QED
      BY <2>1, <3>1, <3>2 DEF Operations
  <2>. QED
    BY <2>2, <2>3
<1>7. IsUpdate(u)
  BY <1>1, <1>6, NextSeqIs DEF IsUpdate
<1>. QED
  BY <1>2, <1>3, <1>7, CollectRead DEF AreProofs

LEMMA SubmitVersionedRead ==
  ASSUME ReadInv, Readable, NEW owner \in Owners, NEW auth \in Auths,
         SubmitVersioned(owner, auth)
  PROVE  ReadInv'
<1>1. PICK id \in Ids \cup {NoId}, key \in Keys :
        Collect(Update(owner, NextSeq, auth), {Proof(id, key)})
  BY DEF SubmitVersioned
<1>2. UNCHANGED store
  BY DEF SubmitVersioned
<1>3. ChainInv'
  BY SubmitVersionedInv DEF ReadInv
<1>4. AreProofs({Proof(id, key)})
  BY ProofTyped DEF AreProofs
<1>. QED
  BY <1>1, <1>2, <1>3, <1>4, ProposalTyped, CollectRead

LEMMA SignRead ==
  ASSUME ReadInv, NEW id \in Ids \cup {NoId}, NEW key \in Keys, Sign(id, key)
  PROVE  ReadInv'
<1>1. bundle # Nil /\ UNCHANGED store /\ ChainInv /\ ChainInv'
  BY SignInv DEF Sign, ReadInv
<1>2. bundle' = Bundle(bundle.prev, bundle.history, bundle.update,
                       bundle.proofs \cup {Proof(id, key)})
  BY <1>1 DEF Sign, ChainInv, Bundle
<1>3. /\ bundle'.prev = bundle.prev /\ bundle'.update = bundle.update
      /\ bundle'.history = bundle.history
      /\ bundle'.proofs = bundle.proofs \cup {Proof(id, key)}
  BY <1>2 DEF Bundle
<1>4. SignedDraftsValid'
  BY <1>1, <1>3 DEF ReadInv, SignedDraftsValid
<1>5. StoreInv'
  BY <1>1 DEF ReadInv, StoreInv, Before
<1>6. AreProofs(bundle'.proofs)
  BY <1>1, <1>3, ProofTyped DEF ReadInv, TypeOK, AreProofs
<1>7. TypeOK'
  BY <1>1, <1>3, <1>6 DEF ReadInv, TypeOK
<1>. QED
  BY <1>1, <1>4, <1>5, <1>7 DEF ReadInv

LEMMA SubmitLegacyRead ==
  ASSUME ReadInv, Room, NEW owner \in Owners, SubmitLegacy(owner)
  PROVE  ReadInv'
<1> DEFINE u == Update(owner, NextSeq, Legacy)
           proofs == {Proof(NoId, owner)}
<1>1. u.auth = Legacy /\ u.owner = owner /\ u.seq = NextSeq
  BY DEF Update
<1>2. Put(Envelope(u, proofs)) /\ UNCHANGED bundle
  BY DEF SubmitLegacy
<1>3. Accepts(Current, Envelope(u, proofs))
  BY <1>1 DEF Accepts, Envelope, Governed, Owner
<1>4. AreProofs(proofs)
  BY SMT, ProofTyped DEF AreProofs, Keys
<1>5. IsUpdate(u)
  BY ProposalTyped
<1>6. ChainInv'
  BY SubmitLegacyInv DEF ReadInv
<1> HIDE DEF u, proofs
<1>. QED
  BY <1>1, <1>2, <1>3, <1>4, <1>5, <1>6, PutRead

LEMMA PublishRead ==
  ASSUME ReadInv, Room, Publish
  PROVE  ReadInv'
<1>1. /\ bundle # Nil /\ bundle.prev = Current /\ UNCHANGED bundle
      /\ Put(Envelope(bundle.update, bundle.proofs))
      /\ Accepts(Current, Envelope(bundle.update, bundle.proofs))
  BY DEF Publish, Finalizes
<1>2. ChainInv /\ ChainInv' /\ IsUpdate(bundle.update) /\ AreProofs(bundle.proofs)
  BY <1>1, PublishInv DEF ReadInv, TypeOK
<1>3. bundle.update.seq = NextSeq
  <2>1. DraftFollows(Current, bundle.update)
    BY <1>1, <1>2 DEF ChainInv
  <2>. QED
    BY SMT, <1>2, <2>1, CurrentState DEF DraftFollows
<1>. QED
  BY <1>1, <1>2, <1>3, PutRead

LEMMA OtherUpdateRead ==
  ASSUME ReadInv, NEW owner \in Owners, NEW auth \in Auths, OtherUpdate(owner, auth)
  PROVE  ReadInv'
<1> DEFINE u == Update(owner, NextSeq, auth)
<1>1. PICK x \in Signatures(auth), y \in Signatures(auth) :
        Accepts(Current, Envelope(u, {x, y})) /\ Put(Envelope(u, {x, y}))
  BY DEF OtherUpdate
<1>2. Room /\ UNCHANGED bundle
  BY DEF OtherUpdate
<1>3. ChainInv /\ ChainInv' /\ IsUpdate(u) /\ u.seq = NextSeq
  BY OtherUpdateInv, ProposalTyped DEF ReadInv, Update
<1>4. \A s \in SignerSets : \A i \in DOMAIN s : i \in Ids /\ s[i] \in Keys
  BY SMT, ChainAssumption DEF Keys, Range
<1>5. auth.signers \in SignerSets
  BY DEF Auths
<1>6. store # <<>> /\ Governed(Newest) => SignersOf(Newest) \in SignerSets
  <2>1. store # <<>> => Len(store) \in DOMAIN store
    BY SMT DEF ReadInv, ChainInv
  <2>. QED
    BY <2>1 DEF ReadInv, TypeOK, IsUpdate, Newest, Governed, SignersOf
<1>7. AreProofs(Signatures(auth))
  <2> SUFFICES ASSUME NEW z \in Signatures(auth)
               PROVE  z \in [id : Ids \cup {NoId}, key : Keys]
    BY DEF AreProofs
  <2>1. CASE \E i \in DOMAIN auth.signers : z = Proof(i, auth.signers[i])
    BY SMT, <1>4, <1>5, <2>1, ProofTyped
  <2>2. CASE /\ store # <<>> /\ Governed(Newest)
             /\ \E i \in DOMAIN SignersOf(Newest) : z = Proof(i, SignersOf(Newest)[i])
    BY SMT, <1>4, <1>6, <2>2, ProofTyped
  <2>3. CASE \E k \in Owners : z = Proof(NoId, k)
    BY <2>3, ProofTyped DEF Keys
  <2>. QED
    BY <2>1, <2>2, <2>3 DEF Signatures
<1>8. AreProofs({x, y})
  BY <1>1, <1>7 DEF AreProofs
<1> HIDE DEF u
<1>. QED
  BY <1>1, <1>2, <1>3, <1>8, PutRead

LEMMA OtherLegacyRead ==
  ASSUME ReadInv, NEW owner \in Owners, OtherLegacy(owner)
  PROVE  ReadInv'
<1> DEFINE u == Update(owner, NextSeq, Legacy)
           proofs == {Proof(NoId, owner)}
<1>1. u.seq = NextSeq
  BY DEF Update
<1>2. /\ Put(Envelope(u, proofs)) /\ UNCHANGED bundle /\ Room
      /\ Accepts(Current, Envelope(u, proofs))
  BY DEF OtherLegacy
<1>3. AreProofs(proofs)
  BY SMT, ProofTyped DEF AreProofs, Keys
<1>4. IsUpdate(u) /\ ChainInv'
  BY OtherLegacyInv, ProposalTyped DEF ReadInv
<1> HIDE DEF u, proofs
<1>. QED
  BY <1>1, <1>2, <1>3, <1>4, PutRead

-----------------------------------------------------------------------------
(* ReadInv is an invariant of every behaviour.                             *)
THEOREM ReadInvariant == Spec => []ReadInv
<1>1. Init => ReadInv
  <2> SUFFICES ASSUME Init PROVE ReadInv
    OBVIOUS
  <2>1. ChainInv
    BY SMT DEF Init, ChainInv, Range
  <2>2. StoreInv /\ SignedDraftsValid /\ TypeOK
    BY SMT, ChainAssumption DEF Init, StoreInv, SignedDraftsValid, TypeOK
  <2>. QED
    BY <2>1, <2>2 DEF ReadInv
<1>2. ASSUME ReadInv, ChainInv', [Next]_vars PROVE ReadInv'
  <2>1. CASE Adapter
    BY <1>2, <2>1, CreateDraftRead, SubmitVersionedRead, CreateRotationDraftRead,
       SubmitLegacyRead, SignRead, PublishRead DEF Adapter
  <2>2. CASE Discard
    BY <1>2, <2>2 DEF Discard, ReadInv, StoreInv, Before, SignedDraftsValid, TypeOK
  <2>3. CASE \E owner \in Owners, auth \in Auths : OtherUpdate(owner, auth)
    BY <1>2, <2>3, OtherUpdateRead
  <2>4. CASE \E owner \in Owners : OtherLegacy(owner)
    BY <1>2, <2>4, OtherLegacyRead
  <2>5. CASE UNCHANGED vars
    BY <1>2, <2>5 DEF vars, ReadInv, StoreInv, Before, SignedDraftsValid, TypeOK
  <2>. QED
    BY <1>2, <2>1, <2>2, <2>3, <2>4, <2>5 DEF Next
<1>. QED
  BY <1>1, <1>2, ChainInvariant, PTL DEF Spec

(* Every accepted state and every draft is typed, and the states a draft   *)
(* stands on are states of the store.                                      *)
THEOREM ChainTypeCorrect == Spec => []TypeOK
<1>1. ReadInv => TypeOK
  BY DEF ReadInv
<1>. QED
  BY <1>1, ReadInvariant, PTL

(* The draft that comes back from create_draft, from submit_identity or    *)
(* from a signature is one that the constructor of IdentityDraft accepts.  *)
THEOREM DraftsAreValid == Spec => []SignedDraftsValid
<1>1. ReadInv => SignedDraftsValid
  BY DEF ReadInv
<1>. QED
  BY <1>1, ReadInvariant, PTL

(* An Identity whose chain has at most Depth transitions is read, with the *)
(* whole history, for every depth and every number of states.              *)
THEOREM ReadToTheLimit == Spec => []ReadableToTheLimit
<1>1. ReadInv => ReadableToTheLimit
  BY ReadExactly DEF ReadInv, ChainInv
<1>. QED
  BY <1>1, ReadInvariant, PTL

(* And one whose chain has more is refused by every reader: the limit      *)
(* fails closed, and neither a cut history nor a wrong one is returned.    *)
THEOREM BeyondTheLimitRefused ==
  Spec => [](store # <<>> /\ Transitions > Depth => ~Readable)
<1>1. ReadInv => (store # <<>> /\ Transitions > Depth => ~Readable)
  <2> SUFFICES ASSUME ReadInv, store # <<>>, Transitions > Depth, Readable
               PROVE  FALSE
    OBVIOUS
  <2>1. Transitions <= Depth /\ Depth \in Nat
    BY ReadExactly, ChainAssumption DEF ReadInv, ChainInv
  <2>2. Transitions \in Nat
    <3>1. PICK k \in 1..Len(store) : Anchor(k)
      BY AnchorExists DEF ReadInv, ChainInv
    <3>2. Len(store) \in Nat /\ Transitions = Len(store) - k
      BY SMT, <3>1, TransitionsForm DEF ReadInv, ChainInv
    <3>. QED
      BY SMT, <3>1, <3>2
  <2>. QED
    BY SMT, <2>1, <2>2
<1>. QED
  BY <1>1, ReadInvariant, PTL

=============================================================================
