# decent-wallet: TLA+ models and proofs

decent-wallet keeps one Ed25519 signing key in an encrypted container and uses it
to sign Identity updates for a DHT Registry. Its hardest promise is about losing
nothing: while the Identity's owner key is being replaced, no crash, delayed
write, ambiguous file operation or unlucky interleaving may leave the Identity
registered under a key the container no longer holds. The models here are about
that promise and about the components it rests on.

## The system

| Component | Source | State it keeps | Operations |
|---|---|---|---|
| Wallet session | `container.py` `Wallet` | payload (active key, pending key, dispatch intent), seeds, signer capabilities, unlocked or locked | create, open, lock, background, inactivity check, update payload, change password, export, prepare/prove/latch/bind/finalize/resolve/cancel rotation |
| Container storage | `container.py` `_atomic_write` and helpers; `AtomicWalletFiles.kt` | the container file, its staged temporary | stage, rename or link, directory sync, restore after a failed sync |
| Container format | `container.py`, `ContainerCrypto.kt`, `WalletJson.kt` | none (pure) | build, parse, encrypt, decrypt, migrate, import |
| Signer capability | `signer.py` | one private key handle, expiry, active flag, timer | sign once, cancel, invalidate, time out |
| Identity adapter | `identity.py` `RegistryAdapter` | latch registry, replay nonces, adapter token | read state, draft, sign, publish bundle, submit, prepare/dispatch/confirm rotation |
| Latch registry | `identity.py` `_RotationLatchRegistry` | per owner: one binding with its dispatch-ready flag, one re-entrant lock | register, clear, query |
| Rotation capabilities | `identity.py` `RotationPublication`, `RotationConfirmation`, `RotationDispatchRejection`; `container.py` `RotationDispatchPermit` | used or unused, the binding they stand for | consume, claim, release |
| Identity validation | `identity.py` parsing and transition checks; `IdentityStateHistory.kt` | none (pure) | parse envelope, walk history, check thresholds and transitions |
| Registry transport | `registry_transport.py`, `AndroidDirectDhtIdentityTransport.kt` | none of its own; fans out to peers | get, get by hash, independent readback, conditional put |
| Android wallet and adapter | `AndroidWallet.kt`, `AndroidIdentityAdapter.kt` | as the Python session and adapter, with locks of its own | as above, plus login proofs |
| Replay-nonce stores | `identity.py` `InMemoryReplayNonceStore`, `FileAndroidIdentityReplayNonceStore.kt` | set of consumed nonces; an fsynced journal | consume |
| Desktop command line | `desktop_cli.py` | none | local create, open, inspect commands |
| Acceptance tooling, generated protobuf | `scripts/`, `interop/`, `dht/proto/*.java` | outside the shipped wallet logic | |

How they interact. A host opens a session, asks the wallet for a pending
successor key, builds an operation-5 (owner-key rotation) draft with the adapter
and collects the proofs. The adapter obtains consent and hands out a one-use
publication. The wallet writes a dispatch intent to the container and only then
marks the adapter's latch and mints a permit. With both, the adapter dispatches
once, under the owner's lock, and reads the outcome back from an independent
peer. A confirmation lets the wallet promote the successor; a typed expiry
rejection lets it clear the intent; anything else leaves both keys and the intent
in place.

What is hard:

- storage has three outcomes: durable, not written, and unknown (the session then
  locks and either content may be on disk);
- a conditional write may arrive late, at one peer before another, or never, and
  the process may have died meanwhile;
- permits, latches and publications live in memory and die with the process, while
  the intent does not;
- consent callbacks run while the world, and the wallet itself, moves on;
- latches are compared by binding, so two objects for one bundle look the same.

What makes each component correct:

- rotation as a whole: the registered key, and every key it may still become, is
  in the container; no write without a durable intent; no second write; promotion
  only on what the peer shows; no successor is withdrawn once its write has begun; an
  accepted rotation is eventually promoted;
- wallet session: an unlocked session works on what the container holds;
- storage: after any fault or crash the file is the old or the new content, and a
  reported failure means the old one;
- signer: at most one signature per capability, none after lock or time-out;
- identity validation: version-1 histories chain by hash and sequence and carry
  the thresholds of the predecessor;
- replay nonces: one success per nonce, across processes and torn writes;
- the Android fan-out: a candidate goes to the configured peers one after another
  and stops at the first that does not acknowledge; what has stopped is not taken up
  again, neither by another publication nor after a restart;
- login proofs: one per session and challenge, never by a key that is being replaced.

## The models

| Module | Models | Composes or uses |
|---|---|---|
| `KeyHandover` | what a rotation promises, in Python and on Android (abstract) | |
| `OwnerKeyRotation` | rotation in Python from the pending key to the promotion: wallet session, container content, latch registry, publications, permits, confirmations, two views of the Registry | refines `KeyHandover` |
| `OwnerKeyRotationProofs` | its typing, inductive invariant and one lemma per step; the theorems | |
| `AtomicFile` | what a container write promises (abstract) | |
| `ContainerStorage`, `-Proofs` | `_atomic_write` down to the system call, and its callers | refines `AtomicFile` |
| `IdentitySubmission`, `-Proofs` | `submit_identity`, `publish_bundle`, the rotation calls that share their two locks, signer capabilities | |
| `IdentityChain`, `-Proofs` | the Identity itself: drafts, proofs, the signer's own check, finalization, the readers of one envelope and of a chain, acceptance | |
| `AndroidStorage`, `-Proofs` | `AtomicWalletFiles` and the sessions and imports above it | |
| `AndroidRotation` | rotation and login proofs in the Android library: sessions of one process on one file, adapter, direct DHT transport, one Registry state per peer | refines `KeyHandover` |
| `AndroidRotationInvariant`, `-Proofs` | its inductive invariant and one lemma per step; the theorems | the second extends the first |
| `ReplayJournal`, `-Proofs` | `FileAndroidIdentityReplayNonceStore` | |
| `MCRotation`, `MCStorage`, `MCSubmission`, `MCChain`, `MCAndroidStorage`, `MCAndroidRotation`, `MCJournal` | instances for TLC | |

The larger modules rest on the smaller ones by their promises. `OwnerKeyRotation`
and `AndroidRotation` persist in one step whose outcome is durable, nothing, or
unknown: that is what `ContainerStorage` is shown to implement for a session's
persist, and what `AndroidStorage` is shown to report truthfully. In
`IdentitySubmission` a dispatch is one step that takes the owner lock: its inside
is the subject of `OwnerKeyRotation`. All of these treat an Identity update as
valid or not; what makes it valid is the subject of `IdentityChain`, where every
call is one step.

### State and actions

**Key handover.** Five variables: the active and the pending key, whether a
publication of the pending key may be under way (`begun`), the owner key the readback
peer shows (`served`) and every key generated (`used`). A successor is proposed,
withdrawn while nothing has begun, published, served, promoted; no other step changes
any of the five. Both wallets map the first two to the container file and `begun` to
"the put of the stored intent has been sent" (`Begun`), so that a session, a permit, a
crash or a storage outcome can show in the handover only through them.

**Rotation.** `disk` and `session` are the payload of the container file and of
`Wallet._payload` (active key, pending key, intent); `gate` is the owner's entry of
`_RotationLatchRegistry`; `phase`, `artifact`, `expired` and `rejection` are the
fields of the `RotationPublication` objects; `permits`, `confirming` and
`confirmations` what the host holds; `head` the accepted state behind the ordinary
reads and behind the readback peer; `net` the writes begun. One action per wallet
operation. Adapter calls are split where they wait or can be overtaken:
`prepare` at its consent callback, `dispatch` at its lock, its put and its
readback, `confirm` at its read, `bind_legacy` at its consent. `Crash` drops
everything but `disk`, the Registry and the bundles the host saved. A call that raises before it
changes anything has no action. Keys stand for seed and public key; a bundle is
the state it replaces and the successor key, so that two artifacts of one bundle
are equal, as their bindings are in the code.

**Container storage (Python).** `view` is what the path shows, `may` what it can
show after a power failure: a change of the name adds to `may`, a directory sync
reduces it to `view`. `held` is the session's envelope. Every system call is an
action that may fail; so may the session that `_create_storage` builds after its
write, whereupon the new file is unlinked as far as possible and nothing is synced.

**Submission.** `head` is the sequence of accepted updates by nonce, `inFlight` the
puts that may still arrive; `rotationLock` and `ownerLock` the two locks; `pc` the
program counter of each thread. Every expiry check may find the consent expired. A
replay-nonce store that raises may have recorded the nonce or not; the call ends as
if the nonce had been spent.

**Identity chain.** `store` is the sequence of accepted envelopes, `bundle` the draft
a host collects proofs for. The code writes the transition rules out six times: in
`create_draft` and the rotation draft, in the draft's constructor, where a proof is
asked for, in the signer, in `finalize`, and in the parser with its history walk.
Each is an operator translated from its own lines; the properties say that they
agree with each other and with a reference rule (`SoundAnchor`, `SoundStep`). A hash
is the update it was computed from, a proof is a signer ID and a key. Other clients
write too: `OtherUpdate` any version-1 envelope the parser accepts after the current
state, `OtherLegacy` a legacy envelope of any owner key after any state, which is all
the parser asks of one (`identity.py:1191`). The Registry is taken to accept only the
next sequence number, which the specification (line 271) makes its task.

**Container storage (Android).** A content is the set of updates that went into it,
so a lost or resurrected update is visible. `acked` and `refused` are the reports.
`OneCopy` keeps sessions and imports of other processes apart, as
`docs/specs/wallet-implementation.md:230` asks of a host.

**Rotation and login (Android).** `disk` is the container; `session` what each
`WalletSession` holds, and `current` whether its `rawContainer` is still what the
file shows: `persistPayloadCandidate` replaces the file only then. `permit` is
`activeOwnerKeyRotationPermit`; unlike in Python it is compared by identity, so a
rejection belongs to one publication. `phase` is how far a publication has come:
`permitted` and `begun` around `beginDispatch`, `checked` after the adapter's read,
`fanout` and `waiting` inside `putIdentityEnvelopeIfCurrent`, then `clearable` or
`ambiguous`, the two kinds of failure, and `done`. `sent` counts the peers put to.
`head` is what each peer shows; `net` keeps every put, each of which may arrive late
or never, and a peer may acknowledge a put it does not store: the client takes the
echo of the record for an answer. `over` records the drafts whose fan-out ended after
a put (a history variable, read by no action). A login call waits for consent without
the session's monitor (`login`), its challenge in `reserved`; `signed` records the
proofs made. `ProcessLoss` leaves the file, the keys on it and the Registry.

**Replay journal.** `log` is the whole records, each with its digest or `Garbage`
and how far it is on disk; `torn` says that a part of a record follows.

## Runs

| Run | Instance | Question |
|---|---|---|
| `rotation_twice` | 3 keys, 1 publication object, 2 realms, sequence up to 3 | safety of two successive rotations, from a fresh or a legacy latched container; refinement |
| `rotation_recovery` | 3 keys, 2 publication objects, 2 realms, sequence up to 2 | two objects beside each other; an accepted rotation is promoted |
| `rotation_reprepared` | 2 publications of one bundle | violation, see below |
| `storage_writes` | 3 contents | failures, crashes and power failures between all system calls; refinement |
| `storage_failed_create` | 2 contents | violation, see below |
| `submission_threads` | one submitting, publishing and rotating thread, 2 nonces, 1 accepted state | exclusion of ordinary writes and latch; nonces and reports with late and lost puts; who can block whom |
| `submission_returns` | one submitting, one rotating thread | violation, see below |
| `identity_chain` | 2 owner keys, 4 signer sets, depth limit 2, 4 accepted states | the places that write the rules out agree; version-1 states, and all this library writes, are accepted only where the reference rule allows; other clients write anything the parser takes |
| `chain_limit` | as above | violation, see below |
| `android_storage` | 2 sessions, 2 importing processes, 4 updates | reports of success and failure hold ever after |
| `android_rotation` | 3 keys, 2 sessions, 2 publications, 2 login calls, 2 peers, sequence up to 2 | no put outlives its key, no peer is put to twice, no fan-out is resumed, login proofs; refinement |
| `journal_processes` | 3 threads in 2 processes, 3 digests, room for 2 records | one grant per digest, never forgotten |

Bounds. Two rotations need three keys and three sequence numbers; the second
rotation meets writes, gates, permits and confirmations of the first. Two
publication objects already share a binding. Three contents tell the old, the new
and a still older one apart. Two nonces let a submission and a publication both
get past the reservation. With one accepted state two accepted writes of one nonce
cannot show, only one accepted and one under way, or two under way; the instance with
two accepted states (4.2 million) holds as well, and the theorem covers any number.
Four accepted states reach every operation (legacy,
genesis, ordinary, replacement, upgrade, rotation) and go beyond the depth limit of
two, which is a constant of the model. Four updates let each Android session and
importer make one. Two peers are a primary one and another that is read back from,
so a fan-out can stop half-way; sequence numbers up to two allow one accepted
rotation, while a cancelled and a new successor use the third key. Two larger
instances hold as well and are not among the runs: a third peer between the two, and
sequence numbers up to three, in which two rotations succeed (1.9 million states).
The third digest is refused by a
journal with room for two. Where a theorem exists the bounds do not matter for it.

Deadlock is checked except in the submission runs, where two threads really can wait
for each other, and in the chain runs, which end when the states are used up.

Fairness. `AcceptedIsPromoted` assumes (`Recovery`) that a started dispatch goes on,
that crashes stop, and that the host keeps opening, binding, confirming and
finalizing, each of which succeeds if tried again and again; the code never
promotes by itself, so without a persistent host nothing is promised.
`CallsReturn` assumes that threads run, users answer, transports return and that
a lock that is free again and again is got in the end. It fails, for the one reason
that `OnlySignerBlocks` admits: a call waits only for a call that is running, and
two calls can block each other only around the signer that `submit_identity` makes
under the owner lock. No liveness is stated for Android: promotion there is, as in
Python, left to the host. Its legacy binding asks for consent inside the session's
monitor and checks lock and intent again after it, which is why it is one action.

### Disagreements found

- `rotation_reprepared`: publications of one bundle share permit and latch, because
  both are compared by binding (`identity.py:2065`). If the host prepares a bundle
  twice, the expiry rejection of one publication can clear the intent under which
  the other one begins its write, and the successor key can be cancelled. ADR 0001
  (line 58) keeps both keys after any outcome that may have reached the Registry.
- `storage_failed_create`: when the staged file cannot be removed after the link
  and the link cannot be removed either, creation reports `StorageFailure` with the
  container in place (`container.py:525`; likewise when no session can be built after
  the write); `tests/test_container.py:578` and the
  specification (line 214) say otherwise. `ContainerStorage` therefore reads the
  failure of a create or import as an unknown outcome in its refinement.
- `submission_returns`: latch, finalize and resolve wait for the owner lock with the
  wallet's lock in hand (`container.py:1240`); `submit_identity` holds the owner lock
  when its factory asks the wallet for a signer. Both can wait for ever.
- `chain_limit`: a draft on a state with 1,024 transitions is made, proved, finalized
  and published (`identity.py:297` compares with `>`), and the state it leads to is
  refused by every later read (`identity.py:1662` compares with `>=`). The repository's
  `README.md:105` says that chains beyond the limit fail closed: the update that exceeds it does not.

## Proofs

All theorems are of the form `Spec => []Inv`, `Spec => [][A]_vars` or a refinement,
for every value of the constants. They assume only what the modules' `ASSUME`s say
(distinct model values, finite bounds as natural numbers), and the rotation
theorems also `~HostReprepares`: the host keeps one outstanding publication per
bundle. `rotation_reprepared` shows that they need it.

- **Rotation** (`RotationInv`). A rotation write that has begun is the one the
  container's intent names, or a promotion has caught up with it (`NetInv`). An
  intent is cleared otherwise only by an expiry rejection, and a publication that
  has one, or can still get one, has begun no write (`RejectionInv`, `DispatchInv`,
  `GateInv`); no other publication of the bundle can begin it behind its back
  (`OneOutstanding`). `GateInv` is the part that is easy to miss: a publication that
  has not been dispatched yet is let in by any dispatch-ready gate with its binding,
  so already then the intent must be durable and the write not begun. From this
  follow `RegisteredKeyIsHeld`, `DispatchedSuccessorIsHeld`, `WritesUnderDurableLatch`,
  `NoWriteIsRepeated` and `PromotionIsObserved`. `TypeCorrect` holds for any host.
  `RotationImplementsHandover` maps each step to one of `KeyHandover` or to a stutter:
  latching stutters because the write of a bundle of the active key has not begun
  before it is latched (`NetInv`); resolving, because the write of a rejected
  publication has not begun at all (`RejectionInv`). A write that changes the key the
  peer shows is the latched one, and a promotion finds that key to be the pending one
  (`ConfirmedInv`, `RemoteInv`).
- **Container storage** (`StorageInv`). At each step of a write the path shows the
  old or the new content, what a power failure can leave is bounded by the content
  before the call and what the call showed since, and after a verified restore and
  sync only the old content is left. `WritesImplementAtomicFile` maps each step to a
  step of `AtomicFile` or to a stutter; `SessionIsFile` and `ExistingContainerIsKept`
  follow from the invariant.
- **Submission** (`SubmissionInv`). `LockInv` reads the holders of both locks off the
  program counters; `GateInv` says what the holder of a lock has established and
  nobody else can undo. `NonceInv` says that at most one call owns a consumed nonce
  and that an owned nonce has not been sent until its call reads back.
  `OnlyTheSignerBlocks` follows from `LockInv`.
- **Identity chain** (`ChainInv`). The signer sets of what was accepted are well formed
  and two of three, so that two proofs are two signers'; and a draft follows the state
  it was made on, which the parser does not ask of a legacy update. From this follow
  `AcceptedIsSound`, about every step that adds a version-1 state or is a write of this
  library (a legacy envelope of another client is accepted after any state, and
  nothing is claimed of it), `AuthorityIsServed` (whoever has authority over a draft is asked
  and can sign, those a replacement removes included) and `AuthorityIsEnough`.
- **Reading the chain** (`ReadInv`). The reader follows predecessor hashes back from the
  newest state, so the invariant adds that every stored state is accepted after the
  one before it and that its sequence number is its place: no two states have one
  hash, and a hash leads to the state before (`PredecessorFound`). `Fetched` is
  recursive. `FetchedForm` shows by induction on the number of links, as the absence
  of a least counterexample (`LeastNat`, from the well-foundedness of the naturals),
  that it is the newest part of the store, back to the last state that needs no
  predecessor or as far as the limit lets it go. `ReadExactly` turns this into: a chain
  is readable if and only if it has at most `Depth` transitions. From this follow
  `ReadToTheLimit` and `BeyondTheLimitRefused`, and, since drafts are made on what is
  read, `DraftsAreValid` and `ChainTypeCorrect`.
- **Replay journal** (`JournalInv`). The holder of the file lock is the only thread at
  work on the journal (`LockInv`); its digest is in no record until it has appended
  one, and while it forces that record the digest has not been granted (`HolderInv`).
  A grant comes only with a forced record, and every other step, torn appends, cuts
  back and power failures included, keeps forced records in place (`KeepsForced`).
  Hence `NonceIsRemembered`, and with it `NonceIsGrantedOnce`: a later scan finds the
  record and refuses. `JournalTypeCorrect` bounds the journal by `MaxRecords`.
- **Android storage** (`AndroidStorageInv`). The update of a running call is in no
  session, in no other call and in no report (`ApartInv`); it is in no file before it
  is installed nor after it was undone (`HiddenInv`); and what the path shows at each
  step is known (`ViewInv`), since the path lock, the install lock and `OneCopy` keep
  others away. Hence success and failure may be reported and stay true.
- **Android rotation** (`AndroidRotationInv`). A publication that may still send, and
  every put sent, has its draft latched on file or was promoted meanwhile (`Kept`); no
  two such publications share a draft (`OneLive`), since a draft is latched only while
  its successor is pending and no intent is stored. A permit held by an up-to-date
  session that has sent nothing means that nobody sent the latched draft
  (`PermitInv`): that is what makes clearing the intent on a rejection safe. From this
  follow `SentSuccessorStays`, `PutsAreNotRepeated` and `ProofsByUnrotatedKey`; no
  assumption about the host is needed, because permits are compared by identity.
  `FanOutsAreNotResumed` needs a second invariant (`OverInv`): a draft whose fan-out
  ended has a put in `net` and no publication that may still send. A restart ends every
  fan-out; a draft is latched anew only while nobody has sent it, so none comes back.
  `ProofsAreNotRepeated` rests on `LoginInv`. `RotationImplementsHandover` follows
  from the invariant with two more parts and gives Android the same promise as Python:
  `PermitInv` makes the resolution of a rejection a stutter; the readback peer shows the
  active key or the pending one whose put was sent (`ReadbackInv`); a confirmation of
  the pending key was seen there (`TokenInv`), so a promotion finds it; and an outdated session, whose replacement of the
  file is refused, at most generates a key in vain.

The proof for Android rotation is split in two modules: an `-Invariant` module with the
invariant and lemmas about steps, and a `-Proofs` module with the rest and the
theorems. In every proof module Zenon is the prover of a leaf that names none, and
the leaves that need arithmetic, records, function updates or sequences name SMT.

Only model-checked: `AcceptedIsPromoted`, as liveness under fairness is outside the
proof system used. Every other property that a passing run checks is also a theorem.
`ReadInv` and `JournalInv` are not among the runs' invariants; they hold on the
instances of `identity_chain` and `journal_processes` when added there.

## Not modelled

- The history verifier of the Android library (`IdentityStateHistory.kt`) as a second
  implementation: a pure function with the task of the reader in `IdentityChain`.
  That the two agree is not shown here.
- Container encoding, key derivation and encryption, the bytes a signer accepts and the
  JSON of login requests: byte-level or cryptographic, without state.
- The Kad-DHT RPC client and the libp2p run of the Python transport: input and output,
  present as requests that succeed, fail, or fail and arrive later.
- The desktop command line (one library call per command), acceptance tooling, interop
  hosts and generated protobuf code.
- Two sessions on one file in Python, whose contract is one active copy; other
  processes beside an Android rotation (`AndroidStorage` has imports by others).
- A second process that creates a container while a creation runs: the guard of `Link`
  is the file system's promise that `os.link` refuses an existing name.
- Which key the other Android peers serve. Nothing is claimed of it: a promotion asks
  the readback peer alone, so a peer that was skipped, or that acknowledged without
  storing, may go on serving the predecessor, as ADR 0006 (line 27) accepts.
- A power failure keeps the name of the replay journal, although the code never syncs
  its directory.

## Plan

Done, in this order: rotation; container storage with its abstract file; submission
beside rotation; Android storage; the replay journal; the Identity chain; Android
rotation with its fan-out and login proofs; the key handover that both rotations
implement.

Next: the history walk of `IdentityStateHistory.kt` beside the one of `identity.py`,
over the chains of `IdentityChain`.
