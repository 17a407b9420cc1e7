--------------------------- MODULE AndroidRotation --------------------------
(***************************************************************************)
(* Owner-key rotation and login proofs in the Android wallet: the sessions *)
(* of one process over one container file (AndroidWallet.kt), the adapter  *)
(* with its one-use tokens (AndroidIdentityAdapter.kt) and the direct DHT  *)
(* transport, which puts a candidate to its peers one after another        *)
(* (AndroidDirectDhtIdentityTransport.kt).                                 *)
(*                                                                         *)
(* A container is its active key, pending key and dispatch intent.  A key  *)
(* stands for seed and public key, an Identity state for its owner key and *)
(* sequence number, a draft for the state it replaces and the successor.   *)
(* A permit is named by its publication: each publication is given at most *)
(* one.  What AtomicWalletFiles does for one replacement is in             *)
(* AndroidStorage; here it succeeds, fails, or leaves either content.      *)
(*                                                                         *)
(* A call that throws before it changes anything has no action.            *)
(***************************************************************************)
EXTENDS Naturals, Sequences

CONSTANTS
  Keys, FirstKey,   \* key pairs; the one the wallet was created with
  Sessions,         \* WalletSession objects of the process
  Publications,     \* OwnerKeyRotationPublication objects, with their draft
  Logins,           \* concurrent calls of createWalletLoginProofRequest
  Challenges,       \* login challenges
  HistoryPeers,     \* the configured peers, the readback peer last if any
  ReadbackPeer,     \* the peer getRemoteIdentityEnvelope asks
  None, Locked,
  MaxSeq            \* bound on the Identity sequence number

Peers == {HistoryPeers[i] : i \in DOMAIN HistoryPeers}

PrimaryPeer == HistoryPeers[1]

(* readbackPeer ?: primaryPeer, and historyPeers ends with readbackPeer.   *)
ASSUME AndroidRotationAssumption ==
  /\ FirstKey \in Keys /\ MaxSeq \in Nat
  /\ HistoryPeers \in Seq(Peers) /\ HistoryPeers # <<>>
  /\ \A i, j \in DOMAIN HistoryPeers :
       HistoryPeers[i] = HistoryPeers[j] => i = j
  /\ ReadbackPeer \in {PrimaryPeer, HistoryPeers[Len(HistoryPeers)]}

States  == [key : Keys, seq : Nat]
Drafts  == [prev : States, key : Keys]
Intents == [draft : Drafts, bound : BOOLEAN]    \* bound: environment is set
Content == [active : Keys, pending : Keys \cup {None},
            intent : Intents \cup {None}]

ASSUME DistinctAssumption ==
  /\ None \notin Keys /\ None \notin Drafts /\ None \notin Intents
  /\ None \notin Publications /\ Locked \notin Content

Phases == {"free", "drafted", "ready", "void", "permitted", "begun", "checked",
           "fanout", "waiting", "clearable", "ambiguous", "done"}

VARIABLES
  disk,            \* the container file
  session,         \* per session: walletPayload, or Locked
  current,         \* per session: is rawContainer what the file holds?
  permit,          \* per session: activeOwnerKeyRotationPermit
  reserved,        \* per session: activeWalletLoginChallenges
  signed,          \* per session: challenges it made a proof for (history)
  login,           \* per login call: session and challenge, in consent
  generated, retired,              \* keys generated; replaced by promotion
  phase, draft, expired, sent,     \* per publication; sent counts peers
  rejections, confirmations,       \* tokens the host holds
  head,            \* per peer: the state it shows
  net,             \* puts sent, each of which may arrive late or never
  over             \* drafts with puts sent and none to follow (history)

sessionVars == <<session, current, permit, reserved, signed, login>>
keyVars     == <<generated, retired>>
pubVars     == <<phase, draft, expired, sent>>
tokens      == <<rejections, confirmations>>
registry    == <<head, net, over>>
vars == <<disk, sessionVars, keyVars, pubVars, tokens, registry>>

-----------------------------------------------------------------------------
Head1 == [key |-> FirstKey, seq |-> 1]

Candidate(d) == [key |-> d.key, seq |-> d.prev.seq + 1]

Unlocked(s) == session[s] # Locked

(* The container or a permit says that a rotation is under way.            *)
Rotating(s) == session[s].intent # None \/ permit[s] # None

IntentOf(p) == [draft |-> draft[p], bound |-> TRUE]

(* What a process has when it starts: no open session and no objects.      *)
ForSessions(v) == [s \in Sessions |-> v]
ForPublications(v) == [p \in Publications |-> v]
NoLogin == [l \in Logins |-> None]

(* A new wallet, or one that an earlier release left with an intent that   *)
(* has no environment, its put not sent or sent to the primary peer.       *)
Init ==
  /\ session = ForSessions(Locked) /\ current = ForSessions(FALSE)
  /\ permit = ForSessions(None)
  /\ reserved = ForSessions({}) /\ signed = ForSessions({}) /\ login = NoLogin
  /\ draft = ForPublications(None)
  /\ phase = ForPublications("free")
  /\ expired = ForPublications(FALSE) /\ sent = ForPublications(0)
  /\ rejections = {} /\ confirmations = {} /\ retired = {}
  /\ head = [q \in Peers |-> Head1]
  /\ \/ /\ disk = [active |-> FirstKey, pending |-> None, intent |-> None]
        /\ generated = {FirstKey} /\ net = {}
     \/ \E k \in Keys \ {FirstKey}, n \in 0..1 :
          LET d == [prev |-> Head1, key |-> k] IN
          /\ disk = [active |-> FirstKey, pending |-> k,
                     intent |-> [draft |-> d, bound |-> FALSE]]
          /\ generated = {FirstKey, k}
          /\ net = {[peer |-> HistoryPeers[i], draft |-> d] : i \in 1..n}
  /\ over = {x.draft : x \in net}

-----------------------------------------------------------------------------
(* The session.                                                            *)

(* lock: whatever the session held is wiped; a login call that waits for   *)
(* consent can only fail.                                                  *)
Wiped(s) ==
  /\ session' = [session EXCEPT ![s] = Locked]
  /\ permit' = [permit EXCEPT ![s] = None]
  /\ reserved' = [reserved EXCEPT ![s] = {}]
  /\ signed' = [signed EXCEPT ![s] = {}]
  /\ login' = [l \in Logins |->
                 IF login[l] # None /\ login[l].session = s THEN None
                 ELSE login[l]]

(* persistPayloadCandidate: the file is replaced by c and the session      *)
(* takes c over; every other session then holds an outdated container.     *)
Installed(s, c) ==
  /\ current[s]
  /\ disk' = c
  /\ session' = [session EXCEPT ![s] = c]
  /\ current' = [t \in Sessions |-> t = s]

\* Mutant: the session goes on as if nothing had been written.
LostKeepsSession(s, c) ==
  /\ UNCHANGED sessionVars
  /\ current[s] /\ disk' = c

(* The outcome is unknown, or the file was not the one this session read:  *)
(* the session locks itself.                                               *)
Lost(s, c) ==
  /\ Wiped(s)
  /\ \/ current' = [current EXCEPT ![s] = FALSE] /\ UNCHANGED disk
     \/ current[s] /\ disk' = c /\ current' = [t \in Sessions |-> FALSE]

(* AndroidWallet.open returns a new session object.                        *)
Open(s) ==
  /\ session[s] = Locked
  /\ session' = [session EXCEPT ![s] = disk]
  /\ current' = [current EXCEPT ![s] = TRUE]
  /\ UNCHANGED <<disk, permit, reserved, signed, login, keyVars,
                 pubVars, tokens, registry>>

Lock(s) ==
  /\ Unlocked(s) /\ Wiped(s)
  /\ current' = [current EXCEPT ![s] = FALSE]
  /\ UNCHANGED <<disk, keyVars, pubVars, tokens, registry>>

PrepareSigningKeyRotation(s) ==
  /\ Unlocked(s) /\ session[s].intent = None /\ session[s].pending = None
  /\ \E k \in Keys \ generated :
       LET c == [session[s] EXCEPT !.pending = k] IN
       /\ generated' = generated \cup {k}
       /\ \/ Installed(s, c) /\ UNCHANGED <<permit, reserved, signed, login>>
          \/ Lost(s, c)
  /\ UNCHANGED <<retired, pubVars, tokens, registry>>

CancelSigningKeyRotation(s) ==
  /\ Unlocked(s) /\ session[s].intent = None /\ session[s].pending # None
  /\ LET c == [session[s] EXCEPT !.pending = None] IN
     \/ Installed(s, c) /\ UNCHANGED <<permit, reserved, signed, login>>
     \/ Lost(s, c)
  /\ UNCHANGED <<keyVars, pubVars, tokens, registry>>

(* createVersionedOwnerKeyRotationDraft of adapter and session: operation  *)
(* 5 over the state the primary peer shows, signed by the active key.      *)
CreateOwnerKeyRotationDraft(s, p) ==
  /\ Unlocked(s) /\ session[s].intent = None /\ session[s].pending # None
  /\ phase[p] = "free"
  /\ head[PrimaryPeer].key = session[s].active
  /\ head[PrimaryPeer].seq < MaxSeq
  /\ draft' = [draft EXCEPT ![p] = [prev |-> head[PrimaryPeer],
                                    key |-> session[s].pending]]
  /\ phase' = [phase EXCEPT ![p] = "drafted"]
  /\ UNCHANGED <<disk, sessionVars, keyVars, expired, sent, tokens, registry>>

(* The consent callback runs inside the synchronized method.               *)
BindLegacyRotationDispatchEnvironment(s) ==
  /\ Unlocked(s) /\ session[s].intent # None /\ ~session[s].intent.bound
  /\ LET c == [session[s] EXCEPT !.intent.bound = TRUE] IN
     \/ Installed(s, c) /\ UNCHANGED <<permit, reserved, signed, login>>
     \/ Lost(s, c)
  /\ UNCHANGED <<keyVars, pubVars, tokens, registry>>

(* The publication is claimed before the keys are compared and before the  *)
(* intent is persisted: whatever fails after that uses it up.              *)
LatchOwnerKeyRotationDispatchIntent(s, p) ==
  /\ Unlocked(s) /\ ~Rotating(s)
  /\ phase[p] = "ready" /\ ~expired[p]
  /\ LET c == [session[s] EXCEPT !.intent = IntentOf(p)]
         matches == /\ session[s].active = draft[p].prev.key
                    /\ session[s].pending = draft[p].key
     IN \/ /\ matches /\ Installed(s, c)
           /\ permit' = [permit EXCEPT ![s] = p]
           /\ phase' = [phase EXCEPT ![p] = "permitted"]
           /\ UNCHANGED <<reserved, signed, login>>
        \/ /\ matches /\ Lost(s, c)
           /\ phase' = [phase EXCEPT ![p] = "void"]
        \/ /\ phase' = [phase EXCEPT ![p] = "void"]   \* mismatch or failure
           /\ UNCHANGED <<disk, sessionVars>>
  /\ UNCHANGED <<keyVars, draft, expired, sent, tokens, registry>>

\* Mutant: a rejection is compared by its intent, not by its permit.
ResolveByIntent(s) ==
  /\ Unlocked(s) /\ session[s].intent # None /\ permit[s] # None
  /\ \E p \in rejections :
       /\ IntentOf(p) = session[s].intent
       /\ LET c == [session[s] EXCEPT !.intent = None] IN
          \/ /\ Installed(s, c)
             /\ permit' = [permit EXCEPT ![s] = None]
             /\ rejections' = rejections \ {p}
             /\ UNCHANGED <<reserved, signed, login>>
          \/ Lost(s, c) /\ UNCHANGED rejections
  /\ UNCHANGED <<keyVars, pubVars, confirmations, registry>>

ResolveOwnerKeyRotationDispatchRejection(s) ==
  /\ Unlocked(s) /\ session[s].intent # None /\ permit[s] # None
  /\ \E p \in rejections :
       /\ p = permit[s] /\ IntentOf(p) = session[s].intent
       /\ LET c == [session[s] EXCEPT !.intent = None] IN
          \/ /\ Installed(s, c)
             /\ permit' = [permit EXCEPT ![s] = None]
             /\ rejections' = rejections \ {p}
             /\ UNCHANGED <<reserved, signed, login>>
          \/ Lost(s, c) /\ UNCHANGED rejections
  /\ UNCHANGED <<keyVars, pubVars, confirmations, registry>>

(* Needs a confirmation of the stored intent, not the permit.              *)
FinalizeSigningKeyRotation(s) ==
  /\ Unlocked(s) /\ session[s].intent \in confirmations
  /\ session[s].active = session[s].intent.draft.prev.key
  /\ session[s].pending = session[s].intent.draft.key
  /\ LET c == [active |-> session[s].pending, pending |-> None,
               intent |-> None]
     IN \/ /\ Installed(s, c)
           /\ permit' = [permit EXCEPT ![s] = None]
           /\ UNCHANGED <<reserved, signed, login>>
        \/ Lost(s, c)
  /\ retired' = IF disk' = disk THEN retired ELSE retired \cup {disk.active}
  /\ UNCHANGED <<generated, pubVars, tokens, registry>>

-----------------------------------------------------------------------------
(* Login proofs: a challenge is reserved, the consent callback runs        *)
(* without the session's monitor, and the proof is signed under it.        *)

\* Mutant: the reservation is made inside the try block that releases it.
ReserveInsideTry(l) ==
  \E s \in Sessions, c \in Challenges :
    /\ login[l] = None /\ Unlocked(s) /\ ~Rotating(s)
    /\ IF c \in reserved[s]
       THEN /\ reserved' = [reserved EXCEPT ![s] = @ \ {c}]
            /\ UNCHANGED login
       ELSE /\ reserved' = [reserved EXCEPT ![s] = @ \cup {c}]
            /\ login' = [login EXCEPT ![l] =
                           [session |-> s, challenge |-> c]]
    /\ UNCHANGED <<disk, session, current, permit, signed, keyVars,
                   pubVars, tokens, registry>>

ReserveLoginProofChallenge(l) ==
  \E s \in Sessions, c \in Challenges :
    /\ login[l] = None /\ Unlocked(s) /\ ~Rotating(s)
    /\ c \notin reserved[s]
    /\ reserved' = [reserved EXCEPT ![s] = @ \cup {c}]
    /\ login' = [login EXCEPT ![l] = [session |-> s, challenge |-> c]]
    /\ UNCHANGED <<disk, session, current, permit, signed, keyVars,
                   pubVars, tokens, registry>>

(* Consent refused, challenge expired, or a rotation latched meanwhile.    *)
LoginProofFails(l) ==
  /\ login[l] # None
  /\ reserved' = [reserved EXCEPT ![login[l].session] =
                    @ \ {login[l].challenge}]
  /\ login' = [login EXCEPT ![l] = None]
  /\ UNCHANGED <<disk, session, current, permit, signed, keyVars,
                 pubVars, tokens, registry>>

\* Mutant: the session is not asked again after the consent callback.
LoginStillAllowedUnchecked(s) == Unlocked(s)

LoginStillAllowed(s) == Unlocked(s) /\ ~Rotating(s)

SignLoginProof(l) ==
  /\ login[l] # None /\ LoginStillAllowed(login[l].session)
  /\ signed' = [signed EXCEPT ![login[l].session] =
                  @ \cup {login[l].challenge}]
  /\ login' = [login EXCEPT ![l] = None]
  /\ UNCHANGED <<disk, session, current, permit, reserved, keyVars,
                 pubVars, tokens, registry>>

-----------------------------------------------------------------------------
(* The adapter.                                                            *)

Goto(p, to) == phase' = [phase EXCEPT ![p] = to]

(* The candidate, of a draft of its own or one already used, is verified   *)
(* against the primary peer before and after consent; the second read      *)
(* decides what the publication stands for.                                *)
PrepareOwnerKeyRotationPublication(p) ==
  /\ phase[p] \in {"free", "drafted"}
  /\ \E q \in Publications :
       /\ draft[q] # None /\ (phase[p] = "drafted" => q = p)
       /\ head[PrimaryPeer] = draft[q].prev
       /\ draft' = [draft EXCEPT ![p] = draft[q]]
  /\ Goto(p, "ready")
  /\ UNCHANGED <<disk, sessionVars, keyVars, expired, sent, tokens, registry>>

(* The clock passes expiresAt.                                             *)
Expire(p) ==
  /\ phase[p] \in {"ready", "permitted", "begun", "checked", "fanout",
                   "waiting"}
  /\ ~expired[p]
  /\ expired' = [expired EXCEPT ![p] = TRUE]
  /\ UNCHANGED <<disk, sessionVars, keyVars, phase, draft, sent,
                 tokens, registry>>

\* Mutant: dispatchStarted is read but never set.
BeginDispatchAgain(p) ==
  /\ phase[p] \in {"permitted", "done"}
  /\ Goto(p, "begun")
  /\ sent' = [sent EXCEPT ![p] = 0]
  /\ UNCHANGED <<disk, sessionVars, keyVars, draft, expired, tokens,
                 registry>>

(* dispatchOwnerKeyRotation: the permit is used up.                        *)
BeginDispatch(p) ==
  /\ phase[p] = "permitted"
  /\ Goto(p, "begun")
  /\ UNCHANGED <<disk, sessionVars, keyVars, draft, expired, sent,
                 tokens, registry>>

(* The read before the put fails or shows another state: not clearable.    *)
CheckCurrent(p) ==
  /\ phase[p] = "begun"
  /\ \/ Goto(p, "ambiguous")
     \/ /\ head[PrimaryPeer] = draft[p].prev
        /\ Goto(p, IF expired[p] THEN "clearable" ELSE "checked")
  /\ UNCHANGED <<disk, sessionVars, keyVars, draft, expired, sent,
                 tokens, registry>>

(* confirmObservedCandidate on a fresh read of the readback peer.          *)
Observed(i) == i.bound /\ head[ReadbackPeer] = Candidate(i.draft)

(* prewriteFailure of a clearable failure: CONFIRMED, the typed EXPIRED    *)
(* rejection, or UNKNOWN because the read failed.                          *)
PrewriteFailure(p) ==
  /\ phase[p] = "clearable"
  /\ \/ /\ Observed(IntentOf(p))
        /\ confirmations' = confirmations \cup {IntentOf(p)}
        /\ UNCHANGED rejections
     \/ /\ ~Observed(IntentOf(p))
        /\ rejections' = rejections \cup {p}
        /\ UNCHANGED confirmations
     \/ UNCHANGED tokens
  /\ Goto(p, "done")
  /\ UNCHANGED <<disk, sessionVars, keyVars, draft, expired, sent,
                 registry>>

(* After the put, a failed put or a failure that is not clearable: a fresh *)
(* read gives CONFIRMED or UNKNOWN.                                        *)
ReadBack(p) ==
  /\ phase[p] = "ambiguous"
  /\ \/ /\ Observed(IntentOf(p))
        /\ confirmations' = confirmations \cup {IntentOf(p)}
     \/ UNCHANGED confirmations
  /\ Goto(p, "done")
  /\ UNCHANGED <<disk, sessionVars, keyVars, draft, expired, sent,
                 rejections, registry>>

(* confirmOwnerKeyRotation of a stored intent, also after a restart.       *)
ConfirmOwnerKeyRotation(s) ==
  /\ Unlocked(s) /\ session[s].intent # None /\ Observed(session[s].intent)
  /\ confirmations' = confirmations \cup {session[s].intent}
  /\ UNCHANGED <<disk, sessionVars, keyVars, pubVars, rejections,
                 registry>>

-----------------------------------------------------------------------------
(* The transport.                                                          *)

(* putIdentityEnvelopeIfCurrent up to the fan-out: the primary peer is     *)
(* read twice, then the deadline.                                          *)
PutIfCurrent(p) ==
  /\ phase[p] = "checked"
  /\ \/ Goto(p, "ambiguous")
     \/ /\ head[PrimaryPeer] = draft[p].prev
        /\ Goto(p, IF expired[p] THEN "clearable" ELSE "fanout")
  /\ UNCHANGED <<disk, sessionVars, keyVars, draft, expired, sent,
                 tokens, registry>>

PutTo(p, i) == [peer |-> HistoryPeers[i], draft |-> draft[p]]

(* One PUT_VALUE.                                                          *)
PutValue(p) ==
  /\ phase[p] = "fanout" /\ sent[p] < Len(HistoryPeers) /\ ~expired[p]
  /\ sent' = [sent EXCEPT ![p] = @ + 1]
  /\ net' = net \cup {PutTo(p, sent[p] + 1)}
  /\ Goto(p, "waiting")
  /\ UNCHANGED <<disk, sessionVars, keyVars, draft, expired, tokens,
                 head, over>>

(* No peer is to be sent the candidate any more.                           *)
Stop(p) == over' = over \cup {draft[p]} /\ UNCHANGED <<head, net>>

\* Mutant: an expiry in mid fan-out counts as one before the first put.
FanOutExpiredClears(p) ==
  /\ phase[p] = "fanout" /\ sent[p] < Len(HistoryPeers) /\ expired[p]
  /\ Goto(p, "clearable") /\ Stop(p)
  /\ UNCHANGED <<disk, sessionVars, keyVars, draft, expired, sent, tokens>>

(* The deadline has passed: nothing was sent, or some peers have been.     *)
FanOutExpired(p) ==
  /\ phase[p] = "fanout" /\ sent[p] < Len(HistoryPeers) /\ expired[p]
  /\ \/ sent[p] = 0 /\ Goto(p, "clearable") /\ UNCHANGED registry
     \/ sent[p] > 0 /\ Goto(p, "ambiguous") /\ Stop(p)
  /\ UNCHANGED <<disk, sessionVars, keyVars, draft, expired, sent, tokens>>

(* Every peer has acknowledged.                                            *)
FanOutDone(p) ==
  /\ phase[p] = "fanout" /\ sent[p] = Len(HistoryPeers)
  /\ Goto(p, "ambiguous") /\ Stop(p)
  /\ UNCHANGED <<disk, sessionVars, keyVars, draft, expired, sent, tokens>>

(* A PUT_VALUE answer with the key that was put: the peer need not have    *)
(* stored the candidate (AndroidKadDhtRpcClient.putValue).                 *)
Acknowledged(p) ==
  /\ phase[p] = "waiting"
  /\ Goto(p, "fanout")
  /\ UNCHANGED <<disk, sessionVars, keyVars, draft, expired, sent,
                 tokens, registry>>

\* Mutant: the peer in doubt is skipped and the next one is tried.
NextPeerAnyway(p) ==
  /\ phase[p] = "waiting"
  /\ Goto(p, "fanout") /\ Stop(p)
  /\ UNCHANGED <<disk, sessionVars, keyVars, draft, expired, sent, tokens>>

(* A time-out, an error or an answer for another key: the fan-out stops.   *)
NotAcknowledged(p) ==
  /\ phase[p] = "waiting"
  /\ Goto(p, "ambiguous") /\ Stop(p)
  /\ UNCHANGED <<disk, sessionVars, keyVars, draft, expired, sent, tokens>>

-----------------------------------------------------------------------------
(* The Registry and the process.                                           *)

(* A peer takes up the successor x of the state it shows.                  *)
Accept(q, x) ==
  /\ head' = [head EXCEPT ![q] = x]
  /\ UNCHANGED <<disk, sessionVars, keyVars, pubVars, tokens, net, over>>

(* A peer accepts a put over the state it holds, however late it arrives.  *)
Arrive ==
  \E x \in net :
    head[x.peer] = x.draft.prev /\ Accept(x.peer, Candidate(x.draft))

(* An update by other signers, which keeps the owner key.                  *)
OtherUpdate(q) ==
  head[q].seq < MaxSeq /\ Accept(q, [head[q] EXCEPT !.seq = @ + 1])

(* The process dies: sessions, drafts, publications and tokens go with it, *)
(* and every fan-out ends where it is.                                     *)
ProcessLoss ==
  /\ session' = ForSessions(Locked) /\ current' = ForSessions(FALSE)
  /\ permit' = ForSessions(None)
  /\ reserved' = ForSessions({}) /\ signed' = ForSessions({}) /\ login' = NoLogin
  /\ draft' = ForPublications(None)
  /\ phase' = ForPublications("free")
  /\ expired' = ForPublications(FALSE) /\ sent' = ForPublications(0)
  /\ rejections' = {} /\ confirmations' = {}
  /\ over' = {x.draft : x \in net}
  /\ UNCHANGED <<disk, keyVars, head, net>>

SessionStep(s) ==
  \/ Open(s) \/ Lock(s)
  \/ PrepareSigningKeyRotation(s) \/ CancelSigningKeyRotation(s)
  \/ BindLegacyRotationDispatchEnvironment(s)
  \/ \E p \in Publications :
       \/ CreateOwnerKeyRotationDraft(s, p)
       \/ LatchOwnerKeyRotationDispatchIntent(s, p)
  \/ ResolveOwnerKeyRotationDispatchRejection(s)
  \/ FinalizeSigningKeyRotation(s) \/ ConfirmOwnerKeyRotation(s)

LoginStep(l) ==
  \/ ReserveLoginProofChallenge(l) \/ LoginProofFails(l) \/ SignLoginProof(l)

PublicationStep(p) ==
  \/ PrepareOwnerKeyRotationPublication(p) \/ Expire(p)
  \/ BeginDispatch(p) \/ CheckCurrent(p) \/ PrewriteFailure(p) \/ ReadBack(p)
  \/ PutIfCurrent(p) \/ PutValue(p) \/ FanOutExpired(p) \/ FanOutDone(p)
  \/ Acknowledged(p) \/ NotAcknowledged(p)

Next ==
  \/ \E s \in Sessions : SessionStep(s)
  \/ \E l \in Logins : LoginStep(l)
  \/ \E p \in Publications : PublicationStep(p)
  \/ Arrive \/ \E q \in Peers : OtherUpdate(q)
  \/ ProcessLoss

Spec == Init /\ [][Next]_vars

-----------------------------------------------------------------------------
(* The successor of every put that dispatchOwnerKeyRotation let out, to    *)
(* whichever peer, stays in the container file: under the intent of that   *)
(* very put until it is promoted.  Crashes, unknown storage outcomes,      *)
(* rejections of other permits and cancellations do not lose it.           *)
SentSuccessorHeld ==
  \A x \in net :
    \/ x.draft.key \in {disk.active} \cup retired
    \/ /\ disk.intent # None /\ disk.intent.draft = x.draft
       /\ disk.pending = x.draft.key

(* No peer is sent a candidate a second time, whichever publication,       *)
(* permit or restart of the wallet it comes from ("Send standard PUT_VALUE *)
(* once to each explicitly configured peer").                              *)
PutOncePerPeer ==
  [][\A p \in Publications :
       PutValue(p) => PutTo(p, sent[p] + 1) \notin net]_vars

(* A fan-out that has ended, acknowledged by every peer, broken off at the *)
(* deadline, by a crash or at a peer that left its outcome in doubt, is    *)
(* not taken up again by this or another publication of the candidate, nor *)
(* after a restart: what it came to is learned by read-back alone ("Stop   *)
(* fanout rather than sending the candidate elsewhere").                   *)
FanOutNotResumed ==
  [][\A p \in Publications : PutValue(p) => draft[p] \notin over]_vars

(* A session signs at most one login proof for a challenge, however calls  *)
(* with the same challenge overlap and fail.                               *)
ProofOncePerChallenge ==
  [][\A l \in Logins :
       SignLoginProof(l) =>
         login[l].challenge \notin signed[login[l].session]]_vars

(* A session that is up to date never signs a login proof with a key whose *)
(* successor has been sent to a peer, even if the rotation was latched and *)
(* dispatched while the consent callback was running.                      *)
ProofByUnrotatedKey ==
  [][\A l \in Logins :
       SignLoginProof(l) /\ current[login[l].session] =>
         \A x \in net :
           x.draft.prev.key # session[login[l].session].active]_vars

(* A put of the draft that the container has latched was sent to a peer.   *)
Begun ==
  \E x \in net : disk.intent # None /\ disk.intent.draft = x.draft

(* Rotation is a key handover, as in the Python core: the successor is     *)
(* never withdrawn once any peer was sent its put, the readback peer       *)
(* passes from the active key to that successor only, and the promotion    *)
(* follows it, whichever of the sessions acts on an outdated container.    *)
Handover == INSTANCE KeyHandover
              WITH active <- disk.active, pending <- disk.pending,
                   begun <- Begun, served <- head[ReadbackPeer].key,
                   used <- generated

ImplementsHandover == Handover!Spec
=============================================================================
