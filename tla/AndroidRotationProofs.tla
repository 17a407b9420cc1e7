----------------------- MODULE AndroidRotationProofs ------------------------
(***************************************************************************)
(* For any number of keys, sessions, publications, login calls and peers:  *)
(* the successor of every put stays in the container, no peer is sent a    *)
(* candidate twice, none is sent one whose fan-out has ended, no login     *)
(* proof is made by a key whose successor has been sent out, and rotation  *)
(* implements KeyHandover.                                                 *)
(*                                                                         *)
(* The last of these needs an invariant of its own: the readback peer      *)
(* shows the active key or, once a put was sent, the pending one, and what *)
(* a confirmation token has seen there is not taken back before promotion. *)
(***************************************************************************)
EXTENDS AndroidRotationInvariant

(* Zenon proves the leaves that name no prover.                            *)
USE ZenonT(60)

LEMMA NextInv ==
  ASSUME AndroidRotationInv, [Next]_vars
  PROVE  AndroidRotationInv'
<1> USE DEF AndroidRotationInv
<1>0. head \in [Peers -> States] /\ confirmations \subseteq Intents
  BY DEF TypeInv
<1>1. ASSUME NEW s \in Sessions, SessionStep(s) PROVE AndroidRotationInv'
  <2>1. CASE \E p \in Publications : CreateOwnerKeyRotationDraft(s, p)
    <3>1. PICK p \in Publications : CreateOwnerKeyRotationDraft(s, p)
      BY <2>1
    <3> DEFINE d == [prev |-> head[PrimaryPeer], key |-> session[s].pending]
    <3>2. session[s].pending \in Keys
      BY <3>1 DEF CreateOwnerKeyRotationDraft, Unlocked, TypeInv, Content
    <3>3. PrimaryPeer \in Peers
      BY SMT, AndroidRotationAssumption DEF PrimaryPeer, Peers
    <3>4. d \in Drafts
      BY <1>0, <3>2, <3>3 DEF Drafts
    <3>5. /\ phase[p] \in {"free", "drafted"}
          /\ draft' = [draft EXCEPT ![p] = d]
          /\ phase' = [phase EXCEPT ![p] = "drafted"]
          /\ UNCHANGED <<disk, session, current, permit, generated, retired, sent,
                         rejections, confirmations, head, net>>
      BY <3>1 DEF CreateOwnerKeyRotationDraft, sessionVars, keyVars,
        tokens, registry
    <3> HIDE DEF d
    <3>. QED
      BY <3>4, <3>5, DraftPreserves
  <2>2. CASE \E p \in Publications : LatchOwnerKeyRotationDispatchIntent(s, p)
    BY <2>2, LatchPreserves
  <2>3. CASE ConfirmOwnerKeyRotation(s)
    <3>1. session[s].intent \in Intents
      BY <2>3 DEF ConfirmOwnerKeyRotation, Unlocked, TypeInv, Content
    <3>2. /\ confirmations' \subseteq Intents
          /\ UNCHANGED <<disk, session, current, permit, generated, retired, phase,
                         draft, sent, rejections, net, head>>
      BY <1>0, <2>3, <3>1 DEF ConfirmOwnerKeyRotation, sessionVars, keyVars, pubVars,
        registry
    <3>. QED
      BY <1>0, <3>2, FramePreserves
  <2>. QED
    BY <1>1, <2>1, <2>2, <2>3, OpenLockPreserves, PrepareSigningPreserves,
      CancelPreserves, BindPreserves, ResolvePreserves, FinalizePreserves
      DEF SessionStep
<1>2. ASSUME NEW l \in Logins, LoginStep(l) PROVE AndroidRotationInv'
  <2>1. UNCHANGED <<disk, session, current, permit, generated, retired, phase,
                    draft, sent, rejections, confirmations, net, head>>
    BY <1>2 DEF LoginStep, ReserveLoginProofChallenge, LoginProofFails,
      SignLoginProof, keyVars, pubVars, tokens, registry
  <2>. QED
    BY <1>0, <2>1, FramePreserves
<1>3. ASSUME NEW p \in Publications, PublicationStep(p) PROVE AndroidRotationInv'
  <2>1. CASE PrepareOwnerKeyRotationPublication(p)
    <3>1. PICK q \in Publications :
            draft[q] # None /\ draft' = [draft EXCEPT ![p] = draft[q]]
      BY <2>1 DEF PrepareOwnerKeyRotationPublication
    <3>2. draft[q] \in Drafts
      BY <3>1 DEF TypeInv
    <3>3. /\ phase[p] \in {"free", "drafted"}
          /\ phase' = [phase EXCEPT ![p] = "ready"]
          /\ UNCHANGED <<disk, session, current, permit, generated, retired, sent,
                         rejections, confirmations, head, net>>
      BY <2>1 DEF PrepareOwnerKeyRotationPublication, Goto, sessionVars, keyVars,
        tokens, registry
    <3>. QED
      BY <3>1, <3>2, <3>3, DraftPreserves
  <2>2. CASE Expire(p)
    <3>1. UNCHANGED <<disk, session, current, permit, generated, retired, phase,
                      draft, sent, rejections, confirmations, net, head>>
      BY <2>2 DEF Expire, sessionVars, keyVars, tokens, registry
    <3>. QED
      BY <1>0, <3>1, FramePreserves
  <2>3. CASE PutValue(p)
    BY <2>3, PutValuePreserves
  <2>. QED
    BY <1>3, <2>1, <2>2, <2>3, DispatchPreserves DEF PublicationStep
<1>4. ASSUME Arrive \/ \E q \in Peers : OtherUpdate(q) PROVE AndroidRotationInv'
  <2>1. ASSUME NEW q, NEW x \in States, Accept(q, x) PROVE AndroidRotationInv'
    <3>1. /\ head' = [head EXCEPT ![q] = x]
          /\ UNCHANGED <<disk, session, current, permit, generated, retired, phase,
                         draft, sent, rejections, confirmations, net>>
      BY <2>1 DEF Accept, sessionVars, keyVars, pubVars, tokens
    <3>2. head' \in [Peers -> States]
      BY <1>0, <3>1
    <3>. QED
      BY <1>0, <3>1, <3>2, FramePreserves
  <2>2. CASE Arrive
    <3>1. PICK y \in net : Accept(y.peer, Candidate(y.draft))
      BY <2>2 DEF Arrive
    <3>2. Candidate(y.draft) \in States
      BY SMT DEF NetInv, Candidate, Drafts, States
    <3>. QED
      BY <2>1, <3>1, <3>2
  <2>3. CASE \E q \in Peers : OtherUpdate(q)
    <3>1. PICK q \in Peers : OtherUpdate(q)
      BY <2>3
    <3> DEFINE x == [head[q] EXCEPT !.seq = @ + 1]
    <3>2. Accept(q, x)
      BY <3>1 DEF OtherUpdate
    <3>3. head[q] \in States
      BY <1>0
    <3>4. x \in States
      BY SMT, <3>3 DEF States
    <3> HIDE DEF x
    <3>. QED
      BY <2>1, <3>2, <3>4
  <2>. QED
    BY <1>4, <2>2, <2>3
<1>5. CASE UNCHANGED vars
  <2>1. UNCHANGED <<disk, session, current, permit, generated, retired, phase,
                    draft, sent, rejections, confirmations, net, head>>
    BY <1>5 DEF vars, sessionVars, keyVars, pubVars, tokens, registry
  <2>. QED
    BY <1>0, <2>1, FramePreserves
<1>. QED
  BY <1>1, <1>2, <1>3, <1>4, <1>5, ProcessLossPreserves DEF Next

(* Whatever sessions, publications, peers and crashes do, the file keeps   *)
(* the successor of every draft that is or may be sent, two publications   *)
(* never send one draft, and a rejection stands for a permit that sent     *)
(* nothing (AndroidWallet.kt, AndroidIdentityAdapter.kt).                  *)
THEOREM RotationInvariant == Spec => []AndroidRotationInv
<1>1. Init => AndroidRotationInv
  BY InitInv
<1>2. AndroidRotationInv /\ [Next]_vars => AndroidRotationInv'
  BY NextInv
<1>. QED
  BY <1>1, <1>2, PTL DEF Spec

(* No put outlives its key: the successor in a put that has left the       *)
(* wallet stays in the container file.                                     *)
THEOREM SentSuccessorStays == Spec => []SentSuccessorHeld
<1>1. AndroidRotationInv => SentSuccessorHeld
  <2> SUFFICES ASSUME AndroidRotationInv, NEW x \in net
               PROVE  \/ x.draft.key \in {disk.active} \cup retired
                      \/ /\ disk.intent # None /\ disk.intent.draft = x.draft
                         /\ disk.pending = x.draft.key
    BY DEF SentSuccessorHeld
  <2>. QED
    BY DEF AndroidRotationInv, NetInv, FileInv, Kept, Latched, Replaced
<1>. QED
  BY <1>1, RotationInvariant, PTL

(* The fan-out, its retries and another publication of the same draft      *)
(* never put a candidate to a peer that was sent it before.                *)
THEOREM PutsAreNotRepeated == Spec => PutOncePerPeer
<1>1. ASSUME AndroidRotationInv, NEW p \in Publications, PutValue(p)
      PROVE  PutTo(p, sent[p] + 1) \notin net
  <2> SUFFICES ASSUME PutTo(p, sent[p] + 1) \in net PROVE FALSE
    OBVIOUS
  <2>1. Live(p) /\ sent[p] \in Nat /\ sent[p] < Len(HistoryPeers)
    BY <1>1 DEF PutValue, Live, AndroidRotationInv, TypeInv
  <2>2. /\ PutTo(p, sent[p] + 1).draft = draft[p]
        /\ PutTo(p, sent[p] + 1).peer = HistoryPeers[sent[p] + 1]
    BY DEF PutTo
  <2>3. PICK i \in 1..sent[p] : HistoryPeers[sent[p] + 1] = HistoryPeers[i]
    BY <1>1, <2>1, <2>2 DEF AndroidRotationInv, FanInv
  <2>4. i \in DOMAIN HistoryPeers /\ sent[p] + 1 \in DOMAIN HistoryPeers
    BY SMT, <2>1, AndroidRotationAssumption
  <2>. QED
    BY SMT, <2>1, <2>3, <2>4, AndroidRotationAssumption
<1>2. AndroidRotationInv /\ [Next]_vars =>
        [\A p \in Publications :
           PutValue(p) => PutTo(p, sent[p] + 1) \notin net]_vars
  BY <1>1
<1>. QED
  BY <1>2, RotationInvariant, PTL DEF Spec, PutOncePerPeer

(* A login call in consent has a challenge of its session reserved, for    *)
(* itself alone, and no proof for it has been made.                        *)
LoginInv ==
  /\ login \in [Logins -> [session : Sessions, challenge : Challenges] \cup {None}]
  /\ reserved \in [Sessions -> SUBSET Challenges]
  /\ signed \in [Sessions -> SUBSET Challenges]
  /\ \A s \in Sessions : signed[s] \subseteq reserved[s]
  /\ \A l \in Logins : login[l] # None =>
       login[l].challenge \in reserved[login[l].session] \ signed[login[l].session]
  /\ \A l, m \in Logins : login[l] # None /\ login[l] = login[m] => l = m

LEMMA LoginSteps ==
  ASSUME LoginInv, NEW l \in Logins, LoginStep(l)
  PROVE  LoginInv'
<1>1. CASE ReserveLoginProofChallenge(l)
  <2>1. PICK s \in Sessions, c \in Challenges :
          /\ c \notin reserved[s]
          /\ reserved' = [reserved EXCEPT ![s] = @ \cup {c}]
          /\ login' = [login EXCEPT ![l] = [session |-> s, challenge |-> c]]
          /\ signed' = signed
    BY <1>1 DEF ReserveLoginProofChallenge
  <2>2. \A m \in Logins : m # l => login'[m] = login[m]
    BY <2>1 DEF LoginInv
  <2>3. login'[l] = [session |-> s, challenge |-> c]
    BY <2>1 DEF LoginInv
  <2>4. \A m \in Logins : login[m] # None => login[m] # login'[l]
    BY SMT, <2>1, <2>3 DEF LoginInv
  <2>. QED
    BY SMT, <2>1, <2>2, <2>3, <2>4 DEF LoginInv
<1>2. CASE login[l] # None /\ (LoginProofFails(l) \/ SignLoginProof(l))
  <2> DEFINE s == login[l].session
             c == login[l].challenge
  <2>1. s \in Sessions /\ c \in Challenges /\ c \notin signed[s]
    BY <1>2 DEF LoginInv
  <2>2. login[l] = [session |-> s, challenge |-> c]
    BY <1>2 DEF LoginInv
  <2>3. /\ login' = [login EXCEPT ![l] = None]
        /\ \/ /\ reserved' = [reserved EXCEPT ![s] = @ \ {c}] /\ signed' = signed
           \/ /\ signed' = [signed EXCEPT ![s] = @ \cup {c}] /\ reserved' = reserved
    BY <1>2 DEF LoginProofFails, SignLoginProof
  <2>4. /\ \A m \in Logins : m # l => login'[m] = login[m]
        /\ login'[l] = None
    BY <2>3 DEF LoginInv
  <2>5. ASSUME NEW m \in Logins, m # l, login[m] # None
        PROVE  login[m].session # s \/ login[m].challenge # c
    <3>1. login[m] = [session |-> login[m].session, challenge |-> login[m].challenge]
      BY <2>5 DEF LoginInv
    <3>2. login[m] # login[l]
      BY <2>5 DEF LoginInv
    <3>. QED
      BY <2>2, <3>1, <3>2
  <2> HIDE DEF s, c
  <2>6. c \in reserved[s]
    BY <1>2 DEF LoginInv, s, c
  <2>7. /\ login' \in [Logins -> [session : Sessions, challenge : Challenges] \cup {None}]
        /\ reserved' \in [Sessions -> SUBSET Challenges]
        /\ signed' \in [Sessions -> SUBSET Challenges]
    BY SMT, <2>1, <2>3 DEF LoginInv
  <2>8. \A t \in Sessions : signed'[t] \subseteq reserved'[t]
    BY SMT, <2>1, <2>3, <2>6 DEF LoginInv
  <2>9. \A m \in Logins : login'[m] # None =>
          login'[m].challenge \in reserved'[login'[m].session]
                                    \ signed'[login'[m].session]
    <3> SUFFICES ASSUME NEW m \in Logins, m # l, login[m] # None
                 PROVE  login[m].challenge \in reserved'[login[m].session]
                                                 \ signed'[login[m].session]
      BY <2>4
    <3>1. login[m].session \in Sessions
      BY DEF LoginInv
    <3>2. login[m].challenge \in reserved[login[m].session]
                                   \ signed[login[m].session]
      BY DEF LoginInv
    <3>. QED
      BY SMT, <2>1, <2>3, <2>5, <3>1, <3>2 DEF LoginInv
  <2>10. \A k, m \in Logins : login'[k] # None /\ login'[k] = login'[m] => k = m
    BY <2>4 DEF LoginInv
  <2>. QED
    BY <2>7, <2>8, <2>9, <2>10 DEF LoginInv
<1>. QED
  BY <1>1, <1>2 DEF LoginStep, LoginProofFails, SignLoginProof

LEMMA LoginInvariant == Spec => []LoginInv
<1>1. Init => LoginInv
  BY DEF Init, NoLogin, ForSessions, LoginInv
<1>2. ASSUME LoginInv, [Next]_vars PROVE LoginInv'
  <2>1. ASSUME NEW s \in Sessions, Wiped(s) PROVE LoginInv'
    <3>1. /\ reserved' = [reserved EXCEPT ![s] = {}]
          /\ signed' = [signed EXCEPT ![s] = {}]
          /\ \A l \in Logins :
               login'[l] = None \/ (login'[l] = login[l] /\ login[l].session # s)
          /\ login' \in [Logins ->
                           [session : Sessions, challenge : Challenges] \cup {None}]
      BY <1>2, <2>1 DEF Wiped, LoginInv
    <3>2. \A l \in Logins : login[l] # None => login[l].session \in Sessions
      BY <1>2 DEF LoginInv
    <3>. QED
      BY <1>2, <3>1, <3>2 DEF LoginInv
  <2>2. UNCHANGED <<login, reserved, signed>> => LoginInv'
    BY <1>2 DEF LoginInv
  <2>3. ASSUME NEW s \in Sessions, SessionStep(s) PROVE LoginInv'
    <3>1. UNCHANGED <<login, reserved, signed>> \/ Wiped(s)
      BY <2>3 DEF SessionStep, Open, Lock, PrepareSigningKeyRotation,
        CancelSigningKeyRotation, BindLegacyRotationDispatchEnvironment,
        CreateOwnerKeyRotationDraft, LatchOwnerKeyRotationDispatchIntent,
        ResolveOwnerKeyRotationDispatchRejection, FinalizeSigningKeyRotation,
        ConfirmOwnerKeyRotation, Lost, sessionVars
    <3>. QED
      BY <2>1, <2>2, <3>1
  <2>4. ASSUME NEW p \in Publications, PublicationStep(p)
        PROVE  UNCHANGED <<login, reserved, signed>>
    BY <2>4 DEF PublicationStep, PrepareOwnerKeyRotationPublication, Expire,
      BeginDispatch, CheckCurrent, PrewriteFailure, ReadBack, PutIfCurrent,
      PutValue, FanOutExpired, FanOutDone, Acknowledged, NotAcknowledged,
      sessionVars
  <2>5. ASSUME Arrive \/ \E q \in Peers : OtherUpdate(q)
        PROVE  UNCHANGED <<login, reserved, signed>>
    BY <2>5 DEF Arrive, OtherUpdate, Accept, sessionVars
  <2>6. CASE ProcessLoss
    BY <2>6 DEF ProcessLoss, NoLogin, ForSessions, LoginInv
  <2>7. ASSUME UNCHANGED vars PROVE UNCHANGED <<login, reserved, signed>>
    BY <2>7 DEF vars, sessionVars
  <2>. QED
    BY <1>2, <2>2, <2>3, <2>4, <2>5, <2>6, <2>7, LoginSteps DEF Next
<1>. QED
  BY <1>1, <1>2, PTL DEF Spec

(* However calls with one challenge overlap, fail and are repeated, a      *)
(* session makes one login proof for it: reserveLoginProofChallenge.       *)
THEOREM ProofsAreNotRepeated == Spec => ProofOncePerChallenge
<1>1. LoginInv /\ [Next]_vars =>
        [\A l \in Logins :
           SignLoginProof(l) =>
             login[l].challenge \notin signed[login[l].session]]_vars
  BY DEF LoginInv, SignLoginProof
<1>. QED
  BY <1>1, LoginInvariant, PTL DEF Spec, ProofOncePerChallenge

(* A login proof of a session that is up to date is signed by a key no put *)
(* replaces: signing looks at the stored intent again after consent.       *)
THEOREM ProofsByUnrotatedKey == Spec => ProofByUnrotatedKey
<1>1. ASSUME AndroidRotationInv, LoginInv, NEW l \in Logins, SignLoginProof(l),
             current[login[l].session], NEW x \in net
      PROVE  x.draft.prev.key # session[login[l].session].active
  <2>1. login[l].session \in Sessions
    BY <1>1 DEF SignLoginProof, LoginInv
  <2>2. session[login[l].session] = disk /\ disk.intent = None
    BY <1>1, <2>1 DEF SignLoginProof, LoginStillAllowed, Rotating,
      AndroidRotationInv, SessionInv
  <2>3. x.draft.prev.key \in retired
    BY <1>1, <2>2 DEF AndroidRotationInv, NetInv, Kept, Latched, Replaced
  <2>. QED
    BY <1>1, <2>2, <2>3 DEF AndroidRotationInv, FileInv
<1>2. AndroidRotationInv /\ LoginInv /\ [Next]_vars =>
        [\A l \in Logins :
           SignLoginProof(l) /\ current[login[l].session] =>
             \A x \in net :
               x.draft.prev.key # session[login[l].session].active]_vars
  BY <1>1
<1>. QED
  BY <1>2, RotationInvariant, LoginInvariant, PTL
    DEF Spec, ProofByUnrotatedKey

-----------------------------------------------------------------------------
(* Fan-outs that have ended.                                               *)

OverInv ==
  /\ \A d \in over :
       /\ \E x \in net : x.draft = d
       /\ \A p \in Publications : Live(p) => draft[p] # d
  /\ \A p \in Publications :
       /\ Live(p) /\ sent[p] > 0 => \E x \in net : x.draft = draft[p]
       /\ phase[p] = "waiting" => sent[p] > 0

(* Steps that end no fan-out and begin none.                               *)
LEMMA OverFrame ==
  ASSUME OverInv, UNCHANGED <<net, over>>,
         \A p \in Publications :
           /\ Live(p)' => Live(p) /\ draft'[p] = draft[p] /\ sent'[p] = sent[p]
           /\ phase'[p] = "waiting" => phase[p] = "waiting" /\ sent'[p] = sent[p]
  PROVE  OverInv'
BY DEF OverInv

(* A publication that has sent a put ends its fan-out.                     *)
LEMMA StopOver ==
  ASSUME AndroidRotationInv, OverInv, NEW p \in Publications,
         Live(p), sent[p] > 0, Goto(p, "ambiguous"), Stop(p),
         UNCHANGED <<draft, sent>>
  PROVE  OverInv'
<1>1. over' = over \cup {draft[p]} /\ net' = net
  BY DEF Stop
<1>2. phase' = [phase EXCEPT ![p] = "ambiguous"]
      /\ phase \in [Publications -> Phases]
  BY DEF Goto, AndroidRotationInv, TypeInv
<1>3. \A q \in Publications :
        Live(q)' => Live(q) /\ q # p /\ draft'[q] = draft[q]
  BY <1>2 DEF Live
<1>4. \A q \in Publications : Live(q)' => draft'[q] # draft[p]
  BY <1>3 DEF AndroidRotationInv, OneLive
<1>5. \E x \in net : x.draft = draft[p]
  BY DEF OverInv
<1>6. \A q \in Publications : phase'[q] = "waiting" => phase[q] = "waiting"
  BY <1>2
<1>. QED
  BY <1>1, <1>3, <1>4, <1>5, <1>6 DEF OverInv

LEMMA LatchOver ==
  ASSUME AndroidRotationInv, OverInv, NEW s \in Sessions, NEW p \in Publications,
         LatchOwnerKeyRotationDispatchIntent(s, p)
  PROVE  OverInv'
<1>1. /\ UNCHANGED <<draft, sent, net, over>>
      /\ phase \in [Publications -> Phases] /\ phase[p] = "ready"
      /\ session[s].intent = None
  BY DEF LatchOwnerKeyRotationDispatchIntent, Rotating, registry,
    AndroidRotationInv, TypeInv
<1>2. CASE phase' = [phase EXCEPT ![p] = "void"]
  BY <1>1, <1>2, OverFrame DEF Live
<1>3. CASE /\ phase' = [phase EXCEPT ![p] = "permitted"] /\ current[s]
           /\ session[s].active = draft[p].prev.key
  <2>1. disk.intent = None /\ disk.active = draft[p].prev.key
    BY <1>1, <1>3 DEF AndroidRotationInv, SessionInv
  <2>2. \A x \in net : x.draft # draft[p]
    BY <2>1 DEF AndroidRotationInv, NetInv, Kept, Latched, Replaced, FileInv
  <2>3. sent[p] = 0 /\ ~(0 > 0)
    BY SMT, <1>1 DEF AndroidRotationInv, PubInv, Unsent
  <2>4. \A q \in Publications :
          /\ Live(q)' => Live(q) \/ q = p
          /\ phase'[q] = "waiting" => phase[q] = "waiting"
    BY <1>1, <1>3 DEF Live
  <2>. QED
    BY <1>1, <2>2, <2>3, <2>4 DEF OverInv
<1>. QED
  BY <1>2, <1>3 DEF LatchOwnerKeyRotationDispatchIntent, Installed

LEMMA PutOver ==
  ASSUME AndroidRotationInv, OverInv, NEW p \in Publications, PutValue(p)
  PROVE  OverInv' /\ draft[p] \notin over
<1>1. /\ UNCHANGED <<draft, over>> /\ phase[p] = "fanout"
      /\ sent' = [sent EXCEPT ![p] = sent[p] + 1]
      /\ net' = net \cup {PutTo(p, sent[p] + 1)}
      /\ phase' = [phase EXCEPT ![p] = "waiting"]
      /\ phase \in [Publications -> Phases] /\ sent \in [Publications -> Nat]
  BY DEF PutValue, Goto, AndroidRotationInv, TypeInv
<1>2. Live(p)
  BY <1>1 DEF Live
<1>3. sent'[p] > 0
  BY SMT, <1>1
<1>4. PutTo(p, sent[p] + 1).draft = draft[p]
  BY DEF PutTo
<1>5. \A q \in Publications :
        q # p => /\ phase'[q] = phase[q] /\ sent'[q] = sent[q]
                 /\ (Live(q)' <=> Live(q))
  BY <1>1 DEF Live
<1>. QED
  BY <1>1, <1>2, <1>3, <1>4, <1>5 DEF OverInv

LEMMA FanOutOver ==
  ASSUME AndroidRotationInv, OverInv, NEW p \in Publications,
         \/ FanOutExpired(p) \/ FanOutDone(p) \/ NotAcknowledged(p)
  PROVE  OverInv'
<1>1. /\ Live(p) /\ UNCHANGED <<draft, sent>> /\ sent[p] \in Nat
      /\ phase \in [Publications -> Phases]
  BY DEF FanOutExpired, FanOutDone, NotAcknowledged, Live, AndroidRotationInv,
    TypeInv
<1>2. CASE sent[p] > 0 /\ Goto(p, "ambiguous") /\ Stop(p)
  BY <1>1, <1>2, StopOver
<1>3. CASE Goto(p, "clearable") /\ UNCHANGED registry
  BY <1>1, <1>3, OverFrame DEF Goto, Live, registry
<1>4. CASE FanOutDone(p)
  <2>1. sent[p] > 0
    BY SMT, <1>4, AndroidRotationAssumption DEF FanOutDone
  <2>. QED
    BY <1>2, <1>4, <2>1 DEF FanOutDone
<1>5. CASE NotAcknowledged(p)
  <2>1. sent[p] > 0
    BY <1>5 DEF NotAcknowledged, OverInv
  <2>. QED
    BY <1>2, <1>5, <2>1 DEF NotAcknowledged
<1>6. CASE FanOutExpired(p)
  BY <1>2, <1>3, <1>6 DEF FanOutExpired
<1>. QED
  BY <1>4, <1>5, <1>6

LEMMA OverNext ==
  ASSUME AndroidRotationInv, OverInv, [Next]_vars
  PROVE  OverInv'
<1>0. phase \in [Publications -> Phases]
  BY DEF AndroidRotationInv, TypeInv
<1>1. ASSUME UNCHANGED <<phase, draft, sent, net, over>> PROVE OverInv'
  BY <1>1, OverFrame DEF Live
<1>2. ASSUME NEW s \in Sessions, SessionStep(s) PROVE OverInv'
  <2>1. CASE \E p \in Publications : CreateOwnerKeyRotationDraft(s, p)
    <3>1. PICK p \in Publications : CreateOwnerKeyRotationDraft(s, p)
      BY <2>1
    <3>2. /\ phase' = [phase EXCEPT ![p] = "drafted"]
          /\ \A q \in Publications : q # p => draft'[q] = draft[q]
          /\ UNCHANGED <<sent, net, over>>
      BY <3>1 DEF CreateOwnerKeyRotationDraft, registry, AndroidRotationInv, TypeInv
    <3>. QED
      BY <1>0, <3>2, OverFrame DEF Live
  <2>2. CASE \E p \in Publications : LatchOwnerKeyRotationDispatchIntent(s, p)
    BY <2>2, LatchOver
  <2>3. CASE UNCHANGED <<pubVars, registry>>
    BY <1>1, <2>3 DEF pubVars, registry
  <2>. QED
    BY <1>2, <2>1, <2>2, <2>3 DEF SessionStep, Open, Lock,
      PrepareSigningKeyRotation, CancelSigningKeyRotation,
      BindLegacyRotationDispatchEnvironment,
      ResolveOwnerKeyRotationDispatchRejection, FinalizeSigningKeyRotation,
      ConfirmOwnerKeyRotation
<1>3. ASSUME NEW p \in Publications, PublicationStep(p) PROVE OverInv'
  <2>1. CASE PrepareOwnerKeyRotationPublication(p)
    <3>1. /\ phase' = [phase EXCEPT ![p] = "ready"]
          /\ \A q \in Publications : q # p => draft'[q] = draft[q]
          /\ UNCHANGED <<sent, net, over>>
      BY <2>1 DEF PrepareOwnerKeyRotationPublication, Goto, registry,
        AndroidRotationInv, TypeInv
    <3>. QED
      BY <1>0, <3>1, OverFrame DEF Live
  <2>2. CASE Expire(p)
    BY <1>1, <2>2 DEF Expire, registry
  <2>3. CASE \/ BeginDispatch(p) \/ CheckCurrent(p) \/ PrewriteFailure(p)
             \/ ReadBack(p) \/ PutIfCurrent(p) \/ Acknowledged(p)
    <3> DEFINE to == phase'[p]
    <3>1. /\ UNCHANGED <<draft, sent, net, over>>
          /\ phase' = [phase EXCEPT ![p] = to]
          /\ to # "waiting" /\ to # "permitted"
          /\ to \in {"begun", "checked", "fanout"} => Live(p)
      BY <1>0, <2>3 DEF BeginDispatch, CheckCurrent, PrewriteFailure, ReadBack,
        PutIfCurrent, Acknowledged, Goto, Live, registry
    <3> HIDE DEF to
    <3>. QED
      BY <1>0, <3>1, OverFrame DEF Live
  <2>4. CASE FanOutExpired(p) \/ FanOutDone(p) \/ NotAcknowledged(p)
    BY <2>4, FanOutOver
  <2>5. CASE PutValue(p)
    BY <2>5, PutOver
  <2>. QED
    BY <1>3, <2>1, <2>2, <2>3, <2>4, <2>5 DEF PublicationStep
<1>4. CASE \/ UNCHANGED vars \/ \E l \in Logins : LoginStep(l)
           \/ Arrive \/ \E q \in Peers : OtherUpdate(q)
  <2>1. UNCHANGED <<phase, draft, sent, net, over>>
    BY <1>4 DEF LoginStep, ReserveLoginProofChallenge, LoginProofFails,
      SignLoginProof, Arrive, OtherUpdate, Accept, vars, pubVars, registry
  <2>. QED
    BY <1>1, <2>1
<1>5. CASE ProcessLoss
  <2>1. \A p \in Publications : phase'[p] = "free"
    BY <1>5 DEF ProcessLoss, ForPublications
  <2>2. net' = net /\ over' = {x.draft : x \in net}
    BY <1>5 DEF ProcessLoss
  <2>. QED
    BY <2>1, <2>2 DEF OverInv, Live
<1>. QED
  BY <1>2, <1>3, <1>4, <1>5 DEF Next

(* A candidate goes to nobody once its fan-out has ended, for whatever     *)
(* reason, whichever publication or process tries (putIdentityEnvelopeIf-  *)
(* Current, latchOwnerKeyRotationDispatchIntent).                          *)
THEOREM FanOutsAreNotResumed == Spec => FanOutNotResumed
<1>1. Init => OverInv
  <2> SUFFICES ASSUME Init PROVE OverInv
    OBVIOUS
  <2>1. /\ over = {x.draft : x \in net}
        /\ \A p \in Publications : phase[p] = "free"
    BY DEF Init, ForPublications
  <2>. QED
    BY <2>1 DEF OverInv, Live
<1>2. AndroidRotationInv /\ OverInv /\ [Next]_vars =>
        /\ OverInv'
        /\ [\A p \in Publications : PutValue(p) => draft[p] \notin over]_vars
  BY OverNext, PutOver
<1>. QED
  BY <1>1, <1>2, RotationInvariant, PTL DEF Spec, FanOutNotResumed

-----------------------------------------------------------------------------
(* Rotation implements KeyHandover, one action at a time.                  *)
HandoverStep == Handover!Next \/ UNCHANGED Handover!vars

ReadbackInv ==
  \/ head[ReadbackPeer].key = disk.active
  \/ Begun /\ head[ReadbackPeer].key = disk.pending

TokenInv ==
  \A i \in confirmations :
    /\ i.draft.key \in generated
    /\ i.draft.key = disk.pending => head[ReadbackPeer].key = disk.pending

(* Steps that neither replace the file nor reach a peer.                   *)
LEMMA QuietHandover ==
  ASSUME UNCHANGED <<disk, generated, head, net>>
  PROVE  HandoverStep
<1>1. Begun' = Begun
  BY DEF Begun
<1>. QED
  BY <1>1 DEF HandoverStep, Handover!vars

(* What is not latched has not begun.                                      *)
LEMMA UnlatchedNotBegun ==
  /\ disk.intent = None => Begun = FALSE
  /\ disk'.intent = None => Begun' = FALSE
BY DEF Begun

LEMMA ReadbackIsPeer == ReadbackPeer \in Peers
BY SMT, AndroidRotationAssumption DEF Peers, PrimaryPeer

(* A handover does not take back what was seen at the readback peer.       *)
LEMMA ReadbackStep ==
  ASSUME AndroidRotationInv, ReadbackInv, TokenInv, HandoverStep,
         \A i \in confirmations' :
           i \in confirmations \/ i.draft.key = head[ReadbackPeer].key
  PROVE  ReadbackInv' /\ TokenInv'
<1> DEFINE served == head[ReadbackPeer].key
<1>1. served \in generated /\ served # None
  <2>1. head[ReadbackPeer] \in States
    BY ReadbackIsPeer DEF AndroidRotationInv, TypeInv
  <2>2. served \in Keys
    BY <2>1 DEF States
  <2>. QED
    BY <2>2, DistinctAssumption DEF ReadbackInv, AndroidRotationInv, FileInv
<1>2. None \notin generated
  BY DistinctAssumption DEF AndroidRotationInv, FileInv
<1>3. \A i \in confirmations' :
        /\ i.draft.key \in generated
        /\ i.draft.key = disk.pending => served = disk.pending
  BY <1>1 DEF TokenInv
<1>4. CASE UNCHANGED Handover!vars
  BY <1>3, <1>4 DEF Handover!vars, ReadbackInv, TokenInv
<1>5. CASE Handover!Propose
  <2>1. PICK k \in Keys \ generated :
          /\ generated' = generated \cup {k}
          /\ disk'.pending = disk.pending \/ (disk.pending = None /\ disk'.pending = k)
          /\ disk'.active = disk.active /\ Begun' = Begun
          /\ head'[ReadbackPeer].key = served
    BY <1>5 DEF Handover!Propose
  <2>. QED
    BY <1>1, <1>3, <2>1 DEF ReadbackInv, TokenInv
<1>6. CASE Handover!Withdraw
  <2>1. /\ disk'.pending = None /\ disk'.active = disk.active /\ ~Begun
        /\ head'[ReadbackPeer].key = served /\ generated' = generated
    BY <1>6 DEF Handover!Withdraw
  <2>. QED
    BY <1>2, <1>3, <2>1 DEF ReadbackInv, TokenInv
<1>7. CASE Handover!Begin
  <2>1. /\ disk'.pending = disk.pending /\ disk'.active = disk.active /\ ~Begun
        /\ head'[ReadbackPeer].key = served /\ generated' = generated
    BY <1>7 DEF Handover!Begin
  <2>. QED
    BY <1>3, <2>1 DEF ReadbackInv, TokenInv
<1>8. CASE Handover!Serve
  <2>1. /\ disk'.pending = disk.pending /\ Begun /\ Begun' = Begun
        /\ head'[ReadbackPeer].key = disk.pending /\ generated' = generated
    BY <1>8 DEF Handover!Serve
  <2>. QED
    BY <1>3, <2>1 DEF ReadbackInv, TokenInv
<1>9. CASE Handover!Promote
  <2>1. /\ disk'.pending = None /\ disk'.active = disk.pending
        /\ served = disk.pending
        /\ head'[ReadbackPeer].key = served /\ generated' = generated
    BY <1>9 DEF Handover!Promote
  <2>. QED
    BY <1>2, <1>3, <2>1 DEF ReadbackInv, TokenInv
<1>. QED
  BY <1>4, <1>5, <1>6, <1>7, <1>8, <1>9 DEF HandoverStep, Handover!Next

(* An outdated session generates a key in vain.                            *)
LEMMA PrepareHandover ==
  ASSUME AndroidRotationInv, NEW s \in Sessions, PrepareSigningKeyRotation(s)
  PROVE  HandoverStep
<1>1. PICK k \in Keys \ generated :
        /\ generated' = generated \cup {k}
        /\ \/ Installed(s, [session[s] EXCEPT !.pending = k])
           \/ Lost(s, [session[s] EXCEPT !.pending = k])
  BY DEF PrepareSigningKeyRotation
<1> DEFINE c == [session[s] EXCEPT !.pending = k]
<1>2. session[s] \in Content /\ session[s].pending = None /\ session[s].intent = None
  BY DEF PrepareSigningKeyRotation, Unlocked, AndroidRotationInv, TypeInv
<1>3. /\ c \in Content /\ c.pending = k /\ c.active = session[s].active
      /\ c.intent = None
  BY <1>2 DEF Content
<1> HIDE DEF c
<1>4. disk' = disk \/ (disk' = c /\ session[s] = disk)
  BY <1>1, <1>3, Stored DEF AndroidRotationInv, c
<1>5. UNCHANGED <<head, net>>
  BY DEF PrepareSigningKeyRotation, registry
<1>6. CASE disk' = disk
  <2>1. Begun' = Begun
    BY <1>5, <1>6 DEF Begun
  <2>2. Handover!Propose
    BY <1>1, <1>5, <1>6, <2>1 DEF Handover!Propose
  <2>. QED
    BY <2>2 DEF HandoverStep, Handover!Next
<1>7. CASE disk' = c /\ session[s] = disk
  <2>1. /\ disk'.active = disk.active /\ disk.pending = None /\ disk'.pending = k
        /\ disk.intent = None /\ disk'.intent = None
    BY <1>2, <1>3, <1>7
  <2>2. Handover!Propose
    BY <1>1, <1>5, <2>1, UnlatchedNotBegun DEF Handover!Propose
  <2>. QED
    BY <2>2 DEF HandoverStep, Handover!Next
<1>. QED
  BY <1>4, <1>6, <1>7

LEMMA CancelHandover ==
  ASSUME AndroidRotationInv, NEW s \in Sessions, CancelSigningKeyRotation(s)
  PROVE  HandoverStep
<1> DEFINE c == [session[s] EXCEPT !.pending = None]
<1>1. /\ session[s] \in Content /\ session[s].intent = None
      /\ session[s].pending # None
  BY DEF CancelSigningKeyRotation, Unlocked, AndroidRotationInv, TypeInv
<1>2. /\ c \in Content /\ c.pending = None /\ c.active = session[s].active
      /\ c.intent = None
  BY <1>1 DEF Content
<1>3. Installed(s, c) \/ Lost(s, c)
  BY DEF CancelSigningKeyRotation
<1> HIDE DEF c
<1>4. disk' = disk \/ (disk' = c /\ session[s] = disk)
  BY <1>2, <1>3, Stored DEF AndroidRotationInv
<1>5. UNCHANGED <<generated, head, net>>
  BY DEF CancelSigningKeyRotation, keyVars, registry
<1>6. CASE disk' = disk
  BY <1>5, <1>6, QuietHandover
<1>7. CASE disk' = c /\ session[s] = disk
  <2>1. /\ disk'.active = disk.active /\ disk.pending # None /\ disk'.pending = None
        /\ disk.intent = None /\ disk'.intent = None
    BY <1>1, <1>2, <1>7
  <2>2. Handover!Withdraw
    BY <1>5, <2>1, UnlatchedNotBegun DEF Handover!Withdraw
  <2>. QED
    BY <2>2 DEF HandoverStep, Handover!Next
<1>. QED
  BY <1>4, <1>6, <1>7

(* A replacement that leaves both keys alone is no step of the handover,   *)
(* if the new intent has begun exactly when the old one had.               *)
LEMMA IntentHandover ==
  ASSUME AndroidRotationInv, NEW s \in Sessions, NEW c \in Content,
         Installed(s, c) \/ Lost(s, c),
         c.active = session[s].active, c.pending = session[s].pending,
         UNCHANGED <<generated, head, net>>,
         disk' = c /\ session[s] = disk => Begun' = Begun
  PROVE  HandoverStep
<1>1. disk' = disk \/ (disk' = c /\ session[s] = disk)
  BY Stored DEF AndroidRotationInv
<1>2. CASE disk' = disk
  BY <1>2, QuietHandover
<1>3. CASE disk' = c /\ session[s] = disk
  BY <1>3 DEF HandoverStep, Handover!vars
<1>. QED
  BY <1>1, <1>2, <1>3

LEMMA BindHandover ==
  ASSUME AndroidRotationInv, NEW s \in Sessions,
         BindLegacyRotationDispatchEnvironment(s)
  PROVE  HandoverStep
<1> DEFINE c == [session[s] EXCEPT !.intent.bound = TRUE]
<1>1. session[s] \in Content /\ session[s].intent \in Intents
  BY DEF BindLegacyRotationDispatchEnvironment, Unlocked, AndroidRotationInv,
    TypeInv, Content
<1>2. /\ c \in Content /\ c.active = session[s].active
      /\ c.pending = session[s].pending
      /\ c.intent \in Intents /\ c.intent.draft = session[s].intent.draft
  BY <1>1 DEF Content, Intents
<1>3. Installed(s, c) \/ Lost(s, c)
  BY DEF BindLegacyRotationDispatchEnvironment
<1> HIDE DEF c
<1>4. UNCHANGED <<generated, head, net>>
  BY DEF BindLegacyRotationDispatchEnvironment, keyVars, registry
<1>5. ASSUME disk' = c, session[s] = disk PROVE Begun' = Begun
  <2>1. /\ disk.intent # None /\ disk'.intent # None
        /\ disk'.intent.draft = disk.intent.draft
    BY <1>1, <1>2, <1>5, DistinctAssumption
  <2>. QED
    BY <1>4, <2>1 DEF Begun
<1>. QED
  BY <1>2, <1>3, <1>4, <1>5, IntentHandover

(* A rejection resolves an intent of which nothing was sent.               *)
LEMMA ResolveHandover ==
  ASSUME AndroidRotationInv, NEW s \in Sessions,
         ResolveOwnerKeyRotationDispatchRejection(s)
  PROVE  HandoverStep
<1> DEFINE c == [session[s] EXCEPT !.intent = None]
<1>1. session[s] \in Content
  BY DEF ResolveOwnerKeyRotationDispatchRejection, Unlocked, AndroidRotationInv,
    TypeInv
<1>2. PICK p \in rejections :
        p = permit[s] /\ (Installed(s, c) \/ Lost(s, c))
  BY DEF ResolveOwnerKeyRotationDispatchRejection
<1>3. /\ c \in Content /\ c.active = session[s].active
      /\ c.pending = session[s].pending /\ c.intent = None
  BY <1>1 DEF Content
<1> HIDE DEF c
<1>4. UNCHANGED <<generated, head, net>>
  BY DEF ResolveOwnerKeyRotationDispatchRejection, keyVars, registry
<1>5. p \in Publications /\ sent[p] = 0 /\ permit[s] # None
  BY <1>2, DistinctAssumption
    DEF ResolveOwnerKeyRotationDispatchRejection, AndroidRotationInv, TypeInv, PubInv
<1>6. ASSUME disk' = c, session[s] = disk PROVE Begun' = Begun
  <2>1. CASE disk' = disk
    BY <1>4, <2>1 DEF Begun
  <2>2. CASE disk' # disk
    <3>1. current[s]
      BY <1>2, <2>2 DEF Installed, Lost
    <3>2. \A x \in net : ~Latched(x.draft)
      BY <1>2, <1>5, <3>1 DEF AndroidRotationInv, PermitInv
    <3>3. Begun = FALSE
      BY <3>2 DEF Begun, Latched
    <3>. QED
      BY <1>3, <1>6, <3>3, UnlatchedNotBegun
  <2>. QED
    BY <2>1, <2>2
<1>. QED
  BY <1>2, <1>3, <1>4, <1>6, IntentHandover

(* A draft of the active key that is not latched was never sent.           *)
LEMMA LatchHandover ==
  ASSUME AndroidRotationInv, NEW s \in Sessions, NEW p \in Publications,
         LatchOwnerKeyRotationDispatchIntent(s, p)
  PROVE  HandoverStep
<1> DEFINE c == [session[s] EXCEPT !.intent = IntentOf(p)]
<1>1. session[s] \in Content /\ session[s].intent = None
  BY DEF LatchOwnerKeyRotationDispatchIntent, Unlocked, Rotating,
    AndroidRotationInv, TypeInv
<1>2. draft[p] \in Drafts
  BY DEF LatchOwnerKeyRotationDispatchIntent, AndroidRotationInv, PubInv, TypeInv
<1>3. /\ c \in Content /\ c.active = session[s].active
      /\ c.pending = session[s].pending /\ c.intent = IntentOf(p)
  BY <1>1, <1>2 DEF Content, IntentOf, Intents
<1>4. \/ /\ Installed(s, c) \/ Lost(s, c)
         /\ session[s].active = draft[p].prev.key
      \/ UNCHANGED <<disk, sessionVars>>
  BY DEF LatchOwnerKeyRotationDispatchIntent
<1> HIDE DEF c
<1>5. UNCHANGED <<generated, head, net>>
  BY DEF LatchOwnerKeyRotationDispatchIntent, keyVars, registry
<1>6. CASE UNCHANGED disk
  BY <1>5, <1>6, QuietHandover
<1>7. CASE /\ Installed(s, c) \/ Lost(s, c)
           /\ session[s].active = draft[p].prev.key
  <2>1. ASSUME disk' = c, session[s] = disk PROVE Begun' = Begun
    <3>1. Begun = FALSE
      BY <1>1, <2>1, UnlatchedNotBegun
    <3>2. ASSUME NEW x \in net, x.draft = draft[p] PROVE FALSE
      <4>1. draft[p].prev.key \in retired
        BY <1>1, <2>1, <3>2 DEF AndroidRotationInv, NetInv, Kept, Latched, Replaced
      <4>. QED
        BY <1>7, <2>1, <4>1 DEF AndroidRotationInv, FileInv
    <3>3. disk'.intent.draft = draft[p]
      BY SMT, <1>3, <2>1 DEF IntentOf
    <3>4. Begun' = FALSE
      BY <1>5, <3>2, <3>3 DEF Begun
    <3>. QED
      BY <3>1, <3>4
  <2>. QED
    BY <1>3, <1>5, <1>7, <2>1, IntentHandover
<1>. QED
  BY <1>4, <1>6, <1>7

(* A promotion finds the successor at the readback peer, its put sent.     *)
LEMMA FinalizeHandover ==
  ASSUME AndroidRotationInv, ReadbackInv, TokenInv, NEW s \in Sessions,
         FinalizeSigningKeyRotation(s)
  PROVE  HandoverStep
<1> DEFINE c == [active |-> session[s].pending, pending |-> None,
                 intent |-> None]
<1>1. /\ session[s].intent \in confirmations
      /\ session[s].intent.draft.key \in Keys
      /\ session[s].pending = session[s].intent.draft.key
  BY DEF FinalizeSigningKeyRotation, AndroidRotationInv, TypeInv, Intents, Drafts
<1>2. c \in Content /\ c.active = session[s].pending /\ c.pending = None
      /\ c.intent = None
  BY <1>1 DEF Content
<1>3. Installed(s, c) \/ Lost(s, c)
  BY DEF FinalizeSigningKeyRotation
<1> HIDE DEF c
<1>4. disk' = disk \/ (disk' = c /\ session[s] = disk)
  BY <1>2, <1>3, Stored DEF AndroidRotationInv
<1>5. UNCHANGED <<generated, head, net>>
  BY DEF FinalizeSigningKeyRotation, registry
<1>6. CASE disk' = disk
  BY <1>5, <1>6, QuietHandover
<1>7. CASE disk' = c /\ session[s] = disk
  <2>1. disk.intent \in confirmations /\ disk.intent.draft.key = disk.pending
    BY <1>1, <1>7
  <2>2. disk.pending # None
    BY <1>1, <1>7, DistinctAssumption
  <2>3. head[ReadbackPeer].key = disk.pending
    BY <2>1 DEF TokenInv
  <2>4. Begun
    BY <2>2, <2>3 DEF ReadbackInv, AndroidRotationInv, FileInv
  <2>5. disk'.active = disk.pending /\ disk'.pending = None /\ disk'.intent = None
    BY <1>2, <1>7
  <2>6. Handover!Promote
    BY <1>5, <2>3, <2>4, <2>5, UnlatchedNotBegun DEF Handover!Promote
  <2>. QED
    BY <2>6 DEF HandoverStep, Handover!Next
<1>. QED
  BY <1>4, <1>6, <1>7

(* The first put of the latched draft begins the handover.                 *)
LEMMA PutHandover ==
  ASSUME AndroidRotationInv, NEW p \in Publications, PutValue(p)
  PROVE  HandoverStep
<1> DEFINE x0 == PutTo(p, sent[p] + 1)
<1>1. UNCHANGED <<disk, generated, head>> /\ net' = net \cup {x0}
  BY DEF PutValue, keyVars
<1>2. x0.draft = draft[p]
  BY DEF PutTo
<1> HIDE DEF x0
<1>3. CASE Begun' = Begun
  BY <1>1, <1>3 DEF HandoverStep, Handover!vars
<1>4. CASE Begun' # Begun
  <2>1. disk.intent # None /\ Begun = FALSE /\ Begun' = TRUE
    BY <1>1, <1>4 DEF Begun
  <2>2. disk.pending # None
    <3>1. disk.intent.draft \in Drafts
      BY <2>1 DEF AndroidRotationInv, TypeInv, Content, Intents
    <3>. QED
      BY <2>1, <3>1, DistinctAssumption DEF AndroidRotationInv, FileInv, Drafts
  <2>3. Handover!Begin
    BY <1>1, <2>1, <2>2 DEF Handover!Begin
  <2>. QED
    BY <2>3 DEF HandoverStep, Handover!Next
<1>. QED
  BY <1>3, <1>4

(* Only the latched put can still change the key the readback peer shows.  *)
LEMMA ArriveHandover ==
  ASSUME AndroidRotationInv, ReadbackInv, Arrive
  PROVE  HandoverStep
<1>1. PICK x \in net :
        head[x.peer] = x.draft.prev /\ Accept(x.peer, Candidate(x.draft))
  BY DEF Arrive
<1>2. /\ head' = [head EXCEPT ![x.peer] = Candidate(x.draft)]
      /\ UNCHANGED <<disk, generated, net>> /\ head \in [Peers -> States]
  BY <1>1 DEF Accept, keyVars, AndroidRotationInv, TypeInv
<1>3. Begun' = Begun
  BY <1>2 DEF Begun
<1>4. CASE x.peer # ReadbackPeer
  <2>1. head'[ReadbackPeer] = head[ReadbackPeer]
    BY <1>2, <1>4, ReadbackIsPeer
  <2>. QED
    BY <1>2, <1>3, <2>1 DEF HandoverStep, Handover!vars
<1>5. CASE x.peer = ReadbackPeer
  <2>1. head'[ReadbackPeer].key = x.draft.key
    BY <1>2, <1>5, ReadbackIsPeer DEF Candidate
  <2>2. head[ReadbackPeer].key \in {disk.active, disk.pending}
    BY DEF ReadbackInv
  <2>3. head[ReadbackPeer].key # None
    BY <1>2, ReadbackIsPeer, DistinctAssumption DEF States
  <2>4. head[ReadbackPeer].key \notin retired
    BY <2>2, <2>3 DEF AndroidRotationInv, FileInv
  <2>5. Latched(x.draft)
    BY <1>1, <1>5, <2>4 DEF AndroidRotationInv, NetInv, Kept, Replaced
  <2>6. x.draft.prev.key = disk.active /\ x.draft.key = disk.pending
    BY <2>5 DEF AndroidRotationInv, FileInv, Latched
  <2>7. Begun
    BY <2>5 DEF Begun, Latched
  <2>8. Handover!Serve
    BY <1>1, <1>2, <1>3, <1>5, <2>1, <2>6, <2>7 DEF Handover!Serve
  <2>. QED
    BY <2>8 DEF HandoverStep, Handover!Next
<1>. QED
  BY <1>4, <1>5

LEMMA OtherHandover ==
  ASSUME AndroidRotationInv, NEW q \in Peers, OtherUpdate(q)
  PROVE  HandoverStep
<1> DEFINE y == [head[q] EXCEPT !.seq = @ + 1]
<1>1. /\ head' = [head EXCEPT ![q] = y]
      /\ UNCHANGED <<disk, generated, net>> /\ head \in [Peers -> States]
  BY DEF OtherUpdate, Accept, keyVars, AndroidRotationInv, TypeInv
<1>2. y.key = head[q].key
  BY <1>1 DEF States
<1> HIDE DEF y
<1>3. head'[ReadbackPeer].key = head[ReadbackPeer].key
  BY <1>1, <1>2, ReadbackIsPeer
<1>4. Begun' = Begun
  BY <1>1 DEF Begun
<1>. QED
  BY <1>1, <1>3, <1>4 DEF HandoverStep, Handover!vars

LEMMA InitHandover == Init => Handover!Init
<1> SUFFICES ASSUME Init PROVE Handover!Init
  OBVIOUS
<1>1. head[ReadbackPeer].key = FirstKey /\ FirstKey \in Keys
  BY ReadbackIsPeer, AndroidRotationAssumption DEF Init, Head1
<1>2. Begun \in BOOLEAN
  BY DEF Begun
<1>3. CASE /\ disk = [active |-> FirstKey, pending |-> None, intent |-> None]
           /\ generated = {FirstKey}
  <2>1. disk.active = FirstKey /\ disk.pending = None /\ disk.intent = None
    BY <1>3
  <2>. QED
    BY <1>1, <1>3, <2>1, UnlatchedNotBegun DEF Handover!Init
<1>4. CASE \E k \in Keys \ {FirstKey} :
             /\ disk.active = FirstKey /\ disk.pending = k
             /\ generated = {FirstKey, k}
  BY <1>1, <1>2, <1>4 DEF Handover!Init
<1>. QED
  BY SMT, <1>3, <1>4 DEF Init

(* A token is minted for a candidate that the readback peer shows.         *)
LEMMA TokensObserved ==
  ASSUME AndroidRotationInv, [Next]_vars
  PROVE  \A i \in confirmations' :
           i \in confirmations \/ i.draft.key = head[ReadbackPeer].key
<1>1. ASSUME NEW i, Observed(i) PROVE i.draft.key = head[ReadbackPeer].key
  <2>1. head[ReadbackPeer] = Candidate(i.draft)
    BY <1>1 DEF Observed
  <2>2. Candidate(i.draft).key = i.draft.key
    BY DEF Candidate
  <2>. QED
    BY <2>1, <2>2
<1>2. ASSUME NEW s \in Sessions, SessionStep(s)
      PROVE  \A i \in confirmations' : i \in confirmations \/ Observed(i)
  <2>1. UNCHANGED confirmations \/ ConfirmOwnerKeyRotation(s)
    BY <1>2 DEF SessionStep, Open, Lock, PrepareSigningKeyRotation,
      CancelSigningKeyRotation, BindLegacyRotationDispatchEnvironment,
      CreateOwnerKeyRotationDraft, LatchOwnerKeyRotationDispatchIntent,
      ResolveOwnerKeyRotationDispatchRejection, FinalizeSigningKeyRotation, tokens
  <2>. QED
    BY <2>1 DEF ConfirmOwnerKeyRotation, Observed
<1>3. ASSUME NEW p \in Publications, PublicationStep(p)
      PROVE  \A i \in confirmations' : i \in confirmations \/ Observed(i)
  BY <1>3 DEF PublicationStep, PrepareOwnerKeyRotationPublication, Expire,
    BeginDispatch, CheckCurrent, PrewriteFailure, ReadBack, PutIfCurrent,
    PutValue, FanOutExpired, FanOutDone, Acknowledged, NotAcknowledged, tokens
<1>4. CASE \/ UNCHANGED vars \/ ProcessLoss \/ \E l \in Logins : LoginStep(l)
           \/ Arrive \/ \E q \in Peers : OtherUpdate(q)
  BY <1>4 DEF LoginStep, ReserveLoginProofChallenge, LoginProofFails,
    SignLoginProof, Arrive, OtherUpdate, Accept, ProcessLoss, vars, tokens
<1>. QED
  BY <1>1, <1>2, <1>3, <1>4 DEF Next

(* Rotation in the Android wallet is a key handover, step for step: the    *)
(* successor is never withdrawn once a put was sent, and the promotion     *)
(* follows the readback peer (AndroidWallet.kt, AndroidIdentityAdapter.kt).*)
THEOREM RotationImplementsHandover == Spec => ImplementsHandover
<1>1. AndroidRotationInv /\ ReadbackInv /\ TokenInv /\ [Next]_vars =>
        [Handover!Next]_Handover!vars
  <2> SUFFICES ASSUME AndroidRotationInv, ReadbackInv, TokenInv, [Next]_vars
               PROVE  HandoverStep
    BY DEF HandoverStep
  <2>1. CASE UNCHANGED vars \/ ProcessLoss \/ \E l \in Logins : LoginStep(l)
    <3>1. UNCHANGED <<disk, generated, head, net>>
      BY <2>1 DEF vars, ProcessLoss, LoginStep, ReserveLoginProofChallenge,
        LoginProofFails, SignLoginProof, keyVars, registry
    <3>. QED
      BY <3>1, QuietHandover
  <2>2. ASSUME NEW s \in Sessions, SessionStep(s) PROVE HandoverStep
    <3>1. CASE \/ Open(s) \/ Lock(s) \/ ConfirmOwnerKeyRotation(s)
               \/ \E p \in Publications : CreateOwnerKeyRotationDraft(s, p)
      <4>1. UNCHANGED <<disk, generated, head, net>>
        BY <3>1 DEF Open, Lock, ConfirmOwnerKeyRotation,
          CreateOwnerKeyRotationDraft, keyVars, registry
      <4>. QED
        BY <4>1, QuietHandover
    <3>. QED
      BY <2>2, <3>1, PrepareHandover, CancelHandover, BindHandover,
        LatchHandover, ResolveHandover, FinalizeHandover DEF SessionStep
  <2>3. ASSUME NEW p \in Publications, PublicationStep(p) PROVE HandoverStep
    <3>1. UNCHANGED <<disk, generated, head, net>> \/ PutValue(p)
      BY <2>3 DEF PublicationStep, PrepareOwnerKeyRotationPublication, Expire,
        BeginDispatch, CheckCurrent, PrewriteFailure, ReadBack, PutIfCurrent,
        FanOutExpired, FanOutDone, Acknowledged, NotAcknowledged, Stop, keyVars,
        registry
    <3>. QED
      BY <3>1, QuietHandover, PutHandover
  <2>. QED
    BY <2>1, <2>2, <2>3, ArriveHandover, OtherHandover DEF Next
<1>2. Init => ReadbackInv /\ TokenInv
  <2> SUFFICES ASSUME Init PROVE ReadbackInv /\ TokenInv
    OBVIOUS
  <2>1. confirmations = {} /\ head[ReadbackPeer].key = FirstKey
    BY ReadbackIsPeer DEF Init, Head1
  <2>2. disk.active = FirstKey
    BY SMT DEF Init
  <2>. QED
    BY <2>1, <2>2 DEF ReadbackInv, TokenInv
<1>3. AndroidRotationInv /\ ReadbackInv /\ TokenInv /\ [Next]_vars =>
        ReadbackInv' /\ TokenInv'
  BY <1>1, TokensObserved, ReadbackStep DEF HandoverStep
<1>. QED
  BY <1>1, <1>2, <1>3, InitHandover, RotationInvariant, PTL
    DEF Spec, ImplementsHandover, Handover!Spec
=============================================================================
