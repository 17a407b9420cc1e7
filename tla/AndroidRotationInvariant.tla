---------------------- MODULE AndroidRotationInvariant ----------------------
(***************************************************************************)
(* The invariant of owner-key rotation in the Android wallet, and that     *)
(* each step preserves it.                                                 *)
(*                                                                         *)
(* The properties are not inductive.  The invariant adds why a publication *)
(* may send at all (its draft is latched on file, or was promoted while it *)
(* was sending), that no two publications send the same draft, and that a  *)
(* session whose permit has sent nothing latched a draft nobody has sent.  *)
(***************************************************************************)
EXTENDS AndroidRotation, TLAPS

(* Zenon proves the leaves that name no prover.                            *)
USE ZenonT(60)

(* A publication whose dispatch may still send a put.                      *)
Live(p) == phase[p] \in {"permitted", "begun", "checked", "fanout", "waiting"}

Unsent == {"free", "drafted", "ready", "permitted", "begun", "checked",
           "clearable"}

Latched(d) == disk.intent # None /\ disk.intent.draft = d

Replaced(d) == d.prev.key \in retired /\ d.key \in retired \cup {disk.active}

Kept(d) == Latched(d) \/ Replaced(d)

TypeInv ==
  /\ disk \in Content
  /\ session \in [Sessions -> Content \cup {Locked}]
  /\ current \in [Sessions -> BOOLEAN]
  /\ permit \in [Sessions -> Publications \cup {None}]
  /\ phase \in [Publications -> Phases]
  /\ draft \in [Publications -> Drafts \cup {None}]
  /\ sent \in [Publications -> Nat]
  /\ rejections \subseteq Publications /\ confirmations \subseteq Intents
  /\ head \in [Peers -> States]

FileInv ==
  /\ retired \subseteq generated /\ generated \subseteq Keys
  /\ disk.active \in generated \ retired
  /\ disk.pending # None =>
       disk.pending \in generated \ (retired \cup {disk.active})
  /\ disk.intent # None =>
       /\ disk.intent.draft.prev.key = disk.active
       /\ disk.intent.draft.key = disk.pending

SessionInv ==
  \A s \in Sessions :
    /\ current[s] => session[s] = disk
    /\ session[s] = Locked => permit[s] = None

PubInv ==
  \A p \in Publications :
    /\ phase[p] # "free" => draft[p] # None
    /\ phase[p] \in Unsent => sent[p] = 0
    /\ p \in rejections => phase[p] = "done" /\ sent[p] = 0
    /\ Live(p) => Kept(draft[p])

OneLive ==
  \A p, q \in Publications :
    Live(p) /\ Live(q) /\ draft[p] = draft[q] => p = q

NetInv == \A x \in net : x.draft \in Drafts /\ Kept(x.draft)

FanInv ==
  \A p \in Publications : Live(p) =>
    \A x \in net : x.draft = draft[p] =>
      \E i \in 1..sent[p] : x.peer = HistoryPeers[i]

PermitInv ==
  \A s \in Sessions : current[s] /\ permit[s] # None =>
    /\ \A q \in Publications :
         Live(q) /\ Latched(draft[q]) => q = permit[s]
    /\ sent[permit[s]] = 0 => \A x \in net : ~Latched(x.draft)

(* What the file, the sessions, the publications and the puts under way    *)
(* have to do with each other at every moment.                             *)
AndroidRotationInv ==
  /\ TypeInv /\ FileInv /\ SessionInv /\ PubInv /\ OneLive /\ NetInv /\ FanInv
  /\ PermitInv

USE DistinctAssumption

-----------------------------------------------------------------------------
LEMMA InitInv == Init => AndroidRotationInv
<1> SUFFICES ASSUME Init PROVE AndroidRotationInv
  OBVIOUS
<1> USE AndroidRotationAssumption DEF Init, ForSessions, ForPublications
<1>0. Head1 \in States /\ Head1.key = FirstKey
  BY DEF Head1, States
<1>1. CASE /\ disk = [active |-> FirstKey, pending |-> None, intent |-> None]
           /\ generated = {FirstKey} /\ net = {}
  <2>1. TypeInv
    BY <1>0, <1>1 DEF TypeInv, Content, Phases
  <2>. QED
    BY <2>1, <1>1 DEF AndroidRotationInv, FileInv, SessionInv, PubInv, OneLive,
      NetInv, FanInv, PermitInv, Live, Unsent
<1>2. CASE \E k \in Keys \ {FirstKey}, n \in 0..1 :
          LET d == [prev |-> Head1, key |-> k] IN
          /\ disk = [active |-> FirstKey, pending |-> k,
                     intent |-> [draft |-> d, bound |-> FALSE]]
          /\ generated = {FirstKey, k}
          /\ net = {[peer |-> HistoryPeers[i], draft |-> d] : i \in 1..n}
  <2>1. PICK k \in Keys \ {FirstKey}, n \in 0..1 :
          /\ disk = [active |-> FirstKey, pending |-> k,
                     intent |-> [draft |-> [prev |-> Head1, key |-> k],
                                 bound |-> FALSE]]
          /\ generated = {FirstKey, k}
          /\ net = {[peer |-> HistoryPeers[i],
                     draft |-> [prev |-> Head1, key |-> k]] : i \in 1..n}
    BY <1>2
  <2> DEFINE d == [prev |-> Head1, key |-> k]
  <2>2. d \in Drafts /\ d.prev.key = FirstKey /\ d.key = k
    BY <1>0 DEF Drafts
  <2>3. [draft |-> d, bound |-> FALSE] \in Intents
    BY <2>2 DEF Intents
  <2>4. /\ disk.active = FirstKey /\ disk.pending = k
        /\ disk.intent # None /\ disk.intent.draft = d
    BY <2>1, <2>3
  <2>5. \A x \in net : x.draft = d
    BY SMT, <2>1
  <2>6. disk \in Content
    BY <2>1, <2>3 DEF Content
  <2>7. TypeInv
    BY <2>6, <1>0 DEF TypeInv, Phases
  <2>8. FileInv
    <3> HIDE DEF d
    <3>. QED
      BY <2>1, <2>2, <2>4 DEF FileInv
  <2>9. NetInv
    <3> HIDE DEF d
    <3>. QED
      BY <2>2, <2>4, <2>5 DEF NetInv, Kept, Latched
  <2>. QED
    BY <2>7, <2>8, <2>9 DEF AndroidRotationInv, SessionInv, PubInv, OneLive,
      FanInv, PermitInv, Live, Unsent
<1>. QED
  BY <1>1, <1>2

-----------------------------------------------------------------------------
(* What a replacement of the container leaves behind: persistPayload-      *)
(* Candidate over a file that is or is not the one the session read.       *)
LEMMA Stored ==
  ASSUME TypeInv, SessionInv, NEW s \in Sessions, NEW c \in Content,
         Installed(s, c) \/ Lost(s, c)
  PROVE  /\ disk' \in Content
         /\ session' \in [Sessions -> Content \cup {Locked}]
         /\ current' \in [Sessions -> BOOLEAN]
         /\ \A t \in Sessions : current'[t] => session'[t] = disk'
         /\ \/ /\ disk' = disk
               /\ \A t \in Sessions : current'[t] => t # s /\ current[t]
            \/ /\ disk' = c /\ current[s] /\ session[s] = disk
               /\ \A t \in Sessions : current'[t] => t = s
<1>1. CASE Installed(s, c)
  BY <1>1 DEF Installed, TypeInv, SessionInv
<1>2. CASE Lost(s, c)
  <2>1. session' = [session EXCEPT ![s] = Locked]
    BY <1>2 DEF Lost, Wiped
  <2>2. CASE current' = [current EXCEPT ![s] = FALSE] /\ UNCHANGED disk
    BY <2>1, <2>2 DEF TypeInv, SessionInv
  <2>3. CASE current[s] /\ disk' = c /\ current' = [t \in Sessions |-> FALSE]
    BY <2>1, <2>3 DEF TypeInv, SessionInv
  <2>. QED
    BY <1>2, <2>2, <2>3 DEF Lost
<1>. QED
  BY <1>1, <1>2

(* After a replacement the session keeps its permit, or is locked and has  *)
(* none.                                                                   *)
LEMMA StoredPermit ==
  ASSUME TypeInv, SessionInv, NEW s \in Sessions, NEW c \in Content,
         \/ Installed(s, c) /\ UNCHANGED permit
         \/ Installed(s, c) /\ permit' = [permit EXCEPT ![s] = None]
         \/ Lost(s, c)
  PROVE  /\ permit' \in [Sessions -> Publications \cup {None}]
         /\ \A t \in Sessions : permit'[t] \in {permit[t], None}
         /\ \A t \in Sessions : session'[t] = Locked => permit'[t] = None
<1>1. CASE Installed(s, c)
  BY <1>1 DEF Installed, TypeInv, SessionInv, Lost, Wiped
<1>2. CASE Lost(s, c)
  BY <1>2 DEF Lost, Wiped, TypeInv, SessionInv
<1>. QED
  BY <1>1, <1>2

(* A replacement that leaves every sent or sending draft latched or        *)
(* replaced, and latches nothing new, preserves the invariant.             *)
LEMMA FilePreserves ==
  ASSUME AndroidRotationInv, NEW s \in Sessions, NEW c \in Content,
         \/ Installed(s, c) /\ UNCHANGED permit
         \/ Installed(s, c) /\ permit' = [permit EXCEPT ![s] = None]
         \/ Lost(s, c),
         FileInv', rejections' \subseteq rejections,
         UNCHANGED <<phase, draft, sent, confirmations, net, head>>,
         \A p \in Publications : Live(p) => Kept(draft[p])',
         \A x \in net : Kept(x.draft)',
         \A d \in Drafts : Latched(d)' => Latched(d)
  PROVE  AndroidRotationInv'
<1> USE DEF AndroidRotationInv
<1>1. /\ disk' \in Content
      /\ session' \in [Sessions -> Content \cup {Locked}]
      /\ current' \in [Sessions -> BOOLEAN]
      /\ \A t \in Sessions : current'[t] => session'[t] = disk' /\ current[t]
  BY Stored
<1>2. /\ permit' \in [Sessions -> Publications \cup {None}]
      /\ \A t \in Sessions : permit'[t] \in {permit[t], None}
      /\ \A t \in Sessions : session'[t] = Locked => permit'[t] = None
  BY StoredPermit
<1>3. TypeInv'
  BY <1>1, <1>2 DEF TypeInv
<1>4. SessionInv'
  BY <1>1, <1>2 DEF SessionInv
<1>5. \A p \in Publications : Live(p)' = Live(p) /\ (Live(p) => draft[p] \in Drafts)
  BY DEF Live, PubInv, TypeInv
<1>6. PubInv' /\ OneLive' /\ FanInv'
  BY <1>5 DEF PubInv, OneLive, FanInv
<1>7. NetInv'
  BY DEF NetInv
<1>8. PermitInv'
  BY <1>1, <1>2, <1>5 DEF PermitInv, NetInv
<1>. QED
  BY <1>3, <1>4, <1>6, <1>7, <1>8

(* The same when active key, latched draft and retired keys stay.          *)
LEMMA SameLatchPreserves ==
  ASSUME AndroidRotationInv, NEW s \in Sessions, NEW c \in Content,
         (Installed(s, c) /\ UNCHANGED permit) \/ Lost(s, c),
         FileInv', session[s] \in Content, c.active = session[s].active,
         \/ c.intent = None /\ session[s].intent = None
         \/ /\ c.intent # None /\ session[s].intent # None
            /\ c.intent.draft = session[s].intent.draft,
         UNCHANGED <<retired, phase, draft, sent, tokens, registry>>
  PROVE  AndroidRotationInv'
<1> USE DEF AndroidRotationInv
<1>1. disk' = disk \/ (disk' = c /\ session[s] = disk)
  BY Stored
<1>2. \A d : Kept(d)' = Kept(d) /\ Latched(d)' = Latched(d)
  BY <1>1 DEF Kept, Latched, Replaced
<1>3. /\ \A p \in Publications : Live(p) => Kept(draft[p])'
      /\ \A x \in net : Kept(x.draft)'
  BY <1>1 DEF PubInv, NetInv, Kept, Latched, Replaced
<1>4. UNCHANGED <<phase, draft, sent, confirmations, net, head>>
  BY DEF tokens, registry
<1>5. rejections' \subseteq rejections
  BY DEF tokens
<1>6. \A d \in Drafts : Latched(d)' => Latched(d)
  BY <1>2
<1>. QED
  BY <1>3, <1>4, <1>5, <1>6, FilePreserves

LEMMA PrepareSigningPreserves ==
  ASSUME AndroidRotationInv, NEW s \in Sessions, PrepareSigningKeyRotation(s)
  PROVE  AndroidRotationInv'
<1> USE DEF AndroidRotationInv
<1>1. PICK k \in Keys \ generated :
        /\ generated' = generated \cup {k}
        /\ \/ /\ Installed(s, [session[s] EXCEPT !.pending = k])
              /\ UNCHANGED <<permit, reserved, signed, login>>
           \/ Lost(s, [session[s] EXCEPT !.pending = k])
  BY DEF PrepareSigningKeyRotation
<1> DEFINE c == [session[s] EXCEPT !.pending = k]
<1>2. session[s] \in Content /\ session[s].intent = None
  BY DEF PrepareSigningKeyRotation, Unlocked, TypeInv
<1>3. /\ c \in Content /\ c.pending = k /\ c.intent = None
      /\ c.active = session[s].active
  BY <1>2 DEF Content
<1> HIDE DEF c
<1>4. (Installed(s, c) /\ UNCHANGED permit) \/ Lost(s, c)
  BY <1>1 DEF c
<1>5. UNCHANGED <<retired, phase, draft, sent, tokens, registry>>
  BY DEF PrepareSigningKeyRotation, pubVars
<1>6. disk' = disk \/ (disk' = c /\ session[s] = disk)
  BY <1>3, <1>4, Stored
<1>7. FileInv'
  BY <1>1, <1>2, <1>3, <1>5, <1>6 DEF FileInv
<1>. QED
  BY <1>2, <1>3, <1>4, <1>5, <1>7, SameLatchPreserves

LEMMA CancelPreserves ==
  ASSUME AndroidRotationInv, NEW s \in Sessions, CancelSigningKeyRotation(s)
  PROVE  AndroidRotationInv'
<1> USE DEF AndroidRotationInv
<1> DEFINE c == [session[s] EXCEPT !.pending = None]
<1>1. session[s] \in Content /\ session[s].intent = None
  BY DEF CancelSigningKeyRotation, Unlocked, TypeInv
<1>2. /\ c \in Content /\ c.pending = None /\ c.intent = None
      /\ c.active = session[s].active
  BY <1>1 DEF Content
<1>3. (Installed(s, c) /\ UNCHANGED permit) \/ Lost(s, c)
  BY DEF CancelSigningKeyRotation
<1> HIDE DEF c
<1>4. UNCHANGED <<generated, retired, phase, draft, sent, tokens, registry>>
  BY DEF CancelSigningKeyRotation, pubVars, keyVars
<1>5. disk' = disk \/ (disk' = c /\ session[s] = disk)
  BY <1>2, <1>3, Stored
<1>6. FileInv'
  BY <1>1, <1>2, <1>4, <1>5 DEF FileInv
<1>. QED
  BY <1>1, <1>2, <1>3, <1>4, <1>6, SameLatchPreserves

LEMMA BindPreserves ==
  ASSUME AndroidRotationInv, NEW s \in Sessions,
         BindLegacyRotationDispatchEnvironment(s)
  PROVE  AndroidRotationInv'
<1> USE DEF AndroidRotationInv
<1> DEFINE c == [session[s] EXCEPT !.intent.bound = TRUE]
<1>1. /\ session[s] \in Content /\ session[s].intent # None
      /\ session[s].intent \in Intents
  BY DEF BindLegacyRotationDispatchEnvironment, Unlocked, TypeInv, Content
<1>2. /\ c.intent \in Intents /\ c.intent.draft = session[s].intent.draft
      /\ c.pending = session[s].pending /\ c.active = session[s].active
      /\ c \in Content
  BY <1>1 DEF Content, Intents
<1>3. (Installed(s, c) /\ UNCHANGED permit) \/ Lost(s, c)
  BY DEF BindLegacyRotationDispatchEnvironment
<1> HIDE DEF c
<1>4. UNCHANGED <<generated, retired, phase, draft, sent, tokens, registry>>
  BY DEF BindLegacyRotationDispatchEnvironment, pubVars, keyVars
<1>5. disk' = disk \/ (disk' = c /\ session[s] = disk)
  BY <1>2, <1>3, Stored
<1>6. FileInv'
  BY <1>1, <1>2, <1>4, <1>5 DEF FileInv
<1>7. c.intent # None
  BY <1>2
<1>. QED
  BY <1>1, <1>2, <1>3, <1>4, <1>6, <1>7, SameLatchPreserves

LEMMA ResolvePreserves ==
  ASSUME AndroidRotationInv, NEW s \in Sessions,
         ResolveOwnerKeyRotationDispatchRejection(s)
  PROVE  AndroidRotationInv'
<1> USE DEF AndroidRotationInv
<1> DEFINE c == [session[s] EXCEPT !.intent = None]
<1>1. PICK p \in rejections :
        /\ p = permit[s]
        /\ \/ /\ Installed(s, c)
              /\ permit' = [permit EXCEPT ![s] = None]
              /\ rejections' = rejections \ {p}
           \/ Lost(s, c) /\ UNCHANGED rejections
  BY DEF ResolveOwnerKeyRotationDispatchRejection
<1>2. session[s] \in Content /\ p \in Publications /\ p # None
  BY <1>1 DEF ResolveOwnerKeyRotationDispatchRejection, Unlocked, TypeInv
<1>3. /\ c \in Content /\ c.intent = None
      /\ c.active = session[s].active /\ c.pending = session[s].pending
  BY <1>2 DEF Content
<1> HIDE DEF c
<1>4. \/ Installed(s, c) /\ permit' = [permit EXCEPT ![s] = None]
      \/ Lost(s, c)
  BY <1>1
<1>5. UNCHANGED <<generated, retired, phase, draft, sent, confirmations, registry>>
  BY DEF ResolveOwnerKeyRotationDispatchRejection, pubVars, keyVars
<1>6. disk' = disk \/ (disk' = c /\ session[s] = disk /\ current[s])
  BY <1>3, <1>4, Stored
<1>7. FileInv'
  BY <1>3, <1>5, <1>6 DEF FileInv
<1>8. \A d \in Drafts : Latched(d)' => Latched(d)
  BY <1>3, <1>6 DEF Latched
<1>9. sent[p] = 0 /\ ~Live(p)
  BY <1>1, <1>2 DEF PubInv, Live
<1>10. ASSUME NEW d, Kept(d), current[s] => ~Latched(d)
       PROVE  Kept(d)'
  BY <1>3, <1>5, <1>6, <1>10 DEF Kept, Latched, Replaced
<1>11. /\ \A q \in Publications : Live(q) /\ current[s] => ~Latched(draft[q])
       /\ \A x \in net : current[s] => ~Latched(x.draft)
  BY <1>1, <1>2, <1>9 DEF PermitInv
<1>12. \A q \in Publications : Live(q) => Kept(draft[q])'
  <2> SUFFICES ASSUME NEW q \in Publications, Live(q) PROVE Kept(draft[q])'
    OBVIOUS
  <2> DEFINE d == draft[q]
  <2>1. Kept(d) /\ (current[s] => ~Latched(d))
    BY <1>11 DEF PubInv
  <2>. QED
    BY <2>1, <1>3, <1>5, <1>6 DEF Kept, Latched, Replaced
<1>13. \A x \in net : Kept(x.draft)'
  <2> SUFFICES ASSUME NEW x \in net PROVE Kept(x.draft)'
    OBVIOUS
  <2>1. Kept(x.draft) /\ (current[s] => ~Latched(x.draft))
    BY <1>11 DEF NetInv
  <2>. QED
    BY <2>1, <1>10
<1>14. UNCHANGED <<phase, draft, sent, confirmations, net, head>>
  BY <1>5 DEF registry
<1>15. rejections' \subseteq rejections
  BY <1>1
<1>. QED
  BY <1>3, <1>4, <1>7, <1>8, <1>12, <1>13, <1>14, <1>15, FilePreserves

LEMMA FinalizePreserves ==
  ASSUME AndroidRotationInv, NEW s \in Sessions, FinalizeSigningKeyRotation(s)
  PROVE  AndroidRotationInv'
<1> USE DEF AndroidRotationInv
<1> DEFINE c == [active |-> session[s].pending, pending |-> None,
                 intent |-> None]
<1>1. /\ session[s] \in Content /\ session[s].intent \in Intents
      /\ session[s].intent.draft.key \in Keys
      /\ session[s].pending = session[s].intent.draft.key
  BY DEF FinalizeSigningKeyRotation, Unlocked, TypeInv, Intents, Drafts
<1>2. /\ c \in Content /\ c.intent = None /\ c.pending = None
      /\ c.active = session[s].pending
  BY <1>1 DEF Content
<1>3. \/ Installed(s, c) /\ permit' = [permit EXCEPT ![s] = None]
      \/ Lost(s, c)
  BY DEF FinalizeSigningKeyRotation
<1>4. /\ UNCHANGED <<generated, phase, draft, sent, tokens, registry>>
      /\ retired' = IF disk' = disk THEN retired ELSE retired \cup {disk.active}
  BY DEF FinalizeSigningKeyRotation, pubVars
<1> HIDE DEF c
<1>5. disk' = disk \/ (disk' = c /\ session[s] = disk)
  BY <1>2, <1>3, Stored
<1>6. CASE disk' = disk
  <2>1. retired' = retired
    BY <1>4, <1>6
  <2>2. FileInv'
    BY <1>4, <1>6, <2>1 DEF FileInv
  <2>3. /\ \A p \in Publications : Live(p) => Kept(draft[p])'
        /\ \A x \in net : Kept(x.draft)'
        /\ \A d \in Drafts : Latched(d)' => Latched(d)
    BY <1>4, <1>6, <2>1 DEF PubInv, NetInv, Kept, Latched, Replaced
  <2>. QED
    BY <1>2, <1>3, <1>4, <2>2, <2>3, FilePreserves DEF tokens, registry
<1>7. CASE disk' = c /\ session[s] = disk
  <2>1. disk.intent # None /\ disk.pending \in Keys
    BY <1>1, <1>7
  <2>2. retired' = retired \cup {disk.active}
    BY <1>2, <1>4, <1>7, <2>1
  <2>3. FileInv'
    BY <1>2, <1>4, <1>7, <2>1, <2>2 DEF FileInv
  <2>4. ASSUME NEW d, Kept(d) PROVE Kept(d)'
    BY <1>2, <1>7, <2>1, <2>2, <2>4 DEF FileInv, Kept, Latched, Replaced
  <2>5. \A x \in net : Kept(x.draft)'
    BY <2>4 DEF NetInv
  <2>6. \A p \in Publications : Live(p) => Kept(draft[p])'
    BY <1>2, <1>4, <1>7, <2>1, <2>2 DEF PubInv, FileInv, Kept, Latched, Replaced
  <2>7. \A d \in Drafts : Latched(d)' => Latched(d)
    BY <1>2, <1>7 DEF Latched
  <2>. QED
    BY <1>2, <1>3, <1>4, <2>3, <2>5, <2>6, <2>7, FilePreserves DEF tokens, registry
<1>. QED
  BY <1>5, <1>6, <1>7

LEMMA OpenLockPreserves ==
  ASSUME AndroidRotationInv, NEW s \in Sessions, Open(s) \/ Lock(s)
  PROVE  AndroidRotationInv'
<1> USE DEF AndroidRotationInv
<1>1. /\ UNCHANGED <<disk, generated, retired, phase, draft, sent, tokens, registry>>
      /\ session' \in [Sessions -> Content \cup {Locked}]
      /\ current' \in [Sessions -> BOOLEAN]
      /\ permit' \in [Sessions -> Publications \cup {None}]
      /\ \A t \in Sessions :
           /\ current'[t] => session'[t] = disk
           /\ session'[t] = Locked => permit'[t] = None
           /\ current'[t] /\ permit'[t] # None =>
                current[t] /\ permit'[t] = permit[t]
  <2>1. CASE Open(s)
    <3>1. /\ session' = [session EXCEPT ![s] = disk]
          /\ current' = [current EXCEPT ![s] = TRUE]
          /\ UNCHANGED <<disk, permit, generated, retired, phase, draft, sent,
                         tokens, registry>>
      BY <2>1 DEF Open, keyVars, pubVars
    <3>2. disk # Locked /\ permit[s] = None
      BY <2>1 DEF Open, TypeInv, SessionInv
    <3>. QED
      BY <3>1, <3>2 DEF TypeInv, SessionInv
  <2>2. CASE Lock(s)
    <3>1. /\ session' = [session EXCEPT ![s] = Locked]
          /\ permit' = [permit EXCEPT ![s] = None]
          /\ current' = [current EXCEPT ![s] = FALSE]
          /\ UNCHANGED <<disk, generated, retired, phase, draft, sent, tokens,
                         registry>>
      BY <2>2 DEF Lock, Wiped, keyVars, pubVars
    <3>. QED
      BY <3>1 DEF TypeInv, SessionInv
  <2>. QED
    BY <2>1, <2>2
<1>2. TypeInv' /\ FileInv' /\ SessionInv'
  BY <1>1 DEF TypeInv, FileInv, SessionInv, tokens, registry
<1>3. \A d : Kept(d)' = Kept(d) /\ Latched(d)' = Latched(d)
  BY <1>1 DEF Kept, Latched, Replaced
<1>4. PubInv' /\ OneLive' /\ FanInv' /\ NetInv'
  BY <1>1 DEF PubInv, OneLive, FanInv, NetInv, Live, Kept, Latched,
    Replaced, tokens, registry
<1>5. PermitInv'
  BY <1>1 DEF PermitInv, Live, Latched, registry
<1>. QED
  BY <1>2, <1>4, <1>5

(* A permit keeps its meaning while no publication becomes live and nothing *)
(* else that it speaks of changes.                                         *)
LEMMA PermitKept ==
  ASSUME PermitInv, UNCHANGED <<disk, current, permit, sent, net>>,
         \A q \in Publications : Live(q)' => Live(q) /\ draft'[q] = draft[q]
  PROVE  PermitInv'
<1>1. \A d : Latched(d)' = Latched(d)
  BY DEF Latched
<1>2. ASSUME NEW s \in Sessions, current[s], permit[s] # None,
             NEW q \in Publications, Live(q)', Latched(draft'[q])
      PROVE  q = permit[s]
  <2>1. Live(q) /\ Latched(draft[q])
    BY <1>2
  <2>. QED
    BY <1>2, <2>1 DEF PermitInv
<1>3. ASSUME NEW s \in Sessions, current[s], permit[s] # None, sent[permit[s]] = 0,
             NEW x \in net
      PROVE  ~Latched(x.draft)
  BY <1>3 DEF PermitInv
<1> HIDE DEF Latched, Live
<1>4. PermitInv' = \A s \in Sessions : current[s] /\ permit[s] # None =>
        /\ \A q \in Publications :
             Live(q)' /\ Latched(draft[q])' => q = permit[s]
        /\ sent[permit[s]] = 0 => \A x \in net : ~Latched(x.draft)'
  BY DEF PermitInv
<1>. QED
  BY <1>1, <1>2, <1>3, <1>4

-----------------------------------------------------------------------------
(* A publication moves on without sending: it does not become live, and    *)
(* only a dispatch that has sent nothing is rejected.                      *)
LEMMA MovePreserves ==
  ASSUME AndroidRotationInv, NEW p \in Publications, NEW to \in Phases,
         phase' = [phase EXCEPT ![p] = to],
         phase[p] \notin {"free", "done"}, to # "free",
         to \in {"permitted", "begun", "checked", "fanout", "waiting"} => Live(p),
         to \in Unsent => sent[p] = 0,
         rejections' \subseteq rejections \cup {p},
         p \in rejections' => to = "done" /\ sent[p] = 0,
         confirmations' \subseteq confirmations \cup {IntentOf(p)},
         UNCHANGED <<disk, session, current, permit, generated, retired, draft,
                     sent, head, net>>
  PROVE  AndroidRotationInv'
<1> USE DEF AndroidRotationInv
<1>1. draft[p] \in Drafts /\ p \notin rejections
  BY DEF PubInv, TypeInv
<1>2. IntentOf(p) \in Intents
  BY <1>1 DEF IntentOf, Intents
<1>3. TypeInv' /\ FileInv' /\ SessionInv'
  BY <1>2 DEF TypeInv, FileInv, SessionInv
<1>4. \A q \in Publications : /\ q # p => phase'[q] = phase[q]
                             /\ Live(q)' => Live(q)
  BY DEF Live, TypeInv
<1>5. phase'[p] = to
  BY DEF TypeInv
<1>6. PubInv'
  <2> SUFFICES ASSUME NEW q \in Publications
               PROVE  /\ phase'[q] # "free" => draft[q] # None
                      /\ phase'[q] \in Unsent => sent[q] = 0
                      /\ q \in rejections' => phase'[q] = "done" /\ sent[q] = 0
                      /\ Live(q)' => Kept(draft[q])
    BY DEF PubInv, Kept, Latched, Replaced
  <2>1. CASE q = p
    BY <1>1, <1>4, <1>5, <2>1 DEF PubInv
  <2>2. CASE q # p
    <3>1. phase'[q] = phase[q] /\ (q \in rejections' => q \in rejections)
      BY SMT, <1>4, <2>2
    <3>2. Live(q)' => Live(q)
      BY SMT, <1>4
    <3>. QED
      BY <3>1, <3>2 DEF PubInv
  <2>. QED
    BY <2>1, <2>2
<1>7. OneLive' /\ FanInv'
  BY SMT, <1>4 DEF OneLive, FanInv
<1>8. NetInv'
  BY DEF NetInv, Kept, Latched, Replaced
<1>9. PermitInv'
  <2>1. PermitInv /\ UNCHANGED <<disk, current, permit, draft, sent, net>>
    OBVIOUS
  <2> HIDE DEF AndroidRotationInv
  <2>2. \A q \in Publications : Live(q)' => Live(q) /\ draft'[q] = draft[q]
    BY SMT, <1>4, <2>1
  <2>. QED
    BY <2>1, <2>2, PermitKept
<1>. QED
  BY <1>3, <1>6, <1>7, <1>8, <1>9

(* A draft is made, or taken for a publication.                            *)
LEMMA DraftPreserves ==
  ASSUME AndroidRotationInv, NEW p \in Publications, NEW d \in Drafts,
         phase[p] \in {"free", "drafted"},
         draft' = [draft EXCEPT ![p] = d],
         phase' = [phase EXCEPT ![p] = "drafted"]
           \/ phase' = [phase EXCEPT ![p] = "ready"],
         UNCHANGED <<disk, session, current, permit, generated, retired, sent,
                     rejections, confirmations, head, net>>
  PROVE  AndroidRotationInv'
<1> USE DEF AndroidRotationInv
<1>1. TypeInv' /\ FileInv' /\ SessionInv'
  BY SMT DEF TypeInv, FileInv, SessionInv, Phases
<1>2. \A q \in Publications :
        q # p => phase'[q] = phase[q] /\ draft'[q] = draft[q]
  BY DEF TypeInv
<1>3. /\ phase'[p] \in {"drafted", "ready"} /\ draft'[p] = d
      /\ sent[p] = 0 /\ p \notin rejections
  BY DEF TypeInv, PubInv, Unsent
<1>4. \A q \in Publications : Live(q)' => q # p /\ Live(q)
  BY <1>2, <1>3 DEF Live
<1>5. PubInv'
  BY SMT, <1>2, <1>3, <1>4 DEF PubInv, Kept, Latched, Replaced
<1>6. OneLive' /\ FanInv' /\ NetInv'
  BY SMT, <1>2, <1>4 DEF OneLive, FanInv, NetInv, Kept, Latched, Replaced
<1>7. PermitInv'
  BY <1>2, <1>4, PermitKept
<1>. QED
  BY <1>1, <1>5, <1>6, <1>7

LEMMA LatchPreserves ==
  ASSUME AndroidRotationInv, NEW s \in Sessions, NEW p \in Publications,
         LatchOwnerKeyRotationDispatchIntent(s, p)
  PROVE  AndroidRotationInv'
<1> USE DEF AndroidRotationInv
<1> DEFINE c == [session[s] EXCEPT !.intent = IntentOf(p)]
<1>1. /\ session[s] \in Content /\ session[s].intent = None
      /\ permit[s] = None /\ phase[p] = "ready"
      /\ draft[p] \in Drafts /\ sent[p] = 0 /\ p \notin rejections
      /\ UNCHANGED <<generated, retired, draft, sent, rejections, confirmations,
                     head, net>>
  BY DEF LatchOwnerKeyRotationDispatchIntent, Unlocked, Rotating, TypeInv, PubInv,
    Unsent, keyVars, tokens, registry
<1>2. IntentOf(p) \in Intents /\ IntentOf(p).draft = draft[p]
  BY <1>1 DEF IntentOf, Intents
<1>3. /\ c \in Content /\ c.intent # None /\ c.intent.draft = draft[p]
      /\ c.active = session[s].active /\ c.pending = session[s].pending
  BY <1>1, <1>2 DEF Content
<1> DEFINE matches == /\ session[s].active = draft[p].prev.key
                      /\ session[s].pending = draft[p].key
<1>4. \/ /\ matches /\ Installed(s, c) /\ permit' = [permit EXCEPT ![s] = p]
         /\ phase' = [phase EXCEPT ![p] = "permitted"]
      \/ /\ matches /\ Lost(s, c) /\ phase' = [phase EXCEPT ![p] = "void"]
      \/ /\ phase' = [phase EXCEPT ![p] = "void"] /\ UNCHANGED <<disk, sessionVars>>
  BY DEF LatchOwnerKeyRotationDispatchIntent
<1> HIDE DEF c
<1>5. CASE /\ phase' = [phase EXCEPT ![p] = "void"]
           /\ UNCHANGED <<disk, session, current, permit>>
  <2>1. "void" \in Phases /\ "void" \notin Unsent
    BY DEF Phases, Unsent
  <2>. QED
    BY <1>1, <1>5, <2>1, MovePreserves
<1>6. CASE /\ matches
           /\ \/ /\ Installed(s, c) /\ permit' = [permit EXCEPT ![s] = p]
                 /\ phase' = [phase EXCEPT ![p] = "permitted"]
              \/ Lost(s, c) /\ phase' = [phase EXCEPT ![p] = "void"]
  <2>1. /\ disk' \in Content
        /\ session' \in [Sessions -> Content \cup {Locked}]
        /\ current' \in [Sessions -> BOOLEAN]
        /\ \A t \in Sessions : current'[t] => session'[t] = disk'
        /\ \/ /\ disk' = disk
              /\ \A t \in Sessions : current'[t] => t # s /\ current[t]
           \/ /\ disk' = c /\ current[s] /\ session[s] = disk
              /\ \A t \in Sessions : current'[t] => t = s
    BY <1>3, <1>6, Stored
  <2>2. /\ permit' \in [Sessions -> Publications \cup {None}]
        /\ \A t \in Sessions : t # s => permit'[t] = permit[t]
        /\ permit'[s] = IF Installed(s, c) THEN p ELSE None
        /\ session'[s] = Locked => permit'[s] = None
        /\ \A t \in Sessions : t # s => session'[t] = session[t]
    <3>1. CASE Installed(s, c) /\ permit' = [permit EXCEPT ![s] = p]
      BY <3>1, <1>3 DEF Installed, TypeInv
    <3>2. CASE Lost(s, c) /\ ~Installed(s, c)
      BY <3>2 DEF Lost, Wiped, TypeInv
    <3>3. ~(Lost(s, c) /\ Installed(s, c))
      BY <1>3 DEF Lost, Wiped, Installed, TypeInv
    <3>. QED
      BY <1>6, <3>1, <3>2, <3>3
  <2>3. /\ phase'[p] \in {"permitted", "void"}
        /\ phase'[p] = "permitted" => disk' # disk /\ permit'[s] = p
        /\ phase' \in [Publications -> Phases]
        /\ \A q \in Publications : q # p => phase'[q] = phase[q]
    <3>1. phase \in [Publications -> Phases]
      BY DEF TypeInv
    <3>2. CASE Installed(s, c) /\ phase' = [phase EXCEPT ![p] = "permitted"]
      <4>1. disk' = c /\ session[s] = disk /\ permit'[s] = p
        BY <2>2, <3>2 DEF Installed, SessionInv
      <4>2. disk' # disk
        BY <1>1, <1>3, <4>1
      <4>. QED
        BY <3>1, <3>2, <4>1, <4>2 DEF Phases
    <3>3. CASE phase' = [phase EXCEPT ![p] = "void"]
      BY <3>1, <3>3 DEF Phases
    <3>. QED
      BY <1>6, <3>2, <3>3
  <2>4. TypeInv'
    BY <1>1, <2>1, <2>2, <2>3 DEF TypeInv
  <2>5. SessionInv'
    BY <2>1, <2>2 DEF SessionInv
  <2>6. FileInv'
    BY <1>1, <1>3, <1>6, <2>1 DEF FileInv
  <2>7. disk' # disk => /\ ~Replaced(draft[p])
                        /\ disk.intent = None
                        /\ \A d : Latched(d)' <=> d = draft[p]
    BY <1>1, <1>3, <1>6, <2>1 DEF FileInv, Latched, Replaced
  <2>8. disk'.active = disk.active
    BY <1>1, <1>3, <2>1
  <2>9. ASSUME NEW d, Kept(d) PROVE Kept(d)' /\ (disk' # disk => Replaced(d))
    BY <1>1, <2>1, <2>7, <2>8, <2>9 DEF Kept, Latched, Replaced
  <2>10. NetInv'
    BY <1>1, <2>9 DEF NetInv
  <2>11. /\ \A x \in net : disk' # disk => x.draft # draft[p]
         /\ \A q \in Publications : Live(q) /\ disk' # disk => draft[q] # draft[p]
    BY <2>7, <2>9 DEF NetInv, PubInv
  <2>12. \A q \in Publications :
           Live(q)' => \/ q # p /\ Live(q)
                       \/ q = p /\ disk' # disk /\ permit'[s] = p
    <3>1. Live(p)' => phase'[p] = "permitted"
      BY <2>3 DEF Live
    <3>2. \A q \in Publications : q # p => Live(q)' = Live(q)
      BY <2>3 DEF Live
    <3>. QED
      BY <2>3, <3>1, <3>2
  <2>13. Live(p)' => Kept(draft[p])'
    BY <1>1, <2>3, <2>7, <2>12 DEF Kept, Latched
  <2>14. PubInv'
    <3>1. \A q \in Publications : q # p /\ Live(q) => Kept(draft[q])'
      <4> SUFFICES ASSUME NEW q \in Publications, Live(q) PROVE Kept(draft[q])'
        OBVIOUS
      <4>1. Kept(draft[q])
        BY DEF PubInv
      <4>. QED
        BY <4>1, <1>1, <2>1, <2>7, <2>8 DEF Kept, Latched, Replaced
    <3>. QED
      BY <1>1, <2>3, <2>12, <2>13, <3>1 DEF PubInv, Unsent
  <2>15. OneLive'
    BY <1>1, <2>11, <2>12 DEF OneLive
  <2>16. FanInv'
    BY <1>1, <2>11, <2>12 DEF FanInv
  <2>17. PermitInv'
    <3> SUFFICES ASSUME NEW t \in Sessions, current'[t], permit'[t] # None
                 PROVE  /\ \A q \in Publications :
                             Live(q)' /\ Latched(draft[q])' => q = permit'[t]
                        /\ sent[permit'[t]] = 0 => \A x \in net : ~Latched(x.draft)'
      BY <1>1 DEF PermitInv, Latched
    <3>1. CASE disk' # disk /\ t = s
      BY <1>1, <3>1, <2>2, <2>7, <2>11, <2>12 DEF Latched
    <3>2. CASE disk' = disk /\ t # s /\ current[t]
      BY <1>1, <3>2, <2>2, <2>12 DEF PermitInv, Latched
    <3>. QED
      BY <1>1, <1>3, <2>1, <3>1, <3>2
  <2>. QED
    BY <2>4, <2>5, <2>6, <2>10, <2>14, <2>15, <2>16, <2>17
<1>. QED
  BY <1>4, <1>5, <1>6 DEF sessionVars

LEMMA PutValuePreserves ==
  ASSUME AndroidRotationInv, NEW p \in Publications, PutValue(p)
  PROVE  AndroidRotationInv'
<1> USE DEF AndroidRotationInv
<1> DEFINE n == sent[p] + 1
           x0 == PutTo(p, n)
<1>1. /\ UNCHANGED <<disk, session, current, permit, generated, retired, draft,
                     rejections, confirmations, head>>
      /\ sent' = [sent EXCEPT ![p] = n] /\ net' = net \cup {x0}
      /\ phase' = [phase EXCEPT ![p] = "waiting"]
  BY DEF PutValue, Goto, sessionVars, keyVars, tokens
<1>2. /\ Live(p) /\ Kept(draft[p]) /\ draft[p] \in Drafts
      /\ p \notin rejections /\ sent[p] \in Nat
  BY DEF PutValue, Live, PubInv, TypeInv
<1>3. x0.draft = draft[p] /\ x0.peer = HistoryPeers[n]
  BY DEF PutTo
<1> HIDE DEF x0
<1>4. /\ sent'[p] = n /\ n \in Nat /\ n > 0 /\ sent[p] = n - 1
      /\ phase'[p] = "waiting"
      /\ \A q \in Publications : q # p => sent'[q] = sent[q] /\ phase'[q] = phase[q]
  <2>1. sent \in [Publications -> Nat] /\ phase \in [Publications -> Phases]
    BY DEF TypeInv
  <2>2. n \in Nat /\ n > 0 /\ sent[p] = n - 1
    BY SMT, <1>2
  <2> HIDE DEF n
  <2>3. /\ sent'[p] = n
        /\ \A q \in Publications : q # p => sent'[q] = sent[q]
    BY <1>1, <2>1
  <2>4. /\ phase'[p] = "waiting"
        /\ \A q \in Publications : q # p => phase'[q] = phase[q]
    BY <1>1, <2>1
  <2>. QED
    BY <2>2, <2>3, <2>4
<1> HIDE DEF n
<1>5. TypeInv' /\ FileInv' /\ SessionInv'
  BY <1>1, <1>2, <1>4 DEF TypeInv, FileInv, SessionInv, Phases
<1>6. \A q \in Publications : Live(q)' => Live(q)
  BY <1>2, <1>4 DEF Live
<1>7. \A d : Kept(d)' = Kept(d) /\ Latched(d)' = Latched(d)
  BY <1>1 DEF Kept, Latched, Replaced
<1>8. PubInv'
  BY <1>1, <1>2, <1>4, <1>6 DEF PubInv, Unsent, Kept, Latched, Replaced
<1>9. OneLive'
  BY <1>1, <1>6 DEF OneLive
<1>10. NetInv'
  BY <1>1, <1>2, <1>3 DEF NetInv, Kept, Latched, Replaced
<1>11. FanInv'
  <2> SUFFICES ASSUME NEW q \in Publications, Live(q)', NEW x \in net',
                      x.draft = draft[q]
               PROVE  \E i \in 1..sent'[q] : x.peer = HistoryPeers[i]
    BY <1>1 DEF FanInv
  <2>1. CASE q = p /\ x = x0
    <3>1. n \in 1..n
      BY SMT, <1>4
    <3>. QED
      BY <1>3, <1>4, <2>1, <3>1
  <2>2. CASE q = p /\ x \in net
    <3>1. PICK i \in 1..sent[p] : x.peer = HistoryPeers[i]
      BY <1>2, <2>2 DEF FanInv
    <3>. QED
      BY SMT, <1>4, <2>2, <3>1
  <2>3. CASE q # p /\ x = x0
    BY <1>2, <1>3, <1>6, <2>3 DEF OneLive
  <2>4. CASE q # p /\ x \in net
    BY <1>4, <1>6, <2>4 DEF FanInv
  <2>. QED
    BY <1>1, <2>1, <2>2, <2>3, <2>4
<1>12. PermitInv'
  <2> SUFFICES ASSUME NEW t \in Sessions, current[t], permit[t] # None
               PROVE  /\ \A q \in Publications :
                           Live(q)' /\ Latched(draft[q]) => q = permit[t]
                      /\ sent'[permit[t]] = 0 => \A x \in net' : ~Latched(x.draft)
    BY <1>1 DEF PermitInv, Latched
  <2>1. permit[t] \in Publications
    BY DEF TypeInv
  <2>2. Latched(draft[p]) => permit[t] = p
    BY <1>2 DEF PermitInv
  <2>3. sent'[permit[t]] = 0 => permit[t] # p /\ sent[permit[t]] = 0
    BY SMT, <1>4, <2>1
  <2>4. sent'[permit[t]] = 0 => \A x \in net : ~Latched(x.draft)
    BY <2>3 DEF PermitInv
  <2>5. sent'[permit[t]] = 0 => ~Latched(x0.draft)
    BY <1>3, <2>2, <2>3
  <2>. QED
    BY <1>1, <1>6, <2>4, <2>5 DEF PermitInv
<1>. QED
  BY <1>5, <1>8, <1>9, <1>10, <1>11, <1>12

(* The steps of the adapter and the transport that send nothing.           *)
LEMMA DispatchPreserves ==
  ASSUME AndroidRotationInv, NEW p \in Publications,
         \/ BeginDispatch(p) \/ CheckCurrent(p) \/ PrewriteFailure(p)
         \/ ReadBack(p) \/ PutIfCurrent(p) \/ FanOutExpired(p)
         \/ FanOutDone(p) \/ Acknowledged(p) \/ NotAcknowledged(p)
  PROVE  AndroidRotationInv'
<1> USE DEF AndroidRotationInv
<1> DEFINE to == phase'[p]
<1>0. phase \in [Publications -> Phases] /\ sent[p] \in Nat
  BY DEF TypeInv
<1>1. UNCHANGED <<disk, session, current, permit, generated, retired, draft,
                  sent, head, net>>
  BY DEF BeginDispatch, CheckCurrent, PrewriteFailure, ReadBack,
    PutIfCurrent, FanOutExpired, FanOutDone, Acknowledged, NotAcknowledged,
    Stop, sessionVars, keyVars, registry
<1>2. /\ to \in {"begun", "checked", "fanout", "ambiguous", "clearable", "done"}
      /\ phase' = [phase EXCEPT ![p] = to]
      /\ phase[p] \in {"permitted", "begun", "checked", "fanout", "waiting",
                       "clearable", "ambiguous"}
      /\ phase[p] \in {"clearable", "ambiguous"} => to = "done"
      /\ to \in {"begun", "checked"} => phase[p] \in {"permitted", "begun"}
      /\ to = "clearable" => phase[p] \in {"begun", "checked"} \/ sent[p] = 0
  <2>1. CASE BeginDispatch(p)
    BY <1>0, <2>1 DEF BeginDispatch, Goto
  <2>2. CASE CheckCurrent(p)
    BY <1>0, <2>2 DEF CheckCurrent, Goto
  <2>3. CASE PrewriteFailure(p)
    BY <1>0, <2>3 DEF PrewriteFailure, Goto
  <2>4. CASE ReadBack(p)
    BY <1>0, <2>4 DEF ReadBack, Goto
  <2>5. CASE PutIfCurrent(p)
    BY <1>0, <2>5 DEF PutIfCurrent, Goto
  <2>6. CASE FanOutExpired(p)
    <3>1. CASE sent[p] > 0 /\ Goto(p, "ambiguous")
      BY <1>0, <2>6, <3>1 DEF FanOutExpired, Goto
    <3>2. CASE sent[p] = 0 /\ Goto(p, "clearable")
      BY <1>0, <2>6, <3>2 DEF FanOutExpired, Goto
    <3>. QED
      BY <2>6, <3>1, <3>2 DEF FanOutExpired
  <2>7. CASE FanOutDone(p)
    BY <1>0, <2>7 DEF FanOutDone, Goto
  <2>8. CASE Acknowledged(p)
    BY <1>0, <2>8 DEF Acknowledged, Goto
  <2>9. CASE NotAcknowledged(p)
    BY <1>0, <2>9 DEF NotAcknowledged, Goto
  <2>. QED
    BY <2>1, <2>2, <2>3, <2>4, <2>5, <2>6, <2>7, <2>8, <2>9
<1>3. /\ rejections' \subseteq rejections \cup {p}
      /\ rejections' # rejections => phase[p] = "clearable"
      /\ confirmations' \subseteq confirmations \cup {IntentOf(p)}
  BY DEF BeginDispatch, CheckCurrent, PrewriteFailure, ReadBack,
    PutIfCurrent, FanOutExpired, FanOutDone, Acknowledged, NotAcknowledged, tokens
<1> HIDE DEF to
<1>4. p \notin rejections /\ (phase[p] \in Unsent => sent[p] = 0)
  BY <1>2 DEF PubInv
<1>5. p \in rejections' => to = "done" /\ sent[p] = 0
  BY <1>2, <1>3, <1>4 DEF Unsent
<1>6. to \in Unsent => sent[p] = 0
  BY <1>2, <1>4 DEF Unsent
<1>7. /\ to \in {"permitted", "begun", "checked", "fanout", "waiting"} => Live(p)
      /\ to \in Phases /\ to # "free" /\ phase[p] \notin {"free", "done"}
  BY <1>2 DEF Live, Phases
<1>. QED
  BY <1>1, <1>2, <1>3, <1>5, <1>6, <1>7, MovePreserves

(* Steps that leave file, sessions, publications and puts alone.           *)
LEMMA FramePreserves ==
  ASSUME AndroidRotationInv, head' \in [Peers -> States],
         confirmations' \subseteq Intents,
         UNCHANGED <<disk, session, current, permit, generated, retired, phase,
                     draft, sent, rejections, net>>
  PROVE  AndroidRotationInv'
<1> USE DEF AndroidRotationInv
<1>1. TypeInv' /\ FileInv' /\ SessionInv'
  BY DEF TypeInv, FileInv, SessionInv
<1>2. PubInv' /\ NetInv'
  BY DEF PubInv, NetInv, Live, Kept, Latched, Replaced
<1>3. OneLive' /\ FanInv'
  BY DEF OneLive, FanInv, Live
<1>4. PermitInv'
  BY DEF PermitInv, Live, Latched
<1>. QED
  BY <1>1, <1>2, <1>3, <1>4

LEMMA ProcessLossPreserves ==
  ASSUME AndroidRotationInv, ProcessLoss
  PROVE  AndroidRotationInv'
<1> USE DEF AndroidRotationInv, ProcessLoss, ForSessions, ForPublications
<1>1. UNCHANGED <<disk, generated, retired, head, net>>
  BY DEF keyVars, registry
<1>2. TypeInv' /\ FileInv' /\ SessionInv'
  BY <1>1 DEF TypeInv, FileInv, SessionInv, Phases
<1>3. \A p \in Publications : phase'[p] = "free" /\ sent'[p] = 0
  OBVIOUS
<1>4. PubInv' /\ OneLive' /\ FanInv' /\ PermitInv'
  BY <1>3 DEF PubInv, OneLive, FanInv, PermitInv, Live, Unsent
<1>5. NetInv'
  BY <1>1 DEF NetInv, Kept, Latched, Replaced
<1>. QED
  BY <1>2, <1>4, <1>5
=============================================================================
