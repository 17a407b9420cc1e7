---------------------------- MODULE KeyHandover -----------------------------
(***************************************************************************)
(* What owner-key rotation promises, whichever wallet carries it out.  A   *)
(* successor may be withdrawn until its publication has begun and never    *)
(* after; the Registry passes from the active key to that successor and to *)
(* no other; and the active key gives way only to a successor that the     *)
(* Registry already shows.  No key is proposed twice.                      *)
(*                                                                         *)
(* OwnerKeyRotation implements it for container.py and identity.py,        *)
(* AndroidRotation for AndroidWallet.kt and AndroidIdentityAdapter.kt.     *)
(***************************************************************************)
CONSTANTS Keys, None

VARIABLES
  active,          \* the key the wallet signs with
  pending,         \* the successor whose seed it keeps, or None
  begun,           \* may a publication of the successor be under way?
  served,          \* the owner key the readback peer shows
  used             \* every key generated so far

vars == <<active, pending, begun, served, used>>

(* A new wallet, or one found with a rotation under way.                   *)
Init ==
  /\ active \in Keys /\ served = active
  /\ \/ pending = None /\ begun = FALSE /\ used = {active}
     \/ /\ pending \in Keys \ {active} /\ begun \in BOOLEAN
        /\ used = {active, pending}

(* A generated key may come to nothing.                                    *)
Propose ==
  /\ \E k \in Keys \ used :
       /\ used' = used \cup {k}
       /\ \/ UNCHANGED pending
          \/ pending = None /\ pending' = k
  /\ UNCHANGED <<active, begun, served>>

Withdraw ==
  /\ pending # None /\ ~begun
  /\ pending' = None
  /\ UNCHANGED <<active, begun, served, used>>

Begin ==
  /\ pending # None /\ ~begun
  /\ begun' = TRUE
  /\ UNCHANGED <<active, pending, served, used>>

Serve ==
  /\ begun /\ served = active
  /\ served' = pending
  /\ UNCHANGED <<active, pending, begun, used>>

Promote ==
  /\ begun /\ served = pending
  /\ active' = pending /\ pending' = None /\ begun' = FALSE
  /\ UNCHANGED <<served, used>>

Next == Propose \/ Withdraw \/ Begin \/ Serve \/ Promote

Spec == Init /\ [][Next]_vars

=============================================================================
