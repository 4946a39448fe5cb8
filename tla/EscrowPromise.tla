---------------------------- MODULE EscrowPromise ----------------------------
(***************************************************************************)
(* What gift-card escrow promises the buyer and the seller: the buyer's    *)
(* money is held from the order on, and leaves the hold exactly once, to   *)
(* the seller or back to the buyer.  An order for crypto never enters it.  *)
(***************************************************************************)
EXTENDS Integers

CONSTANTS Orders, Offers

VARIABLES
  place,    \* place[o]: where the money of order o is
  payouts,  \* payouts[o]: how often it left the hold
  held      \* held[f]: what is held for the seller of offer f

vars == <<place, payouts, held>>

Init ==
  /\ place = [o \in Orders |-> "none"]
  /\ payouts = [o \in Orders |-> 0]
  /\ held = [f \in Offers |-> 0]

Hold(o, f, q) ==
  /\ place[o] = "none"
  /\ place' = [place EXCEPT ![o] = "held"]
  /\ held' = [held EXCEPT ![f] = @ + q]
  /\ UNCHANGED payouts

Instant(o) ==
  /\ place[o] = "none"
  /\ place' = [place EXCEPT ![o] = "seller"]
  /\ UNCHANGED <<payouts, held>>

PayOut(o, f, q, to) ==
  /\ place[o] = "held"
  /\ held[f] >= q
  /\ place' = [place EXCEPT ![o] = to]
  /\ payouts' = [payouts EXCEPT ![o] = @ + 1]
  /\ held' = [held EXCEPT ![f] = @ - q]

(* A step that moves a quantity moves one that is positive.                *)
Next ==
  \E o \in Orders :
    \/ Instant(o)
    \/ \E f \in Offers : \E q \in {held'[f] - held[f], held[f] - held'[f]} :
         q > 0 /\ (Hold(o, f, q) \/ \E to \in {"seller", "buyer"} : PayOut(o, f, q, to))

Spec == Init /\ [][Next]_vars

=============================================================================
