----------------------------- MODULE MCP2PEscrow -----------------------------
(***************************************************************************)
(* Instances of P2PEscrow for TLC: one gift-card offer and one for crypto. *)
(***************************************************************************)
EXTENDS P2PEscrow, TLC

CONSTANTS gift, coin

MCOffers == {gift, coin}
MCKind == [f \in MCOffers |-> IF f = gift THEN "GIFT_CARD" ELSE "CRYPTO"]
MCStock == [f \in MCOffers |-> IF f = gift THEN 2 ELSE 1]

(* Handlers and orders are interchangeable; used for safety only.          *)
Interchangeable == Permutations(Workers) \cup Permutations(Orders)

=============================================================================
