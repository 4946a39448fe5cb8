--------------------------- MODULE MCCryptoOrders ---------------------------
(***************************************************************************)
(* Instances of CryptoOrders for TLC: a limit order, a stop order and a    *)
(* market order on one pair.                                               *)
(***************************************************************************)
EXTENDS CryptoOrders

CONSTANTS limit, stop, market

MCOrders == {limit, stop, market}

MCBook ==
  [o \in MCOrders |->
    CASE o = limit  -> [side |-> "BUY", type |-> "LIMIT", trigger |-> 1]
      [] o = stop   -> [side |-> "BUY", type |-> "STOP", trigger |-> 2]
      [] o = market -> [side |-> "SELL", type |-> "MARKET", trigger |-> 1]]

=============================================================================
