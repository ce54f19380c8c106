------------------------ MODULE MC_OrderManagerDepth ------------------------
(* Model-checking instance of the order manager with the depth book.       *)
EXTENDS OrderManagerDepth

Tick(bid, bidSize, ask, askSize, price, volume) ==
    [bid |-> bid, bidSize |-> bidSize, ask |-> ask, askSize |-> askSize,
     price |-> price, volume |-> volume]

(* A two-sided quote with a print of one share at the ask, and a bid alone *)
(* with a print of two shares at it.                                       *)
MC_Ticks == {Tick(1, 1, 2, 1, 2, 1), Tick(1, 1, 2, 0, 1, 2)}
=============================================================================
