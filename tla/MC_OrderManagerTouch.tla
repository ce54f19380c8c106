------------------------ MODULE MC_OrderManagerTouch ------------------------
(* Model-checking instance of the order manager without the depth book.    *)
EXTENDS OrderManagerTouch

Tick(bid, bidSize, ask, askSize, volume) ==
    [bid |-> bid, bidSize |-> bidSize, ask |-> ask, askSize |-> askSize,
     volume |-> volume]

(* A wide market and a narrow one, thin on both sides, and a bid with      *)
(* nothing offered.                                                        *)
MC_Ticks == {Tick(10, 1, 30, 1, 1), Tick(20, 2, 20, 1, 2), Tick(10, 1, 20, 0, 0)}
=============================================================================
