-------------------------- MODULE OrderManagerTouch --------------------------
(***************************************************************************)
(* The order manager without the depth book (OrderManager.cpp): against    *)
(* the displayed top of book (data/OrderBook.cpp), or, when it was built   *)
(* without a book, against the tick alone.  Orders of every type wait on   *)
(* the symbol's list, and every tick tries each of them once, oldest       *)
(* first.  The simulation loop (core/Backtester.cpp) calls process_tick    *)
(* and then attempt_fills, which the strategy may also do by itself.       *)
(***************************************************************************)
EXTENDS OrderLedger

CONSTANTS Prices,           \* limit prices, positive integers
          Quantities,       \* order quantities, positive integers
          Ticks,            \* what the market may send
          InitialCash,
          SlippageDivisor,  \* 1/k of the linear slippage, 0 for no slippage
          MaxOrders         \* bound: orders submitted in a behaviour

ASSUME TouchAssumption ==
    /\ Prices \subseteq Nat \ {0}
    /\ Quantities \subseteq Nat \ {0}
    /\ \A tick \in Ticks : /\ tick.bid \in Nat /\ tick.bidSize \in Nat
                           /\ tick.ask \in Nat /\ tick.askSize \in Nat
                           /\ tick.volume \in Nat
    /\ SlippageDivisor \in Nat

VARIABLES
    hasBook,        \* order_book_ was given to the constructor
    top,            \* books_ of the symbol: the displayed touch
    orders,         \* orders_
    symbolOrders,   \* symbol_orders_ of the symbol
    cash,           \* cash_
    position,       \* positions_ of the symbol
    told            \* per order, the quantity the fill callback reported

vars == <<hasBook, top, orders, symbolOrders, cash, position, told>>

Sides == {"BUY", "SELL"}
NoTop == [bid |-> 0, bidSize |-> 0, ask |-> 0, askSize |-> 0]

Init ==
    /\ hasBook \in BOOLEAN
    /\ top = NoTop
    /\ orders = <<>>
    /\ symbolOrders = <<>>
    /\ cash = InitialCash
    /\ position = 0
    /\ told = <<>>

Now == [top |-> top, orders |-> orders, symbolOrders |-> symbolOrders,
        cash |-> cash, position |-> position, told |-> told]

Become(s) ==
    /\ top' = s.top
    /\ orders' = s.orders
    /\ symbolOrders' = s.symbolOrders
    /\ cash' = s.cash
    /\ position' = s.position
    /\ told' = s.told
    /\ UNCHANGED hasBook
-----------------------------------------------------------------------------
(* The touch an order of this side trades against. *)
TouchPrice(quote, side) == IF side = "BUY" THEN quote.ask ELSE quote.bid
TouchSize(quote, side) == IF side = "BUY" THEN quote.askSize ELSE quote.bidSize

TouchSizeNotUsedUp(quote, side, quantity) == quote   \* mutant

WithTouchUsed(quote, side, quantity) ==
    IF side = "BUY" THEN [quote EXCEPT !.askSize = @ - quantity]
                    ELSE [quote EXCEPT !.bidSize = @ - quantity]

Reaches(price, order) ==
    IF order.side = "BUY" THEN price <= order.limit ELSE price >= order.limit

Smaller(a, b) == IF a <= b THEN a ELSE b

(* Slippage is linear in the filled quantity and always against the order. *)
ValueWithSlippage(side, quantity, price) ==
    LET slippage == IF SlippageDivisor = 0 THEN 0
                    ELSE (price * quantity) \div SlippageDivisor
    IN  quantity * (IF side = "BUY" THEN price + slippage ELSE price - slippage)

Filling(s, id, quantity, price) ==
    IF quantity = 0 THEN s
    ELSE FillOrder(s, id, quantity, ValueWithSlippage(s.orders[id].side, quantity, price))

(* Against the touch.  Prices, and whether a limit order may trade at all, *)
(* come from the touch as it was before the loop; the size still there is  *)
(* read from the book.                                                     *)
CrossesTouch(quote, order) ==
    \/ order.type = "MARKET"
    \/ TouchSize(quote, order.side) > 0 /\ Reaches(TouchPrice(quote, order.side), order)

MatchTouch(s, id, before) ==
    LET order == s.orders[id]
        quantity == IF CrossesTouch(before, order)
                    THEN Smaller(Remaining(order), TouchSize(s.top, order.side))
                    ELSE 0
    IN  Filling([s EXCEPT !.top = WithTouchUsed(@, order.side, quantity)],
                id, quantity, TouchPrice(before, order.side))

(* Against the tick alone: a market order at the mid price, a limit order  *)
(* at its limit, each up to the volume of the tick.                        *)
MatchTick(s, id, tick) ==
    LET order == s.orders[id]
        crosses == order.type = "MARKET" \/ Reaches(TouchPrice(tick, order.side), order)
        price == IF order.type = "MARKET" THEN (tick.bid + tick.ask) \div 2 ELSE order.limit
    IN  Filling(s, id, IF crosses THEN Smaller(Remaining(order), tick.volume) ELSE 0, price)

LiveOrdersNewestFirst(s) ==   \* mutant
    Reverse(Kept(s.symbolOrders, {id \in DOMAIN s.orders : Active(s.orders[id])}))

LiveOrders(s) == Kept(s.symbolOrders, {id \in DOMAIN s.orders : Active(s.orders[id])})

MatchOrder(s, id, quote) ==
    IF hasBook THEN MatchTouch(s, id, quote) ELSE MatchTick(s, id, quote)

TryEach(s, ids, quote) == FoldLeft(LAMBDA t, id : MatchOrder(t, id, quote), s, ids)

(* Every live order once, against the book if there is one; the filled     *)
(* ones are then unlisted.                                                 *)
MatchEach(s, quote) ==
    LET matched == TryEach(s, LiveOrders(s), quote)
    IN  Unlist(matched, {id \in ToSet(LiveOrders(s)) : Filled(matched.orders[id])})
-----------------------------------------------------------------------------
SubmitMarketOrder(side, quantity) ==
    /\ Len(orders) < MaxOrders
    /\ Become(AddOrderToBook(Now, NewOrder("MARKET", side, "DAY", quantity, 0)))

SubmitLimitOrder(side, quantity, limit, tif) ==
    /\ Len(orders) < MaxOrders
    /\ Become(AddOrderToBook(Now, NewOrder("LIMIT", side, tif, quantity, limit)))

CancelUnlistedOnly(id) ==   \* mutant: the status stays what it was
    /\ id \in DOMAIN orders
    /\ Active(orders[id])
    /\ Become(RemoveOrderFromBook(Now, id))

CancelOrder(id) ==
    /\ id \in DOMAIN orders
    /\ Active(orders[id])
    /\ Become(RemoveOrderFromBook(SetStatus(Now, id, "CANCELLED"), id))

Quoted(s, tick) ==
    [s EXCEPT !.top = [bid |-> tick.bid, bidSize |-> tick.bidSize,
                       ask |-> tick.ask, askSize |-> tick.askSize]]

ProcessTick(tick) ==
    Become(CancelIocOrders(MatchEach(IF hasBook THEN Quoted(Now, tick) ELSE Now, tick)))

(* attempt_fills needs a book with something displayed.  Unlike a tick, it *)
(* reports its fills to the callback.                                      *)
AttemptFills ==
    /\ hasBook
    /\ top.bidSize > 0 \/ top.askSize > 0
    /\ LET matched == MatchEach(Now, top)
           Gain(id) == matched.orders[id].filled - orders[id].filled
       IN  Become([matched EXCEPT !.told = [id \in DOMAIN @ |-> @[id] + Gain(id)]])
-----------------------------------------------------------------------------
Submit ==
    \E side \in Sides, quantity \in Quantities :
       \/ SubmitMarketOrder(side, quantity)
       \/ \E limit \in Prices, tif \in {"DAY", "IOC"} :
             SubmitLimitOrder(side, quantity, limit, tif)

Next ==
    \/ Submit
    \/ \E id \in 1..MaxOrders : CancelOrder(id)
    \/ \E tick \in Ticks : ProcessTick(tick)
    \/ AttemptFills

Spec == Init /\ [][Next]_vars
-----------------------------------------------------------------------------
(* Properties *)

(* The symbol's list holds exactly the live orders, oldest first, although *)
(* fills, cancellations and expiries take them off in different places.    *)
ListedWhileActive == ListsActive(symbolOrders, orders)

Gained(id) == orders'[id].filled - orders[id].filled
GainedBy(side) ==
    Total([id \in DOMAIN orders |-> IF orders[id].side = side THEN Gained(id) ELSE 0])

TakenFrom(shown, side) ==
    /\ GainedBy(side) <= TouchSize(shown, side)
    /\ TouchSize(top', side) = TouchSize(shown, side) - GainedBy(side)

(* With a book, the orders tried in one call never share the same          *)
(* displayed shares: together they take no more than was displayed, and    *)
(* the book keeps exactly the rest for the next call.                      *)
TouchNeverOversold ==
    [][hasBook =>
         \A side \in Sides :
            /\ AttemptFills => TakenFrom(top, side)
            /\ \A tick \in Ticks : ProcessTick(tick) => TakenFrom(tick, side)]_vars

(* One order trades at every touch at which the other does.                *)
AsEager(order, other) ==
    \/ order.type = "MARKET"
    \/ other.type = "LIMIT" /\ Reaches(other.limit, order)

(* Time priority: in one call an order takes a share only if every older   *)
(* order of its side that is as eager, a market order or one with a limit  *)
(* no worse for the other party, has all it wants.                         *)
OlderFirst ==
    [][\A id, other \in DOMAIN orders :
          /\ hasBook /\ other < id /\ orders[other].side = orders[id].side
          /\ Active(orders[other]) /\ Gained(id) > 0
          /\ AsEager(orders[other], orders[id])
          => Filled(orders'[other])]_vars
=============================================================================
