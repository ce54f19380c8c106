-------------------------- MODULE OrderManagerDepth --------------------------
(***************************************************************************)
(* The order manager with the full-depth fill model (OrderManager.cpp,     *)
(* use_full_depth_): strategy orders and the displayed quote share the     *)
(* FIFO queues of one depth book.  A market order walks the book at once;  *)
(* a limit order takes what it crosses and rests with the remainder; a     *)
(* resting order fills when another order of the strategy or a trade print *)
(* reaches it.                                                             *)
(*                                                                         *)
(* One symbol: a call touches the orders and the book of its own symbol    *)
(* only, cash excepted.  Every call runs to completion on one thread, so   *)
(* every public operation is one action, with all the calls it makes.      *)
(***************************************************************************)
EXTENDS DepthBook, OrderLedger

CONSTANTS Prices,        \* limit prices, positive integers
          Quantities,    \* order quantities, positive integers
          Ticks,         \* what the market may send
          InitialCash,
          MaxOrders      \* bound: orders submitted in a behaviour

ASSUME DepthAssumption ==
    /\ Prices \subseteq Nat \ {0}
    /\ \E highest \in Prices : \A price \in Prices : price <= highest
    /\ Quantities \subseteq Nat \ {0}
    /\ \A tick \in Ticks : /\ tick.bid \in Prices /\ tick.ask \in Prices
                           /\ tick.bidSize \in Nat /\ tick.askSize \in Nat
                           /\ tick.volume \in Nat
    /\ InitialCash \in Nat

VARIABLES
    orders,          \* orders_, ORDER_1, ORDER_2, ..
    symbolOrders,    \* symbol_orders_: the live orders, in submission order
    limitQueueIds,   \* limit_queue_ids_: the queue id of each resting order
    book,            \* depth_books_ of the symbol
    cash,            \* cash_
    position,        \* positions_ of the symbol
    told             \* per order, the quantity the fill callback reported

vars == <<orders, symbolOrders, limitQueueIds, book, cash, position, told>>

Init ==
    /\ orders = <<>>
    /\ symbolOrders = <<>>
    /\ limitQueueIds = <<>>
    /\ book = EmptyBook
    /\ cash = InitialCash
    /\ position = 0
    /\ told = <<>>

Now == [orders |-> orders, symbolOrders |-> symbolOrders,
        limitQueueIds |-> limitQueueIds, book |-> book,
        cash |-> cash, position |-> position, told |-> told]

Become(s) ==
    /\ orders' = s.orders
    /\ symbolOrders' = s.symbolOrders
    /\ limitQueueIds' = s.limitQueueIds
    /\ book' = s.book
    /\ cash' = s.cash
    /\ position' = s.position
    /\ told' = s.told

HeldQueueIds(s) == Range(s.limitQueueIds)
-----------------------------------------------------------------------------
(* Fills *)

(* The queue entry `maker` gave up maker.size at `price`.  Quote liquidity *)
(* belongs to no order.                                                    *)
ApplyMakerFill(s, maker, price) ==
    IF maker.id \notin DOMAIN s.orders THEN s
    ELSE LET credited == Tell(FillOrder(s, maker.id, maker.size, maker.size * price),
                              maker.id, maker.size)
         IN  IF Filled(credited.orders[maker.id])
             THEN RemoveOrderFromBook(
                     [credited EXCEPT !.limitQueueIds = Without(@, maker.id)], maker.id)
             ELSE credited

(* The orders one level gave up are credited one by one, in FIFO order.    *)
Credit(s, taken, price) ==
    FoldLeft(LAMBDA acc, maker : ApplyMakerFill(acc, maker, price), s, taken)

SizeOf(taken) == Total([i \in DOMAIN taken |-> taken[i].size])

CrossableAtAnyPrice(depth, order) ==   \* mutant: takes whatever is there
    HasTouch(depth, Opposite(order.side))

(* May the order trade with the best level of the other side?              *)
Crossable(depth, order) ==
    /\ HasTouch(depth, Opposite(order.side))
    /\ \/ order.type = "MARKET"
       \/ order.side = "BUY" /\ BestPrice(depth, "SELL") <= order.limit
       \/ order.side = "SELL" /\ BestPrice(depth, "BUY") >= order.limit

(* One round of take_liquidity: consume the best level of the other side.  *)
TakeBestLevel(sofar, order) ==
    LET side == Opposite(order.side)
        price == BestPrice(sofar.s.book, side)
        done == ConsumeAtPrice(sofar.s.book, side, price, Remaining(order) - sofar.total)
    IN  IF sofar.total < Remaining(order) /\ Crossable(sofar.s.book, order)
        THEN [s |-> Credit([sofar.s EXCEPT !.book = done.book], done.taken, price),
              total |-> sofar.total + SizeOf(done.taken),
              value |-> sofar.value + price * SizeOf(done.taken)]
        ELSE sofar

TakeRounds(start, order, rounds) ==
    FoldLeft(LAMBDA sofar, round : TakeBestLevel(sofar, order), start, rounds)

(* Each round but the last empties a level, so there are at most as many   *)
(* rounds as levels.  The taker is filled once, at the average price.      *)
TakeLiquidity(s, id) ==
    LET order == s.orders[id]
        levels == Cardinality(DOMAIN s.book.levels[Opposite(order.side)])
        done == TakeRounds([s |-> s, total |-> 0, value |-> 0], order,
                           [round \in 1..levels |-> round])
    IN  IF done.total = 0 THEN done.s
        ELSE Tell(FillOrder(done.s, id, done.total, done.value), id, done.total)
-----------------------------------------------------------------------------
(* Submission and cancellation *)

SubmitMarketOrder(side, quantity) ==
    /\ Len(orders) < MaxOrders
    /\ Become(AddOrderToBook(Now, NewOrder("MARKET", side, "DAY", quantity, 0)))

RestWholeOrder(s, id) ==   \* mutant: what was taken on arrival rests again
    LET order == s.orders[id]
        rested == EnqueueOrder(s.book, HeldQueueIds(s), order.side, order.limit,
                               id, order.quantity)
    IN  [s EXCEPT !.book = rested.book, !.limitQueueIds = With(@, id, rested.qid)]

(* The remainder of a limit order joins the back of its level.             *)
RestRemainder(s, id) ==
    LET order == s.orders[id]
        rested == EnqueueOrder(s.book, HeldQueueIds(s), order.side, order.limit,
                               id, Remaining(order))
    IN  [s EXCEPT !.book = rested.book, !.limitQueueIds = With(@, id, rested.qid)]

WithLimitOrder(s, side, quantity, limit, tif) ==
    LET id == NextOrderId(s)
        added == AddOrderToBook(s, NewOrder("LIMIT", side, tif, quantity, limit))
        taken == TakeLiquidity(added, id)
    IN  IF Filled(taken.orders[id]) THEN RemoveOrderFromBook(taken, id)
        ELSE IF tif = "IOC" THEN RemoveOrderFromBook(SetStatus(taken, id, "CANCELLED"), id)
        ELSE RestRemainder(taken, id)

SubmitLimitOrder(side, quantity, limit, tif) ==
    /\ Len(orders) < MaxOrders
    /\ Become(WithLimitOrder(Now, side, quantity, limit, tif))

PullFromQueue(s, id) ==
    IF id \notin DOMAIN s.limitQueueIds THEN s
    ELSE LET order == s.orders[id]
         IN  [s EXCEPT
                !.book = RemoveLevelIfEmpty(CancelQueued(@, s.limitQueueIds[id]),
                                            order.side, order.limit),
                !.limitQueueIds = Without(@, id)]

WithCancelled(s, id) ==
    RemoveOrderFromBook(PullFromQueue(SetStatus(s, id, "CANCELLED"), id), id)

CancelOrder(id) ==
    /\ id \in DOMAIN orders
    /\ Active(orders[id])
    /\ Become(WithCancelled(Now, id))

(* SimulatedExecutionHandler::replace_order: cancel, then submit anew for  *)
(* the full new quantity.                                                  *)
ReplaceOrder(id, quantity, limit) ==
    /\ id \in DOMAIN orders
    /\ Len(orders) < MaxOrders
    /\ Active(orders[id]) /\ orders[id].type = "LIMIT"
    /\ Become(WithLimitOrder(WithCancelled(Now, id), orders[id].side, quantity, limit,
                             orders[id].tif))
-----------------------------------------------------------------------------
(* The market *)

(* A print consumes the queue at its price, the ask side first.            *)
ConsumeTradePrint(s, tick) ==
    LET sides == {side \in Sides : HasLevel(s.book, side, tick.price)}
        side == IF "SELL" \in sides THEN "SELL" ELSE "BUY"
        done == ConsumeAtPrice(s.book, side, tick.price, tick.volume)
    IN  IF tick.volume = 0 \/ sides = {} THEN s
        ELSE Credit([s EXCEPT !.book = done.book], done.taken, tick.price)

TakeEach(s, takers) == FoldLeft(TakeLiquidity, s, takers)

(* match_orders_for_symbol and attempt_fills: every live market order, in  *)
(* submission order, takes what is there; the filled ones are then         *)
(* unlisted.                                                               *)
MatchMarketOrders(s) ==
    LET working == {id \in DOMAIN s.orders :
                       s.orders[id].type = "MARKET" /\ Active(s.orders[id])}
        takers == Kept(s.symbolOrders, working)
        matched == TakeEach(s, takers)
    IN  Unlist(matched, {id \in ToSet(takers) : Filled(matched.orders[id])})

ProcessTick(tick) ==
    LET printed == ConsumeTradePrint(Now, tick)
        quoted == [printed EXCEPT !.book = OnTick(@, HeldQueueIds(printed), tick)]
    IN  Become(CancelIocOrders(MatchMarketOrders(quoted)))

AttemptFills ==
    /\ HasTouch(book, "BUY") \/ HasTouch(book, "SELL")
    /\ Become(MatchMarketOrders(Now))
-----------------------------------------------------------------------------
Submit ==
    \E side \in Sides, quantity \in Quantities :
       \/ SubmitMarketOrder(side, quantity)
       \/ \E limit \in Prices, tif \in {"DAY", "IOC"} :
             SubmitLimitOrder(side, quantity, limit, tif)

Next ==
    \/ Submit
    \/ \E id \in 1..MaxOrders : CancelOrder(id)
    \/ \E id \in 1..MaxOrders, quantity \in Quantities, limit \in Prices :
          ReplaceOrder(id, quantity, limit)
    \/ \E tick \in Ticks : ProcessTick(tick)
    \/ AttemptFills

Spec == Init /\ [][Next]_vars
-----------------------------------------------------------------------------
(* Properties *)

LevelConsistent(level) ==
    /\ level.queue # <<>>
    /\ DOMAIN level.position = Range(level.queue)
    /\ DOMAIN level.sizes = Range(level.queue)
    /\ \A i \in DOMAIN level.queue : level.position[level.queue[i]] = i
    /\ \A id \in DOMAIN level.sizes : level.sizes[id] > 0
    /\ level.total = Total([i \in DOMAIN level.queue |-> level.sizes[level.queue[i]]])

(* The copies a book keeps of the same fact agree after every operation:   *)
(* queue, positions, sizes and total of a level, and the queue ids of the  *)
(* orders that rest.  No level is empty, and the quote of a side rests     *)
(* only at the head of the level it was last shown at.                     *)
BookConsistent ==
    /\ \A side \in Sides : \A price \in DOMAIN book.levels[side] :
          LevelConsistent(book.levels[side][price])
    /\ \A qid \in DOMAIN book.orderOf : Cardinality(Places(book, book.orderOf[qid])) = 1
    /\ IsInjective(book.orderOf)
    /\ \A side \in Sides : \A price \in DOMAIN book.levels[side] :
          LET level == book.levels[side][price]
          IN  /\ Range(level.queue) \subseteq Range(book.orderOf)
              /\ QuoteOrder(Opposite(side)) \notin Range(level.queue)
              /\ QuoteOrder(side) \in Range(level.queue) =>
                    /\ price = book.quotePrice[side]
                    /\ Head(level.queue) = QuoteOrder(side)
                    /\ book.quoteQid[side] \in DOMAIN book.orderOf

(* The manager and the book agree on what rests: an order is in the book   *)
(* exactly while it is a live limit order, once, at its own price, with    *)
(* the quantity it still lacks, and reachable through its queue id.  The   *)
(* list of the symbol holds exactly the live orders, oldest first.         *)
RestsWhileActive ==
    /\ \A id \in DOMAIN orders :
          LET order == orders[id]
              resting == order.type = "LIMIT" /\ Active(order)
          IN  /\ resting <=> id \in DOMAIN limitQueueIds
              /\ Places(book, id) = IF resting THEN {<<order.side, order.limit>>} ELSE {}
              /\ resting =>
                    /\ limitQueueIds[id] \in DOMAIN book.orderOf
                    /\ book.orderOf[limitQueueIds[id]] = id
                    /\ book.levels[order.side][order.limit].sizes[id] = Remaining(order)
    /\ ListsActive(symbolOrders, orders)

(* A limit order never trades at a price worse than its limit, neither on  *)
(* arrival nor at rest.                                                    *)
LimitHonoured ==
    \A id \in DOMAIN orders :
        LET order == orders[id]
        IN  order.type = "LIMIT" =>
              IF order.side = "BUY" THEN order.value <= order.limit * order.filled
                                    ELSE order.value >= order.limit * order.filled

(* Every fill is reported to the callback, and is booked in cash and in    *)
(* position or in neither: the shares the ledger lacks are worth, at the   *)
(* prices of the market, the cash it kept.  Cash never goes below zero.    *)
FillsAccountedFor ==
    LET missingShares == FilledShares(Now) - position
        keptCash == cash - (InitialCash - FilledValue(Now))
    IN  /\ \A id \in DOMAIN orders : told[id] = orders[id].filled
        /\ missingShares >= 0
        /\ keptCash >= missingShares * Min(Prices)
        /\ keptCash <= missingShares * Max(Prices)
        /\ cash >= 0

Rests(id) == id \in DOMAIN limitQueueIds
Gained(id) == orders'[id].filled - orders[id].filled

(* Time priority: a resting order fills only in a step that completes      *)
(* every older order at its price.  Price priority: an incoming order      *)
(* reaches a price only in a step that completes every resting order at a  *)
(* better one.                                                             *)
PriceTimePriority ==
    [][\A id, other \in DOMAIN orders :
          /\ Rests(id) /\ Rests(other) /\ orders[id].side = orders[other].side
          /\ Gained(id) > 0
          /\ \/ orders[other].limit = orders[id].limit /\ other < id
             \/ /\ Len(orders') > Len(orders)
                /\ IF orders[id].side = "BUY" THEN orders[other].limit > orders[id].limit
                                              ELSE orders[other].limit < orders[id].limit
          => Filled(orders'[other])]_vars

(* A print gives the orders behind the displayed quote no more than what   *)
(* the quote leaves of it.                                                 *)
Displayed(side, price) ==
    IF HasLevel(book, side, price) /\ QuoteOrder(side) \in DOMAIN book.levels[side][price].sizes
    THEN book.levels[side][price].sizes[QuoteOrder(side)]
    ELSE 0

PrintNeverOversold ==
    [][\A tick \in Ticks, side \in Sides :
          LET reached == {id \in DOMAIN orders : /\ Rests(id) /\ Gained(id) > 0
                                                 /\ orders[id].side = side}
              noTaker == \A id \in DOMAIN orders :
                            orders[id].type = "MARKET" => ~Active(orders[id])
          IN  /\ reached # {} /\ noTaker
              /\ ProcessTick(tick)
              => MapThenSumSet(Gained, reached) + Displayed(side, tick.price) <= tick.volume]_vars
=============
