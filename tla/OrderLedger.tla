----------------------------- MODULE OrderLedger -----------------------------
(***************************************************************************)
(* The part of OrderManager that does not depend on the book model: the    *)
(* order records, the per-symbol list of live orders, and the bookkeeping  *)
(* of one fill (order/OrderManager.cpp).                                   *)
(*                                                                         *)
(* The operators act on a record s of the manager's state with at least    *)
(*   orders        orders_, by order id 1, 2, ..                           *)
(*   symbolOrders  symbol_orders_ of the symbol                            *)
(*   cash, position                                                        *)
(*   told          the quantity reported to the fill callback, per order.  *)
(* A fill is given by its quantity and its value (quantity times price),   *)
(* so that a volume-weighted price stays a whole number.                   *)
(***************************************************************************)
EXTENDS Lists

Active(order) == order.status \in {"PENDING", "PARTIALLY_FILLED"}
Filled(order) == order.status = "FILLED"
Remaining(order) == order.quantity - order.filled

NewOrder(type, side, tif, quantity, limit) ==
    [type |-> type, side |-> side, tif |-> tif, quantity |-> quantity,
     limit |-> limit, filled |-> 0, value |-> 0, status |-> "PENDING"]

NextOrderId(s) == Len(s.orders) + 1

AddOrderToBook(s, order) ==
    [s EXCEPT !.orders = Append(@, order),
              !.symbolOrders = Append(@, NextOrderId(s)),
              !.told = Append(@, 0)]

(* All of `ids` leave the list of live orders.                             *)
Unlist(s, ids) == [s EXCEPT !.symbolOrders = Kept(@, ToSet(@) \ ids)]

RemoveOrderFromBook(s, id) == Unlist(s, {id})

SetStatus(s, id, status) == [s EXCEPT !.orders[id].status = status]

Signed(side, quantity) == IF side = "BUY" THEN quantity ELSE -quantity

BookedGross(s, side, quantity, value) ==   \* mutant: a sale is paid for too
    [s EXCEPT !.cash = @ - value, !.position = @ + Signed(side, quantity)]

Booked(s, side, quantity, value) ==
    [s EXCEPT !.cash = @ - Signed(side, value),
              !.position = @ + Signed(side, quantity)]

Advanced(order, quantity, value) ==
    [order EXCEPT !.filled = @ + quantity,
                  !.value = @ + value,
                  !.status = IF order.filled + quantity >= order.quantity
                             THEN "FILLED" ELSE "PARTIALLY_FILLED"]

(* The order advances whatever happens next; a buy that costs more than    *)
(* the cash at hand is left out of cash and position.                      *)
FillOrder(s, id, quantity, value) ==
    LET order == s.orders[id]
        advanced == [s EXCEPT !.orders[id] = Advanced(order, quantity, value)]
    IN  IF order.side = "SELL" \/ value <= s.cash
        THEN Booked(advanced, order.side, quantity, value)
        ELSE advanced

Tell(s, id, quantity) == [s EXCEPT !.told[id] = @ + quantity]

(* cancel_ioc_orders: only the orders that have not filled at all.         *)
CancelIocOrders(s) ==
    LET untouched == {id \in ToSet(s.symbolOrders) :
                         s.orders[id].tif = "IOC" /\ s.orders[id].filled = 0}
    IN  Unlist([s EXCEPT !.orders =
                   [id \in DOMAIN @ |-> IF id \in untouched
                                        THEN [@[id] EXCEPT !.status = "CANCELLED"]
                                        ELSE @[id]]],
               untouched)

(* What the ledger should read after the fills the orders record.          *)
FilledShares(s) ==
    Total([id \in DOMAIN s.orders |-> Signed(s.orders[id].side, s.orders[id].filled)])
FilledValue(s) ==
    Total([id \in DOMAIN s.orders |-> Signed(s.orders[id].side, s.orders[id].value)])

(* The list of a symbol: its live orders and no others, oldest first.      *)
ListsActive(list, records) ==
    /\ ToSet(list) = {id \in DOMAIN records : Active(records[id])}
    /\ \A i, j \in DOMAIN list : i < j => list[i] < list[j]
=============================================================================
