-------------------------- MODULE SimulationProofs --------------------------
(***************************************************************************)
(* Proofs about the two halves of a backtest without the depth book: the   *)
(* order manager on a displayed touch or on the tick alone, and the loop   *)
(* that makes bars of ticks.                                               *)
(*                                                                         *)
(* Every call of the order manager that matches tries a list of live       *)
(* orders one by one.  Trying says what is true after the first k of them: *)
(* the touch has lost what they gained, and one that could trade is filled *)
(* unless its touch is used up.  Since used-up size does not come back     *)
(* within the call, no later order of that side gains after an older one   *)
(* was left short.                                                         *)
(*                                                                         *)
(* For the bars the invariant says what a builder holds between two ticks: *)
(* nothing, if its symbol has not traded, or the bar of the last interval  *)
(* in which it has.  Hence every earlier interval's bar was handed out,    *)
(* and went to the strategy unless the strategy threw.                     *)
(***************************************************************************)
EXTENDS OrderManagerTouch, Backtester, ListsProofs, FiniteSetTheorems

(* The order manager *)

Tries == INSTANCE FoldFacts WITH Op <- LAMBDA p, x, e : MatchOrder(x, e, p)

(* The live orders are tried one after the other.                          *)
LEMMA TryRuns ==
    ASSUME NEW base, NEW quote, NEW s, NEW n \in Nat, DOMAIN s = 1..n
    PROVE  \E h : Tries!Runs(h, quote, base, s, n) /\ TryEach(base, s, quote) = h[n]
<1>1. TryEach(base, s, quote) = Tries!Folded(quote, base, s)
    BY DEF TryEach, Tries!Folded, FoldLeft, MapThenFoldSet, Max, Tries!Largest
<1> QED
    BY <1>1, Induction, Tries!Along DEF Tries!CountsUp
-----------------------------------------------------------------------------
(* Orders *)

OrderRecords ==
    [type : {"MARKET", "LIMIT"}, side : Sides, tif : {"DAY", "IOC"}, quantity : Nat \ {0},
     limit : Nat, filled : Nat, value : Int,
     status : {"PENDING", "PARTIALLY_FILLED", "FILLED", "CANCELLED"}]

OrderOK(o) ==
    /\ o \in OrderRecords
    /\ o.filled <= o.quantity
    /\ o.status = "FILLED" <=> o.filled = o.quantity
    /\ o.type = "MARKET" <=> o.limit = 0

(* o2 is what became of o while it was tried: only its fills may differ.   *)
Advances(o2, o) ==
    /\ OrderOK(o2)
    /\ o2.type = o.type /\ o2.side = o.side /\ o2.tif = o.tif
    /\ o2.limit = o.limit /\ o2.quantity = o.quantity
    /\ o2.filled >= o.filled
    /\ o2.status # o.status => o2.status # "CANCELLED"

(* The parts of an order have their types.                                 *)
LEMMA OrderFacts ==
    ASSUME NEW o, OrderOK(o)
    PROVE  /\ o.type \in {"MARKET", "LIMIT"} /\ o.side \in Sides /\ o.tif \in {"DAY", "IOC"}
           /\ o.quantity \in Nat \ {0} /\ o.limit \in Nat /\ o.filled \in Nat /\ o.value \in Int
           /\ o.status \in {"PENDING", "PARTIALLY_FILLED", "FILLED", "CANCELLED"}
           /\ DOMAIN o = {"type", "side", "tif", "quantity", "limit", "filled", "value", "status"}
           /\ o.filled <= o.quantity
           /\ Filled(o) <=> o.filled = o.quantity
           /\ Remaining(o) \in Nat
           /\ Filled(o) => ~Active(o)
           /\ Active(o) => o.status # "CANCELLED"
           /\ Active(o) <=> ~Filled(o) /\ o.status # "CANCELLED"
BY DEF OrderOK, OrderRecords, Filled, Remaining, Active

(* A fill of what an order lacks, or less, keeps the order in order.       *)
LEMMA AdvancedOK ==
    ASSUME NEW o, OrderOK(o), Active(o), NEW q \in Nat \ {0}, q <= Remaining(o), NEW v \in Int,
           NEW o2, o2 = Advanced(o, q, v)
    PROVE  Advances(o2, o) /\ o2.filled = o.filled + q /\ o2.status # "CANCELLED"
<1>1. /\ o \in OrderRecords /\ o.quantity \in Nat \ {0} /\ o.filled \in Nat /\ o.value \in Int
      /\ DOMAIN o = {"type", "side", "tif", "quantity", "limit", "filled", "value", "status"}
      /\ o.type = "MARKET" <=> o.limit = 0
    BY OrderFacts DEF OrderOK
<1>2. /\ o2.type = o.type /\ o2.side = o.side /\ o2.tif = o.tif /\ o2.limit = o.limit
      /\ o2.quantity = o.quantity
      /\ o2.filled = o.filled + q /\ o2.value = o.value + v
      /\ o2.status = IF o.filled + q >= o.quantity THEN "FILLED" ELSE "PARTIALLY_FILLED"
    BY <1>1 DEF Advanced
<1>3. o2 \in OrderRecords
    <2> DEFINE filled == o.filled + q
               value == o.value + v
               status == IF o.filled + q >= o.quantity THEN "FILLED" ELSE "PARTIALLY_FILLED"
    <2>1. /\ filled \in Nat /\ value \in Int
          /\ status \in {"PENDING", "PARTIALLY_FILLED", "FILLED", "CANCELLED"}
        BY <1>1
    <2>2. o2 = [o EXCEPT !.filled = filled, !.value = value, !.status = status]
        BY <1>1 DEF Advanced
    <2> HIDE DEF filled, value, status
    <2> QED
        BY <1>1, <2>1, <2>2 DEF OrderRecords
<1>4. o.filled + q <= o.quantity
    BY <1>1 DEF Remaining
<1>5. OrderOK(o2)
    BY <1>1, <1>2, <1>3, <1>4 DEF OrderOK
<1> QED
    BY <1>1, <1>2, <1>5 DEF Advances

(* An order that is left alone counts as one that advances.                *)
LEMMA AdvancesSelf ==
    ASSUME NEW o, OrderOK(o)
    PROVE  Advances(o, o)
BY OrderFacts DEF Advances

(* What becomes of an order in two goes may become of it in one.           *)
LEMMA AdvancesTwice ==
    ASSUME NEW o, NEW o2, NEW o3, OrderOK(o), Advances(o2, o), Advances(o3, o2)
    PROVE  Advances(o3, o)
<1>1. o.filled \in Nat /\ o2.filled \in Nat /\ o3.filled \in Nat
    BY OrderFacts DEF Advances
<1> QED
    BY <1>1 DEF Advances
-----------------------------------------------------------------------------
(* The state of the manager *)

Fields == {"top", "orders", "symbolOrders", "cash", "position", "told"}

Quotes == [bid : Nat, bidSize : Nat, ask : Nat, askSize : Nat]

OrdersOK(s) ==
    /\ DOMAIN s = Fields
    /\ s.orders \in Seq(OrderRecords)
    /\ \A id \in 1..Len(s.orders) : OrderOK(s.orders[id])
    /\ s.top \in Quotes

Listed(s) ==
    /\ s.symbolOrders \in Seq(Int) /\ Rising(s.symbolOrders)
    /\ ToSet(s.symbolOrders) = {id \in 1..Len(s.orders) : Active(s.orders[id])}

StateOK(s) == OrdersOK(s) /\ Listed(s)

(* The orders of a state are numbered from 1.                              *)
LEMMA Numbered ==
    ASSUME NEW s, OrdersOK(s)
    PROVE  Len(s.orders) \in Nat /\ DOMAIN s.orders = 1..Len(s.orders)
BY DEF OrdersOK

(* The touch has its two sizes, and using one of them up leaves the other. *)
LEMMA TouchUsed ==
    ASSUME NEW q \in Quotes, NEW side \in Sides, NEW k \in Nat, k <= TouchSize(q, side),
           NEW r, r = WithTouchUsed(q, side, k)
    PROVE  /\ r \in Quotes
           /\ \A sd \in Sides :
                 TouchSize(r, sd) = TouchSize(q, sd) - (IF sd = side THEN k ELSE 0)
<1>1. /\ q.bid \in Nat /\ q.bidSize \in Nat /\ q.ask \in Nat /\ q.askSize \in Nat
      /\ DOMAIN q = {"bid", "bidSize", "ask", "askSize"}
    BY DEF Quotes
<1>2. CASE side = "BUY"
    <2> DEFINE rest == q.askSize - k
    <2>1. rest \in Nat
        BY <1>1, <1>2 DEF TouchSize
    <2>2. r = [q EXCEPT !.askSize = rest]
        BY <1>2 DEF WithTouchUsed
    <2>3. r.askSize = q.askSize - k /\ r.bidSize = q.bidSize
        BY <1>1, <2>2
    <2> HIDE DEF rest
    <2>4. r \in Quotes
        BY <2>1, <2>2 DEF Quotes
    <2> QED
        BY <1>1, <1>2, <2>3, <2>4 DEF TouchSize, Sides
<1>3. CASE side = "SELL"
    <2> DEFINE rest == q.bidSize - k
    <2>1. rest \in Nat
        BY <1>1, <1>3 DEF TouchSize
    <2>2. r = [q EXCEPT !.bidSize = rest]
        BY <1>3 DEF WithTouchUsed
    <2>3. r.bidSize = q.bidSize - k /\ r.askSize = q.askSize
        BY <1>1, <1>3, <2>2
    <2> HIDE DEF rest
    <2>4. r \in Quotes
        BY <2>1, <2>2 DEF Quotes
    <2> QED
        BY <1>1, <1>3, <2>3, <2>4 DEF TouchSize, Sides
<1> QED
    BY <1>2, <1>3 DEF Sides
-----------------------------------------------------------------------------
(* One order is tried *)

(* t2 differs from t in what order id gained.                              *)
OnlyAdvances(t2, t, id) ==
    /\ DOMAIN t2 = Fields /\ t2.symbolOrders = t.symbolOrders
    /\ t2.orders \in Seq(OrderRecords) /\ Len(t2.orders) = Len(t.orders)
    /\ \A x \in 1..Len(t.orders) : x # id => t2.orders[x] = t.orders[x]
    /\ Advances(t2.orders[id], t.orders[id])
    /\ t2.orders[id].status # "CANCELLED"

FillsOnly(t2, t, id, q) ==
    /\ OnlyAdvances(t2, t, id) /\ t2.top = t.top
    /\ t2.orders[id].filled = t.orders[id].filled + q

(* A fill of what an order lacks, or less.                                 *)
LEMMA Fills ==
    ASSUME NEW t, OrdersOK(t), NEW id \in 1..Len(t.orders), Active(t.orders[id]),
           NEW q \in Nat, q <= Remaining(t.orders[id]), NEW price \in Nat,
           NEW t2, t2 = Filling(t, id, q, price)
    PROVE  FillsOnly(t2, t, id, q)
<1> DEFINE o == t.orders[id]
<1>1. /\ DOMAIN t = Fields /\ t.orders \in Seq(OrderRecords) /\ OrderOK(o)
      /\ Len(t.orders) \in Nat /\ DOMAIN t.orders = 1..Len(t.orders)
      /\ o.status # "CANCELLED" /\ o.filled \in Nat /\ o.side \in Sides
    BY Numbered, OrderFacts DEF OrdersOK
<1>2. CASE q = 0
    BY <1>1, <1>2, AdvancesSelf DEF Filling, OnlyAdvances, FillsOnly
<1>3. CASE q # 0
    <2> DEFINE v == ValueWithSlippage(o.side, q, price)
               a == Advanced(o, q, v)
               adv == [t EXCEPT !.orders[id] = a]
    <2>1. v \in Int
        <3> DEFINE slip == IF SlippageDivisor = 0 THEN 0 ELSE (price * q) \div SlippageDivisor
                   p == IF o.side = "BUY" THEN price + slip ELSE price - slip
        <3>1. price * q \in Nat
            OBVIOUS
        <3>2. slip \in Int
            <4> DEFINE m == price * q
            <4>1. m \in Nat /\ SlippageDivisor \in Nat
                BY <3>1, TouchAssumption
            <4> HIDE DEF m
            <4>2. SlippageDivisor # 0 => m \div SlippageDivisor \in Int
                BY <4>1
            <4> QED
                BY <4>2 DEF m
        <3> HIDE DEF slip
        <3>3. p \in Int
            BY <3>2
        <3>4. v = q * p
            BY DEF ValueWithSlippage, slip
        <3> HIDE DEF p
        <3> QED
            BY <3>3, <3>4
    <2>2. t2 = FillOrder(t, id, q, v)
        BY <1>3 DEF Filling
    <2> HIDE DEF v
    <2>3. Advances(a, o) /\ a.filled = o.filled + q /\ a.status # "CANCELLED" /\ a \in OrderRecords
        <3>1. q \in Nat \ {0}
            BY <1>3
        <3>2. OrderOK(o) /\ Active(o) /\ q <= Remaining(o)
            BY <1>1
        <3> HIDE DEF o
        <3>3. Advances(a, o) /\ a.filled = o.filled + q /\ a.status # "CANCELLED"
            BY <2>1, <3>1, <3>2, AdvancedOK
        <3> QED
            BY <3>3 DEF Advances, OrderOK
    <2>4. /\ DOMAIN adv = Fields /\ adv.symbolOrders = t.symbolOrders /\ adv.top = t.top
          /\ adv.orders = [t.orders EXCEPT ![id] = a]
        BY <1>1 DEF Fields
    <2>5. /\ DOMAIN t2 = Fields /\ t2.symbolOrders = t.symbolOrders /\ t2.top = t.top
          /\ t2.orders = [t.orders EXCEPT ![id] = a]
        <3>1. t2 = adv \/ t2 = Booked(adv, o.side, q, v)
            BY <2>2 DEF FillOrder
        <3> HIDE DEF adv
        <3>2. DOMAIN Booked(adv, o.side, q, v) = Fields
            BY <2>4 DEF Booked
        <3>3. /\ Booked(adv, o.side, q, v).symbolOrders = adv.symbolOrders
              /\ Booked(adv, o.side, q, v).top = adv.top
              /\ Booked(adv, o.side, q, v).orders = adv.orders
            BY <2>4 DEF Booked, Fields
        <3> QED
            BY <2>4, <3>1, <3>2, <3>3
    <2> HIDE DEF a
    <2>6. /\ t2.orders \in Seq(OrderRecords) /\ Len(t2.orders) = Len(t.orders)
          /\ t2.orders[id] = a
          /\ \A x \in 1..Len(t.orders) : x # id => t2.orders[x] = t.orders[x]
        BY <1>1, <2>3, <2>5
    <2> QED
        BY <2>3, <2>5, <2>6 DEF OnlyAdvances, FillsOnly
<1> QED
    BY <1>2, <1>3

(* What a call may be given to match against.                              *)
QuoteOK(quote) ==
    /\ quote.bid \in Nat /\ quote.ask \in Nat
    /\ ~hasBook => quote.volume \in Nat

(* What order id did to the touch: it took its gain, which it only may if  *)
(* it crosses the quote, and an order that does and is not filled has left *)
(* nothing.                                                                *)
TookTouch(t2, t, id, quote) ==
    LET o == t.orders[id]
        gain == t2.orders[id].filled - o.filled
    IN  /\ \A sd \in Sides :
              TouchSize(t2.top, sd) = TouchSize(t.top, sd) - (IF sd = o.side THEN gain ELSE 0)
        /\ gain > 0 => CrossesTouch(quote, o)
        /\ CrossesTouch(quote, o) /\ ~Filled(t2.orders[id]) => TouchSize(t2.top, o.side) = 0

(* The touch shows natural numbers.                                        *)
LEMMA TouchFacts ==
    ASSUME NEW q \in Quotes, NEW side \in Sides
    PROVE  TouchSize(q, side) \in Nat
BY DEF Quotes, TouchSize

(* One order is tried against the touch, or against the tick.              *)
LEMMA Tried ==
    ASSUME NEW t, OrdersOK(t), NEW id \in 1..Len(t.orders), Active(t.orders[id]),
           NEW quote, QuoteOK(quote), NEW t2, t2 = MatchOrder(t, id, quote)
    PROVE  /\ OnlyAdvances(t2, t, id) /\ t2.top \in Quotes
           /\ hasBook => TookTouch(t2, t, id, quote)
<1> DEFINE o == t.orders[id]
<1>1. /\ OrderOK(o) /\ Active(o) /\ DOMAIN t = Fields /\ t.orders \in Seq(OrderRecords)
      /\ Len(t.orders) \in Nat /\ DOMAIN t.orders = 1..Len(t.orders)
      /\ \A x \in 1..Len(t.orders) : OrderOK(t.orders[x])
      /\ t.top \in Quotes
    BY Numbered DEF OrdersOK
<1>2. /\ o.side \in Sides /\ o.filled \in Nat /\ o.quantity \in Nat /\ o.limit \in Nat
      /\ Remaining(o) \in Nat /\ (Filled(o) <=> o.filled = o.quantity)
    BY <1>1, OrderFacts
<1>3. CASE hasBook
    <2> DEFINE size == TouchSize(t.top, o.side)
               q == IF CrossesTouch(quote, o) THEN Smaller(Remaining(o), size) ELSE 0
               price == TouchPrice(quote, o.side)
               used == WithTouchUsed(t.top, o.side, q)
               u == [t EXCEPT !.top = used]
    <2>1. size \in Nat
        BY <1>1, <1>2, TouchFacts
    <2>2. q \in Nat /\ q <= size /\ q <= Remaining(o)
        BY <1>2, <2>1 DEF Smaller
    <2>3. q > 0 => CrossesTouch(quote, o)
        OBVIOUS
    <2>4. CrossesTouch(quote, o) => q = Remaining(o) \/ q = size
        BY DEF Smaller
    <2>5. price \in Nat
        BY <1>2 DEF QuoteOK, TouchPrice
    <2>6. t2 = Filling(u, id, q, price)
        BY <1>3 DEF MatchOrder, MatchTouch
    <2> HIDE DEF q, price, size
    <2>7. /\ used \in Quotes
          /\ \A sd \in Sides :
                TouchSize(used, sd) = TouchSize(t.top, sd) - (IF sd = o.side THEN q ELSE 0)
        BY <1>1, <1>2, <2>2, TouchUsed DEF size
    <2> HIDE DEF used
    <2>8. /\ DOMAIN u = Fields /\ u.orders = t.orders /\ u.symbolOrders = t.symbolOrders
          /\ u.top = used
        BY <1>1 DEF Fields
    <2> HIDE DEF u
    <2>9. OrdersOK(u)
        BY <1>1, <2>7, <2>8 DEF OrdersOK
    <2>10. id \in 1..Len(u.orders) /\ Active(u.orders[id]) /\ q <= Remaining(u.orders[id])
        BY <1>1, <2>2, <2>8
    <2>11. /\ OnlyAdvances(t2, u, id) /\ t2.top = u.top
           /\ t2.orders[id].filled = u.orders[id].filled + q
        <3>1. FillsOnly(t2, u, id, q)
            BY <2>2, <2>5, <2>6, <2>9, <2>10, Fills
        <3> QED
            BY <3>1 DEF FillsOnly
    <2>12. OnlyAdvances(t2, t, id) /\ t2.top = used /\ t2.orders[id].filled = o.filled + q
        BY <2>8, <2>11 DEF OnlyAdvances
    <2>13. t2.orders[id].filled - o.filled = q
        BY <1>2, <2>2, <2>12
    <2>14. \A sd \in Sides :
              TouchSize(t2.top, sd) = TouchSize(t.top, sd) - (IF sd = o.side THEN q ELSE 0)
        BY <2>7, <2>12
    <2>15. ASSUME CrossesTouch(quote, o), ~Filled(t2.orders[id])
           PROVE  TouchSize(t2.top, o.side) = 0
        <3>1. OrderOK(t2.orders[id]) /\ t2.orders[id].quantity = o.quantity
            BY <2>12 DEF OnlyAdvances, Advances
        <3>2. t2.orders[id].filled # t2.orders[id].quantity
            BY <2>15, <3>1, OrderFacts
        <3>3. q # Remaining(o)
            BY <1>2, <2>2, <2>12, <3>1, <3>2 DEF Remaining
        <3>4. q = size
            BY <2>4, <2>15, <3>3
        <3> QED
            BY <1>2, <2>1, <2>14, <3>4 DEF size
    <2>16. TookTouch(t2, t, id, quote)
        BY <2>3, <2>13, <2>14, <2>15 DEF TookTouch
    <2> QED
        BY <2>7, <2>12, <2>16
<1>4. CASE ~hasBook
    <2> DEFINE crosses == o.type = "MARKET" \/ Reaches(TouchPrice(quote, o.side), o)
               q == IF crosses THEN Smaller(Remaining(o), quote.volume) ELSE 0
               price == IF o.type = "MARKET" THEN (quote.bid + quote.ask) \div 2 ELSE o.limit
    <2>1. q \in Nat /\ q <= Remaining(o)
        <3>1. quote.volume \in Nat /\ Remaining(o) \in Nat
            BY <1>2, <1>4 DEF QuoteOK
        <3> HIDE DEF crosses
        <3>2. /\ Smaller(Remaining(o), quote.volume) \in Nat
              /\ Smaller(Remaining(o), quote.volume) <= Remaining(o)
            BY ONLY <3>1 DEF Smaller
        <3> QED
            BY ONLY <3>1, <3>2
    <2>2. price \in Nat
        <3> DEFINE m == quote.bid + quote.ask
        <3>1. m \in Nat
            BY DEF QuoteOK
        <3> HIDE DEF m
        <3>2. m \div 2 \in Nat
            BY <3>1
        <3> QED
            BY <1>2, <3>2 DEF m
    <2>3. t2 = Filling(t, id, q, price)
        BY <1>4 DEF MatchOrder, MatchTick
    <2> HIDE DEF q, price
    <2>4. OnlyAdvances(t2, t, id) /\ t2.top = t.top
        <3>1. OrdersOK(t) /\ Active(t.orders[id]) /\ q <= Remaining(t.orders[id])
            BY <2>1
        <3>2. FillsOnly(t2, t, id, q)
            BY <2>1, <2>2, <2>3, <3>1, Fills
        <3> QED
            BY <3>2 DEF FillsOnly
    <2> QED
        BY <1>1, <1>4, <2>4
<1> QED
    BY <1>3, <1>4
-----------------------------------------------------------------------------
(* The live orders are tried *)

(* What the orders of a side gained from s to t.                           *)
Gains(t, s, side) ==
    [x \in 1..Len(s.orders) |->
        IF s.orders[x].side = side THEN t.orders[x].filled - s.orders[x].filled ELSE 0]

Gain(t, s, x) == t.orders[x].filled - s.orders[x].filled

(* With a book: the touch has lost what the orders of the list gained, and *)
(* one of them gained only if it crosses and all the earlier ones of its   *)
(* side that cross are filled.                                             *)
TouchShared(t, s, list, k, quote) ==
    /\ \A side \in Sides :
          TouchSize(t.top, side) = TouchSize(s.top, side) - Total(Gains(t, s, side))
    /\ \A i \in 1..k :
          /\ CrossesTouch(quote, s.orders[list[i]]) /\ ~Filled(t.orders[list[i]])
                => TouchSize(t.top, s.orders[list[i]].side) = 0
          /\ Gain(t, s, list[i]) > 0 => CrossesTouch(quote, s.orders[list[i]])
          /\ \A j \in 1..(i - 1) :
                /\ Gain(t, s, list[i]) > 0
                /\ s.orders[list[j]].side = s.orders[list[i]].side
                /\ CrossesTouch(quote, s.orders[list[j]])
                => Filled(t.orders[list[j]])

(* The first k orders of the list have been tried.                         *)
Trying(t, s, list, k, quote) ==
    /\ OrdersOK(t) /\ t.symbolOrders = s.symbolOrders /\ Len(t.orders) = Len(s.orders)
    /\ \A x \in 1..Len(s.orders) : Advances(t.orders[x], s.orders[x])
    /\ \A i \in (k + 1)..Len(list) : t.orders[list[i]] = s.orders[list[i]]
    /\ \A x \in 1..Len(s.orders) :
          (\A i \in 1..Len(list) : list[i] # x) => t.orders[x] = s.orders[x]
    /\ hasBook => TouchShared(t, s, list, k, quote)

(* The orders that may be tried: live ones, no one twice.                  *)
Triable(s, list) ==
    /\ list \in Seq(Int)
    /\ \A i \in 1..Len(list) : list[i] \in 1..Len(s.orders) /\ Active(s.orders[list[i]])
    /\ \A i, j \in 1..Len(list) : list[i] = list[j] => i = j

(* One more order is tried.                                                *)
LEMMA TryStep ==
    ASSUME NEW s, OrdersOK(s), NEW list, Triable(s, list), NEW quote, QuoteOK(quote),
           NEW k \in Nat, k < Len(list), NEW t, Trying(t, s, list, k, quote),
           NEW t2, t2 = MatchOrder(t, list[k + 1], quote)
    PROVE  Trying(t2, s, list, k + 1, quote)
<1> DEFINE id == list[k + 1]
           n == Len(s.orders)
<1>1. /\ Len(list) \in Nat /\ k + 1 \in 1..Len(list) /\ n \in Nat
      /\ \A i \in 1..Len(list) : list[i] \in 1..n /\ Active(s.orders[list[i]])
      /\ \A i, j \in 1..Len(list) : list[i] = list[j] => i = j
      /\ \A x \in 1..n : OrderOK(s.orders[x])
    BY Numbered DEF Triable, OrdersOK
<1>2. /\ OrdersOK(t) /\ t.symbolOrders = s.symbolOrders /\ Len(t.orders) = n
      /\ \A x \in 1..n : Advances(t.orders[x], s.orders[x])
      /\ \A i \in (k + 1)..Len(list) : t.orders[list[i]] = s.orders[list[i]]
      /\ \A x \in 1..n : (\A i \in 1..Len(list) : list[i] # x) => t.orders[x] = s.orders[x]
      /\ \A x \in 1..n : OrderOK(t.orders[x])
    BY DEF Trying, OrdersOK
<1>3. id \in 1..n /\ Active(t.orders[id]) /\ t.orders[id] = s.orders[id]
    BY <1>1, <1>2
<1> HIDE DEF n
<1>4. /\ OnlyAdvances(t2, t, id) /\ t2.top \in Quotes
      /\ hasBook => TookTouch(t2, t, id, quote)
    <2>1. t2 = MatchOrder(t, id, quote) /\ id \in 1..Len(t.orders)
        BY <1>2, <1>3
    <2> HIDE DEF id
    <2> QED
        BY <1>2, <1>3, <2>1, Tried
<1> HIDE DEF id
<1>5. /\ DOMAIN t2 = Fields /\ t2.symbolOrders = t.symbolOrders
      /\ t2.orders \in Seq(OrderRecords) /\ Len(t2.orders) = n
      /\ \A x \in 1..n : x # id => t2.orders[x] = t.orders[x]
      /\ Advances(t2.orders[id], t.orders[id])
    BY <1>2, <1>4 DEF OnlyAdvances
<1>6. \A x \in 1..n : OrderOK(t2.orders[x]) /\ Advances(t2.orders[x], s.orders[x])
    <2> SUFFICES ASSUME NEW x \in 1..n
                 PROVE  OrderOK(t2.orders[x]) /\ Advances(t2.orders[x], s.orders[x])
        OBVIOUS
    <2>1. CASE x = id
        BY <1>3, <1>5, <2>1 DEF Advances
    <2>2. CASE x # id
        BY <1>2, <1>5, <2>2
    <2> QED
        BY <2>1, <2>2
<1>7. OrdersOK(t2)
    BY <1>4, <1>5, <1>6 DEF OrdersOK
<1>8. \A i \in (k + 2)..Len(list) : t2.orders[list[i]] = s.orders[list[i]]
    <2> SUFFICES ASSUME NEW i \in (k + 2)..Len(list)
                 PROVE  t2.orders[list[i]] = s.orders[list[i]]
        OBVIOUS
    <2>1. i \in (k + 1)..Len(list) /\ i \in 1..Len(list) /\ i # k + 1
        BY <1>1
    <2>2. list[i] \in 1..n /\ list[i] # id
        BY <1>1, <2>1 DEF id
    <2> QED
        BY <1>2, <1>5, <2>1, <2>2
<1>9. \A x \in 1..n : (\A i \in 1..Len(list) : list[i] # x) => t2.orders[x] = s.orders[x]
    BY <1>1, <1>2, <1>5 DEF id
<1>10. ASSUME hasBook PROVE TouchShared(t2, s, list, k + 1, quote)
    <2> DEFINE gain == t2.orders[id].filled - t.orders[id].filled
               side == s.orders[id].side
    <2>1. \A x \in 1..n : /\ s.orders[x].filled \in Nat /\ t.orders[x].filled \in Nat
                          /\ t2.orders[x].filled \in Nat /\ s.orders[x].side \in Sides
                          /\ t.orders[x].filled >= s.orders[x].filled
        BY <1>1, <1>2, <1>6, OrderFacts DEF Advances
    <2>2. gain \in Nat /\ side \in Sides
        BY <1>3, <1>5, <2>1 DEF Advances
    <2>3. \A sd \in Sides :
             TouchSize(t2.top, sd) = TouchSize(t.top, sd) - (IF sd = side THEN gain ELSE 0)
        BY <1>3, <1>4, <1>10 DEF TookTouch
    <2>4. gain > 0 => CrossesTouch(quote, s.orders[id])
        BY <1>3, <1>4, <1>10 DEF TookTouch
    <2>5. CrossesTouch(quote, s.orders[id]) /\ ~Filled(t2.orders[id]) => TouchSize(t2.top, side) = 0
        BY <1>3, <1>4, <1>10 DEF TookTouch
    <2>6. /\ \A sd \in Sides :
                TouchSize(t.top, sd) = TouchSize(s.top, sd) - Total(Gains(t, s, sd))
          /\ \A i \in 1..k :
                /\ CrossesTouch(quote, s.orders[list[i]]) /\ ~Filled(t.orders[list[i]])
                      => TouchSize(t.top, s.orders[list[i]].side) = 0
                /\ Gain(t, s, list[i]) > 0 => CrossesTouch(quote, s.orders[list[i]])
                /\ \A j \in 1..(i - 1) :
                      /\ Gain(t, s, list[i]) > 0
                      /\ s.orders[list[j]].side = s.orders[list[i]].side
                      /\ CrossesTouch(quote, s.orders[list[j]])
                      => Filled(t.orders[list[j]])
        BY <1>10 DEF Trying, TouchShared
    <2>7. \A sd \in Sides : TouchSize(t.top, sd) \in Nat /\ TouchSize(t2.top, sd) \in Nat
        BY <1>2, <1>4, TouchFacts DEF OrdersOK
    <2> HIDE DEF gain, side
    <2>8. ASSUME NEW sd \in Sides
          PROVE  TouchSize(t2.top, sd) = TouchSize(s.top, sd) - Total(Gains(t2, s, sd))
        <3> DEFINE g == Gains(t, s, sd)
                   g2 == Gains(t2, s, sd)
                   d == IF sd = side THEN gain ELSE 0
        <3>1. g \in [1..n -> Int] /\ g2 \in [1..n -> Int]
            BY <2>1 DEF Gains, n
        <3>2. g2[id] = g[id] + d
            BY <1>3, <2>1 DEF Gains, n, gain, side
        <3>3. \A x \in 1..n : x # id => g2[x] = g[x]
            BY <1>5 DEF Gains, n
        <3>4. d \in Int
            BY <2>2
        <3> HIDE DEF g, g2, d
        <3>5. Total(g2) = Total(g) + d
            <4>1. Changed(g2, g, n, id, d)
                BY <1>3, <3>1, <3>2, <3>3, <3>4 DEF Changed
            <4> QED
                BY <1>1, <4>1, TotalChanged
        <3>6. Total(g) \in Int
            BY <1>1, <3>1, TotalType
        <3>7. TouchSize(t.top, sd) = TouchSize(s.top, sd) - Total(g)
            BY <2>6 DEF g
        <3>8. TouchSize(s.top, sd) \in Nat
            BY TouchFacts DEF OrdersOK
        <3>9. TouchSize(t2.top, sd) = TouchSize(t.top, sd) - d
            BY <2>3 DEF d
        <3> QED
            BY <3>4, <3>5, <3>6, <3>7, <3>8, <3>9 DEF g2
    <2>9. \A i \in 1..k : list[i] # id /\ list[i] \in 1..n /\ t2.orders[list[i]] = t.orders[list[i]]
        <3> SUFFICES ASSUME NEW i \in 1..k
                     PROVE  /\ list[i] # id /\ list[i] \in 1..n
                            /\ t2.orders[list[i]] = t.orders[list[i]]
            OBVIOUS
        <3>1. i \in 1..Len(list) /\ i # k + 1
            BY <1>1
        <3> QED
            BY <1>1, <1>5, <3>1 DEF id
    <2>10. ASSUME NEW i \in 1..(k + 1), CrossesTouch(quote, s.orders[list[i]]),
                  ~Filled(t2.orders[list[i]])
           PROVE  TouchSize(t2.top, s.orders[list[i]].side) = 0
        <3>1. CASE i = k + 1
            BY <2>5, <2>10, <3>1 DEF id, side
        <3>2. CASE i \in 1..k
            <4>1. TouchSize(t.top, s.orders[list[i]].side) = 0
                BY <2>6, <2>9, <2>10, <3>2
            <4>2. s.orders[list[i]].side \in Sides
                BY <2>1, <2>9, <3>2
            <4> QED
                BY <2>2, <2>3, <2>7, <4>1, <4>2
        <3> QED
            BY <3>1, <3>2
    <2>11. ASSUME NEW i \in 1..(k + 1), Gain(t2, s, list[i]) > 0
           PROVE  CrossesTouch(quote, s.orders[list[i]])
        <3>1. CASE i = k + 1
            BY <1>3, <2>4, <2>11, <3>1 DEF Gain, gain, id
        <3>2. CASE i \in 1..k
            BY <2>6, <2>9, <2>11, <3>2 DEF Gain
        <3> QED
            BY <3>1, <3>2
    <2>12. ASSUME NEW i \in 1..(k + 1), NEW j \in 1..(i - 1), Gain(t2, s, list[i]) > 0,
                  s.orders[list[j]].side = s.orders[list[i]].side,
                  CrossesTouch(quote, s.orders[list[j]])
           PROVE  Filled(t2.orders[list[j]])
        <3>1. CASE i = k + 1
            <4>1. j \in 1..k
                BY <3>1
            <4>2. gain > 0 /\ s.orders[list[j]].side = side
                BY <1>3, <2>12, <3>1 DEF Gain, gain, id, side
            <4>3. TouchSize(t.top, side) > 0
                BY <2>2, <2>3, <2>7, <4>2
            <4>4. Filled(t.orders[list[j]])
                BY <2>6, <2>12, <4>1, <4>2, <4>3
            <4> QED
                BY <2>9, <4>1, <4>4
        <3>2. CASE i \in 1..k
            <4>1. j \in 1..k
                BY <3>2
            <4> QED
                BY <2>6, <2>9, <2>12, <3>2, <4>1 DEF Gain
        <3> QED
            BY <3>1, <3>2
    <2> QED
        BY <2>8, <2>10, <2>11, <2>12 DEF TouchShared
<1>11. (k + 1) + 1 = k + 2
    OBVIOUS
<1> QED
    BY <1>2, <1>5, <1>6, <1>7, <1>8, <1>9, <1>10, <1>11 DEF Trying, n

(* At first none has been tried.                                           *)
LEMMA TryNone ==
    ASSUME NEW s, OrdersOK(s), NEW list, NEW quote
    PROVE  Trying(s, s, list, 0, quote)
<1> DEFINE n == Len(s.orders)
<1>1. n \in Nat /\ \A x \in 1..n : OrderOK(s.orders[x])
    BY Numbered DEF OrdersOK
<1>2. \A x \in 1..n : Advances(s.orders[x], s.orders[x])
    BY <1>1, AdvancesSelf
<1>3. ASSUME hasBook PROVE TouchShared(s, s, list, 0, quote)
    <2>1. ASSUME NEW side \in Sides
          PROVE  TouchSize(s.top, side) = TouchSize(s.top, side) - Total(Gains(s, s, side))
        <3> DEFINE g == Gains(s, s, side)
        <3>1. TouchSize(s.top, side) \in Nat
            BY TouchFacts DEF OrdersOK
        <3>2. g \in [1..n -> Int] /\ \A x \in 1..n : g[x] = 0
            BY <1>1, OrderFacts DEF Gains
        <3> HIDE DEF g, n
        <3>3. Total(g) = 0
            BY <1>1, <3>2, TotalZero
        <3> QED
            BY <3>1, <3>3 DEF g
    <2> QED
        BY <2>1 DEF TouchShared
<1> QED
    BY <1>2, <1>3 DEF Trying

(* All of the list has been tried at the end.                              *)
LEMMA EachTried ==
    ASSUME NEW s, OrdersOK(s), NEW list, Triable(s, list), NEW quote, QuoteOK(quote)
    PROVE  Trying(TryEach(s, list, quote), s, list, Len(list), quote)
<1> DEFINE n == Len(list)
<1>1. n \in Nat /\ DOMAIN list = 1..n
    BY DEF Triable
<1> HIDE DEF n
<1>2. PICK h : Tries!Runs(h, quote, s, list, n) /\ TryEach(s, list, quote) = h[n]
    BY <1>1, TryRuns
<1>3. h[0] = s /\ \A i \in 1..n : h[i] = MatchOrder(h[i - 1], list[i], quote)
    BY <1>2 DEF Tries!Runs
<1> DEFINE K == {k \in 0..n : Trying(h[k], s, list, k, quote)}
<1>4. 0 \in K
    BY <1>1, <1>3, TryNone
<1>5. ASSUME NEW k \in 0..(n - 1), k \in K PROVE k + 1 \in K
    <2>1. k \in Nat /\ k < Len(list) /\ k + 1 \in 1..n /\ k + 1 \in 0..n /\ (k + 1) - 1 = k
        BY <1>1 DEF n
    <2>2. Trying(h[k], s, list, k, quote)
        BY <1>5
    <2>3. h[k + 1] = MatchOrder(h[k], list[k + 1], quote)
        BY <1>3, <2>1
    <2>4. Trying(h[k + 1], s, list, k + 1, quote)
        BY <2>1, <2>2, <2>3, TryStep
    <2> QED
        BY <2>1, <2>4
<1>6. n \in K
    <2> HIDE DEF K
    <2>1. \A k \in 0..(n - 1) : k \in K => k + 1 \in K
        BY <1>5
    <2>2. \A k \in 0..n : k \in K
        BY <1>1, <1>4, <2>1, Induction
    <2> QED
        BY <1>1, <2>2
<1> QED
    BY <1>2, <1>6 DEF n

(* The list of the live orders is the list of the symbol.                  *)
LEMMA AllLive ==
    ASSUME NEW s, StateOK(s)
    PROVE  /\ Triable(s, LiveOrders(s)) /\ Rising(LiveOrders(s))
           /\ ToSet(LiveOrders(s)) = ToSet(s.symbolOrders)
<1> DEFINE L == LiveOrders(s)
           A == {id \in DOMAIN s.orders : Active(s.orders[id])}
<1>1. /\ s.symbolOrders \in Seq(Int) /\ Rising(s.symbolOrders)
      /\ ToSet(s.symbolOrders) = {id \in 1..Len(s.orders) : Active(s.orders[id])}
      /\ DOMAIN s.orders = 1..Len(s.orders)
    BY Numbered DEF StateOK, Listed
<1>2. L = Kept(s.symbolOrders, A)
    BY DEF LiveOrders
<1>3. ToSet(s.symbolOrders) = A
    BY <1>1
<1> HIDE DEF A, L
<1>4. L \in Seq(Int) /\ Rising(L) /\ ToSet(L) = ToSet(s.symbolOrders)
    BY <1>1, <1>2, <1>3, KeptRising
<1>5. DOMAIN L = 1..Len(L) /\ Len(L) \in Nat /\ \A i \in 1..Len(L) : L[i] \in Int
    BY <1>4
<1>6. \A i \in 1..Len(L) : L[i] \in A
    BY <1>3, <1>4, <1>5 DEF ToSet
<1>7. \A i, j \in 1..Len(L) : L[i] = L[j] => i = j
    <2> SUFFICES ASSUME NEW i \in 1..Len(L), NEW j \in 1..Len(L), L[i] = L[j], i # j
                 PROVE  FALSE
        OBVIOUS
    <2>1. i < j \/ j < i
        OBVIOUS
    <2>2. L[i] < L[j] \/ L[j] < L[i]
        BY <1>4, <1>5, <2>1 DEF Rising
    <2> QED
        BY <1>5, <2>2
<1>8. Triable(s, L)
    BY <1>1, <1>4, <1>6, <1>7 DEF Triable, A
<1> QED
    BY <1>4, <1>8 DEF L

(* An older order that is as eager is served first.                        *)
OlderServed(u, s) ==
    \A x, y \in 1..Len(s.orders) :
        /\ y < x /\ s.orders[y].side = s.orders[x].side
        /\ Active(s.orders[y]) /\ Gain(u, s, x) > 0
        /\ AsEager(s.orders[y], s.orders[x])
        => Filled(u.orders[y])

(* u is s after all live orders were tried.                                *)
Matched(u, s) ==
    /\ StateOK(u) /\ Len(u.orders) = Len(s.orders)
    /\ \A x \in 1..Len(s.orders) : Advances(u.orders[x], s.orders[x])
    /\ hasBook =>
          /\ \A side \in Sides :
                TouchSize(u.top, side) = TouchSize(s.top, side) - Total(Gains(u, s, side))
          /\ OlderServed(u, s)

(* An order that is as eager as one that crosses a quote crosses it, too.  *)
LEMMA EagerCrosses ==
    ASSUME NEW o, NEW p, OrderOK(o), OrderOK(p), o.side = p.side, AsEager(p, o),
           NEW quote, QuoteOK(quote), CrossesTouch(quote, o)
    PROVE  CrossesTouch(quote, p)
<1>1. o.limit \in Nat /\ p.limit \in Nat /\ TouchPrice(quote, o.side) \in Int
    BY OrderFacts DEF QuoteOK, TouchPrice
<1>2. CASE p.type = "MARKET"
    BY <1>2 DEF CrossesTouch
<1>3. CASE p.type # "MARKET"
    <2>1. o.type = "LIMIT" /\ Reaches(o.limit, p)
        BY <1>3 DEF AsEager
    <2>2. TouchSize(quote, o.side) > 0 /\ Reaches(TouchPrice(quote, o.side), o)
        BY <2>1 DEF CrossesTouch
    <2>3. Reaches(TouchPrice(quote, p.side), p)
        BY <1>1, <2>1, <2>2 DEF Reaches
    <2> QED
        BY <2>2, <2>3 DEF CrossesTouch
<1> QED
    BY <1>2, <1>3

(* What a call that matches does.                                          *)
LEMMA EachMatched ==
    ASSUME NEW s, StateOK(s), NEW quote, QuoteOK(quote), NEW u, u = MatchEach(s, quote)
    PROVE  Matched(u, s)
<1> DEFINE L == LiveOrders(s)
           t == TryEach(s, L, quote)
           gone == {id \in ToSet(L) : Filled(t.orders[id])}
           n == Len(s.orders)
<1>1. /\ Triable(s, L) /\ Rising(L) /\ ToSet(L) = ToSet(s.symbolOrders)
    BY AllLive
<1>2. OrdersOK(s) /\ Listed(s) /\ n \in Nat /\ DOMAIN s.orders = 1..n
    BY Numbered DEF StateOK
<1>3. u = Unlist(t, gone)
    BY DEF MatchEach
<1> HIDE DEF L
<1>4. Trying(t, s, L, Len(L), quote)
    BY <1>1, <1>2, EachTried
<1> HIDE DEF t
<1>5. /\ OrdersOK(t) /\ t.symbolOrders = s.symbolOrders /\ Len(t.orders) = n
      /\ \A x \in 1..n : Advances(t.orders[x], s.orders[x])
      /\ \A x \in 1..n : (\A i \in 1..Len(L) : L[i] # x) => t.orders[x] = s.orders[x]
      /\ hasBook => TouchShared(t, s, L, Len(L), quote)
    BY <1>4 DEF Trying
<1>6. /\ DOMAIN u = Fields /\ u.orders = t.orders /\ u.top = t.top
      /\ u.symbolOrders = Kept(t.symbolOrders, ToSet(t.symbolOrders) \ gone)
    <2>1. DOMAIN t = Fields
        BY <1>5 DEF OrdersOK
    <2> HIDE DEF gone
    <2> QED
        BY <1>3, <2>1 DEF Unlist, Fields
<1>7. OrdersOK(u)
    BY <1>5, <1>6 DEF OrdersOK
<1>8. /\ L \in Seq(Int) /\ DOMAIN L = 1..Len(L) /\ Len(L) \in Nat
      /\ \A i \in 1..Len(L) : L[i] \in Int /\ L[i] \in ToSet(L)
      /\ \A x \in ToSet(L) : \E i \in 1..Len(L) : L[i] = x
    BY <1>1 DEF Triable, ToSet
<1>9. ToSet(L) = {id \in 1..n : Active(s.orders[id])}
    BY <1>1, <1>2 DEF Listed
<1>10. Listed(u)
    <2> DEFINE l == s.symbolOrders
               k == Kept(l, ToSet(l) \ gone)
    <2>1. l \in Seq(Int) /\ Rising(l)
        BY <1>2 DEF Listed
    <2> HIDE DEF l
    <2>2. k \in Seq(Int) /\ Rising(k) /\ ToSet(k) = ToSet(l) \ gone
        BY <2>1, KeptListed
    <2>3. u.symbolOrders = k
        BY <1>5, <1>6 DEF l
    <2> HIDE DEF k
    <2>4. ToSet(l) \ gone = {id \in 1..n : Active(t.orders[id])}
        <3>1. ToSet(l) = ToSet(L)
            BY <1>1 DEF l
        <3>2. ASSUME NEW x \in 1..n, Active(s.orders[x])
              PROVE  Active(t.orders[x]) <=> ~Filled(t.orders[x])
            BY <1>2, <1>5, <3>2, OrderFacts DEF Advances, OrdersOK
        <3>3. ASSUME NEW x \in 1..n, ~Active(s.orders[x])
              PROVE  ~Active(t.orders[x])
            <4>1. x \notin ToSet(L)
                BY <1>9, <3>3
            <4>2. t.orders[x] = s.orders[x]
                BY <1>5, <1>8, <4>1
            <4> QED
                BY <3>3, <4>2
        <3> QED
            BY <1>9, <3>1, <3>2, <3>3
    <2> QED
        BY <1>5, <1>6, <2>2, <2>3, <2>4 DEF Listed
<1>11. ASSUME hasBook
       PROVE  /\ \A side \in Sides :
                    TouchSize(u.top, side) = TouchSize(s.top, side) - Total(Gains(u, s, side))
              /\ OlderServed(u, s)
    <2>1. TouchShared(t, s, L, Len(L), quote)
        BY <1>5, <1>11
    <2>2. ASSUME NEW side \in Sides
          PROVE  TouchSize(u.top, side) = TouchSize(s.top, side) - Total(Gains(u, s, side))
        <3>1. Gains(u, s, side) = Gains(t, s, side)
            BY <1>6 DEF Gains
        <3> QED
            BY <1>6, <2>1, <3>1 DEF TouchShared
    <2>3. ASSUME NEW x \in 1..n, NEW y \in 1..n, y < x,
                 s.orders[y].side = s.orders[x].side, Active(s.orders[y]), Gain(u, s, x) > 0,
                 AsEager(s.orders[y], s.orders[x])
          PROVE  Filled(u.orders[y])
        <3>1. OrderOK(s.orders[x]) /\ OrderOK(s.orders[y])
            BY <1>2 DEF OrdersOK
        <3>2. Gain(t, s, x) > 0
            BY <1>6, <2>3 DEF Gain
        <3>3. x \in ToSet(L)
            <4> SUFFICES ASSUME x \notin ToSet(L) PROVE FALSE
                OBVIOUS
            <4>1. t.orders[x] = s.orders[x]
                BY <1>5, <1>8
            <4> QED
                BY <3>1, <3>2, <4>1, OrderFacts DEF Gain
        <3>4. PICK i \in 1..Len(L) : L[i] = x
            BY <1>8, <3>3
        <3>5. PICK j \in 1..Len(L) : L[j] = y
            BY <1>8, <1>9, <2>3
        <3>6. j < i
            <4> SUFFICES ASSUME ~(j < i) PROVE FALSE
                OBVIOUS
            <4>1. i < j
                BY <1>8, <2>3, <3>4, <3>5
            <4>2. L[i] < L[j]
                BY <1>1, <1>8, <4>1 DEF Rising
            <4> QED
                BY <1>8, <2>3, <3>4, <3>5, <4>2
        <3>7. CrossesTouch(quote, s.orders[x])
            BY <2>1, <3>2, <3>4 DEF TouchShared
        <3>8. CrossesTouch(quote, s.orders[y])
            BY <2>3, <3>1, <3>7, EagerCrosses
        <3>9. Filled(t.orders[y])
            <4>1. j \in 1..(i - 1)
                BY <3>6
            <4> QED
                BY <2>1, <2>3, <3>2, <3>4, <3>5, <3>8, <4>1 DEF TouchShared
        <3> QED
            BY <1>6, <3>9
    <2> QED
        BY <2>2, <2>3 DEF OlderServed
<1> QED
    BY <1>5, <1>6, <1>7, <1>10, <1>11 DEF Matched, StateOK
-----------------------------------------------------------------------------
(* The calls *)

(* Only the touch, the orders and the list matter.                         *)
SameParts(v, u) ==
    v.top = u.top /\ v.orders = u.orders /\ v.symbolOrders = u.symbolOrders

(* A state with the same touch, orders and list is in order, too.          *)
LEMMA PartsOK ==
    ASSUME NEW u, StateOK(u), NEW v, DOMAIN v = Fields, SameParts(v, u)
    PROVE  StateOK(v)
BY DEF StateOK, OrdersOK, Listed, SameParts

(* No fill is changed from s to v.                                         *)
NoFills(v, s) ==
    /\ v.top = s.top /\ Len(v.orders) = Len(s.orders)
    /\ \A x \in 1..Len(s.orders) :
          /\ v.orders[x].filled = s.orders[x].filled
          /\ Filled(s.orders[x]) => Filled(v.orders[x])

(* A set of live orders that have not filled at all is cancelled.          *)
LEMMA Cancelled ==
    ASSUME NEW s, StateOK(s),
           NEW ids, \A x \in ids : x \in 1..Len(s.orders) /\ Active(s.orders[x]),
           NEW v, DOMAIN v = Fields, v.top = s.top,
           v.orders = [x \in 1..Len(s.orders) |->
                          IF x \in ids THEN [s.orders[x] EXCEPT !.status = "CANCELLED"]
                          ELSE s.orders[x]],
           v.symbolOrders = Kept(s.symbolOrders, ToSet(s.symbolOrders) \ ids)
    PROVE  StateOK(v) /\ NoFills(v, s)
<1> DEFINE n == Len(s.orders)
           l == s.symbolOrders
<1>1. /\ OrdersOK(s) /\ Listed(s) /\ n \in Nat /\ \A x \in 1..n : OrderOK(s.orders[x])
      /\ s.orders \in Seq(OrderRecords) /\ DOMAIN s.orders = 1..n
    BY Numbered DEF StateOK, OrdersOK
<1> HIDE DEF n
<1>2. ASSUME NEW x \in 1..n
      PROVE  /\ OrderOK(v.orders[x]) /\ v.orders[x] \in OrderRecords
             /\ v.orders[x].filled = s.orders[x].filled
             /\ Filled(s.orders[x]) => Filled(v.orders[x])
             /\ Active(v.orders[x]) <=> Active(s.orders[x]) /\ x \notin ids
    <2> DEFINE o == s.orders[x]
               c == [o EXCEPT !.status = "CANCELLED"]
    <2>1. OrderOK(o)
        BY <1>1
    <2>2. CASE x \notin ids
        BY <1>2, <2>1, <2>2 DEF OrderOK, n
    <2>3. CASE x \in ids
        <3>1. v.orders[x] = c
            BY <1>2, <2>3 DEF n
        <3>2. /\ o \in OrderRecords /\ ~Filled(o) /\ o.filled # o.quantity /\ o.filled <= o.quantity
              /\ DOMAIN o = {"type", "side", "tif", "quantity", "limit", "filled", "value", "status"}
              /\ (o.type = "MARKET" <=> o.limit = 0)
            BY <2>1, <2>3, OrderFacts DEF OrderOK
        <3> HIDE DEF o
        <3>3. /\ c \in OrderRecords /\ c.filled = o.filled /\ c.quantity = o.quantity
              /\ c.type = o.type /\ c.limit = o.limit /\ c.status = "CANCELLED"
            BY <3>2 DEF OrderRecords
        <3> HIDE DEF c
        <3>4. OrderOK(c)
            BY <3>2, <3>3 DEF OrderOK
        <3>5. ~Active(c)
            BY <3>3 DEF Active
        <3> QED
            BY <2>3, <3>1, <3>2, <3>3, <3>4, <3>5 DEF o
    <2> QED
        BY <2>2, <2>3
<1>3. DOMAIN v.orders = 1..n
    BY DEF n
<1>4. v.orders \in Seq(OrderRecords) /\ Len(v.orders) = n
    <2>1. v.orders = [x \in 1..n |-> v.orders[x]]
        BY <1>3 DEF n
    <2>2. v.orders \in [1..n -> OrderRecords]
        BY <1>2, <2>1
    <2> QED
        BY <1>1, <2>2
<1>5. OrdersOK(v)
    BY <1>1, <1>2, <1>4 DEF OrdersOK
<1>6. Listed(v)
    <2>1. l \in Seq(Int) /\ Rising(l) /\ ToSet(l) = {x \in 1..n : Active(s.orders[x])}
        BY <1>1 DEF Listed, n
    <2> HIDE DEF l
    <2> DEFINE k == Kept(l, ToSet(l) \ ids)
    <2>2. k \in Seq(Int) /\ Rising(k) /\ ToSet(k) = ToSet(l) \ ids
        BY <2>1, KeptListed
    <2>3. v.symbolOrders = k
        BY DEF l
    <2> HIDE DEF k
    <2>4. ToSet(l) \ ids = {x \in 1..n : Active(v.orders[x])}
        BY <1>2, <2>1
    <2> QED
        BY <1>4, <2>2, <2>3, <2>4 DEF Listed
<1> QED
    BY <1>2, <1>4, <1>5, <1>6 DEF StateOK, NoFills, n

(* The immediate-or-cancel orders that have not filled are cancelled.      *)
LEMMA IocCancelled ==
    ASSUME NEW s, StateOK(s), NEW v, v = CancelIocOrders(s)
    PROVE  StateOK(v) /\ NoFills(v, s)
<1> DEFINE ids == {id \in ToSet(s.symbolOrders) :
                      s.orders[id].tif = "IOC" /\ s.orders[id].filled = 0}
           changed == [x \in 1..Len(s.orders) |->
                          IF x \in ids THEN [s.orders[x] EXCEPT !.status = "CANCELLED"]
                          ELSE s.orders[x]]
           mid == [s EXCEPT !.orders = changed]
<1>1. /\ DOMAIN s = Fields /\ DOMAIN s.orders = 1..Len(s.orders)
      /\ ToSet(s.symbolOrders) = {id \in 1..Len(s.orders) : Active(s.orders[id])}
    BY Numbered DEF StateOK, OrdersOK, Listed
<1>2. v = Unlist(mid, ids)
    BY <1>1 DEF CancelIocOrders, Fields
<1>3. \A x \in ids : x \in 1..Len(s.orders) /\ Active(s.orders[x])
    BY <1>1
<1> HIDE DEF ids, changed
<1>4. /\ DOMAIN v = Fields /\ v.top = s.top /\ v.orders = changed
      /\ v.symbolOrders = Kept(s.symbolOrders, ToSet(s.symbolOrders) \ ids)
    BY <1>1, <1>2 DEF Unlist, Fields
<1> QED
    BY <1>3, <1>4, Cancelled DEF changed

(* One live order is cancelled.                                            *)
LEMMA OneCancelled ==
    ASSUME NEW s, StateOK(s), NEW id \in 1..Len(s.orders), Active(s.orders[id]),
           NEW v, v = RemoveOrderFromBook(SetStatus(s, id, "CANCELLED"), id)
    PROVE  StateOK(v) /\ NoFills(v, s)
<1> DEFINE changed == [x \in 1..Len(s.orders) |->
                          IF x \in {id} THEN [s.orders[x] EXCEPT !.status = "CANCELLED"]
                          ELSE s.orders[x]]
<1>1. DOMAIN s = Fields /\ DOMAIN s.orders = 1..Len(s.orders)
    BY Numbered DEF StateOK, OrdersOK
<1>2. [s.orders EXCEPT ![id].status = "CANCELLED"] = changed
    BY <1>1
<1> HIDE DEF changed
<1>3. /\ DOMAIN v = Fields /\ v.top = s.top /\ v.orders = changed
      /\ v.symbolOrders = Kept(s.symbolOrders, ToSet(s.symbolOrders) \ {id})
    BY <1>1, <1>2 DEF RemoveOrderFromBook, SetStatus, Unlist, Fields
<1>4. \A x \in {id} : x \in 1..Len(s.orders) /\ Active(s.orders[x])
    OBVIOUS
<1> QED
    BY <1>3, <1>4, Cancelled DEF changed

(* An order is added with the next id.                                     *)
LEMMA OrderAdded ==
    ASSUME NEW s, StateOK(s), NEW o, OrderOK(o), Active(o),
           NEW v, v = AddOrderToBook(s, o)
    PROVE  /\ StateOK(v)
           /\ \A x \in 1..Len(s.orders) : v.orders[x] = s.orders[x]
<1> DEFINE n == Len(s.orders)
           l == s.symbolOrders
           m == n + 1
<1>1. /\ DOMAIN s = Fields /\ s.orders \in Seq(OrderRecords) /\ n \in Nat /\ s.top \in Quotes
      /\ \A x \in 1..n : OrderOK(s.orders[x])
      /\ l \in Seq(Int) /\ Rising(l) /\ ToSet(l) = {x \in 1..n : Active(s.orders[x])}
    BY Numbered DEF StateOK, OrdersOK, Listed
<1>2. /\ DOMAIN v = Fields /\ v.top = s.top /\ v.orders = Append(s.orders, o)
      /\ v.symbolOrders = Append(l, m)
    BY <1>1 DEF AddOrderToBook, NextOrderId, Fields
<1>3. o \in OrderRecords
    BY DEF OrderOK
<1>4. /\ v.orders \in Seq(OrderRecords) /\ Len(v.orders) = m /\ v.orders[m] = o
      /\ \A x \in 1..n : v.orders[x] = s.orders[x]
    BY <1>1, <1>2, <1>3
<1> HIDE DEF n, l
<1>5. \A x \in 1..m : x = m \/ x \in 1..n
    BY <1>1
<1>6. \A x \in 1..m : OrderOK(v.orders[x])
    BY <1>1, <1>4, <1>5
<1>7. OrdersOK(v)
    BY <1>1, <1>2, <1>4, <1>6 DEF OrdersOK
<1>8. m \in Int /\ \A y \in ToSet(l) : y < m
    BY <1>1
<1>9. /\ v.symbolOrders \in Seq(Int) /\ Rising(v.symbolOrders)
      /\ ToSet(v.symbolOrders) = ToSet(l) \cup {m}
    BY <1>1, <1>2, <1>8, RisingAppend
<1>10. {x \in 1..m : Active(v.orders[x])} = {x \in 1..n : Active(s.orders[x])} \cup {m}
    BY <1>1, <1>4, <1>5
<1>11. Listed(v)
    BY <1>1, <1>4, <1>9, <1>10 DEF Listed
<1> QED
    BY <1>4, <1>7, <1>11 DEF StateOK, n
-----------------------------------------------------------------------------
(* The inductive invariant *)

(* Every order's fills fit its quantity and its status, the list holds the *)
(* live orders in rising order, and the touch shows natural numbers.       *)
InOrder == StateOK(Now)

(* A new order is in order and live.                                       *)
LEMMA NewOrderOK ==
    ASSUME NEW side \in Sides, NEW quantity \in Quantities, NEW tif \in {"DAY", "IOC"},
           NEW type, NEW limit,
           (type = "MARKET" /\ limit = 0) \/ (type = "LIMIT" /\ limit \in Prices)
    PROVE  /\ OrderOK(NewOrder(type, side, tif, quantity, limit))
           /\ Active(NewOrder(type, side, tif, quantity, limit))
<1>1. quantity \in Nat \ {0} /\ \A price \in Prices : price \in Nat \ {0}
    BY TouchAssumption
<1>2. /\ limit \in Nat /\ (type = "MARKET" <=> limit = 0)
      /\ type = "MARKET" \/ type = "LIMIT"
    <2>1. CASE type = "MARKET" /\ limit = 0
        BY <2>1
    <2>2. CASE type = "LIMIT" /\ limit \in Prices
        <3>1. limit \in Nat \ {0}
            BY <1>1, <2>2
        <3> QED
            BY <2>2, <3>1
    <2> QED
        BY <2>1, <2>2
<1> QED
    BY <1>1, <1>2 DEF NewOrder, OrderOK, OrderRecords, Active

(* The parts of the state as it is now.                                    *)
LEMMA NowParts ==
    /\ DOMAIN Now = Fields /\ Now.top = top /\ Now.orders = orders
    /\ Now.symbolOrders = symbolOrders /\ Now.told = told
BY DEF Now, Fields

(* What the state becomes is what it is then.                              *)
LEMMA Became ==
    ASSUME NEW s, Become(s)
    PROVE  /\ top' = s.top /\ orders' = s.orders /\ symbolOrders' = s.symbolOrders
           /\ StateOK(s) => InOrder'
<1>1. /\ DOMAIN Now' = Fields /\ top' = s.top /\ orders' = s.orders
      /\ symbolOrders' = s.symbolOrders
      /\ Now'.top = top' /\ Now'.orders = orders' /\ Now'.symbolOrders = symbolOrders'
    BY DEF Become, Now, Fields
<1>2. SameParts(Now', s)
    BY <1>1 DEF SameParts
<1>3. StateOK(s) => StateOK(Now')
    BY <1>1, <1>2, PartsOK
<1> QED
    BY <1>1, <1>3 DEF InOrder, Become

(* A tick is shown.                                                        *)
LEMMA TickShown ==
    ASSUME InOrder, NEW tick \in Ticks, NEW s, s = IF hasBook THEN Quoted(Now, tick) ELSE Now
    PROVE  /\ StateOK(s) /\ QuoteOK(tick) /\ s.orders = orders
           /\ hasBook => \A side \in Sides : TouchSize(s.top, side) = TouchSize(tick, side)
<1>1. /\ tick.bid \in Nat /\ tick.bidSize \in Nat /\ tick.ask \in Nat /\ tick.askSize \in Nat
      /\ tick.volume \in Nat
    BY TouchAssumption
<1>2. QuoteOK(tick)
    BY <1>1 DEF QuoteOK
<1>3. CASE ~hasBook
    BY <1>2, <1>3, NowParts DEF InOrder
<1>4. CASE hasBook
    <2> DEFINE shown == [bid |-> tick.bid, bidSize |-> tick.bidSize,
                         ask |-> tick.ask, askSize |-> tick.askSize]
    <2>1. /\ shown \in Quotes
          /\ \A side \in Sides : TouchSize(shown, side) = TouchSize(tick, side)
        BY <1>1 DEF Quotes, TouchSize
    <2>2. s = [Now EXCEPT !.top = shown]
        BY <1>4 DEF Quoted
    <2> HIDE DEF shown
    <2>3. /\ DOMAIN s = Fields /\ s.top = shown /\ s.orders = orders
          /\ s.symbolOrders = symbolOrders
        BY <2>2, NowParts DEF Fields
    <2>4. StateOK(s)
        BY <2>1, <2>3, NowParts DEF InOrder, StateOK, OrdersOK, Listed
    <2> QED
        BY <1>2, <2>1, <2>3, <2>4
<1> QED
    BY <1>3, <1>4

(* A tick: the live orders are tried, then the untouched immediate-or-     *)
(* cancel ones are cancelled.                                              *)
LEMMA TickMatched ==
    ASSUME InOrder, NEW tick \in Ticks, ProcessTick(tick)
    PROVE  \E s, u : /\ InOrder' /\ StateOK(s) /\ Matched(u, s) /\ s.orders = orders
                     /\ top' = u.top
                     /\ \A x \in 1..Len(orders) :
                           /\ orders'[x].filled = u.orders[x].filled
                           /\ Filled(u.orders[x]) => Filled(orders'[x])
                     /\ hasBook => \A side \in Sides :
                                      TouchSize(s.top, side) = TouchSize(tick, side)
<1> DEFINE s == IF hasBook THEN Quoted(Now, tick) ELSE Now
           u == MatchEach(s, tick)
           v == CancelIocOrders(u)
<1>1. Become(v)
    BY DEF ProcessTick
<1>2. /\ StateOK(s) /\ QuoteOK(tick) /\ s.orders = orders
      /\ hasBook => \A side \in Sides : TouchSize(s.top, side) = TouchSize(tick, side)
    BY TickShown
<1> HIDE DEF s
<1>3. Matched(u, s)
    BY <1>2, EachMatched
<1> HIDE DEF u
<1>4. StateOK(u) /\ Len(u.orders) = Len(s.orders)
    BY <1>3 DEF Matched
<1>5. StateOK(v) /\ NoFills(v, u)
    BY <1>4, IocCancelled
<1> HIDE DEF v
<1>6. InOrder' /\ top' = v.top /\ orders' = v.orders
    BY <1>1, <1>5, Became
<1>7. /\ top' = u.top
      /\ \A x \in 1..Len(orders) : /\ orders'[x].filled = u.orders[x].filled
                                   /\ Filled(u.orders[x]) => Filled(orders'[x])
    BY <1>2, <1>4, <1>5, <1>6 DEF NoFills
<1> QED
    BY <1>2, <1>3, <1>6, <1>7

(* attempt_fills: the live orders are tried against what is still shown.   *)
LEMMA AttemptMatched ==
    ASSUME InOrder, AttemptFills
    PROVE  \E u : /\ InOrder' /\ StateOK(Now) /\ Matched(u, Now)
                  /\ top' = u.top /\ orders' = u.orders
<1> DEFINE u == MatchEach(Now, top)
           reported == [id \in DOMAIN u.told |->
                           u.told[id] + (u.orders[id].filled - orders[id].filled)]
           v == [u EXCEPT !.told = reported]
<1>1. Become(v) /\ hasBook
    BY DEF AttemptFills
<1>2. StateOK(Now) /\ QuoteOK(top)
    <2>1. top \in Quotes
        BY NowParts DEF InOrder, StateOK, OrdersOK
    <2> QED
        BY <1>1, <2>1 DEF InOrder, QuoteOK, Quotes
<1>3. Matched(u, Now)
    BY <1>2, EachMatched
<1> HIDE DEF u
<1>4. StateOK(u) /\ DOMAIN u = Fields
    BY <1>3 DEF Matched, StateOK, OrdersOK
<1> HIDE DEF reported
<1>5. DOMAIN v = Fields /\ SameParts(v, u)
    BY <1>4 DEF Fields, SameParts
<1> HIDE DEF v
<1>6. StateOK(v)
    BY <1>4, <1>5, PartsOK
<1>7. InOrder' /\ top' = v.top /\ orders' = v.orders
    BY <1>1, <1>6, Became
<1> QED
    BY <1>2, <1>3, <1>5, <1>7 DEF SameParts

(* A submitted order is added; no older one changes.                       *)
LEMMA Submitted ==
    ASSUME InOrder, Submit
    PROVE  InOrder' /\ \A x \in 1..Len(orders) : orders'[x] = orders[x]
<1>1. PICK o : OrderOK(o) /\ Active(o) /\ Become(AddOrderToBook(Now, o))
    <2>1. PICK side \in Sides, quantity \in Quantities :
             \/ SubmitMarketOrder(side, quantity)
             \/ \E limit \in Prices, tif \in {"DAY", "IOC"} :
                   SubmitLimitOrder(side, quantity, limit, tif)
        BY DEF Submit
    <2>2. CASE SubmitMarketOrder(side, quantity)
        <3> DEFINE o == NewOrder("MARKET", side, "DAY", quantity, 0)
        <3>1. OrderOK(o) /\ Active(o)
            BY NewOrderOK
        <3>2. Become(AddOrderToBook(Now, o))
            BY <2>2 DEF SubmitMarketOrder
        <3> QED
            BY <3>1, <3>2
    <2>3. CASE \E limit \in Prices, tif \in {"DAY", "IOC"} :
                  SubmitLimitOrder(side, quantity, limit, tif)
        <3>1. PICK limit \in Prices, tif \in {"DAY", "IOC"} :
                 SubmitLimitOrder(side, quantity, limit, tif)
            BY <2>3
        <3> DEFINE o == NewOrder("LIMIT", side, tif, quantity, limit)
        <3>2. OrderOK(o) /\ Active(o)
            BY <3>1, NewOrderOK
        <3>3. Become(AddOrderToBook(Now, o))
            BY <3>1 DEF SubmitLimitOrder
        <3> QED
            BY <3>2, <3>3
    <2> QED
        BY <2>1, <2>2, <2>3
<1> DEFINE v == AddOrderToBook(Now, o)
<1>2. StateOK(v) /\ \A x \in 1..Len(Now.orders) : v.orders[x] = Now.orders[x]
    BY <1>1, OrderAdded DEF InOrder
<1>3. Become(v)
    BY <1>1
<1> HIDE DEF v
<1>4. InOrder' /\ orders' = v.orders
    BY <1>2, <1>3, Became
<1> QED
    BY <1>2, <1>4, NowParts

(* A cancelled order keeps its fills.                                      *)
LEMMA CancelKeeps ==
    ASSUME InOrder, NEW id, CancelOrder(id)
    PROVE  InOrder' /\ \A x \in 1..Len(orders) : orders'[x].filled = orders[x].filled
<1> DEFINE v == RemoveOrderFromBook(SetStatus(Now, id, "CANCELLED"), id)
<1>1. Become(v) /\ id \in 1..Len(Now.orders) /\ Active(Now.orders[id])
    <2>1. DOMAIN orders = 1..Len(orders)
        BY NowParts, Numbered DEF InOrder, StateOK
    <2> QED
        BY <2>1, NowParts DEF CancelOrder
<1>2. StateOK(v) /\ NoFills(v, Now)
    BY <1>1, OneCancelled DEF InOrder
<1> HIDE DEF v
<1>3. InOrder' /\ orders' = v.orders
    BY <1>1, <1>2, Became
<1> QED
    BY <1>2, <1>3, NowParts DEF NoFills

(* The manager starts in order.                                            *)
LEMMA InOrderInit == Init => InOrder
<1> SUFFICES ASSUME Init PROVE InOrder
    OBVIOUS
<1>1. Now.top \in Quotes /\ Now.orders = <<>> /\ Now.symbolOrders = <<>>
    BY NowParts DEF Init, NoTop, Quotes
<1>2. ToSet(<<>>) = {} /\ Rising(<<>>) /\ Len(<<>>) = 0 /\ 1..0 = {}
    BY DEF ToSet, Rising
<1>3. OrdersOK(Now)
    BY <1>1, <1>2, NowParts DEF OrdersOK
<1>4. Listed(Now)
    BY <1>1, <1>2 DEF Listed
<1> QED
    BY <1>3, <1>4 DEF InOrder, StateOK

(* Every call leaves the manager in order.                                 *)
LEMMA InOrderStep == InOrder /\ [Next]_vars => InOrder'
<1> SUFFICES ASSUME InOrder, [Next]_vars PROVE InOrder'
    OBVIOUS
<1>1. CASE Submit
    BY <1>1, Submitted
<1>2. ASSUME NEW id \in 1..MaxOrders, CancelOrder(id) PROVE InOrder'
    BY <1>2, CancelKeeps
<1>3. ASSUME NEW tick \in Ticks, ProcessTick(tick) PROVE InOrder'
    BY <1>3, TickMatched
<1>4. CASE AttemptFills
    BY <1>4, AttemptMatched
<1>5. CASE UNCHANGED vars
    BY <1>5 DEF vars, InOrder, Now
<1> QED
    BY <1>1, <1>2, <1>3, <1>4, <1>5 DEF Next

(* Whatever is submitted, cancelled, shown and tried, no order is filled   *)
(* beyond its quantity, and one is FILLED exactly when it has all of it.   *)
THEOREM StaysInOrder == Spec => []InOrder
BY InOrderInit, InOrderStep, PTL DEF Spec

(* The symbol's list holds exactly the live orders, oldest first.          *)
THEOREM ListsTheLive == Spec => []ListedWhileActive
<1>1. InOrder => ListedWhileActive
    <2> SUFFICES ASSUME InOrder PROVE ListedWhileActive
        OBVIOUS
    <2>1. Listed(Now) /\ DOMAIN orders = 1..Len(orders)
        BY NowParts, Numbered DEF InOrder, StateOK
    <2> QED
        BY <2>1, NowParts DEF Listed, ListedWhileActive, ListsActive, Rising
<1> QED
    BY <1>1, StaysInOrder, PTL

(* What a call that matched did to the touch.                              *)
LEMMA TouchTaken ==
    ASSUME InOrder, hasBook, NEW s, StateOK(s), NEW u, Matched(u, s), s.orders = orders,
           InOrder',
           top' = u.top, \A x \in 1..Len(orders) : orders'[x].filled = u.orders[x].filled,
           NEW side \in Sides
    PROVE  TakenFrom(s.top, side)
<1>1. DOMAIN orders = 1..Len(orders) /\ Len(orders) \in Nat
    BY NowParts, Numbered DEF InOrder, StateOK
<1>2. GainedBy(side) = Total(Gains(u, s, side))
    <2>1. Gains(u, s, side) =
             [id \in DOMAIN orders |-> IF orders[id].side = side THEN Gained(id) ELSE 0]
        BY <1>1 DEF Gains, Gained
    <2> QED
        BY <2>1 DEF GainedBy
<1> DEFINE total == Total(Gains(u, s, side))
<1>3. total \in Int
    <2> DEFINE g == Gains(u, s, side)
               n == Len(orders)
    <2>1. /\ \A x \in 1..n : OrderOK(s.orders[x])
          /\ \A x \in 1..n : OrderOK(u.orders[x])
        BY DEF StateOK, OrdersOK, Matched
    <2>2. \A x \in 1..n : u.orders[x].filled \in Nat /\ s.orders[x].filled \in Nat
        BY <2>1, OrderFacts
    <2>3. n \in Nat /\ g \in [1..n -> Int]
        BY <1>1, <2>2 DEF Gains
    <2> HIDE DEF g, n
    <2> QED
        BY <2>3, TotalType DEF g
<1>4. TouchSize(top', side) = TouchSize(s.top, side) - total
    BY DEF Matched
<1>5. TouchSize(s.top, side) \in Nat
    BY TouchFacts DEF StateOK, OrdersOK
<1>6. TouchSize(top', side) \in Nat
    <2>1. Now.top' \in Quotes /\ Now.top' = top'
        BY NowParts DEF InOrder, StateOK, OrdersOK, Now
    <2>2. \A q \in Quotes : TouchSize(q, side) \in Nat
        BY TouchFacts
    <2>3. top' \in Quotes
        BY <2>1
    <2> QED
        BY <2>2, <2>3
<1> HIDE DEF total
<1> QED
    BY <1>2, <1>3, <1>4, <1>5, <1>6 DEF total, TakenFrom

(* With a book, the orders tried in one call take together no more than    *)
(* was displayed, and the book keeps exactly the rest.                     *)
THEOREM TouchIsShared == Spec => TouchNeverOversold
<1> DEFINE Shared ==
              hasBook =>
                 \A side \in Sides :
                    /\ AttemptFills => TakenFrom(top, side)
                    /\ \A tick \in Ticks : ProcessTick(tick) => TakenFrom(tick, side)
<1>1. ASSUME InOrder, hasBook, NEW side \in Sides, AttemptFills
      PROVE  TakenFrom(top, side)
    <2>1. PICK u : /\ InOrder' /\ StateOK(Now) /\ Matched(u, Now)
                   /\ top' = u.top /\ orders' = u.orders
        BY <1>1, AttemptMatched
    <2>2. Now.orders = orders /\ Now.top = top
        BY NowParts
    <2>3. \E s : StateOK(s) /\ Matched(u, s) /\ s.orders = orders /\ s.top = top
        BY <2>1, <2>2
    <2>4. PICK s : StateOK(s) /\ Matched(u, s) /\ s.orders = orders /\ s.top = top
        BY <2>3
    <2>5. \A x \in 1..Len(orders) : orders'[x].filled = u.orders[x].filled
        BY <2>1
    <2>6. TakenFrom(s.top, side)
        BY <1>1, <2>1, <2>4, <2>5, TouchTaken
    <2> QED
        BY <2>4, <2>6
<1>2. ASSUME InOrder, hasBook, NEW side \in Sides, NEW tick \in Ticks, ProcessTick(tick)
      PROVE  TakenFrom(tick, side)
    <2>1. PICK s, u : /\ InOrder' /\ StateOK(s) /\ Matched(u, s) /\ s.orders = orders
                      /\ top' = u.top
                      /\ \A x \in 1..Len(orders) : orders'[x].filled = u.orders[x].filled
                      /\ hasBook => \A sd \in Sides :
                                       TouchSize(s.top, sd) = TouchSize(tick, sd)
        BY <1>2, TickMatched
    <2>2. TakenFrom(s.top, side)
        BY <1>2, <2>1, TouchTaken
    <2>3. TouchSize(s.top, side) = TouchSize(tick, side)
        BY <1>2, <2>1
    <2> QED
        BY <2>2, <2>3 DEF TakenFrom
<1>3. InOrder => Shared
    BY <1>1, <1>2
<1>4. Spec => [][Shared]_vars
    BY <1>3, StaysInOrder, PTL DEF Spec
<1> QED
    BY <1>4 DEF TouchNeverOversold

(* In one call an order takes a share only if every older order of its     *)
(* side that is as eager has all it wants.                                 *)
THEOREM OlderAreServed == Spec => OlderFirst
<1> DEFINE Served ==
              \A id, other \in DOMAIN orders :
                 /\ hasBook /\ other < id /\ orders[other].side = orders[id].side
                 /\ Active(orders[other]) /\ Gained(id) > 0
                 /\ AsEager(orders[other], orders[id])
                 => Filled(orders'[other])
<1>1. ASSUME InOrder, [Next]_vars PROVE [Served]_vars
    <2>1. DOMAIN orders = 1..Len(orders) /\ \A x \in 1..Len(orders) : orders[x].filled \in Nat
        BY <1>1, NowParts, Numbered, OrderFacts DEF InOrder, StateOK, OrdersOK
    <2>2. ASSUME \A x \in 1..Len(orders) : orders'[x].filled = orders[x].filled
          PROVE  Served
        BY <2>1, <2>2 DEF Gained
    <2>3. ASSUME NEW s, NEW u, Matched(u, s), s.orders = orders,
                 \A x \in 1..Len(orders) : /\ orders'[x].filled = u.orders[x].filled
                                           /\ Filled(u.orders[x]) => Filled(orders'[x])
          PROVE  Served
        <3>1. hasBook => OlderServed(u, s)
            BY <2>3 DEF Matched
        <3>2. \A x \in 1..Len(orders) : Gained(x) = Gain(u, s, x)
            BY <2>3 DEF Gained, Gain
        <3> QED
            BY <2>1, <2>3, <3>1, <3>2 DEF OlderServed
    <2> HIDE DEF Served
    <2>4. CASE Submit
        BY <1>1, <2>2, <2>4, Submitted
    <2>5. ASSUME NEW id \in 1..MaxOrders, CancelOrder(id) PROVE Served
        BY <1>1, <2>2, <2>5, CancelKeeps
    <2>6. ASSUME NEW tick \in Ticks, ProcessTick(tick) PROVE Served
        BY <1>1, <2>3, <2>6, TickMatched
    <2>7. CASE AttemptFills
        <3>1. PICK u : /\ StateOK(Now) /\ Matched(u, Now) /\ orders' = u.orders
            BY <1>1, <2>7, AttemptMatched
        <3>2. \E s : Matched(u, s) /\ s.orders = orders
            BY <3>1, NowParts
        <3>3. PICK s : Matched(u, s) /\ s.orders = orders
            BY <3>2
        <3> QED
            BY <2>3, <3>1, <3>3
    <2> QED
        BY <1>1, <2>4, <2>5, <2>6, <2>7 DEF Next
<1>2. Spec => [][Served]_vars
    BY <1>1, StaysInOrder, PTL DEF Spec
<1> QED
    BY <1>2 DEF OlderFirst
-----------------------------------------------------------------------------
(* The bars *)

Bars == INSTANCE FoldFacts WITH Op <- LAMBDA p, x, e : ProcessBarTick(x, e)

(* A list of one element is sorted.                                        *)
LEMMA SortedOne ==
    ASSUME NEW e, e.time \in Nat
    PROVE  SortedByTime(<<e>>) = <<e>>
<1> DEFINE P == Injection(1..1, 1..1)
           l == <<e>>
           order == CHOOSE places \in P :
                       \A i, j \in 1..1 : i < j => l[places[i]].time <= l[places[j]].time
<1>1. 1..1 = {1} /\ DOMAIN l = 1..1 /\ l[1] = e
    OBVIOUS
<1>2. [i \in 1..1 |-> i] \in P
    BY DEF Injection, IsInjective
<1>3. \A i, j \in 1..1 : ~(i < j)
    OBVIOUS
<1> HIDE DEF l
<1>4. order \in P
    BY <1>2, <1>3
<1>5. order[1] = 1
    BY <1>1, <1>4 DEF Injection
<1>6. SortedByTime(l) = [i \in 1..1 |-> l[order[i]]]
    BY <1>1 DEF SortedByTime
<1> HIDE DEF order
<1>7. [i \in 1..1 |-> l[order[i]]] = [i \in 1..1 |-> l[i]]
    BY <1>1, <1>5
<1> QED
    BY <1>6, <1>7 DEF l

(* A fold over one tick.                                                   *)
LEMMA BufferedOne ==
    ASSUME NEW b, NEW tick, b.buffer = <<tick>>
    PROVE  ProcessBufferedTicks(b) = ProcessBarTick([b EXCEPT !.buffer = <<>>], tick)
<1> DEFINE base == [b EXCEPT !.buffer = <<>>]
           l == <<tick>>
<1>1. ProcessBufferedTicks(b) = Bars!Folded(0, base, l)
    BY DEF ProcessBufferedTicks, Bars!Folded, FoldLeft, MapThenFoldSet, Max, Bars!Largest
<1> DEFINE n == 1
<1>2. n \in Nat /\ DOMAIN l = 1..n
    OBVIOUS
<1> HIDE DEF base, l, n
<1>3. PICK h : Bars!Runs(h, 0, base, l, n) /\ Bars!Folded(0, base, l) = h[n]
    BY <1>2, Induction, Bars!Along DEF Bars!CountsUp
<1>4. h[0] = base /\ h[1] = ProcessBarTick(h[0], l[1])
    <2>1. 1 \in 1..1 /\ 1 - 1 = 0
        OBVIOUS
    <2> QED
        BY <1>3, <2>1 DEF Bars!Runs, n
<1> QED
    BY <1>1, <1>3, <1>4 DEF base, l, n

(* A fold over no tick.                                                    *)
LEMMA BufferedNone ==
    ASSUME NEW b, b.buffer = <<>>
    PROVE  ProcessBufferedTicks(b) = [b EXCEPT !.buffer = <<>>]
<1> DEFINE base == [b EXCEPT !.buffer = <<>>]
           l == <<>>
<1>1. ProcessBufferedTicks(b) = Bars!Folded(0, base, l)
    BY DEF ProcessBufferedTicks, Bars!Folded, FoldLeft, MapThenFoldSet, Max, Bars!Largest
<1>2. DOMAIN l = 1..0
    OBVIOUS
<1> HIDE DEF base, l
<1>3. PICK h : Bars!Runs(h, 0, base, l, 0) /\ Bars!Folded(0, base, l) = h[0]
    BY <1>2, Induction, Bars!Along DEF Bars!CountsUp
<1>4. h[0] = base
    BY <1>3 DEF Bars!Runs
<1> QED
    BY <1>1, <1>3, <1>4 DEF base, l

(* Multiples of a number are at least that number apart.                   *)
LEMMA Multiples ==
    ASSUME NEW x \in Nat, NEW y \in Nat, NEW k \in Nat, x < y
    PROVE  x * k + k <= y * k
<1>1. PICK d \in Nat : y = x + 1 + d
    <2>1. y - x - 1 \in Nat /\ y = x + 1 + (y - x - 1)
        OBVIOUS
    <2> QED
        BY <2>1
<1>2. (x + 1 + d) * k = x * k + k + d * k
    OBVIOUS
<1>3. d * k \in Nat /\ x * k \in Nat
    OBVIOUS
<1> QED
    BY <1>1, <1>2, <1>3

(* A time is in its own interval, of which there is one, and later times   *)
(* are in later intervals or the same.                                     *)
LEMMA Intervals ==
    ASSUME NEW s \in Nat, NEW t \in Nat
    PROVE  /\ IntervalOf(s) \in Nat
           /\ s <= t => IntervalOf(s) <= IntervalOf(t)
           /\ IntervalOf(t) = IntervalOf(s)
                 <=> t >= IntervalOf(s) /\ t < IntervalOf(s) + BarInterval
<1> DEFINE a == s \div BarInterval
           b == t \div BarInterval
           m == a * BarInterval
           n == b * BarInterval
<1>1. BarInterval \in Nat \ {0}
    BY IntervalAssumption
<1>2. /\ a \in Nat /\ m <= s /\ s < m + BarInterval
      /\ b \in Nat /\ n <= t /\ t < n + BarInterval
    BY <1>1, SMTT(60)
<1>3. IntervalOf(s) = m /\ IntervalOf(t) = n
    BY DEF IntervalOf
<1> HIDE DEF a, b
<1>4. m \in Nat /\ n \in Nat
    BY <1>1, <1>2
<1>5. CASE a = b
    BY <1>1, <1>2, <1>3, <1>4, <1>5
<1>6. CASE a < b
    <2>1. m + BarInterval <= n
        BY <1>1, <1>2, <1>6, Multiples
    <2> HIDE DEF m, n
    <2> QED
        BY <1>1, <1>2, <1>3, <1>4, <2>1
<1>7. CASE b < a
    <2>1. n + BarInterval <= m
        BY <1>1, <1>2, <1>7, Multiples
    <2> HIDE DEF m, n
    <2> QED
        BY <1>1, <1>2, <1>3, <1>4, <2>1
<1> QED
    BY <1>2, <1>5, <1>6, <1>7
-----------------------------------------------------------------------------
(* The builder *)

(* The builder between two calls: nothing is buffered, nothing is ready.   *)
Holding(current) == [buffer |-> <<>>, current |-> current, ready |-> <<>>]

(* The builder's answer to the first tick, to one of the interval in       *)
(* progress, and to one of another interval.                               *)
LEMMA Added ==
    ASSUME NEW c, NEW tick, tick.time \in Nat
    PROVE  /\ c = <<>> => AddTick(Holding(c), tick) =
                             [builder |-> Holding(<<NewBar(tick)>>), bars |-> <<>>]
           /\ \A bar : c = <<bar>> =>
                 /\ Belongs(tick, bar) =>
                       AddTick(Holding(c), tick) =
                          [builder |-> Holding(<<WithTick(bar, tick)>>), bars |-> <<>>]
                 /\ ~Belongs(tick, bar) =>
                       AddTick(Holding(c), tick) =
                          [builder |-> Holding(<<NewBar(tick)>>), bars |-> <<bar>>]
<1> DEFINE b == Holding(c)
           buffered == [b EXCEPT !.buffer = SortedByTime(Append(@, tick))]
           p == ProcessBarTick(b, tick)
<1>1. Append(b.buffer, tick) = <<tick>>
    BY DEF Holding
<1>2. /\ buffered.buffer = <<tick>>
      /\ [buffered EXCEPT !.buffer = <<>>] = b
    <2>1. SortedByTime(Append(b.buffer, tick)) = <<tick>>
        BY <1>1, SortedOne
    <2>2. buffered = [b EXCEPT !.buffer = <<tick>>]
        BY <2>1
    <2> HIDE DEF buffered
    <2>3. buffered = [buffer |-> <<tick>>, current |-> c, ready |-> <<>>]
        BY <2>2 DEF Holding
    <2>4. [buffered EXCEPT !.buffer = <<>>] = [buffer |-> <<>>, current |-> c, ready |-> <<>>]
        BY <2>3
    <2> QED
        BY <2>3, <2>4 DEF Holding
<1> HIDE DEF buffered
<1>3. ProcessBufferedTicks(buffered) = p
    BY <1>2, BufferedOne
<1>4. AddTick(b, tick) = HandOut(p)
    BY <1>3 DEF AddTick, buffered
<1>5. b.current = c /\ b.ready = <<>> /\ b.buffer = <<>>
    BY DEF Holding
<1>6. CASE c = <<>>
    <2>1. p = Holding(<<NewBar(tick)>>)
        BY <1>5, <1>6 DEF ProcessBarTick, Holding
    <2> HIDE DEF p
    <2>2. HandOut(p) = [builder |-> p, bars |-> <<>>]
        BY <2>1 DEF HandOut, Holding
    <2>3. \A bar : <<bar>> # <<>>
        OBVIOUS
    <2> QED
        BY <1>4, <1>6, <2>1, <2>2, <2>3
<1>7. ASSUME NEW bar, c = <<bar>>, Belongs(tick, bar)
      PROVE  AddTick(b, tick) =
                [builder |-> Holding(<<WithTick(bar, tick)>>), bars |-> <<>>]
    <2>1. c # <<>> /\ Head(c) = bar
        BY <1>7
    <2>2. p = Holding(<<WithTick(bar, tick)>>)
        BY <1>5, <1>7, <2>1 DEF ProcessBarTick, Holding
    <2> HIDE DEF p
    <2>3. HandOut(p) = [builder |-> p, bars |-> <<>>]
        BY <2>2 DEF HandOut, Holding
    <2> QED
        BY <1>4, <2>2, <2>3
<1>8. ASSUME NEW bar, c = <<bar>>, ~Belongs(tick, bar)
      PROVE  AddTick(b, tick) = [builder |-> Holding(<<NewBar(tick)>>), bars |-> <<bar>>]
    <2>1. c # <<>> /\ Head(c) = bar
        BY <1>8
    <2>2. p = [buffer |-> <<>>, current |-> <<NewBar(tick)>>, ready |-> <<bar>>]
        <3>1. Append(b.ready, bar) = <<bar>>
            BY <1>5
        <3>2. p = [b EXCEPT !.ready = <<bar>>, !.current = <<NewBar(tick)>>]
            BY <1>5, <1>8, <2>1, <3>1 DEF ProcessBarTick
        <3> QED
            BY <3>2 DEF Holding
    <2> HIDE DEF p
    <2>3. /\ p.ready = <<bar>> /\ p.ready # <<>> /\ Head(p.ready) = bar /\ Tail(p.ready) = <<>>
          /\ [p EXCEPT !.ready = <<>>] = Holding(<<NewBar(tick)>>)
        BY <2>2 DEF Holding
    <2>4. HandOut(p) = [builder |-> Holding(<<NewBar(tick)>>), bars |-> <<bar>>]
        BY <2>3 DEF HandOut
    <2> QED
        BY <1>4, <2>4
<1> QED
    BY <1>4, <1>6, <1>7, <1>8

(* The flush hands out the bar in progress.                                *)
LEMMA Flushed ==
    ASSUME NEW c
    PROVE  Flush(Holding(c)) = [builder |-> Holding(<<>>), bars |-> c]
<1> DEFINE b == Holding(c)
<1>1. b.buffer = <<>> /\ [b EXCEPT !.buffer = <<>>] = b
    BY DEF Holding
<1>2. ProcessBufferedTicks(b) = b
    BY <1>1, BufferedNone
<1>3. b.ready = <<>> /\ b.current = c /\ [b EXCEPT !.current = <<>>] = Holding(<<>>)
    BY DEF Holding
<1> QED
    BY <1>2, <1>3 DEF Flush
-----------------------------------------------------------------------------
(* The ticks so far and the bars due, for any list of ticks *)

TicksOK(s) ==
    /\ s \in Seq(ReaderTicks)
    /\ \A i, j \in 1..Len(s) : i < j => s[i].time <= s[j].time

DueOf(s, symbol) ==
    {IntervalOf(s[i].time) : i \in {j \in DOMAIN s : s[j].symbol = symbol}}

At(s, symbol, time) ==
    {i \in DOMAIN s : s[i].symbol = symbol /\ IntervalOf(s[i].time) = time}

Volumes(s, ticks) == [i \in DOMAIN s |-> IF i \in ticks THEN s[i].volume ELSE 0]

BarOf(s, ticks, symbol, bar) ==
    /\ bar.symbol = symbol
    /\ \E first, last \in ticks :
          /\ \A i \in ticks : first <= i /\ i <= last
          /\ bar.open = s[first].price /\ bar.close = s[last].price
    /\ bar.high \in {s[i].price : i \in ticks} /\ \A i \in ticks : s[i].price <= bar.high
    /\ bar.low \in {s[i].price : i \in ticks} /\ \A i \in ticks : s[i].price >= bar.low
    /\ bar.volume = Total(Volumes(s, ticks))

BarRecords ==
    [symbol : Symbols, time : Nat, open : Nat, high : Nat, low : Nat, close : Nat, volume : Nat]

BarIs(s, symbol, bar) ==
    bar \in BarRecords /\ BarOf(s, At(s, symbol, bar.time), symbol, bar)

(* A tick has its parts.                                                   *)
LEMMA TickFacts ==
    ASSUME NEW tick \in ReaderTicks
    PROVE  /\ tick.time \in Nat /\ tick.price \in Nat /\ tick.volume \in Nat
           /\ tick.symbol \in Symbols /\ IntervalOf(tick.time) \in Nat
BY TicksAssumption, Intervals DEF Symbols

(* s2 is s with one more tick, not before the others.                      *)
Grows(s2, s, tick) ==
    /\ TicksOK(s) /\ tick \in ReaderTicks /\ s2 = Append(s, tick)
    /\ \A i \in 1..Len(s) : s[i].time <= tick.time

(* The parts of a list that has grown.                                     *)
LEMMA Grown ==
    ASSUME NEW s, NEW s2, NEW tick, Grows(s2, s, tick)
    PROVE  /\ TicksOK(s2)
           /\ Len(s) \in Nat /\ DOMAIN s = 1..Len(s) /\ DOMAIN s2 = 1..(Len(s) + 1)
           /\ s2[Len(s) + 1] = tick
           /\ \A i \in 1..Len(s) : s[i] \in ReaderTicks /\ s2[i] = s[i]
           /\ \A i \in 1..(Len(s) + 1) : i = Len(s) + 1 \/ i \in 1..Len(s)
<1> DEFINE n == Len(s)
<1>1. s \in Seq(ReaderTicks) /\ n \in Nat /\ DOMAIN s = 1..n
    BY DEF Grows, TicksOK
<1>2. /\ s2 \in Seq(ReaderTicks) /\ Len(s2) = n + 1 /\ DOMAIN s2 = 1..(n + 1)
      /\ s2[n + 1] = tick /\ \A i \in 1..n : s2[i] = s[i] /\ s[i] \in ReaderTicks
    BY <1>1 DEF Grows
<1> HIDE DEF n
<1>3. \A i \in 1..(n + 1) : i = n + 1 \/ i \in 1..n
    BY <1>1
<1>4. ASSUME NEW i \in 1..(n + 1), NEW j \in 1..(n + 1), i < j
      PROVE  s2[i].time <= s2[j].time
    <2>1. i \in 1..n
        BY <1>1, <1>4
    <2>2. CASE j \in 1..n
        BY <1>2, <1>4, <2>1, <2>2 DEF Grows, TicksOK, n
    <2>3. CASE j = n + 1
        BY <1>2, <2>1, <2>3 DEF Grows, n
    <2> QED
        BY <1>3, <2>2, <2>3
<1> QED
    BY <1>1, <1>2, <1>3, <1>4 DEF TicksOK, n

(* The intervals due grow by the tick's, and none is later.                *)
LEMMA DueGrown ==
    ASSUME NEW s, NEW s2, NEW tick, Grows(s2, s, tick), NEW symbol
    PROVE  /\ symbol # tick.symbol => DueOf(s2, symbol) = DueOf(s, symbol)
           /\ symbol = tick.symbol =>
                 DueOf(s2, symbol) = DueOf(s, symbol) \cup {IntervalOf(tick.time)}
           /\ \A t \in DueOf(s, symbol) : t \in Nat /\ t <= IntervalOf(tick.time)
<1> DEFINE n == Len(s)
<1>1. /\ n \in Nat /\ DOMAIN s = 1..n /\ DOMAIN s2 = 1..(n + 1)
      /\ s2[n + 1] = tick
      /\ \A i \in 1..n : s[i] \in ReaderTicks /\ s2[i] = s[i]
      /\ \A i \in 1..(n + 1) : i = n + 1 \/ i \in 1..n
      /\ \A i \in 1..n : s[i].time <= tick.time
      /\ tick \in ReaderTicks
    BY Grown DEF Grows
<1> HIDE DEF n
<1>2. 1..n \subseteq 1..(n + 1) /\ n + 1 \in 1..(n + 1)
    BY <1>1
<1>3. {j \in DOMAIN s2 : s2[j].symbol = symbol} =
          {j \in DOMAIN s : s[j].symbol = symbol}
             \cup (IF symbol = tick.symbol THEN {n + 1} ELSE {})
    BY <1>1, <1>2
<1>4. DueOf(s2, symbol) =
         DueOf(s, symbol) \cup (IF symbol = tick.symbol THEN {IntervalOf(tick.time)} ELSE {})
    BY <1>1, <1>3 DEF DueOf
<1>5. ASSUME NEW i \in 1..n
      PROVE  IntervalOf(s[i].time) \in Nat /\ IntervalOf(s[i].time) <= IntervalOf(tick.time)
    <2>1. s[i].time \in Nat /\ tick.time \in Nat /\ s[i].time <= tick.time
        BY <1>1, TickFacts
    <2> QED
        BY <2>1, Intervals
<1> QED
    BY <1>1, <1>4, <1>5 DEF DueOf

(* The ticks of an interval grow by the tick if it is of the symbol and    *)
(* the interval.                                                           *)
LEMMA AtGrown ==
    ASSUME NEW s, NEW s2, NEW tick, Grows(s2, s, tick), NEW symbol, NEW time
    PROVE  /\ At(s, symbol, time) \subseteq 1..Len(s)
           /\ symbol # tick.symbol \/ time # IntervalOf(tick.time) =>
                 At(s2, symbol, time) = At(s, symbol, time)
           /\ symbol = tick.symbol /\ time = IntervalOf(tick.time) =>
                 At(s2, symbol, time) = At(s, symbol, time) \cup {Len(s) + 1}
<1> DEFINE n == Len(s)
<1>1. /\ n \in Nat /\ DOMAIN s = 1..n /\ DOMAIN s2 = 1..(n + 1)
      /\ s2[n + 1] = tick
      /\ \A i \in 1..n : s2[i] = s[i]
      /\ \A i \in 1..(n + 1) : i = n + 1 \/ i \in 1..n
    BY Grown
<1> HIDE DEF n
<1>2. 1..n \subseteq 1..(n + 1) /\ n + 1 \in 1..(n + 1)
    BY <1>1
<1> QED
    BY <1>1, <1>2 DEF At, n

(* The volume of a set of ticks, when the list grows by a tick that is not *)
(* in the set, and when it is added to the set.                            *)
VolumesAgree(s2, s, tick, ticks) ==
    /\ Total(Volumes(s, ticks)) \in Nat
    /\ Total(Volumes(s2, ticks)) = Total(Volumes(s, ticks))
    /\ Total(Volumes(s2, ticks \cup {Len(s) + 1})) = Total(Volumes(s, ticks)) + tick.volume
    /\ ticks = {} => Total(Volumes(s, ticks)) = 0

(* They agree for any set of ticks that were there before.                 *)
LEMMA VolumeGrown ==
    ASSUME NEW s, NEW s2, NEW tick, Grows(s2, s, tick), NEW ticks, ticks \subseteq 1..Len(s)
    PROVE  VolumesAgree(s2, s, tick, ticks)
<1> DEFINE n == Len(s)
           m == n + 1
           v == Volumes(s, ticks)
           v2 == Volumes(s2, ticks)
           v3 == Volumes(s2, ticks \cup {m})
<1>1. /\ n \in Nat /\ DOMAIN s = 1..n /\ DOMAIN s2 = 1..m
      /\ s2[m] = tick
      /\ \A i \in 1..n : s[i] \in ReaderTicks /\ s2[i] = s[i]
      /\ \A i \in 1..m : i = m \/ i \in 1..n
    BY Grown
<1>2. \A i \in 1..n : s[i].volume \in Nat
    BY <1>1, TickFacts
<1>3. tick.volume \in Nat
    BY TickFacts DEF Grows
<1>4. ticks \subseteq 1..n /\ m \notin ticks /\ m \in 1..m /\ 1..n \subseteq 1..m
      /\ \A i \in 1..n : i # m /\ i < m
    BY <1>1
<1> HIDE DEF n
<1>5. v \in [1..n -> Nat] /\ v \in [1..n -> Int] /\ v2 \in [1..m -> Int] /\ v3 \in [1..m -> Int]
    BY <1>1, <1>2, <1>3, <1>4 DEF Volumes
<1>6. \A i \in 1..n : v2[i] = v[i] /\ v3[i] = v[i]
    BY <1>1, <1>4 DEF Volumes
<1>7. v2[m] = 0 /\ v3[m] = tick.volume
    BY <1>1, <1>4 DEF Volumes
<1>8. ticks = {} => \A i \in 1..n : v[i] = 0
    BY <1>1 DEF Volumes
<1> HIDE DEF v, v2, v3
<1>9. Inserted(v2, v, n, m) /\ Inserted(v3, v, n, m)
    BY <1>1, <1>4, <1>5, <1>6 DEF Inserted
<1>10. Total(v) \in Nat
    BY <1>1, <1>5, TotalType
<1>11. Total(v2) = Total(v) + v2[m] /\ Total(v3) = Total(v) + v3[m]
    BY <1>1, <1>9, TotalInserted
<1>12. ticks = {} => Total(v) = 0
    BY <1>1, <1>5, <1>8, TotalZero
<1> QED
    BY <1>3, <1>7, <1>10, <1>11, <1>12 DEF VolumesAgree, v, v2, v3, n

(* A bar of ticks that are there no longer alone stays the bar of them.    *)
LEMMA BarStays ==
    ASSUME NEW s, NEW s2, NEW tick, Grows(s2, s, tick), NEW symbol, NEW bar,
           BarIs(s, symbol, bar),
           symbol # tick.symbol \/ bar.time # IntervalOf(tick.time)
    PROVE  BarIs(s2, symbol, bar)
<1> DEFINE P == At(s, symbol, bar.time)
<1>1. P \in SUBSET (1..Len(s)) /\ At(s2, symbol, bar.time) = P
    BY AtGrown
<1>2. Total(Volumes(s2, P)) = Total(Volumes(s, P))
    <2> HIDE DEF P
    <2>1. VolumesAgree(s2, s, tick, P)
        BY <1>1, VolumeGrown
    <2> QED
        BY <2>1 DEF VolumesAgree
<1>3. \A i \in P : s2[i] = s[i]
    BY <1>1, Grown
<1>4. bar \in BarRecords /\ BarOf(s, P, symbol, bar)
    BY DEF BarIs
<1> HIDE DEF P
<1>5. {s2[i].price : i \in P} = {s[i].price : i \in P}
    BY <1>3
<1>6. BarOf(s2, P, symbol, bar)
    BY <1>2, <1>3, <1>4, <1>5 DEF BarOf
<1> QED
    BY <1>1, <1>4, <1>6 DEF BarIs

(* A tick of the bar's interval is added to it.                            *)
LEMMA BarExtended ==
    ASSUME NEW s, NEW s2, NEW tick, Grows(s2, s, tick), NEW bar,
           BarIs(s, tick.symbol, bar), bar.time = IntervalOf(tick.time)
    PROVE  BarIs(s2, tick.symbol, WithTick(bar, tick)) /\ WithTick(bar, tick).time = bar.time
<1> DEFINE P == At(s, tick.symbol, bar.time)
           n == Len(s)
           m == n + 1
           Q == P \cup {m}
           w == WithTick(bar, tick)
           high == IF tick.price > bar.high THEN tick.price ELSE bar.high
           low == IF tick.price < bar.low THEN tick.price ELSE bar.low
           volume == bar.volume + tick.volume
<1>1. /\ P \in SUBSET (1..n) /\ At(s2, tick.symbol, bar.time) = Q
      /\ n \in Nat /\ s2[m] = tick /\ \A i \in 1..n : s2[i] = s[i] /\ s[i] \in ReaderTicks
    BY AtGrown, Grown
<1>2. Total(Volumes(s2, Q)) = Total(Volumes(s, P)) + tick.volume
    <2> HIDE DEF P
    <2>1. VolumesAgree(s2, s, tick, P)
        BY <1>1, VolumeGrown
    <2> QED
        BY <2>1 DEF VolumesAgree
<1>3. bar \in BarRecords /\ BarOf(s, P, tick.symbol, bar)
    BY DEF BarIs
<1>4. /\ tick.price \in Nat /\ tick.volume \in Nat
      /\ \A i \in 1..n : s[i].price \in Nat
    BY <1>1, TickFacts DEF Grows
<1>5. /\ DOMAIN bar = {"symbol", "time", "open", "high", "low", "close", "volume"}
      /\ bar.high \in Nat /\ bar.low \in Nat /\ bar.volume \in Nat
    BY <1>3 DEF BarRecords
<1> HIDE DEF P, n, Q
<1>6. high \in Nat /\ low \in Nat /\ volume \in Nat
    BY <1>4, <1>5
<1>7. w = [bar EXCEPT !.high = high, !.low = low, !.close = tick.price, !.volume = volume]
    BY <1>5 DEF WithTick
<1> HIDE DEF w, high, low, volume
<1>8. /\ w \in BarRecords
      /\ w.symbol = bar.symbol /\ w.time = bar.time /\ w.open = bar.open
      /\ w.high = high /\ w.low = low /\ w.close = tick.price /\ w.volume = volume
    BY <1>3, <1>4, <1>5, <1>6, <1>7 DEF BarRecords
<1>9. /\ \A i \in Q : i = m \/ i \in P
      /\ P \subseteq Q /\ m \in Q /\ P \subseteq 1..n
      /\ \A i \in P : i \in Nat /\ i < m /\ s2[i] = s[i] /\ s[i].price \in Nat
    BY <1>1, <1>4 DEF Q
<1>10. \E first, last \in Q : /\ \A i \in Q : first <= i /\ i <= last
                              /\ w.open = s2[first].price /\ w.close = s2[last].price
    <2>1. PICK first \in P : (\A i \in P : first <= i) /\ bar.open = s[first].price
        BY <1>3 DEF BarOf
    <2>2. \A i \in Q : first <= i /\ i <= m
        BY <1>1, <1>9, <2>1
    <2>3. first \in Q /\ m \in Q /\ w.open = s2[first].price /\ w.close = s2[m].price
        BY <1>1, <1>8, <1>9, <2>1
    <2> QED
        BY <2>2, <2>3
<1>11. /\ w.high \in {s2[i].price : i \in Q} /\ \A i \in Q : s2[i].price <= w.high
    <2>1. bar.high \in {s[i].price : i \in P} /\ \A i \in P : s[i].price <= bar.high
        BY <1>3 DEF BarOf
    <2>2. high \in {s2[i].price : i \in Q}
        BY <1>1, <1>9, <2>1 DEF high
    <2>3. high >= tick.price /\ high >= bar.high
        BY <1>4, <1>5 DEF high
    <2>4. \A i \in Q : s2[i].price <= high
        BY <1>1, <1>4, <1>5, <1>6, <1>9, <2>1, <2>3
    <2> QED
        BY <1>8, <2>2, <2>4
<1>12. /\ w.low \in {s2[i].price : i \in Q} /\ \A i \in Q : s2[i].price >= w.low
    <2>1. bar.low \in {s[i].price : i \in P} /\ \A i \in P : s[i].price >= bar.low
        BY <1>3 DEF BarOf
    <2>2. low \in {s2[i].price : i \in Q}
        BY <1>1, <1>9, <2>1 DEF low
    <2>3. low <= tick.price /\ low <= bar.low
        BY <1>4, <1>5 DEF low
    <2>4. \A i \in Q : s2[i].price >= low
        BY <1>1, <1>4, <1>5, <1>6, <1>9, <2>1, <2>3
    <2> QED
        BY <1>8, <2>2, <2>4
<1>13. w.volume = Total(Volumes(s2, Q))
    BY <1>2, <1>3, <1>8 DEF BarOf, volume
<1>14. w.symbol = tick.symbol
    BY <1>3, <1>8 DEF BarOf
<1>15. BarOf(s2, Q, tick.symbol, w)
    BY <1>10, <1>11, <1>12, <1>13, <1>14 DEF BarOf
<1> QED
    BY <1>1, <1>8, <1>15 DEF BarIs, w

(* The first tick of an interval makes a bar by itself.                    *)
LEMMA BarStarted ==
    ASSUME NEW s, NEW s2, NEW tick, Grows(s2, s, tick),
           IntervalOf(tick.time) \notin DueOf(s, tick.symbol)
    PROVE  BarIs(s2, tick.symbol, NewBar(tick)) /\ NewBar(tick).time = IntervalOf(tick.time)
<1> DEFINE time == IntervalOf(tick.time)
           m == Len(s) + 1
           w == NewBar(tick)
<1>1. /\ Len(s) \in Nat /\ s2[m] = tick
      /\ At(s2, tick.symbol, time) = At(s, tick.symbol, time) \cup {m}
    BY AtGrown, Grown
<1>2. At(s, tick.symbol, time) = {}
    BY DEF At, DueOf
<1>3. At(s2, tick.symbol, time) = {m}
    BY <1>1, <1>2
<1>4. /\ tick.price \in Nat /\ tick.volume \in Nat /\ tick.symbol \in Symbols /\ time \in Nat
    BY TickFacts DEF Grows
<1>5. Total(Volumes(s2, {m})) = tick.volume
    <2> DEFINE none == {}
    <2>1. none \in SUBSET (1..Len(s)) /\ none = {} /\ none \cup {m} = {m}
        OBVIOUS
    <2> HIDE DEF none
    <2>2. VolumesAgree(s2, s, tick, none)
        BY <2>1, VolumeGrown
    <2>3. /\ Total(Volumes(s2, none \cup {m})) = Total(Volumes(s, none)) + tick.volume
          /\ Total(Volumes(s, none)) = 0
        BY <2>1, <2>2 DEF VolumesAgree
    <2> QED
        BY <1>4, <2>1, <2>3
<1>6. /\ w.symbol = tick.symbol /\ w.time = time /\ w.open = tick.price /\ w.high = tick.price
      /\ w.low = tick.price /\ w.close = tick.price /\ w.volume = tick.volume
      /\ w \in BarRecords
    BY <1>4 DEF NewBar, BarRecords
<1> HIDE DEF w, time
<1>7. BarOf(s2, {m}, tick.symbol, w)
    BY <1>1, <1>4, <1>5, <1>6 DEF BarOf
<1> QED
    BY <1>3, <1>6, <1>7 DEF BarIs, w, time
-----------------------------------------------------------------------------
(* The inductive invariant *)

(* The builder holds the bar of the last interval due, if any is due.      *)
Building(s, symbol, b) ==
    \/ DueOf(s, symbol) = {} /\ b = Holding(<<>>)
    \/ \E bar : /\ b = Holding(<<bar>>) /\ BarIs(s, symbol, bar)
                /\ bar.time \in DueOf(s, symbol)
                /\ \A t \in DueOf(s, symbol) : t <= bar.time

(* The bars handed over are bars due, in order.                            *)
BarsOK(s, symbol, bars) ==
    /\ bars \in Seq(BarRecords)
    /\ \A i, j \in 1..Len(bars) : i < j => bars[i].time < bars[j].time
    /\ \A i \in 1..Len(bars) : BarIs(s, symbol, bars[i]) /\ bars[i].time \in DueOf(s, symbol)

Times(bars) == {bars[i].time : i \in DOMAIN bars}

IsLast(t, due) == t \in due /\ \A u \in due : u <= t

(* What has been handed over: all that is due but the bar in progress, or  *)
(* but that and the one that the strategy's exception cost; or, at the     *)
(* end, all, or all but that one.                                          *)
LacksLast(due, handed) ==
    \/ due = {} /\ handed = {}
    \/ \E last : IsLast(last, due) /\ handed = due \ {last}

LacksTwo(due, handed) ==
    \E last, lost : IsLast(last, due) /\ IsLast(lost, due \ {last}) /\ handed = due \ {last, lost}

LacksLost(due, handed) ==
    \E last, lost : IsLast(last, due) /\ IsLast(lost, due \ {last}) /\ handed = due \ {lost}

HandedOver(due, handed) ==
    /\ phase = "running" => LacksLast(due, handed)
    /\ phase = "aborted" => threw /\ (LacksLast(due, handed) \/ LacksTwo(due, handed))
    /\ phase = "done" => handed = due \/ (threw /\ LacksLost(due, handed))

SymbolOK(symbol) ==
    /\ DueOf(seen, symbol) # {} => symbol \in registered
    /\ phase # "done" => Building(seen, symbol, builders[symbol])
    /\ BarsOK(seen, symbol, routed[symbol])
    /\ HandedOver(DueOf(seen, symbol), Times(routed[symbol]))

LoopOK ==
    /\ phase \in {"running", "aborted", "done"}
    /\ TicksOK(seen)
    /\ DOMAIN builders = Symbols /\ DOMAIN routed = Symbols
    /\ \A symbol \in Symbols : SymbolOK(symbol)

(* A run starts with nothing due and nothing handed over.                  *)
LEMMA LoopInitOK == LoopInit => LoopOK
<1> SUFFICES ASSUME LoopInit PROVE LoopOK
    OBVIOUS
<1>1. TicksOK(seen)
    BY DEF LoopInit, TicksOK
<1>2. ASSUME NEW symbol \in Symbols PROVE SymbolOK(symbol)
    <2>1. DueOf(seen, symbol) = {}
        BY DEF LoopInit, DueOf
    <2>2. builders[symbol] = Holding(<<>>) /\ routed[symbol] = <<>> /\ phase = "running"
        BY DEF LoopInit, NewBuilder, Holding
    <2>3. BarsOK(seen, symbol, <<>>) /\ Times(<<>>) = {}
        BY DEF BarsOK, Times
    <2> QED
        BY <2>1, <2>2, <2>3 DEF SymbolOK, Building, HandedOver, LacksLast
<1> QED
    BY <1>1, <1>2 DEF LoopOK, LoopInit

(* A tick of another symbol changes nothing for a symbol.                  *)
LEMMA OtherSymbol ==
    ASSUME NEW s, NEW s2, NEW tick, Grows(s2, s, tick), NEW symbol, symbol # tick.symbol
    PROVE  /\ DueOf(s2, symbol) = DueOf(s, symbol)
           /\ \A b : Building(s, symbol, b) => Building(s2, symbol, b)
           /\ \A bars : BarsOK(s, symbol, bars) => BarsOK(s2, symbol, bars)
<1>1. DueOf(s2, symbol) = DueOf(s, symbol)
    BY DueGrown
<1>2. \A bar : BarIs(s, symbol, bar) => BarIs(s2, symbol, bar)
    BY BarStays
<1> QED
    BY <1>1, <1>2 DEF Building, BarsOK

(* What a tick does for its own symbol: the builder takes it, and hands    *)
(* out the bar before if it starts a new one.                              *)
TickTaken(s, s2, tick, b, bars) ==
    LET due == DueOf(s, tick.symbol)
        time == IntervalOf(tick.time)
        new == AddTick(b, tick)
    IN  /\ Building(s2, tick.symbol, new.builder)
        /\ BarsOK(s2, tick.symbol, bars)
        /\ \/ /\ new.bars = <<>>
              /\ due = {} \/ IsLast(time, due)
           \/ \E bar : /\ new.bars = <<bar>> /\ BarIs(s2, tick.symbol, bar)
                       /\ IsLast(bar.time, due) /\ bar.time < time

(* The builder takes every tick so.                                        *)
LEMMA TickTakes ==
    ASSUME NEW s, NEW s2, NEW tick, Grows(s2, s, tick), NEW b, Building(s, tick.symbol, b),
           NEW bars, BarsOK(s, tick.symbol, bars), LacksLast(DueOf(s, tick.symbol), Times(bars))
    PROVE  TickTaken(s, s2, tick, b, bars)
<1> DEFINE symbol == tick.symbol
           due == DueOf(s, symbol)
           due2 == DueOf(s2, symbol)
           time == IntervalOf(tick.time)
           new == AddTick(b, tick)
<1>1. /\ due2 = due \cup {time} /\ \A t \in due : t \in Nat /\ t <= time
      /\ time \in Nat /\ tick.time \in Nat
    <2>1. tick \in ReaderTicks
        BY DEF Grows
    <2>2. time \in Nat /\ tick.time \in Nat
        BY <2>1, TickFacts
    <2>3. due2 = due \cup {time} /\ \A t \in due : t \in Nat /\ t <= time
        BY DueGrown
    <2> QED
        BY <2>2, <2>3
<1>2. \A bar : BarIs(s, symbol, bar) /\ bar.time # time => BarIs(s2, symbol, bar)
    BY BarStays
<1>3. BarsOK(s2, symbol, bars)
    <2>1. ASSUME NEW i \in 1..Len(bars) PROVE BarIs(s2, symbol, bars[i])
        <3>1. bars[i].time \in Times(bars) /\ BarIs(s, symbol, bars[i])
            BY DEF BarsOK, Times
        <3>2. PICK last : IsLast(last, due) /\ Times(bars) = due \ {last}
            BY <3>1 DEF LacksLast
        <3>3. bars[i].time \in Nat /\ last \in Nat /\ bars[i].time < last /\ last <= time
            BY <1>1, <3>1, <3>2 DEF IsLast
        <3>4. bars[i].time # time
            BY <1>1, <3>3
        <3> QED
            BY <1>2, <3>1, <3>4
    <2> QED
        BY <1>1, <2>1 DEF BarsOK
<1>4. CASE due = {} /\ b = Holding(<<>>)
    <2>1. new = [builder |-> Holding(<<NewBar(tick)>>), bars |-> <<>>]
        BY <1>1, <1>4, Added
    <2>2. BarIs(s2, symbol, NewBar(tick)) /\ NewBar(tick).time = time
        BY <1>4, BarStarted
    <2>3. Building(s2, symbol, new.builder)
        BY <1>1, <1>4, <2>1, <2>2 DEF Building
    <2> QED
        BY <1>3, <1>4, <2>1, <2>3 DEF TickTaken
<1>5. ASSUME NEW bar, b = Holding(<<bar>>), BarIs(s, symbol, bar), bar.time \in due,
             \A t \in due : t <= bar.time
      PROVE  TickTaken(s, s2, tick, b, bars)
    <2>1. Belongs(tick, bar) <=> time = bar.time
        <3>1. PICK i \in DOMAIN s : bar.time = IntervalOf(s[i].time)
            BY <1>5 DEF DueOf
        <3>2. s[i].time \in Nat
            BY <3>1, Grown, TickFacts
        <3> QED
            BY <1>1, <3>1, <3>2, Intervals DEF Belongs
    <2>2. IsLast(bar.time, due)
        BY <1>5 DEF IsLast
    <2>3. CASE Belongs(tick, bar)
        <3>1. new = [builder |-> Holding(<<WithTick(bar, tick)>>), bars |-> <<>>]
            BY <1>1, <1>5, <2>3, Added
        <3>2. BarIs(s2, symbol, WithTick(bar, tick)) /\ WithTick(bar, tick).time = time
            BY <1>5, <2>1, <2>3, BarExtended
        <3>3. Building(s2, symbol, new.builder)
            BY <1>1, <3>1, <3>2 DEF Building
        <3> QED
            BY <1>3, <2>1, <2>2, <2>3, <3>1, <3>3 DEF TickTaken
    <2>4. CASE ~Belongs(tick, bar)
        <3>1. new = [builder |-> Holding(<<NewBar(tick)>>), bars |-> <<bar>>]
            BY <1>1, <1>5, <2>4, Added
        <3>2. bar.time \in Nat /\ bar.time < time
            BY <1>1, <1>5, <2>1, <2>4
        <3>3. time \notin due
            BY <1>1, <1>5, <3>2
        <3>4. BarIs(s2, symbol, NewBar(tick)) /\ NewBar(tick).time = time
            BY <3>3, BarStarted
        <3>5. Building(s2, symbol, new.builder)
            BY <1>1, <3>1, <3>4 DEF Building
        <3>6. BarIs(s2, symbol, bar)
            BY <1>1, <1>2, <1>5, <3>2
        <3> QED
            BY <1>3, <2>2, <3>1, <3>2, <3>5, <3>6 DEF TickTaken
    <2> QED
        BY <2>3, <2>4
<1> QED
    BY <1>4, <1>5 DEF Building

(* The intervals due are numbers.                                          *)
LEMMA DueNumbers ==
    ASSUME NEW s, TicksOK(s), NEW symbol
    PROVE  DueOf(s, symbol) \subseteq Nat
<1>1. DOMAIN s = 1..Len(s) /\ \A i \in 1..Len(s) : s[i] \in ReaderTicks
    BY DEF TicksOK
<1> QED
    BY <1>1, TickFacts DEF DueOf

(* A later bar goes to the end.                                            *)
LEMMA BarAppended ==
    ASSUME NEW s, NEW symbol, NEW bars, BarsOK(s, symbol, bars),
           NEW bar, BarIs(s, symbol, bar), bar.time \in DueOf(s, symbol),
           \A t \in Times(bars) : t < bar.time
    PROVE  /\ BarsOK(s, symbol, bars \o <<bar>>)
           /\ Times(bars \o <<bar>>) = Times(bars) \cup {bar.time}
<1> DEFINE n == Len(bars)
           more == bars \o <<bar>>
<1>1. bars \in Seq(BarRecords) /\ n \in Nat /\ DOMAIN bars = 1..n /\ bar \in BarRecords
    BY DEF BarsOK, BarIs
<1>2. /\ more \in Seq(BarRecords) /\ Len(more) = n + 1 /\ DOMAIN more = 1..(n + 1)
      /\ more[n + 1] = bar /\ \A i \in 1..n : more[i] = bars[i]
    BY <1>1
<1> HIDE DEF n, more
<1>3. /\ \A i \in 1..(n + 1) : i = n + 1 \/ i \in 1..n
      /\ 1..n \subseteq 1..(n + 1) /\ n + 1 \in 1..(n + 1)
    BY <1>1
<1>4. Times(more) = Times(bars) \cup {bar.time}
    BY <1>1, <1>2, <1>3 DEF Times
<1>5. ASSUME NEW i \in 1..(n + 1), NEW j \in 1..(n + 1), i < j
      PROVE  more[i].time < more[j].time
    <2>1. i \in 1..n
        BY <1>1, <1>5
    <2>2. CASE j \in 1..n
        BY <1>2, <1>5, <2>1, <2>2 DEF BarsOK, n
    <2>3. CASE j = n + 1
        <3>1. bars[i].time \in Times(bars)
            BY <1>1, <2>1 DEF Times
        <3> QED
            BY <1>2, <2>1, <2>3, <3>1
    <2> QED
        BY <1>3, <2>2, <2>3
<1>6. ASSUME NEW i \in 1..(n + 1)
      PROVE  BarIs(s, symbol, more[i]) /\ more[i].time \in DueOf(s, symbol)
    <2>1. CASE i \in 1..n
        BY <1>2, <2>1 DEF BarsOK, n
    <2>2. CASE i = n + 1
        BY <1>2, <2>2
    <2> QED
        BY <1>3, <2>1, <2>2
<1>7. BarsOK(s, symbol, more)
    BY <1>2, <1>5, <1>6 DEF BarsOK
<1> QED
    BY <1>4, <1>7 DEF more

(* The next tick is added to those before it.                              *)
LEMMA NextGrows ==
    ASSUME TicksOK(seen), NEW tick \in ReaderTicks, IsNext(tick), seen' = Append(seen, tick)
    PROVE  Grows(seen', seen, tick)
<1> DEFINE n == Len(seen)
<1>1. /\ n \in Nat /\ seen \in Seq(ReaderTicks)
      /\ \A i \in 1..n : seen[i].time \in Nat
      /\ tick.time \in Nat
    BY TickFacts DEF TicksOK
<1>2. ASSUME NEW i \in 1..n PROVE seen[i].time <= tick.time
    <2>1. seen # <<>> /\ n \in 1..n
        BY <1>1
    <2>2. seen[n].time <= tick.time
        BY <2>1 DEF IsNext, Last
    <2>3. i = n \/ i < n
        BY <1>1
    <2>4. seen[i].time <= seen[n].time
        BY <1>1, <2>1, <2>3 DEF TicksOK
    <2> QED
        BY <1>1, <2>1, <2>2, <2>4
<1> QED
    BY <1>2 DEF Grows

(* For the symbols of other ticks nothing changes, also if the strategy    *)
(* throws.                                                                 *)
LEMMA OthersKeep ==
    ASSUME NEW tick, Grows(seen', seen, tick), NEW symbol, symbol # tick.symbol,
           SymbolOK(symbol), phase = "running", phase' = "running" \/ (phase' = "aborted" /\ threw'),
           builders'[symbol] = builders[symbol], routed'[symbol] = routed[symbol],
           registered \subseteq registered'
    PROVE  SymbolOK(symbol)'
<1>1. /\ DueOf(seen', symbol) = DueOf(seen, symbol)
      /\ Building(seen, symbol, builders[symbol]) => Building(seen', symbol, builders[symbol])
      /\ BarsOK(seen, symbol, routed[symbol]) => BarsOK(seen', symbol, routed[symbol])
    BY OtherSymbol
<1>2. /\ Building(seen, symbol, builders[symbol]) /\ BarsOK(seen, symbol, routed[symbol])
      /\ LacksLast(DueOf(seen, symbol), Times(routed[symbol]))
      /\ DueOf(seen, symbol) # {} => symbol \in registered
    BY DEF SymbolOK, HandedOver
<1>3. HandedOver(DueOf(seen, symbol), Times(routed[symbol]))'
    <2>1. LacksLast(DueOf(seen', symbol), Times(routed'[symbol]))
        BY <1>1, <1>2
    <2> QED
        BY <2>1 DEF HandedOver
<1> QED
    BY <1>1, <1>2, <1>3 DEF SymbolOK

(* A symbol's tick when the strategy does not throw: what the builder      *)
(* hands out goes to the strategy.                                         *)
LEMMA OwnHandled ==
    ASSUME NEW tick, Grows(seen', seen, tick), NEW symbol, symbol = tick.symbol,
           SymbolOK(symbol), phase = "running", phase' = "running",
           NEW new, new = AddTick(builders[symbol], tick), builders'[symbol] = new.builder,
           routed'[symbol] = routed[symbol] \o new.bars, symbol \in registered'
    PROVE  SymbolOK(symbol)'
<1> DEFINE due == DueOf(seen, symbol)
           time == IntervalOf(tick.time)
           bars == routed[symbol]
<1>1. /\ Building(seen, symbol, builders[symbol]) /\ BarsOK(seen, symbol, bars)
      /\ LacksLast(due, Times(bars))
    BY DEF SymbolOK, HandedOver
<1>2. TickTaken(seen, seen', tick, builders[symbol], bars)
    BY <1>1, TickTakes
<1>3. DueOf(seen', symbol) = due \cup {time} /\ \A t \in due : t \in Nat /\ t <= time
    BY DueGrown
<1>4. time \in Nat
    BY TickFacts DEF Grows
<1>5. Building(seen', symbol, new.builder) /\ BarsOK(seen', symbol, bars)
    BY <1>2 DEF TickTaken
<1>6. CASE new.bars = <<>> /\ (due = {} \/ IsLast(time, due))
    <2>1. routed'[symbol] = bars
        BY <1>1, <1>6 DEF BarsOK
    <2>2. LacksLast(due \cup {time}, Times(bars))
        BY <1>1, <1>4, <1>6 DEF LacksLast, IsLast
    <2> QED
        BY <1>3, <1>5, <2>1, <2>2 DEF SymbolOK, HandedOver
<1>7. ASSUME NEW bar, new.bars = <<bar>>, BarIs(seen', symbol, bar), IsLast(bar.time, due),
             bar.time < time
      PROVE  SymbolOK(symbol)'
    <2>1. Times(bars) = due \ {bar.time}
        <3>1. PICK last : IsLast(last, due) /\ Times(bars) = due \ {last}
            BY <1>1, <1>7 DEF LacksLast, IsLast
        <3>2. last = bar.time
            BY <1>3, <1>7, <3>1 DEF IsLast
        <3> QED
            BY <3>1, <3>2
    <2>2. \A t \in Times(bars) : t < bar.time
        BY <1>3, <1>7, <2>1 DEF IsLast
    <2>3. /\ BarsOK(seen', symbol, bars \o <<bar>>)
          /\ Times(bars \o <<bar>>) = Times(bars) \cup {bar.time}
        BY <1>3, <1>5, <1>7, <2>2, BarAppended DEF IsLast
    <2>4. Times(routed'[symbol]) = due
        BY <1>7, <2>1, <2>3 DEF IsLast
    <2>5. IsLast(time, due \cup {time}) /\ due = (due \cup {time}) \ {time}
        BY <1>3, <1>4, <1>7 DEF IsLast
    <2>6. LacksLast(due \cup {time}, due)
        BY <2>5 DEF LacksLast
    <2> QED
        BY <1>3, <1>5, <1>7, <2>3, <2>4, <2>6 DEF SymbolOK, HandedOver
<1> QED
    BY <1>2, <1>6, <1>7 DEF TickTaken

(* A symbol's tick when the strategy throws: what the builder hands out is *)
(* lost.                                                                   *)
LEMMA OwnThrown ==
    ASSUME NEW tick, Grows(seen', seen, tick), NEW symbol, symbol = tick.symbol,
           SymbolOK(symbol), phase = "running", phase' = "aborted", threw',
           NEW new, new = AddTick(builders[symbol], tick), builders'[symbol] = new.builder,
           routed'[symbol] = routed[symbol], symbol \in registered'
    PROVE  SymbolOK(symbol)'
<1> DEFINE due == DueOf(seen, symbol)
           time == IntervalOf(tick.time)
           bars == routed[symbol]
<1>1. /\ Building(seen, symbol, builders[symbol]) /\ BarsOK(seen, symbol, bars)
      /\ LacksLast(due, Times(bars))
    BY DEF SymbolOK, HandedOver
<1>2. TickTaken(seen, seen', tick, builders[symbol], bars)
    BY <1>1, TickTakes
<1>3. DueOf(seen', symbol) = due \cup {time} /\ \A t \in due : t \in Nat /\ t <= time
    BY DueGrown
<1>4. time \in Nat
    BY TickFacts DEF Grows
<1>5. Building(seen', symbol, new.builder) /\ BarsOK(seen', symbol, bars)
    BY <1>2 DEF TickTaken
<1>6. CASE due = {} \/ IsLast(time, due)
    <2>1. LacksLast(due \cup {time}, Times(bars))
        BY <1>1, <1>4, <1>6 DEF LacksLast, IsLast
    <2> QED
        BY <1>3, <1>5, <2>1 DEF SymbolOK, HandedOver
<1>7. ASSUME NEW bar, IsLast(bar.time, due), bar.time < time
      PROVE  SymbolOK(symbol)'
    <2>1. Times(bars) = due \ {bar.time}
        <3>1. PICK last : IsLast(last, due) /\ Times(bars) = due \ {last}
            BY <1>1, <1>7 DEF LacksLast, IsLast
        <3>2. last = bar.time
            BY <1>3, <1>7, <3>1 DEF IsLast
        <3> QED
            BY <3>1, <3>2
    <2>2. IsLast(time, due \cup {time}) /\ due = (due \cup {time}) \ {time}
        BY <1>3, <1>4, <1>7 DEF IsLast
    <2>3. Times(bars) = (due \cup {time}) \ {time, bar.time}
        BY <2>1, <2>2
    <2>4. LacksTwo(due \cup {time}, Times(bars))
        <3> DEFINE due2 == due \cup {time}
                   handed == Times(bars)
                   lost == bar.time
        <3> HIDE DEF due2, handed, lost, due, time
        <3>1. IsLast(time, due2) /\ IsLast(lost, due2 \ {time}) /\ handed = due2 \ {time, lost}
            <4>1. IsLast(lost, due) /\ due2 \ {time} = due
                BY <1>7, <2>2 DEF due2, lost
            <4> QED
                BY <2>2, <2>3, <4>1 DEF due2, handed, lost
        <3>2. LacksTwo(due2, handed)
            BY ONLY <3>1 DEF LacksTwo
        <3> QED
            BY <3>2 DEF due2, handed
    <2> QED
        BY <1>3, <1>5, <2>4 DEF SymbolOK, HandedOver
<1> QED
    BY <1>2, <1>6, <1>7 DEF TickTaken

(* The flush hands over the bars in progress.                              *)
LEMMA FlushKeeps ==
    ASSUME NEW symbol \in Symbols, TicksOK(seen), SymbolOK(symbol), FlushAll
    PROVE  SymbolOK(symbol)'
<1> DEFINE due == DueOf(seen, symbol)
           bars == routed[symbol]
           b == builders[symbol]
<1>1. /\ phase \in {"running", "aborted"} /\ phase' = "done"
      /\ seen' = seen /\ registered' = registered /\ threw' = threw
      /\ routed'[symbol] = IF symbol \in registered THEN bars \o Flush(b).bars ELSE bars
    BY DEF FlushAll, RouteBar
<1>2. /\ Building(seen, symbol, b) /\ BarsOK(seen, symbol, bars)
      /\ LacksLast(due, Times(bars)) \/ (threw /\ LacksTwo(due, Times(bars)))
      /\ due # {} => symbol \in registered
    BY <1>1 DEF SymbolOK, HandedOver
<1>3. CASE due = {} /\ b = Holding(<<>>)
    <2>1. Flush(b).bars = <<>>
        BY <1>3, Flushed
    <2>2. routed'[symbol] = bars
        BY <1>1, <1>2, <2>1 DEF BarsOK
    <2>3. Times(bars) = due
        BY <1>2, <1>3 DEF LacksLast, LacksTwo, IsLast
    <2> QED
        BY <1>1, <1>2, <2>2, <2>3 DEF SymbolOK, HandedOver
<1>4. ASSUME NEW bar, b = Holding(<<bar>>), BarIs(seen, symbol, bar), bar.time \in due,
             \A t \in due : t <= bar.time
      PROVE  SymbolOK(symbol)'
    <2>1. Flush(b).bars = <<bar>>
        BY <1>4, Flushed
    <2>2. routed'[symbol] = bars \o <<bar>>
        BY <1>1, <1>2, <1>4, <2>1
    <2>3. due \subseteq Nat
        BY DueNumbers
    <2>4. \A last : IsLast(last, due) => last = bar.time
        BY <1>4, <2>3 DEF IsLast
    <2>5. \A t \in Times(bars) : t \in due /\ t # bar.time
        <3>1. CASE LacksLast(due, Times(bars))
            BY <1>4, <2>4, <3>1 DEF LacksLast
        <3>2. CASE LacksTwo(due, Times(bars))
            BY <2>4, <3>2 DEF LacksTwo
        <3> QED
            BY <1>2, <3>1, <3>2
    <2>6. \A t \in Times(bars) : t < bar.time
        BY <1>4, <2>3, <2>5
    <2>7. /\ BarsOK(seen, symbol, bars \o <<bar>>)
          /\ Times(bars \o <<bar>>) = Times(bars) \cup {bar.time}
        BY <1>2, <1>4, <2>6, BarAppended
    <2>8. \/ Times(bars) \cup {bar.time} = due
          \/ threw /\ LacksLost(due, Times(bars) \cup {bar.time})
        <3>1. CASE LacksLast(due, Times(bars))
            BY <1>4, <2>4, <3>1 DEF LacksLast
        <3>2. CASE threw /\ LacksTwo(due, Times(bars))
            <4>1. PICK last, lost : /\ IsLast(last, due) /\ IsLast(lost, due \ {last})
                                    /\ Times(bars) = due \ {last, lost}
                BY <3>2 DEF LacksTwo
            <4>2. last = bar.time /\ lost \in due /\ lost # last
                BY <2>4, <4>1 DEF IsLast
            <4>3. Times(bars) \cup {bar.time} = due \ {lost}
                BY <1>4, <4>1, <4>2
            <4> QED
                BY <3>2, <4>1, <4>3 DEF LacksLost
        <3> QED
            BY <1>2, <3>1, <3>2
    <2> QED
        BY <1>1, <1>2, <2>2, <2>7, <2>8 DEF SymbolOK, HandedOver
<1> QED
    BY <1>2, <1>3, <1>4 DEF Building

(* Every step keeps the invariant.                                         *)
LEMMA LoopStep ==
    ASSUME LoopOK, [LoopNext]_loopVars
    PROVE  LoopOK'
<1>1. ASSUME NEW tick \in ReaderTicks, HandleTick(tick) PROVE LoopOK'
    <2>1. /\ Grows(seen', seen, tick) /\ TicksOK(seen')
          /\ tick.symbol \in Symbols
        BY <1>1, NextGrows, Grown DEF LoopOK, HandleTick, Feed, Symbols
    <2>2. /\ phase = "running" /\ phase' = "running" /\ threw' = threw
          /\ registered' = registered \cup {tick.symbol}
          /\ DOMAIN builders' = Symbols /\ DOMAIN routed' = Symbols
          /\ builders'[tick.symbol] = AddTick(builders[tick.symbol], tick).builder
          /\ routed'[tick.symbol] =
                routed[tick.symbol] \o AddTick(builders[tick.symbol], tick).bars
          /\ \A symbol \in Symbols : symbol # tick.symbol =>
                builders'[symbol] = builders[symbol] /\ routed'[symbol] = routed[symbol]
        BY <1>1, <2>1 DEF LoopOK, HandleTick, Feed, RouteBar
    <2>3. ASSUME NEW symbol \in Symbols PROVE SymbolOK(symbol)'
        <3>1. SymbolOK(symbol)
            BY DEF LoopOK
        <3>2. CASE symbol = tick.symbol
            BY <2>1, <2>2, <3>1, <3>2, OwnHandled
        <3>3. CASE symbol # tick.symbol
            BY <2>1, <2>2, <3>1, <3>3, OthersKeep
        <3> QED
            BY <3>2, <3>3
    <2> QED
        BY <2>1, <2>2, <2>3 DEF LoopOK
<1>2. ASSUME NEW tick \in ReaderTicks, StrategyThrows(tick) PROVE LoopOK'
    <2>1. /\ Grows(seen', seen, tick) /\ TicksOK(seen')
          /\ tick.symbol \in Symbols
        BY <1>2, NextGrows, Grown DEF LoopOK, StrategyThrows, Feed, Symbols
    <2>2. /\ phase = "running" /\ phase' = "aborted" /\ threw'
          /\ registered' = registered \cup {tick.symbol}
          /\ DOMAIN builders' = Symbols /\ routed' = routed
          /\ builders'[tick.symbol] = AddTick(builders[tick.symbol], tick).builder
          /\ \A symbol \in Symbols : symbol # tick.symbol =>
                builders'[symbol] = builders[symbol]
        BY <1>2, <2>1 DEF LoopOK, StrategyThrows, Feed
    <2>3. ASSUME NEW symbol \in Symbols PROVE SymbolOK(symbol)'
        <3>1. SymbolOK(symbol)
            BY DEF LoopOK
        <3>2. CASE symbol = tick.symbol
            BY <2>1, <2>2, <3>1, <3>2, OwnThrown
        <3>3. CASE symbol # tick.symbol
            BY <2>1, <2>2, <3>1, <3>3, OthersKeep
        <3> QED
            BY <3>2, <3>3
    <2> QED
        BY <2>1, <2>2, <2>3 DEF LoopOK
<1>3. CASE FlushAll
    <2>1. ASSUME NEW symbol \in Symbols PROVE SymbolOK(symbol)'
        BY <1>3, FlushKeeps DEF LoopOK
    <2>2. /\ phase' = "done" /\ seen' = seen
          /\ DOMAIN builders' = Symbols /\ DOMAIN routed' = Symbols
        BY <1>3 DEF FlushAll
    <2> QED
        BY <2>1, <2>2 DEF LoopOK
<1>4. CASE UNCHANGED loopVars
    BY <1>4 DEF LoopOK, SymbolOK, HandedOver, loopVars
<1> QED
    BY <1>1, <1>2, <1>3, <1>4 DEF LoopNext

(* The invariant holds in every state.                                     *)
THEOREM BarsInHand == LoopSpec => []LoopOK
<1> QED
    BY LoopInitOK, LoopStep, PTL DEF LoopSpec
-----------------------------------------------------------------------------
(* The properties *)

(* In the properties' words.                                               *)
LEMMA SameWords ==
    ASSUME NEW symbol
    PROVE  /\ Due(symbol) = DueOf(seen, symbol) /\ Handed(symbol) = Times(routed[symbol])
           /\ Missing(symbol) = DueOf(seen, symbol) \ Times(routed[symbol])
           /\ \A bar : BarIs(seen, symbol, bar) => IsBarOf(symbol, bar)
<1>1. ASSUME NEW bar, BarIs(seen, symbol, bar) PROVE IsBarOf(symbol, bar)
    <2> DEFINE P == At(seen, symbol, bar.time)
    <2>1. TicksIn(symbol, bar.time) = P
        BY DEF TicksIn, At
    <2>2. BarOf(seen, P, symbol, bar)
        BY <1>1 DEF BarIs
    <2> HIDE DEF P
    <2>3. Volumes(seen, P) = [i \in DOMAIN seen |-> IF i \in P THEN seen[i].volume ELSE 0]
        BY DEF Volumes
    <2>4. /\ \A price \in {seen[i].price : i \in P} : price <= bar.high
          /\ \A price \in {seen[i].price : i \in P} : price >= bar.low
        BY <2>2 DEF BarOf
    <2> QED
        BY <2>1, <2>2, <2>3, <2>4 DEF IsBarOf, BarOf
<1> QED
    BY <1>1 DEF Due, DueOf, Handed, Times, Missing

(* What the strategy lacks: the last bar due, or the last but one, or      *)
(* both.                                                                   *)
LEMMA Lacking ==
    ASSUME LoopOK, NEW symbol \in Symbols
    PROVE  LET due == DueOf(seen, symbol)
               missing == Missing(symbol)
           IN  /\ due \subseteq Nat /\ Handed(symbol) = due \ missing
               /\ \/ missing = {}
                  \/ phase # "done" /\ \E last : IsLast(last, due) /\ missing = {last}
                  \/ threw /\ \E last, lost : /\ IsLast(last, due) /\ IsLast(lost, due \ {last})
                                              /\ \/ missing = {lost}
                                                 \/ phase # "done" /\ missing = {last, lost}
<1> DEFINE due == DueOf(seen, symbol)
           handed == Times(routed[symbol])
           missing == due \ handed
<1>1. Missing(symbol) = missing /\ Handed(symbol) = handed
    BY SameWords
<1>2. due \subseteq Nat
    BY DueNumbers DEF LoopOK
<1>3. HandedOver(due, handed) /\ phase \in {"running", "aborted", "done"}
    BY DEF LoopOK, SymbolOK
<1> HIDE DEF due, handed
<1>4. CASE phase # "done" /\ LacksLast(due, handed)
    <2>1. CASE due = {} /\ handed = {}
        BY <1>1, <1>2, <2>1 DEF due
    <2>2. ASSUME NEW last, IsLast(last, due), handed = due \ {last}
          PROVE  missing = {last} /\ handed = due \ missing
        BY <2>2 DEF IsLast
    <2> QED
        BY <1>1, <1>2, <1>4, <2>1, <2>2 DEF LacksLast, due
<1>5. CASE phase # "done" /\ threw /\ LacksTwo(due, handed)
    <2>1. PICK last, lost : /\ IsLast(last, due) /\ IsLast(lost, due \ {last})
                            /\ handed = due \ {last, lost}
        BY <1>5 DEF LacksTwo
    <2>2. missing = {last, lost} /\ handed = due \ missing
        BY <2>1 DEF IsLast
    <2> QED
        BY <1>1, <1>2, <1>5, <2>1, <2>2 DEF due
<1>6. CASE handed = due
    BY <1>1, <1>2, <1>6 DEF due
<1>7. CASE threw /\ LacksLost(due, handed)
    <2>1. PICK last, lost : /\ IsLast(last, due) /\ IsLast(lost, due \ {last})
                            /\ handed = due \ {lost}
        BY <1>7 DEF LacksLost
    <2>2. missing = {lost} /\ handed = due \ missing
        BY <2>1 DEF IsLast
    <2> QED
        BY <1>1, <1>2, <1>7, <2>1, <2>2 DEF due
<1> QED
    BY <1>3, <1>4, <1>5, <1>6, <1>7 DEF HandedOver

(* The bars handed over are the right ones, in order, and only the last    *)
(* but one can be passed over, by an exception of the strategy.            *)
THEOREM BarsAreFaithful == LoopSpec => []BarsFaithful
<1>1. LoopOK => BarsFaithful
    <2> SUFFICES ASSUME LoopOK, NEW symbol \in Symbols
                 PROVE  /\ \A i, j \in DOMAIN routed[symbol] :
                              i < j => routed[symbol][i].time < routed[symbol][j].time
                        /\ \A i \in DOMAIN routed[symbol] : IsBarOf(symbol, routed[symbol][i])
                        /\ \A lost \in Missing(symbol), time \in Handed(symbol) :
                              lost < time =>
                                 threw /\ \A later \in Due(symbol) : later > lost => later = time
        BY DEF BarsFaithful
    <2>1. BarsOK(seen, symbol, routed[symbol])
        BY DEF LoopOK, SymbolOK
    <2>2. DOMAIN routed[symbol] = 1..Len(routed[symbol])
        BY <2>1 DEF BarsOK
    <2>3. ASSUME NEW x \in Missing(symbol), NEW time \in Handed(symbol), x < time
          PROVE  threw /\ \A later \in Due(symbol) : later > x => later = time
        <3> DEFINE due == DueOf(seen, symbol)
        <3>1. Due(symbol) = due /\ Missing(symbol) \subseteq due
            BY SameWords
        <3>2. /\ due \subseteq Nat /\ Handed(symbol) = due \ Missing(symbol)
              /\ \/ Missing(symbol) = {}
                 \/ \E last : IsLast(last, due) /\ Missing(symbol) = {last}
                 \/ threw /\ \E last, lost : /\ IsLast(last, due) /\ IsLast(lost, due \ {last})
                                             /\ \/ Missing(symbol) = {lost}
                                                \/ Missing(symbol) = {last, lost}
            BY Lacking
        <3> HIDE DEF due
        <3>3. \A last : IsLast(last, due) => x # last
            <4>1. x \in Nat /\ time \in Nat /\ time \in due /\ x < time
                BY <2>3, <3>1, <3>2
            <4>2. \A last : IsLast(last, due) => last \in Nat /\ time <= last
                BY <3>2, <4>1 DEF IsLast
            <4> QED
                BY ONLY <4>1, <4>2
        <3>4. PICK last, lost : /\ IsLast(last, due) /\ IsLast(lost, due \ {last})
                                /\ x = lost /\ threw
            BY <3>2, <3>3
        <3>5. \A later \in due : later > x => later = last
            BY <3>2, <3>4 DEF IsLast
        <3>6. time = last
            BY <2>3, <3>2, <3>5
        <3> QED
            BY <3>1, <3>4, <3>5, <3>6
    <2> QED
        BY <2>1, <2>2, <2>3, SameWords DEF BarsOK
<1> QED
    BY <1>1, BarsInHand, PTL

(* Nothing is missing but the bar in progress and, after an exception, the *)
(* one before.                                                             *)
THEOREM BarsAreComplete == LoopSpec => []BarsComplete
<1>1. LoopOK => BarsComplete
    <2> SUFFICES ASSUME LoopOK, NEW symbol \in Symbols
                 PROVE  Cardinality(Missing(symbol))
                           <= (IF phase = "done" THEN 0 ELSE 1) + (IF threw THEN 1 ELSE 0)
        BY DEF BarsComplete
    <2>1. \/ Missing(symbol) = {}
          \/ phase # "done" /\ \E last : Missing(symbol) = {last}
          \/ threw /\ \E last, lost : \/ Missing(symbol) = {lost}
                                      \/ phase # "done" /\ Missing(symbol) = {last, lost}
        BY Lacking
    <2>2. Cardinality({}) = 0
        BY FS_EmptySet
    <2>3. \A x : Cardinality({x}) = 1
        BY FS_Singleton
    <2>4. \A x, y : Cardinality({x, y}) \in Nat /\ Cardinality({x, y}) <= 2
        <3> SUFFICES ASSUME NEW x, NEW y
                     PROVE  Cardinality({x, y}) \in Nat /\ Cardinality({x, y}) <= 2
            OBVIOUS
        <3>1. IsFiniteSet({x}) /\ Cardinality({x}) = 1
            BY FS_Singleton
        <3>2. /\ {x} \cup {y} = {x, y}
              /\ Cardinality({x} \cup {y}) =
                    IF y \in {x} THEN Cardinality({x}) ELSE Cardinality({x}) + 1
            BY <3>1, FS_AddElement
        <3> QED
            BY <3>1, <3>2
    <2> DEFINE open == IF phase = "done" THEN 0 ELSE 1
               thrown == IF threw THEN 1 ELSE 0
               lacking == Cardinality(Missing(symbol))
    <2>5. /\ open \in 0..1 /\ thrown \in 0..1
          /\ phase # "done" => open = 1
        OBVIOUS
    <2>6. threw => thrown = 1
        OBVIOUS
    <2>7. \/ lacking = 0
          \/ phase # "done" /\ lacking = 1
          \/ threw /\ lacking = 1
          \/ threw /\ phase # "done" /\ lacking \in Nat /\ lacking <= 2
        BY <2>1, <2>2, <2>3, <2>4
    <2> HIDE DEF open, thrown, lacking
    <2>8. \/ lacking = 0
          \/ open = 1 /\ lacking = 1
          \/ thrown = 1 /\ lacking = 1
          \/ thrown = 1 /\ open = 1 /\ lacking \in Nat /\ lacking <= 2
        BY <2>5, <2>6, <2>7
    <2>9. lacking <= open + thrown
        BY ONLY <2>5, <2>8
    <2> QED
        BY <2>9 DEF open, thrown, lacking
<1> QED
    BY <1>1, BarsInHand, PTL
=============================================================================
