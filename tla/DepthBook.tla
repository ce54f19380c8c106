------------------------------ MODULE DepthBook ------------------------------
(***************************************************************************)
(* The full-depth order book of one symbol (data/OrderBookFullDepth.cpp).  *)
(*                                                                         *)
(* A book is a record:                                                     *)
(*   levels      for each side, the levels by price.  A level holds its    *)
(*               total size, the FIFO queue of order ids, and for each     *)
(*               queued order its 1-based position and its remaining size; *)
(*   orderOf     the order behind each queue id;                           *)
(*   quoteQid    for each side the queue id of the synthetic order that    *)
(*               stands for the displayed quote, 0 when there is none;     *)
(*   quotePrice  the price that synthetic order was last put at.           *)
(* The level keeps each fact two or three times (queue, position, sizes,   *)
(* total), as the code does: keeping the copies in step is its hard part.  *)
(***************************************************************************)
EXTENDS Lists, FiniteSets

Sides == {"BUY", "SELL"}
Opposite(side) == IF side = "BUY" THEN "SELL" ELSE "BUY"

(* "__quote_bid" and "__quote_ask"; the ids of submitted orders are 1, 2.. *)
QuoteOrder(side) == IF side = "BUY" THEN -1 ELSE -2

NewLevel == [total |-> 0, queue |-> <<>>, position |-> <<>>, sizes |-> <<>>]

EmptyBook ==
    [levels |-> [side \in Sides |-> <<>>],
     orderOf |-> <<>>,
     quoteQid |-> [side \in Sides |-> 0],
     quotePrice |-> [side \in Sides |-> 0]]

HasLevel(book, side, price) == price \in DOMAIN book.levels[side]

SetLevel(book, side, price, level) ==
    [book EXCEPT !.levels[side] = With(@, price, level)]

AddLevel(book, side, price) ==
    IF HasLevel(book, side, price) THEN book
    ELSE SetLevel(book, side, price, NewLevel)

DropLevel(book, side, price) == [book EXCEPT !.levels[side] = Without(@, price)]

RemoveLevelIfEmpty(book, side, price) ==
    IF /\ HasLevel(book, side, price)
       /\ book.levels[side][price].queue = <<>>
       /\ book.levels[side][price].total = 0
    THEN DropLevel(book, side, price)
    ELSE book

(* The counter of the code only grows, and queue ids are compared for      *)
(* equality only.  An id that nothing refers to is as good as a new one,   *)
(* which keeps the model finite.  `held` are the ids kept outside.         *)
FreshQueueId(book, held) ==
    LET used == DOMAIN book.orderOf \cup {book.quoteQid[side] : side \in Sides} \cup held
    IN  Min((1..(Cardinality(used) + 1)) \ used)
-----------------------------------------------------------------------------
(* Joining a queue *)

AtBackJumping(level, id, size) ==   \* mutant: a new order goes ahead of the queue
    [total |-> level.total + size,
     queue |-> <<id>> \o level.queue,
     position |-> With([o \in DOMAIN level.position |-> level.position[o] + 1], id, 1),
     sizes |-> With(level.sizes, id, size)]

AtBack(level, id, size) ==
    [total |-> level.total + size,
     queue |-> Append(level.queue, id),
     position |-> With(level.position, id, Len(level.queue) + 1),
     sizes |-> With(level.sizes, id, size)]

AtFrontUnshifted(level, id, size) ==   \* mutant: the others keep their positions
    [total |-> level.total + size,
     queue |-> <<id>> \o level.queue,
     position |-> With(level.position, id, 1),
     sizes |-> With(level.sizes, id, size)]

AtFront(level, id, size) ==
    [total |-> level.total + size,
     queue |-> <<id>> \o level.queue,
     position |-> With([o \in DOMAIN level.position |-> level.position[o] + 1], id, 1),
     sizes |-> With(level.sizes, id, size)]

(* The book with the order placed, and its queue id: 0 for a duplicate.    *)
Rest(book, held, side, price, id, size, end) ==
    LET opened == AddLevel(book, side, price)
        level == opened.levels[side][price]
        qid == FreshQueueId(book, held)
        placed == IF end = "back" THEN AtBack(level, id, size) ELSE AtFront(level, id, size)
    IN  IF id \in DOMAIN level.position
        THEN [book |-> opened, qid |-> 0]
        ELSE [book |-> [SetLevel(opened, side, price, placed)
                           EXCEPT !.orderOf = With(@, qid, id)],
              qid |-> qid]

EnqueueOrder(book, held, side, price, id, size) ==
    Rest(book, held, side, price, id, size, "back")

EnqueueOrderFront(book, held, side, price, id, size) ==
    Rest(book, held, side, price, id, size, "front")
-----------------------------------------------------------------------------
(* Leaving a queue *)

(* Drop the order at place i from a level; those behind `position` move up *)
(* by one.                                                                 *)
Unqueue(level, i, position) ==
    LET id == level.queue[i]
    IN
    [total |-> level.total - level.sizes[id],
     queue |-> RemoveAt(level.queue, i),
     position |-> [o \in DOMAIN level.position \ {id} |->
                      IF level.position[o] > position THEN level.position[o] - 1
                                                      ELSE level.position[o]],
     sizes |-> Without(level.sizes, id)]

DequeueHead(book, side, price) ==
    LET level == book.levels[side][price]
        head == Head(level.queue)
        qids == {q \in DOMAIN book.orderOf : book.orderOf[q] = head}
    IN  [SetLevel(book, side, price, Unqueue(level, 1, 0))
            EXCEPT !.orderOf = IF qids = {} THEN @ ELSE Without(@, Min(qids))]

Reduced(level, id, quantity) ==
    [level EXCEPT !.sizes[id] = @ - quantity, !.total = @ - quantity]

(* Take up to `quantity` from the front of one level.  `taken` lists the   *)
(* orders reached and how much each gave up, in FIFO order.                *)
ConsumeHeadUncharged(side, price, sofar, head) ==   \* mutant: whole heads are free
    LET size == sofar.book.levels[side][price].sizes[head]
    IN  IF size > sofar.left THEN sofar
        ELSE [book |-> DequeueHead(sofar.book, side, price),
              left |-> sofar.left,
              taken |-> Append(sofar.taken, [id |-> head, size |-> size])]

ConsumeHead(side, price, sofar, head) ==
    LET size == sofar.book.levels[side][price].sizes[head]
        gave == IF size <= sofar.left THEN size ELSE sofar.left
    IN  IF sofar.left = 0 THEN sofar
        ELSE [book |-> IF size <= sofar.left
                       THEN DequeueHead(sofar.book, side, price)
                       ELSE SetLevel(sofar.book, side, price,
                                     Reduced(sofar.book.levels[side][price], head, gave)),
              left |-> sofar.left - gave,
              taken |-> IF gave = 0 THEN sofar.taken
                                    ELSE Append(sofar.taken, [id |-> head, size |-> gave])]

ConsumeHeads(start, side, price, queue) ==
    FoldLeft(LAMBDA sofar, head : ConsumeHead(side, price, sofar, head), start, queue)

ConsumeAtPrice(book, side, price, quantity) ==
    IF ~HasLevel(book, side, price)
    THEN [book |-> book, taken |-> <<>>]
    ELSE LET done == ConsumeHeads([book |-> book, left |-> quantity, taken |-> <<>>],
                                  side, price, book.levels[side][price].queue)
         IN  [book |-> IF done.book.levels[side][price].queue = <<>>
                       THEN DropLevel(done.book, side, price)
                       ELSE done.book,
              taken |-> done.taken]

IndexOf(queue, id) == Min({i \in DOMAIN queue : queue[i] = id})

(* Where an order rests: at most one place, as BookConsistent says.        *)
Places(book, id) ==
    {place \in UNION {{side} \X DOMAIN book.levels[side] : side \in Sides} :
        id \in DOMAIN book.levels[place[1]][place[2]].position}

CancelQueued(book, qid) ==
    IF qid \notin DOMAIN book.orderOf THEN book
    ELSE LET id == book.orderOf[qid]
             places == Places(book, id)
             place == CHOOSE p \in places : TRUE
             level == book.levels[place[1]][place[2]]
         IN  IF places = {} THEN book
             ELSE [SetLevel(book, place[1], place[2],
                            Unqueue(level, IndexOf(level.queue, id), level.position[id]))
                      EXCEPT !.orderOf = Without(@, qid)]
-----------------------------------------------------------------------------
(* The touch and the displayed quote *)

BestPrice(book, side) ==
    IF side = "BUY" THEN Max(DOMAIN book.levels[side]) ELSE Min(DOMAIN book.levels[side])

HasTouch(book, side) ==
    /\ DOMAIN book.levels[side] # {}
    /\ book.levels[side][BestPrice(book, side)].total > 0

RemoveSynthetic(book, side) ==
    IF book.quoteQid[side] = 0 THEN book
    ELSE [RemoveLevelIfEmpty(CancelQueued(book, book.quoteQid[side]),
                             side, book.quotePrice[side])
             EXCEPT !.quoteQid[side] = 0]

(* Displayed size goes to the front of its level: with top-of-book data it *)
(* is assumed to be ahead of the strategy's own orders.                    *)
ShowQuote(book, held, side, price, size) ==
    IF size = 0 THEN book
    ELSE LET shown == EnqueueOrderFront(book, held, side, price, QuoteOrder(side), size)
         IN  [shown.book EXCEPT !.quoteQid[side] = shown.qid, !.quotePrice[side] = price]

OnTick(book, held, tick) ==
    LET cleared == RemoveSynthetic(RemoveSynthetic(book, "BUY"), "SELL")
        bidShown == ShowQuote(cleared, held, "BUY", tick.bid, tick.bidSize)
    IN  ShowQuote(bidShown, held, "SELL", tick.ask, tick.askSize)
=============================================================================
