----------------------- MODULE OrderManagerDepthProofs -----------------------
(***************************************************************************)
(* Proofs about the order manager with the full-depth fill model.          *)
(*                                                                         *)
(* The inductive invariant is InOrder: between two calls the copies a      *)
(* level keeps agree, the book holds what the manager thinks it holds, and *)
(* the ledger is what the fills make it.  Inside a call that is true but   *)
(* for the orders in mid-call, and StateOK says so: StateOK(s, T) is the   *)
(* invariant of the manager's state s while the orders of T are taking.    *)
(* Every call is a composition of operators on such states, and so is the  *)
(* proof: one level, then the book, the orders and the ledger, one fill,   *)
(* one walk over the book, and the calls.  The last two parts are about    *)
(* what one call may do: whom it serves first, and how much a print gives. *)
(***************************************************************************)
EXTENDS OrderManagerDepth, ListsProofs, FiniteSetTheorems, WellFoundedInduction
-----------------------------------------------------------------------------
(* The folds of the model *)

Heads == INSTANCE FoldFacts WITH Op <- LAMBDA p, x, e : ConsumeHead(p[1], p[2], x, e)
Makers == INSTANCE FoldFacts WITH Op <- LAMBDA p, x, e : ApplyMakerFill(x, e, p)
Rounds == INSTANCE FoldFacts WITH Op <- LAMBDA p, x, e : TakeBestLevel(x, p)
Takers == INSTANCE FoldFacts WITH Op <- LAMBDA p, x, e : TakeLiquidity(x, e)

(* The makers of a level are credited one after the other.                 *)
LEMMA CreditRuns ==
    ASSUME NEW base, NEW price, NEW s, NEW n \in Nat, DOMAIN s = 1..n
    PROVE  \E h : Makers!Runs(h, price, base, s, n) /\ Credit(base, s, price) = h[n]
<1>1. Credit(base, s, price) = Makers!Folded(price, base, s)
    BY DEF Credit, Makers!Folded, FoldLeft, MapThenFoldSet, Max, Makers!Largest
<1> QED
    BY <1>1, Induction, Makers!Along DEF Makers!CountsUp

(* The heads of a queue are consumed one after the other.                  *)
LEMMA HeadRuns ==
    ASSUME NEW base, NEW side, NEW price, NEW s, NEW n \in Nat, DOMAIN s = 1..n
    PROVE  \E h : Heads!Runs(h, <<side, price>>, base, s, n) /\ ConsumeHeads(base, side, price, s) = h[n]
<1>1. ConsumeHeads(base, side, price, s) = Heads!Folded(<<side, price>>, base, s)
    BY DEF ConsumeHeads, Heads!Folded, FoldLeft, MapThenFoldSet, Max, Heads!Largest
<1> QED
    BY <1>1, Induction, Heads!Along DEF Heads!CountsUp

(* An order takes from one level after the other.                          *)
LEMMA RoundRuns ==
    ASSUME NEW base, NEW order, NEW s, NEW n \in Nat, DOMAIN s = 1..n
    PROVE  \E h : Rounds!Runs(h, order, base, s, n) /\ TakeRounds(base, order, s) = h[n]
<1>1. TakeRounds(base, order, s) = Rounds!Folded(order, base, s)
    BY DEF TakeRounds, Rounds!Folded, FoldLeft, MapThenFoldSet, Max, Rounds!Largest
<1> QED
    BY <1>1, Induction, Rounds!Along DEF Rounds!CountsUp

(* The market orders take one after the other.                             *)
LEMMA TakerRuns ==
    ASSUME NEW base, NEW s, NEW n \in Nat, DOMAIN s = 1..n
    PROVE  \E h : Takers!Runs(h, 0, base, s, n) /\ TakeEach(base, s) = h[n]
<1>1. TakeEach(base, s) = Takers!Folded(0, base, s)
    BY DEF TakeEach, Takers!Folded, FoldLeft, MapThenFoldSet, Max, Takers!Largest
<1> QED
    BY <1>1, Induction, Takers!Along DEF Takers!CountsUp

-----------------------------------------------------------------------------
(* One level of the book *)

QueueSizes(level) == [i \in DOMAIN level.queue |-> level.sizes[level.queue[i]]]

Sound(level) ==
    /\ DOMAIN level = {"total", "queue", "position", "sizes"}
    /\ level.queue \in Seq(Int)
    /\ DOMAIN level.position = Range(level.queue)
    /\ DOMAIN level.sizes = Range(level.queue)
    /\ \A i \in DOMAIN level.queue : level.position[level.queue[i]] = i
    /\ \A id \in DOMAIN level.sizes : level.sizes[id] \in Nat \ {0}
    /\ level.total = Total(QueueSizes(level))

(* No id is queued twice, and the sizes of the queue are positive numbers. *)
LEMMA SoundFacts ==
    ASSUME NEW l, Sound(l)
    PROVE  /\ Len(l.queue) \in Nat /\ DOMAIN l.queue = 1..Len(l.queue)
           /\ \A i \in 1..Len(l.queue) : l.queue[i] \in Int /\ l.queue[i] \in DOMAIN l.sizes
           /\ \A i, j \in 1..Len(l.queue) : l.queue[i] = l.queue[j] => i = j
           /\ QueueSizes(l) \in [1..Len(l.queue) -> Int]
           /\ QueueSizes(l) \in [1..Len(l.queue) -> Nat]
           /\ \A i \in 1..Len(l.queue) : QueueSizes(l)[i] = l.sizes[l.queue[i]]
<1>1. Len(l.queue) \in Nat /\ DOMAIN l.queue = 1..Len(l.queue) /\ l.queue \in Seq(Int)
    BY DEF Sound
<1>2. \A i \in 1..Len(l.queue) : l.queue[i] \in Int /\ l.queue[i] \in DOMAIN l.sizes
    BY <1>1 DEF Sound, Range
<1>3. \A i, j \in 1..Len(l.queue) : l.queue[i] = l.queue[j] => i = j
    BY <1>1 DEF Sound
<1>4. \A i \in 1..Len(l.queue) : l.sizes[l.queue[i]] \in Nat
    BY <1>2 DEF Sound
<1>5. /\ QueueSizes(l) \in [1..Len(l.queue) -> Int]
      /\ QueueSizes(l) \in [1..Len(l.queue) -> Nat]
      /\ \A i \in 1..Len(l.queue) : QueueSizes(l)[i] = l.sizes[l.queue[i]]
    BY <1>1, <1>4 DEF QueueSizes
<1> QED
    BY <1>1, <1>2, <1>3, <1>5

(* The total size of a sound level is a natural number.                    *)
LEMMA SoundTotal ==
    ASSUME NEW l, Sound(l)
    PROVE  l.total \in Nat
<1>1. Len(l.queue) \in Nat /\ QueueSizes(l) \in [1..Len(l.queue) -> Int]
      /\ QueueSizes(l) \in [1..Len(l.queue) -> Nat]
    BY SoundFacts
<1> QED
    BY <1>1, TotalType DEF Sound

(* A new level is sound.                                                   *)
LEMMA SoundNew == Sound(NewLevel)
<1>1. QueueSizes(NewLevel) = [i \in {} |-> NewLevel.sizes[NewLevel.queue[i]]]
    BY DEF QueueSizes, NewLevel
<1>2. DOMAIN QueueSizes(NewLevel) = 1..0
    BY <1>1
<1>3. Total(QueueSizes(NewLevel)) = 0
    BY <1>2, TotalNone
<1> QED
    BY <1>3 DEF Sound, NewLevel, Range

(* m is l with one more id in its queue, at place j.                       *)
Joins(m, l, id, size, j) ==
    /\ DOMAIN m = {"total", "queue", "position", "sizes"}
    /\ m.total = l.total + size
    /\ m.queue \in Seq(Int) /\ Len(m.queue) = Len(l.queue) + 1 /\ m.queue[j] = id
    /\ \A i \in 1..Len(l.queue) : /\ i < j => m.queue[i] = l.queue[i]
                                  /\ i >= j => m.queue[i + 1] = l.queue[i]
    /\ DOMAIN m.position = DOMAIN l.position \cup {id}
    /\ m.position[id] = j
    /\ \A o \in DOMAIN l.position :
          /\ l.position[o] < j => m.position[o] = l.position[o]
          /\ l.position[o] >= j => m.position[o] = l.position[o] + 1
    /\ m.sizes = With(l.sizes, id, size)

(* A level stays sound when an order that is not in it joins at any place. *)
LEMMA SoundJoined ==
    ASSUME NEW l, Sound(l), NEW m, NEW id \in Int, NEW size \in Nat \ {0},
           id \notin DOMAIN l.sizes, NEW n \in Nat, n = Len(l.queue), NEW k \in Nat, k = n + 1,
           NEW j \in 1..k, Joins(m, l, id, size, j)
    PROVE  Sound(m)
<1>0. /\ DOMAIN m.queue = 1..k /\ m.queue[j] = id
      /\ \A i \in 1..n : /\ i < j => m.queue[i] = l.queue[i]
                         /\ i >= j => m.queue[i + 1] = l.queue[i]
    <2>1. m.queue \in Seq(Int) /\ Len(m.queue) = k
        BY DEF Joins
    <2>2. DOMAIN m.queue = 1..k
        BY <2>1
    <2> QED
        BY <2>2 DEF Joins
<1>1. /\ DOMAIN l.queue = 1..n
      /\ \A i \in 1..n : l.queue[i] \in Int /\ l.queue[i] \in DOMAIN l.sizes
      /\ \A i, i2 \in 1..n : l.queue[i] = l.queue[i2] => i = i2
      /\ QueueSizes(l) \in [1..n -> Int]
      /\ \A i \in 1..n : QueueSizes(l)[i] = l.sizes[l.queue[i]]
    BY SoundFacts
<1>2. DOMAIN m.queue = 1..k
    BY <1>0
<1>3. \A i \in 1..k : \/ i = j /\ m.queue[i] = id
                      \/ i < j /\ i \in 1..n /\ m.queue[i] = l.queue[i]
                      \/ i > j /\ i - 1 \in 1..n /\ m.queue[i] = l.queue[i - 1]
    <2> SUFFICES ASSUME NEW i \in 1..k
                 PROVE  \/ i = j /\ m.queue[i] = id
                        \/ i < j /\ i \in 1..n /\ m.queue[i] = l.queue[i]
                        \/ i > j /\ i - 1 \in 1..n /\ m.queue[i] = l.queue[i - 1]
        OBVIOUS
    <2>1. CASE i = j
        BY <1>0, <2>1
    <2>2. CASE i < j
        BY <1>0, <2>2
    <2>3. CASE i > j
        <3>1. i - 1 \in 1..n /\ i - 1 >= j /\ (i - 1) + 1 = i
            BY <2>3
        <3> QED
            BY <1>0, <2>3, <3>1
    <2> QED
        BY <2>1, <2>2, <2>3
<1>4. Range(m.queue) = Range(l.queue) \cup {id}
    <2>1. ASSUME NEW x \in Range(m.queue) PROVE x \in Range(l.queue) \cup {id}
        <3>1. PICK i \in 1..k : x = m.queue[i]
            BY <1>2 DEF Range
        <3>2. CASE m.queue[i] = id
            BY <3>1, <3>2
        <3>3. CASE \E i2 \in 1..n : m.queue[i] = l.queue[i2]
            <4>1. PICK i2 \in 1..n : x = l.queue[i2]
                BY <3>1, <3>3
            <4> QED
                BY <1>1, <4>1 DEF Range
        <3> QED
            BY <1>3, <3>2, <3>3
    <2>2. ASSUME NEW x \in Range(l.queue) PROVE x \in Range(m.queue)
        <3>1. PICK i \in 1..n : x = l.queue[i]
            BY <1>1 DEF Range
        <3>2. i \in 1..k /\ i + 1 \in 1..k
            OBVIOUS
        <3>3. m.queue[i] = x \/ m.queue[i + 1] = x
            BY <1>0, <3>1
        <3> QED
            BY <1>2, <3>2, <3>3 DEF Range
    <2>3. id \in Range(m.queue)
        BY <1>0 DEF Range
    <2> QED
        BY <2>1, <2>2, <2>3
<1>5. DOMAIN m.position = Range(m.queue) /\ DOMAIN m.sizes = Range(m.queue)
    BY <1>4 DEF Joins, Sound, With
<1>6. ASSUME NEW i \in 1..k PROVE m.position[m.queue[i]] = i
    <2>0. /\ m.position[id] = j
          /\ \A o \in DOMAIN l.position :
                /\ l.position[o] < j => m.position[o] = l.position[o]
                /\ l.position[o] >= j => m.position[o] = l.position[o] + 1
        BY DEF Joins
    <2>1. CASE i = j /\ m.queue[i] = id
        BY <2>0, <2>1
    <2>2. CASE i < j /\ i \in 1..n /\ m.queue[i] = l.queue[i]
        <3>1. l.queue[i] \in DOMAIN l.position /\ l.position[l.queue[i]] = i
            BY <1>1, <2>2 DEF Sound
        <3> QED
            BY <2>0, <2>2, <3>1
    <2>3. CASE i > j /\ i - 1 \in 1..n /\ m.queue[i] = l.queue[i - 1]
        <3>1. l.queue[i - 1] \in DOMAIN l.position /\ l.position[l.queue[i - 1]] = i - 1
            BY <1>1, <2>3 DEF Sound
        <3>2. i - 1 >= j
            BY <2>3
        <3>3. m.position[l.queue[i - 1]] = (i - 1) + 1
            BY <2>0, <3>1, <3>2
        <3> QED
            BY <2>3, <3>3
    <2> QED
        BY <1>3, <2>1, <2>2, <2>3
<1>7. \A x \in DOMAIN m.sizes : /\ m.sizes[x] = IF x = id THEN size ELSE l.sizes[x]
                                /\ m.sizes[x] \in Nat \ {0}
    BY DEF Joins, Sound, With
<1>8. m.total = Total(QueueSizes(m))
    <2>1. \A i \in 1..k : m.queue[i] \in DOMAIN m.sizes
        BY <1>2, <1>5 DEF Range
    <2>2. /\ QueueSizes(m) \in [1..k -> Int]
          /\ \A i \in 1..k : QueueSizes(m)[i] = m.sizes[m.queue[i]]
        BY <1>2, <1>7, <2>1 DEF QueueSizes
    <2>3. QueueSizes(m)[j] = size
        BY <1>0, <1>7, <2>1, <2>2
    <2>4. ASSUME NEW i \in 1..n
          PROVE  /\ i < j => QueueSizes(m)[i] = QueueSizes(l)[i]
                 /\ i >= j => QueueSizes(m)[i + 1] = QueueSizes(l)[i]
        <3>1. l.queue[i] # id /\ l.queue[i] \in DOMAIN m.sizes
            BY <1>1 DEF Joins, With
        <3>2. m.sizes[l.queue[i]] = l.sizes[l.queue[i]]
            BY <1>7, <3>1
        <3>3. i \in 1..k /\ i + 1 \in 1..k
            OBVIOUS
        <3>4. QueueSizes(l)[i] = l.sizes[l.queue[i]]
            BY <1>1
        <3>5. CASE i < j
            BY <1>0, <2>2, <3>2, <3>3, <3>4, <3>5
        <3>6. CASE ~(i < j)
            BY <1>0, <2>2, <3>2, <3>3, <3>4, <3>6
        <3> QED
            BY <3>5, <3>6
    <2>5. Total(QueueSizes(m)) = Total(QueueSizes(l)) + size
        <3> DEFINE s == QueueSizes(l)
                   t == QueueSizes(m)
        <3>1. t[j] = size /\ Inserted(t, s, n, j)
            BY <1>1, <2>2, <2>3, <2>4 DEF Inserted
        <3> HIDE DEF s, t
        <3>3. Total(t) = Total(s) + t[j]
            BY <3>1, TotalInserted
        <3> QED
            BY <3>1, <3>3 DEF s, t
    <2> QED
        BY <2>5 DEF Joins, Sound
<1>9. DOMAIN m = {"total", "queue", "position", "sizes"} /\ m.queue \in Seq(Int)
    BY DEF Joins
<1> QED
    BY <1>2, <1>5, <1>6, <1>7, <1>8, <1>9 DEF Sound

(* The list without the element of one place, element by element.          *)
LEMMA RemovedAt ==
    ASSUME NEW s \in Seq(Int), NEW j \in 1..Len(s)
    PROVE  /\ RemoveAt(s, j) \in Seq(Int) /\ Len(RemoveAt(s, j)) = Len(s) - 1
           /\ \A i \in 1..(Len(s) - 1) : /\ i < j => RemoveAt(s, j)[i] = s[i]
                                         /\ i >= j => RemoveAt(s, j)[i] = s[i + 1]
<1> DEFINE a == SubSeq(s, 1, j - 1)
           b == SubSeq(s, j + 1, Len(s))
<1>1. Len(s) \in Nat /\ \A i \in 1..Len(s) : s[i] \in Int
    OBVIOUS
<1>2. a \in Seq(Int) /\ Len(a) = j - 1 /\ \A i \in 1..(j - 1) : a[i] = s[i]
    OBVIOUS
<1>3. b \in Seq(Int) /\ Len(b) = Len(s) - j /\ \A i \in 1..(Len(s) - j) : b[i] = s[i + j]
    OBVIOUS
<1> HIDE DEF a, b
<1>4. /\ a \o b \in Seq(Int) /\ Len(a \o b) = Len(s) - 1
      /\ \A i \in 1..(Len(s) - 1) : /\ i < j => (a \o b)[i] = s[i]
                                    /\ i >= j => (a \o b)[i] = s[i + 1]
    <2>1. /\ a \o b \in Seq(Int) /\ Len(a \o b) = Len(a) + Len(b)
          /\ \A i \in 1..(Len(a) + Len(b)) :
                (a \o b)[i] = IF i <= Len(a) THEN a[i] ELSE b[i - Len(a)]
        BY <1>2, <1>3, ConcatProperties
    <2>2. ASSUME NEW i \in 1..(Len(s) - 1), i < j PROVE (a \o b)[i] = s[i]
        <3>1. i \in 1..(j - 1) /\ i \in 1..(Len(a) + Len(b)) /\ i <= Len(a)
            BY <1>1, <1>2, <1>3, <2>2
        <3> QED
            BY <1>2, <2>1, <3>1
    <2>3. ASSUME NEW i \in 1..(Len(s) - 1), i >= j PROVE (a \o b)[i] = s[i + 1]
        <3>1. /\ i \in 1..(Len(a) + Len(b)) /\ ~(i <= Len(a))
              /\ i - Len(a) \in 1..(Len(s) - j) /\ (i - Len(a)) + j = i + 1
            BY <1>1, <1>2, <1>3, <2>3
        <3> QED
            BY <1>3, <2>1, <3>1
    <2>4. Len(a) + Len(b) = Len(s) - 1
        BY <1>1, <1>2, <1>3
    <2> QED
        BY <2>1, <2>2, <2>3, <2>4
<1> QED
    BY <1>4 DEF RemoveAt, a, b

(* enqueue_order keeps a level sound.                                      *)
LEMMA SoundAtBack ==
    ASSUME NEW l, Sound(l), NEW id \in Int, NEW size \in Nat \ {0}, id \notin DOMAIN l.sizes
    PROVE  Sound(AtBack(l, id, size))
<1> DEFINE n == Len(l.queue)
           m == AtBack(l, id, size)
<1>1. n \in Nat /\ DOMAIN l.queue = 1..n /\ l.queue \in Seq(Int)
    BY SoundFacts DEF Sound
<1>2. \A o \in DOMAIN l.position : l.position[o] \in 1..n
    BY <1>1 DEF Sound, Range
<1>3. id \notin DOMAIN l.position
    BY DEF Sound
<1>4. /\ m.queue \in Seq(Int) /\ Len(m.queue) = n + 1 /\ m.queue[n + 1] = id
      /\ \A i \in 1..n : m.queue[i] = l.queue[i]
    BY <1>1 DEF AtBack
<1>5. /\ DOMAIN m.position = DOMAIN l.position \cup {id}
      /\ m.position[id] = n + 1
      /\ \A o \in DOMAIN l.position : m.position[o] = l.position[o]
    BY <1>3 DEF AtBack, With
<1>6. /\ DOMAIN m = {"total", "queue", "position", "sizes"}
      /\ m.total = l.total + size /\ m.sizes = With(l.sizes, id, size)
    BY DEF AtBack
<1> HIDE DEF m
<1>7. Joins(m, l, id, size, n + 1)
    BY <1>1, <1>2, <1>4, <1>5, <1>6 DEF Joins
<1>8. Sound(m)
    <2> HIDE DEF n
    <2>1. n + 1 \in Nat /\ n + 1 \in 1..(n + 1)
        BY <1>1
    <2> DEFINE k == n + 1
    <2>2. k \in Nat /\ k = n + 1 /\ k \in 1..k /\ Joins(m, l, id, size, k)
        BY <1>7, <2>1
    <2> HIDE DEF k
    <2> QED
        BY <1>1, <2>2, SoundJoined DEF n
<1> QED
    BY <1>8 DEF m

(* enqueue_order_front keeps a level sound.                                *)
LEMMA SoundAtFront ==
    ASSUME NEW l, Sound(l), NEW id \in Int, NEW size \in Nat \ {0}, id \notin DOMAIN l.sizes
    PROVE  Sound(AtFront(l, id, size))
<1> DEFINE n == Len(l.queue)
           m == AtFront(l, id, size)
<1>1. n \in Nat /\ DOMAIN l.queue = 1..n /\ l.queue \in Seq(Int)
    BY SoundFacts DEF Sound
<1>2. \A o \in DOMAIN l.position : l.position[o] \in 1..n
    BY <1>1 DEF Sound, Range
<1>3. id \notin DOMAIN l.position
    BY DEF Sound
<1>4. /\ m.queue \in Seq(Int) /\ Len(m.queue) = n + 1 /\ m.queue[1] = id
      /\ \A i \in 1..n : m.queue[i + 1] = l.queue[i]
    BY <1>1 DEF AtFront
<1>5. /\ DOMAIN m.position = DOMAIN l.position \cup {id}
      /\ m.position[id] = 1
      /\ \A o \in DOMAIN l.position : m.position[o] = l.position[o] + 1
    BY <1>3 DEF AtFront, With
<1>6. /\ DOMAIN m = {"total", "queue", "position", "sizes"}
      /\ m.total = l.total + size /\ m.sizes = With(l.sizes, id, size)
    BY DEF AtFront
<1> HIDE DEF m
<1>7. Joins(m, l, id, size, 1)
    BY <1>1, <1>2, <1>4, <1>5, <1>6 DEF Joins
<1>8. Sound(m)
    <2> HIDE DEF n
    <2> DEFINE k == n + 1
    <2>2. k \in Nat /\ k = n + 1 /\ 1 \in 1..k
        BY <1>1
    <2> HIDE DEF k
    <2> QED
        BY <1>1, <1>7, <2>2, SoundJoined DEF n
<1> QED
    BY <1>8 DEF m

(* m is l without the id at place j of its queue.                          *)
Leaves(m, l, j) ==
    /\ DOMAIN m = {"total", "queue", "position", "sizes"}
    /\ m.total = l.total - l.sizes[l.queue[j]]
    /\ m.queue \in Seq(Int) /\ Len(m.queue) = Len(l.queue) - 1
    /\ \A i \in 1..(Len(l.queue) - 1) : /\ i < j => m.queue[i] = l.queue[i]
                                        /\ i >= j => m.queue[i] = l.queue[i + 1]
    /\ DOMAIN m.position = DOMAIN l.position \ {l.queue[j]}
    /\ \A o \in DOMAIN l.position \ {l.queue[j]} :
          /\ l.position[o] < j => m.position[o] = l.position[o]
          /\ l.position[o] > j => m.position[o] = l.position[o] - 1
    /\ m.sizes = Without(l.sizes, l.queue[j])

(* A level stays sound when the order at any place leaves.                 *)
LEMMA SoundLeft ==
    ASSUME NEW l, Sound(l), NEW m, NEW j \in 1..Len(l.queue), Leaves(m, l, j)
    PROVE  Sound(m)
<1> DEFINE k == Len(l.queue)
           n == k - 1
           id == l.queue[j]
<1>1. /\ k \in Nat /\ DOMAIN l.queue = 1..k /\ j \in 1..k
      /\ \A i \in 1..k : l.queue[i] \in Int /\ l.queue[i] \in DOMAIN l.sizes
      /\ \A i, i2 \in 1..k : l.queue[i] = l.queue[i2] => i = i2
      /\ QueueSizes(l) \in [1..k -> Int]
      /\ \A i \in 1..k : QueueSizes(l)[i] = l.sizes[l.queue[i]]
    BY SoundFacts
<1>2. n \in Nat /\ k = n + 1
    BY <1>1
<1>3. /\ DOMAIN m.queue = 1..n
      /\ \A i \in 1..n : /\ i < j => m.queue[i] = l.queue[i]
                         /\ i >= j => m.queue[i] = l.queue[i + 1]
    <2>1. m.queue \in Seq(Int) /\ Len(m.queue) = n
        BY DEF Leaves
    <2>2. DOMAIN m.queue = 1..n
        BY <2>1
    <2> QED
        BY <2>2 DEF Leaves
<1> HIDE DEF k, n, id
<1>4. \A i \in 1..n : \/ i < j /\ i \in 1..k /\ m.queue[i] = l.queue[i]
                      \/ i >= j /\ i + 1 \in 1..k /\ m.queue[i] = l.queue[i + 1]
    <2> SUFFICES ASSUME NEW i \in 1..n
                 PROVE  \/ i < j /\ i \in 1..k /\ m.queue[i] = l.queue[i]
                        \/ i >= j /\ i + 1 \in 1..k /\ m.queue[i] = l.queue[i + 1]
        OBVIOUS
    <2>1. i \in 1..k /\ i + 1 \in 1..k /\ (i < j \/ i >= j)
        BY <1>1, <1>2
    <2> QED
        BY <1>3, <2>1
<1>5. Range(m.queue) = Range(l.queue) \ {id}
    <2>1. ASSUME NEW x \in Range(m.queue) PROVE x \in Range(l.queue) \ {id}
        <3>1. PICK i \in 1..n : x = m.queue[i]
            BY <1>3 DEF Range
        <3>2. \E i2 \in 1..k : i2 # j /\ x = l.queue[i2]
            <4>1. CASE i < j /\ i \in 1..k /\ m.queue[i] = l.queue[i]
                <5>1. i # j
                    BY <1>1, <4>1
                <5> QED
                    BY <3>1, <4>1, <5>1
            <4>2. CASE i >= j /\ i + 1 \in 1..k /\ m.queue[i] = l.queue[i + 1]
                <5>1. i + 1 # j
                    BY <1>1, <4>2
                <5> QED
                    BY <3>1, <4>2, <5>1
            <4> QED
                BY <1>4, <4>1, <4>2
        <3>3. PICK i2 \in 1..k : i2 # j /\ x = l.queue[i2]
            BY <3>2
        <3>4. x # id
            BY <1>1, <3>3 DEF id
        <3> QED
            BY <1>1, <3>3, <3>4 DEF Range
    <2>2. ASSUME NEW x \in Range(l.queue) \ {id} PROVE x \in Range(m.queue)
        <3>1. PICK i \in 1..k : x = l.queue[i]
            BY <1>1 DEF Range
        <3>2. i # j
            BY <3>1 DEF id
        <3>3. CASE i < j
            <4>1. i \in 1..n /\ m.queue[i] = x
                BY <1>1, <1>2, <1>3, <3>1, <3>3
            <4> QED
                BY <1>3, <4>1 DEF Range
        <3>4. CASE i > j
            <4>1. i - 1 \in 1..n /\ i - 1 >= j /\ (i - 1) + 1 = i
                BY <1>1, <1>2, <3>4
            <4>2. m.queue[i - 1] = x
                BY <1>3, <3>1, <4>1
            <4> QED
                BY <1>3, <4>1, <4>2 DEF Range
        <3> QED
            BY <1>1, <3>2, <3>3, <3>4
    <2> QED
        BY <2>1, <2>2
<1>6. DOMAIN m.position = Range(m.queue) /\ DOMAIN m.sizes = Range(m.queue)
    BY <1>5 DEF Leaves, Sound, Without, id
<1>7. ASSUME NEW i \in 1..n PROVE m.position[m.queue[i]] = i
    <2>0. \A o \in DOMAIN l.position \ {id} :
             /\ l.position[o] < j => m.position[o] = l.position[o]
             /\ l.position[o] > j => m.position[o] = l.position[o] - 1
        BY DEF Leaves, id
    <2>1. \A i2 \in 1..k : i2 # j =>
             l.queue[i2] \in DOMAIN l.position \ {id} /\ l.position[l.queue[i2]] = i2
        BY <1>1 DEF Sound, id
    <2>2. CASE i < j /\ i \in 1..k /\ m.queue[i] = l.queue[i]
        <3>1. i # j
            BY <1>1, <2>2
        <3> QED
            BY <2>0, <2>1, <2>2, <3>1
    <2>3. CASE i >= j /\ i + 1 \in 1..k /\ m.queue[i] = l.queue[i + 1]
        <3>1. i + 1 # j /\ i + 1 > j /\ (i + 1) - 1 = i
            BY <1>1, <2>3
        <3> QED
            BY <2>0, <2>1, <2>3, <3>1
    <2> QED
        BY <1>4, <2>2, <2>3
<1>8. /\ DOMAIN m.sizes = DOMAIN l.sizes \ {id}
      /\ \A x \in DOMAIN m.sizes : m.sizes[x] = l.sizes[x] /\ m.sizes[x] \in Nat \ {0}
    BY DEF Leaves, Sound, Without, id
<1>9. m.total = Total(QueueSizes(m))
    <2>1. \A i \in 1..n : m.queue[i] \in DOMAIN m.sizes
        BY <1>3, <1>6 DEF Range
    <2>2. /\ QueueSizes(m) \in [1..n -> Int]
          /\ \A i \in 1..n : QueueSizes(m)[i] = m.sizes[m.queue[i]]
        BY <1>3, <1>8, <2>1 DEF QueueSizes
    <2>3. QueueSizes(l)[j] = l.sizes[id]
        BY <1>1 DEF id
    <2>4. ASSUME NEW i \in 1..n
          PROVE  /\ i < j => QueueSizes(l)[i] = QueueSizes(m)[i]
                 /\ i >= j => QueueSizes(l)[i + 1] = QueueSizes(m)[i]
        <3>1. QueueSizes(m)[i] = l.sizes[m.queue[i]]
            BY <1>8, <2>1, <2>2
        <3>2. i \in 1..k /\ i + 1 \in 1..k
            BY <1>2
        <3>3. CASE i < j
            BY <1>1, <1>3, <3>1, <3>2, <3>3
        <3>4. CASE i >= j
            BY <1>1, <1>3, <3>1, <3>2, <3>4, ZenonT(60)
        <3> QED
            BY <1>1, <3>3, <3>4
    <2>5. Total(QueueSizes(l)) = Total(QueueSizes(m)) + l.sizes[id]
        <3> DEFINE s == QueueSizes(m)
                   t == QueueSizes(l)
        <3>1. t[j] = l.sizes[id] /\ Inserted(t, s, n, j)
            BY <1>1, <1>2, <2>2, <2>3, <2>4 DEF Inserted
        <3> HIDE DEF s, t
        <3>3. Total(t) = Total(s) + t[j]
            BY <1>2, <3>1, TotalInserted
        <3> QED
            BY <3>1, <3>3 DEF s, t
    <2>6. l.total = Total(QueueSizes(m)) + l.sizes[id] /\ m.total = l.total - l.sizes[id]
        BY <2>5 DEF Leaves, Sound, id
    <2>7. Total(QueueSizes(m)) \in Int
        BY <1>2, <2>2, TotalType
    <2>8. l.sizes[id] \in Nat
        BY <1>1 DEF Sound, id
    <2> QED
        BY <2>6, <2>7, <2>8
<1>10. DOMAIN m = {"total", "queue", "position", "sizes"} /\ m.queue \in Seq(Int)
    BY DEF Leaves
<1> QED
    BY <1>3, <1>6, <1>7, <1>8, <1>9, <1>10 DEF Sound

(* The order at place j leaves, whether the place is counted as j or, at   *)
(* the head, as what is behind 0.                                          *)
LEMMA SoundUnqueue ==
    ASSUME NEW l, Sound(l), NEW j \in 1..Len(l.queue), NEW p \in {j - 1, j}
    PROVE  /\ Sound(Unqueue(l, j, p)) /\ Leaves(Unqueue(l, j, p), l, j)
           /\ Unqueue(l, j, p).sizes = Without(l.sizes, l.queue[j])
<1> DEFINE m == Unqueue(l, j, p)
<1>1. /\ Len(l.queue) \in Nat /\ DOMAIN l.queue = 1..Len(l.queue) /\ l.queue \in Seq(Int)
      /\ j \in 1..Len(l.queue)
    BY SoundFacts DEF Sound
<1>2. \A o \in DOMAIN l.position \ {l.queue[j]} :
         l.position[o] \in 1..Len(l.queue) /\ l.position[o] # j
    BY <1>1 DEF Sound, Range
<1>3. /\ DOMAIN m = {"total", "queue", "position", "sizes"}
      /\ m.total = l.total - l.sizes[l.queue[j]]
      /\ m.queue = RemoveAt(l.queue, j)
      /\ m.position = [o \in DOMAIN l.position \ {l.queue[j]} |->
                          IF l.position[o] > p THEN l.position[o] - 1 ELSE l.position[o]]
      /\ m.sizes = Without(l.sizes, l.queue[j])
    BY DEF Unqueue
<1> HIDE DEF m
<1>4. /\ m.queue \in Seq(Int) /\ Len(m.queue) = Len(l.queue) - 1
      /\ \A i \in 1..(Len(l.queue) - 1) : /\ i < j => m.queue[i] = l.queue[i]
                                          /\ i >= j => m.queue[i] = l.queue[i + 1]
    <2>1. /\ RemoveAt(l.queue, j) \in Seq(Int)
          /\ Len(RemoveAt(l.queue, j)) = Len(l.queue) - 1
          /\ \A i \in 1..(Len(l.queue) - 1) :
                /\ i < j => RemoveAt(l.queue, j)[i] = l.queue[i]
                /\ i >= j => RemoveAt(l.queue, j)[i] = l.queue[i + 1]
        BY <1>1, RemovedAt
    <2> QED
        BY <1>3, <2>1
<1>5. /\ DOMAIN m.position = DOMAIN l.position \ {l.queue[j]}
      /\ \A o \in DOMAIN l.position \ {l.queue[j]} :
            /\ l.position[o] < j => m.position[o] = l.position[o]
            /\ l.position[o] > j => m.position[o] = l.position[o] - 1
    <2>1. DOMAIN m.position = DOMAIN l.position \ {l.queue[j]}
        BY <1>3
    <2>2. ASSUME NEW o \in DOMAIN l.position \ {l.queue[j]}
          PROVE  /\ l.position[o] < j => m.position[o] = l.position[o]
                 /\ l.position[o] > j => m.position[o] = l.position[o] - 1
        <3>1. l.position[o] > p <=> l.position[o] > j
            BY <1>1, <1>2
        <3>2. m.position[o] = IF l.position[o] > j THEN l.position[o] - 1 ELSE l.position[o]
            BY <1>3, <3>1
        <3> QED
            BY <1>1, <1>2, <3>2
    <2> QED
        BY <2>1, <2>2
<1>6. Leaves(m, l, j)
    BY <1>3, <1>4, <1>5 DEF Leaves
<1> QED
    BY <1>3, <1>6, SoundLeft DEF m

(* An order gives up a part of its size.                                   *)
LEMMA SoundReduced ==
    ASSUME NEW l, Sound(l), NEW id \in DOMAIN l.sizes, NEW q \in Nat, q < l.sizes[id]
    PROVE  /\ Sound(Reduced(l, id, q))
           /\ Reduced(l, id, q).queue = l.queue
           /\ Reduced(l, id, q).sizes = [l.sizes EXCEPT ![id] = l.sizes[id] - q]
<1> DEFINE m == Reduced(l, id, q)
           n == Len(l.queue)
<1>1. /\ n \in Nat /\ DOMAIN l.queue = 1..n
      /\ \A i \in 1..n : l.queue[i] \in Int /\ l.queue[i] \in DOMAIN l.sizes
      /\ \A i, i2 \in 1..n : l.queue[i] = l.queue[i2] => i = i2
      /\ QueueSizes(l) \in [1..n -> Int]
      /\ \A i \in 1..n : QueueSizes(l)[i] = l.sizes[l.queue[i]]
    BY SoundFacts
<1>2. /\ DOMAIN m = {"total", "queue", "position", "sizes"}
      /\ m.queue = l.queue /\ m.position = l.position
      /\ m.total = l.total - q
      /\ m.sizes = [l.sizes EXCEPT ![id] = l.sizes[id] - q]
    BY DEF Reduced, Sound
<1> HIDE DEF m, n
<1>3. \A x \in DOMAIN l.sizes : l.sizes[x] \in Nat \ {0}
    BY DEF Sound
<1>4. /\ DOMAIN m.sizes = DOMAIN l.sizes /\ m.sizes[id] = l.sizes[id] - q
      /\ m.sizes[id] \in Nat \ {0}
      /\ \A x \in DOMAIN l.sizes : x # id => m.sizes[x] = l.sizes[x]
    BY <1>2, <1>3
<1>5. PICK j \in 1..n : l.queue[j] = id
    BY <1>1 DEF Sound, Range
<1>6. /\ QueueSizes(m) \in [1..n -> Int]
      /\ \A i \in 1..n : QueueSizes(m)[i] = m.sizes[l.queue[i]]
    <2>1. ASSUME NEW i \in 1..n PROVE m.sizes[l.queue[i]] \in Int
        <3>1. CASE l.queue[i] = id
            BY <1>4, <3>1
        <3>2. CASE l.queue[i] # id
            <4>1. l.queue[i] \in DOMAIN l.sizes
                BY <1>1
            <4> QED
                BY <1>3, <1>4, <3>2, <4>1
        <3> QED
            BY <3>1, <3>2
    <2> QED
        BY <1>1, <1>2, <2>1 DEF QueueSizes
<1>7. Total(QueueSizes(m)) = Total(QueueSizes(l)) + (0 - q)
    <2> DEFINE s == QueueSizes(l)
               t == QueueSizes(m)
    <2>1. t[j] = s[j] + (0 - q)
        BY <1>1, <1>3, <1>4, <1>5, <1>6, SMTT(30)
    <2>2. ASSUME NEW i \in 1..n, i # j PROVE t[i] = s[i]
        <3>1. l.queue[i] # id /\ l.queue[i] \in DOMAIN l.sizes
            BY <1>1, <1>5, <2>2
        <3> QED
            BY <1>1, <1>4, <1>6, <3>1
    <2>3. s \in [1..n -> Int] /\ t \in [1..n -> Int] /\ 0 - q \in Int
        BY <1>1, <1>6
    <2> HIDE DEF s, t
    <2>4. Changed(t, s, n, j, 0 - q)
        BY <2>1, <2>2, <2>3 DEF Changed
    <2>5. \A d : Changed(t, s, n, j, d) => Total(t) = Total(s) + d
        BY <1>1, TotalChanged
    <2>6. Total(t) = Total(s) + (0 - q)
        BY <2>4, <2>5
    <2> QED
        BY <2>6 DEF s, t
<1>8. m.total = Total(QueueSizes(m))
    <2>1. l.total \in Nat /\ l.total = Total(QueueSizes(l))
        BY SoundTotal DEF Sound
    <2> QED
        BY <1>2, <1>7, <2>1
<1>9. Sound(m)
    BY <1>2, <1>3, <1>4, <1>8 DEF Sound
<1> QED
    BY <1>2, <1>9 DEF m

-----------------------------------------------------------------------------
(* Books *)

IsBook(b) ==
    /\ DOMAIN b = {"levels", "orderOf", "quoteQid", "quotePrice"}
    /\ DOMAIN b.levels = Sides
    /\ \A side \in Sides : \A p \in DOMAIN b.levels[side] : Sound(b.levels[side][p])
    /\ IsFiniteSet(DOMAIN b.orderOf)
    /\ DOMAIN b.quoteQid = Sides /\ DOMAIN b.quotePrice = Sides

(* What an id has in the queue of a price, 0 when it is not there.         *)
Size(b, side, p, x) ==
    IF p \in DOMAIN b.levels[side] /\ x \in DOMAIN b.levels[side][p].sizes
    THEN b.levels[side][p].sizes[x]
    ELSE 0

Queued(b, x) == \E side \in Sides : \E p : Size(b, side, p, x) # 0

(* The queue ids stand for the queued orders, one each.                    *)
IdsMatch(b) ==
    /\ DOMAIN b.orderOf \subseteq Nat \ {0}
    /\ IsInjective(b.orderOf)
    /\ \A x : Queued(b, x) <=> \E q \in DOMAIN b.orderOf : b.orderOf[q] = x

NoEmptyLevel(b) ==
    \A side \in Sides : \A p \in DOMAIN b.levels[side] : b.levels[side][p].queue # <<>>

(* The orders of a level stand in the order of their ids.                  *)
Ascends(b, side, p) ==
    p \in DOMAIN b.levels[side] =>
       \A i, j \in 1..Len(b.levels[side][p].queue) :
          i < j => b.levels[side][p].queue[i] < b.levels[side][p].queue[j]

(* The book is in the order of age: a quote stands ahead of every order of *)
(* the strategy, and of these the older ahead of the younger.              *)
Aged(b) ==
    /\ \A side \in Sides : \A p : Ascends(b, side, p)
    /\ \A x : Queued(b, x) => x \in Nat \/ \E sd \in Sides : x = QuoteOrder(sd)

(* A level in order of age stays so.                                       *)
KeepsAge(b2, b, side, p) == Ascends(b, side, p) => Ascends(b2, side, p)

(* Nothing changes in the levels but at one price.                         *)
OnlyLevel(b2, b, side, price) ==
    /\ \A sd \in Sides : \A p : sd # side \/ p # price =>
          /\ p \in DOMAIN b2.levels[sd] <=> p \in DOMAIN b.levels[sd]
          /\ p \in DOMAIN b.levels[sd] => b2.levels[sd][p] = b.levels[sd][p]
    /\ b2.quoteQid = b.quoteQid /\ b2.quotePrice = b.quotePrice

(* The size of an order at a price is 0 exactly when the order is not      *)
(* there.                                                                  *)
LEMMA SizeType ==
    ASSUME NEW b, IsBook(b), NEW side \in Sides, NEW p, NEW x
    PROVE  /\ Size(b, side, p, x) \in Nat
           /\ Size(b, side, p, x) # 0 <=>
                p \in DOMAIN b.levels[side] /\ x \in DOMAIN b.levels[side][p].sizes
<1>1. CASE p \in DOMAIN b.levels[side] /\ x \in DOMAIN b.levels[side][p].sizes
    <2>1. Sound(b.levels[side][p])
        BY <1>1 DEF IsBook
    <2>2. b.levels[side][p].sizes[x] \in Nat \ {0}
        BY <1>1, <2>1 DEF Sound
    <2> QED
        BY <1>1, <2>2 DEF Size
<1>2. CASE ~(p \in DOMAIN b.levels[side] /\ x \in DOMAIN b.levels[side][p].sizes)
    BY <1>2 DEF Size
<1> QED
    BY <1>1, <1>2

(* A change of one level leaves the sizes of all others.                   *)
LEMMA SameSize ==
    ASSUME NEW b, NEW b2, NEW side, NEW price, OnlyLevel(b2, b, side, price),
           NEW sd \in Sides, NEW p, sd # side \/ p # price, NEW x
    PROVE  Size(b2, sd, p, x) = Size(b, sd, p, x)
<1>1. /\ p \in DOMAIN b2.levels[sd] <=> p \in DOMAIN b.levels[sd]
      /\ p \in DOMAIN b.levels[sd] => b2.levels[sd][p] = b.levels[sd][p]
    BY DEF OnlyLevel
<1> QED
    BY <1>1 DEF Size

(* One level of a book is replaced and nothing else.                       *)
LEMMA LevelSet ==
    ASSUME NEW b, IsBook(b), NEW side \in Sides, NEW price, NEW m, Sound(m)
    PROVE  /\ IsBook(SetLevel(b, side, price, m))
           /\ OnlyLevel(SetLevel(b, side, price, m), b, side, price)
           /\ DOMAIN SetLevel(b, side, price, m).levels[side] = DOMAIN b.levels[side] \cup {price}
           /\ SetLevel(b, side, price, m).levels[side][price] = m
           /\ SetLevel(b, side, price, m).orderOf = b.orderOf
<1> DEFINE b2 == SetLevel(b, side, price, m)
<1>1. /\ DOMAIN b2 = {"levels", "orderOf", "quoteQid", "quotePrice"}
      /\ b2.orderOf = b.orderOf /\ b2.quoteQid = b.quoteQid /\ b2.quotePrice = b.quotePrice
      /\ DOMAIN b2.levels = Sides
      /\ b2.levels[side] = With(b.levels[side], price, m)
      /\ \A sd \in Sides : sd # side => b2.levels[sd] = b.levels[sd]
    BY DEF SetLevel, IsBook
<1> HIDE DEF b2
<1>2. /\ DOMAIN b2.levels[side] = DOMAIN b.levels[side] \cup {price}
      /\ b2.levels[side][price] = m
      /\ \A p \in DOMAIN b.levels[side] : p # price => b2.levels[side][p] = b.levels[side][p]
    BY <1>1 DEF With
<1>3. OnlyLevel(b2, b, side, price)
    BY <1>1, <1>2 DEF OnlyLevel
<1>4. ASSUME NEW sd \in Sides, NEW p \in DOMAIN b2.levels[sd] PROVE Sound(b2.levels[sd][p])
    <2>1. CASE sd = side /\ p = price
        BY <1>2, <2>1
    <2>2. CASE sd # side \/ p # price
        BY <1>3, <2>2 DEF OnlyLevel, IsBook
    <2> QED
        BY <2>1, <2>2
<1>5. IsBook(b2)
    BY <1>1, <1>4 DEF IsBook
<1> QED
    BY <1>1, <1>2, <1>3, <1>5 DEF b2

(* One level of a book goes and nothing else.                              *)
LEMMA LevelDropped ==
    ASSUME NEW b, IsBook(b), NEW side \in Sides, NEW price, NEW b2,
           b2 = DropLevel(b, side, price)
    PROVE  /\ IsBook(b2)
           /\ OnlyLevel(b2, b, side, price)
           /\ DOMAIN b2.levels[side] = DOMAIN b.levels[side] \ {price}
           /\ b2.orderOf = b.orderOf
<1>1. /\ DOMAIN b2 = {"levels", "orderOf", "quoteQid", "quotePrice"}
      /\ b2.orderOf = b.orderOf /\ b2.quoteQid = b.quoteQid /\ b2.quotePrice = b.quotePrice
      /\ DOMAIN b2.levels = Sides
      /\ b2.levels[side] = Without(b.levels[side], price)
      /\ \A sd \in Sides : sd # side => b2.levels[sd] = b.levels[sd]
    BY DEF IsBook, DropLevel
<1>2. /\ DOMAIN b2.levels[side] = DOMAIN b.levels[side] \ {price}
      /\ \A p \in DOMAIN b.levels[side] : p # price => b2.levels[side][p] = b.levels[side][p]
    BY <1>1 DEF Without
<1>3. OnlyLevel(b2, b, side, price)
    BY <1>1, <1>2 DEF OnlyLevel
<1>4. ASSUME NEW sd \in Sides, NEW p \in DOMAIN b2.levels[sd] PROVE Sound(b2.levels[sd][p])
    <2>1. sd # side \/ p # price
        BY <1>2
    <2> QED
        BY <1>3, <2>1 DEF OnlyLevel, IsBook
<1>5. IsBook(b2)
    BY <1>1, <1>4 DEF IsBook
<1> QED
    BY <1>1, <1>2, <1>3, <1>5

(* The book of another assignment of queue ids.                            *)
LEMMA IdsSet ==
    ASSUME NEW b, IsBook(b), NEW f, IsFiniteSet(DOMAIN f), NEW b2, b2 = [b EXCEPT !.orderOf = f]
    PROVE  /\ IsBook(b2) /\ b2.levels = b.levels /\ b2.orderOf = f
           /\ b2.quoteQid = b.quoteQid /\ b2.quotePrice = b.quotePrice
<1>1. /\ DOMAIN b2 = {"levels", "orderOf", "quoteQid", "quotePrice"}
      /\ b2.levels = b.levels /\ b2.orderOf = f
      /\ b2.quoteQid = b.quoteQid /\ b2.quotePrice = b.quotePrice
    BY DEF IsBook
<1> QED
    BY <1>1 DEF IsBook

(* A set of naturals that is not empty has its smallest element.           *)
LEMMA SmallestIn ==
    ASSUME NEW M, M \subseteq Nat, M # {}
    PROVE  Min(M) \in M /\ \A y \in M : Min(M) <= y
<1>1. PICK m \in M : \A y \in M : ~(<<y, m>> \in OpToRel(<, Nat))
    BY WFMin, NatLessThanWellFounded, ZenonT(30)
<1>2. \A y \in M : m <= y
    <2> SUFFICES ASSUME NEW y \in M PROVE m <= y
        OBVIOUS
    <2>1. m \in Nat /\ y \in Nat
        OBVIOUS
    <2>2. y < m => <<y, m>> \in OpToRel(<, Nat)
        BY <2>1 DEF OpToRel
    <2>3. ~(y < m)
        BY <1>1, <2>2, ZenonT(30)
    <2> QED
        BY <2>1, <2>3
<1> QED
    BY <1>1, <1>2, ZenonT(30) DEF Min

(* A new queue id is none of those in use.                                 *)
LEMMA FreshIsNew ==
    ASSUME NEW b, IsBook(b), NEW held, IsFiniteSet(held)
    PROVE  /\ FreshQueueId(b, held) \in Nat \ {0}
           /\ FreshQueueId(b, held) \notin DOMAIN b.orderOf
           /\ \A side \in Sides : FreshQueueId(b, held) # b.quoteQid[side]
<1> DEFINE quotes == {b.quoteQid[side] : side \in Sides}
           used == DOMAIN b.orderOf \cup quotes \cup held
           c == Cardinality(used)
           free == (1..(c + 1)) \ used
<1>1. quotes = {b.quoteQid["BUY"], b.quoteQid["SELL"]}
    BY DEF Sides
<1>2. IsFiniteSet(quotes)
    <2>1. IsFiniteSet({b.quoteQid["BUY"]}) /\ IsFiniteSet({b.quoteQid["SELL"]})
        BY FS_Singleton
    <2>2. quotes = {b.quoteQid["BUY"]} \cup {b.quoteQid["SELL"]}
        BY <1>1
    <2> HIDE DEF quotes
    <2> QED
        BY <2>1, <2>2, FS_Union
<1> HIDE DEF quotes
<1>3. IsFiniteSet(used)
    <2>1. IsFiniteSet(DOMAIN b.orderOf \cup quotes)
        BY <1>2, FS_Union DEF IsBook
    <2> QED
        BY <2>1, FS_Union
<1> HIDE DEF used
<1>4. c \in Nat
    BY <1>3, FS_CardinalityType
<1>5. IsFiniteSet(1..(c + 1)) /\ Cardinality(1..(c + 1)) = c + 1
    <2>1. 1 \in Int /\ c + 1 \in Int /\ ~(1 > c + 1)
        BY <1>4
    <2>2. IsFiniteSet(1..(c + 1))
        BY <2>1, FS_Interval
    <2>3. Cardinality(1..(c + 1)) = IF 1 > c + 1 THEN 0 ELSE (c + 1) - 1 + 1
        BY <2>1, FS_Interval
    <2> QED
        BY <1>4, <2>1, <2>2, <2>3
<1>6. free # {}
    <2> SUFFICES ASSUME free = {} PROVE FALSE
        OBVIOUS
    <2>1. 1..(c + 1) \subseteq used
        OBVIOUS
    <2>2. Cardinality(1..(c + 1)) <= Cardinality(used)
        BY <1>3, <2>1, FS_Subset
    <2> QED
        BY <1>4, <1>5, <2>2
<1>7. free \subseteq Nat
    BY <1>4
<1>8. Min(free) \in free
    BY <1>6, <1>7, SmallestIn
<1>9. Min(free) \in Nat \ {0} /\ Min(free) \notin used
    BY <1>4, <1>8
<1>10. FreshQueueId(b, held) = Min(free)
    BY DEF FreshQueueId, used, quotes
<1> QED
    BY <1>9, <1>10 DEF used, quotes

(* add_level adds at most an empty level.                                  *)
LEMMA LevelAdded ==
    ASSUME NEW b, IsBook(b), NEW side \in Sides, NEW price,
           NEW b2, b2 = AddLevel(b, side, price)
    PROVE  /\ IsBook(b2) /\ OnlyLevel(b2, b, side, price)
           /\ DOMAIN b2.levels[side] = DOMAIN b.levels[side] \cup {price}
           /\ \A x : Size(b2, side, price, x) = Size(b, side, price, x)
           /\ b2.orderOf = b.orderOf
           /\ price \in DOMAIN b.levels[side] => b2 = b
           /\ price \notin DOMAIN b.levels[side] => b2.levels[side][price] = NewLevel
<1>1. CASE price \in DOMAIN b.levels[side]
    <2>1. b2 = b
        BY <1>1 DEF AddLevel, HasLevel
    <2> QED
        BY <1>1, <2>1 DEF OnlyLevel
<1>2. CASE price \notin DOMAIN b.levels[side]
    <2>1. b2 = SetLevel(b, side, price, NewLevel)
        BY <1>2 DEF AddLevel, HasLevel
    <2>2. /\ IsBook(b2) /\ OnlyLevel(b2, b, side, price)
          /\ DOMAIN b2.levels[side] = DOMAIN b.levels[side] \cup {price}
          /\ b2.levels[side][price] = NewLevel
          /\ b2.orderOf = b.orderOf
        BY <2>1, LevelSet, SoundNew
    <2>3. DOMAIN NewLevel.sizes = {}
        BY DEF NewLevel
    <2>4. ASSUME NEW x PROVE Size(b2, side, price, x) = Size(b, side, price, x)
        BY <1>2, <2>2, <2>3 DEF Size
    <2> QED
        BY <1>2, <2>2, <2>4
<1> QED
    BY <1>1, <1>2

(* b2 is b with one more order in its queues.                              *)
Added(b2, b, side, price, id, size, qid) ==
    /\ IsBook(b2) /\ IdsMatch(b2)
    /\ OnlyLevel(b2, b, side, price)
    /\ Size(b2, side, price, id) = size
    /\ \A x : x # id => Size(b2, side, price, x) = Size(b, side, price, x)
    /\ qid \in Nat \ {0} /\ qid \notin DOMAIN b.orderOf /\ \A sd \in Sides : qid # b.quoteQid[sd]
    /\ b2.orderOf = With(b.orderOf, qid, id)
    /\ DOMAIN b2.levels[side] = DOMAIN b.levels[side] \cup {price}
    /\ b2.levels[side][price].queue # <<>>

(* The queue ids still match the orders after an order joined under a new  *)
(* id.                                                                     *)
LEMMA IdAdded ==
    ASSUME NEW b, IsBook(b), IdsMatch(b), NEW side \in Sides, NEW price, NEW id,
           NEW size, size # 0, ~Queued(b, id), NEW qid \in Nat \ {0}, qid \notin DOMAIN b.orderOf,
           NEW b2, OnlyLevel(b2, b, side, price), b2.orderOf = With(b.orderOf, qid, id),
           Size(b2, side, price, id) = size,
           \A x : x # id => Size(b2, side, price, x) = Size(b, side, price, x)
    PROVE  IdsMatch(b2)
<1>1. \A q \in DOMAIN b.orderOf : b.orderOf[q] # id
    BY DEF IdsMatch
<1>2. /\ DOMAIN b2.orderOf = DOMAIN b.orderOf \cup {qid}
      /\ b2.orderOf[qid] = id
      /\ \A q \in DOMAIN b.orderOf : b2.orderOf[q] = b.orderOf[q]
    BY DEF With
<1>3. IsInjective(b2.orderOf)
    BY <1>1, <1>2 DEF IdsMatch, IsInjective
<1>4. ASSUME NEW x PROVE Queued(b2, x) <=> x = id \/ Queued(b, x)
    <2>1. CASE x = id
        BY <2>1 DEF Queued
    <2>2. CASE x # id
        <3>1. \A sd \in Sides : \A p : Size(b2, sd, p, x) = Size(b, sd, p, x)
            BY <2>2, SameSize
        <3> QED
            BY <2>2, <3>1 DEF Queued
    <2> QED
        BY <2>1, <2>2
<1>5. ASSUME NEW x
      PROVE  Queued(b2, x) <=> \E q \in DOMAIN b2.orderOf : b2.orderOf[q] = x
    BY <1>2, <1>4 DEF IdsMatch
<1> QED
    BY <1>2, <1>3, <1>5 DEF IdsMatch

(* An order joins its level in turn: at the back after all older ones, at  *)
(* the front before all younger ones.                                      *)
InTurn(b, side, price, id, end) ==
    \A x \in Int : Size(b, side, price, x) # 0 => IF end = "back" THEN x < id ELSE id < x

(* An order placed in the book is there, once, with its size and a queue   *)
(* id of its own, and everything else is as it was.                        *)
LEMMA RestAdds ==
    ASSUME NEW b, IsBook(b), IdsMatch(b), NEW held, IsFiniteSet(held),
           NEW side \in Sides, NEW price, NEW id \in Int, NEW size \in Nat \ {0},
           ~Queued(b, id), NEW end, NEW r, r = Rest(b, held, side, price, id, size, end)
    PROVE  /\ Added(r.book, b, side, price, id, size, r.qid)
           /\ end = "front" => r.book.levels[side][price].queue[1] = id
           /\ end = "back" /\ price \in DOMAIN b.levels[side] /\ b.levels[side][price].queue # <<>>
                 => r.book.levels[side][price].queue[1] = b.levels[side][price].queue[1]
           /\ Ascends(b, side, price) /\ InTurn(b, side, price, id, end)
                 => Ascends(r.book, side, price)
<1> DEFINE opened == AddLevel(b, side, price)
           level == opened.levels[side][price]
           qid == FreshQueueId(b, held)
           placed == IF end = "back" THEN AtBack(level, id, size) ELSE AtFront(level, id, size)
           set == SetLevel(opened, side, price, placed)
           b2 == [set EXCEPT !.orderOf = With(@, qid, id)]
<1>1. /\ IsBook(opened) /\ OnlyLevel(opened, b, side, price)
      /\ DOMAIN opened.levels[side] = DOMAIN b.levels[side] \cup {price}
      /\ \A x : Size(opened, side, price, x) = Size(b, side, price, x)
      /\ opened.orderOf = b.orderOf
      /\ price \in DOMAIN b.levels[side] => opened = b
    BY LevelAdded
<1> HIDE DEF opened
<1>2. Sound(level)
    BY <1>1 DEF IsBook
<1>3. id \notin DOMAIN level.sizes /\ id \notin DOMAIN level.position
    <2>1. Size(opened, side, price, id) = 0
        BY <1>1 DEF Queued
    <2>2. id \notin DOMAIN level.sizes
        BY <1>1, <2>1, SizeType
    <2> QED
        BY <1>2, <2>2 DEF Sound
<1> HIDE DEF level
<1>4. qid \in Nat \ {0} /\ qid \notin DOMAIN b.orderOf /\ \A sd \in Sides : qid # b.quoteQid[sd]
    BY FreshIsNew
<1> HIDE DEF qid
<1>5. /\ Sound(placed) /\ placed.sizes = With(level.sizes, id, size)
      /\ placed.queue = IF end = "back" THEN Append(level.queue, id) ELSE <<id>> \o level.queue
    <2>1. CASE end = "back"
        BY <1>2, <1>3, <2>1, SoundAtBack DEF AtBack
    <2>2. CASE end # "back"
        BY <1>2, <1>3, <2>2, SoundAtFront DEF AtFront
    <2> QED
        BY <2>1, <2>2
<1> HIDE DEF placed
<1>6. /\ IsBook(set) /\ OnlyLevel(set, opened, side, price)
      /\ DOMAIN set.levels[side] = DOMAIN b.levels[side] \cup {price}
      /\ set.levels[side][price] = placed
      /\ set.orderOf = b.orderOf
    BY <1>1, <1>5, LevelSet
<1> HIDE DEF set
<1>7. IsFiniteSet(DOMAIN With(set.orderOf, qid, id))
    <2>1. DOMAIN With(set.orderOf, qid, id) = DOMAIN b.orderOf \cup {qid}
        BY <1>6 DEF With
    <2>2. IsFiniteSet(DOMAIN b.orderOf)
        BY DEF IsBook
    <2> QED
        BY <2>1, <2>2, FS_AddElement
<1>8. /\ IsBook(b2) /\ b2.levels = set.levels /\ b2.orderOf = With(b.orderOf, qid, id)
      /\ b2.quoteQid = set.quoteQid /\ b2.quotePrice = set.quotePrice
    <2>1. b2 = [set EXCEPT !.orderOf = With(set.orderOf, qid, id)]
        BY <1>6 DEF IsBook
    <2> QED
        BY <1>6, <1>7, <2>1, IdsSet
<1>9. r = [book |-> b2, qid |-> qid]
    BY <1>3 DEF Rest, set, placed, level, opened, qid
<1> HIDE DEF b2
<1>10. OnlyLevel(b2, b, side, price)
    BY <1>1, <1>6, <1>8 DEF OnlyLevel
<1>11. /\ Size(b2, side, price, id) = size
       /\ \A x : x # id => Size(b2, side, price, x) = Size(b, side, price, x)
    <2>1. Size(b2, side, price, id) = size
        BY <1>5, <1>6, <1>8 DEF Size, With
    <2>2. ASSUME NEW x, x # id PROVE Size(b2, side, price, x) = Size(opened, side, price, x)
        BY <1>1, <1>5, <1>6, <1>8, <2>2 DEF Size, With, level
    <2> QED
        BY <1>1, <2>1, <2>2
<1>12. IdsMatch(b2)
    BY <1>4, <1>8, <1>10, <1>11, IdAdded
<1>13. b2.levels[side][price].queue = placed.queue /\ placed.queue # <<>>
    <2>1. level.queue \in Seq(Int)
        BY <1>2 DEF Sound
    <2>2. Append(level.queue, id) # <<>> /\ <<id>> \o level.queue # <<>>
        BY <2>1
    <2>3. placed.queue # <<>>
        BY <1>5, <2>2
    <2> QED
        BY <1>6, <1>8, <2>3
<1>14. Added(b2, b, side, price, id, size, qid)
    BY <1>4, <1>6, <1>8, <1>10, <1>11, <1>12, <1>13 DEF Added
<1>15. end = "front" => b2.levels[side][price].queue[1] = id
    <2>1. level.queue \in Seq(Int)
        BY <1>2 DEF Sound
    <2> QED
        BY <1>5, <1>13, <2>1, SMTT(30)
<1>16. end = "back" /\ price \in DOMAIN b.levels[side] /\ b.levels[side][price].queue # <<>>
          => b2.levels[side][price].queue[1] = b.levels[side][price].queue[1]
    <2> SUFFICES ASSUME end = "back", price \in DOMAIN b.levels[side],
                        b.levels[side][price].queue # <<>>
                 PROVE  b2.levels[side][price].queue[1] = b.levels[side][price].queue[1]
        OBVIOUS
    <2>1. level = b.levels[side][price] /\ level.queue \in Seq(Int)
        BY <1>1, <1>2 DEF Sound, level
    <2>2. Len(level.queue) \in Nat \ {0}
        BY <2>1
    <2> QED
        BY <1>5, <1>13, <2>1, <2>2
<1>17. Ascends(b, side, price) /\ InTurn(b, side, price, id, end) => Ascends(b2, side, price)
    <2> SUFFICES ASSUME Ascends(b, side, price), InTurn(b, side, price, id, end)
                 PROVE  Ascends(b2, side, price)
        OBVIOUS
    <2> DEFINE q == level.queue
               r2 == placed.queue
               m == Len(q)
    <2>1. /\ q \in Seq(Int) /\ m \in Nat /\ \A i \in 1..m : q[i] \in Int
          /\ \A i \in 1..m : q[i] \in DOMAIN level.sizes
        BY <1>2, SoundFacts DEF Sound
    <2>2. \A i, j \in 1..m : i < j => q[i] < q[j]
        <3>1. CASE price \in DOMAIN b.levels[side]
            BY <1>1, <3>1 DEF Ascends, level
        <3>2. CASE price \notin DOMAIN b.levels[side]
            <4>1. level = NewLevel
                BY <3>2, LevelAdded DEF level, opened
            <4> QED
                BY <4>1 DEF NewLevel
        <3> QED
            BY <3>1, <3>2
    <2>3. ASSUME NEW i \in 1..m PROVE IF end = "back" THEN q[i] < id ELSE id < q[i]
        <3>1. Size(opened, side, price, q[i]) # 0
            BY <1>1, <2>1, SizeType DEF level
        <3>2. Size(b, side, price, q[i]) # 0
            BY <1>1, <3>1
        <3> QED
            BY <2>1, <3>2 DEF InTurn
    <2> HIDE DEF q, r2, m
    <2>4. \A i, j \in 1..Len(r2) : i < j => r2[i] < r2[j]
        <3>1. CASE end = "back"
            <4>1. /\ Len(r2) = m + 1 /\ r2[m + 1] = id /\ \A i \in 1..m : r2[i] = q[i]
                BY <1>5, <2>1, <3>1 DEF q, r2, m
            <4>2. ASSUME NEW i \in 1..(m + 1), NEW j \in 1..(m + 1), i < j PROVE r2[i] < r2[j]
                <5>1. i \in 1..m
                    BY <2>1, <4>2
                <5>11. q[i] < id /\ r2[i] = q[i]
                    BY <2>3, <3>1, <4>1, <5>1
                <5>2. j \in 1..m \/ j = m + 1
                    BY <2>1
                <5> QED
                    BY <2>2, <4>1, <4>2, <5>1, <5>11, <5>2
            <4> QED
                BY <4>1, <4>2
        <3>2. CASE end # "back"
            <4>1. /\ Len(r2) = m + 1 /\ r2[1] = id /\ \A i \in 1..m : r2[i + 1] = q[i]
                BY <1>5, <2>1, <3>2 DEF q, r2, m
            <4>2. \A i \in 1..(m + 1) : i = 1 \/ (i - 1 \in 1..m /\ r2[i] = q[i - 1])
                BY <2>1, <4>1
            <4>3. ASSUME NEW i \in 1..(m + 1), NEW j \in 1..(m + 1), i < j PROVE r2[i] < r2[j]
                <5>1. j - 1 \in 1..m /\ r2[j] = q[j - 1] /\ id < q[j - 1]
                    BY <2>1, <2>3, <3>2, <4>2, <4>3
                <5>2. CASE i = 1
                    BY <4>1, <5>1, <5>2
                <5>3. CASE i # 1
                    <6>1. i - 1 \in 1..m /\ r2[i] = q[i - 1] /\ i - 1 < j - 1
                        BY <2>1, <4>2, <4>3, <5>3
                    <6> QED
                        BY <2>2, <5>1, <6>1
                <5> QED
                    BY <5>2, <5>3
            <4> QED
                BY <4>1, <4>3
        <3> QED
            BY <3>1, <3>2
    <2> QED
        BY <1>13, <2>4 DEF Ascends, r2
<1> QED
    BY <1>9, <1>14, <1>15, <1>16, <1>17

(* The places of an order are those where it has a size.                   *)
LEMMA PlaceIff ==
    ASSUME NEW b, IsBook(b), NEW x
    PROVE  /\ \A sd \in Sides : \A p : <<sd, p>> \in Places(b, x) <=> Size(b, sd, p, x) # 0
           /\ \A place \in Places(b, x) : \E sd \in Sides : \E p : place = <<sd, p>>
<1>1. ASSUME NEW sd \in Sides, NEW p
      PROVE  <<sd, p>> \in Places(b, x) <=> Size(b, sd, p, x) # 0
    <2>1. p \in DOMAIN b.levels[sd] =>
             DOMAIN b.levels[sd][p].position = DOMAIN b.levels[sd][p].sizes
        BY DEF IsBook, Sound
    <2>2. <<sd, p>> \in Places(b, x) <=>
             p \in DOMAIN b.levels[sd] /\ x \in DOMAIN b.levels[sd][p].position
        BY DEF Places
    <2> QED
        BY <2>1, <2>2, SizeType
<1>2. ASSUME NEW place \in Places(b, x) PROVE \E sd \in Sides : \E p : place = <<sd, p>>
    BY DEF Places
<1> QED
    BY <1>1, <1>2

(* The smallest of one number.                                             *)
LEMMA OnlyOne ==
    ASSUME NEW j \in Int
    PROVE  Min({j}) = j
BY DEF Min

(* The place of an order in the queue is its recorded position.            *)
LEMMA IndexFound ==
    ASSUME NEW l, Sound(l), NEW id \in DOMAIN l.sizes
    PROVE  /\ IndexOf(l.queue, id) \in 1..Len(l.queue)
           /\ l.queue[IndexOf(l.queue, id)] = id
           /\ l.position[id] = IndexOf(l.queue, id)
<1>1. /\ Len(l.queue) \in Nat /\ DOMAIN l.queue = 1..Len(l.queue)
      /\ \A i, i2 \in 1..Len(l.queue) : l.queue[i] = l.queue[i2] => i = i2
    BY SoundFacts
<1>2. PICK j \in 1..Len(l.queue) : l.queue[j] = id
    BY <1>1 DEF Sound, Range
<1>3. {i \in DOMAIN l.queue : l.queue[i] = id} = {j}
    BY <1>1, <1>2
<1>4. IndexOf(l.queue, id) = j
    BY <1>1, <1>3, OnlyOne DEF IndexOf
<1>5. l.position[id] = j
    BY <1>1, <1>2 DEF Sound
<1> QED
    BY <1>2, <1>4, <1>5

(* b2 is b without one of its queued orders.                               *)
Removed(b2, b, side, price, id, qid) ==
    /\ IsBook(b2) /\ IdsMatch(b2)
    /\ OnlyLevel(b2, b, side, price)
    /\ Size(b2, side, price, id) = 0
    /\ \A x : x # id => Size(b2, side, price, x) = Size(b, side, price, x)
    /\ b2.orderOf = Without(b.orderOf, qid)
    /\ DOMAIN b2.levels[side] \subseteq DOMAIN b.levels[side]
    /\ price \in DOMAIN b2.levels[side] /\ b.levels[side][price].queue[1] # id
         => b2.levels[side][price].queue[1] = b.levels[side][price].queue[1]
    /\ KeepsAge(b2, b, side, price)

(* The queue ids still match the orders after an order left with its id.   *)
LEMMA IdRemoved ==
    ASSUME NEW b, IsBook(b), IdsMatch(b), NEW side \in Sides, NEW price, NEW id,
           NEW qid \in DOMAIN b.orderOf, b.orderOf[qid] = id,
           \A sd \in Sides : \A p : Size(b, sd, p, id) # 0 => sd = side /\ p = price,
           NEW b2, OnlyLevel(b2, b, side, price), b2.orderOf = Without(b.orderOf, qid),
           Size(b2, side, price, id) = 0,
           \A x : x # id => Size(b2, side, price, x) = Size(b, side, price, x)
    PROVE  IdsMatch(b2)
<1>1. /\ DOMAIN b2.orderOf = DOMAIN b.orderOf \ {qid}
      /\ \A q \in DOMAIN b2.orderOf : b2.orderOf[q] = b.orderOf[q]
    BY DEF Without
<1>2. IsInjective(b2.orderOf)
    BY <1>1 DEF IdsMatch, IsInjective
<1>3. ASSUME NEW x PROVE Queued(b2, x) <=> x # id /\ Queued(b, x)
    <2>1. CASE x = id
        <3>1. \A sd \in Sides : \A p : Size(b2, sd, p, id) = 0
            <4> SUFFICES ASSUME NEW sd \in Sides, NEW p PROVE Size(b2, sd, p, id) = 0
                OBVIOUS
            <4>1. CASE sd = side /\ p = price
                BY <4>1
            <4>2. CASE sd # side \/ p # price
                <5>1. Size(b2, sd, p, id) = Size(b, sd, p, id)
                    BY <4>2, SameSize
                <5> QED
                    BY <4>2, <5>1
            <4> QED
                BY <4>1, <4>2
        <3> QED
            BY <2>1, <3>1 DEF Queued
    <2>2. CASE x # id
        <3>1. \A sd \in Sides : \A p : Size(b2, sd, p, x) = Size(b, sd, p, x)
            BY <2>2, SameSize
        <3> QED
            BY <2>2, <3>1 DEF Queued
    <2> QED
        BY <2>1, <2>2
<1>4. ASSUME NEW x
      PROVE  Queued(b2, x) <=> \E q \in DOMAIN b2.orderOf : b2.orderOf[q] = x
    <2>1. \A q \in DOMAIN b.orderOf : b.orderOf[q] = id => q = qid
        BY DEF IdsMatch, IsInjective
    <2>2. (\E q \in DOMAIN b2.orderOf : b2.orderOf[q] = x) <=>
             x # id /\ \E q \in DOMAIN b.orderOf : b.orderOf[q] = x
        BY <1>1, <2>1
    <2> QED
        BY <1>3, <2>2 DEF IdsMatch
<1> QED
    BY <1>1, <1>2, <1>4 DEF IdsMatch

(* The level of an order that leaves, the empty level included.            *)
Unqueues(b2, b, side, price, j, pos, qid) ==
    /\ pos \in {j - 1, j}
    /\ b2 = [SetLevel(b, side, price, Unqueue(b.levels[side][price], j, pos))
                EXCEPT !.orderOf = Without(b.orderOf, qid)]

(* id has one place, the j-th of the queue at price, under the id qid.     *)
Stands(b, side, price, id, j, qid) ==
    /\ qid \in DOMAIN b.orderOf /\ b.orderOf[qid] = id
    /\ \A sd \in Sides : \A p : Size(b, sd, p, id) # 0 => sd = side /\ p = price
    /\ price \in DOMAIN b.levels[side]
    /\ j \in 1..Len(b.levels[side][price].queue) /\ b.levels[side][price].queue[j] = id

(* The others stay in order of age when one leaves.                        *)
LEMMA AgeLeft ==
    ASSUME NEW b, NEW side, NEW price, NEW b2,
           price \in DOMAIN b.levels[side], Sound(b.levels[side][price]),
           NEW j \in 1..Len(b.levels[side][price].queue),
           Leaves(b2.levels[side][price], b.levels[side][price], j)
    PROVE  KeepsAge(b2, b, side, price)
<1> DEFINE q == b.levels[side][price].queue
           r == b2.levels[side][price].queue
           n == Len(q)
<1>1. /\ n \in Nat /\ q \in Seq(Int) /\ \A i \in 1..n : q[i] \in Int
      /\ Len(r) = n - 1
      /\ \A i \in 1..(n - 1) : /\ i < j => r[i] = q[i]
                               /\ i >= j => r[i] = q[i + 1]
    BY SoundFacts DEF Leaves, Sound
<1> SUFFICES ASSUME Ascends(b, side, price) PROVE Ascends(b2, side, price)
    BY DEF KeepsAge
<1>2. \A i, k \in 1..n : i < k => q[i] < q[k]
    BY DEF Ascends
<1> HIDE DEF q, r, n
<1>3. ASSUME NEW i \in 1..(n - 1), NEW k \in 1..(n - 1), i < k PROVE r[i] < r[k]
    <2> DEFINE u == IF i < j THEN i ELSE i + 1
               v == IF k < j THEN k ELSE k + 1
    <2>1. r[i] = q[u] /\ r[k] = q[v]
        BY <1>1
    <2>2. u \in 1..n /\ v \in 1..n /\ u < v
        BY <1>1, <1>3
    <2> HIDE DEF u, v
    <2> QED
        BY <1>2, <2>1, <2>2
<1>4. Len(r) = n - 1
    BY <1>1
<1> QED
    BY <1>3, <1>4 DEF Ascends, r

(* Taking an order out of its level removes it, and its queue id, and      *)
(* nothing else.                                                           *)
LEMMA Unqueued ==
    ASSUME NEW b, IsBook(b), IdsMatch(b), NEW side \in Sides, NEW price, NEW id, NEW j, NEW qid,
           Stands(b, side, price, id, j, qid), NEW pos,
           NEW b2, Unqueues(b2, b, side, price, j, pos, qid)
    PROVE  /\ Removed(b2, b, side, price, id, qid)
           /\ DOMAIN b2.levels[side] = DOMAIN b.levels[side]
           /\ b2.levels[side][price].queue = RemoveAt(b.levels[side][price].queue, j)
<1>0. /\ qid \in DOMAIN b.orderOf /\ b.orderOf[qid] = id
      /\ \A sd \in Sides : \A p : Size(b, sd, p, id) # 0 => sd = side /\ p = price
      /\ price \in DOMAIN b.levels[side]
      /\ j \in 1..Len(b.levels[side][price].queue) /\ b.levels[side][price].queue[j] = id
      /\ pos \in {j - 1, j}
    BY DEF Stands, Unqueues
<1> USE <1>0
<1> DEFINE l == b.levels[side][price]
           m == Unqueue(l, j, pos)
           set == SetLevel(b, side, price, m)
<1>1. Sound(l)
    BY DEF IsBook
<1>2. /\ Sound(m) /\ Leaves(m, l, j) /\ m.sizes = Without(l.sizes, id)
    BY <1>1, SoundUnqueue
<1>3. m.queue = RemoveAt(l.queue, j)
    BY DEF Unqueue
<1> HIDE DEF m
<1>4. /\ IsBook(set) /\ OnlyLevel(set, b, side, price)
      /\ DOMAIN set.levels[side] = DOMAIN b.levels[side] \cup {price}
      /\ set.levels[side][price] = m
      /\ set.orderOf = b.orderOf
    BY <1>2, LevelSet
<1> HIDE DEF set
<1> DEFINE f == Without(b.orderOf, qid)
<1>5. IsFiniteSet(DOMAIN f)
    <2>1. DOMAIN f \subseteq DOMAIN b.orderOf
        BY DEF Without
    <2> QED
        BY <2>1, FS_Subset DEF IsBook
<1>51. b2 = [set EXCEPT !.orderOf = f]
    BY DEF set, m, Unqueues
<1> HIDE DEF f
<1>6. /\ IsBook(b2) /\ b2.levels = set.levels /\ b2.orderOf = Without(b.orderOf, qid)
      /\ b2.quoteQid = set.quoteQid /\ b2.quotePrice = set.quotePrice
    <2>1. /\ IsBook(b2) /\ b2.levels = set.levels /\ b2.orderOf = f
          /\ b2.quoteQid = set.quoteQid /\ b2.quotePrice = set.quotePrice
        <3>1. /\ DOMAIN b2 = {"levels", "orderOf", "quoteQid", "quotePrice"}
              /\ b2.levels = set.levels /\ b2.orderOf = f
              /\ b2.quoteQid = set.quoteQid /\ b2.quotePrice = set.quotePrice
            BY <1>4, <1>51 DEF IsBook
        <3> QED
            BY <1>4, <1>5, <3>1 DEF IsBook
    <2> QED
        BY <2>1 DEF f
<1>7. OnlyLevel(b2, b, side, price)
    BY <1>4, <1>6 DEF OnlyLevel
<1>8. DOMAIN b2.levels[side] = DOMAIN b.levels[side] /\ b2.levels[side][price] = m
    BY <1>4, <1>6
<1>9. /\ Size(b2, side, price, id) = 0
      /\ \A x : x # id => Size(b2, side, price, x) = Size(b, side, price, x)
    <2>1. DOMAIN m.sizes = DOMAIN l.sizes \ {id} /\ \A x \in DOMAIN m.sizes : m.sizes[x] = l.sizes[x]
        BY <1>2 DEF Without
    <2>2. Size(b2, side, price, id) = 0
        BY <1>8, <2>1 DEF Size
    <2>3. ASSUME NEW x, x # id PROVE Size(b2, side, price, x) = Size(b, side, price, x)
        BY <1>8, <2>1, <2>3 DEF Size
    <2> QED
        BY <2>2, <2>3
<1>10. IdsMatch(b2)
    BY <1>6, <1>7, <1>9, IdRemoved
<1>11. price \in DOMAIN b2.levels[side] /\ l.queue[1] # id => b2.levels[side][price].queue[1] = l.queue[1]
    <2> SUFFICES ASSUME l.queue[1] # id PROVE m.queue[1] = l.queue[1]
        BY <1>8
    <2>1. j > 1 /\ Len(l.queue) \in Nat /\ l.queue \in Seq(Int)
        BY <1>1 DEF Sound
    <2>2. 1 \in 1..(Len(l.queue) - 1)
        BY <2>1
    <2> QED
        BY <1>2, <2>1, <2>2 DEF Leaves
<1>12. KeepsAge(b2, b, side, price)
    <2>1. Leaves(b2.levels[side][price], b.levels[side][price], j)
        BY <1>2, <1>8
    <2> HIDE DEF l
    <2> QED
        BY <1>1, <2>1, AgeLeft DEF l
<1> QED
    BY <1>3, <1>6, <1>7, <1>8, <1>9, <1>10, <1>11, <1>12 DEF Removed

(* b2 is b after orders left the queue of one price or lost size there.    *)
Shrunk(b2, b, side, price) ==
    /\ IsBook(b2) /\ IdsMatch(b2)
    /\ OnlyLevel(b2, b, side, price)
    /\ DOMAIN b2.levels[side] \subseteq DOMAIN b.levels[side]
    /\ \A x : Size(b2, side, price, x) <= Size(b, side, price, x)
    /\ \A q \in DOMAIN b2.orderOf : q \in DOMAIN b.orderOf /\ b2.orderOf[q] = b.orderOf[q]
    /\ \A x : Size(b2, side, price, x) # 0 /\ b.levels[side][price].queue[1] = x
                 => b2.levels[side][price].queue[1] = x
    /\ KeepsAge(b2, b, side, price)

(* A removal only shrinks a level.                                         *)
LEMMA RemovedShrunk ==
    ASSUME NEW b, IsBook(b), NEW side \in Sides, NEW price, NEW id, NEW qid, NEW b2,
           Removed(b2, b, side, price, id, qid)
    PROVE  Shrunk(b2, b, side, price)
<1>1. /\ IsBook(b2) /\ IdsMatch(b2)
      /\ OnlyLevel(b2, b, side, price)
      /\ Size(b2, side, price, id) = 0
      /\ \A x : x # id => Size(b2, side, price, x) = Size(b, side, price, x)
      /\ b2.orderOf = Without(b.orderOf, qid)
      /\ DOMAIN b2.levels[side] \subseteq DOMAIN b.levels[side]
      /\ price \in DOMAIN b2.levels[side] /\ b.levels[side][price].queue[1] # id
           => b2.levels[side][price].queue[1] = b.levels[side][price].queue[1]
      /\ KeepsAge(b2, b, side, price)
    BY DEF Removed
<1>2. ASSUME NEW x PROVE Size(b2, side, price, x) <= Size(b, side, price, x)
    <2>1. Size(b, side, price, x) \in Nat /\ Size(b2, side, price, x) \in Nat
        BY <1>1, SizeType
    <2> QED
        BY <1>1, <2>1
<1>3. ASSUME NEW q \in DOMAIN b2.orderOf
      PROVE  q \in DOMAIN b.orderOf /\ b2.orderOf[q] = b.orderOf[q]
    BY <1>1 DEF Without
<1>4. ASSUME NEW x, Size(b2, side, price, x) # 0, b.levels[side][price].queue[1] = x
      PROVE  b2.levels[side][price].queue[1] = x
    <2>1. x # id /\ price \in DOMAIN b2.levels[side]
        BY <1>1, <1>4, SizeType
    <2> QED
        BY <1>1, <1>4, <2>1
<1> QED
    BY <1>1, <1>2, <1>3, <1>4 DEF Shrunk

(* An order that leaves a book, by its queue id.                           *)
LEMMA CancelRemoves ==
    ASSUME NEW b, IsBook(b), IdsMatch(b), NoEmptyLevel(b), NEW side \in Sides, NEW price, NEW id,
           NEW qid \in DOMAIN b.orderOf, b.orderOf[qid] = id,
           \A sd \in Sides : \A p : Size(b, sd, p, id) # 0 => sd = side /\ p = price,
           NEW b2, b2 = RemoveLevelIfEmpty(CancelQueued(b, qid), side, price)
    PROVE  Removed(b2, b, side, price, id, qid) /\ NoEmptyLevel(b2)
<1> DEFINE l == b.levels[side][price]
           places == Places(b, id)
           c == CancelQueued(b, qid)
           j == IndexOf(l.queue, id)
<1>1. Size(b, side, price, id) # 0
    BY DEF IdsMatch, Queued
<1>2. price \in DOMAIN b.levels[side] /\ id \in DOMAIN l.sizes /\ Sound(l)
    BY <1>1, SizeType DEF IsBook
<1>3. places = {<<side, price>>}
    <2>1. <<side, price>> \in places
        BY <1>1, PlaceIff
    <2>2. ASSUME NEW place \in places PROVE place = <<side, price>>
        <3>1. PICK sd \in Sides : \E p : place = <<sd, p>>
            BY PlaceIff
        <3>2. PICK p : place = <<sd, p>>
            BY <3>1
        <3>3. Size(b, sd, p, id) # 0
            BY <3>2, PlaceIff
        <3> QED
            BY <3>2, <3>3
    <2> HIDE DEF places
    <2> QED
        BY <2>1, <2>2
<1>4. /\ j \in 1..Len(l.queue) /\ l.queue[j] = id /\ l.position[id] = j
    BY <1>2, IndexFound, SMTT(30)
<1>5. Unqueues(c, b, side, price, j, l.position[id], qid)
    <2>1. (CHOOSE p \in places : TRUE) = <<side, price>>
        BY <1>3
    <2>2. SetLevel(b, side, price, Unqueue(l, j, l.position[id])).orderOf = b.orderOf
        BY DEF SetLevel, IsBook
    <2>3. places # {}
        BY <1>3, ZenonT(30)
    <2> DEFINE place == CHOOSE p \in places : TRUE
    <2>4. place[1] = side /\ place[2] = price
        <3>1. place = <<side, price>>
            BY <2>1
        <3> HIDE DEF place
        <3> QED
            BY <3>1
    <2> HIDE DEF places, place
    <2>5. c = [SetLevel(b, place[1], place[2],
                        Unqueue(b.levels[place[1]][place[2]],
                                IndexOf(b.levels[place[1]][place[2]].queue, id),
                                b.levels[place[1]][place[2]].position[id]))
                  EXCEPT !.orderOf = Without(@, qid)]
        BY <2>3, ZenonT(30) DEF CancelQueued, places, place
    <2>6. c = [SetLevel(b, side, price, Unqueue(l, j, l.position[id])) EXCEPT !.orderOf = Without(@, qid)]
        BY <2>4, <2>5, ZenonT(30)
    <2> QED
        BY <1>4, <2>2, <2>6 DEF Unqueues
<1>6. /\ Removed(c, b, side, price, id, qid)
      /\ DOMAIN c.levels[side] = DOMAIN b.levels[side]
      /\ c.levels[side][price].queue = RemoveAt(l.queue, j)
    <2>1. Stands(b, side, price, id, j, qid)
        BY <1>2, <1>4 DEF Stands
    <2> HIDE DEF c
    <2> QED
        BY <1>5, <2>1, Unqueued
<1> HIDE DEF c
<1>7. /\ IsBook(c) /\ IdsMatch(c) /\ OnlyLevel(c, b, side, price)
      /\ Size(c, side, price, id) = 0
      /\ \A x : x # id => Size(c, side, price, x) = Size(b, side, price, x)
      /\ c.orderOf = Without(b.orderOf, qid)
    BY <1>6 DEF Removed
<1>8. \A sd \in Sides : \A p \in DOMAIN c.levels[sd] :
         sd # side \/ p # price => c.levels[sd][p].queue # <<>>
    BY <1>7 DEF OnlyLevel, NoEmptyLevel
<1>9. CASE c.levels[side][price].queue = <<>>
    <2>1. Sound(c.levels[side][price]) /\ price \in DOMAIN c.levels[side]
        BY <1>2, <1>6, <1>7 DEF IsBook
    <2>2. c.levels[side][price].total = 0
        <3>1. QueueSizes(c.levels[side][price]) =
                 [i \in DOMAIN c.levels[side][price].queue |->
                     c.levels[side][price].sizes[c.levels[side][price].queue[i]]]
            BY DEF QueueSizes
        <3>2. DOMAIN QueueSizes(c.levels[side][price]) = 1..0
            BY <1>9, <3>1
        <3>3. Total(QueueSizes(c.levels[side][price])) = 0
            BY <3>2, TotalNone
        <3> QED
            BY <2>1, <3>3 DEF Sound
    <2>3. b2 = DropLevel(c, side, price)
        BY <1>9, <2>1, <2>2 DEF RemoveLevelIfEmpty, HasLevel, c
    <2>4. /\ IsBook(b2) /\ OnlyLevel(b2, c, side, price)
          /\ DOMAIN b2.levels[side] = DOMAIN c.levels[side] \ {price}
          /\ b2.orderOf = c.orderOf
        BY <1>7, <2>3, LevelDropped
    <2>5. DOMAIN c.levels[side][price].sizes = {}
        BY <1>9, <2>1 DEF Sound, Range
    <2>6. \A x : Size(c, side, price, x) = 0 /\ Size(b2, side, price, x) = 0
        BY <2>4, <2>5 DEF Size
    <2>7. OnlyLevel(b2, b, side, price)
        BY <1>7, <2>4 DEF OnlyLevel
    <2>8. IdsMatch(b2)
        <3>1. \A x : Queued(b2, x) <=> Queued(c, x)
            <4> SUFFICES ASSUME NEW x PROVE Queued(b2, x) <=> Queued(c, x)
                OBVIOUS
            <4>1. \A sd \in Sides : \A p : Size(b2, sd, p, x) = Size(c, sd, p, x)
                <5> SUFFICES ASSUME NEW sd \in Sides, NEW p PROVE Size(b2, sd, p, x) = Size(c, sd, p, x)
                    OBVIOUS
                <5>1. CASE sd = side /\ p = price
                    BY <2>6, <5>1
                <5>2. CASE sd # side \/ p # price
                    BY <2>4, <5>2, SameSize
                <5> QED
                    BY <5>1, <5>2
            <4> QED
                BY <4>1 DEF Queued
        <3> QED
            BY <1>7, <2>4, <3>1 DEF IdsMatch
    <2>9. NoEmptyLevel(b2)
        BY <1>8, <2>4 DEF NoEmptyLevel, OnlyLevel
    <2>10. Removed(b2, b, side, price, id, qid)
        <3>1. /\ DOMAIN b2.levels[side] \subseteq DOMAIN b.levels[side]
              /\ price \notin DOMAIN b2.levels[side] /\ KeepsAge(b2, b, side, price)
            BY <1>6, <2>4 DEF KeepsAge, Ascends
        <3>2. \A x : x # id => Size(b2, side, price, x) = Size(b, side, price, x)
            BY <1>7, <2>6
        <3> QED
            BY <1>7, <2>4, <2>6, <2>7, <2>8, <3>1, <3>2 DEF Removed
    <2> QED
        BY <2>9, <2>10
<1>10. CASE c.levels[side][price].queue # <<>>
    <2>1. b2 = c
        BY <1>10 DEF RemoveLevelIfEmpty, c
    <2>2. NoEmptyLevel(c)
        BY <1>8, <1>10 DEF NoEmptyLevel
    <2> QED
        BY <1>6, <2>1, <2>2
<1> QED
    BY <1>9, <1>10

(* No order rests at two places.                                           *)
Single(b) ==
    \A x : \A sd, sd2 \in Sides : \A p, p2 :
        Size(b, sd, p, x) # 0 /\ Size(b, sd2, p2, x) # 0 => sd = sd2 /\ p = p2

(* What is in a book that shrank was in the book.                          *)
LEMMA ShrunkSizes ==
    ASSUME NEW b, IsBook(b), NEW side \in Sides, NEW price, NEW b2, Shrunk(b2, b, side, price)
    PROVE  \A sd \in Sides : \A p, x : Size(b2, sd, p, x) # 0 => Size(b, sd, p, x) # 0
<1> SUFFICES ASSUME NEW sd \in Sides, NEW p, NEW x, Size(b2, sd, p, x) # 0
             PROVE  Size(b, sd, p, x) # 0
    OBVIOUS
<1>1. IsBook(b2) /\ OnlyLevel(b2, b, side, price)
    BY DEF Shrunk
<1>2. CASE sd = side /\ p = price
    <2>1. Size(b2, side, price, x) <= Size(b, side, price, x)
        BY DEF Shrunk
    <2>2. Size(b2, side, price, x) \in Nat /\ Size(b, side, price, x) \in Nat
        BY <1>1, SizeType
    <2> QED
        BY <1>2, <2>1, <2>2
<1>3. CASE sd # side \/ p # price
    BY <1>1, <1>3, SameSize
<1> QED
    BY <1>2, <1>3

(* In a book that shrank no order is in two places.                        *)
LEMMA ShrunkSingle ==
    ASSUME NEW b, IsBook(b), Single(b), NEW side \in Sides, NEW price, NEW b2,
           Shrunk(b2, b, side, price)
    PROVE  Single(b2)
<1>1. \A sd \in Sides : \A p, x : Size(b2, sd, p, x) # 0 => Size(b, sd, p, x) # 0
    BY ShrunkSizes
<1> QED
    BY <1>1 DEF Single

(* A level that shrank twice shrank.                                       *)
LEMMA ShrunkTwice ==
    ASSUME NEW b, IsBook(b), NEW side \in Sides, NEW price, NEW b2, Shrunk(b2, b, side, price),
           NEW b3, Shrunk(b3, b2, side, price)
    PROVE  Shrunk(b3, b, side, price)
<1>1. /\ IsBook(b2) /\ OnlyLevel(b2, b, side, price)
      /\ DOMAIN b2.levels[side] \subseteq DOMAIN b.levels[side]
      /\ \A x : Size(b2, side, price, x) <= Size(b, side, price, x)
      /\ \A q \in DOMAIN b2.orderOf : q \in DOMAIN b.orderOf /\ b2.orderOf[q] = b.orderOf[q]
      /\ \A x : Size(b2, side, price, x) # 0 /\ b.levels[side][price].queue[1] = x
                   => b2.levels[side][price].queue[1] = x
      /\ KeepsAge(b2, b, side, price)
    BY DEF Shrunk
<1>2. /\ IsBook(b3) /\ IdsMatch(b3) /\ OnlyLevel(b3, b2, side, price)
      /\ DOMAIN b3.levels[side] \subseteq DOMAIN b2.levels[side]
      /\ \A x : Size(b3, side, price, x) <= Size(b2, side, price, x)
      /\ \A q \in DOMAIN b3.orderOf : q \in DOMAIN b2.orderOf /\ b3.orderOf[q] = b2.orderOf[q]
      /\ \A x : Size(b3, side, price, x) # 0 /\ b2.levels[side][price].queue[1] = x
                   => b3.levels[side][price].queue[1] = x
      /\ KeepsAge(b3, b2, side, price)
    BY DEF Shrunk
<1>3. OnlyLevel(b3, b, side, price)
    BY <1>1, <1>2 DEF OnlyLevel
<1>4. \A x : /\ Size(b, side, price, x) \in Nat
             /\ Size(b2, side, price, x) \in Nat
             /\ Size(b3, side, price, x) \in Nat
    BY <1>1, <1>2, SizeType
<1>5. ASSUME NEW x PROVE Size(b3, side, price, x) <= Size(b, side, price, x)
    BY <1>1, <1>2, <1>4
<1>6. ASSUME NEW x, Size(b3, side, price, x) # 0, b.levels[side][price].queue[1] = x
      PROVE  b3.levels[side][price].queue[1] = x
    <2>1. Size(b2, side, price, x) # 0
        BY <1>2, <1>4, <1>6
    <2> QED
        BY <1>1, <1>2, <1>6, <2>1
<1>7. KeepsAge(b3, b, side, price)
    BY <1>1, <1>2 DEF KeepsAge
<1> QED
    BY <1>1, <1>2, <1>3, <1>5, <1>6, <1>7 DEF Shrunk

(* The head of a queue leaves.                                             *)
LEMMA HeadLeaves ==
    ASSUME NEW b, IsBook(b), IdsMatch(b), Single(b), NEW side \in Sides,
           NEW price \in DOMAIN b.levels[side], b.levels[side][price].queue # <<>>,
           NEW head, head = b.levels[side][price].queue[1],
           NEW b2, b2 = DequeueHead(b, side, price)
    PROVE  /\ Shrunk(b2, b, side, price)
           /\ Size(b2, side, price, head) = 0
           /\ \A x : x # head => Size(b2, side, price, x) = Size(b, side, price, x)
           /\ DOMAIN b2.levels[side] = DOMAIN b.levels[side]
           /\ b2.levels[side][price].queue = RemoveAt(b.levels[side][price].queue, 1)
<1> DEFINE l == b.levels[side][price]
           qids == {q \in DOMAIN b.orderOf : b.orderOf[q] = head}
<1>1. Sound(l) /\ l.queue \in Seq(Int) /\ l.queue # <<>>
    BY DEF IsBook, Sound
<1>2. 1 \in 1..Len(l.queue) /\ Head(l.queue) = head /\ l.queue[1] = head
    BY <1>1
<1>3. head \in DOMAIN l.sizes
    BY <1>1, <1>2, SoundFacts
<1>4. Size(b, side, price, head) # 0
    BY <1>3, SizeType
<1>5. PICK qid \in DOMAIN b.orderOf : b.orderOf[qid] = head
    BY <1>4 DEF IdsMatch, Queued
<1>6. qids = {qid} /\ qid \in Int
    BY <1>5 DEF IdsMatch, IsInjective
<1>7. Min(qids) = qid /\ qids # {}
    BY <1>6, OnlyOne
<1>8. \A sd \in Sides : \A p : Size(b, sd, p, head) # 0 => sd = side /\ p = price
    BY <1>4 DEF Single
<1>9. Stands(b, side, price, head, 1, qid)
    BY <1>2, <1>5, <1>8 DEF Stands
<1>10. Unqueues(b2, b, side, price, 1, 0, qid)
    <2>1. SetLevel(b, side, price, Unqueue(l, 1, 0)).orderOf = b.orderOf
        BY DEF SetLevel, IsBook
    <2>2. b2 = [SetLevel(b, side, price, Unqueue(l, 1, 0))
                   EXCEPT !.orderOf = IF qids = {} THEN @ ELSE Without(@, Min(qids))]
        BY <1>2 DEF DequeueHead
    <2>3. 0 \in {1 - 1, 1}
        OBVIOUS
    <2> HIDE DEF qids
    <2> QED
        BY <1>7, <2>1, <2>2, <2>3 DEF Unqueues
<1>11. /\ Removed(b2, b, side, price, head, qid)
       /\ DOMAIN b2.levels[side] = DOMAIN b.levels[side]
       /\ b2.levels[side][price].queue = RemoveAt(b.levels[side][price].queue, 1)
    BY <1>9, <1>10, Unqueued
<1>12. Shrunk(b2, b, side, price)
    BY <1>11, RemovedShrunk
<1> QED
    BY <1>11, <1>12 DEF Removed

(* The head of a queue loses a part of its size.                           *)
LEMMA HeadReduced ==
    ASSUME NEW b, IsBook(b), IdsMatch(b), NEW side \in Sides,
           NEW price \in DOMAIN b.levels[side], NEW id \in DOMAIN b.levels[side][price].sizes,
           NEW q \in Nat, q < b.levels[side][price].sizes[id],
           NEW b2, b2 = SetLevel(b, side, price, Reduced(b.levels[side][price], id, q))
    PROVE  /\ Shrunk(b2, b, side, price)
           /\ Size(b2, side, price, id) = Size(b, side, price, id) - q
           /\ \A x : x # id => Size(b2, side, price, x) = Size(b, side, price, x)
           /\ DOMAIN b2.levels[side] = DOMAIN b.levels[side]
           /\ b2.levels[side][price].queue = b.levels[side][price].queue
<1> DEFINE l == b.levels[side][price]
           m == Reduced(l, id, q)
<1>1. Sound(l)
    BY DEF IsBook
<1>2. /\ Sound(m) /\ m.queue = l.queue
      /\ m.sizes = [l.sizes EXCEPT ![id] = l.sizes[id] - q]
    BY <1>1, SoundReduced
<1>3. l.sizes[id] \in Nat \ {0}
    BY <1>1 DEF Sound
<1> HIDE DEF m
<1>4. /\ IsBook(b2)
      /\ OnlyLevel(b2, b, side, price)
      /\ DOMAIN b2.levels[side] = DOMAIN b.levels[side] \cup {price}
      /\ b2.levels[side][price] = m
      /\ b2.orderOf = b.orderOf
    BY <1>2, LevelSet DEF m
<1>5. DOMAIN b2.levels[side] = DOMAIN b.levels[side]
    BY <1>4
<1>6. /\ Size(b2, side, price, id) = Size(b, side, price, id) - q
      /\ Size(b2, side, price, id) # 0 /\ Size(b, side, price, id) # 0
      /\ Size(b2, side, price, id) <= Size(b, side, price, id)
    BY <1>2, <1>3, <1>4 DEF Size
<1>7. \A x : x # id => Size(b2, side, price, x) = Size(b, side, price, x)
    BY <1>2, <1>4 DEF Size
<1>8. IdsMatch(b2)
    <2>1. \A x : Queued(b2, x) <=> Queued(b, x)
        <3> SUFFICES ASSUME NEW x PROVE Queued(b2, x) <=> Queued(b, x)
            OBVIOUS
        <3>1. \A sd \in Sides : \A p : Size(b2, sd, p, x) # 0 <=> Size(b, sd, p, x) # 0
            <4> SUFFICES ASSUME NEW sd \in Sides, NEW p
                         PROVE  Size(b2, sd, p, x) # 0 <=> Size(b, sd, p, x) # 0
                OBVIOUS
            <4>1. CASE sd = side /\ p = price
                BY <1>6, <1>7, <4>1
            <4>2. CASE sd # side \/ p # price
                BY <1>4, <4>2, SameSize
            <4> QED
                BY <4>1, <4>2
        <3> QED
            BY <3>1 DEF Queued
    <2> QED
        BY <1>4, <2>1 DEF IdsMatch
<1>9. \A x : Size(b2, side, price, x) <= Size(b, side, price, x)
    <2>1. \A x : Size(b, side, price, x) \in Nat
        BY SizeType
    <2> QED
        BY <1>6, <1>7, <2>1
<1>10. KeepsAge(b2, b, side, price)
    BY <1>2, <1>4, <1>5 DEF KeepsAge, Ascends
<1>11. Shrunk(b2, b, side, price)
    BY <1>2, <1>4, <1>5, <1>8, <1>9, <1>10 DEF Shrunk
<1> QED
    BY <1>2, <1>4, <1>5, <1>6, <1>7, <1>11

-----------------------------------------------------------------------------
(* What a level gives up *)

Takings == [id : Int, size : Nat \ {0}]

(* One more taking adds its size to what was taken.                        *)
LEMMA SizesAppend ==
    ASSUME NEW s \in Seq(Takings), NEW x \in Takings
    PROVE  /\ Append(s, x) \in Seq(Takings)
           /\ SizeOf(s) \in Nat
           /\ SizeOf(Append(s, x)) = SizeOf(s) + x.size
<1> DEFINE n == Len(s)
           t == Append(s, x)
           a == [i \in DOMAIN s |-> s[i].size]
           b == [i \in DOMAIN t |-> t[i].size]
<1>1. /\ n \in Nat /\ DOMAIN s = 1..n /\ \A i \in 1..n : s[i] \in Takings
      /\ t \in Seq(Takings) /\ DOMAIN t = 1..(n + 1) /\ t[n + 1] = x
      /\ \A i \in 1..n : t[i] = s[i]
    OBVIOUS
<1> HIDE DEF n, t
<1>2. \A y \in Takings : y.size \in Nat
    BY DEF Takings
<1>3. a \in [1..n -> Int] /\ a \in [1..n -> Nat] /\ \A i \in 1..n : a[i] = s[i].size
    BY <1>1, <1>2
<1>4. /\ b \in [1..(n + 1) -> Int] /\ b[n + 1] = x.size
      /\ \A i \in 1..n : b[i] = s[i].size
    <2>1. \A i \in 1..(n + 1) : t[i] \in Takings
        BY <1>1
    <2>2. n + 1 \in 1..(n + 1) /\ \A i \in 1..n : i \in 1..(n + 1)
        BY <1>1
    <2> QED
        BY <1>1, <1>2, <2>1, <2>2
<1> HIDE DEF a, b
<1>5. Inserted(b, a, n, n + 1)
    <2>1. n + 1 \in 1..(n + 1)
        BY <1>1
    <2>2. \A i \in 1..n : i < n + 1 /\ ~(i >= n + 1)
        BY <1>1
    <2> QED
        BY <1>3, <1>4, <2>1, <2>2 DEF Inserted
<1>6. Total(b) = Total(a) + b[n + 1]
    <2> DEFINE j == n + 1
    <2>1. Inserted(b, a, n, j)
        BY <1>5
    <2> HIDE DEF j
    <2>2. Total(b) = Total(a) + b[j]
        BY <1>1, <2>1, TotalInserted
    <2> QED
        BY <2>2 DEF j
<1>7. Total(a) \in Nat
    BY <1>1, <1>3, TotalType
<1> QED
    BY <1>1, <1>4, <1>6, <1>7 DEF SizeOf, a, b, t

(* Of no takings nothing was taken.                                        *)
LEMMA NothingTaken == <<>> \in Seq(Takings) /\ SizeOf(<<>>) = 0
<1> DEFINE a == [i \in DOMAIN <<>> |-> <<>>[i].size]
<1>1. DOMAIN a = 1..0
    OBVIOUS
<1> HIDE DEF a
<1>2. Total(a) = 0
    BY <1>1, TotalNone
<1> QED
    BY <1>2 DEF SizeOf, a

(* The orders of taken gave up what taken says at (side, price), and the   *)
(* others nothing.                                                         *)
Took(b2, b, side, price, taken) ==
    /\ taken \in Seq(Takings)
    /\ \A k \in DOMAIN taken :
          Size(b2, side, price, taken[k].id) = Size(b, side, price, taken[k].id) - taken[k].size
    /\ \A k, m \in DOMAIN taken : taken[k].id = taken[m].id => k = m
    /\ \A x : (\A k \in DOMAIN taken : taken[k].id # x)
                 => Size(b2, side, price, x) = Size(b, side, price, x)

(* One more order gave up a part of its size.                              *)
LEMMA TookMore ==
    ASSUME NEW b, IsBook(b), NEW side \in Sides, NEW price, NEW taken, NEW b2,
           Took(b2, b, side, price, taken), NEW b3,
           NEW id \in Int, \A k \in DOMAIN taken : taken[k].id # id,
           NEW size \in Nat \ {0},
           Size(b3, side, price, id) = Size(b2, side, price, id) - size,
           \A x : x # id => Size(b3, side, price, x) = Size(b2, side, price, x)
    PROVE  Took(b3, b, side, price, Append(taken, [id |-> id, size |-> size]))
<1> DEFINE t == [id |-> id, size |-> size]
           n == Len(taken)
           more == Append(taken, t)
<1>1. /\ t \in Takings /\ t.id = id /\ t.size = size
    BY DEF Takings
<1>2. taken \in Seq(Takings)
    BY DEF Took
<1> HIDE DEF t
<1>3. /\ n \in Nat /\ DOMAIN taken = 1..n
      /\ more \in Seq(Takings) /\ DOMAIN more = 1..(n + 1) /\ more[n + 1] = t
      /\ \A i \in 1..n : more[i] = taken[i]
    BY <1>1, <1>2
<1> HIDE DEF n, more
<1>4. /\ \A k \in 1..n :
            Size(b2, side, price, taken[k].id) = Size(b, side, price, taken[k].id) - taken[k].size
      /\ \A k, m \in 1..n : taken[k].id = taken[m].id => k = m
      /\ \A x : (\A k \in 1..n : taken[k].id # x)
                   => Size(b2, side, price, x) = Size(b, side, price, x)
    BY <1>3 DEF Took
<1>5. \A k \in 1..(n + 1) : k \in 1..n \/ k = n + 1
    BY <1>3
<1>6. ASSUME NEW k \in 1..(n + 1)
      PROVE  Size(b3, side, price, more[k].id) = Size(b, side, price, more[k].id) - more[k].size
    <2>1. CASE k \in 1..n
        <3>1. more[k] = taken[k] /\ taken[k].id # id
            BY <1>3, <2>1
        <3> QED
            BY <1>4, <2>1, <3>1
    <2>2. CASE k = n + 1
        <3>1. Size(b2, side, price, id) = Size(b, side, price, id)
            BY <1>3, <1>4
        <3> QED
            BY <1>1, <1>3, <2>2, <3>1
    <2> QED
        BY <1>5, <2>1, <2>2
<1>7. ASSUME NEW k \in 1..(n + 1), NEW m \in 1..(n + 1), more[k].id = more[m].id PROVE k = m
    <2>1. \A i \in 1..n : more[i].id = taken[i].id /\ taken[i].id # id
        BY <1>3
    <2>2. more[n + 1].id = id
        BY <1>1, <1>3
    <2> QED
        BY <1>4, <1>5, <1>7, <2>1, <2>2
<1>8. ASSUME NEW x, \A k \in 1..(n + 1) : more[k].id # x
      PROVE  Size(b3, side, price, x) = Size(b, side, price, x)
    <2>1. n + 1 \in 1..(n + 1) /\ \A i \in 1..n : i \in 1..(n + 1)
        BY <1>3
    <2>2. x # id /\ \A i \in 1..n : taken[i].id # x
        BY <1>1, <1>3, <1>8, <2>1
    <2> QED
        BY <1>4, <2>2
<1>9. Took(b3, b, side, price, more)
    BY <1>3, <1>6, <1>7, <1>8 DEF Took
<1> QED
    BY <1>9 DEF more, t

(* A level as it was counts as shrunk.                                     *)
LEMMA ShrunkSelf ==
    ASSUME NEW b, IsBook(b), IdsMatch(b), NEW side \in Sides, NEW price
    PROVE  Shrunk(b, b, side, price)
<1>1. \A x : Size(b, side, price, x) \in Nat
    BY SizeType
<1>2. \A x : Size(b, side, price, x) <= Size(b, side, price, x)
    BY <1>1
<1> QED
    BY <1>2 DEF Shrunk, OnlyLevel, KeepsAge

(* All that gave something gave all they had, but the last one at the end. *)
Emptied(b2, side, price, taken, left) ==
    \A k \in DOMAIN taken : k < Len(taken) \/ left # 0 => Size(b2, side, price, taken[k].id) = 0

(* One more order gives, all that it has when something is still asked     *)
(* for.                                                                    *)
OneMore(b3, b2, side, price, more, taken, t, now, left) ==
    /\ taken \in Seq(Takings) /\ t \in Takings /\ more = Append(taken, t)
    /\ \A k \in DOMAIN taken : taken[k].id # t.id
    /\ \A x : x # t.id => Size(b3, side, price, x) = Size(b2, side, price, x)
    /\ now # 0 => Size(b3, side, price, t.id) = 0
    /\ left # 0

(* The next order gives when all before it have nothing left.              *)
LEMMA EmptiedMore ==
    ASSUME NEW side, NEW price, NEW taken, NEW b2, NEW left, NEW t, NEW b3, NEW now, NEW more,
           Emptied(b2, side, price, taken, left),
           OneMore(b3, b2, side, price, more, taken, t, now, left)
    PROVE  Emptied(b3, side, price, more, now)
<1> USE DEF OneMore
<1>1. /\ Len(taken) \in Nat /\ DOMAIN taken = 1..Len(taken)
      /\ DOMAIN more = 1..(Len(taken) + 1) /\ Len(more) = Len(taken) + 1
      /\ more[Len(taken) + 1] = t
      /\ \A k \in 1..Len(taken) : more[k] = taken[k]
    OBVIOUS
<1>2. SUFFICES ASSUME NEW k \in 1..(Len(taken) + 1), k < Len(taken) + 1 \/ now # 0
               PROVE  Size(b3, side, price, more[k].id) = 0
    BY <1>1 DEF Emptied
<1>3. CASE k = Len(taken) + 1
    BY <1>1, <1>2, <1>3
<1>4. CASE k # Len(taken) + 1
    <2>1. k \in 1..Len(taken)
        BY <1>1, <1>4
    <2>2. Size(b2, side, price, taken[k].id) = 0
        BY <1>1, <2>1 DEF Emptied
    <2> QED
        BY <1>1, <2>1, <2>2
<1> QED
    BY <1>3, <1>4

(* Where the walk along a queue stands after its first i orders.           *)
Consuming(h, b, side, price, quantity, i) ==
    /\ Shrunk(h.book, b, side, price)
    /\ DOMAIN h.book.levels[side] = DOMAIN b.levels[side]
    /\ h.left \in Nat /\ h.left + SizeOf(h.taken) = quantity
    /\ Took(h.book, b, side, price, h.taken)
    /\ Len(h.taken) <= i
    /\ \A k \in DOMAIN h.taken : h.taken[k].id = b.levels[side][price].queue[k]
    /\ Emptied(h.book, side, price, h.taken, h.left)
    /\ h.left # 0 =>
          /\ Len(h.taken) = i
          /\ Len(h.book.levels[side][price].queue) = Len(b.levels[side][price].queue) - i
          /\ \A j \in 1..(Len(b.levels[side][price].queue) - i) :
                h.book.levels[side][price].queue[j] = b.levels[side][price].queue[i + j]

(* One round of the loop in consume_at_price keeps what the loop           *)
(* maintains.                                                              *)
LEMMA ConsumeStep ==
    ASSUME NEW b, IsBook(b), IdsMatch(b), Single(b), NEW side \in Sides,
           NEW price \in DOMAIN b.levels[side], NEW quantity \in Nat,
           NEW i \in 0..(Len(b.levels[side][price].queue) - 1),
           NEW h, Consuming(h, b, side, price, quantity, i),
           NEW g, g = ConsumeHead(side, price, h, b.levels[side][price].queue[i + 1])
    PROVE  Consuming(g, b, side, price, quantity, i + 1)
<1> DEFINE Q == b.levels[side][price].queue
           n == Len(Q)
           id == Q[i + 1]
           bk == h.book
           l == bk.levels[side][price]
           size == l.sizes[id]
<1>0. /\ n \in Nat /\ Q \in Seq(Int) /\ DOMAIN Q = 1..n
      /\ \A a, c \in 1..n : Q[a] = Q[c] => a = c
      /\ \A a \in 1..n : Q[a] \in DOMAIN b.levels[side][price].sizes
    <2>1. Sound(b.levels[side][price])
        BY DEF IsBook
    <2> QED
        BY <2>1, SoundFacts DEF Sound
<1>1. /\ Shrunk(bk, b, side, price)
      /\ DOMAIN bk.levels[side] = DOMAIN b.levels[side]
      /\ h.left \in Nat /\ h.left + SizeOf(h.taken) = quantity
      /\ Took(bk, b, side, price, h.taken)
      /\ Len(h.taken) <= i
      /\ \A k \in DOMAIN h.taken : h.taken[k].id = Q[k]
      /\ Emptied(bk, side, price, h.taken, h.left)
      /\ h.left # 0 => /\ Len(h.taken) = i
                       /\ Len(l.queue) = n - i
                       /\ \A j \in 1..(n - i) : l.queue[j] = Q[i + j]
    BY DEF Consuming
<1>2. IsBook(bk) /\ IdsMatch(bk) /\ Single(bk)
    BY <1>1, ShrunkSingle DEF Shrunk
<1>3. h.taken \in Seq(Takings) /\ Len(h.taken) \in Nat /\ DOMAIN h.taken = 1..Len(h.taken)
    <2>1. h.taken \in Seq(Takings)
        BY <1>1 DEF Took
    <2> QED
        BY <2>1, SMTT(30)
<1>4. i + 1 \in 1..n /\ i \in Nat
    BY <1>0
<1>5. Q \in Seq(Int) /\ n = Len(b.levels[side][price].queue) /\ Q = b.levels[side][price].queue
    BY <1>0
<1>6. l = bk.levels[side][price]
    OBVIOUS
<1>7. CASE h.left = 0
    <2>1. g = h
        BY <1>7 DEF ConsumeHead
    <2>2. Len(h.taken) <= i + 1
        BY <1>1, <1>3, <1>4
    <2> QED
        BY <1>1, <1>7, <2>1, <2>2 DEF Consuming
<1>8. CASE h.left # 0
    <2>1. /\ Len(h.taken) = i
          /\ Len(l.queue) = n - i
          /\ \A j \in 1..(n - i) : l.queue[j] = Q[i + j]
        BY <1>1, <1>8
    <2>2. l.queue[1] = id /\ l.queue # <<>> /\ l.queue \in Seq(Int) /\ Sound(l)
        <3>1. Sound(l)
            BY <1>1, <1>2 DEF IsBook
        <3>2. 1 \in 1..(n - i)
            BY <1>0, <1>4, SMTT(30)
        <3> HIDE DEF l, Q, n
        <3>3. l.queue[1] = Q[i + 1]
            BY ONLY <2>1, <3>2
        <3>4. Len(l.queue) # 0 /\ Len(<<>>) = 0
            BY ONLY <1>0, <1>4, <2>1
        <3>5. l.queue \in Seq(Int)
            BY ONLY <3>1 DEF Sound
        <3> QED
            BY <3>1, <3>3, <3>4, <3>5 DEF id
    <2>3. id \in Int /\ id \in DOMAIN l.sizes /\ size \in Nat \ {0}
        <3>1. 1 \in 1..Len(l.queue)
            BY <1>0, <1>4, <2>1
        <3> HIDE DEF l
        <3>2. l.queue[1] \in Int /\ l.queue[1] \in DOMAIN l.sizes
            BY <2>2, <3>1, SoundFacts
        <3> QED
            BY <2>2, <3>2 DEF Sound
    <2>4. Size(bk, side, price, id) = size
        BY <1>1, <2>3, ZenonT(30) DEF Size
    <2>5. \A k \in DOMAIN h.taken : h.taken[k].id # id
        <3> SUFFICES ASSUME NEW k \in DOMAIN h.taken PROVE h.taken[k].id # id
            OBVIOUS
        <3>1. k \in 1..i /\ k \in 1..n /\ k # i + 1
            BY <1>0, <1>3, <1>4, <2>1
        <3> QED
            BY <1>0, <1>1, <1>4, <3>1
    <2>6. CASE size <= h.left
        <3> DEFINE b3 == DequeueHead(bk, side, price)
                   t == [id |-> id, size |-> size]
        <3>1. g = [book |-> b3, left |-> h.left - size, taken |-> Append(h.taken, t)]
            <4> HIDE DEF b3
            <4> QED
                BY <1>8, <2>3, <2>6, ZenonT(30) DEF ConsumeHead, b3
        <3>2. /\ Shrunk(b3, bk, side, price)
              /\ Size(b3, side, price, id) = 0
              /\ \A x : x # id => Size(b3, side, price, x) = Size(bk, side, price, x)
              /\ DOMAIN b3.levels[side] = DOMAIN bk.levels[side]
              /\ b3.levels[side][price].queue = RemoveAt(bk.levels[side][price].queue, 1)
            <4>1. bk.levels[side][price].queue # <<>> /\ id = bk.levels[side][price].queue[1]
                BY <2>2
            <4>2. price \in DOMAIN bk.levels[side]
                BY <1>1
            <4> HIDE DEF b3, bk, id, l
            <4> QED
                BY <1>2, <4>1, <4>2, HeadLeaves DEF b3
        <3> HIDE DEF b3
        <3>3. Shrunk(b3, b, side, price)
            <4> HIDE DEF bk
            <4> QED
                BY <1>1, <3>2, ShrunkTwice
        <3>4. Took(b3, b, side, price, Append(h.taken, t))
            <4>1. Size(b3, side, price, id) = Size(bk, side, price, id) - size
                <5> HIDE DEF size, bk, id
                <5>1. size - size = 0
                    BY <2>3
                <5> QED
                    BY <2>4, <3>2, <5>1
            <4> HIDE DEF bk, id, size, l
            <4> QED
                BY <1>1, <2>3, <2>5, <3>2, <4>1, TookMore DEF t
        <3>5. t \in Takings /\ t.id = id /\ t.size = size
            BY <2>3, ZenonT(30) DEF Takings
        <3> HIDE DEF t
        <3>6. SizeOf(Append(h.taken, t)) = SizeOf(h.taken) + size /\ SizeOf(h.taken) \in Nat
            BY <1>3, <3>5, SizesAppend, ZenonT(30)
        <3>7. /\ g.left \in Nat /\ g.left + SizeOf(g.taken) = quantity
              /\ g.book = b3 /\ g.taken = Append(h.taken, t)
            <4>1. /\ g.left = h.left - size /\ g.book = b3 /\ g.taken = Append(h.taken, t)
                <5> HIDE DEF size
                <5> QED
                    BY <3>1
            <4>2. h.left \in Nat /\ h.left + SizeOf(h.taken) = quantity /\ size \in Nat
                BY <1>1, <2>3, ZenonT(30)
            <4>3. \A x, y, z \in Nat : z <= x => x - z \in Nat /\ (x - z) + (y + z) = x + y
                OBVIOUS
            <4> HIDE DEF size
            <4>4. SizeOf(h.taken) \in Nat /\ size <= h.left
                BY <2>6, <3>6
            <4>5. /\ h.left - size \in Nat
                  /\ (h.left - size) + (SizeOf(h.taken) + size) = h.left + SizeOf(h.taken)
                BY ONLY <4>2, <4>3, <4>4
            <4>6. SizeOf(g.taken) = SizeOf(h.taken) + size
                BY <3>6, <4>1
            <4> QED
                BY ONLY <4>1, <4>2, <4>5, <4>6
        <3>8. /\ Len(g.taken) = i + 1
              /\ \A k \in DOMAIN g.taken : g.taken[k].id = Q[k]
            <4> HIDE DEF Q, n, id, size, l, bk
            <4>1. /\ Len(Append(h.taken, t)) = i + 1 /\ DOMAIN Append(h.taken, t) = 1..(i + 1)
                  /\ Append(h.taken, t)[i + 1] = t
                  /\ \A k \in 1..i : Append(h.taken, t)[k] = h.taken[k]
                BY <1>3, <2>1, <3>5
            <4>2. \A k \in 1..(i + 1) : k \in 1..i \/ k = i + 1
                BY <1>4
            <4>3. \A k \in 1..i : h.taken[k].id = Q[k]
                BY <1>1, <1>3, <2>1
            <4>4. t.id = Q[i + 1]
                BY <3>5 DEF id
            <4> QED
                BY <3>7, <4>1, <4>2, <4>3, <4>4, ZenonT(30)
        <3>9. /\ Len(b3.levels[side][price].queue) = n - (i + 1)
              /\ \A j \in 1..(n - (i + 1)) : b3.levels[side][price].queue[j] = Q[(i + 1) + j]
            <4>1. 1 \in 1..Len(l.queue)
                BY <1>0, <1>4, <2>1
            <4>2. /\ Len(RemoveAt(l.queue, 1)) = Len(l.queue) - 1
                  /\ \A a \in 1..(Len(l.queue) - 1) : RemoveAt(l.queue, 1)[a] = l.queue[a + 1]
                <5> HIDE DEF l
                <5>1. \A a \in 1..(Len(l.queue) - 1) : a >= 1
                    OBVIOUS
                <5> QED
                    BY <2>2, <4>1, <5>1, RemovedAt
            <4>3. b3.levels[side][price].queue = RemoveAt(l.queue, 1)
                BY <3>2
            <4> HIDE DEF l, Q, n
            <4>4. Len(l.queue) - 1 = n - (i + 1)
                BY <1>0, <1>4, <2>1
            <4>5. ASSUME NEW j \in 1..(n - (i + 1)) PROVE l.queue[j + 1] = Q[(i + 1) + j]
                <5>1. j + 1 \in 1..(n - i) /\ i + (j + 1) = (i + 1) + j
                    BY <1>0, <1>4
                <5> QED
                    BY <2>1, <5>1
            <4> QED
                BY <4>2, <4>3, <4>4, <4>5
        <3>10. /\ Shrunk(g.book, b, side, price)
               /\ DOMAIN g.book.levels[side] = DOMAIN b.levels[side]
               /\ Took(g.book, b, side, price, g.taken)
               /\ Len(g.taken) <= i + 1
               /\ g.left # 0 =>
                     /\ Len(g.taken) = i + 1
                     /\ Len(g.book.levels[side][price].queue) = n - (i + 1)
                     /\ \A j \in 1..(n - (i + 1)) :
                           g.book.levels[side][price].queue[j] = Q[(i + 1) + j]
            <4>1. DOMAIN b3.levels[side] = DOMAIN b.levels[side] /\ i + 1 <= i + 1
                BY <1>1, <1>4, <3>2
            <4> HIDE DEF Q, n, id, size, l, bk
            <4> QED
                BY <3>3, <3>4, <3>7, <3>8, <3>9, <4>1, ZenonT(30)
        <3>11. Emptied(g.book, side, price, g.taken, g.left)
            <4>1. g.taken = Append(h.taken, t) /\ g.book = b3 /\ t \in Takings /\ t.id = id
                BY <3>5, <3>7
            <4>2. g.left # 0 => Size(b3, side, price, t.id) = 0
                BY <3>2, <4>1
            <4>3. Emptied(bk, side, price, h.taken, h.left)
                BY <1>1
            <4> HIDE DEF Q, n, id, size, l, bk
            <4>4. OneMore(g.book, bk, side, price, g.taken, h.taken, t, g.left, h.left)
                BY <1>3, <1>8, <2>5, <3>2, <4>1, <4>2 DEF OneMore
            <4> QED
                BY <4>3, <4>4, EmptiedMore
        <3> QED
            BY <3>7, <3>8, <3>10, <3>11, ZenonT(30) DEF Consuming
    <2>7. CASE size > h.left
        <3> DEFINE b3 == SetLevel(bk, side, price, Reduced(l, id, h.left))
                   t == [id |-> id, size |-> h.left]
        <3>1. g = [book |-> b3, left |-> h.left - h.left, taken |-> Append(h.taken, t)]
            <4>1. ~(size <= h.left)
                <5> HIDE DEF size
                <5> QED
                    BY <1>1, <2>3, <2>7
            <4> HIDE DEF b3
            <4> QED
                BY <1>8, <2>3, <4>1, ZenonT(30) DEF ConsumeHead, b3
        <3>2. /\ Shrunk(b3, bk, side, price)
              /\ Size(b3, side, price, id) = Size(bk, side, price, id) - h.left
              /\ \A x : x # id => Size(b3, side, price, x) = Size(bk, side, price, x)
              /\ DOMAIN b3.levels[side] = DOMAIN bk.levels[side]
              /\ b3.levels[side][price].queue = bk.levels[side][price].queue
            <4>1. h.left \in Nat /\ h.left < bk.levels[side][price].sizes[id]
                BY <1>1, <2>3, <2>7, ZenonT(30)
            <4>2. price \in DOMAIN bk.levels[side] /\ id \in DOMAIN bk.levels[side][price].sizes
                BY <1>1, <2>3, ZenonT(30)
            <4>3. b3 = SetLevel(bk, side, price, Reduced(bk.levels[side][price], id, h.left))
                OBVIOUS
            <4> DEFINE q == h.left
            <4>4. /\ q \in Nat /\ q < bk.levels[side][price].sizes[id]
                  /\ b3 = SetLevel(bk, side, price, Reduced(bk.levels[side][price], id, q))
                BY <4>1, <4>3, ZenonT(30)
            <4>5. q = h.left
                OBVIOUS
            <4> HIDE DEF b3, bk, id, l, q
            <4> QED
                BY <1>2, <4>2, <4>4, <4>5, HeadReduced
        <3> HIDE DEF b3
        <3>3. Shrunk(b3, b, side, price)
            <4> HIDE DEF bk
            <4> QED
                BY <1>1, <3>2, ShrunkTwice
        <3>4. Took(b3, b, side, price, Append(h.taken, t))
            <4>1. h.left \in Nat \ {0}
                BY <1>1, <1>8
            <4> HIDE DEF bk, id, size, l
            <4> QED
                BY <1>1, <2>3, <2>5, <3>2, <4>1, TookMore DEF t
        <3>5. t \in Takings /\ t.id = id /\ t.size = h.left
            BY <1>1, <1>8, <2>3, ZenonT(30) DEF Takings
        <3> HIDE DEF t
        <3>6. SizeOf(Append(h.taken, t)) = SizeOf(h.taken) + h.left /\ SizeOf(h.taken) \in Nat
            BY <1>3, <3>5, SizesAppend
        <3>7. /\ g.left = 0 /\ g.left + SizeOf(g.taken) = quantity
              /\ g.book = b3 /\ g.taken = Append(h.taken, t)
            BY <1>1, <3>1, <3>6, SMTT(30)
        <3>8. /\ Len(g.taken) = i + 1
              /\ \A k \in DOMAIN g.taken : g.taken[k].id = Q[k]
            <4> HIDE DEF Q, n, id, size, l, bk
            <4>1. /\ Len(Append(h.taken, t)) = i + 1 /\ DOMAIN Append(h.taken, t) = 1..(i + 1)
                  /\ Append(h.taken, t)[i + 1] = t
                  /\ \A k \in 1..i : Append(h.taken, t)[k] = h.taken[k]
                BY <1>3, <2>1, <3>5
            <4>2. \A k \in 1..(i + 1) : k \in 1..i \/ k = i + 1
                BY <1>4
            <4>3. \A k \in 1..i : h.taken[k].id = Q[k]
                BY <1>1, <1>3, <2>1
            <4>4. t.id = Q[i + 1]
                BY <3>5 DEF id
            <4> QED
                BY <3>7, <4>1, <4>2, <4>3, <4>4
        <3>9. /\ Shrunk(g.book, b, side, price)
              /\ DOMAIN g.book.levels[side] = DOMAIN b.levels[side]
              /\ Took(g.book, b, side, price, g.taken)
              /\ Len(g.taken) <= i + 1
              /\ g.left \in Nat
            <4>1. DOMAIN b3.levels[side] = DOMAIN b.levels[side] /\ i + 1 <= i + 1 /\ 0 \in Nat
                BY <1>1, <1>4, <3>2
            <4> HIDE DEF Q, n, id, size, l, bk
            <4> QED
                BY <3>3, <3>4, <3>7, <3>8, <4>1, ZenonT(30)
        <3>10. Emptied(g.book, side, price, g.taken, g.left)
            <4>1. /\ g.taken = Append(h.taken, t) /\ g.book = b3 /\ t \in Takings /\ t.id = id
                  /\ g.left # 0 => Size(b3, side, price, t.id) = 0
                BY <3>5, <3>7
            <4>3. Emptied(bk, side, price, h.taken, h.left)
                BY <1>1
            <4> HIDE DEF Q, n, id, size, l, bk
            <4>4. OneMore(g.book, bk, side, price, g.taken, h.taken, t, g.left, h.left)
                BY <1>3, <1>8, <2>5, <3>2, <4>1 DEF OneMore
            <4> QED
                BY <4>3, <4>4, EmptiedMore
        <3> QED
            BY <3>7, <3>8, <3>9, <3>10, ZenonT(30) DEF Consuming
    <2>8. size <= h.left \/ size > h.left
        <3>1. size \in Nat /\ h.left \in Nat
            BY <1>1, <2>3, ZenonT(30)
        <3> HIDE DEF size
        <3> QED
            BY <3>1
    <2> QED
        BY <2>6, <2>7, <2>8, ZenonT(30)
<1> QED
    BY <1>7, <1>8, SMTT(30)

(* An empty level is dropped.                                              *)
LEMMA DropShrinks ==
    ASSUME NEW b, IsBook(b), IdsMatch(b), NEW side \in Sides, NEW price \in DOMAIN b.levels[side],
           b.levels[side][price].queue = <<>>, NEW b2, b2 = DropLevel(b, side, price)
    PROVE  /\ Shrunk(b2, b, side, price)
           /\ DOMAIN b2.levels[side] = DOMAIN b.levels[side] \ {price}
           /\ \A x : Size(b2, side, price, x) = Size(b, side, price, x)
<1>1. /\ IsBook(b2) /\ OnlyLevel(b2, b, side, price)
      /\ DOMAIN b2.levels[side] = DOMAIN b.levels[side] \ {price}
      /\ b2.orderOf = b.orderOf
    BY LevelDropped
<1>2. DOMAIN b.levels[side][price].sizes = {}
    BY DEF IsBook, Sound, Range
<1>3. \A x : Size(b, side, price, x) = 0 /\ Size(b2, side, price, x) = 0
    BY <1>1, <1>2 DEF Size
<1>4. IdsMatch(b2)
    <2>1. ASSUME NEW x PROVE Queued(b2, x) <=> Queued(b, x)
        <3>1. ASSUME NEW sd \in Sides, NEW p PROVE Size(b2, sd, p, x) = Size(b, sd, p, x)
            <4>1. CASE sd = side /\ p = price
                BY <1>3, <4>1
            <4>2. CASE sd # side \/ p # price
                BY <1>1, <4>2, SameSize
            <4> QED
                BY <4>1, <4>2
        <3> QED
            BY <3>1 DEF Queued
    <2> QED
        BY <1>1, <2>1 DEF IdsMatch
<1>5. KeepsAge(b2, b, side, price)
    BY <1>1 DEF KeepsAge, Ascends
<1>6. Shrunk(b2, b, side, price)
    BY <1>1, <1>3, <1>4, <1>5 DEF Shrunk
<1> QED
    BY <1>1, <1>3, <1>6

(* An order lost size only when the older ones at its price have nothing.  *)
OldestFirst(b2, b, side, price) ==
    \A x, y \in Int : x < y /\ Size(b2, side, price, y) # Size(b, side, price, y)
                          => Size(b2, side, price, x) = 0

(* The front of a queue in order of age gives oldest first.                *)
LEMMA GivesOldestFirst ==
    ASSUME NEW b, IsBook(b), NEW side \in Sides, NEW price, Ascends(b, side, price),
           NEW b2, NEW taken, NEW left, Took(b2, b, side, price, taken),
           Shrunk(b2, b, side, price), Emptied(b2, side, price, taken, left),
           price \in DOMAIN b.levels[side],
           Len(taken) <= Len(b.levels[side][price].queue),
           \A k \in DOMAIN taken : taken[k].id = b.levels[side][price].queue[k]
    PROVE  OldestFirst(b2, b, side, price)
<1> DEFINE Q == b.levels[side][price].queue
           n == Len(Q)
<1>1. /\ n \in Nat /\ \A i \in 1..n : Q[i] \in Int
      /\ DOMAIN b.levels[side][price].sizes = {Q[i] : i \in 1..n}
    <2>1. Sound(b.levels[side][price])
        BY DEF IsBook
    <2> QED
        BY <2>1, SoundFacts DEF Sound, Range
<1>2. taken \in Seq(Takings) /\ Len(taken) \in Nat /\ DOMAIN taken = 1..Len(taken)
    BY DEF Took
<1>3. Len(taken) <= n /\ \A k \in 1..Len(taken) : taken[k].id = Q[k]
    BY <1>2
<1>4. \A i, j \in 1..n : i < j => Q[i] < Q[j]
    BY DEF Ascends
<1> SUFFICES ASSUME NEW x \in Int, NEW y \in Int, x < y,
                    Size(b2, side, price, y) # Size(b, side, price, y)
             PROVE  Size(b2, side, price, x) = 0
    BY DEF OldestFirst
<1>5. PICK m \in 1..Len(taken) : taken[m].id = y
    BY <1>2 DEF Took
<1>6. CASE Size(b, side, price, x) = 0
    <2>1. Size(b2, side, price, x) <= Size(b, side, price, x) /\ IsBook(b2)
        BY DEF Shrunk
    <2>2. Size(b2, side, price, x) \in Nat
        BY <2>1, SizeType
    <2> QED
        BY <1>6, <2>1, <2>2
<1>7. CASE Size(b, side, price, x) # 0
    <2>1. x \in DOMAIN b.levels[side][price].sizes
        BY <1>7, SizeType
    <2> HIDE DEF Q, n
    <2>2. PICK k \in 1..n : Q[k] = x
        BY <1>1, <2>1
    <2>3. m \in 1..n /\ Q[m] = y
        BY <1>1, <1>2, <1>3, <1>5
    <2>4. k < m
        <3>1. ~(Q[k] = Q[m]) /\ ~(Q[m] < Q[k])
            BY <2>2, <2>3
        <3>2. ~(m < k) /\ m # k
            BY <1>4, <2>2, <2>3, <3>1
        <3> QED
            BY <1>1, <2>2, <2>3, <3>2
    <2>5. k \in DOMAIN taken /\ k < Len(taken) /\ taken[k].id = x
        BY <1>1, <1>2, <1>3, <1>5, <2>2, <2>4
    <2> QED
        BY <2>5 DEF Emptied
<1> QED
    BY <1>6, <1>7

(* b2 is b after up to quantity was taken from the front of a queue.       *)
Consumed(b2, taken, b, side, price, quantity) ==
    /\ Shrunk(b2, b, side, price) /\ NoEmptyLevel(b2)
    /\ Took(b2, b, side, price, taken)
    /\ Ascends(b, side, price) => OldestFirst(b2, b, side, price)
    /\ SizeOf(taken) \in Nat /\ SizeOf(taken) <= quantity

(* Nothing is taken of a book that stays as it is.                         *)
LEMMA TookNothing ==
    ASSUME NEW b, NEW side, NEW price
    PROVE  Took(b, b, side, price, <<>>)
<1>1. DOMAIN <<>> = {} /\ <<>> \in Seq(Takings)
    OBVIOUS
<1> QED
    BY <1>1 DEF Took

(* What consume_at_price returns: a book that is in order, in which the    *)
(* orders named lack what they gave up, in all no more than asked.         *)
LEMMA ConsumedAtPrice ==
    ASSUME NEW b, IsBook(b), IdsMatch(b), Single(b), NoEmptyLevel(b), NEW side \in Sides,
           NEW price, NEW quantity \in Nat,
           NEW done, done = ConsumeAtPrice(b, side, price, quantity)
    PROVE  Consumed(done.book, done.taken, b, side, price, quantity)
<1>1. CASE price \notin DOMAIN b.levels[side]
    <2>1. done = [book |-> b, taken |-> <<>>]
        BY <1>1 DEF ConsumeAtPrice, HasLevel
    <2>2. Took(b, b, side, price, <<>>) /\ Shrunk(b, b, side, price) /\ SizeOf(<<>>) = 0
        BY TookNothing, ShrunkSelf, NothingTaken
    <2>3. done.book = b /\ done.taken = <<>>
        BY <2>1
    <2>4. OldestFirst(b, b, side, price)
        BY DEF OldestFirst
    <2> QED
        BY <2>2, <2>3, <2>4, SMTT(30) DEF Consumed
<1>2. CASE price \in DOMAIN b.levels[side]
    <2> DEFINE Q == b.levels[side][price].queue
               n == Len(Q)
               base == [book |-> b, left |-> quantity, taken |-> <<>>]
    <2>1. n \in Nat /\ DOMAIN Q = 1..n /\ Q # <<>>
        <3>1. Sound(b.levels[side][price])
            BY <1>2 DEF IsBook
        <3> QED
            BY <1>2, <3>1, SoundFacts DEF NoEmptyLevel
    <2> HIDE DEF Q, n
    <2>2. PICK h : /\ Heads!Runs(h, <<side, price>>, base, Q, n)
                   /\ ConsumeHeads(base, side, price, Q) = h[n]
        BY <2>1, HeadRuns
    <2>3. /\ h[0] = base
          /\ \A i \in 1..n : h[i] = ConsumeHead(side, price, h[i - 1], Q[i])
        BY <2>2 DEF Heads!Runs
    <2> DEFINE K == {i \in 0..n : Consuming(h[i], b, side, price, quantity, i)}
    <2>4. 0 \in K
        <3>1. /\ Took(b, b, side, price, <<>>) /\ Shrunk(b, b, side, price)
              /\ SizeOf(<<>>) = 0 /\ DOMAIN <<>> = {} /\ Len(<<>>) = 0
            BY TookNothing, ShrunkSelf, NothingTaken
        <3>2. /\ h[0].book = b /\ h[0].left = quantity /\ h[0].taken = <<>>
            BY <2>3
        <3>3. n = Len(b.levels[side][price].queue) /\ n - 0 = n
            BY <2>1 DEF n, Q
        <3>4. \A j \in 1..n : 0 + j = j
            BY <2>1
        <3>5. quantity + 0 = quantity
            OBVIOUS
        <3>6. Consuming(h[0], b, side, price, quantity, 0)
            BY <3>1, <3>2, <3>3, <3>4, <3>5 DEF Consuming, Emptied
        <3> QED
            BY <2>1, <3>6
    <2>5. ASSUME NEW i \in 0..(n - 1), i \in K PROVE i + 1 \in K
        <3>1. i + 1 \in 1..n /\ i + 1 \in 0..n /\ (i + 1) - 1 = i
            BY <2>1
        <3>2. h[i + 1] = ConsumeHead(side, price, h[i], b.levels[side][price].queue[i + 1])
            BY <2>3, <3>1 DEF Q
        <3>3. Consuming(h[i], b, side, price, quantity, i)
            BY <2>5
        <3>4. i \in 0..(Len(b.levels[side][price].queue) - 1)
            BY DEF n, Q
        <3>5. Consuming(h[i + 1], b, side, price, quantity, i + 1)
            BY <1>2, <3>2, <3>3, <3>4, ConsumeStep
        <3> QED
            BY <3>1, <3>5
    <2>6. Consuming(h[n], b, side, price, quantity, n)
        <3> HIDE DEF K
        <3>1. \A i \in 0..(n - 1) : i \in K => i + 1 \in K
            BY <2>5
        <3>2. \A i \in 0..n : i \in K
            BY <2>1, <2>4, <3>1, Induction
        <3>3. n \in K
            BY <2>1, <3>2
        <3> QED
            BY <3>3 DEF K
    <2> DEFINE d == h[n]
    <2>7. d = ConsumeHeads([book |-> b, left |-> quantity, taken |-> <<>>], side, price, b.levels[side][price].queue)
        BY <2>2 DEF Q
    <2> HIDE DEF base, d
    <2>8. /\ Shrunk(d.book, b, side, price) /\ Took(d.book, b, side, price, d.taken)
          /\ DOMAIN d.book.levels[side] = DOMAIN b.levels[side]
          /\ d.left \in Nat /\ d.left + SizeOf(d.taken) = quantity
        BY <2>6 DEF Consuming, d
    <2>9. SizeOf(d.taken) \in Nat /\ SizeOf(d.taken) <= quantity
        <3>1. d.taken \in Seq(Takings) /\ [id |-> 0, size |-> 1] \in Takings
            BY <2>8 DEF Took, Takings
        <3>2. SizeOf(d.taken) \in Nat
            BY <3>1, SizesAppend
        <3> QED
            BY <2>8, <3>2
    <2>10. IsBook(d.book) /\ IdsMatch(d.book) /\ OnlyLevel(d.book, b, side, price)
        BY <2>8 DEF Shrunk
    <2>101. Ascends(b, side, price) => OldestFirst(d.book, b, side, price)
        <3>1. /\ Emptied(d.book, side, price, d.taken, d.left)
              /\ Len(d.taken) <= Len(b.levels[side][price].queue)
              /\ \A k \in DOMAIN d.taken : d.taken[k].id = b.levels[side][price].queue[k]
            BY <2>6 DEF Consuming, d, n, Q
        <3> QED
            BY <1>2, <2>8, <3>1, GivesOldestFirst
    <2>11. CASE d.book.levels[side][price].queue = <<>>
        <3>1. done = [book |-> DropLevel(d.book, side, price), taken |-> d.taken]
            BY <1>2, <2>7, <2>11 DEF ConsumeAtPrice, HasLevel
        <3>2. done.book = DropLevel(d.book, side, price) /\ done.taken = d.taken
            BY <3>1
        <3> DEFINE bk == d.book
                   b3 == done.book
        <3>3. /\ Shrunk(b3, bk, side, price)
              /\ DOMAIN b3.levels[side] = DOMAIN bk.levels[side] \ {price}
              /\ \A x : Size(b3, side, price, x) = Size(bk, side, price, x)
            <4>1. price \in DOMAIN bk.levels[side] /\ bk.levels[side][price].queue = <<>>
                BY <1>2, <2>8, <2>11
            <4>2. b3 = DropLevel(bk, side, price) /\ IsBook(bk) /\ IdsMatch(bk)
                BY <2>10, <3>2
            <4> HIDE DEF bk, b3
            <4> QED
                BY <4>1, <4>2, DropShrinks
        <3>4. Shrunk(b3, b, side, price)
            <4>1. Shrunk(bk, b, side, price)
                BY <2>8
            <4> HIDE DEF bk, b3
            <4> QED
                BY <3>3, <4>1, ShrunkTwice
        <3>5. NoEmptyLevel(b3)
            <4>1. OnlyLevel(b3, b, side, price)
                BY <3>4 DEF Shrunk
            <4>2. price \notin DOMAIN b3.levels[side]
                BY <3>3
            <4> QED
                BY <4>1, <4>2 DEF OnlyLevel, NoEmptyLevel
        <3>6. Took(b3, b, side, price, done.taken)
            <4>1. Took(bk, b, side, price, done.taken)
                BY <2>8, <3>2
            <4> HIDE DEF bk, b3
            <4> QED
                BY <3>3, <4>1 DEF Took
        <3>7. Ascends(b, side, price) => OldestFirst(b3, b, side, price)
            <4>1. Ascends(b, side, price) => OldestFirst(bk, b, side, price)
                BY <2>101
            <4> HIDE DEF bk, b3
            <4> QED
                BY <3>3, <4>1 DEF OldestFirst
        <3> QED
            BY <2>9, <3>2, <3>4, <3>5, <3>6, <3>7, SMTT(30) DEF Consumed
    <2>12. CASE d.book.levels[side][price].queue # <<>>
        <3>1. done = [book |-> d.book, taken |-> d.taken]
            BY <1>2, <2>7, <2>12 DEF ConsumeAtPrice, HasLevel
        <3>2. done.book = d.book /\ done.taken = d.taken
            BY <3>1
        <3>3. NoEmptyLevel(d.book)
            BY <2>8, <2>10, <2>12 DEF OnlyLevel, NoEmptyLevel
        <3> QED
            BY <2>8, <2>9, <2>101, <3>2, <3>3, SMTT(30) DEF Consumed
    <2> QED
        BY <2>11, <2>12
<1> QED
    BY <1>1, <1>2

-----------------------------------------------------------------------------
(* The book in order *)

(* The quote of a side rests where it was last shown, at the head.         *)
QuotesOK(b) ==
    \A sd \in Sides :
       /\ \A sd2 \in Sides : \A p : Size(b, sd2, p, QuoteOrder(sd)) # 0 =>
             /\ sd2 = sd /\ p = b.quotePrice[sd]
             /\ b.levels[sd2][p].queue[1] = QuoteOrder(sd)
             /\ b.quoteQid[sd] \in DOMAIN b.orderOf
       /\ b.quoteQid[sd] \in DOMAIN b.orderOf => b.orderOf[b.quoteQid[sd]] = QuoteOrder(sd)

BookOK(b) ==
    /\ IsBook(b) /\ IdsMatch(b) /\ Single(b) /\ NoEmptyLevel(b) /\ QuotesOK(b) /\ Aged(b)
    /\ \A side \in Sides : DOMAIN b.levels[side] \subseteq Prices

(* A book stays in order of age when one level changes in that order.      *)
LEMMA AgedElsewhere ==
    ASSUME NEW b, Aged(b), NEW side \in Sides, NEW price, NEW b2, OnlyLevel(b2, b, side, price),
           Ascends(b2, side, price),
           NEW id, id \in Nat \/ \E sd \in Sides : id = QuoteOrder(sd),
           \A x : Queued(b2, x) => Queued(b, x) \/ x = id
    PROVE  Aged(b2)
<1>1. ASSUME NEW sd \in Sides, NEW p PROVE Ascends(b2, sd, p)
    <2>1. CASE sd = side /\ p = price
        BY <2>1
    <2>2. CASE sd # side \/ p # price
        <3>1. /\ p \in DOMAIN b2.levels[sd] <=> p \in DOMAIN b.levels[sd]
              /\ p \in DOMAIN b.levels[sd] => b2.levels[sd][p] = b.levels[sd][p]
              /\ Ascends(b, sd, p)
            BY <2>2 DEF OnlyLevel, Aged
        <3> QED
            BY <3>1 DEF Ascends
    <2> QED
        BY <2>1, <2>2
<1> QED
    BY <1>1 DEF Aged

(* A book stays in order when a queue of it shrinks.                       *)
LEMMA ShrunkOK ==
    ASSUME NEW b, BookOK(b), NEW side \in Sides, NEW price, NEW b2,
           Shrunk(b2, b, side, price), NoEmptyLevel(b2)
    PROVE  BookOK(b2)
<1>0. /\ IsBook(b) /\ IdsMatch(b) /\ Single(b) /\ QuotesOK(b) /\ Aged(b)
      /\ \A sd \in Sides : DOMAIN b.levels[sd] \subseteq Prices
    BY DEF BookOK
<1>1. /\ IsBook(b2) /\ IdsMatch(b2) /\ OnlyLevel(b2, b, side, price)
      /\ DOMAIN b2.levels[side] \subseteq DOMAIN b.levels[side]
      /\ \A q \in DOMAIN b2.orderOf : q \in DOMAIN b.orderOf /\ b2.orderOf[q] = b.orderOf[q]
      /\ \A x : Size(b2, side, price, x) # 0 /\ b.levels[side][price].queue[1] = x
                   => b2.levels[side][price].queue[1] = x
      /\ KeepsAge(b2, b, side, price)
    BY DEF Shrunk
<1>2. Single(b2)
    BY <1>0, ShrunkSingle
<1>3. \A sd \in Sides : \A p, x : Size(b2, sd, p, x) # 0 => Size(b, sd, p, x) # 0
    BY <1>0, ShrunkSizes
<1>4. b2.quoteQid = b.quoteQid /\ b2.quotePrice = b.quotePrice
    BY <1>1 DEF OnlyLevel
<1>5. ASSUME NEW sd \in Sides, NEW sd2 \in Sides, NEW p, Size(b2, sd2, p, QuoteOrder(sd)) # 0
      PROVE  /\ sd2 = sd /\ p = b2.quotePrice[sd]
             /\ b2.levels[sd2][p].queue[1] = QuoteOrder(sd)
             /\ b2.quoteQid[sd] \in DOMAIN b2.orderOf
    <2> DEFINE x == QuoteOrder(sd)
    <2>1. Size(b, sd2, p, x) # 0
        BY <1>3, <1>5
    <2>2. /\ sd2 = sd /\ p = b.quotePrice[sd]
          /\ b.levels[sd2][p].queue[1] = x
          /\ b.quoteQid[sd] \in DOMAIN b.orderOf /\ b.orderOf[b.quoteQid[sd]] = x
        BY <1>0, <2>1 DEF QuotesOK
    <2> HIDE DEF x
    <2>3. b2.levels[sd2][p].queue[1] = x
        <3>1. CASE sd2 = side /\ p = price
            BY <1>1, <1>5, <2>2, <3>1 DEF x
        <3>2. CASE sd2 # side \/ p # price
            <4>1. p \in DOMAIN b.levels[sd2]
                BY <1>0, <2>1, SizeType
            <4> QED
                BY <1>1, <2>2, <3>2, <4>1 DEF OnlyLevel
        <3> QED
            BY <3>1, <3>2
    <2>4. PICK q \in DOMAIN b2.orderOf : b2.orderOf[q] = x
        BY <1>1, <1>5 DEF IdsMatch, Queued, x
    <2>5. q = b.quoteQid[sd]
        BY <1>0, <1>1, <2>2, <2>4 DEF IdsMatch, IsInjective
    <2> QED
        BY <1>4, <2>2, <2>3, <2>4, <2>5 DEF x
<1>6. ASSUME NEW sd \in Sides, b2.quoteQid[sd] \in DOMAIN b2.orderOf
      PROVE  b2.orderOf[b2.quoteQid[sd]] = QuoteOrder(sd)
    BY <1>0, <1>1, <1>4, <1>6 DEF QuotesOK
<1>7. QuotesOK(b2)
    BY <1>5, <1>6 DEF QuotesOK
<1>8. \A sd \in Sides : DOMAIN b2.levels[sd] \subseteq Prices
    <2> SUFFICES ASSUME NEW sd \in Sides, NEW p \in DOMAIN b2.levels[sd] PROVE p \in Prices
        OBVIOUS
    <2>1. p \in DOMAIN b.levels[sd]
        BY <1>1 DEF OnlyLevel
    <2> QED
        BY <1>0, <2>1
<1>9. Aged(b2)
    <2>1. Ascends(b2, side, price)
        BY <1>0, <1>1 DEF Aged, KeepsAge
    <2>2. \A x : Queued(b2, x) => Queued(b, x) \/ x = 0
        BY <1>3 DEF Queued
    <2>3. 0 \in Nat
        OBVIOUS
    <2> QED
        BY <1>0, <1>1, <2>1, <2>2, <2>3, AgedElsewhere
<1> QED
    BY <1>1, <1>2, <1>7, <1>8, <1>9 DEF BookOK

(* An order that joins leaves the sizes of the others.                     *)
LEMMA AddedSizes ==
    ASSUME NEW b, NEW side \in Sides, NEW price, NEW id, NEW size, NEW qid,
           NEW b2, Added(b2, b, side, price, id, size, qid)
    PROVE  \A sd \in Sides : \A p, x : x # id => Size(b2, sd, p, x) = Size(b, sd, p, x)
<1> SUFFICES ASSUME NEW sd \in Sides, NEW p, NEW x, x # id
             PROVE  Size(b2, sd, p, x) = Size(b, sd, p, x)
    OBVIOUS
<1>1. OnlyLevel(b2, b, side, price)
    BY DEF Added
<1>2. CASE sd = side /\ p = price
    BY <1>2 DEF Added
<1>3. CASE sd # side \/ p # price
    BY <1>1, <1>3, SameSize
<1> QED
    BY <1>2, <1>3

(* An order that joins is in one place.                                    *)
LEMMA AddedSingle ==
    ASSUME NEW b, IsBook(b), Single(b), NEW side \in Sides, NEW price, NEW id, NEW size, NEW qid,
           ~Queued(b, id), NEW b2, Added(b2, b, side, price, id, size, qid)
    PROVE  /\ Single(b2)
           /\ \A sd \in Sides : \A p : Size(b2, sd, p, id) # 0 => sd = side /\ p = price
<1>1. \A sd \in Sides : \A p, x : x # id => Size(b2, sd, p, x) = Size(b, sd, p, x)
    BY AddedSizes
<1>2. ASSUME NEW sd \in Sides, NEW p, Size(b2, sd, p, id) # 0 PROVE sd = side /\ p = price
    <2> SUFFICES ASSUME sd # side \/ p # price PROVE FALSE
        OBVIOUS
    <2>1. OnlyLevel(b2, b, side, price)
        BY DEF Added
    <2>2. Size(b2, sd, p, id) = Size(b, sd, p, id)
        BY <2>1, SameSize
    <2> QED
        BY <1>2, <2>2 DEF Queued
<1>3. Single(b2)
    <2> SUFFICES ASSUME NEW x, NEW sd \in Sides, NEW sd2 \in Sides, NEW p, NEW p2,
                        Size(b2, sd, p, x) # 0, Size(b2, sd2, p2, x) # 0
                 PROVE  sd = sd2 /\ p = p2
        BY DEF Single
    <2>1. CASE x = id
        BY <1>2, <2>1
    <2>2. CASE x # id
        BY <1>1, <2>2 DEF Single
    <2> QED
        BY <2>1, <2>2
<1> QED
    BY <1>2, <1>3

(* An order that joins leaves no level empty, and levels stay at prices.   *)
LEMMA AddedLevels ==
    ASSUME NEW b, NoEmptyLevel(b), \A sd \in Sides : DOMAIN b.levels[sd] \subseteq Prices,
           NEW side \in Sides, NEW price \in Prices, NEW id, NEW size, NEW qid,
           NEW b2, Added(b2, b, side, price, id, size, qid)
    PROVE  NoEmptyLevel(b2) /\ \A sd \in Sides : DOMAIN b2.levels[sd] \subseteq Prices
<1>1. /\ OnlyLevel(b2, b, side, price)
      /\ DOMAIN b2.levels[side] = DOMAIN b.levels[side] \cup {price}
      /\ b2.levels[side][price].queue # <<>>
    BY DEF Added
<1>2. ASSUME NEW sd \in Sides, NEW p \in DOMAIN b2.levels[sd]
      PROVE  b2.levels[sd][p].queue # <<>> /\ p \in Prices
    <2>1. CASE sd = side /\ p = price
        BY <1>1, <2>1
    <2>2. CASE sd # side \/ p # price
        BY <1>1, <2>2 DEF OnlyLevel, NoEmptyLevel
    <2> QED
        BY <2>1, <2>2
<1> QED
    BY <1>2 DEF NoEmptyLevel

(* An order of the strategy joins the back of a queue.                     *)
LEMMA EnqueuedOK ==
    ASSUME NEW b, BookOK(b), NEW held, IsFiniteSet(held), NEW side \in Sides, NEW price \in Prices,
           NEW id \in Nat, NEW size \in Nat \ {0}, ~Queued(b, id),
           \A x \in Nat : Queued(b, x) => x < id,
           NEW r, r = EnqueueOrder(b, held, side, price, id, size)
    PROVE  BookOK(r.book) /\ Added(r.book, b, side, price, id, size, r.qid)
<1> DEFINE b2 == r.book
           qid == r.qid
<1>0. /\ IsBook(b) /\ IdsMatch(b) /\ Single(b) /\ NoEmptyLevel(b) /\ QuotesOK(b) /\ Aged(b)
      /\ \A sd \in Sides : DOMAIN b.levels[sd] \subseteq Prices
    BY DEF BookOK
<1>1. /\ Added(b2, b, side, price, id, size, qid)
      /\ price \in DOMAIN b.levels[side] /\ b.levels[side][price].queue # <<>>
            => b2.levels[side][price].queue[1] = b.levels[side][price].queue[1]
      /\ Ascends(b2, side, price)
    <2>1. r = Rest(b, held, side, price, id, size, "back") /\ id \in Int
        BY DEF EnqueueOrder
    <2> DEFINE end == "back"
    <2>2. end = "back" /\ r = Rest(b, held, side, price, id, size, end)
        BY <2>1
    <2> HIDE DEF end
    <2>3. /\ Added(r.book, b, side, price, id, size, r.qid)
          /\ end = "back" /\ price \in DOMAIN b.levels[side] /\ b.levels[side][price].queue # <<>>
                => r.book.levels[side][price].queue[1] = b.levels[side][price].queue[1]
          /\ Ascends(b, side, price) /\ InTurn(b, side, price, id, end)
                => Ascends(r.book, side, price)
        BY <1>0, <2>1, <2>2, RestAdds
    <2>4. Ascends(b, side, price)
        BY <1>0 DEF Aged
    <2>5. ASSUME NEW x \in Int, Size(b, side, price, x) # 0 PROVE x < id
        <3>1. Queued(b, x)
            BY <2>5 DEF Queued
        <3>2. x \in Nat \/ \E sd \in Sides : x = QuoteOrder(sd)
            BY <1>0, <3>1 DEF Aged
        <3>3. \A sd \in Sides : QuoteOrder(sd) \in {-1, -2}
            BY DEF QuoteOrder
        <3>4. CASE x \in Nat
            BY <3>1, <3>4
        <3>5. CASE x \in {-1, -2}
            BY <3>5
        <3> QED
            BY <3>2, <3>3, <3>4, <3>5
    <2>6. InTurn(b, side, price, id, end)
        BY <2>2, <2>5 DEF InTurn
    <2> QED
        BY <2>2, <2>3, <2>4, <2>6
<1> HIDE DEF b2, qid
<1>2. /\ IsBook(b2) /\ IdsMatch(b2) /\ OnlyLevel(b2, b, side, price)
      /\ qid \in Nat \ {0} /\ qid \notin DOMAIN b.orderOf /\ \A sd \in Sides : qid # b.quoteQid[sd]
      /\ b2.orderOf = With(b.orderOf, qid, id)
    BY <1>1 DEF Added
<1>3. Single(b2)
    BY <1>0, <1>1, AddedSingle
<1>4. NoEmptyLevel(b2) /\ \A sd \in Sides : DOMAIN b2.levels[sd] \subseteq Prices
    BY <1>0, <1>1, AddedLevels
<1>5. /\ DOMAIN b2.orderOf = DOMAIN b.orderOf \cup {qid}
      /\ \A q \in DOMAIN b.orderOf : b2.orderOf[q] = b.orderOf[q]
      /\ b2.quoteQid = b.quoteQid /\ b2.quotePrice = b.quotePrice
    BY <1>2 DEF With, OnlyLevel
<1>6. ASSUME NEW sd \in Sides, NEW sd2 \in Sides, NEW p, Size(b2, sd2, p, QuoteOrder(sd)) # 0
      PROVE  /\ sd2 = sd /\ p = b2.quotePrice[sd]
             /\ b2.levels[sd2][p].queue[1] = QuoteOrder(sd)
             /\ b2.quoteQid[sd] \in DOMAIN b2.orderOf
    <2>1. QuoteOrder(sd) # id
        BY DEF QuoteOrder
    <2> DEFINE x == QuoteOrder(sd)
    <2>2. Size(b, sd2, p, x) # 0
        BY <1>1, <1>6, <2>1, AddedSizes
    <2>3. /\ sd2 = sd /\ p = b.quotePrice[sd]
          /\ b.levels[sd2][p].queue[1] = x
          /\ b.quoteQid[sd] \in DOMAIN b.orderOf
        BY <1>0, <2>2 DEF QuotesOK
    <2> HIDE DEF x
    <2>4. p \in DOMAIN b.levels[sd2]
        BY <1>0, <2>2, SizeType
    <2>5. b2.levels[sd2][p].queue[1] = x
        <3>1. CASE sd2 = side /\ p = price
            BY <1>0, <1>1, <2>3, <2>4, <3>1 DEF NoEmptyLevel
        <3>2. CASE sd2 # side \/ p # price
            BY <1>2, <2>3, <2>4, <3>2 DEF OnlyLevel
        <3> QED
            BY <3>1, <3>2
    <2> QED
        BY <1>5, <2>3, <2>5 DEF x
<1>7. ASSUME NEW sd \in Sides, b2.quoteQid[sd] \in DOMAIN b2.orderOf
      PROVE  b2.orderOf[b2.quoteQid[sd]] = QuoteOrder(sd)
    <2>1. b.quoteQid[sd] \in DOMAIN b.orderOf
        BY <1>2, <1>5, <1>7
    <2> QED
        BY <1>0, <1>5, <2>1 DEF QuotesOK
<1>8. QuotesOK(b2)
    BY <1>6, <1>7 DEF QuotesOK
<1>9. Aged(b2)
    <2>1. \A x : Queued(b2, x) => Queued(b, x) \/ x = id
        BY <1>1, AddedSizes DEF Queued
    <2> QED
        BY <1>0, <1>1, <1>2, <2>1, AgedElsewhere
<1> QED
    BY <1>1, <1>2, <1>3, <1>4, <1>8, <1>9 DEF BookOK, b2, qid

-----------------------------------------------------------------------------
(* The displayed quote *)

Quotes == {QuoteOrder(side) : side \in Sides}

(* What rests for the strategy is the same in both books.                  *)
SameOrders(b2, b) ==
    /\ \A sd \in Sides : \A p, x : x \notin Quotes => Size(b2, sd, p, x) = Size(b, sd, p, x)
    /\ \A q \in DOMAIN b.orderOf : b.orderOf[q] \notin Quotes =>
          q \in DOMAIN b2.orderOf /\ b2.orderOf[q] = b.orderOf[q]

(* Two changes that leave the submitted orders alone do so together.       *)
LEMMA SameOrdersTwice ==
    ASSUME NEW b, NEW b2, SameOrders(b2, b), NEW b3, SameOrders(b3, b2)
    PROVE  SameOrders(b3, b)
<1>1. /\ \A sd \in Sides : \A p, x : x \notin Quotes => Size(b2, sd, p, x) = Size(b, sd, p, x)
      /\ \A q \in DOMAIN b.orderOf : b.orderOf[q] \notin Quotes =>
            q \in DOMAIN b2.orderOf /\ b2.orderOf[q] = b.orderOf[q]
    BY DEF SameOrders
<1>2. /\ \A sd \in Sides : \A p, x : x \notin Quotes => Size(b3, sd, p, x) = Size(b2, sd, p, x)
      /\ \A q \in DOMAIN b2.orderOf : b2.orderOf[q] \notin Quotes =>
            q \in DOMAIN b3.orderOf /\ b3.orderOf[q] = b2.orderOf[q]
    BY DEF SameOrders
<1>3. \A q \in DOMAIN b.orderOf : b.orderOf[q] \notin Quotes =>
            q \in DOMAIN b3.orderOf /\ b3.orderOf[q] = b.orderOf[q]
    BY <1>1, <1>2
<1>4. \A sd \in Sides : \A p, x : x \notin Quotes => Size(b3, sd, p, x) = Size(b, sd, p, x)
    BY <1>1, <1>2
<1> QED
    BY <1>3, <1>4 DEF SameOrders

(* The quote orders of the two sides differ, and are no submitted orders.  *)
LEMMA QuoteSides ==
    ASSUME NEW sd \in Sides, NEW sd2 \in Sides
    PROVE  /\ QuoteOrder(sd) \in Quotes /\ QuoteOrder(sd) \in Int \ Nat
           /\ QuoteOrder(sd) = QuoteOrder(sd2) => sd = sd2
           /\ Quotes = {-1, -2}
BY DEF QuoteOrder, Quotes, Sides

(* b3 is b2 but for what it remembers of the quote of one side.            *)
Remembers(b3, b2, side, qid, price) ==
    /\ DOMAIN b3 = {"levels", "orderOf", "quoteQid", "quotePrice"}
    /\ b3.levels = b2.levels /\ b3.orderOf = b2.orderOf
    /\ DOMAIN b3.quoteQid = Sides /\ DOMAIN b3.quotePrice = Sides
    /\ b3.quoteQid[side] = qid /\ b3.quotePrice[side] = price
    /\ \A sd \in Sides : sd # side =>
          b3.quoteQid[sd] = b2.quoteQid[sd] /\ b3.quotePrice[sd] = b2.quotePrice[sd]

(* Remembering a quote changes nothing of the levels.                      *)
LEMMA RemembersSame ==
    ASSUME NEW b2, IsBook(b2), IdsMatch(b2), Single(b2), NoEmptyLevel(b2), NEW side \in Sides,
           NEW qid, NEW price, NEW b3, Remembers(b3, b2, side, qid, price)
    PROVE  /\ IsBook(b3) /\ IdsMatch(b3) /\ Single(b3) /\ NoEmptyLevel(b3)
           /\ \A sd, p, x : Size(b3, sd, p, x) = Size(b2, sd, p, x)
           /\ \A x : Queued(b3, x) <=> Queued(b2, x)
           /\ Aged(b2) => Aged(b3)
<1>1. b3.levels = b2.levels /\ b3.orderOf = b2.orderOf
    BY DEF Remembers
<1>2. \A sd, p, x : Size(b3, sd, p, x) = Size(b2, sd, p, x)
    BY <1>1 DEF Size
<1>3. \A x : Queued(b3, x) <=> Queued(b2, x)
    BY <1>2 DEF Queued
<1>4. IsBook(b3)
    BY <1>1 DEF Remembers, IsBook
<1>5. IdsMatch(b3)
    BY <1>1, <1>3 DEF IdsMatch
<1>6. Single(b3)
    BY <1>2 DEF Single
<1>7. NoEmptyLevel(b3)
    BY <1>1 DEF NoEmptyLevel
<1>8. Aged(b2) => Aged(b3)
    BY <1>1, <1>3 DEF Aged, Ascends
<1> QED
    BY <1>2, <1>3, <1>4, <1>5, <1>6, <1>7, <1>8

(* The displayed quote is taken back.                                      *)
LEMMA QuoteRemoved ==
    ASSUME NEW b, BookOK(b), NEW side \in Sides, NEW b2, b2 = RemoveSynthetic(b, side)
    PROVE  /\ BookOK(b2) /\ SameOrders(b2, b)
           /\ ~Queued(b2, QuoteOrder(side))
           /\ \A x : Queued(b2, x) => Queued(b, x)
<1> DEFINE qid == b.quoteQid[side]
           price == b.quotePrice[side]
           id == QuoteOrder(side)
           c == RemoveLevelIfEmpty(CancelQueued(b, qid), side, price)
<1>0. /\ IsBook(b) /\ IdsMatch(b) /\ Single(b) /\ NoEmptyLevel(b) /\ QuotesOK(b)
      /\ \A sd \in Sides : DOMAIN b.levels[sd] \subseteq Prices
    BY DEF BookOK
<1>1. qid \notin DOMAIN b.orderOf => ~Queued(b, id)
    BY <1>0 DEF QuotesOK, Queued
<1>2. \A sd \in Sides : \A p : Size(b, sd, p, id) # 0 => sd = side /\ p = price
    BY <1>0 DEF QuotesOK
<1>3. /\ BookOK(c) /\ SameOrders(c, b) /\ ~Queued(c, id)
      /\ \A x : Queued(c, x) => Queued(b, x)
    <2>1. CASE qid \notin DOMAIN b.orderOf
        <3>1. CancelQueued(b, qid) = b
            BY <2>1, ZenonT(30) DEF CancelQueued
        <3>2. c = b
            BY <1>0, <3>1 DEF RemoveLevelIfEmpty, HasLevel, NoEmptyLevel
        <3> QED
            BY <1>1, <2>1, <3>2 DEF SameOrders
    <2>2. CASE qid \in DOMAIN b.orderOf
        <3>1. b.orderOf[qid] = id
            BY <1>0, <2>2 DEF QuotesOK
        <3> HIDE DEF qid, price, id, c
        <3>2. Removed(c, b, side, price, id, qid) /\ NoEmptyLevel(c)
            <4>1. c = RemoveLevelIfEmpty(CancelQueued(b, qid), side, price)
                BY DEF c
            <4> QED
                BY <1>0, <1>2, <2>2, <3>1, <4>1, CancelRemoves
        <3>3. Shrunk(c, b, side, price)
            BY <1>0, <3>2, RemovedShrunk
        <3>4. BookOK(c)
            BY <3>2, <3>3, ShrunkOK
        <3>5. OnlyLevel(c, b, side, price) /\ IdsMatch(c)
            BY <3>3 DEF Shrunk
        <3>6. \A sd \in Sides : \A p, x : x # id => Size(c, sd, p, x) = Size(b, sd, p, x)
            <4> SUFFICES ASSUME NEW sd \in Sides, NEW p, NEW x, x # id
                         PROVE  Size(c, sd, p, x) = Size(b, sd, p, x)
                OBVIOUS
            <4>1. CASE sd = side /\ p = price
                BY <3>2, <4>1 DEF Removed
            <4>2. CASE sd # side \/ p # price
                BY <3>5, <4>2, SameSize
            <4> QED
                BY <4>1, <4>2
        <3>7. ~Queued(c, id)
            <4> SUFFICES ASSUME NEW sd \in Sides, NEW p, Size(c, sd, p, id) # 0 PROVE FALSE
                BY DEF Queued
            <4>1. Size(b, sd, p, id) # 0
                BY <1>0, <3>3, ShrunkSizes
            <4>2. sd = side /\ p = price
                BY <1>2, <4>1
            <4> QED
                BY <3>2, <4>2 DEF Removed
        <3>8. SameOrders(c, b)
            <4>1. id \in Quotes
                BY QuoteSides DEF id
            <4>2. c.orderOf = Without(b.orderOf, qid)
                BY <3>2 DEF Removed
            <4>3. ASSUME NEW q \in DOMAIN b.orderOf, b.orderOf[q] \notin Quotes
                  PROVE  q \in DOMAIN c.orderOf /\ c.orderOf[q] = b.orderOf[q]
                BY <3>1, <4>1, <4>2, <4>3 DEF Without
            <4> QED
                BY <3>6, <4>1, <4>3 DEF SameOrders
        <3>9. \A x : Queued(c, x) => Queued(b, x)
            BY <1>0, <3>3, ShrunkSizes DEF Queued
        <3> QED
            BY <3>4, <3>7, <3>8, <3>9
    <2> QED
        BY <2>1, <2>2
<1>4. CASE qid = 0
    <2>1. b2 = b
        BY <1>4 DEF RemoveSynthetic
    <2>2. qid \notin DOMAIN b.orderOf
        BY <1>0, <1>4 DEF IdsMatch
    <2> QED
        BY <1>1, <2>1, <2>2 DEF SameOrders
<1>5. CASE qid # 0
    <2> HIDE DEF c
    <2>0. /\ IsBook(c) /\ IdsMatch(c) /\ Single(c) /\ NoEmptyLevel(c) /\ QuotesOK(c) /\ Aged(c)
          /\ \A sd \in Sides : DOMAIN c.levels[sd] \subseteq Prices
        BY <1>3 DEF BookOK
    <2>1. b2 = [c EXCEPT !.quoteQid[side] = 0]
        BY <1>5 DEF RemoveSynthetic, c
    <2>2. Remembers(b2, c, side, 0, c.quotePrice[side])
        BY <2>0, <2>1 DEF Remembers, IsBook
    <2>3. /\ IsBook(b2) /\ IdsMatch(b2) /\ Single(b2) /\ NoEmptyLevel(b2)
          /\ \A sd, p, x : Size(b2, sd, p, x) = Size(c, sd, p, x)
          /\ \A x : Queued(b2, x) <=> Queued(c, x)
          /\ Aged(b2)
        BY <2>0, <2>2, RemembersSame
    <2>4. /\ b2.levels = c.levels /\ b2.orderOf = c.orderOf /\ b2.quoteQid[side] = 0
          /\ \A sd \in Sides : sd # side =>
                b2.quoteQid[sd] = c.quoteQid[sd] /\ b2.quotePrice[sd] = c.quotePrice[sd]
        BY <2>2 DEF Remembers
    <2>5. 0 \notin DOMAIN b2.orderOf
        BY <2>3 DEF IdsMatch
    <2>6. QuotesOK(b2)
        <3> SUFFICES ASSUME NEW sd \in Sides
                     PROVE  /\ \A sd2 \in Sides : \A p : Size(b2, sd2, p, QuoteOrder(sd)) # 0 =>
                                  /\ sd2 = sd /\ p = b2.quotePrice[sd]
                                  /\ b2.levels[sd2][p].queue[1] = QuoteOrder(sd)
                                  /\ b2.quoteQid[sd] \in DOMAIN b2.orderOf
                            /\ b2.quoteQid[sd] \in DOMAIN b2.orderOf =>
                                  b2.orderOf[b2.quoteQid[sd]] = QuoteOrder(sd)
            BY DEF QuotesOK
        <3>1. CASE sd = side
            BY <1>3, <2>3, <2>4, <2>5, <3>1 DEF Queued
        <3>2. CASE sd # side
            <4> DEFINE x == QuoteOrder(sd)
            <4> HIDE DEF x
            <4>1. /\ \A sd2 \in Sides : \A p : Size(c, sd2, p, x) # 0 =>
                        /\ sd2 = sd /\ p = c.quotePrice[sd]
                        /\ c.levels[sd2][p].queue[1] = x
                        /\ c.quoteQid[sd] \in DOMAIN c.orderOf
                  /\ c.quoteQid[sd] \in DOMAIN c.orderOf =>
                        c.orderOf[c.quoteQid[sd]] = x
                BY <2>0 DEF QuotesOK, x
            <4>2. /\ \A sd2 \in Sides : \A p : Size(b2, sd2, p, x) # 0 =>
                        /\ sd2 = sd /\ p = b2.quotePrice[sd]
                        /\ b2.levels[sd2][p].queue[1] = x
                        /\ b2.quoteQid[sd] \in DOMAIN b2.orderOf
                  /\ b2.quoteQid[sd] \in DOMAIN b2.orderOf =>
                        b2.orderOf[b2.quoteQid[sd]] = x
                BY <2>3, <2>4, <3>2, <4>1
            <4> QED
                BY <4>2 DEF x
        <3> QED
            BY <3>1, <3>2
    <2>7. BookOK(b2)
        BY <2>0, <2>3, <2>4, <2>6 DEF BookOK
    <2>8. SameOrders(b2, b)
        <3>1. \A sd \in Sides : \A p, x : x \notin Quotes => Size(b2, sd, p, x) = Size(b, sd, p, x)
            BY <1>3, <2>3 DEF SameOrders
        <3>2. \A q \in DOMAIN b.orderOf : b.orderOf[q] \notin Quotes =>
                 q \in DOMAIN b2.orderOf /\ b2.orderOf[q] = b.orderOf[q]
            BY <1>3, <2>4 DEF SameOrders
        <3> QED
            BY <3>1, <3>2 DEF SameOrders
    <2> QED
        BY <1>3, <2>3, <2>7, <2>8
<1> QED
    BY <1>4, <1>5

(* The quote is displayed anew.                                            *)
LEMMA QuoteShown ==
    ASSUME NEW b, BookOK(b), NEW side \in Sides, ~Queued(b, QuoteOrder(side)),
           NEW held, IsFiniteSet(held), NEW price \in Prices, NEW size \in Nat,
           NEW b3, b3 = ShowQuote(b, held, side, price, size)
    PROVE  /\ BookOK(b3) /\ SameOrders(b3, b)
           /\ \A x : Queued(b3, x) => Queued(b, x) \/ x = QuoteOrder(side)
<1>0. /\ IsBook(b) /\ IdsMatch(b) /\ Single(b) /\ NoEmptyLevel(b) /\ QuotesOK(b) /\ Aged(b)
      /\ \A sd \in Sides : DOMAIN b.levels[sd] \subseteq Prices
    BY DEF BookOK
<1>1. CASE size = 0
    BY <1>1 DEF ShowQuote, SameOrders
<1>2. CASE size # 0
    <2> DEFINE id == QuoteOrder(side)
               r == EnqueueOrderFront(b, held, side, price, id, size)
               b2 == r.book
               qid == r.qid
    <2>1. b3 = [b2 EXCEPT !.quoteQid[side] = qid, !.quotePrice[side] = price]
        BY <1>2 DEF ShowQuote
    <2>2. id \in Int /\ id \in Quotes
        BY QuoteSides
    <2>3. /\ Added(b2, b, side, price, id, size, qid) /\ b2.levels[side][price].queue[1] = id
          /\ Ascends(b2, side, price)
        <3> DEFINE end == "front"
        <3>1. end = "front" /\ r = Rest(b, held, side, price, id, size, end)
            BY DEF EnqueueOrderFront
        <3>2. size \in Nat \ {0} /\ ~Queued(b, id)
            BY <1>2
        <3>4. ASSUME NEW x \in Int, Size(b, side, price, x) # 0 PROVE id < x
            <4>1. Queued(b, x) /\ ~Queued(b, id)
                BY <3>2, <3>4 DEF Queued
            <4>2. x \in Nat \/ \E sd \in Sides : x = QuoteOrder(sd)
                BY <1>0, <4>1 DEF Aged
            <4>3. CASE x \in Nat
                BY <4>3 DEF QuoteOrder
            <4>4. ASSUME NEW sd \in Sides, x = QuoteOrder(sd) PROVE FALSE
                <5>1. sd = side
                    BY <1>0, <3>4, <4>4 DEF QuotesOK
                <5> QED
                    BY <4>1, <4>4, <5>1
            <4> QED
                BY <4>2, <4>3, <4>4
        <3>5. Ascends(b, side, price)
            BY <1>0 DEF Aged
        <3>6. end # "back"
            OBVIOUS
        <3> HIDE DEF end, r, id
        <3>7. InTurn(b, side, price, id, end)
            BY <3>4, <3>6 DEF InTurn
        <3>3. /\ Added(r.book, b, side, price, id, size, r.qid)
              /\ end = "front" => r.book.levels[side][price].queue[1] = id
              /\ Ascends(b, side, price) /\ InTurn(b, side, price, id, end)
                    => Ascends(r.book, side, price)
            BY <1>0, <2>2, <3>1, <3>2, RestAdds
        <3> QED
            BY <3>1, <3>3, <3>5, <3>7
    <2>30. id \in Nat \/ \E sd \in Sides : id = QuoteOrder(sd)
        OBVIOUS
    <2> HIDE DEF r, b2, qid, id
    <2>4. /\ IsBook(b2) /\ IdsMatch(b2) /\ OnlyLevel(b2, b, side, price)
          /\ qid \in Nat \ {0} /\ qid \notin DOMAIN b.orderOf /\ \A sd \in Sides : qid # b.quoteQid[sd]
          /\ b2.orderOf = With(b.orderOf, qid, id)
        BY <2>3 DEF Added
    <2>5. ~Queued(b, id)
        BY DEF id
    <2>6. /\ Single(b2)
          /\ \A sd \in Sides : \A p : Size(b2, sd, p, id) # 0 => sd = side /\ p = price
        BY <1>0, <2>3, <2>5, AddedSingle
    <2>7. NoEmptyLevel(b2) /\ \A sd \in Sides : DOMAIN b2.levels[sd] \subseteq Prices
        BY <1>0, <2>3, AddedLevels
    <2>8. Remembers(b3, b2, side, qid, price)
        BY <2>1, <2>4 DEF Remembers, IsBook
    <2>81. Aged(b2)
        <3>1. \A x : Queued(b2, x) => Queued(b, x) \/ x = id
            BY <2>3, AddedSizes DEF Queued
        <3> QED
            BY <1>0, <2>3, <2>30, <2>4, <3>1, AgedElsewhere
    <2>9. /\ IsBook(b3) /\ IdsMatch(b3) /\ Single(b3) /\ NoEmptyLevel(b3)
          /\ \A sd, p, x : Size(b3, sd, p, x) = Size(b2, sd, p, x)
          /\ \A x : Queued(b3, x) <=> Queued(b2, x)
          /\ Aged(b3)
        BY <2>4, <2>6, <2>7, <2>8, <2>81, RemembersSame
    <2>10. /\ b3.levels = b2.levels /\ b3.orderOf = b2.orderOf
           /\ b3.quoteQid[side] = qid /\ b3.quotePrice[side] = price
           /\ \A sd \in Sides : sd # side =>
                 b3.quoteQid[sd] = b2.quoteQid[sd] /\ b3.quotePrice[sd] = b2.quotePrice[sd]
        BY <2>8 DEF Remembers
    <2>11. /\ DOMAIN b2.orderOf = DOMAIN b.orderOf \cup {qid}
           /\ b2.orderOf[qid] = id
           /\ \A q \in DOMAIN b.orderOf : b2.orderOf[q] = b.orderOf[q]
           /\ b2.quoteQid = b.quoteQid /\ b2.quotePrice = b.quotePrice
        BY <2>4 DEF With, OnlyLevel
    <2>12. \A sd \in Sides : \A p, x : x # id => Size(b2, sd, p, x) = Size(b, sd, p, x)
        BY <2>3, AddedSizes
    <2>13. QuotesOK(b3)
        <3> SUFFICES ASSUME NEW sd \in Sides
                     PROVE  /\ \A sd2 \in Sides : \A p : Size(b3, sd2, p, QuoteOrder(sd)) # 0 =>
                                  /\ sd2 = sd /\ p = b3.quotePrice[sd]
                                  /\ b3.levels[sd2][p].queue[1] = QuoteOrder(sd)
                                  /\ b3.quoteQid[sd] \in DOMAIN b3.orderOf
                            /\ b3.quoteQid[sd] \in DOMAIN b3.orderOf =>
                                  b3.orderOf[b3.quoteQid[sd]] = QuoteOrder(sd)
            BY DEF QuotesOK
        <3>1. CASE sd = side
            <4>1. /\ \A sd2 \in Sides : \A p : Size(b3, sd2, p, id) # 0 =>
                        /\ sd2 = side /\ p = b3.quotePrice[side]
                        /\ b3.levels[sd2][p].queue[1] = id
                        /\ b3.quoteQid[side] \in DOMAIN b3.orderOf
                  /\ b3.orderOf[b3.quoteQid[side]] = id
                BY <2>3, <2>6, <2>9, <2>10, <2>11
            <4> QED
                BY <3>1, <4>1 DEF id
        <3>2. CASE sd # side
            <4> DEFINE x == QuoteOrder(sd)
            <4>1. x # id
                BY <3>2, QuoteSides DEF id
            <4> HIDE DEF x
            <4>2. /\ \A sd2 \in Sides : \A p : Size(b, sd2, p, x) # 0 =>
                        /\ sd2 = sd /\ p = b.quotePrice[sd]
                        /\ b.levels[sd2][p].queue[1] = x
                        /\ b.quoteQid[sd] \in DOMAIN b.orderOf
                  /\ b.quoteQid[sd] \in DOMAIN b.orderOf =>
                        b.orderOf[b.quoteQid[sd]] = x
                BY <1>0 DEF QuotesOK, x
            <4>3. ASSUME NEW sd2 \in Sides, NEW p, Size(b3, sd2, p, x) # 0
                  PROVE  /\ sd2 = sd /\ p = b3.quotePrice[sd]
                         /\ b3.levels[sd2][p].queue[1] = x
                         /\ b3.quoteQid[sd] \in DOMAIN b3.orderOf
                <5>1. Size(b, sd2, p, x) # 0
                    BY <2>9, <2>12, <4>1, <4>3
                <5>2. p \in DOMAIN b.levels[sd2]
                    BY <1>0, <5>1, SizeType
                <5>3. sd2 = sd /\ p = b.quotePrice[sd] /\ b.quoteQid[sd] \in DOMAIN b.orderOf
                    BY <4>2, <5>1
                <5>4. b2.levels[sd2][p] = b.levels[sd2][p]
                    BY <2>4, <3>2, <5>2, <5>3 DEF OnlyLevel
                <5> QED
                    BY <2>10, <2>11, <3>2, <4>2, <5>1, <5>3, <5>4
            <4>4. b3.quoteQid[sd] \in DOMAIN b3.orderOf => b3.orderOf[b3.quoteQid[sd]] = x
                <5>1. b3.quoteQid[sd] = b.quoteQid[sd] /\ b.quoteQid[sd] # qid
                    BY <2>4, <2>10, <2>11, <3>2
                <5> QED
                    BY <2>10, <2>11, <4>2, <5>1
            <4> QED
                BY <4>3, <4>4 DEF x
        <3> QED
            BY <3>1, <3>2
    <2>14. BookOK(b3)
        BY <2>7, <2>9, <2>10, <2>13 DEF BookOK
    <2>15. SameOrders(b3, b)
        <3>1. \A sd \in Sides : \A p, x : x \notin Quotes => Size(b3, sd, p, x) = Size(b, sd, p, x)
            BY <2>2, <2>9, <2>12
        <3>2. \A q \in DOMAIN b.orderOf : b.orderOf[q] \notin Quotes =>
                 q \in DOMAIN b3.orderOf /\ b3.orderOf[q] = b.orderOf[q]
            BY <2>10, <2>11
        <3> QED
            BY <3>1, <3>2 DEF SameOrders
    <2>16. \A x : Queued(b3, x) => Queued(b, x) \/ x = id
        BY <2>9, <2>12 DEF Queued
    <2> QED
        BY <2>14, <2>15, <2>16 DEF id
<1> QED
    BY <1>1, <1>2

(* A tick replaces the displayed quotes and leaves the rest alone.         *)
LEMMA TickShown ==
    ASSUME NEW b, BookOK(b), NEW held, IsFiniteSet(held),
           NEW tick, tick.bid \in Prices, tick.ask \in Prices,
           tick.bidSize \in Nat, tick.askSize \in Nat,
           NEW b2, b2 = OnTick(b, held, tick)
    PROVE  /\ BookOK(b2) /\ SameOrders(b2, b)
           /\ \A x : x \notin Quotes => (Queued(b2, x) <=> Queued(b, x))
<1> DEFINE c == RemoveSynthetic(b, "BUY")
           d == RemoveSynthetic(c, "SELL")
           e == ShowQuote(d, held, "BUY", tick.bid, tick.bidSize)
<1>1. b2 = ShowQuote(e, held, "SELL", tick.ask, tick.askSize)
    BY DEF OnTick
<1> DEFINE buy == "BUY"
           sell == "SELL"
<1>2. buy \in Sides /\ sell \in Sides /\ QuoteOrder(buy) # QuoteOrder(sell)
    BY DEF Sides, QuoteOrder
<1>3. /\ c = RemoveSynthetic(b, buy) /\ d = RemoveSynthetic(c, sell)
      /\ e = ShowQuote(d, held, buy, tick.bid, tick.bidSize)
      /\ b2 = ShowQuote(e, held, sell, tick.ask, tick.askSize)
    BY <1>1
<1> HIDE DEF buy, sell, c, d, e
<1>4. /\ BookOK(c) /\ SameOrders(c, b) /\ ~Queued(c, QuoteOrder(buy))
    BY <1>2, <1>3, QuoteRemoved
<1>5. /\ BookOK(d) /\ SameOrders(d, c) /\ ~Queued(d, QuoteOrder(sell))
      /\ ~Queued(d, QuoteOrder(buy))
    BY <1>2, <1>3, <1>4, QuoteRemoved
<1>6. /\ BookOK(e) /\ SameOrders(e, d) /\ ~Queued(e, QuoteOrder(sell))
    <2> DEFINE price == tick.bid
               size == tick.bidSize
    <2>1. price \in Prices /\ size \in Nat /\ e = ShowQuote(d, held, buy, price, size)
        BY <1>3
    <2> HIDE DEF price, size
    <2>2. /\ BookOK(e) /\ SameOrders(e, d)
          /\ \A x : Queued(e, x) => Queued(d, x) \/ x = QuoteOrder(buy)
        BY <1>2, <1>5, <2>1, QuoteShown
    <2> QED
        BY <1>2, <1>5, <2>2
<1>7. BookOK(b2) /\ SameOrders(b2, e)
    <2> DEFINE price == tick.ask
               size == tick.askSize
    <2>1. price \in Prices /\ size \in Nat /\ b2 = ShowQuote(e, held, sell, price, size)
        BY <1>3
    <2> HIDE DEF price, size
    <2> QED
        BY <1>2, <1>6, <2>1, QuoteShown
<1>8. SameOrders(b2, b)
    <2>1. SameOrders(d, b)
        BY <1>4, <1>5, SameOrdersTwice
    <2>2. SameOrders(e, b)
        BY <1>6, <2>1, SameOrdersTwice
    <2> QED
        BY <1>7, <2>2, SameOrdersTwice
<1>9. ASSUME NEW x, x \notin Quotes PROVE Queued(b2, x) <=> Queued(b, x)
    BY <1>8, <1>9 DEF SameOrders, Queued
<1> QED
    BY <1>7, <1>8, <1>9

-----------------------------------------------------------------------------
(* Orders and the ledger *)

OrderRecords ==
    [type : {"MARKET", "LIMIT"}, side : Sides, tif : {"DAY", "IOC"}, quantity : Nat \ {0},
     limit : Nat, filled : Nat, value : Nat,
     status : {"PENDING", "PARTIALLY_FILLED", "FILLED", "CANCELLED"}]

(* q shares of value v are no worse than the limit of the order.           *)
Fair(o, q, v) ==
    o.type = "LIMIT" => /\ o.side = "BUY" => v <= o.limit * q
                        /\ o.side # "BUY" => v >= o.limit * q

OrderOK(o) ==
    /\ o \in OrderRecords
    /\ o.filled <= o.quantity
    /\ o.status = "FILLED" <=> o.filled = o.quantity
    /\ Fair(o, o.filled, o.value)
    /\ o.type = "LIMIT" => o.limit \in Prices
    /\ o.type = "MARKET" => o.tif = "DAY"

(* Multiplication distributes over addition.                               *)
LEMMA Distribute ==
    ASSUME NEW a \in Int, NEW b \in Int, NEW c \in Int
    PROVE  c * (a + b) = c * a + c * b
OBVIOUS

(* A fill of what an order lacks, or less, at a fair price keeps the order *)
(* in order.                                                               *)
LEMMA AdvancedOK ==
    ASSUME NEW o, OrderOK(o), NEW q \in Nat \ {0}, NEW v \in Nat, q <= Remaining(o), Fair(o, q, v),
           NEW o2, o2 = Advanced(o, q, v)
    PROVE  /\ OrderOK(o2)
           /\ o2.type = o.type /\ o2.side = o.side /\ o2.tif = o.tif /\ o2.limit = o.limit
           /\ o2.quantity = o.quantity
           /\ o2.filled = o.filled + q /\ o2.value = o.value + v
           /\ Remaining(o2) = Remaining(o) - q
           /\ Filled(o2) <=> Remaining(o) = q
           /\ Active(o2) <=> ~Filled(o2)
           /\ o2.status # "CANCELLED"
<1>0. /\ o \in OrderRecords /\ o.filled <= o.quantity
      /\ Fair(o, o.filled, o.value)
      /\ o.type = "LIMIT" => o.limit \in Prices
      /\ o.type = "MARKET" => o.tif = "DAY"
    BY DEF OrderOK
<1>1. /\ o.type \in {"MARKET", "LIMIT"} /\ o.side \in Sides /\ o.tif \in {"DAY", "IOC"}
      /\ o.quantity \in Nat \ {0} /\ o.limit \in Nat /\ o.filled \in Nat /\ o.value \in Nat
      /\ DOMAIN o = {"type", "side", "tif", "quantity", "limit", "filled", "value", "status"}
    BY <1>0 DEF OrderRecords
<1>2. /\ o2.type = o.type /\ o2.side = o.side /\ o2.tif = o.tif /\ o2.limit = o.limit
      /\ o2.quantity = o.quantity
      /\ o2.filled = o.filled + q /\ o2.value = o.value + v
      /\ o2.status = IF o.filled + q >= o.quantity THEN "FILLED" ELSE "PARTIALLY_FILLED"
    BY <1>1 DEF Advanced
<1>3. o2 \in OrderRecords
    <2> DEFINE filled == o.filled + q
               value == o.value + v
               status == IF o.filled + q >= o.quantity THEN "FILLED" ELSE "PARTIALLY_FILLED"
    <2>1. /\ filled \in Nat /\ value \in Nat
          /\ status \in {"PENDING", "PARTIALLY_FILLED", "FILLED", "CANCELLED"}
        BY <1>1
    <2>2. o2 = [o EXCEPT !.filled = filled, !.value = value, !.status = status]
        BY <1>1 DEF Advanced
    <2> HIDE DEF filled, value, status
    <2> QED
        BY <1>0, <2>1, <2>2 DEF OrderRecords
<1>4. o.filled + q <= o.quantity
    BY <1>1 DEF Remaining
<1>5. o2.filled <= o2.quantity /\ (o2.status = "FILLED" <=> o2.filled = o2.quantity)
    BY <1>1, <1>2, <1>4
<1>6. Fair(o2, o2.filled, o2.value)
    <2> SUFFICES ASSUME o.type = "LIMIT" PROVE Fair(o2, o2.filled, o2.value)
        BY <1>2 DEF Fair
    <2>1. o.limit * (o.filled + q) = o.limit * o.filled + o.limit * q
        BY <1>1, Distribute
    <2>2. o.limit * o.filled \in Int /\ o.limit * q \in Int
        BY <1>1
    <2> DEFINE a == o.limit * o.filled
               b == o.limit * q
               c == o.limit * (o.filled + q)
    <2>3. /\ o.side = "BUY" => o.value <= a /\ v <= b
          /\ o.side # "BUY" => o.value >= a /\ v >= b
        BY <1>0 DEF Fair
    <2>4. a \in Int /\ b \in Int /\ c = a + b
        BY <2>1, <2>2
    <2> HIDE DEF a, b, c
    <2>5. /\ o.side = "BUY" => o.value + v <= c
          /\ o.side # "BUY" => o.value + v >= c
        BY <1>1, <2>3, <2>4
    <2> QED
        BY <1>2, <2>5 DEF Fair, c
<1>7. OrderOK(o2)
    BY <1>0, <1>2, <1>3, <1>5, <1>6 DEF OrderOK
<1>8. /\ Remaining(o2) = Remaining(o) - q
      /\ Filled(o2) <=> Remaining(o) = q
      /\ Active(o2) <=> ~Filled(o2)
      /\ o2.status # "CANCELLED"
    BY <1>1, <1>2, <1>4 DEF Remaining, Filled, Active
<1> QED
    BY <1>2, <1>7, <1>8

(* Prices are positive and lie between the lowest and the highest.         *)
LEMMA PriceBounds ==
    /\ Min(Prices) \in Nat /\ Max(Prices) \in Nat
    /\ \A p \in Prices : p \in Nat \ {0} /\ Min(Prices) <= p /\ p <= Max(Prices)
<1>1. PICK hi \in Prices : \A p \in Prices : p <= hi
    BY DepthAssumption
<1>2. Prices \subseteq Nat /\ Prices # {} /\ \A p \in Prices : p \in Nat \ {0}
    BY <1>1, DepthAssumption
<1>3. PICK m \in Prices : \A y \in Prices : ~(<<y, m>> \in OpToRel(<, Nat))
    BY <1>2, WFMin, NatLessThanWellFounded, ZenonT(30)
<1>4. \A y \in Prices : m <= y
    <2> SUFFICES ASSUME NEW y \in Prices PROVE m <= y
        OBVIOUS
    <2>1. m \in Nat /\ y \in Nat
        BY <1>2
    <2>2. y < m => <<y, m>> \in OpToRel(<, Nat)
        BY <2>1 DEF OpToRel
    <2>3. ~(y < m)
        BY <1>3, <2>2, ZenonT(30)
    <2> QED
        BY <2>1, <2>3
<1>5. Min(Prices) \in Prices /\ \A p \in Prices : Min(Prices) <= p
    BY <1>4 DEF Min
<1>6. Max(Prices) \in Prices /\ \A p \in Prices : p <= Max(Prices)
    <2>1. \A p \in Prices : hi >= p
        BY <1>1, <1>2
    <2>2. Max(Prices) \in Prices /\ \A p \in Prices : Max(Prices) >= p
        BY <2>1 DEF Max
    <2>3. Prices \subseteq Int
        BY <1>2
    <2> QED
        BY <2>2, <2>3
<1> QED
    BY <1>2, <1>5, <1>6

Fields == {"orders", "symbolOrders", "limitQueueIds", "book", "cash", "position", "told"}

OrdersOK(s) ==
    /\ DOMAIN s = Fields
    /\ s.orders \in Seq(OrderRecords)
    /\ s.told \in Seq(Nat) /\ Len(s.told) = Len(s.orders)
    /\ \A id \in 1..Len(s.orders) : OrderOK(s.orders[id]) /\ s.told[id] = s.orders[id].filled

LedgerOK(s) ==
    /\ s.cash \in Nat /\ s.position \in Int
    /\ FilledShares(s) - s.position \in Nat
    /\ (FilledShares(s) - s.position) * Min(Prices) <= s.cash - (InitialCash - FilledValue(s))
    /\ s.cash - (InitialCash - FilledValue(s)) <= (FilledShares(s) - s.position) * Max(Prices)

SharesOf(s) == [id \in DOMAIN s.orders |-> Signed(s.orders[id].side, s.orders[id].filled)]
ValuesOf(s) == [id \in DOMAIN s.orders |-> Signed(s.orders[id].side, s.orders[id].value)]

(* The sign of a side distributes over addition.                           *)
LEMMA SignedType ==
    ASSUME NEW side, NEW a \in Int, NEW b \in Int
    PROVE  Signed(side, a) \in Int /\ Signed(side, a + b) = Signed(side, a) + Signed(side, b)
BY DEF Signed

(* What there is to know of an order that is in order.                     *)
LEMMA OrderFacts ==
    ASSUME NEW s, OrdersOK(s)
    PROVE  /\ Len(s.orders) \in Nat /\ DOMAIN s.orders = 1..Len(s.orders)
           /\ DOMAIN s.told = 1..Len(s.orders)
           /\ \A id \in 1..Len(s.orders) :
                 /\ s.orders[id] \in OrderRecords /\ OrderOK(s.orders[id])
                 /\ s.orders[id].filled \in Nat /\ s.orders[id].value \in Nat
                 /\ s.orders[id].quantity \in Nat \ {0} /\ s.orders[id].side \in Sides
                 /\ s.orders[id].filled <= s.orders[id].quantity
                 /\ s.orders[id].type \in {"MARKET", "LIMIT"}
                 /\ Remaining(s.orders[id]) \in Nat
                 /\ Remaining(s.orders[id]) = 0 <=> Filled(s.orders[id])
<1>1. /\ s.orders \in Seq(OrderRecords) /\ s.told \in Seq(Nat) /\ Len(s.told) = Len(s.orders)
      /\ \A id \in 1..Len(s.orders) : OrderOK(s.orders[id])
    BY DEF OrdersOK
<1>2. Len(s.orders) \in Nat /\ DOMAIN s.orders = 1..Len(s.orders) /\ DOMAIN s.told = 1..Len(s.orders)
    BY <1>1
<1>3. ASSUME NEW id \in 1..Len(s.orders)
      PROVE  /\ s.orders[id] \in OrderRecords /\ OrderOK(s.orders[id])
             /\ s.orders[id].filled \in Nat /\ s.orders[id].value \in Nat
             /\ s.orders[id].quantity \in Nat \ {0} /\ s.orders[id].side \in Sides
             /\ s.orders[id].filled <= s.orders[id].quantity
             /\ s.orders[id].type \in {"MARKET", "LIMIT"}
             /\ Remaining(s.orders[id]) \in Nat
             /\ Remaining(s.orders[id]) = 0 <=> Filled(s.orders[id])
    <2> DEFINE o == s.orders[id]
    <2>1. OrderOK(o)
        BY <1>1
    <2> HIDE DEF o
    <2>2. /\ o \in OrderRecords
          /\ o.filled <= o.quantity
          /\ o.status = "FILLED" <=> o.filled = o.quantity
        BY <2>1 DEF OrderOK
    <2>3. /\ o.filled \in Nat /\ o.value \in Nat /\ o.quantity \in Nat \ {0} /\ o.side \in Sides
          /\ o.type \in {"MARKET", "LIMIT"}
        BY <2>2 DEF OrderRecords
    <2>4. Remaining(o) \in Nat /\ (Remaining(o) = 0 <=> Filled(o))
        BY <2>2, <2>3 DEF Remaining, Filled
    <2> QED
        BY <2>1, <2>2, <2>3, <2>4 DEF o
<1> QED
    BY <1>2, <1>3

(* The shares and the value filled are sums over all orders.               *)
LEMMA LedgerSums ==
    ASSUME NEW s, OrdersOK(s)
    PROVE  /\ SharesOf(s) \in [1..Len(s.orders) -> Int] /\ ValuesOf(s) \in [1..Len(s.orders) -> Int]
           /\ FilledShares(s) = Total(SharesOf(s)) /\ FilledValue(s) = Total(ValuesOf(s))
           /\ FilledShares(s) \in Int /\ FilledValue(s) \in Int
<1>1. SharesOf(s) \in [1..Len(s.orders) -> Int] /\ ValuesOf(s) \in [1..Len(s.orders) -> Int]
    <2>1. \A id \in 1..Len(s.orders) : s.orders[id].filled \in Int /\ s.orders[id].value \in Int
        BY OrderFacts
    <2>2. DOMAIN s.orders = 1..Len(s.orders)
        BY OrderFacts
    <2>3. \A id \in 1..Len(s.orders) : /\ Signed(s.orders[id].side, s.orders[id].filled) \in Int
                                       /\ Signed(s.orders[id].side, s.orders[id].value) \in Int
        BY <2>1, SignedType
    <2> QED
        BY <2>2, <2>3 DEF SharesOf, ValuesOf
<1>2. FilledShares(s) = Total(SharesOf(s)) /\ FilledValue(s) = Total(ValuesOf(s))
    BY DEF FilledShares, FilledValue, SharesOf, ValuesOf
<1> QED
    <2>1. Len(s.orders) \in Nat
        BY OrderFacts
    <2> QED
        BY <1>1, <1>2, <2>1, TotalType

(* One order of s2 has q shares of value v more than in s.                 *)
FilledMore(s2, s, id, q, v) ==
    /\ Len(s2.orders) = Len(s.orders) /\ id \in 1..Len(s.orders)
    /\ s2.orders[id].side = s.orders[id].side
    /\ s2.orders[id].filled = s.orders[id].filled + q
    /\ s2.orders[id].value = s.orders[id].value + v
    /\ \A x \in 1..Len(s.orders) : x # id => s2.orders[x] = s.orders[x]

(* When one order fills, the sums change by the fill.                      *)
LEMMA SumsFilled ==
    ASSUME NEW s, OrdersOK(s), NEW s2, OrdersOK(s2), NEW id, NEW q \in Nat, NEW v \in Nat,
           FilledMore(s2, s, id, q, v)
    PROVE  /\ FilledShares(s2) = FilledShares(s) + Signed(s.orders[id].side, q)
           /\ FilledValue(s2) = FilledValue(s) + Signed(s.orders[id].side, v)
<1> DEFINE n == Len(s.orders)
           side == s.orders[id].side
           a == SharesOf(s)
           a2 == SharesOf(s2)
           c == ValuesOf(s)
           c2 == ValuesOf(s2)
<1>1. /\ n \in Nat /\ DOMAIN s.orders = 1..n /\ DOMAIN s2.orders = 1..n /\ Len(s2.orders) = n
      /\ id \in 1..n
      /\ s2.orders[id].side = side
      /\ s2.orders[id].filled = s.orders[id].filled + q
      /\ s2.orders[id].value = s.orders[id].value + v
      /\ \A x \in 1..n : x # id => s2.orders[x] = s.orders[x]
    BY OrderFacts DEF FilledMore
<1>2. /\ a \in [1..n -> Int] /\ c \in [1..n -> Int] /\ a2 \in [1..n -> Int] /\ c2 \in [1..n -> Int]
      /\ FilledShares(s) = Total(a) /\ FilledValue(s) = Total(c)
      /\ FilledShares(s2) = Total(a2) /\ FilledValue(s2) = Total(c2)
    BY <1>1, LedgerSums
<1>3. /\ \A x \in 1..n : a[x] = Signed(s.orders[x].side, s.orders[x].filled)
      /\ \A x \in 1..n : c[x] = Signed(s.orders[x].side, s.orders[x].value)
      /\ \A x \in 1..n : a2[x] = Signed(s2.orders[x].side, s2.orders[x].filled)
      /\ \A x \in 1..n : c2[x] = Signed(s2.orders[x].side, s2.orders[x].value)
    BY <1>1 DEF SharesOf, ValuesOf
<1>4. s.orders[id].filled \in Int /\ s.orders[id].value \in Int
    BY <1>1, OrderFacts
<1>5. Signed(side, q) \in Int /\ Signed(side, v) \in Int
    BY SignedType
<1> HIDE DEF a, a2, c, c2, n, side
<1>6. /\ a2[id] = a[id] + Signed(side, q)
      /\ c2[id] = c[id] + Signed(side, v)
    <2> DEFINE f == s.orders[id].filled
               w == s.orders[id].value
    <2>1. f \in Int /\ w \in Int /\ q \in Int /\ v \in Int
        BY <1>4
    <2>2. a[id] = Signed(side, f) /\ c[id] = Signed(side, w)
        BY <1>1, <1>3 DEF side
    <2>3. a2[id] = Signed(side, f + q) /\ c2[id] = Signed(side, w + v)
        BY <1>1, <1>3
    <2> HIDE DEF f, w
    <2>4. Signed(side, f + q) = Signed(side, f) + Signed(side, q)
        BY <2>1, SignedType
    <2>5. Signed(side, w + v) = Signed(side, w) + Signed(side, v)
        BY <2>1, SignedType
    <2> QED
        BY <2>2, <2>3, <2>4, <2>5
<1>7. \A x \in 1..n : x # id => a2[x] = a[x] /\ c2[x] = c[x]
    BY <1>1, <1>3
<1> DEFINE d == Signed(side, q)
           e == Signed(side, v)
<1>8. Changed(a2, a, n, id, d) /\ Changed(c2, c, n, id, e)
    BY <1>1, <1>2, <1>5, <1>6, <1>7 DEF Changed
<1> HIDE DEF d, e
<1>9. Total(a2) = Total(a) + d
    BY <1>1, <1>8, TotalChanged
<1>10. Total(c2) = Total(c) + e
    BY <1>1, <1>8, TotalChanged
<1> QED
    BY <1>2, <1>9, <1>10 DEF d, e, side

(* Multiplication distributes over addition, from the right.               *)
LEMMA DistributeRight ==
    ASSUME NEW a \in Int, NEW b \in Int, NEW c \in Int
    PROVE  (a + b) * c = a * c + b * c
OBVIOUS

(* The bookkeeping of one fill.                                            *)
Fills(s2, s, id, q, v) ==
    /\ s2.orders[id] = Advanced(s.orders[id], q, v)
    /\ Len(s2.orders) = Len(s.orders)
    /\ \A x \in 1..Len(s.orders) : x # id => s2.orders[x] = s.orders[x]
    /\ s2.symbolOrders = s.symbolOrders /\ s2.limitQueueIds = s.limitQueueIds /\ s2.book = s.book

(* q shares of value v at prices of the market, which the order lacks.     *)
Fillable(s, id, q, v) ==
    /\ id \in 1..Len(s.orders) /\ q \in Nat \ {0} /\ v \in Nat
    /\ q <= Remaining(s.orders[id]) /\ Fair(s.orders[id], q, v)
    /\ q * Min(Prices) <= v /\ v <= q * Max(Prices)

(* fill_order keeps orders and ledger in order, also when a buy is left    *)
(* out of the ledger for lack of cash.                                     *)
LEMMA FillOK ==
    ASSUME NEW s, OrdersOK(s), LedgerOK(s), NEW id, NEW q, NEW v, Fillable(s, id, q, v),
           NEW s2, s2 = Tell(FillOrder(s, id, q, v), id, q)
    PROVE  OrdersOK(s2) /\ LedgerOK(s2) /\ Fills(s2, s, id, q, v)
<1> DEFINE o == s.orders[id]
           o2 == Advanced(o, q, v)
           booked == o.side = "SELL" \/ v <= s.cash
<1>0. /\ id \in 1..Len(s.orders) /\ q \in Nat \ {0} /\ v \in Nat
      /\ q <= Remaining(o) /\ Fair(o, q, v)
      /\ q * Min(Prices) <= v /\ v <= q * Max(Prices)
    BY DEF Fillable
<1>1. /\ DOMAIN s = Fields /\ s.orders \in Seq(OrderRecords) /\ s.told \in Seq(Nat)
      /\ Len(s.told) = Len(s.orders) /\ Len(s.orders) \in Nat
      /\ \A x \in 1..Len(s.orders) : OrderOK(s.orders[x]) /\ s.told[x] = s.orders[x].filled
    BY OrderFacts DEF OrdersOK
<1>2. OrderOK(o) /\ o.side \in Sides /\ o.filled \in Nat
    BY <1>0, <1>1, OrderFacts
<1>3. /\ OrderOK(o2) /\ o2.side = o.side /\ o2.filled = o.filled + q /\ o2.value = o.value + v
      /\ o2 \in OrderRecords
    <2> HIDE DEF o
    <2> QED
        BY <1>0, <1>2, AdvancedOK DEF OrderOK
<1> HIDE DEF o2
<1>4. /\ s2.orders = [s.orders EXCEPT ![id] = o2]
      /\ s2.told = [s.told EXCEPT ![id] = s.told[id] + q]
      /\ s2.symbolOrders = s.symbolOrders /\ s2.limitQueueIds = s.limitQueueIds /\ s2.book = s.book
      /\ DOMAIN s2 = Fields
      /\ booked => /\ s2.cash = s.cash - Signed(o.side, v)
                   /\ s2.position = s.position + Signed(o.side, q)
      /\ ~booked => s2.cash = s.cash /\ s2.position = s.position
    <2> DEFINE adv == [s EXCEPT !.orders[id] = o2]
    <2>1. /\ adv.orders = [s.orders EXCEPT ![id] = o2]
          /\ adv.told = s.told /\ adv.symbolOrders = s.symbolOrders
          /\ adv.limitQueueIds = s.limitQueueIds /\ adv.book = s.book
          /\ adv.cash = s.cash /\ adv.position = s.position /\ DOMAIN adv = Fields
        BY <1>1 DEF Fields
    <2> DEFINE f == FillOrder(s, id, q, v)
    <2>2. f = IF booked THEN Booked(adv, o.side, q, v) ELSE adv
        BY DEF FillOrder, o2
    <2> HIDE DEF adv, booked
    <2>3. /\ f.orders = adv.orders /\ f.told = s.told /\ f.symbolOrders = s.symbolOrders
          /\ f.limitQueueIds = s.limitQueueIds /\ f.book = s.book /\ DOMAIN f = Fields
          /\ booked => /\ f.cash = s.cash - Signed(o.side, v)
                       /\ f.position = s.position + Signed(o.side, q)
          /\ ~booked => f.cash = s.cash /\ f.position = s.position
        <3>1. CASE booked
            <4>1. f = Booked(adv, o.side, q, v)
                BY <2>2, <3>1
            <4> HIDE DEF f
            <4> QED
                BY <2>1, <3>1, <4>1 DEF Booked, Fields
        <3>2. CASE ~booked
            <4>1. f = adv
                BY <2>2, <3>2
            <4> HIDE DEF f
            <4> QED
                BY <2>1, <3>2, <4>1
        <3> QED
            BY <3>1, <3>2
    <2>4. s2 = [f EXCEPT !.told[id] = f.told[id] + q]
        BY DEF Tell
    <2> HIDE DEF f
    <2>5. /\ s2.orders = f.orders /\ s2.told = [f.told EXCEPT ![id] = f.told[id] + q]
          /\ s2.symbolOrders = f.symbolOrders /\ s2.limitQueueIds = f.limitQueueIds
          /\ s2.book = f.book /\ s2.cash = f.cash /\ s2.position = f.position /\ DOMAIN s2 = Fields
        BY <2>3, <2>4 DEF Fields
    <2> QED
        BY <2>1, <2>3, <2>5
<1>5. /\ s2.orders \in Seq(OrderRecords) /\ Len(s2.orders) = Len(s.orders)
      /\ s2.orders[id] = o2
      /\ \A x \in 1..Len(s.orders) : x # id => s2.orders[x] = s.orders[x]
    <2> DEFINE t == s.orders
               t2 == s2.orders
    <2>1. t \in Seq(OrderRecords) /\ id \in 1..Len(t) /\ o2 \in OrderRecords /\ t2 = [t EXCEPT ![id] = o2]
        BY <1>0, <1>1, <1>3, <1>4
    <2> HIDE DEF t, t2
    <2>2. /\ t2 \in Seq(OrderRecords) /\ Len(t2) = Len(t)
          /\ \A x \in 1..Len(t) : t2[x] = IF x = id THEN o2 ELSE t[x]
        BY <2>1, ExceptSeq
    <2>3. t2[id] = o2 /\ \A x \in 1..Len(t) : x # id => t2[x] = t[x]
        BY <2>1, <2>2
    <2> QED
        BY <2>2, <2>3 DEF t, t2
<1>6. /\ s2.told \in Seq(Nat) /\ Len(s2.told) = Len(s.orders)
      /\ s2.told[id] = s.told[id] + q
      /\ \A x \in 1..Len(s.orders) : x # id => s2.told[x] = s.told[x]
    <2> DEFINE t == s.told
               t2 == s2.told
               e == s.told[id] + q
    <2>1. t \in Seq(Nat) /\ id \in 1..Len(t) /\ e \in Nat /\ t2 = [t EXCEPT ![id] = e]
        BY <1>0, <1>1, <1>2, <1>4
    <2> HIDE DEF t, t2, e
    <2>2. /\ t2 \in Seq(Nat) /\ Len(t2) = Len(t)
          /\ \A x \in 1..Len(t) : t2[x] = IF x = id THEN e ELSE t[x]
        BY <2>1, ExceptSeq
    <2>3. t2[id] = e /\ \A x \in 1..Len(t) : x # id => t2[x] = t[x]
        BY <2>1, <2>2
    <2>4. Len(t) = Len(s.orders)
        BY <1>1 DEF t
    <2> QED
        BY <2>2, <2>3, <2>4 DEF t, t2, e
<1>7. OrdersOK(s2)
    <2>1. ASSUME NEW x \in 1..Len(s2.orders)
          PROVE  OrderOK(s2.orders[x]) /\ s2.told[x] = s2.orders[x].filled
        <3>1. CASE x = id
            BY <1>0, <1>1, <1>3, <1>5, <1>6, <3>1
        <3>2. CASE x # id
            BY <1>1, <1>5, <1>6, <2>1, <3>2
        <3> QED
            BY <3>1, <3>2
    <2> QED
        BY <1>4, <1>5, <1>6, <2>1 DEF OrdersOK
<1>8. /\ FilledShares(s2) = FilledShares(s) + Signed(o.side, q)
      /\ FilledValue(s2) = FilledValue(s) + Signed(o.side, v)
    <2>1. FilledMore(s2, s, id, q, v)
        BY <1>0, <1>3, <1>5 DEF FilledMore
    <2>2. q \in Nat /\ v \in Nat
        BY <1>0
    <2>3. /\ FilledShares(s2) = FilledShares(s) + Signed(s.orders[id].side, q)
          /\ FilledValue(s2) = FilledValue(s) + Signed(s.orders[id].side, v)
        <3> HIDE DEF o
        <3> QED
            BY <1>7, <2>1, <2>2, SumsFilled
    <2> QED
        BY <2>3
<1>9. LedgerOK(s2)
    <2> DEFINE lo == Min(Prices)
               hi == Max(Prices)
               fs == FilledShares(s)
               fv == FilledValue(s)
               gs == FilledShares(s2)
               gv == FilledValue(s2)
               m == fs - s.position
               k == s.cash - (InitialCash - fv)
               m2 == gs - s2.position
               k2 == s2.cash - (InitialCash - gv)
    <2>1. lo \in Nat /\ hi \in Nat /\ fs \in Int /\ fv \in Int /\ InitialCash \in Nat
        BY PriceBounds, LedgerSums, DepthAssumption
    <2>2. /\ s.cash \in Nat /\ s.position \in Int /\ m \in Nat
          /\ m * lo <= k /\ k <= m * hi
        BY DEF LedgerOK
    <2> HIDE DEF lo, hi, fs, fv, gs, gv
    <2>3. gs = fs + Signed(o.side, q) /\ gv = fv + Signed(o.side, v)
        BY <1>8 DEF fs, fv, gs, gv
    <2>4. q \in Nat /\ v \in Nat /\ q * lo <= v /\ v <= q * hi
        BY <1>0 DEF lo, hi
    <2>5. CASE booked
        <3>1. /\ s2.cash = s.cash - Signed(o.side, v) /\ s2.position = s.position + Signed(o.side, q)
            BY <1>4, <2>5
        <3>2. /\ o.side = "BUY" => Signed(o.side, q) = q /\ Signed(o.side, v) = v
              /\ o.side # "BUY" => Signed(o.side, q) = -q /\ Signed(o.side, v) = -v
            BY DEF Signed
        <3>3. o.side = "BUY" => v <= s.cash
            BY <2>5
        <3> HIDE DEF o, booked
        <3>4. m2 = m /\ k2 = k /\ s2.cash \in Nat /\ s2.position \in Int
            <4>1. CASE o.side = "BUY"
                BY <2>1, <2>2, <2>3, <2>4, <3>1, <3>2, <3>3, <4>1
            <4>2. CASE o.side # "BUY"
                BY <2>1, <2>2, <2>3, <2>4, <3>1, <3>2, <4>2
            <4> QED
                BY <4>1, <4>2
        <3>5. m2 \in Nat /\ m2 * lo <= k2 /\ k2 <= m2 * hi
            <4> HIDE DEF m, k, m2, k2
            <4> QED
                BY <2>2, <3>4
        <3> QED
            BY <3>4, <3>5 DEF LedgerOK, lo, hi, gs, gv
    <2>6. CASE ~booked
        <3>1. s2.cash = s.cash /\ s2.position = s.position /\ o.side = "BUY"
            BY <1>2, <1>4, <2>6 DEF Sides
        <3>2. Signed(o.side, q) = q /\ Signed(o.side, v) = v
            BY <3>1 DEF Signed
        <3> HIDE DEF o, booked
        <3>3. m2 = m + q /\ k2 = k + v /\ k \in Int
            BY <2>1, <2>2, <2>3, <2>4, <3>1, <3>2
        <3> HIDE DEF m, k, m2, k2
        <3>4. (m + q) * lo = m * lo + q * lo /\ (m + q) * hi = m * hi + q * hi
            BY <2>1, <2>2, <2>4, DistributeRight
        <3> DEFINE a == m * lo
                   b == q * lo
                   c == m * hi
                   d == q * hi
        <3>5. a \in Int /\ b \in Int /\ c \in Int /\ d \in Int
            BY <2>1, <2>2, <2>4
        <3>6. a <= k /\ k <= c /\ b <= v /\ v <= d
            BY <2>2, <2>4
        <3>7. m2 * lo = a + b /\ m2 * hi = c + d
            BY <3>3, <3>4
        <3> HIDE DEF a, b, c, d
        <3>8. a + b <= k + v /\ k + v <= c + d
            BY <2>4, <3>3, <3>5, <3>6
        <3>9. m2 \in Nat /\ m2 * lo <= k2 /\ k2 <= m2 * hi
            BY <2>2, <2>4, <3>3, <3>7, <3>8
        <3> QED
            BY <2>2, <3>1, <3>9 DEF LedgerOK, lo, hi, gs, gv, m2, k2
    <2> QED
        BY <2>5, <2>6
<1>10. Fills(s2, s, id, q, v)
    BY <1>4, <1>5 DEF Fills, o2
<1> QED
    BY <1>7, <1>9, <1>10

(* Nothing is nothing on both sides.                                       *)
LEMMA SignedNone ==
    ASSUME NEW side
    PROVE  Signed(side, 0) = 0
<1>1. /\ Signed(side, 0 + 0) = Signed(side, 0) + Signed(side, 0)
      /\ Signed(side, 0) \in Int
    BY SignedType
<1>2. 0 + 0 = 0
    OBVIOUS
<1> DEFINE a == Signed(side, 0)
<1>3. a = a + a /\ a \in Int
    BY <1>1, <1>2
<1> HIDE DEF a
<1>4. a = 0
    BY <1>3
<1> QED
    BY <1>4 DEF a

(* Orders and ledger stay in order when only the book and lists change.    *)
LEMMA SameLedger ==
    ASSUME NEW s, OrdersOK(s), LedgerOK(s), NEW s2, DOMAIN s2 = Fields,
           s2.orders = s.orders, s2.told = s.told, s2.cash = s.cash, s2.position = s.position
    PROVE  OrdersOK(s2) /\ LedgerOK(s2)
<1>1. FilledShares(s2) = FilledShares(s) /\ FilledValue(s2) = FilledValue(s)
    BY DEF FilledShares, FilledValue
<1> QED
    BY <1>1 DEF OrdersOK, LedgerOK

(* The ledger stands when what was filled does, order by order.            *)
LEMMA SameSums ==
    ASSUME NEW s, OrdersOK(s), LedgerOK(s), NEW s2, OrdersOK(s2), NEW id,
           FilledMore(s2, s, id, 0, 0), s2.cash = s.cash, s2.position = s.position
    PROVE  LedgerOK(s2)
<1>1. /\ FilledShares(s2) = FilledShares(s) + Signed(s.orders[id].side, 0)
      /\ FilledValue(s2) = FilledValue(s) + Signed(s.orders[id].side, 0)
    <2> DEFINE q == 0
    <2>1. q = 0 /\ q \in Nat /\ FilledMore(s2, s, id, q, q)
        OBVIOUS
    <2> HIDE DEF q
    <2>2. /\ FilledShares(s2) = FilledShares(s) + Signed(s.orders[id].side, q)
          /\ FilledValue(s2) = FilledValue(s) + Signed(s.orders[id].side, q)
        BY <2>1, SumsFilled
    <2> QED
        BY <2>1, <2>2
<1>2. Signed(s.orders[id].side, 0) = 0
    BY SignedNone
<1>3. FilledShares(s) \in Int /\ FilledValue(s) \in Int
    BY LedgerSums
<1>4. FilledShares(s2) = FilledShares(s) /\ FilledValue(s2) = FilledValue(s)
    BY <1>1, <1>2, <1>3
<1> QED
    BY <1>4 DEF LedgerOK

(* A cancellation keeps orders and ledger in order.                        *)
LEMMA CancelledOK ==
    ASSUME NEW s, OrdersOK(s), LedgerOK(s), NEW id \in 1..Len(s.orders), ~Filled(s.orders[id]),
           NEW s2, s2 = SetStatus(s, id, "CANCELLED")
    PROVE  /\ OrdersOK(s2) /\ LedgerOK(s2) /\ Len(s2.orders) = Len(s.orders)
           /\ s2.orders[id].status = "CANCELLED" /\ s2.orders[id].filled = s.orders[id].filled
           /\ s2.orders[id].type = s.orders[id].type
           /\ s2.orders[id].side = s.orders[id].side /\ s2.orders[id].limit = s.orders[id].limit
           /\ \A x \in 1..Len(s.orders) : x # id => s2.orders[x] = s.orders[x]
           /\ s2.symbolOrders = s.symbolOrders /\ s2.limitQueueIds = s.limitQueueIds
           /\ s2.book = s.book
<1> DEFINE o == s.orders[id]
           o2 == [o EXCEPT !.status = "CANCELLED"]
<1>1. /\ DOMAIN s = Fields /\ s.orders \in Seq(OrderRecords) /\ Len(s.orders) \in Nat
      /\ DOMAIN s.orders = 1..Len(s.orders)
      /\ \A x \in 1..Len(s.orders) : OrderOK(s.orders[x]) /\ s.told[x] = s.orders[x].filled
      /\ s.told \in Seq(Nat) /\ Len(s.told) = Len(s.orders)
    BY OrderFacts DEF OrdersOK
<1>2. OrderOK(o) /\ o \in OrderRecords
    BY <1>1 DEF OrderOK
<1>3. /\ o2 \in OrderRecords /\ o2.type = o.type /\ o2.side = o.side /\ o2.tif = o.tif
      /\ o2.quantity = o.quantity /\ o2.limit = o.limit /\ o2.filled = o.filled /\ o2.value = o.value
      /\ o2.status = "CANCELLED"
    BY <1>2 DEF OrderRecords
<1>4. OrderOK(o2)
    <2> HIDE DEF o2
    <2>1. o.status # "FILLED" /\ o.filled # o.quantity
        BY <1>2 DEF OrderOK, Filled
    <2> QED
        BY <1>2, <1>3, <2>1 DEF OrderOK, Fair
<1> HIDE DEF o2
<1>5. /\ s2.orders = [s.orders EXCEPT ![id] = o2] /\ DOMAIN s2 = Fields
      /\ s2.told = s.told /\ s2.symbolOrders = s.symbolOrders
      /\ s2.limitQueueIds = s.limitQueueIds /\ s2.book = s.book
      /\ s2.cash = s.cash /\ s2.position = s.position
    BY <1>1 DEF SetStatus, Fields, o2
<1>6. /\ s2.orders \in Seq(OrderRecords) /\ Len(s2.orders) = Len(s.orders)
      /\ s2.orders[id] = o2
      /\ \A x \in 1..Len(s.orders) : x # id => s2.orders[x] = s.orders[x]
    <2> DEFINE t == s.orders
               t2 == s2.orders
    <2>1. t \in Seq(OrderRecords) /\ id \in 1..Len(t) /\ o2 \in OrderRecords /\ t2 = [t EXCEPT ![id] = o2]
        BY <1>1, <1>3, <1>5
    <2> HIDE DEF t, t2
    <2>2. /\ t2 \in Seq(OrderRecords) /\ Len(t2) = Len(t)
          /\ \A x \in 1..Len(t) : t2[x] = IF x = id THEN o2 ELSE t[x]
        BY <2>1, ExceptSeq
    <2>3. t2[id] = o2 /\ \A x \in 1..Len(t) : x # id => t2[x] = t[x]
        BY <2>1, <2>2
    <2> QED
        BY <2>2, <2>3 DEF t, t2
<1>7. OrdersOK(s2)
    BY <1>1, <1>3, <1>4, <1>5, <1>6 DEF OrdersOK
<1>8. FilledMore(s2, s, id, 0, 0)
    <2>1. o.filled \in Nat /\ o.value \in Nat
        BY OrderFacts
    <2> QED
        BY <1>3, <1>6, <2>1 DEF FilledMore
<1>9. LedgerOK(s2)
    BY <1>5, <1>7, <1>8, SameSums
<1> QED
    BY <1>3, <1>5, <1>6, <1>7, <1>9

(* A sum stays when a zero is appended.                                    *)
LEMMA TotalExtended ==
    ASSUME NEW n \in Nat, NEW a \in [1..n -> Int], NEW c \in [1..(n + 1) -> Int],
           \A i \in 1..n : c[i] = a[i], c[n + 1] = 0
    PROVE  Total(c) = Total(a)
<1> DEFINE j == n + 1
<1>1. Inserted(c, a, n, j) /\ c[j] = 0
    <2>1. j \in 1..(n + 1) /\ \A i \in 1..n : i < j /\ ~(i >= j)
        OBVIOUS
    <2> QED
        BY <2>1 DEF Inserted
<1> HIDE DEF j
<1>2. Total(c) = Total(a) + c[j]
    BY <1>1, TotalInserted
<1>3. Total(a) \in Int
    BY TotalType
<1> QED
    BY <1>1, <1>2, <1>3

(* A new order that has no fills keeps orders and ledger in order.         *)
LEMMA OrderAdded ==
    ASSUME NEW s, OrdersOK(s), LedgerOK(s), NEW o, OrderOK(o), o.filled = 0, o.value = 0,
           NEW s2, s2 = AddOrderToBook(s, o)
    PROVE  /\ OrdersOK(s2) /\ LedgerOK(s2) /\ Len(s2.orders) = Len(s.orders) + 1
           /\ s2.orders[Len(s.orders) + 1] = o
           /\ \A x \in 1..Len(s.orders) : s2.orders[x] = s.orders[x]
           /\ s2.symbolOrders = Append(s.symbolOrders, Len(s.orders) + 1)
           /\ s2.limitQueueIds = s.limitQueueIds /\ s2.book = s.book
<1> DEFINE n == Len(s.orders)
<1>1. /\ DOMAIN s = Fields /\ s.orders \in Seq(OrderRecords) /\ n \in Nat
      /\ DOMAIN s.orders = 1..n
      /\ \A x \in 1..n : OrderOK(s.orders[x]) /\ s.told[x] = s.orders[x].filled
      /\ s.told \in Seq(Nat) /\ Len(s.told) = n
    BY OrderFacts DEF OrdersOK
<1>2. o \in OrderRecords
    BY DEF OrderOK
<1>3. /\ s2.orders = Append(s.orders, o) /\ DOMAIN s2 = Fields
      /\ s2.told = Append(s.told, 0) /\ s2.symbolOrders = Append(s.symbolOrders, n + 1)
      /\ s2.limitQueueIds = s.limitQueueIds /\ s2.book = s.book
      /\ s2.cash = s.cash /\ s2.position = s.position
    BY <1>1 DEF AddOrderToBook, NextOrderId, Fields
<1>4. /\ s2.orders \in Seq(OrderRecords) /\ Len(s2.orders) = n + 1
      /\ s2.orders[n + 1] = o
      /\ \A x \in 1..n : s2.orders[x] = s.orders[x]
    BY <1>1, <1>2, <1>3
<1>5. /\ s2.told \in Seq(Nat) /\ Len(s2.told) = n + 1
      /\ s2.told[n + 1] = 0
      /\ \A x \in 1..n : s2.told[x] = s.told[x]
    BY <1>1, <1>3
<1> HIDE DEF n
<1>6. OrdersOK(s2)
    <2>1. ASSUME NEW x \in 1..(n + 1)
          PROVE  OrderOK(s2.orders[x]) /\ s2.told[x] = s2.orders[x].filled
        <3>1. CASE x = n + 1
            BY <1>4, <1>5, <3>1
        <3>2. CASE x \in 1..n
            BY <1>1, <1>4, <1>5, <3>2
        <3> QED
            BY <1>1, <3>1, <3>2
    <2> QED
        BY <1>3, <1>4, <1>5, <2>1 DEF OrdersOK
<1>7. FilledShares(s2) = FilledShares(s) /\ FilledValue(s2) = FilledValue(s)
    <2> DEFINE a == SharesOf(s)
               a2 == SharesOf(s2)
               c == ValuesOf(s)
               c2 == ValuesOf(s2)
    <2>1. /\ a \in [1..n -> Int] /\ c \in [1..n -> Int]
          /\ a2 \in [1..(n + 1) -> Int] /\ c2 \in [1..(n + 1) -> Int]
          /\ FilledShares(s) = Total(a) /\ FilledValue(s) = Total(c)
          /\ FilledShares(s2) = Total(a2) /\ FilledValue(s2) = Total(c2)
        BY <1>4, <1>6, LedgerSums DEF n
    <2>2. /\ DOMAIN s.orders = 1..n /\ DOMAIN s2.orders = 1..(n + 1)
        BY <1>1, <1>4
    <2>3. Signed(o.side, 0) = 0
        BY SignedNone
    <2>4. /\ \A i \in 1..n : a2[i] = a[i] /\ c2[i] = c[i]
          /\ a2[n + 1] = 0 /\ c2[n + 1] = 0
        <3>1. n + 1 \in 1..(n + 1) /\ \A i \in 1..n : i \in 1..(n + 1)
            BY <1>1
        <3> QED
            BY <1>4, <2>2, <2>3, <3>1 DEF SharesOf, ValuesOf
    <2> HIDE DEF a, a2, c, c2
    <2>5. Total(a2) = Total(a)
        BY <1>1, <2>1, <2>4, TotalExtended
    <2>6. Total(c2) = Total(c)
        BY <1>1, <2>1, <2>4, TotalExtended
    <2> QED
        BY <2>1, <2>5, <2>6
<1>8. LedgerOK(s2)
    BY <1>3, <1>7 DEF LedgerOK
<1> QED
    BY <1>3, <1>4, <1>6, <1>8 DEF n

-----------------------------------------------------------------------------
(* The state of the manager *)

(* The list holds the live orders and the takers T, oldest first.          *)
Listed(s, T) ==
    /\ s.symbolOrders \in Seq(Int) /\ Rising(s.symbolOrders)
    /\ ToSet(s.symbolOrders) = {id \in 1..Len(s.orders) : Active(s.orders[id]) \/ id \in T}

(* What s's orders have in its book.                                       *)
InBook(s, id) == Size(s.book, s.orders[id].side, s.orders[id].limit, id)

(* The live limit orders that are not taking, and no others, may rest.     *)
Resting(s, T) ==
    /\ DOMAIN s.limitQueueIds =
          {id \in 1..Len(s.orders) : /\ s.orders[id].type = "LIMIT"
                                     /\ Active(s.orders[id]) /\ id \notin T}
    /\ \A id \in DOMAIN s.limitQueueIds :
          /\ s.orders[id].tif # "IOC"
          /\ InBook(s, id) # 0 => /\ s.limitQueueIds[id] \in DOMAIN s.book.orderOf
                                  /\ s.book.orderOf[s.limitQueueIds[id]] = id
          /\ \A sd \in Sides : \A p : Size(s.book, sd, p, id) # 0 =>
                sd = s.orders[id].side /\ p = s.orders[id].limit
    /\ \A x : Queued(s.book, x) => x \in DOMAIN s.limitQueueIds \/ x \in Quotes

(* All that holds whatever a level has just given up.                      *)
Sane(s, T) ==
    /\ OrdersOK(s) /\ LedgerOK(s) /\ BookOK(s.book)
    /\ T \subseteq 1..Len(s.orders) /\ \A id \in T : s.orders[id].status # "CANCELLED"
    /\ Listed(s, T) /\ Resting(s, T)

(* The invariant: besides, every resting order rests with what it lacks.   *)
StateOK(s, T) ==
    /\ Sane(s, T)
    /\ \A id \in DOMAIN s.limitQueueIds : InBook(s, id) = Remaining(s.orders[id])

(* The first i orders that the level gave up have been credited.           *)
Owing(s, T, side, price, taken, i) ==
    /\ Sane(s, T)
    /\ \A id \in DOMAIN s.limitQueueIds :
          (\A k \in DOMAIN taken : k > i => taken[k].id # id) => InBook(s, id) = Remaining(s.orders[id])
    /\ \A k \in DOMAIN taken : k > i =>
          \/ taken[k].id \in Quotes
          \/ /\ taken[k].id \in DOMAIN s.limitQueueIds
             /\ s.orders[taken[k].id].side = side /\ s.orders[taken[k].id].limit = price
             /\ InBook(s, taken[k].id) = Remaining(s.orders[taken[k].id]) - taken[k].size

(* An order that no cancellation reaches: it stays what it is, and what is *)
(* no longer live does not change.                                         *)
Lasts(o2, o) ==
    /\ o2.type = o.type /\ o2.side = o.side /\ o2.limit = o.limit /\ o2.quantity = o.quantity
    /\ o2.status = "CANCELLED" => o.status = "CANCELLED"
    /\ ~Active(o) => o2 = o

(* What the fills of resting orders leave alone.                           *)
MakersOnly(s2, s) ==
    /\ Len(s2.orders) = Len(s.orders)
    /\ \A x \in 1..Len(s.orders) :
          /\ Lasts(s2.orders[x], s.orders[x])
          /\ x \notin DOMAIN s.limitQueueIds => s2.orders[x] = s.orders[x]
    /\ DOMAIN s2.limitQueueIds \subseteq DOMAIN s.limitQueueIds
    /\ s2.book = s.book

(* Taking orders off the list changes the list only.                       *)
LEMMA UnlistedFields ==
    ASSUME NEW s, OrdersOK(s), LedgerOK(s), NEW ids, NEW s2, s2 = Unlist(s, ids)
    PROVE  /\ OrdersOK(s2) /\ LedgerOK(s2)
           /\ s2.orders = s.orders /\ s2.limitQueueIds = s.limitQueueIds /\ s2.book = s.book
           /\ s2.symbolOrders = Kept(s.symbolOrders, ToSet(s.symbolOrders) \ ids)
<1>1. DOMAIN s = Fields
    BY DEF OrdersOK
<1>2. /\ DOMAIN s2 = Fields /\ s2.told = s.told /\ s2.cash = s.cash /\ s2.position = s.position
      /\ s2.orders = s.orders /\ s2.limitQueueIds = s.limitQueueIds /\ s2.book = s.book
      /\ s2.symbolOrders = Kept(s.symbolOrders, ToSet(s.symbolOrders) \ ids)
    BY <1>1 DEF Unlist, Fields
<1> QED
    BY <1>2, SameLedger

(* Multiplication by a natural keeps the order.                            *)
LEMMA Monotone ==
    ASSUME NEW a \in Nat, NEW b \in Nat, NEW c \in Nat, a <= b
    PROVE  c * a <= c * b /\ c * a \in Nat
<1> DEFINE d == b - a
<1>1. d \in Nat /\ b = a + d
    OBVIOUS
<1> HIDE DEF d
<1>2. c * (a + d) = c * a + c * d
    BY <1>1, Distribute
<1>3. c * a \in Nat /\ c * d \in Nat
    BY <1>1
<1> DEFINE e == c * a
           f == c * d
<1>4. e \in Nat /\ f \in Nat /\ c * b = e + f
    BY <1>1, <1>2, <1>3
<1> HIDE DEF e, f
<1>5. e <= c * b /\ e \in Nat
    BY <1>4
<1> QED
    BY <1>5 DEF e

(* A price of the market gives a value within the bounds of the ledger.    *)
LEMMA Priced ==
    ASSUME NEW p \in Prices, NEW q \in Nat
    PROVE  /\ q * p \in Nat /\ p * q = q * p
           /\ q * Min(Prices) <= q * p /\ q * p <= q * Max(Prices)
<1>1. /\ Min(Prices) \in Nat /\ Max(Prices) \in Nat /\ p \in Nat
      /\ Min(Prices) <= p /\ p <= Max(Prices)
    BY PriceBounds
<1> DEFINE lo == Min(Prices)
           hi == Max(Prices)
<1>2. lo \in Nat /\ hi \in Nat /\ p \in Nat /\ lo <= p /\ p <= hi
    BY <1>1
<1> HIDE DEF lo, hi
<1>3. q * lo <= q * p
    BY <1>2, Monotone
<1>4. q * p <= q * hi /\ q * p \in Nat
    BY <1>2, Monotone
<1>5. p * q = q * p
    BY <1>2
<1> QED
    BY <1>3, <1>4, <1>5 DEF lo, hi

-----------------------------------------------------------------------------
(* Crediting *)

(* A list of what a level gave up: every order once.                       *)
GivenUp(taken) ==
    /\ taken \in Seq(Takings)
    /\ \A k, m \in DOMAIN taken : taken[k].id = taken[m].id => k = m

(* The resting order id has been credited with what it gave up.            *)
CreditedOne(s2, s, id) ==
    /\ OrdersOK(s2) /\ LedgerOK(s2) /\ s2.book = s.book
    /\ Len(s2.orders) = Len(s.orders) /\ id \in 1..Len(s.orders)
    /\ \A x \in 1..Len(s.orders) : x # id => s2.orders[x] = s.orders[x]
    /\ s2.orders[id].type = s.orders[id].type /\ s2.orders[id].side = s.orders[id].side
    /\ s2.orders[id].tif = s.orders[id].tif /\ s2.orders[id].limit = s.orders[id].limit
    /\ s2.orders[id].quantity = s.orders[id].quantity
    /\ s2.orders[id].status # "CANCELLED"
    /\ Remaining(s2.orders[id]) = InBook(s, id)
    /\ Active(s2.orders[id]) <=> InBook(s, id) # 0
    /\ DOMAIN s2.limitQueueIds = {x \in DOMAIN s.limitQueueIds : x # id \/ InBook(s, id) # 0}
    /\ \A x \in DOMAIN s2.limitQueueIds : s2.limitQueueIds[x] = s.limitQueueIds[x]
    /\ s2.symbolOrders \in Seq(Int) /\ Rising(s2.symbolOrders)
    /\ ToSet(s2.symbolOrders) = {x \in ToSet(s.symbolOrders) : x # id \/ InBook(s, id) # 0}

(* apply_maker_fill credits a resting order with what it gave up and lets  *)
(* go of it when it is filled.                                             *)
LEMMA MakerCredited ==
    ASSUME NEW s, NEW T, Sane(s, T), NEW price \in Prices, NEW m \in Takings,
           m.id \in DOMAIN s.limitQueueIds, s.orders[m.id].limit = price,
           InBook(s, m.id) = Remaining(s.orders[m.id]) - m.size,
           NEW s2, s2 = ApplyMakerFill(s, m, price)
    PROVE  CreditedOne(s2, s, m.id)
<1> DEFINE id == m.id
           q == m.size
           v == q * price
           o == s.orders[id]
           c == Tell(FillOrder(s, id, q, v), id, q)
<1>1. /\ OrdersOK(s) /\ LedgerOK(s) /\ BookOK(s.book) /\ Listed(s, T) /\ Resting(s, T)
      /\ q \in Nat \ {0} /\ q \in Nat
    BY DEF Sane, Takings
<1>2. /\ id \in 1..Len(s.orders) /\ o.type = "LIMIT" /\ Active(o)
    BY <1>1 DEF Resting
<1>3. /\ OrderOK(o) /\ o.side \in Sides /\ Remaining(o) \in Nat
      /\ DOMAIN s.orders = 1..Len(s.orders) /\ Len(s.orders) \in Nat
    BY <1>1, <1>2, OrderFacts
<1>4. InBook(s, id) \in Nat /\ InBook(s, id) = Remaining(o) - q
    <2>1. InBook(s, id) \in Nat
        BY <1>1, <1>3, SizeType DEF InBook, BookOK
    <2> QED
        BY <2>1
<1>5. q <= Remaining(o)
    BY <1>1, <1>3, <1>4
<1>6. Fillable(s, id, q, v) /\ Fair(o, q, v)
    <2>1. /\ v \in Nat /\ price * q = v /\ q * Min(Prices) <= v /\ v <= q * Max(Prices)
        BY <1>1, Priced
    <2>2. Fair(o, q, v)
        BY <2>1 DEF Fair
    <2> HIDE DEF v
    <2> QED
        BY <1>1, <1>2, <1>5, <2>1, <2>2 DEF Fillable
<1>7. OrdersOK(c) /\ LedgerOK(c) /\ Fills(c, s, id, q, v)
    BY <1>1, <1>6, FillOK
<1>8. s2 = IF Filled(c.orders[id])
           THEN RemoveOrderFromBook([c EXCEPT !.limitQueueIds = Without(@, id)], id)
           ELSE c
    BY <1>2, <1>3 DEF ApplyMakerFill
<1>9. v \in Nat
    BY <1>6 DEF Fillable
<1> HIDE DEF c, v
<1> DEFINE o2 == c.orders[id]
<1>10. /\ Len(c.orders) = Len(s.orders)
       /\ \A x \in 1..Len(s.orders) : x # id => c.orders[x] = s.orders[x]
       /\ c.symbolOrders = s.symbolOrders /\ c.limitQueueIds = s.limitQueueIds /\ c.book = s.book
       /\ o2 = Advanced(o, q, v)
    BY <1>7 DEF Fills
<1>11. /\ o2.type = o.type /\ o2.side = o.side /\ o2.tif = o.tif /\ o2.limit = o.limit
       /\ o2.status # "CANCELLED" /\ Remaining(o2) = Remaining(o) - q
       /\ Filled(o2) <=> Remaining(o) = q
       /\ Active(o2) <=> ~Filled(o2)
    <2> DEFINE a == Advanced(o, q, v)
    <2>1. a = Advanced(o, q, v)
        OBVIOUS
    <2> HIDE DEF a, o, q, o2
    <2>2. /\ a.type = o.type /\ a.side = o.side /\ a.tif = o.tif /\ a.limit = o.limit
          /\ a.status # "CANCELLED" /\ Remaining(a) = Remaining(o) - q
          /\ Filled(a) <=> Remaining(o) = q
          /\ Active(a) <=> ~Filled(a)
        BY <1>1, <1>3, <1>5, <1>6, <1>9, <2>1, AdvancedOK
    <2> QED
        BY <1>10, <2>2 DEF a
<1>111. o2.quantity = o.quantity
    <2>1. o \in OrderRecords
        BY <1>3 DEF OrderOK
    <2> HIDE DEF o, q, o2
    <2> QED
        BY <1>10, <2>1 DEF OrderRecords, Advanced
<1>12. Filled(o2) <=> InBook(s, id) = 0
    BY <1>1, <1>3, <1>4, <1>11
<1>13. s.symbolOrders \in Seq(Int) /\ Rising(s.symbolOrders)
    BY <1>1 DEF Listed
<1>14. /\ OrdersOK(s2) /\ LedgerOK(s2) /\ s2.book = s.book /\ s2.orders = c.orders
       /\ DOMAIN s2.limitQueueIds = {x \in DOMAIN s.limitQueueIds : x # id \/ ~Filled(o2)}
       /\ \A x \in DOMAIN s2.limitQueueIds : s2.limitQueueIds[x] = s.limitQueueIds[x]
       /\ s2.symbolOrders \in Seq(Int) /\ Rising(s2.symbolOrders)
       /\ ToSet(s2.symbolOrders) = {x \in ToSet(s.symbolOrders) : x # id \/ ~Filled(o2)}
    <2>1. CASE Filled(o2)
        <3> DEFINE w == [c EXCEPT !.limitQueueIds = Without(@, id)]
        <3>1. /\ DOMAIN w = Fields /\ w.orders = c.orders /\ w.told = c.told /\ w.cash = c.cash
              /\ w.position = c.position /\ w.book = c.book /\ w.symbolOrders = c.symbolOrders
              /\ w.limitQueueIds = Without(s.limitQueueIds, id)
            BY <1>7, <1>10 DEF Fields, OrdersOK
        <3>2. s2 = Unlist(w, {id})
            BY <1>8, <2>1 DEF RemoveOrderFromBook
        <3> HIDE DEF w
        <3>3. OrdersOK(w) /\ LedgerOK(w)
            BY <1>7, <3>1, SameLedger
        <3>4. /\ OrdersOK(s2) /\ LedgerOK(s2)
              /\ s2.orders = w.orders /\ s2.limitQueueIds = w.limitQueueIds /\ s2.book = w.book
              /\ s2.symbolOrders = Kept(w.symbolOrders, ToSet(w.symbolOrders) \ {id})
            BY <3>2, <3>3, UnlistedFields
        <3>5. /\ s2.symbolOrders \in Seq(Int) /\ Rising(s2.symbolOrders)
              /\ ToSet(s2.symbolOrders) = ToSet(s.symbolOrders) \ {id}
            <4> DEFINE l == s.symbolOrders
                       ids == {id}
            <4>1. l \in Seq(Int) /\ Rising(l) /\ s2.symbolOrders = Kept(l, ToSet(l) \ ids)
                BY <1>10, <1>13, <3>1, <3>4
            <4> HIDE DEF l, ids
            <4>2. l \in Seq(Int) /\ Rising(l)
                BY <4>1
            <4>3. /\ Kept(l, ToSet(l) \ ids) \in Seq(Int) /\ Rising(Kept(l, ToSet(l) \ ids))
                  /\ ToSet(Kept(l, ToSet(l) \ ids)) = ToSet(l) \ ids
                BY <4>2, KeptListed
            <4> QED
                BY <4>1, <4>3 DEF l, ids
        <3>6. /\ DOMAIN s2.limitQueueIds = DOMAIN s.limitQueueIds \ {id}
              /\ \A x \in DOMAIN s2.limitQueueIds : s2.limitQueueIds[x] = s.limitQueueIds[x]
            BY <3>1, <3>4 DEF Without
        <3> HIDE DEF id, o2
        <3> QED
            BY <1>10, <2>1, <3>1, <3>4, <3>5, <3>6
    <2>2. CASE ~Filled(o2)
        <3>1. s2 = c
            BY <1>8, <2>2
        <3> HIDE DEF id, o2
        <3> QED
            BY <1>7, <1>10, <1>13, <2>2, <3>1
    <2> QED
        BY <2>1, <2>2
<1> HIDE DEF q
<1>15. /\ s2.orders[id] = o2 /\ Remaining(o2) = InBook(s, id)
       /\ ~Filled(o2) <=> InBook(s, id) # 0
    BY <1>4, <1>11, <1>12, <1>14
<1> HIDE DEF o2
<1>16. CreditedOne(s2, s, id)
    BY <1>2, <1>10, <1>11, <1>111, <1>14, <1>15 DEF CreditedOne
<1> QED
    BY <1>16

(* One credit settles the order credited and leaves the others as they     *)
(* were.                                                                   *)
LEMMA CreditedSane ==
    ASSUME NEW s, NEW T, Sane(s, T), NEW id \in DOMAIN s.limitQueueIds,
           NEW s2, CreditedOne(s2, s, id)
    PROVE  /\ Sane(s2, T) /\ MakersOnly(s2, s)
           /\ \A x \in DOMAIN s2.limitQueueIds : x # id =>
                 InBook(s2, x) = InBook(s, x) /\ s2.orders[x] = s.orders[x]
           /\ id \in DOMAIN s2.limitQueueIds =>
                 InBook(s2, id) = InBook(s, id) /\ Remaining(s2.orders[id]) = InBook(s, id)
<1> DEFINE n == Len(s.orders)
           left == InBook(s, id)
<1>1. /\ BookOK(s.book) /\ T \subseteq 1..n /\ \A x \in T : s.orders[x].status # "CANCELLED"
      /\ Listed(s, T) /\ Resting(s, T)
    BY DEF Sane
<1>2. /\ OrdersOK(s2) /\ LedgerOK(s2) /\ s2.book = s.book
      /\ Len(s2.orders) = n /\ id \in 1..n
      /\ \A x \in 1..n : x # id => s2.orders[x] = s.orders[x]
      /\ s2.orders[id].type = s.orders[id].type /\ s2.orders[id].side = s.orders[id].side
      /\ s2.orders[id].tif = s.orders[id].tif /\ s2.orders[id].limit = s.orders[id].limit
      /\ s2.orders[id].quantity = s.orders[id].quantity
      /\ s2.orders[id].status # "CANCELLED"
      /\ Remaining(s2.orders[id]) = left
      /\ Active(s2.orders[id]) <=> left # 0
      /\ DOMAIN s2.limitQueueIds = {x \in DOMAIN s.limitQueueIds : x # id \/ left # 0}
      /\ \A x \in DOMAIN s2.limitQueueIds : s2.limitQueueIds[x] = s.limitQueueIds[x]
      /\ s2.symbolOrders \in Seq(Int) /\ Rising(s2.symbolOrders)
      /\ ToSet(s2.symbolOrders) = {x \in ToSet(s.symbolOrders) : x # id \/ left # 0}
    BY DEF CreditedOne
<1>3. /\ DOMAIN s.limitQueueIds =
             {x \in 1..n : s.orders[x].type = "LIMIT" /\ Active(s.orders[x]) /\ x \notin T}
      /\ \A x \in DOMAIN s.limitQueueIds :
            /\ s.orders[x].tif # "IOC"
            /\ InBook(s, x) # 0 => /\ s.limitQueueIds[x] \in DOMAIN s.book.orderOf
                                   /\ s.book.orderOf[s.limitQueueIds[x]] = x
            /\ \A sd \in Sides : \A p : Size(s.book, sd, p, x) # 0 =>
                  sd = s.orders[x].side /\ p = s.orders[x].limit
      /\ \A x : Queued(s.book, x) => x \in DOMAIN s.limitQueueIds \/ x \in Quotes
    BY <1>1 DEF Resting
<1>4. id \notin T /\ s.orders[id].type = "LIMIT" /\ Active(s.orders[id])
    BY <1>3
<1>5. /\ \A x \in 1..n : x # id => InBook(s2, x) = InBook(s, x)
      /\ InBook(s2, id) = left
    BY <1>2 DEF InBook
<1> HIDE DEF left
<1>6. Listed(s2, T)
    <2>1. ToSet(s.symbolOrders) = {x \in 1..n : Active(s.orders[x]) \/ x \in T}
        BY <1>1 DEF Listed
    <2>2. ToSet(s2.symbolOrders) = {x \in 1..n : Active(s2.orders[x]) \/ x \in T}
        BY <1>2, <1>4, <2>1
    <2> HIDE DEF n
    <2> QED
        BY <1>2, <2>2 DEF Listed
<1>7. ~Queued(s.book, id) \/ left # 0
    <2> SUFFICES ASSUME Queued(s.book, id) PROVE left # 0
        OBVIOUS
    <2>1. PICK sd \in Sides : \E p : Size(s.book, sd, p, id) # 0
        BY DEF Queued
    <2>2. PICK p : Size(s.book, sd, p, id) # 0
        BY <2>1
    <2>3. sd = s.orders[id].side /\ p = s.orders[id].limit
        BY <1>3, <2>2
    <2> QED
        BY <2>2, <2>3 DEF left, InBook
<1>8. Resting(s2, T)
    <2>1. DOMAIN s2.limitQueueIds =
             {x \in 1..n : s2.orders[x].type = "LIMIT" /\ Active(s2.orders[x]) /\ x \notin T}
        BY <1>2, <1>3, <1>4
    <2>2. ASSUME NEW x \in DOMAIN s2.limitQueueIds
          PROVE  /\ s2.orders[x].tif # "IOC"
                 /\ InBook(s2, x) # 0 => /\ s2.limitQueueIds[x] \in DOMAIN s2.book.orderOf
                                         /\ s2.book.orderOf[s2.limitQueueIds[x]] = x
                 /\ \A sd \in Sides : \A p : Size(s2.book, sd, p, x) # 0 =>
                       sd = s2.orders[x].side /\ p = s2.orders[x].limit
        <3>1. x \in DOMAIN s.limitQueueIds /\ x \in 1..n
            BY <1>2, <1>3, <2>2
        <3>2. InBook(s2, x) = InBook(s, x)
            BY <1>5, <3>1 DEF left
        <3>3. /\ s2.orders[x].tif = s.orders[x].tif /\ s2.orders[x].side = s.orders[x].side
              /\ s2.orders[x].limit = s.orders[x].limit
            BY <1>2, <3>1
        <3> QED
            BY <1>2, <1>3, <2>2, <3>1, <3>2, <3>3
    <2>3. \A x : Queued(s2.book, x) => x \in DOMAIN s2.limitQueueIds \/ x \in Quotes
        BY <1>2, <1>3, <1>7
    <2> QED
        BY <1>2, <2>1, <2>2, <2>3 DEF Resting
<1>9. Sane(s2, T)
    <2>1. \A x \in T : s2.orders[x].status # "CANCELLED"
        BY <1>1, <1>2
    <2> QED
        BY <1>1, <1>2, <1>6, <1>8, <2>1 DEF Sane
<1>10. MakersOnly(s2, s)
    <2>1. \A x \in 1..n : Lasts(s2.orders[x], s.orders[x])
        BY <1>2, <1>4 DEF Lasts
    <2> QED
        BY <1>2, <2>1 DEF MakersOnly
<1> QED
    BY <1>2, <1>3, <1>5, <1>9, <1>10 DEF left

(* After one more credit one order less is owed.                           *)
LEMMA CreditStep ==
    ASSUME NEW s, NEW T, NEW side, NEW price \in Prices, NEW taken, GivenUp(taken),
           NEW i \in Nat, NEW j \in DOMAIN taken, j = i + 1,
           Owing(s, T, side, price, taken, i), NEW s2, s2 = ApplyMakerFill(s, taken[j], price)
    PROVE  Owing(s2, T, side, price, taken, j) /\ MakersOnly(s2, s)
<1> DEFINE m == taken[j]
<1>1. /\ Sane(s, T) /\ DOMAIN taken \subseteq Nat /\ m \in Takings /\ m.id \in Int /\ m.size \in Nat \ {0}
      /\ \A k \in DOMAIN taken : k # j => taken[k].id # m.id
    <2>1. taken \in Seq(Takings) /\ \A k \in DOMAIN taken : taken[k].id = m.id => k = j
        BY DEF GivenUp
    <2>2. DOMAIN taken = 1..Len(taken) /\ Len(taken) \in Nat
        BY <2>1
    <2>3. m \in Takings
        BY <2>1, <2>2
    <2>4. m.id \in Int /\ m.size \in Nat \ {0}
        BY <2>3 DEF Takings
    <2>5. Sane(s, T)
        BY DEF Owing
    <2> QED
        BY <2>1, <2>2, <2>3, <2>4, <2>5
<1>2. /\ \A x \in DOMAIN s.limitQueueIds :
            (\A k \in DOMAIN taken : k > i => taken[k].id # x) => InBook(s, x) = Remaining(s.orders[x])
      /\ \A k \in DOMAIN taken : k > i =>
            \/ taken[k].id \in Quotes
            \/ /\ taken[k].id \in DOMAIN s.limitQueueIds
               /\ s.orders[taken[k].id].side = side /\ s.orders[taken[k].id].limit = price
               /\ InBook(s, taken[k].id) = Remaining(s.orders[taken[k].id]) - taken[k].size
    BY DEF Owing
<1>3. \A k \in DOMAIN taken : k > i <=> k = j \/ k > j
    BY <1>1
<1>4. DOMAIN s.limitQueueIds \subseteq 1..Len(s.orders) /\ DOMAIN s.orders = 1..Len(s.orders)
    <2>1. OrdersOK(s) /\ Resting(s, T)
        BY <1>1 DEF Sane
    <2> QED
        BY <2>1, OrderFacts DEF Resting
<1>5. \A x \in Quotes : x \notin 1..Len(s.orders)
    <2>1. "BUY" \in Sides
        BY DEF Sides
    <2> QED
        BY <2>1, QuoteSides
<1>6. CASE m.id \in Quotes
    <2>1. s2 = s
        BY <1>4, <1>5, <1>6 DEF ApplyMakerFill
    <2>2. MakersOnly(s2, s)
        BY <2>1 DEF MakersOnly, Lasts
    <2>3. \A x \in DOMAIN s.limitQueueIds : x # m.id
        BY <1>4, <1>5, <1>6
    <2> HIDE DEF m
    <2>4. ASSUME NEW x \in DOMAIN s.limitQueueIds, \A k \in DOMAIN taken : k > j => taken[k].id # x
          PROVE  InBook(s, x) = Remaining(s.orders[x])
        BY <1>2, <1>3, <2>3, <2>4 DEF m
    <2> QED
        BY <1>1, <1>2, <1>3, <2>1, <2>2, <2>4 DEF Owing
<1>7. CASE m.id \notin Quotes
    <2>1. /\ m.id \in DOMAIN s.limitQueueIds /\ s.orders[m.id].limit = price
          /\ InBook(s, m.id) = Remaining(s.orders[m.id]) - m.size
        BY <1>2, <1>3, <1>7
    <2>2. s2 = ApplyMakerFill(s, m, price)
        OBVIOUS
    <2> HIDE DEF m
    <2>3. CreditedOne(s2, s, m.id)
        BY <1>1, <2>1, <2>2, MakerCredited
    <2> DEFINE id == m.id
    <2>4. id \in DOMAIN s.limitQueueIds /\ CreditedOne(s2, s, id)
        BY <2>1, <2>3
    <2> HIDE DEF id
    <2>5. /\ Sane(s2, T) /\ MakersOnly(s2, s)
          /\ \A x \in DOMAIN s2.limitQueueIds : x # id =>
                InBook(s2, x) = InBook(s, x) /\ s2.orders[x] = s.orders[x]
          /\ id \in DOMAIN s2.limitQueueIds =>
                InBook(s2, id) = InBook(s, id) /\ Remaining(s2.orders[id]) = InBook(s, id)
        BY <1>1, <2>4, CreditedSane
    <2>6. /\ DOMAIN s2.limitQueueIds \subseteq DOMAIN s.limitQueueIds
          /\ \A x \in DOMAIN s.limitQueueIds : x # id => x \in DOMAIN s2.limitQueueIds
        BY <2>4 DEF CreditedOne
    <2>7. ASSUME NEW x \in DOMAIN s2.limitQueueIds, \A k \in DOMAIN taken : k > j => taken[k].id # x
          PROVE  InBook(s2, x) = Remaining(s2.orders[x])
        <3>1. CASE x = id
            BY <2>5, <2>7, <3>1
        <3>2. CASE x # id
            <4>1. \A k \in DOMAIN taken : k > i => taken[k].id # x
                BY <1>3, <2>7, <3>2 DEF id, m
            <4> QED
                BY <1>2, <2>5, <2>6, <2>7, <3>2, <4>1
        <3> QED
            BY <3>1, <3>2
    <2>8. ASSUME NEW k \in DOMAIN taken, k > j, taken[k].id \notin Quotes
          PROVE  /\ taken[k].id \in DOMAIN s2.limitQueueIds
                 /\ s2.orders[taken[k].id].side = side /\ s2.orders[taken[k].id].limit = price
                 /\ InBook(s2, taken[k].id) = Remaining(s2.orders[taken[k].id]) - taken[k].size
        <3> DEFINE x == taken[k].id
        <3>1. k # j /\ k > i
            BY <1>1, <1>3, <2>8
        <3>2. x # id
            BY <1>1, <3>1 DEF id
        <3>3. /\ x \in DOMAIN s.limitQueueIds /\ s.orders[x].side = side /\ s.orders[x].limit = price
              /\ InBook(s, x) = Remaining(s.orders[x]) - taken[k].size
            BY <1>2, <2>8, <3>1
        <3>4. x \in DOMAIN s2.limitQueueIds
            BY <2>6, <3>2, <3>3
        <3>5. InBook(s2, x) = InBook(s, x) /\ s2.orders[x] = s.orders[x]
            BY <2>5, <3>2, <3>4
        <3> HIDE DEF x
        <3>6. /\ s2.orders[x].side = side /\ s2.orders[x].limit = price
              /\ InBook(s2, x) = Remaining(s2.orders[x]) - taken[k].size
            BY <3>3, <3>5
        <3> QED
            BY <3>4, <3>6 DEF x
    <2>9. Owing(s2, T, side, price, taken, j)
        BY <2>5, <2>7, <2>8 DEF Owing
    <2> QED
        BY <2>5, <2>9
<1> QED
    BY <1>6, <1>7

(* Two steps that change resting orders only do so together.               *)
LEMMA MakersTwice ==
    ASSUME NEW s, NEW s2, NEW s3, MakersOnly(s2, s), MakersOnly(s3, s2)
    PROVE  MakersOnly(s3, s)
<1>1. /\ Len(s3.orders) = Len(s.orders) /\ s3.book = s.book
      /\ DOMAIN s3.limitQueueIds \subseteq DOMAIN s.limitQueueIds
    BY DEF MakersOnly
<1>2. ASSUME NEW x \in 1..Len(s.orders)
      PROVE  /\ Lasts(s3.orders[x], s.orders[x])
             /\ x \notin DOMAIN s.limitQueueIds => s3.orders[x] = s.orders[x]
    <2>1. Lasts(s3.orders[x], s2.orders[x]) /\ Lasts(s2.orders[x], s.orders[x])
        BY <1>2 DEF MakersOnly
    <2>2. Lasts(s3.orders[x], s.orders[x])
        BY <2>1 DEF Lasts
    <2>3. x \notin DOMAIN s.limitQueueIds => s3.orders[x] = s.orders[x]
        BY <1>2 DEF MakersOnly
    <2> QED
        BY <2>2, <2>3
<1> QED
    BY <1>1, <1>2 DEF MakersOnly

(* Crediting all that a level gave up puts the manager in order.           *)
LEMMA CreditedAll ==
    ASSUME NEW s, NEW T, NEW side, NEW price \in Prices, NEW taken, GivenUp(taken),
           Owing(s, T, side, price, taken, 0), NEW s2, s2 = Credit(s, taken, price)
    PROVE  StateOK(s2, T) /\ MakersOnly(s2, s)
<1> DEFINE n == Len(taken)
<1>1. n \in Nat /\ DOMAIN taken = 1..n
    BY DEF GivenUp
<1> HIDE DEF n
<1>2. PICK h : Makers!Runs(h, price, s, taken, n) /\ Credit(s, taken, price) = h[n]
    BY <1>1, CreditRuns
<1>3. /\ h[0] = s
      /\ \A i \in 1..n : h[i] = ApplyMakerFill(h[i - 1], taken[i], price)
    BY <1>2 DEF Makers!Runs
<1> DEFINE K == {i \in 0..n : Owing(h[i], T, side, price, taken, i) /\ MakersOnly(h[i], s)}
<1>4. 0 \in K
    <2>1. MakersOnly(s, s)
        BY DEF MakersOnly, Lasts
    <2> QED
        BY <1>1, <1>3, <2>1
<1>5. ASSUME NEW i \in 0..(n - 1), i \in K PROVE i + 1 \in K
    <2> DEFINE j == i + 1
               x == h[i]
               y == h[j]
    <2>1. /\ i \in Nat /\ j \in 1..n /\ j \in 0..n /\ j = i + 1
          /\ Owing(x, T, side, price, taken, i) /\ MakersOnly(x, s)
        BY <1>1, <1>5
    <2>2. y = ApplyMakerFill(x, taken[j], price)
        BY <1>3, <2>1
    <2> HIDE DEF j, x, y, K
    <2>3. Owing(y, T, side, price, taken, j) /\ MakersOnly(y, x)
        BY <1>1, <2>1, <2>2, CreditStep
    <2>4. MakersOnly(y, s)
        BY <2>1, <2>3, MakersTwice
    <2> QED
        BY <2>1, <2>3, <2>4 DEF K, j, y
<1>6. n \in K
    <2> HIDE DEF K
    <2>1. \A k \in 0..n : k \in K
        BY <1>1, <1>4, <1>5, Induction
    <2> QED
        BY <1>1, <2>1
<1>7. s2 = h[n]
    BY <1>2
<1>8. Owing(s2, T, side, price, taken, n) /\ MakersOnly(s2, s)
    BY <1>6, <1>7
<1>9. \A k \in DOMAIN taken : ~(k > n)
    BY <1>1
<1> QED
    BY <1>8, <1>9 DEF Owing, StateOK

-----------------------------------------------------------------------------
(* Who is served first *)

(* The parts of a state that is in order.                                  *)
LEMMA StateFacts ==
    ASSUME NEW s, NEW T, StateOK(s, T)
    PROVE  /\ OrdersOK(s) /\ LedgerOK(s) /\ BookOK(s.book)
           /\ T \subseteq 1..Len(s.orders) /\ \A id \in T : s.orders[id].status # "CANCELLED"
           /\ Listed(s, T) /\ Resting(s, T)
           /\ \A id \in DOMAIN s.limitQueueIds : InBook(s, id) = Remaining(s.orders[id])
           /\ Len(s.orders) \in Nat /\ DOMAIN s.orders = 1..Len(s.orders)
<1>1. OrdersOK(s)
    BY DEF StateOK, Sane
<1>2. Len(s.orders) \in Nat /\ DOMAIN s.orders = 1..Len(s.orders)
    BY <1>1, OrderFacts
<1> QED
    BY <1>2 DEF StateOK, Sane

(* Of the first n orders none has more than before, and one has less only  *)
(* when the older ones at its price have nothing left.                     *)
Served(b2, b, n) ==
    /\ IsBook(b) /\ IsBook(b2)
    /\ \A sd \in Sides : \A p : \A y \in 1..n :
          /\ Size(b2, sd, p, y) <= Size(b, sd, p, y)
          /\ Size(b2, sd, p, y) # Size(b, sd, p, y)
                => \A x \in 1..n : x < y => Size(b2, sd, p, x) = 0

Better(side, p2, p) == IF side = "BUY" THEN p2 > p ELSE p2 < p

(* One of the first n orders has less only on this side, and only when     *)
(* those at better prices have nothing left.                               *)
BestFirst(b2, b, n, side) ==
    \A sd \in Sides : \A p : \A y \in 1..n :
       Size(b2, sd, p, y) # Size(b, sd, p, y)
          => /\ sd = side
             /\ \A p2 \in Prices : Better(side, p2, p) =>
                   \A x \in 1..n : Size(b2, side, p2, x) = 0

(* What a call may do to the first n orders when it cancels none of them.  *)
Serves(s2, s, n) ==
    /\ n \in Nat /\ n <= Len(s.orders) /\ n <= Len(s2.orders)
    /\ \A x \in 1..n : Lasts(s2.orders[x], s.orders[x])
    /\ Served(s2.book, s.book, n)

(* A book serves by age in two steps when it does so in each.              *)
LEMMA ServedTwice ==
    ASSUME NEW n, NEW b, NEW b2, NEW b3, Served(b2, b, n), Served(b3, b2, n)
    PROVE  Served(b3, b, n)
<1>1. IsBook(b) /\ IsBook(b2) /\ IsBook(b3)
    BY DEF Served
<1>2. ASSUME NEW sd \in Sides, NEW p, NEW y \in 1..n
      PROVE  /\ Size(b3, sd, p, y) <= Size(b, sd, p, y)
             /\ Size(b3, sd, p, y) # Size(b, sd, p, y)
                   => \A x \in 1..n : x < y => Size(b3, sd, p, x) = 0
    <2>1. /\ Size(b3, sd, p, y) <= Size(b2, sd, p, y)
          /\ Size(b2, sd, p, y) <= Size(b, sd, p, y)
          /\ Size(b2, sd, p, y) # Size(b, sd, p, y)
                => \A x \in 1..n : x < y => Size(b2, sd, p, x) = 0
          /\ Size(b3, sd, p, y) # Size(b2, sd, p, y)
                => \A x \in 1..n : x < y => Size(b3, sd, p, x) = 0
        BY DEF Served
    <2>2. \A x : Size(b3, sd, p, x) \in Nat /\ Size(b2, sd, p, x) \in Nat /\ Size(b, sd, p, x) \in Nat
        BY <1>1, SizeType
    <2>3. \A x \in 1..n : Size(b3, sd, p, x) <= Size(b2, sd, p, x)
        BY DEF Served
    <2>4. Size(b3, sd, p, y) <= Size(b, sd, p, y)
        BY <2>1, <2>2
    <2>5. \A x \in 1..n : Size(b2, sd, p, x) = 0 => Size(b3, sd, p, x) = 0
        BY <2>2, <2>3
    <2> QED
        BY <2>1, <2>4, <2>5
<1> QED
    BY <1>1, <1>2 DEF Served

(* Two steps serve the best prices first when each does.                   *)
LEMMA BestTwice ==
    ASSUME NEW n, NEW side \in Sides, NEW b, NEW b2, NEW b3, BestFirst(b2, b, n, side),
           BestFirst(b3, b2, n, side), Served(b3, b2, n)
    PROVE  BestFirst(b3, b, n, side)
<1> SUFFICES ASSUME NEW sd \in Sides, NEW p, NEW y \in 1..n,
                    Size(b3, sd, p, y) # Size(b, sd, p, y)
             PROVE  /\ sd = side
                    /\ \A p2 \in Prices : Better(side, p2, p) =>
                          \A x \in 1..n : Size(b3, side, p2, x) = 0
    BY DEF BestFirst
<1>1. CASE Size(b3, sd, p, y) # Size(b2, sd, p, y)
    BY <1>1 DEF BestFirst
<1>2. CASE Size(b2, sd, p, y) # Size(b, sd, p, y)
    <2>1. /\ sd = side
          /\ \A p2 \in Prices : Better(side, p2, p) =>
                \A x \in 1..n : Size(b2, side, p2, x) = 0
        BY <1>2 DEF BestFirst
    <2>2. ASSUME NEW p2, NEW x \in 1..n, Size(b2, side, p2, x) = 0
          PROVE  Size(b3, side, p2, x) = 0
        <3>1. Size(b3, side, p2, x) <= Size(b2, side, p2, x) /\ IsBook(b3)
            BY DEF Served
        <3>2. Size(b3, side, p2, x) \in Nat
            BY <3>1, SizeType
        <3> QED
            BY <2>2, <3>1, <3>2
    <2> QED
        BY <2>1, <2>2
<1> QED
    BY <1>1, <1>2

(* Two steps that cancel nothing are one.                                  *)
LEMMA ServesTwice ==
    ASSUME NEW n, NEW s, NEW s2, NEW s3, Serves(s2, s, n), Serves(s3, s2, n)
    PROVE  Serves(s3, s, n)
<1>1. /\ n \in Nat /\ n <= Len(s.orders) /\ n <= Len(s3.orders)
      /\ \A x \in 1..n : Lasts(s2.orders[x], s.orders[x]) /\ Lasts(s3.orders[x], s2.orders[x])
      /\ Served(s2.book, s.book, n) /\ Served(s3.book, s2.book, n)
    BY DEF Serves
<1>2. \A x \in 1..n : Lasts(s3.orders[x], s.orders[x])
    <2> SUFFICES ASSUME NEW x \in 1..n PROVE Lasts(s3.orders[x], s.orders[x])
        OBVIOUS
    <2>1. Lasts(s2.orders[x], s.orders[x]) /\ Lasts(s3.orders[x], s2.orders[x])
        BY <1>1
    <2> QED
        BY <2>1 DEF Lasts
<1>3. Served(s3.book, s.book, n)
    BY <1>1, ServedTwice
<1> QED
    BY <1>1, <1>2, <1>3 DEF Serves

(* What holds of the first n orders holds of fewer.                        *)
LEMMA ServesFewer ==
    ASSUME NEW n, NEW s, NEW s2, Serves(s2, s, n), NEW m \in Nat, m <= n,
           Len(s.orders) \in Nat, Len(s2.orders) \in Nat
    PROVE  Serves(s2, s, m)
<1>1. /\ n \in Nat /\ n <= Len(s.orders) /\ n <= Len(s2.orders)
      /\ \A x \in 1..n : Lasts(s2.orders[x], s.orders[x])
      /\ Served(s2.book, s.book, n)
    BY DEF Serves
<1>2. m <= Len(s.orders) /\ m <= Len(s2.orders)
    BY <1>1
<1>3. \A x \in 1..m : x \in 1..n
    BY <1>1
<1>4. Served(s2.book, s.book, m)
    BY <1>1, <1>3 DEF Served
<1> QED
    BY <1>1, <1>2, <1>3, <1>4 DEF Serves

(* Books alike in the sizes of the first n orders serve no one.            *)
LEMMA ServedSame ==
    ASSUME NEW n, NEW b, NEW b2, IsBook(b), IsBook(b2),
           \A sd \in Sides : \A p : \A x \in 1..n : Size(b2, sd, p, x) = Size(b, sd, p, x)
    PROVE  /\ Served(b2, b, n)
           /\ \A side \in Sides : BestFirst(b2, b, n, side)
<1>1. \A sd \in Sides : \A p, x : Size(b2, sd, p, x) \in Nat
    BY SizeType
<1>2. Served(b2, b, n)
    BY <1>1 DEF Served
<1>3. \A side \in Sides : BestFirst(b2, b, n, side)
    BY DEF BestFirst
<1> QED
    BY <1>2, <1>3

(* Nothing happened to the first n orders, nor to what they have resting.  *)
Untouched(s2, s, n) ==
    /\ n \in Nat /\ n <= Len(s.orders) /\ n <= Len(s2.orders)
    /\ \A x \in 1..n : s2.orders[x] = s.orders[x]
    /\ IsBook(s.book) /\ IsBook(s2.book)
    /\ \A sd \in Sides : \A p : \A x \in 1..n :
          Size(s2.book, sd, p, x) = Size(s.book, sd, p, x)

(* What an order may have done to those that rest on this side.            *)
Reached(s2, s, side, n) ==
    Serves(s2, s, n) /\ BestFirst(s2.book, s.book, n, side)

(* What is untouched is served in any order.                               *)
LEMMA UntouchedServes ==
    ASSUME NEW n, NEW s, NEW s2, Untouched(s2, s, n)
    PROVE  Serves(s2, s, n) /\ \A side \in Sides : Reached(s2, s, side, n)
<1>1. /\ Served(s2.book, s.book, n)
      /\ \A side \in Sides : BestFirst(s2.book, s.book, n, side)
    BY ServedSame DEF Untouched
<1>2. \A x \in 1..n : Lasts(s2.orders[x], s.orders[x])
    BY DEF Lasts, Untouched
<1>3. Serves(s2, s, n)
    BY <1>1, <1>2 DEF Serves, Untouched
<1> QED
    BY <1>1, <1>3 DEF Reached

(* Two rounds reach what they reach in the order of prices.                *)
LEMMA ReachedTwice ==
    ASSUME NEW n, NEW s, NEW s2, NEW s3, NEW side \in Sides, Reached(s2, s, side, n),
           Reached(s3, s2, side, n)
    PROVE  Reached(s3, s, side, n)
<1>1. /\ Serves(s2, s, n) /\ BestFirst(s2.book, s.book, n, side)
      /\ Serves(s3, s2, n) /\ BestFirst(s3.book, s2.book, n, side)
    BY DEF Reached
<1>2. Serves(s3, s, n)
    BY <1>1, ServesTwice
<1>3. Served(s3.book, s2.book, n)
    BY <1>1 DEF Serves
<1>4. BestFirst(s3.book, s.book, n, side)
    BY <1>1, <1>3, BestTwice
<1> QED
    BY <1>2, <1>4 DEF Reached

(* What holds of the first n orders holds of fewer.                        *)
LEMMA ReachedFewer ==
    ASSUME NEW n, NEW s, NEW s2, NEW side \in Sides, Reached(s2, s, side, n),
           NEW m \in Nat, m <= n, Len(s.orders) \in Nat, Len(s2.orders) \in Nat
    PROVE  Reached(s2, s, side, m)
<1>1. Serves(s2, s, n) /\ BestFirst(s2.book, s.book, n, side) /\ n \in Nat
    BY DEF Reached, Serves
<1>2. Serves(s2, s, m)
    BY <1>1, ServesFewer
<1>3. \A x \in 1..m : x \in 1..n
    BY <1>1
<1>4. BestFirst(s2.book, s.book, m, side)
    BY <1>1, <1>3 DEF BestFirst
<1> QED
    BY <1>2, <1>4 DEF Reached

(* A set of prices that is not empty has a highest and a lowest, and is    *)
(* finite.                                                                 *)
LEMMA LargestIn ==
    ASSUME NEW M, M \subseteq Prices, M # {}
    PROVE  /\ Max(M) \in M /\ Min(M) \in M /\ IsFiniteSet(M)
           /\ \A y \in M : Min(M) <= y /\ Max(M) >= y
<1>1. PICK hi \in Prices : \A p \in Prices : p <= hi
    BY DepthAssumption
<1>2. hi \in Nat /\ \A p \in M : p \in Nat /\ p <= hi
    BY <1>1, DepthAssumption
<1> DEFINE Below == {hi - p : p \in M}
<1>3. Below \subseteq Nat /\ Below # {}
    <2>1. \A p \in M : hi - p \in Nat
        BY <1>2
    <2>2. PICK p : p \in M
        OBVIOUS
    <2>3. hi - p \in Below
        BY <2>2
    <2> QED
        BY <2>1, <2>3
<1>4. PICK d \in Below : \A e \in Below : ~(<<e, d>> \in OpToRel(<, Nat))
    <2> HIDE DEF Below
    <2> QED
        BY <1>3, WFMin, NatLessThanWellFounded, ZenonT(30)
<1>5. PICK m \in M : d = hi - m
    OBVIOUS
<1>6. \A y \in M : m >= y
    <2> SUFFICES ASSUME NEW y \in M PROVE m >= y
        OBVIOUS
    <2>1. hi - y \in Below /\ hi - y \in Nat /\ d \in Nat
        BY <1>3
    <2>2. hi - y < d => <<hi - y, d>> \in OpToRel(<, Nat)
        BY <2>1 DEF OpToRel
    <2>3. ~(hi - y < d)
        BY <1>4, <2>1, <2>2, ZenonT(30)
    <2>4. m \in Nat /\ y \in Nat
        BY <1>2
    <2> HIDE DEF Below
    <2> QED
        BY <1>2, <1>5, <2>1, <2>3, <2>4
<1>7. Max(M) \in M /\ \A y \in M : Max(M) >= y
    BY <1>6 DEF Max
<1>8. Min(M) \in M /\ \A y \in M : Min(M) <= y
    BY <1>2, SmallestIn
<1>9. IsFiniteSet(M)
    <2>1. IsFiniteSet(0..hi)
        BY <1>2, FS_Interval
    <2>2. M \subseteq 0..hi
        BY <1>2
    <2> QED
        BY <2>1, <2>2, FS_Subset
<1> QED
    BY <1>7, <1>8, <1>9

(* A level that gives from its front serves by age.                        *)
LEMMA ConsumedServes ==
    ASSUME NEW b, BookOK(b), NEW side \in Sides, NEW price, NEW quantity, NEW b2, NEW taken,
           Consumed(b2, taken, b, side, price, quantity), NEW n \in Nat
    PROVE  Served(b2, b, n)
<1>1. /\ IsBook(b) /\ Ascends(b, side, price) /\ Shrunk(b2, b, side, price)
      /\ OldestFirst(b2, b, side, price)
    BY DEF BookOK, Aged, Consumed
<1>2. /\ IsBook(b2) /\ OnlyLevel(b2, b, side, price)
      /\ \A x : Size(b2, side, price, x) <= Size(b, side, price, x)
    BY <1>1 DEF Shrunk
<1>3. ASSUME NEW sd \in Sides, NEW p, NEW y \in 1..n
      PROVE  /\ Size(b2, sd, p, y) <= Size(b, sd, p, y)
             /\ Size(b2, sd, p, y) # Size(b, sd, p, y)
                   => \A x \in 1..n : x < y => Size(b2, sd, p, x) = 0
    <2>1. CASE sd = side /\ p = price
        <3>1. \A x \in 1..n : x \in Int
            OBVIOUS
        <3> QED
            BY <1>1, <1>2, <2>1, <3>1 DEF OldestFirst
    <2>2. CASE sd # side \/ p # price
        <3>1. Size(b2, sd, p, y) = Size(b, sd, p, y)
            BY <1>2, <2>2, SameSize
        <3>2. Size(b, sd, p, y) \in Nat
            BY <1>1, SizeType
        <3> QED
            BY <3>1, <3>2
    <2> QED
        BY <2>1, <2>2
<1> QED
    BY <1>1, <1>2, <1>3 DEF Served

(* No level is better than the best.                                       *)
LEMMA BestLevel ==
    ASSUME NEW b, BookOK(b), NEW side \in Sides, NEW price, price = BestPrice(b, side),
           DOMAIN b.levels[side] # {}, NEW b2, OnlyLevel(b2, b, side, price), NEW n \in Nat
    PROVE  BestFirst(b2, b, n, side)
<1> DEFINE M == DOMAIN b.levels[side]
<1>1. M \subseteq Prices /\ M # {} /\ (side = "BUY" => price = Max(M))
      /\ (side # "BUY" => price = Min(M))
    BY DEF BookOK, BestPrice
<1>2. ASSUME NEW p2 \in Prices, Better(side, p2, price) PROVE p2 \notin M
    <2> SUFFICES ASSUME p2 \in M PROVE FALSE
        OBVIOUS
    <2> HIDE DEF M
    <2>1. \A p \in M : p \in Nat
        BY <1>1, DepthAssumption
    <2>2. Max(M) \in M /\ Min(M) \in M
        BY <1>1, LargestIn
    <2>3. \A p \in M : Max(M) >= p
        BY <1>1, LargestIn
    <2>4. \A p \in M : Min(M) <= p
        BY <1>1, LargestIn
    <2>5. CASE side = "BUY"
        BY <1>1, <1>2, <2>1, <2>2, <2>3, <2>5 DEF Better
    <2>6. CASE side # "BUY"
        BY <1>1, <1>2, <2>1, <2>2, <2>4, <2>6 DEF Better
    <2> QED
        BY <2>5, <2>6
<1> SUFFICES ASSUME NEW sd \in Sides, NEW p, NEW y \in 1..n,
                    Size(b2, sd, p, y) # Size(b, sd, p, y)
             PROVE  /\ sd = side
                    /\ \A p2 \in Prices : Better(side, p2, p) =>
                          \A x \in 1..n : Size(b2, side, p2, x) = 0
    BY DEF BestFirst
<1>3. sd = side /\ p = price
    BY SameSize
<1>4. ASSUME NEW p2 \in Prices, Better(side, p2, p), NEW x \in 1..n
      PROVE  Size(b2, side, p2, x) = 0
    <2>1. p2 \notin M
        BY <1>2, <1>3, <1>4
    <2>2. p2 # price
        <3>1. price \in M
            <4> HIDE DEF M
            <4> QED
                BY <1>1, LargestIn
        <3> QED
            BY <2>1, <3>1
    <2>3. Size(b2, side, p2, x) = Size(b, side, p2, x)
        BY <2>2, SameSize
    <2> QED
        BY <2>1, <2>3 DEF Size
<1> QED
    BY <1>3, <1>4

-----------------------------------------------------------------------------
(* One level is taken *)

(* A new book leaves orders, ledger and lists.                             *)
LEMMA BookPut ==
    ASSUME NEW s, OrdersOK(s), LedgerOK(s), NEW b, NEW s2, s2 = [s EXCEPT !.book = b]
    PROVE  /\ OrdersOK(s2) /\ LedgerOK(s2) /\ s2.orders = s.orders
           /\ s2.symbolOrders = s.symbolOrders /\ s2.limitQueueIds = s.limitQueueIds
           /\ s2.book = b
<1>1. DOMAIN s = Fields
    BY DEF OrdersOK
<1>2. /\ DOMAIN s2 = Fields /\ s2.orders = s.orders /\ s2.told = s.told /\ s2.cash = s.cash
      /\ s2.position = s.position /\ s2.symbolOrders = s.symbolOrders
      /\ s2.limitQueueIds = s.limitQueueIds /\ s2.book = b
    BY <1>1 DEF Fields
<1> QED
    BY <1>2, SameLedger

(* After a level has given something up, its orders are owed that.         *)
LEMMA ConsumedOwes ==
    ASSUME NEW s, NEW T, StateOK(s, T), NEW side \in Sides, NEW price, NEW quantity,
           NEW b2, NEW taken, Consumed(b2, taken, s.book, side, price, quantity),
           NEW s2, s2 = [s EXCEPT !.book = b2]
    PROVE  Owing(s2, T, side, price, taken, 0) /\ GivenUp(taken)
<1> DEFINE b == s.book
<1>1. /\ OrdersOK(s) /\ LedgerOK(s) /\ BookOK(b)
      /\ T \subseteq 1..Len(s.orders) /\ \A id \in T : s.orders[id].status # "CANCELLED"
      /\ Listed(s, T) /\ Resting(s, T)
      /\ \A id \in DOMAIN s.limitQueueIds : InBook(s, id) = Remaining(s.orders[id])
    BY DEF StateOK, Sane
<1>2. /\ Shrunk(b2, b, side, price) /\ NoEmptyLevel(b2) /\ Took(b2, b, side, price, taken)
    BY DEF Consumed
<1>3. BookOK(b2)
    BY <1>1, <1>2, ShrunkOK
<1>4. /\ OrdersOK(s2) /\ LedgerOK(s2) /\ s2.orders = s.orders
      /\ s2.symbolOrders = s.symbolOrders /\ s2.limitQueueIds = s.limitQueueIds
      /\ s2.book = b2
    BY <1>1, BookPut
<1>5. \A sd \in Sides : \A p, x : Size(b2, sd, p, x) # 0 => Size(b, sd, p, x) # 0
    BY <1>1, <1>2, ShrunkSizes DEF BookOK
<1>6. /\ IsBook(b) /\ IdsMatch(b2) /\ IsInjective(b.orderOf) /\ IsBook(b2)
      /\ OnlyLevel(b2, b, side, price)
      /\ \A q \in DOMAIN b2.orderOf : q \in DOMAIN b.orderOf /\ b2.orderOf[q] = b.orderOf[q]
    BY <1>1, <1>2 DEF BookOK, IdsMatch, Shrunk
<1>7. /\ DOMAIN s.limitQueueIds =
             {x \in 1..Len(s.orders) : s.orders[x].type = "LIMIT" /\ Active(s.orders[x]) /\ x \notin T}
      /\ \A x \in DOMAIN s.limitQueueIds :
            /\ s.orders[x].tif # "IOC"
            /\ InBook(s, x) # 0 => /\ s.limitQueueIds[x] \in DOMAIN b.orderOf
                                   /\ b.orderOf[s.limitQueueIds[x]] = x
            /\ \A sd \in Sides : \A p : Size(b, sd, p, x) # 0 =>
                  sd = s.orders[x].side /\ p = s.orders[x].limit
      /\ \A x : Queued(b, x) => x \in DOMAIN s.limitQueueIds \/ x \in Quotes
    BY <1>1 DEF Resting
<1>8. \A x \in DOMAIN s.limitQueueIds : s.orders[x].side \in Sides
    <2>1. \A x \in 1..Len(s.orders) : s.orders[x].side \in Sides
        BY <1>1, OrderFacts
    <2> QED
        BY <1>7, <2>1
<1>9. \A x : InBook(s2, x) = Size(b2, s.orders[x].side, s.orders[x].limit, x)
    BY <1>4 DEF InBook
<1>10. \A x : InBook(s, x) = Size(b, s.orders[x].side, s.orders[x].limit, x)
    BY DEF InBook
<1> HIDE DEF b
<1>11. Resting(s2, T)
    <2>1. ASSUME NEW x \in DOMAIN s.limitQueueIds, InBook(s2, x) # 0
          PROVE  s.limitQueueIds[x] \in DOMAIN b2.orderOf /\ b2.orderOf[s.limitQueueIds[x]] = x
        <3>1. Size(b2, s.orders[x].side, s.orders[x].limit, x) # 0
            BY <1>9, <2>1
        <3>2. Queued(b2, x)
            BY <1>8, <3>1 DEF Queued
        <3>3. PICK q \in DOMAIN b2.orderOf : b2.orderOf[q] = x
            BY <1>6, <3>2 DEF IdsMatch
        <3>4. q \in DOMAIN b.orderOf /\ b.orderOf[q] = x
            BY <1>6, <3>3
        <3>5. InBook(s, x) # 0
            BY <1>5, <1>8, <1>10, <3>1
        <3>6. s.limitQueueIds[x] \in DOMAIN b.orderOf /\ b.orderOf[s.limitQueueIds[x]] = x
            BY <1>7, <3>5
        <3>7. s.limitQueueIds[x] = q
            BY <1>6, <3>4, <3>6 DEF IsInjective
        <3> QED
            BY <3>3, <3>7
    <2>2. \A x : Queued(b2, x) => x \in DOMAIN s.limitQueueIds \/ x \in Quotes
        <3>1. \A x : Queued(b2, x) => Queued(b, x)
            BY <1>5 DEF Queued
        <3> QED
            BY <1>7, <3>1
    <2>3. \A x \in DOMAIN s.limitQueueIds : \A sd \in Sides : \A p : Size(b2, sd, p, x) # 0 =>
             sd = s.orders[x].side /\ p = s.orders[x].limit
        BY <1>5, <1>7
    <2> QED
        BY <1>4, <1>7, <2>1, <2>2, <2>3 DEF Resting
<1>12. Listed(s2, T)
    BY <1>1, <1>4 DEF Listed
<1>13. Sane(s2, T)
    BY <1>1, <1>3, <1>4, <1>11, <1>12 DEF Sane
<1>14. /\ taken \in Seq(Takings) /\ DOMAIN taken \subseteq Nat
       /\ \A k \in DOMAIN taken : k > 0 /\ taken[k].size \in Nat \ {0}
       /\ \A k \in DOMAIN taken :
             Size(b2, side, price, taken[k].id) = Size(b, side, price, taken[k].id) - taken[k].size
       /\ \A k, m \in DOMAIN taken : taken[k].id = taken[m].id => k = m
       /\ \A x : (\A k \in DOMAIN taken : taken[k].id # x)
                    => Size(b2, side, price, x) = Size(b, side, price, x)
    <2>1. taken \in Seq(Takings)
        BY <1>2 DEF Took
    <2>2. DOMAIN taken = 1..Len(taken) /\ Len(taken) \in Nat
        BY <2>1
    <2>3. \A k \in DOMAIN taken : taken[k] \in Takings
        BY <2>1, <2>2
    <2>4. \A k \in DOMAIN taken : taken[k].size \in Nat \ {0}
        BY <2>3 DEF Takings
    <2> QED
        BY <1>2, <2>1, <2>2, <2>4 DEF Took, b
<1>15. GivenUp(taken)
    BY <1>14 DEF GivenUp
<1>16. ASSUME NEW x \in DOMAIN s.limitQueueIds, \A k \in DOMAIN taken : k > 0 => taken[k].id # x
       PROVE  InBook(s2, x) = Remaining(s2.orders[x])
    <2>1. \A k \in DOMAIN taken : taken[k].id # x
        BY <1>14, <1>16
    <2>2. Size(b2, side, price, x) = Size(b, side, price, x)
        BY <1>14, <2>1
    <2>3. ASSUME NEW sd \in Sides, NEW p PROVE Size(b2, sd, p, x) = Size(b, sd, p, x)
        <3>1. CASE sd = side /\ p = price
            BY <2>2, <3>1
        <3>2. CASE sd # side \/ p # price
            BY <1>6, <3>2, SameSize
        <3> QED
            BY <3>1, <3>2
    <2>4. InBook(s2, x) = InBook(s, x)
        BY <1>8, <1>9, <1>10, <2>3
    <2> QED
        BY <1>1, <1>4, <2>4
<1>17. ASSUME NEW k \in DOMAIN taken, taken[k].id \notin Quotes
       PROVE  /\ taken[k].id \in DOMAIN s.limitQueueIds
              /\ s.orders[taken[k].id].side = side /\ s.orders[taken[k].id].limit = price
              /\ InBook(s2, taken[k].id) = Remaining(s.orders[taken[k].id]) - taken[k].size
    <2> DEFINE x == taken[k].id
    <2>1. /\ Size(b2, side, price, x) = Size(b, side, price, x) - taken[k].size
          /\ taken[k].size \in Nat \ {0}
        BY <1>14
    <2>2. Size(b, side, price, x) \in Nat /\ Size(b2, side, price, x) \in Nat
        BY <1>6, SizeType
    <2>3. x \notin Quotes
        BY <1>17
    <2> HIDE DEF x
    <2>4. Size(b, side, price, x) # 0
        BY <2>1, <2>2
    <2>5. Queued(b, x)
        BY <2>4 DEF Queued
    <2>6. x \in DOMAIN s.limitQueueIds
        BY <1>7, <2>3, <2>5
    <2>7. s.orders[x].side = side /\ s.orders[x].limit = price
        BY <1>7, <2>4, <2>6
    <2>8. InBook(s2, x) = InBook(s, x) - taken[k].size
        BY <1>9, <1>10, <2>1, <2>7
    <2>9. InBook(s2, x) = Remaining(s.orders[x]) - taken[k].size
        BY <1>1, <2>6, <2>8
    <2> QED
        BY <2>6, <2>7, <2>9 DEF x
<1>18. Owing(s2, T, side, price, taken, 0)
    BY <1>4, <1>13, <1>16, <1>17 DEF Owing
<1> QED
    BY <1>15, <1>18

(* s2 is s after one level has given up to `quantity`, and been paid.      *)
Takes(s2, s, side, price, quantity, done) ==
    /\ done = ConsumeAtPrice(s.book, side, price, quantity)
    /\ s2 = Credit([s EXCEPT !.book = done.book], done.taken, price)

(* What a level gives up is credited to the orders that gave it.           *)
LEMMA LevelTaken ==
    ASSUME NEW s, NEW T, StateOK(s, T), NEW side \in Sides, NEW price \in Prices,
           NEW quantity \in Nat, NEW done, NEW s2, Takes(s2, s, side, price, quantity, done)
    PROVE  /\ StateOK(s2, T) /\ Len(s2.orders) = Len(s.orders)
           /\ \A x \in 1..Len(s.orders) : s2.orders[x].type = s.orders[x].type
           /\ \A x \in T : s2.orders[x] = s.orders[x]
           /\ SizeOf(done.taken) \in Nat /\ SizeOf(done.taken) <= quantity
           /\ Serves(s2, s, Len(s.orders)) /\ OnlyLevel(s2.book, s.book, side, price)
           /\ s2.book = done.book
<1> DEFINE w == [s EXCEPT !.book = done.book]
<1>1. OrdersOK(s) /\ LedgerOK(s) /\ BookOK(s.book) /\ T \subseteq 1..Len(s.orders) /\ Resting(s, T)
    BY DEF StateOK, Sane
<1>2. Consumed(done.book, done.taken, s.book, side, price, quantity)
    BY <1>1, ConsumedAtPrice DEF BookOK, Takes
<1>3. s2 = Credit(w, done.taken, price)
    BY DEF Takes
<1>4. w.orders = s.orders /\ w.limitQueueIds = s.limitQueueIds /\ w.book = done.book
    BY <1>1, BookPut
<1> DEFINE b2 == done.book
           taken == done.taken
<1>5. w = [s EXCEPT !.book = b2] /\ Consumed(b2, taken, s.book, side, price, quantity)
    BY <1>2
<1> HIDE DEF w, b2, taken
<1>6. Owing(w, T, side, price, taken, 0) /\ GivenUp(taken)
    BY <1>5, ConsumedOwes
<1>7. s2 = Credit(w, taken, price)
    BY <1>3 DEF taken
<1>8. StateOK(s2, T) /\ MakersOnly(s2, w)
    BY <1>6, <1>7, CreditedAll
<1>9. \A x \in T : x \in 1..Len(s.orders) /\ x \notin DOMAIN s.limitQueueIds
    BY <1>1 DEF Resting
<1>10. SizeOf(taken) \in Nat /\ SizeOf(taken) <= quantity
    BY <1>5 DEF Consumed
<1> DEFINE n == Len(s.orders)
<1>11. /\ Len(s2.orders) = n /\ s2.book = b2 /\ n \in Nat
       /\ \A x \in 1..n : Lasts(s2.orders[x], s.orders[x])
       /\ \A x \in 1..n : x \notin DOMAIN s.limitQueueIds => s2.orders[x] = s.orders[x]
    <2>1. n \in Nat
        BY <1>1, OrderFacts
    <2> QED
        BY <1>4, <1>8, <2>1 DEF MakersOnly, b2
<1> HIDE DEF n
<1>12. Served(b2, s.book, n) /\ OnlyLevel(b2, s.book, side, price)
    <2>1. Served(b2, s.book, n)
        BY <1>1, <1>5, <1>11, ConsumedServes
    <2>2. OnlyLevel(b2, s.book, side, price)
        BY <1>5 DEF Consumed, Shrunk
    <2> QED
        BY <2>1, <2>2
<1>13. Serves(s2, s, n) /\ OnlyLevel(s2.book, s.book, side, price)
    BY <1>11, <1>12 DEF Serves, n
<1>14. \A x \in 1..n : s2.orders[x].type = s.orders[x].type
    BY <1>11 DEF Lasts
<1> QED
    BY <1>8, <1>9, <1>10, <1>11, <1>13, <1>14 DEF n, taken, b2

-----------------------------------------------------------------------------
(* Walking the book *)

(* q shares of value v, at prices of the market which the order accepts.   *)
Worth(o, q, v) ==
    /\ q \in Nat /\ v \in Nat /\ Fair(o, q, v)
    /\ q * Min(Prices) <= v /\ v <= q * Max(Prices)

(* Bounds on values add up.                                                *)
LEMMA SumBounds ==
    ASSUME NEW c \in Nat, NEW q \in Nat, NEW r \in Nat, NEW v \in Nat, NEW w \in Nat
    PROVE  /\ c * q <= v /\ c * r <= w => c * (q + r) <= v + w
           /\ c * q >= v /\ c * r >= w => c * (q + r) >= v + w
<1> DEFINE a == c * q
           b == c * r
           d == c * (q + r)
<1>1. a \in Int /\ b \in Int /\ d = a + b
    BY Distribute
<1> HIDE DEF a, b, d
<1>2. /\ a <= v /\ b <= w => d <= v + w
      /\ a >= v /\ b >= w => d >= v + w
    BY <1>1
<1> QED
    BY <1>2 DEF a, b, d

(* Two takings within the limit are within the limit together.             *)
LEMMA WorthMore ==
    ASSUME NEW o, o.limit \in Nat, NEW q, NEW v, Worth(o, q, v), NEW r, NEW w, Worth(o, r, w)
    PROVE  Worth(o, q + r, v + w)
<1> DEFINE lo == Min(Prices)
           hi == Max(Prices)
           li == o.limit
<1>1. lo \in Nat /\ hi \in Nat /\ li \in Nat
    BY PriceBounds
<1>2. /\ q \in Nat /\ v \in Nat /\ r \in Nat /\ w \in Nat /\ q + r \in Nat /\ v + w \in Nat
      /\ q * lo <= v /\ v <= q * hi /\ r * lo <= w /\ w <= r * hi
      /\ Fair(o, q, v) /\ Fair(o, r, w)
    BY DEF Worth
<1> HIDE DEF lo, hi, li
<1>3. \A a, b \in Nat : a * b = b * a
    OBVIOUS
<1>4. lo * q <= v /\ lo * r <= w /\ hi * q >= v /\ hi * r >= w
    <2>1. q * lo = lo * q /\ r * lo = lo * r /\ q * hi = hi * q /\ r * hi = hi * r
        BY <1>1, <1>2, <1>3
    <2> DEFINE a == lo * q
               b == lo * r
               c == hi * q
               d == hi * r
    <2>2. a <= v /\ b <= w /\ v <= c /\ w <= d /\ a \in Nat /\ b \in Nat /\ c \in Nat /\ d \in Nat
        BY <1>1, <1>2, <2>1
    <2> HIDE DEF a, b, c, d
    <2>3. a <= v /\ b <= w /\ c >= v /\ d >= w
        BY <1>2, <2>2
    <2> QED
        BY <2>3 DEF a, b, c, d
<1>5. lo * (q + r) <= v + w
    BY <1>1, <1>2, <1>4, SumBounds
<1>6. hi * (q + r) >= v + w
    BY <1>1, <1>2, <1>4, SumBounds
<1>7. (q + r) * lo <= v + w /\ v + w <= (q + r) * hi
    <2> DEFINE x == q + r
               y == v + w
               a == lo * x
               b == hi * x
    <2>1. x * lo = a /\ x * hi = b /\ a \in Nat /\ b \in Nat
        BY <1>1, <1>2, <1>3
    <2>2. a <= y /\ b >= y
        BY <1>5, <1>6
    <2> HIDE DEF x, y, a, b
    <2>3. x * lo <= y /\ y <= x * hi
        <3>1. y \in Nat
            BY <1>2 DEF y
        <3>2. a <= y /\ y <= b
            BY <2>1, <2>2, <3>1
        <3> QED
            BY <2>1, <3>2
    <2> QED
        BY <2>3 DEF x, y
<1>8. Fair(o, q + r, v + w)
    <2> SUFFICES ASSUME o.type = "LIMIT"
                 PROVE  /\ o.side = "BUY" => v + w <= o.limit * (q + r)
                        /\ o.side # "BUY" => v + w >= o.limit * (q + r)
        BY DEF Fair
    <2>1. /\ o.side = "BUY" => v <= li * q /\ w <= li * r
          /\ o.side # "BUY" => v >= li * q /\ w >= li * r
        BY <1>2 DEF Fair, li
    <2> DEFINE a == li * q
               b == li * r
               c == li * (q + r)
    <2>2. a \in Int /\ b \in Int /\ c = a + b
        BY <1>1, <1>2, Distribute
    <2>3. /\ o.side = "BUY" => v <= a /\ w <= b
          /\ o.side # "BUY" => v >= a /\ w >= b
        BY <2>1
    <2> HIDE DEF a, b, c
    <2>4. /\ o.side = "BUY" => v + w <= c
          /\ o.side # "BUY" => v + w >= c
        BY <1>2, <2>2, <2>3
    <2> QED
        BY <2>4 DEF c, li
<1> QED
    BY <1>2, <1>7, <1>8 DEF Worth, lo, hi

(* No taking is within the limit.                                          *)
LEMMA WorthNone ==
    ASSUME NEW o, o.limit \in Nat
    PROVE  Worth(o, 0, 0)
<1>1. Min(Prices) \in Nat /\ Max(Prices) \in Nat
    BY PriceBounds
<1> DEFINE lo == Min(Prices)
           hi == Max(Prices)
<1>2. 0 * lo = 0 /\ 0 * hi = 0 /\ o.limit * 0 = 0
    BY <1>1
<1> QED
    BY <1>2 DEF Worth, Fair

(* The best price of the other side is one the order accepts.              *)
LEMMA CrossedWorth ==
    ASSUME NEW b, BookOK(b), NEW o, OrderOK(o), Crossable(b, o), NEW q \in Nat,
           NEW price, price = BestPrice(b, Opposite(o.side))
    PROVE  price \in Prices /\ Worth(o, q, price * q)
<1> DEFINE side == Opposite(o.side)
<1>1. o.side \in Sides /\ o.limit \in Nat /\ o.type \in {"MARKET", "LIMIT"}
    BY DEF OrderOK, OrderRecords
<1>2. side \in Sides /\ (o.side = "BUY" => side = "SELL") /\ (o.side # "BUY" => side = "BUY" /\ o.side = "SELL")
    BY <1>1 DEF Opposite, Sides
<1>3. price \in Prices
    <2>1. DOMAIN b.levels[side] \subseteq Prices /\ DOMAIN b.levels[side] # {}
        BY <1>2 DEF BookOK, Crossable, HasTouch
    <2> DEFINE M == DOMAIN b.levels[side]
    <2>2. price = IF side = "BUY" THEN Max(M) ELSE Min(M)
        BY DEF BestPrice
    <2>3. M \subseteq Prices /\ M # {}
        BY <2>1
    <2> HIDE DEF M
    <2>4. Max(M) \in Prices /\ Min(M) \in Prices
        BY <2>3, LargestIn
    <2> QED
        BY <2>2, <2>4
<1>4. /\ q * price \in Nat /\ price * q = q * price
      /\ q * Min(Prices) <= q * price /\ q * price <= q * Max(Prices)
    BY <1>3, Priced
<1>5. Fair(o, q, price * q)
    <2> SUFFICES ASSUME o.type = "LIMIT"
                 PROVE  /\ o.side = "BUY" => price * q <= o.limit * q
                        /\ o.side # "BUY" => price * q >= o.limit * q
        BY DEF Fair
    <2>1. /\ o.side = "BUY" => price <= o.limit
          /\ o.side # "BUY" => price >= o.limit
        BY <1>2 DEF Crossable
    <2> DEFINE li == o.limit
    <2>2. li \in Nat /\ price \in Nat
        BY <1>1, <1>3, PriceBounds
    <2>3. /\ o.side = "BUY" => price <= li
          /\ o.side # "BUY" => li <= price
        BY <2>1, <2>2
    <2> HIDE DEF li
    <2>4. price <= li => q * price <= q * li
        BY <2>2, Monotone
    <2>5. li <= price => q * li <= q * price
        BY <2>2, Monotone
    <2>6. q * price = price * q /\ q * li = li * q /\ price * q \in Nat /\ li * q \in Nat
        BY <2>2
    <2> DEFINE x == price * q
               y == li * q
    <2>7. /\ o.side = "BUY" => x <= y
          /\ o.side # "BUY" => y <= x
        BY <2>3, <2>4, <2>5, <2>6
    <2>8. x \in Nat /\ y \in Nat
        BY <2>6
    <2> HIDE DEF x, y
    <2>9. /\ o.side = "BUY" => x <= y
          /\ o.side # "BUY" => x >= y
        BY <2>7, <2>8
    <2> QED
        BY <2>9 DEF x, y, li
<1> QED
    BY <1>3, <1>4, <1>5 DEF Worth

(* What an order of T may have changed on its way through the book.        *)
Taking(sofar, s, T, order) ==
    /\ StateOK(sofar.s, T) /\ Len(sofar.s.orders) = Len(s.orders)
    /\ \A x \in 1..Len(s.orders) : sofar.s.orders[x].type = s.orders[x].type
    /\ \A x \in T : sofar.s.orders[x] = s.orders[x]
    /\ Worth(order, sofar.total, sofar.value)
    /\ sofar.total <= Remaining(order)
    /\ Reached(sofar.s, s, Opposite(order.side), Len(s.orders))

(* One round of take_liquidity keeps what its loop maintains.              *)
LEMMA TakingStep ==
    ASSUME NEW s, NEW T, T \subseteq 1..Len(s.orders), NEW order, OrderOK(order),
           Remaining(order) \in Nat, NEW sofar, Taking(sofar, s, T, order),
           NEW g, g = TakeBestLevel(sofar, order)
    PROVE  Taking(g, s, T, order)
<1> DEFINE b == sofar.s.book
           side == Opposite(order.side)
           price == BestPrice(b, side)
           total == sofar.total
           left == Remaining(order) - total
           done == ConsumeAtPrice(b, side, price, left)
           more == total < Remaining(order) /\ Crossable(b, order)
<1>1. /\ StateOK(sofar.s, T) /\ Len(sofar.s.orders) = Len(s.orders)
      /\ \A x \in 1..Len(s.orders) : sofar.s.orders[x].type = s.orders[x].type
      /\ \A x \in T : sofar.s.orders[x] = s.orders[x]
      /\ Worth(order, total, sofar.value)
      /\ total <= Remaining(order) /\ total \in Nat /\ sofar.value \in Nat
      /\ Reached(sofar.s, s, side, Len(s.orders))
    BY DEF Taking, Worth
<1>2. side \in Sides /\ order.limit \in Nat
    BY DEF Opposite, Sides, OrderOK, OrderRecords
<1>3. BookOK(b)
    BY <1>1 DEF StateOK, Sane
<1>4. left \in Nat
    BY <1>1
<1>5. CASE ~more
    <2>1. g = sofar
        BY <1>5 DEF TakeBestLevel
    <2> QED
        BY <2>1
<1>6. CASE more
    <2> DEFINE w == Credit([sofar.s EXCEPT !.book = done.book], done.taken, price)
               q == SizeOf(done.taken)
    <2>1. g = [s |-> w, total |-> total + q, value |-> sofar.value + price * q]
        BY <1>6 DEF TakeBestLevel
    <2>2. price \in Prices /\ \A r \in Nat : Worth(order, r, price * r)
        <3>1. Crossable(b, order)
            BY <1>6
        <3> DEFINE p == price
        <3>2. p = BestPrice(b, Opposite(order.side))
            OBVIOUS
        <3> HIDE DEF p, b
        <3>3. p \in Prices /\ \A r \in Nat : Worth(order, r, p * r)
            <4>1. p \in Prices
                BY <1>3, <3>1, <3>2, CrossedWorth, 0 \in Nat
            <4>2. ASSUME NEW r \in Nat PROVE Worth(order, r, p * r)
                BY <1>3, <3>1, <3>2, CrossedWorth
            <4> QED
                BY <4>1, <4>2
        <3> QED
            BY <3>3 DEF p
    <2>3. /\ StateOK(w, T) /\ Len(w.orders) = Len(sofar.s.orders)
          /\ \A x \in 1..Len(sofar.s.orders) : w.orders[x].type = sofar.s.orders[x].type
          /\ \A x \in T : w.orders[x] = sofar.s.orders[x]
          /\ q \in Nat /\ q <= left
          /\ Serves(w, sofar.s, Len(sofar.s.orders)) /\ OnlyLevel(w.book, b, side, price)
        <3> DEFINE p == price
                   d == done
                   r == sofar.s
        <3>1. /\ StateOK(r, T) /\ p \in Prices /\ Takes(w, r, side, p, left, d)
              /\ q = SizeOf(d.taken)
            BY <1>1, <2>2 DEF Takes
        <3> HIDE DEF p, d, r, side, left, w, q
        <3>2. /\ StateOK(w, T) /\ Len(w.orders) = Len(r.orders)
              /\ \A x \in 1..Len(r.orders) : w.orders[x].type = r.orders[x].type
              /\ \A x \in T : w.orders[x] = r.orders[x]
              /\ SizeOf(d.taken) \in Nat /\ SizeOf(d.taken) <= left
              /\ Serves(w, r, Len(r.orders)) /\ OnlyLevel(w.book, r.book, side, p)
            BY <1>2, <1>4, <3>1, LevelTaken
        <3> QED
            BY <3>1, <3>2 DEF r, p
    <2>31. Reached(w, s, side, Len(s.orders))
        <3> DEFINE r == sofar.s
                   n == Len(r.orders)
        <3>1. DOMAIN b.levels[side] # {} /\ price = BestPrice(b, side) /\ n \in Nat
            BY <1>1, <1>6, StateFacts DEF Crossable, HasTouch
        <3>2. Serves(w, r, n) /\ OnlyLevel(w.book, b, side, price)
            BY <2>3
        <3> HIDE DEF w, q, price, side, n, b
        <3>3. BestFirst(w.book, b, n, side)
            BY <1>2, <1>3, <3>1, <3>2, BestLevel
        <3>4. Reached(w, r, side, n) /\ Reached(r, s, side, n) /\ n = Len(s.orders)
            BY <1>1, <3>2, <3>3 DEF Reached, n, b
        <3> HIDE DEF r
        <3> QED
            BY <1>2, <3>4, ReachedTwice
    <2> DEFINE v == price * q
    <2>4. Worth(order, q, v)
        BY <2>2, <2>3, ZenonT(30)
    <2>41. Reached(w, s, Opposite(order.side), Len(s.orders))
        BY <2>31
    <2> HIDE DEF w, q, v
    <2>5. g.s = w /\ g.total = total + q /\ g.value = sofar.value + v
        BY <2>1 DEF v
    <2> HIDE DEF price, side, b, done, more
    <2>6. Worth(order, total + q, sofar.value + v)
        BY <1>1, <1>2, <2>4, WorthMore
    <2>7. total + q <= Remaining(order)
        BY <1>1, <2>3
    <2>8. /\ Len(w.orders) = Len(s.orders)
          /\ \A x \in 1..Len(s.orders) : w.orders[x].type = s.orders[x].type
          /\ \A x \in T : w.orders[x] = s.orders[x]
        BY <1>1, <2>3
    <2> HIDE DEF total
    <2> QED
        BY <2>3, <2>5, <2>6, <2>7, <2>8, <2>41 DEF Taking
<1> QED
    BY <1>5, <1>6

(* An order that takes fills once, whatever it met.                        *)
LEMMA TakerFilled ==
    ASSUME NEW s, NEW T, StateOK(s, T), NEW id \in T, NEW q \in Nat \ {0}, NEW v,
           q <= Remaining(s.orders[id]), Worth(s.orders[id], q, v),
           NEW s2, s2 = Tell(FillOrder(s, id, q, v), id, q)
    PROVE  /\ StateOK(s2, T) /\ Len(s2.orders) = Len(s.orders)
           /\ \A x \in 1..Len(s.orders) :
                 /\ s2.orders[x].type = s.orders[x].type
                 /\ x # id => s2.orders[x] = s.orders[x]
           /\ s2.orders[id].side = s.orders[id].side /\ s2.orders[id].tif = s.orders[id].tif
           /\ s2.orders[id].limit = s.orders[id].limit
           /\ \A x \in 1..Len(s.orders) : Lasts(s2.orders[x], s.orders[x])
           /\ s2.book = s.book
<1> DEFINE o == s.orders[id]
           o2 == Advanced(o, q, v)
<1>1. /\ OrdersOK(s) /\ LedgerOK(s) /\ BookOK(s.book)
      /\ T \subseteq 1..Len(s.orders) /\ \A x \in T : s.orders[x].status # "CANCELLED"
      /\ Listed(s, T) /\ Resting(s, T)
      /\ \A x \in DOMAIN s.limitQueueIds : InBook(s, x) = Remaining(s.orders[x])
    BY DEF StateOK, Sane
<1>2. /\ id \in 1..Len(s.orders) /\ v \in Nat /\ Fair(o, q, v)
      /\ q * Min(Prices) <= v /\ v <= q * Max(Prices)
    BY <1>1 DEF Worth
<1>3. Fillable(s, id, q, v)
    BY <1>2 DEF Fillable
<1>4. OrdersOK(s2) /\ LedgerOK(s2) /\ Fills(s2, s, id, q, v)
    BY <1>1, <1>3, FillOK
<1>5. OrderOK(o)
    BY <1>1, <1>2, OrderFacts
<1>6. /\ o2.type = o.type /\ o2.side = o.side /\ o2.tif = o.tif /\ o2.limit = o.limit
      /\ o2.status # "CANCELLED" /\ o2.quantity = o.quantity
    <2> DEFINE a == o2
    <2>1. a = Advanced(o, q, v) /\ q <= Remaining(o)
        OBVIOUS
    <2> HIDE DEF a, o, o2
    <2>2. /\ a.type = o.type /\ a.side = o.side /\ a.tif = o.tif /\ a.limit = o.limit
          /\ a.status # "CANCELLED" /\ a.quantity = o.quantity
        BY <1>2, <1>5, <2>1, AdvancedOK
    <2> QED
        BY <2>2 DEF a
<1>7. /\ s2.orders[id] = o2 /\ Len(s2.orders) = Len(s.orders)
      /\ \A x \in 1..Len(s.orders) : x # id => s2.orders[x] = s.orders[x]
      /\ s2.symbolOrders = s.symbolOrders /\ s2.limitQueueIds = s.limitQueueIds /\ s2.book = s.book
    BY <1>4 DEF Fills
<1> HIDE DEF o2
<1>8. Listed(s2, T)
    <2>1. {x \in 1..Len(s.orders) : Active(s.orders[x]) \/ x \in T}
             = {x \in 1..Len(s.orders) : Active(s2.orders[x]) \/ x \in T}
        BY <1>7
    <2> QED
        BY <1>1, <1>7, <2>1 DEF Listed
<1>9. /\ DOMAIN s.limitQueueIds =
            {x \in 1..Len(s.orders) : /\ s.orders[x].type = "LIMIT"
                                      /\ Active(s.orders[x]) /\ x \notin T}
      /\ \A x \in DOMAIN s.limitQueueIds :
            s2.orders[x] = s.orders[x] /\ InBook(s2, x) = InBook(s, x)
    <2>1. DOMAIN s.limitQueueIds =
            {x \in 1..Len(s.orders) : /\ s.orders[x].type = "LIMIT"
                                      /\ Active(s.orders[x]) /\ x \notin T}
        BY <1>1 DEF Resting
    <2>2. \A x \in DOMAIN s.limitQueueIds : s2.orders[x] = s.orders[x]
        BY <1>7, <2>1
    <2> QED
        BY <1>7, <2>1, <2>2 DEF InBook
<1>10. Resting(s2, T)
    <2>1. DOMAIN s2.limitQueueIds =
            {x \in 1..Len(s2.orders) : /\ s2.orders[x].type = "LIMIT"
                                       /\ Active(s2.orders[x]) /\ x \notin T}
        BY <1>7, <1>9
    <2> QED
        BY <1>1, <1>7, <1>9, <2>1 DEF Resting
<1>11. \A x \in T : s2.orders[x].status # "CANCELLED"
    BY <1>1, <1>6, <1>7
<1>12. StateOK(s2, T)
    BY <1>1, <1>4, <1>7, <1>8, <1>9, <1>10, <1>11 DEF StateOK, Sane
<1>13. Active(o)
    <2>1. o.status \in {"PENDING", "PARTIALLY_FILLED", "FILLED", "CANCELLED"}
        BY <1>5 DEF OrderOK, OrderRecords
    <2>2. o.status # "CANCELLED"
        BY <1>1
    <2>3. ~Filled(o)
        <3>1. Remaining(o) \in Nat /\ (Remaining(o) = 0 <=> Filled(o))
            BY <1>1, <1>2, OrderFacts
        <3>2. q <= Remaining(o)
            OBVIOUS
        <3> HIDE DEF o
        <3> QED
            BY <3>1, <3>2
    <2> QED
        BY <2>1, <2>2, <2>3 DEF Active, Filled
<1>14. \A x \in 1..Len(s.orders) : Lasts(s2.orders[x], s.orders[x])
    BY <1>6, <1>7, <1>13 DEF Lasts
<1> QED
    BY <1>6, <1>7, <1>12, <1>14

(* take_liquidity keeps the state in order; the taker alone is in mid-     *)
(* call.                                                                   *)
LEMMA TakenLiquidity ==
    ASSUME NEW s, NEW T, StateOK(s, T), NEW id \in T, NEW s2, s2 = TakeLiquidity(s, id)
    PROVE  /\ StateOK(s2, T) /\ Len(s2.orders) = Len(s.orders)
           /\ \A x \in 1..Len(s.orders) : s2.orders[x].type = s.orders[x].type
           /\ s2.orders[id].side = s.orders[id].side /\ s2.orders[id].tif = s.orders[id].tif
           /\ s2.orders[id].limit = s.orders[id].limit
           /\ Reached(s2, s, Opposite(s.orders[id].side), Len(s.orders))
<1> DEFINE order == s.orders[id]
           side == Opposite(order.side)
           n == Cardinality(DOMAIN s.book.levels[side])
           start == [s |-> s, total |-> 0, value |-> 0]
           rounds == [round \in 1..n |-> round]
           done == TakeRounds(start, order, rounds)
<1>1. /\ OrdersOK(s) /\ BookOK(s.book) /\ T \subseteq 1..Len(s.orders)
    BY DEF StateOK, Sane
<1>2. OrderOK(order) /\ Remaining(order) \in Nat /\ order.limit \in Nat
    BY <1>1, OrderFacts DEF OrderOK, OrderRecords
<1>3. n \in Nat
    <2>1. side \in Sides
        BY DEF Opposite, Sides
    <2> DEFINE M == DOMAIN s.book.levels[side]
    <2>2. M \subseteq Prices
        BY <1>1, <2>1 DEF BookOK
    <2> HIDE DEF M
    <2>3. IsFiniteSet(M)
        <3>1. CASE M = {}
            BY <3>1, FS_EmptySet
        <3>2. CASE M # {}
            BY <2>2, <3>2, LargestIn
        <3> QED
            BY <3>1, <3>2
    <2> QED
        BY <2>3, FS_CardinalityType DEF M
<1>4. DOMAIN rounds = 1..n
    OBVIOUS
<1>5. s2 = IF done.total = 0 THEN done.s
           ELSE Tell(FillOrder(done.s, id, done.total, done.value), id, done.total)
    BY DEF TakeLiquidity
<1>6. Taking(start, s, T, order)
    <2>1. Worth(order, 0, 0)
        BY <1>2, WorthNone
    <2>2. 0 <= Remaining(order)
        BY <1>2
    <2>3. Reached(s, s, side, Len(s.orders))
        <3>1. Len(s.orders) \in Nat /\ IsBook(s.book) /\ side \in Sides
            BY <1>1, OrderFacts DEF BookOK, Opposite, Sides
        <3>2. Untouched(s, s, Len(s.orders))
            BY <3>1 DEF Untouched
        <3> QED
            BY <3>1, <3>2, UntouchedServes
    <2> QED
        BY <2>1, <2>2, <2>3 DEF Taking
<1> HIDE DEF n, start, rounds, side
<1>7. PICK h : Rounds!Runs(h, order, start, rounds, n) /\ done = h[n]
    BY <1>3, <1>4, RoundRuns
<1> HIDE DEF done, order
<1>8. h[0] = start /\ \A i \in 1..n : h[i] = TakeBestLevel(h[i - 1], order)
    BY <1>7 DEF Rounds!Runs
<1> DEFINE K == {i \in 0..n : Taking(h[i], s, T, order)}
<1>9. 0 \in K
    BY <1>3, <1>6, <1>8
<1>10. ASSUME NEW i \in 0..(n - 1), i \in K PROVE i + 1 \in K
    <2> DEFINE x == h[i]
               y == h[i + 1]
    <2>1. i + 1 \in 1..n /\ i + 1 \in 0..n /\ (i + 1) - 1 = i /\ Taking(x, s, T, order)
        BY <1>3, <1>10
    <2>2. y = TakeBestLevel(x, order)
        BY <1>8, <2>1
    <2> HIDE DEF x, y, K
    <2>3. Taking(y, s, T, order)
        BY <1>1, <1>2, <2>1, <2>2, TakingStep
    <2> QED
        BY <2>1, <2>3 DEF K, y
<1>11. n \in K
    <2> HIDE DEF K
    <2>1. \A k \in 0..n : k \in K
        BY <1>3, <1>9, <1>10, Induction
    <2> QED
        BY <1>3, <2>1
<1>12. Taking(done, s, T, order)
    BY <1>7, <1>11
<1> HIDE DEF K
<1> DEFINE w == done.s
           q == done.total
           v == done.value
<1>13. /\ StateOK(w, T) /\ Len(w.orders) = Len(s.orders)
       /\ \A x \in 1..Len(s.orders) : w.orders[x].type = s.orders[x].type
       /\ \A x \in T : w.orders[x] = s.orders[x]
       /\ Worth(w.orders[id], q, v) /\ q <= Remaining(w.orders[id]) /\ q \in Nat
       /\ Reached(w, s, Opposite(s.orders[id].side), Len(s.orders))
    BY <1>12 DEF Taking, Worth, order
<1>14. s2 = IF q = 0 THEN w ELSE Tell(FillOrder(w, id, q, v), id, q)
    BY <1>5
<1> HIDE DEF w, q, v
<1>15. CASE q = 0
    BY <1>13, <1>14, <1>15
<1>16. CASE q # 0
    <2>1. q \in Nat \ {0} /\ s2 = Tell(FillOrder(w, id, q, v), id, q)
        BY <1>13, <1>14, <1>16
    <2>2. /\ StateOK(s2, T) /\ Len(s2.orders) = Len(w.orders)
          /\ \A x \in 1..Len(w.orders) :
                /\ s2.orders[x].type = w.orders[x].type
                /\ x # id => s2.orders[x] = w.orders[x]
          /\ s2.orders[id].side = w.orders[id].side /\ s2.orders[id].tif = w.orders[id].tif
          /\ s2.orders[id].limit = w.orders[id].limit
          /\ \A x \in 1..Len(w.orders) : Lasts(s2.orders[x], w.orders[x])
          /\ s2.book = w.book
        BY <1>13, <2>1, TakerFilled
    <2>3. Reached(s2, s, Opposite(s.orders[id].side), Len(s.orders))
        <3> DEFINE m == Len(s.orders)
                   sd == Opposite(s.orders[id].side)
        <3>1. /\ Len(w.orders) = m /\ Len(s2.orders) = m /\ m \in Nat
              /\ Serves(w, s, m) /\ BestFirst(w.book, s.book, m, sd)
            BY <1>1, <1>13, <2>2, OrderFacts DEF Reached
        <3>2. IsBook(w.book)
            BY <1>13, StateFacts DEF BookOK
        <3> HIDE DEF m, sd
        <3>3. Served(w.book, w.book, m)
            BY <3>2, ServedSame
        <3>4. Serves(s2, w, m)
            BY <2>2, <3>1, <3>3 DEF Serves
        <3>5. Serves(s2, s, m)
            BY <3>1, <3>4, ServesTwice
        <3> QED
            BY <2>2, <3>1, <3>5 DEF Reached, m, sd
    <2> QED
        BY <1>13, <2>2, <2>3
<1> QED
    BY <1>15, <1>16

-----------------------------------------------------------------------------
(* Submitting and cancelling *)

(* The orders that rest, and what is known of each.                        *)
LEMMA RestingFacts ==
    ASSUME NEW s, NEW T, Resting(s, T)
    PROVE  /\ DOMAIN s.limitQueueIds =
                 {id \in 1..Len(s.orders) : /\ s.orders[id].type = "LIMIT"
                                            /\ Active(s.orders[id]) /\ id \notin T}
           /\ \A id \in DOMAIN s.limitQueueIds :
                 /\ s.orders[id].tif # "IOC"
                 /\ InBook(s, id) # 0 => /\ s.limitQueueIds[id] \in DOMAIN s.book.orderOf
                                         /\ s.book.orderOf[s.limitQueueIds[id]] = id
                 /\ \A sd \in Sides : \A p : Size(s.book, sd, p, id) # 0 =>
                       sd = s.orders[id].side /\ p = s.orders[id].limit
           /\ \A x : Queued(s.book, x) => x \in DOMAIN s.limitQueueIds \/ x \in Quotes
BY DEF Resting

(* The order o is submitted, and called id.                                *)
Submits(s2, s, o, id) ==
    /\ StateOK(s, {}) /\ OrderOK(o) /\ o.filled = 0 /\ o.value = 0 /\ o.status = "PENDING"
    /\ id = NextOrderId(s) /\ s2 = AddOrderToBook(s, o)

(* A submitted order is listed, and takes.                                 *)
LEMMA Admitted ==
    ASSUME NEW s, NEW o, NEW id, NEW s2, Submits(s2, s, o, id)
    PROVE  /\ StateOK(s2, {id}) /\ s2.orders[id] = o /\ Len(s2.orders) = Len(s.orders) + 1
           /\ id = Len(s2.orders) /\ Untouched(s2, s, Len(s.orders))
<1> DEFINE n == Len(s.orders)
<1>0. /\ StateOK(s, {}) /\ OrderOK(o) /\ o.filled = 0 /\ o.value = 0 /\ o.status = "PENDING"
      /\ id = NextOrderId(s) /\ s2 = AddOrderToBook(s, o)
    BY DEF Submits
<1>1. /\ OrdersOK(s) /\ LedgerOK(s) /\ BookOK(s.book) /\ Listed(s, {}) /\ Resting(s, {})
      /\ \A x \in DOMAIN s.limitQueueIds : InBook(s, x) = Remaining(s.orders[x])
      /\ n \in Nat
    BY <1>0, StateFacts
<1>2. /\ OrdersOK(s2) /\ LedgerOK(s2) /\ Len(s2.orders) = n + 1
      /\ s2.orders[n + 1] = o /\ \A x \in 1..n : s2.orders[x] = s.orders[x]
      /\ s2.symbolOrders = Append(s.symbolOrders, n + 1)
      /\ s2.limitQueueIds = s.limitQueueIds /\ s2.book = s.book
    BY <1>0, <1>1, OrderAdded
<1>3. id = n + 1
    BY <1>0 DEF NextOrderId
<1> HIDE DEF n
<1>4. \A x : x \in 1..(n + 1) <=> x \in 1..n \/ x = id
    BY <1>1, <1>3
<1>5. id \notin 1..n /\ id \in Int
    BY <1>1, <1>3
<1>6. Listed(s2, {id})
    <2>1. /\ s.symbolOrders \in Seq(Int) /\ Rising(s.symbolOrders)
          /\ ToSet(s.symbolOrders) = {x \in 1..n : Active(s.orders[x])}
        BY <1>1 DEF Listed, n
    <2>2. \A y \in ToSet(s.symbolOrders) : y < id
        BY <1>1, <1>3, <2>1
    <2> DEFINE l == s.symbolOrders
    <2>3. l \in Seq(Int) /\ Rising(l) /\ \A y \in ToSet(l) : y < id
        BY <2>1, <2>2
    <2> HIDE DEF l
    <2>4. /\ Append(l, id) \in Seq(Int) /\ Rising(Append(l, id))
          /\ ToSet(Append(l, id)) = ToSet(l) \cup {id}
        BY <1>5, <2>3, RisingAppend
    <2>5. s2.symbolOrders = Append(l, id)
        BY <1>2, <1>3 DEF l
    <2>6. ToSet(s2.symbolOrders) = {x \in 1..(n + 1) : Active(s2.orders[x]) \/ x \in {id}}
        BY <1>2, <1>4, <1>5, <2>1, <2>4, <2>5 DEF l
    <2> QED
        BY <1>2, <2>4, <2>5, <2>6 DEF Listed
<1>7. /\ DOMAIN s.limitQueueIds =
            {x \in 1..n : s.orders[x].type = "LIMIT" /\ Active(s.orders[x]) /\ x \notin {}}
      /\ \A x \in DOMAIN s.limitQueueIds :
            x \in 1..n /\ s2.orders[x] = s.orders[x] /\ InBook(s2, x) = InBook(s, x)
    BY <1>1, <1>2, RestingFacts DEF InBook, n
<1>8. Resting(s2, {id})
    <2>1. DOMAIN s2.limitQueueIds =
            {x \in 1..(n + 1) : /\ s2.orders[x].type = "LIMIT"
                                /\ Active(s2.orders[x]) /\ x \notin {id}}
        BY <1>2, <1>4, <1>5, <1>7
    <2> QED
        BY <1>1, <1>2, <1>7, <2>1, RestingFacts DEF Resting
<1>9. {id} \subseteq 1..Len(s2.orders) /\ s2.orders[id] = o
    BY <1>2, <1>3, <1>4
<1>10. StateOK(s2, {id})
    BY <1>0, <1>1, <1>2, <1>6, <1>7, <1>8, <1>9 DEF StateOK, Sane
<1>11. id = Len(s2.orders) /\ Untouched(s2, s, n)
    <2>1. IsBook(s.book) /\ n <= n + 1 /\ n <= Len(s.orders)
        BY <1>1 DEF BookOK, n
    <2> QED
        BY <1>1, <1>2, <1>3, <2>1 DEF Untouched
<1> QED
    BY <1>2, <1>9, <1>10, <1>11 DEF n

(* Live market orders may begin or stop to count as takers.                *)
LEMMA MarketTakers ==
    ASSUME NEW s, NEW T, StateOK(s, T), NEW T2, T2 \subseteq 1..Len(s.orders),
           \A x \in T \cup T2 : s.orders[x].type = "MARKET" /\ Active(s.orders[x])
    PROVE  StateOK(s, T2)
<1>1. /\ OrdersOK(s) /\ LedgerOK(s) /\ BookOK(s.book) /\ Listed(s, T) /\ Resting(s, T)
      /\ T \subseteq 1..Len(s.orders)
      /\ \A id \in DOMAIN s.limitQueueIds : InBook(s, id) = Remaining(s.orders[id])
    BY StateFacts
<1>2. \A x \in T2 : s.orders[x].status # "CANCELLED"
    BY DEF Active
<1>3. Listed(s, T2)
    <2>1. {id \in 1..Len(s.orders) : Active(s.orders[id]) \/ id \in T}
            = {id \in 1..Len(s.orders) : Active(s.orders[id]) \/ id \in T2}
        OBVIOUS
    <2> QED
        BY <1>1, <2>1 DEF Listed
<1>4. Resting(s, T2)
    <2>1. {id \in 1..Len(s.orders) : /\ s.orders[id].type = "LIMIT"
                                     /\ Active(s.orders[id]) /\ id \notin T}
            = {id \in 1..Len(s.orders) : /\ s.orders[id].type = "LIMIT"
                                         /\ Active(s.orders[id]) /\ id \notin T2}
        OBVIOUS
    <2> QED
        BY <1>1, <2>1, RestingFacts DEF Resting
<1> QED
    BY <1>1, <1>2, <1>3, <1>4 DEF StateOK, Sane

(* Filled takers leave the list.                                           *)
LEMMA TakersUnlisted ==
    ASSUME NEW s, NEW T, StateOK(s, T), NEW ids \in SUBSET T, \A x \in ids : Filled(s.orders[x]),
           NEW T2, T2 = T \ ids, NEW s2, s2 = Unlist(s, ids)
    PROVE  StateOK(s2, T2) /\ s2.orders = s.orders /\ Untouched(s2, s, Len(s.orders))
<1>1. /\ OrdersOK(s) /\ LedgerOK(s) /\ BookOK(s.book) /\ Listed(s, T) /\ Resting(s, T)
      /\ T \subseteq 1..Len(s.orders) /\ \A id \in T : s.orders[id].status # "CANCELLED"
      /\ \A id \in DOMAIN s.limitQueueIds : InBook(s, id) = Remaining(s.orders[id])
    BY StateFacts
<1>2. /\ OrdersOK(s2) /\ LedgerOK(s2)
      /\ s2.orders = s.orders /\ s2.limitQueueIds = s.limitQueueIds /\ s2.book = s.book
      /\ s2.symbolOrders = Kept(s.symbolOrders, ToSet(s.symbolOrders) \ ids)
    <2>1. OrdersOK(s) /\ LedgerOK(s)
        BY <1>1
    <2> QED
        BY ONLY <2>1, UnlistedFields, s2 = Unlist(s, ids), ZenonT(60)
<1>3. \A x \in ids : ~Active(s.orders[x])
    BY DEF Filled, Active
<1>4. Listed(s2, T2)
    <2>1. /\ s.symbolOrders \in Seq(Int) /\ Rising(s.symbolOrders)
          /\ ToSet(s.symbolOrders) = {x \in 1..Len(s.orders) : Active(s.orders[x]) \/ x \in T}
        BY <1>1 DEF Listed
    <2> DEFINE l == s.symbolOrders
               k == Kept(l, ToSet(l) \ ids)
    <2>2. l \in Seq(Int) /\ Rising(l)
        BY <2>1
    <2> HIDE DEF l
    <2>3. k \in Seq(Int) /\ Rising(k) /\ ToSet(k) = ToSet(l) \ ids
        BY <2>2, KeptListed
    <2>4. s2.symbolOrders = k
        BY <1>2 DEF l
    <2> HIDE DEF k
    <2>5. ToSet(k) = {x \in 1..Len(s.orders) : Active(s.orders[x]) \/ x \in T2}
        BY <1>3, <2>1, <2>3 DEF l
    <2> QED
        BY <1>2, <2>3, <2>4, <2>5 DEF Listed
<1>5. Resting(s2, T2)
    <2>1. DOMAIN s.limitQueueIds =
            {x \in 1..Len(s.orders) : /\ s.orders[x].type = "LIMIT"
                                      /\ Active(s.orders[x]) /\ x \notin T}
        BY <1>1, RestingFacts
    <2>2. DOMAIN s.limitQueueIds =
            {x \in 1..Len(s.orders) : /\ s.orders[x].type = "LIMIT"
                                      /\ Active(s.orders[x]) /\ x \notin T2}
        BY <1>3, <2>1
    <2>3. \A x : InBook(s2, x) = InBook(s, x)
        BY <1>2 DEF InBook
    <2> QED
        BY <1>1, <1>2, <2>2, <2>3, RestingFacts DEF Resting
<1>6. \A x \in DOMAIN s2.limitQueueIds : InBook(s2, x) = Remaining(s2.orders[x])
    BY <1>1, <1>2 DEF InBook
<1>7. Untouched(s2, s, Len(s.orders))
    <2>1. Len(s.orders) \in Nat /\ IsBook(s.book)
        BY <1>1, OrderFacts DEF BookOK
    <2> QED
        BY <1>2, <2>1 DEF Untouched
<1> QED
    BY <1>1, <1>2, <1>4, <1>5, <1>6, <1>7 DEF StateOK, Sane

(* id is out of the book, where nothing else has moved.                    *)
Pulled(b2, b, id) ==
    /\ BookOK(b2) /\ ~Queued(b2, id)
    /\ \A sd \in Sides : \A p, x : x # id => Size(b2, sd, p, x) = Size(b, sd, p, x)
    /\ \A q \in DOMAIN b.orderOf : b.orderOf[q] # id =>
          q \in DOMAIN b2.orderOf /\ b2.orderOf[q] = b.orderOf[q]

(* Out of the queue, and with it the level when it was the last order      *)
(* there.                                                                  *)
LEMMA QueuePulled ==
    ASSUME NEW b, BookOK(b), NEW side \in Sides, NEW price, NEW id,
           NEW qid \in DOMAIN b.orderOf, b.orderOf[qid] = id,
           \A sd \in Sides : \A p : Size(b, sd, p, id) # 0 => sd = side /\ p = price,
           NEW b2, b2 = RemoveLevelIfEmpty(CancelQueued(b, qid), side, price)
    PROVE  Pulled(b2, b, id)
<1>1. IsBook(b) /\ IdsMatch(b) /\ NoEmptyLevel(b)
    BY DEF BookOK
<1>2. Removed(b2, b, side, price, id, qid) /\ NoEmptyLevel(b2)
    BY <1>1, CancelRemoves
<1>3. Shrunk(b2, b, side, price)
    BY <1>1, <1>2, RemovedShrunk
<1>4. BookOK(b2)
    BY <1>2, <1>3, ShrunkOK
<1>5. /\ OnlyLevel(b2, b, side, price)
      /\ Size(b2, side, price, id) = 0
      /\ \A x : x # id => Size(b2, side, price, x) = Size(b, side, price, x)
      /\ b2.orderOf = Without(b.orderOf, qid)
    BY <1>2 DEF Removed
<1>6. ASSUME NEW sd \in Sides, NEW p, sd # side \/ p # price, NEW x
      PROVE  Size(b2, sd, p, x) = Size(b, sd, p, x)
    BY <1>5, <1>6, SameSize
<1>7. \A sd \in Sides : \A p, x : x # id => Size(b2, sd, p, x) = Size(b, sd, p, x)
    <2> SUFFICES ASSUME NEW sd \in Sides, NEW p, NEW x, x # id
                 PROVE  Size(b2, sd, p, x) = Size(b, sd, p, x)
        OBVIOUS
    <2>1. CASE sd = side /\ p = price
        BY <1>5, <2>1
    <2>2. CASE sd # side \/ p # price
        BY <1>6, <2>2
    <2> QED
        BY <2>1, <2>2
<1>8. ~Queued(b2, id)
    <2> SUFFICES ASSUME NEW sd \in Sides, NEW p, Size(b2, sd, p, id) # 0 PROVE FALSE
        BY DEF Queued
    <2>1. sd # side \/ p # price
        BY <1>5
    <2>2. Size(b, sd, p, id) # 0
        BY <1>6, <2>1
    <2> QED
        BY <2>1, <2>2
<1>9. \A q \in DOMAIN b.orderOf : b.orderOf[q] # id =>
         q \in DOMAIN b2.orderOf /\ b2.orderOf[q] = b.orderOf[q]
    BY <1>5 DEF Without
<1> QED
    BY <1>4, <1>7, <1>8, <1>9 DEF Pulled

(* id is out of the queues and of the list, and cancelled.                 *)
Dropped(s2, s, id) ==
    /\ OrdersOK(s2) /\ LedgerOK(s2) /\ Len(s2.orders) = Len(s.orders)
    /\ s2.orders[id].status = "CANCELLED" /\ s2.orders[id].filled = s.orders[id].filled
    /\ \A x \in 1..Len(s.orders) : x # id => s2.orders[x] = s.orders[x]
    /\ Pulled(s2.book, s.book, id)
    /\ DOMAIN s2.limitQueueIds = DOMAIN s.limitQueueIds \ {id}
    /\ \A x \in DOMAIN s2.limitQueueIds : s2.limitQueueIds[x] = s.limitQueueIds[x]
    /\ s2.symbolOrders \in Seq(Int) /\ Rising(s2.symbolOrders)
    /\ ToSet(s2.symbolOrders) = ToSet(s.symbolOrders) \ {id}

(* cancel_order takes the order from the book and from the list, and       *)
(* nothing else.                                                           *)
LEMMA OrderDropped ==
    ASSUME NEW s, NEW T, StateOK(s, T), NEW id \in 1..Len(s.orders), ~Filled(s.orders[id]),
           NEW s2, s2 = WithCancelled(s, id)
    PROVE  Dropped(s2, s, id)
<1> DEFINE c == SetStatus(s, id, "CANCELLED")
           p == PullFromQueue(c, id)
<1>1. /\ OrdersOK(s) /\ LedgerOK(s) /\ BookOK(s.book) /\ Listed(s, T) /\ Resting(s, T)
      /\ T \subseteq 1..Len(s.orders)
      /\ \A x \in DOMAIN s.limitQueueIds : InBook(s, x) = Remaining(s.orders[x])
    BY StateFacts
<1>2. /\ OrdersOK(c) /\ LedgerOK(c) /\ Len(c.orders) = Len(s.orders)
      /\ c.orders[id].status = "CANCELLED" /\ c.orders[id].filled = s.orders[id].filled
      /\ c.orders[id].side = s.orders[id].side /\ c.orders[id].limit = s.orders[id].limit
      /\ \A x \in 1..Len(s.orders) : x # id => c.orders[x] = s.orders[x]
      /\ c.symbolOrders = s.symbolOrders /\ c.limitQueueIds = s.limitQueueIds
      /\ c.book = s.book
    BY <1>1, CancelledOK
<1>3. s2 = Unlist(p, {id})
    BY DEF WithCancelled, RemoveOrderFromBook
<1> HIDE DEF c
<1>4. /\ p.orders = c.orders /\ OrdersOK(p) /\ LedgerOK(p) /\ p.symbolOrders = s.symbolOrders
      /\ Pulled(p.book, s.book, id)
      /\ DOMAIN p.limitQueueIds = DOMAIN s.limitQueueIds \ {id}
      /\ \A x \in DOMAIN p.limitQueueIds : p.limitQueueIds[x] = s.limitQueueIds[x]
    <2>1. CASE id \notin DOMAIN s.limitQueueIds
        <3>1. p = c
            BY <1>2, <2>1 DEF PullFromQueue
        <3> HIDE DEF p
        <3>2. id \notin Quotes
            <4>1. "BUY" \in Sides
                BY DEF Sides
            <4> QED
                BY <4>1, QuoteSides
        <3>3. ~Queued(s.book, id)
            BY <1>1, <2>1, <3>2, RestingFacts
        <3>4. Pulled(s.book, s.book, id)
            BY <1>1, <3>3 DEF Pulled
        <3> QED
            BY <1>2, <2>1, <3>1, <3>4
    <2>2. CASE id \in DOMAIN s.limitQueueIds
        <3> DEFINE b == s.book
                   qid == s.limitQueueIds[id]
                   side == s.orders[id].side
                   price == s.orders[id].limit
                   b2 == RemoveLevelIfEmpty(CancelQueued(b, qid), side, price)
        <3>1. p = [c EXCEPT !.book = b2, !.limitQueueIds = Without(@, id)]
            <4>1. p = [c EXCEPT
                         !.book = RemoveLevelIfEmpty(CancelQueued(@, c.limitQueueIds[id]),
                                                     c.orders[id].side, c.orders[id].limit),
                         !.limitQueueIds = Without(@, id)]
                BY <1>2, <2>2 DEF PullFromQueue
            <4> HIDE DEF p
            <4> QED
                BY <1>2, <4>1
        <3>2. side \in Sides /\ Remaining(s.orders[id]) # 0
            BY <1>1, OrderFacts
        <3>3. /\ qid \in DOMAIN b.orderOf /\ b.orderOf[qid] = id
              /\ \A sd \in Sides : \A pr : Size(b, sd, pr, id) # 0 => sd = side /\ pr = price
            <4>1. InBook(s, id) # 0
                BY <1>1, <2>2, <3>2
            <4> QED
                BY <1>1, <2>2, <4>1, RestingFacts
        <3>4. BookOK(b)
            BY <1>1
        <3> DEFINE B2 == b2
        <3>5. B2 = RemoveLevelIfEmpty(CancelQueued(b, qid), side, price)
            OBVIOUS
        <3> HIDE DEF b, qid, side, price, B2
        <3>6. Pulled(B2, b, id)
            BY <3>2, <3>3, <3>4, <3>5, QueuePulled
        <3>7. p = [c EXCEPT !.book = B2, !.limitQueueIds = Without(@, id)]
            BY <3>1 DEF B2
        <3> HIDE DEF b2, p
        <3>8. /\ DOMAIN p = Fields /\ p.orders = c.orders /\ p.told = c.told /\ p.cash = c.cash
              /\ p.position = c.position /\ p.book = B2 /\ p.symbolOrders = c.symbolOrders
              /\ p.limitQueueIds = Without(s.limitQueueIds, id)
            BY <1>2, <3>7 DEF Fields, OrdersOK
        <3>9. OrdersOK(p) /\ LedgerOK(p)
            BY <1>2, <3>8, SameLedger
        <3>10. /\ DOMAIN p.limitQueueIds = DOMAIN s.limitQueueIds \ {id}
               /\ \A x \in DOMAIN p.limitQueueIds : p.limitQueueIds[x] = s.limitQueueIds[x]
            BY <3>8 DEF Without
        <3> QED
            BY <1>2, <3>6, <3>8, <3>9, <3>10 DEF b
    <2> QED
        BY <2>1, <2>2
<1> HIDE DEF p
<1> DEFINE ids == {id}
<1>5. s2 = Unlist(p, ids)
    BY <1>3
<1> HIDE DEF ids
<1>6. /\ OrdersOK(s2) /\ LedgerOK(s2)
      /\ s2.orders = p.orders /\ s2.limitQueueIds = p.limitQueueIds /\ s2.book = p.book
      /\ s2.symbolOrders = Kept(p.symbolOrders, ToSet(p.symbolOrders) \ ids)
    <2>1. OrdersOK(p) /\ LedgerOK(p)
        BY <1>4
    <2> QED
        BY ONLY <1>5, <2>1, UnlistedFields, ZenonT(60)
<1>7. /\ s2.symbolOrders \in Seq(Int) /\ Rising(s2.symbolOrders)
      /\ ToSet(s2.symbolOrders) = ToSet(s.symbolOrders) \ {id}
    <2> DEFINE l == s.symbolOrders
               k == Kept(l, ToSet(l) \ ids)
    <2>1. l \in Seq(Int) /\ Rising(l)
        BY <1>1 DEF Listed
    <2>2. s2.symbolOrders = k
        BY <1>4, <1>6
    <2> HIDE DEF l
    <2>3. k \in Seq(Int) /\ Rising(k) /\ ToSet(k) = ToSet(l) \ ids
        BY <2>1, KeptListed
    <2> HIDE DEF k
    <2> QED
        BY <2>2, <2>3 DEF l, ids
<1> QED
    BY <1>2, <1>4, <1>6, <1>7 DEF Dropped

(* Cancelling leaves the manager in order.                                 *)
LEMMA CancelledState ==
    ASSUME NEW s, NEW T, StateOK(s, T), NEW id \in 1..Len(s.orders), T \subseteq {id},
           ~Filled(s.orders[id]), NEW s2, s2 = WithCancelled(s, id)
    PROVE  /\ StateOK(s2, {}) /\ Len(s2.orders) = Len(s.orders)
           /\ \A m \in Nat : m < id => Untouched(s2, s, m)
<1> DEFINE n == Len(s.orders)
           none == {}
<1>1. /\ BookOK(s.book) /\ Listed(s, T) /\ Resting(s, T) /\ OrdersOK(s)
      /\ \A x \in DOMAIN s.limitQueueIds : InBook(s, x) = Remaining(s.orders[x])
    BY StateFacts
<1>2. Dropped(s2, s, id)
    BY OrderDropped
<1>3. /\ OrdersOK(s2) /\ LedgerOK(s2) /\ Len(s2.orders) = n
      /\ s2.orders[id].status = "CANCELLED"
      /\ \A x \in 1..n : x # id => s2.orders[x] = s.orders[x]
      /\ BookOK(s2.book) /\ ~Queued(s2.book, id)
      /\ \A sd \in Sides : \A p, x : x # id => Size(s2.book, sd, p, x) = Size(s.book, sd, p, x)
      /\ \A q \in DOMAIN s.book.orderOf : s.book.orderOf[q] # id =>
            q \in DOMAIN s2.book.orderOf /\ s2.book.orderOf[q] = s.book.orderOf[q]
      /\ DOMAIN s2.limitQueueIds = DOMAIN s.limitQueueIds \ {id}
      /\ \A x \in DOMAIN s2.limitQueueIds : s2.limitQueueIds[x] = s.limitQueueIds[x]
      /\ s2.symbolOrders \in Seq(Int) /\ Rising(s2.symbolOrders)
      /\ ToSet(s2.symbolOrders) = ToSet(s.symbolOrders) \ {id}
    BY <1>2 DEF Dropped, Pulled
<1>4. ~Active(s2.orders[id]) /\ id \in 1..n
    BY <1>3 DEF Active
<1>5. \A x \in 1..n : x # id => x \notin T
    OBVIOUS
<1>6. Listed(s2, none)
    <2>1. ToSet(s.symbolOrders) = {x \in 1..n : Active(s.orders[x]) \/ x \in T}
        BY <1>1 DEF Listed
    <2>2. ToSet(s2.symbolOrders) = {x \in 1..n : Active(s2.orders[x]) \/ x \in none}
        BY <1>3, <1>4, <1>5, <2>1
    <2> HIDE DEF n, none
    <2> QED
        BY <1>3, <2>2 DEF Listed
<1>7. /\ DOMAIN s.limitQueueIds =
            {x \in 1..n : s.orders[x].type = "LIMIT" /\ Active(s.orders[x]) /\ x \notin T}
      /\ \A x \in DOMAIN s.limitQueueIds :
            /\ s.orders[x].tif # "IOC"
            /\ InBook(s, x) # 0 => /\ s.limitQueueIds[x] \in DOMAIN s.book.orderOf
                                   /\ s.book.orderOf[s.limitQueueIds[x]] = x
            /\ \A sd \in Sides : \A p : Size(s.book, sd, p, x) # 0 =>
                  sd = s.orders[x].side /\ p = s.orders[x].limit
      /\ \A x : Queued(s.book, x) => x \in DOMAIN s.limitQueueIds \/ x \in Quotes
    <2>1. Resting(s, T)
        BY <1>1
    <2> QED
        BY ONLY <2>1 DEF Resting
<1>8. \A x \in DOMAIN s2.limitQueueIds :
         /\ x \in DOMAIN s.limitQueueIds /\ x # id /\ x \in 1..n
         /\ s2.orders[x] = s.orders[x] /\ s.orders[x].side \in Sides
         /\ InBook(s2, x) = InBook(s, x)
    <2>1. \A x \in 1..n : s.orders[x].side \in Sides
        BY <1>1, OrderFacts
    <2>2. \A x \in DOMAIN s2.limitQueueIds :
             /\ x \in DOMAIN s.limitQueueIds /\ x # id /\ x \in 1..n
             /\ s2.orders[x] = s.orders[x] /\ s.orders[x].side \in Sides
        BY <1>3, <1>7, <2>1
    <2> QED
        BY <1>3, <2>2 DEF InBook
<1>9. Resting(s2, none)
    <2>1. DOMAIN s2.limitQueueIds =
             {x \in 1..n : s2.orders[x].type = "LIMIT" /\ Active(s2.orders[x]) /\ x \notin none}
        BY <1>3, <1>4, <1>5, <1>7
    <2>2. ASSUME NEW x \in DOMAIN s2.limitQueueIds
          PROVE  /\ s2.orders[x].tif # "IOC"
                 /\ InBook(s2, x) # 0 => /\ s2.limitQueueIds[x] \in DOMAIN s2.book.orderOf
                                         /\ s2.book.orderOf[s2.limitQueueIds[x]] = x
                 /\ \A sd \in Sides : \A p : Size(s2.book, sd, p, x) # 0 =>
                       sd = s2.orders[x].side /\ p = s2.orders[x].limit
        BY <1>3, <1>7, <1>8, <2>2
    <2>3. \A x : Queued(s2.book, x) => x \in DOMAIN s2.limitQueueIds \/ x \in Quotes
        <3> SUFFICES ASSUME NEW x, Queued(s2.book, x) PROVE x \in DOMAIN s2.limitQueueIds \/ x \in Quotes
            OBVIOUS
        <3>1. x # id
            BY <1>3
        <3>2. Queued(s.book, x)
            BY <1>3, <3>1 DEF Queued
        <3> QED
            BY <1>3, <1>7, <3>1, <3>2
    <2> HIDE DEF n, none
    <2> QED
        BY <1>3, <2>1, <2>2, <2>3 DEF Resting, n
<1>10. \A x \in DOMAIN s2.limitQueueIds : InBook(s2, x) = Remaining(s2.orders[x])
    BY <1>1, <1>8
<1>11. ASSUME NEW m \in Nat, m < id PROVE Untouched(s2, s, m)
    <2>1. IsBook(s.book) /\ IsBook(s2.book) /\ n \in Nat
        BY <1>1, <1>3, OrderFacts DEF BookOK
    <2>2. m <= n /\ \A x \in 1..m : x \in 1..n /\ x # id
        BY <1>11, <2>1
    <2> HIDE DEF n
    <2>3. \A sd \in Sides : \A p : \A x \in 1..m : Size(s2.book, sd, p, x) = Size(s.book, sd, p, x)
        BY <1>3, <2>2
    <2> QED
        BY <1>3, <2>1, <2>2, <2>3 DEF Untouched, n
<1> QED
    BY <1>3, <1>6, <1>9, <1>10, <1>11 DEF StateOK, Sane

(* Finitely many queue ids are held.                                       *)
LEMMA HeldFinite ==
    ASSUME NEW s, NEW T, StateOK(s, T)
    PROVE  IsFiniteSet(HeldQueueIds(s))
<1> DEFINE f == s.limitQueueIds
           D == DOMAIN f
<1>1. /\ Len(s.orders) \in Nat /\ D \subseteq 1..Len(s.orders)
    <2>1. Resting(s, T) /\ Len(s.orders) \in Nat
        BY StateFacts
    <2> QED
        BY <2>1, RestingFacts
<1>2. IsFiniteSet(D)
    <2> DEFINE m == Len(s.orders)
    <2>1. m \in Int /\ 1 \in Int /\ D \subseteq 1..m
        BY <1>1
    <2> HIDE DEF D, m
    <2>2. IsFiniteSet(1..m)
        BY <2>1, FS_Interval
    <2> QED
        BY <2>1, <2>2, FS_Subset
<1> DEFINE g == [x \in D |-> f[x]]
           R == {f[x] : x \in D}
<1>3. g \in Surjection(D, R)
    BY DEF Surjection
<1> HIDE DEF g, R, D
<1>4. IsFiniteSet(R)
    BY <1>2, <1>3, FS_Surjection
<1> QED
    BY <1>4 DEF HeldQueueIds, Range, R, D

(* What is left of a limit order rests, and the order takes no more.       *)
LEMMA RemainderRests ==
    ASSUME NEW s, NEW id, StateOK(s, {id}), s.orders[id].type = "LIMIT",
           ~Filled(s.orders[id]), s.orders[id].tif # "IOC", id = Len(s.orders),
           NEW s2, s2 = RestRemainder(s, id)
    PROVE  /\ StateOK(s2, {}) /\ Len(s2.orders) = Len(s.orders)
           /\ \A m \in Nat : m < id => Untouched(s2, s, m)
<1> DEFINE o == s.orders[id]
           b == s.book
           n == Len(s.orders)
           size == Remaining(o)
           none == {}
           r == EnqueueOrder(b, HeldQueueIds(s), o.side, o.limit, id, size)
<1>1. /\ OrdersOK(s) /\ LedgerOK(s) /\ BookOK(b) /\ Listed(s, {id}) /\ Resting(s, {id})
      /\ id \in 1..n /\ o.status # "CANCELLED" /\ n \in Nat
      /\ \A x \in DOMAIN s.limitQueueIds : InBook(s, x) = Remaining(s.orders[x])
    BY StateFacts
<1>2. /\ OrderOK(o) /\ o.side \in Sides /\ size \in Nat \ {0} /\ o.limit \in Prices
      /\ Active(o) /\ id \in Nat
    <2>1. OrderOK(o) /\ o.side \in Sides /\ size \in Nat /\ (size = 0 <=> Filled(o))
        BY <1>1, OrderFacts
    <2>2. o.limit \in Prices /\ o \in OrderRecords
        BY <2>1 DEF OrderOK
    <2>3. o.status \in {"PENDING", "PARTIALLY_FILLED", "FILLED", "CANCELLED"}
        BY <2>2 DEF OrderRecords
    <2> QED
        BY <1>1, <2>1, <2>2, <2>3 DEF Active, Filled
<1>3. /\ DOMAIN s.limitQueueIds =
            {x \in 1..n : s.orders[x].type = "LIMIT" /\ Active(s.orders[x]) /\ x \notin {id}}
      /\ \A x \in DOMAIN s.limitQueueIds :
            /\ s.orders[x].tif # "IOC"
            /\ InBook(s, x) # 0 => /\ s.limitQueueIds[x] \in DOMAIN b.orderOf
                                   /\ b.orderOf[s.limitQueueIds[x]] = x
            /\ \A sd \in Sides : \A p : Size(b, sd, p, x) # 0 =>
                  sd = s.orders[x].side /\ p = s.orders[x].limit
      /\ \A x : Queued(b, x) => x \in DOMAIN s.limitQueueIds \/ x \in Quotes
    <2>1. Resting(s, {id})
        BY <1>1
    <2> QED
        BY ONLY <2>1 DEF Resting
<1>4. ~Queued(b, id)
    <2>1. "BUY" \in Sides
        BY DEF Sides
    <2>2. id \notin Quotes
        BY <1>2, <2>1, QuoteSides
    <2> QED
        BY <1>3, <2>2
<1>41. \A x \in Nat : Queued(b, x) => x < id
    <2>1. ASSUME NEW x \in Nat, Queued(b, x) PROVE x \in DOMAIN s.limitQueueIds
        <3>1. Quotes = {-1, -2}
            BY QuoteSides DEF Sides
        <3>2. x \notin Quotes
            BY <3>1
        <3> QED
            BY <1>3, <2>1, <3>2
    <2>2. \A x \in DOMAIN s.limitQueueIds : x \in 1..n /\ x # id
        BY <1>3
    <2>3. id = n
        OBVIOUS
    <2> HIDE DEF n, b
    <2> QED
        BY <1>1, <2>1, <2>2, <2>3
<1>5. BookOK(r.book) /\ Added(r.book, b, o.side, o.limit, id, size, r.qid)
    <2> DEFINE held == HeldQueueIds(s)
               side == o.side
               price == o.limit
    <2>1. IsFiniteSet(held) /\ r = EnqueueOrder(b, held, side, price, id, size)
        BY HeldFinite
    <2>2. BookOK(b) /\ side \in Sides /\ price \in Prices /\ id \in Nat /\ size \in Nat \ {0}
        BY <1>1, <1>2
    <2> HIDE DEF held, side, price, r, b, size, o
    <2>3. BookOK(r.book) /\ Added(r.book, b, side, price, id, size, r.qid)
        BY <1>4, <1>41, <2>1, <2>2, EnqueuedOK
    <2> QED
        BY <2>3 DEF side, price
<1>6. s2 = [s EXCEPT !.book = r.book, !.limitQueueIds = With(@, id, r.qid)]
    BY SMTT(30) DEF RestRemainder
<1> DEFINE b2 == r.book
           qid == r.qid
           side == o.side
           price == o.limit
<1>7. /\ BookOK(b2) /\ Added(b2, b, side, price, id, size, qid) /\ side \in Sides
      /\ s2 = [s EXCEPT !.book = b2, !.limitQueueIds = With(@, id, qid)]
    BY <1>2, <1>5, <1>6
<1> HIDE DEF b2, qid, r
<1>8. /\ DOMAIN s2 = Fields /\ s2.orders = s.orders /\ s2.told = s.told /\ s2.cash = s.cash
      /\ s2.position = s.position /\ s2.symbolOrders = s.symbolOrders /\ s2.book = b2
      /\ s2.limitQueueIds = With(s.limitQueueIds, id, qid)
    <2>1. DOMAIN s = Fields
        BY <1>1 DEF OrdersOK
    <2> HIDE DEF b, o, size, side, price
    <2> QED
        BY <1>7, <2>1 DEF Fields
<1>9. OrdersOK(s2) /\ LedgerOK(s2)
    BY <1>1, <1>8, SameLedger
<1>10. Listed(s2, none)
    <2>1. ToSet(s.symbolOrders) = {x \in 1..n : Active(s.orders[x]) \/ x \in {id}}
        BY <1>1 DEF Listed
    <2>2. ToSet(s.symbolOrders) = {x \in 1..n : Active(s.orders[x]) \/ x \in none}
        BY <1>2, <2>1
    <2> HIDE DEF n, none
    <2> QED
        BY <1>1, <1>8, <2>2 DEF Listed, n
<1>11. /\ DOMAIN s2.limitQueueIds = DOMAIN s.limitQueueIds \cup {id}
       /\ s2.limitQueueIds[id] = qid
       /\ \A x \in DOMAIN s.limitQueueIds : x # id /\ s2.limitQueueIds[x] = s.limitQueueIds[x]
    BY <1>3, <1>8 DEF With
<1>12. /\ \A sd \in Sides : \A p, x : x # id => Size(b2, sd, p, x) = Size(b, sd, p, x)
       /\ \A sd \in Sides : \A p : Size(b2, sd, p, id) # 0 => sd = side /\ p = price
       /\ Size(b2, side, price, id) = size
       /\ b2.orderOf = With(b.orderOf, qid, id) /\ qid \notin DOMAIN b.orderOf
    <2>1. IsBook(b) /\ Single(b)
        BY <1>1 DEF BookOK
    <2> HIDE DEF b, size, side, price, o
    <2>2. \A sd \in Sides : \A p, x : x # id => Size(b2, sd, p, x) = Size(b, sd, p, x)
        BY <1>7, AddedSizes
    <2>3. \A sd \in Sides : \A p : Size(b2, sd, p, id) # 0 => sd = side /\ p = price
        BY <1>4, <1>7, <2>1, AddedSingle
    <2> QED
        BY <1>7, <2>2, <2>3 DEF Added
<1>13. /\ InBook(s2, id) = size
       /\ \A x \in DOMAIN s.limitQueueIds : InBook(s2, x) = InBook(s, x)
    <2>1. \A x \in DOMAIN s.limitQueueIds : s.orders[x].side \in Sides
        BY <1>1, <1>3, OrderFacts
    <2> HIDE DEF size
    <2> QED
        BY <1>8, <1>11, <1>12, <2>1 DEF InBook
<1>14. /\ qid \in DOMAIN b2.orderOf /\ b2.orderOf[qid] = id
       /\ \A q \in DOMAIN b.orderOf : q \in DOMAIN b2.orderOf /\ b2.orderOf[q] = b.orderOf[q]
    BY <1>12 DEF With
<1>15. Resting(s2, none)
    <2>1. DOMAIN s2.limitQueueIds =
             {x \in 1..n : s2.orders[x].type = "LIMIT" /\ Active(s2.orders[x]) /\ x \notin none}
        BY <1>1, <1>2, <1>3, <1>8, <1>11
    <2>2. ASSUME NEW x \in DOMAIN s2.limitQueueIds
          PROVE  /\ s2.orders[x].tif # "IOC"
                 /\ InBook(s2, x) # 0 => /\ s2.limitQueueIds[x] \in DOMAIN s2.book.orderOf
                                         /\ s2.book.orderOf[s2.limitQueueIds[x]] = x
                 /\ \A sd \in Sides : \A p : Size(s2.book, sd, p, x) # 0 =>
                       sd = s2.orders[x].side /\ p = s2.orders[x].limit
        <3>1. CASE x = id
            BY <1>8, <1>11, <1>12, <1>14, <3>1
        <3>2. CASE x # id
            <4>1. x \in DOMAIN s.limitQueueIds
                BY <1>11, <2>2, <3>2
            <4> HIDE DEF b
            <4> QED
                BY <1>3, <1>8, <1>11, <1>12, <1>13, <1>14, <3>2, <4>1
        <3> QED
            BY <3>1, <3>2
    <2>3. \A x : Queued(s2.book, x) => x \in DOMAIN s2.limitQueueIds \/ x \in Quotes
        <3> SUFFICES ASSUME NEW x, Queued(b2, x), x # id PROVE x \in DOMAIN s2.limitQueueIds \/ x \in Quotes
            BY <1>8, <1>11
        <3>1. Queued(b, x)
            BY <1>12 DEF Queued
        <3> QED
            BY <1>3, <1>11, <3>1
    <2> HIDE DEF n, none
    <2> QED
        BY <1>8, <2>1, <2>2, <2>3 DEF Resting, n
<1>16. \A x \in DOMAIN s2.limitQueueIds : InBook(s2, x) = Remaining(s2.orders[x])
    BY <1>1, <1>8, <1>11, <1>13
<1>17. ASSUME NEW m \in Nat, m < id PROVE Untouched(s2, s, m)
    <2>1. IsBook(b) /\ IsBook(b2)
        BY <1>1, <1>7 DEF BookOK
    <2>2. m <= n /\ \A x \in 1..m : x # id
        BY <1>1, <1>17
    <2>3. \A sd \in Sides : \A p : \A x \in 1..m : Size(b2, sd, p, x) = Size(b, sd, p, x)
        BY <1>12, <2>2
    <2> QED
        BY <1>8, <2>1, <2>2, <2>3 DEF Untouched
<1> QED
    BY <1>7, <1>8, <1>9, <1>10, <1>15, <1>16, <1>17 DEF StateOK, Sane

(* submit_limit_order keeps the state in order, whether the order fills on *)
(* arrival, is dropped as IOC or rests.                                    *)
LEMMA LimitSubmitted ==
    ASSUME NEW s, StateOK(s, {}), NEW side \in Sides, NEW quantity \in Quantities,
           NEW limit \in Prices, NEW tif \in {"DAY", "IOC"},
           NEW s2, s2 = WithLimitOrder(s, side, quantity, limit, tif)
    PROVE  StateOK(s2, {}) /\ Reached(s2, s, Opposite(side), Len(s.orders))
<1> DEFINE o == NewOrder("LIMIT", side, tif, quantity, limit)
           id == NextOrderId(s)
           added == AddOrderToBook(s, o)
           taken == TakeLiquidity(added, id)
           T == {id}
           n == Len(s.orders)
           other == Opposite(side)
<1>1. /\ o.filled = 0 /\ o.value = 0 /\ o.status = "PENDING" /\ o.type = "LIMIT"
      /\ o.tif = tif /\ o.quantity = quantity /\ o.limit = limit /\ o.side = side
      /\ o \in OrderRecords /\ quantity \in Nat \ {0} /\ limit \in Nat
    <2>1. quantity \in Nat \ {0} /\ limit \in Nat
        BY DepthAssumption
    <2> QED
        BY <2>1 DEF NewOrder, OrderRecords
<1> HIDE DEF o
<1>2. OrderOK(o)
    <2>1. limit * 0 = 0
        BY <1>1
    <2> QED
        BY <1>1, <2>1 DEF OrderOK, Fair
<1>3. /\ StateOK(added, T) /\ added.orders[id] = o
      /\ id = Len(added.orders) /\ Len(added.orders) = n + 1 /\ Untouched(added, s, n)
    <2> DEFINE a == added
               i == id
    <2>1. Submits(a, s, o, i)
        BY <1>1, <1>2 DEF Submits
    <2> HIDE DEF a, i
    <2>2. /\ StateOK(a, {i}) /\ a.orders[i] = o
          /\ i = Len(a.orders) /\ Len(a.orders) = n + 1 /\ Untouched(a, s, n)
        BY <2>1, Admitted
    <2> QED
        BY <2>2 DEF a, i
<1>4. s2 = IF Filled(taken.orders[id]) THEN RemoveOrderFromBook(taken, id)
           ELSE IF tif = "IOC" THEN RemoveOrderFromBook(SetStatus(taken, id, "CANCELLED"), id)
           ELSE RestRemainder(taken, id)
    BY DEF WithLimitOrder, o
<1>5. taken = TakeLiquidity(added, id) /\ id \in T
    OBVIOUS
<1> HIDE DEF added, id, taken
<1>6. /\ StateOK(taken, T) /\ Len(taken.orders) = Len(added.orders)
      /\ \A x \in 1..Len(added.orders) : taken.orders[x].type = added.orders[x].type
      /\ taken.orders[id].tif = added.orders[id].tif
      /\ Reached(taken, added, Opposite(added.orders[id].side), Len(added.orders))
    <2> HIDE DEF T
    <2> QED
        BY <1>3, <1>5, TakenLiquidity, SMTT(30)
<1>7. id \in 1..Len(added.orders) /\ id \in 1..Len(taken.orders)
    BY <1>3, <1>6, StateFacts
<1>71. other \in Sides /\ n \in Nat
    BY StateFacts DEF Opposite, Sides
<1>72. n < id /\ n <= Len(added.orders) /\ Len(added.orders) \in Nat /\ Len(taken.orders) \in Nat
    BY <1>3, <1>6, <1>71
<1>73. Reached(taken, s, other, n)
    <2>1. Reached(added, s, other, n)
        BY <1>3, <1>71, UntouchedServes
    <2>2. Reached(taken, added, other, Len(added.orders))
        BY <1>1, <1>3, <1>6
    <2> HIDE DEF n, other
    <2>3. Reached(taken, added, other, n)
        BY <1>71, <1>72, <2>2, ReachedFewer
    <2> QED
        BY <1>71, <2>1, <2>3, ReachedTwice
<1>74. Untouched(s2, taken, n) => Reached(s2, s, other, n)
    <2> HIDE DEF n, other
    <2> SUFFICES ASSUME Untouched(s2, taken, n) PROVE Reached(s2, s, other, n)
        OBVIOUS
    <2>1. Reached(s2, taken, other, n)
        BY <1>71, UntouchedServes
    <2> QED
        BY <1>71, <1>73, <2>1, ReachedTwice
<1>8. taken.orders[id].type = "LIMIT" /\ taken.orders[id].tif = tif
    BY <1>1, <1>3, <1>6, <1>7
<1>9. CASE Filled(taken.orders[id])
    <2> DEFINE none == {}
               ids == T
    <2>1. /\ ids \in SUBSET T /\ none = T \ ids /\ \A x \in ids : Filled(taken.orders[x])
          /\ s2 = Unlist(taken, ids)
        BY <1>4, <1>9 DEF RemoveOrderFromBook
    <2> HIDE DEF none, ids, T
    <2>2. StateOK(s2, none) /\ s2.orders = taken.orders /\ Untouched(s2, taken, Len(taken.orders))
        BY <1>6, <2>1, TakersUnlisted
    <2>3. Untouched(s2, taken, n)
        <3>1. n <= Len(taken.orders) /\ \A x \in 1..n : x \in 1..Len(taken.orders)
            BY <1>6, <1>71, <1>72
        <3> HIDE DEF n
        <3> QED
            BY <1>71, <2>2, <3>1 DEF Untouched
    <2> QED
        BY <1>74, <2>2, <2>3 DEF none
<1>10. CASE ~Filled(taken.orders[id]) /\ tif = "IOC"
    <2>1. s2 = RemoveOrderFromBook(SetStatus(taken, id, "CANCELLED"), id)
        BY <1>4, <1>10
    <2>2. id \notin DOMAIN taken.limitQueueIds
        BY <1>6, StateFacts DEF Resting
    <2> DEFINE c == SetStatus(taken, id, "CANCELLED")
    <2>3. c.limitQueueIds = taken.limitQueueIds
        BY <1>6, StateFacts DEF SetStatus, OrdersOK, Fields
    <2> HIDE DEF c
    <2>4. PullFromQueue(c, id) = c
        BY <2>2, <2>3 DEF PullFromQueue
    <2>5. s2 = WithCancelled(taken, id)
        BY <2>1, <2>4 DEF WithCancelled, c
    <2>6. T \subseteq {id}
        OBVIOUS
    <2> HIDE DEF T
    <2>7. StateOK(s2, {}) /\ \A m \in Nat : m < id => Untouched(s2, taken, m)
        BY <1>6, <1>7, <1>10, <2>5, <2>6, CancelledState
    <2> QED
        BY <1>71, <1>72, <1>74, <2>7
<1>11. CASE ~Filled(taken.orders[id]) /\ tif # "IOC"
    <2>1. s2 = RestRemainder(taken, id) /\ id = Len(taken.orders)
        BY <1>3, <1>4, <1>6, <1>11
    <2>2. StateOK(s2, {}) /\ \A m \in Nat : m < id => Untouched(s2, taken, m)
        BY <1>6, <1>8, <1>11, <2>1, RemainderRests
    <2> QED
        BY <1>71, <1>72, <1>74, <2>2
<1> QED
    BY <1>9, <1>10, <1>11

(* submit_market_order keeps the state in order.                           *)
LEMMA MarketSubmitted ==
    ASSUME NEW s, StateOK(s, {}), NEW side \in Sides, NEW quantity \in Quantities,
           NEW s2, s2 = AddOrderToBook(s, NewOrder("MARKET", side, "DAY", quantity, 0))
    PROVE  StateOK(s2, {}) /\ Untouched(s2, s, Len(s.orders))
<1> DEFINE o == NewOrder("MARKET", side, "DAY", quantity, 0)
           id == NextOrderId(s)
<1>1. /\ o.filled = 0 /\ o.value = 0 /\ o.status = "PENDING" /\ o.type = "MARKET"
      /\ o.tif = "DAY" /\ o.quantity = quantity
      /\ o \in OrderRecords /\ quantity \in Nat \ {0}
    <2>1. quantity \in Nat \ {0}
        BY DepthAssumption
    <2> QED
        BY <2>1 DEF NewOrder, OrderRecords
<1>2. s2 = AddOrderToBook(s, o) /\ id = NextOrderId(s)
    OBVIOUS
<1> HIDE DEF o, id
<1>3. OrderOK(o)
    BY <1>1 DEF OrderOK, Fair
<1>4. StateOK(s2, {id}) /\ s2.orders[id] = o /\ Untouched(s2, s, Len(s.orders))
    <2>1. Submits(s2, s, o, id)
        BY <1>1, <1>2, <1>3 DEF Submits
    <2> QED
        BY <2>1, Admitted
<1> DEFINE T == {id}
           none == {}
<1>5. /\ StateOK(s2, T) /\ none \subseteq 1..Len(s2.orders)
      /\ \A x \in T \cup none : s2.orders[x].type = "MARKET" /\ Active(s2.orders[x])
    BY <1>1, <1>4 DEF Active
<1> HIDE DEF T, none
<1>6. StateOK(s2, none)
    BY <1>5, MarketTakers
<1> QED
    BY <1>4, <1>6 DEF none

(* A trade print keeps the state in order.                                 *)
LEMMA PrintConsumed ==
    ASSUME NEW s, StateOK(s, {}), NEW tick \in Ticks, NEW s2, s2 = ConsumeTradePrint(s, tick)
    PROVE  StateOK(s2, {}) /\ Len(s2.orders) = Len(s.orders) /\ Serves(s2, s, Len(s.orders))
<1> DEFINE sides == {side \in Sides : HasLevel(s.book, side, tick.price)}
           side == IF "SELL" \in sides THEN "SELL" ELSE "BUY"
           price == tick.price
           done == ConsumeAtPrice(s.book, side, price, tick.volume)
           quantity == tick.volume
           none == {}
<1>1. CASE tick.volume = 0 \/ sides = {}
    <2>1. s2 = s
        BY <1>1 DEF ConsumeTradePrint
    <2>2. Len(s.orders) \in Nat /\ IsBook(s.book)
        BY StateFacts DEF BookOK
    <2>3. Untouched(s2, s, Len(s.orders))
        BY <2>1, <2>2 DEF Untouched
    <2> QED
        BY <2>1, <2>3, UntouchedServes
<1>2. CASE ~(tick.volume = 0 \/ sides = {})
    <2>1. side \in sides /\ side \in Sides
        BY <1>2 DEF Sides
    <2>2. price \in Prices
        <3>1. BookOK(s.book)
            BY StateFacts
        <3>2. price \in DOMAIN s.book.levels[side]
            BY <2>1 DEF HasLevel
        <3> QED
            BY <2>1, <3>1, <3>2 DEF BookOK
    <2>3. quantity \in Nat
        BY DepthAssumption
    <2>4. Takes(s2, s, side, price, quantity, done)
        BY <1>2 DEF ConsumeTradePrint, Takes
    <2>5. StateOK(s, none)
        OBVIOUS
    <2>6. side \in Sides
        BY <2>1
    <2> HIDE DEF side, price, quantity, done, none
    <2>7. StateOK(s2, none) /\ Len(s2.orders) = Len(s.orders) /\ Serves(s2, s, Len(s.orders))
        BY <2>2, <2>3, <2>4, <2>5, <2>6, LevelTaken
    <2> QED
        BY <2>7 DEF none
<1> QED
    BY <1>1, <1>2

-----------------------------------------------------------------------------
(* The market *)

(* A refresh of the displayed quote keeps the state in order.              *)
LEMMA TickQuoted ==
    ASSUME NEW s, StateOK(s, {}), NEW tick \in Ticks,
           NEW s2, s2 = [s EXCEPT !.book = OnTick(@, HeldQueueIds(s), tick)]
    PROVE  StateOK(s2, {}) /\ s2.orders = s.orders /\ Untouched(s2, s, Len(s.orders))
<1> DEFINE b == s.book
           held == HeldQueueIds(s)
           b2 == OnTick(b, held, tick)
           none == {}
<1>1. /\ OrdersOK(s) /\ LedgerOK(s) /\ BookOK(b) /\ Listed(s, none) /\ Resting(s, none)
      /\ \A x \in DOMAIN s.limitQueueIds : InBook(s, x) = Remaining(s.orders[x])
      /\ Len(s.orders) \in Nat
    BY StateFacts
<1>2. /\ tick.bid \in Prices /\ tick.ask \in Prices
      /\ tick.bidSize \in Nat /\ tick.askSize \in Nat
    BY DepthAssumption
<1>3. IsFiniteSet(held)
    BY HeldFinite
<1>4. b2 = OnTick(b, held, tick) /\ s2 = [s EXCEPT !.book = b2]
    OBVIOUS
<1> HIDE DEF b2, b, held
<1>5. /\ BookOK(b2) /\ SameOrders(b2, b)
      /\ \A x : x \notin Quotes => (Queued(b2, x) <=> Queued(b, x))
    BY <1>1, <1>2, <1>3, <1>4, TickShown
<1>6. /\ OrdersOK(s2) /\ LedgerOK(s2) /\ s2.orders = s.orders
      /\ s2.symbolOrders = s.symbolOrders /\ s2.limitQueueIds = s.limitQueueIds
      /\ s2.book = b2
    <2>1. OrdersOK(s) /\ LedgerOK(s) /\ s2 = [s EXCEPT !.book = b2]
        BY <1>1, <1>4
    <2> QED
        BY ONLY <2>1, BookPut
<1>7. /\ DOMAIN s.limitQueueIds =
            {x \in 1..Len(s.orders) : /\ s.orders[x].type = "LIMIT"
                                      /\ Active(s.orders[x]) /\ x \notin none}
      /\ \A x \in DOMAIN s.limitQueueIds :
            /\ s.orders[x].tif # "IOC"
            /\ InBook(s, x) # 0 => /\ s.limitQueueIds[x] \in DOMAIN b.orderOf
                                   /\ b.orderOf[s.limitQueueIds[x]] = x
            /\ \A sd \in Sides : \A p : Size(b, sd, p, x) # 0 =>
                  sd = s.orders[x].side /\ p = s.orders[x].limit
      /\ \A x : Queued(b, x) => x \in DOMAIN s.limitQueueIds \/ x \in Quotes
    <2>1. Resting(s, none)
        BY <1>1
    <2> QED
        BY ONLY <2>1 DEF Resting, b
<1> HIDE DEF none
<1>8. \A x \in DOMAIN s.limitQueueIds : x \notin Quotes /\ s.orders[x].side \in Sides
    <2>1. "BUY" \in Sides
        BY DEF Sides
    <2>2. \A x \in Nat : x \notin Quotes
        BY <2>1, QuoteSides
    <2> QED
        BY <1>1, <1>7, <2>2, OrderFacts
<1>9. \A x \in DOMAIN s.limitQueueIds : InBook(s2, x) = InBook(s, x)
    BY <1>5, <1>6, <1>8 DEF InBook, SameOrders, b
<1>10. Listed(s2, none)
    BY <1>1, <1>6 DEF Listed
<1>11. Resting(s2, none)
    <2>1. ASSUME NEW x \in DOMAIN s.limitQueueIds
          PROVE  /\ InBook(s2, x) # 0 => /\ s.limitQueueIds[x] \in DOMAIN b2.orderOf
                                         /\ b2.orderOf[s.limitQueueIds[x]] = x
                 /\ \A sd \in Sides : \A p : Size(b2, sd, p, x) # 0 =>
                       sd = s.orders[x].side /\ p = s.orders[x].limit
        BY <1>5, <1>7, <1>8, <1>9 DEF SameOrders
    <2>2. \A x : Queued(b2, x) => x \in DOMAIN s.limitQueueIds \/ x \in Quotes
        BY <1>5, <1>7
    <2> QED
        BY <1>6, <1>7, <2>1, <2>2 DEF Resting
<1>12. \A x \in DOMAIN s2.limitQueueIds : InBook(s2, x) = Remaining(s2.orders[x])
    BY <1>1, <1>6, <1>9
<1>13. StateOK(s2, none)
    <2>1. none \subseteq 1..Len(s2.orders) /\ \A x \in none : s2.orders[x].status # "CANCELLED"
        BY DEF none
    <2> QED
        BY <1>5, <1>6, <1>10, <1>11, <1>12, <2>1 DEF StateOK, Sane
<1>14. Untouched(s2, s, Len(s.orders))
    <2>1. \A x \in 1..Len(s.orders) : x \notin Quotes
        BY <1>1, QuoteSides DEF Sides
    <2>2. \A sd \in Sides : \A p : \A x \in 1..Len(s.orders) : Size(b2, sd, p, x) = Size(b, sd, p, x)
        BY <1>5, <2>1 DEF SameOrders
    <2> QED
        BY <1>1, <1>5, <1>6, <2>2 DEF Untouched, BookOK, b
<1> QED
    BY <1>6, <1>13, <1>14 DEF none

(* Every taker may have been filled, and nothing else has happened.        *)
Matching(s2, s, T) ==
    /\ StateOK(s2, T) /\ Len(s2.orders) = Len(s.orders)
    /\ \A x \in 1..Len(s.orders) : s2.orders[x].type = s.orders[x].type
    /\ Serves(s2, s, Len(s.orders))

(* Matching the market orders one by one keeps the state in order.         *)
LEMMA MarketMatched ==
    ASSUME NEW s, StateOK(s, {}), NEW s2, s2 = MatchMarketOrders(s)
    PROVE  StateOK(s2, {}) /\ Len(s2.orders) = Len(s.orders) /\ Serves(s2, s, Len(s.orders))
<1> DEFINE working == {id \in DOMAIN s.orders :
                          s.orders[id].type = "MARKET" /\ Active(s.orders[id])}
           takers == Kept(s.symbolOrders, working)
           T == ToSet(takers)
           n == Len(takers)
           matched == TakeEach(s, takers)
           ids == {id \in T : Filled(matched.orders[id])}
           none == {}
<1>1. StateOK(s, none) /\ DOMAIN s.orders = 1..Len(s.orders)
    BY StateFacts
<1>2. s2 = Unlist(matched, ids)
    BY DEF MatchMarketOrders
<1>3. takers \in Seq(Int) /\ T = ToSet(s.symbolOrders) \cap working
    <2> DEFINE l == s.symbolOrders
    <2>1. l \in Seq(Int) /\ Rising(l)
        BY StateFacts DEF Listed
    <2> HIDE DEF l, working
    <2>2. Kept(l, working) \in Seq(Int) /\ ToSet(Kept(l, working)) = ToSet(l) \cap working
        BY <2>1, KeptRising
    <2> QED
        BY <2>2 DEF l
<1> HIDE DEF takers
<1>4. n \in Nat /\ DOMAIN takers = 1..n /\ \A i \in 1..n : takers[i] \in T
    <2>1. n \in Nat /\ DOMAIN takers = 1..n
        BY <1>3
    <2> QED
        BY <2>1 DEF ToSet
<1>5. T \subseteq 1..Len(s.orders) /\ \A x \in T : s.orders[x].type = "MARKET" /\ Active(s.orders[x])
    BY <1>1, <1>3
<1> HIDE DEF T, working
<1>6. StateOK(s, T)
    <2>1. \A x \in none \cup T : s.orders[x].type = "MARKET" /\ Active(s.orders[x])
        BY <1>5
    <2> HIDE DEF none
    <2> QED
        BY <1>1, <1>5, <2>1, MarketTakers
<1>7. Matching(s, s, T)
    <2>1. Len(s.orders) \in Nat /\ IsBook(s.book)
        BY <1>1, StateFacts DEF BookOK
    <2>2. Untouched(s, s, Len(s.orders))
        BY <2>1 DEF Untouched
    <2> QED
        BY <1>6, <2>2, UntouchedServes DEF Matching
<1> HIDE DEF n
<1>8. PICK h : Takers!Runs(h, 0, s, takers, n) /\ TakeEach(s, takers) = h[n]
    BY <1>4, TakerRuns
<1>9. h[0] = s /\ \A i \in 1..n : h[i] = TakeLiquidity(h[i - 1], takers[i])
    BY <1>8 DEF Takers!Runs
<1>10. matched = h[n]
    BY <1>8
<1> HIDE DEF matched
<1> DEFINE K == {i \in 0..n : Matching(h[i], s, T)}
<1>11. 0 \in K
    BY <1>4, <1>7, <1>9
<1>12. ASSUME NEW i \in 0..(n - 1), i \in K PROVE i + 1 \in K
    <2> DEFINE x == h[i]
               y == h[i + 1]
               id == takers[i + 1]
    <2>1. i + 1 \in 1..n /\ i + 1 \in 0..n /\ (i + 1) - 1 = i /\ Matching(x, s, T) /\ id \in T
        BY <1>4, <1>12
    <2>2. y = TakeLiquidity(x, id)
        BY <1>9, <2>1
    <2> HIDE DEF x, y, id, K
    <2>3. StateOK(x, T)
        BY <2>1 DEF Matching
    <2>4. /\ StateOK(y, T) /\ Len(y.orders) = Len(x.orders)
          /\ \A z \in 1..Len(x.orders) : y.orders[z].type = x.orders[z].type
          /\ Reached(y, x, Opposite(x.orders[id].side), Len(x.orders))
        BY <2>1, <2>2, <2>3, TakenLiquidity
    <2>41. Serves(y, s, Len(s.orders))
        <3>1. Serves(x, s, Len(s.orders)) /\ Serves(y, x, Len(s.orders))
            BY <2>1, <2>4 DEF Matching, Reached
        <3> QED
            BY <3>1, ServesTwice
    <2>5. Matching(y, s, T)
        BY <2>1, <2>4, <2>41 DEF Matching
    <2> QED
        BY <2>1, <2>5 DEF K, y
<1>13. n \in K
    <2> HIDE DEF K
    <2>1. \A k \in 0..n : k \in K
        BY <1>4, <1>11, <1>12, Induction
    <2> QED
        BY <1>4, <2>1
<1>14. /\ StateOK(matched, T) /\ Len(matched.orders) = Len(s.orders)
       /\ \A x \in 1..Len(s.orders) : matched.orders[x].type = s.orders[x].type
       /\ Serves(matched, s, Len(s.orders))
    BY <1>10, <1>13 DEF Matching
<1> HIDE DEF K
<1> DEFINE rest == T \ ids
<1>15. /\ StateOK(s2, rest) /\ s2.orders = matched.orders
       /\ Untouched(s2, matched, Len(matched.orders))
    <2>1. /\ ids \in SUBSET T /\ \A x \in ids : Filled(matched.orders[x])
          /\ rest = T \ ids
        OBVIOUS
    <2> HIDE DEF ids, rest
    <2> QED
        BY <1>2, <1>14, <2>1, TakersUnlisted
<1>16. \A x \in rest : s2.orders[x].type = "MARKET" /\ Active(s2.orders[x])
    <2> SUFFICES ASSUME NEW x \in rest PROVE s2.orders[x].type = "MARKET" /\ Active(s2.orders[x])
        OBVIOUS
    <2>1. x \in T /\ x \in 1..Len(s.orders) /\ ~Filled(matched.orders[x])
        BY <1>5
    <2>2. matched.orders[x].type = "MARKET"
        BY <1>5, <1>14, <2>1
    <2>3. OrderOK(matched.orders[x]) /\ matched.orders[x].status # "CANCELLED"
        <3>1. OrdersOK(matched) /\ \A z \in T : matched.orders[z].status # "CANCELLED"
            BY <1>14, StateFacts
        <3> QED
            BY <1>14, <2>1, <3>1, OrderFacts
    <2>4. matched.orders[x].status \in {"PENDING", "PARTIALLY_FILLED", "FILLED", "CANCELLED"}
        BY <2>3 DEF OrderOK, OrderRecords
    <2>5. Active(matched.orders[x])
        BY <2>1, <2>3, <2>4 DEF Active, Filled
    <2> QED
        BY <1>15, <2>2, <2>5
<1>17. StateOK(s2, none)
    <2>1. none \subseteq 1..Len(s2.orders) /\ \A x \in rest \cup none :
              s2.orders[x].type = "MARKET" /\ Active(s2.orders[x])
        BY <1>16
    <2> HIDE DEF none, rest
    <2> QED
        BY <1>15, <2>1, MarketTakers
<1>18. Serves(s2, s, Len(s.orders))
    <2>1. Serves(s2, matched, Len(s.orders))
        BY <1>14, <1>15, UntouchedServes
    <2> QED
        BY <1>14, <2>1, ServesTwice
<1> QED
    BY <1>14, <1>15, <1>17, <1>18

(* With every IOC order done on arrival, a tick finds none to cancel.      *)
LEMMA IocCancelled ==
    ASSUME NEW s, StateOK(s, {}), NEW s2, s2 = CancelIocOrders(s)
    PROVE  StateOK(s2, {}) /\ s2.orders = s.orders /\ Untouched(s2, s, Len(s.orders))
<1> DEFINE none == {}
           untouched == {id \in ToSet(s.symbolOrders) :
                            s.orders[id].tif = "IOC" /\ s.orders[id].filled = 0}
           w == [s EXCEPT !.orders =
                   [id \in DOMAIN @ |-> IF id \in untouched
                                        THEN [@[id] EXCEPT !.status = "CANCELLED"]
                                        ELSE @[id]]]
<1>1. /\ OrdersOK(s) /\ LedgerOK(s) /\ BookOK(s.book) /\ Listed(s, none) /\ Resting(s, none)
      /\ \A x \in DOMAIN s.limitQueueIds : InBook(s, x) = Remaining(s.orders[x])
      /\ s.orders \in Seq(OrderRecords) /\ DOMAIN s = Fields
    BY StateFacts DEF OrdersOK
<1>2. s2 = Unlist(w, untouched)
    BY DEF CancelIocOrders
<1>3. untouched = none
    <2> SUFFICES ASSUME NEW id \in ToSet(s.symbolOrders), s.orders[id].tif = "IOC" PROVE FALSE
        OBVIOUS
    <2>1. id \in 1..Len(s.orders) /\ Active(s.orders[id])
        BY <1>1 DEF Listed
    <2>2. OrderOK(s.orders[id]) /\ s.orders[id].type \in {"MARKET", "LIMIT"}
        BY <1>1, <2>1, OrderFacts
    <2>3. s.orders[id].type = "LIMIT"
        BY <2>2 DEF OrderOK
    <2>4. id \in DOMAIN s.limitQueueIds
        BY <1>1, <2>1, <2>3, RestingFacts
    <2> QED
        BY <1>1, <2>4, RestingFacts
<1> HIDE DEF untouched
<1>4. /\ DOMAIN w = Fields /\ w.orders = s.orders /\ w.told = s.told /\ w.cash = s.cash
      /\ w.position = s.position /\ w.book = s.book /\ w.symbolOrders = s.symbolOrders
      /\ w.limitQueueIds = s.limitQueueIds
    <2> DEFINE f == [id \in DOMAIN s.orders |->
                        IF id \in untouched THEN [s.orders[id] EXCEPT !.status = "CANCELLED"]
                        ELSE s.orders[id]]
    <2>1. w = [s EXCEPT !.orders = f]
        OBVIOUS
    <2>2. f = s.orders
        <3>1. f = [id \in DOMAIN s.orders |-> s.orders[id]]
            BY <1>3
        <3> HIDE DEF f
        <3> QED
            BY <1>1, <3>1
    <2> HIDE DEF f, w
    <2> QED
        BY <1>1, <2>1, <2>2 DEF Fields
<1> HIDE DEF w
<1>5. OrdersOK(w) /\ LedgerOK(w)
    BY <1>1, <1>4, SameLedger
<1>6. Listed(w, none) /\ Resting(w, none)
    <2>1. \A x : InBook(w, x) = InBook(s, x)
        BY <1>4 DEF InBook
    <2>2. Listed(w, none)
        BY <1>1, <1>4 DEF Listed
    <2>3. Resting(w, none)
        BY <1>1, <1>4, <2>1 DEF Resting
    <2> QED
        BY <2>2, <2>3
<1>7. StateOK(w, none)
    BY <1>1, <1>4, <1>5, <1>6 DEF StateOK, Sane, InBook
<1>8. StateOK(s2, none) /\ s2.orders = w.orders /\ Untouched(s2, w, Len(w.orders))
    <2>1. s2 = Unlist(w, none)
        BY <1>2, <1>3
    <2>2. none \in SUBSET none /\ none = none \ none /\ \A x \in none : Filled(w.orders[x])
        OBVIOUS
    <2> HIDE DEF none
    <2> QED
        BY <1>7, <2>1, <2>2, TakersUnlisted
<1>9. Untouched(s2, s, Len(s.orders))
    BY <1>4, <1>8 DEF Untouched
<1> QED
    BY <1>4, <1>8, <1>9 DEF none

-----------------------------------------------------------------------------
(* The calls *)

(* The inductive invariant: between two calls no order is taking.          *)
InOrder == StateOK(Now, {})

(* A state is in order when its fields are those of one that is.           *)
LEMMA SameState ==
    ASSUME NEW s, NEW T, StateOK(s, T), NEW w, DOMAIN w = Fields,
           w.orders = s.orders, w.told = s.told, w.cash = s.cash, w.position = s.position,
           w.book = s.book, w.symbolOrders = s.symbolOrders, w.limitQueueIds = s.limitQueueIds
    PROVE  StateOK(w, T)
<1>1. /\ OrdersOK(s) /\ LedgerOK(s) /\ BookOK(s.book) /\ Listed(s, T) /\ Resting(s, T)
      /\ T \subseteq 1..Len(s.orders) /\ \A x \in T : s.orders[x].status # "CANCELLED"
      /\ \A x \in DOMAIN s.limitQueueIds : InBook(s, x) = Remaining(s.orders[x])
    BY StateFacts
<1>2. OrdersOK(w) /\ LedgerOK(w)
    BY <1>1, SameLedger
<1>3. Listed(w, T)
    BY <1>1 DEF Listed
<1>4. \A x : InBook(w, x) = InBook(s, x)
    BY DEF InBook
<1>5. Resting(w, T)
    BY <1>1, <1>4 DEF Resting
<1> QED
    BY <1>1, <1>2, <1>3, <1>4, <1>5 DEF StateOK, Sane

(* The state a call ends in is the next state.                             *)
LEMMA Became ==
    ASSUME NEW s, StateOK(s, {}), Become(s)
    PROVE  InOrder'
<1> DEFINE w == Now'
           none == {}
<1>1. /\ DOMAIN w = Fields
      /\ w.orders = s.orders /\ w.told = s.told /\ w.cash = s.cash /\ w.position = s.position
      /\ w.book = s.book /\ w.symbolOrders = s.symbolOrders /\ w.limitQueueIds = s.limitQueueIds
    BY DEF Become, Now, Fields
<1>2. StateOK(s, none)
    OBVIOUS
<1> HIDE DEF w, none
<1>3. StateOK(w, none)
    BY <1>1, <1>2, SameState
<1> QED
    BY <1>3 DEF w, none, InOrder

(* The manager starts in order.                                            *)
LEMMA InitInOrder ==
    ASSUME Init
    PROVE  InOrder
<1> DEFINE s == Now
           none == {}
<1>1. /\ DOMAIN s = Fields /\ s.orders = <<>> /\ s.told = <<>> /\ s.cash = InitialCash
      /\ s.position = 0 /\ s.book = EmptyBook /\ s.symbolOrders = <<>> /\ s.limitQueueIds = <<>>
    BY DEF Init, Now, Fields
<1> HIDE DEF s
<1>2. OrdersOK(s)
    BY <1>1 DEF OrdersOK
<1>3. DOMAIN <<>> = 1..0 /\ 1..0 = {} /\ Len(<<>>) = 0
    OBVIOUS
<1>4. LedgerOK(s)
    <2>1. FilledShares(s) = 0 /\ FilledValue(s) = 0
        <3> DEFINE a == SharesOf(s)
                   c == ValuesOf(s)
        <3>1. DOMAIN a = 1..0 /\ DOMAIN c = 1..0
            BY <1>1, <1>3 DEF SharesOf, ValuesOf
        <3>2. FilledShares(s) = Total(a) /\ FilledValue(s) = Total(c)
            BY <1>2, LedgerSums
        <3> HIDE DEF a, c
        <3> QED
            BY <3>1, <3>2, TotalNone
    <2>2. InitialCash \in Nat /\ Min(Prices) \in Nat /\ Max(Prices) \in Nat
        BY DepthAssumption, PriceBounds
    <2> DEFINE lo == Min(Prices)
               hi == Max(Prices)
    <2>3. (0 - 0) * lo = 0 /\ (0 - 0) * hi = 0 /\ InitialCash - (InitialCash - 0) = 0 /\ 0 - 0 \in Nat
        BY <2>2
    <2> QED
        BY <1>1, <2>1, <2>2, <2>3 DEF LedgerOK
<1>5. BookOK(EmptyBook)
    <2> DEFINE b == EmptyBook
    <2>1. /\ DOMAIN b = {"levels", "orderOf", "quoteQid", "quotePrice"}
          /\ DOMAIN b.levels = Sides /\ \A sd \in Sides : b.levels[sd] = <<>>
          /\ b.orderOf = <<>> /\ DOMAIN b.quoteQid = Sides /\ DOMAIN b.quotePrice = Sides
        BY DEF EmptyBook
    <2> HIDE DEF b
    <2>2. \A sd \in Sides : DOMAIN b.levels[sd] = {}
        BY <1>3, <2>1
    <2>3. DOMAIN b.orderOf = {}
        BY <1>3, <2>1
    <2>4. \A sd \in Sides : \A p, x : Size(b, sd, p, x) = 0
        BY <2>2 DEF Size
    <2>5. IsBook(b)
        BY <2>1, <2>2, <2>3, FS_EmptySet DEF IsBook
    <2>6. IdsMatch(b)
        BY <2>3, <2>4 DEF IdsMatch, Queued, IsInjective
    <2>7. Single(b) /\ NoEmptyLevel(b)
        BY <2>2, <2>4 DEF Single, NoEmptyLevel
    <2>8. QuotesOK(b)
        BY <2>3, <2>4 DEF QuotesOK
    <2>81. Aged(b)
        BY <2>2, <2>4 DEF Aged, Ascends, Queued
    <2>9. BookOK(b)
        BY <2>2, <2>5, <2>6, <2>7, <2>8, <2>81 DEF BookOK
    <2> QED
        BY <2>9 DEF b
<1>6. \A x : ~Queued(s.book, x)
    <2>1. \A sd \in Sides : DOMAIN EmptyBook.levels[sd] = {}
        BY <1>3 DEF EmptyBook
    <2> QED
        BY <1>1, <2>1 DEF Queued, Size
<1>7. Listed(s, none)
    <2>1. ToSet(<<>>) = {}
        BY <1>3 DEF ToSet
    <2>2. <<>> \in Seq(Int) /\ Rising(<<>>)
        BY <1>3 DEF Rising
    <2> QED
        BY <1>1, <1>3, <2>1, <2>2 DEF Listed
<1>8. Resting(s, none)
    <2>1. DOMAIN s.limitQueueIds = {} /\ 1..Len(s.orders) = {}
        BY <1>1, <1>3
    <2> QED
        BY <1>6, <2>1 DEF Resting
<1>9. StateOK(s, none)
    <2>1. DOMAIN s.limitQueueIds = {}
        BY <1>1, <1>3
    <2> QED
        BY <1>1, <1>2, <1>4, <1>5, <1>7, <1>8, <2>1 DEF StateOK, Sane
<1> QED
    BY <1>9 DEF s, InOrder

(* A submission keeps the state in order.                                  *)
LEMMA Submitted ==
    ASSUME InOrder, Submit
    PROVE  InOrder'
<1>1. PICK side \in Sides, quantity \in Quantities :
         \/ SubmitMarketOrder(side, quantity)
         \/ \E limit \in Prices, tif \in {"DAY", "IOC"} :
               SubmitLimitOrder(side, quantity, limit, tif)
    BY DEF Submit
<1> DEFINE s == Now
<1>2. StateOK(s, {})
    BY DEF InOrder
<1>3. CASE SubmitMarketOrder(side, quantity)
    <2> DEFINE w == AddOrderToBook(s, NewOrder("MARKET", side, "DAY", quantity, 0))
    <2>1. Become(w) /\ w = AddOrderToBook(s, NewOrder("MARKET", side, "DAY", quantity, 0))
        BY <1>3 DEF SubmitMarketOrder
    <2> HIDE DEF s, w
    <2>2. StateOK(w, {})
        BY <1>2, <2>1, MarketSubmitted
    <2> QED
        BY <2>1, <2>2, Became
<1>4. ASSUME NEW limit \in Prices, NEW tif \in {"DAY", "IOC"},
             SubmitLimitOrder(side, quantity, limit, tif)
      PROVE  InOrder'
    <2> DEFINE w == WithLimitOrder(s, side, quantity, limit, tif)
    <2>1. Become(w) /\ w = WithLimitOrder(s, side, quantity, limit, tif)
        BY <1>4 DEF SubmitLimitOrder
    <2> HIDE DEF s, w
    <2>2. StateOK(w, {})
        BY <1>2, <2>1, LimitSubmitted
    <2> QED
        BY <2>1, <2>2, Became
<1> QED
    BY <1>1, <1>3, <1>4

(* A live order is not filled.                                             *)
LEMMA NowActive ==
    ASSUME InOrder, NEW id \in DOMAIN orders, Active(orders[id])
    PROVE  /\ StateOK(Now, {}) /\ id \in 1..Len(Now.orders) /\ ~Filled(Now.orders[id])
           /\ OrderOK(orders[id])
<1> DEFINE s == Now
<1>1. StateOK(s, {}) /\ s.orders = orders
    BY DEF InOrder, Now
<1> HIDE DEF s
<1>2. OrdersOK(s) /\ DOMAIN s.orders = 1..Len(s.orders)
    BY <1>1, StateFacts
<1>3. OrderOK(s.orders[id])
    BY <1>1, <1>2, OrderFacts
<1>4. ~Filled(s.orders[id])
    BY <1>1 DEF Active, Filled
<1> QED
    BY <1>1, <1>2, <1>3, <1>4 DEF s

(* A cancellation keeps the state in order.                                *)
LEMMA Cancelled ==
    ASSUME InOrder, NEW id, CancelOrder(id)
    PROVE  InOrder'
<1> DEFINE s == Now
           w == WithCancelled(s, id)
           none == {}
<1>1. id \in DOMAIN orders /\ Active(orders[id]) /\ Become(w)
    BY DEF CancelOrder
<1>2. StateOK(s, none) /\ id \in 1..Len(s.orders) /\ ~Filled(s.orders[id])
    BY <1>1, NowActive
<1>3. w = WithCancelled(s, id) /\ none \subseteq {id}
    OBVIOUS
<1> HIDE DEF s, w, none
<1>4. StateOK(w, {})
    BY <1>2, <1>3, CancelledState
<1> QED
    BY <1>1, <1>4, Became

(* A replacement, a cancellation and a submission, keeps the state in      *)
(* order.                                                                  *)
LEMMA Replaced ==
    ASSUME InOrder, NEW id, NEW quantity \in Quantities, NEW limit \in Prices,
           ReplaceOrder(id, quantity, limit)
    PROVE  InOrder'
<1> DEFINE s == Now
           c == WithCancelled(s, id)
           side == orders[id].side
           tif == orders[id].tif
           w == WithLimitOrder(c, side, quantity, limit, tif)
           none == {}
<1>1. id \in DOMAIN orders /\ Active(orders[id]) /\ Become(w)
    BY DEF ReplaceOrder
<1>2. StateOK(s, none) /\ id \in 1..Len(s.orders) /\ ~Filled(s.orders[id]) /\ OrderOK(orders[id])
    BY <1>1, NowActive
<1>3. side \in Sides /\ tif \in {"DAY", "IOC"}
    BY <1>2 DEF OrderOK, OrderRecords
<1>4. c = WithCancelled(s, id) /\ none \subseteq {id}
    OBVIOUS
<1>5. w = WithLimitOrder(c, side, quantity, limit, tif)
    OBVIOUS
<1> HIDE DEF s, c, w, none, side, tif
<1>6. StateOK(c, {})
    BY <1>2, <1>4, CancelledState
<1>7. StateOK(w, {})
    BY <1>3, <1>5, <1>6, LimitSubmitted
<1> QED
    BY <1>1, <1>7, Became

(* A tick, with all that process_tick calls, keeps the state in order.     *)
LEMMA Ticked ==
    ASSUME InOrder, NEW tick \in Ticks, ProcessTick(tick)
    PROVE  InOrder'
<1> DEFINE s == Now
           printed == ConsumeTradePrint(s, tick)
           quoted == [printed EXCEPT !.book = OnTick(@, HeldQueueIds(printed), tick)]
           matched == MatchMarketOrders(quoted)
           w == CancelIocOrders(matched)
<1>1. /\ StateOK(s, {}) /\ Become(w)
      /\ printed = ConsumeTradePrint(s, tick)
      /\ matched = MatchMarketOrders(quoted) /\ w = CancelIocOrders(matched)
    BY DEF InOrder, ProcessTick
<1>2. quoted = [printed EXCEPT !.book = OnTick(@, HeldQueueIds(printed), tick)]
    OBVIOUS
<1> HIDE DEF s, printed, matched, w
<1>3. StateOK(printed, {})
    BY <1>1, PrintConsumed
<1>4. StateOK(quoted, {})
    BY <1>3, TickQuoted
<1> HIDE DEF quoted
<1>5. StateOK(matched, {})
    BY <1>1, <1>4, MarketMatched
<1>6. StateOK(w, {})
    BY <1>1, <1>5, IocCancelled
<1> QED
    BY <1>1, <1>6, Became

(* attempt_fills keeps the state in order.                                 *)
LEMMA Attempted ==
    ASSUME InOrder, AttemptFills
    PROVE  InOrder'
<1> DEFINE s == Now
           w == MatchMarketOrders(s)
<1>1. StateOK(s, {}) /\ Become(w) /\ w = MatchMarketOrders(s)
    BY DEF InOrder, AttemptFills
<1> HIDE DEF s, w
<1>2. StateOK(w, {})
    BY <1>1, MarketMatched
<1> QED
    BY <1>1, <1>2, Became

(* Whatever is submitted, cancelled, replaced, ticked or matched, the      *)
(* manager is in order after the call.                                     *)
THEOREM StaysInOrder == Spec => []InOrder
<1>1. Init => InOrder
    BY InitInOrder
<1>2. InOrder /\ [Next]_vars => InOrder'
    <2> SUFFICES ASSUME InOrder, [Next]_vars PROVE InOrder'
        OBVIOUS
    <2>1. CASE Submit
        BY <2>1, Submitted
    <2>2. ASSUME NEW id \in 1..MaxOrders, CancelOrder(id) PROVE InOrder'
        BY <2>2, Cancelled
    <2>3. ASSUME NEW id \in 1..MaxOrders, NEW quantity \in Quantities, NEW limit \in Prices,
                 ReplaceOrder(id, quantity, limit)
          PROVE  InOrder'
        BY <2>3, Replaced
    <2>4. ASSUME NEW tick \in Ticks, ProcessTick(tick) PROVE InOrder'
        BY <2>4, Ticked
    <2>5. CASE AttemptFills
        BY <2>5, Attempted
    <2>6. CASE UNCHANGED vars
        BY <2>6 DEF vars, InOrder, Now
    <2> QED
        BY <2>1, <2>2, <2>3, <2>4, <2>5, <2>6 DEF Next
<1> QED
    BY <1>1, <1>2, PTL DEF Spec
-----------------------------------------------------------------------------
(* A sound level that is not empty is consistent.                          *)
LEMMA ConsistentLevel ==
    ASSUME NEW l, Sound(l), l.queue # <<>>
    PROVE  LevelConsistent(l)
<1>1. QueueSizes(l) = [i \in DOMAIN l.queue |-> l.sizes[l.queue[i]]]
    BY DEF QueueSizes
<1> QED
    BY <1>1 DEF Sound, LevelConsistent

(* An order with a size somewhere is in that place only.                   *)
LEMMA OnePlace ==
    ASSUME NEW b, BookOK(b), NEW side \in Sides, NEW price, NEW x, Size(b, side, price, x) # 0
    PROVE  Places(b, x) = {<<side, price>>}
<1>1. IsBook(b) /\ Single(b)
    BY DEF BookOK
<1>2. /\ \A sd \in Sides : \A p : <<sd, p>> \in Places(b, x) <=> Size(b, sd, p, x) # 0
      /\ \A place \in Places(b, x) : \E sd \in Sides : \E p : place = <<sd, p>>
    BY <1>1, PlaceIff
<1>3. ASSUME NEW place \in Places(b, x) PROVE place = <<side, price>>
    <2>1. PICK sd \in Sides : \E p : place = <<sd, p>>
        BY <1>2
    <2>2. PICK p : place = <<sd, p>>
        BY <2>1
    <2>3. Size(b, sd, p, x) # 0
        BY <1>2, <1>3, <2>2
    <2>4. sd = side /\ p = price
        BY <1>1, <2>3 DEF Single
    <2> QED
        BY <2>2, <2>4
<1> QED
    BY <1>2, <1>3

(* A state in order has a consistent book.                                 *)
LEMMA BookAgrees ==
    ASSUME InOrder
    PROVE  BookConsistent
<1> DEFINE b == book
<1>1. BookOK(b)
    <2> DEFINE s == Now
    <2>1. StateOK(s, {}) /\ s.book = b
        BY DEF InOrder, Now
    <2> HIDE DEF s
    <2> QED
        BY <2>1, StateFacts
<1> HIDE DEF b
<1>2. IsBook(b) /\ IdsMatch(b) /\ NoEmptyLevel(b) /\ QuotesOK(b)
    BY <1>1 DEF BookOK
<1>3. \A side \in Sides : \A price \in DOMAIN b.levels[side] : LevelConsistent(b.levels[side][price])
    BY <1>2, ConsistentLevel DEF IsBook, NoEmptyLevel
<1>4. ASSUME NEW qid \in DOMAIN b.orderOf PROVE Cardinality(Places(b, b.orderOf[qid])) = 1
    <2> DEFINE x == b.orderOf[qid]
    <2>1. Queued(b, x)
        BY <1>2 DEF IdsMatch
    <2> HIDE DEF x
    <2>2. PICK side \in Sides : \E p : Size(b, side, p, x) # 0
        BY <2>1 DEF Queued
    <2>3. PICK p : Size(b, side, p, x) # 0
        BY <2>2
    <2>4. Places(b, x) = {<<side, p>>}
        BY <1>1, <2>3, OnePlace
    <2>5. Cardinality(Places(b, x)) = 1
        BY <2>4, FS_Singleton
    <2> QED
        BY <2>5 DEF x
<1>5. ASSUME NEW side \in Sides, NEW price \in DOMAIN b.levels[side],
             NEW x \in Range(b.levels[side][price].queue)
      PROVE  Size(b, side, price, x) # 0 /\ x \in Range(b.orderOf)
    <2>1. Sound(b.levels[side][price])
        BY <1>2 DEF IsBook
    <2>2. x \in DOMAIN b.levels[side][price].sizes
        BY <2>1 DEF Sound
    <2>3. Size(b, side, price, x) # 0
        BY <1>2, <2>2, SizeType
    <2>4. \E q \in DOMAIN b.orderOf : b.orderOf[q] = x
        BY <1>2, <2>3 DEF IdsMatch, Queued
    <2> QED
        BY <2>3, <2>4 DEF Range
<1>6. ASSUME NEW side \in Sides, NEW price \in DOMAIN b.levels[side]
      PROVE  LET level == b.levels[side][price]
             IN  /\ Range(level.queue) \subseteq Range(b.orderOf)
                 /\ QuoteOrder(Opposite(side)) \notin Range(level.queue)
                 /\ QuoteOrder(side) \in Range(level.queue) =>
                       /\ price = b.quotePrice[side]
                       /\ Head(level.queue) = QuoteOrder(side)
                       /\ b.quoteQid[side] \in DOMAIN b.orderOf
    <2> DEFINE queue == b.levels[side][price].queue
               other == Opposite(side)
    <2>1. other \in Sides /\ other # side
        BY DEF Opposite, Sides
    <2>2. \A sd \in Sides : Size(b, side, price, QuoteOrder(sd)) # 0 =>
             /\ side = sd /\ price = b.quotePrice[sd]
             /\ queue[1] = QuoteOrder(sd)
             /\ b.quoteQid[sd] \in DOMAIN b.orderOf
        BY <1>2 DEF QuotesOK
    <2>3. QuoteOrder(other) \notin Range(queue)
        BY <1>5, <2>1, <2>2
    <2>4. Range(queue) \subseteq Range(b.orderOf)
        BY <1>5
    <2>5. Head(queue) = queue[1]
        <3>1. Sound(b.levels[side][price]) /\ queue # <<>>
            BY <1>2 DEF IsBook, NoEmptyLevel
        <3>2. queue \in Seq(Int)
            BY <3>1 DEF Sound
        <3> HIDE DEF queue
        <3> QED
            BY <3>1, <3>2
    <2>6. QuoteOrder(side) \in Range(queue) =>
             /\ price = b.quotePrice[side] /\ Head(queue) = QuoteOrder(side)
             /\ b.quoteQid[side] \in DOMAIN b.orderOf
        <3>1. QuoteOrder(side) \in Range(queue) => Size(b, side, price, QuoteOrder(side)) # 0
            BY <1>5
        <3> HIDE DEF queue
        <3> QED
            BY <2>2, <2>5, <3>1
    <2> QED
        BY <2>3, <2>4, <2>6
<1> QED
    BY <1>2, <1>3, <1>4, <1>6 DEF BookConsistent, IdsMatch, b

(* In a state in order the live limit orders rest and no others.           *)
LEMMA RestAgrees ==
    ASSUME InOrder
    PROVE  RestsWhileActive
<1> DEFINE s == Now
<1>1. /\ StateOK(s, {}) /\ s.orders = orders /\ s.book = book
      /\ s.symbolOrders = symbolOrders /\ s.limitQueueIds = limitQueueIds
    BY DEF InOrder, Now
<1> HIDE DEF s
<1>2. /\ OrdersOK(s) /\ BookOK(s.book) /\ Listed(s, {})
      /\ \A x \in DOMAIN s.limitQueueIds : InBook(s, x) = Remaining(s.orders[x])
      /\ DOMAIN s.orders = 1..Len(s.orders)
    BY <1>1, StateFacts
<1>3. /\ DOMAIN s.limitQueueIds =
            {x \in 1..Len(s.orders) : /\ s.orders[x].type = "LIMIT"
                                      /\ Active(s.orders[x]) /\ x \notin {}}
      /\ \A x \in DOMAIN s.limitQueueIds :
            InBook(s, x) # 0 => /\ s.limitQueueIds[x] \in DOMAIN s.book.orderOf
                                /\ s.book.orderOf[s.limitQueueIds[x]] = x
      /\ \A x : Queued(s.book, x) => x \in DOMAIN s.limitQueueIds \/ x \in Quotes
    <2>1. Resting(s, {})
        BY <1>1, StateFacts
    <2> QED
        BY ONLY <2>1 DEF Resting
<1>4. ASSUME NEW id \in DOMAIN s.orders
      PROVE  LET order == s.orders[id]
                 resting == order.type = "LIMIT" /\ Active(order)
             IN  /\ resting <=> id \in DOMAIN s.limitQueueIds
                 /\ Places(s.book, id) = IF resting THEN {<<order.side, order.limit>>} ELSE {}
                 /\ resting =>
                       /\ s.limitQueueIds[id] \in DOMAIN s.book.orderOf
                       /\ s.book.orderOf[s.limitQueueIds[id]] = id
                       /\ s.book.levels[order.side][order.limit].sizes[id] = Remaining(order)
    <2> DEFINE o == s.orders[id]
               b == s.book
               side == o.side
               price == o.limit
    <2>1. id \in DOMAIN s.limitQueueIds <=> o.type = "LIMIT" /\ Active(o)
        BY <1>2, <1>3
    <2>2. side \in Sides /\ IsBook(b) /\ BookOK(b)
        BY <1>2, OrderFacts DEF BookOK
    <2>3. CASE id \in DOMAIN s.limitQueueIds
        <3>1. Remaining(o) # 0
            <4>1. ~Filled(o)
                BY <2>1, <2>3 DEF Filled, Active
            <4> QED
                BY <1>2, <4>1, OrderFacts
        <3>2. InBook(s, id) # 0 /\ InBook(s, id) = Remaining(o)
            BY <1>2, <2>3, <3>1
        <3>3. Size(b, side, price, id) # 0 /\ Size(b, side, price, id) = Remaining(o)
            BY <3>2 DEF InBook
        <3>4. s.limitQueueIds[id] \in DOMAIN b.orderOf /\ b.orderOf[s.limitQueueIds[id]] = id
            BY <1>3, <2>3, <3>2
        <3> HIDE DEF o, b, side, price
        <3>5. Places(b, id) = {<<side, price>>}
            BY <2>2, <3>3, OnePlace
        <3>6. b.levels[side][price].sizes[id] = Remaining(o)
            BY <3>3, SMTT(30) DEF Size
        <3> QED
            BY <2>1, <2>3, <3>4, <3>5, <3>6, ZenonT(30) DEF o, b, side, price
    <2>4. CASE id \notin DOMAIN s.limitQueueIds
        <3>1. id \notin Quotes
            <4>1. "BUY" \in Sides
                BY DEF Sides
            <4> QED
                BY <1>2, <4>1, QuoteSides
        <3>2. ~Queued(b, id)
            BY <1>3, <2>4, <3>1
        <3> HIDE DEF b
        <3>3. Places(b, id) = {}
            <4> SUFFICES ASSUME NEW place \in Places(b, id) PROVE FALSE
                OBVIOUS
            <4>1. PICK sd \in Sides : \E p : place = <<sd, p>>
                BY <2>2, PlaceIff
            <4>2. PICK p : place = <<sd, p>>
                BY <4>1
            <4>3. Size(b, sd, p, id) # 0
                BY <2>2, <4>2, PlaceIff
            <4> QED
                BY <3>2, <4>3 DEF Queued
        <3> QED
            BY <2>1, <2>4, <3>3 DEF b
    <2> QED
        BY <2>3, <2>4, ZenonT(30)
<1>5. ListsActive(s.symbolOrders, s.orders)
    <2>1. /\ Rising(s.symbolOrders)
          /\ ToSet(s.symbolOrders) = {id \in 1..Len(s.orders) : Active(s.orders[id]) \/ id \in {}}
        BY <1>2 DEF Listed
    <2> QED
        BY <1>2, <2>1 DEF ListsActive, Rising
<1> QED
    BY <1>1, <1>4, <1>5 DEF RestsWhileActive

(* In a state in order every limit was honoured.                           *)
LEMMA LimitsAgree ==
    ASSUME InOrder
    PROVE  LimitHonoured
<1> DEFINE s == Now
<1>1. StateOK(s, {}) /\ s.orders = orders
    BY DEF InOrder, Now
<1> HIDE DEF s
<1>2. OrdersOK(s) /\ DOMAIN s.orders = 1..Len(s.orders)
    BY <1>1, StateFacts
<1>3. ASSUME NEW id \in DOMAIN s.orders
      PROVE  Fair(s.orders[id], s.orders[id].filled, s.orders[id].value)
    BY <1>2, OrderFacts DEF OrderOK
<1> QED
    BY <1>1, <1>3 DEF LimitHonoured, Fair

(* In a state in order every fill is accounted for.                        *)
LEMMA LedgerAgrees ==
    ASSUME InOrder
    PROVE  FillsAccountedFor
<1> DEFINE s == Now
<1>1. /\ StateOK(s, {}) /\ s.orders = orders /\ s.told = told
      /\ s.cash = cash /\ s.position = position
    BY DEF InOrder, Now
<1>2. /\ OrdersOK(s) /\ LedgerOK(s) /\ DOMAIN s.orders = 1..Len(s.orders)
    <2> HIDE DEF s
    <2> QED
        BY <1>1, StateFacts
<1> DEFINE fs == FilledShares(s)
           fv == FilledValue(s)
<1>3. /\ \A id \in DOMAIN s.orders : s.told[id] = s.orders[id].filled
    <2> HIDE DEF s
    <2> QED
        BY <1>2 DEF OrdersOK
<1>4. /\ cash \in Nat /\ fs - position \in Nat
      /\ (fs - position) * Min(Prices) <= cash - (InitialCash - fv)
      /\ cash - (InitialCash - fv) <= (fs - position) * Max(Prices)
    <2> HIDE DEF s
    <2> QED
        BY <1>1, <1>2 DEF LedgerOK
<1>5. fs \in Int /\ fv \in Int /\ InitialCash \in Nat /\ Min(Prices) \in Nat /\ Max(Prices) \in Nat
    <2> HIDE DEF s
    <2> QED
        BY <1>2, LedgerSums, DepthAssumption, PriceBounds
<1> DEFINE missing == fs - position
           kept == cash - (InitialCash - fv)
           lo == missing * Min(Prices)
           hi == missing * Max(Prices)
<1>6. lo \in Int /\ hi \in Int /\ kept \in Int /\ lo <= kept /\ kept <= hi /\ missing \in Nat
    BY <1>4, <1>5
<1>7. missing >= 0 /\ kept >= lo /\ kept <= hi /\ cash >= 0
    <2> HIDE DEF missing, kept, lo, hi
    <2> QED
        BY <1>4, <1>6
<1> QED
    BY <1>1, <1>3, <1>7 DEF FillsAccountedFor

(* The copies that a book keeps of the same fact always agree.             *)
THEOREM BookStaysConsistent == Spec => []BookConsistent
BY StaysInOrder, BookAgrees, PTL

(* An order rests in the book exactly while it is a live limit order.      *)
THEOREM RestsOnlyWhileActive == Spec => []RestsWhileActive
BY StaysInOrder, RestAgrees, PTL

(* No limit order ever trades at a price worse than its limit.             *)
THEOREM LimitsAreHonoured == Spec => []LimitHonoured
BY StaysInOrder, LimitsAgree, PTL

(* Every fill is reported, and booked in cash and position or in neither.  *)
THEOREM FillsAreAccountedFor == Spec => []FillsAccountedFor
BY StaysInOrder, LedgerAgrees, PTL

-----------------------------------------------------------------------------
(* Price and time priority *)

(* A resting order that gains has less in the book, and is filled when it  *)
(* has nothing left there.                                                 *)
LEMMA GainMeansLess ==
    ASSUME NEW s, StateOK(s, {}), NEW s2, StateOK(s2, {}), NEW n, Serves(s2, s, n),
           NEW x \in 1..n, x \in DOMAIN s.limitQueueIds,
           NEW side, side = s.orders[x].side, NEW p, p = s.orders[x].limit
    PROVE  /\ s2.orders[x].filled # s.orders[x].filled
                => Size(s2.book, side, p, x) # Size(s.book, side, p, x)
           /\ Size(s2.book, side, p, x) = 0 => Filled(s2.orders[x])
           /\ s2.orders[x].filled - s.orders[x].filled
                 = Size(s.book, side, p, x) - Size(s2.book, side, p, x)
<1> DEFINE o == s.orders[x]
           o2 == s2.orders[x]
           none == {}
<1>1. /\ OrdersOK(s) /\ OrdersOK(s2) /\ Resting(s, none) /\ Resting(s2, none)
      /\ InBook(s, x) = Remaining(o)
      /\ x \in DOMAIN s2.limitQueueIds => InBook(s2, x) = Remaining(o2)
      /\ Len(s.orders) \in Nat /\ Len(s2.orders) \in Nat
    BY StateFacts
<1>2. /\ x \in 1..Len(s.orders) /\ x \in 1..Len(s2.orders) /\ Lasts(o2, o) /\ x \in Nat
    <2>1. n \in Nat /\ n <= Len(s.orders) /\ n <= Len(s2.orders) /\ Lasts(o2, o)
        BY DEF Serves
    <2> QED
        BY <1>1, <2>1
<1>3. o.type = "LIMIT" /\ Active(o)
    BY <1>1, RestingFacts
<1>4. /\ OrderOK(o) /\ Remaining(o) \in Nat /\ (Remaining(o) = 0 <=> Filled(o)) /\ o.side \in Sides
      /\ OrderOK(o2) /\ Remaining(o2) \in Nat /\ (Remaining(o2) = 0 <=> Filled(o2))
    BY <1>1, <1>2, OrderFacts
<1>5. /\ o2.type = "LIMIT" /\ o2.side = side /\ o2.limit = p /\ o2.quantity = o.quantity
      /\ o2.status # "CANCELLED" /\ ~Filled(o)
    BY <1>2, <1>3 DEF Lasts, Active, Filled
<1>6. /\ o.quantity \in Nat /\ o.filled \in Nat /\ o2.filled \in Nat
      /\ o2.status \in {"PENDING", "PARTIALLY_FILLED", "FILLED", "CANCELLED"}
    BY <1>4 DEF OrderOK, OrderRecords
<1>7. Size(s.book, side, p, x) = Remaining(o)
    BY <1>1 DEF InBook
<1>8. CASE x \in DOMAIN s2.limitQueueIds
    <2>1. Size(s2.book, side, p, x) = Remaining(o2)
        BY <1>1, <1>5, <1>8 DEF InBook
    <2>2. Remaining(o) = o.quantity - o.filled /\ Remaining(o2) = o.quantity - o2.filled
        BY <1>5 DEF Remaining
    <2>3. /\ o2.filled # o.filled => Remaining(o2) # Remaining(o)
          /\ o2.filled - o.filled = Remaining(o) - Remaining(o2)
        BY <1>6, <2>2
    <2> HIDE DEF o, o2
    <2>4. /\ o2.filled # o.filled => Size(s2.book, side, p, x) # Size(s.book, side, p, x)
          /\ o2.filled - o.filled = Size(s.book, side, p, x) - Size(s2.book, side, p, x)
        BY <1>7, <2>1, <2>3
    <2>5. Size(s2.book, side, p, x) = 0 => Filled(o2)
        BY <1>4, <2>1
    <2> QED
        BY <2>4, <2>5 DEF o, o2
<1>9. CASE x \notin DOMAIN s2.limitQueueIds
    <2>1. ~Active(o2)
        BY <1>1, <1>2, <1>5, <1>9, RestingFacts
    <2>2. Filled(o2)
        BY <1>5, <1>6, <2>1 DEF Active, Filled
    <2>3. x \notin Quotes
        BY <1>2, QuoteSides DEF Sides
    <2>4. ~Queued(s2.book, x)
        BY <1>1, <1>9, <2>3, RestingFacts
    <2>5. Size(s2.book, side, p, x) = 0
        BY <1>4, <2>4 DEF Queued
    <2>6. Size(s.book, side, p, x) # 0
        BY <1>4, <1>5, <1>7
    <2>7. Remaining(o2) = 0
        BY <1>4, <2>2
    <2>8. Remaining(o) = o.quantity - o.filled /\ Remaining(o2) = o.quantity - o2.filled
        BY <1>5 DEF Remaining
    <2> HIDE DEF o, o2
    <2>9. o2.filled - o.filled = Remaining(o) - 0
        BY <1>6, <2>7, <2>8
    <2>10. o2.filled - o.filled = Size(s.book, side, p, x) - Size(s2.book, side, p, x)
        BY <1>7, <2>5, <2>9
    <2> QED
        BY <2>2, <2>5, <2>6, <2>10 DEF o, o2
<1> QED
    BY <1>8, <1>9

(* Who gained in a call, and who has been filled by then.                  *)
KeepsPriority(s2, s) ==
    \A id, other \in DOMAIN s.limitQueueIds :
       /\ s.orders[id].side = s.orders[other].side
       /\ s2.orders[id].filled # s.orders[id].filled
       /\ \/ s.orders[other].limit = s.orders[id].limit /\ other < id
          \/ /\ Len(s2.orders) > Len(s.orders)
             /\ Better(s.orders[id].side, s.orders[other].limit, s.orders[id].limit)
       => Filled(s2.orders[other])

(* Orders served by age, and for an incoming order by price, keep both     *)
(* priorities.                                                             *)
LEMMA PriorityKept ==
    ASSUME NEW s, StateOK(s, {}), NEW s2, StateOK(s2, {}), NEW n, n = Len(s.orders),
           Serves(s2, s, n),
           Len(s2.orders) = n \/ \E side \in Sides : Reached(s2, s, side, n)
    PROVE  KeepsPriority(s2, s)
<1> SUFFICES ASSUME NEW id \in DOMAIN s.limitQueueIds, NEW other \in DOMAIN s.limitQueueIds,
                    s.orders[id].side = s.orders[other].side,
                    s2.orders[id].filled # s.orders[id].filled,
                    \/ s.orders[other].limit = s.orders[id].limit /\ other < id
                    \/ /\ Len(s2.orders) > n
                       /\ Better(s.orders[id].side, s.orders[other].limit, s.orders[id].limit)
             PROVE  Filled(s2.orders[other])
    BY DEF KeepsPriority
<1> DEFINE side == s.orders[id].side
           p == s.orders[id].limit
           p2 == s.orders[other].limit
           none == {}
<1>1. OrdersOK(s) /\ Resting(s, none) /\ n \in Nat
    BY StateFacts
<1>2. /\ id \in 1..n /\ other \in 1..n
      /\ s.orders[other].type = "LIMIT"
    BY <1>1, RestingFacts
<1>3. side \in Sides /\ p2 \in Prices
    BY <1>1, <1>2, OrderFacts DEF OrderOK
<1>4. Size(s2.book, side, p, id) # Size(s.book, side, p, id)
    BY <1>2, GainMeansLess
<1>5. Size(s2.book, side, p2, other) = 0 => Filled(s2.orders[other])
    BY <1>2, GainMeansLess
<1>6. CASE p2 = p /\ other < id
    <2>1. Served(s2.book, s.book, n)
        BY DEF Serves
    <2>2. Size(s2.book, side, p, other) = 0
        BY <1>2, <1>3, <1>4, <1>6, <2>1 DEF Served
    <2> QED
        BY <1>5, <1>6, <2>2
<1>7. CASE Len(s2.orders) > n /\ Better(side, p2, p)
    <2>1. Len(s2.orders) # n
        BY <1>1, <1>7
    <2>2. PICK sd \in Sides : Reached(s2, s, sd, n)
        BY <2>1
    <2>3. BestFirst(s2.book, s.book, n, sd)
        BY <2>2 DEF Reached
    <2>4. sd = side /\ Size(s2.book, side, p2, other) = 0
        BY <1>2, <1>3, <1>4, <1>7, <2>3 DEF BestFirst
    <2> QED
        BY <1>5, <2>4
<1> QED
    BY <1>6, <1>7

(* An order gains only when its side is the one that an incoming order     *)
(* takes from.                                                             *)
LEMMA GainsOnSide ==
    ASSUME NEW s, StateOK(s, {}), NEW s2, StateOK(s2, {}), NEW n, NEW side \in Sides,
           Reached(s2, s, side, n), NEW x \in 1..n, x \in DOMAIN s.limitQueueIds,
           s2.orders[x].filled # s.orders[x].filled
    PROVE  s.orders[x].side = side
<1> DEFINE sd == s.orders[x].side
           p == s.orders[x].limit
<1>1. Serves(s2, s, n) /\ BestFirst(s2.book, s.book, n, side)
    BY DEF Reached
<1>2. Size(s2.book, sd, p, x) # Size(s.book, sd, p, x)
    BY <1>1, GainMeansLess
<1>3. sd \in Sides
    <2>1. OrdersOK(s) /\ Resting(s, {})
        BY StateFacts
    <2>2. x \in 1..Len(s.orders)
        BY <2>1, RestingFacts
    <2> QED
        BY <2>1, <2>2, OrderFacts
<1> QED
    BY <1>1, <1>2, <1>3 DEF BestFirst

(* A submission keeps the priorities.                                      *)
LEMMA SubmitKeeps ==
    ASSUME InOrder, Submit
    PROVE  \E w : Become(w) /\ KeepsPriority(w, Now)
<1>1. PICK side \in Sides, quantity \in Quantities :
         \/ SubmitMarketOrder(side, quantity)
         \/ \E limit \in Prices, tif \in {"DAY", "IOC"} :
               SubmitLimitOrder(side, quantity, limit, tif)
    BY DEF Submit
<1> DEFINE s == Now
           n == Len(s.orders)
<1>2. StateOK(s, {}) /\ Opposite(side) \in Sides
    BY DEF InOrder, Opposite, Sides
<1>3. CASE SubmitMarketOrder(side, quantity)
    <2> DEFINE w == AddOrderToBook(s, NewOrder("MARKET", side, "DAY", quantity, 0))
    <2>1. Become(w) /\ w = AddOrderToBook(s, NewOrder("MARKET", side, "DAY", quantity, 0))
        BY <1>3 DEF SubmitMarketOrder
    <2> HIDE DEF s, w
    <2>2. StateOK(w, {}) /\ Untouched(w, s, n)
        BY <1>2, <2>1, MarketSubmitted
    <2> HIDE DEF n
    <2>3. Serves(w, s, n) /\ Reached(w, s, side, n)
        BY <2>2, UntouchedServes
    <2>4. KeepsPriority(w, s)
        BY <1>2, <2>2, <2>3, PriorityKept DEF n
    <2> QED
        BY <2>1, <2>4 DEF s
<1>4. ASSUME NEW limit \in Prices, NEW tif \in {"DAY", "IOC"},
             SubmitLimitOrder(side, quantity, limit, tif)
      PROVE  \E w : Become(w) /\ KeepsPriority(w, Now)
    <2> DEFINE w == WithLimitOrder(s, side, quantity, limit, tif)
    <2>1. Become(w) /\ w = WithLimitOrder(s, side, quantity, limit, tif)
        BY <1>4 DEF SubmitLimitOrder
    <2> HIDE DEF s, w
    <2>2. StateOK(w, {}) /\ Reached(w, s, Opposite(side), n)
        BY <1>2, <2>1, LimitSubmitted
    <2> HIDE DEF n
    <2>3. Serves(w, s, n)
        BY <2>2 DEF Reached
    <2>4. KeepsPriority(w, s)
        BY <1>2, <2>2, <2>3, PriorityKept DEF n
    <2> QED
        BY <2>1, <2>4 DEF s
<1> QED
    BY <1>1, <1>3, <1>4

(* A cancellation fills no one.                                            *)
LEMMA CancelKeeps ==
    ASSUME InOrder, NEW id, CancelOrder(id)
    PROVE  \E w : Become(w) /\ KeepsPriority(w, Now)
<1> DEFINE s == Now
           w == WithCancelled(s, id)
           none == {}
<1>1. id \in DOMAIN orders /\ Active(orders[id]) /\ Become(w)
    BY DEF CancelOrder
<1>2. StateOK(s, none) /\ id \in 1..Len(s.orders) /\ ~Filled(s.orders[id])
    BY <1>1, NowActive
<1>3. w = WithCancelled(s, id)
    OBVIOUS
<1> HIDE DEF s, w, none
<1>4. Dropped(w, s, id)
    BY <1>2, <1>3, OrderDropped
<1>5. \A x \in 1..Len(s.orders) : w.orders[x].filled = s.orders[x].filled
    BY <1>4 DEF Dropped
<1>6. \A x \in DOMAIN s.limitQueueIds : x \in 1..Len(s.orders)
    <2>1. Resting(s, none)
        BY <1>2, StateFacts
    <2> QED
        BY <2>1, RestingFacts
<1>7. KeepsPriority(w, s)
    BY <1>5, <1>6 DEF KeepsPriority
<1> QED
    BY <1>1, <1>7 DEF s

(* A replacement keeps the priorities of the orders that stay: what it     *)
(* withdraws stood on the side that it does not take from.                 *)
LEMMA ReplaceKeeps ==
    ASSUME InOrder, NEW id, NEW quantity \in Quantities, NEW limit \in Prices,
           ReplaceOrder(id, quantity, limit)
    PROVE  \E w : Become(w) /\ KeepsPriority(w, Now)
<1> DEFINE s == Now
           c == WithCancelled(s, id)
           side == orders[id].side
           tif == orders[id].tif
           w == WithLimitOrder(c, side, quantity, limit, tif)
           none == {}
           n == Len(s.orders)
           other == Opposite(side)
<1>1. id \in DOMAIN orders /\ Active(orders[id]) /\ Become(w)
    BY DEF ReplaceOrder
<1>2. StateOK(s, none) /\ id \in 1..n /\ ~Filled(s.orders[id]) /\ OrderOK(orders[id])
    BY <1>1, NowActive
<1>3. /\ side \in Sides /\ tif \in {"DAY", "IOC"} /\ s.orders[id].side = side
      /\ other \in Sides /\ other # side
    <2>1. side \in Sides /\ tif \in {"DAY", "IOC"}
        BY <1>2 DEF OrderOK, OrderRecords
    <2>2. other \in Sides /\ other # side
        BY <2>1 DEF Opposite, Sides
    <2> QED
        BY <2>1, <2>2 DEF Now
<1>4. c = WithCancelled(s, id) /\ none \subseteq {id}
    OBVIOUS
<1>5. w = WithLimitOrder(c, side, quantity, limit, tif)
    OBVIOUS
<1> HIDE DEF s, c, w, none, side, tif
<1>6. StateOK(c, none) /\ Len(c.orders) = n
    BY <1>2, <1>4, CancelledState DEF none
<1>7. Dropped(c, s, id)
    BY <1>2, <1>4, OrderDropped
<1>8. StateOK(w, none) /\ Reached(w, c, other, n)
    BY <1>3, <1>5, <1>6, LimitSubmitted DEF none
<1>9. /\ c.orders[id].status = "CANCELLED" /\ c.orders[id].filled = s.orders[id].filled
      /\ \A x \in 1..n : x # id => c.orders[x] = s.orders[x]
      /\ DOMAIN c.limitQueueIds = DOMAIN s.limitQueueIds \ {id}
    BY <1>7 DEF Dropped
<1>10. \A x \in DOMAIN s.limitQueueIds : x \in 1..n
    <2>1. Resting(s, none)
        BY <1>2, StateFacts
    <2> QED
        BY <2>1, RestingFacts
<1> HIDE DEF n, other
<1>11. w.orders[id].filled = s.orders[id].filled
    <2>1. Lasts(w.orders[id], c.orders[id])
        BY <1>2, <1>8 DEF Reached, Serves
    <2>2. ~Active(c.orders[id])
        BY <1>9 DEF Active
    <2> QED
        BY <1>9, <2>1, <2>2 DEF Lasts
<1>12. KeepsPriority(w, c)
    <2>1. Serves(w, c, n)
        BY <1>8 DEF Reached
    <2> QED
        BY <1>3, <1>6, <1>8, <2>1, PriorityKept DEF none
<1>13. ASSUME NEW x \in DOMAIN s.limitQueueIds, w.orders[x].filled # s.orders[x].filled
       PROVE  x # id /\ x \in DOMAIN c.limitQueueIds /\ s.orders[x].side = other
    <2>1. /\ x # id /\ x \in 1..n /\ x \in DOMAIN c.limitQueueIds
          /\ c.orders[x] = s.orders[x]
        BY <1>9, <1>10, <1>11, <1>13
    <2>2. c.orders[x].side = other
        BY <1>3, <1>6, <1>8, <1>13, <2>1, GainsOnSide DEF none
    <2> QED
        BY <2>1, <2>2
<1>14. KeepsPriority(w, s)
    <2> SUFFICES ASSUME NEW x \in DOMAIN s.limitQueueIds, NEW y \in DOMAIN s.limitQueueIds,
                        s.orders[x].side = s.orders[y].side,
                        w.orders[x].filled # s.orders[x].filled,
                        \/ s.orders[y].limit = s.orders[x].limit /\ y < x
                        \/ /\ Len(w.orders) > Len(s.orders)
                           /\ Better(s.orders[x].side, s.orders[y].limit, s.orders[x].limit)
                 PROVE  Filled(w.orders[y])
        BY DEF KeepsPriority
    <2>1. x # id /\ x \in DOMAIN c.limitQueueIds /\ s.orders[x].side = other
        BY <1>13
    <2>2. y # id
        BY <1>3, <2>1
    <2>3. /\ y \in DOMAIN c.limitQueueIds /\ c.orders[y] = s.orders[y]
          /\ c.orders[x] = s.orders[x] /\ Len(c.orders) = Len(s.orders)
        BY <1>6, <1>9, <1>10, <2>1, <2>2 DEF n
    <2> QED
        BY <1>12, <2>1, <2>3 DEF KeepsPriority
<1> QED
    BY <1>1, <1>14 DEF s

(* A tick keeps the order of age.                                          *)
LEMMA TickKeeps ==
    ASSUME InOrder, NEW tick \in Ticks, ProcessTick(tick)
    PROVE  \E w : Become(w) /\ KeepsPriority(w, Now)
<1> DEFINE s == Now
           printed == ConsumeTradePrint(s, tick)
           quoted == [printed EXCEPT !.book = OnTick(@, HeldQueueIds(printed), tick)]
           matched == MatchMarketOrders(quoted)
           w == CancelIocOrders(matched)
           n == Len(s.orders)
<1>1. /\ StateOK(s, {}) /\ Become(w)
      /\ printed = ConsumeTradePrint(s, tick)
      /\ matched = MatchMarketOrders(quoted) /\ w = CancelIocOrders(matched)
    BY DEF InOrder, ProcessTick
<1>2. quoted = [printed EXCEPT !.book = OnTick(@, HeldQueueIds(printed), tick)]
    OBVIOUS
<1> HIDE DEF s, printed, matched, w
<1>3. StateOK(printed, {}) /\ Len(printed.orders) = n /\ Serves(printed, s, n)
    BY <1>1, PrintConsumed
<1>4. StateOK(quoted, {}) /\ Len(quoted.orders) = n /\ Untouched(quoted, printed, n)
    BY <1>2, <1>3, TickQuoted
<1> HIDE DEF quoted
<1>5. StateOK(matched, {}) /\ Len(matched.orders) = n /\ Serves(matched, quoted, n)
    BY <1>1, <1>4, MarketMatched
<1>6. StateOK(w, {}) /\ Len(w.orders) = n /\ Untouched(w, matched, n)
    BY <1>1, <1>5, IocCancelled
<1> HIDE DEF n
<1>7. Serves(w, s, n)
    <2>1. Serves(quoted, printed, n) /\ Serves(w, matched, n)
        BY <1>4, <1>6, UntouchedServes
    <2>2. Serves(quoted, s, n)
        BY <1>3, <2>1, ServesTwice
    <2>3. Serves(matched, s, n)
        BY <1>5, <2>2, ServesTwice
    <2> QED
        BY <2>1, <2>3, ServesTwice
<1>8. KeepsPriority(w, s)
    BY <1>1, <1>6, <1>7, PriorityKept DEF n
<1> QED
    BY <1>1, <1>8 DEF s

(* Matching on request keeps the order of age.                             *)
LEMMA AttemptKeeps ==
    ASSUME InOrder, AttemptFills
    PROVE  \E w : Become(w) /\ KeepsPriority(w, Now)
<1> DEFINE s == Now
           w == MatchMarketOrders(s)
           n == Len(s.orders)
<1>1. StateOK(s, {}) /\ Become(w) /\ w = MatchMarketOrders(s)
    BY DEF InOrder, AttemptFills
<1> HIDE DEF s, w
<1>2. StateOK(w, {}) /\ Len(w.orders) = n /\ Serves(w, s, n)
    BY <1>1, MarketMatched
<1>3. KeepsPriority(w, s)
    <2> HIDE DEF n
    <2> QED
        BY <1>1, <1>2, PriorityKept DEF n
<1> QED
    BY <1>1, <1>3 DEF s

(* A resting order gains only when every older one at its price has all it *)
(* wants, and from an incoming order only when those at better prices have *)
(* all they want.                                                          *)
THEOREM PriorityIsKept == Spec => PriceTimePriority
<1> DEFINE Prioritised ==
              \A id, other \in DOMAIN orders :
                 /\ Rests(id) /\ Rests(other) /\ orders[id].side = orders[other].side
                 /\ Gained(id) > 0
                 /\ \/ orders[other].limit = orders[id].limit /\ other < id
                    \/ /\ Len(orders') > Len(orders)
                       /\ IF orders[id].side = "BUY" THEN orders[other].limit > orders[id].limit
                                                     ELSE orders[other].limit < orders[id].limit
                 => Filled(orders'[other])
<1>1. ASSUME InOrder, [Next]_vars PROVE [Prioritised]_vars
    <2>1. /\ Now.orders = orders /\ Now.limitQueueIds = limitQueueIds
          /\ \A x \in DOMAIN orders : orders[x].filled \in Nat
        <3>1. Now.orders = orders /\ Now.limitQueueIds = limitQueueIds
            BY DEF Now
        <3> DEFINE s == Now
        <3>2. StateOK(s, {})
            BY <1>1 DEF InOrder
        <3> HIDE DEF s
        <3>3. OrdersOK(s) /\ DOMAIN s.orders = 1..Len(s.orders)
            BY <3>2, StateFacts
        <3>4. \A x \in DOMAIN s.orders : s.orders[x].filled \in Nat
            BY <3>3, OrderFacts
        <3> QED
            BY <3>1, <3>4 DEF s
    <2>2. ASSUME NEW w, Become(w), KeepsPriority(w, Now) PROVE Prioritised
        <3>1. orders' = w.orders
            BY <2>2 DEF Become
        <3> SUFFICES ASSUME NEW id \in DOMAIN orders, NEW other \in DOMAIN orders,
                            Rests(id), Rests(other), orders[id].side = orders[other].side,
                            Gained(id) > 0,
                            \/ orders[other].limit = orders[id].limit /\ other < id
                            \/ /\ Len(orders') > Len(orders)
                               /\ IF orders[id].side = "BUY"
                                  THEN orders[other].limit > orders[id].limit
                                  ELSE orders[other].limit < orders[id].limit
                     PROVE  Filled(orders'[other])
            OBVIOUS
        <3>2. w.orders[id].filled # orders[id].filled
            <4>1. w.orders[id].filled - orders[id].filled > 0
                BY <3>1 DEF Gained
            <4> QED
                BY <2>1, <4>1
        <3>3. id \in DOMAIN Now.limitQueueIds /\ other \in DOMAIN Now.limitQueueIds
            BY <2>1 DEF Rests
        <3> QED
            BY <2>1, <2>2, <3>1, <3>2, <3>3 DEF KeepsPriority, Better
    <2> HIDE DEF Prioritised
    <2>3. CASE Submit
        BY <1>1, <2>2, <2>3, SubmitKeeps
    <2>4. ASSUME NEW id \in 1..MaxOrders, CancelOrder(id) PROVE Prioritised
        BY <1>1, <2>2, <2>4, CancelKeeps
    <2>5. ASSUME NEW id \in 1..MaxOrders, NEW quantity \in Quantities, NEW limit \in Prices,
                 ReplaceOrder(id, quantity, limit)
          PROVE  Prioritised
        BY <1>1, <2>2, <2>5, ReplaceKeeps
    <2>6. ASSUME NEW tick \in Ticks, ProcessTick(tick) PROVE Prioritised
        BY <1>1, <2>2, <2>6, TickKeeps
    <2>7. CASE AttemptFills
        BY <1>1, <2>2, <2>7, AttemptKeeps
    <2> QED
        BY <1>1, <2>3, <2>4, <2>5, <2>6, <2>7 DEF Next
<1>2. Spec => [][Prioritised]_vars
    <2> HIDE DEF Prioritised
    <2> QED
        BY <1>1, StaysInOrder, PTL DEF Spec
<1> QED
    BY <1>2 DEF PriceTimePriority
-----------------------------------------------------------------------------
(* What a print gives *)

(* No order is named twice.                                                *)
Distinct(taken) ==
    /\ taken \in Seq(Takings)
    /\ \A k, m \in DOMAIN taken : taken[k].id = taken[m].id => k = m

(* What the orders of a set gave up together.                              *)
GivenBy(taken, ids) ==
    Total([k \in DOMAIN taken |-> IF taken[k].id \in ids THEN taken[k].size ELSE 0])

(* What some orders gave up is no more than what all did.                  *)
LEMMA GivenType ==
    ASSUME NEW taken \in Seq(Takings), NEW ids
    PROVE  /\ GivenBy(taken, ids) \in Nat /\ SizeOf(taken) \in Nat
           /\ GivenBy(taken, ids) <= SizeOf(taken)
           /\ ids = {} => GivenBy(taken, ids) = 0
<1> DEFINE n == Len(taken)
           a == [k \in DOMAIN taken |-> IF taken[k].id \in ids THEN taken[k].size ELSE 0]
           b == [k \in DOMAIN taken |-> taken[k].size]
<1>1. n \in Nat /\ DOMAIN taken = 1..n /\ \A k \in 1..n : taken[k] \in Takings
    OBVIOUS
<1> HIDE DEF n
<1>2. \A k \in 1..n : taken[k].size \in Nat
    BY <1>1 DEF Takings
<1>3. /\ a \in [1..n -> Nat] /\ b \in [1..n -> Nat] /\ \A k \in 1..n : a[k] <= b[k]
      /\ ids = {} => \A k \in 1..n : a[k] = 0
    BY <1>1, <1>2
<1>4. GivenBy(taken, ids) = Total(a) /\ SizeOf(taken) = Total(b)
    BY DEF GivenBy, SizeOf
<1> HIDE DEF a, b
<1>5. a \in [1..n -> Int] /\ b \in [1..n -> Int]
    BY <1>3
<1>6. Total(a) \in Nat /\ Total(b) \in Nat
    BY <1>1, <1>3, <1>5, TotalType
<1>7. Total(a) <= Total(b)
    BY <1>1, <1>3, <1>5, TotalMonotone
<1>8. ids = {} => Total(a) = 0
    BY <1>1, <1>3, <1>5, TotalZero
<1> QED
    BY <1>4, <1>6, <1>7, <1>8

(* One order less gave up less by what that order did.                     *)
LEMMA GivenOneLess ==
    ASSUME NEW taken, Distinct(taken), NEW k \in DOMAIN taken, NEW ids, taken[k].id \in ids,
           NEW rest, rest = ids \ {taken[k].id}
    PROVE  GivenBy(taken, ids) = taken[k].size + GivenBy(taken, rest)
<1> DEFINE n == Len(taken)
           a == [i \in DOMAIN taken |-> IF taken[i].id \in ids THEN taken[i].size ELSE 0]
           b == [i \in DOMAIN taken |-> IF taken[i].id \in rest THEN taken[i].size ELSE 0]
           d == taken[k].size
<1>1. /\ n \in Nat /\ DOMAIN taken = 1..n /\ \A i \in 1..n : taken[i] \in Takings
      /\ \A i \in 1..n : taken[i].id = taken[k].id => i = k
    BY DEF Distinct
<1> HIDE DEF n
<1>2. \A i \in 1..n : taken[i].size \in Nat
    BY <1>1 DEF Takings
<1>3. a \in [1..n -> Int] /\ b \in [1..n -> Int] /\ d \in Int /\ k \in 1..n
    BY <1>1, <1>2
<1>4. a[k] = d /\ b[k] = 0
    OBVIOUS
<1>5. \A i \in 1..n : i # k => a[i] = b[i]
    <2> SUFFICES ASSUME NEW i \in 1..n, i # k PROVE a[i] = b[i]
        OBVIOUS
    <2>1. taken[i].id # taken[k].id
        BY <1>1
    <2>2. taken[i].id \in ids <=> taken[i].id \in rest
        BY <2>1
    <2> QED
        BY <1>1, <2>2
<1>6. GivenBy(taken, ids) = Total(a) /\ GivenBy(taken, rest) = Total(b)
    BY DEF GivenBy
<1> HIDE DEF a, b, d
<1>7. Changed(a, b, n, k, d)
    BY <1>3, <1>4, <1>5 DEF Changed
<1>8. Total(a) = Total(b) + d
    BY <1>1, <1>7, TotalChanged
<1>9. Total(b) \in Int
    BY <1>1, <1>3, TotalType
<1> QED
    BY <1>3, <1>6, <1>8, <1>9 DEF d

(* The order that a sum over d adds last.                                  *)
Pick(d) == CHOOSE x \in d : TRUE

(* it has the sum of v over every part of S.                               *)
Adds(it, S, v) ==
    it = [d \in SUBSET S |-> IF d = {} THEN 0 ELSE v[Pick(d)] + it[d \ {Pick(d)}]]

(* Every order of S gave up what v says.                                   *)
Gave(taken, S, v) ==
    \A x \in S : \E k \in DOMAIN taken : taken[k].id = x /\ taken[k].size = v[x]

(* What the parts of a set gave up is the sum over each part.              *)
LEMMA GivenAdds ==
    ASSUME NEW taken, Distinct(taken), NEW S, NEW v, Gave(taken, S, v), NEW d \in SUBSET S
    PROVE  GivenBy(taken, d) =
              IF d = {} THEN 0 ELSE v[Pick(d)] + GivenBy(taken, d \ {Pick(d)})
<1>1. CASE d = {}
    <2>1. taken \in Seq(Takings)
        BY DEF Distinct
    <2> QED
        BY <1>1, <2>1, GivenType
<1>2. CASE d # {}
    <2> DEFINE x == Pick(d)
    <2>1. x \in d
        BY <1>2 DEF Pick
    <2> HIDE DEF x
    <2>2. PICK k \in DOMAIN taken : taken[k].id = x /\ taken[k].size = v[x]
        BY <2>1 DEF Gave
    <2> DEFINE rest == d \ {x}
    <2>3. taken[k].id \in d /\ rest = d \ {taken[k].id}
        BY <2>1, <2>2
    <2> HIDE DEF rest
    <2>4. GivenBy(taken, d) = taken[k].size + GivenBy(taken, rest)
        BY <2>3, GivenOneLess
    <2> QED
        BY <1>2, <2>2, <2>4 DEF rest, x
<1> QED
    BY <1>1, <1>2

(* There is such a sum.                                                    *)
LEMMA SumExists ==
    ASSUME NEW taken, Distinct(taken), NEW S, NEW v, Gave(taken, S, v)
    PROVE  \E it : Adds(it, S, v)
<1> DEFINE it == [d \in SUBSET S |-> GivenBy(taken, d)]
<1>1. ASSUME NEW d \in SUBSET S
      PROVE  it[d] = IF d = {} THEN 0 ELSE v[Pick(d)] + it[d \ {Pick(d)}]
    <2>1. GivenBy(taken, d) =
              IF d = {} THEN 0 ELSE v[Pick(d)] + GivenBy(taken, d \ {Pick(d)})
        BY GivenAdds
    <2> DEFINE x == Pick(d)
    <2>2. d \ {x} \in SUBSET S
        OBVIOUS
    <2>3. it[d] = GivenBy(taken, d) /\ it[d \ {x}] = GivenBy(taken, d \ {x})
        BY <2>2
    <2>4. {} \in SUBSET S /\ (d = {} => it[d] = 0)
        BY <2>1, <2>3
    <2>5. d # {} => it[d] = v[x] + it[d \ {x}]
        <3> HIDE DEF it
        <3>1. d # {} => GivenBy(taken, d) = v[x] + GivenBy(taken, d \ {x})
            BY <2>1
        <3> HIDE DEF x
        <3> QED
            BY <2>3, <3>1
    <2> HIDE DEF it
    <2> QED
        BY <2>4, <2>5
<1>2. it = [d \in SUBSET S |-> it[d]]
    OBVIOUS
<1> HIDE DEF it
<1>3. Adds(it, S, v)
    BY <1>1, <1>2 DEF Adds
<1> QED
    BY <1>3

(* The sum over a set is what its orders gave up.                          *)
LEMMA SumIsGiven ==
    ASSUME NEW taken, Distinct(taken), NEW S, IsFiniteSet(S), NEW v, Gave(taken, S, v),
           NEW it, Adds(it, S, v)
    PROVE  it[S] = GivenBy(taken, S)
<1> DEFINE n == Cardinality(S)
<1>1. n \in Nat
    BY FS_CardinalityType
<1>2. ASSUME NEW d \in SUBSET S
      PROVE  it[d] = IF d = {} THEN 0 ELSE v[Pick(d)] + it[d \ {Pick(d)}]
    BY DEF Adds
<1> HIDE DEF n
<1> DEFINE K == {k \in 0..n : \A d \in SUBSET S :
                                 Cardinality(d) <= k => it[d] = GivenBy(taken, d)}
<1>3. ASSUME NEW d \in SUBSET S
      PROVE  IsFiniteSet(d) /\ Cardinality(d) \in Nat /\ (Cardinality(d) = 0 <=> d = {})
    <2>1. IsFiniteSet(d)
        BY FS_Subset
    <2> QED
        BY <2>1, FS_CardinalityType, FS_EmptySet
<1>4. 0 \in K
    <2> SUFFICES ASSUME NEW d \in SUBSET S, Cardinality(d) <= 0
                 PROVE  it[d] = GivenBy(taken, d)
        BY <1>1
    <2>1. d = {}
        BY <1>3
    <2>2. it[d] = 0
        BY <1>2, <2>1
    <2>3. GivenBy(taken, d) = 0
        BY <2>1, GivenType DEF Distinct
    <2> QED
        BY <2>2, <2>3
<1>5. ASSUME NEW k \in 0..(n - 1), k \in K PROVE k + 1 \in K
    <2> SUFFICES ASSUME NEW d \in SUBSET S, Cardinality(d) <= k + 1
                 PROVE  it[d] = GivenBy(taken, d)
        BY <1>1
    <2>1. CASE d = {}
        <3>1. Cardinality(d) <= k
            BY <1>3, <2>1
        <3> QED
            BY <1>5, <3>1
    <2>2. CASE d # {}
        <3> DEFINE x == Pick(d)
                   e == d \ {x}
        <3>1. x \in d /\ e \in SUBSET S
            BY <2>2 DEF Pick
        <3>2. it[d] = v[x] + it[e]
            BY <1>2, <2>2
        <3>3. GivenBy(taken, d) = v[x] + GivenBy(taken, e)
            <4>1. GivenBy(taken, d) =
                     IF d = {} THEN 0 ELSE v[Pick(d)] + GivenBy(taken, d \ {Pick(d)})
                BY GivenAdds
            <4> QED
                BY <2>2, <4>1
        <3>4. Cardinality(e) = Cardinality(d) - 1
            BY <1>3, <3>1, FS_RemoveElement
        <3> HIDE DEF x, e
        <3>5. Cardinality(e) <= k
            BY <1>3, <3>4
        <3>6. it[e] = GivenBy(taken, e)
            BY <1>5, <3>1, <3>5
        <3> QED
            BY <3>2, <3>3, <3>6
    <2> QED
        BY <2>1, <2>2
<1>6. n \in K
    <2> HIDE DEF K
    <2>1. \A k \in 0..(n - 1) : k \in K => k + 1 \in K
        BY <1>5
    <2>2. \A k \in 0..n : k \in K
        BY <1>1, <1>4, <2>1, Induction
    <2> QED
        BY <1>1, <2>2
<1>7. S \in SUBSET S /\ Cardinality(S) <= n
    BY <1>1 DEF n
<1> QED
    BY <1>6, <1>7

(* x is among those that gave up, with what it gained.                     *)
GaveWhat(taken, x, gain) == \E k \in DOMAIN taken : taken[k].id = x /\ taken[k].size = gain

(* A resting order gains what the level gave up of it, and whoever gains   *)
(* stands behind the displayed quote, which has given up all.              *)
LEMMA LevelGives ==
    ASSUME NEW s, StateOK(s, {}), NEW side \in Sides, NEW price \in Prices,
           NEW quantity \in Nat, NEW done, NEW s2, Takes(s2, s, side, price, quantity, done),
           NEW x \in DOMAIN s.limitQueueIds, s2.orders[x].filled # s.orders[x].filled
    PROVE  /\ s.orders[x].side = side
           /\ GaveWhat(done.taken, x, s2.orders[x].filled - s.orders[x].filled)
           /\ Size(s.book, side, price, QuoteOrder(side)) # 0
                 => GaveWhat(done.taken, QuoteOrder(side),
                             Size(s.book, side, price, QuoteOrder(side)))
<1> DEFINE b == s.book
           b2 == s2.book
           taken == done.taken
           sd == s.orders[x].side
           p == s.orders[x].limit
           n == Len(s.orders)
           q == QuoteOrder(side)
           none == {}
<1>1. /\ OrdersOK(s) /\ BookOK(b) /\ Resting(s, none) /\ n \in Nat
    BY StateFacts
<1>2. x \in 1..n /\ x \in Int /\ q \in Int /\ q < x
    <2>1. x \in 1..n
        BY <1>1, RestingFacts
    <2> QED
        BY <1>1, <2>1 DEF QuoteOrder
<1>3. sd \in Sides
    BY <1>1, <1>2, OrderFacts
<1>4. /\ StateOK(s2, none) /\ Serves(s2, s, n) /\ OnlyLevel(b2, b, side, price)
      /\ b2 = done.book
    BY LevelTaken
<1>5. Consumed(b2, taken, b, side, price, quantity)
    BY <1>1, <1>4, ConsumedAtPrice DEF BookOK, Takes
<1>6. Ascends(b, side, price) /\ IsBook(b) /\ IsBook(b2)
    <2>1. BookOK(b2)
        BY <1>4, StateFacts
    <2> QED
        BY <1>1, <2>1 DEF BookOK, Aged
<1>7. Took(b2, b, side, price, taken) /\ OldestFirst(b2, b, side, price)
    BY <1>5, <1>6 DEF Consumed
<1>8. /\ Size(b2, sd, p, x) # Size(b, sd, p, x)
      /\ s2.orders[x].filled - s.orders[x].filled = Size(b, sd, p, x) - Size(b2, sd, p, x)
    BY <1>2, <1>4, GainMeansLess
<1> HIDE DEF b, b2, taken, q, n, sd, p, none
<1>9. sd = side /\ p = price
    <2> SUFFICES ASSUME sd # side \/ p # price PROVE FALSE
        OBVIOUS
    <2> QED
        BY <1>3, <1>4, <1>8, SameSize
<1>10. ASSUME NEW y \in Int, Size(b2, side, price, y) # Size(b, side, price, y)
       PROVE  GaveWhat(taken, y, Size(b, side, price, y) - Size(b2, side, price, y))
    <2>1. PICK k \in DOMAIN taken : taken[k].id = y
        BY <1>7, <1>10 DEF Took
    <2>2. Size(b2, side, price, y) = Size(b, side, price, y) - taken[k].size
        BY <1>7, <2>1 DEF Took
    <2>3. taken[k].size \in Nat
        <3>1. taken \in Seq(Takings)
            BY <1>7 DEF Took
        <3>2. taken[k] \in Takings
            BY <3>1
        <3> QED
            BY <3>2 DEF Takings
    <2>4. Size(b, side, price, y) \in Nat /\ Size(b2, side, price, y) \in Nat
        BY <1>6, SizeType
    <2>5. taken[k].size = Size(b, side, price, y) - Size(b2, side, price, y)
        BY <2>2, <2>3, <2>4
    <2> QED
        BY <2>1, <2>5 DEF GaveWhat
<1>11. GaveWhat(taken, x, s2.orders[x].filled - s.orders[x].filled)
    BY <1>2, <1>8, <1>9, <1>10
<1>12. Size(b, side, price, q) # 0 => GaveWhat(taken, q, Size(b, side, price, q))
    <2> SUFFICES ASSUME Size(b, side, price, q) # 0
                 PROVE  GaveWhat(taken, q, Size(b, side, price, q))
        OBVIOUS
    <2>1. Size(b2, side, price, q) = 0
        BY <1>2, <1>7, <1>8, <1>9 DEF OldestFirst
    <2>2. Size(b, side, price, q) \in Nat
        BY <1>6, SizeType
    <2>3. Size(b, side, price, q) - Size(b2, side, price, q) = Size(b, side, price, q)
        BY <2>1, <2>2
    <2>4. GaveWhat(taken, q, Size(b, side, price, q) - Size(b2, side, price, q))
        BY <1>2, <1>10, <2>1
    <2> QED
        BY <2>3, <2>4
<1> QED
    BY <1>9, <1>11, <1>12 DEF sd, b, q, taken

(* What a print gives the orders of a side, and what it gives the quote    *)
(* displayed there, is no more than it brings.                             *)
LEMMA PrintGives ==
    ASSUME NEW s, StateOK(s, {}), NEW tick \in Ticks, NEW s2, s2 = ConsumeTradePrint(s, tick),
           NEW side \in Sides, NEW S \in SUBSET DOMAIN s.limitQueueIds, S # {},
           \A x \in S : s.orders[x].side = side /\ s2.orders[x].filled # s.orders[x].filled,
           NEW v, \A x \in S : v[x] = s2.orders[x].filled - s.orders[x].filled
    PROVE  /\ \E it : Adds(it, S, v)
           /\ \A it : Adds(it, S, v) =>
                 it[S] + Size(s.book, side, tick.price, QuoteOrder(side)) <= tick.volume
<1> DEFINE sides == {sd \in Sides : HasLevel(s.book, sd, tick.price)}
           hit == IF "SELL" \in sides THEN "SELL" ELSE "BUY"
           price == tick.price
           done == ConsumeAtPrice(s.book, hit, price, tick.volume)
           quantity == tick.volume
           taken == done.taken
           q == QuoteOrder(side)
           shown == Size(s.book, side, price, q)
<1>1. PICK x0 \in S : TRUE
    OBVIOUS
<1>2. ~(tick.volume = 0 \/ sides = {})
    <2> SUFFICES ASSUME tick.volume = 0 \/ sides = {} PROVE FALSE
        OBVIOUS
    <2>1. s2 = s
        BY DEF ConsumeTradePrint
    <2> QED
        BY <1>1, <2>1
<1>3. hit \in sides /\ hit \in Sides
    BY <1>2 DEF Sides
<1>4. price \in Prices
    <2>1. BookOK(s.book)
        BY StateFacts
    <2>2. price \in DOMAIN s.book.levels[hit]
        BY <1>3 DEF HasLevel
    <2> QED
        BY <1>3, <2>1, <2>2 DEF BookOK
<1>5. quantity \in Nat
    BY DepthAssumption
<1>6. Takes(s2, s, hit, price, quantity, done)
    BY <1>2 DEF ConsumeTradePrint, Takes
<1>7. hit \in Sides
    BY <1>3
<1> HIDE DEF hit, price, quantity, done
<1>8. ASSUME NEW x \in S
      PROVE  /\ s.orders[x].side = hit
             /\ GaveWhat(done.taken, x, s2.orders[x].filled - s.orders[x].filled)
             /\ Size(s.book, hit, price, QuoteOrder(hit)) # 0
                   => GaveWhat(done.taken, QuoteOrder(hit), Size(s.book, hit, price, QuoteOrder(hit)))
    <2>1. x \in DOMAIN s.limitQueueIds /\ s2.orders[x].filled # s.orders[x].filled
        OBVIOUS
    <2> QED
        BY <1>4, <1>5, <1>6, <1>7, <2>1, LevelGives
<1>9. hit = side
    BY <1>1, <1>8
<1>10. /\ SizeOf(done.taken) <= quantity
       /\ Consumed(done.book, done.taken, s.book, hit, price, quantity)
    <2>1. BookOK(s.book)
        BY StateFacts
    <2>2. Consumed(done.book, done.taken, s.book, hit, price, quantity)
        BY <1>5, <1>6, <1>7, <2>1, ConsumedAtPrice DEF BookOK, Takes
    <2> QED
        BY <2>2 DEF Consumed
<1> HIDE DEF taken, q, shown
<1>11. Distinct(taken) /\ SizeOf(taken) <= quantity
    BY <1>10 DEF Consumed, Took, Distinct, taken
<1>12. Gave(taken, S, v)
    <2>1. ASSUME NEW x \in S
          PROVE  \E k \in DOMAIN taken : taken[k].id = x /\ taken[k].size = v[x]
        BY <1>8 DEF GaveWhat, taken
    <2> QED
        BY <2>1 DEF Gave
<1>13. shown # 0 => GaveWhat(taken, q, shown)
    BY <1>1, <1>8, <1>9 DEF taken, q, shown
<1>14. /\ S \subseteq 1..Len(s.orders) /\ Len(s.orders) \in Nat /\ IsBook(s.book)
    <2>1. Resting(s, {}) /\ Len(s.orders) \in Nat /\ BookOK(s.book)
        BY StateFacts
    <2> QED
        BY <2>1, RestingFacts DEF BookOK
<1>15. IsFiniteSet(S)
    <2> DEFINE m == Len(s.orders)
    <2>1. m \in Int /\ 1 \in Int /\ S \subseteq 1..m
        BY <1>14
    <2> HIDE DEF m
    <2>2. IsFiniteSet(1..m)
        BY <2>1, FS_Interval
    <2> QED
        BY ONLY <2>1, <2>2, FS_Subset
<1>16. shown \in Nat
    BY <1>14, SizeType DEF shown
<1>17. q \notin S
    <2>1. q \in {-1, -2}
        BY DEF q, QuoteOrder
    <2>2. \A x \in S : x \in Nat
        BY <1>14
    <2> QED
        BY ONLY <2>1, <2>2
<1>18. GivenBy(taken, S) \in Nat /\ GivenBy(taken, S) + shown <= quantity
    <2> DEFINE all == S \cup {q}
    <2>1. taken \in Seq(Takings)
        BY <1>11 DEF Distinct
    <2>2. /\ GivenBy(taken, S) \in Nat /\ GivenBy(taken, S) <= SizeOf(taken)
          /\ GivenBy(taken, all) \in Nat /\ GivenBy(taken, all) <= SizeOf(taken)
          /\ SizeOf(taken) \in Nat
        BY <2>1, GivenType
    <2>3. CASE shown = 0
        BY <1>5, <1>11, <2>2, <2>3
    <2>4. CASE shown # 0
        <3>1. PICK k \in DOMAIN taken : taken[k].id = q /\ taken[k].size = shown
            BY <1>13, <2>4 DEF GaveWhat
        <3>2. taken[k].id \in all /\ S = all \ {taken[k].id}
            BY <1>17, <3>1
        <3> HIDE DEF all
        <3>3. GivenBy(taken, all) = taken[k].size + GivenBy(taken, S)
            BY <1>11, <3>2, GivenOneLess
        <3> QED
            BY <1>5, <1>11, <1>16, <2>2, <3>1, <3>3
    <2> QED
        BY <2>3, <2>4
<1>19. \E it : Adds(it, S, v)
    BY <1>11, <1>12, SumExists
<1>20. ASSUME NEW it, Adds(it, S, v) PROVE it[S] + shown <= quantity
    <2>1. it[S] = GivenBy(taken, S)
        BY <1>11, <1>12, <1>15, <1>20, SumIsGiven
    <2> QED
        BY <1>18, <2>1
<1> QED
    BY <1>19, <1>20 DEF shown, q, price, quantity

(* Without a market order at work, matching changes no order.              *)
LEMMA NobodyTakes ==
    ASSUME NEW s, StateOK(s, {}),
           \A x \in DOMAIN s.orders : s.orders[x].type = "MARKET" => ~Active(s.orders[x]),
           NEW s2, s2 = MatchMarketOrders(s)
    PROVE  s2.orders = s.orders
<1> DEFINE working == {id \in DOMAIN s.orders :
                          s.orders[id].type = "MARKET" /\ Active(s.orders[id])}
           takers == Kept(s.symbolOrders, working)
           matched == TakeEach(s, takers)
           ids == {id \in ToSet(takers) : Filled(matched.orders[id])}
           n == 0
<1>1. working = {} /\ s2 = Unlist(matched, ids)
    BY DEF MatchMarketOrders
<1>2. n \in Nat /\ DOMAIN takers = 1..n
    <2> DEFINE l == s.symbolOrders
               w == working
    <2>1. l \in Seq(Int) /\ Rising(l)
        BY StateFacts DEF Listed
    <2> HIDE DEF l, w
    <2>2. Kept(l, w) \in Seq(Int) /\ ToSet(Kept(l, w)) = ToSet(l) \cap w
        BY <2>1, KeptRising
    <2>3. takers \in Seq(Int) /\ ToSet(takers) = {}
        BY <1>1, <2>2 DEF l, w
    <2> HIDE DEF takers
    <2>4. \A i \in 1..Len(takers) : takers[i] \in ToSet(takers)
        BY <2>3 DEF ToSet
    <2>5. Len(takers) \in Nat /\ DOMAIN takers = 1..Len(takers)
        BY <2>3
    <2>6. Len(takers) = 0
        BY <2>3, <2>4, <2>5
    <2> QED
        BY <2>5, <2>6
<1> HIDE DEF takers, n, working
<1>3. PICK h : Takers!Runs(h, 0, s, takers, n) /\ TakeEach(s, takers) = h[n]
    BY <1>2, TakerRuns
<1>4. matched = s
    BY <1>3 DEF Takers!Runs, n
<1> HIDE DEF matched, ids
<1>5. OrdersOK(s) /\ LedgerOK(s) /\ s2 = Unlist(s, ids)
    BY <1>1, <1>4, StateFacts
<1> QED
    BY ONLY <1>5, UnlistedFields, ZenonT(60)

(* A print gives the orders behind the displayed quote no more than what   *)
(* the quote leaves of it: for any prices, quantities and ticks, any cash  *)
(* and any number of orders.                                               *)
THEOREM PrintsAreShared == Spec => PrintNeverOversold
<1> DEFINE Reach(side) == {id \in DOMAIN orders : /\ Rests(id) /\ Gained(id) > 0
                                                  /\ orders[id].side = side}
           NoTaker == \A id \in DOMAIN orders :
                         orders[id].type = "MARKET" => ~Active(orders[id])
           Shared == \A tick \in Ticks, side \in Sides :
                        /\ Reach(side) # {} /\ NoTaker
                        /\ ProcessTick(tick)
                        => MapThenSumSet(Gained, Reach(side)) + Displayed(side, tick.price)
                              <= tick.volume
<1>1. ASSUME InOrder, NEW tick \in Ticks, NEW side \in Sides, Reach(side) # {}, NoTaker,
             ProcessTick(tick)
      PROVE  MapThenSumSet(Gained, Reach(side)) + Displayed(side, tick.price) <= tick.volume
    <2> DEFINE s == Now
               printed == ConsumeTradePrint(s, tick)
               quoted == [printed EXCEPT !.book = OnTick(@, HeldQueueIds(printed), tick)]
               matched == MatchMarketOrders(quoted)
               w == CancelIocOrders(matched)
               n == Len(s.orders)
               S == Reach(side)
               v == [x \in S |-> Gained(x)]
    <2>1. /\ StateOK(s, {}) /\ Become(w)
          /\ printed = ConsumeTradePrint(s, tick)
          /\ matched = MatchMarketOrders(quoted) /\ w = CancelIocOrders(matched)
          /\ quoted = [printed EXCEPT !.book = OnTick(@, HeldQueueIds(printed), tick)]
        BY <1>1 DEF InOrder, ProcessTick
    <2>2. orders' = w.orders
        BY <2>1 DEF Become
    <2>3. /\ s.orders = orders /\ s.limitQueueIds = limitQueueIds /\ s.book = book
          /\ DOMAIN orders = 1..n
        <3>1. s.orders = orders /\ s.limitQueueIds = limitQueueIds /\ s.book = book
            BY DEF Now
        <3> HIDE DEF s
        <3> QED
            BY <2>1, <3>1, StateFacts
    <2> HIDE DEF s, printed, quoted, matched, w
    <2>4. StateOK(printed, {}) /\ Len(printed.orders) = n /\ Serves(printed, s, n)
        BY <2>1, PrintConsumed
    <2>5. StateOK(quoted, {}) /\ quoted.orders = printed.orders
        BY <2>1, <2>4, TickQuoted
    <2>6. \A x \in DOMAIN quoted.orders :
             quoted.orders[x].type = "MARKET" => ~Active(quoted.orders[x])
        <3>1. DOMAIN printed.orders = 1..n
            BY <2>4, StateFacts
        <3>2. ASSUME NEW x \in 1..n, printed.orders[x].type = "MARKET"
              PROVE  ~Active(printed.orders[x])
            <4>1. Lasts(printed.orders[x], s.orders[x])
                BY <2>4 DEF Serves
            <4>2. ~Active(s.orders[x])
                BY <1>1, <2>3, <3>2, <4>1 DEF Lasts
            <4> QED
                BY <4>1, <4>2 DEF Lasts
        <3> QED
            BY <2>5, <3>1, <3>2
    <2>7. matched.orders = quoted.orders
        BY <2>1, <2>5, <2>6, NobodyTakes
    <2>8. w.orders = matched.orders
        <3>1. StateOK(matched, {})
            BY <2>1, <2>5, MarketMatched
        <3> QED
            BY <2>1, <3>1, IocCancelled
    <2>9. orders' = printed.orders
        BY <2>2, <2>5, <2>7, <2>8
    <2>10. \A x \in DOMAIN orders : Gained(x) = printed.orders[x].filled - s.orders[x].filled
        BY <2>3, <2>9 DEF Gained
    <2>11. /\ S \in SUBSET DOMAIN s.limitQueueIds /\ S # {} /\ S \subseteq DOMAIN orders
           /\ \A x \in S : s.orders[x].side = side /\ Gained(x) > 0
        BY <1>1, <2>3 DEF Rests
    <2> HIDE DEF S
    <2>12. \A x \in S : v[x] = Gained(x)
        OBVIOUS
    <2> HIDE DEF v, n
    <2>13. \A x \in S : v[x] = printed.orders[x].filled - s.orders[x].filled
        BY <2>10, <2>11, <2>12
    <2>14. \A x \in S : printed.orders[x].filled # s.orders[x].filled
        <3> SUFFICES ASSUME NEW x \in S, printed.orders[x].filled = s.orders[x].filled
                     PROVE  FALSE
            OBVIOUS
        <3>1. s.orders[x].filled \in Nat
            <4>1. OrdersOK(s) /\ x \in 1..Len(s.orders)
                BY <2>1, <2>3, <2>11, StateFacts
            <4> QED
                BY <4>1, OrderFacts
        <3>2. printed.orders[x].filled - s.orders[x].filled > 0
            BY <2>10, <2>11
        <3> QED
            BY <3>1, <3>2
    <2>15. /\ \E it : Adds(it, S, v)
           /\ \A it : Adds(it, S, v) =>
                 it[S] + Size(s.book, side, tick.price, QuoteOrder(side)) <= tick.volume
        BY <2>1, <2>11, <2>13, <2>14, PrintGives
    <2> DEFINE Rec(g) == [d \in SUBSET S |->
                             IF d = {} THEN 0
                             ELSE Gained(CHOOSE x \in d : TRUE) + g[d \ {CHOOSE x \in d : TRUE}]]
               it == CHOOSE g : g = Rec(g)
    <2>16. \A g : Adds(g, S, v) <=> g = Rec(g)
        <3> SUFFICES ASSUME NEW g PROVE Adds(g, S, v) <=> g = Rec(g)
            OBVIOUS
        <3>1. ASSUME NEW d \in SUBSET S, d # {}
              PROVE  v[Pick(d)] = Gained(CHOOSE x \in d : TRUE)
            BY <2>12, <3>1 DEF Pick
        <3>2. [d \in SUBSET S |-> IF d = {} THEN 0 ELSE v[Pick(d)] + g[d \ {Pick(d)}]] = Rec(g)
            BY <3>1 DEF Pick
        <3> HIDE DEF Rec
        <3> QED
            BY <3>2 DEF Adds
    <2>17. MapThenSumSet(Gained, S) = it[S]
        BY DEF MapThenSumSet, MapThenFoldSet
    <2>18. Adds(it, S, v)
        <3>1. PICK f : Adds(f, S, v)
            BY <2>15
        <3>2. f = Rec(f)
            BY <2>16, <3>1
        <3> HIDE DEF Rec
        <3>3. \E g : g = Rec(g)
            BY <3>2
        <3> QED
            BY <2>16, <3>3
    <2> HIDE DEF it
    <2>19. Displayed(side, tick.price) = Size(s.book, side, tick.price, QuoteOrder(side))
        BY <2>3 DEF Displayed, Size, HasLevel
    <2> QED
        BY <2>15, <2>17, <2>18, <2>19 DEF S
<1>2. InOrder => [Shared]_vars
    BY <1>1
<1>3. Spec => [][Shared]_vars
    <2> HIDE DEF Shared
    <2> QED
        BY <1>2, StaysInOrder, PTL DEF Spec
<1> QED
    BY <1>3 DEF PrintNeverOversold
==============================================================================
