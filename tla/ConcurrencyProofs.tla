------------------------- MODULE ConcurrencyProofs --------------------------
(***************************************************************************)
(* Proofs about what runs at the same time in threads or programs: the two *)
(* threads on the tick ring (SPSCRing), the workers of the pool (ThreadPool)*)
(* and the programs on the result files (ResultFiles).  The three have     *)
(* nothing in common but the prover; each has a section of its own, which  *)
(* ends in the theorems about it.                                          *)
(***************************************************************************)
EXTENDS SPSCRing, ThreadPool, ResultFiles, FiniteSetTheorems, SequenceTheorems, TLAPS
-----------------------------------------------------------------------------
(***************************************************************************)
(* Proofs that the ring is type correct and free of data races on its      *)
(* slots, for every capacity and every index width it divides.             *)
(*                                                                         *)
(* NoSlotRace is not inductive.  IndexOrder is: it puts the six indices in *)
(* one order, measured from the producer's own view of the reader, with    *)
(* the writer less than a lap ahead while a write is under way.  Two       *)
(* different indices less than a lap apart have different slots, which is  *)
(* the arithmetic fact the ring rests on (DistinctSlots).                  *)
(***************************************************************************)

(* A word has room for at least two laps.                                  *)
LEMMA WordHoldsTwoLaps ==
    /\ Capacity \in Nat /\ Capacity >= 2
    /\ IndexMod \in Nat /\ IndexMod >= 2 * Capacity
<1>1. PICK k \in 2..IndexMod : IndexMod = k * Capacity
  BY RingAssumption
<1>2. k \in Int /\ k >= 2
  BY <1>1, RingAssumption
<1>3. k * Capacity >= 2 * Capacity
  BY <1>2, RingAssumption
<1> QED
  BY <1>1, <1>3, RingAssumption

(* An index is its slot plus a whole number of laps.                       *)
LEMMA SlotDecomposition ==
    ASSUME NEW a \in Index
    PROVE  /\ SlotOf(a) \in Slots
           /\ \E q \in Nat : a = q * Capacity + SlotOf(a)
<1>1. Capacity \in Nat \ {0} /\ a \in Nat
  BY RingAssumption DEF Index
<1>2. SlotOf(a) \in Slots
  BY <1>1 DEF SlotOf, Slots
<1>3. a = (a \div Capacity) * Capacity + SlotOf(a) /\ a \div Capacity \in Nat
  BY <1>1 DEF SlotOf
<1> QED
  BY <1>2, <1>3

(* No multiple of the capacity lies strictly between 0 and the capacity.   *)
LEMMA NoPartialLap ==
    ASSUME NEW m \in Int, NEW c \in Nat, 0 < m * c, m * c < c
    PROVE  FALSE
<1>1. CASE m <= 0
  BY <1>1
<1>2. CASE m >= 1
  BY <1>2
<1> QED
  BY <1>1, <1>2

(* Indices less than a lap apart live in different slots: this is why the  *)
(* code may mask the index, also when the word wraps between the two.      *)
LEMMA DistinctSlots ==
    ASSUME NEW a \in Index, NEW b \in Index,
           0 < Minus(a, b), Minus(a, b) < Capacity
    PROVE  SlotOf(a) # SlotOf(b)
<1> SUFFICES ASSUME SlotOf(a) = SlotOf(b)
             PROVE  FALSE
  OBVIOUS
<1>1. PICK p \in Nat : a = p * Capacity + SlotOf(a)
  BY SlotDecomposition
<1>2. PICK q \in Nat : b = q * Capacity + SlotOf(b)
  BY SlotDecomposition
<1>3. PICK k \in 2..IndexMod : IndexMod = k * Capacity
  BY RingAssumption
<1>4. /\ Capacity \in Nat /\ SlotOf(a) \in Int /\ k \in Int /\ IndexMod \in Nat
      /\ a \in Int /\ b \in Int
  BY RingAssumption, SlotDecomposition, <1>3 DEF Slots, Index
<1>5. CASE a >= b
  <2>1. Minus(a, b) = (p - q) * Capacity
    BY <1>1, <1>2, <1>4, <1>5 DEF Minus
  <2> QED
    BY <2>1, <1>4, NoPartialLap
<1>6. CASE a < b
  <2>1. Minus(a, b) = (p - q + k) * Capacity
    BY <1>1, <1>2, <1>3, <1>4, <1>6 DEF Minus
  <2> QED
    BY <2>1, <1>4, NoPartialLap
<1> QED
  BY <1>4, <1>5, <1>6

(* Every variable keeps its range; in particular no index outgrows its     *)
(* word.                                                                   *)
THEOREM TypeCorrect == Spec => []TypeOK
<1>1. Init => TypeOK
  BY WordHoldsTwoLaps DEF Init, TypeOK, Index, Slots
<1>2. TypeOK /\ [Next]_vars => TypeOK'
  <2> SUFFICES ASSUME TypeOK, [Next]_vars
               PROVE  TypeOK'
    OBVIOUS
  <2> USE WordHoldsTwoLaps DEF TypeOK, producerVars, consumerVars
  <2>1. ASSUME NEW v \in Values, TryPush(v)
        PROVE  TypeOK'
    BY <2>1 DEF TryPush, BeginWrite, Loadable
  <2>2. CASE WriteSlot
    BY <2>2 DEF WriteSlot
  <2>3. CASE Publish
    BY <2>3 DEF Publish, Succ, Index
  <2>4. CASE TryPop
    BY <2>4 DEF TryPop, BeginBatch, NothingToTake, Loadable, Succ, Index
  <2>5. ASSUME NEW w \in Index, ConsumeAll(w)
        PROVE  TypeOK'
    BY <2>5 DEF ConsumeAll, BeginBatch, NothingToTake
  <2>6. CASE TakeSlot
    <3>1. SlotOf(cursor) \in Slots
      BY SlotDecomposition
    <3> QED
      BY <2>6, <3>1 DEF TakeSlot, Succ, Index
  <2>7. CASE Release
    BY <2>7 DEF Release
  <2>8. CASE UNCHANGED vars
    BY <2>8 DEF vars
  <2> QED
    BY <2>1, <2>2, <2>3, <2>4, <2>5, <2>6, <2>7, <2>8 DEF Next, Producer, Consumer
<1> QED
  BY <1>1, <1>2, PTL DEF Spec

(* The indices keep their order: readIndex, cursor, batchEnd, the          *)
(* consumer's view of the writer, writeIndex, all within a lap of the      *)
(* producer's view of the reader.                                          *)
THEOREM IndicesOrdered == Spec => []IndexOrder
<1> USE WordHoldsTwoLaps DEF TypeOK, IndexOrder, Ahead, Minus, Index
<1>1. Init => IndexOrder
  BY DEF Init
<1>2. TypeOK /\ IndexOrder /\ [Next]_vars => IndexOrder'
  <2> SUFFICES ASSUME TypeOK, IndexOrder, [Next]_vars
               PROVE  IndexOrder'
    OBVIOUS
  <2> USE DEF producerVars, consumerVars
  <2>1. ASSUME NEW v \in Values, TryPush(v)
        PROVE  IndexOrder'
    BY <2>1 DEF TryPush, BeginWrite, Loadable, LooksFull
  <2>2. CASE WriteSlot
    BY <2>2 DEF WriteSlot
  <2>3. CASE Publish
    BY <2>3 DEF Publish, Succ
  <2>4. CASE TryPop
    BY <2>4 DEF TryPop, BeginBatch, NothingToTake, Loadable, Succ
  <2>5. ASSUME NEW w \in Index, ConsumeAll(w)
        PROVE  IndexOrder'
    BY <2>5 DEF ConsumeAll, BeginBatch, NothingToTake, Loadable
  <2>6. CASE TakeSlot
    BY <2>6 DEF TakeSlot, Succ
  <2>7. CASE Release
    BY <2>7 DEF Release
  <2>8. CASE UNCHANGED vars
    BY <2>8 DEF vars
  <2> QED
    BY <2>1, <2>2, <2>3, <2>4, <2>5, <2>6, <2>7, <2>8 DEF Next, Producer, Consumer
<1> QED
  BY <1>1, <1>2, TypeCorrect, PTL DEF Spec

(* The producer never writes the slot the consumer is moving out.          *)
THEOREM SlotRaceFree == Spec => []NoSlotRace
<1>1. TypeOK /\ IndexOrder => NoSlotRace
  <2> SUFFICES ASSUME TypeOK, IndexOrder, producer = "write", consumer = "take"
               PROVE  SlotOf(writeIndex) # SlotOf(cursor)
    BY DEF NoSlotRace
  <2>1. 0 < Minus(writeIndex, cursor) /\ Minus(writeIndex, cursor) < Capacity
    BY WordHoldsTwoLaps DEF TypeOK, IndexOrder, Ahead, Minus, Index
  <2> QED
    BY <2>1, DistinctSlots DEF TypeOK
<1> QED
  BY <1>1, TypeCorrect, IndicesOrdered, PTL
-----------------------------------------------------------------------------
(* The ring implements the bounded FIFO queue.                             *)

(* A slot is published only after the value pushed has been stored in it.  *)
SlotReady ==
    /\ producer # "idle" => pushValue \in Values
    /\ producer = "publish" => slots[SlotOf(writeIndex)] = pushValue

LEMMA SlotReadyInvariant == Spec => []SlotReady
<1> USE DEF SlotReady
<1>1. Init => SlotReady
  BY DEF Init
<1>2. TypeOK /\ SlotReady /\ [Next]_vars => SlotReady'
  <2> SUFFICES ASSUME TypeOK, SlotReady, [Next]_vars
               PROVE  SlotReady'
    OBVIOUS
  <2> USE DEF producerVars, consumerVars
  <2>1. ASSUME NEW v \in Values, TryPush(v)
        PROVE  SlotReady'
    BY <2>1 DEF TryPush, BeginWrite
  <2>2. CASE WriteSlot
    <3>1. SlotOf(writeIndex) \in Slots
      BY SlotDecomposition DEF TypeOK
    <3> QED
      BY <2>2, <3>1 DEF WriteSlot, TypeOK
  <2>3. CASE Publish
    BY <2>3 DEF Publish
  <2>4. CASE TryPop \/ TakeSlot \/ Release \/ \E w \in Index : ConsumeAll(w)
    BY <2>4 DEF TryPop, TakeSlot, Release, ConsumeAll
  <2>5. CASE UNCHANGED vars
    BY <2>5 DEF vars
  <2> QED
    BY <2>1, <2>2, <2>3, <2>4, <2>5 DEF Next, Producer, Consumer
<1> QED
  BY <1>1, <1>2, TypeCorrect, PTL DEF Spec

(* The slot of a sum that has outgrown the word is the slot of the wrapped *)
(* index.                                                                  *)
LEMMA SlotOfWrapped ==
    ASSUME NEW a \in Index
    PROVE  SlotOf(a + IndexMod) = SlotOf(a)
<1> DEFINE b == a + IndexMod
<1>1. PICK k \in 2..IndexMod : IndexMod = k * Capacity
  BY RingAssumption
<1>2. /\ Capacity \in Nat \ {0} /\ IndexMod \in Nat /\ k \in Int
      /\ a \in Nat /\ b \in Nat
  BY RingAssumption, <1>1 DEF Index
<1>3. PICK q \in Nat : a = q * Capacity + SlotOf(a)
  BY SlotDecomposition
<1>4. PICK p \in Nat : b = p * Capacity + SlotOf(b)
  <2>1. b = (b \div Capacity) * Capacity + SlotOf(b) /\ b \div Capacity \in Nat
    BY <1>2 DEF SlotOf
  <2> QED
    BY <2>1
<1>5. SlotOf(a) \in Slots /\ SlotOf(b) \in Slots
  BY <1>2 DEF SlotOf, Slots
<1>6. /\ SlotOf(b) - SlotOf(a) = (q + k - p) * Capacity
      /\ SlotOf(a) - SlotOf(b) = (p - q - k) * Capacity
      /\ q + k - p \in Int /\ p - q - k \in Int
      /\ SlotOf(a) \in Int /\ SlotOf(b) \in Int
  BY <1>1, <1>2, <1>3, <1>4, <1>5 DEF Slots
<1>7. ~(SlotOf(b) > SlotOf(a)) /\ ~(SlotOf(a) > SlotOf(b))
  <2>1. SlotOf(b) - SlotOf(a) < Capacity /\ SlotOf(a) - SlotOf(b) < Capacity
    BY <1>2, <1>5 DEF Slots
  <2>2. ASSUME SlotOf(b) > SlotOf(a)
        PROVE  FALSE
    BY <2>1, <2>2, <1>2, <1>6, NoPartialLap
  <2>3. ASSUME SlotOf(a) > SlotOf(b)
        PROVE  FALSE
    BY <2>1, <2>3, <1>2, <1>6, NoPartialLap
  <2> QED
    BY <2>2, <2>3
<1> QED
  BY <1>6, <1>7

(* The index k places after the cursor, wrapped into the word.             *)
At(k) == IF cursor + k >= IndexMod THEN cursor + k - IndexMod ELSE cursor + k

LEMMA AtIsWaiting ==
    ASSUME TypeOK, IndexOrder, NEW k \in Nat, k <= Waiting
    PROVE  /\ At(k) \in Index
           /\ SlotOf(cursor + k) = SlotOf(At(k))
           /\ Minus(writeIndex, At(k)) = Waiting - k
           /\ Waiting \in 0..Capacity
<1> USE WordHoldsTwoLaps DEF TypeOK, IndexOrder, Ahead, Minus, Index, Waiting
<1>1. /\ At(k) \in Index
      /\ Minus(writeIndex, At(k)) = Waiting - k
      /\ Waiting \in 0..Capacity
  BY DEF At
<1>2. SlotOf(cursor + k) = SlotOf(At(k))
  <2>1. CASE cursor + k >= IndexMod
    <3>1. cursor + k = At(k) + IndexMod
      BY <2>1 DEF At
    <3> QED
      BY <3>1, <1>1, SlotOfWrapped
  <2>2. CASE ~(cursor + k >= IndexMod)
    BY <2>2 DEF At
  <2> QED
    BY <2>1, <2>2
<1> QED
  BY <1>1, <1>2

(* The contents as a sequence of pushed values.                            *)
LEMMA ContentsIsSeq ==
    ASSUME TypeOK, IndexOrder
    PROVE  /\ Contents \in Seq(Values \cup {NoValue})
           /\ Len(Contents) = Waiting
           /\ Waiting \in 0..Capacity
<1>1. Waiting \in 0..Capacity
  BY AtIsWaiting, WordHoldsTwoLaps DEF TypeOK, IndexOrder, Waiting, Minus, Index, Ahead
<1>2. \A k \in 1..Waiting : slots[SlotOf(cursor + k - 1)] \in Values \cup {NoValue}
  <2> SUFFICES ASSUME NEW k \in 1..Waiting
               PROVE  slots[SlotOf(cursor + k - 1)] \in Values \cup {NoValue}
    OBVIOUS
  <2>1. k - 1 \in Nat /\ k - 1 <= Waiting /\ cursor + (k - 1) = cursor + k - 1
    BY <1>1, WordHoldsTwoLaps DEF TypeOK, Index
  <2>2. SlotOf(cursor + k - 1) \in Slots
    BY <2>1, AtIsWaiting, SlotDecomposition
  <2> QED
    BY <2>2 DEF TypeOK
<1> QED
  BY <1>1, <1>2, WordHoldsTwoLaps DEF Contents

(* The tail of a nonempty sequence, element by element.                    *)
LEMMA TailElements ==
    ASSUME NEW S, NEW s \in Seq(S), s # <<>>
    PROVE  Tail(s) = [k \in 1..(Len(s) - 1) |-> s[k + 1]]
<1>1. /\ Tail(s) \in Seq(S)
      /\ Len(Tail(s)) = Len(s) - 1
      /\ \A k \in 1..Len(Tail(s)) : Tail(s)[k] = s[k + 1]
  BY HeadTailProperties
<1>2. Tail(s) = [k \in 1..Len(Tail(s)) |-> Tail(s)[k]]
  BY <1>1, LenProperties
<1> QED
  BY <1>1, <1>2

(* A sequence with one more element, element by element.                  *)
LEMMA AppendElements ==
    ASSUME NEW S, NEW s \in Seq(S), NEW e \in S, NEW n \in Nat, Len(s) = n
    PROVE  Append(s, e) = [k \in 1..(n + 1) |-> IF k <= n THEN s[k] ELSE e]
<1>1. /\ Append(s, e) \in Seq(S)
      /\ Len(Append(s, e)) = n + 1
      /\ \A k \in 1..n : Append(s, e)[k] = s[k]
      /\ Append(s, e)[n + 1] = e
  BY AppendProperties
<1>2. Append(s, e) = [k \in 1..(n + 1) |-> Append(s, e)[k]]
  BY <1>1, LenProperties
<1>3. ASSUME NEW k \in 1..(n + 1)
      PROVE  Append(s, e)[k] = IF k <= n THEN s[k] ELSE e
  <2>1. CASE k <= n
    BY <1>1, <2>1
  <2>2. CASE k = n + 1
    BY <1>1, <2>2
  <2> QED
    BY <2>1, <2>2
<1> QED
  BY <1>2, <1>3

(* The ring implements the bounded queue: Contents is its list, handed what  *)
(* the reader was given last.                                              *)
THEOREM RefinesFifo == Spec => ImplementsFifo
<1> USE DEF Fifo!Next, Fifo!vars, Fifo!Accept, Fifo!HandOver
<1>1. Init => Fifo!Init
  <2> SUFFICES ASSUME Init
               PROVE  Contents = <<>> /\ handed = NoValue
    BY DEF Fifo!Init
  <2>1. Waiting = 0
    BY WordHoldsTwoLaps DEF Init, Waiting, Minus
  <2> QED
    BY <2>1 DEF Init, Contents
<1>2. /\ TypeOK /\ TypeOK' /\ IndexOrder /\ IndexOrder' /\ SlotReady
      /\ [Next]_vars
      => [Fifo!Next]_(Fifo!vars)
  <2> SUFFICES ASSUME TypeOK, TypeOK', IndexOrder, IndexOrder', SlotReady,
                      [Next]_vars
               PROVE  [Fifo!Next]_(Fifo!vars)
    OBVIOUS
  <2> USE DEF producerVars, consumerVars
  <2>1. ASSUME UNCHANGED <<slots, writeIndex, cursor, handed>>
        PROVE  UNCHANGED <<Contents, handed>>
    BY <2>1 DEF Contents, Waiting
  <2>2. ASSUME NEW v \in Values, TryPush(v)
        PROVE  UNCHANGED <<Contents, handed>>
    BY <2>1, <2>2 DEF TryPush
  <2>3. CASE TryPop \/ Release \/ \E w \in Index : ConsumeAll(w)
    BY <2>1, <2>3 DEF TryPop, Release, ConsumeAll
  <2>4. CASE WriteSlot
    <3>1. Waiting < Capacity /\ Waiting' = Waiting /\ Waiting \in Nat
      BY <2>4, ContentsIsSeq, WordHoldsTwoLaps
         DEF WriteSlot, Waiting, TypeOK, IndexOrder, Ahead, Minus, Index
    <3>2. ASSUME NEW k \in 1..Waiting
          PROVE  slots'[SlotOf(cursor + k - 1)] = slots[SlotOf(cursor + k - 1)]
      <4>1. /\ k - 1 \in Nat /\ k - 1 <= Waiting
            /\ cursor + (k - 1) = cursor + k - 1
        BY <3>1 DEF TypeOK, Index
      <4>2. /\ At(k - 1) \in Index
            /\ SlotOf(cursor + k - 1) = SlotOf(At(k - 1))
            /\ Minus(writeIndex, At(k - 1)) = Waiting - (k - 1)
        BY <4>1, AtIsWaiting
      <4>3. SlotOf(writeIndex) # SlotOf(At(k - 1))
        BY <3>1, <4>1, <4>2, DistinctSlots, WordHoldsTwoLaps DEF TypeOK
      <4>4. SlotOf(At(k - 1)) \in Slots
        BY <4>2, SlotDecomposition
      <4> QED
        BY <2>4, <4>2, <4>3, <4>4 DEF WriteSlot, TypeOK
    <3>3. Contents' = Contents
      BY <2>4, <3>1, <3>2 DEF Contents, WriteSlot
    <3> QED
      BY <2>4, <3>3 DEF WriteSlot
  <2>5. CASE Publish
    <3>1. /\ Waiting \in Nat /\ Waiting < Capacity /\ Waiting' = Waiting + 1
      BY <2>5, ContentsIsSeq, WordHoldsTwoLaps
         DEF Publish, Succ, Waiting, TypeOK, IndexOrder, Ahead, Minus, Index
    <3>2. /\ SlotOf(cursor + Waiting) = SlotOf(writeIndex)
      <4>1. SlotOf(cursor + Waiting) = SlotOf(At(Waiting))
        BY <3>1, AtIsWaiting
      <4>2. At(Waiting) = writeIndex
        BY WordHoldsTwoLaps DEF At, Waiting, Minus, TypeOK, Index
      <4> QED
        BY <4>1, <4>2
    <3>3. slots[SlotOf(cursor + Waiting)] = pushValue /\ pushValue \in Values
      BY <2>5, <3>2 DEF Publish, SlotReady
    <3>4. Contents' = Append(Contents, pushValue)
      <4>1. cursor \in Int
        BY WordHoldsTwoLaps DEF TypeOK, Index
      <4>2. Contents' = [k \in 1..(Waiting + 1) |-> slots[SlotOf(cursor + k - 1)]]
        BY <2>5, <3>1 DEF Contents, Publish
      <4>3. cursor + (Waiting + 1) - 1 = cursor + Waiting
        BY <3>1, <4>1
      <4>4. /\ Len(Contents) = Waiting
            /\ \A k \in 1..Waiting : Contents[k] = slots[SlotOf(cursor + k - 1)]
        BY ContentsIsSeq DEF Contents
      <4>5. Append(Contents, pushValue)
            = [k \in 1..(Waiting + 1) |-> IF k <= Waiting THEN Contents[k] ELSE pushValue]
        <5>1. /\ Contents \in Seq(Values \cup {NoValue})
              /\ pushValue \in Values \cup {NoValue}
          BY <3>3, ContentsIsSeq
        <5>2. Len(Contents) = Waiting /\ Waiting \in Nat
          BY <3>1, <4>4
        <5> QED
          BY <5>1, <5>2, AppendElements, SMTT(30)
      <4>6. ASSUME NEW k \in 1..(Waiting + 1)
            PROVE  slots[SlotOf(cursor + k - 1)]
                   = IF k <= Waiting THEN Contents[k] ELSE pushValue
        <5>1. CASE k <= Waiting
          BY <3>1, <4>4, <5>1
        <5>2. CASE k = Waiting + 1
          BY <3>1, <3>3, <4>3, <5>2
        <5> QED
          BY <3>1, <5>1, <5>2
      <4> QED
        BY <4>2, <4>5, <4>6
    <3>5. UNCHANGED handed
      BY <2>5 DEF Publish
    <3> QED
      BY <3>1, <3>3, <3>4, <3>5, ContentsIsSeq
  <2>6. CASE TakeSlot
    <3>1. /\ Waiting \in Nat /\ Waiting > 0 /\ Waiting' = Waiting - 1
      BY <2>6, ContentsIsSeq, WordHoldsTwoLaps
         DEF TakeSlot, Succ, Waiting, TypeOK, IndexOrder, Ahead, Minus, Index
    <3>2. handed' = Head(Contents) /\ Contents # <<>>
      BY <2>6, <3>1, ContentsIsSeq, WordHoldsTwoLaps
         DEF TakeSlot, Contents, TypeOK, Index
    <3>3. ASSUME NEW k \in 1..(Waiting - 1)
          PROVE  SlotOf(cursor' + k - 1) = SlotOf(cursor + (k + 1) - 1)
      <4>1. k \in Nat /\ k <= Waiting /\ cursor \in Nat /\ k - 1 \in Nat
        BY <3>1 DEF TypeOK, Index
      <4>2. CASE cursor' = cursor + 1
        BY <4>1, <4>2
      <4>3. CASE cursor + 1 = IndexMod /\ cursor' = 0
        <5>1. k - 1 \in Index /\ cursor + (k + 1) - 1 = (k - 1) + IndexMod
              /\ cursor' + k - 1 = k - 1
          BY <4>1, <4>3, <3>1, ContentsIsSeq, WordHoldsTwoLaps DEF Index
        <5> QED
          BY <5>1, SlotOfWrapped
      <4> QED
        BY <2>6, <4>2, <4>3 DEF TakeSlot, Succ
    <3>4. Contents' = Tail(Contents)
      <4>1. Contents' = [k \in 1..(Waiting - 1) |-> slots[SlotOf(cursor' + k - 1)]]
        BY <2>6, <3>1 DEF Contents, TakeSlot
      <4>2. Tail(Contents) = [k \in 1..(Waiting - 1) |-> Contents[k + 1]]
        BY <3>2, ContentsIsSeq, TailElements
      <4>3. \A k \in 1..(Waiting - 1) :
               Contents[k + 1] = slots[SlotOf(cursor + (k + 1) - 1)]
        BY <3>1 DEF Contents
      <4> QED
        BY <3>3, <4>1, <4>2, <4>3
    <3> QED
      BY <3>2, <3>4
  <2>7. CASE UNCHANGED vars
    BY <2>1, <2>7 DEF vars
  <2> QED
    BY <2>2, <2>3, <2>4, <2>5, <2>6, <2>7 DEF Next, Producer, Consumer
<1> QED
  BY <1>1, <1>2, TypeCorrect, IndicesOrdered, SlotReadyInvariant, PTL
     DEF Spec, Fifo!Spec, ImplementsFifo
-----------------------------------------------------------------------------
(***************************************************************************)
(* Proofs that the thread pool loses no wake-up and no task, and that its  *)
(* destructor leaves nothing behind, for any finite set of workers, any    *)
(* callers and any tasks.                                                  *)
(*                                                                         *)
(* NoLostWakeup and StartedInOrder are inductive given the types.          *)
(* DrainedWhenGone rests on WindingDown: a worker leaves only when the     *)
(* queue is empty for good, since nothing is accepted once the flag is set *)
(***************************************************************************)

(* Once the flag is set no outside thread is in an enqueue; once a worker  *)
(* has left, the queue stays empty; the joins end after the last of them.  *)
WindingDown ==
    /\ Stopped => notifying \cap Callers = {}
    /\ In("exited") # {} => Stopped /\ queue = <<>>
    /\ destroyer = "gone" => In("exited") = Workers

PoolInv == PoolTypeOK /\ NoLostWakeup /\ StartedInOrder /\ WindingDown
-----------------------------------------------------------------------------
(* The step in which one worker goes somewhere else.                       *)
LEMMA Moved ==
    ASSUME PoolTypeOK, NEW w \in Workers, NEW to, NEW place,
           worker' = [worker EXCEPT ![w] = to]
    PROVE  In(place)' = IF place = to THEN In(place) \cup {w} ELSE In(place) \ {w}
BY DEF PoolTypeOK, In

(* The sets that NoLostWakeup counts are finite.                           *)
LEMMA Countable ==
    ASSUME PoolTypeOK, NEW place
    PROVE  /\ IsFiniteSet(In(place)) /\ Cardinality(In(place)) \in Nat
           /\ IsFiniteSet(notifying) /\ Cardinality(notifying) \in Nat
<1>1. IsFiniteSet(In(place))
  BY FS_Subset, PoolAssumption DEF In
<1>2. IsFiniteSet(Callers \cup Workers)
  BY FS_Union, PoolAssumption
<1>3. notifying \in SUBSET (Callers \cup Workers)
  BY DEF PoolTypeOK, In
<1>4. IsFiniteSet(notifying)
  BY <1>2, <1>3, FS_Subset
<1> QED
  BY <1>1, <1>4, FS_CardinalityType

(* Moving the head of one sequence to the end of another leaves their      *)
(* concatenation as it was.                                                *)
LEMMA HeadMoves ==
    ASSUME NEW S, NEW s \in Seq(S), NEW t \in Seq(S), t # <<>>
    PROVE  Append(s, Head(t)) \o Tail(t) = s \o t
<1>1. Head(t) \in S /\ Tail(t) \in Seq(S) /\ t = <<Head(t)>> \o Tail(t)
  BY HeadTailProperties
<1>2. Append(s, Head(t)) = s \o <<Head(t)>>
  BY <1>1, AppendIsConcat
<1>3. <<Head(t)>> \in Seq(S)
  BY <1>1
<1> QED
  BY <1>1, <1>2, <1>3, ConcatAssociative

LEMMA PushedAtEnd ==
    ASSUME NEW s \in Seq(Tasks), NEW t \in Seq(Tasks), NEW e \in Tasks
    PROVE  Append(s \o t, e) = s \o Append(t, e)
<1>1. <<e>> \in Seq(Tasks) /\ s \o t \in Seq(Tasks)
  BY ConcatProperties
<1>2. Append(s \o t, e) = (s \o t) \o <<e>> /\ Append(t, e) = t \o <<e>>
  BY <1>1, AppendIsConcat
<1> QED
  BY <1>1, <1>2, ConcatAssociative
-----------------------------------------------------------------------------
LEMMA PoolInitHolds == PoolInit => PoolInv
<1> SUFFICES ASSUME PoolInit
             PROVE  PoolInv
  OBVIOUS
<1>1. In("asleep") = {} /\ In("exited") = {} /\ <<>> \in Seq(Tasks)
  BY DEF PoolInit, In
<1>2. PoolTypeOK
  BY <1>1 DEF PoolInit, PoolTypeOK
<1>3. NoLostWakeup /\ WindingDown
  BY <1>1 DEF PoolInit, NoLostWakeup, WindingDown, Stopped
<1>4. StartedInOrder
  BY <1>1, ConcatEmptySeq DEF PoolInit, StartedInOrder
<1> QED
  BY <1>2, <1>3, <1>4 DEF PoolInv

LEMMA EnqueuePreserves ==
    ASSUME PoolInv, NEW c \in Callers \cup Workers, NEW task \in Tasks, Enqueue(c, task)
    PROVE  PoolInv'
<1> USE DEF Enqueue, Push, MayCall
<1>0. PoolTypeOK
  BY DEF PoolInv
<1>1. \A place : In(place)' = In(place)
  BY DEF In
<1>2. Len(queue') = Len(queue) + 1 /\ queue' \in Seq(Tasks)
  BY <1>0, AppendProperties DEF PoolTypeOK
<1>3. PoolTypeOK'
  BY <1>0, <1>1, <1>2, AppendProperties DEF PoolTypeOK
<1>4. Cardinality(notifying') = Cardinality(notifying) + 1
  BY <1>0, Countable, FS_AddElement
<1>5. NoLostWakeup'
  <2>1. Cardinality(In("ready")) \in Nat /\ Cardinality(notifying) \in Nat /\ Len(queue) \in Nat
    BY <1>0, Countable DEF PoolTypeOK
  <2> QED
    BY <1>1, <1>2, <1>4, <2>1 DEF PoolInv, NoLostWakeup
<1>6. StartedInOrder'
  <2>1. started \in Seq(Tasks) /\ queue \in Seq(Tasks) /\ accepted = started \o queue
    BY <1>0 DEF PoolInv, StartedInOrder, PoolTypeOK
  <2>2. Append(started \o queue, task) = started \o Append(queue, task)
    BY <2>1, PushedAtEnd
  <2> QED
    BY <2>1, <2>2 DEF StartedInOrder
<1>7. WindingDown'
  BY <1>1 DEF PoolInv, WindingDown, Stopped
<1> QED
  BY <1>3, <1>5, <1>6, <1>7 DEF PoolInv

LEMMA NotifyOnePreserves ==
    ASSUME PoolInv, NEW c \in Callers \cup Workers, NotifyOne(c)
    PROVE  PoolInv'
<1> USE DEF NotifyOne
<1>0. PoolTypeOK
  BY DEF PoolInv
<1>1. Cardinality(notifying') = Cardinality(notifying) - 1
  BY <1>0, Countable, FS_RemoveElement
<1>2. CASE In("asleep") = {} /\ UNCHANGED worker
  <2>1. \A place : In(place)' = In(place)
    BY <1>2 DEF In
  <2>2. PoolTypeOK'
    BY <1>0, <1>2, <2>1 DEF PoolTypeOK
  <2>3. NoLostWakeup' /\ StartedInOrder' /\ WindingDown'
    BY <1>2, <2>1 DEF PoolInv, NoLostWakeup, StartedInOrder, WindingDown, Stopped
  <2> QED
    BY <2>2, <2>3 DEF PoolInv
<1>3. ASSUME NEW w \in In("asleep"), worker' = [worker EXCEPT ![w] = "ready"]
      PROVE  PoolInv'
  <2>0. w \in Workers /\ worker[w] = "asleep"
    BY <1>3 DEF In
  <2>1. /\ In("ready")' = In("ready") \cup {w}
        /\ \A place : place # "ready" => In(place)' = In(place) \ {w}
    BY <1>0, <1>3, <2>0, Moved
  <2>2. In("running")' = In("running") /\ In("exited")' = In("exited") /\ w \notin In("ready")
    BY <2>0, <2>1 DEF In
  <2>3. PoolTypeOK'
    BY <1>0, <1>3, <2>0, <2>2 DEF PoolTypeOK
  <2>4. Cardinality(In("ready")') = Cardinality(In("ready")) + 1
    BY <1>0, <2>1, <2>2, Countable, FS_AddElement
  <2>5. NoLostWakeup'
    <3>1. Cardinality(In("ready")) \in Nat /\ Cardinality(notifying) \in Nat /\ Len(queue) \in Nat
      BY <1>0, Countable DEF PoolTypeOK
    <3>2. In("asleep") # {} /\ In("asleep")' \subseteq In("asleep")
      BY <1>3, <2>1
    <3> QED
      BY <1>1, <2>4, <3>1, <3>2 DEF PoolInv, NoLostWakeup
  <2>6. StartedInOrder' /\ WindingDown'
    BY <2>2 DEF PoolInv, StartedInOrder, WindingDown, Stopped
  <2> QED
    BY <2>3, <2>5, <2>6 DEF PoolInv
<1> QED
  BY <1>2, <1>3

(* Sleep, Leave, Finish, WakeSpuriously: only the worker's place changes.  *)
LEMMA GoPreserves ==
    ASSUME PoolInv, NEW w \in Workers, Sleep(w) \/ Leave(w) \/ Finish(w) \/ WakeSpuriously(w)
    PROVE  PoolInv'
<1> USE DEF Go
<1>0. PoolTypeOK /\ WindingDown
  BY DEF PoolInv
<1>1. UNCHANGED <<queue, notifying, destroyer, accepted, started>>
  BY DEF Sleep, Leave, Finish, WakeSpuriously
<1>2. StartedInOrder'
  BY <1>1 DEF PoolInv, StartedInOrder
<1>3. PoolTypeOK'
  <2>1. \A v \in In("running") : v # w => v \in In("running")'
    BY <1>0 DEF In, PoolTypeOK, Sleep, Leave, Finish, WakeSpuriously
  <2>2. w \in notifying => worker[w] = "running"
    BY <1>0, PoolAssumption DEF In, PoolTypeOK
  <2>3. w \notin notifying
    BY <2>2 DEF Sleep, Leave, Finish, WakeSpuriously
  <2>4. worker' \in [Workers -> {"ready", "asleep", "running", "exited"}]
    BY <1>0 DEF PoolTypeOK, Sleep, Leave, Finish, WakeSpuriously
  <2>5. notifying \subseteq Callers \cup In("running")'
    BY <1>0, <2>1, <2>3 DEF PoolTypeOK
  <2> QED
    BY <1>0, <1>1, <2>4, <2>5 DEF PoolTypeOK
<1>4. CASE Sleep(w) \/ Leave(w)
  <2>1. queue' = <<>> /\ Len(queue') = 0 /\ worker[w] = "ready"
    BY <1>4 DEF Sleep, Leave
  <2>2. Cardinality(In("ready")') \in Nat /\ Cardinality(notifying) \in Nat
    <3>1. IsFiniteSet(In("ready")')
      BY FS_Subset, PoolAssumption DEF In
    <3> QED
      BY <1>0, <3>1, Countable, FS_CardinalityType
  <2>3. CASE Sleep(w)
    <3>1. destroyer = "alive" /\ In("exited")' = In("exited")
      BY <1>0, <2>1, <2>3 DEF Sleep, Stopped, In, PoolTypeOK
    <3> QED
      BY <1>0, <1>1, <1>2, <1>3, <2>1, <2>2, <3>1
      DEF PoolInv, NoLostWakeup, WindingDown, Stopped
  <2>4. CASE Leave(w)
    <3>1. In("asleep")' = In("asleep") /\ destroyer # "gone" /\ Stopped
      BY <1>0, <2>1, <2>4 DEF Leave, In, PoolTypeOK, WindingDown
    <3>2. NoLostWakeup'
      BY <1>1, <2>1, <2>2, <3>1 DEF PoolInv, NoLostWakeup
    <3>3. WindingDown'
      BY <1>0, <1>1, <2>1, <3>1 DEF WindingDown, Stopped
    <3> QED
      BY <1>2, <1>3, <3>2, <3>3 DEF PoolInv
  <2> QED
    BY <1>4, <2>3, <2>4
<1>5. CASE Finish(w) \/ WakeSpuriously(w)
  <2>1. worker[w] \in {"running", "asleep"} /\ worker' = [worker EXCEPT ![w] = "ready"]
    BY <1>5 DEF Finish, WakeSpuriously
  <2>2. /\ In("ready")' = In("ready") \cup {w} /\ w \notin In("ready")
        /\ In("asleep")' \subseteq In("asleep")
        /\ In("exited")' = In("exited")
    BY <1>0, <2>1 DEF In, PoolTypeOK
  <2>3. Cardinality(In("ready")') = Cardinality(In("ready")) + 1
    BY <1>0, <2>2, Countable, FS_AddElement
  <2>4. Cardinality(In("ready")) \in Nat /\ Cardinality(notifying) \in Nat /\ Len(queue) \in Nat
    BY <1>0, Countable DEF PoolTypeOK
  <2>5. NoLostWakeup'
    BY <1>1, <2>2, <2>3, <2>4 DEF PoolInv, NoLostWakeup
  <2>6. WindingDown'
    BY <1>0, <1>1, <2>2 DEF WindingDown, Stopped
  <2> QED
    BY <1>2, <1>3, <2>5, <2>6 DEF PoolInv
<1> QED
  BY <1>4, <1>5

LEMMA TakePreserves ==
    ASSUME PoolInv, NEW w \in Workers, Take(w)
    PROVE  PoolInv'
<1> USE DEF Take, Go
<1>0. PoolTypeOK
  BY DEF PoolInv
<1>1. /\ Head(queue) \in Tasks /\ queue' \in Seq(Tasks)
      /\ Len(queue) \in Nat /\ Len(queue') = Len(queue) - 1
  BY <1>0, HeadTailProperties DEF PoolTypeOK
<1>2. /\ In("ready")' = In("ready") \ {w} /\ w \in In("ready")
      /\ In("running")' = In("running") \cup {w}
      /\ In("asleep")' = In("asleep")
      /\ In("exited")' = In("exited")
  BY <1>0 DEF In, PoolTypeOK
<1>3. Cardinality(In("ready")') = Cardinality(In("ready")) - 1
  BY <1>0, <1>2, Countable, FS_RemoveElement
<1>4. PoolTypeOK'
  BY <1>0, <1>1, <1>2, AppendProperties DEF PoolTypeOK
<1>5. NoLostWakeup'
  <2>1. Cardinality(In("ready")) \in Nat /\ Cardinality(notifying) \in Nat
    BY <1>0, Countable
  <2> QED
    BY <1>1, <1>2, <1>3, <2>1 DEF PoolInv, NoLostWakeup
<1>6. StartedInOrder'
  BY <1>0, HeadMoves DEF PoolInv, StartedInOrder, PoolTypeOK
<1>7. WindingDown'
  BY <1>2 DEF PoolInv, WindingDown, Stopped
<1> QED
  BY <1>4, <1>5, <1>6, <1>7 DEF PoolInv

LEMMA DestroyPreserves ==
    ASSUME PoolInv, Destroy
    PROVE  PoolInv'
<1>0. PoolTypeOK /\ WindingDown
  BY DEF PoolInv
<1>1. UNCHANGED <<queue, notifying, accepted, started>>
  BY DEF Destroy, SetStop, NotifyAll, Joined
<1>2. StartedInOrder'
  BY <1>1 DEF PoolInv, StartedInOrder
<1>3. CASE SetStop \/ Joined
  <2>1. \A place : In(place)' = In(place)
    BY <1>3 DEF In, SetStop, Joined
  <2>2. PoolTypeOK'
    BY <1>0, <1>1, <1>3, <2>1 DEF PoolTypeOK, SetStop, Joined
  <2>3. NoLostWakeup'
    BY <1>1, <1>3, <2>1 DEF PoolInv, NoLostWakeup, SetStop, Joined
  <2>4. WindingDown'
    BY <1>0, <1>1, <1>3, <2>1 DEF WindingDown, SetStop, Joined, Stopped
  <2> QED
    BY <1>2, <2>2, <2>3, <2>4 DEF PoolInv
<1>4. CASE NotifyAll
  <2>1. /\ In("asleep")' = {}
        /\ In("running")' = In("running")
        /\ In("exited")' = In("exited")
    BY <1>0, <1>4 DEF In, PoolTypeOK, NotifyAll
  <2>2. PoolTypeOK'
    BY <1>0, <1>1, <1>4, <2>1 DEF PoolTypeOK, NotifyAll
  <2>3. NoLostWakeup' /\ WindingDown'
    BY <1>0, <1>1, <1>4, <2>1 DEF NoLostWakeup, WindingDown, NotifyAll, Stopped
  <2> QED
    BY <1>2, <2>2, <2>3 DEF PoolInv
<1> QED
  BY <1>3, <1>4 DEF Destroy
-----------------------------------------------------------------------------
LEMMA PoolNextPreserves == PoolInv /\ [PoolNext]_poolVars => PoolInv'
<1> SUFFICES ASSUME PoolInv, [PoolNext]_poolVars
             PROVE  PoolInv'
  OBVIOUS
<1>1. CASE UNCHANGED poolVars
  BY <1>1 DEF poolVars, PoolInv, PoolTypeOK, NoLostWakeup, StartedInOrder, WindingDown, In, Stopped
<1>2. ASSUME NEW c \in Callers \cup Workers,
             NotifyOne(c) \/ \E task \in Tasks : Enqueue(c, task)
      PROVE  PoolInv'
  BY <1>2, NotifyOnePreserves, EnqueuePreserves
<1>3. ASSUME NEW w \in Workers, WithMutex(w) \/ Finish(w) \/ WakeSpuriously(w)
      PROVE  PoolInv'
  BY <1>3, GoPreserves, TakePreserves DEF WithMutex
<1> QED
  BY <1>1, <1>2, <1>3, DestroyPreserves DEF PoolNext

THEOREM PoolInvariance == PoolSpec => []PoolInv
BY PoolInitHolds, PoolNextPreserves, PTL DEF PoolSpec

(* The pool is type correct; only running workers and outside threads are  *)
(* in the middle of an enqueue (ThreadPool.h:46-75).                       *)
THEOREM PoolTypeCorrect == PoolSpec => []PoolTypeOK
BY PoolInvariance, PTL DEF PoolInv

(* notify_one after the mutex is released and notify_all in the destructor *)
(* leave no sleeper with work nobody comes for (ThreadPool.h:73,           *)
(* ThreadPool.cpp:21, 50).                                                 *)
THEOREM WakeupsKept == PoolSpec => []NoLostWakeup
BY PoolInvariance, PTL DEF PoolInv

(* Each accepted task is handed to one worker, in order of acceptance      *)
(* (ThreadPool.cpp:30, ThreadPool.h:69).                                   *)
THEOREM InOrderOnce == PoolSpec => []StartedInOrder
BY PoolInvariance, PTL DEF PoolInv

(* After the destructor no task is left and no thread is in the pool       *)
(* (ThreadPool.cpp:25, 53).                                                *)
THEOREM DestroyedDrained == PoolSpec => []DrainedWhenGone
<1>1. PoolInv => DrainedWhenGone
  <2> SUFFICES ASSUME PoolInv, destroyer = "gone"
               PROVE  queue = <<>> /\ started = accepted /\ In("exited") = Workers /\ notifying = {}
    BY DEF DrainedWhenGone
  <2>1. In("exited") = Workers /\ queue = <<>> /\ notifying \cap Callers = {}
    BY PoolAssumption DEF PoolInv, WindingDown, Stopped
  <2>2. started = accepted
    BY <2>1, ConcatEmptySeq DEF PoolInv, PoolTypeOK, StartedInOrder
  <2>3. In("running") = {}
    BY <2>1 DEF In
  <2> QED
    BY <2>1, <2>2, <2>3 DEF PoolInv, PoolTypeOK
<1> QED
  BY <1>1, PoolInvariance, PTL
-----------------------------------------------------------------------------
(***************************************************************************)
(* For any combinations, any runs of the engine and any number of          *)
(* organizers, movers and analysts that work, race and die among them:     *)
(* what a run_summary counts was copied, and no result is lost before an   *)
(* organizer cleans up.                                                    *)
(*                                                                         *)
(* Nothing but --clean takes a file out of the trees, and nothing takes    *)
(* one out of an organized run (LEMMA OrganizedKept); so what an organizer *)
(* has listed is still to be copied or is in its run, and a file outside   *)
(* has its rows or is still open for the engine to write them.             *)
(***************************************************************************)

\* An organizer is a record with these fields.
OrganizerShape ==
    organizer = [run |-> organizer.run, stage |-> organizer.stage, todo |-> organizer.todo,
                 counted |-> organizer.counted, clean |-> organizer.clean]

\* A mover takes from the results or from the plots, never from a run.
MoverOutside ==
    /\ mover = [source |-> mover.source, todo |-> mover.todo]
    /\ mover.source \in {Results, Plots}

\* What the organizer has listed it will copy yet, or has copied.
ListedIsHeld ==
    \A name \in organizer.counted \ organizer.todo : Has(Organized(organizer.run), name)

FilesInv ==
    /\ OrganizerShape
    /\ MoverOutside
    /\ ListedIsHeld
    /\ SummaryCountsHeld

\* No file is taken out of an organized run.
OnlyGrows == \A run, name : Has(Organized(run), name) => Has(Organized(run), name)'
-----------------------------------------------------------------------------
LEMMA Trees == \A run : Organized(run) # Results /\ Organized(run) # Plots
BY DEF Organized, Results, Plots

\* A step of any program keeps what is in an organized run.
LEMMA OrganizedKept == MoverOutside /\ [FilesNext]_filesVars => OnlyGrows
<1> SUFFICES ASSUME MoverOutside, [FilesNext]_filesVars, NEW run, NEW name, Has(Organized(run), name)
             PROVE Has(Organized(run), name)'
    BY DEF OnlyGrows
<1> DEFINE held == <<Organized(run), name>>
<1>1. held \in DOMAIN files
    BY DEF Has
<1>2. SUFFICES held \in DOMAIN files'
    BY DEF Has, Organized
<1>3. ASSUME NEW left, GoesOn(left) PROVE held \in DOMAIN files'
    BY <1>1, <1>3 DEF GoesOn, Closed, Put
<1>4. CASE RunEngine
    BY <1>3, <1>4 DEF RunEngine
<1>5. CASE NextCombo
    BY <1>3, <1>5 DEF NextCombo
<1>6. CASE \E n \in PlotNames : DrawPlot(n)
    BY <1>1, <1>6 DEF DrawPlot, Put
<1>7. CASE MoveOne
    <2>1. \A n : held # <<mover.source, n>>
        BY Trees DEF MoverOutside
    <2>2. CASE UNCHANGED files
        BY <1>1, <2>2
    <2>3. CASE \E n : files' = Renamed(files, <<mover.source, n>>, <<MovedTo(mover.source, n), n>>)
        BY <1>1, <2>1, <2>3 DEF Renamed
    <2> QED
        BY <1>7, <2>2, <2>3 DEF MoveOne
<1>8. CASE CopyOne
    BY <1>1, <1>8 DEF CopyOne, Put
<1>9. CASE CleanUp
    BY <1>1, <1>9 DEF CleanUp, Organized
<1>10. CASE UNCHANGED files
    BY <1>1, <1>10
<1> QED
    BY <1>4, <1>5, <1>6, <1>7, <1>8, <1>9, <1>10
    DEF FilesNext, filesVars, actors, shown, StartMover, MoverDies, StartOrganizer, ListPlots, Summarize,
        OrganizerDies, LoadEquityCurves, LoadLogsAndReport, AnalyzePairs, StartMultiStrategy,
        TakeResult, ShowTable, analystOnly, organizerOnly
\* There is no summary at first.
LEMMA FilesInitInv == FilesInit => FilesInv
<1> SUFFICES ASSUME FilesInit PROVE FilesInv
    OBVIOUS
<1>1. OrganizerShape /\ MoverOutside /\ ListedIsHeld
    BY DEF FilesInit, OrganizerShape, MoverOutside, ListedIsHeld, IdleOrganizer, IdleMover
<1>2. SummaryCountsHeld
    BY DEF FilesInit, SummaryCountsHeld, NoFunction
<1> QED
    BY <1>1, <1>2 DEF FilesInv

\* What the organizer at work has copied stays when it is not its turn.
LEMMA OrganizerAside ==
    ASSUME FilesInv, OnlyGrows, organizer' \in {organizer, IdleOrganizer}
    PROVE  (OrganizerShape /\ ListedIsHeld)'
<1>1. CASE organizer' = organizer
    BY <1>1 DEF FilesInv, OrganizerShape, ListedIsHeld, OnlyGrows, Has, Organized
<1>2. CASE organizer' = IdleOrganizer
    BY <1>2 DEF OrganizerShape, ListedIsHeld, IdleOrganizer
<1> QED
    BY <1>1, <1>2

LEMMA SummariesAside ==
    ASSUME FilesInv, OnlyGrows, UNCHANGED summaries
    PROVE  SummaryCountsHeld'
BY DEF FilesInv, SummaryCountsHeld, OnlyGrows, Has, Organized

\* No step makes a summary count what is not there.
LEMMA FilesStepInv == FilesInv /\ [FilesNext]_filesVars => FilesInv'
<1> SUFFICES ASSUME FilesInv, [FilesNext]_filesVars PROVE FilesInv'
    OBVIOUS
<1>1. OnlyGrows
    BY OrganizedKept DEF FilesInv
<1>2. CASE \E run \in RunNames, clean \in BOOLEAN : StartOrganizer(run, clean)
    <2>1. PICK run \in RunNames, clean \in BOOLEAN : StartOrganizer(run, clean)
        BY <1>2
    <2>2. (OrganizerShape /\ ListedIsHeld)'
        BY <2>1 DEF StartOrganizer, OrganizerShape, ListedIsHeld
    <2>3. UNCHANGED <<mover, summaries>>
        BY <2>1 DEF StartOrganizer, organizerOnly
    <2> QED
        BY <1>1, <2>2, <2>3, SummariesAside DEF FilesInv, MoverOutside, Results, Plots
<1>3. CASE CopyOne
    <2> DEFINE equity == {n \in organizer.todo : n.kind = "equity"}
               name   == FirstOf(IF equity # {} THEN equity ELSE organizer.todo)
               from   == <<IF name.kind = "plot" THEN Plots ELSE Results, name>>
    <2>1. UNCHANGED <<mover, summaries>>
        BY <1>3 DEF CopyOne, organizerOnly
    <2>2. CASE from \in DOMAIN files
        <3>1. /\ organizer' = [organizer EXCEPT !.todo = @ \ {name}]
              /\ files' = Put(files, {<<Organized(organizer.run), name>>},
                              [files[from] EXCEPT !.open = FALSE])
            BY <1>3, <2>2 DEF CopyOne
        <3> HIDE DEF name, from
        <3>2. /\ organizer'.todo = organizer.todo \ {name}
              /\ organizer'.counted = organizer.counted /\ organizer'.run = organizer.run
              /\ OrganizerShape'
            BY <3>1 DEF FilesInv, OrganizerShape
        <3>3. <<Organized(organizer.run), name>> \in DOMAIN files'
            BY <3>1 DEF Put
        <3>4. ListedIsHeld'
            BY <1>1, <3>2, <3>3 DEF FilesInv, ListedIsHeld, OnlyGrows, Has, Organized
        <3> QED
            BY <1>1, <2>1, <3>2, <3>4, SummariesAside DEF FilesInv, MoverOutside, Results, Plots
    <2>3. CASE from \notin DOMAIN files
        <3>1. organizer' = IdleOrganizer
            BY <1>3, <2>3 DEF CopyOne
        <3> QED
            BY <1>1, <2>1, <3>1, OrganizerAside, SummariesAside
            DEF FilesInv, MoverOutside, Results, Plots
    <2> QED
        BY <2>2, <2>3
<1>4. CASE ListPlots
    <2> DEFINE plots == Listing(Plots, {"plot"})
    <2>1. /\ organizer' = [organizer EXCEPT !.stage = "plots", !.todo = plots, !.counted = @ \cup plots]
          /\ organizer.todo = {}
          /\ UNCHANGED <<files, mover, summaries>>
        BY <1>4 DEF ListPlots, organizerOnly
    <2> HIDE DEF plots
    <2>2. /\ organizer'.todo = plots /\ organizer'.counted = organizer.counted \cup plots
          /\ organizer'.run = organizer.run /\ OrganizerShape'
        BY <2>1 DEF FilesInv, OrganizerShape
    <2>3. ListedIsHeld'
        BY <2>1, <2>2 DEF FilesInv, ListedIsHeld, Has, Organized
    <2> QED
        BY <1>1, <2>1, <2>2, <2>3, SummariesAside DEF FilesInv, MoverOutside, Results, Plots
<1>5. CASE Summarize
    <2>1. /\ organizer.todo = {}
          /\ summaries' = Put(summaries, {organizer.run}, organizer.counted)
          /\ UNCHANGED <<files, mover>>
        BY <1>5 DEF Summarize, organizerOnly
    <2>2. (OrganizerShape /\ ListedIsHeld)'
        <3>1. CASE organizer' = IdleOrganizer
            BY <1>1, <3>1, OrganizerAside
        <3>2. CASE organizer' = [organizer EXCEPT !.stage = "clean"]
            <4>1. /\ organizer'.todo = organizer.todo /\ organizer'.counted = organizer.counted
                  /\ organizer'.run = organizer.run /\ OrganizerShape'
                BY <3>2 DEF FilesInv, OrganizerShape
            <4> QED
                BY <2>1, <4>1 DEF FilesInv, ListedIsHeld, Has, Organized
        <3> QED
            BY <1>5, <3>1, <3>2 DEF Summarize
    <2>3. \A name \in organizer.counted : Has(Organized(organizer.run), name)
        BY <2>1 DEF FilesInv, ListedIsHeld
    <2>4. SummaryCountsHeld'
        BY <2>1, <2>3 DEF FilesInv, SummaryCountsHeld, Put, Has, Organized
    <2> QED
        BY <2>1, <2>2, <2>4 DEF FilesInv, MoverOutside, Results, Plots
<1>6. CASE \E source \in {Results, Plots} : StartMover(source)
    <2>1. PICK source \in {Results, Plots} : StartMover(source)
        BY <1>6
    <2>2. mover' = [source |-> source, todo |-> ToMove(source)] /\ UNCHANGED <<organizer, summaries>>
        BY <2>1 DEF StartMover
    <2> QED
        BY <1>1, <2>2, OrganizerAside, SummariesAside DEF FilesInv, MoverOutside, Results, Plots
<1>7. ASSUME organizer' \in {organizer, IdleOrganizer}, UNCHANGED summaries,
             mover' = IdleMover \/ \E todo : mover' = [mover EXCEPT !.todo = todo]
      PROVE  FilesInv'
    <2>1. MoverOutside'
        <3>1. CASE mover' = IdleMover
            BY <3>1 DEF MoverOutside, IdleMover
        <3>2. CASE \E todo : mover' = [mover EXCEPT !.todo = todo]
            BY <3>2 DEF FilesInv, MoverOutside, Results, Plots
        <3> QED
            BY <1>7, <3>1, <3>2
    <2> QED
        BY <1>1, <1>7, <2>1, OrganizerAside, SummariesAside DEF FilesInv
<1>8. CASE MoveOne
    <2>1. mover' = IdleMover \/ \E todo : mover' = [mover EXCEPT !.todo = todo]
        BY <1>8 DEF MoveOne
    <2> QED
        BY <1>7, <1>8, <2>1 DEF MoveOne
<1>9. CASE MoverDies
    BY <1>7, <1>9 DEF MoverDies
<1>10. ASSUME organizer' \in {organizer, IdleOrganizer}, UNCHANGED <<mover, summaries>> PROVE FilesInv'
    BY <1>1, <1>10, OrganizerAside, SummariesAside DEF FilesInv, MoverOutside, Results, Plots
<1>11. CASE CleanUp \/ OrganizerDies
    BY <1>10, <1>11 DEF CleanUp, OrganizerDies, organizerOnly
<1>12. CASE UNCHANGED <<organizer, mover, summaries>>
    BY <1>10, <1>12
<1> QED
    BY <1>2, <1>3, <1>4, <1>5, <1>6, <1>8, <1>9, <1>11, <1>12
    DEF FilesNext, filesVars, actors, RunEngine, NextCombo, GoesOn, DrawPlot, LoadEquityCurves,
        LoadLogsAndReport, AnalyzePairs, StartMultiStrategy, TakeResult, ShowTable, analystOnly

\* The invariant behind the theorems below, over all seven programs.
THEOREM FilesInvariant == FilesSpec => []FilesInv
<1> QED
    BY FilesInitInv, FilesStepInv, PTL DEF FilesSpec

\* What organize_results.py's run_summary counts lies in the organized run,
\* whoever moves files under the organizer; so --clean, which runs after it,
\* removes no listed file that was not copied.
THEOREM CountsHeld == FilesSpec => []SummaryCountsHeld
<1>1. FilesInv => SummaryCountsHeld
    BY DEF FilesInv
<1> QED
    BY <1>1, FilesInvariant, PTL
-----------------------------------------------------------------------------
(* NothingLost *)

HasTraded(name) == name.kind = "equity" \/ name.combo \in Trading
Outside(path) == path[1][1] # "organized"

\* Outside the organized runs a file has its rows, or the engine has it open,
FilledOrOpen ==
    \A p \in DOMAIN files :
        Outside(p) => files[p].open \/ (HasTraded(p[2]) => files[p].rows)
\* which it has only while it is at that combination.
OpenIsWritten ==
    \A p \in DOMAIN files : Outside(p) /\ files[p].open => BeingWritten(p[2])
WrittenIsThere ==
    cleaned \/ \A name \in written : \E p \in DOMAIN files : p[2] = name /\ Outside(p)

Kept == FilledOrOpen /\ OpenIsWritten /\ WrittenIsThere

LEMMA KeptInit == FilesInit => Kept
BY DEF FilesInit, Kept, FilledOrOpen, OpenIsWritten, WrittenIsThere, NoFunction

\* The engine fills the files that it closes, and opens those of the next.
LEMMA EngineKeeps ==
    ASSUME Kept, NEW left, GoesOn(left)
    PROVE  Kept'
<1> DEFINE opened == NamesOf({left[i] : i \in {1} \cap DOMAIN left})
           keys   == {<<Results, n>> : n \in opened}
<1>1. /\ engine' = left /\ written' = written \cup opened /\ UNCHANGED cleaned
      /\ files' = Put(Closed(files), keys, [rows |-> FALSE, open |-> TRUE])
    BY DEF GoesOn
<1>2. \A n \in opened : n.stamp = stamp' /\ \E i \in DOMAIN left : left[i] = n.combo
    BY DEF NamesOf
<1>3. \A p \in keys : p[2] \in opened /\ Outside(p)
    BY DEF Outside, Results
<1>4. \A n \in opened : <<Results, n>> \in keys /\ <<Results, n>>[2] = n
    OBVIOUS
<1> HIDE DEF opened, keys
<1>5. DOMAIN files' = DOMAIN files \cup keys
    BY <1>1 DEF Put, Closed
<1>6. \A p \in keys : files'[p] = [rows |-> FALSE, open |-> TRUE]
    BY <1>1, <1>5 DEF Put
<1>7. \A p \in DOMAIN files \ keys : files'[p] = Closed(files)[p]
    BY <1>1 DEF Put, Closed
<1>8. \A p \in DOMAIN files \ keys :
         Outside(p) => ~files'[p].open /\ (HasTraded(p[2]) => files'[p].rows)
    <2> SUFFICES ASSUME NEW p \in DOMAIN files \ keys, Outside(p)
                 PROVE  ~files'[p].open /\ (HasTraded(p[2]) => files'[p].rows)
        OBVIOUS
    <2>1. CASE files[p].open
        <3>1. files'[p] = [rows |-> HasTraded(p[2]), open |-> FALSE]
            BY <1>7, <2>1 DEF Closed, HasTraded
        <3> QED
            BY <3>1
    <2>2. CASE ~files[p].open
        <3>1. files'[p] = files[p]
            BY <1>7, <2>2 DEF Closed
        <3> QED
            BY <2>2, <3>1 DEF Kept, FilledOrOpen
    <2> QED
        BY <2>1, <2>2
<1>9. FilledOrOpen'
    BY <1>5, <1>6, <1>8 DEF FilledOrOpen, HasTraded, Outside
<1>10. OpenIsWritten'
    BY <1>1, <1>2, <1>3, <1>5, <1>8 DEF OpenIsWritten, BeingWritten, Outside
<1>11. WrittenIsThere'
    BY <1>1, <1>3, <1>4, <1>5 DEF Kept, WrittenIsThere, Outside
<1> QED
    BY <1>9, <1>10, <1>11 DEF Kept

LEMMA KeptAside ==
    ASSUME Kept, UNCHANGED <<files, stamp, engine, written, cleaned>>
    PROVE  Kept'
BY DEF Kept, FilledOrOpen, OpenIsWritten, WrittenIsThere, Outside, HasTraded, BeingWritten

\* No step loses a result, or leaves a closed file outside without its rows.
LEMMA KeptStep == MoverOutside /\ Kept /\ [FilesNext]_filesVars => Kept'
<1> SUFFICES ASSUME MoverOutside, Kept, [FilesNext]_filesVars PROVE Kept'
    OBVIOUS
<1>1. CASE RunEngine \/ NextCombo
    BY <1>1, EngineKeeps DEF RunEngine, NextCombo
<1>2. CASE \E name \in PlotNames : DrawPlot(name)
    <2>1. PICK name \in PlotNames : DrawPlot(name)
        BY <1>2
    <2>2. /\ files' = Put(files, {<<Plots, name>>}, [rows |-> TRUE, open |-> FALSE])
          /\ written' \subseteq written \cup {name} /\ UNCHANGED <<stamp, engine, cleaned>>
        BY <2>1 DEF DrawPlot
    <2>3. Outside(<<Plots, name>>)
        BY DEF Outside, Plots
    <2>4. FilledOrOpen' /\ OpenIsWritten'
        BY <2>2 DEF Kept, FilledOrOpen, OpenIsWritten, Put, Outside, HasTraded, BeingWritten
    <2>5. WrittenIsThere'
        BY <2>2, <2>3 DEF Kept, WrittenIsThere, Put, Outside
    <2> QED
        BY <2>4, <2>5 DEF Kept
<1>3. CASE MoveOne
    <2> DEFINE name == FirstOf(mover.todo)
               from == <<mover.source, name>>
               to   == <<MovedTo(mover.source, name), name>>
    <2>1. UNCHANGED <<stamp, engine, written, cleaned>>
        BY <1>3 DEF MoveOne
    <2>2. CASE UNCHANGED files
        BY <2>1, <2>2, KeptAside
    <2>3. CASE from \in DOMAIN files /\ files' = Renamed(files, from, to)
        <3>1. Outside(from) /\ Outside(to) /\ from[2] = name /\ to[2] = name
            BY DEF Outside, MoverOutside, MovedTo, Results, Plots
        <3> HIDE DEF from, to
        <3>2. /\ DOMAIN files' = (DOMAIN files \ {from}) \cup {to}
              /\ files'[to] = files[from]
              /\ \A p \in DOMAIN files' \ {to} : files'[p] = files[p] /\ p \in DOMAIN files
            BY <2>3 DEF Renamed
        <3>3. FilledOrOpen' /\ OpenIsWritten'
            BY <2>1, <2>3, <3>1, <3>2
            DEF Kept, FilledOrOpen, OpenIsWritten, Outside, HasTraded, BeingWritten
        <3>4. WrittenIsThere'
            BY <2>1, <3>1, <3>2 DEF Kept, WrittenIsThere, Outside
        <3> QED
            BY <3>3, <3>4 DEF Kept
    <2> QED
        BY <1>3, <2>2, <2>3 DEF MoveOne
<1>4. CASE CopyOne
    <2>1. UNCHANGED <<stamp, engine, written, cleaned>>
        BY <1>4 DEF CopyOne, organizerOnly, shown
    <2>2. CASE UNCHANGED files
        BY <2>1, <2>2, KeptAside
    <2>3. CASE \E name, file : files' = Put(files, {<<Organized(organizer.run), name>>}, file)
        <3>1. PICK name, file : files' = Put(files, {<<Organized(organizer.run), name>>}, file)
            BY <2>3
        <3>2. \A p : Outside(p) => /\ p \in DOMAIN files' <=> p \in DOMAIN files
                                   /\ p \in DOMAIN files => files'[p] = files[p]
            BY <3>1 DEF Outside, Organized, Put
        <3> QED
            BY <2>1, <3>2 DEF Kept, FilledOrOpen, OpenIsWritten, WrittenIsThere, Outside, HasTraded,
                              BeingWritten
    <2> QED
        BY <1>4, <2>2, <2>3 DEF CopyOne
<1>5. CASE CleanUp
    <2>1. /\ files' = [p \in {p \in DOMAIN files : p[1][1] = "organized"} |-> files[p]]
          /\ cleaned' = TRUE
        BY <1>5 DEF CleanUp
    <2>2. \A p \in DOMAIN files' : ~Outside(p)
        BY <2>1 DEF Outside
    <2> QED
        BY <2>1, <2>2 DEF Kept, FilledOrOpen, OpenIsWritten, WrittenIsThere, Outside
<1>6. CASE UNCHANGED <<files, stamp, engine, written, cleaned>>
    BY <1>6, KeptAside
<1> QED
    BY <1>1, <1>2, <1>3, <1>4, <1>5, <1>6
    DEF FilesNext, filesVars, actors, shown, StartMover, MoverDies, StartOrganizer, ListPlots, Summarize,
        OrganizerDies, LoadEquityCurves, LoadLogsAndReport, AnalyzePairs, StartMultiStrategy,
        TakeResult, ShowTable, analystOnly, organizerOnly

\* Before a --clean no result is lost, whatever data/organize_results.py moves
\* while the engine writes it, and whichever program dies at whatever file.
THEOREM ResultsKept == FilesSpec => []NothingLost
<1>1. FilesInv => MoverOutside
    BY DEF FilesInv
<1>2. Kept => NothingLost
    <2> SUFFICES ASSUME Kept, ~cleaned, NEW name \in written
                 PROVE \E p \in DOMAIN files :
                           /\ p[2] = name /\ p[1][1] # "organized"
                           /\ (name.kind = "equity" \/ name.combo \in Trading)
                              /\ ~BeingWritten(name) => files[p].rows
        BY DEF NothingLost
    <2>1. PICK p \in DOMAIN files : p[2] = name /\ Outside(p)
        BY DEF Kept, WrittenIsThere
    <2> QED
        BY <2>1 DEF Kept, FilledOrOpen, OpenIsWritten, Outside, HasTraded
<1> QED
    BY <1>1, <1>2, FilesInvariant, KeptInit, KeptStep, PTL DEF FilesSpec
=============================================================================
