------------------------------ MODULE SPSCRing ------------------------------
(***************************************************************************)
(* The lock-free single-producer single-consumer ring that carries ticks   *)
(* from a network thread to the strategy thread                            *)
(* (include/qse/core/SPSCRingBuffer.h).                                    *)
(*                                                                         *)
(* Each shared access is a step of its own, so every interleaving of       *)
(* try_push with try_pop and consume_all is a behaviour.  The indices are  *)
(* machine words that wrap at IndexMod (2^64 in the code); the slot of an  *)
(* index is the index masked by the capacity.  A load of the other side's  *)
(* index may return a value that has since been overwritten, but, by the   *)
(* coherence of atomics, none older than the one this thread saw last.     *)
(***************************************************************************)
EXTENDS Integers, Sequences

CONSTANTS Values,     \* what the producer may push
          NoValue,    \* the content of a slot never written
          Capacity,   \* number of slots
          IndexMod    \* number of values of a size_t

(* The constructor accepts a power of two of at least 2, which divides the *)
(* number of values of an index and is smaller than it.                    *)
ASSUME RingAssumption ==
    /\ Capacity \in Nat
    /\ Capacity >= 2
    /\ IndexMod \in Nat
    /\ \E k \in 2..IndexMod : IndexMod = k * Capacity
    /\ NoValue \notin Values

VARIABLES
    writeIndex,        \* write_index_, stored by the producer only
    cachedReadIndex,   \* the producer's last view of read_index_
    readIndex,         \* read_index_, stored by the consumer only
    cachedWriteIndex,  \* the consumer's last view of write_index_
    slots,             \* slots_
    producer,          \* where the producer is in try_push
    pushValue,         \* the argument of the try_push that is under way
    consumer,          \* where the consumer is in try_pop or consume_all
    cursor,            \* i of consume_all: the next index to take
    batchEnd,          \* the index the batch stops before
    handed             \* the value taken out of a slot last

producerVars == <<writeIndex, cachedReadIndex, slots, producer, pushValue>>
consumerVars == <<readIndex, cachedWriteIndex, consumer, cursor, batchEnd, handed>>
vars == <<producerVars, consumerVars>>

Index == 0..(IndexMod - 1)
Slots == 0..(Capacity - 1)

(* size_t arithmetic: a + 1, a - b, and a & mask_ *)
Succ(a) == IF a + 1 = IndexMod THEN 0 ELSE a + 1
Minus(a, b) == IF a >= b THEN a - b ELSE (a - b) + IndexMod
SlotOf(a) == a % Capacity

(* What a load may return when the thread saw `seen` last and the variable *)
(* now holds `current`: nothing older than seen.                           *)
Loadable(seen, current) ==
    {x \in Index : Minus(x, seen) <= Minus(current, seen)}

Init ==
    /\ writeIndex = 0
    /\ cachedReadIndex = 0
    /\ readIndex = 0
    /\ cachedWriteIndex = 0
    /\ slots = [s \in Slots |-> NoValue]
    /\ producer = "idle"
    /\ pushValue = NoValue
    /\ consumer = "idle"
    /\ cursor = 0
    /\ batchEnd = 0
    /\ handed = NoValue
-----------------------------------------------------------------------------
(* The producer: try_push. *)

LooksFullOffByOne(seenRead) ==   \* mutant: one element too many
    Minus(writeIndex, seenRead) = Capacity + 1

LooksFull(seenRead) == Minus(writeIndex, seenRead) = Capacity

BeginWrite(v) ==
    /\ producer' = "write"
    /\ pushValue' = v

(* The fullness test against the cached index, refreshed by one acquire    *)
(* load only when the ring looks full; still full means try_push is false. *)
TryPush(v) ==
    /\ producer = "idle"
    /\ \/ /\ ~LooksFull(cachedReadIndex)
          /\ BeginWrite(v)
          /\ UNCHANGED cachedReadIndex
       \/ /\ LooksFull(cachedReadIndex)
          /\ \E r \in Loadable(cachedReadIndex, readIndex) :
                /\ cachedReadIndex' = r
                /\ \/ /\ ~LooksFull(r)
                      /\ BeginWrite(v)
                   \/ /\ LooksFull(r)
                      /\ UNCHANGED <<producer, pushValue>>
    /\ UNCHANGED <<writeIndex, slots, consumerVars>>

(* slots_[w & mask_] = std::move(value) *)
WriteSlot ==
    /\ producer = "write"
    /\ slots' = [slots EXCEPT ![SlotOf(writeIndex)] = pushValue]
    /\ producer' = "publish"
    /\ UNCHANGED <<writeIndex, cachedReadIndex, pushValue, consumerVars>>

(* The release store that makes the slot visible. *)
Publish ==
    /\ producer = "publish"
    /\ writeIndex' = Succ(writeIndex)
    /\ producer' = "idle"
    /\ pushValue' = NoValue
    /\ UNCHANGED <<cachedReadIndex, slots, consumerVars>>
-----------------------------------------------------------------------------
(* The consumer: try_pop and consume_all. *)

(* Start taking the indices from readIndex up to, and not including, end.  *)
BeginBatch(end) ==
    /\ batchEnd' = end
    /\ consumer' = "take"

NothingToTake == UNCHANGED <<batchEnd, consumer>>

TryPopUnchecked ==   \* mutant: the test after the refresh is forgotten
    /\ consumer = "idle"
    /\ \E w \in Loadable(cachedWriteIndex, writeIndex) : cachedWriteIndex' = w
    /\ BeginBatch(Succ(readIndex))
    /\ UNCHANGED <<readIndex, cursor, handed, producerVars>>

TryPop ==
    /\ consumer = "idle"
    /\ \/ /\ readIndex # cachedWriteIndex
          /\ BeginBatch(Succ(readIndex))
          /\ UNCHANGED cachedWriteIndex
       \/ /\ readIndex = cachedWriteIndex
          /\ \E w \in Loadable(cachedWriteIndex, writeIndex) :
                /\ cachedWriteIndex' = w
                /\ IF w = readIndex THEN NothingToTake
                                    ELSE BeginBatch(Succ(readIndex))
    /\ UNCHANGED <<readIndex, cursor, handed, producerVars>>

ConsumeAllCached(w) ==   \* mutant: drains without loading write_index_
    /\ consumer = "idle"
    /\ IF cachedWriteIndex = readIndex THEN NothingToTake
                                       ELSE BeginBatch(cachedWriteIndex)
    /\ UNCHANGED <<readIndex, cachedWriteIndex, cursor, handed, producerVars>>

ConsumeAll(w) ==
    /\ consumer = "idle"
    /\ w \in Loadable(cachedWriteIndex, writeIndex)
    /\ cachedWriteIndex' = w
    /\ IF w = readIndex THEN NothingToTake ELSE BeginBatch(w)
    /\ UNCHANGED <<readIndex, cursor, handed, producerVars>>

(* Move one slot out: `out` of try_pop, one handler call of consume_all.   *)
TakeSlot ==
    /\ consumer = "take"
    /\ handed' = slots[SlotOf(cursor)]
    /\ cursor' = Succ(cursor)
    /\ consumer' = IF Succ(cursor) = batchEnd THEN "release" ELSE "take"
    /\ UNCHANGED <<readIndex, cachedWriteIndex, batchEnd, producerVars>>

(* The release store that gives the slots of the batch back. *)
Release ==
    /\ consumer = "release"
    /\ readIndex' = batchEnd
    /\ consumer' = "idle"
    /\ UNCHANGED <<cachedWriteIndex, cursor, batchEnd, handed, producerVars>>
-----------------------------------------------------------------------------
Producer == WriteSlot \/ Publish \/ \E v \in Values : TryPush(v)

Consumer == TryPop \/ TakeSlot \/ Release \/ \E w \in Index : ConsumeAll(w)

Next == Producer \/ Consumer

(* The engine loop drains again and again (LiveEngine::run_for), and a     *)
(* store becomes visible to the other thread after finitely many loads.    *)
Fairness ==
    /\ WF_vars(ConsumeAll(writeIndex))
    /\ WF_vars(TakeSlot)
    /\ WF_vars(Release)

Spec == Init /\ [][Next]_vars

FairSpec == Spec /\ Fairness
-----------------------------------------------------------------------------
TypeOK ==
    /\ writeIndex \in Index
    /\ cachedReadIndex \in Index
    /\ readIndex \in Index
    /\ cachedWriteIndex \in Index
    /\ slots \in [Slots -> Values \cup {NoValue}]
    /\ producer \in {"idle", "write", "publish"}
    /\ pushValue \in Values \cup {NoValue}
    /\ consumer \in {"idle", "take", "release"}
    /\ cursor \in Index
    /\ batchEnd \in Index
    /\ handed \in Values \cup {NoValue}

(* No data race on a slot: the producer is never about to write the slot   *)
(* that the consumer is about to move out.  The slots are plain memory, so *)
(* this is what lets them be read and written without synchronisation.     *)
NoSlotRace ==
    ~ /\ producer = "write"
      /\ consumer = "take"
      /\ SlotOf(writeIndex) = SlotOf(cursor)

(* The order of the six indices, measured from the producer's view of the  *)
(* reader: each side's cached view lags the other's index and the producer *)
(* is at most one lap ahead of its own view.  This is the inductive        *)
(* invariant behind NoSlotRace.                                            *)
Ahead(a) == Minus(a, cachedReadIndex)

IndexOrder ==
    /\ Ahead(readIndex) <= Ahead(cursor)
    /\ Ahead(cursor) <= Ahead(batchEnd)
    /\ Ahead(batchEnd) <= Ahead(cachedWriteIndex)
    /\ Ahead(cachedWriteIndex) <= Ahead(writeIndex)
    /\ Ahead(writeIndex) <= Capacity
    /\ producer # "idle" => Ahead(writeIndex) < Capacity
    /\ consumer = "idle" => readIndex = cursor /\ cursor = batchEnd
    /\ consumer = "take" => cursor # batchEnd
    /\ consumer = "release" => cursor = batchEnd

(* The ring implements the bounded FIFO queue: what has been published and *)
(* not yet taken, in index order, is the queue.                            *)
Waiting == Minus(writeIndex, cursor)
Contents == [k \in 1..Waiting |-> slots[SlotOf(cursor + k - 1)]]

Fifo == INSTANCE BoundedFifo WITH queue <- Contents

ImplementsFifo == Fifo!Spec

(* A value at the head of the ring is eventually taken, although the       *)
(* consumer only ever reads an index that may be stale.                    *)
EventuallyTaken ==
    \A i \in Index : (cursor = i /\ writeIndex # i) ~> (cursor # i)
=============================================================================
