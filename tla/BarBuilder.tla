----------------------------- MODULE BarBuilder -----------------------------
(***************************************************************************)
(* The bar builder of one symbol (data/BarBuilder.cpp), as operators on a  *)
(* value: the ticks buffered, the bar in progress (<<>> or <<bar>>) and    *)
(* the bars ready to be handed out.  current_bar_start_time_ is the time   *)
(* of the bar in progress, since start_new_bar sets both.                  *)
(*                                                                         *)
(* A tick is a record of symbol, time, price and volume.                   *)
(***************************************************************************)
EXTENDS Integers, Sequences, SequencesExt

CONSTANT BarInterval

ASSUME IntervalAssumption == BarInterval \in Nat \ {0}

NewBuilder == [buffer |-> <<>>, current |-> <<>>, ready |-> <<>>]

IntervalOf(time) == (time \div BarInterval) * BarInterval

NewBar(tick) ==
    [symbol |-> tick.symbol, time |-> IntervalOf(tick.time),
     open |-> tick.price, high |-> tick.price, low |-> tick.price, close |-> tick.price,
     volume |-> tick.volume]

BelongsInclusive(tick, bar) ==   \* mutant: the end of the interval is part of it
    tick.time >= bar.time /\ tick.time <= bar.time + BarInterval

Belongs(tick, bar) ==
    tick.time >= bar.time /\ tick.time < bar.time + BarInterval

WithTick(bar, tick) ==
    [bar EXCEPT !.high = IF tick.price > @ THEN tick.price ELSE @,
                !.low = IF tick.price < @ THEN tick.price ELSE @,
                !.close = tick.price,
                !.volume = @ + tick.volume]

(* A tick beyond either end of the bar in progress completes that bar.     *)
ProcessBarTick(b, tick) ==
    IF b.current = <<>>
    THEN [b EXCEPT !.current = <<NewBar(tick)>>]
    ELSE LET bar == Head(b.current)
         IN  IF Belongs(tick, bar)
             THEN [b EXCEPT !.current = <<WithTick(bar, tick)>>]
             ELSE [b EXCEPT !.ready = Append(@, bar), !.current = <<NewBar(tick)>>]

ProcessBufferedTicks(b) ==
    FoldLeft(ProcessBarTick, [b EXCEPT !.buffer = <<>>], b.buffer)

(* The builder without the bar it hands out, and that bar, if any.         *)
HandOut(b) ==
    IF b.ready = <<>>
    THEN [builder |-> b, bars |-> <<>>]
    ELSE [builder |-> [b EXCEPT !.ready = Tail(@)], bars |-> <<Head(b.ready)>>]

(* std::sort.  The order it gives ticks of the same time is not specified, *)
(* but every call empties the buffer, so that there is one tick to sort.   *)
SortedByTime(ticks) ==
    LET order == CHOOSE places \in Injection(DOMAIN ticks, DOMAIN ticks) :
                    \A i, j \in DOMAIN ticks :
                       i < j => ticks[places[i]].time <= ticks[places[j]].time
    IN  [i \in DOMAIN ticks |-> ticks[order[i]]]

AddTick(b, tick) ==
    HandOut(ProcessBufferedTicks([b EXCEPT !.buffer = SortedByTime(Append(@, tick))]))

FlushReady(b) == HandOut(ProcessBufferedTicks(b))   \* mutant: the bar in progress stays

Flush(b) ==
    LET processed == ProcessBufferedTicks(b)
    IN  IF processed.ready = <<>>
        THEN [builder |-> [processed EXCEPT !.current = <<>>], bars |-> processed.current]
        ELSE HandOut(processed)
=============================================================================
