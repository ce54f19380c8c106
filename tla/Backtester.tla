----------------------------- MODULE Backtester -----------------------------
(***************************************************************************)
(* The event loop of a backtest (core/Backtester.cpp, core/BarRouter.h):   *)
(* every tick goes to the strategy, then to the bar builder of its symbol, *)
(* and a bar that completes goes to the strategy again.  At the end what   *)
(* is left in the builders is flushed.                                     *)
(*                                                                         *)
(* The ticks of all readers are sorted by time before the loop; the order  *)
(* among ticks of the same time is arbitrary (std::sort).  A tick is       *)
(* chosen when it is handled, which comes to the same.  What the order     *)
(* manager does with each tick is the subject of OrderManagerDepth and     *)
(* OrderManagerTouch.                                                      *)
(***************************************************************************)
EXTENDS BarBuilder, Lists, FiniteSets

CONSTANTS ReaderTicks,      \* what the readers may hold
          MaxTicks    \* bound: ticks of a run

ASSUME TicksAssumption ==
    /\ MaxTicks \in Nat
    /\ \A tick \in ReaderTicks :
          tick.time \in Nat /\ tick.price \in Nat \ {0} /\ tick.volume \in Nat

VARIABLES
    phase,         \* "running"; "aborted" by an exception; "done" after the flush
    builders,      \* bar_builders_, per symbol; made when a tick first needs one
    registered,    \* registered_symbols_, and the routes of bar_router_
    seen,          \* history: the ticks fed to the builders, in order
    routed,        \* history: per symbol, the bars the strategy got
    threw          \* history: the strategy threw

loopVars == <<phase, builders, registered, seen, routed, threw>>

Symbols == {tick.symbol : tick \in ReaderTicks}

LoopInit ==
    /\ phase = "running"
    /\ builders = [symbol \in Symbols |-> NewBuilder]
    /\ registered = {}
    /\ seen = <<>>
    /\ routed = [symbol \in Symbols |-> <<>>]
    /\ threw = FALSE
-----------------------------------------------------------------------------
(* The tick that comes next in the sorted input.                           *)
IsNext(tick) ==
    /\ Len(seen) < MaxTicks
    /\ seen # <<>> => Last(seen).time <= tick.time

Feed(tick) ==
    /\ builders' = [builders EXCEPT ![tick.symbol] = AddTick(@, tick).builder]
    /\ seen' = Append(seen, tick)

(* Bars of a symbol nobody registered for are dropped by the router.       *)
RouteBar(symbol, bars, routes) ==
    IF symbol \in routes THEN routed[symbol] \o bars ELSE routed[symbol]

HandleTick(tick) ==
    /\ phase = "running" /\ IsNext(tick)
    /\ registered' = registered \cup {tick.symbol}
    /\ Feed(tick)
    /\ routed' = [routed EXCEPT ![tick.symbol] =
                     RouteBar(tick.symbol, AddTick(builders[tick.symbol], tick).bars, registered')]
    /\ UNCHANGED <<phase, threw>>

(* on_tick throws: the tick still goes to its builder, whose answer is     *)
(* not looked at, and no tick follows.                                     *)
StrategyThrows(tick) ==
    /\ phase = "running" /\ IsNext(tick)
    /\ registered' = registered \cup {tick.symbol}
    /\ Feed(tick)
    /\ threw' = TRUE
    /\ phase' = "aborted"
    /\ UNCHANGED routed

FlushAll ==
    /\ phase \in {"running", "aborted"}
    /\ phase' = "done"
    /\ builders' = [symbol \in Symbols |-> Flush(builders[symbol]).builder]
    /\ routed' = [symbol \in Symbols |->
                     RouteBar(symbol, Flush(builders[symbol]).bars, registered)]
    /\ UNCHANGED <<registered, seen, threw>>

LoopNext ==
    \/ \E tick \in ReaderTicks : HandleTick(tick) \/ StrategyThrows(tick)
    \/ FlushAll

LoopSpec == LoopInit /\ [][LoopNext]_loopVars
-----------------------------------------------------------------------------
(* What the bars should be, said without the builder: for every interval   *)
(* in which a symbol traded, one bar made of all its ticks in that         *)
(* interval, and of nothing else.                                          *)
Due(symbol) ==
    {IntervalOf(seen[i].time) : i \in {j \in DOMAIN seen : seen[j].symbol = symbol}}

TicksIn(symbol, time) ==
    {i \in DOMAIN seen : seen[i].symbol = symbol /\ IntervalOf(seen[i].time) = time}

IsBarOf(symbol, bar) ==
    LET ticks == TicksIn(symbol, bar.time)
        prices == {seen[i].price : i \in ticks}
    IN  /\ bar.symbol = symbol
        /\ \E first, last \in ticks :
              /\ \A i \in ticks : first <= i /\ i <= last
              /\ bar.open = seen[first].price /\ bar.close = seen[last].price
        /\ bar.high \in prices /\ \A price \in prices : price <= bar.high
        /\ bar.low \in prices /\ \A price \in prices : price >= bar.low
        /\ bar.volume = Total([i \in DOMAIN seen |-> IF i \in ticks THEN seen[i].volume ELSE 0])

Handed(symbol) == {routed[symbol][i].time : i \in DOMAIN routed[symbol]}
Missing(symbol) == Due(symbol) \ Handed(symbol)
-----------------------------------------------------------------------------
(* Properties *)

(* No bar comes early, twice or out of order, and none is made of anything *)
(* but all the ticks of its interval, hence none tells of a later tick and *)
(* none is left out before another.  An exception of the strategy costs at *)
(* most the bar its tick completed, the last but one.                      *)
BarsFaithful ==
    \A symbol \in Symbols :
        /\ \A i, j \in DOMAIN routed[symbol] :
              i < j => routed[symbol][i].time < routed[symbol][j].time
        /\ \A i \in DOMAIN routed[symbol] : IsBarOf(symbol, routed[symbol][i])
        /\ \A lost \in Missing(symbol), time \in Handed(symbol) :
              lost < time => threw /\ \A later \in Due(symbol) : later > lost => later = time

(* No bar is late or lost: the strategy lacks the bar in progress only,    *)
(* and nothing once the run is over.  If the strategy threw, it also lacks *)
(* a bar that the last tick completed.                                     *)
BarsComplete ==
    \A symbol \in Symbols :
        Cardinality(Missing(symbol))
            <= (IF phase = "done" THEN 0 ELSE 1) + (IF threw THEN 1 ELSE 0)
=============================================================================
