------------------------------ MODULE LiveFeed ------------------------------
(***************************************************************************)
(* A live session's quotes: the poll thread of live/AlpacaMarketDataFeed,  *)
(* the ring between it and the strategy thread, the drains of the live     *)
(* loop, and the shutdown in tools/live_engine.cpp.                        *)
(*                                                                         *)
(* The ring is a queue, which SPSCRing implements, with two traits of it:  *)
(* the slots of a batch are given back after the whole batch, and either   *)
(* thread may have a stale view of the other.  A quote is its time stamp,  *)
(* a number, and whether a tick can be made of it.                         *)
(***************************************************************************)
EXTENDS Naturals, Sequences, FiniteSets

CONSTANTS Capacity,   \* of the ring
          MaxQuotes   \* bound: quotes of the venue

ASSUME FeedAssumption == Capacity \in Nat \ {0} /\ MaxQuotes \in Nat

VARIABLES
    latest,     \* external: the quote the venue shows
    running,    \* running_ of the feed
    poller,     \* where the poll thread is
    answer,     \* the quote poll_once has just read
    lastStamp,  \* last_quote_stamp_
    ring,       \* ticks pushed and not yet handled, oldest first
    unseen,     \* slots given back of which the poll thread does not know
    dropped,    \* dropped_
    stage,      \* where the strategy thread is in main and run_for
    draining,   \* it is inside consume_all
    batch,      \* ticks of the drain in progress still to handle
    held,       \* ticks of it handled, whose slots are not given back
    handled,    \* history: the ticks handled, in order
    polled      \* history: the good quotes that polls have read

feedVars == <<running, poller, answer, lastStamp, polled>>
loopVars == <<stage, draining, batch, held, handled>>
sessionVars == <<latest, feedVars, ring, unseen, dropped, loopVars>>

NoQuote == [stamp |-> 0, good |-> FALSE]

FeedInit ==
    /\ latest = NoQuote
    /\ running = FALSE /\ poller = "off"
    /\ answer = NoQuote /\ lastStamp = 0
    /\ ring = <<>> /\ unseen = 0 /\ dropped = 0
    /\ stage = "setup" /\ draining = FALSE /\ batch = 0 /\ held = 0
    /\ handled = <<>> /\ polled = {}
-----------------------------------------------------------------------------
(* The venue.  A quote is not good when it has neither bid nor ask, or     *)
(* when a field of it cannot be read.                                      *)
NewQuote(good) ==
    /\ latest.stamp < MaxQuotes
    /\ latest' = [stamp |-> latest.stamp + 1, good |-> good]
    /\ UNCHANGED <<feedVars, ring, unseen, dropped, loopVars>>
-----------------------------------------------------------------------------
(* The poll thread *)

LookAtFlagNever ==   \* mutant: the loop does not look at the flag
    /\ poller = "looking"
    /\ poller' = "asking"
    /\ UNCHANGED <<latest, running, answer, lastStamp, polled, ring, unseen, dropped, loopVars>>

LookAtFlag ==
    /\ poller = "looking"
    /\ poller' = IF running THEN "asking" ELSE "exited"
    /\ UNCHANGED <<latest, running, answer, lastStamp, polled, ring, unseen, dropped, loopVars>>

(* The exchange fails, or its answer is no quote with a time stamp.        *)
FetchFails ==
    /\ poller = "asking"
    /\ poller' = "sleeping"
    /\ UNCHANGED <<latest, running, answer, lastStamp, polled, ring, unseen, dropped, loopVars>>

Fetch ==
    /\ poller = "asking"
    /\ latest.stamp > 0
    /\ poller' = "answered"
    /\ answer' = latest
    /\ polled' = IF latest.good THEN polled \cup {latest.stamp} ELSE polled
    /\ UNCHANGED <<latest, running, lastStamp, ring, unseen, dropped, loopVars>>

Waiting == Len(ring) + held + unseen   \* slots in use, as the poll thread sees it

TryPushSilently(tick) ==   \* mutant: a tick dropped at first sight is not counted
    \E behind \in 0..unseen :
        /\ unseen' = IF Waiting < Capacity THEN unseen ELSE behind
        /\ IF Len(ring) + held + unseen' < Capacity
           THEN ring' = Append(ring, tick) /\ UNCHANGED dropped
           ELSE dropped' = (IF behind < unseen THEN dropped + 1 ELSE dropped) /\ UNCHANGED ring

(* A ring that looks full is looked at once more; the new view may be      *)
(* behind as well.  What does not fit is dropped and counted.              *)
TryPush(tick) ==
    \E behind \in 0..unseen :
        /\ unseen' = IF Waiting < Capacity THEN unseen ELSE behind
        /\ IF Len(ring) + held + unseen' < Capacity
           THEN ring' = Append(ring, tick) /\ UNCHANGED dropped
           ELSE dropped' = dropped + 1 /\ UNCHANGED ring

DeliverUnfiltered ==   \* mutant: no duplicate filter
    /\ poller = "answered"
    /\ poller' = "sleeping"
    /\ lastStamp' = answer.stamp
    /\ IF answer.good
       THEN TryPush(answer.stamp)
       ELSE UNCHANGED <<ring, unseen, dropped>>
    /\ UNCHANGED <<latest, running, answer, polled, loopVars>>

(* The rest of poll_once.  The stamp is remembered of every fresh quote,   *)
(* whether or not a tick can be made of it and whether or not it fits.     *)
Deliver ==
    /\ poller = "answered"
    /\ poller' = "sleeping"
    /\ lastStamp' = answer.stamp
    /\ IF answer.good /\ answer.stamp # lastStamp
       THEN TryPush(answer.stamp)
       ELSE UNCHANGED <<ring, unseen, dropped>>
    /\ UNCHANGED <<latest, running, answer, polled, loopVars>>

SleepOver ==
    /\ poller = "sleeping"
    /\ poller' = "looking"
    /\ UNCHANGED <<latest, running, answer, lastStamp, polled, ring, unseen, dropped, loopVars>>

PollThread == LookAtFlag \/ FetchFails \/ Fetch \/ Deliver \/ SleepOver
-----------------------------------------------------------------------------
(* The strategy thread *)

Start ==
    /\ stage = "setup"
    /\ stage' = "running"
    /\ running' = TRUE /\ poller' = "looking"
    /\ UNCHANGED <<latest, answer, lastStamp, polled, ring, unseen, dropped,
                   draining, batch, held, handled>>

(* consume_all samples the write index once.                               *)
BeginDrain ==
    /\ stage \in {"running", "final"} /\ ~draining
    /\ draining' = TRUE
    /\ batch' \in 0..Len(ring)
    /\ UNCHANGED <<latest, feedVars, ring, unseen, dropped, stage, held, handled>>

HandleTick ==
    /\ draining /\ batch > 0
    /\ handled' = Append(handled, Head(ring))
    /\ batch' = batch - 1
    /\ held' = held + 1
    /\ ring' = Tail(ring)
    /\ UNCHANGED <<latest, feedVars, unseen, dropped, stage, draining>>

(* The slots of the batch are given back; poll_fills and the pause follow. *)
EndDrain ==
    /\ draining /\ batch = 0
    /\ draining' = FALSE
    /\ held' = 0 /\ unseen' = unseen + held
    /\ stage' = IF stage = "final" THEN "stopping" ELSE stage
    /\ UNCHANGED <<latest, feedVars, ring, dropped, batch, handled>>

(* The deadline has passed or stop() was called: one step is left.         *)
LeaveLoop ==
    /\ stage = "running" /\ ~draining
    /\ stage' = "final"
    /\ UNCHANGED <<latest, feedVars, ring, unseen, dropped, draining, batch, held, handled>>

(* stop() of the feed: the flag, then the join.                            *)
StopFeed ==
    /\ stage = "stopping"
    /\ stage' = "joining"
    /\ running' = FALSE
    /\ UNCHANGED <<latest, poller, answer, lastStamp, polled, ring, unseen, dropped,
                   draining, batch, held, handled>>

Joined ==
    /\ stage = "joining" /\ poller = "exited"
    /\ stage' = "done"
    /\ UNCHANGED <<latest, feedVars, ring, unseen, dropped, draining, batch, held, handled>>

Drain == BeginDrain \/ HandleTick \/ EndDrain
-----------------------------------------------------------------------------
FeedNext ==
    \/ \E good \in BOOLEAN : NewQuote(good)
    \/ PollThread
    \/ Start \/ Drain \/ LeaveLoop \/ StopFeed \/ Joined

FeedSpec == FeedInit /\ [][FeedNext]_sessionVars

(* Both threads run; an exchange ends, by the client's timeout at the      *)
(* latest; the deadline of the loop comes.  No exchange has to succeed,    *)
(* and the venue need not quote.                                           *)
FeedFairness ==
    /\ WF_sessionVars(PollThread) /\ WF_sessionVars(Drain)
    /\ WF_sessionVars(Start) /\ SF_sessionVars(LeaveLoop) /\ WF_sessionVars(StopFeed \/ Joined)

FeedFairSpec == FeedSpec /\ FeedFairness
-----------------------------------------------------------------------------
(* Properties *)

(* The types, and the ring within its capacity.                            *)
FeedTypeOK ==
    /\ latest \in [stamp : 0..MaxQuotes, good : BOOLEAN]
    /\ running \in BOOLEAN /\ draining \in BOOLEAN
    /\ poller \in {"off", "looking", "asking", "answered", "sleeping", "exited"}
    /\ answer \in [stamp : 0..MaxQuotes, good : BOOLEAN]
    /\ lastStamp \in 0..MaxQuotes
    /\ ring \in Seq(1..MaxQuotes) /\ handled \in Seq(1..MaxQuotes)
    /\ polled \subseteq 1..MaxQuotes
    /\ dropped \in Nat /\ unseen \in Nat /\ held \in Nat
    /\ batch \in 0..Len(ring)
    /\ Waiting <= Capacity
    /\ stage \in {"setup", "running", "final", "stopping", "joining", "done"}

Accepted == handled \o ring   \* every tick that was pushed, in order

(* The strategy handles each quote at most once and in the order of the    *)
(* venue, although polls see quotes again and again and fail in between.   *)
OnceInOrder ==
    \A i, j \in DOMAIN Accepted : i < j => Accepted[i] < Accepted[j]

InHand == IF poller = "answered" /\ answer.good /\ answer.stamp # lastStamp THEN 1 ELSE 0

(* No good quote that a poll has read vanishes: it is in the poller's      *)
(* hand, handled, in the ring, or counted as dropped; and no quote is      *)
(* counted twice.                                                          *)
EveryQuoteAccounted ==
    Cardinality(polled) = Len(handled) + Len(ring) + dropped + InHand

(* A session that was started ends: the last drain does, and the poll      *)
(* thread notices the flag and is joined.                                  *)
SessionEnds == stage = "running" ~> stage = "done"
=============================================================================
