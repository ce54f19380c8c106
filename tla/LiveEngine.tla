----------------------------- MODULE LiveEngine -----------------------------
(***************************************************************************)
(* The live trading loop (live/LiveEngine.cpp) on top of the REST handler  *)
(* and the venue of AlpacaHandler.                                         *)
(*                                                                         *)
(* One thread: step() drains the pending ticks through the crossover       *)
(* strategy, which may submit orders, and then polls for fills.  run_for   *)
(* repeats step(), makes one last step() when its time is over, and the    *)
(* tool then reconciles the local books with the venue.  Prices and moving *)
(* averages are abstracted to which way they cross: any sequence of        *)
(* crosses can come.  submitted_ is the set `known` of the handler's       *)
(* caller, and fills_ is `reported`.                                       *)
(***************************************************************************)
EXTENDS AlpacaHandler, FiniteSets

VARIABLES
    isLong,       \* is_long_
    phase,        \* where run_for and the reconciliation are
    sideOf,       \* side of each order at the venue
    toCheck,      \* submitted orders reconcile() has yet to visit
    allMatched,   \* report.all_matched
    failed,       \* history: a submission came back with an empty id
    disturbed     \* history: something kept the last poll or the
                  \* reconciliation from seeing the venue's final state

engineVars == <<isLong, phase, sideOf, toCheck, allMatched, failed, disturbed>>
allVars == <<vars, engineVars>>

EngineInit ==
    /\ Init
    /\ isLong = FALSE
    /\ phase = "running"
    /\ sideOf = [o \in Orders |-> "BUY"]
    /\ toCheck = {}
    /\ allMatched = TRUE
    /\ failed = FALSE
    /\ disturbed = FALSE
-----------------------------------------------------------------------------
(* on_bar, on a golden cross when flat or a death cross when long.  The    *)
(* flag flips whatever came of the order.                                  *)
FlipToLong == isLong' = TRUE   \* mutant: the sale does not clear the flag

Flip == isLong' = ~isLong

Crossed ==
    /\ phase \in {"running", "final"}
    /\ ~polling
    /\ LET side == IF isLong THEN "SELL" ELSE "BUY"
       IN  \/ \E o \in Orders :
                 /\ SubmitAnswered(o)
                 /\ sideOf' = [sideOf EXCEPT ![o] = side]
                 /\ Flip
                 /\ UNCHANGED failed
           \/ \E o \in Orders :
                 /\ SubmitUnanswered(o)
                 /\ sideOf' = [sideOf EXCEPT ![o] = side]
                 /\ Flip
                 /\ failed' = TRUE
           \/ /\ Flip              \* refused by the venue, or never got there
              /\ failed' = TRUE
              /\ UNCHANGED <<vars, sideOf>>
    /\ UNCHANGED <<phase, toCheck, allMatched, disturbed>>

(* poll_fills of a step.  The last one matters for the reconciliation.     *)
PollStep ==
    \/ /\ phase \in {"running", "final"}
       /\ BeginPoll
       /\ UNCHANGED engineVars
    \/ /\ \E o \in Orders : PollAnswered(o)
       /\ UNCHANGED engineVars
    \/ /\ \E o \in Orders : PollFailed(o)
       /\ disturbed' = (disturbed \/ phase = "final")
       /\ UNCHANGED <<isLong, phase, sideOf, toCheck, allMatched, failed>>

NextPhase ==
    IF phase = "final"
    THEN phase' = "reconciling" /\ toCheck' = known
    ELSE UNCHANGED <<phase, toCheck>>

StepDone ==
    /\ EndPoll
    /\ NextPhase
    /\ UNCHANGED <<isLong, sideOf, allMatched, failed, disturbed>>

StopWhenDone ==   \* mutant: the loop waits for its orders to finish
    /\ phase = "running"
    /\ ~polling
    /\ tracked = {}
    /\ phase' = "final"
    /\ UNCHANGED <<vars, isLong, sideOf, toCheck, allMatched, failed, disturbed>>

StopWithoutFinalStep ==   \* mutant: no final sweep
    /\ phase = "running"
    /\ ~polling
    /\ phase' = "reconciling"
    /\ toCheck' = known
    /\ UNCHANGED <<vars, isLong, sideOf, allMatched, failed, disturbed>>

(* The deadline, or stop(): one last step follows.                         *)
StopLoop ==
    /\ phase = "running"
    /\ ~polling
    /\ phase' = "final"
    /\ UNCHANGED <<vars, isLong, sideOf, toCheck, allMatched, failed, disturbed>>

(* reconcile(): one get_order per submitted id.                            *)
Check(o) ==
    /\ phase = "reconciling"
    /\ o \in toCheck
    /\ toCheck' = toCheck \ {o}
    /\ \/ /\ allMatched' = (allMatched /\ executed[o] = reported[o])
          /\ UNCHANGED disturbed
       \/ allMatched' = FALSE /\ disturbed' = TRUE   \* get_order had no answer
    /\ UNCHANGED <<vars, isLong, phase, sideOf, failed>>

Report ==
    /\ phase = "reconciling"
    /\ toCheck = {}
    /\ phase' = "done"
    /\ UNCHANGED <<vars, isLong, sideOf, toCheck, allMatched, failed, disturbed>>

(* No poll will see what o executes now: the last one has visited o, or    *)
(* the handler has stopped looking.                                        *)
Unseen(o) ==
    \/ o \in known /\ o \notin tracked
    \/ o \in toCheck
    \/ o \in tracked /\ phase = "final" /\ polling /\ o \notin toPoll

VenueStep ==
    /\ \/ /\ \E o \in Orders :
                /\ Execute(o)
                /\ disturbed' = (disturbed \/ Unseen(o))
       \/ /\ \E o \in Orders : Close(o)
          /\ UNCHANGED disturbed
    /\ UNCHANGED <<isLong, phase, sideOf, toCheck, allMatched, failed>>
-----------------------------------------------------------------------------
EngineNext ==
    \/ Crossed \/ PollStep \/ StepDone \/ StopLoop
    \/ \E o \in Orders : Check(o)
    \/ Report
    \/ VenueStep

(* The loop runs on, its deadline comes, and every HTTP exchange ends, by  *)
(* the client's timeout at the latest.                                     *)
EngineFairness ==
    /\ WF_allVars(PollStep) /\ WF_allVars(StepDone) /\ SF_allVars(StopLoop)
    /\ WF_allVars(\E o \in Orders : Check(o)) /\ WF_allVars(Report)

EngineSpec == EngineInit /\ [][EngineNext]_allVars /\ EngineFairness
-----------------------------------------------------------------------------
(* Properties *)

Placed(side) == Cardinality({o \in Orders : status[o] # "none" /\ sideOf[o] = side})

(* While every submission is answered, the orders at the venue are those   *)
(* of a strategy that is long one order or flat, as the flag says.         *)
IntentMatchesOrders ==
    ~failed => Placed("BUY") - Placed("SELL") = IF isLong THEN 1 ELSE 0

(* The final sweep is enough: when no exchange of the last poll or of the  *)
(* reconciliation fails, and the venue executes nothing that no poll can   *)
(* see, the local log matches the venue, whatever failed before.           *)
QuietSessionReconciles ==
    phase = "done" /\ ~disturbed => allMatched

(* A session always ends with a reconciliation report, whatever fails.     *)
EventuallyReconciled == <>(phase = "done")
=============================================================================
