---------------------------- MODULE AlpacaHandler ----------------------------
(***************************************************************************)
(* The REST execution handler (exe/AlpacaExecutionHandler.cpp) and the     *)
(* venue behind it.                                                        *)
(*                                                                         *)
(* Every call of the handler blocks on HTTP exchanges.  An exchange may    *)
(* fail before or after the venue acted: a timeout, a refusal and an       *)
(* unreadable answer look the same to the handler.  Fills are not pushed:  *)
(* poll_fills asks for each tracked order in turn and reports what was     *)
(* executed since it last asked.  Between two exchanges the venue moves.   *)
(*                                                                         *)
(* The venue is external.  It is modelled from the statuses the handler    *)
(* tells apart: "working" maps to PENDING or PARTIALLY_FILLED; "closing"   *)
(* (pending_cancel, stopped) and "done" map to the terminal statuses, and  *)
(* a closing order may still execute.  A replacement order continues the   *)
(* executed quantity of the order it replaces, as replace_order expects.   *)
(***************************************************************************)
EXTENDS Integers

CONSTANTS Orders,     \* the order ids the venue can assign
          Quantity    \* the quantity of an order

ASSUME QuantityAssumption == Quantity \in Nat \ {0}

VARIABLES
    status,      \* at the venue: "none", "working", "closing" or "done"
    executed,    \* at the venue: filled_qty of each order
    known,       \* the ids returned to the caller
    tracked,     \* the keys of emitted_fill_qty_
    emitted,     \* emitted_fill_qty_, 0 where there is no key
    toPoll,      \* the keys the running poll_fills has yet to visit
    polling,     \* poll_fills is running
    replaced,    \* history: known ids that a known id replaced
    reported     \* history: the quantity passed to the fill callback for an
                 \* order, including for the orders it replaced

venueVars == <<status, executed>>
handlerVars == <<tracked, emitted, toPoll, polling>>
historyVars == <<known, replaced, reported>>
vars == <<venueVars, handlerVars, historyVars>>

Init ==
    /\ status = [o \in Orders |-> "none"]
    /\ executed = [o \in Orders |-> 0]
    /\ known = {}
    /\ tracked = {}
    /\ emitted = [o \in Orders |-> 0]
    /\ toPoll = {}
    /\ polling = FALSE
    /\ replaced = {}
    /\ reported = [o \in Orders |-> 0]
-----------------------------------------------------------------------------
(* The venue, between two exchanges. *)

Execute(o) ==
    /\ status[o] \in {"working", "closing"}
    /\ executed[o] < Quantity
    /\ executed' = [executed EXCEPT ![o] = @ + 1]
    /\ status' = [status EXCEPT ![o] = IF executed[o] + 1 = Quantity THEN "done" ELSE @]
    /\ UNCHANGED <<handlerVars, historyVars>>

Close(o) ==
    /\ status[o] \in {"working", "closing"}
    /\ \E s \in {"closing", "done"} : status' = [status EXCEPT ![o] = s]
    /\ UNCHANGED <<executed, handlerVars, historyVars>>
-----------------------------------------------------------------------------
(* The handler's calls.  The caller is one thread, so none of them runs    *)
(* during a poll.                                                          *)

(* submit: the id is tracked only when the answer was read.                *)
SubmitAnswered(o) ==
    /\ ~polling
    /\ status[o] = "none"
    /\ status' = [status EXCEPT ![o] = "working"]
    /\ tracked' = tracked \cup {o}
    /\ emitted' = [emitted EXCEPT ![o] = 0]
    /\ known' = known \cup {o}
    /\ UNCHANGED <<executed, toPoll, polling, replaced, reported>>

(* The venue took the order; the answer was lost.  The caller gets an      *)
(* empty id, as for a refused order, which changes nothing anywhere.       *)
SubmitUnanswered(o) ==
    /\ ~polling
    /\ status[o] = "none"
    /\ status' = [status EXCEPT ![o] = "working"]
    /\ UNCHANGED <<executed, handlerVars, historyVars>>

(* cancel_order: the venue acts on it or not, whatever the answer says.    *)
CancelOrder(o) ==
    /\ ~polling
    /\ o \in known
    /\ Close(o)

AtVenueReplaced(o, n) ==
    /\ status[o] = "working"
    /\ status[n] = "none"
    /\ status' = [status EXCEPT ![o] = "done", ![n] = "working"]
    /\ executed' = [executed EXCEPT ![n] = executed[o]]

ReplaceFromZero(o, n) ==   \* mutant: the emitted quantity is not carried over
    /\ ~polling
    /\ o \in known
    /\ AtVenueReplaced(o, n)
    /\ emitted' = [emitted EXCEPT ![n] = 0, ![o] = 0]
    /\ tracked' = (tracked \ {o}) \cup {n}
    /\ known' = known \cup {n}
    /\ replaced' = replaced \cup {o}
    /\ reported' = [reported EXCEPT ![n] = reported[o]]
    /\ UNCHANGED <<toPoll, polling>>

(* replace_order: the new id inherits what was already emitted.            *)
ReplaceAnswered(o, n) ==
    /\ ~polling
    /\ o \in known
    /\ AtVenueReplaced(o, n)
    /\ emitted' = [emitted EXCEPT ![n] = emitted[o], ![o] = 0]
    /\ tracked' = (tracked \ {o}) \cup {n}
    /\ known' = known \cup {n}
    /\ replaced' = replaced \cup {o}
    /\ reported' = [reported EXCEPT ![n] = reported[o]]
    /\ UNCHANGED <<toPoll, polling>>

(* The venue replaced the order; the answer was lost.                      *)
ReplaceUnanswered(o, n) ==
    /\ ~polling
    /\ o \in known
    /\ AtVenueReplaced(o, n)
    /\ UNCHANGED <<handlerVars, historyVars>>

BeginPollFirst ==   \* mutant: each poll stops after one order
    /\ ~polling
    /\ polling' = TRUE
    /\ toPoll' = IF tracked = {} THEN {} ELSE {CHOOSE o \in tracked : TRUE}
    /\ UNCHANGED <<venueVars, tracked, emitted, historyVars>>

BeginPoll ==
    /\ ~polling
    /\ polling' = TRUE
    /\ toPoll' = tracked
    /\ UNCHANGED <<venueVars, tracked, emitted, historyVars>>

PollFailedDropped(o) ==   \* mutant: an order that cannot be read is given up
    /\ polling
    /\ o \in toPoll
    /\ toPoll' = toPoll \ {o}
    /\ tracked' = tracked \ {o}
    /\ UNCHANGED <<venueVars, emitted, polling, historyVars>>

PollFailed(o) ==
    /\ polling
    /\ o \in toPoll
    /\ toPoll' = toPoll \ {o}
    /\ UNCHANGED <<venueVars, tracked, emitted, polling, historyVars>>

Terminal(o) == status[o] \in {"closing", "done"}

PollAnsweredNoReport(o) ==   \* mutant: a terminal order is dropped unread
    /\ polling
    /\ o \in toPoll
    /\ toPoll' = toPoll \ {o}
    /\ IF Terminal(o)
       THEN /\ tracked' = tracked \ {o}
            /\ UNCHANGED <<emitted, reported>>
       ELSE /\ reported' = [reported EXCEPT ![o] = @ + (executed[o] - emitted[o])]
            /\ emitted' = [emitted EXCEPT ![o] = executed[o]]
            /\ UNCHANGED tracked
    /\ UNCHANGED <<venueVars, polling, known, replaced>>

(* One order of poll_fills: report what is new, then stop tracking it if   *)
(* its status is terminal (erase, which reads as 0 from then on).          *)
PollAnswered(o) ==
    /\ polling
    /\ o \in toPoll
    /\ toPoll' = toPoll \ {o}
    /\ reported' = IF executed[o] > emitted[o]
                   THEN [reported EXCEPT ![o] = @ + (executed[o] - emitted[o])]
                   ELSE reported
    /\ IF Terminal(o)
       THEN /\ tracked' = tracked \ {o}
            /\ emitted' = [emitted EXCEPT ![o] = 0]
       ELSE /\ emitted' = IF executed[o] > emitted[o]
                          THEN [emitted EXCEPT ![o] = executed[o]] ELSE emitted
            /\ UNCHANGED tracked
    /\ UNCHANGED <<venueVars, polling, known, replaced>>

EndPoll ==
    /\ polling
    /\ toPoll = {}
    /\ polling' = FALSE
    /\ UNCHANGED <<venueVars, tracked, emitted, toPoll, historyVars>>
-----------------------------------------------------------------------------
Venue == \E o \in Orders : Execute(o) \/ Close(o)

Call == \E o \in Orders :
    \/ SubmitAnswered(o) \/ SubmitUnanswered(o) \/ CancelOrder(o)
    \/ \E n \in Orders : ReplaceAnswered(o, n) \/ ReplaceUnanswered(o, n)

Poll == BeginPoll \/ EndPoll \/ \E o \in Orders : PollAnswered(o) \/ PollFailed(o)

Next == Venue \/ Call \/ Poll

(* The engine polls after every drain, a poll runs to its end, and the     *)
(* exchange about an order does not fail for ever: "transient failure:     *)
(* retry on the next poll".  Nothing is promised about the venue or the    *)
(* caller.                                                                 *)
Fairness ==
    /\ WF_vars(BeginPoll) /\ WF_vars(EndPoll)
    /\ \A o \in Orders : WF_vars(PollAnswered(o) \/ PollFailed(o))
    /\ \A o \in Orders : SF_vars(PollAnswered(o))

Spec == Init /\ [][Next]_vars

FairSpec == Spec /\ Fairness
-----------------------------------------------------------------------------
(* Properties *)

(* The types; only known orders are tracked, and only a running poll has   *)
(* orders to visit, all of them tracked.                                   *)
TypeOK ==
    /\ status \in [Orders -> {"none", "working", "closing", "done"}]
    /\ executed \in [Orders -> 0..Quantity]
    /\ emitted \in [Orders -> 0..Quantity]
    /\ reported \in [Orders -> Nat]
    /\ polling \in BOOLEAN
    /\ replaced \subseteq known /\ known \subseteq Orders
    /\ tracked \subseteq known
    /\ toPoll \subseteq tracked
    /\ ~polling => toPoll = {}

(* No execution is reported twice or invented, also across a replacement:  *)
(* what the callback heard of an order and of those it replaced is at most *)
(* what the venue executed.                                                *)
ReportedAtMostOnce == \A o \in Orders : reported[o] <= executed[o]

(* An order the caller knows and the venue still works on is never lost    *)
(* sight of, and what it will report next starts where the last report     *)
(* ended.                                                                  *)
WorkingIsTracked ==
    \A o \in known :
        /\ status[o] = "working" => o \in tracked
        /\ o \in tracked => emitted[o] = reported[o]

(* An order leaves the handler's map only with everything it had executed  *)
(* reported, or handed over to its replacement.                            *)
DroppedUpToDate ==
    [][\A o \in tracked : o \notin tracked' =>
          reported'[o] = executed[o] \/ o \in replaced']_vars

(* Whatever an order executed while tracked is reported in the end, unless *)
(* a replacement takes it over, although any single exchange may fail.     *)
EventuallyReported ==
    \A o \in Orders, q \in 1..Quantity :
        (o \in tracked /\ executed[o] = q) ~> (reported[o] >= q \/ o \in replaced)
=============================================================================
