------------------------- MODULE LiveSessionProofs --------------------------
(***************************************************************************)
(* Proofs about a live session: the quotes on their way to the strategy    *)
(* (LiveFeed), and the orders on their way to the venue and back           *)
(* (AlpacaHandler, LiveEngine).                                            *)
(***************************************************************************)
EXTENDS LiveEngine, LiveFeed, FiniteSetTheorems, SequenceTheorems, TLAPS
-----------------------------------------------------------------------------
(***************************************************************************)
(* Proofs about the REST execution handler and about the live trading loop *)
(* that uses it, for any set of orders and any order quantity.  The loop   *)
(* uses the handler as the handler's own specification allows, so that     *)
(* what is proved of the handler holds of every session; the orders at the *)
(* venue are those the strategy's flag speaks of; and a session whose end  *)
(* is quiet reconciles.                                                    *)
(***************************************************************************)

(* The handler *)

(* Every variable keeps its type, only known orders are tracked and a poll *)
(* visits tracked orders only.                                             *)
THEOREM TypeCorrect == Spec => []TypeOK
<1> USE QuantityAssumption DEF QuantityAssumption
<1>1. Init => TypeOK
  <2>1. Init => polling \in BOOLEAN /\ toPoll = {}
    BY Zenon DEF Init
  <2>2. 0 \in 0..Quantity /\ 0 \in Nat
    OBVIOUS
  <2> QED
    BY <2>1, <2>2, Zenon DEF Init, TypeOK
<1>2. TypeOK /\ [Next]_vars => TypeOK'
  <2> SUFFICES ASSUME TypeOK, [Next]_vars
               PROVE  TypeOK'
    OBVIOUS
  <2> USE DEF TypeOK
  <2>1. ASSUME NEW o \in Orders, Execute(o)
        PROVE  TypeOK'
    BY <2>1 DEF Execute, handlerVars, historyVars
  <2>2. ASSUME NEW o \in Orders, Close(o)
        PROVE  TypeOK'
    BY <2>2 DEF Close, handlerVars, historyVars
  <2>3. ASSUME NEW o \in Orders, SubmitAnswered(o)
        PROVE  TypeOK'
    BY <2>3 DEF SubmitAnswered
  <2>4. ASSUME NEW o \in Orders, SubmitUnanswered(o)
        PROVE  TypeOK'
    BY <2>4 DEF SubmitUnanswered, handlerVars, historyVars
  <2>5. ASSUME NEW o \in Orders, NEW n \in Orders, ReplaceAnswered(o, n)
        PROVE  TypeOK'
    <3>1. toPoll' \subseteq tracked'
      BY <2>5 DEF ReplaceAnswered
    <3> QED
      BY <2>5, <3>1 DEF ReplaceAnswered, AtVenueReplaced
  <2>6. ASSUME NEW o \in Orders, NEW n \in Orders, ReplaceUnanswered(o, n)
        PROVE  TypeOK'
    BY <2>6 DEF ReplaceUnanswered, AtVenueReplaced, handlerVars, historyVars
  <2>7. CASE BeginPoll
    BY <2>7 DEF BeginPoll, venueVars, historyVars
  <2>8. ASSUME NEW o \in Orders, PollFailed(o)
        PROVE  TypeOK'
    BY <2>8 DEF PollFailed, venueVars, historyVars
  <2>9. ASSUME NEW o \in Orders, PollAnswered(o)
        PROVE  TypeOK'
    BY <2>9 DEF PollAnswered, venueVars
  <2>10. CASE EndPoll
    BY <2>10 DEF EndPoll, venueVars, historyVars
  <2>11. CASE UNCHANGED vars
    BY <2>11 DEF vars, venueVars, handlerVars, historyVars
  <2> QED
    BY <2>1, <2>2, <2>3, <2>4, <2>5, <2>6, <2>7, <2>8, <2>9, <2>10, <2>11
       DEF Next, Venue, Call, Poll, CancelOrder
<1> QED
  BY <1>1, <1>2, PTL DEF Spec

(* The inductive invariant behind the reports: a tracked order was         *)
(* reported up to its emitted quantity, which the venue has executed; a    *)
(* known order the venue works on is tracked; nothing was executed or      *)
(* reported of an id the venue has not assigned.                           *)
ReportInv ==
    /\ \A o \in tracked : emitted[o] = reported[o]
    /\ \A o \in Orders : reported[o] <= executed[o]
    /\ \A o \in known : status[o] = "working" => o \in tracked
    /\ \A o \in Orders : status[o] = "none" => o \notin known /\ reported[o] = 0

LEMMA ReportInvInit == Init => ReportInv
  BY DEF Init, ReportInv

LEMMA ReportInvNext ==
    ASSUME TypeOK, ReportInv, [Next]_vars
    PROVE  ReportInv'
<1> USE QuantityAssumption DEF QuantityAssumption, TypeOK, ReportInv
<1>1. ASSUME NEW o \in Orders, Execute(o)
      PROVE  ReportInv'
  BY <1>1 DEF Execute, handlerVars, historyVars
<1>2. ASSUME NEW o \in Orders, Close(o)
      PROVE  ReportInv'
  BY <1>2 DEF Close, handlerVars, historyVars
<1>3. ASSUME NEW o \in Orders, SubmitAnswered(o)
      PROVE  ReportInv'
  BY <1>3 DEF SubmitAnswered
<1>4. ASSUME NEW o \in Orders, SubmitUnanswered(o)
      PROVE  ReportInv'
  BY <1>4 DEF SubmitUnanswered, handlerVars, historyVars
<1>5. ASSUME NEW o \in Orders, NEW n \in Orders, ReplaceAnswered(o, n)
      PROVE  ReportInv'
  (* o was working, so it is tracked, and n inherits a report it can show. *)
  <2>1. /\ o \in tracked /\ o # n /\ n \notin tracked
        /\ emitted[o] = reported[o] /\ reported[o] <= executed[o]
    BY <1>5 DEF ReplaceAnswered, AtVenueReplaced
  <2>2. /\ emitted'[n] = reported'[n]
        /\ \A p \in Orders \ {o, n} : /\ emitted'[p] = emitted[p]
                                     /\ reported'[p] = reported[p]
                                     /\ executed'[p] = executed[p]
                                     /\ status'[p] = status[p]
        /\ reported'[o] = reported[o] /\ executed'[o] = executed[o]
        /\ reported'[n] = reported[o] /\ executed'[n] = executed[o]
        /\ status'[o] = "done" /\ status'[n] = "working"
        /\ tracked' = (tracked \ {o}) \cup {n} /\ known' = known \cup {n}
    BY <1>5, <2>1 DEF ReplaceAnswered, AtVenueReplaced
  <2> QED
    BY <2>1, <2>2
<1>6. ASSUME NEW o \in Orders, NEW n \in Orders, ReplaceUnanswered(o, n)
      PROVE  ReportInv'
  BY <1>6 DEF ReplaceUnanswered, AtVenueReplaced, handlerVars, historyVars
<1>7. CASE BeginPoll
  BY <1>7 DEF BeginPoll, venueVars, historyVars
<1>8. ASSUME NEW o \in Orders, PollFailed(o)
      PROVE  ReportInv'
  BY <1>8 DEF PollFailed, venueVars, historyVars
<1>9. ASSUME NEW o \in Orders, PollAnswered(o)
      PROVE  ReportInv'
  BY <1>9 DEF PollAnswered, Terminal, venueVars
<1>10. CASE EndPoll
  BY <1>10 DEF EndPoll, venueVars, historyVars
<1>11. CASE UNCHANGED vars
  BY <1>11 DEF vars, venueVars, handlerVars, historyVars
<1> QED
  BY <1>1, <1>2, <1>3, <1>4, <1>5, <1>6, <1>7, <1>8, <1>9, <1>10, <1>11
     DEF Next, Venue, Call, Poll, CancelOrder

LEMMA ReportInvariant == Spec => []ReportInv
  BY ReportInvInit, ReportInvNext, TypeCorrect, PTL DEF Spec

(* No execution is reported twice or invented, whatever exchanges fail and *)
(* however often orders are replaced.                                      *)
THEOREM NoDoubleReport == Spec => []ReportedAtMostOnce
<1>1. ReportInv => ReportedAtMostOnce
  BY DEF ReportInv, ReportedAtMostOnce
<1> QED
  BY <1>1, ReportInvariant, PTL

(* A known order that still works is tracked from where the last report    *)
(* ended.                                                                  *)
THEOREM WorkingOrdersTracked == Spec => []WorkingIsTracked
<1>1. ReportInv => WorkingIsTracked
  BY DEF ReportInv, WorkingIsTracked
<1> QED
  BY <1>1, ReportInvariant, PTL

(* poll_fills erases an order only after reporting all it had executed.    *)
THEOREM DroppedReported == Spec => DroppedUpToDate
<1> USE QuantityAssumption DEF QuantityAssumption
<1>1. TypeOK /\ ReportInv /\ [Next]_vars =>
        [\A o \in tracked : o \notin tracked' =>
            reported'[o] = executed[o] \/ o \in replaced']_vars
  <2> SUFFICES ASSUME TypeOK, ReportInv, Next, NEW p \in tracked, p \notin tracked'
               PROVE  reported'[p] = executed[p] \/ p \in replaced'
    OBVIOUS
  <2>1. ASSUME NEW o \in Orders, NEW n \in Orders, ReplaceAnswered(o, n)
        PROVE  p \in replaced'
    BY <2>1 DEF ReplaceAnswered
  <2>2. ASSUME NEW o \in Orders, PollAnswered(o)
        PROVE  reported'[p] = executed[p]
    <3>1. p = o /\ o \in Orders
      BY <2>2 DEF PollAnswered
    <3>2. emitted[o] = reported[o] /\ reported[o] <= executed[o]
      BY <3>1 DEF ReportInv
    <3> QED
      BY <2>2, <3>1, <3>2 DEF PollAnswered, TypeOK
  <2>3. ~Venue /\ ~BeginPoll /\ ~EndPoll
    BY DEF Venue, Execute, Close, BeginPoll, EndPoll, handlerVars
  <2>4. ASSUME NEW o \in Orders
        PROVE  /\ ~SubmitAnswered(o) /\ ~SubmitUnanswered(o) /\ ~CancelOrder(o)
               /\ ~PollFailed(o) /\ \A n \in Orders : ~ReplaceUnanswered(o, n)
    BY DEF Close, SubmitAnswered, SubmitUnanswered, CancelOrder, ReplaceUnanswered,
           PollFailed, handlerVars
  <2> QED
    BY <2>1, <2>2, <2>3, <2>4 DEF Next, Call, Poll
<1> QED
  BY <1>1, TypeCorrect, ReportInvariant, PTL DEF Spec, DroppedUpToDate
-----------------------------------------------------------------------------
(* The loop *)

(* A step of the loop is a step of the handler or the venue, or none.      *)
LEMMA EngineStepIsHandlerStep == [EngineNext]_allVars => [Next]_vars
<1> SUFFICES ASSUME [EngineNext]_allVars PROVE [Next]_vars
  OBVIOUS
<1>1. CASE Crossed
  BY <1>1 DEF Crossed, Next, Call
<1>2. CASE PollStep
  BY <1>2 DEF PollStep, Next, Poll
<1>3. CASE StepDone
  BY <1>3 DEF StepDone, Next, Poll
<1>4. CASE StopLoop
  BY <1>4 DEF StopLoop
<1>5. ASSUME NEW o \in Orders, Check(o) PROVE [Next]_vars
  BY <1>5 DEF Check
<1>6. CASE Report
  BY <1>6 DEF Report
<1>7. CASE VenueStep
  BY <1>7 DEF VenueStep, Next, Venue
<1>8. CASE UNCHANGED allVars
  BY <1>8 DEF allVars
<1> QED
  BY <1>1, <1>2, <1>3, <1>4, <1>5, <1>6, <1>7, <1>8 DEF EngineNext

(* The loop's every behaviour is one of the handler's specification: it    *)
(* calls nothing during a poll, and touches nothing of the handler itself. *)
THEOREM EngineImplementsHandler == EngineSpec => Spec
<1>1. EngineInit => Init
  BY DEF EngineInit
<1> QED
  BY <1>1, EngineStepIsHandlerStep, PTL DEF EngineSpec, Spec

(* What the handler guarantees holds during a session.                     *)
THEOREM SessionReports ==
    EngineSpec => []TypeOK /\ []ReportInv /\ []ReportedAtMostOnce
                  /\ []WorkingIsTracked /\ DroppedUpToDate
BY EngineImplementsHandler, TypeCorrect, ReportInvariant, NoDoubleReport,
   WorkingOrdersTracked, DroppedReported, PTL
-----------------------------------------------------------------------------
(* The flag and the orders at the venue *)

AtVenue(side) == {o \in Orders : status[o] # "none" /\ sideOf[o] = side}

(* Only finitely many orders were placed so far, whatever Orders is.       *)
IntentInv ==
    /\ isLong \in BOOLEAN
    /\ sideOf \in [Orders -> {"BUY", "SELL"}]
    /\ IsFiniteSet(AtVenue("BUY")) /\ IsFiniteSet(AtVenue("SELL"))
    /\ IntentMatchesOrders

LEMMA IntentInit == EngineInit => IntentInv
<1> SUFFICES ASSUME EngineInit PROVE IntentInv
  OBVIOUS
<1>1. AtVenue("BUY") = {} /\ AtVenue("SELL") = {}
  BY DEF EngineInit, Init, AtVenue
<1>2. Placed("BUY") = 0 /\ Placed("SELL") = 0
  BY <1>1, FS_EmptySet DEF Placed, AtVenue
<1>3. isLong = FALSE /\ sideOf \in [Orders -> {"BUY", "SELL"}]
  BY DEF EngineInit
<1>4. IntentMatchesOrders
  BY <1>2, <1>3 DEF IntentMatchesOrders
<1> QED
  BY <1>1, <1>3, <1>4, FS_EmptySet DEF IntentInv

(* A submission adds one order to the side of the flag, and flips it.      *)
LEMMA SubmissionKeepsIntent ==
    ASSUME TypeOK, IntentInv, NEW o \in Orders, status[o] = "none",
           status' = [status EXCEPT ![o] = "working"],
           sideOf' = [sideOf EXCEPT ![o] = IF isLong THEN "SELL" ELSE "BUY"],
           isLong' = ~isLong, failed => failed'
    PROVE  IntentInv'
<1>1. isLong' \in BOOLEAN /\ isLong \in BOOLEAN
  BY DEF IntentInv
<1>2. sideOf' \in [Orders -> {"BUY", "SELL"}]
  BY DEF IntentInv
<1>3. ASSUME NEW side \in {"BUY", "SELL"}
      PROVE  /\ AtVenue(side)' = IF side = sideOf'[o] THEN AtVenue(side) \cup {o} ELSE AtVenue(side)
             /\ o \notin AtVenue(side)
             /\ IsFiniteSet(AtVenue(side))
  BY DEF AtVenue, TypeOK, IntentInv
<1>4. ASSUME NEW side \in {"BUY", "SELL"}
      PROVE  /\ IsFiniteSet(AtVenue(side)')
             /\ Placed(side) \in Nat
             /\ Placed(side)' = Placed(side) + IF side = sideOf'[o] THEN 1 ELSE 0
  <2>1. /\ Cardinality(AtVenue(side)) \in Nat
        /\ IsFiniteSet(AtVenue(side) \cup {o})
        /\ Cardinality(AtVenue(side) \cup {o}) = Cardinality(AtVenue(side)) + 1
    BY <1>3, FS_AddElement, FS_CardinalityType
  <2>2. Placed(side) = Cardinality(AtVenue(side)) /\ Placed(side)' = Cardinality(AtVenue(side)')
    BY DEF Placed, AtVenue
  <2>3. CASE side = sideOf'[o]
    BY <1>3, <2>1, <2>2, <2>3
  <2>4. CASE side # sideOf'[o]
    BY <1>3, <2>1, <2>2, <2>4
  <2> QED
    BY <2>3, <2>4
<1>5. sideOf'[o] = IF isLong THEN "SELL" ELSE "BUY"
  BY DEF IntentInv
<1>6. IntentMatchesOrders'
  <2>1. CASE isLong
    <3>1. /\ Placed("SELL")' = Placed("SELL") + 1 /\ Placed("BUY")' = Placed("BUY")
          /\ Placed("SELL") \in Nat /\ Placed("BUY") \in Nat
      BY <1>4, <1>5, <2>1
    <3>2. ~failed => Placed("BUY") - Placed("SELL") = 1
      BY <2>1 DEF IntentInv, IntentMatchesOrders
    <3>3. ~failed' => ~failed /\ Placed("BUY")' - Placed("SELL")' = 0
      BY <3>1, <3>2
    <3> QED
      BY <2>1, <3>3 DEF IntentMatchesOrders
  <2>2. CASE ~isLong
    <3>1. /\ Placed("BUY")' = Placed("BUY") + 1 /\ Placed("SELL")' = Placed("SELL")
          /\ Placed("SELL") \in Nat /\ Placed("BUY") \in Nat
      BY <1>4, <1>5, <2>2
    <3>2. ~failed => Placed("BUY") - Placed("SELL") = 0
      BY <2>2 DEF IntentInv, IntentMatchesOrders
    <3>3. ~failed' => ~failed /\ Placed("BUY")' - Placed("SELL")' = 1
      BY <3>1, <3>2
    <3> QED
      BY <2>2, <3>3 DEF IntentMatchesOrders
  <2> QED
    BY <2>1, <2>2
<1> QED
  BY <1>1, <1>2, <1>4, <1>6 DEF IntentInv

(* Steps that place no order and leave the flag alone change nothing of    *)
(* what the intent is about.                                               *)
LEMMA SameIntent ==
    ASSUME IntentInv, UNCHANGED <<isLong, sideOf, failed>>,
           \A o \in Orders : status'[o] = "none" <=> status[o] = "none"
    PROVE  IntentInv'
<1>1. \A side \in {"BUY", "SELL"} : AtVenue(side)' = AtVenue(side) /\ Placed(side)' = Placed(side)
  BY DEF AtVenue, Placed
<1> QED
  BY <1>1 DEF IntentInv, IntentMatchesOrders

LEMMA IntentNext == TypeOK /\ IntentInv /\ [EngineNext]_allVars => IntentInv'
<1> SUFFICES ASSUME TypeOK, IntentInv, [EngineNext]_allVars PROVE IntentInv'
  OBVIOUS
<1>1. CASE Crossed
  <2>1. ASSUME NEW o \in Orders, SubmitAnswered(o), UNCHANGED failed, Flip,
               sideOf' = [sideOf EXCEPT ![o] = IF isLong THEN "SELL" ELSE "BUY"]
        PROVE  IntentInv'
    BY <2>1, SubmissionKeepsIntent DEF SubmitAnswered, Flip
  <2>2. ASSUME NEW o \in Orders, SubmitUnanswered(o), failed' = TRUE, Flip,
               sideOf' = [sideOf EXCEPT ![o] = IF isLong THEN "SELL" ELSE "BUY"]
        PROVE  IntentInv'
    BY <2>2, SubmissionKeepsIntent DEF SubmitUnanswered, Flip
  <2>3. ASSUME Flip, failed' = TRUE, UNCHANGED <<vars, sideOf>>
        PROVE  IntentInv'
    <3>1. \A side \in {"BUY", "SELL"} : AtVenue(side)' = AtVenue(side)
      BY <2>3 DEF AtVenue, vars, venueVars
    <3>2. isLong' \in BOOLEAN
      BY <2>3 DEF Flip
    <3> QED
      BY <2>3, <3>1, <3>2 DEF IntentInv, IntentMatchesOrders
  <2> QED
    BY <1>1, <2>1, <2>2, <2>3 DEF Crossed
<1>2. CASE PollStep
  BY <1>2, SameIntent DEF PollStep, BeginPoll, PollAnswered, PollFailed, venueVars, engineVars
<1>3. CASE StepDone
  BY <1>3, SameIntent DEF StepDone, EndPoll, venueVars
<1>4. CASE StopLoop \/ Report \/ \E o \in Orders : Check(o)
  BY <1>4, SameIntent DEF StopLoop, Report, Check, vars, venueVars
<1>5. CASE VenueStep
  <2>1. \A o \in Orders : status'[o] = "none" <=> status[o] = "none"
    BY <1>5 DEF VenueStep, Execute, Close, TypeOK
  <2> QED
    BY <1>5, <2>1, SameIntent DEF VenueStep
<1>6. CASE UNCHANGED allVars
  BY <1>6, SameIntent DEF allVars, engineVars, vars, venueVars
<1> QED
  BY <1>1, <1>2, <1>3, <1>4, <1>5, <1>6 DEF EngineNext

(* While every submission is answered, the venue holds one more buy than   *)
(* sells when the strategy is long and as many when it is flat, whatever   *)
(* the venue does with them (on_bar, LiveEngine.cpp).                      *)
THEOREM FlagMatchesVenue == EngineSpec => []IntentMatchesOrders
<1>1. IntentInv => IntentMatchesOrders
  BY DEF IntentInv
<1> QED
  BY <1>1, IntentInit, IntentNext, SessionReports, PTL DEF EngineSpec
-----------------------------------------------------------------------------
(* The reconciliation.  As long as nothing has disturbed the end of the    *)
(* session: what the handler has dropped was fully reported; so is, during *)
(* the final poll, what the poll has visited, and then all that is still   *)
(* to be checked.                                                          *)
QuietInv ==
    /\ phase \in {"running", "final", "reconciling", "done"}
    /\ allMatched \in BOOLEAN /\ disturbed \in BOOLEAN
    /\ toCheck \subseteq known
    /\ phase \in {"reconciling", "done"} => ~polling
    /\ ~disturbed =>
          /\ allMatched
          /\ \A o \in known \ tracked : executed[o] = reported[o]
          /\ phase = "final" /\ polling =>
                \A o \in tracked \ toPoll : executed[o] = reported[o]
          /\ phase = "reconciling" => \A o \in toCheck : executed[o] = reported[o]

LEMMA QuietInit == EngineInit => QuietInv
BY DEF EngineInit, Init, QuietInv

LEMMA QuietNext == TypeOK /\ ReportInv /\ QuietInv /\ [EngineNext]_allVars => QuietInv'
<1> SUFFICES ASSUME TypeOK, ReportInv, QuietInv, [EngineNext]_allVars PROVE QuietInv'
  OBVIOUS
<1> USE QuantityAssumption DEF QuantityAssumption
<1>1. CASE Crossed
  BY <1>1 DEF Crossed, SubmitAnswered, SubmitUnanswered, QuietInv, TypeOK, ReportInv,
              vars, venueVars, handlerVars, historyVars
<1>2. CASE PollStep
  <2>1. ASSUME phase \in {"running", "final"}, BeginPoll, UNCHANGED engineVars
        PROVE  QuietInv'
    BY <2>1 DEF BeginPoll, engineVars, QuietInv, venueVars, historyVars
  <2>2. ASSUME NEW o \in Orders, PollAnswered(o), UNCHANGED engineVars
        PROVE  QuietInv'
    (* Whether o is dropped or kept, it was reported up to what it executed. *)
    <3>1. /\ o \in toPoll /\ polling /\ toPoll' = toPoll \ {o}
          /\ UNCHANGED <<executed, known, polling>>
          /\ tracked' = tracked \/ tracked' = tracked \ {o}
      BY <2>2 DEF PollAnswered, venueVars
    <3>2. /\ reported'[o] = executed[o]
          /\ \A p \in Orders \ {o} : reported'[p] = reported[p]
      BY <2>2, <3>1 DEF PollAnswered, TypeOK, ReportInv
    <3>3. UNCHANGED <<phase, toCheck, allMatched, disturbed>>
      BY <2>2 DEF engineVars
    <3> QED
      BY <3>1, <3>2, <3>3 DEF QuietInv, TypeOK
  <2>3. ASSUME NEW o \in Orders, PollFailed(o), disturbed' = (disturbed \/ phase = "final"),
               UNCHANGED <<phase, toCheck, allMatched>>
        PROVE  QuietInv'
    BY <2>3 DEF PollFailed, QuietInv, venueVars, historyVars
  <2> QED
    BY <1>2, <2>1, <2>2, <2>3 DEF PollStep
<1>3. CASE StepDone
  BY <1>3 DEF StepDone, EndPoll, NextPhase, QuietInv, TypeOK, venueVars, historyVars
<1>4. CASE StopLoop
  BY <1>4 DEF StopLoop, QuietInv, vars, venueVars, handlerVars, historyVars
<1>5. ASSUME NEW o \in Orders, Check(o) PROVE QuietInv'
  <2>1. /\ phase = "reconciling" /\ o \in toCheck /\ toCheck' = toCheck \ {o}
        /\ UNCHANGED <<phase, executed, reported, known, tracked, toPoll, polling>>
    BY <1>5 DEF Check, vars, venueVars, handlerVars, historyVars
  <2>2. CASE allMatched' = (allMatched /\ executed[o] = reported[o]) /\ UNCHANGED disturbed
    <3>1. allMatched' \in BOOLEAN /\ disturbed' \in BOOLEAN
      BY <2>2 DEF QuietInv
    <3>2. ~disturbed' => allMatched'
      BY <2>1, <2>2 DEF QuietInv
    <3> QED
      BY <2>1, <2>2, <3>1, <3>2 DEF QuietInv
  <2>3. CASE allMatched' = FALSE /\ disturbed' = TRUE
    BY <2>1, <2>3 DEF QuietInv
  <2> QED
    BY <1>5, <2>2, <2>3 DEF Check
<1>6. CASE Report
  BY <1>6 DEF Report, QuietInv, vars, venueVars, handlerVars, historyVars
<1>7. CASE VenueStep
  <2>1. ASSUME NEW o \in Orders, Execute(o), disturbed' = (disturbed \/ Unseen(o)),
               UNCHANGED <<phase, toCheck, allMatched>>
        PROVE  QuietInv'
    <3>1. /\ \A p \in Orders \ {o} : executed'[p] = executed[p]
          /\ UNCHANGED <<known, tracked, toPoll, polling, reported>>
      BY <2>1 DEF Execute, TypeOK, handlerVars, historyVars
    <3>2. CASE disturbed \/ Unseen(o)
      BY <2>1, <3>1, <3>2 DEF QuietInv
    <3>3. CASE ~disturbed /\ ~Unseen(o)
      <4>1. disturbed' = FALSE
        BY <2>1, <3>3 DEF QuietInv
      <4>2. /\ o \in known => o \in tracked
            /\ o \notin toCheck
            /\ o \in tracked /\ phase = "final" /\ polling => o \in toPoll
        BY <3>3 DEF Unseen
      <4>3. \A p \in known \ tracked : p # o /\ p \in Orders
        BY <4>2 DEF TypeOK
      <4>4. /\ \A p \in known \ tracked : executed'[p] = reported[p]
            /\ phase = "final" /\ polling => \A p \in tracked \ toPoll : executed'[p] = reported[p]
            /\ phase = "reconciling" => \A p \in toCheck : executed'[p] = reported[p]
        <5>1. \A p \in tracked \ toPoll : p \in Orders
          BY DEF TypeOK
        <5>2. \A p \in toCheck : p # o /\ p \in Orders
          BY <4>2 DEF QuietInv, TypeOK
        <5> QED
          BY <3>1, <3>3, <4>2, <4>3, <5>1, <5>2 DEF QuietInv
      <4> QED
        BY <2>1, <3>1, <3>3, <4>1, <4>4 DEF QuietInv
    <3> QED
      BY <3>2, <3>3
  <2>2. ASSUME NEW o \in Orders, Close(o), UNCHANGED <<phase, toCheck, allMatched, disturbed>>
        PROVE  QuietInv'
    BY <2>2 DEF Close, QuietInv, handlerVars, historyVars
  <2> QED
    BY <1>7, <2>1, <2>2 DEF VenueStep
<1>8. CASE UNCHANGED allVars
  BY <1>8 DEF allVars, engineVars, vars, venueVars, handlerVars, historyVars, QuietInv
<1> QED
  BY <1>1, <1>2, <1>3, <1>4, <1>5, <1>6, <1>7, <1>8 DEF EngineNext

(* The final step() of run_for is enough: if none of its exchanges and     *)
(* none of reconcile() fails, and the venue executes nothing that no poll  *)
(* can see, the report says that everything matched.                       *)
THEOREM QuietEndReconciles == EngineSpec => []QuietSessionReconciles
<1>1. QuietInv => QuietSessionReconciles
  BY DEF QuietInv, QuietSessionReconciles
<1> QED
  BY <1>1, QuietInit, QuietNext, SessionReports, PTL DEF EngineSpec
-----------------------------------------------------------------------------
(***************************************************************************)
(* Proofs that the live feed hands every quote to the strategy at most     *)
(* once and in order, and accounts for each one that a poll has read, for  *)
(* any capacity of the ring and any number of quotes.                      *)
(*                                                                         *)
(* Both properties are about what the stamp filter knows of the past, one  *)
(* number.  Filtered says why that is enough: everything pushed or polled  *)
(* is at most lastStamp, except for the quote in the poller's hand.        *)
(***************************************************************************)

Filtered ==
    /\ stage = "setup" => poller = "off"
    /\ lastStamp <= latest.stamp
    /\ \A i \in DOMAIN Accepted : Accepted[i] <= lastStamp
    /\ \A n \in polled :
          n <= lastStamp \/ (poller = "answered" /\ answer.good /\ n = answer.stamp)
    /\ latest.good /\ lastStamp = latest.stamp => latest.stamp \in polled
    /\ poller = "answered" =>
          /\ lastStamp <= answer.stamp /\ answer.stamp <= latest.stamp
          /\ 0 < answer.stamp
          /\ answer.stamp = latest.stamp => answer = latest
          /\ answer.good => answer.stamp \in polled

FeedInv == FeedTypeOK /\ OnceInOrder /\ EveryQuoteAccounted /\ Filtered

Stamps == 1..MaxQuotes
-----------------------------------------------------------------------------
(* Moving the head of one sequence to the end of another leaves their      *)
(* concatenation as it was.                                                *)
LEMMA HeadMoves ==
    ASSUME NEW S, NEW s \in Seq(S), NEW t \in Seq(S), t # <<>>
    PROVE  Append(s, Head(t)) \o Tail(t) = s \o t
<1>1. Head(t) \in S /\ Tail(t) \in Seq(S) /\ t = <<Head(t)>> \o Tail(t)
  BY HeadTailProperties
<1>2. Append(s, Head(t)) = s \o <<Head(t)>>
  BY <1>1, AppendIsConcat
<1>3. <<Head(t)>> \in Seq(S)
  BY <1>1
<1> QED
  BY <1>1, <1>2, <1>3, ConcatAssociative

(* Appending to the second part appends to the whole.                      *)
LEMMA PushedAtEnd ==
    ASSUME NEW S, NEW s \in Seq(S), NEW t \in Seq(S), NEW e \in S
    PROVE  s \o Append(t, e) = Append(s \o t, e)
<1>1. <<e>> \in Seq(S) /\ s \o t \in Seq(S)
  BY ConcatProperties
<1>2. Append(s \o t, e) = (s \o t) \o <<e>> /\ Append(t, e) = t \o <<e>>
  BY <1>1, AppendIsConcat
<1> QED
  BY <1>1, <1>2, ConcatAssociative

(* The polled stamps can be counted, one more by one.                      *)
LEMMA PolledCount ==
    ASSUME FeedTypeOK
    PROVE  /\ IsFiniteSet(polled) /\ Cardinality(polled) \in Nat
           /\ \A n : n \notin polled => Cardinality(polled \cup {n}) = Cardinality(polled) + 1
<1>1. IsFiniteSet(1..MaxQuotes)
  BY FeedAssumption, FS_Interval
<1>2. IsFiniteSet(polled)
  BY <1>1, FS_Subset DEF FeedTypeOK
<1> QED
  BY <1>2, FS_CardinalityType, FS_AddElement

(* What was accepted is a sequence of stamps.                              *)
LEMMA AcceptedType ==
    ASSUME FeedTypeOK
    PROVE  Accepted \in Seq(Stamps) /\ Len(Accepted) = Len(handled) + Len(ring)
BY ConcatProperties DEF FeedTypeOK, Accepted, Stamps
-----------------------------------------------------------------------------
(* The invariant holds before the session.                                 *)
LEMMA FeedInitHolds == FeedInit => FeedInv
<1> SUFFICES ASSUME FeedInit
             PROVE  FeedInv
  OBVIOUS
<1>1. Accepted = <<>>
  BY ConcatEmptySeq DEF FeedInit, Accepted
<1>2. FeedTypeOK
  <2>1. <<>> \in Seq(1..MaxQuotes) /\ Len(<<>>) = 0
    OBVIOUS
  <2>2. Waiting = 0
    BY <2>1 DEF FeedInit, Waiting
  <2>3. NoQuote \in [stamp : 0..MaxQuotes, good : BOOLEAN] /\ 0 \in 0..MaxQuotes /\ 0 <= Capacity
    BY FeedAssumption DEF NoQuote
  <2>4. /\ latest \in [stamp : 0..MaxQuotes, good : BOOLEAN]
        /\ answer \in [stamp : 0..MaxQuotes, good : BOOLEAN]
    BY <2>3 DEF FeedInit
  <2>5. ring \in Seq(1..MaxQuotes) /\ handled \in Seq(1..MaxQuotes) /\ batch \in 0..Len(ring)
    BY <2>1 DEF FeedInit
  <2> QED
    BY <2>2, <2>3, <2>4, <2>5 DEF FeedInit, FeedTypeOK
<1>3. OnceInOrder /\ Filtered
  BY <1>1 DEF FeedInit, OnceInOrder, Filtered, NoQuote
<1>4. EveryQuoteAccounted
  BY FS_EmptySet DEF FeedInit, EveryQuoteAccounted, InHand
<1> QED
  BY <1>2, <1>3, <1>4 DEF FeedInv

(* Steps of either thread that touch neither quotes nor the ring, and do   *)
(* not put a quote in the poller's hand or take one from it.               *)
LEMMA AsidePreserves ==
    ASSUME FeedInv, FeedTypeOK',
           UNCHANGED <<latest, answer, lastStamp, ring, dropped, handled, polled>>,
           poller' = "answered" <=> poller = "answered",
           stage' = "setup" => poller' = "off"
    PROVE  FeedInv'
<1>1. Accepted' = Accepted /\ InHand' = InHand
  BY DEF Accepted, InHand
<1>2. OnceInOrder'
  BY <1>1 DEF FeedInv, OnceInOrder
<1>3. EveryQuoteAccounted'
  BY <1>1 DEF FeedInv, EveryQuoteAccounted
<1>4. Filtered'
  BY <1>1 DEF FeedInv, Filtered
<1> QED
  BY <1>2, <1>3, <1>4 DEF FeedInv

(* The venue quotes.                                                       *)
LEMMA NewQuotePreserves ==
    ASSUME FeedInv, NEW good \in BOOLEAN, NewQuote(good)
    PROVE  FeedInv'
<1> USE DEF NewQuote, feedVars, loopVars
<1>1. FeedTypeOK'
  BY FeedAssumption DEF FeedInv, FeedTypeOK, Waiting
<1>2. Accepted' = Accepted /\ InHand' = InHand
  BY DEF Accepted, InHand
<1>3. OnceInOrder' /\ EveryQuoteAccounted'
  BY <1>2 DEF FeedInv, OnceInOrder, EveryQuoteAccounted
<1>4. Filtered'
  BY <1>2, FeedAssumption DEF FeedInv, FeedTypeOK, Filtered
<1> QED
  BY <1>1, <1>3, <1>4 DEF FeedInv

(* A poll reads a quote: it is fresh exactly if it was never polled.       *)
LEMMA FetchPreserves ==
    ASSUME FeedInv, Fetch
    PROVE  FeedInv'
<1> USE DEF Fetch, loopVars
<1>1. latest.stamp \in 1..MaxQuotes /\ lastStamp \in 0..MaxQuotes /\ latest.good \in BOOLEAN
  BY FeedAssumption DEF FeedInv, FeedTypeOK
<1>2. FeedTypeOK'
  BY <1>1 DEF FeedInv, FeedTypeOK, Waiting
<1>3. Accepted' = Accepted /\ InHand = 0
  BY DEF Accepted, InHand
<1>4. OnceInOrder'
  BY <1>3 DEF FeedInv, OnceInOrder
<1>5. \A n \in polled : n <= lastStamp
  BY DEF FeedInv, Filtered
<1>6. EveryQuoteAccounted'
  <2>1. CASE latest.good /\ latest.stamp # lastStamp
    <3>1. latest.stamp > lastStamp
      BY <1>1, <2>1 DEF FeedInv, Filtered
    <3>2. latest.stamp \notin polled
      BY <1>1, <1>5, <3>1
    <3>3. Cardinality(polled') = Cardinality(polled) + 1
      BY <2>1, <3>2, PolledCount DEF FeedInv
    <3>4. InHand' = 1
      BY <2>1 DEF InHand
    <3> QED
      BY <1>3, <3>3, <3>4 DEF FeedInv, FeedTypeOK, EveryQuoteAccounted
  <2>2. CASE ~(latest.good /\ latest.stamp # lastStamp)
    <3>1. polled' = polled
      BY <2>2 DEF FeedInv, Filtered
    <3>2. InHand' = 0
      BY <2>2 DEF InHand
    <3> QED
      BY <1>3, <3>1, <3>2 DEF FeedInv, EveryQuoteAccounted
  <2> QED
    BY <2>1, <2>2
<1>7. Filtered'
  BY <1>1, <1>3, <1>5 DEF FeedInv, Filtered
<1> QED
  BY <1>2, <1>4, <1>6, <1>7 DEF FeedInv

(* The quote in hand is newer than whatever was pushed: pushing it keeps   *)
(* the order.                                                              *)
LEMMA PushKeepsOrder ==
    ASSUME FeedInv, NEW n \in Stamps, lastStamp < n,
           ring' = Append(ring, n), handled' = handled
    PROVE  /\ OnceInOrder'
           /\ \A i \in DOMAIN Accepted' : Accepted'[i] <= n
           /\ ring' \in Seq(Stamps) /\ Len(ring') = Len(ring) + 1
<1>1. Accepted \in Seq(Stamps) /\ ring \in Seq(Stamps) /\ handled \in Seq(Stamps)
  BY AcceptedType DEF FeedInv, FeedTypeOK, Stamps
<1>2. Accepted' = Append(Accepted, n)
  BY <1>1, PushedAtEnd DEF Accepted
<1>3. \A i \in DOMAIN Accepted : Accepted[i] < n /\ Accepted[i] \in Nat
  <2> SUFFICES ASSUME NEW i \in DOMAIN Accepted
               PROVE  Accepted[i] < n /\ Accepted[i] \in Nat
    OBVIOUS
  <2>1. Accepted[i] \in Stamps
    BY <1>1
  <2>2. Accepted[i] <= lastStamp /\ lastStamp \in Nat
    BY DEF FeedInv, Filtered, FeedTypeOK
  <2> QED
    BY <2>1, <2>2, FeedAssumption DEF Stamps
<1>4. /\ DOMAIN Accepted = 1..Len(Accepted) /\ Len(Accepted) \in Nat
      /\ DOMAIN Accepted' = 1..(Len(Accepted) + 1)
      /\ Accepted'[Len(Accepted) + 1] = n
      /\ \A i \in 1..Len(Accepted) : Accepted'[i] = Accepted[i]
  BY <1>1, <1>2, AppendProperties
<1>5. OnceInOrder'
  <2> SUFFICES ASSUME NEW i \in DOMAIN Accepted', NEW j \in DOMAIN Accepted', i < j
               PROVE  Accepted'[i] < Accepted'[j]
    BY DEF OnceInOrder
  <2>1. i \in DOMAIN Accepted /\ Accepted'[i] = Accepted[i]
    BY <1>4
  <2>2. CASE j = Len(Accepted) + 1
    BY <1>3, <1>4, <2>1, <2>2
  <2>3. CASE j \in DOMAIN Accepted
    BY <1>4, <2>1, <2>3 DEF FeedInv, OnceInOrder
  <2> QED
    BY <1>4, <2>2, <2>3
<1>6. \A i \in DOMAIN Accepted' : Accepted'[i] <= n
  BY <1>3, <1>4, FeedAssumption DEF Stamps
<1> QED
  BY <1>1, <1>5, <1>6, AppendProperties

(* The rest of the poll: pushed, dropped, bad, or a duplicate.             *)
LEMMA DeliverPreserves ==
    ASSUME FeedInv, Deliver
    PROVE  FeedInv'
<1> USE DEF Deliver, loopVars
<1>1. /\ answer.stamp \in Stamps /\ lastStamp \in Nat /\ lastStamp <= answer.stamp
      /\ answer.good \in BOOLEAN
  BY FeedAssumption DEF FeedInv, FeedTypeOK, Filtered, Stamps
<1>2. InHand' = 0
  BY DEF InHand
<1>3. (\A i \in DOMAIN Accepted' : Accepted'[i] <= answer.stamp) => Filtered'
  BY <1>1, FeedAssumption DEF FeedInv, FeedTypeOK, Filtered, Stamps
<1>4. CASE answer.good /\ answer.stamp # lastStamp
  <2>1. PICK behind \in 0..unseen :
          /\ unseen' = IF Waiting < Capacity THEN unseen ELSE behind
          /\ IF Len(ring) + held + unseen' < Capacity
             THEN ring' = Append(ring, answer.stamp) /\ UNCHANGED dropped
             ELSE dropped' = dropped + 1 /\ UNCHANGED ring
    BY <1>4 DEF TryPush
  <2>2. InHand = 1 /\ lastStamp < answer.stamp
    BY <1>1, <1>4, FeedAssumption DEF InHand, Stamps
  <2>3. /\ unseen' \in Nat /\ unseen' <= unseen /\ Len(ring) \in Nat /\ held \in Nat
        /\ unseen \in Nat /\ Waiting <= Capacity /\ Waiting = Len(ring) + held + unseen
        /\ dropped \in Nat
    BY <2>1 DEF FeedInv, FeedTypeOK, Waiting
  <2>4. Cardinality(polled) \in Nat /\ Len(handled) \in Nat
    BY PolledCount DEF FeedInv, FeedTypeOK
  <2>5. CASE Len(ring) + held + unseen' < Capacity
    <3>1. ring' = Append(ring, answer.stamp) /\ dropped' = dropped
      BY <2>1, <2>5
    <3>2. /\ OnceInOrder'
          /\ \A i \in DOMAIN Accepted' : Accepted'[i] <= answer.stamp
          /\ ring' \in Seq(Stamps) /\ Len(ring') = Len(ring) + 1
      BY <1>1, <2>2, <3>1, PushKeepsOrder
    <3>3. Waiting' <= Capacity
      BY <2>3, <2>5, <3>2, FeedAssumption DEF Waiting
    <3>4. FeedTypeOK'
      BY <1>1, <2>3, <3>1, <3>2, <3>3, FeedAssumption DEF FeedInv, FeedTypeOK, Stamps
    <3>5. EveryQuoteAccounted'
      BY <1>2, <2>2, <2>3, <2>4, <3>1, <3>2 DEF FeedInv, EveryQuoteAccounted
    <3> QED
      BY <1>3, <3>2, <3>4, <3>5 DEF FeedInv
  <2>6. CASE ~(Len(ring) + held + unseen' < Capacity)
    <3>1. ring' = ring /\ dropped' = dropped + 1
      BY <2>1, <2>6
    <3>2. Accepted' = Accepted
      BY <3>1 DEF Accepted
    <3>3. \A i \in DOMAIN Accepted' : Accepted'[i] <= answer.stamp
      <4> SUFFICES ASSUME NEW i \in DOMAIN Accepted
                   PROVE  Accepted[i] <= answer.stamp
        BY <3>2
      <4>1. Accepted[i] <= lastStamp /\ Accepted[i] \in Stamps
        BY AcceptedType DEF FeedInv, Filtered
      <4> QED
        BY <1>1, <4>1, FeedAssumption DEF Stamps
    <3>4. FeedTypeOK'
      BY <1>1, <2>3, <3>1, FeedAssumption DEF FeedInv, FeedTypeOK, Stamps, Waiting
    <3>5. OnceInOrder'
      BY <3>2 DEF FeedInv, OnceInOrder
    <3>6. EveryQuoteAccounted'
      BY <1>2, <2>2, <2>3, <2>4, <3>1 DEF FeedInv, EveryQuoteAccounted
    <3> QED
      BY <1>3, <3>3, <3>4, <3>5, <3>6 DEF FeedInv
  <2> QED
    BY <2>5, <2>6
<1>5. CASE ~(answer.good /\ answer.stamp # lastStamp)
  <2>1. UNCHANGED <<ring, unseen, dropped>>
    BY <1>5
  <2>2. Accepted' = Accepted /\ InHand = 0
    BY <1>5, <2>1 DEF Accepted, InHand
  <2>3. \A i \in DOMAIN Accepted' : Accepted'[i] <= answer.stamp
    <3> SUFFICES ASSUME NEW i \in DOMAIN Accepted
                 PROVE  Accepted[i] <= answer.stamp
      BY <2>2
    <3>1. Accepted[i] <= lastStamp /\ Accepted[i] \in Stamps
      BY AcceptedType DEF FeedInv, Filtered
    <3> QED
      BY <1>1, <3>1, FeedAssumption DEF Stamps
  <2>4. FeedTypeOK'
    BY <1>1, <2>1, FeedAssumption DEF FeedInv, FeedTypeOK, Stamps, Waiting
  <2>5. OnceInOrder' /\ EveryQuoteAccounted'
    BY <1>2, <2>1, <2>2 DEF FeedInv, OnceInOrder, EveryQuoteAccounted
  <2> QED
    BY <1>3, <2>3, <2>4, <2>5 DEF FeedInv
<1> QED
  BY <1>4, <1>5

(* A tick moves from the ring to the strategy.                             *)
LEMMA HandleTickPreserves ==
    ASSUME FeedInv, HandleTick
    PROVE  FeedInv'
<1> USE DEF HandleTick, feedVars
<1>1. /\ ring \in Seq(Stamps) /\ handled \in Seq(Stamps) /\ ring # <<>>
      /\ batch \in 0..Len(ring) /\ batch > 0
  BY DEF FeedInv, FeedTypeOK, Stamps
<1>2. /\ Head(ring) \in Stamps /\ Tail(ring) \in Seq(Stamps)
      /\ Len(Tail(ring)) = Len(ring) - 1 /\ Len(ring) \in Nat
  BY <1>1, HeadTailProperties
<1>3. handled' \in Seq(Stamps) /\ Len(handled') = Len(handled) + 1 /\ Len(handled) \in Nat
  BY <1>1, <1>2, AppendProperties
<1>4. FeedTypeOK'
  <2>1. Waiting' = Waiting /\ batch' \in 0..Len(ring') /\ held' \in Nat
    BY <1>1, <1>2 DEF FeedInv, FeedTypeOK, Waiting
  <2> QED
    BY <1>2, <1>3, <2>1 DEF FeedInv, FeedTypeOK, Stamps
<1>5. Accepted' = Accepted
  BY <1>1, HeadMoves DEF Accepted
<1>6. OnceInOrder' /\ Filtered'
  BY <1>5 DEF FeedInv, OnceInOrder, Filtered
<1>7. EveryQuoteAccounted'
  <2>1. InHand' = InHand
    BY DEF InHand
  <2>2. Len(handled') + Len(ring') = Len(handled) + Len(ring)
    BY <1>2, <1>3
  <2> QED
    BY <2>1, <2>2 DEF FeedInv, EveryQuoteAccounted
<1> QED
  BY <1>4, <1>6, <1>7 DEF FeedInv

(* Every step keeps the invariant.                                         *)
LEMMA FeedNextPreserves == FeedInv /\ [FeedNext]_sessionVars => FeedInv'
<1> SUFFICES ASSUME FeedInv, [FeedNext]_sessionVars
             PROVE  FeedInv'
  OBVIOUS
<1>0. FeedTypeOK
  BY DEF FeedInv
<1>1. ASSUME NEW good \in BOOLEAN, NewQuote(good)
      PROVE  FeedInv'
  BY <1>1, NewQuotePreserves
<1>2. CASE LookAtFlag \/ FetchFails \/ SleepOver
  <2>1. FeedTypeOK'
    BY <1>0, <1>2 DEF LookAtFlag, FetchFails, SleepOver, FeedTypeOK, Waiting, loopVars
  <2> QED
    BY <1>2, <2>1, AsidePreserves
    DEF LookAtFlag, FetchFails, SleepOver, loopVars, FeedInv, Filtered
<1>3. CASE Fetch
  BY <1>3, FetchPreserves
<1>4. CASE Deliver
  BY <1>4, DeliverPreserves
<1>5. CASE Start
  <2>1. FeedTypeOK'
    BY <1>0, <1>5 DEF Start, FeedTypeOK, Waiting
  <2> QED
    BY <1>5, <2>1, AsidePreserves DEF Start, FeedInv, Filtered
<1>6. CASE BeginDrain \/ EndDrain \/ LeaveLoop \/ StopFeed \/ Joined
  <2>1. FeedTypeOK'
    <3>1. CASE BeginDrain
      BY <1>0, <3>1 DEF BeginDrain, FeedTypeOK, Waiting, feedVars
    <3>2. CASE EndDrain
      <4>1. Len(ring) \in Nat /\ held \in Nat /\ unseen \in Nat
        BY <1>0 DEF FeedTypeOK
      <4>2. Waiting' = Waiting /\ held' \in Nat /\ unseen' \in Nat
        BY <3>2, <4>1 DEF EndDrain, Waiting
      <4> QED
        BY <1>0, <3>2, <4>2 DEF EndDrain, FeedTypeOK, feedVars
    <3>3. CASE LeaveLoop \/ StopFeed \/ Joined
      BY <1>0, <3>3 DEF LeaveLoop, StopFeed, Joined, FeedTypeOK, Waiting, feedVars
    <3> QED
      BY <1>6, <3>1, <3>2, <3>3
  <2> QED
    BY <1>6, <2>1, AsidePreserves
    DEF BeginDrain, EndDrain, LeaveLoop, StopFeed, Joined, feedVars, FeedInv, Filtered
<1>7. CASE HandleTick
  BY <1>7, HandleTickPreserves
<1>8. CASE UNCHANGED sessionVars
  <2>1. FeedTypeOK'
    BY <1>0, <1>8 DEF sessionVars, feedVars, loopVars, FeedTypeOK, Waiting
  <2> QED
    BY <1>8, <2>1, AsidePreserves DEF sessionVars, feedVars, loopVars, FeedInv, Filtered
<1> QED
  BY <1>1, <1>2, <1>3, <1>4, <1>5, <1>6, <1>7, <1>8 DEF FeedNext, PollThread, Drain

(* The inductive invariant holds of the specification.                     *)
THEOREM FeedInvariance == FeedSpec => []FeedInv
BY FeedInitHolds, FeedNextPreserves, PTL DEF FeedSpec

(* The types; and the ring never holds more than its capacity, stale views *)
(* or not (SPSCRingBuffer.h:53-64, 86-98).                                 *)
THEOREM FeedTypeCorrect == FeedSpec => []FeedTypeOK
BY FeedInvariance, PTL DEF FeedInv

(* The duplicate filter of poll_once and the drains of the live loop hand  *)
(* each quote over once, in order (AlpacaMarketDataFeed.cpp:45-67).        *)
THEOREM QuotesOnceInOrder == FeedSpec => []OnceInOrder
BY FeedInvariance, PTL DEF FeedInv

(* A good quote is handled, in the ring, dropped and counted, or about to  *)
(* be (AlpacaMarketDataFeed.cpp:63-88).                                    *)
THEOREM QuotesAccounted == FeedSpec => []EveryQuoteAccounted
BY FeedInvariance, PTL DEF FeedInv
=============================================================================
