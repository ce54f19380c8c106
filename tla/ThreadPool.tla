----------------------------- MODULE ThreadPool -----------------------------
(***************************************************************************)
(* The worker pool of core/ThreadPool: a queue of tasks and a stop flag    *)
(* behind one mutex and one condition variable.                            *)
(*                                                                         *)
(* What runs under the mutex is one step.  The notifications come after    *)
(* the mutex is released and are steps of their own, so a worker may take  *)
(* the task, or another one be pushed, in between.  A task may enqueue     *)
(* further tasks, also while the pool is being destroyed.  A task that     *)
(* throws ends like any other: its exception goes into its future.         *)
(***************************************************************************)
EXTENDS Naturals, Sequences, FiniteSets

CONSTANTS Workers,   \* the threads of the pool
          Callers,   \* threads outside the pool that use it
          Tasks      \* bound: each task is enqueued at most once

(* The constructor takes any number of threads.  A pool without any runs   *)
(* no task.                                                                *)
ASSUME PoolAssumption ==
    /\ IsFiniteSet(Workers) /\ Workers # {}
    /\ IsFiniteSet(Callers) /\ Callers \cap Workers = {}

VARIABLES
    queue,      \* tasks_
    worker,     \* where each worker is in its loop
    notifying,  \* who pushed a task and has not called notify_one yet
    destroyer,  \* where the destructor is; stop_ is set once it is not "alive"
    accepted,   \* history: the tasks pushed, in order
    started     \* history: the tasks handed to workers, in order

poolVars == <<queue, worker, notifying, destroyer, accepted, started>>

In(place) == {w \in Workers : worker[w] = place}
Stopped == destroyer # "alive"

(* A new thread goes to the mutex first, as one that was woken does.       *)
PoolInit ==
    /\ queue = <<>>
    /\ worker = [w \in Workers |-> "ready"]
    /\ notifying = {}
    /\ destroyer = "alive"
    /\ accepted = <<>>
    /\ started = <<>>

IsAccepted(task) == \E i \in DOMAIN accepted : accepted[i] = task
MayCall(c) == c \in Callers \cup In("running") /\ c \notin notifying

Push(task) ==
    /\ queue' = Append(queue, task)
    /\ accepted' = Append(accepted, task)
    /\ UNCHANGED <<worker, destroyer, started>>
-----------------------------------------------------------------------------
(* enqueue *)

EnqueueStopped(c, task) ==   \* mutant: the stop flag is not looked at
    /\ MayCall(c)
    /\ destroyer # "gone"
    /\ ~IsAccepted(task)
    /\ Push(task)
    /\ notifying' = IF Stopped THEN notifying ELSE notifying \cup {c}

EnqueueNotifyFirst(c, task) ==   \* mutant: notifies only when the queue was empty
    /\ MayCall(c)
    /\ ~Stopped
    /\ ~IsAccepted(task)
    /\ Push(task)
    /\ notifying' = IF queue = <<>> THEN notifying \cup {c} ELSE notifying

(* On a pool that is stopped the call throws and changes nothing.          *)
Enqueue(c, task) ==
    /\ MayCall(c)
    /\ ~Stopped
    /\ ~IsAccepted(task)
    /\ Push(task)
    /\ notifying' = notifying \cup {c}

(* notify_one wakes one of the sleepers, if there are any.                 *)
NotifyOne(c) ==
    /\ c \in notifying
    /\ notifying' = notifying \ {c}
    /\ \/ /\ In("asleep") = {}
          /\ UNCHANGED worker
       \/ \E w \in In("asleep") : worker' = [worker EXCEPT ![w] = "ready"]
    /\ UNCHANGED <<queue, destroyer, accepted, started>>
-----------------------------------------------------------------------------
(* The loop of a worker that holds the mutex *)

Go(w, from, to) ==
    /\ worker[w] = from
    /\ worker' = [worker EXCEPT ![w] = to]

Sleep(w) ==
    /\ Go(w, "ready", "asleep")
    /\ ~Stopped /\ queue = <<>>
    /\ UNCHANGED <<queue, notifying, destroyer, accepted, started>>

LeaveAtOnce(w) ==   \* mutant: a stopped pool does not finish its queue
    /\ Go(w, "ready", "exited")
    /\ Stopped
    /\ UNCHANGED <<queue, notifying, destroyer, accepted, started>>

Leave(w) ==
    /\ Go(w, "ready", "exited")
    /\ Stopped /\ queue = <<>>
    /\ UNCHANGED <<queue, notifying, destroyer, accepted, started>>

TakeNewest(w) ==   \* mutant: the queue is used as a stack
    /\ Go(w, "ready", "running")
    /\ queue # <<>>
    /\ started' = Append(started, queue[Len(queue)])
    /\ queue' = SubSeq(queue, 1, Len(queue) - 1)
    /\ UNCHANGED <<notifying, destroyer, accepted>>

Take(w) ==
    /\ Go(w, "ready", "running")
    /\ queue # <<>>
    /\ started' = Append(started, Head(queue))
    /\ queue' = Tail(queue)
    /\ UNCHANGED <<notifying, destroyer, accepted>>

(* The task returns; it does not return out of the middle of an enqueue.   *)
Finish(w) ==
    /\ w \notin notifying
    /\ Go(w, "running", "ready")
    /\ UNCHANGED <<queue, notifying, destroyer, accepted, started>>

(* A condition variable may wake a waiter for no reason.                   *)
WakeSpuriously(w) ==
    /\ Go(w, "asleep", "ready")
    /\ UNCHANGED <<queue, notifying, destroyer, accepted, started>>
-----------------------------------------------------------------------------
(* The destructor *)

(* The owner starts it when no thread outside is in the middle of a call.  *)
SetStop ==
    /\ ~Stopped
    /\ notifying \cap Callers = {}
    /\ destroyer' = "notifying"
    /\ UNCHANGED <<queue, worker, notifying, accepted, started>>

NotifyOneAtStop ==   \* mutant: notify_one in place of notify_all
    /\ destroyer = "notifying"
    /\ destroyer' = "joining"
    /\ \/ In("asleep") = {} /\ UNCHANGED worker
       \/ \E w \in In("asleep") : worker' = [worker EXCEPT ![w] = "ready"]
    /\ UNCHANGED <<queue, notifying, accepted, started>>

NotifyAll ==
    /\ destroyer = "notifying"
    /\ destroyer' = "joining"
    /\ worker' = [w \in Workers |-> IF worker[w] = "asleep" THEN "ready" ELSE worker[w]]
    /\ UNCHANGED <<queue, notifying, accepted, started>>

(* The joins, in any order, end when the last worker has left.             *)
Joined ==
    /\ destroyer = "joining"
    /\ In("exited") = Workers
    /\ destroyer' = "gone"
    /\ UNCHANGED <<queue, worker, notifying, accepted, started>>
-----------------------------------------------------------------------------
WithMutex(w) == Sleep(w) \/ Leave(w) \/ Take(w)

Destroy == SetStop \/ NotifyAll \/ Joined

PoolNext ==
    \/ \E c \in Callers \cup Workers :
          NotifyOne(c) \/ \E task \in Tasks : Enqueue(c, task)
    \/ \E w \in Workers : WithMutex(w) \/ Finish(w) \/ WakeSpuriously(w)
    \/ Destroy

PoolSpec == PoolInit /\ [][PoolNext]_poolVars

(* A thread that wants the mutex gets it, a thread that may run does run,  *)
(* and tasks end.  Nobody has to use or to destroy the pool.               *)
PoolFairness ==
    /\ \A w \in Workers : WF_poolVars(WithMutex(w)) /\ WF_poolVars(Finish(w))
    /\ \A c \in Callers \cup Workers : WF_poolVars(NotifyOne(c))
    /\ WF_poolVars(NotifyAll \/ Joined)

PoolFairSpec == PoolSpec /\ PoolFairness
-----------------------------------------------------------------------------
(* Properties *)

(* The types; only a pool thread that runs a task, or an outside thread,   *)
(* is in the middle of an enqueue.                                         *)
PoolTypeOK ==
    /\ queue \in Seq(Tasks) /\ accepted \in Seq(Tasks) /\ started \in Seq(Tasks)
    /\ worker \in [Workers -> {"ready", "asleep", "running", "exited"}]
    /\ notifying \subseteq Callers \cup In("running")
    /\ destroyer \in {"alive", "notifying", "joining", "gone"}

(* No wake-up is lost: while a worker sleeps, there are no more tasks in   *)
(* the queue than workers awake and notifications on their way; and once   *)
(* the destructor has notified, nobody sleeps.                             *)
NoLostWakeup ==
    /\ In("asleep") # {} =>
          Len(queue) <= Cardinality(In("ready")) + Cardinality(notifying)
    /\ destroyer \in {"joining", "gone"} => In("asleep") = {}

(* Tasks start in the order in which they were accepted, each once: none   *)
(* is lost, doubled or overtaken.                                          *)
StartedInOrder == accepted = started \o queue

(* When the destructor returns, every accepted task has been run to its    *)
(* end, and no thread is left that could touch the destroyed pool.         *)
DrainedWhenGone ==
    destroyer = "gone" =>
        /\ queue = <<>> /\ started = accepted
        /\ In("exited") = Workers
        /\ notifying = {}

(* Every accepted task is started, whether or not the pool is destroyed.   *)
EveryTaskStarts ==
    \A task \in Tasks :
        IsAccepted(task) ~> \E i \in DOMAIN started : started[i] = task

(* The destructor returns.                                                 *)
DestructorReturns == Stopped ~> destroyer = "gone"
=============================================================================
