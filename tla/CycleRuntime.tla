----------------------------- MODULE CycleRuntime -----------------------------
(***************************************************************************)
(* The kernel's workers (scheduling/runtime.Worker), each a thread with one  *)
(* callback at a time and at most one queued event, and the callbacks of     *)
(* scheduling/kernel_runtime that share state: the two halves of a scan,      *)
(* model updates, the book-keeping passes and the owner's close requests.    *)
(*                                                                           *)
(* Two locks order them, the decision lock before the execution lock.  What  *)
(* runs under a lock and waits for nothing is one action; the evaluation of a *)
(* batch holds the decision lock and the drain of close requests the          *)
(* execution lock over several.  What can go wrong is what happens around the *)
(* locks: an event that arrives while its worker runs, a model that changes   *)
(* while a batch waits, a half that never finishes, a stop between the two.   *)
(***************************************************************************)
EXTENDS Integers, Sequences

CONSTANTS
    BookJobs,     \* the workers that read the book: positions, account
    Requests,     \* close requests of the owner
    MaxModels,    \* bound: model updates
    MaxFills      \* bound: fills and closes that change the book

ASSUME BookJobsAssumption == BookJobs \subseteq {"account", "positions"}
ASSUME BoundsAssumption == MaxModels \in Nat /\ MaxFills \in Nat

Jobs == BookJobs \cup {"commands", "market", "decisions"}

\* Mutant: the workers that have no timer are not stopped.
Order_Timers == <<"commands", "account", "positions", "market">>
\* KernelRuntime.jobs, in the order in which stop goes through them.
Order == <<"commands", "account", "positions", "market", "decisions">>

VARIABLES
    pending,    \* Worker._pending is set
    pc,         \* the callback of each worker, "idle" between two
    stopping,   \* Worker._stopping is set
    model,      \* the generation of runtime.model
    inFlight,   \* scan_in_flight
    scan,       \* pending_scan: the generation of the prepared view
    view,       \* the view decisions holds, and market prepares
    book,       \* the changes of the book so far
    seen,       \* the book each of BookJobs last read
    queue,      \* kv close_requests
    hand,       \* the requests a drain has taken
    closed,     \* how often each request was executed
    halt        \* runtime.stop: "no", "stopping", "released"

workers == <<pending, pc, stopping>>
batch   == <<inFlight, scan, view>>
books   == <<book, seen>>
owner   == <<queue, hand, closed>>
vars    == <<workers, model, batch, books, owner, halt>>

None == -1

Init ==
    /\ pending = [j \in Jobs |-> j \in BookJobs \cup {"market", "commands"}]
    /\ pc = [j \in Jobs |-> "idle"]
    /\ stopping = {}
    /\ model = 0
    /\ inFlight = FALSE /\ scan = None
    /\ view = [j \in {"market", "decisions"} |-> None]
    /\ book = 0 /\ seen = [j \in BookJobs |-> 0]
    /\ queue = {} /\ hand = {} /\ closed = [r \in Requests |-> 0]
    /\ halt = "no"

-----------------------------------------------------------------------------
(* Worker.                                                                  *)

\* Mutant: an event that finds its worker running is dropped.
Triggered_IdleOnly(j) == j \notin stopping /\ pc[j] = "idle"
\* Worker.trigger is accepted unless the worker is stopping; a second event while
\* one is queued is the same event.
Triggered(j) == j \notin stopping

\* The events of these workers, each coalesced with what is queued.
Trigger(js) == pending' = [j \in Jobs |-> pending[j] \/ (j \in js /\ Triggered(j))]

Go(j, to) == pc' = [pc EXCEPT ![j] = to]

\* The timer of an interval worker is one more event.
Tick(j) ==
    /\ j \in BookJobs \cup {"market", "commands"}
    /\ j \notin stopping /\ pc[j] = "idle" /\ ~pending[j]
    /\ pending' = [pending EXCEPT ![j] = TRUE]
    /\ UNCHANGED <<pc, stopping, model, batch, books, owner, halt>>

\* run_once: the queued event is taken before the callback, so one that arrives
\* meanwhile is queued again.
Start(j) ==
    /\ pc[j] = "idle" /\ j \notin stopping /\ pending[j]
    /\ pending' = [pending EXCEPT ![j] = FALSE]
    /\ Go(j, "begin")
    /\ UNCHANGED <<stopping, model, batch, books, owner, halt>>

-----------------------------------------------------------------------------
(* The scan: market prepares a batch, decisions evaluates it.               *)

\* Mutant: the reservation of a running scan is not looked at.
Reservable_Always == halt = "no"
\* One reservation covers selection, preparation, queueing and evaluation.
Reservable == ~inFlight /\ halt = "no"

MarketReserve ==
    /\ pc["market"] = "begin"
    /\ IF Reservable
       THEN /\ inFlight' = TRUE
            /\ Go("market", "prepare")
       ELSE /\ UNCHANGED inFlight
            /\ Go("market", "idle")
    /\ UNCHANGED <<pending, stopping, model, scan, view, books, owner, halt>>

\* analysis_context: the view carries the generation it was built from.
MarketView ==
    /\ pc["market"] = "prepare"
    /\ view' = [view EXCEPT !["market"] = model]
    /\ Go("market", "publish")
    /\ UNCHANGED <<pending, stopping, model, inFlight, scan, books, owner, halt>>

\* Preparation raises: the reservation is given back.
MarketFail ==
    /\ pc["market"] \in {"prepare", "publish"}
    /\ inFlight' = FALSE /\ scan' = None
    /\ view' = [view EXCEPT !["market"] = None]
    /\ Go("market", "idle")
    /\ UNCHANGED <<pending, stopping, model, books, owner, halt>>

MarketPublish ==
    /\ pc["market"] = "publish"
    /\ scan' = view["market"]
    /\ view' = [view EXCEPT !["market"] = None]
    /\ Go("market", "queue")
    /\ UNCHANGED <<pending, stopping, model, inFlight, books, owner, halt>>

\* A batch that decisions no longer takes is given back.
MarketQueue ==
    /\ pc["market"] = "queue"
    /\ IF Triggered("decisions")
       THEN UNCHANGED <<inFlight, scan>>
       ELSE inFlight' = FALSE /\ scan' = None
    /\ Trigger({"decisions"})
    /\ Go("market", "idle")
    /\ UNCHANGED <<stopping, model, view, books, owner, halt>>

\* The prepared view is taken out of its slot, before any lock.
DecisionsTake ==
    /\ pc["decisions"] = "begin"
    /\ view' = [view EXCEPT !["decisions"] = scan]
    /\ scan' = None
    /\ Go("decisions", IF scan = None THEN "idle" ELSE "lock")
    /\ UNCHANGED <<pending, stopping, model, inFlight, books, owner, halt>>

\* The locks that are held over several actions.
DecisionLocked  == pc["decisions"] = "evaluate"
ExecutionLocked == pc["commands"] = "drain"

\* Mutant: the generation of the batch is not compared under the lock.
Current_Taken == TRUE
\* The batch was prepared from the model that will judge it.
Current == view["decisions"] = model

\* A new generation of the model is published.
NewModel == model < MaxModels /\ model' = model + 1

\* Under the decision lock a batch of another model, or one gone stale, is
\* discarded and another is asked for; so is one whose own learning checkpoint
\* changes the model before it is judged.
DecisionsCheck ==
    /\ pc["decisions"] = "lock"
    /\ \/ /\ Current
          /\ Go("decisions", "evaluate")
          /\ UNCHANGED <<pending, model>>
       \/ /\ Trigger({"market"})
          /\ Go("decisions", "finish")
          /\ UNCHANGED model
       \/ /\ Current /\ NewModel
          /\ Trigger({"market"})
          /\ Go("decisions", "finish")
    /\ UNCHANGED <<stopping, batch, books, owner, halt>>

\* A change of the book, and the event every reader of it gets.
BookChange == book < MaxFills /\ book' = book + 1 /\ Trigger(BookJobs)

\* _try_enter and the coordinated intake, under the execution lock too; what is
\* filled changes the book.
DecisionsFill ==
    /\ DecisionLocked /\ ~ExecutionLocked
    /\ BookChange
    /\ UNCHANGED <<pc, stopping, model, batch, seen, owner, halt>>

\* The evaluation ends or raises; either way the lock is released.
DecisionsEvaluated ==
    /\ DecisionLocked
    /\ Go("decisions", "finish")
    /\ UNCHANGED <<pending, stopping, model, batch, books, owner, halt>>

\* Mutant: only a batch that was evaluated gives the reservation back.
Released_IfEvaluated == view["decisions"] # model
\* The reservation ends with the batch, whatever became of it.
Released == FALSE

DecisionsFinish ==
    /\ pc["decisions"] = "finish"
    /\ inFlight' = Released
    /\ view' = [view EXCEPT !["decisions"] = None]
    /\ Go("decisions", "idle")
    /\ UNCHANGED <<pending, stopping, model, scan, books, owner, halt>>

-----------------------------------------------------------------------------
(* Model updates, book-keeping and the owner's close requests.              *)

\* apply_learning and the workers that reload the model: a new generation under the
\* decision lock, and a new scan when learning was applied.
Learn ==
    /\ ~DecisionLocked /\ halt # "released"
    /\ NewModel
    /\ \/ Trigger({"market"})
       \/ UNCHANGED pending
    /\ UNCHANGED <<pc, stopping, batch, books, owner, halt>>

\* positions and account read the book under the execution lock, managing what
\* they read may change it again, and the rest of the callback follows.
BookPass(j) ==
    /\ pc[j] = "begin" /\ ~ExecutionLocked
    /\ seen' = [seen EXCEPT ![j] = book]
    /\ \/ BookChange
       \/ UNCHANGED <<book, pending>>
    /\ Go(j, "rest")
    /\ UNCHANGED <<stopping, model, batch, owner, halt>>

BookRest(j) ==
    /\ pc[j] = "rest"
    /\ Go(j, "idle")
    /\ UNCHANGED <<pending, stopping, model, batch, books, owner, halt>>

\* The owner's interface appends from its own thread and wakes the worker.
OwnerAppend(r) ==
    /\ halt # "released"
    /\ closed[r] = 0 /\ r \notin queue \cup hand
    /\ queue' = queue \cup {r}
    /\ Trigger({"commands"})
    /\ UNCHANGED <<pc, stopping, model, batch, books, hand, closed, halt>>

\* Mutant: the queue is read and written back, not read and cleared.
Remaining_Kept == queue
\* The queue is read and cleared in one transaction.
Remaining == {}

CommandsTake ==
    /\ pc["commands"] = "begin"
    /\ hand' = queue
    /\ queue' = Remaining
    /\ Go("commands", "drain")
    /\ UNCHANGED <<pending, stopping, model, batch, books, closed, halt>>

\* Each taken request is executed once; a close the venue refuses is reported and
\* not retried.
CommandsClose(r) ==
    /\ ExecutionLocked /\ r \in hand
    /\ hand' = hand \ {r}
    /\ closed' = [closed EXCEPT ![r] = @ + 1]
    /\ \/ BookChange
       \/ UNCHANGED <<book, pending>>
    /\ UNCHANGED <<pc, stopping, model, batch, seen, queue, halt>>

\* Mutant: the queue is cleared when its requests have been executed.
CommandsDone_Clears ==
    /\ ExecutionLocked /\ hand = {}
    /\ queue' = {}
    /\ Go("commands", "idle")
    /\ UNCHANGED <<pending, stopping, model, batch, books, hand, closed, halt>>
CommandsDone ==
    /\ ExecutionLocked /\ hand = {}
    /\ Go("commands", "idle")
    /\ UNCHANGED <<pending, stopping, model, batch, books, owner, halt>>

-----------------------------------------------------------------------------
(* The end of the kernel.                                                   *)

\* runtime.stop: the event, then every worker in its turn.
StopAll ==
    /\ halt = "no" /\ halt' = "stopping"
    /\ UNCHANGED <<workers, model, batch, books, owner>>

StopWorker ==
    /\ halt = "stopping"
    /\ \E n \in 1..Len(Order) :
           /\ Order[n] \in Jobs \ stopping
           /\ \A i \in 1..(n - 1) : Order[i] \in Jobs => Order[i] \in stopping
           /\ stopping' = stopping \cup {Order[n]}
    /\ UNCHANGED <<pending, pc, model, batch, books, owner, halt>>

\* Mutant: the join of a worker is given up while its callback runs.
Drained_Stopped == stopping = Jobs
\* runtime.join waits for every thread; a stopping thread returns once its callback
\* is over, and takes no event before it does.
Drained == stopping = Jobs /\ \A j \in Jobs : pc[j] = "idle"

\* The instance lock is released.
Release ==
    /\ halt = "stopping" /\ Drained
    /\ halt' = "released"
    /\ UNCHANGED <<workers, model, batch, books, owner>>

\* Nothing is left to do; a deadlock is anything else that stops.
Done == halt = "released" /\ UNCHANGED vars

-----------------------------------------------------------------------------
Market    == MarketReserve \/ MarketView \/ MarketPublish \/ MarketQueue
Decisions == DecisionsTake \/ DecisionsCheck \/ DecisionsEvaluated \/ DecisionsFinish
Commands  == CommandsTake \/ CommandsDone \/ \E r \in Requests : CommandsClose(r)

Next ==
    \/ \E j \in Jobs : Tick(j) \/ Start(j)
    \/ \E j \in BookJobs : BookPass(j) \/ BookRest(j)
    \/ \E r \in Requests : OwnerAppend(r)
    \/ Market \/ MarketFail \/ Decisions \/ DecisionsFill \/ Learn
    \/ Commands \/ StopAll \/ StopWorker \/ Release \/ Done

Spec == Init /\ [][Next]_vars

\* Every thread is scheduled, and a pass that keeps asking for the execution lock
\* gets it; the interval workers have their timers, though no property of an event
\* is left to them.  Nothing makes the kernel stop, but once it does it stops every
\* worker in turn.
Fairness ==
    /\ \A j \in Jobs : WF_vars(Start(j))
    /\ WF_vars(Market) /\ WF_vars(Decisions) /\ WF_vars(Commands)
    /\ \A j \in BookJobs : SF_vars(BookPass(j)) /\ WF_vars(BookRest(j))
    /\ WF_vars(StopWorker) /\ WF_vars(Release)

FairSpec == Spec /\ Fairness

-----------------------------------------------------------------------------
TypeOK ==
    /\ pending \in [Jobs -> BOOLEAN]
    /\ pc \in [Jobs -> {"idle", "begin", "prepare", "publish", "queue", "lock", "evaluate",
                        "finish", "rest", "drain"}]
    /\ stopping \subseteq Jobs
    /\ model \in 0..MaxModels /\ inFlight \in BOOLEAN
    /\ scan \in -1..MaxModels
    /\ view \in [{"market", "decisions"} -> -1..MaxModels]
    /\ book \in 0..MaxFills /\ seen \in [BookJobs -> 0..MaxFills]
    /\ queue \subseteq Requests /\ hand \subseteq Requests
    /\ closed \in [Requests -> 0..1]
    /\ halt \in {"no", "stopping", "released"}

\* The batches there are: being prepared, waiting in the slot, being evaluated.
Preparing  == pc["market"] \in {"prepare", "publish"}
Waiting    == scan # None
Evaluating == view["decisions"] # None

\* The reservation stands exactly while there is a batch, and there is never a
\* second one: no event, discard, failure or stop leaks it or makes another batch.
OneBatch ==
    /\ inFlight <=> (Preparing \/ Waiting \/ Evaluating)
    /\ ~(Preparing /\ Waiting) /\ ~(Preparing /\ Evaluating) /\ ~(Waiting /\ Evaluating)

\* A batch is judged by the model it was prepared from, to the end of its entries,
\* although models change while it waits.
OwnModel == DecisionLocked => view["decisions"] = model

\* A close request is in one place, queued, taken or executed: it is not executed
\* twice, whatever the owner appends between the read and the clear, and a kernel
\* that has released its lock leaves none taken and not executed.
RequestsKept ==
    \A r \in Requests :
        /\ r \in queue => r \notin hand
        /\ r \in queue \cup hand => closed[r] = 0
        /\ halt = "released" => r \notin hand

\* A batch never blocks scanning for good: its reservation ends, whatever lock,
\* model change or failure it meets.
ReservationEnds == inFlight ~> (~inFlight \/ halt # "no")

\* A change of the book is read by every book-keeping pass after it, also when the
\* event found the pass running, unless the kernel stops.
ChangesSeen ==
    \A j \in BookJobs, n \in 1..MaxFills :
        book >= n ~> (seen[j] >= n \/ halt # "no")

\* The owner's close requests are executed unless the kernel stops first.
RequestsServed == \A r \in Requests : r \in queue ~> (closed[r] > 0 \/ halt # "no")

\* A stop is reached from anywhere: no worker waits for another for ever.
StopEnds == halt = "stopping" ~> halt = "released"
=============================================================================
