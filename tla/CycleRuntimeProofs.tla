-------------------------- MODULE CycleRuntimeProofs --------------------------
(***************************************************************************)
(* The hand-offs of the workers, for any book-keeping workers, requests and *)
(* bounds: there is one batch at most and it is judged by the model it was   *)
(* prepared from, a close request is executed once, and a kernel that has     *)
(* released its lock holds none.  Each part of the invariant is about one     *)
(* hand-off and reads the step of its own workers only.                       *)
(***************************************************************************)
EXTENDS CycleRuntime, TLAPS

Pcs == {"idle", "begin", "prepare", "publish", "queue", "lock", "evaluate",
        "finish", "rest", "drain"}

\* The steps each worker takes.
WorkerInv ==
    /\ pending \in [Jobs -> BOOLEAN] /\ pc \in [Jobs -> Pcs] /\ stopping \subseteq Jobs
    /\ pc["market"] \in {"idle", "begin", "prepare", "publish", "queue"}
    /\ pc["decisions"] \in {"idle", "begin", "lock", "evaluate", "finish"}
    /\ pc["commands"] \in {"idle", "begin", "drain"}
    /\ \A j \in BookJobs : pc[j] \in {"idle", "begin", "rest"}

\* A batch is in the hands of the step that has it, and decisions is woken only for a
\* batch that is still in its slot.
BatchInv ==
    /\ model \in 0..MaxModels /\ inFlight \in BOOLEAN
    /\ scan \in -1..MaxModels /\ view \in [{"market", "decisions"} -> -1..MaxModels]
    /\ view["market"] # None <=> pc["market"] = "publish"
    /\ view["decisions"] # None <=> pc["decisions"] \in {"lock", "evaluate", "finish"}
    /\ pending["decisions"] \/ pc["decisions"] = "begin" => Waiting /\ pc["market"] # "queue"
    /\ ~(pending["decisions"] /\ pc["decisions"] = "begin")
    /\ pc["market"] = "queue" => Waiting
    /\ OneBatch /\ OwnModel

BookInv == book \in 0..MaxFills /\ seen \in [BookJobs -> 0..MaxFills]

\* Requests are in hand only while they are drained.
OwnerInv ==
    /\ queue \subseteq Requests /\ hand \subseteq Requests /\ closed \in [Requests -> 0..1]
    /\ hand # {} => ExecutionLocked
    /\ \A r \in Requests : /\ r \in queue => r \notin hand
                           /\ r \in queue \cup hand => closed[r] = 0

\* A kernel that has released its lock has no worker inside, and starts none.
StopInv ==
    /\ halt \in {"no", "stopping", "released"}
    /\ halt = "released" => stopping = Jobs /\ \A j \in Jobs : pc[j] = "idle"

IInv == WorkerInv /\ BatchInv /\ BookInv /\ OwnerInv /\ StopInv
-----------------------------------------------------------------------------
(* What the steps have in common.                                           *)

\* The workers that carry batches and requests keep no book.
LEMMA Distinct == /\ {"commands", "market", "decisions"} \subseteq Jobs
                  /\ BookJobs \subseteq Jobs
                  /\ {"commands", "market", "decisions"} \cap BookJobs = {}
BY BookJobsAssumption DEF Jobs

\* One worker goes on to another of its steps.
LEMMA GoStep ==
    ASSUME WorkerInv, NEW j \in Jobs, NEW to \in Pcs, Go(j, to),
           pending' \in [Jobs -> BOOLEAN], UNCHANGED stopping,
           j = "market" => to \in {"idle", "begin", "prepare", "publish", "queue"},
           j = "decisions" => to \in {"idle", "begin", "lock", "evaluate", "finish"},
           j = "commands" => to \in {"idle", "begin", "drain"},
           j \in BookJobs => to \in {"idle", "begin", "rest"}
    PROVE  /\ WorkerInv' /\ pc'[j] = to
           /\ \A k \in Jobs : k # j => pc'[k] = pc[k]
<1>1. /\ pc' \in [Jobs -> Pcs] /\ pc'[j] = to
      /\ \A k \in Jobs : k # j => pc'[k] = pc[k]
  BY DEF Go, WorkerInv
<1> QED  BY <1>1, Distinct DEF WorkerInv

\* An event only adds to what is queued.
LEMMA TriggerStep ==
    ASSUME WorkerInv, NEW js, Trigger(js)
    PROVE  /\ pending' \in [Jobs -> BOOLEAN]
           /\ \A j \in Jobs : j \notin js => pending'[j] = pending[j]
BY DEF Trigger, WorkerInv

\* Batches do not care for the other workers.
LEMMA BatchFrame ==
    ASSUME BatchInv, UNCHANGED <<model, batch>>, pending'["decisions"] = pending["decisions"],
           pc'["market"] = pc["market"], pc'["decisions"] = pc["decisions"]
    PROVE  BatchInv'
BY DEF BatchInv, batch, OneBatch, OwnModel, Preparing, Waiting, Evaluating, DecisionLocked

\* Nor do the owner's requests.
LEMMA OwnerFrame ==
    ASSUME OwnerInv, UNCHANGED owner, pc'["commands"] = pc["commands"]
    PROVE  OwnerInv'
BY DEF OwnerInv, owner, ExecutionLocked

\* A worker that is inside, or may still start, shows that the lock is held.
LEMMA StopFrame ==
    ASSUME StopInv, UNCHANGED halt, NEW j \in Jobs, pc[j] # "idle" \/ j \notin stopping
    PROVE  StopInv'
BY DEF StopInv

\* The book changes and its readers get an event.
LEMMA BookStep ==
    ASSUME WorkerInv, BookInv, BookChange \/ UNCHANGED <<book, pending>>
    PROVE  /\ book' \in 0..MaxFills /\ pending' \in [Jobs -> BOOLEAN]
           /\ \A j \in Jobs : j \notin BookJobs => pending'[j] = pending[j]
<1>1. CASE BookChange
  <2>1. book' \in 0..MaxFills
    BY <1>1, BoundsAssumption DEF BookChange, BookInv
  <2> QED  BY <1>1, <2>1, TriggerStep DEF BookChange
<1>2. CASE UNCHANGED <<book, pending>>
  BY <1>2 DEF BookInv, WorkerInv
<1> QED  BY <1>1, <1>2

-----------------------------------------------------------------------------
(* The workers' own steps.                                                  *)

\* At first there is no batch and no request.
LEMMA InitInv == Init => IInv
<1> SUFFICES ASSUME Init PROVE IInv
  OBVIOUS
<1> USE DEF Init
<1>1. WorkerInv
  BY Distinct DEF WorkerInv, Pcs
<1>2. BatchInv
  <2>1. /\ pc["market"] = "idle" /\ pc["decisions"] = "idle" /\ ~pending["decisions"]
        /\ view["market"] = -1 /\ view["decisions"] = -1
    <3>1. "market" \in Jobs /\ "decisions" \in Jobs /\ "decisions" \notin BookJobs
      BY Distinct
    <3>2. view["market"] = -1 /\ view["decisions"] = -1
      BY DEF None
    <3>3. pending["decisions"] <=> "decisions" \in BookJobs \cup {"market", "commands"}
      BY <3>1, Zenon
    <3> QED  BY <3>1, <3>2, <3>3
  <2>2. -1 \in -1..MaxModels /\ 0 \in 0..MaxModels
    BY BoundsAssumption
  <2> QED  BY <2>1, <2>2 DEF BatchInv, OneBatch, OwnModel, Preparing, Waiting, Evaluating,
              DecisionLocked, None
<1>3. BookInv /\ OwnerInv /\ StopInv
  BY BoundsAssumption DEF BookInv, OwnerInv, StopInv
<1> QED  BY <1>1, <1>2, <1>3 DEF IInv

\* A timer never wakes decisions.
LEMMA TickInv ==
    ASSUME IInv, NEW j \in Jobs, Tick(j)
    PROVE  IInv'
<1> USE DEF IInv
<1>1. /\ j \in BookJobs \cup {"market", "commands"} /\ j \notin stopping
      /\ pending' = [pending EXCEPT ![j] = TRUE]
      /\ UNCHANGED <<pc, stopping, model, batch, books, owner, halt>>
  BY DEF Tick
<1>2. pending' \in [Jobs -> BOOLEAN] /\ pending'["decisions"] = pending["decisions"]
  BY <1>1, Distinct DEF WorkerInv
<1>3. WorkerInv' /\ BookInv'
  BY <1>1, <1>2 DEF WorkerInv, BookInv, books
<1> QED  BY <1>1, <1>2, <1>3, BatchFrame, OwnerFrame, StopFrame

\* A callback begins with its event; what decisions begins with is in its slot.
LEMMA StartInv ==
    ASSUME IInv, NEW j \in Jobs, Start(j)
    PROVE  IInv'
<1> USE DEF IInv
<1>1. /\ pc[j] = "idle" /\ j \notin stopping /\ pending[j] /\ Go(j, "begin")
      /\ pending' = [pending EXCEPT ![j] = FALSE]
      /\ UNCHANGED <<stopping, model, batch, books, owner, halt>>
  BY DEF Start
<1>2. pending' \in [Jobs -> BOOLEAN]
  BY <1>1 DEF WorkerInv
<1>3. WorkerInv' /\ pc'[j] = "begin" /\ \A k \in Jobs : k # j => pc'[k] = pc[k]
  BY <1>1, <1>2, GoStep DEF Pcs
<1>4. BookInv' /\ StopInv'
  BY <1>1, StopFrame DEF BookInv, books
<1>5. OwnerInv'
  BY <1>1, <1>3, Distinct DEF OwnerInv, owner, ExecutionLocked
<1>6. BatchInv'
  <2>1. CASE j \notin {"market", "decisions"}
    BY <1>1, <1>3, <2>1, Distinct, BatchFrame DEF WorkerInv
  <2>2. CASE j = "market"
    BY <1>1, <1>3, <2>2, Distinct DEF WorkerInv, BatchInv, batch, OneBatch, OwnModel, Preparing,
       Waiting, Evaluating, DecisionLocked
  <2>3. CASE j = "decisions"
    BY <1>1, <1>3, <2>3, Distinct DEF WorkerInv, BatchInv, batch, OneBatch, OwnModel, Preparing,
       Waiting, Evaluating, DecisionLocked
  <2> QED  BY <2>1, <2>2, <2>3
<1> QED  BY <1>3, <1>4, <1>5, <1>6

\* The batch is reserved, prepared, published and queued, or given back.
LEMMA MarketInv ==
    ASSUME IInv, Market \/ MarketFail
    PROVE  IInv'
<1> USE DEF IInv
<1>1. /\ UNCHANGED <<stopping, model, books, owner, halt>>
      /\ pc["market"] # "idle"
      /\ \E to \in {"idle", "prepare", "publish", "queue"} : Go("market", to)
      /\ pending' = pending \/ Trigger({"decisions"})
  BY DEF Market, MarketReserve, MarketView, MarketPublish, MarketQueue, MarketFail, batch
<1>2. pending' \in [Jobs -> BOOLEAN]
  BY <1>1, TriggerStep DEF WorkerInv
<1>3. WorkerInv' /\ \A k \in Jobs : k # "market" => pc'[k] = pc[k]
  BY <1>1, <1>2, GoStep, Distinct DEF Pcs
<1>4. BookInv' /\ StopInv' /\ OwnerInv'
  BY <1>1, <1>3, StopFrame, OwnerFrame, Distinct DEF BookInv, books
<1>5. BatchInv'
  <2>0. pc \in [Jobs -> Pcs] /\ pc'["decisions"] = pc["decisions"] /\ "market" \in Jobs
    BY <1>3, Distinct DEF WorkerInv
  <2> USE DEF BatchInv, OneBatch, OwnModel, Preparing, Waiting, Evaluating, DecisionLocked
  <2>1. CASE MarketReserve
    BY <2>0, <2>1 DEF MarketReserve, Go, Reservable
  <2>2. CASE MarketView
    BY <2>0, <2>2 DEF MarketView, Go, None
  <2>3. CASE MarketPublish
    BY <2>0, <2>3 DEF MarketPublish, Go, None
  <2>4. CASE MarketFail
    BY <2>0, <2>4, BoundsAssumption DEF MarketFail, Go, None
  <2>5. CASE MarketQueue
    <3>1. pending'["decisions"] = (pending["decisions"] \/ Triggered("decisions"))
      BY <2>5, Distinct DEF MarketQueue, Trigger
    <3> QED  BY <2>0, <2>5, <3>1, BoundsAssumption DEF MarketQueue, Go, None
  <2> QED  BY <2>1, <2>2, <2>3, <2>4, <2>5 DEF Market
<1> QED  BY <1>3, <1>4, <1>5

\* The batch is taken out of its slot, judged under the decision lock by the model it
\* was prepared from, and given back.
LEMMA DecisionsInv ==
    ASSUME IInv, Decisions
    PROVE  IInv'
<1> USE DEF IInv
<1>1. /\ UNCHANGED <<stopping, books, owner, halt>>
      /\ pc["decisions"] # "idle"
      /\ \E to \in {"idle", "lock", "evaluate", "finish"} : Go("decisions", to)
      /\ pending' = pending \/ Trigger({"market"})
  <2>1. CASE DecisionsTake
    BY <2>1, Zenon DEF DecisionsTake
  <2>2. CASE DecisionsCheck
    BY <2>2 DEF DecisionsCheck
  <2>3. CASE DecisionsEvaluated \/ DecisionsFinish
    BY <2>3 DEF DecisionsEvaluated, DecisionsFinish, DecisionLocked
  <2> QED  BY <2>1, <2>2, <2>3 DEF Decisions
<1>2. pending' \in [Jobs -> BOOLEAN] /\ pending'["decisions"] = pending["decisions"]
  BY <1>1, TriggerStep, Distinct DEF WorkerInv
<1>3. WorkerInv' /\ \A k \in Jobs : k # "decisions" => pc'[k] = pc[k]
  BY <1>1, <1>2, GoStep, Distinct DEF Pcs
<1>4. BookInv' /\ StopInv' /\ OwnerInv'
  BY <1>1, <1>3, StopFrame, OwnerFrame, Distinct DEF BookInv, books
<1>5. BatchInv'
  <2>0. /\ pc \in [Jobs -> Pcs] /\ pc'["market"] = pc["market"] /\ "decisions" \in Jobs
        /\ pending'["decisions"] = pending["decisions"]
    BY <1>2, <1>3, Distinct DEF WorkerInv
  <2> USE DEF BatchInv, OneBatch, OwnModel, Preparing, Waiting, Evaluating, DecisionLocked
  <2>1. CASE DecisionsTake
    BY <2>0, <2>1, BoundsAssumption DEF DecisionsTake, Go, None
  <2>2. CASE DecisionsCheck
    <3>1. UNCHANGED batch /\ pc["decisions"] = "lock" /\ model' \in 0..MaxModels
      BY <2>2, BoundsAssumption DEF DecisionsCheck, NewModel
    <3>2. \/ pc'["decisions"] = "finish"
          \/ pc'["decisions"] = "evaluate" /\ view["decisions"] = model /\ model' = model
      BY <2>0, <2>2 DEF DecisionsCheck, Go, Current
    <3> QED  BY <2>0, <3>1, <3>2 DEF batch
  <2>3. CASE DecisionsEvaluated
    BY <2>0, <2>3 DEF DecisionsEvaluated, Go, batch
  <2>4. CASE DecisionsFinish
    BY <2>0, <2>4 DEF DecisionsFinish, Go, Released, None
  <2> QED  BY <2>1, <2>2, <2>3, <2>4 DEF Decisions
<1> QED  BY <1>3, <1>4, <1>5

-----------------------------------------------------------------------------
(* The steps that change the model, the book or the requests.               *)

\* An entry under the decision lock only changes the book.
LEMMA DecisionsFillInv ==
    ASSUME IInv, DecisionsFill
    PROVE  IInv'
<1> USE DEF IInv
<1>1. /\ UNCHANGED <<pc, stopping, model, batch, seen, owner, halt>>
      /\ BookChange /\ pc["decisions"] = "evaluate"
  BY DEF DecisionsFill, DecisionLocked
<1>2. /\ book' \in 0..MaxFills /\ pending' \in [Jobs -> BOOLEAN]
      /\ pending'["decisions"] = pending["decisions"]
  BY <1>1, BookStep, Distinct
<1>3. WorkerInv' /\ BookInv'
  BY <1>1, <1>2 DEF WorkerInv, BookInv
<1> QED  BY <1>1, <1>2, <1>3, BatchFrame, OwnerFrame, StopFrame, Distinct

\* A model changes only while no batch is being judged.
LEMMA LearnInv ==
    ASSUME IInv, Learn
    PROVE  IInv'
<1> USE DEF IInv
<1>1. /\ UNCHANGED <<pc, stopping, batch, books, owner, halt>> /\ halt # "released"
      /\ ~DecisionLocked /\ model' \in 0..MaxModels
      /\ pending' = pending \/ Trigger({"market"})
  BY BoundsAssumption DEF Learn, NewModel, BatchInv
<1>2. pending' \in [Jobs -> BOOLEAN] /\ pending'["decisions"] = pending["decisions"]
  BY <1>1, TriggerStep, Distinct DEF WorkerInv
<1>3. WorkerInv' /\ BookInv' /\ StopInv' /\ OwnerInv'
  BY <1>1, <1>2, OwnerFrame DEF WorkerInv, BookInv, books, StopInv
<1>4. BatchInv'
  BY <1>1, <1>2 DEF BatchInv, batch, OneBatch, OwnModel, Preparing, Waiting, Evaluating,
     DecisionLocked
<1> QED  BY <1>3, <1>4

\* The book-keeping passes touch no batch and no request.
LEMMA BookPassInv ==
    ASSUME IInv, NEW j \in BookJobs, BookPass(j) \/ BookRest(j)
    PROVE  IInv'
<1> USE DEF IInv
<1>1. /\ UNCHANGED <<stopping, model, batch, owner, halt>> /\ pc[j] # "idle"
      /\ Go(j, "rest") \/ Go(j, "idle")
      /\ BookChange \/ UNCHANGED <<book, pending>>
      /\ seen' = seen \/ seen' = [seen EXCEPT ![j] = book]
  BY DEF BookPass, BookRest, books
<1>2. /\ book' \in 0..MaxFills /\ pending' \in [Jobs -> BOOLEAN]
      /\ pending'["decisions"] = pending["decisions"]
  BY <1>1, BookStep, Distinct
<1>3. WorkerInv' /\ \A k \in Jobs : k # j => pc'[k] = pc[k]
  BY <1>1, <1>2, GoStep, Distinct DEF Pcs
<1>4. BookInv'
  BY <1>1, <1>2 DEF BookInv
<1>5. BatchInv' /\ OwnerInv' /\ StopInv'
  BY <1>1, <1>2, <1>3, BatchFrame, OwnerFrame, StopFrame, Distinct
<1> QED  BY <1>3, <1>4, <1>5

\* A request enters the queue only when it is nowhere else.
LEMMA OwnerAppendInv ==
    ASSUME IInv, NEW r \in Requests, OwnerAppend(r)
    PROVE  IInv'
<1> USE DEF IInv
<1>1. /\ UNCHANGED <<pc, stopping, model, batch, books, halt>> /\ halt # "released"
      /\ Trigger({"commands"})
  BY DEF OwnerAppend
<1>2. pending' \in [Jobs -> BOOLEAN] /\ pending'["decisions"] = pending["decisions"]
  BY <1>1, TriggerStep, Distinct
<1>3. WorkerInv' /\ BookInv' /\ StopInv' /\ BatchInv'
  BY <1>1, <1>2, BatchFrame DEF WorkerInv, BookInv, books, StopInv
<1>4. OwnerInv'
  BY DEF OwnerAppend, OwnerInv, ExecutionLocked
<1> QED  BY <1>3, <1>4

\* A drain takes the requests out of the queue and executes each of them once.
LEMMA CommandsInv ==
    ASSUME IInv, Commands
    PROVE  IInv'
<1> USE DEF IInv
<1>1. /\ UNCHANGED <<stopping, model, batch, seen, halt>> /\ pc["commands"] # "idle"
      /\ BookChange \/ UNCHANGED <<book, pending>>
      /\ pc' = pc \/ Go("commands", "drain") \/ Go("commands", "idle")
  BY DEF Commands, CommandsTake, CommandsDone, CommandsClose, books, ExecutionLocked
<1>2. /\ book' \in 0..MaxFills /\ pending' \in [Jobs -> BOOLEAN]
      /\ pending'["decisions"] = pending["decisions"]
  BY <1>1, BookStep, Distinct
<1>3. WorkerInv' /\ \A k \in Jobs : k # "commands" => pc'[k] = pc[k]
  <2>1. CASE pc' = pc
    BY <1>1, <1>2, <2>1 DEF WorkerInv
  <2>2. CASE Go("commands", "drain") \/ Go("commands", "idle")
    BY <1>1, <1>2, <2>2, GoStep, Distinct DEF Pcs
  <2> QED  BY <1>1, <2>1, <2>2
<1>4. BookInv' /\ BatchInv' /\ StopInv'
  BY <1>1, <1>2, <1>3, BatchFrame, StopFrame, Distinct DEF BookInv
<1>5. OwnerInv'
  <2>1. pc \in [Jobs -> Pcs] /\ "commands" \in Jobs
    BY Distinct DEF WorkerInv
  <2>2. CASE CommandsTake
    BY <2>1, <2>2 DEF CommandsTake, OwnerInv, ExecutionLocked, Go, Remaining
  <2>3. CASE CommandsDone
    BY <2>1, <2>3 DEF CommandsDone, OwnerInv, owner, ExecutionLocked, Go
  <2>4. ASSUME NEW r \in Requests, CommandsClose(r) PROVE OwnerInv'
    <3>1. /\ hand' = hand \ {r} /\ r \in hand /\ queue' = queue /\ UNCHANGED pc
          /\ ExecutionLocked /\ closed' = [closed EXCEPT ![r] = @ + 1]
      BY <2>4 DEF CommandsClose
    <3>2. closed' \in [Requests -> 0..1] /\ \A q \in Requests : q # r => closed'[q] = closed[q]
      BY <3>1 DEF OwnerInv
    <3>3. r \notin queue /\ ExecutionLocked'
      BY <3>1 DEF OwnerInv, ExecutionLocked
    <3> QED  BY <3>1, <3>2, <3>3 DEF OwnerInv
  <2> QED  BY <2>2, <2>3, <2>4 DEF Commands
<1> QED  BY <1>3, <1>4, <1>5

\* The stop leaves what the workers do alone and ends when they all have.
LEMMA HaltInv ==
    ASSUME IInv, StopAll \/ StopWorker \/ Release \/ UNCHANGED vars
    PROVE  IInv'
<1> USE DEF IInv
<1>1. /\ UNCHANGED <<pending, pc, model, batch, books, owner>>
      /\ stopping' \subseteq Jobs
  BY DEF StopAll, StopWorker, Release, vars, workers, WorkerInv
<1>2. WorkerInv' /\ BatchInv' /\ BookInv' /\ OwnerInv'
  BY <1>1, BatchFrame, OwnerFrame DEF WorkerInv, BookInv, books
<1>3. StopInv'
  BY DEF StopInv, StopAll, StopWorker, Release, vars, workers, Drained
<1> QED  BY <1>2, <1>3

-----------------------------------------------------------------------------
(* The theorems.                                                            *)

\* The invariant is inductive.
LEMMA Invariance == Spec => []IInv
<1>1. IInv /\ [Next]_vars => IInv'
  <2> SUFFICES ASSUME IInv, [Next]_vars PROVE IInv'
    OBVIOUS
  <2>1. ASSUME NEW j \in Jobs, Tick(j) \/ Start(j) PROVE IInv'
    BY <2>1, TickInv, StartInv
  <2>2. ASSUME NEW j \in BookJobs, BookPass(j) \/ BookRest(j) PROVE IInv'
    BY <2>2, BookPassInv
  <2>3. ASSUME NEW r \in Requests, OwnerAppend(r) PROVE IInv'
    BY <2>3, OwnerAppendInv
  <2>4. CASE Market \/ MarketFail
    BY <2>4, MarketInv
  <2>5. CASE Decisions \/ DecisionsFill \/ Learn
    BY <2>5, DecisionsInv, DecisionsFillInv, LearnInv
  <2>6. CASE Commands
    BY <2>6, CommandsInv
  <2>7. CASE StopAll \/ StopWorker \/ Release \/ Done \/ UNCHANGED vars
    BY <2>7, HaltInv DEF Done
  <2> QED  BY <2>1, <2>2, <2>3, <2>4, <2>5, <2>6, <2>7 DEF Next
<1> QED  BY <1>1, InitInv, PTL DEF Spec

\* The workers, their batch, the book and the requests keep to their values, so no
\* request is executed twice.
THEOREM TypeCorrect == Spec => []TypeOK
<1>1. IInv => TypeOK
  BY DEF IInv, WorkerInv, BatchInv, BookInv, OwnerInv, StopInv, TypeOK, Pcs
<1> QED  BY <1>1, Invariance, PTL

\* A scan has one batch at a time and its reservation is neither leaked nor lost,
\* whatever wakes, fails or stops the two workers that pass the batch on.
THEOREM OneBatchCorrect == Spec => []OneBatch
<1>1. IInv => OneBatch
  BY DEF IInv, BatchInv
<1> QED  BY <1>1, Invariance, PTL

\* A batch is judged, to the end of its entries, by the model it was prepared from.
THEOREM OwnModelCorrect == Spec => []OwnModel
<1>1. IInv => OwnModel
  BY DEF IInv, BatchInv
<1> QED  BY <1>1, Invariance, PTL

\* A close request is queued, taken or executed, never two of them, and none is left
\* taken by a kernel that has released its lock.
THEOREM RequestsKeptCorrect == Spec => []RequestsKept
<1>1. IInv => RequestsKept
  BY Distinct DEF IInv, OwnerInv, StopInv, RequestsKept, ExecutionLocked
<1> QED  BY <1>1, Invariance, PTL
=============================================================================
