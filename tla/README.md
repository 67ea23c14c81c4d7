# Luffy: verification project

TLA+ models of [Luffy](../src/README.md), an autonomous futures trading system
(Python, about 111,000 lines in `src/trader`), TLC configurations that check them
on small instances, and TLAPS proofs of what matters most for every instance.
Paths below are relative to `src/trader/` unless they say otherwise.

Luffy's hard part is not its trading rules. It is that orders, journal writes,
the owner's commands, recovery passes and crashes interleave, and that after any
of them the system must still know what it owns, keep it protected, and not trade
when it was told to stop. The models are of that part.

## 1. Inventory

### Components with state of their own

**Control state machine and fence** (`engine/state.py`, `engine/control_fence.py`).
One state out of ACTIVE, FROZEN, HALTED and RECOVERY in the journal's key-value
table, plus an append-only list of intent events. Every transition is made under
an exclusive file lock. It is a compare-and-set on the state, and where the caller
asks for it on the id of the latest intent event (the *watermark*). State and event
are two transactions, except when ACTIVE is published on a caller's connection.
Correct when: transitions follow the table; an owner's hold is not overridden by
anything older; HALTED is left only by the owner.

**Supervisor** (`engine/supervisor.py`). A pass lock, the saved `supervisor_status`
(which containment is its own, whether the owner is needed, whether the last proof
was complete), and the locals of a pass. It contains ACTIVE when something is
unresolved, enters RECOVERY for its own containment, examines ledgers, positions
and protection, and activates on a complete proof. It also runs the owner's resume
and unhalt, MacroGuard's release and rollback preparation. Correct when: it
activates only on a durable, current proof; it never acts on a containment that is
not its own; a fault that needs the owner is not forgotten; every pass ends.

**Owner service** (`owner/service.py`). The fast controls freeze, halt and panic,
and the admission of resume and unhalt with the watermark at that moment.
**Kernel** (`kernel.py`): boot order, panic drain, Risk step, MacroGuard step and
release, and the trading cycle that calls everything else.
**Risk** (`engine/risk.py`): a durable verdict that gates activation and entries.
They interact with the Supervisor through the fence, the journal and the pass lock.

**Entry authority and executor** (`engine/entry_authority.py`, `engine/executor.py`).
Risk's permission for one logical action; a submission of two transactions (the
reservation, then the venue call with its outcome); fill confirmation; the native
stop with its fallback; the journal row; exits. Correct when: one logical action
is sent at most once, under the permission it was issued, and what is held is
journalled at its real size and protected, up to what the code tolerates: a close that
leaves at most 1% of the size ends the trade with that rest still held.

**Entry recovery** (`engine/recovery.py`). One outstanding intent that blocks all
entries, resolved by a bounded pass per cycle: cancel and re-read the order, settle
the emergency close, read the position, then adopt, protect, close or keep waiting.
Correct when: exposure is never forgotten, never closed twice, never adopted at a
size it does not have, and a pending intent is resolved once the venue answers.

**Partial-exit intents** (`engine/partial_intent.py`). One row per trade for its
first take-profit: SUBMISSION_ATTEMPTED, ACKNOWLEDGED, CONSUMED. Whoever inserts the
row sends the order; the exit engine's later passes and recovery only read the venue
and consume; a definite refusal deletes it. The protective stop, a full close and the
exit check reduce the same trade meanwhile. Correct when: the order is placed once,
each lot's P&L is realised once, and the journal never shows less than is held, but for
the tolerated rest of a close.

**Cycle scheduler** (`scheduling/runtime.py`, `kernel_runtime.py`, `coordination.py`).
A worker per job: a queued trigger, a callback that runs, a stop; and between the
workers the reservation of a scan, its prepared view, the model generation, the
owner's close requests, the execution lock and the decision lock. Correct when: no
event is lost because its worker runs, there is one scan at a time and it is judged
by the model it was prepared from, requests are executed once, and a stop ends.

**Coordinated multi-leg execution** (`engine/coordinated_*.py`). Rows for each
reduction of a leg (`coordinated_close.py`) and for the close of a group
(`coordinated_unwind.py`), over the intake of openings and increases. Correct when:
a reduction is placed and booked once, the hedge goes after the leg it protects, and
a closed group is flat for good although its hedge was still on its way.

**Owner request ledger** (`owner/service.py`). One row per request id: RESERVED,
PENDING with the boot that claimed it, DONE with its result; and in memory what this
life could not record. Correct when: a request has its effect at most once however
often it is delivered, and no definite answer contradicts what happened.

**Reconciliation and protection** (`engine/reconcile.py`, `engine/protective.py`),
the **approvals** (`owner/approvals.py`) and the **process instance lock**
(`runtime_identity.py`) keep state too. Signals, LLM calls, strategies, research,
learning, portfolio, dashboards and feeds are computation or I/O beside these
protocols. `PROJECT.json` lists every component with its status.

The components meet in the journal and under three locks. The execution lock orders
everything that trades (entries, exits, recovery, reconciliation, group closes); the
control fence orders control transitions and the submission of an entry; the decision
lock orders scans and model changes. Owner controls take the fence but not the
execution lock.

### What is hard here

* Interleavings under two locks: the fence orders transitions, the pass lock orders
  passes, and nearly every decision is read under one and used after it was released.
* Crashes between two transactions of one operation: state and event, freeze and
  owned id, reservation and submission, submission and outcome, audit and release.
* A venue that answers late, not at all, or after it already acted.
* Differences the code looks over: a close that sold 99% of a trade ends it, cancels its
  stop and lets the rest go; a stop that fires and fills short leaves a position without
  one. What is owned and guarded must be said in spite of them.
* Two accounts of one reduction: the order that made it, and the exit check that sees
  the position shrink. Whoever comes first realises the P&L, the other must notice.
* The same request, twice: retried by an adapter, resumed by the next pass, found by
  the next life. The effect must still happen once.
* Waiting: a recovery that queues for the pass lock, a panic that arrives during a
  flatten, an entry barrier that must not stay up for ever.

`PROJECT.json` names each of these at its line, with the properties that watch it.

## 2. Modules

| Module | What it is |
| --- | --- |
| `ControlPlane` | control state machine, fence, Supervisor, owner controls, Risk step, MacroGuard, panic drain, boot |
| `MCControlPlane` | its instances for TLC |
| `ControlPlaneProofs` | its types and `OwnerHoldStands`, proved |
| `ControlPlaneMoveProofs` | `TransitionsLegal`, `HaltedLeftByOwner`, `MacroReleasesOwnFreeze`, `ActivationProved`, `NeedsOwnerDurable`, proved |
| `EntryExecution` | permission, submission, fill, stop, journal, exit, recovery, venue |
| `MCEntryExecution` | its instances for TLC |
| `EntryExecutionProofs` | its types, `SentOnce`, `RefusedNeverTaken`, `EntryUnderItsPermission`, proved |
| `EntryExposureProofs` | `ExposureOwned`, `NotStripped`, `OneCloseAtATime`, `BookedAsFilled` and its refinement of `EntryBarrier`, proved |
| `EntryBarrier` | the abstract promise of an entry: one action at a time, sent once, and owned until a trade and its stop guard it |
| `OnceOnly` | the abstract promise of a durable request: one effect at most, an answer that is final and true |
| `PartialExit`, `MCPartialExit` | the take-profit intent and everything else that reduces its trade; implements `OnceOnly` |
| `PartialExitProofs` | its types, `BookedOnce`, `NoUnmanagedExposure` and its refinement of `OnceOnly`, proved |
| `CycleRuntime`, `MCCycleRuntime` | the workers, their triggers and hand-offs, the scan, the close requests, the stop |
| `CycleRuntimeProofs` | its types, `OneBatch`, `OwnModel`, `RequestsKept`, proved |
| `GroupUnwind`, `MCGroupUnwind` | reductions of legs and the close of a group; implements `OnceOnly` |
| `GroupUnwindProofs` | its types, `GroupClosedFlat`, `PrimaryFlatFirst`, `LegBookedOnce` for whole legs and its refinement of `OnceOnly`, proved |
| `OwnerRequests`, `MCOwnerRequests` | the ledger of the owner's control requests; implements `OnceOnly` |
| `OwnerRequestsProofs` | its types and its refinement of `OnceOnly`, proved |

### OnceOnly

Every durable request of the system makes the same promise, in four places of the
code that share nothing: a submission, a partial exit, a reduction of a leg, an owner's
command. `OnceOnly` states it once, as a specification over what a request did
(`taken`) and what was finally said of it (`answer`). `PartialExit`, `GroupUnwind` and
`OwnerRequests` instantiate it with a mapping of their own state: `taken` is how many
orders the venue accepted under the request (or how often a command had its effect),
`answer` what the ledger's row, or the caller, was told. The detailed specifications
implement `OnceSpec` (`ExitOnce`, `ReducedOnce`, `RequestOnce`). `EntryExecution` makes
the same promise by `SentOnce` and `RefusedNeverTaken`.

### EntryBarrier

What `execution_recovery` is for, without the venue, the worker, recovery or the crash: an
action raises the barrier once in its life and only while no trade is open and nothing is
held but what was let go; behind it, it is sent at most once, and exposure grows only by
what was sent; the barrier comes down only over exposure that is guarded, and from then on
exposure only shrinks and stays guarded, unless the close of its trade lets a tolerated
part of it go (`LetGo`).

*Guarded* means: one open trade is at least as large as what is held, and the stop this
trade names was placed for all of it and has not been cancelled; lots that a close let go
need neither. A stop counts also after it has *fired*: the venue may fill it short, and
then a rest is held with no live stop (`reconcile.py:520-527`). The code does not promise
to prevent that, and no property here says that a position always has a live stop. What is
checked and proved is that nothing the system itself does strips a position of its trade or
its stop: no exit, alignment, adoption, sweep, recovery pass or crash.

`EntryExecution` implements it (`BarrierKept`) with `barrier` the decision of the pending
intent, `raised` the decisions that have a request, `held` the position, `owned` the size
of the open trade and `bare` the position unless it is guarded. To `ExposureOwned` it adds
that trade and stop belong to each other and that a guard is not lost once the barrier is
down. `NotStripped` follows from it: it is stated and proved for the reader, and TLC checks
`BarrierKept`.

### ControlPlane

| Variable | In the code |
| --- | --- |
| `control`, `opHold`, `status`, `panic`, `macroKv` | keys of `state_kv`: `control_state`, `macro_guard_operator_hold`, `supervisor_status`, `panic_requested`, `macro_guard_froze` with `macro_guard_freeze_event_id` |
| `log` | the `state_change` and `state_hold` rows of `control_events`; an event's id is its position, `watermark` the last one |
| `fence` | the file lock, and the transition its holder is in the middle of writing |
| `sup` | the holder of the Supervisor's pass lock: its program counter, operation and locals |
| `req` | the admitted resume or unhalt that has not started |
| `macro`, `drain` | program counters of MacroGuard's step and the panic drain |
| `market`, `risk`, `pending` | what a boot, a fresh Risk check and the intent ledgers say |

An action is one fence hold or one journal transaction. `SetFenced` starts a
transition, `PersistState` and `PersistEvent` are its two transactions, so every
other thread and a crash may come between them; `PublishActive` is the single
transaction that publishes ACTIVE. A pass is `ReadStatus`, `Contain`,
`ContainSave`, `Enter`, `Examine`, `Verify`, `Prove`, `Activate`, `Finish`, as in
`_pass_once`; a trigger ends in `Detect`. What the venue shows a pass is one of
three verdicts (safe, minor, serious), because the pass decides on nothing finer.
`Intake`, `Granted`, `ReadRelease` and `ReleaseCas` are the owner's recovery,
`MacroFreeze` to `MacroIntake` MacroGuard, `Rollback*` the rollback preparation,
`Drain*` the panic drain. `Crash` drops locks and locals and keeps the journal; a
futures boot starts with a recovery pass.

Reading notes:

* The drain's own re-freeze is recorded with actor `operator`, so a second drain
  takes it for a newer owner decision and does not freeze again.
* A crash between a panic's hold and its `panic_requested` key loses the flatten.
  The system is contained and keeps its positions.
* A crash between a containment and the save of its id leaves a FROZEN that nobody
  owns; the owner has to resume. This fails closed.
* The steps marked `@coordinated` are serialised only in the split runtime. The
  model takes the weaker assumption, that they are not.
* `prepare_rollback` has no caller inside `trader/`; it is modelled as the owner
  tool that may call it.
* The `supervisor.py:480-489` re-read under the pass lock cannot differ from the
  first one; it has no action of its own.

### EntryExecution

| Variable | In the code |
| --- | --- |
| `request` | `execution_requests.state` of each logical action |
| `intent` | the `execution_recovery` key: decision, phase, `force_close`, `stop_attempted`, the close's client id |
| `trade` | the `trades` row: status, amount, `sl_order_id`; that of `None` is the one reconciliation adopts |
| `control`, `mark`, `partial` | control state, latest intent event id, an unresolved partial-exit intent |
| `entry`, `closes`, `stops`, `position` | what the venue has |
| `loose` | history: the lots still held that closes let go within their tolerance |
| `w` | the worker that holds the execution lock, with its locals |

`Authorize` is `authorize`; `Reserve`, `SendEntry` and `CommitEntry` are the two
transactions of `submit`, the second cut open at the venue call; `ConfirmFill`,
`PlaceNativeStop`, `AddTrade`, `Finish` and `Release` the rest of `open_position`.
`PersistClose` and `SubmitClose` are `submit_close`. The `Tick*` actions are one
recovery pass in the order `_tick` takes them, each read a step of its own.
`ExitSend` and `ExitBook` are `close`: the fill is compared with the journalled size, a
short one shrinks the trade and leaves its stop, and one that leaves no more than the
tolerance (`Tolerated`, `executor.py:673`) cancels the stop and closes the row with the
rest still held. `ExitCheck` is `_detect_exchange_exits`, which does not ask whether an
intent is pending. `Reconcile` is `reconcile_futures` for this instrument, which leaves the
symbol of a pending intent alone: it adopts a position that has no row (a let-go rest
included, without a stop), aligns a row beyond the tolerance, closes a ghost, sweeps the
stops no row keeps, and arms a stop for a position that has none. `TriggerStop` sells any
part of the stop's size, and the stop is gone. The venue, the account owner, the
other processes and the crash are actions of their own.

There is one worker because `scheduling/kernel_runtime.py` (35, 161-181) and
`scheduling/coordination.py` run all of these under one execution lock. Control
transitions are excluded from reservation to commit because `submit` holds the
control fence there; a partial exit is excluded only while the second transaction is
open. Recovery does not run in HALTED (`kernel_runtime.py:180`).

Abstractions: one instrument, long only, whole lots. Order ids and client ids are
one identity. Every failed identity, account or capability check of `validate` and
of a tick ends as a refusal or a kept intent, which the model allows at any time. An
exit's fill happens when it is sent. Amounts of money and prices are left out: whether a
stop is already through its level is a choice. The book that Risk and `validate` read is
the venue's, but may be two minutes old, so a let-go rest does not always keep an entry out
and `Valid` asks for no open trade only; this allows more than the code does. The records of
re-arm attempts in `reconcile.py` only forbid a second attempt, which the model allows.

Reading notes:

* A reservation whose order never reached the venue (a crash or a failed second
  `validate` between the transactions, or a lost emergency close) stays pending
  until the owner acts. No code path clears it; `tests/test_exe01_duplicate_entry.py`
  and `tests/test_entry_recovery.py` show that this is meant.
* With 304 coins held, the close that sells 303 and the stop that fills 303 end
  differently. The close ends the trade and cancels the stop, and the coin that is left has
  no row until reconciliation adopts it. The stop leaves the row open: the exit check
  aligns it to the one coin, and reconciliation arms a new stop if the price allows.
* An adopted trade has no stop level, so `reconcile_futures` counts it as unarmable and
  arms nothing; it is owned, and not protected.
* `TickFlat` keeps the barrier up while a stop is still on the venue for a flat
  symbol; the next entry could be closed by it.

### PartialExit

| Variable | In the code |
| --- | --- |
| `intent` | the row of `partial_exit_intents`: state, the amount before, the amount asked for |
| `trade` | the `trades` row: status, amount, `tp1_done` |
| `orders`, `position` | what the venue accepted and holds |
| `w` | each caller of `close_partial` and `close`, with its locals |
| `booked` | history: the lots whose P&L was realised |
| `loose` | history: the lots that the close which ended the trade let go |
| `halted` | the control state is HALTED |

`Reserve`, `SendPartial`, `SendFailed`, `Acknowledge`, `ReadFills` and `Consume` are
`close_partial` with the module's `reserve`, `reject`, `acknowledge` and `consume`;
`Resume` and `Resolve` are `recover` and `resolve`. `SendClose` and `BookClose` are
`Executor.close`, with the tolerance that decides whether the trade stays open (`Short`),
`Reconcile` is the alignment beyond the tolerance that `_detect_exchange_exits` and
`reconcile_futures` make. Two callers may be inside at once, as
`tests/test_final_audit_partial_intent.py` has it; a full close and reconciliation
come only when none is, because they hold the execution lock. `Control` makes the system
HALTED or ends it. It forbids no action: the passes ask for the state before they begin, so
one may be under way when it changes. It only takes away the promise of a next pass.

Reading notes:

* What a close lets go is not this trade's any more; that reconciliation adopts it is in
  `EntryExecution`.
* In HALTED nothing resumes a pending intent: `recover_entries` is skipped
  (`kernel_runtime.py:180`, `kernel.py:1418`) and exits are not managed
  (`state.py:102-111`).
* An intent whose order ended without a fill, or whose trade was closed or moved to
  another size meanwhile, stays pending and blocks entries until the owner acts. No
  path clears it; the tests show that this is meant. `PartialSettles` therefore
  speaks of an intent that the order and the journal explain.
* A fill history that lags behind is one of `MaxFaults`, as a lost answer and a crash
  are: the code takes the fills it finds for all there are.

### CycleRuntime

| Variable | In the code |
| --- | --- |
| `pending`, `pc`, `stopping` | a worker's `_pending`, the step of its callback, its `_stopping` |
| `inFlight`, `scan`, `view` | `scan_in_flight`, the prepared view in its slot, the view a callback holds |
| `model` | the generation of the decision model |
| `book`, `seen` | the changes of the book, and the one each book-keeping pass last read |
| `queue`, `hand`, `closed` | `close_requests` in `state_kv`, what a drain took from it, what it executed |
| `halt` | `runtime.stop`, the joins, the release of the instance lock |

`Trigger`, `Tick` and `Start` are `Worker`; every worker keeps its own program counter.
`Market*` and `Decisions*` are the two halves of a scan, `BookPass` and `BookRest` the
positions and account workers, `Commands*` the drain of close requests, `StopAll`,
`StopWorker` and `Release` the end of `Kernel.run`. The decision lock and the execution
lock are held exactly at the program counters `DecisionLocked` and `ExecutionLocked`.

Reading notes:

* A batch that is discarded asks for another scan before it gives its reservation back
  (`kernel_runtime.py:320`, 354). The market worker may find the reservation still
  there and skip, so the new scan waits for the 60 s timer.
* The drain clears the queue before it executes what it took: a process that is killed
  between the two loses the requests. The docstring of `_drain_close_requests` chooses
  this over closing twice; `RequestsServed` is about a kernel that keeps running.
* The `supervisor.trigger` that a cycle may call runs outside the execution lock, as
  `ControlPlane` has it.

### GroupUnwind

| Variable | In the code |
| --- | --- |
| `trade` | the `trades` row of each leg |
| `reds` | the `coordinated_reductions` of each leg: state, quantity, the booking's receipt |
| `plan` | the row of `coordinated_group_unwinds` |
| `entry` | the hedge's entry, from its request to its recovery |
| `position`, `orders` | what the venue holds and the order of each reduction |
| `w` | the caller that holds the execution lock |
| `system` | what keeps the groups' pass from its work: nothing (`free`), HALTED, or an entry or another trade's partial exit that is pending (`recovering`) |
| `opened`, `booked` | history: lots of a leg opened and realised |

`Insert`, `Resume`, `Attempt`, `Call`, `Resolve`, `Book` and `Mark` are `_close_owned`
with its transport, in the order it takes them. Its callers are the live book
(`LiveReduce`, `LiveRetry`) and the close of the group (`RequestClose`, `UnwindLeg`,
`UnwindDone`). `EnterHedge`, `HedgeFills` and `RecoverHedge` are an entry of the hedge,
shortened to what `EntryExecution` shows of it. The close of a group goes on only when
`recovery_pending()` is false, which asks for any entry and any trade's partial exit
(`Settled`). An exact reduction tolerates nothing (`executor.py:673`); the exit
check and reconciliation tolerate 1% (`Reconcile`). `Control` is as in `PartialExit`: the
groups' pass is skipped in HALTED (`kernel_runtime.py:211-212`), and `OthersPending` lets the
rest of the system come and go; while it is pending no close of a group goes on, so that
HALTED at the same time would change nothing and is not a value of its own.

Reading notes:

* A refused reduction stops the close of its group until the owner acts, an ATTEMPTED
  one whose order the venue never had and a TERMINAL one with no fill stay pending for
  ever; a row larger than what the exit check left of the trade waits until the leg is
  flat. All of these fail closed. `FlatGroupCloses` shows that none of them keeps a
  group open that the venue no longer holds.
* A partial exit of some other trade that nothing explains any more stays pending until the
  owner acts (see `PartialExit`), and as long as it does no group is closed.
  `FlatGroupCloses` excepts this, as it excepts HALTED.
* `versioned_close.py` sends and books through the same transport and also compares the
  amount with the one before the reduction; it has no actions of its own here. Position
  mode BOTH only: in hedge mode each leg has its own side.

### OwnerRequests

| Variable | In the code |
| --- | --- |
| `row` | the rows of `owner_requests`: state, result, boot |
| `unresolved`, `abandoned` | the service's `_unresolved` and `_abandoned` |
| `d` | each delivery: its step, the row it read, the age it saw |
| `stale` | the requests older than `max_age_s` |
| `taken`, `told` | history: effects, and the definite answers given |

`Deliver` to `Again` are `reserve` with `_existing`, `_settle_orphan` and
`_reconcile_reservation_failure`; `Refuse`, `Claim`, `Execute` and `Complete` are
`_control` with the lock of the request's class; `Prune` is `_maybe_prune`, `Crash` a
restart. What a command does is `ControlPlane`'s; here it has an effect, none, or
raises after one or none.

Reading notes:

* `owner/contract.py:41` calls REFUSED "definitively not executed", but an executed
  request that is delivered again after its row was pruned is refused as stale.
  `service.py:47-52` documents that staleness promises nothing, so `Answered` counts
  it as a refusal only for a request that was not executed.
* `Prune` relies on a delivery not staying between its age check and its INSERT for
  longer than the retention, twice the age (`Outlived`).

## 3. Runs

| Run | Instance | Distinct states | Shows |
| --- | --- | --- | --- |
| `owner_controls` | futures and spot, macro events, no Risk change, 3 requests, 1 crash | 2,912,022 | `OwnerHoldStands`, `HaltedLeftByOwner`, `MacroReleasesOwnFreeze` |
| `risk_and_rollback` | every request and Risk verdict, 3 requests | 585,403 | `TransitionsLegal`, `ActivationProved`, `NeedsOwnerDurable` |
| `progress` | fair, 2 requests | 13,382 | `PassTerminates`, `RecoveryAnswered`, `PanicServed` |
| `entry_safety` | 2 decisions of 3 lots, 2 closes, 2 stops, 1 outside event (no HALTED), 1 crash | 3,913,604 | `SentOnce`, `RefusedNeverTaken`, `ExposureOwned`, `OneCloseAtATime`, `BarrierKept` |
| `entry_recovery` | fair, 1 decision of 2 lots, 2 closes, 2 stops, 2 outside events, 1 crash | 70,106 | `EntryUnderItsPermission`, `BookedAsFilled`, `RecoverySettles` |
| `partial_exit` | fair, 2 callers, 4 lots, 2 orders, 1 stop, 2 faults | 160,280 | `BookedOnce`, `NoUnmanagedExposure`, `ExitOnce`, `PartialSettles` |
| `cycle_runtime` | fair, 4 workers, 1 close request, 1 model change, 2 book changes | 201,360 | `OneBatch`, `OwnModel`, `RequestsKept`, `ReservationEnds`, `ChangesSeen`, `RequestsServed`, `StopEnds` |
| `group_unwind` | fair, legs of 3 and 1 lots, 2 reductions each, 1 stop, 2 faults | 565,599 | `LegBookedOnce`, `GroupClosedFlat`, `PrimaryFlatFirst`, `ReducedOnce`, `FlatGroupCloses` |
| `owner_requests` | 2 requests, 2 deliveries, 2 faults, 1 restart | 1,346,078 | `RequestOnce` |
| `owner_freeze_appropriated` | 2 requests, 1 crash | violation | `OwnerFrozenNeverAppropriated` is refuted |
| `serious_fault_released` | macro and trigger | violation | `SeriousFaultNeedsOwner` is refuted |
| `delta_booked_twice` | a partial reduction of one lot, 1 fault | violation | `LegBookedOnce` is refuted for partial reductions |

**Bounds.** `MaxRequests` bounds what comes from outside the control plane: three is
one hold, one recovery and one more thing that interferes with it, the shortest
form of every race in the hazard list. One crash is enough to cut any one
operation; a second crash starts from a journal state that a first one, or no crash,
also leaves. `Lots` is 2 so that fills and closes can be partial, and 3 in `entry_safety`.
Two decisions are one that leaves something behind (a stop, a request, a let-go lot) and
one that finds it. `MaxCloses` 2 is a close and the close of its remainder, `MaxStops` 2 a
stop and its duplicate, the next entry's, or the one that reconciliation arms.
`MaxOutside` counts control changes, partial exits and manual reductions; freeze and resume
are two of them. The venue cuts a close short only while another close is within the bound.
`Part` is the tolerance: one lot in `Part` is looked over, 100 in the code. It is 3 for
trades of three lots (`entry_safety`) and of four (`PartialExit`), where a close that leaves
one lot may let it go and one that leaves more may not; 2 for the leg of three in
`GroupUnwind`, where a difference of one is looked over until the leg has one lot left; and
2 in `entry_recovery`, which asks nothing of an exit. `States` are the control states that
are asked for: `entry_safety` leaves out HALTED, which adds to FROZEN only that recovery
does not run (it may pause anyway); `entry_recovery` has all three. Decisions are
symmetric in `entry_safety` (they are only compared for equality) and in no run
that checks liveness.

`PartialExit` has four lots so that an order for three can fill in three parts beside a
stop that leaves any part, two callers because the intent lets one in, two orders so
that a refused one can be followed by another, and two faults because one leaves an
intent unresolved and the second disturbs its recovery. In `CycleRuntime` two book
changes are one that is running and one that arrives meanwhile, one model change one
that falls between preparation and judgement; a second request or book-keeping worker
has no step that depends on the first. `GroupUnwind` has a leg of three lots so that a
part of it has a part filled; one stop and two faults as above; two reductions are one
of the live book and one of the close. In `OwnerRequests` two deliveries race for one
row and the third, after a crash, is either of them again.

**Deadlock** is checked in `CycleRuntime`, where only a released kernel may stop. It is
not checked elsewhere: a system that nobody asks anything of, or that waits for
its owner, may stop.

**Fairness.** Threads keep running (WF on passes, fence holders, the drain and the
worker): they are loops with timed waits, the fence is released in a `finally`, and
an owner recovery waits for the pass lock at most `request_wait_s`. Strong fairness
stands for one assumption only, that what is retried for ever and may succeed does
in the end: a flatten that is complete (`DrainFlattened(TRUE)`), an order, position
or stop listing that is answered (`TickOrder(TRUE)` and the others). A close that
the venue works on ends (WF). Nothing is assumed of the owner, of Risk, or of the venue
filling an entry. `RecoverySettles` names the cases in which the barrier rightly stays up
for the owner: HALTED, an order the venue never had, a position the entry does not
explain, one that no stop covers after a stop was tried, and a stop left behind.

`PartialExit`: callers go on (WF), and a pass resumes a pending intent again and again
(SF on `~halted /\ Resume`: recurring passes that find the system out of HALTED, and none
is owed while it is halted). `PartialSettles` therefore ends in a settled intent or in
HALTED. `CycleRuntime`: the threads run (WF), and a pass that keeps asking for the
execution lock gets it (SF, `threading.RLock` with a bounded holder); the timers are
given no fairness, so that no property of an event is owed to a timer that would come
anyway, and nothing makes the kernel stop. `GroupUnwind`: the caller that is inside goes
on (WF); every 30 s pass reconciles sizes (`kernel.py:2297`) and, outside HALTED, asks
whether the group is done (SF, as other callers take turns). `FlatGroupCloses` ends in a
closed group, in HALTED or in another trade's pending recovery, of which nothing is
assumed. `OwnerRequests` states no liveness: a delivery may be left without a definite
answer, by design.

Every property has a mutant: an operator beside the definition it replaces, the way
a plausible bug would write it, which makes TLC refute the property.

## 4. Findings

1. **An owner's FROZEN may be taken to RECOVERY by the boot pass.** `state.py:202`
   writes the state and 203 the event. After a crash between them the owner's freeze
   has no event; if the Supervisor's containment was the latest intent before,
   `_owned` still matches, and the boot pass enters RECOVERY and may activate, while
   `supervisor.py:299` promises to "never appropriate an owner hold". Once the event
   is recorded the hold does stand: that is `OwnerHoldStands`, which is proved.
2. **A MacroGuard release clears a needed owner.** `request_macro_release` saves
   `needs_owner=False` whatever was saved before (`supervisor.py:766-775`), so a
   serious fault that a boot pass found during a macro freeze is gone when the event
   is over; `src/SDD.md:1764` says it stays blocked until the owner resumes.
3. **A partial reduction of a leg may be booked twice.** The venue takes the order and
   the answer is lost: the row stays ATTEMPTED. The exit check (`kernel.py:2593-2615`)
   sees the smaller position, aligns the trade and realises the lots that went. The
   retry then resolves the same order, and `Executor.close` realises them again from the
   aligned amount, which leaves the trade smaller than the position. The guard
   that would notice compares the amount with the one before, and
   `coordinated_close.py:296` makes it for the versioned table only. A reduction of a
   whole leg is saved by the quantity check of `Executor.close` (`Within`), which is what
   the run `group_unwind` shows. `coordinated_close.py:290` says that receipts, "not a
   changed amount alone, prove booking".

## 5. Proofs

TLAPS proves the following for every value of the constants, from the modules' named
assumptions only. Each proof has one step per action and a lemma for each thing
several actions do.

* **`ControlPlane`, types** (`TypeCorrect`): with the strengthening that a held fence
  has a named holder.
* **`OwnerHoldStands`** (`OwnerHoldStandsCorrect`). It is not inductive: that no
  compare-and-set passes after a hold depends on the ids carried around elsewhere.
  `HoldInv` states of each of them, the saved containment, MacroGuard's freeze, the
  local ids of the pass, that it is *settled* (recorded, with every older owner hold
  answered by a later recovery) or *claimed* (the event its holder is about to
  write), and that a transition to RECOVERY is only ever being written with every
  hold answered. A new owner event makes every settled id smaller than the watermark,
  so what was bound to it fails; only `Intake` and `ReleaseCas`, bound to the
  admission's watermark, raise `permit` past it.
* **The moves of the control state** (`TransitionsLegalCorrect`,
  `HaltedLeftByOwnerCorrect`, `MacroReleasesOwnFreezeCorrect`,
  `ActivationProvedCorrect`, `NeedsOwnerDurableCorrect`). `StepForm` reduces the steps
  to a few: state and log stay, the fence is taken for a transition, one half of it is
  written, ACTIVE is published in one piece. `MoveInv` says that the transition being
  written is legal from the state it will find, because nobody else writes the state
  while the fence is held. `MacroOwnInv` follows the id of MacroGuard's freeze from the
  event to `macroKv`, to the release that waits for the pass lock and to the event of
  that release, and `PassInv` says at each step of a pass what it has already saved,
  which is what an activation and a cleared need for the owner rest on.
* **`EntryExecution`, types** (`TypeCorrect`): with the strengthening that a worker
  inside an entry has the pending intent it works for.
* **`SentOnce`, `RefusedNeverTaken`, `EntryUnderItsPermission`.** `OnceInv` adds that
  a decision without a request was never sent, and that between the two transactions
  the worker has the control fence, the intent and an attempted request whose order
  the venue has not seen. All steps but three leave a frame (`Frame`) from which the
  invariant follows; the three are `Reserve`, `SendEntry` and `CommitEntry`.
* **`ExposureOwned`, `NotStripped`, `OneCloseAtATime`, `BookedAsFilled`.** None is
  inductive: between a fill and its release the worker decides on reads that the venue
  has since outrun. `EInv` says who owns the exposure at each program counter. While an
  intent is pending no more is held than its own entry filled and closes let go before it
  (`HeldInv`), and a close that works is its own, the only one, and absent while the worker
  decides on another (`CloseInv`); once none is pending, what is held beyond what was let go
  has one open trade at least as large and the stop *it names* was placed for all of it and
  not cancelled (`OwnerInv`: any stop would not do, since a sweep takes those that no trade
  names). `WorkInv` is what the worker relies on in between: its entry's order is over, its
  amount is what was filled, `tickAct` has seen at least what is held, the exit it is booking
  sold no more than its trade had. The lots let go are the last to leave (`Sell`), so any
  sale keeps the rest within trade and stop; `ExitBook` turns what it does not book into
  let-go lots, and reconciliation adopts nothing that a guarded trade still shows.
* **`EntryExecution` implements `EntryBarrier`** (`BarrierKeptCorrect`), from the same
  invariant and `TakenInv`: a pending intent has its request, and the venue has no order
  that was not sent. `Reserve` is a `Raise`, `SendEntry` a `Send`, or a `Lower` when a
  partial exit refuses it, `FillEntry` a `Fill`, `Release` and the refusal in `CommitEntry`
  a `Lower`, `ExitBook` within the tolerance a `LetGo`; every other step leaves the barrier
  alone (`Same`) and is a `Move`, whose guard is `OwnerInv` in the state it reaches.
* **`PartialExit`, types, `BookedOnce`, `NoUnmanagedExposure` and refinement**
  (`TypeCorrect`, `BookedOnceCorrect`, `NoUnmanagedExposureCorrect`, `ExitOnceCorrect`).
  The bound on exposure is not inductive: an order or a close that has sold something
  leaves a difference that a later booking may take away. `CoverInv` bounds what is held
  together with what was sold under the intent and not consumed (`Unconsumed`),
  `WorkerInv` adds what the one close under way sold and has not booked, and both are at
  most the journal's size while the trade is open. Nothing is let go before it ends, and
  then what is held is what its close let go, within the tolerance. `OrderInv` says that there is one order at most and it is the
  intent's, whoever of the callers holds it. Of the steps only `SendPartial` is a `Take`
  and `Consume` an `Answer` of `OnceOnly`; the others are stutters.
* **`OwnerRequests`, types and refinement** (`TypeCorrect`, `RequestOnceCorrect`). An
  effect needs a claim, a claim a reservation, a reservation an id without a row. The
  invariant `IInv` makes that chain hold over time: the delivery that owns a reservation
  is alone and its row is the one it wrote in this life (`Owner`); a reservation left by
  another life was never executed (`Dead`); an id without a row whose effect happened,
  or which was answered, is stale, and no delivery still holds it for fresh
  (`Expired`, `StaleRow`). Every step then maps to `Take`, `Answer` or a stutter of
  `OnceOnly`.

* **`CycleRuntime`, types, `OneBatch`, `OwnModel`, `RequestsKept`** (`TypeCorrect` and
  one theorem each). The reservation of a scan is not held by a thread but handed from
  the market worker to a slot, to the decisions worker. `BatchInv` says where the batch is
  at each pair of program counters, and that decisions is woken only for a batch that is
  still in its slot; the model cannot change from the check to the last entry because
  `Learn` needs the decision lock. `OwnerInv` and `StopInv` say that requests are in hand
  only while they are drained and that a released kernel has nobody inside.
* **`GroupUnwind`, types, `GroupClosedFlat`, `PrimaryFlatFirst`, refinement of `OnceOnly`**
  (`TypeCorrect`, `GroupClosedFlatCorrect`, `PrimaryFlatFirstCorrect`,
  `ReducedOnceCorrect`). `RowInv` ties each row to its order: what is RESERVED was not
  sent, what is ACKNOWLEDGED or later was sent once, REFUSED never. `CallerInv` is what the
  caller found out since it took the lock, which a crash forgets and an exit check may not
  disturb; neither speaks of `system`, whose type is an invariant of its own
  (`SystemType`). `Call` is the only `Take` and a row becoming BOOKED or REFUSED an `Answer` of
  `OnceOnly`; all else are stutters.
* **`LegBookedOnce`** (`LegBookedOnceCorrect`), for `Deltas = {}`: the live book reduces
  legs as a whole. The assumption is needed and is finding 3: with a smaller reduction the
  property is false, as `delta_booked_twice` shows. `LegAccount` adds to it that what is
  held and what the pending reduction sold are together at most the quantity of its row,
  which is at least what is open; so whoever books, the order or the exit check, books
  what the other has not.

Only model-checked: all liveness (`PassTerminates`, `RecoveryAnswered`, `PanicServed`,
`RecoverySettles`, `PartialSettles`, `ReservationEnds`, `ChangesSeen`, `RequestsServed`,
`StopEnds`, `FlatGroupCloses`), as TLAPS has no rules for fairness here. Every invariant
and every other action property of a passing run is proved.

## 6. Not modelled, and why

* Storage that fails or cannot be read: each such path ends in a refusal or in
  containment, which the model reaches otherwise.
* What a reconciliation or protection check computes: the control plane needs its
  verdict; the checks are a component of their own in the plan.
* Sizing, fees, profit, drawdown: arithmetic, tested well by examples, and no
  interleaving in it. Of Risk only the verdict is modelled.
* The owner interface's authorisation, fingerprint conflicts, audit buffer, wire and
  approvals; spot and paper trading; position increases; hedge mode; the flatten itself.
* A live stop for every position, as a promise: no code gives it. A stop that fired short is
  replaced by reconciliation only, if the price and the row allow it, and what an owner or
  the venue does to a stop by hand is not modelled. How many re-arm attempts are recorded
  and retried is left out.
* The opening and increase of a coordinated group, its budget and identity checks: each
  leg's opening is an entry as `EntryExecution` has it, under more conditions.
* Calendars, clock arithmetic and the workers that only fetch data or tend tables.
* Signals, LLM calls, research, learning, dashboards, feeds: no protocol, or I/O.

## 7. Plan

In this order, the most important behaviour first:

1. done: `ControlPlane`, its runs, and the proofs of all its safety properties.
2. done: `EntryExecution`, likewise.
3. done: `OnceOnly`, the abstract promise, and its implementations `PartialExit`,
   `GroupUnwind` and `OwnerRequests`, all proved.
4. done: `CycleRuntime` with the proofs of its safety properties.
5. done: `EntryBarrier`, the abstract promise that `EntryExecution` implements, proved. An
   abstract specification of the control plane would repeat what `OwnerHoldStands` and
   `TransitionsLegal` already say of its variables.
6. `Reconciliation` as a component of its own: several symbols, re-arm records and
   `flatten_all`. Adoption, ghosts, the sweep and re-arming for one symbol are in
   `EntryExecution`.
7. The opening and increase of a coordinated group; approvals; the instance lock; the
   trailing-stop ratchet.

Theorems planned: the safety properties of the modules of steps 6 and 7.
