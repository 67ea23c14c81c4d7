----------------------------- MODULE GroupUnwind -----------------------------
(***************************************************************************)
(* The close of a coordinated position, a primary leg and the hedge that     *)
(* protects it (engine/coordinated_unwind), and the reductions of one leg    *)
(* under it (engine/coordinated_close), with entry recovery, the protective  *)
(* stops and the size-aware exit checks changing the same legs.              *)
(*                                                                           *)
(* A reduction is a row that goes RESERVED, ATTEMPTED before the call,       *)
(* ACKNOWLEDGED, TERMINAL when its order is over, and BOOKED, or REFUSED; an  *)
(* ambiguous one is resolved by reading its order, never by another.  All    *)
(* the callers hold the execution lock of their process, so at most one is   *)
(* inside; the venue moves and the process dies between any two steps.       *)
(*                                                                           *)
(* One group, each leg on an instrument of its own; amounts are whole lots.  *)
(***************************************************************************)
EXTENDS Integers, Sequences, FiniteSets, SequencesExt

CONSTANTS
    Lots,             \* the size of the primary leg
    HedgeLots,        \* the most that the hedge fills
    Part,             \* a difference of one in so many lots is tolerated: 100 in the code
    Deltas,           \* the sizes of the live book's partial reductions
    MaxReductions,    \* bound: reductions of a leg
    MaxStops,         \* bound: times a protective stop fires
    MaxFaults         \* bound: crashes, lost answers and unreadable orders

ASSUME LotsAssumption == Lots \in Nat \ {0}
ASSUME HedgeAssumption == HedgeLots \in 0..Lots
ASSUME PartAssumption == Part \in Nat \ {0}
ASSUME DeltasAssumption == Deltas \subseteq 1..Lots
ASSUME BoundsAssumption == {MaxReductions, MaxStops, MaxFaults} \subseteq Nat

Legs == {"primary", "hedge"}

VARIABLES
    trade,       \* the row of trades of each leg
    opened, booked,    \* history: the lots of a leg that were opened and realised
    reds,        \* the rows of coordinated_reductions of each leg
    plan,        \* the state of the group's row of coordinated_group_unwinds
    entry,       \* the entry of the hedge, from its request to its recovery
    system,      \* what keeps the groups' pass from its work, if anything
    position,    \* venue: the size held on each leg
    orders,      \* venue: the order of each reduction
    w,           \* the step of the caller that holds the execution lock
    stopped, faults    \* firings and faults so far

durable == <<trade, opened, booked, reds, plan>>
venue   == <<position, orders>>
bounds  == <<stopped, faults>>
vars    == <<durable, entry, system, venue, w, bounds>>

Final    == {"BOOKED", "REFUSED"}
NoOrder  == [sent |-> 0, st |-> "none", filled |-> 0]
Placed(times) == [sent |-> times, st |-> "working", filled |-> 0]
Idle     == [pc |-> "idle", leg |-> "primary"]
LockFree == w.pc = "idle"

\* The last reduction of a leg, and whether it is pending.
Row(l)     == Last(reds[l])
Order(l)   == Last(orders[l])
Pending(l) == reds[l] # <<>> /\ Row(l).st \notin Final
LastRefused(l) == reds[l] # <<>> /\ Row(l).st = "REFUSED"
\* The lots make so small a part of the size that the code looks over them.
Tolerated(lots, size) == lots * Part <= size
Gap(a, b)  == IF a < b THEN b - a ELSE a - b
Recovering == entry \in {"sent", "ended"}

Init ==
    /\ trade = [l \in Legs |-> IF l = "primary" THEN [st |-> "open", amount |-> Lots]
                                                ELSE [st |-> "none", amount |-> 0]]
    /\ opened = [l \in Legs |-> trade[l].amount]
    /\ booked = [l \in Legs |-> 0]
    /\ reds = [l \in Legs |-> <<>>]
    /\ plan = "none"
    /\ entry = "none"
    /\ system = "free"
    /\ position = [l \in Legs |-> IF l = "primary" THEN Lots ELSE 0]
    /\ orders = [l \in Legs |-> <<>>]
    /\ w = Idle
    /\ stopped = 0 /\ faults = 0

To(pc, l) == w' = [pc |-> pc, leg |-> l]
Release   == w' = Idle
Fault     == faults < MaxFaults /\ faults' = faults + 1 /\ UNCHANGED stopped

\* align_trade_amount and close_trade, each one transaction.
Align(l, amount, lots) ==
    /\ trade' = [trade EXCEPT ![l].amount = amount]
    /\ booked' = [booked EXCEPT ![l] = @ + lots]
CloseTrade(l, lots) ==
    /\ trade' = [trade EXCEPT ![l].st = "closed"]
    /\ booked' = [booked EXCEPT ![l] = @ + lots]

Save(l, row) == reds' = [reds EXCEPT ![l] = Append(Front(@), row)]
-----------------------------------------------------------------------------
(* A reduction, from its row to its booking (_close_owned).                 *)

\* A row of the whole leg or of a part of it; quantities never grow.
Insert(l, qty) ==
    /\ Len(reds[l]) < MaxReductions
    /\ reds' = [reds EXCEPT ![l] = Append(@, [st |-> "RESERVED", qty |-> qty, receipt |-> FALSE])]
    /\ orders' = [orders EXCEPT ![l] = Append(@, NoOrder)]
    /\ To("attempt", l)

\* Mutant: a row is taken up again without looking at what is left of the trade.
Within_Always(l) == TRUE
\* What is asked for is not more than the trade still has.
Within(l) == Row(l).qty <= trade[l].amount

\* Mutant: a row that was attempted is attempted again.
Unsent_Attempted(l) == Row(l).st \in {"RESERVED", "ATTEMPTED"}
\* The call was never begun.
Unsent(l) == Row(l).st = "RESERVED"

\* A pending row is taken up again by whoever comes next: its booking is looked for
\* first; a trade that something else closed is left alone.
Resume(l) ==
    /\ Pending(l)
    /\ IF Row(l).receipt
       THEN Save(l, [Row(l) EXCEPT !.st = "BOOKED"]) /\ UNCHANGED w
       ELSE /\ trade[l].st = "open" /\ Within(l)
            /\ To(IF Unsent(l) THEN "attempt" ELSE "resolve", l)
            /\ UNCHANGED reds
    /\ UNCHANGED orders

\* The row is ATTEMPTED before the call.
Attempt(l) ==
    /\ w = [pc |-> "attempt", leg |-> l]
    /\ Save(l, [Row(l) EXCEPT !.st = "ATTEMPTED"])
    /\ To("call", l)
    /\ UNCHANGED <<trade, opened, booked, plan, entry, system, venue, bounds>>

\* Mutant: any failure of the call is taken for a refusal.
AfterLost_Refused(row) == [row EXCEPT !.st = "REFUSED"]
\* An ambiguous answer leaves the row ATTEMPTED.
AfterLost(row) == row

\* The venue takes the reduce-only order or refuses it; either answer may be lost.
Call(l) ==
    /\ w = [pc |-> "call", leg |-> l]
    /\ \/ /\ position[l] > 0
          /\ orders' = [orders EXCEPT ![l] = Append(Front(@), Placed(Order(l).sent + 1))]
          /\ \/ /\ Save(l, [Row(l) EXCEPT !.st = "ACKNOWLEDGED"])
                /\ To("resolve", l) /\ UNCHANGED bounds
             \/ Save(l, AfterLost(Row(l))) /\ Release /\ Fault
       \/ /\ UNCHANGED orders
          /\ \/ /\ Save(l, [Row(l) EXCEPT !.st = "REFUSED"])
                /\ Release /\ UNCHANGED bounds
             \/ Save(l, AfterLost(Row(l))) /\ Release /\ Fault
    /\ UNCHANGED <<trade, opened, booked, plan, entry, system, position>>

\* The original order is read; until it is over, or while it cannot be read or
\* found, the row stays.
Resolve(l) ==
    /\ w = [pc |-> "resolve", leg |-> l]
    /\ \/ /\ Order(l).st = "ended"
          /\ Save(l, [Row(l) EXCEPT !.st = "TERMINAL"])
          /\ To("book", l) /\ UNCHANGED bounds
       \/ Order(l).st # "ended" /\ Release /\ UNCHANGED <<reds, bounds>>
       \/ Order(l).st = "ended" /\ Release /\ Fault /\ UNCHANGED reds
    /\ UNCHANGED <<trade, opened, booked, plan, entry, system, venue>>

\* Executor.close with the exact reduction: nothing without a fill, a part leaves
\* the trade open, the whole closes it once the venue is seen flat.  The booking and
\* its receipt are one transaction.
Book(l) ==
    /\ w = [pc |-> "book", leg |-> l]
    /\ LET left == trade[l].amount - Order(l).filled IN
       IF Order(l).filled > 0 /\ (left > 0 \/ position[l] = 0)
       THEN /\ IF left > 0 THEN Align(l, left, Order(l).filled) ELSE CloseTrade(l, Order(l).filled)
            /\ Save(l, [Row(l) EXCEPT !.receipt = TRUE])
            /\ To("mark", l)
       ELSE Release /\ UNCHANGED <<trade, booked, reds>>
    /\ UNCHANGED <<opened, plan, entry, system, venue, bounds>>

Mark(l) ==
    /\ w = [pc |-> "mark", leg |-> l]
    /\ Save(l, [Row(l) EXCEPT !.st = "BOOKED"])
    /\ Release
    /\ UNCHANGED <<trade, opened, booked, plan, entry, system, venue, bounds>>

-----------------------------------------------------------------------------
(* The callers.                                                             *)

\* The live book's reduction of one leg, and its retries, while no plan is there;
\* the hedge's own stop asks for the whole of it.
LiveReduce(l) ==
    /\ LockFree /\ plan = "none" /\ trade[l].st = "open" /\ ~Pending(l)
    /\ \E qty \in Deltas \cup {trade[l].amount} : qty <= trade[l].amount /\ Insert(l, qty)
    /\ UNCHANGED <<trade, opened, booked, plan, entry, system, position, bounds>>

LiveRetry(l) ==
    /\ LockFree /\ plan = "none"
    /\ Resume(l)
    /\ UNCHANGED <<trade, opened, booked, plan, entry, system, position, bounds>>

\* A whole close, asked for by an exit, the owner, or a leg that is gone: the plan
\* is durable before anything else.
RequestClose ==
    /\ LockFree /\ plan = "none"
    /\ plan' = "UNWINDING"
    /\ UNCHANGED <<trade, opened, booked, reds, entry, system, venue, w, bounds>>

\* Mutant: the hedge goes before the leg it protects.
Turn_HedgeFirst(l) == trade[l].st = "open" /\ (l = "primary" => trade["hedge"].st # "open")
\* The leg whose turn it is: the primary, and the hedge once the primary is closed
\* and the venue shows it flat.
Turn(l) ==
    /\ trade[l].st = "open"
    /\ l = "hedge" => trade["primary"].st = "closed" /\ position["primary"] = 0

\* Mutant: a group close does not wait for the entries that are under way.
Settled_Always == TRUE
\* No entry is being recovered, of this group or any other, and no partial exit.
Settled == ~Recovering /\ system # "recovering"

\* One leg and one reduction a pass; a refused one is left to the owner.
UnwindLeg(l) ==
    /\ LockFree /\ plan = "UNWINDING" /\ Settled
    /\ Turn(l)
    /\ IF Pending(l) THEN Resume(l)
       ELSE /\ ~LastRefused(l)
            /\ Insert(l, trade[l].amount)
    /\ UNCHANGED <<trade, opened, booked, plan, entry, system, position, bounds>>

\* Mutant: the group also waits for the reductions of a leg that something else closed.
Gone_Reduced(l) == trade[l].st # "open" /\ position[l] = 0 /\ ~Pending(l)
\* The leg is closed and the venue shows it flat.
Gone(l) == trade[l].st # "open" /\ position[l] = 0

UnwindDone ==
    /\ LockFree /\ plan = "UNWINDING" /\ Settled
    /\ \A l \in Legs : Gone(l)
    /\ plan' = "CLOSED"
    /\ UNCHANGED <<trade, opened, booked, reds, entry, system, venue, w, bounds>>

\* The hedge is entered while the group has no plan, and recovered as EntryExecution
\* has it: a fill becomes a trade, nothing else is left.
EnterHedge ==
    /\ LockFree /\ plan = "none" /\ entry = "none" /\ trade["primary"].st = "open"
    /\ entry' = "sent"
    /\ UNCHANGED <<durable, system, venue, w, bounds>>

HedgeFills ==
    /\ entry = "sent" /\ entry' = "ended"
    /\ \E n \in 0..HedgeLots : position' = [position EXCEPT !["hedge"] = n]
    /\ UNCHANGED <<durable, system, orders, w, bounds>>

RecoverHedge ==
    /\ LockFree /\ entry = "ended" /\ entry' = "done"
    /\ trade' = IF position["hedge"] = 0 THEN trade
                ELSE [trade EXCEPT !["hedge"] = [st |-> "open", amount |-> position["hedge"]]]
    /\ opened' = [opened EXCEPT !["hedge"] = position["hedge"]]
    /\ UNCHANGED <<booked, reds, plan, system, venue, w, bounds>>

\* The exit checks and reconciliation: the journal follows the venue beyond the
\* tolerance.
Reconcile(l) ==
    /\ LockFree /\ trade[l].st = "open"
    /\ ~Tolerated(Gap(trade[l].amount, position[l]), position[l])
    /\ IF position[l] = 0 THEN CloseTrade(l, trade[l].amount)
       ELSE Align(l, position[l],
                  IF position[l] < trade[l].amount THEN trade[l].amount - position[l] ELSE 0)
    /\ UNCHANGED <<opened, reds, plan, entry, system, venue, w, bounds>>

-----------------------------------------------------------------------------
(* The venue and the process.                                               *)

\* A reduce-only market order fills what is held, or expires short.
FillOrder(l) ==
    /\ orders[l] # <<>> /\ Order(l).st = "working" /\ position[l] > 0
    /\ orders' = [orders EXCEPT ![l] = Append(Front(@),
                    [Order(l) EXCEPT !.filled = @ + 1,
                                     !.st = IF Order(l).filled + 1 = Row(l).qty THEN "ended" ELSE @])]
    /\ position' = [position EXCEPT ![l] = @ - 1]
    /\ UNCHANGED <<durable, entry, system, w, bounds>>

EndOrder(l) ==
    /\ orders[l] # <<>> /\ Order(l).st = "working"
    /\ orders' = [orders EXCEPT ![l] = Append(Front(@), [Order(l) EXCEPT !.st = "ended"])]
    /\ UNCHANGED <<durable, entry, system, position, w, bounds>>

StopFires(l) ==
    /\ stopped < MaxStops /\ stopped' = stopped + 1
    /\ trade[l].st = "open"
    /\ \E left \in 0..(position[l] - 1) : position' = [position EXCEPT ![l] = left]
    /\ UNCHANGED <<durable, entry, system, orders, w, faults>>

Crash ==
    /\ ~LockFree
    /\ Release
    /\ Fault
    /\ UNCHANGED <<durable, entry, system, venue>>

\* The system is halted, or leaves HALTED.  The workers ask for it before a pass, so
\* one may still be inside, and the owner's closes go on; but no pass is owed to anyone.
Control ==
    /\ \/ system = "free" /\ system' = "HALTED"
       \/ system = "HALTED" /\ system' = "free"
    /\ UNCHANGED <<durable, entry, venue, w, bounds>>

\* Another entry, or a partial exit of another trade, becomes pending or is resolved.
\* That keeps every close of a group back, so that HALTED adds nothing to it.
OthersPending ==
    /\ \/ system # "recovering" /\ system' = "recovering"
       \/ system = "recovering" /\ system' \in {"free", "HALTED"}
    /\ UNCHANGED <<durable, entry, venue, w, bounds>>

-----------------------------------------------------------------------------
Step(l) == Attempt(l) \/ Call(l) \/ Resolve(l) \/ Book(l) \/ Mark(l)

Next ==
    \/ \E l \in Legs :
         \/ Step(l) \/ LiveReduce(l) \/ LiveRetry(l) \/ UnwindLeg(l) \/ Reconcile(l)
         \/ FillOrder(l) \/ EndOrder(l) \/ StopFires(l)
    \/ RequestClose \/ UnwindDone
    \/ EnterHedge \/ HedgeFills \/ RecoverHedge
    \/ Crash \/ Control \/ OthersPending

Spec == Init /\ [][Next]_vars

\* The position worker's cadence: a caller that is inside goes on; every pass checks
\* the sizes and, outside HALTED, resumes the group's close.
Fairness ==
    /\ WF_vars(\E l \in Legs : Step(l))
    /\ \A l \in Legs : SF_vars(Reconcile(l))
    /\ SF_vars(system # "HALTED" /\ UnwindDone)

FairSpec == Spec /\ Fairness

-----------------------------------------------------------------------------
TypeOK ==
    /\ trade \in [Legs -> [st : {"none", "open", "closed"}, amount : 0..Lots]]
    /\ opened \in [Legs -> 0..Lots] /\ booked \in [Legs -> Nat]
    /\ \A l \in Legs :
         /\ reds[l] \in Seq([st : Final \cup {"RESERVED", "ATTEMPTED", "ACKNOWLEDGED", "TERMINAL"},
                             qty : 1..Lots, receipt : BOOLEAN])
         /\ orders[l] \in Seq([sent : 0..1, st : {"none", "working", "ended"}, filled : 0..Lots])
         /\ Len(orders[l]) = Len(reds[l]) /\ Len(reds[l]) <= MaxReductions
    /\ plan \in {"none", "UNWINDING", "CLOSED"}
    /\ entry \in {"none", "sent", "ended", "done"}
    /\ system \in {"free", "HALTED", "recovering"}
    /\ position \in [Legs -> 0..Lots]
    /\ w \in [pc : {"idle", "attempt", "call", "resolve", "book", "mark"}, leg : Legs]
    /\ stopped \in 0..MaxStops /\ faults \in 0..MaxFaults

\* The lots a leg was opened with are what is open and what was realised: a
\* reduction that was resolved late is not booked a second time after the exit checks
\* have seen its fill.  It holds for reductions of whole legs.
OpenAmount(l) == IF trade[l].st = "open" THEN trade[l].amount ELSE 0
LegBookedOnce == \A l \in Legs : booked[l] + OpenAmount(l) = opened[l]

\* A group that is closed holds nothing and never will again, although its hedge may
\* have been under way when it was asked to close.
GroupClosedFlat == plan = "CLOSED" => ~Recovering /\ \A l \in Legs : position[l] = 0

\* While a group is closed no order takes the hedge away before the venue is flat in
\* the leg that it protects.
PrimaryFlatFirst ==
    [][plan = "UNWINDING" /\ w.pc = "call" /\ w.leg = "hedge" => position["primary"] = 0]_vars

\* A reduction's order is placed once in all its lives; BOOKED is said of one that was
\* placed, REFUSED of one that never will be.
Reductions == Legs \X (1..MaxReductions)
SentOf(l, i)  == IF i <= Len(orders[l]) THEN orders[l][i].sent ELSE 0
Said(st)      == CASE st = "BOOKED" -> "done" [] st = "REFUSED" -> "refused" [] OTHER -> "none"
SaidOf(l, i)  == IF i <= Len(reds[l]) THEN Said(reds[l][i].st) ELSE "none"
taken    == [r \in Reductions |-> SentOf(r[1], r[2])]
answered == [r \in Reductions |-> SaidOf(r[1], r[2])]
Reduction == INSTANCE OnceOnly WITH Requests <- Reductions, taken <- taken, answer <- answered
ReducedOnce == Reduction!OnceSpec

\* A group whose legs the venue no longer holds is closed, whatever became of the
\* reductions that were asked for, unless the system is halted or another trade's entry
\* or partial exit is pending before that.
FlatGroupCloses ==
    (plan = "UNWINDING" /\ ~Recovering /\ \A l \in Legs : position[l] = 0)
        ~> (plan = "CLOSED" \/ system # "free")
=============================================================================
