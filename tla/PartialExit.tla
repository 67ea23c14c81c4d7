----------------------------- MODULE PartialExit -----------------------------
(***************************************************************************)
(* The first take-profit of an open trade (engine/partial_intent and         *)
(* Executor.close_partial): one reduce-only order under a durable intent,    *)
(* while the protective stop, a full close and reconciliation reduce the     *)
(* same trade by other ways.                                                 *)
(*                                                                           *)
(* The intent is the boundary between callers: whoever inserts it sends the  *)
(* order, everyone else, the callers of a later life included, can only read *)
(* the venue and consume.  Each worker below is one such caller.  A full     *)
(* close and reconciliation run under the execution lock, so when no other   *)
(* caller of their process is inside.                                        *)
(*                                                                           *)
(* One trade, long; amounts are whole lots.                                  *)
(***************************************************************************)
EXTENDS Integers, Sequences, FiniteSets, SequencesExt

CONSTANTS
    Workers,      \* the callers of close_partial
    Lots,         \* the size of the trade
    Part,         \* a difference of one in so many lots is tolerated: 100 in the code
    MaxOrders,    \* bound: partial orders the venue accepts
    MaxStops,     \* bound: times the protective stop fires
    MaxFaults     \* bound: crashes, lost answers and unreadable venues

ASSUME WorkersAssumption == Workers # {}
ASSUME LotsAssumption == Lots \in Nat /\ Lots > 1
ASSUME PartAssumption == Part \in Nat \ {0}
ASSUME BoundsAssumption == MaxOrders \in Nat /\ MaxStops \in Nat /\ MaxFaults \in Nat

VARIABLES
    intent,    \* the row of partial_exit_intents
    trade,     \* the row of trades
    orders,    \* venue: the partial orders it accepted
    position,  \* venue: the size held
    w,         \* each caller's step and locals
    booked,    \* history: the lots whose P&L the journal has realised
    loose,     \* history: the lots that a close let go, within its tolerance
    halted,    \* the control state is HALTED
    stopped,   \* the stop's firings so far
    faults     \* faults so far

durable == <<intent, trade, booked, loose>>
venue   == <<orders, position>>
bounds  == <<halted, stopped, faults>>
vars    == <<durable, venue, w, bounds>>

NoIntent == [st |-> "none", before |-> 0, req |-> 0]
NewOrder == [st |-> "working", filled |-> 0, req |-> intent.req]
Idle     == [pc |-> "idle", oid |-> 0, terminal |-> FALSE, filled |-> 0]

Least(a, b) == IF a < b THEN a ELSE b
Terminal(o) == o.st = "ended"
Pending     == intent.st \in {"SUBMISSION_ATTEMPTED", "ACKNOWLEDGED"}
OpenAmount  == IF trade.st = "open" THEN trade.amount ELSE 0
\* The lots make so small a part of the size that the code looks over them.
Tolerated(lots, size) == lots * Part <= size
Gap(a, b)   == IF a < b THEN b - a ELSE a - b
\* No caller of this process is inside: the execution lock is free.
LockFree    == \A v \in Workers : w[v].pc = "idle"

Init ==
    /\ intent = NoIntent
    /\ trade = [st |-> "open", amount |-> Lots, tp1 |-> FALSE]
    /\ orders = <<>>
    /\ position = Lots
    /\ w = [v \in Workers |-> Idle]
    /\ booked = 0 /\ loose = 0
    /\ halted = FALSE
    /\ stopped = 0
    /\ faults = 0

To(v, l)   == w' = [w EXCEPT ![v] = l]
Fault      == faults < MaxFaults /\ faults' = faults + 1 /\ UNCHANGED <<halted, stopped>>

\* align_trade_amount: the amount and the realised P&L of lots, one transaction.
Align(amount, lots, tp1) ==
    /\ trade' = [trade EXCEPT !.amount = amount, !.tp1 = @ \/ tp1]
    /\ booked' = booked + lots
    /\ UNCHANGED loose

\* close_trade: the trade ends and lots are realised; what is left of it is let go.
CloseTrade(lots) ==
    /\ trade' = [trade EXCEPT !.st = "closed"]
    /\ booked' = booked + lots
    /\ loose' = loose + (trade.amount - lots)

-----------------------------------------------------------------------------
(* close_partial.                                                           *)

\* The row is inserted after every check of the trade, and only the caller that
\* inserts it sends the order.
Reserve(v) ==
    /\ w[v].pc = "idle" /\ intent = NoIntent
    /\ trade.st = "open" /\ ~trade.tp1
    /\ \E req \in 1..(trade.amount - 1) :
         intent' = [st |-> "SUBMISSION_ATTEMPTED", before |-> trade.amount, req |-> req]
    /\ To(v, [Idle EXCEPT !.pc = "send"])
    /\ UNCHANGED <<trade, booked, loose, venue, bounds>>

\* A row that is there is never sent again, whoever finds it: the exit engine's
\* next pass or recovery.
Resume(v) ==
    /\ w[v].pc = "idle" /\ Pending
    /\ To(v, [Idle EXCEPT !.pc = "resolve"])
    /\ UNCHANGED <<durable, venue, bounds>>

\* The venue takes the order or refuses it; either answer may be lost.
SendPartial(v) ==
    /\ w[v].pc = "send"
    /\ \/ /\ Len(orders) < MaxOrders
          /\ orders' = Append(orders, NewOrder)
          /\ \/ To(v, [w[v] EXCEPT !.pc = "ack", !.oid = Len(orders')]) /\ UNCHANGED bounds
             \/ To(v, [w[v] EXCEPT !.pc = "unanswered"]) /\ Fault
       \/ /\ UNCHANGED orders
          /\ \/ To(v, [w[v] EXCEPT !.pc = "refused"]) /\ UNCHANGED bounds
             \/ To(v, [w[v] EXCEPT !.pc = "unanswered"]) /\ Fault
    /\ UNCHANGED <<durable, position>>

\* Mutant: any error of the call is taken for a refusal.
Refused_AnyError(answer) == intent.st = "SUBMISSION_ATTEMPTED"
\* The venue's definitive refusal, with no answer recorded meanwhile.
Refused(answer) == answer = "refused" /\ intent.st = "SUBMISSION_ATTEMPTED"

\* The call failed: a refused intent is deleted, any other is left pending.
SendFailed(v) ==
    /\ w[v].pc \in {"refused", "unanswered"}
    /\ intent' = IF Refused(w[v].pc) THEN NoIntent ELSE intent
    /\ To(v, Idle)
    /\ UNCHANGED <<trade, booked, loose, venue, bounds>>

\* The order's id is recorded, unless the intent is consumed already; the answer
\* shows the order as it was taken or as it is by now.
Acknowledge(v) ==
    /\ w[v].pc = "ack"
    /\ intent' = IF Pending THEN [intent EXCEPT !.st = "ACKNOWLEDGED"] ELSE intent
    /\ \E seen \in {NewOrder, orders[w[v].oid]} :
         To(v, [w[v] EXCEPT !.pc = "fills", !.terminal = Terminal(seen), !.filled = seen.filled])
    /\ UNCHANGED <<trade, booked, loose, venue, bounds>>

\* The order under the intent's id is over and has filled something, and what is
\* held is what it leaves.
Resolved ==
    /\ orders # <<>>
    /\ Terminal(Last(orders))
    /\ Last(orders).filled \in 1..intent.req
    /\ position = intent.before - Last(orders).filled

Resolve(v) ==
    /\ w[v].pc = "resolve"
    /\ \/ /\ Resolved
          /\ To(v, [w[v] EXCEPT !.pc = "fills", !.oid = Len(orders), !.terminal = TRUE,
                                !.filled = Last(orders).filled])
          /\ UNCHANGED bounds
       \/ ~Resolved /\ To(v, Idle) /\ UNCHANGED bounds
       \/ Resolved /\ To(v, Idle) /\ Fault
    /\ UNCHANGED <<durable, venue>>

\* Mutant: what is not known to be filled yet will be.
Executed_AsRequested(filled) == IF filled > 0 THEN intent.req ELSE 0
\* What was executed, as far as the fills show.
Executed(filled) == filled

\* The order's fills, a history that lags showing some of them; without any, the
\* answer's quantity.  An order that may still fill is left for the next pass.
ReadFills(v) ==
    /\ w[v].pc = "fills"
    /\ \E shown \in 0..orders[w[v].oid].filled :
         LET filled == Executed(IF shown > 0 THEN shown ELSE w[v].filled) IN
         /\ To(v, IF filled > 0 /\ (filled >= intent.req \/ w[v].terminal)
                  THEN [w[v] EXCEPT !.pc = "consume", !.filled = filled]
                  ELSE Idle)
         /\ IF shown \in {0, orders[w[v].oid].filled} THEN UNCHANGED bounds ELSE Fault
    /\ UNCHANGED <<durable, venue>>

\* Mutant: P&L is realised although reconciliation has realised it.
Unbooked_Always(left) == TRUE
\* Reconciliation has not realised this reduction yet.
Unbooked(left) == trade.amount # left

\* The reduction enters the journal once, in one transaction with the intent; a
\* closed trade or any other amount is a conflict.
Consume(v) ==
    /\ w[v].pc = "consume"
    /\ LET left == intent.before - w[v].filled IN
       IF Pending /\ trade.st = "open" /\ trade.amount \in {intent.before, left}
       THEN /\ Align(left, IF Unbooked(left) THEN w[v].filled ELSE 0, TRUE)
            /\ intent' = [intent EXCEPT !.st = "CONSUMED"]
       ELSE UNCHANGED durable
    /\ To(v, Idle)
    /\ UNCHANGED <<venue, bounds>>

-----------------------------------------------------------------------------
(* The other ways the trade is reduced.                                     *)

\* A full reduce-only close at the journalled size; its answer may be lost.
SendClose(v) ==
    /\ LockFree /\ trade.st = "open"
    /\ \E k \in 0..Least(position, trade.amount) :
         /\ position' = position - k
         /\ \E shown \in 0..k :
              \/ To(v, [Idle EXCEPT !.pc = "close", !.filled = shown]) /\ UNCHANGED bounds
              \/ To(v, Idle) /\ Fault
    /\ UNCHANGED <<durable, orders>>

\* Mutant: the close ends the trade whatever it filled.
Short_Never(left) == FALSE
\* What the close left of the journalled size is too much to be let go.
Short(left) == ~Tolerated(left, trade.amount)

\* An unconfirmed fill changes nothing, a short one leaves the trade open; one that
\* leaves no more than is tolerated closes it with that still held.
BookClose(v) ==
    /\ w[v].pc = "close"
    /\ LET left == trade.amount - w[v].filled IN
       IF w[v].filled = 0 THEN UNCHANGED <<trade, booked, loose>>
       ELSE IF Short(left) THEN Align(left, w[v].filled, FALSE)
       ELSE CloseTrade(w[v].filled)
    /\ To(v, Idle)
    /\ UNCHANGED <<intent, venue, bounds>>

\* Reconciliation and the size-aware exit check: the journal follows the venue
\* beyond the tolerance, a trade the venue no longer holds is closed.
Reconcile ==
    /\ LockFree /\ trade.st = "open" /\ ~Tolerated(Gap(trade.amount, position), position)
    /\ IF position = 0 THEN CloseTrade(trade.amount)
       ELSE Align(position, IF position < trade.amount THEN trade.amount - position ELSE 0, FALSE)
    /\ UNCHANGED <<intent, venue, w, bounds>>

-----------------------------------------------------------------------------
(* The venue and the process.                                               *)

venueOnly == <<durable, w>>

\* A reduce-only market order fills what is held, or expires short.
FillOrder(i) ==
    /\ orders[i].st = "working" /\ position > 0
    /\ LET n == orders[i].filled + 1 IN
       orders' = [orders EXCEPT ![i].filled = n,
                                ![i].st = IF n = orders[i].req THEN "ended" ELSE "working"]
    /\ position' = position - 1
    /\ UNCHANGED <<venueOnly, bounds>>

EndOrder(i) ==
    /\ orders[i].st = "working"
    /\ orders' = [orders EXCEPT ![i].st = "ended"]
    /\ UNCHANGED <<position, venueOnly, bounds>>

\* The protective stop closes some of what is held, on its own.
StopFires ==
    /\ stopped < MaxStops /\ stopped' = stopped + 1
    /\ \E left \in 0..(position - 1) : position' = left
    /\ UNCHANGED <<orders, venueOnly, halted, faults>>

\* The process dies, all its callers with it.
Crash ==
    /\ ~LockFree
    /\ Fault
    /\ w' = [v \in Workers |-> Idle]
    /\ UNCHANGED <<durable, venue>>

\* The system is halted, or leaves HALTED.  The passes ask for it before they begin,
\* so a caller may still come or go on, but no pass is owed to anyone.
Control ==
    /\ halted' = ~halted
    /\ UNCHANGED <<durable, venue, w, stopped, faults>>

-----------------------------------------------------------------------------
Step(v) ==
    \/ SendPartial(v) \/ SendFailed(v) \/ Acknowledge(v) \/ Resolve(v)
    \/ ReadFills(v) \/ Consume(v) \/ BookClose(v)

Next ==
    \/ \E v \in Workers : Reserve(v) \/ Resume(v) \/ Step(v) \/ SendClose(v)
    \/ Reconcile
    \/ \E i \in 1..Len(orders) : FillOrder(i) \/ EndOrder(i)
    \/ StopFires
    \/ Crash \/ Control

Spec == Init /\ [][Next]_vars

\* The kernel's cadence: a caller that is inside goes on, and each pass that is not in
\* HALTED resumes a pending intent, whatever else it did before.
FairSpec == Spec /\ \A v \in Workers : WF_vars(Step(v)) /\ SF_vars(~halted /\ Resume(v))

-----------------------------------------------------------------------------
TypeOK ==
    /\ intent \in [st : {"none", "SUBMISSION_ATTEMPTED", "ACKNOWLEDGED", "CONSUMED"},
                   before : 0..Lots, req : 0..Lots]
    /\ trade \in [st : {"open", "closed"}, amount : 1..Lots, tp1 : BOOLEAN]
    /\ orders \in Seq([st : {"working", "ended"}, filled : 0..Lots, req : 1..Lots])
    /\ position \in 0..Lots
    /\ w \in [Workers -> [pc : {"idle", "send", "refused", "unanswered", "ack", "resolve",
                                "fills", "consume", "close"},
                          oid : 0..MaxOrders, terminal : BOOLEAN, filled : 0..Lots]]
    /\ booked \in 0..Lots /\ loose \in 0..Lots
    /\ halted \in BOOLEAN
    /\ stopped \in 0..MaxStops /\ faults \in 0..MaxFaults

\* Every lot that left the trade was realised once, whichever of the partial exit,
\* the full close and reconciliation saw it first (consume's aligned branch against
\* align_trade_amount and close_trade), or is one that a close let go.
BookedOnce == booked + OpenAmount + loose = Lots

\* The journal shows what the venue holds: what an exit books is never more than it
\* sold, so no exposure is left without a trade that manages it but what one close let
\* go, the tolerated part of the size (executor.py:673).
NoUnmanagedExposure ==
    /\ position <= OpenAmount + loose
    /\ Tolerated(loose, Lots)

\* One take-profit: the order is placed at most once in all the trade's lives, it is
\* recorded as done only if it was placed, and not placed once recorded.
Exit == INSTANCE OnceOnly WITH
    Requests <- {"tp1"},
    taken    <- [r \in {"tp1"} |-> Len(orders)],
    answer   <- [r \in {"tp1"} |-> IF intent.st = "CONSUMED" THEN "done" ELSE "none"]
ExitOnce == Exit!OnceSpec

\* An intent that the venue's order and the journal's size explain does not stay
\* pending: it is consumed unless the position moves again, the trade ends or the
\* system is halted, where nothing resumes it.
Resolvable ==
    /\ Pending /\ Resolved
    /\ trade.st = "open" /\ trade.amount \in {intent.before, position}
PartialSettles == Resolvable ~> ~Resolvable \/ halted
=============================================================================
