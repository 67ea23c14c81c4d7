---------------------------- MODULE EntryExecution ----------------------------
(***************************************************************************)
(* One entry into the market, from Risk's permission to a protected and     *)
(* journalled trade, and the recovery that finishes it after any failure    *)
(* (engine/entry_authority, engine/executor, engine/recovery).              *)
(*                                                                         *)
(* The kernel's workers run these operations under one execution lock, so   *)
(* the worker below is whichever of them holds it.  What makes the code     *)
(* hard is everything it does not hold: the venue fills, expires and        *)
(* triggers orders on its own, an answer may be lost after the order was    *)
(* taken, the process may die between any two steps, the owner may contain  *)
(* the system and another process may reserve a partial exit.               *)
(*                                                                         *)
(* One instrument, long only; amounts are whole lots.                       *)
(***************************************************************************)
EXTENDS Integers, Sequences

CONSTANTS
    Decisions,    \* the logical entry actions that may be submitted
    None,         \* no decision
    Lots,         \* the size of an entry
    States,       \* the control states that are asked for
    Part,         \* a difference of one in so many lots is tolerated: 100 in the code
    MaxCloses,    \* bound: emergency closes in one behaviour
    MaxStops,     \* bound: protective stops placed in one behaviour
    MaxOutside,   \* bound: control changes, partial exits and manual reductions
    MaxCrashes    \* bound: process crashes

ASSUME NoneAssumption == None \notin Decisions
ASSUME LotsAssumption == Lots \in Nat \ {0}
ASSUME PartAssumption == Part \in Nat \ {0}
ASSUME StatesAssumption == States \subseteq {"ACTIVE", "FROZEN", "HALTED"}
ASSUME BoundsAssumption ==
    MaxCloses \in Nat /\ MaxStops \in Nat /\ MaxOutside \in Nat /\ MaxCrashes \in Nat

VARIABLES
    request,   \* execution_requests.state of each decision
    intent,    \* kv execution_recovery: the one outstanding intent
    trade,     \* the journal's trade of each decision, and the adopted one
    control,   \* kv control_state
    mark,      \* the latest control intent event id
    partial,   \* a partial-exit intent is unresolved
    entry,     \* venue: the entry order of each decision
    closes,    \* venue: the emergency closes, by client order id
    stops,     \* venue: the protective stops, by order id
    position,  \* venue: the size held
    loose,     \* history: lots held that the close of a trade let go
    w,         \* the worker and its locals
    sent,      \* history: entry submissions of each decision
    outside,   \* changes from outside so far
    crashes    \* crashes so far

journal   == <<request, intent, trade>>
controlled == <<control, mark, partial>>
venue     == <<entry, closes, stops, position, loose>>
bounds    == <<outside, crashes>>
vars == <<journal, controlled, venue, w, sent, bounds>>

NoIntent == [d |-> None, phase |-> "entry", force |-> FALSE, stopTried |-> FALSE,
             close |-> 0]
NoOrder  == [st |-> "none", filled |-> 0]
NoTrade  == [st |-> "none", amount |-> 0, stop |-> 0]
Idle     == [pc |-> "idle", d |-> None, mark |-> 0, amount |-> 0, stop |-> 0,
             out |-> "none"]

\* A trade is of its decision, or of none: then reconciliation adopted it.
Rows == Decisions \cup {None}

Least(a, b) == IF a < b THEN a ELSE b
\* The lots make so small a part of the size that the code looks over them.
Tolerated(lots, size) == lots * Part <= size
Gap(a, b) == IF a < b THEN b - a ELSE a - b
\* Mutant: an order sent without the reduce-only flag.
ReduceOnly_Unset(amount) == amount
\* Every exit and stop is reduce-only: it closes at most what is held.
ReduceOnly(amount) == Least(position, amount)
Terminal(o) == o.st \in {"closed", "canceled"}
OpenTrades  == {d \in Rows : trade[d].st = "open"}
OpenAmount  == IF OpenTrades = {} THEN 0 ELSE trade[CHOOSE d \in OpenTrades : TRUE].amount
LiveStops   == {i \in 1..Len(stops) : stops[i].st = "live"}
Pending     == intent # NoIntent

\* Lots go out of the position, those that a close let go the last of all.
Sell(k) == position' = position - k /\ loose' = Least(loose, position - k)
\* Stops are cancelled, those that the venue still has.
Cancel(ids) == [i \in 1..Len(stops) |-> IF i \in ids \cap LiveStops
                                        THEN [stops[i] EXCEPT !.st = "canceled"] ELSE stops[i]]

Init ==
    /\ request = [d \in Decisions |-> "none"]
    /\ intent = NoIntent
    /\ trade = [d \in Rows |-> NoTrade]
    /\ control = "ACTIVE"
    /\ mark = 0
    /\ partial = FALSE
    /\ entry = [d \in Decisions |-> NoOrder]
    /\ closes = <<>>
    /\ stops = <<>>
    /\ position = 0 /\ loose = 0
    /\ w = Idle
    /\ sent = [d \in Decisions |-> 0]
    /\ outside = 0
    /\ crashes = 0

\* The intent and its request's state, one transaction.
Save(i, state) ==
    /\ intent' = i
    /\ request' = [request EXCEPT ![i.d] = state]

-----------------------------------------------------------------------------
(* Submission, under the control fence.                                     *)

\* Risk issues a permission for the control intent and the book it read.
Authorize(d) ==
    /\ w.pc = "idle"
    /\ control = "ACTIVE"
    /\ OpenTrades = {}
    /\ w' = [Idle EXCEPT !.pc = "reserve", !.d = d, !.mark = mark]
    /\ UNCHANGED <<journal, controlled, venue, sent, bounds>>

\* Mutant: the control intent is not compared, only the state.
Valid_AnyIntent == OpenTrades = {}
\* What every transaction re-reads of the permission: the control intent, the book,
\* which must be that of a venue snapshot, though one that may be two minutes old: a
\* residue that no trade shows does not always keep an entry out.
Valid == mark = w.mark /\ OpenTrades = {}

\* Mutant: a refused request may be reserved again.
Unreserved_RefusedAgain(d) == request[d] \in {"none", "REFUSED"}
Unreserved(d) == request[d] = "none"

\* First transaction: the request and the intent, or a refusal that leaves nothing.
Reserve ==
    /\ w.pc = "reserve"
    /\ \/ /\ control = "ACTIVE"
          /\ Unreserved(w.d) /\ ~Pending /\ ~partial /\ Valid
          /\ Save([NoIntent EXCEPT !.d = w.d], "SUBMISSION_ATTEMPTED")
          /\ w' = [w EXCEPT !.pc = "send"]
       \/ /\ w' = Idle
          /\ UNCHANGED <<request, intent>>
    /\ UNCHANGED <<trade, controlled, venue, sent, bounds>>

\* Second transaction, before its commit: the venue takes the order, or refuses
\* it, or its answer is lost.  A partial exit reserved meanwhile defers the entry;
\* a proof that no longer holds leaves the reservation to recovery.
SendEntry ==
    /\ w.pc = "send"
    /\ \/ /\ ~partial /\ Valid
          /\ sent' = [sent EXCEPT ![w.d] = @ + 1]
          /\ \E out \in {"acked", "ambiguous", "rejected"}, taken \in BOOLEAN :
               /\ out = "acked" => taken
               /\ out = "rejected" => ~taken
               /\ entry' = IF taken THEN [entry EXCEPT ![w.d].st = "working"] ELSE entry
               /\ w' = [w EXCEPT !.pc = "commit", !.out = out]
          /\ UNCHANGED <<request, intent>>
       \/ /\ ~partial
          /\ w' = Idle
          /\ UNCHANGED <<request, intent, entry, sent>>
       \/ /\ partial
          /\ request' = [request EXCEPT ![w.d] = "REFUSED"]
          /\ intent' = NoIntent
          /\ w' = Idle
          /\ UNCHANGED <<entry, sent>>
    /\ UNCHANGED <<trade, controlled, closes, stops, position, loose, bounds>>

\* Mutant: a lost answer is taken for a refusal.
Refused_OnAnyError(out) == out # "acked"
\* Only the venue's definitive refusal releases the intent.
Refused(out) == out = "rejected"

CommitEntry ==
    /\ w.pc = "commit"
    /\ IF Refused(w.out)
       THEN /\ request' = [request EXCEPT ![w.d] = "REFUSED"]
            /\ intent' = NoIntent
       ELSE Save(intent, IF w.out = "acked" THEN "ACKNOWLEDGED" ELSE "UNKNOWN_OUTCOME")
    /\ w' = IF w.out = "acked" THEN [w EXCEPT !.pc = "confirm"] ELSE Idle
    /\ UNCHANGED <<trade, controlled, venue, sent, bounds>>

-----------------------------------------------------------------------------
(* The fill, its stop and its journal row.                                  *)

\* Polling the order: a terminal fill, or giving up with the intent kept.
ConfirmFill ==
    /\ w.pc = "confirm"
    /\ \/ /\ Terminal(entry[w.d]) /\ entry[w.d].filled > 0
          /\ w' = [w EXCEPT !.pc = "stop", !.amount = entry[w.d].filled]
          /\ UNCHANGED <<request, intent>>
       \/ /\ Save(intent, "UNKNOWN_OUTCOME")
          /\ w' = Idle
    /\ UNCHANGED <<trade, controlled, venue, sent, bounds>>

\* n stops of the given size reach the venue.
Place(n, size) == stops' = stops \o [i \in 1..n |-> [d |-> w.d, size |-> size, st |-> "live"]]

\* The native stop, and its fallback when the first is neither acknowledged nor
\* found: either may be taken with its answer lost, and a covering stop found on
\* the venue is adopted, one an earlier entry left included.
PlaceNativeStop ==
    /\ w.pc = "stop"
    /\ \E n \in 0..2 :
         /\ Len(stops) + n <= MaxStops
         /\ Place(n, w.amount)
         /\ \/ w' = [w EXCEPT !.pc = "close"]
            \/ \E i \in 1..Len(stops') :
                 /\ stops'[i].st = "live" /\ stops'[i].size >= w.amount
                 /\ n = 2 => i = Len(stops')
                 /\ w' = [w EXCEPT !.pc = "book", !.stop = i]
    /\ UNCHANGED <<journal, controlled, entry, closes, position, loose, sent, bounds>>

\* add_trade: a row of the same position id already there is an error.
AddTrade ==
    /\ w.pc = "book"
    /\ IF trade[w.d].st = "none"
       THEN /\ trade' = [trade EXCEPT ![w.d] = [st |-> "open", amount |-> w.amount,
                                               stop |-> w.stop]]
            /\ w' = [w EXCEPT !.pc = "finish"]
            /\ UNCHANGED <<request, intent>>
       ELSE /\ Save(intent, "UNKNOWN_OUTCOME")
            /\ w' = Idle
            /\ UNCHANGED trade
    /\ UNCHANGED <<controlled, venue, sent, bounds>>

\* The audit is written before the intent is released, in two transactions.
Finish ==
    /\ w.pc = "finish"
    /\ Save(intent, "UNKNOWN_OUTCOME")
    /\ w' = [w EXCEPT !.pc = "release"]
    /\ UNCHANGED <<trade, controlled, venue, sent, bounds>>

Release ==
    /\ w.pc = "release"
    /\ request' = [request EXCEPT ![intent.d] = "TERMINAL"]
    /\ intent' = NoIntent
    /\ w' = Idle
    /\ UNCHANGED <<trade, controlled, venue, sent, bounds>>

-----------------------------------------------------------------------------
(* The emergency close.                                                     *)

\* Persisted under a client id of its own before the call.
PersistClose ==
    /\ w.pc = "close"
    /\ Len(closes) < MaxCloses
    /\ closes' = Append(closes, [asked |-> w.amount, filled |-> 0, st |-> "none"])
    /\ Save([intent EXCEPT !.phase = "closing", !.close = Len(closes')], "UNKNOWN_OUTCOME")
    /\ w' = [w EXCEPT !.pc = "closeSend"]
    /\ UNCHANGED <<trade, controlled, entry, stops, position, loose, sent, bounds>>

SubmitClose ==
    /\ w.pc = "closeSend"
    /\ \/ /\ \E taken \in BOOLEAN :
               closes' = IF taken THEN [closes EXCEPT ![intent.close].st = "working"]
                         ELSE closes
          /\ UNCHANGED intent
       \/ /\ Len(closes) < MaxCloses
          /\ intent' = [intent EXCEPT !.phase = "entry", !.force = TRUE]
          /\ UNCHANGED closes
    /\ w' = Idle
    /\ UNCHANGED <<request, trade, controlled, entry, stops, position, loose, sent, bounds>>

-----------------------------------------------------------------------------
(* The recovery tick: one order, position and protection pass.              *)

tickOnly == <<trade, controlled, venue, sent, bounds>>

\* The pass ends with the intent kept, for a reason that is saved with it.
KeepPending(state) == Save(intent, state) /\ w' = Idle

\* The entry order: a working one is cancelled and read again; an order that
\* cannot be read or was never taken resolves nothing.
TickOrder(answered) ==
    /\ w.pc = "idle"
    /\ Pending /\ control # "HALTED"
    /\ \/ /\ answered /\ entry[intent.d].st # "none"
          /\ entry' = [entry EXCEPT ![intent.d].st = IF @ = "working" THEN "canceled" ELSE @]
          /\ w' = [Idle EXCEPT !.pc = IF intent.phase = "closing" THEN "tickClose"
                                      ELSE "tickPosition", !.d = intent.d]
          /\ UNCHANGED <<request, intent>>
       \/ /\ ~answered
          /\ \/ entry[intent.d].st = "working" /\ KeepPending("PARTIAL")
             \/ KeepPending("UNKNOWN_OUTCOME")
          /\ UNCHANGED entry
    /\ UNCHANGED <<trade, controlled, closes, stops, position, loose, sent, bounds>>

\* Mutant: the emergency close is read, not waited for.
CloseSettled_Known(o) == o.st # "none"
\* Mutant: a close that expired short is not recognised as over.
CloseSettled_FilledOnly(o) == o.st = "closed"
CloseSettled(o) == Terminal(o)

TickClose(answered) ==
    /\ w.pc = "tickClose"
    /\ \/ /\ answered /\ CloseSettled(closes[intent.close])
          /\ w' = [w EXCEPT !.pc = "tickPosition"]
          /\ UNCHANGED <<request, intent>>
       \/ ~answered /\ KeepPending("UNKNOWN_OUTCOME")
    /\ UNCHANGED tickOnly

TickPosition(answered) ==
    /\ w.pc = "tickPosition"
    /\ \/ /\ answered
          /\ w' = [w EXCEPT !.pc = "tickAct", !.amount = position]
          /\ UNCHANGED <<request, intent>>
       \/ ~answered /\ KeepPending("UNKNOWN_OUTCOME")
    /\ UNCHANGED tickOnly

\* Nothing held: done, unless a stop is still there to close the next entry.
TickFlat(answered) ==
    /\ w.pc = "tickAct" /\ w.amount = 0
    /\ \/ /\ answered /\ LiveStops = {}
          /\ w' = [w EXCEPT !.pc = "finish"]
          /\ UNCHANGED <<request, intent>>
       \/ ~answered /\ KeepPending("UNKNOWN_OUTCOME")
    /\ UNCHANGED tickOnly

Closing == intent.phase = "closing" \/ intent.force

\* What an emergency close left is closed again, at its remaining size.
TickRemaining ==
    /\ w.pc = "tickAct" /\ w.amount > 0 /\ Closing
    /\ w' = [w EXCEPT !.pc = "close"]
    /\ UNCHANGED <<request, intent>>
    /\ UNCHANGED tickOnly

\* Mutant: the position is adopted at whatever size it has now.
Adoptable_AnySize == OpenTrades \subseteq {intent.d}
\* The position is this entry's fill, untouched, and no other trade claims it.
Adoptable == w.amount = entry[intent.d].filled /\ OpenTrades \subseteq {intent.d}

\* Mutant: a stop's size is not compared.
Candidates_AnySize(foreign) == {i \in LiveStops : foreign \/ stops[i].d = intent.d}
\* The stops that cover the position; one another entry left may do so as well.
Candidates(foreign) ==
    {i \in LiveStops : stops[i].size >= w.amount /\ (foreign \/ stops[i].d = intent.d)}

TickRefused ==
    /\ w.pc = "tickAct" /\ w.amount > 0 /\ ~Closing
    /\ KeepPending("UNKNOWN_OUTCOME")
    /\ UNCHANGED tickOnly

\* No stop at all, none tried before: one is tried, unless the price is past it.
TickUnprotected ==
    /\ w.pc = "tickAct" /\ w.amount > 0 /\ ~Closing /\ Adoptable
    /\ LiveStops = {} /\ ~intent.stopTried
    /\ \/ /\ Save([intent EXCEPT !.stopTried = TRUE], "UNKNOWN_OUTCOME")
          /\ w' = [w EXCEPT !.pc = "tickStop"]
       \/ /\ w' = [w EXCEPT !.pc = "close"]
          /\ UNCHANGED <<request, intent>>
    /\ UNCHANGED tickOnly

TickStop ==
    /\ w.pc = "tickStop"
    /\ \/ /\ \E n \in 0..1 : Len(stops) + n <= MaxStops /\ Place(n, w.amount)
          /\ KeepPending("UNKNOWN_OUTCOME")
       \/ /\ w' = [w EXCEPT !.pc = "close"]
          /\ UNCHANGED <<request, intent, stops>>
    /\ UNCHANGED <<trade, controlled, entry, closes, position, loose, sent, bounds>>

\* A protected position is journalled, or its open row gets the stop's id.
TickProtected ==
    /\ w.pc = "tickAct" /\ w.amount > 0 /\ ~Closing /\ Adoptable
    /\ \E foreign \in BOOLEAN : \E i \in Candidates(foreign) :
         \/ /\ trade[w.d].st # "open"
            /\ w' = [w EXCEPT !.pc = "book", !.stop = i]
            /\ UNCHANGED trade
         \/ /\ trade[w.d].st = "open" /\ trade[w.d].amount = w.amount
            /\ trade' = [trade EXCEPT ![w.d].stop = i]
            /\ w' = [w EXCEPT !.pc = "finish"]
    /\ UNCHANGED <<request, intent, controlled, venue, sent, bounds>>

-----------------------------------------------------------------------------
(* The end of a trade.                                                      *)

\* A reduce-only close of the journalled size fills k lots; unless the fill is
\* known the journal stays as it is.
ExitSend(d) ==
    /\ w.pc = "idle"
    /\ trade[d].st = "open"
    /\ \E k \in 0..ReduceOnly(trade[d].amount) :
         /\ Sell(k)
         /\ \/ w' = [Idle EXCEPT !.pc = "exitBook", !.d = d, !.amount = k] /\ k > 0
            \/ w' = w
    /\ UNCHANGED <<journal, controlled, entry, closes, stops, sent, bounds>>

\* A short fill shrinks the trade and leaves its stop.  A full one, or one that leaves
\* no more than is tolerated, cancels the stop, if the venue lets it, and closes the
\* row: what is left is let go.
ExitBook ==
    /\ w.pc = "exitBook"
    /\ LET left == trade[w.d].amount - w.amount IN
       \/ /\ ~Tolerated(left, trade[w.d].amount)
          /\ trade' = [trade EXCEPT ![w.d].amount = left]
          /\ UNCHANGED <<stops, loose>>
       \/ /\ Tolerated(left, trade[w.d].amount)
          /\ trade' = [trade EXCEPT ![w.d].st = "closed"]
          /\ loose' = Least(loose + left, position)
          /\ stops' \in {stops, Cancel({trade[w.d].stop})}
    /\ w' = Idle
    /\ UNCHANGED <<request, intent, controlled, entry, closes, position, sent, bounds>>

\* The size-aware exit check of an open trade, whether or not an intent is pending:
\* gone is closed, materially smaller is aligned; its stop is not looked at.
ExitCheck(d) ==
    /\ w.pc = "idle"
    /\ trade[d].st = "open"
    /\ position < trade[d].amount /\ ~Tolerated(trade[d].amount - position, position)
    /\ trade' = [trade EXCEPT ![d] = IF position = 0 THEN [@ EXCEPT !.st = "closed"]
                                     ELSE [@ EXCEPT !.amount = position]]
    /\ UNCHANGED <<request, intent, controlled, venue, w, sent, bounds>>

\* An open row follows the venue, both ways; a ghost is closed.
Followed(t) ==
    IF t.st # "open" THEN t
    ELSE IF position = 0 THEN [t EXCEPT !.st = "closed"]
    ELSE IF Tolerated(Gap(t.amount, position), position) THEN t
    ELSE [t EXCEPT !.amount = position]

\* A position without a row is adopted, without a stop.
Reconciled ==
    [d \in Rows |-> IF d = None /\ position > 0 /\ OpenTrades = {}
                    THEN [st |-> "open", amount |-> position, stop |-> 0]
                    ELSE Followed(trade[d])]

\* Reconciliation leaves the symbol of a pending intent alone.  Otherwise the journal
\* follows the venue, the stops that no open row keeps are swept, unless what is held
\* has no other, and a position without any stop gets one at its own size, if its row
\* has a level and the price is not past it; its id may fail to be recorded.
Reconcile ==
    /\ w.pc = "idle" /\ ~Pending
    /\ LET open  == {d \in Rows : Reconciled[d].st = "open"}
           kept  == {Reconciled[d].stop : d \in open}
           stray == IF position > 0 /\ kept = {0} THEN {} ELSE LiveStops \ kept IN
       \E swept \in SUBSET stray :
         \/ trade' = Reconciled /\ stops' = Cancel(swept)
         \/ /\ position > 0 /\ LiveStops = swept
            /\ Len(stops) < MaxStops
            /\ stops' = Append(Cancel(swept), [d |-> None, size |-> position, st |-> "live"])
            /\ \E d \in open \cap Decisions :
                 trade' \in {Reconciled, [Reconciled EXCEPT ![d].stop = Len(stops')]}
    /\ UNCHANGED <<request, intent, controlled, entry, closes, position, loose, w, sent, bounds>>

-----------------------------------------------------------------------------
(* The venue, the owner, the other processes.                               *)

venueOnly == <<journal, controlled, w, sent, bounds>>

FillEntry(d) ==
    /\ entry[d].st = "working"
    /\ LET n == entry[d].filled + 1 IN
       entry' = [entry EXCEPT ![d] = [filled |-> n,
                                      st |-> IF n = Lots THEN "closed" ELSE "working"]]
    /\ position' = position + 1
    /\ UNCHANGED <<closes, stops, loose, venueOnly>>

\* A market order may expire short of its size, or before it fills at all.
EndEntry(d) ==
    /\ entry[d].st = "working"
    /\ entry' = [entry EXCEPT ![d].st = "canceled"]
    /\ UNCHANGED <<closes, stops, position, loose, venueOnly>>

\* A reduce-only close fills what is there and may expire.
FillClose(i) ==
    /\ closes[i].st = "working"
    /\ position > 0
    /\ LET n == closes[i].filled + 1 IN
       closes' = [closes EXCEPT ![i] =
                    [@ EXCEPT !.filled = n,
                              !.st = IF n = closes[i].asked THEN "closed" ELSE "working"]]
    /\ Sell(1)
    /\ UNCHANGED <<entry, stops, venueOnly>>

\* The venue refuses or cuts a close short only so often.
EndClose(i) ==
    /\ closes[i].st = "working"
    /\ position = 0 \/ Len(closes) < MaxCloses
    /\ closes' = [closes EXCEPT ![i].st = "canceled"]
    /\ UNCHANGED <<entry, stops, position, loose, venueOnly>>

\* A stop that is triggered is gone, and may have filled short: what is left is held
\* without it.
TriggerStop(i) ==
    /\ i \in LiveStops /\ position > 0
    /\ stops' = [stops EXCEPT ![i].st = "fired"]
    /\ \E k \in 1..ReduceOnly(stops[i].size) : Sell(k)
    /\ UNCHANGED <<entry, closes, venueOnly>>

Outside == outside < MaxOutside /\ outside' = outside + 1

\* Someone reduces the position at the venue itself.
ReduceByHand ==
    /\ Outside
    /\ position > 0
    /\ Sell(1)
    /\ UNCHANGED <<entry, closes, stops, journal, controlled, w, sent, crashes>>

\* A control transition, under the fence the submission holds.
Control(state) ==
    /\ Outside
    /\ w.pc \notin {"send", "commit"}
    /\ control # state
    /\ control' = state
    /\ mark' = mark + 1
    /\ UNCHANGED <<partial, journal, venue, w, sent, crashes>>

\* A partial exit is reserved or consumed; the second transaction locks it out.
PartialExit ==
    /\ Outside
    /\ w.pc # "commit"
    /\ partial' = ~partial
    /\ UNCHANGED <<control, mark, journal, venue, w, sent, crashes>>

Crash ==
    /\ crashes < MaxCrashes
    /\ crashes' = crashes + 1
    /\ w' = Idle
    /\ UNCHANGED <<journal, controlled, venue, sent, outside>>

-----------------------------------------------------------------------------
Work ==
    \/ Reserve \/ SendEntry \/ CommitEntry \/ ConfirmFill \/ PlaceNativeStop
    \/ AddTrade \/ Finish \/ Release
    \/ PersistClose \/ SubmitClose
    \/ \E answered \in BOOLEAN :
         TickClose(answered) \/ TickPosition(answered) \/ TickFlat(answered)
    \/ TickRemaining \/ TickRefused \/ TickUnprotected \/ TickStop \/ TickProtected
    \/ ExitBook

Start ==
    \/ \E d \in Decisions : Authorize(d)
    \/ \E d \in Rows : ExitSend(d) \/ ExitCheck(d)
    \/ \E answered \in BOOLEAN : TickOrder(answered)
    \/ Reconcile

Venue ==
    \/ \E d \in Decisions : FillEntry(d) \/ EndEntry(d)
    \/ \E i \in 1..Len(closes) : FillClose(i) \/ EndClose(i)
    \/ \E i \in 1..Len(stops) : TriggerStop(i)

Next ==
    \/ Work \/ Start \/ Venue
    \/ ReduceByHand \/ PartialExit \/ Crash
    \/ \E state \in States : Control(state)

Spec == Init /\ [][Next]_vars

\* The worker goes on, the venue ends what it works on, and a venue that is read
\* again and again answers in the end.
FairSpec ==
    /\ Spec
    /\ WF_vars(Work) /\ WF_vars(\E answered \in BOOLEAN : TickOrder(answered))
    /\ SF_vars(TickOrder(TRUE)) /\ SF_vars(TickClose(TRUE)) /\ SF_vars(TickPosition(TRUE))
    /\ SF_vars(TickFlat(TRUE)) /\ SF_vars(TickUnprotected) /\ SF_vars(TickProtected)
    /\ WF_vars(\E i \in 1..Len(closes) : FillClose(i) \/ EndClose(i))

-----------------------------------------------------------------------------
(* Properties.                                                              *)

RequestStates == {"none", "SUBMISSION_ATTEMPTED", "ACKNOWLEDGED", "UNKNOWN_OUTCOME",
                  "PARTIAL", "REFUSED", "TERMINAL"}
Intents == [d : Decisions, phase : {"entry", "closing"}, force : BOOLEAN,
            stopTried : BOOLEAN, close : Nat]
Trades  == [st : {"none", "open", "closed"}, amount : Nat, stop : Nat]
Orders  == [st : {"none", "working", "closed", "canceled"}, filled : Nat]
Closes  == [asked : Nat, filled : Nat, st : {"none", "working", "closed", "canceled"}]
Stops   == [d : Rows, size : Nat, st : {"live", "fired", "canceled"}]
Pcs     == {"idle", "reserve", "send", "commit", "confirm", "stop", "book", "finish",
            "release", "close", "closeSend", "tickClose", "tickPosition", "tickAct",
            "tickStop", "exitBook"}
Workers == [pc : Pcs, d : Rows, mark : Nat, amount : Nat, stop : Nat,
            out : {"none", "acked", "ambiguous", "rejected"}]

\* The journal, the venue's orders and the worker's locals keep to their values.
TypeOK ==
    /\ request \in [Decisions -> RequestStates]
    /\ intent \in Intents \cup {NoIntent}
    /\ trade \in [Rows -> Trades]
    /\ control \in {"ACTIVE", "FROZEN", "HALTED"} /\ mark \in Nat /\ partial \in BOOLEAN
    /\ entry \in [Decisions -> Orders]
    /\ closes \in Seq(Closes) /\ stops \in Seq(Stops)
    /\ position \in Nat /\ loose \in Nat
    /\ w \in Workers
    /\ sent \in [Decisions -> Nat]
    /\ outside \in Nat /\ crashes \in Nat

\* A logical action is sent to the venue at most once, whatever is lost, retried,
\* refused or restarted.
SentOnce == \A d \in Decisions : sent[d] <= 1

\* REFUSED is final and true: the venue never took an order of that request.
RefusedNeverTaken ==
    \A d \in Decisions : request[d] = "REFUSED" => entry[d].st = "none"

\* An order is sent only while the system is ACTIVE under the very control intent
\* Risk issued the permission for, with its own reservation durable and no partial
\* exit unresolved.
EntryUnderItsPermission ==
    [][\A d \in Decisions : sent'[d] # sent[d] =>
         /\ control = "ACTIVE" /\ mark = w.mark
         /\ intent.d = d /\ ~partial]_vars

\* What may still fill or is held is always owned: by the pending intent, which
\* keeps further entries out, or by the open trade, up to the lots that closes have let
\* go within their tolerance (executor.py:673).
ExposureOwned ==
    /\ \A d \in Decisions : entry[d].st = "working" => intent.d = d
    /\ (\E i \in 1..Len(closes) : closes[i].st = "working") => Pending
    /\ ~Pending => position <= OpenAmount + loose

\* One emergency close at a time: the next is sent when the last is settled.
OneCloseAtATime ==
    \A i, j \in 1..Len(closes) :
        closes[i].st = "working" /\ closes[j].st = "working" => i = j

\* A trade is journalled at the size its entry order filled, once it is terminal.
BookedAsFilled ==
    [][\A d \in Decisions : trade[d].st = "none" /\ trade'[d].st = "open" =>
         Terminal(entry[d]) /\ trade'[d].amount = entry[d].filled]_vars

\* The open trade of an entry at least as large as what is held, with a stop of its own
\* that covers it and that nobody but the venue has ended, by letting it fire; the lots
\* that were let go need neither.
Holds(i)   == i \in 1..Len(stops) /\ stops[i].st # "canceled" /\ position <= stops[i].size + loose
Guarded(d) == d \in OpenTrades /\ position <= trade[d].amount + loose /\ Holds(trade[d].stop)

\* What is held is let go, or in the care of a pending intent, or of an open trade whose
\* own stop was placed for all of it and not taken away since: a stop may fire short
\* (reconcile.py:520-527), but no exit, sweep, recovery or crash strips a position.
NotStripped == ~Pending /\ position > loose => \E d \in Decisions : Guarded(d)

\* The entry as its barrier: the pending intent keeps others out, each action gets it
\* once and when no trade is open, exposure grows only by what the action sent, the
\* intent is released only over exposure that is guarded, which then stays guarded, and
\* lots are let go only as the tolerated rest of a trade that is closed.
Raised == {d \in Decisions : request[d] # "none"}
Bare   == IF position <= loose \/ \E d \in Decisions : Guarded(d) THEN 0 ELSE position
Barrier == INSTANCE EntryBarrier WITH
             barrier <- intent.d, raised <- Raised, held <- position, owned <- OpenAmount,
             bare <- Bare
BarrierKept == Barrier!BarrierSpec

\* When entries stay blocked: an order that was never taken, a position the entry
\* does not explain or no stop covers after one was tried, a stop left behind.
Covered   == \E i \in LiveStops : stops[i].d = intent.d /\ stops[i].size >= position
LostOrder == \/ entry[intent.d].st = "none"
             \/ intent.phase = "closing" /\ closes[intent.close].st = "none"
Unexplained ==
    /\ position > 0 /\ ~Closing
    /\ \/ position # entry[intent.d].filled
       \/ trade[intent.d].st # "none" /\ trade[intent.d] # [trade[intent.d] EXCEPT
                                            !.st = "open", !.amount = position]
       \/ ~Covered /\ (intent.stopTried \/ LiveStops # {})
LeftStop == position = 0 /\ LiveStops # {}

\* A pending intent is resolved, unless HALTED or in one of those cases.
RecoverySettles ==
    Pending ~> ~Pending \/ control = "HALTED" \/ LostOrder \/ Unexplained \/ LeftStop
=============================================================================
