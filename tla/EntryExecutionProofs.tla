------------------------- MODULE EntryExecutionProofs -------------------------
(* What holds of an entry for every set of decisions, size and bound: the types,
   that a logical action reaches the venue at most once and under its own permission,
   and that a request is REFUSED only if the venue never took its order.        *)
EXTENDS EntryExecution, SequenceTheorems, TLAPS

-----------------------------------------------------------------------------
(* Types.                                                                   *)

\* A worker at none of these steps is working for the pending intent; one that books an
\* exit does so of no more than its trade.
Unowning == {"idle", "reserve", "exitBook"}
WorkerInv ==
    /\ w.pc \notin {"idle", "exitBook"} => w.d \in Decisions
    /\ w.pc \notin Unowning => intent \in Intents
    /\ w.pc = "exitBook" => w.amount <= trade[w.d].amount
TypeInv == TypeOK /\ WorkerInv

\* The fields of the worker's locals.
LEMMA WorkerFields ==
  TypeInv => /\ w.pc \in Pcs /\ w.d \in Rows /\ w.mark \in Nat
             /\ w.amount \in Nat /\ w.stop \in Nat
             /\ w.out \in {"none", "acked", "ambiguous", "rejected"}
  BY DEF TypeInv, TypeOK, Workers

\* What has to be shown of each part of the state.
JournalType == request \in [Decisions -> RequestStates] /\ intent \in Intents \cup
   {NoIntent}
               /\ trade \in [Rows -> Trades]
ControlType == control \in {"ACTIVE", "FROZEN", "HALTED"} /\ mark \in Nat /\ partial \in BOOLEAN
VenueType   == entry \in [Decisions -> Orders] /\ closes \in Seq(Closes)
               /\ stops \in Seq(Stops) /\ position \in Nat /\ loose \in Nat
WorkerType  == w \in Workers /\ WorkerInv
CountType   == sent \in [Decisions -> Nat] /\ outside \in Nat /\ crashes \in Nat

LEMMA TypeParts ==
  TypeInv <=> JournalType /\ ControlType /\ VenueType /\ WorkerType /\ CountType
  BY DEF TypeInv, TypeOK, JournalType, ControlType, VenueType, WorkerType, CountType

LEMMA TypePartsNext ==
  JournalType' /\ ControlType' /\ VenueType' /\ WorkerType' /\ CountType' => TypeInv'
  BY DEF TypeInv, TypeOK, JournalType, ControlType, VenueType, WorkerType, CountType

\* An idle worker, and the record of no intent, order and trade, are well typed.
LEMMA IdleType == Idle \in Workers /\ Idle.pc = "idle" /\ Idle.d = None
  BY DEF Idle, Workers, Pcs, Rows

\* Saving an intent leaves the journal well typed.
LEMMA SaveType ==
  ASSUME TypeInv, NEW i \in Intents \cup {NoIntent}, NEW state \in RequestStates,
     Save(i, state),
         UNCHANGED trade
  PROVE  JournalType' /\ intent' = i
  BY DEF TypeInv, TypeOK, JournalType, Save

\* So does releasing it.
LEMMA ReleaseType ==
  ASSUME TypeInv, NEW d, NEW state \in RequestStates,
         request' = [request EXCEPT ![d] = state], intent' = NoIntent, UNCHANGED trade
  PROVE  JournalType'
  BY DEF TypeInv, TypeOK, JournalType

\* Placing stops leaves them well typed.
LEMMA PlaceType ==
  ASSUME TypeInv, w.d \in Decisions, NEW n \in Nat, NEW size \in Nat, Place(n, size)
  PROVE  stops' \in Seq(Stops) /\ Len(stops') = Len(stops) + n
<1> DEFINE new == [i \in 1..n |-> [d |-> w.d, size |-> size, st |-> "live"]]
<1>1. new \in [1..n -> Stops]
  BY DEF Stops, Rows
<1>2. new \in Seq(Stops)
  BY <1>1, SeqDef
<1>3. Len(new) = n
  <2>1. Len(new) \in Nat /\ DOMAIN new = 1..Len(new)
    BY <1>2, LenProperties
  <2> QED
    BY <2>1
<1>4. stops \in Seq(Stops)
  BY DEF TypeInv, TypeOK
<1> QED
  BY ZenonT(60), <1>2, <1>3, <1>4, ConcatProperties DEF Place

\* So does cancelling them.
LEMMA CancelType ==
  ASSUME TypeInv, NEW ids
  PROVE  Cancel(ids) \in Seq(Stops) /\ Len(Cancel(ids)) = Len(stops)
<1>1. stops \in Seq(Stops) /\ Len(stops) \in Nat
  BY LenProperties DEF TypeInv, TypeOK
<1>2. \A i \in 1..Len(stops) : stops[i] \in Stops
  BY <1>1, ElementOfSeq
<1>3. Cancel(ids) \in [1..Len(stops) -> Stops]
  BY <1>2 DEF Cancel, Stops
<1>4. Cancel(ids) \in Seq(Stops)
  BY <1>1, <1>3, SeqDef
<1>5. Len(Cancel(ids)) \in Nat /\ DOMAIN Cancel(ids) = 1..Len(Cancel(ids))
  BY <1>4, LenProperties
<1>6. DOMAIN Cancel(ids) = 1..Len(stops)
  BY DEF Cancel
<1> QED
  BY <1>1, <1>4, <1>5, <1>6

\* Selling no more than is held keeps both sizes natural.
LEMMA SellType ==
  ASSUME TypeInv, NEW k \in Nat, k <= position, Sell(k)
  PROVE  position' \in Nat /\ loose' \in Nat
  BY DEF TypeInv, TypeOK, Sell, Least

\* The states of an order, and a change of one decision's order.
LEMMA OrderType ==
  ASSUME TypeInv, NEW d, NEW st \in {"none", "working", "closed", "canceled"},
         entry' = [entry EXCEPT ![d].st = st]
  PROVE  entry' \in [Decisions -> Orders]
  BY DEF TypeInv, TypeOK, Orders

\* Changing one element of a sequence, if it is there, keeps its type.
LEMMA SetOne ==
  ASSUME NEW S, NEW s \in Seq(S), NEW i, NEW e, i \in 1..Len(s) => e \in S
  PROVE  [s EXCEPT ![i] = e] \in Seq(S) /\ Len([s EXCEPT ![i] = e]) = Len(s)
<1>1. CASE i \in 1..Len(s)
  BY <1>1, ExceptSeq
<1>2. CASE i \notin 1..Len(s)
  <2>1. [s EXCEPT ![i] = e] = s
    BY <1>2, LenProperties
  <2> QED
    BY <2>1
<1> QED
  BY <1>1, <1>2


\* Sending the entry, deferring it or leaving it.
LEMMA SendEntryType ==
  ASSUME TypeInv, SendEntry
  PROVE  TypeInv'
<1>1. JournalType'
  <2>1. CASE UNCHANGED <<request, intent>>
    BY <2>1 DEF SendEntry, TypeInv, TypeOK, JournalType
  <2>2. CASE request' = [request EXCEPT ![w.d] = "REFUSED"] /\ intent' = NoIntent
    BY <2>2, ReleaseType DEF SendEntry, RequestStates
  <2> QED
    BY <2>1, <2>2 DEF SendEntry
<1>2. ControlType'
  BY DEF SendEntry, controlled, venueOnly, tickOnly, TypeInv, TypeOK, ControlType
<1>3. VenueType'
  <2>1. entry' \in [Decisions -> Orders]
    BY OrderType DEF SendEntry, TypeInv, TypeOK
  <2> QED
    BY <2>1 DEF SendEntry, TypeInv, TypeOK, VenueType
<1>4. CountType'
  BY DEF SendEntry, bounds, venueOnly, tickOnly, TypeInv, TypeOK, CountType
<1>5. WorkerType'
  <2>1. CASE w' = Idle
    BY <2>1, IdleType DEF WorkerType, WorkerInv, Unowning
  <2>2. CASE /\ UNCHANGED intent
             /\ \E out \in {"acked", "ambiguous", "rejected"} :
                  w' = [w EXCEPT !.pc = "commit", !.out = out]
    BY <2>2 DEF SendEntry, WorkerType, WorkerInv, Unowning, TypeInv, TypeOK, Workers, Pcs
  <2> QED
    BY <2>1, <2>2 DEF SendEntry
<1> QED
  BY <1>1, <1>2, <1>3, <1>4, <1>5, TypePartsNext

\* Its outcome is committed.
LEMMA CommitEntryType ==
  ASSUME TypeInv, CommitEntry
  PROVE  TypeInv'
<1>1. JournalType'
  <2>1. CASE Refused(w.out)
    BY <2>1, ReleaseType DEF CommitEntry, RequestStates
  <2>2. CASE ~Refused(w.out)
    BY <2>2, SaveType DEF CommitEntry, RequestStates, TypeInv, TypeOK
  <2> QED
    BY <2>1, <2>2
<1>2. ControlType'
  BY DEF CommitEntry, controlled, venueOnly, tickOnly, TypeInv, TypeOK, ControlType
<1>3. VenueType'
  BY DEF CommitEntry, venue, TypeInv, TypeOK, VenueType
<1>4. CountType'
  BY DEF CommitEntry, bounds, venueOnly, tickOnly, TypeInv, TypeOK, CountType
<1>5. WorkerType'
  <2>1. CASE w.out = "acked"
    <3>1. intent' = intent
      BY <2>1 DEF CommitEntry, Refused, Save
    <3> QED
      BY <2>1, <3>1 DEF CommitEntry, WorkerType, WorkerInv, Unowning, TypeInv, TypeOK,
         Workers, Pcs
  <2>2. CASE w.out # "acked"
    BY <2>2, IdleType DEF CommitEntry, WorkerType, WorkerInv, Unowning
  <2> QED
    BY <2>1, <2>2
<1> QED
  BY <1>1, <1>2, <1>3, <1>4, <1>5, TypePartsNext

\* The entry's stop.
LEMMA PlaceNativeStopType ==
  ASSUME TypeInv, PlaceNativeStop
  PROVE  TypeInv'
<1>1. JournalType'
  BY DEF PlaceNativeStop, KeepPending, journal, venueOnly, tickOnly, TypeInv, TypeOK,
     JournalType
<1>2. ControlType'
  BY DEF PlaceNativeStop, controlled, venueOnly, tickOnly, TypeInv, TypeOK, ControlType
<1>3. VenueType'
  <2>1. PICK n \in 0..2 : Place(n, w.amount)
    BY DEF PlaceNativeStop
  <2>2. w.d \in Decisions
    BY DEF PlaceNativeStop, TypeInv, WorkerInv
  <2>3. stops' \in Seq(Stops)
    BY <2>1, <2>2, WorkerFields, PlaceType
  <2> QED
    BY <2>3 DEF PlaceNativeStop, TypeInv, TypeOK, VenueType
<1>4. CountType'
  BY DEF PlaceNativeStop, bounds, venueOnly, tickOnly, TypeInv, TypeOK, CountType
<1>5. WorkerType'
  <2>1. \/ w' = [w EXCEPT !.pc = "close"]
        \/ \E i \in Nat : w' = [w EXCEPT !.pc = "book", !.stop = i]
    <3>1. \A i \in 1..Len(stops') : i \in Nat
      OBVIOUS
    <3> QED
      BY <3>1 DEF PlaceNativeStop
  <2>2. w.pc = "stop" /\ UNCHANGED intent
    BY DEF PlaceNativeStop, journal
  <2> QED
    BY <2>1, <2>2 DEF WorkerType, WorkerInv, Unowning, TypeInv, TypeOK, Workers, Pcs
<1> QED
  BY <1>1, <1>2, <1>3, <1>4, <1>5, TypePartsNext

\* The trade's journal row.
LEMMA AddTradeType ==
  ASSUME TypeInv, AddTrade
  PROVE  TypeInv'
<1>1. JournalType'
  <2>2. CASE trade[w.d].st = "none"
    <3>1. [st |-> "open", amount |-> w.amount, stop |-> w.stop] \in Trades
      BY WorkerFields DEF Trades
    <3> QED
      BY <2>2, <3>1 DEF AddTrade, TypeInv, TypeOK, JournalType
  <2>3. CASE trade[w.d].st # "none"
    BY <2>3, SaveType DEF AddTrade, RequestStates, TypeInv, TypeOK
  <2> QED
    BY <2>2, <2>3
<1>2. ControlType'
  BY DEF AddTrade, controlled, venueOnly, tickOnly, TypeInv, TypeOK, ControlType
<1>3. VenueType'
  BY DEF AddTrade, venue, TypeInv, TypeOK, VenueType
<1>4. CountType'
  BY DEF AddTrade, bounds, venueOnly, tickOnly, TypeInv, TypeOK, CountType
<1>5. WorkerType'
  <2>1. CASE w' = Idle
    BY <2>1, IdleType DEF WorkerType, WorkerInv, Unowning
  <2>2. CASE w' = [w EXCEPT !.pc = "finish"] /\ UNCHANGED intent
    BY <2>2 DEF AddTrade, WorkerType, WorkerInv, Unowning, TypeInv, TypeOK, Workers, Pcs
  <2> QED
    BY <2>1, <2>2 DEF AddTrade
<1> QED
  BY <1>1, <1>2, <1>3, <1>4, <1>5, TypePartsNext

\* An emergency close is persisted.
LEMMA PersistCloseType ==
  ASSUME TypeInv, PersistClose
  PROVE  TypeInv'
<1>1. JournalType'
  <2>1. intent \in Intents /\ Len(closes') \in Nat
    <3>1. [asked |-> w.amount, filled |-> 0, st |-> "none"] \in Closes
      BY WorkerFields DEF Closes
    <3> QED
      BY <3>1 DEF PersistClose, TypeInv, TypeOK, WorkerInv, Unowning
  <2>2. [intent EXCEPT !.phase = "closing", !.close = Len(closes')] \in Intents
    BY <2>1 DEF Intents
  <2> QED
    BY <2>2, SaveType DEF PersistClose, RequestStates
<1>2. ControlType'
  BY DEF PersistClose, controlled, venueOnly, tickOnly, TypeInv, TypeOK, ControlType
<1>3. VenueType'
  <2>1. [asked |-> w.amount, filled |-> 0, st |-> "none"] \in Closes
    BY WorkerFields DEF Closes
  <2> QED
    BY <2>1 DEF PersistClose, TypeInv, TypeOK, VenueType
<1>4. CountType'
  BY DEF PersistClose, bounds, venueOnly, tickOnly, TypeInv, TypeOK, CountType
<1>5. WorkerType'
  <2>1. intent' = [intent EXCEPT !.phase = "closing", !.close = Len(closes')]
    BY DEF PersistClose, Save
  <2>2. intent \in Intents /\ Len(closes') \in Nat
    <3>1. [asked |-> w.amount, filled |-> 0, st |-> "none"] \in Closes
      BY WorkerFields DEF Closes
    <3> QED
      BY <3>1 DEF PersistClose, TypeInv, TypeOK, WorkerInv, Unowning
  <2>3. intent' \in Intents
    BY <2>1, <2>2 DEF Intents
  <2> QED
    BY <2>3 DEF PersistClose, WorkerType, WorkerInv, Unowning, TypeInv, TypeOK,
       Workers, Pcs
<1> QED
  BY <1>1, <1>2, <1>3, <1>4, <1>5, TypePartsNext

\* It is sent, lost or rejected.
LEMMA SubmitCloseType ==
  ASSUME TypeInv, SubmitClose
  PROVE  TypeInv'
<1>1. JournalType'
  <2>1. intent \in Intents
    BY DEF SubmitClose, TypeInv, WorkerInv, Unowning
  <2>2. [intent EXCEPT !.phase = "entry", !.force = TRUE] \in Intents
    BY <2>1 DEF Intents
  <2> QED
    BY <2>1, <2>2 DEF SubmitClose, TypeInv, TypeOK, JournalType
<1>2. ControlType'
  BY DEF SubmitClose, controlled, venueOnly, tickOnly, TypeInv, TypeOK, ControlType
<1>3. VenueType'
  <2>1. CASE UNCHANGED closes
    BY <2>1 DEF SubmitClose, TypeInv, TypeOK, VenueType
  <2>2. CASE closes' = [closes EXCEPT ![intent.close].st = "working"]
    <3>1. closes \in Seq(Closes)
      BY DEF TypeInv, TypeOK
    <3>2. intent.close \in 1..Len(closes) =>
            [closes[intent.close] EXCEPT !.st = "working"] \in Closes
      <4>1. intent.close \in 1..Len(closes) => closes[intent.close] \in Closes
        BY <3>1, ElementOfSeq
      <4> QED
        BY <4>1 DEF Closes
    <3>3. closes' \in Seq(Closes)
      BY <2>2, <3>1, <3>2, SetOne
    <3> QED
      BY <3>3 DEF SubmitClose, TypeInv, TypeOK, VenueType
  <2> QED
    BY <2>1, <2>2 DEF SubmitClose
<1>4. CountType'
  BY DEF SubmitClose, bounds, venueOnly, tickOnly, TypeInv, TypeOK, CountType
<1>5. WorkerType'
  BY IdleType DEF SubmitClose, WorkerType, WorkerInv, Unowning
<1> QED
  BY <1>1, <1>2, <1>3, <1>4, <1>5, TypePartsNext

\* A recovery pass reads and cancels the entry order.
LEMMA TickOrderType ==
  ASSUME TypeInv, NEW a \in BOOLEAN, TickOrder(a)
  PROVE  TypeInv'
<1>1. JournalType'
  <2>1. CASE UNCHANGED <<request, intent>>
    BY <2>1 DEF TickOrder, TypeInv, TypeOK, JournalType
  <2>2. CASE KeepPending("PARTIAL") \/ KeepPending("UNKNOWN_OUTCOME")
    BY <2>2, SaveType DEF TickOrder, KeepPending, RequestStates, TypeInv, TypeOK
  <2> QED
    BY <2>1, <2>2 DEF TickOrder
<1>2. ControlType'
  BY DEF TickOrder, controlled, venueOnly, tickOnly, TypeInv, TypeOK, ControlType
<1>3. VenueType'
  <2>1. \/ UNCHANGED entry
        \/ \E st \in {"canceled", entry[intent.d].st} :
             entry' = [entry EXCEPT ![intent.d].st = st]
    BY DEF TickOrder
  <2>2. intent.d \in Decisions /\ entry[intent.d].st \in {"none", "working", "closed", "canceled"}
    BY DEF TickOrder, Pending, TypeInv, TypeOK, Intents, Orders
  <2>3. entry' \in [Decisions -> Orders]
    BY <2>1, <2>2, OrderType DEF TypeInv, TypeOK
  <2> QED
    BY <2>3 DEF TickOrder, TypeInv, TypeOK, VenueType
<1>4. CountType'
  BY DEF TickOrder, bounds, venueOnly, tickOnly, TypeInv, TypeOK, CountType
<1>5. WorkerType'
  <2>1. CASE w' = Idle
    BY <2>1, IdleType DEF WorkerType, WorkerInv, Unowning
  <2>2. CASE /\ UNCHANGED intent
             /\ w' = [Idle EXCEPT !.pc = IF intent.phase = "closing" THEN "tickClose"
                                         ELSE "tickPosition", !.d = intent.d]
    <3>1. intent \in Intents /\ intent.d \in Decisions
      BY DEF TickOrder, Pending, TypeInv, TypeOK, Intents
    <3>2. w'.pc \in {"tickClose", "tickPosition"} /\ w'.d \in Decisions /\ w' \in Workers
      BY <2>2, <3>1, IdleType DEF Workers, Pcs, Rows
    <3> QED
      BY <2>2, <3>1, <3>2 DEF WorkerType, WorkerInv
  <2> QED
    BY <2>1, <2>2 DEF TickOrder, KeepPending
<1> QED
  BY <1>1, <1>2, <1>3, <1>4, <1>5, TypePartsNext

\* A recovery pass tries a stop.
LEMMA TickStopType ==
  ASSUME TypeInv, TickStop
  PROVE  TypeInv'
<1>1. JournalType'
  <2>1. CASE UNCHANGED <<request, intent>>
    BY <2>1 DEF TickStop, TypeInv, TypeOK, JournalType
  <2>2. CASE KeepPending("UNKNOWN_OUTCOME")
    BY <2>2, SaveType DEF TickStop, KeepPending, RequestStates, TypeInv, TypeOK
  <2> QED
    BY <2>1, <2>2 DEF TickStop
<1>2. ControlType'
  BY DEF TickStop, controlled, venueOnly, tickOnly, TypeInv, TypeOK, ControlType
<1>3. VenueType'
  <2>1. CASE UNCHANGED stops
    BY <2>1 DEF TickStop, TypeInv, TypeOK, VenueType
  <2>2. CASE \E n \in 0..1 : Place(n, w.amount)
    <3>1. PICK n \in 0..1 : Place(n, w.amount)
      BY <2>2
    <3>2. w.d \in Decisions
      BY DEF TickStop, TypeInv, WorkerInv
    <3>3. stops' \in Seq(Stops)
      BY <3>1, <3>2, WorkerFields, PlaceType
    <3> QED
      BY <3>3 DEF TickStop, TypeInv, TypeOK, VenueType
  <2> QED
    BY <2>1, <2>2 DEF TickStop
<1>4. CountType'
  BY DEF TickStop, bounds, venueOnly, tickOnly, TypeInv, TypeOK, CountType
<1>5. WorkerType'
  <2>1. CASE w' = Idle
    BY <2>1, IdleType DEF WorkerType, WorkerInv, Unowning
  <2>2. CASE w' = [w EXCEPT !.pc = "close"] /\ UNCHANGED intent
    BY <2>2 DEF TickStop, WorkerType, WorkerInv, Unowning, TypeInv, TypeOK, Workers, Pcs
  <2> QED
    BY <2>1, <2>2 DEF TickStop, KeepPending
<1> QED
  BY <1>1, <1>2, <1>3, <1>4, <1>5, TypePartsNext

\* A recovery pass finds the position protected.
LEMMA TickProtectedType ==
  ASSUME TypeInv, TickProtected
  PROVE  TypeInv'
<1>1. JournalType'
  <2>1. PICK i \in Nat : \/ UNCHANGED trade
                         \/ trade' = [trade EXCEPT ![w.d].stop = i]
    <3>1. \A f \in BOOLEAN : \A i \in Candidates(f) : i \in Nat
      BY DEF Candidates, LiveStops
    <3> QED
      BY <3>1 DEF TickProtected
  <2>2. trade' \in [Rows -> Trades]
    <3>1. CASE UNCHANGED trade
      BY <3>1 DEF TypeInv, TypeOK
    <3>2. CASE trade' = [trade EXCEPT ![w.d].stop = i]
      BY <3>2 DEF TypeInv, TypeOK, Trades
    <3> QED
      BY <2>1, <3>1, <3>2
  <2> QED
    BY <2>2 DEF TickProtected, TypeInv, TypeOK, JournalType
<1>2. ControlType'
  BY DEF TickProtected, controlled, venueOnly, tickOnly, TypeInv, TypeOK, ControlType
<1>3. VenueType'
  BY DEF TickProtected, venue, TypeInv, TypeOK, VenueType
<1>4. CountType'
  BY DEF TickProtected, bounds, venueOnly, tickOnly, TypeInv, TypeOK, CountType
<1>5. WorkerType'
  <2>1. \E i \in Nat : \/ w' = [w EXCEPT !.pc = "book", !.stop = i]
                        \/ w' = [w EXCEPT !.pc = "finish"]
    <3>1. \A f \in BOOLEAN : \A i \in Candidates(f) : i \in Nat
      BY DEF Candidates, LiveStops
    <3> QED
      BY <3>1 DEF TickProtected
  <2>2. w.pc = "tickAct" /\ UNCHANGED intent
    BY DEF TickProtected
  <2> QED
    BY <2>1, <2>2 DEF WorkerType, WorkerInv, Unowning, TypeInv, TypeOK, Workers, Pcs
<1> QED
  BY <1>1, <1>2, <1>3, <1>4, <1>5, TypePartsNext

\* An exit is sent.
LEMMA ExitSendType ==
  ASSUME TypeInv, NEW d \in Rows, ExitSend(d)
  PROVE  TypeInv'
<1>1. JournalType'
  BY DEF ExitSend, KeepPending, journal, venueOnly, tickOnly, TypeInv, TypeOK, JournalType
<1>2. ControlType'
  BY DEF ExitSend, controlled, venueOnly, tickOnly, TypeInv, TypeOK, ControlType
<1>3. VenueType'
  <2>1. position \in Nat /\ trade[d].amount \in Nat
    BY DEF TypeInv, TypeOK, Trades
  <2>2. PICK k \in 0..ReduceOnly(trade[d].amount) : Sell(k)
    BY DEF ExitSend
  <2>3. position' \in Nat /\ loose' \in Nat
    <3>1. k \in Nat /\ k <= position
      BY <2>1, <2>2 DEF ReduceOnly, Least
    <3> QED
      BY <2>2, <3>1, SellType
  <2> QED
    BY <2>3 DEF ExitSend, TypeInv, TypeOK, VenueType
<1>4. CountType'
  BY DEF ExitSend, bounds, venueOnly, tickOnly, TypeInv, TypeOK, CountType
<1>5. WorkerType'
  <2>1. CASE w' = w
    BY <2>1 DEF ExitSend, journal, WorkerType, WorkerInv, Unowning, TypeInv, TypeOK
  <2>2. CASE \E k \in Nat : /\ k <= trade[d].amount
                           /\ w' = [Idle EXCEPT !.pc = "exitBook", !.d = d, !.amount = k]
    <3>1. UNCHANGED trade
      BY DEF ExitSend, journal
    <3> QED
      BY <2>2, <3>1, IdleType DEF WorkerType, WorkerInv, Unowning, Workers, Pcs
  <2>3. \A k \in 0..ReduceOnly(trade[d].amount) : k \in Nat /\ k <= trade[d].amount
    BY DEF ReduceOnly, Least, TypeInv, TypeOK, Trades
  <2> QED
    BY <2>1, <2>2, <2>3 DEF ExitSend
<1> QED
  BY <1>1, <1>2, <1>3, <1>4, <1>5, TypePartsNext

\* What a booked exit leaves of its trade.
LEMMA LeftType ==
  ASSUME TypeInv, w.pc = "exitBook"
  PROVE  trade[w.d].amount - w.amount \in Nat
<1>1. w.d \in Rows /\ w.amount \in Nat /\ trade[w.d].amount \in Nat
  BY WorkerFields DEF TypeInv, TypeOK, Trades
<1> QED
  BY <1>1 DEF TypeInv, WorkerInv

\* It is booked.
LEMMA ExitBookType ==
  ASSUME TypeInv, ExitBook
  PROVE  TypeInv'
<1> DEFINE left == trade[w.d].amount - w.amount
<1>0. left \in Nat
  BY LeftType DEF ExitBook
<1> HIDE DEF left
<1>1. JournalType'
  <2>1. CASE trade' = [trade EXCEPT ![w.d].amount = left]
    BY ZenonT(60), <1>0, <2>1 DEF ExitBook, TypeInv, TypeOK, JournalType, Trades
  <2>2. CASE trade' = [trade EXCEPT ![w.d].st = "closed"]
    BY ZenonT(60), <2>2 DEF ExitBook, TypeInv, TypeOK, JournalType, Trades
  <2> QED
    BY <2>1, <2>2 DEF ExitBook, left
<1>2. ControlType'
  BY DEF ExitBook, controlled, venueOnly, tickOnly, TypeInv, TypeOK, ControlType
<1>3. VenueType'
  <2>1. UNCHANGED loose \/ loose' = Least(loose + left, position)
    BY DEF ExitBook, left
  <2>2. loose' \in Nat
    BY <1>0, <2>1 DEF Least, TypeInv, TypeOK
  <2>3. stops' \in Seq(Stops)
    BY CancelType DEF ExitBook, TypeInv, TypeOK
  <2> QED
    BY <2>2, <2>3 DEF ExitBook, TypeInv, TypeOK, VenueType
<1>4. CountType'
  BY DEF ExitBook, bounds, venueOnly, tickOnly, TypeInv, TypeOK, CountType
<1>5. WorkerType'
  BY IdleType DEF ExitBook, WorkerType, WorkerInv, Unowning
<1> QED
  BY <1>1, <1>2, <1>3, <1>4, <1>5, TypePartsNext

\* The exit check follows the venue down.
LEMMA ExitCheckType ==
  ASSUME TypeInv, NEW d \in Rows, ExitCheck(d)
  PROVE  TypeInv'
<1>1. JournalType'
  BY DEF ExitCheck, TypeInv, TypeOK, JournalType, Trades
<1>2. ControlType'
  BY DEF ExitCheck, controlled, TypeInv, TypeOK, ControlType
<1>3. VenueType'
  BY DEF ExitCheck, venue, TypeInv, TypeOK, VenueType
<1>4. CountType'
  BY DEF ExitCheck, bounds, TypeInv, TypeOK, CountType
<1>5. WorkerType'
  BY DEF ExitCheck, WorkerType, WorkerInv, Unowning, TypeInv, TypeOK
<1> QED
  BY <1>1, <1>2, <1>3, <1>4, <1>5, TypePartsNext

\* A row that reconciliation leaves is well typed.
LEMMA ReconciledType == TypeInv => Reconciled \in [Rows -> Trades]
<1> SUFFICES ASSUME TypeInv PROVE Reconciled \in [Rows -> Trades]
  OBVIOUS
<1>1. position \in Nat /\ \A d \in Rows : trade[d] \in Trades
  BY DEF TypeInv, TypeOK
<1>2. \A t \in Trades : Followed(t) \in Trades
  BY <1>1 DEF Followed, Trades
<1>3. [st |-> "open", amount |-> position, stop |-> 0] \in Trades
  BY <1>1 DEF Trades
<1> QED
  BY <1>1, <1>2, <1>3 DEF Reconciled

\* Reconciliation follows the venue, adopts, sweeps and re-arms.
LEMMA ReconcileType ==
  ASSUME TypeInv, Reconcile
  PROVE  TypeInv'
<1>1. PICK swept :
        \/ trade' = Reconciled /\ stops' = Cancel(swept)
        \/ /\ stops' = Append(Cancel(swept), [d |-> None, size |-> position, st |-> "live"])
           /\ \/ trade' = Reconciled
              \/ \E d \in Rows : trade' = [Reconciled EXCEPT ![d].stop = Len(stops')]
  BY DEF Reconcile
<1>2. stops' \in Seq(Stops)
  <2>1. [d |-> None, size |-> position, st |-> "live"] \in Stops
    BY DEF Stops, Rows, TypeInv, TypeOK
  <2>2. Cancel(swept) \in Seq(Stops)
    BY CancelType
  <2>3. Append(Cancel(swept), [d |-> None, size |-> position, st |-> "live"]) \in Seq(Stops)
    BY <2>1, <2>2, AppendProperties
  <2> QED
    BY <1>1, <2>2, <2>3
<1>3. trade' \in [Rows -> Trades]
  <2>1. Len(stops') \in Nat
    BY <1>2, LenProperties
  <2>2. \A d \in Rows : [Reconciled EXCEPT ![d].stop = Len(stops')] \in [Rows -> Trades]
    BY <2>1, ReconciledType DEF Trades
  <2> QED
    BY <1>1, <2>2, ReconciledType
<1>4. JournalType'
  BY <1>3 DEF Reconcile, TypeInv, TypeOK, JournalType
<1>5. ControlType'
  BY DEF Reconcile, controlled, venueOnly, tickOnly, TypeInv, TypeOK, ControlType
<1>6. VenueType'
  BY <1>2 DEF Reconcile, TypeInv, TypeOK, VenueType
<1>7. CountType'
  BY DEF Reconcile, bounds, venueOnly, tickOnly, TypeInv, TypeOK, CountType
<1>8. WorkerType'
  BY DEF Reconcile, WorkerType, WorkerInv, Unowning, TypeInv, TypeOK
<1> QED
  BY <1>4, <1>5, <1>6, <1>7, <1>8, TypePartsNext

\* The venue fills a lot of the entry,
LEMMA FillEntryType ==
  ASSUME TypeInv, NEW d \in Decisions, FillEntry(d)
  PROVE  TypeInv'
<1>1. JournalType'
  BY DEF FillEntry, KeepPending, journal, venueOnly, tickOnly, TypeInv, TypeOK,
     JournalType
<1>2. ControlType'
  BY DEF FillEntry, controlled, venueOnly, tickOnly, TypeInv, TypeOK, ControlType
<1>3. VenueType'
  <2>1. entry[d].filled + 1 \in Nat /\ position + 1 \in Nat
    BY DEF TypeInv, TypeOK, Orders
  <2>2. entry' \in [Decisions -> Orders]
    BY <2>1 DEF FillEntry, TypeInv, TypeOK, Orders
  <2> QED
    BY <2>1, <2>2 DEF FillEntry, TypeInv, TypeOK, VenueType
<1>4. CountType'
  BY DEF FillEntry, bounds, venueOnly, tickOnly, TypeInv, TypeOK, CountType
<1>5. WorkerType'
  BY DEF FillEntry, venueOnly, journal, WorkerType, WorkerInv, TypeInv, TypeOK
<1> QED
  BY <1>1, <1>2, <1>3, <1>4, <1>5, TypePartsNext

\* or ends it,
LEMMA EndEntryType ==
  ASSUME TypeInv, NEW d \in Decisions, EndEntry(d)
  PROVE  TypeInv'
<1>1. JournalType'
  BY DEF EndEntry, KeepPending, journal, venueOnly, tickOnly, TypeInv, TypeOK, JournalType
<1>2. ControlType'
  BY DEF EndEntry, controlled, venueOnly, tickOnly, TypeInv, TypeOK, ControlType
<1>3. VenueType'
  <2>1. entry' \in [Decisions -> Orders]
    BY OrderType DEF EndEntry
  <2> QED
    BY <2>1 DEF EndEntry, TypeInv, TypeOK, VenueType
<1>4. CountType'
  BY DEF EndEntry, bounds, venueOnly, tickOnly, TypeInv, TypeOK, CountType
<1>5. WorkerType'
  BY DEF EndEntry, venueOnly, journal, WorkerType, WorkerInv, TypeInv, TypeOK
<1> QED
  BY <1>1, <1>2, <1>3, <1>4, <1>5, TypePartsNext

\* fills a lot of a close,
LEMMA FillCloseType ==
  ASSUME TypeInv, NEW i \in 1..Len(closes), FillClose(i)
  PROVE  TypeInv'
<1>1. JournalType'
  BY DEF FillClose, KeepPending, journal, venueOnly, tickOnly, TypeInv, TypeOK,
     JournalType
<1>2. ControlType'
  BY DEF FillClose, controlled, venueOnly, tickOnly, TypeInv, TypeOK, ControlType
<1>3. VenueType'
  <2>1. closes \in Seq(Closes) /\ closes[i] \in Closes
    <3>1. closes \in Seq(Closes)
      BY DEF TypeInv, TypeOK
    <3> QED
      BY <3>1, ElementOfSeq
  <2> DEFINE n == closes[i].filled + 1
             c == [closes[i] EXCEPT !.filled = n,
                                    !.st = IF n = closes[i].asked THEN "closed" ELSE
                                       "working"]
  <2>2. c \in Closes
    <3>1. n \in Nat
      BY <2>1 DEF Closes
    <3>2. \A m \in Nat : \A st \in {"closed", "working"} :
            [closes[i] EXCEPT !.filled = m, !.st = st] \in Closes
      BY <2>1 DEF Closes
    <3> QED
      BY <3>1, <3>2
  <2>3. closes' = [closes EXCEPT ![i] = c]
    BY <2>1 DEF FillClose
  <2>4. closes' \in Seq(Closes)
    BY <2>1, <2>2, <2>3, ExceptSeq
  <2>5. position' \in Nat /\ loose' \in Nat
    BY DEF FillClose, Sell, Least, TypeInv, TypeOK
  <2> QED
    BY <2>4, <2>5 DEF FillClose, TypeInv, TypeOK, VenueType
<1>4. CountType'
  BY DEF FillClose, bounds, venueOnly, tickOnly, TypeInv, TypeOK, CountType
<1>5. WorkerType'
  BY DEF FillClose, venueOnly, journal, WorkerType, WorkerInv, TypeInv, TypeOK
<1> QED
  BY <1>1, <1>2, <1>3, <1>4, <1>5, TypePartsNext

\* ends a close
LEMMA EndCloseType ==
  ASSUME TypeInv, NEW i \in 1..Len(closes), EndClose(i)
  PROVE  TypeInv'
<1>1. JournalType'
  BY DEF EndClose, KeepPending, journal, venueOnly, tickOnly, TypeInv, TypeOK, JournalType
<1>2. ControlType'
  BY DEF EndClose, controlled, venueOnly, tickOnly, TypeInv, TypeOK, ControlType
<1>3. VenueType'
  <2>1. closes \in Seq(Closes) /\ closes[i] \in Closes
    <3>1. closes \in Seq(Closes)
      BY DEF TypeInv, TypeOK
    <3> QED
      BY <3>1, ElementOfSeq
  <2>2. [closes[i] EXCEPT !.st = "canceled"] \in Closes
    BY <2>1 DEF Closes
  <2>3. closes' \in Seq(Closes)
    BY <2>1, <2>2, ExceptSeq DEF EndClose
  <2> QED
    BY <2>3 DEF EndClose, TypeInv, TypeOK, VenueType
<1>4. CountType'
  BY DEF EndClose, bounds, venueOnly, tickOnly, TypeInv, TypeOK, CountType
<1>5. WorkerType'
  BY DEF EndClose, venueOnly, journal, WorkerType, WorkerInv, TypeInv, TypeOK
<1> QED
  BY <1>1, <1>2, <1>3, <1>4, <1>5, TypePartsNext

\* or triggers a stop.
LEMMA TriggerStopType ==
  ASSUME TypeInv, NEW i \in 1..Len(stops), TriggerStop(i)
  PROVE  TypeInv'
<1>1. JournalType'
  BY DEF TriggerStop, KeepPending, journal, venueOnly, tickOnly, TypeInv, TypeOK,
     JournalType
<1>2. ControlType'
  BY DEF TriggerStop, controlled, venueOnly, tickOnly, TypeInv, TypeOK, ControlType
<1>3. VenueType'
  <2>1. stops \in Seq(Stops) /\ stops[i] \in Stops
    <3>1. stops \in Seq(Stops)
      BY DEF TypeInv, TypeOK
    <3> QED
      BY <3>1, ElementOfSeq
  <2>2. [stops[i] EXCEPT !.st = "fired"] \in Stops
    BY <2>1 DEF Stops
  <2>3. stops' \in Seq(Stops)
    BY <2>1, <2>2, ExceptSeq DEF TriggerStop
  <2>4. position' \in Nat /\ loose' \in Nat
    <3>1. PICK k \in 1..ReduceOnly(stops[i].size) : Sell(k)
      BY DEF TriggerStop
    <3>2. k \in Nat /\ k <= position
      BY <2>1, <3>1 DEF ReduceOnly, Least, Stops, TypeInv, TypeOK
    <3> QED
      BY <3>1, <3>2, SellType
  <2> QED
    BY <2>3, <2>4 DEF TriggerStop, TypeInv, TypeOK, VenueType
<1>4. CountType'
  BY DEF TriggerStop, bounds, venueOnly, tickOnly, TypeInv, TypeOK, CountType
<1>5. WorkerType'
  BY DEF TriggerStop, venueOnly, journal, WorkerType, WorkerInv, TypeInv, TypeOK
<1> QED
  BY <1>1, <1>2, <1>3, <1>4, <1>5, TypePartsNext

\* The steps of the worker that move only the intent and its locals.
LEMMA PlainWorkType ==
  ASSUME TypeInv,
         \/ Reserve \/ ConfirmFill \/ Finish \/ Release
         \/ \E a \in BOOLEAN : TickClose(a) \/ TickPosition(a) \/ TickFlat(a)
         \/ TickRemaining \/ TickRefused \/ TickUnprotected
  PROVE  TypeInv'
<1> USE IdleType DEF TypeInv, TypeOK, WorkerInv, Unowning, Save, KeepPending, tickOnly,
      controlled, venue, bounds, Workers, Pcs
<1>1. CASE Reserve
  <2>1. w.d \in Decisions /\ [NoIntent EXCEPT !.d = w.d] \in Intents
    BY <1>1 DEF Reserve, NoIntent, Intents
  <2>2. CASE w' = Idle /\ UNCHANGED <<request, intent>>
    BY <1>1, <2>2 DEF Reserve
  <2>3. CASE w' = [w EXCEPT !.pc = "send"]
             /\ Save([NoIntent EXCEPT !.d = w.d], "SUBMISSION_ATTEMPTED")
    BY <1>1, <2>1, <2>3 DEF Reserve, RequestStates
  <2> QED
    BY <1>1, <2>2, <2>3 DEF Reserve
<1>2. CASE ConfirmFill
  <2>1. w.d \in Decisions /\ entry[w.d].filled \in Nat
    BY <1>2 DEF ConfirmFill, Orders
  <2> QED
    BY ZenonT(60), <1>2, <2>1 DEF ConfirmFill, RequestStates
<1>3. CASE Finish
  BY <1>3 DEF Finish, RequestStates
<1>4. CASE Release
  BY <1>4 DEF Release, RequestStates
<1>5. CASE \E a \in BOOLEAN : TickClose(a)
  BY ZenonT(60), <1>5 DEF TickClose, RequestStates
<1>6. CASE \E a \in BOOLEAN : TickPosition(a)
  BY ZenonT(60), <1>6 DEF TickPosition, RequestStates
<1>7. CASE \E a \in BOOLEAN : TickFlat(a)
  BY ZenonT(60), <1>7 DEF TickFlat, RequestStates
<1>8. CASE TickRemaining
  BY <1>8 DEF TickRemaining
<1>9. CASE TickRefused
  BY <1>9 DEF TickRefused, RequestStates
<1>10. CASE TickUnprotected
  BY ZenonT(60), <1>10 DEF TickUnprotected, RequestStates, Intents
<1> QED
  BY <1>1, <1>2, <1>3, <1>4, <1>5, <1>6, <1>7, <1>8, <1>9, <1>10

\* The owner, the other processes, a crash and a permission.
LEMMA OutsideType ==
  ASSUME TypeInv,
         \/ ReduceByHand \/ PartialExit \/ Crash
         \/ \E state \in States : Control(state)
         \/ \E d \in Decisions : Authorize(d)
  PROVE  TypeInv'
<1> USE IdleType DEF TypeInv, TypeOK, WorkerInv, Unowning, journal, controlled, venue,
   bounds,
      Outside
<1>1. CASE ReduceByHand
  <2>1. position' \in Nat /\ loose' \in Nat
    BY <1>1 DEF ReduceByHand, Sell, Least
  <2> QED
    BY <1>1, <2>1 DEF ReduceByHand
<1>2. CASE PartialExit
  BY <1>2 DEF PartialExit
<1>3. CASE Crash
  BY <1>3 DEF Crash
<1>4. CASE \E state \in States : Control(state)
  BY <1>4, StatesAssumption DEF Control
<1>5. CASE \E d \in Decisions : Authorize(d)
  BY ZenonT(60), <1>5 DEF Authorize, Idle, Workers, Pcs, Rows
<1> QED
  BY <1>1, <1>2, <1>3, <1>4, <1>5

LEMMA TypeInit == Init => TypeInv
<1> SUFFICES ASSUME Init PROVE TypeInv
  OBVIOUS
<1>1. NoTrade \in Trades /\ NoOrder \in Orders /\ "none" \in RequestStates
  BY DEF NoTrade, NoOrder, Trades, Orders, RequestStates
<1>2. <<>> \in Seq(Closes) /\ <<>> \in Seq(Stops)
  BY EmptySeq
<1>3. /\ request \in [Decisions -> RequestStates] /\ trade \in [Rows -> Trades]
      /\ entry \in [Decisions -> Orders] /\ sent \in [Decisions -> Nat]
  BY <1>1 DEF Init
<1>4. closes \in Seq(Closes) /\ stops \in Seq(Stops)
  BY <1>2 DEF Init
<1> QED
  BY <1>3, <1>4, IdleType DEF Init, TypeInv, TypeOK, WorkerInv, Unowning

\* Every step keeps the types.
LEMMA TypeStep == TypeInv /\ [Next]_vars => TypeInv'
<1> SUFFICES ASSUME TypeInv, [Next]_vars PROVE TypeInv'
  OBVIOUS
<1>1. CASE Work
  BY <1>1, SendEntryType, CommitEntryType, PlaceNativeStopType, AddTradeType,
     PersistCloseType,
     SubmitCloseType, TickStopType, TickProtectedType, ExitBookType, PlainWorkType DEF
        Work
<1>2. CASE Start
  BY <1>2, ExitSendType, ExitCheckType, TickOrderType, ReconcileType, OutsideType DEF Start
<1>3. CASE Venue
  BY <1>3, FillEntryType, EndEntryType, FillCloseType, EndCloseType, TriggerStopType
     DEF Venue
<1>4. CASE ReduceByHand \/ PartialExit \/ Crash
           \/ \E state \in States : Control(state)
  BY <1>4, OutsideType
<1>5. CASE UNCHANGED vars
  BY <1>5 DEF vars, journal, controlled, venue, bounds, TypeInv, TypeOK, WorkerInv
<1> QED
  BY <1>1, <1>2, <1>3, <1>4, <1>5 DEF Next

\* The journal, the venue's orders and the worker's locals keep to their values,
\* and a worker inside an entry always has the pending intent it works for.
THEOREM TypeCorrect == Spec => []TypeOK
<1>1. TypeInv => TypeOK
  BY DEF TypeInv
<1> QED
  BY <1>1, TypeInit, TypeStep, PTL DEF Spec

-----------------------------------------------------------------------------
(* Submission.                                                              *)

\* A decision without a request has never been sent, and none was sent twice.
Untouched(d) == sent[d] = 0 /\ entry[d].st = "none"
SentInv ==
    \A d \in Decisions : sent[d] <= 1 /\ (request[d] = "none" => Untouched(d))

\* Between its two transactions a submission holds the control fence and the
\* only pending intent, and its decision has not been sent; after the call its
\* outcome says whether the venue may have the order.
SubmitInv ==
    /\ w.pc = "send" =>
         /\ control = "ACTIVE" /\ intent.d = w.d
         /\ request[w.d] = "SUBMISSION_ATTEMPTED" /\ Untouched(w.d)
    /\ w.pc = "commit" =>
         /\ intent.d = w.d
         /\ Refused(w.out) => entry[w.d].st = "none"

OnceInv == TypeInv /\ SentInv /\ SubmitInv /\ RefusedNeverTaken

\* No step outside submission sends, gives a request back its "none", calls it
\* REFUSED, or starts an order at the venue.
Frame ==
    /\ UNCHANGED sent
    /\ \A d \in Decisions : /\ request'[d] = "none" => request[d] = "none"
                            /\ request'[d] = "REFUSED" => request[d] = "REFUSED"
                            /\ entry[d].st = "none" => entry'[d].st = "none"

\* Such a step keeps the invariant if it leaves the submission alone or ends it.
Aside ==
    \/ w'.pc \notin {"send", "commit"}
    \/ UNCHANGED <<w, intent, request, control>>

LEMMA FrameKeeps ==
  ASSUME OnceInv, TypeInv', Frame, Aside
  PROVE  OnceInv'
<1>1. SentInv'
  BY DEF OnceInv, SentInv, Untouched, Frame
<1>2. RefusedNeverTaken'
  BY DEF OnceInv, RefusedNeverTaken, Frame
<1>3. SubmitInv'
  <2>1. CASE w'.pc \notin {"send", "commit"}
    BY <2>1 DEF SubmitInv
  <2>2. CASE UNCHANGED <<w, intent, request, control>>
    <3>1. w.pc \in {"send", "commit"} => w.d \in Decisions
      BY DEF OnceInv, TypeInv, WorkerInv
    <3> QED
      BY <2>2, <3>1 DEF OnceInv, SubmitInv, Untouched, Frame, Refused
  <2> QED
    BY <2>1, <2>2 DEF Aside
<1> QED
  BY <1>1, <1>2, <1>3 DEF OnceInv

\* Saving an intent under a state that is neither "none" nor REFUSED.
LEMMA SaveFrame ==
  ASSUME TypeInv, NEW i, NEW state \in RequestStates \ {"none", "REFUSED"}, Save(i, state)
  PROVE  \A d \in Decisions : /\ request'[d] = "none" => request[d] = "none"
                              /\ request'[d] = "REFUSED" => request[d] = "REFUSED"
  BY DEF TypeInv, TypeOK, Save

-----------------------------------------------------------------------------
(* The steps.                                                               *)

\* The worker's steps after a submission.
LEMMA WorkFrame ==
  ASSUME TypeInv, Work, ~Reserve, ~SendEntry, ~CommitEntry
  PROVE  Frame /\ Aside
<1> USE SaveFrame, WorkerFields, IdleType
    DEF TypeInv, TypeOK, Frame, Aside, KeepPending, controlled, venue, bounds, tickOnly,
        RequestStates, Idle, Workers, Orders
<1>1. CASE ConfirmFill
  BY <1>1 DEF ConfirmFill
<1>2. CASE PlaceNativeStop
  BY <1>2 DEF PlaceNativeStop, journal
<1>3. CASE AddTrade
  BY <1>3 DEF AddTrade
<1>4. CASE Finish
  BY <1>4 DEF Finish
<1>5. CASE Release
  BY <1>5 DEF Release
<1>6. CASE PersistClose
  BY <1>6 DEF PersistClose
<1>7. CASE SubmitClose
  BY <1>7 DEF SubmitClose
<1>8. CASE \E a \in BOOLEAN : TickClose(a)
  BY <1>8 DEF TickClose
<1>9. CASE \E a \in BOOLEAN : TickPosition(a)
  BY <1>9 DEF TickPosition
<1>10. CASE \E a \in BOOLEAN : TickFlat(a)
  BY <1>10 DEF TickFlat
<1>11. CASE TickRemaining
  BY <1>11 DEF TickRemaining
<1>12. CASE TickRefused
  BY <1>12 DEF TickRefused
<1>13. CASE TickUnprotected
  BY <1>13 DEF TickUnprotected
<1>14. CASE TickStop
  BY <1>14 DEF TickStop
<1>15. CASE TickProtected
  BY <1>15 DEF TickProtected
<1>16. CASE ExitBook
  BY <1>16 DEF ExitBook
<1> QED
  BY <1>1, <1>2, <1>3, <1>4, <1>5, <1>6, <1>7, <1>8, <1>9, <1>10, <1>11, <1>12, <1>13,
     <1>14, <1>15, <1>16 DEF Work

\* Everything the kernel begins, the venue does, or others do.
LEMMA OtherFrame ==
  ASSUME TypeInv, Start \/ Venue \/ ReduceByHand \/ PartialExit \/ Crash
                  \/ \E state \in States : Control(state)
  PROVE  Frame /\ Aside
<1> USE SaveFrame, WorkerFields, IdleType
    DEF TypeInv, TypeOK, Frame, Aside, KeepPending, journal, controlled, venue, bounds,
        venueOnly, RequestStates, Idle, Workers, Orders
<1>1. CASE \E d \in Decisions : Authorize(d)
  BY <1>1 DEF Authorize
<1>2. CASE \E d \in Rows : ExitSend(d)
  BY ZenonT(60), <1>2 DEF ExitSend
<1>14. CASE \E d \in Rows : ExitCheck(d)
  BY <1>14 DEF ExitCheck
<1>3. CASE \E a \in BOOLEAN : TickOrder(a)
  BY ZenonT(60), <1>3 DEF TickOrder
<1>4. CASE Reconcile
  BY <1>4 DEF Reconcile
<1>5. CASE \E d \in Decisions : FillEntry(d)
  BY <1>5 DEF FillEntry
<1>6. CASE \E d \in Decisions : EndEntry(d)
  BY <1>6 DEF EndEntry
<1>7. CASE \E i \in 1..Len(closes) : FillClose(i)
  BY <1>7 DEF FillClose
<1>8. CASE \E i \in 1..Len(closes) : EndClose(i)
  BY <1>8 DEF EndClose
<1>9. CASE \E i \in 1..Len(stops) : TriggerStop(i)
  BY <1>9 DEF TriggerStop
<1>10. CASE ReduceByHand
  BY <1>10 DEF ReduceByHand
<1>11. CASE PartialExit
  BY <1>11 DEF PartialExit
<1>12. CASE Crash
  BY <1>12 DEF Crash
<1>13. CASE \E state \in States : Control(state)
  BY <1>13 DEF Control
<1> QED
  BY <1>1, <1>2, <1>3, <1>4, <1>5, <1>6, <1>7, <1>8, <1>9, <1>10, <1>11, <1>12, <1>13,
     <1>14 DEF Start, Venue

\* The first transaction: only a decision that has no request gets one.
LEMMA ReserveOnce ==
  ASSUME OnceInv, TypeInv', Reserve
  PROVE  OnceInv'
<1>1. CASE w' = Idle /\ UNCHANGED <<request, intent>>
  <2>1. Frame /\ Aside
    BY <1>1, IdleType DEF Reserve, venue, Frame, Aside
  <2> QED
    BY <2>1, FrameKeeps
<1>2. CASE /\ control = "ACTIVE" /\ Unreserved(w.d)
           /\ Save([NoIntent EXCEPT !.d = w.d], "SUBMISSION_ATTEMPTED")
           /\ w' = [w EXCEPT !.pc = "send"]
  <2>1. /\ w'.pc = "send" /\ w'.d = w.d /\ w.d \in Decisions
        /\ UNCHANGED <<sent, entry, control>>
    BY <1>2, WorkerFields
    DEF Reserve, OnceInv, TypeInv, TypeOK, WorkerInv, Workers, venue, controlled
  <2>2. intent'.d = w.d /\ request' = [request EXCEPT ![w.d] = "SUBMISSION_ATTEMPTED"]
    BY <1>2 DEF Save, NoIntent
  <2>3. Untouched(w.d)
    BY <1>2, <2>1 DEF OnceInv, SentInv, Unreserved
  <2>4. SentInv' /\ RefusedNeverTaken'
    BY <2>1, <2>2 DEF OnceInv, TypeInv, TypeOK, SentInv, RefusedNeverTaken, Untouched
  <2>5. SubmitInv'
    BY <1>2, <2>1, <2>2, <2>3 DEF OnceInv, TypeInv, TypeOK, SubmitInv, Untouched
  <2> QED
    BY <2>4, <2>5 DEF OnceInv
<1> QED
  BY <1>1, <1>2 DEF Reserve

\* The second, up to the answer of the venue.
LEMMA SendOnce ==
  ASSUME OnceInv, TypeInv', SendEntry
  PROVE  OnceInv'
<1>1. /\ w.pc = "send" /\ w.d \in Decisions /\ Untouched(w.d) /\ intent.d = w.d
      /\ request[w.d] = "SUBMISSION_ATTEMPTED" /\ UNCHANGED control
  BY DEF SendEntry, OnceInv, TypeInv, WorkerInv, SubmitInv, controlled
<1>2. CASE w' = Idle /\ UNCHANGED <<request, intent, entry, sent>>
  <2>1. Frame /\ Aside
    BY <1>2, IdleType DEF Frame, Aside
  <2> QED
    BY <2>1, FrameKeeps
<1>3. CASE /\ request' = [request EXCEPT ![w.d] = "REFUSED"]
           /\ w' = Idle /\ UNCHANGED <<entry, sent>>
  <2>1. SentInv' /\ RefusedNeverTaken'
    BY <1>1, <1>3 DEF OnceInv, TypeInv, TypeOK, SentInv, RefusedNeverTaken, Untouched
  <2>2. SubmitInv'
    BY <1>3, IdleType DEF SubmitInv
  <2> QED
    BY <2>1, <2>2 DEF OnceInv
<1>4. ASSUME NEW out \in {"acked", "ambiguous", "rejected"}, NEW taken \in BOOLEAN,
             out = "rejected" => ~taken,
             entry' = IF taken THEN [entry EXCEPT ![w.d].st = "working"] ELSE entry,
             w' = [w EXCEPT !.pc = "commit", !.out = out],
             sent' = [sent EXCEPT ![w.d] = @ + 1], UNCHANGED <<request, intent>>
      PROVE  OnceInv'
  <2>1. w'.pc = "commit" /\ w'.d = w.d /\ w'.out = out
    BY <1>4, WorkerFields DEF OnceInv, TypeInv, TypeOK, Workers
  <2>2. /\ \A d \in Decisions \ {w.d} : UNCHANGED <<sent[d], entry[d]>>
        /\ sent'[w.d] = 1
        /\ out = "rejected" => entry'[w.d].st = "none"
    BY SMTT(30), <1>1, <1>4 DEF OnceInv, TypeInv, TypeOK, Untouched
  <2>3. SentInv' /\ RefusedNeverTaken'
    BY <1>1, <1>4, <2>2 DEF OnceInv, SentInv, RefusedNeverTaken, Untouched
  <2>4. SubmitInv'
    BY <1>1, <1>4, <2>1, <2>2 DEF SubmitInv, Refused
  <2> QED
    BY <2>3, <2>4 DEF OnceInv
<1> QED
  BY <1>2, <1>3, <1>4 DEF SendEntry

\* Its commit: REFUSED only on the venue's refusal.
LEMMA CommitOnce ==
  ASSUME OnceInv, TypeInv', CommitEntry
  PROVE  OnceInv'
<1>1. w.pc = "commit" /\ w.d \in Decisions /\ UNCHANGED <<sent, entry>>
  BY DEF CommitEntry, OnceInv, TypeInv, WorkerInv, venue
<1>2. w'.pc \notin {"send", "commit"}
  BY IdleType, WorkerFields DEF CommitEntry, OnceInv, TypeInv, TypeOK, Workers
<1>3. CASE Refused(w.out)
  <2>1. entry[w.d].st = "none" /\ request' = [request EXCEPT ![w.d] = "REFUSED"]
    BY <1>1, <1>3 DEF CommitEntry, OnceInv, SubmitInv
  <2>2. SentInv' /\ RefusedNeverTaken'
    BY <1>1, <2>1 DEF OnceInv, TypeInv, TypeOK, SentInv, RefusedNeverTaken, Untouched
  <2>3. SubmitInv'
    BY <1>2 DEF SubmitInv
  <2> QED
    BY <2>2, <2>3 DEF OnceInv
<1>4. CASE ~Refused(w.out)
  <2>1. Frame /\ Aside
    BY <1>1, <1>2, <1>4, SaveFrame DEF CommitEntry, OnceInv, RequestStates, Frame, Aside
  <2> QED
    BY <2>1, FrameKeeps
<1> QED
  BY <1>3, <1>4

LEMMA OnceInit == Init => OnceInv
<1> SUFFICES ASSUME Init PROVE OnceInv
  OBVIOUS
<1>1. SentInv /\ RefusedNeverTaken /\ SubmitInv
  BY IdleType DEF Init, NoOrder, SentInv, RefusedNeverTaken, SubmitInv, Untouched
<1> QED
  BY <1>1, TypeInit DEF OnceInv

\* Every step keeps the invariant.
LEMMA OnceStep == OnceInv /\ [Next]_vars => OnceInv'
<1> SUFFICES ASSUME OnceInv, [Next]_vars PROVE OnceInv'
  OBVIOUS
<1>1. TypeInv /\ TypeInv'
  BY TypeStep DEF OnceInv
<1>2. CASE Reserve \/ SendEntry \/ CommitEntry
  BY <1>1, <1>2, ReserveOnce, SendOnce, CommitOnce
<1>3. CASE Work /\ ~Reserve /\ ~SendEntry /\ ~CommitEntry
  BY <1>1, <1>3, WorkFrame, FrameKeeps
<1>4. CASE Start \/ Venue \/ ReduceByHand \/ PartialExit \/ Crash
           \/ \E state \in States : Control(state)
  BY <1>1, <1>4, OtherFrame, FrameKeeps
<1>5. CASE UNCHANGED vars
  <2>1. Frame /\ Aside
    BY <1>5 DEF vars, journal, controlled, venue, Frame, Aside
  <2> QED
    BY <1>1, <2>1, FrameKeeps
<1> QED
  BY <1>2, <1>3, <1>4, <1>5 DEF Next

-----------------------------------------------------------------------------
(* Its theorems.                                                            *)

\* A logical action is sent to the venue at most once, whatever is lost, retried,
\* refused or restarted.
THEOREM SentOnceCorrect == Spec => []SentOnce
<1>1. OnceInv => SentOnce
  BY DEF OnceInv, SentInv, SentOnce
<1> QED
  BY <1>1, OnceInit, OnceStep, PTL DEF Spec

\* A request that is REFUSED never reached the venue, so refusing it and releasing
\* its intent forgets no exposure.
THEOREM RefusedNeverTakenCorrect == Spec => []RefusedNeverTaken
<1>1. OnceInv => RefusedNeverTaken
  BY DEF OnceInv
<1> QED
  BY <1>1, OnceInit, OnceStep, PTL DEF Spec

\* An order is sent only in ACTIVE, under the control intent Risk's permission names,
\* with its own reservation durable and no partial exit unresolved.
THEOREM EntryUnderItsPermissionCorrect == Spec => EntryUnderItsPermission
<1> DEFINE Step == \A d \in Decisions : sent'[d] # sent[d] =>
                     /\ control = "ACTIVE" /\ mark = w.mark
                     /\ intent.d = d /\ ~partial
<1>1. OnceInv /\ [Next]_vars => [Step]_vars
  <2> SUFFICES ASSUME OnceInv, Next PROVE Step
    BY DEF vars
  <2>1. CASE SendEntry
    <3>1. CASE UNCHANGED sent
      BY <3>1
    <3>2. CASE ~partial /\ Valid /\ sent' = [sent EXCEPT ![w.d] = @ + 1]
      <4>1. control = "ACTIVE" /\ intent.d = w.d
        BY <2>1 DEF SendEntry, OnceInv, SubmitInv
      <4>2. \A d \in Decisions : sent'[d] # sent[d] => d = w.d
        BY <3>2 DEF OnceInv, TypeInv, TypeOK
      <4> QED
        BY <3>2, <4>1, <4>2 DEF Valid
    <3> QED
      BY <2>1, <3>1, <3>2 DEF SendEntry
  <2>2. CASE Reserve \/ CommitEntry
    BY <2>2 DEF Reserve, CommitEntry
  <2>3. CASE ~Reserve /\ ~SendEntry /\ ~CommitEntry
    <3>1. Frame
      BY <2>3, WorkFrame, OtherFrame DEF Next, OnceInv
    <3> QED
      BY <3>1 DEF Frame
  <2> QED
    BY <2>1, <2>2, <2>3
<1>2. QED
  BY <1>1, OnceInit, OnceStep, PTL DEF Spec, EntryUnderItsPermission
=============================================================================
