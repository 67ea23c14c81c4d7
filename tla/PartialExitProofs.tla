------------------------- MODULE PartialExitProofs -------------------------
(***************************************************************************)
(* The partial exit of a trade places one order, realises every lot once and *)
(* leaves no exposure that the journal does not show, for any size, number of *)
(* callers, faults and stops.  The argument is a bound: what is held, with    *)
(* what an order or a close has sold and the journal has not seen, is never   *)
(* more than what the journal shows, or what the close that ended the trade   *)
(* let go.                                                                    *)
(***************************************************************************)
EXTENDS PartialExit, SequenceTheorems, TLAPS

OrderRecords  == [st : {"working", "ended"}, filled : 0..Lots, req : 1..Lots]
IntentRecords == [st : {"none", "SUBMISSION_ATTEMPTED", "ACKNOWLEDGED", "CONSUMED"},
                  before : 0..Lots, req : 0..Lots]
TradeRecords  == [st : {"open", "closed"}, amount : 1..Lots, tp1 : BOOLEAN]
Locals        == [pc : {"idle", "send", "refused", "unanswered", "ack", "resolve", "fills",
                        "consume", "close"},
                  oid : 0..MaxOrders, terminal : BOOLEAN, filled : 0..Lots]

\* The variables' values, but for the callers'.
Stored ==
    /\ intent \in IntentRecords /\ trade \in TradeRecords /\ orders \in Seq(OrderRecords)
    /\ position \in 0..Lots /\ booked \in 0..Lots /\ loose \in 0..Lots
    /\ halted \in BOOLEAN
    /\ stopped \in 0..MaxStops /\ faults \in 0..MaxFaults

\* The caller that has the order in its hands.
Sends(v) == w[v].pc \in {"send", "refused"}

\* The lots that the pending intent's order sold and the journal still shows.
Unconsumed ==
    IF Pending /\ Len(orders) = 1 /\ trade.amount = intent.before THEN orders[1].filled ELSE 0

\* There is one order, and it is the intent's.
OrderInv ==
    /\ Len(orders) <= 1 /\ Len(orders) <= MaxOrders
    /\ Len(orders) = 1 =>
         /\ intent.st # "none" /\ orders[1].req = intent.req
         /\ orders[1].filled <= intent.req
         /\ orders[1].st = "working" => orders[1].filled < intent.req
    /\ intent.st # "none" => intent.req \in 1..(intent.before - 1)
    /\ intent.st \in {"ACKNOWLEDGED", "CONSUMED"} => Len(orders) = 1

\* What a caller knows of the order, and what a close has sold.
WorkerInv(v) ==
    /\ Sends(v) => /\ intent.st = "SUBMISSION_ATTEMPTED" /\ Len(orders) = 0
                   /\ \A u \in Workers : Sends(u) => u = v
    /\ w[v].pc \in {"ack", "fills", "consume"} => w[v].oid = 1 /\ Len(orders) = 1
    /\ w[v].pc \in {"fills", "consume"} => w[v].filled <= orders[1].filled
    /\ w[v].pc = "consume" => w[v].filled >= 1
    /\ w[v].pc = "close" => /\ trade.st = "open"
                            /\ position + Unconsumed + w[v].filled <= trade.amount
                            /\ \A u \in Workers : w[u].pc = "close" => u = v

\* What is held and what is sold but not consumed is in the journal's size; only the
\* close that ends the trade lets lots go.
CoverInv ==
    /\ trade.st = "closed" => position <= loose /\ Tolerated(loose, Lots)
    /\ trade.st = "open" =>
         /\ loose = 0
         /\ position + Unconsumed <= trade.amount
         /\ Pending => trade.amount <= intent.before

IInv == TypeOK /\ BookedOnce /\ OrderInv /\ CoverInv /\ \A v \in Workers : WorkerInv(v)
-----------------------------------------------------------------------------
\* The values that mean nothing is there.
LEMMA Blank == /\ Idle.pc = "idle" /\ Idle.oid = 0 /\ Idle.terminal = FALSE /\ Idle.filled = 0
               /\ NoIntent.st = "none" /\ NoIntent.before = 0 /\ NoIntent.req = 0
BY DEF Idle, NoIntent

\* The type invariant, in named sets.
LEMMA TypeOKParts == TypeOK <=> Stored /\ w \in [Workers -> Locals]
BY DEF TypeOK, Stored, IntentRecords, TradeRecords, OrderRecords, Locals

\* The same, after a step.
LEMMA TypeOKNext == ASSUME Stored', w' \in [Workers -> Locals] PROVE TypeOK'
BY DEF TypeOK, Stored, IntentRecords, TradeRecords, OrderRecords, Locals

\* The types of the variables, unfolded.
LEMMA Types ==
    ASSUME TypeOK
    PROVE  /\ Lots \in Nat /\ Lots > 1 /\ MaxOrders \in Nat
           /\ MaxStops \in Nat /\ MaxFaults \in Nat
           /\ Stored /\ w \in [Workers -> Locals]
           /\ intent.before \in 0..Lots /\ intent.req \in 0..Lots
           /\ trade.amount \in 1..Lots /\ position \in 0..Lots /\ booked \in 0..Lots
           /\ Len(orders) \in Nat /\ (orders = <<>> <=> Len(orders) = 0)
           /\ \A i \in 1..Len(orders) : orders[i] \in OrderRecords
           /\ \A v \in Workers : w[v].filled \in 0..Lots
<1>1. Stored /\ w \in [Workers -> Locals]
  BY TypeOKParts
<1>2. Len(orders) \in Nat /\ (orders = <<>> <=> Len(orders) = 0)
  BY <1>1, EmptySeq DEF Stored
<1>3. \A i \in 1..Len(orders) : orders[i] \in OrderRecords
  BY <1>1 DEF Stored
<1>4. \A v \in Workers : w[v].filled \in 0..Lots
  BY <1>1 DEF Locals
<1> QED
  BY <1>1, <1>2, <1>3, <1>4, LotsAssumption, BoundsAssumption
     DEF Stored, IntentRecords, TradeRecords

\* The amounts, with nothing else of the types.
LEMMA Amounts ==
    ASSUME TypeOK
    PROVE  /\ Lots \in Nat /\ trade.amount \in Nat /\ trade.amount >= 1 /\ trade.amount <= Lots
           /\ position \in Nat /\ position <= Lots /\ booked \in Nat /\ booked <= Lots
           /\ loose \in Nat /\ Part \in Nat /\ Part >= 1
           /\ intent.before \in Nat /\ intent.req \in Nat
<1>1. trade.amount \in 1..Lots /\ position \in 0..Lots /\ booked \in 0..Lots /\ Lots \in Nat
      /\ intent.before \in 0..Lots /\ intent.req \in 0..Lots /\ loose \in 0..Lots
  BY Types DEF Stored
<1> QED  BY <1>1, PartAssumption

\* Nothing is always tolerated, and so is of a larger size what is of a smaller.
LEMMA ToleratedNone == ASSUME NEW size \in Nat PROVE Tolerated(0, size)
BY PartAssumption DEF Tolerated

LEMMA ToleratedMore ==
    ASSUME NEW lots \in Nat, NEW size \in Nat, NEW more \in Nat, size <= more,
           Tolerated(lots, size)
    PROVE  Tolerated(lots, more)
<1> DEFINE n == lots * Part
<1>1. n \in Nat /\ n <= size
  BY PartAssumption DEF Tolerated
<1> HIDE DEF n
<1>2. n <= more
  BY <1>1
<1> QED  BY <1>2 DEF n, Tolerated

\* A step counts at most one fault, and no firing of the stop.
LEMMA FaultBounds ==
    ASSUME TypeOK, Fault \/ UNCHANGED bounds
    PROVE  stopped' = stopped /\ halted' = halted /\ faults' \in 0..MaxFaults
<1>1. faults \in 0..MaxFaults /\ MaxFaults \in Nat
  BY Types DEF Stored
<1> QED  BY <1>1 DEF Fault, bounds

\* One caller moves, the others stay where they are.
LEMMA Moves ==
    ASSUME TypeOK, NEW v \in Workers, NEW l \in Locals, w' = [w EXCEPT ![v] = l]
    PROVE  /\ w' \in [Workers -> Locals]
           /\ w'[v] = l
           /\ \A u \in Workers : u # v => w'[u] = w[u]
BY TypeOKParts

\* A step that only moves callers, to places where they know nothing new of the order.
LEMMA QuietStep ==
    ASSUME IInv, UNCHANGED <<intent, trade, orders, position, booked, loose>>,
           TypeOK', \A v \in Workers : WorkerInv(v)'
    PROVE  IInv'
BY DEF IInv, BookedOnce, OpenAmount, OrderInv, CoverInv, Unconsumed, Pending

\* An open trade with no intent.
LEMMA InitInv == Init => IInv
<1> SUFFICES ASSUME Init PROVE IInv
  OBVIOUS
<1>1. TypeOK
  <2>1. w \in [Workers -> Locals]
    BY LotsAssumption, BoundsAssumption DEF Init, Idle, Locals
  <2>2. intent \in IntentRecords /\ trade \in TradeRecords /\ orders \in Seq(OrderRecords)
    BY LotsAssumption DEF Init, NoIntent, IntentRecords, TradeRecords
  <2>3. Stored
    <3>1. /\ position = Lots /\ booked = 0 /\ loose = 0 /\ halted = FALSE
          /\ stopped = 0 /\ faults = 0
      BY DEF Init
    <3>2. Lots \in 0..Lots /\ 0 \in 0..Lots /\ 0 \in 0..MaxStops /\ 0 \in 0..MaxFaults
      BY LotsAssumption, BoundsAssumption
    <3>3. halted \in BOOLEAN
      BY <3>1
    <3> QED  BY <2>2, <3>1, <3>2, <3>3 DEF Stored
  <2> QED  BY <2>1, <2>3, TypeOKParts
<1>2. BookedOnce /\ OrderInv /\ CoverInv
  BY LotsAssumption, BoundsAssumption DEF Init, BookedOnce, OpenAmount, OrderInv, CoverInv,
     Unconsumed, Pending, NoIntent
<1>3. \A v \in Workers : WorkerInv(v)
  BY DEF Init, WorkerInv, Sends, Idle
<1> QED  BY <1>1, <1>2, <1>3 DEF IInv

\* Arithmetic and sequences that several steps need.
LEMMA ZeroOrOne == ASSUME NEW n \in Nat, n <= 1 PROVE n = 0 \/ n = 1
OBVIOUS

\* What is sold leaves what is held; nothing else of the bound moves.
LEMMA SoldWithin ==
    ASSUME NEW before \in Nat, NEW after \in Nat, NEW sold \in Nat, NEW unseen \in Nat,
           NEW shown \in Nat, after + sold = before, before + unseen <= shown
    PROVE  after + unseen <= shown /\ \A f \in 0..sold : after + unseen + f <= shown
OBVIOUS

\* The sum of two amounts is one.
LEMMA NatSum == ASSUME NEW a \in Nat, NEW b \in Nat PROVE a + b \in Nat
OBVIOUS

\* At most is transitive.
LEMMA AtMost ==
    ASSUME NEW a \in Nat, NEW b \in Nat, NEW c \in Nat, a <= b, b <= c PROVE a <= c
OBVIOUS

\* A bound stays when what it bounds shrinks.
LEMMA StillWithin ==
    ASSUME NEW before \in Nat, NEW after \in Nat, NEW f \in Nat, NEW shown \in Nat,
           after <= before, before + f <= shown
    PROVE  after + f <= shown
OBVIOUS

\* A part of an intent's size leaves something of the size before.
LEMMA Leaves ==
    ASSUME NEW b \in Nat, NEW r \in Nat, NEW o \in Nat, NEW f \in Nat,
           b <= Lots, r <= b - 1, o <= r, f <= o, f >= 1, Lots \in Nat
    PROVE  b - f \in 1..Lots /\ b - f # b /\ b - f \in Nat
OBVIOUS

\* What covers an order's fills covers a part of them.
LEMMA CoversPart ==
    ASSUME NEW b \in Nat, NEW o \in Nat, NEW f \in Nat, NEW h \in Nat, f <= o, h + o <= b
    PROVE  h <= b - f /\ \A c \in Nat : h + o + c <= b => h + c <= b - f
OBVIOUS

\* The one order of a sequence is replaced.
LEMMA ReplaceFirst ==
    ASSUME NEW S, NEW s \in Seq(S), Len(s) = 1, NEW e \in S
    PROVE  /\ [s EXCEPT ![1] = e] \in Seq(S)
           /\ Len([s EXCEPT ![1] = e]) = 1
           /\ [s EXCEPT ![1] = e][1] = e
<1>1. 1 \in 1..Len(s)
  OBVIOUS
<1> QED  BY <1>1, ExceptSeq

\* A caller that is not inside.
LEMMA IdleLocals == Idle \in Locals
BY BoundsAssumption, LotsAssumption DEF Idle, Locals

\* One caller moves, and nothing else; where it goes, it knows what it should.
LEMMA CallerStep ==
    ASSUME IInv, NEW v \in Workers, NEW l \in Locals, w' = [w EXCEPT ![v] = l],
           UNCHANGED <<intent, trade, booked, loose, orders, position>>, halted' = halted,
           stopped' \in 0..MaxStops, faults' \in 0..MaxFaults,
           l.pc \in {"idle", "resolve", "fills", "consume"},
           l.pc \in {"fills", "consume"} =>
               l.oid = 1 /\ Len(orders) = 1 /\ l.filled <= orders[1].filled,
           l.pc = "consume" => l.filled >= 1
    PROVE  IInv'
<1> USE DEF IInv
<1>1. /\ w' \in [Workers -> Locals] /\ w'[v] = l
      /\ \A u \in Workers : u # v => w'[u] = w[u]
  BY Moves
<1>2. TypeOK'
  BY <1>1, Types, TypeOKNext DEF Stored
<1>3. ASSUME NEW u \in Workers PROVE WorkerInv(u)'
  BY <1>1 DEF WorkerInv, Sends, Unconsumed, Pending
<1> QED  BY <1>2, <1>3, QuietStep

\* A new intent has no order yet.
LEMMA ReserveStep ==
    ASSUME IInv, NEW v \in Workers, Reserve(v)
    PROVE  IInv'
<1> DEFINE l == [Idle EXCEPT !.pc = "send"]
<1> USE DEF IInv
<1>1. PICK req \in 1..(trade.amount - 1) :
        intent' = [st |-> "SUBMISSION_ATTEMPTED", before |-> trade.amount, req |-> req]
  BY DEF Reserve
<1>2. /\ intent.st = "none" /\ trade.st = "open" /\ trade' = trade /\ booked' = booked
      /\ loose' = loose /\ orders' = orders /\ position' = position /\ UNCHANGED bounds
      /\ w' = [w EXCEPT ![v] = l]
  BY Blank DEF Reserve, To, venue
<1>3. Len(orders) = 0 /\ ~Pending /\ Unconsumed = 0
  <2>1. Len(orders) \in Nat /\ Len(orders) <= 1 /\ Len(orders) # 1
    BY <1>2, Types DEF OrderInv
  <2>2. Len(orders) = 0
    BY <2>1, ZeroOrOne
  <2> QED  BY <1>2, <2>2 DEF Pending, Unconsumed
<1>4. l \in Locals /\ l.pc = "send"
  BY IdleLocals, Blank DEF Locals
<1>5. /\ w' \in [Workers -> Locals] /\ w'[v] = l
      /\ \A u \in Workers : u # v => w'[u] = w[u]
  BY <1>2, <1>4, Moves
<1>6. TypeOK'
  <2>1. intent' \in IntentRecords
    BY <1>1, Types DEF IntentRecords
  <2> QED  BY <1>2, <1>5, <2>1, Types, TypeOKNext DEF Stored, bounds
<1>7. Unconsumed' = 0
  BY <1>2, <1>3 DEF Unconsumed
<1>8. BookedOnce' /\ OrderInv' /\ CoverInv'
  BY <1>1, <1>2, <1>3, <1>7, Types DEF BookedOnce, OpenAmount, OrderInv, CoverInv
<1>9. ASSUME NEW u \in Workers PROVE WorkerInv(u)'
  <2>1. \A x \in Workers : ~Sends(x)
    BY <1>2 DEF WorkerInv
  <2> QED  BY <1>1, <1>2, <1>3, <1>4, <1>5, <1>7, <2>1, Types DEF WorkerInv, Sends
<1> HIDE DEF l
<1> QED  BY <1>6, <1>8, <1>9

\* Whoever finds an intent only reads.
LEMMA ResumeStep ==
    ASSUME IInv, NEW v \in Workers, Resume(v)
    PROVE  IInv'
<1> DEFINE l == [Idle EXCEPT !.pc = "resolve"]
<1> USE DEF IInv
<1>1. /\ UNCHANGED <<intent, trade, orders, position, booked, loose, halted>>
      /\ stopped' = stopped /\ faults' = faults /\ w' = [w EXCEPT ![v] = l]
  BY DEF Resume, durable, venue, bounds, To
<1>2. l \in Locals /\ l.pc = "resolve"
  BY IdleLocals, Blank DEF Locals
<1> HIDE DEF l
<1> QED  BY <1>1, <1>2, Types, CallerStep DEF Stored

\* The venue may take the order or refuse it; whatever is answered, the row stays.
LEMMA SendPartialStep ==
    ASSUME IInv, NEW v \in Workers, SendPartial(v)
    PROVE  IInv'
<1> USE DEF IInv
<1>1. /\ w[v].pc = "send" /\ UNCHANGED <<intent, trade, booked, loose, halted, position>>
      /\ stopped' = stopped /\ faults' \in 0..MaxFaults
  BY FaultBounds DEF SendPartial, durable
<1>2. intent.st = "SUBMISSION_ATTEMPTED" /\ Len(orders) = 0 /\ Unconsumed = 0
  BY <1>1 DEF WorkerInv, Sends, Unconsumed
<1>3. \A u \in Workers : Sends(u) => u = v
  BY <1>1 DEF WorkerInv, Sends
<1>4. ASSUME Len(orders) < MaxOrders, orders' = Append(orders, NewOrder),
             NEW l \in Locals, w' = [w EXCEPT ![v] = l],
             l.pc \in {"unanswered", "ack"}, l.pc = "ack" => l.oid = Len(orders')
      PROVE  IInv'
  <2>1. NewOrder \in OrderRecords /\ NewOrder.st = "working" /\ NewOrder.filled = 0
        /\ NewOrder.req = intent.req
    BY <1>2, Types DEF NewOrder, OrderRecords, OrderInv
  <2>2. orders' \in Seq(OrderRecords) /\ Len(orders') = 1 /\ orders'[1] = NewOrder
    BY <1>2, <1>4, <2>1, Types DEF Stored
  <2>3. /\ w' \in [Workers -> Locals] /\ w'[v] = l
        /\ \A u \in Workers : u # v => w'[u] = w[u]
    BY <1>4, Moves
  <2>4. TypeOK'
    BY <1>1, <2>2, <2>3, Types, TypeOKNext DEF Stored
  <2>5. Unconsumed' = 0
    BY <2>1, <2>2 DEF Unconsumed
  <2>6. BookedOnce' /\ OrderInv' /\ CoverInv'
    BY <1>1, <1>2, <1>4, <2>1, <2>2, <2>5, Types
       DEF BookedOnce, OpenAmount, OrderInv, CoverInv, Pending
  <2>7. ASSUME NEW u \in Workers PROVE WorkerInv(u)'
    BY <1>1, <1>2, <1>3, <1>4, <2>1, <2>2, <2>3, <2>5, Types DEF WorkerInv, Sends
  <2> QED  BY <2>4, <2>6, <2>7
<1>5. ASSUME orders' = orders, NEW l \in Locals, w' = [w EXCEPT ![v] = l],
             l.pc \in {"refused", "unanswered"}
      PROVE  IInv'
  <2>1. /\ w' \in [Workers -> Locals] /\ w'[v] = l
        /\ \A u \in Workers : u # v => w'[u] = w[u]
    BY <1>5, Moves
  <2>2. TypeOK'
    BY <1>1, <1>5, <2>1, Types, TypeOKNext DEF Stored
  <2>3. ASSUME NEW u \in Workers PROVE WorkerInv(u)'
    BY <1>1, <1>2, <1>3, <1>5, <2>1 DEF WorkerInv, Sends, Unconsumed, Pending
  <2> QED  BY <1>1, <1>5, <2>2, <2>3, QuietStep
<1>6. CASE Len(orders) < MaxOrders /\ orders' = Append(orders, NewOrder)
  <2>1. Len(orders') \in 0..MaxOrders
    BY <1>2, <1>6, Types DEF Stored
  <2>2. /\ [w[v] EXCEPT !.pc = "ack", !.oid = Len(orders')] \in Locals
        /\ [w[v] EXCEPT !.pc = "unanswered"] \in Locals
    BY <2>1, Types DEF Locals
  <2>3. /\ [w[v] EXCEPT !.pc = "ack", !.oid = Len(orders')].pc = "ack"
        /\ [w[v] EXCEPT !.pc = "ack", !.oid = Len(orders')].oid = Len(orders')
        /\ [w[v] EXCEPT !.pc = "unanswered"].pc = "unanswered"
    BY Types DEF Locals
  <2>4. \/ w' = [w EXCEPT ![v] = [w[v] EXCEPT !.pc = "ack", !.oid = Len(orders')]]
        \/ w' = [w EXCEPT ![v] = [w[v] EXCEPT !.pc = "unanswered"]]
        \/ orders' = orders
    BY DEF SendPartial, To
  <2>5. orders' # orders
    BY <1>2, <1>6, Types DEF Stored
  <2>6. CASE w' = [w EXCEPT ![v] = [w[v] EXCEPT !.pc = "ack", !.oid = Len(orders')]]
    BY <1>4, <1>6, <2>2, <2>3, <2>6
  <2>7. CASE w' = [w EXCEPT ![v] = [w[v] EXCEPT !.pc = "unanswered"]]
    <3> DEFINE l == [w[v] EXCEPT !.pc = "unanswered"]
    <3>1. w' = [w EXCEPT ![v] = l] /\ l \in Locals /\ l.pc = "unanswered"
      BY <2>2, <2>3, <2>7
    <3> HIDE DEF l
    <3> QED  BY <1>4, <1>6, <3>1
  <2> QED  BY <2>4, <2>5, <2>6, <2>7
<1>7. CASE orders' = orders
  <2>1. \/ w' = [w EXCEPT ![v] = [w[v] EXCEPT !.pc = "refused"]]
        \/ w' = [w EXCEPT ![v] = [w[v] EXCEPT !.pc = "unanswered"]]
        \/ orders' = Append(orders, NewOrder)
    BY DEF SendPartial, To
  <2>2. orders' # Append(orders, NewOrder)
    BY <1>2, <1>7, Types DEF Stored
  <2>3. /\ [w[v] EXCEPT !.pc = "refused"] \in Locals
        /\ [w[v] EXCEPT !.pc = "unanswered"] \in Locals
        /\ [w[v] EXCEPT !.pc = "refused"].pc = "refused"
        /\ [w[v] EXCEPT !.pc = "unanswered"].pc = "unanswered"
    BY Types DEF Locals
  <2> QED  BY <1>5, <1>7, <2>1, <2>2, <2>3
<1> QED  BY <1>6, <1>7 DEF SendPartial

\* A refused intent has no order.
LEMMA SendFailedStep ==
    ASSUME IInv, NEW v \in Workers, SendFailed(v)
    PROVE  IInv'
<1> USE DEF IInv
<1>1. /\ UNCHANGED <<trade, booked, loose, halted, orders, position>>
      /\ stopped' = stopped /\ faults' = faults
      /\ w' = [w EXCEPT ![v] = Idle]
      /\ intent' = IF Refused(w[v].pc) THEN NoIntent ELSE intent
  BY DEF SendFailed, venue, bounds, To
<1>2. /\ w' \in [Workers -> Locals] /\ w'[v] = Idle
      /\ \A u \in Workers : u # v => w'[u] = w[u]
  BY <1>1, IdleLocals, Moves
<1>3. CASE ~Refused(w[v].pc)
  BY <1>1, <1>3, IdleLocals, Blank, Types, CallerStep DEF Stored
<1>4. CASE Refused(w[v].pc)
  <2>1. /\ Len(orders) = 0 /\ intent' = NoIntent
        /\ \A u \in Workers : Sends(u) => u = v
    BY <1>1, <1>4 DEF Refused, WorkerInv, Sends
  <2>2. Unconsumed = 0 /\ Unconsumed' = 0 /\ ~Pending'
    BY <1>1, <2>1, Blank DEF Unconsumed, Pending
  <2>3. TypeOK'
    <3>1. NoIntent \in IntentRecords
      BY Types DEF NoIntent, IntentRecords
    <3> QED  BY <1>1, <1>2, <2>1, <3>1, Types, TypeOKNext DEF Stored, bounds
  <2>4. BookedOnce' /\ OrderInv' /\ CoverInv'
    BY <1>1, <2>1, <2>2, Blank DEF BookedOnce, OpenAmount, OrderInv, CoverInv
  <2>5. ASSUME NEW u \in Workers PROVE WorkerInv(u)'
    BY <1>1, <1>2, <2>1, <2>2, Blank DEF WorkerInv, Sends
  <2> QED  BY <2>3, <2>4, <2>5
<1> QED  BY <1>3, <1>4

\* An acknowledged intent stays pending; the answer shows no more than was filled.
LEMMA AcknowledgeStep ==
    ASSUME IInv, NEW v \in Workers, Acknowledge(v)
    PROVE  IInv'
<1> USE DEF IInv
<1>1. /\ w[v].pc = "ack" /\ UNCHANGED <<trade, booked, loose, halted, orders, position>>
      /\ stopped' = stopped /\ faults' = faults
      /\ intent' = IF Pending THEN [intent EXCEPT !.st = "ACKNOWLEDGED"] ELSE intent
  BY DEF Acknowledge, venue, bounds
<1>2. w[v].oid = 1 /\ Len(orders) = 1 /\ orders[1] \in OrderRecords
  BY <1>1, Types DEF WorkerInv
<1>3. PICK seen \in {NewOrder, orders[1]} :
        w' = [w EXCEPT ![v] = [w[v] EXCEPT !.pc = "fills", !.terminal = Terminal(seen),
                                          !.filled = seen.filled]]
  BY <1>2 DEF Acknowledge, To
<1>4. seen.filled \in 0..Lots /\ seen.filled <= orders[1].filled
  BY <1>2, Types DEF NewOrder, OrderRecords
<1> DEFINE l == [w[v] EXCEPT !.pc = "fills", !.terminal = Terminal(seen), !.filled = seen.filled]
<1>5. l \in Locals /\ l.pc = "fills" /\ l.filled = seen.filled /\ l.oid = 1
  BY <1>2, <1>4, Types DEF Locals, Terminal
<1>6. /\ w' \in [Workers -> Locals] /\ w'[v] = l
      /\ \A u \in Workers : u # v => w'[u] = w[u]
  BY <1>3, <1>5, Moves
<1> HIDE DEF l
<1>7. /\ intent'.before = intent.before /\ intent'.req = intent.req
      /\ Pending' <=> Pending
      /\ intent'.st = "none" <=> intent.st = "none"
      /\ intent' \in IntentRecords
  BY <1>1, Types DEF Stored, IntentRecords, Pending
<1>8. TypeOK'
  BY <1>1, <1>6, <1>7, Types, TypeOKNext DEF Stored, bounds
<1>9. Unconsumed' = Unconsumed
  BY <1>1, <1>7 DEF Unconsumed
<1>10. BookedOnce' /\ OrderInv' /\ CoverInv'
  BY <1>1, <1>2, <1>7, <1>9 DEF BookedOnce, OpenAmount, OrderInv, CoverInv
<1>11. ASSUME NEW u \in Workers PROVE WorkerInv(u)'
  <2>1. \A x \in Workers : ~Sends(x)
    BY <1>2 DEF WorkerInv
  <2> QED  BY <1>1, <1>2, <1>4, <1>5, <1>6, <1>9, <2>1 DEF WorkerInv, Sends
<1> QED  BY <1>8, <1>10, <1>11

\* The order that the intent names, and what it filled.
LEMMA ResolveStep ==
    ASSUME IInv, NEW v \in Workers, Resolve(v)
    PROVE  IInv'
<1> USE DEF IInv
<1>1. /\ UNCHANGED <<intent, trade, booked, loose, halted, orders, position>>
      /\ stopped' = stopped /\ faults' \in 0..MaxFaults
  BY FaultBounds DEF Resolve, durable, venue
<1>2. CASE w' = [w EXCEPT ![v] = Idle]
  BY <1>1, <1>2, IdleLocals, Blank, Types, CallerStep DEF Stored
<1>3. CASE Resolved /\ w' = [w EXCEPT ![v] = [w[v] EXCEPT !.pc = "fills", !.oid = Len(orders),
                                !.terminal = TRUE, !.filled = Last(orders).filled]]
  <2>1. Len(orders) = 1 /\ Last(orders) = orders[1] /\ orders[1].filled \in 0..Lots
        /\ 1 \in 0..MaxOrders
    <3>1. Len(orders) \in Nat /\ Len(orders) # 0 /\ Len(orders) <= 1
      BY <1>3, Types DEF Resolved, OrderInv
    <3>2. Len(orders) = 1
      BY <3>1, ZeroOrOne
    <3>3. Len(orders) <= MaxOrders /\ orders[1] \in OrderRecords
      BY <3>2, Types DEF OrderInv
    <3> QED  BY <3>2, <3>3, Types DEF Last, OrderRecords
  <2> DEFINE l == [w[v] EXCEPT !.pc = "fills", !.oid = Len(orders),
                                !.terminal = TRUE, !.filled = Last(orders).filled]
  <2>2. l \in Locals /\ l.pc = "fills" /\ l.oid = 1 /\ l.filled = orders[1].filled
    <3>1. w[v] \in Locals
      BY TypeOKParts
    <3> QED  BY <2>1, <3>1 DEF Locals
  <2>3. w' = [w EXCEPT ![v] = l]
    BY <1>3
  <2> HIDE DEF l
  <2>4. l.filled <= orders[1].filled
    BY <2>1, <2>2
  <2> QED  BY <1>1, <2>1, <2>2, <2>3, <2>4, Types, CallerStep DEF Stored
<1> QED  BY <1>2, <1>3 DEF Resolve, To

\* What is taken for executed is not more than the order filled.
LEMMA ReadFillsStep ==
    ASSUME IInv, NEW v \in Workers, ReadFills(v)
    PROVE  IInv'
<1> USE DEF IInv
<1>1. /\ w[v].pc = "fills" /\ UNCHANGED <<intent, trade, booked, loose, halted, orders, position>>
      /\ stopped' = stopped /\ faults' \in 0..MaxFaults
  BY FaultBounds DEF ReadFills, durable, venue
<1>2. w[v].oid = 1 /\ Len(orders) = 1 /\ w[v].filled <= orders[1].filled
      /\ orders[1].filled \in 0..Lots
  <2>1. w[v].oid = 1 /\ Len(orders) = 1 /\ w[v].filled <= orders[1].filled
    BY DEF ReadFills, WorkerInv
  <2>2. orders[1] \in OrderRecords
    BY <2>1, Types
  <2> QED  BY <2>1, <2>2 DEF OrderRecords
<1>3. PICK shown \in 0..orders[1].filled :
        LET filled == Executed(IF shown > 0 THEN shown ELSE w[v].filled) IN
        w' = [w EXCEPT ![v] =
                IF filled > 0 /\ (filled >= intent.req \/ w[v].terminal)
                THEN [w[v] EXCEPT !.pc = "consume", !.filled = filled]
                ELSE Idle]
  BY <1>2 DEF ReadFills, To
<1> DEFINE n == IF shown > 0 THEN shown ELSE w[v].filled
<1>4. n \in 0..Lots /\ n <= orders[1].filled
  BY <1>2, Types
<1>5. CASE w' = [w EXCEPT ![v] = Idle]
  BY <1>1, <1>5, IdleLocals, Blank, Types, CallerStep DEF Stored
<1>6. CASE n > 0 /\ w' = [w EXCEPT ![v] = [w[v] EXCEPT !.pc = "consume", !.filled = n]]
  <2> DEFINE l == [w[v] EXCEPT !.pc = "consume", !.filled = n]
  <2> HIDE DEF n
  <2>1. l \in Locals /\ l.pc = "consume" /\ l.oid = 1 /\ l.filled = n
    BY <1>2, <1>4, Types DEF Locals
  <2>2. w' = [w EXCEPT ![v] = l]
    BY <1>6
  <2> HIDE DEF l
  <2>3. l.filled <= orders[1].filled /\ l.filled >= 1
    BY <1>4, <1>6, <2>1
  <2> QED  BY <1>1, <1>2, <2>1, <2>2, <2>3, Types, CallerStep DEF Stored
<1> QED  BY <1>3, <1>5, <1>6 DEF Executed

\* The reduction is booked with the intent, or the exit check has booked it.
LEMMA ConsumeStep ==
    ASSUME IInv, NEW v \in Workers, Consume(v)
    PROVE  IInv'
<1> DEFINE left == intent.before - w[v].filled
<1> USE DEF IInv
<1>1. /\ w[v].pc = "consume" /\ UNCHANGED <<orders, position>>
      /\ stopped' = stopped /\ halted' = halted /\ faults' = faults
      /\ w' = [w EXCEPT ![v] = Idle]
  BY DEF Consume, venue, bounds, To
<1>2. /\ w[v].filled \in 1..orders[1].filled /\ Len(orders) = 1
      /\ orders[1].filled <= intent.req /\ intent.req \in 1..(intent.before - 1)
      /\ orders[1].filled \in 0..Lots
  BY <1>1, Types DEF WorkerInv, OrderInv, OrderRecords
<1>3. /\ w' \in [Workers -> Locals] /\ w'[v] = Idle
      /\ \A u \in Workers : u # v => w'[u] = w[u]
  BY <1>1, IdleLocals, Moves
<1>4. CASE UNCHANGED durable
  BY <1>1, <1>4, IdleLocals, Blank, Types, CallerStep DEF durable, Stored
<1>5. CASE /\ Pending /\ trade.st = "open" /\ trade.amount \in {intent.before, left}
           /\ Align(left, IF Unbooked(left) THEN w[v].filled ELSE 0, TRUE)
           /\ intent' = [intent EXCEPT !.st = "CONSUMED"]
  <2>0. /\ intent.before \in Nat /\ intent.req \in Nat /\ orders[1].filled \in Nat
        /\ w[v].filled \in Nat /\ position \in Nat /\ Lots \in Nat
        /\ \A u \in Workers : w[u].filled \in Nat
    <3>1. \A u \in Workers : w[u].filled \in 0..Lots
      BY Types
    <3> QED  BY <1>2, <3>1, Amounts
  <2>a. /\ intent.before <= Lots /\ intent.req <= intent.before - 1
        /\ orders[1].filled <= intent.req
        /\ w[v].filled <= orders[1].filled /\ w[v].filled >= 1
    BY <1>2, <2>0, Types
  <2>1. left \in 1..Lots /\ left # intent.before
    BY <2>0, <2>a, Leaves
  <2>2. /\ trade' \in TradeRecords /\ trade'.st = "open" /\ trade'.amount = left
        /\ booked' = booked + (IF trade.amount # left THEN w[v].filled ELSE 0)
        /\ loose' = loose
    BY <1>5, <2>1, Types DEF Align, Unbooked, Stored, TradeRecords
  <2>3. /\ intent' \in IntentRecords /\ intent'.st = "CONSUMED"
        /\ intent'.before = intent.before /\ intent'.req = intent.req
    BY <1>5, Types DEF Stored, IntentRecords
  <2>l. loose = 0
    BY <1>5 DEF CoverInv
  <2>4. booked + trade.amount = Lots /\ booked' + left = Lots /\ booked' \in 0..Lots
    <3>1. booked + trade.amount = Lots
      BY <1>5, <2>l, Amounts DEF BookedOnce, OpenAmount
    <3>2. CASE trade.amount = left
      BY <2>2, <3>1, <3>2, Types
    <3>3. CASE trade.amount = intent.before
      <4>1. booked' = booked + w[v].filled
        BY <2>1, <2>2, <3>3
      <4>2. w[v].filled \in Nat /\ intent.before \in Nat /\ booked \in Nat /\ Lots \in Nat
        BY Types
      <4> QED  BY <2>1, <3>1, <3>3, <4>1, <4>2
    <3> QED  BY <1>5, <3>1, <3>2, <3>3
  <2>5. ~Pending' /\ Unconsumed' = 0
    BY <2>3 DEF Pending, Unconsumed
  <2>6. TypeOK'
    BY <1>1, <1>3, <2>2, <2>3, <2>4, Types, TypeOKNext DEF Stored, bounds
  <2>7. BookedOnce' /\ OrderInv'
    BY <1>1, <1>2, <2>2, <2>3, <2>4, <2>l, <2>1, Amounts DEF BookedOnce, OpenAmount, OrderInv
  <2>8. position <= left
        /\ \A u \in Workers : w[u].pc = "close" => position + w[u].filled <= left
    <3>1. CASE trade.amount = left
      <4>1. Unconsumed = 0
        BY <2>1, <3>1 DEF Unconsumed
      <4> QED  BY <1>5, <3>1, <4>1, Types DEF CoverInv, WorkerInv
    <3>2. CASE trade.amount = intent.before
      <4>1. Unconsumed = orders[1].filled
        BY <1>2, <1>5, <3>2 DEF Unconsumed
      <4>2. position + orders[1].filled <= intent.before
        BY <1>5, <3>2, <4>1 DEF CoverInv
      <4>3. ASSUME NEW u \in Workers, w[u].pc = "close"
            PROVE  position + orders[1].filled + w[u].filled <= intent.before
        BY <3>2, <4>1, <4>3 DEF WorkerInv
      <4> QED  BY <2>0, <2>a, <4>2, <4>3, CoversPart
    <3> QED  BY <1>5, <3>1, <3>2
  <2>9. CoverInv'
    BY <1>1, <2>2, <2>5, <2>8, <2>l, Types DEF CoverInv
  <2>10. ASSUME NEW u \in Workers PROVE WorkerInv(u)'
    <3>1. \A x \in Workers : ~Sends(x)
      BY <1>2 DEF WorkerInv
    <3> HIDE DEF left
    <3>2. CASE u = v
      BY <1>3, <3>2, Blank DEF WorkerInv, Sends
    <3>3. CASE u # v
      <4>1. w'[u] = w[u] /\ ~Sends(u)' /\ UNCHANGED orders
        BY <1>1, <1>3, <3>1, <3>3 DEF Sends
      <4>2. ASSUME w[u].pc = "close"
            PROVE  /\ trade'.st = "open" /\ position' + Unconsumed' + w'[u].filled <= trade'.amount
                   /\ \A x \in Workers : w'[x].pc = "close" => x = u
        <5>1. position' + Unconsumed' + w'[u].filled = position + w[u].filled
          BY <1>1, <2>0, <2>5, <4>1
        <5>2. \A x \in Workers : w[x].pc = "close" => x = u
          BY <4>2 DEF WorkerInv
        <5>3. \A x \in Workers : w'[x].pc = "close" => x = u
          BY <1>3, <5>2, Blank
        <5> QED  BY <2>2, <2>8, <4>2, <5>1, <5>3
      <4>3. WorkerInv(u)
        OBVIOUS
      <4> QED  BY <4>1, <4>2, <4>3 DEF WorkerInv
    <3> QED  BY <3>2, <3>3
  <2> QED  BY <2>6, <2>7, <2>9, <2>10
<1> QED  BY <1>4, <1>5 DEF Consume

-----------------------------------------------------------------------------
(* The other ways the trade is reduced.                                     *)

\* What a close sells is held by its caller until it is booked.
LEMMA SendCloseStep ==
    ASSUME IInv, NEW v \in Workers, SendClose(v)
    PROVE  IInv'
<1> USE DEF IInv
<1>1. /\ UNCHANGED <<intent, trade, booked, loose, orders>> /\ trade.st = "open"
      /\ \A u \in Workers : w[u].pc = "idle"
  BY DEF SendClose, LockFree, durable
<1>2. PICK k \in 0..Least(position, trade.amount) :
        /\ position' = position - k
        /\ \E shown \in 0..k :
             \/ To(v, [Idle EXCEPT !.pc = "close", !.filled = shown]) /\ UNCHANGED bounds
             \/ To(v, Idle) /\ Fault
  BY DEF SendClose
<1>3. k \in 0..position /\ k <= Lots
  BY <1>2, Types DEF Least
<1>4. stopped' = stopped /\ halted' = halted /\ faults' \in 0..MaxFaults
  BY <1>2, FaultBounds
<1>5. PICK l \in Locals : /\ w' = [w EXCEPT ![v] = l]
                          /\ l.pc \in {"idle", "close"}
                          /\ l.pc = "close" => l.filled \in 0..k
  <2>1. PICK shown \in 0..k : \/ To(v, [Idle EXCEPT !.pc = "close", !.filled = shown])
                              \/ To(v, Idle)
    BY <1>2
  <2> DEFINE l == [Idle EXCEPT !.pc = "close", !.filled = shown]
  <2>2. shown \in 0..Lots
    BY <1>3, Types
  <2>3. l \in Locals /\ l.pc = "close" /\ l.filled \in 0..k
    BY <2>2, IdleLocals DEF Locals
  <2>4. CASE w' = [w EXCEPT ![v] = l]
    <3> HIDE DEF l
    <3> QED  BY <2>3, <2>4
  <2>5. CASE w' = [w EXCEPT ![v] = Idle]
    <3> WITNESS Idle \in Locals
    <3> QED  BY <2>5, Blank
  <2> QED  BY <2>1, <2>4, <2>5 DEF To
<1>6. /\ w' \in [Workers -> Locals] /\ w'[v] = l
      /\ \A u \in Workers : u # v => w'[u] = w[u]
  BY <1>5, Moves
<1>7. Unconsumed' = Unconsumed /\ Unconsumed \in 0..Lots
  BY <1>1, Types DEF Unconsumed, Pending, OrderRecords
<1>8. position' \in 0..Lots /\ position' + k = position
  BY <1>2, <1>3, Amounts
<1>9. TypeOK'
  BY <1>1, <1>4, <1>6, <1>8, Types, TypeOKNext DEF Stored
<1>a. position \in Nat /\ position' \in Nat /\ k \in Nat /\ Unconsumed \in Nat
      /\ trade.amount \in Nat
  BY <1>3, <1>7, <1>8, Types
<1>b. position + Unconsumed <= trade.amount
  BY <1>1 DEF CoverInv
<1>c. position' + Unconsumed <= trade.amount
  BY <1>8, <1>a, <1>b, SoldWithin
<1>10. BookedOnce' /\ OrderInv' /\ CoverInv'
  BY <1>1, <1>7, <1>c DEF BookedOnce, OpenAmount, OrderInv, CoverInv, Pending
<1>11. ASSUME NEW u \in Workers PROVE WorkerInv(u)'
  <2>1. ASSUME l.filled \in 0..k PROVE position' + Unconsumed + l.filled <= trade.amount
    BY <1>8, <1>a, <1>b, <2>1, SoldWithin
  <2>2. l.pc = "close" => position' + Unconsumed' + l.filled <= trade.amount
    BY <1>5, <1>7, <2>1
  <2> QED  BY <1>1, <1>5, <1>6, <2>2 DEF WorkerInv, Sends
<1> QED  BY <1>9, <1>10, <1>11

\* What a close sold leaves the journal, or ends the trade when nothing is left.
LEMMA BookCloseStep ==
    ASSUME IInv, NEW v \in Workers, BookClose(v)
    PROVE  IInv'
<1> DEFINE left == trade.amount - w[v].filled
<1> USE DEF IInv
<1>1. /\ w[v].pc = "close" /\ UNCHANGED <<intent, orders, position>>
      /\ stopped' = stopped /\ halted' = halted /\ faults' = faults /\ w' = [w EXCEPT ![v] = Idle]
  BY DEF BookClose, venue, bounds, To
<1>2. /\ w' \in [Workers -> Locals] /\ w'[v] = Idle
      /\ \A u \in Workers : u # v => w'[u] = w[u]
  BY <1>1, IdleLocals, Moves
<1>3. /\ trade.st = "open" /\ position + Unconsumed + w[v].filled <= trade.amount
      /\ \A u \in Workers : w[u].pc = "close" => u = v
  BY <1>1 DEF WorkerInv
<1>4. w[v].filled \in 0..Lots /\ Unconsumed \in 0..Lots
  BY Types DEF Unconsumed, OrderRecords
<1>5. booked + trade.amount = Lots /\ loose = 0
  BY <1>3, Amounts DEF BookedOnce, OpenAmount, CoverInv
<1>n. left \in Nat /\ w[v].filled \in Nat /\ position <= left
  <2>1. w[v].filled \in Nat /\ Unconsumed \in Nat
    BY <1>4, Amounts
  <2> QED  BY <1>3, <2>1, Amounts
<1>6. CASE UNCHANGED <<trade, booked, loose>>
  BY <1>1, <1>6, IdleLocals, Blank, Types, CallerStep DEF Stored
<1>7. CASE w[v].filled > 0 /\ Short(left) /\ Align(left, w[v].filled, FALSE)
  <2>0. left > 0
    <3>1. left # 0
      <4>1. left = 0 => Tolerated(left, trade.amount)
        BY ToleratedNone, Amounts
      <4> QED  BY <1>7, <4>1 DEF Short
    <3> QED  BY <1>n, <3>1
  <2>1. left \in 1..Lots /\ booked + w[v].filled \in 0..Lots
    <3>1. w[v].filled \in Nat /\ trade.amount \in 1..Lots /\ booked \in Nat /\ Lots \in Nat
      BY Types
    <3>2. trade.amount - w[v].filled > 0
      BY <2>0
    <3> QED  BY <1>5, <3>1, <3>2
  <2>2. /\ trade' \in TradeRecords /\ trade'.st = "open" /\ trade'.amount = left
        /\ booked' = booked + w[v].filled /\ loose' = loose
    BY <1>3, <1>7, <2>1, Types DEF Align, Stored, TradeRecords
  <2>3. TypeOK'
    BY <1>1, <1>2, <2>1, <2>2, Types, TypeOKNext DEF Stored
  <2>4. Pending => left < intent.before
    <3>1. Pending => trade.amount <= intent.before
      BY <1>3 DEF CoverInv
    <3>2. w[v].filled \in Nat
      BY <1>4, Amounts
    <3> QED  BY <1>7, <3>1, <3>2, Amounts
  <2>5. Unconsumed' = 0
    <3> HIDE DEF left
    <3> QED  BY <1>1, <2>2, <2>4, Types DEF Unconsumed, Pending
  <2>6. position <= left
    BY <1>n
  <2>7. booked' + left = Lots
    <3>1. w[v].filled \in Nat
      BY <1>4, Amounts
    <3> QED  BY <1>5, <2>2, <3>1, Amounts
  <2> HIDE DEF left
  <2>8. BookedOnce' /\ OrderInv'
    BY <1>1, <1>5, <1>n, <2>2, <2>7, Amounts DEF BookedOnce, OpenAmount, OrderInv
  <2>9. CoverInv'
    BY <1>1, <1>5, <2>1, <2>2, <2>4, <2>5, <2>6, Types DEF CoverInv, Pending
  <2>10. ASSUME NEW u \in Workers PROVE WorkerInv(u)'
    BY <1>1, <1>2, <1>3, Blank DEF WorkerInv, Sends
  <2> QED  BY <2>3, <2>8, <2>9, <2>10
<1>8. CASE w[v].filled > 0 /\ ~Short(left) /\ CloseTrade(w[v].filled)
  <2>1. /\ trade' \in TradeRecords /\ trade'.st = "closed" /\ trade'.amount = trade.amount
        /\ booked' = booked + w[v].filled /\ loose' = loose + left
    BY <1>8, Types DEF CloseTrade, Stored, TradeRecords
  <2>2. loose' = left /\ loose' \in 0..Lots /\ booked' \in 0..Lots /\ booked' + left = Lots
    BY <1>5, <1>n, <2>1, Amounts
  <2>3. Tolerated(left, Lots)
    BY <1>8, <1>n, Amounts, ToleratedMore DEF Short
  <2> HIDE DEF left
  <2>4. TypeOK'
    BY <1>1, <1>2, <2>1, <2>2, Types, TypeOKNext DEF Stored
  <2>5. CoverInv'
    BY <1>1, <1>n, <2>1, <2>2, <2>3 DEF CoverInv, Tolerated
  <2>6. BookedOnce' /\ OrderInv'
    BY <1>1, <1>n, <2>1, <2>2, Amounts DEF BookedOnce, OpenAmount, OrderInv
  <2>7. ASSUME NEW u \in Workers PROVE WorkerInv(u)'
    BY <1>1, <1>2, <1>3, Blank DEF WorkerInv, Sends
  <2> QED  BY <2>4, <2>5, <2>6, <2>7
<1>9. CASE w[v].filled = 0
  BY <1>6, <1>9 DEF BookClose
<1>10. CASE w[v].filled # 0
  <2>1. w[v].filled > 0
    BY <1>4, <1>10
  <2>2. CASE Short(left)
    BY <1>7, <1>10, <2>1, <2>2 DEF BookClose
  <2>3. CASE ~Short(left)
    BY <1>8, <1>10, <2>1, <2>3 DEF BookClose
  <2> QED  BY <2>2, <2>3
<1> QED  BY <1>9, <1>10

\* Nobody is inside, so what is held bounds the journal from below.
LEMMA ReconcileStep ==
    ASSUME IInv, Reconcile
    PROVE  IInv'
<1> USE DEF IInv
<1>1. /\ UNCHANGED <<intent, orders, position, w, halted>>
      /\ stopped' = stopped /\ faults' = faults /\ trade.st = "open"
      /\ \A u \in Workers : w[u].pc = "idle"
  BY DEF Reconcile, LockFree, venue, bounds
<1>a. trade.amount # position
  <2>1. trade.amount = position => Gap(trade.amount, position) = 0
    BY Amounts DEF Gap
  <2>2. ~Tolerated(Gap(trade.amount, position), position)
    BY DEF Reconcile
  <2> QED  BY <2>1, <2>2, Amounts, ToleratedNone
<1>2. position < trade.amount /\ booked + trade.amount = Lots /\ loose = 0
  <2>1. Unconsumed \in 0..Lots
    BY Types DEF Unconsumed, OrderRecords
  <2> QED  BY <1>1, <1>a, <2>1, Types DEF CoverInv, BookedOnce, OpenAmount
<1>3. CASE position = 0 /\ CloseTrade(trade.amount)
  <2>1. /\ trade' \in TradeRecords /\ trade'.st = "closed" /\ booked' = Lots /\ loose' = 0
    <3>1. trade' \in TradeRecords /\ trade'.st = "closed"
      BY <1>3, Types DEF CloseTrade, Stored, TradeRecords
    <3>2. booked' = booked + trade.amount /\ loose' = loose + (trade.amount - trade.amount)
      BY <1>3 DEF CloseTrade
    <3> QED  BY <1>2, <3>1, <3>2, Amounts
  <2>2. TypeOK'
    BY <1>1, <2>1, Types, TypeOKNext DEF Stored
  <2>3. BookedOnce' /\ OrderInv' /\ CoverInv'
    <3>1. Tolerated(0, Lots)
      BY Amounts, ToleratedNone
    <3> QED  BY <1>1, <1>3, <2>1, <3>1, Types
             DEF BookedOnce, OpenAmount, OrderInv, CoverInv, Tolerated
  <2> QED  BY <1>1, <2>2, <2>3 DEF WorkerInv, Sends
<1>4. CASE position # 0 /\ Align(position, trade.amount - position, FALSE)
  <2>1. /\ trade' \in TradeRecords /\ trade'.st = "open" /\ trade'.amount = position
        /\ booked' = booked + (trade.amount - position) /\ loose' = 0
    <3>1. position \in 1..Lots /\ trade \in TradeRecords
      BY <1>4, Types DEF Stored
    <3> QED  BY <1>1, <1>2, <1>4, <3>1 DEF Align, TradeRecords
  <2>2. booked' \in 0..Lots /\ booked' + position = Lots
    BY <1>2, <2>1, Amounts
  <2>3. TypeOK'
    BY <1>1, <2>1, <2>2, Types, TypeOKNext DEF Stored
  <2>4. Pending => position < intent.before
    BY <1>1, <1>2, Types DEF CoverInv
  <2>5. Unconsumed' = 0
    BY <1>1, <2>1, <2>4, Types DEF Unconsumed, Pending
  <2>6. BookedOnce' /\ OrderInv'
    BY <1>1, <2>1, <2>2, Amounts DEF BookedOnce, OpenAmount, OrderInv
  <2>7. CoverInv'
    <3>1. intent' = intent /\ position' = position /\ trade'.st = "open"
          /\ trade'.amount = position /\ loose' = 0
      BY <1>1, <2>1
    <3>2. Pending => position <= intent.before
      BY <2>4, Amounts
    <3>3. position + 0 <= position
      BY Amounts
    <3> QED  BY <2>5, <3>1, <3>2, <3>3 DEF CoverInv, Pending
  <2> QED  BY <1>1, <2>3, <2>6, <2>7 DEF WorkerInv, Sends
<1> QED  BY <1>1, <1>2, <1>3, <1>4 DEF Reconcile

-----------------------------------------------------------------------------
(* The venue and the process.                                               *)

\* A step of the venue alone: what the order fills leaves the position.
LEMMA VenueStep ==
    ASSUME IInv, UNCHANGED <<intent, trade, booked, loose, w>>, halted' = halted,
           stopped' \in 0..MaxStops, faults' = faults,
           orders' \in Seq(OrderRecords), Len(orders') = Len(orders),
           position' \in 0..position,
           Len(orders) = 1 =>
               /\ orders'[1].req = orders[1].req
               /\ orders'[1].filled >= orders[1].filled
               /\ orders'[1].filled - orders[1].filled <= position - position'
               /\ orders'[1].filled <= intent.req
               /\ orders'[1].st = "working" => orders'[1].filled < intent.req
    PROVE  IInv'
<1> USE DEF IInv
<1>1. TypeOK'
  BY Types, TypeOKNext DEF Stored
<1>2. Len(orders) = 1 => orders[1].filled \in Nat /\ orders'[1].filled \in Nat
  <2>1. ASSUME Len(orders) = 1 PROVE orders[1] \in OrderRecords /\ orders'[1] \in OrderRecords
    BY <2>1, Types
  <2> QED  BY <2>1, Types DEF OrderRecords
<1>a. position \in Nat /\ position' \in Nat /\ position' <= position /\ trade.amount \in Nat
  BY Types
<1>3. /\ Unconsumed \in Nat /\ Unconsumed' \in Nat
      /\ position' + Unconsumed' <= position + Unconsumed
  <2>1. CASE Pending /\ Len(orders) = 1 /\ trade.amount = intent.before
    <3>1. Unconsumed = orders[1].filled /\ Unconsumed' = orders'[1].filled
      BY <2>1 DEF Unconsumed, Pending
    <3> QED  BY <1>2, <1>a, <2>1, <3>1
  <2>2. CASE ~(Pending /\ Len(orders) = 1 /\ trade.amount = intent.before)
    <3>1. Unconsumed = 0 /\ Unconsumed' = 0
      BY <2>2 DEF Unconsumed, Pending
    <3> QED  BY <1>a, <3>1
  <2> QED  BY <2>1, <2>2
<1>4. BookedOnce' /\ OrderInv'
  BY DEF BookedOnce, OpenAmount, OrderInv
<1>5. CoverInv'
  <2>1. CASE trade.st = "open"
    <3>1. position + Unconsumed <= trade.amount
      BY <2>1 DEF CoverInv
    <3>2. position' + Unconsumed' <= trade.amount
      <4>1. position + Unconsumed \in Nat /\ position' + Unconsumed' \in Nat
        BY <1>3, <1>a, NatSum
      <4> QED  BY <1>3, <1>a, <3>1, <4>1, AtMost
    <3> QED  BY <2>1, <3>2 DEF CoverInv, Pending
  <2>2. CASE trade.st # "open"
    <3>1. position <= loose => position' <= loose
      BY <1>a, Amounts
    <3> QED  BY <2>2, <3>1 DEF CoverInv, Tolerated
  <2> QED  BY <2>1, <2>2
<1>6. ASSUME NEW u \in Workers PROVE WorkerInv(u)'
  <2>1. w[u].filled \in Nat
    BY Types
  <2>2. w[u].pc = "close" => position' + Unconsumed' + w[u].filled <= trade.amount
    <3>1. w[u].pc = "close" => position + Unconsumed + w[u].filled <= trade.amount
      BY DEF WorkerInv
    <3>2. position + Unconsumed \in Nat /\ position' + Unconsumed' \in Nat
      BY <1>3, <1>a, NatSum
    <3> QED  BY <1>3, <1>a, <2>1, <3>1, <3>2, StillWithin
  <2>3. w[u].pc \in {"fills", "consume"} => w[u].filled <= orders'[1].filled
    <3>1. w[u].pc \in {"fills", "consume"} => w[u].filled <= orders[1].filled /\ Len(orders) = 1
      BY DEF WorkerInv
    <3> QED  BY <1>2, <2>1, <3>1
  <2> QED  BY <2>2, <2>3 DEF WorkerInv, Sends
<1> QED  BY <1>1, <1>4, <1>5, <1>6

\* A fill moves a lot from the position to the order; an end moves none.
LEMMA OrderSteps ==
    ASSUME IInv, NEW i \in 1..Len(orders), FillOrder(i) \/ EndOrder(i)
    PROVE  IInv'
<1> USE DEF IInv
<1>1. i = 1 /\ Len(orders) = 1 /\ orders \in Seq(OrderRecords) /\ orders[1] \in OrderRecords
  <2>1. Len(orders) \in Nat /\ Len(orders) <= 1 /\ orders \in Seq(OrderRecords)
    BY Types DEF OrderInv, Stored
  <2>2. Len(orders) = 1
    <3>1. Len(orders) # 0
      BY <2>1
    <3> QED  BY <2>1, <3>1, ZeroOrOne
  <2> QED  BY <2>1, <2>2, Types
<1>2. /\ UNCHANGED <<intent, trade, booked, loose, w, halted>>
      /\ stopped' = stopped /\ faults' = faults
      /\ orders[1].st = "working"
  BY <1>1 DEF FillOrder, EndOrder, venueOnly, durable, bounds
<1>s. stopped' \in 0..MaxStops
  BY <1>2, Types DEF Stored
<1>3. orders[1].req = intent.req /\ orders[1].filled < intent.req
  BY <1>1, <1>2 DEF OrderInv
<1>4. CASE FillOrder(i)
  <2> DEFINE n == orders[1].filled + 1
             o == [orders[1] EXCEPT !.filled = n,
                                    !.st = IF n = orders[1].req THEN "ended" ELSE "working"]
  <2>1. orders' = [orders EXCEPT ![1] = o] /\ position > 0 /\ position' = position - 1
    BY <1>1, <1>4 DEF FillOrder
  <2>2. n \in 0..Lots /\ n <= intent.req
    <3>1. orders[1].filled \in Nat /\ intent.req <= Lots
      BY <1>1, Types DEF OrderRecords
    <3> QED  BY <1>3, <3>1, Amounts
  <2>3. /\ o \in OrderRecords /\ o.req = orders[1].req /\ o.filled = n
        /\ o.st = "working" => n # intent.req
    BY <1>1, <1>3, <2>2 DEF OrderRecords
  <2> HIDE DEF o
  <2>4. orders' \in Seq(OrderRecords) /\ Len(orders') = 1 /\ orders'[1] = o
    BY <1>1, <2>1, <2>3, ReplaceFirst
  <2>5. /\ orders'[1].filled - orders[1].filled = 1 /\ position - position' = 1
        /\ position' \in 0..position
    <3>1. orders[1].filled \in Nat /\ position \in Nat
      BY <1>1, Types DEF OrderRecords
    <3> QED  BY <2>1, <2>3, <2>4, <3>1
  <2>6. /\ orders'[1].filled >= orders[1].filled
        /\ orders'[1].st = "working" => orders'[1].filled < intent.req
    <3>1. orders[1].filled \in Nat /\ intent.req \in Nat /\ orders'[1].filled = n
      BY <1>1, <2>3, <2>4, Amounts DEF OrderRecords
    <3>2. orders'[1].st = "working" => n # intent.req
      BY <2>3, <2>4
    <3>3. n < intent.req \/ n = intent.req
      BY <2>2, <3>1
    <3> QED  BY <3>1, <3>2, <3>3
  <2> HIDE DEF n
  <2>7. position' \in 0..position /\ orders'[1].filled <= intent.req
    BY <2>2, <2>3, <2>4, <2>5
  <2>8. orders'[1].req = orders[1].req
    BY <2>3, <2>4
  <2> QED  BY <1>1, <1>2, <1>s, <2>4, <2>5, <2>6, <2>7, <2>8, VenueStep
<1>5. CASE EndOrder(i)
  <2> DEFINE o == [orders[1] EXCEPT !.st = "ended"]
  <2>1. orders' = [orders EXCEPT ![1] = o] /\ position' = position
    BY <1>1, <1>5 DEF EndOrder
  <2>2. /\ o \in OrderRecords /\ o.req = orders[1].req /\ o.filled = orders[1].filled
        /\ o.st = "ended"
    BY <1>1 DEF OrderRecords
  <2> HIDE DEF o
  <2>3. orders' \in Seq(OrderRecords) /\ Len(orders') = 1 /\ orders'[1] = o
    BY <1>1, <2>1, <2>2, ReplaceFirst
  <2>4. orders[1].filled \in Nat
    BY <1>1, Amounts DEF OrderRecords
  <2>5. /\ orders'[1].req = orders[1].req /\ orders'[1].filled = orders[1].filled
        /\ orders'[1].st # "working"
    BY <2>2, <2>3
  <2>6. /\ position' \in 0..position /\ orders'[1].filled <= intent.req
        /\ orders'[1].filled - orders[1].filled <= position - position'
    BY <1>3, <2>1, <2>4, <2>5, Amounts
  <2> QED  BY <1>1, <1>2, <1>s, <2>3, <2>4, <2>5, <2>6, VenueStep
<1> QED  BY <1>4, <1>5

\* The stop only takes from the position.
LEMMA StopFiresStep ==
    ASSUME IInv, StopFires
    PROVE  IInv'
<1> USE DEF IInv
<1>1. /\ UNCHANGED <<intent, trade, booked, loose, halted, w, orders>> /\ faults' = faults
      /\ stopped' \in 0..MaxStops /\ position' \in 0..position
  <2>1. stopped \in 0..MaxStops /\ MaxStops \in Nat
    BY Types DEF Stored
  <2> QED  BY <2>1, Amounts DEF StopFires, venueOnly, durable
<1>2. Len(orders) = 1 => orders[1].filled \in Nat
  BY Types DEF OrderRecords
<1> QED  BY <1>1, <1>2, Types, VenueStep DEF Stored, OrderInv

\* A caller that dies forgets what it sold; the journal then shows too much, never too little.
LEMMA CrashStep ==
    ASSUME IInv, Crash
    PROVE  IInv'
<1> USE DEF IInv
<1>1. /\ UNCHANGED <<intent, trade, booked, loose, halted, orders, position>>
      /\ stopped' = stopped /\ faults' \in 0..MaxFaults
      /\ w' = [v \in Workers |-> Idle]
  BY FaultBounds DEF Crash, durable, venue
<1>2. TypeOK'
  BY <1>1, IdleLocals, Types, TypeOKNext DEF Stored
<1>3. ASSUME NEW u \in Workers PROVE WorkerInv(u)'
  BY <1>1, Blank DEF WorkerInv, Sends
<1> QED  BY <1>1, <1>2, <1>3, QuietStep

\* Halting the system changes nothing of the exit.
LEMMA ControlStep ==
    ASSUME IInv, Control
    PROVE  IInv'
<1> USE DEF IInv
<1>1. /\ UNCHANGED <<intent, trade, orders, position, booked, loose, w, stopped, faults>>
      /\ halted' \in BOOLEAN
  BY Types DEF Control, durable, venue, Stored
<1>2. TypeOK'
  BY <1>1, Types, TypeOKNext DEF Stored
<1>3. ASSUME NEW u \in Workers PROVE WorkerInv(u)'
  BY <1>1 DEF WorkerInv, Sends, Unconsumed, Pending
<1> QED  BY <1>1, <1>2, <1>3, QuietStep

-----------------------------------------------------------------------------
\* The invariant holds of every behaviour of a partial exit.
THEOREM Invariance == Spec => []IInv
<1>1. IInv /\ [Next]_vars => IInv'
  <2> SUFFICES ASSUME IInv, [Next]_vars PROVE IInv'
    OBVIOUS
  <2>1. ASSUME NEW v \in Workers, Step(v) PROVE IInv'
    BY <2>1, SendPartialStep, SendFailedStep, AcknowledgeStep, ResolveStep, ReadFillsStep,
       ConsumeStep, BookCloseStep DEF Step
  <2>2. ASSUME NEW v \in Workers, Reserve(v) \/ Resume(v) \/ SendClose(v) PROVE IInv'
    BY <2>2, ReserveStep, ResumeStep, SendCloseStep
  <2>3. CASE UNCHANGED vars
    <3>1. UNCHANGED <<intent, trade, orders, position, booked, loose, halted, w, stopped,
                      faults>>
      BY <2>3 DEF vars, durable, venue, bounds
    <3>2. TypeOK' /\ \A v \in Workers : WorkerInv(v)'
      BY <3>1 DEF IInv, TypeOK, WorkerInv, Sends, Unconsumed, Pending
    <3> QED  BY <3>1, <3>2, QuietStep
  <2> QED
    BY <2>1, <2>2, <2>3, ReconcileStep, OrderSteps, StopFiresStep, CrashStep, ControlStep
       DEF Next
<1> QED  BY <1>1, InitInv, PTL DEF Spec

\* The intent, the trade, the orders and the callers of close_partial keep to their
\* values, for every size, number of callers and bound.
THEOREM TypeCorrect == Spec => []TypeOK
<1>1. IInv => TypeOK
  BY DEF IInv
<1> QED  BY <1>1, Invariance, PTL

\* Every lot that left the trade was realised once, whichever of the partial exit, the
\* full close and the exit check saw it first, or is one that a close let go.
THEOREM BookedOnceCorrect == Spec => []BookedOnce
<1>1. IInv => BookedOnce
  BY DEF IInv
<1> QED  BY <1>1, Invariance, PTL

\* The journal shows what the venue holds, but for the lots that the close that ended
\* the trade let go: no more than the tolerated part of its size.
THEOREM NoUnmanagedExposureCorrect == Spec => []NoUnmanagedExposure
<1>1. IInv => NoUnmanagedExposure
  <2> SUFFICES ASSUME IInv PROVE NoUnmanagedExposure
    OBVIOUS
  <2>1. Len(orders) = 1 => orders[1].filled \in Nat
    BY Types DEF IInv, OrderRecords
  <2>2. Unconsumed \in Nat
    BY <2>1 DEF Unconsumed
  <2>3. position \in Nat /\ trade.amount \in Nat
    BY Amounts DEF IInv
  <2>4. CASE trade.st = "open"
    <3>1. position + Unconsumed <= trade.amount
      BY <2>4 DEF IInv, CoverInv
    <3>2. loose = 0 /\ Tolerated(0, Lots)
      BY <2>4, Amounts, ToleratedNone DEF IInv, CoverInv
    <3> QED  BY <2>2, <2>3, <2>4, <3>1, <3>2 DEF NoUnmanagedExposure, OpenAmount
  <2>5. CASE trade.st = "closed"
    <3>1. position <= loose /\ Tolerated(loose, Lots) /\ OpenAmount = 0 /\ loose \in Nat
      BY <2>5, Amounts DEF IInv, CoverInv, OpenAmount
    <3> QED  BY <3>1 DEF NoUnmanagedExposure
  <2>6. trade.st \in {"open", "closed"}
    BY Types DEF IInv, Stored, TradeRecords
  <2> QED  BY <2>4, <2>5, <2>6
<1> QED  BY <1>1, Invariance, PTL

\* A take-profit keeps the once-only promise: its order is placed at most once in all
\* the trade's lives, and it is recorded as done only when it was placed.
THEOREM ExitOnceCorrect == Spec => ExitOnce
<1> DEFINE taken  == [r \in {"tp1"} |-> Len(orders)]
           answer == [r \in {"tp1"} |-> IF intent.st = "CONSUMED" THEN "done" ELSE "none"]
<1>1. Init => Exit!OnceInit
  BY DEF Init, NoIntent, Exit!OnceInit
<1>2. IInv /\ IInv' /\ [Next]_vars => [Exit!OnceNext]_<<taken, answer>>
  <2> SUFFICES ASSUME IInv, IInv', [Next]_vars PROVE [Exit!OnceNext]_<<taken, answer>>
    OBVIOUS
  <2>1. /\ Len(orders) \in {0, 1} /\ Len(orders') \in {0, 1}
        /\ intent.st = "CONSUMED" => Len(orders) = 1
        /\ intent'.st = "CONSUMED" => Len(orders') = 1
    <3>1. Len(orders) \in Nat /\ Len(orders) <= 1
      BY Types DEF IInv, OrderInv
    <3>2. Len(orders') \in Nat /\ Len(orders') <= 1
      <4>1. TypeOK' => orders' \in Seq(OrderRecords)
        BY DEF TypeOK, OrderRecords
      <4> QED  BY <4>1 DEF IInv, OrderInv
    <3> QED  BY <3>1, <3>2, ZeroOrOne DEF IInv, OrderInv
  <2>2. ASSUME Len(orders') = Len(orders), intent.st = "CONSUMED" <=> intent'.st = "CONSUMED"
        PROVE  [Exit!OnceNext]_<<taken, answer>>
    BY <2>2
  <2>3. ASSUME Len(orders) = 0, Len(orders') = 1, intent' = intent
        PROVE  [Exit!OnceNext]_<<taken, answer>>
    <3>1. taken["tp1"] = 0 /\ answer["tp1"] = "none" /\ answer' = answer
      BY <2>1, <2>3
    <3>2. taken' = [taken EXCEPT !["tp1"] = 1]
      BY <2>3
    <3> QED  BY <3>1, <3>2 DEF Exit!OnceNext, Exit!Take
  <2>4. ASSUME Len(orders') = Len(orders), intent.st # "CONSUMED", intent'.st = "CONSUMED"
        PROVE  [Exit!OnceNext]_<<taken, answer>>
    <3>1. taken["tp1"] = 1 /\ answer["tp1"] = "none" /\ taken' = taken
      BY <2>1, <2>4
    <3>2. answer' = [answer EXCEPT !["tp1"] = "done"]
      BY <2>4
    <3> QED  BY <3>1, <3>2 DEF Exit!OnceNext, Exit!Answer
  <2>5. ASSUME NEW v \in Workers, Step(v) \/ Reserve(v) \/ Resume(v) \/ SendClose(v)
        PROVE  [Exit!OnceNext]_<<taken, answer>>
    <3>1. CASE SendPartial(v)
      <4>1. w[v].pc = "send" /\ intent' = intent
        BY <3>1 DEF SendPartial, durable
      <4>2. Len(orders) = 0
        BY <4>1 DEF IInv, WorkerInv, Sends
      <4> QED  BY <2>1, <2>2, <2>3, <4>1, <4>2
    <3>2. CASE Consume(v)
      <4>1. orders' = orders
        BY <3>2 DEF Consume, venue
      <4>2. intent' = intent \/ (Pending /\ intent'.st = "CONSUMED")
        BY <3>2, Types DEF Consume, durable, IInv, Stored, IntentRecords
      <4> QED  BY <2>2, <2>4, <4>1, <4>2 DEF Pending
    <3>3. CASE Acknowledge(v) \/ SendFailed(v) \/ Reserve(v)
      <4>1. orders' = orders
        BY <3>3 DEF Acknowledge, SendFailed, Reserve, venue
      <4>2. intent' = intent \/ (intent.st # "CONSUMED" /\ intent'.st # "CONSUMED")
        <5>1. CASE Acknowledge(v)
          BY <5>1, Types DEF Acknowledge, Pending, IInv, Stored, IntentRecords
        <5>2. CASE SendFailed(v)
          BY <5>2, Blank DEF SendFailed, Refused
        <5>3. CASE Reserve(v)
          BY <5>3, Blank DEF Reserve
        <5> QED  BY <3>3, <5>1, <5>2, <5>3
      <4> QED  BY <2>2, <4>1, <4>2
    <3>4. CASE Resume(v) \/ Resolve(v) \/ ReadFills(v) \/ BookClose(v) \/ SendClose(v)
      <4>1. orders' = orders /\ intent' = intent
        BY <3>4 DEF Resume, Resolve, ReadFills, BookClose, SendClose, durable, venue
      <4> QED  BY <2>2, <4>1
    <3> QED  BY <2>5, <3>1, <3>2, <3>3, <3>4 DEF Step
  <2>6. CASE Reconcile \/ StopFires \/ Crash \/ Control \/ UNCHANGED vars
    <3>1. orders' = orders /\ intent' = intent
      BY <2>6 DEF Reconcile, StopFires, Crash, Control, vars, venue, venueOnly, durable
    <3> QED  BY <2>2, <3>1
  <2>7. ASSUME NEW i \in 1..Len(orders), FillOrder(i) \/ EndOrder(i)
        PROVE  [Exit!OnceNext]_<<taken, answer>>
    <3>1. intent' = intent
      BY <2>7 DEF FillOrder, EndOrder, venueOnly, durable
    <3>2. Len(orders') = Len(orders)
      BY <2>7, Types, ExceptSeq DEF FillOrder, EndOrder, IInv, Stored
    <3> QED  BY <2>2, <3>1, <3>2
  <2> QED  BY <2>5, <2>6, <2>7 DEF Next
<1> QED  BY <1>1, <1>2, Invariance, PTL DEF Spec, ExitOnce, Exit!OnceSpec
=============================================================================
