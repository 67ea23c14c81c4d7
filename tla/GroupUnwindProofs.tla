--------------------------- MODULE GroupUnwindProofs ---------------------------
(***************************************************************************)
(* The close of a group and the reductions of its legs, for any sizes,       *)
(* number of reductions, stops and faults.  Two arguments.  A reduction's    *)
(* row and its order agree at every step, so that the order is placed once    *)
(* and what is said of it is true; nothing of this depends on amounts.  And   *)
(* for reductions of whole legs: what a leg holds, with what its pending      *)
(* reduction has sold, is what was asked for at most, and the journal never    *)
(* shows less than is held; so a fill is booked by the reduction or by the     *)
(* exit check, not by both.                                                  *)
(***************************************************************************)
EXTENDS GroupUnwind, SequenceTheorems, TLAPS

Rows   == [st : Final \cup {"RESERVED", "ATTEMPTED", "ACKNOWLEDGED", "TERMINAL"},
           qty : 1..Lots, receipt : BOOLEAN]
Orders == [sent : 0..1, st : {"none", "working", "ended"}, filled : 0..Lots]
Trades == [st : {"none", "open", "closed"}, amount : 0..Lots]
Callers == [pc : {"idle", "attempt", "call", "resolve", "book", "mark"}, leg : Legs]

\* Types; an open trade has something left.
LegType ==
    /\ trade \in [Legs -> Trades] /\ opened \in [Legs -> 0..Lots] /\ booked \in [Legs -> Nat]
    /\ position \in [Legs -> 0..Lots]
    /\ \A l \in Legs : trade[l].st = "open" => trade[l].amount > 0
RowType ==
    /\ reds \in [Legs -> Seq(Rows)] /\ orders \in [Legs -> Seq(Orders)]
    /\ \A l \in Legs : Len(orders[l]) = Len(reds[l]) /\ Len(reds[l]) <= MaxReductions
PlanType ==
    /\ plan \in {"none", "UNWINDING", "CLOSED"} /\ entry \in {"none", "sent", "ended", "done"}
CallerType == w \in Callers
CountType  == stopped \in 0..MaxStops /\ faults \in 0..MaxFaults

\* What a reduction's row says of its order.
Matches(r, o) ==
    /\ o.sent = 0 => o.st = "none" /\ o.filled = 0
    /\ o.sent = 1 => o.st # "none"
    /\ o.filled <= r.qty
    /\ o.st = "working" => o.filled < r.qty
    /\ r.st \in {"RESERVED", "REFUSED"} => o.sent = 0
    /\ r.st \in {"ACKNOWLEDGED", "TERMINAL", "BOOKED"} => o.sent = 1
    /\ r.st \in {"TERMINAL", "BOOKED"} => o.st = "ended"
    /\ r.receipt => r.st \in {"TERMINAL", "BOOKED"}
RowInv ==
    \A l \in Legs : \A i \in 1..Len(reds[l]) :
        /\ Matches(reds[l][i], orders[l][i])
        /\ i < Len(reds[l]) => reds[l][i].st \in Final

\* The caller that is inside works on a pending row, no larger than what is left.
CallerInv ==
    w.pc # "idle" =>
        /\ Pending(w.leg)
        /\ w.pc # "mark" => trade[w.leg].st = "open" /\ Within(w.leg) /\ ~Row(w.leg).receipt
        /\ w.pc = "attempt" => Row(w.leg).st = "RESERVED"
        /\ w.pc = "call" => Row(w.leg).st = "ATTEMPTED" /\ Order(w.leg).sent = 0
        /\ w.pc = "resolve" => Row(w.leg).st # "RESERVED"
        /\ w.pc \in {"book", "mark"} => Row(w.leg).st = "TERMINAL"
        /\ w.pc = "mark" => Row(w.leg).receipt

\* The hedge has no trade before its entry is recovered.
HedgeInv ==
    /\ trade["primary"].st # "none"
    /\ trade["hedge"].st = "none" => reds["hedge"] = <<>> /\ booked["hedge"] = 0
    /\ entry # "done" => trade["hedge"].st = "none" /\ opened["hedge"] = 0
    /\ entry = "done" /\ trade["hedge"].st = "none" => opened["hedge"] = 0

\* What is closed is flat, and what a group's close sells of the hedge waits for the
\* primary.
FlatInv == \A l \in Legs : trade[l].st = "closed" => position[l] = 0
TurnInv ==
    plan = "UNWINDING" /\ w.leg = "hedge" /\ w.pc \in {"attempt", "call"} =>
        position["primary"] = 0

Types == LegType /\ RowType /\ PlanType /\ CallerType /\ CountType
IInv  == Types /\ RowInv /\ CallerInv /\ HedgeInv /\ FlatInv /\ TurnInv /\ GroupClosedFlat
-----------------------------------------------------------------------------
(* Sequences and rows.                                                      *)

\* The last element of a sequence is replaced.
LEMMA ReplaceLast ==
    ASSUME NEW S, NEW s \in Seq(S), s # <<>>, NEW e \in S
    PROVE  /\ Append(Front(s), e) \in Seq(S)
           /\ Len(Append(Front(s), e)) = Len(s)
           /\ Append(Front(s), e)[Len(s)] = e
           /\ \A i \in 1..Len(s) : i # Len(s) => Append(Front(s), e)[i] = s[i]
<1>1. Len(s) \in Nat /\ Len(s) > 0 /\ \A i \in 1..Len(s) : s[i] \in S
  BY EmptySeq, LenProperties
<1>2. /\ Front(s) \in Seq(S) /\ Len(Front(s)) = Len(s) - 1
      /\ \A i \in 1..(Len(s) - 1) : Front(s)[i] = s[i]
  <2> DEFINE n == Len(s) - 1
  <2>1. 1 \in Int /\ n \in Int /\ n >= 0 /\ \A i \in 1..n : s[i] \in S
    BY <1>1
  <2>2. /\ SubSeq(s, 1, n) \in Seq(S)
        /\ Len(SubSeq(s, 1, n)) = IF 1 <= n THEN n - 1 + 1 ELSE 0
        /\ \A i \in 1..(n - 1 + 1) : SubSeq(s, 1, n)[i] = s[1 + i - 1]
    <3> HIDE DEF n
    <3> QED  BY <2>1, SubSeqProperties
  <2>3. Len(SubSeq(s, 1, n)) = n /\ \A i \in 1..n : SubSeq(s, 1, n)[i] = s[i]
    <3> DEFINE t == SubSeq(s, 1, n)
    <3>1. /\ Len(t) = (IF 1 <= n THEN n - 1 + 1 ELSE 0)
          /\ \A i \in 1..(n - 1 + 1) : t[i] = s[1 + i - 1]
      BY <2>2
    <3>2. n \in Int /\ n >= 0
      BY <2>1
    <3> HIDE DEF n, t
    <3>3. Len(t) = n /\ n - 1 + 1 = n
      BY <3>1, <3>2
    <3>4. ASSUME NEW i \in 1..n PROVE t[i] = s[i]
      <4>1. 1 + i - 1 = i
        BY <3>2
      <4> QED  BY <3>1, <3>3, <4>1
    <3>5. Len(t) = n /\ \A i \in 1..n : t[i] = s[i]
      BY <3>3, <3>4
    <3> QED  BY <3>5 DEF t
  <2> QED  BY <2>2, <2>3 DEF Front
<1>3. /\ Append(Front(s), e) \in Seq(S)
      /\ Len(Append(Front(s), e)) = Len(Front(s)) + 1
      /\ \A i \in 1..Len(Front(s)) : Append(Front(s), e)[i] = Front(s)[i]
      /\ Append(Front(s), e)[Len(Front(s)) + 1] = e
  BY <1>2, AppendProperties
<1> HIDE DEF Front
<1>4. Len(Front(s)) + 1 = Len(s)
  BY <1>1, <1>2
<1>5. ASSUME NEW i \in 1..Len(s), i # Len(s) PROVE Append(Front(s), e)[i] = s[i]
  <2>1. i \in 1..(Len(s) - 1)
    BY <1>1, <1>5
  <2> QED  BY <1>2, <1>3, <2>1
<1> QED  BY <1>3, <1>4, <1>5

\* A sequence whose last element is replaced by itself.
LEMMA ReplaceSame ==
    ASSUME NEW S, NEW s \in Seq(S), s # <<>>
    PROVE  Last(s) \in S /\ Append(Front(s), Last(s)) = s
<1>1. Len(s) \in Nat /\ Len(s) > 0 /\ \A i \in 1..Len(s) : s[i] \in S
  BY EmptySeq, LenProperties
<1>2. Last(s) \in S
  BY <1>1 DEF Last
<1> DEFINE t == Append(Front(s), Last(s))
<1>3. t \in Seq(S) /\ Len(t) = Len(s) /\ \A i \in 1..Len(s) : t[i] = s[i]
  BY <1>2, ReplaceLast DEF Last
<1> HIDE DEF t
<1>4. t = s
  BY <1>3, SeqEqual
<1> QED  BY <1>2, <1>4 DEF t

\* The two legs.
LEMMA TwoLegs ==
    "primary" \in Legs /\ "hedge" \in Legs /\ \A l \in Legs : l # "hedge" => l = "primary"
BY DEF Legs

\* The fields of a leg.
LEMMA LegFields ==
    ASSUME LegType, NEW l \in Legs
    PROVE  /\ Lots \in Nat /\ Lots > 0
           /\ trade[l] \in Trades /\ trade[l].st \in {"none", "open", "closed"}
           /\ trade[l].amount \in Nat /\ trade[l].amount <= Lots
           /\ trade[l].st = "open" => trade[l].amount >= 1
           /\ opened[l] \in Nat /\ opened[l] <= Lots /\ booked[l] \in Nat
           /\ position[l] \in Nat /\ position[l] <= Lots
BY LotsAssumption DEF LegType, Trades

\* The last row of a leg and its order.
LEMMA RowFields ==
    ASSUME RowType, NEW l \in Legs, reds[l] # <<>>
    PROVE  /\ Row(l) \in Rows /\ Order(l) \in Orders /\ orders[l] # <<>>
           /\ Len(reds[l]) \in Nat /\ Len(reds[l]) >= 1
           /\ Len(orders[l]) = Len(reds[l])
           /\ Row(l) = reds[l][Len(reds[l])] /\ Order(l) = orders[l][Len(reds[l])]
           /\ Row(l).qty \in Nat /\ Row(l).qty >= 1 /\ Row(l).qty <= Lots
           /\ Order(l).filled \in Nat /\ Order(l).sent \in {0, 1}
<1>1. reds[l] \in Seq(Rows) /\ orders[l] \in Seq(Orders) /\ Len(orders[l]) = Len(reds[l])
  BY DEF RowType
<1>2. Len(reds[l]) \in Nat /\ Len(reds[l]) >= 1
  BY <1>1, EmptySeq
<1>3. orders[l] # <<>>
  BY <1>1, <1>2, EmptySeq
<1>4. Row(l) = reds[l][Len(reds[l])] /\ Order(l) = orders[l][Len(reds[l])]
  BY <1>1 DEF Row, Order, Last
<1>5. Row(l) \in Rows /\ Order(l) \in Orders
  BY <1>1, <1>3, ReplaceSame DEF Row, Order
<1>6. /\ Row(l).qty \in Nat /\ Row(l).qty >= 1 /\ Row(l).qty <= Lots
      /\ Order(l).filled \in Nat /\ Order(l).sent \in {0, 1}
  BY <1>5, LotsAssumption DEF Rows, Orders
<1> QED  BY <1>1, <1>2, <1>3, <1>4, <1>5, <1>6

\* The last row of l becomes r and its order o; no other changes.
RowChange(l, r, o) ==
    /\ reds' \in [Legs -> Seq(Rows)] /\ orders' \in [Legs -> Seq(Orders)]
    /\ Len(reds'[l]) = Len(reds[l]) /\ Len(orders'[l]) = Len(reds[l])
    /\ reds'[l][Len(reds[l])] = r /\ orders'[l][Len(reds[l])] = o
    /\ \A i \in 1..Len(reds[l]) :
         i # Len(reds[l]) => reds'[l][i] = reds[l][i] /\ orders'[l][i] = orders[l][i]
    /\ \A k \in Legs : k # l => reds'[k] = reds[k] /\ orders'[k] = orders[k]

\* The ways the actions write it.
LEMMA RowStep ==
    ASSUME RowType, NEW l \in Legs, reds[l] # <<>>, NEW r \in Rows, NEW o \in Orders,
           \/ UNCHANGED reds /\ r = Row(l)
           \/ Save(l, r),
           \/ UNCHANGED orders /\ o = Order(l)
           \/ orders' = [orders EXCEPT ![l] = Append(Front(@), o)]
    PROVE  RowChange(l, r, o)
<1>1. reds \in [Legs -> Seq(Rows)] /\ orders \in [Legs -> Seq(Orders)]
      /\ reds[l] \in Seq(Rows) /\ orders[l] \in Seq(Orders)
  BY DEF RowType
<1>2. orders[l] # <<>> /\ Len(orders[l]) = Len(reds[l])
  BY RowFields
<1>3. reds' = [reds EXCEPT ![l] = Append(Front(reds[l]), r)]
  <2>1. CASE UNCHANGED reds /\ r = Row(l)
    <3>1. Append(Front(reds[l]), r) = reds[l]
      BY <1>1, <2>1, ReplaceSame DEF Row
    <3> QED  BY <1>1, <2>1, <3>1
  <2> QED  BY <2>1 DEF Save
<1>4. orders' = [orders EXCEPT ![l] = Append(Front(orders[l]), o)]
  <2>1. CASE UNCHANGED orders /\ o = Order(l)
    <3>1. Append(Front(orders[l]), o) = orders[l]
      BY <1>1, <1>2, <2>1, ReplaceSame DEF Order
    <3> QED  BY <1>1, <2>1, <3>1
  <2> QED  BY <2>1
<1> DEFINE rs == Append(Front(reds[l]), r)
           os == Append(Front(orders[l]), o)
<1>5. /\ rs \in Seq(Rows) /\ Len(rs) = Len(reds[l]) /\ rs[Len(reds[l])] = r
      /\ \A i \in 1..Len(reds[l]) : i # Len(reds[l]) => rs[i] = reds[l][i]
  BY <1>1, ReplaceLast
<1>6. /\ os \in Seq(Orders) /\ Len(os) = Len(reds[l]) /\ os[Len(reds[l])] = o
      /\ \A i \in 1..Len(reds[l]) : i # Len(reds[l]) => os[i] = orders[l][i]
  BY <1>1, <1>2, ReplaceLast
<1>7. reds' = [reds EXCEPT ![l] = rs] /\ orders' = [orders EXCEPT ![l] = os]
  BY <1>3, <1>4
<1> HIDE DEF rs, os
<1>8. reds'[l] = rs /\ orders'[l] = os
      /\ \A k \in Legs : k # l => reds'[k] = reds[k] /\ orders'[k] = orders[k]
  BY <1>1, <1>7
<1> QED  BY <1>1, <1>5, <1>6, <1>7, <1>8 DEF RowChange

\* What such a change leaves true.
LEMMA RowChanged ==
    ASSUME RowType, RowInv, NEW l \in Legs, reds[l] # <<>>, NEW r, NEW o,
           RowChange(l, r, o), Matches(r, o)
    PROVE  /\ RowType' /\ RowInv'
           /\ Row(l)' = r /\ Order(l)' = o /\ reds'[l] # <<>>
           /\ \A k \in Legs : /\ reds'[k] = <<>> <=> reds[k] = <<>>
                              /\ k # l => reds'[k] = reds[k] /\ orders'[k] = orders[k]
<1>1. /\ Len(reds'[l]) = Len(reds[l]) /\ Len(orders'[l]) = Len(reds[l])
      /\ reds' \in [Legs -> Seq(Rows)] /\ orders' \in [Legs -> Seq(Orders)]
      /\ \A k \in Legs : k # l => reds'[k] = reds[k] /\ orders'[k] = orders[k]
  BY DEF RowChange
<1>2. RowType'
  BY <1>1 DEF RowType
<1>3. reds'[l] # <<>>
  BY <1>1, RowFields, EmptySeq
<1>4. Row(l)' = r /\ Order(l)' = o
  BY <1>2, <1>3 DEF RowChange, Row, Order, Last
<1>5. RowInv'
  <2> SUFFICES ASSUME NEW k \in Legs, NEW i \in 1..Len(reds'[k])
               PROVE  /\ Matches(reds'[k][i], orders'[k][i])
                      /\ i < Len(reds'[k]) => reds'[k][i].st \in Final
    BY DEF RowInv
  <2>1. CASE k # l
    BY <1>1, <2>1 DEF RowInv
  <2>2. CASE k = l /\ i # Len(reds[l])
    BY <1>1, <2>2 DEF RowInv, RowChange
  <2>3. CASE k = l /\ i = Len(reds[l])
    <3>1. ~(i < Len(reds'[k]))
      BY <1>1, <2>3, RowFields
    <3> QED  BY <2>3, <3>1 DEF RowChange
  <2> QED  BY <2>1, <2>2, <2>3
<1> QED  BY <1>1, <1>2, <1>3, <1>4, <1>5

\* A new row and its order, after the others.
LEMMA InsertStep ==
    ASSUME RowType, RowInv, NEW l \in Legs, ~Pending(l), NEW qty \in 1..Lots, Insert(l, qty)
    PROVE  /\ RowType' /\ RowInv' /\ reds'[l] # <<>>
           /\ Row(l)' = [st |-> "RESERVED", qty |-> qty, receipt |-> FALSE]
           /\ Order(l)' = NoOrder
           /\ Len(reds'[l]) = Len(reds[l]) + 1 /\ Len(orders'[l]) = Len(reds[l]) + 1
           /\ \A i \in 1..Len(reds[l]) : reds'[l][i] = reds[l][i] /\ orders'[l][i] = orders[l][i]
           /\ \A k \in Legs : k # l => reds'[k] = reds[k] /\ orders'[k] = orders[k]
<1> DEFINE row == [st |-> "RESERVED", qty |-> qty, receipt |-> FALSE]
           rs == Append(reds[l], row)
           os == Append(orders[l], NoOrder)
<1>1. row \in Rows /\ NoOrder \in Orders /\ Matches(row, NoOrder)
  BY LotsAssumption DEF Rows, Orders, NoOrder, Matches
<1>2. /\ reds[l] \in Seq(Rows) /\ orders[l] \in Seq(Orders) /\ Len(reds[l]) \in Nat
      /\ Len(orders[l]) = Len(reds[l])
  BY LenProperties DEF RowType
<1>3. reds' = [reds EXCEPT ![l] = rs] /\ orders' = [orders EXCEPT ![l] = os]
      /\ Len(reds[l]) < MaxReductions
  BY DEF Insert
<1> HIDE DEF row
<1>4. /\ rs \in Seq(Rows) /\ Len(rs) = Len(reds[l]) + 1 /\ rs[Len(reds[l]) + 1] = row
      /\ rs # <<>> /\ \A i \in 1..Len(reds[l]) : rs[i] = reds[l][i]
  BY <1>1, <1>2, AppendProperties
<1>5. /\ os \in Seq(Orders) /\ Len(os) = Len(reds[l]) + 1 /\ os[Len(reds[l]) + 1] = NoOrder
      /\ \A i \in 1..Len(reds[l]) : os[i] = orders[l][i]
  BY <1>1, <1>2, AppendProperties
<1> HIDE DEF rs, os
<1>6. /\ reds'[l] = rs /\ orders'[l] = os
      /\ \A k \in Legs : k # l => reds'[k] = reds[k] /\ orders'[k] = orders[k]
  BY <1>3 DEF RowType
<1>7. RowType'
  <2>1. MaxReductions \in Nat
    BY BoundsAssumption
  <2> QED  BY <1>2, <1>3, <1>4, <1>5, <1>6, <2>1 DEF RowType
<1>8. Row(l)' = row /\ Order(l)' = NoOrder
  BY <1>4, <1>5, <1>6 DEF Row, Order, Last
<1>9. RowInv'
  <2> SUFFICES ASSUME NEW k \in Legs, NEW i \in 1..Len(reds'[k])
               PROVE  /\ Matches(reds'[k][i], orders'[k][i])
                      /\ i < Len(reds'[k]) => reds'[k][i].st \in Final
    BY DEF RowInv
  <2>1. CASE k # l
    BY <1>6, <2>1 DEF RowInv
  <2>2. CASE k = l /\ i = Len(reds[l]) + 1
    <3>1. ~(i < Len(reds'[k]))
      BY <1>2, <1>4, <1>6, <2>2
    <3> QED  BY <1>1, <1>4, <1>5, <1>6, <2>2, <3>1
  <2>3. CASE k = l /\ i # Len(reds[l]) + 1
    <3>1. i \in 1..Len(reds[l])
      BY <1>2, <1>4, <1>6, <2>3
    <3>2. reds[l][i].st \in Final
      <4>1. CASE i = Len(reds[l])
        <5>1. reds[l] # <<>>
          BY <1>2, <3>1, EmptySeq
        <5> QED  BY <4>1, <5>1 DEF Pending, Row, Last
      <4>2. CASE i # Len(reds[l])
        BY <1>2, <3>1, <4>2 DEF RowInv
      <4> QED  BY <4>1, <4>2
    <3> QED  BY <1>4, <1>5, <1>6, <2>3, <3>1, <3>2 DEF RowInv
  <2> QED  BY <2>1, <2>2, <2>3
<1> QED  BY <1>4, <1>5, <1>6, <1>7, <1>8, <1>9 DEF row

-----------------------------------------------------------------------------
(* What the steps have in common.                                           *)

\* The last row of a leg matches its order.
LEMMA LastMatches ==
    ASSUME RowType, RowInv, NEW l \in Legs, reds[l] # <<>>
    PROVE  Matches(Row(l), Order(l))
BY RowFields DEF RowInv

\* Nobody is inside.
LEMMA IdleCaller ==
    ASSUME w'.pc = "idle", w'.leg \in Legs, w' \in Callers
    PROVE  CallerType' /\ CallerInv' /\ TurnInv'
BY DEF CallerType, CallerInv, TurnInv

\* The caller leaves, or there is none.
LEMMA NoCaller ==
    ASSUME CallerType, w' = Idle \/ (LockFree /\ w' = w)
    PROVE  CallerType' /\ CallerInv' /\ TurnInv'
<1>1. w' \in Callers /\ w'.pc = "idle" /\ w'.leg \in Legs
  BY TwoLegs DEF Idle, LockFree, CallerType, Callers
<1> QED  BY <1>1, IdleCaller

\* A caller is inside at a step, of a leg.
LEMMA CallerTo ==
    ASSUME NEW pc, NEW l \in Legs, To(pc, l), pc \in {"attempt", "call", "resolve", "book", "mark"}
    PROVE  CallerType' /\ w'.pc = pc /\ w'.leg = l
BY DEF To, CallerType, Callers

\* One row changes and the caller goes on, or leaves.
LEMMA RowOnly ==
    ASSUME IInv, NEW l \in Legs, reds[l] # <<>>, NEW r, NEW o, RowChange(l, r, o), Matches(r, o),
           UNCHANGED <<trade, opened, booked, plan, entry, position>>,
           CallerType', CountType', CallerInv', TurnInv'
    PROVE  IInv'
<1> USE DEF IInv, Types
<1>1. RowType' /\ RowInv' /\ \A k \in Legs : reds'[k] = <<>> <=> reds[k] = <<>>
  BY RowChanged
<1>2. LegType' /\ PlanType' /\ FlatInv' /\ GroupClosedFlat'
  BY DEF LegType, PlanType, FlatInv, GroupClosedFlat, Recovering
<1>3. HedgeInv'
  BY <1>1, TwoLegs DEF HedgeInv
<1> QED  BY <1>1, <1>2, <1>3

\* The rows stay, and so does what the caller knows.
LEMMA NoRow ==
    ASSUME IInv, UNCHANGED <<trade, reds, orders, w>>
    PROVE  RowType' /\ RowInv' /\ CallerInv' /\ CallerType'
BY DEF IInv, Types, RowType, RowInv, CallerInv, CallerType, Pending, Within, Row, Order

\* A fault is counted, or nothing.
LEMMA Counted ==
    ASSUME CountType, Fault \/ UNCHANGED bounds
    PROVE  CountType'
BY BoundsAssumption DEF CountType, Fault, bounds

\* At first there is the primary leg.
LEMMA InitInv == Init => IInv
<1> SUFFICES ASSUME Init PROVE IInv
  OBVIOUS
<1> USE DEF Init
<1>1. /\ \A l \in Legs : reds[l] = <<>> /\ orders[l] = <<>> /\ booked[l] = 0
      /\ trade["primary"] = [st |-> "open", amount |-> Lots]
      /\ trade["hedge"] = [st |-> "none", amount |-> 0]
      /\ position["primary"] = Lots /\ position["hedge"] = 0
      /\ opened["primary"] = Lots /\ opened["hedge"] = 0
  BY TwoLegs
<1>2. LegType
  BY <1>1, TwoLegs, LotsAssumption DEF LegType, Trades
<1>3. RowType
  <2>1. /\ \A S : <<>> \in Seq(S) /\ Len(<<>>) = 0
        /\ MaxReductions \in Nat
    BY EmptySeq, BoundsAssumption
  <2> QED  BY <1>1, <2>1 DEF RowType
<1>4. RowInv
  BY <1>1, EmptySeq DEF RowInv
<1>5. PlanType /\ CallerType /\ CountType
  BY BoundsAssumption, TwoLegs DEF PlanType, CallerType, Callers, CountType, Idle
<1>6. CallerInv /\ HedgeInv /\ FlatInv /\ TurnInv /\ GroupClosedFlat
  BY <1>1, TwoLegs DEF CallerInv, HedgeInv, FlatInv, TurnInv, GroupClosedFlat, Idle, Recovering
<1> QED  BY <1>2, <1>3, <1>4, <1>5, <1>6 DEF IInv, Types

-----------------------------------------------------------------------------
(* A reduction, step by step.                                               *)

\* What a step does to a pending row and its order, n lots being filled: it goes on, it
\* takes effect, or it is answered.
RedStep(l, n) ==
    /\ Pending(l)
    /\ \E r \in Rows, o \in Orders :
         /\ RowChange(l, r, o) /\ Matches(r, o)
         /\ r.qty = Row(l).qty /\ (Row(l).receipt => r.receipt)
         /\ o.filled = Order(l).filled + n
         /\ \/ r.st \notin Final /\ o.sent = Order(l).sent
            \/ r.st \notin Final /\ Order(l).sent = 0 /\ o.sent = 1
            \/ r.st = "BOOKED" /\ Order(l).sent = 1 /\ o.sent = 1
            \/ r.st = "REFUSED" /\ Order(l).sent = 0 /\ o.sent = 0

\* The row is attempted.
LEMMA AttemptRow ==
    ASSUME IInv, NEW l \in Legs, Attempt(l)
    PROVE  IInv' /\ RedStep(l, 0)
<1> DEFINE r == [Row(l) EXCEPT !.st = "ATTEMPTED"]
<1> USE DEF IInv, Types
<1>1. /\ w.pc = "attempt" /\ w.leg = l /\ Save(l, r) /\ To("call", l)
      /\ UNCHANGED <<trade, opened, booked, plan, entry, position, orders, stopped, faults>>
  BY DEF Attempt, venue, bounds
<1>2. /\ reds[l] # <<>> /\ Row(l).st = "RESERVED" /\ trade[l].st = "open" /\ Pending(l)
      /\ Row(l).qty <= trade[l].amount /\ ~Row(l).receipt
  BY <1>1 DEF CallerInv, Pending, Within
<1>3. r \in Rows /\ r.st = "ATTEMPTED" /\ r.qty = Row(l).qty /\ r.receipt = Row(l).receipt
  BY <1>2, RowFields DEF Rows
<1>4. Matches(Row(l), Order(l)) /\ Order(l) \in Orders
  BY <1>2, LastMatches, RowFields
<1> HIDE DEF r
<1>5. Matches(r, Order(l)) /\ Order(l).sent = 0
  BY <1>2, <1>3, <1>4 DEF Matches, Orders
<1>6. RowChange(l, r, Order(l))
  BY <1>1, <1>2, <1>3, <1>4, RowStep
<1>7. Row(l)' = r /\ Order(l)' = Order(l) /\ reds'[l] # <<>>
  BY <1>2, <1>5, <1>6, RowChanged
<1>8. CallerType' /\ w'.pc = "call" /\ w'.leg = l
  BY <1>1, CallerTo
<1>9. CallerInv'
  BY <1>1, <1>2, <1>3, <1>5, <1>7, <1>8 DEF CallerInv, Pending, Within, Final
<1>10. TurnInv' /\ CountType'
  BY <1>1, <1>8 DEF TurnInv, CountType
<1>11. IInv'
  BY <1>1, <1>2, <1>5, <1>6, <1>8, <1>9, <1>10, RowOnly
<1>12. Order(l).filled + 0 = Order(l).filled
  BY <1>2, RowFields
<1> QED  BY <1>2, <1>3, <1>4, <1>5, <1>6, <1>11, <1>12 DEF RedStep, Final

\* The order is placed, or refused; a lost answer leaves the row as it is.
LEMMA CallRow ==
    ASSUME IInv, NEW l \in Legs, Call(l)
    PROVE  IInv' /\ RedStep(l, 0)
<1> USE DEF IInv, Types
<1>1. /\ w.pc = "call" /\ w.leg = l
      /\ UNCHANGED <<trade, opened, booked, plan, entry, position>>
  BY DEF Call
<1>2. /\ reds[l] # <<>> /\ Row(l).st = "ATTEMPTED" /\ Order(l).sent = 0 /\ trade[l].st = "open"
      /\ Row(l).qty <= trade[l].amount /\ Row(l).receipt = FALSE
  BY <1>1, RowFields DEF CallerInv, Pending, Within, Rows
<1>3. Matches(Row(l), Order(l)) /\ Row(l) \in Rows /\ Order(l) \in Orders
  BY <1>2, LastMatches, RowFields
<1>4. Order(l).st = "none" /\ Order(l).filled = 0 /\ Row(l).qty >= 1
  BY <1>2, <1>3, RowFields DEF Matches
<1> DEFINE o == Placed(Order(l).sent + 1)
<1>5. o \in Orders /\ o.sent = 1 /\ o.st = "working" /\ o.filled = 0
  BY <1>2, LotsAssumption DEF Placed, Orders
<1>6. PICK r \in Rows :
        /\ r.st \in {"ATTEMPTED", "ACKNOWLEDGED", "REFUSED"}
        /\ r.qty = Row(l).qty /\ r.receipt = FALSE
        /\ Save(l, r)
        /\ \/ r.st = "ACKNOWLEDGED" /\ To("resolve", l) /\ UNCHANGED bounds
           \/ r.st = "ATTEMPTED" /\ Release /\ Fault
           \/ r.st = "REFUSED" /\ Release /\ UNCHANGED bounds
        /\ \/ r.st # "REFUSED" /\ orders' = [orders EXCEPT ![l] = Append(Front(@), o)]
           \/ r.st # "ACKNOWLEDGED" /\ UNCHANGED orders
  <2> DEFINE ack == [Row(l) EXCEPT !.st = "ACKNOWLEDGED"]
             ref == [Row(l) EXCEPT !.st = "REFUSED"]
  <2>1. /\ ack \in Rows /\ ack.st = "ACKNOWLEDGED" /\ ack.qty = Row(l).qty /\ ack.receipt = FALSE
        /\ ref \in Rows /\ ref.st = "REFUSED" /\ ref.qty = Row(l).qty /\ ref.receipt = FALSE
    BY <1>2, <1>3 DEF Rows, Final
  <2>2. \/ /\ orders' = [orders EXCEPT ![l] = Append(Front(@), o)]
           /\ \/ Save(l, ack) /\ To("resolve", l) /\ UNCHANGED bounds
              \/ Save(l, Row(l)) /\ Release /\ Fault
        \/ /\ UNCHANGED orders
           /\ \/ Save(l, ref) /\ Release /\ UNCHANGED bounds
              \/ Save(l, Row(l)) /\ Release /\ Fault
    BY DEF Call, AfterLost
  <2> HIDE DEF ack, ref, o
  <2>3. CASE Save(l, ack) /\ To("resolve", l) /\ UNCHANGED bounds
             /\ orders' = [orders EXCEPT ![l] = Append(Front(@), o)]
    <3> ack \in Rows
      BY <2>1
    <3> WITNESS ack \in Rows
    <3> QED  BY <2>1, <2>3
  <2>4. CASE Save(l, ref) /\ Release /\ UNCHANGED bounds /\ UNCHANGED orders
    <3> ref \in Rows
      BY <2>1
    <3> WITNESS ref \in Rows
    <3> QED  BY <2>1, <2>4
  <2>5. CASE /\ Save(l, Row(l)) /\ Release /\ Fault
             /\ UNCHANGED orders \/ orders' = [orders EXCEPT ![l] = Append(Front(@), o)]
    <3> Row(l) \in Rows
      BY <1>3
    <3> WITNESS Row(l) \in Rows
    <3> QED  BY <1>2, <2>5
  <2> QED  BY <2>2, <2>3, <2>4, <2>5
<1> HIDE DEF o
<1>7. PICK p \in Orders :
        /\ RowChange(l, r, p) /\ p.sent \in {0, 1}
        /\ p = o \/ p = Order(l)
        /\ r.st = "ACKNOWLEDGED" => p = o
        /\ r.st = "REFUSED" => p = Order(l)
  <2>1. CASE r.st # "REFUSED" /\ orders' = [orders EXCEPT ![l] = Append(Front(@), o)]
    <3>1. RowChange(l, r, o)
      BY <1>2, <1>5, <1>6, <2>1, RowStep
    <3> QED  BY <1>5, <2>1, <3>1
  <2>2. CASE r.st # "ACKNOWLEDGED" /\ UNCHANGED orders
    <3>1. RowChange(l, r, Order(l))
      BY <1>2, <1>3, <1>6, <2>2, RowStep
    <3> QED  BY <1>2, <1>3, <2>2, <3>1
  <2> QED  BY <1>6, <2>1, <2>2
<1>8. Matches(r, p)
  BY <1>2, <1>4, <1>5, <1>6, <1>7, RowFields DEF Matches
<1>9. Row(l)' = r /\ Order(l)' = p /\ reds'[l] # <<>>
  BY <1>2, <1>7, <1>8, RowChanged
<1>10. CallerType' /\ CallerInv' /\ TurnInv'
  <2>1. CASE Release
    BY <2>1, NoCaller DEF Release
  <2>2. CASE r.st = "ACKNOWLEDGED" /\ To("resolve", l)
    <3>1. CallerType' /\ w'.pc = "resolve" /\ w'.leg = l
      BY <2>2, CallerTo
    <3> QED  BY <1>1, <1>2, <1>6, <1>9, <2>2, <3>1 DEF CallerInv, TurnInv, Pending, Within, Final
  <2> QED  BY <1>6, <2>1, <2>2
<1>11. CountType'
  BY <1>6, Counted
<1>12. IInv'
  BY <1>1, <1>2, <1>7, <1>8, <1>10, <1>11, RowOnly
<1>13. \/ r.st \notin Final /\ p.sent = 1
       \/ r.st \notin Final /\ p.sent = 0
       \/ r.st = "REFUSED" /\ p.sent = 0
  BY <1>2, <1>5, <1>6, <1>7 DEF Final
<1>14. Pending(l) /\ p.filled = Order(l).filled + 0
  BY <1>2, <1>4, <1>5, <1>7 DEF Pending, Final
<1> QED  BY <1>2, <1>6, <1>7, <1>8, <1>12, <1>13, <1>14 DEF RedStep

\* The order is over, or the row stays as it is.
LEMMA ResolveRow ==
    ASSUME IInv, NEW l \in Legs, Resolve(l)
    PROVE  IInv' /\ RedStep(l, 0)
<1> USE DEF IInv, Types
<1>1. /\ w.pc = "resolve" /\ w.leg = l
      /\ UNCHANGED <<trade, opened, booked, plan, entry, position, orders>>
  BY DEF Resolve, venue
<1>2. /\ reds[l] # <<>> /\ Row(l).st \notin Final /\ Row(l).st # "RESERVED" /\ Pending(l)
      /\ trade[l].st = "open" /\ Row(l).qty <= trade[l].amount /\ Row(l).receipt = FALSE
  BY <1>1, RowFields DEF CallerInv, Pending, Within, Rows
<1>3. Matches(Row(l), Order(l)) /\ Row(l) \in Rows /\ Order(l) \in Orders
      /\ Order(l).filled + 0 = Order(l).filled
  BY <1>2, LastMatches, RowFields
<1>4. CASE Release /\ UNCHANGED reds /\ (Fault \/ UNCHANGED bounds)
  <2>1. RowChange(l, Row(l), Order(l))
    BY <1>1, <1>2, <1>3, <1>4, RowStep
  <2>2. CallerType' /\ CallerInv' /\ TurnInv' /\ CountType'
    BY <1>4, NoCaller, Counted DEF Release
  <2>3. IInv'
    BY <1>1, <1>2, <1>3, <2>1, <2>2, RowOnly
  <2> QED  BY <1>2, <1>3, <2>1, <2>3 DEF RedStep
<1>5. CASE /\ Order(l).st = "ended" /\ Save(l, [Row(l) EXCEPT !.st = "TERMINAL"])
           /\ To("book", l) /\ UNCHANGED bounds
  <2> DEFINE r == [Row(l) EXCEPT !.st = "TERMINAL"]
  <2>1. r \in Rows /\ r.st = "TERMINAL" /\ r.qty = Row(l).qty /\ r.receipt = FALSE
    BY <1>2, <1>3 DEF Rows
  <2>2. Save(l, r)
    BY <1>5
  <2> HIDE DEF r
  <2>3. Matches(r, Order(l))
    BY <1>3, <1>5, <2>1 DEF Matches, Orders
  <2>4. RowChange(l, r, Order(l))
    BY <1>1, <1>2, <1>3, <2>1, <2>2, RowStep
  <2>5. Row(l)' = r /\ Order(l)' = Order(l) /\ reds'[l] # <<>>
    BY <1>2, <2>3, <2>4, RowChanged
  <2>6. CallerType' /\ w'.pc = "book" /\ w'.leg = l
    BY <1>5, CallerTo
  <2>7. CallerInv' /\ TurnInv' /\ CountType'
    BY <1>1, <1>2, <1>5, <2>1, <2>5, <2>6, Counted
       DEF CallerInv, TurnInv, Pending, Within, Final
  <2>8. IInv'
    BY <1>1, <1>2, <2>3, <2>4, <2>6, <2>7, RowOnly
  <2>9. r.st \notin Final
    BY <2>1 DEF Final
  <2> QED  BY <1>2, <1>3, <2>1, <2>3, <2>4, <2>8, <2>9 DEF RedStep
<1> QED  BY <1>4, <1>5 DEF Resolve

\* The reduction is booked with its receipt, or not at all.
LEMMA BookRow ==
    ASSUME IInv, NEW l \in Legs, Book(l)
    PROVE  /\ IInv' /\ RedStep(l, 0)
           /\ Row(l)'.receipt \/ UNCHANGED <<trade, booked>>
<1> DEFINE left == trade[l].amount - Order(l).filled
<1> USE DEF IInv, Types
<1>1. /\ w.pc = "book" /\ w.leg = l
      /\ UNCHANGED <<opened, plan, entry, position, orders, stopped, faults>>
  BY DEF Book, venue, bounds
<1>2. /\ reds[l] # <<>> /\ Row(l).st = "TERMINAL" /\ Pending(l)
      /\ trade[l].st = "open" /\ Row(l).receipt = FALSE
  BY <1>1, RowFields DEF CallerInv, Pending, Rows
<1>3. Matches(Row(l), Order(l)) /\ Row(l) \in Rows /\ Order(l) \in Orders
      /\ Order(l).filled + 0 = Order(l).filled /\ Order(l).filled \in Nat
  BY <1>2, LastMatches, RowFields
<1>4. CASE Release /\ UNCHANGED <<trade, booked, reds>>
  <2>1. RowChange(l, Row(l), Order(l))
    BY <1>1, <1>2, <1>3, <1>4, RowStep
  <2>2. CallerType' /\ CallerInv' /\ TurnInv' /\ CountType'
    BY <1>1, <1>4, NoCaller DEF Release, CountType
  <2>3. IInv'
    BY <1>1, <1>2, <1>3, <1>4, <2>1, <2>2, RowOnly
  <2> QED  BY <1>2, <1>3, <1>4, <2>1, <2>3 DEF RedStep, Final
<1>5. CASE /\ Order(l).filled > 0 /\ (left > 0 \/ position[l] = 0)
           /\ IF left > 0 THEN Align(l, left, Order(l).filled) ELSE CloseTrade(l, Order(l).filled)
           /\ Save(l, [Row(l) EXCEPT !.receipt = TRUE])
           /\ To("mark", l)
  <2> DEFINE r == [Row(l) EXCEPT !.receipt = TRUE]
  <2>1. r \in Rows /\ r.st = "TERMINAL" /\ r.qty = Row(l).qty /\ r.receipt = TRUE
    BY <1>2, <1>3 DEF Rows
  <2>2. Save(l, r)
    BY <1>5
  <2> HIDE DEF r
  <2>3. Matches(r, Order(l))
    BY <1>2, <1>3, <2>1 DEF Matches
  <2>4. RowChange(l, r, Order(l))
    BY <1>1, <1>2, <1>3, <2>1, <2>2, RowStep
  <2>5. /\ Row(l)' = r /\ Order(l)' = Order(l) /\ reds'[l] # <<>> /\ RowType' /\ RowInv'
        /\ \A k \in Legs : reds'[k] = <<>> <=> reds[k] = <<>>
    BY <1>2, <2>3, <2>4, RowChanged
  <2>6. CallerType' /\ w'.pc = "mark" /\ w'.leg = l
    BY <1>5, CallerTo
  <2>7. CallerInv' /\ TurnInv' /\ CountType' /\ PlanType'
    BY <1>1, <2>1, <2>5, <2>6 DEF CallerInv, TurnInv, Pending, Final, CountType, PlanType
  <2>8. /\ trade' \in [Legs -> Trades] /\ booked' \in [Legs -> Nat]
        /\ \A k \in Legs : k # l => trade'[k] = trade[k] /\ booked'[k] = booked[k]
        /\ \/ trade'[l].st = "open" /\ trade'[l].amount = left /\ left > 0
           \/ trade'[l].st = "closed" /\ position[l] = 0
    <3>1. trade[l].amount \in Nat /\ booked[l] \in Nat /\ trade[l].amount <= Lots
      BY LegFields
    <3>2. CASE left > 0 /\ Align(l, left, Order(l).filled)
      <4>1. left \in 0..Lots /\ booked[l] + Order(l).filled \in Nat
        BY <1>3, <3>1, <3>2, LotsAssumption
      <4> HIDE DEF left
      <4>2. /\ trade' = [trade EXCEPT ![l].amount = left]
            /\ booked' = [booked EXCEPT ![l] = booked[l] + Order(l).filled]
        BY <3>2 DEF Align
      <4>3. trade' \in [Legs -> Trades] /\ trade'[l].st = "open" /\ trade'[l].amount = left
            /\ \A k \in Legs : k # l => trade'[k] = trade[k]
        BY <1>2, <4>1, <4>2 DEF LegType, Trades
      <4>4. booked' \in [Legs -> Nat] /\ \A k \in Legs : k # l => booked'[k] = booked[k]
        BY <4>1, <4>2 DEF LegType
      <4> QED  BY <3>2, <4>3, <4>4
    <3>3. CASE position[l] = 0 /\ CloseTrade(l, Order(l).filled)
      <4>1. booked[l] + Order(l).filled \in Nat
        BY <1>3, <3>1
      <4>2. trade' \in [Legs -> Trades] /\ trade'[l].st = "closed"
            /\ \A k \in Legs : k # l => trade'[k] = trade[k]
        BY <3>3 DEF CloseTrade, LegType, Trades
      <4>3. booked' \in [Legs -> Nat] /\ \A k \in Legs : k # l => booked'[k] = booked[k]
        BY <3>3, <4>1 DEF CloseTrade, LegType
      <4> QED  BY <3>3, <4>2, <4>3
    <3> QED  BY <1>5, <3>2, <3>3
  <2>9. LegType' /\ FlatInv' /\ GroupClosedFlat'
    BY <1>1, <2>8 DEF LegType, FlatInv, GroupClosedFlat, Recovering
  <2>10. HedgeInv'
    BY <1>1, <1>2, <2>5, <2>8, TwoLegs DEF HedgeInv
  <2>11. IInv'
    BY <2>5, <2>6, <2>7, <2>9, <2>10
  <2>12. r.st \notin Final
    BY <2>1 DEF Final
  <2> QED  BY <1>2, <1>3, <2>1, <2>3, <2>4, <2>5, <2>11, <2>12 DEF RedStep
<1> QED  BY <1>4, <1>5 DEF Book

\* A row is said to be booked once its receipt is there.
LEMMA BookedRow ==
    ASSUME IInv, NEW l \in Legs, Pending(l), Row(l).receipt,
           Save(l, [Row(l) EXCEPT !.st = "BOOKED"]), w' = Idle \/ (LockFree /\ UNCHANGED w),
           UNCHANGED <<trade, opened, booked, plan, entry, position, orders, stopped, faults>>
    PROVE  IInv' /\ RedStep(l, 0)
<1> DEFINE r == [Row(l) EXCEPT !.st = "BOOKED"]
<1> USE DEF IInv, Types
<1>1. reds[l] # <<>> /\ Matches(Row(l), Order(l)) /\ Row(l) \in Rows /\ Order(l) \in Orders
      /\ Order(l).filled + 0 = Order(l).filled
  BY LastMatches, RowFields DEF Pending
<1>2. r \in Rows /\ r.st = "BOOKED" /\ r.qty = Row(l).qty /\ r.receipt = Row(l).receipt
  BY <1>1 DEF Rows, Final
<1>3. Save(l, r)
  OBVIOUS
<1> HIDE DEF r
<1>4. Order(l).sent = 1 /\ Matches(r, Order(l))
  BY <1>1, <1>2 DEF Matches, Pending, Final
<1>5. RowChange(l, r, Order(l))
  BY <1>1, <1>2, <1>3, RowStep
<1>6. CallerType' /\ CallerInv' /\ TurnInv' /\ CountType'
  BY NoCaller DEF CountType
<1>7. IInv'
  BY <1>1, <1>4, <1>5, <1>6, RowOnly
<1> QED  BY <1>1, <1>2, <1>4, <1>5, <1>7 DEF RedStep

\* The row that was booked is marked.
LEMMA MarkRow ==
    ASSUME IInv, NEW l \in Legs, Mark(l)
    PROVE  IInv' /\ RedStep(l, 0)
<1>1. /\ w.pc = "mark" /\ w.leg = l /\ w' = Idle /\ Save(l, [Row(l) EXCEPT !.st = "BOOKED"])
      /\ UNCHANGED <<trade, opened, booked, plan, entry, position, orders, stopped, faults>>
  BY DEF Mark, Release, venue, bounds
<1>2. Pending(l) /\ Row(l).receipt
  BY <1>1 DEF IInv, CallerInv
<1> QED  BY <1>1, <1>2, BookedRow

\* A pending row is taken up again, in the leg's turn.
LEMMA ResumeRow ==
    ASSUME IInv, NEW l \in Legs, LockFree, Resume(l), Turn(l) \/ plan = "none",
           UNCHANGED <<trade, opened, booked, plan, entry, position, stopped, faults>>
    PROVE  IInv' /\ RedStep(l, 0)
<1> USE DEF IInv, Types
<1>1. Pending(l) /\ UNCHANGED orders /\ reds[l] # <<>>
  BY DEF Resume, Pending
<1>2. CASE Row(l).receipt
  <2>1. Save(l, [Row(l) EXCEPT !.st = "BOOKED"]) /\ UNCHANGED w
    BY <1>2 DEF Resume
  <2> QED  BY <1>1, <1>2, <2>1, BookedRow
<1>3. CASE ~Row(l).receipt
  <2>1. /\ trade[l].st = "open" /\ Within(l) /\ UNCHANGED reds
        /\ To(IF Unsent(l) THEN "attempt" ELSE "resolve", l)
    BY <1>3 DEF Resume
  <2>2. Matches(Row(l), Order(l)) /\ Row(l) \in Rows /\ Order(l) \in Orders
        /\ Order(l).filled + 0 = Order(l).filled
    BY <1>1, LastMatches, RowFields
  <2>3. RowChange(l, Row(l), Order(l))
    BY <1>1, <2>1, <2>2, RowStep
  <2>4. CallerType' /\ w'.leg = l /\ w'.pc = IF Unsent(l) THEN "attempt" ELSE "resolve"
    BY <2>1, CallerTo
  <2>5. CallerInv'
    BY <1>1, <1>3, <2>1, <2>4 DEF CallerInv, Pending, Within, Row, Unsent
  <2>6. TurnInv' /\ CountType'
    BY <2>4 DEF TurnInv, Turn, CountType
  <2>7. IInv'
    BY <1>1, <2>2, <2>3, <2>4, <2>5, <2>6, RowOnly
  <2> QED  BY <1>1, <2>2, <2>3, <2>7 DEF RedStep, Pending
<1> QED  BY <1>2, <1>3

\* A new reduction is of the trade as it is, or of a part of it.
LEMMA InsertRow ==
    ASSUME IInv, NEW l \in Legs, trade[l].st = "open", ~Pending(l), NEW qty \in 1..Lots,
           qty <= trade[l].amount, Insert(l, qty), Turn(l) \/ plan = "none",
           UNCHANGED <<trade, opened, booked, plan, entry, position, stopped, faults>>
    PROVE  IInv'
<1> USE DEF IInv, Types
<1>1. /\ RowType' /\ RowInv' /\ reds'[l] # <<>>
      /\ Row(l)' = [st |-> "RESERVED", qty |-> qty, receipt |-> FALSE]
      /\ \A k \in Legs : k # l => reds'[k] = reds[k]
  BY InsertStep
<1>2. CallerType' /\ w'.pc = "attempt" /\ w'.leg = l
  BY CallerTo DEF Insert
<1>3. CallerInv'
  BY <1>1, <1>2 DEF CallerInv, Pending, Within, Final
<1>4. LegType' /\ PlanType' /\ CountType' /\ FlatInv' /\ GroupClosedFlat'
  BY DEF LegType, PlanType, CountType, FlatInv, GroupClosedFlat, Recovering
<1>5. HedgeInv'
  BY <1>1, TwoLegs DEF HedgeInv
<1>6. TurnInv'
  BY <1>2 DEF TurnInv, Turn
<1> QED  BY <1>1, <1>2, <1>3, <1>4, <1>5, <1>6

\* The order moves at the venue.
LEMMA OrderRow ==
    ASSUME IInv, NEW l \in Legs, reds[l] # <<>>, NEW o \in Orders, NEW n \in {0, 1},
           orders' = [orders EXCEPT ![l] = Append(Front(@), o)],
           Order(l).st = "working", o.sent = Order(l).sent, o.filled = Order(l).filled + n,
           Matches(Row(l), o), UNCHANGED <<trade, reds, w>>
    PROVE  RowType' /\ RowInv' /\ CallerInv' /\ CallerType' /\ RedStep(l, n)
<1> USE DEF IInv, Types
<1>1. Row(l) \in Rows /\ Matches(Row(l), Order(l)) /\ Order(l) \in Orders
  BY LastMatches, RowFields
<1>2. Pending(l)
  BY <1>1 DEF Pending, Matches, Final, Orders
<1>3. RowChange(l, Row(l), o)
  BY <1>1, RowStep
<1>4. RowType' /\ RowInv' /\ Order(l)' = o /\ \A k \in Legs : k # l => orders'[k] = orders[k]
  BY <1>3, RowChanged
<1>5. CallerType' /\ (w.pc # "idle" => w.leg \in Legs)
  BY DEF CallerType, Callers
<1>6. \A k \in Legs : Order(k)'.sent = Order(k).sent
  BY <1>4 DEF Order
<1>7. CallerInv'
  BY <1>5, <1>6 DEF CallerInv, Pending, Within, Row
<1>8. RedStep(l, n)
  BY <1>1, <1>2, <1>3 DEF RedStep, Pending
<1> QED  BY <1>4, <1>5, <1>7, <1>8

\* A reduce-only order fills a lot of what is held.
LEMMA FillRow ==
    ASSUME IInv, NEW l \in Legs, FillOrder(l)
    PROVE  IInv' /\ RedStep(l, 1)
<1> DEFINE o == [Order(l) EXCEPT !.filled = @ + 1,
                                 !.st = IF Order(l).filled + 1 = Row(l).qty THEN "ended" ELSE @]
<1> USE DEF IInv, Types
<1>1. /\ orders[l] # <<>> /\ Order(l).st = "working" /\ position[l] > 0
      /\ orders' = [orders EXCEPT ![l] = Append(Front(@), o)]
      /\ position' = [position EXCEPT ![l] = @ - 1]
      /\ UNCHANGED <<trade, opened, booked, reds, plan, entry, w, stopped, faults>>
  BY DEF FillOrder, durable, bounds
<1>2. reds[l] # <<>>
  BY <1>1, EmptySeq DEF RowType
<1>3. Matches(Row(l), Order(l)) /\ Order(l) \in Orders /\ Row(l).qty \in Nat /\ Row(l).qty <= Lots
      /\ Order(l).filled \in Nat /\ Order(l).filled < Row(l).qty
  BY <1>1, <1>2, LastMatches, RowFields DEF Matches
<1>4. Order(l).filled + 1 \in 0..Lots /\ Order(l).filled + 1 <= Row(l).qty
      /\ (Order(l).filled + 1 # Row(l).qty => Order(l).filled + 1 < Row(l).qty)
  BY <1>3, LotsAssumption
<1>5. /\ o \in Orders /\ o.sent = Order(l).sent /\ o.filled = Order(l).filled + 1
      /\ o.st = IF Order(l).filled + 1 = Row(l).qty THEN "ended" ELSE "working"
  BY <1>1, <1>3, <1>4 DEF Orders
<1> HIDE DEF o
<1>6. Matches(Row(l), o)
  BY <1>1, <1>2, <1>3, <1>4, <1>5, RowFields DEF Matches
<1>7. RowType' /\ RowInv' /\ CallerInv' /\ CallerType' /\ RedStep(l, 1)
  BY <1>1, <1>2, <1>5, <1>6, OrderRow
<1>8. position' \in [Legs -> 0..Lots] /\ \A k \in Legs : position[k] = 0 => position'[k] = 0
  <2>1. position[l] \in 0..Lots /\ position[l] - 1 \in 0..Lots
    BY <1>1, LotsAssumption DEF LegType
  <2> QED  BY <1>1, <2>1 DEF LegType
<1>9. LegType' /\ PlanType' /\ CountType'
  BY <1>1, <1>8 DEF LegType, PlanType, CountType
<1>10. HedgeInv' /\ FlatInv' /\ TurnInv' /\ GroupClosedFlat'
  BY <1>1, <1>8, TwoLegs DEF HedgeInv, FlatInv, TurnInv, GroupClosedFlat, Recovering
<1> QED  BY <1>7, <1>9, <1>10

\* An order expires short.
LEMMA EndRow ==
    ASSUME IInv, NEW l \in Legs, EndOrder(l)
    PROVE  IInv' /\ RedStep(l, 0)
<1> DEFINE o == [Order(l) EXCEPT !.st = "ended"]
<1> USE DEF IInv, Types
<1>1. /\ orders[l] # <<>> /\ Order(l).st = "working"
      /\ orders' = [orders EXCEPT ![l] = Append(Front(@), o)]
      /\ UNCHANGED <<trade, opened, booked, reds, plan, entry, position, w, stopped, faults>>
  BY DEF EndOrder, durable, bounds
<1>2. reds[l] # <<>>
  BY <1>1, EmptySeq DEF RowType
<1>3. Matches(Row(l), Order(l)) /\ Order(l) \in Orders /\ Order(l).filled + 0 = Order(l).filled
  BY <1>2, LastMatches, RowFields
<1>4. o \in Orders /\ o.sent = Order(l).sent /\ o.filled = Order(l).filled /\ o.st = "ended"
  BY <1>3 DEF Orders
<1> HIDE DEF o
<1>5. Matches(Row(l), o)
  BY <1>1, <1>3, <1>4 DEF Matches, Orders
<1>6. RowType' /\ RowInv' /\ CallerInv' /\ CallerType' /\ RedStep(l, 0)
  BY <1>1, <1>2, <1>3, <1>4, <1>5, OrderRow
<1>7. LegType' /\ PlanType' /\ CountType'
  BY <1>1 DEF LegType, PlanType, CountType
<1>8. HedgeInv' /\ FlatInv' /\ TurnInv' /\ GroupClosedFlat'
  BY <1>1 DEF HedgeInv, FlatInv, TurnInv, GroupClosedFlat, Recovering
<1> QED  BY <1>6, <1>7, <1>8

-----------------------------------------------------------------------------
(* The other steps: no row and no order changes.                            *)

\* The plan of the group.
LEMMA PlanStep ==
    ASSUME IInv, RequestClose \/ UnwindDone
    PROVE  IInv' /\ UNCHANGED <<reds, orders>>
<1> USE DEF IInv, Types
<1>1. /\ LockFree /\ plan' \in {"UNWINDING", "CLOSED"}
      /\ UNCHANGED <<trade, opened, booked, reds, entry, position, orders, w, stopped, faults>>
      /\ plan' = "CLOSED" => Settled /\ \A l \in Legs : Gone(l)
  BY DEF RequestClose, UnwindDone, venue, bounds
<1>2. RowType' /\ RowInv' /\ CallerInv' /\ CallerType'
  BY <1>1, NoRow
<1>3. LegType' /\ PlanType' /\ CountType' /\ HedgeInv' /\ FlatInv'
  BY <1>1 DEF LegType, PlanType, CountType, HedgeInv, FlatInv
<1>4. TurnInv' /\ GroupClosedFlat'
  BY <1>1 DEF TurnInv, GroupClosedFlat, Recovering, Settled, Gone, LockFree
<1> QED  BY <1>1, <1>2, <1>3, <1>4

\* The hedge is entered and fills.
LEMMA EntryStep ==
    ASSUME IInv, EnterHedge \/ HedgeFills
    PROVE  IInv' /\ UNCHANGED <<reds, orders>>
<1> USE DEF IInv, Types
<1>1. /\ UNCHANGED <<trade, opened, booked, reds, plan, orders, w, stopped, faults>>
      /\ entry' \in {"sent", "ended"} /\ entry # "done" /\ plan # "CLOSED"
  BY DEF EnterHedge, HedgeFills, durable, venue, bounds, GroupClosedFlat, Recovering
<1>2. /\ position' \in [Legs -> 0..Lots] /\ position'["primary"] = position["primary"]
  <2>1. CASE EnterHedge
    BY <2>1 DEF EnterHedge, venue, LegType
  <2>2. CASE HedgeFills
    <3>1. PICK n \in 0..HedgeLots : position' = [position EXCEPT !["hedge"] = n]
      BY <2>2 DEF HedgeFills
    <3>2. n \in 0..Lots
      BY HedgeAssumption, LotsAssumption
    <3> QED  BY <3>1, <3>2, TwoLegs DEF LegType
  <2> QED  BY <2>1, <2>2
<1>3. RowType' /\ RowInv' /\ CallerInv' /\ CallerType'
  BY <1>1, NoRow
<1>4. LegType' /\ PlanType' /\ CountType' /\ HedgeInv' /\ TurnInv' /\ GroupClosedFlat'
  BY <1>1, <1>2 DEF LegType, PlanType, CountType, HedgeInv, TurnInv, GroupClosedFlat
<1>5. FlatInv'
  BY <1>1, <1>2, TwoLegs DEF FlatInv, HedgeInv
<1> QED  BY <1>1, <1>3, <1>4, <1>5

\* What the hedge's entry filled becomes its trade.
LEMMA RecoverStep ==
    ASSUME IInv, RecoverHedge
    PROVE  IInv' /\ UNCHANGED <<reds, orders>>
<1> DEFINE n == position["hedge"]
           t == [st |-> "open", amount |-> n]
<1> USE DEF IInv, Types
<1>1. /\ LockFree /\ entry = "ended" /\ entry' = "done"
      /\ UNCHANGED <<booked, reds, plan, position, orders, w, stopped, faults>>
      /\ opened' = [opened EXCEPT !["hedge"] = n]
      /\ trade' = IF n = 0 THEN trade ELSE [trade EXCEPT !["hedge"] = t]
  BY DEF RecoverHedge, venue, bounds
<1>2. n \in 0..Lots /\ (n # 0 => n > 0 /\ t \in Trades)
  BY TwoLegs, LotsAssumption DEF LegType, Trades
<1>3. t.st = "open" /\ t.amount = n
  OBVIOUS
<1> HIDE DEF n, t
<1>4. /\ trade' \in [Legs -> Trades] /\ opened' \in [Legs -> 0..Lots]
      /\ trade'["primary"] = trade["primary"] /\ opened'["hedge"] = n
      /\ trade'["hedge"] = IF n = 0 THEN trade["hedge"] ELSE t
  BY <1>1, <1>2, TwoLegs DEF LegType
<1>5. LegType'
  BY <1>1, <1>2, <1>3, <1>4, TwoLegs DEF LegType
<1>6. RowType' /\ RowInv' /\ CallerInv' /\ CallerType'
  BY <1>1 DEF RowType, RowInv, CallerInv, CallerType, LockFree
<1>7. PlanType' /\ CountType' /\ TurnInv' /\ GroupClosedFlat'
  BY <1>1 DEF PlanType, CountType, TurnInv, GroupClosedFlat, Recovering
<1>8. HedgeInv' /\ FlatInv'
  <2>1. trade["hedge"].st = "none"
    BY <1>1 DEF HedgeInv
  <2> QED  BY <1>1, <1>3, <1>4, <2>1, TwoLegs DEF HedgeInv, FlatInv
<1> QED  BY <1>1, <1>5, <1>6, <1>7, <1>8

\* The journal follows the venue.
LEMMA ReconcileStep ==
    ASSUME IInv, NEW l \in Legs, Reconcile(l)
    PROVE  IInv' /\ UNCHANGED <<reds, orders>>
<1> USE DEF IInv, Types
<1>1. /\ LockFree /\ trade[l].st = "open"
      /\ UNCHANGED <<opened, reds, plan, entry, position, orders, w, stopped, faults>>
  BY DEF Reconcile, venue, bounds
<1>2. /\ trade' \in [Legs -> Trades] /\ booked' \in [Legs -> Nat]
      /\ \A k \in Legs : k # l => trade'[k] = trade[k] /\ booked'[k] = booked[k]
      /\ \/ trade'[l].st = "open" /\ trade'[l].amount > 0
         \/ trade'[l].st = "closed" /\ position[l] = 0
  <2>1. trade[l].amount \in Nat /\ booked[l] \in Nat /\ position[l] \in Nat /\ position[l] <= Lots
    BY LegFields
  <2>2. CASE position[l] # 0
    <3> DEFINE lots == IF position[l] < trade[l].amount THEN trade[l].amount - position[l] ELSE 0
               m == position[l]
    <3>1. m \in 0..Lots /\ m > 0 /\ booked[l] + lots \in Nat
      BY <2>1, <2>2, LotsAssumption
    <3>2. /\ trade' = [trade EXCEPT ![l].amount = m]
          /\ booked' = [booked EXCEPT ![l] = booked[l] + lots]
      BY <2>2 DEF Reconcile, Align
    <3> HIDE DEF lots, m
    <3>3. trade' \in [Legs -> Trades] /\ trade'[l].st = "open" /\ trade'[l].amount = m
          /\ \A k \in Legs : k # l => trade'[k] = trade[k]
      BY <1>1, <3>1, <3>2 DEF LegType, Trades
    <3>4. booked' \in [Legs -> Nat] /\ \A k \in Legs : k # l => booked'[k] = booked[k]
      BY <3>1, <3>2 DEF LegType
    <3> QED  BY <3>1, <3>3, <3>4
  <2>3. CASE position[l] = 0
    <3>1. CloseTrade(l, trade[l].amount) /\ booked[l] + trade[l].amount \in Nat
      BY <2>1, <2>3 DEF Reconcile
    <3>2. trade' \in [Legs -> Trades] /\ trade'[l].st = "closed"
          /\ \A k \in Legs : k # l => trade'[k] = trade[k]
      BY <3>1 DEF CloseTrade, LegType, Trades
    <3>3. booked' \in [Legs -> Nat] /\ \A k \in Legs : k # l => booked'[k] = booked[k]
      BY <3>1 DEF CloseTrade, LegType
    <3> QED  BY <2>3, <3>2, <3>3
  <2> QED  BY <2>2, <2>3
<1>3. LegType' /\ FlatInv'
  BY <1>1, <1>2 DEF LegType, FlatInv
<1>4. RowType' /\ RowInv' /\ CallerInv' /\ CallerType'
  BY <1>1 DEF RowType, RowInv, CallerInv, CallerType, LockFree
<1>5. PlanType' /\ CountType' /\ TurnInv' /\ GroupClosedFlat'
  BY <1>1 DEF PlanType, CountType, TurnInv, GroupClosedFlat, Recovering
<1>6. HedgeInv'
  BY <1>1, <1>2, TwoLegs DEF HedgeInv
<1> QED  BY <1>1, <1>3, <1>4, <1>5, <1>6

\* A protective stop sells some of what is held.
LEMMA StopStep ==
    ASSUME IInv, NEW l \in Legs, StopFires(l)
    PROVE  /\ IInv' /\ UNCHANGED <<reds, orders>>
           /\ position'[l] <= position[l] /\ \A k \in Legs : k # l => position'[k] = position[k]
<1> USE DEF IInv, Types
<1>1. /\ UNCHANGED <<trade, opened, booked, reds, plan, entry, orders, w, faults>>
      /\ trade[l].st = "open" /\ stopped < MaxStops /\ stopped' = stopped + 1
  BY DEF StopFires, durable
<1>2. PICK left \in 0..(position[l] - 1) : position' = [position EXCEPT ![l] = left]
  BY DEF StopFires
<1>3. position[l] \in Nat /\ position[l] <= Lots
  BY LegFields
<1>4. left \in 0..Lots /\ left <= position[l] /\ position[l] # 0
  BY <1>2, <1>3, LotsAssumption
<1>5. /\ position' \in [Legs -> 0..Lots] /\ position'[l] = left
      /\ \A k \in Legs : k # l => position'[k] = position[k]
  BY <1>2, <1>4 DEF LegType
<1>6. \A k \in Legs : position[k] = 0 => position'[k] = 0
  BY <1>4, <1>5
<1>7. RowType' /\ RowInv' /\ CallerInv' /\ CallerType'
  BY <1>1, NoRow
<1>8. LegType' /\ PlanType' /\ CountType'
  BY <1>1, <1>5, BoundsAssumption DEF LegType, PlanType, CountType
<1>9. HedgeInv' /\ FlatInv' /\ TurnInv' /\ GroupClosedFlat'
  BY <1>1, <1>6, TwoLegs DEF HedgeInv, FlatInv, TurnInv, GroupClosedFlat, Recovering
<1> QED  BY <1>1, <1>4, <1>5, <1>7, <1>8, <1>9

\* The process dies.
LEMMA CrashStep ==
    ASSUME IInv, Crash
    PROVE  IInv' /\ UNCHANGED <<reds, orders>>
<1> USE DEF IInv, Types
<1>1. /\ UNCHANGED <<trade, opened, booked, reds, plan, entry, position, orders>> /\ w' = Idle
      /\ Fault
  BY DEF Crash, durable, venue, Release
<1>2. CallerType' /\ CallerInv' /\ TurnInv' /\ CountType'
  BY <1>1, NoCaller, Counted
<1>3. RowType' /\ RowInv'
  BY <1>1 DEF RowType, RowInv
<1>4. LegType' /\ PlanType' /\ HedgeInv' /\ FlatInv' /\ GroupClosedFlat'
  BY <1>1 DEF LegType, PlanType, HedgeInv, FlatInv, GroupClosedFlat, Recovering
<1> QED  BY <1>1, <1>2, <1>3, <1>4

-----------------------------------------------------------------------------
(* Every step.                                                              *)

\* What a step does to the reductions: one moves, one is added, or none.
RowsMove ==
    \/ \E l \in Legs : RedStep(l, 0) \/ RedStep(l, 1)
    \/ \E l \in Legs, qty \in 1..Lots : ~Pending(l) /\ Insert(l, qty)
    \/ UNCHANGED <<reds, orders>>

\* The callers of a reduction.
LEMMA CallersStep ==
    ASSUME IInv, NEW l \in Legs, LiveReduce(l) \/ LiveRetry(l) \/ UnwindLeg(l)
    PROVE  IInv' /\ RowsMove
<1>1. /\ LockFree
      /\ UNCHANGED <<trade, opened, booked, plan, entry, position, stopped, faults>>
      /\ Turn(l) \/ plan = "none"
  BY DEF LiveReduce, LiveRetry, UnwindLeg, bounds
<1>2. CASE Resume(l)
  <2>1. IInv' /\ RedStep(l, 0)
    BY <1>1, <1>2, ResumeRow
  <2> QED  BY <2>1 DEF RowsMove
<1>3. CASE /\ trade[l].st = "open" /\ ~Pending(l)
           /\ \E qty \in Deltas \cup {trade[l].amount} : qty <= trade[l].amount /\ Insert(l, qty)
  <2>1. PICK qty \in Deltas \cup {trade[l].amount} : qty <= trade[l].amount /\ Insert(l, qty)
    BY <1>3
  <2>2. trade[l].amount \in 1..Lots
    BY <1>3, LegFields DEF IInv, Types
  <2>3. qty \in 1..Lots
    BY <2>1, <2>2, DeltasAssumption
  <2>4. IInv'
    BY <1>1, <1>3, <2>1, <2>3, InsertRow
  <2> QED  BY <1>3, <2>1, <2>3, <2>4 DEF RowsMove
<1>4. CASE trade[l].st = "open" /\ ~Pending(l) /\ Insert(l, trade[l].amount)
  <2>1. trade[l].amount \in 1..Lots /\ trade[l].amount <= trade[l].amount
    BY <1>4, LegFields DEF IInv, Types
  <2>2. IInv'
    BY <1>1, <1>4, <2>1, InsertRow
  <2> QED  BY <1>4, <2>1, <2>2 DEF RowsMove
<1>5. QED  BY <1>2, <1>3, <1>4 DEF LiveReduce, LiveRetry, UnwindLeg, Turn

\* The invariant is inductive.
LEMMA NextStep ==
    ASSUME IInv, [Next]_vars
    PROVE  IInv' /\ RowsMove
<1>1. CASE \E l \in Legs : Step(l)
  <2>1. PICK l \in Legs : Step(l)
    BY <1>1
  <2>2. IInv' /\ RedStep(l, 0)
    BY <2>1, AttemptRow, CallRow, ResolveRow, BookRow, MarkRow DEF Step
  <2> QED  BY <2>2 DEF RowsMove
<1>2. CASE \E l \in Legs : LiveReduce(l) \/ LiveRetry(l) \/ UnwindLeg(l)
  BY <1>2, CallersStep
<1>3. CASE \E l \in Legs : Reconcile(l) \/ StopFires(l)
  BY <1>3, ReconcileStep, StopStep DEF RowsMove
<1>4. CASE \E l \in Legs : FillOrder(l) \/ EndOrder(l)
  <2>1. PICK l \in Legs : FillOrder(l) \/ EndOrder(l)
    BY <1>4
  <2>2. IInv' /\ (RedStep(l, 0) \/ RedStep(l, 1))
    BY <2>1, FillRow, EndRow
  <2> QED  BY <2>2 DEF RowsMove
<1>5. CASE RequestClose \/ UnwindDone
  BY <1>5, PlanStep DEF RowsMove
<1>6. CASE EnterHedge \/ HedgeFills
  BY <1>6, EntryStep DEF RowsMove
<1>7. CASE RecoverHedge
  BY <1>7, RecoverStep DEF RowsMove
<1>8. CASE Crash
  BY <1>8, CrashStep DEF RowsMove
<1>9. CASE Control \/ OthersPending \/ UNCHANGED vars
  <2>1. UNCHANGED <<trade, opened, booked, reds, plan, entry, position, orders, w, stopped, faults>>
    BY <1>9 DEF Control, OthersPending, vars, durable, venue, bounds
  <2>2. RowType' /\ RowInv' /\ CallerInv' /\ CallerType'
    BY <2>1, NoRow
  <2>3. IInv'
    BY <2>1, <2>2 DEF IInv, Types, LegType, PlanType, CountType, HedgeInv, FlatInv, TurnInv,
                      GroupClosedFlat, Recovering
  <2> QED  BY <2>1, <2>3 DEF RowsMove
<1> QED  BY <1>1, <1>2, <1>3, <1>4, <1>5, <1>6, <1>7, <1>8, <1>9 DEF Next

\* In every state, the types, the rows and their orders, the callers and the legs are as
\* the invariant says.
LEMMA Invariance == Spec => []IInv
<1>1. IInv /\ [Next]_vars => IInv'
  BY NextStep
<1> QED  BY InitInv, <1>1, PTL DEF Spec

\* The system's own state is not of the group.
SystemType == system \in {"free", "HALTED", "recovering"}

LEMMA SystemTypeCorrect == Spec => []SystemType
<1>1. Init => SystemType
  BY DEF Init, SystemType
<1>2. SystemType /\ [Next]_vars => SystemType'
  <2> SUFFICES ASSUME SystemType, [Next]_vars PROVE SystemType'
    OBVIOUS
  <2>1. CASE UNCHANGED system
    BY <2>1 DEF SystemType
  <2>2. CASE Control \/ OthersPending
    BY <2>2 DEF Control, OthersPending, SystemType
  <2>3. ASSUME NEW l \in Legs, Step(l) PROVE UNCHANGED system
    BY <2>3 DEF Step, Attempt, Call, Resolve, Book, Mark
  <2>4. ASSUME NEW l \in Legs, LiveReduce(l) \/ LiveRetry(l) \/ UnwindLeg(l) \/ Reconcile(l)
        PROVE  UNCHANGED system
    BY <2>4 DEF LiveReduce, LiveRetry, UnwindLeg, Reconcile
  <2>5. ASSUME NEW l \in Legs, FillOrder(l) \/ EndOrder(l) \/ StopFires(l)
        PROVE  UNCHANGED system
    BY <2>5 DEF FillOrder, EndOrder, StopFires
  <2>6. CASE RequestClose \/ UnwindDone \/ EnterHedge \/ HedgeFills \/ RecoverHedge
    BY <2>1, <2>6 DEF RequestClose, UnwindDone, EnterHedge, HedgeFills, RecoverHedge
  <2>7. CASE Crash \/ UNCHANGED vars
    BY <2>1, <2>7 DEF Crash, vars
  <2> QED  BY <2>1, <2>2, <2>3, <2>4, <2>5, <2>6, <2>7 DEF Next
<1> QED  BY <1>1, <1>2, PTL DEF Spec

\* Every variable has its type: a reduction is of a lot at least and never of more than
\* the leg, its order is placed once at most and fills no more than it asked for.
THEOREM TypeCorrect == Spec => []TypeOK
<1>1. IInv /\ SystemType => TypeOK
  BY DEF IInv, Types, LegType, RowType, PlanType, CallerType, CountType, SystemType, TypeOK,
         Rows, Orders, Trades, Callers
<1> QED  BY Invariance, SystemTypeCorrect, <1>1, PTL

\* A closed group holds nothing and never will, although its hedge may have been under
\* way, its legs are changed by stops and exit checks, and its reductions may still be
\* pending.
THEOREM GroupClosedFlatCorrect == Spec => []GroupClosedFlat
<1>1. IInv => GroupClosedFlat
  BY DEF IInv
<1> QED  BY Invariance, <1>1, PTL

\* The group's close sends no order for the hedge before the venue is flat in the
\* primary, whoever resumes the hedge's row.
THEOREM PrimaryFlatFirstCorrect == Spec => PrimaryFlatFirst
<1>1. IInv => (plan = "UNWINDING" /\ w.pc = "call" /\ w.leg = "hedge" => position["primary"] = 0)
  BY DEF IInv, TurnInv
<1> QED  BY Invariance, <1>1, PTL DEF PrimaryFlatFirst

-----------------------------------------------------------------------------
(* A reduction is one of OnceOnly's requests.                               *)

\* A reduction that stays as it is.
Kept(l, i) == SentOf(l, i)' = SentOf(l, i) /\ SaidOf(l, i)' = SaidOf(l, i)

\* The numbers of a leg's reductions.
LEMMA Index ==
    ASSUME RowType, NEW l \in Legs
    PROVE  /\ Len(reds[l]) \in Nat /\ Len(orders[l]) = Len(reds[l]) /\ MaxReductions \in Nat
           /\ Len(reds[l]) <= MaxReductions
BY LenProperties, BoundsAssumption DEF RowType

\* A new reduction has done nothing and nothing is said of it.
LEMMA InsertStutters ==
    ASSUME RowType, RowInv, NEW l \in Legs, NEW qty \in 1..Lots, ~Pending(l), Insert(l, qty),
           NEW r \in Reductions
    PROVE  Kept(r[1], r[2])
<1> DEFINE n == Len(reds[l])
<1>1. r[1] \in Legs /\ r[2] \in 1..MaxReductions
  BY DEF Reductions
<1>2. CASE r[1] # l
  BY <1>1, <1>2, InsertStep DEF Kept, SentOf, SaidOf
<1>3. CASE r[1] = l
  <2>1. n \in Nat /\ Len(orders[l]) = n /\ MaxReductions \in Nat
    BY Index
  <2>2. /\ Len(reds'[l]) = n + 1 /\ Len(orders'[l]) = n + 1
        /\ reds'[l] # <<>> /\ RowType'
        /\ Row(l)' = [st |-> "RESERVED", qty |-> qty, receipt |-> FALSE] /\ Order(l)' = NoOrder
        /\ \A i \in 1..n : reds'[l][i] = reds[l][i] /\ orders'[l][i] = orders[l][i]
    BY InsertStep
  <2>3. reds'[l][n + 1].st = "RESERVED" /\ orders'[l][n + 1].sent = 0
    BY <2>2 DEF Row, Order, Last, NoOrder
  <2> HIDE DEF n
  <2>4. CASE r[2] <= n
    <3>1. r[2] \in 1..n /\ r[2] <= n + 1
      BY <1>1, <2>1, <2>4
    <3> QED  BY <1>3, <2>1, <2>2, <2>4, <3>1 DEF Kept, SentOf, SaidOf, n
  <2>5. CASE r[2] = n + 1
    <3>1. ~(n + 1 <= n) /\ n + 1 <= n + 1
      BY <2>1
    <3> QED  BY <1>3, <2>1, <2>2, <2>3, <2>5, <3>1 DEF Kept, SentOf, SaidOf, Said, n
  <2>6. CASE r[2] > n + 1
    <3>1. ~(r[2] <= n) /\ ~(r[2] <= n + 1)
      BY <1>1, <2>1, <2>6
    <3> QED  BY <1>3, <2>1, <2>2, <3>1 DEF Kept, SentOf, SaidOf, n
  <2> QED  BY <1>1, <2>1, <2>4, <2>5, <2>6
<1> QED  BY <1>2, <1>3

\* One reduction moves: its order is placed while nothing was said of it, or it is
\* answered, or OnceOnly sees nothing.
LEMMA RedStepRefines ==
    ASSUME RowType, RowInv, NEW l \in Legs, NEW n, RedStep(l, n)
    PROVE  [Reduction!OnceNext]_<<taken, answered>>
<1>0. PICK m \in Nat : m = Len(reds[l])
  BY Index
<1> DEFINE id == <<l, m>>
<1>1. PICK r \in Rows, o \in Orders :
        /\ RowChange(l, r, o)
        /\ \/ r.st \notin Final /\ o.sent = Order(l).sent
           \/ r.st \notin Final /\ Order(l).sent = 0 /\ o.sent = 1
           \/ r.st = "BOOKED" /\ Order(l).sent = 1 /\ o.sent = 1
           \/ r.st = "REFUSED" /\ Order(l).sent = 0 /\ o.sent = 0
  BY DEF RedStep
<1>2. /\ Row(l).st \notin Final /\ m \in Nat /\ m >= 1 /\ m <= MaxReductions
      /\ MaxReductions \in Nat
      /\ Len(orders[l]) = m /\ Row(l) = reds[l][m] /\ Order(l) = orders[l][m]
  BY <1>0, RowFields, Index DEF RedStep, Pending
<1>3. /\ Len(reds'[l]) = m /\ Len(orders'[l]) = m /\ reds'[l][m] = r /\ orders'[l][m] = o
      /\ \A i \in 1..m : i # m => reds'[l][i] = reds[l][i] /\ orders'[l][i] = orders[l][i]
      /\ \A k \in Legs : k # l => reds'[k] = reds[k] /\ orders'[k] = orders[k]
  BY <1>0, <1>1 DEF RowChange
<1>4. id \in Reductions /\ id[1] = l /\ id[2] = m /\ m <= m
  BY <1>2 DEF Reductions
<1> HIDE DEF id
<1>5. ASSUME NEW q \in Reductions, q # id PROVE Kept(q[1], q[2])
  <2>1. q[1] \in Legs /\ q[2] \in 1..MaxReductions /\ q = <<q[1], q[2]>>
    BY DEF Reductions
  <2>2. CASE q[1] # l
    BY <1>3, <2>1, <2>2 DEF Kept, SentOf, SaidOf
  <2>3. CASE q[1] = l
    <3>1. q[2] # m
      BY <1>5, <2>1, <2>3 DEF id
    <3>2. q[2] <= m => q[2] \in 1..m
      BY <1>2, <2>1
    <3> QED  BY <1>0, <1>2, <1>3, <2>3, <3>1, <3>2 DEF Kept, SentOf, SaidOf
  <2> QED  BY <2>2, <2>3
<1>6. /\ SentOf(l, m) = Order(l).sent /\ SentOf(l, m)' = o.sent
      /\ SaidOf(l, m) = "none" /\ SaidOf(l, m)' = Said(r.st)
  BY <1>0, <1>2, <1>3, <1>4 DEF SentOf, SaidOf, Said, Final
<1>7. taken' = [taken EXCEPT ![id] = o.sent] /\ taken[id] = Order(l).sent
  <2>1. taken[id] = Order(l).sent /\ DOMAIN taken = Reductions
    BY <1>4, <1>6 DEF taken
  <2>2. taken' = [q \in Reductions |-> SentOf(q[1], q[2])']
    BY DEF taken
  <2>3. ASSUME NEW q \in Reductions
        PROVE  SentOf(q[1], q[2])' = IF q = id THEN o.sent ELSE taken[q]
    <3>1. CASE q = id
      BY <1>4, <1>6, <3>1
    <3>2. CASE q # id
      BY <1>5, <3>2 DEF Kept, taken
    <3> QED  BY <3>1, <3>2
  <2>4. taken' = [q \in Reductions |-> IF q = id THEN o.sent ELSE taken[q]]
    BY <2>2, <2>3
  <2> QED  BY <1>4, <2>1, <2>4 DEF taken
<1>8. answered' = [answered EXCEPT ![id] = Said(r.st)] /\ answered[id] = "none"
  <2>1. answered[id] = "none" /\ DOMAIN answered = Reductions
    BY <1>4, <1>6 DEF answered
  <2>2. answered' = [q \in Reductions |-> SaidOf(q[1], q[2])']
    BY DEF answered
  <2>3. ASSUME NEW q \in Reductions
        PROVE  SaidOf(q[1], q[2])' = IF q = id THEN Said(r.st) ELSE answered[q]
    <3>1. CASE q = id
      BY <1>4, <1>6, <3>1
    <3>2. CASE q # id
      BY <1>5, <3>2 DEF Kept, answered
    <3> QED  BY <3>1, <3>2
  <2>4. answered' = [q \in Reductions |-> IF q = id THEN Said(r.st) ELSE answered[q]]
    BY <2>2, <2>3
  <2> QED  BY <1>4, <2>1, <2>4 DEF answered
<1>9. o.sent = Order(l).sent => UNCHANGED taken
  BY <1>7 DEF taken
<1>10. Said(r.st) = "none" => UNCHANGED answered
  BY <1>8 DEF answered
<1>11. r.st \notin Final => Said(r.st) = "none"
  BY DEF Said, Final
<1>12. CASE r.st \notin Final /\ o.sent = Order(l).sent
  BY <1>9, <1>10, <1>11, <1>12
<1>13. CASE r.st \notin Final /\ Order(l).sent = 0 /\ o.sent = 1
  <2>1. Reduction!Take(id)
    BY <1>7, <1>8, <1>10, <1>11, <1>13 DEF Reduction!Take
  <2> QED  BY <1>4, <2>1 DEF Reduction!OnceNext
<1>14. CASE r.st = "BOOKED" /\ Order(l).sent = 1 /\ o.sent = 1
  <2>1. Said(r.st) = "done"
    BY <1>14 DEF Said
  <2>2. Reduction!Answer(id)
    BY <1>7, <1>8, <1>9, <1>14, <2>1 DEF Reduction!Answer
  <2> QED  BY <1>4, <2>2 DEF Reduction!OnceNext
<1>15. CASE r.st = "REFUSED" /\ Order(l).sent = 0 /\ o.sent = 0
  <2>1. Said(r.st) = "refused"
    BY <1>15 DEF Said
  <2>2. taken[id] = 0 /\ UNCHANGED taken
    BY <1>7, <1>9, <1>15
  <2>3. Reduction!Answer(id)
    BY <1>8, <2>1, <2>2 DEF Reduction!Answer
  <2> QED  BY <1>4, <2>3 DEF Reduction!OnceNext
<1> QED  BY <1>1, <1>12, <1>13, <1>14, <1>15

\* However a reduction is retried, resumed and resolved, and whatever is lost, its order
\* is placed at most once, it is BOOKED only when it was, and REFUSED only when it never
\* will be.
THEOREM ReducedOnceCorrect == Spec => ReducedOnce
<1>1. Init => Reduction!OnceInit
  <2> SUFFICES ASSUME Init PROVE Reduction!OnceInit
    OBVIOUS
  <2>1. \A l \in Legs : Len(reds[l]) = 0 /\ Len(orders[l]) = 0
    BY EmptySeq DEF Init
  <2>2. \A r \in Reductions : SentOf(r[1], r[2]) = 0 /\ SaidOf(r[1], r[2]) = "none"
    BY <2>1 DEF Reductions, SentOf, SaidOf
  <2> QED  BY <2>2 DEF Reduction!OnceInit, taken, answered
<1>2. IInv /\ [Next]_vars => [Reduction!OnceNext]_<<taken, answered>>
  <2> SUFFICES ASSUME IInv, [Next]_vars PROVE [Reduction!OnceNext]_<<taken, answered>>
    OBVIOUS
  <2>1. RowType /\ RowInv /\ RowsMove
    BY NextStep DEF IInv, Types
  <2>2. CASE \E l \in Legs : RedStep(l, 0) \/ RedStep(l, 1)
    BY <2>1, <2>2, RedStepRefines
  <2>3. CASE \E l \in Legs, qty \in 1..Lots : ~Pending(l) /\ Insert(l, qty)
    <3>1. \A r \in Reductions : Kept(r[1], r[2])
      BY <2>1, <2>3, InsertStutters
    <3> QED  BY <3>1 DEF Kept, taken, answered
  <2>4. CASE UNCHANGED <<reds, orders>>
    BY <2>4 DEF taken, answered, SentOf, SaidOf
  <2> QED  BY <2>1, <2>2, <2>3, <2>4 DEF RowsMove
<1> QED  BY <1>1, <1>2, Invariance, PTL DEF Spec, ReducedOnce, Reduction!OnceSpec

-----------------------------------------------------------------------------
(* The accounting of whole-leg reductions.                                  *)

\* A leg's lots are open or realised; no more is held than is open; and what is held
\* with what the pending reduction has sold is no more than it asked for, which is all
\* that is open.
LegAccount(l) ==
    /\ booked[l] + OpenAmount(l) = opened[l]
    /\ trade[l].st = "open" => position[l] <= trade[l].amount
    /\ Pending(l) /\ ~Row(l).receipt =>
         /\ position[l] + Order(l).filled <= Row(l).qty
         /\ trade[l].st = "open" => trade[l].amount <= Row(l).qty

\* The quantities of a leg.
LEMMA Quantities ==
    ASSUME IInv, NEW l \in Legs
    PROVE  /\ position[l] \in Nat /\ trade[l].amount \in Nat /\ booked[l] \in Nat
           /\ reds[l] # <<>> => Row(l).qty \in Nat /\ Order(l).filled \in Nat
BY LegFields, RowFields DEF IInv, Types

\* A leg of which no more is held than before, all else being as it was.
LEMMA LegKept ==
    ASSUME IInv, IInv', NEW l \in Legs, LegAccount(l),
           reds'[l] = reds[l], orders'[l] = orders[l], trade'[l] = trade[l],
           booked'[l] = booked[l], opened'[l] = opened[l], position'[l] <= position[l]
    PROVE  LegAccount(l)'
<1>1. /\ OpenAmount(l)' = OpenAmount(l) /\ Pending(l)' = Pending(l)
      /\ Row(l)' = Row(l) /\ Order(l)' = Order(l)
  BY DEF OpenAmount, Pending, Row, Order
<1>2. /\ position[l] \in Nat /\ position'[l] \in Nat /\ trade[l].amount \in Nat
      /\ Pending(l) => Row(l).qty \in Nat /\ Order(l).filled \in Nat
  <2>1. position'[l] \in Nat
    BY LegFields, LotsAssumption DEF IInv, Types, LegType
  <2> QED  BY <2>1, Quantities DEF Pending
<1>3. trade[l].st = "open" => position'[l] <= trade[l].amount
  BY <1>2 DEF LegAccount
<1>4. Pending(l) /\ ~Row(l).receipt => position'[l] + Order(l).filled <= Row(l).qty
  BY <1>2 DEF LegAccount
<1> QED  BY <1>1, <1>3, <1>4 DEF LegAccount

\* A reduction that is not booked moves: what it sells is no longer held.
LEMMA LegReduced ==
    ASSUME IInv, NEW l \in Legs, LegAccount(l), NEW n \in {0, 1}, RedStep(l, n),
           position[l] = position'[l] + n, position'[l] \in Nat,
           UNCHANGED <<trade, booked, opened>>
    PROVE  LegAccount(l)'
<1>1. PICK r \in Rows, o \in Orders :
        /\ RowChange(l, r, o) /\ Matches(r, o)
        /\ r.qty = Row(l).qty /\ (Row(l).receipt => r.receipt) /\ o.filled = Order(l).filled + n
  BY DEF RedStep
<1>2. Pending(l) /\ reds[l] # <<>>
  BY DEF RedStep, Pending
<1>3. Row(l)' = r /\ Order(l)' = o
  BY <1>1, <1>2, RowChanged DEF IInv, Types
<1>4. Row(l).qty \in Nat /\ Order(l).filled \in Nat /\ trade[l].amount \in Nat
  BY <1>2, Quantities
<1>5. trade[l].st = "open" => position'[l] <= trade[l].amount
  BY <1>4 DEF LegAccount
<1>6. ~r.receipt => /\ position'[l] + o.filled <= r.qty
                    /\ trade[l].st = "open" => trade[l].amount <= r.qty
  BY <1>1, <1>2, <1>4 DEF LegAccount
<1> QED  BY <1>3, <1>5, <1>6 DEF LegAccount, OpenAmount

\* The legs that a reduction is not of.
LEMMA OtherLegs ==
    ASSUME NEW l \in Legs, NEW n, RedStep(l, n), NEW k \in Legs, k # l
    PROVE  reds'[k] = reds[k] /\ orders'[k] = orders[k]
BY DEF RedStep, RowChange

\* A reduction's step that books nothing.
LEMMA StepAccount ==
    ASSUME IInv, IInv', \A k \in Legs : LegAccount(k), NEW l \in Legs, RedStep(l, 0),
           UNCHANGED <<trade, booked, opened, position>>
    PROVE  \A k \in Legs : LegAccount(k)'
<1> SUFFICES ASSUME NEW k \in Legs PROVE LegAccount(k)'
  OBVIOUS
<1>1. position'[k] \in Nat /\ position[k] = position'[k] + 0 /\ position'[k] <= position[k]
  BY Quantities
<1>2. CASE k = l
  BY <1>1, <1>2, LegReduced
<1>3. CASE k # l
  BY <1>1, <1>3, OtherLegs, LegKept
<1> QED  BY <1>2, <1>3

\* A reduction that is booked was of all that was open, so what it sold and what is left
\* are what there was.
LEMMA BookAccount ==
    ASSUME IInv, IInv', \A k \in Legs : LegAccount(k), NEW l \in Legs, Book(l)
    PROVE  \A k \in Legs : LegAccount(k)'
<1> DEFINE filled == Order(l).filled
           left   == trade[l].amount - filled
<1> USE DEF IInv, Types
<1>1. /\ RedStep(l, 0) /\ UNCHANGED <<opened, position>>
      /\ Row(l)'.receipt \/ UNCHANGED <<trade, booked>>
  BY BookRow DEF Book, venue
<1>2. CASE UNCHANGED <<trade, booked>>
  BY <1>1, <1>2, StepAccount
<1>3. CASE Row(l)'.receipt /\ ~UNCHANGED <<trade, booked>>
  <2>1. /\ IF left > 0 THEN Align(l, left, filled) ELSE CloseTrade(l, filled)
        /\ w.pc = "book" /\ w.leg = l
    BY <1>3 DEF Book
  <2>2. /\ reds[l] # <<>> /\ Pending(l) /\ trade[l].st = "open" /\ ~Row(l).receipt
        /\ Row(l).qty <= trade[l].amount
    BY <2>1 DEF CallerInv, Pending, Within
  <2>3. /\ trade[l].amount <= Row(l).qty /\ position[l] + filled <= Row(l).qty
        /\ booked[l] + trade[l].amount = opened[l]
    BY <2>2 DEF LegAccount, OpenAmount
  <2>4. /\ position[l] \in Nat /\ trade[l].amount \in Nat /\ booked[l] \in Nat
        /\ Row(l).qty \in Nat /\ filled \in Nat
    BY <2>2, Quantities
  <2>5. LegAccount(l)'
    <3>1. CASE left > 0 /\ Align(l, left, filled)
      <4>1. /\ trade' = [trade EXCEPT ![l].amount = left]
            /\ booked' = [booked EXCEPT ![l] = booked[l] + filled]
        BY <3>1 DEF Align
      <4>2. booked[l] + filled + left = opened[l] /\ position[l] <= left
        BY <2>2, <2>3, <2>4
      <4> HIDE DEF filled, left
      <4>3. trade'[l].st = "open" /\ trade'[l].amount = left /\ booked'[l] = booked[l] + filled
        BY <2>2, <4>1 DEF LegType, Trades
      <4> QED  BY <1>1, <1>3, <4>2, <4>3 DEF LegAccount, OpenAmount
    <3>2. CASE ~(left > 0) /\ CloseTrade(l, filled)
      <4>1. trade'[l].st = "closed" /\ booked'[l] = booked[l] + filled
        BY <3>2 DEF CloseTrade, LegType, Trades
      <4>2. booked[l] + filled + 0 = opened[l]
        BY <2>2, <2>3, <2>4, <3>2
      <4> QED  BY <1>1, <1>3, <4>1, <4>2 DEF LegAccount, OpenAmount
    <3> QED  BY <2>1, <3>1, <3>2
  <2>6. ASSUME NEW k \in Legs, k # l PROVE LegAccount(k)'
    <3>1. trade'[k] = trade[k] /\ booked'[k] = booked[k]
      BY <2>1, <2>6 DEF Align, CloseTrade, LegType
    <3>2. position'[k] <= position[k]
      BY <1>1, Quantities
    <3> QED  BY <1>1, <2>6, <3>1, <3>2, OtherLegs, LegKept
  <2> QED  BY <2>5, <2>6
<1> QED  BY <1>1, <1>2, <1>3

\* A lot is sold by the reduction's order.
LEMMA FillAccount ==
    ASSUME IInv, IInv', \A k \in Legs : LegAccount(k), NEW l \in Legs, FillOrder(l)
    PROVE  \A k \in Legs : LegAccount(k)'
<1> SUFFICES ASSUME NEW k \in Legs PROVE LegAccount(k)'
  OBVIOUS
<1>1. /\ RedStep(l, 1) /\ UNCHANGED <<trade, booked, opened>> /\ position[l] > 0
      /\ position' = [position EXCEPT ![l] = @ - 1]
  BY FillRow DEF FillOrder, durable
<1>2. position[l] \in Nat /\ position[k] \in Nat /\ position \in [Legs -> 0..Lots]
  BY Quantities DEF IInv, Types, LegType
<1>3. CASE k = l
  <2>1. position'[l] = position[l] - 1
    BY <1>1, <1>2
  <2>2. position[l] = position'[l] + 1 /\ position'[l] \in Nat
    BY <1>1, <1>2, <2>1
  <2> QED  BY <1>1, <1>3, <2>2, LegReduced
<1>4. CASE k # l
  <2>1. position'[k] <= position[k]
    BY <1>1, <1>2, <1>4
  <2> QED  BY <1>1, <1>4, <2>1, OtherLegs, LegKept
<1> QED  BY <1>3, <1>4

\* A new reduction is of all that is open, and its order has sold nothing.
LEMMA InsertAccount ==
    ASSUME IInv, IInv', \A k \in Legs : LegAccount(k), NEW l \in Legs, ~Pending(l),
           trade[l].st = "open", Insert(l, trade[l].amount),
           UNCHANGED <<trade, booked, opened, position>>
    PROVE  \A k \in Legs : LegAccount(k)'
<1>1. trade[l].amount \in 1..Lots /\ position[l] \in Nat /\ position[l] <= trade[l].amount
  BY LegFields DEF IInv, Types, LegAccount
<1>2. /\ Row(l)' = [st |-> "RESERVED", qty |-> trade[l].amount, receipt |-> FALSE]
      /\ Order(l)' = NoOrder
      /\ \A k \in Legs : k # l => reds'[k] = reds[k] /\ orders'[k] = orders[k]
  BY <1>1, InsertStep DEF IInv, Types
<1>3. LegAccount(l)'
  <2>1. /\ Row(l)'.qty = trade[l].amount /\ Order(l)'.filled = 0
    BY <1>2 DEF NoOrder
  <2>2. position[l] + 0 <= trade[l].amount /\ trade[l].amount <= trade[l].amount
    BY <1>1
  <2> QED  BY <2>1, <2>2 DEF LegAccount, OpenAmount
<1>4. ASSUME NEW k \in Legs, k # l PROVE LegAccount(k)'
  <2>1. position'[k] <= position[k]
    BY Quantities
  <2> QED  BY <1>2, <1>4, <2>1, LegKept
<1> QED  BY <1>3, <1>4

\* The exit checks take from the journal what the venue no longer has.
LEMMA ReconcileAccount ==
    ASSUME IInv, IInv', \A k \in Legs : LegAccount(k), NEW l \in Legs, Reconcile(l)
    PROVE  \A k \in Legs : LegAccount(k)'
<1> USE DEF IInv, Types
<1>1. /\ trade[l].st = "open" /\ trade[l].amount # position[l]
      /\ UNCHANGED <<opened, reds, position, orders>>
  <2>1. trade[l].amount \in Nat /\ position[l] \in Nat
    BY LegFields
  <2>2. trade[l].amount = position[l] => Tolerated(Gap(trade[l].amount, position[l]), position[l])
    BY <2>1, PartAssumption DEF Tolerated, Gap
  <2> QED  BY <2>2 DEF Reconcile, venue
<1>2. /\ position[l] \in Nat /\ trade[l].amount \in Nat /\ booked[l] \in Nat
      /\ Pending(l) => Row(l).qty \in Nat /\ Order(l).filled \in Nat
  BY Quantities DEF Pending
<1>3. position[l] < trade[l].amount /\ booked[l] + trade[l].amount = opened[l]
  BY <1>1, <1>2 DEF LegAccount, OpenAmount
<1>4. Pending(l)' = Pending(l) /\ Row(l)' = Row(l) /\ Order(l)' = Order(l)
  BY <1>1 DEF Pending, Row, Order
<1>5. LegAccount(l)'
  <2>1. CASE position[l] = 0
    <3>1. trade'[l].st = "closed" /\ booked'[l] = booked[l] + trade[l].amount
      BY <2>1 DEF Reconcile, CloseTrade, LegType, Trades
    <3>2. booked[l] + trade[l].amount + 0 = opened[l]
      BY <1>2, <1>3
    <3> QED  BY <1>1, <1>4, <3>1, <3>2 DEF LegAccount, OpenAmount
  <2>2. CASE position[l] # 0
    <3> DEFINE m == position[l]
               lots == trade[l].amount - m
    <3>1. /\ trade' = [trade EXCEPT ![l].amount = m]
          /\ booked' = [booked EXCEPT ![l] = booked[l] + lots]
      BY <1>3, <2>2 DEF Reconcile, Align
    <3>2. booked[l] + lots + m = opened[l] /\ m <= m
      BY <1>2, <1>3
    <3>3. Pending(l) /\ ~Row(l).receipt => m <= Row(l).qty
      BY <1>2 DEF LegAccount
    <3> HIDE DEF m, lots
    <3>4. trade'[l].st = "open" /\ trade'[l].amount = m /\ booked'[l] = booked[l] + lots
      BY <1>1, <3>1 DEF LegType, Trades
    <3>5. position'[l] = m
      BY <1>1 DEF m
    <3> QED  BY <1>1, <1>4, <3>2, <3>3, <3>4, <3>5 DEF LegAccount, OpenAmount
  <2> QED  BY <2>1, <2>2
<1>6. ASSUME NEW k \in Legs, k # l PROVE LegAccount(k)'
  <2>1. trade'[k] = trade[k] /\ booked'[k] = booked[k]
    BY <1>6 DEF Reconcile, Align, CloseTrade, LegType
  <2>2. position'[k] <= position[k]
    BY <1>1, Quantities
  <2> QED  BY <1>1, <1>6, <2>1, <2>2, LegKept
<1> QED  BY <1>5, <1>6

\* The hedge is opened with what is held, before anything was realised of it.
LEMMA HedgeAccount ==
    ASSUME IInv, IInv', \A k \in Legs : LegAccount(k), HedgeFills \/ RecoverHedge
    PROVE  \A k \in Legs : LegAccount(k)'
<1> USE DEF IInv, Types
<1>1. trade["hedge"].st = "none" /\ reds["hedge"] = <<>> /\ booked["hedge"] = 0
      /\ reds' = reds /\ booked' = booked /\ orders' = orders
  BY DEF HedgeFills, RecoverHedge, HedgeInv, durable, venue
<1>2. /\ trade'["primary"] = trade["primary"] /\ opened'["primary"] = opened["primary"]
      /\ position'["primary"] = position["primary"]
  BY TwoLegs DEF HedgeFills, RecoverHedge, durable, venue, LegType
<1>3. LegAccount("primary")'
  <2>1. position'["primary"] <= position["primary"]
    BY <1>2, Quantities, TwoLegs
  <2> QED  BY <1>1, <1>2, <2>1, LegKept, TwoLegs
<1>4. LegAccount("hedge")'
  <2>1. ~Pending("hedge")'
    BY <1>1 DEF Pending
  <2>2. CASE HedgeFills
    <3>1. UNCHANGED <<trade, opened>>
      BY <2>2 DEF HedgeFills, durable
    <3> QED  BY <1>1, <2>1, <3>1, TwoLegs DEF LegAccount, OpenAmount
  <2>3. CASE RecoverHedge
    <3> DEFINE n == position["hedge"]
               t == [st |-> "open", amount |-> n]
    <3>1. /\ opened' = [opened EXCEPT !["hedge"] = n] /\ position' = position
          /\ trade' = IF n = 0 THEN trade ELSE [trade EXCEPT !["hedge"] = t]
      BY <2>3 DEF RecoverHedge, venue
    <3>2. n \in Nat /\ 0 + n = n /\ n <= n /\ t.st = "open" /\ t.amount = n
      BY Quantities, TwoLegs
    <3>3. position'["hedge"] = n
      BY <3>1
    <3> HIDE DEF n, t
    <3>4. opened'["hedge"] = n /\ trade'["hedge"] = IF n = 0 THEN trade["hedge"] ELSE t
      BY <3>1, TwoLegs DEF LegType
    <3> QED  BY <1>1, <2>1, <3>2, <3>3, <3>4 DEF LegAccount, OpenAmount
  <2> QED  BY <2>2, <2>3
<1> QED  BY <1>3, <1>4, TwoLegs

\* The other steps move no lot but those that a stop sells.
LEMMA RestAccount ==
    ASSUME IInv, IInv', \A k \in Legs : LegAccount(k),
           UNCHANGED <<trade, booked, opened, reds, orders>>,
           \A k \in Legs : position'[k] = position[k] \/ position'[k] <= position[k]
    PROVE  \A k \in Legs : LegAccount(k)'
<1> SUFFICES ASSUME NEW k \in Legs PROVE LegAccount(k)'
  OBVIOUS
<1>1. position'[k] <= position[k]
  BY Quantities
<1> QED  BY <1>1, LegKept

\* Every step, when reductions are of whole legs.
LEMMA AccountStep ==
    ASSUME Deltas = {}, IInv, IInv', \A k \in Legs : LegAccount(k), [Next]_vars
    PROVE  \A k \in Legs : LegAccount(k)'
<1>1. CASE \E l \in Legs : Attempt(l) \/ Call(l) \/ Resolve(l) \/ Mark(l) \/ EndOrder(l)
  <2>1. PICK l \in Legs : Attempt(l) \/ Call(l) \/ Resolve(l) \/ Mark(l) \/ EndOrder(l)
    BY <1>1
  <2>2. RedStep(l, 0)
    BY <2>1, AttemptRow, CallRow, ResolveRow, MarkRow, EndRow
  <2>3. UNCHANGED <<trade, booked, opened, position>>
    BY <2>1 DEF Attempt, Call, Resolve, Mark, EndOrder, durable, venue
  <2> QED  BY <2>2, <2>3, StepAccount
<1>2. CASE \E l \in Legs : Book(l)
  BY <1>2, BookAccount
<1>3. CASE \E l \in Legs : FillOrder(l)
  BY <1>3, FillAccount
<1>4. CASE \E l \in Legs : Reconcile(l)
  BY <1>4, ReconcileAccount
<1>5. CASE \E l \in Legs : LiveReduce(l) \/ LiveRetry(l) \/ UnwindLeg(l)
  <2>1. PICK l \in Legs : LiveReduce(l) \/ LiveRetry(l) \/ UnwindLeg(l)
    BY <1>5
  <2>2. /\ LockFree
        /\ UNCHANGED <<trade, opened, booked, plan, entry, position, stopped, faults>>
        /\ Turn(l) \/ plan = "none"
        /\ \/ Resume(l)
           \/ ~Pending(l) /\ trade[l].st = "open" /\ Insert(l, trade[l].amount)
    BY <2>1 DEF LiveReduce, LiveRetry, UnwindLeg, Turn, bounds
  <2>3. CASE Resume(l)
    <3>1. RedStep(l, 0)
      BY <2>2, <2>3, ResumeRow
    <3> QED  BY <2>2, <3>1, StepAccount
  <2>4. CASE ~Pending(l) /\ trade[l].st = "open" /\ Insert(l, trade[l].amount)
    BY <2>2, <2>4, InsertAccount
  <2> QED  BY <2>2, <2>3, <2>4
<1>6. CASE HedgeFills \/ RecoverHedge
  BY <1>6, HedgeAccount
<1>7. CASE \E l \in Legs : StopFires(l)
  <2>1. PICK l \in Legs : StopFires(l)
    BY <1>7
  <2>2. /\ UNCHANGED <<trade, booked, opened, reds, orders>>
        /\ \A k \in Legs : position'[k] = position[k] \/ position'[k] <= position[k]
    BY <2>1, StopStep DEF StopFires, durable
  <2> QED  BY <2>2, RestAccount
<1>8. CASE \/ RequestClose \/ UnwindDone \/ EnterHedge \/ Crash
             \/ Control \/ OthersPending \/ UNCHANGED vars
  <2>1. UNCHANGED <<trade, booked, opened, reds, orders, position>>
    BY <1>8 DEF RequestClose, UnwindDone, EnterHedge, Crash, Control, OthersPending, vars,
                durable, venue
  <2> QED  BY <2>1, RestAccount
<1> QED  BY <1>1, <1>2, <1>3, <1>4, <1>5, <1>6, <1>7, <1>8 DEF Next, Step

\* When the live book reduces by whole legs, every lot that was opened is open or was
\* realised once: a reduction that is resolved late is not booked after the exit checks
\* saw its fill.  The code also reduces by parts (a rebalance's delta), and then it is
\* not so: that is the finding of GroupUnwind_delta, which the hypothesis leaves out.
THEOREM LegBookedOnceCorrect ==
    ASSUME Deltas = {}
    PROVE  Spec => []LegBookedOnce
<1> DEFINE AInv == IInv /\ \A l \in Legs : LegAccount(l)
<1>1. Init => AInv
  <2> SUFFICES ASSUME Init PROVE \A l \in Legs : LegAccount(l)
    BY InitInv
  <2> TAKE l \in Legs
  <2>1. booked[l] = 0 /\ reds[l] = <<>> /\ opened[l] = trade[l].amount
    BY DEF Init
  <2>2. trade = [k \in Legs |-> IF k = "primary" THEN [st |-> "open", amount |-> Lots]
                                                 ELSE [st |-> "none", amount |-> 0]]
        /\ position[l] = IF l = "primary" THEN Lots ELSE 0
    BY DEF Init
  <2>3. 0 + Lots = Lots /\ Lots <= Lots /\ 0 + 0 = 0
    BY LotsAssumption
  <2>4. CASE l = "primary"
    <3>1. trade[l].st = "open" /\ trade[l].amount = Lots
      BY <2>2, <2>4
    <3> QED  BY <2>1, <2>2, <2>3, <2>4, <3>1 DEF LegAccount, OpenAmount, Pending
  <2>5. CASE l # "primary"
    <3>1. trade[l].st = "none" /\ trade[l].amount = 0
      BY <2>2, <2>5
    <3> QED  BY <2>1, <2>3, <3>1 DEF LegAccount, OpenAmount, Pending
  <2> QED  BY <2>4, <2>5
<1>2. AInv /\ [Next]_vars => AInv'
  BY NextStep, AccountStep
<1>3. AInv => LegBookedOnce
  BY DEF LegBookedOnce, LegAccount
<1> HIDE DEF AInv
<1> QED  BY <1>1, <1>2, <1>3, PTL DEF Spec
=============================================================================
