-------------------------- MODULE EntryExposureProofs --------------------------
(***************************************************************************)
(* Who owns what the venue holds.  While an intent is pending, what is held  *)
(* is at most what its own entry filled, and once it is released an open      *)
(* trade is at least as large and names a stop that was placed for all of it  *)
(* and that only the venue has ended; but for the lots that closes of trades  *)
(* let go.  Every step of the worker between the two is an argument of its    *)
(* own, because the venue moves under it; the worker's part of the invariant  *)
(* says what it may rely on at each of its steps.                            *)
(***************************************************************************)
EXTENDS EntryExecutionProofs

\* The worker is not inside an entry, or it has one whose order is over.
Away == {"idle", "reserve", "exitBook"}
Over == {"stop", "book", "finish", "release", "close", "closeSend",
         "tickClose", "tickPosition", "tickAct", "tickStop"}

\* Only the pending intent's order may still fill, and only one trade is open.
EntryInv ==
    \A d \in Decisions : /\ entry[d].st = "none" => entry[d].filled = 0
                         /\ entry[d].st = "working" => intent.d = d
OneTrade == \A a, b \in OpenTrades : a = b
HeldInv  == Pending => /\ position <= entry[intent.d].filled + loose
                       /\ OpenTrades \subseteq {intent.d}

\* Only the pending intent's own close may be working, and none is while the worker
\* decides on the next.
NoneWorking == \A i \in 1..Len(closes) : closes[i].st # "working"
CloseInv ==
    /\ Pending /\ intent.phase = "closing" => intent.close \in 1..Len(closes)
    /\ \A i \in 1..Len(closes) :
         closes[i].st = "working" => Pending /\ intent.phase = "closing" /\ intent.close = i
    /\ w.pc \notin Away \cup {"tickClose"} => NoneWorking
    /\ w.pc = "closeSend" => intent.phase = "closing"

\* A position that no intent is pending for has a trade that guards it, unless it was
\* let go.
OwnerInv == ~Pending /\ position > loose => \E d \in Decisions : Guarded(d)

\* What the worker may rely on.
WorkInv ==
    /\ w.pc \notin Away => w.d = intent.d
    /\ w.pc \in Over => Terminal(entry[w.d])
    /\ w.pc \in {"stop", "book"} => w.amount = entry[w.d].filled
    /\ w.pc = "tickAct" => position <= w.amount
    /\ w.pc = "book" => Holds(w.stop)
    /\ w.pc \in {"finish", "release"} /\ position > loose => Guarded(w.d)
    /\ w.pc = "exitBook" =>
         /\ w.d \in OpenTrades /\ w.amount <= trade[w.d].amount
         /\ ~Pending => position + w.amount <= trade[w.d].amount + loose

EInv == EntryInv /\ OneTrade /\ HeldInv /\ CloseInv /\ OwnerInv /\ WorkInv
AInv == OnceInv /\ EInv

-----------------------------------------------------------------------------
(* What the steps have in common.                                           *)

\* The intent, pending or not.
LEMMA IntentFields ==
  ASSUME TypeInv
  PROVE  /\ Pending => intent \in Intents /\ intent.d \in Decisions
         /\ ~Pending => intent = NoIntent /\ intent.d \notin Decisions
         /\ intent \in Intents => Pending
         /\ position \in Nat /\ loose \in Nat /\ w.amount \in Nat
         /\ \A d \in Decisions : entry[d].filled \in Nat /\ trade[d].amount \in Nat
         /\ \A d \in Rows : trade[d].amount \in Nat
<1>1. /\ Pending => intent \in Intents /\ intent.d \in Decisions
      /\ intent \in Intents => Pending
  BY NoneAssumption DEF TypeInv, TypeOK, Pending, NoIntent, Intents
<1>2. ~Pending => intent = NoIntent /\ intent.d \notin Decisions
  BY NoneAssumption DEF Pending, NoIntent
<1>3. /\ position \in Nat /\ loose \in Nat
      /\ \A d \in Decisions : entry[d].filled \in Nat /\ d \in Rows
      /\ \A d \in Rows : trade[d].amount \in Nat
  BY DEF TypeInv, TypeOK, Orders, Trades, Rows
<1> QED
  BY <1>1, <1>2, <1>3, WorkerFields

\* A worker that is inside an entry has its intent, and its decision.
LEMMA WorkerIntent ==
  ASSUME TypeInv, EInv, w.pc \notin Away
  PROVE  Pending /\ w.d = intent.d /\ w.d \in Decisions /\ intent \in Intents
<1>1. intent \in Intents
  BY DEF TypeInv, WorkerInv, Unowning, Away
<1> QED
  BY <1>1, IntentFields DEF EInv, WorkInv

\* The fields of the worker's locals after a step.
LEMMA WorkerNext ==
  ASSUME TypeInv
  PROVE  \A p \in Pcs :
           /\ w' = [w EXCEPT !.pc = p] =>
                w'.pc = p /\ w'.d = w.d /\ w'.amount = w.amount /\ w'.stop = w.stop
           /\ \A n \in Nat : w' = [w EXCEPT !.pc = p, !.amount = n] =>
                w'.pc = p /\ w'.d = w.d /\ w'.amount = n
           /\ \A n \in Nat : w' = [w EXCEPT !.pc = p, !.stop = n] =>
                w'.pc = p /\ w'.d = w.d /\ w'.amount = w.amount /\ w'.stop = n
  BY DEF TypeInv, TypeOK, Workers

\* A worker that leaves relies on nothing.
LEMMA LeftWork ==
  ASSUME w'.pc \in {"idle", "reserve"}
  PROVE  WorkInv' /\ w'.pc \in Away
  BY DEF WorkInv, Away, Over

\* The intent stays whose it is, and the venue and the journal as they are.
LEMMA Stay ==
  ASSUME EntryInv, OneTrade, HeldInv, OwnerInv, UNCHANGED <<trade, entry, stops, position, loose>>,
         intent'.d = intent.d, Pending' <=> Pending
  PROVE  /\ EntryInv' /\ OneTrade' /\ HeldInv' /\ OwnerInv'
         /\ \A d \in Decisions : Guarded(d) => Guarded(d)'
         /\ \A i : Holds(i) => Holds(i)'
<1>1. \A i : Holds(i) => Holds(i)'
  BY DEF Holds, LiveStops
<1>2. \A d \in Decisions : Guarded(d) => Guarded(d)'
  BY <1>1 DEF Guarded, OpenTrades
<1>3. EntryInv' /\ OneTrade' /\ HeldInv'
  BY DEF EntryInv, OneTrade, HeldInv, OpenTrades
<1>4. OwnerInv'
  BY <1>2 DEF OwnerInv
<1> QED
  BY <1>1, <1>2, <1>3, <1>4

\* The closes stay as they are.
LEMMA CloseStay ==
  ASSUME CloseInv, UNCHANGED closes, intent'.phase = intent.phase, intent'.close = intent.close,
         Pending' <=> Pending,
         w'.pc \in Away \cup {"tickClose"} \/ NoneWorking,
         w'.pc # "closeSend"
  PROVE  CloseInv'
  BY DEF CloseInv, NoneWorking

\* Nothing is pending any more: what is held has an owner.
LEMMA Released ==
  ASSUME TypeInv, EInv, w.pc \notin Away, UNCHANGED <<trade, entry, closes, stops, position, loose>>,
         intent' = NoIntent, w' = Idle,
         entry[w.d].st # "working", w.pc # "tickClose",
         position > loose => Guarded(w.d)
  PROVE  EInv'
<1> USE DEF EInv
<1>1. Pending /\ w.d = intent.d /\ w.d \in Decisions
  BY WorkerIntent
<1>2. ~Pending' /\ NoneWorking
  BY DEF Pending, CloseInv
<1>3. EntryInv' /\ OneTrade' /\ HeldInv'
  BY <1>1, <1>2 DEF EntryInv, OneTrade, HeldInv, OpenTrades
<1>4. CloseInv'
  BY <1>2, LeftWork, IdleType DEF CloseInv, NoneWorking, Away
<1>5. OwnerInv'
  <2> SUFFICES ASSUME position' > loose' PROVE \E d \in Decisions : Guarded(d)'
    BY DEF OwnerInv
  <2>1. position > loose /\ w.d \in Decisions
    BY <1>1
  <2>2. PICK d \in Decisions : d = w.d
    BY <2>1
  <2>3. Guarded(d)'
    BY <2>1, <2>2 DEF Guarded, Holds, LiveStops, OpenTrades
  <2> QED
    BY <2>3
<1>6. WorkInv'
  BY LeftWork, IdleType
<1> QED
  BY <1>3, <1>4, <1>5, <1>6

\* The pass ends with the intent kept.
LEMMA KeptPending ==
  ASSUME TypeInv, EInv, UNCHANGED <<trade, entry, closes, stops, position, loose>>,
         intent'.d = intent.d, intent'.phase = intent.phase, intent'.close = intent.close,
         Pending' <=> Pending, w'.pc \in {"idle", "reserve"}
  PROVE  EInv'
<1>1. EntryInv' /\ OneTrade' /\ HeldInv' /\ OwnerInv'
  BY Stay DEF EInv
<1>2. WorkInv' /\ w'.pc \in Away
  BY LeftWork
<1>3. CloseInv'
  BY <1>2, CloseStay DEF EInv
<1> QED
  BY <1>1, <1>2, <1>3 DEF EInv

\* Nothing that the invariant is about changes.
LEMMA SameKept ==
  ASSUME EInv, UNCHANGED <<trade, entry, closes, stops, position, loose, intent, w>>
  PROVE  EInv'
  BY DEF EInv, EntryInv, OneTrade, HeldInv, CloseInv, OwnerInv, WorkInv, NoneWorking, Pending,
         OpenTrades, Guarded, Holds, LiveStops

-----------------------------------------------------------------------------
(* The submission and the fill.                                             *)

\* The reservation is made while nothing is held.
LEMMA ReserveE ==
  ASSUME TypeInv, EInv, Reserve
  PROVE  EInv'
<1> USE DEF EInv
<1>1. UNCHANGED <<trade, entry, closes, stops, position, loose>> /\ w.pc = "reserve"
  BY DEF Reserve, venue
<1>2. CASE w' = Idle /\ UNCHANGED <<request, intent>>
  BY <1>1, <1>2, KeptPending, IdleType DEF Pending
<1>3. CASE /\ ~Pending /\ Valid
           /\ Save([NoIntent EXCEPT !.d = w.d], "SUBMISSION_ATTEMPTED")
           /\ w' = [w EXCEPT !.pc = "send"]
  <2>1. w.d \in Decisions /\ OpenTrades = {}
    BY <1>1, <1>3 DEF TypeInv, WorkerInv, Valid
  <2>2. intent'.d = w.d /\ intent'.phase = "entry" /\ intent' # NoIntent
    BY <1>3, <2>1, NoneAssumption DEF Save, NoIntent
  <2>3. w'.pc = "send" /\ w'.d = w.d
    BY <1>3, WorkerNext DEF Pcs
  <2>4. /\ position \in Nat /\ loose \in Nat /\ position <= loose
        /\ \A d \in Decisions : entry[d].filled \in Nat /\ entry[d].st # "working"
    BY <1>3, <2>1, IntentFields DEF OwnerInv, Guarded, EntryInv
  <2>5. NoneWorking
    BY <1>3 DEF CloseInv, NoneWorking
  <2>6. EntryInv' /\ OneTrade' /\ HeldInv' /\ OwnerInv'
    BY <1>1, <2>1, <2>2, <2>4 DEF EntryInv, OneTrade, HeldInv, OwnerInv, OpenTrades
  <2>7. CloseInv'
    BY <1>1, <2>2, <2>3, <2>5 DEF CloseInv, NoneWorking
  <2>8. WorkInv'
    BY <2>2, <2>3 DEF WorkInv, Over, Away
  <2> QED
    BY <2>6, <2>7, <2>8
<1> QED
  BY <1>2, <1>3 DEF Reserve

\* The order is sent, deferred or left to recovery.
LEMMA SendE ==
  ASSUME OnceInv, EInv, SendEntry
  PROVE  EInv'
<1> USE DEF EInv
<1>1. /\ UNCHANGED <<trade, closes, stops, position, loose>> /\ w.pc = "send" /\ TypeInv
      /\ entry[w.d].st = "none"
  BY DEF SendEntry, OnceInv, SubmitInv, Untouched
<1>2. Pending /\ w.d = intent.d /\ w.d \in Decisions /\ w.pc \notin Away /\ NoneWorking
  BY <1>1, WorkerIntent DEF Away, CloseInv
<1>3. entry[w.d].filled = 0 /\ position \in Nat /\ loose \in Nat /\ position <= loose
  BY <1>1, <1>2, IntentFields DEF EntryInv, HeldInv
<1>4. CASE w' = Idle /\ UNCHANGED <<intent, entry>>
  BY <1>1, <1>4, KeptPending, IdleType DEF Pending
<1>5. CASE intent' = NoIntent /\ w' = Idle /\ UNCHANGED entry
  BY <1>1, <1>2, <1>3, <1>5, Released
<1>6. ASSUME NEW out \in {"acked", "ambiguous", "rejected"}, NEW taken \in BOOLEAN,
             entry' = IF taken THEN [entry EXCEPT ![w.d].st = "working"] ELSE entry,
             w' = [w EXCEPT !.pc = "commit", !.out = out], UNCHANGED intent
      PROVE  EInv'
  <2>1. w'.pc = "commit" /\ w'.d = w.d
    BY <1>1, <1>6 DEF TypeInv, TypeOK, Workers
  <2>2. \A d \in Decisions : /\ entry'[d].filled = entry[d].filled
                             /\ d # w.d => entry'[d] = entry[d]
    BY <1>1, <1>2, <1>6 DEF TypeInv, TypeOK, Orders
  <2>3. EntryInv' /\ OneTrade' /\ HeldInv' /\ OwnerInv'
    BY <1>1, <1>2, <1>3, <1>6, <2>2
       DEF EntryInv, OneTrade, HeldInv, OwnerInv, OpenTrades, Pending
  <2>4. CloseInv'
    BY <1>1, <1>2, <1>6, <2>1 DEF CloseInv, NoneWorking
  <2>5. WorkInv'
    BY <1>2, <1>6, <2>1 DEF WorkInv, Over, Away
  <2> QED
    BY <2>3, <2>4, <2>5
<1> QED
  BY <1>4, <1>5, <1>6 DEF SendEntry

\* Its outcome is committed: only what the venue never took is released.
LEMMA CommitE ==
  ASSUME OnceInv, EInv, CommitEntry
  PROVE  EInv'
<1> USE DEF EInv
<1>1. /\ UNCHANGED <<trade, entry, closes, stops, position, loose>> /\ w.pc = "commit" /\ TypeInv
  BY DEF CommitEntry, OnceInv, venue
<1>2. Pending /\ w.d = intent.d /\ w.d \in Decisions /\ w.pc \notin Away /\ NoneWorking
  BY <1>1, WorkerIntent DEF Away, CloseInv
<1>3. CASE Refused(w.out)
  <2>1. entry[w.d].st = "none" /\ intent' = NoIntent /\ w' = Idle
    BY <1>1, <1>3 DEF OnceInv, SubmitInv, CommitEntry, Refused
  <2>2. position <= loose /\ position \in Nat /\ loose \in Nat
    BY <1>2, <2>1, IntentFields, <1>1 DEF EntryInv, HeldInv
  <2> QED
    BY <1>1, <1>2, <2>1, <2>2, Released
<1>4. CASE ~Refused(w.out)
  <2>1. intent' = intent /\ (w' = Idle \/ w' = [w EXCEPT !.pc = "confirm"])
    BY <1>4 DEF CommitEntry, Save
  <2>2. CASE w' = Idle
    BY <1>1, <2>1, <2>2, KeptPending, IdleType DEF Pending
  <2>3. CASE w' = [w EXCEPT !.pc = "confirm"]
    <3>1. w'.pc = "confirm" /\ w'.d = w.d
      BY <1>1, <2>3, WorkerNext DEF Pcs
    <3>2. EntryInv' /\ OneTrade' /\ HeldInv' /\ OwnerInv'
      BY <1>1, <2>1, Stay DEF Pending
    <3>3. CloseInv'
      BY <1>1, <1>2, <2>1, <3>1, CloseStay DEF Pending
    <3>4. WorkInv'
      BY <1>2, <2>1, <3>1 DEF WorkInv, Over, Away
    <3> QED
      BY <3>2, <3>3, <3>4
  <2> QED
    BY <2>1, <2>2, <2>3
<1> QED
  BY <1>3, <1>4

\* The fill is read once its order is over.
LEMMA ConfirmE ==
  ASSUME TypeInv, EInv, ConfirmFill
  PROVE  EInv'
<1> USE DEF EInv
<1>1. UNCHANGED <<trade, entry, closes, stops, position, loose>> /\ w.pc = "confirm"
  BY DEF ConfirmFill, venue
<1>2. Pending /\ w.d = intent.d /\ w.d \in Decisions /\ w.pc \notin Away /\ NoneWorking
  BY <1>1, WorkerIntent DEF Away, CloseInv
<1>3. intent' = intent
  BY DEF ConfirmFill, Save
<1>4. CASE w' = Idle
  BY <1>1, <1>3, <1>4, KeptPending, IdleType DEF Pending
<1>5. CASE Terminal(entry[w.d]) /\ w' = [w EXCEPT !.pc = "stop", !.amount = entry[w.d].filled]
  <2>1. w'.pc = "stop" /\ w'.d = w.d /\ w'.amount = entry[w.d].filled
    <3>1. PICK n \in Nat : n = entry[w.d].filled
      BY <1>2, IntentFields
    <3>2. w' = [w EXCEPT !.pc = "stop", !.amount = n]
      BY <1>5, <3>1
    <3>3. w'.pc = "stop" /\ w'.d = w.d /\ w'.amount = n
      BY <3>2, WorkerNext DEF Pcs
    <3> QED
      BY <3>1, <3>3
  <2>2. EntryInv' /\ OneTrade' /\ HeldInv' /\ OwnerInv'
    BY <1>1, <1>3, Stay DEF Pending
  <2>3. CloseInv'
    BY <1>1, <1>2, <1>3, <2>1, CloseStay DEF Pending
  <2>4. WorkInv'
    BY <1>1, <1>2, <1>3, <1>5, <2>1 DEF WorkInv, Over, Away, Terminal
  <2> QED
    BY <2>2, <2>3, <2>4
<1> QED
  BY <1>4, <1>5 DEF ConfirmFill

\* The entry's own stop, or none.
LEMMA StopE ==
  ASSUME TypeInv, EInv, PlaceNativeStop
  PROVE  EInv'
<1> USE DEF EInv
<1>1. UNCHANGED <<trade, entry, closes, position, loose, intent>> /\ w.pc = "stop"
  BY DEF PlaceNativeStop, journal
<1>2. Pending /\ w.d = intent.d /\ w.d \in Decisions /\ w.pc \notin Away /\ NoneWorking
  BY <1>1, WorkerIntent DEF Away, CloseInv
<1>3. Terminal(entry[w.d]) /\ w.amount = entry[w.d].filled /\ position <= w.amount + loose
  BY <1>1, <1>2 DEF WorkInv, Over, HeldInv
<1>4. EntryInv' /\ OneTrade' /\ HeldInv' /\ OwnerInv'
  BY <1>1, <1>2 DEF EntryInv, OneTrade, HeldInv, OwnerInv, OpenTrades, Pending
<1>5. CASE w' = [w EXCEPT !.pc = "close"]
  <2>1. w'.pc = "close" /\ w'.d = w.d
    BY <1>5, WorkerNext DEF Pcs
  <2>2. WorkInv'
    BY <1>1, <1>2, <1>3, <2>1 DEF WorkInv, Over, Away, Terminal
  <2>3. CloseInv'
    BY <1>1, <1>2, <2>1, CloseStay DEF Pending
  <2> QED
    BY <1>4, <2>2, <2>3
<1>6. ASSUME NEW i \in 1..Len(stops'), stops'[i].st = "live", stops'[i].size >= w.amount,
             w' = [w EXCEPT !.pc = "book", !.stop = i]
      PROVE  EInv'
  <2>1. w'.pc = "book" /\ w'.d = w.d /\ w'.amount = w.amount /\ w'.stop = i
    <3>1. i \in Nat
      OBVIOUS
    <3> QED
      BY <1>6, <3>1, WorkerNext DEF Pcs
  <2>2. stops'[i].size \in Nat /\ position \in Nat /\ loose \in Nat /\ w.amount \in Nat
    <3>1. stops' \in Seq(Stops)
      BY PlaceNativeStopType DEF TypeInv, TypeOK
    <3>2. stops'[i] \in Stops
      BY <3>1, ElementOfSeq
    <3> QED
      BY <3>2, IntentFields DEF Stops
  <2>3. position' <= stops'[i].size + loose'
    BY <1>1, <1>3, <1>6, <2>2
  <2>4. Holds(w.stop)'
    BY <1>6, <2>1, <2>3 DEF Holds, LiveStops
  <2>5. WorkInv'
    BY <1>1, <1>2, <1>3, <2>1, <2>4 DEF WorkInv, Over, Away, Terminal
  <2>6. CloseInv'
    BY <1>1, <1>2, <2>1, CloseStay DEF Pending
  <2> QED
    BY <1>4, <2>5, <2>6
<1> QED
  BY <1>5, <1>6 DEF PlaceNativeStop

-----------------------------------------------------------------------------
(* The journal, the release and the emergency close.                        *)

\* The trade is journalled as its order filled.
LEMMA AddTradeE ==
  ASSUME TypeInv, EInv, AddTrade
  PROVE  EInv'
<1> USE DEF EInv
<1>1. UNCHANGED <<entry, closes, stops, position, loose>> /\ w.pc = "book" /\ intent' = intent
  BY DEF AddTrade, venue, Save
<1>2. Pending /\ w.d = intent.d /\ w.d \in Decisions /\ w.pc \notin Away /\ NoneWorking
  BY <1>1, WorkerIntent DEF Away, CloseInv
<1>3. CASE trade[w.d].st # "none"
  BY <1>1, <1>3, KeptPending, IdleType DEF AddTrade, Pending
<1>4. CASE trade[w.d].st = "none"
  <2> DEFINE t == [st |-> "open", amount |-> w.amount, stop |-> w.stop]
  <2>1. trade' = [trade EXCEPT ![w.d] = t] /\ w'.pc = "finish" /\ w'.d = w.d
    BY <1>4, WorkerNext DEF AddTrade, Pcs
  <2>2. /\ trade'[w.d] = t /\ t.st = "open" /\ t.amount = w.amount /\ t.stop = w.stop
        /\ w.d \in Rows /\ \A d \in Rows : d # w.d => trade'[d] = trade[d]
    BY <1>2, <2>1 DEF TypeInv, TypeOK, Rows
  <2> HIDE DEF t
  <2>3. OpenTrades' = {w.d}
    BY <1>2, <2>2 DEF HeldInv, OpenTrades
  <2>4. position <= w.amount + loose
    BY <1>1, <1>2 DEF WorkInv, HeldInv
  <2>5. Guarded(w.d)'
    <3>1. Holds(w.stop)
      BY <1>1 DEF WorkInv
    <3>2. w.d \in OpenTrades' /\ w'.d = w.d
      BY <2>1, <2>3
    <3>3. position' <= trade'[w'.d].amount + loose'
      BY <1>1, <2>1, <2>2, <2>4
    <3>4. trade'[w'.d].stop = w.stop
      BY <2>1, <2>2
    <3> QED
      BY <1>1, <3>1, <3>2, <3>3, <3>4 DEF Guarded, Holds, LiveStops
  <2>6. EntryInv' /\ OneTrade' /\ HeldInv' /\ OwnerInv'
    BY <1>1, <1>2, <2>3 DEF EntryInv, OneTrade, HeldInv, OwnerInv, Pending
  <2>7. CloseInv'
    BY <1>1, <1>2, <2>1, CloseStay DEF Pending
  <2>8. WorkInv'
    BY <1>1, <1>2, <2>1, <2>5 DEF WorkInv, Over, Away, Terminal
  <2> QED
    BY <2>6, <2>7, <2>8
<1> QED
  BY <1>3, <1>4

\* The audit, and the release of the intent.
LEMMA FinishE ==
  ASSUME TypeInv, EInv, Finish
  PROVE  EInv'
<1> USE DEF EInv
<1>1. UNCHANGED <<trade, entry, closes, stops, position, loose>> /\ w.pc = "finish" /\ intent' = intent
  BY DEF Finish, venue, Save
<1>2. Pending /\ w.d = intent.d /\ w.d \in Decisions /\ w.pc \notin Away /\ NoneWorking
  BY <1>1, WorkerIntent DEF Away, CloseInv
<1>3. w'.pc = "release" /\ w'.d = w.d
  BY WorkerNext DEF Finish, Pcs
<1>4. /\ EntryInv' /\ OneTrade' /\ HeldInv' /\ OwnerInv'
      /\ \A d \in Decisions : Guarded(d) => Guarded(d)'
  BY <1>1, Stay DEF Pending
<1>5. CloseInv'
  BY <1>1, <1>2, <1>3, CloseStay DEF Pending
<1>6. position' > loose' => Guarded(w.d)'
  BY <1>1, <1>3 DEF WorkInv, Guarded, Holds, LiveStops, OpenTrades
<1>7. WorkInv'
  BY <1>1, <1>2, <1>3, <1>6 DEF WorkInv, Over, Away, Terminal
<1> QED
  BY <1>4, <1>5, <1>7

\* The release hands what is held to its trade.
LEMMA ReleaseE ==
  ASSUME TypeInv, EInv, Release
  PROVE  EInv'
<1>1. UNCHANGED <<trade, entry, closes, stops, position, loose>> /\ w.pc = "release"
      /\ intent' = NoIntent /\ w' = Idle
  BY DEF Release, venue
<1>2. entry[w.d].st # "working" /\ (position > loose => Guarded(w.d)) /\ w.pc \notin Away
  BY <1>1 DEF EInv, WorkInv, Over, Away, Terminal
<1> QED
  BY <1>1, <1>2, Released

\* The next emergency close is persisted while none is working.
LEMMA PersistE ==
  ASSUME TypeInv, EInv, PersistClose
  PROVE  EInv'
<1> USE DEF EInv
<1> DEFINE c == [asked |-> w.amount, filled |-> 0, st |-> "none"]
<1>1. UNCHANGED <<trade, entry, stops, position, loose>> /\ w.pc = "close" /\ closes' = Append(closes, c)
      /\ intent' = [intent EXCEPT !.phase = "closing", !.close = Len(closes')]
  BY DEF PersistClose, Save
<1>2. Pending /\ w.d = intent.d /\ w.d \in Decisions /\ w.pc \notin Away /\ NoneWorking
      /\ intent \in Intents
  BY <1>1, WorkerIntent DEF Away, CloseInv
<1>3. w'.pc = "closeSend" /\ w'.d = w.d
  BY WorkerNext DEF PersistClose, Pcs
<1>4. c.st = "none" /\ c \in Closes
  BY IntentFields DEF Closes
<1>5. closes \in Seq(Closes) /\ Len(closes) \in Nat
  BY DEF TypeInv, TypeOK
<1> HIDE DEF c
<1>6. /\ Len(closes') = Len(closes) + 1 /\ closes'[Len(closes) + 1] = c
      /\ \A i \in 1..Len(closes) : closes'[i] = closes[i]
  BY <1>1, <1>4, <1>5, AppendProperties
<1>7. intent'.d = intent.d /\ intent'.phase = "closing" /\ intent'.close = Len(closes')
  BY <1>1, <1>2 DEF Intents
<1>8. Pending'
  BY <1>2, <1>7, NoneAssumption DEF Pending, NoIntent
<1>9. EntryInv' /\ OneTrade' /\ HeldInv' /\ OwnerInv'
  BY <1>1, <1>2, <1>7, <1>8, Stay
<1>10. NoneWorking'
  <2> SUFFICES ASSUME NEW i \in 1..Len(closes') PROVE closes'[i].st # "working"
    BY DEF NoneWorking
  <2>1. i \in 1..Len(closes) \/ i = Len(closes) + 1
    BY <1>5, <1>6
  <2> QED
    BY <1>2, <1>4, <1>6, <2>1 DEF NoneWorking
<1>11. CloseInv'
  <2>1. Len(closes') \in 1..Len(closes')
    BY <1>5, <1>6
  <2> QED
    BY <1>3, <1>7, <1>10, <2>1 DEF CloseInv, NoneWorking
<1>12. WorkInv'
  BY <1>1, <1>2, <1>3, <1>7 DEF WorkInv, Over, Away, Terminal
<1> QED
  BY <1>9, <1>11, <1>12

\* It is sent, lost or rejected.
LEMMA SubmitE ==
  ASSUME TypeInv, EInv, SubmitClose
  PROVE  EInv'
<1> USE DEF EInv
<1>1. UNCHANGED <<trade, entry, stops, position, loose>> /\ w.pc = "closeSend" /\ w' = Idle
  BY DEF SubmitClose
<1>2. Pending /\ w.d = intent.d /\ w.d \in Decisions /\ w.pc \notin Away /\ NoneWorking
      /\ intent \in Intents /\ intent.phase = "closing" /\ intent.close \in 1..Len(closes)
  BY <1>1, WorkerIntent DEF Away, CloseInv
<1>3. WorkInv' /\ w'.pc \in Away /\ w'.pc = "idle"
  BY <1>1, LeftWork, IdleType
<1>4. CASE /\ UNCHANGED intent
           /\ \E taken \in BOOLEAN :
                closes' = IF taken THEN [closes EXCEPT ![intent.close].st = "working"] ELSE closes
  <2>1. EntryInv' /\ OneTrade' /\ HeldInv' /\ OwnerInv'
    BY <1>1, <1>4, Stay DEF Pending
  <2>2. closes \in Seq(Closes)
    BY DEF TypeInv, TypeOK
  <2>3. Len(closes') = Len(closes)
        /\ \A i \in 1..Len(closes) : i # intent.close => closes'[i] = closes[i]
    BY <1>2, <1>4, <2>2, LenProperties
  <2>4. CloseInv'
    BY <1>2, <1>3, <1>4, <2>3 DEF CloseInv, NoneWorking, Pending, Away
  <2> QED
    BY <1>3, <2>1, <2>4
<1>5. CASE intent' = [intent EXCEPT !.phase = "entry", !.force = TRUE] /\ UNCHANGED closes
  <2>1. intent'.d = intent.d /\ intent'.phase = "entry"
    BY <1>2, <1>5 DEF Intents
  <2>2. Pending'
    BY <1>2, <2>1, NoneAssumption DEF Pending, NoIntent
  <2>3. EntryInv' /\ OneTrade' /\ HeldInv' /\ OwnerInv'
    BY <1>1, <1>2, <2>1, <2>2, Stay
  <2>4. CloseInv'
    BY <1>2, <1>3, <1>5, <2>1 DEF CloseInv, NoneWorking, Away
  <2> QED
    BY <1>3, <2>3, <2>4
<1> QED
  BY <1>4, <1>5 DEF SubmitClose

-----------------------------------------------------------------------------
(* The recovery pass.                                                       *)

\* A step of a pass that moves only the worker, or saves a note with the intent.
LEMMA PassE ==
  ASSUME TypeInv, EInv, w.pc \notin Away, UNCHANGED <<trade, entry, closes, stops, position, loose>>,
         intent'.d = intent.d, intent'.phase = intent.phase, intent'.close = intent.close,
         Pending', w'.d = w.d, w'.pc \notin Away, w'.pc # "closeSend", NoneWorking,
         WorkInv'
  PROVE  EInv'
<1>1. Pending
  BY WorkerIntent
<1>2. EntryInv' /\ OneTrade' /\ HeldInv' /\ OwnerInv'
  BY <1>1, Stay DEF EInv
<1>3. CloseInv'
  BY <1>1, CloseStay DEF EInv
<1> QED
  BY <1>2, <1>3 DEF EInv

\* The pass keeps the intent and ends.
LEMMA KeepE ==
  ASSUME TypeInv, EInv, NEW state, KeepPending(state),
         UNCHANGED <<trade, entry, closes, stops, position, loose>>
  PROVE  EInv'
  BY KeptPending, IdleType DEF KeepPending, Save, Pending

\* The entry order is cancelled, if it was working, and read.
LEMMA TickOrderE ==
  ASSUME TypeInv, EInv, NEW a \in BOOLEAN, TickOrder(a)
  PROVE  EInv'
<1> USE DEF EInv
<1>1. UNCHANGED <<trade, closes, stops, position, loose>> /\ w.pc = "idle" /\ Pending
  BY DEF TickOrder
<1>2. CASE UNCHANGED entry /\ (KeepPending("PARTIAL") \/ KeepPending("UNKNOWN_OUTCOME"))
  BY <1>1, <1>2, KeepE
<1>3. CASE /\ entry[intent.d].st # "none"
           /\ entry' = [entry EXCEPT ![intent.d].st = IF @ = "working" THEN "canceled" ELSE @]
           /\ w' = [Idle EXCEPT !.pc = IF intent.phase = "closing" THEN "tickClose"
                                       ELSE "tickPosition", !.d = intent.d]
           /\ UNCHANGED intent
  <2>1. intent.d \in Decisions /\ intent \in Intents
    BY <1>1, IntentFields
  <2>2. w'.d = intent.d /\ w'.pc = IF intent.phase = "closing" THEN "tickClose" ELSE "tickPosition"
    BY <1>3 DEF Idle
  <2>3. /\ \A d \in Decisions : entry'[d].filled = entry[d].filled
                                /\ (d # intent.d => entry'[d] = entry[d])
        /\ entry'[intent.d].st \in {"closed", "canceled"}
    BY <1>3, <2>1 DEF TypeInv, TypeOK, Orders
  <2>4. EntryInv' /\ OneTrade' /\ HeldInv' /\ OwnerInv'
    BY <1>1, <1>3, <2>1, <2>3 DEF EntryInv, OneTrade, HeldInv, OwnerInv, OpenTrades, Pending
  <2>5. CloseInv'
    BY <1>1, <1>3, <2>2 DEF CloseInv, NoneWorking, Pending, Away
  <2>6. WorkInv'
    BY <1>3, <2>2, <2>3 DEF WorkInv, Over, Away, Terminal
  <2> QED
    BY <2>4, <2>5, <2>6
<1> QED
  BY <1>2, <1>3 DEF TickOrder

\* An emergency close is waited for.
LEMMA TickCloseE ==
  ASSUME TypeInv, EInv, NEW a \in BOOLEAN, TickClose(a)
  PROVE  EInv'
<1> USE DEF EInv
<1>1. UNCHANGED <<trade, entry, closes, stops, position, loose>> /\ w.pc = "tickClose"
  BY DEF TickClose, tickOnly, venue
<1>2. CASE KeepPending("UNKNOWN_OUTCOME")
  BY <1>1, <1>2, KeepE
<1>3. CASE CloseSettled(closes[intent.close]) /\ w' = [w EXCEPT !.pc = "tickPosition"]
           /\ UNCHANGED intent
  <2>1. Pending /\ w.d = intent.d /\ w.pc \notin Away
    BY <1>1, WorkerIntent DEF Away
  <2>2. w'.pc = "tickPosition" /\ w'.d = w.d
    BY <1>3, WorkerNext DEF Pcs
  <2>3. NoneWorking
    BY <1>3 DEF CloseInv, NoneWorking, CloseSettled, Terminal
  <2>4. WorkInv'
    BY <1>1, <1>3, <2>1, <2>2 DEF WorkInv, Over, Away, Terminal
  <2>5. Pending' /\ w'.pc \notin Away /\ w'.pc # "closeSend"
    BY <1>3, <2>1, <2>2 DEF Pending, Away
  <2> QED
    BY <1>1, <1>3, <2>1, <2>2, <2>3, <2>4, <2>5, PassE
<1> QED
  BY <1>2, <1>3 DEF TickClose

\* The position is read.
LEMMA TickPositionE ==
  ASSUME TypeInv, EInv, NEW a \in BOOLEAN, TickPosition(a)
  PROVE  EInv'
<1> USE DEF EInv
<1>1. UNCHANGED <<trade, entry, closes, stops, position, loose>> /\ w.pc = "tickPosition"
  BY DEF TickPosition, tickOnly, venue
<1>2. CASE KeepPending("UNKNOWN_OUTCOME")
  BY <1>1, <1>2, KeepE
<1>3. CASE w' = [w EXCEPT !.pc = "tickAct", !.amount = position] /\ UNCHANGED intent
  <2>1. Pending /\ w.d = intent.d /\ w.pc \notin Away /\ NoneWorking
    BY <1>1, WorkerIntent DEF Away, CloseInv
  <2>2. w'.pc = "tickAct" /\ w'.d = w.d /\ w'.amount = position
    BY <1>3, WorkerNext, IntentFields DEF Pcs
  <2>3. position <= position
    BY IntentFields
  <2>4. WorkInv'
    BY <1>1, <1>3, <2>1, <2>2, <2>3 DEF WorkInv, Over, Away, Terminal
  <2>5. Pending' /\ w'.pc \notin Away /\ w'.pc # "closeSend"
    BY <1>3, <2>1, <2>2 DEF Pending, Away
  <2> QED
    BY <1>1, <1>3, <2>1, <2>2, <2>4, <2>5, PassE
<1> QED
  BY <1>2, <1>3 DEF TickPosition

\* Nothing is held.
LEMMA TickFlatE ==
  ASSUME TypeInv, EInv, NEW a \in BOOLEAN, TickFlat(a)
  PROVE  EInv'
<1> USE DEF EInv
<1>1. /\ UNCHANGED <<trade, entry, closes, stops, position, loose>> /\ w.pc = "tickAct"
      /\ w.amount = 0
  BY DEF TickFlat, tickOnly, venue
<1>2. CASE KeepPending("UNKNOWN_OUTCOME")
  BY <1>1, <1>2, KeepE
<1>3. CASE w' = [w EXCEPT !.pc = "finish"] /\ UNCHANGED intent
  <2>1. Pending /\ w.d = intent.d /\ w.pc \notin Away /\ NoneWorking
    BY <1>1, WorkerIntent DEF Away, CloseInv
  <2>2. w'.pc = "finish" /\ w'.d = w.d
    BY <1>3, WorkerNext DEF Pcs
  <2>3. ~(position' > loose')
    BY <1>1, IntentFields DEF WorkInv
  <2>4. WorkInv'
    BY <1>1, <1>3, <2>1, <2>2, <2>3 DEF WorkInv, Over, Away, Terminal
  <2>5. Pending' /\ w'.pc \notin Away /\ w'.pc # "closeSend"
    BY <1>3, <2>1, <2>2 DEF Pending, Away
  <2> QED
    BY <1>1, <1>3, <2>1, <2>2, <2>4, <2>5, PassE
<1> QED
  BY <1>2, <1>3 DEF TickFlat

\* The pass goes to the emergency close, or tries a stop.
LEMMA ToCloseE ==
  ASSUME TypeInv, EInv, w.pc \in {"tickAct", "tickStop"},
         UNCHANGED <<trade, entry, closes, stops, position, loose>>,
         NEW p \in {"close", "tickStop"}, w' = [w EXCEPT !.pc = p],
         intent' = intent \/ intent' = [intent EXCEPT !.stopTried = TRUE]
  PROVE  EInv'
<1> USE DEF EInv
<1>1. Pending /\ w.d = intent.d /\ w.pc \notin Away /\ NoneWorking /\ intent \in Intents
  BY WorkerIntent DEF Away, CloseInv
<1>2. w'.pc = p /\ w'.d = w.d /\ w'.pc \notin Away /\ w'.pc # "closeSend"
  BY WorkerNext DEF Pcs, Away
<1>3. intent'.d = intent.d /\ intent'.phase = intent.phase /\ intent'.close = intent.close
  BY <1>1 DEF Intents
<1>4. Pending'
  <2>1. intent.d # None
    BY <1>1, IntentFields, NoneAssumption
  <2> QED
    BY <1>3, <2>1 DEF Pending, NoIntent
<1>5. WorkInv'
  BY <1>1, <1>2, <1>3 DEF WorkInv, Over, Away, Terminal
<1> QED
  BY <1>1, <1>2, <1>3, <1>4, <1>5, PassE

\* A position the pass cannot adopt is closed, left, or tried a stop for.
LEMMA TickCloseAgainE ==
  ASSUME TypeInv, EInv, TickRemaining \/ TickUnprotected \/ TickRefused
  PROVE  EInv'
<1>1. UNCHANGED <<trade, entry, closes, stops, position, loose>> /\ w.pc = "tickAct"
  BY DEF TickRemaining, TickUnprotected, TickRefused, tickOnly, venue
<1>2. CASE TickRemaining
  BY <1>1, <1>2, ToCloseE DEF TickRemaining
<1>3. CASE TickUnprotected
  BY <1>1, <1>3, ToCloseE DEF TickUnprotected, Save
<1>4. CASE TickRefused
  BY <1>1, <1>4, KeepE DEF TickRefused
<1> QED
  BY <1>2, <1>3, <1>4

\* One stop is tried, and looked for by a later pass.
LEMMA TickStopE ==
  ASSUME TypeInv, EInv, TickStop
  PROVE  EInv'
<1> USE DEF EInv
<1>1. UNCHANGED <<trade, entry, closes, position, loose>> /\ w.pc = "tickStop"
  BY DEF TickStop
<1>2. CASE w' = [w EXCEPT !.pc = "close"] /\ UNCHANGED <<intent, stops>>
  BY <1>1, <1>2, ToCloseE
<1>3. CASE KeepPending("UNKNOWN_OUTCOME")
  <2>1. Pending /\ intent' = intent /\ w' = Idle
    BY <1>1, <1>3, WorkerIntent DEF Away, KeepPending, Save
  <2>2. WorkInv' /\ w'.pc \in Away /\ w'.pc = "idle"
    BY <2>1, LeftWork, IdleType
  <2>3. EntryInv' /\ OneTrade' /\ HeldInv' /\ OwnerInv'
    BY <1>1, <2>1 DEF EntryInv, OneTrade, HeldInv, OwnerInv, OpenTrades, Pending
  <2>4. CloseInv'
    BY <1>1, <2>1, <2>2, CloseStay DEF Pending
  <2> QED
    BY <2>2, <2>3, <2>4
<1> QED
  BY <1>2, <1>3 DEF TickStop

\* The covering stop's position is journalled, or its trade takes the stop's id.
LEMMA TickProtectedE ==
  ASSUME TypeInv, EInv, TickProtected
  PROVE  EInv'
<1> USE DEF EInv
<1>1. /\ UNCHANGED <<entry, closes, stops, position, loose, intent>> /\ w.pc = "tickAct"
      /\ w.amount = entry[intent.d].filled /\ OpenTrades \subseteq {intent.d}
  BY DEF TickProtected, venue, Adoptable
<1>2. Pending /\ w.d = intent.d /\ w.d \in Decisions /\ w.pc \notin Away /\ NoneWorking
  BY <1>1, WorkerIntent DEF Away, CloseInv
<1>3. PICK i \in LiveStops :
        /\ stops[i].size >= w.amount
        /\ \/ UNCHANGED trade /\ w' = [w EXCEPT !.pc = "book", !.stop = i]
           \/ /\ trade[w.d].st = "open" /\ trade[w.d].amount = w.amount
              /\ trade' = [trade EXCEPT ![w.d].stop = i]
              /\ w' = [w EXCEPT !.pc = "finish"]
  BY DEF TickProtected, Candidates
<1>4. i \in Nat /\ position <= w.amount /\ Terminal(entry[w.d])
  BY <1>1, <1>3 DEF LiveStops, WorkInv, Over
<1>5. Holds(i)
  <2>1. stops[i] \in Stops
    BY <1>3, ElementOfSeq DEF LiveStops, TypeInv, TypeOK
  <2>2. stops[i].size \in Nat
    BY <2>1 DEF Stops
  <2>3. position <= stops[i].size + loose
    BY <1>3, <1>4, <2>2, IntentFields
  <2> QED
    BY <1>3, <2>3 DEF Holds, LiveStops
<1>6. CASE UNCHANGED trade /\ w' = [w EXCEPT !.pc = "book", !.stop = i]
  <2>1. w'.pc = "book" /\ w'.d = w.d /\ w'.amount = w.amount /\ w'.stop = i
    BY <1>4, <1>6, WorkerNext DEF Pcs
  <2>2. Holds(w.stop)'
    BY <1>1, <1>5, <2>1 DEF Holds, LiveStops
  <2>3. WorkInv'
    BY <1>1, <1>2, <1>4, <2>1, <2>2 DEF WorkInv, Over, Away, Terminal
  <2>4. Pending' /\ w'.pc \notin Away /\ w'.pc # "closeSend"
    BY <1>1, <1>2, <2>1 DEF Pending, Away
  <2> QED
    BY <1>1, <1>2, <1>6, <2>1, <2>3, <2>4, PassE
<1>7. CASE /\ trade[w.d].st = "open" /\ trade[w.d].amount = w.amount
           /\ trade' = [trade EXCEPT ![w.d].stop = i]
           /\ w' = [w EXCEPT !.pc = "finish"]
  <2>1. w'.pc = "finish" /\ w'.d = w.d
    BY <1>7, WorkerNext DEF Pcs
  <2>2. /\ trade'[w.d].st = "open" /\ trade'[w.d].amount = w.amount /\ trade'[w.d].stop = i
        /\ w.d \in Rows /\ \A d \in Rows : d # w.d => trade'[d] = trade[d]
    BY <1>2, <1>7 DEF TypeInv, TypeOK, Trades, Rows
  <2>3. OpenTrades' = OpenTrades /\ w.d \in OpenTrades'
    BY <1>2, <1>7, <2>2 DEF OpenTrades
  <2>4. Guarded(w.d)'
    <3>1. position' <= trade'[w.d].amount + loose'
      BY <1>1, <1>4, <2>2, IntentFields
    <3> QED
      BY <1>1, <1>5, <2>1, <2>2, <2>3, <3>1 DEF Guarded, Holds
  <2>5. EntryInv' /\ OneTrade' /\ HeldInv' /\ OwnerInv'
    BY <1>1, <1>2, <2>3 DEF EntryInv, OneTrade, HeldInv, OwnerInv, Pending
  <2>6. CloseInv'
    BY <1>1, <1>2, <2>1, CloseStay DEF Pending
  <2>7. WorkInv'
    BY <1>1, <1>2, <1>4, <2>1, <2>4 DEF WorkInv, Over, Away, Terminal
  <2> QED
    BY <2>5, <2>6, <2>7
<1> QED
  BY <1>3, <1>6, <1>7


-----------------------------------------------------------------------------
(* The venue, the exits and what comes from outside.                        *)

\* An entry order that is over stays over, at what it filled.
EntrySettles ==
    \A d \in Decisions : /\ entry'[d].filled = entry[d].filled
                         /\ Terminal(entry[d]) => Terminal(entry'[d])

\* What is held shrinks, the lots that were let go the last of all.
Shrunk ==
    /\ position' \in 0..position /\ loose' \in 0..loose
    /\ position' > loose' => position > loose
    /\ \A y \in Nat : position <= y + loose => position' <= y + loose'
    /\ \A x, y \in Nat : x <= y /\ position + x <= y + loose => position' + x <= y + loose'

\* A sale is such a step, and so is any that leaves the position alone.
LEMMA SellShrinks ==
  ASSUME TypeInv, NEW k \in Nat, k <= position, Sell(k)
  PROVE  Shrunk
  BY IntentFields DEF Sell, Least, Shrunk

LEMMA StillShrunk ==
  ASSUME TypeInv, UNCHANGED <<position, loose>>
  PROVE  Shrunk
  BY IntentFields DEF Shrunk

\* A stop that may have fired, but is neither replaced nor cancelled, holds what it held.
LEMMA HoldsOn ==
  ASSUME TypeInv, Shrunk, NEW i, Holds(i), Len(stops') = Len(stops),
         stops'[i].size = stops[i].size, stops'[i].st # "canceled"
  PROVE  Holds(i)'
<1>1. stops[i] \in Stops
  BY ElementOfSeq DEF Holds, TypeInv, TypeOK
<1>2. stops[i].size \in Nat
  BY <1>1 DEF Stops
<1>3. position' <= stops[i].size + loose'
  BY <1>2 DEF Shrunk, Holds
<1> QED
  BY <1>3 DEF Holds

\* What is held only shrinks, and no stop is taken away: it stays owned, and the worker
\* may rely on what it did.
LEMMA Shrink ==
  ASSUME TypeInv, EInv, UNCHANGED <<intent, trade>>, EntrySettles, Shrunk,
         \A i : Holds(i) => Holds(i)'
  PROVE  OneTrade' /\ HeldInv' /\ OwnerInv' /\ (w' = w => WorkInv')
<1> USE DEF EInv
<1>1. /\ position \in Nat /\ loose \in Nat /\ w.amount \in Nat
      /\ position' \in Nat /\ loose' \in Nat /\ position' <= position
      /\ \A d \in Decisions : entry[d].filled \in Nat /\ trade[d].amount \in Nat
      /\ \A d \in Rows : trade[d].amount \in Nat
  BY IntentFields DEF Shrunk
<1>2. \A y \in Nat : position <= y + loose => position' <= y + loose'
  BY DEF Shrunk
<1>3. \A d \in Decisions : Guarded(d) => Guarded(d)'
  BY <1>1, <1>2 DEF Guarded, OpenTrades
<1>4. OneTrade'
  BY DEF OneTrade, OpenTrades
<1>5. HeldInv'
  <2> SUFFICES ASSUME Pending' PROVE HeldInv'
    BY DEF HeldInv
  <2>1. Pending /\ intent.d \in Decisions
    BY IntentFields DEF Pending
  <2>2. position' <= entry'[intent.d].filled + loose'
    BY <1>1, <1>2, <2>1 DEF HeldInv, EntrySettles
  <2> QED
    BY <2>1, <2>2 DEF HeldInv, OpenTrades
<1>6. OwnerInv'
  BY <1>3 DEF OwnerInv, Pending, Shrunk
<1>7. ASSUME w' = w PROVE WorkInv'
  <2>1. w.pc \notin Away => w.d \in Decisions
    BY WorkerIntent
  <2>2. w.pc \in Over => Terminal(entry'[w.d])
    BY <2>1 DEF WorkInv, EntrySettles, Over, Away
  <2>3. w.pc \in {"stop", "book"} => w.amount = entry'[w.d].filled
    BY <2>1 DEF WorkInv, EntrySettles, Away
  <2>4. w.pc = "tickAct" => position' <= w.amount
    BY <1>1 DEF WorkInv
  <2>5. w.pc = "book" => Holds(w.stop)'
    <3>1. Holds(w.stop) => Holds(w.stop)'
      BY <1>7
    <3> QED
      BY <3>1 DEF WorkInv
  <2>6. w.pc \in {"finish", "release"} /\ position' > loose' => Guarded(w.d)'
    <3> SUFFICES ASSUME w.pc \in {"finish", "release"}, position' > loose'
                 PROVE  Guarded(w.d)'
      OBVIOUS
    <3>1. PICK d \in Decisions : d = w.d
      BY <2>1 DEF Away
    <3>2. Guarded(d)'
      BY <1>3, <3>1 DEF WorkInv, Shrunk
    <3> QED
      BY <1>7, <3>1, <3>2 DEF Guarded
  <2>7. w.pc = "exitBook" =>
          /\ w.d \in OpenTrades /\ w.amount <= trade[w.d].amount
          /\ ~Pending => position' + w.amount <= trade[w.d].amount + loose'
    <3> SUFFICES ASSUME w.pc = "exitBook", ~Pending
                 PROVE  position' + w.amount <= trade[w.d].amount + loose'
      BY DEF WorkInv
    <3>1. /\ position + w.amount <= trade[w.d].amount + loose
          /\ w.amount <= trade[w.d].amount /\ w.d \in Rows
      BY DEF WorkInv, OpenTrades
    <3>2. trade[w.d].amount \in Nat
      BY <1>1, <3>1
    <3> QED
      BY <1>1, <3>1, <3>2 DEF Shrunk
  <2> QED
    BY <1>7, <2>2, <2>3, <2>4, <2>5, <2>6, <2>7 DEF WorkInv, OpenTrades, Pending
<1> QED
  BY <1>4, <1>5, <1>6, <1>7

\* No emergency close starts.
LEMMA CloseSettles ==
  ASSUME CloseInv, UNCHANGED intent, Len(closes') = Len(closes), w' = w,
         \A i \in 1..Len(closes) : closes'[i].st = "working" => closes[i].st = "working"
  PROVE  CloseInv'
  BY DEF CloseInv, NoneWorking, Pending

\* The pending entry fills: its worker has not read the order as over.
LEMMA FillEntryE ==
  ASSUME TypeInv, EInv, NEW d \in Decisions, FillEntry(d)
  PROVE  EInv'
<1> USE DEF EInv
<1>1. /\ entry[d].st = "working" /\ position' = position + 1
      /\ UNCHANGED <<trade, intent, closes, stops, loose, w>>
  BY DEF FillEntry, venueOnly, journal
<1>2. /\ intent.d = d /\ Pending
      /\ position \in Nat /\ loose \in Nat /\ entry[d].filled \in Nat
  BY <1>1, IntentFields DEF EntryInv
<1>3. w.pc \notin Over
  BY <1>1, <1>2 DEF WorkInv, Terminal, Over, Away
<1>4. /\ entry'[d].filled = entry[d].filled + 1 /\ entry'[d].st \in {"closed", "working"}
      /\ \A e \in Decisions : e # d => entry'[e] = entry[e]
  BY DEF FillEntry, TypeInv, TypeOK
<1>5. EntryInv'
  BY <1>1, <1>2, <1>4 DEF EntryInv
<1>6. OneTrade' /\ HeldInv' /\ OwnerInv'
  BY <1>1, <1>2, <1>4 DEF OneTrade, HeldInv, OwnerInv, OpenTrades, Pending
<1>7. CloseInv'
  BY <1>1, CloseSettles
<1>8. WorkInv'
  BY <1>1, <1>2, <1>3 DEF WorkInv, Over, OpenTrades, Pending
<1> QED
  BY <1>5, <1>6, <1>7, <1>8

\* The entry order ends.
LEMMA EndEntryE ==
  ASSUME TypeInv, EInv, NEW d \in Decisions, EndEntry(d)
  PROVE  EInv'
<1> USE DEF EInv
<1>1. UNCHANGED <<trade, intent, closes, stops, position, loose, w>> /\ entry[d].st = "working"
  BY DEF EndEntry, venueOnly, journal
<1>2. /\ entry'[d].filled = entry[d].filled /\ entry'[d].st = "canceled"
      /\ \A e \in Decisions : e # d => entry'[e] = entry[e]
  BY DEF EndEntry, TypeInv, TypeOK, Orders
<1>3. EntrySettles /\ EntryInv'
  BY <1>1, <1>2 DEF EntrySettles, EntryInv, Terminal
<1>4. OneTrade' /\ HeldInv' /\ OwnerInv' /\ WorkInv'
  <2>1. Shrunk
    BY <1>1, StillShrunk
  <2>2. \A i : Holds(i) => Holds(i)'
    BY <1>1 DEF Holds, LiveStops
  <2> QED
    BY <1>1, <1>3, <2>1, <2>2, Shrink
<1> QED
  BY <1>1, <1>3, <1>4, CloseSettles

\* What a step that reduces the position and leaves the stops alone has to show.
LEMMA Reduced ==
  ASSUME TypeInv, EInv, UNCHANGED <<trade, intent, entry, stops>>, Shrunk
  PROVE  EntryInv' /\ OneTrade' /\ HeldInv' /\ OwnerInv' /\ (w' = w => WorkInv')
<1>1. EntrySettles /\ EntryInv'
  BY DEF EntrySettles, EInv, EntryInv
<1>2. \A i : Holds(i) => Holds(i)'
  BY HoldsOn DEF Holds
<1> QED
  BY <1>1, <1>2, Shrink

\* The emergency close fills or ends.
LEMMA VenueCloseE ==
  ASSUME TypeInv, EInv, NEW i \in 1..Len(closes), FillClose(i) \/ EndClose(i)
  PROVE  EInv'
<1> USE DEF EInv
<1>1. UNCHANGED <<trade, intent, entry, stops, w>> /\ closes[i].st = "working"
  BY DEF FillClose, EndClose, venueOnly, journal
<1>2. Shrunk
  <2>1. CASE FillClose(i)
    <3>1. 1 <= position /\ Sell(1)
      BY <2>1, IntentFields DEF FillClose
    <3> QED
      BY <3>1, SellShrinks
  <2>2. CASE EndClose(i)
    BY <2>2, StillShrunk DEF EndClose
  <2> QED
    BY <2>1, <2>2
<1>3. /\ Len(closes') = Len(closes)
      /\ \A j \in 1..Len(closes) : closes'[j].st = "working" => closes[j].st = "working"
  <2>1. closes \in Seq(Closes)
    BY DEF TypeInv, TypeOK
  <2>2. PICK c : closes' = [closes EXCEPT ![i] = c]
    BY DEF FillClose, EndClose
  <2> QED
    BY <1>1, <2>1, <2>2, LenProperties
<1> QED
  BY <1>1, <1>2, <1>3, Reduced, CloseSettles

\* Someone reduces the position by hand.
LEMMA ReduceByHandE ==
  ASSUME TypeInv, EInv, ReduceByHand
  PROVE  EInv'
<1>1. UNCHANGED <<trade, intent, entry, closes, stops, w>>
  BY DEF ReduceByHand, journal
<1>2. 1 <= position /\ Sell(1)
  BY IntentFields DEF ReduceByHand
<1> QED
  BY <1>1, <1>2, SellShrinks, Reduced, CloseSettles DEF EInv

\* A stop that fires, in full or short, still was placed for what is left.
LEMMA TriggerStopE ==
  ASSUME TypeInv, EInv, NEW i \in 1..Len(stops), TriggerStop(i)
  PROVE  EInv'
<1> USE DEF EInv
<1>1. /\ UNCHANGED <<trade, intent, entry, closes, w>>
      /\ stops' = [stops EXCEPT ![i].st = "fired"]
  BY DEF TriggerStop, venueOnly, journal
<1>2. stops \in Seq(Stops) /\ stops[i] \in Stops
  BY ElementOfSeq DEF TypeInv, TypeOK
<1>3. Shrunk
  <2>1. PICK k \in 1..ReduceOnly(stops[i].size) : Sell(k)
    BY DEF TriggerStop
  <2>2. stops[i].size \in Nat
    BY <1>2 DEF Stops
  <2>3. k \in Nat /\ k <= position
    BY <2>1, <2>2, IntentFields DEF ReduceOnly, Least
  <2> QED
    BY <2>1, <2>3, SellShrinks
<1>4. ASSUME NEW j, Holds(j) PROVE Holds(j)'
  <2>1. j \in 1..Len(stops) /\ stops[j].st # "canceled" /\ stops[j] \in Stops
    BY <1>2, <1>4, ElementOfSeq DEF Holds
  <2>2. Len(stops') = Len(stops)
    BY <1>1, <1>2, LenProperties
  <2>3. stops'[j].size = stops[j].size /\ stops'[j].st # "canceled"
    BY <1>1, <1>2, <2>1 DEF Stops
  <2> QED
    BY <1>3, <1>4, <2>2, <2>3, HoldsOn
<1>5. EntrySettles /\ EntryInv'
  BY <1>1 DEF EntrySettles, EntryInv
<1> QED
  BY <1>1, <1>3, <1>4, <1>5, Shrink, CloseSettles

\* What is held and no intent is pending for is at most what the open trade owns.
LEMMA HeldByTrade ==
  ASSUME TypeInv, EInv, ~Pending, NEW d \in OpenTrades
  PROVE  position <= trade[d].amount + loose
<1>1. position \in Nat /\ loose \in Nat /\ trade[d].amount \in Nat
  BY IntentFields DEF OpenTrades
<1>2. ASSUME position > loose PROVE position <= trade[d].amount + loose
  <2>1. PICK e \in Decisions : Guarded(e)
    BY <1>2 DEF EInv, OwnerInv
  <2>2. e = d
    BY <2>1 DEF EInv, OneTrade, Guarded
  <2> QED
    BY <2>1, <2>2 DEF Guarded
<1> QED
  BY <1>1, <1>2

\* An exit takes at most what its trade owns.
LEMMA ExitSendE ==
  ASSUME TypeInv, EInv, NEW d \in Rows, ExitSend(d)
  PROVE  EInv'
<1> USE DEF EInv
<1>1. PICK k \in 0..ReduceOnly(trade[d].amount) :
        /\ Sell(k)
        /\ \/ w' = [Idle EXCEPT !.pc = "exitBook", !.d = d, !.amount = k] /\ k > 0
           \/ w' = w
  BY DEF ExitSend
<1>2. UNCHANGED <<trade, intent, entry, closes, stops>> /\ w.pc = "idle" /\ d \in OpenTrades
  BY DEF ExitSend, journal, OpenTrades
<1>3. trade[d].amount \in Nat /\ position \in Nat /\ loose \in Nat
  BY IntentFields
<1>4. k \in Nat /\ k <= position /\ k <= trade[d].amount
  BY <1>3 DEF ReduceOnly, Least
<1>5. Shrunk
  BY <1>1, <1>4, SellShrinks
<1>6. EntryInv' /\ OneTrade' /\ HeldInv' /\ OwnerInv' /\ (w' = w => WorkInv')
  BY <1>2, <1>5, Reduced
<1>7. CASE w' = w
  BY <1>2, <1>6, <1>7, CloseSettles
<1>8. CASE w' = [Idle EXCEPT !.pc = "exitBook", !.d = d, !.amount = k] /\ k > 0
  <2>1. w'.pc = "exitBook" /\ w'.d = d /\ w'.amount = k
    BY <1>8 DEF Idle
  <2>2. CloseInv'
    BY <1>2, <2>1, CloseStay DEF Away, Pending
  <2>3. ~Pending => position' + k <= trade[d].amount + loose'
    <3> SUFFICES ASSUME ~Pending PROVE position' + k <= trade[d].amount + loose'
      OBVIOUS
    <3>1. position <= trade[d].amount + loose
      BY <1>2, HeldByTrade
    <3> QED
      BY <1>1, <1>3, <1>4, <3>1 DEF Sell, Least
  <2>4. WorkInv'
    BY <1>2, <1>4, <2>1, <2>3 DEF WorkInv, Away, Over, OpenTrades, Pending
  <2> QED
    BY <1>6, <2>2, <2>4
<1> QED
  BY <1>1, <1>7, <1>8

\* What the exit filled is taken off its trade, which owns the rest as before; or the
\* trade is closed, and the rest is let go.
LEMMA ExitBookE ==
  ASSUME TypeInv, EInv, ExitBook
  PROVE  EInv'
<1> USE DEF EInv
<1> DEFINE left == trade[w.d].amount - w.amount
<1>1. UNCHANGED <<intent, entry, closes, position>> /\ w.pc = "exitBook" /\ w' = Idle
  BY DEF ExitBook
<1>2. /\ w.d \in Rows /\ trade[w.d].st = "open"
      /\ ~Pending => position + w.amount <= trade[w.d].amount + loose
  BY <1>1 DEF WorkInv, OpenTrades
<1>3. /\ position \in Nat /\ loose \in Nat /\ w.amount \in Nat /\ trade[w.d].amount \in Nat
      /\ left \in Nat
  BY <1>1, <1>2, IntentFields, LeftType
<1>4. PICK t : /\ trade' = [trade EXCEPT ![w.d] = t]
               /\ \/ /\ t = [trade[w.d] EXCEPT !.amount = left]
                     /\ UNCHANGED <<stops, loose>>
                  \/ /\ t = [trade[w.d] EXCEPT !.st = "closed"]
                     /\ loose' = Least(loose + left, position)
  BY DEF ExitBook
<1> HIDE DEF left
<1>5. trade'[w.d] = t /\ \A d \in Rows : d # w.d => trade'[d] = trade[d]
  BY <1>2, <1>4 DEF TypeInv, TypeOK
<1>6. OpenTrades' \subseteq OpenTrades
  BY <1>2, <1>5 DEF OpenTrades
<1>7. EntryInv' /\ OneTrade'
  BY <1>1, <1>6 DEF EntryInv, OneTrade
<1>8. loose' \in Nat /\ (loose' >= loose \/ position <= loose')
  BY <1>3, <1>4 DEF Least
<1>9. HeldInv'
  <2> SUFFICES ASSUME Pending PROVE position <= entry[intent.d].filled + loose'
    BY <1>1, <1>6 DEF HeldInv, Pending
  <2>1. position <= entry[intent.d].filled + loose /\ entry[intent.d].filled \in Nat
    BY IntentFields DEF HeldInv
  <2> QED
    BY <1>3, <1>8, <2>1
<1>10. WorkInv' /\ CloseInv'
  BY <1>1, LeftWork, IdleType, CloseStay DEF Pending
<1>11. OwnerInv'
  <2> SUFFICES ASSUME ~Pending, position > loose' PROVE \E d \in Decisions : Guarded(d)'
    BY <1>1 DEF OwnerInv, Pending
  <2>1. position <= left + loose
    BY <1>2, <1>3 DEF left
  <2>2. t = [trade[w.d] EXCEPT !.amount = left] /\ UNCHANGED <<stops, loose>>
    BY <1>3, <1>4, <2>1 DEF Least
  <2>3. PICK d \in Decisions : Guarded(d)
    BY <2>2 DEF OwnerInv
  <2>4. d = w.d
    BY <1>2, <2>3 DEF OneTrade, Guarded, OpenTrades
  <2>5. t.st = "open" /\ t.stop = trade[w.d].stop /\ t.amount = left
    BY <1>2, <2>2 DEF TypeInv, TypeOK, Trades
  <2>6. d \in OpenTrades' /\ position' <= trade'[d].amount + loose'
    BY <1>1, <1>2, <1>5, <2>1, <2>2, <2>4, <2>5 DEF OpenTrades
  <2>7. Holds(trade[d].stop)' /\ trade'[d].stop = trade[d].stop
    BY <1>1, <1>5, <2>2, <2>3, <2>4, <2>5 DEF Guarded, Holds
  <2> QED
    BY <2>6, <2>7 DEF Guarded, Holds
<1> QED
  BY <1>7, <1>9, <1>10, <1>11

\* The exit check shrinks a trade to what is held.
LEMMA ExitCheckE ==
  ASSUME TypeInv, EInv, NEW d \in Rows, ExitCheck(d)
  PROVE  EInv'
<1> USE DEF EInv
<1>1. UNCHANGED <<intent, entry, closes, stops, position, loose, w>> /\ w.pc = "idle"
  BY DEF ExitCheck, venue
<1>2. PICK t : /\ trade' = [trade EXCEPT ![d] = t] /\ trade[d].st = "open"
               /\ t = IF position = 0 THEN [trade[d] EXCEPT !.st = "closed"]
                      ELSE [trade[d] EXCEPT !.amount = position]
  BY DEF ExitCheck
<1>3. trade'[d] = t /\ \A e \in Rows : e # d => trade'[e] = trade[e]
  BY <1>2 DEF TypeInv, TypeOK
<1>4. OpenTrades' \subseteq OpenTrades
  BY <1>2, <1>3 DEF OpenTrades
<1>5. EntryInv' /\ OneTrade' /\ HeldInv'
  BY <1>1, <1>4 DEF EntryInv, OneTrade, HeldInv, Pending
<1>6. WorkInv' /\ CloseInv'
  BY <1>1, LeftWork, CloseStay DEF Pending
<1>7. OwnerInv'
  <2> SUFFICES ASSUME ~Pending, position > loose PROVE \E e \in Decisions : Guarded(e)'
    BY <1>1 DEF OwnerInv, Pending
  <2>1. PICK e \in Decisions : Guarded(e)
    BY DEF OwnerInv
  <2>2. e = d
    BY <1>2, <2>1 DEF OneTrade, Guarded, OpenTrades
  <2>3. position \in Nat /\ loose \in Nat /\ position # 0
    BY IntentFields
  <2>4. t.st = "open" /\ t.stop = trade[d].stop /\ t.amount = position
    BY <1>2, <2>3 DEF TypeInv, TypeOK, Trades
  <2>5. e \in OpenTrades' /\ position' <= trade'[e].amount + loose'
    BY <1>1, <1>3, <2>2, <2>3, <2>4 DEF OpenTrades
  <2>6. Holds(trade[e].stop)' /\ trade'[e].stop = trade[e].stop
    BY <1>1, <1>3, <2>1, <2>2, <2>4 DEF Guarded, Holds
  <2> QED
    BY <2>5, <2>6 DEF Guarded, Holds
<1> QED
  BY <1>5, <1>6, <1>7

\* Reconciliation opens no second trade, and what it leaves open of a guarded one still
\* is as large as what is held.
LEMMA ReconciledOpen ==
  ASSUME TypeInv, OneTrade, NEW d \in Rows, Reconciled[d].st = "open"
  PROVE  /\ d \in OpenTrades \/ (d = None /\ OpenTrades = {})
         /\ \A e \in Rows : Reconciled[e].st = "open" => e = d
<1>1. \A e \in Rows : Reconciled[e].st = "open" =>
                        e \in OpenTrades \/ (e = None /\ OpenTrades = {})
  BY DEF Reconciled, Followed, OpenTrades
<1> QED
  BY <1>1 DEF OneTrade

LEMMA ReconciledGuard ==
  ASSUME TypeInv, position > loose, NEW d \in Decisions, Guarded(d)
  PROVE  /\ d \in Rows /\ Reconciled[d].st = "open" /\ Reconciled[d].stop = trade[d].stop
         /\ Reconciled[d].amount \in Nat /\ position <= Reconciled[d].amount + loose
<1>1. position \in Nat /\ loose \in Nat /\ position # 0
  BY IntentFields
<1>2. d \in OpenTrades /\ d \in Rows /\ position <= trade[d].amount + loose
  BY DEF Guarded, OpenTrades
<1>3. trade[d] \in Trades /\ trade[d].st = "open"
  BY <1>2 DEF TypeInv, TypeOK, OpenTrades
<1>4. Reconciled[d] = Followed(trade[d])
  BY <1>2 DEF Reconciled
<1>5. Followed(trade[d]) = trade[d] \/ Followed(trade[d]) = [trade[d] EXCEPT !.amount = position]
  BY <1>1, <1>3 DEF Followed
<1> QED
  BY <1>1, <1>2, <1>3, <1>4, <1>5 DEF Trades

\* Reconciliation keeps the trade that owns what is held, and the stop it names; what
\* it arms anew is for all of the position.
LEMMA ReconcileE ==
  ASSUME TypeInv, EInv, Reconcile
  PROVE  EInv'
<1> USE DEF EInv
<1> DEFINE open == {d \in Rows : Reconciled[d].st = "open"}
           kept == {Reconciled[d].stop : d \in open}
           new  == [d |-> None, size |-> position, st |-> "live"]
<1>1. UNCHANGED <<intent, entry, closes, position, loose, w>> /\ w.pc = "idle" /\ ~Pending
  BY DEF Reconcile
<1>2. PICK swept :
        /\ swept \subseteq IF position > 0 /\ kept = {0} THEN {} ELSE LiveStops \ kept
        /\ \/ trade' = Reconciled /\ stops' = Cancel(swept)
           \/ /\ stops' = Append(Cancel(swept), new)
              /\ \E d \in open \cap Decisions :
                   trade' \in {Reconciled, [Reconciled EXCEPT ![d].stop = Len(stops')]}
  BY DEF Reconcile
<1>3. \A d \in Rows : /\ trade'[d].st = Reconciled[d].st
                      /\ trade'[d].amount = Reconciled[d].amount
  BY <1>2, ReconciledType DEF Trades
<1>4. OneTrade'
  BY <1>3, ReconciledOpen DEF OneTrade, OpenTrades
<1>5. EntryInv' /\ HeldInv'
  BY <1>1 DEF EntryInv, HeldInv, Pending
<1>6. WorkInv' /\ CloseInv'
  BY <1>1, LeftWork, CloseStay DEF Pending
<1>7. OwnerInv'
  <2> SUFFICES ASSUME position > loose PROVE \E d \in Decisions : Guarded(d)'
    BY <1>1 DEF OwnerInv
  <2>1. PICK d \in Decisions : Guarded(d)
    BY <1>1 DEF OwnerInv
  <2>2. /\ d \in Rows /\ Reconciled[d].st = "open" /\ Reconciled[d].stop = trade[d].stop
        /\ position <= Reconciled[d].amount + loose
    BY <2>1, ReconciledGuard
  <2>3. d \in OpenTrades' /\ position' <= trade'[d].amount + loose'
    BY <1>1, <1>3, <2>2 DEF OpenTrades
  <2>4. PICK i : i = trade[d].stop
    OBVIOUS
  <2>5. /\ i \in 1..Len(stops) /\ stops[i].st # "canceled" /\ position <= stops[i].size + loose
        /\ i \notin swept
    <3>1. i \in kept
      BY <2>2, <2>4
    <3>2. swept \subseteq LiveStops \ kept
      BY <1>2
    <3> QED
      BY <2>1, <2>4, <3>1, <3>2 DEF Guarded, Holds
  <2>6. Cancel(swept)[i] = stops[i] /\ Cancel(swept) \in Seq(Stops) /\ Len(stops) \in Nat
        /\ Len(Cancel(swept)) = Len(stops)
    BY <2>5, CancelType DEF Cancel, TypeInv, TypeOK
  <2>7. CASE trade' = Reconciled /\ stops' = Cancel(swept)
    <3>1. Holds(i)'
      BY <1>1, <2>5, <2>6, <2>7 DEF Holds
    <3> QED
      BY <2>2, <2>3, <2>4, <2>7, <3>1 DEF Guarded, Holds
  <2>8. ASSUME NEW e \in open \cap Decisions, stops' = Append(Cancel(swept), new),
               trade' \in {Reconciled, [Reconciled EXCEPT ![e].stop = Len(stops')]}
        PROVE  \E c \in Decisions : Guarded(c)'
    <3>1. e = d
      BY <2>2, ReconciledOpen
    <3>2. new \in Stops
      BY IntentFields DEF Stops, Rows
    <3>3. new.st = "live" /\ new.size = position
      OBVIOUS
    <3> HIDE DEF new
    <3>4. /\ Len(stops') = Len(stops) + 1 /\ stops'[Len(stops) + 1] = new
          /\ \A j \in 1..Len(stops) : stops'[j] = Cancel(swept)[j]
      BY <2>6, <2>8, <3>2, AppendProperties
    <3>5. Holds(i)'
      BY <1>1, <2>5, <2>6, <3>4 DEF Holds
    <3>6. Holds(Len(stops))'
      <4>1. Len(stops') \in 1..Len(stops') /\ stops'[Len(stops')] = new
        BY <2>6, <3>4
      <4>2. position <= position + loose
        BY IntentFields
      <4> QED
        BY <1>1, <3>3, <4>1, <4>2 DEF Holds
    <3>7. trade'[d].stop = i \/ trade'[d].stop = Len(stops')
      BY <2>2, <2>4, <2>8, <3>1, ReconciledType DEF Trades
    <3> QED
      BY <2>3, <3>5, <3>6, <3>7 DEF Guarded, Holds
  <2> QED
    BY <1>2, <2>7, <2>8
<1> QED
  BY <1>4, <1>5, <1>6, <1>7

-----------------------------------------------------------------------------
(* The invariant.                                                           *)

\* Nothing is held, pending or working in the beginning.
LEMMA ExposureInit == Init => AInv
<1> SUFFICES ASSUME Init PROVE AInv
  OBVIOUS
<1>1. OnceInv
  BY OnceInit
<1>2. /\ ~Pending /\ w.pc = "idle" /\ position = 0 /\ loose = 0
      /\ OpenTrades = {} /\ Len(closes) = 0
  BY IdleType DEF Init, Pending, OpenTrades, NoTrade
<1>3. EntryInv
  BY DEF Init, EntryInv, NoOrder
<1>4. OneTrade /\ HeldInv /\ OwnerInv /\ WorkInv
  BY <1>2 DEF OneTrade, HeldInv, OwnerInv, WorkInv, Away, Over
<1>5. CloseInv
  BY <1>2 DEF CloseInv, Away
<1> QED
  BY <1>1, <1>3, <1>4, <1>5 DEF AInv, EInv

\* Every step of the worker keeps it.
LEMMA WorkE ==
  ASSUME AInv, Work
  PROVE  EInv'
<1>1. OnceInv /\ TypeInv /\ EInv
  BY DEF AInv, OnceInv
<1>2. CASE \/ Reserve \/ SendEntry \/ CommitEntry \/ ConfirmFill \/ PlaceNativeStop
           \/ AddTrade \/ Finish \/ Release \/ PersistClose \/ SubmitClose
  BY <1>1, <1>2, ReserveE, SendE, CommitE, ConfirmE, StopE, AddTradeE, FinishE, ReleaseE,
     PersistE, SubmitE
<1>3. ASSUME NEW a \in BOOLEAN, TickClose(a) \/ TickPosition(a) \/ TickFlat(a)
      PROVE  EInv'
  BY <1>1, <1>3, TickCloseE, TickPositionE, TickFlatE
<1>4. CASE TickRemaining \/ TickRefused \/ TickUnprotected \/ TickStop \/ TickProtected
  BY <1>1, <1>4, TickCloseAgainE, TickStopE, TickProtectedE
<1>5. CASE ExitBook
  BY <1>1, <1>5, ExitBookE
<1> QED
  BY <1>2, <1>3, <1>4, <1>5 DEF Work

\* So does everything else.
LEMMA OtherE ==
  ASSUME AInv,
         \/ Start \/ Venue \/ ReduceByHand \/ PartialExit \/ Crash \/ UNCHANGED vars
         \/ \E state \in States : Control(state)
  PROVE  EInv'
<1>1. OnceInv /\ TypeInv /\ EInv
  BY DEF AInv, OnceInv
<1>2. ASSUME NEW d \in Decisions, Authorize(d)
      PROVE  EInv'
  <2>1. UNCHANGED <<trade, entry, closes, stops, position, loose, intent>> /\ w'.pc = "reserve"
    BY <1>2 DEF Authorize, venue, journal, Idle
  <2> QED
    BY <1>1, <2>1, KeptPending DEF Pending
<1>3. CASE Start
  BY <1>1, <1>2, <1>3, ExitSendE, ExitCheckE, TickOrderE, ReconcileE DEF Start
<1>4. CASE Venue
  BY <1>1, <1>4, FillEntryE, EndEntryE, VenueCloseE, TriggerStopE DEF Venue
<1>5. CASE Crash
  BY <1>1, <1>5, KeptPending, IdleType DEF Crash, Pending, venue, journal
<1>6. CASE \/ PartialExit \/ UNCHANGED vars
           \/ \E state \in States : Control(state)
  <2>1. UNCHANGED <<trade, entry, closes, stops, position, loose, intent, w>>
    BY <1>6 DEF PartialExit, Control, vars, venue, journal
  <2> QED
    BY <1>1, <2>1, SameKept
<1> QED
  BY <1>1, <1>3, <1>4, <1>5, <1>6, ReduceByHandE

\* Every step keeps the invariant.
LEMMA ExposureStep == AInv /\ [Next]_vars => AInv'
<1> SUFFICES ASSUME AInv, [Next]_vars PROVE AInv'
  OBVIOUS
<1>1. OnceInv'
  BY OnceStep DEF AInv
<1>2. EInv'
  BY WorkE, OtherE DEF Next
<1> QED
  BY <1>1, <1>2 DEF AInv

-----------------------------------------------------------------------------
(* The theorems.                                                            *)

\* Whatever is held or may still fill has an owner: the pending intent, which keeps
\* further entries out, or the open trade, which is at least as large, up to the lots
\* that closes let go within their tolerance.
THEOREM ExposureOwnedCorrect == Spec => []ExposureOwned
<1>1. AInv => ExposureOwned
  <2> SUFFICES ASSUME AInv PROVE ExposureOwned
    OBVIOUS
  <2>1. TypeInv /\ EInv
    BY DEF AInv, OnceInv
  <2>2. ~Pending => position <= OpenAmount + loose
    <3> SUFFICES ASSUME ~Pending PROVE position <= OpenAmount + loose
      OBVIOUS
    <3>1. CASE OpenTrades = {}
      <4>1. position <= loose /\ loose \in Nat
        BY <2>1, <3>1, IntentFields DEF EInv, OwnerInv, Guarded
      <4> QED
        BY <3>1, <4>1 DEF OpenAmount
    <3>2. CASE OpenTrades # {}
      <4>1. PICK d \in OpenTrades : d = CHOOSE e \in OpenTrades : TRUE
        BY <3>2
      <4> QED
        BY <2>1, <3>2, <4>1, HeldByTrade DEF OpenAmount
    <3> QED
      BY <3>1, <3>2
  <2> QED
    BY <2>1, <2>2 DEF EInv, EntryInv, CloseInv, ExposureOwned
<1> QED
  BY <1>1, ExposureInit, ExposureStep, PTL DEF Spec

\* What is held, not let go, and in no pending intent's care, is in the care of an open
\* trade whose own stop was placed for all of it: nothing that this system does, and no
\* crash, takes that stop away before the venue lets it fire.
THEOREM NotStrippedCorrect == Spec => []NotStripped
<1>1. AInv => NotStripped
  BY DEF AInv, EInv, OwnerInv, NotStripped
<1> QED
  BY <1>1, ExposureInit, ExposureStep, PTL DEF Spec

\* At most one emergency close is working at the venue.
THEOREM OneCloseAtATimeCorrect == Spec => []OneCloseAtATime
<1>1. AInv => OneCloseAtATime
  BY DEF AInv, EInv, CloseInv, OneCloseAtATime
<1> QED
  BY <1>1, ExposureInit, ExposureStep, PTL DEF Spec

\* A trade is opened only when its entry order is over, at what the order filled: a
\* worker that saw the fill, or a recovery pass that found it, writes no other size.
THEOREM BookedAsFilledCorrect == Spec => BookedAsFilled
<1> DEFINE Step == \A d \in Decisions : trade[d].st = "none" /\ trade'[d].st = "open" =>
                     Terminal(entry[d]) /\ trade'[d].amount = entry[d].filled
<1>1. AInv /\ [Next]_vars => [Step]_vars
  <2> SUFFICES ASSUME AInv, Next PROVE Step
    BY DEF vars
  <2> DEFINE Kept == \A d \in Decisions : trade'[d].st = "open" => trade[d].st = "open"
  <2>1. TypeInv
    BY DEF AInv, OnceInv
  <2>2. CASE AddTrade
    <3>1. CASE UNCHANGED trade
      BY <3>1
    <3>2. CASE trade' = [trade EXCEPT ![w.d] = [st |-> "open", amount |-> w.amount,
                                                stop |-> w.stop]]
      <4>1. w.pc = "book" /\ w.d \in Decisions
        BY <2>1, <2>2 DEF AddTrade, TypeInv, WorkerInv
      <4>2. Terminal(entry[w.d]) /\ w.amount = entry[w.d].filled
        BY <4>1 DEF AInv, EInv, WorkInv, Over
      <4>3. trade'[w.d].amount = w.amount /\ \A d \in Decisions : d # w.d => trade'[d] = trade[d]
        BY <2>1, <3>2, <4>1 DEF TypeInv, TypeOK, Rows
      <4> QED
        BY <4>2, <4>3
    <3> QED
      BY <2>2, <3>1, <3>2 DEF AddTrade
  <2>3. CASE TickProtected \/ ExitBook
    <3>1. PICK t : UNCHANGED trade \/ (/\ trade' = [trade EXCEPT ![w.d] = t]
                                       /\ trade[w.d].st = "open")
      <4>1. w.pc = "exitBook" => trade[w.d].st = "open"
        BY DEF AInv, EInv, WorkInv, OpenTrades
      <4>2. CASE TickProtected
        BY <4>2 DEF TickProtected
      <4>3. CASE ExitBook
        BY <4>1, <4>3 DEF ExitBook
      <4> QED
        BY <2>3, <4>2, <4>3
    <3>2. Kept
      BY <2>1, <3>1 DEF TypeInv, TypeOK, Rows
    <3> QED
      BY <3>2
  <2>4. CASE Reconcile
    <3>1. \A d \in Decisions : Reconciled[d].st = "open" => trade[d].st = "open"
      BY NoneAssumption DEF Reconciled, Followed, Rows
    <3>2. \A d \in Decisions : trade'[d].st = Reconciled[d].st
      <4>1. \/ trade' = Reconciled
            \/ \E d \in Rows : trade' = [Reconciled EXCEPT ![d].stop = Len(stops')]
        BY <2>4 DEF Reconcile
      <4> QED
        BY <2>1, <4>1, ReconciledType DEF Trades, Rows
    <3>3. Kept
      BY <3>1, <3>2
    <3> QED
      BY <3>3
  <2>6. CASE \E d \in Rows : ExitCheck(d)
    <3>1. Kept
      BY <2>1, <2>6 DEF ExitCheck, TypeInv, TypeOK, Rows
    <3> QED
      BY <3>1
  <2>5. CASE /\ ~AddTrade /\ ~TickProtected /\ ~ExitBook /\ ~Reconcile
             /\ ~\E d \in Rows : ExitCheck(d)
    <3>1. UNCHANGED trade
      <4>1. CASE Work
        BY <2>5, <4>1 DEF Work, Reserve, SendEntry, CommitEntry, ConfirmFill, PlaceNativeStop,
           Finish, Release, PersistClose, SubmitClose, TickClose, TickPosition, TickFlat,
           TickRemaining, TickRefused, TickUnprotected, TickStop, tickOnly, journal
      <4>2. CASE Start \/ Venue
        BY <2>5, <4>2 DEF Start, Venue, Authorize, ExitSend, TickOrder, FillEntry, EndEntry,
           FillClose, EndClose, TriggerStop, venueOnly, journal
      <4>3. CASE \/ ReduceByHand \/ PartialExit \/ Crash
                 \/ \E state \in States : Control(state)
        BY <4>3 DEF ReduceByHand, PartialExit, Crash, Control, journal
      <4> QED
        BY <4>1, <4>2, <4>3 DEF Next
    <3> QED
      BY <3>1
  <2> QED
    BY <2>2, <2>3, <2>4, <2>5, <2>6
<1>2. QED
  BY <1>1, ExposureInit, ExposureStep, PTL DEF Spec, BookedAsFilled

-----------------------------------------------------------------------------
(* The refinement of EntryBarrier.                                          *)

\* A pending intent has its request, and the venue has no order that was not sent.
TakenInv ==
    /\ Pending => request[intent.d] # "none"
    /\ \A d \in Decisions : sent[d] = 0 => entry[d].st = "none"
BInv == AInv /\ TakenInv

\* A step that leaves the barrier as it is, sends nothing and adds no exposure.
Noted == \E s \in RequestStates \ {"none"} : request' = [request EXCEPT ![intent.d] = s]
Same ==
    /\ intent'.d = intent.d /\ UNCHANGED sent
    /\ UNCHANGED request \/ (Pending /\ Noted)
    /\ position' \in 0..position /\ loose' \in 0..loose

\* What the open trade owns stays as long as the journal does.
LEMMA OpenAmountStay == UNCHANGED trade => OpenAmount' = OpenAmount
  BY DEF OpenAmount, OpenTrades

\* What is bare is all that is held or nothing, and nothing when no intent is pending.
LEMMA BareNext ==
  ASSUME TypeInv', EInv'
  PROVE  Bare' \in {0, position'} /\ (intent'.d = None => Bare' = 0)
<1>1. Bare' \in {0, position'}
  BY DEF Bare
<1>2. ASSUME intent'.d = None PROVE Bare' = 0
  <2>1. ~Pending'
    BY <1>2, NoneAssumption DEF TypeInv, TypeOK, Pending, Intents
  <2>2. position' \in Nat /\ loose' \in Nat
    BY DEF TypeInv, TypeOK
  <2>3. position' <= loose' \/ \E d \in Decisions : Guarded(d)'
    BY <2>1, <2>2 DEF EInv, OwnerInv
  <2> QED
    BY <2>3 DEF Bare
<1> QED
  BY <1>1, <1>2

\* Such a step is a move of the abstract entry.
LEMMA SameMoves ==
  ASSUME BInv, AInv', Same
  PROVE  Barrier!Move
<1>1. TypeInv /\ TypeInv' /\ EInv'
  BY DEF BInv, AInv, OnceInv
<1>2. Raised' = Raised
  <2>1. CASE UNCHANGED request
    BY <2>1 DEF Raised
  <2>2. CASE Pending /\ Noted
    <3>1. intent.d \in Decisions /\ request[intent.d] # "none"
      BY <1>1, <2>2, IntentFields DEF BInv, TakenInv
    <3>2. \A d \in Decisions : request'[d] # "none" <=> request[d] # "none"
      BY <1>1, <2>2, <3>1 DEF Noted, TypeInv, TypeOK
    <3> QED
      BY <3>2 DEF Raised
  <2> QED
    BY <2>1, <2>2 DEF Same
<1>3. Bare' \in {0, position'} /\ (intent'.d = None => Bare' = 0)
  BY <1>1, BareNext
<1>4. OpenAmount' \in Nat
  BY <1>1 DEF OpenAmount, OpenTrades, TypeInv, TypeOK, Trades
<1> QED
  BY <1>2, <1>3, <1>4 DEF Same, Barrier!Move, Barrier!Kept

\* Saving a note with the intent, and ending a pass.
LEMMA SaveSame ==
  ASSUME TypeInv, Pending, NEW i, i.d = intent.d, NEW s \in RequestStates \ {"none"}, Save(i, s),
         UNCHANGED <<sent, position, loose>>
  PROVE  Same
<1>1. intent'.d = intent.d /\ request' = [request EXCEPT ![intent.d] = s]
  BY DEF Save
<1>2. Noted
  BY <1>1 DEF Noted
<1>3. position' \in 0..position /\ loose' \in 0..loose
  BY IntentFields
<1> QED
  BY <1>1, <1>2, <1>3 DEF Same

\* The worker's steps that neither raise nor lower the barrier and close no trade.
LEMMA WorkSame ==
  ASSUME TypeInv, EInv, Work, ~Reserve, ~SendEntry, ~CommitEntry, ~Release, ~ExitBook
  PROVE  Same
<1>1. position \in Nat /\ loose \in Nat
  BY IntentFields
<1>2. UNCHANGED <<sent, position, loose>>
  BY DEF Work, ConfirmFill, PlaceNativeStop, AddTrade, Finish, PersistClose, SubmitClose,
     TickClose, TickPosition, TickFlat, TickRemaining, TickRefused, TickUnprotected, TickStop,
     TickProtected, tickOnly, venue
<1>3. CASE intent'.d = intent.d /\ UNCHANGED request
  BY <1>1, <1>2, <1>3 DEF Same
<1>4. ASSUME w.pc \notin Away, NEW i, i.d = intent.d, Save(i, "UNKNOWN_OUTCOME")
      PROVE  Same
  BY <1>2, <1>4, WorkerIntent, SaveSame DEF RequestStates
<1>5. /\ \A s : [intent EXCEPT !.phase = "closing", !.close = s].d = intent.d
      /\ [intent EXCEPT !.stopTried = TRUE].d = intent.d
      /\ [intent EXCEPT !.phase = "entry", !.force = TRUE].d = intent.d
  <2>1. CASE intent \in Intents
    BY <2>1 DEF Intents
  <2>2. CASE intent = NoIntent
    BY <2>2 DEF NoIntent
  <2> QED
    BY <2>1, <2>2 DEF TypeInv, TypeOK
<1>6. CASE ConfirmFill \/ AddTrade \/ Finish
  BY <1>3, <1>4, <1>6 DEF ConfirmFill, AddTrade, Finish, Away
<1>7. CASE PlaceNativeStop \/ TickRemaining \/ TickProtected
  BY <1>3, <1>7 DEF PlaceNativeStop, TickRemaining, TickProtected, journal
<1>8. CASE PersistClose \/ SubmitClose
  <2>1. CASE PersistClose
    BY <1>4, <1>5, <2>1 DEF PersistClose, Away
  <2>2. CASE SubmitClose
    BY <1>3, <1>5, <2>2 DEF SubmitClose
  <2> QED
    BY <1>8, <2>1, <2>2
<1>9. CASE \E a \in BOOLEAN : TickClose(a) \/ TickPosition(a) \/ TickFlat(a)
  BY <1>3, <1>4, <1>9 DEF TickClose, TickPosition, TickFlat, KeepPending, Away
<1>10. CASE TickRefused \/ TickUnprotected \/ TickStop
  <2>1. CASE TickRefused
    BY <1>4, <2>1 DEF TickRefused, KeepPending, Away
  <2>2. CASE TickUnprotected
    BY <1>3, <1>4, <1>5, <2>2 DEF TickUnprotected, Away
  <2>3. CASE TickStop
    BY <1>3, <1>4, <2>3 DEF TickStop, KeepPending, Away
  <2> QED
    BY <1>10, <2>1, <2>2, <2>3
<1> QED
  BY <1>6, <1>7, <1>8, <1>9, <1>10 DEF Work

\* So is everything that is begun, that the venue does but for a fill, and that others do.
LEMMA OtherSame ==
  ASSUME TypeInv, EInv,
         \/ Start \/ ReduceByHand \/ PartialExit \/ Crash
         \/ \E state \in States : Control(state)
         \/ \E d \in Decisions : EndEntry(d)
         \/ \E i \in 1..Len(closes) : FillClose(i) \/ EndClose(i)
         \/ \E i \in 1..Len(stops) : TriggerStop(i)
  PROVE  Same
<1> DEFINE Rest == UNCHANGED <<intent, request, sent>>
<1>1. UNCHANGED <<position, loose>> => Shrunk
  BY StillShrunk
<1>2. ASSUME Rest, Shrunk PROVE Same
  BY <1>2 DEF Same, Shrunk
<1>3. CASE \E a \in BOOLEAN : TickOrder(a)
  <2>1. Pending /\ UNCHANGED <<sent, position, loose>>
    BY <1>3 DEF TickOrder
  <2>2. CASE UNCHANGED <<request, intent>>
    BY <1>1, <1>2, <2>1, <2>2
  <2>3. CASE KeepPending("PARTIAL") \/ KeepPending("UNKNOWN_OUTCOME")
    BY <2>1, <2>3, SaveSame DEF KeepPending, RequestStates
  <2> QED
    BY <1>3, <2>2, <2>3 DEF TickOrder
<1>4. CASE (\E d \in Decisions : Authorize(d)) \/ (\E d \in Rows : ExitSend(d) \/ ExitCheck(d))
  <2>1. CASE \E d \in Decisions : Authorize(d)
    BY <1>1, <1>2, <2>1 DEF Authorize, journal, venue
  <2>3. CASE \E d \in Rows : ExitCheck(d)
    BY <1>1, <1>2, <2>3 DEF ExitCheck, venue
  <2>2. ASSUME NEW d \in Rows, ExitSend(d) PROVE Same
    <3>1. trade[d].amount \in Nat /\ position \in Nat
      BY IntentFields
    <3>2. PICK k \in 0..ReduceOnly(trade[d].amount) : Sell(k)
      BY <2>2 DEF ExitSend
    <3>3. Shrunk
      <4>1. k \in Nat /\ k <= position
        BY <3>1, <3>2 DEF ReduceOnly, Least
      <4> QED
        BY <3>2, <4>1, SellShrinks
    <3>4. Rest
      BY <2>2 DEF ExitSend, journal
    <3> QED
      BY <1>2, <3>3, <3>4
  <2> QED
    BY <1>4, <2>1, <2>2, <2>3
<1>5. CASE Reconcile
  BY <1>1, <1>2, <1>5 DEF Reconcile
<1>6. CASE ReduceByHand \/ PartialExit \/ Crash
           \/ \E state \in States : Control(state)
  <2>1. Rest
    BY <1>6 DEF ReduceByHand, PartialExit, Crash, Control, journal
  <2>2. Shrunk
    <3>1. CASE ReduceByHand
      <4>1. 1 <= position /\ Sell(1)
        BY <3>1, IntentFields DEF ReduceByHand
      <4> QED
        BY <4>1, SellShrinks
    <3>2. CASE PartialExit \/ Crash
               \/ \E state \in States : Control(state)
      BY <1>1, <3>2 DEF PartialExit, Crash, Control, venue
    <3> QED
      BY <1>6, <3>1, <3>2
  <2> QED
    BY <1>2, <2>1, <2>2
<1>7. CASE \E d \in Decisions : EndEntry(d)
  BY <1>1, <1>2, <1>7 DEF EndEntry, venueOnly, journal
<1>8. CASE \E i \in 1..Len(closes) : FillClose(i) \/ EndClose(i)
  <2>1. Rest
    BY <1>8 DEF FillClose, EndClose, venueOnly, journal
  <2>2. UNCHANGED <<position, loose>> \/ (1 <= position /\ Sell(1))
    <3>1. ASSUME NEW i \in 1..Len(closes), FillClose(i) PROVE 1 <= position /\ Sell(1)
      <4>1. position > 0 /\ Sell(1)
        BY ZenonT(30), <3>1 DEF FillClose
      <4> QED
        BY <4>1, IntentFields
    <3>2. ASSUME NEW i \in 1..Len(closes), EndClose(i) PROVE UNCHANGED <<position, loose>>
      BY <3>2 DEF EndClose
    <3> QED
      BY <1>8, <3>1, <3>2
  <2>3. Shrunk
    BY <1>1, <2>2, SellShrinks
  <2> QED
    BY <1>2, <2>1, <2>3
<1>9. ASSUME NEW i \in 1..Len(stops), TriggerStop(i) PROVE Same
  <2>1. stops[i].size \in Nat
    <3>1. stops[i] \in Stops
      BY ElementOfSeq DEF TypeInv, TypeOK
    <3> QED
      BY <3>1 DEF Stops
  <2>3. PICK k \in 1..ReduceOnly(stops[i].size) : Sell(k)
    BY <1>9 DEF TriggerStop
  <2>4. k \in Nat /\ k <= position
    BY <2>1, <2>3, IntentFields DEF ReduceOnly, Least
  <2>2. Shrunk
    BY <2>3, <2>4, SellShrinks
  <2> QED
    BY <1>2, <1>9, <2>2 DEF TriggerStop, venueOnly, journal
<1> QED
  BY <1>3, <1>4, <1>5, <1>6, <1>7, <1>8, <1>9 DEF Start

\* An exit is booked as a move, or the tolerated rest of its trade is let go.
LEMMA ExitBookLets ==
  ASSUME BInv, AInv', ExitBook
  PROVE  Same \/ Barrier!LetGo
<1> DEFINE left == trade[w.d].amount - w.amount
<1>1. TypeInv /\ EInv /\ TypeInv' /\ EInv'
  BY DEF BInv, AInv, OnceInv
<1>2. /\ w.pc = "exitBook" /\ w.d \in OpenTrades /\ w.d \in Rows /\ UNCHANGED <<intent, request, sent, position>>
      /\ position \in Nat /\ loose \in Nat /\ left \in Nat /\ w.amount \in Nat
      /\ trade[w.d].amount \in Nat /\ left <= trade[w.d].amount
  BY <1>1, IntentFields, LeftType DEF ExitBook, EInv, WorkInv, OpenTrades
<1> HIDE DEF left
<1>3. CASE UNCHANGED loose
  BY <1>2, <1>3 DEF Same
<1>4. CASE /\ Tolerated(left, trade[w.d].amount)
           /\ trade' = [trade EXCEPT ![w.d].st = "closed"]
           /\ loose' = Least(loose + left, position)
  <2>1. OpenTrades = {w.d} /\ OpenTrades' = {}
    <3>1. OpenTrades = {w.d}
      BY <1>1, <1>2 DEF EInv, OneTrade
    <3>2. \A d \in Rows : d # w.d => trade'[d] = trade[d]
      BY <1>1, <1>2, <1>4 DEF TypeInv, TypeOK
    <3>3. trade'[w.d].st = "closed"
      BY <1>1, <1>2, <1>4 DEF TypeInv, TypeOK, Trades
    <3> QED
      BY <3>1, <3>2, <3>3 DEF OpenTrades
  <2>2. OpenAmount = trade[w.d].amount /\ OpenAmount' = 0
    BY <2>1 DEF OpenAmount
  <2>3. left \in 0..OpenAmount /\ left * Part <= OpenAmount
    BY <1>2, <1>4, <2>2 DEF Tolerated
  <2>4. loose' \in 0..(loose + left)
    BY <1>2, <1>4 DEF Least
  <2>5. Bare' \in {0, position'} /\ (intent'.d = None => Bare' = 0)
    BY <1>1, BareNext
  <2>6. Raised' = Raised /\ intent'.d = intent.d
    BY <1>2 DEF Raised
  <2>7. Barrier!Kept
    BY <1>2, <2>5, <2>6 DEF Barrier!Kept
  <2> QED
    BY <1>2, <2>2, <2>3, <2>4, <2>7 DEF Barrier!LetGo
<1> QED
  BY <1>3, <1>4 DEF ExitBook, left

\* The reservation raises the barrier, for an action that has no request.
LEMMA ReserveRaises ==
  ASSUME BInv, AInv', Reserve
  PROVE  Same \/ Barrier!Raise(w.d)
<1>1. TypeInv /\ EInv /\ w.pc = "reserve" /\ w.d \in Decisions
      /\ UNCHANGED <<sent, trade, stops, position, loose>> /\ position \in Nat /\ loose \in Nat
  BY IntentFields DEF BInv, AInv, OnceInv, Reserve, TypeInv, WorkerInv, venue
<1>2. CASE UNCHANGED <<request, intent>>
  BY <1>1, <1>2 DEF Same
<1>3. CASE /\ Unreserved(w.d) /\ ~Pending /\ Valid
           /\ Save([NoIntent EXCEPT !.d = w.d], "SUBMISSION_ATTEMPTED")
  <2>1. intent.d = None /\ intent'.d = w.d
    BY <1>3 DEF Pending, NoIntent, Save
  <2>2. OpenAmount = 0 /\ OpenAmount' = OpenAmount /\ position <= loose
    BY <1>1, <1>3, OpenAmountStay DEF EInv, OwnerInv, Guarded, Valid, OpenAmount
  <2>3. request' = [request EXCEPT ![w.d] = "SUBMISSION_ATTEMPTED"] /\ request[w.d] = "none"
    BY <1>3 DEF Save, NoIntent, Unreserved
  <2>4. w.d \notin Raised /\ Raised' = Raised \cup {w.d}
    BY <1>1, <2>3 DEF Raised, TypeInv, TypeOK
  <2>5. Bare' = Bare
    BY <1>1 DEF Bare, Guarded, Holds, LiveStops, OpenTrades
  <2> QED
    BY <1>1, <2>1, <2>2, <2>4, <2>5 DEF Barrier!Raise
<1> QED
  BY <1>2, <1>3 DEF Reserve

\* Nothing is bare when the entry holds nothing or its trade guards it.
LEMMA Lowers ==
  ASSUME BInv, Pending, position <= loose \/ \E d \in Decisions : Guarded(d), intent' = NoIntent,
         NEW s \in RequestStates \ {"none"}, request' = [request EXCEPT ![intent.d] = s],
         UNCHANGED <<sent, trade, stops, position, loose>>
  PROVE  Barrier!Lower
<1>1. intent.d \in Decisions /\ intent.d # None /\ intent'.d = None
  BY IntentFields, NoneAssumption DEF BInv, AInv, OnceInv, NoIntent
<1>2. Bare = 0 /\ Bare' = Bare /\ OpenAmount' = OpenAmount
  BY OpenAmountStay DEF Bare, Guarded, Holds, LiveStops, OpenTrades
<1>3. Raised' = Raised
  <2>1. \A d \in Decisions : request'[d] # "none" <=> request[d] # "none"
    BY <1>1 DEF BInv, TakenInv, AInv, OnceInv, TypeInv, TypeOK
  <2> QED
    BY <2>1 DEF Raised
<1> QED
  BY <1>1, <1>2, <1>3 DEF Barrier!Lower

\* The worker that is in a submission has the pending intent; nothing but what was let go
\* is held before the venue has its order.
LEMMA Submitting ==
  ASSUME BInv, w.pc \in {"send", "commit", "release"}
  PROVE  /\ Pending /\ w.d = intent.d /\ w.d \in Decisions /\ intent.d # None
         /\ entry[w.d].st = "none" => position <= loose
<1>1. TypeInv /\ EInv
  BY DEF BInv, AInv, OnceInv
<1>2. Pending /\ w.d = intent.d /\ w.d \in Decisions
  BY <1>1, WorkerIntent DEF Away
<1>3. entry[w.d].st = "none" => position <= loose
  BY <1>1, <1>2, IntentFields DEF EInv, EntryInv, HeldInv
<1> QED
  BY <1>2, <1>3, NoneAssumption

\* The order is sent once, deferred with the barrier down, or left to recovery.
LEMMA SendSends ==
  ASSUME BInv, AInv', SendEntry
  PROVE  Same \/ Barrier!Send \/ Barrier!Lower
<1>1. /\ w.pc = "send" /\ UNCHANGED <<trade, stops, position, loose>>
      /\ position \in Nat /\ loose \in Nat /\ Untouched(w.d)
      /\ sent \in [Decisions -> Nat]
  BY IntentFields DEF BInv, AInv, OnceInv, SubmitInv, SendEntry, TypeInv, TypeOK
<1>2. Pending /\ w.d = intent.d /\ w.d \in Decisions /\ intent.d # None
      /\ position <= loose
  BY <1>1, Submitting DEF Untouched
<1>3. CASE UNCHANGED <<request, intent, sent>>
  BY <1>1, <1>3 DEF Same
<1>4. CASE /\ request' = [request EXCEPT ![w.d] = "REFUSED"]
           /\ intent' = NoIntent /\ UNCHANGED sent
  <2>1. "REFUSED" \in RequestStates \ {"none"}
    BY DEF RequestStates
  <2> QED
    BY <1>1, <1>2, <1>4, <2>1, Lowers
<1>5. CASE sent' = [sent EXCEPT ![w.d] = @ + 1] /\ UNCHANGED <<request, intent>>
  <2>1. sent[intent.d] = 0 /\ sent' = [sent EXCEPT ![intent.d] = 1]
    <3>1. sent[w.d] = 0 /\ sent[w.d] + 1 = 1
      BY <1>1 DEF Untouched
    <3> QED
      BY <1>2, <1>5, <3>1
  <2>2. Bare' = Bare /\ Raised' = Raised /\ OpenAmount' = OpenAmount
    BY <1>1, <1>5, OpenAmountStay DEF Bare, Guarded, Holds, LiveStops, OpenTrades, Raised
  <2> QED
    BY <1>1, <1>2, <1>5, <2>1, <2>2 DEF Barrier!Send
<1> QED
  BY <1>3, <1>4, <1>5 DEF SendEntry

\* Its outcome is noted, or the barrier comes down over an order that never was.
LEMMA CommitLowers ==
  ASSUME BInv, AInv', CommitEntry
  PROVE  Same \/ Barrier!Lower
<1>1. /\ w.pc = "commit" /\ UNCHANGED <<sent, trade, stops, position, loose>>
      /\ TypeInv /\ (Refused(w.out) => entry[w.d].st = "none")
  BY DEF BInv, AInv, OnceInv, SubmitInv, CommitEntry, venue
<1>2. /\ Pending /\ w.d = intent.d /\ w.d \in Decisions
      /\ entry[w.d].st = "none" => position <= loose
  BY <1>1, Submitting
<1>3. CASE Refused(w.out)
  <2>1. "REFUSED" \in RequestStates \ {"none"}
    BY DEF RequestStates
  <2>2. request' = [request EXCEPT ![w.d] = "REFUSED"] /\ intent' = NoIntent
    BY <1>3 DEF CommitEntry
  <2> QED
    BY <1>1, <1>2, <1>3, <2>1, <2>2, Lowers
<1>4. CASE ~Refused(w.out)
  <2>1. PICK s \in RequestStates \ {"none"} : Save(intent, s)
    BY <1>4 DEF CommitEntry, RequestStates
  <2> QED
    BY <1>1, <1>2, <2>1, SaveSame
<1> QED
  BY <1>3, <1>4

\* The intent is released over a flat book or a trade that guards what is held.
LEMMA ReleaseLowers ==
  ASSUME BInv, AInv', Release
  PROVE  Barrier!Lower
<1>1. /\ w.pc = "release" /\ UNCHANGED <<sent, trade, stops, position, loose>> /\ intent' = NoIntent
      /\ request' = [request EXCEPT ![intent.d] = "TERMINAL"]
  BY DEF Release, venue
<1>2. Pending /\ w.d \in Decisions
  BY <1>1, Submitting
<1>3. position <= loose \/ Guarded(w.d)
  BY <1>1, IntentFields DEF BInv, AInv, OnceInv, EInv, WorkInv
<1>4. "TERMINAL" \in RequestStates \ {"none"}
  BY DEF RequestStates
<1> QED
  BY <1>1, <1>2, <1>3, <1>4, Lowers

\* Only what was sent behind the barrier fills.
LEMMA FillFills ==
  ASSUME BInv, AInv', NEW d \in Decisions, FillEntry(d)
  PROVE  Barrier!Fill
<1>1. /\ entry[d].st = "working" /\ position' = position + 1
      /\ UNCHANGED <<intent, request, sent, loose, trade>> /\ TypeInv' /\ EInv'
  BY DEF FillEntry, venueOnly, journal, AInv, OnceInv
<1>2. intent.d = d /\ d # None
  BY <1>1, NoneAssumption DEF BInv, AInv, EInv, EntryInv
<1>3. sent[d] = 1
  <2>1. sent[d] # 0 /\ sent[d] <= 1 /\ sent[d] \in Nat
    BY <1>1 DEF BInv, TakenInv, AInv, OnceInv, SentInv, TypeInv, TypeOK
  <2> QED
    BY <2>1
<1>4. Bare' \in {0, position'} /\ Raised' = Raised
  BY <1>1, BareNext DEF Raised
<1>5. OpenAmount' = OpenAmount
  BY <1>1, OpenAmountStay
<1> QED
  BY <1>1, <1>2, <1>3, <1>4, <1>5 DEF Barrier!Fill

\* Every step maps to one of the abstract entry, or to none.
LEMMA BarrierStep ==
  ASSUME BInv, AInv', [Next]_vars
  PROVE  [Barrier!BarrierNext]_<<intent.d, Raised, sent, position, OpenAmount, loose, Bare>>
<1>1. TypeInv /\ EInv
  BY DEF BInv, AInv, OnceInv
<1>2. CASE Reserve
  <2>1. w.d \in Decisions
    BY <1>1, <1>2 DEF Reserve, TypeInv, WorkerInv
  <2> QED
    BY <1>2, <2>1, ReserveRaises, SameMoves DEF Barrier!BarrierNext
<1>3. CASE SendEntry \/ CommitEntry \/ Release
  BY <1>3, SendSends, CommitLowers, ReleaseLowers, SameMoves DEF Barrier!BarrierNext
<1>4. CASE Work /\ ~Reserve /\ ~SendEntry /\ ~CommitEntry /\ ~Release /\ ~ExitBook
  BY <1>1, <1>4, WorkSame, SameMoves DEF Barrier!BarrierNext
<1>8. CASE ExitBook
  BY <1>8, ExitBookLets, SameMoves DEF Barrier!BarrierNext
<1>5. CASE \E d \in Decisions : FillEntry(d)
  BY <1>5, FillFills DEF Barrier!BarrierNext
<1>6. CASE \/ Start \/ (Venue /\ ~\E d \in Decisions : FillEntry(d))
           \/ ReduceByHand \/ PartialExit \/ Crash
           \/ \E state \in States : Control(state)
  <2>1. Same
    BY <1>1, <1>6, OtherSame DEF Venue
  <2> QED
    BY <2>1, SameMoves DEF Barrier!BarrierNext
<1>7. CASE UNCHANGED vars
  <2>1. UNCHANGED <<intent.d, Raised, sent, position, loose, Bare>> /\ UNCHANGED trade
    BY <1>7 DEF vars, journal, venue, Bare, Raised, Guarded, Holds, LiveStops, OpenTrades
  <2> QED
    BY <2>1, OpenAmountStay
<1> QED
  BY <1>2, <1>3, <1>4, <1>5, <1>6, <1>7, <1>8 DEF Next

\* A pending intent keeps its request, and what the venue takes was sent.
LEMMA TakenStep ==
  ASSUME BInv, AInv', [Next]_vars
  PROVE  TakenInv'
<1>1. TypeInv /\ TypeInv' /\ EInv /\ (Pending => intent.d \in Decisions)
  BY IntentFields DEF BInv, AInv, OnceInv
<1> USE DEF TakenInv
<1>2. ASSUME UNCHANGED sent, \A d \in Decisions : entry[d].st = "none" => entry'[d].st = "none",
             \A d \in Decisions : request'[d] = "none" => request[d] = "none",
             intent'.d = intent.d \/ intent' = NoIntent
      PROVE  TakenInv'
  <2>1. Pending' => Pending /\ intent'.d = intent.d
    <3>1. Pending' => intent' # NoIntent /\ intent'.d = intent.d
      BY <1>2 DEF Pending
    <3>2. Pending' => intent'.d # None
      BY <1>1, <3>1, NoneAssumption DEF TypeInv, TypeOK, Intents
    <3>3. ~Pending => intent.d = None
      BY DEF Pending, NoIntent
    <3> QED
      BY <3>1, <3>2, <3>3
  <2> QED
    BY <1>1, <1>2, <2>1 DEF BInv
<1>3. ASSUME Frame, intent'.d = intent.d \/ intent' = NoIntent PROVE TakenInv'
  BY <1>2, <1>3 DEF Frame
<1>4. CASE Reserve
  <2>1. CASE UNCHANGED <<request, intent>>
    BY <1>2, <1>4, <2>1 DEF Reserve, venue
  <2>2. CASE Save([NoIntent EXCEPT !.d = w.d], "SUBMISSION_ATTEMPTED")
    <3>1. intent'.d = w.d /\ w.d \in Decisions /\ UNCHANGED <<sent, entry>>
          /\ request' = [request EXCEPT ![w.d] = "SUBMISSION_ATTEMPTED"]
      BY <1>1, <1>4, <2>2 DEF Save, NoIntent, Reserve, venue, TypeInv, WorkerInv
    <3> QED
      BY <1>1, <3>1 DEF BInv, TypeInv, TypeOK
  <2> QED
    BY <1>4, <2>1, <2>2 DEF Reserve
<1>5. CASE SendEntry
  <2>1. w.pc = "send" /\ w.d \in Decisions /\ sent \in [Decisions -> Nat]
    BY <1>1, <1>5 DEF SendEntry, TypeInv, TypeOK, WorkerInv
  <2>2. CASE UNCHANGED <<request, intent, entry, sent>>
    BY <1>2, <2>2
  <2>3. CASE request' = [request EXCEPT ![w.d] = "REFUSED"] /\ intent' = NoIntent
             /\ UNCHANGED <<entry, sent>>
    BY <1>1, <1>2, <2>1, <2>3 DEF TypeInv, TypeOK
  <2>4. CASE /\ sent' = [sent EXCEPT ![w.d] = @ + 1] /\ UNCHANGED <<request, intent>>
             /\ \E taken \in BOOLEAN :
                  entry' = IF taken THEN [entry EXCEPT ![w.d].st = "working"] ELSE entry
    <3>1. sent'[w.d] # 0 /\ \A d \in Decisions \ {w.d} : sent'[d] = sent[d]
      <4>1. sent'[w.d] = sent[w.d] + 1 /\ sent[w.d] \in Nat
        BY <2>1, <2>4
      <4> QED
        BY <2>1, <2>4, <4>1
    <3>2. \A d \in Decisions \ {w.d} : entry'[d] = entry[d]
      BY <1>1, <2>1, <2>4 DEF TypeInv, TypeOK
    <3>3. Pending' => request'[intent'.d] # "none"
      BY <2>4 DEF BInv, Pending
    <3> QED
      BY <3>1, <3>2, <3>3 DEF BInv
  <2> QED
    BY <1>5, <2>2, <2>3, <2>4 DEF SendEntry
<1>6. CASE CommitEntry
  <2>1. w.d \in Decisions /\ UNCHANGED <<sent, entry>>
    BY <1>1, <1>6 DEF CommitEntry, venue, TypeInv, WorkerInv
  <2>2. \A d \in Decisions : request'[d] = "none" => request[d] = "none"
    BY <1>1, <1>6, <2>1 DEF CommitEntry, Save, TypeInv, TypeOK
  <2> QED
    BY <1>2, <1>6, <2>1, <2>2 DEF CommitEntry, Save
<1>7. CASE Work /\ ~Reserve /\ ~SendEntry /\ ~CommitEntry
  <2>1. Frame
    BY <1>1, <1>7, WorkFrame
  <2>2. intent'.d = intent.d \/ intent' = NoIntent
    BY <1>1, <1>7, WorkSame DEF Release, Same, ExitBook
  <2> QED
    BY <1>3, <2>1, <2>2
<1>8. CASE \E d \in Decisions : FillEntry(d)
  BY <1>1, <1>3, <1>8, OtherFrame DEF Venue, FillEntry, venueOnly, journal
<1>9. CASE \/ Start \/ (Venue /\ ~\E d \in Decisions : FillEntry(d))
           \/ ReduceByHand \/ PartialExit \/ Crash
           \/ \E state \in States : Control(state)
  <2>1. Same
    BY <1>1, <1>9, OtherSame DEF Venue
  <2>2. Frame
    BY <1>1, <1>9, OtherFrame
  <2> QED
    BY <1>3, <2>1, <2>2 DEF Same
<1>10. CASE UNCHANGED vars
  BY <1>2, <1>10 DEF vars, journal, venue
<1> QED
  BY <1>4, <1>5, <1>6, <1>7, <1>8, <1>9, <1>10 DEF Next

\* The entry implements the barrier's promise: raised once by an action and while no trade
\* is open, one sending behind it, and lowered only over exposure that a trade and the
\* stop it names guard; from then on exposure only shrinks and stays guarded, but for the
\* tolerated rest of a trade that is closed.
THEOREM BarrierKeptCorrect == Spec => BarrierKept
<1>1. Init => BInv /\ Barrier!BarrierInit
  <2> SUFFICES ASSUME Init PROVE BInv /\ Barrier!BarrierInit
    OBVIOUS
  <2>1. BInv
    BY ExposureInit DEF Init, BInv, TakenInv, Pending, NoOrder
  <2>2. /\ position = 0 /\ loose = 0 /\ Bare = 0 /\ intent.d = None /\ Raised = {}
        /\ OpenAmount = 0
    BY DEF Init, Bare, NoIntent, Raised, OpenAmount, OpenTrades, NoTrade
  <2> QED
    BY <2>1, <2>2 DEF Init, Barrier!BarrierInit
<1>2. BInv /\ [Next]_vars => BInv'
  BY ExposureStep, TakenStep DEF BInv
<1>3. BInv /\ [Next]_vars => [Barrier!BarrierNext]_<<intent.d, Raised, sent, position, OpenAmount, loose, Bare>>
  BY ExposureStep, BarrierStep DEF BInv
<1> QED
  BY <1>1, <1>2, <1>3, PTL DEF Spec, BarrierKept, Barrier!BarrierSpec
=============================================================================
