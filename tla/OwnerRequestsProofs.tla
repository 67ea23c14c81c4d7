------------------------ MODULE OwnerRequestsProofs ------------------------
(***************************************************************************)
(* The life of an owner's request implements the once-only promise, for any  *)
(* number of requests, deliveries, failures and restarts.  The argument is   *)
(* about two kinds of request: one somebody owns, whose row is in its hands, *)
(* and one that is dead, which was never executed and never will be; whoever *)
(* is told "refused" was told of a dead one.                                 *)
(***************************************************************************)
EXTENDS OwnerRequests, TLAPS

Owner(v, r) == d[v].pc \in {"reserved", "execute", "complete"} /\ d[v].r = r

\* Older than the age limit, with nobody left who found it fresh.
Expired(r) == r \in stale /\ \A v \in Deliveries : ~(At(v, "insert", r) /\ d[v].fresh)

Dead(r) ==
    /\ taken[r] = 0
    /\ \A v \in Deliveries : ~Owner(v, r)
    /\ \/ row[r].st = "RESERVED"
       \/ row[r].st = "DONE" /\ row[r].result \in {"refused", "stale"}
       \/ row[r] = NoRow /\ Expired(r)

StaleRow(r) ==
    \/ row[r].st = "DONE" /\ row[r].result = "stale"
    \/ row[r] = NoRow /\ Expired(r)

\* What the delivery that owns a request knows of it.
OwnerInv(v, r) ==
    /\ Owner(v, r) =>
         /\ row[r].boot = boot
         /\ row[r].st = IF d[v].pc = "reserved" THEN "RESERVED" ELSE "PENDING"
         /\ \A u \in Deliveries : Owner(u, r) => u = v
    /\ d[v].pc \in {"reserved", "execute"} /\ d[v].r = r => taken[r] = 0
    /\ At(v, "complete", r) =>
         /\ d[v].result = "done" => taken[r] = 1
         /\ d[v].result = "refused" => taken[r] = 0

\* What the other deliveries know.
ReaderInv(v, r) ==
    /\ At(v, "insert", r) /\ ~d[v].fresh => r \in stale
    /\ At(v, "again", r) /\ d[v].orphan => Dead(r)
    /\ At(v, "answer", r) =>
         /\ Orphaned(d[v].seen) => Dead(r)
         /\ d[v].seen.st = "DONE" =>
              /\ d[v].seen.result \in {"done", "refused", "unknown", "stale"}
              /\ d[v].seen.result = "refused" => Dead(r)
              /\ d[v].seen.result = "done" => taken[r] = 1
              /\ d[v].seen.result = "stale" => StaleRow(r)

RowInv(r) ==
    /\ row[r] = NoRow => Expired(r) \/ (taken[r] = 0 /\ told[r] = {})
    /\ row[r].st = "RESERVED" => taken[r] = 0
    /\ row[r].st = "DONE" =>
         /\ row[r].result \in {"done", "refused", "unknown", "stale"}
         /\ row[r].result = "done" => taken[r] = 1
         /\ row[r].result = "refused" => taken[r] = 0

ToldInv(r) ==
    /\ "refused" \in told[r] \/ r \in abandoned => Dead(r)
    /\ "done" \in told[r] => taken[r] = 1
    /\ "stale" \in told[r] => StaleRow(r)

IInv ==
    /\ TypeOK
    /\ \A r \in Requests : RowInv(r) /\ ToldInv(r)
    /\ \A v \in Deliveries, r \in Requests : OwnerInv(v, r) /\ ReaderInv(v, r)
-----------------------------------------------------------------------------

\* What a delivery's locals hold at each step.
LEMMA Shapes ==
    ASSUME NEW l \in Locals
    PROVE  /\ l.pc \in {"idle", "insert", "answer", "again", "reserved", "execute", "complete"}
           /\ l.pc # "idle" => l.r \in Requests
           /\ l.pc = "insert" => l.fresh \in BOOLEAN
           /\ l.pc = "answer" => l.seen \in Rows
           /\ l.pc = "again" => l.orphan \in BOOLEAN
           /\ l.pc = "complete" => l.result \in {"done", "refused", "unknown"}
BY DEF Locals, Idle

\* The values that mean nothing is there.
LEMMA Blank == NoRow \in Rows /\ NoRow.st = "none" /\ Idle \in Locals /\ Idle.pc = "idle"
BY DEF NoRow, Rows, Results, Idle, Locals

\* A delivery takes with it what the row says, or whether the request is fresh.
LEMMA DeliverStep ==
    ASSUME IInv, NEW v \in Deliveries, NEW r \in Requests, Deliver(v, r)
    PROVE  IInv'
<1> USE DEF IInv
<1>0. \A u \in Deliveries : u # v => d'[u] = d[u]
  BY DEF TypeOK, Deliver, To, At, memory, bounds
<1>a. d[v] \in Locals /\ row[r] \in Rows
  BY DEF TypeOK
<1>c. NoRow \in Rows /\ NoRow.st = "none" /\ Idle \in Locals /\ Idle.pc = "idle"
  BY Blank
<1>1. TypeOK'
  <2>1. d' \in [Deliveries -> Locals]
    BY <1>a, <1>c, Shapes DEF TypeOK, Rows, Results, Locals, Deliver, To, At, memory, bounds
  <2>2. row' \in [Requests -> Rows]
    BY <1>a, <1>c, Shapes DEF TypeOK, Rows, Results, Deliver, To, At, memory, bounds
  <2>3. told' \in [Requests -> SUBSET {"done", "refused", "stale"}]
    BY <1>a, <1>c, Shapes DEF TypeOK, RowInv, OwnerInv, Owner, ReaderInv, Orphaned, Deliver,
       To, At, memory, bounds
  <2>4. taken' \in [Requests -> {0, 1}]
    BY <1>a, <1>c DEF TypeOK, RowInv, OwnerInv, Owner, ReaderInv, Orphaned, Deliver, To, At,
       memory, bounds
  <2> QED  BY <2>1, <2>2, <2>3, <2>4 DEF TypeOK, Deliver, To, At, memory, bounds
<1>b. \A q \in Requests : Expired(q) => Expired(q)'
  BY <1>0, <1>c, <1>a DEF TypeOK, Expired, Deliver, To, At, memory, bounds
<1>2. \A q \in Requests : Dead(q) => Dead(q)'
  BY <1>0, <1>c, <1>b DEF TypeOK, Dead, Owner, RowInv, OwnerInv, ReaderInv, Orphaned, Deliver,
     To, At, memory, bounds
<1>3. \A q \in Requests : StaleRow(q) => StaleRow(q)'
  BY <1>0, <1>c, <1>b DEF TypeOK, StaleRow, RowInv, OwnerInv, Owner, ReaderInv, Orphaned,
     Deliver, To, At, memory, bounds
<1>5. \A q \in Requests : ToldInv(q)'
  BY <1>0, <1>c, <1>1, <1>2, <1>3 DEF TypeOK, ToldInv, ReaderInv, RowInv, OwnerInv, Owner,
     Dead, Orphaned, Deliver, To, At, memory, bounds
<1>4. \A q \in Requests : RowInv(q)'
  BY <1>0, <1>c, <1>1, <1>b DEF TypeOK, RowInv, OwnerInv, Owner, ReaderInv, Orphaned, Dead,
     StaleRow, Deliver, To, At, memory, bounds
<1>6. \A u \in Deliveries, q \in Requests : OwnerInv(u, q)'
  BY <1>0, <1>c, <1>1 DEF TypeOK, OwnerInv, Owner, RowInv, ReaderInv, Orphaned, Deliver, To,
     At, memory, bounds
<1>7. \A u \in Deliveries, q \in Requests : ReaderInv(u, q)'
  <2>1. Orphaned(row[r]) \/ (row[r].st = "DONE" /\ row[r].result = "refused") => Dead(r)
    BY <1>c DEF TypeOK, Dead, RowInv, OwnerInv, Owner, Orphaned
  <2>2. row[r].st = "DONE" /\ row[r].result = "stale" => StaleRow(r)
    BY DEF StaleRow
  <2>3. row[r].st = "DONE" =>
          /\ row[r].result \in {"done", "refused", "unknown", "stale"}
          /\ row[r].result = "done" => taken[r] = 1
    BY DEF RowInv
  <2>4. ASSUME NEW q \in Requests, NEW u \in Deliveries, u # v PROVE ReaderInv(u, q)'
    BY <1>0, <1>1, <1>2, <1>3, <2>4 DEF TypeOK, ReaderInv, Orphaned, Deliver, To, At, memory,
       bounds
  <2>5. ASSUME NEW q \in Requests PROVE ReaderInv(v, q)'
    BY <1>0, <1>a, <1>c, <1>1, <1>2, <1>3, <2>1, <2>2, <2>3, Shapes DEF TypeOK, ReaderInv,
       Orphaned, Deliver, To, At, memory, bounds
  <2> QED  BY <2>4, <2>5
<1> QED  BY <1>1, <1>4, <1>5, <1>6, <1>7

\* Whoever finds a row is told the truth of it.
LEMMA AnswerExistingStep ==
    ASSUME IInv, NEW v \in Deliveries, NEW r \in Requests, AnswerExisting(v, r)
    PROVE  IInv'
<1> USE DEF IInv
<1>0. \A u \in Deliveries : u # v => d'[u] = d[u]
  BY DEF TypeOK, AnswerExisting, Tell, TellNothing, To, At, memory, bounds
<1>a. d[v] \in Locals /\ row[r] \in Rows
  BY DEF TypeOK
<1>c. NoRow \in Rows /\ NoRow.st = "none" /\ Idle \in Locals /\ Idle.pc = "idle"
  BY Blank
<1>1. TypeOK'
  <2>1. d' \in [Deliveries -> Locals]
    BY <1>a, <1>c, Shapes DEF TypeOK, Rows, Results, Locals, AnswerExisting, Tell,
       TellNothing, To, At, memory, bounds
  <2>2. row' \in [Requests -> Rows]
    BY <1>a, <1>c, Shapes DEF TypeOK, Rows, Results, AnswerExisting, Tell, TellNothing, To,
       At, memory, bounds
  <2>3. told' \in [Requests -> SUBSET {"done", "refused", "stale"}]
    BY <1>a, <1>c, Shapes DEF TypeOK, RowInv, OwnerInv, Owner, ReaderInv, Orphaned,
       AnswerExisting, Tell, TellNothing, To, At, memory, bounds
  <2>4. taken' \in [Requests -> {0, 1}]
    BY <1>a, <1>c DEF TypeOK, RowInv, OwnerInv, Owner, ReaderInv, Orphaned, AnswerExisting,
       Tell, TellNothing, To, At, memory, bounds
  <2> QED  BY <2>1, <2>2, <2>3, <2>4 DEF TypeOK, AnswerExisting, Tell, TellNothing, To, At,
     memory, bounds
<1>b. \A q \in Requests : Expired(q) => Expired(q)'
  BY <1>0, <1>c, <1>a DEF TypeOK, Expired, AnswerExisting, Tell, TellNothing, To, At, memory,
     bounds
<1>2. \A q \in Requests : Dead(q) => Dead(q)'
  BY <1>0, <1>c, <1>b DEF TypeOK, Dead, Owner, RowInv, OwnerInv, ReaderInv, Orphaned,
     AnswerExisting, Tell, TellNothing, To, At, memory, bounds
<1>3. \A q \in Requests : StaleRow(q) => StaleRow(q)'
  BY <1>0, <1>c, <1>b DEF TypeOK, StaleRow, RowInv, OwnerInv, Owner, ReaderInv, Orphaned,
     AnswerExisting, Tell, TellNothing, To, At, memory, bounds
<1>5. \A q \in Requests : ToldInv(q)'
  BY <1>0, <1>c, <1>1, <1>2, <1>3 DEF TypeOK, ToldInv, ReaderInv, RowInv, OwnerInv, Owner,
     Dead, Orphaned, AnswerExisting, Tell, TellNothing, To, At, memory, bounds
<1>4. \A q \in Requests : RowInv(q)'
  <2>1. ASSUME NEW q \in Requests, row'[q] = NoRow PROVE Expired(q)' \/ (taken'[q] = 0 /\ told'[q] = {})
    <3>1. told'[q] \subseteq {"done", "refused", "stale"}
      BY <1>1 DEF TypeOK
    <3>2. taken'[q] = 0 /\ told'[q] # {} => Expired(q)'
      BY <1>5, <1>c, <2>1, <3>1 DEF ToldInv, Dead, StaleRow
    <3>3. taken'[q] # 0 => Expired(q)'
      BY <1>b, <1>c, <2>1 DEF TypeOK, RowInv, OwnerInv, Owner, AnswerExisting, Tell,
         TellNothing, To, At, memory, bounds
    <3> QED  BY <3>2, <3>3
  <2>2. ASSUME NEW q \in Requests
        PROVE  /\ row'[q].st = "RESERVED" => taken'[q] = 0
               /\ row'[q].st = "DONE" =>
                    /\ row'[q].result \in {"done", "refused", "unknown", "stale"}
                    /\ row'[q].result = "done" => taken'[q] = 1
                    /\ row'[q].result = "refused" => taken'[q] = 0
    BY <1>a, <1>c, Shapes DEF TypeOK, RowInv, OwnerInv, Owner, AnswerExisting, Tell,
       TellNothing, To, At, memory, bounds
  <2> QED  BY <2>1, <2>2 DEF RowInv
<1>6. \A u \in Deliveries, q \in Requests : OwnerInv(u, q)'
  BY <1>0, <1>c, <1>1 DEF TypeOK, OwnerInv, Owner, RowInv, ReaderInv, Orphaned,
     AnswerExisting, Tell, TellNothing, To, At, memory, bounds
<1>7. \A u \in Deliveries, q \in Requests : ReaderInv(u, q)'
  BY <1>0, <1>c, <1>1, <1>2, <1>3 DEF TypeOK, OwnerInv, Owner, RowInv, ReaderInv, Orphaned,
     Dead, AnswerExisting, Tell, TellNothing, To, At, memory, bounds
<1> QED  BY <1>1, <1>4, <1>5, <1>6, <1>7

\* A reservation that another life left is dead, and is settled as refused.
LEMMA SettleOrphanStep ==
    ASSUME IInv, NEW v \in Deliveries, NEW r \in Requests, SettleOrphan(v, r)
    PROVE  IInv'
<1> USE DEF IInv
<1>0. \A u \in Deliveries : u # v => d'[u] = d[u]
  BY DEF TypeOK, SettleOrphan, Write, Done, To, At, memory, bounds
<1>a. d[v] \in Locals /\ row[r] \in Rows
  BY DEF TypeOK
<1>c. NoRow \in Rows /\ NoRow.st = "none" /\ Idle \in Locals /\ Idle.pc = "idle"
  BY Blank
<1>1. TypeOK'
  <2>1. d' \in [Deliveries -> Locals]
    BY <1>a, <1>c, Shapes DEF TypeOK, Rows, Results, Locals, SettleOrphan, Write, Done, To,
       At, memory, bounds
  <2>2. row' \in [Requests -> Rows]
    BY <1>a, <1>c, Shapes DEF TypeOK, Rows, Results, SettleOrphan, Write, Done, To, At,
       memory, bounds
  <2>3. told' \in [Requests -> SUBSET {"done", "refused", "stale"}]
    BY <1>a, <1>c, Shapes DEF TypeOK, RowInv, OwnerInv, Owner, ReaderInv, Orphaned,
       SettleOrphan, Write, Done, To, At, memory, bounds
  <2>4. taken' \in [Requests -> {0, 1}]
    BY <1>a, <1>c DEF TypeOK, RowInv, OwnerInv, Owner, ReaderInv, Orphaned, SettleOrphan,
       Write, Done, To, At, memory, bounds
  <2> QED  BY <2>1, <2>2, <2>3, <2>4 DEF TypeOK, SettleOrphan, Write, Done, To, At, memory,
     bounds
<1>b. \A q \in Requests : Expired(q) => Expired(q)'
  BY <1>0, <1>c, <1>a DEF TypeOK, Expired, SettleOrphan, Write, Done, To, At, memory, bounds
<1>2. \A q \in Requests : Dead(q) => Dead(q)'
  BY <1>0, <1>c, <1>b DEF TypeOK, Dead, Owner, RowInv, OwnerInv, ReaderInv, Orphaned,
     SettleOrphan, Write, Done, To, At, memory, bounds
<1>3. \A q \in Requests : StaleRow(q) => StaleRow(q)'
  BY <1>0, <1>c, <1>b DEF TypeOK, StaleRow, RowInv, OwnerInv, Owner, ReaderInv, Orphaned,
     SettleOrphan, Write, Done, To, At, memory, bounds
<1>5. \A q \in Requests : ToldInv(q)'
  BY <1>0, <1>c, <1>1, <1>2, <1>3 DEF TypeOK, ToldInv, ReaderInv, RowInv, OwnerInv, Owner,
     Dead, Orphaned, SettleOrphan, Write, Done, To, At, memory, bounds
<1>4. \A q \in Requests : RowInv(q)'
  BY <1>0, <1>c, <1>1, <1>b DEF TypeOK, RowInv, OwnerInv, Owner, ReaderInv, Orphaned, Dead,
     StaleRow, SettleOrphan, Write, Done, To, At, memory, bounds
<1>6. \A u \in Deliveries, q \in Requests : OwnerInv(u, q)'
  BY <1>0, <1>c, <1>1 DEF TypeOK, OwnerInv, Owner, RowInv, ReaderInv, Orphaned, SettleOrphan,
     Write, Done, To, At, memory, bounds
<1>7. \A u \in Deliveries, q \in Requests : ReaderInv(u, q)'
  BY <1>0, <1>c, <1>1, <1>2, <1>3 DEF TypeOK, OwnerInv, Owner, RowInv, ReaderInv, Orphaned,
     Dead, SettleOrphan, Write, Done, To, At, memory, bounds
<1> QED  BY <1>1, <1>4, <1>5, <1>6, <1>7

\* Only a request with no row and no past is reserved, and by one delivery.
LEMMA InsertStep ==
    ASSUME IInv, NEW v \in Deliveries, NEW r \in Requests, Insert(v, r)
    PROVE  IInv'
<1> USE DEF IInv
<1>a. d[v] \in Locals /\ row[r] \in Rows /\ At(v, "insert", r)
  BY DEF TypeOK, Insert, Won
<1>c. NoRow \in Rows /\ NoRow.st = "none" /\ Idle \in Locals /\ Idle.pc = "idle"
  BY Blank
<1>d. /\ unresolved' = unresolved /\ abandoned' = abandoned /\ stale' = stale
      /\ boot' = boot /\ faults' = faults /\ taken' = taken
  BY DEF Insert, Won, memory, bounds
<1>1. CASE /\ row[r] # NoRow
           /\ d' = [d EXCEPT ![v] = [pc |-> "again", r |-> r, orphan |-> FALSE]]
           /\ row' = row /\ told' = told
  <2>1. d'[v] \in Locals /\ d'[v].pc = "again" /\ ~d'[v].orphan
        /\ \A u \in Deliveries : u # v => d'[u] = d[u]
    BY <1>1 DEF TypeOK, Locals
  <2>2. TypeOK'
    BY <1>1, <1>d, <2>1 DEF TypeOK
  <2>3. \A q \in Requests : (Dead(q) => Dead(q)') /\ (StaleRow(q) => StaleRow(q)')
                            /\ (Expired(q) => Expired(q)')
    BY <1>1, <1>d, <2>1 DEF Dead, StaleRow, Expired, Owner, At
  <2>4. \A q \in Requests : RowInv(q)' /\ ToldInv(q)'
    BY <1>1, <1>d, <2>3 DEF RowInv, ToldInv
  <2>5. \A u \in Deliveries, q \in Requests : OwnerInv(u, q)' /\ ReaderInv(u, q)'
    BY <1>1, <1>d, <2>1, <2>3 DEF OwnerInv, ReaderInv, Owner, At, Orphaned
  <2> QED  BY <2>2, <2>4, <2>5
<1>2. CASE /\ row[r] = NoRow /\ ~Expired(r)
           /\ row' = [row EXCEPT ![r] = [st |-> "RESERVED", result |-> "none", boot |-> boot]]
           /\ d' = [d EXCEPT ![v] = [pc |-> "reserved", r |-> r]]
           /\ told' = told
  <2>1. d'[v] \in Locals /\ d'[v].pc = "reserved" /\ d'[v].r = r
        /\ \A u \in Deliveries : u # v => d'[u] = d[u]
    BY <1>2 DEF TypeOK, Locals
  <2>2. row'[r] \in Rows /\ row'[r].st = "RESERVED" /\ row'[r].boot = boot
        /\ \A q \in Requests : q # r => row'[q] = row[q]
    BY <1>2 DEF TypeOK, Rows, Results
  <2>3. TypeOK'
    BY <1>2, <1>d, <2>1, <2>2 DEF TypeOK
  <2>4. taken[r] = 0 /\ told[r] = {}
    BY <1>2 DEF RowInv
  <2>5. ~Dead(r) /\ ~StaleRow(r) /\ r \notin abandoned
    BY <1>2, <1>c DEF Dead, StaleRow, ToldInv
  <2>6. \A u \in Deliveries : ~Owner(u, r)
    BY <1>2, <1>c DEF OwnerInv
  <2>7. \A q \in Requests : (Dead(q) => Dead(q)') /\ (StaleRow(q) => StaleRow(q)')
                            /\ (Expired(q) => Expired(q)')
    BY <1>a, <1>2, <1>d, <2>1, <2>2, <2>5 DEF Dead, StaleRow, Expired, Owner, At
  <2>8. \A q \in Requests : RowInv(q)' /\ ToldInv(q)'
    BY <1>2, <1>c, <1>d, <2>2, <2>4, <2>5, <2>7 DEF RowInv, ToldInv
  <2>9. \A u \in Deliveries, q \in Requests : OwnerInv(u, q)'
    BY <1>a, <1>2, <1>d, <2>1, <2>2, <2>4, <2>6 DEF OwnerInv, Owner, At
  <2>10. \A u \in Deliveries, q \in Requests : ReaderInv(u, q)'
    BY <1>d, <2>1, <2>7 DEF ReaderInv, At, Orphaned
  <2> QED  BY <2>3, <2>8, <2>9, <2>10
<1>3. CASE /\ row[r] = NoRow /\ r \in stale
           /\ row' = [row EXCEPT ![r] = Done("stale")]
           /\ d' = [d EXCEPT ![v] = Idle]
           /\ told' = [told EXCEPT ![r] = @ \cup {"stale"}]
  <2>1. d'[v] = Idle /\ \A u \in Deliveries : u # v => d'[u] = d[u]
    BY <1>3 DEF TypeOK
  <2>2. /\ row'[r] \in Rows /\ row'[r].st = "DONE" /\ row'[r].result = "stale"
        /\ \A q \in Requests : q # r => row'[q] = row[q] /\ told'[q] = told[q]
        /\ told'[r] = told[r] \cup {"stale"}
    BY <1>3 DEF TypeOK, Rows, Results, Done
  <2>3. TypeOK'
    BY <1>3, <1>c, <1>d, <2>1, <2>2 DEF TypeOK
  <2>4. \A u \in Deliveries, q \in Requests : Owner(u, q)' => Owner(u, q) /\ u # v
    BY <1>c, <2>1 DEF Owner
  <2>5. \A u \in Deliveries : ~Owner(u, r)
    BY <1>3, <1>c DEF OwnerInv
  <2>6. \A q \in Requests : (Dead(q) => Dead(q)') /\ (StaleRow(q) => StaleRow(q)')
                            /\ (Expired(q) => Expired(q)')
    BY <1>3, <1>c, <1>d, <2>1, <2>2, <2>4 DEF Dead, StaleRow, Expired, At
  <2>7. \A q \in Requests : RowInv(q)' /\ ToldInv(q)'
    BY <1>3, <1>c, <1>d, <2>2, <2>6 DEF RowInv, ToldInv, StaleRow
  <2>8. \A u \in Deliveries, q \in Requests : OwnerInv(u, q)'
    BY <1>c, <1>d, <2>1, <2>2, <2>4, <2>5 DEF OwnerInv, Owner, At
  <2>9. \A u \in Deliveries, q \in Requests : ReaderInv(u, q)'
    BY <1>c, <1>d, <2>1, <2>6 DEF ReaderInv, At, Orphaned
  <2> QED  BY <2>3, <2>7, <2>8, <2>9
<1>4. (~d[v].fresh => r \in stale) /\ (Expired(r) => ~d[v].fresh /\ r \in stale)
  BY <1>a DEF ReaderInv, Expired
<1> QED
  BY <1>1, <1>2, <1>3, <1>4 DEF Insert, Won, To, Write, Tell

\* A failed reservation establishes nothing.
LEMMA InsertFailsStep ==
    ASSUME IInv, NEW v \in Deliveries, NEW r \in Requests, InsertFails(v, r)
    PROVE  IInv'
<1> USE DEF IInv
<1>0. \A u \in Deliveries : u # v => d'[u] = d[u]
  BY DEF TypeOK, InsertFails, Fault, To, At, memory, bounds
<1>a. d[v] \in Locals /\ row[r] \in Rows
  BY DEF TypeOK
<1>c. NoRow \in Rows /\ NoRow.st = "none" /\ Idle \in Locals /\ Idle.pc = "idle"
  BY Blank
<1>1. TypeOK'
  <2>1. d' \in [Deliveries -> Locals]
    BY <1>a, <1>c, Shapes DEF TypeOK, Rows, Results, Locals, InsertFails, Fault, To, At,
       memory, bounds
  <2>2. row' \in [Requests -> Rows]
    BY <1>a, <1>c, Shapes DEF TypeOK, Rows, Results, InsertFails, Fault, To, At, memory, bounds
  <2>3. told' \in [Requests -> SUBSET {"done", "refused", "stale"}]
    BY <1>a, <1>c, Shapes DEF TypeOK, RowInv, OwnerInv, Owner, ReaderInv, Orphaned,
       InsertFails, Fault, To, At, memory, bounds
  <2>4. taken' \in [Requests -> {0, 1}]
    BY <1>a, <1>c DEF TypeOK, RowInv, OwnerInv, Owner, ReaderInv, Orphaned, InsertFails,
       Fault, To, At, memory, bounds
  <2> QED  BY <2>1, <2>2, <2>3, <2>4 DEF TypeOK, InsertFails, Fault, To, At, memory, bounds
<1>b. \A q \in Requests : Expired(q) => Expired(q)'
  BY <1>0, <1>c, <1>a DEF TypeOK, Expired, InsertFails, Fault, To, At, memory, bounds
<1>2. \A q \in Requests : Dead(q) => Dead(q)'
  BY <1>0, <1>c, <1>b DEF TypeOK, Dead, Owner, RowInv, OwnerInv, ReaderInv, Orphaned,
     InsertFails, Fault, To, At, memory, bounds
<1>3. \A q \in Requests : StaleRow(q) => StaleRow(q)'
  BY <1>0, <1>c, <1>b DEF TypeOK, StaleRow, RowInv, OwnerInv, Owner, ReaderInv, Orphaned,
     InsertFails, Fault, To, At, memory, bounds
<1>5. \A q \in Requests : ToldInv(q)'
  BY <1>0, <1>c, <1>1, <1>2, <1>3 DEF TypeOK, ToldInv, ReaderInv, RowInv, OwnerInv, Owner,
     Dead, Orphaned, InsertFails, Fault, To, At, memory, bounds
<1>4. \A q \in Requests : RowInv(q)'
  BY <1>0, <1>c, <1>1, <1>b DEF TypeOK, RowInv, OwnerInv, Owner, ReaderInv, Orphaned, Dead,
     StaleRow, InsertFails, Fault, To, At, memory, bounds
<1>6. \A u \in Deliveries, q \in Requests : OwnerInv(u, q)'
  BY <1>0, <1>c, <1>1 DEF TypeOK, OwnerInv, Owner, RowInv, ReaderInv, Orphaned, InsertFails,
     Fault, To, At, memory, bounds
<1>7. \A u \in Deliveries, q \in Requests : ReaderInv(u, q)'
  BY <1>0, <1>c, <1>1, <1>2, <1>3 DEF TypeOK, OwnerInv, Owner, RowInv, ReaderInv, Orphaned,
     Dead, InsertFails, Fault, To, At, memory, bounds
<1> QED  BY <1>1, <1>4, <1>5, <1>6, <1>7

\* A row that is read again is read like the first time.
LEMMA AgainStep ==
    ASSUME IInv, NEW v \in Deliveries, NEW r \in Requests, Again(v, r)
    PROVE  IInv'
<1> USE DEF IInv
<1>0. \A u \in Deliveries : u # v => d'[u] = d[u]
  BY DEF TypeOK, Again, Tell, TellNothing, Fault, To, At, memory, bounds
<1>a. d[v] \in Locals /\ row[r] \in Rows
  BY DEF TypeOK
<1>c. NoRow \in Rows /\ NoRow.st = "none" /\ Idle \in Locals /\ Idle.pc = "idle"
  BY Blank
<1>1. TypeOK'
  <2>1. d' \in [Deliveries -> Locals]
    BY <1>a, <1>c, Shapes DEF TypeOK, Rows, Results, Locals, Again, Tell, TellNothing, Fault,
       To, At, memory, bounds
  <2>2. row' \in [Requests -> Rows]
    BY <1>a, <1>c, Shapes DEF TypeOK, Rows, Results, Again, Tell, TellNothing, Fault, To, At,
       memory, bounds
  <2>3. told' \in [Requests -> SUBSET {"done", "refused", "stale"}]
    BY <1>a, <1>c, Shapes DEF TypeOK, RowInv, OwnerInv, Owner, ReaderInv, Orphaned, Again,
       Tell, TellNothing, Fault, To, At, memory, bounds
  <2>4. taken' \in [Requests -> {0, 1}]
    BY <1>a, <1>c DEF TypeOK, RowInv, OwnerInv, Owner, ReaderInv, Orphaned, Again, Tell,
       TellNothing, Fault, To, At, memory, bounds
  <2> QED  BY <2>1, <2>2, <2>3, <2>4 DEF TypeOK, Again, Tell, TellNothing, Fault, To, At,
     memory, bounds
<1>b. \A q \in Requests : Expired(q) => Expired(q)'
  BY <1>0, <1>c, <1>a DEF TypeOK, Expired, Again, Tell, TellNothing, Fault, To, At, memory,
     bounds
<1>2. \A q \in Requests : Dead(q) => Dead(q)'
  BY <1>0, <1>c, <1>b DEF TypeOK, Dead, Owner, RowInv, OwnerInv, ReaderInv, Orphaned, Again,
     Tell, TellNothing, Fault, To, At, memory, bounds
<1>3. \A q \in Requests : StaleRow(q) => StaleRow(q)'
  BY <1>0, <1>c, <1>b DEF TypeOK, StaleRow, RowInv, OwnerInv, Owner, ReaderInv, Orphaned,
     Again, Tell, TellNothing, Fault, To, At, memory, bounds
<1>5. \A q \in Requests : ToldInv(q)'
  BY <1>0, <1>c, <1>1, <1>2, <1>3 DEF TypeOK, ToldInv, ReaderInv, RowInv, OwnerInv, Owner,
     Dead, Orphaned, Again, Tell, TellNothing, Fault, To, At, memory, bounds
<1>4. \A q \in Requests : RowInv(q)'
  BY <1>0, <1>c, <1>1, <1>b DEF TypeOK, RowInv, OwnerInv, Owner, ReaderInv, Orphaned, Dead,
     StaleRow, Again, Tell, TellNothing, Fault, To, At, memory, bounds
<1>6. \A u \in Deliveries, q \in Requests : OwnerInv(u, q)'
  BY <1>0, <1>c, <1>1 DEF TypeOK, OwnerInv, Owner, RowInv, ReaderInv, Orphaned, Again, Tell,
     TellNothing, Fault, To, At, memory, bounds
<1>7. \A u \in Deliveries, q \in Requests : ReaderInv(u, q)'
  <2>1. Orphaned(row[r]) \/ (row[r].st = "DONE" /\ row[r].result = "refused") => Dead(r)
    BY <1>c DEF TypeOK, Dead, RowInv, OwnerInv, Owner, Orphaned
  <2>2. row[r].st = "DONE" /\ row[r].result = "stale" => StaleRow(r)
    BY DEF StaleRow
  <2>3. row[r].st = "DONE" =>
          /\ row[r].result \in {"done", "refused", "unknown", "stale"}
          /\ row[r].result = "done" => taken[r] = 1
    BY DEF RowInv
  <2>4. ASSUME NEW q \in Requests, NEW u \in Deliveries, u # v PROVE ReaderInv(u, q)'
    BY <1>0, <1>1, <1>2, <1>3, <2>4 DEF TypeOK, ReaderInv, Orphaned, Again, Tell, TellNothing,
       Fault, To, At, memory, bounds
  <2>5. ASSUME NEW q \in Requests PROVE ReaderInv(v, q)'
    BY <1>0, <1>a, <1>c, <1>1, <1>2, <1>3, <2>1, <2>2, <2>3, Shapes DEF TypeOK, ReaderInv,
       Orphaned, Again, Tell, TellNothing, Fault, To, At, memory, bounds
  <2> QED  BY <2>4, <2>5
<1> QED  BY <1>1, <1>4, <1>5, <1>6, <1>7

\* The owner's own refusal makes the request dead.
LEMMA RefuseStep ==
    ASSUME IInv, NEW v \in Deliveries, NEW r \in Requests, Refuse(v, r)
    PROVE  IInv'
<1> USE DEF IInv
<1>0. \A u \in Deliveries : u # v => d'[u] = d[u]
  BY DEF TypeOK, Refuse, Write, Done, Tell, Fault, To, At, memory, bounds
<1>a. d[v] \in Locals /\ row[r] \in Rows
  BY DEF TypeOK
<1>c. NoRow \in Rows /\ NoRow.st = "none" /\ Idle \in Locals /\ Idle.pc = "idle"
  BY Blank
<1>1. TypeOK'
  <2>1. d' \in [Deliveries -> Locals]
    BY <1>a, <1>c, Shapes DEF TypeOK, Rows, Results, Locals, Refuse, Write, Done, Tell, Fault,
       To, At, memory, bounds
  <2>2. row' \in [Requests -> Rows]
    BY <1>a, <1>c, Shapes DEF TypeOK, Rows, Results, Refuse, Write, Done, Tell, Fault, To, At,
       memory, bounds
  <2>3. told' \in [Requests -> SUBSET {"done", "refused", "stale"}]
    BY <1>a, <1>c, Shapes DEF TypeOK, RowInv, OwnerInv, Owner, ReaderInv, Orphaned, Refuse,
       Write, Done, Tell, Fault, To, At, memory, bounds
  <2>4. taken' \in [Requests -> {0, 1}]
    BY <1>a, <1>c DEF TypeOK, RowInv, OwnerInv, Owner, ReaderInv, Orphaned, Refuse, Write,
       Done, Tell, Fault, To, At, memory, bounds
  <2> QED  BY <2>1, <2>2, <2>3, <2>4 DEF TypeOK, Refuse, Write, Done, Tell, Fault, To, At,
     memory, bounds
<1>b. \A q \in Requests : Expired(q) => Expired(q)'
  BY <1>0, <1>c, <1>a DEF TypeOK, Expired, Refuse, Write, Done, Tell, Fault, To, At, memory,
     bounds
<1>2. \A q \in Requests : Dead(q) => Dead(q)'
  BY <1>0, <1>c, <1>b DEF TypeOK, Dead, Owner, RowInv, OwnerInv, ReaderInv, Orphaned, Refuse,
     Write, Done, Tell, Fault, To, At, memory, bounds
<1>3. \A q \in Requests : StaleRow(q) => StaleRow(q)'
  BY <1>0, <1>c, <1>b DEF TypeOK, StaleRow, RowInv, OwnerInv, Owner, ReaderInv, Orphaned,
     Refuse, Write, Done, Tell, Fault, To, At, memory, bounds
<1>5. \A q \in Requests : ToldInv(q)'
  BY <1>0, <1>c, <1>1, <1>2, <1>3 DEF TypeOK, ToldInv, ReaderInv, RowInv, OwnerInv, Owner,
     Dead, Orphaned, Refuse, Write, Done, Tell, Fault, To, At, memory, bounds
<1>4. \A q \in Requests : RowInv(q)'
  BY <1>0, <1>c, <1>1, <1>b DEF TypeOK, RowInv, OwnerInv, Owner, ReaderInv, Orphaned, Dead,
     StaleRow, Refuse, Write, Done, Tell, Fault, To, At, memory, bounds
<1>6. \A u \in Deliveries, q \in Requests : OwnerInv(u, q)'
  BY <1>0, <1>c, <1>1 DEF TypeOK, OwnerInv, Owner, RowInv, ReaderInv, Orphaned, Refuse, Write,
     Done, Tell, Fault, To, At, memory, bounds
<1>7. \A u \in Deliveries, q \in Requests : ReaderInv(u, q)'
  BY <1>0, <1>c, <1>1, <1>2, <1>3 DEF TypeOK, OwnerInv, Owner, RowInv, ReaderInv, Orphaned,
     Dead, Refuse, Write, Done, Tell, Fault, To, At, memory, bounds
<1> QED  BY <1>1, <1>4, <1>5, <1>6, <1>7

\* A claim keeps the request in the hands of its owner, or gives it up.
LEMMA ClaimStep ==
    ASSUME IInv, NEW v \in Deliveries, NEW r \in Requests, Claim(v, r)
    PROVE  IInv'
<1> USE DEF IInv
<1>0. \A u \in Deliveries : u # v => d'[u] = d[u]
  BY DEF TypeOK, Claim, Write, Tell, Fault, To, At, memory, bounds
<1>a. d[v] \in Locals /\ row[r] \in Rows
  BY DEF TypeOK
<1>c. NoRow \in Rows /\ NoRow.st = "none" /\ Idle \in Locals /\ Idle.pc = "idle"
  BY Blank
<1>1. TypeOK'
  <2>1. d' \in [Deliveries -> Locals]
    BY <1>a, <1>c, Shapes DEF TypeOK, Rows, Results, Locals, Claim, Write, Tell, Fault, To,
       At, memory, bounds
  <2>2. row' \in [Requests -> Rows]
    <3>1. [row[r] EXCEPT !.st = "PENDING"] \in Rows
      BY <1>a DEF Rows
    <3> QED  BY <3>1 DEF TypeOK, Claim, Write, Tell, Fault, To, At, memory, bounds
  <2>3. told' \in [Requests -> SUBSET {"done", "refused", "stale"}]
    BY <1>a, <1>c, Shapes DEF TypeOK, RowInv, OwnerInv, Owner, ReaderInv, Orphaned, Claim,
       Write, Tell, Fault, To, At, memory, bounds
  <2>4. taken' \in [Requests -> {0, 1}]
    BY <1>a, <1>c DEF TypeOK, RowInv, OwnerInv, Owner, ReaderInv, Orphaned, Claim, Write,
       Tell, Fault, To, At, memory, bounds
  <2> QED  BY <2>1, <2>2, <2>3, <2>4 DEF TypeOK, Claim, Write, Tell, Fault, To, At, memory,
     bounds
<1>b. \A q \in Requests : Expired(q) => Expired(q)'
  BY <1>0, <1>c, <1>a DEF TypeOK, Expired, Claim, Write, Tell, Fault, To, At, memory, bounds
<1>2. \A q \in Requests : Dead(q) => Dead(q)'
  BY <1>0, <1>c, <1>b DEF TypeOK, Dead, Owner, RowInv, OwnerInv, ReaderInv, Orphaned, Claim,
     Write, Tell, Fault, To, At, memory, bounds
<1>3. \A q \in Requests : StaleRow(q) => StaleRow(q)'
  BY <1>0, <1>c, <1>b DEF TypeOK, StaleRow, RowInv, OwnerInv, Owner, ReaderInv, Orphaned,
     Claim, Write, Tell, Fault, To, At, memory, bounds
<1>5. \A q \in Requests : ToldInv(q)'
  BY <1>0, <1>c, <1>1, <1>2, <1>3 DEF TypeOK, ToldInv, ReaderInv, RowInv, OwnerInv, Owner,
     Dead, Orphaned, Claim, Write, Tell, Fault, To, At, memory, bounds
<1>4. \A q \in Requests : RowInv(q)'
  <2>1. ASSUME NEW q \in Requests, row'[q] = NoRow PROVE Expired(q)' \/ (taken'[q] = 0 /\ told'[q] = {})
    <3>1. told'[q] \subseteq {"done", "refused", "stale"}
      BY <1>1 DEF TypeOK
    <3>2. taken'[q] = 0 /\ told'[q] # {} => Expired(q)'
      BY <1>5, <1>c, <2>1, <3>1 DEF ToldInv, Dead, StaleRow
    <3>3. taken'[q] # 0 => Expired(q)'
      BY <1>b, <1>c, <2>1 DEF TypeOK, RowInv, OwnerInv, Owner, Claim, Write, Tell, Fault, To,
         At, memory, bounds
    <3> QED  BY <3>2, <3>3
  <2>2. ASSUME NEW q \in Requests
        PROVE  /\ row'[q].st = "RESERVED" => taken'[q] = 0
               /\ row'[q].st = "DONE" =>
                    /\ row'[q].result \in {"done", "refused", "unknown", "stale"}
                    /\ row'[q].result = "done" => taken'[q] = 1
                    /\ row'[q].result = "refused" => taken'[q] = 0
    <3>1. taken' = taken /\ (row' = row \/ row' = [row EXCEPT ![r] = [row[r] EXCEPT !.st = "PENDING"]])
      BY DEF Claim, Write, Tell, Fault, To, At, memory, bounds
    <3>2. [row[r] EXCEPT !.st = "PENDING"].st = "PENDING"
      BY <1>a DEF Rows
    <3>3. row' # row => row'[r].st = "PENDING" /\ \A p \in Requests : p # r => row'[p] = row[p]
      BY <3>1, <3>2 DEF TypeOK
    <3> QED  BY <3>1, <3>3 DEF RowInv
  <2> QED  BY <2>1, <2>2 DEF RowInv
<1>6. \A u \in Deliveries, q \in Requests : OwnerInv(u, q)'
  <2>1. ASSUME NEW q \in Requests, NEW u \in Deliveries, q # r PROVE OwnerInv(u, q)'
    BY <1>0, <1>c, <2>1 DEF TypeOK, OwnerInv, Owner, Claim, Write, Tell, Fault, To, At,
       memory, bounds
  <2>2. ASSUME NEW u \in Deliveries PROVE OwnerInv(u, r)'
    <3>1. \A x \in Deliveries : Owner(x, r) => x = v
      BY DEF OwnerInv, Owner, Claim, Write, Tell, Fault, To, At, memory, bounds
    <3>2. CASE u = v
      BY <1>0, <1>a, <1>c, <3>1, <3>2 DEF TypeOK, OwnerInv, Owner, Rows, Claim, Write, Tell,
         Fault, To, At, memory, bounds
    <3>3. CASE u # v
      BY <1>0, <3>1, <3>3 DEF OwnerInv, Owner, At
    <3> QED  BY <3>2, <3>3
  <2> QED  BY <2>1, <2>2
<1>7. \A u \in Deliveries, q \in Requests : ReaderInv(u, q)'
  BY <1>0, <1>c, <1>1, <1>2, <1>3 DEF TypeOK, OwnerInv, Owner, RowInv, ReaderInv, Orphaned,
     Dead, Claim, Write, Tell, Fault, To, At, memory, bounds
<1> QED  BY <1>1, <1>4, <1>5, <1>6, <1>7

\* The effect happens in the hands of the owner, once.
LEMMA ExecuteStep ==
    ASSUME IInv, NEW v \in Deliveries, NEW r \in Requests, Execute(v, r)
    PROVE  IInv'
<1> USE DEF IInv
<1>0. \A u \in Deliveries : u # v => d'[u] = d[u]
  BY DEF TypeOK, Execute, To, At, memory, bounds
<1>a. d[v] \in Locals /\ row[r] \in Rows
  BY DEF TypeOK
<1>c. NoRow \in Rows /\ NoRow.st = "none" /\ Idle \in Locals /\ Idle.pc = "idle"
  BY Blank
<1>1. TypeOK'
  <2>1. d' \in [Deliveries -> Locals]
    BY <1>a, <1>c, Shapes DEF TypeOK, Rows, Results, Locals, Execute, To, At, memory, bounds
  <2>2. row' \in [Requests -> Rows]
    BY <1>a, <1>c, Shapes DEF TypeOK, Rows, Results, Execute, To, At, memory, bounds
  <2>3. told' \in [Requests -> SUBSET {"done", "refused", "stale"}]
    BY <1>a, <1>c, Shapes DEF TypeOK, RowInv, OwnerInv, Owner, ReaderInv, Orphaned, Execute,
       To, At, memory, bounds
  <2>4. taken' \in [Requests -> {0, 1}]
    BY <1>a, <1>c DEF TypeOK, RowInv, OwnerInv, Owner, ReaderInv, Orphaned, Execute, To, At,
       memory, bounds
  <2> QED  BY <2>1, <2>2, <2>3, <2>4 DEF TypeOK, Execute, To, At, memory, bounds
<1>b. \A q \in Requests : Expired(q) => Expired(q)'
  BY <1>0, <1>c, <1>a DEF TypeOK, Expired, Execute, To, At, memory, bounds
<1>2. \A q \in Requests : Dead(q) => Dead(q)'
  BY <1>0, <1>c, <1>b DEF TypeOK, Dead, Owner, RowInv, OwnerInv, ReaderInv, Orphaned, Execute,
     To, At, memory, bounds
<1>3. \A q \in Requests : StaleRow(q) => StaleRow(q)'
  BY <1>0, <1>c, <1>b DEF TypeOK, StaleRow, RowInv, OwnerInv, Owner, ReaderInv, Orphaned,
     Execute, To, At, memory, bounds
<1>5. \A q \in Requests : ToldInv(q)'
  BY <1>0, <1>c, <1>1, <1>2, <1>3 DEF TypeOK, ToldInv, ReaderInv, RowInv, OwnerInv, Owner,
     Dead, Orphaned, Execute, To, At, memory, bounds
<1>4. \A q \in Requests : RowInv(q)'
  BY <1>0, <1>c, <1>1, <1>b DEF TypeOK, RowInv, OwnerInv, Owner, ReaderInv, Orphaned, Dead,
     StaleRow, Execute, To, At, memory, bounds
<1>6. \A u \in Deliveries, q \in Requests : OwnerInv(u, q)'
  BY <1>0, <1>c, <1>1 DEF TypeOK, OwnerInv, Owner, RowInv, ReaderInv, Orphaned, Execute, To,
     At, memory, bounds
<1>7. \A u \in Deliveries, q \in Requests : ReaderInv(u, q)'
  BY <1>0, <1>c, <1>1, <1>2, <1>3 DEF TypeOK, OwnerInv, Owner, RowInv, ReaderInv, Orphaned,
     Dead, Execute, To, At, memory, bounds
<1> QED  BY <1>1, <1>4, <1>5, <1>6, <1>7

\* The result that is recorded and told is what happened.
LEMMA CompleteStep ==
    ASSUME IInv, NEW v \in Deliveries, NEW r \in Requests, Complete(v, r)
    PROVE  IInv'
<1> USE DEF IInv
<1>0. \A u \in Deliveries : u # v => d'[u] = d[u]
  BY DEF TypeOK, Complete, Write, Done, Tell, TellNothing, Fault, To, At, memory, bounds
<1>a. d[v] \in Locals /\ row[r] \in Rows
  BY DEF TypeOK
<1>c. NoRow \in Rows /\ NoRow.st = "none" /\ Idle \in Locals /\ Idle.pc = "idle"
  BY Blank
<1>1. TypeOK'
  <2>1. d' \in [Deliveries -> Locals]
    BY <1>a, <1>c, Shapes DEF TypeOK, Rows, Results, Locals, Complete, Write, Done, Tell,
       TellNothing, Fault, To, At, memory, bounds
  <2>2. row' \in [Requests -> Rows]
    <3>1. Done(d[v].result) \in Rows
      BY <1>a, Shapes DEF Done, TypeOK, Rows, Results, At, Complete
    <3> QED  BY <3>1 DEF TypeOK, Complete, Write, Tell, TellNothing, Fault, To, At, memory,
       bounds
  <2>3. told' \in [Requests -> SUBSET {"done", "refused", "stale"}]
    BY <1>a, <1>c, Shapes DEF TypeOK, RowInv, OwnerInv, Owner, ReaderInv, Orphaned, Complete,
       Write, Done, Tell, TellNothing, Fault, To, At, memory, bounds
  <2>4. taken' \in [Requests -> {0, 1}]
    BY <1>a, <1>c DEF TypeOK, RowInv, OwnerInv, Owner, ReaderInv, Orphaned, Complete, Write,
       Done, Tell, TellNothing, Fault, To, At, memory, bounds
  <2> QED  BY <2>1, <2>2, <2>3, <2>4 DEF TypeOK, Complete, Write, Done, Tell, TellNothing,
     Fault, To, At, memory, bounds
<1>b. \A q \in Requests : Expired(q) => Expired(q)'
  BY <1>0, <1>c, <1>a DEF TypeOK, Expired, Complete, Write, Done, Tell, TellNothing, Fault,
     To, At, memory, bounds
<1>2. \A q \in Requests : Dead(q) => Dead(q)'
  BY <1>0, <1>c, <1>b DEF TypeOK, Dead, Owner, RowInv, OwnerInv, ReaderInv, Orphaned,
     Complete, Write, Done, Tell, TellNothing, Fault, To, At, memory, bounds
<1>3. \A q \in Requests : StaleRow(q) => StaleRow(q)'
  BY <1>0, <1>c, <1>b DEF TypeOK, StaleRow, RowInv, OwnerInv, Owner, ReaderInv, Orphaned,
     Complete, Write, Done, Tell, TellNothing, Fault, To, At, memory, bounds
<1>5. \A q \in Requests : ToldInv(q)'
  <2>1. ASSUME NEW q \in Requests, q # r PROVE ToldInv(q)'
    BY <1>2, <1>3, <2>1 DEF TypeOK, ToldInv, Complete, Write, Done, Tell, TellNothing, Fault,
       To, At, memory, bounds
  <2>2. ToldInv(r)'
    <3>1. taken' = taken /\ abandoned' = abandoned /\ Owner(v, r) /\ r \notin abandoned
          /\ "refused" \notin told[r]
      BY DEF ToldInv, Dead, Owner, Complete, Write, Done, Tell, TellNothing, Fault, To, At,
         memory, bounds
    <3>2. d[v].result = "refused" /\ "refused" \in told'[r] => Dead(r)'
      BY <1>0, <1>a, <1>c, <3>1, Shapes DEF TypeOK, OwnerInv, Owner, Dead, Complete, Write,
         Done, Tell, TellNothing, Fault, To, At, memory, bounds
    <3>3. "refused" \in told'[r] => d[v].result = "refused"
      BY <3>1 DEF TypeOK, Complete, Write, Done, Tell, TellNothing, Fault, To, At, memory,
         bounds
    <3>4. "done" \in told'[r] => taken'[r] = 1
      BY <3>1 DEF TypeOK, ToldInv, OwnerInv, Complete, Write, Done, Tell, TellNothing, Fault,
         To, At, memory, bounds
    <3>5. "stale" \in told'[r] => StaleRow(r)'
      BY <1>3, <1>a, Shapes DEF TypeOK, ToldInv, Complete, Write, Done, Tell, TellNothing,
         Fault, To, At, memory, bounds
    <3> QED  BY <3>1, <3>2, <3>3, <3>4, <3>5 DEF ToldInv
  <2> QED  BY <2>1, <2>2
<1>4. \A q \in Requests : RowInv(q)'
  <2>1. ASSUME NEW q \in Requests, row'[q] = NoRow PROVE Expired(q)' \/ (taken'[q] = 0 /\ told'[q] = {})
    <3>1. told'[q] \subseteq {"done", "refused", "stale"}
      BY <1>1 DEF TypeOK
    <3>2. taken'[q] = 0 /\ told'[q] # {} => Expired(q)'
      BY <1>5, <1>c, <2>1, <3>1 DEF ToldInv, Dead, StaleRow
    <3>3. taken'[q] # 0 => Expired(q)'
      BY <1>b, <1>c, <2>1 DEF TypeOK, RowInv, OwnerInv, Owner, Complete, Write, Done, Tell,
         TellNothing, Fault, To, At, memory, bounds
    <3> QED  BY <3>2, <3>3
  <2>2. ASSUME NEW q \in Requests
        PROVE  /\ row'[q].st = "RESERVED" => taken'[q] = 0
               /\ row'[q].st = "DONE" =>
                    /\ row'[q].result \in {"done", "refused", "unknown", "stale"}
                    /\ row'[q].result = "done" => taken'[q] = 1
                    /\ row'[q].result = "refused" => taken'[q] = 0
    BY <1>a, <1>c, Shapes DEF TypeOK, RowInv, OwnerInv, Owner, Complete, Write, Done, Tell,
       TellNothing, Fault, To, At, memory, bounds
  <2> QED  BY <2>1, <2>2 DEF RowInv
<1>6. \A u \in Deliveries, q \in Requests : OwnerInv(u, q)'
  BY <1>0, <1>c, <1>1 DEF TypeOK, OwnerInv, Owner, RowInv, ReaderInv, Orphaned, Complete,
     Write, Done, Tell, TellNothing, Fault, To, At, memory, bounds
<1>7. \A u \in Deliveries, q \in Requests : ReaderInv(u, q)'
  BY <1>0, <1>c, <1>1, <1>2, <1>3 DEF TypeOK, OwnerInv, Owner, RowInv, ReaderInv, Orphaned,
     Dead, Complete, Write, Done, Tell, TellNothing, Fault, To, At, memory, bounds
<1> QED  BY <1>1, <1>4, <1>5, <1>6, <1>7

\* A request that grows old stays what it was.
LEMMA AgeStep ==
    ASSUME IInv, NEW r \in Requests, Age(r)
    PROVE  IInv'
<1> USE DEF IInv
<1>1. TypeOK'
  BY DEF TypeOK, Age, memory, bounds
<1>2. \A q \in Requests : (Dead(q) => Dead(q)') /\ (StaleRow(q) => StaleRow(q)')
                          /\ (Expired(q) => Expired(q)')
  BY DEF Dead, StaleRow, Expired, Owner, At, Age
<1>3. \A q \in Requests : RowInv(q)' /\ ToldInv(q)'
  BY <1>2 DEF RowInv, ToldInv, Age, memory
<1>4. \A v \in Deliveries, q \in Requests : OwnerInv(v, q)' /\ ReaderInv(v, q)'
  BY <1>2 DEF OwnerInv, ReaderInv, Owner, At, Orphaned, Age, bounds
<1> QED  BY <1>1, <1>3, <1>4

\* A pruned row leaves a request that nobody can find fresh again.
LEMMA PruneStep ==
    ASSUME IInv, NEW r \in Requests, Prune(r)
    PROVE  IInv'
<1> USE DEF IInv
<1>0. /\ Expired(r) /\ row[r].st = "DONE" /\ NoRow.st = "none" /\ NoRow \in Rows
      /\ row'[r] = NoRow /\ \A q \in Requests : q # r => row'[q] = row[q]
  BY Blank DEF TypeOK, Expired, Outlived, Prune, Write
<1>1. TypeOK'
  BY <1>0 DEF TypeOK, Prune, Write, memory, bounds
<1>2. \A q \in Requests : (Dead(q) => Dead(q)') /\ (StaleRow(q) => StaleRow(q)')
                          /\ (Expired(q) => Expired(q)')
  BY <1>0 DEF Dead, StaleRow, Expired, Owner, At, Prune
<1>3. \A q \in Requests : RowInv(q)' /\ ToldInv(q)'
  BY <1>0, <1>2 DEF RowInv, ToldInv, Prune, memory
<1>4. \A v \in Deliveries, q \in Requests : OwnerInv(v, q)' /\ ReaderInv(v, q)'
  BY <1>0, <1>2 DEF OwnerInv, ReaderInv, Owner, At, Orphaned, Prune, bounds
<1> QED  BY <1>1, <1>3, <1>4

\* A restart leaves no owner, and orphans are dead.
LEMMA CrashStep == ASSUME IInv, Crash PROVE IInv'
<1> USE DEF IInv
<1>0. \A v \in Deliveries : d'[v].pc = "idle" /\ d'[v] \in Locals
  BY Blank DEF Crash
<1>1. TypeOK'
  BY <1>0, Blank DEF TypeOK, Crash
<1>2. \A q \in Requests : (Dead(q) => Dead(q)') /\ (StaleRow(q) => StaleRow(q)')
                          /\ (Expired(q) => Expired(q)')
  BY <1>0 DEF Dead, StaleRow, Expired, Owner, At, Crash
<1>3. \A q \in Requests : RowInv(q)' /\ ToldInv(q)'
  BY <1>2 DEF RowInv, ToldInv, Crash
<1>4. \A v \in Deliveries, q \in Requests : OwnerInv(v, q)' /\ ReaderInv(v, q)'
  BY <1>0 DEF OwnerInv, ReaderInv, Owner, At
<1> QED  BY <1>1, <1>3, <1>4

\* The invariant holds in every life of the process.
THEOREM Invariance == Spec => []IInv
<1>1. Init => IInv
  <2> SUFFICES ASSUME Init PROVE IInv  OBVIOUS
  <2>1. TypeOK
    BY Blank DEF Init, TypeOK
  <2>2. \A r \in Requests : RowInv(r) /\ ToldInv(r)
    BY Blank DEF Init, RowInv, ToldInv
  <2>3. \A v \in Deliveries, r \in Requests : OwnerInv(v, r) /\ ReaderInv(v, r)
    BY Blank DEF Init, OwnerInv, ReaderInv, Owner, At
  <2> QED  BY <2>1, <2>2, <2>3 DEF IInv
<1>2. IInv /\ [Next]_vars => IInv'
  <2> SUFFICES ASSUME IInv, [Next]_vars PROVE IInv'  OBVIOUS
  <2>1. ASSUME NEW v \in Deliveries, NEW r \in Requests,
               \/ Deliver(v, r) \/ AnswerExisting(v, r) \/ SettleOrphan(v, r)
               \/ Insert(v, r) \/ InsertFails(v, r) \/ Again(v, r)
               \/ Refuse(v, r) \/ Claim(v, r) \/ Execute(v, r) \/ Complete(v, r)
        PROVE  IInv'
    BY <2>1, DeliverStep, AnswerExistingStep, SettleOrphanStep, InsertStep, InsertFailsStep,
       AgainStep, RefuseStep, ClaimStep, ExecuteStep, CompleteStep
  <2>2. ASSUME NEW r \in Requests, Age(r) \/ Prune(r) PROVE IInv'
    BY <2>2, AgeStep, PruneStep
  <2>3. CASE UNCHANGED vars
    BY <2>3 DEF vars, bounds, IInv, TypeOK, RowInv, ToldInv, OwnerInv, ReaderInv, Owner,
                Dead, StaleRow, Expired, At, Orphaned
  <2> QED  BY <2>1, <2>2, <2>3, CrashStep DEF Next
<1> QED  BY <1>1, <1>2, PTL DEF Spec

\* Rows, deliveries and answers keep to their values and the effect happens at most
\* once, for any requests, deliveries and bounds.
THEOREM TypeCorrect == Spec => []TypeOK
<1>1. IInv => TypeOK
  BY DEF IInv
<1> QED  BY <1>1, Invariance, PTL
-----------------------------------------------------------------------------

\* What the callers are told in a step is an answer of the promise, or nothing new.
LEMMA TellRefines ==
    ASSUME IInv, IInv', NEW r \in Requests, NEW a \in {"done", "refused", "stale"},
           taken' = taken, told' = [told EXCEPT ![r] = @ \cup {a}]
    PROVE  [Once!OnceNext]_<<taken, answered>>
<1> USE DEF IInv
<1>1. /\ told'[r] = told[r] \cup {a}
      /\ \A q \in Requests : q # r => told'[q] = told[q]
  BY DEF TypeOK
<1>2. \A q \in Requests : q # r => Answered(q)' = Answered(q)
  BY <1>1 DEF Answered
<1>3. taken[r] \in {0, 1}
  BY DEF TypeOK
<1>4. /\ "done" \in told'[r] => taken[r] = 1
      /\ "refused" \in told'[r] => taken[r] = 0
  BY DEF ToldInv, Dead
<1>5. Answered(r)' # Answered(r) =>
        /\ Answered(r) = "none"
        /\ Answered(r)' \in {"done", "refused"}
        /\ Answered(r)' = "done" <=> taken[r] = 1
  <2>1. CASE a = "done"
    BY <1>1, <1>3, <1>4, <2>1 DEF Answered
  <2>2. CASE a = "refused"
    BY <1>1, <1>3, <1>4, <2>2 DEF Answered
  <2>3. CASE a = "stale"
    BY <1>1, <1>3, <1>4, <2>3 DEF Answered
  <2> QED  BY <2>1, <2>2, <2>3
<1>6. CASE Answered(r)' = Answered(r)
  BY <1>2, <1>6 DEF answered
<1>7. CASE Answered(r)' # Answered(r)
  <2>1. answered' = [answered EXCEPT ![r] = Answered(r)']
    BY <1>2 DEF answered
  <2>2. answered[r] = "none"
    BY <1>5, <1>7 DEF answered
  <2>3. Once!Answer(r)
    BY <1>5, <1>7, <2>1, <2>2 DEF Once!Answer
  <2> QED  BY <2>3 DEF Once!OnceNext
<1> QED  BY <1>6, <1>7

\* The operation's effect is the promise's, and comes before any answer.
LEMMA ExecuteRefines ==
    ASSUME IInv, NEW v \in Deliveries, NEW r \in Requests, Execute(v, r)
    PROVE  [Once!OnceNext]_<<taken, answered>>
<1> USE DEF IInv
<1>1. At(v, "execute", r) /\ told' = told
  BY DEF Execute
<1>2. taken[r] = 0 /\ ~Dead(r) /\ row[r].st = "PENDING"
  BY <1>1 DEF OwnerInv, Owner, Dead, At
<1>3. Answered(r) = "none"
  <2>1. "done" \notin told[r] /\ "refused" \notin told[r]
    BY <1>2 DEF ToldInv
  <2>2. "stale" \notin told[r]
    BY <1>2, Blank DEF ToldInv, StaleRow
  <2> QED  BY <2>1, <2>2 DEF Answered
<1>4. PICK n \in {0, 1} : taken' = [taken EXCEPT ![r] = @ + n]
  BY DEF Execute
<1>5. CASE n = 0
  <2>1. taken' = taken
    BY <1>2, <1>4, <1>5 DEF TypeOK
  <2> QED  BY <1>1, <2>1 DEF answered, Answered
<1>6. CASE n = 1
  <2>1. taken' = [taken EXCEPT ![r] = 1]
    BY <1>2, <1>4, <1>6
  <2>2. \A q \in Requests : Answered(q)' = Answered(q)
    <3>1. ASSUME NEW q \in Requests, q # r PROVE Answered(q)' = Answered(q)
      BY <1>1, <2>1, <3>1 DEF Answered, TypeOK
    <3>2. Answered(r)' = Answered(r)
      BY <1>1, <1>2, <1>3 DEF Answered
    <3> QED  BY <3>1, <3>2
  <2>3. Once!Take(r)
    BY <1>2, <1>3, <2>1, <2>2 DEF Once!Take, answered
  <2> QED  BY <2>3 DEF Once!OnceNext
<1> QED  BY <1>5, <1>6

\* OwnerService keeps the once-only promise: a control request has its effect at most
\* once, and no caller is told "refused" of one that was or will be executed, over any
\* number of deliveries, failed writes, restarts and pruned rows.
THEOREM RequestOnceCorrect == Spec => RequestOnce
<1>1. Init => Once!OnceInit
  BY DEF Init, Once!OnceInit, answered, Answered
<1>2. IInv /\ IInv' /\ [Next]_vars => [Once!OnceNext]_<<taken, answered>>
  <2> SUFFICES ASSUME IInv, IInv', [Next]_vars PROVE [Once!OnceNext]_<<taken, answered>>
    OBVIOUS
  <2> USE DEF IInv
  <2>1. ASSUME taken' = taken, told' = told PROVE [Once!OnceNext]_<<taken, answered>>
    BY <2>1 DEF answered, Answered
  <2>2. ASSUME NEW v \in Deliveries, NEW r \in Requests,
               \/ Deliver(v, r) \/ AnswerExisting(v, r) \/ SettleOrphan(v, r)
               \/ Insert(v, r) \/ InsertFails(v, r) \/ Again(v, r)
               \/ Refuse(v, r) \/ Claim(v, r) \/ Complete(v, r)
        PROVE  [Once!OnceNext]_<<taken, answered>>
    <3>1. taken' = taken
      BY <2>2 DEF Deliver, AnswerExisting, SettleOrphan, Insert, Won, InsertFails, Again,
         Refuse,
                  Claim, Complete
    <3>2. \/ told' = told
          \/ \E a \in {"done", "refused", "stale"} : told' = [told EXCEPT ![r] = @ \cup {a}]
      <4>1. CASE AnswerExisting(v, r)
        BY <4>1 DEF AnswerExisting, ReaderInv, Tell, TellNothing
      <4>2. CASE Complete(v, r)
        <5>1. d[v] \in Locals
          BY DEF TypeOK
        <5> QED  BY <4>2, <5>1, Shapes DEF Complete, At, Tell, TellNothing
      <4>3. CASE Deliver(v, r) \/ SettleOrphan(v, r) \/ InsertFails(v, r)
        BY <4>3 DEF Deliver, SettleOrphan, InsertFails
      <4>4. CASE Insert(v, r) \/ Again(v, r) \/ Refuse(v, r) \/ Claim(v, r)
        BY <4>4 DEF Insert, Won, Again, Refuse, Claim, Tell, TellNothing
      <4> QED  BY <2>2, <4>1, <4>2, <4>3, <4>4
    <3> QED  BY <2>1, <3>1, <3>2, TellRefines
  <2>3. ASSUME NEW r \in Requests, Age(r) \/ Prune(r)
        PROVE  [Once!OnceNext]_<<taken, answered>>
    BY <2>1, <2>3 DEF Age, Prune
  <2>4. CASE Crash
    BY <2>1, <2>4 DEF Crash
  <2>5. CASE UNCHANGED vars
    BY <2>1, <2>5 DEF vars
  <2> QED  BY <2>2, <2>3, <2>4, <2>5, ExecuteRefines DEF Next
<1> QED  BY <1>1, <1>2, Invariance, PTL DEF Spec, RequestOnce, Once!OnceSpec
=============================================================================
