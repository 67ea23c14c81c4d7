---------------------------- MODULE OwnerRequests ----------------------------
(***************************************************************************)
(* The life of an owner's control request (owner/service): one row of        *)
(* owner_requests, RESERVED by the first delivery that arrives, PENDING      *)
(* while it executes and DONE with its result.  Deliveries are duplicated by *)
(* the adapters and race each other; the journal fails, the process dies     *)
(* and starts again, finished rows are pruned.                               *)
(*                                                                           *)
(* What the operations do to the control plane is in ControlPlane: here each *)
(* has an effect, is refused without one, or raises after one or none.       *)
(***************************************************************************)
EXTENDS Naturals

CONSTANTS
    Requests,      \* the request ids
    Recoveries,    \* those that resume or unhalt
    Deliveries,    \* the threads that deliver requests
    MaxFaults,     \* bound: failures of the journal
    MaxCrashes     \* bound: restarts

ASSUME RecoveriesAssumption == Recoveries \subseteq Requests

VARIABLES
    row,           \* the rows of owner_requests
    unresolved,    \* _unresolved: claimed in this life, the result not recorded
    abandoned,     \* _abandoned: reserved in this life, the refusal not recorded
    d,             \* the step and the locals of each delivery
    stale,         \* the requests that are older than max_age_s
    boot,          \* the lives of the process so far
    faults,        \* the journal's failures so far
    taken,         \* history: how often each request had its effect
    told           \* history: the definitive answers that were given

bounds == <<boot, faults>>
vars   == <<row, unresolved, abandoned, d, stale, bounds, taken, told>>

NoRow == [st |-> "none", result |-> "none", boot |-> 0]
Done(result) == [st |-> "DONE", result |-> result, boot |-> boot]
Idle  == [pc |-> "idle"]

Init ==
    /\ row = [r \in Requests |-> NoRow]
    /\ unresolved = {} /\ abandoned = {}
    /\ d = [v \in Deliveries |-> Idle]
    /\ stale = {}
    /\ boot = 0 /\ faults = 0
    /\ taken = [r \in Requests |-> 0]
    /\ told = [r \in Requests |-> {}]

To(v, l)        == d' = [d EXCEPT ![v] = l]
Write(r, new)   == row' = [row EXCEPT ![r] = new]
At(v, pc, r)    == d[v].pc = pc /\ d[v].r = r
Fault           == faults < MaxFaults /\ faults' = faults + 1 /\ UNCHANGED boot
\* The delivery ends with a definitive answer, or with IN_PROGRESS or OUTCOME_UNKNOWN.
Tell(v, r, a)   == To(v, Idle) /\ told' = [told EXCEPT ![r] = @ \cup {a}]
TellNothing(v)  == To(v, Idle) /\ UNCHANGED told
memory          == <<unresolved, abandoned>>
-----------------------------------------------------------------------------
(* The reservation.                                                         *)

\* A delivery reads the row of its request; without one it looks at its age.
Deliver(v, r) ==
    /\ d[v].pc = "idle"
    /\ To(v, IF row[r] = NoRow
             THEN [pc |-> "insert", r |-> r, fresh |-> r \notin stale]
             ELSE [pc |-> "answer", r |-> r, seen |-> row[r]])
    /\ UNCHANGED <<row, memory, stale, bounds, taken, told>>

\* Mutant: what another life left is taken to have never been executed.
Orphaned_Claimed(seen) == seen.st \in {"RESERVED", "PENDING"} /\ seen.boot # boot
\* Reserved and never claimed by a kernel that is gone.
Orphaned(seen) == seen.st = "RESERVED" /\ seen.boot # boot

\* The answer for an id that has a row: its result, a reservation that was given up,
\* or nothing definite while another delivery may be executing it.
AnswerExisting(v, r) ==
    /\ At(v, "answer", r)
    /\ LET seen == d[v].seen IN
       /\ ~Orphaned(seen)
       /\ IF seen.st = "DONE" /\ seen.result # "unknown" THEN Tell(v, r, seen.result)
          ELSE IF /\ seen.st # "DONE" /\ seen.boot = boot
                  /\ r \notin unresolved /\ r \in abandoned
          THEN Tell(v, r, "refused")
          ELSE TellNothing(v)
    /\ UNCHANGED <<row, memory, stale, bounds, taken>>

\* An orphan is settled once, whichever delivery sees it first.
SettleOrphan(v, r) ==
    /\ At(v, "answer", r)
    /\ Orphaned(d[v].seen)
    /\ Write(r, IF Orphaned(row[r]) THEN Done("refused") ELSE row[r])
    /\ To(v, [pc |-> "again", r |-> r, orphan |-> TRUE])
    /\ UNCHANGED <<memory, stale, bounds, taken, told>>

\* Mutant: INSERT OR REPLACE, the last delivery to arrive has the id.
Won_Replaces(r) == row[r].st # "DONE"
\* INSERT OR IGNORE: nobody else has reserved the id.
Won(r) == row[r] = NoRow

\* The first delivery reserves the id, or records that it is stale;
\* any other reads the row again.  The age is looked at between the row and this.
Insert(v, r) ==
    /\ At(v, "insert", r)
    /\ \E fresh \in {d[v].fresh, r \notin stale} :
         IF ~Won(r)
         THEN To(v, [pc |-> "again", r |-> r, orphan |-> FALSE]) /\ UNCHANGED <<row, told>>
         ELSE IF fresh
         THEN /\ Write(r, [st |-> "RESERVED", result |-> "none", boot |-> boot])
              /\ To(v, [pc |-> "reserved", r |-> r])
              /\ UNCHANGED told
         ELSE Write(r, Done("stale")) /\ Tell(v, r, "stale")
    /\ UNCHANGED <<memory, stale, bounds, taken>>

\* A write that failed says nothing of other deliveries: the row is read again.
InsertFails(v, r) ==
    /\ At(v, "insert", r)
    /\ To(v, [pc |-> "again", r |-> r, orphan |-> FALSE])
    /\ Fault
    /\ UNCHANGED <<row, memory, stale, taken, told>>

\* The row is read again; without one, or unreadable, the outcome is in progress or
\* unknown, except that an orphan was never executed.
Again(v, r) ==
    /\ At(v, "again", r)
    /\ \/ /\ row[r] # NoRow
          /\ To(v, [pc |-> "answer", r |-> r, seen |-> row[r]])
          /\ UNCHANGED <<told, bounds>>
       \/ /\ row[r] = NoRow
          /\ IF d[v].orphan THEN Tell(v, r, "refused") ELSE TellNothing(v)
          /\ UNCHANGED bounds
       \/ TellNothing(v) /\ Fault
    /\ UNCHANGED <<row, memory, stale, taken>>
-----------------------------------------------------------------------------
(* The reservation's owner.                                                 *)

\* The lock of the request's class, which is held from the claim to the result.
Class(r) == r \in Recoveries
Busy(v, r) ==
    \E u \in Deliveries : /\ d[u].pc \in {"execute", "complete"}
                          /\ Class(d[u].r) = Class(r)

\* No slot, another recovery, or the lock not free in time: the owner of the
\* reservation refuses it, and the refusal holds although it may not be recorded.
Refuse(v, r) ==
    /\ At(v, "reserved", r)
    /\ \E u \in Deliveries \ {v} : d[u].pc # "idle"
    /\ \/ /\ Write(r, IF row[r].st = "RESERVED" THEN Done("refused") ELSE row[r])
          /\ UNCHANGED <<abandoned, bounds>>
       \/ /\ abandoned' = abandoned \cup {r}
          /\ Fault /\ UNCHANGED row
    /\ Tell(v, r, "refused")
    /\ UNCHANGED <<unresolved, stale, taken>>

\* The claim, in one transaction; one that failed was rolled back.
Claim(v, r) ==
    /\ At(v, "reserved", r) /\ ~Busy(v, r)
    /\ \/ /\ row[r].st = "RESERVED"
          /\ Write(r, [row[r] EXCEPT !.st = "PENDING"])
          /\ To(v, [pc |-> "execute", r |-> r])
          /\ UNCHANGED <<abandoned, told, bounds>>
       \/ /\ abandoned' = abandoned \cup {r}
          /\ Tell(v, r, "refused")
          /\ Fault /\ UNCHANGED row
    /\ UNCHANGED <<unresolved, stale, taken>>

\* The operation: done, refused with no effect, or an error after one or none.
Execute(v, r) ==
    /\ At(v, "execute", r)
    /\ \E result \in {"done", "refused", "unknown"}, n \in {0, 1} :
         /\ result = "done" => n = 1
         /\ result = "refused" => n = 0
         /\ taken' = [taken EXCEPT ![r] = @ + n]
         /\ To(v, [pc |-> "complete", r |-> r, result |-> result])
    /\ UNCHANGED <<row, memory, stale, bounds, told>>

\* The result is recorded and answered; when that fails, before or after its commit,
\* the outcome is unknown.
Complete(v, r) ==
    /\ At(v, "complete", r)
    /\ \/ /\ Write(r, Done(d[v].result))
          /\ IF d[v].result = "unknown" THEN TellNothing(v) ELSE Tell(v, r, d[v].result)
          /\ UNCHANGED <<unresolved, bounds>>
       \/ /\ row' \in {row, [row EXCEPT ![r] = Done(d[v].result)]}
          /\ unresolved' = unresolved \cup {r}
          /\ TellNothing(v) /\ Fault
    /\ UNCHANGED <<abandoned, stale, taken>>
-----------------------------------------------------------------------------
(* Time and restarts.                                                       *)

Age(r) ==
    /\ r \notin stale
    /\ stale' = stale \cup {r}
    /\ UNCHANGED <<row, memory, d, bounds, taken, told>>

\* The retention is twice the age at which a request is refused, so whoever found the
\* request fresh is done with it.
Outlived(r) == r \in stale /\ \A v \in Deliveries : ~(At(v, "insert", r) /\ d[v].fresh)

Prune(r) ==
    /\ row[r].st = "DONE" /\ Outlived(r)
    /\ Write(r, NoRow)
    /\ UNCHANGED <<memory, d, stale, bounds, taken, told>>

Crash ==
    /\ boot < MaxCrashes /\ boot' = boot + 1
    /\ d' = [v \in Deliveries |-> Idle]
    /\ unresolved' = {} /\ abandoned' = {}
    /\ UNCHANGED <<row, stale, faults, taken, told>>

Next ==
    \/ \E v \in Deliveries, r \in Requests :
         \/ Deliver(v, r) \/ AnswerExisting(v, r) \/ SettleOrphan(v, r)
         \/ Insert(v, r) \/ InsertFails(v, r) \/ Again(v, r)
         \/ Refuse(v, r) \/ Claim(v, r) \/ Execute(v, r) \/ Complete(v, r)
    \/ \E r \in Requests : Age(r) \/ Prune(r)
    \/ Crash

Spec == Init /\ [][Next]_vars
-----------------------------------------------------------------------------
Results == {"none", "done", "refused", "unknown", "stale"}
Rows    == [st : {"none", "RESERVED", "PENDING", "DONE"}, result : Results, boot : Nat]
Locals  ==
    {Idle}
    \cup [pc : {"insert"}, r : Requests, fresh : BOOLEAN]
    \cup [pc : {"answer"}, r : Requests, seen : Rows]
    \cup [pc : {"again"}, r : Requests, orphan : BOOLEAN]
    \cup [pc : {"reserved", "execute"}, r : Requests]
    \cup [pc : {"complete"}, r : Requests, result : {"done", "refused", "unknown"}]

TypeOK ==
    /\ row \in [Requests -> Rows]
    /\ unresolved \subseteq Requests /\ abandoned \subseteq Requests
    /\ stale \subseteq Requests
    /\ d \in [Deliveries -> Locals]
    /\ boot \in Nat /\ faults \in Nat
    /\ taken \in [Requests -> {0, 1}]
    /\ told \in [Requests -> SUBSET {"done", "refused", "stale"}]

\* The definitive answer of a request.  Staleness is one only of a request that was
\* not executed: an executed one is stale too, once its row is pruned.
Answered(r) ==
    IF "done" \in told[r] THEN "done"
    ELSE IF "refused" \in told[r] \/ ("stale" \in told[r] /\ taken[r] = 0) THEN "refused"
    ELSE "none"
answered == [r \in Requests |-> Answered(r)]

\* A request has its effect at most once, however often it is delivered, over
\* restarts, failures and pruning; a caller that was told it was done was told the
\* truth, and none is told "refused" of a request that was or will be executed (the
\* lifecycle of owner_requests).
Once == INSTANCE OnceOnly WITH taken <- taken, answer <- answered
RequestOnce == Once!OnceSpec
=============================================================================
