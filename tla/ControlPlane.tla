---------------------------- MODULE ControlPlane ----------------------------
(***************************************************************************)
(* The control plane of Luffy: who may move the system between ACTIVE,     *)
(* FROZEN, HALTED and RECOVERY, and who may not.                            *)
(*                                                                         *)
(* Every transition goes through the control fence (engine/control_fence)  *)
(* and appends one intent event, whose id is the watermark every           *)
(* compare-and-set is bound to (engine/state).  Under that fence compete   *)
(* the Supervisor (engine/supervisor), the owner's freeze, halt and panic  *)
(* (owner/service), the risk engine, MacroGuard and the panic drain        *)
(* (kernel).  A transition is several journal writes: the process may      *)
(* crash between any two of them.                                          *)
(*                                                                         *)
(* Intent events are numbered by their position in log; the other control  *)
(* events, which no compare-and-set reads, are left out.                   *)
(***************************************************************************)
EXTENDS Integers, Sequences

CONSTANTS
    Markets,      \* the market types the deployment may be switched between
    Risks,        \* the verdicts Risk's durable state may give
    Requests,     \* the requests that may be made from outside the control plane
    MaxRequests,  \* bound: requests and changes from outside in one behaviour
    MaxCrashes    \* bound: process crashes in one behaviour

ASSUME MarketsAssumption == Markets \subseteq {"futures", "spot"}
ASSUME RisksAssumption == "ok" \in Risks /\ Risks \subseteq {"ok", "breached", "corrupt"}
ASSUME RequestsAssumption ==
    Requests \subseteq {"freeze", "halt", "panic", "recover", "trigger", "macro", "rollback"}
ASSUME BoundsAssumption == MaxRequests \in Nat /\ MaxCrashes \in Nat

VARIABLES
    control,   \* kv control_state
    log,       \* control_events that carry intent: state_change and state_hold
    opHold,    \* kv macro_guard_operator_hold
    status,    \* kv supervisor_status
    panic,     \* kv panic_requested: the hold's event id, 0 when none is pending
    macroKv,   \* kv macro_guard_froze and macro_guard_freeze_event_id
    fence,     \* the exclusive file lock, and the transition it is writing
    sup,       \* the holder of the Supervisor's pass lock and its locals
    req,       \* the owner recovery request admitted and not started
    macro,     \* MacroGuard's thread
    drain,     \* the kernel's panic drain
    market,    \* the market the running kernel was booted on
    risk,      \* Risk's durable verdict, as a fresh check would read it
    pending,   \* an entry or partial-exit intent is unresolved
    crashes,   \* crashes so far
    asked,     \* requests and changes from outside so far
    permit,    \* history: the admission watermark of the last owner recovery let in
    setter     \* history: the process that last wrote control

kvVars   == <<control, log, opHold>>
worldVars == <<market, risk, pending, crashes>>
envVars  == <<worldVars, asked>>
histVars == <<permit, setter>>
vars == <<kvVars, status, panic, macroKv, fence, sup, req, macro, drain,
          envVars, histVars>>

States   == {"ACTIVE", "FROZEN", "HALTED", "RECOVERY"}
Actors   == {"owner", "supervisor", "risk_engine", "macro_guard"}
Procs    == {"owner", "drain", "sup", "risk", "macro"}

VALID_TRANSITIONS ==
    [ACTIVE   |-> {"FROZEN", "HALTED"},
     FROZEN   |-> {"ACTIVE", "HALTED", "RECOVERY"},
     HALTED   |-> {"FROZEN", "ACTIVE", "RECOVERY"},
     RECOVERY |-> {"FROZEN", "ACTIVE", "HALTED"}]

\* The id of the latest intent event; 0 when there is none.
\* Mutant: the id read before the event is inserted.
watermark_OffByOne == Len(log) - 1
watermark == Len(log)

\* The kernel starts every other thread once its boot pass is over.
Booted == sup.op # "boot"
Ask == asked < MaxRequests /\ asked' = asked + 1

NoStatus == [owned |-> FALSE, cid |-> 0, needs |-> FALSE, since |-> 0, safe |-> FALSE]
Free     == [by |-> "none", actor |-> "owner", new |-> "ACTIVE", stage |-> "free"]
NoReq    == [admitted |-> 0, unhalt |-> FALSE, live |-> FALSE]
IdleSup  == [pc |-> "idle", op |-> "none", st |-> "ACTIVE", prior |-> NoStatus,
             owned |-> FALSE, needs |-> FALSE, since |-> 0, safe |-> FALSE,
             proved |-> FALSE, risk |-> FALSE, id |-> 0, from |-> "ACTIVE"]
BootSup(m) == IF m = "futures" THEN [IdleSup EXCEPT !.pc = "read", !.op = "boot"]
                               ELSE IdleSup

Init ==
    /\ control = "ACTIVE"
    /\ log = <<>>
    /\ opHold = FALSE
    /\ status = NoStatus
    /\ panic = 0
    /\ macroKv = [froze |-> FALSE, eid |-> 0]
    /\ fence = Free
    /\ market \in Markets
    /\ sup = BootSup(market)
    /\ req = NoReq
    /\ macro = [pc |-> "idle", id |-> 0]
    /\ drain = [pc |-> "idle", raw |-> 0]
    /\ risk = "ok"
    /\ pending = FALSE
    /\ crashes = 0
    /\ asked = 0
    /\ permit = 0
    /\ setter = "none"

-----------------------------------------------------------------------------
(* The fence and the transition written under it.                           *)

\* What a compare-and-set finds: the state, then the watermark.  A crash between
\* the two writes of a transition leaves a state no watermark speaks for.
\* Mutant: the state compare is dropped.
Expected_NoCompare(st) == TRUE
Expected(st) == control = st

\* The caller has the fence and passed its compare: the operator-hold flag is
\* written, then the state and its intent event.  A state already in force is
\* reasserted by its event alone; only the owner's reassertion is an intent.
SetFenced(by, actor, new, kind) ==
    /\ fence = Free
    /\ opHold' = (opHold \/ (new = "FROZEN" /\ actor # "macro_guard"))
    /\ fence' = [by |-> by, actor |-> actor, new |-> new,
                 stage |-> IF new # control THEN kind
                           ELSE IF kind = "panic" THEN "panicEvent" ELSE "event"]
    /\ UNCHANGED <<control, log>>

\* kv control_state, its own transaction.
PersistState ==
    /\ fence.stage \in {"set", "panic"}
    /\ control' = fence.new
    /\ setter' = fence.by
    /\ fence' = [fence EXCEPT !.stage = IF @ = "panic" THEN "panicEvent" ELSE "event"]
    /\ UNCHANGED <<log, opHold, status, panic, macroKv, sup, req, macro, drain,
                   envVars, permit>>

\* The intent event, the next transaction; a plain set releases the fence.
PersistEvent ==
    /\ fence.stage \in {"event", "panicEvent"}
    /\ log' = Append(log, [to |-> fence.new, actor |-> fence.actor, by |-> fence.by])
    /\ fence' = IF fence.stage = "event" THEN Free
                ELSE [fence EXCEPT !.stage = "panicKv"]
    /\ UNCHANGED <<control, opHold, status, panic, macroKv, sup, req, macro, drain,
                   envVars, histVars>>

\* A panic also stores its hold's event id before it leaves the fence.
PersistPanic ==
    /\ fence.stage = "panicKv"
    /\ panic' = watermark
    /\ fence' = Free
    /\ UNCHANGED <<kvVars, status, macroKv, sup, req, macro, drain, envVars, histVars>>

\* ACTIVE is published in one transaction, on the connection the risk proof holds.
PublishActive(by, actor) ==
    /\ fence = Free
    /\ control' = "ACTIVE"
    /\ setter' = by
    /\ opHold' = IF actor = "macro_guard" THEN opHold ELSE FALSE
    /\ log' = Append(log, [to |-> "ACTIVE", actor |-> actor, by |-> by])

\* Risk's held proof and the empty intent ledgers, re-verified across the CAS.
\* Mutant: the ledgers are proved empty but not re-read under the transaction.
RiskHeld_LedgersNotRead == risk = "ok"
RiskHeld == risk = "ok" /\ ~pending

-----------------------------------------------------------------------------
(* The owner's fast controls, the risk engine and the world.                *)

\* freeze and halt; a same-state one is still recorded as a hold.
OwnerContain(new) ==
    /\ Ask /\ Booted
    /\ (IF new = "FROZEN" THEN "freeze" ELSE "halt") \in Requests
    /\ SetFenced("owner", "owner", new, "set")
    /\ UNCHANGED <<status, panic, macroKv, sup, req, macro, drain, worldVars, histVars>>

\* panic contains at once and never de-escalates HALTED.
OwnerPanic ==
    /\ Ask /\ Booted
    /\ "panic" \in Requests
    /\ SetFenced("owner", "owner", IF control = "HALTED" THEN "HALTED" ELSE "FROZEN",
                 "panic")
    /\ UNCHANGED <<status, panic, macroKv, sup, req, macro, drain, worldVars, histVars>>

\* The owner interface reserves a resume or unhalt, bound to the watermark now.
AdmitRecovery(unhalt) ==
    /\ Ask /\ Booted
    /\ "recover" \in Requests
    /\ ~req.live
    /\ req' = [admitted |-> watermark, unhalt |-> unhalt, live |-> TRUE]
    /\ UNCHANGED <<kvVars, status, panic, macroKv, fence, sup, macro, drain, worldVars,
                   histVars>>

\* The drawdown halt (or an entry that broke a Risk rule), and the containment of
\* an unreadable risk baseline.
RiskStep ==
    /\ Booted
    /\ \/ /\ risk = "breached"
          /\ control # "HALTED"
          /\ SetFenced("risk", "risk_engine", "HALTED", "set")
       \/ /\ risk = "corrupt"
          /\ control = "ACTIVE"
          /\ SetFenced("risk", "risk_engine", "FROZEN", "set")
    /\ UNCHANGED <<status, panic, macroKv, sup, req, macro, drain, envVars, histVars>>

World ==
    /\ Ask
    /\ \/ /\ \E r \in Risks \ {risk} : risk' = r
          /\ UNCHANGED pending
       \/ /\ pending' = ~pending
          /\ UNCHANGED risk
    /\ UNCHANGED <<kvVars, status, panic, macroKv, fence, sup, req, macro, drain,
                   market, crashes, histVars>>

\* The process dies: locks and locals are gone, the journal stays.  The next
\* boot reads the stored market, and on futures starts with a recovery pass.
Crash ==
    /\ crashes < MaxCrashes
    /\ crashes' = crashes + 1
    /\ fence' = Free
    /\ market' \in Markets
    /\ sup' = BootSup(market')
    /\ req' = NoReq
    /\ macro' = [pc |-> "idle", id |-> 0]
    /\ drain' = [pc |-> "idle", raw |-> 0]
    /\ UNCHANGED <<kvVars, status, panic, macroKv, risk, pending, asked, histVars>>

-----------------------------------------------------------------------------
(* The Supervisor's pass.  sup.pc # "idle" is the pass lock being held.     *)

supOnly == <<panic, macroKv, req, macro, drain, envVars>>

\* Mutant: ownership without its identity, any recorded containment counts.
Owned_AnyIntent(prior, st) == prior.owned /\ st \in {"FROZEN", "RECOVERY"}
Owned(prior, st) ==
    /\ prior.owned
    /\ st \in {"FROZEN", "RECOVERY"}
    /\ prior.cid # 0
    /\ prior.cid = watermark

\* The owner resumed to ACTIVE after the evidence that asked for the owner.
OwnerAck(prior, st) ==
    /\ prior.needs
    /\ st = "ACTIVE"
    /\ \E i \in (prior.since + 1)..Len(log) : log[i].to = "ACTIVE" /\ log[i].actor = "owner"

PassFree == sup.pc = "idle" /\ fence.by # "sup"

StartCadence ==
    /\ PassFree
    /\ control = "RECOVERY"
    /\ sup' = [IdleSup EXCEPT !.pc = "read", !.op = "cadence"]
    /\ UNCHANGED <<kvVars, status, panic, macroKv, fence, req, macro, drain, envVars,
                   histVars>>

\* An unresolved intent under ACTIVE, or a safety-health entry block.
Trigger ==
    /\ Ask
    /\ "trigger" \in Requests
    /\ PassFree
    /\ sup' = [IdleSup EXCEPT !.pc = "read", !.op = "trigger"]
    /\ UNCHANGED <<kvVars, status, panic, macroKv, fence, req, macro, drain, worldVars,
                   histVars>>

ReadStatus ==
    /\ sup.pc = "read"
    /\ LET prior == IF OwnerAck(status, control) THEN NoStatus ELSE status IN
       /\ status' = prior
       /\ sup' = [sup EXCEPT !.prior = prior, !.st = control,
                             !.pc = IF control = "ACTIVE" \/ sup.op = "trigger"
                                    THEN "contain" ELSE "enter"]
    /\ UNCHANGED <<kvVars, fence, supOnly, histVars>>

\* ACTIVE -> FROZEN by compare-and-set.
Contain ==
    /\ sup.pc = "contain"
    /\ IF Expected("ACTIVE")
       THEN /\ SetFenced("sup", "supervisor", "FROZEN", "set")
            /\ sup' = [sup EXCEPT !.pc = "containSave", !.id = watermark + 1]
       ELSE /\ fence = Free
            /\ sup' = [sup EXCEPT !.pc = IF sup.op = "trigger" THEN "detect" ELSE "enter",
                                  !.st = control]
            /\ UNCHANGED <<kvVars, fence>>
    /\ UNCHANGED <<status, supOnly, histVars>>

\* The containment is ours only once its exact event id is durable.
ContainSave ==
    /\ sup.pc = "containSave"
    /\ fence.by # "sup"
    /\ status' = [sup.prior EXCEPT !.owned = TRUE, !.cid = sup.id, !.safe = FALSE]
    /\ sup' = [sup EXCEPT !.pc = "enter", !.prior = status',
                          !.st = IF sup.op = "trigger" THEN "FROZEN" ELSE control]
    /\ UNCHANGED <<kvVars, fence, supOnly, histVars>>

\* FROZEN -> RECOVERY by compare-and-set on the containment's event id.
Enter ==
    /\ sup.pc = "enter"
    /\ LET next == IF sup.op = "trigger" THEN "detect" ELSE "examine" IN
       IF sup.st = "FROZEN" /\ Owned(sup.prior, "FROZEN") /\ Expected("FROZEN")
       THEN /\ SetFenced("sup", "supervisor", "RECOVERY", "set")
            /\ sup' = [sup EXCEPT !.pc = next, !.st = "RECOVERY",
                                  !.prior.cid = watermark + 1]
       ELSE /\ sup' = [sup EXCEPT !.pc = next]
            /\ UNCHANGED <<kvVars, fence>>
    /\ UNCHANGED <<status, supOnly, histVars>>

\* The end of a trigger: save what is contained and whether it is ours.
Detect ==
    /\ sup.pc = "detect"
    /\ fence.by # "sup"
    /\ LET own == Owned(sup.prior, control) IN
       status' = [sup.prior EXCEPT !.owned = own, !.cid = IF own THEN @ ELSE 0,
                                   !.safe = FALSE]
    /\ sup' = IdleSup
    /\ UNCHANGED <<kvVars, fence, supOnly, histVars>>

\* Ownership as it is before the venue work begins.
Examine ==
    /\ sup.pc = "examine"
    /\ fence.by # "sup"
    /\ sup' = [sup EXCEPT !.pc = "verify", !.owned = Owned(sup.prior, sup.st)]
    /\ UNCHANGED <<kvVars, status, fence, supOnly, histVars>>

\* Mutant: a fault recorded by an earlier pass is forgotten by a clean one.
NeedsOwner_ThisPassOnly(verdict) == verdict = "serious"
NeedsOwner(verdict) == verdict = "serious" \/ sup.prior.needs

NeedsOwnerSince(verdict) ==
    IF ~NeedsOwner(verdict) THEN 0
    ELSE IF sup.prior.needs THEN sup.prior.since ELSE watermark

\* The control state is read again after the venue work; a change loses the race.
Unraced   == control = sup.st
StillOurs == sup.owned /\ Unraced
MayProve(verdict) ==
    /\ verdict = "safe" /\ ~NeedsOwner(verdict)
    /\ StillOurs /\ sup.st = "RECOVERY"
    /\ risk = "ok"

\* Ledgers, reconciliation and protection say safe, not yet, or owner needed.
Verify(verdict) ==
    /\ sup.pc = "verify"
    /\ verdict = "safe" => ~pending
    /\ sup.st = "HALTED" => verdict = "minor"
    /\ sup' = [sup EXCEPT !.owned = StillOurs, !.needs = NeedsOwner(verdict),
                          !.since = NeedsOwnerSince(verdict),
                          !.proved = verdict = "safe" /\ Unraced,
                          !.pc = IF MayProve(verdict) THEN "prove" ELSE "finish"]
    /\ UNCHANGED <<kvVars, status, fence, supOnly, histVars>>

\* The complete proof is durable before the activation is tried.
Prove ==
    /\ sup.pc = "prove"
    /\ status' = [owned |-> TRUE, cid |-> sup.prior.cid, needs |-> FALSE, since |-> 0,
                  safe |-> TRUE]
    /\ sup' = [sup EXCEPT !.pc = "activate"]
    /\ UNCHANGED <<kvVars, fence, supOnly, histVars>>

\* Mutant: a pass whose proof was refused waits for Risk with the lock held.
Activate_WaitsForRisk ==
    /\ sup.pc = "activate"
    /\ fence = Free
    /\ RiskHeld
    /\ sup' = [sup EXCEPT !.pc = "finish", !.owned = FALSE, !.safe = TRUE]
    /\ PublishActive("sup", "supervisor")
    /\ UNCHANGED <<status, fence, supOnly, permit>>

\* RECOVERY -> ACTIVE: the state, the watermark, Risk and the ledgers, one CAS.
Activate ==
    /\ sup.pc = "activate"
    /\ fence = Free
    /\ LET current == Expected("RECOVERY") /\ watermark = sup.prior.cid IN
       /\ sup' = [sup EXCEPT !.pc = "finish", !.owned = current /\ ~RiskHeld,
                             !.safe = current /\ RiskHeld]
       /\ IF current /\ RiskHeld
          THEN PublishActive("sup", "supervisor") /\ UNCHANGED <<fence, permit>>
          ELSE UNCHANGED <<kvVars, fence, histVars>>
    /\ UNCHANGED <<status, supOnly>>

\* The pass's result is saved; who asked for the pass goes on.
Finish ==
    /\ sup.pc = "finish"
    /\ status' = [owned |-> sup.owned, cid |-> IF sup.owned THEN sup.prior.cid ELSE 0,
                  needs |-> sup.needs, since |-> sup.since, safe |-> sup.safe]
    /\ sup' = IF sup.op = "rollback" THEN [sup EXCEPT !.pc = "rbFinal"] ELSE IdleSup
    /\ macro' = IF sup.op = "macro" THEN [macro EXCEPT !.pc = "disown"] ELSE macro
    /\ UNCHANGED <<kvVars, panic, macroKv, fence, req, drain, envVars, histVars>>

-----------------------------------------------------------------------------
(* Requests that run a pass: owner recovery, MacroGuard's release, rollback. *)

\* The admitted request gets the pass lock; an unhalt asks Risk first.
StartRecovery ==
    /\ PassFree
    /\ req.live
    /\ sup' = [IdleSup EXCEPT !.pc = IF market = "futures" THEN "intake" ELSE "release",
                              !.op = "recover", !.id = watermark,
                              !.risk = risk = "ok" /\ req.unhalt /\ control = "HALTED"]
    /\ UNCHANGED <<kvVars, status, panic, macroKv, fence, req, macro, drain, envVars,
                   histVars>>

\* Mutant: the wait for the pass lock has no timeout.
RefuseBusy_WaitsForever == FALSE /\ UNCHANGED vars
\* The request gave up waiting for the pass lock.
RefuseBusy ==
    /\ req.live
    /\ sup.pc # "idle" /\ sup.op # "recover"
    /\ req' = NoReq
    /\ UNCHANGED <<kvVars, status, panic, macroKv, fence, sup, macro, drain, envVars,
                   histVars>>

\* Mutant: an already ACTIVE system is not told apart from a contained one.
IntakeRefused_ActiveNotAsked ==
    \/ watermark # req.admitted
    \/ control = "HALTED" /\ ~(req.unhalt /\ sup.risk)
IntakeRefused ==
    \/ watermark # req.admitted
    \/ control = "ACTIVE"
    \/ control = "HALTED" /\ ~(req.unhalt /\ sup.risk)

\* One fence hold: superseded, already ACTIVE and HALTED requests stop here;
\* FROZEN or HALTED becomes RECOVERY; RECOVERY is taken over as it is.
Intake ==
    /\ sup.pc = "intake"
    /\ fence = Free
    /\ req' = NoReq
    /\ IF IntakeRefused
       THEN /\ sup' = IdleSup
            /\ UNCHANGED <<kvVars, fence, permit>>
       ELSE /\ permit' = req.admitted
            /\ IF control = "RECOVERY"
               THEN /\ sup' = [sup EXCEPT !.pc = "granted", !.id = watermark]
                    /\ UNCHANGED <<kvVars, fence>>
               ELSE /\ SetFenced("sup", "owner", "RECOVERY", "set")
                    /\ sup' = [sup EXCEPT !.pc = "granted", !.id = watermark + 1]
    /\ UNCHANGED <<status, panic, macroKv, macro, drain, envVars, setter>>

\* Ownership of the granted recheck is durable before its pass starts.
Granted ==
    /\ sup.pc = "granted"
    /\ fence.by # "sup"
    /\ status' = [NoStatus EXCEPT !.owned = TRUE, !.cid = sup.id]
    /\ sup' = [sup EXCEPT !.pc = "read"]
    /\ UNCHANGED <<kvVars, fence, supOnly, histVars>>

\* Without venue recovery (spot) the watermark was read in a fence of its own,
\* Risk after it; one guarded compare-and-set decides.
Releasable == control # "ACTIVE" /\ (control = "HALTED" => req.unhalt)
ReadRelease ==
    /\ sup.pc = "release"
    /\ fence = Free
    /\ \/ /\ watermark # req.admitted
          /\ req' = NoReq
          /\ sup' = IdleSup
       \/ /\ watermark = req.admitted
          /\ sup' = [sup EXCEPT !.pc = "releaseCas", !.id = watermark,
                                !.risk = risk = "ok" /\ Releasable]
          /\ UNCHANGED req
    /\ UNCHANGED <<kvVars, status, panic, macroKv, fence, macro, drain, envVars, histVars>>

ReleaseCas ==
    /\ sup.pc = "releaseCas"
    /\ fence = Free
    /\ IF Releasable /\ watermark = sup.id /\ sup.risk /\ RiskHeld
       THEN PublishActive("sup", "owner") /\ permit' = req.admitted
       ELSE UNCHANGED <<kvVars, histVars>>
    /\ req' = NoReq
    /\ sup' = IdleSup
    /\ UNCHANGED <<status, fence, panic, macroKv, macro, drain, envVars>>

\* A macro event freezes ACTIVE; ownership is two further kv writes.
MacroFreeze ==
    /\ Ask /\ Booted
    /\ "macro" \in Requests
    /\ macro.pc = "idle"
    /\ control = "ACTIVE"
    /\ SetFenced("macro", "macro_guard", "FROZEN", "set")
    /\ macro' = [pc |-> "froze", id |-> watermark + 1]
    /\ UNCHANGED <<status, panic, macroKv, sup, req, drain, worldVars, histVars>>

MacroRecord ==
    /\ fence.by # "macro"
    /\ \/ /\ macro.pc = "froze"
          /\ macroKv' = [macroKv EXCEPT !.froze = TRUE]
          /\ macro' = [macro EXCEPT !.pc = "eid"]
       \/ /\ macro.pc = "eid"
          /\ macroKv' = [macroKv EXCEPT !.eid = macro.id]
          /\ macro' = [pc |-> "idle", id |-> 0]
       \/ /\ macro.pc = "disown"
          /\ macroKv' = [macroKv EXCEPT !.froze = FALSE]
          /\ macro' = [macro EXCEPT !.pc = "disownEid"]
       \/ /\ macro.pc = "disownEid"
          /\ macroKv' = [macroKv EXCEPT !.eid = 0]
          /\ macro' = [pc |-> "idle", id |-> 0]
    /\ UNCHANGED <<kvVars, status, panic, fence, sup, req, drain, envVars, histVars>>

\* The exact freeze MacroGuard owns: the stored id, else its own latest event.
MacroFreezeEventId ==
    IF macroKv.eid # 0 THEN macroKv.eid
    ELSE IF log # <<>> /\ log[watermark] = [to |-> "FROZEN", actor |-> "macro_guard",
                                            by |-> "macro"]
         THEN watermark ELSE 0

\* The event is over: ask for release, unless the pass lock is busy.
MacroRelease ==
    /\ Booted
    /\ macro.pc = "idle"
    /\ macroKv.froze /\ ~opHold
    /\ control = "FROZEN"
    /\ IF MacroFreezeEventId = 0
       THEN macro' = [macro EXCEPT !.pc = "disown"] /\ UNCHANGED sup
       ELSE /\ PassFree
            /\ sup' = [IdleSup EXCEPT !.pc = "macroIntake", !.op = "macro",
                                      !.id = MacroFreezeEventId]
            /\ macro' = [macro EXCEPT !.pc = "wait"]
    /\ UNCHANGED <<kvVars, status, panic, macroKv, fence, req, drain, envVars, histVars>>

\* Mutant: the state alone, whoever froze it since.
StillOwnHold_StateOnly == Expected("FROZEN")
\* The hold this pass was started for is still the latest intent.
StillOwnHold == Expected("FROZEN") /\ watermark = sup.id

\* Bound to the freeze: a newer intent ends it, a Risk refusal keeps it.
MacroIntake ==
    /\ sup.pc = "macroIntake"
    /\ fence = Free
    /\ IF StillOwnHold
       THEN IF market = "futures" /\ risk = "ok"
            THEN /\ SetFenced("sup", "macro_guard", "RECOVERY", "set")
                 /\ sup' = [sup EXCEPT !.pc = "granted", !.id = watermark + 1]
                 /\ UNCHANGED <<macro, setter>>
            ELSE /\ sup' = IdleSup
                 /\ IF market = "spot" /\ RiskHeld
                    THEN /\ PublishActive("sup", "macro_guard")
                         /\ macro' = [macro EXCEPT !.pc = "disown"]
                         /\ UNCHANGED fence
                    ELSE /\ macro' = [pc |-> "idle", id |-> 0]
                         /\ UNCHANGED <<kvVars, fence, setter>>
       ELSE /\ sup' = IdleSup
            /\ macro' = [macro EXCEPT !.pc = "disown"]
            /\ UNCHANGED <<kvVars, fence, setter>>
    /\ UNCHANGED <<status, panic, macroKv, req, drain, envVars, permit>>

\* Rollback preparation contains with an owner hold of its own.
RollbackIntake ==
    /\ Ask
    /\ "rollback" \in Requests
    /\ PassFree
    /\ control # "HALTED"
    /\ SetFenced("sup", "owner", "FROZEN", "set")
    /\ sup' = [IdleSup EXCEPT !.pc = "rbRisk", !.op = "rollback", !.id = watermark + 1,
                              !.from = control]
    /\ UNCHANGED <<status, panic, macroKv, req, macro, drain, worldVars, histVars>>

RollbackBaseline ==
    /\ sup.pc = "rbRisk"
    /\ fence.by # "sup"
    /\ sup' = [sup EXCEPT !.risk = risk # "corrupt",
                          !.pc = IF risk # "corrupt" THEN "read" ELSE "rbFinal"]
    /\ UNCHANGED <<kvVars, status, fence, supOnly, histVars>>

\* READY under a final hold, or BLOCKED: only its own hold goes back to RECOVERY.
RollbackFinal ==
    /\ sup.pc = "rbFinal"
    /\ fence = Free
    /\ LET own   == StillOwnHold
           ready == own /\ sup.proved /\ sup.risk /\ risk # "corrupt"
       IN \/ /\ ready
             /\ log' = Append(log, [to |-> "FROZEN", actor |-> "owner", by |-> "sup"])
             /\ opHold' = TRUE
             /\ UNCHANGED <<control, fence>>
          \/ /\ own /\ ~ready /\ sup.from # "FROZEN"
             /\ SetFenced("sup", "owner", "RECOVERY", "set")
          \/ /\ ~own \/ (~ready /\ sup.from = "FROZEN")
             /\ UNCHANGED <<kvVars, fence>>
    /\ sup' = IdleSup
    /\ UNCHANGED <<status, supOnly, histVars>>

-----------------------------------------------------------------------------
(* The kernel's panic drain.                                                *)

DrainStart ==
    /\ Booted
    /\ drain.pc = "idle"
    /\ panic # 0
    /\ drain' = [pc |-> "flatten", raw |-> panic]
    /\ UNCHANGED <<kvVars, status, panic, macroKv, fence, sup, req, macro, envVars, histVars>>

\* Compare-and-clear: the request is still the one the flatten was started for.
\* Mutant: whatever request is pending is cleared.
SameRequest_AnyPending == panic # 0
SameRequest == panic = drain.raw

\* Flattening ends; a complete one clears the request it was started for.
DrainFlattened(complete) ==
    /\ drain.pc = "flatten"
    /\ panic' = IF complete /\ SameRequest THEN 0 ELSE panic
    /\ drain' = [drain EXCEPT !.pc = "settle"]
    /\ UNCHANGED <<kvVars, status, macroKv, fence, sup, req, macro, envVars, histVars>>

NewerOwnerIntent(id) == \E i \in (id + 1)..Len(log) : log[i].actor = "owner"

DrainSettle ==
    /\ drain.pc = "settle"
    /\ fence = Free
    /\ drain' = [pc |-> "idle", raw |-> 0]
    /\ IF NewerOwnerIntent(drain.raw) \/ control = "HALTED"
       THEN UNCHANGED <<kvVars, fence>>
       ELSE SetFenced("drain", "owner", "FROZEN", "set")
    /\ UNCHANGED <<status, panic, macroKv, sup, req, macro, envVars, histVars>>

-----------------------------------------------------------------------------
SupStep ==
    \/ ReadStatus \/ Contain \/ ContainSave \/ Enter \/ Detect \/ Examine
    \/ \E v \in {"safe", "minor", "serious"} : Verify(v)
    \/ Prove \/ Activate \/ Finish
    \/ Intake \/ Granted \/ ReadRelease \/ ReleaseCas \/ MacroIntake
    \/ RollbackBaseline \/ RollbackFinal

FenceStep == PersistState \/ PersistEvent \/ PersistPanic

DrainStep == DrainStart \/ (\E c \in BOOLEAN : DrainFlattened(c)) \/ DrainSettle

Next ==
    \/ FenceStep \/ SupStep \/ DrainStep
    \/ StartCadence \/ Trigger \/ StartRecovery \/ RefuseBusy
    \/ \E new \in {"FROZEN", "HALTED"} : OwnerContain(new)
    \/ OwnerPanic
    \/ \E unhalt \in BOOLEAN : AdmitRecovery(unhalt)
    \/ RollbackIntake
    \/ RiskStep \/ World
    \/ MacroFreeze \/ MacroRecord \/ MacroRelease
    \/ Crash

Spec == Init /\ [][Next]_vars

\* Threads keep running, the fence is released in a finally block, and a request
\* waits for the pass lock only so long.  Nobody outside is owed anything; a
\* flatten that is retried is assumed to complete in the end.
FairSpec ==
    /\ Spec
    /\ WF_vars(FenceStep) /\ WF_vars(SupStep)
    /\ WF_vars(StartRecovery \/ RefuseBusy)
    /\ WF_vars(DrainStart) /\ WF_vars(DrainSettle)
    /\ WF_vars(\E c \in BOOLEAN : DrainFlattened(c))
    /\ SF_vars(DrainFlattened(TRUE))

-----------------------------------------------------------------------------
(* Properties.                                                              *)

Intents  == [to : States, actor : Actors, by : Procs]
Statuses == [owned : BOOLEAN, cid : Nat, needs : BOOLEAN, since : Nat, safe : BOOLEAN]
Fences   == [by : Procs \cup {"none"}, actor : Actors, new : States,
             stage : {"free", "set", "panic", "event", "panicEvent", "panicKv"}]
SupPcs   == {"idle", "read", "contain", "containSave", "enter", "detect", "examine",
             "verify", "prove", "activate", "finish", "intake", "granted", "release",
             "releaseCas", "macroIntake", "rbRisk", "rbFinal"}
SupOps   == {"none", "boot", "cadence", "trigger", "recover", "macro", "rollback"}
Sups     == [pc : SupPcs, op : SupOps, st : States, prior : Statuses, owned : BOOLEAN,
             needs : BOOLEAN, since : Nat, safe : BOOLEAN, proved : BOOLEAN,
             risk : BOOLEAN, id : Nat, from : States]
Reqs     == [admitted : Nat, unhalt : BOOLEAN, live : BOOLEAN]
MacroKvs == [froze : BOOLEAN, eid : Nat]
Macros   == [pc : {"idle", "froze", "eid", "disown", "disownEid", "wait"}, id : Nat]
Drains   == [pc : {"idle", "flatten", "settle"}, raw : Nat]

\* Every journal key, lock holder and local keeps to its values.
TypeOK ==
    /\ control \in States /\ log \in Seq(Intents) /\ opHold \in BOOLEAN
    /\ status \in Statuses
    /\ panic \in Nat
    /\ macroKv \in MacroKvs
    /\ fence \in Fences
    /\ sup \in Sups
    /\ req \in Reqs
    /\ macro \in Macros
    /\ drain \in Drains
    /\ market \in Markets /\ risk \in Risks /\ pending \in BOOLEAN
    /\ crashes \in Nat /\ asked \in Nat
    /\ permit \in Nat /\ setter \in Procs \cup {"none"}

\* An owner freeze, halt or panic that is recorded stands until an owner recovery
\* admitted after it is let in: no older pass, release or request, and no
\* interleaving or restart, moves the system to RECOVERY or ACTIVE before that.
OwnerHold(i) == log[i].actor = "owner" /\ log[i].by \in {"owner", "drain"}
OwnerHoldStands ==
    \A i \in 1..Len(log) : OwnerHold(i) /\ permit < i => control \in {"FROZEN", "HALTED"}

\* HALTED is left by the owner alone, whatever was in flight when it was set and
\* whichever write of it a crash lost.
TransitionActor == IF log' # log THEN log'[Len(log')].actor ELSE fence.actor
HaltedLeftByOwner ==
    [][control = "HALTED" /\ control' # "HALTED" => TransitionActor = "owner"]_vars

\* MacroGuard releases its own freeze and nothing else: no other intent came
\* between its FROZEN event and the release it asked for.
MacroReleasesOwnFreeze ==
    \A i \in 1..Len(log) :
        log[i].actor = "macro_guard" /\ log[i].to # "FROZEN" =>
            i > 1 /\ log[i-1].actor = "macro_guard" /\ log[i-1].to = "FROZEN"

\* Whoever asks, the control state moves along the edges of the transition table
\* (an illegal one raises in the middle of the caller's handler).
TransitionsLegal ==
    [][control' # control => control' \in VALID_TRANSITIONS[control]]_vars

\* The Supervisor publishes ACTIVE only on a complete proof that is already
\* durable, for the containment that is still the latest intent, while Risk
\* allows it and nothing is unresolved.
ActivationProved ==
    [][control # "ACTIVE" /\ control' = "ACTIVE" /\ market = "futures" =>
         /\ status.safe /\ status.owned /\ status.cid = watermark
         /\ risk = "ok" /\ ~pending]_vars

\* Once the evidence says the owner is needed, no pass, trigger, crash or restart
\* forgets it: only a granted release or an acknowledged owner resume clears it.
NeedsOwnerDurable ==
    [][status.needs /\ ~status'.needs =>
         sup.op \in {"recover", "macro"} \/ OwnerAck(status, control)]_vars

\* What the Supervisor's docstring and the boot test say of an owner's FROZEN:
\* the Supervisor never takes it to RECOVERY on its own.
OwnerFrozenNeverAppropriated ==
    [][control = "FROZEN" /\ control' = "RECOVERY" /\ setter \in {"owner", "drain"} =>
         fence.actor = "owner"]_vars

\* What the design says of a serious fault: it stays blocked until the owner acts.
SeriousFaultNeedsOwner ==
    [][status.needs /\ ~status'.needs =>
         sup.op = "recover" \/ OwnerAck(status, control)]_vars

\* A pass that took the pass lock gives it back.
PassTerminates == sup.pc # "idle" ~> sup.pc = "idle"

\* An admitted owner recovery is answered.
RecoveryAnswered == req.live ~> ~req.live

\* A pending panic is flattened by a drain that started for it, or replaced by a
\* newer panic: a flatten already running never answers for it.
PanicServed ==
    \A n \in 1..(3 * MaxRequests + 3) :
        panic = n ~> panic > n \/ (drain.pc = "flatten" /\ drain.raw = n)
=============================================================================
