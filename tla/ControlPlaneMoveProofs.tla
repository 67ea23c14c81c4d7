-------------------- MODULE ControlPlaneMoveProofs --------------------
(***************************************************************************)
(* Where the control state may go, and on whose word: along the transition *)
(* table, out of HALTED by the owner alone, to ACTIVE on a current proof,  *)
(* by MacroGuard only from its own freeze, and never past a recorded need  *)
(* for the owner. Every step leaves state and log alone, takes the fence   *)
(* for a transition, writes half of one, or publishes ACTIVE in one piece; *)
(* the proofs go over those few forms.                                     *)
(***************************************************************************)
EXTENDS ControlPlaneProofs

\* A transition that is being written is legal from the state it finds, and leaves
\* HALTED only in the owner's name.
MoveInv ==
    /\ fence.stage \in {"set", "panic"} =>
         /\ fence.new # control /\ fence.new # "ACTIVE"
         /\ fence.new = "RECOVERY" => control # "ACTIVE"
         /\ control = "HALTED" => fence.actor = "owner"
    /\ fence.stage \in {"panic", "panicEvent", "panicKv"} => fence.actor = "owner"

\* Event c is a freeze of MacroGuard's.
Froze(c) == c \in 1..Len(log) /\ log[c].actor = "macro_guard" /\ log[c].to = "FROZEN"

\* The ids that MacroGuard stores and asks for release with are its own freezes, and
\* a release in its name comes right after one.
MacroOwnInv ==
    /\ fence.by = "macro" => fence.actor = "macro_guard" /\ fence.new = "FROZEN"
    /\ fence.actor = "macro_guard" => fence.new = "FROZEN" \/ Froze(Len(log))
    /\ macroKv.eid # 0 => Froze(macroKv.eid)
    /\ macro.pc \in {"froze", "eid"} =>
         Froze(macro.id) \/ (macro.id = Len(log) + 1 /\ fence.by = "macro")
    /\ sup.pc = "macroIntake" => Froze(sup.id)
    /\ MacroReleasesOwnFreeze

\* What a pass has saved and what it knows at each of its steps.
Passing == {"contain", "containSave", "enter", "detect", "examine", "verify", "prove"}
PassInv ==
    /\ sup.pc \in Passing => status.needs = sup.prior.needs
    /\ sup.pc = "prove" => ~sup.prior.needs
    /\ sup.pc = "activate" =>
         status.safe /\ status.owned /\ status.cid = sup.prior.cid /\ ~status.needs
    /\ sup.pc = "finish" => (status.needs => sup.needs)
    /\ sup.pc = "intake" => sup.op = "recover"
    /\ sup.pc = "macroIntake" => sup.op = "macro"
    /\ sup.pc = "granted" => sup.op \in {"recover", "macro"}
    /\ sup.pc \in {"release", "releaseCas"} => market # "futures"

-----------------------------------------------------------------------------
(* The forms of a step.                                                     *)

\* The state and the log stay; a fence is dropped by a finished panic or a crash.
Rests ==
    /\ UNCHANGED <<control, log>>
    /\ fence' = fence \/ (fence' = Free /\ (fence.stage = "panicKv" \/ macro'.pc = "idle"))

\* The fence is taken for a transition that its caller may make.
Starts(by, actor, new, kind) ==
    /\ SetFenced(by, actor, new, kind)
    /\ new # "ACTIVE"
    /\ new = "RECOVERY" => control \in {"FROZEN", "HALTED"}
    /\ control = "HALTED" => actor = "owner" \/ new = "HALTED"
    /\ kind = "panic" => actor = "owner"
    /\ by = "macro" => actor = "macro_guard" /\ new = "FROZEN"
    /\ actor = "macro_guard" =>
         new = "FROZEN" \/ (sup.pc = "macroIntake" /\ watermark = sup.id)

\* ACTIVE is published by a caller that may.
Publishes(actor) ==
    /\ PublishActive("sup", actor) /\ UNCHANGED fence
    /\ control = "HALTED" => actor = "owner"
    /\ actor = "macro_guard" => sup.pc = "macroIntake" /\ watermark = sup.id

\* Rollback preparation reasserts its hold by an event alone.
Reasserts ==
    /\ fence = Free /\ UNCHANGED <<control, fence>>
    /\ log' = Append(log, [to |-> "FROZEN", actor |-> "owner", by |-> "sup"])

Form ==
    \/ Rests \/ PersistState \/ PersistEvent \/ Reasserts
    \/ \E by \in Procs, actor \in Actors, new \in States, kind \in {"set", "panic"} :
         Starts(by, actor, new, kind)
    \/ \E actor \in Actors : Publishes(actor)

\* A caller's transition is one of those.
LEMMA Started ==
  ASSUME NEW by \in Procs, NEW actor \in Actors, NEW new \in States,
         NEW kind \in {"set", "panic"}, Starts(by, actor, new, kind)
  PROVE  Form
  BY DEF Form

\* Every step has one of the forms.
LEMMA StepForm ==
  ASSUME TypeInv, [Next]_vars
  PROVE  Form
<1> USE DEF Procs, Actors, States
<1>1. CASE FenceStep
  <2>1. PersistPanic => Rests
    BY DEF PersistPanic, Rests, kvVars
  <2> QED
    BY <1>1, <2>1 DEF FenceStep, Form
<1>2. CASE DrainStep
  <2>1. CASE UNCHANGED <<control, log, fence>>
    BY <2>1 DEF Rests, Form
  <2>2. CASE SetFenced("drain", "owner", "FROZEN", "set")
    BY <2>2, Started DEF Starts
  <2> QED
    BY <1>2, <2>1, <2>2
    DEF DrainStep, DrainStart, DrainFlattened, DrainSettle, kvVars
<1>3. ASSUME NEW new \in {"FROZEN", "HALTED"}, OwnerContain(new) PROVE Form
  BY <1>3, Started DEF OwnerContain, Starts
<1>4. CASE OwnerPanic
  <2>1. PICK new \in {"FROZEN", "HALTED"} : /\ SetFenced("owner", "owner", new, "panic")
                                            /\ control = "HALTED" => new = "HALTED"
    BY <1>4 DEF OwnerPanic
  <2> QED
    BY <2>1, Started DEF Starts
<1>5. CASE RiskStep
  <2>1. PICK new \in {"FROZEN", "HALTED"} :
          /\ SetFenced("risk", "risk_engine", new, "set")
          /\ control = "HALTED" => new = "HALTED"
    BY <1>5 DEF RiskStep
  <2> QED
    BY <2>1, Started DEF Starts
<1>6. CASE MacroFreeze
  BY <1>6, Started DEF MacroFreeze, Starts
<1>7. CASE RollbackIntake
  BY <1>7, Started DEF RollbackIntake, Starts
<1>8. CASE Crash
  BY <1>8 DEF Crash, Rests, Form, kvVars
<1>9. CASE \/ StartCadence \/ Trigger \/ StartRecovery \/ RefuseBusy \/ World
           \/ MacroRecord \/ MacroRelease \/ UNCHANGED vars
           \/ \E unhalt \in BOOLEAN : AdmitRecovery(unhalt)
  BY <1>9
  DEF StartCadence, Trigger, StartRecovery, RefuseBusy, World, MacroRecord, MacroRelease,
      AdmitRecovery, vars, kvVars, Rests, Form
<1>10. CASE SupStep
  <2>1. CASE \/ ReadStatus \/ ContainSave \/ Detect \/ Examine \/ Prove \/ Finish \/ Granted
             \/ ReadRelease \/ RollbackBaseline
             \/ \E v \in {"safe", "minor", "serious"} : Verify(v)
    BY <2>1
    DEF ReadStatus, ContainSave, Detect, Examine, Prove, Finish, Granted, ReadRelease,
        RollbackBaseline, Verify, kvVars, Rests, Form
  <2>2. CASE Contain
    <3>1. CASE UNCHANGED <<control, log, fence>>
      BY <3>1 DEF Rests, Form
    <3>2. CASE Expected("ACTIVE") /\ SetFenced("sup", "supervisor", "FROZEN", "set")
      BY <3>2, Started DEF Starts, Expected
    <3> QED
      BY <2>2, <3>1, <3>2 DEF Contain, kvVars
  <2>3. CASE Enter
    <3>1. CASE UNCHANGED <<control, log, fence>>
      BY <3>1 DEF Rests, Form
    <3>2. CASE Expected("FROZEN") /\ SetFenced("sup", "supervisor", "RECOVERY", "set")
      BY <3>2, Started DEF Starts, Expected
    <3> QED
      BY <2>3, <3>1, <3>2 DEF Enter, kvVars
  <2>4. CASE Activate
    <3>1. CASE UNCHANGED <<control, log, fence>>
      BY <3>1 DEF Rests, Form
    <3>2. CASE Expected("RECOVERY") /\ PublishActive("sup", "supervisor") /\ UNCHANGED fence
      BY <3>2 DEF Publishes, Expected, Form
    <3> QED
      BY <2>4, <3>1, <3>2 DEF Activate, kvVars
  <2>5. CASE Intake
    <3>1. CASE UNCHANGED <<control, log, fence>>
      BY <3>1 DEF Rests, Form
    <3>2. CASE ~IntakeRefused /\ control # "RECOVERY"
               /\ SetFenced("sup", "owner", "RECOVERY", "set")
      BY <3>2, Started DEF Starts, IntakeRefused, TypeInv, TypeOK
    <3> QED
      BY <2>5, <3>1, <3>2 DEF Intake, kvVars
  <2>6. CASE ReleaseCas
    <3>1. CASE UNCHANGED <<control, log, fence>>
      BY <3>1 DEF Rests, Form
    <3>2. CASE PublishActive("sup", "owner") /\ UNCHANGED fence
      BY <3>2 DEF Publishes, Form
    <3> QED
      BY <2>6, <3>1, <3>2 DEF ReleaseCas, kvVars
  <2>7. CASE MacroIntake
    <3>1. CASE UNCHANGED <<control, log, fence>>
      BY <3>1 DEF Rests, Form
    <3>2. CASE StillOwnHold /\ SetFenced("sup", "macro_guard", "RECOVERY", "set")
      BY <2>7, <3>2, Started DEF Starts, StillOwnHold, Expected, MacroIntake
    <3>3. CASE StillOwnHold /\ PublishActive("sup", "macro_guard") /\ UNCHANGED fence
      BY <2>7, <3>3 DEF Publishes, StillOwnHold, Expected, MacroIntake, Form
    <3> QED
      BY <2>7, <3>1, <3>2, <3>3 DEF MacroIntake, kvVars
  <2>8. CASE RollbackFinal
    <3>1. CASE UNCHANGED <<control, log, fence>>
      BY <3>1 DEF Rests, Form
    <3>2. CASE StillOwnHold /\ SetFenced("sup", "owner", "RECOVERY", "set")
      BY <3>2, Started DEF Starts, StillOwnHold, Expected
    <3>3. CASE Reasserts
      BY <3>3 DEF Form
    <3> QED
      BY <2>8, <3>1, <3>2, <3>3 DEF RollbackFinal, Reasserts, kvVars
  <2> QED
    BY <1>10, <2>1, <2>2, <2>3, <2>4, <2>5, <2>6, <2>7, <2>8 DEF SupStep
<1> QED
  BY <1>1, <1>2, <1>3, <1>4, <1>5, <1>6, <1>7, <1>8, <1>9, <1>10 DEF Next

-----------------------------------------------------------------------------
(* The transition table and HALTED.                                         *)

\* No transition is being written at first.
LEMMA MoveInit == Init => MoveInv
  BY DEF Init, Free, MoveInv

\* Every form of a step keeps the pending transition legal.
LEMMA MoveNext == TypeInv /\ MoveInv /\ [Next]_vars => MoveInv'
<1> SUFFICES ASSUME TypeInv, MoveInv, [Next]_vars PROVE MoveInv'
  OBVIOUS
<1>1. CASE Rests
  BY <1>1 DEF Rests, MoveInv, Free
<1>2. CASE PersistState
  <2>1. /\ fence'.actor = fence.actor
        /\ fence'.stage = IF fence.stage = "panic" THEN "panicEvent" ELSE "event"
    BY <1>2 DEF PersistState, TypeInv, TypeOK, Fences
  <2> QED
    BY <1>2, <2>1 DEF PersistState, MoveInv
<1>3. CASE PersistEvent
  <2>1. fence'.stage = "free"
        \/ (fence.stage = "panicEvent" /\ fence'.stage = "panicKv" /\ fence'.actor = fence.actor)
    BY <1>3 DEF PersistEvent, TypeInv, TypeOK, Fences, Free
  <2> QED
    BY <2>1 DEF MoveInv
<1>4. CASE Reasserts
  BY <1>4 DEF Reasserts, MoveInv
<1>5. ASSUME NEW by \in Procs, NEW actor \in Actors, NEW new \in States,
             NEW kind \in {"set", "panic"}, Starts(by, actor, new, kind)
      PROVE  MoveInv'
  <2>1. /\ UNCHANGED control /\ fence'.new = new /\ fence'.actor = actor
        /\ fence'.stage \in {"set", "panic"} => new # control
        /\ fence'.stage \in {"panic", "panicEvent"} => kind = "panic"
        /\ fence'.stage # "panicKv"
    BY <1>5 DEF Starts, SetFenced
  <2> QED
    BY <1>5, <2>1 DEF Starts, MoveInv
<1>6. ASSUME NEW actor \in Actors, Publishes(actor) PROVE MoveInv'
  BY <1>6 DEF Publishes, PublishActive, Free, MoveInv
<1> QED
  BY <1>1, <1>2, <1>3, <1>4, <1>5, <1>6, StepForm DEF Form

\* Whoever asks, the control state moves along the edges of the transition table.
THEOREM TransitionsLegalCorrect == Spec => TransitionsLegal
<1> DEFINE Step == control' # control => control' \in VALID_TRANSITIONS[control]
<1>1. TypeInv /\ MoveInv /\ [Next]_vars => [Step]_vars
  <2> SUFFICES ASSUME TypeInv, MoveInv, [Next]_vars, control' # control
               PROVE  control' \in VALID_TRANSITIONS[control]
    OBVIOUS
  <2>1. control \in States /\ fence.new \in States
    BY DEF TypeInv, TypeOK, Fences
  <2>2. /\ control' \in States /\ control' # control
        /\ control' = "RECOVERY" => control # "ACTIVE"
    <3>1. CASE PersistState
      BY <2>1, <3>1 DEF PersistState, MoveInv
    <3>2. ASSUME NEW actor \in Actors, Publishes(actor)
          PROVE  control' = "ACTIVE"
      BY <3>2 DEF Publishes, PublishActive
    <3>3. Rests \/ PersistEvent \/ Reasserts => control' = control
      BY DEF Rests, PersistEvent, Reasserts
    <3>4. ASSUME NEW by \in Procs, NEW actor \in Actors, NEW new \in States,
                 NEW kind \in {"set", "panic"}, Starts(by, actor, new, kind)
          PROVE  control' = control
      BY <3>4 DEF Starts, SetFenced
    <3> QED
      BY <3>1, <3>2, <3>3, <3>4, StepForm DEF Form, States
  <2> QED
    BY <2>1, <2>2 DEF States, VALID_TRANSITIONS
<1>2. QED
  BY <1>1, TypeInit, TypeNext, MoveInit, MoveNext, PTL DEF Spec, TransitionsLegal

\* HALTED is left by the owner alone, whatever was in flight when it was set.
THEOREM HaltedLeftByOwnerCorrect == Spec => HaltedLeftByOwner
<1> DEFINE Step == control = "HALTED" /\ control' # "HALTED" => TransitionActor = "owner"
<1>1. TypeInv /\ MoveInv /\ [Next]_vars => [Step]_vars
  <2> SUFFICES ASSUME TypeInv, MoveInv, [Next]_vars, control = "HALTED", control' # "HALTED"
               PROVE  TransitionActor = "owner"
    OBVIOUS
  <2>1. CASE PersistState
    BY <2>1 DEF PersistState, MoveInv, TransitionActor
  <2>2. ASSUME NEW actor \in Actors, Publishes(actor)
        PROVE  TransitionActor = "owner"
    <3> DEFINE e == [to |-> "ACTIVE", actor |-> actor, by |-> "sup"]
    <3>1. actor = "owner" /\ log' = Append(log, e)
      BY <2>2 DEF Publishes, PublishActive
    <3>2. e \in Intents /\ e.actor = actor
      BY DEF Intents, States, Procs
    <3> HIDE DEF e
    <3>3. Len(log) \in Nat /\ Len(log') = Len(log) + 1 /\ log'[Len(log) + 1] = e
      BY <3>1, <3>2, Appended
    <3>4. log' # log /\ log'[Len(log')] = e
      BY <3>3
    <3> QED
      BY <3>1, <3>2, <3>4 DEF TransitionActor
  <2>3. Rests \/ PersistEvent \/ Reasserts => control' = control
    BY DEF Rests, PersistEvent, Reasserts
  <2>4. ASSUME NEW by \in Procs, NEW actor \in Actors, NEW new \in States,
               NEW kind \in {"set", "panic"}, Starts(by, actor, new, kind)
        PROVE  control' = control
    BY <2>4 DEF Starts, SetFenced
  <2> QED
    BY <2>1, <2>2, <2>3, <2>4, StepForm DEF Form
<1>2. QED
  BY <1>1, TypeInit, TypeNext, MoveInit, MoveNext, PTL DEF Spec, HaltedLeftByOwner

-----------------------------------------------------------------------------
(* MacroGuard's own freeze.                                                 *)

\* One step of what MacroGuard stores and of the release it waits for.
LEMMA MacroMoves ==
  ASSUME TypeInv, [Next]_vars
  PROVE  /\ \/ macroKv'.eid = macroKv.eid \/ macroKv'.eid = 0
            \/ macro.pc = "eid" /\ macroKv'.eid = macro.id /\ fence.by # "macro"
         /\ macro'.pc \in {"froze", "eid"} =>
              \/ macro.pc \in {"froze", "eid"} /\ macro'.id = macro.id
              \/ /\ SetFenced("macro", "macro_guard", "FROZEN", "set")
                 /\ macro'.id = watermark + 1
         /\ sup'.pc = "macroIntake" =>
              \/ sup.pc = "macroIntake" /\ sup'.id = sup.id
              \/ MacroFreezeEventId # 0 /\ sup'.id = MacroFreezeEventId
<1> DEFINE Kv == \/ macroKv'.eid = macroKv.eid \/ macroKv'.eid = 0
                 \/ macro.pc = "eid" /\ macroKv'.eid = macro.id /\ fence.by # "macro"
           Own == macro'.pc \in {"froze", "eid"} =>
                    \/ macro.pc \in {"froze", "eid"} /\ macro'.id = macro.id
                    \/ /\ SetFenced("macro", "macro_guard", "FROZEN", "set")
                       /\ macro'.id = watermark + 1
           Asks == sup'.pc = "macroIntake" =>
                     \/ sup.pc = "macroIntake" /\ sup'.id = sup.id
                     \/ MacroFreezeEventId # 0 /\ sup'.id = MacroFreezeEventId
<1> SUFFICES Kv /\ Own /\ Asks
  OBVIOUS
<1>1. CASE FenceStep \/ DrainStep \/ RefuseBusy \/ RiskStep \/ World \/ OwnerPanic
           \/ UNCHANGED vars
           \/ (\E new \in {"FROZEN", "HALTED"} : OwnerContain(new))
           \/ (\E unhalt \in BOOLEAN : AdmitRecovery(unhalt))
  <2>1. UNCHANGED <<macroKv, macro, sup>>
    BY <1>1
    DEF FenceStep, PersistState, PersistEvent, PersistPanic, DrainStep, DrainStart,
        DrainFlattened, DrainSettle, RefuseBusy, RiskStep, World, OwnerPanic, OwnerContain,
        AdmitRecovery, vars
  <2> QED
    BY <2>1
<1>2. CASE MacroFreeze
  <2>1. UNCHANGED <<macroKv, sup>>
    BY <1>2 DEF MacroFreeze
  <2>2. Own
    BY <1>2 DEF MacroFreeze
  <2> QED
    BY <2>1, <2>2
<1>3. CASE MacroRecord
  <2>1. UNCHANGED sup
    BY <1>3 DEF MacroRecord
  <2>2. Kv /\ Own
    BY <1>3 DEF MacroRecord, TypeInv, TypeOK, Macros, MacroKvs
  <2> QED
    BY <2>1, <2>2
<1>4. CASE MacroRelease
  <2>1. UNCHANGED macroKv /\ macro'.pc \notin {"froze", "eid"}
    BY <1>4 DEF MacroRelease, TypeInv, TypeOK, Macros
  <2>2. Asks
    BY <1>4 DEF MacroRelease, IdleSup
  <2> QED
    BY <2>1, <2>2
<1>5. CASE StartCadence \/ Trigger \/ StartRecovery \/ RollbackIntake \/ Crash
  <2>1. UNCHANGED macroKv
    BY <1>5 DEF StartCadence, Trigger, StartRecovery, RollbackIntake, Crash
  <2>2. Own
    BY <1>5 DEF StartCadence, Trigger, StartRecovery, RollbackIntake, Crash
  <2>3. sup'.pc # "macroIntake"
    <3>1. CASE Crash
      BY <3>1 DEF Crash, BootSup, IdleSup
    <3>2. CASE StartRecovery
      BY <3>2 DEF StartRecovery, IdleSup
    <3> QED
      BY <1>5, <3>1, <3>2 DEF StartCadence, Trigger, RollbackIntake, IdleSup
  <2> QED
    BY <2>1, <2>2, <2>3
<1>6. CASE SupStep
  <2>1. UNCHANGED macroKv
    BY <1>6
    DEF SupStep, ReadStatus, Contain, ContainSave, Enter, Detect, Examine, Verify, Prove,
        Activate, Finish, Intake, Granted, ReadRelease, ReleaseCas, MacroIntake,
        RollbackBaseline, RollbackFinal, supOnly
  <2>2. macro' = macro \/ macro'.pc \in {"disown", "idle"}
    BY <1>6
    DEF SupStep, ReadStatus, Contain, ContainSave, Enter, Detect, Examine, Verify, Prove,
        Activate, Finish, Intake, Granted, ReadRelease, ReleaseCas, MacroIntake,
        RollbackBaseline, RollbackFinal, supOnly, TypeInv, TypeOK, Macros
  <2>3. sup'.pc # "macroIntake"
    <3>1. IdleSup.pc # "macroIntake"
      BY DEF IdleSup
    <3>2. CASE ReadStatus \/ Contain \/ ContainSave \/ Enter \/ Examine
               \/ \E v \in {"safe", "minor", "serious"} : Verify(v)
      BY <3>2 DEF ReadStatus, Contain, ContainSave, Enter, Examine, Verify, TypeInv, TypeOK,
                  Sups
    <3>3. CASE Prove \/ Activate \/ Granted \/ RollbackBaseline
      BY <3>3 DEF Prove, Activate, Granted, RollbackBaseline, TypeInv, TypeOK, Sups
    <3>4. CASE Detect \/ Finish \/ Intake \/ ReadRelease \/ ReleaseCas \/ MacroIntake
               \/ RollbackFinal
      BY <3>1, <3>4 DEF Detect, Finish, Intake, ReadRelease, ReleaseCas, MacroIntake,
                        RollbackFinal, TypeInv, TypeOK, Sups
    <3> QED
      BY <1>6, <3>2, <3>3, <3>4 DEF SupStep
  <2> QED
    BY <2>1, <2>2, <2>3
<1> QED
  BY <1>1, <1>2, <1>3, <1>4, <1>5, <1>6 DEF Next

\* MacroGuard has frozen nothing at first.
LEMMA MacroOwnInit == Init => MacroOwnInv
<1> SUFFICES ASSUME Init PROVE MacroOwnInv
  OBVIOUS
<1>1. /\ fence.by = "none" /\ fence.actor = "owner" /\ macroKv.eid = 0 /\ macro.pc = "idle"
      /\ Len(log) = 0
  BY DEF Init, Free
<1>2. sup.pc # "macroIntake"
  BY DEF Init, BootSup, IdleSup
<1> QED
  BY <1>1, <1>2 DEF MacroOwnInv, MacroReleasesOwnFreeze

\* The freeze that MacroGuard takes for its own is one.
LEMMA OwnFreeze ==
  ASSUME TypeInv, MacroOwnInv, MacroFreezeEventId # 0
  PROVE  Froze(MacroFreezeEventId)
<1>1. CASE macroKv.eid # 0
  BY <1>1 DEF MacroFreezeEventId, MacroOwnInv
<1>2. CASE macroKv.eid = 0
  <2>1. /\ MacroFreezeEventId = Len(log) /\ log # <<>>
        /\ log[Len(log)].actor = "macro_guard" /\ log[Len(log)].to = "FROZEN"
    BY <1>2 DEF MacroFreezeEventId, watermark
  <2>2. Len(log) \in 1..Len(log)
    BY <2>1 DEF TypeInv, TypeOK
  <2> QED
    BY <2>1, <2>2 DEF Froze
<1> QED
  BY <1>1, <1>2

\* The log only grows, and a freeze in it stays one.
LEMMA FrozeKept ==
  ASSUME TypeInv, NEW e \in Intents, log' = log \/ log' = Append(log, e), NEW c, Froze(c)
  PROVE  Froze(c)'
<1>1. CASE log' = log
  BY <1>1 DEF Froze
<1>2. CASE log' = Append(log, e)
  <2>1. /\ Len(log) \in Nat /\ Len(log') = Len(log) + 1
        /\ \A i \in 1..Len(log) : log'[i] = log[i]
    BY <1>2, Appended
  <2> QED
    BY <2>1 DEF Froze
<1> QED
  BY <1>1, <1>2

\* What a step of each form adds to the log.
LEMMA FormLog ==
  ASSUME TypeInv, Form
  PROVE  \E e \in Intents : log' = log \/ log' = Append(log, e)
<1>1. CASE UNCHANGED log
  <2>1. [to |-> "FROZEN", actor |-> "owner", by |-> "sup"] \in Intents
    BY DEF Intents, States, Actors, Procs
  <2> QED
    BY <1>1, <2>1
<1>2. CASE PersistEvent
  <2>1. fence.by \in Procs /\ fence.new \in States /\ fence.actor \in Actors
    BY <1>2 DEF PersistEvent, TypeInv, TypeOK, FenceHeld, Fences
  <2>2. [to |-> fence.new, actor |-> fence.actor, by |-> fence.by] \in Intents
    BY <2>1 DEF Intents
  <2> QED
    BY <1>2, <2>2 DEF PersistEvent
<1>3. CASE Reasserts
  <2>1. [to |-> "FROZEN", actor |-> "owner", by |-> "sup"] \in Intents
    BY DEF Intents, States, Actors, Procs
  <2> QED
    BY <1>3, <2>1 DEF Reasserts
<1>4. ASSUME NEW actor \in Actors, Publishes(actor)
      PROVE  \E e \in Intents : log' = log \/ log' = Append(log, e)
  <2>1. [to |-> "ACTIVE", actor |-> actor, by |-> "sup"] \in Intents
    BY DEF Intents, States, Procs
  <2> QED
    BY <1>4, <2>1 DEF Publishes, PublishActive
<1>5. Rests \/ PersistState => UNCHANGED log
  BY DEF Rests, PersistState
<1>6. ASSUME NEW by \in Procs, NEW actor \in Actors, NEW new \in States,
             NEW kind \in {"set", "panic"}, Starts(by, actor, new, kind)
      PROVE  UNCHANGED log
  BY <1>6 DEF Starts, SetFenced
<1> QED
  BY <1>1, <1>2, <1>3, <1>4, <1>5, <1>6 DEF Form

\* An event that is not a release of MacroGuard's, or comes right after a freeze of
\* its own, keeps the promise.
LEMMA AppendKeeps ==
  ASSUME TypeInv, MacroReleasesOwnFreeze, NEW e \in Intents, log' = Append(log, e),
         e.actor = "macro_guard" => e.to = "FROZEN" \/ Froze(Len(log))
  PROVE  MacroReleasesOwnFreeze'
<1>1. /\ Len(log) \in Nat /\ Len(log') = Len(log) + 1
      /\ \A i \in 1..Len(log) : log'[i] = log[i]
      /\ log'[Len(log) + 1] = e
  BY Appended
<1> SUFFICES ASSUME NEW i \in 1..Len(log'), log'[i].actor = "macro_guard",
                    log'[i].to # "FROZEN"
             PROVE  i > 1 /\ log'[i-1].actor = "macro_guard" /\ log'[i-1].to = "FROZEN"
  BY DEF MacroReleasesOwnFreeze
<1>2. CASE i \in 1..Len(log)
  <2>1. i > 1 /\ log[i-1].actor = "macro_guard" /\ log[i-1].to = "FROZEN"
    BY <1>1, <1>2 DEF MacroReleasesOwnFreeze
  <2>2. i - 1 \in 1..Len(log)
    BY <1>1, <1>2, <2>1
  <2> QED
    BY <1>1, <2>1, <2>2
<1>3. CASE i = Len(log) + 1
  <2>1. Froze(Len(log))
    BY <1>1, <1>3
  <2>2. i - 1 = Len(log) /\ i > 1
    BY <1>1, <1>3, <2>1 DEF Froze
  <2> QED
    BY <1>1, <2>1, <2>2 DEF Froze
<1> QED
  BY <1>1, <1>2, <1>3

\* The promise, and what the fence's holder may write in MacroGuard's name.
FenceOwn ==
    /\ fence.by = "macro" => fence.actor = "macro_guard" /\ fence.new = "FROZEN"
    /\ fence.actor = "macro_guard" => fence.new = "FROZEN" \/ Froze(Len(log))
    /\ MacroReleasesOwnFreeze

\* A freeze that is being recorded is recorded, or its event is still to be written.
Claim(c) == Froze(c) \/ (c = Len(log) + 1 /\ fence.by = "macro")

\* Every form of a step keeps the promise, and what is claimed under the fence.
LEMMA FormOwn ==
  ASSUME TypeInv, MoveInv, MacroOwnInv, Form
  PROVE  /\ FenceOwn'
         /\ \A c : Claim(c) => Claim(c)' \/ macro'.pc = "idle"
<1>1. FenceOwn
  BY DEF MacroOwnInv, FenceOwn
<1>2. CASE Rests
  <2>1. fence' = fence \/ (/\ fence'.by = "none" /\ fence'.actor = "owner"
                           /\ (fence.stage = "panicKv" \/ macro'.pc = "idle"))
    BY <1>2 DEF Rests, Free
  <2>2. FenceOwn'
    BY <1>1, <1>2, <2>1 DEF FenceOwn, Rests, Froze, MacroReleasesOwnFreeze
  <2>3. fence.by = "macro" => fence.stage # "panicKv"
    BY <1>1 DEF FenceOwn, MoveInv
  <2>4. \A c : Claim(c) => Claim(c)' \/ macro'.pc = "idle"
    BY <1>2, <2>1, <2>3 DEF Claim, Froze, Rests
  <2> QED
    BY <2>2, <2>4
<1>3. CASE PersistState
  <2>1. /\ UNCHANGED log /\ fence'.by = fence.by /\ fence'.actor = fence.actor
        /\ fence'.new = fence.new
    BY <1>3 DEF PersistState, TypeInv, TypeOK, Fences
  <2> QED
    BY <1>1, <2>1 DEF FenceOwn, Claim, Froze, MacroReleasesOwnFreeze
<1>4. CASE PersistEvent
  <2> DEFINE e == [to |-> fence.new, actor |-> fence.actor, by |-> fence.by]
  <2>1. e.to = fence.new /\ e.actor = fence.actor /\ log' = Append(log, e)
    BY <1>4 DEF PersistEvent
  <2>2. e \in Intents
    BY <1>4 DEF PersistEvent, TypeInv, TypeOK, FenceHeld, Fences, Intents
  <2> HIDE DEF e
  <2>3. MacroReleasesOwnFreeze'
    BY <1>1, <2>1, <2>2, AppendKeeps DEF FenceOwn
  <2>4. \/ fence'.by = "none" /\ fence'.actor = "owner"
        \/ /\ fence'.by = fence.by /\ fence'.actor = fence.actor /\ fence'.new = fence.new
           /\ fence.actor = "owner"
    BY <1>4 DEF PersistEvent, Free, TypeInv, TypeOK, Fences, MoveInv
  <2>5. FenceOwn'
    BY <1>1, <2>3, <2>4 DEF FenceOwn
  <2>6. Len(log) \in Nat /\ Len(log') = Len(log) + 1 /\ log'[Len(log) + 1] = e
    BY <2>1, <2>2, Appended
  <2>7. ASSUME NEW c, Claim(c) PROVE Claim(c)'
    <3>1. CASE Froze(c)
      BY <2>1, <2>2, <3>1, FrozeKept DEF Claim
    <3>2. CASE c = Len(log) + 1 /\ fence.by = "macro"
      BY <1>1, <2>1, <2>6, <3>2 DEF FenceOwn, Claim, Froze
    <3> QED
      BY <2>7, <3>1, <3>2 DEF Claim
  <2> QED
    BY <2>5, <2>7
<1>5. ASSUME NEW e \in Intents, log' = Append(log, e), fence = Free, UNCHANGED fence,
             e.actor = "macro_guard" => Froze(Len(log))
      PROVE  FenceOwn' /\ \A c : Claim(c) => Claim(c)'
  <2>1. fence.by = "none" /\ fence.actor = "owner"
    BY <1>5 DEF Free
  <2>2. MacroReleasesOwnFreeze'
    BY <1>1, <1>5, AppendKeeps DEF FenceOwn
  <2>3. \A c : Claim(c) => Claim(c)'
    BY <1>5, <2>1, FrozeKept DEF Claim
  <2> QED
    BY <1>5, <2>1, <2>2, <2>3 DEF FenceOwn
<1>6. CASE Reasserts
  <2> DEFINE e == [to |-> "FROZEN", actor |-> "owner", by |-> "sup"]
  <2>1. e \in Intents /\ e.actor = "owner" /\ log' = Append(log, e)
    BY <1>6 DEF Reasserts, Intents, States, Actors, Procs
  <2> HIDE DEF e
  <2> QED
    BY <1>5, <1>6, <2>1 DEF Reasserts
<1>7. ASSUME NEW actor \in Actors, Publishes(actor)
      PROVE  FenceOwn' /\ \A c : Claim(c) => Claim(c)'
  <2> DEFINE e == [to |-> "ACTIVE", actor |-> actor, by |-> "sup"]
  <2>1. e \in Intents /\ e.actor = actor /\ log' = Append(log, e)
    BY <1>7 DEF Publishes, PublishActive, Intents, States, Procs
  <2>2. fence = Free /\ UNCHANGED fence
    BY <1>7 DEF Publishes, PublishActive
  <2>3. actor = "macro_guard" => Froze(Len(log))
    BY <1>7 DEF Publishes, MacroOwnInv, watermark
  <2> HIDE DEF e
  <2> QED
    BY <1>5, <2>1, <2>2, <2>3
<1>8. ASSUME NEW by \in Procs, NEW actor \in Actors, NEW new \in States,
             NEW kind \in {"set", "panic"}, Starts(by, actor, new, kind)
      PROVE  FenceOwn' /\ \A c : Claim(c) => Claim(c)'
  <2>1. /\ UNCHANGED log /\ fence.by = "none"
        /\ fence'.by = by /\ fence'.actor = actor /\ fence'.new = new
    BY <1>8 DEF Starts, SetFenced, Free
  <2>2. actor = "macro_guard" => new = "FROZEN" \/ Froze(Len(log))
    BY <1>8 DEF Starts, MacroOwnInv, watermark
  <2>3. by = "macro" => actor = "macro_guard" /\ new = "FROZEN"
    BY <1>8 DEF Starts
  <2> QED
    BY <1>1, <2>1, <2>2, <2>3 DEF FenceOwn, Claim, Froze, MacroReleasesOwnFreeze
<1> QED
  BY <1>2, <1>3, <1>4, <1>6, <1>7, <1>8 DEF Form

\* Every step keeps MacroGuard's promise.
LEMMA MacroOwnNext == TypeInv /\ MoveInv /\ MacroOwnInv /\ [Next]_vars => MacroOwnInv'
<1> SUFFICES ASSUME TypeInv, MoveInv, MacroOwnInv, [Next]_vars PROVE MacroOwnInv'
  OBVIOUS
<1>1. Form
  BY StepForm
<1>2. FenceOwn' /\ \A c : Claim(c) => Claim(c)' \/ macro'.pc = "idle"
  BY <1>1, FormOwn
<1>3. \A c : Froze(c) => Froze(c)'
  BY <1>1, FormLog, FrozeKept
<1>4. macroKv'.eid # 0 => Froze(macroKv.eid)'
  <2> SUFFICES ASSUME macroKv'.eid # 0 PROVE \E c : c = macroKv'.eid /\ Froze(c)
    BY <1>3 DEF Froze
  <2> QED
    BY MacroMoves DEF MacroOwnInv
<1>5. macro'.pc \in {"froze", "eid"} => Claim(macro.id)'
  <2> SUFFICES ASSUME macro'.pc \in {"froze", "eid"} PROVE Claim(macro.id)'
    OBVIOUS
  <2>1. CASE macro.pc \in {"froze", "eid"} /\ macro'.id = macro.id
    <3>1. Claim(macro.id)
      BY <2>1 DEF MacroOwnInv, Claim
    <3>2. PICK c : c = macro.id
      OBVIOUS
    <3>3. Claim(c)'
      BY <1>2, <3>1, <3>2
    <3> QED
      BY <2>1, <3>2, <3>3 DEF Claim, Froze
  <2>2. CASE /\ SetFenced("macro", "macro_guard", "FROZEN", "set")
             /\ macro'.id = watermark + 1
    BY <2>2 DEF SetFenced, Claim, watermark
  <2> QED
    BY <2>1, <2>2, MacroMoves
<1>6. sup'.pc = "macroIntake" => Froze(sup.id)'
  <2> SUFFICES ASSUME sup'.pc = "macroIntake" PROVE \E c : c = sup'.id /\ Froze(c)
    BY <1>3 DEF Froze
  <2> QED
    BY MacroMoves, OwnFreeze DEF MacroOwnInv
<1> QED
  BY <1>2, <1>4, <1>5, <1>6 DEF MacroOwnInv, FenceOwn, Claim

\* MacroGuard releases its own freeze and nothing else: its RECOVERY or ACTIVE comes
\* right after its own FROZEN, whoever acted in between.
THEOREM MacroReleasesOwnFreezeCorrect == Spec => []MacroReleasesOwnFreeze
<1>1. MacroOwnInv => MacroReleasesOwnFreeze
  BY DEF MacroOwnInv
<1> QED
  BY <1>1, TypeInit, TypeNext, MoveInit, MoveNext, MacroOwnInit, MacroOwnNext, PTL DEF Spec

-----------------------------------------------------------------------------
(* The proof behind ACTIVE, and the need for the owner.                     *)

\* No pass has got further than its first step.
LEMMA PassInit == Init => PassInv
<1> SUFFICES ASSUME Init PROVE PassInv
  OBVIOUS
<1>1. sup.pc \in {"idle", "read"}
  BY DEF Init, BootSup, IdleSup
<1> QED
  BY <1>1 DEF PassInv, Passing

\* Where the pass lock is free, or newly taken, nothing is known yet.
LEMMA PassFresh ==
  ASSUME sup'.pc \in {"idle", "read", "rbRisk", "rbFinal"}
  PROVE  PassInv'
  BY DEF PassInv, Passing

\* The steps of the others: the pass stays where it is, is started, or is lost.
LEMMA PassOthers ==
  ASSUME TypeInv, PassInv, Next, ~SupStep
  PROVE  PassInv' /\ UNCHANGED status
<1>1. UNCHANGED status
  BY DEF Next, FenceStep, PersistState, PersistEvent, PersistPanic, DrainStep, DrainStart,
         DrainFlattened, DrainSettle, StartCadence, Trigger, StartRecovery, RefuseBusy,
         OwnerContain, OwnerPanic, AdmitRecovery, RollbackIntake, RiskStep, World,
         MacroFreeze, MacroRecord, MacroRelease, Crash
<1>2. CASE UNCHANGED <<sup, market>>
  BY <1>1, <1>2 DEF PassInv
<1>3. CASE Crash
  <2>1. sup'.pc \in {"idle", "read"}
    BY <1>3 DEF Crash, BootSup, IdleSup
  <2> QED
    BY <1>1, <2>1, PassFresh
<1>4. CASE StartCadence \/ Trigger \/ RollbackIntake
  <2>1. sup'.pc \in {"read", "rbRisk"}
    BY <1>4 DEF StartCadence, Trigger, RollbackIntake, IdleSup
  <2> QED
    BY <1>1, <2>1, PassFresh
<1>5. CASE StartRecovery
  <2>1. sup'.op = "recover" /\ market' = market
        /\ sup'.pc = IF market = "futures" THEN "intake" ELSE "release"
    BY <1>5 DEF StartRecovery, IdleSup, envVars, worldVars
  <2> QED
    BY <1>1, <2>1 DEF PassInv, Passing
<1>6. CASE MacroRelease
  <2>1. market' = market
        /\ (sup' = sup \/ (sup'.op = "macro" /\ sup'.pc = "macroIntake"))
    BY <1>6 DEF MacroRelease, IdleSup, envVars, worldVars
  <2> QED
    BY <1>1, <2>1 DEF PassInv, Passing
<1> QED
  BY <1>1, <1>2, <1>3, <1>4, <1>5, <1>6
  DEF Next, FenceStep, PersistState, PersistEvent, PersistPanic, DrainStep, DrainStart,
      DrainFlattened, DrainSettle, RefuseBusy, OwnerContain, OwnerPanic, AdmitRecovery,
      RiskStep, World, MacroFreeze, MacroRecord, envVars, worldVars

\* What a step of the pass itself saves and knows afterwards.
LEMMA PassStep ==
  ASSUME TypeInv, PassInv, SupStep
  PROVE  /\ PassInv'
         /\ status.needs /\ ~status'.needs =>
              sup.op \in {"recover", "macro"} \/ OwnerAck(status, control)
<1> DEFINE Durable == status.needs /\ ~status'.needs =>
                        sup.op \in {"recover", "macro"} \/ OwnerAck(status, control)
<1> SUFFICES PassInv' /\ Durable
  OBVIOUS
<1>0. IdleSup.pc = "idle" /\ sup \in Sups /\ sup.prior \in Statuses /\ status \in Statuses
  BY DEF IdleSup, TypeInv, TypeOK, Sups
<1>1. CASE ReadStatus
  <2>1. /\ status' = IF OwnerAck(status, control) THEN NoStatus ELSE status
        /\ sup'.prior = status' /\ sup'.pc \in {"contain", "enter"}
    BY <1>0, <1>1 DEF ReadStatus, Sups
  <2> QED
    BY <2>1 DEF PassInv, Passing
<1>2. CASE Contain
  <2>1. /\ UNCHANGED status /\ sup.pc = "contain" /\ sup'.prior = sup.prior
        /\ sup'.pc \in {"containSave", "enter", "detect"}
    BY <1>0, <1>2 DEF Contain, Sups
  <2> QED
    BY <2>1 DEF PassInv, Passing
<1>3. CASE ContainSave
  <2>1. /\ status'.needs = sup.prior.needs /\ sup.pc = "containSave" /\ sup'.pc = "enter"
        /\ sup'.prior = status'
    BY <1>0, <1>3 DEF ContainSave, Sups, Statuses
  <2> QED
    BY <2>1 DEF PassInv, Passing
<1>4. CASE Enter
  <2>1. /\ UNCHANGED status /\ sup.pc = "enter" /\ sup'.prior.needs = sup.prior.needs
        /\ sup'.pc \in {"detect", "examine"}
    <3>1. UNCHANGED status /\ sup.pc = "enter"
      BY <1>4 DEF Enter
    <3>2. PICK p \in {"detect", "examine"}, c \in Nat :
               (sup' = [sup EXCEPT !.pc = p, !.st = "RECOVERY", !.prior.cid = c])
            \/ (sup' = [sup EXCEPT !.pc = p])
      <4>1. PICK p \in {"detect", "examine"} :
              p = IF sup.op = "trigger" THEN "detect" ELSE "examine"
        OBVIOUS
      <4>2. watermark + 1 \in Nat
        BY WatermarkType
      <4>3. \/ sup' = [sup EXCEPT !.pc = p, !.st = "RECOVERY", !.prior.cid = watermark + 1]
            \/ sup' = [sup EXCEPT !.pc = p]
        BY <1>4, <4>1, Zenon DEF Enter
      <4> QED
        BY <4>2, <4>3
    <3>3. CASE sup' = [sup EXCEPT !.pc = p, !.st = "RECOVERY", !.prior.cid = c]
      BY <1>0, <3>1, <3>3 DEF Sups, Statuses
    <3>4. CASE sup' = [sup EXCEPT !.pc = p]
      BY <1>0, <3>1, <3>4 DEF Sups
    <3> QED
      BY <3>2, <3>3, <3>4
  <2> QED
    BY <2>1 DEF PassInv, Passing
<1>5. CASE Detect
  <2>1. status'.needs = sup.prior.needs /\ sup.pc = "detect" /\ sup'.pc = "idle"
    BY <1>0, <1>5 DEF Detect, Statuses
  <2> QED
    BY <2>1, PassFresh DEF PassInv, Passing
<1>6. CASE Examine
  <2>1. /\ UNCHANGED status /\ sup.pc = "examine" /\ sup'.prior = sup.prior
        /\ sup'.pc = "verify"
    BY <1>0, <1>6 DEF Examine, Sups
  <2> QED
    BY <2>1 DEF PassInv, Passing
<1>7. ASSUME NEW v \in {"safe", "minor", "serious"}, Verify(v) PROVE PassInv' /\ Durable
  <2>1. /\ UNCHANGED status /\ sup.pc = "verify" /\ sup'.prior = sup.prior
        /\ sup'.needs = NeedsOwner(v)
        /\ sup'.pc = IF MayProve(v) THEN "prove" ELSE "finish"
    BY <1>0, <1>7 DEF Verify, Sups
  <2>2. sup.prior.needs => NeedsOwner(v)
    BY DEF NeedsOwner
  <2>3. MayProve(v) => ~NeedsOwner(v)
    BY DEF MayProve
  <2> QED
    BY <2>1, <2>2, <2>3 DEF PassInv, Passing
<1>8. CASE Prove
  <2>1. /\ status'.owned = TRUE /\ status'.safe = TRUE /\ status'.needs = FALSE
        /\ status'.cid = sup.prior.cid /\ sup.pc = "prove" /\ sup'.prior = sup.prior
        /\ sup'.pc = "activate"
    BY <1>0, <1>8 DEF Prove, Sups
  <2> QED
    BY <2>1 DEF PassInv, Passing
<1>9. CASE Activate
  <2>1. UNCHANGED status /\ sup.pc = "activate" /\ sup'.pc = "finish"
    BY <1>0, <1>9 DEF Activate, Sups
  <2> QED
    BY <2>1 DEF PassInv, Passing
<1>10. CASE Finish
  <2>1. status'.needs = sup.needs /\ sup.pc = "finish" /\ sup'.pc \in {"idle", "rbFinal"}
    BY <1>0, <1>10 DEF Finish, Sups
  <2> QED
    BY <2>1, PassFresh DEF PassInv
<1>11. CASE Intake
  <2>1. /\ UNCHANGED status /\ sup.pc = "intake"
        /\ sup'.pc = "idle" \/ (sup'.pc = "granted" /\ sup'.op = sup.op)
    BY <1>0, <1>11 DEF Intake, Sups
  <2> QED
    BY <2>1, PassFresh DEF PassInv, Passing
<1>12. CASE Granted
  <2>1. sup.pc = "granted" /\ sup'.pc = "read"
    BY <1>0, <1>12 DEF Granted, Sups
  <2> QED
    BY <2>1, PassFresh DEF PassInv
<1>13. CASE ReadRelease \/ ReleaseCas
  <2>1. /\ UNCHANGED <<status, market>> /\ sup.pc \in {"release", "releaseCas"}
        /\ sup'.pc \in {"idle", "releaseCas"}
    BY <1>0, <1>13 DEF ReadRelease, ReleaseCas, Sups, envVars, worldVars
  <2> QED
    BY <2>1 DEF PassInv, Passing
<1>14. CASE MacroIntake
  <2>1. /\ UNCHANGED status /\ sup.pc = "macroIntake"
        /\ sup'.pc = "idle" \/ (sup'.pc = "granted" /\ sup'.op = sup.op)
    BY <1>0, <1>14 DEF MacroIntake, Sups
  <2> QED
    BY <2>1, PassFresh DEF PassInv, Passing
<1>15. CASE RollbackBaseline \/ RollbackFinal
  <2>1. UNCHANGED status /\ sup'.pc \in {"read", "rbFinal", "idle"}
    BY <1>0, <1>15 DEF RollbackBaseline, RollbackFinal, Sups
  <2> QED
    BY <2>1, PassFresh
<1> QED
  BY <1>1, <1>2, <1>3, <1>4, <1>5, <1>6, <1>7, <1>8, <1>9, <1>10, <1>11, <1>12, <1>13,
     <1>14, <1>15 DEF SupStep

\* Every step keeps what the passes know.
LEMMA PassNext == TypeInv /\ PassInv /\ [Next]_vars => PassInv'
<1> SUFFICES ASSUME TypeInv, PassInv, [Next]_vars PROVE PassInv'
  OBVIOUS
<1>1. CASE UNCHANGED vars
  BY <1>1 DEF vars, envVars, worldVars, PassInv
<1> QED
  BY <1>1, PassOthers, PassStep

\* The Supervisor publishes ACTIVE only on a complete proof that is already durable,
\* for the containment that is still the latest intent.
THEOREM ActivationProvedCorrect == Spec => ActivationProved
<1> DEFINE Step == control # "ACTIVE" /\ control' = "ACTIVE" /\ market = "futures" =>
                     /\ status.safe /\ status.owned /\ status.cid = watermark
                     /\ risk = "ok" /\ ~pending
<1>1. TypeInv /\ MoveInv /\ PassInv /\ [Next]_vars => [Step]_vars
  <2> SUFFICES ASSUME TypeInv, MoveInv, PassInv, [Next]_vars,
                      control # "ACTIVE", control' = "ACTIVE", market = "futures"
               PROVE  /\ status.safe /\ status.owned /\ status.cid = watermark
                      /\ risk = "ok" /\ ~pending
    OBVIOUS
  <2>1. ~PersistState /\ ~UNCHANGED control
    BY DEF PersistState, MoveInv
  <2>2. Activate \/ ReleaseCas \/ MacroIntake
    <3>1. UNCHANGED vars => UNCHANGED control
      BY DEF vars, kvVars
    <3>2. FenceStep \/ DrainStep => UNCHANGED control \/ PersistState
      BY DEF FenceStep, PersistEvent, PersistPanic, DrainStep, DrainStart, DrainFlattened,
             DrainSettle, SetFenced, kvVars
    <3>3. ASSUME \/ StartCadence \/ Trigger \/ StartRecovery \/ RefuseBusy \/ OwnerPanic
                 \/ \E new \in {"FROZEN", "HALTED"} : OwnerContain(new)
                 \/ \E unhalt \in BOOLEAN : AdmitRecovery(unhalt)
                 \/ RollbackIntake \/ RiskStep \/ World \/ MacroFreeze \/ MacroRecord
                 \/ MacroRelease \/ Crash
          PROVE  UNCHANGED control
      BY <3>3
      DEF StartCadence, Trigger, StartRecovery, RefuseBusy, OwnerPanic, OwnerContain,
          AdmitRecovery, RollbackIntake, RiskStep, World, MacroFreeze, MacroRecord,
          MacroRelease, Crash, SetFenced, kvVars
    <3>4. SupStep /\ ~Activate /\ ~ReleaseCas /\ ~MacroIntake => UNCHANGED control
      BY DEF SupStep, ReadStatus, Contain, ContainSave, Enter, Detect, Examine, Verify,
             Prove, Finish, Intake, Granted, ReadRelease, RollbackBaseline, RollbackFinal,
             SetFenced, kvVars
    <3> QED
      BY <2>1, <3>1, <3>2, <3>3, <3>4 DEF Next
  <2>3. CASE Activate
    BY <2>1, <2>3 DEF Activate, PassInv, RiskHeld, kvVars
  <2>4. CASE ReleaseCas
    BY <2>4 DEF ReleaseCas, PassInv
  <2>5. CASE MacroIntake
    BY <2>1, <2>5 DEF MacroIntake, SetFenced, kvVars
  <2> QED
    BY <2>2, <2>3, <2>4, <2>5
<1>2. QED
  BY <1>1, TypeInit, TypeNext, MoveInit, MoveNext, PassInit, PassNext, PTL
  DEF Spec, ActivationProved

\* A recorded need for the owner is cleared by a granted release or an acknowledged
\* resume, and by no pass, trigger, crash or restart.
THEOREM NeedsOwnerDurableCorrect == Spec => NeedsOwnerDurable
<1> DEFINE Step == status.needs /\ ~status'.needs =>
                     sup.op \in {"recover", "macro"} \/ OwnerAck(status, control)
<1>1. TypeInv /\ PassInv /\ [Next]_vars => [Step]_vars
  <2> SUFFICES ASSUME TypeInv, PassInv, Next PROVE Step
    BY DEF vars
  <2>1. CASE SupStep
    BY <2>1, PassStep
  <2>2. CASE ~SupStep
    BY <2>2, PassOthers
  <2> QED
    BY <2>1, <2>2
<1>2. QED
  BY <1>1, TypeInit, TypeNext, PassInit, PassNext, PTL DEF Spec, NeedsOwnerDurable
=============================================================================
