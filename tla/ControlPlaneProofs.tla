-------------------------- MODULE ControlPlaneProofs --------------------------
(* What holds of the control plane for every bound, market and request set: the
   types, and that an owner's hold stands.                                      *)
EXTENDS ControlPlane, TLAPS

-----------------------------------------------------------------------------
(* Types.                                                                   *)

\* The process that holds a pending transition has a name.
FenceHeld == fence.stage # "free" => fence.by \in Procs
TypeInv == TypeOK /\ FenceHeld

\* What the two ways of writing a transition change.
Stored ==
    /\ control \in States /\ log \in Seq(Intents) /\ opHold \in BOOLEAN
    /\ fence \in Fences /\ FenceHeld

\* A free pass lock, and one a boot pass holds, have locals of their types.
LEMMA IdleSupType == IdleSup \in Sups /\ \A m : BootSup(m) \in Sups
  BY ZenonT(60) DEF IdleSup, BootSup, NoStatus, Sups, SupPcs, SupOps, Statuses, States

\* What the locals of the pass lock's holder range over, field by field.
LEMMA SupFields ==
  TypeInv => /\ sup.prior \in Statuses /\ sup.prior.needs \in BOOLEAN
             /\ sup.prior.since \in Nat /\ sup.prior.cid \in Nat
             /\ sup.op \in SupOps /\ sup.id \in Nat /\ sup.st \in States
             /\ sup.owned \in BOOLEAN
  BY DEF TypeInv, TypeOK, Sups, Statuses

\* The latest intent id, and the one a transition will get, are numbers.
LEMMA WatermarkType == TypeInv => watermark \in Nat /\ watermark + 1 \in Nat
  BY DEF TypeInv, TypeOK, watermark

\* The freeze MacroGuard takes for its own is a number, 0 for none.
LEMMA MacroFreezeEventIdType == TypeInv => MacroFreezeEventId \in Nat
  BY WatermarkType DEF MacroFreezeEventId, TypeInv, TypeOK, MacroKvs

\* A transition started under the fence leaves its variables well typed.
LEMMA SetFencedType ==
  ASSUME TypeInv, NEW by \in Procs, NEW actor \in Actors, NEW new \in States,
         NEW kind \in {"set", "panic"}, SetFenced(by, actor, new, kind)
  PROVE  Stored' /\ UNCHANGED <<control, log>>
<1>1. fence' \in Fences /\ fence'.by = by
  BY DEF SetFenced, Fences
<1>2. opHold' \in BOOLEAN /\ UNCHANGED <<control, log>>
  BY DEF SetFenced
<1> QED
  BY <1>1, <1>2 DEF Stored, FenceHeld, TypeInv, TypeOK

\* So does the one transaction that publishes ACTIVE.
LEMMA PublishActiveType ==
  ASSUME TypeInv, NEW by \in Procs, NEW actor \in Actors, UNCHANGED fence,
         PublishActive(by, actor)
  PROVE  Stored' /\ setter' \in Procs \cup {"none"}
<1>1. [to |-> "ACTIVE", actor |-> actor, by |-> by] \in Intents
  BY DEF Intents, States
<1>2. opHold' \in BOOLEAN
  BY DEF PublishActive, TypeInv, TypeOK
<1>3. log' \in Seq(Intents)
  BY <1>1 DEF PublishActive, TypeInv, TypeOK
<1> QED
  BY <1>2, <1>3 DEF PublishActive, Stored, FenceHeld, TypeInv, TypeOK, States

\* The empty status, request and fence have their types.
LEMMA EmptyTypes == NoStatus \in Statuses /\ NoReq \in Reqs /\ Free \in Fences
  BY DEF NoStatus, Statuses, NoReq, Reqs, Free, Fences, Actors, States

\* The journal of a new installation is well typed.
LEMMA TypeInit == Init => TypeInv
<1> SUFFICES ASSUME Init PROVE TypeInv
  OBVIOUS
<1>1. /\ control \in States /\ opHold \in BOOLEAN
      /\ panic \in Nat /\ permit \in Nat /\ setter \in Procs \cup {"none"}
  BY DEF Init, States
<1>2. log \in Seq(Intents)
  BY DEF Init
<1>3. /\ market \in Markets /\ risk \in Risks /\ pending \in BOOLEAN
      /\ crashes \in Nat /\ asked \in Nat
  BY RisksAssumption DEF Init
<1>4. status \in Statuses /\ fence \in Fences /\ sup \in Sups /\ req \in Reqs
  BY EmptyTypes, IdleSupType DEF Init
<1>5. macroKv \in MacroKvs /\ macro \in Macros /\ drain \in Drains
  BY DEF Init, MacroKvs, Macros, Drains
<1>6. fence.stage = "free"
  BY DEF Init, Free
<1> QED
  BY <1>1, <1>2, <1>3, <1>4, <1>5, <1>6 DEF TypeInv, TypeOK, FenceHeld

\* The verdict of a verification leaves the supervisor's locals well typed.
LEMMA VerdictType ==
  ASSUME sup \in Sups, NEW own \in BOOLEAN, NEW needs \in BOOLEAN, NEW since \in Nat,
         NEW proved \in BOOLEAN, NEW pc \in SupPcs
  PROVE  [sup EXCEPT !.owned = own, !.needs = needs, !.since = since,
                     !.proved = proved, !.pc = pc] \in Sups
  BY DEF Sups

\* Every step of every process keeps the types.
LEMMA TypeNext == TypeInv /\ [Next]_vars => TypeInv'
<1> SUFFICES ASSUME TypeInv, [Next]_vars PROVE TypeInv'
  OBVIOUS
<1> USE DEF TypeInv, TypeOK, FenceHeld
<1>1. CASE PersistState
  <2> QED
    BY <1>1
    DEF PersistState, envVars, worldVars, Free, Fences, Intents, States, Actors,
        Procs
<1>2. CASE PersistEvent
  <2> QED
    BY <1>2
    DEF PersistEvent, envVars, histVars, worldVars, Free, Fences, Intents, States,
        Actors, Procs
<1>3. CASE PersistPanic
  <2>1. panic' \in Nat
    BY <1>3, WatermarkType
    DEF PersistPanic
  <2> QED
    BY <1>3, <2>1, WatermarkType
    DEF PersistPanic, kvVars, envVars, histVars, worldVars, Free, Fences, Intents,
        States, Actors, Procs
<1>4. ASSUME NEW new \in {"FROZEN", "HALTED"}, OwnerContain(new) PROVE TypeInv'
  <2>1. Stored'
    BY <1>4, SetFencedType
    DEF OwnerContain, Stored, Procs, Actors, States
  <2> QED
    BY <1>4, <2>1
    DEF OwnerContain, Ask, worldVars, histVars, Stored
<1>5. CASE OwnerPanic
  <2>1. Stored'
    BY <1>5, SetFencedType
    DEF OwnerPanic, Stored, Procs, Actors, States
  <2> QED
    BY <1>5, <2>1
    DEF OwnerPanic, Ask, worldVars, histVars, Stored
<1>6. ASSUME NEW unhalt \in BOOLEAN, AdmitRecovery(unhalt) PROVE TypeInv'
  <2>1. req' \in Reqs
    BY <1>6, WatermarkType
    DEF AdmitRecovery, Reqs
  <2> QED
    BY <1>6, <2>1
    DEF AdmitRecovery, Ask, kvVars, worldVars, histVars
<1>7. CASE RiskStep
  <2>1. Stored'
    BY <1>7, SetFencedType
    DEF RiskStep, Stored, Procs, Actors, States
  <2> QED
    BY <1>7, <2>1
    DEF RiskStep, envVars, histVars, worldVars, Stored
<1>8. CASE World
  <2>1. pending' \in BOOLEAN
    BY <1>8 DEF World
  <2>2. risk' \in Risks
    BY <1>8 DEF World
  <2> QED
    BY <1>8, <2>1, <2>2 DEF World, Ask, kvVars, histVars
<1>9. CASE Crash
  <2>1. sup' \in Sups
    BY <1>9, IdleSupType
    DEF Crash, Sups, SupPcs, SupOps, Statuses, BootSup
  <2>2. req' \in Reqs
    BY <1>9
    DEF Crash, Reqs, NoReq
  <2>3. macro' \in Macros
    BY <1>9
    DEF Crash, Macros
  <2>4. drain' \in Drains
    BY <1>9
    DEF Crash, Drains
  <2> QED
    BY <1>9, <2>1, <2>2, <2>3, <2>4, MarketsAssumption, RisksAssumption
    DEF Crash, kvVars, histVars, Free, Fences, States, Actors
<1>10. CASE StartCadence
  <2>1. sup' \in Sups
    BY ZenonT(60), <1>10, IdleSupType
    DEF StartCadence, Sups, SupPcs, SupOps, Statuses
  <2> QED
    BY <1>10, <2>1
    DEF StartCadence, kvVars, envVars, histVars, worldVars
<1>11. CASE Trigger
  <2>1. sup' \in Sups
    BY ZenonT(60), <1>11, IdleSupType
    DEF Trigger, Sups, SupPcs, SupOps, Statuses
  <2> QED
    BY <1>11, <2>1
    DEF Trigger, Ask, kvVars, worldVars, histVars
<1>12. CASE ReadStatus
  <2>1. sup' \in Sups
    BY ZenonT(60), <1>12
    DEF ReadStatus, Sups, SupPcs, SupOps, Statuses, NoStatus
  <2>2. status' \in Statuses
    BY <1>12
    DEF ReadStatus, Statuses, NoStatus, Sups
  <2> QED
    BY <1>12, <2>1, <2>2
    DEF ReadStatus, supOnly, kvVars, histVars, envVars, worldVars
<1>13. CASE Contain
  <2>1. Stored'
    BY <1>13, SetFencedType
    DEF Contain, Stored, Procs, Actors, States, kvVars
  <2>2. \/ sup' = [sup EXCEPT !.pc = "containSave", !.id = watermark + 1]
        \/ sup' = [sup EXCEPT !.pc = IF sup.op = "trigger" THEN "detect" ELSE "enter",
                              !.st = control]
    BY <1>13 DEF Contain
  <2>3. sup' \in Sups
    BY ZenonT(60), <2>2, WatermarkType DEF Sups, SupPcs
  <2> QED
    BY <1>13, <2>1, <2>3
    DEF Contain, supOnly, kvVars, histVars, envVars, worldVars, Stored
<1>14. CASE ContainSave
  <2>1. status' \in Statuses
    <3>1. status' = [sup.prior EXCEPT !.owned = TRUE, !.cid = sup.id, !.safe = FALSE]
      BY <1>14 DEF ContainSave
    <3> QED
      BY <3>1, SupFields DEF Statuses
  <2>2. sup' \in Sups
    <3>1. sup' = [sup EXCEPT !.pc = "enter", !.prior = status',
                             !.st = IF sup.op = "trigger" THEN "FROZEN" ELSE control]
      BY <1>14 DEF ContainSave
    <3> QED
      BY ZenonT(60), <3>1, <2>1 DEF Sups, SupPcs, States
  <2> QED
    BY <1>14, <2>1, <2>2
    DEF ContainSave, supOnly, kvVars, histVars, envVars, worldVars
<1>15. CASE Enter
  <2>1. Stored'
    BY <1>15, SetFencedType
    DEF Enter, Stored, Procs, Actors, States, kvVars
  <2>2. \E next \in {"detect", "examine"} :
           \/ sup' = [sup EXCEPT !.pc = next, !.st = "RECOVERY",
                                 !.prior.cid = watermark + 1]
           \/ sup' = [sup EXCEPT !.pc = next]
    BY <1>15 DEF Enter
  <2>3. [sup.prior EXCEPT !.cid = watermark + 1] \in Statuses
    BY SupFields, WatermarkType DEF Statuses
  <2>4. sup' \in Sups
    BY ZenonT(60), <2>2, <2>3 DEF Sups, SupPcs, States
  <2> QED
    BY <1>15, <2>1, <2>4
    DEF Enter, supOnly, kvVars, histVars, envVars, worldVars, Stored
<1>16. CASE Detect
  <2>1. sup' \in Sups
    BY <1>16, IdleSupType
    DEF Detect, Sups, SupPcs, SupOps, Statuses, Owned
  <2>2. status' \in Statuses
    <3>1. PICK own \in BOOLEAN, cid \in Nat :
             status' = [sup.prior EXCEPT !.owned = own, !.cid = cid, !.safe = FALSE]
      BY <1>16, SupFields DEF Detect, Owned
    <3> QED
      BY <3>1, SupFields DEF Statuses
  <2> QED
    BY <1>16, <2>1, <2>2
    DEF Detect, supOnly, kvVars, histVars, envVars, worldVars
<1>17. CASE Examine
  <2>1. sup' \in Sups
    BY ZenonT(60), <1>17
    DEF Examine, Sups, SupPcs, SupOps, Statuses, Owned
  <2> QED
    BY <1>17, <2>1
    DEF Examine, supOnly, kvVars, histVars, envVars, worldVars
<1>18. ASSUME NEW v \in {"safe", "minor", "serious"}, Verify(v) PROVE TypeInv'
  <2>1. /\ StillOurs \in BOOLEAN /\ NeedsOwner(v) \in BOOLEAN
        /\ NeedsOwnerSince(v) \in Nat
    BY SupFields, WatermarkType DEF StillOurs, NeedsOwner, NeedsOwnerSince
  <2>2. sup' = [sup EXCEPT !.owned = StillOurs, !.needs = NeedsOwner(v),
                           !.since = NeedsOwnerSince(v),
                           !.proved = v = "safe" /\ Unraced,
                           !.pc = IF MayProve(v) THEN "prove" ELSE "finish"]
    BY <1>18 DEF Verify
  <2>3. (IF MayProve(v) THEN "prove" ELSE "finish") \in SupPcs
    BY DEF SupPcs
  <2>4. (v = "safe" /\ Unraced) \in BOOLEAN
    OBVIOUS
  <2>5. sup' \in Sups
    BY ZenonT(60), <2>1, <2>2, <2>3, <2>4, VerdictType
  <2> QED
    BY <1>18, <2>5
    DEF Verify, supOnly, kvVars, histVars, envVars, worldVars
<1>19. CASE Prove
  <2>1. sup' \in Sups
    BY <1>19
    DEF Prove, Sups, SupPcs, SupOps, Statuses
  <2>2. status' \in Statuses
    BY <1>19
    DEF Prove, Statuses, Sups
  <2> QED
    BY <1>19, <2>1, <2>2
    DEF Prove, supOnly, kvVars, histVars, envVars, worldVars
<1>20. CASE Activate
  <2>1. Stored'
    BY <1>20, PublishActiveType
    DEF Activate, Stored, Procs, Actors, States, kvVars
  <2>2. sup' \in Sups
    BY ZenonT(60), <1>20, WatermarkType
    DEF Activate, Sups, SupPcs, SupOps, Statuses
  <2> QED
    BY <1>20, <2>1, <2>2
    DEF Activate, supOnly, kvVars, histVars, envVars, worldVars, Stored,
        PublishActive, Procs
<1>21. CASE Finish
  <2>1. sup' \in Sups
    BY ZenonT(60), <1>21, IdleSupType
    DEF Finish, Sups, SupPcs, SupOps, Statuses
  <2>2. status' \in Statuses
    BY <1>21
    DEF Finish, Statuses, Sups
  <2>3. macro' \in Macros
    BY <1>21
    DEF Finish, Macros
  <2> QED
    BY <1>21, <2>1, <2>2, <2>3
    DEF Finish, kvVars, envVars, histVars, worldVars
<1>22. CASE StartRecovery
  <2>1. PICK pc \in {"intake", "release"}, r \in BOOLEAN :
           sup' = [IdleSup EXCEPT !.pc = pc, !.op = "recover", !.id = watermark,
                                  !.risk = r]
    BY <1>22 DEF StartRecovery
  <2>2. sup' \in Sups
    BY <2>1, IdleSupType, WatermarkType DEF Sups, SupPcs, SupOps
  <2> QED
    BY <1>22, <2>2
    DEF StartRecovery, kvVars, envVars, histVars, worldVars
<1>23. CASE RefuseBusy
  <2>1. req' \in Reqs
    BY <1>23
    DEF RefuseBusy, Reqs, NoReq
  <2> QED
    BY <1>23, <2>1
    DEF RefuseBusy, kvVars, envVars, histVars, worldVars
<1>24. CASE Intake
  <2>1. Stored'
    BY <1>24, SetFencedType
    DEF Intake, Stored, Procs, Actors, States, kvVars
  <2>2. \/ sup' = IdleSup
        \/ sup' = [sup EXCEPT !.pc = "granted", !.id = watermark]
        \/ sup' = [sup EXCEPT !.pc = "granted", !.id = watermark + 1]
    BY <1>24 DEF Intake
  <2>4. sup' \in Sups
    BY ZenonT(60), <2>2, IdleSupType, WatermarkType DEF Sups, SupPcs
  <2>3. req' \in Reqs
    BY <1>24, WatermarkType
    DEF Intake, Reqs, NoReq
  <2> QED
    BY <1>24, <2>1, <2>3, <2>4
    DEF Intake, kvVars, envVars, worldVars, Stored, Reqs
<1>25. CASE Granted
  <2>1. sup' \in Sups
    BY <1>25
    DEF Granted, Sups, SupPcs, SupOps, Statuses, NoStatus
  <2>2. status' \in Statuses
    BY <1>25
    DEF Granted, Statuses, NoStatus, Sups
  <2> QED
    BY <1>25, <2>1, <2>2
    DEF Granted, supOnly, kvVars, histVars, envVars, worldVars
<1>26. CASE ReadRelease
  <2>1. sup' \in Sups
    <3>1. \/ sup' = IdleSup
          \/ sup' = [sup EXCEPT !.pc = "releaseCas", !.id = watermark,
                                !.risk = risk = "ok" /\ Releasable]
      BY <1>26 DEF ReadRelease
    <3> QED
      BY ZenonT(60), <3>1, IdleSupType, WatermarkType DEF Sups, SupPcs
  <2>2. req' \in Reqs
    BY <1>26, EmptyTypes DEF ReadRelease
  <2> QED
    BY <1>26, <2>1, <2>2
    DEF ReadRelease, kvVars, envVars, histVars, worldVars
<1>27. CASE ReleaseCas
  <2>1. Stored'
    BY <1>27, PublishActiveType
    DEF ReleaseCas, Stored, Procs, Actors, States, kvVars
  <2>2. sup' \in Sups
    BY <1>27, IdleSupType, WatermarkType
    DEF ReleaseCas, Sups, SupPcs, SupOps, Statuses
  <2>3. req' \in Reqs
    BY <1>27, WatermarkType
    DEF ReleaseCas, Reqs, NoReq
  <2> QED
    BY <1>27, <2>1, <2>2, <2>3
    DEF ReleaseCas, kvVars, envVars, histVars, worldVars, Stored, PublishActive,
        Procs, Reqs
<1>28. CASE MacroFreeze
  <2>1. Stored'
    BY <1>28, SetFencedType
    DEF MacroFreeze, Stored, Procs, Actors, States
  <2>2. macro' \in Macros
    BY <1>28, WatermarkType
    DEF MacroFreeze, Macros
  <2> QED
    BY <1>28, <2>1, <2>2
    DEF MacroFreeze, Ask, worldVars, histVars, Stored
<1>29. CASE MacroRecord
  <2>1. macro' \in Macros
    BY <1>29
    DEF MacroRecord, Macros
  <2>2. macroKv' \in MacroKvs
    <3>1. \/ \E b \in BOOLEAN : macroKv' = [macroKv EXCEPT !.froze = b]
          \/ \E n \in Nat : macroKv' = [macroKv EXCEPT !.eid = n]
      BY <1>29 DEF MacroRecord, Macros
    <3> QED
      BY <3>1 DEF MacroKvs
  <2> QED
    BY <1>29, <2>1, <2>2
    DEF MacroRecord, kvVars, envVars, histVars, worldVars
<1>30. CASE MacroRelease
  <2>1. sup' \in Sups
    <3>1. \/ UNCHANGED sup
          \/ sup' = [IdleSup EXCEPT !.pc = "macroIntake", !.op = "macro",
                                    !.id = MacroFreezeEventId]
      BY <1>30 DEF MacroRelease
    <3> QED
      BY ZenonT(60), <3>1, IdleSupType, MacroFreezeEventIdType DEF Sups, SupPcs, SupOps
  <2>2. macro' \in Macros
    BY <1>30
    DEF MacroRelease, Macros
  <2> QED
    BY <1>30, <2>1, <2>2
    DEF MacroRelease, kvVars, envVars, histVars, worldVars
<1>31. CASE MacroIntake
  <2>1. Stored'
    BY <1>31, SetFencedType, PublishActiveType
    DEF MacroIntake, Stored, Procs, Actors, States, kvVars
  <2>2. sup' \in Sups
    <3>1. \/ sup' = IdleSup
          \/ sup' = [sup EXCEPT !.pc = "granted", !.id = watermark + 1]
      BY <1>31 DEF MacroIntake
    <3> QED
      BY ZenonT(60), <3>1, IdleSupType, WatermarkType DEF Sups, SupPcs
  <2>3. macro' \in Macros
    BY <1>31, WatermarkType
    DEF MacroIntake, Macros
  <2> QED
    BY <1>31, <2>1, <2>2, <2>3
    DEF MacroIntake, kvVars, envVars, worldVars, Stored, PublishActive, Procs
<1>32. CASE RollbackIntake
  <2>1. Stored'
    BY <1>32, SetFencedType
    DEF RollbackIntake, Stored, Procs, Actors, States
  <2>2. sup' \in Sups
    BY ZenonT(60), <1>32, IdleSupType, WatermarkType
    DEF RollbackIntake, Sups, SupPcs, SupOps, Statuses
  <2> QED
    BY <1>32, <2>1, <2>2
    DEF RollbackIntake, Ask, worldVars, histVars, Stored
<1>33. CASE RollbackBaseline
  <2>1. sup' \in Sups
    BY ZenonT(60), <1>33
    DEF RollbackBaseline, Sups, SupPcs, SupOps, Statuses
  <2> QED
    BY <1>33, <2>1
    DEF RollbackBaseline, supOnly, kvVars, histVars, envVars, worldVars
<1>34. CASE RollbackFinal
  <2>1. Stored'
    <3>1. CASE SetFenced("sup", "owner", "RECOVERY", "set")
      BY <3>1, SetFencedType DEF Procs, Actors, States
    <3>2. [to |-> "FROZEN", actor |-> "owner", by |-> "sup"] \in Intents
      BY DEF Intents, States, Actors, Procs
    <3>3. CASE /\ log' = Append(log, [to |-> "FROZEN", actor |-> "owner", by |-> "sup"])
               /\ opHold' = TRUE
               /\ UNCHANGED <<control, fence>>
      BY <3>2, <3>3 DEF Stored
    <3>4. CASE UNCHANGED <<kvVars, fence>>
      BY <3>4 DEF Stored, kvVars
    <3> QED
      BY <1>34, <3>1, <3>3, <3>4 DEF RollbackFinal
  <2>2. sup' \in Sups
    BY <1>34, IdleSupType, WatermarkType
    DEF RollbackFinal, Sups, SupPcs, SupOps, Statuses
  <2> QED
    BY <1>34, <2>1, <2>2
    DEF RollbackFinal, supOnly, kvVars, histVars, envVars, worldVars, Stored
<1>35. CASE DrainStart
  <2>1. drain' \in Drains
    BY <1>35
    DEF DrainStart, Drains
  <2> QED
    BY <1>35, <2>1
    DEF DrainStart, kvVars, envVars, histVars, worldVars
<1>36. ASSUME NEW c \in BOOLEAN, DrainFlattened(c) PROVE TypeInv'
  <2>1. drain' \in Drains
    BY <1>36
    DEF DrainFlattened, Drains
  <2>2. panic' \in Nat
    BY <1>36
    DEF DrainFlattened
  <2> QED
    BY <1>36, <2>1, <2>2
    DEF DrainFlattened, kvVars, envVars, histVars, worldVars
<1>37. CASE DrainSettle
  <2>1. Stored'
    BY <1>37, SetFencedType
    DEF DrainSettle, Stored, Procs, Actors, States, kvVars
  <2>2. drain' \in Drains
    BY <1>37
    DEF DrainSettle, Drains
  <2> QED
    BY <1>37, <2>1, <2>2
    DEF DrainSettle, kvVars, envVars, histVars, worldVars, Stored
<1>38. CASE UNCHANGED vars
  BY <1>38 DEF vars, kvVars, envVars, worldVars, histVars
<1> QED
  BY <1>1, <1>2, <1>3, <1>4, <1>5, <1>6, <1>7, <1>8, <1>9, <1>10, <1>11, <1>12,
     <1>13, <1>14, <1>15, <1>16, <1>17, <1>18, <1>19, <1>20, <1>21, <1>22,
     <1>23, <1>24, <1>25, <1>26, <1>27, <1>28, <1>29, <1>30, <1>31, <1>32,
     <1>33, <1>34, <1>35, <1>36, <1>37, <1>38
  DEF Next, FenceStep, SupStep, DrainStep

\* Every journal key, lock holder and local keeps to its values, always.
THEOREM TypeCorrect == Spec => []TypeOK
<1>1. TypeInv => TypeOK
  BY DEF TypeInv
<1> QED
  BY <1>1, TypeInit, TypeNext, PTL DEF Spec

-----------------------------------------------------------------------------
(* The strengthening for the owner's holds.                                 *)

\* Every owner hold among the first c intents is older than the last recovery the
\* owner was let in with; so is every one that is recorded.
Answered(c) == \A i \in 1..Len(log) : i <= c /\ OwnerHold(i) => i <= permit
AllAnswered == \A i \in 1..Len(log) : OwnerHold(i) => i <= permit

\* An intent id whose event is recorded, and one whose event p is still writing.
Settled(c)    == c <= Len(log) /\ Answered(c)
Claimed(c, p) == Answered(c) /\ (c <= Len(log) \/ (c = Len(log) + 1 /\ fence.by = p))

\* A transition to RECOVERY is only ever being written with every hold answered.
FenceInv ==
    /\ fence.stage = "free" => fence.by = "none"
    /\ fence.stage # "free" =>
         /\ fence.new # "ACTIVE"
         /\ fence.stage \in {"event", "panicEvent", "panicKv"} => control = fence.new
         /\ fence.stage \in {"panic", "panicEvent", "panicKv"} => fence.by = "owner"
         /\ fence.by \in {"owner", "drain"} => fence.new \in {"FROZEN", "HALTED"}
         /\ fence.new = "RECOVERY" \/ fence.by = "macro" => AllAnswered

LogInv ==
    /\ permit <= Len(log)
    /\ control \in {"ACTIVE", "RECOVERY"} => AllAnswered
    /\ \A i \in 1..Len(log) : log[i].by = "macro" => Answered(i)

\* The event ids that later compare-and-sets will be bound to.
StatusInv == Settled(status.cid)
MacroInv  == /\ Settled(macroKv.eid)
             /\ macro.pc \in {"froze", "eid"} => Claimed(macro.id, "macro")

\* The ids the holder of the pass lock carries, while it carries them.
SupInv ==
    /\ Claimed(sup.prior.cid, "sup")
    /\ sup.pc \notin {"detect", "examine"} => Settled(sup.prior.cid)
    /\ sup.pc \in {"containSave", "granted"} => Claimed(sup.id, "sup")
    /\ sup.pc = "macroIntake" => sup.op = "macro" /\ Settled(sup.id)
    /\ sup.op = "rollback" /\ sup.from # "FROZEN" => Claimed(sup.id, "sup")
    /\ sup.pc \in {"rbRisk", "rbFinal"} => sup.op = "rollback"
    /\ sup.pc \in {"intake", "release", "releaseCas"} => sup.op = "recover" /\ req.live
    /\ sup.pc = "releaseCas" => sup.id = req.admitted

HoldInv == FenceInv /\ LogInv /\ StatusInv /\ MacroInv /\ SupInv

-----------------------------------------------------------------------------
(* What a change of the log or of the fence leaves standing.                *)

\* One more event: the others keep their places.
LEMMA Appended ==
  ASSUME TypeInv, NEW e \in Intents, log' = Append(log, e)
  PROVE  /\ Len(log) \in Nat /\ Len(log') = Len(log) + 1
         /\ \A i \in 1..Len(log) : log'[i] = log[i]
         /\ log'[Len(log) + 1] = e
  BY DEF TypeInv, TypeOK

\* A recorded id stays settled while the log only grows.
LEMMA SettledKept ==
  ASSUME TypeInv, NEW c \in Nat, NEW e \in Intents,
         log' = log \/ log' = Append(log, e),
         permit \in Nat, permit' \in Nat, permit <= permit', Settled(c)
  PROVE  c <= Len(log') /\ \A i \in 1..Len(log') : i <= c /\ OwnerHold(i)' => i <= permit'
<1>1. CASE log' = log
  BY <1>1 DEF Settled, Answered, OwnerHold
<1>2. CASE log' = Append(log, e)
  BY <1>2, Appended DEF Settled, Answered, OwnerHold
<1> QED
  BY <1>1, <1>2

\* The event of a transition is written: what it claimed is settled.
LEMMA ClaimedKept ==
  ASSUME TypeInv, NEW c \in Nat, NEW p \in {"sup", "macro"}, NEW e \in Intents,
         log' = Append(log, e), e.by = fence.by,
         permit' = permit, Claimed(c, p)
  PROVE  c <= Len(log') /\ \A i \in 1..Len(log') : i <= c /\ OwnerHold(i)' => i <= permit'
<1>1. CASE c <= Len(log)
  BY <1>1, Appended DEF Claimed, Answered, OwnerHold
<1>2. CASE c = Len(log) + 1 /\ fence.by = p
  BY <1>2, Appended DEF Claimed, Answered, OwnerHold
<1> QED
  BY <1>1, <1>2 DEF Claimed

\* The fence is taken for a transition: the log and what it says are as before.
LEMMA HoldSet ==
  ASSUME TypeInv, HoldInv, NEW by \in Procs, NEW actor \in Actors, NEW new \in States,
         NEW kind \in {"set", "panic"}, SetFenced(by, actor, new, kind),
         permit' = permit, new # "ACTIVE",
         kind = "panic" => by = "owner",
         by \in {"owner", "drain"} => new \in {"FROZEN", "HALTED"},
         new = "RECOVERY" \/ by = "macro" => AllAnswered
  PROVE  FenceInv' /\ LogInv' /\ fence.by = "none" /\ fence'.by = by
<1>1. /\ log' = log /\ control' = control
      /\ fence'.by = by /\ fence'.new = new /\ fence'.stage # "free"
      /\ fence'.stage \in {"event", "panicEvent", "panicKv"} => control = new
      /\ fence'.stage \in {"panic", "panicEvent", "panicKv"} => kind = "panic"
  BY DEF SetFenced
<1>2. FenceInv'
  BY <1>1 DEF FenceInv, AllAnswered, OwnerHold
<1>3. LogInv'
  BY <1>1 DEF HoldInv, LogInv, AllAnswered, Answered, OwnerHold
<1>4. fence.by = "none"
  BY DEF SetFenced, Free
<1> QED
  BY <1>1, <1>2, <1>3, <1>4

\* Each part of the invariant depends on few of the variables.
LEMMA FenceFrame ==
  ASSUME FenceInv, UNCHANGED <<control, log, fence, permit>>
  PROVE  FenceInv'
  BY DEF FenceInv, AllAnswered, OwnerHold

\* The part on the log is kept by a step that leaves state, log and permit alone.
LEMMA LogFrame ==
  ASSUME LogInv, UNCHANGED <<control, log, permit>>
  PROVE  LogInv'
  BY DEF LogInv, AllAnswered, Answered, OwnerHold

\* The part on the saved status is kept when log, permit and status stay.
LEMMA StatusFrame ==
  ASSUME StatusInv, UNCHANGED <<status, log, permit>>
  PROVE  StatusInv'
  BY DEF StatusInv, Settled, Answered, OwnerHold

\* The part on MacroGuard's records is kept when they and the fence stay.
LEMMA MacroFrame ==
  ASSUME MacroInv, UNCHANGED <<macroKv, macro, log, permit>>,
         fence.by = "macro" => fence'.by = "macro"
  PROVE  MacroInv'
  BY DEF MacroInv, Settled, Claimed, Answered, OwnerHold

\* The part on the pass lock's holder is kept when its locals and request stay.
LEMMA SupFrame ==
  ASSUME SupInv, UNCHANGED <<sup, log, permit>>,
         fence.by = "sup" => fence'.by = "sup",
         req' = req \/ ~req.live \/ sup.pc \notin {"intake", "release", "releaseCas"}
  PROVE  SupInv'
  BY DEF SupInv, Settled, Claimed, Answered, OwnerHold

\* The pass lock is free, or is taken before anything is carried.
LEMMA IdleSupInv ==
  ASSUME TypeInv', sup' = IdleSup
  PROVE  SupInv'
<1>1. sup'.pc = "idle" /\ sup'.op = "none" /\ sup'.prior.cid = 0
  BY DEF IdleSup, NoStatus
<1>2. Len(log') \in Nat
  BY DEF TypeInv, TypeOK
<1> QED
  BY <1>1, <1>2 DEF SupInv, Settled, Claimed, Answered

\* The status and MacroGuard's records while the log grows or the owner is let in.
LEMMA StatusGrows ==
  ASSUME TypeInv, HoldInv, status' = status, NEW e \in Intents,
         log' = log \/ log' = Append(log, e), permit' \in Nat, permit <= permit'
  PROVE  StatusInv'
<1>1. status.cid \in Nat /\ permit \in Nat
  BY DEF TypeInv, TypeOK, Statuses
<1>2. Settled(status.cid)
  BY DEF HoldInv, StatusInv
<1> QED
  BY <1>1, <1>2, SettledKept DEF StatusInv, Settled, Answered

\* MacroGuard's records stay settled while the log only grows.
LEMMA MacroGrows ==
  ASSUME TypeInv, HoldInv, macroKv' = macroKv,
         macro' = macro \/ macro'.pc \notin {"froze", "eid"}, fence.by # "macro",
         NEW e \in Intents, log' = log \/ log' = Append(log, e), permit' \in Nat,
         permit <= permit'
  PROVE  MacroInv'
<1>1. macroKv.eid \in Nat /\ macro.id \in Nat /\ permit \in Nat
  BY DEF TypeInv, TypeOK, MacroKvs, Macros
<1>2. Settled(macroKv.eid) /\ (macro.pc \in {"froze", "eid"} => Settled(macro.id))
  BY DEF HoldInv, MacroInv, Settled, Claimed
<1> QED
  BY <1>1, <1>2, SettledKept DEF MacroInv, Settled, Claimed, Answered

\* ACTIVE is published only once every recorded hold is answered.
LEMMA HoldPublish ==
  ASSUME TypeInv, HoldInv, NEW actor \in Actors, PublishActive("sup", actor),
         UNCHANGED <<fence, status, macroKv>>,
         macro' = macro \/ macro'.pc \notin {"froze", "eid"},
         permit' \in Nat, permit <= permit', permit' <= Len(log),
         \A i \in 1..Len(log) : OwnerHold(i) => i <= permit'
  PROVE  FenceInv' /\ LogInv' /\ StatusInv' /\ MacroInv'
<1> DEFINE e == [to |-> "ACTIVE", actor |-> actor, by |-> "sup"]
<1>1. e \in Intents /\ log' = Append(log, e) /\ e.by = "sup"
  BY DEF Intents, States, Procs, PublishActive
<1> HIDE DEF e
<1>2. permit \in Nat /\ Len(log) \in Nat
  BY DEF TypeInv, TypeOK
<1>3. fence.stage = "free" /\ fence.by = "none"
  BY DEF PublishActive, Free
<1>4. FenceInv'
  BY <1>3 DEF FenceInv
<1>5. LogInv'
  <2>1. /\ Len(log') = Len(log) + 1
        /\ \A i \in 1..Len(log) : log'[i] = log[i]
        /\ log'[Len(log) + 1] = e
    BY <1>1, Appended
  <2>2. \A i \in 1..Len(log') : OwnerHold(i)' => i <= permit'
    BY <2>1, <1>1, <1>2 DEF OwnerHold
  <2>3. \A i \in 1..Len(log') : log'[i].by = "macro" => i \in 1..Len(log)
    BY <2>1, <1>1, <1>2
  <2> QED
    BY <2>1, <2>2, <2>3, <1>2 DEF LogInv, AllAnswered, Answered
<1>6. StatusInv' /\ MacroInv'
  BY <1>1, <1>3, StatusGrows, MacroGrows
<1> QED
  BY <1>4, <1>5, <1>6

-----------------------------------------------------------------------------
(* The invariant, initially and step by step.                               *)

\* With no intent recorded there is no hold to answer.
LEMMA HoldInit == Init => HoldInv
<1> SUFFICES ASSUME Init PROVE HoldInv
  OBVIOUS
<1>1. /\ control = "ACTIVE" /\ Len(log) = 0 /\ permit = 0 /\ status.cid = 0
      /\ macroKv.eid = 0 /\ macro.pc = "idle" /\ fence.by = "none"
      /\ fence.stage = "free"
  BY DEF Init, NoStatus, Free
<1>2. sup.pc \in {"idle", "read"} /\ sup.op # "rollback" /\ sup.prior.cid = 0
  BY DEF Init, BootSup, IdleSup, NoStatus
<1> QED
  BY <1>1, <1>2
  DEF HoldInv, FenceInv, LogInv, StatusInv, MacroInv, SupInv, AllAnswered, Settled,
      Claimed, Answered

\* The steps of the fence's holder, the owner, Risk, the world and the drain.
LEMMA HoldOutside ==
  ASSUME TypeInv, TypeInv', HoldInv
  PROVE  /\ FenceStep => HoldInv'
         /\ \A new \in {"FROZEN", "HALTED"} : OwnerContain(new) => HoldInv'
         /\ OwnerPanic \/ RiskStep \/ World \/ Crash => HoldInv'
         /\ \A unhalt \in BOOLEAN : AdmitRecovery(unhalt) => HoldInv'
         /\ DrainStep => HoldInv'
<1>0. FenceInv /\ LogInv /\ StatusInv /\ MacroInv /\ SupInv
  BY DEF HoldInv
<1>1. CASE PersistState
  <2>1. /\ UNCHANGED <<log, status, macroKv, sup, req, macro, permit>>
        /\ fence.stage \in {"set", "panic"} /\ control' = fence.new
        /\ fence' = [fence EXCEPT !.stage = IF @ = "panic" THEN "panicEvent" ELSE "event"]
    BY <1>1 DEF PersistState
  <2>2. /\ fence'.by = fence.by /\ fence'.new = fence.new
        /\ fence'.stage = IF fence.stage = "panic" THEN "panicEvent" ELSE "event"
    BY <2>1 DEF TypeInv, TypeOK, Fences
  <2>3. FenceInv'
    BY <1>0, <2>1, <2>2 DEF FenceInv, AllAnswered, OwnerHold
  <2>4. LogInv'
    BY <1>0, <2>1 DEF FenceInv, LogInv, AllAnswered, Answered, OwnerHold
  <2> QED
    BY <1>0, <2>1, <2>2, <2>3, <2>4, StatusFrame, MacroFrame, SupFrame DEF HoldInv
<1>2. CASE PersistEvent
  <2> DEFINE e == [to |-> fence.new, actor |-> fence.actor, by |-> fence.by]
  <2>1. /\ UNCHANGED <<control, status, macroKv, sup, req, macro, permit>>
        /\ fence.stage \in {"event", "panicEvent"}
        /\ log' = Append(log, e)
        /\ \/ fence.stage = "event" /\ fence' = Free
           \/ fence.stage = "panicEvent" /\ fence' = [fence EXCEPT !.stage = "panicKv"]
    BY <1>2 DEF PersistEvent, envVars, histVars
  <2>2. /\ e \in Intents /\ e.by = fence.by
        /\ permit \in Nat /\ Len(log) \in Nat
    BY <2>1 DEF TypeInv, TypeOK, FenceHeld, Fences, Intents
  <2>3. /\ \/ fence'.stage = "free" /\ fence'.by = "none"
           \/ /\ fence.stage = "panicEvent" /\ fence'.stage = "panicKv"
              /\ fence'.by = fence.by /\ fence'.new = fence.new
        /\ control = fence.new
    BY <1>0, <2>1 DEF Free, TypeInv, TypeOK, Fences, FenceInv
  <2> HIDE DEF e
  <2>4. /\ Len(log') = Len(log) + 1
        /\ \A i \in 1..Len(log) : log'[i] = log[i]
        /\ log'[Len(log) + 1] = e
    BY <2>1, <2>2, Appended
  <2>5. FenceInv'
    BY <1>0, <2>1, <2>3 DEF FenceInv
  <2>6. control \in {"ACTIVE", "RECOVERY"} \/ e.by = "macro" =>
          \A i \in 1..Len(log') : OwnerHold(i)' => i <= permit'
    <3> SUFFICES ASSUME control \in {"ACTIVE", "RECOVERY"} \/ e.by = "macro"
                 PROVE  \A i \in 1..Len(log') : OwnerHold(i)' => i <= permit'
      OBVIOUS
    <3>1. e.by \notin {"owner", "drain"}
      BY <1>0, <2>1, <2>2, <2>3 DEF FenceInv
    <3>2. AllAnswered
      BY <1>0, <2>1, <2>2 DEF FenceInv, LogInv
    <3> QED
      BY <2>1, <2>2, <2>4, <3>1, <3>2 DEF AllAnswered, OwnerHold
  <2>7. LogInv'
    <3>1. permit' <= Len(log')
      BY <1>0, <2>1, <2>2, <2>4 DEF LogInv
    <3>2. control' \in {"ACTIVE", "RECOVERY"} => AllAnswered'
      BY <2>1, <2>6 DEF AllAnswered
    <3>3. ASSUME NEW i \in 1..Len(log'), log'[i].by = "macro" PROVE Answered(i)'
      <4>1. CASE i \in 1..Len(log)
        BY <1>0, <2>1, <2>2, <2>4, <3>3, <4>1 DEF LogInv, Answered, OwnerHold
      <4>2. CASE i = Len(log) + 1
        BY <2>4, <2>6, <3>3, <4>2 DEF Answered
      <4> QED
        BY <2>2, <2>4, <4>1, <4>2
    <3> QED
      BY <3>1, <3>2, <3>3 DEF LogInv
  <2>8. StatusInv'
    BY <2>1, <2>2, StatusGrows
  <2>9. MacroInv'
    <3>1. macroKv.eid \in Nat /\ macro.id \in Nat
      BY DEF TypeInv, TypeOK, MacroKvs, Macros
    <3>2. Settled(macroKv.eid)'
      BY <1>0, <2>1, <2>2, <3>1, SettledKept DEF MacroInv, Settled, Answered
    <3>3. macro.pc \in {"froze", "eid"} => Settled(macro.id)'
      BY <1>0, <2>1, <2>2, <3>1, ClaimedKept DEF MacroInv, Settled, Answered
    <3> QED
      BY <2>1, <3>2, <3>3 DEF MacroInv, Claimed, Settled
  <2>10. SupInv'
    <3>1. sup.prior.cid \in Nat /\ sup.id \in Nat
      BY SupFields
    <3>2. Claimed(sup.prior.cid, "sup") => Settled(sup.prior.cid)'
      BY <2>1, <2>2, <3>1, ClaimedKept DEF Settled, Answered
    <3>3. Claimed(sup.id, "sup") => Settled(sup.id)'
      BY <2>1, <2>2, <3>1, ClaimedKept DEF Settled, Answered
    <3>4. Settled(sup.id) => Settled(sup.id)'
      BY <2>1, <2>2, <3>1, SettledKept DEF Settled, Answered
    <3> QED
      BY <1>0, <2>1, <3>2, <3>3, <3>4 DEF SupInv, Claimed, Settled
  <2> QED
    BY <2>5, <2>7, <2>8, <2>9, <2>10 DEF HoldInv
<1>3. CASE PersistPanic
  <2>1. /\ UNCHANGED <<control, log, status, macroKv, sup, req, macro, permit>>
        /\ fence.stage = "panicKv" /\ fence' = Free
    BY <1>3 DEF PersistPanic, kvVars, histVars
  <2>2. fence.by = "owner" /\ fence'.by = "none" /\ fence'.stage = "free"
    BY <1>0, <2>1 DEF FenceInv, Free
  <2>3. FenceInv' /\ LogInv'
    BY <1>0, <2>1, <2>2, LogFrame DEF FenceInv
  <2> QED
    BY <1>0, <2>1, <2>2, <2>3, StatusFrame, MacroFrame, SupFrame DEF HoldInv
<1>4. ASSUME NEW new \in {"FROZEN", "HALTED"}, OwnerContain(new) PROVE HoldInv'
  <2>1. /\ UNCHANGED <<status, macroKv, sup, req, macro, permit>>
        /\ SetFenced("owner", "owner", new, "set") /\ UNCHANGED <<control, log>>
    BY <1>4 DEF OwnerContain, histVars, SetFenced
  <2>2. FenceInv' /\ LogInv' /\ fence.by = "none" /\ fence'.by = "owner"
    BY <2>1, HoldSet DEF Procs, Actors, States
  <2> QED
    BY <1>0, <2>1, <2>2, StatusFrame, MacroFrame, SupFrame DEF HoldInv
<1>5. CASE OwnerPanic
  <2>1. PICK new \in {"FROZEN", "HALTED"} :
          /\ UNCHANGED <<status, macroKv, sup, req, macro, permit>>
          /\ SetFenced("owner", "owner", new, "panic") /\ UNCHANGED <<control, log>>
    BY <1>5 DEF OwnerPanic, histVars, SetFenced
  <2>2. FenceInv' /\ LogInv' /\ fence.by = "none" /\ fence'.by = "owner"
    BY <2>1, HoldSet DEF Procs, Actors, States
  <2> QED
    BY <1>0, <2>1, <2>2, StatusFrame, MacroFrame, SupFrame DEF HoldInv
<1>6. CASE RiskStep
  <2>1. PICK new \in {"FROZEN", "HALTED"} :
          /\ UNCHANGED <<status, macroKv, sup, req, macro, permit>>
          /\ SetFenced("risk", "risk_engine", new, "set") /\ UNCHANGED <<control, log>>
    BY <1>6 DEF RiskStep, histVars, SetFenced
  <2>2. FenceInv' /\ LogInv' /\ fence.by = "none" /\ fence'.by = "risk"
    BY <2>1, HoldSet DEF Procs, Actors, States
  <2> QED
    BY <1>0, <2>1, <2>2, StatusFrame, MacroFrame, SupFrame DEF HoldInv
<1>7. CASE World
  <2>1. UNCHANGED <<control, log, fence, status, macroKv, sup, req, macro, permit>>
    BY <1>7 DEF World, kvVars, histVars
  <2> QED
    BY <1>0, <2>1, FenceFrame, LogFrame, StatusFrame, MacroFrame, SupFrame DEF HoldInv
<1>8. CASE Crash
  <2>1. /\ UNCHANGED <<control, log, status, macroKv, permit>>
        /\ fence' = Free /\ macro' = [pc |-> "idle", id |-> 0]
        /\ sup' = BootSup(market')
    BY <1>8 DEF Crash, kvVars, histVars
  <2>2. /\ fence'.by = "none" /\ fence'.stage = "free"
        /\ sup'.pc \in {"idle", "read"} /\ sup'.op # "rollback" /\ sup'.prior.cid = 0
    BY <2>1 DEF Free, BootSup, IdleSup, NoStatus
  <2>3. FenceInv' /\ LogInv'
    BY <1>0, <2>1, <2>2, LogFrame DEF FenceInv
  <2>4. MacroInv'
    BY <1>0, <2>1 DEF MacroInv, Settled, Answered, OwnerHold
  <2>5. SupInv'
    BY <2>2 DEF SupInv, Settled, Claimed, Answered, TypeInv, TypeOK
  <2> QED
    BY <1>0, <2>1, <2>3, <2>4, <2>5, StatusFrame DEF HoldInv
<1>9. ASSUME NEW unhalt \in BOOLEAN, AdmitRecovery(unhalt) PROVE HoldInv'
  <2>1. UNCHANGED <<control, log, fence, status, macroKv, sup, macro, permit>> /\ ~req.live
    BY <1>9 DEF AdmitRecovery, kvVars, histVars
  <2> QED
    BY <1>0, <2>1, FenceFrame, LogFrame, StatusFrame, MacroFrame, SupFrame DEF HoldInv
<1>10. ASSUME DrainStart \/ \E c \in BOOLEAN : DrainFlattened(c) PROVE HoldInv'
  <2>1. UNCHANGED <<control, log, fence, status, macroKv, sup, req, macro, permit>>
    BY <1>10 DEF DrainStart, DrainFlattened, kvVars, histVars
  <2> QED
    BY <1>0, <2>1, FenceFrame, LogFrame, StatusFrame, MacroFrame, SupFrame DEF HoldInv
<1>11. CASE DrainSettle
  <2>1. UNCHANGED <<control, log, status, macroKv, sup, req, macro, permit>>
    BY <1>11 DEF DrainSettle, kvVars, histVars, SetFenced
  <2>2. CASE fence' = fence
    BY <1>0, <2>1, <2>2, FenceFrame, LogFrame, StatusFrame, MacroFrame, SupFrame
    DEF HoldInv
  <2>3. CASE SetFenced("drain", "owner", "FROZEN", "set")
    <3>1. FenceInv' /\ LogInv' /\ fence.by = "none" /\ fence'.by = "drain"
      BY <2>1, <2>3, HoldSet DEF Procs, Actors, States
    <3> QED
      BY <1>0, <2>1, <3>1, StatusFrame, MacroFrame, SupFrame DEF HoldInv
  <2> QED
    BY <1>11, <2>2, <2>3 DEF DrainSettle
<1> QED
  BY <1>1, <1>2, <1>3, <1>4, <1>5, <1>6, <1>7, <1>8, <1>9, <1>10, <1>11
  DEF FenceStep, DrainStep

\* The steps of a Supervisor pass.
LEMMA HoldPass ==
  ASSUME TypeInv, TypeInv', HoldInv
  PROVE  /\ StartCadence \/ Trigger \/ ReadStatus \/ Contain \/ ContainSave => HoldInv'
         /\ Enter \/ Detect \/ Examine => HoldInv'
         /\ \A v \in {"safe", "minor", "serious"} : Verify(v) => HoldInv'
         /\ Prove \/ Activate \/ Finish => HoldInv'
<1>0. FenceInv /\ LogInv /\ StatusInv /\ MacroInv /\ SupInv
  BY DEF HoldInv
<1>a. /\ permit \in Nat /\ Len(log) \in Nat /\ sup.prior.cid \in Nat /\ sup.id \in Nat
      /\ status.cid \in Nat /\ watermark = Len(log)
  BY SupFields DEF TypeInv, TypeOK, watermark, Statuses
<1>1. CASE StartCadence \/ Trigger
  <2>1. PICK op \in {"cadence", "trigger"} :
          sup' = [IdleSup EXCEPT !.pc = "read", !.op = op]
    BY <1>1 DEF StartCadence, Trigger
  <2>2. UNCHANGED <<control, log, fence, status, macroKv, req, macro, permit>>
    BY <1>1 DEF StartCadence, Trigger, kvVars, histVars
  <2>3. sup'.pc = "read" /\ sup'.op # "rollback" /\ sup'.prior.cid = 0
    BY <2>1 DEF IdleSup, NoStatus
  <2>4. SupInv'
    BY <1>a, <2>2, <2>3 DEF SupInv, Settled, Claimed, Answered
  <2> QED
    BY <1>0, <2>2, <2>4, FenceFrame, LogFrame, StatusFrame, MacroFrame DEF HoldInv
<1>2. CASE ReadStatus
  <2>1. /\ UNCHANGED <<control, log, fence, macroKv, req, macro, permit>>
        /\ status' = NoStatus \/ status' = status
        /\ \E pc \in {"contain", "enter"} :
             sup' = [sup EXCEPT !.prior = status', !.st = control, !.pc = pc]
    BY <1>2 DEF ReadStatus, kvVars, supOnly, histVars
  <2>2. /\ sup'.pc \in {"contain", "enter"} /\ sup'.prior = status'
        /\ sup'.id = sup.id /\ sup'.op = sup.op /\ sup'.from = sup.from
    BY <2>1 DEF TypeInv, TypeOK, Sups
  <2>3. StatusInv'
    BY <1>0, <1>a, <2>1 DEF StatusInv, Settled, Answered, OwnerHold, NoStatus
  <2>4. SupInv'
    BY <1>0, <2>1, <2>2, <2>3
    DEF SupInv, StatusInv, Settled, Claimed, Answered, OwnerHold
  <2> QED
    BY <1>0, <2>1, <2>3, <2>4, FenceFrame, LogFrame, MacroFrame DEF HoldInv
<1>3. CASE Contain
  <2>1. UNCHANGED <<control, log, status, macroKv, req, macro, permit>>
    BY <1>3 DEF Contain, SetFenced, kvVars, supOnly, histVars
  <2>2. CASE control = "ACTIVE"
    <3>1. /\ SetFenced("sup", "supervisor", "FROZEN", "set")
          /\ sup' = [sup EXCEPT !.pc = "containSave", !.id = watermark + 1]
      BY <1>3, <2>2 DEF Contain, Expected
    <3>2. FenceInv' /\ LogInv' /\ fence.by = "none" /\ fence'.by = "sup"
      BY <2>1, <3>1, HoldSet DEF Procs, Actors, States
    <3>3. /\ sup'.pc = "containSave" /\ sup'.id = Len(log) + 1 /\ sup'.op = sup.op
          /\ sup'.from = sup.from /\ sup'.prior = sup.prior
      BY <1>a, <3>1 DEF TypeInv, TypeOK, Sups
    <3>4. SupInv'
      BY <1>0, <1>a, <1>3, <2>1, <2>2, <3>2, <3>3
      DEF Contain, SupInv, LogInv, AllAnswered, Settled, Claimed, Answered, OwnerHold
    <3> QED
      BY <1>0, <2>1, <3>2, <3>4, StatusFrame, MacroFrame DEF HoldInv
  <2>3. CASE control # "ACTIVE"
    <3>1. PICK pc \in {"detect", "enter"} : sup' = [sup EXCEPT !.pc = pc, !.st = control]
      BY <1>3, <2>3 DEF Contain, Expected
    <3>2. fence' = fence
      BY <1>3, <2>3 DEF Contain, Expected
    <3>3. /\ sup'.pc \in {"detect", "enter"} /\ sup'.id = sup.id /\ sup'.op = sup.op
          /\ sup'.from = sup.from /\ sup'.prior = sup.prior
      BY <3>1 DEF TypeInv, TypeOK, Sups
    <3>4. SupInv'
      BY <1>0, <1>3, <2>1, <3>2, <3>3
      DEF Contain, SupInv, Settled, Claimed, Answered, OwnerHold
    <3> QED
      BY <1>0, <2>1, <3>2, <3>4, FenceFrame, LogFrame, StatusFrame, MacroFrame DEF HoldInv
  <2> QED
    BY <2>2, <2>3
<1>4. CASE ContainSave
  <2>1. /\ UNCHANGED <<control, log, fence, macroKv, req, macro, permit>>
        /\ sup.pc = "containSave" /\ fence.by # "sup"
        /\ status' = [sup.prior EXCEPT !.owned = TRUE, !.cid = sup.id, !.safe = FALSE]
        /\ \E st \in States :
             sup' = [sup EXCEPT !.pc = "enter", !.prior = status', !.st = st]
    BY <1>4 DEF ContainSave, kvVars, supOnly, histVars, TypeInv, TypeOK, States
  <2>2. status'.cid = sup.id
    BY <2>1, SupFields DEF Statuses
  <2>3. /\ sup'.pc = "enter" /\ sup'.prior = status' /\ sup'.id = sup.id
        /\ sup'.op = sup.op /\ sup'.from = sup.from
    BY <2>1 DEF TypeInv, TypeOK, Sups
  <2>4. StatusInv' /\ SupInv'
    BY ZenonT(60), <1>0, <2>1, <2>2, <2>3
    DEF StatusInv, SupInv, Settled, Claimed, Answered, OwnerHold
  <2> QED
    BY <1>0, <2>1, <2>4, FenceFrame, LogFrame, MacroFrame DEF HoldInv
<1>5. CASE Enter
  <2>1. /\ UNCHANGED <<control, log, status, macroKv, req, macro, permit>>
        /\ sup.pc = "enter"
        /\ \E pc \in {"detect", "examine"} :
             \/ /\ SetFenced("sup", "supervisor", "RECOVERY", "set")
                /\ sup.prior.cid = watermark
                /\ sup' = [sup EXCEPT !.pc = pc, !.st = "RECOVERY",
                                      !.prior.cid = watermark + 1]
             \/ fence' = fence /\ sup' = [sup EXCEPT !.pc = pc]
    BY <1>5 DEF Enter, SetFenced, Owned, kvVars, supOnly, histVars
  <2>2. CASE fence' = fence /\ \E pc \in {"detect", "examine"} : sup' = [sup EXCEPT !.pc = pc]
    <3>1. /\ sup'.pc \in {"detect", "examine"} /\ sup'.prior = sup.prior
          /\ sup'.id = sup.id /\ sup'.op = sup.op /\ sup'.from = sup.from
      BY <2>2 DEF TypeInv, TypeOK, Sups
    <3>2. SupInv'
      BY <1>0, <2>1, <2>2, <3>1 DEF SupInv, Settled, Claimed, Answered, OwnerHold
    <3> QED
      BY <1>0, <2>1, <2>2, <3>2, FenceFrame, LogFrame, StatusFrame, MacroFrame DEF HoldInv
  <2>3. CASE /\ SetFenced("sup", "supervisor", "RECOVERY", "set")
             /\ sup.prior.cid = watermark
             /\ \E pc \in {"detect", "examine"} :
                  sup' = [sup EXCEPT !.pc = pc, !.st = "RECOVERY",
                                     !.prior.cid = watermark + 1]
    <3>1. AllAnswered
      BY <1>0, <1>a, <2>1, <2>3 DEF SupInv, Settled, Answered, AllAnswered
    <3>2. FenceInv' /\ LogInv' /\ fence.by = "none" /\ fence'.by = "sup"
      BY <2>1, <2>3, <3>1, HoldSet DEF Procs, Actors, States
    <3>3. /\ sup'.pc \in {"detect", "examine"} /\ sup'.prior.cid = Len(log) + 1
          /\ sup'.id = sup.id /\ sup'.op = sup.op /\ sup'.from = sup.from
      BY <1>a, <2>3, SupFields DEF TypeInv, TypeOK, Sups, Statuses
    <3>4. SupInv'
      BY <1>0, <1>a, <2>1, <3>1, <3>2, <3>3
      DEF SupInv, AllAnswered, Settled, Claimed, Answered, OwnerHold
    <3> QED
      BY <1>0, <2>1, <3>2, <3>4, StatusFrame, MacroFrame DEF HoldInv
  <2> QED
    BY <2>1, <2>2, <2>3
<1>6. CASE Detect
  <2>1. /\ UNCHANGED <<control, log, fence, macroKv, req, macro, permit>>
        /\ sup' = IdleSup /\ fence.by # "sup"
        /\ \E own \in BOOLEAN, cid \in {0, sup.prior.cid} :
             status' = [sup.prior EXCEPT !.owned = own, !.cid = cid, !.safe = FALSE]
    BY <1>6, SupFields DEF Detect, Owned, kvVars, supOnly, histVars
  <2>2. status'.cid \in {0, sup.prior.cid}
    BY <2>1, SupFields DEF Statuses
  <2>3. StatusInv'
    BY <1>0, <1>a, <2>1, <2>2
    DEF StatusInv, SupInv, Settled, Claimed, Answered, OwnerHold
  <2>4. SupInv'
    BY <2>1, IdleSupInv
  <2> QED
    BY <1>0, <2>1, <2>3, <2>4, FenceFrame, LogFrame, MacroFrame DEF HoldInv
<1>7. CASE Examine
  <2>1. /\ UNCHANGED <<control, log, fence, status, macroKv, req, macro, permit>>
        /\ fence.by # "sup"
        /\ sup' = [sup EXCEPT !.pc = "verify", !.owned = Owned(sup.prior, sup.st)]
    BY <1>7 DEF Examine, kvVars, supOnly, histVars
  <2>2. /\ sup'.pc = "verify" /\ sup'.prior = sup.prior
        /\ sup'.id = sup.id /\ sup'.op = sup.op /\ sup'.from = sup.from
    BY <2>1 DEF TypeInv, TypeOK, Sups
  <2>3. SupInv'
    BY <1>0, <2>1, <2>2 DEF SupInv, Settled, Claimed, Answered, OwnerHold
  <2> QED
    BY <1>0, <2>1, <2>3, FenceFrame, LogFrame, StatusFrame, MacroFrame DEF HoldInv
<1>8. ASSUME NEW v \in {"safe", "minor", "serious"}, Verify(v) PROVE HoldInv'
  <2>1. UNCHANGED <<control, log, fence, status, macroKv, req, macro, permit>>
    BY <1>8 DEF Verify, kvVars, supOnly, histVars
  <2>2. /\ sup.pc = "verify" /\ sup'.pc \in {"prove", "finish"} /\ sup'.prior = sup.prior
        /\ sup'.id = sup.id /\ sup'.op = sup.op /\ sup'.from = sup.from
    BY <1>8 DEF Verify, TypeInv, TypeOK, Sups
  <2>3. SupInv'
    BY <1>0, <2>1, <2>2 DEF SupInv, Settled, Claimed, Answered, OwnerHold
  <2> QED
    BY <1>0, <2>1, <2>3, FenceFrame, LogFrame, StatusFrame, MacroFrame DEF HoldInv
<1>9. CASE Prove
  <2>1. /\ UNCHANGED <<control, log, fence, macroKv, req, macro, permit>>
        /\ sup.pc = "prove" /\ status'.cid = sup.prior.cid
        /\ sup' = [sup EXCEPT !.pc = "activate"]
    BY <1>9 DEF Prove, kvVars, supOnly, histVars
  <2>2. /\ sup'.pc = "activate" /\ sup'.prior = sup.prior
        /\ sup'.id = sup.id /\ sup'.op = sup.op /\ sup'.from = sup.from
    BY <2>1 DEF TypeInv, TypeOK, Sups
  <2>3. StatusInv' /\ SupInv'
    BY <1>0, <2>1, <2>2 DEF StatusInv, SupInv, Settled, Claimed, Answered, OwnerHold
  <2> QED
    BY <1>0, <2>1, <2>3, FenceFrame, LogFrame, MacroFrame DEF HoldInv
<1>10. CASE Activate
  <2>1. /\ UNCHANGED <<fence, status, macroKv, req, macro, permit>>
        /\ sup.pc = "activate" /\ fence = Free
        /\ \/ control = "RECOVERY" /\ PublishActive("sup", "supervisor")
           \/ UNCHANGED <<control, log>>
        /\ \E own \in BOOLEAN, safe \in BOOLEAN :
             sup' = [sup EXCEPT !.pc = "finish", !.owned = own, !.safe = safe]
    <3>1. Expected("RECOVERY") = (control = "RECOVERY")
      BY DEF Expected
    <3>2. \E own \in BOOLEAN, safe \in BOOLEAN :
             sup' = [sup EXCEPT !.pc = "finish", !.owned = own, !.safe = safe]
      BY <1>10 DEF Activate
    <3> QED
      BY <1>10, <3>1, <3>2 DEF Activate, kvVars, supOnly, histVars
  <2>2. /\ sup'.pc = "finish" /\ sup'.prior = sup.prior
        /\ sup'.id = sup.id /\ sup'.op = sup.op /\ sup'.from = sup.from
    BY <2>1 DEF TypeInv, TypeOK, Sups
  <2>3. CASE UNCHANGED <<control, log>>
    <3>1. SupInv'
      BY <1>0, <2>1, <2>2, <2>3 DEF SupInv, Settled, Claimed, Answered, OwnerHold
    <3> QED
      BY <1>0, <2>1, <2>3, <3>1, FenceFrame, LogFrame, StatusFrame, MacroFrame DEF HoldInv
  <2>4. CASE control = "RECOVERY" /\ PublishActive("sup", "supervisor")
    <3>1. FenceInv' /\ LogInv' /\ StatusInv' /\ MacroInv'
      BY <1>0, <1>a, <2>1, <2>4, HoldPublish DEF LogInv, AllAnswered, Actors
    <3>2. SupInv'
      <4> DEFINE e == [to |-> "ACTIVE", actor |-> "supervisor", by |-> "sup"]
      <4>1. e \in Intents /\ log' = Append(log, e)
        BY <2>4 DEF Intents, States, Actors, Procs, PublishActive
      <4> HIDE DEF e
      <4>2. Settled(sup.prior.cid) /\ Settled(sup.prior.cid)'
        BY SMTT(30), <1>0, <1>a, <2>1, <2>2, <4>1, SettledKept DEF SupInv, Settled, Answered
      <4>3. Claimed(sup.id, "sup") => Settled(sup.id)'
        BY SMTT(30), <1>0, <1>a, <2>1, <2>2, <4>1, SettledKept
        DEF Claimed, Settled, Answered, Free
      <4> QED
        BY <1>0, <2>1, <2>2, <4>2, <4>3 DEF SupInv, Settled, Claimed
    <3> QED
      BY <3>1, <3>2 DEF HoldInv
  <2> QED
    BY <2>1, <2>3, <2>4
<1>11. CASE Finish
  <2>1. /\ UNCHANGED <<control, log, fence, macroKv, req, permit>>
        /\ sup.pc = "finish" /\ status'.cid \in {0, sup.prior.cid}
        /\ macro' = macro \/ macro' = [macro EXCEPT !.pc = "disown"]
        /\ \/ sup.op = "rollback" /\ sup' = [sup EXCEPT !.pc = "rbFinal"]
           \/ sup' = IdleSup
    BY <1>11 DEF Finish, kvVars, histVars
  <2>2. StatusInv'
    BY <1>0, <1>a, <2>1 DEF StatusInv, SupInv, Settled, Claimed, Answered, OwnerHold
  <2>3. macro' = macro \/ macro'.pc = "disown"
    BY <2>1 DEF TypeInv, TypeOK, Macros
  <2>4. MacroInv'
    BY <1>0, <2>1, <2>3 DEF MacroInv, Settled, Claimed, Answered, OwnerHold
  <2>5. CASE sup' = IdleSup
    BY <1>0, <2>1, <2>2, <2>4, <2>5, IdleSupInv, FenceFrame, LogFrame DEF HoldInv
  <2>6. CASE sup.op = "rollback" /\ sup' = [sup EXCEPT !.pc = "rbFinal"]
    <3>1. /\ sup'.pc = "rbFinal" /\ sup'.prior = sup.prior
          /\ sup'.id = sup.id /\ sup'.op = sup.op /\ sup'.from = sup.from
      BY <2>6 DEF TypeInv, TypeOK, Sups
    <3>2. SupInv'
      BY <1>0, <2>1, <2>6, <3>1 DEF SupInv, Settled, Claimed, Answered, OwnerHold
    <3> QED
      BY <1>0, <2>1, <2>2, <2>4, <3>2, FenceFrame, LogFrame DEF HoldInv
  <2> QED
    BY <2>1, <2>5, <2>6
<1> QED
  BY <1>1, <1>2, <1>3, <1>4, <1>5, <1>6, <1>7, <1>8, <1>9, <1>10, <1>11

\* The owner's recovery: it alone moves the permit.
LEMMA HoldRecovery ==
  ASSUME TypeInv, TypeInv', HoldInv
  PROVE  StartRecovery \/ RefuseBusy \/ Intake \/ Granted \/ ReadRelease \/ ReleaseCas
           => HoldInv'
<1>0. FenceInv /\ LogInv /\ StatusInv /\ MacroInv /\ SupInv
  BY DEF HoldInv
<1>a. /\ permit \in Nat /\ Len(log) \in Nat /\ sup.prior.cid \in Nat /\ sup.id \in Nat
      /\ status.cid \in Nat /\ watermark = Len(log) /\ req.admitted \in Nat
  BY SupFields DEF TypeInv, TypeOK, watermark, Statuses, Reqs
<1>1. CASE StartRecovery
  <2>1. /\ UNCHANGED <<control, log, fence, status, macroKv, req, macro, permit>>
        /\ req.live
        /\ \E pc \in {"intake", "release"}, r \in BOOLEAN :
             sup' = [IdleSup EXCEPT !.pc = pc, !.op = "recover", !.id = watermark,
                                    !.risk = r]
    BY <1>1 DEF StartRecovery, kvVars, histVars
  <2>2. sup'.pc \in {"intake", "release"} /\ sup'.op = "recover" /\ sup'.prior.cid = 0
    BY <2>1 DEF IdleSup, NoStatus
  <2>3. SupInv'
    BY <1>a, <2>1, <2>2 DEF SupInv, Settled, Claimed, Answered
  <2> QED
    BY <1>0, <2>1, <2>3, FenceFrame, LogFrame, StatusFrame, MacroFrame DEF HoldInv
<1>2. CASE RefuseBusy
  <2>1. /\ UNCHANGED <<control, log, fence, status, macroKv, sup, macro, permit>>
        /\ sup.op # "recover"
    BY <1>2 DEF RefuseBusy, kvVars, histVars
  <2>2. SupInv'
    BY <1>0, <2>1, SupFrame DEF SupInv
  <2> QED
    BY <1>0, <2>1, <2>2, FenceFrame, LogFrame, StatusFrame, MacroFrame DEF HoldInv
<1>3. CASE Intake
  <2>1. UNCHANGED <<log, control, status, macroKv, macro>> /\ fence.by = "none"
    BY <1>3 DEF Intake, SetFenced, kvVars, Free
  <2>2. \/ sup' = IdleSup /\ UNCHANGED <<fence, permit>>
        \/ /\ permit' = Len(log) /\ control # "ACTIVE"
           /\ \/ control = "RECOVERY" /\ fence' = fence
                 /\ sup' = [sup EXCEPT !.pc = "granted", !.id = watermark]
              \/ SetFenced("sup", "owner", "RECOVERY", "set")
                 /\ sup' = [sup EXCEPT !.pc = "granted", !.id = watermark + 1]
    BY <1>3, <1>a DEF Intake, IntakeRefused
  <2>3. CASE sup' = IdleSup /\ UNCHANGED <<fence, permit>>
    BY <1>0, <2>1, <2>3, IdleSupInv, FenceFrame, LogFrame, StatusFrame, MacroFrame
    DEF HoldInv
  <2>4. CASE /\ permit' = Len(log) /\ control # "ACTIVE"
             /\ \/ control = "RECOVERY" /\ fence' = fence
                   /\ sup' = [sup EXCEPT !.pc = "granted", !.id = watermark]
                \/ SetFenced("sup", "owner", "RECOVERY", "set")
                   /\ sup' = [sup EXCEPT !.pc = "granted", !.id = watermark + 1]
    \* Every hold recorded so far is answered.
    <3>1. \A c \in Nat : \A i \in 1..Len(log') : i <= c /\ OwnerHold(i)' => i <= permit'
      BY <1>a, <2>1, <2>4
    <3>2. LogInv' /\ StatusInv' /\ MacroInv'
      <4>1. macroKv.eid \in Nat /\ macro.id \in Nat
        BY DEF TypeInv, TypeOK, MacroKvs, Macros
      <4>2. macroKv.eid <= Len(log) /\ status.cid <= Len(log)
        BY <1>0 DEF StatusInv, MacroInv, Settled
      <4>3. macro.pc \in {"froze", "eid"} => macro.id <= Len(log)
        BY <1>0, <2>1 DEF MacroInv, Claimed
      <4> QED
        BY <1>0, <1>a, <2>1, <2>4, <3>1, <4>1, <4>2, <4>3
        DEF LogInv, StatusInv, MacroInv, Settled, Claimed, Answered, AllAnswered
    <3>3. sup.pc = "intake" /\ sup.op # "rollback" /\ Settled(sup.prior.cid)
      BY <1>0, <1>3 DEF Intake, SupInv
    <3>4. CASE control = "RECOVERY" /\ fence' = fence
                /\ sup' = [sup EXCEPT !.pc = "granted", !.id = watermark]
      <4>1. /\ sup'.pc = "granted" /\ sup'.prior = sup.prior
            /\ sup'.id = Len(log) /\ sup'.op = sup.op
        BY <1>a, <3>4 DEF TypeInv, TypeOK, Sups
      <4>2. SupInv'
        BY SMTT(30), <1>a, <2>1, <3>1, <3>3, <4>1 DEF SupInv, Settled, Claimed, Answered
      <4>3. FenceInv'
        BY <1>0, <1>3, <2>1, <3>4 DEF FenceInv, Intake, Free
      <4> QED
        BY <3>2, <4>2, <4>3 DEF HoldInv
    <3>5. CASE SetFenced("sup", "owner", "RECOVERY", "set")
                /\ sup' = [sup EXCEPT !.pc = "granted", !.id = watermark + 1]
      <4>1. /\ sup'.pc = "granted" /\ sup'.prior = sup.prior
            /\ sup'.id = Len(log) + 1 /\ sup'.op = sup.op
        BY <1>a, <3>5 DEF TypeInv, TypeOK, Sups
      <4>2. /\ fence'.by = "sup" /\ fence'.new = "RECOVERY"
            /\ fence'.stage = IF control = "RECOVERY" THEN "event" ELSE "set"
        BY <3>5 DEF SetFenced
      <4>3. SupInv'
        BY <1>a, <2>1, <3>1, <3>3, <4>1, <4>2 DEF SupInv, Settled, Claimed, Answered
      <4>4. FenceInv'
        BY <1>a, <2>1, <3>1, <4>2 DEF FenceInv, AllAnswered
      <4> QED
        BY <3>2, <4>3, <4>4 DEF HoldInv
    <3> QED
      BY <2>4, <3>4, <3>5
  <2> QED
    BY <2>2, <2>3, <2>4
<1>4. CASE Granted
  <2>1. /\ UNCHANGED <<control, log, fence, macroKv, req, macro, permit>>
        /\ sup.pc = "granted" /\ fence.by # "sup"
        /\ status' = [NoStatus EXCEPT !.owned = TRUE, !.cid = sup.id]
        /\ sup' = [sup EXCEPT !.pc = "read"]
    BY <1>4 DEF Granted, kvVars, supOnly, histVars
  <2>2. status'.cid = sup.id
    BY <2>1 DEF NoStatus
  <2>3. /\ sup'.pc = "read" /\ sup'.prior = sup.prior
        /\ sup'.id = sup.id /\ sup'.op = sup.op /\ sup'.from = sup.from
    BY <2>1 DEF TypeInv, TypeOK, Sups
  <2>4. StatusInv' /\ SupInv'
    BY <1>0, <2>1, <2>2, <2>3
    DEF StatusInv, SupInv, Settled, Claimed, Answered, OwnerHold
  <2> QED
    BY <1>0, <2>1, <2>4, FenceFrame, LogFrame, MacroFrame DEF HoldInv
<1>5. CASE ReadRelease
  <2>1. /\ UNCHANGED <<control, log, fence, status, macroKv, macro, permit>>
        /\ sup.pc = "release"
        /\ \/ sup' = IdleSup
           \/ /\ watermark = req.admitted /\ req' = req
              /\ \E r \in BOOLEAN :
                   sup' = [sup EXCEPT !.pc = "releaseCas", !.id = watermark, !.risk = r]
    BY <1>5 DEF ReadRelease, Releasable, kvVars, histVars
  <2>2. CASE sup' = IdleSup
    BY <1>0, <2>1, <2>2, IdleSupInv, FenceFrame, LogFrame, StatusFrame, MacroFrame
    DEF HoldInv
  <2>3. CASE /\ watermark = req.admitted /\ req' = req
             /\ \E r \in BOOLEAN :
                  sup' = [sup EXCEPT !.pc = "releaseCas", !.id = watermark, !.risk = r]
    <3>1. /\ sup'.pc = "releaseCas" /\ sup'.prior = sup.prior
          /\ sup'.id = req.admitted /\ sup'.op = sup.op /\ sup'.from = sup.from
      BY <2>3 DEF TypeInv, TypeOK, Sups
    <3>2. SupInv'
      BY <1>0, <2>1, <2>3, <3>1 DEF SupInv, Settled, Claimed, Answered, OwnerHold
    <3> QED
      BY <1>0, <2>1, <3>2, FenceFrame, LogFrame, StatusFrame, MacroFrame DEF HoldInv
  <2> QED
    BY <2>1, <2>2, <2>3
<1>6. CASE ReleaseCas
  <2>1. /\ UNCHANGED <<fence, status, macroKv, macro>> /\ sup' = IdleSup
        /\ fence = Free
        /\ \/ /\ PublishActive("sup", "owner") /\ permit' = req.admitted
              /\ watermark = sup.id
           \/ UNCHANGED <<control, log, permit>>
    BY <1>6 DEF ReleaseCas, kvVars, histVars
  <2>2. CASE UNCHANGED <<control, log, permit>>
    BY <1>0, <2>1, <2>2, IdleSupInv, FenceFrame, LogFrame, StatusFrame, MacroFrame
    DEF HoldInv
  <2>3. CASE /\ PublishActive("sup", "owner") /\ permit' = req.admitted
             /\ watermark = sup.id
    <3>1. permit' = Len(log)
      BY <1>0, <1>6, <1>a, <2>3 DEF ReleaseCas, SupInv
    <3>2. FenceInv' /\ LogInv' /\ StatusInv' /\ MacroInv'
      BY <1>0, <1>a, <2>1, <2>3, <3>1, HoldPublish DEF LogInv, Actors
    <3> QED
      BY <2>1, <3>2, IdleSupInv DEF HoldInv
  <2> QED
    BY <2>1, <2>2, <2>3
<1> QED
  BY <1>1, <1>2, <1>3, <1>4, <1>5, <1>6

\* MacroGuard's freeze and its release.
LEMMA HoldMacro ==
  ASSUME TypeInv, TypeInv', HoldInv
  PROVE  MacroFreeze \/ MacroRecord \/ MacroRelease \/ MacroIntake => HoldInv'
<1>0. FenceInv /\ LogInv /\ StatusInv /\ MacroInv /\ SupInv
  BY DEF HoldInv
<1>a. /\ permit \in Nat /\ Len(log) \in Nat /\ sup.prior.cid \in Nat /\ sup.id \in Nat
      /\ watermark = Len(log) /\ macroKv.eid \in Nat /\ macro.id \in Nat
  BY SupFields DEF TypeInv, TypeOK, watermark, MacroKvs, Macros
<1>1. CASE MacroFreeze
  <2>1. /\ UNCHANGED <<control, log, status, macroKv, sup, req, permit>>
        /\ SetFenced("macro", "macro_guard", "FROZEN", "set") /\ control = "ACTIVE"
        /\ macro'.id = Len(log) + 1
    BY <1>1, <1>a DEF MacroFreeze, SetFenced, histVars
  <2>2. AllAnswered
    BY <1>0, <2>1 DEF LogInv
  <2>3. FenceInv' /\ LogInv' /\ fence.by = "none" /\ fence'.by = "macro"
    BY <2>1, <2>2, HoldSet DEF Procs, Actors, States
  <2>4. MacroInv'
    BY <1>0, <1>a, <2>1, <2>2, <2>3
    DEF MacroInv, AllAnswered, Settled, Claimed, Answered, OwnerHold
  <2> QED
    BY <1>0, <2>1, <2>3, <2>4, StatusFrame, SupFrame DEF HoldInv
<1>2. CASE MacroRecord
  <2>1. /\ UNCHANGED <<control, log, fence, status, sup, req, permit>>
        /\ fence.by # "macro"
    BY <1>2 DEF MacroRecord, kvVars, histVars
  <2>2. /\ macroKv'.eid = macroKv.eid \/ macroKv'.eid = 0
             \/ (macroKv'.eid = macro.id /\ macro.pc = "eid")
        /\ macro'.pc \in {"froze", "eid"} =>
             macro'.id = macro.id /\ macro.pc \in {"froze", "eid"}
    BY <1>2 DEF MacroRecord, TypeInv, TypeOK, MacroKvs, Macros
  <2>3. MacroInv'
    BY <1>0, <1>a, <2>1, <2>2 DEF MacroInv, Settled, Claimed, Answered, OwnerHold
  <2> QED
    BY <1>0, <2>1, <2>3, FenceFrame, LogFrame, StatusFrame, SupFrame DEF HoldInv
<1>3. CASE MacroRelease
  <2>1. /\ UNCHANGED <<control, log, fence, status, macroKv, req, permit>>
        /\ \/ macro' = [macro EXCEPT !.pc = "disown"] /\ sup' = sup
           \/ /\ macro' = [macro EXCEPT !.pc = "wait"]
              /\ sup' = [IdleSup EXCEPT !.pc = "macroIntake", !.op = "macro",
                                        !.id = MacroFreezeEventId]
    BY <1>3 DEF MacroRelease, kvVars, histVars
  <2>2. macro'.pc \in {"disown", "wait"}
    BY <2>1 DEF TypeInv, TypeOK, Macros
  <2>3. MacroInv'
    BY <1>0, <2>1, <2>2 DEF MacroInv, Settled, Answered, OwnerHold
  <2>4. Settled(MacroFreezeEventId)
    <3>1. CASE macroKv.eid # 0
      BY <1>0, <3>1 DEF MacroFreezeEventId, MacroInv
    <3>2. CASE macroKv.eid = 0 /\ MacroFreezeEventId # 0
      <4>1. MacroFreezeEventId = Len(log) /\ log[Len(log)].by = "macro" /\ log # <<>>
        BY <1>a, <3>2 DEF MacroFreezeEventId
      <4>2. Len(log) \in 1..Len(log)
        BY <4>1 DEF TypeInv, TypeOK
      <4> QED
        BY <1>0, <4>1, <4>2 DEF LogInv, Settled
    <3>3. CASE MacroFreezeEventId = 0
      BY <1>a, <3>3 DEF Settled, Answered
    <3> QED
      BY <3>1, <3>2, <3>3
  <2>5. CASE sup' = sup
    BY <1>0, <2>1, <2>3, <2>5, FenceFrame, LogFrame, StatusFrame, SupFrame DEF HoldInv
  <2>6. CASE sup' = [IdleSup EXCEPT !.pc = "macroIntake", !.op = "macro",
                                    !.id = MacroFreezeEventId]
    <3>1. /\ sup'.pc = "macroIntake" /\ sup'.op = "macro" /\ sup'.prior.cid = 0
          /\ sup'.id = MacroFreezeEventId
      BY <2>6 DEF IdleSup, NoStatus
    <3>2. Claimed(sup.prior.cid, "sup")' /\ Settled(sup.prior.cid)'
      BY <1>a, <2>1, <3>1 DEF Settled, Claimed, Answered
    <3>3. Settled(sup.id)'
      BY <2>1, <2>4, <3>1 DEF Settled, Answered, OwnerHold
    <3>4. SupInv'
      BY <3>1, <3>2, <3>3 DEF SupInv
    <3> QED
      BY <1>0, <2>1, <2>3, <3>4, FenceFrame, LogFrame, StatusFrame DEF HoldInv
  <2> QED
    BY <2>1, <2>5, <2>6
<1>4. CASE MacroIntake
  <2>1. /\ UNCHANGED <<status, macroKv, req, permit>> /\ fence = Free
        /\ macro' = macro \/ macro'.pc \in {"disown", "idle"}
        /\ \/ UNCHANGED <<control, log, fence>> /\ sup' = IdleSup
           \/ /\ watermark = sup.id /\ fence' = fence /\ sup' = IdleSup
              /\ PublishActive("sup", "macro_guard")
           \/ /\ watermark = sup.id /\ SetFenced("sup", "macro_guard", "RECOVERY", "set")
              /\ sup' = [sup EXCEPT !.pc = "granted", !.id = watermark + 1]
    <3>1. macro' = macro \/ macro'.pc \in {"disown", "idle"}
      BY <1>4 DEF MacroIntake, TypeInv, TypeOK, Macros
    <3> QED
      BY <1>4, <3>1 DEF MacroIntake, StillOwnHold, kvVars
  <2>2. sup.pc = "macroIntake" /\ Settled(sup.id) /\ sup.op = "macro"
        /\ Settled(sup.prior.cid)
    BY <1>0, <1>4 DEF MacroIntake, SupInv
  <2>3. fence.by = "none"
    BY <2>1 DEF Free
  <2>4. CASE UNCHANGED <<control, log, fence>> /\ sup' = IdleSup
    <3>1. MacroInv'
      BY <1>0, <2>1, <2>4 DEF MacroInv, Settled, Claimed, Answered, OwnerHold
    <3> QED
      BY <1>0, <2>1, <2>4, <3>1, IdleSupInv, FenceFrame, LogFrame, StatusFrame DEF HoldInv
  <2>5. CASE /\ watermark = sup.id /\ fence' = fence /\ sup' = IdleSup
             /\ PublishActive("sup", "macro_guard")
    <3>1. \A i \in 1..Len(log) : OwnerHold(i) => i <= permit
      BY <1>a, <2>2, <2>5 DEF Settled, Answered
    <3>2. FenceInv' /\ LogInv' /\ StatusInv' /\ MacroInv'
      BY <1>0, <1>a, <2>1, <2>5, <3>1, HoldPublish DEF LogInv, Actors
    <3> QED
      BY <2>5, <3>2, IdleSupInv DEF HoldInv
  <2>6. CASE /\ watermark = sup.id /\ SetFenced("sup", "macro_guard", "RECOVERY", "set")
             /\ sup' = [sup EXCEPT !.pc = "granted", !.id = watermark + 1]
    <3>1. AllAnswered /\ UNCHANGED <<control, log>>
      BY <1>a, <2>2, <2>6 DEF Settled, Answered, AllAnswered, SetFenced
    <3>2. FenceInv' /\ LogInv' /\ fence'.by = "sup"
      BY <2>1, <2>6, <3>1, HoldSet DEF Procs, Actors, States
    <3>3. /\ sup'.pc = "granted" /\ sup'.prior = sup.prior
          /\ sup'.id = Len(log) + 1 /\ sup'.op = sup.op
      BY <1>a, <2>6 DEF TypeInv, TypeOK, Sups
    <3>4. SupInv'
      BY <1>a, <2>1, <2>2, <3>1, <3>2, <3>3
      DEF SupInv, AllAnswered, Settled, Claimed, Answered, OwnerHold
    <3>5. MacroInv'
      BY <1>0, <2>1, <2>3, <3>1 DEF MacroInv, Settled, Claimed, Answered, OwnerHold
    <3> QED
      BY <1>0, <2>1, <3>1, <3>2, <3>4, <3>5, StatusFrame DEF HoldInv
  <2> QED
    BY <2>1, <2>4, <2>5, <2>6
<1> QED
  BY <1>1, <1>2, <1>3, <1>4

\* Rollback preparation holds in the owner's name, but as the Supervisor's own.
LEMMA HoldRollback ==
  ASSUME TypeInv, TypeInv', HoldInv
  PROVE  RollbackIntake \/ RollbackBaseline \/ RollbackFinal => HoldInv'
<1>0. FenceInv /\ LogInv /\ StatusInv /\ MacroInv /\ SupInv
  BY DEF HoldInv
<1>a. /\ permit \in Nat /\ Len(log) \in Nat /\ sup.prior.cid \in Nat /\ sup.id \in Nat
      /\ watermark = Len(log) /\ control \in States
  BY SupFields DEF TypeInv, TypeOK, watermark
<1>1. CASE RollbackIntake
  <2>1. /\ UNCHANGED <<control, log, status, macroKv, macro, req, permit>>
        /\ SetFenced("sup", "owner", "FROZEN", "set") /\ control # "HALTED"
        /\ sup' = [IdleSup EXCEPT !.pc = "rbRisk", !.op = "rollback",
                                  !.id = watermark + 1, !.from = control]
    BY <1>1 DEF RollbackIntake, SetFenced, histVars
  <2>2. FenceInv' /\ LogInv' /\ fence.by = "none" /\ fence'.by = "sup"
    BY <2>1, HoldSet DEF Procs, Actors, States
  <2>3. /\ sup'.pc = "rbRisk" /\ sup'.op = "rollback" /\ sup'.prior.cid = 0
        /\ sup'.id = Len(log) + 1 /\ sup'.from = control
    BY <1>a, <2>1 DEF IdleSup, NoStatus
  <2>4. control # "FROZEN" => AllAnswered
    BY <1>0, <1>a, <2>1 DEF LogInv, States
  <2>5. SupInv'
    BY <1>a, <2>1, <2>2, <2>3, <2>4
    DEF SupInv, AllAnswered, Settled, Claimed, Answered, OwnerHold
  <2> QED
    BY <1>0, <2>1, <2>2, <2>5, StatusFrame, MacroFrame DEF HoldInv
<1>2. CASE RollbackBaseline
  <2>1. /\ UNCHANGED <<control, log, fence, status, macroKv, macro, req, permit>>
        /\ sup.pc = "rbRisk"
        /\ \E r \in BOOLEAN, pc \in {"read", "rbFinal"} :
             sup' = [sup EXCEPT !.risk = r, !.pc = pc]
    BY <1>2 DEF RollbackBaseline, kvVars, supOnly, histVars
  <2>2. /\ sup'.pc \in {"read", "rbFinal"} /\ sup'.prior = sup.prior
        /\ sup'.id = sup.id /\ sup'.op = sup.op /\ sup'.from = sup.from
    BY <2>1 DEF TypeInv, TypeOK, Sups
  <2>3. SupInv'
    BY <1>0, <2>1, <2>2 DEF SupInv, Settled, Claimed, Answered, OwnerHold
  <2> QED
    BY <1>0, <2>1, <2>3, FenceFrame, LogFrame, StatusFrame, MacroFrame DEF HoldInv
<1>3. CASE RollbackFinal
  <2>1. /\ UNCHANGED <<control, status, macroKv, macro, req, permit>> /\ sup' = IdleSup
        /\ fence = Free
        /\ \/ /\ log' = Append(log, [to |-> "FROZEN", actor |-> "owner", by |-> "sup"])
              /\ fence' = fence /\ control = "FROZEN"
           \/ /\ SetFenced("sup", "owner", "RECOVERY", "set")
              /\ watermark = sup.id /\ sup.from # "FROZEN" /\ log' = log
           \/ UNCHANGED <<log, fence>>
    BY <1>3 DEF RollbackFinal, StillOwnHold, SetFenced, Expected, kvVars, supOnly, histVars
  <2>2. fence.by = "none" /\ fence.stage = "free"
    BY <2>1 DEF Free
  <2>3. CASE UNCHANGED <<log, fence>>
    BY <1>0, <2>1, <2>3, IdleSupInv, FenceFrame, LogFrame, StatusFrame, MacroFrame
    DEF HoldInv
  <2>4. CASE /\ SetFenced("sup", "owner", "RECOVERY", "set")
             /\ watermark = sup.id /\ sup.from # "FROZEN" /\ log' = log
    <3>1. AllAnswered
      BY <1>0, <1>3, <1>a, <2>2, <2>4
      DEF RollbackFinal, StillOwnHold, SupInv, Claimed, Answered, AllAnswered
    <3>2. FenceInv' /\ LogInv'
      BY <2>1, <2>4, <3>1, HoldSet DEF Procs, Actors, States
    <3> QED
      BY <1>0, <2>1, <2>2, <2>4, <3>2, IdleSupInv, StatusFrame, MacroFrame DEF HoldInv
  <2>5. CASE /\ log' = Append(log, [to |-> "FROZEN", actor |-> "owner", by |-> "sup"])
             /\ fence' = fence /\ control = "FROZEN"
    <3> DEFINE e == [to |-> "FROZEN", actor |-> "owner", by |-> "sup"]
    <3>1. e \in Intents /\ log' = Append(log, e) /\ e.by = "sup"
      BY <2>5 DEF Intents, States, Actors, Procs
    <3> HIDE DEF e
    <3>2. /\ Len(log') = Len(log) + 1
          /\ \A i \in 1..Len(log) : log'[i] = log[i]
          /\ log'[Len(log) + 1] = e
      BY <3>1, Appended
    <3>3. LogInv'
      <4>1. \A i \in 1..Len(log') : log'[i].by = "macro" => i \in 1..Len(log)
        BY <1>a, <3>1, <3>2
      <4>2. \A i \in 1..Len(log') : log'[i].by = "macro" => Answered(i)'
        BY <1>0, <1>a, <2>1, <3>2, <4>1 DEF LogInv, Answered, OwnerHold
      <4> QED
        BY <1>0, <1>a, <2>1, <2>5, <3>2, <4>2 DEF LogInv
    <3>4. FenceInv'
      BY <2>2, <2>5 DEF FenceInv
    <3>5. StatusInv' /\ MacroInv'
      BY <1>a, <2>1, <2>2, <3>1, StatusGrows, MacroGrows
    <3> QED
      BY <2>1, <3>3, <3>4, <3>5, IdleSupInv DEF HoldInv
  <2> QED
    BY <2>1, <2>3, <2>4, <2>5
<1> QED
  BY <1>1, <1>2, <1>3

\* Every step of every process keeps the strengthened invariant.
LEMMA HoldNext == TypeInv /\ TypeInv' /\ HoldInv /\ [Next]_vars => HoldInv'
<1> SUFFICES ASSUME TypeInv, TypeInv', HoldInv, [Next]_vars PROVE HoldInv'
  OBVIOUS
<1>1. CASE UNCHANGED vars
  <2>1. UNCHANGED <<control, log, fence, status, macroKv, macro, sup, req, permit>>
    BY <1>1 DEF vars, kvVars, histVars
  <2> QED
    BY <2>1, FenceFrame, LogFrame, StatusFrame, MacroFrame, SupFrame DEF HoldInv
<1>2. CASE Next
  BY <1>2, HoldOutside, HoldPass, HoldRecovery, HoldMacro, HoldRollback
  DEF Next, SupStep
<1> QED
  BY <1>1, <1>2

\* An owner's freeze, halt or panic that is recorded stands until an owner recovery
\* admitted after it is let in.
THEOREM OwnerHoldStandsCorrect == Spec => []OwnerHoldStands
<1>1. TypeInv /\ HoldInv => OwnerHoldStands
  <2> SUFFICES ASSUME TypeInv, HoldInv, NEW i \in 1..Len(log), OwnerHold(i), permit < i
               PROVE  control \in {"FROZEN", "HALTED"}
    BY DEF OwnerHoldStands
  <2>1. permit \in Nat /\ control \in States
    BY DEF TypeInv, TypeOK
  <2> QED
    BY <2>1 DEF HoldInv, LogInv, AllAnswered, States
<1> QED
  BY <1>1, TypeInit, TypeNext, HoldInit, HoldNext, PTL DEF Spec
=============================================================================
