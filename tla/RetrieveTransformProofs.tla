----------------------- MODULE RetrieveTransformProofs -----------------------
(***************************************************************************)
(* Theorems about RetrieveTransform for every set of requests and blocks,  *)
(* every prefix length and every number of layers.                         *)
(***************************************************************************)
EXTENDS RetrieveTransform, TLAPS, FiniteSetTheorems

USE DEF vars, engineVars, schedulerVars, itemVars, trackerVars, reportVars

-----------------------------------------------------------------------------
(* Type correctness.                                                       *)

\* An item is active exactly while the worker is between its statements.
ItemStage == stage = "idle" <=> active = NoRequest

Typed == TypeOK /\ ItemStage

LEMMA TypeInit == Init => Typed
<1> SUFFICES ASSUME Init PROVE Typed
  OBVIOUS
<1> USE DEF Init
<1>1. /\ status \in [Requests -> Statuses]
      /\ computed \in [Requests -> {"none", "external", "native"}]
      /\ gateEvent \in [Requests -> {"none", "accepted", "rejected"}]
  BY DEF Statuses
<1>2. /\ owned \in [Requests -> SUBSET Blocks]
      /\ slots \in [Requests -> SUBSET Blocks]
      /\ page \in [Blocks -> [Layers -> Requests \cup {NoRequest}]]
  OBVIOUS
<1>3. /\ phase \in {"schedule", "load", "update"}
      /\ output \in [finished : SUBSET Requests, invalid : SUBSET Blocks]
      /\ stage \in Stages
  BY DEF NoOutput, Stages
<1>4. layer \in 0 .. NumLayers
  BY ConstantsAssumption
<1>5. crashed \in BOOLEAN /\ success \in BOOLEAN
  OBVIOUS
<1>6. ItemStage
  BY DEF ItemStage
<1> QED
  BY <1>1, <1>2, <1>3, <1>4, <1>5, <1>6 DEF TypeOK, Typed

LEMMA TypeRequestStep ==
    ASSUME Typed, NEW r \in Requests, RequestStep(r)
    PROVE  Typed'
<1> USE ConstantsAssumption DEF Typed, ItemStage, TypeOK, Statuses, Scheduling
<1>1. CASE GateRequest(r)
  BY <1>1 DEF GateRequest, Crash
<1>2. CASE UpdateStateAfterAlloc(r)
  BY <1>2 DEF UpdateStateAfterAlloc, Free
<1>3. CASE ScheduleNative(r)
  BY <1>3 DEF ScheduleNative, Free
<1>4. CASE ScheduleLoaded(r)
  BY <1>4 DEF ScheduleLoaded
<1>5. CASE Preempt(r)
  BY <1>5 DEF Preempt
<1>6. CASE Finish(r)
  BY <1>6 DEF Finish, RequestFinished
<1>7. CASE Abort(r)
  BY <1>7 DEF Abort, RequestFinished
<1> QED
  BY <1>1, <1>2, <1>3, <1>4, <1>5, <1>6, <1>7 DEF RequestStep

LEMMA TypeWorkerStep ==
    ASSUME Typed, WorkerStep
    PROVE  Typed'
<1> USE ConstantsAssumption DEF Typed, ItemStage, TypeOK, Stages, At, Loading,
           MarkInvalid, MarkValid
<1>1. ASSUME NEW r \in Requests, StartItem(r) PROVE Typed'
  <2>1. layer' \in 0 .. NumLayers
    BY <1>1 DEF StartItem
  <2>2. active' \in Requests \cup {NoRequest} /\ ItemStage'
    BY <1>1 DEF StartItem
  <2>3. success' \in BOOLEAN /\ todo' \in SUBSET Requests /\ stage' \in Stages
    BY <1>1 DEF StartItem
  <2> QED
    BY <1>1, <2>1, <2>2, <2>3 DEF StartItem
<1>2. CASE BindRequest
  BY <1>2 DEF BindRequest
<1>3. CASE EvaluateGate
  BY <1>3 DEF EvaluateGate
<1>4. CASE ReadManyExact
  BY <1>4 DEF ReadManyExact
<1>5. CASE DecodeAndInvalidate
  BY <1>5 DEF DecodeAndInvalidate
<1>6. CASE Transform
  BY <1>6 DEF Transform
<1>7. CASE ScatterLayer
  BY <1>7 DEF ScatterLayer
<1>8. CASE MarkLoaded
  BY <1>8 DEF MarkLoaded
<1>9. CASE PublishLoadComplete
  BY <1>9 DEF PublishLoadComplete
<1>10. CASE InjectionFailed
  BY <1>10 DEF InjectionFailed
<1>11. CASE FinishRequest
  BY <1>11 DEF FinishRequest
<1>12. CASE Settle
  BY <1>12 DEF Settle, Crash
<1> QED
  BY <1>1, <1>2, <1>3, <1>4, <1>5, <1>6, <1>7, <1>8, <1>9, <1>10, <1>11,
     <1>12 DEF WorkerStep

LEMMA TypeEngineStep ==
    ASSUME Typed, EngineStep
    PROVE  Typed'
<1> USE ConstantsAssumption DEF Typed, ItemStage, TypeOK, Loading, Scheduling
<1>1. CASE BuildConnectorMeta
  BY <1>1 DEF BuildConnectorMeta
<1>2. CASE Forward
  BY <1>2 DEF Forward, Prefilled, Computed, Prefilling, Running
<1>3. CASE UpdateFromOutput
  BY <1>3 DEF UpdateFromOutput, NoOutput, Statuses, Running
<1> QED
  BY <1>1, <1>2, <1>3 DEF EngineStep

\* TypeOK holds in every state of every instance.
THEOREM TypeCorrect == Spec => []TypeOK
<1>1. ASSUME Typed, [Next]_vars PROVE Typed'
  <2>1. CASE UNCHANGED vars
    BY <1>1, <2>1 DEF Typed, ItemStage, TypeOK
  <2>2. CASE Halted
    BY <1>1, <2>2 DEF Typed, ItemStage, TypeOK, Halted
  <2> QED
    BY <1>1, <2>1, <2>2, TypeRequestStep, TypeWorkerStep, TypeEngineStep DEF Next
<1>2. Typed => TypeOK
  BY DEF Typed
<1> QED
  BY <1>1, <1>2, TypeInit, PTL DEF Spec

-----------------------------------------------------------------------------
(* The inductive invariant: who holds which block, and what a load in      *)
(* progress has achieved. Its parts are named for what they say.           *)

\* Requests whose load is between allocation and the engine's report.
InFlight ==
    pending \cup todo \cup finishedRecving \cup output.finished
        \cup IF active = NoRequest THEN {} ELSE {active}

\* No block belongs to two requests.
OwnedDisjoint ==
    \A r, s \in Requests : r # s => owned[r] \cap owned[s] = {}

\* A load in flight writes to a nonempty set of blocks its request holds.
HeldInFlight ==
    \A r \in InFlight :
        /\ slots[r] = owned[r] /\ slots[r] # {}
        /\ status[r] \in {"loading", "done"}

\* What each phase of the engine step has left over.
PhaseShape ==
    /\ phase # "load" => todo = {} /\ stage = "idle" /\ finishedRecving = {}
    /\ phase # "schedule" => pending = {}
    /\ phase # "update" => output = NoOutput

\* Only an unfinished request that is not loading has a computed prefix.
ComputedShape ==
    \A r \in Requests : status[r] \in {"loading", "done"} => computed[r] = "none"

\* A load is in one place at a time.
OnePlace ==
    /\ active \notin todo /\ active \notin finishedRecving
    /\ todo \cap finishedRecving = {}

Complete(r) == slots[r] \cap invalid = {} /\ Holds(r, slots[r])

\* What the active item has written.
Progress ==
    /\ stage \in {"bind", "gate", "read", "decode", "transform"} => layer = 0
    /\ stage = "scatter" =>
         \A b \in slots[active], l \in 1 .. layer : page[b][l] = active
    /\ stage = "publish" => Complete(active)
    /\ stage \notin {"idle", "finish", "settle"} => ~success
    /\ stage \in {"finish", "settle"} /\ success => Complete(active)

\* A load waiting to be reported is complete or invalid as a whole.
ReportedWhole ==
    \A r \in finishedRecving : slots[r] \subseteq invalid \/ Complete(r)

Ind == /\ Typed /\ OwnedDisjoint /\ HeldInFlight /\ PhaseShape
       /\ ComputedShape /\ OnePlace /\ Progress /\ ReportedWhole
       /\ OutcomeTravelsWithReport /\ NoPartialDecode

LEMMA IndInit == Init => Ind
<1> SUFFICES ASSUME Init PROVE Ind
  OBVIOUS
<1>1. Typed
  BY TypeInit
<1> QED
  BY <1>1 DEF Init, Ind, OwnedDisjoint, HeldInFlight, InFlight, PhaseShape,
     ComputedShape, OnePlace, Progress, ReportedWhole,
     OutcomeTravelsWithReport, NoPartialDecode, NoOutput

\* The part of the invariant that says nothing of the active item's progress.
Settled ==
    /\ OwnedDisjoint /\ HeldInFlight /\ ComputedShape /\ OnePlace
    /\ ReportedWhole /\ OutcomeTravelsWithReport /\ NoPartialDecode

engineState ==
    <<status, owned, computed, page, pending, slots, output, phase>>
loadState == <<todo, active, finishedRecving>>

LEMMA SettledFrame ==
    ASSUME Ind, UNCHANGED <<engineState, loadState, invalid>>
    PROVE  Settled'
  BY DEF Ind, Settled, engineState, loadState, OwnedDisjoint, HeldInFlight,
     InFlight, ComputedShape, OnePlace, ReportedWhole, Complete, Holds,
     OutcomeTravelsWithReport, NoPartialDecode

\* In the load phase the shape of the phase is what the step keeps.
LEMMA LoadPhase ==
    ASSUME PhaseShape, Loading,
           phase' = phase, pending' = pending, output' = output
    PROVE  PhaseShape'
  BY DEF PhaseShape, Loading

\* Steps that only move the active item to its next statement.
LEMMA IndQuietStep ==
    ASSUME Ind,
           BindRequest \/ EvaluateGate \/ ReadManyExact \/ Transform
               \/ PublishLoadComplete \/ FinishRequest
    PROVE  Ind'
<1> DEFINE Quiet == UNCHANGED <<engineState, loadState, invalid>>
<1>1. Quiet /\ Loading /\ Typed'
  <2>1. Typed'
    BY TypeWorkerStep DEF Ind, WorkerStep
  <2> QED
    BY <2>1 DEF BindRequest, EvaluateGate, ReadManyExact, Transform,
       PublishLoadComplete, FinishRequest, At, engineState, loadState
<1>2. Settled'
  BY <1>1, SettledFrame
<1>3. PhaseShape'
  BY <1>1, LoadPhase DEF Ind, engineState
<1>4. Progress'
  <2> USE DEF Ind, Progress, Complete, Holds, At, engineState, loadState
  <2>1. CASE BindRequest
    BY <1>1, <2>1 DEF BindRequest
  <2>2. CASE EvaluateGate
    BY <1>1, <2>2 DEF EvaluateGate
  <2>3. CASE ReadManyExact
    BY <1>1, <2>3 DEF ReadManyExact
  <2>4. CASE Transform
    BY <1>1, <2>4 DEF Transform
  <2>5. CASE PublishLoadComplete
    BY <1>1, <2>5 DEF PublishLoadComplete
  <2>6. CASE FinishRequest
    BY <1>1, <2>6 DEF FinishRequest
  <2> QED
    BY <2>1, <2>2, <2>3, <2>4, <2>5, <2>6
<1> QED
  BY <1>1, <1>2, <1>3, <1>4 DEF Ind, Settled

LEMMA IndStartItem ==
    ASSUME Ind, NEW r \in Requests, StartItem(r)
    PROVE  Ind'
<1> USE DEF Ind, StartItem, At
<1>1. Typed'
  BY TypeWorkerStep DEF WorkerStep
<1>2. /\ active = NoRequest
      /\ InFlight' = InFlight
  BY ConstantsAssumption DEF Typed, ItemStage, InFlight, TypeOK
<1>3. OwnedDisjoint' /\ ComputedShape' /\ NoPartialDecode'
  BY DEF OwnedDisjoint, ComputedShape, NoPartialDecode, Holds
<1>4. HeldInFlight' /\ OutcomeTravelsWithReport' /\ ReportedWhole'
  BY <1>2 DEF HeldInFlight, OutcomeTravelsWithReport, ReportedWhole, Complete,
     Holds
<1>5. PhaseShape'
  BY DEF PhaseShape, Loading
<1>6. OnePlace'
  BY DEF OnePlace
<1>7. Progress'
  BY DEF Progress
<1> QED
  BY <1>1, <1>3, <1>4, <1>5, <1>6, <1>7

\* The active item is in flight and nothing else in flight, and no request
\* with a computed prefix, shares a block with it.
LEMMA ActiveHolds ==
    ASSUME Ind, stage # "idle"
    PROVE  /\ active \in Requests /\ active \in InFlight
           /\ slots[active] = owned[active] /\ slots[active] # {}
           /\ computed[active] = "none"
           /\ \A r \in Requests : r # active => owned[r] \cap slots[active] = {}
           /\ \A r \in InFlight : r # active => slots[r] \cap slots[active] = {}
<1>1. active \in Requests /\ active \in InFlight
  BY DEF Ind, Typed, TypeOK, ItemStage, InFlight
<1>2. InFlight \subseteq Requests
  BY DEF Ind, Typed, TypeOK, InFlight
<1>3. /\ slots[active] = owned[active] /\ slots[active] # {}
      /\ computed[active] = "none"
  BY <1>1 DEF Ind, HeldInFlight, ComputedShape
<1>4. \A r \in Requests : r # active => owned[r] \cap slots[active] = {}
  BY <1>1, <1>3 DEF Ind, OwnedDisjoint
<1> QED
  BY <1>1, <1>2, <1>3, <1>4 DEF Ind, HeldInFlight

\* Marking the active item's blocks valid or invalid disturbs no other load.
LEMMA TrackerFrame ==
    ASSUME Ind, stage # "idle", Loading,
           MarkInvalid(slots[active]) \/ MarkValid(slots[active]),
           UNCHANGED <<engineState, loadState>>
    PROVE  Settled'
<1> USE ActiveHolds DEF Ind, engineState, loadState
<1>1. OwnedDisjoint' /\ ComputedShape' /\ NoPartialDecode' /\ OnePlace'
  BY DEF OwnedDisjoint, ComputedShape, NoPartialDecode, Holds, OnePlace
<1>2. HeldInFlight'
  BY DEF HeldInFlight, InFlight
<1>3. OutcomeTravelsWithReport'
  BY DEF OutcomeTravelsWithReport, Holds
<1>4. ReportedWhole'
  <2>1. SUFFICES ASSUME NEW r \in finishedRecving
                 PROVE  (slots[r] \subseteq invalid \/ Complete(r))'
    BY DEF ReportedWhole
  <2>2. slots[r] \cap slots[active] = {}
    BY DEF InFlight, OnePlace
  <2> QED
    BY <2>2 DEF ReportedWhole, Complete, Holds, MarkInvalid, MarkValid
<1> QED
  BY <1>1, <1>2, <1>3, <1>4 DEF Settled

LEMMA IndTrackerStep ==
    ASSUME Ind, DecodeAndInvalidate \/ MarkLoaded \/ InjectionFailed
    PROVE  Ind'
<1>1. Typed'
  BY TypeWorkerStep DEF Ind, WorkerStep
<1>2. /\ Loading /\ stage # "idle"
      /\ UNCHANGED <<engineState, loadState>>
  BY DEF DecodeAndInvalidate, MarkLoaded, InjectionFailed, At, engineState,
     loadState
<1>3. Settled'
  <2>1. CASE UNCHANGED invalid
    BY <1>2, <2>1, SettledFrame
  <2>2. CASE ~ UNCHANGED invalid
    <3>1. MarkInvalid(slots[active]) \/ MarkValid(slots[active])
      BY <2>2 DEF DecodeAndInvalidate, MarkLoaded, InjectionFailed
    <3> QED
      BY <1>2, <3>1, TrackerFrame
  <2> QED
    BY <2>1, <2>2
<1>4. PhaseShape'
  BY <1>2, LoadPhase DEF Ind, engineState
<1>5. Progress'
  <2> USE ActiveHolds, <1>2 DEF Ind, Progress, At, engineState, loadState
  <2>1. CASE DecodeAndInvalidate
    BY <2>1 DEF DecodeAndInvalidate
  <2>2. CASE MarkLoaded
    BY <2>2 DEF MarkLoaded, MarkValid, Complete, Holds, Layers
  <2>3. CASE InjectionFailed
    BY <2>3 DEF InjectionFailed
  <2> QED
    BY <2>1, <2>2, <2>3
<1> QED
  BY <1>1, <1>3, <1>4, <1>5 DEF Ind, Settled

LEMMA IndScatterLayer ==
    ASSUME Ind, ScatterLayer
    PROVE  Ind'
<1>1. Typed'
  BY TypeWorkerStep DEF Ind, WorkerStep
<1>2. /\ Loading /\ stage = "scatter" /\ layer < NumLayers
      /\ UNCHANGED <<status, owned, computed, pending, slots, output, phase,
                     loadState, invalid>>
  BY DEF ScatterLayer, At, loadState
<1>3. \A b \in Blocks \ slots[active] : page'[b] = page[b]
  BY DEF ScatterLayer
<1>4. OwnedDisjoint' /\ ComputedShape' /\ OnePlace' /\ HeldInFlight'
  BY <1>2 DEF Ind, OwnedDisjoint, ComputedShape, OnePlace, HeldInFlight,
     InFlight, loadState
<1>5. \A r \in Requests :
         slots[r] \cap slots[active] = {} /\ Complete(r) => Complete(r)'
  BY <1>2, <1>3 DEF Complete, Holds, Ind, Typed, TypeOK
<1>6. ReportedWhole'
  <2>1. SUFFICES ASSUME NEW r \in finishedRecving
                 PROVE  (slots[r] \subseteq invalid \/ Complete(r))'
    BY <1>2 DEF ReportedWhole, loadState
  <2>2. slots[r] \cap slots[active] = {} /\ r \in Requests
    BY <1>2, ActiveHolds DEF InFlight, OnePlace, Ind, Typed, TypeOK
  <2> QED
    BY <1>2, <1>5, <2>2 DEF ReportedWhole, Ind
<1>7. OutcomeTravelsWithReport'
  BY <1>2 DEF Ind, OutcomeTravelsWithReport, PhaseShape, NoOutput, Loading
<1>8. NoPartialDecode'
  <2>1. SUFFICES ASSUME NEW r \in Requests, computed[r] = "external"
                 PROVE  Holds(r, owned[r])'
    BY <1>2 DEF NoPartialDecode
  <2>2. owned[r] \cap slots[active] = {}
    BY <1>2, <2>1, ActiveHolds
  <2> QED
    BY <1>2, <1>3, <2>1, <2>2 DEF NoPartialDecode, Holds, Ind, Typed, TypeOK
<1>9. PhaseShape'
  BY <1>2, LoadPhase DEF Ind
<1>10. Progress'
  <2>1. active \in Requests /\ slots[active] \subseteq Blocks
    BY <1>2, ActiveHolds DEF Ind, Typed, TypeOK
  <2>2. layer' \in Nat /\ layer \in Nat /\ layer + 1 \in Layers
    BY <1>1, <1>2, ConstantsAssumption DEF Typed, TypeOK, Ind, Layers
  <2>3. CASE stage' = "scatter"
    <3>1. layer' = layer + 1
      BY <2>3 DEF ScatterLayer
    <3>2. SUFFICES ASSUME NEW b \in slots[active], NEW l \in 1 .. layer'
                   PROVE  page'[b][l] = active
      BY <1>2, <2>3, <3>1 DEF Progress, Ind, ScatterLayer, loadState
    <3>3. page'[b] = [page[b] EXCEPT ![layer + 1] = active]
      BY <2>1, <2>3, <3>1 DEF ScatterLayer
    <3>4. page[b] \in [Layers -> Requests \cup {NoRequest}] /\ l \in Layers
      BY <2>1, <2>2, <3>1, ConstantsAssumption
      DEF Ind, Typed, TypeOK, Layers
    <3> QED
      BY <1>2, <2>2, <3>1, <3>3, <3>4 DEF Progress, Ind
  <2>4. CASE stage' = "fail"
    BY <1>2, <2>4 DEF Progress, Ind, ScatterLayer
  <2> QED
    BY <2>3, <2>4, <1>2 DEF ScatterLayer
<1> QED
  BY <1>1, <1>4, <1>6, <1>7, <1>8, <1>9, <1>10 DEF Ind

LEMMA IndSettle ==
    ASSUME Ind, Settle
    PROVE  Ind'
<1>1. Typed'
  BY TypeWorkerStep DEF Ind, WorkerStep
<1>2. /\ Loading /\ stage = "settle"
      /\ UNCHANGED <<engineState, todo>>
      /\ \/ active' = NoRequest /\ finishedRecving' = finishedRecving \cup {active}
            /\ stage' = "idle"
         \/ UNCHANGED <<active, finishedRecving, stage>>
  BY DEF Settle, At, engineState
<1>3. /\ success => UNCHANGED trackerVars /\ Complete(active)
      /\ ~success => MarkInvalid(slots[active])
  BY <1>2 DEF Settle, Ind, Progress
<1>4. InFlight' = InFlight
  BY <1>2, ConstantsAssumption, ActiveHolds DEF InFlight, engineState
<1>5. OwnedDisjoint' /\ ComputedShape' /\ NoPartialDecode' /\ HeldInFlight'
  BY <1>2, <1>4 DEF Ind, OwnedDisjoint, ComputedShape, NoPartialDecode, Holds,
     HeldInFlight, engineState
<1>6. PhaseShape'
  BY <1>2, LoadPhase DEF Ind, engineState
<1>7. OnePlace'
  BY <1>1, <1>2, ActiveHolds, ConstantsAssumption
  DEF OnePlace, Ind, Typed, TypeOK
<1>8. OutcomeTravelsWithReport'
  BY <1>2 DEF Ind, OutcomeTravelsWithReport, PhaseShape, NoOutput, Loading,
     engineState
<1>9. ReportedWhole'
  <2>1. SUFFICES ASSUME NEW r \in finishedRecving'
                 PROVE  (slots[r] \subseteq invalid \/ Complete(r))'
    BY DEF ReportedWhole
  <2>2. CASE r = active
    BY <1>2, <1>3, <2>2 DEF MarkInvalid, Complete, Holds, engineState
  <2>3. CASE r # active
    <3>1. r \in finishedRecving /\ slots[r] \cap slots[active] = {}
      BY <1>2, <2>1, <2>3, ActiveHolds DEF InFlight
    <3> QED
      BY <1>2, <1>3, <3>1
      DEF Ind, ReportedWhole, Complete, Holds, MarkInvalid, engineState
  <2> QED
    BY <2>2, <2>3
<1>10. Progress'
  <2>1. CASE stage' = "idle"
    BY <2>1 DEF Progress
  <2>2. CASE UNCHANGED <<active, finishedRecving, stage>>
    BY <1>2, <1>3, <2>2
    DEF Progress, Ind, Settle, Complete, Holds, engineState
  <2> QED
    BY <1>2, <2>1, <2>2
<1> QED
  BY <1>1, <1>5, <1>6, <1>7, <1>8, <1>9, <1>10 DEF Ind

LEMMA IndWorkerStep ==
    ASSUME Ind, WorkerStep
    PROVE  Ind'
  BY IndStartItem, IndQuietStep, IndTrackerStep, IndScatterLayer, IndSettle
  DEF WorkerStep

-----------------------------------------------------------------------------
(* Steps of the scheduler half and of the engine.                          *)

LEMMA FreeIsFree ==
    ASSUME Ind, NEW B \in SUBSET Free, Cardinality(B) = PrefixBlocks
    PROVE  /\ B # {} /\ B \subseteq Blocks
           /\ \A r \in Requests : owned[r] \cap B = {}
<1>1. B # {}
  BY FS_EmptySet, ConstantsAssumption
<1> QED
  BY <1>1 DEF Free

workerState ==
    <<page, todo, active, stage, layer, success, finishedRecving, invalid,
      output>>

\* What the scheduler half cannot disturb: it writes no page, moves no item
\* and marks no block.
LEMMA ReportFrame ==
    ASSUME Ind, UNCHANGED workerState,
           \A r \in InFlight : slots'[r] = slots[r]
    PROVE  ReportedWhole' /\ OutcomeTravelsWithReport' /\ OnePlace' /\ Progress'
<1> USE DEF Ind, workerState
<1>1. ReportedWhole' /\ OutcomeTravelsWithReport' /\ OnePlace'
  BY DEF ReportedWhole, OutcomeTravelsWithReport, OnePlace, Complete, Holds,
     InFlight
<1>2. Progress'
  <2>1. CASE stage = "idle"
    BY <2>1 DEF Progress
  <2>2. CASE stage # "idle"
    <3>1. slots'[active] = slots[active]
      BY <2>2, ActiveHolds
    <3> QED
      BY <3>1 DEF Progress, Complete, Holds
  <2> QED
    BY <2>1, <2>2
<1> QED
  BY <1>1, <1>2

LEMMA IndGateRequest ==
    ASSUME Ind, NEW r \in Requests, GateRequest(r)
    PROVE  Ind'
<1>1. Typed'
  BY TypeRequestStep DEF Ind, RequestStep
<1>2. UNCHANGED <<engineState, loadState, invalid, stage, layer, success>>
  BY DEF GateRequest, engineState, loadState
<1>3. Settled'
  BY <1>2, SettledFrame
<1> QED
  BY <1>1, <1>2, <1>3 DEF Ind, Settled, PhaseShape, Progress, Complete, Holds,
     engineState, loadState

LEMMA IndUpdateStateAfterAlloc ==
    ASSUME Ind, NEW r \in Requests, UpdateStateAfterAlloc(r)
    PROVE  Ind'
<1> USE DEF Ind
<1>1. Typed'
  BY TypeRequestStep DEF RequestStep
<1>2. PICK B \in SUBSET Free :
        /\ Cardinality(B) = PrefixBlocks
        /\ owned' = [owned EXCEPT ![r] = B]
        /\ slots' = [slots EXCEPT ![r] = B]
  BY DEF UpdateStateAfterAlloc
<1>3. /\ status[r] = "waiting" /\ computed[r] = "none"
      /\ status' = [status EXCEPT ![r] = "loading"]
      /\ pending' = pending \cup {r}
      /\ phase = "schedule"
      /\ UNCHANGED <<workerState, computed, phase>>
  BY DEF UpdateStateAfterAlloc, Scheduling, workerState
<1>4. /\ B # {} /\ B \subseteq Blocks
      /\ \A s \in Requests : owned[s] \cap B = {}
  BY <1>2, FreeIsFree
<1>5. r \notin InFlight /\ InFlight' = InFlight \cup {r}
  BY <1>3 DEF HeldInFlight, InFlight, workerState
<1>6. OwnedDisjoint'
  BY <1>2, <1>4 DEF OwnedDisjoint, Typed, TypeOK
<1>7. HeldInFlight'
  BY <1>2, <1>3, <1>4, <1>5 DEF HeldInFlight, InFlight, Typed, TypeOK
<1>8. PhaseShape'
  BY <1>3 DEF PhaseShape, workerState
<1>9. ComputedShape'
  BY <1>3 DEF ComputedShape, Typed, TypeOK
<1>10. NoPartialDecode'
  BY <1>2, <1>3 DEF NoPartialDecode, Holds, Typed, TypeOK, workerState
<1>11. ReportedWhole' /\ OutcomeTravelsWithReport' /\ OnePlace' /\ Progress'
  <2>1. \A s \in InFlight : slots'[s] = slots[s]
    BY <1>2, <1>5 DEF InFlight, Typed, TypeOK
  <2> QED
    BY <1>3, <2>1, ReportFrame
<1> QED
  BY <1>1, <1>6, <1>7, <1>8, <1>9, <1>10, <1>11

\* The steps that start, resume or end a request that is not loading.
LEMMA IndLifeCycle ==
    ASSUME Ind, NEW r \in Requests,
           ScheduleNative(r) \/ ScheduleLoaded(r) \/ Preempt(r) \/ Finish(r)
    PROVE  Ind'
<1> USE DEF Ind
<1>1. Typed'
  BY TypeRequestStep DEF RequestStep
<1>2. /\ status[r] \in {"waiting", "running"}
      /\ phase = "schedule"
      /\ UNCHANGED <<workerState, slots, phase>>
      /\ pending' \in {pending, pending \ {r}}
      /\ \A s \in Requests : s # r => /\ status'[s] = status[s]
                                     /\ owned'[s] = owned[s]
                                     /\ computed'[s] = computed[s]
  BY DEF ScheduleNative, ScheduleLoaded, Preempt, Finish, RequestFinished,
     Scheduling, workerState, Typed, TypeOK
<1>3. r \notin InFlight
  BY <1>2 DEF HeldInFlight
<1>4. pending' = pending /\ InFlight' = InFlight
  BY <1>2, <1>3 DEF InFlight, workerState
<1>5. owned'[r] = {} \/ owned'[r] = owned[r]
      \/ \A s \in Requests : owned[s] \cap owned'[r] = {}
  <2>1. CASE ScheduleNative(r)
    BY <2>1, FreeIsFree DEF ScheduleNative, Typed, TypeOK
  <2>2. CASE ScheduleLoaded(r)
    BY <2>2 DEF ScheduleLoaded
  <2>3. CASE Preempt(r)
    BY <2>3 DEF Preempt, Typed, TypeOK
  <2>4. CASE Finish(r)
    BY <2>4 DEF Finish, Typed, TypeOK
  <2> QED
    BY <2>1, <2>2, <2>3, <2>4
<1>6. OwnedDisjoint'
  BY <1>2, <1>5 DEF OwnedDisjoint
<1>7. HeldInFlight'
  BY <1>2, <1>3, <1>4 DEF HeldInFlight, InFlight, Typed, TypeOK
<1>8. PhaseShape'
  BY <1>2, <1>4 DEF PhaseShape, workerState
<1>9. ComputedShape' /\ NoPartialDecode'
  <2>1. \/ computed'[r] = "none"
        \/ /\ computed'[r] = computed[r] /\ owned'[r] = owned[r]
           /\ status'[r] = "running"
    BY DEF ScheduleNative, ScheduleLoaded, Preempt, Finish, Typed, TypeOK
  <2> QED
    BY <1>2, <2>1 DEF ComputedShape, NoPartialDecode, Holds, workerState
<1>10. ReportedWhole' /\ OutcomeTravelsWithReport' /\ OnePlace' /\ Progress'
  BY <1>2, ReportFrame
<1> QED
  BY <1>1, <1>6, <1>7, <1>8, <1>9, <1>10

LEMMA IndAbort ==
    ASSUME Ind, NEW r \in Requests, Abort(r)
    PROVE  Ind'
<1> USE DEF Ind
<1>1. Typed'
  BY TypeRequestStep DEF RequestStep
<1>2. /\ pending = {} /\ pending' = {}
      /\ status' = [status EXCEPT ![r] = "done"]
      /\ owned' = [owned EXCEPT ![r] = IF status[r] = "loading" THEN @ ELSE {}]
      /\ computed' = [computed EXCEPT ![r] = "none"]
      /\ UNCHANGED <<workerState, slots, phase>>
  BY DEF Abort, RequestFinished, workerState
<1>3. InFlight' = InFlight
  BY <1>2 DEF InFlight, workerState
<1>4. OwnedDisjoint'
  BY <1>2 DEF OwnedDisjoint, Typed, TypeOK
<1>5. HeldInFlight'
  <2>1. SUFFICES ASSUME NEW s \in InFlight
                 PROVE  /\ slots'[s] = owned'[s] /\ slots'[s] # {}
                        /\ status'[s] \in {"loading", "done"}
    BY <1>3 DEF HeldInFlight
  <2>2. s \in Requests /\ status[s] \in {"loading", "done"}
    BY DEF HeldInFlight, InFlight, Typed, TypeOK
  <2>3. status[r] # "done"
    BY DEF Abort
  <2> QED
    BY <1>2, <2>2, <2>3 DEF HeldInFlight, Typed, TypeOK
<1>6. PhaseShape'
  BY <1>2 DEF PhaseShape, workerState
<1>7. ComputedShape' /\ NoPartialDecode'
  BY <1>2 DEF ComputedShape, NoPartialDecode, Holds, Typed, TypeOK, workerState
<1>8. ReportedWhole' /\ OutcomeTravelsWithReport' /\ OnePlace' /\ Progress'
  BY <1>2, ReportFrame
<1> QED
  BY <1>1, <1>4, <1>5, <1>6, <1>7, <1>8

LEMMA IndBuildConnectorMeta ==
    ASSUME Ind, BuildConnectorMeta
    PROVE  Ind'
<1> USE DEF Ind
<1>1. Typed'
  BY TypeEngineStep DEF EngineStep
<1>2. /\ phase = "schedule" /\ todo = {} /\ stage = "idle"
      /\ active = NoRequest /\ finishedRecving = {} /\ output = NoOutput
  BY DEF BuildConnectorMeta, Scheduling, PhaseShape, Typed, ItemStage
<1>3. /\ todo' = pending /\ pending' = {} /\ phase' = "load"
      /\ UNCHANGED <<status, owned, computed, page, slots, active, stage,
                     finishedRecving, invalid, output>>
  BY DEF BuildConnectorMeta
<1>4. InFlight' = InFlight
  BY <1>2, <1>3 DEF InFlight
<1>5. OwnedDisjoint' /\ HeldInFlight'
  BY <1>3, <1>4 DEF OwnedDisjoint, HeldInFlight
<1>6. ComputedShape' /\ NoPartialDecode'
  BY <1>3 DEF ComputedShape, NoPartialDecode, Holds
<1>7. ReportedWhole' /\ OutcomeTravelsWithReport'
  BY <1>2, <1>3 DEF ReportedWhole, OutcomeTravelsWithReport, NoOutput
<1>8. PhaseShape' /\ Progress'
  BY <1>2, <1>3 DEF PhaseShape, Progress
<1>9. OnePlace'
  BY <1>2, <1>3, ConstantsAssumption DEF OnePlace, Typed, TypeOK
<1> QED
  BY <1>1, <1>5, <1>6, <1>7, <1>8, <1>9

LEMMA IndForward ==
    ASSUME Ind, Forward
    PROVE  Ind'
<1> USE DEF Ind
<1>1. Typed'
  BY TypeEngineStep DEF EngineStep
<1>2. /\ phase = "load" /\ stage = "idle" /\ todo = {} /\ pending = {}
      /\ active = NoRequest /\ output = NoOutput
      /\ UNCHANGED <<status, owned, slots, pending, todo, active, stage>>
      /\ output' = [finished |-> finishedRecving, invalid |-> invalid]
      /\ finishedRecving' = {} /\ phase' = "update"
  BY DEF Forward, Loading, PhaseShape, Typed, ItemStage
<1>3. InFlight' = InFlight
  BY <1>2 DEF InFlight, NoOutput
<1>4. \A r \in Requests : r \notin Prefilling =>
         \A b \in owned[r] : page'[b] = page[b]
  BY DEF Forward, Prefilled, Prefilling, Running, OwnedDisjoint, Typed, TypeOK
<1>5. OwnedDisjoint' /\ HeldInFlight'
  BY <1>2, <1>3 DEF OwnedDisjoint, HeldInFlight
<1>6. PhaseShape' /\ OnePlace' /\ Progress' /\ ReportedWhole'
  BY <1>1, <1>2, ConstantsAssumption
  DEF PhaseShape, OnePlace, Progress, ReportedWhole, Typed, TypeOK
<1>7. ComputedShape' /\ NoPartialDecode'
  BY <1>2, <1>4 DEF Forward, ComputedShape, NoPartialDecode, Holds, Computed,
     Prefilling, Running, Typed, TypeOK
<1>8. OutcomeTravelsWithReport'
  <2>1. SUFFICES ASSUME NEW r \in finishedRecving
                 PROVE  \/ slots[r] \subseteq invalid
                        \/ slots[r] \cap invalid = {} /\ Holds(r, slots[r])'
    BY <1>2 DEF OutcomeTravelsWithReport
  <2>2. r \in Requests /\ r \notin Prefilling /\ slots[r] = owned[r]
    BY DEF HeldInFlight, InFlight, Prefilling, Running, Typed, TypeOK
  <2> QED
    BY <1>2, <1>4, <2>2 DEF ReportedWhole, Complete, Holds
<1> QED
  BY <1>1, <1>5, <1>6, <1>7, <1>8

LEMMA IndUpdateFromOutput ==
    ASSUME Ind, UpdateFromOutput
    PROVE  Ind'
<1> USE DEF Ind
<1>1. Typed'
  BY TypeEngineStep DEF EngineStep
<1>2. /\ phase = "update" /\ stage = "idle" /\ todo = {} /\ pending = {}
      /\ active = NoRequest /\ finishedRecving = {}
      /\ UNCHANGED <<page, slots, pending, todo, active, stage, finishedRecving>>
      /\ output' = NoOutput /\ phase' = "schedule"
  BY DEF UpdateFromOutput, PhaseShape, Typed, ItemStage
<1>3. InFlight = output.finished /\ InFlight' = {}
  BY <1>2 DEF InFlight, NoOutput
<1>4. \A r \in Requests :
         /\ owned'[r] \in {owned[r], {}}
         /\ status'[r] \in {"loading", "done"} => status'[r] = status[r]
         /\ computed'[r] = "external" =>
              \/ computed[r] = "external"
              \/ r \in output.finished /\ status[r] = "loading" /\ ~Failed(r)
         /\ computed'[r] # "none" =>
              \/ computed[r] # "none" \/ status'[r] = "waiting"
  BY DEF UpdateFromOutput, Typed, TypeOK
<1>5. OwnedDisjoint'
  BY <1>4 DEF OwnedDisjoint
<1>6. HeldInFlight'
  BY <1>3 DEF HeldInFlight
<1>7. PhaseShape' /\ OnePlace' /\ Progress' /\ ReportedWhole'
      /\ OutcomeTravelsWithReport'
  BY <1>1, <1>2, ConstantsAssumption
  DEF PhaseShape, OnePlace, Progress, ReportedWhole, NoOutput,
      OutcomeTravelsWithReport, Typed, TypeOK
<1>8. ComputedShape'
  BY <1>4 DEF ComputedShape, Typed, TypeOK
<1>9. NoPartialDecode'
  <2>1. SUFFICES ASSUME NEW r \in Requests, computed'[r] = "external"
                 PROVE  Holds(r, owned[r])'
    BY DEF NoPartialDecode
  <2>2. Holds(r, owned[r])
    <3>1. CASE computed[r] = "external"
      BY <3>1 DEF NoPartialDecode
    <3>2. CASE r \in output.finished /\ ~Failed(r)
      BY <1>3, <3>2 DEF HeldInFlight, OutcomeTravelsWithReport, Failed
    <3> QED
      BY <1>4, <2>1, <3>1, <3>2
  <2> QED
    BY <1>2, <1>4, <2>2 DEF Holds
<1> QED
  BY <1>1, <1>5, <1>6, <1>7, <1>8, <1>9

-----------------------------------------------------------------------------
(* The theorems.                                                           *)

THEOREM Inductive == Spec => []Ind
<1>1. ASSUME Ind, [Next]_vars PROVE Ind'
  <2>1. CASE UNCHANGED vars
    BY <1>1, <2>1 DEF Ind, Typed, ItemStage, TypeOK, OwnedDisjoint,
       HeldInFlight, InFlight, PhaseShape, ComputedShape, OnePlace, Progress,
       ReportedWhole, Complete, Holds, OutcomeTravelsWithReport,
       NoPartialDecode
  <2>2. ASSUME NEW r \in Requests, RequestStep(r) PROVE Ind'
    BY <1>1, <2>2, IndGateRequest, IndUpdateStateAfterAlloc, IndLifeCycle,
       IndAbort DEF RequestStep
  <2>3. CASE WorkerStep
    BY <1>1, <2>3, IndWorkerStep
  <2>4. CASE EngineStep
    BY <1>1, <2>4, IndBuildConnectorMeta, IndForward, IndUpdateFromOutput
    DEF EngineStep
  <2>5. CASE Halted
    BY <2>1, <2>5 DEF Halted
  <2> QED
    BY <1>1, <2>1, <2>2, <2>3, <2>4, <2>5 DEF Next
<1> QED
  BY <1>1, IndInit, PTL DEF Spec

\* A decode path never consumes partially written pages.
THEOREM DecodesWholePrefix == Spec => []NoPartialDecode
<1>1. Ind => NoPartialDecode
  BY DEF Ind
<1> QED
  BY <1>1, Inductive, PTL

\* A load is reported whole: all its layers, or all its blocks as invalid.
THEOREM ReportsWholeLoad == Spec => []OutcomeTravelsWithReport
<1>1. Ind => OutcomeTravelsWithReport
  BY DEF Ind
<1> QED
  BY <1>1, Inductive, PTL

\* The worker scatters only into blocks that its request holds and no other.
THEOREM ScattersIntoHeldBlocks == Spec => []WritesOnlyHeldBlocks
<1>1. Ind => WritesOnlyHeldBlocks
  <2>1. SUFFICES ASSUME Ind, active # NoRequest
                 PROVE  /\ slots[active] = owned[active]
                        /\ \A r \in Requests \ {active} :
                              slots[active] \cap owned[r] = {}
    BY DEF WritesOnlyHeldBlocks
  <2>2. stage # "idle"
    BY <2>1 DEF Ind, Typed, ItemStage
  <2> QED
    BY <2>1, <2>2, ActiveHolds
<1> QED
  BY <1>1, Inductive, PTL

-----------------------------------------------------------------------------
(* The protocol with the engine, and the refinement of AtomicLoad. Three   *)
(* invariants are added to Ind: what the reader is bound to, what a        *)
(* request that was offered has behind it, and whose load an invalid block *)
(* belongs to.                                                             *)

\* The reader is bound to the active item from bind_request to finish_request.
ReaderBinding ==
    IF stage \in {"idle", "bind", "settle"} THEN bound = NoRequest
                                            ELSE bound = active

\* A request with load metadata was accepted, and stays claimed until it ends.
OfferedOnce ==
    \A r \in Requests :
        /\ slots[r] # {} => r \in claimed \/ status[r] = "done"
        /\ slots[r] # {} \/ r \in eligible => gateEvent[r] = "accepted"
        /\ r \in loadComplete \cup readTried => slots[r] # {}

\* Between load phases no block is invalid; in one, an invalid block belongs
\* to the active load or to one that this step will report.
InvalidInFlight ==
    /\ phase # "load" => invalid = {}
    /\ \A b \in invalid : \E r \in Requests :
          (r \in finishedRecving \/ r = active) /\ b \in slots[r]
    /\ NoStaleInvalidation

Protocol == ReaderBinding /\ OfferedOnce /\ InvalidInFlight

-----------------------------------------------------------------------------
LEMMA ProtocolInit == Init => Protocol
  BY DEF Init, Protocol, ReaderBinding, OfferedOnce, InvalidInFlight,
     NoStaleInvalidation, NoOutput

\* Only the worker's own steps move the reader.
LEMMA ReaderStep ==
    ASSUME Ind, ReaderBinding, [Next]_vars
    PROVE  ReaderBinding'
<1> USE DEF ReaderBinding
<1>1. CASE UNCHANGED <<stage, bound, active>>
  BY <1>1
<1>2. CASE WorkerStep
  <2>1. ASSUME NEW r \in Requests, StartItem(r) PROVE ReaderBinding'
    BY <2>1 DEF StartItem, At
  <2>2. CASE BindRequest
    BY <2>2 DEF BindRequest, At
  <2>3. CASE EvaluateGate
    BY <2>3 DEF EvaluateGate, At
  <2>4. CASE ReadManyExact \/ DecodeAndInvalidate \/ Transform
    BY <2>4 DEF ReadManyExact, DecodeAndInvalidate, Transform, At
  <2>5. CASE ScatterLayer \/ MarkLoaded
    BY <2>5 DEF ScatterLayer, MarkLoaded, At
  <2>6. CASE PublishLoadComplete \/ InjectionFailed
    BY <2>6 DEF PublishLoadComplete, InjectionFailed, At
  <2>7. CASE FinishRequest
    BY <2>7 DEF FinishRequest, At
  <2>8. CASE Settle
    BY <2>8 DEF Settle, At
  <2> QED
    BY <1>2, <2>1, <2>2, <2>3, <2>4, <2>5, <2>6, <2>7, <2>8 DEF WorkerStep
<1>3. ASSUME NEW r \in Requests, RequestStep(r) PROVE ReaderBinding'
  BY <1>1, <1>3 DEF RequestStep, GateRequest, UpdateStateAfterAlloc,
     ScheduleNative, ScheduleLoaded, Preempt, Finish, Abort
<1>4. CASE EngineStep
  BY <1>1, <1>4 DEF EngineStep, BuildConnectorMeta, Forward, UpdateFromOutput
<1> QED
  BY <1>1, <1>2, <1>3, <1>4 DEF Next, Halted

\* What the history of a request rests on.
historyVars == <<slots, claimed, status, eligible, gateEvent, loadComplete, readTried>>

LEMMA OfferedStep ==
    ASSUME Ind, OfferedOnce, [Next]_vars
    PROVE  OfferedOnce'
<1> USE DEF OfferedOnce, historyVars
<1>1. CASE UNCHANGED historyVars
  BY <1>1
<1>2. ASSUME NEW r \in Requests, RequestStep(r) PROVE OfferedOnce'
  <2> USE DEF Ind, Typed, TypeOK
  <2>1. CASE GateRequest(r)
    BY <2>1 DEF GateRequest
  <2>2. CASE UpdateStateAfterAlloc(r)
    BY <2>2 DEF UpdateStateAfterAlloc
  <2>3. CASE ScheduleNative(r) \/ ScheduleLoaded(r) \/ Preempt(r)
    BY <2>3 DEF ScheduleNative, ScheduleLoaded, Preempt
  <2>4. CASE Finish(r) \/ Abort(r)
    BY <2>4 DEF Finish, Abort, RequestFinished
  <2> QED
    BY <1>2, <2>1, <2>2, <2>3, <2>4 DEF RequestStep
<1>3. CASE WorkerStep
  <2>1. CASE ReadManyExact
    BY <2>1, ActiveHolds DEF ReadManyExact, At
  <2>2. CASE PublishLoadComplete
    BY <2>2, ActiveHolds DEF PublishLoadComplete, At
  <2>3. ASSUME NEW r \in Requests, StartItem(r) PROVE OfferedOnce'
    BY <1>1, <2>3 DEF StartItem
  <2>4. CASE BindRequest \/ EvaluateGate \/ DecodeAndInvalidate \/ Transform
    BY <1>1, <2>4 DEF BindRequest, EvaluateGate, DecodeAndInvalidate, Transform
  <2>5. CASE ScatterLayer \/ MarkLoaded \/ InjectionFailed
    BY <1>1, <2>5 DEF ScatterLayer, MarkLoaded, InjectionFailed
  <2>6. CASE FinishRequest \/ Settle
    BY <1>1, <2>6 DEF FinishRequest, Settle
  <2> QED
    BY <1>3, <2>1, <2>2, <2>3, <2>4, <2>5, <2>6 DEF WorkerStep
<1>4. CASE EngineStep
  <2>1. CASE BuildConnectorMeta \/ Forward
    BY <1>1, <2>1 DEF BuildConnectorMeta, Forward
  <2>2. CASE UpdateFromOutput
    <3>1. \A r \in Requests : status[r] = "done" => status'[r] = "done"
      BY <2>2 DEF UpdateFromOutput
    <3> QED
      BY <2>2, <3>1 DEF UpdateFromOutput
  <2> QED
    BY <1>4, <2>1, <2>2 DEF EngineStep
<1> QED
  BY <1>1, <1>2, <1>3, <1>4 DEF Next, Halted

reportState == <<invalid, slots, finishedRecving, active, phase, output>>

LEMMA InvalidStep ==
    ASSUME Ind, InvalidInFlight, [Next]_vars
    PROVE  InvalidInFlight'
<1> USE DEF InvalidInFlight, NoStaleInvalidation, reportState
<1>1. CASE UNCHANGED reportState
  BY <1>1
<1>2. ASSUME NEW r \in Requests, RequestStep(r) PROVE InvalidInFlight'
  <2>1. CASE UpdateStateAfterAlloc(r)
    BY <2>1 DEF UpdateStateAfterAlloc, Scheduling, Ind, PhaseShape, NoOutput
  <2>2. CASE GateRequest(r) \/ ScheduleNative(r) \/ ScheduleLoaded(r)
    BY <1>1, <2>2 DEF GateRequest, ScheduleNative, ScheduleLoaded
  <2>3. CASE Preempt(r) \/ Finish(r) \/ Abort(r)
    BY <1>1, <2>3 DEF Preempt, Finish, Abort, RequestFinished
  <2> QED
    BY <1>2, <2>1, <2>2, <2>3 DEF RequestStep
<1>3. CASE WorkerStep
  <2> USE DEF At, Loading
  <2>1. ASSUME NEW r \in Requests, StartItem(r) PROVE InvalidInFlight'
    <3>1. active \notin Requests
      BY <2>1, ConstantsAssumption DEF StartItem, Ind, Typed, ItemStage
    <3> QED
      BY <2>1, <3>1 DEF StartItem
  <2>2. CASE DecodeAndInvalidate \/ MarkLoaded \/ InjectionFailed
    <3>1. active \in Requests
      BY <2>2, ActiveHolds DEF DecodeAndInvalidate, MarkLoaded, InjectionFailed
    <3> QED
      BY <2>2, <3>1 DEF DecodeAndInvalidate, MarkLoaded, InjectionFailed,
         MarkInvalid, MarkValid
  <2>3. CASE Settle
    <3>1. active \in Requests
      BY <2>3, ActiveHolds DEF Settle
    <3> QED
      BY <2>3, <3>1 DEF Settle, MarkInvalid
  <2>4. CASE BindRequest \/ EvaluateGate \/ ReadManyExact \/ Transform
    BY <1>1, <2>4 DEF BindRequest, EvaluateGate, ReadManyExact, Transform
  <2>5. CASE ScatterLayer \/ PublishLoadComplete \/ FinishRequest
    BY <1>1, <2>5 DEF ScatterLayer, PublishLoadComplete, FinishRequest
  <2> QED
    BY <1>3, <2>1, <2>2, <2>3, <2>4, <2>5 DEF WorkerStep
<1>4. CASE EngineStep
  <2>1. CASE BuildConnectorMeta
    BY <2>1 DEF BuildConnectorMeta, Scheduling
  <2>2. CASE Forward
    <3>1. active \notin Requests
      BY <2>2, ConstantsAssumption DEF Forward, Ind, Typed, ItemStage
    <3> QED
      BY <2>2, <3>1 DEF Forward
  <2>3. CASE UpdateFromOutput
    BY <2>3 DEF UpdateFromOutput, NoOutput
  <2> QED
    BY <1>4, <2>1, <2>2, <2>3 DEF EngineStep
<1> QED
  BY <1>1, <1>2, <1>3, <1>4 DEF Next, Halted

LEMMA ProtocolStep ==
    ASSUME Ind, Protocol, [Next]_vars
    PROVE  Protocol'
  BY ReaderStep, OfferedStep, InvalidStep DEF Protocol

\* Both invariants hold in every state of every instance.
THEOREM ProtocolKept == Spec => [](Ind /\ Protocol)
  BY Inductive, ProtocolInit, ProtocolStep, PTL DEF Spec

\* No failure of an item, END_SESSION's included, leaves the source reader
\* bound when the worker turns to the next one.
THEOREM ReaderIsReleased == Spec => []ReaderFreeBetweenItems
<1>1. ReaderBinding => ReaderFreeBetweenItems
  BY DEF ReaderBinding, ReaderFreeBetweenItems
<1> QED
  BY <1>1, ProtocolKept, PTL DEF Protocol

\* An invalid block reaches vLLM only in the step that reports its load.
THEOREM InvalidatesOwnLoad == Spec => []NoStaleInvalidation
<1>1. InvalidInFlight => NoStaleInvalidation
  BY DEF InvalidInFlight
<1> QED
  BY <1>1, ProtocolKept, PTL DEF Protocol

\* A source read follows an accepting gate event.
THEOREM ReadsAccepted == Spec => []RejectedNeverReads
<1>1. Typed /\ OfferedOnce => RejectedNeverReads
  BY DEF OfferedOnce, RejectedNeverReads, Typed, TypeOK
<1> QED
  BY <1>1, ProtocolKept, PTL DEF Protocol, Ind

-----------------------------------------------------------------------------
(* One load per request, and the refinement.                               *)

\* Only update_state_after_alloc adds a pending load.
LEMMA PendingStep ==
    ASSUME Next
    PROVE  \/ pending' \subseteq pending
           \/ \E r \in Requests : UpdateStateAfterAlloc(r)
<1>1. ASSUME NEW r \in Requests, RequestStep(r)
      PROVE  pending' \subseteq pending \/ UpdateStateAfterAlloc(r)
  BY <1>1 DEF RequestStep, GateRequest, ScheduleNative, ScheduleLoaded,
     Preempt, Finish, Abort, RequestFinished
<1>2. CASE WorkerStep
  BY <1>2 DEF WorkerStep, StartItem, BindRequest, EvaluateGate, ReadManyExact,
     DecodeAndInvalidate, Transform, ScatterLayer, MarkLoaded,
     PublishLoadComplete, InjectionFailed, FinishRequest, Settle
<1>3. CASE EngineStep
  BY <1>3 DEF EngineStep, BuildConnectorMeta, Forward, UpdateFromOutput
<1> QED
  BY <1>1, <1>2, <1>3 DEF Next, Halted

\* A request is handed to the worker at most once, although a preempted or
\* failed request asks the connector again.
THEOREM OffersOnce == Spec => LoadedOnce
<1> DEFINE Fresh == \A r \in Requests : r \in pending' \ pending =>
                        slots[r] = {} /\ r \notin loadComplete
<1>1. ASSUME Protocol, Next PROVE Fresh
  <2>1. ASSUME NEW r \in Requests, UpdateStateAfterAlloc(r) PROVE Fresh
    BY <1>1, <2>1 DEF UpdateStateAfterAlloc, Protocol, OfferedOnce
  <2> QED
    BY <1>1, <2>1, PendingStep
<1>2. UNCHANGED vars => Fresh
  OBVIOUS
<1>3. Protocol /\ [Next]_vars => [Fresh]_vars
  BY <1>1
<1> QED
  BY <1>3, ProtocolKept, PTL DEF Spec, LoadedOnce

\* The prefix of a request when no computed prefix is torn.
View(r) ==
    IF status[r] = "done" THEN "gone"
    ELSE IF status[r] = "loading" THEN "loading"
    ELSE IF computed[r] = "none" THEN "absent" ELSE computed[r]

Views  == [r \in Requests |-> View(r)]
Offers == {r \in Requests : slots[r] # {}}

LEMMA SeesViews ==
    ASSUME Ind
    PROVE  [r \in Requests |-> Prefix(r)] = Views
  BY DEF Ind, Typed, TypeOK, Statuses, NoPartialDecode, Prefix, View, Views

LEMMA SeesViewsNext ==
    ASSUME Ind'
    PROVE  [r \in Requests |-> Prefix(r)]' = Views'
  BY DEF Ind, Typed, TypeOK, Statuses, NoPartialDecode, Prefix, View, Views

\* The abstract actions, said of Views and Offers.
LEMMA AtomicStutter ==
    ASSUME Ind, Ind', UNCHANGED <<Views, Offers>>
    PROVE  UNCHANGED Load!vars
  BY SeesViews, SeesViewsNext DEF Offers, Load!vars

LEMMA AtomicBegin ==
    ASSUME Ind, Ind', NEW r \in Requests,
           Views[r] = "absent", r \notin Offers,
           Views' = [Views EXCEPT ![r] = "loading"], Offers' = Offers \cup {r}
    PROVE  Load!Next
<1>1. Load!Begin(r)
  BY SeesViews, SeesViewsNext DEF Offers, Load!Begin
<1> QED
  BY <1>1 DEF Load!Next

LEMMA AtomicDrop ==
    ASSUME Ind, Ind', NEW r \in Requests,
           Views[r] \in {"external", "native"},
           Views' = [Views EXCEPT ![r] = "absent"], Offers' = Offers
    PROVE  Load!Next
<1>1. Load!Drop(r)
  BY SeesViews, SeesViewsNext DEF Offers, Load!Drop
<1> QED
  BY <1>1 DEF Load!Next

LEMMA AtomicLeave ==
    ASSUME Ind, Ind', NEW r \in Requests, Views[r] # "gone",
           Views' = [Views EXCEPT ![r] = "gone"], Offers' = Offers
    PROVE  Load!Next
<1>1. Load!Leave(r)
  BY SeesViews, SeesViewsNext DEF Offers, Load!Leave
<1> QED
  BY <1>1 DEF Load!Next

LEMMA AtomicPrefill ==
    ASSUME Ind, Ind', NEW N \in SUBSET {r \in Requests : Views[r] = "absent"},
           Views' = [r \in Requests |-> IF r \in N THEN "native" ELSE Views[r]],
           Offers' = Offers
    PROVE  Load!Next
<1>1. Load!Prefill
  BY SeesViews, SeesViewsNext DEF Offers, Load!Prefill, Load!In
<1> QED
  BY <1>1 DEF Load!Next

LEMMA AtomicResolve ==
    ASSUME Ind, Ind', NEW L \in SUBSET {r \in Requests : Views[r] = "loading"},
           NEW W \in SUBSET L,
           Views' = [r \in Requests |-> IF r \in W THEN "external"
                                        ELSE IF r \in L THEN "absent" ELSE Views[r]],
           Offers' = Offers
    PROVE  Load!Next
<1>1. L \in SUBSET Load!In("loading")
  BY SeesViews DEF Load!In
<1>2. [r \in Requests |-> Prefix(r)]' =
        [r \in Requests |-> IF r \in W THEN "external"
                            ELSE IF r \in L THEN "absent"
                            ELSE [s \in Requests |-> Prefix(s)][r]]
  BY SeesViews, SeesViewsNext
<1>3. Load!Resolve
  BY <1>1, <1>2 DEF Offers, Load!Resolve
<1> QED
  BY <1>3 DEF Load!Next

-----------------------------------------------------------------------------
(* Every step of the connector is a step of AtomicLoad or a stutter.       *)

LoadStep == [Load!Next]_(Load!vars)

\* A step that keeps status, computed and slots is not seen.
LEMMA UnseenStep ==
    ASSUME Ind, Ind', UNCHANGED <<status, computed, slots>>
    PROVE  LoadStep
<1>1. UNCHANGED <<Views, Offers>>
  BY DEF Views, View, Offers
<1> QED
  BY <1>1, AtomicStutter DEF LoadStep

LEMMA RequestStepRefines ==
    ASSUME Ind, Ind', Protocol, NEW r \in Requests, RequestStep(r)
    PROVE  LoadStep
<1> USE DEF LoadStep
<1>1. CASE GateRequest(r)
  BY <1>1, UnseenStep DEF GateRequest
<1>2. CASE UpdateStateAfterAlloc(r)
  <2>1. PICK B \in SUBSET Free : /\ Cardinality(B) = PrefixBlocks
                                 /\ slots' = [slots EXCEPT ![r] = B]
    BY <1>2 DEF UpdateStateAfterAlloc
  <2>2. B # {}
    BY <2>1, FreeIsFree
  <2>3. Views[r] = "absent" /\ Views' = [Views EXCEPT ![r] = "loading"]
    BY <1>2 DEF UpdateStateAfterAlloc, Views, View, Ind, Typed, TypeOK
  <2>4. r \notin Offers /\ Offers' = Offers \cup {r}
    BY <1>2, <2>1, <2>2 DEF UpdateStateAfterAlloc, Offers, Protocol,
       OfferedOnce, Ind, Typed, TypeOK
  <2> QED
    BY <2>3, <2>4, AtomicBegin
<1>3. CASE ScheduleNative(r) \/ ScheduleLoaded(r)
  <2>1. UNCHANGED <<Views, Offers>>
    BY <1>3 DEF ScheduleNative, ScheduleLoaded, Views, View, Offers, Ind,
       Typed, TypeOK
  <2> QED
    BY <2>1, AtomicStutter
<1>4. CASE Preempt(r)
  <2>1. Views[r] \in {"external", "native"} /\ Offers' = Offers
    BY <1>4 DEF Preempt, Views, View, Offers, Ind, Typed, TypeOK
  <2>2. Views' = [Views EXCEPT ![r] = "absent"]
    BY <1>4 DEF Preempt, Views, View, Ind, Typed, TypeOK
  <2> QED
    BY <2>1, <2>2, AtomicDrop
<1>5. CASE Finish(r) \/ Abort(r)
  <2>1. Views[r] # "gone" /\ Offers' = Offers
    BY <1>5 DEF Finish, Abort, RequestFinished, Views, View, Offers, Ind,
       Typed, TypeOK, Statuses
  <2>2. Views' = [Views EXCEPT ![r] = "gone"]
    BY <1>5 DEF Finish, Abort, Views, View, Ind, Typed, TypeOK
  <2> QED
    BY <2>1, <2>2, AtomicLeave
<1> QED
  BY <1>1, <1>2, <1>3, <1>4, <1>5 DEF RequestStep

LEMMA WorkerStepRefines ==
    ASSUME Ind, Ind', WorkerStep
    PROVE  LoadStep
<1>1. UNCHANGED <<status, computed, slots>>
  BY DEF WorkerStep, StartItem, BindRequest, EvaluateGate, ReadManyExact,
     DecodeAndInvalidate, Transform, ScatterLayer, MarkLoaded,
     PublishLoadComplete, InjectionFailed, FinishRequest, Settle
<1> QED
  BY <1>1, UnseenStep

\* A request that runs shares no block with a load that failed.
LEMMA NothingToRedo ==
    ASSUME Ind, Protocol, NEW r \in Requests, status[r] = "running"
    PROVE  ~Failed(r)
<1> SUFFICES ASSUME NEW b \in owned[r], b \in output.invalid PROVE FALSE
  BY DEF Failed
<1>1. PICK s \in output.finished : b \in slots[s]
  BY DEF Protocol, InvalidInFlight, NoStaleInvalidation
<1>2. s \in Requests /\ slots[s] = owned[s] /\ s # r
  BY DEF Ind, Typed, TypeOK, HeldInFlight, InFlight
<1> QED
  BY <1>1, <1>2 DEF Ind, OwnedDisjoint

LEMMA EngineStepRefines ==
    ASSUME Ind, Ind', Protocol, EngineStep
    PROVE  LoadStep
<1> USE DEF LoadStep
<1>1. CASE BuildConnectorMeta
  BY <1>1, UnseenStep DEF BuildConnectorMeta
<1>2. CASE Forward
  <2>1. Prefilling \in SUBSET {r \in Requests : Views[r] = "absent"}
    BY DEF Prefilling, Running, Views, View
  <2>2. Views' = [r \in Requests |->
                    IF r \in Prefilling THEN "native" ELSE Views[r]]
    BY <1>2 DEF Forward, Computed, Prefilling, Running, Views, View
  <2>3. Offers' = Offers
    BY <1>2 DEF Forward, Offers
  <2> QED
    BY <2>1, <2>2, <2>3, AtomicPrefill
<1>3. CASE UpdateFromOutput
  <2> DEFINE L == {r \in output.finished : status[r] = "loading"}
             W == {r \in L : ~Failed(r)}
  <2>1. L \in SUBSET {r \in Requests : Views[r] = "loading"} /\ W \in SUBSET L
    BY DEF Views, View, Ind, Typed, TypeOK
  <2>2. \A r \in Requests :
          /\ status'[r] = IF r \in L THEN "waiting" ELSE status[r]
          /\ computed'[r] = IF r \in W THEN "external" ELSE computed[r]
    BY <1>3, NothingToRedo DEF UpdateFromOutput, Running
  <2>3. \A r \in L : computed[r] = "none"
    BY DEF Ind, Typed, TypeOK, ComputedShape
  <2>4. Views' = [r \in Requests |-> IF r \in W THEN "external"
                                     ELSE IF r \in L THEN "absent" ELSE Views[r]]
    BY <2>1, <2>2, <2>3 DEF Views, View
  <2>5. Offers' = Offers
    BY <1>3 DEF UpdateFromOutput, Offers
  <2> QED
    BY <2>1, <2>4, <2>5, AtomicResolve
<1> QED
  BY <1>1, <1>2, <1>3 DEF EngineStep

\* The connector with vLLM implements the atomic load: whatever the order of
\* layer writes, failures, preemptions and aborts, a prefix is loaded once and
\* ends whole or not at all.
THEOREM Refines == Spec => ImplementsAtomicLoad
<1>1. Init => Load!Init
  BY DEF Init, Load!Init, Prefix
<1>2. ASSUME Ind, Ind', Protocol, [Next]_vars PROVE LoadStep
  <2>1. CASE UNCHANGED vars \/ Halted
    BY <1>2, <2>1, UnseenStep DEF Halted
  <2> QED
    BY <1>2, <2>1, RequestStepRefines, WorkerStepRefines, EngineStepRefines
    DEF Next
<1>3. Ind /\ Ind' /\ Protocol /\ [Next]_vars => [Load!Next]_(Load!vars)
  BY <1>2 DEF LoadStep
<1> QED
  BY <1>1, <1>3, ProtocolKept, PTL DEF Spec, ImplementsAtomicLoad, Load!Spec
=============================================================================
