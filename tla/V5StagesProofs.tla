---------------------------- MODULE V5StagesProofs ----------------------------
(***************************************************************************)
(* Safety of the long stages for every split, every number of processes    *)
(* and attempts, and whatever their steps compute: what holds of a stage   *)
(* although its attempts die, fail, overlap and go on from each other's    *)
(* files.                                                                  *)
(***************************************************************************)
EXTENDS V5Stages, FiniteSetTheorems, SequenceTheorems, WellFoundedInduction, TLAPS

USE DEF vars, frame, fitFiles, collectFiles, auditFiles, evaluationFiles

-----------------------------------------------------------------------------
(* A step of one process.                                                  *)

FrameTyped == DOMAIN workers = Processes /\ DOMAIN stage = {"status", "attempt", "outputs"}

\* A field is that of the changes if they name it, and the record's otherwise.
LEMMA ChangedFields ==
  ASSUME NEW record, NEW changes
  PROVE  /\ DOMAIN Changed(record, changes) = DOMAIN record \union DOMAIN changes
         /\ \A f \in DOMAIN changes : Changed(record, changes)[f] = changes[f]
         /\ \A f \in DOMAIN record \ DOMAIN changes : Changed(record, changes)[f] = record[f]
BY DEF Changed

LEMMA MoveChanges ==
  ASSUME FrameTyped, NEW p \in Processes, NEW changes, Move(p, changes)
  PROVE  /\ DOMAIN workers' = Processes
         /\ workers'[p] = Changed(workers[p], changes)
         /\ \A q \in Processes \ {p} : workers'[q] = workers[q]
BY DEF Move, FrameTyped

\* A step changes the fields it names, and no other.
LEMMA WorkingFields ==
  ASSUME FrameTyped, NEW p \in Processes, NEW pc, NEW changes, Working(p, pc, changes)
  PROVE  /\ workers[p].pc = pc
         /\ DOMAIN workers'[p] = DOMAIN workers[p] \union DOMAIN changes
         /\ \A f \in DOMAIN changes : workers'[p][f] = changes[f]
         /\ \A f \in DOMAIN workers[p] \ DOMAIN changes : workers'[p][f] = workers[p][f]
<1>1. workers[p].pc = pc /\ workers'[p] = Changed(workers[p], changes)
  BY MoveChanges DEF Working, At
<1>2. /\ DOMAIN workers'[p] = DOMAIN workers[p] \union DOMAIN changes
      /\ \A f \in DOMAIN changes : workers'[p][f] = changes[f]
      /\ \A f \in DOMAIN workers[p] \ DOMAIN changes : workers'[p][f] = workers[p][f]
  BY <1>1 DEF Changed
<1> QED
  BY <1>1, <1>2

\* A process that begins holds the fields it begins with, and the attempt's number.
LEMMA BeginChanges ==
  ASSUME FrameTyped, NEW p \in Processes, NEW stages, NEW fields, NEW others,
         Begin(p, stages, Changed(fields, others)), "attempt" \notin DOMAIN others
  PROVE  /\ DOMAIN fields \union DOMAIN others \union {"attempt"} \subseteq DOMAIN workers'[p]
         /\ \A f \in DOMAIN others : workers'[p][f] = others[f]
         /\ \A f \in DOMAIN fields \ (DOMAIN others \union {"attempt"}) : workers'[p][f] = fields[f]
<1> DEFINE begun == Changed(fields, others)
           leased == Changed(begun, [attempt |-> stage.attempt + 1])
<1>1. workers'[p] = Changed(workers[p], leased)
  BY MoveChanges DEF Begin
<1>2. /\ DOMAIN begun = DOMAIN fields \union DOMAIN others
      /\ \A f \in DOMAIN others : begun[f] = others[f]
      /\ \A f \in DOMAIN fields \ DOMAIN others : begun[f] = fields[f]
  BY ChangedFields
<1>3. /\ DOMAIN leased = DOMAIN begun \union {"attempt"}
      /\ \A f \in DOMAIN begun \ {"attempt"} : leased[f] = begun[f]
  <2> HIDE DEF begun
  <2> QED
    BY DEF Changed
<1>4. /\ DOMAIN leased \subseteq DOMAIN workers'[p]
      /\ \A f \in DOMAIN leased : workers'[p][f] = leased[f]
  <2> HIDE DEF leased
  <2> QED
    BY <1>1 DEF Changed
<1> QED
  BY <1>2, <1>3, <1>4

\* A step at a place no process of the stage is ever at does not happen.
LEMMA WorkingAt ==
  ASSUME NEW p, NEW pc, NEW changes, Working(p, pc, changes)
  PROVE  workers[p].pc = pc
BY DEF Working, At

-----------------------------------------------------------------------------
(* The frame of all stages.                                                *)

\* Attempts that never overlap are alive one at a time.
Alone ==
  overlapped \/ \A p, q \in Processes : p = q \/ workers[p].pc = "idle" \/ workers[q].pc = "idle"

(* A step of one process leaves the others as they are, and begins an       *)
(* attempt unseen only if no other is alive.                               *)
Acts(p) ==
  /\ FrameTyped' /\ kind' = kind
  /\ \A q \in Processes \ {p} : workers'[q] = workers[q]
  /\ overlapped => overlapped'
  /\ Alone => \A q \in Processes \ {p} : overlapped' \/ workers[q].pc = "idle"

LEMMA StepsAct ==
  ASSUME FrameTyped, NEW p \in Processes
  PROVE  /\ \A pc, changes : pc # "idle" /\ Working(p, pc, changes) => Acts(p)
         /\ \A stages, changes : Begin(p, stages, changes) => Acts(p)
         /\ \A outputs : Finish(p, outputs) /\ ~At(p, "idle") => Acts(p)
         /\ \A running, stuck : Failing(p, running, stuck) /\ ~At(p, "idle") => Acts(p)
         /\ FailStage(p) \/ Crash(p) => Acts(p)
<1>0. ASSUME workers[p].pc # "idle", overlapped' = overlapped
      PROVE  /\ overlapped => overlapped'
             /\ Alone => \A q \in Processes \ {p} : overlapped' \/ workers[q].pc = "idle"
  BY <1>0 DEF Alone
<1>1. ASSUME NEW pc, NEW changes, pc # "idle", Working(p, pc, changes)
      PROVE  Acts(p)
  <2>1. workers[p].pc # "idle" /\ kind' = kind /\ stage' = stage /\ overlapped' = overlapped
    BY <1>1 DEF Working, At
  <2>2. DOMAIN workers' = Processes /\ \A q \in Processes \ {p} : workers'[q] = workers[q]
    BY <1>1, MoveChanges DEF Working
  <2> QED
    BY <1>0, <2>1, <2>2 DEF Acts, FrameTyped
<1>2. ASSUME NEW stages, NEW changes, Begin(p, stages, changes)
      PROVE  Acts(p)
  <2>1. DOMAIN workers' = Processes /\ \A q \in Processes \ {p} : workers'[q] = workers[q]
    BY <1>2, MoveChanges DEF Begin
  <2>2. /\ kind' = kind /\ DOMAIN stage' = DOMAIN stage
        /\ overlapped' = (overlapped \/ \E q \in Processes : workers[q].pc # "idle")
    BY <1>2 DEF Begin, FrameTyped, At
  <2> QED
    BY <2>1, <2>2 DEF Acts, FrameTyped
<1>3. ASSUME NEW later, workers' = [workers EXCEPT ![p] = later], ~At(p, "idle"),
             UNCHANGED <<kind, overlapped>>, DOMAIN stage' = DOMAIN stage
      PROVE  Acts(p)
  <2>1. DOMAIN workers' = Processes /\ \A q \in Processes \ {p} : workers'[q] = workers[q]
    BY <1>3 DEF FrameTyped
  <2> QED
    BY <1>0, <1>3, <2>1 DEF Acts, FrameTyped, At
<1>4. ASSUME NEW outputs, Finish(p, outputs), ~At(p, "idle")
      PROVE  Acts(p)
  BY <1>3, <1>4 DEF Finish, FrameTyped
<1>5. ASSUME NEW running, NEW stuck, Failing(p, running, stuck), ~At(p, "idle")
      PROVE  Acts(p)
  <2>1. PICK later : workers' = [workers EXCEPT ![p] = later]
    BY <1>5 DEF Failing
  <2>2. UNCHANGED <<kind, overlapped>> /\ DOMAIN stage' = DOMAIN stage
    BY <1>5 DEF Failing
  <2> QED
    BY <1>3, <1>5, <2>1, <2>2
<1>6. FailStage(p) \/ Crash(p) => Acts(p)
  BY <1>3 DEF FailStage, Crash, FrameTyped
<1> QED
  BY <1>1, <1>2, <1>4, <1>5, <1>6

LEMMA FitActs ==
  ASSUME FrameTyped, NEW p \in Processes, FitStep(p)
  PROVE  Acts(p)
<1>1. CASE BeginFit(p) \/ BeginFrozenDirection(p) \/ CompleteFit(p)
  BY <1>1, StepsAct DEF BeginFit, BeginFrozenDirection, CompleteFit, At
<1>2. CASE LoadNormalizers(p) \/ FitNormalizers(p) \/ PointNormalizers(p)
  BY <1>2, StepsAct DEF LoadNormalizers, FitNormalizers, PointNormalizers
<1>3. CASE LoadInitializer(p)
  BY <1>3, StepsAct DEF LoadInitializer
<1>8. CASE FitInitializer(p) \/ PointInitializer(p)
  BY <1>8, StepsAct DEF FitInitializer, PointInitializer
<1>4. CASE Restore(p) \/ NextBatch(p) \/ TrainRecord(p) \/ TrainSegment(p)
  BY <1>4, StepsAct DEF Restore, NextBatch, TrainRecord, TrainSegment, Learn
<1>5. CASE StepAfterRecords(p) \/ StepAfterSegments(p)
  BY <1>5, StepsAct DEF StepAfterRecords, StepAfterSegments, StepCandidates
<1>6. CASE SaveCandidate(p) \/ SaveWeights(p)
  BY <1>6, StepsAct DEF SaveCandidate, SaveWeights
<1>9. CASE PointCheckpoint(p)
  BY <1>9, StepsAct DEF PointCheckpoint
<1>7. CASE PublishCandidate(p) \/ WriteFitManifest(p)
  BY <1>7, StepsAct DEF PublishCandidate, WriteFitManifest
<1> QED
  BY <1>1, <1>2, <1>3, <1>4, <1>5, <1>6, <1>7, <1>8, <1>9 DEF FitStep

LEMMA CollectActs ==
  ASSUME FrameTyped, NEW p \in Processes, CollectStep(p)
  PROVE  Acts(p)
<1>1. CASE BeginCollect(p) \/ ScanRow(p) \/ ScanEnds(p) \/ CollectShard(p)
  BY <1>1, StepsAct DEF BeginCollect, ScanRow, ScanEnds, CollectShard
<1>2. CASE PublishShard(p) \/ WriteTraceCheckpoint(p) \/ WriteTraceManifest(p) \/ CompleteCollect(p)
  BY <1>2, StepsAct DEF PublishShard, WriteTraceCheckpoint, WriteTraceManifest, CompleteCollect, At
<1> QED
  BY <1>1, <1>2 DEF CollectStep

LEMMA EvaluationActs ==
  ASSUME FrameTyped, NEW p \in Processes,
         \/ EvaluationStep(p) \/ RiskFitStep(p) \/ CalibrationStep(p)
         \/ ValidationStep(p) \/ SemanticStep(p) \/ MethodDevStep(p)
  PROVE  Acts(p)
<1> USE DEF Open, EnterEvaluator, RestoreRow, MeasureRow, Conclude, WriteArtifact, WriteManifest
<1>2. CASE EvaluationStep(p)
  BY <1>2, StepsAct DEF EvaluationStep, SaveSample, EndSamples, WriteReport, HashReport,
                        BindArtifact, PublishOutput, CompleteEvaluation, At
<1>3. CASE RiskFitStep(p)
  BY <1>3, StepsAct DEF RiskFitStep, BeginRiskFit, EnterRiskFit, RestoreRiskExample,
                    MeasureRiskExample, FitPredictor, SavePredictor, WriteRiskManifest
<1>4. CASE CalibrationStep(p)
  BY <1>4, StepsAct DEF CalibrationStep, BeginCalibration, EnterCalibration, RestoreCalibration,
                    MeasureCalibration, SelectThreshold, WriteCalibrationManifest
<1>5. CASE ValidationStep(p)
  BY <1>5, StepsAct DEF ValidationStep, BeginValidation, EnterValidation, RestoreValidation,
                    MeasureValidation, ConcludeValidation, ConcludeSelective, WriteCandidate,
                    WriteValidationManifest
<1>6. CASE SemanticStep(p)
  BY <1>6, StepsAct DEF SemanticStep, BeginSemantic, EnterSemantic, RestoreSemantic,
                    MeasureSemantic, ConcludeSemantic, ConcludeSelective, WriteSemanticApproved,
                    WriteSemanticManifest
<1>7. CASE MethodDevStep(p)
  BY <1>7, StepsAct DEF MethodDevStep, BeginMethodDev, EnterMethodDev, RestoreMethodDev,
                    MeasureMethodDev, FreezeStructure, WriteStructure
<1> QED
  BY <1>2, <1>3, <1>4, <1>5, <1>6, <1>7

LEMMA AuditActs ==
  ASSUME FrameTyped, NEW p \in Processes, AuditStep(p)
  PROVE  Acts(p)
<1>1. CASE ServiceStep(p)
  <2>1. CASE LoadBindings(p) \/ LaunchServer(p) \/ ServerReady(p) \/ ServerNotReady(p)
    BY <2>1, StepsAct DEF LoadBindings, LaunchServer, ServerReady, ServerNotReady, At
  <2>2. CASE StartCollector(p) \/ StartEngine(p) \/ StartWriter(p)
    BY <2>2, StepsAct DEF StartCollector, StartEngine, StartWriter, Starts
  <2>3. CASE LoadModels(p) \/ PreparePrefixes(p) \/ Raise(p)
    BY <2>3, StepsAct DEF LoadModels, PreparePrefixes, Raise, InEvaluator, AfterEvaluator, At
  <2>4. CASE StopEngine(p) \/ CloseCollector(p) \/ CloseWriter(p) \/ StopServer(p)
    BY <2>4, StepsAct DEF StopEngine, CloseCollector, CloseWriter, StopServer, StopService
  <2>5. CASE DrainOnClose(p) \/ EndClose(p)
    BY <2>5, StepsAct DEF DrainOnClose, EndClose
  <2> QED
    BY <1>1, <2>1, <2>2, <2>3, <2>4, <2>5 DEF ServiceStep
<1>2. \A at, id, accepted, changes :
        at # "idle" /\ Request(p, at, id, accepted, changes) => Acts(p)
  BY StepsAct DEF Request
<1>3. CASE BeginAudit(p) \/ Warmup(p) \/ MeasurePair(p) \/ ProbeFailure(p)
  BY <1>2, <1>3, StepsAct DEF BeginAudit, Warmup, MeasurePair, ProbeFailure
<1>4. CASE RestoreAudit(p) \/ BuildObservation(p) \/ Deliver(p)
  BY <1>4, StepsAct DEF RestoreAudit, RestoreRow, BuildObservation, Deliver, Listening
<1>5. CASE ConsumeGateEvent(p) \/ ConsumeExecutionEvent(p) \/ DrainWarmup(p) \/ DrainProbe(p)
  BY <1>5, StepsAct DEF ConsumeGateEvent, ConsumeExecutionEvent, WaitFor, DrainWarmup, DrainProbe, Drain
<1>6. CASE ConcludeAudit(p) \/ WriteApproved(p) \/ WriteRuntimeManifest(p)
  BY <1>6, StepsAct DEF ConcludeAudit, Conclude, WriteApproved, WriteArtifact,
                        WriteRuntimeManifest, WriteManifest
<1> QED
  BY <1>1, <1>3, <1>4, <1>5, <1>6 DEF AuditStep

\* Every step is one process's and leaves the others, or is a loss of power.
LEMMA StepActs ==
  ASSUME FrameTyped, NEW p \in Processes,
         Fitting(p) \/ Collecting(p) \/ Evaluating(p) \/ Stopping(p)
  PROVE  Acts(p)
BY FitActs, CollectActs, EvaluationActs, AuditActs, StepsAct
   DEF Fitting, Collecting, Evaluating, Stopping

LEMMA AloneStep ==
  ASSUME FrameTyped, Alone, [Next]_vars
  PROVE  Alone'
<1>1. ASSUME NEW p \in Processes, Acts(p)
      PROVE  Alone'
  BY <1>1 DEF Acts, Alone
<1>2. CASE PowerLoss
  BY <1>2 DEF PowerLoss, Alone, Idle
<1>3. CASE UNCHANGED vars
  BY <1>3 DEF Alone
<1> QED
  BY <1>1, <1>2, <1>3, StepActs DEF Next

LEMMA FrameStep ==
  ASSUME FrameTyped, [Next]_vars
  PROVE  FrameTyped' /\ kind' = kind
<1>1. CASE \E p \in Processes : Fitting(p) \/ Collecting(p) \/ Evaluating(p) \/ Stopping(p)
  BY <1>1, StepActs DEF Acts
<1>2. CASE PowerLoss
  BY <1>2 DEF PowerLoss, FrameTyped
<1>3. CASE UNCHANGED vars
  BY <1>3 DEF FrameTyped
<1> QED
  BY <1>1, <1>2, <1>3 DEF Next

-----------------------------------------------------------------------------
(* The collection of traces.                                               *)

CollectPlaces == {"idle", "scan", "collect", "publish shard", "complete", "refused"}

(* What a process has restored or collected is published, and all rows of  *)
(* a group that it has bound are bound to the group's one shard.           *)
Collector(p) ==
  LET w == workers[p]
  IN  /\ w.pc \in CollectPlaces
      /\ w.pc # "idle" =>
           /\ {"pc", "attempt", "row", "records", "assets"} \subseteq DOMAIN w
           /\ DOMAIN w.records = Rows /\ DOMAIN w.assets = Groups
           /\ \A r \in Rows : w.records[r] \in {NoShard, w.assets[PrefixGroup[r]]}
           /\ \A g \in Groups : w.assets[g] # NoShard => Shard(g, w.assets[g]) \in shardObjects

(* A shard is collected only for a group that has none yet.                *)
Collects(p) == At(p, "publish shard") => MustCollect(p, PrefixGroup[NextMissing(p)])

Loadable(records) == LoadsTraces(records) /\ \A r \in Rows : LoadsShard(records, r)

CollectInv ==
  kind = "collect" =>
    /\ \A p \in Processes : Collector(p) /\ Collects(p)
    /\ (\E p \in Processes : At(p, "complete")) => Loadable(traceManifest)
    /\ stage.status = "completed" => Loadable(stage.outputs)

\* No other family has a step for a collection, or at a place of one.
LEMMA OnlyCollecting ==
  ASSUME kind = "collect", NEW p, workers[p].pc \in CollectPlaces
  PROVE  ~Fitting(p) /\ ~Evaluating(p)
<1> USE DEF CollectPlaces, Begin, At
<1>1. ~FitStep(p)
  <2>1. ~BeginFit(p) /\ ~BeginFrozenDirection(p)
    BY DEF BeginFit, BeginFrozenDirection
  <2>2. ~LoadNormalizers(p) /\ ~FitNormalizers(p) /\ ~PointNormalizers(p)
    BY WorkingAt DEF LoadNormalizers, FitNormalizers, PointNormalizers
  <2>3. ~LoadInitializer(p) /\ ~FitInitializer(p) /\ ~PointInitializer(p) /\ ~Restore(p)
    BY WorkingAt DEF LoadInitializer, FitInitializer, PointInitializer, Restore
  <2>4. ~NextBatch(p) /\ ~TrainRecord(p) /\ ~TrainSegment(p)
    BY DEF NextBatch, TrainRecord, TrainSegment
  <2>5. ~StepAfterRecords(p) /\ ~StepAfterSegments(p)
    BY DEF StepAfterRecords, StepAfterSegments
  <2>6. ~SaveCandidate(p) /\ ~PointCheckpoint(p) /\ ~SaveWeights(p) /\ ~PublishCandidate(p)
    BY DEF SaveCandidate, PointCheckpoint, SaveWeights, PublishCandidate
  <2>7. ~WriteFitManifest(p) /\ ~CompleteFit(p)
    BY DEF WriteFitManifest, CompleteFit
  <2> QED
    BY <2>1, <2>2, <2>3, <2>4, <2>5, <2>6, <2>7 DEF FitStep
<1>2. ~EvaluationStep(p)
  <2>1. ~SaveSample(p) /\ ~EndSamples(p)
    BY DEF SaveSample, EndSamples, AfterRows
  <2>2. ~WriteReport(p) /\ ~HashReport(p) /\ ~BindArtifact(p)
    BY WorkingAt DEF WriteReport, HashReport, BindArtifact
  <2>3. ~PublishOutput(p) /\ ~CompleteEvaluation(p)
    BY DEF PublishOutput, CompleteEvaluation
  <2> QED
    BY <2>1, <2>2, <2>3 DEF EvaluationStep
<1> USE DEF Open, EnterEvaluator, RestoreRow, MeasureRow, AtRow, AfterRows, Conclude,
            WriteArtifact, WriteManifest
<1>3. ~RiskFitStep(p) /\ ~CalibrationStep(p)
  <2>1. ~RiskFitStep(p)
    BY DEF RiskFitStep, BeginRiskFit, EnterRiskFit, RestoreRiskExample, MeasureRiskExample,
           FitPredictor, SavePredictor, WriteRiskManifest
  <2>2. ~CalibrationStep(p)
    BY DEF CalibrationStep, BeginCalibration, EnterCalibration, RestoreCalibration,
           MeasureCalibration, SelectThreshold, WriteCalibrationManifest
  <2> QED
    BY <2>1, <2>2
<1>4. ~ValidationStep(p) /\ ~SemanticStep(p) /\ ~MethodDevStep(p)
  <2>1. ~ValidationStep(p)
    BY DEF ValidationStep, BeginValidation, EnterValidation, RestoreValidation,
           MeasureValidation, ConcludeValidation, ConcludeSelective, WriteCandidate,
           WriteValidationManifest
  <2>2. ~SemanticStep(p)
    BY DEF SemanticStep, BeginSemantic, EnterSemantic, RestoreSemantic, MeasureSemantic,
           ConcludeSemantic, ConcludeSelective, WriteSemanticApproved, WriteSemanticManifest
  <2>3. ~MethodDevStep(p)
    BY DEF MethodDevStep, BeginMethodDev, EnterMethodDev, RestoreMethodDev, MeasureMethodDev,
           FreezeStructure, WriteStructure
  <2> QED
    BY <2>1, <2>2, <2>3
<1>5. ~ServiceStep(p)
  <2>1. ~LoadBindings(p) /\ ~LaunchServer(p) /\ ~ServerReady(p) /\ ~ServerNotReady(p)
    BY WorkingAt DEF LoadBindings, LaunchServer, ServerReady, ServerNotReady
  <2>2. ~StartCollector(p) /\ ~StartEngine(p) /\ ~StartWriter(p)
    BY WorkingAt DEF StartCollector, StartEngine, StartWriter, Starts
  <2>3. ~LoadModels(p) /\ ~PreparePrefixes(p) /\ ~Raise(p)
    BY WorkingAt DEF LoadModels, PreparePrefixes, Raise, InEvaluator
  <2>4. ~StopEngine(p) /\ ~CloseCollector(p) /\ ~CloseWriter(p) /\ ~StopServer(p)
    BY DEF StopEngine, CloseCollector, CloseWriter, StopServer, StopService
  <2>5. ~DrainOnClose(p) /\ ~EndClose(p)
    BY WorkingAt DEF DrainOnClose, EndClose
  <2> QED
    BY <2>1, <2>2, <2>3, <2>4, <2>5 DEF ServiceStep
<1>6. ~AuditStep(p)
  <2>1. ~BeginAudit(p) /\ ~RestoreAudit(p) /\ ~BuildObservation(p) /\ ~MeasurePair(p)
    BY DEF BeginAudit, RestoreAudit, BuildObservation, MeasurePair
  <2>2. ~Warmup(p)
    BY WorkingAt DEF Warmup, Request
  <2>3. ~ProbeFailure(p) /\ ~Deliver(p) /\ ~ConsumeGateEvent(p) /\ ~ConsumeExecutionEvent(p)
    BY DEF ProbeFailure, Deliver, ConsumeGateEvent, ConsumeExecutionEvent, WaitFor
  <2>4. ~DrainWarmup(p) /\ ~DrainProbe(p)
    BY DEF DrainWarmup, DrainProbe, Drain
  <2>5. ~ConcludeAudit(p) /\ ~WriteApproved(p) /\ ~WriteRuntimeManifest(p)
    BY DEF ConcludeAudit, WriteApproved, WriteRuntimeManifest
  <2> QED
    BY <1>5, <2>1, <2>2, <2>3, <2>4, <2>5 DEF AuditStep
<1> QED
  BY <1>1, <1>2, <1>3, <1>4, <1>6 DEF Fitting, Evaluating

\* A process that does not move stays as it is, as published shards do.
LEMMA OthersCollect ==
  ASSUME shardObjects \subseteq shardObjects', NEW p, workers'[p] = workers[p],
         Collector(p), Collects(p)
  PROVE  (Collector(p) /\ Collects(p))'
<1>1. Collector(p)'
  BY DEF Collector
<1>2. NextMissing(p)' = NextMissing(p)
  BY DEF NextMissing, Missing
<1> QED
  BY <1>1, <1>2 DEF Collects, At, MustCollect

LEMMA StaysLoadable ==
  ASSUME shardObjects \subseteq shardObjects', NEW records, NEW later, later = records,
         Loadable(records)
  PROVE  Loadable(later)'
BY DEF Loadable, LoadsTraces, ValidTraces, LoadsShard

LEMMA CollectorStep ==
  ASSUME kind = "collect", FrameTyped, NEW p \in Processes, Collector(p), Collects(p),
         CollectStep(p)
  PROVE  /\ shardObjects \subseteq shardObjects'
         /\ (Collector(p) /\ Collects(p))'
<1> DEFINE w == workers[p]
<1>g. \A r \in Rows : PrefixGroup[r] \in Groups
  BY DEF Groups, Rows, Range
<1>s. shardObjects \subseteq shardObjects'
  <2>1. PublishShard(p) => shardObjects \subseteq shardObjects'
    BY DEF PublishShard
  <2>2. CollectShard(p) \/ WriteTraceCheckpoint(p) \/ WriteTraceManifest(p) => shardObjects' = shardObjects
    BY DEF CollectShard, WriteTraceCheckpoint, WriteTraceManifest
  <2>3. BeginCollect(p) \/ ScanRow(p) \/ ScanEnds(p) \/ CompleteCollect(p) => shardObjects' = shardObjects
    BY DEF BeginCollect, ScanRow, ScanEnds, CompleteCollect
  <2> QED
    BY <2>1, <2>2, <2>3 DEF CollectStep
<1>1. CASE BeginCollect(p)
  <2>1. Begin(p, {"collect"}, Changed(CollectIdle, [pc |-> "scan"]))
    BY <1>1 DEF BeginCollect
  <2>2. /\ DOMAIN CollectIdle \union {"pc", "attempt"} \subseteq DOMAIN workers'[p]
        /\ workers'[p].pc = "scan"
        /\ \A f \in DOMAIN CollectIdle \ {"pc", "attempt"} : workers'[p][f] = CollectIdle[f]
    BY <2>1, BeginChanges
  <2>3. /\ workers'[p].records = [r \in Rows |-> NoShard]
        /\ workers'[p].assets = [g \in Groups |-> NoShard]
    BY <2>2 DEF CollectIdle
  <2>4. /\ {"pc", "attempt", "row", "records", "assets"} \subseteq DOMAIN workers'[p]
        /\ DOMAIN workers'[p].records = Rows /\ DOMAIN workers'[p].assets = Groups
        /\ \A r \in Rows : workers'[p].records[r] = NoShard
        /\ \A g \in Groups : workers'[p].assets[g] = NoShard
    BY <2>2, <2>3 DEF CollectIdle
  <2> QED
    BY <1>s, <2>2, <2>4 DEF Collector, Collects, At, CollectPlaces
<1>2. CASE ScanRow(p)
  <2> DEFINE found == traceCheckpoints[w.row]  group == PrefixGroup[w.row]
  <2>1. /\ w.pc = "scan" /\ w.row \in Rows /\ shardObjects' = shardObjects
        /\ group \in Groups
    BY <1>2, <1>g DEF ScanRow, At
  <2>2. CASE found = NoShard
    <3>1. workers'[p] = Changed(w, [row |-> w.row + 1])
      BY <1>2, <2>2, MoveChanges DEF ScanRow, Working
    <3> QED
      BY <2>1, <3>1 DEF Changed, Collector, Collects, At, CollectPlaces
  <2>3. CASE found # NoShard /\ (\/ Shard(group, found) \notin shardObjects
                                 \/ w.assets[group] \notin {NoShard, found})
    <3>1. workers'[p] = Changed(w, [pc |-> "refused"])
      BY <1>2, <2>3, MoveChanges DEF ScanRow, Working
    <3> QED
      BY <2>1, <3>1 DEF Changed, Collector, Collects, At, CollectPlaces
  <2>4. CASE /\ found # NoShard /\ Shard(group, found) \in shardObjects
             /\ w.assets[group] \in {NoShard, found}
    <3>1. workers'[p] = Changed(w, [row |-> w.row + 1,
                                    records |-> [w.records EXCEPT ![w.row] = found],
                                    assets |-> [w.assets EXCEPT ![group] = found]])
      BY <1>2, <2>4, MoveChanges DEF ScanRow, Working
    <3>2. /\ DOMAIN w \subseteq DOMAIN workers'[p] /\ workers'[p].pc = "scan"
          /\ workers'[p].records = [w.records EXCEPT ![w.row] = found]
          /\ workers'[p].assets = [w.assets EXCEPT ![group] = found]
      BY <2>1, <3>1 DEF Changed, Collector
    <3>3. /\ DOMAIN w.records = Rows /\ DOMAIN w.assets = Groups
          /\ \A r \in Rows : w.records[r] \in {NoShard, w.assets[PrefixGroup[r]]}
          /\ \A g \in Groups : w.assets[g] # NoShard => Shard(g, w.assets[g]) \in shardObjects
      BY <2>1 DEF Collector
    <3>4. \A r \in Rows : workers'[p].records[r] \in {NoShard, workers'[p].assets[PrefixGroup[r]]}
      BY <1>g, <2>1, <2>4, <3>2, <3>3
    <3>5. \A g \in Groups : workers'[p].assets[g] # NoShard =>
                              Shard(g, workers'[p].assets[g]) \in shardObjects'
      BY <2>1, <2>4, <3>2, <3>3
    <3> QED
      BY <2>1, <3>2, <3>3, <3>4, <3>5 DEF Collector, Collects, At, CollectPlaces
  <2> QED
    BY <2>2, <2>3, <2>4
<1>3. CASE ScanEnds(p)
  <2>1. workers'[p] = Changed(w, [pc |-> "collect"]) /\ w.pc = "scan" /\ shardObjects' = shardObjects
    BY <1>3, MoveChanges DEF ScanEnds, Working, At
  <2> QED
    BY <2>1 DEF Changed, Collector, Collects, At, CollectPlaces
<1>4. CASE CollectShard(p)
  <2>1. /\ workers'[p] = Changed(w, [pc |-> "publish shard"]) /\ w.pc = "collect"
        /\ shardObjects' = shardObjects /\ MustCollect(p, PrefixGroup[NextMissing(p)])
    BY <1>4, MoveChanges DEF CollectShard, Working, At
  <2>2. /\ DOMAIN workers'[p] = DOMAIN w /\ workers'[p].records = w.records
        /\ workers'[p].assets = w.assets /\ workers'[p].pc = "publish shard"
    BY <2>1 DEF Changed, Collector
  <2>3. NextMissing(p)' = NextMissing(p)
    BY <2>2 DEF NextMissing, Missing
  <2> QED
    BY <2>1, <2>2, <2>3 DEF Collector, Collects, At, CollectPlaces, MustCollect
<1>5. CASE PublishShard(p)
  <2> DEFINE group == PrefixGroup[NextMissing(p)]  bytes == shardFile[group]
  <2>1. /\ workers'[p] = Changed(w, [pc |-> "collect", assets |-> [w.assets EXCEPT ![group] = bytes]])
        /\ shardObjects' = shardObjects \union {Shard(group, bytes)}
        /\ w.pc = "publish shard" /\ w.assets[group] = NoShard
    BY <1>5, MoveChanges DEF PublishShard, Working, At, Collects, MustCollect
  <2>2. /\ DOMAIN workers'[p] = DOMAIN w /\ workers'[p].records = w.records
        /\ workers'[p].assets = [w.assets EXCEPT ![group] = bytes] /\ workers'[p].pc = "collect"
    BY <2>1 DEF Changed, Collector
  <2>3. /\ {"pc", "attempt", "row", "records", "assets"} \subseteq DOMAIN w
        /\ DOMAIN w.records = Rows /\ DOMAIN w.assets = Groups
        /\ \A r \in Rows : w.records[r] \in {NoShard, w.assets[PrefixGroup[r]]}
        /\ \A g \in Groups : w.assets[g] # NoShard => Shard(g, w.assets[g]) \in shardObjects
    BY <2>1 DEF Collector
  <2>4. \A r \in Rows : workers'[p].records[r] \in {NoShard, workers'[p].assets[PrefixGroup[r]]}
    BY <1>g, <2>1, <2>2, <2>3
  <2>5. \A g \in Groups : workers'[p].assets[g] # NoShard =>
                            Shard(g, workers'[p].assets[g]) \in shardObjects'
    BY <2>1, <2>2, <2>3
  <2> QED
    BY <2>1, <2>2, <2>3, <2>4, <2>5 DEF Collector, Collects, At, CollectPlaces
<1>6. CASE WriteTraceCheckpoint(p)
  <2> DEFINE row == NextMissing(p)  bytes == w.assets[PrefixGroup[row]]
  <2>1. /\ workers'[p] = Changed(w, [records |-> [w.records EXCEPT ![row] = bytes]])
        /\ w.pc = "collect" /\ shardObjects' = shardObjects
    BY <1>6, MoveChanges DEF WriteTraceCheckpoint, Working, At
  <2>2. /\ DOMAIN workers'[p] = DOMAIN w /\ workers'[p].assets = w.assets
        /\ workers'[p].records = [w.records EXCEPT ![row] = bytes] /\ workers'[p].pc = "collect"
    BY <2>1 DEF Changed, Collector
  <2>3. /\ DOMAIN w.records = Rows /\ DOMAIN w.assets = Groups
        /\ \A r \in Rows : w.records[r] \in {NoShard, w.assets[PrefixGroup[r]]}
    BY <2>1 DEF Collector
  <2>4. \A r \in Rows : workers'[p].records[r] \in {NoShard, workers'[p].assets[PrefixGroup[r]]}
    BY <2>2, <2>3
  <2> QED
    BY <2>1, <2>2, <2>3, <2>4 DEF Collector, Collects, At, CollectPlaces
<1>7. CASE WriteTraceManifest(p)
  <2>1. workers'[p] = Changed(w, [pc |-> "complete"]) /\ w.pc = "collect" /\ shardObjects' = shardObjects
    BY <1>7, MoveChanges DEF WriteTraceManifest, Working, At
  <2> QED
    BY <2>1 DEF Changed, Collector, Collects, At, CollectPlaces
<1>8. CASE CompleteCollect(p)
  <2>1. workers'[p].pc = "idle"
    BY <1>8 DEF CompleteCollect, Finish, FrameTyped, Idle
  <2> QED
    BY <1>s, <2>1 DEF Collector, Collects, At, CollectPlaces
<1> QED
  BY <1>1, <1>2, <1>3, <1>4, <1>5, <1>6, <1>7, <1>8, <1>s DEF CollectStep

LEMMA CollectInvInit == Init => FrameTyped /\ CollectInv
<1> SUFFICES ASSUME Init PROVE FrameTyped /\ CollectInv
  OBVIOUS
<1>1. workers = [p \in Processes |-> Idle] /\ stage.status = "absent"
      /\ DOMAIN stage = {"status", "attempt", "outputs"}
  BY DEF Init, FrameInit
<1>2. \A p \in Processes : workers[p].pc = "idle"
  BY <1>1 DEF Idle
<1> QED
  BY <1>1, <1>2 DEF FrameTyped, CollectInv, Collector, Collects, At, CollectPlaces

\* What ends a process leaves what has been published, and completes nothing.
LEMMA StopKeepsCollection ==
  ASSUME FrameTyped, NEW p \in Processes, Stopping(p)
  PROVE  /\ UNCHANGED collectFiles /\ workers'[p].pc = "idle"
         /\ stage'.status = "completed" => stage' = stage
<1>1. FailStage(p) \/ Crash(p)
  BY DEF Stopping
<1>2. workers'[p] = Idle
  BY <1>1 DEF FailStage, Crash, FrameTyped
<1>3. stage'.status = "completed" => stage' = stage
  BY <1>1 DEF FailStage, Crash, FrameTyped
<1> QED
  BY <1>2, <1>3 DEF Stopping, Idle

\* The manifest is written from what its writer holds, which can be loaded.
LEMMA ManifestStep ==
  ASSUME FrameTyped, NEW p \in Processes, Collector(p), CollectStep(p)
  PROVE  \/ stage' = stage /\ Loadable(traceManifest)'
         \/ /\ UNCHANGED traceManifest /\ workers'[p].pc # "complete"
            /\ \/ stage'.status # "completed" \/ stage' = stage
               \/ At(p, "complete") /\ stage'.outputs = traceManifest
<1>1. CASE BeginCollect(p)
  <2>1. workers'[p].pc = "scan"
    BY <1>1, BeginChanges DEF BeginCollect
  <2> QED
    BY <1>1, <2>1 DEF BeginCollect, Begin, FrameTyped
<1>2. CASE ScanRow(p)
  <2>1. At(p, "scan") /\ UNCHANGED <<stage, traceManifest>>
    BY <1>2 DEF ScanRow, Working
  <2>2. \E changes : /\ workers'[p] = Changed(workers[p], changes)
                     /\ "pc" \in DOMAIN changes => changes.pc = "refused"
    BY <1>2, MoveChanges DEF ScanRow, Working
  <2>3. "pc" \in DOMAIN workers[p] /\ workers[p].pc = "scan"
    BY <2>1 DEF Collector, At
  <2>4. workers'[p].pc # "complete"
    BY <2>2, <2>3 DEF Changed
  <2> QED
    BY <2>1, <2>4
<1>3. CASE ScanEnds(p) \/ CollectShard(p) \/ PublishShard(p)
  <2>1. UNCHANGED <<stage, traceManifest>>
    BY <1>3 DEF ScanEnds, CollectShard, PublishShard, Working
  <2>2. CASE ScanEnds(p)
    <3>1. workers'[p] = Changed(workers[p], [pc |-> "collect"])
      BY <2>2, MoveChanges DEF ScanEnds, Working
    <3> QED
      BY <2>1, <3>1 DEF Changed
  <2>3. CASE CollectShard(p)
    <3>1. workers'[p] = Changed(workers[p], [pc |-> "publish shard"])
      BY <2>3, MoveChanges DEF CollectShard, Working
    <3> QED
      BY <2>1, <3>1 DEF Changed
  <2>4. CASE PublishShard(p)
    <3>1. \E assets : workers'[p] = Changed(workers[p], [pc |-> "collect", assets |-> assets])
      BY <2>4, MoveChanges DEF PublishShard, Working
    <3> QED
      BY <2>1, <3>1 DEF Changed
  <2> QED
    BY <1>3, <2>2, <2>3, <2>4
<1>4. CASE WriteTraceCheckpoint(p)
  <2>1. UNCHANGED <<stage, traceManifest>> /\ workers[p].pc = "collect"
    BY <1>4 DEF WriteTraceCheckpoint, Working, At
  <2>2. \E records : workers'[p] = Changed(workers[p], [records |-> records])
    BY <1>4, MoveChanges DEF WriteTraceCheckpoint, Working
  <2>3. workers'[p].pc = workers[p].pc
    BY <2>1, <2>2 DEF Changed, Collector
  <2> QED
    BY <2>1, <2>3
<1>5. CASE WriteTraceManifest(p)
  <2>1. /\ ValidTraces(workers[p].records) /\ traceManifest' = workers[p].records
        /\ workers[p].pc = "collect" /\ UNCHANGED <<stage, shardObjects>>
    BY <1>5 DEF WriteTraceManifest, Working, At
  <2>2. \A r \in Rows : PrefixGroup[r] \in Groups
    BY DEF Groups, Rows, Range
  <2>3. \A r \in Rows : Shard(PrefixGroup[r], workers[p].records[r]) \in shardObjects
    BY <2>1, <2>2 DEF Collector, ValidTraces
  <2> QED
    BY <2>1, <2>3 DEF Loadable, LoadsTraces, LoadsShard, ValidTraces
<1>6. CASE CompleteCollect(p)
  <2>1. UNCHANGED traceManifest /\ At(p, "complete") /\ stage'.outputs = traceManifest
    BY <1>6 DEF CompleteCollect, Finish, FrameTyped
  <2>2. workers'[p].pc = "idle"
    BY <1>6 DEF CompleteCollect, Finish, FrameTyped, Idle
  <2> QED
    BY <2>1, <2>2
<1> QED
  BY <1>1, <1>2, <1>3, <1>4, <1>5, <1>6 DEF CollectStep

LEMMA CollectInvStep ==
  ASSUME FrameTyped, CollectInv, [Next]_vars
  PROVE  CollectInv'
<1> SUFFICES ASSUME kind = "collect", kind' = "collect"
             PROVE  CollectInv'
  BY FrameStep DEF CollectInv
<1>1. CASE UNCHANGED vars
  <2>1. \A p \in Processes : (Collector(p) /\ Collects(p))'
    BY <1>1, OthersCollect DEF CollectInv
  <2>2. Loadable(traceManifest) => Loadable(traceManifest)'
    BY <1>1, StaysLoadable
  <2>3. Loadable(stage.outputs) => Loadable(stage.outputs)'
    BY <1>1, StaysLoadable
  <2> QED
    BY <1>1, <2>1, <2>2, <2>3 DEF CollectInv, At
<1>2. CASE PowerLoss
  BY <1>2 DEF PowerLoss, Fits
<1>3. ASSUME NEW p \in Processes,
             Fitting(p) \/ Collecting(p) \/ Evaluating(p) \/ Stopping(p)
      PROVE  CollectInv'
  <2>1. Collector(p) /\ Collects(p) /\ workers[p].pc \in CollectPlaces
    BY DEF CollectInv, Collector
  <2>2. CollectStep(p) \/ Stopping(p)
    BY <1>3, <2>1, OnlyCollecting DEF Collecting
  <2>3. shardObjects \subseteq shardObjects' /\ (Collector(p) /\ Collects(p))'
    <3>1. CASE CollectStep(p)
      BY <2>1, <3>1, CollectorStep
    <3>2. CASE Stopping(p)
      BY <3>2, StopKeepsCollection DEF Collector, Collects, At, CollectPlaces
    <3> QED
      BY <2>2, <3>1, <3>2
  <2>4. ASSUME NEW q \in Processes PROVE (Collector(q) /\ Collects(q))'
    <3>1. CASE q # p
      <4>1. workers'[q] = workers[q]
        BY <1>3, <3>1, StepActs DEF Acts
      <4> QED
        BY <2>3, <4>1, OthersCollect DEF CollectInv
    <3> QED
      BY <2>3, <3>1
  <2>5. CASE stage' = stage /\ Loadable(traceManifest)'
    <3>1. Loadable(stage.outputs) => Loadable(stage.outputs)'
      BY <2>3, <2>5, StaysLoadable
    <3> QED
      BY <2>4, <2>5, <3>1 DEF CollectInv
  <2>6. CASE /\ UNCHANGED traceManifest /\ workers'[p].pc # "complete"
             /\ \/ stage'.status # "completed" \/ stage' = stage
                \/ At(p, "complete") /\ stage'.outputs = traceManifest
    <3>1. Loadable(traceManifest) => Loadable(traceManifest)'
      BY <2>3, <2>6, StaysLoadable
    <3>2. (\E q \in Processes : At(q, "complete"))' => \E q \in Processes : At(q, "complete")
      BY <1>3, <2>6, StepActs DEF Acts, At
    <3>3. (stage.status = "completed")' => Loadable(stage.outputs)'
      <4>1. CASE stage' = stage
        BY <2>3, <4>1, StaysLoadable DEF CollectInv
      <4>2. CASE At(p, "complete") /\ stage'.outputs = traceManifest
        BY <2>3, <4>2, StaysLoadable DEF CollectInv
      <4> QED
        BY <2>6, <4>1, <4>2
    <3> QED
      BY <2>4, <3>1, <3>2, <3>3 DEF CollectInv
  <2>7. CASE Stopping(p)
    BY <2>6, <2>7, StopKeepsCollection
  <2>8. CASE CollectStep(p)
    BY <2>1, <2>5, <2>6, <2>8, ManifestStep
  <2> QED
    BY <2>2, <2>7, <2>8
<1> QED
  BY <1>1, <1>2, <1>3 DEF Next

\* The traces of a completed collection hold every row, with one shard for each
\* prefix group that can still be loaded, whatever attempts died, overlapped or
\* wrote each other's files.
THEOREM TracesLoad == Spec => []CompletedTracesLoad
<1>1. FrameTyped /\ CollectInv /\ [Next]_vars => (FrameTyped /\ CollectInv)'
  BY FrameStep, CollectInvStep
<1>2. CollectInv => CompletedTracesLoad
  BY DEF CollectInv, CompletedTracesLoad, Loadable
<1> QED
  BY <1>1, <1>2, CollectInvInit, PTL DEF Spec

-----------------------------------------------------------------------------
(* Least numbers, and sequences that grow.                                  *)

\* A set of natural numbers has a least one.
LEMMA LeastNatural ==
  ASSUME NEW S \in SUBSET Nat, S # {}
  PROVE  \E m \in S : \A k \in S : m <= k
<1>1. PICK m \in S : \A k \in S : ~(<<k, m>> \in OpToRel(<, Nat))
  BY NatLessThanWellFounded, WFMin
<1>2. \A k \in S : m <= k
  <2> TAKE k \in S
  <2>1. <<k, m>> \notin {pair \in Nat \X Nat : pair[1] < pair[2]}
    BY <1>1 DEF OpToRel
  <2> QED
    BY <2>1
<1> QED
  BY <1>2

\* A sequence of a function's first values, and the next one.
LEMMA AppendNext ==
  ASSUME NEW done, NEW f, NEW m \in Nat, done = [c \in 1..m |-> f[c]]
  PROVE  Append(done, f[m + 1]) = [c \in 1..m + 1 |-> f[c]]
<1> DEFINE U == {f[c] : c \in 1..m + 1}  u == [c \in 1..m + 1 |-> f[c]]
           last == f[m + 1]  saved == Append(done, last)
<1>1. /\ last \in U /\ \A c \in 1..m : f[c] \in U /\ u[c] = f[c]
      /\ u \in [1..m + 1 -> U] /\ u[m + 1] = last
  OBVIOUS
<1> HIDE DEF U
<1>2. done \in [1..m -> U] /\ \A c \in 1..m : done[c] = u[c]
  BY <1>1
<1> HIDE DEF u, last
<1>3. done \in Seq(U) /\ u \in Seq(U) /\ Len(u) = m + 1 /\ Len(done) = m
  BY <1>1, <1>2
<1>4. /\ saved \in Seq(U) /\ Len(saved) = m + 1
      /\ \A i \in 1..m : saved[i] = done[i]
      /\ saved[m + 1] = last
  BY <1>1, <1>3, AppendProperties
<1> HIDE DEF saved
<1>5. \A i \in 1..m + 1 : saved[i] = u[i]
  BY <1>1, <1>2, <1>4
<1>6. saved = u
  BY <1>3, <1>4, <1>5, SeqEqual
<1> QED
  BY <1>6 DEF saved, last, u

-----------------------------------------------------------------------------
(* The training of a fit: its accumulation groups in order, whatever the   *)
(* shuffles are, and where an attempt is in them.                          *)

RowCount == Len(PrefixGroup)
CandidateCount(k) == IF k = "fit_frozen_direction" THEN 1 ELSE Matrix

\* The rows of every step of the training.
Batches ==
  [n \in 1..Epochs * StepsPerEpoch |->
     Batch((n - 1) \div StepsPerEpoch, ((n - 1) % StepsPerEpoch) * Accumulation)]

\* What a step of a fit of kind k adds to a model, or its first m rows.
Contribution(k, batch, m) ==
  [i \in 1..m |->
     Sees(batch[i], IF k # "fit_target_logit" THEN PrefixGroup[batch[i]] ELSE NoAsset)]

Trajectory(k, b, n) == [i \in 1..n |-> Contribution(k, b[i], Len(b[i]))]

\* After g groups of epoch e, and m rows of the next group.
StepsAt(e, g) == e * StepsPerEpoch + g
SamplesAt(e, g) == e * RowCount + g * Accumulation
ProgressAt(e, g, m) ==
  [epoch |-> e, position |-> g * Accumulation, steps |-> StepsAt(e, g),
   samples |-> SamplesAt(e, g) + m]

ModelsAt(k, b, start, e, g, m) ==
  [c \in 1..CandidateCount(k) |->
     Model(start, Trajectory(k, b, StepsAt(e, g)), SamplesAt(e, g) + m)]

\* There is a step to come, or the training is over.
Amid(e, g) == e \in 0..Epochs - 1 /\ g \in 0..StepsPerEpoch - 1
Boundary(e, g) == Amid(e, g) \/ (e = Epochs /\ g = 0)

LEMMA Ceiling ==
  ASSUME NEW n \in Nat \ {0}, NEW a \in Nat \ {0}
  PROVE  LET s == (n + a - 1) \div a IN s \in Nat \ {0} /\ s * a >= n /\ (s - 1) * a < n
OBVIOUS

LEMMA FitNumbers ==
  /\ {RowCount, Matrix, Epochs, Accumulation, CheckpointEvery, StepsPerEpoch} \subseteq Nat \ {0}
  /\ StepsPerEpoch * Accumulation >= RowCount
  /\ (StepsPerEpoch - 1) * Accumulation < RowCount
<1>1. {Matrix, Epochs, Accumulation, CheckpointEvery} \subseteq Nat \ {0}
  BY FitAssumption, Zenon
<1>2. RowCount \in Nat \ {0}
  <2>1. PrefixGroup \in Seq(Groups) /\ DOMAIN PrefixGroup # {}
    BY StageAssumption, Zenon DEF Rows
  <2>2. Len(PrefixGroup) \in Nat /\ DOMAIN PrefixGroup = 1..Len(PrefixGroup)
    BY <2>1
  <2> QED
    BY <2>1, <2>2 DEF RowCount
<1> QED
  BY <1>1, <1>2, Ceiling DEF StepsPerEpoch, RowCount

LEMMA Monotone ==
  ASSUME NEW a \in Nat, NEW b \in Nat, NEW c \in Nat, a <= b
  PROVE  a * c <= b * c
OBVIOUS

LEMMA QuotientOf ==
  ASSUME NEW s \in Nat \ {0}, NEW e \in Nat, NEW g \in 0..s - 1
  PROVE  /\ (e * s + g) \div s = e /\ (e * s + g) % s = g
         /\ e * s + g \in Nat /\ \A n \in Nat : e < n => e * s + g < n * s
OBVIOUS

LEMMA DivisionOf ==
  ASSUME NEW s \in Nat \ {0}, NEW n \in Nat
  PROVE  n \div s \in Nat /\ n % s \in 0..s - 1 /\ n = (n \div s) * s + (n % s)
OBVIOUS

\* The rows of the step after g groups of epoch e, and how many they are.
LEMMA BatchAt ==
  ASSUME NEW e, NEW g, Amid(e, g)
  PROVE  /\ StepsAt(e, g) + 1 \in 1..Epochs * StepsPerEpoch
         /\ Batches[StepsAt(e, g) + 1] = Batch(e, g * Accumulation)
<1>1. /\ e \in Nat /\ e < Epochs /\ Epochs \in Nat /\ StepsPerEpoch \in Nat \ {0}
      /\ g \in 0..StepsPerEpoch - 1
  BY FitNumbers DEF Amid
<1>2. /\ StepsAt(e, g) \in Nat /\ StepsAt(e, g) < Epochs * StepsPerEpoch
      /\ StepsAt(e, g) \div StepsPerEpoch = e /\ StepsAt(e, g) % StepsPerEpoch = g
  BY <1>1, QuotientOf DEF StepsAt
<1>3. Epochs * StepsPerEpoch \in Nat /\ StepsAt(e, g) + 1 - 1 = StepsAt(e, g)
  BY <1>1, <1>2
<1> QED
  BY <1>2, <1>3 DEF Batches

\* An epoch's last group ends with its rows; a group before has all it accumulates.
LEMMA BatchLength ==
  ASSUME NEW e, NEW g, Amid(e, g)
  PROVE  LET batch == Batch(e, g * Accumulation)
         IN  /\ batch \in Seq(Range(batch)) /\ Len(batch) \in Nat \ {0}
             /\ IF g * Accumulation + Len(batch) = RowCount
                THEN g = StepsPerEpoch - 1
                ELSE g + 1 \in 0..StepsPerEpoch - 1 /\ Len(batch) = Accumulation
<1> DEFINE a == g * Accumulation
           z == Smaller(a + Accumulation, RowCount)
           rows == {Order(e)[i] : i \in a + 1..z}
           batch == Batch(e, a)
<1>1. /\ g \in 0..StepsPerEpoch - 1 /\ Accumulation \in Nat \ {0} /\ RowCount \in Nat \ {0}
      /\ StepsPerEpoch \in Nat \ {0} /\ a \in Nat
  BY FitNumbers DEF Amid
<1>2. a <= (StepsPerEpoch - 1) * Accumulation
  BY <1>1, Monotone
<1>3. a < RowCount
  BY <1>1, <1>2, FitNumbers
<1>4. g # StepsPerEpoch - 1 => a + Accumulation < RowCount
  <2> SUFFICES ASSUME g # StepsPerEpoch - 1
               PROVE  a + Accumulation < RowCount
    OBVIOUS
  <2>1. g + 1 \in Nat /\ StepsPerEpoch - 1 \in Nat /\ g + 1 <= StepsPerEpoch - 1
    BY <1>1
  <2>2. (g + 1) * Accumulation <= (StepsPerEpoch - 1) * Accumulation
    BY <1>1, <2>1, Monotone
  <2>3. (g + 1) * Accumulation = a + Accumulation
    BY <1>1
  <2> QED
    BY <1>1, <2>2, <2>3, FitNumbers
<1>5. g = StepsPerEpoch - 1 => a + Accumulation >= RowCount
  BY <1>1, FitNumbers
<1> HIDE DEF a
<1>6. z \in Nat /\ z = (IF g = StepsPerEpoch - 1 THEN RowCount ELSE a + Accumulation) /\ a < z
  BY <1>1, <1>3, <1>4, <1>5 DEF Smaller
<1> HIDE DEF z
<1>7. batch = SubSeq(Order(e), a + 1, z)
  BY DEF Batch, RowCount, z
<1>8. batch \in Seq(rows) /\ Len(batch) = z - a
  <2>1. \A i \in a + 1..z : Order(e)[i] \in rows
    OBVIOUS
  <2> HIDE DEF rows, batch
  <2>2. /\ SubSeq(Order(e), a + 1, z) \in Seq(rows)
        /\ Len(SubSeq(Order(e), a + 1, z)) = IF a + 1 <= z THEN z - (a + 1) + 1 ELSE 0
    BY <1>1, <1>6, <2>1, SubSeqProperties
  <2> QED
    BY <1>1, <1>6, <1>7, <2>2
<1> HIDE DEF rows, batch
<1>9. batch \in Seq(Range(batch))
  BY <1>8 DEF Range
<1> QED
  BY <1>1, <1>3, <1>4, <1>5, <1>6, <1>8, <1>9 DEF a, batch

LEMMA BatchesOfKind == kind' = kind => Batches' = Batches
BY DEF Batches, Batch, Order, FullPrefix

-----------------------------------------------------------------------------
(* A group of rows, learnt segment by segment.                              *)

Rest(batch, m) == SubSeq(batch, m + 1, Len(batch))

LEMMA MaxOfBounded ==
  ASSUME NEW n \in Nat, NEW S \in SUBSET (0..n), S # {}
  PROVE  Max(S) \in S /\ \A k \in S : k <= Max(S)
<1>1. PICK m \in {n - k : k \in S} : \A j \in {n - k : k \in S} : m <= j
  <2>1. \A k \in S : k \in 0..n
    OBVIOUS
  <2>2. \A k \in S : n - k \in Nat
    BY <2>1
  <2>3. {n - k : k \in S} \in SUBSET Nat /\ {n - k : k \in S} # {}
    BY <2>2
  <2> QED
    BY <2>3, LeastNatural
<1>2. PICK x \in S : m = n - x
  BY <1>1
<1>3. \A k \in S : x >= k
  <2> TAKE k \in S
  <2>1. m <= n - k /\ k \in Nat /\ x \in Nat
    BY <1>1
  <2> QED
    BY <1>2, <2>1
<1> QED
  BY <1>3 DEF Max

\* The leading segment of a batch has a row, and the rows have the first one's prefix.
LEMMA SegmentOf ==
  ASSUME NEW batch, batch \in Seq(Range(batch)), batch # <<>>
  PROVE  \E x \in 1..Len(batch) :
           /\ Segment(batch) = SubSeq(batch, 1, x)
           /\ \A i \in 1..x : PrefixGroup[batch[i]] = PrefixGroup[batch[1]]
<1> DEFINE S == {n \in 1..Len(batch) :
                   \A i \in 1..n : PrefixGroup[batch[i]] = PrefixGroup[batch[1]]}
<1>1. Len(batch) \in Nat \ {0}
  BY EmptySeq
<1>2. 1 \in S /\ S \in SUBSET (0..Len(batch))
  BY <1>1
<1>3. Max(S) \in S
  <2> HIDE DEF S
  <2> QED
    BY <1>1, <1>2, MaxOfBounded
<1> QED
  BY <1>3 DEF Segment

Own(k, row) == IF k # "fit_target_logit" THEN PrefixGroup[row] ELSE NoAsset

\* The next x rows of a batch, and an asset that is the prefix of each.
Taken(k, batch, m, x, rows, asset) ==
  /\ x \in 1..Len(batch) - m /\ rows = SubSeq(Rest(batch, m), 1, x)
  /\ \A i \in 1..x : asset = Own(k, rows[i])

\* What is left of the batch then, and what is learnt of it.
Leaves(k, batch, m, x, rows, asset) ==
  /\ Len(rows) = x /\ Len(Rest(batch, m)) = Len(batch) - m
  /\ SubSeq(Rest(batch, m), x + 1, Len(Rest(batch, m))) = Rest(batch, m + x)
  /\ Contribution(k, batch, m) \o [i \in 1..Len(rows) |-> Sees(rows[i], asset)] =
       Contribution(k, batch, m + x)

LEMMA RowsTaken ==
  ASSUME NEW k, NEW batch, batch \in Seq(Range(batch)), NEW m \in 0..Len(batch),
         NEW x, NEW rows, NEW asset, Taken(k, batch, m, x, rows, asset)
  PROVE  Leaves(k, batch, m, x, rows, asset)
<1> DEFINE R == Range(batch)  rest == Rest(batch, m)
<1>0. /\ x \in 1..Len(batch) - m /\ rows = SubSeq(Rest(batch, m), 1, x)
      /\ \A i \in 1..x : asset = Own(k, rows[i])
  BY DEF Taken
<1>1. Len(batch) \in Nat /\ \A i \in 1..Len(batch) : batch[i] \in R
  OBVIOUS
<1> HIDE DEF R
<1>2. /\ rest \in Seq(R) /\ Len(rest) = Len(batch) - m
      /\ \A i \in 1..Len(batch) - m : rest[i] = batch[m + i]
  <2>1. \A i \in m + 1..Len(batch) : batch[i] \in R
    BY <1>1
  <2>2. /\ SubSeq(batch, m + 1, Len(batch)) \in Seq(R)
        /\ Len(SubSeq(batch, m + 1, Len(batch))) =
             IF m + 1 <= Len(batch) THEN Len(batch) - (m + 1) + 1 ELSE 0
        /\ \A i \in 1..Len(batch) - (m + 1) + 1 :
             SubSeq(batch, m + 1, Len(batch))[i] = batch[m + 1 + i - 1]
    BY <1>1, <2>1, SubSeqProperties
  <2> QED
    BY <1>1, <2>2 DEF Rest
<1> HIDE DEF rest
<1>3. /\ rows \in Seq(R) /\ Len(rows) = x
      /\ \A i \in 1..x : rows[i] = batch[m + i]
  <2>0. \A i \in 1..x : rest[i] \in R
    BY <1>0, <1>1, <1>2
  <2>1. /\ SubSeq(rest, 1, x) \in Seq(R)
        /\ Len(SubSeq(rest, 1, x)) = IF 1 <= x THEN x - 1 + 1 ELSE 0
        /\ \A i \in 1..x - 1 + 1 : SubSeq(rest, 1, x)[i] = rest[1 + i - 1]
    BY <1>0, <1>1, <2>0, SubSeqProperties
  <2> QED
    BY <1>0, <1>1, <1>2, <2>1 DEF rest
<1>4. SubSeq(rest, x + 1, Len(rest)) = Rest(batch, m + x)
  <2> DEFINE s == SubSeq(rest, x + 1, Len(rest))
             t == SubSeq(batch, m + x + 1, Len(batch))
  <2>1. \A i \in x + 1..Len(rest) : rest[i] \in R
    BY <1>0, <1>1, <1>2
  <2>2. \A i \in m + x + 1..Len(batch) : batch[i] \in R
    BY <1>0, <1>1
  <2>3. /\ s \in Seq(R) /\ Len(s) = IF x + 1 <= Len(rest) THEN Len(rest) - (x + 1) + 1 ELSE 0
        /\ \A i \in 1..Len(rest) - (x + 1) + 1 : s[i] = rest[x + 1 + i - 1]
    BY <1>0, <1>1, <1>2, <2>1, SubSeqProperties
  <2>4. /\ t \in Seq(R)
        /\ Len(t) = IF m + x + 1 <= Len(batch) THEN Len(batch) - (m + x + 1) + 1 ELSE 0
        /\ \A i \in 1..Len(batch) - (m + x + 1) + 1 : t[i] = batch[m + x + 1 + i - 1]
    BY <1>0, <1>1, <2>2, SubSeqProperties
  <2> HIDE DEF s, t
  <2> DEFINE l == Len(batch) - (m + x)
  <2>5. /\ l \in Nat /\ Len(s) = l /\ Len(t) = l
        /\ Len(rest) - (x + 1) + 1 = l /\ Len(batch) - (m + x + 1) + 1 = l
    <3>1. /\ l \in Nat /\ Len(rest) = l + x
          /\ Len(rest) - (x + 1) + 1 = l /\ Len(batch) - (m + x + 1) + 1 = l
          /\ x + 1 <= Len(rest) \/ l = 0
          /\ m + x + 1 <= Len(batch) \/ l = 0
          /\ ~(x + 1 <= Len(rest)) \/ l # 0
          /\ ~(m + x + 1 <= Len(batch)) \/ l # 0
      <4>1. m \in Nat /\ x \in Nat /\ Len(batch) \in Nat /\ x <= Len(batch) - m
        BY <1>0, <1>1
      <4>2. Len(rest) = Len(batch) - m
        BY <1>2
      <4> QED
        BY <4>1, <4>2
    <3> HIDE DEF l
    <3> QED
      BY <2>3, <2>4, <3>1
  <2>6. \A i \in 1..l : s[i] = t[i]
    <3> TAKE i \in 1..l
    <3>1. s[i] = rest[x + 1 + i - 1] /\ t[i] = batch[m + x + 1 + i - 1]
      BY <2>3, <2>4, <2>5
    <3>2. /\ x + 1 + i - 1 = x + i /\ m + x + 1 + i - 1 = m + (x + i)
          /\ x + i \in 1..Len(batch) - m
      BY <1>0, <1>1, <2>5
    <3>3. rest[x + i] = batch[m + (x + i)]
      BY <1>2, <3>2
    <3> QED
      BY <3>1, <3>2, <3>3
  <2> HIDE DEF l
  <2>7. s = t
    BY <2>3, <2>4, <2>5, <2>6, SeqEqual
  <2> QED
    BY <2>7 DEF s, t, Rest
<1>5. Contribution(k, batch, m) \o [i \in 1..Len(rows) |-> Sees(rows[i], asset)] =
        Contribution(k, batch, m + x)
  <2> DEFINE s == Contribution(k, batch, m)
             t == [i \in 1..x |-> Sees(rows[i], asset)]
             u == Contribution(k, batch, m + x)
             V == {u[i] : i \in 1..m + x}
  <2>1. u = [i \in 1..m + x |-> Sees(batch[i], Own(k, batch[i]))]
    BY DEF Contribution, Own
  <2>2. s = [i \in 1..m |-> Sees(batch[i], Own(k, batch[i]))]
    BY DEF Contribution, Own
  <2>3. \A i \in 1..m : s[i] = u[i]
    BY <1>0, <1>1, <2>1, <2>2
  <2>4. \A i \in 1..x : t[i] = u[m + i]
    <3> TAKE i \in 1..x
    <3>1. rows[i] = batch[m + i] /\ asset = Own(k, batch[m + i]) /\ m + i \in 1..m + x
      <4>1. m \in Nat /\ x \in Nat /\ i \in Nat /\ 1 <= i /\ i <= x
        BY <1>0, <1>1
      <4>2. asset = Own(k, rows[i])
        BY <1>0
      <4> QED
        BY <1>3, <4>1, <4>2
    <3> QED
      BY <2>1, <3>1
  <2>5. \A i \in 1..m + x : u[i] \in V
    OBVIOUS
  <2> HIDE DEF V
  <2>6. /\ m \in Nat /\ x \in Nat
        /\ \A i \in 1..m : i \in 1..m + x
        /\ \A i \in 1..x : m + i \in 1..m + x
    BY <1>0, <1>1
  <2>a. s \in [1..m -> V]
    BY <2>2, <2>3, <2>5, <2>6
  <2>b. t \in [1..x -> V]
    BY <2>4, <2>5, <2>6
  <2>c. u \in [1..m + x -> V]
    BY <2>1, <2>5
  <2> HIDE DEF s, t, u
  <2>7. /\ s \in Seq(V) /\ t \in Seq(V) /\ u \in Seq(V)
        /\ Len(s) = m /\ Len(t) = x /\ Len(u) = m + x
    BY <2>6, <2>a, <2>b, <2>c
  <2>8. /\ s \o t \in Seq(V) /\ Len(s \o t) = m + x
        /\ \A i \in 1..m + x : (s \o t)[i] = IF i <= m THEN s[i] ELSE t[i - m]
    BY <2>7, ConcatProperties
  <2>9. \A i \in 1..m + x : (s \o t)[i] = u[i]
    BY <2>3, <2>4, <2>6, <2>8
  <2>10. s \o t = u
    BY <2>7, <2>8, <2>9, SeqEqual
  <2> QED
    BY <1>3, <2>10 DEF s, t, u
<1> QED
  BY <1>2, <1>3, <1>4, <1>5 DEF rest, Leaves

-----------------------------------------------------------------------------
(* What an attempt of a fit holds: every candidate has been through the     *)
(* same first steps of the training, and the rows at hand are those of the  *)
(* next one.                                                                *)

FitFields == {"pc", "attempt", "normalizers", "initializer", "models", "progress", "batch",
              "gradient", "asset", "done"}
Starting == {"normalizers", "point normalizers", "initializer", "point initializer", "restore"}
Finishing == {"weights", "publish candidates", "publish manifest"}
FitPlaces == Starting \union Finishing \union {"train", "save", "refused"}

StartOf(w) == <<w.normalizers, w.initializer>>

Unstarted(w) ==
  /\ w.models = <<>> /\ w.progress = NoProgress
  /\ w.batch = <<>> /\ w.gradient = <<>> /\ w.done = <<>>

Stands(k, b, w, e, g, m) ==
  w.progress = ProgressAt(e, g, m) /\ w.models = ModelsAt(k, b, StartOf(w), e, g, m)

\* Between two steps, and inside one.
Pausing(k, b, w, e, g) == Stands(k, b, w, e, g, 0) /\ w.batch = <<>> /\ w.gradient = <<>>
Learning(k, b, w, e, g, m) ==
  LET rows == b[StepsAt(e, g) + 1]
  IN  /\ Amid(e, g) /\ m \in 0..Len(rows)
      /\ Stands(k, b, w, e, g, m)
      /\ w.batch = Rest(rows, m) /\ w.gradient = Contribution(k, rows, m)

Pauses(k, b, w) ==
  \E e \in 0..Epochs, g \in 0..StepsPerEpoch - 1 : Boundary(e, g) /\ Pausing(k, b, w, e, g)
Learns(k, b, w) ==
  \E e \in 0..Epochs - 1, g \in 0..StepsPerEpoch - 1 :
    \E m \in 0..Len(b[StepsAt(e, g) + 1]) : Learning(k, b, w, e, g, m)

\* The first m candidates are saved.
SavedUpTo(w, m) == w.done = [c \in 1..m |-> w.models[c]]

Fitter(k, b, w) ==
  \/ w.pc = "idle"
  \/ /\ FitFields \subseteq DOMAIN w
     /\ \/ w.pc \in Starting \union {"refused"} /\ Unstarted(w)
        \/ w.pc = "train" /\ w.done = <<>> /\ (Pauses(k, b, w) \/ Learns(k, b, w))
        \/ w.pc = "refused" /\ Pauses(k, b, w)
        \/ /\ w.pc = "save" /\ Pauses(k, b, w)
           /\ \E m \in 0..CandidateCount(k) : SavedUpTo(w, m)
        \/ w.pc \in Finishing /\ Pausing(k, b, w, Epochs, 0)

\* A checkpoint generation is that of a boundary, whichever attempt has saved it.
Checkpointed(k, b, saved) ==
  \/ saved = None
  \/ \E e \in 0..Epochs, g \in 0..StepsPerEpoch - 1 :
       /\ Boundary(e, g)
       /\ saved = Generation(saved.binding, ProgressAt(e, g, 0),
                             ModelsAt(k, b, saved.binding, e, g, 0))

LEMMA Candidacy == Candidates = 1..CandidateCount(kind) /\ CandidateCount(kind) \in Nat \ {0}
BY FitNumbers DEF Candidates, CandidateCount

\* An attempt at a place holds what the place says.
LEMMA FitterAt ==
  ASSUME NEW k, NEW b, NEW w, Fitter(k, b, w), w.pc # "idle"
  PROVE  /\ FitFields \subseteq DOMAIN w
         /\ w.pc \in Starting => Unstarted(w)
         /\ w.pc = "train" => w.done = <<>> /\ (Pauses(k, b, w) \/ Learns(k, b, w))
         /\ w.pc = "save" => Pauses(k, b, w) /\ \E m \in 0..CandidateCount(k) : SavedUpTo(w, m)
         /\ w.pc \in Finishing => Pausing(k, b, w, Epochs, 0)
BY DEF Fitter, Starting, Finishing

\* The beginning of a fit, up to its training.
LEMMA BeginsFit ==
  ASSUME FrameTyped, NEW p \in Processes, NEW stages,
         Begin(p, stages, Changed(FitIdle, [pc |-> "normalizers"]))
  PROVE  Fitter(kind, Batches, workers'[p])
<1> DEFINE v == workers'[p]
<1>1. /\ DOMAIN FitIdle \union {"pc", "attempt"} \subseteq DOMAIN v /\ v.pc = "normalizers"
      /\ \A f \in DOMAIN FitIdle \ {"pc", "attempt"} : v[f] = FitIdle[f]
  BY BeginChanges
<1>2. /\ v.models = <<>> /\ v.progress = NoProgress
      /\ v.batch = <<>> /\ v.gradient = <<>> /\ v.done = <<>> /\ FitFields \subseteq DOMAIN v
  BY <1>1 DEF FitIdle, FitFields
<1> QED
  BY <1>1, <1>2 DEF Fitter, Unstarted, Starting

LEMMA StartsOn ==
  ASSUME FrameTyped, NEW p \in Processes, NEW at \in Starting, NEW to \in Starting \union {"refused"},
         NEW n, Fitter(kind, Batches, workers[p]),
         \/ Working(p, at, [pc |-> to])
         \/ Working(p, at, [pc |-> to, normalizers |-> n])
         \/ Working(p, at, [pc |-> to, initializer |-> n])
  PROVE  Fitter(kind, Batches, workers'[p])
<1> DEFINE w == workers[p]  v == workers'[p]
<1>1. w.pc = at /\ w.pc # "idle"
  BY WorkingAt DEF Starting
<1>2. FitFields \subseteq DOMAIN w /\ Unstarted(w)
  BY <1>1, FitterAt
<1>3. /\ DOMAIN w \subseteq DOMAIN v /\ v.pc = to
      /\ \A f \in DOMAIN w \ {"pc", "normalizers", "initializer"} : v[f] = w[f]
  <2>1. CASE Working(p, at, [pc |-> to])
    BY <2>1, WorkingFields
  <2>2. CASE Working(p, at, [pc |-> to, normalizers |-> n])
    BY <2>2, WorkingFields
  <2>3. CASE Working(p, at, [pc |-> to, initializer |-> n])
    BY <2>3, WorkingFields
  <2> QED
    BY <2>1, <2>2, <2>3
<1>4. /\ v.models = w.models /\ v.progress = w.progress
      /\ v.batch = w.batch /\ v.gradient = w.gradient /\ v.done = w.done
      /\ FitFields \subseteq DOMAIN v
  BY <1>2, <1>3 DEF FitFields
<1> QED
  BY <1>2, <1>3, <1>4 DEF Fitter, Unstarted

LEMMA FitterStarts ==
  ASSUME FrameTyped, NEW p \in Processes, Fitter(kind, Batches, workers[p]),
         \/ LoadNormalizers(p) \/ FitNormalizers(p) \/ PointNormalizers(p)
         \/ LoadInitializer(p) \/ FitInitializer(p) \/ PointInitializer(p)
  PROVE  Fitter(kind, Batches, workers'[p])
<1>p. {"normalizers", "point normalizers", "initializer", "point initializer", "restore"} = Starting
  BY DEF Starting
<1>1. CASE LoadNormalizers(p)
  <2>1. CASE "normalizers" \in torn.pointers
    BY <1>1, <1>p, <2>1, StartsOn DEF LoadNormalizers
  <2>2. CASE "normalizers" \notin torn.pointers
    BY <1>1, <1>p, <2>2, StartsOn DEF LoadNormalizers
  <2> QED
    BY <2>1, <2>2
<1>2. CASE FitNormalizers(p)
  BY <1>2, <1>p, StartsOn DEF FitNormalizers
<1>3. CASE PointNormalizers(p)
  BY <1>3, <1>p, StartsOn DEF PointNormalizers
<1>4. CASE LoadInitializer(p)
  <2> DEFINE refused == \/ pointers.initializer.binding # workers[p].normalizers
                        \/ "initializer" \in torn.pointers
  <2>1. CASE refused
    BY <1>4, <1>p, <2>1, StartsOn DEF LoadInitializer
  <2>2. CASE ~refused
    BY <1>4, <1>p, <2>2, StartsOn DEF LoadInitializer
  <2> QED
    BY <2>1, <2>2
<1>5. CASE FitInitializer(p)
  BY <1>5, <1>p, StartsOn DEF FitInitializer
<1>6. CASE PointInitializer(p)
  BY <1>6, <1>p, StartsOn DEF PointInitializer
<1> QED
  BY <1>1, <1>2, <1>3, <1>4, <1>5, <1>6

LEMMA AtTheStart ==
  /\ Boundary(0, 0) /\ ProgressAt(0, 0, 0) = NoProgress
  /\ 0 \in 0..Epochs /\ 0 \in 0..StepsPerEpoch - 1
  /\ \A k, b, start : ModelsAt(k, b, start, 0, 0, 0) = [c \in 1..CandidateCount(k) |-> Fresh(start)]
<1>1. /\ Epochs \in Nat \ {0} /\ StepsPerEpoch \in Nat \ {0}
      /\ Accumulation \in Nat /\ RowCount \in Nat
  BY FitNumbers
<1>2. StepsAt(0, 0) = 0 /\ SamplesAt(0, 0) + 0 = 0 /\ 0 * Accumulation = 0
  BY <1>1 DEF StepsAt, SamplesAt
<1>3. \A k, b : Trajectory(k, b, 0) = <<>>
  BY DEF Trajectory
<1> QED
  BY <1>1, <1>2, <1>3 DEF Boundary, Amid, ProgressAt, NoProgress, ModelsAt, Fresh

\* Training goes on from new models, or from a checkpoint's at its boundary.
LEMMA FitterRestores ==
  ASSUME FrameTyped, NEW p \in Processes, Fitter(kind, Batches, workers[p]),
         Checkpointed(kind, Batches, checkpoint), Restore(p)
  PROVE  Fitter(kind, Batches, workers'[p])
<1> DEFINE w == workers[p]  v == workers'[p]
<1>1. w.pc = "restore"
  BY WorkingAt DEF Restore
<1>2. FitFields \subseteq DOMAIN w /\ Unstarted(w)
  BY <1>1, FitterAt DEF Starting
<1>3. CASE checkpoint = None
  <2>1. Working(p, "restore", [pc |-> "train", models |-> FreshModels(p)])
    BY <1>3 DEF Restore
  <2>2. /\ v.pc = "train" /\ v.models = FreshModels(p)
        /\ DOMAIN w \subseteq DOMAIN v
        /\ \A f \in DOMAIN w \ {"pc", "models"} : v[f] = w[f]
    BY <2>1, WorkingFields
  <2>3. /\ v.progress = NoProgress /\ v.batch = <<>> /\ v.gradient = <<>> /\ v.done = <<>>
        /\ StartOf(v) = Start(p) /\ FitFields \subseteq DOMAIN v
    BY <1>2, <2>2 DEF Unstarted, FitFields, StartOf, Start
  <2>4. v.models = ModelsAt(kind, Batches, StartOf(v), 0, 0, 0)
    BY <2>2, <2>3, AtTheStart, Candidacy DEF FreshModels
  <2>5. Pauses(kind, Batches, v)
    BY <2>3, <2>4, AtTheStart DEF Pauses, Pausing, Stands
  <2> QED
    BY <2>2, <2>3, <2>5 DEF Fitter
<1>4. CASE checkpoint # None /\ Restorable(p)
  <2>1. Working(p, "restore", [pc |-> "train", models |-> checkpoint.models,
                               progress |-> checkpoint.progress])
    BY <1>4 DEF Restore
  <2>2. /\ v.pc = "train" /\ v.models = checkpoint.models /\ v.progress = checkpoint.progress
        /\ DOMAIN w \subseteq DOMAIN v
        /\ \A f \in DOMAIN w \ {"pc", "models", "progress"} : v[f] = w[f]
    BY <2>1, WorkingFields
  <2>3. /\ v.batch = <<>> /\ v.gradient = <<>> /\ v.done = <<>>
        /\ StartOf(v) = Start(p) /\ FitFields \subseteq DOMAIN v
    BY <1>2, <2>2 DEF Unstarted, FitFields, StartOf, Start
  <2>4. checkpoint.binding = StartOf(v)
    BY <1>4, <2>3 DEF Restorable
  <2>5. PICK e \in 0..Epochs, g \in 0..StepsPerEpoch - 1 :
          /\ Boundary(e, g)
          /\ checkpoint = Generation(checkpoint.binding, ProgressAt(e, g, 0),
                             ModelsAt(kind, Batches, checkpoint.binding, e, g, 0))
    BY <1>4 DEF Checkpointed
  <2>6. /\ checkpoint.progress = ProgressAt(e, g, 0)
        /\ checkpoint.models = ModelsAt(kind, Batches, checkpoint.binding, e, g, 0)
    BY <2>5 DEF Generation
  <2>7. Pauses(kind, Batches, v)
    BY <2>2, <2>3, <2>4, <2>5, <2>6 DEF Pauses, Pausing, Stands
  <2> QED
    BY <2>2, <2>3, <2>7 DEF Fitter
<1>5. CASE checkpoint # None /\ ~Restorable(p)
  <2>1. Working(p, "restore", [pc |-> "refused"])
    BY <1>5 DEF Restore
  <2> QED
    BY <2>1, StartsOn DEF Starting
<1> QED
  BY <1>3, <1>4, <1>5

LEMMA RestOf ==
  ASSUME NEW batch, batch \in Seq(Range(batch)), NEW m \in 0..Len(batch)
  PROVE  /\ Rest(batch, m) \in Seq(Range(batch)) /\ Len(Rest(batch, m)) = Len(batch) - m
         /\ Rest(batch, 0) = batch
<1> DEFINE R == Range(batch)
<1>1. Len(batch) \in Nat /\ \A i \in m + 1..Len(batch) : batch[i] \in R
  OBVIOUS
<1>2. Rest(batch, 0) = batch
  BY SubSeqFull DEF Rest
<1> HIDE DEF R
<1>3. /\ SubSeq(batch, m + 1, Len(batch)) \in Seq(R)
      /\ Len(SubSeq(batch, m + 1, Len(batch))) =
           IF m + 1 <= Len(batch) THEN Len(batch) - (m + 1) + 1 ELSE 0
  BY <1>1, SubSeqProperties
<1>4. m \in Nat /\ m <= Len(batch)
  BY <1>1
<1>5. Len(Rest(batch, m)) = Len(batch) - m
  BY <1>1, <1>3, <1>4 DEF Rest
<1> QED
  BY <1>2, <1>3, <1>5 DEF Rest, R

\* The rows of the step to come.
LEMMA RowsToCome ==
  ASSUME NEW e, NEW g, Amid(e, g)
  PROVE  LET rows == Batches[StepsAt(e, g) + 1]
         IN  /\ rows = Batch(e, g * Accumulation)
             /\ rows \in Seq(Range(rows)) /\ Len(rows) \in Nat \ {0}
             /\ IF g * Accumulation + Len(rows) = RowCount
                THEN g = StepsPerEpoch - 1
                ELSE g + 1 \in 0..StepsPerEpoch - 1 /\ Len(rows) = Accumulation
BY BatchAt, BatchLength

LEMMA FitterFetches ==
  ASSUME FrameTyped, NEW p \in Processes, Fitter(kind, Batches, workers[p]), NextBatch(p)
  PROVE  Fitter(kind, Batches, workers'[p])
<1> DEFINE w == workers[p]  v == workers'[p]
<1>1. w.pc = "train" /\ w.batch = <<>> /\ w.gradient = <<>>
  BY DEF NextBatch, At
<1>2. FitFields \subseteq DOMAIN w /\ w.done = <<>>
  BY <1>1, FitterAt
<1>3. Pauses(kind, Batches, w)
  <2>1. CASE Learns(kind, Batches, w)
    <3>1. PICK e \in 0..Epochs - 1, g \in 0..StepsPerEpoch - 1 :
            \E m \in 0..Len(Batches[StepsAt(e, g) + 1]) : Learning(kind, Batches, w, e, g, m)
      BY <2>1 DEF Learns
    <3>2. PICK m \in 0..Len(Batches[StepsAt(e, g) + 1]) : Learning(kind, Batches, w, e, g, m)
      BY <3>1
    <3> DEFINE rows == Batches[StepsAt(e, g) + 1]
    <3>3. Amid(e, g) /\ w.gradient = Contribution(kind, rows, m)
      BY <3>2 DEF Learning
    <3>4. Len(rows) \in Nat /\ m \in Nat
      BY <3>3, RowsToCome
    <3>5. 1..m = {}
      BY <1>1, <3>3 DEF Contribution
    <3>6. m = 0
      BY <3>4, <3>5
    <3>7. Boundary(e, g) /\ Pausing(kind, Batches, w, e, g)
      BY <1>1, <3>2, <3>3, <3>6 DEF Boundary, Pausing, Learning
    <3>8. e \in 0..Epochs
      BY FitNumbers
    <3> QED
      BY <3>7, <3>8 DEF Pauses
  <2> QED
    BY <1>1, <2>1, FitterAt
<1>4. PICK e \in 0..Epochs, g \in 0..StepsPerEpoch - 1 :
        Boundary(e, g) /\ Pausing(kind, Batches, w, e, g)
  BY <1>3 DEF Pauses
<1>5. w.progress = ProgressAt(e, g, 0) /\ w.models = ModelsAt(kind, Batches, StartOf(w), e, g, 0)
  BY <1>4 DEF Pausing, Stands
<1>6. w.progress.epoch = e /\ w.progress.position = g * Accumulation
  BY <1>5 DEF ProgressAt
<1>7. e \in Nat /\ Epochs \in Nat
  BY FitNumbers
<1>8. CASE e < Epochs
  <2> DEFINE rows == Batches[StepsAt(e, g) + 1]
  <2>1. Amid(e, g)
    BY <1>4, <1>7, <1>8 DEF Boundary, Amid
  <2>2. /\ rows = Batch(e, g * Accumulation) /\ rows \in Seq(Range(rows)) /\ Len(rows) \in Nat
    BY <2>1, RowsToCome
  <2>3. Working(p, "train", [batch |-> rows])
    BY <1>6, <1>8, <2>2 DEF NextBatch
  <2> HIDE DEF rows
  <2>4. /\ v.batch = rows /\ DOMAIN w \subseteq DOMAIN v
        /\ \A f \in DOMAIN w \ {"batch"} : v[f] = w[f]
    BY <2>3, WorkingFields
  <2>5. /\ v.pc = "train" /\ v.done = <<>> /\ v.gradient = <<>> /\ StartOf(v) = StartOf(w)
        /\ v.progress = w.progress /\ v.models = w.models /\ FitFields \subseteq DOMAIN v
    BY <1>1, <1>2, <2>4 DEF FitFields, StartOf
  <2>6. Rest(rows, 0) = rows /\ Contribution(kind, rows, 0) = <<>> /\ 0 \in 0..Len(rows)
    BY <2>2, RestOf DEF Contribution
  <2>7. Learning(kind, Batches, v, e, g, 0)
    BY <1>5, <2>1, <2>4, <2>5, <2>6 DEF Learning, Stands, rows
  <2>8. Learns(kind, Batches, v)
    BY <2>1, <2>6, <2>7 DEF Learns, Amid, rows
  <2> QED
    BY <2>5, <2>8 DEF Fitter
<1>9. CASE ~(e < Epochs)
  <2>1. e = Epochs /\ g = 0
    BY <1>4, <1>7, <1>9 DEF Boundary, Amid
  <2>2. PICK to \in {"weights", "refused"} : Working(p, "train", [pc |-> to])
    BY <1>6, <1>9 DEF NextBatch
  <2>3. /\ v.pc = to /\ DOMAIN w \subseteq DOMAIN v
        /\ \A f \in DOMAIN w \ {"pc"} : v[f] = w[f]
    BY <2>2, WorkingFields
  <2>4. /\ v.batch = <<>> /\ v.gradient = <<>> /\ StartOf(v) = StartOf(w)
        /\ v.progress = w.progress /\ v.models = w.models /\ FitFields \subseteq DOMAIN v
    BY <1>1, <1>2, <2>3 DEF FitFields, StartOf
  <2>5. Pausing(kind, Batches, v, Epochs, 0) /\ Pauses(kind, Batches, v)
    BY <1>4, <1>5, <2>1, <2>4 DEF Pausing, Stands, Pauses
  <2> QED
    BY <2>3, <2>4, <2>5 DEF Fitter, Finishing
<1> QED
  BY <1>8, <1>9

\* Some rows of a group are learnt, under their own prefix.
LEMMA FitterLearns ==
  ASSUME FrameTyped, NEW p \in Processes, Fitter(kind, Batches, workers[p]),
         workers[p].pc = "train", NEW e, NEW g, NEW m, Learning(kind, Batches, workers[p], e, g, m),
         NEW x, NEW rows, NEW asset,
         Taken(kind, Batches[StepsAt(e, g) + 1], m, x, rows, asset), Learn(p, rows, asset)
  PROVE  Fitter(kind, Batches, workers'[p])
<1> DEFINE w == workers[p]  v == workers'[p]  batch == Batches[StepsAt(e, g) + 1]
<1>1. /\ Amid(e, g) /\ m \in 0..Len(batch)
      /\ w.progress = ProgressAt(e, g, m)
      /\ w.models = ModelsAt(kind, Batches, StartOf(w), e, g, m)
      /\ w.batch = Rest(batch, m) /\ w.gradient = Contribution(kind, batch, m)
  BY DEF Learning, Stands
<1>2. batch \in Seq(Range(batch)) /\ Len(batch) \in Nat
  BY <1>1, RowsToCome
<1>3. FitFields \subseteq DOMAIN w /\ w.done = <<>>
  BY FitterAt
<1>t. Taken(kind, batch, m, x, rows, asset)
  OBVIOUS
<1> HIDE DEF batch
<1>4. /\ Len(rows) = x
      /\ SubSeq(w.batch, Len(rows) + 1, Len(w.batch)) = Rest(batch, m + x)
      /\ w.gradient \o [i \in 1..Len(rows) |-> Sees(rows[i], asset)] =
           Contribution(kind, batch, m + x)
  <2>1. m \in 0..Len(batch)
    BY <1>1 DEF batch
  <2>2. Leaves(kind, batch, m, x, rows, asset)
    BY <1>2, <1>t, <2>1, RowsTaken
  <2>3. w.batch = Rest(batch, m) /\ w.gradient = Contribution(kind, batch, m)
    BY <1>1 DEF batch
  <2> HIDE DEF w
  <2> QED
    BY <2>2, <2>3 DEF Leaves
<1>5. m \in Nat /\ x \in Nat /\ SamplesAt(e, g) \in Nat /\ m + x \in 0..Len(batch)
  <2>1. e \in Nat /\ g \in Nat /\ RowCount \in Nat /\ Accumulation \in Nat
    BY <1>1, FitNumbers DEF Amid
  <2>2. SamplesAt(e, g) \in Nat
    BY <2>1 DEF SamplesAt
  <2> QED
    BY <1>1, <1>2, <1>t, <2>2 DEF Taken
<1>6. /\ v.batch = Rest(batch, m + x) /\ v.gradient = Contribution(kind, batch, m + x)
      /\ v.models = [c \in Candidates |-> [w.models[c] EXCEPT !.measured = @ + Len(rows)]]
      /\ v.progress = [w.progress EXCEPT !.samples = @ + Len(rows)]
      /\ DOMAIN w \subseteq DOMAIN v
      /\ \A f \in DOMAIN w \ {"batch", "gradient", "asset", "models", "progress"} : v[f] = w[f]
  <2> DEFINE b == SubSeq(w.batch, Len(rows) + 1, Len(w.batch))
             d == w.gradient \o [i \in 1..Len(rows) |-> Sees(rows[i], asset)]
             models == [c \in Candidates |-> [w.models[c] EXCEPT !.measured = @ + Len(rows)]]
             progress == [w.progress EXCEPT !.samples = @ + Len(rows)]
  <2>1. Working(p, "train", [batch |-> b, gradient |-> d, asset |-> asset, models |-> models,
                             progress |-> progress])
    BY DEF Learn
  <2>2. b = Rest(batch, m + x) /\ d = Contribution(kind, batch, m + x)
    BY <1>4
  <2> HIDE DEF b, d, models, progress, w, v
  <2>3. /\ v.batch = b /\ v.gradient = d /\ v.models = models /\ v.progress = progress
        /\ DOMAIN w \subseteq DOMAIN v
        /\ \A f \in DOMAIN w \ {"batch", "gradient", "asset", "models", "progress"} : v[f] = w[f]
    BY <2>1, WorkingFields DEF w, v
  <2> QED
    BY <2>2, <2>3 DEF models, progress
<1>a. (SamplesAt(e, g) + m) + Len(rows) = SamplesAt(e, g) + (m + x)
  BY <1>4, <1>5
<1>7. v.progress = ProgressAt(e, g, m + x)
  <2>1. [w.progress EXCEPT !.samples = @ + Len(rows)] = ProgressAt(e, g, m + x)
    BY <1>1, <1>a DEF ProgressAt
  <2> QED
    BY <1>6, <2>1
<1>8. /\ v.pc = "train" /\ v.done = <<>> /\ StartOf(v) = StartOf(w) /\ FitFields \subseteq DOMAIN v
  BY <1>3, <1>6 DEF FitFields, StartOf
<1>9. v.models = ModelsAt(kind, Batches, StartOf(v), e, g, m + x)
  <2> DEFINE models == [c \in Candidates |-> [w.models[c] EXCEPT !.measured = @ + Len(rows)]]
  <2>1. ASSUME NEW c \in 1..CandidateCount(kind)
        PROVE  [w.models[c] EXCEPT !.measured = @ + Len(rows)] =
                  Model(StartOf(v), Trajectory(kind, Batches, StepsAt(e, g)), SamplesAt(e, g) + (m + x))
    <3>1. w.models[c] =
            Model(StartOf(v), Trajectory(kind, Batches, StepsAt(e, g)), SamplesAt(e, g) + m)
      BY <1>1, <1>8 DEF ModelsAt
    <3> QED
      BY <1>a, <3>1 DEF Model
  <2>2. models = ModelsAt(kind, Batches, StartOf(v), e, g, m + x)
    BY <2>1, Candidacy DEF ModelsAt
  <2> QED
    BY <1>6, <2>2
<1>10. Learning(kind, Batches, v, e, g, m + x)
  BY <1>1, <1>5, <1>6, <1>7, <1>9 DEF Learning, Stands, batch
<1>11. Learns(kind, Batches, v)
  BY <1>1, <1>5, <1>10 DEF Learns, Amid, batch
<1> QED
  BY <1>8, <1>11 DEF Fitter

LEMMA FitterTrains ==
  ASSUME FrameTyped, NEW p \in Processes, Fitter(kind, Batches, workers[p]),
         TrainRecord(p) \/ TrainSegment(p)
  PROVE  Fitter(kind, Batches, workers'[p])
<1> DEFINE w == workers[p]
<1>1. w.pc = "train" /\ w.batch # <<>>
  BY DEF TrainRecord, TrainSegment, At
<1>2. Learns(kind, Batches, w)
  BY <1>1, FitterAt DEF Pauses, Pausing
<1>3. PICK e \in 0..Epochs - 1, g \in 0..StepsPerEpoch - 1 :
        \E m \in 0..Len(Batches[StepsAt(e, g) + 1]) : Learning(kind, Batches, w, e, g, m)
  BY <1>2 DEF Learns
<1>4. PICK m \in 0..Len(Batches[StepsAt(e, g) + 1]) : Learning(kind, Batches, w, e, g, m)
  BY <1>3
<1> DEFINE batch == Batches[StepsAt(e, g) + 1]
<1>5. Amid(e, g) /\ w.batch = Rest(batch, m)
  BY <1>4 DEF Learning
<1>6. batch \in Seq(Range(batch)) /\ Len(batch) \in Nat
  BY <1>5, RowsToCome
<1>7. w.batch \in Seq(Range(batch)) /\ Len(w.batch) = Len(batch) - m
  BY <1>5, <1>6, RestOf
<1>8. Len(w.batch) \in Nat \ {0}
  BY <1>1, <1>7, EmptySeq
<1>9. CASE TrainRecord(p)
  <2> DEFINE rows == <<Head(w.batch)>>
  <2>1. Learn(p, rows, NoAsset) /\ kind = "fit_target_logit"
    BY <1>9 DEF TrainRecord, FullPrefix
  <2>2. rows = SubSeq(w.batch, 1, 1)
    <3>1. Head(w.batch) = w.batch[1] /\ w.batch[1] \in Range(batch)
      BY <1>7, <1>8
    <3>2. /\ SubSeq(w.batch, 1, 1) \in Seq(Range(batch)) /\ Len(SubSeq(w.batch, 1, 1)) = 1
          /\ SubSeq(w.batch, 1, 1)[1] = w.batch[1]
      <4>1. \A i \in 1..1 : w.batch[i] \in Range(batch)
        BY <3>1
      <4>2. /\ SubSeq(w.batch, 1, 1) \in Seq(Range(batch))
            /\ Len(SubSeq(w.batch, 1, 1)) = IF 1 <= 1 THEN 1 - 1 + 1 ELSE 0
            /\ \A i \in 1..1 - 1 + 1 : SubSeq(w.batch, 1, 1)[i] = w.batch[1 + i - 1]
        BY <4>1, SubSeqProperties
      <4> QED
        BY <4>2
    <3> QED
      BY <3>1, <3>2, SeqEqual
  <2>3. \A i \in 1..1 : NoAsset = Own(kind, rows[i])
    BY <2>1 DEF Own
  <2>4. 1 \in 1..Len(batch) - m
    BY <1>7, <1>8
  <2> HIDE DEF rows
  <2>5. Taken(kind, batch, m, 1, rows, NoAsset)
    BY <1>5, <2>2, <2>3, <2>4 DEF Taken
  <2> QED
    BY <1>1, <1>4, <2>1, <2>5, FitterLearns
<1>10. CASE TrainSegment(p)
  <2> DEFINE rows == Segment(w.batch)  asset == PrefixAsset(w.asset, rows[1])
  <2>1. Learn(p, rows, asset) /\ kind # "fit_target_logit"
    BY <1>10 DEF TrainSegment, FullPrefix
  <2>2. w.batch \in Seq(Range(w.batch))
    <3>1. w.batch \in [1..Len(w.batch) -> Range(w.batch)]
      BY <1>7 DEF Range
    <3> QED
      BY <1>8, <3>1
  <2>3. PICK x \in 1..Len(w.batch) :
           /\ rows = SubSeq(w.batch, 1, x)
           /\ \A i \in 1..x : PrefixGroup[w.batch[i]] = PrefixGroup[w.batch[1]]
    BY <1>1, <2>2, SegmentOf
  <2>4. \A i \in 1..x : rows[i] = w.batch[i]
    <3>1. \A i \in 1..x : w.batch[i] \in Range(batch)
      BY <1>7, <1>8
    <3>2. \A i \in 1..x - 1 + 1 : SubSeq(w.batch, 1, x)[i] = w.batch[1 + i - 1]
      BY <1>8, <3>1, SubSeqProperties
    <3> QED
      BY <1>8, <2>3, <3>2
  <2>5. asset = PrefixGroup[rows[1]]
    BY DEF PrefixAsset
  <2>6. \A i \in 1..x : asset = Own(kind, rows[i])
    <3>1. 1 \in 1..x
      BY <1>8
    <3> HIDE DEF rows, asset
    <3> QED
      BY <2>1, <2>3, <2>4, <2>5, <3>1 DEF Own
  <2>7. x \in 1..Len(batch) - m
    BY <1>7
  <2> HIDE DEF rows, asset
  <2>8. Taken(kind, batch, m, x, rows, asset)
    BY <1>5, <2>3, <2>6, <2>7 DEF Taken
  <2> QED
    BY <1>1, <1>4, <2>1, <2>8, FitterLearns
<1> QED
  BY <1>9, <1>10

LEMMA TrajectoryGrows ==
  ASSUME NEW k, NEW b, NEW n \in Nat
  PROVE  Append(Trajectory(k, b, n), Contribution(k, b[n + 1], Len(b[n + 1]))) =
           Trajectory(k, b, n + 1)
<1> DEFINE t == Trajectory(k, b, n)  u == Trajectory(k, b, n + 1)
           step == Contribution(k, b[n + 1], Len(b[n + 1]))
           U == {u[i] : i \in 1..n + 1}
<1>1. u = [i \in 1..n + 1 |-> Contribution(k, b[i], Len(b[i]))]
  BY DEF Trajectory
<1>2. t = [i \in 1..n |-> Contribution(k, b[i], Len(b[i]))]
  BY DEF Trajectory
<1>3. /\ \A i \in 1..n : i \in 1..n + 1 /\ t[i] = u[i]
      /\ n + 1 \in 1..n + 1 /\ u[n + 1] = step
  BY <1>1, <1>2
<1>4. \A i \in 1..n + 1 : u[i] \in U
  OBVIOUS
<1> HIDE DEF U, step
<1>5. u \in [1..n + 1 -> U]
  BY <1>1, <1>4
<1>6. t \in [1..n -> U] /\ step \in U
  BY <1>2, <1>3, <1>4
<1> HIDE DEF t, u
<1>7. u \in Seq(U) /\ Len(u) = n + 1 /\ t \in Seq(U) /\ Len(t) = n
  BY <1>5, <1>6
<1>8. /\ Append(t, step) \in Seq(U) /\ Len(Append(t, step)) = n + 1
      /\ \A i \in 1..n : Append(t, step)[i] = t[i]
      /\ Append(t, step)[n + 1] = step
  BY <1>6, <1>7, AppendProperties
<1>9. \A i \in 1..n + 1 : Append(t, step)[i] = u[i]
  BY <1>3, <1>8
<1>10. Append(t, step) = u
  BY <1>7, <1>8, <1>9, SeqEqual
<1> QED
  BY <1>10 DEF t, u, step

\* Where the progress is when a group of l rows has been learnt.
AdvancesTo(e, g, l, f, h) ==
  /\ f \in 0..Epochs /\ h \in 0..StepsPerEpoch - 1 /\ Boundary(f, h)
  /\ Advance(ProgressAt(e, g, l), l) = ProgressAt(f, h, 0)
  /\ StepsAt(f, h) = StepsAt(e, g) + 1
  /\ SamplesAt(f, h) + 0 = SamplesAt(e, g) + l

LEMMA ProgressAdvances ==
  ASSUME NEW e, NEW g, Amid(e, g)
  PROVE  \E f, h : AdvancesTo(e, g, Len(Batches[StepsAt(e, g) + 1]), f, h)
<1> DEFINE l == Len(Batches[StepsAt(e, g) + 1])
           progress == ProgressAt(e, g, l)
<1>1. /\ e \in Nat /\ e < Epochs /\ g \in Nat /\ g <= StepsPerEpoch - 1
      /\ {Epochs, StepsPerEpoch, Accumulation, RowCount} \subseteq Nat \ {0}
  BY FitNumbers DEF Amid
<1>2. /\ l \in Nat \ {0}
      /\ IF g * Accumulation + l = RowCount
         THEN g = StepsPerEpoch - 1
         ELSE g + 1 \in 0..StepsPerEpoch - 1 /\ l = Accumulation
  BY RowsToCome
<1> HIDE DEF l
<1>3. progress = [epoch |-> e, position |-> g * Accumulation, steps |-> StepsAt(e, g),
                  samples |-> SamplesAt(e, g) + l]
  BY DEF ProgressAt
<1>4. StepsAt(e, g) = e * StepsPerEpoch + g /\ SamplesAt(e, g) = e * RowCount + g * Accumulation
  BY DEF StepsAt, SamplesAt
<1>5. /\ (e + 1) * StepsPerEpoch = e * StepsPerEpoch + StepsPerEpoch
      /\ (e + 1) * RowCount = e * RowCount + RowCount
      /\ (g + 1) * Accumulation = g * Accumulation + Accumulation
      /\ e * StepsPerEpoch \in Nat /\ e * RowCount \in Nat /\ g * Accumulation \in Nat
      /\ 0 * Accumulation = 0
  BY <1>1
<1>6. CASE g * Accumulation + l = RowCount
  <2>0. progress.position + l = Len(PrefixGroup)
    BY <1>3, <1>6 DEF RowCount
  <2>1. Advance(progress, l) = [epoch |-> e + 1, position |-> 0, steps |-> StepsAt(e, g) + 1,
                                samples |-> SamplesAt(e, g) + l]
    <3>1. Advance(progress, l) =
            [progress EXCEPT !.steps = @ + 1, !.epoch = @ + 1, !.position = 0]
      BY <2>0, Zenon DEF Advance
    <3> HIDE DEF progress
    <3> QED
      BY <1>3, <3>1
  <2>2. StepsAt(e + 1, 0) = StepsAt(e, g) + 1
    BY <1>1, <1>2, <1>4, <1>5, <1>6 DEF StepsAt
  <2>3. SamplesAt(e + 1, 0) + 0 = SamplesAt(e, g) + l
    BY <1>1, <1>2, <1>4, <1>5, <1>6 DEF SamplesAt
  <2>4. Advance(progress, l) = ProgressAt(e + 1, 0, 0)
    BY <1>5, <2>1, <2>2, <2>3 DEF ProgressAt
  <2>5. e + 1 \in 0..Epochs /\ 0 \in 0..StepsPerEpoch - 1 /\ Boundary(e + 1, 0)
    BY <1>1 DEF Boundary, Amid
  <2>6. AdvancesTo(e, g, l, e + 1, 0)
    BY <2>2, <2>3, <2>4, <2>5 DEF AdvancesTo
  <2> QED
    BY <2>6 DEF l
<1>7. CASE g * Accumulation + l # RowCount
  <2>0. progress.position + l # Len(PrefixGroup)
    BY <1>3, <1>7 DEF RowCount
  <2>1. Advance(progress, l) = [epoch |-> e, position |-> g * Accumulation + l,
                                steps |-> StepsAt(e, g) + 1, samples |-> SamplesAt(e, g) + l]
    <3>1. Advance(progress, l) = [progress EXCEPT !.steps = @ + 1, !.position = @ + l]
      BY <2>0, Zenon DEF Advance
    <3> HIDE DEF progress
    <3> QED
      BY <1>3, <3>1
  <2>2. StepsAt(e, g + 1) = StepsAt(e, g) + 1
    BY <1>1, <1>4, <1>5 DEF StepsAt
  <2>3. SamplesAt(e, g + 1) + 0 = SamplesAt(e, g) + l /\ (g + 1) * Accumulation = g * Accumulation + l
    BY <1>1, <1>2, <1>4, <1>5, <1>7 DEF SamplesAt
  <2>4. Advance(progress, l) = ProgressAt(e, g + 1, 0)
    BY <2>1, <2>2, <2>3 DEF ProgressAt
  <2>5. e \in 0..Epochs /\ g + 1 \in 0..StepsPerEpoch - 1 /\ Boundary(e, g + 1)
    BY <1>1, <1>2, <1>7 DEF Boundary, Amid
  <2>6. AdvancesTo(e, g, l, e, g + 1)
    BY <2>2, <2>3, <2>4, <2>5 DEF AdvancesTo
  <2> QED
    BY <2>6 DEF l
<1> QED
  BY <1>6, <1>7

LEMMA ModelSteps ==
  ASSUME NEW start, NEW steps, NEW measured, NEW gradient, NEW model,
         model = Model(start, steps, measured)
  PROVE  [model EXCEPT !.steps = Append(@, gradient)] =
           Model(start, Append(steps, gradient), measured)
<1> DEFINE more == Append(steps, gradient)
<1>1. model.steps = steps
  BY DEF Model
<1>2. [model EXCEPT !.steps = Append(model.steps, gradient)] = [model EXCEPT !.steps = more]
  BY <1>1
<1> HIDE DEF more
<1>3. [model EXCEPT !.steps = more] = Model(start, more, measured)
  BY DEF Model
<1> QED
  BY <1>2, <1>3 DEF more

LEMMA FitterSteps ==
  ASSUME FrameTyped, NEW p \in Processes, Fitter(kind, Batches, workers[p]),
         StepAfterRecords(p) \/ StepAfterSegments(p)
  PROVE  Fitter(kind, Batches, workers'[p])
<1> DEFINE w == workers[p]  v == workers'[p]
           progress == Advance(w.progress, Len(w.gradient))
<1>1. w.pc = "train" /\ \E asset : StepCandidates(p, progress, asset)
  BY DEF StepAfterRecords, StepAfterSegments, At
<1>2. PICK asset : StepCandidates(p, progress, asset)
  BY <1>1
<1>3. w.batch = <<>> /\ w.gradient # <<>>
  BY <1>2 DEF StepCandidates
<1>4. FitFields \subseteq DOMAIN w /\ w.done = <<>> /\ Learns(kind, Batches, w)
  BY <1>1, <1>3, FitterAt DEF Pauses, Pausing
<1>5. PICK e \in 0..Epochs - 1, g \in 0..StepsPerEpoch - 1 :
        \E m \in 0..Len(Batches[StepsAt(e, g) + 1]) : Learning(kind, Batches, w, e, g, m)
  BY <1>4 DEF Learns
<1>6. PICK m \in 0..Len(Batches[StepsAt(e, g) + 1]) : Learning(kind, Batches, w, e, g, m)
  BY <1>5
<1> DEFINE n == StepsAt(e, g)  rows == Batches[n + 1]
<1>7. /\ Amid(e, g) /\ w.batch = Rest(rows, m) /\ w.gradient = Contribution(kind, rows, m)
      /\ w.progress = ProgressAt(e, g, m) /\ w.models = ModelsAt(kind, Batches, StartOf(w), e, g, m)
  BY <1>6 DEF Learning, Stands
<1>8. rows \in Seq(Range(rows)) /\ Len(rows) \in Nat
  BY <1>7, RowsToCome
<1>9. m = Len(rows)
  <2>1. Len(Rest(rows, m)) = 0 /\ Len(Rest(rows, m)) = Len(rows) - m
    BY <1>3, <1>7, <1>8, RestOf, EmptySeq
  <2> QED
    BY <1>8, <2>1
<1>10. Len(w.gradient) = Len(rows)
  <2>1. w.gradient = [i \in 1..Len(rows) |->
            Sees(rows[i], IF kind # "fit_target_logit" THEN PrefixGroup[rows[i]] ELSE NoAsset)]
    BY <1>7, <1>9 DEF Contribution
  <2> HIDE DEF rows
  <2> QED
    BY <1>8, <2>1
<1>11. PICK f, h : AdvancesTo(e, g, Len(rows), f, h)
  BY <1>7, ProgressAdvances
<1>12. /\ f \in 0..Epochs /\ h \in 0..StepsPerEpoch - 1 /\ Boundary(f, h)
       /\ progress = ProgressAt(f, h, 0)
       /\ StepsAt(f, h) = n + 1 /\ SamplesAt(f, h) + 0 = SamplesAt(e, g) + m
  <2>1. progress = Advance(ProgressAt(e, g, Len(rows)), Len(rows))
    BY <1>7, <1>9, <1>10
  <2>2. m = Len(rows)
    BY <1>9
  <2> HIDE DEF progress, rows
  <2>3. /\ f \in 0..Epochs /\ h \in 0..StepsPerEpoch - 1 /\ Boundary(f, h)
        /\ Advance(ProgressAt(e, g, Len(rows)), Len(rows)) = ProgressAt(f, h, 0)
        /\ StepsAt(f, h) = StepsAt(e, g) + 1
        /\ SamplesAt(f, h) + 0 = SamplesAt(e, g) + Len(rows)
    BY <1>11, Zenon DEF AdvancesTo
  <2>4. progress = ProgressAt(f, h, 0)
    BY <2>1, <2>3
  <2>5. SamplesAt(f, h) + 0 = SamplesAt(e, g) + m
    BY <2>2, <2>3, Zenon
  <2> QED
    BY <2>3, <2>4, <2>5
<1>13. n \in Nat
  <2>1. e \in Nat /\ g \in Nat /\ StepsPerEpoch \in Nat
    BY <1>7, FitNumbers DEF Amid
  <2>2. e * StepsPerEpoch + g \in Nat
    BY <2>1
  <2> QED
    BY <2>2 DEF StepsAt
<1> DEFINE stepped == [c \in Candidates |-> [w.models[c] EXCEPT !.steps = Append(@, w.gradient)]]
<1>14. stepped = ModelsAt(kind, Batches, StartOf(w), f, h, 0)
  <2>1. ASSUME NEW c \in 1..CandidateCount(kind)
        PROVE  [w.models[c] EXCEPT !.steps = Append(@, w.gradient)] =
                 Model(StartOf(w), Trajectory(kind, Batches, n + 1), SamplesAt(e, g) + m)
    <3>1. w.models[c] = Model(StartOf(w), Trajectory(kind, Batches, n), SamplesAt(e, g) + m)
      BY <1>7 DEF ModelsAt
    <3>g. w.gradient = Contribution(kind, Batches[n + 1], Len(Batches[n + 1]))
      BY <1>7, <1>9
    <3> HIDE DEF w, n
    <3>2. Append(Trajectory(kind, Batches, n), w.gradient) = Trajectory(kind, Batches, n + 1)
      BY <1>13, <3>g, TrajectoryGrows
    <3> DEFINE t == Trajectory(kind, Batches, n)  q == SamplesAt(e, g) + m
               start == StartOf(w)  model == w.models[c]  gradient == w.gradient
    <3>3. model = Model(start, t, q)
      BY <3>1
    <3> HIDE DEF t, q, start, model, gradient
    <3>4. [model EXCEPT !.steps = Append(@, gradient)] = Model(start, Append(t, gradient), q)
      BY <3>3, ModelSteps
    <3>5. Append(t, gradient) = Trajectory(kind, Batches, n + 1)
      BY <3>2 DEF t, gradient
    <3> HIDE DEF StepsAt
    <3> QED
      BY <3>4, <3>5 DEF q, start, model, gradient
  <2> QED
    BY <1>12, <2>1, Candidacy DEF ModelsAt
<1> HIDE DEF stepped, progress
<1>15. PICK to \in {"train", "save", "refused"} :
         Working(p, "train", [pc |-> to, models |-> stepped, gradient |-> <<>>,
                              progress |-> progress, asset |-> asset])
  BY <1>2 DEF StepCandidates, stepped
<1>16. /\ v.pc = to /\ v.models = stepped /\ v.gradient = <<>> /\ v.progress = progress
       /\ DOMAIN w \subseteq DOMAIN v
       /\ \A field \in DOMAIN w \ {"pc", "models", "gradient", "progress", "asset"} :
            v[field] = w[field]
  BY <1>15, WorkingFields
<1>17. /\ v.batch = <<>> /\ v.done = <<>> /\ StartOf(v) = StartOf(w) /\ FitFields \subseteq DOMAIN v
  BY <1>3, <1>4, <1>16 DEF FitFields, StartOf
<1>18. Pauses(kind, Batches, v)
  BY <1>12, <1>14, <1>16, <1>17 DEF Pauses, Pausing, Stands
<1>19. SavedUpTo(v, 0) /\ 0 \in 0..CandidateCount(kind)
  BY <1>17, Candidacy DEF SavedUpTo
<1> QED
  BY <1>16, <1>17, <1>18, <1>19 DEF Fitter

\* Saving and publishing leave what the candidates are.
LEMMA FitterWrites ==
  ASSUME FrameTyped, NEW p \in Processes, Fitter(kind, Batches, workers[p]),
         \/ SaveCandidate(p) \/ PointCheckpoint(p)
         \/ SaveWeights(p) \/ PublishCandidate(p) \/ WriteFitManifest(p)
  PROVE  Fitter(kind, Batches, workers'[p])
<1> DEFINE w == workers[p]  v == workers'[p]
<1>1. ASSUME NEW at, NEW changes, Working(p, at, changes), w.pc # "idle",
             DOMAIN changes \subseteq {"pc", "done"}
      PROVE  /\ FitFields \subseteq DOMAIN v
             /\ Pauses(kind, Batches, w) => Pauses(kind, Batches, v)
             /\ Pausing(kind, Batches, w, Epochs, 0) => Pausing(kind, Batches, v, Epochs, 0)
             /\ v.models = w.models
             /\ \A f \in DOMAIN changes : v[f] = changes[f]
             /\ "pc" \notin DOMAIN changes => v.pc = w.pc
  <2>1. FitFields \subseteq DOMAIN w
    BY <1>1, FitterAt
  <2>2. /\ DOMAIN w \subseteq DOMAIN v
        /\ \A f \in DOMAIN w \ {"pc", "done"} : v[f] = w[f]
        /\ \A f \in DOMAIN w \ DOMAIN changes : v[f] = w[f]
        /\ \A f \in DOMAIN changes : v[f] = changes[f]
    BY <1>1, WorkingFields
  <2>3. /\ v.models = w.models /\ v.progress = w.progress /\ StartOf(v) = StartOf(w)
        /\ v.batch = w.batch /\ v.gradient = w.gradient /\ FitFields \subseteq DOMAIN v
        /\ "pc" \notin DOMAIN changes => v.pc = w.pc
    BY <2>1, <2>2 DEF FitFields, StartOf
  <2> HIDE DEF w, v
  <2> QED
    BY <2>2, <2>3 DEF Pauses, Pausing, Stands
<1>2. CASE SaveCandidate(p)
  <2> DEFINE saved == Append(w.done, w.models[Another(p)])
  <2>1. w.pc = "save" /\ ~AllDone(p) /\ Working(p, "save", [done |-> saved])
    BY <1>2 DEF SaveCandidate, At
  <2>2. Pauses(kind, Batches, w)
    BY <2>1, FitterAt
  <2>3. PICK m \in 0..CandidateCount(kind) : SavedUpTo(w, m)
    BY <2>1, FitterAt
  <2>4. Len(w.done) = m /\ m \in Nat
    BY <2>3, Candidacy DEF SavedUpTo
  <2>5. m + 1 \in 0..CandidateCount(kind)
    <3>1. Cardinality(Candidates) = CandidateCount(kind)
      BY Candidacy, FS_Interval
    <3> QED
      BY <2>1, <2>4, <3>1, Candidacy DEF AllDone
  <2>6. saved = [c \in 1..m + 1 |-> w.models[c]]
    <3>1. w.done = [c \in 1..m |-> w.models[c]] /\ saved = Append(w.done, w.models[m + 1])
      BY <2>3, <2>4 DEF SavedUpTo, Another
    <3> HIDE DEF w, saved
    <3> QED
      BY <2>4, <3>1, AppendNext
  <2> HIDE DEF saved
  <2>7. /\ FitFields \subseteq DOMAIN v /\ Pauses(kind, Batches, v) /\ v.pc = "save"
        /\ v.models = w.models /\ v.done = saved
    BY <1>1, <2>1, <2>2
  <2>8. SavedUpTo(v, m + 1)
    BY <2>6, <2>7 DEF SavedUpTo
  <2> QED
    BY <2>5, <2>7, <2>8 DEF Fitter
<1>3. CASE PointCheckpoint(p)
  <2>1. w.pc = "save" /\ Working(p, "save", [pc |-> "train", done |-> <<>>])
    BY <1>3 DEF PointCheckpoint, At
  <2>2. Pauses(kind, Batches, w)
    BY <2>1, FitterAt
  <2>3. /\ FitFields \subseteq DOMAIN v /\ Pauses(kind, Batches, v) /\ v.pc = "train"
        /\ v.done = <<>>
    BY <1>1, <2>1, <2>2
  <2> QED
    BY <2>3 DEF Fitter
<1>4. ASSUME NEW at \in Finishing, NEW changes, Working(p, at, changes),
             DOMAIN changes \subseteq {"pc", "done"},
             "pc" \in DOMAIN changes => changes.pc \in Finishing
      PROVE  Fitter(kind, Batches, v)
  <2>1. w.pc = at /\ w.pc # "idle"
    BY <1>4, WorkingFields DEF Finishing
  <2>2. Pausing(kind, Batches, w, Epochs, 0)
    BY <2>1, FitterAt
  <2>3. /\ FitFields \subseteq DOMAIN v /\ Pausing(kind, Batches, v, Epochs, 0)
        /\ v.pc \in Finishing
    BY <1>1, <1>4, <2>1, <2>2
  <2> QED
    BY <2>3 DEF Fitter
<1>5. CASE SaveWeights(p)
  <2>1. CASE Another(p) = Cardinality(Candidates)
    <3>1. Working(p, "weights", [pc |-> "publish candidates", done |-> <<>>])
      BY <1>5, <2>1 DEF SaveWeights
    <3> QED
      BY <1>4, <3>1 DEF Finishing
  <2>2. CASE Another(p) # Cardinality(Candidates)
    <3>1. Working(p, "weights", [done |-> Append(w.done, w.models[Another(p)])])
      BY <1>5, <2>2 DEF SaveWeights
    <3> QED
      BY <1>4, <3>1 DEF Finishing
  <2> QED
    BY <2>1, <2>2
<1>6. CASE PublishCandidate(p)
  <2>1. Working(p, "publish candidates", [done |-> Append(w.done, weights[Another(p)])])
    BY <1>6 DEF PublishCandidate
  <2> QED
    BY <1>4, <2>1 DEF Finishing
<1>7. CASE WriteFitManifest(p)
  <2>1. Working(p, "publish candidates", [pc |-> "publish manifest"])
    BY <1>7 DEF WriteFitManifest
  <2> QED
    BY <1>4, <2>1 DEF Finishing
<1> QED
  BY <1>2, <1>3, <1>5, <1>6, <1>7

LEMMA FitterStep ==
  ASSUME FrameTyped, NEW p \in Processes, Fitter(kind, Batches, workers[p]),
         Checkpointed(kind, Batches, checkpoint), FitStep(p) \/ Stopping(p)
  PROVE  Fitter(kind, Batches, workers'[p])
<1>1. CASE BeginFit(p) \/ BeginFrozenDirection(p)
  BY <1>1, BeginsFit DEF BeginFit, BeginFrozenDirection
<1>2. CASE CompleteFit(p) \/ Stopping(p)
  <2>1. workers'[p] = Idle
    BY <1>2 DEF CompleteFit, Finish, Stopping, FailStage, Crash, FrameTyped
  <2> QED
    BY <2>1 DEF Fitter, Idle
<1> QED
  BY <1>1, <1>2, FitterStarts, FitterRestores, FitterFetches, FitterTrains, FitterSteps, FitterWrites
     DEF FitStep

\* A checkpoint holds every candidate where the saving attempt stood.
LEMMA CheckpointStep ==
  ASSUME FrameTyped, NEW p \in Processes, Fitter(kind, Batches, workers[p]),
         Checkpointed(kind, Batches, checkpoint), FitStep(p)
  PROVE  Checkpointed(kind, Batches, checkpoint')
<1> DEFINE w == workers[p]
<1>1. CASE PointCheckpoint(p)
  <2>1. /\ w.pc = "save" /\ Len(w.done) = Cardinality(Candidates)
        /\ checkpoint' = Generation(StartOf(w), w.progress, w.done)
    BY <1>1 DEF PointCheckpoint, At, AllDone, Start, StartOf
  <2>2. PICK m \in 0..CandidateCount(kind) : SavedUpTo(w, m)
    BY <2>1, FitterAt
  <2>3. PICK e \in 0..Epochs, g \in 0..StepsPerEpoch - 1 :
          Boundary(e, g) /\ Pausing(kind, Batches, w, e, g)
    BY <2>1, FitterAt DEF Pauses
  <2>4. m = CandidateCount(kind)
    <3>1. Cardinality(Candidates) = CandidateCount(kind)
      BY Candidacy, FS_Interval
    <3>2. Len(w.done) = m
      BY <2>2, Candidacy DEF SavedUpTo
    <3> QED
      BY <2>1, <3>1, <3>2
  <2>5. w.models = ModelsAt(kind, Batches, StartOf(w), e, g, 0) /\ w.progress = ProgressAt(e, g, 0)
    BY <2>3 DEF Pausing, Stands
  <2>6. w.done = w.models
    BY <2>2, <2>4, <2>5 DEF SavedUpTo, ModelsAt
  <2>7. checkpoint' = Generation(StartOf(w), ProgressAt(e, g, 0),
                                 ModelsAt(kind, Batches, StartOf(w), e, g, 0))
    BY <2>1, <2>5, <2>6
  <2>8. checkpoint'.binding = StartOf(w)
    BY <2>7 DEF Generation
  <2> QED
    BY <2>3, <2>7, <2>8 DEF Checkpointed
<1>2. CASE ~PointCheckpoint(p)
  <2>1. checkpoint' = checkpoint
    BY <1>2 DEF FitStep, BeginFit, BeginFrozenDirection, LoadNormalizers, FitNormalizers,
                PointNormalizers, LoadInitializer, FitInitializer, PointInitializer, Restore,
                NextBatch, TrainRecord, TrainSegment, StepAfterRecords, StepAfterSegments,
                SaveCandidate, SaveWeights, PublishCandidate, WriteFitManifest, CompleteFit
  <2> QED
    BY <2>1
<1> QED
  BY <1>1, <1>2

\* No other family has a step for a fit, or at a place of one.
LEMMA OnlyFitting ==
  ASSUME kind \in Fits, NEW p, workers[p].pc \in FitPlaces \union {"idle"}
  PROVE  ~Collecting(p) /\ ~Evaluating(p)
<1> USE DEF Fits, FitPlaces, Starting, Finishing, Begin, At
<1>1. ~CollectStep(p)
  BY DEF CollectStep, BeginCollect, ScanRow, ScanEnds, CollectShard, PublishShard,
         WriteTraceCheckpoint, WriteTraceManifest, CompleteCollect, Working
<1>2. ~EvaluationStep(p)
  <2>1. ~SaveSample(p) /\ ~EndSamples(p)
    BY DEF SaveSample, EndSamples, AfterRows
  <2>2. ~WriteReport(p) /\ ~HashReport(p) /\ ~BindArtifact(p)
    BY WorkingAt DEF WriteReport, HashReport, BindArtifact
  <2>3. ~PublishOutput(p) /\ ~CompleteEvaluation(p)
    BY DEF PublishOutput, CompleteEvaluation
  <2> QED
    BY <2>1, <2>2, <2>3 DEF EvaluationStep
<1> USE DEF Open, EnterEvaluator, RestoreRow, MeasureRow, AtRow, AfterRows, Conclude,
            WriteArtifact, WriteManifest
<1>3. ~RiskFitStep(p) /\ ~CalibrationStep(p)
  <2>1. ~RiskFitStep(p)
    BY DEF RiskFitStep, BeginRiskFit, EnterRiskFit, RestoreRiskExample, MeasureRiskExample,
           FitPredictor, SavePredictor, WriteRiskManifest
  <2>2. ~CalibrationStep(p)
    BY DEF CalibrationStep, BeginCalibration, EnterCalibration, RestoreCalibration,
           MeasureCalibration, SelectThreshold, WriteCalibrationManifest
  <2> QED
    BY <2>1, <2>2
<1>4. ~ValidationStep(p) /\ ~SemanticStep(p) /\ ~MethodDevStep(p)
  <2>1. ~ValidationStep(p)
    BY DEF ValidationStep, BeginValidation, EnterValidation, RestoreValidation,
           MeasureValidation, ConcludeValidation, ConcludeSelective, WriteCandidate,
           WriteValidationManifest
  <2>2. ~SemanticStep(p)
    BY DEF SemanticStep, BeginSemantic, EnterSemantic, RestoreSemantic, MeasureSemantic,
           ConcludeSemantic, ConcludeSelective, WriteSemanticApproved, WriteSemanticManifest
  <2>3. ~MethodDevStep(p)
    BY DEF MethodDevStep, BeginMethodDev, EnterMethodDev, RestoreMethodDev, MeasureMethodDev,
           FreezeStructure, WriteStructure
  <2> QED
    BY <2>1, <2>2, <2>3
<1>5. ~ServiceStep(p)
  <2>1. ~LoadBindings(p) /\ ~LaunchServer(p) /\ ~ServerReady(p) /\ ~ServerNotReady(p)
    BY WorkingAt DEF LoadBindings, LaunchServer, ServerReady, ServerNotReady
  <2>2. ~StartCollector(p) /\ ~StartEngine(p) /\ ~StartWriter(p)
    BY WorkingAt DEF StartCollector, StartEngine, StartWriter, Starts
  <2>3. ~LoadModels(p) /\ ~PreparePrefixes(p) /\ ~Raise(p)
    BY WorkingAt DEF LoadModels, PreparePrefixes, Raise, InEvaluator
  <2>4. ~StopEngine(p) /\ ~CloseCollector(p) /\ ~CloseWriter(p) /\ ~StopServer(p)
    BY DEF StopEngine, CloseCollector, CloseWriter, StopServer, StopService
  <2>5. ~DrainOnClose(p) /\ ~EndClose(p)
    BY WorkingAt DEF DrainOnClose, EndClose
  <2> QED
    BY <2>1, <2>2, <2>3, <2>4, <2>5 DEF ServiceStep
<1>6. ~AuditStep(p)
  <2>1. ~BeginAudit(p) /\ ~RestoreAudit(p) /\ ~BuildObservation(p) /\ ~MeasurePair(p)
    BY DEF BeginAudit, RestoreAudit, BuildObservation, MeasurePair
  <2>2. ~Warmup(p)
    BY WorkingAt DEF Warmup, Request
  <2>3. ~ProbeFailure(p) /\ ~Deliver(p) /\ ~ConsumeGateEvent(p) /\ ~ConsumeExecutionEvent(p)
    BY DEF ProbeFailure, Deliver, ConsumeGateEvent, ConsumeExecutionEvent, WaitFor
  <2>4. ~DrainWarmup(p) /\ ~DrainProbe(p)
    BY DEF DrainWarmup, DrainProbe, Drain
  <2>5. ~ConcludeAudit(p) /\ ~WriteApproved(p) /\ ~WriteRuntimeManifest(p)
    BY DEF ConcludeAudit, WriteApproved, WriteRuntimeManifest
  <2> QED
    BY <1>5, <2>1, <2>2, <2>3, <2>4, <2>5 DEF AuditStep
<1> QED
  BY <1>1, <1>2, <1>3, <1>4, <1>6 DEF Collecting, Evaluating

\* Every attempt of a fit, and the checkpoint they go on from.
FitTraining ==
  kind \in Fits =>
    /\ Checkpointed(kind, Batches, checkpoint)
    /\ \A p \in Processes : Fitter(kind, Batches, workers[p])

LEMMA FitterPlaces ==
  ASSUME NEW k, NEW b, NEW w, Fitter(k, b, w)
  PROVE  w.pc \in FitPlaces \union {"idle"}
BY DEF Fitter, FitPlaces, Starting, Finishing

LEMMA FitTrainingStep ==
  ASSUME FrameTyped, FitTraining, [Next]_vars
  PROVE  FitTraining'
<1> SUFFICES ASSUME kind \in Fits
             PROVE  /\ Checkpointed(kind, Batches, checkpoint')
                    /\ \A q \in Processes : Fitter(kind, Batches, workers'[q])
  <2>1. kind' = kind /\ Batches' = Batches
    BY FrameStep, BatchesOfKind
  <2> QED
    BY <2>1 DEF FitTraining
<1>0. /\ Checkpointed(kind, Batches, checkpoint)
      /\ \A q \in Processes : Fitter(kind, Batches, workers[q])
  BY DEF FitTraining
<1>1. ASSUME NEW p \in Processes, Fitting(p) \/ Collecting(p) \/ Evaluating(p) \/ Stopping(p)
      PROVE  /\ Checkpointed(kind, Batches, checkpoint')
             /\ \A q \in Processes : Fitter(kind, Batches, workers'[q])
  <2>1. FitStep(p) \/ Stopping(p)
    <3>1. workers[p].pc \in FitPlaces \union {"idle"}
      BY <1>0, FitterPlaces
    <3> QED
      BY <1>1, <3>1, OnlyFitting DEF Fitting
  <2>2. Fitter(kind, Batches, workers'[p])
    BY <1>0, <2>1, FitterStep
  <2>3. \A q \in Processes \ {p} : workers'[q] = workers[q]
    BY <1>1, StepActs DEF Acts
  <2>4. \A q \in Processes : Fitter(kind, Batches, workers'[q])
    BY <1>0, <2>2, <2>3
  <2>5. Checkpointed(kind, Batches, checkpoint')
    <3>1. CASE FitStep(p)
      BY <1>0, <3>1, CheckpointStep
    <3>2. CASE Stopping(p)
      <4>1. checkpoint' = checkpoint
        BY <3>2 DEF Stopping
      <4> QED
        BY <1>0, <4>1
    <3> QED
      BY <2>1, <3>1, <3>2
  <2> QED
    BY <2>4, <2>5
<1>2. CASE PowerLoss
  <2>1. checkpoint' = checkpoint /\ \A q \in Processes : workers'[q] = Idle
    BY <1>2 DEF PowerLoss
  <2> QED
    BY <1>0, <2>1 DEF Fitter, Idle
<1>3. CASE UNCHANGED vars
  <2>1. checkpoint' = checkpoint /\ workers' = workers
    BY <1>3
  <2> QED
    BY <1>0, <2>1
<1> QED
  BY <1>1, <1>2, <1>3 DEF Next

\* The schedule is the trajectory of a whole training.
LEMMA ScheduleIsTrajectory == Schedule = Trajectory(kind, Batches, Epochs * StepsPerEpoch)
<1>0. Epochs \in Nat \ {0} /\ StepsPerEpoch \in Nat \ {0}
  BY FitNumbers
<1>1. ASSUME NEW n \in 1..Epochs * StepsPerEpoch
      PROVE  Scheduled(n) = Contribution(kind, Batches[n], Len(Batches[n]))
  <2> DEFINE e == (n - 1) \div StepsPerEpoch  g == (n - 1) % StepsPerEpoch
  <2>1. Amid(e, g) /\ StepsAt(e, g) + 1 = n
    <3>1. n - 1 \in Nat /\ n - 1 < Epochs * StepsPerEpoch
      BY <1>0
    <3>2. e \in Nat /\ g \in 0..StepsPerEpoch - 1 /\ n - 1 = e * StepsPerEpoch + g
      BY <1>0, <3>1, DivisionOf
    <3>3. e < Epochs
      <4> SUFFICES ASSUME Epochs <= e PROVE FALSE
        BY <1>0, <3>2
      <4>1. Epochs * StepsPerEpoch <= e * StepsPerEpoch
        BY <1>0, <3>2, Monotone
      <4> HIDE DEF e, g
      <4>2. Epochs * StepsPerEpoch \in Nat /\ e * StepsPerEpoch \in Nat
        BY <1>0, <3>2
      <4> QED
        BY <3>1, <3>2, <4>1, <4>2
    <3> HIDE DEF e, g
    <3> QED
      BY <1>0, <3>1, <3>2, <3>3 DEF Amid, StepsAt
  <2>2. Batches[n] = Batch(e, g * Accumulation) /\ DOMAIN Batches[n] = 1..Len(Batches[n])
    <3> HIDE DEF e, g
    <3>1. /\ Batches[n] = Batch(e, g * Accumulation)
          /\ Batches[n] \in Seq(Range(Batches[n])) /\ Len(Batches[n]) \in Nat
      BY <2>1, RowsToCome
    <3> QED
      BY <3>1, LenProperties
  <2> QED
    BY <2>2 DEF Scheduled, Contribution, FullPrefix
<1> QED
  BY <1>1 DEF Schedule, Trajectory

\* Its first steps are those of a training so far.
LEMMA ScheduledSoFar ==
  ASSUME NEW e \in 0..Epochs, NEW g \in 0..StepsPerEpoch - 1, Boundary(e, g)
  PROVE  SubSeq(Schedule, 1, StepsAt(e, g)) = Trajectory(kind, Batches, StepsAt(e, g))
<1> DEFINE n == StepsAt(e, g)  last == Epochs * StepsPerEpoch
           s == SubSeq(Schedule, 1, n)  t == Trajectory(kind, Batches, n)
           V == {Schedule[i] : i \in 1..last}
<1>1. n \in Nat /\ last \in Nat /\ n <= last
  <2>1. e \in Nat /\ g \in Nat /\ Epochs \in Nat \ {0} /\ StepsPerEpoch \in Nat \ {0}
    BY FitNumbers
  <2>2. CASE e = Epochs /\ g = 0
    BY <2>1, <2>2 DEF StepsAt
  <2>3. CASE Amid(e, g)
    <3>1. /\ e * StepsPerEpoch + g \in Nat
          /\ \A k \in Nat : e < k => e * StepsPerEpoch + g < k * StepsPerEpoch
      BY <2>1, QuotientOf
    <3>2. e < Epochs
      BY <2>1, <2>3 DEF Amid
    <3>3. e * StepsPerEpoch + g < last /\ last \in Nat
      BY <2>1, <3>1, <3>2
    <3> HIDE DEF last
    <3> QED
      BY <3>1, <3>3 DEF StepsAt
  <2> QED
    BY <2>2, <2>3 DEF Boundary
<1>2. Schedule = [i \in 1..last |-> Contribution(kind, Batches[i], Len(Batches[i]))]
  BY ScheduleIsTrajectory DEF Trajectory
<1>3. t = [i \in 1..n |-> Contribution(kind, Batches[i], Len(Batches[i]))]
  BY DEF Trajectory
<1> HIDE DEF n, last
<1>4. \A i \in 1..n : i \in 1..last /\ Schedule[i] \in V /\ t[i] = Schedule[i]
  BY <1>1, <1>2, <1>3
<1>5. t \in Seq(V) /\ Len(t) = n
  <2>1. t \in [1..n -> V]
    BY <1>3, <1>4
  <2> HIDE DEF t, V
  <2> QED
    BY <1>1, <2>1
<1> HIDE DEF t, V
<1>6. s \in Seq(V) /\ Len(s) = n /\ \A i \in 1..n : s[i] = Schedule[i]
  <2>1. \A i \in 1..n : Schedule[i] \in V
    BY <1>4
  <2>2. /\ s \in Seq(V) /\ Len(s) = IF 1 <= n THEN n - 1 + 1 ELSE 0
        /\ \A i \in 1..n - 1 + 1 : s[i] = Schedule[1 + i - 1]
    BY <1>1, <2>1, SubSeqProperties
  <2> HIDE DEF s
  <2> QED
    BY <1>1, <2>2
<1> HIDE DEF s
<1>7. s = t
  BY <1>4, <1>5, <1>6, SeqEqual
<1> QED
  BY <1>7 DEF s, t, n

\* A model that stands at a place of the training is on the schedule.
LEMMA StandsOnSchedule ==
  ASSUME NEW e \in 0..Epochs, NEW g \in 0..StepsPerEpoch - 1, Boundary(e, g), NEW m,
         NEW start, NEW progress, progress = ProgressAt(e, g, m),
         NEW models, models = ModelsAt(kind, Batches, start, e, g, m)
  PROVE  \A c \in DOMAIN models : OnSchedule(Schedule, models[c], progress)
<1>1. SubSeq(Schedule, 1, StepsAt(e, g)) = Trajectory(kind, Batches, StepsAt(e, g))
  BY ScheduledSoFar
<1>2. progress.steps = StepsAt(e, g) /\ progress.samples = SamplesAt(e, g) + m
  BY DEF ProgressAt
<1>3. \A c \in DOMAIN models :
        models[c] = Model(start, Trajectory(kind, Batches, StepsAt(e, g)), SamplesAt(e, g) + m)
  BY DEF ModelsAt
<1>4. \A c \in DOMAIN models :
        /\ models[c].steps = Trajectory(kind, Batches, StepsAt(e, g))
        /\ models[c].measured = SamplesAt(e, g) + m
  BY <1>3 DEF Model
<1> QED
  BY <1>1, <1>2, <1>4 DEF OnSchedule

LEMMA FitterOnSchedule ==
  ASSUME NEW w, Fitter(kind, Batches, w), w.pc # "idle"
  PROVE  \A c \in DOMAIN w.models : OnSchedule(Schedule, w.models[c], w.progress)
<1>0. \A e \in 0..Epochs - 1 : e \in 0..Epochs
  BY FitNumbers
<1>1. CASE Unstarted(w)
  BY <1>1 DEF Unstarted
<1>2. CASE Pauses(kind, Batches, w)
  BY <1>2, StandsOnSchedule DEF Pauses, Pausing, Stands
<1>3. CASE Learns(kind, Batches, w)
  <2>1. PICK e \in 0..Epochs - 1, g \in 0..StepsPerEpoch - 1 :
          \E m \in 0..Len(Batches[StepsAt(e, g) + 1]) : Learning(kind, Batches, w, e, g, m)
    BY <1>3 DEF Learns
  <2>2. PICK m \in 0..Len(Batches[StepsAt(e, g) + 1]) : Learning(kind, Batches, w, e, g, m)
    BY <2>1
  <2>3. Boundary(e, g) /\ Stands(kind, Batches, w, e, g, m)
    BY <2>2 DEF Learning, Boundary
  <2> QED
    BY <1>0, <2>3, StandsOnSchedule DEF Stands
<1>4. CASE Pausing(kind, Batches, w, Epochs, 0)
  <2>1. Epochs \in 0..Epochs /\ 0 \in 0..StepsPerEpoch - 1 /\ Boundary(Epochs, 0)
    BY FitNumbers DEF Boundary
  <2> QED
    BY <1>4, <2>1, StandsOnSchedule DEF Pausing, Stands
<1> QED
  BY <1>1, <1>2, <1>3, <1>4 DEF Fitter

LEMMA TrainingKept ==
  ASSUME FitTraining
  PROVE  TrajectoryKept
<1> SUFFICES ASSUME kind \in Fits
             PROVE  /\ \A p \in Processes \ {q \in Processes : At(q, "idle")} :
                        \A c \in DOMAIN workers[p].models :
                          OnSchedule(Schedule, workers[p].models[c], workers[p].progress)
                    /\ checkpoint # None => \A c \in DOMAIN checkpoint.models :
                         OnSchedule(Schedule, checkpoint.models[c], checkpoint.progress)
  BY DEF TrajectoryKept
<1>1. ASSUME NEW p \in Processes, ~At(p, "idle")
      PROVE  \A c \in DOMAIN workers[p].models :
               OnSchedule(Schedule, workers[p].models[c], workers[p].progress)
  BY <1>1, FitterOnSchedule DEF FitTraining, At
<1>2. ASSUME checkpoint # None
      PROVE  \A c \in DOMAIN checkpoint.models :
               OnSchedule(Schedule, checkpoint.models[c], checkpoint.progress)
  <2>1. PICK e \in 0..Epochs, g \in 0..StepsPerEpoch - 1 :
          /\ Boundary(e, g)
          /\ checkpoint = Generation(checkpoint.binding, ProgressAt(e, g, 0),
                             ModelsAt(kind, Batches, checkpoint.binding, e, g, 0))
    BY <1>2 DEF FitTraining, Checkpointed
  <2>2. /\ checkpoint.progress = ProgressAt(e, g, 0)
        /\ checkpoint.models = ModelsAt(kind, Batches, checkpoint.binding, e, g, 0)
    BY <2>1 DEF Generation
  <2> QED
    BY <2>1, <2>2, StandsOnSchedule
<1> QED
  BY <1>1, <1>2

LEMMA FitTrainingInit == Init => FrameTyped /\ FitTraining
<1> SUFFICES ASSUME Init PROVE FrameTyped /\ FitTraining
  OBVIOUS
<1>1. FrameTyped
  BY DEF Init, FrameInit, FrameTyped
<1>2. checkpoint = None /\ \A p \in Processes : workers[p] = Idle
  BY DEF Init, FrameInit, FitInit
<1> QED
  BY <1>1, <1>2 DEF FitTraining, Checkpointed, Fitter, Idle

\* Whatever dies, fails, overlaps or loses power, a candidate in memory or in the
\* checkpoint has been stepped with exactly the schedule's first groups, every row
\* under its own prefix, and its metrics count each of those rows once: for every
\* split, every shuffle of it, and every number of epochs and rows in a group.
THEOREM TrajectoriesKept == Spec => []TrajectoryKept
<1>1. FrameTyped /\ FitTraining /\ [Next]_vars => (FrameTyped /\ FitTraining)'
  BY FrameStep, FitTrainingStep
<1>2. FitTraining => TrajectoryKept
  BY TrainingKept
<1> QED
  BY <1>1, <1>2, FitTrainingInit, PTL DEF Spec

-----------------------------------------------------------------------------
(* The weights and the manifest of a fit.                                   *)

\* What is published: the weights of a whole training, and from one start if no two
\* attempts have been alive at once.
Whole(k, b) == Trajectory(k, b, Epochs * StepsPerEpoch)
Written(k, b, weight, start, shared) ==
  weight.steps = Whole(k, b) /\ (shared \/ weight.start = start)

WholeManifest(k, b, listed, shared) ==
  /\ IF k = "fit_frozen_direction" THEN ValidDirection(listed) ELSE ValidScreening(listed)
  /\ DOMAIN listed = 1..CandidateCount(k)
  /\ \A c \in 1..CandidateCount(k) :
       listed[c].weights.steps = Whole(k, b) /\ listed[c].measured = Epochs * RowCount
  /\ shared \/ \A c \in 1..CandidateCount(k) : listed[c].weights.start = listed[1].weights.start

\* An attempt that writes weights has written those of its first candidates, and one that
\* publishes finds them all.
Writes(k, b, w, files, shared) ==
  \E m \in 0..CandidateCount(k) - 1 :
    SavedUpTo(w, m) /\ \A c \in 1..m : Written(k, b, files[c], StartOf(w), shared)

Publishes(k, b, w, files, shared) ==
  /\ \A c \in 1..CandidateCount(k) : Written(k, b, files[c], StartOf(w), shared)
  /\ \E m \in 0..CandidateCount(k) :
       /\ w.done = [c \in 1..m |-> w.done[c]]
       /\ \A c \in 1..m : Written(k, b, w.done[c], StartOf(w), shared)

Publisher(k, b, w, files, listed, shared) ==
  /\ w.pc = "weights" => Writes(k, b, w, files, shared)
  /\ w.pc = "publish candidates" => Publishes(k, b, w, files, shared)
  /\ w.pc = "publish manifest" => listed # <<>>

FitPublication ==
  kind \in Fits =>
    /\ Alone
    /\ DOMAIN weights = 1..CandidateCount(kind)
    /\ \A p \in Processes :
         Publisher(kind, Batches, workers[p], weights, fitManifest, overlapped)
    /\ fitManifest = <<>> \/ WholeManifest(kind, Batches, fitManifest, overlapped)
    /\ stage.status = "completed" => WholeManifest(kind, Batches, stage.outputs, overlapped)

LEMMA Trained ==
  ASSUME NEW k, NEW b, NEW w, Pausing(k, b, w, Epochs, 0)
  PROVE  \A c \in 1..CandidateCount(k) :
           w.models[c] = Model(StartOf(w), Whole(k, b), Epochs * RowCount)
<1>1. StepsAt(Epochs, 0) = Epochs * StepsPerEpoch /\ SamplesAt(Epochs, 0) + 0 = Epochs * RowCount
  <2>1. /\ Epochs * StepsPerEpoch \in Nat /\ Epochs * RowCount \in Nat
        /\ 0 * Accumulation = 0
    BY FitNumbers
  <2> QED
    BY <2>1 DEF StepsAt, SamplesAt
<1>2. w.models = ModelsAt(k, b, StartOf(w), Epochs, 0, 0)
  BY DEF Pausing, Stands
<1> QED
  BY <1>1, <1>2 DEF ModelsAt, Whole

\* Others write whole weights, and only attempts that share the directory see them.
LEMMA OthersPublish ==
  ASSUME NEW k, NEW b, NEW w, NEW files, NEW listed, NEW shared,
         Publisher(k, b, w, files, listed, shared),
         NEW later, NEW filesLater, NEW listedLater,
         \/ w.pc = "idle"
         \/ /\ later
            /\ \A c \in 1..CandidateCount(k) :
                  filesLater[c] = files[c] \/ filesLater[c].steps = Whole(k, b)
            /\ listedLater = listed \/ listedLater # <<>>
         \/ later = shared /\ filesLater = files /\ listedLater = listed
  PROVE  Publisher(k, b, w, filesLater, listedLater, later)
<1>1. CASE w.pc = "idle"
  BY <1>1 DEF Publisher
<1>2. CASE later = shared /\ filesLater = files /\ listedLater = listed
  BY <1>2
<1>3. CASE /\ later
           /\ \A c \in 1..CandidateCount(k) :
                 filesLater[c] = files[c] \/ filesLater[c].steps = Whole(k, b)
           /\ listedLater = listed \/ listedLater # <<>>
  <2>1. \A c \in 1..CandidateCount(k) :
          Written(k, b, files[c], StartOf(w), shared) =>
            Written(k, b, filesLater[c], StartOf(w), later)
    BY <1>3 DEF Written
  <2>2. \A m \in 0..CandidateCount(k) - 1 : \A c \in 1..m : c \in 1..CandidateCount(k)
    <3>1. CandidateCount(k) \in Nat
      BY FitNumbers DEF CandidateCount
    <3> QED
      BY <3>1
  <2>3. w.pc = "weights" => Writes(k, b, w, filesLater, later)
    <3> SUFFICES ASSUME w.pc = "weights" PROVE Writes(k, b, w, filesLater, later)
      OBVIOUS
    <3>1. PICK m \in 0..CandidateCount(k) - 1 :
            SavedUpTo(w, m) /\ \A c \in 1..m : Written(k, b, files[c], StartOf(w), shared)
      BY DEF Publisher, Writes
    <3>2. \A c \in 1..m : Written(k, b, filesLater[c], StartOf(w), later)
      BY <2>1, <2>2, <3>1
    <3> QED
      BY <3>1, <3>2 DEF Writes
  <2>4. w.pc = "publish candidates" => Publishes(k, b, w, filesLater, later)
    <3>1. \A weight :
            Written(k, b, weight, StartOf(w), shared) => Written(k, b, weight, StartOf(w), later)
      BY <1>3 DEF Written
    <3> QED
      BY <2>1, <3>1 DEF Publisher, Publishes
  <2>5. w.pc = "publish manifest" => listedLater # <<>>
    BY <1>3 DEF Publisher
  <2> QED
    BY <2>3, <2>4, <2>5 DEF Publisher
<1> QED
  BY <1>1, <1>2, <1>3

\* The weights an attempt writes are whole.
LEMMA WeightsWritten ==
  ASSUME NEW p \in Processes, Fitter(kind, Batches, workers[p]), FitStep(p),
         DOMAIN weights = 1..CandidateCount(kind)
  PROVE  /\ DOMAIN weights' = DOMAIN weights
         /\ \A c \in 1..CandidateCount(kind) :
              weights'[c] = weights[c] \/ weights'[c].steps = Whole(kind, Batches)
<1> DEFINE w == workers[p]  n == Another(p)
<1>1. CASE SaveWeights(p)
  <2>1. w.pc = "weights" /\ weights' = [weights EXCEPT ![n] = Runtime(w.models[n])]
    BY <1>1 DEF SaveWeights, At
  <2>2. Pausing(kind, Batches, w, Epochs, 0)
    BY <2>1, FitterAt DEF Finishing
  <2>3. \A c \in 1..CandidateCount(kind) : Runtime(w.models[c]).steps = Whole(kind, Batches)
    <3>1. \A c \in 1..CandidateCount(kind) :
            w.models[c] = Model(StartOf(w), Whole(kind, Batches), Epochs * RowCount)
      BY <2>2, Trained
    <3> HIDE DEF w
    <3> QED
      BY <3>1 DEF Runtime, Model
  <2> QED
    BY <2>1, <2>3
<1>2. CASE ~SaveWeights(p)
  <2>1. weights' = weights
    BY <1>2 DEF FitStep, BeginFit, BeginFrozenDirection, LoadNormalizers, FitNormalizers,
                PointNormalizers, LoadInitializer, FitInitializer, PointInitializer, Restore,
                NextBatch, TrainRecord, TrainSegment, StepAfterRecords, StepAfterSegments,
                SaveCandidate, PointCheckpoint, PublishCandidate, WriteFitManifest, CompleteFit
  <2> QED
    BY <2>1
<1> QED
  BY <1>1, <1>2

\* The manifest an attempt writes is whole.
LEMMA ManifestWritten ==
  ASSUME FrameTyped, NEW p \in Processes, Fitter(kind, Batches, workers[p]), FitStep(p),
         Publisher(kind, Batches, workers[p], weights, fitManifest, overlapped)
  PROVE  \/ ~WriteFitManifest(p) /\ fitManifest' = fitManifest
         \/ WholeManifest(kind, Batches, fitManifest', overlapped')
<1> DEFINE w == workers[p]
           listed == [c \in DOMAIN w.done |-> Listed(w.done[c], w.models[c], w.progress)]
<1>1. CASE WriteFitManifest(p)
  <2>1. /\ w.pc = "publish candidates" /\ Len(w.done) = Cardinality(Candidates)
        /\ IF kind = "fit_frozen_direction" THEN ValidDirection(listed) ELSE ValidScreening(listed)
        /\ fitManifest' = listed /\ overlapped' = overlapped
    BY <1>1 DEF WriteFitManifest, At, AllDone, Working
  <2>2. PICK m \in 0..CandidateCount(kind) :
          /\ w.done = [c \in 1..m |-> w.done[c]]
          /\ \A c \in 1..m : Written(kind, Batches, w.done[c], StartOf(w), overlapped)
    BY <2>1 DEF Publisher, Publishes
  <2>3. m = CandidateCount(kind) /\ DOMAIN w.done = 1..m
    <3>1. Cardinality(Candidates) = CandidateCount(kind) /\ m \in Nat
      BY Candidacy, FS_Interval
    <3>2. \A d : d = [c \in 1..m |-> d[c]] => Len(d) = m /\ DOMAIN d = 1..m
      BY <3>1
    <3>3. Len(w.done) = m /\ DOMAIN w.done = 1..m
      BY <2>2, <3>2
    <3> QED
      BY <2>1, <3>1, <3>3
  <2>4. Pausing(kind, Batches, w, Epochs, 0)
    BY <2>1, FitterAt DEF Finishing
  <2>5. \A c \in 1..CandidateCount(kind) : w.models[c].measured = Epochs * RowCount
    <3>1. \A c \in 1..CandidateCount(kind) :
            w.models[c] = Model(StartOf(w), Whole(kind, Batches), Epochs * RowCount)
      BY <2>4, Trained
    <3> HIDE DEF w
    <3> QED
      BY <3>1 DEF Model
  <2>6. DOMAIN listed = 1..CandidateCount(kind)
    BY <2>3
  <2>7. \A c \in 1..CandidateCount(kind) :
          listed[c].weights = w.done[c] /\ listed[c].measured = Epochs * RowCount
    BY <2>3, <2>5 DEF Listed
  <2>8. \A c \in 1..CandidateCount(kind) :
          /\ listed[c].weights.steps = Whole(kind, Batches)
          /\ overlapped \/ listed[c].weights.start = StartOf(w)
    BY <2>2, <2>3, <2>7 DEF Written
  <2>9. 1 \in 1..CandidateCount(kind)
    BY Candidacy
  <2> HIDE DEF listed, w
  <2> QED
    BY <2>1, <2>6, <2>7, <2>8, <2>9 DEF WholeManifest
<1>2. CASE ~WriteFitManifest(p)
  <2>1. fitManifest' = fitManifest
    BY <1>2 DEF FitStep, BeginFit, BeginFrozenDirection, LoadNormalizers, FitNormalizers,
                PointNormalizers, LoadInitializer, FitInitializer, PointInitializer, Restore,
                NextBatch, TrainRecord, TrainSegment, StepAfterRecords, StepAfterSegments,
                SaveCandidate, PointCheckpoint, SaveWeights, PublishCandidate, CompleteFit
  <2> QED
    BY <1>2, <2>1
<1> QED
  BY <1>1, <1>2

\* Where a step leads to, and where one stays.
LEMMA LeadsTo ==
  ASSUME FrameTyped, NEW p \in Processes, NEW at, NEW to, NEW a, NEW b, NEW c, NEW d,
         \/ Working(p, at, [pc |-> to])
         \/ Working(p, at, [pc |-> to, normalizers |-> a])
         \/ Working(p, at, [pc |-> to, initializer |-> a])
         \/ Working(p, at, [pc |-> to, models |-> a])
         \/ Working(p, at, [pc |-> to, models |-> a, progress |-> b])
         \/ Working(p, at, [pc |-> to, done |-> a])
         \/ Working(p, at, [pc |-> to, models |-> a, gradient |-> b, progress |-> c, asset |-> d])
  PROVE  workers'[p].pc = to
<1>1. CASE Working(p, at, [pc |-> to])
  BY <1>1, WorkingFields
<1>2. CASE Working(p, at, [pc |-> to, normalizers |-> a])
  BY <1>2, WorkingFields
<1>3. CASE Working(p, at, [pc |-> to, initializer |-> a])
  BY <1>3, WorkingFields
<1>4. CASE Working(p, at, [pc |-> to, models |-> a])
  BY <1>4, WorkingFields
<1>5. CASE Working(p, at, [pc |-> to, models |-> a, progress |-> b])
  BY <1>5, WorkingFields
<1>6. CASE Working(p, at, [pc |-> to, done |-> a])
  BY <1>6, WorkingFields
<1>7. CASE Working(p, at, [pc |-> to, models |-> a, gradient |-> b, progress |-> c, asset |-> d])
  BY <1>7, WorkingFields
<1> QED
  BY <1>1, <1>2, <1>3, <1>4, <1>5, <1>6, <1>7

LEMMA FinishFields ==
  ASSUME FrameTyped, NEW p \in Processes, NEW at, NEW to, NEW a
  PROVE  /\ Working(p, at, [pc |-> to, done |-> a]) =>
              /\ workers'[p].pc = to /\ workers'[p].done = a
              /\ \A f \in DOMAIN workers[p] \ {"pc", "done"} : workers'[p][f] = workers[p][f]
         /\ Working(p, at, [done |-> a]) =>
              /\ workers'[p].done = a
              /\ \A f \in DOMAIN workers[p] \ {"done"} : workers'[p][f] = workers[p][f]
<1>1. CASE Working(p, at, [pc |-> to, done |-> a])
  BY <1>1, WorkingFields
<1>2. CASE Working(p, at, [done |-> a])
  BY <1>2, WorkingFields
<1> QED
  BY <1>1, <1>2

LEMMA StaysAt ==
  ASSUME FrameTyped, NEW p \in Processes, NEW at, NEW a, NEW b, NEW c, NEW d, NEW e,
         "pc" \in DOMAIN workers[p],
         \/ Working(p, at, [done |-> a])
         \/ Working(p, at, [batch |-> a])
         \/ Working(p, at, [batch |-> a, gradient |-> b, asset |-> c, models |-> d, progress |-> e])
  PROVE  workers'[p].pc = at
<1>1. CASE Working(p, at, [done |-> a])
  BY <1>1, WorkingFields
<1>2. CASE Working(p, at, [batch |-> a])
  BY <1>2, WorkingFields
<1>3. CASE Working(p, at, [batch |-> a, gradient |-> b, asset |-> c, models |-> d, progress |-> e])
  BY <1>3, WorkingFields
<1> QED
  BY <1>1, <1>2, <1>3

\* A step that does not lead to the end of a fit.
Unfinished(p) == workers'[p].pc \notin Finishing

LEMMA StepsUnfinished ==
  ASSUME FrameTyped, NEW p \in Processes, Fitter(kind, Batches, workers[p]), FitStep(p),
         ~NextBatch(p), ~SaveWeights(p), ~PublishCandidate(p), ~WriteFitManifest(p)
  PROVE  Unfinished(p)
<1>0. \A to \in Starting \union {"train", "save", "refused"} : to \notin Finishing
  BY DEF Starting, Finishing
<1>p. {"normalizers", "point normalizers", "initializer", "point initializer", "restore"} = Starting
  BY DEF Starting
<1>1. CASE BeginFit(p) \/ BeginFrozenDirection(p)
  <2>1. workers'[p].pc = "normalizers"
    BY <1>1, BeginChanges DEF BeginFit, BeginFrozenDirection
  <2> QED
    BY <2>1, <1>p, <1>0 DEF Unfinished
<1>2. CASE LoadNormalizers(p)
  <2>1. CASE "normalizers" \in torn.pointers
    <3>1. workers'[p].pc = "refused"
      BY <1>2, <2>1, LeadsTo DEF LoadNormalizers
    <3> QED
      BY <3>1, <1>0 DEF Unfinished
  <2>2. CASE "normalizers" \notin torn.pointers
    <3>1. workers'[p].pc = "initializer"
      BY <1>2, <2>2, LeadsTo DEF LoadNormalizers
    <3> QED
      BY <3>1, <1>p, <1>0 DEF Unfinished
  <2> QED
    BY <2>1, <2>2
<1>3. CASE FitNormalizers(p) \/ PointNormalizers(p)
  <2>1. workers'[p].pc \in Starting
    BY <1>3, <1>p, LeadsTo DEF FitNormalizers, PointNormalizers
  <2> QED
    BY <2>1, <1>0 DEF Unfinished
<1>4. CASE LoadInitializer(p)
  <2> DEFINE refused == \/ pointers.initializer.binding # workers[p].normalizers
                        \/ "initializer" \in torn.pointers
  <2>1. CASE refused
    <3>1. workers'[p].pc = "refused"
      BY <1>4, <2>1, LeadsTo DEF LoadInitializer
    <3> QED
      BY <3>1, <1>0 DEF Unfinished
  <2>2. CASE ~refused
    <3>1. workers'[p].pc = "restore"
      BY <1>4, <2>2, LeadsTo DEF LoadInitializer
    <3> QED
      BY <3>1, <1>p, <1>0 DEF Unfinished
  <2> QED
    BY <2>1, <2>2
<1>5. CASE FitInitializer(p) \/ PointInitializer(p)
  <2>1. workers'[p].pc \in Starting
    BY <1>5, <1>p, LeadsTo DEF FitInitializer, PointInitializer
  <2> QED
    BY <2>1, <1>0 DEF Unfinished
<1>6. CASE Restore(p)
  <2>1. workers'[p].pc \in {"train", "refused"}
    <3>1. CASE checkpoint = None
      BY <1>6, <3>1, LeadsTo DEF Restore
    <3>2. CASE checkpoint # None /\ Restorable(p)
      BY <1>6, <3>2, LeadsTo DEF Restore
    <3>3. CASE checkpoint # None /\ ~Restorable(p)
      BY <1>6, <3>3, LeadsTo DEF Restore
    <3> QED
      BY <3>1, <3>2, <3>3
  <2> QED
    BY <2>1, <1>0 DEF Unfinished
<1>f. workers[p].pc # "idle" => "pc" \in DOMAIN workers[p]
  BY FitterAt DEF FitFields
<1>7. CASE TrainRecord(p) \/ TrainSegment(p)
  <2>1. "pc" \in DOMAIN workers[p]
    BY <1>7, <1>f DEF TrainRecord, TrainSegment, At
  <2>2. \A rows, asset : Learn(p, rows, asset) => workers'[p].pc = "train"
    BY <2>1, StaysAt DEF Learn
  <2>3. workers'[p].pc = "train"
    BY <1>7, <2>2 DEF TrainRecord, TrainSegment
  <2> QED
    BY <2>3, <1>0 DEF Unfinished
<1>8. CASE StepAfterRecords(p) \/ StepAfterSegments(p)
  <2>1. \E progress, asset : StepCandidates(p, progress, asset)
    BY <1>8 DEF StepAfterRecords, StepAfterSegments
  <2>2. PICK stepped, progress, asset :
          \E to \in {"train", "save", "refused"} :
            Working(p, "train", [pc |-> to, models |-> stepped, gradient |-> <<>>,
                                 progress |-> progress, asset |-> asset])
    BY <2>1 DEF StepCandidates
  <2>3. workers'[p].pc \in {"train", "save", "refused"}
    BY <2>2, LeadsTo
  <2> QED
    BY <2>3, <1>0 DEF Unfinished
<1>9. CASE SaveCandidate(p)
  <2>1. workers'[p].pc = "save"
    BY <1>9, <1>f, StaysAt DEF SaveCandidate, At
  <2> QED
    BY <2>1, <1>0 DEF Unfinished
<1>10. CASE PointCheckpoint(p)
  <2>1. workers'[p].pc = "train"
    BY <1>10, LeadsTo DEF PointCheckpoint
  <2> QED
    BY <2>1, <1>0 DEF Unfinished
<1>11. CASE CompleteFit(p)
  <2>1. workers'[p].pc = "idle"
    BY <1>11 DEF CompleteFit, Finish, FrameTyped, Idle
  <2> QED
    BY <2>1 DEF Unfinished, Finishing
<1> QED
  BY <1>1, <1>2, <1>3, <1>4, <1>5, <1>6, <1>7, <1>8, <1>9, <1>10, <1>11 DEF FitStep

\* What the end of an attempt leaves: it is one that has published what it should.
LEMMA PublisherSteps ==
  ASSUME FrameTyped, NEW p \in Processes, Fitter(kind, Batches, workers[p]), FitStep(p),
         DOMAIN weights = 1..CandidateCount(kind),
         Publisher(kind, Batches, workers[p], weights, fitManifest, overlapped)
  PROVE  Publisher(kind, Batches, workers'[p], weights', fitManifest', overlapped')
<1> DEFINE w == workers[p]  v == workers'[p]
           files == weights  filesLater == weights'
<1>0. CandidateCount(kind) \in Nat \ {0} /\ Cardinality(Candidates) = CandidateCount(kind)
  BY Candidacy, FS_Interval
<1>1. CASE NextBatch(p)
  <2>1. w.pc = "train" /\ w.batch = <<>>
    BY <1>1 DEF NextBatch, At
  <2>2. "pc" \in DOMAIN w /\ "done" \in DOMAIN w /\ w.done = <<>>
    BY <2>1, FitterAt DEF FitFields
  <2>3. CASE w.progress.epoch < Epochs
    <3>1. v.pc = "train"
      BY <1>1, <2>2, <2>3, StaysAt DEF NextBatch
    <3> QED
      BY <3>1 DEF Publisher
  <2>4. CASE ~(w.progress.epoch < Epochs)
    <3>1. PICK to \in {"weights", "refused"} : Working(p, "train", [pc |-> to])
      BY <1>1, <2>4 DEF NextBatch
    <3>2. v.pc = to /\ \A f \in DOMAIN w \ {"pc"} : v[f] = w[f]
      BY <3>1, WorkingFields
    <3>3. v.done = <<>>
      BY <2>2, <3>2
    <3>4. 0 \in 0..CandidateCount(kind) - 1 /\ SavedUpTo(v, 0) /\ 1..0 = {}
      BY <1>0, <3>3 DEF SavedUpTo
    <3>5. Writes(kind, Batches, v, weights', overlapped')
      BY <3>4 DEF Writes
    <3> QED
      BY <3>1, <3>2, <3>5 DEF Publisher
  <2> QED
    BY <2>3, <2>4
<1>2. CASE SaveWeights(p)
  <2>1. /\ w.pc = "weights" /\ overlapped' = overlapped
        /\ weights' = [weights EXCEPT ![Another(p)] = Runtime(w.models[Another(p)])]
    BY <1>2 DEF SaveWeights, At, Working
  <2>2. PICK m \in 0..CandidateCount(kind) - 1 :
          /\ SavedUpTo(w, m)
          /\ \A c \in 1..m : Written(kind, Batches, weights[c], StartOf(w), overlapped)
    BY <2>1 DEF Publisher, Writes
  <2>3. /\ m \in Nat /\ m + 1 \in 1..CandidateCount(kind) /\ Len(w.done) = m /\ Another(p) = m + 1
        /\ \A c \in 1..m + 1 : c = m + 1 \/ (c \in 1..m /\ c # m + 1)
        /\ \A c \in 1..m : c # m + 1 /\ c \in 1..CandidateCount(kind)
    BY <1>0, <2>2 DEF SavedUpTo, Another
  <2>4. FitFields \subseteq DOMAIN w /\ Pausing(kind, Batches, w, Epochs, 0)
    BY <2>1, FitterAt DEF Finishing
  <2>5. w.models[m + 1] = Model(StartOf(w), Whole(kind, Batches), Epochs * RowCount)
    BY <2>3, <2>4, Trained
  <2>6. \A c \in 1..m + 1 : Written(kind, Batches, weights'[c], StartOf(w), overlapped')
    <3>1. weights'[m + 1] = Runtime(w.models[m + 1])
      BY <2>1, <2>3
    <3>2. Written(kind, Batches, weights'[m + 1], StartOf(w), overlapped')
      <4> HIDE DEF w
      <4> QED
        BY <2>5, <3>1 DEF Written, Runtime, Model
    <3>3. \A c \in 1..m : weights'[c] = weights[c]
      BY <2>1, <2>3
    <3> HIDE DEF w
    <3> QED
      BY <2>1, <2>2, <2>3, <3>2, <3>3
  <2>7. CASE m + 1 = CandidateCount(kind)
    <3>1. Working(p, "weights", [pc |-> "publish candidates", done |-> <<>>])
      BY <1>0, <1>2, <2>3, <2>7 DEF SaveWeights
    <3>2. /\ v.pc = "publish candidates" /\ v.done = <<>>
          /\ \A f \in DOMAIN w \ {"pc", "done"} : v[f] = w[f]
      BY <3>1, FinishFields
    <3>3. StartOf(v) = StartOf(w)
      BY <2>4, <3>2 DEF StartOf, FitFields
    <3>4. 0 \in 0..CandidateCount(kind) /\ v.done = [c \in 1..0 |-> v.done[c]] /\ 1..0 = {}
      <4>1. \A d : d = <<>> => d = [c \in 1..0 |-> d[c]]
        OBVIOUS
      <4>2. v.done = [c \in 1..0 |-> v.done[c]]
        BY <3>2, <4>1
      <4> QED
        BY <1>0, <4>2
    <3>5. Publishes(kind, Batches, v, weights', overlapped')
      <4> HIDE DEF w, v
      <4> QED
        BY <2>6, <2>7, <3>3, <3>4 DEF Publishes
    <3> QED
      BY <3>2, <3>5 DEF Publisher
  <2>8. CASE m + 1 # CandidateCount(kind)
    <3>1. Working(p, "weights", [done |-> Append(w.done, w.models[m + 1])])
      BY <1>0, <1>2, <2>3, <2>8 DEF SaveWeights
    <3>2. /\ v.done = Append(w.done, w.models[m + 1])
          /\ \A f \in DOMAIN w \ {"done"} : v[f] = w[f]
      BY <3>1, WorkingFields
    <3>3. StartOf(v) = StartOf(w) /\ v.pc = "weights" /\ v.models = w.models
      BY <2>1, <2>4, <3>2 DEF StartOf, FitFields
    <3>4. v.done = [c \in 1..m + 1 |-> w.models[c]]
      <4>1. w.done = [c \in 1..m |-> w.models[c]]
        BY <2>2 DEF SavedUpTo
      <4> HIDE DEF w, v
      <4> QED
        BY <2>3, <3>2, <4>1, AppendNext
    <3>5. m + 1 \in 0..CandidateCount(kind) - 1
      BY <1>0, <2>3, <2>8
    <3>6. Writes(kind, Batches, v, weights', overlapped')
      <4> HIDE DEF w, v
      <4> QED
        BY <2>6, <3>3, <3>4, <3>5 DEF Writes, SavedUpTo
    <3> QED
      BY <3>3, <3>6 DEF Publisher
  <2> QED
    BY <2>7, <2>8
<1>3. CASE PublishCandidate(p)
  <2>1. /\ w.pc = "publish candidates" /\ overlapped' = overlapped /\ weights' = weights
        /\ Len(w.done) # Cardinality(Candidates)
        /\ Working(p, "publish candidates", [done |-> Append(w.done, weights[Another(p)])])
    BY <1>3 DEF PublishCandidate, At, Working, AllDone
  <2>2. PICK m \in 0..CandidateCount(kind) :
          /\ w.done = [c \in 1..m |-> w.done[c]]
          /\ \A c \in 1..m : Written(kind, Batches, w.done[c], StartOf(w), overlapped)
    BY <2>1 DEF Publisher, Publishes
  <2>3. Len(w.done) = m
    <3>1. m \in Nat
      OBVIOUS
    <3>2. \A d : d = [c \in 1..m |-> d[c]] => Len(d) = m
      BY <3>1
    <3> QED
      BY <2>2, <3>2
  <2>4. m \in Nat /\ m + 1 \in 1..CandidateCount(kind) /\ Another(p) = m + 1
    <3>1. m # CandidateCount(kind) /\ Another(p) = m + 1
      BY <1>0, <2>1, <2>3 DEF Another
    <3> QED
      BY <1>0, <3>1
  <2>5. \A c \in 1..CandidateCount(kind) :
          Written(kind, Batches, weights[c], StartOf(w), overlapped)
    BY <2>1 DEF Publisher, Publishes
  <2>6. FitFields \subseteq DOMAIN w
    BY <2>1, FitterAt
  <2>p. Working(p, "publish candidates", [done |-> Append(w.done, weights[m + 1])])
    BY <2>1, <2>4
  <2>7. /\ v.done = Append(w.done, weights[m + 1])
        /\ \A f \in DOMAIN w \ {"done"} : v[f] = w[f]
    BY <2>p, FinishFields
  <2>8. StartOf(v) = StartOf(w) /\ v.pc = "publish candidates"
    BY <2>1, <2>6, <2>7 DEF StartOf, FitFields
  <2> DEFINE all == [c \in 1..m + 1 |-> IF c = m + 1 THEN weights[m + 1] ELSE w.done[c]]
  <2>9. v.done = [c \in 1..m + 1 |-> all[c]]
    <3>1. w.done = [c \in 1..m |-> all[c]] /\ all[m + 1] = weights[m + 1]
      <4>1. \A c \in 1..m : c \in 1..m + 1 /\ c # m + 1
        BY <2>4
      <4>2. \A c \in 1..m : all[c] = w.done[c]
        BY <4>1
      <4>3. m + 1 \in 1..m + 1
        BY <2>4
      <4> HIDE DEF w
      <4>4. all[m + 1] = weights[m + 1]
        BY <4>3
      <4> HIDE DEF all
      <4> QED
        BY <2>2, <4>2, <4>4
    <3> HIDE DEF w, v, all
    <3> QED
      BY <2>4, <2>7, <3>1, AppendNext
  <2>10. \A c \in 1..m + 1 : Written(kind, Batches, all[c], StartOf(v), overlapped')
    <3>1. \A c \in 1..m + 1 : all[c] = weights[m + 1] \/ (c \in 1..m /\ all[c] = w.done[c])
      BY <2>4
    <3> HIDE DEF w, v, all
    <3> QED
      BY <2>1, <2>2, <2>4, <2>5, <2>8, <3>1
  <2>11. Publishes(kind, Batches, v, weights', overlapped')
    <3>1. m + 1 \in 0..CandidateCount(kind)
      BY <1>0, <2>4
    <3>2. v.done = [c \in 1..m + 1 |-> v.done[c]] /\ \A c \in 1..m + 1 : v.done[c] = all[c]
      <4> HIDE DEF w, v, all
      <4> QED
        BY <2>9
    <3> HIDE DEF w, v, all
    <3> QED
      BY <2>1, <2>5, <2>8, <2>10, <3>1, <3>2 DEF Publishes
  <2> QED
    BY <2>8, <2>11 DEF Publisher
<1>4. CASE WriteFitManifest(p)
  <2>1. v.pc = "publish manifest"
    BY <1>4, LeadsTo DEF WriteFitManifest
  <2>2. WholeManifest(kind, Batches, fitManifest', overlapped')
    BY <1>4, ManifestWritten
  <2>3. fitManifest' # <<>>
    BY <1>0, <2>2 DEF WholeManifest
  <2> QED
    BY <2>1, <2>3 DEF Publisher
<1>5. CASE Unfinished(p)
  BY <1>5 DEF Unfinished, Publisher, Finishing
<1> QED
  BY <1>1, <1>2, <1>3, <1>4, <1>5, StepsUnfinished

\* A stage completes with the manifest that lies at its path.
LEMMA FitCompletes ==
  ASSUME FrameTyped, NEW p \in Processes, FitStep(p) \/ Stopping(p), stage'.status = "completed"
  PROVE  \/ stage.status = "completed" /\ stage'.outputs = stage.outputs
         \/ workers[p].pc = "publish manifest" /\ stage'.outputs = fitManifest
<1>s. DOMAIN stage = {"status", "attempt", "outputs"}
  BY DEF FrameTyped
<1>1. CASE BeginFit(p) \/ BeginFrozenDirection(p)
  BY <1>1, <1>s DEF BeginFit, BeginFrozenDirection, Begin
<1>2. CASE CompleteFit(p)
  BY <1>2, <1>s DEF CompleteFit, Finish, At
<1>3. CASE Stopping(p)
  BY <1>3, <1>s DEF Stopping, FailStage, Crash
<1>4. CASE FitStep(p) /\ ~BeginFit(p) /\ ~BeginFrozenDirection(p) /\ ~CompleteFit(p)
  <2>0. \A pc, changes : Working(p, pc, changes) => stage' = stage
    BY DEF Working
  <2>1. CASE LoadNormalizers(p) \/ FitNormalizers(p) \/ PointNormalizers(p)
    BY <2>0, <2>1 DEF LoadNormalizers, FitNormalizers, PointNormalizers
  <2>2. CASE LoadInitializer(p) \/ FitInitializer(p) \/ PointInitializer(p)
    BY <2>0, <2>2 DEF LoadInitializer, FitInitializer, PointInitializer
  <2>3. CASE Restore(p) \/ NextBatch(p) \/ TrainRecord(p) \/ TrainSegment(p)
    BY <2>0, <2>3 DEF Restore, NextBatch, TrainRecord, TrainSegment, Learn
  <2>4. CASE StepAfterRecords(p) \/ StepAfterSegments(p)
    BY <2>0, <2>4 DEF StepAfterRecords, StepAfterSegments, StepCandidates
  <2>5. CASE SaveCandidate(p) \/ PointCheckpoint(p) \/ SaveWeights(p)
    BY <2>0, <2>5 DEF SaveCandidate, PointCheckpoint, SaveWeights
  <2>6. CASE PublishCandidate(p) \/ WriteFitManifest(p)
    BY <2>0, <2>6 DEF PublishCandidate, WriteFitManifest
  <2> QED
    BY <1>4, <2>1, <2>2, <2>3, <2>4, <2>5, <2>6 DEF FitStep
<1> QED
  BY <1>1, <1>2, <1>3, <1>4

LEMMA StaysWhole ==
  ASSUME NEW k, NEW b, NEW listed, NEW shared, NEW later, shared => later,
         WholeManifest(k, b, listed, shared)
  PROVE  WholeManifest(k, b, listed, later)
BY DEF WholeManifest

LEMMA FitPublicationStep ==
  ASSUME FrameTyped, FitTraining, FitPublication, [Next]_vars
  PROVE  FitPublication'
<1> DEFINE Published ==
             /\ Alone'
             /\ DOMAIN weights' = 1..CandidateCount(kind)
             /\ \A q \in Processes :
                  Publisher(kind, Batches, workers'[q], weights', fitManifest', overlapped')
             /\ fitManifest' = <<>> \/ WholeManifest(kind, Batches, fitManifest', overlapped')
             /\ stage'.status = "completed" =>
                  WholeManifest(kind, Batches, stage'.outputs, overlapped')
<1> SUFFICES ASSUME kind \in Fits
             PROVE  Published
  <2>1. kind' = kind /\ Batches' = Batches
    BY FrameStep, BatchesOfKind
  <2> QED
    BY <2>1 DEF FitPublication
<1>0. /\ Alone
      /\ DOMAIN weights = 1..CandidateCount(kind)
      /\ \A q \in Processes : Publisher(kind, Batches, workers[q], weights, fitManifest, overlapped)
      /\ fitManifest = <<>> \/ WholeManifest(kind, Batches, fitManifest, overlapped)
      /\ stage.status = "completed" => WholeManifest(kind, Batches, stage.outputs, overlapped)
  BY DEF FitPublication
<1>f. \A q \in Processes : Fitter(kind, Batches, workers[q])
  BY DEF FitTraining
<1>1. ASSUME NEW p \in Processes, FitStep(p), Acts(p)
      PROVE  Published
  <2>1. /\ overlapped => overlapped'
        /\ \A q \in Processes \ {p} : overlapped' \/ workers[q].pc = "idle"
    BY <1>0, <1>1 DEF Acts
  <2>2. \A q \in Processes \ {p} : workers'[q] = workers[q]
    BY <1>1 DEF Acts
  <2>3. Alone'
    BY <2>1, <2>2 DEF Alone
  <2>4. /\ DOMAIN weights' = DOMAIN weights
        /\ \A c \in 1..CandidateCount(kind) :
             weights'[c] = weights[c] \/ weights'[c].steps = Whole(kind, Batches)
    BY <1>0, <1>1, <1>f, WeightsWritten
  <2>5. \/ fitManifest' = fitManifest
        \/ WholeManifest(kind, Batches, fitManifest', overlapped')
    BY <1>0, <1>1, <1>f, ManifestWritten
  <2>6. WholeManifest(kind, Batches, fitManifest', overlapped') => fitManifest' # <<>>
    <3>1. CandidateCount(kind) \in Nat \ {0}
      BY Candidacy
    <3> QED
      BY <3>1 DEF WholeManifest
  <2>7. ASSUME NEW q \in Processes
        PROVE  Publisher(kind, Batches, workers'[q], weights', fitManifest', overlapped')
    <3>1. CASE q = p
      BY <1>0, <1>1, <1>f, <3>1, PublisherSteps
    <3>2. CASE q # p
      <4>1. workers'[q] = workers[q] /\ (overlapped' \/ workers[q].pc = "idle")
        BY <2>1, <2>2, <3>2
      <4>2. Publisher(kind, Batches, workers[q], weights, fitManifest, overlapped)
        BY <1>0
      <4>3. fitManifest' = fitManifest \/ fitManifest' # <<>>
        BY <2>5, <2>6
      <4>4. Publisher(kind, Batches, workers[q], weights', fitManifest', overlapped')
        BY <2>4, <4>1, <4>2, <4>3, OthersPublish
      <4> QED
        BY <4>1, <4>4
    <3> QED
      BY <3>1, <3>2
  <2>8. fitManifest' = <<>> \/ WholeManifest(kind, Batches, fitManifest', overlapped')
    BY <1>0, <2>1, <2>5, StaysWhole
  <2>9. stage'.status = "completed" => WholeManifest(kind, Batches, stage'.outputs, overlapped')
    <3> SUFFICES ASSUME stage'.status = "completed"
                 PROVE  WholeManifest(kind, Batches, stage'.outputs, overlapped')
      OBVIOUS
    <3>1. CASE stage.status = "completed" /\ stage'.outputs = stage.outputs
      BY <1>0, <2>1, <3>1, StaysWhole
    <3>2. CASE workers[p].pc = "publish manifest" /\ stage'.outputs = fitManifest
      <4>1. WholeManifest(kind, Batches, fitManifest, overlapped)
        BY <1>0, <3>2 DEF Publisher
      <4>2. WholeManifest(kind, Batches, fitManifest, overlapped')
        BY <2>1, <4>1, StaysWhole
      <4> QED
        BY <3>2, <4>2
    <3> QED
      BY <1>1, <3>1, <3>2, FitCompletes
  <2> QED
    BY <1>0, <2>3, <2>4, <2>7, <2>8, <2>9
<1>2. ASSUME overlapped' = overlapped, weights' = weights, fitManifest' = fitManifest,
             \A q \in Processes : workers'[q] = Idle \/ workers'[q] = workers[q],
             stage'.status = "completed" =>
               stage.status = "completed" /\ stage'.outputs = stage.outputs
      PROVE  Published
  <2>1. \A q \in Processes : workers'[q].pc = "idle" \/ workers'[q] = workers[q]
    BY <1>2 DEF Idle
  <2>2. Alone'
    BY <1>0, <1>2, <2>1 DEF Alone
  <2>3. \A q \in Processes :
          Publisher(kind, Batches, workers'[q], weights', fitManifest', overlapped')
    <3> TAKE q \in Processes
    <3>1. CASE workers'[q] = workers[q]
      BY <1>0, <1>2, <3>1
    <3>2. CASE workers'[q].pc = "idle"
      BY <3>2 DEF Publisher
    <3> QED
      BY <2>1, <3>1, <3>2
  <2> QED
    BY <1>0, <1>2, <2>2, <2>3
<1>3. ASSUME NEW p \in Processes, Stopping(p)
      PROVE  Published
  <2>1. /\ overlapped' = overlapped /\ weights' = weights /\ fitManifest' = fitManifest
        /\ \A q \in Processes : workers'[q] = Idle \/ workers'[q] = workers[q]
    BY <1>3 DEF Stopping, FailStage, Crash, FrameTyped
  <2>2. stage'.status = "completed" => stage.status = "completed" /\ stage'.outputs = stage.outputs
    <3>1. DOMAIN stage = {"status", "attempt", "outputs"}
      BY DEF FrameTyped
    <3> QED
      BY <1>3, <3>1 DEF Stopping, FailStage, Crash
  <2> QED
    BY <1>2, <2>1, <2>2
<1>4. CASE PowerLoss
  <2>1. /\ overlapped' = overlapped /\ weights' = weights /\ fitManifest' = fitManifest
        /\ stage' = stage /\ \A q \in Processes : workers'[q] = Idle
    BY <1>4 DEF PowerLoss
  <2> QED
    BY <1>2, <2>1
<1>5. CASE UNCHANGED vars
  <2>1. /\ overlapped' = overlapped /\ weights' = weights /\ fitManifest' = fitManifest
        /\ stage' = stage /\ workers' = workers
    BY <1>5
  <2> QED
    BY <1>2, <2>1
<1>6. ASSUME NEW p \in Processes, Fitting(p) \/ Collecting(p) \/ Evaluating(p) \/ Stopping(p)
      PROVE  Published
  <2>1. FitStep(p) \/ Stopping(p)
    <3>1. workers[p].pc \in FitPlaces \union {"idle"}
      BY <1>f, FitterPlaces
    <3> QED
      BY <1>6, <3>1, OnlyFitting DEF Fitting
  <2>2. Acts(p)
    BY <1>6, StepActs
  <2> HIDE DEF Published
  <2> QED
    BY <1>1, <1>3, <2>1, <2>2
<1> HIDE DEF Published
<1> QED
  BY <1>4, <1>5, <1>6 DEF Next

LEMMA PublishedIsWhole ==
  ASSUME FitPublication
  PROVE  CompletedFitIsWhole
<1> SUFFICES ASSUME kind \in Fits, stage.status = "completed"
             PROVE  LET listed == stage.outputs
                    IN  /\ IF kind = "fit_frozen_direction" THEN LoadsDirection(listed)
                           ELSE LoadsScreening(listed)
                        /\ DOMAIN listed = Candidates
                        /\ \A c \in Candidates :
                             /\ listed[c].weights.steps = Schedule
                             /\ listed[c].measured = Epochs * Len(PrefixGroup)
                        /\ overlapped \/ \A c \in Candidates :
                             listed[c].weights.start = listed[1].weights.start
  BY DEF CompletedFitIsWhole
<1>1. WholeManifest(kind, Batches, stage.outputs, overlapped)
  BY DEF FitPublication
<1>2. Candidates = 1..CandidateCount(kind) /\ Schedule = Whole(kind, Batches)
  BY Candidacy, ScheduleIsTrajectory DEF Whole
<1> QED
  BY <1>1, <1>2 DEF WholeManifest, LoadsDirection, LoadsScreening, RowCount

\* The manifest of a completed fit lists every candidate of the contract, each trained
\* through the whole schedule and measured on all its rows, and all from one start unless
\* attempts were alive at once: however many candidates, attempts and processes there are.
THEOREM FitsAreWhole == Spec => []CompletedFitIsWhole
<1>1. Init => FrameTyped /\ FitTraining /\ FitPublication
  <2> SUFFICES ASSUME Init PROVE FrameTyped /\ FitTraining /\ FitPublication
    OBVIOUS
  <2>1. FrameTyped /\ FitTraining
    BY FitTrainingInit
  <2>2. /\ \A p \in Processes : workers[p].pc = "idle"
        /\ fitManifest = <<>> /\ stage.status = "absent"
        /\ DOMAIN weights = 1..CandidateCount(kind)
    BY Candidacy DEF Init, FrameInit, FitInit, Idle
  <2> QED
    BY <2>1, <2>2 DEF FitPublication, Alone, Publisher
<1>2. FrameTyped /\ FitTraining /\ FitPublication /\ [Next]_vars =>
        (FrameTyped /\ FitTraining /\ FitPublication)'
  BY FrameStep, FitTrainingStep, FitPublicationStep
<1>3. FitPublication => CompletedFitIsWhole
  BY PublishedIsWhole
<1> QED
  BY <1>1, <1>2, <1>3, PTL DEF Spec

-----------------------------------------------------------------------------
(* What a fit goes on from.                                                 *)

\* Each file is bound to those it was made from, and so made after them.
Bound(pointed, saved) ==
  /\ DOMAIN pointed = {"normalizers", "initializer"}
  /\ pointed.initializer # None =>
       pointed.normalizers # None /\ pointed.initializer.binding = pointed.normalizers.bytes
  /\ saved # None =>
       /\ pointed.initializer # None
       /\ saved.binding = <<pointed.normalizers.bytes, pointed.initializer.bytes>>

\* An attempt works with the files' contents, from where it has them.
Normalizing == {"idle", "normalizers", "point normalizers"}
Initializing == Normalizing \union {"initializer", "point initializer"}

Keeping(w, pointed) ==
  /\ w.pc # "refused"
  /\ w.pc = "point normalizers" => pointed.normalizers = None
  /\ w.pc = "point initializer" => pointed.initializer = None
  /\ w.pc \notin Normalizing =>
       pointed.normalizers # None /\ w.normalizers = pointed.normalizers.bytes
  /\ w.pc \notin Initializing =>
       pointed.initializer # None /\ w.initializer = pointed.initializer.bytes

NothingTorn == [pointers |-> {}, checkpoint |-> {}]

FitResumption ==
  kind \in Fits =>
    /\ losses \in Nat
    /\ ~overlapped /\ losses = 0 =>
         /\ torn = NothingTorn /\ Bound(pointers, checkpoint)
         /\ \A p \in Processes : Keeping(workers[p], pointers)

\* What is saved at a boundary passes every check that restoring makes.
LEMMA ValidAtBoundary ==
  ASSUME NEW e \in 0..Epochs, NEW g \in 0..StepsPerEpoch - 1, Boundary(e, g)
  PROVE  ValidProgress(ProgressAt(e, g, 0))
<1>1. /\ e \in Nat /\ g \in Nat /\ Epochs \in Nat /\ StepsPerEpoch \in Nat \ {0}
      /\ Accumulation \in Nat \ {0} /\ RowCount \in Nat \ {0}
  BY FitNumbers
<1> DEFINE a == g * Accumulation
<1>2. a \in Nat /\ a \div Accumulation = g /\ a % Accumulation = 0
  <2>1. 0 \in 0..Accumulation - 1
    BY <1>1
  <2>2. (g * Accumulation + 0) \div Accumulation = g /\ (g * Accumulation + 0) % Accumulation = 0
    BY <1>1, <2>1, QuotientOf
  <2>3. a \in Nat
    BY <1>1
  <2> QED
    BY <2>2, <2>3
<1>3. a < RowCount
  <2>1. g <= StepsPerEpoch - 1 /\ StepsPerEpoch - 1 \in Nat
    BY <1>1
  <2>2. a <= (StepsPerEpoch - 1) * Accumulation
    BY <1>1, <2>1, Monotone
  <2>3. (StepsPerEpoch - 1) * Accumulation \in Nat
    BY <1>1, <2>1
  <2> HIDE DEF a
  <2> QED
    BY <1>1, <1>2, <2>2, <2>3, FitNumbers
<1>4. e < Epochs \/ (e = Epochs /\ a = 0)
  <2>1. CASE Amid(e, g)
    BY <1>1, <2>1 DEF Amid
  <2>2. CASE e = Epochs /\ g = 0
    BY <1>1, <2>2
  <2> QED
    BY <2>1, <2>2 DEF Boundary
<1>5. /\ SamplesAt(e, g) + 0 = e * Len(PrefixGroup) + a
      /\ StepsAt(e, g) = e * StepsPerEpoch + g
  <2>1. e * RowCount \in Nat
    BY <1>1
  <2> QED
    BY <1>2, <2>1 DEF SamplesAt, StepsAt, RowCount
<1> QED
  BY <1>2, <1>3, <1>4, <1>5 DEF ValidProgress, ProgressAt, RowCount

LEMMA SoundAtBoundary ==
  ASSUME NEW b, NEW start, NEW e \in 0..Epochs, NEW g \in 0..StepsPerEpoch - 1
  PROVE  LET models == ModelsAt(kind, b, start, e, g, 0)
         IN  /\ DOMAIN models = Candidates
             /\ \A c \in Candidates : SoundCandidate(models[c], ProgressAt(e, g, 0))
<1>1. StepsAt(e, g) \in Nat
  <2>1. e \in Nat /\ g \in Nat /\ StepsPerEpoch \in Nat
    BY FitNumbers
  <2>2. e * StepsPerEpoch + g \in Nat
    BY <2>1
  <2> QED
    BY <2>2 DEF StepsAt
<1>2. Len(Trajectory(kind, b, StepsAt(e, g))) = StepsAt(e, g)
  BY <1>1 DEF Trajectory
<1> QED
  BY <1>2, Candidacy DEF ModelsAt, Model, SoundCandidate, ProgressAt

\* A lone attempt restores any checkpoint that it finds.
LEMMA RestoresWhatIsSaved ==
  ASSUME NEW p, Checkpointed(kind, Batches, checkpoint), checkpoint # None, torn = NothingTorn,
         checkpoint.binding = Start(p)
  PROVE  Restorable(p)
<1>1. PICK e \in 0..Epochs, g \in 0..StepsPerEpoch - 1 :
        /\ Boundary(e, g)
        /\ checkpoint = Generation(checkpoint.binding, ProgressAt(e, g, 0),
                           ModelsAt(kind, Batches, checkpoint.binding, e, g, 0))
  BY DEF Checkpointed
<1>2. /\ checkpoint.progress = ProgressAt(e, g, 0)
      /\ checkpoint.models = ModelsAt(kind, Batches, checkpoint.binding, e, g, 0)
  BY <1>1 DEF Generation
<1> QED
  BY <1>1, <1>2, ValidAtBoundary, SoundAtBoundary DEF Restorable, NothingTorn

\* Where an attempt of a fit pauses, and before it starts, its progress is valid.
LEMMA RefusedProgress ==
  ASSUME NEW v, Fitter(kind, Batches, v), v.pc = "refused"
  PROVE  /\ ValidProgress(v.progress)
         /\ DOMAIN v.models = Candidates =>
              \A c \in Candidates : SoundCandidate(v.models[c], v.progress)
<1>1. CASE Unstarted(v)
  <2>1. v.progress = ProgressAt(0, 0, 0)
    BY <1>1, AtTheStart DEF Unstarted
  <2>2. ValidProgress(v.progress)
    BY <2>1, AtTheStart, ValidAtBoundary
  <2>3. DOMAIN v.models # Candidates
    <3>1. v.models = <<>> /\ DOMAIN <<>> = {}
      BY <1>1 DEF Unstarted
    <3>2. 1 \in Candidates
      BY Candidacy
    <3> QED
      BY <3>1, <3>2
  <2> QED
    BY <2>2, <2>3
<1>2. CASE Pauses(kind, Batches, v)
  <2>1. PICK e \in 0..Epochs, g \in 0..StepsPerEpoch - 1 :
          Boundary(e, g) /\ Pausing(kind, Batches, v, e, g)
    BY <1>2 DEF Pauses
  <2>2. v.progress = ProgressAt(e, g, 0) /\ v.models = ModelsAt(kind, Batches, StartOf(v), e, g, 0)
    BY <2>1 DEF Pausing, Stands
  <2> QED
    BY <2>1, <2>2, ValidAtBoundary, SoundAtBoundary
<1> QED
  BY <1>1, <1>2 DEF Fitter, Starting, Finishing

\* A step that changes neither keeps the start.
SameStart(p) ==
  /\ workers'[p].normalizers = workers[p].normalizers
  /\ workers'[p].initializer = workers[p].initializer

LEMMA StartKept ==
  ASSUME FrameTyped, NEW p \in Processes, Fitter(kind, Batches, workers[p]), NEW at, at # "idle",
         NEW changes, {"normalizers", "initializer"} \cap DOMAIN changes = {},
         Working(p, at, changes)
  PROVE  SameStart(p)
<1>1. workers[p].pc = at
  BY WorkingAt
<1>2. {"normalizers", "initializer"} \subseteq DOMAIN workers[p]
  BY <1>1, FitterAt DEF FitFields
<1>3. \A f \in DOMAIN workers[p] \ DOMAIN changes : workers'[p][f] = workers[p][f]
  BY WorkingFields
<1> QED
  BY <1>2, <1>3 DEF SameStart

\* An attempt that has its start works on with it.
LEMMA WorksOn ==
  ASSUME NEW p, NEW pointed, Keeping(workers[p], pointed), SameStart(p),
         workers[p].pc \notin Initializing, workers'[p].pc \notin Initializing \union {"refused"}
  PROVE  Keeping(workers'[p], pointed)
BY DEF Keeping, SameStart, Normalizing, Initializing

\* A pointer is one.
LEMMA PointerIsOne ==
  /\ \A binding, bytes : /\ Pointer(binding, bytes) # None
                         /\ Pointer(binding, bytes).binding = binding
                         /\ Pointer(binding, bytes).bytes = bytes
  /\ \A start, progress, models : Generation(start, progress, models).binding = start
BY DEF Pointer, Generation, None

\* The start of a lone attempt: what it fits anew was bound to nothing yet.
LEMMA KeepsNormalizers ==
  ASSUME FrameTyped, NEW p \in Processes, Fitter(kind, Batches, workers[p]),
         torn = NothingTorn, Bound(pointers, checkpoint), Keeping(workers[p], pointers),
         LoadNormalizers(p) \/ FitNormalizers(p) \/ PointNormalizers(p)
  PROVE  Bound(pointers', checkpoint') /\ Keeping(workers'[p], pointers')
<1> DEFINE w == workers[p]  v == workers'[p]
<1> USE DEF Normalizing, Initializing
<1>1. CASE LoadNormalizers(p)
  <2>1. Working(p, "normalizers",
                [pc |-> "initializer", normalizers |-> pointers.normalizers.bytes])
    BY <1>1 DEF LoadNormalizers, NothingTorn
  <2>2. v.pc = "initializer" /\ v.normalizers = pointers.normalizers.bytes
    BY <2>1, WorkingFields
  <2>3. pointers.normalizers # None /\ pointers' = pointers /\ checkpoint' = checkpoint
    BY <1>1 DEF LoadNormalizers
  <2> QED
    BY <2>2, <2>3 DEF Keeping
<1>2. CASE FitNormalizers(p)
  <2>1. v.pc = "point normalizers"
    BY <1>2, LeadsTo DEF FitNormalizers
  <2>2. pointers.normalizers = None /\ pointers' = pointers /\ checkpoint' = checkpoint
    BY <1>2 DEF FitNormalizers
  <2> QED
    BY <2>1, <2>2 DEF Keeping
<1>3. CASE PointNormalizers(p)
  <2>1. Working(p, "point normalizers", [pc |-> "initializer"]) /\ checkpoint' = checkpoint
    BY <1>3 DEF PointNormalizers
  <2>2. w.pc = "point normalizers"
    BY <2>1, WorkingAt
  <2>3. v.pc = "initializer" /\ SameStart(p)
    BY <2>1, LeadsTo, StartKept
  <2>4. pointers.normalizers = None /\ pointers.initializer = None /\ checkpoint = None
    BY <2>2 DEF Keeping, Bound
  <2>5. /\ DOMAIN pointers' = DOMAIN pointers
        /\ pointers'.normalizers = Pointer("trace", w.normalizers)
        /\ pointers'.initializer = None
    BY <1>3, <2>4 DEF PointNormalizers, Bound
  <2>6. pointers'.normalizers # None /\ pointers'.normalizers.bytes = w.normalizers
    BY <2>5, PointerIsOne
  <2>7. Bound(pointers', checkpoint')
    BY <2>1, <2>4, <2>5 DEF Bound
  <2>8. Keeping(v, pointers')
    BY <2>3, <2>6 DEF Keeping, SameStart
  <2> QED
    BY <2>7, <2>8
<1> QED
  BY <1>1, <1>2, <1>3

LEMMA KeepsInitializer ==
  ASSUME FrameTyped, NEW p \in Processes, Fitter(kind, Batches, workers[p]),
         torn = NothingTorn, Bound(pointers, checkpoint), Keeping(workers[p], pointers),
         LoadInitializer(p) \/ FitInitializer(p) \/ PointInitializer(p)
  PROVE  Bound(pointers', checkpoint') /\ Keeping(workers'[p], pointers')
<1> DEFINE w == workers[p]  v == workers'[p]
<1> USE DEF Normalizing, Initializing
<1>0. w.pc # "idle" => {"pc", "normalizers"} \subseteq DOMAIN w
  BY FitterAt DEF FitFields
<1>1. CASE LoadInitializer(p)
  <2>1. w.pc = "initializer"
    BY <1>1, WorkingAt DEF LoadInitializer
  <2>2. pointers.normalizers # None /\ w.normalizers = pointers.normalizers.bytes
    BY <2>1 DEF Keeping
  <2>3. pointers.initializer # None /\ pointers' = pointers /\ checkpoint' = checkpoint
    BY <1>1 DEF LoadInitializer
  <2>4. Working(p, "initializer", [pc |-> "restore", initializer |-> pointers.initializer.bytes])
    BY <1>1, <2>2, <2>3 DEF LoadInitializer, NothingTorn, Bound
  <2>5. /\ v.pc = "restore" /\ v.initializer = pointers.initializer.bytes
        /\ v.normalizers = w.normalizers
    BY <1>0, <2>1, <2>4, WorkingFields
  <2> QED
    BY <2>2, <2>3, <2>5 DEF Keeping
<1>2. CASE FitInitializer(p)
  <2>1. w.pc = "initializer"
    BY <1>2, WorkingAt DEF FitInitializer
  <2>2. pointers.normalizers # None /\ w.normalizers = pointers.normalizers.bytes
    BY <2>1 DEF Keeping
  <2>3. pointers.initializer = None /\ pointers' = pointers /\ checkpoint' = checkpoint
    BY <1>2 DEF FitInitializer
  <2>4. PICK b : Working(p, "initializer", [pc |-> "point initializer", initializer |-> b])
    BY <1>2 DEF FitInitializer
  <2>5. v.pc = "point initializer"
    BY <2>4, LeadsTo
  <2>6. v.normalizers = w.normalizers
    <3>1. "normalizers" \in DOMAIN w \ DOMAIN [pc |-> "point initializer", initializer |-> b]
      BY <1>0, <2>1
    <3> QED
      BY <2>4, <3>1, WorkingFields
  <2> QED
    BY <2>2, <2>3, <2>5, <2>6 DEF Keeping
<1>3. CASE PointInitializer(p)
  <2>1. Working(p, "point initializer", [pc |-> "restore"]) /\ checkpoint' = checkpoint
    BY <1>3 DEF PointInitializer
  <2>2. w.pc = "point initializer"
    BY <2>1, WorkingAt
  <2>3. v.pc = "restore" /\ SameStart(p)
    BY <2>1, LeadsTo, StartKept
  <2>4. /\ pointers.normalizers # None /\ w.normalizers = pointers.normalizers.bytes
        /\ pointers.initializer = None /\ checkpoint = None
    BY <2>2 DEF Keeping, Bound
  <2>5. /\ DOMAIN pointers' = DOMAIN pointers
        /\ pointers'.normalizers = pointers.normalizers
        /\ pointers'.initializer = Pointer(w.normalizers, w.initializer)
    BY <1>3 DEF PointInitializer, Bound
  <2>6. /\ pointers'.initializer # None /\ pointers'.initializer.bytes = w.initializer
        /\ pointers'.initializer.binding = w.normalizers
    BY <2>5, PointerIsOne
  <2>7. Bound(pointers', checkpoint')
    BY <2>1, <2>4, <2>5, <2>6 DEF Bound
  <2>8. Keeping(v, pointers')
    BY <2>3, <2>4, <2>5, <2>6 DEF Keeping, SameStart
  <2> QED
    BY <2>7, <2>8
<1> QED
  BY <1>1, <1>2, <1>3

\* The training refuses nothing that it has itself computed.
LEMMA KeepsTraining ==
  ASSUME FrameTyped, NEW p \in Processes, Fitter(kind, Batches, workers[p]),
         Checkpointed(kind, Batches, checkpoint),
         torn = NothingTorn, Bound(pointers, checkpoint), Keeping(workers[p], pointers),
         \/ Restore(p) \/ NextBatch(p) \/ TrainRecord(p) \/ TrainSegment(p)
         \/ StepAfterRecords(p) \/ StepAfterSegments(p)
  PROVE  Keeping(workers'[p], pointers)
<1> DEFINE w == workers[p]  v == workers'[p]
<1>p. /\ {"restore", "train", "save", "weights"} \cap (Initializing \union {"refused"}) = {}
      /\ "refused" \notin Initializing
  BY DEF Normalizing, Initializing
<1>0. w.pc = "train" => "pc" \in DOMAIN w
  BY FitterAt DEF FitFields
<1>1. CASE Restore(p)
  <2>1. w.pc = "restore"
    BY <1>1, WorkingAt DEF Restore
  <2>2. Start(p) = <<pointers.normalizers.bytes, pointers.initializer.bytes>>
    BY <1>p, <2>1 DEF Keeping, Normalizing, Initializing, Start
  <2>3. checkpoint # None => Restorable(p)
    BY <2>2, RestoresWhatIsSaved DEF Bound
  <2>4. v.pc = "train" /\ SameStart(p)
    <3>1. CASE checkpoint = None
      <4>1. Working(p, "restore", [pc |-> "train", models |-> FreshModels(p)])
        BY <1>1, <3>1 DEF Restore
      <4> QED
        BY <4>1, LeadsTo, StartKept
    <3>2. CASE checkpoint # None
      <4>1. Working(p, "restore", [pc |-> "train", models |-> checkpoint.models,
                                   progress |-> checkpoint.progress])
        BY <1>1, <2>3, <3>2 DEF Restore
      <4> QED
        BY <4>1, LeadsTo, StartKept
    <3> QED
      BY <3>1, <3>2
  <2> QED
    BY <1>p, <2>1, <2>4, WorksOn
<1>2. CASE NextBatch(p)
  <2>1. w.pc = "train"
    BY <1>2 DEF NextBatch, At
  <2>2. CASE w.progress.epoch < Epochs
    <3>1. Working(p, "train", [batch |-> Batch(w.progress.epoch, w.progress.position)])
      BY <1>2, <2>2 DEF NextBatch
    <3>2. v.pc = "train" /\ SameStart(p)
      BY <1>0, <2>1, <3>1, StaysAt, StartKept
    <3> QED
      BY <1>p, <2>1, <3>2, WorksOn
  <2>3. CASE ~(w.progress.epoch < Epochs)
    <3>1. Working(p, "train", [pc |-> IF ValidProgress(w.progress) THEN "weights" ELSE "refused"])
      BY <1>2, <2>3 DEF NextBatch
    <3>2. "progress" \in DOMAIN w
      BY <2>1, FitterAt DEF FitFields
    <3>3. /\ v.pc = IF ValidProgress(w.progress) THEN "weights" ELSE "refused"
          /\ v.progress = w.progress /\ SameStart(p)
      BY <3>1, <3>2, WorkingFields, StartKept
    <3>4. Fitter(kind, Batches, v)
      BY <1>2, FitterFetches
    <3>5. v.pc # "refused"
      BY <3>3, <3>4, RefusedProgress
    <3>6. v.pc = "weights"
      BY <3>3, <3>5
    <3> QED
      BY <1>p, <2>1, <3>3, <3>6, WorksOn
  <2> QED
    BY <2>2, <2>3
<1>3. CASE TrainRecord(p) \/ TrainSegment(p)
  <2>1. w.pc = "train"
    BY <1>3 DEF TrainRecord, TrainSegment, At
  <2>2. \A rows, asset : Learn(p, rows, asset) => v.pc = "train" /\ SameStart(p)
    BY <1>0, <2>1, StaysAt, StartKept DEF Learn
  <2>3. v.pc = "train" /\ SameStart(p)
    BY <1>3, <2>2 DEF TrainRecord, TrainSegment
  <2> QED
    BY <1>p, <2>1, <2>3, WorksOn
<1>4. CASE StepAfterRecords(p) \/ StepAfterSegments(p)
  <2>1. w.pc = "train" /\ \E progress, asset : StepCandidates(p, progress, asset)
    BY <1>4 DEF StepAfterRecords, StepAfterSegments, At
  <2>2. PICK progress, asset : StepCandidates(p, progress, asset)
    BY <2>1
  <2> DEFINE stepped == [c \in Candidates |-> [w.models[c] EXCEPT !.steps = Append(@, w.gradient)]]
             sound == \A c \in Candidates : SoundCandidate(stepped[c], progress)
             to == IF ~Due(progress) THEN "train" ELSE IF sound THEN "save" ELSE "refused"
  <2>3. Working(p, "train", [pc |-> to, models |-> stepped, gradient |-> <<>>,
                             progress |-> progress, asset |-> asset])
    BY <2>2 DEF StepCandidates
  <2>d. DOMAIN stepped = Candidates
    OBVIOUS
  <2>s. sound = \A c \in Candidates : SoundCandidate(stepped[c], progress)
    OBVIOUS
  <2>t. to \in {"train", "save", "refused"} /\ (to = "refused" => ~sound)
    OBVIOUS
  <2> HIDE DEF stepped, to, sound
  <2>4. v.pc = to /\ v.models = stepped /\ v.progress = progress
    BY <2>3, WorkingFields
  <2>5. SameStart(p)
    BY <2>3, StartKept
  <2>6. Fitter(kind, Batches, v)
    BY <1>4, FitterSteps
  <2>7. v.pc # "refused"
    <3> SUFFICES ASSUME v.pc = "refused" PROVE FALSE
      OBVIOUS
    <3>1. \A c \in Candidates : SoundCandidate(stepped[c], progress)
      BY <2>4, <2>6, <2>d, RefusedProgress
    <3> QED
      BY <2>4, <2>s, <2>t, <3>1
  <2> QED
    BY <1>p, <2>1, <2>4, <2>5, <2>7, <2>t, WorksOn
<1> QED
  BY <1>1, <1>2, <1>3, <1>4

\* What is saved is bound to the start of the attempt that saves it.
LEMMA KeepsSaving ==
  ASSUME FrameTyped, NEW p \in Processes, Fitter(kind, Batches, workers[p]),
         torn = NothingTorn, Bound(pointers, checkpoint), Keeping(workers[p], pointers),
         \/ SaveCandidate(p) \/ PointCheckpoint(p) \/ SaveWeights(p)
         \/ PublishCandidate(p) \/ WriteFitManifest(p)
  PROVE  Bound(pointers, checkpoint') /\ Keeping(workers'[p], pointers)
<1> DEFINE w == workers[p]  v == workers'[p]
           places == {"train", "save"} \union Finishing
<1>p. \A pc \in places : pc \notin Initializing \union {"refused"} /\ pc # "idle"
  BY DEF Normalizing, Initializing, Finishing
<1>0. w.pc # "idle" => "pc" \in DOMAIN w
  BY FitterAt DEF FitFields
<1>1. ASSUME NEW at \in places, NEW a,
             \/ Working(p, at, [done |-> a])
             \/ \E to \in places : Working(p, at, [pc |-> to]) \/ Working(p, at, [pc |-> to, done |-> a])
      PROVE  Keeping(v, pointers)
  <2>1. w.pc = at /\ "pc" \in DOMAIN w /\ at # "idle"
    BY <1>0, <1>1, <1>p, WorkingAt
  <2>2. SameStart(p)
    BY <1>1, <2>1, StartKept
  <2>3. v.pc \in places
    BY <1>1, <2>1, StaysAt, LeadsTo
  <2> HIDE DEF places
  <2> QED
    BY <1>1, <1>p, <2>1, <2>2, <2>3, WorksOn
<1>2. CASE SaveCandidate(p)
  <2>1. \E a : Working(p, "save", [done |-> a])
    BY <1>2 DEF SaveCandidate
  <2>2. checkpoint' = checkpoint
    BY <1>2 DEF SaveCandidate
  <2> QED
    BY <1>1, <2>1, <2>2
<1>3. CASE PointCheckpoint(p)
  <2>1. Working(p, "save", [pc |-> "train", done |-> <<>>]) /\ w.pc = "save"
    BY <1>3 DEF PointCheckpoint, At
  <2>2. Keeping(v, pointers)
    BY <1>1, <2>1
  <2>3. checkpoint'.binding = Start(p)
    BY <1>3, PointerIsOne DEF PointCheckpoint
  <2>4. /\ Start(p) = <<pointers.normalizers.bytes, pointers.initializer.bytes>>
        /\ pointers.initializer # None
    BY <2>1 DEF Keeping, Normalizing, Initializing, Start
  <2> QED
    BY <2>2, <2>3, <2>4 DEF Bound
<1>4. CASE SaveWeights(p)
  <2>1. \E a : \/ Working(p, "weights", [done |-> a])
               \/ Working(p, "weights", [pc |-> "publish candidates", done |-> a])
    BY <1>4 DEF SaveWeights
  <2>2. checkpoint' = checkpoint
    BY <1>4 DEF SaveWeights
  <2>3. {"weights", "publish candidates"} \subseteq places
    BY DEF Finishing
  <2> QED
    BY <1>1, <2>1, <2>2, <2>3
<1>5. CASE PublishCandidate(p) \/ WriteFitManifest(p)
  <2>1. \/ \E a : Working(p, "publish candidates", [done |-> a])
        \/ Working(p, "publish candidates", [pc |-> "publish manifest"])
    BY <1>5 DEF PublishCandidate, WriteFitManifest
  <2>2. checkpoint' = checkpoint
    BY <1>5 DEF PublishCandidate, WriteFitManifest
  <2>3. {"publish manifest", "publish candidates"} \subseteq places
    BY DEF Finishing
  <2> QED
    BY <1>1, <2>1, <2>2, <2>3
<1> QED
  BY <1>2, <1>3, <1>4, <1>5

\* A lone attempt of a fit on a machine that keeps its power.
LEMMA FitKeeps ==
  ASSUME FrameTyped, NEW p \in Processes, Fitter(kind, Batches, workers[p]),
         Checkpointed(kind, Batches, checkpoint),
         torn = NothingTorn, Bound(pointers, checkpoint), Keeping(workers[p], pointers),
         FitStep(p)
  PROVE  /\ torn' = NothingTorn /\ Bound(pointers', checkpoint')
         /\ Keeping(workers'[p], pointers')
<1>1. CASE BeginFit(p) \/ BeginFrozenDirection(p)
  <2>1. workers'[p].pc = "normalizers"
    BY <1>1, BeginChanges DEF BeginFit, BeginFrozenDirection
  <2>2. torn' = torn /\ pointers' = pointers /\ checkpoint' = checkpoint
    BY <1>1 DEF BeginFit, BeginFrozenDirection
  <2> QED
    BY <2>1, <2>2 DEF Keeping, Normalizing, Initializing
<1>2. CASE LoadNormalizers(p) \/ FitNormalizers(p) \/ PointNormalizers(p)
  <2>1. torn' = torn
    BY <1>2 DEF LoadNormalizers, FitNormalizers, PointNormalizers
  <2> QED
    BY <1>2, <2>1, KeepsNormalizers
<1>3. CASE LoadInitializer(p) \/ FitInitializer(p) \/ PointInitializer(p)
  <2>1. torn' = torn
    BY <1>3 DEF LoadInitializer, FitInitializer, PointInitializer
  <2> QED
    BY <1>3, <2>1, KeepsInitializer
<1>4. CASE \/ Restore(p) \/ NextBatch(p) \/ TrainRecord(p) \/ TrainSegment(p)
           \/ StepAfterRecords(p) \/ StepAfterSegments(p)
  <2>1. torn' = torn /\ pointers' = pointers /\ checkpoint' = checkpoint
    BY <1>4 DEF Restore, NextBatch, TrainRecord, TrainSegment, StepAfterRecords, StepAfterSegments
  <2> QED
    BY <1>4, <2>1, KeepsTraining
<1>5. CASE \/ SaveCandidate(p) \/ PointCheckpoint(p) \/ SaveWeights(p)
           \/ PublishCandidate(p) \/ WriteFitManifest(p)
  <2>1. pointers' = pointers
    BY <1>5 DEF SaveCandidate, PointCheckpoint, SaveWeights, PublishCandidate, WriteFitManifest
  <2>2. torn' = NothingTorn
    <3>1. CASE PointCheckpoint(p)
      BY <3>1 DEF PointCheckpoint, NothingTorn
    <3>2. CASE SaveCandidate(p) \/ SaveWeights(p) \/ PublishCandidate(p) \/ WriteFitManifest(p)
      BY <3>2 DEF SaveCandidate, SaveWeights, PublishCandidate, WriteFitManifest
    <3> QED
      BY <1>5, <3>1, <3>2
  <2> QED
    BY <1>5, <2>1, <2>2, KeepsSaving
<1>6. CASE CompleteFit(p)
  <2>1. torn' = torn /\ pointers' = pointers /\ checkpoint' = checkpoint
    BY <1>6 DEF CompleteFit
  <2>2. workers'[p].pc = "idle"
    BY <1>6 DEF CompleteFit, Finish, FrameTyped, Idle
  <2> QED
    BY <2>1, <2>2 DEF Keeping, Normalizing, Initializing
<1> QED
  BY <1>1, <1>2, <1>3, <1>4, <1>5, <1>6 DEF FitStep

LEMMA FitLossless ==
  ASSUME NEW p, FitStep(p) \/ Stopping(p)
  PROVE  losses' = losses
BY DEF FitStep, Stopping, BeginFit, BeginFrozenDirection, LoadNormalizers, FitNormalizers,
       PointNormalizers, LoadInitializer, FitInitializer, PointInitializer, Restore, NextBatch,
       TrainRecord, TrainSegment, StepAfterRecords, StepAfterSegments, SaveCandidate,
       PointCheckpoint, SaveWeights, PublishCandidate, WriteFitManifest, CompleteFit

LEMMA FitResumptionStep ==
  ASSUME FrameTyped, Alone, FitTraining, FitResumption, [Next]_vars
  PROVE  FitResumption'
<1> DEFINE Resumable ==
             /\ losses' \in Nat
             /\ ~overlapped' /\ losses' = 0 =>
                  /\ torn' = NothingTorn /\ Bound(pointers', checkpoint')
                  /\ \A p \in Processes : Keeping(workers'[p], pointers')
<1> SUFFICES ASSUME kind \in Fits
             PROVE  Resumable
  <2>1. kind' = kind
    BY FrameStep
  <2> QED
    BY <2>1 DEF FitResumption, NothingTorn
<1>i. \A w, pointed : w.pc = "idle" => Keeping(w, pointed)
  BY DEF Keeping, Normalizing, Initializing
<1>0. /\ losses \in Nat
      /\ ~overlapped /\ losses = 0 =>
           /\ torn = NothingTorn /\ Bound(pointers, checkpoint)
           /\ \A p \in Processes : Keeping(workers[p], pointers)
      /\ Checkpointed(kind, Batches, checkpoint)
      /\ \A q \in Processes : Fitter(kind, Batches, workers[q])
  BY DEF FitResumption, FitTraining
<1>1. ASSUME NEW p \in Processes, Fitting(p) \/ Collecting(p) \/ Evaluating(p) \/ Stopping(p)
      PROVE  Resumable
  <2>1. FitStep(p) \/ Stopping(p)
    <3>1. workers[p].pc \in FitPlaces \union {"idle"}
      BY <1>0, FitterPlaces
    <3> QED
      BY <1>1, <3>1, OnlyFitting DEF Fitting
  <2>2. losses' = losses
    BY <2>1, FitLossless
  <2>3. ASSUME ~overlapped', losses' = 0
        PROVE  /\ torn' = NothingTorn /\ Bound(pointers', checkpoint')
               /\ \A q \in Processes : Keeping(workers'[q], pointers')
    <3>1. ~overlapped /\ losses = 0 /\ \A q \in Processes \ {p} : workers'[q].pc = "idle"
      BY <1>1, <2>2, <2>3, StepActs DEF Acts
    <3>2. /\ torn = NothingTorn /\ Bound(pointers, checkpoint)
          /\ Keeping(workers[p], pointers)
      BY <1>0, <3>1
    <3>3. /\ torn' = NothingTorn /\ Bound(pointers', checkpoint')
          /\ Keeping(workers'[p], pointers')
      <4>1. CASE FitStep(p)
        BY <1>0, <3>2, <4>1, FitKeeps
      <4>2. CASE Stopping(p)
        <5>1. torn' = torn /\ pointers' = pointers /\ checkpoint' = checkpoint
          BY <4>2 DEF Stopping
        <5>2. workers'[p] = Idle
          BY <4>2 DEF Stopping, FailStage, Crash, FrameTyped
        <5> QED
          BY <1>i, <3>2, <5>1, <5>2 DEF Idle
      <4> QED
        BY <2>1, <4>1, <4>2
    <3> QED
      BY <1>i, <3>1, <3>3
  <2> QED
    BY <1>0, <2>2, <2>3
<1>2. CASE PowerLoss
  <2>1. losses' \in Nat /\ losses' # 0
    BY <1>0, <1>2 DEF PowerLoss
  <2> QED
    BY <2>1
<1>3. CASE UNCHANGED vars
  <2>1. /\ losses' = losses /\ overlapped' = overlapped /\ torn' = torn
        /\ pointers' = pointers /\ checkpoint' = checkpoint /\ workers' = workers
    BY <1>3
  <2>2. Bound(pointers, checkpoint) => Bound(pointers', checkpoint')
    BY <2>1
  <2> QED
    BY <1>0, <2>1, <2>2
<1> HIDE DEF Resumable
<1> QED
  BY <1>1, <1>2, <1>3 DEF Next

LEMMA FitResumptionInit == Init => FitResumption
<1> SUFFICES ASSUME Init PROVE FitResumption
  OBVIOUS
<1>1. /\ losses = 0 /\ torn = NothingTorn /\ checkpoint = None
      /\ pointers = [normalizers |-> None, initializer |-> None]
      /\ \A p \in Processes : workers[p].pc = "idle"
  BY DEF Init, FrameInit, FitInit, NothingTorn, Idle
<1>2. Bound(pointers, checkpoint)
  BY <1>1 DEF Bound
<1> QED
  BY <1>1, <1>2 DEF FitResumption, Keeping, Normalizing, Initializing

-----------------------------------------------------------------------------
(* What a collection goes on from.                                          *)

\* Every checkpoint names a published shard, and those of a group the same.
Traced(saved, objects) ==
  /\ DOMAIN saved = Rows
  /\ \A r \in Rows : saved[r] # NoShard => Shard(PrefixGroup[r], saved[r]) \in objects
  /\ \A r, s \in Rows :
       PrefixGroup[r] = PrefixGroup[s] /\ saved[r] # NoShard /\ saved[s] # NoShard =>
         saved[r] = saved[s]

\* An attempt binds a group to no other shard than the checkpoints do, and to theirs
\* where it has read one.
Agrees(w, saved) ==
  w.pc # "idle" =>
    /\ w.pc # "refused" /\ w.row \in Nat \ {0}
    /\ \A r \in Rows : saved[r] # NoShard => w.assets[PrefixGroup[r]] \in {NoShard, saved[r]}
    /\ \A r \in Rows : saved[r] # NoShard /\ (w.pc = "scan" => r < w.row) =>
                         w.assets[PrefixGroup[r]] = saved[r]

CollectResumption ==
  kind = "collect" /\ ~overlapped =>
    /\ Traced(traceCheckpoints, shardObjects)
    /\ \A p \in Processes : Agrees(workers[p], traceCheckpoints)

LEMMA SplitRows ==
  /\ Rows = 1..Len(PrefixGroup) /\ Len(PrefixGroup) \in Nat
  /\ \A r \in Rows : r \in Nat \ {0} /\ PrefixGroup[r] \in Groups
<1>1. PrefixGroup \in Seq(Groups)
  BY StageAssumption, Zenon
<1> QED
  BY <1>1 DEF Rows

\* A lone attempt reads only what agrees with what it has read.
LEMMA ScanAgrees ==
  ASSUME FrameTyped, NEW p \in Processes, Collector(p),
         Traced(traceCheckpoints, shardObjects), Agrees(workers[p], traceCheckpoints),
         BeginCollect(p) \/ ScanRow(p) \/ ScanEnds(p)
  PROVE  Agrees(workers'[p], traceCheckpoints)
<1> DEFINE w == workers[p]  v == workers'[p]  saved == traceCheckpoints
<1>1. CASE BeginCollect(p)
  <2>1. Begin(p, {"collect"}, Changed(CollectIdle, [pc |-> "scan"]))
    BY <1>1 DEF BeginCollect
  <2>2. v.pc = "scan" /\ \A f \in DOMAIN CollectIdle \ {"pc", "attempt"} : v[f] = CollectIdle[f]
    BY <2>1, BeginChanges
  <2>3. v.row = 1 /\ v.assets = [g \in Groups |-> NoShard]
    BY <2>2 DEF CollectIdle
  <2>4. \A r \in Rows : v.assets[PrefixGroup[r]] = NoShard /\ ~(r < v.row)
    BY <2>3, SplitRows
  <2> QED
    BY <2>2, <2>3, <2>4 DEF Agrees
<1>2. ASSUME w.pc = "scan"
      PROVE  /\ {"pc", "row", "assets", "records"} \subseteq DOMAIN w
             /\ DOMAIN w.assets = Groups
             /\ w.row \in Nat \ {0}
             /\ \A r \in Rows : saved[r] # NoShard => w.assets[PrefixGroup[r]] \in {NoShard, saved[r]}
             /\ \A r \in Rows : saved[r] # NoShard /\ r < w.row => w.assets[PrefixGroup[r]] = saved[r]
  BY <1>2 DEF Collector, Agrees
<1>3. CASE ScanRow(p)
  <2> DEFINE found == saved[w.row]  group == PrefixGroup[w.row]
  <2>1. w.pc = "scan" /\ w.row \in Rows /\ group \in Groups
    BY <1>3, SplitRows DEF ScanRow, At
  <2>2. \A r \in Rows : r < w.row + 1 => r < w.row \/ r = w.row
    BY <2>1, SplitRows
  <2>3. CASE found = NoShard
    <3>1. Working(p, "scan", [row |-> w.row + 1])
      BY <1>3, <2>3 DEF ScanRow
    <3>2. v.row = w.row + 1 /\ v.pc = "scan" /\ v.assets = w.assets
      BY <1>2, <2>1, <3>1, WorkingFields
    <3>3. w.row + 1 \in Nat \ {0}
      BY <2>1, SplitRows
    <3>4. \A r \in Rows : saved[r] # NoShard /\ r < v.row => r < w.row
      BY <2>2, <2>3, <3>2
    <3> QED
      BY <1>2, <2>1, <3>2, <3>3, <3>4 DEF Agrees
  <2>4. CASE found # NoShard
    <3>1. Shard(group, found) \in shardObjects /\ w.assets[group] \in {NoShard, found}
      BY <1>2, <2>1, <2>4 DEF Traced
    <3>2. Working(p, "scan", [row |-> w.row + 1,
                              records |-> [w.records EXCEPT ![w.row] = found],
                              assets |-> [w.assets EXCEPT ![group] = found]])
      BY <1>3, <2>4, <3>1 DEF ScanRow
    <3>3. /\ v.row = w.row + 1 /\ v.pc = "scan"
          /\ v.assets = [w.assets EXCEPT ![group] = found]
      BY <1>2, <2>1, <3>2, WorkingFields
    <3>4. w.row + 1 \in Nat \ {0}
      BY <2>1, SplitRows
    <3>5. ASSUME NEW r \in Rows, saved[r] # NoShard
          PROVE  /\ v.assets[PrefixGroup[r]] \in {NoShard, saved[r]}
                 /\ r < v.row => v.assets[PrefixGroup[r]] = saved[r]
      <4>1. CASE PrefixGroup[r] = group
        <5>1. saved[r] = found
          BY <2>1, <2>4, <3>5, <4>1 DEF Traced
        <5> QED
          BY <1>2, <2>1, <3>3, <4>1, <5>1
      <4>2. CASE PrefixGroup[r] # group
        <5>1. v.assets[PrefixGroup[r]] = w.assets[PrefixGroup[r]] /\ r # w.row
          BY <1>2, <2>1, <3>3, <4>2, SplitRows
        <5>2. r < v.row => r < w.row
          BY <2>2, <3>3, <5>1
        <5> QED
          BY <1>2, <2>1, <3>5, <5>1, <5>2
      <4> QED
        BY <4>1, <4>2
    <3> QED
      BY <3>3, <3>4, <3>5 DEF Agrees
  <2> QED
    BY <2>3, <2>4
<1>4. CASE ScanEnds(p)
  <2>1. w.pc = "scan" /\ w.row \notin Rows /\ Working(p, "scan", [pc |-> "collect"])
    BY <1>4 DEF ScanEnds, At
  <2>2. v.pc = "collect" /\ v.row = w.row /\ v.assets = w.assets
    BY <1>2, <2>1, WorkingFields
  <2>3. \A r \in Rows : r < w.row
    BY <1>2, <2>1, SplitRows
  <2> QED
    BY <1>2, <2>1, <2>2, <2>3 DEF Agrees
<1> QED
  BY <1>1, <1>3, <1>4

LEMMA CollectorFields ==
  ASSUME FrameTyped, NEW p \in Processes, {"row", "assets"} \subseteq DOMAIN workers[p],
         NEW at, NEW to, NEW assets
  PROVE  /\ Working(p, at, [pc |-> to]) =>
              /\ workers'[p].pc = to /\ workers'[p].row = workers[p].row
              /\ workers'[p].assets = workers[p].assets
         /\ Working(p, at, [pc |-> to, assets |-> assets]) =>
              /\ workers'[p].pc = to /\ workers'[p].row = workers[p].row
              /\ workers'[p].assets = assets
<1>1. CASE Working(p, at, [pc |-> to])
  BY <1>1, WorkingFields
<1>2. CASE Working(p, at, [pc |-> to, assets |-> assets])
  BY <1>2, WorkingFields
<1> QED
  BY <1>1, <1>2

\* It collects no second shard for a group, and saves the one that it has published.
LEMMA CollectAgrees ==
  ASSUME FrameTyped, NEW p \in Processes, Collector(p), Collects(p),
         Traced(traceCheckpoints, shardObjects), Agrees(workers[p], traceCheckpoints),
         \/ CollectShard(p) \/ PublishShard(p) \/ WriteTraceCheckpoint(p)
         \/ WriteTraceManifest(p) \/ CompleteCollect(p)
  PROVE  Traced(traceCheckpoints', shardObjects') /\ Agrees(workers'[p], traceCheckpoints')
<1> DEFINE w == workers[p]  v == workers'[p]  saved == traceCheckpoints
<1>0. ASSUME w.pc \in {"collect", "publish shard"}
      PROVE  /\ {"pc", "row", "assets", "records"} \subseteq DOMAIN w
             /\ DOMAIN w.assets = Groups /\ w.row \in Nat \ {0}
             /\ \A g \in Groups : w.assets[g] # NoShard => Shard(g, w.assets[g]) \in shardObjects
             /\ \A r \in Rows : saved[r] # NoShard => w.assets[PrefixGroup[r]] = saved[r]
  BY <1>0 DEF Collector, Agrees
<1>1. CASE CollectShard(p) \/ WriteTraceManifest(p)
  <2>1. /\ w.pc = "collect" /\ UNCHANGED <<shardObjects, traceCheckpoints>>
        /\ \E to \in {"publish shard", "complete"} : Working(p, "collect", [pc |-> to])
    BY <1>1 DEF CollectShard, WriteTraceManifest, At
  <2>2. PICK to \in {"publish shard", "complete"} : Working(p, "collect", [pc |-> to])
    BY <2>1
  <2>3. v.pc = to /\ v.row = w.row /\ v.assets = w.assets
    BY <1>0, <2>1, <2>2, CollectorFields
  <2> QED
    BY <1>0, <2>1, <2>3 DEF Agrees
<1>2. CASE PublishShard(p)
  <2> DEFINE group == PrefixGroup[NextMissing(p)]
  <2>1. /\ w.pc = "publish shard" /\ traceCheckpoints' = traceCheckpoints
        /\ shardObjects \subseteq shardObjects'
        /\ w.assets[group] = NoShard
    BY <1>2 DEF PublishShard, At, Collects, MustCollect
  <2> DEFINE bound == [w.assets EXCEPT ![group] = shardFile[group]]
  <2>2. Working(p, "publish shard", [pc |-> "collect", assets |-> bound])
    BY <1>2 DEF PublishShard
  <2> HIDE DEF bound
  <2>w. {"row", "assets"} \subseteq DOMAIN w
    BY <1>0, <2>1
  <2>3. v.pc = "collect" /\ v.assets = bound /\ v.row = w.row
    BY <2>2, <2>w, CollectorFields
  <2>4. \A r \in Rows : saved[r] # NoShard => PrefixGroup[r] # group
    BY <1>0, <2>1
  <2>5. \A r \in Rows : saved[r] # NoShard => v.assets[PrefixGroup[r]] = saved[r]
    BY <1>0, <2>1, <2>3, <2>4, SplitRows DEF bound
  <2>6. Traced(traceCheckpoints', shardObjects')
    BY <2>1 DEF Traced
  <2> QED
    BY <1>0, <2>1, <2>3, <2>5, <2>6 DEF Agrees
<1>3. CASE WriteTraceCheckpoint(p)
  <2> DEFINE row == NextMissing(p)  bytes == w.assets[PrefixGroup[row]]
             later == traceCheckpoints'
  <2>1. /\ w.pc = "collect" /\ shardObjects' = shardObjects
        /\ later = [saved EXCEPT ![row] = bytes] /\ bytes # NoShard
        /\ Working(p, "collect", [records |-> [w.records EXCEPT ![row] = bytes]])
    BY <1>3 DEF WriteTraceCheckpoint, At, MustCollect
  <2>2. v.pc = "collect" /\ v.row = w.row /\ v.assets = w.assets
    BY <1>0, <2>1, WorkingFields
  <2>3. DOMAIN saved = Rows
    BY DEF Traced
  <2>4. \A r \in Rows : later[r] # NoShard => w.assets[PrefixGroup[r]] = later[r]
    BY <1>0, <2>1, <2>3
  <2>5. \A r \in Rows : later[r] # NoShard => Shard(PrefixGroup[r], later[r]) \in shardObjects
    BY <1>0, <2>1, <2>4, SplitRows
  <2>6. Traced(later, shardObjects')
    BY <2>1, <2>3, <2>4, <2>5 DEF Traced
  <2>7. Agrees(v, later)
    BY <1>0, <2>1, <2>2, <2>4 DEF Agrees
  <2> QED
    BY <2>6, <2>7
<1>4. CASE CompleteCollect(p)
  <2>1. v.pc = "idle" /\ UNCHANGED <<shardObjects, traceCheckpoints>>
    BY <1>4 DEF CompleteCollect, Finish, FrameTyped, Idle
  <2> QED
    BY <2>1 DEF Agrees
<1> QED
  BY <1>1, <1>2, <1>3, <1>4

LEMMA CollectResumptionStep ==
  ASSUME FrameTyped, Alone, CollectInv, CollectResumption, [Next]_vars
  PROVE  CollectResumption'
<1> SUFFICES ASSUME kind = "collect", ~overlapped'
             PROVE  /\ Traced(traceCheckpoints', shardObjects')
                    /\ \A q \in Processes : Agrees(workers'[q], traceCheckpoints')
  <2>1. kind' = kind
    BY FrameStep
  <2> QED
    BY <2>1 DEF CollectResumption, Traced, Agrees
<1>i. \A w, saved : w.pc = "idle" => Agrees(w, saved)
  BY DEF Agrees
<1>1. ASSUME NEW p \in Processes, Fitting(p) \/ Collecting(p) \/ Evaluating(p) \/ Stopping(p)
      PROVE  /\ Traced(traceCheckpoints', shardObjects')
             /\ \A q \in Processes : Agrees(workers'[q], traceCheckpoints')
  <2>1. Collector(p) /\ Collects(p) /\ workers[p].pc \in CollectPlaces
    BY DEF CollectInv, Collector
  <2>2. CollectStep(p) \/ Stopping(p)
    BY <1>1, <2>1, OnlyCollecting DEF Collecting
  <2>3. ~overlapped /\ \A q \in Processes \ {p} : workers'[q].pc = "idle"
    BY <1>1, StepActs DEF Acts
  <2>4. Traced(traceCheckpoints, shardObjects) /\ Agrees(workers[p], traceCheckpoints)
    BY <2>3 DEF CollectResumption
  <2>5. Traced(traceCheckpoints', shardObjects') /\ Agrees(workers'[p], traceCheckpoints')
    <3>1. CASE BeginCollect(p) \/ ScanRow(p) \/ ScanEnds(p)
      <4>1. UNCHANGED <<traceCheckpoints, shardObjects>>
        BY <3>1 DEF BeginCollect, ScanRow, ScanEnds
      <4> QED
        BY <2>1, <2>4, <3>1, <4>1, ScanAgrees
    <3>2. CASE \/ CollectShard(p) \/ PublishShard(p) \/ WriteTraceCheckpoint(p)
               \/ WriteTraceManifest(p) \/ CompleteCollect(p)
      BY <2>1, <2>4, <3>2, CollectAgrees
    <3>3. CASE Stopping(p)
      <4>1. UNCHANGED <<traceCheckpoints, shardObjects>> /\ workers'[p].pc = "idle"
        BY <3>3, StopKeepsCollection
      <4> QED
        BY <1>i, <2>4, <4>1
    <3> QED
      BY <2>2, <3>1, <3>2, <3>3 DEF CollectStep
  <2> QED
    BY <1>i, <2>3, <2>5
<1>2. CASE PowerLoss
  BY <1>2 DEF PowerLoss, Fits
<1>3. CASE UNCHANGED vars
  <2>1. /\ overlapped' = overlapped /\ shardObjects' = shardObjects
        /\ traceCheckpoints' = traceCheckpoints /\ workers' = workers
    BY <1>3
  <2> QED
    BY <2>1 DEF CollectResumption
<1> QED
  BY <1>1, <1>2, <1>3 DEF Next

LEMMA CollectResumptionInit == Init => CollectResumption
<1> SUFFICES ASSUME Init PROVE CollectResumption
  OBVIOUS
<1>1. /\ traceCheckpoints = [r \in Rows |-> NoShard]
      /\ \A p \in Processes : workers[p].pc = "idle"
  BY DEF Init, FrameInit, CollectInit, Idle
<1>2. Traced(traceCheckpoints, shardObjects)
  BY <1>1 DEF Traced
<1>3. \A p \in Processes : Agrees(workers[p], traceCheckpoints)
  BY <1>1 DEF Agrees
<1> QED
  BY <1>2, <1>3 DEF CollectResumption
===============================================================================
