---------------------------- MODULE EvaluationProofs ----------------------------
(***************************************************************************)
(* Safety of the stages that evaluate a split row by row, the runtime      *)
(* audit among them, for every split, any number of processes, attempts    *)
(* and resends, and whatever is measured: what the audit's context manager *)
(* takes down, at whatever step an exception meets it; what the telemetry  *)
(* that it has confirmed amounts to; what the history of a row is counted  *)
(* from; and that every stage goes on from what its attempts have saved.   *)
(***************************************************************************)
EXTENDS V5StagesProofs

USE DEF vars, frame, fitFiles, collectFiles, auditFiles, evaluationFiles

-----------------------------------------------------------------------------
(* The services of the runtime audit.                                      *)

Services == {"server", "collector", "engine", "writer"}
Concluding == {"conclude", "report", "hash report", "artifact", "bind artifact", "manifest", "publish"}
Entered ==
  {"bind evidence", "unbound", "start server", "start collector", "start engine", "start writer",
   "load models", "prepare prefixes", "warm up", "await", "drain warmup", "evaluate", "measure",
   "save sample", "noncausal", "drain probe", "refused"}
AuditPlaces == Entered \union {"await server"} \union Closing \union Concluding \union {"raised", "rejected"}

(* What runs is held by a field of the evaluator, or its stop has raised;  *)
(* only while the server is awaited is it held by start itself. _close     *)
(* lets go of one service after the other.                                 *)
Served(w) ==
  /\ w.pc \in AuditPlaces
  /\ {"pc", "held", "running", "stuck", "failing"} \subseteq DOMAIN w
  /\ w.failing \in BOOLEAN /\ w.held \subseteq Services
  /\ w.pc \in Entered => w.running \subseteq w.held
  /\ w.pc = "await server" => w.running \subseteq {"server"}
  /\ w.pc \in Closing => w.running \subseteq w.held \union w.stuck
  /\ w.pc \in Closing \ {"close engine"} => "engine" \notin w.held
  /\ w.pc \in {"close writer", "close server", "closed"} => "collector" \notin w.held
  /\ w.pc \in {"close server", "closed"} => "writer" \notin w.held
  /\ w.pc = "closed" => "server" \notin w.held
  /\ w.pc \in Concluding \union {"raised", "rejected"} => w.running \subseteq w.stuck
  /\ w.pc \in Concluding \union {"rejected"} => w.stuck = {}

(* The steps after the evaluator follow the stage's course to its end; an  *)
(* attempt that fails has lost its course.                                 *)
OnCourse(w) ==
  /\ w.pc \in Entered \union {"await server"} => w.failing = FALSE
  /\ w.pc \in Entered \union Closing \union {"await server"} /\ w.failing = FALSE =>
       "course" \in DOMAIN w /\ w.course = AuditCourse
  /\ w.pc \in Concluding =>
       /\ "course" \in DOMAIN w
       /\ \E i \in 1..7 : w.pc = AuditCourse[i] /\ w.course = SubSeq(AuditCourse, i + 1, 7)
  /\ w.pc = "await" => "after" \in DOMAIN w /\ w.after \in Entered \ {"refused"}

Auditor(w) == w.pc = "idle" \/ (Served(w) /\ OnCourse(w))

AuditInv == kind = "runtime_audit" => \A p \in Processes : Auditor(workers[p])

\* What a step that changes nothing of these fields leaves.
Keeps(w, v, fields) ==
  /\ DOMAIN w \subseteq DOMAIN v
  /\ \A f \in DOMAIN w \intersect fields : v[f] = w[f]

Kept == {"held", "running", "stuck", "failing", "course"}

LEMMA CourseGoesOn ==
  /\ Head(AuditCourse) = AuditCourse[1] /\ Tail(AuditCourse) = SubSeq(AuditCourse, 2, 7)
  /\ \A i \in 1..6 : LET rest == SubSeq(AuditCourse, i + 1, 7)
                     IN  Head(rest) = AuditCourse[i + 1] /\ Tail(rest) = SubSeq(AuditCourse, i + 2, 7)
  /\ \A i \in 1..7 : AuditCourse[i] \in Concluding
  /\ AuditCourse[7] = "publish" /\ DOMAIN AuditCourse = 1..7
<1>1. /\ AuditCourse[1] = "conclude" /\ AuditCourse[2] = "report"
      /\ AuditCourse[3] = "hash report" /\ AuditCourse[4] = "artifact"
      /\ AuditCourse[5] = "bind artifact" /\ AuditCourse[6] = "manifest"
      /\ AuditCourse[7] = "publish"
  BY DEF AuditCourse
<1>2. \A i \in 1..7 : AuditCourse[i] \in Concluding
  <2> TAKE i \in 1..7
  <2>1. i = 1 \/ i = 2 \/ i = 3 \/ i = 4 \/ i = 5 \/ i = 6 \/ i = 7
    OBVIOUS
  <2> QED
    BY <1>1, <2>1 DEF Concluding
<1>3. AuditCourse \in Seq(Concluding)
  BY DEF AuditCourse, Concluding
<1>l. Len(AuditCourse) = 7
  BY DEF AuditCourse
<1>d. DOMAIN AuditCourse = 1..7
  BY <1>3, <1>l
<1>4. Head(AuditCourse) = AuditCourse[1] /\ Tail(AuditCourse) = SubSeq(AuditCourse, 2, 7)
  <2>1. 1 \in 1..Len(AuditCourse) /\ 7 \in 1..Len(AuditCourse) /\ 1 + 1 = 2
    BY <1>l
  <2>2. AuditCourse = SubSeq(AuditCourse, 1, 7)
    BY <1>3, <1>l, SubSeqFull
  <2>3. /\ Head(SubSeq(AuditCourse, 1, 7)) = AuditCourse[1]
        /\ Tail(SubSeq(AuditCourse, 1, 7)) = SubSeq(AuditCourse, 1 + 1, 7)
    BY <1>3, <2>1, HeadTailOfSubSeq
  <2> QED
    BY <2>1, <2>2, <2>3
<1>5. ASSUME NEW i \in 1..6
      PROVE  LET rest == SubSeq(AuditCourse, i + 1, 7)
             IN  Head(rest) = AuditCourse[i + 1] /\ Tail(rest) = SubSeq(AuditCourse, i + 2, 7)
  <2>1. i + 1 \in 1..Len(AuditCourse) /\ 7 \in i + 1..Len(AuditCourse) /\ i + 2 = (i + 1) + 1
    BY <1>l
  <2> QED
    BY <1>3, <2>1, HeadTailOfSubSeq
<1> QED
  BY <1>1, <1>2, <1>4, <1>5, <1>d

\* An audit takes no steps of the other families.
LEMMA OnlyAuditing ==
  ASSUME kind = "runtime_audit", NEW p, workers[p].pc \in AuditPlaces \union {"idle"}
  PROVE  ~Fitting(p) /\ ~Collecting(p) /\ (Evaluating(p) => EvaluationStep(p) \/ AuditStep(p))
<1> DEFINE pc == workers[p].pc
<1>p. /\ pc \notin {"normalizers", "point normalizers", "initializer", "point initializer",
                    "restore", "train", "save", "weights", "publish candidates",
                    "publish manifest"}
      /\ pc \notin {"scan", "collect", "publish shard", "complete"}
  BY DEF AuditPlaces, Entered, Closing, Concluding
<1> HIDE DEF pc
<1>w. \A at, changes : Working(p, at, changes) => pc = at
  BY WorkingAt DEF pc
<1>a. \A at : At(p, at) => pc = at
  BY DEF At, pc
<1>1. ~FitStep(p)
  <2>1. ~BeginFit(p) /\ ~BeginFrozenDirection(p)
    BY DEF BeginFit, BeginFrozenDirection, Begin
  <2>2. ~LoadNormalizers(p) /\ ~FitNormalizers(p) /\ ~PointNormalizers(p)
    BY <1>p, <1>w DEF LoadNormalizers, FitNormalizers, PointNormalizers
  <2>3. ~LoadInitializer(p) /\ ~FitInitializer(p) /\ ~PointInitializer(p) /\ ~Restore(p)
    BY <1>p, <1>w DEF LoadInitializer, FitInitializer, PointInitializer, Restore
  <2>4. ~NextBatch(p) /\ ~TrainRecord(p) /\ ~TrainSegment(p)
    BY <1>p, <1>a DEF NextBatch, TrainRecord, TrainSegment
  <2>5. ~StepAfterRecords(p) /\ ~StepAfterSegments(p)
    BY <1>p, <1>a DEF StepAfterRecords, StepAfterSegments
  <2>6. ~SaveCandidate(p) /\ ~PointCheckpoint(p) /\ ~SaveWeights(p) /\ ~PublishCandidate(p)
    BY <1>p, <1>a DEF SaveCandidate, PointCheckpoint, SaveWeights, PublishCandidate
  <2>7. ~WriteFitManifest(p) /\ ~CompleteFit(p)
    BY <1>p, <1>a DEF WriteFitManifest, CompleteFit
  <2> QED
    BY <2>1, <2>2, <2>3, <2>4, <2>5, <2>6, <2>7 DEF FitStep
<1>2. ~CollectStep(p)
  <2>1. ~BeginCollect(p) /\ ~ScanRow(p) /\ ~ScanEnds(p) /\ ~CollectShard(p)
    BY <1>p, <1>a DEF BeginCollect, Begin, ScanRow, ScanEnds, CollectShard
  <2>2. ~PublishShard(p) /\ ~WriteTraceCheckpoint(p) /\ ~WriteTraceManifest(p) /\ ~CompleteCollect(p)
    BY <1>p, <1>a DEF PublishShard, WriteTraceCheckpoint, WriteTraceManifest, CompleteCollect
  <2> QED
    BY <2>1, <2>2 DEF CollectStep
<1> USE DEF Begin, Open, EnterEvaluator, RestoreRow, MeasureRow, AtRow, AfterRows, Conclude,
            WriteArtifact, WriteManifest
<1>3. ~RiskFitStep(p) /\ ~CalibrationStep(p)
  <2>1. ~RiskFitStep(p)
    BY DEF RiskFitStep, BeginRiskFit, EnterRiskFit, RestoreRiskExample, MeasureRiskExample,
           FitPredictor, SavePredictor, WriteRiskManifest
  <2>2. ~CalibrationStep(p)
    BY DEF CalibrationStep, BeginCalibration, EnterCalibration, RestoreCalibration,
           MeasureCalibration, SelectThreshold, WriteCalibrationManifest
  <2> QED
    BY <2>1, <2>2
<1>4. ~ValidationStep(p) /\ ~SemanticStep(p) /\ ~MethodDevStep(p)
  <2>1. ~ValidationStep(p)
    BY DEF ValidationStep, BeginValidation, EnterValidation, RestoreValidation,
           MeasureValidation, ConcludeValidation, ConcludeSelective, WriteCandidate,
           WriteValidationManifest
  <2>2. ~SemanticStep(p)
    BY DEF SemanticStep, BeginSemantic, EnterSemantic, RestoreSemantic, MeasureSemantic,
           ConcludeSemantic, ConcludeSelective, WriteSemanticApproved, WriteSemanticManifest
  <2>3. ~MethodDevStep(p)
    BY DEF MethodDevStep, BeginMethodDev, EnterMethodDev, RestoreMethodDev, MeasureMethodDev,
           FreezeStructure, WriteStructure
  <2> QED
    BY <2>1, <2>2, <2>3
<1> QED
  BY <1>1, <1>2, <1>3, <1>4 DEF Fitting, Collecting, Evaluating

\* The changes leave the fields alone that the services and the course are in.
LEMMA QuietStep ==
  ASSUME FrameTyped, NEW p \in Processes, NEW pc, NEW changes, Working(p, pc, changes),
         \A f \in Kept : f \notin DOMAIN changes, "pc" \in DOMAIN workers[p]
  PROVE  /\ workers[p].pc = pc /\ Keeps(workers[p], workers'[p], Kept)
         /\ workers'[p].pc = IF "pc" \in DOMAIN changes THEN changes.pc ELSE pc
         /\ DOMAIN changes \subseteq DOMAIN workers'[p]
         /\ \A f \in DOMAIN changes : workers'[p][f] = changes[f]
         /\ \A f \in DOMAIN workers[p] \ DOMAIN changes : workers'[p][f] = workers[p][f]
<1>1. /\ workers[p].pc = pc
      /\ DOMAIN workers'[p] = DOMAIN workers[p] \union DOMAIN changes
      /\ \A f \in DOMAIN changes : workers'[p][f] = changes[f]
      /\ \A f \in DOMAIN workers[p] \ DOMAIN changes : workers'[p][f] = workers[p][f]
  BY WorkingFields
<1>2. Keeps(workers[p], workers'[p], Kept)
  BY <1>1 DEF Keeps
<1> QED
  BY <1>1, <1>2

LEMMA OnlyMoves ==
  ASSUME NEW at
  PROVE  /\ DOMAIN [pc |-> at] = {"pc"} /\ [pc |-> at].pc = at
         /\ \A f \in Kept : f \notin DOMAIN [pc |-> at]
BY DEF Kept

LEMMA MoveStep ==
  ASSUME FrameTyped, NEW p \in Processes, NEW from, NEW to, Working(p, from, [pc |-> to]),
         "pc" \in DOMAIN workers[p]
  PROVE  workers[p].pc = from /\ workers'[p].pc = to /\ Keeps(workers[p], workers'[p], Kept)
<1> DEFINE changes == [pc |-> to]
<1>1. DOMAIN changes = {"pc"} /\ changes.pc = to /\ \A f \in Kept : f \notin DOMAIN changes
  BY OnlyMoves
<1>2. Working(p, from, changes)
  OBVIOUS
<1> HIDE DEF changes
<1> QED
  BY <1>1, <1>2, QuietStep

(* What such a step keeps, by where it goes.                               *)

LEMMA EntersOn ==
  ASSUME NEW w, NEW v, Served(w), OnCourse(w), w.pc \in Entered, v.pc \in Entered,
         Keeps(w, v, Kept), v.pc = "await" => "after" \in DOMAIN v /\ v.after \in Entered \ {"refused"}
  PROVE  Served(v) /\ OnCourse(v)
<1>1. /\ v.pc \in AuditPlaces /\ v.pc # "await server" /\ v.pc \notin Closing
      /\ v.pc \notin Concluding \union {"raised", "rejected"}
      /\ v.pc \notin {"close writer", "close server", "closed"}
  BY DEF AuditPlaces, Entered, Closing, Concluding
<1>2. /\ {"pc", "held", "running", "stuck", "failing", "course"} \subseteq DOMAIN w
      /\ w.running \subseteq w.held /\ w.held \subseteq Services
      /\ w.failing = FALSE /\ w.course = AuditCourse
  BY DEF Served, OnCourse
<1>3. /\ {"pc", "held", "running", "stuck", "failing", "course"} \subseteq DOMAIN v
      /\ v.running = w.running /\ v.held = w.held /\ v.failing = w.failing /\ v.course = w.course
  BY <1>2 DEF Keeps, Kept
<1>4. v.failing = FALSE
  BY <1>2, <1>3
<1>5. v.failing \in BOOLEAN
  BY <1>4
<1>6. Served(v)
  BY <1>1, <1>2, <1>3, <1>5 DEF Served
<1>7. OnCourse(v)
  BY <1>1, <1>2, <1>3, <1>4 DEF OnCourse
<1> QED
  BY <1>6, <1>7

LEMMA StaysThere ==
  ASSUME NEW w, NEW v, Served(w), OnCourse(w), v.pc = w.pc, Keeps(w, v, Kept \union {"after"})
  PROVE  Served(v) /\ OnCourse(v)
<1>1. /\ {"pc", "held", "running", "stuck", "failing"} \subseteq DOMAIN v
      /\ v.running = w.running /\ v.held = w.held /\ v.failing = w.failing /\ v.stuck = w.stuck
      /\ "course" \in DOMAIN w => "course" \in DOMAIN v /\ v.course = w.course
      /\ "after" \in DOMAIN w => "after" \in DOMAIN v /\ v.after = w.after
  BY DEF Served, Keeps, Kept
<1>2. Served(v)
  BY <1>1 DEF Served
<1>3. OnCourse(v)
  BY <1>1 DEF OnCourse
<1> QED
  BY <1>2, <1>3

LEMMA GoesOn ==
  ASSUME NEW w, NEW v, Served(w), OnCourse(w), w.pc \in Concluding \ {"publish"},
         v.pc = Head(w.course), "course" \in DOMAIN v, v.course = Tail(w.course),
         Keeps(w, v, Kept \ {"course"})
  PROVE  Served(v) /\ OnCourse(v)
<1>1. PICK i \in 1..7 : w.pc = AuditCourse[i] /\ w.course = SubSeq(AuditCourse, i + 1, 7)
  BY DEF OnCourse
<1>2. i \in 1..6
  BY <1>1, CourseGoesOn
<1>3. /\ i + 1 \in 1..7 /\ (i + 1) + 1 = i + 2
      /\ v.pc = AuditCourse[i + 1] /\ v.course = SubSeq(AuditCourse, i + 2, 7)
  BY <1>1, <1>2, CourseGoesOn
<1>4. v.pc \in Concluding
  BY <1>3, CourseGoesOn
<1>5. /\ v.pc \in AuditPlaces /\ v.pc \notin Entered /\ v.pc # "await server" /\ v.pc \notin Closing
      /\ v.pc \notin {"close writer", "close server", "closed"} /\ v.pc # "await"
  BY <1>4 DEF AuditPlaces, Entered, Closing, Concluding
<1>6. /\ {"pc", "held", "running", "stuck", "failing"} \subseteq DOMAIN v
      /\ v.running = w.running /\ v.held = w.held /\ v.failing = w.failing /\ v.stuck = w.stuck
  BY DEF Served, Keeps, Kept
<1>7. Served(v)
  BY <1>4, <1>5, <1>6 DEF Served
<1>8. OnCourse(v)
  BY <1>3, <1>4, <1>5 DEF OnCourse
<1> QED
  BY <1>7, <1>8

LEMMA IsRejected ==
  ASSUME NEW w, NEW v, Served(w), w.pc \in Concluding, v.pc = "rejected", Keeps(w, v, Kept)
  PROVE  Served(v) /\ OnCourse(v)
<1>1. /\ {"pc", "held", "running", "stuck", "failing"} \subseteq DOMAIN v
      /\ v.running = w.running /\ v.held = w.held /\ v.failing = w.failing /\ v.stuck = w.stuck
  BY DEF Served, Keeps, Kept
<1>2. Served(v)
  BY <1>1 DEF Served, AuditPlaces, Entered, Closing, Concluding
<1>3. OnCourse(v)
  BY DEF OnCourse, Entered, Closing, Concluding
<1> QED
  BY <1>2, <1>3

LEMMA OnwardStep ==
  ASSUME FrameTyped, NEW p \in Processes, NEW pc, NEW changes, Working(p, pc, changes),
         pc \in Concluding \ {"publish"}, Auditor(workers[p]),
         {"pc", "course"} \subseteq DOMAIN changes,
         \A f \in Kept \ {"course"} : f \notin DOMAIN changes,
         changes.pc = Head(workers[p].course), changes.course = Tail(workers[p].course)
  PROVE  Auditor(workers'[p])
<1>1. /\ workers[p].pc = pc
      /\ DOMAIN workers'[p] = DOMAIN workers[p] \union DOMAIN changes
      /\ \A f \in DOMAIN changes : workers'[p][f] = changes[f]
      /\ \A f \in DOMAIN workers[p] \ DOMAIN changes : workers'[p][f] = workers[p][f]
  BY WorkingFields
<1>2. Keeps(workers[p], workers'[p], Kept \ {"course"})
  BY <1>1 DEF Keeps, Kept
<1>3. Served(workers[p]) /\ OnCourse(workers[p])
  BY <1>1 DEF Auditor, Concluding
<1>4. /\ workers'[p].pc = Head(workers[p].course) /\ "course" \in DOMAIN workers'[p]
      /\ workers'[p].course = Tail(workers[p].course)
  BY <1>1
<1> QED
  BY <1>1, <1>2, <1>3, <1>4, GoesOn DEF Auditor

\* The steps after the evaluator, and the saving of a sample.
LEMMA EvaluationAuditor ==
  ASSUME FrameTyped, kind = "runtime_audit", NEW p \in Processes, Auditor(workers[p]),
         EvaluationStep(p)
  PROVE  Auditor(workers'[p])
<1> DEFINE w == workers[p]  v == workers'[p]
<1>o. /\ DOMAIN Onward(p) = {"pc", "course"}
      /\ Onward(p).pc = Head(w.course) /\ Onward(p).course = Tail(w.course)
  BY DEF Onward
<1>1. CASE SaveSample(p)
  <2> DEFINE changes == Changed(TakenUp(p, w.example), [pc |-> "evaluate", example |-> None])
  <2>1. /\ DOMAIN changes = {"row", "measured", "histories", "pc", "example"}
        /\ changes.pc = "evaluate"
    BY DEF Changed, TakenUp
  <2>2. Working(p, "save sample", changes)
    BY <1>1 DEF SaveSample
  <2>3. w.pc = "save sample" /\ Served(w) /\ OnCourse(w)
    BY <2>2, WorkingAt DEF Auditor
  <2> HIDE DEF changes
  <2>4. v.pc = "evaluate" /\ Keeps(w, v, Kept)
    BY <2>1, <2>2, <2>3, QuietStep DEF Kept, Served
  <2> QED
    BY <2>3, <2>4, EntersOn DEF Auditor, Entered
<1>2. CASE EndSamples(p)
  BY <1>2 DEF EndSamples, AfterRows
<1>3. CASE WriteReport(p)
  <2>1. Working(p, "report", Onward(p))
    BY <1>3 DEF WriteReport
  <2> QED
    BY <1>o, <2>1, OnwardStep DEF Concluding, Kept
<1>4. CASE HashReport(p)
  <2> DEFINE changes == Changed(Onward(p), [reported |-> report])
  <2>1. Working(p, "hash report", changes)
    BY <1>4 DEF HashReport
  <2>2. /\ DOMAIN changes = {"pc", "course", "reported"}
        /\ changes.pc = Head(w.course) /\ changes.course = Tail(w.course)
    BY <1>o DEF Changed
  <2> HIDE DEF changes
  <2> QED
    BY <2>1, <2>2, OnwardStep DEF Concluding, Kept
<1>5. CASE BindArtifact(p)
  <2> DEFINE changes == Changed(Onward(p), [bound |-> artifact])
  <2>1. Working(p, "bind artifact", changes)
    BY <1>5 DEF BindArtifact
  <2>2. /\ DOMAIN changes = {"pc", "course", "bound"}
        /\ changes.pc = Head(w.course) /\ changes.course = Tail(w.course)
    BY <1>o DEF Changed
  <2> HIDE DEF changes
  <2> QED
    BY <2>1, <2>2, OnwardStep DEF Concluding, Kept
<1>6. CASE PublishOutput(p)
  <2> DEFINE changes == [objects |-> Append(w.objects, OutputFiles[Len(w.objects) + 1])]
  <2>1. Working(p, "publish", changes) /\ DOMAIN changes = {"objects"}
    BY <1>6 DEF PublishOutput
  <2>2. w.pc = "publish" /\ Served(w) /\ OnCourse(w)
    BY <2>1, WorkingAt DEF Auditor
  <2> HIDE DEF changes
  <2>3. v.pc = "publish" /\ Keeps(w, v, Kept \union {"after"})
    BY <2>1, <2>2, WorkingFields DEF Kept, Served, Keeps
  <2> QED
    BY <2>2, <2>3, StaysThere DEF Auditor
<1>7. CASE CompleteEvaluation(p)
  BY <1>7 DEF CompleteEvaluation, Finish, FrameTyped, Idle, Auditor
<1> QED
  BY <1>1, <1>2, <1>3, <1>4, <1>5, <1>6, <1>7 DEF EvaluationStep

\* The steps of __enter__ and __exit__.
LEMMA ServiceAuditor ==
  ASSUME FrameTyped, kind = "runtime_audit", NEW p \in Processes, Auditor(workers[p]),
         ServiceStep(p)
  PROVE  Auditor(workers'[p])
<1> DEFINE w == workers[p]  v == workers'[p]
<1>1. CASE LoadBindings(p)
  <2>1. PICK at \in {"start server", "unbound"} : Working(p, "bind evidence", [pc |-> at])
    BY <1>1 DEF LoadBindings
  <2>2. w.pc = "bind evidence" /\ Served(w) /\ OnCourse(w)
    BY <2>1, WorkingAt DEF Auditor
  <2>3. v.pc \in {"start server", "unbound"} /\ Keeps(w, v, Kept)
    BY <2>1, <2>2, MoveStep DEF Served
  <2> QED
    BY <2>2, <2>3, EntersOn DEF Auditor, Entered
<1>2. CASE LaunchServer(p)
  <2>1. v = Changed(w, [pc |-> "await server", running |-> {"server"}]) /\ w.pc = "start server"
    BY <1>2, MoveChanges DEF LaunchServer, Working, At
  <2>2. Served(w) /\ OnCourse(w)
    BY <2>1 DEF Auditor
  <2>a. /\ {"pc", "held", "running", "stuck", "failing", "course"} \subseteq DOMAIN w
        /\ w.failing = FALSE /\ w.course = AuditCourse /\ w.held \subseteq Services
    BY <2>1, <2>2 DEF Served, OnCourse, Entered
  <2> HIDE DEF w, v
  <2>3. v.pc = "await server" /\ v.running = {"server"}
    BY <2>1 DEF Changed
  <2>4. /\ {"pc", "held", "running", "stuck", "failing", "course"} \subseteq DOMAIN v
        /\ v.held = w.held /\ v.failing = FALSE /\ v.course = AuditCourse /\ w.held \subseteq Services
    BY <2>1, <2>a DEF Changed
  <2>5. Served(v)
    BY <2>3, <2>4 DEF Served, AuditPlaces, Entered, Closing, Concluding
  <2>6. OnCourse(v)
    BY <2>3, <2>4 DEF OnCourse, Entered, Closing, Concluding
  <2> QED
    BY <2>5, <2>6 DEF Auditor, v
<1>3. CASE ServerReady(p)
  <2>1. v = Changed(w, [pc |-> "start collector", held |-> {"server"}]) /\ w.pc = "await server"
    BY <1>3, MoveChanges DEF ServerReady, Working, At
  <2>2. Served(w) /\ OnCourse(w)
    BY <2>1 DEF Auditor
  <2>a. /\ {"pc", "held", "running", "stuck", "failing", "course"} \subseteq DOMAIN w
        /\ w.failing = FALSE /\ w.course = AuditCourse /\ w.running \subseteq {"server"}
    BY <2>1, <2>2 DEF Served, OnCourse, Entered
  <2> HIDE DEF w, v
  <2>3. v.pc = "start collector" /\ v.held = {"server"}
    BY <2>1 DEF Changed
  <2>4. /\ {"pc", "held", "running", "stuck", "failing", "course"} \subseteq DOMAIN v
        /\ v.running \subseteq {"server"} /\ v.failing = FALSE /\ v.course = AuditCourse
    BY <2>1, <2>a DEF Changed
  <2>5. Served(v)
    BY <2>3, <2>4 DEF Served, AuditPlaces, Entered, Closing, Concluding, Services
  <2>6. OnCourse(v)
    BY <2>3, <2>4 DEF OnCourse, Entered, Closing, Concluding
  <2> QED
    BY <2>5, <2>6 DEF Auditor, v
<1>f. ASSUME NEW running, NEW stuck, Failing(p, running, stuck), Served(w),
             running \subseteq w.held \union stuck
      PROVE  Auditor(v)
  <2>1. v = [pc |-> "close engine", attempt |-> w.attempt, measured |-> <<>>,
             held |-> w.held, running |-> running, stuck |-> stuck, failing |-> TRUE]
    BY <1>f DEF Failing, FrameTyped
  <2> HIDE DEF v
  <2>2. /\ {"pc", "held", "running", "stuck", "failing"} \subseteq DOMAIN v
        /\ v.pc = "close engine" /\ v.held = w.held /\ v.running = running /\ v.stuck = stuck
        /\ v.failing = TRUE
    BY <2>1
  <2>3. w.held \subseteq Services
    BY <1>f DEF Served
  <2>4. Served(v)
    BY <1>f, <2>2, <2>3 DEF Served, AuditPlaces, Entered, Closing, Concluding
  <2>5. OnCourse(v)
    BY <2>2 DEF OnCourse, Entered, Closing, Concluding
  <2> QED
    BY <2>4, <2>5 DEF Auditor
<1>4. CASE ServerNotReady(p)
  <2>1. w.pc = "await server" /\ \E stuck \in SUBSET {"server"} : Failing(p, stuck, stuck)
    BY <1>4 DEF ServerNotReady, At
  <2>2. Served(w)
    BY <2>1 DEF Auditor
  <2> QED
    BY <1>f, <2>1, <2>2
<1>s. ASSUME NEW at \in Entered \ {"await"}, NEW onward \in Entered \ {"await"}, NEW service \in Services,
             NEW changes, "pc" \in DOMAIN changes, changes.pc = onward,
             \A f \in Kept : f \notin DOMAIN changes, Starts(p, at, service, changes)
      PROVE  Auditor(v)
  <2> DEFINE started == Changed(changes, [held |-> w.held \union {service},
                                          running |-> w.running \union {service}])
  <2>1. Working(p, at, started)
    BY <1>s DEF Starts
  <2>2. w.pc = at /\ Served(w) /\ OnCourse(w) /\ w.pc \in Entered
    BY <2>1, WorkingAt DEF Auditor, Entered
  <2>3. /\ DOMAIN started = DOMAIN changes \union {"held", "running"}
        /\ started.pc = onward /\ started.held = w.held \union {service}
        /\ started.running = w.running \union {service}
    BY <1>s DEF Changed
  <2> HIDE DEF started
  <2>4. /\ v.pc = onward /\ v.held = w.held \union {service} /\ v.running = w.running \union {service}
        /\ {"pc", "held", "running"} \subseteq DOMAIN v /\ Keeps(w, v, {"stuck", "failing", "course"})
    BY <1>s, <2>1, <2>3, WorkingFields DEF Keeps, Kept
  <2>5. /\ w.running \subseteq w.held /\ w.held \subseteq Services
        /\ {"stuck", "failing", "course"} \subseteq DOMAIN w
        /\ w.failing = FALSE /\ w.course = AuditCourse
    BY <2>2 DEF Served, OnCourse
  <2>6. /\ {"pc", "held", "running", "stuck", "failing", "course"} \subseteq DOMAIN v
        /\ v.running \subseteq v.held /\ v.held \subseteq Services
        /\ v.failing = FALSE /\ v.course = AuditCourse
    BY <2>4, <2>5 DEF Keeps
  <2>7. Served(v)
    BY <1>s, <2>4, <2>6 DEF Served, AuditPlaces, Entered, Closing, Concluding
  <2>8. OnCourse(v)
    BY <1>s, <2>4, <2>6 DEF OnCourse, Entered, Closing, Concluding
  <2> QED
    BY <2>7, <2>8 DEF Auditor
<1>5. CASE StartCollector(p)
  <2> DEFINE changes == Changed(CollectorIdle, [pc |-> "start engine"])
  <2>1. "pc" \in DOMAIN changes /\ changes.pc = "start engine" /\ \A f \in Kept : f \notin DOMAIN changes
    BY DEF Changed, CollectorIdle, Kept
  <2>2. Starts(p, "start collector", "collector", changes)
    BY <1>5 DEF StartCollector
  <2> HIDE DEF changes
  <2> QED
    BY <1>s, <2>1, <2>2 DEF Entered, Services
<1>6. CASE StartEngine(p)
  <2>1. Starts(p, "start engine", "engine", [pc |-> "start writer"])
    BY <1>6 DEF StartEngine
  <2> QED
    BY <1>s, <2>1, OnlyMoves DEF Entered, Services
<1>7. CASE StartWriter(p)
  <2>1. Starts(p, "start writer", "writer", [pc |-> "load models"])
    BY <1>7 DEF StartWriter
  <2> QED
    BY <1>s, <2>1, OnlyMoves DEF Entered, Services
<1>8. CASE LoadModels(p)
  <2>1. Working(p, "load models", [pc |-> "prepare prefixes"])
    BY <1>8 DEF LoadModels
  <2>2. w.pc = "load models" /\ Served(w) /\ OnCourse(w)
    BY <2>1, WorkingAt DEF Auditor
  <2>3. v.pc = "prepare prefixes" /\ Keeps(w, v, Kept)
    BY <2>1, <2>2, MoveStep DEF Served
  <2> QED
    BY <2>2, <2>3, EntersOn DEF Auditor, Entered
<1>9. CASE PreparePrefixes(p)
  <2>1. PICK assets : Working(p, "prepare prefixes", [pc |-> "warm up", assets |-> assets])
    BY <1>9 DEF PreparePrefixes
  <2>2. w.pc = "prepare prefixes" /\ Served(w) /\ OnCourse(w)
    BY <2>1, WorkingAt DEF Auditor
  <2>3. v.pc = "warm up" /\ Keeps(w, v, Kept)
    <3> DEFINE changes == [pc |-> "warm up", assets |-> assets]
    <3>1. /\ "pc" \in DOMAIN changes /\ changes.pc = "warm up"
          /\ \A f \in Kept : f \notin DOMAIN changes
      BY DEF Kept
    <3> HIDE DEF changes
    <3> QED
      BY <2>1, <2>2, <3>1, QuietStep DEF Served, changes
  <2> QED
    BY <2>2, <2>3, EntersOn DEF Auditor, Entered
<1>10. CASE Raise(p)
  <2>1. /\ w.pc \notin AfterEvaluator /\ w.pc \notin Closing \union {"await server"}
        /\ Failing(p, w.running, {})
    BY <1>10 DEF Raise, InEvaluator
  <2>2. Served(w) /\ w.pc \in Entered
    BY <2>1 DEF Auditor, Served, AuditPlaces, AfterEvaluator, Concluding
  <2>3. w.running \subseteq w.held
    BY <2>2 DEF Served
  <2> QED
    BY <1>f, <2>1, <2>2, <2>3
<1>c. ASSUME NEW at \in Closing \ {"drain", "closed"}, NEW onward \in Closing, NEW service,
             NEW stuck \in SUBSET (w.held \intersect {service}),
             Working(p, at, [pc |-> onward, held |-> w.held \ (w.held \intersect {service}),
                             running |-> w.running \ ((w.held \intersect {service}) \ stuck),
                             stuck |-> w.stuck \union stuck]),
             \/ at = "close engine" /\ onward = "drain" /\ service = "engine"
             \/ at = "close collector" /\ onward = "close writer" /\ service = "collector"
             \/ at = "close writer" /\ onward = "close server" /\ service = "writer"
             \/ at = "close server" /\ onward = "closed" /\ service = "server"
      PROVE  Auditor(v)
  <2>1. /\ v = Changed(w, [pc |-> onward, held |-> w.held \ (w.held \intersect {service}),
                           running |-> w.running \ ((w.held \intersect {service}) \ stuck),
                           stuck |-> w.stuck \union stuck])
        /\ w.pc = at
    BY <1>c, MoveChanges DEF Working, At
  <2>2. Served(w) /\ OnCourse(w)
    BY <2>1 DEF Auditor, Closing
  <2>3. /\ {"pc", "held", "running", "stuck", "failing"} \subseteq DOMAIN w
        /\ w.failing \in BOOLEAN /\ w.held \subseteq Services /\ w.running \subseteq w.held \union w.stuck
        /\ at # "close engine" => "engine" \notin w.held
        /\ at \in {"close writer", "close server"} => "collector" \notin w.held
        /\ at = "close server" => "writer" \notin w.held
    BY <2>1, <2>2 DEF Served
  <2>4. w.failing = FALSE => "course" \in DOMAIN w /\ w.course = AuditCourse
    BY <2>1, <2>2 DEF OnCourse
  <2> HIDE DEF w, v
  <2>5. /\ {"pc", "held", "running", "stuck", "failing"} \subseteq DOMAIN v
        /\ v.pc = onward /\ v.failing = w.failing
        /\ v.held = w.held \ (w.held \intersect {service})
        /\ v.running = w.running \ ((w.held \intersect {service}) \ stuck)
        /\ v.stuck = w.stuck \union stuck
    BY <2>1, <2>3 DEF Changed
  <2>6. "course" \in DOMAIN w => "course" \in DOMAIN v /\ v.course = w.course
    BY <2>1 DEF Changed
  <2>7. v.running \subseteq v.held \union v.stuck /\ v.held \subseteq Services
    BY <2>3, <2>5
  <2>8. /\ "engine" \notin v.held
        /\ onward \in {"close writer", "close server", "closed"} => "collector" \notin v.held
        /\ onward \in {"close server", "closed"} => "writer" \notin v.held
        /\ onward = "closed" => "server" \notin v.held
    BY <1>c, <2>3, <2>5
  <2>9. Served(v)
    BY <1>c, <2>3, <2>5, <2>7, <2>8 DEF Served, AuditPlaces, Entered, Closing, Concluding
  <2>10. OnCourse(v)
    BY <1>c, <2>4, <2>5, <2>6 DEF OnCourse, Entered, Closing, Concluding
  <2> QED
    BY <2>9, <2>10 DEF Auditor
<1>11. CASE StopEngine(p)
  BY <1>11, <1>c DEF StopEngine, StopService, Closing
<1>12. CASE CloseCollector(p)
  BY <1>12, <1>c DEF CloseCollector, StopService, Closing
<1>13. CASE CloseWriter(p)
  BY <1>13, <1>c DEF CloseWriter, StopService, Closing
<1>14. CASE StopServer(p)
  BY <1>14, <1>c DEF StopServer, StopService, Closing
<1>15. CASE DrainOnClose(p)
  <2>1. PICK failing : failing = (w.failing \/ ~Drained(p))
    OBVIOUS
  <2>2. v = Changed(w, [pc |-> "close collector", failing |-> failing]) /\ w.pc = "drain"
    BY <1>15, <2>1, MoveChanges DEF DrainOnClose, Working, At
  <2>3. Served(w) /\ OnCourse(w)
    BY <2>2 DEF Auditor
  <2>4. /\ {"pc", "held", "running", "stuck", "failing"} \subseteq DOMAIN w
        /\ w.failing \in BOOLEAN /\ w.held \subseteq Services /\ w.running \subseteq w.held \union w.stuck
        /\ "engine" \notin w.held
    BY <2>2, <2>3 DEF Served, Closing
  <2>5. w.failing = FALSE => "course" \in DOMAIN w /\ w.course = AuditCourse
    BY <2>2, <2>3 DEF OnCourse, Closing
  <2>6. failing \in BOOLEAN /\ (failing = FALSE => w.failing = FALSE)
    BY <2>1, <2>4
  <2> HIDE DEF w, v
  <2>7. /\ {"pc", "held", "running", "stuck", "failing"} \subseteq DOMAIN v
        /\ v.pc = "close collector" /\ v.failing = failing
        /\ v.held = w.held /\ v.running = w.running /\ v.stuck = w.stuck
    BY <2>2, <2>4 DEF Changed
  <2>8. "course" \in DOMAIN w => "course" \in DOMAIN v /\ v.course = w.course
    BY <2>2 DEF Changed
  <2>9. Served(v)
    BY <2>4, <2>6, <2>7 DEF Served, AuditPlaces, Entered, Closing, Concluding
  <2>10. OnCourse(v)
    BY <2>5, <2>6, <2>7, <2>8 DEF OnCourse, Entered, Closing, Concluding
  <2> QED
    BY <2>9, <2>10 DEF Auditor, v
<1>16. CASE EndClose(p)
  <2>1. w.pc = "closed" /\ Working(p, "closed", IF w.failing \/ w.stuck # {} THEN [pc |-> "raised"]
                                                ELSE Onward(p))
    BY <1>16, WorkingAt DEF EndClose
  <2>2. Served(w) /\ OnCourse(w)
    BY <2>1 DEF Auditor
  <2>3. /\ {"pc", "held", "running", "stuck", "failing"} \subseteq DOMAIN w
        /\ w.failing \in BOOLEAN /\ w.held \subseteq Services
        /\ w.running \subseteq w.held \union w.stuck
        /\ "engine" \notin w.held /\ "collector" \notin w.held /\ "writer" \notin w.held
        /\ "server" \notin w.held
    BY <2>1, <2>2 DEF Served, Closing
  <2>4. w.running \subseteq w.stuck
    BY <2>3 DEF Services
  <2>5. CASE w.failing \/ w.stuck # {}
    <3>1. v.pc = "raised" /\ Keeps(w, v, Kept)
      BY <2>1, <2>3, <2>5, MoveStep
    <3>2. /\ {"pc", "held", "running", "stuck", "failing"} \subseteq DOMAIN v
          /\ v.held = w.held /\ v.running = w.running /\ v.stuck = w.stuck /\ v.failing = w.failing
      BY <2>3, <3>1 DEF Keeps, Kept
    <3>3. Served(v)
      BY <2>3, <2>4, <3>1, <3>2 DEF Served, AuditPlaces, Entered, Closing, Concluding
    <3>4. OnCourse(v)
      BY <3>1 DEF OnCourse, Entered, Closing, Concluding
    <3> QED
      BY <3>3, <3>4 DEF Auditor
  <2>6. CASE ~w.failing /\ w.stuck = {}
    <3>1. w.failing = FALSE /\ "course" \in DOMAIN w /\ w.course = AuditCourse
      BY <2>1, <2>2, <2>3, <2>6 DEF OnCourse, Closing
    <3>2. v = Changed(w, [pc |-> Head(AuditCourse), course |-> Tail(AuditCourse)])
      BY <2>1, <2>6, <3>1, MoveChanges DEF Working, Onward
    <3> HIDE DEF w, v
    <3>3. /\ {"pc", "held", "running", "stuck", "failing", "course"} \subseteq DOMAIN v
          /\ v.pc = AuditCourse[1] /\ v.course = SubSeq(AuditCourse, 2, 7)
          /\ v.held = w.held /\ v.running = w.running /\ v.stuck = w.stuck /\ v.failing = w.failing
      BY <2>3, <3>1, <3>2, CourseGoesOn DEF Changed
    <3>4. v.pc \in Concluding
      BY <3>3, CourseGoesOn
    <3>5. Served(v)
      BY <2>3, <2>4, <2>6, <3>3, <3>4 DEF Served, AuditPlaces, Entered, Closing, Concluding
    <3>6. OnCourse(v)
      <4>1. 1 \in 1..7 /\ 1 + 1 = 2
        OBVIOUS
      <4>2. \E i \in 1..7 : v.pc = AuditCourse[i] /\ v.course = SubSeq(AuditCourse, i + 1, 7)
        BY <3>3, <4>1
      <4> QED
        BY <3>3, <3>4, <4>2 DEF OnCourse, Entered, Closing, Concluding
    <3> QED
      BY <3>5, <3>6 DEF Auditor, v
  <2> QED
    BY <2>5, <2>6
<1> QED
  BY <1>1, <1>2, <1>3, <1>4, <1>5, <1>6, <1>7, <1>8, <1>9, <1>10, <1>11, <1>12, <1>13, <1>14,
     <1>15, <1>16 DEF ServiceStep
\* The wait for the events of a request.
LEMMA RequestAuditor ==
  ASSUME FrameTyped, kind = "runtime_audit", NEW p \in Processes, Auditor(workers[p]),
         NEW at \in Entered, NEW id, NEW accepted, NEW onward \in Entered \ {"refused"},
         Request(p, at, id, accepted, [after |-> onward])
  PROVE  Auditor(workers'[p])
<1>1. PICK awaited, wire, asked :
        Working(p, at, Changed([after |-> onward],
                               [pc |-> "await", awaited |-> awaited, wire |-> wire, asked |-> asked]))
  BY DEF Request
<1> DEFINE changes == Changed([after |-> onward],
                              [pc |-> "await", awaited |-> awaited, wire |-> wire, asked |-> asked])
           w == workers[p]
           v == workers'[p]
<1>2. /\ DOMAIN changes = {"after", "pc", "awaited", "wire", "asked"}
      /\ changes.pc = "await" /\ changes.after = onward
  BY DEF Changed
<1>3. Working(p, at, changes)
  BY <1>1
<1>4. w.pc = at /\ Served(w) /\ OnCourse(w)
  BY <1>3, WorkingAt DEF Auditor, Entered
<1> HIDE DEF changes
<1>5. \A f \in Kept : f \notin DOMAIN changes
  BY <1>2 DEF Kept
<1>6. /\ Keeps(w, v, Kept) /\ v.pc = changes.pc /\ DOMAIN changes \subseteq DOMAIN v
      /\ \A f \in DOMAIN changes : v[f] = changes[f]
  BY <1>2, <1>3, <1>4, <1>5, QuietStep DEF Served
<1>7. v.pc = "await" /\ "after" \in DOMAIN v /\ v.after = onward
  BY <1>2, <1>6
<1> QED
  BY <1>4, <1>6, <1>7, EntersOn DEF Auditor, Entered

\* A step inside the evaluator that only changes quiet fields and its place.
LEMMA QuietAuditor ==
  ASSUME FrameTyped, NEW p \in Processes, Auditor(workers[p]),
         NEW at \in Entered, NEW changes, Working(p, at, changes),
         \A f \in Kept : f \notin DOMAIN changes,
         "pc" \in DOMAIN changes => changes.pc \in Entered \ {"await"},
         "pc" \notin DOMAIN changes => at # "await"
  PROVE  Auditor(workers'[p])
<1>1. workers[p].pc = at /\ Served(workers[p]) /\ OnCourse(workers[p])
  BY WorkingAt DEF Auditor, Entered
<1>2. Keeps(workers[p], workers'[p], Kept) /\ workers'[p].pc \in Entered \ {"await"}
  BY <1>1, QuietStep DEF Served
<1> QED
  BY <1>1, <1>2, EntersOn DEF Auditor

\* The steps of the audit itself.
LEMMA AuditAuditor ==
  ASSUME FrameTyped, kind = "runtime_audit", NEW p \in Processes, Auditor(workers[p]),
         AuditStep(p)
  PROVE  Auditor(workers'[p])
<1> DEFINE w == workers[p]  v == workers'[p]
<1>0. CASE ServiceStep(p)
  BY <1>0, ServiceAuditor
<1>1. CASE BeginAudit(p)
  <2> DEFINE fields == Changed(NoServices, EvaluationIdle)
             others == [pc |-> "bind evidence", course |-> AuditCourse]
  <2>1. /\ {"held", "running", "stuck", "failing"} \subseteq DOMAIN fields
        /\ fields.held = {} /\ fields.running = {} /\ fields.stuck = {} /\ fields.failing = FALSE
    BY DEF Changed, NoServices, EvaluationIdle
  <2>2. /\ DOMAIN others = {"pc", "course"} /\ others.pc = "bind evidence"
        /\ others.course = AuditCourse
    OBVIOUS
  <2>3. Begin(p, {"runtime_audit"}, Changed(fields, others))
    BY <1>1 DEF BeginAudit
  <2> HIDE DEF fields, others
  <2>a. /\ DOMAIN fields \union DOMAIN others \union {"attempt"} \subseteq DOMAIN v
        /\ \A f \in DOMAIN others : v[f] = others[f]
        /\ \A f \in DOMAIN fields \ (DOMAIN others \union {"attempt"}) : v[f] = fields[f]
    BY <2>2, <2>3, BeginChanges
  <2>4. /\ {"pc", "held", "running", "stuck", "failing", "course"} \subseteq DOMAIN v
        /\ v.pc = "bind evidence" /\ v.course = AuditCourse
        /\ v.held = {} /\ v.running = {} /\ v.stuck = {} /\ v.failing = FALSE
    BY <2>1, <2>2, <2>a
  <2>5. Served(v)
    BY <2>4 DEF Served, AuditPlaces, Entered, Closing, Concluding
  <2>6. OnCourse(v)
    BY <2>4 DEF OnCourse, Entered, Closing, Concluding
  <2> QED
    BY <2>5, <2>6 DEF Auditor
<1>2. CASE Warmup(p)
  BY <1>2, RequestAuditor DEF Warmup, Entered
<1>3. CASE RestoreAudit(p)
  <2>1. PICK changes \in {TakenUp(p, Found(p)), [pc |-> "refused"]} : Working(p, "evaluate", changes)
    BY <1>3 DEF RestoreAudit, RestoreRow
  <2>2. CASE changes = [pc |-> "refused"]
    BY <2>1, <2>2, OnlyMoves, QuietAuditor DEF Entered
  <2>3. CASE changes = TakenUp(p, Found(p))
    <3>1. DOMAIN changes = {"row", "measured", "histories"}
      BY <2>3 DEF TakenUp
    <3> QED
      BY <2>1, <3>1, QuietAuditor DEF Entered, Kept
  <2> QED
    BY <2>1, <2>2, <2>3
<1>4. CASE BuildObservation(p)
  <2>1. PICK example : Working(p, "evaluate", [pc |-> "measure", example |-> example])
    BY <1>4 DEF BuildObservation
  <2> DEFINE changes == [pc |-> "measure", example |-> example]
  <2>2. DOMAIN changes = {"pc", "example"} /\ changes.pc = "measure"
    OBVIOUS
  <2>3. Working(p, "evaluate", changes)
    BY <2>1
  <2> HIDE DEF changes
  <2> QED
    BY <2>2, <2>3, QuietAuditor DEF Entered, Kept
<1>5. CASE MeasurePair(p)
  <2>1. PICK onward \in {"save sample", "noncausal"} :
          Request(p, "measure", w.row, w.example.decision = "accepted", [after |-> onward])
    BY <1>5 DEF MeasurePair
  <2> QED
    BY <2>1, RequestAuditor DEF Entered
<1>6. CASE ProbeFailure(p)
  BY <1>6, RequestAuditor DEF ProbeFailure, Entered
<1>7. CASE Deliver(p)
  <2>1. PICK line \in w.wire : Working(p, w.pc, Accept(p, line))
    BY <1>7 DEF Deliver
  <2> DEFINE changes == Accept(p, line)
  <2>2. DOMAIN changes = {"wire", "arrived", "broken", "events"}
    BY DEF Accept
  <2>3. Working(p, w.pc, changes)
    BY <2>1
  <2>4. w.pc # "idle"
    BY <1>7 DEF Deliver, Listening
  <2>5. Served(w) /\ OnCourse(w)
    BY <2>4 DEF Auditor
  <2> HIDE DEF changes
  <2>6. /\ DOMAIN v = DOMAIN w \union DOMAIN changes
        /\ \A f \in DOMAIN w \ DOMAIN changes : v[f] = w[f]
    BY <2>3, WorkingFields
  <2>7. v.pc = w.pc /\ Keeps(w, v, Kept \union {"after"})
    <3>1. "pc" \in DOMAIN w \ DOMAIN changes
      BY <2>2, <2>5 DEF Served
    <3>2. \A f \in Kept \union {"after"} : f \notin DOMAIN changes
      BY <2>2 DEF Kept
    <3> QED
      BY <2>6, <3>1, <3>2 DEF Keeps
  <2> QED
    BY <2>5, <2>7, StaysThere DEF Auditor
<1>8. CASE ConsumeGateEvent(p) \/ ConsumeExecutionEvent(p)
  <2>1. ASSUME NEW sort, WaitFor(p, sort)
        PROVE  \E onward \in {w.after, "await"} : \E awaited, events :
          Working(p, "await", [pc |-> onward, awaited |-> awaited, events |-> events])
    <3> DEFINE onward == IF Len(w.awaited) = 1 THEN w.after ELSE "await"
    <3>1. Working(p, "await", [pc |-> onward, awaited |-> Tail(w.awaited),
                               events |-> w.events \ {Head(w.awaited)}])
      BY <2>1 DEF WaitFor
    <3>2. onward \in {w.after, "await"}
      OBVIOUS
    <3> HIDE DEF onward
    <3> QED
      BY <3>1, <3>2
  <2>2. PICK onward \in {w.after, "await"} : \E awaited, events :
          Working(p, "await", [pc |-> onward, awaited |-> awaited, events |-> events])
    BY <1>8, <2>1 DEF ConsumeGateEvent, ConsumeExecutionEvent
  <2>3. PICK awaited, events :
          Working(p, "await", [pc |-> onward, awaited |-> awaited, events |-> events])
    BY <2>2
  <2> DEFINE changes == [pc |-> onward, awaited |-> awaited, events |-> events]
  <2>4. DOMAIN changes = {"pc", "awaited", "events"} /\ changes.pc = onward
    OBVIOUS
  <2>5. Working(p, "await", changes)
    BY <2>3
  <2>6. w.pc = "await" /\ Served(w) /\ OnCourse(w)
    BY <2>5, WorkingAt DEF Auditor
  <2>7. "after" \in DOMAIN w /\ w.after \in Entered \ {"refused"}
    BY <2>6 DEF OnCourse
  <2> HIDE DEF changes
  <2>8. /\ Keeps(w, v, Kept) /\ v.pc = onward
        /\ DOMAIN v = DOMAIN w \union DOMAIN changes /\ v.after = w.after
    BY <2>4, <2>5, <2>6, <2>7, WorkingFields DEF Kept, Served, Keeps
  <2> QED
    BY <2>6, <2>7, <2>8, EntersOn DEF Auditor, Entered
<1>9. CASE DrainWarmup(p)
  BY <1>9, OnlyMoves, QuietAuditor DEF DrainWarmup, Drain, Entered
<1>10. CASE DrainProbe(p)
  <2>1. Working(p, "drain probe", [pc |-> "close engine"])
    BY <1>10 DEF DrainProbe, Drain
  <2>2. w.pc = "drain probe" /\ Served(w) /\ OnCourse(w)
    BY <2>1, WorkingAt DEF Auditor
  <2>3. v.pc = "close engine" /\ Keeps(w, v, Kept)
    BY <2>1, <2>2, MoveStep DEF Served
  <2>4. /\ {"pc", "held", "running", "stuck", "failing", "course"} \subseteq DOMAIN w
        /\ w.running \subseteq w.held /\ w.held \subseteq Services
        /\ w.failing = FALSE /\ w.course = AuditCourse
    BY <2>2 DEF Served, OnCourse, Entered
  <2>5. /\ {"pc", "held", "running", "stuck", "failing", "course"} \subseteq DOMAIN v
        /\ v.running \subseteq v.held /\ v.held \subseteq Services
        /\ v.failing = FALSE /\ v.course = AuditCourse
    BY <2>3, <2>4 DEF Keeps, Kept
  <2>6. Served(v)
    BY <2>3, <2>5 DEF Served, AuditPlaces, Entered, Closing, Concluding
  <2>7. OnCourse(v)
    BY <2>3, <2>5 DEF OnCourse, Entered, Closing, Concluding
  <2> QED
    BY <2>6, <2>7 DEF Auditor
<1>o. /\ DOMAIN Onward(p) = {"pc", "course"}
      /\ Onward(p).pc = Head(w.course) /\ Onward(p).course = Tail(w.course)
  BY DEF Onward
<1>r. ASSUME NEW at \in Concluding, Working(p, at, [pc |-> "rejected"])
      PROVE  Auditor(v)
  <2>1. w.pc = at /\ Served(w)
    BY <1>r, WorkingAt DEF Auditor, Concluding
  <2>2. v.pc = "rejected" /\ Keeps(w, v, Kept)
    BY <1>r, <2>1, MoveStep DEF Served
  <2> QED
    BY <1>r, <2>1, <2>2, IsRejected DEF Auditor
<1>11. CASE ConcludeAudit(p)
  <2>1. PICK result : \/ Working(p, "conclude", Changed(Onward(p), [result |-> result]))
                      \/ Working(p, "conclude", [pc |-> "rejected"])
    BY <1>11 DEF ConcludeAudit, Conclude
  <2>2. CASE Working(p, "conclude", Changed(Onward(p), [result |-> result]))
    <3> DEFINE changes == Changed(Onward(p), [result |-> result])
    <3>1. /\ DOMAIN changes = {"pc", "course", "result"}
          /\ changes.pc = Head(w.course) /\ changes.course = Tail(w.course)
      BY <1>o DEF Changed
    <3>2. Working(p, "conclude", changes)
      BY <2>2
    <3> HIDE DEF changes
    <3> QED
      BY <3>1, <3>2, OnwardStep DEF Concluding, Kept
  <2> QED
    BY <1>r, <2>1, <2>2 DEF Concluding
<1>12. CASE WriteApproved(p)
  <2>1. Working(p, "artifact", Onward(p))
    BY <1>12 DEF WriteApproved, WriteArtifact
  <2> QED
    BY <1>o, <2>1, OnwardStep DEF Concluding, Kept
<1>13. CASE WriteRuntimeManifest(p)
  <2>1. Working(p, "manifest", Onward(p)) \/ Working(p, "manifest", [pc |-> "rejected"])
    BY <1>13 DEF WriteRuntimeManifest, WriteManifest
  <2>2. CASE Working(p, "manifest", Onward(p))
    BY <1>o, <2>2, OnwardStep DEF Concluding, Kept
  <2> QED
    BY <1>r, <2>1, <2>2 DEF Concluding
<1> QED
  BY <1>0, <1>1, <1>2, <1>3, <1>4, <1>5, <1>6, <1>7, <1>8, <1>9, <1>10, <1>11, <1>12, <1>13
  DEF AuditStep

LEMMA AuditInvInit == Init => AuditInv
BY DEF Init, FrameInit, AuditInv, Auditor, Idle

LEMMA AuditInvStep ==
  ASSUME FrameTyped, AuditInv, [Next]_vars
  PROVE  AuditInv'
<1> SUFFICES ASSUME kind = "runtime_audit", kind' = "runtime_audit", NEW q \in Processes
             PROVE  Auditor(workers'[q])
  BY FrameStep DEF AuditInv
<1>1. CASE UNCHANGED vars
  BY <1>1 DEF AuditInv
<1>2. CASE PowerLoss
  BY <1>2 DEF PowerLoss, Fits
<1>3. ASSUME NEW p \in Processes,
             Fitting(p) \/ Collecting(p) \/ Evaluating(p) \/ Stopping(p)
      PROVE  Auditor(workers'[q])
  <2>1. Auditor(workers[p]) /\ Auditor(workers[q])
    BY DEF AuditInv
  <2>2. workers[p].pc \in AuditPlaces \union {"idle"}
    BY <2>1 DEF Auditor, Served
  <2>3. EvaluationStep(p) \/ AuditStep(p) \/ Stopping(p)
    BY <1>3, <2>2, OnlyAuditing
  <2>4. Auditor(workers'[p])
    <3>1. CASE Stopping(p)
      BY <3>1 DEF Stopping, FailStage, Crash, FrameTyped, Idle, Auditor
    <3> QED
      BY <2>1, <2>3, <3>1, EvaluationAuditor, AuditAuditor
  <2>5. q # p => workers'[q] = workers[q]
    BY <1>3, StepActs DEF Acts
  <2> QED
    BY <2>1, <2>4, <2>5
<1> QED
  BY <1>1, <1>2, <1>3 DEF Next

\* Out of its evaluator an attempt of the audit runs nothing of what it had started but
\* the services whose own stop has raised, and goes on only if there are none of those:
\* at whatever step an exception met it, with any number of requests before.
THEOREM NothingLeft == Spec => []NothingLeftRunning
<1>1. FrameTyped /\ AuditInv /\ [Next]_vars => (FrameTyped /\ AuditInv)'
  BY FrameStep, AuditInvStep
<1>2. Init => FrameTyped
  BY DEF Init, FrameInit, FrameTyped
<1>3. AuditInv => NothingLeftRunning
  <2> SUFFICES ASSUME AuditInv, kind = "runtime_audit", NEW p \in Processes,
                      ~At(p, "idle"), ~InEvaluator(p)
               PROVE  /\ workers[p].running \subseteq workers[p].stuck
                      /\ ~At(p, "raised") => workers[p].stuck = {}
    BY DEF NothingLeftRunning
  <2>1. Served(workers[p]) /\ workers[p].pc \in AfterEvaluator \ {"idle"}
    BY DEF AuditInv, Auditor, At, InEvaluator
  <2>2. workers[p].pc \in Concluding \union {"raised", "rejected"}
    BY <2>1 DEF AfterEvaluator, Concluding
  <2> QED
    BY <2>1, <2>2 DEF Served, At
<1> QED
  BY <1>1, <1>2, <1>3, AuditInvInit, PTL DEF Spec

-----------------------------------------------------------------------------
(* What the collector of the runtime audit has read.                       *)

Read(w) == {line.event : line \in {l \in w.arrived : l.whole}}

Telemetries == {"wire", "events", "arrived", "broken", "asked", "awaited", "after"}

\* The places from the start of the collector on.
Hearing == {"start engine", "start writer", "load models", "prepare prefixes", "warm up", "await",
            "drain warmup", "evaluate", "measure", "save sample", "noncausal", "drain probe",
            "refused"}
Confirmed == {"close collector", "close writer", "close server", "closed"} \union Concluding

(* Every event asked for is read or awaited, and none is read that was not *)
(* asked for; without an error no event has been read twice.  An attempt   *)
(* that has confirmed this has met no error.                               *)
Exact(w) ==
  /\ Telemetries \ {"after"} \subseteq DOMAIN w
  /\ IsFiniteSet(w.asked) /\ w.broken \in BOOLEAN
  /\ w.events \subseteq Read(w)
  /\ \A line \in w.wire \union w.arrived : line.event \in w.asked
  /\ w.broken = FALSE =>
       /\ \A line \in w.arrived : line.whole
       /\ \A line, other \in w.arrived : line.event = other.event => line = other
  /\ w.pc # "await" => w.asked \subseteq Read(w)
  /\ w.pc = "await" =>
       /\ \/ \E e : w.awaited = <<e>> /\ w.asked \ {e} \subseteq Read(w)
          \/ \E e, f : w.awaited = <<e, f>> /\ w.asked \ {e, f} \subseteq Read(w)
       /\ "after" \in DOMAIN w
       /\ w.after \in {"drain warmup", "save sample", "noncausal", "drain probe"}
  /\ w.pc \in Confirmed => w.broken = FALSE

Heard(w) == w.pc \in Hearing \union Concluding \/ (w.pc \in Closing /\ w.failing = FALSE)

Listener(w) == Heard(w) => Exact(w)

TelemetryInv == kind = "runtime_audit" => \A p \in Processes : Listener(workers[p])

LEMMA Places ==
  /\ "await" \notin Closing \union Concluding
  /\ Hearing \intersect (Closing \union Concluding) = {} /\ Hearing \subseteq Entered
  /\ Closing \intersect Concluding = {} /\ Confirmed \subseteq Closing \union Concluding
  /\ Entered \intersect (Closing \union Concluding \union {"idle", "raised", "rejected"}) = {}
  /\ {"idle", "raised", "rejected"} \intersect (Closing \union Concluding) = {}
BY DEF Closing, Concluding, Hearing, Confirmed, Entered

LEMMA StaysExact ==
  ASSUME NEW w, NEW v, Exact(w), Keeps(w, v, Telemetries), w.pc # "await", v.pc # "await",
         v.pc \in Confirmed => w.broken = FALSE
  PROVE  Exact(v)
<1>1. /\ Telemetries \ {"after"} \subseteq DOMAIN v
      /\ v.wire = w.wire /\ v.events = w.events /\ v.arrived = w.arrived
      /\ v.broken = w.broken /\ v.asked = w.asked /\ v.awaited = w.awaited
  BY DEF Exact, Keeps, Telemetries
<1>2. Read(v) = Read(w)
  BY <1>1 DEF Read
<1> QED
  BY <1>1, <1>2 DEF Exact

\* A step that leaves the telemetry alone.
LEMMA QuietListener ==
  ASSUME FrameTyped, NEW p \in Processes, Listener(workers[p]), "pc" \in DOMAIN workers[p],
         NEW at, NEW changes, Working(p, at, changes), at # "await",
         \A f \in Telemetries \union {"failing"} : f \notin DOMAIN changes,
         NEW to, workers'[p].pc = to,
         to # "await", to \in Confirmed => at \in Confirmed,
         \/ at \in Hearing \union Concluding
         \/ at \in Closing /\ to \in Closing /\ "failing" \in DOMAIN workers[p]
         \/ to \notin Hearing \union Concluding \union Closing
  PROVE  Listener(workers'[p])
<1> DEFINE w == workers[p]  v == workers'[p]
<1>1. /\ w.pc = at
      /\ DOMAIN v = DOMAIN w \union DOMAIN changes
      /\ \A f \in DOMAIN changes : v[f] = changes[f]
      /\ \A f \in DOMAIN w \ DOMAIN changes : v[f] = w[f]
  BY WorkingFields
<1>2. v.pc = to
  OBVIOUS
<1>3. Keeps(w, v, Telemetries)
  BY <1>1 DEF Keeps
<1>4. Heard(v) => Heard(w)
  <2>1. CASE at \in Hearing \union Concluding
    BY <1>1, <2>1 DEF Heard
  <2>2. CASE at \in Closing /\ to \in Closing /\ "failing" \in DOMAIN w
    <3>1. v.failing = w.failing
      BY <1>1, <2>2
    <3>2. to \notin Hearing \union Concluding
      BY <2>2, Places
    <3> QED
      BY <1>1, <1>2, <2>2, <3>1, <3>2 DEF Heard
  <2> QED
    BY <1>2, <2>1, <2>2 DEF Heard
<1>5. Heard(w) => Exact(w)
  BY DEF Listener
<1> HIDE DEF w, v
<1>6. Exact(w) => Exact(v)
  <2> HAVE Exact(w)
  <2>1. v.pc \in Confirmed => w.broken = FALSE
    BY <1>1, <1>2 DEF Exact
  <2> QED
    BY <1>1, <1>2, <1>3, <2>1, StaysExact
<1> QED
  BY <1>4, <1>5, <1>6 DEF Listener, v

\* A step that goes nowhere near the collector.
LEMMA DeafListener ==
  ASSUME NEW w, w.pc \notin Hearing \union Concluding \union Closing
  PROVE  Listener(w)
BY DEF Listener, Heard

LEMMA HeadOfCourse ==
  ASSUME NEW w, Auditor(w), w.pc \in Concluding \ {"publish"}
  PROVE  Head(w.course) \in Concluding
<1>1. OnCourse(w)
  BY DEF Auditor, Concluding
<1>2. PICK i \in 1..7 : w.pc = AuditCourse[i] /\ w.course = SubSeq(AuditCourse, i + 1, 7)
  BY <1>1 DEF OnCourse
<1>3. i \in 1..6
  BY <1>2, CourseGoesOn
<1>4. Head(w.course) = AuditCourse[i + 1] /\ i + 1 \in 1..7
  BY <1>2, <1>3, CourseGoesOn
<1> QED
  BY <1>4, CourseGoesOn

\* The next step of the course.
LEMMA OnwardListener ==
  ASSUME FrameTyped, NEW p \in Processes, Auditor(workers[p]), Listener(workers[p]),
         NEW at \in Concluding \ {"publish"}, NEW changes, Working(p, at, changes),
         "pc" \in DOMAIN changes, changes.pc = Head(workers[p].course),
         \A f \in Telemetries \union {"failing"} : f \notin DOMAIN changes
  PROVE  Listener(workers'[p])
<1>1. workers[p].pc = at /\ "pc" \in DOMAIN workers[p]
  BY WorkingAt DEF Auditor, Served, Concluding
<1>2. changes.pc \in Concluding
  BY <1>1, HeadOfCourse
<1>3. workers'[p].pc = changes.pc
  BY WorkingFields
<1>4. changes.pc # "await" /\ at # "await" /\ at \in Confirmed
  BY <1>2, Places DEF Confirmed
<1> QED
  BY <1>1, <1>3, <1>4, QuietListener

LEMMA EvaluationListener ==
  ASSUME FrameTyped, kind = "runtime_audit", NEW p \in Processes, Auditor(workers[p]),
         Listener(workers[p]), EvaluationStep(p)
  PROVE  Listener(workers'[p])
<1> DEFINE w == workers[p]  v == workers'[p]
<1>o. DOMAIN Onward(p) = {"pc", "course"} /\ Onward(p).pc = Head(w.course)
  BY DEF Onward
<1>1. CASE SaveSample(p)
  <2> DEFINE changes == Changed(TakenUp(p, w.example), [pc |-> "evaluate", example |-> None])
  <2>1. /\ DOMAIN changes = {"row", "measured", "histories", "pc", "example"}
        /\ changes.pc = "evaluate"
    BY DEF Changed, TakenUp
  <2>2. Working(p, "save sample", changes)
    BY <1>1 DEF SaveSample
  <2>3. "pc" \in DOMAIN w
    BY <2>2, WorkingAt DEF Auditor, Served
  <2> HIDE DEF changes
  <2>4. \A f \in Telemetries \union {"failing"} : f \notin DOMAIN changes
    BY <2>1 DEF Telemetries
  <2>5. v.pc = "evaluate"
    BY <2>1, <2>2, WorkingFields
  <2>6. "save sample" \in Hearing /\ "evaluate" \notin Confirmed
    BY DEF Hearing, Confirmed, Concluding
  <2> QED
    BY <2>2, <2>3, <2>4, <2>5, <2>6, QuietListener
<1>2. CASE EndSamples(p)
  BY <1>2 DEF EndSamples, AfterRows
<1>3. CASE WriteReport(p)
  <2>1. Working(p, "report", Onward(p))
    BY <1>3 DEF WriteReport
  <2> QED
    BY <1>o, <2>1, OnwardListener DEF Concluding, Telemetries
<1>4. CASE HashReport(p)
  <2> DEFINE changes == Changed(Onward(p), [reported |-> report])
  <2>1. Working(p, "hash report", changes)
    BY <1>4 DEF HashReport
  <2>2. DOMAIN changes = {"pc", "course", "reported"} /\ changes.pc = Head(w.course)
    BY <1>o DEF Changed
  <2> HIDE DEF changes
  <2> QED
    BY <2>1, <2>2, OnwardListener DEF Concluding, Telemetries
<1>5. CASE BindArtifact(p)
  <2> DEFINE changes == Changed(Onward(p), [bound |-> artifact])
  <2>1. Working(p, "bind artifact", changes)
    BY <1>5 DEF BindArtifact
  <2>2. DOMAIN changes = {"pc", "course", "bound"} /\ changes.pc = Head(w.course)
    BY <1>o DEF Changed
  <2> HIDE DEF changes
  <2> QED
    BY <2>1, <2>2, OnwardListener DEF Concluding, Telemetries
<1>6. CASE PublishOutput(p)
  <2> DEFINE changes == [objects |-> Append(w.objects, OutputFiles[Len(w.objects) + 1])]
  <2>1. Working(p, "publish", changes) /\ DOMAIN changes = {"objects"}
    BY <1>6 DEF PublishOutput
  <2>2. "pc" \in DOMAIN w
    BY <2>1, WorkingAt DEF Auditor, Served
  <2> HIDE DEF changes
  <2>3. \A f \in Telemetries \union {"failing"} : f \notin DOMAIN changes
    BY <2>1 DEF Telemetries
  <2>4. v.pc = "publish" /\ "publish" \in Concluding
    BY <2>1, <2>2, WorkingFields DEF Concluding
  <2> QED
    BY <2>1, <2>2, <2>3, <2>4, QuietListener
<1>7. CASE CompleteEvaluation(p)
  <2>1. v.pc = "idle"
    BY <1>7 DEF CompleteEvaluation, Finish, FrameTyped, Idle
  <2> QED
    BY <2>1, DeafListener, Places DEF Hearing
<1> QED
  BY <1>1, <1>2, <1>3, <1>4, <1>5, <1>6, <1>7 DEF EvaluationStep

\* The collector starts with nothing read and nothing asked for.
LEMMA CollectorStarts ==
  ASSUME FrameTyped, NEW p \in Processes, StartCollector(p)
  PROVE  Listener(workers'[p])
<1> DEFINE w == workers[p]
           v == workers'[p]
           idle == Changed(CollectorIdle, [pc |-> "start engine"])
           started == Changed(idle, [held |-> w.held \union {"collector"},
                                     running |-> w.running \union {"collector"}])
<1>1. Working(p, "start collector", started)
  BY DEF StartCollector, Starts
<1>2. /\ Telemetries \union {"pc"} \subseteq DOMAIN idle
      /\ idle.wire = {} /\ idle.events = {} /\ idle.arrived = {} /\ idle.broken = FALSE
      /\ idle.asked = {} /\ idle.pc = "start engine"
  BY DEF Changed, CollectorIdle, Telemetries
<1> HIDE DEF idle
<1>3. /\ Telemetries \union {"pc"} \subseteq DOMAIN started
      /\ \A f \in Telemetries \union {"pc"} : started[f] = idle[f]
  BY <1>2 DEF Changed, Telemetries
<1> HIDE DEF started
<1>a. v = Changed(w, started)
  BY <1>1, MoveChanges DEF Working
<1> HIDE DEF v, w
<1>4. /\ Telemetries \union {"pc"} \subseteq DOMAIN v
      /\ \A f \in Telemetries \union {"pc"} : v[f] = idle[f]
  BY <1>3, <1>a DEF Changed
<1>5. /\ Telemetries \subseteq DOMAIN v
      /\ v.wire = {} /\ v.events = {} /\ v.arrived = {} /\ v.broken = FALSE
      /\ v.asked = {} /\ v.pc = "start engine"
  BY <1>2, <1>4 DEF Telemetries
<1>6. v.pc # "await" /\ v.pc \notin Confirmed
  BY <1>5 DEF Confirmed, Concluding
<1>7. IsFiniteSet(v.asked)
  BY <1>5, FS_EmptySet
<1>8. Exact(v)
  BY <1>5, <1>6, <1>7 DEF Exact, Read
<1> QED
  BY <1>8 DEF Listener, v

LEMMA MovesQuietly ==
  ASSUME NEW at
  PROVE  /\ "pc" \in DOMAIN [pc |-> at] /\ [pc |-> at].pc = at
         /\ \A f \in Telemetries \union {"failing"} : f \notin DOMAIN [pc |-> at]
BY DEF Telemetries

LEMMA ServiceListener ==
  ASSUME FrameTyped, kind = "runtime_audit", NEW p \in Processes, Auditor(workers[p]),
         Listener(workers[p]), ServiceStep(p)
  PROVE  Listener(workers'[p])
<1> DEFINE w == workers[p]  v == workers'[p]
<1>p. w.pc # "idle" => {"pc", "failing"} \subseteq DOMAIN w
  BY DEF Auditor, Served
<1>q. ASSUME NEW at \in Hearing \ {"await"}, NEW to \in Hearing \ {"await"}, NEW changes,
             Working(p, at, changes), "pc" \in DOMAIN changes, changes.pc = to,
             \A f \in Telemetries \union {"failing"} : f \notin DOMAIN changes
      PROVE  Listener(v)
  <2>1. w.pc = at /\ v.pc = to
    BY <1>q, WorkingFields
  <2>2. "pc" \in DOMAIN w
    BY <1>p, <2>1, Places
  <2>3. to \notin Confirmed
    BY Places
  <2> QED
    BY <1>q, <2>1, <2>2, <2>3, QuietListener
<1>1. CASE LoadBindings(p) \/ LaunchServer(p) \/ ServerReady(p)
  <2>1. ASSUME NEW at, NEW changes, Working(p, at, changes), "pc" \in DOMAIN changes,
               changes.pc \notin Hearing \union Concluding \union Closing
        PROVE  Listener(v)
    BY <2>1, WorkingFields, DeafListener
  <2>2. {"start server", "unbound", "await server", "start collector"}
          \intersect (Hearing \union Concluding \union Closing) = {}
    BY DEF Hearing, Concluding, Closing
  <2>3. CASE LoadBindings(p)
    <3>1. PICK to \in {"start server", "unbound"} : Working(p, "bind evidence", [pc |-> to])
      BY <2>3 DEF LoadBindings
    <3> QED
      BY <2>1, <2>2, <3>1, MovesQuietly
  <2>4. CASE LaunchServer(p)
    <3> DEFINE changes == [pc |-> "await server", running |-> {"server"}]
    <3>1. /\ "pc" \in DOMAIN changes /\ changes.pc = "await server"
          /\ Working(p, "start server", changes)
      BY <2>4 DEF LaunchServer
    <3> HIDE DEF changes
    <3> QED
      BY <2>1, <2>2, <3>1
  <2>5. CASE ServerReady(p)
    <3> DEFINE changes == [pc |-> "start collector", held |-> {"server"}]
    <3>1. /\ "pc" \in DOMAIN changes /\ changes.pc = "start collector"
          /\ Working(p, "await server", changes)
      BY <2>5 DEF ServerReady
    <3> HIDE DEF changes
    <3> QED
      BY <2>1, <2>2, <3>1
  <2> QED
    BY <1>1, <2>3, <2>4, <2>5
<1>2. CASE ServerNotReady(p) \/ Raise(p)
  <2>1. PICK running, stuck : Failing(p, running, stuck)
    BY <1>2 DEF ServerNotReady, Raise
  <2>2. v.pc = "close engine" /\ v.failing = TRUE
    BY <2>1 DEF Failing, FrameTyped
  <2> QED
    BY <2>2, Places DEF Listener, Heard, Closing
<1>3. CASE StartCollector(p)
  BY <1>3, CollectorStarts
<1>4. CASE StartEngine(p) \/ StartWriter(p)
  <2>1. PICK at \in {"start engine", "start writer"}, to \in {"start writer", "load models"},
             service \in Services : Starts(p, at, service, [pc |-> to])
    BY <1>4 DEF StartEngine, StartWriter, Services
  <2> DEFINE changes == Changed([pc |-> to], [held |-> w.held \union {service},
                                              running |-> w.running \union {service}])
  <2>2. DOMAIN changes = {"pc", "held", "running"} /\ changes.pc = to
    BY DEF Changed
  <2>3. Working(p, at, changes)
    BY <2>1 DEF Starts
  <2>4. at \in Hearing \ {"await"} /\ to \in Hearing \ {"await"}
    BY DEF Hearing
  <2> HIDE DEF changes
  <2>5. \A f \in Telemetries \union {"failing"} : f \notin DOMAIN changes
    BY <2>2 DEF Telemetries
  <2> QED
    BY <1>q, <2>2, <2>3, <2>4, <2>5
<1>5. CASE LoadModels(p)
  <2>1. Working(p, "load models", [pc |-> "prepare prefixes"])
    BY <1>5 DEF LoadModels
  <2> QED
    BY <1>q, <2>1, MovesQuietly DEF Hearing
<1>6. CASE PreparePrefixes(p)
  <2>1. PICK assets : Working(p, "prepare prefixes", [pc |-> "warm up", assets |-> assets])
    BY <1>6 DEF PreparePrefixes
  <2> DEFINE changes == [pc |-> "warm up", assets |-> assets]
  <2>2. /\ Working(p, "prepare prefixes", changes) /\ DOMAIN changes = {"pc", "assets"}
        /\ changes.pc = "warm up"
    BY <2>1
  <2> HIDE DEF changes
  <2>3. \A f \in Telemetries \union {"failing"} : f \notin DOMAIN changes
    BY <2>2 DEF Telemetries
  <2> QED
    BY <1>q, <2>2, <2>3 DEF Hearing
<1>c. ASSUME NEW at \in Closing, NEW to \in Closing, NEW held, NEW running, NEW stuck,
             Working(p, at, [pc |-> to, held |-> held, running |-> running, stuck |-> stuck]),
             to \in Confirmed => at \in Confirmed
      PROVE  Listener(v)
  <2> DEFINE changes == [pc |-> to, held |-> held, running |-> running, stuck |-> stuck]
  <2>1. DOMAIN changes = {"pc", "held", "running", "stuck"} /\ changes.pc = to
    OBVIOUS
  <2>2. Working(p, at, changes)
    BY <1>c
  <2> HIDE DEF changes
  <2>3. w.pc = at /\ v.pc = to
    BY <2>1, <2>2, WorkingFields
  <2>4. {"pc", "failing"} \subseteq DOMAIN w /\ at # "await" /\ to # "await"
    BY <1>p, <2>3, Places
  <2>5. \A f \in Telemetries \union {"failing"} : f \notin DOMAIN changes
    BY <2>1 DEF Telemetries
  <2> QED
    BY <1>c, <2>2, <2>3, <2>4, <2>5, QuietListener
<1>7. CASE StopEngine(p)
  <2>1. "close engine" \in Closing /\ "drain" \in Closing /\ "drain" \notin Confirmed
    BY DEF Closing, Confirmed, Concluding
  <2> QED
    BY <1>7, <1>c, <2>1 DEF StopEngine, StopService
<1>8. CASE CloseCollector(p) \/ CloseWriter(p) \/ StopServer(p)
  <2>1. {"close collector", "close writer", "close server", "closed"} \subseteq Closing \intersect Confirmed
    BY DEF Closing, Confirmed
  <2> QED
    BY <1>8, <1>c, <2>1 DEF CloseCollector, CloseWriter, StopServer, StopService
<1>9. CASE DrainOnClose(p)
  <2>1. PICK failing : failing = (w.failing \/ ~Drained(p))
    OBVIOUS
  <2> DEFINE changes == [pc |-> "close collector", failing |-> failing]
  <2>2. Working(p, "drain", changes) /\ DOMAIN changes = {"pc", "failing"}
    BY <1>9, <2>1 DEF DrainOnClose
  <2>3. w.pc = "drain" /\ w.failing \in BOOLEAN
    BY <2>2, WorkingAt, Places DEF Auditor, Served, Closing
  <2>4. failing \in BOOLEAN /\ (failing = FALSE => w.failing = FALSE /\ ~w.broken)
    BY <2>1, <2>3 DEF Drained
  <2>5. changes.pc = "close collector" /\ changes.failing = failing
    OBVIOUS
  <2> HIDE DEF changes
  <2>a. /\ DOMAIN v = DOMAIN w \union DOMAIN changes
        /\ \A f \in DOMAIN changes : v[f] = changes[f]
        /\ \A f \in DOMAIN w \ DOMAIN changes : v[f] = w[f]
    BY <2>2, WorkingFields
  <2>b. \A f \in Telemetries : f \notin DOMAIN changes
    BY <2>2 DEF Telemetries
  <2>6. v.pc = "close collector" /\ v.failing = failing /\ Keeps(w, v, Telemetries)
    BY <2>2, <2>5, <2>a, <2>b DEF Keeps
  <2> HIDE DEF w, v
  <2>7. CASE failing = FALSE
    <3>1. Heard(w)
      BY <2>3, <2>4, <2>7 DEF Heard, Closing
    <3>2. Exact(w)
      BY <3>1 DEF Listener, w
    <3>3. w.broken = FALSE
      BY <2>4, <2>7, <3>2 DEF Exact
    <3>4. Exact(v)
      BY <2>3, <2>6, <3>2, <3>3, StaysExact
    <3> QED
      BY <3>4 DEF Listener, v
  <2>8. CASE failing # FALSE
    <3>1. ~Heard(v)
      BY <2>6, <2>8, Places DEF Heard, Closing
    <3> QED
      BY <3>1 DEF Listener, v
  <2> QED
    BY <2>7, <2>8
<1>10. CASE EndClose(p)
  <2>1. w.pc = "closed" /\ Working(p, "closed", IF w.failing \/ w.stuck # {} THEN [pc |-> "raised"]
                                                ELSE Onward(p))
    BY <1>10, WorkingAt DEF EndClose
  <2>2. Served(w) /\ OnCourse(w) /\ "closed" \in Closing
    BY <2>1 DEF Auditor, Closing
  <2>3. {"pc", "failing"} \subseteq DOMAIN w /\ w.failing \in BOOLEAN
    BY <2>2 DEF Served
  <2>4. CASE w.failing \/ w.stuck # {}
    <3>1. v.pc = "raised"
      BY <2>1, <2>3, <2>4, MoveStep
    <3> QED
      BY <3>1, DeafListener, Places DEF Hearing
  <2>5. CASE ~w.failing /\ w.stuck = {}
    <3>1. w.failing = FALSE
      BY <2>3, <2>5
    <3>2. "course" \in DOMAIN w /\ w.course = AuditCourse
      BY <2>1, <2>2, <3>1 DEF OnCourse
    <3> DEFINE changes == [pc |-> Head(AuditCourse), course |-> Tail(AuditCourse)]
    <3>3. Working(p, "closed", changes) /\ DOMAIN changes = {"pc", "course"}
      BY <2>1, <2>5, <3>2 DEF Onward
    <3>4. changes.pc \in Concluding
      BY CourseGoesOn
    <3> HIDE DEF changes
    <3>5. v.pc \in Concluding /\ Keeps(w, v, Telemetries)
      BY <3>3, <3>4, WorkingFields DEF Keeps, Telemetries
    <3> HIDE DEF w, v
    <3>6. Exact(w)
      BY <2>1, <2>2, <3>1 DEF Listener, Heard, w
    <3>7. w.broken = FALSE
      BY <2>1, <3>6 DEF Exact, Confirmed
    <3>8. Exact(v)
      BY <2>1, <3>5, <3>6, <3>7, StaysExact, Places
    <3> QED
      BY <3>8 DEF Listener, v
  <2> QED
    BY <2>4, <2>5
<1> QED
  BY <1>1, <1>2, <1>3, <1>4, <1>5, <1>6, <1>7, <1>8, <1>9, <1>10 DEF ServiceStep

\* A request is for one event or for two, in the order they are awaited in.
LEMMA EventsAwaited ==
  ASSUME NEW id, NEW accepted
  PROVE  /\ IsFiniteSet(Range(EventsOf(id, accepted)))
         /\ \/ \E e : EventsOf(id, accepted) = <<e>> /\ Range(EventsOf(id, accepted)) = {e}
            \/ \E e, f : EventsOf(id, accepted) = <<e, f>> /\ Range(EventsOf(id, accepted)) = {e, f}
<1>1. \A e : Range(<<e>>) = {e}
  BY DEF Range
<1>2. \A e, f : Range(<<e, f>>) = {e, f}
  <2> TAKE e, f
  <2> DEFINE s == <<e, f>>
  <2>1. DOMAIN s = {1, 2} /\ s[1] = e /\ s[2] = f
    OBVIOUS
  <2> HIDE DEF s
  <2>2. Range(s) = {e, f}
    BY <2>1 DEF Range
  <2> QED
    BY <2>2 DEF s
<1>3. \A e, f : IsFiniteSet({e}) /\ IsFiniteSet({e, f})
  <2> TAKE e, f
  <2>1. IsFiniteSet({e}) /\ IsFiniteSet({e} \union {f})
    BY FS_Singleton, FS_AddElement
  <2>2. {e, f} = {e} \union {f}
    OBVIOUS
  <2> QED
    BY <2>1, <2>2
<1>4. CASE accepted
  <2>1. EventsOf(id, accepted) = <<Telemetry(id, "gate"), Telemetry(id, "execution")>>
    BY <1>4 DEF EventsOf
  <2>2. PICK e, f : EventsOf(id, accepted) = <<e, f>>
    BY <2>1
  <2>3. Range(EventsOf(id, accepted)) = {e, f}
    BY <1>2, <2>2
  <2>4. IsFiniteSet(Range(EventsOf(id, accepted)))
    BY <1>3, <2>3
  <2> QED
    BY <2>2, <2>3, <2>4
<1>5. CASE ~accepted
  <2>1. EventsOf(id, accepted) = <<Telemetry(id, "gate")>>
    BY <1>5 DEF EventsOf
  <2>2. PICK e : EventsOf(id, accepted) = <<e>>
    BY <2>1
  <2>3. Range(EventsOf(id, accepted)) = {e}
    BY <1>1, <2>2
  <2>4. IsFiniteSet(Range(EventsOf(id, accepted)))
    BY <1>3, <2>3
  <2> QED
    BY <2>2, <2>3, <2>4
<1> QED
  BY <1>4, <1>5

\* Whatever reaches the collector of a request is about its events.
LEMMA RequestSends ==
  ASSUME NEW p, NEW at, NEW id, NEW accepted, NEW others, Request(p, at, id, accepted, others)
  PROVE  \E onWire :
           /\ \A line \in onWire : line.event \in Range(EventsOf(id, accepted))
           /\ Working(p, at, Changed(others,
                [pc |-> "await", awaited |-> EventsOf(id, accepted),
                 wire |-> workers[p].wire \union onWire,
                 asked |-> workers[p].asked \union Range(EventsOf(id, accepted))]))
<1> DEFINE events == Range(EventsOf(id, accepted))
<1>1. PICK resent \in SUBSET events :
        \E lines \in [resent -> UNION {Resent(event) : event \in resent}] :
          /\ \A event \in resent : lines[event] \in Resent(event)
          /\ Working(p, at, Changed(others,
               [pc |-> "await", awaited |-> EventsOf(id, accepted),
                wire |-> workers[p].wire \union
                           UNION {IF event \in resent THEN lines[event] ELSE Sent(event) :
                                    event \in events},
                asked |-> workers[p].asked \union events]))
  BY DEF Request
<1>2. PICK lines :
          /\ \A event \in resent : lines[event] \in Resent(event)
          /\ Working(p, at, Changed(others,
               [pc |-> "await", awaited |-> EventsOf(id, accepted),
                wire |-> workers[p].wire \union
                           UNION {IF event \in resent THEN lines[event] ELSE Sent(event) :
                                    event \in events},
                asked |-> workers[p].asked \union events]))
  BY <1>1
<1> DEFINE onWire == UNION {IF event \in resent THEN lines[event] ELSE Sent(event) : event \in events}
<1>3. \A event : \A line \in Sent(event) : line.event = event
  BY DEF Sent, Line
<1>4. \A event : \A sent \in Resent(event) : \A line \in sent : line.event = event
  BY DEF Resent, Sent, Line
<1>5. \A line \in onWire : line.event \in events
  <2> TAKE line \in onWire
  <2>1. PICK event \in events : line \in IF event \in resent THEN lines[event] ELSE Sent(event)
    OBVIOUS
  <2>2. line.event = event
    BY <1>2, <1>3, <1>4, <2>1
  <2> QED
    BY <2>1, <2>2
<1> QED
  BY <1>2, <1>5

LEMMA RequestListener ==
  ASSUME FrameTyped, NEW p \in Processes, Auditor(workers[p]), Listener(workers[p]),
         NEW at \in Hearing \ {"await"}, NEW id, NEW accepted,
         NEW onward \in {"drain warmup", "save sample", "noncausal", "drain probe"},
         Request(p, at, id, accepted, [after |-> onward])
  PROVE  Listener(workers'[p])
<1> DEFINE events == Range(EventsOf(id, accepted))
           w == workers[p]
           v == workers'[p]
<1>1. PICK onWire :
           /\ \A line \in onWire : line.event \in events
           /\ Working(p, at, Changed([after |-> onward],
                [pc |-> "await", awaited |-> EventsOf(id, accepted),
                 wire |-> w.wire \union onWire, asked |-> w.asked \union events]))
  BY RequestSends
<1> DEFINE changes == Changed([after |-> onward],
                [pc |-> "await", awaited |-> EventsOf(id, accepted),
                 wire |-> w.wire \union onWire, asked |-> w.asked \union events])
<1>2. /\ DOMAIN changes = {"after", "pc", "awaited", "wire", "asked"}
      /\ changes.pc = "await" /\ changes.after = onward
      /\ changes.awaited = EventsOf(id, accepted)
      /\ changes.wire = w.wire \union onWire /\ changes.asked = w.asked \union events
  BY DEF Changed
<1>3. Working(p, at, changes)
  BY <1>1
<1> HIDE DEF changes
<1>4. w.pc = at /\ v = Changed(w, changes)
  BY <1>3, MoveChanges DEF Working, At
<1> HIDE DEF w, v
<1>5. Exact(w)
  BY <1>4 DEF Listener, Heard, w
<1>6. /\ DOMAIN v = DOMAIN w \union DOMAIN changes
      /\ \A f \in DOMAIN changes : v[f] = changes[f]
      /\ \A f \in DOMAIN w \ DOMAIN changes : v[f] = w[f]
  BY <1>4 DEF Changed
<1>7. /\ v.pc = "await" /\ "after" \in DOMAIN v /\ v.after = onward
      /\ v.awaited = EventsOf(id, accepted)
      /\ v.wire = w.wire \union onWire /\ v.asked = w.asked \union events
  BY <1>2, <1>6
<1>8. /\ Telemetries \ {"after"} \subseteq DOMAIN v
      /\ v.events = w.events /\ v.arrived = w.arrived /\ v.broken = w.broken
  <2>1. {"wire", "events", "arrived", "broken", "asked", "awaited"} \subseteq DOMAIN w
    BY <1>5 DEF Exact, Telemetries
  <2> QED
    BY <1>2, <1>6, <2>1 DEF Telemetries
<1>9. Read(v) = Read(w)
  BY <1>8 DEF Read
<1>10. IsFiniteSet(v.asked)
  <2>1. IsFiniteSet(w.asked) /\ IsFiniteSet(events)
    BY <1>5, EventsAwaited DEF Exact
  <2>2. IsFiniteSet(w.asked \union events)
    BY <2>1, FS_Union
  <2> QED
    BY <1>7, <2>2
<1>11. \A line \in v.wire \union v.arrived : line.event \in v.asked
  BY <1>1, <1>5, <1>7, <1>8 DEF Exact
<1>12. w.asked \subseteq Read(v)
  BY <1>4, <1>5, <1>9 DEF Exact
<1>13. \/ \E e : v.awaited = <<e>> /\ v.asked \ {e} \subseteq Read(v)
       \/ \E e, f : v.awaited = <<e, f>> /\ v.asked \ {e, f} \subseteq Read(v)
  <2>1. CASE \E e : EventsOf(id, accepted) = <<e>> /\ events = {e}
    BY <1>7, <1>12, <2>1
  <2>2. CASE \E e, f : EventsOf(id, accepted) = <<e, f>> /\ events = {e, f}
    BY <1>7, <1>12, <2>2
  <2> QED
    BY <2>1, <2>2, EventsAwaited
<1>14. Exact(v)
  <2>1. v.pc \notin Confirmed
    BY <1>7, Places
  <2> QED
    BY <1>5, <1>7, <1>8, <1>9, <1>10, <1>11, <1>13, <2>1 DEF Exact
<1> QED
  BY <1>14 DEF Listener, v

\* A line is read.
LEMMA DeliverListener ==
  ASSUME FrameTyped, NEW p \in Processes, Auditor(workers[p]), Listener(workers[p]), Deliver(p)
  PROVE  Listener(workers'[p])
<1> DEFINE w == workers[p]
           v == workers'[p]
           fails(line) == ~line.whole \/ line.event \in Read(w)
<1>1. PICK line \in w.wire : Working(p, w.pc, Accept(p, line))
  BY DEF Deliver
<1> DEFINE changes == Accept(p, line)
<1>2. /\ DOMAIN changes = {"wire", "arrived", "broken", "events"}
      /\ changes.wire = w.wire \ {line} /\ changes.arrived = w.arrived \union {line}
      /\ changes.events = IF fails(line) THEN w.events ELSE w.events \union {line.event}
  BY DEF Accept, Seen, Read
<1>b. changes.broken = (w.broken \/ fails(line))
  BY DEF Accept, Seen, Read
<1>3. Working(p, w.pc, changes)
  BY <1>1
<1>4. w.pc \in {"evaluate", "measure", "await", "save sample", "drain warmup", "drain probe",
                "close engine", "drain"} /\ ~w.failing
  BY DEF Deliver, Listening
<1>5. w.failing \in BOOLEAN /\ "pc" \in DOMAIN w
  BY <1>4 DEF Auditor, Served
<1> HIDE DEF changes
<1>6. v = Changed(w, changes)
  BY <1>3, MoveChanges DEF Working
<1> HIDE DEF w, v
<1>7. Exact(w) /\ w.pc \notin Confirmed
  <2>1. Heard(w)
    BY <1>4, <1>5 DEF Heard, Hearing, Closing
  <2>2. w.pc \notin Confirmed
    BY <1>4 DEF Confirmed, Concluding
  <2> QED
    BY <2>1, <2>2 DEF Listener, w
<1>8. /\ DOMAIN v = DOMAIN w \union DOMAIN changes
      /\ \A f \in DOMAIN changes : v[f] = changes[f]
      /\ \A f \in DOMAIN w \ DOMAIN changes : v[f] = w[f]
  BY <1>6 DEF Changed
<1>9. /\ v.wire = w.wire \ {line} /\ v.arrived = w.arrived \union {line}
      /\ v.events = IF fails(line) THEN w.events ELSE w.events \union {line.event}
  BY <1>2, <1>8
<1>10. v.broken = (w.broken \/ fails(line))
  BY <1>2, <1>8, <1>b
<1>11. /\ Telemetries \ {"after"} \subseteq DOMAIN v
       /\ v.pc = w.pc /\ v.asked = w.asked /\ v.awaited = w.awaited
       /\ "after" \in DOMAIN w => "after" \in DOMAIN v /\ v.after = w.after
  <2>1. {"wire", "events", "arrived", "broken", "asked", "awaited"} \subseteq DOMAIN w
    BY <1>7 DEF Exact, Telemetries
  <2> QED
    BY <1>2, <1>5, <1>8, <2>1 DEF Telemetries
<1>12. w.broken \in BOOLEAN /\ v.broken \in BOOLEAN
  BY <1>7, <1>10 DEF Exact
<1>13. Read(w) \subseteq Read(v) /\ (line.whole => line.event \in Read(v))
  BY <1>9 DEF Read
<1>14. v.events \subseteq Read(v)
  BY <1>7, <1>9, <1>13 DEF Exact
<1>15. \A other \in v.wire \union v.arrived : other.event \in v.asked
  BY <1>1, <1>7, <1>9, <1>11 DEF Exact, w
<1>16. ASSUME v.broken = FALSE
       PROVE  /\ \A other \in v.arrived : other.whole
              /\ \A one, other \in v.arrived : one.event = other.event => one = other
  <2>1. w.broken = FALSE /\ line.whole /\ line.event \notin Read(w)
    BY <1>10, <1>12, <1>16
  <2>2. /\ \A other \in w.arrived : other.whole
        /\ \A one, other \in w.arrived : one.event = other.event => one = other
    BY <1>7, <2>1 DEF Exact
  <2>3. \A other \in w.arrived : other.event # line.event
    BY <2>1, <2>2 DEF Read
  <2> QED
    BY <1>9, <2>1, <2>2, <2>3
<1>17. Exact(v)
  <2>1. v.pc # "await" => v.asked \subseteq Read(v)
    BY <1>7, <1>11, <1>13 DEF Exact
  <2>2. v.pc = "await" =>
          /\ \/ \E e : v.awaited = <<e>> /\ v.asked \ {e} \subseteq Read(v)
             \/ \E e, f : v.awaited = <<e, f>> /\ v.asked \ {e, f} \subseteq Read(v)
          /\ "after" \in DOMAIN v
          /\ v.after \in {"drain warmup", "save sample", "noncausal", "drain probe"}
    BY <1>7, <1>11, <1>13 DEF Exact
  <2>3. IsFiniteSet(v.asked) /\ v.pc \notin Confirmed
    BY <1>7, <1>11 DEF Exact
  <2> QED
    BY <1>11, <1>12, <1>14, <1>15, <1>16, <2>1, <2>2, <2>3 DEF Exact
<1> QED
  BY <1>17 DEF Listener, v

\* The first of the awaited events is there.
LEMMA WaitListener ==
  ASSUME FrameTyped, NEW p \in Processes, Auditor(workers[p]), Listener(workers[p]),
         NEW sort, WaitFor(p, sort)
  PROVE  Listener(workers'[p])
<1> DEFINE w == workers[p]
           v == workers'[p]
           changes == [pc |-> IF Len(w.awaited) = 1 THEN w.after ELSE "await",
                       awaited |-> Tail(w.awaited), events |-> w.events \ {Head(w.awaited)}]
<1>1. Working(p, "await", changes) /\ Head(w.awaited) \in w.events
  BY DEF WaitFor
<1>2. /\ DOMAIN changes = {"pc", "awaited", "events"}
      /\ changes.pc = IF Len(w.awaited) = 1 THEN w.after ELSE "await"
      /\ changes.awaited = Tail(w.awaited) /\ changes.events = w.events \ {Head(w.awaited)}
  OBVIOUS
<1> HIDE DEF changes
<1>3. w.pc = "await" /\ v = Changed(w, changes)
  BY <1>1, MoveChanges DEF Working, At
<1> HIDE DEF w, v
<1>4. Exact(w)
  BY <1>3 DEF Listener, Heard, Hearing, w
<1>5. /\ DOMAIN v = DOMAIN w \union DOMAIN changes
      /\ \A f \in DOMAIN changes : v[f] = changes[f]
      /\ \A f \in DOMAIN w \ DOMAIN changes : v[f] = w[f]
  BY <1>3 DEF Changed
<1>6. /\ v.pc = IF Len(w.awaited) = 1 THEN w.after ELSE "await"
      /\ v.awaited = Tail(w.awaited) /\ v.events = w.events \ {Head(w.awaited)}
  BY <1>2, <1>5
<1>7. /\ Telemetries \ {"after"} \subseteq DOMAIN v
      /\ v.wire = w.wire /\ v.arrived = w.arrived /\ v.broken = w.broken /\ v.asked = w.asked
  <2>1. {"wire", "events", "arrived", "broken", "asked", "awaited"} \subseteq DOMAIN w
    BY <1>4 DEF Exact, Telemetries
  <2> QED
    BY <1>2, <1>5, <2>1 DEF Telemetries
<1>a. "after" \in DOMAIN v /\ v.after = w.after
  BY <1>2, <1>3, <1>4, <1>5 DEF Exact
<1>8. Read(v) = Read(w) /\ Head(w.awaited) \in Read(v)
  BY <1>1, <1>4, <1>7 DEF Read, Exact, w
<1>9. w.after \in {"drain warmup", "save sample", "noncausal", "drain probe"}
  BY <1>3, <1>4 DEF Exact
<1>10. CASE \E e : w.awaited = <<e>> /\ w.asked \ {e} \subseteq Read(w)
  <2>1. PICK e : w.awaited = <<e>> /\ w.asked \ {e} \subseteq Read(w)
    BY <1>10
  <2>2. Len(w.awaited) = 1 /\ Head(w.awaited) = e
    BY <2>1
  <2>3. v.pc = w.after /\ v.asked \subseteq Read(v)
    BY <1>6, <1>7, <1>8, <2>1, <2>2
  <2>4. v.pc # "await" /\ v.pc \notin Confirmed
    BY <1>9, <2>3 DEF Confirmed, Concluding
  <2> QED
    BY <1>4, <1>6, <1>7, <1>8, <2>3, <2>4 DEF Exact, Listener, v
<1>11. CASE \E e, f : w.awaited = <<e, f>> /\ w.asked \ {e, f} \subseteq Read(w)
  <2>1. PICK e, f : w.awaited = <<e, f>> /\ w.asked \ {e, f} \subseteq Read(w)
    BY <1>11
  <2>2. Len(w.awaited) = 2 /\ Head(w.awaited) = e /\ Tail(w.awaited) = <<f>>
    BY <2>1
  <2>3. v.pc = "await" /\ v.awaited = <<f>>
    BY <1>6, <2>2
  <2>4. v.asked \ {f} \subseteq Read(v)
    BY <1>7, <1>8, <2>1, <2>2
  <2>5. v.pc \notin Confirmed
    BY <2>3, Places
  <2> QED
    BY <1>4, <1>6, <1>7, <1>8, <1>9, <1>a, <2>3, <2>4, <2>5 DEF Exact, Listener, v
<1> QED
  BY <1>3, <1>4, <1>10, <1>11 DEF Exact

\* The steps of the audit itself.
LEMMA AuditListener ==
  ASSUME FrameTyped, kind = "runtime_audit", NEW p \in Processes, Auditor(workers[p]),
         Listener(workers[p]), AuditStep(p)
  PROVE  Listener(workers'[p])
<1> DEFINE w == workers[p]  v == workers'[p]
<1>p. w.pc # "idle" => {"pc", "failing"} \subseteq DOMAIN w
  BY DEF Auditor, Served
<1>q. ASSUME NEW at \in Hearing \ {"await"}, NEW to, to \notin Confirmed \union {"await"}, NEW changes,
             Working(p, at, changes), v.pc = to,
             \A f \in Telemetries \union {"failing"} : f \notin DOMAIN changes
      PROVE  Listener(v)
  <2>1. w.pc = at /\ "pc" \in DOMAIN w
    BY <1>p, <1>q, WorkingAt, Places
  <2> QED
    BY <1>q, <2>1, QuietListener
<1>m. ASSUME NEW at \in Hearing \ {"await"}, NEW to, to \notin Confirmed \union {"await"},
             Working(p, at, [pc |-> to])
      PROVE  Listener(v)
  <2>1. v.pc = to
    <3>1. w.pc = at /\ "pc" \in DOMAIN w
      BY <1>p, <1>m, WorkingAt, Places
    <3> QED
      BY <1>m, <3>1, MoveStep
  <2> QED
    BY <1>m, <1>q, <2>1, MovesQuietly
<1>0. CASE ServiceStep(p)
  BY <1>0, ServiceListener
<1>1. CASE BeginAudit(p)
  <2> DEFINE fields == Changed(NoServices, EvaluationIdle)
             others == [pc |-> "bind evidence", course |-> AuditCourse]
  <2>1. DOMAIN others = {"pc", "course"} /\ others.pc = "bind evidence"
    OBVIOUS
  <2>2. Begin(p, {"runtime_audit"}, Changed(fields, others))
    BY <1>1 DEF BeginAudit
  <2> HIDE DEF fields, others
  <2>a. /\ DOMAIN fields \union DOMAIN others \union {"attempt"} \subseteq DOMAIN v
        /\ \A f \in DOMAIN others : v[f] = others[f]
        /\ \A f \in DOMAIN fields \ (DOMAIN others \union {"attempt"}) : v[f] = fields[f]
    BY <2>1, <2>2, BeginChanges
  <2>3. v.pc = "bind evidence"
    BY <2>1, <2>a
  <2> QED
    BY <2>3, DeafListener DEF Hearing, Concluding, Closing
<1>2. CASE Warmup(p)
  BY <1>2, RequestListener DEF Warmup, Hearing
<1>3. CASE RestoreAudit(p)
  <2>1. PICK changes \in {TakenUp(p, Found(p)), [pc |-> "refused"]} : Working(p, "evaluate", changes)
    BY <1>3 DEF RestoreAudit, RestoreRow
  <2>2. CASE changes = [pc |-> "refused"]
    BY <1>m, <2>1, <2>2 DEF Hearing, Confirmed, Concluding
  <2>3. CASE changes = TakenUp(p, Found(p))
    <3>1. DOMAIN changes = {"row", "measured", "histories"}
      BY <2>3 DEF TakenUp
    <3>2. w.pc = "evaluate" /\ "pc" \in DOMAIN w
      BY <1>p, <2>1, WorkingAt
    <3>3. v.pc = "evaluate" /\ \A f \in Telemetries \union {"failing"} : f \notin DOMAIN changes
      BY <2>1, <3>1, <3>2, WorkingFields DEF Telemetries
    <3> QED
      BY <1>q, <2>1, <3>3 DEF Hearing, Confirmed, Concluding
  <2> QED
    BY <2>1, <2>2, <2>3
<1>4. CASE BuildObservation(p)
  <2>1. PICK example : Working(p, "evaluate", [pc |-> "measure", example |-> example])
    BY <1>4 DEF BuildObservation
  <2> DEFINE changes == [pc |-> "measure", example |-> example]
  <2>2. DOMAIN changes = {"pc", "example"} /\ changes.pc = "measure"
    OBVIOUS
  <2>3. Working(p, "evaluate", changes)
    BY <2>1
  <2> HIDE DEF changes
  <2>4. v.pc = "measure" /\ \A f \in Telemetries \union {"failing"} : f \notin DOMAIN changes
    BY <2>2, <2>3, WorkingFields DEF Telemetries
  <2> QED
    BY <1>q, <2>3, <2>4 DEF Hearing, Confirmed, Concluding
<1>5. CASE MeasurePair(p)
  <2>1. PICK onward \in {"save sample", "noncausal"} :
          Request(p, "measure", w.row, w.example.decision = "accepted", [after |-> onward])
    BY <1>5 DEF MeasurePair
  <2> QED
    BY <2>1, RequestListener DEF Hearing
<1>6. CASE ProbeFailure(p)
  BY <1>6, RequestListener DEF ProbeFailure, Hearing
<1>7. CASE Deliver(p)
  BY <1>7, DeliverListener
<1>8. CASE ConsumeGateEvent(p) \/ ConsumeExecutionEvent(p)
  BY <1>8, WaitListener DEF ConsumeGateEvent, ConsumeExecutionEvent
<1>9. CASE DrainWarmup(p)
  BY <1>m, <1>9 DEF DrainWarmup, Drain, Hearing, Confirmed, Concluding
<1>10. CASE DrainProbe(p)
  BY <1>m, <1>10 DEF DrainProbe, Drain, Hearing, Confirmed, Concluding
<1>o. DOMAIN Onward(p) = {"pc", "course"} /\ Onward(p).pc = Head(w.course)
  BY DEF Onward
<1>r. ASSUME NEW at \in Concluding, Working(p, at, [pc |-> "rejected"])
      PROVE  Listener(v)
  <2>1. w.pc = at /\ "pc" \in DOMAIN w
    BY <1>p, <1>r, WorkingAt, Places
  <2>2. v.pc = "rejected"
    BY <1>r, <2>1, MoveStep
  <2> QED
    BY <2>2, DeafListener, Places DEF Hearing
<1>11. CASE ConcludeAudit(p)
  <2>1. PICK result : \/ Working(p, "conclude", Changed(Onward(p), [result |-> result]))
                      \/ Working(p, "conclude", [pc |-> "rejected"])
    BY <1>11 DEF ConcludeAudit, Conclude
  <2>2. CASE Working(p, "conclude", Changed(Onward(p), [result |-> result]))
    <3> DEFINE changes == Changed(Onward(p), [result |-> result])
    <3>1. DOMAIN changes = {"pc", "course", "result"} /\ changes.pc = Head(w.course)
      BY <1>o DEF Changed
    <3>2. Working(p, "conclude", changes)
      BY <2>2
    <3> HIDE DEF changes
    <3> QED
      BY <3>1, <3>2, OnwardListener DEF Concluding, Telemetries
  <2> QED
    BY <1>r, <2>1, <2>2 DEF Concluding
<1>12. CASE WriteApproved(p)
  <2>1. Working(p, "artifact", Onward(p))
    BY <1>12 DEF WriteApproved, WriteArtifact
  <2> QED
    BY <1>o, <2>1, OnwardListener DEF Concluding, Telemetries
<1>13. CASE WriteRuntimeManifest(p)
  <2>1. Working(p, "manifest", Onward(p)) \/ Working(p, "manifest", [pc |-> "rejected"])
    BY <1>13 DEF WriteRuntimeManifest, WriteManifest
  <2>2. CASE Working(p, "manifest", Onward(p))
    BY <1>o, <2>2, OnwardListener DEF Concluding, Telemetries
  <2> QED
    BY <1>r, <2>1, <2>2 DEF Concluding
<1> QED
  BY <1>0, <1>1, <1>2, <1>3, <1>4, <1>5, <1>6, <1>7, <1>8, <1>9, <1>10, <1>11, <1>12, <1>13
  DEF AuditStep

LEMMA TelemetryInvStep ==
  ASSUME FrameTyped, AuditInv, TelemetryInv, [Next]_vars
  PROVE  TelemetryInv'
<1> SUFFICES ASSUME kind = "runtime_audit", kind' = "runtime_audit", NEW q \in Processes
             PROVE  Listener(workers'[q])
  BY FrameStep DEF TelemetryInv
<1>1. CASE UNCHANGED vars
  BY <1>1 DEF TelemetryInv
<1>2. CASE PowerLoss
  BY <1>2 DEF PowerLoss, Fits
<1>3. ASSUME NEW p \in Processes,
             Fitting(p) \/ Collecting(p) \/ Evaluating(p) \/ Stopping(p)
      PROVE  Listener(workers'[q])
  <2>1. Auditor(workers[p]) /\ Listener(workers[p]) /\ Listener(workers[q])
    BY DEF AuditInv, TelemetryInv
  <2>2. workers[p].pc \in AuditPlaces \union {"idle"}
    BY <2>1 DEF Auditor, Served
  <2>3. EvaluationStep(p) \/ AuditStep(p) \/ Stopping(p)
    BY <1>3, <2>2, OnlyAuditing
  <2>4. Listener(workers'[p])
    <3>1. CASE Stopping(p)
      <4>1. workers'[p].pc = "idle"
        BY <3>1 DEF Stopping, FailStage, Crash, FrameTyped, Idle
      <4> QED
        BY <4>1, DeafListener, Places DEF Hearing
    <3> QED
      BY <2>1, <2>3, <3>1, EvaluationListener, AuditListener
  <2>5. q # p => workers'[q] = workers[q]
    BY <1>3, StepActs DEF Acts
  <2> QED
    BY <2>1, <2>4, <2>5
<1> QED
  BY <1>1, <1>2, <1>3 DEF Next

\* Read exactly once: the lines read and the events asked for are as many.
LEMMA ExactlyRead ==
  ASSUME NEW w, Exact(w), w.pc \in Concluding
  PROVE  Read(w) = w.asked /\ Cardinality(w.arrived) = Cardinality(w.asked)
<1> DEFINE event == [line \in w.arrived |-> line.event]
<1>1. w.broken = FALSE /\ w.pc # "await"
  BY Places DEF Exact, Confirmed
<1>2. /\ \A line \in w.arrived : line.whole /\ line.event \in w.asked
      /\ \A line, other \in w.arrived : line.event = other.event => line = other
      /\ w.asked \subseteq Read(w)
  BY <1>1 DEF Exact
<1>3. Read(w) = w.asked
  BY <1>2 DEF Read
<1>4. event \in Injection(w.arrived, w.asked)
  BY <1>2 DEF Injection, IsInjective
<1>5. event \in Surjection(w.arrived, w.asked)
  BY <1>2 DEF Surjection, Read
<1>6. IsFiniteSet(w.asked)
  BY DEF Exact
<1> HIDE DEF event
<1>7. Cardinality(w.arrived) = Cardinality(w.asked)
  BY <1>4, <1>5, <1>6, FS_Injection
<1> QED
  BY <1>3, <1>7

\* An audit that has closed its evaluator has read each event of its own requests exactly
\* once up to then, and no broken line: with any number of resends, in whatever order the
\* two sockets deliver.
THEOREM DrainedExactly == Spec => []DrainedMeansExact
<1>1. FrameTyped /\ AuditInv /\ TelemetryInv /\ [Next]_vars => (FrameTyped /\ AuditInv /\ TelemetryInv)'
  BY FrameStep, AuditInvStep, TelemetryInvStep
<1>2. Init => FrameTyped /\ TelemetryInv
  BY DeafListener, Places DEF Init, FrameInit, FrameTyped, TelemetryInv, Idle, Hearing
<1>3. TelemetryInv => DrainedMeansExact
  <2> SUFFICES ASSUME TelemetryInv, kind = "runtime_audit", NEW p \in Processes,
                      workers[p].pc \in Range(AuditCourse)
               PROVE  /\ Seen(p) = workers[p].asked
                      /\ Cardinality(workers[p].arrived) = Cardinality(workers[p].asked)
    BY DEF DrainedMeansExact
  <2>1. workers[p].pc \in Concluding
    <3>1. DOMAIN AuditCourse = 1..7
      BY CourseGoesOn
    <3> QED
      BY <3>1, CourseGoesOn DEF Range
  <2>2. Exact(workers[p])
    BY <2>1 DEF TelemetryInv, Listener, Heard
  <2>3. Seen(p) = Read(workers[p])
    BY DEF Seen, Read
  <2> QED
    BY <2>1, <2>2, <2>3, ExactlyRead
<1> QED
  BY <1>1, <1>2, <1>3, AuditInvInit, PTL DEF Spec

-----------------------------------------------------------------------------
(* The count of a history.                                                 *)

MethodDev == "evaluate_method_dev"
Failed(k, o) == Unsafe(IF k = "runtime_audit" THEN [o EXCEPT !.native = 0] ELSE o)

\* The rows of a group among the first n, those of them that failed, and the tokens that
\* the rows of a set have matched.
RowsOf(g, n) == {i \in 1..n : PrefixGroup[i] = g}
FailedRows(k, examples, rows) == {i \in rows : Failed(k, examples[i].outcome)}
Tokens(examples, rows) == UNION {{i} \X (1..examples[i].outcome.matches) : i \in rows}

CountOf(k, examples, rows) ==
  [samples   |-> Cardinality(rows),
   failures  |-> Cardinality(FailedRows(k, examples, rows)),
   agreement |-> Cardinality(Tokens(examples, rows))]

Counted(k, examples, g, n) == CountOf(k, examples, RowsOf(g, n))

\* What one more example of the group makes of a count.
CountedWith(k, before, o) ==
  [samples   |-> before.samples + 1,
   failures  |-> before.failures + (IF Failed(k, o) THEN 1 ELSE 0),
   agreement |-> before.agreement + o.matches]

\* What a stage makes of an outcome and a history.
Made(k, history, o) ==
  IF k \in {"fit_risk", "calibrate"} THEN RiskExample(history, o)
  ELSE ValidationMeasurement(history, o)

\* An example of row i was measured under the row's own prefix, and the stage has made it.
MeasuredAt(k, i, example) ==
  /\ "outcome" \in DOMAIN example
  /\ IF k = MethodDev
     THEN /\ CompleteSet(example.outcome)
          /\ \A c \in DOMAIN example.outcome : example.outcome[c].prefix = PrefixGroup[i]
     ELSE /\ example.outcome.prefix = PrefixGroup[i] /\ example.outcome.matches \in Nat
          /\ k = "calibrate" => example.outcome.risk \in Nat
          /\ example = Made(k, example.history, example.outcome)

\* The next row's example was measured so, and on the history of its group.
DueNext(k, examples, n, example) ==
  /\ MeasuredAt(k, n + 1, example)
  /\ k # MethodDev => example.history = Counted(k, examples, PrefixGroup[n + 1], n)

\* The examples of the first n rows.
Listing(examples, n) == examples = [i \in 1..n |-> examples[i]]

CausalUpTo(k, examples, n) ==
  /\ Listing(examples, n)
  /\ \A i \in 1..n :
       /\ MeasuredAt(k, i, examples[i])
       /\ k # MethodDev => examples[i].history = Counted(k, examples, PrefixGroup[i], i - 1)

Causal(k, examples) == \E n \in Nat : CausalUpTo(k, examples, n)

Longer(s, more, n, e) ==
  Listing(more, n + 1) /\ (\A i \in 1..n : more[i] = s[i]) /\ more[n + 1] = e

LEMMA AppendAny ==
  ASSUME NEW n \in Nat, NEW s, Listing(s, n), NEW e
  PROVE  Longer(s, Append(s, e), n, e)
<1> DEFINE S == {s[i] : i \in 1..n} \union {e}
<1>1. s \in [1..n -> S]
  <2>1. \A i \in 1..n : s[i] \in S
    OBVIOUS
  <2> HIDE DEF S
  <2> QED
    BY <2>1 DEF Listing
<1>2. s \in Seq(S) /\ e \in S
  <2>1. e \in S
    OBVIOUS
  <2> HIDE DEF S
  <2> QED
    BY <1>1, <2>1, SeqDef
<1> HIDE DEF S
<1>3. Len(s) = n
  BY <1>1, <1>2
<1> QED
  BY <1>2, <1>3, AppendProperties DEF Listing, Longer

\* One more row of the group is one more element.
LEMMA RowsGrow ==
  ASSUME NEW n \in Nat, NEW g
  PROVE  /\ IsFiniteSet(RowsOf(g, n)) /\ n + 1 \notin RowsOf(g, n)
         /\ RowsOf(g, n) \subseteq 1..n
         /\ RowsOf(g, n + 1) = IF PrefixGroup[n + 1] = g THEN RowsOf(g, n) \union {n + 1}
                                ELSE RowsOf(g, n)
<1>1. RowsOf(g, n) \in SUBSET (1..n) /\ IsFiniteSet(1..n)
  BY FS_Interval DEF RowsOf
<1>2. IsFiniteSet(RowsOf(g, n))
  BY <1>1, FS_Subset
<1> QED
  BY <1>1, <1>2 DEF RowsOf

LEMMA Counting == ASSUME NEW m \in Nat PROVE IsFiniteSet(1..m) /\ Cardinality(1..m) = m
<1>1. Cardinality(1..m) = IF 1 > m THEN 0 ELSE m - 1 + 1
  BY FS_Interval
<1> QED
  BY <1>1, FS_Interval

LEMMA TokensFinite ==
  ASSUME NEW examples, NEW rows, IsFiniteSet(rows),
         \A i \in rows : examples[i].outcome.matches \in Nat
  PROVE  IsFiniteSet(Tokens(examples, rows))
<1> DEFINE f == [i \in rows |-> {i} \X (1..examples[i].outcome.matches)]
           T == {{i} \X (1..examples[i].outcome.matches) : i \in rows}
<1>1. f \in Surjection(rows, T)
  BY DEF Surjection
<1>2. IsFiniteSet(T)
  BY <1>1, FS_Surjection
<1>3. ASSUME NEW i \in rows
      PROVE  IsFiniteSet({i} \X (1..examples[i].outcome.matches))
  <2>1. IsFiniteSet(1..examples[i].outcome.matches)
    BY FS_Interval
  <2>2. IsFiniteSet({i})
    BY FS_Singleton
  <2> QED
    BY <2>1, <2>2, FS_Product
<1>4. \A t \in T : IsFiniteSet(t)
  BY <1>3
<1> QED
  BY <1>2, <1>4, FS_UNION DEF Tokens

OneMoreOf(k, examples, rows, x) ==
  CountOf(k, examples, rows \union {x})
    = CountedWith(k, CountOf(k, examples, rows), examples[x].outcome)

\* One more example is one more of each that it adds to.
LEMMA CountOfOneMore ==
  ASSUME NEW k, NEW examples, NEW rows, IsFiniteSet(rows), NEW x, x \notin rows,
         \A i \in rows \union {x} : examples[i].outcome.matches \in Nat
  PROVE  OneMoreOf(k, examples, rows, x)
<1> DEFINE o == examples[x].outcome
           failed == FailedRows(k, examples, rows)
           tokens == Tokens(examples, rows)
           new == {x} \X (1..o.matches)
<1>m. o.matches \in Nat
  OBVIOUS
<1>1. Cardinality(rows \union {x}) = Cardinality(rows) + 1
  BY FS_AddElement
<1>2. Cardinality(FailedRows(k, examples, rows \union {x})) =
        Cardinality(failed) + (IF Failed(k, o) THEN 1 ELSE 0)
  <2>1. /\ FailedRows(k, examples, rows \union {x}) =
             IF Failed(k, o) THEN failed \union {x} ELSE failed
        /\ failed \in SUBSET rows
    BY DEF FailedRows
  <2>2. IsFiniteSet(failed) /\ x \notin failed
    BY <2>1, FS_Subset
  <2>3. Cardinality(failed \union {x}) = Cardinality(failed) + 1
    BY <2>2, FS_AddElement
  <2>4. Cardinality(failed) \in Nat
    BY <2>2, FS_CardinalityType
  <2> HIDE DEF failed
  <2> QED
    BY <2>1, <2>3, <2>4
<1>3. Cardinality(Tokens(examples, rows \union {x})) = Cardinality(tokens) + o.matches
  <2>1. Tokens(examples, rows \union {x}) = tokens \union new
    BY DEF Tokens
  <2>2. tokens \intersect new = {}
    BY DEF Tokens
  <2>3. IsFiniteSet(tokens)
    BY TokensFinite
  <2>4. IsFiniteSet(new) /\ Cardinality(new) = o.matches
    <3>1. IsFiniteSet(1..o.matches) /\ Cardinality(1..o.matches) = o.matches
      BY <1>m, Counting
    <3>2. IsFiniteSet({x}) /\ Cardinality({x}) = 1
      BY FS_Singleton
    <3>3. /\ IsFiniteSet({x} \X (1..o.matches))
          /\ Cardinality({x} \X (1..o.matches)) = 1 * Cardinality(1..o.matches)
      BY <3>1, <3>2, FS_Product
    <3> QED
      BY <1>m, <3>1, <3>3
  <2> HIDE DEF tokens, new, o
  <2>5. Cardinality(tokens \union new) =
          Cardinality(tokens) + Cardinality(new) - Cardinality(tokens \intersect new)
    BY <2>3, <2>4, FS_Union
  <2>6. Cardinality(tokens \intersect new) = 0 /\ Cardinality(tokens) \in Nat
    BY <2>2, <2>3, FS_EmptySet, FS_CardinalityType
  <2>7. Cardinality(tokens \union new) = Cardinality(tokens) + o.matches
    BY <1>m, <2>4, <2>5, <2>6
  <2> QED
    BY <2>1, <2>7
<1> HIDE DEF failed, tokens, o
<1>4. /\ CountOf(k, examples, rows).samples = Cardinality(rows)
      /\ CountOf(k, examples, rows).failures = Cardinality(failed)
      /\ CountOf(k, examples, rows).agreement = Cardinality(tokens)
  BY DEF CountOf, failed, tokens
<1>5. CountOf(k, examples, rows \union {x}) =
        [samples   |-> Cardinality(rows) + 1,
         failures  |-> Cardinality(failed) + (IF Failed(k, o) THEN 1 ELSE 0),
         agreement |-> Cardinality(tokens) + o.matches]
  BY <1>1, <1>2, <1>3 DEF CountOf
<1> QED
  BY <1>4, <1>5 DEF o, CountedWith, OneMoreOf

OneMore(k, examples, more, g, n) ==
  Counted(k, more, g, n + 1) =
    IF PrefixGroup[n + 1] = g
    THEN CountedWith(k, Counted(k, examples, g, n), more[n + 1].outcome)
    ELSE Counted(k, examples, g, n)

LEMMA CountedGrows ==
  ASSUME NEW k, k # MethodDev, NEW n \in Nat, NEW examples, NEW more, NEW g,
         \A i \in 1..n : more[i] = examples[i] /\ examples[i].outcome.matches \in Nat,
         more[n + 1].outcome.matches \in Nat
  PROVE  OneMore(k, examples, more, g, n)
<1> DEFINE rows == RowsOf(g, n)
<1>1. /\ IsFiniteSet(rows) /\ n + 1 \notin rows /\ rows \subseteq 1..n
      /\ RowsOf(g, n + 1) = IF PrefixGroup[n + 1] = g THEN rows \union {n + 1} ELSE rows
  BY RowsGrow
<1> HIDE DEF rows
<1>2. CountOf(k, more, rows) = CountOf(k, examples, rows)
  BY <1>1 DEF CountOf, FailedRows, Tokens
<1>3. \A i \in rows \union {n + 1} : more[i].outcome.matches \in Nat
  BY <1>1
<1>4. OneMoreOf(k, more, rows, n + 1)
  BY <1>1, <1>3, CountOfOneMore
<1>5. Counted(k, examples, g, n) = CountOf(k, examples, rows)
  BY DEF Counted, rows
<1> QED
  BY <1>1, <1>2, <1>4, <1>5 DEF Counted, OneMore, OneMoreOf

\* A history is of the examples it counts.
LEMMA CountedOf ==
  ASSUME NEW k, NEW n \in Nat, NEW examples, NEW more, NEW g, \A i \in 1..n : more[i] = examples[i]
  PROVE  Counted(k, more, g, n) = Counted(k, examples, g, n)
<1>1. RowsOf(g, n) \subseteq 1..n
  BY DEF RowsOf
<1> QED
  BY <1>1 DEF Counted, CountOf, FailedRows, Tokens

\* A list of examples that is causal stays so with one that is due.
LEMMA CausalGrows ==
  ASSUME NEW k, NEW n \in Nat, NEW examples, CausalUpTo(k, examples, n), NEW example,
         DueNext(k, examples, n, example)
  PROVE  CausalUpTo(k, Append(examples, example), n + 1)
<1> DEFINE more == Append(examples, example)
<1>0. Listing(examples, n) /\ n \in Nat
  BY DEF CausalUpTo
<1>1. Longer(examples, more, n, example)
  BY <1>0, AppendAny
<1> HIDE DEF more
<1> USE DEF Longer
<1>2. ASSUME NEW i \in 1..n
      PROVE  /\ MeasuredAt(k, i, more[i])
             /\ k # MethodDev => more[i].history = Counted(k, more, PrefixGroup[i], i - 1)
  <2>1. Counted(k, more, PrefixGroup[i], i - 1) = Counted(k, examples, PrefixGroup[i], i - 1)
    <3>1. i - 1 \in Nat /\ \A j \in 1..i - 1 : j \in 1..n
      OBVIOUS
    <3>2. \A j \in 1..i - 1 : more[j] = examples[j]
      BY <1>1, <3>1
    <3> QED
      BY <3>1, <3>2, CountedOf
  <2> QED
    BY <1>1, <2>1 DEF CausalUpTo
<1>3. /\ MeasuredAt(k, n + 1, more[n + 1])
      /\ k # MethodDev => more[n + 1].history = Counted(k, more, PrefixGroup[n + 1], n)
  <2>1. Counted(k, more, PrefixGroup[n + 1], n) = Counted(k, examples, PrefixGroup[n + 1], n)
    BY <1>1, CountedOf
  <2> QED
    BY <1>1, <2>1 DEF DueNext
<1>4. \A i \in 1..n + 1 : i \in 1..n \/ i = n + 1
  OBVIOUS
<1>5. (n + 1) - 1 = n
  OBVIOUS
<1>6. CausalUpTo(k, more, n + 1)
  BY <1>1, <1>2, <1>3, <1>4, <1>5 DEF CausalUpTo
<1> QED
  BY <1>6 DEF more

-----------------------------------------------------------------------------
(* A process that evaluates.                                               *)

SamplePlaces == {"enter", "evaluate", "save sample", "refused", "rejected"} \union Concluding

\* The places at which the audit holds its prefixes, and those at which an example waits
\* to be saved.
Prepared == {"warm up", "await", "drain warmup", "evaluate", "measure", "save sample", "noncausal",
             "drain probe"}
Showing(w) ==
  \/ w.pc \in {"measure", "save sample"}
  \/ w.pc = "await" /\ w.after \in {"measure", "save sample"}

RowFields == {"row", "measured", "histories", "example", "course", "assets"}

(* What is measured so far is causal, the histories are those it amounts   *)
(* to, and an example that waits to be saved is due.                       *)
OnRow(k, w) ==
  /\ (RowFields \ {"assets"}) \union {"pc"} \subseteq DOMAIN w
  /\ w.row \in Nat \ {0} /\ CausalUpTo(k, w.measured, w.row - 1)
  /\ DOMAIN w.histories = Groups
  /\ k # MethodDev => \A g \in Groups : w.histories[g] = Counted(k, w.measured, g, w.row - 1)
  /\ Showing(w) => w.row \in Rows /\ DueNext(k, w.measured, w.row - 1, w.example)

\* The course leads to the publication.
Leads(w) ==
  /\ w.course \in Seq(Concluding)
  /\ w.course = <<>> => w.pc = "publish"
  /\ w.course # <<>> => w.course[Len(w.course)] = "publish"

Placed(k, w) ==
  /\ w.pc # "idle"
  /\ k # "runtime_audit" => w.pc \in SamplePlaces
  /\ k = "runtime_audit" /\ w.pc \in Prepared =>
       "assets" \in DOMAIN w /\ \A g \in Groups : w.assets[g] = g

\* An attempt of the audit that has lost what it measured.
Lost(w) ==
  /\ {"pc", "measured", "failing"} \subseteq DOMAIN w /\ "row" \notin DOMAIN w
  /\ w.measured = <<>> /\ w.failing = TRUE /\ w.pc \in Closing \union {"raised"}

Ready(k, w) == OnRow(k, w) /\ Leads(w) /\ Placed(k, w)

Evaluator(k, w) ==
  \/ w.pc = "idle"
  \/ Ready(k, w)
  \/ k = "runtime_audit" /\ Lost(w)

LEMMA RowNumbers ==
  /\ 1 \in Nat \ {0} /\ 1 - 1 = 0
  /\ \A i \in Nat \ {0} : /\ i - 1 \in Nat /\ (i - 1) + 1 = i
                         /\ i + 1 \in Nat \ {0} /\ (i + 1) - 1 = (i - 1) + 1
OBVIOUS

LEMMA Elsewhere ==
  /\ Concluding \subseteq SamplePlaces /\ Concluding \intersect Prepared = {}
  /\ "await" \notin Concluding /\ "measure" \notin Concluding /\ "save sample" \notin Concluding
  /\ "idle" \notin SamplePlaces \union Closing \union Prepared \union {"raised"}
BY DEF Concluding, SamplePlaces, Prepared, Closing

LEMMA StaysOnRow ==
  ASSUME NEW k, NEW w, NEW v, Ready(k, w), Keeps(w, v, RowFields),
         "pc" \in DOMAIN v, v.pc # "idle", k # "runtime_audit" => v.pc \in SamplePlaces,
         w.pc = "publish" => v.pc = "publish",
         Showing(v) => Showing(w), k = "runtime_audit" /\ v.pc \in Prepared => w.pc \in Prepared
  PROVE  Ready(k, v)
<1> USE DEF Ready
<1>1. /\ (RowFields \ {"assets"}) \union {"pc"} \subseteq DOMAIN v
      /\ v.row = w.row /\ v.measured = w.measured /\ v.histories = w.histories
      /\ v.example = w.example /\ v.course = w.course
      /\ "assets" \in DOMAIN w => "assets" \in DOMAIN v /\ v.assets = w.assets
  BY DEF OnRow, Keeps, RowFields
<1>2. OnRow(k, v)
  BY <1>1 DEF OnRow
<1>3. Leads(v)
  BY <1>1 DEF Leads
<1>4. Placed(k, v)
  BY <1>1 DEF Placed
<1> QED
  BY <1>2, <1>3, <1>4

LEMMA OnwardOnRow ==
  ASSUME NEW k, NEW w, NEW v, Ready(k, w), w.pc # "publish",
         Keeps(w, v, RowFields \ {"course"}), "pc" \in DOMAIN v,
         v.pc = Head(w.course), v.course = Tail(w.course)
  PROVE  Ready(k, v)
<1> USE DEF Ready
<1>1. /\ (RowFields \ {"assets"}) \union {"pc"} \subseteq DOMAIN v
      /\ v.row = w.row /\ v.measured = w.measured /\ v.histories = w.histories
      /\ v.example = w.example
  BY DEF OnRow, Keeps, RowFields
<1>2. w.course \in Seq(Concluding) /\ w.course # <<>> /\ w.course[Len(w.course)] = "publish"
  BY DEF Leads
<1>3. Head(w.course) \in Concluding /\ Tail(w.course) \in Seq(Concluding)
  BY <1>2
<1>4. Tail(w.course) = <<>> => Head(w.course) = "publish"
  <2>1. Len(w.course) \in Nat \ {0} /\ Len(Tail(w.course)) = Len(w.course) - 1
    <3>1. Len(w.course) \in Nat /\ Len(w.course) # 0
      BY <1>2
    <3> QED
      BY <1>2, <3>1
  <2>2. Tail(w.course) = <<>> => Len(w.course) = 1
    <3>1. Tail(w.course) = <<>> => Len(Tail(w.course)) = 0
      BY <1>3, EmptySeq
    <3> QED
      BY <2>1, <3>1
  <2> QED
    BY <1>2, <2>2
<1>5. Tail(w.course) # <<>> => Tail(w.course)[Len(Tail(w.course))] = "publish"
  BY <1>2
<1>6. /\ v.pc \in Concluding /\ ~Showing(v) /\ v.pc \notin Prepared /\ v.pc \in SamplePlaces
      /\ v.pc # "idle"
  BY <1>3, Elsewhere DEF Showing
<1>7. OnRow(k, v)
  BY <1>1, <1>6 DEF OnRow
<1>8. Leads(v)
  BY <1>3, <1>4, <1>5 DEF Leads
<1>9. Placed(k, v)
  BY <1>6 DEF Placed
<1> QED
  BY <1>7, <1>8, <1>9

\* An attempt that begins has measured nothing.
LEMMA NothingCounted ==
  ASSUME NEW k, NEW g
  PROVE  CausalUpTo(k, <<>>, 0) /\ Counted(k, <<>>, g, 0) = NoHistory
<1>1. RowsOf(g, 0) = {}
  BY DEF RowsOf
<1>2. FailedRows(k, <<>>, RowsOf(g, 0)) = {} /\ Tokens(<<>>, RowsOf(g, 0)) = {}
  BY <1>1 DEF FailedRows, Tokens
<1>3. Counted(k, <<>>, g, 0) = NoHistory
  BY <1>1, <1>2, FS_EmptySet DEF Counted, CountOf, NoHistory
<1>4. CausalUpTo(k, <<>>, 0)
  BY DEF CausalUpTo, Listing
<1> QED
  BY <1>3, <1>4

LEMMA BeginsOnRow ==
  ASSUME NEW k, NEW v, (RowFields \ {"assets"}) \union {"pc"} \subseteq DOMAIN v, v.row = 1,
         v.measured = <<>>, v.histories = [g \in Groups |-> NoHistory],
         v.pc \in {"enter", "bind evidence"}, k # "runtime_audit" => v.pc = "enter",
         v.course \in Seq(Concluding), v.course # <<>>, v.course[Len(v.course)] = "publish"
  PROVE  Ready(k, v)
<1> USE DEF Ready
<1>1. v.row \in Nat \ {0} /\ v.row - 1 = 0
  BY RowNumbers
<1>2. ~Showing(v) /\ v.pc \notin Prepared
  BY DEF Showing, Prepared
<1>3. \A g \in Groups : v.histories[g] = Counted(k, v.measured, g, 0)
  BY NothingCounted
<1>4. OnRow(k, v)
  BY <1>1, <1>2, <1>3, NothingCounted DEF OnRow
<1>5. Leads(v)
  BY DEF Leads
<1>6. Placed(k, v)
  BY <1>2 DEF Placed, SamplePlaces
<1> QED
  BY <1>4, <1>5, <1>6

\* A row is done.
LEMMA TakesUp ==
  ASSUME NEW k, k = kind, NEW w, NEW v, Ready(k, w),
         w.pc \in {"evaluate", "save sample"}, w.row \in Rows, NEW example,
         DueNext(k, w.measured, w.row - 1, example), DOMAIN w \subseteq DOMAIN v,
         v.row = w.row + 1, v.measured = Append(w.measured, example),
         v.histories = [w.histories EXCEPT ![PrefixGroup[w.row]] = Updated(@, example.outcome)],
         v.course = w.course, v.pc = "evaluate", "assets" \in DOMAIN w => v.assets = w.assets
  PROVE  Ready(k, v)
<1> USE DEF Ready
<1> DEFINE n == w.row - 1  group == PrefixGroup[w.row]
<1>1. n \in Nat /\ n + 1 = w.row /\ v.row - 1 = n + 1 /\ v.row \in Nat \ {0} /\ group \in Groups
  <2>2. w.row \in Nat \ {0}
    BY DEF OnRow
  <2>3. group \in Groups
    BY DEF Groups, Range, Rows
  <2> QED
    BY <2>2, <2>3, RowNumbers
<1>2. CausalUpTo(k, w.measured, n) /\ CausalUpTo(k, v.measured, n + 1)
  <2>1. CausalUpTo(k, w.measured, n)
    BY DEF OnRow
  <2>2. DueNext(k, w.measured, n, example)
    OBVIOUS
  <2> HIDE DEF n
  <2>3. CausalUpTo(k, Append(w.measured, example), n + 1)
    BY <1>1, <2>1, <2>2, CausalGrows
  <2> QED
    BY <2>1, <2>3
<1>3. /\ (RowFields \ {"assets"}) \union {"pc"} \subseteq DOMAIN v
      /\ DOMAIN v.histories = Groups
  BY DEF OnRow
<1>4. ASSUME k # MethodDev, NEW g \in Groups
      PROVE  v.histories[g] = Counted(k, v.measured, g, n + 1)
  <2>1. /\ \A i \in 1..n : v.measured[i] = w.measured[i]
        /\ v.measured[n + 1] = example
    <3>1. Listing(w.measured, n)
      BY <1>2 DEF CausalUpTo
    <3> HIDE DEF n
    <3>2. n \in Nat
      BY <1>1
    <3>3. Longer(w.measured, Append(w.measured, example), n, example)
      BY <3>1, <3>2, AppendAny
    <3> QED
      BY <3>3 DEF Longer
  <2>2. \A i \in 1..n : w.measured[i].outcome.matches \in Nat
    BY <1>2, <1>4 DEF CausalUpTo, MeasuredAt
  <2>3. v.measured[n + 1].outcome.matches \in Nat
    BY <1>4, <2>1 DEF DueNext, MeasuredAt
  <2>4. w.histories[g] = Counted(k, w.measured, g, n)
    BY <1>4 DEF OnRow
  <2> DEFINE o == example.outcome
             before == Counted(k, w.measured, g, n)
  <2>5. Counted(k, v.measured, g, n + 1) =
          IF PrefixGroup[n + 1] = g THEN CountedWith(k, before, o) ELSE before
    <3>1. o = v.measured[n + 1].outcome /\ n \in Nat /\ k # MethodDev
      BY <1>1, <1>4, <2>1
    <3>2. \A i \in 1..n : v.measured[i] = w.measured[i] /\ w.measured[i].outcome.matches \in Nat
      BY <2>1, <2>2
    <3> HIDE DEF n, o, before
    <3>3. OneMore(k, w.measured, v.measured, g, n)
      BY <2>3, <3>1, <3>2, CountedGrows
    <3> QED
      BY <3>1, <3>3 DEF before, OneMore
  <2>6. Updated(before, o) = CountedWith(k, before, o)
    BY <1>4 DEF Updated, Failure, Failed, CountedWith, MethodDev
  <2>7. v.histories[g] = IF g = group THEN Updated(before, o) ELSE before
    BY <1>1, <2>4 DEF OnRow
  <2>8. PrefixGroup[n + 1] = group
    BY <1>1
  <2> HIDE DEF before, o, n, group
  <2> QED
    BY <2>5, <2>6, <2>7, <2>8
<1>5. ~Showing(v)
  BY DEF Showing
<1>6. OnRow(k, v)
  BY <1>1, <1>2, <1>3, <1>4, <1>5 DEF OnRow
<1>7. Leads(v)
  BY DEF Leads
<1>8. Placed(k, v)
  BY DEF Placed, SamplePlaces, Prepared
<1> QED
  BY <1>6, <1>7, <1>8

-----------------------------------------------------------------------------
(* What an attempt that is alone goes on from.                             *)

\* The checkpoints of a stage whose attempts have never overlapped are those of the first
\* rows, each on the history that the ones before it make.
Chained(k, saved) ==
  \A r \in Rows : saved[r] # None =>
    /\ \A j \in 1..r - 1 : saved[j] # None
    /\ k # MethodDev => saved[r].history = Counted(k, saved, PrefixGroup[r], r - 1)

\* What an attempt has measured is what lies there, and what it is about to save does not
\* lie there yet.
TakenFrom(saved, w) ==
  /\ \A i \in 1..w.row - 1 : saved[i] # None /\ w.measured[i] = saved[i]
  /\ Showing(w) => saved[w.row] = None
  /\ w.pc # "refused"

Resuming(k, saved, w) == Chained(k, saved) /\ (Ready(k, w) => TakenFrom(saved, w))

\* A step that leaves the rows alone.
Rests(w, v) ==
  /\ v.row = w.row /\ v.measured = w.measured
  /\ Showing(v) => Showing(w)
  /\ v.pc # "refused"

LEMMA RestedResuming ==
  ASSUME NEW k, NEW saved, NEW w, NEW v, Ready(k, w), Rests(w, v), Resuming(k, saved, w)
  PROVE  Resuming(k, saved, v)
BY DEF Resuming, Rests, TakenFrom

\* An attempt that begins, one that ends, and one that has lost everything.
LEMMA ApartResuming ==
  ASSUME NEW k, NEW saved, NEW w, NEW v, Resuming(k, saved, w),
         \/ "row" \notin DOMAIN v
         \/ v.row = 1 /\ v.pc # "refused" /\ ~Showing(v)
  PROVE  Resuming(k, saved, v)
<1>1. CASE "row" \notin DOMAIN v
  <2>1. ~Ready(k, v)
    BY <1>1 DEF Ready, OnRow, RowFields
  <2> QED
    BY <2>1 DEF Resuming
<1>2. CASE v.row = 1 /\ v.pc # "refused" /\ ~Showing(v)
  <2>1. 1..v.row - 1 = {}
    BY <1>2
  <2> QED
    BY <1>2, <2>1 DEF Resuming, TakenFrom
<1> QED
  BY <1>1, <1>2

\* The checkpoint of a row stands up to the histories of an attempt that is alone.
LEMMA FoundIsDue ==
  ASSUME NEW k, k # MethodDev, NEW saved, NEW w, Ready(k, w), w.row \in Rows,
         Resuming(k, saved, w), saved[w.row] # None
  PROVE  saved[w.row].history = w.histories[PrefixGroup[w.row]]
<1> DEFINE n == w.row - 1  g == PrefixGroup[w.row]
<1>1. w.row \in Nat \ {0} /\ w.histories[g] = Counted(k, w.measured, g, n)
  BY DEF Ready, OnRow, Groups, Range, Rows
<1>2. saved[w.row].history = Counted(k, saved, g, n)
  BY DEF Resuming, Chained
<1>3. \A i \in 1..n : saved[i] = w.measured[i]
  BY DEF Resuming, TakenFrom
<1>4. n \in Nat
  BY <1>1, RowNumbers
<1> HIDE DEF n, g
<1>5. Counted(k, saved, g, n) = Counted(k, w.measured, g, n)
  BY <1>3, <1>4, CountedOf
<1> QED
  BY <1>1, <1>2, <1>5 DEF g

\* The list of an attempt that takes up one more row.
LEMMA OneMoreTaken ==
  ASSUME NEW k, NEW saved, NEW w, NEW v, Ready(k, w), w.row \in Rows,
         \A i \in 1..w.row - 1 : saved[i] # None /\ w.measured[i] = saved[i],
         saved[w.row] # None, v.row = w.row + 1,
         v.measured = Append(w.measured, saved[w.row]), v.pc = "evaluate"
  PROVE  TakenFrom(saved, v)
<1> DEFINE n == w.row - 1  e == saved[w.row]
<1>1. n \in Nat /\ n + 1 = w.row /\ v.row - 1 = n + 1
  <2>1. w.row \in Nat \ {0}
    BY DEF Ready, OnRow
  <2> QED
    BY <2>1, RowNumbers
<1>2. Listing(w.measured, n)
  BY DEF Ready, OnRow, CausalUpTo
<1>3. \A i \in 1..n : saved[i] # None /\ w.measured[i] = saved[i]
  OBVIOUS
<1>4. e # None /\ e = saved[n + 1]
  BY <1>1
<1>5. v.measured = Append(w.measured, e)
  OBVIOUS
<1> HIDE DEF n, e
<1>6. Longer(w.measured, v.measured, n, e)
  BY <1>1, <1>2, <1>5, AppendAny
<1>7. \A i \in 1..n + 1 : i \in 1..n \/ i = n + 1
  BY <1>1
<1>8. \A i \in 1..n + 1 : saved[i] # None /\ v.measured[i] = saved[i]
  BY <1>3, <1>4, <1>6, <1>7 DEF Longer
<1>9. ~Showing(v) /\ v.pc # "refused"
  BY DEF Showing
<1> QED
  BY <1>1, <1>8, <1>9 DEF TakenFrom

\* A row is taken up from its checkpoint.
LEMMA RestoredResuming ==
  ASSUME NEW k, NEW saved, NEW w, NEW v, Ready(k, w), w.row \in Rows,
         Resuming(k, saved, w), saved[w.row] # None, v.row = w.row + 1,
         v.measured = Append(w.measured, saved[w.row]), v.pc = "evaluate"
  PROVE  Resuming(k, saved, v)
<1>1. \A i \in 1..w.row - 1 : saved[i] # None /\ w.measured[i] = saved[i]
  BY DEF Resuming, TakenFrom
<1>2. TakenFrom(saved, v)
  BY <1>1, OneMoreTaken
<1> QED
  BY <1>2 DEF Resuming

\* A row is saved.
LEMMA SavedResuming ==
  ASSUME NEW k, NEW saved, DOMAIN saved = Rows, NEW w, NEW v, Ready(k, w), Showing(w),
         Resuming(k, saved, w), v.row = w.row + 1, v.measured = Append(w.measured, w.example),
         v.pc = "evaluate"
  PROVE  Resuming(k, [saved EXCEPT ![w.row] = w.example], v)
<1> DEFINE more == [saved EXCEPT ![w.row] = w.example]
<1>1. /\ w.row \in Nat \ {0} /\ w.row \in Rows /\ Rows \subseteq Nat
      /\ DueNext(k, w.measured, w.row - 1, w.example)
  <2>1. PrefixGroup \in Seq(Groups)
    BY StageAssumption, Zenon
  <2>2. Rows \subseteq Nat
    BY <2>1 DEF Rows
  <2> QED
    BY <2>2 DEF Ready, OnRow
<1>2. w.example # None
  <2>1. "outcome" \in DOMAIN w.example
    BY <1>1 DEF DueNext, MeasuredAt
  <2>2. "outcome" \notin DOMAIN None
    BY DEF None
  <2> QED
    BY <2>1, <2>2
<1>3. saved[w.row] = None /\ \A i \in 1..w.row - 1 : saved[i] # None /\ w.measured[i] = saved[i]
  BY DEF Resuming, TakenFrom
<1>4. /\ more[w.row] = w.example
      /\ \A i : i # w.row => more[i] = saved[i]
  BY <1>1
<1> HIDE DEF more
<1>5. \A i \in 1..w.row - 1 : i # w.row
  BY <1>1
<1>6. \A i \in 1..w.row - 1 : more[i] # None /\ w.measured[i] = more[i]
  BY <1>3, <1>4, <1>5
<1>7. TakenFrom(more, v)
  BY <1>1, <1>2, <1>4, <1>6, OneMoreTaken
<1>8. Chained(k, more)
  <2> SUFFICES ASSUME NEW r \in Rows, more[r] # None
               PROVE  /\ \A j \in 1..r - 1 : more[j] # None
                      /\ k # MethodDev => more[r].history = Counted(k, more, PrefixGroup[r], r - 1)
    BY DEF Chained
  <2>1. CASE r = w.row
    <3>1. (w.row - 1) + 1 = w.row /\ w.row - 1 \in Nat
      BY <1>1, RowNumbers
    <3>2. k # MethodDev => w.example.history = Counted(k, w.measured, PrefixGroup[w.row], w.row - 1)
      BY <1>1, <3>1 DEF DueNext
    <3>3. \A i \in 1..w.row - 1 : more[i] = w.measured[i]
      BY <1>6
    <3>4. Counted(k, more, PrefixGroup[w.row], w.row - 1) =
            Counted(k, w.measured, PrefixGroup[w.row], w.row - 1)
      BY <3>1, <3>3, CountedOf
    <3> QED
      BY <1>4, <1>6, <2>1, <3>2, <3>4
  <2>2. CASE r # w.row
    <3>1. saved[r] # None /\ more[r] = saved[r]
      BY <1>4, <2>2
    <3>2. /\ \A j \in 1..r - 1 : saved[j] # None
          /\ k # MethodDev => saved[r].history = Counted(k, saved, PrefixGroup[r], r - 1)
      BY <3>1 DEF Resuming, Chained
    <3>3. \A j \in 1..r - 1 : j # w.row
      BY <1>3, <3>2
    <3>4. \A j \in 1..r - 1 : more[j] = saved[j]
      BY <1>4, <3>3
    <3>5. r - 1 \in Nat
      <4>1. PrefixGroup \in Seq(Groups)
        BY StageAssumption, Zenon
      <4>2. Rows = 1..Len(PrefixGroup) /\ Len(PrefixGroup) \in Nat
        BY <4>1 DEF Rows
      <4> QED
        BY <4>2
    <3>6. Counted(k, more, PrefixGroup[r], r - 1) = Counted(k, saved, PrefixGroup[r], r - 1)
      BY <3>4, <3>5, CountedOf
    <3> QED
      BY <3>1, <3>2, <3>4, <3>6
  <2> QED
    BY <2>1, <2>2
<1>9. Resuming(k, more, v)
  BY <1>7, <1>8 DEF Resuming
<1> QED
  BY <1>9 DEF more

-----------------------------------------------------------------------------
(* The steps.                                                              *)

\* The files that attempts share hold what is causal.
FilesCausal(k, saved, published) ==
  /\ DOMAIN saved = Rows
  /\ \A r \in Rows : saved[r] = None \/ MeasuredAt(k, r, saved[r])
  /\ published # None => Causal(k, published.measured)

LEMMA ReadyAt ==
  ASSUME NEW k, NEW w, Evaluator(k, w), w.pc \notin Closing \union {"idle", "raised"}
  PROVE  Ready(k, w)
BY DEF Evaluator, Lost

LEMMA MovesReady ==
  ASSUME FrameTyped, NEW p \in Processes, NEW at, NEW changes, Working(p, at, changes),
         Ready(kind, workers[p]), RowFields \intersect DOMAIN changes = {}, "pc" \in DOMAIN changes,
         at = "publish" => changes.pc = "publish",
         changes.pc \notin {"measure", "save sample", "await", "idle"},
         kind # "runtime_audit" => changes.pc \in SamplePlaces,
         kind = "runtime_audit" /\ changes.pc \in Prepared => at \in Prepared
  PROVE  /\ Ready(kind, workers'[p])
         /\ changes.pc # "refused" => Rests(workers[p], workers'[p])
<1> DEFINE w == workers[p]  v == workers'[p]
<1>1. /\ w.pc = at /\ DOMAIN v = DOMAIN w \union DOMAIN changes
      /\ \A f \in DOMAIN changes : v[f] = changes[f]
      /\ \A f \in DOMAIN w \ DOMAIN changes : v[f] = w[f]
  BY WorkingFields
<1>2. Keeps(w, v, RowFields)
  BY <1>1 DEF Keeps
<1>3. "pc" \in DOMAIN v /\ v.pc = changes.pc
  BY <1>1
<1>4. ~Showing(v)
  BY <1>3 DEF Showing
<1> HIDE DEF w, v
<1>5. Ready(kind, w)
  BY DEF w
<1>6. Ready(kind, v)
  BY <1>1, <1>2, <1>3, <1>4, <1>5, StaysOnRow
<1>7. v.row = w.row /\ v.measured = w.measured
  BY <1>2, <1>5 DEF Keeps, Ready, OnRow, RowFields
<1>8. changes.pc # "refused" => Rests(w, v)
  BY <1>3, <1>4, <1>7 DEF Rests
<1> QED
  BY <1>6, <1>8 DEF v, w

LEMMA OnwardReady ==
  ASSUME FrameTyped, NEW p \in Processes, NEW at, NEW changes, Working(p, at, changes),
         Ready(kind, workers[p]), at # "publish", RowFields \intersect DOMAIN changes = {"course"},
         "pc" \in DOMAIN changes,
         changes.pc = Head(workers[p].course), changes.course = Tail(workers[p].course)
  PROVE  Ready(kind, workers'[p]) /\ Rests(workers[p], workers'[p])
<1> DEFINE w == workers[p]  v == workers'[p]
<1>1. /\ w.pc = at /\ DOMAIN v = DOMAIN w \union DOMAIN changes
      /\ \A f \in DOMAIN changes : v[f] = changes[f]
      /\ \A f \in DOMAIN w \ DOMAIN changes : v[f] = w[f]
  BY WorkingFields
<1>2. Keeps(w, v, RowFields \ {"course"})
  BY <1>1 DEF Keeps
<1>3. "pc" \in DOMAIN v /\ v.pc = Head(w.course) /\ v.course = Tail(w.course)
  BY <1>1
<1>4. Ready(kind, w) /\ w.pc # "publish"
  BY <1>1
<1> HIDE DEF w, v
<1>6. Ready(kind, v)
  BY <1>2, <1>3, <1>4, OnwardOnRow
<1>7. v.row = w.row /\ v.measured = w.measured
  BY <1>2, <1>4 DEF Keeps, Ready, OnRow, RowFields
<1>8. v.pc \in Concluding
  <2>1. w.course \in Seq(Concluding) /\ w.course # <<>>
    BY <1>4 DEF Ready, Leads
  <2> QED
    BY <1>3, <2>1
<1>9. ~Showing(v) /\ v.pc # "refused"
  BY <1>8, Elsewhere DEF Showing, Concluding
<1> QED
  BY <1>6, <1>7, <1>9 DEF v, w, Rests

\* A row that is taken up, out of a checkpoint or when it is saved.
LEMMA TakesUpReady ==
  ASSUME FrameTyped, NEW p \in Processes, NEW at \in {"evaluate", "save sample"}, NEW changes,
         Working(p, at, changes), Ready(kind, workers[p]), workers[p].row \in Rows, NEW example,
         DueNext(kind, workers[p].measured, workers[p].row - 1, example),
         {"row", "measured", "histories"} \subseteq DOMAIN changes,
         "course" \notin DOMAIN changes, "assets" \notin DOMAIN changes,
         changes.row = TakenUp(p, example).row, changes.measured = TakenUp(p, example).measured,
         changes.histories = TakenUp(p, example).histories,
         IF "pc" \in DOMAIN changes THEN changes.pc = "evaluate" ELSE at = "evaluate"
  PROVE  /\ Ready(kind, workers'[p])
         /\ workers'[p].row = workers[p].row + 1 /\ workers'[p].pc = "evaluate"
         /\ workers'[p].measured = Append(workers[p].measured, example)
<1> DEFINE w == workers[p]  v == workers'[p]
<1>1. /\ w.pc = at /\ DOMAIN v = DOMAIN w \union DOMAIN changes
      /\ \A f \in DOMAIN changes : v[f] = changes[f]
      /\ \A f \in DOMAIN w \ DOMAIN changes : v[f] = w[f]
  BY WorkingFields
<1>2. /\ v.row = w.row + 1 /\ v.measured = Append(w.measured, example)
      /\ v.histories = [w.histories EXCEPT ![PrefixGroup[w.row]] = Updated(@, example.outcome)]
  BY <1>1 DEF TakenUp
<1>3. "pc" \in DOMAIN w /\ "course" \in DOMAIN w
  BY DEF Ready, OnRow, RowFields
<1>4. /\ v.pc = "evaluate" /\ v.course = w.course /\ DOMAIN w \subseteq DOMAIN v
      /\ "assets" \in DOMAIN w => v.assets = w.assets
  BY <1>1, <1>3
<1>5. Ready(kind, w) /\ w.pc \in {"evaluate", "save sample"} /\ w.row \in Rows
  BY <1>1
<1>7. DueNext(kind, w.measured, w.row - 1, example)
  OBVIOUS
<1> HIDE DEF w, v
<1>6. Ready(kind, v)
  BY <1>2, <1>4, <1>5, <1>7, TakesUp
<1> QED
  BY <1>2, <1>4, <1>6 DEF v, w

\* What every step gives.
Goes(p) ==
  /\ Evaluator(kind, workers'[p])
  /\ FilesCausal(kind, checkpoints', report')
  /\ Resuming(kind, checkpoints, workers[p]) => Resuming(kind, checkpoints', workers'[p])

\* A step that leaves the rows and the files alone.
LEMMA RestsGoes ==
  ASSUME NEW p, FilesCausal(kind, checkpoints, report), UNCHANGED <<checkpoints, report>>,
         Ready(kind, workers[p]), Ready(kind, workers'[p]), Rests(workers[p], workers'[p])
  PROVE  Goes(p)
<1>1. Resuming(kind, checkpoints, workers[p]) => Resuming(kind, checkpoints, workers'[p])
  BY RestedResuming
<1> QED
  BY <1>1 DEF Goes, Evaluator

\* A step to where nothing is measured.
LEMMA ApartGoes ==
  ASSUME NEW p, FilesCausal(kind, checkpoints, report), UNCHANGED <<checkpoints, report>>,
         Evaluator(kind, workers'[p]),
         \/ "row" \notin DOMAIN workers'[p]
         \/ /\ workers'[p].row = 1 /\ workers'[p].pc # "refused"
            /\ ~Showing(workers'[p])
  PROVE  Goes(p)
<1>1. Resuming(kind, checkpoints, workers[p]) => Resuming(kind, checkpoints, workers'[p])
  BY ApartResuming
<1> QED
  BY <1>1 DEF Goes

LEMMA OnwardFields ==
  ASSUME NEW p
  PROVE  /\ RowFields \intersect DOMAIN Onward(p) = {"course"} /\ "pc" \in DOMAIN Onward(p)
         /\ DOMAIN Onward(p) = {"pc", "course"}
         /\ Onward(p).pc = Head(workers[p].course) /\ Onward(p).course = Tail(workers[p].course)
BY DEF Onward, RowFields

\* Onward with other fields that are not of the row.
LEMMA OnwardWith ==
  ASSUME FrameTyped, NEW p \in Processes, NEW at, NEW others, Ready(kind, workers[p]),
         Working(p, at, Changed(Onward(p), others)), at # "publish",
         (RowFields \union {"pc"}) \intersect DOMAIN others = {}
  PROVE  Ready(kind, workers'[p]) /\ Rests(workers[p], workers'[p])
<1> DEFINE changes == Changed(Onward(p), others)
<1>1. /\ DOMAIN changes = DOMAIN Onward(p) \union DOMAIN others
      /\ \A f \in DOMAIN Onward(p) \ DOMAIN others : changes[f] = Onward(p)[f]
  BY ChangedFields
<1>2. /\ RowFields \intersect DOMAIN changes = {"course"} /\ "pc" \in DOMAIN changes
      /\ changes.pc = Onward(p).pc /\ changes.course = Onward(p).course
  BY <1>1, OnwardFields DEF RowFields
<1>3. Working(p, at, changes)
  OBVIOUS
<1> HIDE DEF changes
<1> QED
  BY <1>2, <1>3, OnwardFields, OnwardReady

LEMMA OnwardAlone ==
  ASSUME FrameTyped, NEW p \in Processes, NEW at, Ready(kind, workers[p]),
         Working(p, at, Onward(p)), at # "publish"
  PROVE  Ready(kind, workers'[p]) /\ Rests(workers[p], workers'[p])
BY OnwardFields, OnwardReady

LEMMA RejectedReady ==
  ASSUME FrameTyped, NEW p \in Processes, NEW at, Ready(kind, workers[p]),
         NEW to \in {"rejected", "refused"}, Working(p, at, [pc |-> to]), at # "publish"
  PROVE  /\ Ready(kind, workers'[p])
         /\ to = "rejected" => Rests(workers[p], workers'[p])
<1> DEFINE changes == [pc |-> to]
<1>1. DOMAIN changes = {"pc"} /\ changes.pc = to
  OBVIOUS
<1>2. Working(p, at, changes)
  OBVIOUS
<1> HIDE DEF changes
<1>3. /\ changes.pc \notin {"measure", "save sample", "await", "idle"}
      /\ changes.pc \in SamplePlaces
      /\ changes.pc \notin Prepared /\ RowFields \intersect DOMAIN changes = {}
  BY <1>1 DEF SamplePlaces, Prepared, RowFields
<1> QED
  BY <1>1, <1>2, <1>3, MovesReady

LEMMA EvaluationReady ==
  ASSUME FrameTyped, NEW p \in Processes, Evaluator(kind, workers[p]),
         FilesCausal(kind, checkpoints, report), EvaluationStep(p)
  PROVE  Goes(p)
<1> DEFINE w == workers[p]
<1>r. ASSUME NEW at \in Concluding \union {"evaluate", "save sample"}, w.pc = at
      PROVE  Ready(kind, w)
  <2>1. w.pc \notin Closing \union {"idle", "raised"}
    BY <1>r DEF Concluding, Closing
  <2> QED
    BY <2>1, ReadyAt
<1>c. ASSUME UNCHANGED <<checkpoints, report>>, Ready(kind, w), Ready(kind, workers'[p]),
             Rests(w, workers'[p])
      PROVE  Goes(p)
  BY <1>c, RestsGoes
<1>1. CASE SaveSample(p)
  <2>1. Ready(kind, w) /\ w.pc = "save sample"
    BY <1>1, <1>r DEF SaveSample, At
  <2>2. w.row \in Rows /\ DueNext(kind, w.measured, w.row - 1, w.example)
    BY <2>1 DEF Ready, OnRow, Showing
  <2> DEFINE changes == Changed(TakenUp(p, w.example), [pc |-> "evaluate", example |-> None])
  <2>3. /\ DOMAIN changes = {"row", "measured", "histories", "pc", "example"}
        /\ changes.pc = "evaluate" /\ changes.row = TakenUp(p, w.example).row
        /\ changes.measured = TakenUp(p, w.example).measured
        /\ changes.histories = TakenUp(p, w.example).histories
    BY DEF Changed, TakenUp
  <2>4. Working(p, "save sample", changes)
    BY <1>1 DEF SaveSample
  <2> HIDE DEF changes
  <2>5. /\ Ready(kind, workers'[p])
        /\ workers'[p].row = w.row + 1 /\ workers'[p].pc = "evaluate"
        /\ workers'[p].measured = Append(w.measured, w.example)
    BY <2>1, <2>2, <2>3, <2>4, TakesUpReady
  <2>6. /\ checkpoints' = [checkpoints EXCEPT ![w.row] = w.example] /\ report' = report
    BY <1>1 DEF SaveSample
  <2>7. MeasuredAt(kind, w.row, w.example)
    <3>1. (w.row - 1) + 1 = w.row
      BY <2>1, RowNumbers DEF Ready, OnRow
    <3> QED
      BY <2>2, <3>1 DEF DueNext
  <2>8. FilesCausal(kind, checkpoints', report')
    BY <2>6, <2>7 DEF FilesCausal
  <2>9. Resuming(kind, checkpoints, w) => Resuming(kind, checkpoints', workers'[p])
    <3>1. DOMAIN checkpoints = Rows /\ Showing(w)
      BY <2>1 DEF FilesCausal, Showing
    <3>2. Resuming(kind, checkpoints, w) =>
            Resuming(kind, [checkpoints EXCEPT ![w.row] = w.example], workers'[p])
      BY <2>1, <2>5, <3>1, SavedResuming
    <3> QED
      BY <2>6, <3>2
  <2> QED
    BY <2>5, <2>8, <2>9 DEF Goes, Evaluator
<1>2. CASE EndSamples(p)
  <2>1. /\ Working(p, "evaluate", Changed(Onward(p), [prefix |-> NoPrefix]))
        /\ UNCHANGED <<checkpoints, report>>
    BY <1>2 DEF EndSamples
  <2>2. Ready(kind, w)
    BY <1>r, <2>1, WorkingAt
  <2> QED
    BY <1>c, <2>1, <2>2, OnwardWith DEF RowFields
<1>3. CASE WriteReport(p)
  <2>1. /\ Working(p, "report", Onward(p))
        /\ checkpoints' = checkpoints
        /\ report'.measured = w.measured
    BY <1>3 DEF WriteReport
  <2>2. Ready(kind, w)
    BY <1>r, <2>1, WorkingAt DEF Concluding
  <2>3. Ready(kind, workers'[p]) /\ Rests(w, workers'[p])
    BY <2>1, <2>2, OnwardAlone
  <2>4. Causal(kind, w.measured)
    BY <2>2, RowNumbers DEF Ready, OnRow, Causal
  <2>5. FilesCausal(kind, checkpoints', report')
    BY <2>1, <2>4 DEF FilesCausal
  <2>6. Resuming(kind, checkpoints, w) => Resuming(kind, checkpoints', workers'[p])
    BY <2>1, <2>2, <2>3, RestedResuming
  <2> QED
    BY <2>3, <2>5, <2>6 DEF Goes, Evaluator
<1>4. CASE HashReport(p)
  <2>1. /\ Working(p, "hash report", Changed(Onward(p), [reported |-> report]))
        /\ UNCHANGED <<checkpoints, report>>
    BY <1>4 DEF HashReport
  <2>2. Ready(kind, w)
    BY <1>r, <2>1, WorkingAt DEF Concluding
  <2> QED
    BY <1>c, <2>1, <2>2, OnwardWith DEF RowFields
<1>5. CASE BindArtifact(p)
  <2>1. /\ Working(p, "bind artifact", Changed(Onward(p), [bound |-> artifact]))
        /\ UNCHANGED <<checkpoints, report>>
    BY <1>5 DEF BindArtifact
  <2>2. Ready(kind, w)
    BY <1>r, <2>1, WorkingAt DEF Concluding
  <2> QED
    BY <1>c, <2>1, <2>2, OnwardWith DEF RowFields
<1>6. CASE PublishOutput(p)
  <2>1. PICK objects : /\ Working(p, "publish", [objects |-> objects])
                       /\ UNCHANGED <<checkpoints, report>>
    BY <1>6 DEF PublishOutput
  <2> DEFINE changes == [objects |-> objects]  v == workers'[p]
  <2>2. DOMAIN changes = {"objects"} /\ Working(p, "publish", changes)
    BY <2>1
  <2>3. Ready(kind, w) /\ w.pc = "publish"
    BY <1>r, <2>2, WorkingAt DEF Concluding
  <2> HIDE DEF changes
  <2>4. /\ DOMAIN v = DOMAIN w \union DOMAIN changes
        /\ \A f \in DOMAIN w \ DOMAIN changes : v[f] = w[f]
    BY <2>2, WorkingFields
  <2>5. Keeps(w, v, RowFields) /\ "pc" \in DOMAIN v /\ v.pc = "publish"
    BY <2>2, <2>3, <2>4 DEF Keeps, RowFields, Ready, OnRow
  <2>6. v.pc \in SamplePlaces /\ v.pc \notin Prepared /\ ~Showing(v)
    BY <2>5 DEF SamplePlaces, Prepared, Showing, Concluding
  <2> HIDE DEF w, v
  <2>7. Ready(kind, v)
    BY <2>3, <2>5, <2>6, StaysOnRow
  <2>8. Rests(w, v)
    BY <2>3, <2>5, <2>6 DEF Rests, Keeps, RowFields, Ready, OnRow
  <2> QED
    BY <1>c, <2>1, <2>3, <2>7, <2>8 DEF v, w
<1>7. CASE CompleteEvaluation(p)
  <2>1. workers'[p] = Idle /\ UNCHANGED <<checkpoints, report>>
    BY <1>7 DEF CompleteEvaluation, Finish, FrameTyped
  <2> QED
    BY <2>1, ApartGoes DEF Evaluator, Idle
<1> QED
  BY <1>1, <1>2, <1>3, <1>4, <1>5, <1>6, <1>7 DEF EvaluationStep

\* The steps that every stage takes with its own arguments.

LeadsOn(course) ==
  course \in Seq(Concluding) /\ course # <<>> /\ course[Len(course)] = "publish"

LEMMA OpenReady ==
  ASSUME FrameTyped, NEW p \in Processes, FilesCausal(kind, checkpoints, report),
         NEW k, NEW course, LeadsOn(course), Open(p, k, course)
  PROVE  Goes(p)
<1> DEFINE others == [pc |-> "enter", course |-> course]  v == workers'[p]
<1>1. Begin(p, {k}, Changed(EvaluationIdle, others))
  BY DEF Open
<1>2. /\ DOMAIN others = {"pc", "course"} /\ others.pc = "enter" /\ others.course = course
  OBVIOUS
<1> HIDE DEF others
<1>3. /\ DOMAIN EvaluationIdle \union DOMAIN others \union {"attempt"} \subseteq DOMAIN v
      /\ \A f \in DOMAIN others : v[f] = others[f]
      /\ \A f \in DOMAIN EvaluationIdle \ (DOMAIN others \union {"attempt"}) :
           v[f] = EvaluationIdle[f]
  BY <1>1, <1>2, BeginChanges
<1>4. /\ DOMAIN EvaluationIdle = {"row", "histories", "measured", "example", "prefix", "course",
                                  "result",
                                  "reported", "bound", "objects"}
      /\ EvaluationIdle.row = 1 /\ EvaluationIdle.measured = <<>>
      /\ EvaluationIdle.histories = [g \in Groups |-> NoHistory]
  BY DEF EvaluationIdle
<1>5. /\ (RowFields \ {"assets"}) \union {"pc"} \subseteq DOMAIN v /\ v.row = 1 /\ v.measured = <<>>
      /\ v.histories = [g \in Groups |-> NoHistory] /\ v.pc = "enter" /\ v.course = course
  BY <1>2, <1>3, <1>4 DEF RowFields
<1> HIDE DEF v
<1>6. Ready(kind, v)
  BY <1>5, BeginsOnRow DEF LeadsOn
<1>7. v.pc # "refused" /\ ~Showing(v)
  BY <1>5 DEF Showing
<1>8. UNCHANGED <<checkpoints, report>>
  BY DEF Open
<1> QED
  BY <1>5, <1>6, <1>7, <1>8, ApartGoes DEF Evaluator, v

LEMMA EnterReady ==
  ASSUME FrameTyped, NEW p \in Processes, Evaluator(kind, workers[p]), kind # "runtime_audit",
         FilesCausal(kind, checkpoints, report), NEW k, EnterEvaluator(p, k)
  PROVE  Goes(p)
<1> DEFINE changes == [pc |-> "evaluate", prefix |-> NoPrefix]
<1>1. Working(p, "enter", changes) /\ UNCHANGED <<checkpoints, report>>
  BY DEF EnterEvaluator
<1>2. /\ DOMAIN changes = {"pc", "prefix"} /\ changes.pc = "evaluate"
  OBVIOUS
<1> HIDE DEF changes
<1>3. Ready(kind, workers[p])
  BY <1>1, WorkingAt, ReadyAt DEF Closing
<1>4. changes.pc \in SamplePlaces /\ RowFields \intersect DOMAIN changes = {}
  BY <1>2 DEF SamplePlaces, RowFields
<1>5. Ready(kind, workers'[p]) /\ Rests(workers[p], workers'[p])
  BY <1>1, <1>2, <1>3, <1>4, MovesReady
<1> QED
  BY <1>1, <1>3, <1>5, RestsGoes

LEMMA RestoreReady ==
  ASSUME FrameTyped, NEW p \in Processes, Evaluator(kind, workers[p]),
         FilesCausal(kind, checkpoints, report), NEW k, NEW stands, RestoreRow(p, k, stands),
         stands /\ kind # MethodDev =>
           checkpoints[workers[p].row].history = workers[p].histories[PrefixGroup[workers[p].row]],
         /\ MeasuredAt(kind, workers[p].row, Found(p))
         /\ kind # MethodDev => Found(p).history = History(p)
         => stands
  PROVE  Goes(p)
<1> DEFINE w == workers[p]
<1>1. /\ w.pc = "evaluate" /\ w.row \in Rows /\ Found(p) # None
      /\ Working(p, "evaluate", IF stands THEN TakenUp(p, Found(p)) ELSE [pc |-> "refused"])
      /\ UNCHANGED <<checkpoints, report>>
  BY DEF RestoreRow, AtRow, At
<1>2. Ready(kind, w)
  BY <1>1, ReadyAt DEF Closing
<1>m. MeasuredAt(kind, w.row, Found(p))
  BY <1>1 DEF FilesCausal, Found
<1>3. /\ Ready(kind, workers'[p])
      /\ Resuming(kind, checkpoints, w) => Resuming(kind, checkpoints, workers'[p])
  <2>1. CASE ~stands
    <3>1. Working(p, "evaluate", [pc |-> "refused"])
      BY <1>1, <2>1
    <3>2. Ready(kind, workers'[p])
      BY <1>2, <3>1, RejectedReady
    <3>3. kind # MethodDev /\ Resuming(kind, checkpoints, w) =>
            checkpoints[w.row].history = w.histories[PrefixGroup[w.row]]
      BY <1>1, <1>2, FoundIsDue DEF Found
    <3>4. ~Resuming(kind, checkpoints, w)
      BY <1>m, <2>1, <3>3 DEF Found, History
    <3> QED
      BY <3>2, <3>4
  <2>2. CASE stands
    <3> DEFINE changes == TakenUp(p, Found(p))
    <3>1. DOMAIN changes = {"row", "measured", "histories"} /\ Working(p, "evaluate", changes)
      BY <1>1, <2>2 DEF TakenUp
    <3>3. PrefixGroup[w.row] \in Groups
      BY <1>1 DEF Groups, Range, Rows
    <3>4. (w.row - 1) + 1 = w.row
      BY <1>2, RowNumbers DEF Ready, OnRow
    <3>5. kind # MethodDev =>
                Found(p).history = Counted(kind, w.measured, PrefixGroup[w.row], w.row - 1)
      BY <1>2, <2>2, <3>3 DEF Ready, OnRow, Found
    <3>6. DueNext(kind, w.measured, w.row - 1, Found(p))
      BY <1>m, <3>4, <3>5 DEF DueNext
    <3>7. /\ changes.row = TakenUp(p, Found(p)).row
          /\ changes.measured = TakenUp(p, Found(p)).measured
          /\ changes.histories = TakenUp(p, Found(p)).histories
      OBVIOUS
    <3> HIDE DEF changes
    <3>8. /\ Ready(kind, workers'[p])
          /\ workers'[p].row = w.row + 1 /\ workers'[p].pc = "evaluate"
          /\ workers'[p].measured = Append(w.measured, Found(p))
      BY <1>1, <1>2, <3>1, <3>6, <3>7, TakesUpReady
    <3>9. Resuming(kind, checkpoints, w) => Resuming(kind, checkpoints, workers'[p])
      BY <1>1, <1>2, <3>8, RestoredResuming DEF Found
    <3> QED
      BY <3>8, <3>9
  <2> QED
    BY <2>1, <2>2
<1> QED
  BY <1>1, <1>3 DEF Goes, Evaluator

\* A row is measured whose checkpoint does not lie there.
LEMMA MeasuringResuming ==
  ASSUME NEW k, NEW saved, NEW w, NEW v, Ready(k, w), Resuming(k, saved, w), v.row = w.row,
         v.measured = w.measured, v.pc \in {"measure", "save sample"}, saved[w.row] = None
  PROVE  Resuming(k, saved, v)
BY DEF Resuming, TakenFrom

LEMMA MeasureReady ==
  ASSUME FrameTyped, NEW p \in Processes, Evaluator(kind, workers[p]), kind # "runtime_audit",
         FilesCausal(kind, checkpoints, report), NEW k, NEW examples, MeasureRow(p, k, examples),
         \A x \in examples :
           /\ MeasuredAt(kind, workers[p].row, x)
           /\ kind # MethodDev => x.history = workers[p].histories[PrefixGroup[workers[p].row]]
  PROVE  Goes(p)
<1> DEFINE w == workers[p]  v == workers'[p]
<1>1. /\ w.pc = "evaluate" /\ w.row \in Rows /\ UNCHANGED <<checkpoints, report>>
  BY DEF MeasureRow, AtRow, At
<1>2. PICK x \in examples :
        Working(p, "evaluate", [pc |-> "save sample", prefix |-> HeldPrefix(p), example |-> x])
  BY DEF MeasureRow
<1> DEFINE changes == [pc |-> "save sample", prefix |-> HeldPrefix(p), example |-> x]
<1>3. /\ DOMAIN changes = {"pc", "prefix", "example"} /\ changes.pc = "save sample"
      /\ changes.example = x /\ Working(p, "evaluate", changes)
  BY <1>2
<1>4. Ready(kind, w)
  BY <1>1, ReadyAt DEF Closing
<1>f. checkpoints[w.row] = None
  BY DEF MeasureRow, Found
<1> HIDE DEF changes
<1>5. /\ DOMAIN v = DOMAIN w \union DOMAIN changes
      /\ \A f \in DOMAIN changes : v[f] = changes[f]
      /\ \A f \in DOMAIN w \ DOMAIN changes : v[f] = w[f]
  BY <1>3, WorkingFields
<1>6. /\ (RowFields \ {"assets"}) \union {"pc"} \subseteq DOMAIN v
      /\ v.row = w.row /\ v.measured = w.measured /\ v.histories = w.histories
      /\ v.course = w.course /\ v.pc = "save sample" /\ v.example = x
  BY <1>3, <1>4, <1>5 DEF RowFields, Ready, OnRow
<1>7. DueNext(kind, w.measured, w.row - 1, x)
  <2>1. (w.row - 1) + 1 = w.row
    BY <1>4, RowNumbers DEF Ready, OnRow
  <2>2. PrefixGroup[w.row] \in Groups
    BY <1>1 DEF Groups, Range, Rows
  <2>3. kind # MethodDev =>
          w.histories[PrefixGroup[w.row]] = Counted(kind, w.measured, PrefixGroup[w.row], w.row - 1)
    BY <1>4, <2>2 DEF Ready, OnRow
  <2> QED
    BY <2>1, <2>3 DEF DueNext
<1> HIDE DEF w, v
<1>8. OnRow(kind, v)
  BY <1>1, <1>4, <1>6, <1>7 DEF Ready, OnRow
<1>9. Leads(v) /\ Placed(kind, v)
  BY <1>1, <1>4, <1>6 DEF Ready, Leads, Placed, SamplePlaces
<1>10. Resuming(kind, checkpoints, w) => Resuming(kind, checkpoints, v)
  BY <1>4, <1>6, <1>f, MeasuringResuming
<1> QED
  BY <1>1, <1>8, <1>9, <1>10 DEF Goes, Evaluator, Ready, v, w

LEMMA ConcludeReady ==
  ASSUME FrameTyped, NEW p \in Processes, Evaluator(kind, workers[p]),
         FilesCausal(kind, checkpoints, report), NEW k, NEW result, NEW acceptable,
         Conclude(p, k, result, acceptable)
  PROVE  Goes(p)
<1>1. /\ Working(p, "conclude", IF acceptable THEN Changed(Onward(p), [result |-> result])
                               ELSE [pc |-> "rejected"])
      /\ UNCHANGED <<checkpoints, report>>
  BY DEF Conclude
<1>2. Ready(kind, workers[p])
  BY <1>1, WorkingAt, ReadyAt DEF Closing
<1>3. CASE acceptable
  <2>1. Working(p, "conclude", Changed(Onward(p), [result |-> result]))
    BY <1>1, <1>3
  <2>2. Ready(kind, workers'[p]) /\ Rests(workers[p], workers'[p])
    BY <1>2, <2>1, OnwardWith DEF RowFields
  <2> QED
    BY <1>1, <1>2, <2>2, RestsGoes
<1>4. CASE ~acceptable
  <2>1. Working(p, "conclude", [pc |-> "rejected"])
    BY <1>1, <1>4
  <2>2. Ready(kind, workers'[p]) /\ Rests(workers[p], workers'[p])
    BY <1>2, <2>1, RejectedReady
  <2> QED
    BY <1>1, <1>2, <2>2, RestsGoes
<1> QED
  BY <1>3, <1>4

LEMMA ArtifactReady ==
  ASSUME FrameTyped, NEW p \in Processes, Evaluator(kind, workers[p]),
         FilesCausal(kind, checkpoints, report), NEW k, NEW contents, WriteArtifact(p, k, contents)
  PROVE  Goes(p)
<1>1. Working(p, "artifact", Onward(p)) /\ UNCHANGED <<checkpoints, report>>
  BY DEF WriteArtifact
<1>2. Ready(kind, workers[p])
  BY <1>1, WorkingAt, ReadyAt DEF Closing
<1>3. Ready(kind, workers'[p]) /\ Rests(workers[p], workers'[p])
  BY <1>1, <1>2, OnwardAlone
<1> QED
  BY <1>1, <1>2, <1>3, RestsGoes

LEMMA ManifestReady ==
  ASSUME FrameTyped, NEW p \in Processes, Evaluator(kind, workers[p]),
         FilesCausal(kind, checkpoints, report), NEW k, NEW valid, WriteManifest(p, k, valid)
  PROVE  Goes(p)
<1>1. /\ Working(p, "manifest", IF valid THEN Onward(p) ELSE [pc |-> "rejected"])
      /\ UNCHANGED <<checkpoints, report>>
  BY DEF WriteManifest
<1>2. Ready(kind, workers[p])
  BY <1>1, WorkingAt, ReadyAt DEF Closing
<1>3. CASE valid
  <2>1. Working(p, "manifest", Onward(p))
    BY <1>1, <1>3
  <2>2. Ready(kind, workers'[p]) /\ Rests(workers[p], workers'[p])
    BY <1>2, <2>1, OnwardAlone
  <2> QED
    BY <1>1, <1>2, <2>2, RestsGoes
<1>4. CASE ~valid
  <2>1. Working(p, "manifest", [pc |-> "rejected"])
    BY <1>1, <1>4
  <2>2. Ready(kind, workers'[p]) /\ Rests(workers[p], workers'[p])
    BY <1>2, <2>1, RejectedReady
  <2> QED
    BY <1>1, <1>2, <2>2, RestsGoes
<1> QED
  BY <1>3, <1>4

LEMMA Courses ==
  /\ LeadsOn(RiskFitCourse) /\ LeadsOn(CalibrationCourse) /\ LeadsOn(ValidationCourse)
  /\ LeadsOn(SemanticCourse) /\ LeadsOn(MethodDevCourse) /\ LeadsOn(AuditCourse)
<1>1. LeadsOn(RiskFitCourse)
  BY DEF LeadsOn, RiskFitCourse, Concluding
<1>2. LeadsOn(CalibrationCourse)
  BY DEF LeadsOn, CalibrationCourse, Concluding
<1>3. LeadsOn(ValidationCourse)
  BY DEF LeadsOn, ValidationCourse, Concluding
<1>4. LeadsOn(MethodDevCourse)
  BY DEF LeadsOn, MethodDevCourse, Concluding
<1>5. LeadsOn(AuditCourse)
  BY DEF LeadsOn, AuditCourse, Concluding
<1> QED
  BY <1>1, <1>2, <1>3, <1>4, <1>5 DEF SemanticCourse

\* What may be measured of a row is measured under the row's own prefix, and counted.
LEMMA OutcomesOfRow ==
  ASSUME kind \in (Kinds \intersect Evaluations) \ {MethodDev}, NEW prefix,
         NEW o \in Evaluated(kind, prefix)
  PROVE  o.prefix = prefix /\ o.matches \in Nat /\ (kind = "calibrate" => o.risk \in Nat)
<1>1. PICK measured \in Outcomes[kind] : o = Changed(measured, [prefix |-> prefix])
  BY DEF Evaluated
<1>2. "matches" \in DOMAIN measured /\ measured.matches \in Nat
  BY <1>1, EvaluationAssumption DEF MethodDev
<1>3. kind = "calibrate" => "risk" \in DOMAIN measured /\ measured.risk \in Nat
  BY <1>1, CalibrationAssumption
<1> QED
  BY <1>1, <1>2, <1>3 DEF Changed

LEMMA HeldIsOwn ==
  ASSUME NEW p PROVE HeldPrefix(p) = PrefixGroup[workers[p].row]
BY DEF HeldPrefix, PrefixFor

LEMMA MadeFields ==
  ASSUME NEW k, NEW history, NEW o
  PROVE  LET x == Made(k, history, o)
         IN  x.outcome = o /\ x.history = history /\ "outcome" \in DOMAIN x
<1>1. LET x == RiskExample(history, o)
      IN  x.outcome = o /\ x.history = history /\ "outcome" \in DOMAIN x
  BY DEF RiskExample
<1>2. LET x == ValidationMeasurement(history, o)
      IN  x.outcome = o /\ x.history = history /\ "outcome" \in DOMAIN x
  BY DEF RiskExample, ValidationMeasurement
<1> QED
  BY <1>1, <1>2 DEF Made

LEMMA ExampleOfRow ==
  ASSUME kind \in (Kinds \intersect Evaluations) \ {MethodDev}, NEW row,
         NEW o \in Evaluated(kind, PrefixGroup[row]), NEW history
  PROVE  MeasuredAt(kind, row, Made(kind, history, o)) /\ Made(kind, history, o).history = history
<1>1. o.prefix = PrefixGroup[row] /\ o.matches \in Nat /\ (kind = "calibrate" => o.risk \in Nat)
  BY OutcomesOfRow
<1> QED
  BY <1>1, MadeFields DEF MeasuredAt

\* A checkpoint on the history of its row is what the stage makes of it once more.
LEMMA StandsAsMade ==
  ASSUME kind # MethodDev, NEW p, MeasuredAt(kind, workers[p].row, Found(p)),
         kind # MethodDev => Found(p).history = History(p)
  PROVE  Found(p) = Made(kind, History(p), Found(p).outcome)
BY DEF MeasuredAt

LEMMA RiskFitReady ==
  ASSUME FrameTyped, NEW p \in Processes, Evaluator(kind, workers[p]),
         kind \in (Kinds \intersect Evaluations) \ {"runtime_audit"},
         FilesCausal(kind, checkpoints, report), RiskFitStep(p)
  PROVE  Goes(p)
<1> DEFINE w == workers[p]
<1>1. CASE BeginRiskFit(p)
  BY <1>1, Courses, OpenReady DEF BeginRiskFit
<1>2. CASE EnterRiskFit(p)
  BY <1>2, EnterReady DEF EnterRiskFit
<1>3. CASE RestoreRiskExample(p)
  <2>1. RestoreRow(p, "fit_risk", Found(p) = RiskExample(History(p), Found(p).outcome))
    BY <1>3 DEF RestoreRiskExample
  <2>2. Found(p) = RiskExample(History(p), Found(p).outcome) =>
          checkpoints[w.row].history = w.histories[PrefixGroup[w.row]]
    <3>1. RiskExample(History(p), Found(p).outcome).history = History(p)
      BY DEF RiskExample
    <3> QED
      BY <3>1 DEF Found, History
  <2>3. kind = "fit_risk"
    BY <2>1 DEF RestoreRow, AtRow
  <2>4. RiskExample(History(p), Found(p).outcome) = Made(kind, History(p), Found(p).outcome)
    BY <2>3 DEF Made
  <2>5. /\ MeasuredAt(kind, w.row, Found(p))
        /\ kind # MethodDev => Found(p).history = History(p)
        => Found(p) = RiskExample(History(p), Found(p).outcome)
    BY <2>3, <2>4, StandsAsMade DEF MethodDev
  <2> QED
    BY <2>1, <2>2, <2>5, RestoreReady
<1>4. CASE MeasureRiskExample(p)
  <2> DEFINE examples == {RiskExample(History(p), o) : o \in Evaluated("fit_risk", HeldPrefix(p))}
  <2>1. MeasureRow(p, "fit_risk", examples) /\ kind = "fit_risk"
    BY <1>4 DEF MeasureRiskExample, MeasureRow, AtRow
  <2>2. ASSUME NEW x \in examples
        PROVE  MeasuredAt(kind, w.row, x) /\ x.history = w.histories[PrefixGroup[w.row]]
    <3>1. PICK o \in Evaluated(kind, PrefixGroup[w.row]) : x = RiskExample(History(p), o)
      BY <2>1, HeldIsOwn
    <3>2. x = Made(kind, History(p), o)
      BY <2>1, <3>1 DEF Made
    <3> QED
      BY <2>1, <3>1, <3>2, ExampleOfRow DEF History, MethodDev
  <2> HIDE DEF examples
  <2> QED
    BY <2>1, <2>2, MeasureReady
<1>5. CASE FitPredictor(p)
  BY <1>5, ConcludeReady DEF FitPredictor
<1>6. CASE SavePredictor(p)
  BY <1>6, ArtifactReady DEF SavePredictor
<1>7. CASE WriteRiskManifest(p)
  BY <1>7, ManifestReady DEF WriteRiskManifest
<1> QED
  BY <1>1, <1>2, <1>3, <1>4, <1>5, <1>6, <1>7 DEF RiskFitStep

LEMMA CalibrationReady ==
  ASSUME FrameTyped, NEW p \in Processes, Evaluator(kind, workers[p]),
         kind \in (Kinds \intersect Evaluations) \ {"runtime_audit"},
         FilesCausal(kind, checkpoints, report), CalibrationStep(p)
  PROVE  Goes(p)
<1> DEFINE w == workers[p]
<1>1. CASE BeginCalibration(p)
  BY <1>1, Courses, OpenReady DEF BeginCalibration
<1>2. CASE EnterCalibration(p)
  BY <1>2, EnterReady DEF EnterCalibration
<1>3. CASE RestoreCalibration(p)
  <2>1. RestoreRow(p, "calibrate", Found(p) = CalibrationMeasurement(History(p), Found(p).outcome))
    BY <1>3 DEF RestoreCalibration
  <2>2. Found(p) = CalibrationMeasurement(History(p), Found(p).outcome) =>
          checkpoints[w.row].history = w.histories[PrefixGroup[w.row]]
    <3>1. CalibrationMeasurement(History(p), Found(p).outcome).history = History(p)
      BY DEF CalibrationMeasurement, RiskExample
    <3> QED
      BY <3>1 DEF Found, History
  <2>3. kind = "calibrate"
    BY <2>1 DEF RestoreRow, AtRow
  <2>4. CalibrationMeasurement(History(p), Found(p).outcome) = Made(kind, History(p), Found(p).outcome)
    BY <2>3 DEF Made, CalibrationMeasurement
  <2>5. /\ MeasuredAt(kind, w.row, Found(p))
        /\ kind # MethodDev => Found(p).history = History(p)
        => Found(p) = CalibrationMeasurement(History(p), Found(p).outcome)
    BY <2>3, <2>4, StandsAsMade DEF MethodDev
  <2> QED
    BY <2>1, <2>2, <2>5, RestoreReady
<1>4. CASE MeasureCalibration(p)
  <2> DEFINE examples ==
           {CalibrationMeasurement(History(p), o) : o \in Evaluated("calibrate", HeldPrefix(p))}
  <2>1. MeasureRow(p, "calibrate", examples) /\ kind = "calibrate"
    BY <1>4 DEF MeasureCalibration, MeasureRow, AtRow
  <2>2. ASSUME NEW x \in examples
        PROVE  MeasuredAt(kind, w.row, x) /\ x.history = w.histories[PrefixGroup[w.row]]
    <3>1. PICK o \in Evaluated(kind, PrefixGroup[w.row]) : x = CalibrationMeasurement(History(p), o)
      BY <2>1, HeldIsOwn
    <3>2. x = Made(kind, History(p), o)
      BY <2>1, <3>1 DEF Made, CalibrationMeasurement
    <3> QED
      BY <2>1, <3>1, <3>2, ExampleOfRow DEF History, MethodDev
  <2> HIDE DEF examples
  <2> QED
    BY <2>1, <2>2, MeasureReady
<1>5. CASE SelectThreshold(p)
  BY <1>5, ConcludeReady DEF SelectThreshold
<1>6. CASE WriteCalibrationManifest(p)
  BY <1>6, ManifestReady DEF WriteCalibrationManifest
<1> QED
  BY <1>1, <1>2, <1>3, <1>4, <1>5, <1>6 DEF CalibrationStep

LEMMA ValidationReady ==
  ASSUME FrameTyped, NEW p \in Processes, Evaluator(kind, workers[p]),
         kind \in (Kinds \intersect Evaluations) \ {"runtime_audit"},
         FilesCausal(kind, checkpoints, report), ValidationStep(p)
  PROVE  Goes(p)
<1> DEFINE w == workers[p]
<1>1. CASE BeginValidation(p)
  BY <1>1, Courses, OpenReady DEF BeginValidation
<1>2. CASE EnterValidation(p)
  BY <1>2, EnterReady DEF EnterValidation
<1>3. CASE RestoreValidation(p)
  <2>1. RestoreRow(p, "validate", Found(p) = ValidationMeasurement(History(p), Found(p).outcome))
    BY <1>3 DEF RestoreValidation
  <2>2. Found(p) = ValidationMeasurement(History(p), Found(p).outcome) =>
          checkpoints[w.row].history = w.histories[PrefixGroup[w.row]]
    <3>1. ValidationMeasurement(History(p), Found(p).outcome).history = History(p)
      BY DEF ValidationMeasurement, RiskExample
    <3> QED
      BY <3>1 DEF Found, History
  <2>3. kind = "validate"
    BY <2>1 DEF RestoreRow, AtRow
  <2>4. ValidationMeasurement(History(p), Found(p).outcome) = Made(kind, History(p), Found(p).outcome)
    BY <2>3 DEF Made
  <2>5. /\ MeasuredAt(kind, w.row, Found(p))
        /\ kind # MethodDev => Found(p).history = History(p)
        => Found(p) = ValidationMeasurement(History(p), Found(p).outcome)
    BY <2>3, <2>4, StandsAsMade DEF MethodDev
  <2> QED
    BY <2>1, <2>2, <2>5, RestoreReady
<1>4. CASE MeasureValidation(p)
  <2> DEFINE examples ==
           {ValidationMeasurement(History(p), o) : o \in Evaluated("validate", HeldPrefix(p))}
  <2>1. MeasureRow(p, "validate", examples) /\ kind = "validate"
    BY <1>4 DEF MeasureValidation, MeasureRow, AtRow
  <2>2. ASSUME NEW x \in examples
        PROVE  MeasuredAt(kind, w.row, x) /\ x.history = w.histories[PrefixGroup[w.row]]
    <3>1. PICK o \in Evaluated(kind, PrefixGroup[w.row]) : x = ValidationMeasurement(History(p), o)
      BY <2>1, HeldIsOwn
    <3>2. x = Made(kind, History(p), o)
      BY <2>1, <3>1 DEF Made
    <3> QED
      BY <2>1, <3>1, <3>2, ExampleOfRow DEF History, MethodDev
  <2> HIDE DEF examples
  <2> QED
    BY <2>1, <2>2, MeasureReady
<1>5. CASE ConcludeValidation(p)
  BY <1>5, ConcludeReady DEF ConcludeValidation, ConcludeSelective
<1>6. CASE WriteCandidate(p)
  BY <1>6, ArtifactReady DEF WriteCandidate
<1>7. CASE WriteValidationManifest(p)
  BY <1>7, ManifestReady DEF WriteValidationManifest
<1> QED
  BY <1>1, <1>2, <1>3, <1>4, <1>5, <1>6, <1>7 DEF ValidationStep

LEMMA SemanticReady ==
  ASSUME FrameTyped, NEW p \in Processes, Evaluator(kind, workers[p]),
         kind \in (Kinds \intersect Evaluations) \ {"runtime_audit"},
         FilesCausal(kind, checkpoints, report), SemanticStep(p)
  PROVE  Goes(p)
<1> DEFINE w == workers[p]
<1>1. CASE BeginSemantic(p)
  BY <1>1, Courses, OpenReady DEF BeginSemantic
<1>2. CASE EnterSemantic(p)
  BY <1>2, EnterReady DEF EnterSemantic
<1>3. CASE RestoreSemantic(p)
  <2>1. RestoreRow(p, "semantic_sealed",
                   Found(p) = SemanticMeasurement(History(p), Found(p).outcome))
    BY <1>3 DEF RestoreSemantic
  <2>2. Found(p) = SemanticMeasurement(History(p), Found(p).outcome) =>
          checkpoints[w.row].history = w.histories[PrefixGroup[w.row]]
    <3>1. SemanticMeasurement(History(p), Found(p).outcome).history = History(p)
      BY DEF SemanticMeasurement, ValidationMeasurement, RiskExample
    <3> QED
      BY <3>1 DEF Found, History
  <2>3. kind = "semantic_sealed"
    BY <2>1 DEF RestoreRow, AtRow
  <2>4. SemanticMeasurement(History(p), Found(p).outcome) = Made(kind, History(p), Found(p).outcome)
    BY <2>3 DEF Made, SemanticMeasurement
  <2>5. /\ MeasuredAt(kind, w.row, Found(p))
        /\ kind # MethodDev => Found(p).history = History(p)
        => Found(p) = SemanticMeasurement(History(p), Found(p).outcome)
    BY <2>3, <2>4, StandsAsMade DEF MethodDev
  <2> QED
    BY <2>1, <2>2, <2>5, RestoreReady
<1>4. CASE MeasureSemantic(p)
  <2> DEFINE examples ==
           {SemanticMeasurement(History(p), o) : o \in Evaluated("semantic_sealed", HeldPrefix(p))}
  <2>1. MeasureRow(p, "semantic_sealed", examples) /\ kind = "semantic_sealed"
    BY <1>4 DEF MeasureSemantic, MeasureRow, AtRow
  <2>2. ASSUME NEW x \in examples
        PROVE  MeasuredAt(kind, w.row, x) /\ x.history = w.histories[PrefixGroup[w.row]]
    <3>1. PICK o \in Evaluated(kind, PrefixGroup[w.row]) : x = SemanticMeasurement(History(p), o)
      BY <2>1, HeldIsOwn
    <3>2. x = Made(kind, History(p), o)
      BY <2>1, <3>1 DEF Made, SemanticMeasurement
    <3> QED
      BY <2>1, <3>1, <3>2, ExampleOfRow DEF History, MethodDev
  <2> HIDE DEF examples
  <2> QED
    BY <2>1, <2>2, MeasureReady
<1>5. CASE ConcludeSemantic(p)
  BY <1>5, ConcludeReady DEF ConcludeSemantic, ConcludeSelective
<1>6. CASE WriteSemanticApproved(p)
  BY <1>6, ArtifactReady DEF WriteSemanticApproved
<1>7. CASE WriteSemanticManifest(p)
  BY <1>7, ManifestReady DEF WriteSemanticManifest
<1> QED
  BY <1>1, <1>2, <1>3, <1>4, <1>5, <1>6, <1>7 DEF SemanticStep

LEMMA MethodDevReady ==
  ASSUME FrameTyped, NEW p \in Processes, Evaluator(kind, workers[p]),
         kind \in (Kinds \intersect Evaluations) \ {"runtime_audit"},
         FilesCausal(kind, checkpoints, report), MethodDevStep(p)
  PROVE  Goes(p)
<1> DEFINE w == workers[p]
<1>1. CASE BeginMethodDev(p)
  BY <1>1, Courses, OpenReady DEF BeginMethodDev
<1>2. CASE EnterMethodDev(p)
  BY <1>2, EnterReady DEF EnterMethodDev
<1>3. CASE RestoreMethodDev(p)
  <2>1. kind = MethodDev /\ RestoreRow(p, "evaluate_method_dev", CompleteSet(Found(p).outcome))
    BY <1>3 DEF RestoreMethodDev, RestoreRow, AtRow, MethodDev
  <2>2. MeasuredAt(kind, w.row, Found(p)) => CompleteSet(Found(p).outcome)
    BY <2>1 DEF MeasuredAt
  <2> QED
    BY <2>1, <2>2, RestoreReady
<1>4. CASE MeasureMethodDev(p)
  <2> DEFINE examples ==
           {MethodDevMeasurement(History(p), o) : o \in EvaluatedCandidates(HeldPrefix(p))}
  <2>1. MeasureRow(p, "evaluate_method_dev", examples) /\ kind = MethodDev
    BY <1>4 DEF MeasureMethodDev, MeasureRow, AtRow, MethodDev
  <2>2. ASSUME NEW x \in examples
        PROVE  MeasuredAt(kind, w.row, x)
    <3>1. PICK o \in Outcomes["evaluate_method_dev"] :
            x.outcome = [c \in DOMAIN o |-> Changed(o[c], [prefix |-> PrefixGroup[w.row]])]
      BY HeldIsOwn DEF EvaluatedCandidates, MethodDevMeasurement
    <3>2. \A c \in DOMAIN x.outcome : x.outcome[c].prefix = PrefixGroup[w.row]
      BY <3>1 DEF Changed
    <3>3. CompleteSet(o) /\ \A c \in Fitted : "native" \in DOMAIN o[c]
      BY <2>1, MethodDevAssumption DEF MethodDev
    <3>4. \A c \in Fitted : x.outcome[c].native = o[c].native
      BY <3>1, <3>3 DEF Changed, CompleteSet
    <3>5. CompleteSet(x.outcome)
      BY <3>1, <3>3, <3>4 DEF CompleteSet
    <3>6. "outcome" \in DOMAIN x
      BY DEF MethodDevMeasurement
    <3> QED
      BY <2>1, <3>2, <3>5, <3>6 DEF MeasuredAt
  <2> HIDE DEF examples
  <2> QED
    BY <2>1, <2>2, MeasureReady
<1>5. CASE FreezeStructure(p)
  BY <1>5, ConcludeReady DEF FreezeStructure
<1>6. CASE WriteStructure(p)
  BY <1>6, ManifestReady DEF WriteStructure
<1> QED
  BY <1>1, <1>2, <1>3, <1>4, <1>5, <1>6 DEF MethodDevStep

\* The prefix of the first row of a group is the group's.
LEMMA FirstOfGroup ==
  ASSUME NEW g \in Groups
  PROVE  PrefixGroup[CHOOSE r \in Rows : /\ PrefixGroup[r] = g
                                         /\ \A s \in 1..r - 1 : PrefixGroup[s] # g] = g
<1> DEFINE rows == {r \in Rows : PrefixGroup[r] = g}
<1>1. Rows = 1..Len(PrefixGroup) /\ Len(PrefixGroup) \in Nat
  <2>1. PrefixGroup \in Seq(Groups)
    BY StageAssumption, Zenon
  <2> QED
    BY <2>1, LenProperties DEF Rows
<1>2. rows \in SUBSET Nat /\ rows # {}
  BY <1>1 DEF Groups, Range, Rows
<1>3. PICK r \in rows : \A k \in rows : r <= k
  <2> HIDE DEF rows
  <2> QED
    BY <1>2, LeastNatural
<1>4. \A s \in 1..r - 1 : PrefixGroup[s] # g
  <2> SUFFICES ASSUME NEW s \in 1..r - 1, PrefixGroup[s] = g
               PROVE  FALSE
    OBVIOUS
  <2>1. s \in rows /\ s < r
    BY <1>1, <1>2
  <2> QED
    BY <1>2, <1>3, <2>1
<1>5. \E s \in Rows : PrefixGroup[s] = g /\ \A k \in 1..s - 1 : PrefixGroup[k] # g
  BY <1>3, <1>4
<1> QED
  BY <1>5

-----------------------------------------------------------------------------
(* The steps of the audit.                                                 *)

LEMMA OnlyMovesOn ==
  ASSUME NEW at
  PROVE  /\ DOMAIN [pc |-> at] = {"pc"} /\ [pc |-> at].pc = at
         /\ RowFields \intersect DOMAIN [pc |-> at] = {}
BY DEF RowFields

\* A step that only moves on from a place at which what is measured is held.
LEMMA ServedReady ==
  ASSUME FrameTyped, kind = "runtime_audit", NEW p \in Processes, Evaluator(kind, workers[p]),
         FilesCausal(kind, checkpoints, report), UNCHANGED <<checkpoints, report>>,
         NEW at, at \notin Closing \union {"idle", "raised", "publish"},
         NEW changes, Working(p, at, changes), RowFields \intersect DOMAIN changes = {},
         "pc" \in DOMAIN changes,
         changes.pc \notin {"measure", "save sample", "await", "idle", "refused"},
         changes.pc \in Prepared => at \in Prepared
  PROVE  Goes(p)
<1>1. Ready(kind, workers[p])
  BY WorkingAt, ReadyAt
<1>2. Ready(kind, workers'[p]) /\ Rests(workers[p], workers'[p])
  BY <1>1, MovesReady
<1> QED
  BY <1>1, <1>2, RestsGoes

\* A step of _close.
LEMMA ClosesReady ==
  ASSUME FrameTyped, kind = "runtime_audit", NEW p \in Processes, Evaluator(kind, workers[p]),
         FilesCausal(kind, checkpoints, report), UNCHANGED <<checkpoints, report>>,
         NEW at \in Closing, NEW changes, Working(p, at, changes),
         RowFields \intersect DOMAIN changes = {},
         "pc" \in DOMAIN changes, changes.pc \in Closing \union {"raised"},
         "failing" \in DOMAIN changes /\ workers[p].failing = TRUE => changes.failing = TRUE
  PROVE  Goes(p)
<1> DEFINE w == workers[p]  v == workers'[p]
<1>1. /\ w.pc = at /\ DOMAIN v = DOMAIN w \union DOMAIN changes
      /\ \A f \in DOMAIN changes : v[f] = changes[f]
      /\ \A f \in DOMAIN w \ DOMAIN changes : v[f] = w[f]
  BY WorkingFields
<1>2. Ready(kind, w) \/ Lost(w)
  BY <1>1 DEF Evaluator, Closing
<1>3. CASE Ready(kind, w)
  <2>1. /\ changes.pc \notin Prepared
        /\ changes.pc \notin {"measure", "save sample", "await", "idle", "refused"}
        /\ at # "publish"
    BY DEF Closing, Prepared
  <2>2. Ready(kind, v) /\ Rests(w, v)
    BY <1>3, <2>1, MovesReady
  <2> QED
    BY <1>3, <2>2, RestsGoes
<1>4. CASE Lost(w)
  <2>1. /\ {"pc", "measured", "failing"} \subseteq DOMAIN v
        /\ "row" \notin DOMAIN v /\ v.measured = <<>>
        /\ v.failing = TRUE
        /\ v.pc = changes.pc
    BY <1>1, <1>4 DEF Lost, RowFields
  <2>2. Lost(v)
    BY <2>1 DEF Lost
  <2> QED
    BY <2>1, <2>2, ApartGoes DEF Evaluator
<1> QED
  BY <1>2, <1>3, <1>4

LEMMA FailingReady ==
  ASSUME FrameTyped, kind = "runtime_audit", NEW p \in Processes,
         FilesCausal(kind, checkpoints, report), NEW running, NEW stuck, Failing(p, running, stuck)
  PROVE  Goes(p)
<1> DEFINE v == workers'[p]
<1>1. v = [pc |-> "close engine", attempt |-> workers[p].attempt, measured |-> <<>>,
           held |-> workers[p].held, running |-> running, stuck |-> stuck, failing |-> TRUE]
  BY DEF Failing, FrameTyped
<1> HIDE DEF v
<1>2. Lost(v) /\ "row" \notin DOMAIN v
  BY <1>1 DEF Lost, Closing
<1>3. UNCHANGED <<checkpoints, report>>
  BY DEF Failing
<1> QED
  BY <1>2, <1>3, ApartGoes DEF Evaluator, v

LEMMA ServiceReady ==
  ASSUME FrameTyped, kind = "runtime_audit", NEW p \in Processes, Auditor(workers[p]),
         Evaluator(kind, workers[p]), FilesCausal(kind, checkpoints, report), ServiceStep(p)
  PROVE  Goes(p)
<1> DEFINE w == workers[p]  v == workers'[p]
<1>1. CASE LoadBindings(p)
  <2>1. PICK at \in {"start server", "unbound"} : Working(p, "bind evidence", [pc |-> at])
    BY <1>1 DEF LoadBindings
  <2>2. UNCHANGED <<checkpoints, report>>
    BY <1>1 DEF LoadBindings
  <2>3. at \notin Prepared /\ at # "idle" /\ at # "refused"
    BY DEF Prepared
  <2> QED
    BY <2>1, <2>2, <2>3, OnlyMovesOn, ServedReady DEF Closing
<1>2. CASE LaunchServer(p)
  <2> DEFINE changes == [pc |-> "await server", running |-> {"server"}]
  <2>1. DOMAIN changes = {"pc", "running"} /\ changes.pc = "await server"
    OBVIOUS
  <2>2. Working(p, "start server", changes) /\ UNCHANGED <<checkpoints, report>>
    BY <1>2 DEF LaunchServer
  <2> HIDE DEF changes
  <2> QED
    BY <2>1, <2>2, ServedReady DEF Closing, Prepared, RowFields
<1>3. CASE ServerReady(p)
  <2> DEFINE changes == [pc |-> "start collector", held |-> {"server"}]
  <2>1. DOMAIN changes = {"pc", "held"} /\ changes.pc = "start collector"
    OBVIOUS
  <2>2. Working(p, "await server", changes) /\ UNCHANGED <<checkpoints, report>>
    BY <1>3 DEF ServerReady
  <2> HIDE DEF changes
  <2> QED
    BY <2>1, <2>2, ServedReady DEF Closing, Prepared, RowFields
<1>4. CASE ServerNotReady(p)
  BY <1>4, FailingReady DEF ServerNotReady
<1>s. ASSUME NEW at \in {"start collector", "start engine", "start writer"}, NEW service,
            NEW changes,
             Starts(p, at, service, changes), UNCHANGED <<checkpoints, report>>,
             RowFields \intersect DOMAIN changes = {}, "pc" \in DOMAIN changes,
             changes.pc \in {"start engine", "start writer", "load models"}
      PROVE  Goes(p)
  <2> DEFINE started == Changed(changes, [held |-> w.held \union {service},
                                          running |-> w.running \union {service}])
  <2>1. Working(p, at, started)
    BY <1>s DEF Starts
  <2>2. DOMAIN started = DOMAIN changes \union {"held", "running"} /\ started.pc = changes.pc
    BY <1>s DEF Changed
  <2> HIDE DEF started
  <2>3. RowFields \intersect DOMAIN started = {} /\ "pc" \in DOMAIN started
    BY <1>s, <2>2 DEF RowFields
  <2>4. /\ started.pc \notin {"measure", "save sample", "await", "idle", "refused"} \union Prepared
        /\ at \notin Closing \union {"idle", "raised", "publish"}
    BY <1>s, <2>2 DEF Prepared, Closing
  <2> QED
    BY <1>s, <2>1, <2>3, <2>4, ServedReady
<1>5. CASE StartCollector(p)
  <2> DEFINE changes == Changed(CollectorIdle, [pc |-> "start engine"])
  <2>1. /\ "pc" \in DOMAIN changes /\ changes.pc = "start engine"
        /\ RowFields \intersect DOMAIN changes = {}
    BY DEF Changed, CollectorIdle, RowFields
  <2>2. Starts(p, "start collector", "collector", changes) /\ UNCHANGED <<checkpoints, report>>
    BY <1>5 DEF StartCollector
  <2> HIDE DEF changes
  <2> QED
    BY <1>s, <2>1, <2>2
<1>6. CASE StartEngine(p)
  <2>1. /\ Starts(p, "start engine", "engine", [pc |-> "start writer"])
        /\ UNCHANGED <<checkpoints, report>>
    BY <1>6 DEF StartEngine
  <2> QED
    BY <1>s, <2>1, OnlyMovesOn
<1>7. CASE StartWriter(p)
  <2>1. /\ Starts(p, "start writer", "writer", [pc |-> "load models"])
        /\ UNCHANGED <<checkpoints, report>>
    BY <1>7 DEF StartWriter
  <2> QED
    BY <1>s, <2>1, OnlyMovesOn
<1>8. CASE LoadModels(p)
  <2>1. Working(p, "load models", [pc |-> "prepare prefixes"]) /\ UNCHANGED <<checkpoints, report>>
    BY <1>8 DEF LoadModels
  <2> QED
    BY <2>1, OnlyMovesOn, ServedReady DEF Closing, Prepared
<1>9. CASE PreparePrefixes(p)
  <2>1. PICK assets : /\ Working(p, "prepare prefixes", [pc |-> "warm up", assets |-> assets])
                      /\ \A g \in Groups : assets[g] = g
    <3> DEFINE first(group) == CHOOSE r \in Rows : /\ PrefixGroup[r] = group
                                                  /\ \A s \in 1..r - 1 : PrefixGroup[s] # group
               assets == [g \in Groups |-> PrefixGroup[first(g)]]
    <3>1. Working(p, "prepare prefixes", [pc |-> "warm up", assets |-> assets])
      BY <1>9 DEF PreparePrefixes
    <3>2. \A g \in Groups : assets[g] = g
      BY FirstOfGroup
    <3> HIDE DEF assets
    <3> QED
      BY <3>1, <3>2
  <2>2. UNCHANGED <<checkpoints, report>>
    BY <1>9 DEF PreparePrefixes
  <2> DEFINE changes == [pc |-> "warm up", assets |-> assets]
  <2>3. /\ DOMAIN changes = {"pc", "assets"} /\ changes.pc = "warm up" /\ changes.assets = assets
        /\ Working(p, "prepare prefixes", changes)
    BY <2>1
  <2> HIDE DEF changes
  <2>4. Ready(kind, w)
    BY <2>3, WorkingAt, ReadyAt DEF Closing
  <2>5. /\ DOMAIN v = DOMAIN w \union DOMAIN changes
        /\ \A f \in DOMAIN changes : v[f] = changes[f]
        /\ \A f \in DOMAIN w \ DOMAIN changes : v[f] = w[f]
    BY <2>3, WorkingFields
  <2>6. /\ (RowFields \ {"assets"}) \union {"pc", "assets"} \subseteq DOMAIN v
        /\ v.row = w.row /\ v.measured = w.measured /\ v.histories = w.histories
        /\ v.course = w.course /\ v.pc = "warm up" /\ v.assets = assets
    BY <2>3, <2>4, <2>5 DEF RowFields, Ready, OnRow
  <2>7. w.pc = "prepare prefixes"
    BY <2>3, WorkingAt
  <2> HIDE DEF w, v
  <2>8. OnRow(kind, v)
    BY <2>4, <2>6 DEF Ready, OnRow, Showing
  <2>9. Leads(v)
    BY <2>4, <2>6, <2>7 DEF Ready, Leads
  <2>10. Placed(kind, v)
    BY <2>1, <2>6 DEF Placed
  <2>11. Rests(w, v)
    BY <2>6 DEF Rests, Showing
  <2> QED
    BY <2>2, <2>4, <2>8, <2>9, <2>10, <2>11, RestsGoes DEF Ready, v, w
<1>10. CASE Raise(p)
  BY <1>10, FailingReady DEF Raise
<1>c. ASSUME NEW at \in Closing, NEW onward \in Closing, NEW service,
             StopService(p, at, service, onward)
      PROVE  Goes(p)
  <2>1. PICK held, running, stuck :
          Working(p, at, [pc |-> onward, held |-> held, running |-> running, stuck |-> stuck])
    BY <1>c DEF StopService
  <2> DEFINE changes == [pc |-> onward, held |-> held, running |-> running, stuck |-> stuck]
  <2>2. DOMAIN changes = {"pc", "held", "running", "stuck"} /\ changes.pc = onward
    OBVIOUS
  <2>3. Working(p, at, changes) /\ UNCHANGED <<checkpoints, report>>
    BY <1>c, <2>1 DEF StopService
  <2> HIDE DEF changes
  <2>4. RowFields \intersect DOMAIN changes = {} /\ "failing" \notin DOMAIN changes
    BY <2>2 DEF RowFields
  <2> QED
    BY <1>c, <2>2, <2>3, <2>4, ClosesReady
<1>11. CASE StopEngine(p) \/ CloseCollector(p) \/ CloseWriter(p) \/ StopServer(p)
  BY <1>11, <1>c DEF StopEngine, CloseCollector, CloseWriter, StopServer, Closing
<1>12. CASE DrainOnClose(p)
  <2>1. PICK failing : failing = (w.failing \/ ~Drained(p))
    OBVIOUS
  <2> DEFINE changes == [pc |-> "close collector", failing |-> failing]
  <2>2. /\ DOMAIN changes = {"pc", "failing"} /\ changes.pc = "close collector"
        /\ changes.failing = failing
    OBVIOUS
  <2>3. Working(p, "drain", changes) /\ UNCHANGED <<checkpoints, report>>
    BY <1>12, <2>1 DEF DrainOnClose
  <2>4. w.failing = TRUE => failing = TRUE
    BY <2>1
  <2> HIDE DEF changes
  <2>5. RowFields \intersect DOMAIN changes = {}
    BY <2>2 DEF RowFields
  <2> QED
    BY <2>2, <2>3, <2>4, <2>5, ClosesReady DEF Closing
<1>13. CASE EndClose(p)
  <2>1. /\ w.pc = "closed" /\ UNCHANGED <<checkpoints, report>>
        /\ Working(p, "closed", IF w.failing \/ w.stuck # {} THEN [pc |-> "raised"] ELSE Onward(p))
    BY <1>13, WorkingAt DEF EndClose
  <2>2. CASE w.failing \/ w.stuck # {}
    <3>1. Working(p, "closed", [pc |-> "raised"])
      BY <2>1, <2>2
    <3>2. "failing" \notin DOMAIN [pc |-> "raised"]
      BY OnlyMovesOn
    <3> QED
      BY <2>1, <3>1, <3>2, OnlyMovesOn, ClosesReady DEF Closing
  <2>3. CASE ~(w.failing \/ w.stuck # {})
    <3>1. ~Lost(w)
      BY <2>3 DEF Lost
    <3>2. Ready(kind, w)
      BY <2>1, <3>1 DEF Evaluator
    <3>3. Working(p, "closed", Onward(p))
      BY <2>1, <2>3
    <3>4. Ready(kind, v) /\ Rests(w, v)
      BY <3>2, <3>3, OnwardAlone
    <3> QED
      BY <2>1, <3>2, <3>4, RestsGoes
  <2> QED
    BY <2>2, <2>3
<1> QED
  BY <1>1, <1>2, <1>3, <1>4, <1>5, <1>6, <1>7, <1>8, <1>9, <1>10, <1>11, <1>12, <1>13
  DEF ServiceStep

\* A request that is made leaves the row alone.
LEMMA RequestReady ==
  ASSUME FrameTyped, kind = "runtime_audit", NEW p \in Processes, Evaluator(kind, workers[p]),
         FilesCausal(kind, checkpoints, report),
         NEW at \in {"warm up", "evaluate", "measure"}, NEW id, NEW accepted, NEW onward,
         onward \in {"measure", "save sample"} => at = "measure",
         Request(p, at, id, accepted, [after |-> onward])
  PROVE  Goes(p)
<1> DEFINE w == workers[p]  v == workers'[p]
<1>1. PICK changes :
        /\ Working(p, at, changes)
        /\ DOMAIN changes = {"after", "pc", "awaited", "wire", "asked"}
        /\ changes.pc = "await" /\ changes.after = onward
  <2>1. PICK awaited, wire, asked :
          Working(p, at, Changed([after |-> onward],
                                 [pc |-> "await", awaited |-> awaited, wire |-> wire,
                                  asked |-> asked]))
    BY DEF Request
  <2> DEFINE changes == Changed([after |-> onward],
                                [pc |-> "await", awaited |-> awaited, wire |-> wire,
                                 asked |-> asked])
  <2>2. /\ DOMAIN changes = {"after", "pc", "awaited", "wire", "asked"}
        /\ changes.pc = "await" /\ changes.after = onward
    BY DEF Changed
  <2>3. Working(p, at, changes)
    BY <2>1
  <2> HIDE DEF changes
  <2> QED
    BY <2>2, <2>3
<1>u. UNCHANGED <<checkpoints, report>>
  BY DEF Request
<1>4. Ready(kind, w) /\ w.pc = at
  BY <1>1, WorkingAt, ReadyAt DEF Closing
<1>5. /\ DOMAIN v = DOMAIN w \union DOMAIN changes
      /\ \A f \in DOMAIN changes : v[f] = changes[f]
      /\ \A f \in DOMAIN w \ DOMAIN changes : v[f] = w[f]
  BY <1>1, WorkingFields
<1>6. Keeps(w, v, RowFields) /\ "pc" \in DOMAIN v /\ v.pc = "await" /\ v.after = onward
  BY <1>1, <1>5 DEF Keeps, RowFields
<1>7. (Showing(v) => Showing(w)) /\ w.pc \in Prepared /\ w.pc # "publish"
  BY <1>4, <1>6 DEF Showing, Prepared
<1> HIDE DEF w, v
<1>8. Ready(kind, v)
  BY <1>4, <1>6, <1>7, StaysOnRow
<1>9. Rests(w, v)
  BY <1>4, <1>6, <1>7 DEF Rests, Keeps, Ready, OnRow, RowFields
<1> QED
  BY <1>u, <1>4, <1>8, <1>9, RestsGoes DEF v, w

\* An example that the audit builds is due on the histories it holds.
LEMMA ObservationReady ==
  ASSUME FrameTyped, kind = "runtime_audit", kind \in Kinds, NEW p \in Processes,
         Evaluator(kind, workers[p]), FilesCausal(kind, checkpoints, report), BuildObservation(p)
  PROVE  Goes(p)
<1> DEFINE w == workers[p]  v == workers'[p]
<1>1. /\ w.pc = "evaluate" /\ w.row \in Rows /\ UNCHANGED <<checkpoints, report>>
  BY DEF BuildObservation, AtRow, At
<1>2. PICK o \in Evaluated(kind, BoundAsset(p)) :
        Working(p, "evaluate", [pc |-> "measure", example |-> AuditMeasurement(History(p), o)])
  BY DEF BuildObservation
<1> DEFINE x == AuditMeasurement(History(p), o)
           changes == [pc |-> "measure", example |-> x]
<1>3. /\ DOMAIN changes = {"pc", "example"} /\ changes.pc = "measure"
      /\ changes.example = x /\ Working(p, "evaluate", changes)
  BY <1>2
<1>4. Ready(kind, w) /\ PrefixGroup[w.row] \in Groups
  BY <1>1, ReadyAt DEF Closing, Groups, Range, Rows
<1>5. BoundAsset(p) = PrefixGroup[w.row] /\ "assets" \in DOMAIN w
  BY <1>1, <1>4 DEF BoundAsset, Ready, Placed, Prepared
<1>f. checkpoints[w.row] = None
  BY DEF BuildObservation, Found
<1>6. MeasuredAt(kind, w.row, x) /\ x.history = w.histories[PrefixGroup[w.row]]
  <2>1. /\ o \in Evaluated(kind, PrefixGroup[w.row])
        /\ kind \in (Kinds \intersect Evaluations) \ {MethodDev}
    BY <1>5 DEF Evaluations, MethodDev
  <2>2. x = Made(kind, History(p), o)
    BY DEF Made, AuditMeasurement
  <2> QED
    BY <2>1, <2>2, ExampleOfRow DEF History
<1> HIDE DEF changes, x
<1>7. /\ DOMAIN v = DOMAIN w \union DOMAIN changes
      /\ \A f \in DOMAIN changes : v[f] = changes[f]
      /\ \A f \in DOMAIN w \ DOMAIN changes : v[f] = w[f]
  BY <1>3, WorkingFields
<1>8. /\ RowFields \union {"pc"} \subseteq DOMAIN v
      /\ v.row = w.row /\ v.measured = w.measured /\ v.histories = w.histories
      /\ v.course = w.course /\ v.assets = w.assets /\ v.pc = "measure" /\ v.example = x
  BY <1>3, <1>4, <1>5, <1>7 DEF RowFields, Ready, OnRow
<1>9. DueNext(kind, w.measured, w.row - 1, x)
  <2>1. (w.row - 1) + 1 = w.row
    BY <1>4, RowNumbers DEF Ready, OnRow
  <2>2. kind # MethodDev =>
          w.histories[PrefixGroup[w.row]] = Counted(kind, w.measured, PrefixGroup[w.row], w.row - 1)
    BY <1>4 DEF Ready, OnRow
  <2> QED
    BY <1>6, <2>1, <2>2 DEF DueNext
<1> HIDE DEF w, v
<1>10. OnRow(kind, v)
  BY <1>1, <1>4, <1>8, <1>9 DEF Ready, OnRow
<1>11. Leads(v)
  BY <1>1, <1>4, <1>8 DEF Ready, Leads
<1>12. Placed(kind, v)
  BY <1>1, <1>4, <1>8 DEF Ready, Placed, Prepared, RowFields
<1>13. Resuming(kind, checkpoints, w) => Resuming(kind, checkpoints, v)
  BY <1>4, <1>8, <1>f, MeasuringResuming
<1> QED
  BY <1>1, <1>10, <1>11, <1>12, <1>13 DEF Goes, Evaluator, Ready, v, w

LEMMA DeliverReady ==
  ASSUME FrameTyped, kind = "runtime_audit", NEW p \in Processes, Auditor(workers[p]),
         Evaluator(kind, workers[p]), FilesCausal(kind, checkpoints, report), Deliver(p)
  PROVE  Goes(p)
<1> DEFINE w == workers[p]  v == workers'[p]
<1>1. PICK line : Working(p, w.pc, Accept(p, line))
  BY DEF Deliver
<1> DEFINE changes == Accept(p, line)
<1>2. DOMAIN changes = {"wire", "arrived", "broken", "events"}
  BY DEF Accept
<1>3. Working(p, w.pc, changes) /\ UNCHANGED <<checkpoints, report>>
  BY <1>1 DEF Deliver
<1>4. /\ w.pc \in {"evaluate", "measure", "await", "save sample", "drain warmup", "drain probe",
                   "close engine", "drain"}
      /\ ~w.failing
  BY DEF Deliver, Listening
<1>5. Ready(kind, w)
  BY <1>4 DEF Evaluator, Lost
<1> HIDE DEF changes
<1>6. /\ DOMAIN v = DOMAIN w \union DOMAIN changes
      /\ \A f \in DOMAIN w \ DOMAIN changes : v[f] = w[f]
  BY <1>3, WorkingFields
<1>7. w.pc = "await" => "after" \in DOMAIN w
  BY <1>4 DEF Auditor, OnCourse
<1>8. /\ Keeps(w, v, RowFields) /\ "pc" \in DOMAIN v /\ v.pc = w.pc
      /\ w.pc = "await" => v.after = w.after
  BY <1>2, <1>5, <1>6, <1>7 DEF Keeps, RowFields, Ready, OnRow
<1>9. (Showing(v) => Showing(w)) /\ v.pc # "idle" /\ v.pc # "refused"
  BY <1>4, <1>8 DEF Showing
<1> HIDE DEF w, v
<1>10. Ready(kind, v)
  BY <1>5, <1>8, <1>9, StaysOnRow
<1>11. Rests(w, v)
  BY <1>5, <1>8, <1>9 DEF Rests, Keeps, Ready, OnRow, RowFields
<1> QED
  BY <1>3, <1>5, <1>10, <1>11, RestsGoes DEF v, w

LEMMA WaitReady ==
  ASSUME FrameTyped, kind = "runtime_audit", NEW p \in Processes, Auditor(workers[p]),
         Evaluator(kind, workers[p]), FilesCausal(kind, checkpoints, report), NEW sort,
         WaitFor(p, sort)
  PROVE  Goes(p)
<1> DEFINE w == workers[p]
           v == workers'[p]
           changes == [pc |-> IF Len(w.awaited) = 1 THEN w.after ELSE "await",
                       awaited |-> Tail(w.awaited), events |-> w.events \ {Head(w.awaited)}]
<1>1. Working(p, "await", changes) /\ UNCHANGED <<checkpoints, report>>
  BY DEF WaitFor
<1>2. DOMAIN changes = {"pc", "awaited", "events"} /\ changes.pc \in {w.after, "await"}
  OBVIOUS
<1> HIDE DEF changes
<1>3. w.pc = "await" /\ Ready(kind, w)
  BY <1>1, WorkingAt, ReadyAt DEF Closing
<1>4. "after" \in DOMAIN w /\ w.after \in Entered \ {"refused"}
  BY <1>3 DEF Auditor, OnCourse
<1>5. /\ DOMAIN v = DOMAIN w \union DOMAIN changes
      /\ \A f \in DOMAIN changes : v[f] = changes[f]
      /\ \A f \in DOMAIN w \ DOMAIN changes : v[f] = w[f]
  BY <1>1, WorkingFields
<1>6. /\ Keeps(w, v, RowFields) /\ "pc" \in DOMAIN v /\ v.pc \in {w.after, "await"}
      /\ v.after = w.after
  BY <1>2, <1>4, <1>5 DEF Keeps, RowFields
<1>7. (Showing(v) => Showing(w)) /\ w.pc \in Prepared /\ w.pc # "publish"
  BY <1>3, <1>6 DEF Showing, Prepared
<1>8. v.pc # "idle" /\ v.pc # "refused"
  BY <1>4, <1>6 DEF Entered
<1> HIDE DEF w, v
<1>9. Ready(kind, v)
  BY <1>3, <1>6, <1>7, <1>8, StaysOnRow
<1>10. Rests(w, v)
  BY <1>3, <1>6, <1>7, <1>8 DEF Rests, Keeps, Ready, OnRow, RowFields
<1> QED
  BY <1>1, <1>3, <1>9, <1>10, RestsGoes DEF v, w

LEMMA AuditReady ==
  ASSUME FrameTyped, kind = "runtime_audit", kind \in Kinds, NEW p \in Processes,
         Auditor(workers[p]), Evaluator(kind, workers[p]),
         FilesCausal(kind, checkpoints, report), AuditStep(p)
  PROVE  Goes(p)
<1> DEFINE w == workers[p]  v == workers'[p]
<1>0. CASE ServiceStep(p)
  BY <1>0, ServiceReady
<1>1. CASE BeginAudit(p)
  <2> DEFINE fields == Changed(NoServices, EvaluationIdle)
             others == [pc |-> "bind evidence", course |-> AuditCourse]
  <2>1. /\ RowFields \ {"assets"} \subseteq DOMAIN fields /\ "attempt" \notin RowFields
        /\ fields.row = 1 /\ fields.measured = <<>>
        /\ fields.histories = [g \in Groups |-> NoHistory]
    BY DEF Changed, NoServices, EvaluationIdle, RowFields
  <2>2. /\ DOMAIN others = {"pc", "course"} /\ others.pc = "bind evidence"
        /\ others.course = AuditCourse
    OBVIOUS
  <2>3. Begin(p, {"runtime_audit"}, Changed(fields, others)) /\ UNCHANGED <<checkpoints, report>>
    BY <1>1 DEF BeginAudit
  <2> HIDE DEF fields, others
  <2>a. /\ DOMAIN fields \union DOMAIN others \union {"attempt"} \subseteq DOMAIN v
        /\ \A f \in DOMAIN others : v[f] = others[f]
        /\ \A f \in DOMAIN fields \ (DOMAIN others \union {"attempt"}) : v[f] = fields[f]
    BY <2>2, <2>3, BeginChanges
  <2>4. /\ (RowFields \ {"assets"}) \union {"pc"} \subseteq DOMAIN v /\ v.row = 1
        /\ v.measured = <<>> /\ v.histories = [g \in Groups |-> NoHistory]
        /\ v.pc = "bind evidence" /\ v.course = AuditCourse
    BY <2>1, <2>2, <2>a DEF RowFields
  <2> HIDE DEF v
  <2>5. Ready(kind, v)
    BY <2>4, Courses, BeginsOnRow DEF LeadsOn
  <2>6. v.pc # "refused" /\ ~Showing(v)
    BY <2>4 DEF Showing
  <2> QED
    BY <2>3, <2>4, <2>5, <2>6, ApartGoes DEF Evaluator, v
<1>2. CASE Warmup(p)
  BY <1>2, RequestReady DEF Warmup
<1>3. CASE RestoreAudit(p)
  <2>1. RestoreRow(p, "runtime_audit", Found(p) = AuditMeasurement(History(p), Found(p).outcome))
    BY <1>3 DEF RestoreAudit
  <2>2. Found(p) = AuditMeasurement(History(p), Found(p).outcome) =>
          checkpoints[w.row].history = w.histories[PrefixGroup[w.row]]
    <3>1. AuditMeasurement(History(p), Found(p).outcome).history = History(p)
      BY DEF AuditMeasurement, ValidationMeasurement, RiskExample
    <3> QED
      BY <3>1 DEF Found, History
  <2>3. AuditMeasurement(History(p), Found(p).outcome) = Made(kind, History(p), Found(p).outcome)
    BY DEF Made, AuditMeasurement
  <2>4. /\ MeasuredAt(kind, w.row, Found(p))
        /\ kind # MethodDev => Found(p).history = History(p)
        => Found(p) = AuditMeasurement(History(p), Found(p).outcome)
    BY <2>3, StandsAsMade DEF MethodDev
  <2> QED
    BY <2>1, <2>2, <2>4, RestoreReady
<1>4. CASE BuildObservation(p)
  BY <1>4, ObservationReady
<1>5. CASE MeasurePair(p)
  <2>1. PICK onward \in {"save sample", "noncausal"} :
          Request(p, "measure", w.row, w.example.decision = "accepted", [after |-> onward])
    BY <1>5 DEF MeasurePair
  <2> QED
    BY <2>1, RequestReady
<1>6. CASE ProbeFailure(p)
  BY <1>6, RequestReady DEF ProbeFailure
<1>7. CASE Deliver(p)
  BY <1>7, DeliverReady
<1>8. CASE ConsumeGateEvent(p) \/ ConsumeExecutionEvent(p)
  BY <1>8, WaitReady DEF ConsumeGateEvent, ConsumeExecutionEvent
<1>9. CASE DrainWarmup(p)
  <2>1. Working(p, "drain warmup", [pc |-> "evaluate"]) /\ UNCHANGED <<checkpoints, report>>
    BY <1>9 DEF DrainWarmup, Drain
  <2> QED
    BY <2>1, OnlyMovesOn, ServedReady DEF Closing, Prepared
<1>10. CASE DrainProbe(p)
  <2>1. Working(p, "drain probe", [pc |-> "close engine"]) /\ UNCHANGED <<checkpoints, report>>
    BY <1>10 DEF DrainProbe, Drain
  <2> QED
    BY <2>1, OnlyMovesOn, ServedReady DEF Closing, Prepared
<1>11. CASE ConcludeAudit(p)
  BY <1>11, ConcludeReady DEF ConcludeAudit
<1>12. CASE WriteApproved(p)
  BY <1>12, ArtifactReady DEF WriteApproved
<1>13. CASE WriteRuntimeManifest(p)
  BY <1>13, ManifestReady DEF WriteRuntimeManifest
<1> QED
  BY <1>0, <1>1, <1>2, <1>3, <1>4, <1>5, <1>6, <1>7, <1>8, <1>9, <1>10, <1>11, <1>12, <1>13
  DEF AuditStep

\* An evaluation other than the audit takes no steps of the audit.
LEMMA OnlyEvaluating ==
  ASSUME kind \in Evaluations \ {"runtime_audit"}, NEW p,
         workers[p].pc \in SamplePlaces \union {"idle"}
  PROVE  ~Fitting(p) /\ ~Collecting(p) /\ ~AuditStep(p)
<1> DEFINE pc == workers[p].pc
<1>p. /\ pc \notin {"normalizers", "point normalizers", "initializer", "point initializer",
                    "restore", "train", "save", "weights", "publish candidates",
                    "publish manifest"}
      /\ pc \notin {"scan", "collect", "publish shard", "complete"}
      /\ pc \notin {"bind evidence", "start server", "await server", "start collector",
                    "start engine", "start writer", "load models", "prepare prefixes", "warm up",
                    "await", "drain warmup", "measure", "drain probe"}
      /\ pc \notin Closing /\ kind # "runtime_audit" /\ kind # "collect"
  BY DEF SamplePlaces, Closing, Concluding, Evaluations
<1> HIDE DEF pc
<1>w. \A at, changes : Working(p, at, changes) => pc = at
  BY WorkingAt DEF pc
<1>a. \A at : At(p, at) => pc = at
  BY DEF At, pc
<1>1. ~FitStep(p)
  <2>1. ~BeginFit(p) /\ ~BeginFrozenDirection(p)
    BY DEF BeginFit, BeginFrozenDirection, Begin, Evaluations
  <2>2. ~LoadNormalizers(p) /\ ~FitNormalizers(p) /\ ~PointNormalizers(p)
    BY <1>p, <1>w DEF LoadNormalizers, FitNormalizers, PointNormalizers
  <2>3. ~LoadInitializer(p) /\ ~FitInitializer(p) /\ ~PointInitializer(p) /\ ~Restore(p)
    BY <1>p, <1>w DEF LoadInitializer, FitInitializer, PointInitializer, Restore
  <2>4. ~NextBatch(p) /\ ~TrainRecord(p) /\ ~TrainSegment(p)
    BY <1>p, <1>a DEF NextBatch, TrainRecord, TrainSegment
  <2>5. ~StepAfterRecords(p) /\ ~StepAfterSegments(p)
    BY <1>p, <1>a DEF StepAfterRecords, StepAfterSegments
  <2>6. ~SaveCandidate(p) /\ ~PointCheckpoint(p) /\ ~SaveWeights(p) /\ ~PublishCandidate(p)
    BY <1>p, <1>a DEF SaveCandidate, PointCheckpoint, SaveWeights, PublishCandidate
  <2>7. ~WriteFitManifest(p) /\ ~CompleteFit(p)
    BY <1>p, <1>a DEF WriteFitManifest, CompleteFit
  <2> QED
    BY <2>1, <2>2, <2>3, <2>4, <2>5, <2>6, <2>7 DEF FitStep
<1>2. ~CollectStep(p)
  <2>1. ~BeginCollect(p) /\ ~ScanRow(p) /\ ~ScanEnds(p) /\ ~CollectShard(p)
    BY <1>p, <1>a DEF BeginCollect, Begin, ScanRow, ScanEnds, CollectShard
  <2>2. /\ ~PublishShard(p)
        /\ ~WriteTraceCheckpoint(p)
        /\ ~WriteTraceManifest(p)
        /\ ~CompleteCollect(p)
    BY <1>p, <1>a DEF PublishShard, WriteTraceCheckpoint, WriteTraceManifest, CompleteCollect
  <2> QED
    BY <2>1, <2>2 DEF CollectStep
<1>5. ~ServiceStep(p)
  <2>1. ~LoadBindings(p) /\ ~LaunchServer(p) /\ ~ServerReady(p) /\ ~ServerNotReady(p)
    BY <1>p, <1>w, <1>a DEF LoadBindings, LaunchServer, ServerReady, ServerNotReady
  <2>2. ~StartCollector(p) /\ ~StartEngine(p) /\ ~StartWriter(p)
    BY <1>p, <1>w DEF StartCollector, StartEngine, StartWriter, Starts
  <2>3. ~LoadModels(p) /\ ~PreparePrefixes(p) /\ ~Raise(p)
    BY <1>p, <1>w DEF LoadModels, PreparePrefixes, Raise, InEvaluator
  <2>4. ~StopEngine(p) /\ ~CloseCollector(p) /\ ~CloseWriter(p) /\ ~StopServer(p)
    BY <1>p, <1>a DEF StopEngine, CloseCollector, CloseWriter, StopServer, StopService, Closing
  <2>5. ~DrainOnClose(p) /\ ~EndClose(p)
    BY <1>p, <1>w DEF DrainOnClose, EndClose, Closing
  <2> QED
    BY <2>1, <2>2, <2>3, <2>4, <2>5 DEF ServiceStep
<1>6. ~AuditStep(p)
  <2>1. ~BeginAudit(p) /\ ~RestoreAudit(p) /\ ~BuildObservation(p) /\ ~MeasurePair(p)
    BY <1>p, <1>a DEF BeginAudit, Begin, RestoreAudit, RestoreRow, AtRow, BuildObservation,
          MeasurePair
  <2>2. ~Warmup(p)
    BY <1>p, <1>w DEF Warmup, Request
  <2>3. ~ProbeFailure(p) /\ ~Deliver(p) /\ ~ConsumeGateEvent(p) /\ ~ConsumeExecutionEvent(p)
    BY <1>p, <1>a DEF ProbeFailure, AfterRows, Deliver, ConsumeGateEvent, ConsumeExecutionEvent,
          WaitFor
  <2>4. ~DrainWarmup(p) /\ ~DrainProbe(p)
    BY <1>p, <1>a DEF DrainWarmup, DrainProbe, Drain
  <2>5. ~ConcludeAudit(p) /\ ~WriteApproved(p) /\ ~WriteRuntimeManifest(p)
    BY <1>p DEF ConcludeAudit, Conclude, WriteApproved, WriteArtifact, WriteRuntimeManifest,
          WriteManifest
  <2> QED
    BY <1>5, <2>1, <2>2, <2>3, <2>4, <2>5 DEF AuditStep
<1> QED
  BY <1>1, <1>2, <1>6 DEF Fitting, Collecting

-----------------------------------------------------------------------------
(* The invariant: what attempts have measured is causal, and so is what    *)
(* lies in the files they share, the checkpoints up to their histories,    *)
(* which an attempt compares with its own before it takes one up.          *)
HistoryInv ==
  kind \in Evaluations =>
    /\ kind \in Kinds /\ FilesCausal(kind, checkpoints, report)
    /\ \A p \in Processes : Evaluator(kind, workers[p])

LEMMA HistoryInvInit == Init => HistoryInv
<1> SUFFICES ASSUME Init, kind \in Evaluations
             PROVE  /\ kind \in Kinds /\ FilesCausal(kind, checkpoints, report)
                    /\ \A p \in Processes : Evaluator(kind, workers[p])
  BY DEF HistoryInv
<1>1. FilesCausal(kind, checkpoints, report)
  BY DEF Init, AuditInit, EvaluationInit, FilesCausal
<1>2. kind \in Kinds /\ \A p \in Processes : Evaluator(kind, workers[p])
  BY DEF Init, FrameInit, Idle, Evaluator
<1> QED
  BY <1>1, <1>2

LEMMA EvaluatingGoes ==
  ASSUME FrameTyped, AuditInv, HistoryInv, kind \in Evaluations, NEW p \in Processes,
         Fitting(p) \/ Collecting(p) \/ Evaluating(p) \/ Stopping(p)
  PROVE  Goes(p)
<1>0. /\ kind \in Kinds /\ FilesCausal(kind, checkpoints, report)
      /\ Evaluator(kind, workers[p])
  BY DEF HistoryInv
<1>1. CASE Stopping(p)
  <2>1. workers'[p] = Idle /\ UNCHANGED <<checkpoints, report>>
    BY <1>1 DEF Stopping, FailStage, Crash, FrameTyped
  <2> QED
    BY <1>0, <2>1, ApartGoes DEF Evaluator, Idle
<1>2. CASE kind = "runtime_audit" /\ ~Stopping(p)
  <2>1. Auditor(workers[p])
    BY <1>2 DEF AuditInv
  <2>2. workers[p].pc \in AuditPlaces \union {"idle"}
    BY <2>1 DEF Auditor, Served
  <2>3. EvaluationStep(p) \/ AuditStep(p)
    BY <1>2, <2>2, OnlyAuditing
  <2> QED
    BY <1>0, <1>2, <2>1, <2>3, EvaluationReady, AuditReady
<1>3. CASE kind # "runtime_audit" /\ ~Stopping(p)
  <2>1. workers[p].pc \in SamplePlaces \union {"idle"}
    BY <1>0, <1>3 DEF Evaluator, Ready, Placed
  <2>2. ~Fitting(p) /\ ~Collecting(p) /\ ~AuditStep(p)
    BY <1>3, <2>1, OnlyEvaluating
  <2>3. \/ EvaluationStep(p) \/ RiskFitStep(p) \/ CalibrationStep(p)
        \/ ValidationStep(p) \/ SemanticStep(p) \/ MethodDevStep(p)
    BY <1>3, <2>2 DEF Evaluating
  <2>4. kind \in (Kinds \intersect Evaluations) \ {"runtime_audit"}
    BY <1>0, <1>3
  <2> QED
    BY <1>0, <2>3, <2>4, EvaluationReady, RiskFitReady, CalibrationReady, ValidationReady,
       SemanticReady, MethodDevReady
<1> QED
  BY <1>1, <1>2, <1>3

LEMMA HistoryInvStep ==
  ASSUME FrameTyped, AuditInv, HistoryInv, [Next]_vars
  PROVE  HistoryInv'
<1> SUFFICES ASSUME kind \in Evaluations, kind' = kind
             PROVE  /\ FilesCausal(kind, checkpoints', report')
                    /\ \A q \in Processes : Evaluator(kind, workers'[q])
  BY FrameStep DEF HistoryInv
<1>0. /\ kind \in Kinds /\ FilesCausal(kind, checkpoints, report)
      /\ \A q \in Processes : Evaluator(kind, workers[q])
  BY DEF HistoryInv
<1>1. CASE UNCHANGED vars
  BY <1>0, <1>1
<1>2. CASE PowerLoss
  BY <1>2 DEF PowerLoss, Fits, Evaluations
<1>3. ASSUME NEW p \in Processes,
             Fitting(p) \/ Collecting(p) \/ Evaluating(p) \/ Stopping(p)
      PROVE  /\ FilesCausal(kind, checkpoints', report')
             /\ \A q \in Processes : Evaluator(kind, workers'[q])
  <2>1. Goes(p)
    BY <1>3, EvaluatingGoes
  <2>2. \A q \in Processes \ {p} : workers'[q] = workers[q]
    BY <1>3, StepActs DEF Acts
  <2>3. ASSUME NEW q \in Processes
        PROVE  Evaluator(kind, workers'[q])
    BY <1>0, <2>1, <2>2 DEF Goes
  <2> QED
    BY <2>1, <2>3 DEF Goes
<1> QED
  BY <1>1, <1>2, <1>3 DEF Next

\* What the invariant says of a list of examples is what the property asks of it.
LEMMA CausalIsCounted ==
  ASSUME kind \in Evaluations, NEW examples, Causal(kind, examples), NEW i \in DOMAIN examples
  PROVE  IF kind = "evaluate_method_dev"
         THEN \A c \in DOMAIN examples[i].outcome : examples[i].outcome[c].prefix = PrefixGroup[i]
         ELSE /\ examples[i].outcome.prefix = PrefixGroup[i]
              /\ examples[i].history = CountedHistory(examples, i)
<1>1. PICK n \in Nat : CausalUpTo(kind, examples, n)
  BY DEF Causal
<1>2. DOMAIN examples = 1..n
  BY <1>1 DEF CausalUpTo, Listing
<1>3. /\ MeasuredAt(kind, i, examples[i])
      /\ kind # MethodDev => examples[i].history = Counted(kind, examples, PrefixGroup[i], i - 1)
  BY <1>1, <1>2 DEF CausalUpTo
<1>4. CountedHistory(examples, i) = Counted(kind, examples, PrefixGroup[i], i - 1)
  BY DEF CountedHistory, Counted, CountOf, RowsOf, FailedRows, Tokens, Failure, Failed
<1> QED
  BY <1>3, <1>4 DEF MeasuredAt, MethodDev

\* Every example that an attempt of an evaluation or its report lists was measured under
\* its row's own prefix, and on the history of the rows before it in its prefix group in
\* that same list: for every split, whatever is measured, with any number of processes,
\* attempts and crashes, and also when attempts alive at once share the checkpoints.
THEOREM HistoriesCausal == Spec => []HistoryIsCausal
<1>1. FrameTyped /\ AuditInv /\ HistoryInv /\ [Next]_vars => (FrameTyped /\ AuditInv /\ HistoryInv)'
  BY FrameStep, AuditInvStep, HistoryInvStep
<1>2. Init => FrameTyped
  BY DEF Init, FrameInit, FrameTyped
<1>3. HistoryInv => HistoryIsCausal
  <2> SUFFICES ASSUME HistoryInv, kind \in Evaluations,
                      NEW examples \in
                        {workers[p].measured : p \in {q \in Processes : ~At(q, "idle")}}
                                         \union (IF report = None THEN {} ELSE {report.measured}),
                      NEW i \in DOMAIN examples
               PROVE  IF kind = "evaluate_method_dev"
                      THEN \A c \in DOMAIN examples[i].outcome :
                             examples[i].outcome[c].prefix = PrefixGroup[i]
                      ELSE /\ examples[i].outcome.prefix = PrefixGroup[i]
                           /\ examples[i].history = CountedHistory(examples, i)
    BY DEF HistoryIsCausal
  <2>1. CASE report # None /\ examples = report.measured
    <3>1. Causal(kind, examples)
      BY <2>1 DEF HistoryInv, FilesCausal
    <3> QED
      BY <3>1, CausalIsCounted
  <2>2. CASE \E p \in Processes : workers[p].pc # "idle" /\ examples = workers[p].measured
    <3>1. PICK p \in Processes : workers[p].pc # "idle" /\ examples = workers[p].measured
      BY <2>2
    <3>2. Ready(kind, workers[p]) \/ Lost(workers[p])
      BY <3>1 DEF HistoryInv, Evaluator
    <3>3. CASE Ready(kind, workers[p])
      <4>1. Causal(kind, examples)
        BY <3>1, <3>3, RowNumbers DEF Ready, OnRow, Causal
      <4> QED
        BY <4>1, CausalIsCounted
    <3>4. CASE Lost(workers[p])
      BY <3>1, <3>4 DEF Lost
    <3> QED
      BY <3>2, <3>3, <3>4
  <2> QED
    BY <2>1, <2>2 DEF At
<1> QED
  BY <1>1, <1>2, <1>3, AuditInvInit, HistoryInvInit, PTL DEF Spec

-----------------------------------------------------------------------------
(* What an evaluation goes on from, and with it every stage.               *)

EvaluationResumption ==
  kind \in Evaluations /\ ~overlapped =>
    /\ Chained(kind, checkpoints)
    /\ \A p \in Processes : Resuming(kind, checkpoints, workers[p])

LEMMA EvaluationResumptionInit == Init => EvaluationResumption
<1> SUFFICES ASSUME Init
             PROVE  /\ Chained(kind, checkpoints)
                    /\ \A p \in Processes : Resuming(kind, checkpoints, workers[p])
  BY DEF EvaluationResumption
<1>1. Chained(kind, checkpoints)
  BY DEF Init, AuditInit, EvaluationInit, Chained
<1>2. \A p \in Processes : workers[p].pc = "idle"
  BY DEF Init, FrameInit, Idle
<1> QED
  BY <1>1, <1>2 DEF Resuming, Ready, Placed

LEMMA EvaluationResumptionStep ==
  ASSUME FrameTyped, Alone, AuditInv, HistoryInv, EvaluationResumption, [Next]_vars
  PROVE  EvaluationResumption'
<1> SUFFICES ASSUME kind \in Evaluations, kind' = kind, ~overlapped'
             PROVE  /\ Chained(kind, checkpoints')
                    /\ \A q \in Processes : Resuming(kind, checkpoints', workers'[q])
  BY FrameStep DEF EvaluationResumption
<1>1. CASE UNCHANGED vars
  BY <1>1 DEF EvaluationResumption
<1>2. CASE PowerLoss
  BY <1>2 DEF PowerLoss, Fits, Evaluations
<1>3. ASSUME NEW p \in Processes,
             Fitting(p) \/ Collecting(p) \/ Evaluating(p) \/ Stopping(p)
      PROVE  /\ Chained(kind, checkpoints')
             /\ \A q \in Processes : Resuming(kind, checkpoints', workers'[q])
  <2>1. Goes(p) /\ Acts(p)
    BY <1>3, EvaluatingGoes, StepActs
  <2>2. ~overlapped
    BY <2>1 DEF Acts
  <2>3. Resuming(kind, checkpoints', workers'[p])
    BY <2>1, <2>2 DEF Goes, EvaluationResumption
  <2>4. Chained(kind, checkpoints')
    BY <2>3 DEF Resuming
  <2>5. ASSUME NEW q \in Processes \ {p}
        PROVE  Resuming(kind, checkpoints', workers'[q])
    <3>1. workers'[q].pc = "idle"
      BY <2>1, <2>5 DEF Acts
    <3> QED
      BY <2>4, <3>1 DEF Resuming, Ready, Placed
  <2> QED
    BY <2>3, <2>4, <2>5
<1> QED
  BY <1>1, <1>2, <1>3 DEF Next

\* Every stage is of one of the families.
OfFamily == kind \in Fits \union {"collect"} \union Evaluations

Resumption ==
  /\ FrameTyped /\ Alone /\ OfFamily
  /\ FitTraining /\ FitResumption
  /\ CollectInv /\ CollectResumption
  /\ AuditInv /\ HistoryInv /\ EvaluationResumption

\* The attempts of a stage that has always run alone, and whose machine has not lost power,
\* are never refused by the files that their predecessors have left, at whatever step those
\* died: in all families of stages, for every split, whatever is fitted or measured, and
\* with any number of processes, attempts and crashes.
THEOREM StagesResume == Spec => []ResumesWhatItSaved
<1>1. Init => Resumption
  <2> SUFFICES ASSUME Init PROVE Resumption
    OBVIOUS
  <2>1. FrameTyped /\ FitTraining
    BY FitTrainingInit
  <2>2. Alone /\ OfFamily
    BY KindAssumption DEF Init, FrameInit, Alone, OfFamily, Idle
  <2> QED
    BY <2>1, <2>2, FitResumptionInit, CollectInvInit, CollectResumptionInit, AuditInvInit,
       HistoryInvInit, EvaluationResumptionInit DEF Resumption
<1>2. Resumption /\ [Next]_vars => Resumption'
  <2> SUFFICES ASSUME Resumption, [Next]_vars PROVE Resumption'
    OBVIOUS
  <2> USE DEF Resumption
  <2>1. FrameTyped' /\ OfFamily' /\ Alone'
    BY FrameStep, AloneStep DEF OfFamily
  <2>2. FitTraining' /\ FitResumption'
    BY FitTrainingStep, FitResumptionStep
  <2>3. CollectInv' /\ CollectResumption'
    BY CollectInvStep, CollectResumptionStep
  <2>4. AuditInv' /\ HistoryInv' /\ EvaluationResumption'
    BY AuditInvStep, HistoryInvStep, EvaluationResumptionStep
  <2> QED
    BY <2>1, <2>2, <2>3, <2>4
<1>3. Resumption => ResumesWhatItSaved
  <2> SUFFICES ASSUME Resumption, NEW p \in Processes, workers[p].pc = "refused", ~overlapped
               PROVE  losses > 0
    BY DEF ResumesWhatItSaved, At
  <2>1. CASE kind \in Fits
    <3>1. losses \in Nat /\ (losses = 0 => Keeping(workers[p], pointers))
      BY <2>1 DEF Resumption, FitResumption
    <3>2. losses # 0
      BY <3>1 DEF Keeping
    <3> QED
      BY <3>1, <3>2
  <2>2. CASE kind = "collect"
    BY <2>2 DEF Resumption, CollectResumption, Agrees
  <2>3. CASE kind \in Evaluations
    <3>1. Evaluator(kind, workers[p]) /\ Resuming(kind, checkpoints, workers[p])
      BY <2>3 DEF Resumption, HistoryInv, EvaluationResumption
    <3>2. "refused" \notin Closing \union {"idle", "raised"}
      BY DEF Closing
    <3>3. Ready(kind, workers[p])
      BY <3>1, <3>2, ReadyAt
    <3> QED
      BY <3>1, <3>3 DEF Resuming, TakenFrom
  <2> QED
    BY <2>1, <2>2, <2>3 DEF Resumption, OfFamily
<1> QED
  BY <1>1, <1>2, <1>3, PTL DEF Spec

===============================================================================
