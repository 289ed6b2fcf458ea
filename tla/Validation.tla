------------------------------ MODULE Validation ------------------------------
(***************************************************************************)
(* run_validate_stage: the calibrated gate decides on every row of the      *)
(* validation split, and the quality of the accepted rows must pass the      *)
(* gates. The sealed semantic evaluation does the same on sealed rows.      *)
(***************************************************************************)
EXTENDS RiskFit

CONSTANTS MinShadow, \* RiskGateSpec.min_shadow_samples
          Threshold, \* the calibrated admission threshold, a risk level
          Half       \* the risk level at which the uncalibrated predictor divides

ASSUME GateAssumption == MinShadow \in Nat \ {0}

Unseen == "unseen_or_insufficient_shadow_history"
Outlier == "out_of_distribution"

\* _admission_decision.
AdmissionDecision(history, o) ==
  CASE history.samples < MinShadow -> Unseen
    [] history.samples >= MinShadow /\ o.ood -> Outlier
    [] history.samples >= MinShadow /\ ~o.ood /\ o.risk > Threshold -> "predicted_unsafe"
    [] OTHER -> "accepted"

\* RiskValidationMeasurement.
ValidationMeasurement(history, o) ==
  [RiskExample(history, o) EXCEPT !.decision = AdmissionDecision(history, o)]

\* aggregate_accepted_quality.
AcceptedQuality(examples) ==
  LET rows == AcceptedRows(examples)
  IN  [total    |-> Len(examples),
       accepted |-> Cardinality(rows),
       unsafe   |-> Cardinality(rows \intersect UnsafeRows(examples)),
       native   |-> Total(examples, rows, LAMBDA o : o.native),
       bridge   |-> Total(examples, rows, LAMBDA o : o.bridge),
       matches  |-> Total(examples, rows, LAMBDA o : o.matches),
       drift    |-> Total(examples, rows, LAMBDA o : o.drift)]

\* AcceptedSubsetQualityEvidence.gate_errors is empty.
QualityPasses(q) ==
  /\ q.accepted >= MinAccepted
  /\ q.accepted * 100 >= 30 * q.total
  /\ q.bridge * 100 >= 95 * q.accepted
  /\ q.matches * 100 >= 98 * GreedyTokens * q.accepted
  /\ (q.native - q.bridge) * 100 <= q.native
  /\ q.drift <= 2 * q.accepted
  /\ WithinRisk(q.unsafe, q.accepted, 1)

\* One selector's rows among all, and the unsafe ones among them.
Selector(examples, rows) ==
  [accepted |-> Cardinality(rows), errors |-> Cardinality(rows \intersect UnsafeRows(examples))]

\* evaluate_selector_baselines: what the five fixed selectors accept.
SelectorBaselines(examples) ==
  LET rows(Test(_)) == Selector(examples, RowsWith(examples, Test))
  IN  [no_selector         |-> rows(LAMBDA x : TRUE),
       cosine_threshold    |-> rows(LAMBDA x : x.outcome.close),
       uncalibrated_mlp    |-> rows(LAMBDA x : x.outcome.risk <= Half),
       calibrated_selector |-> rows(LAMBDA x : /\ x.decision \notin {Unseen, Outlier}
                                               /\ x.outcome.risk <= Threshold),
       oracle_selector     |-> rows(LAMBDA x : ~Unsafe(x.outcome))]

\* _baseline_errors is empty.
BaselinesAgree(baselines, quality) ==
  /\ \A name \in DOMAIN baselines :
       /\ baselines[name].accepted \in 0..Len(PrefixGroup)
       /\ baselines[name].errors \in 0..baselines[name].accepted
  /\ baselines.calibrated_selector = [accepted |-> quality.accepted, errors |-> quality.unsafe]

SelectiveResult(examples) ==
  [quality |-> AcceptedQuality(examples), baselines |-> SelectorBaselines(examples)]

\* build_validation_candidate: it carries the quality, and no evidence yet.
Candidate(result) == [quality |-> result.quality, report |-> None]

\* Mutant: the report is hashed before it is written.
HashBeforeReport ==
  <<"conclude", "hash report", "report", "artifact", "bind artifact", "manifest", "publish">>

ValidationCourse ==
  <<"conclude", "report", "hash report", "artifact", "bind artifact", "manifest", "publish">>

BeginValidation(p) == Open(p, "validate", ValidationCourse)

\* Mutant: a checkpoint is restored whatever history it was measured on.
RestoreAnyValidation(p) == RestoreRow(p, "validate", TRUE)

\* _load_validation_checkpoint.
RestoreValidation(p) ==
  RestoreRow(p, "validate", Found(p) = ValidationMeasurement(History(p), Found(p).outcome))

EnterValidation(p) == EnterEvaluator(p, "validate")

MeasureValidation(p) ==
  MeasureRow(p, "validate", {ValidationMeasurement(History(p), o) : o \in Evaluated("validate", HeldPrefix(p))})

\* The gates on a result; without an accepted row there is none to aggregate.
ConcludeSelective(p, k) ==
  LET examples == workers[p].measured
      accepting == AcceptedRows(examples) # {}
  IN  Conclude(p, k, SelectiveResult(examples),
               accepting /\ QualityPasses(AcceptedQuality(examples)))

ConcludeValidation(p) == ConcludeSelective(p, "validate")

WriteCandidate(p) ==
  At(p, "artifact") /\ WriteArtifact(p, "validate", Candidate(workers[p].result))

\* V5ValidationManifest.validate, with the selective manifest in memory.
ValidSelective(result) ==
  /\ QualityPasses(result.quality)
  /\ BaselinesAgree(result.baselines, result.quality)
  /\ result.quality.total = Len(PrefixGroup)

WriteValidationManifest(p) ==
  At(p, "manifest") /\ WriteManifest(p, "validate", ValidSelective(workers[p].result))

ValidationStep(p) ==
  \/ BeginValidation(p) \/ EnterValidation(p) \/ RestoreValidation(p) \/ MeasureValidation(p)
  \/ ConcludeValidation(p) \/ WriteCandidate(p) \/ WriteValidationManifest(p)

\* What the loaders of a selective stage share: the hashes, and the manifest over the
\* selective manifest.
LoadsSelective(outputs) ==
  LET published == outputs[1]  bound == outputs[2]  selective == outputs[3]
  IN  /\ bound.report = published /\ bound.artifact = selective
      /\ bound.result = published.result
      /\ ValidSelective(bound.result)
      /\ selective.quality = bound.result.quality

\* _load_and_validate_report.
ValidationReplays(published) ==
  LET rows == published.measured
  IN  ReplaysTo(published, [i \in DOMAIN rows |-> ValidationMeasurement(Replayed(rows, i), rows[i].outcome)],
                SelectiveResult(rows))

\* load_completed_validation.
LoadsValidation(outputs) ==
  /\ LoadsSelective(outputs) /\ ValidationReplays(outputs[1])
  /\ outputs[3] = Candidate(outputs[2].result)
===============================================================================
