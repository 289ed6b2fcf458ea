-------------------------- MODULE SemanticEvaluation --------------------------
(***************************************************************************)
(* run_semantic_stage: the validation's decisions on the opened snapshot of *)
(* the sealed split, whose prefixes are bound on the way. The selective      *)
(* manifest it approves carries the hash of the report.                      *)
(***************************************************************************)
EXTENDS Validation

\* SemanticRiskMeasurement.
SemanticMeasurement(history, o) == ValidationMeasurement(history, o)

\* build_semantic_approved_candidate.
SemanticApproved(result, reported) == [quality |-> result.quality, report |-> reported]

SemanticCourse == ValidationCourse

BeginSemantic(p) == Open(p, "semantic_sealed", SemanticCourse)

\* _load_semantic_checkpoint.
RestoreSemantic(p) ==
  RestoreRow(p, "semantic_sealed", Found(p) = SemanticMeasurement(History(p), Found(p).outcome))

EnterSemantic(p) == EnterEvaluator(p, "semantic_sealed")

MeasureSemantic(p) ==
  MeasureRow(p, "semantic_sealed", {SemanticMeasurement(History(p), o) : o \in Evaluated("semantic_sealed", HeldPrefix(p))})

ConcludeSemantic(p) == ConcludeSelective(p, "semantic_sealed")

WriteSemanticApproved(p) ==
  At(p, "artifact") /\ WriteArtifact(p, "semantic_sealed",
                         SemanticApproved(workers[p].result, workers[p].reported))

\* V5SemanticManifest.validate.
WriteSemanticManifest(p) ==
  At(p, "manifest") /\ WriteManifest(p, "semantic_sealed", ValidSelective(workers[p].result))

SemanticStep(p) ==
  \/ BeginSemantic(p) \/ EnterSemantic(p) \/ RestoreSemantic(p) \/ MeasureSemantic(p)
  \/ ConcludeSemantic(p) \/ WriteSemanticApproved(p) \/ WriteSemanticManifest(p)

\* _load_and_validate_semantic_report.
SemanticReplays(published) ==
  LET rows == published.measured
  IN  ReplaysTo(published, [i \in DOMAIN rows |-> SemanticMeasurement(Replayed(rows, i), rows[i].outcome)],
                SelectiveResult(rows))

\* load_completed_semantic.
LoadsSemantic(outputs) ==
  /\ LoadsSelective(outputs) /\ SemanticReplays(outputs[1])
  /\ outputs[3] = SemanticApproved(outputs[2].result, outputs[1])
===============================================================================
