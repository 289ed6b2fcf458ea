------------------------------- MODULE V5Stages -------------------------------
(***************************************************************************)
(* The life of one long stage of the v5 pipeline, of any kind: its          *)
(* attempts, what they leave in the work directory, and the record of the   *)
(* stage.  Each kind of stage has files of its own.                         *)
(***************************************************************************)
EXTENDS TransportFit, TraceCollection, RiskCalibration, MethodDev, RuntimeAudit

ASSUME KindAssumption == Kinds \subseteq Fits \union {"collect"} \union Evaluations

vars == <<frame, fitFiles, collectFiles, auditFiles>>

Init == FrameInit /\ FitInit /\ CollectInit /\ AuditInit

Fitting(p) == FitStep(p) /\ UNCHANGED <<collectFiles, auditFiles>>
Collecting(p) == CollectStep(p) /\ UNCHANGED <<fitFiles, auditFiles>>
Evaluating(p) ==
  /\ \/ /\ \/ EvaluationStep(p) \/ RiskFitStep(p) \/ CalibrationStep(p)
           \/ ValidationStep(p) \/ SemanticStep(p) \/ MethodDevStep(p)
        /\ UNCHANGED resends
     \/ AuditStep(p)
  /\ UNCHANGED <<fitFiles, collectFiles>>

Stopping(p) ==
  /\ (FailStage(p) /\ ~InEvaluator(p)) \/ Crash(p)
  /\ UNCHANGED <<fitFiles, collectFiles, auditFiles>>

Next ==
  \/ \E p \in Processes : Fitting(p) \/ Collecting(p) \/ Evaluating(p) \/ Stopping(p)
  \/ PowerLoss /\ UNCHANGED <<collectFiles, auditFiles>>

Spec == Init /\ [][Next]_vars

-----------------------------------------------------------------------------
\* No attempt is refused by what its predecessors have left in the work directory,
\* at whatever step they died, unless two attempts were alive at once or the machine
\* has lost power (_load_checkpoint_set, _load_trace_checkpoint, _load_risk_checkpoint
\* and its like): a stage that ran alone can always be resumed.
ResumesWhatItSaved ==
  \A p \in Processes : At(p, "refused") => overlapped \/ losses > 0

\* What the loader of the stage asks of its outputs.
Loads(outputs) ==
  CASE kind = "fit_risk" -> LoadsRiskFit(outputs)
    [] kind = "calibrate" -> LoadsCalibration(outputs)
    [] kind = "validate" -> LoadsValidation(outputs)
    [] kind = "semantic_sealed" -> LoadsSemantic(outputs)
    [] kind = "runtime_audit" -> LoadsAudit(outputs)
    [] kind = "evaluate_method_dev" -> LoadsStructure(outputs)

\* The predictor and the structure that downstream stages use are those of the rows in
\* the published report, which their loaders do not replay.
FollowsReport(outputs) ==
  LET published == outputs[1]  bound == outputs[2]
  IN  /\ kind = "fit_risk" =>
           /\ bound.artifact = [fitted |-> published.measured]
           /\ bound.result.unsafe = Cardinality(UnsafeRows(published.measured))
      /\ kind = "evaluate_method_dev" => bound.result = FrozenStructure(published.measured)

\* A stage whose attempts never overlapped completes only with evidence that its
\* loader accepts, whatever attempts died before, and at whatever step (complete_stage).
CompletedEvidenceLoads ==
  kind \in Evaluations /\ stage.status = "completed" /\ ~overlapped =>
    Loads(stage.outputs) /\ FollowsReport(stage.outputs)

\* An audit finds the evidence of the semantic stage it follows (docs/selective_kv_v5.md).
AuditFindsItsEvidence == \A p \in Processes : ~At(p, "unbound")

\* A shadow observation carries the causal history it was made on (docs/selective_kv_v5.md).
AuditHistoryIsCausal == \A p \in Processes : ~At(p, "noncausal")
===============================================================================
