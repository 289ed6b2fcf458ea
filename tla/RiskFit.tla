------------------------------- MODULE RiskFit --------------------------------
(***************************************************************************)
(* run_fit_risk_stage: examples of the selector_train split, each with the *)
(* causal history of its prefix group, and a risk predictor fitted on them.*)
(* The predictor is represented by the examples it was fitted on.          *)
(***************************************************************************)
EXTENDS SampleEvaluation

\* A risk example: no gate has decided on it yet.
RiskExample(history, o) == [outcome |-> o, history |-> history, decision |-> "none"]

RiskFitCourse ==
  <<"conclude", "report", "hash report", "artifact", "bind artifact", "manifest", "publish">>

BeginRiskFit(p) == Open(p, "fit_risk", RiskFitCourse)

\* _load_risk_checkpoint.
RestoreRiskExample(p) ==
  RestoreRow(p, "fit_risk", Found(p) = RiskExample(History(p), Found(p).outcome))

EnterRiskFit(p) == EnterEvaluator(p, "fit_risk")

MeasureRiskExample(p) ==
  MeasureRow(p, "fit_risk", {RiskExample(History(p), o) : o \in Evaluated("fit_risk", HeldPrefix(p))})

\* Both classes must be there to fit on.
BothClasses(unsafe, n) == unsafe \in 1..n - 1

FitPredictor(p) ==
  LET unsafe == Cardinality(UnsafeRows(workers[p].measured))
  IN  Conclude(p, "fit_risk", [unsafe |-> unsafe],
               BothClasses(unsafe, Len(workers[p].measured)))

\* _save_predictor: the weights that this attempt has fitted.
SavePredictor(p) == WriteArtifact(p, "fit_risk", [fitted |-> workers[p].measured])

\* V5RiskFitManifest.validate.
ValidRiskFit(result) == BothClasses(result.unsafe, Len(PrefixGroup))

WriteRiskManifest(p) ==
  At(p, "manifest") /\ WriteManifest(p, "fit_risk", ValidRiskFit(workers[p].result))

RiskFitStep(p) ==
  \/ BeginRiskFit(p) \/ EnterRiskFit(p) \/ RestoreRiskExample(p) \/ MeasureRiskExample(p)
  \/ FitPredictor(p) \/ SavePredictor(p) \/ WriteRiskManifest(p)

\* load_completed_risk_fit: the manifest binds the report by its hash, and its
\* figures are valid. The report's rows are not replayed.
LoadsRiskFit(outputs) ==
  /\ outputs[2].report = outputs[1]
  /\ ValidRiskFit(outputs[2].result)
===============================================================================
