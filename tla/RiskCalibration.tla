--------------------------- MODULE RiskCalibration ----------------------------
(***************************************************************************)
(* run_calibrate_stage: the threshold of the risk gate, chosen on the       *)
(* independent risk_calibration split.                                      *)
(***************************************************************************)
EXTENDS RiskFit

\* A predicted risk, a probability in the code, is the number of a level.
ASSUME CalibrationAssumption ==
  "calibrate" \in Kinds =>
    \A o \in Outcomes["calibrate"] : "risk" \in DOMAIN o /\ o.risk \in Nat

\* A risk example with its predicted risk, which is part of the outcome here.
CalibrationMeasurement(history, o) == RiskExample(history, o)

NoThreshold == [threshold |-> 0, accepted |-> 0, errors |-> 0, candidates |-> 0]

Levels(examples) ==
  LET risks == {examples[i].outcome.risk : i \in DOMAIN examples}
  IN  CHOOSE levels \in [1..Cardinality(risks) -> risks] :
        \A i, j \in DOMAIN levels : i < j => levels[i] < levels[j]
UpTo(examples, level) == RowsWith(examples, LAMBDA x : x.outcome.risk <= level)

\* Mutant: rows of equal risk are taken one by one.
SplitTies(examples) ==
  LET order == SetToSortSeq(DOMAIN examples,
                 LAMBDA i, j : \/ examples[i].outcome.risk < examples[j].outcome.risk
                               \/ examples[i].outcome.risk = examples[j].outcome.risk /\ i < j)
      candidates == Max({0, Len(order) - MinAccepted + 1})
      errors(n) == Cardinality({k \in 1..n : Unsafe(examples[order[k]].outcome)})
      try(best, n) ==
        IF n >= MinAccepted /\ WithinRisk(errors(n), n, candidates)
        THEN [threshold |-> examples[order[n]].outcome.risk, accepted |-> n,
              errors |-> errors(n), candidates |-> candidates]
        ELSE best
  IN  FoldLeft(try, NoThreshold, [n \in 1..Len(order) |-> n])

\* select_calibrated_threshold: a first pass over the levels, ties together, counts
\* the thresholds that accept enough rows; a second keeps the last of them whose
\* bound, at the confidence shared among them all, is low enough.
CalibratedThreshold(examples) ==
  LET levels == Levels(examples)
      accepted(level) == Cardinality(UpTo(examples, level))
      errors(level) == Cardinality(UpTo(examples, level) \intersect UnsafeRows(examples))
      candidates == FoldLeft(LAMBDA count, level :
                      count + (IF accepted(level) >= MinAccepted THEN 1 ELSE 0), 0, levels)
      try(best, level) ==
        IF /\ accepted(level) >= MinAccepted
           /\ WithinRisk(errors(level), accepted(level), candidates)
        THEN [threshold |-> level, accepted |-> accepted(level),
              errors |-> errors(level), candidates |-> candidates]
        ELSE best
  IN  FoldLeft(try, NoThreshold, levels)

CalibrationCourse == <<"conclude", "report", "hash report", "manifest", "publish">>

BeginCalibration(p) == Open(p, "calibrate", CalibrationCourse)

\* _load_calibration_checkpoint.
RestoreCalibration(p) ==
  RestoreRow(p, "calibrate", Found(p) = CalibrationMeasurement(History(p), Found(p).outcome))

EnterCalibration(p) == EnterEvaluator(p, "calibrate")

MeasureCalibration(p) ==
  MeasureRow(p, "calibrate", {CalibrationMeasurement(History(p), o) : o \in Evaluated("calibrate", HeldPrefix(p))})

SelectThreshold(p) ==
  LET selected == CalibratedThreshold(workers[p].measured)
  IN  Conclude(p, "calibrate", selected, selected # NoThreshold)

\* V5RiskCalibrationManifest.validate with RiskGateSpec.calibration_errors.
ValidCalibration(selected) ==
  /\ selected.accepted \in MinAccepted..Len(PrefixGroup)
  /\ selected.errors \in 0..selected.accepted
  /\ selected.candidates >= 1
  /\ WithinRisk(selected.errors, selected.accepted, selected.candidates)

WriteCalibrationManifest(p) ==
  At(p, "manifest") /\ WriteManifest(p, "calibrate", ValidCalibration(workers[p].result))

CalibrationStep(p) ==
  \/ BeginCalibration(p) \/ EnterCalibration(p)
  \/ RestoreCalibration(p) \/ MeasureCalibration(p) \/ SelectThreshold(p) \/ WriteCalibrationManifest(p)

\* _load_and_validate_calibration_report.
CalibrationReplays(published) ==
  LET rows == published.measured
  IN  ReplaysTo(published, [i \in DOMAIN rows |-> CalibrationMeasurement(Replayed(rows, i), rows[i].outcome)],
                CalibratedThreshold(rows))

\* load_completed_risk_calibration.
LoadsCalibration(outputs) ==
  LET published == outputs[1]  bound == outputs[2]
  IN  /\ bound.report = published /\ bound.result = published.result
      /\ ValidCalibration(bound.result)
      /\ CalibrationReplays(published)

-----------------------------------------------------------------------------
\* The calibrated threshold, stated on sets: of the risk levels that accept enough
\* rows, the highest whose errors the bound allows when the confidence is shared
\* among all those levels (select_calibrated_threshold).
ThresholdIsMaximal ==
  kind = "calibrate" /\ report # None =>
    LET examples == report.measured
        admits(t) == {i \in DOMAIN examples : examples[i].outcome.risk <= t}
        wrong(t) == {i \in admits(t) : Unsafe(examples[i].outcome)}
        eligible == {t \in {examples[i].outcome.risk : i \in DOMAIN examples} :
                       Cardinality(admits(t)) >= MinAccepted}
        safe == {t \in eligible : WithinRisk(Cardinality(wrong(t)), Cardinality(admits(t)),
                                             Cardinality(eligible))}
    IN  /\ safe # {} /\ report.result.threshold = Max(safe)
        /\ report.result.accepted = Cardinality(admits(Max(safe)))
        /\ report.result.errors = Cardinality(wrong(Max(safe)))
===============================================================================
