---------------------------- MODULE MCV5Pipeline ----------------------------
EXTENDS V5Pipeline, TLC

OneEach == [k \in Keys |-> {1}]

\* The screening direction goes on to its runtime audit, the others to their
\* validation, which may be begun with either of two sets of parameters.
TwoValidations ==
  [k \in Keys |-> CASE k[1] = Screening             -> {1}
                    [] k[2] = "validate"           -> {1, 2}
                    [] k[2] = "collect_validation" -> {1}
                    [] OTHER                       -> {}]

\* The records of a workspace in which the given keys were completed at their
\* first attempt.
Completing(keys) ==
  LET record[k \in Keys] ==
        Record("completed",
               [parameters |-> 1,
                dependencies |-> [d \in Dependencies(k) |-> Binding(record[d])]],
               1, FirstOutputs(k))
  IN  [k \in Keys |-> IF k \in keys THEN record[k] ELSE Absent]

AllCollected == Completing(Directions \X CollectStages)

\* Every direction is calibrated; all but the screening direction have still to
\* collect their validation traces.
Calibrated ==
  LET trained == {"fit_transport", "fit_risk", "calibrate"}
      waiting == (Directions \ {Screening}) \X {"collect_validation"}
  IN  Completing(((Directions \X (CollectStages \union trained)) \ waiting)
                 \union {Structure})

WorkerSymmetry == Permutations(Workers)
=============================================================================
