------------------------------ MODULE MethodDev -------------------------------
(***************************************************************************)
(* run_method_dev_stage: every fitted candidate is measured on every row of *)
(* the method_dev split, and the best rank is frozen as the structure that  *)
(* all directions deploy.                                                    *)
(***************************************************************************)
EXTENDS SampleEvaluation

CONSTANTS Ranks, Seeds,   \* REGISTERED_RANKS in their order, and the seeds
          DeploymentSeed

ASSUME RankAssumption == Ranks # <<>> /\ DeploymentSeed \in Seeds

Fitted == Range(Ranks) \X Seeds

\* _validate_measurement_set: one measurement for each fitted candidate, all of them
\* against one native baseline.
CompleteSet(o) == DOMAIN o = Fitted /\ \A c, d \in Fitted : o[c].native = o[d].native

ASSUME MethodDevAssumption ==
  "evaluate_method_dev" \in Kinds => \A o \in Outcomes["evaluate_method_dev"] :
    CompleteSet(o) /\ \A c \in Fitted : "native" \in DOMAIN o[c]

\* _percentile(costs, 0.95) in hundredths.
Percentile95(costs) ==
  LET place == (Len(costs) - 1) * 95
      lower == 1 + place \div 100
      upper == IF place % 100 = 0 THEN lower ELSE lower + 1
  IN  costs[lower] * (100 - (place % 100)) + costs[upper] * (place % 100)

\* CandidateMethodDevMetrics.aggregate: of one candidate, over all rows.
Metrics(examples, c) ==
  LET of(i) == examples[i].outcome[c]
      sum(value(_)) == MapThenSumSet(LAMBDA i : value(of(i)), DOMAIN examples)
  IN  [task     |-> sum(LAMBDA o : 1 - Max({0, o.native - o.bridge})),
       coverage |-> sum(LAMBDA o : IF Unsafe(o) THEN 0 ELSE 1),
       matches  |-> sum(LAMBDA o : o.matches),
       cost     |-> Percentile95(SortSeq([i \in DOMAIN examples |-> of(i).cost], <))]

\* RankMethodDevAggregate.aggregate: every rank has the same seeds, so that the sums
\* over them compare as the means do.
RankScore(candidates, rank) ==
  LET sum(value(_)) == MapThenSumSet(LAMBDA seed : value(candidates[<<rank, seed>>]), Seeds)
  IN  <<sum(LAMBDA m : m.task), sum(LAMBDA m : m.coverage), sum(LAMBDA m : m.matches),
        -sum(LAMBDA m : m.cost)>>

Better(a, b) == \E i \in DOMAIN a : a[i] > b[i] /\ \A j \in 1..i - 1 : a[j] = b[j]

\* select_transport_candidate: the first of the best ranks.
SelectedRank(scores) ==
  CHOOSE k \in DOMAIN Ranks :
    /\ \A j \in DOMAIN Ranks : ~Better(scores[j], scores[k])
    /\ \A j \in 1..k - 1 : Better(scores[k], scores[j])

Scores(candidates) == [k \in DOMAIN Ranks |-> RankScore(candidates, Ranks[k])]

\* freeze_transport_structure: the metrics of all candidates, the selected rank, and
\* the quality of its candidate of the deployment seed.
FrozenStructure(examples) ==
  LET candidates == [c \in Fitted |-> Metrics(examples, c)]
      selected == Ranks[SelectedRank(Scores(candidates))]
  IN  [candidates |-> candidates, rank |-> selected,
       quality |-> candidates[<<selected, DeploymentSeed>>]]

\* TransportQualityEvidence.gate_errors is empty.
TransportQualityPasses(quality) ==
  /\ quality.task * 100 >= 95 * Len(PrefixGroup)
  /\ quality.coverage * 100 >= 45 * Len(PrefixGroup)

\* FrozenTransportStructure.validate: its figures follow from its candidates.
ValidStructure(structure) ==
  /\ DOMAIN structure.candidates = Fitted
  /\ structure.rank = Ranks[SelectedRank(Scores(structure.candidates))]
  /\ structure.quality = structure.candidates[<<structure.rank, DeploymentSeed>>]
  /\ TransportQualityPasses(structure.quality)

-----------------------------------------------------------------------------
\* The report comes before the gate: freezing refuses what the report holds.
MethodDevCourse == <<"report", "hash report", "conclude", "manifest", "publish">>

\* No history is kept: a measurement depends on the row alone.
MethodDevMeasurement(history, o) == [outcome |-> o, history |-> NoHistory, decision |-> "none"]

BeginMethodDev(p) == Open(p, "evaluate_method_dev", MethodDevCourse)

\* _load_measurement_checkpoint.
RestoreMethodDev(p) ==
  RestoreRow(p, "evaluate_method_dev", CompleteSet(Found(p).outcome))

\* RealQwenMethodDevEvaluator.__enter__: the transports of all candidates.
EnterMethodDev(p) == EnterEvaluator(p, "evaluate_method_dev")

\* RealQwenMethodDevEvaluator.evaluate: every candidate on one prefix.
EvaluatedCandidates(prefix) ==
  {[c \in DOMAIN o |-> Changed(o[c], [prefix |-> prefix])] : o \in Outcomes["evaluate_method_dev"]}

MeasureMethodDev(p) ==
  MeasureRow(p, "evaluate_method_dev",
             {MethodDevMeasurement(History(p), o) : o \in EvaluatedCandidates(HeldPrefix(p))})

FreezeStructure(p) ==
  LET structure == FrozenStructure(workers[p].measured)
  IN  /\ kind = "evaluate_method_dev"
      /\ Conclude(p, "evaluate_method_dev", structure, ValidStructure(structure))

WriteStructure(p) ==
  At(p, "manifest") /\ WriteManifest(p, "evaluate_method_dev", TRUE)

MethodDevStep(p) ==
  \/ BeginMethodDev(p) \/ EnterMethodDev(p) \/ RestoreMethodDev(p) \/ MeasureMethodDev(p)
  \/ FreezeStructure(p) \/ WriteStructure(p)

\* load_frozen_transport_structure: the structure binds the report by its hash, and
\* its figures are consistent. The report's rows are not replayed.
LoadsStructure(outputs) ==
  outputs[2].report = outputs[1] /\ ValidStructure(outputs[2].result)
===============================================================================
