--------------------------- MODULE SampleEvaluation ---------------------------
(***************************************************************************)
(* What the stages that evaluate a split row by row have in common.  Every *)
(* row leaves a checkpoint.  What a row may be admitted on is the history  *)
(* of the rows before it in its prefix group.  After the last row the      *)
(* stage draws its result, and writes a report, what downstream stages     *)
(* use, and a manifest that binds the two by their hashes.  A hash is      *)
(* represented by the contents it is taken from.  The stages themselves    *)
(* are modules that extend this one.                                       *)
(***************************************************************************)
EXTENDS StageAttempts, Combinatorics

CONSTANTS Outcomes,       \* per stage, what may be measured for a row
          GreedyTokens,   \* RISK_LABEL_GENERATION_TOKENS, METHOD_DEV_GENERATION_TOKENS
          MinAccepted,    \* accepted rows that a threshold or a result must rest on
          RiskLimit,      \* max_risk_upper_bound, as numerator and denominator
          Alpha           \* one minus the confidence, as numerator and denominator

Evaluations == {"fit_risk", "calibrate", "validate", "semantic_sealed", "runtime_audit",
                "evaluate_method_dev"}

ASSUME EvaluationAssumption ==
  /\ \A k \in Kinds \intersect Evaluations : Outcomes[k] # {}
  /\ \A k \in (Kinds \intersect Evaluations) \ {"evaluate_method_dev"} :
       \A o \in Outcomes[k] : "matches" \in DOMAIN o /\ o.matches \in Nat
  /\ MinAccepted \in Nat \ {0}

VARIABLES checkpoints, \* examples/<sample>.json, or samples/<sample>.json
          report,      \* the stage's detailed report in the work directory
          artifact,    \* the predictor or the selective manifest beside it
          manifest     \* the stage's manifest, or the frozen structure

evaluationFiles == <<checkpoints, report, artifact, manifest>>

\* The prefix group whose KV an evaluator holds, none of them at first.
NoPrefix == 0
NoHistory == [samples |-> 0, failures |-> 0, agreement |-> 0]

\* "course" lists the steps after the last row that are still ahead.
EvaluationIdle ==
  [row |-> 1, histories |-> [g \in Groups |-> NoHistory], measured |-> <<>>, example |-> None,
   prefix |-> NoPrefix, course |-> <<>>, result |-> None, reported |-> None, bound |-> None,
   objects |-> <<>>]

EvaluationInit ==
  /\ checkpoints = [r \in Rows |-> None]
  /\ report = None /\ artifact = None /\ manifest = None

-----------------------------------------------------------------------------
\* unsafe_label.
Unsafe(o) ==
  \/ o.native = 1 /\ o.bridge = 0
  \/ o.matches * 100 < 98 * GreedyTokens
  \/ o.drift > 2

\* A failure, as a history counts them: the audit's shadow has no task to pass.
Failure(o) == Unsafe(IF kind = "runtime_audit" THEN [o EXCEPT !.native = 0] ELSE o)

\* RiskHistory.update and RuntimeRiskObservation.update_history.
Updated(history, o) ==
  IF kind = "evaluate_method_dev" THEN NoHistory
  ELSE [samples   |-> history.samples + 1,
        failures  |-> history.failures + (IF Failure(o) THEN 1 ELSE 0),
        agreement |-> history.agreement + o.matches]

\* The history a row is due, replayed over the rows before it.
Replayed(examples, row) ==
  FoldLeft(LAMBDA history, i : IF PrefixGroup[i] = PrefixGroup[row]
                               THEN Updated(history, examples[i].outcome) ELSE history,
           NoHistory, [i \in 1..row - 1 |-> i])

\* The rows of a report are what its outcomes give once more on the histories they
\* make, and its result is that of its rows.
ReplaysTo(published, again, result) ==
  /\ Len(published.measured) = Len(PrefixGroup)
  /\ published.measured = again
  /\ published.result = result

RowsWith(examples, Test(_)) == {i \in DOMAIN examples : Test(examples[i])}
Total(examples, rows, value(_)) == MapThenSumSet(LAMBDA i : value(examples[i].outcome), rows)
AcceptedRows(examples) == RowsWith(examples, LAMBDA x : x.decision = "accepted")
UnsafeRows(examples) == RowsWith(examples, LAMBDA x : Unsafe(x.outcome))

\* clopper_pearson_upper_bound(errors, n, confidence) <= RiskLimit, with the
\* confidence shared out among some candidates: the exact binomial tail at the
\* limit is at most that share of Alpha.
WithinRisk(errors, n, candidates) ==
  LET p == RiskLimit[1]  q == RiskLimit[2]
      tail == MapThenSumSet(LAMBDA i : choose(n, i) * p^i * (q - p)^(n - i), 0..errors)
  IN  errors < n /\ tail * Alpha[2] * candidates <= Alpha[1] * q^n

-----------------------------------------------------------------------------
(* The steps of a stage k. Each stage says what it measures of a row, what  *)
(* its result is, and which steps follow its last row.                      *)

Open(p, k, course) ==
  /\ Begin(p, {k}, Changed(EvaluationIdle, [pc |-> "enter", course |-> course]))
  /\ UNCHANGED evaluationFiles

\* evaluator_factory and __enter__: the models and the fitted transport are loaded, and
\* no prefix is held.
EnterEvaluator(p, k) ==
  /\ kind = k /\ Working(p, "enter", [pc |-> "evaluate", prefix |-> NoPrefix])
  /\ UNCHANGED evaluationFiles

History(p) == workers[p].histories[PrefixGroup[workers[p].row]]
AtRow(p, k) == kind = k /\ At(p, "evaluate") /\ workers[p].row \in Rows
AfterRows(p, k) == kind = k /\ At(p, "evaluate") /\ workers[p].row \notin Rows

\* The row is done: the history and the list of measurements take it up.
TakenUp(p, example) ==
  LET w == workers[p]
  IN  [row |-> w.row + 1,
       measured |-> Append(w.measured, example),
       histories |-> [w.histories EXCEPT ![PrefixGroup[w.row]] = Updated(@, example.outcome)]]

Found(p) == checkpoints[workers[p].row]

\* A row's checkpoint, if it stands up to the check.
RestoreRow(p, k, stands) ==
  /\ AtRow(p, k) /\ Found(p) # None
  /\ Working(p, "evaluate", IF stands THEN TakenUp(p, Found(p)) ELSE [pc |-> "refused"])
  /\ UNCHANGED evaluationFiles

\* _prefix_asset_for: the KV held from an earlier row, if it is of this row's group.
PrefixFor(held, row) == IF held = PrefixGroup[row] THEN held ELSE PrefixGroup[row]

\* RealQwenRiskExampleEvaluator.evaluate: what may be measured of a row, which is
\* measured under the prefix that is held.
Evaluated(k, prefix) == {Changed(o, [prefix |-> prefix]) : o \in Outcomes[k]}

HeldPrefix(p) == PrefixFor(workers[p].prefix, workers[p].row)

\* evaluator.evaluate under that prefix; examples are what the stage may make of its
\* outcome on the row's history.
MeasureRow(p, k, examples) ==
  /\ AtRow(p, k) /\ Found(p) = None
  /\ \E example \in examples :
       Working(p, "evaluate", [pc |-> "save sample", prefix |-> HeldPrefix(p), example |-> example])
  /\ UNCHANGED evaluationFiles

SaveSample(p) ==
  /\ At(p, "save sample")
  /\ checkpoints' = [checkpoints EXCEPT ![workers[p].row] = workers[p].example]
  /\ Working(p, "save sample",
             Changed(TakenUp(p, workers[p].example), [pc |-> "evaluate", example |-> None]))
  /\ UNCHANGED <<report, artifact, manifest>>

\* The next step of the course.
Onward(p) == [pc |-> Head(workers[p].course), course |-> Tail(workers[p].course)]

EndSamples(p) ==
  /\ \E k \in Evaluations \ {"runtime_audit"} : AfterRows(p, k)
  /\ Working(p, "evaluate", Changed(Onward(p), [prefix |-> NoPrefix]))
  /\ UNCHANGED evaluationFiles

\* The result of all rows, and whether the stage may go on with it.
Conclude(p, k, result, acceptable) ==
  /\ kind = k /\ At(p, "conclude")
  /\ Working(p, "conclude",
             IF acceptable THEN Changed(Onward(p), [result |-> result]) ELSE [pc |-> "rejected"])
  /\ UNCHANGED evaluationFiles

\* The files lie at paths that all attempts share, and a hash is taken of what lies
\* there.
WriteReport(p) ==
  /\ Working(p, "report", Onward(p))
  /\ report' = [measured |-> workers[p].measured, result |-> workers[p].result]
  /\ UNCHANGED <<checkpoints, artifact, manifest>>

HashReport(p) ==
  /\ Working(p, "hash report", Changed(Onward(p), [reported |-> report]))
  /\ UNCHANGED evaluationFiles

WriteArtifact(p, k, contents) ==
  /\ kind = k /\ Working(p, "artifact", Onward(p))
  /\ artifact' = contents
  /\ UNCHANGED <<checkpoints, report, manifest>>

\* publish_file for the predictor, sha256_file for a selective manifest.
BindArtifact(p) ==
  /\ Working(p, "bind artifact", Changed(Onward(p), [bound |-> artifact]))
  /\ UNCHANGED evaluationFiles

\* The manifest is refused by its own validation, or written.
WriteManifest(p, k, valid) ==
  /\ kind = k
  /\ Working(p, "manifest", IF valid THEN Onward(p) ELSE [pc |-> "rejected"])
  /\ manifest' = IF valid THEN [report |-> workers[p].reported, artifact |-> workers[p].bound,
                                result |-> workers[p].result]
                 ELSE manifest
  /\ UNCHANGED <<checkpoints, report, artifact>>

\* The files complete_stage publishes, in order.
OutputFiles ==
  IF kind \in {"validate", "semantic_sealed", "runtime_audit"}
  THEN <<report, manifest, artifact>> ELSE <<report, manifest>>

PublishOutput(p) ==
  /\ At(p, "publish") /\ Len(workers[p].objects) < Len(OutputFiles)
  /\ Working(p, "publish",
             [objects |-> Append(workers[p].objects, OutputFiles[Len(workers[p].objects) + 1])])
  /\ UNCHANGED evaluationFiles

CompleteEvaluation(p) ==
  /\ At(p, "publish") /\ kind \in Evaluations /\ Len(workers[p].objects) = Len(OutputFiles)
  /\ Finish(p, workers[p].objects)
  /\ UNCHANGED evaluationFiles

EvaluationStep(p) ==
  \/ SaveSample(p) \/ EndSamples(p) \/ WriteReport(p) \/ HashReport(p) \/ BindArtifact(p)
  \/ PublishOutput(p) \/ CompleteEvaluation(p)

-----------------------------------------------------------------------------
\* The history that the rows of a report amount to, counted from the report alone, row
\* by row and token by token.
CountedHistory(examples, row) ==
  LET before == {i \in 1..row - 1 : PrefixGroup[i] = PrefixGroup[row]}
  IN  [samples   |-> Cardinality(before),
       failures  |-> Cardinality({i \in before : Failure(examples[i].outcome)}),
       agreement |-> Cardinality(UNION {{i} \X (1..examples[i].outcome.matches) : i \in before})]

\* Every example that an attempt or a report lists was measured under its row's own
\* prefix, and on the outcomes of the rows before it in its prefix group in that same
\* list and on no others, also when attempts alive at once share the checkpoints
\* (run_validate_stage, RealQwenRiskExampleEvaluator and their like).
HistoryIsCausal ==
  kind \in Evaluations =>
    \A examples \in {workers[p].measured : p \in {q \in Processes : ~At(q, "idle")}}
                      \union (IF report = None THEN {} ELSE {report.measured}) :
      \A i \in DOMAIN examples :
        IF kind = "evaluate_method_dev"
        THEN \A c \in DOMAIN examples[i].outcome : examples[i].outcome[c].prefix = PrefixGroup[i]
        ELSE /\ examples[i].outcome.prefix = PrefixGroup[i]
             /\ examples[i].history = CountedHistory(examples, i)
===============================================================================
