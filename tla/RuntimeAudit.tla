----------------------------- MODULE RuntimeAudit -----------------------------
(***************************************************************************)
(* run_runtime_audit_stage with RealQwenRuntimeAuditEvaluator.  Each request *)
(* of the audit runs in the serving engine, whose connector reports by       *)
(* telemetry: the scheduler one gate event, and for an accepted request a    *)
(* worker one execution event.  An emitter that meets a socket error sends   *)
(* once more on a new connection; what the first send has delivered by then, *)
(* nothing, a part of a line or all of it, it does not know.                 *)
(***************************************************************************)
EXTENDS AuditServices

CONSTANT MaxResends \* bound: sends that meet a socket error

ASSUME AuditAssumption == MaxResends \in Nat

VARIABLE resends

auditFiles == <<evaluationFiles, resends>>

AuditInit == EvaluationInit /\ resends = 0

Telemetry(id, sort) == [id |-> id, sort |-> sort]
EventsOf(id, accepted) ==
  IF accepted THEN <<Telemetry(id, "gate"), Telemetry(id, "execution")>>
  ELSE <<Telemetry(id, "gate")>>

WarmupId == 0
ProbeId == Len(PrefixGroup) + 1

\* What reaches the collector of an event: lines, whole or cut short.
Line(event, copy, whole) == [event |-> event, copy |-> copy, whole |-> whole]
Sent(event) == {Line(event, 1, TRUE)}
Resent(event) ==
  {Sent(event), {Line(event, 1, TRUE), Line(event, 2, TRUE)},
   {Line(event, 1, FALSE), Line(event, 2, TRUE)}}

\* One request to the engine with its telemetry, one at a time; generate() returns
\* after the emitters have sent. Then its events are waited for, the gate's first.
Request(p, at, id, accepted, changes) ==
  \E resent \in SUBSET Range(EventsOf(id, accepted)) :
    /\ resends + Cardinality(resent) <= MaxResends
    /\ resends' = resends + Cardinality(resent)
    /\ \E lines \in [resent -> UNION {Resent(event) : event \in resent}] :
         /\ \A event \in resent : lines[event] \in Resent(event)
         /\ LET events == Range(EventsOf(id, accepted))
                onWire == UNION {IF event \in resent THEN lines[event] ELSE Sent(event) :
                                   event \in events}
            IN  Working(p, at, Changed(changes,
                  [pc |-> "await", awaited |-> EventsOf(id, accepted),
                   wire |-> workers[p].wire \union onWire,
                   asked |-> workers[p].asked \union events]))
    /\ UNCHANGED evaluationFiles

-----------------------------------------------------------------------------
AuditCourse ==
  <<"conclude", "report", "hash report", "artifact", "bind artifact", "manifest", "publish">>

BeginAudit(p) ==
  /\ Begin(p, {"runtime_audit"},
           Changed(Changed(NoServices, EvaluationIdle),
                   [pc |-> "bind evidence", course |-> AuditCourse]))
  /\ UNCHANGED auditFiles

Warmup(p) == Request(p, "warm up", WarmupId, TRUE, [after |-> "drain warmup"])

\* SourceKVSidecar.to_bytes keeps the mean agreement of a history as a float32. Of a
\* mean over n rows, each a count of 16ths, that keeps the value only if the odd part
\* of n divides the sum.
OddPart(n) == CHOOSE odd \in 1..n : odd % 2 = 1 /\ \E k \in 0..n : odd * 2^k = n
Survives(history) ==
  history.samples = 0 \/ history.agreement % OddPart(history.samples) = 0

\* RuntimeAuditMeasurement, decided on by the validation's gate.
AuditMeasurement(history, o) == ValidationMeasurement(history, o)

\* _load_runtime_checkpoint.
RestoreAudit(p) ==
  /\ RestoreRow(p, "runtime_audit", Found(p) = AuditMeasurement(History(p), Found(p).outcome))
  /\ UNCHANGED resends

\* _bound_asset: of the assets prepared for all groups, the one of the row's group.
BoundAsset(p) == workers[p].assets[PrefixGroup[workers[p].row]]

\* build_observation and the gate's decision: the shadow run on both caches.
BuildObservation(p) ==
  /\ AtRow(p, "runtime_audit") /\ Found(p) = None
  /\ \E o \in Evaluated("runtime_audit", BoundAsset(p)) :
       Working(p, "evaluate", [pc |-> "measure", example |-> AuditMeasurement(History(p), o)])
  /\ UNCHANGED auditFiles

\* measure: the paired requests. RuntimeAuditMeasurement.validate then compares the
\* history that has been through the sidecar with the exact one.
MeasurePair(p) ==
  At(p, "measure") /\
    Request(p, "measure", workers[p].row, workers[p].example.decision = "accepted",
            [after |-> IF Survives(History(p)) THEN "save sample" ELSE "noncausal"])

\* audit_failure_recovery: one accepted request whose load is made to fail part of
\* the way. Its two events are awaited like any other's.
ProbeFailure(p) ==
  /\ AfterRows(p, "runtime_audit")
  /\ Request(p, "evaluate", ProbeId, TRUE, [after |-> "drain probe"])

Listening(p) ==
  /\ workers[p].pc \in {"evaluate", "measure", "await", "save sample", "drain warmup",
                        "drain probe", "close engine", "drain"}
  /\ ~workers[p].failing

Seen(p) == {line.event : line \in {l \in workers[p].arrived : l.whole}}

\* Mutant: an event that has been seen before is dropped without an error.
AcceptOnce(p, line) ==
  LET w == workers[p]
  IN  [wire |-> w.wire \ {line}, arrived |-> w.arrived \union {line},
       broken |-> w.broken \/ ~line.whole,
       events |-> IF line.whole /\ line.event \notin Seen(p) THEN w.events \union {line.event}
                  ELSE w.events]

\* _accept: a malformed line and a second copy of an event are errors for good.
Accept(p, line) ==
  LET w == workers[p]
      fails == ~line.whole \/ line.event \in Seen(p)
  IN  [wire |-> w.wire \ {line}, arrived |-> w.arrived \union {line},
       broken |-> w.broken \/ fails,
       events |-> IF fails THEN w.events ELSE w.events \union {line.event}]

\* A connection's handler thread reads a line. The sockets of the scheduler and of the
\* worker are not ordered.
Deliver(p) ==
  /\ kind = "runtime_audit" /\ Listening(p)
  /\ \E line \in workers[p].wire : Working(p, workers[p].pc, Accept(p, line))
  /\ UNCHANGED auditFiles

\* wait_for: the awaited event, unless there has been an error. A timeout raises.
WaitFor(p, sort) ==
  /\ At(p, "await") /\ ~workers[p].broken
  /\ Head(workers[p].awaited).sort = sort /\ Head(workers[p].awaited) \in workers[p].events
  /\ LET w == workers[p]
     IN  Working(p, "await",
           [pc |-> IF Len(w.awaited) = 1 THEN w.after ELSE "await",
            awaited |-> Tail(w.awaited),
            events |-> w.events \ {Head(w.awaited)}])
  /\ UNCHANGED auditFiles

\* _consume_gate_event, and _consume_execution_event for an accepted request.
ConsumeGateEvent(p) == WaitFor(p, "gate")
ConsumeExecutionEvent(p) == WaitFor(p, "execution")

\* assert_drained, after the warmup and after the probe.
Drain(p, pc, onward) ==
  /\ At(p, pc) /\ Drained(p)
  /\ Working(p, pc, [pc |-> onward])
  /\ UNCHANGED auditFiles

DrainWarmup(p) == Drain(p, "drain warmup", "evaluate")
DrainProbe(p) == Drain(p, "drain probe", "close engine")

\* latency_percentiles: the nearest rank.
P95(latencies) ==
  SortSeq(latencies, <)[Max({1, (95 * Len(latencies) + 99) \div 100})]

\* build_runtime_summary: latencies in percent of the paired native request.
RuntimeSummary(examples) ==
  LET accepted == SetToSeq(AcceptedRows(examples))
      rejected == SetToSeq(DOMAIN examples \ AcceptedRows(examples))
      p95(rows, latency(_)) == P95([i \in DOMAIN rows |-> latency(examples[rows[i]].outcome)])
  IN  [accepted |-> Len(accepted), rejected |-> Len(rejected),
       materialization |-> p95(accepted, LAMBDA o : o.cost),
       reuse |-> p95(accepted, LAMBDA o : o.reuse),
       fallback |-> p95(rejected, LAMBDA o : o.fallback)]

\* eligible_for_approval, and RuntimeCostEvidence.validate.
CostPasses(summary) ==
  /\ summary.materialization <= 70 /\ summary.reuse <= 70 /\ summary.fallback <= 105

EnoughOfEither(accepted, rejected) == accepted >= MinAccepted /\ rejected >= MinAccepted

ConcludeAudit(p) ==
  LET examples == workers[p].measured
      accepted == Cardinality(AcceptedRows(examples))
      enough == EnoughOfEither(accepted, Len(examples) - accepted)
  IN  /\ At(p, "conclude")
      /\ Conclude(p, "runtime_audit", IF enough THEN RuntimeSummary(examples) ELSE None,
                  enough /\ CostPasses(RuntimeSummary(examples)))
      /\ UNCHANGED resends

\* build_approved_candidate: the semantic manifest with the cost evidence.
Approved(summary, reported) == [cost |-> summary, report |-> reported]

WriteApproved(p) ==
  /\ At(p, "artifact")
  /\ WriteArtifact(p, "runtime_audit", Approved(workers[p].result, workers[p].reported))
  /\ UNCHANGED resends

\* V5RuntimeManifest.validate.
ValidAudit(summary) ==
  /\ EnoughOfEither(summary.accepted, summary.rejected)
  /\ summary.accepted + summary.rejected = Len(PrefixGroup)
  /\ CostPasses(summary)

WriteRuntimeManifest(p) ==
  /\ At(p, "manifest") /\ WriteManifest(p, "runtime_audit", ValidAudit(workers[p].result))
  /\ UNCHANGED resends

AuditStep(p) ==
  \/ ServiceStep(p) /\ UNCHANGED resends
  \/ BeginAudit(p) \/ Warmup(p)
  \/ RestoreAudit(p) \/ BuildObservation(p) \/ MeasurePair(p) \/ ProbeFailure(p)
  \/ Deliver(p) \/ ConsumeGateEvent(p) \/ ConsumeExecutionEvent(p)
  \/ DrainWarmup(p) \/ DrainProbe(p)
  \/ ConcludeAudit(p) \/ WriteApproved(p) \/ WriteRuntimeManifest(p)

\* _load_and_validate_runtime_report.
AuditReplays(published) ==
  LET rows == published.measured
  IN  ReplaysTo(published, [i \in DOMAIN rows |-> AuditMeasurement(Replayed(rows, i), rows[i].outcome)],
                RuntimeSummary(rows))

\* load_completed_runtime_audit.
LoadsAudit(outputs) ==
  LET published == outputs[1]  bound == outputs[2]
  IN  /\ bound.report = published /\ bound.artifact = outputs[3]
      /\ bound.result = published.result
      /\ AuditReplays(published)
      /\ ValidAudit(bound.result)
      /\ outputs[3] = Approved(bound.result, published)

-----------------------------------------------------------------------------
\* An audit that has closed its evaluator has read each event of its own requests
\* exactly once up to then, and no broken line: what a resend delivers twice ends the
\* attempt, or is still unread (RuntimeAuditTelemetryCollector.assert_drained).
DrainedMeansExact ==
  kind = "runtime_audit" => \A p \in Processes :
    ~At(p, "idle") /\ workers[p].pc \in Range(AuditCourse) =>
      /\ Seen(p) = workers[p].asked
      /\ Cardinality(workers[p].arrived) = Cardinality(workers[p].asked)
===============================================================================
