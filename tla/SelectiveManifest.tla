-------------------------- MODULE SelectiveManifest --------------------------
(***************************************************************************)
(* size_variant/selective_manifest.py: the content-addressed v5 artifact.  *)
(* It starts as a validation candidate and becomes semantic_approved and   *)
(* approved only with the evidence of the sealed stages.  Evidence that    *)
(* may be absent is a set of at most one record; a split, a report or a    *)
(* file stands for its digest; a bound on the regression risk is written   *)
(* as the counts it is computed from.                                      *)
(***************************************************************************)
EXTENDS BridgeArtifact

CONSTANT RiskAtMostOnePercent(_, _, _)  \* of the bound for errors, accepted and candidates

Splits == {"transport_train", "selector_train", "method_dev", "risk_calibration",
           "validation", "semantic_sealed", "runtime_audit"}

\* SPLIT_COUNTS of the evaluation splits.
SplitCount == [method_dev |-> 1024, risk_calibration |-> 2048, validation |-> 2048,
               semantic_sealed |-> 2048, runtime_audit |-> 512]

\* TransportSpec.validate.
SoundTransport(t, source) ==
  /\ t.rank \in {32, 64, 128} /\ t.rank <= source.headDim
  /\ t.sourceWindow \in {1, 3} /\ t.sourceWindow <= source.layers
  /\ <<t.structure, t.residual>> \in {<<"v1", "gated_silu">>, <<"v2", "none">>}

\* RiskGateSpec.artifact_errors; calibrated means a threshold and a dataset.
SoundRiskGate(g) ==
  /\ g.oodThreshold > 0 /\ g.minShadow >= 1
  /\ g.threshold # {} /\ g.dataset # {} => g.candidates >= 1

BoundOf(errors, accepted, candidates) ==
  [errors |-> errors, accepted |-> accepted, candidates |-> candidates]

WithinOnePercent(b) == RiskAtMostOnePercent(b.errors, b.accepted, b.candidates)

\* RiskGateSpec.calibration_errors finds nothing.
CalibratedGate(g, minAccepted) ==
  /\ SoundRiskGate(g)
  /\ \E level \in g.threshold : level \in 0..100
  /\ g.dataset # {}
  /\ g.total > 0 /\ g.accepted \in 0..g.total
  /\ g.candidates \in 1..g.total
  /\ g.errors \in 0..g.accepted
  /\ g.accepted >= minAccepted
  /\ g.bound = BoundOf(g.errors, g.accepted, g.candidates)
  /\ WithinOnePercent(g.bound)

\* The defaults of SelectiveQualityThresholds, and its validate.
SelectiveThresholds ==
  [coverage |-> 30, bridge |-> 95, greedy |-> 98, drop |-> 1, perplexity |-> 2, accepted |-> 300]

SoundSelectiveThresholds(t) ==
  /\ t.coverage \in 0..100 /\ t.bridge \in 0..100 /\ t.greedy \in 0..100
  /\ t.drop >= 0 /\ t.perplexity >= 0
  /\ t.accepted >= 300

\* AcceptedSubsetQualityEvidence.gate_errors finds nothing.
AcceptedQualityPasses(q, t) ==
  /\ SoundSelectiveThresholds(t)
  /\ q.total > 0 /\ q.accepted \in 0..q.total /\ q.unsafe \in 0..q.accepted
  /\ q.native \in 0..100 /\ q.bridge \in 0..100 /\ q.greedy \in 0..100 /\ q.perplexity >= 0
  /\ q.accepted >= t.accepted
  /\ q.bound = BoundOf(q.unsafe, q.accepted, 1)
  /\ 100 * q.accepted >= t.coverage * q.total
  /\ q.bridge >= t.bridge /\ q.greedy >= t.greedy
  /\ 100 * (q.native - q.bridge) <= t.drop * q.native
  /\ q.perplexity <= t.perplexity
  /\ WithinOnePercent(q.bound)

\* TransportQualityEvidence.gate_errors finds nothing.
TransportQualityPasses(q, dataset) ==
  /\ q.dataset = dataset /\ q.prompts = SplitCount.method_dev
  /\ q.task \in 95..100 /\ q.coverage \in 45..100 /\ q.greedy \in 0..100

\* SemanticSealedEvidence.validate finds nothing.
SealedPasses(s, m) ==
  /\ s.dataset = m.split.semantic_sealed /\ s.quality.dataset = s.dataset
  /\ s.samples = SplitCount.semantic_sealed /\ s.quality.total = SplitCount.semantic_sealed
  /\ s.transport = m.transport.weights
  /\ s.predictor = m.gate.predictor
  /\ s.threshold = m.gate.threshold /\ m.gate.threshold # {}
  /\ s.openedOnce /\ s.immutableReport
  /\ AcceptedQualityPasses(s.quality, m.thresholds)

\* RuntimeCostEvidence.validate finds nothing.
RuntimeCostPasses(c, dataset) ==
  /\ c.dataset = dataset /\ c.requests = SplitCount.runtime_audit
  /\ c.warmup >= 20 /\ c.measured >= 100
  /\ c.materialization >= 0 /\ c.prefill > 0
  /\ 100 * c.materialization <= 70 * c.prefill
  /\ c.reduction >= 30
  /\ c.overhead \in 0..5

\* DirectInjectionEvidence.validate finds nothing.
InjectionPasses(d) ==
  /\ d.verified = {"slot_mapping", "load_complete", "partial_failure", "native_overwrite", "runtime_audit"}
  /\ d.targetPuts = 0 /\ d.backingFiles = 0

SelectiveContract == {"architecture", "tokenizer", "headDim", "ropeScaling", "window"}

\* SelectiveKVBridgeManifest.artifact_errors finds nothing.
SoundSelective(m) ==
  /\ SoundModel(m.source) /\ SoundModel(m.target)
  /\ m.source.model # m.target.model
  /\ \A f \in SelectiveContract : m.source[f] = m.target[f]
  /\ m.scope = "global"
  /\ SoundTransport(m.transport, m.source) /\ SoundRiskGate(m.gate)
  /\ Cardinality({m.split[s] : s \in Splits}) = Cardinality(Splits)
  /\ m.gate.dataset \subseteq {m.split.risk_calibration}
  /\ m.id = ArtifactId(m)

\* SelectiveKVBridgeManifest.validation_errors finds nothing.
ValidationPasses(m) ==
  /\ CalibratedGate(m.gate, m.thresholds.accepted)
  /\ m.gate.total = SplitCount.risk_calibration
  /\ \E q \in m.transportQuality : TransportQualityPasses(q, m.split.method_dev)
  /\ \E q \in m.acceptedQuality : /\ q.dataset = m.split.validation
                                  /\ q.total = SplitCount.validation
                                  /\ AcceptedQualityPasses(q, m.thresholds)

\* SelectiveKVBridgeManifest.semantic_errors finds nothing.
SemanticPasses(m) ==
  /\ SoundSelective(m) /\ ValidationPasses(m)
  /\ \E s \in m.sealed : SealedPasses(s, m)

\* SelectiveKVBridgeManifest.validate finds nothing.
ValidSelective(m) ==
  CASE m.state = "validation_candidate" -> SoundSelective(m)
    [] m.state = "semantic_approved" -> SemanticPasses(m) /\ m.cost = {} /\ m.injection = {}
    [] m.state = "approved" ->
         /\ SemanticPasses(m)
         /\ \E c \in m.cost : RuntimeCostPasses(c, m.split.runtime_audit)
         /\ \E d \in m.injection : InjectionPasses(d)

\* SelectiveKVBridgeManifest.approved.
ApprovedSelective(m) == m.state = "approved" /\ ValidSelective(m)
=============================================================================
