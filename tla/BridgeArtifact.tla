--------------------------- MODULE BridgeArtifact ---------------------------
(***************************************************************************)
(* size_variant/cached_kv_manifest.py: the manifest of a cached-KV bridge, *)
(* the identity and layout of the two models it joins, the held-out        *)
(* evidence it carries and the gate that evidence must pass.  Scores are   *)
(* percentages; a value that may be absent is a set of at most one.  A     *)
(* digest is the thing it digests: a manifest's id is the record of its    *)
(* other fields.                                                           *)
(***************************************************************************)
EXTENDS Integers, FiniteSets

Half == {"bfloat16", "float16"}

\* CachedKVModelSpec.validate, after the presence of the digests.
SoundModel(m) ==
  /\ m.architecture \in {"qwen2", "qwen3"}
  /\ m.size > 0
  /\ m.layers > 0 /\ m.heads > 0 /\ m.headDim > 0
  /\ m.dtype \in Half
  /\ m.rope > 0 /\ m.positions > 0
  /\ m.ropeScaling = {} /\ m.window = {}

Percentages == {"key", "value", "top1", "native", "bridge", "greedy"}
Drifts == {"perplexity", "drop"}

\* The defaults of CachedKVQualityThresholds.
DefaultThresholds ==
  [atLeast |-> [key |-> 95, value |-> 95, top1 |-> 98, native |-> 95, bridge |-> 95, greedy |-> 98],
   atMost |-> [perplexity |-> 2, drop |-> 1],
   heldOut |-> 32, tasks |-> 32, buckets |-> {32, 128, 512, 2048}, costRatio |-> 70]

SoundThresholds(t) ==
  /\ \A p \in Percentages : t.atLeast[p] \in 0..100
  /\ \A d \in Drifts : t.atMost[d] >= 0
  /\ t.costRatio >= 0 /\ t.heldOut > 0 /\ t.tasks > 0
  /\ t.buckets # {} /\ \A b \in t.buckets : b > 0

\* CachedKVQualityEvidence.validate.
SoundEvidence(e) ==
  /\ e.heldOut > 0 /\ e.evaluated > 0 /\ e.tasks > 0
  /\ e.buckets # {} /\ \A b \in e.buckets : b > 0
  /\ \A p \in Percentages : e.scores[p] \in 0..100
  /\ \A d \in Drifts : e.drifts[d] >= 0
  /\ \E ms \in e.materializeMs : ms >= 0
  /\ \E ms \in e.prefillMs : ms > 0
  /\ e.costReport

\* CachedKVQualityEvidence.gate_errors finds nothing.
GatePasses(e, t) ==
  /\ SoundEvidence(e) /\ SoundThresholds(t)
  /\ e.heldOut >= t.heldOut /\ e.tasks >= t.tasks
  /\ t.buckets \subseteq e.buckets
  /\ \A p \in Percentages : e.scores[p] >= t.atLeast[p]
  /\ \A d \in Drifts : e.drifts[d] <= t.atMost[d]
  /\ \A cost \in e.materializeMs, prefill \in e.prefillMs : 100 * cost <= t.costRatio * prefill

\* artifact_id_for.
ArtifactId(m) == [f \in DOMAIN m \ {"id"} |-> m[f]]

\* What both sides of a bridge must agree on.
SharedContract == {"tokenizer", "dtype", "heads", "headDim", "rope", "positions", "ropeScaling", "window"}

\* CachedKVBridgeManifest.artifact_errors finds nothing.
SoundArtifact(m) ==
  /\ m.direction \in {"8b_to_14b", "14b_to_8b"}
  /\ SoundModel(m.source) /\ SoundModel(m.target)
  /\ m.source.architecture = "qwen3" /\ m.target.architecture = "qwen3"
  /\ m.direction = "8b_to_14b" => m.source.size < m.target.size
  /\ m.direction = "14b_to_8b" => m.source.size > m.target.size
  /\ m.source.model # m.target.model
  /\ \A f \in SharedContract : m.source[f] = m.target[f]
  /\ m.rank > 0 /\ m.sourceWindow \in 1..m.source.layers
  /\ m.scope = "global"
  /\ Cardinality({m.train, m.validation, m.test}) = 3
  /\ m.id = ArtifactId(m)

\* CachedKVBridgeManifest.validate finds nothing.
Approved(m) ==
  /\ SoundArtifact(m)
  /\ m.quality.dataset = m.test
  /\ GatePasses(m.quality, m.thresholds)

\* model_ref_from_cached_spec.
ModelRefOf(spec) ==
  [model |-> spec.model, family |-> "qwen", architecture |-> spec.architecture,
   tokenizer |-> spec.tokenizer, size |-> {spec.size}, base |-> {}, lora |-> {},
   shape |-> [layers |-> spec.layers, heads |-> spec.heads, headDim |-> spec.headDim,
              dtype |-> spec.dtype, rope |-> spec.rope, ropeScaling |-> {}, window |-> spec.window,
              hidden |-> {}, config |-> {spec.config}, tokenizer |-> {spec.tokenizer}]]

\* Files that hold weights are always present in a model directory: it is the
\* record of what its config, tokenizer and weights say.  model_spec_from_path
\* takes the name, the size and the revision from the artifact it is compared with.
ObservedSpec(expected, directory) ==
  [directory EXCEPT !.model = expected.model, !.size = expected.size, !.revision = expected.revision]

\* verify_model_path.
ModelMatches(expected, directory) == ObservedSpec(expected, directory) = expected

\* Qwen3CachedKVBridge.from_artifact: the weights beside the manifest must be
\* those it names, and the two model directories those it was trained for.
Loadable(file, sourceModel, targetModel) ==
  /\ Approved(file.manifest)
  /\ ModelMatches(file.manifest.source, sourceModel)
  /\ ModelMatches(file.manifest.target, targetModel)
  /\ file.weights = file.manifest.weights
=============================================================================
