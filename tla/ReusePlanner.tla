----------------------------- MODULE ReusePlanner -----------------------------
(***************************************************************************)
(* reuse/planner.py: CrossModelReusePlanner.plan, a function of the        *)
(* request and of the file its artifact_uri names.  The artifact is a set  *)
(* of at most one record, tagged with the schema its loader recognises;    *)
(* none stands for no uri, no file or one that does not parse.             *)
(***************************************************************************)
EXTENDS SelectiveManifest, FiniteSetsExt, Functions

-----------------------------------------------------------------------------
(* reuse/models.py.                                                        *)

IsLora(model) == model.lora # {}
BaseOf(model) == IF model.base = {} THEN {model.model} ELSE model.base

\* KVShape.same_runtime_contract: an unrecorded tokenizer hash agrees with any.
SameContract(a, b) ==
  /\ \A f \in {"dtype", "rope", "ropeScaling", "window"} : a[f] = b[f]
  /\ a.tokenizer # {} /\ b.tokenizer # {} => a.tokenizer = b.tokenizer

SameLayout(a, b) ==
  \A f \in {"layers", "heads", "headDim", "dtype", "rope", "ropeScaling", "window"} : a[f] = b[f]

SameFamily(a, b) == a.family = b.family /\ a.architecture = b.architecture

LoraPair(s, t) == BaseOf(s) = BaseOf(t) /\ (IsLora(s) \/ IsLora(t))

SizeVariant(s, t) ==
  /\ ~IsLora(s) /\ ~IsLora(t)
  /\ SameFamily(s, t) /\ s.model # t.model
  /\ s.size = {} \/ t.size = {} \/ s.size # t.size

-----------------------------------------------------------------------------
(* size_variant/models.py: the calibration manifest of the hidden-state    *)
(* bridge and of the projection baseline.                                  *)

\* LayerMap.validate: every target layer once, from source layers whose
\* weights add up.
SoundLayerMap(entries, source, target) ==
  /\ DOMAIN entries = 1..target.layers
  /\ \A layer \in DOMAIN entries :
       /\ DOMAIN entries[layer] # {} /\ DOMAIN entries[layer] \subseteq 1..source.layers
       /\ FoldFunctionOnSet(+, 0, entries[layer], DOMAIN entries[layer]) = 100

\* HiddenBridgeSpec.validate with its weights, and what the manifest demands of it.
SoundHiddenBridge(h, m) ==
  /\ h.pair = m.pair /\ h.direction = m.direction
  /\ h.layers = <<m.source.shape.layers, m.target.shape.layers>>
  /\ \A width \in m.source.shape.hidden : h.sourceHidden = width
  /\ \A width \in m.target.shape.hidden : h.targetHidden = width
  /\ h.sourceHidden > 0 /\ h.targetHidden > 0
  /\ h.method = "low_rank_linear" => h.weights # {} /\ h.weights = h.weightsFile

KVWidth(shape) == shape.heads * shape.headDim

\* KVRestoreSpec.validate, and what the manifest demands of it.
SoundRestore(r, m) ==
  /\ r.pair = m.pair /\ r.direction = m.direction
  /\ r.target = m.target.model
  /\ \A width \in m.target.shape.hidden : r.hidden = width
  /\ r.hidden > 0 /\ r.width = r.heads * r.headDim /\ r.width > 0
  /\ r.width = KVWidth(m.target.shape)

\* ProjectionSpec.validate.
SoundProjection(p) ==
  /\ p.sourceWidth = p.sourceHeads * p.sourceDim /\ p.sourceWidth > 0
  /\ p.targetWidth = p.targetHeads * p.targetDim /\ p.targetWidth > 0

\* CalibrationManifest.validate finds nothing.
SoundCalibration(m) ==
  /\ SameFamily(m.source, m.target) /\ m.source.tokenizer = m.target.tokenizer
  /\ m.source.shape.rope = m.target.shape.rope
  /\ m.source.shape.ropeScaling = m.target.shape.ropeScaling
  /\ m.projection.pair = m.pair /\ m.projection.direction = m.direction
  /\ m.layerMap.pair = m.pair /\ m.layerMap.direction = m.direction
  /\ \A h \in m.hiddenBridge : SoundHiddenBridge(h, m)
  /\ \A r \in m.restore : SoundRestore(r, m)
  /\ m.hiddenBridge = {} <=> m.restore = {}
  /\ SoundLayerMap(m.layerMap.entries, m.source.shape, m.target.shape)
  /\ SoundProjection(m.projection)
  /\ m.prompts > 0 /\ m.heldOut > 0 /\ m.dataset # {}
  /\ m.scope \in {"global", "prefix_allowlist"}
  /\ m.scope = "prefix_allowlist" => m.allowlist # {}
  /\ m.quality.passed

\* _manifest_errors finds nothing.  What the request itself says of tokenizer,
\* RoPE or dtype is not among the comparisons.
CalibrationMatches(request, m) ==
  LET agree(side) == \/ request[side].shape.config = {} \/ m[side].shape.config = {}
                     \/ request[side].shape.config = m[side].shape.config
  IN /\ SoundCalibration(m)
     /\ request.calibration = {m.id}
     /\ m.source.model = request.source.model /\ m.target.model = request.target.model
     /\ m.scope = "prefix_allowlist" => request.prefix \in m.allowlist
     /\ agree("source") /\ agree("target")

\* _manifest_confidence: the least positive score.
CalibrationConfidence(m) ==
  LET scores == {m.quality.kv, m.quality.attention}
                \union (IF m.hiddenBridge = {} THEN {} ELSE {m.quality.hidden})
      positive == {score \in scores : score > 0}
  IN IF positive = {} THEN 0 ELSE Min(positive)

\* validate_projection_cost.
CostFits(materialization, prefill) ==
  \E cost \in materialization, native \in prefill : cost >= 0 /\ native > 0 /\ 100 * cost <= 70 * native

-----------------------------------------------------------------------------
Plan(strategy, status, confidence, fallback) ==
  [strategy |-> strategy, status |-> status, confidence |-> confidence, fallback |-> fallback]

Executable(plan) == plan.status = "ready"

\* Of _make_plan: a ready plan keeps that status only with a measured
\* confidence that reaches the floor.
MakePlan(request, plan) ==
  LET blocked(confidence) == Plan(plan.strategy, "blocked", confidence, "quality_gate_failed")
  IN CASE plan.status # "ready" -> plan
       [] plan.status = "ready" /\ (plan.confidence \notin 0..100 \/ request.floor \notin 0..100) -> blocked(0)
       [] plan.status = "ready" /\ plan.confidence \in 0..100 /\ request.floor \in 0..100 ->
            IF plan.confidence < request.floor THEN blocked(plan.confidence) ELSE plan

\* _plan_lora: each mismatch overrides what came before.
PlanLora(request) ==
  LET strategy == "adapter_delta_gated_alias"
      measured == request.calibration # {} /\ request.loraScore # {}
      confidence == IF request.loraScore = {} THEN 0 ELSE Min(request.loraScore)
  IN MakePlan(request,
       IF ~SameLayout(request.source.shape, request.target.shape)
       THEN Plan(strategy, "blocked", 0, "projection_shape_mismatch")
       ELSE IF request.source.tokenizer # request.target.tokenizer
       THEN Plan(strategy, "blocked", 0, "tokenizer_mismatch")
       ELSE IF measured THEN Plan(strategy, "ready", confidence, "none")
       ELSE Plan(strategy, "needs_calibration", confidence, "missing_calibration"))

\* _cached_model_contract_errors finds nothing.
RefMatchesSpec(ref, spec) ==
  /\ \A f \in {"layers", "heads", "headDim", "dtype", "rope", "window"} : ref.shape[f] = spec[f]
  /\ ref.shape.config \subseteq {spec.config}
  /\ ref.shape.tokenizer \subseteq {spec.tokenizer}

\* The artifact is the one the request names, for the two models it names.
ArtifactMatches(request, m) ==
  /\ request.calibration = {m.id}
  /\ m.source.model = request.source.model /\ m.target.model = request.target.model
  /\ RefMatchesSpec(request.source, m.source) /\ RefMatchesSpec(request.target, m.target)

\* _plan_cached_kv.  Unlike the manifest's validate it does not ask which
\* dataset the evidence was measured on.
PlanCachedKV(request, m) ==
  LET strategy == "cached_kv_translation"
      identity == SoundArtifact(m) /\ ArtifactMatches(request, m)
      scores == {m.quality.scores[p] : p \in {"key", "value", "top1", "bridge", "greedy"}}
  IN MakePlan(request,
       IF ~identity THEN Plan(strategy, "blocked", 0, "artifact_hash_mismatch")
       ELSE IF ~GatePasses(m.quality, m.thresholds)
       THEN Plan(strategy, "blocked", 0, "quality_gate_failed")
       ELSE Plan(strategy, "ready", Min(scores), "none"))

\* _plan_selective_cached_kv; the confidence is what the risk bound leaves.
PlanSelective(request, m) ==
  LET strategy == "selective_paged_kv_reuse"
      identity == SoundSelective(m) /\ ArtifactMatches(request, m)
  IN MakePlan(request,
       IF ~identity THEN Plan(strategy, "blocked", 0, "artifact_hash_mismatch")
       ELSE IF m.state # "approved" THEN Plan(strategy, "blocked", 0, "artifact_not_approved")
       ELSE IF ~ValidSelective(m) THEN Plan(strategy, "blocked", 0, "quality_gate_failed")
       ELSE Plan(strategy, "ready", IF WithinOnePercent(m.gate.bound) THEN 99 ELSE 0, "none"))

\* What _plan_size_variant finds before it looks at the manifest.
BeforeManifest(request, manifest, strategy) ==
  IF request.source.tokenizer # request.target.tokenizer
  THEN Plan(strategy, "blocked", 0, "tokenizer_mismatch")
  ELSE IF ~SameContract(request.source.shape, request.target.shape)
  THEN Plan(strategy, "blocked", 0, "rope_mismatch")
  ELSE IF manifest = {} THEN Plan(strategy, "needs_calibration", 0, "missing_calibration")
  ELSE IF ~CostFits(request.materializationMs, request.prefillMs)
  THEN Plan(strategy, "warm_start_recompute", 0, "cost_gate_failed")
  ELSE Plan(strategy, "needs_calibration", 0, "none")

\* _plan_size_variant without a cached-KV artifact.  A manifest without errors
\* makes the plan ready unless the cost gate failed: that overwrites what the
\* tokenizer and RoPE comparisons of the two models found, and keeps their reason.
PlanCalibrated(request, manifest) ==
  LET strategy == IF \E m \in manifest : m.hiddenBridge = {} THEN "kv_projection_baseline"
                  ELSE "hidden_state_bridge"
      before == BeforeManifest(request, manifest, strategy)
      after(m) ==
        IF ~CalibrationMatches(request, m) THEN Plan(strategy, "blocked", 0, "artifact_hash_mismatch")
        ELSE [before EXCEPT !.status = IF @ = "warm_start_recompute" THEN @ ELSE "ready",
                            !.confidence = CalibrationConfidence(m)]
  IN MakePlan(request, IF manifest = {} THEN before ELSE after(CHOOSE m \in manifest : TRUE))

\* _plan_cross_base: never ready.
PlanCrossBase(request) ==
  MakePlan(request, Plan("learned_cross_base_translator", "needs_calibration", 0, "none"))

\* CrossModelReusePlanner.plan; the loaders tell the artifacts apart by schema.
PlanReuse(request) ==
  LET of(schema) == {file.manifest : file \in {f \in request.artifact : f.schema = schema}}
  IN IF LoraPair(request.source, request.target) THEN PlanLora(request)
     ELSE IF ~SizeVariant(request.source, request.target) THEN PlanCrossBase(request)
     ELSE IF of("cached_kv") # {} THEN PlanCachedKV(request, CHOOSE m \in of("cached_kv") : TRUE)
     ELSE IF of("selective") # {} THEN PlanSelective(request, CHOOSE m \in of("selective") : TRUE)
     ELSE PlanCalibrated(request, of("calibration"))
=============================================================================
