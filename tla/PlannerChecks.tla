---------------------------- MODULE PlannerChecks ----------------------------
(***************************************************************************)
(* Artifacts and requests of small instances, and what the planner and the *)
(* manifests' validators make of them.  TLC evaluates the assumptions      *)
(* before it explores the driver.                                          *)
(***************************************************************************)
EXTENDS ReusePlanner

\* Stands for the Clopper-Pearson bound at the few counts used here: without
\* errors, 300 accepted rows bound the risk by one percent at 95% confidence.
MCRiskAtMostOnePercent(errors, accepted, candidates) ==
  errors = 0 /\ accepted >= 300 /\ candidates = 1

Small ==
  [model |-> "Qwen3-8B", size |-> 8, revision |-> "r", architecture |-> "qwen3", config |-> "c8",
   tokenizer |-> "t", weights |-> "w8", layers |-> 2, heads |-> 2, headDim |-> 64, dtype |-> "bfloat16",
   rope |-> 10, positions |-> 4096, ropeScaling |-> {}, window |-> {}]
Large == [Small EXCEPT !.model = "Qwen3-14B", !.size = 14, !.config = "c14", !.weights = "w14", !.layers = 3]

Evidence ==
  [dataset |-> "test", heldOut |-> 32, evaluated |-> 64, buckets |-> {32, 128, 512, 2048}, tasks |-> 32,
   scores |-> [key |-> 97, value |-> 96, top1 |-> 99, native |-> 98, bridge |-> 98, greedy |-> 99],
   drifts |-> [perplexity |-> 1, drop |-> 0],
   materializeMs |-> {50}, prefillMs |-> {100}, costReport |-> TRUE]

\* The manifest under its content address.
Addressed(m) == [f \in DOMAIN m \union {"id"} |-> IF f = "id" THEN [g \in DOMAIN m \ {"id"} |-> m[g]] ELSE m[f]]

GoodBridge == Addressed(
  [direction |-> "8b_to_14b", source |-> Small, target |-> Large, weights |-> "bridge", rank |-> 8,
   sourceWindow |-> 2, train |-> "train", validation |-> "val", test |-> "test",
   quality |-> Evidence, thresholds |-> DefaultThresholds, scope |-> "global"])
OtherBridge == Addressed([GoodBridge EXCEPT !.weights = "bridge2"])
DraftBridge == Addressed([GoodBridge EXCEPT !.quality.materializeMs = {}, !.quality.prefillMs = {}])
MisfiledBridge == Addressed([GoodBridge EXCEPT !.quality.dataset = "val"])
ForeignBridge == Addressed([GoodBridge EXCEPT !.source.weights = "w8b"])
WiderBridge == Addressed([GoodBridge EXCEPT !.rank = 16, !.sourceWindow = 1, !.train = "train2", !.validation = "val2",
                                            !.target.weights = "w14b", !.thresholds.costRatio = 60])

File(manifest) == [schema |-> "cached_kv", manifest |-> manifest,
                   weights |-> IF "weights" \in DOMAIN manifest THEN manifest.weights ELSE "none"]

Quality(split) ==
  [dataset |-> split, total |-> 2048, accepted |-> 1024, unsafe |-> 0, native |-> 99, bridge |-> 99,
   greedy |-> 99, perplexity |-> 1, bound |-> BoundOf(0, 1024, 1)]

ApprovedArtifact == Addressed(
  [direction |-> "8b_to_14b", source |-> Small, target |-> Large, scope |-> "global", state |-> "approved",
   transport |-> [rank |-> 32, sourceWindow |-> 1, structure |-> "v2", residual |-> "none", weights |-> "tw"],
   gate |-> [predictor |-> "p", threshold |-> {10}, dataset |-> {"risk_calibration"}, candidates |-> 1,
             accepted |-> 1024, total |-> 2048, errors |-> 0, bound |-> BoundOf(0, 1024, 1),
             oodThreshold |-> 6, minShadow |-> 1],
   split |-> [s \in Splits |-> s],
   transportQuality |-> {[dataset |-> "method_dev", prompts |-> 1024, task |-> 96, coverage |-> 50, greedy |-> 97]},
   acceptedQuality |-> {Quality("validation")},
   sealed |-> {[dataset |-> "semantic_sealed", quality |-> Quality("semantic_sealed"), samples |-> 2048,
                transport |-> "tw", predictor |-> "p", threshold |-> {10},
                openedOnce |-> TRUE, immutableReport |-> TRUE]},
   cost |-> {[dataset |-> "runtime_audit", requests |-> 512, warmup |-> 20, measured |-> 100,
              materialization |-> 50, prefill |-> 100, reduction |-> 30, overhead |-> 5]},
   injection |-> {[verified |-> {"slot_mapping", "load_complete", "partial_failure", "native_overwrite",
                                 "runtime_audit"},
                   targetPuts |-> 0, backingFiles |-> 0]},
   thresholds |-> SelectiveThresholds])

-----------------------------------------------------------------------------
(* The manifests.                                                          *)

ASSUME GoodArtifactsAreApproved ==
  /\ Approved(GoodBridge) /\ Approved(OtherBridge)
  /\ ~Approved(DraftBridge) /\ ~Approved(MisfiledBridge)
  /\ ApprovedSelective(ApprovedArtifact)
  /\ Loadable(File(GoodBridge), Small, Large)
  /\ ~Loadable([File(GoodBridge) EXCEPT !.weights = "bridge2"], Small, Large)
  /\ Approved(ForeignBridge) /\ ~Loadable(File(ForeignBridge), Small, Large)

\* Whichever field is taken from another artifact, the content address no longer
\* holds: both manifests cover all of their fields.
ASSUME EveryFieldIsAddressed ==
  /\ \A other \in {OtherBridge, DraftBridge, MisfiledBridge, ForeignBridge, WiderBridge}, f \in DOMAIN GoodBridge :
       other[f] # GoodBridge[f] => ~SoundArtifact([GoodBridge EXCEPT ![f] = other[f]])
  /\ \A f \in {"cost", "injection", "sealed", "transportQuality", "acceptedQuality"} :
       ~SoundSelective([ApprovedArtifact EXCEPT ![f] = {}])
  /\ ~SoundSelective([ApprovedArtifact EXCEPT !.thresholds.coverage = 0])

\* An approved artifact loses its approval with any one piece of its evidence,
\* and a semantic approval may not carry the evidence of the next stage.
ASSUME ApprovalNeedsEveryPiece ==
  /\ \A f \in {"cost", "injection", "sealed", "transportQuality", "acceptedQuality"} :
       ~ApprovedSelective(Addressed([ApprovedArtifact EXCEPT ![f] = {}]))
  /\ ~ValidSelective(Addressed([ApprovedArtifact EXCEPT !.state = "semantic_approved"]))
  /\ ValidSelective(Addressed([ApprovedArtifact EXCEPT !.state = "semantic_approved", !.cost = {},
                                                       !.injection = {}]))

-----------------------------------------------------------------------------
(* The planner.                                                            *)

RefSmall == ModelRefOf(Small)
RefLarge == ModelRefOf(Large)

CalibrationId == [name |-> "golden-scale"]

\* The golden-scale artifact of the same two models.
Calibration ==
  [id |-> CalibrationId, pair |-> "p", direction |-> "small_to_large", source |-> RefSmall, target |-> RefLarge,
   layerMap |-> [pair |-> "p", direction |-> "small_to_large",
                 entries |-> [layer \in 1..3 |-> IF layer = 2 THEN [x \in 1..2 |-> 50] ELSE [x \in {1} |-> 100]]],
   projection |-> [pair |-> "p", direction |-> "small_to_large", sourceWidth |-> 128, targetWidth |-> 128,
                   sourceHeads |-> 2, targetHeads |-> 2, sourceDim |-> 64, targetDim |-> 64],
   hiddenBridge |-> {[pair |-> "p", direction |-> "small_to_large", layers |-> <<2, 3>>, sourceHidden |-> 8,
                      targetHidden |-> 16, method |-> "low_rank_linear", weights |-> {"hb"}, weightsFile |-> {"hb"}]},
   restore |-> {[pair |-> "p", direction |-> "small_to_large", target |-> "Qwen3-14B", hidden |-> 16,
                 width |-> 128, heads |-> 2, headDim |-> 64]},
   prompts |-> 4, heldOut |-> 2, dataset |-> {"d"}, scope |-> "prefix_allowlist", allowlist |-> {"px"},
   quality |-> [passed |-> TRUE, kv |-> 97, attention |-> 98, hidden |-> 96]]

WithoutBridge == [Calibration EXCEPT !.hiddenBridge = {}, !.restore = {}]

Artifacts ==
  {{}, {File(GoodBridge)}, {File(DraftBridge)}, {File(MisfiledBridge)},
   {[File(ApprovedArtifact) EXCEPT !.schema = "selective"]},
   {[File(Addressed([ApprovedArtifact EXCEPT !.cost = {}])) EXCEPT !.schema = "selective"]}}
  \union {{[schema |-> "calibration", manifest |-> m]} : m \in {Calibration, WithoutBridge}}

Tuned == [RefSmall EXCEPT !.base = {"Qwen3-8B"}, !.lora = {"adapter"}, !.model = "Qwen3-8B-lora"]
OtherTokenizer == [RefLarge EXCEPT !.tokenizer = "t2", !.shape.tokenizer = {"t2"}]
OtherRope == [RefLarge EXCEPT !.shape.rope = 20]
Stranger == [RefLarge EXCEPT !.architecture = "llama", !.family = "llama", !.model = "Llama"]

\* Every pairing of these models with every artifact, named or not, measured
\* cost or not, inside the allowlist or not.
PlannerRequests ==
  {[source |-> RefSmall, target |-> t, prefix |-> px, calibration |-> id, artifact |-> a,
    materializationMs |-> ms, prefillMs |-> {100}, floor |-> floor, loraScore |-> score] :
     t \in {RefLarge, Tuned, OtherTokenizer, OtherRope, Stranger}, px \in {"px", "py"},
     id \in {{}, {CalibrationId}, {GoodBridge.id}, {MisfiledBridge.id}, {ApprovedArtifact.id}}, a \in Artifacts,
     ms \in {{}, {70}, {71}}, floor \in {95, 98}, score \in {{}, {96}}}

ReadyRequests == {r \in PlannerRequests : Executable(PlanReuse(r))}

\* A ready plan rests on measured evidence that reaches the floor.
ASSUME ReadyIsMeasured ==
  \A r \in ReadyRequests :
    /\ PlanReuse(r).confidence \in r.floor..100
    /\ r.calibration # {}
    /\ r.artifact # {} \/ LoraPair(r.source, r.target)
    /\ SameFamily(r.source, r.target)

\* Each strategy is ready for some request, except the one between base models.
ASSUME EveryStrategyIsReached ==
  {PlanReuse(r).strategy : r \in ReadyRequests} =
    {"adapter_delta_gated_alias", "cached_kv_translation", "selective_paged_kv_reuse",
     "hidden_state_bridge", "kv_projection_baseline"}

\* A cached-KV or selective plan is ready only for the pair of models its
\* artifact describes, with a sound and sufficient artifact.
ASSUME ReadyArtifactsAreSound ==
  \A r \in ReadyRequests : \A file \in r.artifact :
    /\ PlanReuse(r).strategy = "cached_kv_translation" =>
         SoundArtifact(file.manifest) /\ GatePasses(file.manifest.quality, file.manifest.thresholds)
    /\ PlanReuse(r).strategy = "selective_paged_kv_reuse" => ApprovedSelective(file.manifest)
    /\ PlanReuse(r).strategy \in {"cached_kv_translation", "selective_paged_kv_reuse"} =>
         r.source.tokenizer = r.target.tokenizer /\ SameContract(r.source.shape, r.target.shape)

\* What the code does with a calibration manifest: the tokenizer and RoPE
\* comparisons of the request's own models are overwritten, so there are ready
\* plans between models whose tokenizers differ and whose RoPE differs.
ASSUME CalibrationOverridesMismatch ==
  \A t \in {OtherTokenizer, OtherRope} :
    \E r \in ReadyRequests : r.target = t /\ PlanReuse(r).fallback \in {"tokenizer_mismatch", "rope_mismatch"}

\* The planner does not compare the evidence's dataset with the test split; the
\* materializer, which validates the whole manifest, does.
ASSUME PlannerTrustsTheDataset ==
  /\ \E r \in ReadyRequests : r.artifact = {File(MisfiledBridge)}
  /\ ~Approved(MisfiledBridge)
=============================================================================
