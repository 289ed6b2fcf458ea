----------------------------- MODULE TransportFit -----------------------------
(***************************************************************************)
(* SynchronousTransportTrainer and the stages that run it: all candidates  *)
(* of one transport fit are trained together over the collected traces,    *)
(* epoch by epoch, in accumulation groups, and saved together now and then *)
(* as one checkpoint generation that a pointer file names.  A command line *)
(* process that dies, fails or is superseded by a later attempt leaves its *)
(* work directory behind; the next attempt goes on from the pointers in it.*)
(*                                                                         *)
(* A tensor is represented by how it was computed: a model is the start it *)
(* was initialised from and the gradient groups it has been stepped with.  *)
(***************************************************************************)
EXTENDS StageAttempts

CONSTANTS GroupOrder,       \* per epoch, the seeded shuffle of the prefix groups
          RowShuffle,       \* per epoch, the seeded shuffle of the rows
          Matrix,           \* number of rank and seed pairs that screening fits
          Epochs,           \* TransportTrainingParameters.epochs
          Accumulation,     \* TransportTrainingParameters.gradient_accumulation
          CheckpointEvery,  \* checkpoint_every_steps
          MaxLosses         \* bound: power losses

\* run_fit_transport_stage with full-prefix generation supervision or with plain
\* target-logit supervision, and run_frozen_direction_fit_stage.
Fits == {"fit_screening", "fit_target_logit", "fit_frozen_direction"}

ASSUME FitAssumption ==
  /\ \A e \in 0..Epochs - 1 :
       /\ GroupOrder[e] \in Seq(Groups) /\ IsInjective(GroupOrder[e]) /\ Range(GroupOrder[e]) = Groups
       /\ RowShuffle[e] \in Seq(Rows) /\ IsInjective(RowShuffle[e]) /\ Range(RowShuffle[e]) = Rows
  /\ {Matrix, Epochs, Accumulation, CheckpointEvery} \subseteq Nat \ {0}
  /\ MaxLosses \in Nat

VARIABLES pointers,   \* normalizers.json and ridge_initializer.json
          checkpoint, \* checkpoint_set.json and the generation it names
          weights,    \* weights/<candidate_id>.safetensors in the work directory
          fitManifest, \* transport_fit_manifest.json, or the directional one
          torn,       \* files a pointer names whose bytes a power loss has spoilt
          losses      \* power losses so far

fitFiles == <<pointers, checkpoint, weights, fitManifest, torn, losses>>

FullPrefix == kind # "fit_target_logit"
Candidates == 1..(IF kind = "fit_frozen_direction" THEN 1 ELSE Matrix)

\* _full_prefix_epoch_order: the groups shuffled, and their rows inside them.
FullPrefixOrder(epoch) ==
  FlattenSeq([g \in DOMAIN GroupOrder[epoch] |->
    SelectSeq(RowShuffle[epoch], LAMBDA r : PrefixGroup[r] = GroupOrder[epoch][g])])

\* Plain supervision shuffles the rows alone.
Order(epoch) == IF FullPrefix THEN FullPrefixOrder(epoch) ELSE RowShuffle[epoch]

Smaller(a, b) == IF a < b THEN a ELSE b

\* The accumulation group at a position of an epoch.
Batch(epoch, position) ==
  SubSeq(Order(epoch), position + 1, Smaller(position + Accumulation, Len(PrefixGroup)))

\* What a row contributes to a gradient: itself, under the prefix it is read with.
Sees(row, asset) == [row |-> row, prefix |-> asset]
NoAsset == 0

\* _prefix_segments: the leading rows of a batch that share a prefix group.
Segment(batch) ==
  SubSeq(batch, 1, Max({n \in 1..Len(batch) :
                          \A i \in 1..n : PrefixGroup[batch[i]] = PrefixGroup[batch[1]]}))

StepsPerEpoch == (Len(PrefixGroup) + Accumulation - 1) \div Accumulation
NoProgress == [epoch |-> 0, position |-> 0, steps |-> 0, samples |-> 0]

\* _validate_progress: an optimizer boundary inside the training, with the counts
\* that belong to it.
ValidProgress(progress) ==
  /\ progress.epoch < Epochs \/ (progress.epoch = Epochs /\ progress.position = 0)
  /\ progress.position < Len(PrefixGroup)
  /\ progress.position % Accumulation = 0
  /\ progress.samples = progress.epoch * Len(PrefixGroup) + progress.position
  /\ progress.steps = progress.epoch * StepsPerEpoch + progress.position \div Accumulation

(* What a candidate is: the normalizers and the initializer it started      *)
(* from, the gradients its optimizer has stepped with, and the rows whose   *)
(* losses its metric sums hold.                                             *)
Model(start, steps, measured) == [start |-> start, steps |-> steps, measured |-> measured]
Fresh(start) == Model(start, <<>>, 0)

\* _validate_candidate_state: the optimizer has made the steps that the progress counts.
SoundCandidate(model, progress) == Len(model.steps) = progress.steps

Pointer(binding, bytes) == [kind |-> "pointer", binding |-> binding, bytes |-> bytes]

Generation(start, progress, models) ==
  [kind |-> "generation", binding |-> start, progress |-> progress, models |-> models]

FitIdle == [normalizers |-> "none", initializer |-> "none", models |-> <<>>,
            progress |-> NoProgress, batch |-> <<>>, gradient |-> <<>>, asset |-> NoAsset,
            done |-> <<>>]

Start(p) == <<workers[p].normalizers, workers[p].initializer>>

FitInit ==
  /\ pointers = [normalizers |-> None, initializer |-> None]
  /\ checkpoint = None
  /\ weights = [c \in Candidates |-> None]
  /\ fitManifest = <<>>
  /\ torn = [pointers |-> {}, checkpoint |-> {}]
  /\ losses = 0

-----------------------------------------------------------------------------
\* run_fit_transport_stage up to the lease.
BeginFit(p) ==
  /\ Begin(p, {"fit_screening", "fit_target_logit"}, Changed(FitIdle, [pc |-> "normalizers"]))
  /\ UNCHANGED fitFiles

\* run_frozen_direction_fit_stage up to the lease: one rank, the frozen one.
BeginFrozenDirection(p) ==
  /\ Begin(p, {"fit_frozen_direction"}, Changed(FitIdle, [pc |-> "normalizers"]))
  /\ UNCHANGED fitFiles

\* A pointer whose object has not the recorded checksum is refused.
LoadNormalizers(p) ==
  /\ pointers.normalizers # None
  /\ Working(p, "normalizers",
             IF "normalizers" \in torn.pointers THEN [pc |-> "refused"]
             ELSE [pc |-> "initializer", normalizers |-> pointers.normalizers.bytes])
  /\ UNCHANGED fitFiles

FitNormalizers(p) ==
  /\ pointers.normalizers = None
  /\ \E b \in Bytes : Working(p, "normalizers", [pc |-> "point normalizers", normalizers |-> b])
  /\ UNCHANGED fitFiles

PointNormalizers(p) ==
  /\ Working(p, "point normalizers", [pc |-> "initializer"])
  /\ pointers' = [pointers EXCEPT !.normalizers = Pointer("trace", workers[p].normalizers)]
  /\ UNCHANGED <<checkpoint, weights, fitManifest, torn, losses>>

\* The initializer is bound to the normalizers it was fitted with.
LoadInitializer(p) ==
  /\ pointers.initializer # None
  /\ Working(p, "initializer",
             IF \/ pointers.initializer.binding # workers[p].normalizers
                \/ "initializer" \in torn.pointers
             THEN [pc |-> "refused"]
             ELSE [pc |-> "restore", initializer |-> pointers.initializer.bytes])
  /\ UNCHANGED fitFiles

FitInitializer(p) ==
  /\ pointers.initializer = None
  /\ \E b \in Bytes : Working(p, "initializer", [pc |-> "point initializer", initializer |-> b])
  /\ UNCHANGED fitFiles

\* Mutant: the initializer's pointer is bound to the traces, like the normalizers'.
PointInitializerToTrace(p) ==
  /\ Working(p, "point initializer", [pc |-> "restore"])
  /\ pointers' = [pointers EXCEPT !.initializer = Pointer("trace", workers[p].initializer)]
  /\ UNCHANGED <<checkpoint, weights, fitManifest, torn, losses>>

PointInitializer(p) ==
  /\ Working(p, "point initializer", [pc |-> "restore"])
  /\ pointers' = [pointers EXCEPT !.initializer =
                    Pointer(workers[p].normalizers, workers[p].initializer)]
  /\ UNCHANGED <<checkpoint, weights, fitManifest, torn, losses>>

\* _build_contexts: every candidate starts from the shared initializer.
FreshModels(p) == [c \in Candidates |-> Fresh(Start(p))]

\* _load_checkpoint_set: every check on the pointer and on the files it names.
Restorable(p) ==
  /\ checkpoint.binding = Start(p)
  /\ DOMAIN checkpoint.models = Candidates
  /\ ValidProgress(checkpoint.progress)
  /\ torn.checkpoint = {}
  /\ \A c \in Candidates : SoundCandidate(checkpoint.models[c], checkpoint.progress)

\* Mutant: training goes on from the checkpoint with models built anew.
RestoreProgressOnly(p) ==
  /\ Working(p, "restore",
             IF checkpoint = None THEN [pc |-> "train", models |-> FreshModels(p)]
             ELSE IF Restorable(p)
             THEN [pc |-> "train", models |-> FreshModels(p), progress |-> checkpoint.progress]
             ELSE [pc |-> "refused"])
  /\ UNCHANGED fitFiles

\* _build_contexts, then _load_checkpoint_set into them.
Restore(p) ==
  /\ Working(p, "restore",
             IF checkpoint = None THEN [pc |-> "train", models |-> FreshModels(p)]
             ELSE IF Restorable(p)
             THEN [pc |-> "train", models |-> checkpoint.models, progress |-> checkpoint.progress]
             ELSE [pc |-> "refused"])
  /\ UNCHANGED fitFiles

\* The next accumulation group of the training, or its end.
NextBatch(p) ==
  /\ At(p, "train") /\ workers[p].batch = <<>> /\ workers[p].gradient = <<>>
  /\ LET progress == workers[p].progress
     IN  Working(p, "train",
                 IF progress.epoch < Epochs
                 THEN [batch |-> Batch(progress.epoch, progress.position)]
                 ELSE [pc |-> IF ValidProgress(progress) THEN "weights" ELSE "refused"])
  /\ UNCHANGED fitFiles

\* Mutant: the cached prefix asset is used whatever group it belongs to.
AnyPrefixAsset(cached, row) == IF cached # NoAsset THEN cached ELSE PrefixGroup[row]

\* FullPrefixGenerationBackend.prefix_asset: the cached asset, if it is this group's.
PrefixAsset(cached, row) ==
  IF cached = PrefixGroup[row] THEN cached ELSE PrefixGroup[row]

\* The losses of a few rows flow into the gradient and the metrics of every candidate.
Learn(p, rows, asset) ==
  LET w == workers[p]
  IN  Working(p, "train",
        [batch |-> SubSeq(w.batch, Len(rows) + 1, Len(w.batch)),
         gradient |-> w.gradient \o [i \in 1..Len(rows) |-> Sees(rows[i], asset)],
         asset |-> asset,
         models |-> [c \in Candidates |-> [w.models[c] EXCEPT !.measured = @ + Len(rows)]],
         progress |-> [w.progress EXCEPT !.samples = @ + Len(rows)]])

\* One record of _train_contexts: its shard alone, without the prefix.
TrainRecord(p) ==
  /\ At(p, "train") /\ ~FullPrefix /\ workers[p].batch # <<>>
  /\ Learn(p, <<Head(workers[p].batch)>>, NoAsset)
  /\ UNCHANGED fitFiles

\* _train_full_prefix_segment: rows that share a prefix, read with its asset.
TrainSegment(p) ==
  /\ At(p, "train") /\ FullPrefix /\ workers[p].batch # <<>>
  /\ LET rows == Segment(workers[p].batch)
     IN  Learn(p, rows, PrefixAsset(workers[p].asset, rows[1]))
  /\ UNCHANGED fitFiles

Advance(progress, trained) ==
  IF progress.position + trained = Len(PrefixGroup)
  THEN [progress EXCEPT !.steps = @ + 1, !.epoch = @ + 1, !.position = 0]
  ELSE [progress EXCEPT !.steps = @ + 1, !.position = @ + trained]

\* A checkpoint is due every few steps and at an epoch's end.
Due(progress) == progress.steps % CheckpointEvery = 0 \/ progress.position = 0

\* The end of an accumulation group: every candidate steps.
StepCandidates(p, progress, asset) ==
  LET w       == workers[p]
      stepped == [c \in Candidates |-> [w.models[c] EXCEPT !.steps = Append(@, w.gradient)]]
      sound   == \A c \in Candidates : SoundCandidate(stepped[c], progress)
  IN  /\ w.batch = <<>> /\ w.gradient # <<>>
      /\ Working(p, "train",
           [pc |-> IF ~Due(progress) THEN "train" ELSE IF sound THEN "save" ELSE "refused",
            models |-> stepped, gradient |-> <<>>, progress |-> progress, asset |-> asset])

\* The end of a group in _train_contexts.
StepAfterRecords(p) ==
  /\ At(p, "train") /\ ~FullPrefix
  /\ StepCandidates(p, Advance(workers[p].progress, Len(workers[p].gradient)), NoAsset)
  /\ UNCHANGED fitFiles

\* The end of a group in _train_full_prefix_contexts: an epoch's end drops the asset.
StepAfterSegments(p) ==
  /\ At(p, "train") /\ FullPrefix
  /\ LET progress == Advance(workers[p].progress, Len(workers[p].gradient))
     IN  StepCandidates(p, progress, IF progress.position = 0 THEN NoAsset ELSE workers[p].asset)
  /\ UNCHANGED fitFiles

\* A further candidate, and whether all are done.
Another(p) == Len(workers[p].done) + 1
AllDone(p) == Len(workers[p].done) = Cardinality(Candidates)

\* _save_candidate_checkpoint: one file of a new generation, which no pointer names yet.
SaveCandidate(p) ==
  /\ At(p, "save") /\ ~AllDone(p)
  /\ Working(p, "save", [done |-> Append(workers[p].done, workers[p].models[Another(p)])])
  /\ UNCHANGED fitFiles

\* The pointer is replaced when all the generation's files exist.
PointCheckpoint(p) ==
  /\ At(p, "save") /\ AllDone(p)
  /\ checkpoint' = Generation(Start(p), workers[p].progress, workers[p].done)
  /\ torn' = [torn EXCEPT !.checkpoint = {}]
  /\ Working(p, "save", [pc |-> "train", done |-> <<>>])
  /\ UNCHANGED <<pointers, weights, fitManifest, losses>>

\* The runtime tensors of a candidate, without its optimizer and metrics.
Runtime(model) == [start |-> model.start, steps |-> model.steps]

\* _save_runtime_weights, one candidate after the other.
SaveWeights(p) ==
  /\ At(p, "weights")
  /\ weights' = [weights EXCEPT ![Another(p)] = Runtime(workers[p].models[Another(p)])]
  /\ Working(p, "weights",
             IF Another(p) = Cardinality(Candidates) THEN [pc |-> "publish candidates", done |-> <<>>]
             ELSE [done |-> Append(workers[p].done, workers[p].models[Another(p)])])
  /\ UNCHANGED <<pointers, checkpoint, fitManifest, torn, losses>>

\* publish_file: what lies at the candidate's path now.
PublishCandidate(p) ==
  /\ At(p, "publish candidates") /\ ~AllDone(p)
  /\ Working(p, "publish candidates", [done |-> Append(workers[p].done, weights[Another(p)])])
  /\ UNCHANGED fitFiles

\* CandidateTrainingMetrics.validate: the counts of the whole training.
WholeTraining(samples, steps) ==
  samples = Epochs * Len(PrefixGroup) /\ steps = Epochs * StepsPerEpoch

\* What the manifest says of a candidate: the weights published from its path, and
\* the metrics of this process.
Listed(runtime, model, progress) ==
  [weights |-> runtime, measured |-> model.measured,
   samples |-> progress.samples, steps |-> progress.steps]

\* V5TransportFitManifest.validate: the whole matrix of ranks and seeds.
ValidScreening(listed) ==
  /\ DOMAIN listed = 1..Matrix
  /\ \A c \in 1..Matrix : WholeTraining(listed[c].samples, listed[c].steps)

\* V5DirectionalTransportFitManifest.validate: one candidate.
ValidDirection(listed) ==
  Len(listed) = 1 /\ WholeTraining(listed[1].samples, listed[1].steps)

\* The manifest over the published candidates, at a path that all attempts share.
WriteFitManifest(p) ==
  /\ At(p, "publish candidates") /\ AllDone(p)
  /\ LET w      == workers[p]
         listed == [c \in DOMAIN w.done |-> Listed(w.done[c], w.models[c], w.progress)]
     IN  /\ IF kind = "fit_frozen_direction" THEN ValidDirection(listed)
            ELSE ValidScreening(listed)
         /\ fitManifest' = listed
  /\ Working(p, "publish candidates", [pc |-> "publish manifest"])
  /\ UNCHANGED <<pointers, checkpoint, weights, torn, losses>>

\* complete_stage publishes what lies at the manifest's path.
CompleteFit(p) ==
  /\ At(p, "publish manifest") /\ Finish(p, fitManifest)
  /\ UNCHANGED fitFiles

\* The machine loses power: all processes die, and files that were never synced
\* may be spoilt. The pointers themselves are synced.
PowerLoss ==
  /\ kind \in Fits /\ losses < MaxLosses
  /\ losses' = losses + 1
  /\ workers' = [p \in Processes |-> Idle]
  /\ \E objects \in SUBSET {f \in {"normalizers", "initializer"} : pointers[f] # None},
        saved \in SUBSET (IF checkpoint = None THEN {} ELSE Candidates) :
       torn' = [pointers |-> torn.pointers \union objects,
                checkpoint |-> torn.checkpoint \union saved]
  /\ UNCHANGED <<kind, stage, overlapped, pointers, checkpoint, weights, fitManifest>>

\* load_completed_transport_fit and load_completed_directional_fit.
LoadsScreening(listed) == ValidScreening(listed)
LoadsDirection(listed) == ValidDirection(listed)

FitStep(p) ==
  \/ BeginFit(p) \/ BeginFrozenDirection(p)
  \/ LoadNormalizers(p) \/ FitNormalizers(p) \/ PointNormalizers(p)
  \/ LoadInitializer(p) \/ FitInitializer(p) \/ PointInitializer(p)
  \/ Restore(p) \/ NextBatch(p) \/ TrainRecord(p) \/ TrainSegment(p)
  \/ StepAfterRecords(p) \/ StepAfterSegments(p)
  \/ SaveCandidate(p) \/ PointCheckpoint(p)
  \/ SaveWeights(p) \/ PublishCandidate(p)
  \/ WriteFitManifest(p) \/ CompleteFit(p)

-----------------------------------------------------------------------------
(* The training as the registered contract describes it: the gradient      *)
(* groups of all epochs in order, every row under its own prefix.          *)
Scheduled(step) ==
  LET batch == Batch((step - 1) \div StepsPerEpoch, ((step - 1) % StepsPerEpoch) * Accumulation)
  IN  [i \in DOMAIN batch |-> Sees(batch[i], IF FullPrefix THEN PrefixGroup[batch[i]] ELSE NoAsset)]

Schedule == [step \in 1..Epochs * StepsPerEpoch |-> Scheduled(step)]

\* A model that has been through the schedule's first steps, and a count of their rows.
OnSchedule(schedule, model, progress) ==
  /\ model.steps = SubSeq(schedule, 1, progress.steps)
  /\ model.measured = progress.samples

\* Whatever dies, fails, overlaps or loses power, a candidate in memory or in the
\* checkpoint has been stepped with exactly the schedule's first groups, every row
\* under its own prefix, and its metrics count each of those rows once
\* (_train_full_prefix_contexts, _load_checkpoint_set).
TrajectoryKept ==
  LET schedule == Schedule
  IN  kind \in Fits =>
        /\ \A p \in Processes \ {q \in Processes : At(q, "idle")} :
           \A c \in DOMAIN workers[p].models :
             OnSchedule(schedule, workers[p].models[c], workers[p].progress)
        /\ checkpoint # None => \A c \in DOMAIN checkpoint.models :
             OnSchedule(schedule, checkpoint.models[c], checkpoint.progress)

\* The manifest of a completed fit can be loaded and lists every candidate of the
\* contract, each trained through the whole schedule and measured on all its rows, and
\* all of them from one start unless attempts alive at once have written each other's
\* weights (run_fit_transport_stage, load_completed_transport_fit).
CompletedFitIsWhole ==
  kind \in Fits /\ stage.status = "completed" =>
    LET listed == stage.outputs
    IN  /\ IF kind = "fit_frozen_direction" THEN LoadsDirection(listed) ELSE LoadsScreening(listed)
        /\ DOMAIN listed = Candidates
        /\ \A c \in Candidates : /\ listed[c].weights.steps = Schedule
                                 /\ listed[c].measured = Epochs * Len(PrefixGroup)
        /\ overlapped \/ \A c \in Candidates :
             listed[c].weights.start = listed[1].weights.start
===============================================================================
