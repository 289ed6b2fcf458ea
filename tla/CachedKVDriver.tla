--------------------------- MODULE CachedKVDriver ---------------------------
(***************************************************************************)
(* One run of scripts/run_qwen3_cached_kv_runtime.py: the driver plans the *)
(* reuse, preloads the bridge in a resident materializer worker, starts the *)
(* services, measures the native target, binds the target prompt to the source engine's       *)
(* lookup record, asks the worker to materialize the shared prefix,        *)
(* chooses the target phase from the reply, runs the target engine over    *)
(* the same Mooncake store and judges the run.  The worker answers one     *)
(* JSON line per request, in order, on a pipe; the client waits for a line *)
(* with a time limit and a request carries no identity.                    *)
(***************************************************************************)
EXTENDS ReusePlanner, PromptPrefixes, BaselineServices

CONSTANTS ChunkSize,
          Prompts,          \* pairs of token sequences: [source, target]
          Settings,         \* [resident, unsafe, maxChunks] of the environment
          Direction,        \* GE_CACHED_KV_DIRECTION
          SourceDirectory, TargetDirectory,  \* the model directories
          Bridge,           \* what the manifest path may hold, by name
          MaxReplacements   \* bound: how often the bridge files are replaced

\* lmcache_chunk_hashes refuses a chunk size that is not positive.
ASSUME ChunkAssumption == ChunkSize \in Nat \ {0}
ASSUME PromptAssumption == \A pair \in Prompts : pair.source \in Seq(Nat) /\ pair.target \in Seq(Nat)
ASSUME SettingAssumption == \A s \in Settings : s.resident \in BOOLEAN /\ s.maxChunks \in Int
ASSUME ReplacementAssumption == MaxReplacements \in Nat

VARIABLES phase,       \* what the driver does next
          settings, prompts,
          planned,     \* the bridge the driver has read and is about to plan with
          executable,  \* the plan is ready
          sources,     \* chunks the source engine left
          candidate,   \* the bound lookup record: a set of at most one
          disk, replaced,  \* the bridge on disk, and how often it was replaced
          stdin,       \* request lines not yet read by the worker
          busy,        \* the request the worker is serving
          loaded,      \* the bridge it serves it with
          resident,    \* the resident cache's entry: a set of at most one
          alive,       \* the worker process
          pipe,        \* reply lines in the worker's stdout
          buffer,      \* reply lines already in the client's text buffer
          reply,       \* the materializer result the driver acts on
          prior,       \* target chunks an earlier run stored and listed
          stored,      \* target chunks in Mooncake
          published,   \* this run's translated chunks in the index: [hash, bridge]
          before, after,  \* the target chunks the driver's two probes find
          targetPhase, \* the phase the target engine is started in
          external,    \* tokens the target engine took from Mooncake
          metric,      \* those tokens as its metrics report them: at most one value
          status       \* the run's recorded status

inputs == <<settings, prompts, prior>>
plan == <<planned, executable>>
source == <<sources, candidate>>
files == <<disk, replaced>>
environment == <<files, group>>
service == <<busy, loaded, resident>>
store == <<stored, published>>
workerVars == <<stdin, service, alive, pipe, buffer>>
outcome == <<targetPhase, external, metric, status>>
evidence == <<before, after, outcome>>
vars == <<phase, inputs, plan, source, environment, workerVars, reply, store, evidence>>

Phases == {"plan", "planning", "preload", "preloading", "mooncake", "lmcache", "native", "lookup", "materialize",
           "waiting", "choose", "engine", "evaluate", "stop", "close", "done", "raised"}
Requests == {"preload", "materialize"}
NoBridge == "no bridge"

Fallback == [success |-> FALSE, injected |-> FALSE, keys |-> <<>>]
Preloaded == [success |-> TRUE, injected |-> FALSE, keys |-> <<>>]
Injected(keys) == [success |-> TRUE, injected |-> TRUE, keys |-> keys]

SharedChunks(pair) ==
  CommonPrefix(ChunkHashes(pair.source, ChunkSize), ChunkHashes(pair.target, ChunkSize))

\* prior is not empty when GE_MOONCAKE_EXTERNAL_INDEX and the storage root are
\* those of an earlier run of the same prompts.
Init ==
  /\ phase = "plan"
  /\ settings \in Settings /\ prompts \in Prompts
  /\ prior \in SUBSET Range(SharedChunks(prompts))
  /\ stored = prior /\ published = {}
  /\ planned = NoBridge /\ executable = FALSE
  /\ sources = {} /\ candidate = {}
  /\ disk \in DOMAIN Bridge /\ replaced = 0
  /\ held = {} /\ running = {}
  /\ stdin = <<>> /\ busy = "none" /\ loaded = NoBridge /\ resident = {} /\ alive = FALSE
  /\ pipe = <<>> /\ buffer = <<>> /\ reply = Fallback
  /\ before = {} /\ after = {}
  /\ targetPhase = "none" /\ external = 0 /\ metric = {} /\ status = "none"

\* The operator installs another manifest and its weights at the same paths.
ReplaceBridge ==
  /\ replaced < MaxReplacements
  /\ replaced' = replaced + 1
  /\ disk' \in DOMAIN Bridge \ {disk}
  /\ UNCHANGED <<phase, inputs, plan, source, group, workerVars, reply, store, evidence>>

-----------------------------------------------------------------------------
(* ResidentMaterializerClient.request, in the phase that waits for it.     *)

\* The line is written to a live worker.
Send(request) ==
  /\ alive
  /\ stdin' = Append(stdin, request)
  /\ UNCHANGED <<service, alive, pipe, buffer>>

\* The worker has exited: start() and request() raise before anything is sent.
SendFails ==
  /\ ~alive
  /\ UNCHANGED workerVars

\* select reported the pipe readable; readline drains it into the text buffer
\* and returns the oldest line.
Receive ==
  /\ pipe # <<>>
  /\ buffer' = Tail(buffer \o pipe)
  /\ pipe' = <<>>
  /\ UNCHANGED <<stdin, service, alive>>

Received == Head(buffer \o pipe)

\* Mutant: the client waits for as long as the worker lives.
TimedOutOnlyAfterDeath == pipe = <<>> /\ ~alive

\* select returned nothing within timeout_sec: the worker is left running.
TimedOut == pipe = <<>>

\* stdout is closed and drained.
Closed == ~alive /\ pipe = <<>> /\ buffer = <<>>

-----------------------------------------------------------------------------
(* The driver's plan.                                                      *)

\* CachedKVBridgeManifest.load in _plan_cached_kv: a file of another schema
\* raises, and there is no plan.
ReadManifest ==
  /\ phase = "plan"
  /\ IF Bridge[disk].schema = "cached_kv"
     THEN planned' = disk /\ phase' = "planning"
     ELSE planned' = NoBridge /\ phase' = "mooncake"
  /\ UNCHANGED <<inputs, executable, source, environment, workerVars, reply, store, evidence>>

\* The request _plan_cached_kv builds from what it read; the planner reads the
\* file again.
DriverRequest(read, artifact) ==
  [source |-> ModelRefOf(Bridge[read].manifest.source), target |-> ModelRefOf(Bridge[read].manifest.target),
   prefix |-> "runtime_exact_prefix_pending", calibration |-> {Bridge[read].manifest.id},
   artifact |-> {Bridge[artifact]}, materializationMs |-> {}, prefillMs |-> {},
   floor |-> 95, loraScore |-> {}]

ReadablePlans == {b \in DOMAIN Bridge : Bridge[b].schema = "cached_kv"}
ExecutablePlans ==
  {pair \in ReadablePlans \X DOMAIN Bridge : Executable(PlanReuse(DriverRequest(pair[1], pair[2])))}

\* With an executable plan the resident worker is started, if it is asked for.
PlanCachedKVRun ==
  /\ phase = "planning"
  /\ executable' = (<<planned, disk>> \in ExecutablePlans)
  /\ planned' = NoBridge
  /\ alive' = (executable' /\ settings.resident)
  /\ phase' = IF alive' THEN "preload" ELSE "mooncake"
  /\ UNCHANGED <<inputs, source, environment, stdin, service, pipe, buffer, reply, store, evidence>>

Preload ==
  /\ phase = "preload"
  /\ \/ Send("preload") /\ phase' = "preloading"
     \/ SendFails /\ phase' = "mooncake"
  /\ UNCHANGED <<inputs, plan, source, environment, reply, store, evidence>>

\* The preload result is recorded; whatever it says, the run goes on.
AwaitPreload ==
  /\ phase = "preloading"
  /\ phase' = "mooncake"
  /\ \/ Receive
     \/ (TimedOut \/ Closed) /\ UNCHANGED workerVars
  /\ UNCHANGED <<inputs, plan, source, environment, reply, store, evidence>>

-----------------------------------------------------------------------------
(* The source engine and what it leaves.                                   *)

ResponseId == <<"cmpl">>
Record(request, tokens, time) ==
  [model |-> "source", request |-> request, hashes |-> ChunkHashes(tokens, ChunkSize),
   length |-> Len(tokens), chunkSize |-> ChunkSize, time |-> time,
   layout |-> <<SourceDirectory.layers, SourceDirectory.dtype>>]

\* What lookup_hashes_*.jsonl may hold: nothing, the record of the source
\* request, alone or after that of another request or of another prompt under
\* the same id, or one whose hashes were cut short.
Logs(pair) ==
  LET own == Record(<<"cmpl", "0">>, pair.source, 1)
  IN {<<>>, <<own>>,
      <<Record(<<"chat">>, pair.source, 0), own>>,
      <<own, Record(<<"cmpl", "0">>, pair.target, 2)>>,
      <<[own EXCEPT !.hashes = <<>>]>>}

\* Where the run goes on; a start, a wait or a stop that raises unwinds to the
\* finally of main.
Then(next, ready) == phase' = IF ready THEN next ELSE "stop"

StartMooncakeServices ==
  /\ phase = "mooncake"
  /\ \E ready \in BOOLEAN : StartMooncake(ready) /\ Then("lmcache", ready)
  /\ UNCHANGED <<inputs, plan, source, files, workerVars, reply, store, evidence>>

StartLMCacheServer ==
  /\ phase = "lmcache"
  /\ \E ready \in BOOLEAN : StartLMCache(ready) /\ Then("native", ready)
  /\ UNCHANGED <<inputs, plan, source, files, workerVars, reply, store, evidence>>

\* An engine is started, measured and stopped; when its start, its request or its
\* stop raises it may be left running.
RunEngine(next) ==
  \/ phase' = next /\ UNCHANGED group
  \/ phase' = "stop" /\ StartEngine(FALSE)

\* The source offload, then the native target (no KV transfer); the last of the
\* source engine's chunks may be evicted or never have been stored.
RunSourceAndNative ==
  /\ phase = "native"
  /\ RunEngine("lookup")
  /\ LET hashes == ChunkHashes(prompts.source, ChunkSize)
     IN sources' \in IF phase' = "lookup" THEN {Range(hashes), Range(Front(hashes))} ELSE {sources}
  /\ UNCHANGED <<inputs, plan, candidate, files, workerVars, reply, store, evidence>>

\* mooncake_key_exists over the chunks of the candidate.
Probe(chunks) == chunks \intersect stored

\* Tokenization, _lookup_source_candidate, and the probes before the request.
LookupSource ==
  /\ phase = "lookup"
  /\ candidate' \in {SharedCandidates(log, "source", ResponseId, prompts.source, prompts.target, ChunkSize, 1) :
                       log \in Logs(prompts)}
  /\ \/ /\ candidate' = {}
        /\ phase' = "choose" /\ UNCHANGED before
     \/ \E c \in candidate' :
          /\ before' = Probe(Range(c.hashes))
          /\ phase' = IF /\ executable
                         /\ Len(prompts.source) = c.record.length
                         /\ Len(prompts.target) >= Len(c.hashes) * ChunkSize
                      THEN "materialize" ELSE "choose"
  /\ UNCHANGED <<inputs, plan, sources, environment, workerVars, reply, store, after, outcome>>

Wanted == UNION {Range(c.hashes) : c \in candidate}

-----------------------------------------------------------------------------
(* materialize_cached_qwen3.                                               *)

\* Qwen3CachedKVBridge.from_artifact accepts the files.
LoadableBridges ==
  {b \in DOMAIN Bridge : /\ Bridge[b].schema = "cached_kv"
                         /\ Loadable(Bridge[b], SourceDirectory, TargetDirectory)}

\* The chunks a request asks for: the first max_chunks, or all.
RequestedChunks(hashes) ==
  IF settings.maxChunks = 0 THEN hashes
  ELSE SubSeq(hashes, 1, Min({settings.maxChunks, Len(hashes)}))

\* The request passes every check, every source object is read and no target
\* object exists.
MayMaterialize(c, b) ==
  /\ ~settings.unsafe /\ settings.maxChunks >= 0
  /\ b \in LoadableBridges /\ Bridge[b].manifest.direction = Direction
  /\ RecordFits(c.record, "source", c.hashes, ChunkSize,
                <<Bridge[b].manifest.source.layers, Bridge[b].manifest.source.dtype>>)
  /\ BindingFits(c.binding, c.record, c.hashes)
  /\ Range(RequestedChunks(c.hashes)) \subseteq sources
  /\ Range(RequestedChunks(c.hashes)) \intersect stored = {}

Publish(keys, b) ==
  /\ stored' = stored \union Range(keys)
  /\ published' = published \union {[hash |-> h, bridge |-> b] : h \in Range(keys)}

\* A process killed between the puts and the publication.
AbandonPuts(keys) ==
  /\ \E n \in 0..Len(keys) : stored' = stored \union Range(SubSeq(keys, 1, n))
  /\ UNCHANGED published

-----------------------------------------------------------------------------
(* The driver's request.                                                   *)

\* _run_materializer, with the resident client.
RequestMaterialization ==
  /\ phase = "materialize" /\ settings.resident
  /\ \/ Send("materialize") /\ phase' = "waiting" /\ UNCHANGED after
     \/ SendFails /\ phase' = "choose" /\ after' = Probe(Wanted)
  /\ UNCHANGED <<inputs, plan, source, environment, reply, store, before, outcome>>

AwaitMaterialization ==
  /\ phase = "waiting"
  /\ phase' = "choose"
  /\ \/ Receive /\ reply' = Received
     \/ (TimedOut \/ Closed) /\ reply' = Fallback /\ UNCHANGED workerVars
  /\ after' = Probe(Wanted)
  /\ UNCHANGED <<inputs, plan, source, environment, store, before, outcome>>

\* _run_materializer, with a process of its own that is waited for.  It may fall
\* back, and when it dies no result is found.
MaterializeInSubprocess ==
  /\ phase = "materialize" /\ ~settings.resident
  /\ phase' = "choose"
  /\ \/ \E c \in candidate :
          /\ MayMaterialize(c, disk)
          /\ LET keys == RequestedChunks(c.hashes)
             IN \/ Publish(keys, disk) /\ reply' \in {Injected(keys), Fallback}
                \/ AbandonPuts(keys) /\ reply' = Fallback
     \/ reply' = Fallback /\ UNCHANGED store
  /\ after' = Wanted \intersect stored'
  /\ UNCHANGED <<inputs, plan, source, environment, workerVars, before, outcome>>

\* Mutant: any successful reply selects the reuse phase.
ChooseTargetOnSuccess ==
  /\ phase = "choose"
  /\ targetPhase' = IF reply.success THEN "target_reuse" ELSE "target_fallback"
  /\ phase' = "engine"
  /\ UNCHANGED <<inputs, plan, source, environment, workerVars, reply, store, before, after, external, metric, status>>

ChooseTarget ==
  /\ phase = "choose"
  /\ targetPhase' = IF reply.injected THEN "target_reuse" ELSE "target_fallback"
  /\ phase' = "engine"
  /\ UNCHANGED <<inputs, plan, source, environment, workerVars, reply, store, before, after, external, metric, status>>

Listed == prior \union {p.hash : p \in published}

\* The chunks of the target prompt the engine finds: a prefix of them is listed.
Usable ==
  LET hashes == ChunkHashes(prompts.target, ChunkSize)
  IN Max({n \in 0..Len(hashes) : Range(SubSeq(hashes, 1, n)) \subseteq Listed})

\* The target engine is started with KV transfer in either phase: it takes the
\* prefix the index lists, or less when a read comes back short; its metrics may
\* be missing.
RunTarget ==
  /\ phase = "engine"
  /\ RunEngine("evaluate")
  /\ external' \in IF phase' = "evaluate" THEN {n * ChunkSize : n \in 0..Usable} ELSE {external}
  /\ metric' \in IF phase' = "evaluate" THEN {{}, {external'}} ELSE {metric}
  /\ UNCHANGED <<inputs, plan, source, files, workerVars, reply, store, before, after, targetPhase, status>>

\* Mutant: the transferred tokens are not compared with the injected chunks.
ConsumedUncounted ==
  /\ reply.success /\ reply.injected
  /\ Wanted # {} /\ Wanted \subseteq sources /\ before = {}
  /\ reply.keys # <<>> /\ Range(reply.keys) \subseteq Wanted /\ after = Range(reply.keys)

\* evaluate_runtime_reuse, its infrastructure checks.
Consumed ==
  /\ reply.success /\ reply.injected
  /\ Wanted # {} /\ Wanted \subseteq sources /\ before = {}
  /\ reply.keys # <<>> /\ Range(reply.keys) \subseteq Wanted /\ after = Range(reply.keys)
  /\ metric = {Len(reply.keys) * ChunkSize}

\* evaluate_runtime_reuse; the output, assertion and timing checks may pass or
\* fail.  The worker refuses allow_unsafe, so no reply is unsafe_shadow_reuse,
\* but the driver's own safe_policy check reads the reply too.
Evaluate ==
  /\ phase = "evaluate"
  /\ phase' = "stop"
  /\ status' \in IF Consumed THEN {"cross_model_reuse_success", "quality_validation_failed"}
                 ELSE IF reply.injected THEN {"runtime_validation_failed"}
                 ELSE {"fallback"}
  /\ UNCHANGED <<inputs, plan, source, environment, workerVars, reply, store, before, after, targetPhase, external, metric>>

\* Tokenization, a Mooncake client or the summary fails: main unwinds.
Abort ==
  /\ phase \in {"lookup", "materialize", "evaluate"}
  /\ phase' = "stop"
  /\ UNCHANGED <<inputs, plan, source, environment, workerVars, reply, store, evidence>>

\* The finally of main over the services in order.  A stop that raises skips the
\* later ones and the client's close, and main ends.
Unwind(order) ==
  /\ phase = "stop"
  /\ \/ /\ Stop(order) /\ phase' = "close"
        /\ UNCHANGED <<workerVars, reply, evidence>>
     \/ /\ StopRaises(order) /\ phase' = "raised"
        /\ pipe' = <<>> /\ buffer' = <<>> /\ UNCHANGED <<stdin, service, alive>>
        /\ before' = {} /\ after' = {} /\ UNCHANGED <<reply, outcome>>
  /\ UNCHANGED <<inputs, plan, source, files, store>>


\* stop_server, stop_lmcache_mp, then stop_mooncake: its master first.
StopServices == Unwind(<<"engine", "lmcache", "master", "metadata">>)

\* ResidentMaterializerClient.close: end of input, then terminate, then kill.
Close ==
  /\ phase = "close"
  /\ phase' = "done"
  /\ alive' = FALSE /\ busy' = "none" /\ stdin' = <<>> /\ pipe' = <<>> /\ buffer' = <<>>
  /\ loaded' = NoBridge /\ resident' = {}
  /\ UNCHANGED <<inputs, plan, source, environment, reply, store, evidence>>

-----------------------------------------------------------------------------
(* serve_materializer_jsonl.                                               *)

\* Mutant: a served line is left in front of the worker.
WorkerTakeAgain ==
  /\ alive /\ busy = "none" /\ stdin # <<>>
  /\ busy' = Head(stdin)
  /\ UNCHANGED <<phase, inputs, plan, source, environment, stdin, loaded, resident, alive, pipe, buffer, reply, store, evidence>>

\* The worker reads the next request line.
WorkerTake ==
  /\ alive /\ busy = "none" /\ stdin # <<>>
  /\ busy' = Head(stdin)
  /\ stdin' = Tail(stdin)
  /\ UNCHANGED <<phase, inputs, plan, source, environment, loaded, resident, alive, pipe, buffer, reply, store, evidence>>

WorkerReply(line) ==
  /\ pipe' = Append(pipe, line)
  /\ busy' = "none" /\ loaded' = NoBridge
  /\ UNCHANGED <<phase, inputs, plan, source, environment, stdin, alive, buffer, reply, evidence>>

\* ResidentQwen3CachedKVBridgeCache.load finds its entry's dependencies unchanged.
WorkerHitsCache ==
  /\ alive /\ busy \in Requests /\ loaded = NoBridge
  /\ \E entry \in resident : entry.files = replaced /\ loaded' = entry.bridge
  /\ UNCHANGED <<phase, inputs, plan, source, environment, stdin, busy, resident, alive, pipe, buffer, reply, store, evidence>>

\* It drops a stale entry and verifies the files on disk; the snapshot of their
\* metadata is taken only afterwards.
WorkerLoads ==
  /\ alive /\ busy \in Requests /\ loaded = NoBridge
  /\ \A entry \in resident : entry.files # replaced
  /\ resident' = {}
  /\ IF disk \in LoadableBridges
     THEN /\ loaded' = disk
          /\ UNCHANGED <<phase, inputs, plan, source, environment, stdin, busy, alive, pipe, buffer, reply, evidence>>
     ELSE WorkerReply(Fallback)
  /\ UNCHANGED store

WorkerSnapshots ==
  /\ alive /\ loaded # NoBridge /\ resident = {}
  /\ resident' = {[bridge |-> loaded, files |-> replaced]}
  /\ UNCHANGED <<phase, inputs, plan, source, environment, stdin, busy, loaded, alive, pipe, buffer, reply, store, evidence>>

\* preload_cached_qwen3_bridge.
WorkerPreloads ==
  /\ alive /\ busy = "preload" /\ loaded # NoBridge /\ resident # {}
  /\ WorkerReply(IF Bridge[loaded].manifest.direction = Direction THEN Preloaded ELSE Fallback)
  /\ UNCHANGED <<resident, store>>

\* materialize_cached_qwen3 publishes the whole request, or falls back and
\* removes what it stored.
WorkerMaterializes ==
  /\ alive /\ busy = "materialize" /\ loaded # NoBridge /\ resident # {}
  /\ UNCHANGED resident
  /\ \/ \E c \in candidate :
          /\ MayMaterialize(c, loaded)
          /\ Publish(RequestedChunks(c.hashes), loaded)
          /\ WorkerReply(Injected(RequestedChunks(c.hashes)))
     \/ WorkerReply(Fallback) /\ UNCHANGED store

\* The worker dies, perhaps between the puts, the publication and the reply.
WorkerDies ==
  /\ alive
  /\ alive' = FALSE
  /\ \/ UNCHANGED store
     \/ \E c \in candidate :
          /\ busy = "materialize" /\ loaded # NoBridge /\ resident # {}
          /\ MayMaterialize(c, loaded)
          /\ \/ Publish(RequestedChunks(c.hashes), loaded)
             \/ AbandonPuts(RequestedChunks(c.hashes))
  /\ busy' = "none" /\ stdin' = <<>> /\ loaded' = NoBridge /\ resident' = {}
  /\ UNCHANGED <<phase, inputs, plan, source, environment, pipe, buffer, reply, evidence>>

DriverStep ==
  \/ ReadManifest \/ PlanCachedKVRun \/ Preload \/ AwaitPreload
  \/ StartMooncakeServices \/ StartLMCacheServer \/ RunSourceAndNative \/ LookupSource
  \/ RequestMaterialization \/ AwaitMaterialization \/ MaterializeInSubprocess
  \/ ChooseTarget \/ RunTarget \/ Evaluate \/ Abort \/ StopServices \/ Close

WorkerStep ==
  \/ WorkerTake \/ WorkerHitsCache \/ WorkerLoads \/ WorkerSnapshots
  \/ WorkerPreloads \/ WorkerMaterializes \/ WorkerDies

Next == DriverStep \/ WorkerStep \/ ReplaceBridge

Spec == Init /\ [][Next]_vars

\* The driver is one thread whose only unbounded wait is bounded by select's
\* time limit; nothing is assumed of the worker, which may hang.
FairSpec == Spec /\ WF_vars(DriverStep)

-----------------------------------------------------------------------------
Names == DOMAIN Bridge \union {NoBridge}

TypeOK ==
  /\ phase \in Phases
  /\ running \subseteq held /\ held \subseteq Services
  /\ planned \in Names /\ disk \in DOMAIN Bridge /\ replaced \in 0..MaxReplacements
  /\ executable \in BOOLEAN /\ alive \in BOOLEAN /\ (alive => settings.resident)
  /\ stdin \in Seq(Requests) /\ busy \in Requests \union {"none"}
  /\ loaded \in Names /\ (loaded # NoBridge => busy # "none")
  /\ \A line \in Range(pipe) \union Range(buffer) \union {reply} :
       line \in {Fallback, Preloaded} \/ line = Injected(line.keys)
  /\ Len(stdin) + Len(pipe) + Len(buffer) + (IF busy = "none" THEN 0 ELSE 1) <= 2
  /\ {p.hash : p \in published} \union prior \subseteq stored
  /\ metric \subseteq {external}
  /\ targetPhase \in {"none", "target_reuse", "target_fallback"}
  /\ status \in {"none", "cross_model_reuse_success", "quality_validation_failed",
                 "runtime_validation_failed", "fallback"}

\* Every chunk was published by this run, from an approved bridge for these two
\* models and over no object of an earlier run.
PublishedHere(keys) ==
  \A h \in Range(keys) :
    /\ h \notin prior
    /\ \E p \in published : p.hash = h /\ p.bridge \in LoadableBridges

\* The target engine is started for reuse only when every chunk that was asked for
\* was published by this run's own request: the whole prefix the two prompts share,
\* or the first GE_MATERIALIZER_MAX_CHUNKS chunks of it. This holds even when the
\* client reads a reply of an earlier request that had timed out, and even when
\* the bridge files are replaced between the plan, the preload and the request.
ReuseFollowsPublication ==
  targetPhase = "target_reuse" =>
    /\ PublishedHere(reply.keys)
    /\ reply.keys # <<>> /\ IsPrefix(reply.keys, SharedChunks(prompts))
    /\ reply.keys = RequestedChunks(SharedChunks(prompts))

\* A run is recorded as a reuse success only when the target engine really took
\* exactly the tokens that this run published, all of them tokens of both
\* prompts.
SuccessIsConsumedReuse ==
  status = "cross_model_reuse_success" =>
     /\ targetPhase = "target_reuse" /\ PublishedHere(reply.keys)
     /\ external = Cardinality({p.hash : p \in published}) * ChunkSize
     /\ SubSeq(prompts.target, 1, external) = SubSeq(prompts.source, 1, external)


\* "Strict policy only reuses when the quality gate passes; otherwise target
\* vLLM falls back to local prefill": with no target objects of earlier runs and
\* a resident worker that has not died, a run that chose fallback consumes no
\* translated prefix (_run_materializer and ResidentMaterializerClient.request).
FallbackPrefillsLocally ==
  targetPhase = "target_fallback" /\ prior = {} /\ alive => external = 0
=============================================================================
