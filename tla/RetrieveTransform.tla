-------------------------- MODULE RetrieveTransform --------------------------
(***************************************************************************)
(* The selective direct-injection path of the v5 runtime: the scheduler    *)
(* half and the worker half of V5RetrieveTransformConnector, the injector  *)
(* that gates, reads, transforms and scatters source KV into vLLM's paged  *)
(* cache, the source reader it is bound to, and the block validity tracker *)
(* that hands failures back to vLLM.                                       *)
(*                                                                         *)
(* vLLM itself is not in this repository. What the connector relies on is  *)
(* modelled from its use and marked external: one synchronous engine step  *)
(* (schedule, load, forward, update), asynchronous external loads whose    *)
(* request waits until it is reported in finished_recving, recomputation   *)
(* of the blocks reported invalid, preemption and abort.                   *)
(*                                                                         *)
(* Data is abstracted to what the properties tell apart: a block records   *)
(* per layer the request whose KV it holds, time is a choice of whether a  *)
(* deadline has passed, and the prefix of a request is PrefixBlocks blocks.*)
(***************************************************************************)
EXTENDS Naturals, FiniteSets

CONSTANTS
    Requests,       \* target request ids
    Bound,          \* requests that carry v5 connector parameters
    Probe,          \* bound requests with inject_partial_failure set
    Blocks,         \* paged KV block ids
    PrefixBlocks,   \* blocks of an external prefix
    NumLayers,      \* layers of the target model
    NoRequest       \* the value None

ASSUME ConstantsAssumption ==
    /\ Bound \subseteq Requests
    /\ Probe \subseteq Bound
    /\ PrefixBlocks \in Nat \ {0}
    /\ NumLayers \in Nat \ {0}
    /\ NoRequest \notin Requests
    /\ IsFiniteSet(Blocks)

Layers == 1 .. NumLayers

VARIABLES
    \* vLLM engine (external)
    status,         \* life cycle of a request in the engine
    owned,          \* blocks the engine has allocated to a request
    computed,       \* where the KV of the prompt prefix comes from
    phase,          \* part of the engine step being executed
    page,           \* paged KV cache: block -> layer -> owner of its KV
    output,         \* ModelRunnerOutput: finished_recving, invalid blocks
    crashed,        \* a connector call raised and the engine died
    \* V5RetrieveTransformScheduler
    eligible, pending, claimed,
    slots,          \* slot mapping of the load metadata, as blocks
    gateEvent,      \* "gate" telemetry emitted for a request
    \* V5RetrieveTransformWorker
    todo,           \* metadata.requests not yet started
    active,         \* _active_request
    stage,          \* statement of start_load_kv / retrieve_transform
    layer,          \* layers scattered so far
    success,        \* result.success of the active item
    readTried,      \* requests whose result has source_read_attempted
    loadComplete,   \* _load_complete
    finishedRecving,\* _finished_recving
    \* RuntimeBlockValidityTracker and LMCacheMPSourceChunkReader
    valid, invalid,
    bound           \* request the source reader is bound to

engineVars    == <<status, owned, computed, page>>
schedulerVars == <<eligible, pending, claimed, slots, gateEvent>>
itemVars      == <<todo, active, stage, layer, success>>
trackerVars   == <<valid, invalid>>
reportVars    == <<readTried, loadComplete, finishedRecving>>
vars == <<engineVars, schedulerVars, itemVars, trackerVars, reportVars,
          bound, phase, output, crashed>>

Free == Blocks \ UNION {owned[r] : r \in Requests}

\* Every layer of every block of B holds the KV of r.
Holds(r, B) == \A b \in B, l \in Layers : page[b][l] = r

NoOutput == [finished |-> {}, invalid |-> {}]

Init ==
    /\ status = [r \in Requests |-> "waiting"]
    /\ owned = [r \in Requests |-> {}]
    /\ computed = [r \in Requests |-> "none"]
    /\ phase = "schedule"
    /\ page = [b \in Blocks |-> [l \in Layers |-> NoRequest]]
    /\ output = NoOutput
    /\ crashed = FALSE
    /\ eligible = {} /\ pending = {} /\ claimed = {}
    /\ slots = [r \in Requests |-> {}]
    /\ gateEvent = [r \in Requests |-> "none"]
    /\ todo = {} /\ active = NoRequest /\ stage = "idle"
    /\ layer = 0 /\ success = FALSE
    /\ readTried = {} /\ loadComplete = {} /\ finishedRecving = {}
    /\ valid = {} /\ invalid = {}
    /\ bound = NoRequest

-----------------------------------------------------------------------------
(* The scheduler half, called from the engine's schedule phase.            *)

Scheduling == ~crashed /\ phase = "schedule"

\* A call of the connector raised: the exception leaves the engine loop.
Crash == crashed' = TRUE

\* Mutant: the rejected branch forgets that rejection is final.
GateRequestKeepsRejected(r) ==
    /\ Scheduling
    /\ status[r] = "waiting" /\ computed[r] = "none"
    /\ r \in Bound /\ r \notin claimed /\ r \notin eligible
    /\ eligible' = eligible \cup {r}
    /\ \E d \in {"accepted", "rejected"} : gateEvent' = [gateEvent EXCEPT ![r] = d]
    /\ UNCHANGED <<engineVars, pending, claimed, slots, itemVars, trackerVars,
                   reportVars, bound, phase, output, crashed>>

\* First get_num_new_matched_tokens of a bound request: the gate is
\* evaluated once, its decision is emitted, and a rejected request (or one
\* whose decision differs from the frozen binding) is claimed for good.
GateRequest(r) ==
    /\ Scheduling
    /\ status[r] = "waiting" /\ computed[r] = "none"
    /\ r \in Bound /\ r \notin claimed /\ r \notin eligible
    /\ \/ /\ eligible' = eligible \cup {r}
          /\ gateEvent' = [gateEvent EXCEPT ![r] = "accepted"]
          /\ UNCHANGED <<claimed, crashed>>
       \/ /\ claimed' = claimed \cup {r}
          /\ gateEvent' = [gateEvent EXCEPT ![r] = "rejected"]
          /\ UNCHANGED <<eligible, crashed>>
       \/ /\ Crash                  \* telemetry or prefix binding failure
          /\ UNCHANGED <<eligible, claimed, gateEvent>>
    /\ UNCHANGED <<engineVars, pending, slots, itemVars, trackerVars,
                   reportVars, bound, phase, output>>

\* Mutant: the request is not claimed when its load is built.
UpdateStateAfterAllocUnclaimed(r) ==
    /\ Scheduling
    /\ status[r] = "waiting" /\ computed[r] = "none"
    /\ r \in eligible
    /\ \E B \in SUBSET Free :
          /\ Cardinality(B) = PrefixBlocks
          /\ owned' = [owned EXCEPT ![r] = B]
          /\ slots' = [slots EXCEPT ![r] = B]
    /\ status' = [status EXCEPT ![r] = "loading"]
    /\ eligible' = eligible \ {r}
    /\ pending' = pending \cup {r}
    /\ UNCHANGED <<computed, page, claimed, gateEvent, itemVars, trackerVars,
                   reportVars, bound, phase, output, crashed>>

\* get_num_new_matched_tokens answers from _eligible, vLLM allocates the
\* prefix blocks and update_state_after_alloc builds the load metadata. An
\* allocation that fails leaves the request eligible for the next step.
UpdateStateAfterAlloc(r) ==
    /\ Scheduling
    /\ status[r] = "waiting" /\ computed[r] = "none"
    /\ r \in eligible /\ r \notin claimed
    /\ \E B \in SUBSET Free :
          /\ Cardinality(B) = PrefixBlocks
          /\ owned' = [owned EXCEPT ![r] = B]
          /\ slots' = [slots EXCEPT ![r] = B]
    /\ status' = [status EXCEPT ![r] = "loading"]
    /\ eligible' = eligible \ {r}
    /\ pending' = pending \cup {r}
    /\ claimed' = claimed \cup {r}
    /\ UNCHANGED <<computed, page, gateEvent, itemVars, trackerVars,
                   reportVars, bound, phase, output, crashed>>

\* get_num_new_matched_tokens answers (0, False): the request is claimed or
\* has no connector parameters, and vLLM prefills it natively.
ScheduleNative(r) ==
    /\ Scheduling
    /\ status[r] = "waiting" /\ computed[r] = "none"
    /\ r \in claimed \/ r \notin Bound
    /\ \E B \in SUBSET Free :
          /\ Cardinality(B) = PrefixBlocks
          /\ owned' = [owned EXCEPT ![r] = B]
    /\ status' = [status EXCEPT ![r] = "running"]
    /\ UNCHANGED <<computed, page, schedulerVars, itemVars, trackerVars,
                   reportVars, bound, phase, output, crashed>>

\* A request whose external prefix arrived is scheduled like a prefix hit:
\* its computed tokens are not zero, so the connector is not asked again.
ScheduleLoaded(r) ==
    /\ Scheduling
    /\ status[r] = "waiting" /\ computed[r] = "external"
    /\ status' = [status EXCEPT ![r] = "running"]
    /\ UNCHANGED <<owned, computed, page, schedulerVars, itemVars,
                   trackerVars, reportVars, bound, phase, output, crashed>>

\* vLLM preempts a running request: its blocks are freed and it starts over.
Preempt(r) ==
    /\ Scheduling
    /\ status[r] = "running" /\ computed[r] # "none"
    /\ status' = [status EXCEPT ![r] = "waiting"]
    /\ owned' = [owned EXCEPT ![r] = {}]
    /\ computed' = [computed EXCEPT ![r] = "none"]
    /\ UNCHANGED <<page, schedulerVars, itemVars, trackerVars, reportVars,
                   bound, phase, output, crashed>>

\* Mutant: _pending is not cleared once its items are in the metadata.
BuildConnectorMetaKeepsPending ==
    /\ Scheduling
    /\ todo' = pending
    /\ phase' = "load"
    /\ UNCHANGED <<engineVars, schedulerVars, active, stage, layer, success,
                   trackerVars, reportVars, bound, output, crashed>>

\* The end of schedule(): the pending loads become the step's metadata.
BuildConnectorMeta ==
    /\ Scheduling
    /\ todo' = pending
    /\ pending' = {}
    /\ phase' = "load"
    /\ UNCHANGED <<engineVars, eligible, claimed, slots, gateEvent, active,
                   stage, layer, success, trackerVars, reportVars, bound,
                   output, crashed>>

\* request_finished drops every trace of the request in the scheduler half.
RequestFinished(r) ==
    /\ eligible' = eligible \ {r}
    /\ pending' = pending \ {r}
    /\ claimed' = claimed \ {r}
    /\ UNCHANGED <<slots, gateEvent>>

\* A running request produced its last token.
Finish(r) ==
    /\ Scheduling
    /\ status[r] = "running" /\ computed[r] # "none"
    /\ status' = [status EXCEPT ![r] = "done"]
    /\ owned' = [owned EXCEPT ![r] = {}]
    /\ computed' = [computed EXCEPT ![r] = "none"]
    /\ RequestFinished(r)
    /\ UNCHANGED <<page, itemVars, trackerVars, reportVars, bound, phase,
                   output, crashed>>

\* The client aborts. Aborts are taken between the calls of the engine step
\* (never inside schedule(), so no load is pending), also while the worker
\* loads; the blocks of a request still being loaded stay allocated until
\* the worker reports it in finished_recving.
Abort(r) ==
    /\ ~crashed /\ pending = {}
    /\ status[r] # "done"
    /\ status' = [status EXCEPT ![r] = "done"]
    /\ owned' = [owned EXCEPT ![r] = IF status[r] = "loading" THEN @ ELSE {}]
    /\ computed' = [computed EXCEPT ![r] = "none"]
    /\ RequestFinished(r)
    /\ UNCHANGED <<page, itemVars, trackerVars, reportVars, bound, phase,
                   output, crashed>>

-----------------------------------------------------------------------------
(* The worker half: start_load_kv runs the items of the metadata one by    *)
(* one. `stage` names the next statement of the active item.               *)

Loading == ~crashed /\ phase = "load"
At(s) == Loading /\ stage = s

MarkInvalid(B) == valid' = valid \ B /\ invalid' = invalid \cup B
MarkValid(B)   == invalid' = invalid \ B /\ valid' = valid \cup B

StartItem(r) ==
    /\ At("idle") /\ r \in todo
    /\ todo' = todo \ {r}
    /\ active' = r
    /\ stage' = "bind"
    /\ layer' = 0 /\ success' = FALSE
    /\ UNCHANGED <<engineVars, schedulerVars, trackerVars, reportVars, bound,
                   phase, output, crashed>>

\* reader.bind_request: refuses metadata it cannot validate, and a reader
\* that still serves another request. Without a binding there is nothing to
\* finish: the item is settled as a connector_worker_failure.
BindRequest ==
    /\ At("bind")
    /\ \/ /\ bound = NoRequest
          /\ bound' = active
          /\ stage' = "gate"
       \/ /\ stage' = "settle"
          /\ UNCHANGED bound
    /\ UNCHANGED <<engineVars, schedulerVars, todo, active, layer, success,
                   trackerVars, reportVars, phase, output, crashed>>

\* The worker's own evaluation of the gate and the checks of the request,
\* its sidecar and the page layout: each early return precedes the read.
EvaluateGate ==
    /\ At("gate")
    /\ stage' \in {"read", "finish"}
    /\ UNCHANGED <<engineVars, schedulerVars, todo, active, layer, success,
                   trackerVars, reportVars, bound, phase, output, crashed>>

\* read_many_exact: all chunks before the deadline, or an exception.
ReadManyExact ==
    /\ At("read")
    /\ readTried' = readTried \cup {active}
    /\ stage' \in {"decode", "fail"}
    /\ UNCHANGED <<engineVars, schedulerVars, todo, active, layer, success,
                   trackerVars, loadComplete, finishedRecving, bound, phase,
                   output, crashed>>

\* Decode and checksum every chunk, then take all target blocks out of
\* validity before anything is written to them.
DecodeAndInvalidate ==
    /\ At("decode")
    /\ \/ stage' = "transform" /\ MarkInvalid(slots[active])
       \/ stage' = "fail" /\ UNCHANGED trackerVars
    /\ UNCHANGED <<engineVars, schedulerVars, todo, active, layer, success,
                   reportVars, bound, phase, output, crashed>>

Transform ==
    /\ At("transform")
    /\ stage' \in {"scatter", "fail"}
    /\ UNCHANGED <<engineVars, schedulerVars, todo, active, layer, success,
                   trackerVars, reportVars, bound, phase, output, crashed>>

\* Mutant: one layer too many.
ScatterLayerOffByOne ==
    /\ At("scatter") /\ layer <= NumLayers
    /\ layer' = layer + 1
    /\ page' = [b \in Blocks |->
                  IF b \in slots[active]
                    THEN [page[b] EXCEPT ![layer + 1] = active] ELSE page[b]]
    /\ UNCHANGED <<status, owned, computed, schedulerVars, todo, active, stage,
                   success, trackerVars, reportVars, bound, phase, output,
                   crashed>>

\* scatter_paged_kv writes layer after layer and may raise before any of
\* them; a failure probe writes the first layer and raises.
ScatterLayer ==
    /\ At("scatter") /\ layer < NumLayers
    /\ \/ /\ ~(active \in Probe /\ layer = 1)
          /\ layer' = layer + 1
          /\ page' = [b \in Blocks |->
                        IF b \in slots[active]
                          THEN [page[b] EXCEPT ![layer + 1] = active]
                          ELSE page[b]]
          /\ UNCHANGED stage
       \/ /\ active \in Probe => layer = 1
          /\ stage' = "fail"
          /\ UNCHANGED <<layer, page>>
    /\ UNCHANGED <<status, owned, computed, schedulerVars, todo, active,
                   success, trackerVars, reportVars, bound, phase, output,
                   crashed>>

\* Mutant: pages become valid as soon as one layer is written.
MarkLoadedEarly ==
    /\ At("scatter") /\ layer > 0
    /\ stage' = "publish" /\ MarkValid(slots[active])
    /\ UNCHANGED <<engineVars, schedulerVars, todo, active, layer, success,
                   reportVars, bound, phase, output, crashed>>

\* After the last layer: deadline, block set and stream synchronization.
MarkLoaded ==
    /\ At("scatter") /\ layer = NumLayers
    /\ \/ /\ active \notin Probe
          /\ stage' = "publish" /\ MarkValid(slots[active])
       \/ /\ stage' = "fail" /\ UNCHANGED trackerVars
    /\ UNCHANGED <<engineVars, schedulerVars, todo, active, layer, success,
                   reportVars, bound, phase, output, crashed>>

\* _publish_load_complete raises when the target was published before.
PublishLoadComplete ==
    /\ At("publish")
    /\ stage' = IF active \in loadComplete THEN "fail" ELSE "finish"
    /\ success' = (active \notin loadComplete)
    /\ loadComplete' = loadComplete \cup {active}
    /\ UNCHANGED <<engineVars, schedulerVars, todo, active, layer,
                   trackerVars, readTried, finishedRecving, bound, phase,
                   output, crashed>>

\* The injector's exception handler.
InjectionFailed ==
    /\ At("fail")
    /\ MarkInvalid(slots[active])
    /\ stage' = "finish"
    /\ UNCHANGED <<engineVars, schedulerVars, todo, active, layer, success,
                   reportVars, bound, phase, output, crashed>>

\* Mutant: END_SESSION is sent before the reader is released.
FinishRequestReleasesLast ==
    /\ At("finish")
    /\ \/ bound' = NoRequest /\ UNCHANGED success
       \/ UNCHANGED bound /\ success' = FALSE
    /\ stage' = "settle"
    /\ UNCHANGED <<engineVars, schedulerVars, todo, active, layer,
                   trackerVars, reportVars, phase, output, crashed>>

\* reader.finish_request in the finally block: the reader is released before
\* END_SESSION is sent, whose failure turns the result into a worker error;
\* a reader bound to another request refuses and stays bound.
FinishRequest ==
    /\ At("finish")
    /\ bound' = IF bound = active THEN NoRequest ELSE bound
    /\ success' \in {success /\ bound = active, FALSE}
    /\ stage' = "settle"
    /\ UNCHANGED <<engineVars, schedulerVars, todo, active, layer,
                   trackerVars, reportVars, phase, output, crashed>>

\* Mutant: only the blocks the injector invalidated itself are invalid, so
\* an early return before the read invalidates none.
SettleTrustsInjector ==
    /\ At("settle")
    /\ finishedRecving' = finishedRecving \cup {active}
    /\ stage' = "idle" /\ active' = NoRequest
    /\ UNCHANGED <<engineVars, schedulerVars, todo, layer, success, trackerVars,
                   readTried, loadComplete, bound, phase, output, crashed>>

\* Mutant: only successful loads are reported.
SettleReportsSuccessOnly ==
    /\ At("settle")
    /\ IF success THEN UNCHANGED trackerVars ELSE MarkInvalid(slots[active])
    /\ finishedRecving' = finishedRecving \cup IF success THEN {active} ELSE {}
    /\ stage' = "idle" /\ active' = NoRequest
    /\ UNCHANGED <<engineVars, schedulerVars, todo, layer, success,
                   readTried, loadComplete, bound, phase, output, crashed>>

\* The tail of the item: every failure invalidates the request's blocks, the
\* execution event is emitted (or the emitter raises and the engine dies),
\* and the target is reported in finished_recving.
Settle ==
    /\ At("settle")
    /\ IF success THEN UNCHANGED trackerVars ELSE MarkInvalid(slots[active])
    /\ \/ /\ finishedRecving' = finishedRecving \cup {active}
          /\ stage' = "idle" /\ active' = NoRequest
          /\ UNCHANGED crashed
       \/ /\ Crash
          /\ UNCHANGED <<finishedRecving, stage, active>>
    /\ UNCHANGED <<engineVars, schedulerVars, todo, layer, success,
                   readTried, loadComplete, bound, phase, output>>

-----------------------------------------------------------------------------
(* The rest of the engine step (external), with the two drains the         *)
(* connector answers in it.                                                *)

Running == {r \in Requests : status[r] = "running"}
Prefilling == {r \in Running : computed[r] = "none"}

Computed == [r \in Requests |->
               IF r \in Prefilling THEN "native" ELSE computed[r]]
Prefilled == [b \in Blocks |->
                IF \E r \in Prefilling : b \in owned[r]
                  THEN [l \in Layers |->
                          CHOOSE r \in Prefilling : b \in owned[r]]
                  ELSE page[b]]

\* Mutant: drain_invalid returns the invalid blocks and keeps them.
ForwardKeepsInvalid ==
    /\ Loading /\ stage = "idle" /\ todo = {}
    /\ page' = Prefilled /\ computed' = Computed
    /\ output' = [finished |-> finishedRecving, invalid |-> invalid]
    /\ finishedRecving' = {}
    /\ phase' = "update"
    /\ UNCHANGED <<status, owned, schedulerVars, itemVars, readTried,
                   loadComplete, trackerVars, bound, crashed>>

\* Mutant: get_finished leaves out the requests vLLM says are finished.
ForwardSkipsAborted ==
    /\ Loading /\ stage = "idle" /\ todo = {}
    /\ page' = Prefilled /\ computed' = Computed
    /\ output' = [finished |-> {r \in finishedRecving : status[r] # "done"},
                  invalid |-> invalid]
    /\ finishedRecving' = {} /\ invalid' = {}
    /\ phase' = "update"
    /\ UNCHANGED <<status, owned, schedulerVars, itemVars, readTried,
                   loadComplete, valid, bound, crashed>>

\* The forward pass prefills natively where no KV is computed and reads the
\* rest; then get_finished and get_block_ids_with_load_errors are drained.
Forward ==
    /\ Loading /\ stage = "idle" /\ todo = {}
    /\ page' = Prefilled /\ computed' = Computed
    /\ output' = [finished |-> finishedRecving, invalid |-> invalid]
    /\ finishedRecving' = {}
    /\ invalid' = {}
    /\ phase' = "update"
    /\ UNCHANGED <<status, owned, schedulerVars, itemVars, readTried,
                   loadComplete, valid, bound, crashed>>

Failed(r) == owned[r] \cap output.invalid # {}

\* update_from_output under kv_load_failure_policy = "recompute".
\* A loading request that was reported becomes schedulable: with its prefix
\* when none of its blocks is invalid, from token zero otherwise. An aborted
\* one gives its blocks back. A running request with an invalid block has
\* its prefix computed again in place.
UpdateFromOutput ==
    /\ ~crashed /\ phase = "update"
    /\ LET loaded == {r \in output.finished : status[r] = "loading" /\ ~Failed(r)}
           fell == {r \in output.finished : status[r] = "loading" /\ Failed(r)}
           aborted == {r \in output.finished : status[r] = "done"}
           redo == {r \in Running : Failed(r)}
       IN /\ status' = [r \in Requests |->
                          IF r \in loaded \cup fell THEN "waiting" ELSE status[r]]
          /\ owned' = [r \in Requests |->
                         IF r \in fell \cup aborted THEN {} ELSE owned[r]]
          /\ computed' = [r \in Requests |->
                            CASE r \in loaded -> "external"
                              [] r \in redo   -> "none"
                              [] OTHER        -> computed[r]]
    /\ output' = NoOutput
    /\ phase' = "schedule"
    /\ UNCHANGED <<page, schedulerVars, itemVars, trackerVars, reportVars,
                   bound, crashed>>

\* A dead engine takes no step.
Halted == crashed /\ UNCHANGED vars

-----------------------------------------------------------------------------
WorkerStep ==
    \/ \E r \in Requests : StartItem(r)
    \/ BindRequest \/ EvaluateGate \/ ReadManyExact \/ DecodeAndInvalidate
    \/ Transform \/ ScatterLayer \/ MarkLoaded \/ PublishLoadComplete
    \/ InjectionFailed \/ FinishRequest \/ Settle

RequestStep(r) ==
    \/ GateRequest(r) \/ UpdateStateAfterAlloc(r) \/ ScheduleNative(r)
    \/ ScheduleLoaded(r) \/ Preempt(r) \/ Finish(r) \/ Abort(r)

EngineStep == BuildConnectorMeta \/ Forward \/ UpdateFromOutput

Next ==
    \/ \E r \in Requests : RequestStep(r)
    \/ WorkerStep
    \/ EngineStep
    \/ Halted

Spec == Init /\ [][Next]_vars

\* The engine loop never stops stepping, and every statement of the worker
\* returns or raises: reads, RPCs and telemetry carry a deadline.
FairSpec == Spec /\ WF_vars(WorkerStep) /\ WF_vars(EngineStep)

-----------------------------------------------------------------------------
(* Refinement: the prefix of a request as the decoder sees it.             *)

Prefix(r) ==
    CASE status[r] = "done" -> "gone"
      [] status[r] = "loading" -> "loading"
      [] status[r] \in {"waiting", "running"} ->
           CASE computed[r] = "external" ->
                    IF Holds(r, owned[r]) THEN "external" ELSE "torn"
             [] computed[r] = "native" -> "native"
             [] computed[r] = "none" -> "absent"

Load == INSTANCE AtomicLoad
            WITH prefix <- [r \in Requests |-> Prefix(r)],
                 offered <- {r \in Requests : slots[r] # {}}

\* The connector with vLLM implements the atomic load: no interleaving of
\* layer writes, failures, preemptions and aborts shows the decoder a torn
\* prefix, or starts a second load of a request.
ImplementsAtomicLoad == Load!Spec

-----------------------------------------------------------------------------
(* Properties.                                                             *)

Statuses == {"waiting", "loading", "running", "done"}
Stages == {"idle", "bind", "gate", "read", "decode", "transform", "scatter",
           "publish", "fail", "finish", "settle"}

\* Every variable of the engine, the scheduler half, the worker half, the
\* tracker and the reader keeps the type the code gives it.
TypeOK ==
    /\ status \in [Requests -> Statuses]
    /\ owned \in [Requests -> SUBSET Blocks]
    /\ computed \in [Requests -> {"none", "external", "native"}]
    /\ phase \in {"schedule", "load", "update"}
    /\ page \in [Blocks -> [Layers -> Requests \cup {NoRequest}]]
    /\ output \in [finished : SUBSET Requests, invalid : SUBSET Blocks]
    /\ crashed \in BOOLEAN
    /\ eligible \in SUBSET Requests
    /\ pending \in SUBSET Requests
    /\ claimed \in SUBSET Requests
    /\ slots \in [Requests -> SUBSET Blocks]
    /\ gateEvent \in [Requests -> {"none", "accepted", "rejected"}]
    /\ todo \in SUBSET Requests
    /\ active \in Requests \cup {NoRequest}
    /\ stage \in Stages
    /\ layer \in 0 .. NumLayers
    /\ success \in BOOLEAN
    /\ readTried \in SUBSET Requests
    /\ loadComplete \in SUBSET Requests
    /\ finishedRecving \in SUBSET Requests
    /\ valid \in SUBSET Blocks
    /\ invalid \in SUBSET Blocks
    /\ bound \in Requests \cup {NoRequest}

\* A decode path never consumes partially written pages: whenever vLLM counts
\* the external prefix of a request as computed, every layer of every block
\* of that prefix holds the KV of that very request. The scatter writes layer
\* by layer, any statement of the worker may fail, clients abort while the
\* worker writes, and freed blocks go to other requests in between.
NoPartialDecode ==
    \A r \in Requests : computed[r] = "external" => Holds(r, owned[r])

\* The worker scatters only into blocks its request still holds in the
\* engine, also when the client aborted after the metadata was built: no
\* other request can have been given a block that is still being written.
WritesOnlyHeldBlocks ==
    active # NoRequest =>
        /\ slots[active] = owned[active]
        /\ \A r \in Requests \ {active} : slots[active] \cap owned[r] = {}

\* finished_recving and the invalid blocks travel in the same engine step:
\* a reported load either left all its layers in place, or all its blocks
\* are in the very output that reports it.
OutcomeTravelsWithReport ==
    \A r \in output.finished :
        \/ slots[r] \subseteq output.invalid
        \/ slots[r] \cap output.invalid = {} /\ Holds(r, slots[r])

\* An invalid block reaches the engine in the step that reports the load it
\* belongs to and in no later one, when the block may already hold the valid
\* KV of another request that would be thrown away and computed again.
NoStaleInvalidation ==
    output.invalid \subseteq UNION {slots[r] : r \in output.finished}

\* A failure of one item, END_SESSION included, never leaves the source reader
\* bound: the next bind_request would be refused, and every later request of
\* this worker would fall back.
ReaderFreeBetweenItems ==
    stage \in {"idle", "bind"} => bound = NoRequest

\* Rejected requests must not read source KV: a read follows an accepting
\* gate event, also for a request that was preempted, asked again, or aborted
\* before its load started.
RejectedNeverReads ==
    \A r \in readTried : gateEvent[r] = "accepted"

\* The connector offers the source prefix once: a request whose load ended,
\* in success or in failure, is never handed to the worker again, although a
\* preempted or failed request is scheduled from token zero and asks again.
LoadedOnce ==
    [][\A r \in Requests :
         r \in pending' \ pending => slots[r] = {} /\ r \notin loadComplete]_vars

\* Every load handed to vLLM ends: the request leaves the waiting-for-remote
\* state, whatever fails in the worker, unless the engine died.
LoadResolves ==
    \A r \in Requests :
        status[r] = "loading" ~> (status[r] # "loading" \/ crashed)

\* The blocks of a request aborted during its load are given back: the
\* worker reports finished_recving for it although nobody waits for it.
AbortReleasesBlocks ==
    \A r \in Requests :
        (status[r] = "done" /\ owned[r] # {}) ~> (owned[r] = {} \/ crashed)
=============================================================================
