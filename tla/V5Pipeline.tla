------------------------------ MODULE V5Pipeline ------------------------------
(***************************************************************************)
(* V5PipelineWorkspace: the evidence pipeline's stages, run by command     *)
(* line processes that share one workspace directory.  A process leases a  *)
(* stage under the state lock, works in the stage's work directory,        *)
(* publishes its report and its manifest as immutable objects, writes a    *)
(* receipt, and only then marks the stage completed.  Any process may      *)
(* crash at any step, and another may reclaim the stage while the first    *)
(* one still runs.  open_semantic_sealed_once reads the sealed payload     *)
(* once, behind an exclusive marker file.                                  *)
(***************************************************************************)
EXTENDS Integers, FiniteSets

CONSTANTS Workers,      \* command line processes
          Directions,   \* REQUIRED_QWEN3_DIRECTIONS
          Screening,    \* SCREENING_DIRECTION, qwen3_4b_to_8b
          Parameters,   \* per key, the parameters a process may pass (bound: none
                        \* for a stage that no process begins)
          Prior,        \* state.json the run starts from: per key its record
          MaxResumes,   \* bound: attempts that reclaim a stage, over all stages
          MaxDown       \* bound: stages down (failed, or running in no process) at once

CollectStages ==
  {"collect_transport_train", "collect_method_dev", "collect_selector_train",
   "collect_risk_calibration", "collect_validation", "collect_runtime_audit"}

Stages == CollectStages \union
  {"fit_transport", "evaluate_method_dev", "fit_risk", "calibrate", "validate",
   "semantic_sealed", "runtime_audit"}

\* Stages whose manifest binds a report; the others bind the shards or weights
\* that they have published before.
Reporting == Stages \ (CollectStages \union {"fit_transport"})

Keys == Directions \X Stages

\* STAGE_DEPENDENCIES within one direction.
OwnDependencies(s) ==
  CASE s = "fit_transport"       -> {"collect_transport_train"}
    [] s = "evaluate_method_dev" -> {"fit_transport", "collect_method_dev"}
    [] s = "fit_risk"            -> {"fit_transport", "collect_selector_train"}
    [] s = "calibrate"           -> {"fit_risk", "collect_risk_calibration"}
    [] s = "validate"            -> {"calibrate", "collect_validation"}
    [] s = "semantic_sealed"     -> {"validate"}
    [] s = "runtime_audit"       -> {"semantic_sealed", "collect_runtime_audit"}
    [] OTHER                     -> {}

Structure == <<Screening, "evaluate_method_dev">>

\* Non-screening fits and every validation also depend on the frozen structure.
Dependencies(k) ==
  {<<k[1], s>> : s \in OwnDependencies(k[2])} \union
  (IF k[2] = "validate" \/ (k[2] = "fit_transport" /\ k[1] # Screening)
   THEN {Structure} ELSE {})

\* What run_*_stage loads before it begins: fit_risk needs the frozen structure too.
Loaded(k) == Dependencies(k) \union (IF k[2] = "fit_risk" THEN {Structure} ELSE {})

\* _stage_output_binding: the upstream input and its output hashes.
Binding(record) == [input |-> record.input, outputs |-> record.outputs]

\* A stage that has not begun has no entry in state.json: its status is "absent".
Record(status, input, attempt, outputs) ==
  [status |-> status, input |-> input, attempt |-> attempt, outputs |-> outputs]

NoOutputs == [report |-> 0, manifest |-> 0]
Absent == Record("absent", [parameters |-> 0, dependencies |-> <<>>], 0, NoOutputs)

\* What a first attempt alone completes with.
FirstOutputs(k) == [report |-> IF k[2] \in Reporting THEN 1 ELSE 0, manifest |-> 1]

ASSUME WorkspaceAssumption ==
  /\ Screening \in Directions
  /\ DOMAIN Prior = Keys
  /\ \A k \in Keys : Prior[k] # Absent =>
       /\ Prior[k] = Record("completed", Prior[k].input, 1, FirstOutputs(k))
       /\ k[2] \notin {"semantic_sealed", "runtime_audit"}
       /\ \A d \in Loaded(k) : Prior[d] # Absent
       /\ \A d \in Dependencies(k) : Prior[k].input.dependencies[d] = Binding(Prior[d])
  /\ MaxResumes \in Nat /\ MaxDown \in Nat

VARIABLES stages,      \* state.json: per key its record
          work,        \* per key, the report and manifest in its work directory
          objects,     \* published immutable objects
          receipts,    \* published stage receipts
          workers,     \* per process its step and what it holds in memory
          marker,      \* semantic_sealed.opened.json: its state
          snapshot,    \* whether the sealed snapshot is published
          openReceipt, \* the open receipt: per direction the outputs it binds
          payloadReads \* times the sealed payload has been read

vars == <<stages, work, objects, receipts, workers, marker, snapshot, openReceipt, payloadReads>>
ledger == <<stages, work, objects, receipts>>
seal == <<marker, snapshot, openReceipt, payloadReads>>

(* A report's content is the attempt that wrote it: reports hold measured  *)
(* times, so attempts that overlap write different bytes.  A manifest's    *)
(* content is the report, shards or weights it binds.  An object is named  *)
(* by its content.                                                         *)
Outputs == [report : Nat, manifest : Nat]
Object(k, slot, content) == [key |-> k, slot |-> slot, content |-> content]
Receipt(k, attempt, outputs) == [key |-> k, attempt |-> attempt, outputs |-> outputs]

NoReceipt == [d \in Directions |-> NoOutputs]

\* An idle process holds nothing; its key is arbitrary.
Idle == [pc |-> "idle", key |-> Structure, attempt |-> 0, bound |-> 0, outputs |-> NoOutputs,
         gate |-> NoReceipt]

Has(k) == stages[k].status # "absent"
Completed(k) == Has(k) /\ stages[k].status = "completed"

\* load_completed_*: the manifest of a completed stage binds its report.
Loadable(k) ==
  /\ Completed(k)
  /\ k[2] \in Reporting => stages[k].outputs.manifest = stages[k].outputs.report

\* What the stage's input hash covers.
Input(k, parameters) ==
  [parameters |-> parameters, dependencies |-> [d \in Dependencies(k) |-> Binding(stages[d])]]

\* Keys completed before the run starts.
PriorKeys == {k \in Keys : Prior[k] # Absent}

\* A created workspace, or one in which some stages have been completed.
Init ==
  /\ stages = Prior
  /\ work = [k \in Keys |-> Prior[k].outputs]
  /\ objects = {Object(k, slot, 1) : k \in PriorKeys, slot \in {"report", "manifest"}}
  /\ receipts = {Receipt(k, 1, Prior[k].outputs) : k \in PriorKeys}
  /\ workers = [w \in Workers |-> Idle]
  /\ marker = "absent" /\ snapshot = FALSE /\ openReceipt = NoReceipt /\ payloadReads = 0

-----------------------------------------------------------------------------
Holds(w, k) == workers[w].key = k /\ workers[w].attempt = stages[k].attempt

Down == {k \in Keys : /\ Has(k) /\ stages[k].status # "completed"
                      /\ ~\E w \in Workers : Holds(w, k)}

\* Attempts beyond the first of each stage.
Resumes ==
  Cardinality({r \in Keys \X (2..MaxResumes + 1) : r[2] <= stages[r[1]].attempt})

\* _verify_semantic_stage_guard and run_semantic_stage: opened marker, receipt
\* and snapshot exist, and the receipt binds the direction's own validation.
SemanticGuard(d) ==
  /\ marker = "opened" /\ snapshot
  /\ openReceipt[d] = stages[<<d, "validate">>].outputs

\* Mutant: a dependency may be running or failed.
AllowedLoosely(k) ==
  /\ k[2] = "evaluate_method_dev" => k[1] = Screening
  /\ \A d \in Dependencies(k) : Has(d)
  /\ k[2] = "semantic_sealed" => SemanticGuard(k[1])

\* Mutant: the sealed stage is a stage like the others.
AllowedUnsealed(k) ==
  /\ k[2] = "evaluate_method_dev" => k[1] = Screening
  /\ \A d \in Loaded(k) : Loadable(d)

\* What run_*_stage loads, and the checks of _begin_stage before it looks at the
\* stage's own record.  A completed record never changes: one step reads all.
Allowed(k) ==
  /\ k[2] = "evaluate_method_dev" => k[1] = Screening
  /\ \A d \in Loaded(k) : Loadable(d)
  /\ k[2] = "semantic_sealed" => SemanticGuard(k[1])

Lease(w, k, attempt) ==
  workers' = [workers EXCEPT ![w] = [Idle EXCEPT !.pc = "leased", !.key = k, !.attempt = attempt]]

\* A first attempt.
BeginStage(w, k, p) ==
  /\ workers[w].pc = "idle" /\ Allowed(k) /\ ~Has(k)
  /\ stages' = [stages EXCEPT ![k] = Record("running", Input(k, p), 1, NoOutputs)]
  /\ Lease(w, k, 1)
  /\ UNCHANGED <<work, objects, receipts, seal>>

\* Mutant: the reclaimed stage takes whatever input the new attempt brings.
ResumeStageNewInput(w, k, p) ==
  /\ workers[w].pc = "idle" /\ Allowed(k)
  /\ Has(k) /\ stages[k].status # "completed"
  /\ Resumes < MaxResumes
  /\ stages' = [stages EXCEPT ![k] =
                  Record("running", Input(k, p), stages[k].attempt + 1, NoOutputs)]
  /\ Lease(w, k, stages[k].attempt + 1)
  /\ UNCHANGED <<work, objects, receipts, seal>>

\* resume=True reclaims a failed stage, and a running one whether or not its
\* process still lives, when the input is the first attempt's.  A completed
\* stage is reused or refused: nothing changes.
ResumeStage(w, k, p) ==
  /\ workers[w].pc = "idle" /\ Allowed(k)
  /\ Has(k) /\ stages[k].status # "completed" /\ stages[k].input = Input(k, p)
  /\ Resumes < MaxResumes
  /\ stages' = [stages EXCEPT ![k] =
                  Record("running", Input(k, p), stages[k].attempt + 1, NoOutputs)]
  /\ Lease(w, k, stages[k].attempt + 1)
  /\ UNCHANGED <<work, objects, receipts, seal>>

-----------------------------------------------------------------------------
\* A process takes one step of its stage, from one pc to the next.
Step(w, from, to) ==
  /\ workers[w].pc = from
  /\ workers' = [workers EXCEPT ![w].pc = to]

\* A collection or fit publishes its shards or weights; the manifest will bind them.
PublishData(w) ==
  LET k == workers[w].key
  IN  /\ workers[w].pc = "leased" /\ k[2] \notin Reporting
      /\ objects' = objects \union {Object(k, "report", workers[w].attempt)}
      /\ workers' = [workers EXCEPT ![w].pc = "hashed", ![w].bound = workers[w].attempt]
      /\ UNCHANGED <<stages, work, receipts, seal>>

\* The report replaces the one in the work directory, whoever wrote that.
WriteReport(w) ==
  /\ workers[w].key[2] \in Reporting
  /\ Step(w, "leased", "reported")
  /\ work' = [work EXCEPT ![workers[w].key].report = workers[w].attempt]
  /\ UNCHANGED <<stages, objects, receipts, seal>>

\* The report file is hashed.
HashReport(w) ==
  /\ workers[w].pc = "reported"
  /\ workers' = [workers EXCEPT ![w].pc = "hashed",
                                ![w].bound = work[workers[w].key].report]
  /\ UNCHANGED <<ledger, seal>>

\* The manifest, or frozen structure, that binds the hashed report is written.
WriteManifest(w) ==
  /\ Step(w, "hashed", "manifested")
  /\ work' = [work EXCEPT ![workers[w].key].manifest = workers[w].bound]
  /\ UNCHANGED <<stages, objects, receipts, seal>>

\* publish_file copies what the work directory holds now.
Publish(w, slot, from, to) ==
  LET k == workers[w].key
  IN  /\ workers[w].pc = from
      /\ objects' = objects \union {Object(k, slot, work[k][slot])}
      /\ workers' = [workers EXCEPT ![w].pc = to, ![w].outputs[slot] = work[k][slot]]
      /\ UNCHANGED <<stages, work, receipts, seal>>

PublishReport(w) ==
  /\ workers[w].key[2] \in Reporting
  /\ Publish(w, "report", "manifested", "report_published")

PublishManifest(w) ==
  \/ /\ workers[w].key[2] \in Reporting
     /\ Publish(w, "manifest", "report_published", "published")
  \/ /\ workers[w].key[2] \notin Reporting
     /\ Publish(w, "manifest", "manifested", "published")

\* Mutant: the receipt is only prepared in memory.
SkipReceipt(w) ==
  /\ Step(w, "published", "receipted")
  /\ UNCHANGED <<ledger, seal>>

WriteReceipt(w) ==
  /\ Step(w, "published", "receipted")
  /\ receipts' = receipts \union
       {Receipt(workers[w].key, workers[w].attempt, workers[w].outputs)}
  /\ UNCHANGED <<stages, work, objects, seal>>

\* Mutant: any lease on the stage may change its record.
AnyLease(w) == Has(workers[w].key)

\* _require_current_lease
CurrentLease(w) ==
  LET k == workers[w].key
  IN  Has(k) /\ stages[k].status = "running" /\ stages[k].attempt = workers[w].attempt

Exit(w) == workers' = [workers EXCEPT ![w] = Idle]

\* The end of complete_stage, under the lock.
CompleteStage(w) ==
  /\ workers[w].pc = "receipted" /\ CurrentLease(w)
  /\ stages' = [stages EXCEPT ![workers[w].key].status = "completed",
                              ![workers[w].key].outputs = workers[w].outputs]
  /\ Exit(w)
  /\ UNCHANGED <<work, objects, receipts, seal>>

StageSteps == {"leased", "reported", "hashed", "manifested", "report_published", "published",
               "receipted"}

\* An exception in the stage: fail_stage, if the lease is still current.
FailStage(w) ==
  /\ workers[w].pc \in StageSteps /\ CurrentLease(w) /\ Cardinality(Down) < MaxDown
  /\ stages' = [stages EXCEPT ![workers[w].key].status = "failed"]
  /\ Exit(w)
  /\ UNCHANGED <<work, objects, receipts, seal>>

\* complete_stage or fail_stage of a superseded lease raises.
LoseLease(w) ==
  /\ workers[w].pc \in StageSteps /\ ~CurrentLease(w)
  /\ Exit(w)
  /\ UNCHANGED <<ledger, seal>>

\* A process dies; what it held in memory is gone.
Crash(w) ==
  /\ workers[w].pc # "idle" /\ Cardinality(Down) < MaxDown
  /\ Exit(w)
  /\ UNCHANGED <<ledger, seal>>

-----------------------------------------------------------------------------
\* Mutant: the screening direction's validation stands for all.
GatePassesEarly == Completed(<<Screening, "validate">>)

\* Every direction's validation is completed and loads.
GatePasses == \A d \in Directions : Loadable(<<d, "validate">>)

\* open_semantic_sealed_once loads the validations and looks for leftovers of
\* an opening without a marker.
CheckGate(w) ==
  /\ workers[w].pc = "idle" /\ GatePasses
  /\ marker = "absent" => ~snapshot /\ openReceipt = NoReceipt
  /\ workers' = [workers EXCEPT ![w] =
       [Idle EXCEPT !.pc = "gated",
                    !.gate = [d \in Directions |-> IF Completed(<<d, "validate">>)
                                                   THEN stages[<<d, "validate">>].outputs
                                                   ELSE NoOutputs]]]
  /\ UNCHANGED <<ledger, seal>>

\* Mutant: the marker is opened without O_EXCL.
CreateMarkerShared(w) ==
  /\ Step(w, "gated", "opening")
  /\ marker' = "opening"
  /\ UNCHANGED <<ledger, snapshot, openReceipt, payloadReads>>

\* The marker is created exclusively, before the payload is read.
CreateMarker(w) ==
  /\ marker = "absent"
  /\ Step(w, "gated", "opening")
  /\ marker' = "opening"
  /\ UNCHANGED <<ledger, snapshot, openReceipt, payloadReads>>

AlreadyOpened(w) ==
  /\ workers[w].pc = "gated" /\ marker # "absent"
  /\ Exit(w)
  /\ UNCHANGED <<ledger, seal>>

ReadPayload(w) ==
  /\ Step(w, "opening", "read")
  /\ payloadReads' = payloadReads + 1
  /\ UNCHANGED <<ledger, marker, snapshot, openReceipt>>

PublishSnapshot(w) ==
  /\ ~snapshot
  /\ Step(w, "read", "snapshotted")
  /\ snapshot' = TRUE
  /\ UNCHANGED <<ledger, marker, openReceipt, payloadReads>>

PublishOpenReceipt(w) ==
  /\ openReceipt = NoReceipt
  /\ Step(w, "snapshotted", "bound")
  /\ openReceipt' = workers[w].gate
  /\ UNCHANGED <<ledger, marker, snapshot, payloadReads>>

MarkOpened(w) ==
  /\ workers[w].pc = "bound"
  /\ marker' = "opened"
  /\ Exit(w)
  /\ UNCHANGED <<ledger, snapshot, openReceipt, payloadReads>>

\* The payload cannot be read, has changed or is malformed, or a publication
\* fails: the marker is permanently failed.
OpenFails(w) ==
  /\ workers[w].pc \in {"opening", "read", "snapshotted", "bound"}
  /\ marker' = "failed"
  /\ Exit(w)
  /\ UNCHANGED <<ledger, snapshot, openReceipt, payloadReads>>

Next ==
  \/ \E w \in Workers, k \in Keys : \E p \in Parameters[k] :
       BeginStage(w, k, p) \/ ResumeStage(w, k, p)
  \/ \E w \in Workers :
       \/ PublishData(w) \/ WriteReport(w) \/ HashReport(w) \/ WriteManifest(w)
       \/ PublishReport(w) \/ PublishManifest(w) \/ WriteReceipt(w)
       \/ CompleteStage(w) \/ FailStage(w) \/ LoseLease(w) \/ Crash(w)
       \/ CheckGate(w) \/ CreateMarker(w) \/ AlreadyOpened(w) \/ ReadPayload(w)
       \/ PublishSnapshot(w) \/ PublishOpenReceipt(w) \/ MarkOpened(w) \/ OpenFails(w)

Spec == Init /\ [][Next]_vars

-----------------------------------------------------------------------------
Statuses == {"running", "failed", "completed"}
OpenSteps == {"opening", "read", "snapshotted", "bound"}

\* Outputs are recorded by completion, and then they name a manifest.
RecordOK(r) ==
  /\ r = Record(r.status, r.input, r.attempt, r.outputs)
  /\ r.status \in Statuses \union {"absent"}
  /\ r.attempt \in Nat /\ (r.attempt = 0 <=> r.status = "absent")
  /\ r.outputs \in Outputs /\ (r.outputs # NoOutputs <=> r.status = "completed")

Process == [pc : {"idle", "gated"} \union StageSteps \union OpenSteps, key : Keys,
            attempt : Nat, bound : Nat, outputs : Outputs, gate : [Directions -> Outputs]]

TypeOK ==
  /\ DOMAIN stages = Keys /\ \A k \in Keys : RecordOK(stages[k])
  /\ work \in [Keys -> Outputs]
  /\ objects \subseteq [key : Keys, slot : {"report", "manifest"}, content : Nat]
  /\ receipts \subseteq [key : Keys, attempt : Nat, outputs : Outputs]
  /\ workers \in [Workers -> Process]
  /\ marker \in {"absent", "opening", "opened", "failed"}
  /\ snapshot \in BOOLEAN /\ openReceipt \in [Directions -> Outputs] /\ payloadReads \in Nat

\* The evidence graph has no stale edge: whatever attempts crash, fail, resume
\* or are superseded, a stage that has begun names, in its input, exactly the
\* outputs its dependencies are completed with now.
BindingsCurrent ==
  \A k \in Keys : Has(k) =>
    \A d \in Dependencies(k) :
      Completed(d) /\ stages[k].input.dependencies[d] = Binding(stages[d])

\* A completed stage has, on disk, both objects it names and the receipt of the
\* very attempt that the state records, also when a process died in between.
CompletedIsPublished ==
  \A k \in Keys : Completed(k) =>
    /\ Object(k, "report", IF k[2] \in Reporting THEN stages[k].outputs.report
                                                 ELSE stages[k].outputs.manifest) \in objects
    /\ Object(k, "manifest", stages[k].outputs.manifest) \in objects
    /\ Receipt(k, stages[k].attempt, stages[k].outputs) \in receipts

\* "preventing silent evidence drift": a completed stage never changes again,
\* and a stage keeps the input of its first attempt through every resume.
EvidenceNeverDrifts ==
  [][\A k \in Keys : Has(k) =>
       /\ stages'[k].status # "absent"
       /\ stages'[k].input = stages[k].input
       /\ stages'[k].attempt >= stages[k].attempt
       /\ Completed(k) => stages'[k] = stages[k]]_vars

\* The sealed payload is read at most once, by one process, and only after
\* every direction has been validated.
SealedOpenedOnce ==
  /\ payloadReads <= 1
  /\ marker # "absent" => \A d \in Directions : Completed(<<d, "validate">>)

\* A direction reaches the sealed evaluation, and through it the runtime audit
\* that approves it, only on the opened snapshot, whose receipt binds the
\* validations as they are completed, under the one frozen structure.
ApprovalHasEvidence ==
  \A d \in Directions :
    Has(<<d, "semantic_sealed">>) \/ Has(<<d, "runtime_audit">>) =>
      /\ marker = "opened" /\ snapshot
      /\ openReceipt = [x \in Directions |-> stages[<<x, "validate">>].outputs]
      /\ \A x \in Directions : Loadable(<<x, "validate">>)
      /\ Loadable(Structure)

\* "the frozen structure receipt binds that report": the report object of the
\* completed method-dev stage is the one its structure names.
StructureBindsReport ==
  Completed(Structure) => stages[Structure].outputs.manifest = stages[Structure].outputs.report
=============================================================================
