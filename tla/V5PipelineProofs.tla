--------------------------- MODULE V5PipelineProofs ---------------------------
(***************************************************************************)
(* Safety of the pipeline workspace for every set of processes and         *)
(* directions, every starting workspace and any number of attempts.        *)
(***************************************************************************)
EXTENDS V5Pipeline, TLAPS

USE DEF vars, ledger, seal

(* What a process has written or published by the step it is at. *)
Backed(w) ==
  LET k == workers[w].key
      pc == workers[w].pc
      outputs == workers[w].outputs
  IN  /\ pc \in StageSteps => workers[w].attempt # 0
      /\ pc \in {"reported", "report_published"} => k[2] \in Reporting
      /\ pc \in {"reported", "hashed", "manifested"} /\ k[2] \in Reporting =>
           work[k].report # 0
      /\ pc = "hashed" =>
           /\ workers[w].bound # 0
           /\ k[2] \notin Reporting => Object(k, "report", workers[w].bound) \in objects
      /\ pc \in {"manifested", "report_published"} => work[k].manifest # 0
      /\ pc \in {"report_published", "published", "receipted"} /\ k[2] \in Reporting =>
           Object(k, "report", outputs.report) \in objects
      /\ pc \in {"published", "receipted"} =>
           /\ outputs.manifest # 0
           /\ Object(k, "manifest", outputs.manifest) \in objects
           /\ k[2] \notin Reporting => Object(k, "report", outputs.manifest) \in objects
      /\ pc = "receipted" => Receipt(k, workers[w].attempt, outputs) \in receipts

(* A manifest without a report binds data that has been published. *)
WorkBacked ==
  \A k \in Keys : k[2] \notin Reporting /\ work[k].manifest # 0 =>
    Object(k, "report", work[k].manifest) \in objects

(* The evidence graph is closed under loading. *)
DependenciesLoad == \A k \in Keys : Has(k) => \A d \in Loaded(k) : Loadable(d)

Validated == \A d \in Directions : Loadable(<<d, "validate">>)
ValidationOutputs == [d \in Directions |-> stages[<<d, "validate">>].outputs]

(* One process at most is past the marker, and it alone may read the payload. *)
OneOpener ==
  /\ payloadReads <= 1
  /\ marker = "absent" => payloadReads = 0
  /\ \A w \in Workers : workers[w].pc \in OpenSteps => marker = "opening"
  /\ \A w \in Workers : workers[w].pc = "opening" => payloadReads = 0
  /\ \A v, w \in Workers : workers[v].pc \in OpenSteps /\ workers[w].pc \in OpenSteps => v = w

(* What the opening process, and the marker it leaves, stand on. *)
OpeningBacked ==
  /\ marker # "absent" => Validated
  /\ \A w \in Workers : workers[w].pc \in {"gated"} \union OpenSteps =>
       Validated /\ workers[w].gate = ValidationOutputs
  /\ \A w \in Workers : workers[w].pc \in {"snapshotted", "bound"} => snapshot
  /\ \A w \in Workers : workers[w].pc = "bound" => openReceipt = ValidationOutputs
  /\ marker = "opened" => snapshot /\ openReceipt = ValidationOutputs

(* The semantic stage begins only behind the opened marker. *)
SealedGuarded ==
  \A d \in Directions : Has(<<d, "semantic_sealed">>) => marker = "opened"

Inductive ==
  /\ TypeOK
  /\ WorkBacked /\ (\A w \in Workers : Backed(w)) /\ CompletedIsPublished
  /\ BindingsCurrent /\ DependenciesLoad
  /\ OneOpener /\ OpeningBacked /\ SealedGuarded

-----------------------------------------------------------------------------
(* Constants.                                                              *)

LEMMA KeysClosed ==
  /\ Structure \in Keys
  /\ \A k \in Keys : k[1] \in Directions /\ k[2] \in Stages /\ k = <<k[1], k[2]>>
  /\ \A d \in Directions, s \in Stages : <<d, s>> \in Keys
  /\ \A k \in Keys : Dependencies(k) \subseteq Loaded(k) /\ Loaded(k) \subseteq Keys
<1>1. Structure \in Keys
  BY WorkspaceAssumption DEF Structure, Keys, Stages
<1>2. /\ \A k \in Keys : k[1] \in Directions /\ k[2] \in Stages /\ k = <<k[1], k[2]>>
      /\ \A d \in Directions, s \in Stages : <<d, s>> \in Keys
  BY DEF Keys
<1>3. \A s : OwnDependencies(s) \subseteq Stages
  BY DEF OwnDependencies, Stages, CollectStages
<1>4. \A k \in Keys : Dependencies(k) \subseteq Loaded(k) /\ Loaded(k) \subseteq Keys
  BY <1>1, <1>2, <1>3 DEF Dependencies, Loaded
<1> QED
  BY <1>1, <1>2, <1>4

LEMMA NamedDependencies ==
  \A d \in Directions :
    /\ Structure \in Loaded(<<d, "validate">>)
    /\ <<d, "semantic_sealed">> \in Loaded(<<d, "runtime_audit">>)
  BY DEF Loaded, Dependencies, OwnDependencies

-----------------------------------------------------------------------------
(* Type correctness.                                                       *)

LEMMA AbsentFields ==
  /\ Absent.status = "absent" /\ Absent.attempt = 0 /\ Absent.outputs = NoOutputs
  BY DEF Absent, Record

LEMMA NoOutputsType == NoOutputs \in Outputs /\ NoReceipt \in [Directions -> Outputs]
  BY DEF NoOutputs, Outputs, NoReceipt

\* What the starting workspace holds.
LEMMA PriorFields ==
  \A k \in Keys :
    /\ Prior[k].status \in {"absent", "completed"}
    /\ Prior[k].status = "completed" <=> k \in PriorKeys
    /\ k \in PriorKeys => Prior[k].attempt = 1 /\ Prior[k].outputs = FirstOutputs(k)
    /\ k \notin PriorKeys => Prior[k] = Absent
<1> SUFFICES ASSUME NEW k \in Keys
             PROVE  /\ Prior[k].status \in {"absent", "completed"}
                    /\ Prior[k].status = "completed" <=> k \in PriorKeys
                    /\ k \in PriorKeys => Prior[k].attempt = 1 /\ Prior[k].outputs = FirstOutputs(k)
                    /\ k \notin PriorKeys => Prior[k] = Absent
  OBVIOUS
<1>1. CASE Prior[k] = Absent
  BY <1>1, AbsentFields DEF PriorKeys
<1>2. CASE Prior[k] # Absent
  <2>1. Prior[k] = Record("completed", Prior[k].input, 1, FirstOutputs(k))
    BY <1>2, WorkspaceAssumption
  <2>2. Prior[k].status = "completed" /\ Prior[k].attempt = 1 /\ Prior[k].outputs = FirstOutputs(k)
    BY <2>1 DEF Record
  <2> QED
    BY <1>2, <2>2 DEF PriorKeys
<1> QED
  BY <1>1, <1>2

LEMMA FirstOutputsType ==
  \A k : FirstOutputs(k) \in Outputs /\ FirstOutputs(k) # NoOutputs
  BY DEF FirstOutputs, Outputs, NoOutputs

LEMMA IdleType ==
  Idle \in Process
  BY KeysClosed, NoOutputsType DEF Idle, Process

LEMMA TypeInit == Init => TypeOK
<1> SUFFICES ASSUME Init PROVE TypeOK
  OBVIOUS
<1> USE DEF Init
<1>1. DOMAIN stages = Keys
  BY WorkspaceAssumption
<1>2. ASSUME NEW k \in Keys PROVE RecordOK(stages[k])
  <2>1. stages[k] = Record(stages[k].status, stages[k].input, stages[k].attempt,
                           stages[k].outputs)
    BY WorkspaceAssumption DEF Absent, Record
  <2> QED
    BY <2>1, PriorFields, AbsentFields, FirstOutputsType, NoOutputsType DEF RecordOK, Statuses
<1>3. work \in [Keys -> Outputs]
  BY PriorFields, AbsentFields, FirstOutputsType, NoOutputsType
<1>4. objects \subseteq [key : Keys, slot : {"report", "manifest"}, content : Nat]
  BY DEF Object, PriorKeys
<1>5. receipts \subseteq [key : Keys, attempt : Nat, outputs : Outputs]
  BY PriorFields, FirstOutputsType DEF Receipt, PriorKeys
<1>6. workers \in [Workers -> Process]
  BY IdleType
<1>7. /\ marker \in {"absent", "opening", "opened", "failed"}
      /\ snapshot \in BOOLEAN /\ openReceipt \in [Directions -> Outputs] /\ payloadReads \in Nat
  BY NoOutputsType
<1> QED
  BY <1>1, <1>2, <1>3, <1>4, <1>5, <1>6, <1>7 DEF TypeOK

\* Next, by what a step touches.
Begins == \E w \in Workers, k \in Keys : \E p \in Parameters[k] :
            BeginStage(w, k, p) \/ ResumeStage(w, k, p)

Works(w) ==
  \/ PublishData(w) \/ WriteReport(w) \/ HashReport(w) \/ WriteManifest(w)
  \/ PublishReport(w) \/ PublishManifest(w) \/ WriteReceipt(w)

Ends(w) == CompleteStage(w) \/ FailStage(w) \/ LoseLease(w) \/ Crash(w)

Opens(w) ==
  \/ CheckGate(w) \/ CreateMarker(w) \/ AlreadyOpened(w) \/ ReadPayload(w)
  \/ PublishSnapshot(w) \/ PublishOpenReceipt(w) \/ MarkOpened(w) \/ OpenFails(w)

LEMMA NextCases ==
  Next => Begins \/ \E w \in Workers : Works(w) \/ Ends(w) \/ Opens(w)
  BY DEF Next, Begins, Works, Ends, Opens

\* The parameters some stage may be begun with.
Chosen == UNION {Parameters[k] : k \in Keys}

\* A process that begins a stage: it holds a lease and nothing else changes
\* but the stage's record.
LEMMA BeginsTo ==
    ASSUME TypeOK, Begins
    PROVE  \E w \in Workers, k \in Keys, p \in Chosen :
             /\ workers[w].pc = "idle" /\ Allowed(k) /\ stages[k].status # "completed"
             /\ Has(k) => stages[k].input = Input(k, p)
             /\ stages' = [stages EXCEPT ![k] =
                             Record("running", Input(k, p), stages[k].attempt + 1, NoOutputs)]
             /\ Lease(w, k, stages[k].attempt + 1)
             /\ UNCHANGED <<work, objects, receipts, seal>>
<1>1. PICK w \in Workers, k \in Keys : \E p \in Parameters[k] :
        BeginStage(w, k, p) \/ ResumeStage(w, k, p)
  BY DEF Begins
<1>2. PICK p \in Parameters[k] : BeginStage(w, k, p) \/ ResumeStage(w, k, p)
  BY <1>1
<1>3. p \in Chosen
  BY <1>2 DEF Chosen
<1>4. CASE BeginStage(w, k, p)
  <2>1. stages[k].attempt + 1 = 1 /\ stages[k].status # "completed"
    BY <1>4 DEF BeginStage, TypeOK, RecordOK, Has
  <2> QED
    BY <1>3, <1>4, <2>1 DEF BeginStage
<1>5. CASE ResumeStage(w, k, p)
  BY <1>3, <1>5 DEF ResumeStage
<1> QED
  BY <1>2, <1>4, <1>5

LEMMA RecordFields ==
  \A status, input, attempt, outputs :
    /\ Record(status, input, attempt, outputs).status = status
    /\ Record(status, input, attempt, outputs).input = input
    /\ Record(status, input, attempt, outputs).attempt = attempt
    /\ Record(status, input, attempt, outputs).outputs = outputs
  BY DEF Record

\* Ending an attempt changes at most the record of its stage, which is running.
LEMMA EndsTo ==
    ASSUME TypeOK, NEW w \in Workers, Ends(w)
    PROVE  /\ workers' = [workers EXCEPT ![w] = Idle]
           /\ UNCHANGED <<work, objects, receipts, seal>>
           /\ \/ UNCHANGED stages
              \/ /\ CurrentLease(w)
                 /\ CompleteStage(w) \/ FailStage(w)
<1>1. CASE CompleteStage(w)
  BY <1>1 DEF CompleteStage, Exit
<1>2. CASE FailStage(w)
  BY <1>2 DEF FailStage, Exit
<1>3. CASE LoseLease(w)
  BY <1>3 DEF LoseLease, Exit
<1>4. CASE Crash(w)
  BY <1>4 DEF Crash, Exit
<1> QED
  BY <1>1, <1>2, <1>3, <1>4 DEF Ends

\* The steps of an attempt, and those of an opening, leave state.json alone.
LEMMA WorksKeeps ==
    ASSUME NEW w \in Workers, Works(w)
    PROVE  UNCHANGED <<stages, marker, snapshot, openReceipt, payloadReads>>
  BY DEF Works, PublishData, WriteReport, HashReport, WriteManifest, PublishReport,
         PublishManifest, Publish, WriteReceipt, Step

LEMMA OpensKeeps ==
    ASSUME NEW w \in Workers, Opens(w)
    PROVE  UNCHANGED <<stages, work, objects, receipts>>
  BY DEF Opens, CheckGate, CreateMarker, AlreadyOpened, ReadPayload, PublishSnapshot,
         PublishOpenReceipt, MarkOpened, OpenFails, Step, Exit

-----------------------------------------------------------------------------
(* No evidence drifts: the step part.                                      *)

NoDrift ==
  \A k \in Keys : Has(k) =>
    /\ stages'[k].status # "absent"
    /\ stages'[k].input = stages[k].input
    /\ stages'[k].attempt >= stages[k].attempt
    /\ Completed(k) => stages'[k] = stages[k]

LEMMA StepDoesNotDrift ==
    ASSUME TypeOK, [Next]_vars
    PROVE  NoDrift
<1>1. CASE UNCHANGED stages
  BY <1>1 DEF NoDrift, Has, TypeOK, RecordOK
<1>2. CASE Begins
  <2>1. PICK w \in Workers, k \in Keys, p \in Chosen :
          /\ stages[k].status # "completed"
          /\ Has(k) => stages[k].input = Input(k, p)
          /\ stages' = [stages EXCEPT ![k] =
                          Record("running", Input(k, p), stages[k].attempt + 1, NoOutputs)]
    BY <1>2, BeginsTo
  <2>2. stages'[k] = Record("running", Input(k, p), stages[k].attempt + 1, NoOutputs)
    BY <2>1 DEF TypeOK
  <2>3. /\ stages'[k].status = "running" /\ stages'[k].input = Input(k, p)
        /\ stages'[k].attempt = stages[k].attempt + 1
    BY <2>2, RecordFields
  <2>4. \A x \in Keys \ {k} : stages'[x] = stages[x]
    BY <2>1 DEF TypeOK
  <2>5. \A x \in Keys : stages[x].attempt \in Nat
    BY DEF TypeOK, RecordOK
  <2> QED
    BY <2>1, <2>3, <2>4, <2>5 DEF NoDrift, Has, Completed
<1>3. ASSUME NEW w \in Workers, CurrentLease(w), CompleteStage(w) \/ FailStage(w)
      PROVE  NoDrift
  <2> DEFINE k == workers[w].key
  <2>1. k \in Keys /\ stages[k].status = "running"
    BY <1>3 DEF CurrentLease, TypeOK, Process
  <2>2. \A x \in Keys \ {k} : stages'[x] = stages[x]
    BY <1>3 DEF CompleteStage, FailStage, TypeOK
  <2>3. /\ stages'[k].status # "absent"
        /\ stages'[k].input = stages[k].input
        /\ stages'[k].attempt = stages[k].attempt
    BY <1>3, <2>1 DEF CompleteStage, FailStage, TypeOK, RecordOK, Record
  <2>4. \A x \in Keys : stages[x].attempt \in Nat
    BY DEF TypeOK, RecordOK
  <2> QED
    BY <2>1, <2>2, <2>3, <2>4 DEF NoDrift, Has, Completed
<1>4. ASSUME NEW w \in Workers, Works(w) \/ Ends(w) \/ Opens(w) PROVE NoDrift
  <2>1. CASE Works(w)
    BY <2>1, <1>1, WorksKeeps
  <2>2. CASE Ends(w)
    BY <2>2, <1>1, <1>3, EndsTo
  <2>3. CASE Opens(w)
    BY <2>3, <1>1, OpensKeeps
  <2> QED
    BY <1>4, <2>1, <2>2, <2>3
<1> QED
  BY <1>1, <1>2, <1>4, NextCases

-----------------------------------------------------------------------------
(* Type correctness: the step part.                                        *)

WorkersTyped == workers \in [Workers -> Process]
StagesTyped == DOMAIN stages = Keys /\ \A k \in Keys : RecordOK(stages[k])

DiskTyped ==
  /\ work \in [Keys -> Outputs]
  /\ objects \subseteq [key : Keys, slot : {"report", "manifest"}, content : Nat]
  /\ receipts \subseteq [key : Keys, attempt : Nat, outputs : Outputs]

SealTyped ==
  /\ marker \in {"absent", "opening", "opened", "failed"}
  /\ snapshot \in BOOLEAN /\ openReceipt \in [Directions -> Outputs] /\ payloadReads \in Nat

LEMMA RecordTypes ==
  /\ \A input : \A attempt \in Nat \ {0} : RecordOK(Record("running", input, attempt, NoOutputs))
  /\ \A r : RecordOK(r) /\ r.status = "running" =>
       /\ RecordOK([r EXCEPT !.status = "failed"])
       /\ \A outputs \in Outputs \ {NoOutputs} :
            RecordOK([r EXCEPT !.status = "completed", !.outputs = outputs])
<1>1. \A input : \A attempt \in Nat \ {0} : RecordOK(Record("running", input, attempt, NoOutputs))
  BY RecordFields, NoOutputsType DEF RecordOK, Statuses
<1>2. ASSUME NEW r, RecordOK(r), r.status = "running"
      PROVE  RecordOK([r EXCEPT !.status = "failed"])
  <2>1. [r EXCEPT !.status = "failed"] = Record("failed", r.input, r.attempt, r.outputs)
    BY <1>2 DEF RecordOK, Record
  <2> QED
    BY <1>2, <2>1, RecordFields DEF RecordOK, Statuses
<1>3. ASSUME NEW r, RecordOK(r), r.status = "running", NEW o \in Outputs \ {NoOutputs}
      PROVE  RecordOK([r EXCEPT !.status = "completed", !.outputs = o])
  <2> DEFINE c == [r EXCEPT !.status = "completed"]
  <2>1. c = Record("completed", r.input, r.attempt, r.outputs)
    BY <1>3 DEF RecordOK, Record
  <2> HIDE DEF c
  <2>2. [c EXCEPT !.outputs = o] = Record("completed", r.input, r.attempt, o)
    BY <2>1 DEF Record
  <2>3. [r EXCEPT !.status = "completed", !.outputs = o] = [c EXCEPT !.outputs = o]
    BY DEF c
  <2> QED
    BY <1>3, <2>2, <2>3, RecordFields DEF RecordOK, Statuses
<1> QED
  BY <1>1, <1>2, <1>3

\* What a process may hold after a step.
LEMMA ProcessFields ==
  \A r \in Process :
    /\ r.key \in Keys /\ r.attempt \in Nat /\ r.bound \in Nat /\ r.outputs \in Outputs
    /\ r.gate \in [Directions -> Outputs]
    /\ r.outputs.report \in Nat /\ r.outputs.manifest \in Nat
  BY DEF Process, Outputs

LEMMA ProcessTypes ==
    ASSUME NEW r \in Process, NEW n \in Nat,
           NEW to \in {"idle", "gated"} \union StageSteps \union OpenSteps
    PROVE  /\ [r EXCEPT !.pc = to] \in Process
           /\ [r EXCEPT !.pc = to, !.bound = n] \in Process
           /\ [r EXCEPT !.pc = to, !.outputs = [@ EXCEPT !.report = n]] \in Process
           /\ [r EXCEPT !.pc = to, !.outputs = [@ EXCEPT !.manifest = n]] \in Process
<1>1. /\ [r EXCEPT !.pc = to] \in Process
      /\ [r EXCEPT !.pc = to, !.bound = n] \in Process
  BY DEF Process
<1>2. /\ [r.outputs EXCEPT !.report = n] \in Outputs
      /\ [r.outputs EXCEPT !.manifest = n] \in Outputs
  BY ProcessFields DEF Outputs
<1>3. \A o \in Outputs : [r EXCEPT !.pc = to, !.outputs = o] \in Process
  BY DEF Process
<1> QED
  BY <1>1, <1>2, <1>3

LEMMA TypeBegins ==
    ASSUME TypeOK, Begins
    PROVE  TypeOK'
<1>1. PICK w \in Workers, k \in Keys, p \in Chosen :
        /\ stages' = [stages EXCEPT ![k] =
                        Record("running", Input(k, p), stages[k].attempt + 1, NoOutputs)]
        /\ Lease(w, k, stages[k].attempt + 1)
        /\ UNCHANGED <<work, objects, receipts, seal>>
  BY BeginsTo
<1>2. stages[k].attempt + 1 \in Nat \ {0}
  BY DEF TypeOK, RecordOK
<1>3. StagesTyped'
  <2>1. RecordOK(Record("running", Input(k, p), stages[k].attempt + 1, NoOutputs))
    BY <1>2, RecordTypes
  <2> QED
    BY <1>1, <2>1 DEF StagesTyped, TypeOK
<1>4. DiskTyped' /\ SealTyped'
  BY <1>1 DEF TypeOK, DiskTyped, SealTyped
<1>5. WorkersTyped'
  <2>1. [Idle EXCEPT !.pc = "leased", !.key = k, !.attempt = stages[k].attempt + 1] \in Process
    BY <1>2, IdleType DEF StageSteps, Process
  <2> QED
    BY <1>1, <2>1 DEF Lease, WorkersTyped, TypeOK
<1> QED
  BY <1>3, <1>4, <1>5 DEF TypeOK, StagesTyped, DiskTyped, WorkersTyped, SealTyped

LEMMA TypeWorks ==
    ASSUME TypeOK, NEW w \in Workers, Works(w)
    PROVE  TypeOK'
<1>1. StagesTyped' /\ SealTyped'
  BY WorksKeeps DEF TypeOK, StagesTyped, SealTyped
<1>2. /\ workers[w] \in Process
      /\ workers[w].key \in Keys /\ workers[w].attempt \in Nat /\ workers[w].bound \in Nat
      /\ workers[w].outputs \in Outputs
  BY ProcessFields DEF TypeOK
<1>3. \A k \in Keys : work[k].report \in Nat /\ work[k].manifest \in Nat
  BY DEF TypeOK, Outputs
<1>4. WorkersTyped'
  <2>1. ASSUME NEW r \in Process, workers' = [workers EXCEPT ![w] = r] PROVE WorkersTyped'
    BY <2>1 DEF WorkersTyped, TypeOK
  <2>2. {"reported", "hashed", "manifested", "report_published", "published", "receipted"}
          \subseteq {"idle", "gated"} \union StageSteps \union OpenSteps
    BY DEF StageSteps
  <2>3. ASSUME NEW r, workers' = [workers EXCEPT ![w] = r], r \in Process PROVE WorkersTyped'
    BY <2>1, <2>3
  <2>4. CASE PublishData(w)
    BY <1>2, <2>2, <2>3, <2>4, ProcessTypes DEF PublishData, TypeOK
  <2>5. CASE WriteReport(w) \/ WriteManifest(w) \/ WriteReceipt(w)
    BY <1>2, <2>2, <2>3, <2>5, ProcessTypes DEF WriteReport, WriteManifest, WriteReceipt, Step, TypeOK
  <2>6. CASE HashReport(w)
    BY <1>2, <1>3, <2>2, <2>3, <2>6, ProcessTypes DEF HashReport, TypeOK
  <2>7. CASE PublishReport(w)
    <3>1. workers' = [workers EXCEPT ![w] =
                        [workers[w] EXCEPT !.pc = "report_published",
                           !.outputs = [@ EXCEPT !.report = work[workers[w].key].report]]]
      BY <2>7 DEF PublishReport, Publish, TypeOK
    <3> QED
      BY <1>2, <1>3, <2>2, <2>3, <3>1, ProcessTypes
  <2>8. CASE PublishManifest(w)
    BY <1>2, <1>3, <2>2, <2>3, <2>8, ProcessTypes DEF PublishManifest, Publish, TypeOK
  <2> QED
    BY <2>4, <2>5, <2>6, <2>7, <2>8 DEF Works
<1>5. DiskTyped'
  <2> USE DEF TypeOK, DiskTyped
  <2>1. CASE PublishData(w)
    BY <1>2, <2>1 DEF PublishData, Object
  <2>2. CASE WriteReport(w)
    BY <1>2, <2>2 DEF WriteReport, Outputs
  <2>3. CASE HashReport(w)
    BY <2>3 DEF HashReport
  <2>4. CASE WriteManifest(w)
    BY <1>2, <2>4 DEF WriteManifest, Outputs
  <2>5. CASE PublishReport(w)
    BY <1>2, <1>3, <2>5 DEF PublishReport, Publish, Object
  <2>6. CASE PublishManifest(w)
    BY <1>2, <1>3, <2>6 DEF PublishManifest, Publish, Object
  <2>7. CASE WriteReceipt(w)
    BY <1>2, <2>7 DEF WriteReceipt, Receipt
  <2> QED
    BY <2>1, <2>2, <2>3, <2>4, <2>5, <2>6, <2>7 DEF Works
<1> QED
  BY <1>1, <1>4, <1>5 DEF TypeOK, StagesTyped, DiskTyped, WorkersTyped, SealTyped

\* A process completes its stage with a manifest: never with NoOutputs.
LEMMA TypeEnds ==
    ASSUME TypeOK, NEW w \in Workers, Backed(w), Ends(w)
    PROVE  TypeOK'
<1>1. /\ workers' = [workers EXCEPT ![w] = Idle]
      /\ UNCHANGED <<work, objects, receipts, seal>>
      /\ \/ UNCHANGED stages
         \/ CurrentLease(w) /\ (CompleteStage(w) \/ FailStage(w))
  BY EndsTo
<1>2. DiskTyped' /\ SealTyped'
  BY <1>1 DEF TypeOK, DiskTyped, SealTyped
<1>3. WorkersTyped'
  BY <1>1, IdleType DEF TypeOK, WorkersTyped
<1>4. ASSUME UNCHANGED stages PROVE StagesTyped'
  BY <1>4 DEF TypeOK, StagesTyped
<1>5. ASSUME CurrentLease(w), CompleteStage(w) \/ FailStage(w) PROVE StagesTyped'
  <2> DEFINE k == workers[w].key
  <2>1. k \in Keys /\ stages[k].status = "running" /\ RecordOK(stages[k])
    BY <1>5, ProcessFields DEF CurrentLease, TypeOK
  <2>2. CASE CompleteStage(w)
    <3>1. workers[w].outputs \in Outputs \ {NoOutputs}
      BY <2>2, ProcessFields DEF CompleteStage, Backed, TypeOK, NoOutputs
    <3>2. RecordOK([stages[k] EXCEPT !.status = "completed", !.outputs = workers[w].outputs])
      BY <2>1, <3>1, RecordTypes
    <3>3. stages' = [stages EXCEPT ![k] =
                       [stages[k] EXCEPT !.status = "completed",
                                         !.outputs = workers[w].outputs]]
      BY <2>1, <2>2 DEF CompleteStage, TypeOK
    <3> QED
      BY <2>1, <3>2, <3>3 DEF StagesTyped, TypeOK
  <2>3. CASE FailStage(w)
    <3>1. RecordOK([stages[k] EXCEPT !.status = "failed"])
      BY <2>1, RecordTypes
    <3>2. stages' = [stages EXCEPT ![k] = [stages[k] EXCEPT !.status = "failed"]]
      BY <2>1, <2>3 DEF FailStage, TypeOK
    <3> QED
      BY <2>1, <3>1, <3>2 DEF StagesTyped, TypeOK
  <2> QED
    BY <1>5, <2>2, <2>3
<1> QED
  BY <1>1, <1>2, <1>3, <1>4, <1>5 DEF TypeOK, StagesTyped, DiskTyped, WorkersTyped, SealTyped

LEMMA TypeOpens ==
    ASSUME TypeOK, NEW w \in Workers, Opens(w)
    PROVE  TypeOK'
<1>1. StagesTyped' /\ DiskTyped'
  BY OpensKeeps DEF TypeOK, StagesTyped, DiskTyped
<1>2. workers[w] \in Process /\ workers[w].gate \in [Directions -> Outputs]
  BY ProcessFields DEF TypeOK
<1>3. SealTyped'
  <2> USE <1>2 DEF TypeOK, SealTyped
  <2>1. CASE CheckGate(w) \/ AlreadyOpened(w)
    BY <2>1 DEF CheckGate, AlreadyOpened
  <2>2. CASE CreateMarker(w) \/ MarkOpened(w) \/ OpenFails(w)
    BY <2>2 DEF CreateMarker, MarkOpened, OpenFails
  <2>3. CASE ReadPayload(w)
    BY <2>3 DEF ReadPayload
  <2>4. CASE PublishSnapshot(w) \/ PublishOpenReceipt(w)
    BY <2>4 DEF PublishSnapshot, PublishOpenReceipt
  <2> QED
    BY <2>1, <2>2, <2>3, <2>4 DEF Opens
<1>4. WorkersTyped'
  <2>1. ASSUME NEW r, workers' = [workers EXCEPT ![w] = r], r \in Process PROVE WorkersTyped'
    BY <2>1 DEF WorkersTyped, TypeOK
  <2>2. CASE CheckGate(w)
    <3> DEFINE gate == [d \in Directions |-> IF Completed(<<d, "validate">>)
                                             THEN stages[<<d, "validate">>].outputs
                                             ELSE NoOutputs]
    <3>1. \A d \in Directions : stages[<<d, "validate">>].outputs \in Outputs
      BY KeysClosed DEF Stages, TypeOK, RecordOK
    <3>2. gate \in [Directions -> Outputs]
      BY <3>1, NoOutputsType
    <3>3. [Idle EXCEPT !.pc = "gated", !.gate = gate] \in Process
      BY <3>2, IdleType DEF Process
    <3> QED
      BY <2>1, <2>2, <3>3 DEF CheckGate
  <2>3. CASE CreateMarker(w) \/ ReadPayload(w) \/ PublishSnapshot(w) \/ PublishOpenReceipt(w)
    BY <1>2, <2>1, <2>3, ProcessTypes DEF CreateMarker, ReadPayload, PublishSnapshot,
         PublishOpenReceipt, Step, OpenSteps, TypeOK
  <2>4. CASE AlreadyOpened(w) \/ MarkOpened(w) \/ OpenFails(w)
    BY <2>1, <2>4, IdleType DEF AlreadyOpened, MarkOpened, OpenFails, Exit
  <2> QED
    BY <2>2, <2>3, <2>4 DEF Opens
<1> QED
  BY <1>1, <1>3, <1>4 DEF TypeOK, StagesTyped, DiskTyped, WorkersTyped, SealTyped

LEMMA TypeStep ==
    ASSUME TypeOK, \A w \in Workers : Backed(w), [Next]_vars
    PROVE  TypeOK'
<1>1. CASE UNCHANGED vars
  BY <1>1 DEF TypeOK, StagesTyped, DiskTyped, WorkersTyped, SealTyped
<1>2. CASE Next
  BY <1>2, NextCases, TypeBegins, TypeWorks, TypeEnds, TypeOpens
<1> QED
  BY <1>1, <1>2

-----------------------------------------------------------------------------
(* What completes a stage is on disk.                                      *)

Backing == WorkBacked /\ \A w \in Workers : Backed(w)

\* Objects and receipts are never removed, and no attempt writes an empty file.
DiskGrows ==
  /\ objects \subseteq objects' /\ receipts \subseteq receipts'
  /\ \A k \in Keys : /\ work[k].report # 0 => work'[k].report # 0
                     /\ work[k].manifest # 0 => work'[k].manifest # 0

LEMMA DiskKept == ASSUME UNCHANGED <<work, objects, receipts>> PROVE DiskGrows
  BY DEF DiskGrows

LEMMA ReportingStep ==
  \A w \in Workers : TypeOK => workers[w].key \in Keys /\ workers[w] \in Process
  BY ProcessFields DEF TypeOK

LEMMA WorksGrow ==
    ASSUME TypeOK, NEW w \in Workers, Backed(w), Works(w)
    PROVE  DiskGrows
<1> USE ReportingStep DEF DiskGrows, TypeOK, Backed, StageSteps, Step
<1>1. CASE PublishData(w) \/ HashReport(w) \/ WriteReceipt(w)
  BY <1>1 DEF PublishData, HashReport, WriteReceipt
<1>2. CASE WriteReport(w)
  BY <1>2 DEF WriteReport, Outputs
<1>3. CASE WriteManifest(w)
  BY <1>3 DEF WriteManifest, Outputs
<1>4. CASE PublishReport(w) \/ PublishManifest(w)
  BY <1>4 DEF PublishReport, PublishManifest, Publish
<1> QED
  BY <1>1, <1>2, <1>3, <1>4 DEF Works

\* A process that does not move keeps its backing.
LEMMA OthersBacked ==
    ASSUME TypeOK, NEW v \in Workers, Backed(v), workers'[v] = workers[v], DiskGrows
    PROVE  Backed(v)'
  BY ReportingStep DEF Backed, DiskGrows

\* A process that is idle, has just leased, or is opening, needs none.
LEMMA NothingToBack ==
    ASSUME NEW v \in Workers, workers'[v].pc \notin StageSteps \ {"leased"},
           workers'[v].pc = "leased" => workers'[v].attempt # 0
    PROVE  Backed(v)'
  BY DEF Backed, StageSteps

LEMMA WorksBacked ==
    ASSUME TypeOK, NEW w \in Workers, WorkBacked, Backed(w), Works(w)
    PROVE  Backed(w)'
<1> DEFINE k == workers[w].key
<1>1. k \in Keys /\ workers[w] \in Process /\ workers[w].attempt \in Nat
  BY ReportingStep, ProcessFields
<1>2. CASE PublishData(w)
  <2>1. /\ workers'[w] = [workers[w] EXCEPT !.pc = "hashed", !.bound = workers[w].attempt]
        /\ objects' = objects \union {Object(k, "report", workers[w].attempt)}
        /\ workers[w].pc = "leased" /\ k[2] \notin Reporting
    BY <1>2 DEF PublishData, TypeOK
  <2>2. /\ workers'[w].pc = "hashed" /\ workers'[w].key = k
        /\ workers'[w].bound = workers[w].attempt /\ workers'[w].attempt = workers[w].attempt
    BY <1>1, <2>1 DEF Process
  <2>3. workers[w].attempt # 0
    BY <2>1 DEF Backed, StageSteps
  <2> QED
    BY <2>1, <2>2, <2>3 DEF Backed
<1>3. CASE WriteReport(w)
  <2>1. /\ workers'[w] = [workers[w] EXCEPT !.pc = "reported"]
        /\ work' = [work EXCEPT ![k].report = workers[w].attempt]
        /\ workers[w].pc = "leased" /\ k[2] \in Reporting
    BY <1>3 DEF WriteReport, Step, TypeOK
  <2>2. /\ workers'[w].pc = "reported" /\ workers'[w].key = k
        /\ workers'[w].attempt = workers[w].attempt
    BY <1>1, <2>1 DEF Process
  <2>3. workers[w].attempt # 0
    BY <2>1 DEF Backed, StageSteps
  <2>4. work'[k].report = workers[w].attempt
    BY <1>1, <2>1 DEF TypeOK, Outputs
  <2> QED
    BY <2>1, <2>2, <2>3, <2>4 DEF Backed
<1>4. CASE HashReport(w)
  <2>1. /\ workers'[w] = [workers[w] EXCEPT !.pc = "hashed", !.bound = work[k].report]
        /\ workers[w].pc = "reported" /\ UNCHANGED <<work, objects, receipts>>
    BY <1>4 DEF HashReport, TypeOK
  <2>2. /\ workers'[w].pc = "hashed" /\ workers'[w].key = k
        /\ workers'[w].bound = work[k].report /\ workers'[w].attempt = workers[w].attempt
    BY <1>1, <2>1 DEF Process
  <2>3. workers[w].attempt # 0 /\ k[2] \in Reporting /\ work[k].report # 0
    BY <2>1 DEF Backed, StageSteps
  <2> QED
    BY <2>1, <2>2, <2>3 DEF Backed
<1>5. CASE WriteManifest(w)
  <2>1. /\ workers'[w] = [workers[w] EXCEPT !.pc = "manifested"]
        /\ work' = [work EXCEPT ![k].manifest = workers[w].bound]
        /\ workers[w].pc = "hashed"
    BY <1>5 DEF WriteManifest, Step, TypeOK
  <2>2. /\ workers'[w].pc = "manifested" /\ workers'[w].key = k
        /\ workers'[w].attempt = workers[w].attempt
    BY <1>1, <2>1 DEF Process
  <2>3. /\ workers[w].attempt # 0 /\ workers[w].bound # 0
        /\ k[2] \in Reporting => work[k].report # 0
    BY <2>1 DEF Backed, StageSteps
  <2>4. work'[k].manifest = workers[w].bound /\ work'[k].report = work[k].report
    BY <1>1, <2>1 DEF TypeOK, Outputs
  <2> QED
    BY <2>2, <2>3, <2>4 DEF Backed
<1>6. CASE PublishReport(w)
  <2>1. /\ workers'[w] = [workers[w] EXCEPT !.pc = "report_published",
                             !.outputs = [@ EXCEPT !.report = work[k].report]]
        /\ objects' = objects \union {Object(k, "report", work[k].report)}
        /\ workers[w].pc = "manifested" /\ k[2] \in Reporting /\ UNCHANGED work
    BY <1>6 DEF PublishReport, Publish, TypeOK
  <2>2. /\ workers'[w].pc = "report_published" /\ workers'[w].key = k
        /\ workers'[w].attempt = workers[w].attempt
        /\ workers'[w].outputs.report = work[k].report
    BY <1>1, <2>1 DEF Process, Outputs
  <2>3. workers[w].attempt # 0 /\ work[k].manifest # 0
    BY <2>1 DEF Backed, StageSteps
  <2> QED
    BY <2>1, <2>2, <2>3 DEF Backed
<1>7. CASE PublishManifest(w)
  <2>1. /\ workers'[w] = [workers[w] EXCEPT !.pc = "published",
                             !.outputs = [@ EXCEPT !.manifest = work[k].manifest]]
        /\ objects' = objects \union {Object(k, "manifest", work[k].manifest)}
        /\ \/ workers[w].pc = "report_published" /\ k[2] \in Reporting
           \/ workers[w].pc = "manifested" /\ k[2] \notin Reporting
    BY <1>7 DEF PublishManifest, Publish, TypeOK
  <2>2. /\ workers'[w].pc = "published" /\ workers'[w].key = k
        /\ workers'[w].attempt = workers[w].attempt
        /\ workers'[w].outputs.manifest = work[k].manifest
        /\ workers'[w].outputs.report = workers[w].outputs.report
    BY <1>1, <2>1 DEF Process, Outputs
  <2>3. /\ workers[w].attempt # 0 /\ work[k].manifest # 0
        /\ k[2] \in Reporting => Object(k, "report", workers[w].outputs.report) \in objects
    BY <2>1 DEF Backed, StageSteps
  <2>4. k[2] \notin Reporting => Object(k, "report", work[k].manifest) \in objects
    BY <1>1, <2>3 DEF WorkBacked
  <2> QED
    BY <2>1, <2>2, <2>3, <2>4 DEF Backed
<1>8. CASE WriteReceipt(w)
  <2>1. /\ workers'[w] = [workers[w] EXCEPT !.pc = "receipted"]
        /\ receipts' = receipts \union {Receipt(k, workers[w].attempt, workers[w].outputs)}
        /\ workers[w].pc = "published" /\ UNCHANGED objects
    BY <1>8 DEF WriteReceipt, Step, TypeOK
  <2>2. /\ workers'[w].pc = "receipted" /\ workers'[w].key = k
        /\ workers'[w].attempt = workers[w].attempt /\ workers'[w].outputs = workers[w].outputs
    BY <1>1, <2>1 DEF Process
  <2> QED
    BY <2>1, <2>2 DEF Backed, StageSteps
<1> QED
  BY <1>2, <1>3, <1>4, <1>5, <1>6, <1>7, <1>8 DEF Works

LEMMA WorksKeepWorkBacked ==
    ASSUME TypeOK, NEW w \in Workers, WorkBacked, Backed(w), Works(w)
    PROVE  WorkBacked'
<1> DEFINE k == workers[w].key
<1>1. k \in Keys /\ objects \subseteq objects'
  BY ReportingStep, WorksGrow DEF DiskGrows
<1>2. CASE WriteManifest(w)
  <2>1. work' = [work EXCEPT ![k].manifest = workers[w].bound] /\ workers[w].pc = "hashed"
    BY <1>2 DEF WriteManifest, Step
  <2>2. k[2] \notin Reporting => Object(k, "report", workers[w].bound) \in objects
    BY <2>1 DEF Backed
  <2>3. work'[k].manifest = workers[w].bound /\ \A x \in Keys \ {k} : work'[x] = work[x]
    BY <1>1, <2>1 DEF TypeOK, Outputs
  <2> QED
    BY <1>1, <2>2, <2>3 DEF WorkBacked
<1>3. CASE WriteReport(w)
  <2>1. work' = [work EXCEPT ![k].report = workers[w].attempt]
    BY <1>3 DEF WriteReport
  <2>2. \A x \in Keys : work'[x].manifest = work[x].manifest
    BY <1>1, <2>1 DEF TypeOK, Outputs
  <2> QED
    BY <1>1, <2>2 DEF WorkBacked
<1>4. CASE UNCHANGED work
  BY <1>1, <1>4 DEF WorkBacked
<1>5. \/ WriteManifest(w) \/ WriteReport(w) \/ UNCHANGED work
  BY DEF Works, PublishData, HashReport, PublishReport, PublishManifest, Publish, WriteReceipt
<1> QED
  BY <1>2, <1>3, <1>4, <1>5

\* An opening process goes from one step of the opening to the next, or exits.
LEMMA OpensMove ==
    ASSUME TypeOK, NEW w \in Workers, Opens(w)
    PROVE  /\ workers'[w].pc \in {"idle", "gated"} \union OpenSteps
           /\ \A v \in Workers \ {w} : workers'[v] = workers[v]
<1>1. ASSUME NEW to, workers' = [workers EXCEPT ![w].pc = to]
      PROVE  workers'[w].pc = to /\ \A v \in Workers \ {w} : workers'[v] = workers[v]
  BY <1>1, ReportingStep DEF TypeOK, Process
<1>2. CASE CheckGate(w)
  BY <1>2 DEF CheckGate, TypeOK, Idle
<1>3. CASE CreateMarker(w) \/ ReadPayload(w) \/ PublishSnapshot(w) \/ PublishOpenReceipt(w)
  BY <1>1, <1>3 DEF CreateMarker, ReadPayload, PublishSnapshot, PublishOpenReceipt, Step, OpenSteps
<1>4. CASE AlreadyOpened(w) \/ MarkOpened(w) \/ OpenFails(w)
  BY <1>4 DEF AlreadyOpened, MarkOpened, OpenFails, Exit, Idle, TypeOK
<1> QED
  BY <1>2, <1>3, <1>4 DEF Opens

LEMMA BackingStep ==
    ASSUME TypeOK, Backing, [Next]_vars
    PROVE  Backing'
<1>1. CASE UNCHANGED vars
  BY <1>1 DEF Backing, WorkBacked, Backed
<1>2. CASE Begins
  <2>1. PICK w \in Workers, k \in Keys :
          Lease(w, k, stages[k].attempt + 1) /\ UNCHANGED <<work, objects, receipts>>
    BY <1>2, BeginsTo
  <2>2. stages[k].attempt + 1 # 0
    BY DEF TypeOK, RecordOK
  <2>3. /\ workers'[w].pc = "leased" /\ workers'[w].attempt = stages[k].attempt + 1
        /\ \A v \in Workers \ {w} : workers'[v] = workers[v]
    BY <2>1 DEF Lease, TypeOK, Idle
  <2>4. Backed(w)'
    BY <2>2, <2>3, NothingToBack
  <2>5. \A v \in Workers \ {w} : Backed(v)'
    BY <2>1, <2>3, OthersBacked, DiskKept DEF Backing
  <2>6. WorkBacked'
    BY <2>1 DEF Backing, WorkBacked
  <2> QED
    BY <2>4, <2>5, <2>6 DEF Backing
<1>3. ASSUME NEW w \in Workers, Works(w) PROVE Backing'
  <2>1. DiskGrows
    BY <1>3, WorksGrow DEF Backing
  <2>2. \A v \in Workers \ {w} : workers'[v] = workers[v]
    BY <1>3 DEF Works, PublishData, WriteReport, HashReport, WriteManifest, PublishReport,
                PublishManifest, Publish, WriteReceipt, Step, TypeOK
  <2>3. \A v \in Workers \ {w} : Backed(v)'
    BY <2>1, <2>2, OthersBacked DEF Backing
  <2>4. Backed(w)' /\ WorkBacked'
    BY <1>3, WorksBacked, WorksKeepWorkBacked DEF Backing
  <2> QED
    BY <2>3, <2>4 DEF Backing
<1>4. ASSUME NEW w \in Workers, Ends(w) PROVE Backing'
  <2>1. workers' = [workers EXCEPT ![w] = Idle] /\ UNCHANGED <<work, objects, receipts>>
    BY <1>4, EndsTo
  <2>2. workers'[w].pc = "idle" /\ \A v \in Workers \ {w} : workers'[v] = workers[v]
    BY <2>1 DEF TypeOK, Idle
  <2>3. Backed(w)'
    BY <2>2, NothingToBack DEF StageSteps
  <2>4. \A v \in Workers \ {w} : Backed(v)'
    BY <2>1, <2>2, OthersBacked, DiskKept DEF Backing
  <2>5. WorkBacked'
    BY <2>1 DEF Backing, WorkBacked
  <2> QED
    BY <2>3, <2>4, <2>5 DEF Backing
<1>5. ASSUME NEW w \in Workers, Opens(w) PROVE Backing'
  <2>1. UNCHANGED <<work, objects, receipts>>
    BY <1>5, OpensKeeps
  <2>2. /\ workers'[w].pc \in {"idle", "gated"} \union OpenSteps
        /\ \A v \in Workers \ {w} : workers'[v] = workers[v]
    BY <1>5, OpensMove
  <2>3. Backed(w)'
    BY <2>2, NothingToBack DEF OpenSteps, StageSteps
  <2>4. \A v \in Workers \ {w} : Backed(v)'
    BY <2>1, <2>2, OthersBacked, DiskKept DEF Backing
  <2>5. WorkBacked'
    BY <2>1 DEF Backing, WorkBacked
  <2> QED
    BY <2>3, <2>4, <2>5 DEF Backing
<1> QED
  BY <1>1, <1>2, <1>3, <1>4, <1>5, NextCases

LEMMA PublishedStep ==
    ASSUME TypeOK, Backing, CompletedIsPublished, [Next]_vars
    PROVE  CompletedIsPublished'
<1>1. objects \subseteq objects' /\ receipts \subseteq receipts'
  <2>1. CASE UNCHANGED vars
    BY <2>1
  <2>2. CASE Begins
    BY <2>2, BeginsTo
  <2>3. ASSUME NEW w \in Workers, Works(w) \/ Ends(w) \/ Opens(w)
        PROVE  objects \subseteq objects' /\ receipts \subseteq receipts'
    BY <2>3, WorksGrow, EndsTo, OpensKeeps DEF Backing, DiskGrows
  <2> QED
    BY <2>1, <2>2, <2>3, NextCases
<1>2. ASSUME NEW k \in Keys, Completed(k)', ~Completed(k)
      PROVE  /\ Object(k, "report", IF k[2] \in Reporting THEN stages'[k].outputs.report
                                                ELSE stages'[k].outputs.manifest) \in objects
             /\ Object(k, "manifest", stages'[k].outputs.manifest) \in objects
             /\ Receipt(k, stages'[k].attempt, stages'[k].outputs) \in receipts
  <2>1. PICK w \in Workers : CompleteStage(w) /\ workers[w].key = k
    <3>1. CASE UNCHANGED stages
      BY <1>2, <3>1 DEF Completed, Has
    <3>2. CASE Begins
      <4>1. PICK x \in Keys, p \in Chosen :
              stages' = [stages EXCEPT ![x] =
                           Record("running", Input(x, p), stages[x].attempt + 1, NoOutputs)]
        BY <3>2, BeginsTo
      <4>2. stages'[x].status = "running" /\ \A y \in Keys \ {x} : stages'[y] = stages[y]
        BY <4>1, RecordFields DEF TypeOK
      <4> QED
        BY <1>2, <4>2 DEF Completed, Has
    <3>3. ASSUME NEW w \in Workers, FailStage(w) PROVE FALSE
      <4>1. workers[w].key \in Keys
        BY ReportingStep
      <4>2. /\ stages'[workers[w].key].status = "failed"
            /\ \A y \in Keys \ {workers[w].key} : stages'[y] = stages[y]
        BY <3>3, <4>1 DEF FailStage, TypeOK, RecordOK, Record
      <4> QED
        BY <1>2, <4>2 DEF Completed, Has
    <3>4. ASSUME NEW w \in Workers, CompleteStage(w) PROVE workers[w].key = k
      <4>1. \A y \in Keys \ {workers[w].key} : stages'[y] = stages[y]
        BY <3>4 DEF CompleteStage, TypeOK
      <4> QED
        BY <1>2, <4>1 DEF Completed, Has
    <3>5. \/ UNCHANGED stages \/ Begins
          \/ \E w \in Workers : CompleteStage(w) \/ FailStage(w)
      BY NextCases, WorksKeeps, OpensKeeps, EndsTo
    <3> QED
      BY <3>1, <3>2, <3>3, <3>4, <3>5
  <2>2. /\ stages[k].attempt = workers[w].attempt /\ workers[w].pc = "receipted"
        /\ stages' = [stages EXCEPT ![k].status = "completed", ![k].outputs = workers[w].outputs]
    BY <2>1 DEF CompleteStage, CurrentLease
  <2>3. stages'[k].attempt = stages[k].attempt /\ stages'[k].outputs = workers[w].outputs
    BY <2>2 DEF TypeOK, RecordOK, Record
  <2>4. Backed(w)
    BY DEF Backing
  <2> QED
    BY <2>1, <2>2, <2>3, <2>4 DEF Backed
<1>3. ASSUME NEW k \in Keys, Completed(k)'
      PROVE  /\ Object(k, "report", IF k[2] \in Reporting THEN stages'[k].outputs.report
                                               ELSE stages'[k].outputs.manifest) \in objects'
             /\ Object(k, "manifest", stages'[k].outputs.manifest) \in objects'
             /\ Receipt(k, stages'[k].attempt, stages'[k].outputs) \in receipts'
  <2>1. CASE Completed(k)
    <3>1. stages'[k] = stages[k]
      BY <2>1, StepDoesNotDrift DEF NoDrift, Completed
    <3> QED
      BY <1>1, <2>1, <3>1 DEF CompletedIsPublished
  <2>2. CASE ~Completed(k)
    BY <1>1, <1>2, <1>3, <2>2
  <2> QED
    BY <2>1, <2>2
<1> QED
  BY <1>3 DEF CompletedIsPublished

-----------------------------------------------------------------------------
(* The evidence graph.                                                     *)

LEMMA LoadableStays ==
    ASSUME TypeOK, [Next]_vars, NEW k \in Keys, Loadable(k)
    PROVE  Loadable(k)' /\ stages'[k] = stages[k]
<1>1. Completed(k)
  BY DEF Loadable
<1>2. stages'[k] = stages[k]
  BY <1>1, StepDoesNotDrift DEF NoDrift, Completed
<1> QED
  BY <1>2 DEF Loadable, Completed, Has

\* Only BeginStage gives a stage its first record.
LEMMA FirstRecord ==
    ASSUME TypeOK, [Next]_vars, NEW k \in Keys, Has(k)', ~Has(k)
    PROVE  Allowed(k) /\ \E p : stages'[k].input = Input(k, p)
<1>1. CASE UNCHANGED stages
  BY <1>1 DEF Has
<1>2. CASE Begins
  <2>1. PICK x \in Keys, p \in Chosen :
          /\ Allowed(x)
          /\ stages' = [stages EXCEPT ![x] =
                          Record("running", Input(x, p), stages[x].attempt + 1, NoOutputs)]
    BY <1>2, BeginsTo
  <2>2. stages'[x].input = Input(x, p) /\ \A y \in Keys \ {x} : stages'[y] = stages[y]
    BY <2>1, RecordFields DEF TypeOK
  <2> QED
    BY <2>1, <2>2 DEF Has
<1>3. ASSUME NEW w \in Workers, CurrentLease(w), CompleteStage(w) \/ FailStage(w) PROVE FALSE
  <2>1. \A y \in Keys \ {workers[w].key} : stages'[y] = stages[y]
    BY <1>3 DEF CompleteStage, FailStage, TypeOK
  <2>2. Has(workers[w].key)
    BY <1>3 DEF CurrentLease
  <2> QED
    BY <2>1, <2>2 DEF Has
<1>4. \/ UNCHANGED stages \/ Begins
      \/ \E w \in Workers : CurrentLease(w) /\ (CompleteStage(w) \/ FailStage(w))
  BY NextCases, WorksKeeps, OpensKeeps, EndsTo
<1> QED
  BY <1>1, <1>2, <1>3, <1>4

LEMMA GraphStep ==
    ASSUME TypeOK, BindingsCurrent, DependenciesLoad, [Next]_vars
    PROVE  BindingsCurrent' /\ DependenciesLoad'
<1>1. ASSUME NEW k \in Keys, Has(k)'
      PROVE  /\ \A d \in Loaded(k) : Loadable(d)
             /\ \A d \in Dependencies(k) :
                  stages'[k].input.dependencies[d] = Binding(stages[d])
  <2>1. CASE Has(k)
    <3>1. stages'[k].input = stages[k].input
      BY <2>1, StepDoesNotDrift DEF NoDrift
    <3> QED
      BY <2>1, <3>1 DEF BindingsCurrent, DependenciesLoad
  <2>2. CASE ~Has(k)
    <3>1. PICK p : Allowed(k) /\ stages'[k].input = Input(k, p)
      BY <1>1, <2>2, FirstRecord
    <3>2. \A d \in Dependencies(k) : Input(k, p).dependencies[d] = Binding(stages[d])
      BY DEF Input
    <3> QED
      BY <3>1, <3>2 DEF Allowed
  <2> QED
    BY <2>1, <2>2
<1>2. \A k \in Keys : \A d \in Loaded(k) : d \in Keys /\ (d \in Dependencies(k) => d \in Loaded(k))
  BY KeysClosed
<1>3. DependenciesLoad'
  BY <1>1, <1>2, LoadableStays DEF DependenciesLoad
<1>4. BindingsCurrent'
  <2> SUFFICES ASSUME NEW k \in Keys, Has(k)', NEW d \in Dependencies(k)
               PROVE  Completed(d)' /\ stages'[k].input.dependencies[d] = Binding(stages'[d])
    BY DEF BindingsCurrent
  <2>1. d \in Keys /\ Loadable(d)
    BY <1>1, KeysClosed
  <2>2. Loadable(d)' /\ stages'[d] = stages[d]
    BY <2>1, LoadableStays
  <2> QED
    BY <1>1, <2>2 DEF Loadable
<1> QED
  BY <1>3, <1>4

-----------------------------------------------------------------------------
(* The sealed payload.                                                     *)

LEMMA ValidatedStays ==
    ASSUME TypeOK, [Next]_vars, Validated
    PROVE  Validated' /\ ValidationOutputs' = ValidationOutputs
<1>1. \A d \in Directions : <<d, "validate">> \in Keys
  BY KeysClosed DEF Stages
<1> QED
  BY <1>1, LoadableStays DEF Validated, ValidationOutputs

Sealing == OneOpener /\ OpeningBacked

\* A step that moves no process of the opening and leaves the seal alone.
LEMMA SealUndisturbed ==
    ASSUME TypeOK, Sealing, [Next]_vars, UNCHANGED seal,
           \A v \in Workers : workers'[v].pc \in {"gated"} \union OpenSteps =>
             workers'[v].pc = workers[v].pc /\ workers'[v].gate = workers[v].gate
    PROVE  Sealing'
<1>1. OneOpener'
  BY DEF Sealing, OneOpener, OpenSteps
<1>2. ASSUME NEW v \in Workers, workers'[v].pc \in {"gated"} \union OpenSteps
      PROVE  /\ Validated' /\ workers'[v].gate = ValidationOutputs'
             /\ workers'[v].pc \in {"snapshotted", "bound"} => snapshot'
             /\ workers'[v].pc = "bound" => openReceipt' = ValidationOutputs'
  BY <1>2, ValidatedStays DEF Sealing, OpeningBacked
<1>3. /\ marker' # "absent" => Validated'
      /\ marker' = "opened" => snapshot' /\ openReceipt' = ValidationOutputs'
  BY ValidatedStays DEF Sealing, OpeningBacked
<1>4. OpeningBacked'
  BY <1>2, <1>3 DEF OpeningBacked, OpenSteps
<1> QED
  BY <1>1, <1>4 DEF Sealing

LEMMA WorksMove ==
    ASSUME TypeOK, NEW w \in Workers, Works(w)
    PROVE  workers'[w].pc \in StageSteps /\ \A v \in Workers \ {w} : workers'[v] = workers[v]
<1>1. CASE PublishData(w) \/ HashReport(w)
  BY <1>1, ReportingStep DEF PublishData, HashReport, TypeOK, Process, StageSteps
<1>2. CASE WriteReport(w) \/ WriteManifest(w) \/ WriteReceipt(w)
  BY <1>2, ReportingStep DEF WriteReport, WriteManifest, WriteReceipt, Step, TypeOK, Process,
     StageSteps
<1>3. CASE PublishReport(w) \/ PublishManifest(w)
  BY <1>3, ReportingStep DEF PublishReport, PublishManifest, Publish, TypeOK, Process, StageSteps
<1> QED
  BY <1>1, <1>2, <1>3 DEF Works

\* The marker decides who opens: the step of the opening process itself.
LEMMA OpensSeal ==
    ASSUME TypeOK, Sealing, NEW w \in Workers, Opens(w), [Next]_vars
    PROVE  Sealing'
<1>1. \A v \in Workers \ {w} : workers'[v] = workers[v]
  BY OpensMove
<1>2. workers[w] \in Process
  BY ReportingStep
<1>3. ASSUME Validated
      PROVE  Validated' /\ ValidationOutputs' = ValidationOutputs
  BY <1>3, ValidatedStays
<1>4. CASE CheckGate(w)
  <2>1. /\ Validated /\ workers'[w].pc = "gated" /\ UNCHANGED seal
        /\ workers'[w].gate = [d \in Directions |-> IF Completed(<<d, "validate">>)
                                                    THEN stages[<<d, "validate">>].outputs
                                                    ELSE NoOutputs]
    BY <1>4 DEF CheckGate, GatePasses, Validated, TypeOK, Idle
  <2>2. workers'[w].gate = ValidationOutputs
    BY <2>1 DEF Validated, Loadable, ValidationOutputs
  <2>3. OneOpener'
    BY <1>1, <2>1 DEF Sealing, OneOpener, OpenSteps
  <2>4. OpeningBacked'
    BY <1>1, <1>3, <2>1, <2>2 DEF Sealing, OpeningBacked, OpenSteps
  <2> QED
    BY <2>3, <2>4 DEF Sealing
<1>5. CASE AlreadyOpened(w)
  <2>1. workers'[w].pc = "idle" /\ UNCHANGED seal
    BY <1>5 DEF AlreadyOpened, Exit, Idle, TypeOK
  <2> QED
    BY <1>1, <2>1, SealUndisturbed DEF OpenSteps
<1>6. CASE CreateMarker(w)
  <2>1. /\ marker = "absent" /\ marker' = "opening" /\ workers[w].pc = "gated"
        /\ UNCHANGED <<snapshot, openReceipt, payloadReads>>
        /\ workers'[w].pc = "opening" /\ workers'[w].gate = workers[w].gate
    BY <1>2, <1>6 DEF CreateMarker, Step, TypeOK, Process
  <2>2. Validated /\ workers[w].gate = ValidationOutputs
    BY <2>1 DEF Sealing, OpeningBacked
  <2>3. payloadReads = 0 /\ \A v \in Workers : workers[v].pc \notin OpenSteps
    BY <2>1 DEF Sealing, OneOpener
  <2>4. OneOpener'
    BY <1>1, <2>1, <2>3 DEF OneOpener, OpenSteps
  <2>5. OpeningBacked'
    BY <1>1, <1>3, <2>1, <2>2, <2>3 DEF Sealing, OpeningBacked, OpenSteps
  <2> QED
    BY <2>4, <2>5 DEF Sealing
<1>7. CASE ReadPayload(w) \/ PublishSnapshot(w) \/ PublishOpenReceipt(w)
  <2>1. workers[w].pc \in {"opening", "read", "snapshotted"}
    BY <1>7 DEF ReadPayload, PublishSnapshot, PublishOpenReceipt, Step
  <2>2. /\ Validated /\ workers[w].gate = ValidationOutputs
        /\ workers[w].pc = "snapshotted" => snapshot
    BY <2>1 DEF Sealing, OpeningBacked, OpenSteps
  <2>3. /\ marker = "opening" /\ \A v \in Workers \ {w} : workers[v].pc \notin OpenSteps
        /\ workers[w].pc = "opening" => payloadReads = 0
    BY <2>1 DEF Sealing, OneOpener, OpenSteps
  <2>4. CASE ReadPayload(w)
    <3>1. /\ workers[w].pc = "opening" /\ payloadReads' = payloadReads + 1
          /\ UNCHANGED <<marker, snapshot, openReceipt>>
          /\ workers'[w].pc = "read" /\ workers'[w].gate = workers[w].gate
      BY <1>2, <2>4 DEF ReadPayload, Step, TypeOK, Process
    <3>2. OneOpener'
      BY <1>1, <2>3, <3>1 DEF OneOpener, OpenSteps
    <3>3. OpeningBacked'
      BY <1>1, <1>3, <2>2, <2>3, <3>1 DEF Sealing, OpeningBacked, OpenSteps
    <3> QED
      BY <3>2, <3>3 DEF Sealing
  <2>5. CASE PublishSnapshot(w)
    <3>1. /\ workers[w].pc = "read" /\ snapshot'
          /\ UNCHANGED <<marker, openReceipt, payloadReads>>
          /\ workers'[w].pc = "snapshotted" /\ workers'[w].gate = workers[w].gate
      BY <1>2, <2>5 DEF PublishSnapshot, Step, TypeOK, Process
    <3>2. OneOpener'
      BY <1>1, <2>3, <3>1 DEF Sealing, OneOpener, OpenSteps
    <3>3. OpeningBacked'
      BY <1>1, <1>3, <2>2, <2>3, <3>1 DEF Sealing, OpeningBacked, OpenSteps
    <3> QED
      BY <3>2, <3>3 DEF Sealing
  <2>6. CASE PublishOpenReceipt(w)
    <3>1. /\ workers[w].pc = "snapshotted" /\ openReceipt' = workers[w].gate
          /\ UNCHANGED <<marker, snapshot, payloadReads>>
          /\ workers'[w].pc = "bound" /\ workers'[w].gate = workers[w].gate
      BY <1>2, <2>6 DEF PublishOpenReceipt, Step, TypeOK, Process
    <3>2. OneOpener'
      BY <1>1, <2>3, <3>1 DEF Sealing, OneOpener, OpenSteps
    <3>3. OpeningBacked'
      BY <1>1, <1>3, <2>2, <2>3, <3>1 DEF Sealing, OpeningBacked, OpenSteps
    <3> QED
      BY <3>2, <3>3 DEF Sealing
  <2> QED
    BY <1>7, <2>4, <2>5, <2>6
<1>8. CASE MarkOpened(w) \/ OpenFails(w)
  <2>1. /\ workers[w].pc \in OpenSteps /\ workers'[w].pc = "idle"
        /\ marker' \in {"opened", "failed"} /\ UNCHANGED <<snapshot, openReceipt, payloadReads>>
        /\ marker' = "opened" => workers[w].pc = "bound"
    BY <1>8 DEF MarkOpened, OpenFails, Exit, Idle, TypeOK, OpenSteps
  <2>2. /\ Validated
        /\ workers[w].pc = "bound" => snapshot /\ openReceipt = ValidationOutputs
    BY <2>1 DEF Sealing, OpeningBacked, OpenSteps
  <2>3. \A v \in Workers \ {w} : workers[v].pc \notin OpenSteps
    BY <2>1 DEF Sealing, OneOpener
  <2>4. OneOpener'
    BY <1>1, <2>1, <2>3 DEF Sealing, OneOpener, OpenSteps
  <2>5. OpeningBacked'
    BY <1>1, <1>3, <2>1, <2>2, <2>3 DEF Sealing, OpeningBacked, OpenSteps
  <2> QED
    BY <2>4, <2>5 DEF Sealing
<1> QED
  BY <1>4, <1>5, <1>6, <1>7, <1>8 DEF Opens

LEMMA SealStep ==
    ASSUME TypeOK, Sealing, [Next]_vars
    PROVE  Sealing'
<1>1. CASE UNCHANGED vars
  BY <1>1, SealUndisturbed
<1>2. CASE Begins
  <2>1. PICK w \in Workers, k \in Keys : Lease(w, k, stages[k].attempt + 1) /\ UNCHANGED seal
    BY <1>2, BeginsTo
  <2>2. workers'[w].pc = "leased" /\ \A v \in Workers \ {w} : workers'[v] = workers[v]
    BY <2>1 DEF Lease, TypeOK, Idle
  <2> QED
    BY <2>1, <2>2, SealUndisturbed DEF OpenSteps
<1>3. ASSUME NEW w \in Workers, Works(w) PROVE Sealing'
  <2>1. UNCHANGED seal
    BY <1>3, WorksKeeps
  <2>2. workers'[w].pc \in StageSteps /\ \A v \in Workers \ {w} : workers'[v] = workers[v]
    BY <1>3, WorksMove
  <2> QED
    BY <2>1, <2>2, SealUndisturbed DEF OpenSteps, StageSteps
<1>4. ASSUME NEW w \in Workers, Ends(w) PROVE Sealing'
  <2>1. workers' = [workers EXCEPT ![w] = Idle] /\ UNCHANGED seal
    BY <1>4, EndsTo
  <2>2. workers'[w].pc = "idle" /\ \A v \in Workers \ {w} : workers'[v] = workers[v]
    BY <2>1 DEF TypeOK, Idle
  <2> QED
    BY <2>1, <2>2, SealUndisturbed DEF OpenSteps
<1> QED
  BY <1>1, <1>2, <1>3, <1>4, OpensSeal, NextCases

\* Once opened, always opened.
LEMMA OpenedStays ==
    ASSUME TypeOK, Sealing, [Next]_vars, marker = "opened"
    PROVE  marker' = "opened"
<1>1. \A w \in Workers : workers[w].pc \notin OpenSteps
  BY DEF Sealing, OneOpener
<1>2. ASSUME NEW w \in Workers, Opens(w) PROVE marker' = "opened"
  BY <1>1, <1>2 DEF Opens, CheckGate, CreateMarker, AlreadyOpened, ReadPayload, PublishSnapshot,
                    PublishOpenReceipt, MarkOpened, OpenFails, Step, OpenSteps
<1>3. UNCHANGED marker \/ \E w \in Workers : Opens(w)
  BY NextCases, BeginsTo, WorksKeeps, EndsTo
<1> QED
  BY <1>2, <1>3

LEMMA SealedGuardedStep ==
    ASSUME TypeOK, Sealing, SealedGuarded, [Next]_vars
    PROVE  SealedGuarded'
<1> SUFFICES ASSUME NEW d \in Directions, Has(<<d, "semantic_sealed">>)'
             PROVE  marker' = "opened"
  BY DEF SealedGuarded
<1>1. <<d, "semantic_sealed">> \in Keys
  BY KeysClosed DEF Stages
<1>2. marker = "opened"
  BY <1>1, FirstRecord DEF SealedGuarded, Allowed, SemanticGuard
<1> QED
  BY <1>2, OpenedStays

-----------------------------------------------------------------------------
(* The inductive invariant and the theorems.                               *)

LEMMA InductiveInit == Init => Inductive
<1> SUFFICES ASSUME Init PROVE Inductive
  OBVIOUS
<1>1. TypeOK
  BY TypeInit
<1>2. \A k \in Keys : /\ Has(k) <=> k \in PriorKeys
                      /\ Completed(k) <=> k \in PriorKeys
                      /\ Loadable(k) <=> k \in PriorKeys
  <2> SUFFICES ASSUME NEW k \in Keys
               PROVE  /\ Has(k) <=> k \in PriorKeys
                      /\ Completed(k) <=> k \in PriorKeys
                      /\ Loadable(k) <=> k \in PriorKeys
    OBVIOUS
  <2>1. stages[k] = Prior[k]
    BY DEF Init
  <2>2. /\ Has(k) <=> k \in PriorKeys
        /\ Completed(k) <=> k \in PriorKeys
    BY <2>1, PriorFields DEF Has, Completed
  <2>3. k \in PriorKeys /\ k[2] \in Reporting => stages[k].outputs = [report |-> 1, manifest |-> 1]
    BY <2>1, PriorFields DEF FirstOutputs
  <2> QED
    BY <2>2, <2>3 DEF Loadable
<1>3. WorkBacked
  <2> SUFFICES ASSUME NEW k \in Keys, k[2] \notin Reporting, work[k].manifest # 0
               PROVE  Object(k, "report", work[k].manifest) \in objects
    BY DEF WorkBacked
  <2>1. k \in PriorKeys
    BY PriorFields, AbsentFields DEF Init, NoOutputs
  <2>2. work[k] = FirstOutputs(k) /\ FirstOutputs(k).manifest = 1
    BY <2>1, PriorFields DEF Init, FirstOutputs
  <2> QED
    BY <2>1, <2>2 DEF Init
<1>4. \A w \in Workers : Backed(w)
  BY DEF Init, Backed, Idle, StageSteps
<1>5. CompletedIsPublished
  <2> SUFFICES ASSUME NEW k \in Keys, Completed(k)
               PROVE  /\ Object(k, "report", IF k[2] \in Reporting
                                             THEN stages[k].outputs.report
                                             ELSE stages[k].outputs.manifest) \in objects
                      /\ Object(k, "manifest", stages[k].outputs.manifest) \in objects
                      /\ Receipt(k, stages[k].attempt, stages[k].outputs) \in receipts
    BY DEF CompletedIsPublished
  <2>1. /\ k \in PriorKeys /\ stages[k].attempt = 1 /\ stages[k].outputs = Prior[k].outputs
        /\ stages[k].outputs = FirstOutputs(k)
    BY <1>2, PriorFields DEF Init
  <2>2. /\ stages[k].outputs.manifest = 1
        /\ k[2] \in Reporting => stages[k].outputs.report = 1
    BY <2>1 DEF FirstOutputs
  <2> QED
    BY <2>1, <2>2 DEF Init
<1>6. \A k \in PriorKeys : \A d \in Loaded(k) : d \in PriorKeys
  BY WorkspaceAssumption, KeysClosed DEF PriorKeys
<1>7. DependenciesLoad
  BY <1>2, <1>6, KeysClosed DEF DependenciesLoad
<1>8. BindingsCurrent
  <2>1. ASSUME NEW k \in PriorKeys, NEW d \in Dependencies(k)
        PROVE  Completed(d) /\ stages[k].input.dependencies[d] = Binding(stages[d])
    <3>1. k \in Keys /\ d \in Keys /\ d \in PriorKeys
      BY <1>6, KeysClosed DEF PriorKeys
    <3> QED
      BY <1>2, <3>1, WorkspaceAssumption DEF Init, PriorKeys
  <2> QED
    BY <1>2, <2>1 DEF BindingsCurrent
<1>9. OneOpener /\ OpeningBacked
  BY DEF Init, OneOpener, OpeningBacked, Idle, OpenSteps
<1>10. SealedGuarded
  <2> SUFFICES ASSUME NEW d \in Directions PROVE ~Has(<<d, "semantic_sealed">>)
    BY DEF SealedGuarded
  <2>1. <<d, "semantic_sealed">> \in Keys
    BY KeysClosed DEF Stages
  <2> QED
    BY <1>2, <2>1, WorkspaceAssumption DEF PriorKeys
<1> QED
  BY <1>1, <1>3, <1>4, <1>5, <1>7, <1>8, <1>9, <1>10 DEF Inductive

LEMMA InductiveStep == Inductive /\ [Next]_vars => Inductive'
<1> SUFFICES ASSUME Inductive, [Next]_vars PROVE Inductive'
  OBVIOUS
<1>1. TypeOK'
  BY TypeStep DEF Inductive
<1>2. Backing'
  BY BackingStep DEF Inductive, Backing
<1>3. CompletedIsPublished'
  BY PublishedStep DEF Inductive, Backing
<1>4. BindingsCurrent' /\ DependenciesLoad'
  BY GraphStep DEF Inductive
<1>5. Sealing' /\ SealedGuarded'
  BY SealStep, SealedGuardedStep DEF Inductive, Sealing
<1> QED
  BY <1>1, <1>2, <1>3, <1>4, <1>5 DEF Inductive, Backing, Sealing

\* The invariant of every run of the workspace, whatever its processes do.
THEOREM Invariant == Spec => []Inductive
<1> QED
  BY InductiveInit, InductiveStep, PTL DEF Spec

\* state.json, the work directories, the published files, the marker and what
\* each process holds are what their readers expect.
THEOREM TypeCorrect == Spec => []TypeOK
<1>1. Inductive => TypeOK
  BY DEF Inductive
<1> QED
  BY <1>1, Invariant, PTL

\* The evidence graph never has a stale edge: a stage that has begun is bound to
\* the outputs its dependencies are completed with.
THEOREM GraphCurrent == Spec => []BindingsCurrent
<1>1. Inductive => BindingsCurrent
  BY DEF Inductive
<1> QED
  BY <1>1, Invariant, PTL

\* complete_stage: the objects and the receipt of a completed stage are on disk,
\* wherever a process died.
THEOREM CompletionIsDurable == Spec => []CompletedIsPublished
<1>1. Inductive => CompletedIsPublished
  BY DEF Inductive
<1> QED
  BY <1>1, Invariant, PTL

\* SemanticSealedGuard.open_once: the payload is read once at most, after every
\* direction's validation.
THEOREM OpenedOnce == Spec => []SealedOpenedOnce
<1>1. Inductive => SealedOpenedOnce
  BY DEF Inductive, OneOpener, OpeningBacked, SealedOpenedOnce, Validated, Loadable
<1> QED
  BY <1>1, Invariant, PTL

\* The semantic guard: no direction is approved without the opened snapshot and
\* a receipt that binds every validation.
THEOREM ApprovedOnEvidence == Spec => []ApprovalHasEvidence
<1>1. Inductive => ApprovalHasEvidence
  <2> SUFFICES ASSUME Inductive, NEW d \in Directions,
                      Has(<<d, "semantic_sealed">>) \/ Has(<<d, "runtime_audit">>)
               PROVE  /\ marker = "opened" /\ snapshot
                      /\ openReceipt = [x \in Directions |-> stages[<<x, "validate">>].outputs]
                      /\ \A x \in Directions : Loadable(<<x, "validate">>)
                      /\ Loadable(Structure)
    BY DEF ApprovalHasEvidence
  <2>1. <<d, "runtime_audit">> \in Keys /\ <<d, "validate">> \in Keys
    BY KeysClosed DEF Stages
  <2>2. Has(<<d, "runtime_audit">>) => Loadable(<<d, "semantic_sealed">>)
    BY <2>1, NamedDependencies DEF Inductive, DependenciesLoad
  <2>3. Has(<<d, "semantic_sealed">>)
    BY <2>2 DEF Loadable, Completed
  <2>4. marker = "opened" /\ snapshot /\ openReceipt = ValidationOutputs /\ Validated
    BY <2>3 DEF Inductive, SealedGuarded, OpeningBacked
  <2>5. Loadable(<<d, "validate">>)
    BY <2>4 DEF Validated
  <2>6. Loadable(Structure)
    BY <2>1, <2>5, NamedDependencies DEF Inductive, DependenciesLoad, Loadable, Completed
  <2> QED
    BY <2>4, <2>6 DEF ValidationOutputs, Validated
<1> QED
  BY <1>1, Invariant, PTL

\* "preventing silent evidence drift": no step changes a completed stage or the
\* input of a stage that has begun.
THEOREM NoEvidenceDrift == Spec => EvidenceNeverDrifts
<1>1. Inductive /\ [Next]_vars => [NoDrift]_vars
  BY StepDoesNotDrift DEF Inductive
<1>2. [NoDrift]_vars <=> [\A k \in Keys : Has(k) =>
        /\ stages'[k].status # "absent"
        /\ stages'[k].input = stages[k].input
        /\ stages'[k].attempt >= stages[k].attempt
        /\ Completed(k) => stages'[k] = stages[k]]_vars
  BY DEF NoDrift
<1> QED
  BY <1>1, <1>2, Invariant, PTL DEF Spec, EvidenceNeverDrifts

=============================================================================
