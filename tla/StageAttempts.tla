----------------------------- MODULE StageAttempts -----------------------------
(***************************************************************************)
(* What the long stages of the v5 pipeline have in common.  A command line *)
(* process leases the stage and works in the stage's directory, where each *)
(* unit of work leaves a checkpoint.  It may die or fail at any step, and  *)
(* the next attempt goes on from the files it finds, also while an earlier *)
(* process still runs: V5Pipeline's ResumeStage allows that.  One behaviour *)
(* is the life of one stage; "kind" says which.                            *)
(***************************************************************************)
EXTENDS Integers, Sequences, FiniteSets, SequencesExt

CONSTANTS Processes,    \* command line processes
          Kinds,        \* the stages looked at
          PrefixGroup,  \* the split's records in sample order: the prefix group of each
          Overlapping,  \* bound: the stages of which two attempts may be alive at once
          Bytes,        \* what a computation that need not be repeatable may yield
          MaxAttempts   \* bound: attempts of the stage

Rows == DOMAIN PrefixGroup
Groups == Range(PrefixGroup)

ASSUME StageAssumption ==
  /\ PrefixGroup \in Seq(Groups) /\ Rows # {}
  /\ MaxAttempts \in Nat

VARIABLES kind,       \* which stage this is, with its parameters
          stage,      \* the stage's record in state.json
          workers,    \* per process its step and what it holds in memory
          overlapped  \* whether two attempts have ever been alive at once

frame == <<kind, stage, workers, overlapped>>

Idle == [pc |-> "idle", attempt |-> 0]

FrameInit ==
  /\ kind \in Kinds
  /\ stage = [status |-> "absent", attempt |-> 0, outputs |-> <<>>]
  /\ workers = [p \in Processes |-> Idle]
  /\ overlapped = FALSE

None == [kind |-> "none"]

\* A record with some fields changed and others added.
Changed(record, changes) ==
  LET changed == DOMAIN changes
  IN  [f \in changed \union DOMAIN record |->
         IF f \in changed THEN changes[f] ELSE record[f]]

At(p, pc) == workers[p].pc = pc
Move(p, changes) == workers' = [workers EXCEPT ![p] = Changed(@, changes)]

\* A step that changes its process and files, and not the stage's record.
Working(p, pc, changes) ==
  /\ At(p, pc) /\ Move(p, changes)
  /\ UNCHANGED <<kind, stage, overlapped>>

Lease(p) == stage.status = "running" /\ stage.attempt = workers[p].attempt

\* begin_stage: a first attempt, or resume=True on a failed or running stage. A
\* completed one is reused.
Begin(p, stages, changes) ==
  /\ At(p, "idle") /\ kind \in stages
  /\ stage.status # "completed" /\ stage.attempt < MaxAttempts
  /\ kind \in Overlapping \/ \A q \in Processes : At(q, "idle")
  /\ stage' = [stage EXCEPT !.status = "running", !.attempt = @ + 1]
  /\ Move(p, Changed(changes, [attempt |-> stage.attempt + 1]))
  /\ overlapped' = (overlapped \/ \E q \in Processes : ~At(q, "idle"))
  /\ UNCHANGED kind

\* The end of complete_stage: a superseded attempt cannot.
Finish(p, outputs) ==
  /\ Lease(p)
  /\ stage' = [stage EXCEPT !.status = "completed", !.outputs = outputs]
  /\ workers' = [workers EXCEPT ![p] = Idle]
  /\ UNCHANGED <<kind, overlapped>>

\* Any step may raise: fail_stage, whose own error for a superseded lease is suppressed.
FailStage(p) ==
  /\ ~At(p, "idle")
  /\ stage' = IF Lease(p) THEN [stage EXCEPT !.status = "failed"] ELSE stage
  /\ workers' = [workers EXCEPT ![p] = Idle]
  /\ UNCHANGED <<kind, overlapped>>

\* The process dies, or raises where nothing marks the stage failed.
Crash(p) ==
  /\ ~At(p, "idle")
  /\ workers' = [workers EXCEPT ![p] = Idle]
  /\ UNCHANGED <<kind, stage, overlapped>>
===============================================================================
