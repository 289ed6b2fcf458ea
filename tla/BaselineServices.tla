-------------------------- MODULE BaselineServices --------------------------
(***************************************************************************)
(* ProcessGroup of runtime/kv_baseline/services.py: the service processes  *)
(* of one run.  The group holds one handle per service; a handle is only   *)
(* assigned, overwritten or dropped by the steps below, and a process      *)
(* whose handle is dropped can no longer be stopped by the run.            *)
(***************************************************************************)
EXTENDS SequencesExt

VARIABLES held,     \* the services the group holds a handle of
          running   \* those with a process the run has not seen exit

group == <<held, running>>

Services == {"engine", "lmcache", "master", "metadata"}

\* Processes are started under the handles `started`; those the group held
\* before are overwritten.  When every port answers in time and no process has
\* exited by then the services are ready; otherwise the wait raises, with any of
\* them still running.
Start(started, ready) ==
  /\ held' = held \union started
  /\ running' \in {(running \ started) \union up : up \in IF ready THEN {started} ELSE SUBSET started}

\* start_mooncake_services and wait_for_mooncake_ready: a master with an embedded
\* metadata server, or, when that master exits at once, another one next to a
\* metadata server of its own.
StartMooncake(ready) ==
  \/ Start({"master"}, ready)
  \/ Start({"master", "metadata"}, ready)

StartLMCache(ready) == Start({"lmcache"}, ready)

StartEngine(ready) == Start({"engine"}, ready)

\* _stop_process over the handles in order, each dropped once its process has
\* exited, by itself or by SIGTERM or SIGKILL.
Stop(order) ==
  /\ held' = held \ Range(order)
  /\ running' = running \ Range(order)

\* A process of the order outlives SIGKILL: the wait raises, its handle is kept
\* and the later ones are not stopped.
StopRaises(order) ==
  \E n \in 1..Len(order) :
    /\ order[n] \in running
    /\ Stop(SubSeq(order, 1, n - 1))
=============================================================================
