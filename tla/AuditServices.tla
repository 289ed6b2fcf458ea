---------------------------- MODULE AuditServices -----------------------------
(***************************************************************************)
(* RealQwenRuntimeAuditEvaluator as a context manager: what an attempt of   *)
(* the runtime audit starts before its first request, one service after the *)
(* other, and how _close takes it down again, whatever has been started by  *)
(* then and whichever of the stops fails.                                    *)
(***************************************************************************)
EXTENDS SemanticEvaluation

CONSTANT EvidenceStage \* the stage whose evidence the evaluator asks state.json for

\* "held" are the services that the evaluator's fields name, "running" those that run,
\* and "stuck" those whose stop has raised.
NoServices == [held |-> {}, running |-> {}, stuck |-> {}, failing |-> FALSE]

\* RuntimeAuditTelemetryCollector, and the sockets into it. "arrived" stands for
\* _seen: what the collector has read so far, duplicates and spoilt lines included.
\* "asked" lists the events of the requests made so far.
CollectorIdle ==
  [wire |-> {}, events |-> {}, arrived |-> {}, broken |-> FALSE, asked |-> {},
   awaited |-> <<>>, after |-> "none"]

\* assert_drained raises otherwise.
Drained(p) == ~workers[p].broken /\ workers[p].events = {}

Closing == {"close engine", "drain", "close collector", "close writer", "close server", "closed"}
AfterEvaluator ==
  {"idle", "raised", "rejected", "conclude", "report", "hash report", "artifact",
   "bind artifact", "manifest", "publish"}

\* Inside the with block, its __enter__ and its __exit__ included.
InEvaluator(p) == kind = "runtime_audit" /\ workers[p].pc \notin AfterEvaluator

Starts(p, pc, service, changes) ==
  Working(p, pc, Changed(changes, [held |-> workers[p].held \union {service},
                                   running |-> workers[p].running \union {service}]))

\* An exception on its way to _close.
Failing(p, running, stuck) ==
  /\ workers' = [workers EXCEPT ![p] =
                   [pc |-> "close engine", attempt |-> @.attempt, measured |-> <<>>,
                    held |-> @.held, running |-> running, stuck |-> stuck, failing |-> TRUE]]
  /\ UNCHANGED <<kind, stage, overlapped, evaluationFiles>>

-----------------------------------------------------------------------------
\* _load_bindings, and _verify_model_paths: the semantic evidence of the direction is
\* looked up again, by the name of its stage.
LoadBindings(p) ==
  /\ Working(p, "bind evidence",
             [pc |-> IF EvidenceStage = "semantic_sealed" THEN "start server" ELSE "unbound"])
  /\ UNCHANGED evaluationFiles

\* LMCacheMPServerProcess.start, up to the launch of the process.
LaunchServer(p) ==
  /\ Working(p, "start server", [pc |-> "await server", running |-> {"server"}])
  /\ UNCHANGED evaluationFiles

\* _wait_until_ready returns: only now does the evaluator hold the server.
ServerReady(p) ==
  /\ Working(p, "await server", [pc |-> "start collector", held |-> {"server"}])
  /\ UNCHANGED evaluationFiles

\* Mutant: a server that does not get ready is left to itself.
LeaveServer(p) == At(p, "await server") /\ Failing(p, workers[p].running, {})

\* The process exits, answers wrongly or not in time: start stops it itself. Its _stop
\* may raise when not even a kill ends the process in time.
ServerNotReady(p) ==
  /\ At(p, "await server")
  /\ \E stuck \in SUBSET {"server"} : Failing(p, stuck, stuck)

StartCollector(p) ==
  /\ Starts(p, "start collector", "collector", Changed(CollectorIdle, [pc |-> "start engine"]))
  /\ UNCHANGED evaluationFiles

\* _start_vllm.
StartEngine(p) ==
  /\ Starts(p, "start engine", "engine", [pc |-> "start writer"])
  /\ UNCHANGED evaluationFiles

\* _start_source_writer.
StartWriter(p) ==
  /\ Starts(p, "start writer", "writer", [pc |-> "load models"])
  /\ UNCHANGED evaluationFiles

\* _load_transformers_models, only after the engine's worker is a process of its own.
LoadModels(p) ==
  /\ At(p, "load models") /\ "engine" \in workers[p].held
  /\ Working(p, "load models", [pc |-> "prepare prefixes"])
  /\ UNCHANGED evaluationFiles

\* _prepare_prefix_assets: of each group, the prefix of its first row.
PreparePrefixes(p) ==
  LET first(group) == CHOOSE r \in Rows : /\ PrefixGroup[r] = group
                                          /\ \A s \in 1..r - 1 : PrefixGroup[s] # group
  IN  /\ Working(p, "prepare prefixes",
                 [pc |-> "warm up", assets |-> [g \in Groups |-> PrefixGroup[first(g)]]])
      /\ UNCHANGED evaluationFiles

\* Anything else may raise between __enter__ and __exit__.
Raise(p) ==
  /\ InEvaluator(p) /\ workers[p].pc \notin Closing \union {"await server"}
  /\ Failing(p, workers[p].running, {})

\* A step of _close: the field is cleared whether or not the stop raises.
StopService(p, pc, service, onward) ==
  /\ At(p, pc)
  /\ LET w == workers[p]
         mine == w.held \intersect {service}
     IN  \E stuck \in SUBSET mine :
           Working(p, pc, [pc |-> onward, held |-> w.held \ mine,
                           running |-> w.running \ (mine \ stuck),
                           stuck |-> w.stuck \union stuck])
  /\ UNCHANGED evaluationFiles

StopEngine(p) == StopService(p, "close engine", "engine", "drain")
CloseCollector(p) == StopService(p, "close collector", "collector", "close writer")
CloseWriter(p) == StopService(p, "close writer", "writer", "close server")
StopServer(p) == StopService(p, "close server", "server", "closed")

\* The collector must be drained, the engine being down, unless an exception is on its way.
DrainOnClose(p) ==
  /\ Working(p, "drain", [pc |-> "close collector",
                          failing |-> workers[p].failing \/ ~Drained(p)])
  /\ UNCHANGED evaluationFiles

\* The end of _close: the errors of the stops are raised, or the earlier exception goes on.
EndClose(p) ==
  /\ Working(p, "closed",
             IF workers[p].failing \/ workers[p].stuck # {} THEN [pc |-> "raised"] ELSE Onward(p))
  /\ UNCHANGED evaluationFiles

ServiceStep(p) ==
  \/ LoadBindings(p) \/ LaunchServer(p) \/ ServerReady(p) \/ ServerNotReady(p)
  \/ StartCollector(p) \/ StartEngine(p) \/ StartWriter(p) \/ LoadModels(p)
  \/ PreparePrefixes(p) \/ Raise(p)
  \/ StopEngine(p) \/ DrainOnClose(p) \/ CloseCollector(p) \/ CloseWriter(p)
  \/ StopServer(p) \/ EndClose(p)

-----------------------------------------------------------------------------
\* An attempt of the audit that is out of its evaluator, be it to go on or to fail, runs
\* nothing of what it had started, at whatever step an exception met it, but for the
\* services whose own stop has raised; and then it does not go on
\* (RealQwenRuntimeAuditEvaluator._close, LMCacheMPServerProcess.start).
NothingLeftRunning ==
  kind = "runtime_audit" => \A p \in {q \in Processes : ~At(q, "idle") /\ ~InEvaluator(q)} :
    /\ workers[p].running \subseteq workers[p].stuck
    /\ ~At(p, "raised") => workers[p].stuck = {}
===============================================================================
