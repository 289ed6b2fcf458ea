-------------------------- MODULE MCCachedKVDriver --------------------------
(***************************************************************************)
(* CachedKVDriver on small prompts: an approved bridge, another approved   *)
(* one that may replace it, one whose evidence is of the wrong dataset,    *)
(* and a selective artifact at the path of a cached-KV manifest.           *)
(***************************************************************************)
EXTENDS CachedKVDriver, PlannerChecks

MCPrompts == {[source |-> <<1, 1, 2, 2, 3>>, target |-> <<1, 1, 2, 2, 4, 4>>],
              [source |-> <<1, 1>>, target |-> <<1, 2>>]}

MCSettings == {[resident |-> TRUE, unsafe |-> FALSE, maxChunks |-> 0],
               [resident |-> TRUE, unsafe |-> FALSE, maxChunks |-> 1],
               [resident |-> TRUE, unsafe |-> TRUE, maxChunks |-> 0],
               [resident |-> FALSE, unsafe |-> FALSE, maxChunks |-> 0]}

\* The requests that a resident worker answers.
MCResidentSettings == {s \in MCSettings : s.resident /\ ~s.unsafe}

MCBridge == [good |-> File(GoodBridge), other |-> File(OtherBridge), misfiled |-> File(MisfiledBridge),
             selective |-> [File(ApprovedArtifact) EXCEPT !.schema = "selective"]]
=============================================================================
