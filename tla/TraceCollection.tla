---------------------------- MODULE TraceCollection ----------------------------
(***************************************************************************)
(* run_collect_stage: one trace record per row of a split.  The rows of a  *)
(* prefix group share one trace shard, collected once for the first of     *)
(* them, published by its content and then bound to every row by a         *)
(* checkpoint of its own.                                                  *)
(***************************************************************************)
EXTENDS StageAttempts

VARIABLES shardFile,        \* shards/<group>.safetensors in the work directory
          shardObjects,     \* the published shards
          traceCheckpoints, \* checkpoints/<sample>.json: the shard each row is bound to
          traceManifest     \* trace_manifest.json

collectFiles == <<shardFile, shardObjects, traceCheckpoints, traceManifest>>

NoShard == "none"
Shard(group, bytes) == [group |-> group, bytes |-> bytes]

CollectIdle == [row |-> 1, records |-> [r \in Rows |-> NoShard],
                assets |-> [g \in Groups |-> NoShard]]

CollectInit ==
  /\ shardFile = [g \in Groups |-> NoShard]
  /\ shardObjects = {}
  /\ traceCheckpoints = [r \in Rows |-> NoShard]
  /\ traceManifest = NoShard

-----------------------------------------------------------------------------
\* Up to the lease; the sample store has been read and its rows are in order.
BeginCollect(p) ==
  /\ Begin(p, {"collect"}, Changed(CollectIdle, [pc |-> "scan"]))
  /\ UNCHANGED collectFiles

\* _load_trace_checkpoint: a checkpoint whose shard is not a published object is
\* refused, and so is one that binds its group to a second shard.
ScanRow(p) ==
  /\ LET w     == workers[p]
         found == traceCheckpoints[w.row]
         group == PrefixGroup[w.row]
     IN  /\ At(p, "scan") /\ w.row \in Rows
         /\ Working(p, "scan",
              CASE found = NoShard -> [row |-> w.row + 1]
                [] found # NoShard /\ (\/ Shard(group, found) \notin shardObjects
                                       \/ w.assets[group] \notin {NoShard, found}) ->
                     [pc |-> "refused"]
                [] OTHER -> [row |-> w.row + 1,
                             records |-> [w.records EXCEPT ![w.row] = found],
                             assets |-> [w.assets EXCEPT ![group] = found]])
  /\ UNCHANGED collectFiles

ScanEnds(p) ==
  /\ At(p, "scan") /\ workers[p].row \notin Rows
  /\ Working(p, "scan", [pc |-> "collect"])
  /\ UNCHANGED collectFiles

\* missing_by_group in the order of the group ids, each group's rows in sample order.
Missing(p) == {r \in Rows : workers[p].records[r] = NoShard}
NextMissing(p) ==
  CHOOSE r \in Missing(p) : \A s \in Missing(p) :
    \/ PrefixGroup[r] < PrefixGroup[s]
    \/ PrefixGroup[r] = PrefixGroup[s] /\ r <= s

\* A group of which some row has been restored takes that row's shard.
MustCollect(p, group) == workers[p].assets[group] = NoShard

\* RealQwenTraceCollector.collect, for the group's first missing row: the shard is
\* written aside and renamed to the path that all attempts share.
CollectShard(p) ==
  /\ At(p, "collect") /\ Missing(p) # {}
  /\ LET group == PrefixGroup[NextMissing(p)]
     IN  /\ MustCollect(p, group)
         /\ \E b \in Bytes : shardFile' = [shardFile EXCEPT ![group] = b]
  /\ Working(p, "collect", [pc |-> "publish shard"])
  /\ UNCHANGED <<shardObjects, traceCheckpoints, traceManifest>>

\* Mutant: the shard is bound where it lies, and never published.
BindShardOnly(p) ==
  /\ LET group == PrefixGroup[NextMissing(p)]
         bytes == shardFile[group]
     IN  Working(p, "publish shard",
           [pc |-> "collect", assets |-> [workers[p].assets EXCEPT ![group] = bytes]])
  /\ UNCHANGED collectFiles

\* publish_file: what lies at the path now becomes an object.
PublishShard(p) ==
  /\ At(p, "publish shard")
  /\ LET group == PrefixGroup[NextMissing(p)]
         bytes == shardFile[group]
     IN  /\ shardObjects' = shardObjects \union {Shard(group, bytes)}
         /\ Working(p, "publish shard",
              [pc |-> "collect", assets |-> [workers[p].assets EXCEPT ![group] = bytes]])
  /\ UNCHANGED <<shardFile, traceCheckpoints, traceManifest>>

\* _write_trace_checkpoint for one row of the group.
WriteTraceCheckpoint(p) ==
  /\ At(p, "collect") /\ Missing(p) # {}
  /\ LET row   == NextMissing(p)
         group == PrefixGroup[row]
         bytes == workers[p].assets[group]
     IN  /\ ~MustCollect(p, group)
         /\ traceCheckpoints' = [traceCheckpoints EXCEPT ![row] = bytes]
         /\ Working(p, "collect", [records |-> [workers[p].records EXCEPT ![row] = bytes]])
  /\ UNCHANGED <<shardFile, shardObjects, traceManifest>>

\* V5TraceManifest.validate: every row of the split once, one shard per group.
ValidTraces(records) ==
  /\ \A r \in Rows : records[r] # NoShard
  /\ \A r, s \in Rows : PrefixGroup[r] = PrefixGroup[s] => records[r] = records[s]

WriteTraceManifest(p) ==
  /\ At(p, "collect") /\ Missing(p) = {} /\ ValidTraces(workers[p].records)
  /\ traceManifest' = workers[p].records
  /\ Working(p, "collect", [pc |-> "complete"])
  /\ UNCHANGED <<shardFile, shardObjects, traceCheckpoints>>

\* complete_stage publishes what lies at the manifest's path.
CompleteCollect(p) ==
  /\ At(p, "complete") /\ Finish(p, traceManifest)
  /\ UNCHANGED collectFiles

CollectStep(p) ==
  \/ BeginCollect(p) \/ ScanRow(p) \/ ScanEnds(p)
  \/ CollectShard(p) \/ PublishShard(p) \/ WriteTraceCheckpoint(p)
  \/ WriteTraceManifest(p) \/ CompleteCollect(p)

\* load_trace_shard for one record: the object is there, and it is its group's.
LoadsShard(records, row) == Shard(PrefixGroup[row], records[row]) \in shardObjects

\* load_completed_trace_manifest.
LoadsTraces(records) == ValidTraces(records)

-----------------------------------------------------------------------------
\* The traces of a completed collection hold every row, one shard for each prefix
\* group, and each shard can still be loaded, whatever attempts died or ran side by
\* side (run_collect_stage, load_trace_shard).
CompletedTracesLoad ==
  kind = "collect" /\ stage.status = "completed" =>
    /\ LoadsTraces(stage.outputs)
    /\ \A r \in Rows : LoadsShard(stage.outputs, r)
===============================================================================
