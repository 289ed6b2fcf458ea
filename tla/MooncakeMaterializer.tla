------------------------ MODULE MooncakeMaterializer ------------------------
(***************************************************************************)
(* The cached-KV materializer writing translated chunks to Mooncake: each  *)
(* writer process runs materialize_cached_qwen3 over its batch of target   *)
(* keys (all absent, put, verify, cost gate, publish), rolls the batch     *)
(* back on any failure, and may be killed between any two steps.  The      *)
(* LMCache adapter learns the published keys from the external index file. *)
(* An attempt is a pair <<writer, n>>: the n-th request of that writer.    *)
(***************************************************************************)
EXTENDS Naturals, Sequences, FiniteSets, SequencesExt

CONSTANTS Writers,      \* materializer processes sharing a store and an index
          Keys,         \* Mooncake object keys of the target namespace
          BatchOf,      \* the target keys of the prefix a writer is asked for
          MaxRequests,  \* bound: requests served by each writer
          Absent, NoWriter

ASSUME BatchAssumption == BatchOf \in [Writers -> (SUBSET Keys) \ {{}}]
ASSUME RequestAssumption == MaxRequests \in Nat \ {0}
ASSUME NullAssumption == Absent \notin Writers \X (1..MaxRequests) /\ NoWriter \notin Writers

VARIABLES objects,   \* Mooncake: which attempt stored the object of a key
          index,     \* the external index file: the batches, one per attempt
          lock,      \* holder of flock on the index's lock file
          pc,        \* where a writer is in materialize_cached_qwen3
          todo,      \* keys left in the current put or rollback loop
          putFailed, \* some put of the batch returned a nonzero code
          staged,    \* the index content a publisher read under the lock
          outcome,   \* how the writer's requests ended, in order
          leftover,  \* keys whose rollback reported -1, per attempt
          known,     \* LMCache adapter: keys it believes are stored
          offset     \* LMCache adapter: how much of the index it has read

writerVars == <<pc, todo, putFailed, staged, outcome, leftover>>
adapterVars == <<known, offset>>
vars == <<objects, index, lock, writerVars, adapterVars>>

Stages == {"idle", "transforming", "putting", "verifying", "gating",
           "locking", "replacing", "published", "rollback"}
Attempts == Writers \X (1..MaxRequests)

Attempt(w) == <<w, Len(outcome[w]) + 1>>
Present(k) == objects[k] # Absent
BatchKeys(batches) == UNION {BatchOf[batches[i][1]] : i \in DOMAIN batches}

Init ==
  /\ objects = [k \in Keys |-> Absent]
  /\ index = <<>>
  /\ lock = NoWriter
  /\ pc = [w \in Writers |-> "idle"]
  /\ todo = [w \in Writers |-> {}]
  /\ putFailed = [w \in Writers |-> FALSE]
  /\ staged = [w \in Writers |-> <<>>]
  /\ outcome = [w \in Writers |-> <<>>]
  /\ leftover = [a \in Attempts |-> {}]
  /\ known = {}
  /\ offset = 0

-----------------------------------------------------------------------------
(* One request of a writer.                                                *)

Goto(w, stage) == pc' = [pc EXCEPT ![w] = stage]

\* The request ends: its reply (or its death) is recorded, its locals are gone.
End(w, how) ==
  /\ Goto(w, "idle")
  /\ outcome' = [outcome EXCEPT ![w] = Append(@, how)]
  /\ todo' = [todo EXCEPT ![w] = {}]
  /\ putFailed' = [putFailed EXCEPT ![w] = FALSE]
  /\ staged' = [staged EXCEPT ![w] = <<>>]

\* Every failure after the first put takes the whole batch back.
BeginRollback(w) ==
  /\ Goto(w, "rollback")
  /\ todo' = [todo EXCEPT ![w] = BatchOf[w]]
  /\ putFailed' = [putFailed EXCEPT ![w] = FALSE]
  /\ staged' = [staged EXCEPT ![w] = <<>>]
  /\ UNCHANGED <<outcome, leftover>>

\* Validation and the resident bridge load passed; the source objects are read.
Accept(w) ==
  /\ pc[w] = "idle" /\ Len(outcome[w]) < MaxRequests
  /\ Goto(w, "transforming")
  /\ UNCHANGED <<objects, index, lock, todo, putFailed, staged, outcome, leftover, adapterVars>>

\* A refused request, an inexact source read or a bridge error: no target I/O.
FailBeforeWrite(w) ==
  /\ pc[w] = "transforming"
  /\ End(w, "fallback")
  /\ UNCHANGED <<objects, index, lock, leftover, adapterVars>>

\* Mutant: objects already there are taken as usable.
CheckAbsentAny(w) ==
  /\ pc[w] = "transforming"
  /\ Goto(w, "putting")
  /\ todo' = [todo EXCEPT ![w] = BatchOf[w]]
  /\ UNCHANGED <<putFailed, staged, outcome>>
  /\ UNCHANGED <<objects, index, lock, leftover, adapterVars>>

\* batch_is_exist: the write begins only when every target object is absent.
CheckAbsent(w) ==
  /\ pc[w] = "transforming"
  /\ \/ /\ \A k \in BatchOf[w] : ~Present(k)
        /\ Goto(w, "putting")
        /\ todo' = [todo EXCEPT ![w] = BatchOf[w]]
        /\ UNCHANGED <<putFailed, staged, outcome>>
     \/ /\ \E k \in BatchOf[w] : Present(k)
        /\ End(w, "fallback")
  /\ UNCHANGED <<objects, index, lock, leftover, adapterVars>>

\* One object of batch_put_from.  A put that returns zero leaves an object
\* under the key (this one, or the one already there); a put that fails may
\* nevertheless have stored it.
PutObject(w, k) ==
  /\ pc[w] = "putting" /\ k \in todo[w]
  /\ \E acked, stored \in BOOLEAN :
       /\ acked => stored \/ Present(k)
       /\ objects' = IF stored THEN [objects EXCEPT ![k] = Attempt(w)] ELSE objects
       /\ putFailed' = [putFailed EXCEPT ![w] = @ \/ ~acked]
  /\ todo' = [todo EXCEPT ![w] = @ \ {k}]
  /\ UNCHANGED <<index, lock, pc, staged, outcome, leftover, adapterVars>>

\* Mutant: a partly failed batch is left for a later request to complete.
PutDoneKeepsPartial(w) ==
  /\ pc[w] = "putting" /\ todo[w] = {}
  /\ \/ /\ putFailed[w]
        /\ End(w, "fallback")
        /\ UNCHANGED leftover
     \/ /\ ~putFailed[w]
        /\ Goto(w, "verifying")
        /\ UNCHANGED <<todo, putFailed, staged, outcome, leftover>>
  /\ UNCHANGED <<objects, index, lock, adapterVars>>

\* write_many_exact inspects the results of the whole batch.
PutDone(w) ==
  /\ pc[w] = "putting" /\ todo[w] = {}
  /\ \/ /\ putFailed[w]
        /\ BeginRollback(w)
     \/ /\ ~putFailed[w]
        /\ Goto(w, "verifying")
        /\ UNCHANGED <<todo, putFailed, staged, outcome, leftover>>
  /\ UNCHANGED <<objects, index, lock, adapterVars>>

\* get_size of every key must return the payload's size; the call may also raise.
Verify(w) ==
  /\ pc[w] = "verifying"
  /\ \/ /\ \A k \in BatchOf[w] : Present(k)
        /\ Goto(w, "gating")
        /\ UNCHANGED <<todo, putFailed, staged, outcome, leftover>>
     \/ BeginRollback(w)
  /\ UNCHANGED <<objects, index, lock, adapterVars>>

\* The measured ratio to native prefill decides between publishing and rollback;
\* the lock file may also fail to open.
CostGate(w) ==
  /\ pc[w] = "gating"
  /\ \/ /\ Goto(w, "locking")
        /\ UNCHANGED <<todo, putFailed, staged, outcome, leftover>>
     \/ BeginRollback(w)
  /\ UNCHANGED <<objects, index, lock, adapterVars>>

\* Mutant: the index is rewritten without the lock file.
LockIndexFree(w) ==
  /\ pc[w] = "locking"
  /\ lock' = w
  /\ staged' = [staged EXCEPT ![w] = index]
  /\ Goto(w, "replacing")
  /\ UNCHANGED <<objects, index, todo, putFailed, outcome, leftover, adapterVars>>

\* publish_external_index takes the lock and reads the existing index.
LockIndex(w) ==
  /\ pc[w] = "locking" /\ lock = NoWriter
  /\ lock' = w
  /\ staged' = [staged EXCEPT ![w] = index]
  /\ Goto(w, "replacing")
  /\ UNCHANGED <<objects, index, todo, putFailed, outcome, leftover, adapterVars>>

\* Mutant: the failed publisher keeps the lock.
FailPublishKeepsLock(w) ==
  /\ pc[w] = "replacing"
  /\ UNCHANGED lock
  /\ BeginRollback(w)
  /\ UNCHANGED <<objects, index, adapterVars>>

\* A partial last record, or an OSError while the temporary file is opened,
\* written or synced: the lock file's handle is closed, which drops the lock, and
\* the targets are rolled back.
FailPublish(w) ==
  /\ pc[w] = "replacing"
  /\ lock' = NoWriter
  /\ BeginRollback(w)
  /\ UNCHANGED <<objects, index, adapterVars>>

\* os.replace makes the existing records and the batch's records visible at once.
ReplaceIndex(w) ==
  /\ pc[w] = "replacing"
  /\ index' = Append(staged[w], Attempt(w))
  /\ Goto(w, "published")
  /\ UNCHANGED <<objects, lock, todo, putFailed, staged, outcome, leftover, adapterVars>>

\* Mutant: an error of the directory fsync, after the replace, is not
\* suppressed and reaches the rollback.
ReplyAfterDirectorySync(w) ==
  /\ pc[w] = "published"
  /\ lock' = IF lock = w THEN NoWriter ELSE lock
  /\ \/ End(w, "success") /\ UNCHANGED leftover
     \/ BeginRollback(w)
  /\ UNCHANGED <<objects, index, adapterVars>>

\* The directory fsync's errors are suppressed, the lock is dropped, and the
\* success reply is returned.
Reply(w) ==
  /\ pc[w] = "published"
  /\ lock' = IF lock = w THEN NoWriter ELSE lock
  /\ End(w, "success")
  /\ UNCHANGED <<objects, index, leftover, adapterVars>>

\* remove(key, force) succeeded, or the key was already absent.
RemoveObject(w, k) ==
  /\ pc[w] = "rollback" /\ k \in todo[w]
  /\ objects' = [objects EXCEPT ![k] = Absent]
  /\ todo' = [todo EXCEPT ![w] = @ \ {k}]
  /\ UNCHANGED <<index, lock, pc, putFailed, staged, outcome, leftover, adapterVars>>

\* Rollback returns when nothing is pending or its deadline has passed; the
\* keys still pending are the ones it reports as -1.
FinishRollback(w) ==
  /\ pc[w] = "rollback"
  /\ leftover' = [leftover EXCEPT ![Attempt(w)] = todo[w]]
  /\ End(w, "fallback")
  /\ UNCHANGED <<objects, index, lock, adapterVars>>

\* Mutant: a killed publisher leaves its lock behind.
CrashKeepsLock(w) ==
  /\ pc[w] # "idle"
  /\ End(w, "crash")
  /\ UNCHANGED <<objects, index, lock, leftover, adapterVars>>

\* The process dies between two steps: flock goes with it, nothing else does.
Crash(w) ==
  /\ pc[w] # "idle"
  /\ lock' = IF lock = w THEN NoWriter ELSE lock
  /\ End(w, "crash")
  /\ UNCHANGED <<objects, index, leftover, adapterVars>>

-----------------------------------------------------------------------------
(* The LMCache adapter.                                                    *)

\* The part of the index beyond the offset; a shrunken file is read again.
Unread == IF Len(index) < offset THEN index ELSE SubSeq(index, offset + 1, Len(index))

\* submit_lookup_and_lock_task: every new index record becomes a known key.
Lookup ==
  /\ Unread # <<>>
  /\ known' = known \union BatchKeys(Unread)
  /\ offset' = Len(index)
  /\ UNCHANGED <<objects, index, lock, writerVars>>

WriterStep(w) ==
  \/ FailBeforeWrite(w) \/ CheckAbsent(w) \/ PutDone(w) \/ Verify(w) \/ CostGate(w)
  \/ LockIndex(w) \/ FailPublish(w) \/ ReplaceIndex(w) \/ Reply(w) \/ FinishRollback(w)
  \/ \E k \in Keys : PutObject(w, k) \/ RemoveObject(w, k)

Next ==
  \/ \E w \in Writers : Accept(w) \/ WriterStep(w) \/ Crash(w)
  \/ Lookup

Spec == Init /\ [][Next]_vars

\* A live process keeps executing: no step of a request waits for a caller,
\* every Mooncake call returns, and the rollback loop has a deadline.
FairSpec == Spec /\ \A w \in Writers : WF_vars(WriterStep(w))

-----------------------------------------------------------------------------
TypeOK ==
  /\ objects \in [Keys -> Attempts \union {Absent}]
  /\ index \in Seq(Attempts)
  /\ lock \in Writers \union {NoWriter}
  /\ pc \in [Writers -> Stages]
  /\ \A w \in Writers : todo[w] \subseteq BatchOf[w] /\ putFailed[w] \in BOOLEAN
  /\ staged \in [Writers -> Seq(Attempts)]
  /\ \A w \in Writers : outcome[w] \in Seq({"success", "fallback", "crash"})
                        /\ Len(outcome[w]) <= MaxRequests
  /\ leftover \in [Attempts -> SUBSET Keys]
  /\ known \subseteq Keys /\ offset \in Nat
  /\ \A w \in Writers : lock = w <=> pc[w] \in {"replacing", "published"}

Ended(a, how) == a[2] \in DOMAIN outcome[a[1]] /\ outcome[a[1]][a[2]] = how

\* A request that falls back leaves in Mooncake none of the objects it wrote,
\* except the ones its rollback reported as not removed: a partly acknowledged
\* put, a size mismatch, a failed cost gate and a failed publication all undo
\* the whole batch, the keys whose put returned an error included.
FallbackLeavesNothing ==
  \A a \in Attempts : Ended(a, "fallback") =>
     \A k \in Keys : objects[k] = a => k \in leftover[a]

\* A reply agrees with the index: a success is published and stays published,
\* whatever other publishers do to the same file, and a fallback never is.
ReplyMatchesIndex ==
  \A a \in Attempts :
     /\ Ended(a, "success") => a \in Range(index)
     /\ Ended(a, "fallback") => a \notin Range(index)

\* Publication only appends: no step drops or reorders a record that a reader's
\* byte offset may already be past.
IndexOnlyGrows == [][IsPrefix(index, index')]_index

\* Every key LMCache has learned from the index, or can learn from it now, has
\* its object in Mooncake: no rollback removes a target that LMCache observes.
ObservedKeysStored == \A k \in known \union BatchKeys(index) : Present(k)

\* Every accepted request ends, even when another publisher dies holding the
\* index lock or Mooncake refuses every removal.
RequestsEnd == \A w \in Writers : pc[w] # "idle" ~> pc[w] = "idle"
=============================================================================
