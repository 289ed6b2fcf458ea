--------------------------- MODULE PromptPrefixes ---------------------------
(***************************************************************************)
(* runtime/cross_model_reuse.py: how a target prompt is bound to the       *)
(* lookup record the source engine left, and what the materializer checks  *)
(* of that binding again.  A rolling hash covers the tokens up to the end  *)
(* of its chunk, so the hash of a chunk is the prompt up to there.         *)
(***************************************************************************)
EXTENDS Integers, Sequences, SequencesExt, FiniteSetsExt

\* lmcache_chunk_hashes: complete chunks only.
ChunkHashes(tokens, size) ==
  [i \in 1..(Len(tokens) \div size) |-> SubSeq(tokens, 1, i * size)]

\* common_chunk_hash_prefix.
CommonPrefix(left, right) == LongestCommonPrefix({left, right})

\* Request ids are sequences of their dash-separated parts: _request_ids_match.
RequestIdsMatch(recordId, expected) == IsPrefix(expected, recordId)

\* _lookup_record_matches, with everything that is expected of the record.
RecordMatches(r, model, request, hashes, length, size, minChunks) ==
  /\ Len(r.hashes) >= minChunks
  /\ r.model = model
  /\ RequestIdsMatch(r.request, request)
  /\ r.length = length /\ r.chunkSize = size
  /\ Len(r.hashes) = length \div size
  /\ r.hashes = hashes

\* select_lookup_candidate: the last by time, the first logged among equals.
Candidates(log, model, request, hashes, length, size, minChunks) ==
  IF minChunks <= 0 THEN {}
  ELSE LET matching == {i \in DOMAIN log :
                          RecordMatches(log[i], model, request, hashes, length, size, minChunks)}
           latest == {i \in matching : \A j \in matching : log[j].time <= log[i].time}
       IN IF matching = {} THEN {} ELSE {log[Min(latest)]}

\* select_shared_prefix_candidate.
SharedCandidates(log, model, request, source, target, size, minChunks) ==
  LET sourceHashes == ChunkHashes(source, size)
      shared == CommonPrefix(sourceHashes, ChunkHashes(target, size))
  IN {[record |-> r, hashes |-> shared,
       binding |-> [response |-> request, lookup |-> r.request,
                    tokens |-> Len(source), source |-> source,
                    targetTokens |-> Len(target), target |-> target, chunkSize |-> size,
                    chunks |-> Len(shared), sharedTokens |-> Len(shared) * size]] :
      r \in {c \in Candidates(log, model, request, sourceHashes, Len(source), size, minChunks) :
               Len(shared) >= minChunks}}

\* _validate_lookup_record, in the materializer.  layout is the shape and dtype
\* of the source objects.
RecordFits(r, model, hashes, size, layout) ==
  /\ r.hashes # <<>> /\ IsInjective(r.hashes)
  /\ r.model = model
  /\ IsPrefix(hashes, r.hashes)
  /\ r.chunkSize = size
  /\ r.length >= 0 /\ Len(r.hashes) = r.length \div size
  /\ r.layout = layout

\* _validate_prompt_binding.
BindingFits(b, r, hashes) ==
  /\ b.response # <<>> /\ RequestIdsMatch(r.request, b.response)
  /\ b.lookup = r.request
  /\ b.tokens = r.length /\ b.chunkSize = r.chunkSize
  /\ b.targetTokens >= Len(hashes) * b.chunkSize
  /\ b.chunks = Len(hashes) /\ b.sharedTokens = Len(hashes) * b.chunkSize
=============================================================================
