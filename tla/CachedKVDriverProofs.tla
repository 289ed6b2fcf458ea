------------------------ MODULE CachedKVDriverProofs ------------------------
(***************************************************************************)
(* Safety of a run of the driver for every pair of prompts, every setting, *)
(* every chunk size, any files at the bridge's path and any number of      *)
(* their replacements.                                                     *)
(***************************************************************************)
EXTENDS CachedKVDriver, FiniteSetTheorems, WellFoundedInduction, TLAPS

USE DEF vars, inputs, plan, source, files, environment, service, store, workerVars, outcome, evidence,
        group

(* The chunks every request of this run asks for, and the lines the worker *)
(* may answer with.                                                        *)
Keys == RequestedChunks(SharedChunks(prompts))
Lines == {Fallback, Preloaded, Injected(Keys)}

(* At most one request before the preload's wait has ended and one more    *)
(* after it are read, served or answered but not yet received.             *)
Outstanding == Len(stdin) + Len(pipe) + Len(buffer) + (IF busy = "none" THEN 0 ELSE 1)
BeforePreload == {"plan", "planning", "preload"}
BeforeRequest == {"preloading", "mooncake", "lmcache", "native", "lookup", "materialize"}
Allowed == IF phase \in BeforePreload THEN 0 ELSE IF phase \in BeforeRequest THEN 1 ELSE 2

ControlTyped ==
  /\ phase \in Phases
  /\ settings \in Settings /\ prompts \in Prompts
  /\ running \subseteq held /\ held \subseteq Services
  /\ planned \in Names /\ disk \in DOMAIN Bridge /\ replaced \in 0..MaxReplacements
  /\ executable \in BOOLEAN

WorkerTyped ==
  /\ alive \in BOOLEAN /\ (alive => settings.resident)
  /\ stdin \in Seq(Requests) /\ busy \in Requests \union {"none"}
  /\ loaded \in Names /\ (loaded # NoBridge => busy # "none")
  /\ \A entry \in resident : entry.bridge \in DOMAIN Bridge
  /\ pipe \in Seq(Lines) /\ buffer \in Seq(Lines) /\ reply \in Lines
  /\ Outstanding <= Allowed

RecordTyped ==
  /\ {p.hash : p \in published} \union prior \subseteq stored
  /\ metric \subseteq {external}
  /\ targetPhase \in {"none", "target_reuse", "target_fallback"}
  /\ status \in {"none", "cross_model_reuse_success", "quality_validation_failed",
                 "runtime_validation_failed", "fallback"}

(* The bound record covers the shared chunks, and there is at least one.   *)
CandidateShared == \A c \in candidate : c.hashes = SharedChunks(prompts) /\ Len(c.hashes) >= 1

(* What this run has published is all of a request or nothing, with an     *)
(* approved bridge and over nothing an earlier run had listed.             *)
PublishedWhole ==
  /\ \A p \in published : p.hash \notin prior /\ p.bridge \in LoadableBridges
  /\ published # {} => Keys # <<>> /\ {p.hash : p \in published} = Range(Keys)

Seen == Range(pipe) \union Range(buffer) \union {reply}

(* A line that says injected is written only after the publication, so it  *)
(* does not matter which request the client takes it for.                  *)
AnsweredAfterPublication == Injected(Keys) \in Seen => published # {}

Late == {"engine", "evaluate", "stop", "close", "done", "raised"}
Ending == {"stop", "close", "done", "raised"}

(* The target phase is chosen once, from the reply that is judged later.   *)
ChosenFromReply ==
  /\ targetPhase # "none" =>
       phase \in Late /\ targetPhase = IF reply.injected THEN "target_reuse" ELSE "target_fallback"
  /\ phase \in {"engine", "evaluate"} => targetPhase # "none"

JudgedOnTokens ==
  /\ status # "none" => phase \in Ending
  /\ status = "cross_model_reuse_success" =>
       targetPhase = "target_reuse" /\ external = Len(reply.keys) * ChunkSize

IInv ==
  /\ ControlTyped /\ WorkerTyped /\ RecordTyped
  /\ CandidateShared /\ PublishedWhole /\ AnsweredAfterPublication
  /\ ChosenFromReply /\ JudgedOnTokens

-----------------------------------------------------------------------------
(* What the operators on prompts return.                                   *)

\* Every set of natural numbers that is not empty has a greatest element if it
\* is bounded.
LEMMA GreatestNatural ==
  ASSUME NEW T \in SUBSET Nat, T # {}, NEW bound \in Nat, \A n \in T : n <= bound
  PROVE  \E n \in T : \A m \in T : m <= n
<1> DEFINE Gaps == {bound - n : n \in T}
<1>1. Gaps \subseteq Nat /\ Gaps # {}
  <2>1. \A n \in T : bound - n \in Nat
    OBVIOUS
  <2> QED
    BY <2>1
<1>2. PICK gap \in Gaps : \A other \in Gaps : ~(<<other, gap>> \in OpToRel(<, Nat))
  <2> HIDE DEF Gaps
  <2> QED
    BY <1>1, NatLessThanWellFounded, WFMin
<1>3. \A other \in Gaps : gap <= other
  <2> HIDE DEF Gaps
  <2> TAKE other \in Gaps
  <2>1. <<other, gap>> \notin {pair \in Nat \X Nat : pair[1] < pair[2]}
    BY <1>2 DEF OpToRel
  <2>2. other \in Nat /\ gap \in Nat
    BY <1>1
  <2> QED
    BY <2>1, <2>2
<1>4. PICK n \in T : gap = bound - n
  OBVIOUS
<1>5. \A m \in T : m <= n
  <2> TAKE m \in T
  <2>1. gap <= bound - m
    BY <1>3
  <2> QED
    BY <2>1, <1>4
<1> QED
  BY <1>5

LEMMA SelfPrefix ==
  ASSUME NEW S, NEW s \in Seq(S), NEW n \in 0..Len(s)
  PROVE  /\ SubSeq(s, 1, n) \in Seq(S) /\ Len(SubSeq(s, 1, n)) = n
         /\ \A i \in 1..n : SubSeq(s, 1, n)[i] = s[i]
         /\ IsPrefix(SubSeq(s, 1, n), s)
  BY DEF IsPrefix

LEMMA PrefixElements ==
  ASSUME NEW S, NEW s \in Seq(S), NEW t \in Seq(S), IsPrefix(s, t)
  PROVE  Len(s) <= Len(t) /\ \A i \in 1..Len(s) : s[i] = t[i]
<1>1. Len(s) \in Nat /\ Len(t) \in Nat /\ Len(s) <= Len(t)
      /\ SubSeq(s, 1, Len(s)) = SubSeq(t, 1, Len(s))
  BY DEF IsPrefix
<1>2. \A i \in 1..Len(s) : SubSeq(s, 1, Len(s))[i] = s[i] /\ SubSeq(t, 1, Len(s))[i] = t[i]
  BY <1>1, SelfPrefix
<1> QED
  BY <1>1, <1>2

\* common_chunk_hash_prefix returns a prefix of both.
LEMMA CommonPrefixIsPrefix ==
  ASSUME NEW S, NEW s \in Seq(S), NEW t \in Seq(S)
  PROVE  /\ CommonPrefix(s, t) \in Seq(S)
         /\ IsPrefix(CommonPrefix(s, t), s) /\ IsPrefix(CommonPrefix(s, t), t)
<1> DEFINE P == UNION {Prefixes(seq) : seq \in {s, t}}
           C == CommonPrefixes({s, t})
           Lengths == {Len(p) : p \in C}
<1>1. \A p \in P : p \in Seq(S)
  <2> SUFFICES ASSUME NEW seq \in {s, t}, NEW n \in 0..Len(seq) PROVE SubSeq(seq, 1, n) \in Seq(S)
    BY DEF Prefixes
  <2> QED
    BY SelfPrefix
<1>2. C = {p \in P : IsPrefix(p, s) /\ IsPrefix(p, t)}
  BY DEF CommonPrefixes
<1>3. \A p \in C : p \in Seq(S) /\ Len(p) \in Nat /\ Len(p) <= Len(s)
  BY <1>1, <1>2 DEF IsPrefix
<1>4. SubSeq(s, 1, 0) \in C
  <2>1. SubSeq(s, 1, 0) \in P
    BY DEF Prefixes
  <2>2. SubSeq(s, 1, 0) = <<>> /\ SubSeq(t, 1, 0) = <<>>
    OBVIOUS
  <2>3. IsPrefix(SubSeq(s, 1, 0), s) /\ IsPrefix(SubSeq(t, 1, 0), t)
    BY SelfPrefix
  <2> QED
    BY <1>2, <2>1, <2>2, <2>3
<1>5. PICK n \in Lengths : \A m \in Lengths : m <= n
  <2>1. Lengths \in SUBSET Nat /\ Lengths # {} /\ \A m \in Lengths : m <= Len(s)
    BY <1>3, <1>4
  <2>2. Len(s) \in Nat
    OBVIOUS
  <2> HIDE DEF Lengths
  <2> QED
    BY <2>1, <2>2, GreatestNatural
<1>6. \E longest \in C : \A other \in C : Len(other) <= Len(longest)
  BY <1>5
<1>7. CommonPrefix(s, t) \in C
  <2> HIDE DEF C
  <2> QED
    BY <1>6 DEF CommonPrefix, LongestCommonPrefix, C
<1> QED
  BY <1>2, <1>3, <1>7

LEMMA ProductBound ==
  ASSUME NEW n \in Nat, NEW size \in Nat \ {0}, NEW i \in 1..(n \div size)
  PROVE  /\ n \div size \in Nat
         /\ i * size \in Nat /\ i * size <= n /\ i * size >= 1
<1>1. n \div size \in Nat /\ (n \div size) * size <= n
  OBVIOUS
<1>2. i * size <= (n \div size) * size
  BY <1>1
<1> QED
  BY <1>1, <1>2

\* lmcache_chunk_hashes: one hash per complete chunk, of the tokens up to its
\* end, so no two of them are the same.
LEMMA ChunkHashesAre ==
  ASSUME NEW tokens \in Seq(Nat), NEW size \in Nat \ {0}
  PROVE  /\ ChunkHashes(tokens, size) \in Seq(Seq(Nat))
         /\ \A i \in 1..Len(ChunkHashes(tokens, size)) :
              /\ ChunkHashes(tokens, size)[i] = SubSeq(tokens, 1, i * size)
              /\ Len(ChunkHashes(tokens, size)[i]) = i * size
              /\ i * size \in 0..Len(tokens)
<1> DEFINE n == Len(tokens) \div size
<1>1. Len(tokens) \in Nat /\ n \in Nat
  OBVIOUS
<1>2. \A i \in 1..n : i * size \in 0..Len(tokens)
  <2> TAKE i \in 1..n
  <2>1. i * size \in Nat /\ i * size <= Len(tokens)
    BY <1>1, ProductBound
  <2> QED
    BY <1>1, <2>1
<1>3. \A i \in 1..n : SubSeq(tokens, 1, i * size) \in Seq(Nat)
                      /\ Len(SubSeq(tokens, 1, i * size)) = i * size
  BY <1>2, SelfPrefix
<1> DEFINE Hash(i) == SubSeq(tokens, 1, i * size)
<1>4. ChunkHashes(tokens, size) = [i \in 1..n |-> Hash(i)]
  BY DEF ChunkHashes
<1> HIDE DEF n
<1>6. \A i \in 1..n : Hash(i) \in Seq(Nat) /\ Len(Hash(i)) = i * size
  BY <1>3
<1> HIDE DEF Hash
<1>7. /\ ChunkHashes(tokens, size) \in Seq(Seq(Nat)) /\ Len(ChunkHashes(tokens, size)) = n
      /\ \A i \in 1..n : ChunkHashes(tokens, size)[i] = Hash(i)
  BY <1>1, <1>4, <1>6
<1> QED
  BY <1>2, <1>6, <1>7 DEF Hash

LEMMA MinOfTwo ==
  ASSUME NEW a \in Int, NEW b \in Int
  PROVE  Min({a, b}) = IF a <= b THEN a ELSE b
<1>1. \E x \in {a, b} : \A y \in {a, b} : x =< y
  OBVIOUS
<1>2. Min({a, b}) \in {a, b} /\ \A y \in {a, b} : Min({a, b}) =< y
  BY <1>1 DEF Min
<1> QED
  BY <1>2

\* The chunks a request asks for are a prefix of the shared ones, and not empty
\* when there are shared ones and the limit is not negative.
LEMMA RequestedArePrefix ==
  ASSUME NEW S, NEW hashes \in Seq(S), settings.maxChunks \in Int
  PROVE  /\ RequestedChunks(hashes) \in Seq(S) /\ IsPrefix(RequestedChunks(hashes), hashes)
         /\ settings.maxChunks >= 0 /\ Len(hashes) >= 1 => RequestedChunks(hashes) # <<>>
<1>1. CASE settings.maxChunks = 0
  <2>1. RequestedChunks(hashes) = hashes
    BY <1>1 DEF RequestedChunks
  <2>2. hashes = SubSeq(hashes, 1, Len(hashes)) /\ Len(hashes) \in 0..Len(hashes)
    OBVIOUS
  <2>3. IsPrefix(hashes, hashes)
    BY DEF IsPrefix
  <2> QED
    BY <2>1, <2>3
<1>2. CASE settings.maxChunks # 0
  <2> DEFINE n == Min({settings.maxChunks, Len(hashes)})
  <2>1. n = IF settings.maxChunks <= Len(hashes) THEN settings.maxChunks ELSE Len(hashes)
    BY MinOfTwo
  <2>2. RequestedChunks(hashes) = SubSeq(hashes, 1, n)
    BY <1>2 DEF RequestedChunks
  <2> HIDE DEF n
  <2>3. CASE n \in 0..Len(hashes)
    BY <2>1, <2>2, <2>3, <1>2, SelfPrefix
  <2>4. CASE n \notin 0..Len(hashes)
    <3>1. n \in Int /\ n < 0 /\ settings.maxChunks < 0
      BY <2>1, <2>4
    <3>2. SubSeq(hashes, 1, n) = <<>>
      BY <3>1
    <3>3. IsPrefix(<<>>, hashes) /\ <<>> \in Seq(S)
      BY DEF IsPrefix
    <3>4. RequestedChunks(hashes) = <<>>
      BY <2>2, <3>2
    <3> QED
      BY <3>1, <3>3, <3>4
  <2> QED
    BY <2>3, <2>4
<1> QED
  BY <1>1, <1>2

(* What the invariant and the theorems below say of the keys rests on      *)
(* these facts.                                                            *)
LEMMA KeysAre ==
  ASSUME settings \in Settings, prompts \in Prompts
  PROVE  /\ SharedChunks(prompts) \in Seq(Seq(Nat)) /\ Keys \in Seq(Seq(Nat))
         /\ IsPrefix(Keys, SharedChunks(prompts))
         /\ settings.maxChunks >= 0 /\ Len(SharedChunks(prompts)) >= 1 => Keys # <<>>
<1> DEFINE s == ChunkHashes(prompts.source, ChunkSize)
           t == ChunkHashes(prompts.target, ChunkSize)
<1>1. s \in Seq(Seq(Nat)) /\ t \in Seq(Seq(Nat))
  BY ChunkHashesAre, PromptAssumption, ChunkAssumption
<1>2. SharedChunks(prompts) \in Seq(Seq(Nat))
  BY <1>1, CommonPrefixIsPrefix DEF SharedChunks
<1> QED
  BY <1>2, RequestedArePrefix, SettingAssumption DEF Keys

\* The keys of a request are different hashes, and the tokens they cover are the
\* same in both prompts.
LEMMA KeysCoverSharedTokens ==
  ASSUME settings \in Settings, prompts \in Prompts
  PROVE  /\ Cardinality(Range(Keys)) = Len(Keys)
         /\ LET n == Len(Keys) * ChunkSize
            IN  SubSeq(prompts.target, 1, n) = SubSeq(prompts.source, 1, n)
<1> DEFINE s == ChunkHashes(prompts.source, ChunkSize)
           t == ChunkHashes(prompts.target, ChunkSize)
<1>1. s \in Seq(Seq(Nat)) /\ t \in Seq(Seq(Nat))
  BY ChunkHashesAre, PromptAssumption, ChunkAssumption
<1>2. /\ SharedChunks(prompts) \in Seq(Seq(Nat))
      /\ IsPrefix(SharedChunks(prompts), s) /\ IsPrefix(SharedChunks(prompts), t)
  BY <1>1, CommonPrefixIsPrefix DEF SharedChunks
<1>3. Keys \in Seq(Seq(Nat)) /\ IsPrefix(Keys, SharedChunks(prompts)) /\ Len(Keys) \in Nat
  BY KeysAre
<1>4. \A i \in 1..Len(Keys) : i \in 1..Len(s) /\ i \in 1..Len(t) /\ Keys[i] = s[i] /\ Keys[i] = t[i]
  <2> HIDE DEF s, t
  <2>1. Len(Keys) <= Len(SharedChunks(prompts))
        /\ \A i \in 1..Len(Keys) : Keys[i] = SharedChunks(prompts)[i]
    BY <1>2, <1>3, PrefixElements
  <2>2. Len(SharedChunks(prompts)) <= Len(s)
        /\ \A i \in 1..Len(SharedChunks(prompts)) : SharedChunks(prompts)[i] = s[i]
    BY <1>1, <1>2, PrefixElements
  <2>3. Len(SharedChunks(prompts)) <= Len(t)
        /\ \A i \in 1..Len(SharedChunks(prompts)) : SharedChunks(prompts)[i] = t[i]
    BY <1>1, <1>2, PrefixElements
  <2>4. Len(s) \in Nat /\ Len(t) \in Nat /\ Len(SharedChunks(prompts)) \in Nat /\ Len(Keys) \in Nat
    BY <1>1, <1>2, <1>3
  <2> TAKE i \in 1..Len(Keys)
  <2>5. i \in 1..Len(SharedChunks(prompts)) /\ i \in 1..Len(s) /\ i \in 1..Len(t)
    BY <2>1, <2>2, <2>3, <2>4
  <2> QED
    BY <2>1, <2>2, <2>3, <2>5
<1>5. \A i \in 1..Len(Keys) :
        /\ Keys[i] = SubSeq(prompts.source, 1, i * ChunkSize)
        /\ Keys[i] = SubSeq(prompts.target, 1, i * ChunkSize)
        /\ Len(Keys[i]) = i * ChunkSize
  <2> TAKE i \in 1..Len(Keys)
  <2>1. prompts.source \in Seq(Nat) /\ prompts.target \in Seq(Nat) /\ ChunkSize \in Nat \ {0}
    BY PromptAssumption, ChunkAssumption
  <2>2. s[i] = SubSeq(prompts.source, 1, i * ChunkSize) /\ Len(s[i]) = i * ChunkSize
    BY <1>4, <2>1, ChunkHashesAre
  <2>3. t[i] = SubSeq(prompts.target, 1, i * ChunkSize)
    BY <1>4, <2>1, ChunkHashesAre
  <2> QED
    BY <1>4, <2>2, <2>3
<1>6. Cardinality(Range(Keys)) = Len(Keys)
  <2> HIDE DEF s, t
  <2>1. \A i, j \in 1..Len(Keys) : Keys[i] = Keys[j] => i = j
    <3> TAKE i, j \in 1..Len(Keys)
    <3> HAVE Keys[i] = Keys[j]
    <3>1. i * ChunkSize = j * ChunkSize
      BY <1>5
    <3> QED
      BY <1>3, <3>1, ChunkAssumption
  <2>2. DOMAIN Keys = 1..Len(Keys)
    BY <1>3
  <2>3. Keys \in Bijection(1..Len(Keys), Range(Keys))
    BY <2>1, <2>2, <1>3 DEF Bijection, Injection, Surjection, IsInjective, Range
  <2>4. IsFiniteSet(1..Len(Keys)) /\ Cardinality(1..Len(Keys)) = Len(Keys)
    <3>1. \A n \in Nat : IsFiniteSet(1..n) /\ Cardinality(1..n) = n
      BY FS_Interval
    <3> QED
      BY <1>3, <3>1
  <2> QED
    BY <2>3, <2>4, FS_Bijection DEF ExistsBijection
<1>7. CASE Keys = <<>>
  BY <1>6, <1>7, PromptAssumption, ChunkAssumption
<1>8. CASE Keys # <<>>
  BY <1>3, <1>5, <1>6, <1>8
<1> QED
  BY <1>7, <1>8

-----------------------------------------------------------------------------
(* Types.                                                                  *)

LEMMA TypedIsTypeOK ==
  ASSUME ControlTyped, WorkerTyped, RecordTyped
  PROVE  TypeOK
<1>1. \A line \in Lines : line \in {Fallback, Preloaded} \/ line = Injected(line.keys)
  BY DEF Lines, Injected
<1>2. Range(pipe) \union Range(buffer) \union {reply} \subseteq Lines
  BY DEF WorkerTyped, Range
<1>3. Outstanding <= 2
  BY DEF WorkerTyped, Allowed, Outstanding
<1> QED
  BY <1>1, <1>2, <1>3 DEF TypeOK, ControlTyped, WorkerTyped, RecordTyped, Outstanding

\* No step changes what the run was given.
LEMMA InputsFixed ==
  ASSUME [Next]_vars
  PROVE  /\ UNCHANGED <<settings, prompts, prior>>
         /\ Keys' = Keys /\ Lines' = Lines /\ SharedChunks(prompts)' = SharedChunks(prompts)
<1>1. UNCHANGED <<settings, prompts, prior>>
  <2>1. CASE DriverStep
    BY <2>1 DEF DriverStep, ReadManifest, PlanCachedKVRun, Preload, AwaitPreload,
      StartMooncakeServices, StartLMCacheServer, RunSourceAndNative, LookupSource,
      RequestMaterialization, AwaitMaterialization, MaterializeInSubprocess,
      ChooseTarget, RunTarget, Evaluate, Abort, StopServices, Unwind, Close
  <2>2. CASE WorkerStep
    BY <2>2 DEF WorkerStep, WorkerTake, WorkerHitsCache, WorkerLoads, WorkerSnapshots,
      WorkerPreloads, WorkerMaterializes, WorkerDies, WorkerReply
  <2>3. CASE ReplaceBridge \/ UNCHANGED vars
    BY <2>3 DEF ReplaceBridge
  <2> QED
    BY <2>1, <2>2, <2>3 DEF Next
<1> QED
  BY <1>1 DEF Keys, Lines, RequestedChunks, SharedChunks

LEMMA StartKeepsGroup ==
  ASSUME running \subseteq held, held \subseteq Services, NEW started \in SUBSET Services,
         NEW ready \in BOOLEAN, Start(started, ready)
  PROVE  running' \subseteq held' /\ held' \subseteq Services
  BY DEF Start

LEMMA StopKeepsGroup ==
  ASSUME running \subseteq held, held \subseteq Services, NEW order, Stop(order)
  PROVE  running' \subseteq held' /\ held' \subseteq Services
  BY DEF Stop

LEMMA ControlTypedStep ==
  ASSUME ControlTyped, [Next]_vars
  PROVE  ControlTyped'
<1> USE DEF ControlTyped, Phases, Names
<1>0. UNCHANGED <<settings, prompts>>
  BY InputsFixed
<1>1. CASE ReadManifest
  BY <1>1 DEF ReadManifest
<1>2. CASE PlanCachedKVRun
  BY <1>2 DEF PlanCachedKVRun
<1>3. CASE Preload \/ AwaitPreload
  BY <1>3 DEF Preload, AwaitPreload
<1>4. CASE StartMooncakeServices
  <2>1. PICK ready \in BOOLEAN : StartMooncake(ready) /\ Then("lmcache", ready)
    BY <1>4 DEF StartMooncakeServices
  <2>2. running' \subseteq held' /\ held' \subseteq Services
    BY <2>1, StartKeepsGroup DEF StartMooncake, Services
  <2> QED
    BY <1>4, <2>1, <2>2 DEF StartMooncakeServices, Then
<1>5. CASE StartLMCacheServer
  <2>1. PICK ready \in BOOLEAN : StartLMCache(ready) /\ Then("native", ready)
    BY <1>5 DEF StartLMCacheServer
  <2>2. running' \subseteq held' /\ held' \subseteq Services
    BY <2>1, StartKeepsGroup DEF StartLMCache, Services
  <2> QED
    BY <1>5, <2>1, <2>2 DEF StartLMCacheServer, Then
<1>6. ASSUME NEW next \in Phases, RunEngine(next)
      PROVE  running' \subseteq held' /\ held' \subseteq Services /\ phase' \in Phases
  BY <1>6, StartKeepsGroup DEF RunEngine, StartEngine, Services
<1>7. CASE RunSourceAndNative
  BY <1>0, <1>6, <1>7 DEF RunSourceAndNative
<1>8. CASE LookupSource
  BY <1>8 DEF LookupSource
<1>9. CASE RequestMaterialization \/ AwaitMaterialization
  BY <1>9 DEF RequestMaterialization, AwaitMaterialization
<1>10. CASE MaterializeInSubprocess
  BY <1>10 DEF MaterializeInSubprocess
<1>11. CASE ChooseTarget
  BY <1>11 DEF ChooseTarget
<1>12. CASE RunTarget
  BY <1>0, <1>6, <1>12 DEF RunTarget
<1>13. CASE Evaluate
  BY <1>13 DEF Evaluate
<1>14. CASE Abort
  BY <1>14 DEF Abort
<1>15. CASE StopServices
  <2> DEFINE order == <<"engine", "lmcache", "master", "metadata">>
  <2> HIDE DEF order
  <2>1. Unwind(order)
    BY <1>15 DEF StopServices, order
  <2>2. running' \subseteq held' /\ held' \subseteq Services
    BY <2>1, StopKeepsGroup DEF Unwind, StopRaises
  <2> QED
    BY <2>1, <2>2 DEF Unwind
<1>16. CASE Close
  BY <1>16 DEF Close
<1>17. CASE WorkerStep
  BY <1>0, <1>17 DEF WorkerStep, WorkerTake, WorkerHitsCache, WorkerLoads, WorkerSnapshots,
    WorkerPreloads, WorkerMaterializes, WorkerDies, WorkerReply
<1>18. CASE ReplaceBridge
  BY <1>18, ReplacementAssumption DEF ReplaceBridge
<1>19. CASE UNCHANGED vars
  BY <1>19
<1> QED
  BY <1>1, <1>2, <1>3, <1>4, <1>5, <1>7, <1>8, <1>9, <1>10, <1>11, <1>12, <1>13, <1>14, <1>15, <1>16,
     <1>17, <1>18, <1>19 DEF Next, DriverStep

LEMMA WorkerKept ==
  ASSUME WorkerTyped, UNCHANGED <<settings, workerVars, reply>>, Lines' = Lines, Allowed <= Allowed'
  PROVE  WorkerTyped'
<1>1. Outstanding \in Int /\ Outstanding' = Outstanding
  BY DEF WorkerTyped, Outstanding
<1>2. Allowed \in Int /\ Allowed' \in Int
  BY DEF Allowed
<1> QED
  BY <1>1, <1>2 DEF WorkerTyped

LEMMA SendTyped ==
  ASSUME WorkerTyped, NEW request \in Requests, Send(request),
         UNCHANGED <<settings, reply>>, Lines' = Lines, Allowed + 1 <= Allowed'
  PROVE  WorkerTyped'
<1>1. stdin' \in Seq(Requests) /\ Len(stdin') = Len(stdin) + 1
  BY DEF WorkerTyped, Send
<1>2. Outstanding \in Int /\ Outstanding' = Outstanding + 1
  BY <1>1 DEF WorkerTyped, Outstanding, Send
<1>3. Allowed \in Int /\ Allowed' \in Int
  BY DEF Allowed
<1> QED
  BY <1>1, <1>2, <1>3 DEF WorkerTyped, Send

LEMMA ReceiveTyped ==
  ASSUME WorkerTyped, Receive, UNCHANGED settings, reply' \in {reply, Received}, Lines' = Lines,
         Allowed <= Allowed'
  PROVE  WorkerTyped' /\ Received \in Range(buffer \o pipe)
<1> DEFINE lines == buffer \o pipe
<1>1. lines \in Seq(Lines) /\ Len(lines) = Len(buffer) + Len(pipe) /\ lines # <<>>
  BY DEF WorkerTyped, Receive
<1>2. Head(lines) \in Lines /\ Tail(lines) \in Seq(Lines) /\ Len(Tail(lines)) = Len(lines) - 1
      /\ Head(lines) \in Range(lines)
  <2> HIDE DEF lines
  <2> QED
    BY <1>1 DEF Range
<1>3. Outstanding \in Int /\ Outstanding' = Outstanding - 1
  BY <1>1, <1>2 DEF WorkerTyped, Outstanding, Receive
<1>4. Allowed \in Int /\ Allowed' \in Int
  BY DEF Allowed
<1> QED
  BY <1>1, <1>2, <1>3, <1>4 DEF WorkerTyped, Receive, Received

LEMMA WorkerReplyTyped ==
  ASSUME WorkerTyped, NEW line \in Lines, WorkerReply(line), busy # "none",
         Lines' = Lines, \A entry \in resident' : entry.bridge \in DOMAIN Bridge, UNCHANGED settings
  PROVE  WorkerTyped'
<1>1. pipe' \in Seq(Lines) /\ Len(pipe') = Len(pipe) + 1
  BY DEF WorkerTyped, WorkerReply
<1>2. Outstanding \in Int /\ Outstanding' = Outstanding
  BY <1>1 DEF WorkerTyped, Outstanding, WorkerReply
<1>3. Allowed' = Allowed
  BY DEF Allowed, WorkerReply
<1> QED
  BY <1>1, <1>2, <1>3 DEF WorkerTyped, WorkerReply, Names

LEMMA WorkerEmptied ==
  ASSUME WorkerTyped, stdin' = <<>>, busy' = "none", Lines' = Lines, UNCHANGED <<settings, reply, pipe, buffer>>,
         loaded' = NoBridge, resident' = {}, alive' = FALSE, Allowed <= Allowed'
  PROVE  WorkerTyped'
<1>1. Outstanding \in Int /\ Outstanding' \in Int /\ Outstanding' <= Outstanding
  BY DEF WorkerTyped, Outstanding
<1>2. Allowed \in Int /\ Allowed' \in Int
  BY DEF Allowed
<1>3. stdin' \in Seq(Requests) /\ Outstanding' <= Allowed'
  BY <1>1, <1>2 DEF WorkerTyped
<1>4. alive' \in BOOLEAN /\ (alive' => settings'.resident)
  OBVIOUS
<1> QED
  BY <1>3, <1>4 DEF WorkerTyped, Names

LEMMA CandidateKeys ==
  ASSUME CandidateShared, NEW c \in candidate
  PROVE  RequestedChunks(c.hashes) = Keys
  BY DEF CandidateShared, Keys

LEMMA WorkerTypedStep ==
  ASSUME WorkerTyped, ControlTyped, CandidateShared, [Next]_vars
  PROVE  WorkerTyped'
<1>0. UNCHANGED settings /\ Lines' = Lines
  BY InputsFixed
<1>a. Injected(Keys) \in Lines /\ Fallback \in Lines /\ Preloaded \in Lines
  BY DEF Lines
<1> DEFINE Idle == UNCHANGED <<workerVars, reply>> /\ Allowed <= Allowed'
<1>b. Idle => WorkerTyped'
  BY <1>0, WorkerKept
<1>1. ReadManifest => Idle
  BY DEF ReadManifest, Allowed, BeforePreload, BeforeRequest
<1>2. CASE PlanCachedKVRun
  <2>1. Outstanding' = Outstanding /\ Outstanding <= Allowed /\ Outstanding \in Int
    BY <1>2 DEF PlanCachedKVRun, Outstanding, WorkerTyped
  <2>2. Allowed = 0 /\ Allowed' >= 0 /\ Allowed' \in Int
    BY <1>2 DEF PlanCachedKVRun, Allowed, BeforePreload, BeforeRequest
  <2>3. alive' \in BOOLEAN /\ (alive' => settings.resident)
    BY <1>2, SettingAssumption DEF PlanCachedKVRun, ControlTyped
  <2> QED
    BY <1>0, <1>2, <2>1, <2>2, <2>3 DEF PlanCachedKVRun, WorkerTyped
<1>3. CASE Preload
  <2>1. CASE Send("preload") /\ phase' = "preloading"
    BY <1>0, <1>3, <2>1, SendTyped DEF Preload, Requests, Allowed, BeforePreload, BeforeRequest
  <2>2. CASE SendFails /\ phase' = "mooncake"
    BY <1>b, <1>3, <2>2 DEF Preload, SendFails, Allowed, BeforePreload, BeforeRequest
  <2> QED
    BY <1>3, <2>1, <2>2 DEF Preload
<1>4. CASE AwaitPreload
  <2>1. Allowed <= Allowed'
    BY <1>4 DEF AwaitPreload, Allowed, BeforePreload, BeforeRequest
  <2>2. CASE Receive
    BY <1>0, <1>4, <2>1, <2>2, ReceiveTyped DEF AwaitPreload
  <2>3. CASE UNCHANGED workerVars
    BY <1>b, <1>4, <2>1, <2>3 DEF AwaitPreload
  <2> QED
    BY <1>4, <2>2, <2>3 DEF AwaitPreload
<1>5. StartMooncakeServices \/ StartLMCacheServer => Idle
  BY DEF StartMooncakeServices, StartLMCacheServer, Then, Allowed, BeforePreload, BeforeRequest
<1>6. RunSourceAndNative \/ RunTarget => Idle
  <2>1. ASSUME RunSourceAndNative PROVE phase = "native" /\ phase' \in {"lookup", "stop"}
    BY <2>1 DEF RunSourceAndNative, RunEngine
  <2>2. ASSUME RunTarget PROVE phase = "engine" /\ phase' \in {"evaluate", "stop"}
    BY <2>2 DEF RunTarget, RunEngine
  <2>3. RunSourceAndNative \/ RunTarget => Allowed <= Allowed'
    BY <2>1, <2>2 DEF Allowed, BeforePreload, BeforeRequest
  <2> QED
    BY <2>3 DEF RunSourceAndNative, RunTarget
<1>7. LookupSource => Idle
  BY DEF LookupSource, Allowed, BeforePreload, BeforeRequest
<1>8. CASE RequestMaterialization
  <2>1. CASE Send("materialize") /\ phase' = "waiting"
    BY <1>0, <1>8, <2>1, SendTyped
       DEF RequestMaterialization, Requests, Allowed, BeforePreload, BeforeRequest
  <2>2. CASE SendFails /\ phase' = "choose"
    BY <1>b, <1>8, <2>2 DEF RequestMaterialization, SendFails, Allowed, BeforePreload, BeforeRequest
  <2> QED
    BY <1>8, <2>1, <2>2 DEF RequestMaterialization
<1>9. CASE AwaitMaterialization
  <2>1. Allowed <= Allowed'
    BY <1>9 DEF AwaitMaterialization, Allowed, BeforePreload, BeforeRequest
  <2>2. CASE Receive /\ reply' = Received
    BY <1>0, <2>1, <2>2, ReceiveTyped
  <2>3. CASE reply' = Fallback /\ UNCHANGED workerVars
    <3>1. Outstanding' = Outstanding /\ Outstanding \in Int /\ Allowed \in Int /\ Allowed' \in Int
      BY <2>3 DEF Outstanding, WorkerTyped, Allowed
    <3> QED
      BY <1>0, <1>a, <2>1, <2>3, <3>1 DEF WorkerTyped
  <2> QED
    BY <1>9, <2>2, <2>3 DEF AwaitMaterialization
<1>10. CASE MaterializeInSubprocess
  <2>1. reply' \in Lines
    BY <1>10, <1>a, CandidateKeys DEF MaterializeInSubprocess
  <2>2. Outstanding' = Outstanding /\ Outstanding \in Int
    BY <1>10 DEF MaterializeInSubprocess, Outstanding, WorkerTyped
  <2>3. Allowed <= Allowed' /\ Allowed \in Int /\ Allowed' \in Int
    BY <1>10 DEF MaterializeInSubprocess, Allowed, BeforePreload, BeforeRequest
  <2> QED
    BY <1>0, <1>10, <2>1, <2>2, <2>3 DEF MaterializeInSubprocess, WorkerTyped
<1>11. ChooseTarget \/ Evaluate \/ Abort => Idle
  BY DEF ChooseTarget, Evaluate, Abort, Allowed, BeforePreload, BeforeRequest
<1>12. CASE StopServices
  <2>1. Allowed <= Allowed' /\ UNCHANGED reply
    BY <1>12 DEF StopServices, Unwind, Allowed, BeforePreload, BeforeRequest
  <2>2. CASE UNCHANGED workerVars
    BY <1>b, <2>1, <2>2
  <2>3. CASE pipe' = <<>> /\ buffer' = <<>> /\ UNCHANGED <<stdin, service, alive>>
    <3>1. Outstanding \in Int /\ Outstanding' \in Int /\ Outstanding' <= Outstanding
      BY <2>3 DEF WorkerTyped, Outstanding
    <3>2. Allowed \in Int /\ Allowed' \in Int
      BY DEF Allowed
    <3> QED
      BY <1>0, <2>1, <2>3, <3>1, <3>2 DEF WorkerTyped
  <2> QED
    BY <1>12, <2>2, <2>3 DEF StopServices, Unwind
<1>13. CASE Close
  <2>1. Outstanding' = 0
    BY <1>13 DEF Close, Outstanding
  <2>2. Allowed' = 2
    BY <1>13 DEF Close, Allowed, BeforePreload, BeforeRequest
  <2>3. stdin' \in Seq(Requests) /\ pipe' \in Seq(Lines') /\ buffer' \in Seq(Lines')
    BY <1>13 DEF Close
  <2>4. alive' \in BOOLEAN /\ (alive' => settings'.resident)
    BY <1>13 DEF Close
  <2>5. busy' = "none" /\ loaded' = NoBridge /\ resident' = {} /\ reply' \in Lines'
    BY <1>0, <1>13 DEF Close, WorkerTyped
  <2> QED
    BY <2>1, <2>2, <2>3, <2>4, <2>5 DEF WorkerTyped, Names
<1>14. CASE WorkerTake
  <2>1. /\ Head(stdin) \in Requests /\ Tail(stdin) \in Seq(Requests)
        /\ Len(Tail(stdin)) = Len(stdin) - 1
    BY <1>14 DEF WorkerTake, WorkerTyped
  <2>2. Outstanding' = Outstanding
    <3>1. busy = "none" /\ busy' # "none" /\ Len(stdin') = Len(stdin) - 1 /\ UNCHANGED <<pipe, buffer>>
      BY <1>14, <2>1 DEF WorkerTake, Requests
    <3>2. Len(stdin) \in Nat /\ Len(pipe) \in Nat /\ Len(buffer) \in Nat
      BY DEF WorkerTyped
    <3> QED
      BY <3>1, <3>2 DEF Outstanding
  <2>3. Allowed' = Allowed
    BY <1>14 DEF WorkerTake, Allowed
  <2> QED
    BY <1>0, <1>14, <2>1, <2>2, <2>3 DEF WorkerTake, WorkerTyped, Requests
<1>15. CASE WorkerHitsCache
  <2>1. Outstanding' = Outstanding /\ Allowed' = Allowed
    BY <1>15 DEF WorkerHitsCache, Outstanding, Allowed
  <2> QED
    BY <1>0, <1>15, <2>1 DEF WorkerHitsCache, WorkerTyped, Requests, Names
<1>16. CASE WorkerLoads
  <2>1. CASE disk \in LoadableBridges
    <3>1. Outstanding' = Outstanding /\ Allowed' = Allowed
      BY <1>16, <2>1 DEF WorkerLoads, Outstanding, Allowed
    <3> QED
      BY <1>0, <1>16, <2>1, <3>1 DEF WorkerLoads, WorkerTyped, Requests, Names, LoadableBridges
  <2>2. CASE disk \notin LoadableBridges
    BY <1>0, <1>a, <1>16, <2>2, WorkerReplyTyped DEF WorkerLoads, Requests
  <2> QED
    BY <2>1, <2>2
<1>17. CASE WorkerSnapshots
  <2>1. Outstanding' = Outstanding /\ Allowed' = Allowed
    BY <1>17 DEF WorkerSnapshots, Outstanding, Allowed
  <2> QED
    BY <1>0, <1>17, <2>1 DEF WorkerSnapshots, WorkerTyped, Names
<1>18. CASE WorkerPreloads
  <2>1. \E line \in Lines : WorkerReply(line)
    BY <1>a, <1>18 DEF WorkerPreloads
  <2> QED
    BY <1>0, <1>18, <2>1, WorkerReplyTyped DEF WorkerPreloads, WorkerTyped
<1>19. CASE WorkerMaterializes
  <2>1. \E line \in Lines : WorkerReply(line)
    BY <1>a, <1>19, CandidateKeys DEF WorkerMaterializes
  <2> QED
    BY <1>0, <1>19, <2>1, WorkerReplyTyped DEF WorkerMaterializes, WorkerTyped
<1>20. CASE WorkerDies
  <2>1. Allowed <= Allowed'
    BY <1>20 DEF WorkerDies, Allowed
  <2>2. UNCHANGED <<reply, pipe, buffer>> /\ stdin' = <<>> /\ busy' = "none" /\ loaded' = NoBridge
    BY <1>20 DEF WorkerDies
  <2>3. resident' = {} /\ alive' = FALSE
    BY <1>20 DEF WorkerDies
  <2> QED
    BY <1>0, <2>1, <2>2, <2>3, WorkerEmptied
<1>21. ReplaceBridge => Idle
  BY DEF ReplaceBridge, Allowed
<1>22. UNCHANGED vars => Idle
  BY DEF Allowed
<1> QED
  BY <1>b, <1>1, <1>2, <1>3, <1>4, <1>5, <1>6, <1>7, <1>8, <1>9, <1>10, <1>11, <1>12, <1>13, <1>14,
     <1>15, <1>16, <1>17, <1>18, <1>19, <1>20, <1>21, <1>22 DEF Next, DriverStep, WorkerStep

-----------------------------------------------------------------------------
(* What is bound, stored and published.                                    *)

LEMMA CandidateSharedStep ==
  ASSUME CandidateShared, [Next]_vars
  PROVE  CandidateShared'
<1>1. CASE LookupSource
  <2>1. PICK log : candidate' = SharedCandidates(log, "source", ResponseId, prompts.source,
                                                 prompts.target, ChunkSize, 1)
    BY <1>1 DEF LookupSource
  <2>2. \A c \in candidate' : c.hashes = SharedChunks(prompts) /\ Len(c.hashes) >= 1
    BY <2>1 DEF SharedCandidates, SharedChunks
  <2> QED
    BY <2>2, InputsFixed DEF CandidateShared
<1>2. CASE ~LookupSource
  <2>1. UNCHANGED candidate
    <3>1. CASE DriverStep
      BY <1>2, <3>1 DEF DriverStep, ReadManifest, PlanCachedKVRun, Preload, AwaitPreload,
        StartMooncakeServices, StartLMCacheServer, RunSourceAndNative,
        RequestMaterialization, AwaitMaterialization, MaterializeInSubprocess,
        ChooseTarget, RunTarget, Evaluate, Abort, StopServices, Unwind, Close
    <3>2. CASE WorkerStep
      BY <3>2 DEF WorkerStep, WorkerTake, WorkerHitsCache, WorkerLoads, WorkerSnapshots,
        WorkerPreloads, WorkerMaterializes, WorkerDies, WorkerReply
    <3>3. CASE ReplaceBridge \/ UNCHANGED vars
      BY <3>3 DEF ReplaceBridge
    <3> QED
      BY <3>1, <3>2, <3>3 DEF Next
  <2> QED
    BY <2>1, InputsFixed DEF CandidateShared
<1> QED
  BY <1>1, <1>2

\* Of all steps only a materialization writes, and it publishes all of the
\* request's keys or leaves objects that no index lists.
Materializes == \E c \in candidate : \E b : MayMaterialize(c, b) /\ Publish(Keys, b)
LeavesObjects == stored \subseteq stored' /\ UNCHANGED published

LEMMA WritesAre ==
  ASSUME CandidateShared, [Next]_vars
  PROVE  Materializes \/ LeavesObjects
<1>1. \A c \in candidate : RequestedChunks(c.hashes) = Keys
  BY CandidateKeys
<1>2. \A keys : AbandonPuts(keys) => LeavesObjects
  BY DEF AbandonPuts, LeavesObjects
<1>3. CASE MaterializeInSubprocess
  BY <1>1, <1>2, <1>3 DEF MaterializeInSubprocess, Materializes, LeavesObjects
<1>4. CASE WorkerMaterializes
  BY <1>1, <1>4 DEF WorkerMaterializes, Materializes, LeavesObjects
<1>5. CASE WorkerDies
  BY <1>1, <1>2, <1>5 DEF WorkerDies, Materializes, LeavesObjects
<1>6. CASE DriverStep /\ ~MaterializeInSubprocess
  BY <1>6 DEF LeavesObjects, DriverStep, ReadManifest, PlanCachedKVRun, Preload, AwaitPreload,
    StartMooncakeServices, StartLMCacheServer, RunSourceAndNative, LookupSource,
    RequestMaterialization, AwaitMaterialization, ChooseTarget, RunTarget, Evaluate, Abort,
    StopServices, Unwind, Close
<1>7. CASE WorkerStep /\ ~WorkerMaterializes /\ ~WorkerDies
  BY <1>7 DEF LeavesObjects, WorkerStep, WorkerTake, WorkerHitsCache, WorkerLoads, WorkerSnapshots,
    WorkerPreloads, WorkerReply
<1>8. CASE ReplaceBridge \/ UNCHANGED vars
  BY <1>8 DEF LeavesObjects, ReplaceBridge
<1> QED
  BY <1>3, <1>4, <1>5, <1>6, <1>7, <1>8 DEF Next

Hashes == {p.hash : p \in published}

LEMMA MaterializeOnce ==
  ASSUME settings \in Settings, prompts \in Prompts, CandidateShared, PublishedWhole,
         Hashes \union prior \subseteq stored, Materializes
  PROVE  /\ published = {} /\ published' # {} /\ Keys # <<>>
         /\ Hashes' = Range(Keys) /\ stored' = stored \union Range(Keys)
         /\ \A p \in published' : p.hash \notin prior /\ p.bridge \in LoadableBridges
<1>1. PICK c \in candidate : \E b : MayMaterialize(c, b) /\ Publish(Keys, b)
  BY DEF Materializes
<1>2. PICK b : MayMaterialize(c, b) /\ Publish(Keys, b)
  BY <1>1
<1>3. settings.maxChunks >= 0 /\ b \in LoadableBridges /\ Range(Keys) \intersect stored = {}
  BY <1>2, CandidateKeys DEF MayMaterialize
<1>4. Keys # <<>> /\ Keys \in Seq(Seq(Nat))
  BY <1>3, KeysAre DEF CandidateShared
<1>5. Range(Keys) # {}
  <2>1. 1 \in DOMAIN Keys
    BY <1>4
  <2> QED
    BY <2>1 DEF Range
<1>6. published = {}
  BY <1>3, <1>5 DEF PublishedWhole, Hashes
<1>7. published' = {[hash |-> h, bridge |-> b] : h \in Range(Keys)}
      /\ stored' = stored \union Range(Keys)
  BY <1>2, <1>6 DEF Publish
<1>8. Hashes' = Range(Keys) /\ published' # {}
  <2>1. \A p \in published' : p.hash \in Range(Keys)
    BY <1>7
  <2>2. \A h \in Range(Keys) : [hash |-> h, bridge |-> b] \in published'
    BY <1>7
  <2>3. \A h \in Range(Keys) : \E p \in published' : p.hash = h
    BY <2>2
  <2>4. Hashes' = Range(Keys)
    BY <2>1, <2>3 DEF Hashes
  <2> QED
    BY <1>5, <2>2, <2>4
<1>9. \A p \in published' : p.hash \notin prior /\ p.bridge \in LoadableBridges
  BY <1>3, <1>7 DEF Hashes
<1> QED
  BY <1>4, <1>6, <1>7, <1>8, <1>9

LEMMA PublishedWholeStep ==
  ASSUME ControlTyped, RecordTyped, CandidateShared, PublishedWhole, [Next]_vars
  PROVE  PublishedWhole' /\ (Hashes \union prior \subseteq stored)'
         /\ (published # {} => published' # {})
<1>0. UNCHANGED prior /\ Keys' = Keys
  BY InputsFixed
<1>1. Hashes \union prior \subseteq stored
  BY DEF RecordTyped, Hashes
<1>2. CASE Materializes
  <2>1. /\ published = {} /\ published' # {} /\ Keys # <<>>
        /\ Hashes' = Range(Keys) /\ stored' = stored \union Range(Keys)
        /\ \A p \in published' : p.hash \notin prior /\ p.bridge \in LoadableBridges
    BY <1>1, <1>2, MaterializeOnce DEF ControlTyped
  <2>2. PublishedWhole'
    BY <1>0, <2>1 DEF PublishedWhole, Hashes
  <2>3. (Hashes \union prior)' \subseteq stored'
    BY <1>0, <1>1, <2>1
  <2> QED
    BY <2>1, <2>2, <2>3
<1>3. CASE LeavesObjects
  <2>1. published' = published /\ stored \subseteq stored'
    BY <1>3 DEF LeavesObjects
  <2>2. PublishedWhole'
    BY <1>0, <2>1 DEF PublishedWhole
  <2>3. (Hashes \union prior)' \subseteq stored'
    BY <1>0, <1>1, <2>1 DEF Hashes
  <2> QED
    BY <2>1, <2>2, <2>3
<1> QED
  BY <1>2, <1>3, WritesAre

\* A line that says injected first appears with the publication.
LEMMA NewLines ==
  ASSUME WorkerTyped, CandidateShared, [Next]_vars
  PROVE  Seen' \subseteq Seen \union {Fallback, Preloaded} \/ Materializes
<1> DEFINE Old == Seen' \subseteq Seen \union {Fallback, Preloaded}
<1>1. UNCHANGED <<pipe, buffer, reply>> => Old
  BY DEF Seen
<1>2. Receive /\ reply' \in {reply, Received} => Old
  <2> SUFFICES ASSUME Receive, reply' \in {reply, Received} PROVE Old
    OBVIOUS
  <2> DEFINE lines == buffer \o pipe
  <2>1. lines \in Seq(Lines) /\ lines # <<>>
    BY DEF WorkerTyped, Receive
  <2>2. Range(lines) \subseteq Range(buffer) \union Range(pipe)
    <3> SUFFICES ASSUME NEW i \in DOMAIN lines PROVE lines[i] \in Range(buffer) \union Range(pipe)
      BY DEF Range
    <3>1. buffer \in Seq(Lines) /\ pipe \in Seq(Lines)
      BY DEF WorkerTyped
    <3>2. CASE i \in 1..Len(buffer)
      BY <3>1, <3>2 DEF Range
    <3>3. CASE i \notin 1..Len(buffer)
      <4>1. i - Len(buffer) \in DOMAIN pipe /\ lines[i] = pipe[i - Len(buffer)]
        BY <3>1, <3>3
      <4> QED
        BY <4>1 DEF Range
    <3> QED
      BY <3>2, <3>3
  <2>3. Head(lines) \in Range(lines) /\ Range(Tail(lines)) \subseteq Range(lines)
    <3> HIDE DEF lines
    <3> QED
      BY <2>1 DEF Range
  <2>4. buffer' = Tail(lines) /\ pipe' = <<>>
    BY DEF Receive
  <2>5. Range(pipe') = {}
    BY <2>4 DEF Range
  <2>6. reply' \in {reply, Head(lines)}
    BY DEF Received
  <2> HIDE DEF lines
  <2> QED
    BY <2>2, <2>3, <2>4, <2>5, <2>6 DEF Seen
<1>3. \A line \in {Fallback, Preloaded} : WorkerReply(line) => Old
  <2> SUFFICES ASSUME NEW line \in {Fallback, Preloaded}, WorkerReply(line) PROVE Old
    OBVIOUS
  <2>1. Range(pipe') \subseteq Range(pipe) \union {line}
    <3>1. pipe \in Seq(Lines) /\ pipe' = Append(pipe, line)
      BY DEF WorkerTyped, WorkerReply
    <3> QED
      BY <3>1 DEF Range
  <2> QED
    BY <2>1 DEF Seen, WorkerReply
<1>4. CASE AwaitPreload
  BY <1>1, <1>2, <1>4 DEF AwaitPreload
<1>5. CASE AwaitMaterialization
  <2>1. UNCHANGED workerVars /\ reply' = Fallback => Old
    BY DEF Seen
  <2> QED
    BY <1>2, <1>5, <2>1 DEF AwaitMaterialization
<1>6. CASE MaterializeInSubprocess
  <2>1. UNCHANGED workerVars /\ reply' = Fallback => Old
    BY DEF Seen
  <2> QED
    BY <1>6, <2>1, CandidateKeys DEF MaterializeInSubprocess, Materializes
<1>7. CASE StopServices \/ Close
  <2>1. Range(<<>>) = {}
    BY DEF Range
  <2> QED
    BY <1>7, <2>1 DEF StopServices, Unwind, Close, Seen
<1>8. CASE WorkerLoads
  BY <1>1, <1>3, <1>8 DEF WorkerLoads
<1>9. CASE WorkerPreloads
  BY <1>3, <1>9 DEF WorkerPreloads
<1>10. CASE WorkerMaterializes
  BY <1>3, <1>10, CandidateKeys DEF WorkerMaterializes, Materializes
<1>11. CASE WorkerTake \/ WorkerHitsCache \/ WorkerSnapshots \/ WorkerDies
  BY <1>1, <1>11 DEF WorkerTake, WorkerHitsCache, WorkerSnapshots, WorkerDies
<1>12. CASE ReadManifest \/ PlanCachedKVRun \/ Preload \/ StartMooncakeServices \/ StartLMCacheServer
            \/ RunSourceAndNative \/ LookupSource \/ RequestMaterialization
  BY <1>1, <1>12 DEF ReadManifest, PlanCachedKVRun, Preload, StartMooncakeServices, StartLMCacheServer,
    RunSourceAndNative, LookupSource, RequestMaterialization, Send, SendFails
<1>13. CASE ChooseTarget \/ RunTarget \/ Evaluate \/ Abort \/ ReplaceBridge \/ UNCHANGED vars
  BY <1>1, <1>13 DEF ChooseTarget, RunTarget, Evaluate, Abort, ReplaceBridge
<1> QED
  BY <1>4, <1>5, <1>6, <1>7, <1>8, <1>9, <1>10, <1>11, <1>12, <1>13 DEF Next, DriverStep, WorkerStep

LEMMA AnsweredAfterPublicationStep ==
  ASSUME ControlTyped, WorkerTyped, RecordTyped, CandidateShared, PublishedWhole,
         AnsweredAfterPublication, [Next]_vars
  PROVE  AnsweredAfterPublication'
<1>1. Keys' = Keys /\ Injected(Keys) \notin {Fallback, Preloaded}
  BY InputsFixed DEF Injected, Fallback, Preloaded
<1>2. published # {} => published' # {}
  BY PublishedWholeStep
<1>3. CASE Seen' \subseteq Seen \union {Fallback, Preloaded}
  BY <1>1, <1>2, <1>3 DEF AnsweredAfterPublication
<1>4. CASE Materializes
  <2>1. published' # {}
    BY <1>4, MaterializeOnce DEF ControlTyped, RecordTyped, Hashes
  <2> QED
    BY <2>1 DEF AnsweredAfterPublication
<1> QED
  BY <1>3, <1>4, NewLines

-----------------------------------------------------------------------------
(* The target phase and the judgement.                                     *)

\* Once the target phase is chosen, the driver goes on towards its end and the
\* reply stays.
LEMMA LateStep ==
  ASSUME [Next]_vars, phase \in Late
  PROVE  /\ phase' \in Late /\ UNCHANGED <<reply, targetPhase>>
         /\ phase' \in {"engine", "evaluate"} => phase \in {"engine", "evaluate"}
         /\ phase \in Ending => phase' \in Ending /\ UNCHANGED <<external, status>>
<1> USE DEF Late, Ending
<1>1. CASE DriverStep
  BY <1>1 DEF DriverStep, ReadManifest, PlanCachedKVRun, Preload, AwaitPreload,
    StartMooncakeServices, StartLMCacheServer, RunSourceAndNative, LookupSource,
    RequestMaterialization, AwaitMaterialization, MaterializeInSubprocess,
    ChooseTarget, RunTarget, RunEngine, Evaluate, Abort, StopServices, Unwind, Close
<1>2. CASE WorkerStep
  BY <1>2 DEF WorkerStep, WorkerTake, WorkerHitsCache, WorkerLoads, WorkerSnapshots,
    WorkerPreloads, WorkerMaterializes, WorkerDies, WorkerReply
<1>3. CASE ReplaceBridge \/ UNCHANGED vars
  BY <1>3 DEF ReplaceBridge
<1> QED
  BY <1>1, <1>2, <1>3 DEF Next

\* Before it is chosen, only the choice itself sets it, and nothing is judged.
LEMMA EarlyStep ==
  ASSUME [Next]_vars, phase \notin Late
  PROVE  /\ ~ChooseTarget => UNCHANGED targetPhase /\ phase' \notin {"engine", "evaluate"}
         /\ UNCHANGED status
<1> USE DEF Late
<1>1. CASE DriverStep
  BY <1>1 DEF DriverStep, ReadManifest, PlanCachedKVRun, Preload, AwaitPreload,
    StartMooncakeServices, StartLMCacheServer, RunSourceAndNative, LookupSource,
    RequestMaterialization, AwaitMaterialization, MaterializeInSubprocess, RunEngine, Then,
    ChooseTarget, RunTarget, Evaluate, Abort, StopServices, Unwind, Close
<1>2. CASE WorkerStep
  BY <1>2 DEF WorkerStep, WorkerTake, WorkerHitsCache, WorkerLoads, WorkerSnapshots,
    WorkerPreloads, WorkerMaterializes, WorkerDies, WorkerReply
<1>3. CASE ReplaceBridge \/ UNCHANGED vars
  BY <1>3 DEF ReplaceBridge
<1> QED
  BY <1>1, <1>2, <1>3 DEF Next

LEMMA ChosenFromReplyStep ==
  ASSUME ChosenFromReply, [Next]_vars
  PROVE  ChosenFromReply'
<1>1. CASE phase \in Late
  BY <1>1, LateStep DEF ChosenFromReply
<1>2. CASE phase \notin Late /\ ~ChooseTarget
  BY <1>2, EarlyStep DEF ChosenFromReply
<1>3. CASE ChooseTarget
  BY <1>3 DEF ChooseTarget, ChosenFromReply, Late
<1> QED
  BY <1>1, <1>2, <1>3

LEMMA RunTargetKeeps ==
  ASSUME [Next]_vars
  PROVE  /\ ~RunTarget => UNCHANGED <<external, metric>>
         /\ ~Evaluate => UNCHANGED status
<1>1. CASE DriverStep
  BY <1>1 DEF DriverStep, ReadManifest, PlanCachedKVRun, Preload, AwaitPreload,
    StartMooncakeServices, StartLMCacheServer, RunSourceAndNative, LookupSource,
    RequestMaterialization, AwaitMaterialization, MaterializeInSubprocess,
    ChooseTarget, RunTarget, Evaluate, Abort, StopServices, Unwind, Close
<1>2. CASE WorkerStep
  BY <1>2 DEF WorkerStep, WorkerTake, WorkerHitsCache, WorkerLoads, WorkerSnapshots,
    WorkerPreloads, WorkerMaterializes, WorkerDies, WorkerReply
<1>3. CASE ReplaceBridge \/ UNCHANGED vars
  BY <1>3 DEF ReplaceBridge
<1> QED
  BY <1>1, <1>2, <1>3 DEF Next

LEMMA RecordTypedStep ==
  ASSUME ControlTyped, RecordTyped, CandidateShared, PublishedWhole, [Next]_vars
  PROVE  RecordTyped'
<1>1. ({p.hash : p \in published} \union prior \subseteq stored)'
  BY PublishedWholeStep DEF Hashes
<1>2. metric' \subseteq {external'}
  <2>1. RunTarget => metric' \in {{}, {external'}} \/ UNCHANGED <<metric, external>>
    BY DEF RunTarget
  <2> QED
    BY <2>1, RunTargetKeeps DEF RecordTyped
<1>3. targetPhase' \in {"none", "target_reuse", "target_fallback"}
  <2>1. ChooseTarget => targetPhase' \in {"target_reuse", "target_fallback"}
    BY DEF ChooseTarget
  <2> QED
    BY <2>1, LateStep, EarlyStep DEF RecordTyped
<1>4. status' \in {"none", "cross_model_reuse_success", "quality_validation_failed",
                   "runtime_validation_failed", "fallback"}
  <2>1. Evaluate => status' \in {"cross_model_reuse_success", "quality_validation_failed",
                                 "runtime_validation_failed", "fallback"}
    BY DEF Evaluate
  <2> QED
    BY <2>1, RunTargetKeeps DEF RecordTyped
<1> QED
  BY <1>1, <1>2, <1>3, <1>4 DEF RecordTyped

LEMMA JudgedOnTokensStep ==
  ASSUME RecordTyped, ChosenFromReply, JudgedOnTokens, [Next]_vars
  PROVE  JudgedOnTokens'
<1>1. CASE phase \in Ending
  <2>1. phase \in Late
    BY <1>1 DEF Late, Ending
  <2> QED
    BY <1>1, <2>1, LateStep DEF JudgedOnTokens
<1>2. CASE phase \notin Ending /\ ~Evaluate
  <2>1. status' = "none"
    BY <1>2, RunTargetKeeps DEF JudgedOnTokens
  <2> QED
    BY <2>1 DEF JudgedOnTokens
<1>3. CASE Evaluate
  <2>1. phase' \in Ending /\ UNCHANGED <<targetPhase, external, reply>>
    BY <1>3 DEF Evaluate, Ending
  <2>2. status' = "cross_model_reuse_success" => Consumed
    BY <1>3 DEF Evaluate
  <2>3. Consumed => external = Len(reply.keys) * ChunkSize
    BY DEF Consumed, RecordTyped
  <2>4. Consumed => targetPhase = "target_reuse"
    BY <1>3 DEF Consumed, ChosenFromReply, Evaluate
  <2> QED
    BY <2>1, <2>2, <2>3, <2>4 DEF JudgedOnTokens
<1> QED
  BY <1>1, <1>2, <1>3

-----------------------------------------------------------------------------
(* The invariant and what follows from it.                                 *)

LEMMA InitIInv == Init => IInv
<1> SUFFICES ASSUME Init PROVE IInv
  OBVIOUS
<1>0. executable \in BOOLEAN /\ alive \in BOOLEAN /\ ~alive
  BY DEF Init
<1>1. ControlTyped
  <2>1. /\ phase \in Phases /\ settings \in Settings /\ prompts \in Prompts
        /\ running = {} /\ held = {} /\ planned \in Names
        /\ disk \in DOMAIN Bridge /\ replaced = 0
    BY DEF Init, Phases, Names
  <2> QED
    BY <1>0, <2>1, ReplacementAssumption DEF ControlTyped
<1>2. WorkerTyped
  <2>1. Outstanding = 0 /\ Allowed = 0
    BY DEF Init, Outstanding, Allowed, BeforePreload
  <2>2. /\ stdin = <<>> /\ pipe = <<>> /\ buffer = <<>> /\ busy = "none" /\ loaded = NoBridge
        /\ resident = {} /\ reply = Fallback
    BY DEF Init
  <2> QED
    BY <1>0, <2>1, <2>2 DEF WorkerTyped, Names, Lines
<1>3. RecordTyped
  BY DEF Init, RecordTyped
<1>4. CandidateShared /\ PublishedWhole
  BY DEF Init, CandidateShared, PublishedWhole
<1>5. AnsweredAfterPublication
  BY DEF Init, AnsweredAfterPublication, Seen, Range, Fallback, Injected
<1>6. ChosenFromReply /\ JudgedOnTokens
  BY DEF Init, ChosenFromReply, JudgedOnTokens
<1> QED
  BY <1>1, <1>2, <1>3, <1>4, <1>5, <1>6 DEF IInv

LEMMA IInvStep == IInv /\ [Next]_vars => IInv'
  BY ControlTypedStep, WorkerTypedStep, RecordTypedStep, CandidateSharedStep, PublishedWholeStep,
     AnsweredAfterPublicationStep, ChosenFromReplyStep, JudgedOnTokensStep DEF IInv

LEMMA InvariantHolds == Spec => []IInv
  BY InitIInv, IInvStep, PTL DEF Spec

\* An injected reply in the driver's hands: what it lists was published by this run.
LEMMA InjectedIsPublished ==
  ASSUME IInv, reply.injected
  PROVE  /\ reply.keys = Keys /\ Keys # <<>> /\ PublishedHere(Keys)
         /\ {p.hash : p \in published} = Range(Keys)
<1>1. reply = Injected(Keys)
  BY DEF IInv, WorkerTyped, Lines, Fallback, Preloaded
<1>2. published # {} /\ Keys # <<>> /\ {p.hash : p \in published} = Range(Keys)
  BY <1>1 DEF IInv, AnsweredAfterPublication, Seen, PublishedWhole
<1>3. PublishedHere(Keys)
  BY <1>2 DEF PublishedHere, IInv, PublishedWhole
<1> QED
  BY <1>1, <1>2, <1>3 DEF Injected

\* Types: at every step of the run at most two requests are anywhere between the
\* driver and the worker, every line on its way is one the worker may write, and
\* what is published or was listed before is stored.
THEOREM TypeCorrect == Spec => []TypeOK
<1>1. IInv => TypeOK
  BY TypedIsTypeOK DEF IInv
<1> QED
  BY <1>1, InvariantHolds, PTL

\* The target engine is started for reuse only when this run's own request has
\* published all it was asked for: the whole prefix of chunks that the prompts share
\* or, with a limit, as many of its first chunks as the limit allows, whichever request
\* the reply the driver read answers and however often the bridge files changed.
THEOREM ReuseIsPublished == Spec => []ReuseFollowsPublication
<1>1. IInv => ReuseFollowsPublication
  <2> SUFFICES ASSUME IInv, targetPhase = "target_reuse"
               PROVE  /\ PublishedHere(reply.keys)
                      /\ reply.keys # <<>> /\ IsPrefix(reply.keys, SharedChunks(prompts))
                      /\ reply.keys = Keys
    BY DEF ReuseFollowsPublication, Keys
  <2>1. reply.injected
    BY DEF IInv, ChosenFromReply
  <2>2. IsPrefix(Keys, SharedChunks(prompts))
    BY KeysAre DEF IInv, ControlTyped
  <2> QED
    BY <2>1, <2>2, InjectedIsPublished
<1> QED
  BY <1>1, InvariantHolds, PTL

\* A run recorded as a reuse success has taken exactly the tokens it published,
\* and they are tokens of both prompts.
THEOREM SuccessIsReuse == Spec => []SuccessIsConsumedReuse
<1>1. IInv => SuccessIsConsumedReuse
  <2> SUFFICES ASSUME IInv, status = "cross_model_reuse_success"
               PROVE  /\ targetPhase = "target_reuse" /\ PublishedHere(reply.keys)
                      /\ external = Cardinality({p.hash : p \in published}) * ChunkSize
                      /\ SubSeq(prompts.target, 1, external) = SubSeq(prompts.source, 1, external)
    BY DEF SuccessIsConsumedReuse
  <2>1. targetPhase = "target_reuse" /\ external = Len(reply.keys) * ChunkSize
    BY DEF IInv, JudgedOnTokens
  <2>2. reply.keys = Keys /\ PublishedHere(Keys) /\ {p.hash : p \in published} = Range(Keys)
    BY <2>1, InjectedIsPublished DEF IInv, ChosenFromReply
  <2>3. /\ Cardinality(Range(Keys)) = Len(Keys)
        /\ SubSeq(prompts.target, 1, Len(Keys) * ChunkSize)
           = SubSeq(prompts.source, 1, Len(Keys) * ChunkSize)
    BY KeysCoverSharedTokens DEF IInv, ControlTyped
  <2> QED
    BY <2>1, <2>2, <2>3
<1> QED
  BY <1>1, InvariantHolds, PTL
=============================================================================
