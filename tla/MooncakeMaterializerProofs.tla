---------------------- MODULE MooncakeMaterializerProofs ----------------------
(***************************************************************************)
(* Safety of the materializer for every set of writers and keys, every     *)
(* choice of batches and any number of requests.  Two writers may share    *)
(* keys in all of it but the last theorem, which needs that they do not.   *)
(***************************************************************************)
EXTENDS MooncakeMaterializer, TLAPS

USE DEF vars, writerVars, adapterVars
USE BatchAssumption, RequestAssumption, NullAssumption

Outcomes == {"success", "fallback", "crash"}

(* TypeOK, with the domains of the writers' variables, and an attempt left *)
(* for a writer that is at work.                                           *)
Typed ==
  /\ TypeOK
  /\ todo \in [Writers -> SUBSET Keys]
  /\ putFailed \in [Writers -> BOOLEAN]
  /\ outcome \in [Writers -> Seq(Outcomes)]
  /\ \A w \in Writers : pc[w] # "idle" => Len(outcome[w]) < MaxRequests

LEMMA AttemptType ==
  ASSUME Typed, NEW w \in Writers, pc[w] # "idle"
  PROVE  Attempt(w) \in Attempts
<1>1. outcome[w] \in Seq(Outcomes) /\ Len(outcome[w]) \in Nat
  BY DEF Typed
<1> QED
  BY <1>1 DEF Typed, Attempt, Attempts

LEMMA TypedInit == Init => Typed
<1> SUFFICES ASSUME Init PROVE Typed
  OBVIOUS
<1> USE DEF Init
<1>1. TypeOK
  BY DEF TypeOK, Stages
<1> QED
  BY <1>1 DEF Typed, Outcomes

\* What the end of a request does to the writers' variables.
LEMMA EndTyped ==
  ASSUME Typed, NEW w \in Writers, NEW how \in Outcomes, pc[w] # "idle", End(w, how),
         objects' = objects, index' = index, UNCHANGED adapterVars,
         leftover' \in [Attempts -> SUBSET Keys],
         lock' = IF lock = w THEN NoWriter ELSE lock
  PROVE  Typed'
<1> USE DEF Typed, TypeOK, End, Goto
<1>1. /\ pc' \in [Writers -> Stages] /\ staged' \in [Writers -> Seq(Attempts)]
      /\ todo' \in [Writers -> SUBSET Keys] /\ putFailed' \in [Writers -> BOOLEAN]
  BY DEF Stages
<1>2. /\ outcome' \in [Writers -> Seq(Outcomes)]
      /\ \A v \in Writers :
           Len(outcome'[v]) = IF v = w THEN Len(outcome[v]) + 1 ELSE Len(outcome[v])
  OBVIOUS
<1>3. \A v \in Writers : todo'[v] \subseteq BatchOf[v]
  OBVIOUS
<1>4. \A v \in Writers : lock' = v <=> pc'[v] \in {"replacing", "published"}
  OBVIOUS
<1>5. \A v \in Writers : Len(outcome[v]) \in Nat
  OBVIOUS
<1>6. \A v \in Writers : Len(outcome'[v]) <= MaxRequests
  BY <1>2, <1>5
<1>7. \A v \in Writers : pc'[v] # "idle" => Len(outcome'[v]) < MaxRequests
  BY <1>2
<1> QED
  BY <1>1, <1>2, <1>3, <1>4, <1>6, <1>7 DEF Outcomes

LEMMA RollbackTyped ==
  ASSUME Typed, NEW w \in Writers, BeginRollback(w),
         objects' = objects, index' = index, UNCHANGED adapterVars,
         pc[w] # "idle", pc[w] # "published",
         lock' = IF lock = w THEN NoWriter ELSE lock
  PROVE  Typed'
<1> USE DEF Typed, TypeOK, BeginRollback, Goto
<1>1. /\ pc' \in [Writers -> Stages] /\ staged' \in [Writers -> Seq(Attempts)]
      /\ todo' \in [Writers -> SUBSET Keys] /\ putFailed' \in [Writers -> BOOLEAN]
  BY DEF Stages
<1>2. \A v \in Writers : todo'[v] \subseteq BatchOf[v]
  OBVIOUS
<1>3. \A v \in Writers : lock' = v <=> pc'[v] \in {"replacing", "published"}
  OBVIOUS
<1>4. \A v \in Writers : pc'[v] # "idle" => Len(outcome'[v]) < MaxRequests
  OBVIOUS
<1> QED
  BY <1>1, <1>2, <1>3, <1>4

LEMMA WriterTyped ==
  ASSUME Typed, NEW w \in Writers, WriterStep(w)
  PROVE  Typed'
<1>1. CASE FailBeforeWrite(w)
  BY <1>1, EndTyped DEF FailBeforeWrite, Typed, TypeOK, Outcomes
<1>2. CASE CheckAbsent(w)
  <2>1. CASE End(w, "fallback")
    BY <1>2, <2>1, EndTyped DEF CheckAbsent, Typed, TypeOK, Outcomes
  <2>2. CASE ~End(w, "fallback")
    BY <1>2, <2>2 DEF CheckAbsent, Goto, Typed, TypeOK, Stages
  <2> QED
    BY <2>1, <2>2
<1>3. CASE PutDone(w)
  <2>1. CASE BeginRollback(w)
    BY <1>3, <2>1, RollbackTyped DEF PutDone, Typed, TypeOK
  <2>2. CASE ~BeginRollback(w)
    BY <1>3, <2>2 DEF PutDone, Goto, Typed, TypeOK, Stages
  <2> QED
    BY <2>1, <2>2
<1>4. CASE Verify(w)
  <2>1. CASE BeginRollback(w)
    BY <1>4, <2>1, RollbackTyped DEF Verify, Typed, TypeOK
  <2>2. CASE ~BeginRollback(w)
    BY <1>4, <2>2 DEF Verify, Goto, Typed, TypeOK, Stages
  <2> QED
    BY <2>1, <2>2
<1>5. CASE CostGate(w)
  <2>1. CASE BeginRollback(w)
    BY <1>5, <2>1, RollbackTyped DEF CostGate, Typed, TypeOK
  <2>2. CASE ~BeginRollback(w)
    BY <1>5, <2>2 DEF CostGate, Goto, Typed, TypeOK, Stages
  <2> QED
    BY <2>1, <2>2
<1>6. CASE LockIndex(w)
  BY <1>6 DEF LockIndex, Goto, Typed, TypeOK, Stages
<1>7. CASE FailPublish(w)
  BY <1>7, RollbackTyped DEF FailPublish, Typed, TypeOK
<1>8. CASE ReplaceIndex(w)
  <2>1. Attempt(w) \in Attempts
    BY <1>8, AttemptType DEF ReplaceIndex
  <2> QED
    BY <1>8, <2>1 DEF ReplaceIndex, Goto, Typed, TypeOK, Stages
<1>9. CASE Reply(w)
  BY <1>9, EndTyped DEF Reply, Typed, TypeOK, Outcomes
<1>10. CASE FinishRollback(w)
  <2>1. leftover' \in [Attempts -> SUBSET Keys]
    BY <1>10, AttemptType DEF FinishRollback, Typed, TypeOK
  <2> QED
    BY <1>10, <2>1, EndTyped DEF FinishRollback, Typed, TypeOK, Outcomes
<1>11. ASSUME NEW k \in Keys, PutObject(w, k) PROVE Typed'
  <2>1. Attempt(w) \in Attempts
    BY <1>11, AttemptType DEF PutObject
  <2>2. objects' \in [Keys -> Attempts \union {Absent}] /\ putFailed' \in [Writers -> BOOLEAN]
    BY <1>11, <2>1 DEF PutObject, Typed, TypeOK
  <2> QED
    BY <1>11, <2>2 DEF PutObject, Typed, TypeOK
<1>12. ASSUME NEW k \in Keys, RemoveObject(w, k) PROVE Typed'
  BY <1>12 DEF RemoveObject, Typed, TypeOK
<1> QED
  BY <1>1, <1>2, <1>3, <1>4, <1>5, <1>6, <1>7, <1>8, <1>9, <1>10, <1>11, <1>12 DEF WriterStep

LEMMA BatchKeysType ==
  ASSUME NEW batches \in Seq(Attempts)
  PROVE  BatchKeys(batches) \subseteq Keys
<1>1. \A i \in DOMAIN batches : batches[i][1] \in Writers
  BY DEF Attempts
<1> QED
  BY <1>1 DEF BatchKeys

LEMMA TypedStep ==
  ASSUME Typed, [Next]_vars
  PROVE  Typed'
<1>1. CASE UNCHANGED vars
  BY <1>1 DEF Typed, TypeOK
<1>2. ASSUME NEW w \in Writers, Accept(w) PROVE Typed'
  BY <1>2 DEF Accept, Goto, Typed, TypeOK, Stages
<1>3. ASSUME NEW w \in Writers, Crash(w) PROVE Typed'
  BY <1>3, EndTyped DEF Crash, Typed, TypeOK, Outcomes
<1>4. CASE Lookup
  <2>1. Unread \in Seq(Attempts)
    BY DEF Unread, Typed, TypeOK
  <2> QED
    BY <1>4, <2>1, BatchKeysType DEF Lookup, Typed, TypeOK
<1> QED
  BY <1>1, <1>2, <1>3, <1>4, WriterTyped DEF Next

\* The materializer's variables keep their types, and the index lock is held exactly
\* while a publisher is between its acquisition and the end of the request.
THEOREM TypeCorrect == Spec => []TypeOK
<1>1. Typed => TypeOK
  BY DEF Typed
<1> QED
  BY <1>1, TypedInit, TypedStep, PTL DEF Spec

-----------------------------------------------------------------------------
(* What an object says of the attempt that stored it.                      *)

\* The objects of an attempt carry keys of its batch. They are those of ended attempts,
\* or of one past its absence check, and in a rollback only those still to be removed.
Owned ==
  \A w \in Writers, n \in 1..MaxRequests, k \in Keys : objects[k] = <<w, n>> =>
    /\ k \in BatchOf[w]
    /\ \/ n <= Len(outcome[w])
       \/ /\ n = Len(outcome[w]) + 1
          /\ pc[w] \notin {"idle", "transforming"}
          /\ pc[w] = "rollback" => k \in todo[w]

\* The records of an index are those of ended attempts, or of one that is about to reply.
IndexOwned ==
  \A w \in Writers, n \in 1..MaxRequests : <<w, n>> \in Range(index) =>
    \/ n <= Len(outcome[w])
    \/ n = Len(outcome[w]) + 1 /\ pc[w] = "published"

\* What the publisher has read under the lock is still what the index holds, until it
\* is replaced by that and the publisher's own record.
Publishing ==
  \A w \in Writers :
    /\ pc[w] = "replacing" => staged[w] = index
    /\ pc[w] = "published" => Attempt(w) \in Range(index)

Inductive ==
  Typed /\ Owned /\ IndexOwned /\ Publishing /\ FallbackLeavesNothing /\ ReplyMatchesIndex

(* Three kinds of step of a writer: it ends its request, it moves on, or it *)
(* writes.  The last is PutObject, RemoveObject or ReplaceIndex.             *)

Alone(w) ==
  \A v \in Writers \ {w} : pc'[v] = pc[v] /\ todo'[v] = todo[v] /\ staged'[v] = staged[v]

Ending(w, how) ==
  /\ pc[w] # "idle" /\ pc'[w] = "idle" /\ Alone(w)
  /\ outcome' = [outcome EXCEPT ![w] = Append(@, how)]
  /\ how = "success" => pc[w] = "published" /\ leftover' = leftover
  /\ how = "crash" => leftover' = leftover
  /\ how = "fallback" => \/ pc[w] = "transforming" /\ leftover' = leftover
                         \/ /\ pc[w] = "rollback"
                            /\ leftover' = [leftover EXCEPT ![Attempt(w)] = todo[w]]
  /\ UNCHANGED <<objects, index>>

Moving(w) ==
  /\ Alone(w)
  /\ pc[w] # "published" /\ pc'[w] # "published"
  /\ pc'[w] = "replacing" => staged'[w] = index
  /\ pc[w] \notin {"idle", "transforming"} =>
       /\ pc'[w] \notin {"idle", "transforming"}
       /\ pc'[w] = "rollback" => todo'[w] = BatchOf[w]
  /\ UNCHANGED <<objects, index, outcome, leftover>>

LEMMA CrashEnds ==
  ASSUME Typed, NEW w \in Writers, Crash(w)
  PROVE  Ending(w, "crash")
  BY DEF Crash, End, Goto, Ending, Alone, Typed, TypeOK

LEMMA WriterKinds ==
  ASSUME Typed, NEW w \in Writers, Accept(w) \/ WriterStep(w)
  PROVE  \/ Ending(w, "fallback") \/ Ending(w, "success") \/ Moving(w)
         \/ ReplaceIndex(w)
         \/ \E k \in Keys : PutObject(w, k) \/ RemoveObject(w, k)
<1> USE DEF Typed, TypeOK, Goto, Alone
<1>1. CASE Accept(w)
  BY <1>1 DEF Accept, Moving
<1>2. CASE FailBeforeWrite(w)
  BY <1>2 DEF FailBeforeWrite, End, Ending
<1>3. CASE CheckAbsent(w)
  <2>1. CASE End(w, "fallback")
    BY <1>3, <2>1 DEF CheckAbsent, End, Ending
  <2>2. CASE ~End(w, "fallback")
    BY <1>3, <2>2 DEF CheckAbsent, Moving
  <2> QED
    BY <2>1, <2>2
<1>4. CASE PutDone(w)
  BY <1>4 DEF PutDone, BeginRollback, Moving
<1>5. CASE Verify(w)
  BY <1>5 DEF Verify, BeginRollback, Moving
<1>6. CASE CostGate(w)
  BY <1>6 DEF CostGate, BeginRollback, Moving
<1>7. CASE LockIndex(w)
  BY <1>7 DEF LockIndex, Moving
<1>8. CASE FailPublish(w)
  BY <1>8 DEF FailPublish, BeginRollback, Moving
<1>9. CASE Reply(w)
  BY <1>9 DEF Reply, End, Ending
<1>10. CASE FinishRollback(w)
  BY <1>10 DEF FinishRollback, End, Ending
<1> QED
  BY <1>1, <1>2, <1>3, <1>4, <1>5, <1>6, <1>7, <1>8, <1>9, <1>10 DEF WriterStep

LEMMA EndedThen ==
  ASSUME Typed, NEW w \in Writers, NEW how \in Outcomes, Ending(w, how)
  PROVE  /\ \A v \in Writers : Len(outcome[v]) \in Nat
         /\ \A v \in Writers : v # w => outcome'[v] = outcome[v]
         /\ Len(outcome'[w]) = Len(outcome[w]) + 1
         /\ \A a \in Attempts, h \in Outcomes :
              Ended(a, h)' <=> Ended(a, h) \/ (a = Attempt(w) /\ h = how)
         /\ \A h : ~Ended(Attempt(w), h)
<1>1. outcome[w] \in Seq(Outcomes) /\ outcome'[w] = Append(outcome[w], how)
  BY DEF Ending, Typed
<1>2. \A v \in Writers : v # w => outcome'[v] = outcome[v]
  BY DEF Ending, Typed
<1>3. ASSUME NEW v \in Writers, NEW n \in 1..MaxRequests, NEW h \in Outcomes
      PROVE  Ended(<<v, n>>, h)' <=> Ended(<<v, n>>, h) \/ (<<v, n>> = Attempt(w) /\ h = how)
  <2>1. CASE v # w
    BY <1>2, <2>1 DEF Ended, Attempt
  <2>2. CASE v = w
    BY <1>1, <2>2 DEF Ended, Attempt
  <2> QED
    BY <2>1, <2>2
<1>4. \A h : ~Ended(Attempt(w), h)
  BY <1>1 DEF Ended, Attempt
<1>5. \A a \in Attempts, h \in Outcomes :
        Ended(a, h)' <=> Ended(a, h) \/ (a = Attempt(w) /\ h = how)
  BY <1>3 DEF Attempts
<1>6. \A v \in Writers : Len(outcome[v]) \in Nat
  BY DEF Typed
<1>7. Len(outcome'[w]) = Len(outcome[w]) + 1
  BY <1>1
<1> QED
  BY <1>2, <1>4, <1>5, <1>6, <1>7

LEMMA OwnedStep ==
  ASSUME Inductive, NEW w \in Writers
  PROVE  /\ \A how \in Outcomes : Ending(w, how) => Owned'
         /\ Moving(w) \/ ReplaceIndex(w) => Owned'
         /\ \A k \in Keys : PutObject(w, k) \/ RemoveObject(w, k) => Owned'
<1> USE DEF Inductive
<1>1. ASSUME NEW how \in Outcomes, Ending(w, how) PROVE Owned'
  <2>1. /\ \A v \in Writers : Len(outcome[v]) \in Nat
        /\ \A v \in Writers : v # w => outcome'[v] = outcome[v]
        /\ Len(outcome'[w]) = Len(outcome[w]) + 1
    BY <1>1, EndedThen
  <2> QED
    BY <1>1, <2>1 DEF Ending, Alone, Owned
<1>2. CASE Moving(w)
  BY <1>2 DEF Moving, Alone, Owned
<1>3. CASE ReplaceIndex(w)
  BY <1>3 DEF ReplaceIndex, Goto, Owned, Typed, TypeOK
<1>4. ASSUME NEW k \in Keys, PutObject(w, k) PROVE Owned'
  <2>1. k \in BatchOf[w] /\ pc[w] = "putting" /\ Len(outcome[w]) \in Nat
    BY <1>4 DEF PutObject, Typed, TypeOK
  <2>2. \A j \in Keys : objects'[j] = objects[j] \/ (j = k /\ objects'[j] = Attempt(w))
    BY <1>4 DEF PutObject, Typed, TypeOK
  <2>3. \A v \in Writers : v # w => todo'[v] = todo[v]
    BY <1>4 DEF PutObject, Typed
  <2> QED
    BY <1>4, <2>1, <2>2, <2>3 DEF PutObject, Owned, Attempt
<1>5. ASSUME NEW k \in Keys, RemoveObject(w, k) PROVE Owned'
  <2>1. \A j \in Keys : objects'[j] = IF j = k THEN Absent ELSE objects[j]
    BY <1>5 DEF RemoveObject, Typed, TypeOK
  <2>2. \A v \in Writers, n \in 1..MaxRequests : <<v, n>> # Absent
    OBVIOUS
  <2>3. \A v \in Writers, j \in Keys : j # k => (j \in todo'[v] <=> j \in todo[v])
    BY <1>5 DEF RemoveObject, Typed
  <2>4. pc' = pc /\ outcome' = outcome
    BY <1>5 DEF RemoveObject
  <2> SUFFICES ASSUME NEW v \in Writers, NEW n \in 1..MaxRequests, NEW j \in Keys,
                      objects'[j] = <<v, n>>, j # k, objects[j] = <<v, n>>
               PROVE  /\ j \in BatchOf[v]
                      /\ \/ n <= Len(outcome[v])
                         \/ /\ n = Len(outcome[v]) + 1
                            /\ pc[v] \notin {"idle", "transforming"}
                            /\ pc[v] = "rollback" => j \in todo'[v]
    BY <2>1, <2>2, <2>4 DEF Owned
  <2> QED
    BY <2>3 DEF Owned
<1> QED
  BY <1>1, <1>2, <1>3, <1>4, <1>5

\* A publisher alone holds the lock, so the index it replaces is the one it has read.
LEMMA Appends ==
  ASSUME Inductive, NEW w \in Writers, ReplaceIndex(w)
  PROVE  /\ index' = Append(index, Attempt(w)) /\ index \in Seq(Attempts)
         /\ Attempt(w) \in Attempts
         /\ Range(index') = Range(index) \union {Attempt(w)}
         /\ \A v \in Writers : v # w => pc[v] \notin {"replacing", "published"}
<1>1. index' = Append(index, Attempt(w)) /\ index \in Seq(Attempts)
  BY DEF ReplaceIndex, Inductive, Publishing, Typed, TypeOK
<1>2. Attempt(w) \in Attempts
  BY AttemptType DEF ReplaceIndex, Inductive
<1>3. Range(index') = Range(index) \union {Attempt(w)}
  <2>1. DOMAIN index = 1..Len(index) /\ DOMAIN index' = 1..(Len(index) + 1) /\ Len(index) \in Nat
    BY <1>1, <1>2
  <2>2. \A i \in 1..Len(index) : index'[i] = index[i]
    BY <1>1, <1>2
  <2>3. index'[Len(index) + 1] = Attempt(w)
    BY <1>1, <1>2
  <2> QED
    BY <2>1, <2>2, <2>3 DEF Range
<1>4. \A v \in Writers : v # w => pc[v] \notin {"replacing", "published"}
  BY DEF ReplaceIndex, Inductive, Typed, TypeOK
<1> QED
  BY <1>1, <1>2, <1>3, <1>4

LEMMA IndexOwnedStep ==
  ASSUME Inductive, NEW w \in Writers
  PROVE  /\ \A how \in Outcomes : Ending(w, how) => IndexOwned'
         /\ Moving(w) \/ ReplaceIndex(w) => IndexOwned'
         /\ \A k \in Keys : PutObject(w, k) \/ RemoveObject(w, k) => IndexOwned'
<1> USE DEF Inductive
<1>1. ASSUME NEW how \in Outcomes, Ending(w, how) PROVE IndexOwned'
  <2>1. /\ \A v \in Writers : Len(outcome[v]) \in Nat
        /\ \A v \in Writers : v # w => outcome'[v] = outcome[v]
        /\ Len(outcome'[w]) = Len(outcome[w]) + 1
    BY <1>1, EndedThen
  <2> QED
    BY <1>1, <2>1 DEF Ending, Alone, IndexOwned, Range
<1>2. CASE Moving(w)
  BY <1>2 DEF Moving, Alone, IndexOwned, Range
<1>3. CASE ReplaceIndex(w)
  <2>1. Range(index') = Range(index) \union {Attempt(w)}
    BY <1>3, Appends
  <2>2. pc'[w] = "published" /\ outcome' = outcome /\ \A v \in Writers : v # w => pc'[v] = pc[v]
    BY <1>3 DEF ReplaceIndex, Goto, Typed, TypeOK
  <2>3. pc[w] # "published"
    BY <1>3 DEF ReplaceIndex
  <2> QED
    BY <2>1, <2>2, <2>3 DEF IndexOwned, Attempt
<1>4. ASSUME NEW k \in Keys, PutObject(w, k) \/ RemoveObject(w, k) PROVE IndexOwned'
  BY <1>4 DEF PutObject, RemoveObject, IndexOwned, Range
<1> QED
  BY <1>1, <1>2, <1>3, <1>4

LEMMA PublishingStep ==
  ASSUME Inductive, NEW w \in Writers
  PROVE  /\ \A how \in Outcomes : Ending(w, how) => Publishing'
         /\ Moving(w) \/ ReplaceIndex(w) => Publishing'
         /\ \A k \in Keys : PutObject(w, k) \/ RemoveObject(w, k) => Publishing'
<1> USE DEF Inductive
<1>1. ASSUME NEW how \in Outcomes, Ending(w, how) PROVE Publishing'
  <2>1. \A v \in Writers : v # w => Attempt(v)' = Attempt(v)
    BY <1>1, EndedThen DEF Attempt
  <2> QED
    BY <1>1, <2>1 DEF Ending, Alone, Publishing, Range
<1>2. CASE Moving(w)
  BY <1>2 DEF Moving, Alone, Publishing, Range, Attempt
<1>3. CASE ReplaceIndex(w)
  <2>1. /\ Range(index') = Range(index) \union {Attempt(w)}
        /\ \A v \in Writers : v # w => pc[v] \notin {"replacing", "published"}
    BY <1>3, Appends
  <2>2. /\ pc'[w] = "published" /\ outcome' = outcome
        /\ \A v \in Writers : v # w => pc'[v] = pc[v]
    BY <1>3 DEF ReplaceIndex, Goto, Typed, TypeOK
  <2> QED
    BY <2>1, <2>2 DEF Publishing, Attempt
<1>4. ASSUME NEW k \in Keys, PutObject(w, k) \/ RemoveObject(w, k) PROVE Publishing'
  BY <1>4 DEF PutObject, RemoveObject, Publishing, Range, Attempt
<1> QED
  BY <1>1, <1>2, <1>3, <1>4

LEMMA FallbackStep ==
  ASSUME Inductive, NEW w \in Writers
  PROVE  /\ \A how \in Outcomes : Ending(w, how) => FallbackLeavesNothing'
         /\ Moving(w) \/ ReplaceIndex(w) => FallbackLeavesNothing'
         /\ \A k \in Keys : PutObject(w, k) \/ RemoveObject(w, k) => FallbackLeavesNothing'
<1> USE DEF Inductive
<1>1. ASSUME NEW how \in Outcomes, Ending(w, how) PROVE FallbackLeavesNothing'
  <2>1. /\ \A a \in Attempts : Ended(a, "fallback")' <=>
                                 Ended(a, "fallback") \/ (a = Attempt(w) /\ how = "fallback")
        /\ ~Ended(Attempt(w), "fallback")
    BY <1>1, EndedThen DEF Outcomes
  <2>2. \A a \in Attempts : a # Attempt(w) => leftover'[a] = leftover[a]
    BY <1>1 DEF Ending, Outcomes, Typed, TypeOK
  <2>3. ASSUME how = "fallback", NEW k \in Keys, objects[k] = Attempt(w)
        PROVE  k \in leftover'[Attempt(w)]
    <3>1. /\ Attempt(w) \in Attempts /\ Len(outcome[w]) \in Nat
          /\ Len(outcome[w]) + 1 \in 1..MaxRequests
      BY <1>1, AttemptType DEF Ending, Attempt, Attempts, Typed
    <3>2. pc[w] \notin {"idle", "transforming"} /\ (pc[w] = "rollback" => k \in todo[w])
      BY <2>3, <3>1 DEF Owned, Attempt
    <3> QED
      BY <1>1, <2>3, <3>1, <3>2 DEF Ending, Typed, TypeOK
  <2>4. objects' = objects
    BY <1>1 DEF Ending
  <2> QED
    BY <2>1, <2>2, <2>3, <2>4 DEF FallbackLeavesNothing
<1>2. CASE Moving(w) \/ ReplaceIndex(w)
  BY <1>2 DEF Moving, ReplaceIndex, FallbackLeavesNothing, Ended
<1>3. ASSUME NEW k \in Keys, PutObject(w, k) PROVE FallbackLeavesNothing'
  <2>1. ~Ended(Attempt(w), "fallback")
    BY DEF Ended, Attempt, Typed
  <2> QED
    BY <1>3, <2>1 DEF PutObject, FallbackLeavesNothing, Ended, Typed, TypeOK
<1>4. ASSUME NEW k \in Keys, RemoveObject(w, k) PROVE FallbackLeavesNothing'
  BY <1>4 DEF RemoveObject, FallbackLeavesNothing, Ended, Attempts, Typed, TypeOK
<1> QED
  BY <1>1, <1>2, <1>3, <1>4

LEMMA ReplyStep ==
  ASSUME Inductive, NEW w \in Writers
  PROVE  /\ \A how \in Outcomes : Ending(w, how) => ReplyMatchesIndex'
         /\ Moving(w) \/ ReplaceIndex(w) => ReplyMatchesIndex'
         /\ \A k \in Keys : PutObject(w, k) \/ RemoveObject(w, k) => ReplyMatchesIndex'
<1> USE DEF Inductive
<1>1. ASSUME NEW how \in Outcomes, Ending(w, how) PROVE ReplyMatchesIndex'
  <2>1. \A a \in Attempts, h \in Outcomes :
          Ended(a, h)' <=> Ended(a, h) \/ (a = Attempt(w) /\ h = how)
    BY <1>1, EndedThen
  <2>2. how = "success" => Attempt(w) \in Range(index)
    BY <1>1 DEF Ending, Publishing
  <2>3. how = "fallback" => Attempt(w) \notin Range(index)
    <3>1. /\ Attempt(w) \in Attempts /\ Len(outcome[w]) \in Nat
          /\ Len(outcome[w]) + 1 \in 1..MaxRequests
      BY <1>1, AttemptType DEF Ending, Attempt, Attempts, Typed
    <3> QED
      BY <1>1, <3>1 DEF Ending, IndexOwned, Attempt
  <2>4. Range(index)' = Range(index)
    BY <1>1 DEF Ending, Range
  <2> QED
    BY <2>1, <2>2, <2>3, <2>4 DEF ReplyMatchesIndex, Outcomes
<1>2. CASE Moving(w)
  BY <1>2 DEF Moving, ReplyMatchesIndex, Ended, Range
<1>3. CASE ReplaceIndex(w)
  <2>1. Range(index') = Range(index) \union {Attempt(w)}
    BY <1>3, Appends
  <2>2. ~Ended(Attempt(w), "fallback")
    BY DEF Ended, Attempt, Typed
  <2>3. outcome' = outcome
    BY <1>3 DEF ReplaceIndex
  <2> QED
    BY <2>1, <2>2, <2>3 DEF ReplyMatchesIndex, Ended
<1>4. ASSUME NEW k \in Keys, PutObject(w, k) \/ RemoveObject(w, k) PROVE ReplyMatchesIndex'
  BY <1>4 DEF PutObject, RemoveObject, ReplyMatchesIndex, Ended, Range
<1> QED
  BY <1>1, <1>2, <1>3, <1>4

LEMMA InductiveInit == Init => Inductive
<1> SUFFICES ASSUME Init PROVE Inductive
  OBVIOUS
<1> USE DEF Init
<1>1. Owned
  BY DEF Owned, Attempts
<1>2. Range(index) = {}
  BY DEF Range
<1>3. \A a \in Attempts : \A h : ~Ended(a, h)
  BY DEF Ended, Attempts
<1>4. IndexOwned /\ Publishing /\ FallbackLeavesNothing /\ ReplyMatchesIndex
  BY <1>2, <1>3 DEF IndexOwned, Publishing, FallbackLeavesNothing, ReplyMatchesIndex
<1> QED
  BY <1>1, <1>4, TypedInit DEF Inductive

LEMMA InductiveStep ==
  ASSUME Inductive, [Next]_vars
  PROVE  Inductive'
<1> USE DEF Inductive
<1>1. Typed'
  BY TypedStep
<1>2. CASE UNCHANGED <<objects, index, pc, todo, staged, outcome, leftover>>
  <2>1. Owned'
    BY <1>2 DEF Owned
  <2>2. IndexOwned'
    BY <1>2 DEF IndexOwned, Range
  <2>3. Publishing'
    BY <1>2 DEF Publishing, Attempt, Range
  <2>4. FallbackLeavesNothing'
    BY <1>2 DEF FallbackLeavesNothing, Ended
  <2>5. ReplyMatchesIndex'
    BY <1>2 DEF ReplyMatchesIndex, Ended, Range
  <2> QED
    BY <1>1, <2>1, <2>2, <2>3, <2>4, <2>5
<1>3. ASSUME NEW w \in Writers, Crash(w) PROVE Inductive'
  <2>1. Ending(w, "crash") /\ "crash" \in Outcomes
    BY <1>3, CrashEnds DEF Outcomes
  <2> QED
    BY <1>1, <2>1, OwnedStep, IndexOwnedStep, PublishingStep, FallbackStep, ReplyStep
<1>4. ASSUME NEW w \in Writers, Accept(w) \/ WriterStep(w) PROVE Inductive'
  <2>1. "success" \in Outcomes /\ "fallback" \in Outcomes
    BY DEF Outcomes
  <2> HIDE DEF Inductive
  <2>2. /\ Owned' /\ IndexOwned' /\ Publishing'
    BY <1>4, <2>1, WriterKinds, OwnedStep, IndexOwnedStep, PublishingStep DEF Inductive
  <2>3. FallbackLeavesNothing' /\ ReplyMatchesIndex'
    BY <1>4, <2>1, WriterKinds, FallbackStep, ReplyStep DEF Inductive
  <2> QED
    BY <1>1, <2>2, <2>3 DEF Inductive
<1>5. CASE Lookup
  BY <1>2, <1>5 DEF Lookup
<1> QED
  BY <1>2, <1>3, <1>4, <1>5 DEF Next

LEMMA InductiveHolds == Spec => []Inductive
  BY InductiveInit, InductiveStep, PTL DEF Spec

\* A request that falls back leaves none of its objects behind but those its rollback
\* reported, also while other writers put, remove and publish the same keys.
THEOREM FallbackIsClean == Spec => []FallbackLeavesNothing
<1>1. Inductive => FallbackLeavesNothing
  BY DEF Inductive
<1> QED
  BY <1>1, InductiveHolds, PTL

\* What a request replies is what the index says of it, from then on.
THEOREM RepliesAgree == Spec => []ReplyMatchesIndex
<1>1. Inductive => ReplyMatchesIndex
  BY DEF Inductive
<1> QED
  BY <1>1, InductiveHolds, PTL

LEMMA AppendExtends ==
  ASSUME NEW S, NEW s \in Seq(S), NEW e \in S
  PROVE  IsPrefix(s, Append(s, e))
<1>1. Len(s) \in Nat /\ Len(Append(s, e)) = Len(s) + 1
  OBVIOUS
<1>2. SubSeq(s, 1, Len(s)) = s
  OBVIOUS
<1>3. SubSeq(Append(s, e), 1, Len(s)) = s
  OBVIOUS
<1> QED
  BY <1>1, <1>2, <1>3 DEF IsPrefix

\* Only a publisher changes the index.
LEMMA IndexStep ==
  ASSUME Inductive, [Next]_vars
  PROVE  index' = index \/ \E w \in Writers : ReplaceIndex(w)
<1>1. ASSUME NEW w \in Writers, Accept(w) \/ WriterStep(w)
      PROVE  index' = index \/ ReplaceIndex(w)
  BY <1>1, WriterKinds DEF Inductive, Ending, Moving, PutObject, RemoveObject
<1> QED
  BY <1>1 DEF Next, Crash, Lookup

\* Whoever publishes, in whatever order, appends to what every earlier publisher left.
THEOREM IndexAppended == Spec => IndexOnlyGrows
<1>1. ASSUME Inductive, [Next]_vars PROVE [IsPrefix(index, index')]_index
  <2>1. ASSUME NEW w \in Writers, ReplaceIndex(w) PROVE IsPrefix(index, index')
    <3>1. index' = Append(index, Attempt(w)) /\ index \in Seq(Attempts) /\ Attempt(w) \in Attempts
      BY <1>1, <2>1, Appends
    <3>2. IsPrefix(index, Append(index, Attempt(w)))
      BY <3>1, AppendExtends
    <3> QED
      BY <3>1, <3>2
  <2>2. index' = index \/ \E w \in Writers : ReplaceIndex(w)
    BY <1>1, IndexStep
  <2> QED
    BY <2>1, <2>2
<1> QED
  BY <1>1, InductiveHolds, PTL DEF Spec, IndexOnlyGrows

-----------------------------------------------------------------------------
(* Writers that share no key.                                              *)

NoSharedKeys ==
  \A v, w \in Writers : v # w => BatchOf[v] \intersect BatchOf[w] = {}

HasPublished(w) == \E n \in 1..MaxRequests : <<w, n>> \in Range(index)

\* A published batch is complete, and its writer's next requests stop at the absence
\* check; a batch about to be published is complete.  What the adapter knows has been
\* published.
Complete ==
  /\ \A w \in Writers :
       HasPublished(w) \/ pc[w] \in {"gating", "locking", "replacing", "published"} =>
         \A k \in BatchOf[w] : Present(k)
  /\ \A w \in Writers : HasPublished(w) => pc[w] \in {"idle", "transforming", "published"}
  /\ known \subseteq BatchKeys(index) /\ offset <= Len(index)

LEMMA CompleteInit == Init => Complete
<1> SUFFICES ASSUME Init PROVE Complete
  OBVIOUS
<1>1. Range(index) = {} /\ index = <<>> /\ known = {} /\ offset = 0
  BY DEF Init, Range
<1>2. \A w \in Writers : pc[w] = "idle"
  BY DEF Init
<1> QED
  BY <1>1, <1>2 DEF Complete, HasPublished

\* The keys of an index are the batches of the writers that have published.
LEMMA BatchKeysAre ==
  ASSUME Typed
  PROVE  \A k : k \in BatchKeys(index) <=>
           \E w \in Writers : HasPublished(w) /\ k \in BatchOf[w]
<1>1. \A i \in DOMAIN index : index[i] \in Attempts
  BY DEF Typed, TypeOK
<1>2. \A k : k \in BatchKeys(index) <=> \E i \in DOMAIN index : k \in BatchOf[index[i][1]]
  BY DEF BatchKeys
<1>3. \A i \in DOMAIN index : index[i][1] \in Writers /\ HasPublished(index[i][1])
  BY <1>1 DEF Attempts, HasPublished, Range
<1>4. \A w \in Writers : HasPublished(w) => \E i \in DOMAIN index : index[i][1] = w
  BY DEF HasPublished, Range
<1> QED
  BY <1>2, <1>3, <1>4

\* Steps that keep a batch complete: they remove nothing of it, publish nothing new, and
\* leave the writers where Complete allows them to be.
LEMMA CompleteWriter ==
  ASSUME NoSharedKeys, Inductive, Complete, NEW w \in Writers
  PROVE  /\ Accept(w) \/ FailBeforeWrite(w) \/ CheckAbsent(w) => Complete'
         /\ PutDone(w) \/ Verify(w) \/ CostGate(w) \/ LockIndex(w) => Complete'
         /\ FailPublish(w) \/ Reply(w) \/ FinishRollback(w) \/ Crash(w) => Complete'
<1> USE DEF Inductive, Typed, TypeOK, Goto, End, BeginRollback
<1>0. ASSUME objects' = objects, index' = index, known' = known, offset' = offset,
             \A v \in Writers \ {w} : pc'[v] = pc[v],
             pc'[w] \in {"gating", "locking", "replacing", "published"} =>
               \A k \in BatchOf[w] : Present(k),
             HasPublished(w) => pc'[w] \in {"idle", "transforming", "published"}
      PROVE  Complete'
  <2>1. \A v \in Writers : HasPublished(v)' <=> HasPublished(v)
    BY <1>0 DEF HasPublished
  <2>2. BatchKeys(index)' = BatchKeys(index)
    BY <1>0
  <2>3. \A k : Present(k)' <=> Present(k)
    BY <1>0 DEF Present
  <2>4. ASSUME NEW v \in Writers,
               HasPublished(v) \/ pc'[v] \in {"gating", "locking", "replacing", "published"}
        PROVE  \A k \in BatchOf[v] : Present(k)
    BY <2>4, <1>0 DEF Complete
  <2>5. ASSUME NEW v \in Writers, HasPublished(v)
        PROVE  pc'[v] \in {"idle", "transforming", "published"}
    BY <2>5, <1>0 DEF Complete
  <2>6. known' \subseteq BatchKeys(index) /\ offset' <= Len(index')
    BY <1>0 DEF Complete
  <2> QED
    BY <2>1, <2>2, <2>3, <2>4, <2>5, <2>6 DEF Complete
<1>1. CASE Accept(w) \/ FailBeforeWrite(w)
  BY <1>0, <1>1 DEF Accept, FailBeforeWrite
<1>2. CASE CheckAbsent(w)
  <2>1. \E k \in BatchOf[w] : TRUE
    OBVIOUS
  <2>2. CASE \A k \in BatchOf[w] : ~Present(k)
    <3>1. ~HasPublished(w)
      BY <2>1, <2>2 DEF Complete
    <3> QED
      BY <1>0, <1>2, <2>1, <2>2, <3>1 DEF CheckAbsent
  <2>3. CASE \E k \in BatchOf[w] : Present(k)
    BY <1>0, <1>2, <2>3 DEF CheckAbsent
  <2> QED
    BY <2>2, <2>3
<1>3. CASE PutDone(w) \/ CostGate(w) \/ LockIndex(w)
  BY <1>0, <1>3 DEF PutDone, CostGate, LockIndex, Complete
<1>4. CASE Verify(w)
  BY <1>0, <1>4 DEF Verify, Complete
<1>5. CASE FailPublish(w) \/ Reply(w)
  BY <1>0, <1>5 DEF FailPublish, Reply, Complete
<1>6. CASE FinishRollback(w) \/ Crash(w)
  BY <1>0, <1>6 DEF FinishRollback, Crash
<1> QED
  BY <1>1, <1>2, <1>3, <1>4, <1>5, <1>6

LEMMA CompletePut ==
  ASSUME NoSharedKeys, Inductive, Complete, NEW w \in Writers, NEW k \in Keys,
         PutObject(w, k)
  PROVE  Complete'
<1> USE DEF Inductive, Typed, TypeOK
<1>1. \A j \in Keys : Present(j) => Present(j)'
  <2>1. Attempt(w) # Absent
    BY AttemptType DEF PutObject, Attempts
  <2> QED
    BY <2>1 DEF PutObject, Present
<1>2. pc' = pc /\ index' = index /\ known' = known /\ offset' = offset
  BY DEF PutObject
<1>3. \A v \in Writers : BatchOf[v] \subseteq Keys
  OBVIOUS
<1> QED
  <2>1. \A v \in Writers : HasPublished(v)' <=> HasPublished(v)
    BY <1>2 DEF HasPublished
  <2>2. BatchKeys(index)' = BatchKeys(index)
    BY <1>2
  <2>3. \A v \in Writers :
          HasPublished(v) \/ pc[v] \in {"gating", "locking", "replacing", "published"} =>
            \A j \in BatchOf[v] : Present(j)'
    BY <1>1, <1>3 DEF Complete
  <2> QED
    BY <2>1, <2>2, <2>3, <1>2 DEF Complete

\* A rollback removes keys of its own batch, which no other writer has and which it has
\* not published itself.
LEMMA CompleteRemove ==
  ASSUME NoSharedKeys, Inductive, Complete, NEW w \in Writers, NEW k \in Keys,
         RemoveObject(w, k)
  PROVE  Complete'
<1> USE DEF Inductive, Typed, TypeOK
<1>1. k \in BatchOf[w] /\ pc[w] = "rollback"
  BY DEF RemoveObject
<1>2. \A v \in Writers : v # w => k \notin BatchOf[v]
  BY <1>1 DEF NoSharedKeys
<1>3. \A j \in Keys : j # k /\ Present(j) => Present(j)'
  BY DEF RemoveObject, Present
<1>4. pc' = pc /\ index' = index /\ known' = known /\ offset' = offset
  BY DEF RemoveObject
<1>5. \A v \in Writers : BatchOf[v] \subseteq Keys
  OBVIOUS
<1>6. ~HasPublished(w)
  BY <1>1 DEF Complete
<1> QED
  <2>1. \A v \in Writers : HasPublished(v)' <=> HasPublished(v)
    BY <1>4 DEF HasPublished
  <2>2. BatchKeys(index)' = BatchKeys(index)
    BY <1>4
  <2>3. ASSUME NEW v \in Writers,
               HasPublished(v) \/ pc[v] \in {"gating", "locking", "replacing", "published"},
               NEW j \in BatchOf[v]
        PROVE  Present(j)'
    <3>1. Present(j) /\ j \in Keys
      BY <2>3, <1>5 DEF Complete
    <3>2. v # w
      BY <2>3, <1>1, <1>6
    <3>3. j # k
      BY <3>2, <1>2
    <3> QED
      BY <3>1, <3>3, <1>3
  <2> QED
    BY <2>1, <2>2, <2>3, <1>4 DEF Complete

LEMMA CompleteReplace ==
  ASSUME Inductive, Complete, NEW w \in Writers, ReplaceIndex(w)
  PROVE  Complete'
<1>1. /\ index' = Append(index, Attempt(w)) /\ index \in Seq(Attempts)
      /\ Attempt(w) \in Attempts
      /\ Range(index') = Range(index) \union {Attempt(w)}
  BY Appends
<1>2. /\ pc[w] = "replacing" /\ objects' = objects /\ known' = known /\ offset' = offset
      /\ pc' = [pc EXCEPT ![w] = "published"] /\ pc \in [Writers -> Stages]
  BY DEF ReplaceIndex, Goto, Inductive, Typed, TypeOK
<1>3. \A v \in Writers : HasPublished(v)' => HasPublished(v) \/ v = w
  BY <1>1 DEF HasPublished, Attempt
<1>4. /\ \A v \in Writers :
            (HasPublished(v) \/ pc[v] \in {"gating", "locking", "replacing", "published"})' =>
              \A k \in BatchOf[v] : Present(k)'
      /\ \A v \in Writers : HasPublished(v)' => pc'[v] \in {"idle", "transforming", "published"}
  BY <1>2, <1>3 DEF Complete, Present
<1>5. /\ Len(index) \in Nat /\ Len(index') = Len(index) + 1
      /\ \A i \in DOMAIN index : index'[i] = index[i] /\ i \in DOMAIN index'
  BY <1>1
<1>6. BatchKeys(index) \subseteq BatchKeys(index')
  BY <1>5 DEF BatchKeys
<1>7. offset \in Nat
  BY DEF Inductive, Typed, TypeOK
<1> QED
  BY <1>2, <1>4, <1>5, <1>6, <1>7 DEF Complete

LEMMA CompleteLookup ==
  ASSUME Inductive, Complete, Lookup
  PROVE  Complete'
<1>1. index \in Seq(Attempts) /\ offset \in Nat /\ offset <= Len(index) /\ Len(index) \in Nat
  BY DEF Inductive, Typed, TypeOK, Complete
<1>2. Unread = SubSeq(index, offset + 1, Len(index))
  BY <1>1 DEF Unread
<1>3. \A i \in DOMAIN Unread : i + offset \in DOMAIN index /\ Unread[i] = index[i + offset]
  BY <1>1, <1>2
<1>4. BatchKeys(Unread) \subseteq BatchKeys(index)
  BY <1>3 DEF BatchKeys
<1> QED
  BY <1>1, <1>4 DEF Lookup, Complete, HasPublished, Present, BatchKeys, Range

LEMMA CompleteStep ==
  ASSUME NoSharedKeys, Inductive, Complete, [Next]_vars
  PROVE  Complete'
<1>1. CASE UNCHANGED vars
  BY <1>1 DEF Complete, HasPublished, Present, BatchKeys, Range
<1>2. ASSUME NEW w \in Writers, Accept(w) \/ WriterStep(w) \/ Crash(w) PROVE Complete'
  BY <1>2, CompleteWriter, CompletePut, CompleteRemove, CompleteReplace DEF WriterStep
<1> QED
  BY <1>1, <1>2, CompleteLookup DEF Next

\* When no two writers are asked for a common key, whatever LMCache has learned from the
\* index, or can learn from it now, is stored.  Without that a losing writer's rollback
\* removes what the winner published.
THEOREM ObservedIsStored == NoSharedKeys => (Spec => []ObservedKeysStored)
<1>1. Inductive /\ Complete => ObservedKeysStored
  <2> SUFFICES ASSUME Inductive, Complete PROVE ObservedKeysStored
    OBVIOUS
  <2> QED
    BY BatchKeysAre DEF ObservedKeysStored, Complete, Inductive
<1>2. NoSharedKeys /\ Inductive /\ Complete /\ [Next]_vars => Complete'
  BY CompleteStep
<1>3. ASSUME NoSharedKeys PROVE Spec => []ObservedKeysStored
  BY <1>1, <1>2, <1>3, CompleteInit, InductiveHolds, PTL DEF Spec
<1> QED
  BY <1>3
=============================================================================
