----------------------------- MODULE TieredStore -----------------------------
(***************************************************************************)
(* TieredKVStore: block metadata in an index, payloads in three tiers      *)
(* (HBM, CPU, NVMe), and a capacity check that demotes victims down the    *)
(* tiers before a payload is placed.  put, get, offload, remove and evict  *)
(* run under the store's lock, each in one step here; pin and release do   *)
(* not take it; enforce_offload_policy and the layer operations decide     *)
(* under the lock and move the blocks later, one lock section per block.   *)
(***************************************************************************)
EXTENDS Integers, Sequences, FiniteSets

CONSTANTS Blocks,      \* block ids
          Capacity,    \* capacity of each tier, in payload units
          FileOverhead,\* units a pickled payload takes beyond its tensor bytes
          MaxPins,     \* bound: ref_count of a block
          None

\* Every payload has the same tensor size.
Size == 1
Tiers == {"HBM", "CPU", "NVME"}

ASSUME CapacityAssumption == Capacity \in [Tiers -> Nat \ {0}] /\ FileOverhead \in Nat

ASSUME BlockAssumption == IsFiniteSet(Blocks) /\ MaxPins \in Nat

VARIABLES index,   \* CacheIndex: per block its metadata or None
          stored,  \* per tier, the block ids that have a payload there
          planned, \* moves decided under the lock and not executed yet
          lastOp   \* the latest operation: its block, and the tier a
                   \* successful offload claims to have moved it to

vars == <<index, stored, planned, lastOp>>

Metadata == [tier : Tiers, refs : 0..MaxPins, pinned : BOOLEAN]
Moves == [block : Blocks, target : Tiers]
For(b) == [block |-> b, movedTo |-> None]

(* A store is the record of index and payloads that one locked section     *)
(* transforms; failed marks a CapacityExceededError.                       *)
Indexed(s, b) == s.index[b] # None
TierOf(s, b) == s.index[b].tier

Footprint(t) == IF t = "NVME" THEN Size + FileOverhead ELSE Size
Used(s, t) == Cardinality(s.stored[t]) * Footprint(t)

\* Mutant: pinned and retained blocks are candidates like the others.
EligibleAny(s, t, protected) ==
  {b \in Blocks \ protected : Indexed(s, b) /\ TierOf(s, b) = t}

\* _eligible_candidates, over the metadata of one tier.
Eligible(s, t, protected) ==
  {b \in Blocks \ protected :
     Indexed(s, b) /\ TierOf(s, b) = t /\ ~s.index[b].pinned /\ s.index[b].refs = 0}

\* _take_until_bytes: of the candidates in the policy's order, those before which
\* the bytes freed do not yet cover the missing ones.
TakenUntil(candidates, missing, order) ==
  {order[n] : n \in {m \in DOMAIN order :
     order[m] \in candidates
     /\ Cardinality({k \in 1..m - 1 : order[k] \in candidates}) < missing}}

\* select_victims. The policies differ only in the order.
Victims(s, t, missing, protected, order) ==
  TakenUntil(Eligible(s, t, protected), missing, order)

\* The victims that are still indexed are treated one after another.
Treated(s, victims, order, Treat(_, _)) ==
  LET after[n \in 0..Len(order)] ==
        IF n = 0 THEN s
        ELSE LET before == after[n - 1]
             IN  IF order[n] \in victims /\ Indexed(before, order[n])
                 THEN Treat(before, order[n]) ELSE before
  IN  after[Len(order)]

Drop(s, b) ==
  [index |-> [s.index EXCEPT ![b] = None],
   stored |-> [s.stored EXCEPT ![TierOf(s, b)] = @ \ {b}]]

\* TieredKVStore.remove
RemoveBlock(s, b) == IF Indexed(s, b) THEN Drop(s, b) ELSE s

\* Mutant: a tier takes one more block as long as it is not over its capacity.
FitsLoosely(s, t) == Used(s, t) <= Capacity[t]

\* backend.bytes_used() + incoming_bytes <= capacity: the incoming block counts
\* with its tensor bytes, also for the NVMe tier.
Fits(s, t) == Used(s, t) + Size <= Capacity[t]

\* Units of payload missing in a tier for one more block.
Missing(s, t) == Used(s, t) + Size - Capacity[t]

\* Mutant: the metadata follows only a promotion out of NVMe.
PlaceOldTier(s, b, from, t) ==
  [index |-> IF Indexed(s, b) /\ from = "NVME" THEN [s.index EXCEPT ![b].tier = t] ELSE s.index,
   stored |-> [s.stored EXCEPT ![t] = @ \union {b}, ![from] = @ \ {b}]]

\* The end of _execute_offload: the payload goes to the target tier and leaves
\* the source, and the metadata object, still indexed or not, follows.
Place(s, b, from, t) ==
  [index |-> IF Indexed(s, b) THEN [s.index EXCEPT ![b].tier = t] ELSE s.index,
   stored |-> [s.stored EXCEPT ![t] = @ \union {b}, ![from] = @ \ {b}]]

\* _ensure_capacity: Relieve treats one victim; an error of a victim's own move
\* is swallowed, one of the whole check is the caller's.
EnsureCapacity(s, t, protected, order, Relieve(_, _)) ==
  IF Fits(s, t) THEN [store |-> s, failed |-> FALSE]
  ELSE LET after == Treated(s, Victims(s, t, Missing(s, t), protected, order), order, Relieve)
       IN  [store |-> after, failed |-> ~Fits(after, t)]

\* _execute_offload of an indexed block; room is what the target's capacity check makes of
\* the store.
Offload(s, b, t, room) ==
  LET from == TierOf(s, b)
  IN  IF from = t THEN [store |-> s, success |-> TRUE]
      ELSE IF b \notin s.stored[from] THEN [store |-> s, success |-> FALSE]
      ELSE IF room.failed THEN [store |-> room.store, success |-> FALSE]
      ELSE [store |-> Place(room.store, b, from, t), success |-> TRUE]

EnsureNvme(s, protected, order) ==
  EnsureCapacity(s, "NVME", protected, order, RemoveBlock)

EnsureCpu(s, protected, order) ==
  EnsureCapacity(s, "CPU", protected, order,
    LAMBDA acc, v : Offload(acc, v, "NVME", EnsureNvme(acc, {v}, order)).store)

EnsureHbm(s, protected, order) ==
  EnsureCapacity(s, "HBM", protected, order,
    LAMBDA acc, v : Offload(acc, v, "CPU", EnsureCpu(acc, {v}, order)).store)

\* The demotion path HBM -> CPU -> NVMe -> removal, from any tier.
EnsureTier(s, t, protected, order) ==
  CASE t = "HBM"  -> EnsureHbm(s, protected, order)
    [] t = "CPU"  -> EnsureCpu(s, protected, order)
    [] t = "NVME" -> EnsureNvme(s, protected, order)

ExecuteOffload(s, b, t, order) ==
  IF ~Indexed(s, b) THEN [store |-> s, success |-> FALSE]
  ELSE Offload(s, b, t, EnsureTier(s, t, {b}, order))

\* put's removal of the block's previous payload and metadata.
ReplaceExisting(s, b) == RemoveBlock(s, b)

-----------------------------------------------------------------------------
Store == [index |-> index, stored |-> stored]

\* The orders a policy may put the blocks in: recency, frequency, quality, cost.
Orders ==
  {o \in [1..Cardinality(Blocks) -> Blocks] : \A m, n \in DOMAIN o : o[m] = o[n] => m = n}

Become(s) == index' = s.index /\ stored' = s.stored

Init ==
  /\ index = [b \in Blocks |-> None]
  /\ stored = [t \in Tiers |-> {}]
  /\ planned = {}
  /\ lastOp = For(None)

\* put: the previous version goes first, then room is made; without room the
\* call raises and the block is in no tier.
Put(b, t) ==
  /\ \E order \in Orders :
       LET room == EnsureTier(ReplaceExisting(Store, b), t, {b}, order)
           fresh == [tier |-> t, refs |-> 0, pinned |-> FALSE]
           placed == [index |-> [room.store.index EXCEPT ![b] = fresh],
                      stored |-> [room.store.stored EXCEPT ![t] = @ \union {b}]]
       IN  /\ Become(IF room.failed THEN room.store ELSE placed)
           /\ lastOp' = For(b)
  /\ UNCHANGED planned

\* offload, and the promotion inside get: the block is looked up and moved.
MoveBlock(b, t) ==
  \E order \in Orders :
    LET moved == ExecuteOffload(Store, b, t, order)
    IN  /\ Become(moved.store)
        /\ lastOp' = [block |-> b, movedTo |-> IF moved.success THEN t ELSE None]

OffloadBlock(b, t) == MoveBlock(b, t) /\ UNCHANGED planned

\* get and get_by_id with promote_to; the payload is then read from the tier
\* that the metadata names.
Get(b, t) == index[b] # None /\ MoveBlock(b, t) /\ UNCHANGED planned

RemoveById(b) ==
  /\ index[b] # None
  /\ Become(RemoveBlock(Store, b))
  /\ lastOp' = For(b)
  /\ UNCHANGED planned

\* evict of required blocks' worth of bytes, over every tier.
Evict(required) ==
  /\ \E order \in Orders :
       LET all == UNION {Eligible(Store, t, {}) : t \in Tiers}
       IN  /\ all # {}
           /\ Become(Treated(Store, TakenUntil(all, required, order), order, RemoveBlock))
  /\ lastOp' = For(None)
  /\ UNCHANGED planned

\* pin and release do not take the store's lock.
Pin(b) ==
  /\ index[b] # None /\ index[b].refs < MaxPins
  /\ index' = [index EXCEPT ![b].refs = @ + 1, ![b].pinned = TRUE]
  /\ lastOp' = For(b)
  /\ UNCHANGED <<stored, planned>>

\* Mutant: the last release leaves the pinned flag.
ReleaseKeepsPin(b) ==
  /\ index[b] # None
  /\ index' = [index EXCEPT ![b].refs = IF @ > 0 THEN @ - 1 ELSE 0]
  /\ lastOp' = For(b)
  /\ UNCHANGED <<stored, planned>>

Release(b) ==
  /\ index[b] # None
  /\ index' = [index EXCEPT ![b].refs = IF @ > 0 THEN @ - 1 ELSE 0,
                            ![b].pinned = @ /\ index[b].refs > 1]
  /\ lastOp' = For(b)
  /\ UNCHANGED <<stored, planned>>

\* enforce_offload_policy, under the lock: a full HBM or CPU tier (above the
\* high watermark) is planned down to three quarters of its capacity.  One plan
\* is in execution at a time.
PlanDemotions(t) ==
  /\ planned = {} /\ t \in {"HBM", "CPU"}
  /\ Used(Store, t) * 10 > Capacity[t] * 9
  /\ \E order \in Orders :
       LET victims == Victims(Store, t, Used(Store, t) - (Capacity[t] * 3) \div 4, {}, order)
       IN  planned' = {[block |-> b, target |-> IF t = "HBM" THEN "CPU" ELSE "NVME"] :
                         b \in victims}
  /\ lastOp' = For(None)
  /\ UNCHANGED <<index, stored>>

\* A prefetch or layer-wise move chosen from the metadata seen now.
PlanMove(b, t) ==
  /\ planned = {} /\ index[b] # None /\ index[b].tier # t
  /\ planned' = {[block |-> b, target |-> t]}
  /\ lastOp' = For(None)
  /\ UNCHANGED <<index, stored>>

\* A planned move is executed, in a worker thread or by the caller, against
\* whatever the store has become.
ExecutePlanned(m) ==
  /\ planned' = planned \ {m}
  /\ MoveBlock(m.block, m.target)

Next ==
  \/ \E b \in Blocks : RemoveById(b) \/ Pin(b) \/ Release(b)
  \/ \E b \in Blocks, t \in Tiers :
       Put(b, t) \/ OffloadBlock(b, t) \/ Get(b, t) \/ PlanMove(b, t)
  \/ \E n \in 1..Cardinality(Blocks) : Evict(n)
  \/ \E t \in Tiers : PlanDemotions(t)
  \/ \E m \in planned : ExecutePlanned(m)

Spec == Init /\ [][Next]_vars

-----------------------------------------------------------------------------
TypeOK ==
  /\ index \in [Blocks -> Metadata \union {None}]
  /\ stored \in [Tiers -> SUBSET Blocks]
  /\ planned \subseteq Moves
  /\ lastOp \in [block : Blocks \union {None}, movedTo : Tiers \union {None}]
  /\ \A b \in Blocks : index[b] # None => (index[b].pinned <=> index[b].refs > 0)

\* A block that the index knows can be loaded: its payload is in the tier its
\* metadata names, whatever cascade of demotions the calls set off.
IndexedHasPayload ==
  \A b \in Blocks : index[b] # None => b \in stored[index[b].tier]

\* No cascade overfills a tier: HBM and CPU stay within their capacity, and the
\* NVMe tier, whose check counts tensor bytes and whose use counts file bytes,
\* exceeds its own by at most one file's overhead.
CapacityRespected ==
  \A t \in Tiers : Used(Store, t) <= Capacity[t] + (Footprint(t) - Size)

\* A pinned block is moved or removed only by a call made for that block, never
\* by another block's need for room or by eviction.
PinnedStays ==
  [][\A b \in Blocks :
       index[b] # None /\ index[b].pinned /\ lastOp'.block # b =>
         index'[b] # None /\ index'[b].tier = index[b].tier]_vars

\* "Move a block to a different tier": an offload that reports success leaves
\* the block in the store, in the tier it was moved to.
OffloadMovesBlock ==
  lastOp.movedTo # None =>
     index[lastOp.block] # None /\ index[lastOp.block].tier = lastOp.movedTo
=============================================================================
