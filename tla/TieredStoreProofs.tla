-------------------------- MODULE TieredStoreProofs --------------------------
(***************************************************************************)
(* The tiered store is sound for every number of blocks, every capacity of *)
(* the tiers and every order in which a policy may rank the blocks: what   *)
(* the index knows can be loaded, no tier is overfilled and a pinned block *)
(* stays, whatever cascade of demotions a call sets off.  A cascade is     *)
(* nested three deep and each level treats its victims one after another,  *)
(* so the argument is about what one store may become by treating blocks   *)
(* that nobody holds (Outcomes): that relation is closed under composition *)
(* and holds of each level given the level below.                          *)
(***************************************************************************)
EXTENDS TieredStore, FiniteSetTheorems, WellFoundedInduction, TLAPS

USE DEF Size, Tiers

-----------------------------------------------------------------------------
(* Functions defined by recursion on a bounded index. *)

\* A set of natural numbers that is not empty has a least element.
LEMMA LeastNatural ==
  ASSUME NEW S \in SUBSET Nat, S # {}
  PROVE  \E m \in S : \A k \in S : m <= k
<1>1. PICK m \in S : \A k \in S : ~(<<k, m>> \in OpToRel(<, Nat))
  BY NatLessThanWellFounded, WFMin
<1>2. \A k \in S : m <= k
  <2> TAKE k \in S
  <2>1. <<k, m>> \notin {pair \in Nat \X Nat : pair[1] < pair[2]}
    BY <1>1 DEF OpToRel
  <2> QED
    BY <2>1
<1> QED
  BY <1>2

\* The courses that N steps from a base may take within X.
Iterates(N, X, base, step) ==
  {f \in [0..N -> X] : f[0] = base /\ \A n \in 1..N : f[n] = step[<<n, f[n - 1]>>]}

\* A step from each value of X to a value of X can be taken N times.
LEMMA Recursion ==
  ASSUME NEW N \in Nat, NEW X, NEW base \in X, NEW step \in [(1..N) \X X -> X]
  PROVE  Iterates(N, X, base, step) # {}
<1> DEFINE Upto(m) == Iterates(m, X, base, step)
           Gaps == {m \in 0..N : Upto(m) = {}}
<1> USE DEF Iterates
<1>1. [n \in 0..0 |-> base] \in Upto(0)
  OBVIOUS
<1>2. ASSUME NEW m \in 1..N, NEW f \in Upto(m - 1)
      PROVE  [n \in 0..m |-> IF n = m THEN step[<<m, f[m - 1]>>] ELSE f[n]] \in Upto(m)
  <2> DEFINE g == [n \in 0..m |-> IF n = m THEN step[<<m, f[m - 1]>>] ELSE f[n]]
  <2>1. \A n \in 0..m - 1 : f[n] \in X /\ g[n] = f[n]
    OBVIOUS
  <2>2. f[m - 1] \in X /\ step[<<m, f[m - 1]>>] \in X
    BY <2>1
  <2>3. g \in [0..m -> X]
    BY <2>1, <2>2
  <2>4. \A n \in 1..m : g[n] = step[<<n, g[n - 1]>>]
    <3> TAKE n \in 1..m
    <3>1. CASE n = m
      <4>1. m - 1 \in 0..m - 1 /\ m \in 0..m /\ g[m - 1] = f[m - 1]
        BY <2>1
      <4>2. g[m] = step[<<m, f[m - 1]>>]
        BY <4>1
      <4> QED
        BY <3>1, <4>1, <4>2
    <3>2. CASE n # m
      <4>1. n \in 1..m - 1 /\ n - 1 \in 0..m - 1 /\ n \in 0..m - 1
        BY <3>2
      <4> QED
        BY <4>1, <2>1
    <3> QED
      BY <3>1, <3>2
  <2>5. g[0] = base
    BY <2>1
  <2> QED
    BY <2>3, <2>4, <2>5
<1>3. Gaps = {}
  <2> SUFFICES ASSUME Gaps # {} PROVE FALSE
    OBVIOUS
  <2>1. PICK m \in Gaps : \A k \in Gaps : m <= k
    <3>1. Gaps \in SUBSET Nat
      OBVIOUS
    <3> HIDE DEF Gaps
    <3> QED
      BY <3>1, LeastNatural
  <2>2. m # 0
    <3>1. Upto(0) # {}
      BY <1>1
    <3> HIDE DEF Upto
    <3>2. Upto(m) = {}
      OBVIOUS
    <3> QED
      BY <3>1, <3>2
  <2>3. m - 1 \notin Gaps /\ m - 1 \in 0..N /\ m \in 1..N
    <3>1. m \in 0..N
      OBVIOUS
    <3> HIDE DEF Gaps
    <3> QED
      BY <3>1, <2>1, <2>2
  <2>4. PICK f : f \in Upto(m - 1)
    BY <2>3
  <2> QED
    BY <1>2, <2>3, <2>4
<1>4. Upto(N) # {}
  BY <1>3
<1> QED
  BY <1>4

\* A sequence that starts in X and stays in X from one index to the next ends there.
LEMMA EndsWithin ==
  ASSUME NEW N \in Nat, NEW X, NEW g, g[0] \in X,
         \A n \in 1..N : g[n - 1] \in X => g[n] \in X
  PROVE  g[N] \in X
<1> DEFINE Gaps == {n \in 0..N : g[n] \notin X}
<1>1. Gaps = {}
  <2> SUFFICES ASSUME Gaps # {} PROVE FALSE
    OBVIOUS
  <2>1. PICK m \in Gaps : \A k \in Gaps : m <= k
    <3>1. Gaps \in SUBSET Nat
      OBVIOUS
    <3> HIDE DEF Gaps
    <3> QED
      BY <3>1, LeastNatural
  <2>2. m \in 1..N /\ m - 1 \in 0..N /\ m - 1 \notin Gaps
    BY <2>1
  <2> QED
    BY <2>1, <2>2
<1> QED
  BY <1>1

-----------------------------------------------------------------------------
(* What one locked section may make of a store.                            *)

Stores == [index : [Blocks -> Metadata \union {None}], stored : [Tiers -> SUBSET Blocks]]

\* A block's pin is its references, its payload is where the index says, and each
\* tier keeps its capacity.
Marked(s) == \A b \in Blocks : Indexed(s, b) => (s.index[b].pinned <=> s.index[b].refs > 0)
Loadable(s) == \A b \in Blocks : Indexed(s, b) => b \in s.stored[TierOf(s, b)]
Bounded(s) == \A t \in Tiers : Used(s, t) <= Capacity[t] + (Footprint(t) - Size)
Sound(s) == s \in Stores /\ Marked(s) /\ Loadable(s) /\ Bounded(s)

\* A block that may not be a victim.
Held(s, b) == Indexed(s, b) /\ (s.index[b].pinned \/ s.index[b].refs # 0)

\* No block is indexed anew or marked otherwise, and a block that is held stays where
\* it is, save the blocks that the call is made for.
Inherits(r, s, b) ==
  Indexed(r, b) => /\ Indexed(s, b)
                   /\ r.index[b].pinned = s.index[b].pinned
                   /\ r.index[b].refs = s.index[b].refs
Follows(s, r, own) ==
  \A b \in Blocks : /\ Inherits(r, s, b)
                    /\ Held(s, b) /\ b \notin own => r.index[b] = s.index[b]

Outcomes(s, own) == {r \in Stores : Sound(r) /\ Follows(s, r, own)}

\* A sound store is an outcome of itself.
LEMMA Stay ==
  ASSUME NEW s, Sound(s), NEW own
  PROVE  s \in Outcomes(s, own)
BY DEF Outcomes, Sound, Follows, Inherits

\* Outcomes follow one another.
LEMMA Compose ==
  ASSUME NEW own, NEW s \in Stores, NEW r \in Outcomes(s, own), NEW q \in Outcomes(r, own)
  PROVE  q \in Outcomes(s, own)
<1>1. \A b \in Blocks : Inherits(q, s, b)
  BY DEF Outcomes, Follows, Inherits
<1>2. \A b \in Blocks : Held(s, b) /\ b \notin own => q.index[b] = s.index[b]
  <2> SUFFICES ASSUME NEW b \in Blocks, Held(s, b), b \notin own PROVE q.index[b] = s.index[b]
    OBVIOUS
  <2>1. r.index[b] = s.index[b]
    BY DEF Outcomes, Follows
  <2>2. Held(r, b)
    BY <2>1 DEF Held, Indexed
  <2> QED
    BY <2>1, <2>2 DEF Outcomes, Follows
<1> QED
  BY <1>1, <1>2 DEF Outcomes, Follows

\* Fewer blocks of one's own allow no more.
LEMMA Widen ==
  ASSUME NEW s, NEW own, NEW r \in Outcomes(s, {})
  PROVE  r \in Outcomes(s, own)
BY DEF Outcomes, Follows

\* A tier's payloads are finitely many.
LEMMA UsedType ==
  ASSUME NEW s \in Stores, NEW t \in Tiers
  PROVE  /\ IsFiniteSet(s.stored[t]) /\ Cardinality(s.stored[t]) \in Nat
         /\ Footprint(t) \in Nat /\ Footprint(t) >= Size
         /\ Capacity[t] \in Nat /\ Used(s, t) \in Nat
<1>1. s.stored[t] \in SUBSET Blocks
  BY DEF Stores
<1>2. IsFiniteSet(s.stored[t]) /\ Cardinality(s.stored[t]) \in Nat
  BY <1>1, BlockAssumption, FS_Subset, FS_CardinalityType
<1>3. Footprint(t) \in Nat /\ Footprint(t) >= Size
  BY CapacityAssumption DEF Footprint
<1>4. Capacity[t] \in Nat
  BY CapacityAssumption
<1>5. Cardinality(s.stored[t]) * Footprint(t) \in Nat
  BY <1>2, <1>3
<1> QED
  BY <1>2, <1>3, <1>4, <1>5 DEF Used

\* Fewer payloads take no more room.
LEMMA UsedShrinks ==
  ASSUME NEW s \in Stores, NEW r \in Stores, NEW t \in Tiers, r.stored[t] \subseteq s.stored[t]
  PROVE  Used(r, t) <= Used(s, t)
<1> DEFINE m == Cardinality(r.stored[t])  n == Cardinality(s.stored[t])  f == Footprint(t)
<1>1. m \in Nat /\ n \in Nat /\ f \in Nat /\ IsFiniteSet(s.stored[t])
  BY UsedType
<1>2. m <= n
  BY <1>1, FS_Subset
<1>3. m * f <= n * f
  <2> HIDE DEF m, n, f
  <2>1. PICK d \in Nat : n = m + d
    <3>1. n - m \in Nat /\ n = m + (n - m)
      BY <1>1, <1>2
    <3> QED
      BY <3>1
  <2>2. n * f = m * f + d * f /\ d * f \in Nat /\ m * f \in Nat
    BY <1>1, <2>1
  <2> QED
    BY <2>2
<1> QED
  BY <1>3 DEF Used

\* One payload more takes one footprint more.
LEMMA UsedGrows ==
  ASSUME NEW s \in Stores, NEW r \in Stores, NEW t \in Tiers, NEW b \in Blocks,
         r.stored[t] \subseteq s.stored[t] \union {b}, Fits(s, t)
  PROVE  Used(r, t) <= Capacity[t] + (Footprint(t) - Size)
<1> DEFINE m == Cardinality(r.stored[t])  n == Cardinality(s.stored[t])  f == Footprint(t)
<1>1. m \in Nat /\ n \in Nat /\ f \in Nat /\ IsFiniteSet(s.stored[t]) /\ Capacity[t] \in Nat
  BY UsedType
<1>2. m <= n + 1
  <2>1. IsFiniteSet(s.stored[t] \union {b}) /\ Cardinality(s.stored[t] \union {b}) <= n + 1
    <3>1. /\ IsFiniteSet(s.stored[t] \union {b})
          /\ Cardinality(s.stored[t] \union {b}) = IF b \in s.stored[t] THEN n ELSE n + 1
      BY <1>1, FS_AddElement
    <3> HIDE DEF n
    <3> QED
      BY <1>1, <3>1
  <2>2. m <= Cardinality(s.stored[t] \union {b})
    BY <2>1, FS_Subset
  <2>3. Cardinality(s.stored[t] \union {b}) \in Nat
    BY <2>1, FS_CardinalityType
  <2> QED
    BY <1>1, <2>1, <2>2, <2>3
<1>3. n * f + 1 <= Capacity[t]
  BY DEF Fits, Used
<1>4. m * f <= n * f + f
  <2> HIDE DEF m, n, f
  <2>1. PICK d \in Nat : n + 1 = m + d
    <3>1. n + 1 - m \in Nat /\ n + 1 = m + (n + 1 - m)
      BY <1>1, <1>2
    <3> QED
      BY <3>1
  <2>2. (n + 1) * f = m * f + d * f /\ d * f \in Nat /\ m * f \in Nat
    BY <1>1, <2>1
  <2>3. (n + 1) * f = n * f + f /\ n * f \in Nat
    BY <1>1
  <2> QED
    BY <1>1, <2>2, <2>3
<1>5. n * f \in Nat /\ m * f \in Nat
  <2> HIDE DEF m, n, f
  <2> QED
    BY <1>1
<1>6. Used(r, t) = m * f /\ Footprint(t) = f
  BY DEF Used
<1> QED
  <2> HIDE DEF m, n, f
  <2> QED
    BY <1>1, <1>3, <1>4, <1>5, <1>6

-----------------------------------------------------------------------------
(* The two ways in which a block leaves its place.                         *)

\* A block that is dropped is gone, and nothing else has changed.
LEMMA Dropped ==
  ASSUME NEW s, Sound(s), NEW b \in Blocks, Indexed(s, b), NEW own,
         b \in own \/ ~Held(s, b)
  PROVE  Drop(s, b) \in Outcomes(s, own) /\ ~Indexed(Drop(s, b), b)
<1> DEFINE r == Drop(s, b)
           from == TierOf(s, b)
<1>1. s \in Stores /\ from \in Tiers
  BY DEF Sound, Stores, TierOf, Indexed, Metadata
<1>2. r = [index |-> [s.index EXCEPT ![b] = None],
           stored |-> [s.stored EXCEPT ![from] = @ \ {b}]]
  BY DEF Drop
<1> HIDE DEF r, from
<1>3. r \in Stores
  BY <1>1, <1>2 DEF Stores
<1>4. \A c \in Blocks : IF c = b THEN r.index[c] = None ELSE r.index[c] = s.index[c]
  BY <1>1, <1>2 DEF Stores
<1>5. \A t \in Tiers : /\ r.stored[t] \subseteq s.stored[t]
                       /\ \A c \in Blocks \ {b} : c \in s.stored[t] => c \in r.stored[t]
  BY <1>1, <1>2 DEF Stores
<1>6. Marked(r)
  BY <1>4 DEF Sound, Marked, Indexed
<1>7. Loadable(r)
  <2> SUFFICES ASSUME NEW c \in Blocks, Indexed(r, c) PROVE c \in r.stored[TierOf(r, c)]
    BY DEF Loadable
  <2>1. c # b /\ Indexed(s, c) /\ TierOf(r, c) = TierOf(s, c)
    BY <1>4 DEF Indexed, TierOf
  <2>2. TierOf(s, c) \in Tiers /\ c \in s.stored[TierOf(s, c)]
    BY <1>1, <2>1 DEF Sound, Loadable, Stores, TierOf, Indexed, Metadata
  <2> QED
    BY <1>5, <2>1, <2>2
<1>8. Bounded(r)
  <2> SUFFICES ASSUME NEW t \in Tiers PROVE Used(r, t) <= Capacity[t] + (Footprint(t) - Size)
    BY DEF Bounded
  <2>1. Used(r, t) <= Used(s, t) /\ Used(s, t) <= Capacity[t] + (Footprint(t) - Size)
    BY <1>1, <1>3, <1>5, UsedShrinks DEF Sound, Bounded
  <2>2. /\ Used(r, t) \in Nat /\ Used(s, t) \in Nat /\ Capacity[t] \in Nat
        /\ Footprint(t) \in Nat
    BY <1>1, <1>3, UsedType
  <2> QED
    BY <2>1, <2>2
<1>9. Follows(s, r, own)
  BY <1>4 DEF Follows, Inherits, Indexed, Held
<1> QED
  BY <1>3, <1>4, <1>6, <1>7, <1>8, <1>9 DEF Outcomes, Sound, Indexed, r

\* A payload goes to a tier that has room for it, and the index follows.
LEMMA Placed ==
  ASSUME NEW s, Sound(s), NEW b \in Blocks, NEW from \in Tiers, NEW t \in Tiers, from # t,
         Fits(s, t)
  PROVE  Place(s, b, from, t) \in Outcomes(s, {b})
<1> DEFINE r == Place(s, b, from, t)
<1>1. s \in Stores /\ \A c \in Blocks : Indexed(s, c) => s.index[c] \in Metadata
  BY DEF Sound, Stores, Indexed
<1>2. /\ r.index = IF Indexed(s, b) THEN [s.index EXCEPT ![b].tier = t] ELSE s.index
      /\ r.stored = [s.stored EXCEPT ![t] = @ \union {b}, ![from] = @ \ {b}]
      /\ r = [index |-> r.index, stored |-> r.stored]
  BY DEF Place
<1> HIDE DEF r
<1>3. /\ s.stored \in [Tiers -> SUBSET Blocks]
      /\ s.index \in [Blocks -> Metadata \union {None}]
  BY <1>1 DEF Stores
<1>4. /\ r.stored \in [Tiers -> SUBSET Blocks]
      /\ r.stored[t] = s.stored[t] \union {b} /\ r.stored[from] = s.stored[from] \ {b}
      /\ \A u \in Tiers \ {t, from} : r.stored[u] = s.stored[u]
  BY <1>2, <1>3
<1>5. /\ r.index \in [Blocks -> Metadata \union {None}]
      /\ \A c \in Blocks \ {b} : r.index[c] = s.index[c]
      /\ Indexed(s, b) => r.index[b] = [s.index[b] EXCEPT !.tier = t]
      /\ ~Indexed(s, b) => r.index[b] = None
  <2>1. CASE Indexed(s, b)
    <3>1. [s.index[b] EXCEPT !.tier = t] \in Metadata
      BY <1>1, <2>1 DEF Metadata
    <3>2. r.index = [s.index EXCEPT ![b] = [s.index[b] EXCEPT !.tier = t]]
      BY <1>2, <2>1
    <3> QED
      BY <1>3, <2>1, <3>1, <3>2
  <2>2. CASE ~Indexed(s, b)
    BY <1>2, <1>3, <2>2 DEF Indexed
  <2> QED
    BY <2>1, <2>2
<1>6. r \in Stores
  BY <1>2, <1>4, <1>5 DEF Stores
<1>7. Indexed(s, b) => /\ r.index[b].tier = t /\ r.index[b].refs = s.index[b].refs
                       /\ r.index[b].pinned = s.index[b].pinned
  BY <1>1, <1>5 DEF Metadata
<1>8. Indexed(r, b) => Indexed(s, b)
  BY <1>5 DEF Indexed
<1>9. Marked(r)
  <2> SUFFICES ASSUME NEW c \in Blocks, Indexed(r, c)
               PROVE  r.index[c].pinned <=> r.index[c].refs > 0
    BY DEF Marked
  <2>1. CASE c = b
    <3>1. s.index[b].pinned <=> s.index[b].refs > 0
      BY <1>8, <2>1 DEF Sound, Marked
    <3> QED
      BY <1>7, <1>8, <2>1, <3>1
  <2>2. CASE c # b
    BY <1>5, <2>2 DEF Sound, Marked, Indexed
  <2> QED
    BY <2>1, <2>2
<1>10. Loadable(r)
  <2> SUFFICES ASSUME NEW c \in Blocks, Indexed(r, c) PROVE c \in r.stored[TierOf(r, c)]
    BY DEF Loadable
  <2>1. CASE c = b
    BY <1>4, <1>7, <1>8, <2>1 DEF TierOf
  <2>2. CASE c # b
    <3>1. /\ Indexed(s, c) /\ TierOf(r, c) = TierOf(s, c)
          /\ TierOf(s, c) \in Tiers /\ c \in s.stored[TierOf(s, c)]
      BY <1>1, <1>5, <2>2 DEF Indexed, TierOf, Sound, Loadable, Metadata
    <3> QED
      BY <1>4, <2>2, <3>1
  <2> QED
    BY <2>1, <2>2
<1>11. Bounded(r)
  <2> SUFFICES ASSUME NEW u \in Tiers PROVE Used(r, u) <= Capacity[u] + (Footprint(u) - Size)
    BY DEF Bounded
  <2>1. CASE u = t
    BY <1>1, <1>4, <1>6, <2>1, UsedGrows
  <2>2. CASE u # t
    <3>1. Used(r, u) <= Used(s, u)
      <4>1. r.stored[u] \subseteq s.stored[u]
        BY <1>4, <2>2
      <4> QED
        BY <1>1, <1>6, <4>1, UsedShrinks
    <3>2. Used(s, u) <= Capacity[u] + (Footprint(u) - Size)
      BY DEF Sound, Bounded
    <3>3. /\ Used(r, u) \in Nat /\ Used(s, u) \in Nat /\ Capacity[u] \in Nat
          /\ Footprint(u) \in Nat
      BY <1>1, <1>6, UsedType
    <3> QED
      BY <3>1, <3>2, <3>3
  <2> QED
    BY <2>1, <2>2
<1>12. Follows(s, r, {b})
  <2>1. \A c \in Blocks : Inherits(r, s, c)
    BY <1>5, <1>7, <1>8 DEF Inherits, Indexed
  <2> QED
    BY <1>5, <2>1 DEF Follows
<1> QED
  BY <1>6, <1>9, <1>10, <1>11, <1>12 DEF Outcomes, Sound, r

\* What a capacity check of a tier leaves: an outcome of the store, with room unless it
\* says otherwise.
HasRoom(room, s, t) ==
  room.store \in Outcomes(s, {}) /\ (~room.failed => Fits(room.store, t))

\* The move is an outcome that touches no held block but the one it is made for.
LEMMA MovedSoundly ==
  ASSUME NEW s, Sound(s), NEW b \in Blocks, Indexed(s, b), NEW t \in Tiers,
         NEW room, HasRoom(room, s, t), NEW own, b \in own \/ ~Held(s, b)
  PROVE  Offload(s, b, t, room).store \in Outcomes(s, own)
<1>1. s \in Stores /\ TierOf(s, b) \in Tiers
  BY DEF Sound, Stores, Indexed, TierOf, Metadata
<1>2. s \in Outcomes(s, own)
  BY Stay
<1>3. room.store \in Outcomes(s, own) /\ room.store \in Outcomes(s, {b})
  BY Widen DEF HasRoom
<1>4. ASSUME TierOf(s, b) # t, ~room.failed
      PROVE  Place(room.store, b, TierOf(s, b), t) \in Outcomes(s, own)
  <2> DEFINE r == Place(room.store, b, TierOf(s, b), t)
  <2>1. Sound(room.store) /\ Fits(room.store, t)
    BY <1>4 DEF HasRoom, Outcomes
  <2>2. r \in Outcomes(room.store, {b})
    BY <1>1, <1>4, <2>1, Placed
  <2> HIDE DEF r
  <2>3. r \in Outcomes(s, {b})
    BY <1>1, <1>3, <2>2, Compose
  <2>4. r \in Outcomes(s, own)
    BY <2>3 DEF Outcomes, Follows
  <2> QED
    BY <2>4 DEF r
<1> QED
  BY <1>2, <1>3, <1>4 DEF Offload

\* Nobody holds a candidate.
LEMMA CandidatesFree ==
  ASSUME NEW s, Sound(s), NEW t, NEW protected, NEW b \in Eligible(s, t, protected)
  PROVE  b \in Blocks /\ Indexed(s, b) /\ ~Held(s, b)
BY DEF Eligible, Held

\* Victims are candidates.
LEMMA Taken ==
  ASSUME NEW candidates, NEW missing, NEW order
  PROVE  TakenUntil(candidates, missing, order) \subseteq candidates
BY DEF TakenUntil

\* An order lists blocks.
LEMMA OrderType ==
  ASSUME NEW order \in Orders
  PROVE  Len(order) \in Nat /\ \A n \in 1..Len(order) : order[n] \in Blocks
<1>1. Cardinality(Blocks) \in Nat
  BY BlockAssumption, FS_CardinalityType
<1>2. order \in [1..Cardinality(Blocks) -> Blocks]
  BY DEF Orders
<1>3. order \in Seq(Blocks) /\ Len(order) = Cardinality(Blocks)
  BY <1>1, <1>2
<1> QED
  BY <1>1, <1>2, <1>3

-----------------------------------------------------------------------------
(* The capacity checks, from the lowest tier up.                           *)

\* Removing blocks that nobody holds.
LEMMA Removals ==
  ASSUME NEW s, Sound(s), NEW order \in Orders, NEW victims,
         \A v \in victims : ~Held(s, v)
  PROVE  Treated(s, victims, order, RemoveBlock) \in Outcomes(s, {})
<1> DEFINE N == Len(order)
           X == Outcomes(s, {})
           Body(n, x) == IF order[n] \in victims /\ Indexed(x, order[n])
                         THEN RemoveBlock(x, order[n]) ELSE x
           body == [q \in (1..N) \X X |-> Body(q[1], q[2])]
           IsAfter(f) == f = [n \in 0..N |-> IF n = 0 THEN s ELSE Body(n, f[n - 1])]
           after == CHOOSE f : IsAfter(f)
<1>1. N \in Nat /\ \A n \in 1..N : order[n] \in Blocks
  BY OrderType
<1>2. ASSUME NEW n \in 1..N, NEW x \in X PROVE Body(n, x) \in X
  <2>1. CASE order[n] \in victims /\ Indexed(x, order[n])
    <3>1. order[n] \in Blocks /\ Sound(x) /\ s \in Stores /\ Follows(s, x, {})
      BY <1>1 DEF Outcomes, Sound
    <3>2. ~Held(x, order[n])
      BY <2>1, <3>1 DEF Follows, Inherits, Held
    <3>3. Drop(x, order[n]) \in Outcomes(x, {})
      BY <2>1, <3>1, <3>2, Dropped
    <3>4. Drop(x, order[n]) \in X
      BY <3>1, <3>3, Compose
    <3> QED
      BY <2>1, <3>4 DEF RemoveBlock
  <2>2. CASE ~(order[n] \in victims /\ Indexed(x, order[n]))
    BY <2>2
  <2> QED
    BY <2>1, <2>2
<1>3. \E f : IsAfter(f)
  <2>1. \A n \in 1..N, x \in X : body[<<n, x>>] = Body(n, x)
    OBVIOUS
  <2>2. body \in [(1..N) \X X -> X]
    BY <1>2
  <2> HIDE DEF body
  <2>3. PICK f : f \in Iterates(N, X, s, body)
    <3>1. s \in X
      BY Stay
    <3> HIDE DEF X, N
    <3> QED
      BY <1>1, <2>2, <3>1, Recursion
  <2> HIDE DEF Body, X, N
  <2>4. f \in [0..N -> X] /\ f[0] = s /\ \A n \in 1..N : f[n] = body[<<n, f[n - 1]>>]
    BY <2>3 DEF Iterates
  <2>5. \A n \in 1..N : f[n] = Body(n, f[n - 1])
    <3> TAKE n \in 1..N
    <3>1. f[n - 1] \in X
      BY <1>1, <2>4
    <3> QED
      BY <2>1, <2>4, <3>1
  <2>6. f = [n \in 0..N |-> IF n = 0 THEN s ELSE Body(n, f[n - 1])]
    BY <1>1, <2>4, <2>5
  <2> QED
    BY <2>6
<1>4. IsAfter(after)
  <2> HIDE DEF IsAfter
  <2> QED
    BY <1>3
<1>5. after[N] \in X
  <2>1. after[0] = s /\ \A n \in 1..N : after[n] = Body(n, after[n - 1])
    <3> HIDE DEF Body, after, N
    <3> QED
      BY <1>1, <1>4
  <2>2. s \in X
    BY Stay
  <2> HIDE DEF Body, after, X, N
  <2> QED
    BY <1>1, <1>2, <2>1, <2>2, EndsWithin
<1>6. Treated(s, victims, order, RemoveBlock) = after[N]
  BY DEF Treated
<1> QED
  BY <1>5, <1>6

\* The check of the NVMe tier removes.
LEMMA NvmeRoom ==
  ASSUME NEW s, Sound(s), NEW order \in Orders, NEW protected
  PROVE  HasRoom(EnsureNvme(s, protected, order), s, "NVME")
<1> DEFINE victims == Victims(s, "NVME", Missing(s, "NVME"), protected, order)
           room == EnsureNvme(s, protected, order)
<1>1. \A v \in victims : ~Held(s, v)
  BY CandidatesFree, Taken DEF Victims
<1>2. s \in Outcomes(s, {})
  BY Stay
<1>3. CASE Fits(s, "NVME")
  BY <1>2, <1>3 DEF HasRoom, EnsureNvme, EnsureCapacity
<1>4. CASE ~Fits(s, "NVME")
  <2> DEFINE after == Treated(s, victims, order, RemoveBlock)
  <2>1. after \in Outcomes(s, {})
    <3> HIDE DEF victims
    <3> QED
      BY <1>1, Removals
  <2>2. room.store = after /\ room.failed = ~Fits(after, "NVME")
    BY <1>4 DEF EnsureNvme, EnsureCapacity
  <2> HIDE DEF after, room
  <2>3. ~room.failed => Fits(room.store, "NVME")
    BY <2>2
  <2> QED
    BY <2>1, <2>2, <2>3 DEF HasRoom, room
<1> QED
  BY <1>3, <1>4

\* Demoting blocks that nobody holds to the NVMe tier.
LEMMA DemotionsToNvme ==
  ASSUME NEW s, Sound(s), NEW order \in Orders, NEW victims,
         \A v \in victims : ~Held(s, v)
  PROVE  Treated(s, victims, order,
                 LAMBDA acc, v : Offload(acc, v, "NVME", EnsureNvme(acc, {v}, order)).store)
           \in Outcomes(s, {})
<1> DEFINE N == Len(order)
           X == Outcomes(s, {})
           Body(n, x) ==
             IF order[n] \in victims /\ Indexed(x, order[n])
             THEN Offload(x, order[n], "NVME", EnsureNvme(x, {order[n]}, order)).store ELSE x
           body == [q \in (1..N) \X X |-> Body(q[1], q[2])]
           IsAfter(f) == f = [n \in 0..N |-> IF n = 0 THEN s ELSE Body(n, f[n - 1])]
           after == CHOOSE f : IsAfter(f)
<1>1. N \in Nat /\ \A n \in 1..N : order[n] \in Blocks
  BY OrderType
<1>2. ASSUME NEW n \in 1..N, NEW x \in X PROVE Body(n, x) \in X
  <2>1. CASE order[n] \in victims /\ Indexed(x, order[n])
    <3> DEFINE v == order[n]
               room == EnsureNvme(x, {v}, order)
    <3>1. v \in Blocks /\ Sound(x) /\ s \in Stores /\ Follows(s, x, {})
      BY <1>1 DEF Outcomes, Sound
    <3>2. ~Held(x, v)
      BY <2>1, <3>1 DEF Follows, Inherits, Held
    <3>3. HasRoom(room, x, "NVME")
      BY <3>1, NvmeRoom
    <3> HIDE DEF v, room
    <3>4. Indexed(x, v)
      BY <2>1 DEF v
    <3>5. Offload(x, v, "NVME", room).store \in Outcomes(x, {})
      BY <3>1, <3>2, <3>3, <3>4, MovedSoundly
    <3>6. Offload(x, v, "NVME", room).store \in X
      BY <3>1, <3>5, Compose
    <3> QED
      BY <2>1, <3>6 DEF v, room
  <2>2. CASE ~(order[n] \in victims /\ Indexed(x, order[n]))
    BY <2>2
  <2> QED
    BY <2>1, <2>2
<1>3. \E f : IsAfter(f)
  <2>1. \A n \in 1..N, x \in X : body[<<n, x>>] = Body(n, x)
    OBVIOUS
  <2>2. body \in [(1..N) \X X -> X]
    BY <1>2
  <2> HIDE DEF body
  <2>3. PICK f : f \in Iterates(N, X, s, body)
    <3>1. s \in X
      BY Stay
    <3> HIDE DEF X, N
    <3> QED
      BY <1>1, <2>2, <3>1, Recursion
  <2> HIDE DEF Body, X, N
  <2>4. f \in [0..N -> X] /\ f[0] = s /\ \A n \in 1..N : f[n] = body[<<n, f[n - 1]>>]
    BY <2>3 DEF Iterates
  <2>5. \A n \in 1..N : f[n] = Body(n, f[n - 1])
    <3> TAKE n \in 1..N
    <3>1. f[n - 1] \in X
      BY <1>1, <2>4
    <3> QED
      BY <2>1, <2>4, <3>1
  <2>6. f = [n \in 0..N |-> IF n = 0 THEN s ELSE Body(n, f[n - 1])]
    BY <1>1, <2>4, <2>5
  <2> QED
    BY <2>6
<1>4. IsAfter(after)
  <2> HIDE DEF IsAfter
  <2> QED
    BY <1>3
<1>5. after[N] \in X
  <2>1. after[0] = s /\ \A n \in 1..N : after[n] = Body(n, after[n - 1])
    <3> HIDE DEF Body, after, N
    <3> QED
      BY <1>1, <1>4
  <2>2. s \in X
    BY Stay
  <2> HIDE DEF Body, after, X, N
  <2> QED
    BY <1>1, <1>2, <2>1, <2>2, EndsWithin
<1>6. Treated(s, victims, order,
              LAMBDA acc, v : Offload(acc, v, "NVME", EnsureNvme(acc, {v}, order)).store)
        = after[N]
  BY DEF Treated
<1> QED
  BY <1>5, <1>6

\* The check of the CPU tier demotes to the NVMe tier.
LEMMA CpuRoom ==
  ASSUME NEW s, Sound(s), NEW order \in Orders, NEW protected
  PROVE  HasRoom(EnsureCpu(s, protected, order), s, "CPU")
<1> DEFINE victims == Victims(s, "CPU", Missing(s, "CPU"), protected, order)
           room == EnsureCpu(s, protected, order)
<1>1. \A v \in victims : ~Held(s, v)
  BY CandidatesFree, Taken DEF Victims
<1>2. s \in Outcomes(s, {})
  BY Stay
<1>3. CASE Fits(s, "CPU")
  BY <1>2, <1>3 DEF HasRoom, EnsureCpu, EnsureCapacity
<1>4. CASE ~Fits(s, "CPU")
  <2> DEFINE after ==
               Treated(s, victims, order,
                       LAMBDA acc, v : Offload(acc, v, "NVME", EnsureNvme(acc, {v}, order)).store)
  <2>1. after \in Outcomes(s, {})
    <3> HIDE DEF victims
    <3> QED
      BY <1>1, DemotionsToNvme
  <2>2. room.store = after /\ room.failed = ~Fits(after, "CPU")
    BY <1>4 DEF EnsureCpu, EnsureCapacity
  <2> HIDE DEF after, room
  <2>3. ~room.failed => Fits(room.store, "CPU")
    BY <2>2
  <2> QED
    BY <2>1, <2>2, <2>3 DEF HasRoom, room
<1> QED
  BY <1>3, <1>4

\* Demoting blocks that nobody holds to the CPU tier.
LEMMA DemotionsToCpu ==
  ASSUME NEW s, Sound(s), NEW order \in Orders, NEW victims,
         \A v \in victims : ~Held(s, v)
  PROVE  Treated(s, victims, order,
                 LAMBDA acc, v : Offload(acc, v, "CPU", EnsureCpu(acc, {v}, order)).store)
           \in Outcomes(s, {})
<1> DEFINE N == Len(order)
           X == Outcomes(s, {})
           Body(n, x) ==
             IF order[n] \in victims /\ Indexed(x, order[n])
             THEN Offload(x, order[n], "CPU", EnsureCpu(x, {order[n]}, order)).store ELSE x
           body == [q \in (1..N) \X X |-> Body(q[1], q[2])]
           IsAfter(f) == f = [n \in 0..N |-> IF n = 0 THEN s ELSE Body(n, f[n - 1])]
           after == CHOOSE f : IsAfter(f)
<1>1. N \in Nat /\ \A n \in 1..N : order[n] \in Blocks
  BY OrderType
<1>2. ASSUME NEW n \in 1..N, NEW x \in X PROVE Body(n, x) \in X
  <2>1. CASE order[n] \in victims /\ Indexed(x, order[n])
    <3> DEFINE v == order[n]
               room == EnsureCpu(x, {v}, order)
    <3>1. v \in Blocks /\ Sound(x) /\ s \in Stores /\ Follows(s, x, {})
      BY <1>1 DEF Outcomes, Sound
    <3>2. ~Held(x, v)
      BY <2>1, <3>1 DEF Follows, Inherits, Held
    <3>3. HasRoom(room, x, "CPU")
      BY <3>1, CpuRoom
    <3> HIDE DEF v, room
    <3>4. Indexed(x, v)
      BY <2>1 DEF v
    <3>5. Offload(x, v, "CPU", room).store \in Outcomes(x, {})
      BY <3>1, <3>2, <3>3, <3>4, MovedSoundly
    <3>6. Offload(x, v, "CPU", room).store \in X
      BY <3>1, <3>5, Compose
    <3> QED
      BY <2>1, <3>6 DEF v, room
  <2>2. CASE ~(order[n] \in victims /\ Indexed(x, order[n]))
    BY <2>2
  <2> QED
    BY <2>1, <2>2
<1>3. \E f : IsAfter(f)
  <2>1. \A n \in 1..N, x \in X : body[<<n, x>>] = Body(n, x)
    OBVIOUS
  <2>2. body \in [(1..N) \X X -> X]
    BY <1>2
  <2> HIDE DEF body
  <2>3. PICK f : f \in Iterates(N, X, s, body)
    <3>1. s \in X
      BY Stay
    <3> HIDE DEF X, N
    <3> QED
      BY <1>1, <2>2, <3>1, Recursion
  <2> HIDE DEF Body, X, N
  <2>4. f \in [0..N -> X] /\ f[0] = s /\ \A n \in 1..N : f[n] = body[<<n, f[n - 1]>>]
    BY <2>3 DEF Iterates
  <2>5. \A n \in 1..N : f[n] = Body(n, f[n - 1])
    <3> TAKE n \in 1..N
    <3>1. f[n - 1] \in X
      BY <1>1, <2>4
    <3> QED
      BY <2>1, <2>4, <3>1
  <2>6. f = [n \in 0..N |-> IF n = 0 THEN s ELSE Body(n, f[n - 1])]
    BY <1>1, <2>4, <2>5
  <2> QED
    BY <2>6
<1>4. IsAfter(after)
  <2> HIDE DEF IsAfter
  <2> QED
    BY <1>3
<1>5. after[N] \in X
  <2>1. after[0] = s /\ \A n \in 1..N : after[n] = Body(n, after[n - 1])
    <3> HIDE DEF Body, after, N
    <3> QED
      BY <1>1, <1>4
  <2>2. s \in X
    BY Stay
  <2> HIDE DEF Body, after, X, N
  <2> QED
    BY <1>1, <1>2, <2>1, <2>2, EndsWithin
<1>6. Treated(s, victims, order,
              LAMBDA acc, v : Offload(acc, v, "CPU", EnsureCpu(acc, {v}, order)).store)
        = after[N]
  BY DEF Treated
<1> QED
  BY <1>5, <1>6

\* The check of the HBM tier demotes to the CPU tier.
LEMMA HbmRoom ==
  ASSUME NEW s, Sound(s), NEW order \in Orders, NEW protected
  PROVE  HasRoom(EnsureHbm(s, protected, order), s, "HBM")
<1> DEFINE victims == Victims(s, "HBM", Missing(s, "HBM"), protected, order)
           room == EnsureHbm(s, protected, order)
<1>1. \A v \in victims : ~Held(s, v)
  BY CandidatesFree, Taken DEF Victims
<1>2. s \in Outcomes(s, {})
  BY Stay
<1>3. CASE Fits(s, "HBM")
  BY <1>2, <1>3 DEF HasRoom, EnsureHbm, EnsureCapacity
<1>4. CASE ~Fits(s, "HBM")
  <2> DEFINE after ==
               Treated(s, victims, order,
                       LAMBDA acc, v : Offload(acc, v, "CPU", EnsureCpu(acc, {v}, order)).store)
  <2>1. after \in Outcomes(s, {})
    <3> HIDE DEF victims
    <3> QED
      BY <1>1, DemotionsToCpu
  <2>2. room.store = after /\ room.failed = ~Fits(after, "HBM")
    BY <1>4 DEF EnsureHbm, EnsureCapacity
  <2> HIDE DEF after, room
  <2>3. ~room.failed => Fits(room.store, "HBM")
    BY <2>2
  <2> QED
    BY <2>1, <2>2, <2>3 DEF HasRoom, room
<1> QED
  BY <1>3, <1>4

\* The check of any tier.
LEMMA TierRoom ==
  ASSUME NEW s, Sound(s), NEW order \in Orders, NEW protected, NEW t \in Tiers
  PROVE  HasRoom(EnsureTier(s, t, protected, order), s, t)
<1>1. CASE t = "HBM"
  BY <1>1, HbmRoom DEF EnsureTier
<1>2. CASE t = "CPU"
  BY <1>2, CpuRoom DEF EnsureTier
<1>3. CASE t = "NVME"
  BY <1>3, NvmeRoom DEF EnsureTier
<1> QED
  BY <1>1, <1>2, <1>3

-----------------------------------------------------------------------------
(* What the operations make of the store.                                  *)

\* A block that the index does not know is put where there is room.
LEMMA Filled ==
  ASSUME NEW s, Sound(s), NEW b \in Blocks, NEW t \in Tiers, Fits(s, t), NEW r,
         r = [index |-> [s.index EXCEPT ![b] = [tier |-> t, refs |-> 0, pinned |-> FALSE]],
              stored |-> [s.stored EXCEPT ![t] = @ \union {b}]]
  PROVE  Sound(r) /\ \A c \in Blocks \ {b} : r.index[c] = s.index[c]
<1> DEFINE fresh == [tier |-> t, refs |-> 0, pinned |-> FALSE]
<1>1. /\ s \in Stores /\ \A c \in Blocks : Indexed(s, c) => s.index[c] \in Metadata
      /\ s.stored \in [Tiers -> SUBSET Blocks]
      /\ s.index \in [Blocks -> Metadata \union {None}]
  BY DEF Sound, Stores, Indexed
<1>2. fresh \in Metadata
  BY BlockAssumption DEF Metadata
<1>3. /\ r.index \in [Blocks -> Metadata \union {None}] /\ r.index[b] = fresh
      /\ \A c \in Blocks \ {b} : r.index[c] = s.index[c]
  BY <1>1, <1>2
<1>4. /\ r.stored \in [Tiers -> SUBSET Blocks] /\ r.stored[t] = s.stored[t] \union {b}
      /\ \A u \in Tiers \ {t} : r.stored[u] = s.stored[u]
  BY <1>1
<1>5. r \in Stores
  BY <1>3, <1>4 DEF Stores
<1>6. Marked(r)
  BY <1>3 DEF Sound, Marked, Indexed
<1>7. Loadable(r)
  <2> SUFFICES ASSUME NEW c \in Blocks, Indexed(r, c) PROVE c \in r.stored[TierOf(r, c)]
    BY DEF Loadable
  <2>1. CASE c = b
    BY <1>3, <1>4, <2>1 DEF TierOf
  <2>2. CASE c # b
    <3>1. /\ TierOf(r, c) = TierOf(s, c)
          /\ TierOf(s, c) \in Tiers /\ c \in s.stored[TierOf(s, c)]
      BY <1>1, <1>3, <2>2 DEF Indexed, TierOf, Sound, Loadable, Metadata
    <3> QED
      BY <1>4, <3>1
  <2> QED
    BY <2>1, <2>2
<1>8. Bounded(r)
  <2> SUFFICES ASSUME NEW u \in Tiers PROVE Used(r, u) <= Capacity[u] + (Footprint(u) - Size)
    BY DEF Bounded
  <2>1. CASE u = t
    BY <1>1, <1>4, <1>5, <2>1, UsedGrows
  <2>2. CASE u # t
    BY <1>4, <2>2 DEF Sound, Bounded, Used
  <2> QED
    BY <2>1, <2>2
<1> QED
  BY <1>3, <1>5, <1>6, <1>7, <1>8 DEF Sound

\* Only the block a call is made for may be touched while it is held.
Spares(s, r, b) == \A c \in Blocks : Held(s, c) /\ c # b => r.index[c] = s.index[c]

LEMMA OutcomeSpares ==
  ASSUME NEW s, NEW b, NEW r \in Outcomes(s, {b})
  PROVE  Sound(r) /\ Spares(s, r, b)
BY DEF Outcomes, Follows, Spares

\* The block's own removal.
LEMMA Removed ==
  ASSUME NEW s, Sound(s), NEW b \in Blocks
  PROVE  RemoveBlock(s, b) \in Outcomes(s, {b})
BY Stay, Dropped DEF RemoveBlock

\* put.
LEMMA PutSoundly ==
  ASSUME Sound(Store), NEW b \in Blocks, NEW t \in Tiers, Put(b, t)
  PROVE  Sound(Store') /\ Spares(Store, Store', b) /\ lastOp' = For(b) /\ planned' = planned
<1>1. PICK order \in Orders :
        LET room == EnsureTier(ReplaceExisting(Store, b), t, {b}, order)
            fresh == [tier |-> t, refs |-> 0, pinned |-> FALSE]
            placed == [index |-> [room.store.index EXCEPT ![b] = fresh],
                       stored |-> [room.store.stored EXCEPT ![t] = @ \union {b}]]
        IN  /\ Become(IF room.failed THEN room.store ELSE placed)
            /\ lastOp' = For(b)
  BY DEF Put
<1> DEFINE s == Store
           base == ReplaceExisting(s, b)
           room == EnsureTier(base, t, {b}, order)
           fresh == [tier |-> t, refs |-> 0, pinned |-> FALSE]
           placed == [index |-> [room.store.index EXCEPT ![b] = fresh],
                      stored |-> [room.store.stored EXCEPT ![t] = @ \union {b}]]
           result == IF room.failed THEN room.store ELSE placed
<1>2. base \in Outcomes(s, {b}) /\ s \in Stores
  BY Removed DEF ReplaceExisting, Sound
<1>3. Sound(base)
  BY <1>2 DEF Outcomes
<1>4. HasRoom(room, base, t)
  <2> HIDE DEF base, s
  <2> QED
    BY <1>3, TierRoom
<1>5. Store' = [index |-> result.index, stored |-> result.stored] /\ lastOp' = For(b)
  BY <1>1 DEF Become, Store
<1> HIDE DEF s, base, room
<1>6. room.store \in Outcomes(s, {b})
  <2>1. room.store \in Outcomes(base, {b})
    BY <1>4, Widen DEF HasRoom
  <2> QED
    BY <1>2, <2>1, Compose
<1>7. Sound(result) /\ Spares(s, result, b)
  <2>1. Sound(room.store) /\ Spares(s, room.store, b)
    BY <1>6, OutcomeSpares
  <2>2. CASE room.failed
    BY <2>1, <2>2
  <2>3. CASE ~room.failed
    <3>1. Fits(room.store, t)
      BY <1>4, <2>3 DEF HasRoom
    <3>2. Sound(placed) /\ \A c \in Blocks \ {b} : placed.index[c] = room.store.index[c]
      <4> HIDE DEF placed, fresh
      <4> QED
        BY <2>1, <3>1, Filled DEF placed, fresh
    <3> HIDE DEF placed
    <3>3. Spares(s, placed, b)
      BY <2>1, <3>2 DEF Spares
    <3> QED
      BY <2>3, <3>2, <3>3
  <2> QED
    BY <2>2, <2>3
<1> HIDE DEF result
<1>8. Store' = result
  <2>1. result = [index |-> result.index, stored |-> result.stored]
    BY <1>7 DEF Sound, Stores
  <2> QED
    BY <1>5, <2>1
<1> QED
  BY <1>5, <1>7, <1>8 DEF Put, s

\* offload, get with a promotion, and a planned move.
LEMMA MoveSoundly ==
  ASSUME Sound(Store), NEW b \in Blocks, NEW t \in Tiers, MoveBlock(b, t)
  PROVE  /\ Sound(Store') /\ Spares(Store, Store', b)
         /\ lastOp' \in [block : {b}, movedTo : Tiers \union {None}]
<1>1. PICK order \in Orders :
        LET moved == ExecuteOffload(Store, b, t, order)
        IN  /\ Become(moved.store)
            /\ lastOp' = [block |-> b, movedTo |-> IF moved.success THEN t ELSE None]
  BY DEF MoveBlock
<1> DEFINE s == Store
           result == ExecuteOffload(s, b, t, order).store
<1>2. Store' = [index |-> result.index, stored |-> result.stored]
  BY <1>1 DEF Become, Store
<1>3. lastOp' \in [block : {b}, movedTo : Tiers \union {None}]
  BY <1>1
<1>4. result \in Outcomes(s, {b})
  <2> HIDE DEF s
  <2>0. Sound(s)
    BY DEF s
  <2>1. CASE ~Indexed(s, b)
    BY <2>0, <2>1, Stay DEF ExecuteOffload
  <2>2. CASE Indexed(s, b)
    <3> DEFINE room == EnsureTier(s, t, {b}, order)
    <3>1. HasRoom(room, s, t)
      BY <2>0, TierRoom
    <3> HIDE DEF room
    <3>2. Offload(s, b, t, room).store \in Outcomes(s, {b})
      BY <2>0, <2>2, <3>1, MovedSoundly
    <3> QED
      BY <2>2, <3>2 DEF ExecuteOffload, room
  <2> QED
    BY <2>1, <2>2
<1> HIDE DEF result
<1>5. Sound(result) /\ Spares(s, result, b)
  BY <1>4, OutcomeSpares
<1>6. Store' = result
  <2>1. result = [index |-> result.index, stored |-> result.stored]
    BY <1>5 DEF Sound, Stores
  <2> QED
    BY <1>2, <2>1
<1> QED
  BY <1>3, <1>5, <1>6

\* evict, of blocks that nobody holds.
LEMMA EvictSoundly ==
  ASSUME Sound(Store), NEW required, Evict(required)
  PROVE  /\ Sound(Store') /\ \A b : Spares(Store, Store', b)
         /\ lastOp' = For(None) /\ planned' = planned
<1> DEFINE s == Store
           all == UNION {Eligible(s, t, {}) : t \in Tiers}
<1>1. PICK order \in Orders :
        Become(Treated(s, TakenUntil(all, required, order), order, RemoveBlock))
  BY DEF Evict
<1> DEFINE victims == TakenUntil(all, required, order)
           result == Treated(s, victims, order, RemoveBlock)
<1>2. \A v \in victims : ~Held(s, v)
  <2>1. victims \subseteq all
    BY Taken
  <2>2. \A v \in all : ~Held(s, v)
    BY CandidatesFree
  <2> QED
    BY <2>1, <2>2
<1>3. Store' = [index |-> result.index, stored |-> result.stored]
  BY <1>1 DEF Become, Store
<1> HIDE DEF victims
<1>4. result \in Outcomes(s, {})
  BY <1>2, Removals
<1> HIDE DEF result
<1>5. Sound(result) /\ \A b : Spares(s, result, b)
  BY <1>4 DEF Outcomes, Follows, Spares
<1>6. Store' = result
  <2>1. result = [index |-> result.index, stored |-> result.stored]
    BY <1>5 DEF Sound, Stores
  <2> QED
    BY <1>3, <2>1
<1> QED
  BY <1>5, <1>6 DEF Evict

\* remove.
LEMMA RemoveSoundly ==
  ASSUME Sound(Store), NEW b \in Blocks, RemoveById(b)
  PROVE  Sound(Store') /\ Spares(Store, Store', b) /\ lastOp' = For(b) /\ planned' = planned
<1> DEFINE s == Store
           result == RemoveBlock(s, b)
<1>1. Store' = [index |-> result.index, stored |-> result.stored]
  BY DEF RemoveById, Become, Store
<1>2. result \in Outcomes(s, {b})
  BY Removed
<1> HIDE DEF result
<1>3. Sound(result) /\ Spares(s, result, b)
  BY <1>2, OutcomeSpares
<1>4. Store' = result
  <2>1. result = [index |-> result.index, stored |-> result.stored]
    BY <1>3 DEF Sound, Stores
  <2> QED
    BY <1>1, <2>1
<1> QED
  BY <1>3, <1>4 DEF RemoveById

\* A block is marked, and its pin still is its references.
LEMMA MarkedAnew ==
  ASSUME Sound(Store), NEW b \in Blocks, Indexed(Store, b), NEW refs \in 0..MaxPins,
         NEW pinned \in BOOLEAN, pinned <=> refs > 0,
         index' = [index EXCEPT ![b] = [tier |-> index[b].tier, refs |-> refs, pinned |-> pinned]],
         stored' = stored
  PROVE  Sound(Store') /\ Spares(Store, Store', b)
<1> DEFINE s == Store
           r == Store'
           marked == [tier |-> index[b].tier, refs |-> refs, pinned |-> pinned]
<1>1. /\ s.index = index /\ s.stored = stored /\ r.index = index' /\ r.stored = stored
      /\ r = [index |-> r.index, stored |-> r.stored]
  BY DEF Store
<1>2. /\ index \in [Blocks -> Metadata \union {None}] /\ stored \in [Tiers -> SUBSET Blocks]
      /\ index[b] \in Metadata /\ s \in Stores
  BY DEF Sound, Stores, Store, Indexed
<1>3. marked \in Metadata /\ marked.tier = index[b].tier
  BY <1>2 DEF Metadata
<1>4. /\ index' \in [Blocks -> Metadata \union {None}] /\ index'[b] = marked
      /\ \A c \in Blocks \ {b} : index'[c] = index[c]
  BY <1>2, <1>3
<1> HIDE DEF s, r
<1>5. r \in Stores
  BY <1>1, <1>2, <1>4 DEF Stores
<1>6. Sound(s)
  BY DEF s
<1>7. Marked(r)
  <2> SUFFICES ASSUME NEW c \in Blocks, Indexed(r, c)
               PROVE  r.index[c].pinned <=> r.index[c].refs > 0
    BY DEF Marked
  <2>1. CASE c = b
    BY <1>1, <1>4, <2>1
  <2>2. CASE c # b
    BY <1>1, <1>4, <1>6, <2>2 DEF Sound, Marked, Indexed
  <2> QED
    BY <2>1, <2>2
<1>8. Loadable(r)
  <2> SUFFICES ASSUME NEW c \in Blocks, Indexed(r, c) PROVE c \in r.stored[TierOf(r, c)]
    BY DEF Loadable
  <2>1. Indexed(s, c) /\ TierOf(r, c) = TierOf(s, c)
    <3>1. CASE c = b
      BY <1>1, <1>3, <1>4, <3>1 DEF TierOf, Indexed, s
    <3>2. CASE c # b
      BY <1>1, <1>4, <3>2 DEF Indexed, TierOf
    <3> QED
      BY <3>1, <3>2
  <2> QED
    BY <1>1, <1>6, <2>1 DEF Sound, Loadable
<1>9. Bounded(r)
  BY <1>1, <1>6 DEF Sound, Bounded, Used
<1>10. Spares(s, r, b)
  BY <1>1, <1>4 DEF Spares
<1> QED
  BY <1>5, <1>7, <1>8, <1>9, <1>10 DEF Sound, s, r

\* pin and release.
LEMMA PinSoundly ==
  ASSUME Sound(Store), NEW b \in Blocks, Pin(b) \/ Release(b)
  PROVE  Sound(Store') /\ Spares(Store, Store', b) /\ lastOp' = For(b) /\ planned' = planned
<1> DEFINE m == index[b]
<1>1. /\ Indexed(Store, b) /\ m \in Metadata /\ (m.pinned <=> m.refs > 0)
      /\ index \in [Blocks -> Metadata \union {None}]
  BY DEF Sound, Stores, Store, Indexed, Marked, Pin, Release
<1>2. /\ m.refs \in 0..MaxPins /\ m.pinned \in BOOLEAN /\ MaxPins \in Nat
      /\ m = [tier |-> m.tier, refs |-> m.refs, pinned |-> m.pinned]
  BY <1>1, BlockAssumption DEF Metadata
<1>3. CASE Pin(b)
  <2>1. index' = [index EXCEPT ![b] = [tier |-> m.tier, refs |-> m.refs + 1, pinned |-> TRUE]]
    <3>1. index' = [index EXCEPT ![b] = index'[b]]
      BY <1>1, <1>3 DEF Pin
    <3>2. index'[b] = [[m EXCEPT !.refs = m.refs + 1] EXCEPT !.pinned = TRUE]
      BY <1>1, <1>3 DEF Pin
    <3> QED
      BY <1>2, <3>1, <3>2
  <2>2. m.refs + 1 \in 0..MaxPins /\ (TRUE <=> m.refs + 1 > 0)
    BY <1>2, <1>3 DEF Pin
  <2> QED
    BY <1>1, <1>3, <2>1, <2>2, MarkedAnew DEF Pin
<1>4. CASE Release(b)
  <2> DEFINE refs == IF m.refs > 0 THEN m.refs - 1 ELSE 0
             pinned == m.pinned /\ m.refs > 1
  <2>1. index' = [index EXCEPT ![b] = [tier |-> m.tier, refs |-> refs, pinned |-> pinned]]
    <3>1. index' = [index EXCEPT ![b] = index'[b]]
      BY <1>1, <1>4 DEF Release
    <3>2. index'[b] = [[m EXCEPT !.refs = refs] EXCEPT !.pinned = pinned]
      BY <1>1, <1>4 DEF Release
    <3> QED
      BY <1>2, <3>1, <3>2
  <2>2. refs \in 0..MaxPins /\ (pinned <=> refs > 0)
    BY <1>1, <1>2
  <2>3. pinned \in BOOLEAN
    OBVIOUS
  <2>4. lastOp' = For(b) /\ planned' = planned /\ stored' = stored
    BY <1>4 DEF Release
  <2> HIDE DEF refs, pinned
  <2>5. Sound(Store') /\ Spares(Store, Store', b)
    BY <1>1, <2>1, <2>2, <2>3, <2>4, MarkedAnew, Zenon
  <2> QED
    BY <2>4, <2>5
<1> QED
  BY <1>3, <1>4

-----------------------------------------------------------------------------
(* The store between two operations.                                       *)

StoreInv ==
  /\ Sound(Store)
  /\ planned \subseteq Moves
  /\ lastOp \in [block : Blocks \union {None}, movedTo : Tiers \union {None}]

LEMMA InitSound == Init => StoreInv
<1> SUFFICES ASSUME Init PROVE StoreInv
  OBVIOUS
<1>1. Store \in Stores /\ \A b \in Blocks : ~Indexed(Store, b)
  BY DEF Init, Store, Stores, Indexed
<1>2. \A t \in Tiers : Used(Store, t) = 0
  <2> TAKE t \in Tiers
  <2>1. Store.stored[t] = {} /\ Cardinality({}) = 0 /\ Footprint(t) \in Nat
    BY <1>1, UsedType, FS_EmptySet DEF Init, Store
  <2> QED
    BY <2>1 DEF Used
<1>3. Bounded(Store)
  BY <1>1, <1>2, UsedType DEF Bounded
<1> QED
  BY <1>1, <1>3 DEF StoreInv, Sound, Marked, Loadable, Init, For

\* What a step does to the store and to the blocks that others hold.
StoreStep ==
  /\ Sound(Store') /\ planned' \subseteq Moves
  /\ lastOp' \in [block : Blocks \union {None}, movedTo : Tiers \union {None}]
  /\ Spares(Store, Store', lastOp'.block) \/ Store' = Store

LEMMA NextSound == StoreInv /\ [Next]_vars => StoreStep
<1> SUFFICES ASSUME StoreInv, [Next]_vars PROVE StoreStep
  OBVIOUS
<1>1. /\ Sound(Store) /\ planned \subseteq Moves
      /\ lastOp \in [block : Blocks \union {None}, movedTo : Tiers \union {None}]
  BY DEF StoreInv
<1>2. ASSUME NEW b \in Blocks, RemoveById(b) \/ Pin(b) \/ Release(b) PROVE StoreStep
  BY <1>1, <1>2, RemoveSoundly, PinSoundly DEF StoreStep, For
<1>3. ASSUME NEW b \in Blocks, NEW t \in Tiers, Put(b, t) PROVE StoreStep
  BY <1>1, <1>3, PutSoundly DEF StoreStep, For
<1>4. ASSUME NEW b \in Blocks, NEW t \in Tiers, MoveBlock(b, t), planned' \subseteq Moves
      PROVE  StoreStep
  BY <1>1, <1>4, MoveSoundly DEF StoreStep
<1>5. ASSUME NEW b \in Blocks, NEW t \in Tiers, OffloadBlock(b, t) \/ Get(b, t) PROVE StoreStep
  BY <1>1, <1>4, <1>5 DEF OffloadBlock, Get
<1>6. ASSUME NEW b \in Blocks, NEW t \in Tiers, PlanMove(b, t) PROVE StoreStep
  BY <1>1, <1>6 DEF StoreStep, PlanMove, Store, Moves, For
<1>7. ASSUME NEW n, Evict(n) PROVE StoreStep
  BY <1>1, <1>7, EvictSoundly DEF StoreStep, For
<1>8. ASSUME NEW t \in Tiers, PlanDemotions(t) PROVE StoreStep
  <2>1. PICK order \in Orders :
          planned' = {[block |-> b, target |-> IF t = "HBM" THEN "CPU" ELSE "NVME"] :
                        b \in Victims(Store, t, Used(Store, t) - (Capacity[t] * 3) \div 4, {},
                                      order)}
    BY <1>8 DEF PlanDemotions
  <2>2. Victims(Store, t, Used(Store, t) - (Capacity[t] * 3) \div 4, {}, order) \subseteq Blocks
    BY <1>1, Taken, CandidatesFree DEF Victims
  <2>3. planned' \subseteq Moves
    BY <2>1, <2>2 DEF Moves
  <2> QED
    BY <1>1, <1>8, <2>3 DEF StoreStep, PlanDemotions, Store, For
<1>9. ASSUME NEW m \in planned, ExecutePlanned(m) PROVE StoreStep
  <2>1. m.block \in Blocks /\ m.target \in Tiers /\ MoveBlock(m.block, m.target)
    BY <1>1, <1>9 DEF ExecutePlanned, Moves
  <2>2. planned' \subseteq Moves
    BY <1>1, <1>9 DEF ExecutePlanned
  <2> QED
    BY <1>4, <2>1, <2>2
<1>10. CASE UNCHANGED vars
  BY <1>1, <1>10 DEF StoreStep, vars, Store
<1> QED
  BY <1>2, <1>3, <1>5, <1>6, <1>7, <1>8, <1>9, <1>10 DEF Next

LEMMA StoreInvariant == Spec => []StoreInv
<1>1. StoreInv /\ [Next]_vars => StoreInv'
  BY NextSound DEF StoreStep, StoreInv
<1> QED
  BY InitSound, <1>1, PTL DEF Spec

\* Every locked section leaves metadata and payloads well formed, and a block is pinned
\* just as long as it is referenced (TieredKVStore, CacheIndex).
THEOREM TypeCorrect == Spec => []TypeOK
<1>1. StoreInv => TypeOK
  BY DEF StoreInv, Sound, Stores, Marked, Indexed, Store, TypeOK
<1> QED
  BY <1>1, StoreInvariant, PTL

\* Whatever the cascade of demotions, the block an operation is about and the blocks it
\* makes room with are either in no index or in the tier their metadata names.
THEOREM IndexedLoads == Spec => []IndexedHasPayload
<1>1. StoreInv => IndexedHasPayload
  BY DEF StoreInv, Sound, Loadable, Indexed, TierOf, Store, IndexedHasPayload
<1> QED
  BY <1>1, StoreInvariant, PTL

\* No sequence of puts, moves and plans overfills a tier (_ensure_capacity).
THEOREM TiersHold == Spec => []CapacityRespected
<1>1. StoreInv => CapacityRespected
  BY DEF StoreInv, Sound, Bounded, CapacityRespected
<1> QED
  BY <1>1, StoreInvariant, PTL

\* No call but one made for the block itself moves or removes it while it is pinned
\* (_eligible_candidates).
THEOREM PinsHold == Spec => PinnedStays
<1>1. StoreInv /\ [Next]_vars =>
        [\A b \in Blocks :
           index[b] # None /\ index[b].pinned /\ lastOp'.block # b =>
             index'[b] # None /\ index'[b].tier = index[b].tier]_vars
  <2> SUFFICES ASSUME StoreInv, [Next]_vars, NEW b \in Blocks,
                      index[b] # None, index[b].pinned, lastOp'.block # b
               PROVE  index'[b] # None /\ index'[b].tier = index[b].tier
    OBVIOUS
  <2>1. Held(Store, b)
    BY DEF Held, Indexed, Store
  <2>2. Store'.index[b] = Store.index[b]
    BY <2>1, NextSound DEF StoreStep, Spares
  <2> QED
    BY <2>2 DEF Store
<1> QED
  BY <1>1, StoreInvariant, PTL DEF Spec, PinnedStays

=============================================================================
