-------------------------- MODULE ObjectDeleteProofs -------------------------
(***************************************************************************)
(* What the answers of a bulk deletion mean, for any set of objects, any   *)
(* size of the chunks and any cap.                                         *)
(***************************************************************************)
EXTENDS ObjectDelete, FiniteSetTheorems, TLAPS

-----------------------------------------------------------------------------
(* The first keys of a set.                                                 *)

Below(S, k) == {j \in S : j <= k}

\* A key's rank in a finite set of keys is a number up to the size of the set,
\* and grows with the key.
LEMMA Ranks ==
  ASSUME NEW S \in SUBSET Nat, IsFiniteSet(S)
  PROVE  /\ Cardinality(S) \in Nat
         /\ \A k \in S : IsFiniteSet(Below(S, k)) /\ Cardinality(Below(S, k)) \in 1..Cardinality(S)
         /\ \A j, k \in S : j < k => Cardinality(Below(S, j)) < Cardinality(Below(S, k))
<1>1. Cardinality(S) \in Nat
  BY FS_CardinalityType
<1>2. ASSUME NEW k \in S
      PROVE  IsFiniteSet(Below(S, k)) /\ Cardinality(Below(S, k)) \in 1..Cardinality(S)
  <2>1. Below(S, k) \in SUBSET S /\ k \in Below(S, k)
    BY DEF Below
  <2>2. IsFiniteSet(Below(S, k)) /\ Cardinality(Below(S, k)) <= Cardinality(S)
    BY <2>1, FS_Subset
  <2>3. Cardinality(Below(S, k)) \in Nat /\ Cardinality(Below(S, k)) # 0
    BY <2>1, <2>2, FS_CardinalityType, FS_EmptySet
  <2> QED
    BY <1>1, <2>2, <2>3
<1>3. ASSUME NEW j \in S, NEW k \in S, j < k
      PROVE  Cardinality(Below(S, j)) < Cardinality(Below(S, k))
  <2> DEFINE A == Below(S, j)
             B == Below(S, k)
  <2>1. A \in SUBSET B /\ A # B
    <3>1. j \in Nat /\ k \in Nat /\ \A i \in S : i \in Nat
      OBVIOUS
    <3>2. (\A i \in S : i <= j => i <= k) /\ k <= k /\ ~(k <= j)
      BY <1>3, <3>1
    <3> QED
      BY <3>2 DEF Below
  <2>2. IsFiniteSet(B) /\ Cardinality(A) \in Nat /\ Cardinality(B) \in Nat
    BY <1>2
  <2> HIDE DEF A, B
  <2>3. Cardinality(A) <= Cardinality(B) /\ Cardinality(A) # Cardinality(B)
    BY <2>1, <2>2, FS_Subset
  <2>4. Cardinality(A) < Cardinality(B)
    BY <2>2, <2>3
  <2> QED
    BY <2>4 DEF A, B
<1> QED
  BY <1>1, <1>2, <1>3

\* Two keys of one rank are the same.
LEMMA RankInjective ==
  ASSUME NEW S \in SUBSET Nat, IsFiniteSet(S), NEW j \in S, NEW k \in S,
         Cardinality(Below(S, j)) = Cardinality(Below(S, k))
  PROVE  j = k
<1> DEFINE r(i) == Cardinality(Below(S, i))
<1>1. \A i \in S : r(i) \in Nat
  BY Ranks
<1>2. (j < k => r(j) < r(k)) /\ (k < j => r(k) < r(j))
  BY Ranks
<1>3. r(j) = r(k)
  OBVIOUS
<1> HIDE DEF r
<1>4. ~(j < k) /\ ~(k < j)
  BY <1>1, <1>2, <1>3
<1> QED
  BY <1>4

\* Every rank is taken.
LEMMA RankOnto ==
  ASSUME NEW S \in SUBSET Nat, IsFiniteSet(S), NEW n \in 1..Cardinality(S)
  PROVE  \E k \in S : Cardinality(Below(S, k)) = n
<1> DEFINE N == Cardinality(S)
           rank == [k \in S |-> Cardinality(Below(S, k))]
<1>1. N \in Nat
  BY FS_CardinalityType
<1>2. IsFiniteSet(1..N) /\ Cardinality(1..N) = N
  BY <1>1, FS_Interval
<1>3. rank \in [S -> 1..N]
  BY Ranks
<1>4. \A j, k \in S : rank[j] = rank[k] => j = k
  BY RankInjective
<1>5. n \in 1..N /\ \A k \in S : rank[k] = Cardinality(Below(S, k))
  OBVIOUS
<1> HIDE DEF rank
<1>6. rank \in Injection(S, 1..N)
  BY <1>3, <1>4 DEF Injection, IsInjective
<1>7. rank \in Surjection(S, 1..N)
  BY <1>2, <1>6, FS_Injection
<1> QED
  BY <1>5, <1>7 DEF Surjection

\* A nonempty finite set of keys has a last one.
LEMMA LastKey ==
  ASSUME NEW S \in SUBSET Nat, IsFiniteSet(S), S # {}
  PROVE  \E k \in S : \A j \in S : j <= k
<1>1. Cardinality(S) \in 1..Cardinality(S)
  BY FS_CardinalityType, FS_EmptySet
<1>2. PICK k \in S : Cardinality(Below(S, k)) = Cardinality(S)
  BY <1>1, RankOnto
<1>3. Below(S, k) = S
  <2>1. Below(S, k) \in SUBSET S
    BY DEF Below
  <2> QED
    BY <1>2, <2>1, FS_Subset
<1> QED
  BY <1>3 DEF Below

\* FirstOf returns at most n keys, before all others, and at least one when
\* there is one.
LEMMA FirstOfFacts ==
  ASSUME NEW S \in SUBSET Nat, IsFiniteSet(S), NEW n \in Nat
  PROVE  /\ FirstOf(S, n) \subseteq S /\ IsFiniteSet(FirstOf(S, n))
         /\ Cardinality(FirstOf(S, n)) <= n
         /\ \A k \in S \ FirstOf(S, n) : \A j \in FirstOf(S, n) : j < k
         /\ n # 0 /\ S # {} => FirstOf(S, n) # {}
<1> DEFINE F == FirstOf(S, n)
           rank == [k \in F |-> Cardinality(Below(S, k))]
<1>1. F = {k \in S : Cardinality(Below(S, k)) <= n}
  BY DEF FirstOf, Below
<1> HIDE DEF F
<1>2. F \in SUBSET S /\ IsFiniteSet(F)
  BY <1>1, FS_Subset
<1>3. Cardinality(F) <= n
  <2>1. rank \in [F -> 1..n]
    <3>1. \A k \in F : Cardinality(Below(S, k)) \in Nat \ {0} /\ Cardinality(Below(S, k)) <= n
      BY <1>1, Ranks
    <3> QED
      BY <3>1
  <2>2. \A j, k \in F : rank[j] = rank[k] => j = k
    BY <1>2, RankInjective
  <2> HIDE DEF rank
  <2>3. rank \in Injection(F, 1..n)
    BY <2>1, <2>2 DEF Injection, IsInjective
  <2>4. IsFiniteSet(1..n) /\ Cardinality(1..n) = n
    BY FS_Interval
  <2> QED
    BY <2>3, <2>4, FS_Injection
<1>4. ASSUME NEW k \in S \ F, NEW j \in F PROVE j < k
  <2> DEFINE r(i) == Cardinality(Below(S, i))
  <2>1. ~(r(k) <= n) /\ r(j) <= n /\ j \in S
    BY <1>1
  <2>2. r(k) \in Nat /\ r(j) \in Nat /\ (k < j => r(k) < r(j))
    BY <2>1, Ranks
  <2> HIDE DEF r
  <2>3. k # j /\ ~(k < j)
    BY <2>1, <2>2
  <2> QED
    BY <2>1, <2>3
<1>5. ASSUME n # 0, S # {} PROVE F # {}
  <2>1. Cardinality(S) \in Nat /\ Cardinality(S) # 0
    BY <1>5, FS_CardinalityType, FS_EmptySet
  <2>2. 1 \in 1..Cardinality(S)
    BY <2>1
  <2>3. PICK k \in S : Cardinality(Below(S, k)) = 1
    BY <2>2, RankOnto
  <2> QED
    BY <1>1, <1>5, <2>3
<1> QED
  BY <1>2, <1>3, <1>4, <1>5 DEF F

-----------------------------------------------------------------------------
(* Chunks and error entries.                                                *)

\* Keys are finitely many numbers above Stopped.
LEMMA KeySets ==
  ASSUME NEW S \in SUBSET Keys
  PROVE  IsFiniteSet(S) /\ Cardinality(S) \in Nat /\ S \in SUBSET Nat /\ Stopped \notin S
BY DeleteAssumption, FS_Subset, FS_CardinalityType DEF Stopped

\* A chunk is a nonempty part of what is left, and all of it when that is no
\* more than a page.
LEMMA ChunkFacts ==
  ASSUME NEW S \in SUBSET Keys, NEW T \in ChunksOf(S)
  PROVE  /\ T \in SUBSET S /\ T \in SUBSET Keys
         /\ Cardinality(S \ T) = Cardinality(S) - Cardinality(T)
         /\ S # {} => T # {}
         /\ Cardinality(S) <= Chunk => T = S
<1>1. /\ T \in SUBSET S
      /\ Cardinality(T) = IF Cardinality(S) < Chunk THEN Cardinality(S) ELSE Chunk
  BY DEF ChunksOf
<1>2. IsFiniteSet(S) /\ Cardinality(S) \in Nat /\ Chunk \in Nat \ {0}
  BY KeySets, DeleteAssumption
<1>3. Cardinality(S \ T) = Cardinality(S) - Cardinality(T)
  <2>1. S \cap T = T
    BY <1>1
  <2> QED
    BY <1>2, <2>1, FS_Difference
<1>4. ASSUME S # {} PROVE T # {}
  <2>1. Cardinality(S) # 0 /\ Cardinality({}) = 0
    BY <1>2, <1>4, FS_EmptySet
  <2> QED
    BY <1>1, <1>2, <2>1
<1>5. ASSUME Cardinality(S) <= Chunk PROVE T = S
  <2>1. Cardinality(T) = Cardinality(S)
    BY <1>1, <1>2, <1>5
  <2> QED
    BY <1>1, <1>2, <2>1, FS_Subset
<1> QED
  BY <1>1, <1>3, <1>4, <1>5

\* The next page begins after the last key sent.
LEMMA NextAfterFacts ==
  ASSUME NEW S \in SUBSET Keys, S # {}
  PROVE  NextAfter(S) \in S /\ \A j \in S : j <= NextAfter(S)
<1>1. \E k \in S : \A j \in S : j <= k
  BY KeySets, LastKey
<1> QED
  BY <1>1 DEF NextAfter

\* Entries for keys that had none are listed once each.
LEMMA ErrorsEffect ==
  ASSUME TypeOK, NEW S \in SUBSET (Keys \cup {Stopped}), errors' = WithErrors(S)
  PROVE  /\ errors' \in [Keys \cup {Stopped} -> Nat]
         /\ Listed' = Listed \cup S
         /\ S \cap Listed = {} /\ (\A k \in Listed : errors[k] = 1)
              => \A k \in Listed' : errors'[k] = 1
<1>1. \A k \in Keys \cup {Stopped} :
        errors[k] \in Nat /\ errors'[k] = errors[k] + IF k \in S THEN 1 ELSE 0
  BY DEF WithErrors, TypeOK
<1>2. errors' \in [Keys \cup {Stopped} -> Nat]
  BY <1>1 DEF WithErrors
<1>3. Listed' = Listed \cup S
  BY <1>1 DEF Listed
<1>4. ASSUME S \cap Listed = {}, \A k \in Listed : errors[k] = 1, NEW k \in Listed'
      PROVE  errors'[k] = 1
  <2>1. k \in Keys \cup {Stopped}
    BY DEF Listed
  <2>2. CASE k \in S
    <3>1. errors[k] = 0
      BY <1>1, <1>4, <2>1, <2>2 DEF Listed
    <3> QED
      BY <1>1, <2>1, <2>2, <3>1
  <2>3. CASE k \notin S
    BY <1>1, <1>3, <1>4, <2>1, <2>3
  <2> QED
    BY <2>2, <2>3
<1> QED
  BY <1>2, <1>3, <1>4

\* Keys dealt with count for no more than their number.
LEMMA TouchedGrows ==
  ASSUME TypeOK, NEW S \in SUBSET Keys, Touched' = Touched \cup S,
         Cardinality(Touched) <= processed, processed' = processed + Cardinality(S)
  PROVE  Cardinality(Touched') <= processed' /\ processed' \in Nat
<1>1. Touched \in SUBSET Keys
  BY DEF Touched, TypeOK, Listed
<1>2. /\ IsFiniteSet(Touched) /\ Cardinality(Touched) \in Nat
      /\ IsFiniteSet(S) /\ Cardinality(S) \in Nat /\ processed \in Nat
  BY <1>1, KeySets DEF TypeOK
<1>3. Cardinality(Touched \cap S) \in Nat
  <2>1. Touched \cap S \in SUBSET Keys
    OBVIOUS
  <2> QED
    BY <2>1, KeySets
<1>4. Cardinality(Touched \cup S) = Cardinality(Touched) + Cardinality(S) - Cardinality(Touched \cap S)
  BY <1>2, FS_Union
<1> DEFINE t == Cardinality(Touched)
           c == Cardinality(S)
           b == Cardinality(Touched \cap S)
<1>5. t <= processed /\ t \in Nat /\ c \in Nat /\ b \in Nat /\ processed \in Nat
  BY <1>2, <1>3
<1>6. Cardinality(Touched') = t + c - b /\ processed' = processed + c
  BY <1>4
<1> HIDE DEF t, c, b
<1> QED
  BY <1>5, <1>6

-----------------------------------------------------------------------------
(* One step per action.                                                     *)

\* What holds of a chunk that is sent.
LEMMA ChunkInHand ==
  ASSUME TypeOK, DeleteInv, pc = "delete", NEW keys \in ChunksOf(todo)
  PROVE  /\ keys \in SUBSET Keys /\ keys \subseteq todo /\ keys # {}
         /\ keys \cap gone = {} /\ keys \cap Listed = {}
         /\ Cardinality(keys) \in Nat /\ IsFiniteSet(keys)
         /\ kind \in {"batch", "prefix"}
         /\ kind = "prefix" => keys = todo /\ processed + Cardinality(keys) <= MaxObjects
<1>1. todo \in SUBSET Keys /\ todo # {} /\ todo \cap Touched = {} /\ kind \in {"batch", "prefix"}
  BY DEF TypeOK, DeleteInv, InHand
<1>2. keys \in SUBSET Keys /\ keys \subseteq todo /\ keys # {}
  BY <1>1, ChunkFacts
<1>3. keys \cap gone = {} /\ keys \cap Listed = {}
  BY <1>1, <1>2, KeySets DEF Touched
<1>4. Cardinality(keys) \in Nat /\ IsFiniteSet(keys)
  BY <1>2, KeySets
<1>5. ASSUME kind = "prefix" PROVE keys = todo /\ processed + Cardinality(keys) <= MaxObjects
  <2>1. keys = todo
    BY <1>1, <1>5, ChunkFacts DEF TypeOK
  <2> QED
    BY <1>5, <2>1 DEF DeleteInv, Counted
<1> QED
  BY <1>1, <1>2, <1>3, <1>4, <1>5

LEMMA ChunkStep ==
  ASSUME TypeOK, DeleteInv, NEW keys \in ChunksOf(todo), NEW refused \in SUBSET keys,
         DeleteChunk(keys, refused)
  PROVE  TypeOK' /\ DeleteInv'
<1> USE DEF DeleteInv
<1>1. /\ pc = "delete" /\ objects' = objects \ (keys \ refused)
      /\ gone' = gone \cup (keys \ refused)
      /\ deleted' = deleted + Cardinality(keys \ refused)
      /\ errors' = WithErrors(refused)
      /\ processed' = processed + Cardinality(keys)
      /\ todo' = todo \ keys
      /\ UNCHANGED <<kind, asked, more, truncated, fresh, taken>>
  BY DEF DeleteChunk
<1>2. /\ keys \in SUBSET Keys /\ keys \subseteq todo /\ keys # {}
      /\ keys \cap gone = {} /\ keys \cap Listed = {}
      /\ Cardinality(keys) \in Nat /\ kind \in {"batch", "prefix"}
      /\ kind = "prefix" => keys = todo /\ processed + Cardinality(keys) <= MaxObjects
  BY <1>1, ChunkInHand
<1>3. /\ todo \subseteq Keys /\ todo # {} /\ todo \cap Touched = {} /\ Stopped \notin Listed
      /\ kind = "prefix" => /\ \A k \in Touched : k <= after
                            /\ \A k \in todo : k > after
      /\ kind = "batch" => ~truncated
  BY <1>1 DEF TypeOK, InHand
<1>4. /\ errors' \in [Keys \cup {Stopped} -> Nat] /\ Listed' = Listed \cup refused
      /\ \A k \in Listed' : errors'[k] = 1
  <2>1. refused \in SUBSET (Keys \cup {Stopped}) /\ refused \cap Listed = {}
    BY <1>2
  <2>2. \A k \in Listed : errors[k] = 1
    BY DEF Counted, CountedOnce
  <2> QED
    BY <1>1, <2>1, <2>2, ErrorsEffect
<1>5. Touched' = Touched \cup keys /\ Stopped \notin Listed'
  BY <1>1, <1>2, <1>3, <1>4, KeySets DEF Touched
<1>6. Cardinality(Touched') <= processed' /\ processed' \in Nat
  BY <1>1, <1>2, <1>5, TouchedGrows DEF Counted
<1>7. deleted' = Cardinality(gone') /\ deleted' \in Nat
  <2>1. (keys \ refused) \in SUBSET Keys /\ gone \in SUBSET Keys
    BY <1>2 DEF TypeOK
  <2>2. /\ IsFiniteSet(keys \ refused) /\ Cardinality(keys \ refused) \in Nat
        /\ IsFiniteSet(gone) /\ Cardinality(gone) \in Nat
    BY <2>1, KeySets
  <2>3. gone \cap (keys \ refused) = {}
    BY <1>2
  <2>4. Cardinality(gone') = Cardinality(gone) + Cardinality(keys \ refused) - Cardinality({})
    BY <1>1, <2>2, <2>3, FS_Union
  <2>5. Cardinality({}) = 0 /\ deleted = Cardinality(gone)
    BY FS_EmptySet DEF Counted, CountedOnce
  <2> QED
    BY <1>1, <2>2, <2>4, <2>5
<1>8. CountedOnce'
  <2>1. gone' \cap Listed' = {}
    BY <1>1, <1>2, <1>4 DEF Counted, CountedOnce
  <2> QED
    BY <1>4, <1>7, <2>1 DEF CountedOnce
<1>9. /\ objects' \subseteq Keys /\ asked' \subseteq Keys /\ todo' \subseteq Keys
      /\ gone' \subseteq Keys /\ fresh' \subseteq Keys
      /\ kind' \in {"none", "batch", "prefix"}
      /\ more' \in BOOLEAN /\ truncated' \in BOOLEAN /\ taken' \in BOOLEAN
  BY <1>1, <1>2 DEF TypeOK
<1>10. objects' \cap gone' \subseteq fresh'
  BY <1>1 DEF Cleared
<1>11. kind = "batch" =>
         /\ Touched' \subseteq asked /\ Cardinality(asked) <= MaxBatch
         /\ todo' \subseteq asked /\ asked \subseteq Touched' \cup todo'
  BY <1>1, <1>2, <1>5 DEF Counted, Cleared
<1>12. CASE todo' # {}
  <2>1. pc' = "delete" /\ after' = after /\ kind = "batch"
    BY <1>1, <1>2, <1>12 DEF DeleteChunk, Continue
  <2>2. TypeOK'
    BY <1>1, <1>4, <1>6, <1>7, <1>9, <2>1 DEF TypeOK, Working
  <2>3. InHand'
    BY <1>1, <1>3, <1>5, <1>12, <2>1 DEF InHand, Working
  <2>4. Counted'
    BY <1>1, <1>6, <1>8, <1>11, <2>1 DEF Counted
  <2>5. Cleared' /\ Remaining'
    BY <1>1, <1>3, <1>10, <1>11, <2>1 DEF Cleared, Remaining
  <2> QED
    BY <2>2, <2>3, <2>4, <2>5
<1>13. CASE todo' = {} /\ (kind = "batch" \/ truncated \/ ~more)
  <2>1. pc' = "answered" /\ after' = after
    BY <1>1, <1>13 DEF DeleteChunk, Continue
  <2>2. TypeOK'
    <3>1. Cardinality(todo') <= Chunk
      BY <1>13, FS_EmptySet, DeleteAssumption
    <3> QED
      BY <1>1, <1>4, <1>6, <1>7, <1>9, <2>1, <3>1 DEF TypeOK, Working
  <2>3. InHand'
    BY <2>1 DEF InHand, Working
  <2>4. Counted'
    BY <1>1, <1>2, <1>6, <1>8, <1>11, <2>1 DEF Counted
  <2>5. Cleared'
    <3>1. ASSUME kind = "batch" PROVE Listed' # {} \/ asked \subseteq gone'
      BY <1>11, <1>13, <3>1 DEF Touched
    <3>2. ASSUME kind = "prefix", Listed' = {}, ~truncated PROVE objects' \subseteq fresh
      <4>1. Listed = {} /\ refused = {} /\ keys = todo /\ ~more
        BY <1>2, <1>4, <1>13, <3>2
      <4>2. \A k \in (objects \ fresh) \ todo : more
        BY <1>1, <3>2, <4>1 DEF Cleared
      <4> QED
        BY <1>1, <4>1, <4>2
    <3> QED
      BY <1>1, <1>3, <1>10, <2>1, <3>1, <3>2 DEF Cleared
  <2>6. Remaining'
    BY <1>1, <1>2, <1>3, <2>1 DEF Remaining
  <2> QED
    BY <2>2, <2>3, <2>4, <2>5, <2>6
<1>14. CASE todo' = {} /\ kind # "batch" /\ ~truncated /\ more
  <2>1. /\ pc' = "list" /\ after' = NextAfter(keys)
        /\ kind = "prefix" /\ keys = todo
    BY <1>1, <1>2, <1>14 DEF DeleteChunk, Continue
  <2>2. after' \in keys /\ after' \in Keys /\ \A j \in keys : j <= after'
    BY <1>2, <2>1, NextAfterFacts
  <2>3. TypeOK'
    <3>1. Cardinality(todo') <= Chunk
      BY <1>14, FS_EmptySet, DeleteAssumption
    <3> QED
      BY <1>1, <1>4, <1>6, <1>7, <1>9, <2>1, <2>2, <3>1 DEF TypeOK, Working
  <2>4. \A k \in Touched' : k <= after'
    <3>0. Keys \subseteq Nat /\ after \in Keys \cup {0} /\ gone \subseteq Keys
      BY DeleteAssumption DEF TypeOK
    <3>1. Touched \subseteq Keys /\ after \in Nat /\ after' \in Nat
      <4>1. Touched \subseteq Keys
        BY <3>0 DEF Touched, Listed
      <4> QED
        BY <2>2, <3>0, <4>1
    <3>2. after < after'
      BY <1>3, <2>1, <2>2, <3>1
    <3>3. \A k \in Touched : k <= after'
      BY <1>3, <2>1, <3>0, <3>1, <3>2
    <3> QED
      BY <1>5, <2>2, <3>3
  <2>5. InHand'
    BY <1>1, <1>5, <1>14, <2>1, <2>4 DEF InHand, Working
  <2>6. Counted'
    BY <1>1, <1>2, <1>6, <1>8, <2>1 DEF Counted
  <2>7. Cleared'
    <3>1. ASSUME Listed' = {}, NEW k \in objects' \ fresh' PROVE k > after'
      <4>1. Listed = {} /\ refused = {}
        BY <1>4, <3>1
      <4>2. k \in (objects \ fresh) \ todo
        BY <1>1, <2>1, <3>1, <4>1
      <4>3. \A j \in todo : k > j
        BY <1>1, <1>14, <2>1, <4>1, <4>2 DEF Cleared
      <4> QED
        BY <2>1, <2>2, <4>3
    <3> QED
      BY <1>1, <1>10, <2>1, <3>1 DEF Cleared
  <2>8. Remaining'
    BY <1>1, <1>14 DEF Remaining
  <2> QED
    BY <2>3, <2>5, <2>6, <2>7, <2>8
<1> QED
  BY <1>12, <1>13, <1>14

LEMMA ChunkFailsStep ==
  ASSUME TypeOK, DeleteInv, NEW keys \in ChunksOf(todo), NEW applied \in SUBSET keys,
         DeleteFails(keys, applied)
  PROVE  TypeOK' /\ DeleteInv'
<1> USE DEF DeleteInv
<1>1. /\ pc = "delete" /\ objects' = objects \ applied
      /\ errors' = WithErrors(keys)
      /\ processed' = processed + Cardinality(keys)
      /\ pc' \in {"failed", "answered"}
      /\ UNCHANGED <<kind, asked, todo, after, more, deleted, truncated, gone, fresh, taken>>
  BY DEF DeleteFails, hist
<1>2. /\ keys \in SUBSET Keys /\ keys \subseteq todo /\ keys # {}
      /\ keys \cap gone = {} /\ keys \cap Listed = {}
      /\ Cardinality(keys) \in Nat /\ kind \in {"batch", "prefix"}
      /\ kind = "prefix" => keys = todo /\ processed + Cardinality(keys) <= MaxObjects
  BY <1>1, ChunkInHand
<1>3. Stopped \notin Listed /\ (kind = "batch" => ~truncated)
  BY <1>1 DEF TypeOK, InHand, Cleared
<1>4. /\ errors' \in [Keys \cup {Stopped} -> Nat] /\ Listed' = Listed \cup keys
      /\ \A k \in Listed' : errors'[k] = 1
  <2>1. keys \in SUBSET (Keys \cup {Stopped}) /\ keys \cap Listed = {}
    BY <1>2
  <2>2. \A k \in Listed : errors[k] = 1
    BY DEF Counted, CountedOnce
  <2> QED
    BY <1>1, <2>1, <2>2, ErrorsEffect
<1>5. Touched' = Touched \cup keys /\ Stopped \notin Listed' /\ Listed' # {}
  BY <1>1, <1>2, <1>3, <1>4, KeySets DEF Touched
<1>6. Cardinality(Touched') <= processed' /\ processed' \in Nat
  BY <1>1, <1>2, <1>5, TouchedGrows DEF Counted
<1>7. CountedOnce'
  <2>1. gone' \cap Listed' = {} /\ deleted' = Cardinality(gone')
    BY <1>1, <1>2, <1>4 DEF Counted, CountedOnce
  <2> QED
    BY <1>4, <2>1 DEF CountedOnce
<1>8. TypeOK'
  BY <1>1, <1>4, <1>6 DEF TypeOK, Working
<1>9. InHand'
  BY <1>1, <1>5 DEF InHand, Working
<1>10. Counted'
  BY <1>1, <1>2, <1>5, <1>6, <1>7 DEF Counted, Cleared
<1>11. Cleared' /\ Remaining'
  BY <1>1, <1>2, <1>3, <1>5 DEF Cleared, Remaining
<1> QED
  BY <1>8, <1>9, <1>10, <1>11

\* A batch puts the keys it names in hand.
LEMMA BatchStep ==
  ASSUME TypeOK, DeleteInv, NEW S \in SUBSET Keys, Batch(S)
  PROVE  TypeOK' /\ DeleteInv'
<1> USE DEF DeleteInv
<1>1. /\ pc = "idle" /\ kind' = "batch" /\ asked' = S
      /\ UNCHANGED <<objects, after, more, processed, deleted, errors, truncated, gone, fresh, taken>>
  BY DEF Batch, resp, hist
<1>2. \/ pc' = "rejected" /\ todo' = todo
      \/ pc' = "delete" /\ todo' = S /\ S # {} /\ Cardinality(S) <= MaxBatch
  <2>1. Cardinality(S) \in Nat /\ MaxBatch \in Nat
    BY KeySets, DeleteAssumption
  <2> QED
    BY <2>1 DEF Batch
<1>3. Touched = {} /\ Stopped \notin Listed /\ processed = 0
  BY <1>1 DEF InHand
<1>4. Touched' = Touched /\ Listed' = Listed
  BY <1>1 DEF Touched, Listed
<1>5. ~truncated
  BY <1>1 DEF InHand, TypeOK
<1>6. TypeOK'
  BY <1>1, <1>2 DEF TypeOK, Working
<1>7. InHand'
  BY <1>1, <1>2, <1>3, <1>4, <1>5 DEF InHand, Working
<1>8. Counted'
  BY <1>1, <1>2, <1>3, <1>4 DEF Counted, CountedOnce
<1>9. Cleared' /\ Remaining'
  BY <1>1, <1>2, <1>3, <1>4, <1>5 DEF Cleared, Remaining
<1> QED
  BY <1>6, <1>7, <1>8, <1>9

LEMMA PrefixStep ==
  ASSUME TypeOK, DeleteInv, NEW empty \in BOOLEAN, Prefix(empty)
  PROVE  TypeOK' /\ DeleteInv'
<1> USE DEF DeleteInv
<1>1. /\ pc = "idle" /\ kind' = "prefix" /\ pc' \in {"rejected", "list"}
      /\ UNCHANGED <<objects, asked, todo, after, more, processed, deleted, errors, truncated,
                     gone, fresh, taken>>
  BY DEF Prefix, resp, hist
<1>2. Touched = {} /\ Stopped \notin Listed /\ processed = 0 /\ todo = {} /\ after = 0 /\ ~truncated
  BY <1>1 DEF InHand
<1>3. Touched' = Touched /\ Listed' = Listed
  BY <1>1 DEF Touched, Listed
<1>4. TypeOK'
  BY <1>1, <1>2, FS_EmptySet, DeleteAssumption DEF TypeOK, Working
<1>5. InHand'
  BY <1>1, <1>2, <1>3 DEF InHand, Working
<1>6. Counted'
  BY <1>1, <1>2, <1>3, DeleteAssumption, FS_EmptySet DEF Counted, CountedOnce
<1>7. Cleared' /\ Remaining'
  BY <1>1, <1>2, <1>3, DeleteAssumption DEF Cleared, Remaining, TypeOK
<1> QED
  BY <1>4, <1>5, <1>6, <1>7

\* A page is the first keys after StartAfter, cut at the cap; what it leaves out
\* comes after it, and is told by IsTruncated or by "truncated".
LEMMA PageFacts ==
  ASSUME TypeOK, DeleteInv, ListPage
  PROVE  /\ todo' \subseteq {k \in objects : k > after}
         /\ Cardinality(todo') <= Chunk
         /\ processed + Cardinality(todo') <= MaxObjects
         /\ truncated' => {k \in objects : k > after} \ todo' # {}
         /\ ~truncated' =>
              /\ \A k \in {j \in objects : j > after} \ todo' :
                   more' /\ \A j \in todo' : k > j
              /\ todo' = {} => {k \in objects : k > after} = {}
<1> DEFINE found == {k \in objects : k > after}
           page  == Page(found)
           keys  == Capped(page)
<1>1. /\ more' = (page # found) /\ truncated' = (truncated \/ keys # page) /\ todo' = keys
      /\ pc = "list"
  BY DEF ListPage, CutOff
<1>2. ~truncated /\ kind = "prefix" /\ processed \in Nat /\ processed <= MaxObjects
  BY <1>1 DEF DeleteInv, InHand, Counted, TypeOK, Working
<1>3. found \in SUBSET Keys /\ found \in SUBSET Nat /\ IsFiniteSet(found)
  <2>1. found \in SUBSET Keys
    BY DEF TypeOK
  <2> QED
    BY <2>1, KeySets
<1> HIDE DEF found
<1>4. /\ page \subseteq found /\ Cardinality(page) <= Chunk
      /\ \A k \in found \ page : \A j \in page : j < k
      /\ found # {} => page # {}
  BY <1>3, FirstOfFacts, DeleteAssumption DEF Page
<1>5. page \in SUBSET Keys /\ page \in SUBSET Nat /\ IsFiniteSet(page) /\ Cardinality(page) \in Nat
  BY <1>3, <1>4, KeySets
<1> HIDE DEF page
<1>6. MaxObjects - processed \in Nat /\ Chunk \in Nat /\ MaxObjects \in Nat
  BY <1>2, DeleteAssumption
<1>7. keys \subseteq page /\ Cardinality(keys) <= MaxObjects - processed
  BY <1>5, <1>6, FirstOfFacts DEF Capped
<1>8. keys \in SUBSET Keys /\ Cardinality(keys) \in Nat /\ Cardinality(keys) <= Cardinality(page)
  BY <1>5, <1>7, KeySets, FS_Subset
<1> HIDE DEF keys
<1>9. Cardinality(keys) <= Chunk /\ processed + Cardinality(keys) <= MaxObjects
  BY <1>2, <1>4, <1>5, <1>6, <1>7, <1>8
<1>10. ASSUME truncated' PROVE found \ keys # {}
  BY <1>1, <1>2, <1>4, <1>7, <1>10
<1>11. ASSUME ~truncated'
       PROVE  /\ \A k \in found \ keys : more' /\ \A j \in keys : k > j
              /\ keys = {} => found = {}
  <2>1. keys = page
    BY <1>1, <1>11
  <2> QED
    BY <1>1, <1>3, <1>4, <1>5, <2>1
<1> QED
  BY <1>1, <1>4, <1>7, <1>9, <1>10, <1>11 DEF found

LEMMA ListPageStep ==
  ASSUME TypeOK, DeleteInv, ListPage
  PROVE  TypeOK' /\ DeleteInv'
<1> USE DEF DeleteInv
<1> DEFINE found == {k \in objects : k > after}
<1>1. /\ pc = "list" /\ pc' = (IF todo' = {} THEN "answered" ELSE "delete")
      /\ UNCHANGED <<objects, kind, asked, after, processed, deleted, errors, gone, fresh, taken>>
      /\ more' \in BOOLEAN /\ truncated' \in BOOLEAN
  BY DEF ListPage, CutOff, hist, TypeOK
<1>2. /\ todo' \subseteq found /\ Cardinality(todo') <= Chunk
      /\ processed + Cardinality(todo') <= MaxObjects
      /\ truncated' => found \ todo' # {}
      /\ ~truncated' => /\ \A k \in found \ todo' : more' /\ \A j \in todo' : k > j
                        /\ todo' = {} => found = {}
  BY PageFacts
<1>3. /\ kind = "prefix" /\ ~truncated /\ Stopped \notin Listed
      /\ \A k \in Touched : k <= after
      /\ Listed = {} => \A k \in objects \ fresh : k > after
  BY <1>1 DEF InHand, Cleared, Working
<1>4. Touched' = Touched /\ Listed' = Listed
  BY <1>1 DEF Touched, Listed
<1>5. found \subseteq objects /\ \A k \in found : k > after
  OBVIOUS
<1>6. found \subseteq Keys /\ objects \subseteq Keys /\ Keys \subseteq Nat
      /\ after \in Keys \cup {0} /\ Touched \subseteq Keys
  BY DeleteAssumption DEF TypeOK, Touched, Listed
<1>7. \A k \in objects \ fresh : Listed = {} => k \in found
  BY <1>3
<1> HIDE DEF found
<1>8. todo' \cap Touched = {}
  BY <1>2, <1>3, <1>5, <1>6
<1>9. TypeOK'
  BY <1>1, <1>2, <1>3, <1>6 DEF TypeOK, Working
<1>10. InHand'
  BY <1>1, <1>2, <1>3, <1>4, <1>5, <1>8 DEF InHand, Working
<1>11. Counted'
  BY <1>1, <1>2, <1>3, <1>4 DEF Counted, CountedOnce
<1>12. Cleared'
  <2>1. objects' \cap gone' \subseteq fresh'
    BY <1>1 DEF Cleared
  <2>2. ASSUME Listed = {}, ~truncated', NEW k \in (objects \ fresh) \ todo'
        PROVE  more' /\ \A j \in todo' : k > j
    BY <1>2, <1>7, <2>2
  <2>3. ASSUME Listed = {}, ~truncated', todo' = {} PROVE objects \subseteq fresh
    BY <1>2, <1>7, <2>3
  <2> QED
    BY <1>1, <1>3, <1>4, <2>1, <2>2, <2>3 DEF Cleared
<1>13. Remaining'
  BY <1>1, <1>2, <1>5 DEF Remaining
<1> QED
  BY <1>9, <1>10, <1>11, <1>12, <1>13

LEMMA ListFailsStep ==
  ASSUME TypeOK, DeleteInv, ListFails
  PROVE  TypeOK' /\ DeleteInv'
<1> USE DEF DeleteInv
<1>1. /\ pc = "list"
      /\ \/ pc' = "failed" /\ errors' = errors
         \/ pc' = "answered" /\ errors' = WithErrors({Stopped})
      /\ UNCHANGED <<objects, kind, asked, todo, after, more, processed, deleted, truncated,
                     gone, fresh, taken>>
  BY DEF ListFails, hist
<1>2. kind = "prefix" /\ ~truncated /\ Stopped \notin Listed
  BY <1>1 DEF InHand, Working
<1>3. /\ errors' \in [Keys \cup {Stopped} -> Nat]
      /\ \A k \in Listed' : errors'[k] = 1
      /\ \/ pc' = "failed" /\ Listed' = Listed
         \/ pc' = "answered" /\ Listed' = Listed \cup {Stopped}
  <2>1. \A k \in Listed : errors[k] = 1
    BY DEF Counted, CountedOnce
  <2>2. CASE pc' = "failed" /\ errors' = errors
    BY <2>1, <2>2 DEF TypeOK, Listed
  <2>3. CASE pc' = "answered" /\ errors' = WithErrors({Stopped})
    <3>1. {Stopped} \in SUBSET (Keys \cup {Stopped}) /\ {Stopped} \cap Listed = {}
      BY <1>2
    <3> QED
      BY <2>1, <2>3, <3>1, ErrorsEffect
  <2> QED
    BY <1>1, <2>2, <2>3
<1>4. Touched' = Touched
  <2>1. Stopped \notin gone
    BY KeySets DEF TypeOK
  <2> QED
    BY <1>1, <1>2, <1>3, <2>1 DEF Touched
<1>5. TypeOK'
  BY <1>1, <1>3 DEF TypeOK, Working
<1>6. InHand'
  BY <1>1, <1>2, <1>3 DEF InHand, Working
<1>7. Counted'
  <2>1. gone' \cap Listed' = {}
    BY <1>1, <1>3, KeySets DEF Counted, CountedOnce, TypeOK
  <2> QED
    BY <1>1, <1>2, <1>3, <1>4, <2>1 DEF Counted, CountedOnce
<1>8. Cleared' /\ Remaining'
  BY <1>1, <1>2, <1>3 DEF Cleared, Remaining
<1> QED
  BY <1>5, <1>6, <1>7, <1>8

\* What other clients upload is fresh, and what they delete is taken.
LEMMA OthersStep ==
  ASSUME TypeOK, DeleteInv, NEW x \in Keys, OtherPuts(x) \/ OtherDeletes(x)
  PROVE  TypeOK' /\ DeleteInv'
<1> USE DEF DeleteInv
<1>1. /\ UNCHANGED <<kind, pc, asked, todo, after, more, processed, deleted, errors, truncated, gone>>
      /\ pc \in Working
      /\ objects' \subseteq objects \cup {x} /\ objects' \subseteq Keys
      /\ fresh' \subseteq Keys /\ taken' \in BOOLEAN
      /\ objects' \ fresh' \subseteq objects \ fresh
      /\ (~taken' => ~taken /\ objects \subseteq objects')
  BY DEF OtherPuts, OtherDeletes, resp, hist, TypeOK
<1>2. Touched' = Touched /\ Listed' = Listed
  BY <1>1 DEF Touched, Listed
<1>3. TypeOK'
  BY <1>1 DEF TypeOK
<1>4. InHand' /\ Counted'
  BY <1>1, <1>2 DEF InHand, Counted, CountedOnce
<1>5. objects' \cap gone' \subseteq fresh'
  BY <1>1 DEF Cleared
<1>6. pc # "answered"
  BY <1>1 DEF Working
<1>7. Cleared'
  BY <1>1, <1>2, <1>5, <1>6 DEF Cleared
<1>8. Remaining'
  BY <1>1, <1>6 DEF Remaining
<1> QED
  BY <1>3, <1>4, <1>7, <1>8

-----------------------------------------------------------------------------
LEMMA DeleteInvariance == Spec => [](TypeOK /\ DeleteInv)
<1>1. Init => TypeOK /\ DeleteInv
  <2> SUFFICES ASSUME Init PROVE TypeOK /\ DeleteInv
    OBVIOUS
  <2>1. \A k \in Keys \cup {Stopped} : errors[k] = 0
    BY DEF Init, NoErrors
  <2>2. Listed = {} /\ Touched = {} /\ Cardinality({}) = 0
    BY <2>1, FS_EmptySet DEF Init, Listed, Touched
  <2>3. TypeOK
    BY <2>2, DeleteAssumption DEF Init, TypeOK, NoErrors, Working
  <2>4. InHand /\ Cleared /\ Remaining
    BY <2>2 DEF Init, InHand, Cleared, Remaining, Working
  <2>5. Counted
    BY <2>2, DeleteAssumption DEF Init, Counted, CountedOnce
  <2> QED
    BY <2>3, <2>4, <2>5 DEF DeleteInv
<1>2. TypeOK /\ DeleteInv /\ [Next]_vars => TypeOK' /\ DeleteInv'
  <2> SUFFICES ASSUME TypeOK, DeleteInv, [Next]_vars PROVE TypeOK' /\ DeleteInv'
    OBVIOUS
  <2>1. CASE UNCHANGED vars
    BY <2>1 DEF vars, resp, hist, TypeOK, DeleteInv, InHand, Counted, Cleared, Remaining,
                Touched, Listed, CountedOnce
  <2>2. CASE Next
    BY <2>2, ChunkStep, ChunkFailsStep, BatchStep, PrefixStep, ListPageStep, ListFailsStep,
       OthersStep DEF Next
  <2> QED
    BY <2>1, <2>2
<1> QED
  BY <1>1, <1>2, PTL DEF Spec

\* Every variable has its type, and a page is never larger than a chunk.
THEOREM TypeCorrect == Spec => []TypeOK
  BY DeleteInvariance, PTL

\* An answer of handleBatchDeleteObjects or handleDeletePrefix without errors
\* and without "truncated" leaves only what was uploaded meanwhile.
THEOREM CleanAnswers == Spec => []CleanMeansGone
<1>1. TypeOK /\ DeleteInv => CleanMeansGone
  <2> SUFFICES ASSUME DeleteInv PROVE CleanMeansGone
    OBVIOUS
  <2> QED
    BY DEF DeleteInv, Cleared, CleanMeansGone, Answered
<1> QED
  BY <1>1, DeleteInvariance, PTL

\* The counts, the cap and "truncated" of an answer are right.
THEOREM TrueCounts == Spec => []CountsAreTrue
<1>1. TypeOK /\ DeleteInv => CountsAreTrue
  <2> SUFFICES ASSUME TypeOK, DeleteInv PROVE CountsAreTrue
    OBVIOUS
  <2>1. CountedOnce
    BY DEF DeleteInv, Counted
  <2>2. CapRespected
    <3>1. Touched \in SUBSET Keys /\ asked \in SUBSET Keys
      BY DEF Touched, Listed, TypeOK
    <3>2. /\ IsFiniteSet(asked) /\ Cardinality(asked) \in Nat /\ Cardinality(Touched) \in Nat
          /\ MaxBatch \in Nat /\ MaxObjects \in Nat /\ processed \in Nat /\ Cardinality(todo) \in Nat
      BY <3>1, KeySets, DeleteAssumption DEF TypeOK
    <3>3. CASE kind = "batch" /\ pc # "rejected"
      <4>1. Touched \in SUBSET asked /\ Cardinality(asked) <= MaxBatch
        BY <3>3 DEF DeleteInv, Counted
      <4>2. Cardinality(Touched) <= Cardinality(asked)
        BY <3>2, <4>1, FS_Subset
      <4> QED
        BY <3>2, <3>3, <4>1, <4>2 DEF CapRespected, Touched
    <3>4. CASE pc = "rejected"
      <4>1. Cardinality(Touched) = 0
        BY <3>4, FS_EmptySet DEF DeleteInv, InHand
      <4> QED
        BY <3>2, <4>1 DEF CapRespected, Touched
    <3>5. CASE kind # "batch"
      <4>1. Cardinality(Touched) <= processed /\ processed <= MaxObjects
        BY <3>2, <3>5 DEF DeleteInv, Counted
      <4> QED
        BY <3>2, <3>5, <4>1 DEF CapRespected, Touched
    <3> QED
      BY <3>3, <3>4, <3>5
  <2>3. TruncatedMeansMore
    BY DEF DeleteInv, Remaining, TruncatedMeansMore, Answered
  <2> QED
    BY <2>1, <2>2, <2>3 DEF CountsAreTrue
<1> QED
  BY <1>1, DeleteInvariance, PTL
=============================================================================
