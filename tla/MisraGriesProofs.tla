-------------------------- MODULE MisraGriesProofs --------------------------
(***************************************************************************)
(* Proofs about the Misra-Gries tracker, for every set of rows, every      *)
(* threshold and every table size the sizing rule of init_scheduler_vars   *)
(* gives.  The inductive invariant is TypeOK, the tracking bounds below    *)
(* and the conservation of activations; conservation bounds the spill      *)
(* counter by counting the units under the diagonal of the table.          *)
(***************************************************************************)
EXTENDS MisraGries, FiniteSetTheorems, TLAPS

-----------------------------------------------------------------------------
(* Arithmetic. *)

\* The threshold and the table size are natural numbers, and the table is one
\* entry short of holding MaxActs activations at the threshold.
LEMMA Sizing ==
  /\ Rth \in Nat \ {0}
  /\ MgEntries \in Nat
  /\ MaxActs < Rth * (MgEntries + 1)
<1>1. Rth \in Nat \ {0}
  BY MisraGriesAssumption DEF Rth
<1>2. /\ MgEntries \in Nat
      /\ MaxActs < Rth * (MgEntries + 1)
  BY <1>1, MisraGriesAssumption DEF MgEntries
<1> QED
  BY <1>1, <1>2

\* The remainder of a counter moves up by one until it crosses a multiple.
LEMMA NextRemainder ==
  ASSUME NEW n \in Nat
  PROVE  /\ n % Rth \in 0..(Rth - 1)
         /\ (n + 1) % Rth # 0 => (n + 1) % Rth = (n % Rth) + 1
         /\ n < Rth => n % Rth = n
  BY Sizing

\* A nonempty set of entries has a least one: the initial segments below its
\* members are finite sets, and strict inclusion is well founded on those.
LEMMA LeastEntry ==
  ASSUME NEW S \in SUBSET Entries, S # {}
  PROVE  \E e \in S : \A d \in S : e <= d
<1> DEFINE Segments == {1..e : e \in S}
           Below == StrictSubsetOrdering(Entries)
<1>1. IsWellFoundedOn(Below, SUBSET Entries)
  <2>1. IsFiniteSet(Entries)
    BY FS_Interval, Sizing DEF Entries
  <2>2. FiniteSubsetsOf(Entries) = SUBSET Entries
    BY <2>1, FS_FiniteSubsetsOfFinite
  <2> QED
    BY <2>2, FS_StrictSubsetOrderingWellFounded
<1>2. Segments \subseteq SUBSET Entries /\ Segments # {}
  <2>1. ASSUME NEW e \in S PROVE 1..e \in SUBSET Entries
    BY Sizing DEF Entries
  <2>2. \E e : e \in S
    OBVIOUS
  <2> QED
    BY <2>1, <2>2
<1>3. PICK x \in Segments : \A y \in Segments : ~ (<<y, x>> \in Below)
  <2> HIDE DEF Segments, Below
  <2> QED
    BY <1>1, <1>2, WFMin
<1>4. PICK e \in S : x = 1..e
  BY <1>3
<1>5. ASSUME NEW d \in S, d < e PROVE FALSE
  <2>1. e \in Nat \ {0} /\ d \in Nat \ {0}
    BY Sizing DEF Entries
  <2>2. 1..d \in SUBSET Entries /\ 1..e \in SUBSET Entries
    BY Sizing DEF Entries
  <2>3. 1..d \subseteq 1..e /\ e \in 1..e /\ e \notin 1..d
    BY <1>5, <2>1
  <2>4. <<1..d, 1..e>> \in Below
    BY <2>2, <2>3 DEF StrictSubsetOrdering
  <2> QED
    BY <1>3, <1>4, <2>4
<1> QED
  BY <1>5, Sizing DEF Entries

-----------------------------------------------------------------------------
(* Counting. *)

\* The units of the table are finitely many, so they can be counted.
LEMMA UnitsFinite == IsFiniteSet(Units) /\ Cardinality(Units) \in Nat
<1>1. IsFiniteSet(Entries) /\ IsFiniteSet(1..MaxActs)
  BY FS_Interval, Sizing, MisraGriesAssumption DEF Entries
<1>2. IsFiniteSet(Entries \X (1..MaxActs))
  BY <1>1, FS_Product
<1>3. Units \in SUBSET (Entries \X (1..MaxActs))
  BY DEF Units
<1> QED
  BY <1>2, <1>3, FS_Subset, FS_CardinalityType

\* Raising one counter adds exactly one unit.
LEMMA OneMoreUnit ==
  ASSUME TypeOK, CountRange, acts < MaxActs,
         NEW e \in Entries, count' = [count EXCEPT ![e] = @ + 1]
  PROVE  Cardinality(Units') = Cardinality(Units) + 1
<1> DEFINE u == <<e, count[e] + 1>>
<1>1. count[e] \in Nat /\ count[e] <= acts /\ acts \in Nat /\ MaxActs \in Nat
  BY MisraGriesAssumption DEF TypeOK, CountRange
<1>2. u \in Entries \X (1..MaxActs) /\ u \notin Units
  BY <1>1 DEF Units
<1>3. Units' = Units \cup {u}
  <2>1. \A d \in Entries : count[d] \in Nat
    BY DEF TypeOK
  <2>2. \A d \in Entries : count'[d] = IF d = e THEN count[e] + 1 ELSE count[d]
    BY DEF TypeOK
  <2>3. ASSUME NEW d \in Entries, NEW k \in 1..MaxActs
        PROVE  k <= count'[d] <=> k <= count[d] \/ (d = e /\ k = count[e] + 1)
    BY <1>1, <2>1, <2>2
  <2>4. ASSUME NEW v \in Entries \X (1..MaxActs)
        PROVE  v \in Units' <=> v \in Units \cup {u}
    <3>1. PICK d \in Entries, k \in 1..MaxActs : v = <<d, k>>
      OBVIOUS
    <3> QED
      BY <3>1, <2>3 DEF Units
  <2>5. Units' \subseteq Entries \X (1..MaxActs) /\ Units \subseteq Entries \X (1..MaxActs)
    BY DEF Units
  <2> QED
    BY <2>4, <2>5, <1>2
<1> QED
  BY <1>2, <1>3, UnitsFinite, FS_AddElement

\* The table holds at least spill units in every entry, so spill cannot reach
\* the threshold within MaxActs activations.
LEMMA SpillBound == Counted => SpillBelowThreshold
<1> SUFFICES ASSUME Counted PROVE spill < Rth
  BY DEF SpillBelowThreshold
<1>1. /\ spill \in Nat /\ acts \in Nat /\ acts <= MaxActs /\ MaxActs \in Nat
      /\ spill <= acts
      /\ \A e \in Entries : count[e] \in Nat /\ spill <= count[e]
  BY MisraGriesAssumption DEF Counted, TypeOK, CountRange
<1>2. Entries \X (1..spill) \in SUBSET Units
  BY <1>1 DEF Units
<1>3. /\ IsFiniteSet(Entries) /\ Cardinality(Entries) = MgEntries
      /\ IsFiniteSet(1..spill) /\ Cardinality(1..spill) = spill
  BY <1>1, FS_Interval, Sizing DEF Entries
<1>4. Cardinality(Entries \X (1..spill)) = MgEntries * spill
  BY <1>3, FS_Product
<1>5. MgEntries * spill <= Cardinality(Units)
  BY <1>2, <1>4, UnitsFinite, FS_Subset
<1>6. MgEntries * spill + spill <= MaxActs
  <2>1. Cardinality(Units) + spill = acts
    BY DEF Counted, Conservation
  <2>2. MgEntries * spill \in Nat
    BY <1>1, Sizing
  <2> QED
    BY <2>1, <2>2, <1>1, <1>5, UnitsFinite
<1>7. ASSUME spill >= Rth PROVE FALSE
  <2>1. Rth * (MgEntries + 1) <= spill * (MgEntries + 1)
    BY <1>7, <1>1, Sizing
  <2>2. spill * (MgEntries + 1) = MgEntries * spill + spill
    BY <1>1, Sizing
  <2> QED
    BY <2>1, <2>2, <1>6, <1>1, Sizing
<1> QED
  BY <1>1, <1>7, Sizing

-----------------------------------------------------------------------------
(* Each way through misraGries preserves the counting part. *)

\* The tables as calloc and the clearings leave them, with their history.
Cleared ==
  /\ track = [e \in Entries |-> 0]
  /\ count = [e \in Entries |-> 0]
  /\ spill = 0
  /\ acts = 0
  /\ seen = [r \in Rows |-> 0]
  /\ unmitigated = [r \in Rows |-> 0]

Counting == CountRange /\ Conservation /\ DuplicatesUnused /\ OverEstimate /\ Residue

\* Cleared tables hold nothing.
LEMMA ClearedCounted == Cleared => Counting
<1> SUFFICES ASSUME Cleared PROVE Counting
  OBVIOUS
<1> USE DEF Cleared
<1>1. Units = {}
  BY MisraGriesAssumption DEF Units
<1>2. Conservation
  BY <1>1, FS_EmptySet DEF Conservation
<1>3. CountRange /\ DuplicatesUnused /\ OverEstimate
  BY DEF CountRange, DuplicatesUnused, OverEstimate, FirstFor
<1>4. Residue
  <2>1. 0 % Rth = 0
    BY NextRemainder, Sizing
  <2> QED
    BY <2>1 DEF Residue
<1> QED
  BY <1>2, <1>3, <1>4 DEF Counting

\* Activate keeps the types.
LEMMA ActivateTypes ==
  ASSUME TypeOK, NEW r \in Rows, Activate(r)
  PROVE  TypeOK'
<1> USE MisraGriesAssumption DEF TypeOK
<1>1. /\ track' \in [Entries -> Rows]
      /\ count' \in [Entries -> Nat]
      /\ spill' \in Nat
      /\ fired' \in BOOLEAN
  <2>1. CASE Hit(r)
    BY <2>1 DEF Hit, Crosses
  <2>2. CASE Replace(r)
    BY <2>2 DEF Replace, Crosses
  <2>3. CASE Spill(r)
    <3>1. fired' \in BOOLEAN
      BY <2>3, Zenon DEF Spill
    <3>2. track' \in [Entries -> Rows] /\ count' \in [Entries -> Nat] /\ spill' \in Nat
      BY <2>3 DEF Spill
    <3> QED
      BY <3>1, <3>2
  <2> QED
    BY <2>1, <2>2, <2>3 DEF Activate
<1>2. acts' \in 0..MaxActs /\ clears' \in 0..MaxClears
  BY DEF Activate, Record
<1>3. /\ seen' \in [Rows -> Nat]
      /\ unmitigated' \in [Rows -> Nat]
      /\ inPeriod' \in [Rows -> Nat]
  BY DEF Activate, Record
<1> QED
  BY <1>1, <1>2, <1>3

\* A call adds one to exactly one of the counters and the spill counter.
LEMMA ActivateCounted ==
  ASSUME Counted, NEW r \in Rows, Activate(r)
  PROVE  Counted'
<1> USE DEF Counted
<1>1. TypeOK'
  BY ActivateTypes
<1>2. /\ spill \in Nat /\ acts \in Nat /\ acts < MaxActs /\ acts' = acts + 1
      /\ \A e \in Entries : count[e] \in Nat
      /\ Cardinality(Units) \in Nat
  BY UnitsFinite DEF TypeOK, Activate, Record
<1>3. CASE \E e \in Entries : count' = [count EXCEPT ![e] = @ + 1] /\ spill' = spill
  <2>1. PICK e \in Entries : count' = [count EXCEPT ![e] = @ + 1] /\ spill' = spill
    BY <1>3
  <2>2. CountRange'
    BY <2>1, <1>2 DEF CountRange, TypeOK
  <2>3. Conservation'
    <3>1. Cardinality(Units') = Cardinality(Units) + 1
      BY <2>1, <1>2, OneMoreUnit
    <3> QED
      BY <3>1, <2>1, <1>2 DEF Conservation
  <2> QED
    BY <1>1, <2>2, <2>3
<1>4. CASE Spill(r)
  <2>1. CountRange'
    BY <1>4, <1>2 DEF Spill, CountRange
  <2>2. Units' = Units
    BY <1>4 DEF Spill, Units
  <2>3. Conservation'
    BY <2>2, <1>4, <1>2 DEF Spill, Conservation
  <2> QED
    BY <1>1, <2>1, <2>3
<1> QED
  BY <1>3, <1>4 DEF Activate, Hit, Replace

-----------------------------------------------------------------------------
(* Each way through misraGries preserves the tracking part. *)

\* The linear search finds an entry whenever there is one.
LEMMA UnsearchedRow ==
  ASSUME NEW r \in Rows, NEW e \in Entries, FirstFor(e, r)
  PROVE  Tracked(r) /\ \A d \in Entries : FirstFor(d, r) => d = e
<1>1. Tracked(r)
  BY DEF FirstFor, Tracked
<1>2. ASSUME NEW d \in Entries, FirstFor(d, r) PROVE d = e
  BY <1>2, Sizing DEF FirstFor, Entries
<1> QED
  BY <1>1, <1>2

\* A hit raises the only entry that stands for the row.
LEMMA HitTracking ==
  ASSUME IInv, NEW r \in Rows, Hit(r), Record(r)
  PROVE  DuplicatesUnused' /\ OverEstimate' /\ Residue'
<1>1. PICK e \in Entries : /\ FirstFor(e, r)
                           /\ count' = [count EXCEPT ![e] = @ + 1]
                           /\ fired' = Crosses(count[e] + 1)
  BY DEF Hit
<1>2. track' = track /\ spill' = spill
  BY DEF Hit
<1>3. /\ \A d \in Entries : count[d] \in Nat
      /\ \A d \in Entries : count'[d] = IF d = e THEN count[e] + 1 ELSE count[d]
      /\ \A q \in Rows : seen[q] \in Nat /\ unmitigated[q] \in Nat
  BY <1>1 DEF IInv, Counted, TypeOK
<1>4. \A q \in Rows : /\ seen'[q] = IF q = r THEN seen[r] + 1 ELSE seen[q]
                      /\ q # r => unmitigated'[q] = unmitigated[q]
  BY DEF IInv, Counted, TypeOK, Record
<1>5. /\ \A q \in Rows : Tracked(q)' <=> Tracked(q)
      /\ \A q \in Rows, d \in Entries : FirstFor(d, q)' <=> FirstFor(d, q)
  BY <1>2 DEF Tracked, FirstFor
<1>6. DuplicatesUnused'
  <2> SUFFICES ASSUME NEW d \in Entries, NEW f \in Entries, d < f, track[d] = track[f]
               PROVE  count'[f] = 0
    BY <1>2 DEF DuplicatesUnused
  <2>1. count[f] = 0
    BY DEF IInv, DuplicatesUnused
  <2>2. f # e
    BY <1>1, Sizing DEF FirstFor, Entries
  <2> QED
    BY <2>1, <2>2, <1>3
<1>7. OverEstimate'
  <2> SUFFICES ASSUME NEW q \in Rows
               PROVE  /\ \A d \in Entries : FirstFor(d, q) => seen'[q] <= count'[d]
                      /\ ~ Tracked(q) => seen'[q] <= spill
    BY <1>2, <1>5 DEF OverEstimate
  <2>1. CASE q = r
    BY <2>1, <1>1, <1>3, <1>4, UnsearchedRow DEF IInv, OverEstimate
  <2>2. CASE q # r
    BY <2>2, <1>1, <1>3, <1>4 DEF IInv, OverEstimate, FirstFor
  <2> QED
    BY <2>1, <2>2
<1>8. Residue'
  <2> SUFFICES ASSUME NEW q \in Rows
               PROVE  /\ \A d \in Entries : FirstFor(d, q) => unmitigated'[q] <= count'[d] % Rth
                      /\ ~ Tracked(q) => unmitigated'[q] <= spill
    BY <1>2, <1>5 DEF Residue
  <2>1. CASE q = r
    <3>1. unmitigated'[r] <= count'[e] % Rth
      <4>1. unmitigated[r] <= count[e] % Rth
        BY <1>1 DEF IInv, Residue
      <4>2. CASE fired'
        <5>1. unmitigated'[r] = 0
          BY <4>2 DEF Record, IInv, Counted, TypeOK
        <5>2. count'[e] % Rth \in 0..(Rth - 1)
          BY <1>3, NextRemainder
        <5> QED
          BY <5>1, <5>2, Sizing
      <4>3. CASE ~ fired'
        <5>1. unmitigated'[r] = unmitigated[r] + 1
          BY <4>3 DEF Record, IInv, Counted, TypeOK
        <5>2. (count[e] + 1) % Rth # 0
          BY <4>3, <1>1 DEF Crosses
        <5>3. /\ count[e] % Rth \in 0..(Rth - 1)
              /\ (count[e] + 1) % Rth = (count[e] % Rth) + 1
          BY <5>2, <1>3, NextRemainder
        <5> QED
          BY <5>1, <5>3, <4>1, <1>3, Sizing
      <4> QED
        BY <4>2, <4>3
    <3> QED
      BY <3>1, <2>1, <1>1, UnsearchedRow
  <2>2. CASE q # r
    BY <2>2, <1>1, <1>3, <1>4 DEF IInv, Residue, FirstFor
  <2> QED
    BY <2>1, <2>2
<1> QED
  BY <1>6, <1>7, <1>8

\* A row that takes over an entry at the spill counter was spilled at most
\* that often; the row it evicts was seen at most that often.
LEMMA ReplaceTracking ==
  ASSUME IInv, NEW r \in Rows, Replace(r), Record(r), SpillBelowThreshold
  PROVE  DuplicatesUnused' /\ OverEstimate' /\ Residue'
<1>1. PICK e \in Entries : /\ FirstSpilled(e)
                           /\ track' = [track EXCEPT ![e] = r]
                           /\ count' = [count EXCEPT ![e] = @ + 1]
                           /\ fired' = Crosses(count[e] + 1)
  BY DEF Replace
<1>2. /\ spill' = spill /\ spill \in Nat /\ spill < Rth
      /\ count[e] = spill
      /\ \A d \in Entries : track[d] # r
  BY <1>1 DEF Replace, Tracked, FirstSpilled, SpillBelowThreshold, IInv, Counted, TypeOK
<1>3. /\ \A d \in Entries : count[d] \in Nat /\ spill <= count[d]
      /\ \A d \in Entries : count'[d] = IF d = e THEN spill + 1 ELSE count[d]
      /\ \A d \in Entries : track'[d] = IF d = e THEN r ELSE track[d]
      /\ \A q \in Rows : seen[q] \in Nat /\ unmitigated[q] \in Nat
  BY <1>1, <1>2 DEF IInv, Counted, CountRange, TypeOK
<1>4. \A q \in Rows : /\ seen'[q] = IF q = r THEN seen[r] + 1 ELSE seen[q]
                      /\ q # r => unmitigated'[q] = unmitigated[q]
  BY DEF IInv, Counted, TypeOK, Record
<1>5. Entries \subseteq Nat /\ \A d \in Entries : 1..(d - 1) \subseteq Entries
  BY Sizing DEF Entries
<1>6. DuplicatesUnused'
  <2> SUFFICES ASSUME NEW d \in Entries, NEW f \in Entries, d < f, track'[d] = track'[f]
               PROVE  count'[f] = 0
    BY DEF DuplicatesUnused
  <2>1. d # e /\ f # e
    BY <1>2, <1>3, <1>5
  <2> QED
    BY <2>1, <1>3 DEF IInv, DuplicatesUnused
\* The new entry is the only one for r.
<1>7. \A d \in Entries : FirstFor(d, r)' => d = e
  BY <1>2, <1>3 DEF FirstFor
\* An entry that becomes the first for another row q was so before, or was
\* shadowed by e, whose count, and with it every count of q, was zero.
<1>8. ASSUME NEW q \in Rows, q # r, NEW d \in Entries, FirstFor(d, q)'
      PROVE  FirstFor(d, q) \/ (FirstFor(e, q) /\ spill = 0 /\ count[d] = 0)
  <2>1. /\ d # e /\ track[d] = q
        /\ \A c \in 1..(d - 1) : c # e => track[c] # q
    BY <1>8, <1>3, <1>5 DEF FirstFor
  <2>2. CASE track[e] = q /\ e < d
    <3>1. FirstFor(e, q)
      BY <2>1, <2>2, <1>5 DEF FirstFor
    <3>2. count[d] = 0
      BY <2>1, <2>2 DEF IInv, DuplicatesUnused
    <3> QED
      BY <3>1, <3>2, <1>2, <1>3
  <2>3. CASE ~ (track[e] = q /\ e < d)
    BY <2>1, <2>3, <1>5 DEF FirstFor
  <2> QED
    BY <2>2, <2>3
<1>9. ASSUME NEW q \in Rows, q # r, ~ Tracked(q)'
      PROVE  ~ Tracked(q) \/ FirstFor(e, q)
  BY <1>9, <1>3, <1>5 DEF Tracked, FirstFor
<1>10. Tracked(r)'
  BY <1>3 DEF Tracked
<1>11. seen[r] <= spill /\ unmitigated[r] <= spill
  BY <1>2 DEF IInv, OverEstimate, Residue, Tracked
<1>12. spill % Rth = spill
  BY <1>2, NextRemainder
<1>13. OverEstimate'
  <2> SUFFICES ASSUME NEW q \in Rows
               PROVE  /\ \A d \in Entries : FirstFor(d, q)' => seen'[q] <= count'[d]
                      /\ ~ Tracked(q)' => seen'[q] <= spill
    BY <1>2 DEF OverEstimate
  <2>1. CASE q = r
    BY <2>1, <1>2, <1>3, <1>4, <1>7, <1>10, <1>11
  <2>2. CASE q # r
    <3>1. ASSUME NEW d \in Entries, FirstFor(d, q)'
          PROVE  seen'[q] <= count'[d]
      <4>1. d # e
        BY <2>2, <3>1, <1>3 DEF FirstFor
      <4>2. FirstFor(d, q) \/ (FirstFor(e, q) /\ spill = 0 /\ count[d] = 0)
        BY <2>2, <3>1, <1>8
      <4> QED
        BY <2>2, <4>1, <4>2, <1>2, <1>3, <1>4 DEF IInv, OverEstimate
    <3>2. ASSUME ~ Tracked(q)' PROVE seen'[q] <= spill
      BY <2>2, <3>2, <1>2, <1>4, <1>9 DEF IInv, OverEstimate
    <3> QED
      BY <3>1, <3>2
  <2> QED
    BY <2>1, <2>2
<1>14. Residue'
  <2> SUFFICES ASSUME NEW q \in Rows
               PROVE  /\ \A d \in Entries : FirstFor(d, q)' => unmitigated'[q] <= count'[d] % Rth
                      /\ ~ Tracked(q)' => unmitigated'[q] <= spill
    BY <1>2 DEF Residue
  <2>1. CASE q = r
    <3>1. unmitigated'[r] <= (spill + 1) % Rth
      <4>1. CASE fired'
        <5>1. unmitigated'[r] = 0
          BY <4>1 DEF Record, IInv, Counted, TypeOK
        <5>2. (spill + 1) % Rth \in 0..(Rth - 1)
          BY <1>2, NextRemainder
        <5> QED
          BY <5>1, <5>2, Sizing
      <4>2. CASE ~ fired'
        <5>1. unmitigated'[r] = unmitigated[r] + 1
          BY <4>2 DEF Record, IInv, Counted, TypeOK
        <5>2. (spill + 1) % Rth = (spill % Rth) + 1
          BY <4>2, <1>1, <1>2, NextRemainder DEF Crosses
        <5> QED
          BY <5>1, <5>2, <1>2, <1>3, <1>11, <1>12
      <4> QED
        BY <4>1, <4>2
    <3> QED
      BY <3>1, <2>1, <1>3, <1>7, <1>10
  <2>2. CASE q # r
    <3>1. ASSUME NEW d \in Entries, FirstFor(d, q)'
          PROVE  unmitigated'[q] <= count'[d] % Rth
      <4>1. d # e
        BY <2>2, <3>1, <1>3 DEF FirstFor
      <4>2. FirstFor(d, q) \/ (FirstFor(e, q) /\ spill = 0 /\ count[d] = 0)
        BY <2>2, <3>1, <1>8
      <4> QED
        BY <2>2, <4>1, <4>2, <1>2, <1>3, <1>4 DEF IInv, Residue
    <3>2. ASSUME ~ Tracked(q)' PROVE unmitigated'[q] <= spill
      BY <2>2, <3>2, <1>2, <1>4, <1>9, <1>12 DEF IInv, Residue
    <3> QED
      BY <3>1, <3>2
  <2> QED
    BY <2>1, <2>2
<1> QED
  BY <1>6, <1>13, <1>14

\* A spilled row has no entry, and the spill counter that stands for it moves.
LEMMA SpillTracking ==
  ASSUME IInv, NEW r \in Rows, Spill(r), Record(r)
  PROVE  DuplicatesUnused' /\ OverEstimate' /\ Residue'
<1>1. /\ spill \in Nat /\ spill' = spill + 1
      /\ track' = track /\ count' = count /\ fired' = FALSE
      /\ ~ Tracked(r)
  BY DEF Spill, IInv, Counted, TypeOK
<1>2. \A q \in Rows : /\ seen[q] \in Nat /\ unmitigated[q] \in Nat
                      /\ seen'[q] = IF q = r THEN seen[r] + 1 ELSE seen[q]
                      /\ unmitigated'[q] = IF q = r THEN unmitigated[r] + 1 ELSE unmitigated[q]
  BY <1>1 DEF IInv, Counted, TypeOK, Record
<1>3. /\ \A q \in Rows : Tracked(q)' <=> Tracked(q)
      /\ \A q \in Rows, d \in Entries : FirstFor(d, q)' <=> FirstFor(d, q)
      /\ \A q \in Rows, d \in Entries : FirstFor(d, q) => Tracked(q)
  BY <1>1 DEF Tracked, FirstFor
<1>4. DuplicatesUnused'
  BY <1>1 DEF DuplicatesUnused, IInv
<1>5. OverEstimate'
  BY <1>1, <1>2, <1>3 DEF OverEstimate, IInv
<1>6. Residue'
  BY <1>1, <1>2, <1>3 DEF Residue, IInv
<1> QED
  BY <1>4, <1>5, <1>6

\* The history of a whole period follows the history since the clearing.
LEMMA ActivatePeriod ==
  ASSUME TypeOK, PeriodResidue, NEW r \in Rows, Record(r)
  PROVE  PeriodResidue'
<1> DEFINE base == (Rth - 1) * clears
<1>1. base \in Nat /\ base' = base
  BY Sizing DEF TypeOK, Record
<1>2. \A q \in Rows : inPeriod[q] \in Nat /\ unmitigated[q] \in Nat /\ inPeriod[q] <= base + unmitigated[q]
  BY DEF TypeOK, PeriodResidue
<1> HIDE DEF base
<1>3. \A q \in Rows : inPeriod'[q] <= base + unmitigated'[q]
  BY <1>1, <1>2 DEF TypeOK, Record
<1> QED
  BY <1>1, <1>3 DEF PeriodResidue, base

\* Unmitigated activations stay below the threshold wherever the row is kept.
LEMMA ResidueBound == IInv => NoUnmitigatedRow
<1> SUFFICES ASSUME IInv, NEW r \in Rows PROVE unmitigated[r] < Rth
  BY DEF NoUnmitigatedRow
<1>1. spill < Rth /\ spill \in Nat /\ unmitigated[r] \in Nat /\ \A e \in Entries : count[e] \in Nat
  BY SpillBound DEF IInv, SpillBelowThreshold, Counted, TypeOK
<1>2. CASE Tracked(r)
  <2>1. \E e \in Entries : FirstFor(e, r)
    <3> DEFINE S == {e \in Entries : track[e] = r}
    <3>1. S \in SUBSET Entries /\ S # {}
      BY <1>2 DEF Tracked
    <3>2. \E e \in S : \A d \in S : e <= d
      BY <3>1, LeastEntry
    <3> QED
      BY <3>2, Sizing DEF FirstFor, Entries
  <2>2. PICK e \in Entries : FirstFor(e, r)
    BY <2>1
  <2>3. count[e] % Rth \in 0..(Rth - 1)
    BY <1>1, NextRemainder
  <2> QED
    BY <2>2, <2>3, <1>1, Sizing DEF IInv, Residue
<1>3. CASE ~ Tracked(r)
  BY <1>1, <1>3, Sizing DEF IInv, Residue
<1> QED
  BY <1>2, <1>3

\* A row that still has its promise to keep is below the threshold, so its
\* activations over the period are below one threshold per clearing.
LEMMA PeriodArithmetic == IInv => PeriodBound
<1> SUFFICES ASSUME IInv, NEW r \in Rows PROVE inPeriod[r] < Rth * (clears + 1)
  BY DEF PeriodBound
<1>1. /\ inPeriod[r] \in Nat /\ unmitigated[r] \in Nat /\ clears \in Nat
      /\ inPeriod[r] <= (Rth - 1) * clears + unmitigated[r]
      /\ unmitigated[r] < Rth
  BY ResidueBound DEF IInv, Counted, TypeOK, PeriodResidue, NoUnmitigatedRow
<1>2. (Rth - 1) * clears = Rth * clears - clears /\ Rth * (clears + 1) = Rth * clears + Rth
  BY <1>1, Sizing
<1>3. Rth * clears \in Nat
  BY <1>1, Sizing
<1> QED
  BY <1>1, <1>2, <1>3, Sizing

-----------------------------------------------------------------------------
(* The invariant. *)

LEMMA InitInvariant == Init => IInv
<1> SUFFICES ASSUME Init PROVE IInv
  OBVIOUS
<1>1. TypeOK
  <2>1. fired \in BOOLEAN
    BY Zenon DEF Init
  <2>2. track \in [Entries -> Rows]
    BY MisraGriesAssumption DEF Init
  <2> QED
    BY <2>1, <2>2, MisraGriesAssumption DEF Init, TypeOK
<1>2. Counting
  BY ClearedCounted DEF Init, Cleared
<1>3. PeriodResidue
  BY Sizing DEF Init, PeriodResidue
<1> QED
  BY <1>1, <1>2, <1>3 DEF IInv, Counted, Counting

\* A call of misraGries, whichever way it goes.
LEMMA ActivateInvariant ==
  ASSUME IInv, NEW r \in Rows, Activate(r)
  PROVE  IInv'
<1>1. Counted'
  BY ActivateCounted DEF IInv
<1>2. SpillBelowThreshold
  BY SpillBound DEF IInv
<1>3. DuplicatesUnused' /\ OverEstimate' /\ Residue'
  <2>1. CASE Hit(r)
    BY <2>1, HitTracking DEF Activate
  <2>2. CASE Replace(r)
    BY <2>2, <1>2, ReplaceTracking DEF Activate
  <2>3. CASE Spill(r)
    BY <2>3, SpillTracking DEF Activate
  <2> QED
    BY <2>1, <2>2, <2>3 DEF Activate
<1>4. PeriodResidue'
  BY ActivatePeriod DEF IInv, Counted, Activate
<1> QED
  BY <1>1, <1>3, <1>4 DEF IInv

\* Clearing the tables starts the counting again; only the row's history over
\* the period survives the clearing by update_memory.
LEMMA ClearInvariant == IInv /\ (EndPeriod \/ RefreshClear) => IInv'
<1> SUFFICES ASSUME IInv, EndPeriod \/ RefreshClear PROVE IInv'
  OBVIOUS
<1>1. /\ ClearTables
      /\ clears' \in 0..MaxClears
      /\ inPeriod' \in [Rows -> Nat]
  BY MisraGriesAssumption DEF EndPeriod, RefreshClear, ClearTables, IInv, Counted, TypeOK
<1>2. TypeOK'
  BY <1>1, MisraGriesAssumption DEF ClearTables, IInv, Counted, TypeOK
<1>3. Counting'
  <2>1. Cleared'
    BY <1>1 DEF ClearTables, Cleared
  <2> QED
    BY <2>1, ClearedCounted, PTL
<1>4. PeriodResidue'
  <2> SUFFICES ASSUME NEW r \in Rows
               PROVE  inPeriod'[r] <= (Rth - 1) * clears' + unmitigated'[r]
    BY DEF PeriodResidue
  <2>1. unmitigated'[r] = 0
    BY <1>1 DEF ClearTables
  <2>2. CASE EndPeriod
    BY <2>1, <2>2, Sizing DEF EndPeriod
  <2>3. CASE RefreshClear
    <3>1. /\ inPeriod[r] \in Nat /\ clears \in Nat /\ unmitigated[r] \in Nat
          /\ inPeriod[r] <= (Rth - 1) * clears + unmitigated[r]
          /\ unmitigated[r] < Rth
      BY ResidueBound DEF IInv, Counted, TypeOK, PeriodResidue, NoUnmitigatedRow
    <3>2. /\ (Rth - 1) * (clears + 1) = (Rth - 1) * clears + (Rth - 1)
          /\ (Rth - 1) * clears \in Nat
      BY <3>1, Sizing
    <3>3. inPeriod[r] <= (Rth - 1) * (clears + 1)
      BY <3>1, <3>2, Sizing
    <3>4. inPeriod'[r] = inPeriod[r] /\ clears' = clears + 1
      BY <2>3 DEF RefreshClear
    <3> QED
      BY <2>1, <3>1, <3>2, <3>3, <3>4, Sizing
  <2> QED
    BY <2>2, <2>3
<1> QED
  BY <1>2, <1>3, <1>4 DEF IInv, Counted, Counting

\* The inductive invariant holds in every reachable state of the tracker.
THEOREM Invariance == Spec => []IInv
<1>1. IInv /\ [Next]_vars => IInv'
  <2> SUFFICES ASSUME IInv, [Next]_vars PROVE IInv'
    OBVIOUS
  <2>1. ASSUME NEW r \in Rows, Activate(r) PROVE IInv'
    BY <2>1, ActivateInvariant
  <2>2. CASE EndPeriod \/ RefreshClear
    BY <2>2, ClearInvariant
  <2>3. CASE UNCHANGED vars
    BY <2>3 DEF vars, IInv, Counted, TypeOK, CountRange, Conservation, Units,
                DuplicatesUnused, OverEstimate, Residue, PeriodResidue, FirstFor, Tracked
  <2> QED
    BY <2>1, <2>2, <2>3 DEF Next
<1> QED
  BY <1>1, InitInvariant, PTL DEF Spec

-----------------------------------------------------------------------------
(* The results. *)

\* misraGries keeps its tables in their types, and every index in range.
THEOREM TypeCorrect == Spec => []TypeOK
BY Invariance, PTL DEF IInv, Counted

\* misraGries never under-counts a row, however often the row was evicted.
THEOREM NeverUnderCounts == Spec => []OverEstimate
BY Invariance, PTL DEF IInv

\* No activation is lost between the counters and the spill counter.
THEOREM ActivationsConserved == Spec => []Conservation
BY Invariance, PTL DEF IInv, Counted

\* The table size of init_scheduler_vars keeps spilling below the threshold.
THEOREM SpillNeverReachesThreshold == Spec => []SpillBelowThreshold
<1>1. IInv => SpillBelowThreshold
  BY SpillBound DEF IInv
<1> QED
  BY <1>1, Invariance, PTL

\* Between two clearings, no row reaches the threshold without a trigger.
THEOREM EveryRowMitigated == Spec => []NoUnmitigatedRow
BY ResidueBound, Invariance, PTL

\* Over a scheduler period a row escapes at most once more per clearing by
\* update_memory.
THEOREM PeriodBounded == Spec => []PeriodBound
BY PeriodArithmetic, Invariance, PTL

\* The tracker implements the promise the mitigation is built on.
THEOREM TrackerRefinement == Spec => ImplementsTracker
<1>1. Init => Promise!Init
  BY DEF Init, Promise!Init
<1>2. IInv /\ NoUnmitigatedRow' /\ [Next]_vars => [Promise!Next]_(Promise!vars)
  <2> SUFFICES ASSUME IInv, NoUnmitigatedRow', [Next]_vars
               PROVE  [Promise!Next]_(Promise!vars)
    OBVIOUS
  <2>1. ASSUME NEW r \in Rows, Activate(r) PROVE Promise!Fire(r) \/ Promise!Pass(r)
    <3>1. /\ unmitigated' = [unmitigated EXCEPT ![r] = IF fired' THEN 0 ELSE @ + 1]
          /\ unmitigated \in [Rows -> Nat]
      BY <2>1 DEF Activate, Record, IInv, Counted, TypeOK
    <3>2. CASE fired' = TRUE
      BY <3>1, <3>2 DEF Promise!Fire
    <3>3. CASE fired' = FALSE
      <4>1. unmitigated[r] + 1 < Rth
        BY <3>1, <3>3 DEF NoUnmitigatedRow
      <4> QED
        BY <3>1, <3>3, <4>1 DEF Promise!Pass
    <3>4. fired' \in BOOLEAN
      BY <2>1, ActivateTypes DEF IInv, Counted, TypeOK
    <3> QED
      BY <3>2, <3>3, <3>4
  <2>2. CASE EndPeriod \/ RefreshClear
    BY <2>2 DEF EndPeriod, RefreshClear, ClearTables, Promise!Next, Promise!Clear
  <2>3. CASE UNCHANGED vars
    BY <2>3 DEF vars, Promise!vars
  <2> QED
    BY <2>1, <2>2, <2>3 DEF Next, Promise!Next
<1> QED
  BY <1>1, <1>2, Invariance, EveryRowMitigated, PTL DEF Spec, ImplementsTracker, Promise!Spec

=============================================================================
