---------------------------- MODULE HydraProofs -----------------------------
(***************************************************************************)
(* Hydra keeps the promise of RowTracker with a slack of at most two, for  *)
(* any rows, spares, groups, channels and any threshold.  The invariant    *)
(* Tracking says how filter and counters lag behind the activations, and   *)
(* what the end of a period leaves of them while the channels clear the    *)
(* tables one after the other.                                             *)
(*                                                                         *)
(* First the row indirection table, for any rows and spares: Table is      *)
(* inductive, the pairs are two-way and between rows and spares, and they  *)
(* are what the history of the moves says.                                 *)
(***************************************************************************)
EXTENDS Hydra, FiniteSetTheorems, TLAPS

-----------------------------------------------------------------------------
(* The row indirection table. *)

Table == TypeOK /\ Paired /\ LastMovesHold

\* Rows are not spares, and no address is Unmapped.
LEMMA Disjoint ==
  /\ Rows \cap Spares = {}
  /\ Unmapped \notin Addresses
  /\ \A a \in Addresses : a \in Nat
  BY RowIndirectionAssumption DEF Spares, Addresses, Unmapped

\* The head of the queue of spares is a spare, and stays one.
LEMMA HeadIsSpare ==
  ASSUME TypeOK
  PROVE  spareaddress \in Spares /\ NextHead \in 0..(SPAREROWS - 1)
  BY RowIndirectionAssumption DEF TypeOK, spareaddress, Spares, NextHead

\* The table starts empty.
LEMMA InitTable == Init => Table
<1> SUFFICES ASSUME Init PROVE Table
  OBVIOUS
<1>1. TypeOK
  <2>1. headpointer \in 0..(SPAREROWS - 1) /\ moves \in 0..2
    BY RowIndirectionAssumption DEF Init
  <2>2. /\ mapping \in [Addresses -> Addresses \cup {Unmapped}]
        /\ last \in [Spares -> Rows \cup {Unmapped}]
        /\ home \in [Rows -> Spares \cup {Unmapped}]
    BY DEF Init
  <2> QED BY <2>1, <2>2 DEF TypeOK
<1>2. Paired
  BY DEF Init, Paired
<1>3. LastMovesHold
  BY DEF Init, LastMovesHold, Addresses
<1> QED BY <1>1, <1>2, <1>3 DEF Table

\* The table of the row's own mitigation: what its old spare, the row that is
\* evicted, and every other address point to afterwards.
LEMMA TableAfter ==
  ASSUME Table, NEW row \in Rows, rqidealRIT(row)
  PROVE  /\ mapping' \in [Addresses -> Addresses \cup {Unmapped}]
         /\ mapping'[row] = spareaddress
         /\ mapping'[spareaddress] = row
         /\ \A a \in Addresses \ {row, spareaddress} :
              mapping'[a] = IF mapping[a] \in {row, spareaddress}
                            THEN Unmapped ELSE mapping[a]
         /\ moves' = IF mapping[spareaddress] \in {row, Unmapped} THEN 1 ELSE 2
<1> DEFINE s == spareaddress
           m == Unpaired(mapping, row)
<1>1. /\ s \in Spares /\ s \in Addresses /\ row \in Addresses /\ s # row
      /\ Unmapped \notin Addresses
  BY HeadIsSpare, Disjoint DEF Table, Addresses
<1>2. /\ mapping \in [Addresses -> Addresses \cup {Unmapped}]
      /\ Paired
  BY DEF Table, TypeOK
<1>3. /\ m \in [Addresses -> Addresses \cup {Unmapped}]
      /\ m[row] = Unmapped
      /\ \A a \in Addresses \ {row} :
           m[a] = IF mapping[a] = row THEN Unmapped ELSE mapping[a]
  <2>1. CASE mapping[row] = Unmapped
    <3>1. \A a \in Addresses : mapping[a] # row
      BY <1>1, <1>2, <2>1 DEF Paired
    <3> QED BY <1>1, <1>2, <2>1, <3>1 DEF Unpaired
  <2>2. CASE mapping[row] # Unmapped
    <3>1. \A a \in Addresses : mapping[a] = row <=> a = mapping[row]
      BY <1>1, <1>2, <2>2 DEF Paired
    <3>2. m = [mapping EXCEPT ![mapping[row]] = Unmapped, ![row] = Unmapped]
      BY <2>2 DEF Unpaired
    <3> QED BY <1>1, <1>2, <2>2, <3>1, <3>2
  <2> QED BY <2>1, <2>2
<1>4. m[s] = Unmapped <=> mapping[s] \in {row, Unmapped}
  BY <1>1, <1>3
<1> DEFINE w == Evicted(m, s)
<1>5. /\ w \in [Addresses -> Addresses \cup {Unmapped}]
      /\ \A a \in Addresses \ {row, s} :
           w[a] = IF mapping[a] \in {row, s} THEN Unmapped ELSE mapping[a]
  <2>1. CASE m[s] = Unmapped
    <3>1. \A a \in Addresses \ {row, s} : mapping[a] # s
      BY <1>1, <1>2, <1>4, <2>1 DEF Paired
    <3>2. w = m
      BY <2>1 DEF Evicted
    <3> QED BY <1>1, <1>3, <3>1, <3>2
  <2>2. CASE m[s] # Unmapped
    <3>1. m[s] = mapping[s] /\ mapping[s] \in Addresses /\ mapping[s] # row
      BY <1>1, <1>2, <1>3, <2>2
    <3>2. \A a \in Addresses : mapping[a] = s <=> a = mapping[s]
      BY <1>1, <1>2, <3>1 DEF Paired
    <3>3. w = [m EXCEPT ![mapping[s]] = Unmapped]
      BY <2>2, <3>1 DEF Evicted
    <3> QED BY <1>1, <1>3, <3>1, <3>2, <3>3
  <2> QED BY <2>1, <2>2
<1>6. /\ mapping' = [w EXCEPT ![row] = s, ![s] = row]
      /\ moves' = IF m[s] = Unmapped THEN 1 ELSE 2
  BY DEF rqidealRIT
<1> HIDE DEF s, m, w
<1> QED BY <1>1, <1>4, <1>5, <1>6 DEF s

\* A mitigation keeps the table right.
LEMMA StepTable ==
  ASSUME Table, NEW row \in Rows, rqidealRIT(row)
  PROVE  Table'
<1> DEFINE s == spareaddress
<1>1. /\ s \in Spares /\ row \notin Spares /\ s \notin Rows
      /\ Rows \subseteq Addresses /\ Spares \subseteq Addresses
      /\ Unmapped \notin Addresses
  BY HeadIsSpare, Disjoint DEF Table, Addresses
<1>2. /\ last' = [last EXCEPT ![s] = row]
      /\ home' = [home EXCEPT ![row] = s]
      /\ headpointer' = NextHead
  BY DEF rqidealRIT
<1>3. TypeOK'
  <2>1. moves' \in 0..2
    BY TableAfter
  <2>2. headpointer' \in 0..(SPAREROWS - 1)
    BY <1>2, HeadIsSpare DEF Table
  <2>3. /\ last' \in [Spares -> Rows \cup {Unmapped}]
        /\ home' \in [Rows -> Spares \cup {Unmapped}]
    BY <1>1, <1>2 DEF Table, TypeOK
  <2> QED BY <2>1, <2>2, <2>3, TableAfter DEF TypeOK
<1>4. Paired'
  <2> SUFFICES ASSUME NEW a \in Addresses, mapping'[a] # Unmapped
               PROVE  /\ mapping'[a] \in Addresses
                      /\ mapping'[mapping'[a]] = a
                      /\ a \in Rows <=> mapping'[a] \in Spares
    BY DEF Paired
  <2>1. CASE a = row
    BY <1>1, <2>1, TableAfter
  <2>2. CASE a = s
    BY <1>1, <2>2, TableAfter
  <2>3. CASE a \notin {row, s}
    <3>1. mapping'[a] = mapping[a] /\ mapping[a] \notin {row, s, Unmapped}
      BY <2>3, TableAfter
    <3>2. /\ mapping[a] \in Addresses
          /\ mapping[mapping[a]] = a
          /\ a \in Rows <=> mapping[a] \in Spares
      BY <3>1 DEF Table, Paired
    <3> QED BY <2>3, <3>1, <3>2, <1>1, TableAfter
  <2> QED BY <2>1, <2>2, <2>3
<1>5. LastMovesHold'
  <2> SUFFICES ASSUME NEW r \in Rows
               PROVE  mapping'[r] = IF home'[r] # Unmapped /\ last'[home'[r]] = r
                                    THEN home'[r] ELSE Unmapped
    BY DEF LastMovesHold
  <2>0. /\ last \in [Spares -> Rows \cup {Unmapped}]
        /\ home \in [Rows -> Spares \cup {Unmapped}]
    BY DEF Table, TypeOK
  <2>1. CASE r = row
    BY <1>1, <1>2, <2>0, <2>1, TableAfter
  <2>2. CASE r # row
    <3>1. mapping[r] = IF home[r] # Unmapped /\ last[home[r]] = r
                       THEN home[r] ELSE Unmapped
      BY DEF Table, LastMovesHold
    <3>2. home'[r] = home[r] /\ mapping[r] # row
      BY <1>1, <1>2, <2>0, <2>2, <3>1
    <3>3. CASE mapping[r] = s
      <4>1. home[r] = s /\ mapping'[r] = Unmapped /\ last'[s] = row
        BY <1>1, <1>2, <2>0, <2>2, <3>1, <3>3, TableAfter
      <4> QED BY <2>2, <3>2, <4>1
    <3>4. CASE mapping[r] # s
      <4>1. mapping'[r] = mapping[r]
        BY <1>1, <2>2, <3>2, <3>4, TableAfter
      <4>2. CASE home[r] = s
        BY <1>1, <1>2, <2>0, <2>2, <3>1, <3>2, <3>4, <4>1, <4>2
      <4>3. CASE home[r] # s
        BY <1>1, <1>2, <2>0, <3>1, <3>2, <4>1, <4>3
      <4> QED BY <4>2, <4>3
    <3> QED BY <3>3, <3>4
  <2> QED BY <2>1, <2>2
<1> QED BY <1>3, <1>4, <1>5 DEF Table

\* A call evicts the row it finds at the head, unless that is the row itself.
LEMMA StepCharge ==
  ASSUME Table, NEW row \in Rows, rqidealRIT(row)
  PROVE  moves' = 1 + Cardinality(Evictions)
<1> DEFINE s == spareaddress
           held == mapping[s]
<1>1. /\ s \in Spares /\ s \in Addresses /\ s \notin Rows
      /\ Rows \subseteq Addresses /\ Unmapped \notin Addresses
  BY HeadIsSpare, Disjoint DEF Table, Addresses
<1>2. held \in Rows \cup {Unmapped}
  <2>1. held # Unmapped => held \in Addresses /\ held \notin Spares
    BY <1>1 DEF Table, Paired
  <2> QED BY <2>1 DEF Addresses
<1>3. \A r \in Rows \ {row} : mapping[r] # row
  <2>1. \A r \in Rows : mapping[r] # Unmapped => mapping[r] \in Spares
    BY <1>1 DEF Table, Paired
  <2> QED BY <2>1, Disjoint DEF Addresses
<1>4. \A r \in Rows : r \in Evictions <=> r = held /\ r # row
  <2>1. ASSUME NEW r \in Rows, r # row
        PROVE  r \in Evictions <=> mapping[r] = s
    BY <1>1, <1>3, <2>1, TableAfter DEF Evictions
  <2>2. row \notin Evictions
    BY <1>1, TableAfter DEF Evictions
  <2>3. ASSUME NEW r \in Rows
        PROVE  mapping[r] = s <=> r = held
    BY <1>1, <2>3 DEF Table, Paired
  <2> QED BY <2>1, <2>2, <2>3
<1>5. CASE held \in {row, Unmapped}
  <2>1. Evictions = {}
    BY <1>1, <1>4, <1>5 DEF Evictions
  <2> QED BY <1>5, <2>1, TableAfter, FS_EmptySet
<1>6. CASE held \notin {row, Unmapped}
  <2>1. Evictions = {held}
    BY <1>2, <1>4, <1>6 DEF Evictions
  <2> QED BY <1>6, <2>1, TableAfter, FS_Singleton
<1> QED BY <1>5, <1>6

\* The invariant of the table.
THEOREM TableInvariant == Spec => []Table
<1>1. Init => Table
  BY InitTable
<1>2. Table /\ [Next]_vars => Table'
  <2> SUFFICES ASSUME Table, [Next]_vars PROVE Table'
    OBVIOUS
  <2>1. CASE Next
    BY <2>1, StepTable DEF Next
  <2>2. CASE UNCHANGED vars
    BY <2>2 DEF vars, Table, TypeOK, Paired, LastMovesHold
  <2> QED BY <2>1, <2>2
<1> QED BY <1>1, <1>2, PTL DEF Spec

\* rqidealRIT keeps its tables well-formed.
THEOREM TableTypes == Spec => []TypeOK
  BY TableInvariant, PTL DEF Table

\* No two rows ever share a spare, and no pair is one-way.
THEOREM NoSharedSpare == Spec => []Paired
  BY TableInvariant, PTL DEF Table

\* The table is the history of the moves.
THEOREM MovesRemembered == Spec => []LastMovesHold
  BY TableInvariant, PTL DEF Table

\* The delay that schedule_fcfs charges is the number of rows that are moved.
THEOREM ChargeIsExact == Spec => MovesCharged
<1>1. Table /\ [Next]_vars => [moves' = 1 + Cardinality(Evictions)]_vars
  BY StepCharge DEF Next
<1> QED BY <1>1, TableInvariant, PTL DEF Spec, MovesCharged

-----------------------------------------------------------------------------
(* Filter and counters. *)

\* The types alone, without the capacity of the counter cache.
CounterTypes ==
  /\ cra_filter \in [Groups -> Nat]
  /\ actcnt \in [Addresses -> Nat]
  /\ unmitigated \in [Addresses -> Nat]
  /\ turn \in Channels /\ ends \in BOOLEAN /\ cleared \in BOOLEAN
  /\ fired \in BOOLEAN

\* No filter entry counts past its share.
FilterBound == \A g \in Groups : cra_filter[g] <= CounterStart + Fraction

\* Only places whose group has used up its share have a counter.
HandedOver == \A l \in Addresses : actcnt[l] # 0 => ~ Filtered(Group[l])

\* From the first clearing at the end of a period to the end of its cycle: a
\* place has been activated at most once, by a row of an earlier channel, which
\* is still there.
EndOfPeriod ==
  ends /\ (turn > 0 \/ cleared) =>
    /\ \A l \in Addresses : unmitigated[l] <= 1
    /\ turn = 0 => \A l \in Addresses : unmitigated[l] = 0
    /\ \A r \in Rows : unmitigated[r] > 0 => Channel[r] < turn
    /\ \A s \in Spares : unmitigated[s] > 0 /\ mapping[s] # Unmapped =>
         Channel[mapping[s]] < turn

Tracking ==
  /\ Table
  /\ CounterTypes
  /\ FilterBound
  /\ HandedOver
  /\ NeverFarBehind
  /\ EndOfPeriod

-----------------------------------------------------------------------------
(* Arithmetic of the threshold. *)

\* The constants are what they should be.
LEMMA Constants ==
  /\ Rth \in Nat \ {0} /\ CounterStart \in Nat /\ CounterStart < Rth
  /\ Fraction \in {0, 1} /\ Lost \in {0, 1}
  /\ CRA_FILTER_THRESHOLD_PERC * Rth \in Nat
<1>1. Rth \in Nat \ {0}
  BY HydraAssumption DEF Rth
<1>2. CRA_FILTER_THRESHOLD_PERC \in 0..99
  BY HydraAssumption
<1> DEFINE X == CRA_FILTER_THRESHOLD_PERC * Rth
<1>3. X \in Nat /\ X < 100 * Rth
  BY <1>1, <1>2
<1>4. X \div 100 \in Nat /\ X \div 100 < Rth
  <2> HIDE DEF X
  <2> QED BY <1>1, <1>3
<1>5. CounterStart \in Nat /\ CounterStart < Rth
  BY <1>4 DEF CounterStart
<1> QED
  BY <1>1, <1>3, <1>5 DEF Fraction, Lost

\* A filter entry below its share is not above it after one more.
LEMMA OneMore ==
  ASSUME NEW f \in Nat, f * 100 < CRA_FILTER_THRESHOLD_PERC * Rth
  PROVE  f + 1 <= CounterStart + Fraction
<1> DEFINE X == CRA_FILTER_THRESHOLD_PERC * Rth
<1>1. X \in Nat /\ f * 100 < X
  BY Constants
<1>2. f + 1 <= X \div 100 + (IF X % 100 = 0 THEN 0 ELSE 1)
  <2> HIDE DEF X
  <2> QED BY <1>1
<1> QED
  BY <1>2 DEF CounterStart, Fraction

-----------------------------------------------------------------------------
(* The indirection table. *)

\* A place is an address; it is the row itself or the spare that points back to it.
LEMMA Places ==
  ASSUME Table, NEW row \in Rows
  PROVE  /\ Place(row) \in Addresses
         /\ \/ Place(row) = row
            \/ Place(row) \in Spares /\ mapping[Place(row)] = row
  BY Disjoint DEF Table, TypeOK, Paired, Place, Addresses

\* Two rows at one place are one row.
LEMMA PlacesDiffer == Table => OneRowPerPlace
<1> SUFFICES ASSUME Table, NEW r \in Rows, NEW q \in Rows, Place(r) = Place(q)
             PROVE  r = q
  BY DEF OneRowPerPlace
<1> QED
  BY Places, Disjoint

\* Every step of hydra() leaves the table alone or moves one row.
LEMMA TableSteps == [HydraNext]_hydraVars => [Next]_vars
<1> SUFFICES ASSUME [HydraNext]_hydraVars PROVE [Next]_vars
  OBVIOUS
<1>1. ASSUME NEW row \in Rows, Activate(row) PROVE [Next]_vars
  BY <1>1 DEF Activate, hydra, Remap, Next
<1>2. CASE Pass
  BY <1>2 DEF Pass
<1>3. CASE resetCC
  BY <1>3 DEF resetCC
<1>4. CASE UNCHANGED hydraVars
  BY <1>4 DEF hydraVars
<1> QED
  BY <1>1, <1>2, <1>3, <1>4 DEF HydraNext

-----------------------------------------------------------------------------
(* One call of hydra(). *)

\* The types after a call.
LEMMA CallTypes ==
  ASSUME Tracking, NEW row \in Rows, hydra(row)
  PROVE  /\ cra_filter' \in [Groups -> Nat]
         /\ actcnt' \in [Addresses -> Nat]
         /\ unmitigated' \in [Addresses -> Nat]
         /\ fired' \in BOOLEAN
<1> DEFINE l == Place(row)
<1>1. l \in Addresses
  BY Places DEF Tracking
<1>2. Group[l] \in Groups
  BY <1>1, HydraAssumption
<1>3. CounterTypes
  BY DEF Tracking
<1>4. unmitigated' = [unmitigated EXCEPT ![l] = IF fired' THEN 0 ELSE @ + 1]
  BY DEF hydra
<1> DEFINE n == IF fired' THEN 0 ELSE unmitigated[l] + 1
           f == cra_filter[Group[l]] + 1
<1>5. unmitigated' \in [Addresses -> Nat]
  <2>1. n \in Nat
    BY <1>1, <1>3 DEF CounterTypes
  <2>2. unmitigated' = [unmitigated EXCEPT ![l] = n]
    BY <1>4
  <2> HIDE DEF n
  <2> QED
    BY <1>3, <2>1, <2>2 DEF CounterTypes
<1>6. CASE FilterHit(l)
  <2>1. f \in Nat
    BY <1>2, <1>3 DEF CounterTypes
  <2>2. /\ cra_filter' = [cra_filter EXCEPT ![Group[l]] = f]
        /\ actcnt' = actcnt /\ fired' = FALSE
    BY <1>6 DEF FilterHit
  <2> HIDE DEF f
  <2>3. cra_filter' \in [Groups -> Nat]
    BY <1>3, <2>1, <2>2 DEF CounterTypes
  <2> QED
    BY <1>3, <1>5, <2>2, <2>3 DEF CounterTypes
<1>7. CASE Count(row, l)
  <2>1. Counted(l) \in Nat
    BY <1>1, <1>3, Constants DEF Counted, CounterTypes
  <2>2. fired' \in BOOLEAN
    BY <1>7 DEF Count, Triggered
  <2>3. actcnt' = [actcnt EXCEPT ![l] = IF fired' THEN 1 ELSE Counted(l)]
    BY <1>7 DEF Count
  <2>4. actcnt' \in [Addresses -> Nat]
    BY <1>3, <2>1, <2>3 DEF CounterTypes
  <2> QED
    BY <1>3, <1>7, <1>5, <2>2, <2>4 DEF Count, CounterTypes
<1> QED
  BY <1>6, <1>7 DEF hydra

\* A call on a group that is below its share.
LEMMA FilterCall ==
  ASSUME Tracking, NEW l \in Addresses, FilterHit(l),
         unmitigated' = [unmitigated EXCEPT ![l] = IF fired' THEN 0 ELSE @ + 1]
  PROVE  FilterBound' /\ HandedOver' /\ NeverFarBehind'
<1> DEFINE g == Group[l]
<1>1. g \in Groups
  BY HydraAssumption
<1>2. /\ CounterTypes /\ FilterBound /\ HandedOver /\ NeverFarBehind
  BY DEF Tracking
<1>3. /\ cra_filter' = [cra_filter EXCEPT ![g] = @ + 1]
      /\ actcnt' = actcnt
      /\ unmitigated' = [unmitigated EXCEPT ![l] = @ + 1]
      /\ cra_filter[g] * 100 < CRA_FILTER_THRESHOLD_PERC * Rth
  BY DEF FilterHit, Filtered
<1>4. actcnt[l] = 0
  BY <1>2 DEF HandedOver, FilterHit
<1>5. FilterBound'
  <2>1. cra_filter[g] + 1 <= CounterStart + Fraction
    BY <1>1, <1>2, <1>3, OneMore DEF CounterTypes
  <2>2. \A k \in Groups : cra_filter'[k] <= CounterStart + Fraction
    BY <1>1, <1>2, <1>3, <2>1 DEF FilterBound, CounterTypes
  <2> QED
    BY <2>2 DEF FilterBound
<1>6. HandedOver'
  <2> SUFFICES ASSUME NEW k \in Addresses, actcnt'[k] # 0
               PROVE  ~ (cra_filter'[Group[k]] * 100 < CRA_FILTER_THRESHOLD_PERC * Rth)
    BY DEF HandedOver, Filtered
  <2>1. ~ (cra_filter[Group[k]] * 100 < CRA_FILTER_THRESHOLD_PERC * Rth)
    BY <1>2, <1>3 DEF HandedOver, Filtered
  <2>2. Group[k] # g
    BY <1>3, <2>1
  <2> QED
    BY <1>2, <1>3, <2>1, <2>2, HydraAssumption DEF CounterTypes
<1>7. NeverFarBehind'
  <2> SUFFICES ASSUME NEW k \in Addresses
               PROVE  unmitigated'[k] <= (IF actcnt'[k] = 0 THEN cra_filter'[Group[k]]
                                          ELSE actcnt'[k] + Fraction) + Lost
    BY DEF NeverFarBehind
  <2>1. unmitigated[k] <= (IF actcnt[k] = 0 THEN cra_filter[Group[k]]
                                             ELSE actcnt[k] + Fraction) + Lost
    BY <1>2 DEF NeverFarBehind
  <2>2. /\ Group[k] \in Groups
        /\ cra_filter[Group[k]] \in Nat /\ actcnt[k] \in Nat /\ unmitigated[k] \in Nat
    BY <1>2, HydraAssumption DEF CounterTypes
  <2>3. cra_filter'[Group[k]] = IF Group[k] = g THEN cra_filter[Group[k]] + 1
                                                ELSE cra_filter[Group[k]]
    BY <1>2, <1>3, <2>2 DEF CounterTypes
  <2>4. unmitigated'[k] = IF k = l THEN unmitigated[k] + 1 ELSE unmitigated[k]
    BY <1>2, <1>3 DEF CounterTypes
  <2> QED
    BY <1>3, <1>4, <2>1, <2>2, <2>3, <2>4, Constants
<1> QED
  BY <1>5, <1>6, <1>7

\* A call on a place that has a counter of its own, or gets it.
LEMMA CounterCall ==
  ASSUME Tracking, NEW row \in Rows, NEW l \in Addresses, Count(row, l),
         unmitigated' = [unmitigated EXCEPT ![l] = IF fired' THEN 0 ELSE @ + 1]
  PROVE  FilterBound' /\ HandedOver' /\ NeverFarBehind'
<1>1. /\ CounterTypes /\ FilterBound /\ HandedOver /\ NeverFarBehind
  BY DEF Tracking
<1>2. /\ cra_filter' = cra_filter
      /\ actcnt' = [actcnt EXCEPT ![l] = IF fired' THEN 1 ELSE Counted(l)]
      /\ ~ Filtered(Group[l])
  BY DEF Count
<1>3. FilterBound'
  BY <1>1, <1>2 DEF FilterBound
<1>4. HandedOver'
  BY <1>1, <1>2 DEF HandedOver, Filtered, CounterTypes
<1>5. NeverFarBehind'
  <2> SUFFICES ASSUME NEW k \in Addresses
               PROVE  unmitigated'[k] <= (IF actcnt'[k] = 0 THEN cra_filter'[Group[k]]
                                          ELSE actcnt'[k] + Fraction) + Lost
    BY DEF NeverFarBehind
  <2>1. unmitigated[k] <= (IF actcnt[k] = 0 THEN cra_filter[Group[k]]
                                             ELSE actcnt[k] + Fraction) + Lost
    BY <1>1 DEF NeverFarBehind
  <2>2. /\ Group[k] \in Groups
        /\ cra_filter[Group[k]] \in Nat /\ actcnt[k] \in Nat /\ unmitigated[k] \in Nat
        /\ cra_filter[Group[k]] <= CounterStart + Fraction
    BY <1>1, HydraAssumption DEF CounterTypes, FilterBound
  <2>3. CASE k # l
    BY <1>1, <1>2, <2>1, <2>3 DEF CounterTypes
  <2>4. CASE k = l /\ fired'
    <3>1. unmitigated'[k] = 0 /\ actcnt'[k] = 1
      BY <1>1, <1>2, <2>4 DEF CounterTypes
    <3> QED
      BY <3>1, Constants
  <2>5. CASE k = l /\ ~ fired'
    <3>1. /\ unmitigated'[k] = unmitigated[k] + 1
          /\ actcnt'[k] = (IF actcnt[k] = 0 THEN CounterStart ELSE actcnt[k]) + 1
      BY <1>1, <1>2, <2>5 DEF CounterTypes, Counted
    <3> QED
      BY <2>1, <2>2, <3>1, Constants
  <2> QED
    BY <2>3, <2>4, <2>5
<1> QED
  BY <1>3, <1>4, <1>5

-----------------------------------------------------------------------------
(* The end of a period. *)

\* Turns are numbers, and the next one is the next number or the first.
LEMMA Turns ==
  ASSUME CounterTypes, NextTurn
  PROVE  /\ turn \in Nat /\ turn' \in Channels
         /\ turn' > 0 => turn' = turn + 1 /\ ends' = ends
         /\ ends' \in BOOLEAN /\ cleared' = FALSE
<1>1. NUM_CHANNELS \in Nat \ {0}
  BY HydraAssumption
<1>2. turn \in 0..(NUM_CHANNELS - 1)
  BY DEF CounterTypes, Channels
<1>3. turn' = (turn + 1) % NUM_CHANNELS
  BY DEF NextTurn
<1>4. turn' \in 0..(NUM_CHANNELS - 1) /\ (turn' > 0 => turn' = turn + 1)
  <2>1. CASE turn = NUM_CHANNELS - 1
    BY <1>1, <1>2, <1>3, <2>1
  <2>2. CASE turn + 1 < NUM_CHANNELS
    BY <1>1, <1>2, <1>3, <2>2
  <2> QED
    BY <1>1, <1>2, <2>1, <2>2
<1>5. ends' \in IF turn' = 0 THEN BOOLEAN ELSE {ends}
  BY DEF NextTurn
<1>6. ends' \in BOOLEAN
  <2>1. ends \in BOOLEAN
    BY DEF CounterTypes
  <2>2. CASE turn' = 0
    BY <1>5, <2>2
  <2>3. CASE turn' # 0
    BY <1>5, <2>1, <2>3
  <2> QED
    BY <2>2, <2>3
<1>7. turn' > 0 => ends' = ends
  <2>1. turn' > 0 => turn' # 0
    BY <1>4
  <2> QED
    BY <1>5, <2>1
<1> QED
  BY <1>2, <1>4, <1>6, <1>7 DEF Channels, NextTurn

\* A spare that is taken is taken by a row.
LEMMA SpareOfRow ==
  ASSUME Table, NEW s \in Spares, mapping[s] # Unmapped
  PROVE  mapping[s] \in Rows
<1>1. s \in Addresses /\ s \notin Rows
  BY Disjoint DEF Addresses
<1>2. mapping[s] \in Addresses /\ mapping[s] \notin Spares
  BY <1>1 DEF Table, Paired
<1> QED
  BY <1>2 DEF Addresses

\* Channels are numbers.
LEMMA ChannelOf == \A r \in Rows : Channel[r] \in Nat
  BY HydraAssumption DEF Channels

\* A channel that counts an activation after it has cleared the tables does so
\* at a place that nobody has activated since the period ended.
LEMMA EndOfPeriodCall ==
  ASSUME Tracking, NEW row \in Rows, Activate(row)
  PROVE  EndOfPeriod'
<1> DEFINE l == Place(row)
<1>1. /\ Table /\ CounterTypes /\ EndOfPeriod
      /\ l \in Addresses
      /\ l = row \/ (l \in Spares /\ mapping[l] = row)
  BY Places DEF Tracking
<1>2. /\ Channel[row] = turn /\ NextTurn /\ hydra(row)
      /\ ends => cleared
  BY DEF Activate
<1> SUFFICES ASSUME ends', turn' > 0 \/ cleared'
             PROVE  /\ \A k \in Addresses : unmitigated'[k] <= 1
                    /\ turn' = 0 => \A k \in Addresses : unmitigated'[k] = 0
                    /\ \A r \in Rows : unmitigated'[r] > 0 => Channel[r] < turn'
                    /\ \A s \in Spares : unmitigated'[s] > 0 /\ mapping'[s] # Unmapped =>
                         Channel[mapping'[s]] < turn'
  BY DEF EndOfPeriod
<1>3. turn' > 0 /\ turn' = turn + 1 /\ turn \in Nat /\ ends /\ cleared
  BY <1>1, <1>2, Turns
<1>4. /\ \A k \in Addresses : unmitigated[k] \in Nat /\ unmitigated[k] <= 1
      /\ \A r \in Rows : unmitigated[r] > 0 => Channel[r] < turn
      /\ \A s \in Spares : unmitigated[s] > 0 /\ mapping[s] # Unmapped =>
           Channel[mapping[s]] < turn
  BY <1>1, <1>3 DEF EndOfPeriod, CounterTypes
<1>5. unmitigated[l] = 0
  <2>1. CASE l = row
    BY <1>1, <1>2, <1>3, <1>4, <2>1
  <2>2. CASE l \in Spares /\ mapping[l] = row
    <3>1. row # Unmapped
      BY Disjoint DEF Addresses
    <3> QED
      BY <1>1, <1>2, <1>3, <1>4, <2>2, <3>1
  <2> QED
    BY <1>1, <2>1, <2>2
<1>6. /\ fired' \in BOOLEAN
      /\ unmitigated'[l] = IF fired' THEN 0 ELSE 1
      /\ \A k \in Addresses \ {l} : unmitigated'[k] = unmitigated[k]
  <2>1. unmitigated' = [unmitigated EXCEPT ![l] = IF fired' THEN 0 ELSE @ + 1]
    BY <1>2 DEF hydra
  <2>2. fired' \in BOOLEAN
    BY <1>2, CallTypes
  <2> QED
    BY <1>1, <1>5, <2>1, <2>2 DEF CounterTypes
<1>7. \A k \in Addresses : unmitigated'[k] <= 1
  BY <1>4, <1>6
<1>8. ASSUME NEW r \in Rows, unmitigated'[r] > 0
      PROVE  Channel[r] < turn'
  <2>1. CASE r = l
    <3>1. r = row
      BY <1>1, <2>1, Disjoint
    <3> QED
      BY <1>2, <1>3, <3>1
  <2>2. CASE r # l
    BY <1>3, <1>4, <1>6, <1>8, <2>2, ChannelOf DEF Addresses
  <2> QED
    BY <2>1, <2>2
<1>9. ASSUME NEW s \in Spares, unmitigated'[s] > 0, mapping'[s] # Unmapped
      PROVE  Channel[mapping'[s]] < turn'
  <2>1. s \in Addresses
    BY DEF Addresses
  <2>2. ASSUME mapping'[s] = mapping[s], s # l
        PROVE  Channel[mapping'[s]] < turn'
    <3>1. Channel[mapping[s]] < turn
      BY <1>4, <1>6, <1>9, <2>1, <2>2
    <3>2. Channel[mapping[s]] \in Nat
      BY <1>1, <1>9, <2>2, SpareOfRow, ChannelOf
    <3> QED
      BY <1>3, <2>2, <3>1, <3>2
  <2>3. CASE fired' /\ RQENABLE
    <3>1. rqidealRIT(row)
      BY <1>2, <2>3 DEF hydra, Remap
    <3>2. s # l
      BY <1>6, <1>9, <2>3
    <3>3. CASE s = spareaddress
      <4>1. mapping'[s] = row
        BY <1>1, <3>1, <3>3, TableAfter
      <4> QED
        BY <1>2, <1>3, <4>1
    <3>4. CASE s # spareaddress
      <4>1. s # row
        BY Disjoint
      <4>2. mapping'[s] = IF mapping[s] \in {row, spareaddress} THEN Unmapped ELSE mapping[s]
        BY <1>1, <2>1, <3>1, <3>4, <4>1, TableAfter
      <4> QED
        BY <1>9, <2>2, <3>2, <4>2
    <3> QED
      BY <3>3, <3>4
  <2>4. CASE ~ (fired' /\ RQENABLE)
    <3>1. mapping' = mapping
      BY <1>2, <2>4 DEF hydra, Remap, vars
    <3>2. CASE s = l
      <4>1. mapping'[s] = row
        BY <1>1, <3>1, <3>2, Disjoint
      <4> QED
        BY <1>2, <1>3, <4>1
    <3> QED
      BY <2>2, <3>1, <3>2
  <2> QED
    BY <2>3, <2>4
<1> QED
  BY <1>3, <1>7, <1>8, <1>9

-----------------------------------------------------------------------------
(* The invariant. *)

\* Before the first cycle nothing is counted.
LEMMA InitTracking == HydraInit => Tracking
<1> SUFFICES ASSUME HydraInit PROVE Tracking
  OBVIOUS
<1>1. Table
  BY InitTable DEF HydraInit
<1>2. 0 \in Channels
  BY HydraAssumption DEF Channels
<1>3. CounterTypes
  BY <1>2 DEF HydraInit, CounterTypes
<1>4. FilterBound /\ HandedOver /\ EndOfPeriod
  BY Constants DEF HydraInit, FilterBound, HandedOver, EndOfPeriod
<1>5. NeverFarBehind
  <2> SUFFICES ASSUME NEW l \in Addresses
               PROVE  unmitigated[l] <= (IF actcnt[l] = 0 THEN cra_filter[Group[l]]
                                         ELSE actcnt[l] + Fraction) + Lost
    BY DEF NeverFarBehind
  <2>1. unmitigated[l] = 0 /\ actcnt[l] = 0 /\ cra_filter[Group[l]] = 0
    BY HydraAssumption DEF HydraInit
  <2> QED
    BY <2>1, Constants
<1> QED
  BY <1>1, <1>3, <1>4, <1>5 DEF Tracking

\* A channel counts an activation.
LEMMA ActivateTracking ==
  ASSUME Tracking, Table', NEW row \in Rows, Activate(row)
  PROVE  Tracking'
<1> DEFINE l == Place(row)
<1>1. l \in Addresses
  BY Places DEF Tracking
<1>2. /\ hydra(row) /\ NextTurn
      /\ unmitigated' = [unmitigated EXCEPT ![l] = IF fired' THEN 0 ELSE @ + 1]
      /\ FilterHit(l) \/ Count(row, l)
  BY DEF Activate, hydra
<1>3. CounterTypes'
  <2>1. CounterTypes
    BY DEF Tracking
  <2> QED
    BY <1>2, <2>1, CallTypes, Turns DEF CounterTypes
<1>4. FilterBound' /\ HandedOver' /\ NeverFarBehind'
  <2> HIDE DEF l
  <2> QED
    BY <1>1, <1>2, FilterCall, CounterCall
<1> QED
  BY <1>3, <1>4, EndOfPeriodCall DEF Tracking

\* A channel activates nothing.
LEMMA PassTracking ==
  ASSUME Tracking, Pass
  PROVE  Tracking'
<1>1. /\ Table /\ CounterTypes /\ FilterBound /\ HandedOver /\ NeverFarBehind /\ EndOfPeriod
  BY DEF Tracking
<1>2. UNCHANGED <<mapping, headpointer, moves, last, home, cra_filter, actcnt, fired,
                  unmitigated>> /\ NextTurn
  BY DEF Pass, vars, counters
<1>3. Table'
  BY <1>1, <1>2 DEF Table, TypeOK, Paired, LastMovesHold
<1>4. CounterTypes'
  BY <1>1, <1>2, Turns DEF CounterTypes
<1>5. FilterBound' /\ HandedOver' /\ NeverFarBehind'
  BY <1>1, <1>2 DEF FilterBound, HandedOver, Filtered, NeverFarBehind
<1>6. EndOfPeriod'
  <2> SUFFICES ASSUME ends', turn' > 0 \/ cleared'
               PROVE  /\ \A k \in Addresses : unmitigated[k] <= 1
                      /\ turn' = 0 => \A k \in Addresses : unmitigated[k] = 0
                      /\ \A r \in Rows : unmitigated[r] > 0 => Channel[r] < turn'
                      /\ \A s \in Spares : unmitigated[s] > 0 /\ mapping[s] # Unmapped =>
                           Channel[mapping[s]] < turn'
    BY <1>2 DEF EndOfPeriod
  <2>1. turn' > 0 /\ turn' = turn + 1 /\ turn \in Nat /\ ends
    BY <1>1, <1>2, Turns
  <2>2. cleared
    BY <2>1 DEF Pass
  <2>3. /\ \A k \in Addresses : unmitigated[k] <= 1
        /\ \A r \in Rows : unmitigated[r] > 0 => Channel[r] < turn
        /\ \A s \in Spares : unmitigated[s] > 0 /\ mapping[s] # Unmapped =>
             Channel[mapping[s]] < turn
    BY <1>1, <2>1, <2>2 DEF EndOfPeriod
  <2>4. \A r \in Rows : unmitigated[r] > 0 => Channel[r] < turn'
    BY <2>1, <2>3, ChannelOf
  <2>5. \A s \in Spares : unmitigated[s] > 0 /\ mapping[s] # Unmapped =>
             Channel[mapping[s]] < turn'
    <3> SUFFICES ASSUME NEW s \in Spares, unmitigated[s] > 0, mapping[s] # Unmapped
                 PROVE  Channel[mapping[s]] < turn'
      OBVIOUS
    <3>1. Channel[mapping[s]] \in Nat
      BY <1>1, SpareOfRow, ChannelOf
    <3> QED
      BY <2>1, <2>3, <3>1
  <2> QED
    BY <2>1, <2>3, <2>4, <2>5
<1> QED
  BY <1>3, <1>4, <1>5, <1>6 DEF Tracking

\* A channel clears the tables: what it clears besides is at most one activation.
LEMMA ResetTracking ==
  ASSUME Tracking, resetCC
  PROVE  Tracking'
<1>1. /\ Table /\ CounterTypes /\ EndOfPeriod
  BY DEF Tracking
<1>2. /\ UNCHANGED <<mapping, headpointer, moves, last, home, fired, turn, ends>>
      /\ ends /\ ~ cleared /\ cleared' = TRUE
      /\ cra_filter' = [g \in Groups |-> 0]
      /\ actcnt' = [l \in Addresses |-> 0]
      /\ unmitigated' = IF turn = 0 THEN [l \in Addresses |-> 0] ELSE unmitigated
  BY DEF resetCC, vars
<1>3. Table'
  BY <1>1, <1>2 DEF Table, TypeOK, Paired, LastMovesHold
<1>4. CounterTypes'
  BY <1>1, <1>2 DEF CounterTypes
<1>5. FilterBound' /\ HandedOver'
  BY <1>2, Constants DEF FilterBound, HandedOver
<1>6. turn \in 0..(NUM_CHANNELS - 1) /\ NUM_CHANNELS \in Nat
  BY <1>1, HydraAssumption DEF CounterTypes, Channels
<1>7. CASE turn = 0
  <2>1. \A k \in Addresses : unmitigated'[k] = 0
    BY <1>2, <1>7
  <2>2. EndOfPeriod'
    BY <1>2, <1>7, <2>1, Disjoint DEF EndOfPeriod, Addresses
  <2>3. NeverFarBehind'
    <3> SUFFICES ASSUME NEW l \in Addresses
                 PROVE  unmitigated'[l] <= (IF actcnt'[l] = 0 THEN cra_filter'[Group[l]]
                                            ELSE actcnt'[l] + Fraction) + Lost
      BY DEF NeverFarBehind
    <3> QED
      BY <1>2, <2>1, HydraAssumption, Constants
  <2> QED
    BY <1>3, <1>4, <1>5, <2>2, <2>3 DEF Tracking
<1>8. CASE turn # 0
  <2>1. unmitigated' = unmitigated /\ turn > 0 /\ NUM_CHANNELS # 1
    BY <1>2, <1>6, <1>8
  <2>2. EndOfPeriod'
    BY <1>1, <1>2, <2>1 DEF EndOfPeriod
  <2>3. \A k \in Addresses : unmitigated[k] <= 1
    BY <1>1, <1>2, <2>1 DEF EndOfPeriod
  <2>4. NeverFarBehind'
    <3> SUFFICES ASSUME NEW l \in Addresses
                 PROVE  unmitigated'[l] <= (IF actcnt'[l] = 0 THEN cra_filter'[Group[l]]
                                            ELSE actcnt'[l] + Fraction) + Lost
      BY DEF NeverFarBehind
    <3>1. Lost = 1
      BY <2>1 DEF Lost
    <3> QED
      BY <1>2, <2>1, <2>3, <3>1, HydraAssumption
  <2> QED
    BY <1>3, <1>4, <1>5, <2>2, <2>4 DEF Tracking
<1> QED
  BY <1>7, <1>8

\* The lag of filter and counters is bounded in every reachable state.
LEMMA TrackingStep == Tracking /\ Table' /\ [HydraNext]_hydraVars => Tracking'
<1> SUFFICES ASSUME Tracking, Table', [HydraNext]_hydraVars PROVE Tracking'
  OBVIOUS
<1>1. ASSUME NEW row \in Rows, Activate(row) PROVE Tracking'
  BY <1>1, ActivateTracking
<1>2. CASE Pass
  BY <1>2, PassTracking
<1>3. CASE resetCC
  BY <1>3, ResetTracking
<1>4. CASE UNCHANGED hydraVars
  BY <1>4 DEF hydraVars, vars, counters, cycle, Tracking, Table, TypeOK, Paired,
              LastMovesHold, CounterTypes, FilterBound, HandedOver, Filtered,
              NeverFarBehind, EndOfPeriod
<1> QED
  BY <1>1, <1>2, <1>3, <1>4 DEF HydraNext

\* What HydraTypeOK says beyond CounterTypes.
CacheAndCounters ==
  /\ \A l \in Addresses : actcnt[l] < Rth \/ actcnt[l] <= 1
  /\ cached \subseteq Addresses /\ IsFiniteSet(cached) /\ Cardinality(cached) <= CCEntries
  /\ inserted \subseteq {"READ", "WRITE", "READ_AND_WRITE"}

\* The counter cache takes the place of one of its lines when it is full.
LEMMA CacheStep ==
  ASSUME Tracking, CacheAndCounters, NEW row \in Rows, NEW l \in Addresses,
         CounterCache(row, l)
  PROVE  /\ cached' \subseteq Addresses /\ IsFiniteSet(cached')
         /\ Cardinality(cached') <= CCEntries
         /\ inserted' \subseteq {"READ", "WRITE", "READ_AND_WRITE"}
<1>1. /\ cached \subseteq Addresses /\ IsFiniteSet(cached) /\ Cardinality(cached) <= CCEntries
      /\ Cardinality(cached) \in Nat /\ CCEntries \in Nat
  BY FS_CardinalityType, HydraAssumption DEF CacheAndCounters
<1>2. inserted' \subseteq {"READ", "WRITE", "READ_AND_WRITE"}
  BY DEF CounterCache
<1>3. CASE UNCHANGED cached
  BY <1>1, <1>2, <1>3
<1>4. CASE l \notin cached /\ Cardinality(cached) < CCEntries /\ cached' = cached \cup {l}
  <2>1. IsFiniteSet(cached') /\ Cardinality(cached') = Cardinality(cached) + 1
    BY <1>1, <1>4, FS_AddElement
  <2> QED
    BY <1>1, <1>2, <1>4, <2>1
<1>5. ASSUME NEW victim \in cached, l \notin cached, cached' = (cached \ {victim}) \cup {l}
      PROVE  /\ cached' \subseteq Addresses /\ IsFiniteSet(cached')
             /\ Cardinality(cached') <= CCEntries
  <2> DEFINE C == cached \ {victim}
  <2>1. IsFiniteSet(C) /\ Cardinality(C) = Cardinality(cached) - 1
    BY <1>1, FS_RemoveElement
  <2>2. IsFiniteSet(C \cup {l}) /\ Cardinality(C \cup {l}) = Cardinality(C) + 1
    BY <1>5, <2>1, FS_AddElement
  <2> QED
    BY <1>1, <1>5, <2>1, <2>2
<1> QED
  BY <1>2, <1>3, <1>4, <1>5 DEF CounterCache

\* No step leaves a counter at the threshold or overfills the cache.
LEMMA CacheAndCountersStep ==
  Tracking /\ CacheAndCounters /\ [HydraNext]_hydraVars => CacheAndCounters'
<1> SUFFICES ASSUME Tracking, CacheAndCounters, [HydraNext]_hydraVars
             PROVE  CacheAndCounters'
  OBVIOUS
<1>1. ASSUME NEW row \in Rows, Activate(row) PROVE CacheAndCounters'
  <2> DEFINE l == Place(row)
  <2>1. l \in Addresses /\ (FilterHit(l) \/ Count(row, l))
    BY <1>1, Places DEF Activate, hydra, Tracking
  <2>2. CASE FilterHit(l)
    BY <2>2 DEF FilterHit, CacheAndCounters
  <2>3. CASE Count(row, l)
    <3> HIDE DEF l
    <3>1. \A k \in Addresses : actcnt'[k] < Rth \/ actcnt'[k] <= 1
      <4> SUFFICES ASSUME NEW k \in Addresses PROVE actcnt'[k] < Rth \/ actcnt'[k] <= 1
        OBVIOUS
      <4>1. /\ actcnt \in [Addresses -> Nat]
            /\ actcnt[k] < Rth \/ actcnt[k] <= 1
        BY DEF Tracking, CounterTypes, CacheAndCounters
      <4>2. actcnt' = [actcnt EXCEPT ![l] = IF fired' THEN 1 ELSE Counted(l)]
        BY <2>3 DEF Count
      <4>3. CASE k # l \/ fired'
        BY <2>1, <4>1, <4>2, <4>3
      <4>4. CASE k = l /\ ~ fired'
        <5>1. ~ (Counted(l) >= Rth)
          BY <2>3, <4>4, Zenon DEF Count, Triggered
        <5>2. Counted(l) \in Nat
          BY <2>1, <4>1, Constants DEF Counted
        <5>3. actcnt'[k] = Counted(l)
          BY <4>1, <4>2, <4>4
        <5> QED
          BY <5>1, <5>2, <5>3, Constants
      <4> QED
        BY <4>3, <4>4
    <3> QED
      BY <2>1, <2>3, <3>1, CacheStep DEF Count, CacheAndCounters
  <2> QED
    BY <2>1, <2>2, <2>3
<1>2. CASE Pass \/ UNCHANGED hydraVars
  BY <1>2 DEF Pass, hydraVars, counters, CacheAndCounters
<1>3. CASE resetCC
  <2>1. IsFiniteSet({}) /\ Cardinality({}) = 0
    BY FS_EmptySet
  <2>2. /\ actcnt' = [l \in Addresses |-> 0] /\ cached' = {} /\ inserted' = inserted
    BY <1>3 DEF resetCC
  <2> QED
    BY <2>1, <2>2, HydraAssumption DEF CacheAndCounters
<1> QED
  BY <1>1, <1>2, <1>3 DEF HydraNext

-----------------------------------------------------------------------------
(* Theorems. *)

\* hydra() uses the indirection table only through rqidealRIT(): what is proved of
\* the table holds of it here.
THEOREM HydraUsesTable == HydraSpec => Spec
<1>1. HydraInit => Init
  BY DEF HydraInit
<1> QED
  BY <1>1, TableSteps, PTL DEF HydraSpec, Spec

\* No two rows are counted at one place, whatever moves the tracker has ordered.
THEOREM NoSharedCounter == HydraSpec => []OneRowPerPlace
  BY HydraUsesTable, TableInvariant, PlacesDiffer, PTL

\* The lag of filter and counters is bounded in every reachable state.
THEOREM TrackingInvariant == HydraSpec => []Tracking
  BY InitTracking, TrackingStep, HydraUsesTable, TableInvariant, PTL DEF HydraSpec

\* The types of tables, counters and caches; no counter stays at the threshold.
THEOREM HydraTypes == HydraSpec => []HydraTypeOK
<1>1. HydraInit => CacheAndCounters
  <2>1. IsFiniteSet({}) /\ Cardinality({}) = 0
    BY FS_EmptySet
  <2> QED
    BY <2>1, HydraAssumption DEF HydraInit, CacheAndCounters
<1>2. Tracking /\ CacheAndCounters => HydraTypeOK
  BY DEF Tracking, Table, CounterTypes, CacheAndCounters, HydraTypeOK
<1> QED
  BY <1>1, <1>2, CacheAndCountersStep, TrackingInvariant, PTL DEF HydraSpec

\* The tracker under-counts a place by no more than a rounded fraction and a
\* clearing take away.
THEOREM HydraNeverFarBehind == HydraSpec => []NeverFarBehind
  BY TrackingInvariant, PTL DEF Tracking

\* hydra() keeps the promise of RowTracker with a threshold of Rth + Slack.
THEOREM HydraRefinement == HydraSpec => ImplementsTracker
<1>1. HydraInit => Promise!Init
  BY DEF HydraInit, Promise!Init
<1>2. Tracking /\ [HydraNext]_hydraVars => [Promise!Next]_(Promise!vars)
  <2> SUFFICES ASSUME Tracking, [HydraNext]_hydraVars
               PROVE  [Promise!Next]_(Promise!vars)
    OBVIOUS
  <2>1. ASSUME NEW row \in Rows, Activate(row)
        PROVE  Promise!Fire(Place(row)) \/ Promise!Pass(Place(row))
    <3> DEFINE l == Place(row)
    <3>1. /\ l \in Addresses /\ Group[l] \in Groups
          /\ unmitigated' = [unmitigated EXCEPT ![l] = IF fired' THEN 0 ELSE @ + 1]
          /\ FilterHit(l) \/ Count(row, l)
      BY <2>1, Places, HydraAssumption DEF Activate, hydra, Tracking
    <3>2. fired' \in BOOLEAN
      BY <2>1, CallTypes DEF Activate
    <3>3. CASE fired' = TRUE
      BY <3>1, <3>3 DEF Promise!Fire
    <3>4. CASE fired' = FALSE
      <4>1. /\ unmitigated[l] <= (IF actcnt[l] = 0 THEN cra_filter[Group[l]]
                                                   ELSE actcnt[l] + Fraction) + Lost
            /\ unmitigated[l] \in Nat /\ actcnt[l] \in Nat /\ cra_filter[Group[l]] \in Nat
            /\ cra_filter[Group[l]] <= CounterStart + Fraction
        BY <3>1 DEF Tracking, NeverFarBehind, CounterTypes, FilterBound
      <4>2. unmitigated[l] + 1 < Rth + Slack
        <5>1. CASE FilterHit(l)
          <6>1. actcnt[l] = 0
            BY <3>1, <5>1 DEF FilterHit, Tracking, HandedOver
          <6>2. cra_filter[Group[l]] + 1 <= CounterStart + Fraction
            BY <4>1, <5>1, OneMore DEF FilterHit, Filtered
          <6> QED
            BY <4>1, <6>1, <6>2, Constants DEF Slack
        <5>2. CASE Count(row, l)
          <6>1. (IF actcnt[l] = 0 THEN CounterStart ELSE actcnt[l]) + 1 < Rth
            <7> DEFINE n == (IF actcnt[l] = 0 THEN CounterStart ELSE actcnt[l]) + 1
            <7>1. ~ (n >= Rth)
              BY <3>4, <5>2, Zenon DEF Count, Triggered, Counted
            <7>2. n \in Nat
              BY <4>1, Constants
            <7> QED
              BY <7>1, <7>2, Constants
          <6> QED
            BY <4>1, <6>1, Constants DEF Slack
        <5> QED
          BY <3>1, <5>1, <5>2
      <4> QED
        BY <3>1, <3>4, <4>2 DEF Promise!Pass
    <3> QED
      BY <3>2, <3>3, <3>4
  <2>2. CASE Pass
    BY <2>2 DEF Pass, Promise!vars
  <2>3. CASE resetCC
    BY <2>3 DEF resetCC, Promise!vars, Promise!Next, Promise!Clear
  <2>4. CASE UNCHANGED hydraVars
    BY <2>4 DEF hydraVars, Promise!vars
  <2>5. \A row \in Rows : Place(row) \in Addresses
    BY Places DEF Tracking
  <2> QED
    BY <2>1, <2>2, <2>3, <2>4, <2>5 DEF HydraNext, Promise!Next
<1> QED
  BY <1>1, <1>2, TrackingInvariant, PTL DEF HydraSpec, ImplementsTracker, Promise!Spec

=============================================================================
