--------------------------- MODULE CoreLoopProofs ---------------------------
(***************************************************************************)
(* The reorder buffers for any number of cores, any sizes and any latencies.*)
(***************************************************************************)
EXTENDS CoreLoop, FiniteSetTheorems, SequenceTheorems, WellFoundedInduction, TLAPS

-----------------------------------------------------------------------------
(* Bounds. *)

\* Induction: what holds of some number does so of a least one.
LEMMA SmallestNat ==
  ASSUME NEW T \in SUBSET Nat, NEW n \in T
  PROVE  \E x \in T : \A y \in T : x <= y
<1>1. \E x \in T : \A y \in T : ~ (<<y, x>> \in OpToRel(<, Nat))
  BY WFMin, NatLessThanWellFounded, Zenon
<1>2. PICK x \in T : \A y \in T : ~ (<<y, x>> \in OpToRel(<, Nat))
  BY <1>1
<1>3. \A y \in T : ~ (y < x)
  <2>1. \A y \in T : y < x => <<y, x>> \in OpToRel(<, Nat)
    BY DEF OpToRel
  <2> QED BY <1>2, <2>1, Zenon
<1>4. \A y \in T : x <= y
  BY <1>3
<1> QED BY <1>4

\* A finite set of numbers has a longest.
LEMMA LongestIsLongest ==
  ASSUME NEW S \in SUBSET Int, IsFiniteSet(S), S # {}
  PROVE  Longest(S) \in S /\ \A k \in S : k <= Longest(S)
<1>1. Cardinality(S) \in Nat /\ ExistsBijection(1..Cardinality(S), S)
  BY FS_CardinalityType
<1>2. PICK n \in Nat : ExistsBijection(1..n, S)
  BY <1>1
<1>3. PICK f \in Bijection(1..n, S) : TRUE
  BY <1>2 DEF ExistsBijection
<1>4. f \in [1..n -> S] /\ \A k \in S : \E i \in 1..n : f[i] = k
  BY <1>3 DEF Bijection, Injection, Surjection
<1> DEFINE Top(m, x) == x \in 1..m /\ \A i \in 1..m : f[i] <= f[x]
           T == {m \in 1..n : ~ \E x \in 1..m : Top(m, x)}
<1>5. T = {}
  <2> SUFFICES ASSUME T # {} PROVE FALSE
    OBVIOUS
  <2>1. PICK m \in T : \A y \in T : m <= y
    <3>1. T \in SUBSET Nat
      OBVIOUS
    <3> HIDE DEF T
    <3>2. PICK y : y \in T
      OBVIOUS
    <3>3. \E m \in T : \A z \in T : m <= z
      BY <3>1, <3>2, SmallestNat
    <3> QED BY <3>3
  <2>2. m \in 1..n /\ ~ \E x \in 1..m : Top(m, x)
    OBVIOUS
  <2>3. \A i \in 1..n : f[i] \in Int
    BY <1>4
  <2>4. m # 1
    BY <2>2, <2>3
  <2>5. m - 1 \in 1..n /\ m - 1 \notin T
    <3>1. m - 1 \in 1..n /\ ~ m <= m - 1
      BY <2>2, <2>4
    <3> HIDE DEF T
    <3> QED BY <2>1, <3>1
  <2>6. PICK x \in 1..(m - 1) : Top(m - 1, x)
    BY <2>5
  <2> HIDE DEF T
  <2>7. Top(m, x) \/ Top(m, m)
    <3>1. x \in 1..m /\ m \in 1..m /\ \A i \in 1..m : i = m \/ i \in 1..(m - 1)
      BY <2>2, <2>6
    <3>2. \A i \in 1..(m - 1) : f[i] <= f[x]
      BY <2>6
    <3>3. f[x] \in Int /\ f[m] \in Int /\ \A i \in 1..m : f[i] \in Int
      BY <2>2, <2>3, <3>1
    <3>4. CASE f[m] <= f[x]
      <4>1. \A i \in 1..m : f[i] <= f[x]
        BY <3>1, <3>2, <3>4
      <4>2. Top(m, x)
        BY <3>1, <4>1
      <4> QED BY <4>2
    <3>5. CASE f[x] <= f[m]
      <4>1. \A i \in 1..m : f[i] <= f[m]
        <5>1. f[m] <= f[m] /\ \A i \in 1..(m - 1) : f[i] <= f[m]
          <6>1. \A i \in 1..(m - 1) : i \in 1..m
            BY <2>2
          <6>2. \A i \in 1..(m - 1) : f[i] \in Int /\ f[i] <= f[x]
            BY <3>2, <3>3, <6>1
          <6> QED BY <6>2, <3>3, <3>5
        <5> QED BY <3>1, <5>1
      <4>2. Top(m, m)
        BY <3>1, <4>1
      <4> QED BY <4>2
    <3>6. f[m] <= f[x] \/ f[x] <= f[m]
      <4>1. \A k, l \in Int : k <= l \/ l <= k
        OBVIOUS
      <4> QED BY <3>3, <4>1
    <3> QED BY <3>4, <3>5, <3>6
  <2> QED BY <2>2, <2>6, <2>7
<1>6. \E x \in S : \A k \in S : k <= x
  <2>1. n # 0
    <3>1. n = 0 => 1..n = {}
      OBVIOUS
    <3>2. PICK k : k \in S
      OBVIOUS
    <3> QED BY <1>4, <3>1, <3>2
  <2>2. PICK x \in 1..n : Top(n, x)
    <3>1. n \in 1..n /\ n \notin T
      <4>1. n \in 1..n
        BY <2>1
      <4> HIDE DEF T
      <4> QED BY <1>5, <4>1
    <3> QED BY <3>1
  <2> QED BY <1>4, <2>2
<1> QED BY <1>6 DEF Longest

LEMMA Bounds ==
  /\ Longest(Stalls) \in Nat /\ \A s \in Stalls : s \in Nat /\ s <= Longest(Stalls)
  /\ Longest({MAX_RETIRE, MAX_FETCH}) \in Nat
  /\ MAX_RETIRE <= Longest({MAX_RETIRE, MAX_FETCH}) /\ MAX_FETCH <= Longest({MAX_RETIRE, MAX_FETCH})
  /\ Longest(Delays) \in Nat
  /\ \A d \in Delays : d \in Nat /\ d <= Longest(Delays)
  /\ BIGNUM \in Nat /\ BIGNUM \notin Times
<1> DEFINE Three == {ReadLatency, L3_LATENCY, WQ_LOOKUP_LATENCY}
           Two == {MAX_RETIRE, MAX_FETCH}
<1>1. Stalls \in SUBSET Int /\ IsFiniteSet(Stalls) /\ Stalls # {} /\ Stalls \subseteq Nat
  BY CoreLoopAssumption
<1>2. IsFiniteSet(Two) /\ Two \in SUBSET Int /\ Two # {} /\ Two \subseteq Nat
  <2>1. IsFiniteSet({MAX_FETCH})
    BY FS_Singleton, Zenon
  <2>2. Two = {MAX_FETCH} \cup {MAX_RETIRE}
    OBVIOUS
  <2>3. IsFiniteSet(Two)
    <3> HIDE DEF Two
    <3> QED BY <2>1, <2>2, FS_AddElement
  <2> QED BY <2>3, CoreLoopAssumption
<1>3. IsFiniteSet(Delays) /\ Delays \in SUBSET Int /\ Delays # {} /\ Delays \subseteq Nat
  <2>1. IsFiniteSet(Stalls \cup {ReadLatency})
    BY <1>1, FS_AddElement
  <2>2. IsFiniteSet((Stalls \cup {ReadLatency}) \cup {L3_LATENCY})
    BY <2>1, FS_AddElement
  <2>3. IsFiniteSet(((Stalls \cup {ReadLatency}) \cup {L3_LATENCY}) \cup {WQ_LOOKUP_LATENCY})
    BY <2>2, FS_AddElement
  <2>4. Delays = ((Stalls \cup {ReadLatency}) \cup {L3_LATENCY}) \cup {WQ_LOOKUP_LATENCY}
    BY DEF Delays
  <2>5. Delays \subseteq Nat /\ Delays # {}
    BY CoreLoopAssumption DEF Delays
  <2> QED BY <2>3, <2>4, <2>5
<1>4. Longest(Stalls) \in Stalls /\ \A k \in Stalls : k <= Longest(Stalls)
  BY <1>1, LongestIsLongest
<1>5. Longest(Two) \in Two /\ \A k \in Two : k <= Longest(Two)
  <2> HIDE DEF Two
  <2> QED BY <1>2, LongestIsLongest
<1>6. Longest(Delays) \in Delays /\ \A k \in Delays : k <= Longest(Delays)
  BY <1>3, LongestIsLongest
<1> QED BY <1>1, <1>2, <1>3, <1>4, <1>5, <1>6, CoreLoopAssumption

-----------------------------------------------------------------------------
(* The ring of the slots. *)

\* How many slots s lies after h.
Behind(h, s) == IF s >= h THEN s - h ELSE s - h + ROBSIZE

LEMMA Remainder ==
  ASSUME NEW n \in Nat \ {0}, NEW a \in 0..(2 * n - 1)
  PROVE  a % n = IF a < n THEN a ELSE a - n
<1> DEFINE q == a \div n
<1>1. q \in Nat /\ a % n \in 0..(n - 1) /\ a = n * q + (a % n)
  OBVIOUS
<1> HIDE DEF q
<1>2. q = 0 \/ q = 1
  <2>1. q >= 2 => n * q >= n * 2
    BY <1>1
  <2> QED BY <1>1, <2>1
<1> QED BY <1>1, <1>2

LEMMA Around ==
  ASSUME NEW h \in Slots, NEW i \in 0..ROBSIZE
  PROVE  /\ (h + i) % ROBSIZE = IF h + i < ROBSIZE THEN h + i ELSE h + i - ROBSIZE
         /\ (h + i) % ROBSIZE \in Slots
<1>1. ROBSIZE \in Nat \ {0} /\ h + i \in 0..(2 * ROBSIZE - 1)
  BY CoreLoopAssumption DEF Slots
<1>2. (h + i) % ROBSIZE = IF h + i < ROBSIZE THEN h + i ELSE h + i - ROBSIZE
  <2> DEFINE a == h + i
  <2>1. a \in 0..(2 * ROBSIZE - 1)
    BY <1>1
  <2> HIDE DEF a
  <2>2. a % ROBSIZE = IF a < ROBSIZE THEN a ELSE a - ROBSIZE
    BY <1>1, <2>1, Remainder
  <2>3. h \in Int /\ i \in Int /\ ROBSIZE \in Int
    BY CoreLoopAssumption DEF Slots
  <2> QED BY <2>2, <2>3 DEF a
<1> QED BY <1>1, <1>2 DEF Slots

LEMMA Ring ==
  ASSUME NEW h \in Slots
  PROVE  /\ \A s \in Slots : Behind(h, s) \in 0..(ROBSIZE - 1) /\ (h + Behind(h, s)) % ROBSIZE = s
         /\ \A i \in 0..(ROBSIZE - 1) : Behind(h, (h + i) % ROBSIZE) = i
         /\ \A s, t \in Slots : Behind(h, s) = Behind(h, t) => s = t
         /\ (h + 1) % ROBSIZE \in Slots
         /\ \A s \in Slots : Behind((h + 1) % ROBSIZE, s)
                               = IF s = h THEN ROBSIZE - 1 ELSE Behind(h, s) - 1
         /\ Behind(h, h) = 0
         /\ \A s \in Slots : Behind(h, s) = 0 => s = h
<1>1. ROBSIZE \in Nat \ {0} /\ h \in 0..(ROBSIZE - 1)
  BY CoreLoopAssumption DEF Slots
<1>2. \A s \in Slots : Behind(h, s) \in 0..(ROBSIZE - 1)
  BY <1>1 DEF Slots, Behind
<1>3. \A s \in Slots : (h + Behind(h, s)) % ROBSIZE = s
  <2> SUFFICES ASSUME NEW s \in Slots PROVE (h + Behind(h, s)) % ROBSIZE = s
    OBVIOUS
  <2>1. Behind(h, s) \in 0..ROBSIZE
    BY <1>1, <1>2
  <2>2. (h + Behind(h, s)) % ROBSIZE
          = IF h + Behind(h, s) < ROBSIZE THEN h + Behind(h, s) ELSE h + Behind(h, s) - ROBSIZE
    BY <2>1, Around
  <2> QED BY <1>1, <2>2 DEF Behind, Slots
<1>4. \A i \in 0..(ROBSIZE - 1) : Behind(h, (h + i) % ROBSIZE) = i
  <2> SUFFICES ASSUME NEW i \in 0..(ROBSIZE - 1) PROVE Behind(h, (h + i) % ROBSIZE) = i
    OBVIOUS
  <2>1. i \in 0..ROBSIZE
    BY <1>1
  <2>2. (h + i) % ROBSIZE = IF h + i < ROBSIZE THEN h + i ELSE h + i - ROBSIZE
    BY <2>1, Around
  <2> QED BY <1>1, <2>2 DEF Behind
<1>5. (h + 1) % ROBSIZE = IF h + 1 < ROBSIZE THEN h + 1 ELSE h + 1 - ROBSIZE
  <2>1. 1 \in 0..ROBSIZE
    BY <1>1
  <2> QED BY <2>1, Around
<1>6. (h + 1) % ROBSIZE \in Slots
  BY <1>1, <1>5 DEF Slots
<1>7. \A s \in Slots : Behind((h + 1) % ROBSIZE, s)
                               = IF s = h THEN ROBSIZE - 1 ELSE Behind(h, s) - 1
  BY <1>1, <1>5 DEF Behind, Slots
<1>8. \A s, t \in Slots : Behind(h, s) = Behind(h, t) => s = t
  BY <1>1 DEF Behind, Slots
<1>9. Behind(h, h) = 0 /\ \A s \in Slots : Behind(h, s) = 0 => s = h
  BY <1>1 DEF Behind, Slots
<1> QED BY <1>2, <1>3, <1>4, <1>6, <1>7, <1>8, <1>9

-----------------------------------------------------------------------------
(* What a step does to the buffers. *)

Entry == [optype : {"-", "N", "R", "W"}, mem_address : Addrs \cup {Nil},
          comptime : Times \cup {BIGNUM}, next : Slots \cup {Nil}]
Buffer == [head : Slots, tail : Slots, inflight : 0..ROBSIZE, tracedone : BOOLEAN,
           entry : [Slots -> Entry]]

\* The types, without the limits that need an argument of their own.
Typed ==
  /\ ROB \in [Cores -> Buffer]
  /\ loadq \in [Cores -> Int] /\ storeq \in [Cores -> Int]
  /\ committed \in [Cores -> 0..INSTRUCTIONS]
  /\ read_queue \subseteq Requests /\ write_queue \subseteq Addrs
  /\ IsFiniteSet(read_queue) /\ IsFiniteSet(write_queue)
  /\ leaving \in [reads : 0..1, writes : 0..1]
  /\ readqfull \in BOOLEAN /\ writeqfull \in BOOLEAN /\ expt_done \in BOOLEAN
  /\ skipit \in 0..Longest(Stalls)
  /\ phase \in {"retire", "dram", "fetch"}
  /\ val \in Cores /\ corecount \in Cores /\ num_done \in 0..NUMCORES
  /\ phase = "fetch" => num_done <= corecount
  /\ num \in 0..Longest({MAX_RETIRE, MAX_FETCH})
  /\ owes \in [Cores -> SUBSET Slots]

\* The buffer holds the same instructions.
SameOrder(c) ==
  /\ ROB'[c].head = ROB[c].head /\ ROB'[c].tail = ROB[c].tail
  /\ ROB'[c].inflight = ROB[c].inflight
  /\ \A s \in Slots :
       /\ ROB'[c].entry[s].optype = ROB[c].entry[s].optype
       /\ ROB'[c].entry[s].mem_address = ROB[c].entry[s].mem_address
       /\ ROB'[c].entry[s].next = ROB[c].entry[s].next

\* Nothing happens but time, stalls, and the service of writes.
Quiet ==
  /\ \A c \in Cores :
       /\ SameOrder(c)
       /\ \A s \in Slots : ROB'[c].entry[s].comptime = BIGNUM <=> ROB[c].entry[s].comptime = BIGNUM
  /\ UNCHANGED <<read_queue, owes, loadq, storeq>>

\* The memory answers a request.
Answered(r) ==
  /\ r \in read_queue
  /\ \A c \in Cores :
       /\ SameOrder(c)
       /\ \A s \in Slots :
            ROB'[c].entry[s].comptime = BIGNUM
              <=> ROB[c].entry[s].comptime = BIGNUM /\ ~ (c = r.core /\ s = r.slot)
  /\ read_queue' = read_queue \ {r}
  /\ owes' = [c \in Cores |-> {s \in owes[c] : ROB[c].entry[s].mem_address # r.addr}]
  /\ UNCHANGED <<loadq, storeq>>

\* The oldest instruction of core c leaves.
Left(c) ==
  LET h == ROB[c].head IN
  /\ ROB[c].inflight > 0 /\ ROB[c].entry[h].comptime = -1
  /\ \A d \in Cores \ {c} : ROB'[d] = ROB[d]
  /\ ROB'[c].head = (h + 1) % ROBSIZE /\ ROB'[c].tail = ROB[c].tail
  /\ ROB'[c].inflight = ROB[c].inflight - 1
  /\ \A s \in Slots :
       /\ ROB'[c].entry[s].optype = ROB[c].entry[s].optype
       /\ ROB'[c].entry[s].mem_address = ROB[c].entry[s].mem_address
       /\ ROB'[c].entry[s].next = ROB[c].entry[s].next
       /\ ROB'[c].entry[s].comptime = IF s = ROB[c].entry[h].next THEN -1
                                      ELSE ROB[c].entry[s].comptime
  /\ loadq' = [loadq EXCEPT ![c] = IF ROB[c].entry[h].optype = "R" THEN @ - 1 ELSE @]
  /\ storeq' = [storeq EXCEPT ![c] = IF ROB[c].entry[h].optype = "W" THEN @ - 1 ELSE @]
  /\ read_queue' = read_queue
  /\ owes' = [owes EXCEPT ![c] = @ \ {h}]

\* An instruction enters the buffer of core c; linked: behind the reads of its line.
Took(c, op, a, time, linked) ==
  LET t == ROB[c].tail IN
  /\ ROB[c].inflight < ROBSIZE
  /\ op \in {"N", "R", "W"} /\ (op = "N" \/ a \in Lines[c])
  /\ \A d \in Cores \ {c} : ROB'[d] = ROB[d]
  /\ ROB'[c].head = ROB[c].head /\ ROB'[c].tail = (t + 1) % ROBSIZE
  /\ ROB'[c].inflight = ROB[c].inflight + 1
  /\ ROB'[c].entry[t].optype = op
  /\ op # "N" => ROB'[c].entry[t].mem_address = a
  /\ ROB'[c].entry[t].comptime = time
  /\ ROB'[c].entry[t].next = Nil
  /\ \A s \in Slots \ {t} :
       /\ ROB'[c].entry[s].optype = ROB[c].entry[s].optype
       /\ ROB'[c].entry[s].mem_address = ROB[c].entry[s].mem_address
       /\ ROB'[c].entry[s].comptime = ROB[c].entry[s].comptime
       /\ ROB'[c].entry[s].next =
            IF linked /\ ROB[c].entry[s].optype = "R" /\ ROB[c].entry[s].mem_address = a
                 /\ ROB[c].entry[s].next = Nil
            THEN t ELSE ROB[c].entry[s].next
  /\ loadq' = [loadq EXCEPT ![c] = IF op = "R" THEN @ + 1 ELSE @]
  /\ storeq' = [storeq EXCEPT ![c] = IF op = "W" THEN @ + 1 ELSE @]

\* It does not wait for the memory; it waits for a request that is there; for its own.
TookReady(c) ==
  /\ \E op, a : \E time \in Times : Took(c, op, a, time, FALSE)
  /\ UNCHANGED <<read_queue, owes>>
TookMerged(c, a) ==
  /\ Took(c, "R", a, BIGNUM, TRUE)
  /\ \E r \in read_queue : r.addr = a
  /\ read_queue' = read_queue
  /\ owes' = [owes EXCEPT ![c] = @ \cup {ROB[c].tail}]
TookRequested(c, a) ==
  /\ Took(c, "R", a, BIGNUM, FALSE)
  /\ read_queue' = read_queue \cup {[core |-> c, slot |-> ROB[c].tail, addr |-> a]}
  /\ owes' = [owes EXCEPT ![c] = @ \cup {ROB[c].tail}]

Effect ==
  \/ Quiet
  \/ \E r \in read_queue : Answered(r)
  \/ \E c \in Cores : \/ Left(c) \/ TookReady(c)
                      \/ \E a \in Lines[c] : TookMerged(c, a) \/ TookRequested(c, a)

LEMMA ConstantTypes ==
  /\ NUMCORES \in Nat \ {0} /\ ROBSIZE \in Nat \ {0}
  /\ RQ_CAPACITY \in Nat \ {0} /\ WQ_CAPACITY \in Nat \ {0}
  /\ MAX_RETIRE \in Nat /\ MAX_FETCH \in Nat /\ PIPELINEDEPTH \in Nat /\ INSTRUCTIONS \in Nat
  /\ 0 \in Slots /\ 0 \in Cores /\ Nil \notin Slots /\ Nil \notin Addrs
  /\ \A c \in Cores : Lines[c] \subseteq Addrs
BY CoreLoopAssumption DEF Slots, Cores, Addrs

LEMMA DelayTimes ==
  /\ -1 \in Times /\ 0 \in Times /\ PIPELINEDEPTH \in Times
  /\ PIPELINEDEPTH + L3_LATENCY \in Times /\ L3_LATENCY + PIPELINEDEPTH \in Times
  /\ WQ_LOOKUP_LATENCY + PIPELINEDEPTH \in Times /\ ReadLatency + PIPELINEDEPTH \in Times
  /\ \A t \in Times : t \in Int /\ t >= -1 /\ t # BIGNUM /\ (t # -1 => t - 1 \in Times)
  /\ \A k \in 0..Longest(Stalls) : k + PIPELINEDEPTH \in Times
<1> DEFINE top == Longest(Delays)
<1>1. top \in Nat /\ PIPELINEDEPTH \in Nat /\ BIGNUM \notin Times
  BY Bounds, ConstantTypes
<1>2. /\ L3_LATENCY \in Nat /\ WQ_LOOKUP_LATENCY \in Nat /\ ReadLatency \in Nat
      /\ L3_LATENCY <= top /\ WQ_LOOKUP_LATENCY <= top /\ ReadLatency <= top
  BY Bounds DEF Delays
<1>3. Longest(Stalls) \in Nat /\ Longest(Stalls) <= top
  <2>1. Longest(Stalls) \in Stalls
    BY LongestIsLongest, CoreLoopAssumption
  <2> QED BY <2>1, Bounds DEF Delays
<1>4. Times = -1..(PIPELINEDEPTH + top)
  BY DEF Times
<1> HIDE DEF top
<1> QED BY <1>1, <1>2, <1>3, <1>4

LEMMA TurnIsOfCore == Typed => numc \in Cores
<1> SUFFICES ASSUME Typed PROVE numc \in Cores
  OBVIOUS
<1>1. NUMCORES \in Nat \ {0} /\ val + corecount \in Nat
  BY ConstantTypes DEF Typed, Cores
<1>2. \A a \in Nat : a % NUMCORES \in 0..(NUMCORES - 1)
  BY <1>1
<1> QED BY <1>1, <1>2 DEF numc, Cores

LEMMA InitTyped == Init => Typed
<1> SUFFICES ASSUME Init PROVE Typed
  OBVIOUS
<1>1. ROB \in [Cores -> Buffer]
  <2>1. EmptySlot \in Entry
    BY DelayTimes DEF EmptySlot, Entry
  <2>2. [s \in Slots |-> EmptySlot] \in [Slots -> Entry]
    BY <2>1
  <2> HIDE DEF EmptySlot, Entry
  <2> DEFINE empty == [s \in Slots |-> EmptySlot]
  <2>3. [head |-> 0, tail |-> 0, inflight |-> 0, tracedone |-> FALSE, entry |-> empty] \in Buffer
    BY <2>2, ConstantTypes DEF Buffer
  <2> QED BY <2>3 DEF Init
<1>2. /\ loadq \in [Cores -> Int] /\ storeq \in [Cores -> Int]
      /\ committed \in [Cores -> 0..INSTRUCTIONS]
      /\ owes \in [Cores -> SUBSET Slots]
  BY ConstantTypes DEF Init
<1>3. /\ read_queue \subseteq Requests /\ write_queue \subseteq Addrs
      /\ IsFiniteSet(read_queue) /\ IsFiniteSet(write_queue)
  BY FS_EmptySet DEF Init
<1>4. leaving \in [reads : 0..1, writes : 0..1]
  BY DEF Init
<1>7. readqfull \in BOOLEAN /\ writeqfull \in BOOLEAN /\ expt_done \in BOOLEAN
  BY Zenon DEF Init
<1>6. /\ phase \in {"retire", "dram", "fetch"} /\ phase # "fetch"
      /\ val \in Cores /\ corecount \in Cores
  BY ConstantTypes DEF Init
<1>5. /\ skipit \in 0..Longest(Stalls) /\ num_done \in 0..NUMCORES
      /\ num \in 0..Longest({MAX_RETIRE, MAX_FETCH})
  BY Bounds, ConstantTypes DEF Init
<1> QED BY <1>1, <1>2, <1>3, <1>4, <1>5, <1>6, <1>7 DEF Typed

\* The types of what the next turn begins with.
LEMMA TurnOverTyped ==
  ASSUME Typed, NEW p \in {"retire", "dram", "fetch"}, TurnOver(p)
  PROVE  /\ corecount' \in Cores /\ phase' \in {"retire", "dram", "fetch"}
         /\ num' \in 0..Longest({MAX_RETIRE, MAX_FETCH})
         /\ phase' \in {phase, p}
         /\ IF corecount = NUMCORES - 1 THEN corecount' = 0 /\ phase' = p
            ELSE corecount' = corecount + 1 /\ phase' = phase
<1>1. NUMCORES \in Nat \ {0} /\ corecount \in 0..(NUMCORES - 1)
  BY ConstantTypes DEF Typed, Cores
<1>2. corecount' = (corecount + 1) % NUMCORES /\ num' = 0
      /\ phase' = IF corecount' = 0 THEN p ELSE phase
  BY DEF TurnOver
<1> DEFINE a == corecount + 1
<1>3. a \in 0..(2 * NUMCORES - 1)
  BY <1>1
<1> HIDE DEF a
<1>4. a % NUMCORES = IF a < NUMCORES THEN a ELSE a - NUMCORES
  BY <1>1, <1>3, Remainder
<1>5. IF corecount = NUMCORES - 1 THEN corecount' = 0 ELSE corecount' = corecount + 1
  BY <1>1, <1>2, <1>4 DEF a
<1>6. corecount' \in Cores
  BY <1>1, <1>5 DEF Cores
<1>7. num' \in 0..Longest({MAX_RETIRE, MAX_FETCH})
  BY <1>2, Bounds
<1>8. corecount' = 0 <=> corecount = NUMCORES - 1
  BY <1>1, <1>5
<1> QED BY <1>2, <1>5, <1>6, <1>7, <1>8 DEF Typed

LEMMA StepRetire == ASSUME Typed, Retire PROVE Typed' /\ Left(numc)
<1> DEFINE c == numc
           old == ROB[c]
           h == old.head
           n == old.entry[h].next
<1>1. c \in Cores /\ old \in Buffer
  BY TurnIsOfCore DEF Typed
<1>2. /\ h \in Slots /\ old.tail \in Slots /\ old.inflight \in 0..ROBSIZE
      /\ old.tracedone \in BOOLEAN /\ old.entry \in [Slots -> Entry]
  BY <1>1 DEF Buffer
<1>3. old.entry[h] \in Entry /\ n \in Slots \cup {Nil}
  BY <1>2 DEF Entry
<1>4. old.inflight > 0 /\ old.entry[h].comptime < 0
  BY DEF Retire, MayRetire, Oldest, rob
<1>5. old.entry[h].comptime = -1
  <2>1. old.entry[h].comptime \in Times \cup {BIGNUM}
    BY <1>3 DEF Entry
  <2>2. \A t \in Times : t \in Int /\ t >= -1
    BY DelayTimes
  <2>3. BIGNUM \in Nat
    BY Bounds
  <2> HIDE DEF old, h, c
  <2> QED BY <1>4, <2>1, <2>2, <2>3
<1> DEFINE woken == IF n = Nil THEN old.entry ELSE [old.entry EXCEPT ![n].comptime = -1]
           new == [head |-> (h + 1) % ROBSIZE, tail |-> old.tail, inflight |-> old.inflight - 1,
                   tracedone |-> old.tracedone, entry |-> woken]
<1>6. woken \in [Slots -> Entry]
  BY <1>2, <1>3, DelayTimes DEF Entry
<1>7. \A s \in Slots :
        /\ woken[s].optype = old.entry[s].optype
        /\ woken[s].mem_address = old.entry[s].mem_address
        /\ woken[s].next = old.entry[s].next
        /\ woken[s].comptime = IF s = n THEN -1 ELSE old.entry[s].comptime
  <2>1. old.entry \in [Slots -> Entry] /\ \A s \in Slots : old.entry[s] \in Entry
    BY <1>2
  <2> HIDE DEF old
  <2> QED BY <1>3, <2>1, ConstantTypes DEF Entry
<1>8. (h + 1) % ROBSIZE \in Slots /\ old.inflight - 1 \in 0..ROBSIZE
  BY <1>2, <1>4, Ring, ConstantTypes
<1>9. new \in Buffer
  <2> HIDE DEF woken, old, h
  <2> QED BY <1>2, <1>6, <1>8 DEF Buffer
<1>10. ROB' = [ROB EXCEPT ![c] = new]
  <2>1. Woken(old.entry) = woken
    BY <1>5 DEF Woken, Oldest, rob
  <2>2. ROB' = [ROB EXCEPT ![c].entry = Woken(@), ![c].head = (@ + 1) % ROBSIZE,
                           ![c].inflight = @ - 1]
    BY DEF Retire
  <2>3. ROB \in [Cores -> Buffer]
    BY DEF Typed
  <2> HIDE DEF woken, c
  <2> QED BY <1>1, <2>1, <2>2, <2>3 DEF Buffer
<1>11. ROB' \in [Cores -> Buffer] /\ ROB'[c] = new /\ \A d \in Cores \ {c} : ROB'[d] = ROB[d]
  <2> HIDE DEF new, c
  <2> QED BY <1>1, <1>9, <1>10 DEF Typed
<1>12. /\ loadq' = [loadq EXCEPT ![c] = IF old.entry[h].optype = "R" THEN @ - 1 ELSE @]
       /\ storeq' = [storeq EXCEPT ![c] = IF old.entry[h].optype = "W" THEN @ - 1 ELSE @]
  BY <1>1 DEF Retire, Oldest, rob, Typed
<1>13. /\ read_queue' = read_queue /\ owes' = [owes EXCEPT ![c] = @ \ {h}]
       /\ UNCHANGED <<queues, skipit, phase, val, corecount, num_done, expt_done>>
  BY DEF Retire, rob, queues
<1>14. Left(c)
  <2>1. /\ ROB'[c].head = (h + 1) % ROBSIZE /\ ROB'[c].tail = old.tail
        /\ ROB'[c].inflight = old.inflight - 1 /\ ROB'[c].entry = woken
    BY <1>11
  <2> HIDE DEF woken
  <2> QED BY <1>4, <1>5, <1>7, <1>11, <1>12, <1>13, <2>1 DEF Left
<1>15. loadq' \in [Cores -> Int] /\ storeq' \in [Cores -> Int]
  BY <1>1, <1>12 DEF Typed
<1>16. committed' \in [Cores -> 0..INSTRUCTIONS]
  BY <1>1, ConstantTypes DEF Retire, Typed
<1>17. num' \in 0..Longest({MAX_RETIRE, MAX_FETCH})
  <2>1. num' = num + 1 /\ num < MAX_RETIRE /\ num \in Nat
    BY DEF Retire, MayRetire, Typed
  <2> QED BY <2>1, Bounds, ConstantTypes
<1>18. owes' \in [Cores -> SUBSET Slots]
  BY <1>1, <1>13 DEF Typed
<1>19. Typed'
  BY <1>11, <1>13, <1>15, <1>16, <1>17, <1>18 DEF Typed, queues
<1> QED BY <1>14, <1>19

\* Buffers whose entries have got other times.
LEMMA TimesOnly ==
  ASSUME NEW b \in Buffer, NEW e \in [Slots -> Entry],
         \A s \in Slots : \E t \in Times \cup {BIGNUM} : e[s] = [b.entry[s] EXCEPT !.comptime = t]
  PROVE  /\ [b EXCEPT !.entry = e] \in Buffer
         /\ \A s \in Slots : /\ e[s].optype = b.entry[s].optype
                             /\ e[s].mem_address = b.entry[s].mem_address
                             /\ e[s].next = b.entry[s].next
<1>1. [b EXCEPT !.entry = e] \in Buffer
  BY DEF Buffer
<1>2. \A s \in Slots : b.entry[s] \in Entry
  BY DEF Buffer
<1>3. ASSUME NEW s \in Slots
      PROVE  /\ e[s].optype = b.entry[s].optype
             /\ e[s].mem_address = b.entry[s].mem_address
             /\ e[s].next = b.entry[s].next
  <2>1. PICK t \in Times \cup {BIGNUM} : e[s] = [b.entry[s] EXCEPT !.comptime = t]
    OBVIOUS
  <2>2. b.entry[s] \in Entry
    BY <1>2
  <2> QED BY <2>1, <2>2 DEF Entry
<1> QED BY <1>1, <1>3

LEMMA StepStall == ASSUME Typed, Stall PROVE Typed' /\ Quiet
<1> DEFINE c == numc
           b == ROB[c]
           e == [s \in Slots |-> PushedBack(b.entry[s])]
<1>1. c \in Cores /\ b \in Buffer
  BY TurnIsOfCore DEF Typed
<1>2. skipit + PIPELINEDEPTH \in Times
  BY DelayTimes DEF Typed
<1>3. \A s \in Slots : b.entry[s] \in Entry
  BY <1>1 DEF Buffer
<1>4. ASSUME NEW s \in Slots
      PROVE  /\ e[s] \in Entry
             /\ \E t \in Times \cup {BIGNUM} : e[s] = [b.entry[s] EXCEPT !.comptime = t]
             /\ e[s].comptime = BIGNUM <=> b.entry[s].comptime = BIGNUM
  <2> DEFINE x == b.entry[s]
  <2>1. x \in Entry /\ x.comptime \in Times \cup {BIGNUM}
    BY <1>3 DEF Entry
  <2>2. e[s] = PushedBack(x)
    OBVIOUS
  <2> HIDE DEF x, e
  <2>3. x = [x EXCEPT !.comptime = x.comptime]
    BY <2>1 DEF Entry
  <2>4. skipit + PIPELINEDEPTH # BIGNUM /\ ~ BIGNUM < 0
    BY <1>2, Bounds
  <2>5. CASE x.comptime < 0
    <3>1. e[s] = [x EXCEPT !.comptime = skipit + PIPELINEDEPTH]
      BY <2>2, <2>5 DEF PushedBack
    <3>2. e[s] \in Entry /\ e[s].comptime = skipit + PIPELINEDEPTH
      BY <1>2, <2>1, <3>1 DEF Entry
    <3>3. \E t \in Times \cup {BIGNUM} : e[s] = [x EXCEPT !.comptime = t]
      BY <1>2, <3>1
    <3> QED BY <2>4, <2>5, <3>2, <3>3 DEF x
  <2>6. CASE ~ x.comptime < 0
    <3>1. e[s] = x
      BY <2>2, <2>6 DEF PushedBack
    <3> QED BY <2>1, <2>3, <3>1 DEF x
  <2> QED BY <2>5, <2>6
<1>5. e \in [Slots -> Entry]
  BY <1>4
<1>6. ROB' = [ROB EXCEPT ![c] = [b EXCEPT !.entry = e]]
  BY DEF Stall
<1>7. UNCHANGED <<loadq, storeq, committed, queues, skipit, loop, owes>>
  BY DEF Stall
<1> HIDE DEF c, e
<1>8. /\ [b EXCEPT !.entry = e] \in Buffer
      /\ \A s \in Slots : /\ e[s].optype = b.entry[s].optype
                          /\ e[s].mem_address = b.entry[s].mem_address
                          /\ e[s].next = b.entry[s].next
  <2>1. \A s \in Slots : \E t \in Times \cup {BIGNUM} : e[s] = [b.entry[s] EXCEPT !.comptime = t]
    BY <1>4
  <2> HIDE DEF b
  <2> QED BY <1>1, <1>5, <2>1, TimesOnly
<1>9. ROB' \in [Cores -> Buffer] /\ ROB'[c] = [b EXCEPT !.entry = e]
      /\ \A d \in Cores \ {c} : ROB'[d] = ROB[d]
  BY <1>1, <1>6, <1>8 DEF Typed
<1>10. Typed'
  BY <1>7, <1>9 DEF Typed, queues, loop
<1>11. Quiet
  <2>1. ROB'[c].head = b.head /\ ROB'[c].tail = b.tail /\ ROB'[c].inflight = b.inflight
        /\ ROB'[c].entry = e
    BY <1>1, <1>9 DEF Buffer
  <2>2. SameOrder(c) /\ \A s \in Slots : ROB'[c].entry[s].comptime = BIGNUM
                                             <=> ROB[c].entry[s].comptime = BIGNUM
    BY <1>4, <1>8, <2>1 DEF SameOrder
  <2>3. \A d \in Cores \ {c} : SameOrder(d) /\ \A s \in Slots : ROB'[d].entry[s].comptime = BIGNUM
                                             <=> ROB[d].entry[s].comptime = BIGNUM
    BY <1>9 DEF SameOrder
  <2>4. UNCHANGED <<read_queue, owes, loadq, storeq>>
    BY <1>7 DEF queues
  <2> QED BY <2>2, <2>3, <2>4 DEF Quiet
<1> QED BY <1>10, <1>11

\* Whatever else a step does: buffers that stay as they are are in the same order.
LEMMA BuffersStay ==
  ASSUME UNCHANGED <<ROB, read_queue, owes, loadq, storeq>> PROVE Quiet
BY DEF Quiet, SameOrder

LEMMA StepRetireTurnOver == ASSUME Typed, RetireTurnOver PROVE Typed' /\ Quiet
<1>1. TurnOver("dram") /\ phase = "retire"
      /\ UNCHANGED <<ROB, loadq, storeq, committed, queues, skipit, val, num_done, expt_done, owes>>
  BY DEF RetireTurnOver
<1>2. /\ corecount' \in Cores /\ phase' \in {"retire", "dram"}
      /\ num' \in 0..Longest({MAX_RETIRE, MAX_FETCH})
  BY <1>1, TurnOverTyped
<1>3. Typed'
  BY <1>1, <1>2 DEF Typed, queues
<1>4. Quiet
  BY <1>1, BuffersStay DEF queues
<1> QED BY <1>3, <1>4

\* The scheduler's turn, whatever it serves.
LEMMA ScheduledTyped ==
  ASSUME Typed, NEW what, Schedule(what),
         ROB' \in [Cores -> Buffer], owes' \in [Cores -> SUBSET Slots],
         read_queue' \subseteq read_queue, write_queue' \subseteq write_queue,
         leaving' \in [reads : 0..1, writes : 0..1], skipit' \in 0..Longest(Stalls)
  PROVE  Typed'
<1>1. /\ phase' = "fetch" /\ num_done' = 0
      /\ UNCHANGED <<loadq, storeq, committed, val, corecount, num, expt_done>>
  BY DEF Schedule
<1>2. IsFiniteSet(read_queue') /\ IsFiniteSet(write_queue')
  BY FS_Subset DEF Typed
<1>3. readqfull' \in BOOLEAN /\ writeqfull' \in BOOLEAN
  BY DEF Schedule, QueuesFull
<1>4. num_done' \in 0..NUMCORES /\ num_done' <= corecount'
  BY <1>1, ConstantTypes DEF Typed, Cores
<1>5. read_queue' \subseteq Requests /\ write_queue' \subseteq Addrs
  BY DEF Typed
<1> QED BY <1>1, <1>2, <1>3, <1>4, <1>5 DEF Typed

LEMMA StepNoService ==
  ASSUME Typed, Schedule(NoDramCycle) \/ Schedule(ServeNothing) PROVE Typed' /\ Quiet
<1>1. /\ UNCHANGED <<ROB, read_queue, write_queue, skipit, owes, loadq, storeq>>
      /\ leaving' \in [reads : 0..1, writes : 0..1]
  <2>1. UNCHANGED <<ROB, read_queue, write_queue, skipit, owes, loadq, storeq>>
    BY DEF Schedule, NoDramCycle, ServeNothing
  <2>2. leaving' = leaving \/ leaving' = [reads |-> 0, writes |-> 0]
    BY DEF Schedule, NoDramCycle, ServeNothing
  <2> QED BY <2>1, <2>2 DEF Typed
<1>2. /\ ROB' \in [Cores -> Buffer] /\ owes' \in [Cores -> SUBSET Slots]
      /\ read_queue' \subseteq read_queue /\ write_queue' \subseteq write_queue
      /\ skipit' \in 0..Longest(Stalls)
  BY <1>1 DEF Typed
<1>3. Typed'
  BY <1>1, <1>2, ScheduledTyped
<1> QED BY <1>1, <1>3, BuffersStay

LEMMA StepMoveRows == ASSUME Typed, Schedule(MoveRows) PROVE Typed' /\ Quiet
<1>1. /\ UNCHANGED <<ROB, read_queue, write_queue, owes, loadq, storeq>>
      /\ leaving' = [reads |-> 0, writes |-> 0]
      /\ \E s \in Stalls : skipit' = s \/ skipit' = skipit
  BY DEF Schedule, MoveRows
<1>2. skipit' \in 0..Longest(Stalls)
  BY <1>1, Bounds DEF Typed
<1>3. /\ ROB' \in [Cores -> Buffer] /\ owes' \in [Cores -> SUBSET Slots]
      /\ read_queue' \subseteq read_queue /\ write_queue' \subseteq write_queue
      /\ leaving' \in [reads : 0..1, writes : 0..1]
  BY <1>1 DEF Typed
<1>4. Typed'
  BY <1>2, <1>3, ScheduledTyped
<1> QED BY <1>1, <1>4, BuffersStay

LEMMA StepServeWrite ==
  ASSUME Typed, NEW a \in write_queue, Schedule(Serve(ServeWrite(a))) PROVE Typed' /\ Quiet
<1>1. /\ UNCHANGED <<ROB, read_queue, owes, loadq, storeq>>
      /\ write_queue' = write_queue \ {a}
      /\ leaving' = [reads |-> 0, writes |-> 1]
      /\ skipit' = skipit
  BY DEF Schedule, Serve, ServeWrite
<1>2. /\ ROB' \in [Cores -> Buffer] /\ owes' \in [Cores -> SUBSET Slots]
      /\ read_queue' \subseteq read_queue /\ write_queue' \subseteq write_queue
      /\ leaving' \in [reads : 0..1, writes : 0..1]
  BY <1>1 DEF Typed
<1>3. skipit' \in 0..Longest(Stalls)
  BY <1>1 DEF Typed
<1>4. Typed'
  BY <1>2, <1>3, ScheduledTyped
<1> QED BY <1>1, <1>4, BuffersStay

LEMMA StepServeRead ==
  ASSUME Typed, NEW r \in read_queue, Schedule(Serve(ServeRead(r))) PROVE Typed' /\ Answered(r)
<1> DEFINE c == r.core
           b == ROB[c]
           t == ReadLatency + PIPELINEDEPTH
           e == [b.entry EXCEPT ![r.slot].comptime = t]
<1>1. /\ read_queue' = read_queue \ {r} /\ write_queue' = write_queue
      /\ leaving' = [reads |-> 1, writes |-> 0]
      /\ ROB' = [ROB EXCEPT ![c].entry[r.slot].comptime = t]
      /\ owes' = [d \in Cores |-> {s \in owes[d] : ROB[d].entry[s].mem_address # r.addr}]
      /\ skipit' = skipit
      /\ UNCHANGED <<loadq, storeq>>
  BY DEF Schedule, Serve, ServeRead
<1>2. c \in Cores /\ r.slot \in Slots /\ b \in Buffer
  BY DEF Typed, Requests
<1>3. t \in Times
  BY DelayTimes
<1>4. b.entry \in [Slots -> Entry] /\ \A s \in Slots : b.entry[s] \in Entry
  BY <1>2 DEF Buffer
<1>5. /\ e \in [Slots -> Entry]
      /\ \A s \in Slots : e[s] = [b.entry[s] EXCEPT !.comptime = IF s = r.slot THEN t ELSE @]
  <2> HIDE DEF t, b
  <2>1. \A x \in Entry : x = [x EXCEPT !.comptime = x.comptime]
    BY DEF Entry
  <2>2. \A x \in Entry : [x EXCEPT !.comptime = t] \in Entry
    BY <1>3 DEF Entry
  <2> HIDE DEF Entry
  <2>3. e = [b.entry EXCEPT ![r.slot] = [@ EXCEPT !.comptime = t]]
    OBVIOUS
  <2> QED BY <1>2, <1>4, <2>1, <2>2, <2>3
<1>6. ROB' = [ROB EXCEPT ![c] = [b EXCEPT !.entry = e]]
  BY <1>1
<1> HIDE DEF c, e
<1>7. /\ [b EXCEPT !.entry = e] \in Buffer
      /\ \A s \in Slots : /\ e[s].optype = b.entry[s].optype
                          /\ e[s].mem_address = b.entry[s].mem_address
                          /\ e[s].next = b.entry[s].next
  <2>1. \A s \in Slots : \E u \in Times \cup {BIGNUM} : e[s] = [b.entry[s] EXCEPT !.comptime = u]
    <3>1. \A s \in Slots : b.entry[s].comptime \in Times \cup {BIGNUM}
      BY <1>4 DEF Entry
    <3> QED BY <1>3, <1>5, <3>1
  <2> HIDE DEF b
  <2> QED BY <1>2, <1>5, <2>1, TimesOnly
<1>8. ROB' \in [Cores -> Buffer] /\ ROB'[c] = [b EXCEPT !.entry = e]
      /\ \A d \in Cores \ {c} : ROB'[d] = ROB[d]
  BY <1>2, <1>6, <1>7 DEF Typed
<1>9. ROB'[c].head = b.head /\ ROB'[c].tail = b.tail /\ ROB'[c].inflight = b.inflight
        /\ ROB'[c].entry = e
  BY <1>2, <1>8 DEF Buffer
<1>10. \A s \in Slots : e[s].comptime = IF s = r.slot THEN t ELSE b.entry[s].comptime
  BY <1>4, <1>5 DEF Entry
<1>11. t # BIGNUM
  BY <1>3, Bounds
<1> HIDE DEF t
<1>12. SameOrder(c) /\ \A s \in Slots : ROB'[c].entry[s].comptime = BIGNUM
          <=> ROB[c].entry[s].comptime = BIGNUM /\ ~ (c = r.core /\ s = r.slot)
  BY <1>7, <1>9, <1>10, <1>11 DEF SameOrder, c
<1>13. \A d \in Cores \ {c} : SameOrder(d) /\ \A s \in Slots : ROB'[d].entry[s].comptime = BIGNUM
          <=> ROB[d].entry[s].comptime = BIGNUM /\ ~ (d = r.core /\ s = r.slot)
  BY <1>8 DEF SameOrder, c
<1>14. Answered(r)
  BY <1>1, <1>12, <1>13 DEF Answered
<1>15. Typed'
  <2>1. owes' \in [Cores -> SUBSET Slots]
    BY <1>1 DEF Typed
  <2>2. leaving' \in [reads : 0..1, writes : 0..1] /\ skipit' \in 0..Longest(Stalls)
        /\ read_queue' \subseteq read_queue /\ write_queue' \subseteq write_queue
    BY <1>1 DEF Typed
  <2> QED BY <1>8, <2>1, <2>2, ScheduledTyped
<1> QED BY <1>14, <1>15

\* The entries after a fetch.
LEMMA FilledEntries ==
  ASSUME NEW t \in Slots, rob.tail = t, NEW e \in [Slots -> Entry],
         NEW op \in {"N", "R", "W"}, NEW a \in Addrs \cup {Nil}, NEW time \in Times \cup {BIGNUM}
  PROVE  LET f == Filled(e, op, a, time) IN
         /\ f \in [Slots -> Entry]
         /\ f[t].optype = op /\ f[t].comptime = time /\ f[t].next = Nil
         /\ a # Nil => f[t].mem_address = a
         /\ \A s \in Slots \ {t} : f[s] = e[s]
<1> DEFINE new == [optype |-> op, comptime |-> time, next |-> Nil,
                   mem_address |-> IF a = Nil THEN e[t].mem_address ELSE a]
           f == Filled(e, op, a, time)
<1>1. e[t] \in Entry /\ e[t].mem_address \in Addrs \cup {Nil}
  BY DEF Entry
<1>2. new \in Entry
  BY <1>1 DEF Entry
<1>3. f = [e EXCEPT ![t] = new]
  BY DEF Filled
<1>4. f \in [Slots -> Entry] /\ f[t] = new /\ \A s \in Slots \ {t} : f[s] = e[s]
  <2> HIDE DEF f, new
  <2> QED BY <1>2, <1>3
<1> HIDE DEF f
<1> QED BY <1>4 DEF f

LEMMA LinkedEntries ==
  ASSUME NEW t \in Slots, rob.tail = t, NEW e \in [Slots -> Entry], NEW a
  PROVE  LET f == Linked(e, a) IN
         /\ f \in [Slots -> Entry]
         /\ f[t] = e[t]
         /\ \A s \in Slots \ {t} :
              /\ f[s].optype = e[s].optype /\ f[s].mem_address = e[s].mem_address
              /\ f[s].comptime = e[s].comptime
              /\ f[s].next = IF e[s].optype = "R" /\ e[s].mem_address = a /\ e[s].next = Nil
                             THEN t ELSE e[s].next
<1> DEFINE f == Linked(e, a)
<1>1. f = [s \in Slots |-> IF s # t /\ e[s].optype = "R" /\ e[s].mem_address = a /\ e[s].next = Nil
                           THEN [e[s] EXCEPT !.next = t] ELSE e[s]]
  BY DEF Linked
<1> HIDE DEF f
<1>2. \A s \in Slots : e[s] \in Entry
  OBVIOUS
<1>3. \A x \in Entry : /\ [x EXCEPT !.next = t] \in Entry
                       /\ [x EXCEPT !.next = t].optype = x.optype
                       /\ [x EXCEPT !.next = t].mem_address = x.mem_address
                       /\ [x EXCEPT !.next = t].comptime = x.comptime
                       /\ [x EXCEPT !.next = t].next = t
  BY DEF Entry
<1>4. f \in [Slots -> Entry]
  <2> HIDE DEF Entry
  <2> QED BY <1>1, <1>2, <1>3
<1>5. f[t] = e[t]
  BY <1>1
<1>6. ASSUME NEW s \in Slots \ {t}
      PROVE  /\ f[s].optype = e[s].optype /\ f[s].mem_address = e[s].mem_address
             /\ f[s].comptime = e[s].comptime
             /\ f[s].next = IF e[s].optype = "R" /\ e[s].mem_address = a /\ e[s].next = Nil
                            THEN t ELSE e[s].next
  BY <1>1, <1>2, <1>3
<1> QED BY <1>4, <1>5, <1>6 DEF f

LEMMA YoungerBuffer ==
  ASSUME NEW b \in Buffer, NEW e, NEW t, NEW i
  PROVE  [b EXCEPT !.entry = e, !.tail = t, !.inflight = i]
           = [head |-> b.head, tail |-> t, inflight |-> i, tracedone |-> b.tracedone, entry |-> e]
<1>1. b = [head |-> b.head, tail |-> b.tail, inflight |-> b.inflight, tracedone |-> b.tracedone,
           entry |-> b.entry]
  BY DEF Buffer
<1> DEFINE b1 == [b EXCEPT !.entry = e]
           b2 == [b1 EXCEPT !.tail = t]
           b3 == [b2 EXCEPT !.inflight = i]
<1>2. b1 = [head |-> b.head, tail |-> b.tail, inflight |-> b.inflight, tracedone |-> b.tracedone,
            entry |-> e]
  BY <1>1
<1>3. b2 = [head |-> b.head, tail |-> t, inflight |-> b.inflight, tracedone |-> b.tracedone,
            entry |-> e]
  <2> HIDE DEF b1
  <2> QED BY <1>2
<1>4. b3 = [head |-> b.head, tail |-> t, inflight |-> i, tracedone |-> b.tracedone, entry |-> e]
  <2> HIDE DEF b2
  <2> QED BY <1>3
<1>5. b3 = [b EXCEPT !.entry = e, !.tail = t, !.inflight = i]
  OBVIOUS
<1> QED BY <1>4, <1>5

LEMMA FetchedTook ==
  ASSUME Typed, MayFetch, NEW op \in {"N", "R", "W"}, NEW a,
         IF op = "N" THEN a = Nil ELSE a \in Lines[numc],
         NEW time \in Times \cup {BIGNUM}, NEW linked \in BOOLEAN, NEW e,
         IF linked THEN e = Linked(Filled(rob.entry, op, a, time), a)
         ELSE e = Filled(rob.entry, op, a, time),
         Fetched(e),
         loadq' = IF op = "R" THEN [loadq EXCEPT ![numc] = @ + 1] ELSE loadq,
         storeq' = IF op = "W" THEN [storeq EXCEPT ![numc] = @ + 1] ELSE storeq
  PROVE  /\ Took(numc, op, a, time, linked)
         /\ ROB' \in [Cores -> Buffer]
         /\ loadq' \in [Cores -> Int] /\ storeq' \in [Cores -> Int]
         /\ num' \in 0..Longest({MAX_RETIRE, MAX_FETCH})
<1> DEFINE c == numc
           b == ROB[c]
           t == b.tail
           f == Filled(b.entry, op, a, time)
<1>1. c \in Cores /\ b \in Buffer /\ ROB \in [Cores -> Buffer]
  BY TurnIsOfCore DEF Typed
<1>2. /\ b.head \in Slots /\ t \in Slots /\ b.inflight \in 0..ROBSIZE
      /\ b.entry \in [Slots -> Entry]
  BY <1>1 DEF Buffer
<1>3. b.inflight < ROBSIZE
  BY DEF MayFetch, Room, rob
<1>4. a \in Addrs \cup {Nil} /\ (op # "N" => a # Nil)
  BY <1>1, ConstantTypes
<1>5. /\ f \in [Slots -> Entry]
      /\ f[t].optype = op /\ f[t].comptime = time /\ f[t].next = Nil
      /\ a # Nil => f[t].mem_address = a
      /\ \A s \in Slots \ {t} : f[s] = b.entry[s]
  <2>1. rob.tail = t
    BY DEF rob
  <2> HIDE DEF t, b, c
  <2> DEFINE old == b.entry
  <2>2. old \in [Slots -> Entry] /\ t \in Slots
    BY <1>2
  <2> HIDE DEF old
  <2>3. LET g == Filled(old, op, a, time) IN
         /\ g \in [Slots -> Entry]
         /\ g[t].optype = op /\ g[t].comptime = time /\ g[t].next = Nil
         /\ a # Nil => g[t].mem_address = a
         /\ \A s \in Slots \ {t} : g[s] = old[s]
    BY <1>4, <2>1, <2>2, FilledEntries
  <2> QED BY <2>3 DEF old
<1>6. IF linked THEN e = Linked(f, a) ELSE e = f
  BY DEF rob
<1> HIDE DEF f
<1>7. /\ e \in [Slots -> Entry]
      /\ e[t] = f[t]
      /\ \A s \in Slots \ {t} :
           /\ e[s].optype = f[s].optype /\ e[s].mem_address = f[s].mem_address
           /\ e[s].comptime = f[s].comptime
           /\ e[s].next = IF linked /\ f[s].optype = "R" /\ f[s].mem_address = a /\ f[s].next = Nil
                          THEN t ELSE f[s].next
  <2>1. rob.tail = t
    BY DEF rob
  <2> HIDE DEF t, b, c
  <2>2. CASE linked
    <3>0. f \in [Slots -> Entry] /\ t \in Slots
      BY <1>2, <1>5
    <3>1. /\ Linked(f, a) \in [Slots -> Entry]
          /\ Linked(f, a)[t] = f[t]
          /\ \A s \in Slots \ {t} :
               /\ Linked(f, a)[s].optype = f[s].optype
               /\ Linked(f, a)[s].mem_address = f[s].mem_address
               /\ Linked(f, a)[s].comptime = f[s].comptime
               /\ Linked(f, a)[s].next = IF f[s].optype = "R" /\ f[s].mem_address = a /\ f[s].next = Nil
                             THEN t ELSE f[s].next
      BY <3>0, <2>1, LinkedEntries
    <3> QED BY <1>6, <2>2, <3>1
  <2>3. CASE ~ linked
    BY <1>5, <1>6, <2>3
  <2> QED BY <2>2, <2>3
<1>8. ROB' = [ROB EXCEPT ![c].entry = e, ![c].tail = (@ + 1) % ROBSIZE, ![c].inflight = @ + 1]
  BY DEF Fetched
<1>9. (t + 1) % ROBSIZE \in Slots
  BY <1>2, Ring
<1>10. b.inflight + 1 \in 0..ROBSIZE
  BY <1>2, <1>3, ConstantTypes
<1>11. /\ ROB' \in [Cores -> Buffer]
       /\ \A d \in Cores \ {c} : ROB'[d] = ROB[d]
       /\ ROB'[c].head = b.head /\ ROB'[c].tail = (t + 1) % ROBSIZE
       /\ ROB'[c].inflight = b.inflight + 1 /\ ROB'[c].entry = e
  <2> DEFINE new == [head |-> b.head, tail |-> (t + 1) % ROBSIZE, inflight |-> b.inflight + 1,
                     tracedone |-> b.tracedone, entry |-> e]
  <2>1. new \in Buffer
    <3>1. b.tracedone \in BOOLEAN
      BY <1>1 DEF Buffer
    <3> HIDE DEF t, b
    <3> QED BY <1>2, <1>7, <1>9, <1>10, <3>1 DEF Buffer
  <2>2. ROB' = [ROB EXCEPT ![c] = new]
    <3> HIDE DEF c
    <3>1. ROB' = [ROB EXCEPT ![c] = [b EXCEPT !.entry = e, !.tail = (t + 1) % ROBSIZE,
                                              !.inflight = b.inflight + 1]]
      BY <1>1, <1>8
    <3>2. [b EXCEPT !.entry = e, !.tail = (t + 1) % ROBSIZE, !.inflight = b.inflight + 1] = new
      <4> DEFINE u == (t + 1) % ROBSIZE
                 i == b.inflight + 1
      <4> HIDE DEF u, i
      <4>1. [b EXCEPT !.entry = e, !.tail = u, !.inflight = i]
              = [head |-> b.head, tail |-> u, inflight |-> i, tracedone |-> b.tracedone, entry |-> e]
        BY <1>1, YoungerBuffer
      <4> QED BY <4>1 DEF u, i
    <3> QED BY <3>1, <3>2
  <2> HIDE DEF c
  <2>3. ROB'[c] = new /\ ROB' \in [Cores -> Buffer] /\ \A d \in Cores \ {c} : ROB'[d] = ROB[d]
    <3> HIDE DEF new
    <3> QED BY <1>1, <2>1, <2>2
  <2> QED BY <2>3
<1>12. /\ loadq' = [loadq EXCEPT ![c] = IF op = "R" THEN @ + 1 ELSE @]
       /\ storeq' = [storeq EXCEPT ![c] = IF op = "W" THEN @ + 1 ELSE @]
  BY <1>1 DEF Typed
<1>13. loadq' \in [Cores -> Int] /\ storeq' \in [Cores -> Int]
  BY <1>1, <1>12 DEF Typed
<1>14. num' \in 0..Longest({MAX_RETIRE, MAX_FETCH})
  <2>1. num' = num + 1 /\ num < MAX_FETCH /\ num \in Nat
    BY DEF Fetched, MayFetch, Typed
  <2> QED BY <2>1, Bounds, ConstantTypes
<1>15. Took(c, op, a, time, linked)
  <2>1. op = "N" \/ a \in Lines[c]
    OBVIOUS
  <2>2. /\ e[t].optype = op /\ e[t].comptime = time /\ e[t].next = Nil
        /\ op # "N" => e[t].mem_address = a
    BY <1>4, <1>5, <1>7
  <2>3. \A s \in Slots \ {t} :
          /\ e[s].optype = b.entry[s].optype
          /\ e[s].mem_address = b.entry[s].mem_address
          /\ e[s].comptime = b.entry[s].comptime
          /\ e[s].next =
               IF linked /\ b.entry[s].optype = "R" /\ b.entry[s].mem_address = a
                    /\ b.entry[s].next = Nil
               THEN t ELSE b.entry[s].next
    BY <1>5, <1>7
  <2> HIDE DEF c
  <2> QED BY <1>3, <1>11, <1>12, <2>1, <2>2, <2>3 DEF Took
<1> QED BY <1>11, <1>13, <1>14, <1>15

\* The types after a fetch.
LEMMA FetchTyped ==
  ASSUME Typed, NEW e, Fetched(e),
         ROB' \in [Cores -> Buffer], loadq' \in [Cores -> Int], storeq' \in [Cores -> Int],
         num' \in 0..Longest({MAX_RETIRE, MAX_FETCH}),
         read_queue' \subseteq Requests, write_queue' \subseteq Addrs,
         IsFiniteSet(read_queue'), IsFiniteSet(write_queue'),
         leaving' = leaving, readqfull' \in BOOLEAN, writeqfull' \in BOOLEAN,
         owes' \in [Cores -> SUBSET Slots]
  PROVE  Typed'
<1>1. UNCHANGED <<committed, skipit, phase, val, corecount, num_done, expt_done>>
  BY DEF Fetched
<1> QED BY <1>1 DEF Typed

LEMMA WriteBackTyped ==
  ASSUME Typed, WriteBack PROVE write_queue' \subseteq Addrs /\ IsFiniteSet(write_queue')
<1>1. CASE UNCHANGED write_queue
  BY <1>1 DEF Typed
<1>2. CASE \E victim \in Addrs : write_queue' = write_queue \cup {victim}
  <2>1. PICK victim \in Addrs : write_queue' = write_queue \cup {victim}
    BY <1>2
  <2>2. IsFiniteSet(write_queue) /\ write_queue \subseteq Addrs
    BY DEF Typed
  <2>3. IsFiniteSet(write_queue \cup {victim})
    BY <2>2, FS_AddElement
  <2> QED BY <2>1, <2>2, <2>3
<1> QED BY <1>1, <1>2 DEF WriteBack

LEMMA TookReadyWhen ==
  ASSUME NEW c, NEW op, NEW a, NEW time \in Times, Took(c, op, a, time, FALSE),
         UNCHANGED <<read_queue, owes>>
  PROVE  TookReady(c)
BY DEF TookReady

LEMMA StepFetchN == ASSUME Typed, FetchN PROVE Typed' /\ TookReady(numc)
<1> DEFINE e == Filled(rob.entry, "N", Nil, PIPELINEDEPTH)
<1>1. /\ MayFetch /\ Fetched(e)
      /\ UNCHANGED <<loadq, storeq, read_queue, write_queue, leaving, readqfull, writeqfull, owes>>
  BY DEF FetchN, queues
<1>2. PIPELINEDEPTH \in Times /\ FALSE \in BOOLEAN
  BY DelayTimes
<1>3. /\ Took(numc, "N", Nil, PIPELINEDEPTH, FALSE)
      /\ ROB' \in [Cores -> Buffer]
      /\ loadq' \in [Cores -> Int] /\ storeq' \in [Cores -> Int]
      /\ num' \in 0..Longest({MAX_RETIRE, MAX_FETCH})
  <2> HIDE DEF e
  <2>1. IF FALSE THEN e = Linked(Filled(rob.entry, "N", Nil, PIPELINEDEPTH), Nil)
        ELSE e = Filled(rob.entry, "N", Nil, PIPELINEDEPTH)
    BY DEF e
  <2>2. IF "N" = "N" THEN Nil = Nil ELSE Nil \in Lines[numc]
    OBVIOUS
  <2>3. loadq' = (IF "N" = "R" THEN [loadq EXCEPT ![numc] = @ + 1] ELSE loadq)
        /\ storeq' = (IF "N" = "W" THEN [storeq EXCEPT ![numc] = @ + 1] ELSE storeq)
    BY <1>1
  <2> QED BY <1>1, <1>2, <2>1, <2>2, <2>3, FetchedTook
<1>4. TookReady(numc)
  BY <1>1, <1>2, <1>3, TookReadyWhen
<1>5. Typed'
  <2>1. /\ read_queue' \subseteq Requests /\ write_queue' \subseteq Addrs
        /\ IsFiniteSet(read_queue') /\ IsFiniteSet(write_queue')
        /\ readqfull' \in BOOLEAN /\ writeqfull' \in BOOLEAN
        /\ owes' \in [Cores -> SUBSET Slots]
    BY <1>1 DEF Typed
  <2> HIDE DEF e
  <2> QED BY <1>1, <1>3, <2>1, FetchTyped
<1> QED BY <1>4, <1>5

LEMMA StepFetchW ==
  ASSUME Typed, NEW a \in Lines[numc], FetchW(a) PROVE Typed' /\ TookReady(numc)
<1> DEFINE e == Filled(rob.entry, "W", a, PIPELINEDEPTH)
<1>1. /\ MayFetch /\ Fetched(e) /\ WriteBack
      /\ storeq' = [storeq EXCEPT ![numc] = @ + 1]
      /\ UNCHANGED <<loadq, read_queue, leaving, owes>>
      /\ QueuesFull
  BY DEF FetchW
<1>2. PIPELINEDEPTH \in Times
  BY DelayTimes
<1>3. /\ Took(numc, "W", a, PIPELINEDEPTH, FALSE)
      /\ ROB' \in [Cores -> Buffer]
      /\ loadq' \in [Cores -> Int] /\ storeq' \in [Cores -> Int]
      /\ num' \in 0..Longest({MAX_RETIRE, MAX_FETCH})
  <2> HIDE DEF e
  <2>1. IF FALSE THEN e = Linked(Filled(rob.entry, "W", a, PIPELINEDEPTH), a)
        ELSE e = Filled(rob.entry, "W", a, PIPELINEDEPTH)
    BY DEF e
  <2>2. IF "W" = "N" THEN a = Nil ELSE a \in Lines[numc]
    OBVIOUS
  <2>3. loadq' = (IF "W" = "R" THEN [loadq EXCEPT ![numc] = @ + 1] ELSE loadq)
        /\ storeq' = (IF "W" = "W" THEN [storeq EXCEPT ![numc] = @ + 1] ELSE storeq)
    BY <1>1
  <2> QED BY <1>1, <1>2, <2>1, <2>2, <2>3, FetchedTook
<1>4. TookReady(numc)
  BY <1>1, <1>2, <1>3, TookReadyWhen
<1>5. Typed'
  <2>1. /\ read_queue' \subseteq Requests /\ IsFiniteSet(read_queue') /\ leaving' = leaving
        /\ owes' \in [Cores -> SUBSET Slots]
    BY <1>1 DEF Typed
  <2>2. readqfull' \in BOOLEAN /\ writeqfull' \in BOOLEAN
    BY <1>1 DEF QueuesFull
  <2>3. write_queue' \subseteq Addrs /\ IsFiniteSet(write_queue')
    BY <1>1, WriteBackTyped
  <2> HIDE DEF e
  <2> QED BY <1>1, <1>3, <2>1, <2>2, <2>3, FetchTyped
<1> QED BY <1>4, <1>5

\* A load, wherever its line comes from.
LEMMA LoadTook ==
  ASSUME Typed, NEW a \in Lines[numc], FetchR(a), NEW time \in Times \cup {BIGNUM},
         NEW linked \in BOOLEAN, NEW e,
         IF linked THEN e = Linked(Filled(rob.entry, "R", a, time), a)
         ELSE e = Filled(rob.entry, "R", a, time),
         Fetched(e), IsFiniteSet(read_queue'), read_queue' \subseteq Requests,
         owes' \in [Cores -> SUBSET Slots], WriteBack \/ UNCHANGED write_queue
  PROVE  Took(numc, "R", a, time, linked) /\ Typed'
<1>1. /\ MayFetch /\ loadq' = [loadq EXCEPT ![numc] = @ + 1]
      /\ UNCHANGED <<storeq, leaving>> /\ QueuesFull
  BY DEF FetchR
<1>2. /\ Took(numc, "R", a, time, linked)
      /\ ROB' \in [Cores -> Buffer]
      /\ loadq' \in [Cores -> Int] /\ storeq' \in [Cores -> Int]
      /\ num' \in 0..Longest({MAX_RETIRE, MAX_FETCH})
  <2>2. IF "R" = "N" THEN a = Nil ELSE a \in Lines[numc]
    OBVIOUS
  <2>3. loadq' = (IF "R" = "R" THEN [loadq EXCEPT ![numc] = @ + 1] ELSE loadq)
        /\ storeq' = (IF "R" = "W" THEN [storeq EXCEPT ![numc] = @ + 1] ELSE storeq)
    BY <1>1
  <2> QED BY <1>1, <2>2, <2>3, FetchedTook
<1>3. Typed'
  <2>2. readqfull' \in BOOLEAN /\ writeqfull' \in BOOLEAN
    BY <1>1 DEF QueuesFull
  <2>3. write_queue' \subseteq Addrs /\ IsFiniteSet(write_queue')
    BY WriteBackTyped DEF Typed
  <2> QED BY <1>1, <1>2, <2>2, <2>3, FetchTyped
<1> QED BY <1>2, <1>3

LEMMA StepFetchR ==
  ASSUME Typed, NEW a \in Lines[numc], FetchR(a)
  PROVE  Typed' /\ (TookReady(numc) \/ TookMerged(numc, a) \/ TookRequested(numc, a))
<1> DEFINE c == numc
           t == ROB[c].tail
<1>1. c \in Cores /\ t \in Slots /\ rob.tail = t /\ a \in Addrs
  BY TurnIsOfCore, ConstantTypes DEF Typed, Buffer, rob
<1>2. /\ read_queue \subseteq Requests /\ IsFiniteSet(read_queue)
      /\ owes \in [Cores -> SUBSET Slots]
  BY DEF Typed
<1>3. [owes EXCEPT ![c] = @ \cup {t}] \in [Cores -> SUBSET Slots]
  <2> HIDE DEF c, t
  <2> QED BY <1>1, <1>2
<1>4. /\ L3_LATENCY + PIPELINEDEPTH \in Times /\ WQ_LOOKUP_LATENCY + PIPELINEDEPTH \in Times
  BY DelayTimes
<1>5. ASSUME NEW time \in Times, Fetched(Filled(rob.entry, "R", a, time)),
             UNCHANGED <<read_queue, owes>>, WriteBack \/ UNCHANGED write_queue
      PROVE  Typed' /\ TookReady(numc)
  <2> DEFINE e == Filled(rob.entry, "R", a, time)
  <2>1. IF FALSE THEN e = Linked(Filled(rob.entry, "R", a, time), a)
        ELSE e = Filled(rob.entry, "R", a, time)
    OBVIOUS
  <2>2. Fetched(e)
    BY <1>5
  <2>3. /\ IsFiniteSet(read_queue') /\ read_queue' \subseteq Requests
        /\ owes' \in [Cores -> SUBSET Slots]
    BY <1>2, <1>5
  <2> HIDE DEF e, c, t
  <2>4. Took(numc, "R", a, time, FALSE) /\ Typed'
    BY <1>5, <2>1, <2>2, <2>3, LoadTook
  <2> QED BY <1>5, <2>4, TookReadyWhen
<1>6. CASE /\ Fetched(Filled(rob.entry, "R", a, L3_LATENCY + PIPELINEDEPTH))
           /\ UNCHANGED <<read_queue, write_queue, owes>>
  BY <1>4, <1>5, <1>6
<1>7. CASE Miss(a) /\ WriteBack
  <2>1. CASE /\ Fetched(Filled(rob.entry, "R", a, WQ_LOOKUP_LATENCY + PIPELINEDEPTH))
             /\ UNCHANGED <<read_queue, owes>>
    BY <1>4, <1>5, <1>7, <2>1
  <2>2. CASE /\ PendingRead(a)
             /\ Fetched(Linked(Filled(rob.entry, "R", a, BIGNUM), a))
             /\ owes' = [owes EXCEPT ![numc] = @ \cup {rob.tail}]
             /\ UNCHANGED read_queue
    <3> DEFINE e == Linked(Filled(rob.entry, "R", a, BIGNUM), a)
    <3>1. IF TRUE THEN e = Linked(Filled(rob.entry, "R", a, BIGNUM), a)
          ELSE e = Filled(rob.entry, "R", a, BIGNUM)
      OBVIOUS
    <3>2. Fetched(e)
      BY <2>2
    <3>3. owes' = [owes EXCEPT ![c] = @ \cup {t}]
      BY <1>1, <2>2
    <3>4. /\ IsFiniteSet(read_queue') /\ read_queue' \subseteq Requests
          /\ owes' \in [Cores -> SUBSET Slots]
      <4> HIDE DEF c, t
      <4> QED BY <1>2, <1>3, <2>2, <3>3
    <3> HIDE DEF e
    <3>5. Took(numc, "R", a, BIGNUM, TRUE) /\ Typed'
      BY <1>7, <3>1, <3>2, <3>4, LoadTook
    <3>6. TookMerged(numc, a)
      BY <2>2, <3>3, <3>5 DEF TookMerged, PendingRead
    <3> QED BY <3>5, <3>6
  <2>3. CASE /\ Fetched(Filled(rob.entry, "R", a, BIGNUM))
             /\ owes' = [owes EXCEPT ![numc] = @ \cup {rob.tail}]
             /\ read_queue' = read_queue \cup {[core |-> numc, slot |-> rob.tail, addr |-> a]}
    <3> DEFINE e == Filled(rob.entry, "R", a, BIGNUM)
               r == [core |-> c, slot |-> t, addr |-> a]
    <3>1. IF FALSE THEN e = Linked(Filled(rob.entry, "R", a, BIGNUM), a)
          ELSE e = Filled(rob.entry, "R", a, BIGNUM)
      OBVIOUS
    <3>2. Fetched(e)
      BY <2>3
    <3>3. owes' = [owes EXCEPT ![c] = @ \cup {t}] /\ read_queue' = read_queue \cup {r}
      BY <1>1, <2>3
    <3>4. /\ IsFiniteSet(read_queue') /\ read_queue' \subseteq Requests
          /\ owes' \in [Cores -> SUBSET Slots]
      <4> HIDE DEF c, t
      <4>1. r \in Requests
        BY <1>1 DEF Requests
      <4> HIDE DEF r
      <4>2. IsFiniteSet(read_queue \cup {r})
        BY <1>2, FS_AddElement
      <4> QED BY <1>2, <1>3, <3>3, <4>1, <4>2
    <3> HIDE DEF e
    <3>5. Took(numc, "R", a, BIGNUM, FALSE) /\ Typed'
      BY <1>7, <3>1, <3>2, <3>4, LoadTook
    <3>6. TookRequested(numc, a)
      BY <3>3, <3>5 DEF TookRequested
    <3> QED BY <3>5, <3>6
  <2> QED BY <1>7, <2>1, <2>2, <2>3 DEF Miss
<1> QED BY <1>6, <1>7 DEF FetchR

LEMMA LaterEntry ==
  ASSUME NEW x \in Entry
  PROVE  /\ Later(x) \in Entry
         /\ \E t \in Times \cup {BIGNUM} : Later(x) = [x EXCEPT !.comptime = t]
         /\ Later(x).comptime = BIGNUM <=> x.comptime = BIGNUM
<1>1. x.comptime \in Times \cup {BIGNUM} /\ x = [x EXCEPT !.comptime = x.comptime]
  BY DEF Entry
<1>2. CASE x.comptime \in {-1, BIGNUM}
  BY <1>1, <1>2 DEF Later
<1>3. CASE x.comptime \notin {-1, BIGNUM}
  <2> DEFINE t == x.comptime - 1
  <2>1. x.comptime \in Times /\ x.comptime # -1
    BY <1>1, <1>3
  <2>2. t \in Times /\ t # BIGNUM
    BY <2>1, DelayTimes, Bounds
  <2>3. Later(x) = [x EXCEPT !.comptime = t]
    BY <1>3 DEF Later
  <2> HIDE DEF t
  <2>4. Later(x) \in Entry /\ Later(x).comptime = t
    BY <2>2, <2>3 DEF Entry
  <2> QED BY <1>3, <2>2, <2>3, <2>4
<1> QED BY <1>2, <1>3

\* A buffer when a cycle has passed.
LEMMA LaterBuffer ==
  ASSUME NEW b \in Buffer
  PROVE  LET n == [b EXCEPT !.entry = [s \in Slots |-> Later(@[s])]] IN
         /\ n \in Buffer
         /\ n.head = b.head /\ n.tail = b.tail /\ n.inflight = b.inflight
         /\ \A s \in Slots : /\ n.entry[s].optype = b.entry[s].optype
                             /\ n.entry[s].mem_address = b.entry[s].mem_address
                             /\ n.entry[s].next = b.entry[s].next
                             /\ n.entry[s].comptime = BIGNUM <=> b.entry[s].comptime = BIGNUM
<1> DEFINE e == [s \in Slots |-> Later(b.entry[s])]
           n == [b EXCEPT !.entry = e]
<1>1. \A s \in Slots : b.entry[s] \in Entry
  BY DEF Buffer
<1>2. e \in [Slots -> Entry]
      /\ \A s \in Slots : \E t \in Times \cup {BIGNUM} : e[s] = [b.entry[s] EXCEPT !.comptime = t]
  BY <1>1, LaterEntry
<1>3. \A s \in Slots : e[s].comptime = BIGNUM <=> b.entry[s].comptime = BIGNUM
  BY <1>1, LaterEntry
<1> HIDE DEF e
<1>4. /\ n \in Buffer
      /\ \A s \in Slots : /\ e[s].optype = b.entry[s].optype
                          /\ e[s].mem_address = b.entry[s].mem_address
                          /\ e[s].next = b.entry[s].next
  BY <1>2, TimesOnly
<1>5. n.head = b.head /\ n.tail = b.tail /\ n.inflight = b.inflight /\ n.entry = e
  BY DEF Buffer
<1> HIDE DEF n
<1>6. /\ n \in Buffer
      /\ n.head = b.head /\ n.tail = b.tail /\ n.inflight = b.inflight
      /\ \A s \in Slots : /\ n.entry[s].optype = b.entry[s].optype
                          /\ n.entry[s].mem_address = b.entry[s].mem_address
                          /\ n.entry[s].next = b.entry[s].next
                          /\ n.entry[s].comptime = BIGNUM <=> b.entry[s].comptime = BIGNUM
  BY <1>3, <1>4, <1>5
<1>7. n = [b EXCEPT !.entry = [s \in Slots |-> Later(@[s])]]
  BY DEF n, e
<1> QED BY <1>6, <1>7

LEMMA LaterSameOrder ==
  ASSUME NEW c \in Cores, NEW b \in Buffer,
         b.head = ROB[c].head, b.tail = ROB[c].tail, b.inflight = ROB[c].inflight,
         b.entry = ROB[c].entry,
         ROB'[c] = [b EXCEPT !.entry = [s \in Slots |-> Later(@[s])]]
  PROVE  /\ ROB'[c] \in Buffer
         /\ SameOrder(c)
         /\ \A s \in Slots : ROB'[c].entry[s].comptime = BIGNUM
                               <=> ROB[c].entry[s].comptime = BIGNUM
<1> DEFINE n == [b EXCEPT !.entry = [s \in Slots |-> Later(@[s])]]
<1>1. /\ n \in Buffer
      /\ n.head = b.head /\ n.tail = b.tail /\ n.inflight = b.inflight
      /\ \A s \in Slots : /\ n.entry[s].optype = b.entry[s].optype
                          /\ n.entry[s].mem_address = b.entry[s].mem_address
                          /\ n.entry[s].next = b.entry[s].next
                          /\ n.entry[s].comptime = BIGNUM <=> b.entry[s].comptime = BIGNUM
  BY LaterBuffer
<1>2. ROB'[c] = n
  OBVIOUS
<1> HIDE DEF n
<1>3. SameOrder(c)
  BY <1>1, <1>2 DEF SameOrder
<1> QED BY <1>1, <1>2, <1>3

LEMMA StepFetchTurnOver == ASSUME Typed, FetchTurnOver PROVE Typed' /\ Quiet
<1> DEFINE robs == [ROB EXCEPT ![numc].tracedone = @ \/ committed[numc] >= INSTRUCTIONS]
<1>1. /\ phase = "fetch" /\ TurnOver("retire")
      /\ num_done' = IF Drained THEN num_done + 1 ELSE num_done
      /\ UNCHANGED <<loadq, storeq, committed, read_queue, write_queue, leaving,
                     readqfull, writeqfull, owes>>
      /\ IF corecount' = 0
         THEN /\ ROB' = [c \in Cores |->
                           [robs[c] EXCEPT !.entry = [s \in Slots |-> Later(@[s])]]]
              /\ skipit' = IF skipit = 0 THEN 0 ELSE skipit - 1
              /\ val' \in Cores
              /\ expt_done' = (num_done' = NUMCORES)
         ELSE ROB' = robs /\ UNCHANGED <<skipit, val, expt_done>>
  BY DEF FetchTurnOver, queues
<1>2. /\ corecount' \in Cores /\ phase' \in {"retire", "dram", "fetch"}
      /\ num' \in 0..Longest({MAX_RETIRE, MAX_FETCH})
      /\ IF corecount = NUMCORES - 1 THEN corecount' = 0 /\ phase' = "retire"
         ELSE corecount' = corecount + 1 /\ phase' = phase
  BY <1>1, TurnOverTyped
<1>3. /\ robs \in [Cores -> Buffer]
      /\ \A c \in Cores : /\ robs[c].head = ROB[c].head /\ robs[c].tail = ROB[c].tail
                          /\ robs[c].inflight = ROB[c].inflight /\ robs[c].entry = ROB[c].entry
  <2> DEFINE b == ROB[numc]
             done == b.tracedone \/ committed[numc] >= INSTRUCTIONS
             new == [b EXCEPT !.tracedone = done]
  <2>1. numc \in Cores /\ b \in Buffer /\ ROB \in [Cores -> Buffer]
    BY TurnIsOfCore DEF Typed
  <2>2. done \in BOOLEAN
    OBVIOUS
  <2>3. robs = [ROB EXCEPT ![numc] = new]
    BY <2>1
  <2> HIDE DEF done, robs
  <2>4. new \in Buffer /\ new.head = b.head /\ new.tail = b.tail /\ new.inflight = b.inflight
        /\ new.entry = b.entry
    <3> HIDE DEF b
    <3> QED BY <2>1, <2>2 DEF Buffer
  <2> HIDE DEF new
  <2> QED BY <2>1, <2>3, <2>4
<1> HIDE DEF robs
<1>4. /\ ROB' \in [Cores -> Buffer]
      /\ \A c \in Cores : /\ SameOrder(c)
                          /\ \A s \in Slots : ROB'[c].entry[s].comptime = BIGNUM
                                                <=> ROB[c].entry[s].comptime = BIGNUM
  <2>1. CASE corecount' = 0
    <3>1. ROB' = [c \in Cores |-> [robs[c] EXCEPT !.entry = [s \in Slots |-> Later(@[s])]]]
      BY <1>1, <2>1
    <3>2. ASSUME NEW c \in Cores
          PROVE  /\ ROB'[c] \in Buffer
                 /\ SameOrder(c)
                 /\ \A s \in Slots : ROB'[c].entry[s].comptime = BIGNUM
                                                <=> ROB[c].entry[s].comptime = BIGNUM
      <4> DEFINE b == robs[c]
      <4>1. /\ b \in Buffer
            /\ b.head = ROB[c].head /\ b.tail = ROB[c].tail
            /\ b.inflight = ROB[c].inflight /\ b.entry = ROB[c].entry
        BY <1>3
      <4>2. ROB'[c] = [b EXCEPT !.entry = [s \in Slots |-> Later(@[s])]]
        BY <3>1
      <4> HIDE DEF b
      <4> QED BY <4>1, <4>2, LaterSameOrder
    <3>3. DOMAIN ROB' = Cores /\ ROB' = [c \in Cores |-> ROB'[c]]
      BY <3>1
    <3>4. ROB' \in [Cores -> Buffer]
      BY <3>2, <3>3
    <3> QED BY <3>2, <3>4
  <2>2. CASE corecount' # 0
    BY <1>1, <1>3, <2>2 DEF SameOrder
  <2> QED BY <2>1, <2>2
<1>5. Quiet
  BY <1>1, <1>4 DEF Quiet
<1>6. skipit' \in 0..Longest(Stalls)
  <2>1. skipit \in 0..Longest(Stalls) /\ Longest(Stalls) \in Nat
    BY Bounds DEF Typed
  <2>2. skipit' \in {skipit, IF skipit = 0 THEN 0 ELSE skipit - 1}
    BY <1>1
  <2> QED BY <2>1, <2>2
<1>7. val' \in Cores
  BY <1>1 DEF Typed
<1>8. expt_done' \in BOOLEAN
  <2>1. expt_done \in BOOLEAN
    BY DEF Typed
  <2>2. CASE corecount' = 0
    <3>1. expt_done' = (num_done' = NUMCORES)
      BY <1>1, <2>2
    <3> QED BY <3>1
  <2>3. CASE corecount' # 0
    <3>1. expt_done' = expt_done
      BY <1>1, <2>3
    <3> QED BY <2>1, <3>1
  <2> QED BY <2>2, <2>3
<1>9. num_done' \in 0..NUMCORES /\ (phase' = "fetch" => num_done' <= corecount')
  <2>1. num_done \in 0..NUMCORES /\ num_done <= corecount /\ corecount \in 0..(NUMCORES - 1)
        /\ NUMCORES \in Nat
    BY <1>1, ConstantTypes DEF Typed, Cores
  <2>2. num_done' \in {num_done, num_done + 1}
    BY <1>1
  <2>3. num_done' \in 0..NUMCORES
    BY <2>1, <2>2
  <2>4. CASE corecount = NUMCORES - 1
    BY <1>2, <2>3, <2>4
  <2>5. CASE corecount # NUMCORES - 1
    BY <1>2, <2>1, <2>2, <2>3, <2>5
  <2> QED BY <2>4, <2>5
<1>10. Typed'
  BY <1>1, <1>2, <1>4, <1>6, <1>7, <1>8, <1>9 DEF Typed
<1> QED BY <1>5, <1>10

\* Every step keeps the types and has one of the effects.
LEMMA StepEffect == ASSUME Typed, [Next]_vars PROVE Typed' /\ Effect
<1>1. numc \in Cores
  BY TurnIsOfCore
<1>2. CASE UNCHANGED vars
  <2>1. Typed'
    BY <1>2 DEF Typed, vars, queues, loop
  <2>2. Quiet
    BY <1>2, BuffersStay DEF vars, queues
  <2> QED BY <2>1, <2>2 DEF Effect
<1>3. CASE Retire
  BY <1>1, <1>3, StepRetire DEF Effect
<1>4. CASE Stall
  BY <1>4, StepStall DEF Effect
<1>5. CASE RetireTurnOver
  BY <1>5, StepRetireTurnOver DEF Effect
<1>6. CASE Schedule(NoDramCycle)
  BY <1>6, StepNoService DEF Effect
<1>7. CASE DramCycle
  <2>1. CASE Schedule(ServeNothing)
    BY <2>1, StepNoService DEF Effect
  <2>4. CASE Schedule(MoveRows)
    BY <2>4, StepMoveRows DEF Effect
  <2>2. CASE \E r \in read_queue : Schedule(Serve(ServeRead(r)))
    BY <2>2, StepServeRead DEF Effect
  <2>3. CASE \E a \in write_queue : Schedule(Serve(ServeWrite(a)))
    BY <2>3, StepServeWrite DEF Effect
  <2> QED BY <1>7, <2>1, <2>2, <2>3, <2>4 DEF DramCycle, ServeOne
<1>8. CASE Fetch
  <2>1. CASE FetchN
    BY <1>1, <2>1, StepFetchN DEF Effect
  <2>2. CASE \E a \in Lines[numc] : FetchR(a)
    <3>1. PICK a \in Lines[numc] : FetchR(a)
      BY <2>2
    <3>2. Typed' /\ (TookReady(numc) \/ TookMerged(numc, a) \/ TookRequested(numc, a))
      BY <3>1, StepFetchR
    <3> QED BY <1>1, <3>2 DEF Effect
  <2>3. CASE \E a \in Lines[numc] : FetchW(a)
    BY <1>1, <2>3, StepFetchW DEF Effect
  <2> QED BY <1>8, <2>1, <2>2, <2>3 DEF Fetch
<1>9. CASE FetchTurnOver
  BY <1>9, StepFetchTurnOver DEF Effect
<1> QED BY <1>2, <1>3, <1>4, <1>5, <1>6, <1>7, <1>8, <1>9 DEF Next

-----------------------------------------------------------------------------
(* The queues at their limits. *)

\* Full is noticed at once, and no queue is longer than its capacity.
FullNoticed ==
  /\ readqfull = (readLength >= RQ_CAPACITY) /\ readLength <= RQ_CAPACITY
  /\ writeqfull = (writeLength >= WQ_CAPACITY) /\ writeLength <= WQ_CAPACITY

LEMMA Lengths == Typed => readLength \in Nat /\ writeLength \in Nat
<1> SUFFICES ASSUME Typed PROVE readLength \in Nat /\ writeLength \in Nat
  OBVIOUS
<1>1. Cardinality(read_queue) \in Nat /\ Cardinality(write_queue) \in Nat
  BY FS_CardinalityType DEF Typed
<1>2. leaving.reads \in Nat /\ leaving.writes \in Nat
  BY DEF Typed
<1> QED BY <1>1, <1>2 DEF readLength, writeLength

LEMMA InitFull == Init => FullNoticed
<1> SUFFICES ASSUME Init PROVE FullNoticed
  OBVIOUS
<1>1. readLength = 0 /\ writeLength = 0
  <2>1. Cardinality(read_queue) = 0 /\ Cardinality(write_queue) = 0
    BY FS_EmptySet DEF Init
  <2>2. leaving.reads = 0 /\ leaving.writes = 0
    BY DEF Init
  <2> QED BY <2>1, <2>2 DEF readLength, writeLength
<1>2. readqfull = FALSE /\ writeqfull = FALSE
  BY DEF Init
<1>3. ~ 0 >= RQ_CAPACITY /\ 0 <= RQ_CAPACITY /\ ~ 0 >= WQ_CAPACITY /\ 0 <= WQ_CAPACITY
  BY ConstantTypes
<1>4. readqfull = (readLength >= RQ_CAPACITY) /\ readLength <= RQ_CAPACITY
  <2>1. (readLength >= RQ_CAPACITY) = FALSE
    BY <1>1, <1>3
  <2>2. readLength <= RQ_CAPACITY
    BY <1>1, <1>3
  <2> QED BY <1>2, <2>1, <2>2, Zenon
<1>5. writeqfull = (writeLength >= WQ_CAPACITY) /\ writeLength <= WQ_CAPACITY
  <2>1. (writeLength >= WQ_CAPACITY) = FALSE
    BY <1>1, <1>3
  <2>2. writeLength <= WQ_CAPACITY
    BY <1>1, <1>3
  <2> QED BY <1>2, <2>1, <2>2, Zenon
<1> QED BY <1>4, <1>5 DEF FullNoticed

\* A step that changes no queue, or looks whether they are full when it has.
LEMMA QueuesKept == ASSUME FullNoticed, UNCHANGED queues PROVE FullNoticed'
BY DEF FullNoticed, queues, readLength, writeLength

LEMMA QueuesCounted ==
  ASSUME QueuesFull, readLength' <= RQ_CAPACITY, writeLength' <= WQ_CAPACITY PROVE FullNoticed'
BY DEF QueuesFull, FullNoticed

\* A step of the scheduler: the queues get no longer.
LEMMA ServiceShortens ==
  ASSUME Typed, FullNoticed, phase = "dram", QueuesFull,
         \/ UNCHANGED <<read_queue, write_queue, leaving>>
         \/ /\ leaving' = [reads |-> 0, writes |-> 0]
            /\ UNCHANGED <<read_queue, write_queue>>
         \/ \E r \in read_queue : ServeRead(r)
         \/ \E a \in write_queue : ServeWrite(a)
  PROVE  FullNoticed'
<1>1. /\ IsFiniteSet(read_queue) /\ IsFiniteSet(write_queue)
      /\ leaving.reads \in 0..1 /\ leaving.writes \in 0..1
      /\ Cardinality(read_queue) \in Nat /\ Cardinality(write_queue) \in Nat
  BY FS_CardinalityType DEF Typed
<1>2. RQ_CAPACITY \in Nat /\ WQ_CAPACITY \in Nat
  BY ConstantTypes
<1>3. /\ Cardinality(read_queue) + leaving.reads <= RQ_CAPACITY
      /\ Cardinality(write_queue) + leaving.writes <= WQ_CAPACITY
  BY DEF FullNoticed, readLength, writeLength
<1>4. /\ Cardinality(read_queue') + leaving'.reads <= RQ_CAPACITY
      /\ Cardinality(write_queue') + leaving'.writes <= WQ_CAPACITY
  <2>1. CASE UNCHANGED <<read_queue, write_queue, leaving>>
    BY <1>3, <2>1
  <2>2. CASE /\ leaving' = [reads |-> 0, writes |-> 0]
             /\ UNCHANGED <<read_queue, write_queue>>
    <3>1. read_queue' = read_queue /\ write_queue' = write_queue
          /\ leaving'.reads = 0 /\ leaving'.writes = 0
      BY <2>2
    <3> QED BY <1>1, <1>2, <1>3, <3>1
  <2>3. CASE \E r \in read_queue : ServeRead(r)
    <3>1. PICK r \in read_queue : ServeRead(r)
      BY <2>3
    <3>2. read_queue' = read_queue \ {r} /\ write_queue' = write_queue
          /\ leaving'.reads = 1 /\ leaving'.writes = 0
      BY <3>1 DEF ServeRead
    <3>3. Cardinality(read_queue') = Cardinality(read_queue) - 1
      BY <1>1, <3>2, FS_RemoveElement
    <3> QED BY <1>1, <1>2, <1>3, <3>2, <3>3
  <2>4. CASE \E a \in write_queue : ServeWrite(a)
    <3>1. PICK a \in write_queue : ServeWrite(a)
      BY <2>4
    <3>2. write_queue' = write_queue \ {a} /\ read_queue' = read_queue
          /\ leaving'.reads = 0 /\ leaving'.writes = 1
      BY <3>1 DEF ServeWrite
    <3>3. Cardinality(write_queue') = Cardinality(write_queue) - 1
      BY <1>1, <3>2, FS_RemoveElement
    <3> QED BY <1>1, <1>2, <1>3, <3>2, <3>3
  <2> QED BY <2>1, <2>2, <2>3, <2>4
<1>5. readLength' <= RQ_CAPACITY /\ writeLength' <= WQ_CAPACITY
  BY <1>4 DEF readLength, writeLength
<1> QED BY <1>5, QueuesCounted

\* A fetch: one request more in each queue, if neither was full.
LEMMA FetchLengthens ==
  ASSUME Typed, FullNoticed, MayFetch, QueuesFull, leaving' = leaving,
         read_queue' = read_queue \/ \E r : read_queue' = read_queue \cup {r},
         write_queue' = write_queue \/ \E a : write_queue' = write_queue \cup {a}
  PROVE  FullNoticed'
<1>1. /\ IsFiniteSet(read_queue) /\ IsFiniteSet(write_queue)
      /\ leaving.reads \in 0..1 /\ leaving.writes \in 0..1
      /\ Cardinality(read_queue) \in Nat /\ Cardinality(write_queue) \in Nat
  BY FS_CardinalityType DEF Typed
<1>2. RQ_CAPACITY \in Nat /\ WQ_CAPACITY \in Nat
  BY ConstantTypes
<1>3. /\ Cardinality(read_queue) + leaving.reads < RQ_CAPACITY
      /\ Cardinality(write_queue) + leaving.writes < WQ_CAPACITY
  <2>1. ~ (readLength >= RQ_CAPACITY) /\ ~ (writeLength >= WQ_CAPACITY)
    BY DEF FullNoticed, MayFetch
  <2> QED BY <1>1, <1>2, <2>1 DEF readLength, writeLength
<1>4. /\ Cardinality(read_queue') \in {Cardinality(read_queue), Cardinality(read_queue) + 1}
      /\ Cardinality(write_queue') \in {Cardinality(write_queue), Cardinality(write_queue) + 1}
  <2>1. \A r : Cardinality(read_queue \cup {r})
                 \in {Cardinality(read_queue), Cardinality(read_queue) + 1}
    BY <1>1, FS_AddElement
  <2>2. \A a : Cardinality(write_queue \cup {a})
                 \in {Cardinality(write_queue), Cardinality(write_queue) + 1}
    BY <1>1, FS_AddElement
  <2> QED BY <2>1, <2>2
<1>5. readLength' <= RQ_CAPACITY /\ writeLength' <= WQ_CAPACITY
  BY <1>1, <1>2, <1>3, <1>4 DEF readLength, writeLength
<1> QED BY <1>5, QueuesCounted

LEMMA StepFull == ASSUME Typed, FullNoticed, [Next]_vars PROVE FullNoticed'
<1>1. CASE UNCHANGED queues
  BY <1>1, QueuesKept
<1>2. CASE UNCHANGED vars \/ Retire \/ Stall \/ RetireTurnOver \/ FetchN \/ FetchTurnOver
  BY <1>1, <1>2 DEF vars, Retire, Stall, RetireTurnOver, FetchN, FetchTurnOver
<1>3. CASE Schedule(NoDramCycle) \/ DramCycle
  <2>1. phase = "dram" /\ QueuesFull
    BY <1>3 DEF DramCycle, ServeOne, Schedule
  <2>2. \/ UNCHANGED <<read_queue, write_queue, leaving>>
        \/ /\ leaving' = [reads |-> 0, writes |-> 0]
           /\ UNCHANGED <<read_queue, write_queue>>
        \/ \E r \in read_queue : ServeRead(r)
        \/ \E a \in write_queue : ServeWrite(a)
    BY <1>3 DEF DramCycle, ServeOne, Schedule, Serve, ServeNothing, MoveRows, NoDramCycle
  <2> QED BY <2>1, <2>2, ServiceShortens
<1>4. ASSUME NEW a \in Lines[numc], FetchR(a) \/ FetchW(a) PROVE FullNoticed'
  <2>1. MayFetch /\ QueuesFull /\ leaving' = leaving
    BY <1>4 DEF FetchR, FetchW
  <2>2. read_queue' = read_queue \/ \E r : read_queue' = read_queue \cup {r}
    BY <1>4 DEF FetchR, FetchW, Miss
  <2>3. write_queue' = write_queue \/ \E b : write_queue' = write_queue \cup {b}
    BY <1>4 DEF FetchR, FetchW, WriteBack
  <2> QED BY <2>1, <2>2, <2>3, FetchLengthens
<1> QED BY <1>2, <1>3, <1>4 DEF Next, Fetch

-----------------------------------------------------------------------------
(* The window of a buffer: the slots of its instructions in flight. *)

Age(c, s) == Behind(ROB[c].head, s)
InWindow(c, s) == s \in Slots /\ Age(c, s) < ROB[c].inflight

\* The tail comes after the youngest instruction.
TailFollows == \A c \in Cores : ROB[c].tail = (ROB[c].head + ROB[c].inflight) % ROBSIZE

LEMMA BufferTypes ==
  ASSUME Typed, NEW c \in Cores
  PROVE  /\ ROB[c].head \in Slots /\ ROB[c].tail \in Slots /\ ROB[c].inflight \in 0..ROBSIZE
         /\ \A s \in Slots : /\ Age(c, s) \in 0..(ROBSIZE - 1)
                             /\ ROB[c].entry[s].next \in Slots \cup {Nil}
                             /\ ROB[c].entry[s].comptime \in Times \cup {BIGNUM}
                             /\ ROB[c].entry[s].mem_address \in Addrs \cup {Nil}
                             /\ ROB[c].entry[s].optype \in {"-", "N", "R", "W"}
<1>1. ROB[c] \in Buffer
  BY DEF Typed
<1>2. ROB[c].head \in Slots /\ ROB[c].tail \in Slots /\ ROB[c].inflight \in 0..ROBSIZE
      /\ ROB[c].entry \in [Slots -> Entry]
  BY <1>1 DEF Buffer
<1>3. \A s \in Slots : Age(c, s) \in 0..(ROBSIZE - 1)
  BY <1>2, Ring DEF Age
<1> QED BY <1>2, <1>3 DEF Entry

LEMMA WindowSlots ==
  ASSUME Typed, NEW c \in Cores PROVE InFlight(c) = {s \in Slots : InWindow(c, s)}
<1> DEFINE h == ROB[c].head
           n == ROB[c].inflight
<1>1. h \in Slots /\ n \in 0..ROBSIZE /\ ROBSIZE \in Nat \ {0}
  BY BufferTypes, ConstantTypes
<1>2. InFlight(c) = {(h + i) % ROBSIZE : i \in 0..(n - 1)}
  BY DEF InFlight
<1>3. \A s : InWindow(c, s) <=> s \in Slots /\ Behind(h, s) < n
  BY DEF InWindow, Age
<1> HIDE DEF h, n
<1>4. ASSUME NEW i \in 0..(n - 1) PROVE InWindow(c, (h + i) % ROBSIZE)
  <2>1. i \in 0..(ROBSIZE - 1) /\ i \in 0..ROBSIZE
    BY <1>1
  <2>2. Behind(h, (h + i) % ROBSIZE) = i
    BY <1>1, <2>1, Ring
  <2>3. (h + i) % ROBSIZE \in Slots
    BY <1>1, <2>1, Around
  <2> QED BY <1>1, <1>3, <2>2, <2>3
<1>5. ASSUME NEW s, InWindow(c, s) PROVE \E i \in 0..(n - 1) : s = (h + i) % ROBSIZE
  <2>1. s \in Slots /\ Behind(h, s) < n
    BY <1>3, <1>5
  <2>2. Behind(h, s) \in 0..(ROBSIZE - 1) /\ (h + Behind(h, s)) % ROBSIZE = s
    BY <1>1, <2>1, Ring
  <2>3. Behind(h, s) \in 0..(n - 1)
    BY <1>1, <2>1, <2>2
  <2> QED BY <2>2, <2>3
<1> QED BY <1>2, <1>3, <1>4, <1>5

\* The tail is outside the window as long as there is room.
LEMMA TailOutside ==
  ASSUME Typed, TailFollows, NEW c \in Cores, ROB[c].inflight < ROBSIZE
  PROVE  Age(c, ROB[c].tail) = ROB[c].inflight /\ ~ InWindow(c, ROB[c].tail)
<1>1. ROB[c].head \in Slots /\ ROB[c].inflight \in 0..(ROBSIZE - 1)
  BY BufferTypes, ConstantTypes
<1>2. Age(c, ROB[c].tail) = ROB[c].inflight
  <2> DEFINE h == ROB[c].head
             n == ROB[c].inflight
  <2>1. ROB[c].tail = (h + n) % ROBSIZE
    BY DEF TailFollows
  <2> HIDE DEF n
  <2>2. Behind(h, (h + n) % ROBSIZE) = n
    <3> HIDE DEF h
    <3> QED BY <1>1, Ring DEF n, h
  <2> QED BY <2>1, <2>2 DEF Age, n
<1> QED BY <1>1, <1>2 DEF InWindow

LEMMA LeftWindow ==
  ASSUME Typed, NEW c \in Cores, Left(c)
  PROVE  /\ InWindow(c, ROB[c].head)
         /\ \A s \in Slots \ {ROB[c].head} : Age(c, s)' = Age(c, s) - 1
         /\ \A s : InWindow(c, s)' <=> InWindow(c, s) /\ s # ROB[c].head
         /\ \A d \in Cores \ {c} : \A s :
              Age(d, s)' = Age(d, s) /\ (InWindow(d, s)' <=> InWindow(d, s))
<1> DEFINE h == ROB[c].head
           n == ROB[c].inflight
           k == (h + 1) % ROBSIZE
<1>1. h \in Slots /\ n \in 0..ROBSIZE /\ ROBSIZE \in Nat \ {0}
  BY BufferTypes, ConstantTypes
<1>2. n > 0 /\ ROB'[c].head = k /\ ROB'[c].inflight = n - 1 /\ \A d \in Cores \ {c} : ROB'[d] = ROB[d]
  BY DEF Left
<1>3. /\ \A s \in Slots : Behind(h, s) \in 0..(ROBSIZE - 1)
      /\ \A s \in Slots : Behind(k, s) = IF s = h THEN ROBSIZE - 1 ELSE Behind(h, s) - 1
      /\ Behind(h, h) = 0
      /\ \A s \in Slots : Behind(h, s) = 0 => s = h
  BY <1>1, Ring
<1>4. \A s : /\ Age(c, s) = Behind(h, s) /\ Age(c, s)' = Behind(k, s)
             /\ InWindow(c, s) <=> s \in Slots /\ Behind(h, s) < n
             /\ InWindow(c, s)' <=> s \in Slots /\ Behind(k, s) < n - 1
  BY <1>2 DEF Age, InWindow
<1>5. \A d \in Cores \ {c} : \A s : Age(d, s)' = Age(d, s) /\ (InWindow(d, s)' <=> InWindow(d, s))
  BY <1>2 DEF Age, InWindow
<1> HIDE DEF h, n, k
<1>6. InWindow(c, h)
  BY <1>1, <1>2, <1>3, <1>4
<1>7. \A s \in Slots \ {h} : Age(c, s)' = Age(c, s) - 1
  BY <1>3, <1>4
<1>8. ASSUME NEW s PROVE InWindow(c, s)' <=> InWindow(c, s) /\ s # h
  <2>1. CASE s \notin Slots
    BY <1>4, <2>1
  <2>2. CASE s = h
    <3>1. Behind(k, h) = ROBSIZE - 1
      BY <1>1, <1>3
    <3> QED BY <1>1, <1>4, <2>2, <3>1
  <2>3. CASE s \in Slots \ {h}
    <3>1. Behind(k, s) = Behind(h, s) - 1 /\ Behind(h, s) \in Int
      BY <1>3, <2>3
    <3> QED BY <1>1, <1>4, <2>3, <3>1
  <2> QED BY <2>1, <2>2, <2>3
<1> QED BY <1>5, <1>6, <1>7, <1>8 DEF h

LEMMA TookWindow ==
  ASSUME Typed, TailFollows, NEW c \in Cores, NEW op, NEW a, NEW time, NEW linked,
         Took(c, op, a, time, linked)
  PROVE  /\ ~ InWindow(c, ROB[c].tail) /\ Age(c, ROB[c].tail) = ROB[c].inflight
         /\ \A d \in Cores : \A s : Age(d, s)' = Age(d, s)
         /\ \A s : InWindow(c, s)' <=> InWindow(c, s) \/ s = ROB[c].tail
         /\ \A d \in Cores \ {c} : \A s : InWindow(d, s)' <=> InWindow(d, s)
<1>1. /\ ROB[c].inflight < ROBSIZE /\ \A d \in Cores \ {c} : ROB'[d] = ROB[d]
      /\ ROB'[c].head = ROB[c].head /\ ROB'[c].inflight = ROB[c].inflight + 1
  BY DEF Took
<1>2. /\ ROB[c].head \in Slots /\ ROB[c].tail \in Slots /\ ROB[c].inflight \in 0..ROBSIZE
  BY BufferTypes
<1>3. ~ InWindow(c, ROB[c].tail) /\ Age(c, ROB[c].tail) = ROB[c].inflight
  BY <1>1, TailOutside
<1>4. \A d \in Cores : ROB'[d].head = ROB[d].head
  BY <1>1
<1>5. \A d \in Cores : \A s : Age(d, s)' = Age(d, s)
  BY <1>4 DEF Age
<1>6. \A d \in Cores \ {c} : \A s : InWindow(d, s)' <=> InWindow(d, s)
  BY <1>1 DEF InWindow, Age
<1>7. ASSUME NEW s PROVE InWindow(c, s)' <=> InWindow(c, s) \/ s = ROB[c].tail
  <2> DEFINE n == ROB[c].inflight
             t == ROB[c].tail
  <2>1. InWindow(c, s)' <=> s \in Slots /\ Age(c, s) < n + 1
    BY <1>1, <1>5 DEF InWindow
  <2>2. InWindow(c, s) <=> s \in Slots /\ Age(c, s) < n
    BY DEF InWindow
  <2>3. s \in Slots => Age(c, s) \in Int
    BY BufferTypes
  <2>4. s \in Slots /\ Age(c, s) = n => s = t
    <3>1. \A u, v \in Slots : Behind(ROB[c].head, u) = Behind(ROB[c].head, v) => u = v
      BY <1>2, Ring
    <3>2. Age(c, t) = n /\ t \in Slots
      BY <1>2, <1>3
    <3> HIDE DEF n, t
    <3> QED BY <3>1, <3>2 DEF Age
  <2>5. t \in Slots /\ Age(c, t) = n /\ n \in Int
    BY <1>2, <1>3
  <2> HIDE DEF n, t
  <2>6. CASE s = t
    BY <2>1, <2>5, <2>6 DEF t
  <2>7. CASE s # t
    <3>1. s \in Slots => (Age(c, s) < n + 1 <=> Age(c, s) < n)
      BY <2>3, <2>4, <2>5, <2>7
    <3> QED BY <2>1, <2>2, <2>7, <3>1 DEF t
  <2> QED BY <2>6, <2>7
<1> QED BY <1>3, <1>5, <1>6, <1>7

\* Neither time nor the memory's answers move a window.
LEMMA SameWindow ==
  ASSUME NEW c \in Cores, SameOrder(c)
  PROVE  \A s : Age(c, s)' = Age(c, s) /\ (InWindow(c, s)' <=> InWindow(c, s))
BY DEF SameOrder, Age, InWindow

LEMMA AlwaysTook ==
  ASSUME NEW c \in Cores, TookReady(c) \/ \E a \in Lines[c] : TookMerged(c, a) \/ TookRequested(c, a)
  PROVE  \E op, a, time, linked : Took(c, op, a, time, linked)
BY DEF TookReady, TookMerged, TookRequested

LEMMA EffectOnOrder ==
  ASSUME Effect
  PROVE  \/ \A c \in Cores : SameOrder(c)
         \/ \E c \in Cores : Left(c)
         \/ \E c \in Cores : \E op, a, time, linked : Took(c, op, a, time, linked)
BY AlwaysTook DEF Effect, Quiet, Answered

LEMMA StepTail == ASSUME Typed, TailFollows, Effect PROVE TailFollows'
<1>1. CASE \A c \in Cores : SameOrder(c)
  BY <1>1 DEF TailFollows, SameOrder
<1>2. ASSUME NEW c \in Cores, Left(c) PROVE TailFollows'
  <2> DEFINE h == ROB[c].head
             n == ROB[c].inflight
             k == (h + 1) % ROBSIZE
  <2>1. h \in Slots /\ n \in 1..ROBSIZE /\ ROBSIZE \in Nat \ {0}
    BY <1>2, BufferTypes, ConstantTypes DEF Left
  <2>2. ROB'[c].head = k /\ ROB'[c].inflight = n - 1 /\ ROB'[c].tail = ROB[c].tail
        /\ \A d \in Cores \ {c} : ROB'[d] = ROB[d]
    BY <1>2 DEF Left
  <2>3. ROB[c].tail = (h + n) % ROBSIZE
    BY DEF TailFollows
  <2> HIDE DEF h, n
  <2>4. 1 \in 0..ROBSIZE /\ n - 1 \in 0..ROBSIZE /\ n \in 0..ROBSIZE /\ h \in 0..(ROBSIZE - 1)
    BY <2>1 DEF Slots
  <2>5. k = (IF h + 1 < ROBSIZE THEN h + 1 ELSE h + 1 - ROBSIZE) /\ k \in Slots
    BY <2>1, <2>4, Around
  <2>6. (h + n) % ROBSIZE = (IF h + n < ROBSIZE THEN h + n ELSE h + n - ROBSIZE)
    BY <2>1, <2>4, Around
  <2> HIDE DEF k
  <2>7. (k + (n - 1)) % ROBSIZE
          = (IF k + (n - 1) < ROBSIZE THEN k + (n - 1) ELSE k + (n - 1) - ROBSIZE)
    BY <2>4, <2>5, Around
  <2>8. (k + (n - 1)) % ROBSIZE = (h + n) % ROBSIZE
    BY <2>1, <2>4, <2>5, <2>6, <2>7
  <2>9. ROB'[c].tail = (ROB'[c].head + ROB'[c].inflight) % ROBSIZE
    BY <2>2, <2>3, <2>8
  <2> QED BY <2>2, <2>9 DEF TailFollows
<1>3. ASSUME NEW c \in Cores, NEW op, NEW a, NEW time, NEW linked, Took(c, op, a, time, linked)
      PROVE  TailFollows'
  <2> DEFINE h == ROB[c].head
             n == ROB[c].inflight
             t == ROB[c].tail
  <2>1. h \in Slots /\ t \in Slots /\ n \in 0..(ROBSIZE - 1) /\ ROBSIZE \in Nat \ {0}
    BY <1>3, BufferTypes, ConstantTypes DEF Took
  <2>2. ROB'[c].head = h /\ ROB'[c].inflight = n + 1 /\ ROB'[c].tail = (t + 1) % ROBSIZE
        /\ \A d \in Cores \ {c} : ROB'[d] = ROB[d]
    BY <1>3 DEF Took
  <2>3. t = (h + n) % ROBSIZE
    BY DEF TailFollows
  <2> HIDE DEF h, n, t
  <2>4. 1 \in 0..ROBSIZE /\ n + 1 \in 0..ROBSIZE /\ n \in 0..ROBSIZE /\ h \in 0..(ROBSIZE - 1)
    BY <2>1 DEF Slots
  <2>5. (h + n) % ROBSIZE = (IF h + n < ROBSIZE THEN h + n ELSE h + n - ROBSIZE)
    BY <2>1, <2>4, Around
  <2>6. (h + (n + 1)) % ROBSIZE = (IF h + (n + 1) < ROBSIZE THEN h + (n + 1) ELSE h + (n + 1) - ROBSIZE)
    BY <2>1, <2>4, Around
  <2>7. (t + 1) % ROBSIZE = (IF t + 1 < ROBSIZE THEN t + 1 ELSE t + 1 - ROBSIZE)
    BY <2>1, <2>4, Around
  <2>8. (t + 1) % ROBSIZE = (h + (n + 1)) % ROBSIZE
    BY <2>1, <2>3, <2>4, <2>5, <2>6, <2>7
  <2>9. ROB'[c].tail = (ROB'[c].head + ROB'[c].inflight) % ROBSIZE
    BY <2>2, <2>8
  <2> QED BY <2>2, <2>9 DEF TailFollows
<1> QED BY <1>1, <1>2, <1>3, EffectOnOrder

-----------------------------------------------------------------------------
(* Requests and links. *)

\* RequestOwnsItsEntry, with the window in place of InFlight.
RequestsOwn ==
  \A r \in read_queue :
    LET e == ROB[r.core].entry[r.slot]
    IN  /\ InWindow(r.core, r.slot)
        /\ e.optype = "R" /\ e.mem_address = r.addr /\ e.comptime = BIGNUM
        /\ r.addr \in Lines[r.core]

\* Whom the entry in slot s of core c completes: a younger load of the same line, which
\* has no request of its own.
LinkHolds(c, s, n) ==
  /\ ROB[c].entry[s].optype = "R" /\ ROB[c].entry[n].optype = "R"
  /\ ROB[c].entry[n].mem_address = ROB[c].entry[s].mem_address
  /\ Age(c, s) < Age(c, n) /\ InWindow(c, n)
  /\ \A r \in read_queue : ~ (r.core = c /\ r.slot = n)

LinksForward ==
  \A c \in Cores, s \in Slots :
    InWindow(c, s) /\ ROB[c].entry[s].next # Nil => LinkHolds(c, s, ROB[c].entry[s].next)

Linking == Typed /\ TailFollows /\ RequestsOwn /\ LinksForward

LEMMA RequestTypes ==
  ASSUME Typed, NEW r \in read_queue
  PROVE  r \in Requests /\ r.core \in Cores /\ r.slot \in Slots /\ r.addr \in Addrs
BY DEF Typed, Requests

LEMMA SameRequest ==
  ASSUME NEW r \in Requests, NEW q \in Requests, r.core = q.core, r.slot = q.slot, r.addr = q.addr
  PROVE  r = q
BY DEF Requests

LEMMA StepOwnQuiet == ASSUME Linking, Quiet PROVE RequestsOwn'
<1> SUFFICES ASSUME NEW q \in read_queue'
             PROVE  LET e == ROB'[q.core].entry[q.slot] IN
                    /\ InWindow(q.core, q.slot)'
                    /\ e.optype = "R" /\ e.mem_address = q.addr /\ e.comptime = BIGNUM
                    /\ q.addr \in Lines[q.core]
  BY DEF RequestsOwn
<1>1. q \in read_queue
  BY DEF Quiet
<1>2. q.core \in Cores /\ q.slot \in Slots /\ SameOrder(q.core)
  BY <1>1, RequestTypes DEF Linking, Quiet
<1>3. InWindow(q.core, q.slot)' <=> InWindow(q.core, q.slot)
  BY <1>2, SameWindow
<1> QED BY <1>1, <1>2, <1>3 DEF RequestsOwn, Quiet, SameOrder, Linking

LEMMA StepOwnAnswered == ASSUME Linking, NEW r \in read_queue, Answered(r) PROVE RequestsOwn'
<1> SUFFICES ASSUME NEW q \in read_queue'
             PROVE  LET e == ROB'[q.core].entry[q.slot] IN
                    /\ InWindow(q.core, q.slot)'
                    /\ e.optype = "R" /\ e.mem_address = q.addr /\ e.comptime = BIGNUM
                    /\ q.addr \in Lines[q.core]
  BY DEF RequestsOwn
<1>1. q \in read_queue /\ q # r
  BY DEF Answered
<1>2. q.core \in Cores /\ q.slot \in Slots /\ SameOrder(q.core)
  BY <1>1, RequestTypes DEF Linking, Answered
<1>3. InWindow(q.core, q.slot)' <=> InWindow(q.core, q.slot)
  BY <1>2, SameWindow
<1>4. ~ (q.core = r.core /\ q.slot = r.slot)
  <2> SUFFICES ASSUME q.core = r.core, q.slot = r.slot PROVE FALSE
    OBVIOUS
  <2>1. q.addr = r.addr
    BY <1>1 DEF RequestsOwn, Linking
  <2>2. q \in Requests /\ r \in Requests
    BY <1>1, RequestTypes DEF Linking
  <2> QED BY <1>1, <2>1, <2>2, SameRequest
<1>5. ROB'[q.core].entry[q.slot].comptime = BIGNUM
  BY <1>1, <1>2, <1>4 DEF RequestsOwn, Answered, Linking
<1> QED BY <1>1, <1>2, <1>3, <1>5 DEF RequestsOwn, SameOrder, Linking

LEMMA StepOwnLeft == ASSUME Linking, NEW c \in Cores, Left(c) PROVE RequestsOwn'
<1> SUFFICES ASSUME NEW q \in read_queue'
             PROVE  LET e == ROB'[q.core].entry[q.slot] IN
                    /\ InWindow(q.core, q.slot)'
                    /\ e.optype = "R" /\ e.mem_address = q.addr /\ e.comptime = BIGNUM
                    /\ q.addr \in Lines[q.core]
  BY DEF RequestsOwn
<1> DEFINE h == ROB[c].head
<1>1. q \in read_queue
  BY DEF Left
<1>2. q.core \in Cores /\ q.slot \in Slots
  BY <1>1, RequestTypes DEF Linking
<1>3. LET e == ROB[q.core].entry[q.slot] IN
      /\ InWindow(q.core, q.slot)
      /\ e.optype = "R" /\ e.mem_address = q.addr /\ e.comptime = BIGNUM
      /\ q.addr \in Lines[q.core]
  BY <1>1 DEF RequestsOwn, Linking
<1>4. CASE q.core # c
  <2>1. ROB'[q.core] = ROB[q.core]
    BY <1>2, <1>4 DEF Left
  <2>2. InWindow(q.core, q.slot)'
    BY <1>2, <1>3, <1>4, LeftWindow DEF Linking
  <2> QED BY <1>3, <2>1, <2>2
<1>5. CASE q.core = c
  <2>1. q.slot # h
    <3>1. ROB[c].entry[h].comptime = -1 /\ -1 # BIGNUM
      BY Bounds DEF Left
    <3> QED BY <1>3, <1>5, <3>1
  <2>2. q.slot # ROB[c].entry[h].next
    <3>1. InWindow(c, h) /\ h \in Slots
      BY LeftWindow, BufferTypes DEF Linking
    <3>2. ROB[c].entry[h].next # Nil => LinkHolds(c, h, ROB[c].entry[h].next)
      BY <3>1 DEF Linking, LinksForward
    <3>3. q.slot # Nil
      BY <1>2, ConstantTypes
    <3> QED BY <1>1, <1>5, <3>2, <3>3 DEF LinkHolds
  <2>3. InWindow(c, q.slot)'
    BY <1>3, <1>5, <2>1, LeftWindow DEF Linking
  <2>4. /\ ROB'[c].entry[q.slot].optype = ROB[c].entry[q.slot].optype
        /\ ROB'[c].entry[q.slot].mem_address = ROB[c].entry[q.slot].mem_address
        /\ ROB'[c].entry[q.slot].comptime = ROB[c].entry[q.slot].comptime
    BY <1>2, <2>2 DEF Left
  <2> QED BY <1>3, <1>5, <2>3, <2>4
<1> QED BY <1>4, <1>5

\* An instruction that enters leaves the entries of the waiting requests alone.
LEMMA OldRequestsKept ==
  ASSUME Linking, NEW c \in Cores, NEW op, NEW a, NEW time, NEW linked,
         Took(c, op, a, time, linked), NEW q \in read_queue
  PROVE  LET e == ROB'[q.core].entry[q.slot] IN
         /\ InWindow(q.core, q.slot)'
         /\ e.optype = "R" /\ e.mem_address = q.addr /\ e.comptime = BIGNUM
         /\ q.addr \in Lines[q.core]
<1>1. q.core \in Cores /\ q.slot \in Slots
  BY RequestTypes DEF Linking
<1>2. LET e == ROB[q.core].entry[q.slot] IN
      /\ InWindow(q.core, q.slot)
      /\ e.optype = "R" /\ e.mem_address = q.addr /\ e.comptime = BIGNUM
      /\ q.addr \in Lines[q.core]
  BY DEF RequestsOwn, Linking
<1>3. /\ ~ InWindow(c, ROB[c].tail)
      /\ \A s : InWindow(c, s)' <=> InWindow(c, s) \/ s = ROB[c].tail
      /\ \A d \in Cores \ {c} : \A s : InWindow(d, s)' <=> InWindow(d, s)
  BY TookWindow DEF Linking
<1>4. CASE q.core # c
  <2>1. ROB'[q.core] = ROB[q.core]
    BY <1>1, <1>4 DEF Took
  <2> QED BY <1>1, <1>2, <1>3, <1>4, <2>1
<1>5. CASE q.core = c
  <2>1. q.slot # ROB[c].tail
    BY <1>2, <1>3, <1>5
  <2>2. /\ ROB'[c].entry[q.slot].optype = ROB[c].entry[q.slot].optype
        /\ ROB'[c].entry[q.slot].mem_address = ROB[c].entry[q.slot].mem_address
        /\ ROB'[c].entry[q.slot].comptime = ROB[c].entry[q.slot].comptime
    BY <1>1, <2>1 DEF Took
  <2>3. InWindow(c, q.slot)'
    BY <1>2, <1>3, <1>5
  <2> QED BY <1>2, <1>5, <2>2, <2>3
<1> QED BY <1>4, <1>5

LEMMA StepOwnTook ==
  ASSUME Linking, NEW c \in Cores,
         TookReady(c) \/ \E a \in Lines[c] : TookMerged(c, a) \/ TookRequested(c, a)
  PROVE  RequestsOwn'
<1>1. PICK op, a, time, linked : Took(c, op, a, time, linked)
  BY AlwaysTook
<1>2. CASE read_queue' = read_queue
  BY <1>1, <1>2, OldRequestsKept DEF RequestsOwn
<1>3. CASE \E b \in Lines[c] : TookRequested(c, b)
  <2>1. PICK b \in Lines[c] : TookRequested(c, b)
    BY <1>3
  <2>T. PICK t : t = ROB[c].tail
    OBVIOUS
  <2> DEFINE q == [core |-> c, slot |-> t, addr |-> b]
  <2>2. Took(c, "R", b, BIGNUM, FALSE) /\ read_queue' = read_queue \cup {q}
    BY <2>1, <2>T DEF TookRequested
  <2>3. LET e == ROB'[c].entry[t] IN
        InWindow(c, t)' /\ e.optype = "R" /\ e.mem_address = b /\ e.comptime = BIGNUM
    <3>1. InWindow(c, t)'
      BY <1>1, <2>T, TookWindow DEF Linking
    <3> QED BY <2>2, <2>T, <3>1 DEF Took
  <2>4. \A r \in read_queue :
          LET e == ROB'[r.core].entry[r.slot] IN
          /\ InWindow(r.core, r.slot)'
          /\ e.optype = "R" /\ e.mem_address = r.addr /\ e.comptime = BIGNUM
          /\ r.addr \in Lines[r.core]
    BY <1>1, OldRequestsKept
  <2>5. q.core = c /\ q.slot = t /\ q.addr = b
    OBVIOUS
  <2> HIDE DEF q
  <2>6. LET e == ROB'[q.core].entry[q.slot] IN
        /\ InWindow(q.core, q.slot)'
        /\ e.optype = "R" /\ e.mem_address = q.addr /\ e.comptime = BIGNUM
        /\ q.addr \in Lines[q.core]
    BY <2>3, <2>5
  <2>7. \A r \in read_queue' : r \in read_queue \/ r = q
    BY <2>2
  <2> QED BY <2>4, <2>6, <2>7 DEF RequestsOwn
<1> QED BY <1>2, <1>3 DEF TookReady, TookMerged

LEMMA StepOwn == ASSUME Linking, Effect PROVE RequestsOwn'
BY StepOwnQuiet, StepOwnAnswered, StepOwnLeft, StepOwnTook DEF Effect

\* To show the links after a step: the link of any slot, to a slot n.
LEMMA LinksAfter ==
  ASSUME \A c \in Cores, s \in Slots : \A n :
           InWindow(c, s)' /\ ROB'[c].entry[s].next = n /\ n # Nil => LinkHolds(c, s, n)'
  PROVE  LinksForward'
<1> SUFFICES ASSUME NEW c \in Cores, NEW s \in Slots,
                    InWindow(c, s)', ROB'[c].entry[s].next # Nil
             PROVE  LinkHolds(c, s, ROB[c].entry[s].next)'
  BY DEF LinksForward
<1>1. PICK n : n = ROB'[c].entry[s].next
  OBVIOUS
<1>2. LinkHolds(c, s, n)'
  BY <1>1
<1> QED BY <1>1, <1>2 DEF LinkHolds, InWindow, Age

\* What the links of a buffer say, before the step.
LEMMA LinkBefore ==
  ASSUME Linking, NEW c \in Cores, NEW s \in Slots, InWindow(c, s),
         NEW n, ROB[c].entry[s].next = n, n # Nil
  PROVE  LinkHolds(c, s, n) /\ n \in Slots /\ Age(c, n) \in Nat /\ Age(c, s) \in Nat
<1>1. LinkHolds(c, s, n)
  BY DEF Linking, LinksForward
<1>2. n \in Slots
  BY BufferTypes DEF Linking
<1>3. Age(c, n) \in Nat /\ Age(c, s) \in Nat
  BY <1>2, BufferTypes DEF Linking
<1> QED BY <1>1, <1>2, <1>3

\* A link stays where the buffer holds the same instructions and no request is new.
LEMMA LinkStays ==
  ASSUME Linking, NEW c \in Cores, NEW s \in Slots, NEW n \in Slots, LinkHolds(c, s, n),
         \A u \in {s, n} : /\ ROB'[c].entry[u].optype = ROB[c].entry[u].optype
                           /\ ROB'[c].entry[u].mem_address = ROB[c].entry[u].mem_address,
         Age(c, s)' < Age(c, n)', InWindow(c, n)', \A q \in read_queue' : q \in read_queue \/ ~ (q.core = c /\ q.slot = n)
  PROVE  LinkHolds(c, s, n)'
BY DEF LinkHolds

LEMMA StepLinksSame ==
  ASSUME Linking, \A c \in Cores : SameOrder(c), read_queue' \subseteq read_queue
  PROVE  LinksForward'
<1>1. ASSUME NEW c \in Cores, NEW s \in Slots, NEW n, InWindow(c, s)',
             ROB'[c].entry[s].next = n, n # Nil
      PROVE  LinkHolds(c, s, n)'
  <2>1. SameOrder(c) /\ \A u : Age(c, u)' = Age(c, u) /\ (InWindow(c, u)' <=> InWindow(c, u))
    BY SameWindow
  <2>2. InWindow(c, s) /\ ROB[c].entry[s].next = n
    BY <1>1, <2>1 DEF SameOrder
  <2>3. LinkHolds(c, s, n) /\ n \in Slots
    BY <1>1, <2>2, LinkBefore
  <2>4. Age(c, s)' < Age(c, n)' /\ InWindow(c, n)'
    BY <2>1, <2>3 DEF LinkHolds
  <2> QED BY <2>1, <2>3, <2>4, LinkStays DEF SameOrder
<1> QED BY <1>1, LinksAfter

LEMMA StepLinksLeft == ASSUME Linking, NEW d \in Cores, Left(d) PROVE LinksForward'
<1>1. ASSUME NEW c \in Cores, NEW s \in Slots, NEW n, InWindow(c, s)',
             ROB'[c].entry[s].next = n, n # Nil
      PROVE  LinkHolds(c, s, n)'
  <2>1. \A q \in read_queue' : q \in read_queue
    BY DEF Left
  <2>2. CASE c # d
    <3>1. ROB'[c] = ROB[c]
      BY <2>2 DEF Left
    <3>2. \A u : Age(c, u)' = Age(c, u) /\ (InWindow(c, u)' <=> InWindow(c, u))
      BY <2>2, LeftWindow DEF Linking
    <3>3. LinkHolds(c, s, n) /\ n \in Slots
      BY <1>1, <3>1, <3>2, LinkBefore
    <3>4. Age(c, s)' < Age(c, n)' /\ InWindow(c, n)'
      BY <3>2, <3>3 DEF LinkHolds
    <3> QED BY <2>1, <3>1, <3>3, <3>4, LinkStays
  <2>3. CASE c = d
    <3> DEFINE h == ROB[c].head
    <3>1. /\ \A u \in Slots \ {h} : Age(c, u)' = Age(c, u) - 1
          /\ \A u : InWindow(c, u)' <=> InWindow(c, u) /\ u # h
      BY <2>3, LeftWindow DEF Linking
    <3>2. \A u \in Slots : /\ ROB'[c].entry[u].optype = ROB[c].entry[u].optype
                           /\ ROB'[c].entry[u].mem_address = ROB[c].entry[u].mem_address
                           /\ ROB'[c].entry[u].next = ROB[c].entry[u].next
      BY <2>3 DEF Left
    <3>3. InWindow(c, s) /\ s # h /\ ROB[c].entry[s].next = n
      BY <1>1, <3>1, <3>2
    <3>4. LinkHolds(c, s, n) /\ n \in Slots /\ Age(c, n) \in Nat /\ Age(c, s) \in Nat
      BY <1>1, <3>3, LinkBefore
    <3>5. Age(c, s) < Age(c, n) /\ InWindow(c, n)
      BY <3>4 DEF LinkHolds
    <3>6. n # h
      <4>1. Age(c, h) = 0
        BY Ring, BufferTypes DEF Linking, Age
      <4> QED BY <3>4, <3>5, <4>1
    <3>7. Age(c, s)' < Age(c, n)' /\ InWindow(c, n)'
      <4> HIDE DEF h
      <4>1. Age(c, s)' = Age(c, s) - 1 /\ Age(c, n)' = Age(c, n) - 1
        BY <3>1, <3>3, <3>4, <3>6
      <4> QED BY <3>1, <3>4, <3>5, <3>6, <4>1
    <3> QED BY <2>1, <3>2, <3>4, <3>7, LinkStays
  <2> QED BY <2>2, <2>3
<1> QED BY <1>1, LinksAfter

LEMMA StepLinksTook ==
  ASSUME Linking, NEW d \in Cores,
         TookReady(d) \/ \E a \in Lines[d] : TookMerged(d, a) \/ TookRequested(d, a)
  PROVE  LinksForward'
<1>T. PICK t : t = ROB[d].tail
  OBVIOUS
<1>1. PICK op, a, time, linked : /\ Took(d, op, a, time, linked)
                                 /\ linked => op = "R"
                                 /\ \A q \in read_queue' : q \in read_queue \/ (q.core = d /\ q.slot = t)
                                 /\ linked => read_queue' = read_queue
  <2>1. CASE TookReady(d)
    <3>1. PICK op, a, time : Took(d, op, a, time, FALSE)
      BY <2>1 DEF TookReady
    <3>2. read_queue' = read_queue
      BY <2>1 DEF TookReady
    <3> QED BY <3>1, <3>2
  <2>2. CASE \E a \in Lines[d] : TookMerged(d, a)
    <3>1. PICK a : Took(d, "R", a, BIGNUM, TRUE)
      BY <2>2 DEF TookMerged
    <3>2. read_queue' = read_queue
      BY <2>2 DEF TookMerged
    <3> QED BY <3>1, <3>2
  <2>3. CASE \E a \in Lines[d] : TookRequested(d, a)
    <3>1. PICK a : /\ Took(d, "R", a, BIGNUM, FALSE)
                   /\ read_queue' = read_queue \cup {[core |-> d, slot |-> ROB[d].tail, addr |-> a]}
      BY <2>3 DEF TookRequested
    <3>2. \A q \in read_queue' : q \in read_queue \/ (q.core = d /\ q.slot = t)
      BY <1>T, <3>1
    <3> QED BY <3>1, <3>2
  <2> QED BY <2>1, <2>2, <2>3
<1>2. t \in Slots /\ ROB[d].inflight \in Nat
  BY <1>T, BufferTypes, ConstantTypes DEF Linking
<1>3. /\ ~ InWindow(d, t) /\ Age(d, t) = ROB[d].inflight
      /\ \A c \in Cores : \A s : Age(c, s)' = Age(c, s)
      /\ \A s : InWindow(d, s)' <=> InWindow(d, s) \/ s = t
      /\ \A c \in Cores \ {d} : \A s : InWindow(c, s)' <=> InWindow(c, s)
  BY <1>T, <1>1, TookWindow DEF Linking
<1>4. ASSUME NEW c \in Cores, NEW s \in Slots, NEW n, InWindow(c, s)',
             ROB'[c].entry[s].next = n, n # Nil
      PROVE  LinkHolds(c, s, n)'
  <2>1. CASE c # d
    <3>1. ROB'[c] = ROB[c]
      BY <1>1, <2>1 DEF Took
    <3>2. LinkHolds(c, s, n) /\ n \in Slots
      BY <1>3, <1>4, <2>1, <3>1, LinkBefore
    <3>3. Age(c, s)' < Age(c, n)' /\ InWindow(c, n)'
      BY <1>3, <2>1, <3>2 DEF LinkHolds
    <3>4. \A q \in read_queue' : q \in read_queue \/ ~ (q.core = c /\ q.slot = n)
      BY <1>1, <2>1
    <3> QED BY <3>1, <3>2, <3>3, <3>4, LinkStays
  <2>2. CASE c = d
    <3>1. s # t
      BY <1>1, <1>4, <1>T, <2>2 DEF Took
    <3>2. InWindow(c, s)
      BY <1>3, <1>4, <2>2, <3>1
    <3>3. \A u \in Slots \ {t} :
            /\ ROB'[c].entry[u].optype = ROB[c].entry[u].optype
            /\ ROB'[c].entry[u].mem_address = ROB[c].entry[u].mem_address
      BY <1>1, <1>T, <2>2 DEF Took
    <3>4. CASE ROB[c].entry[s].next = n
      <4>1. LinkHolds(c, s, n) /\ n \in Slots
        BY <1>4, <3>2, <3>4, LinkBefore
      <4>2. InWindow(c, n) /\ n # t /\ Age(c, s) < Age(c, n)
        BY <1>3, <2>2, <4>1 DEF LinkHolds
      <4>3. Age(c, s)' < Age(c, n)' /\ InWindow(c, n)'
        BY <1>3, <2>2, <4>2
      <4>4. \A q \in read_queue' : q \in read_queue \/ ~ (q.core = c /\ q.slot = n)
        BY <1>1, <4>2
      <4>5. \A u \in {s, n} : /\ ROB'[c].entry[u].optype = ROB[c].entry[u].optype
                           /\ ROB'[c].entry[u].mem_address = ROB[c].entry[u].mem_address
        BY <3>1, <3>3, <4>1, <4>2
      <4> QED BY <4>1, <4>3, <4>4, <4>5, LinkStays
    <3>5. CASE ROB[c].entry[s].next # n
      <4>1. /\ linked /\ ROB[c].entry[s].optype = "R" /\ ROB[c].entry[s].mem_address = a
            /\ n = t
        BY <1>1, <1>4, <1>T, <2>2, <3>1, <3>5 DEF Took
      <4>2. ROB'[c].entry[s].optype = "R" /\ ROB'[c].entry[s].mem_address = a
        BY <3>1, <3>3, <4>1
      <4>3. ROB'[c].entry[t].optype = "R" /\ ROB'[c].entry[t].mem_address = a
        BY <1>1, <1>T, <2>2, <4>1 DEF Took
      <4>4. Age(c, s)' < Age(c, t)'
        BY <1>3, <2>2, <3>2 DEF InWindow
      <4>5. InWindow(c, t)'
        BY <1>3, <2>2
      <4>6. \A q \in read_queue' : ~ (q.core = c /\ q.slot = t)
        BY <1>1, <1>3, <2>2, <4>1 DEF Linking, RequestsOwn
      <4> QED BY <4>1, <4>2, <4>3, <4>4, <4>5, <4>6 DEF LinkHolds
    <3> QED BY <3>4, <3>5
  <2> QED BY <2>1, <2>2
<1> QED BY <1>4, LinksAfter

LEMMA StepLinks == ASSUME Linking, Effect PROVE LinksForward'
BY StepLinksSame, StepLinksLeft, StepLinksTook DEF Effect, Quiet, Answered

-----------------------------------------------------------------------------
(* Loads and stores in flight. *)

OfKind(c, op) == {s \in Slots : InWindow(c, s) /\ ROB[c].entry[s].optype = op}

Counted ==
  \A c \in Cores : loadq[c] = Cardinality(OfKind(c, "R")) /\ storeq[c] = Cardinality(OfKind(c, "W"))

LEMMA KindsFinite ==
  \A c, op : /\ IsFiniteSet(OfKind(c, op))
             /\ Cardinality(OfKind(c, op)) \in 0..ROBSIZE
<1> SUFFICES ASSUME NEW c, NEW op
             PROVE  IsFiniteSet(OfKind(c, op)) /\ Cardinality(OfKind(c, op)) \in 0..ROBSIZE
  OBVIOUS
<1>1. ROBSIZE \in Nat \ {0} /\ Slots = 0..(ROBSIZE - 1)
  BY ConstantTypes DEF Slots
<1>2. IsFiniteSet(Slots) /\ Cardinality(Slots) = ROBSIZE
  <2>1. /\ IsFiniteSet(0..(ROBSIZE - 1))
        /\ Cardinality(0..(ROBSIZE - 1)) = IF 0 > ROBSIZE - 1 THEN 0 ELSE (ROBSIZE - 1) - 0 + 1
    BY <1>1, FS_Interval
  <2> QED BY <1>1, <2>1
<1>3. OfKind(c, op) \in SUBSET Slots
  BY DEF OfKind
<1>4. /\ IsFiniteSet(OfKind(c, op))
      /\ Cardinality(OfKind(c, op)) <= Cardinality(Slots)
  BY <1>2, <1>3, FS_Subset
<1>5. Cardinality(OfKind(c, op)) \in Nat
  BY <1>4, FS_CardinalityType
<1> QED BY <1>1, <1>2, <1>4, <1>5

LEMMA InitCounted == Init => Counted
<1> SUFFICES ASSUME Init, NEW c \in Cores
             PROVE  loadq[c] = Cardinality(OfKind(c, "R")) /\ storeq[c] = Cardinality(OfKind(c, "W"))
  BY DEF Counted
<1>1. \A s \in Slots : ROB[c].entry[s].optype = "-"
  BY DEF Init, EmptySlot
<1>2. OfKind(c, "R") = {} /\ OfKind(c, "W") = {}
  BY <1>1 DEF OfKind
<1>3. loadq[c] = 0 /\ storeq[c] = 0
  BY DEF Init
<1> QED BY <1>2, <1>3, FS_EmptySet

LEMMA StepCounted == ASSUME Linking, Counted, Effect PROVE Counted'
<1>1. ASSUME \A c \in Cores : SameOrder(c), UNCHANGED <<loadq, storeq>> PROVE Counted'
  <2>1. \A c \in Cores : \A op : OfKind(c, op)' = OfKind(c, op)
    <3> SUFFICES ASSUME NEW c \in Cores, NEW op PROVE OfKind(c, op)' = OfKind(c, op)
      OBVIOUS
    <3>1. SameOrder(c) /\ \A s : InWindow(c, s)' <=> InWindow(c, s)
      BY <1>1, SameWindow
    <3> QED BY <3>1 DEF OfKind, SameOrder
  <2> QED BY <1>1, <2>1 DEF Counted
<1>2. ASSUME NEW d \in Cores, Left(d) PROVE Counted'
  <2> DEFINE h == ROB[d].head
             kind == ROB[d].entry[h].optype
  <2>1. /\ InWindow(d, h) /\ h \in Slots
        /\ \A s : InWindow(d, s)' <=> InWindow(d, s) /\ s # h
        /\ \A c \in Cores \ {d} : \A s : InWindow(c, s)' <=> InWindow(c, s)
    BY <1>2, LeftWindow, BufferTypes DEF Linking
  <2>2. \A c \in Cores, s \in Slots : ROB'[c].entry[s].optype = ROB[c].entry[s].optype
    BY <1>2 DEF Left
  <2>3. \A c \in Cores \ {d} : \A op : OfKind(c, op)' = OfKind(c, op)
    BY <2>1, <2>2 DEF OfKind
  <2>4. \A op : OfKind(d, op)' = OfKind(d, op) \ {h}
    BY <2>1, <2>2 DEF OfKind
  <2>5. \A op : h \in OfKind(d, op) <=> kind = op
    BY <2>1 DEF OfKind
  <2>6. \A op : Cardinality(OfKind(d, op)')
                  = IF kind = op THEN Cardinality(OfKind(d, op)) - 1 ELSE Cardinality(OfKind(d, op))
    <3> SUFFICES ASSUME NEW op
                 PROVE  Cardinality(OfKind(d, op)')
                  = IF kind = op THEN Cardinality(OfKind(d, op)) - 1 ELSE Cardinality(OfKind(d, op))
      OBVIOUS
    <3>1. Cardinality(OfKind(d, op) \ {h})
            = IF h \in OfKind(d, op) THEN Cardinality(OfKind(d, op)) - 1 ELSE Cardinality(OfKind(d, op))
      BY KindsFinite, FS_RemoveElement
    <3> QED BY <2>4, <2>5, <3>1
  <2>7. /\ loadq' = [loadq EXCEPT ![d] = IF kind = "R" THEN @ - 1 ELSE @]
        /\ storeq' = [storeq EXCEPT ![d] = IF kind = "W" THEN @ - 1 ELSE @]
    BY <1>2 DEF Left
  <2> HIDE DEF kind, h
  <2>8. loadq \in [Cores -> Int] /\ storeq \in [Cores -> Int]
    BY DEF Linking, Typed
  <2>9. /\ loadq'[d] = IF kind = "R" THEN loadq[d] - 1 ELSE loadq[d]
        /\ storeq'[d] = IF kind = "W" THEN storeq[d] - 1 ELSE storeq[d]
        /\ \A c \in Cores \ {d} : loadq'[c] = loadq[c] /\ storeq'[c] = storeq[c]
    BY <2>7, <2>8
  <2> QED BY <2>3, <2>6, <2>9 DEF Counted
<1>3. ASSUME NEW d \in Cores, NEW kind, NEW a, NEW time, NEW linked, Took(d, kind, a, time, linked)
      PROVE  Counted'
  <2> DEFINE t == ROB[d].tail
  <2>1. /\ ~ InWindow(d, t) /\ t \in Slots
        /\ \A s : InWindow(d, s)' <=> InWindow(d, s) \/ s = t
        /\ \A c \in Cores \ {d} : \A s : InWindow(c, s)' <=> InWindow(c, s)
    BY <1>3, TookWindow, BufferTypes DEF Linking
  <2>2. /\ \A c \in Cores \ {d}, s \in Slots : ROB'[c].entry[s].optype = ROB[c].entry[s].optype
        /\ \A s \in Slots \ {t} : ROB'[d].entry[s].optype = ROB[d].entry[s].optype
        /\ ROB'[d].entry[t].optype = kind
    BY <1>3 DEF Took
  <2>3. \A c \in Cores \ {d} : \A op : OfKind(c, op)' = OfKind(c, op)
    BY <2>1, <2>2 DEF OfKind
  <2>4. \A op : /\ OfKind(d, op)' = IF kind = op THEN OfKind(d, op) \cup {t} ELSE OfKind(d, op)
                /\ t \notin OfKind(d, op)
    BY <2>1, <2>2 DEF OfKind
  <2> HIDE DEF t
  <2>6. \A op : Cardinality(OfKind(d, op)')
                  = IF kind = op THEN Cardinality(OfKind(d, op)) + 1 ELSE Cardinality(OfKind(d, op))
    <3> SUFFICES ASSUME NEW op
                 PROVE  Cardinality(OfKind(d, op)')
                  = IF kind = op THEN Cardinality(OfKind(d, op)) + 1 ELSE Cardinality(OfKind(d, op))
      OBVIOUS
    <3>1. Cardinality(OfKind(d, op) \cup {t})
            = IF t \in OfKind(d, op) THEN Cardinality(OfKind(d, op)) ELSE Cardinality(OfKind(d, op)) + 1
      BY KindsFinite, FS_AddElement
    <3> QED BY <2>4, <3>1
  <2>7. /\ loadq' = [loadq EXCEPT ![d] = IF kind = "R" THEN @ + 1 ELSE @]
        /\ storeq' = [storeq EXCEPT ![d] = IF kind = "W" THEN @ + 1 ELSE @]
    BY <1>3 DEF Took
  <2>8. loadq \in [Cores -> Int] /\ storeq \in [Cores -> Int]
    BY DEF Linking, Typed
  <2>9. /\ loadq'[d] = IF kind = "R" THEN loadq[d] + 1 ELSE loadq[d]
        /\ storeq'[d] = IF kind = "W" THEN storeq[d] + 1 ELSE storeq[d]
        /\ \A c \in Cores \ {d} : loadq'[c] = loadq[c] /\ storeq'[c] = storeq[c]
    BY <2>7, <2>8
  <2> QED BY <2>3, <2>6, <2>9 DEF Counted
<1> QED BY <1>1, <1>2, <1>3, AlwaysTook DEF Effect, Quiet, Answered

-----------------------------------------------------------------------------

LEMMA InitLinking == Init => Linking
<1> SUFFICES ASSUME Init PROVE Linking
  OBVIOUS
<1>1. Typed
  BY InitTyped
<1>2. \A c \in Cores : ROB[c].head = 0 /\ ROB[c].tail = 0 /\ ROB[c].inflight = 0
                         /\ \A s \in Slots : ROB[c].entry[s].next = Nil
  BY DEF Init, EmptySlot
<1>3. TailFollows
  <2>1. (0 + 0) % ROBSIZE = 0
    <3>1. 0 \in Slots /\ 0 \in 0..ROBSIZE /\ ROBSIZE \in Nat \ {0}
      BY ConstantTypes
    <3>2. (0 + 0) % ROBSIZE = IF 0 + 0 < ROBSIZE THEN 0 + 0 ELSE 0 + 0 - ROBSIZE
      BY <3>1, Around
    <3> QED BY <3>1, <3>2
  <2> QED BY <1>2, <2>1 DEF TailFollows
<1>4. RequestsOwn /\ LinksForward
  BY <1>2 DEF RequestsOwn, LinksForward, Init
<1> QED BY <1>1, <1>3, <1>4 DEF Linking

\* The invariant that carries the buffers.
RobInv == Linking /\ FullNoticed /\ Counted

LEMMA RobInvHolds == Spec => []RobInv
<1>1. Init => RobInv
  BY InitLinking, InitFull, InitCounted DEF RobInv
<1>2. RobInv /\ [Next]_vars => RobInv'
  <2> SUFFICES ASSUME RobInv, [Next]_vars PROVE RobInv'
    OBVIOUS
  <2>1. Typed' /\ Effect
    BY StepEffect DEF RobInv, Linking
  <2>2. Linking'
    BY <2>1, StepTail, StepOwn, StepLinks DEF RobInv, Linking
  <2>3. FullNoticed'
    BY StepFull DEF RobInv, Linking
  <2>4. Counted'
    BY <2>1, StepCounted DEF RobInv
  <2> QED BY <2>2, <2>3, <2>4 DEF RobInv
<1> QED BY <1>1, <1>2, PTL DEF Spec

\* Types, with the limits of the queues and of the buffers, for any number of cores.
THEOREM CoreTypes == Spec => []TypeOK
<1>1. RobInv => TypeOK
  <2> SUFFICES ASSUME RobInv PROVE TypeOK
    OBVIOUS
  <2>1. Typed /\ FullNoticed /\ Counted
    BY DEF RobInv, Linking
  <2>2. {loadq, storeq} \subseteq [Cores -> 0..ROBSIZE]
    <3>1. \A c \in Cores : loadq[c] \in 0..ROBSIZE /\ storeq[c] \in 0..ROBSIZE
      BY <2>1, KindsFinite DEF Counted
    <3>2. loadq \in [Cores -> Int] /\ storeq \in [Cores -> Int]
      BY <2>1 DEF Typed
    <3> QED BY <3>1, <3>2
  <2>3. ROB \in [Cores -> [head : Slots, tail : Slots, inflight : 0..ROBSIZE,
                        tracedone : BOOLEAN,
                        entry : [Slots -> [optype : {"-", "N", "R", "W"},
                                           mem_address : Addrs \cup {Nil},
                                           comptime : Times \cup {BIGNUM},
                                           next : Slots \cup {Nil}]]]]
    BY <2>1 DEF Typed, Buffer, Entry
  <2>4. readLength <= RQ_CAPACITY /\ writeLength <= WQ_CAPACITY
    BY <2>1 DEF FullNoticed
  <2>5. {readqfull, writeqfull, expt_done} \subseteq BOOLEAN
    BY <2>1 DEF Typed
  <2> QED BY <2>1, <2>2, <2>3, <2>4, <2>5 DEF TypeOK, Typed
<1> QED BY <1>1, RobInvHolds, PTL

\* COL_READ always writes the completion time into the entry of the load that asked.
THEOREM RequestsOwnTheirEntries == Spec => []RequestOwnsItsEntry
<1>1. RobInv => RequestOwnsItsEntry
  <2> SUFFICES ASSUME RobInv, NEW r \in read_queue
               PROVE  LET e == ROB[r.core].entry[r.slot]
                      IN  /\ r.slot \in InFlight(r.core)
                          /\ e.optype = "R" /\ e.mem_address = r.addr /\ e.comptime = BIGNUM
    BY DEF RequestOwnsItsEntry
  <2>1. r.core \in Cores /\ r.slot \in Slots /\ Typed /\ RequestsOwn
    BY RequestTypes DEF RobInv, Linking
  <2>2. InFlight(r.core) = {s \in Slots : InWindow(r.core, s)}
    BY <2>1, WindowSlots
  <2> QED BY <2>1, <2>2 DEF RequestsOwn
<1> QED BY <1>1, RobInvHolds, PTL

\* loadq and storeq are the loads and stores in flight.
THEOREM LoadsAndStoresAlwaysCounted == Spec => []LoadsAndStoresCounted
<1>1. RobInv => LoadsAndStoresCounted
  <2> SUFFICES ASSUME RobInv, NEW c \in Cores
               PROVE  LET Of(op) == {s \in InFlight(c) : ROB[c].entry[s].optype = op}
                      IN  loadq[c] = Cardinality(Of("R")) /\ storeq[c] = Cardinality(Of("W"))
    BY DEF LoadsAndStoresCounted
  <2>1. InFlight(c) = {s \in Slots : InWindow(c, s)}
    BY WindowSlots DEF RobInv, Linking
  <2>2. \A op : {s \in InFlight(c) : ROB[c].entry[s].optype = op} = OfKind(c, op)
    BY <2>1 DEF OfKind
  <2> QED BY <2>2 DEF RobInv, Counted
<1> QED BY <1>1, RobInvHolds, PTL

-----------------------------------------------------------------------------
(* Cores with lines of their own. *)

\* No line belongs to two cores: what the page tables give to different pages.
LinesOfTheirOwn == \A c, d \in Cores : c # d => Lines[c] \cap Lines[d] = {}

\* SecondReadIsServed, with the window in place of positions.
Served ==
  \A c \in Cores, s \in Slots :
    InWindow(c, s) /\ ROB[c].entry[s].comptime = BIGNUM =>
      \/ \E r \in read_queue : r.core = c /\ r.slot = s
      \/ \E j \in Slots : InWindow(c, j) /\ ROB[c].entry[j].next = s

\* A load that the memory owes a line waits at or behind the one that asked for it.
Owing ==
  \A c \in Cores : \A s \in owes[c] :
    /\ InWindow(c, s)
    /\ \E r \in read_queue : /\ r.core = c /\ r.addr = ROB[c].entry[s].mem_address
                             /\ Age(c, r.slot) <= Age(c, s)

\* Of the loads of a line in a buffer, the youngest has no follower yet.
LEMMA LastReader ==
  ASSUME Linking, NEW c \in Cores, NEW a, NEW s \in Slots, InWindow(c, s),
         ROB[c].entry[s].optype = "R", ROB[c].entry[s].mem_address = a
  PROVE  \E j \in Slots : /\ InWindow(c, j) /\ ROB[c].entry[j].optype = "R"
                          /\ ROB[c].entry[j].mem_address = a /\ ROB[c].entry[j].next = Nil
<1> DEFINE Reads(j) == /\ j \in Slots /\ InWindow(c, j) /\ ROB[c].entry[j].optype = "R"
                       /\ ROB[c].entry[j].mem_address = a
           T == {ROBSIZE - Age(c, j) : j \in {k \in Slots : Reads(k)}}
<1>1. \A j \in Slots : Age(c, j) \in 0..(ROBSIZE - 1)
  BY BufferTypes DEF Linking
<1>2. ROBSIZE \in Nat
  BY ConstantTypes
<1>3. Reads(s)
  OBVIOUS
<1>4. \A x : x \in T <=> \E j \in Slots : Reads(j) /\ x = ROBSIZE - Age(c, j)
  OBVIOUS
<1>5. T \in SUBSET Nat
  BY <1>1, <1>2
<1> HIDE DEF T
<1>6. \E x \in T : \A y \in T : x <= y
  <2>1. PICK y : y \in T
    BY <1>3, <1>4
  <2> QED BY <1>5, <2>1, SmallestNat
<1>7. PICK x \in T : \A y \in T : x <= y
  BY <1>6
<1>8. PICK j \in Slots : Reads(j) /\ x = ROBSIZE - Age(c, j)
  BY <1>4, <1>7
<1>9. ROB[c].entry[j].next = Nil
  <2> SUFFICES ASSUME ROB[c].entry[j].next # Nil PROVE FALSE
    OBVIOUS
  <2>1. PICK n : n = ROB[c].entry[j].next
    OBVIOUS
  <2>2. LinkHolds(c, j, n) /\ n \in Slots /\ Age(c, n) \in Nat /\ Age(c, j) \in Nat
    BY <1>8, <2>1, LinkBefore
  <2>3. Reads(n) /\ Age(c, j) < Age(c, n)
    BY <1>8, <2>2 DEF LinkHolds
  <2>4. ROBSIZE - Age(c, n) \in T
    BY <1>4, <2>2, <2>3
  <2>5. x <= ROBSIZE - Age(c, n)
    BY <1>7, <2>4
  <2> HIDE DEF Reads
  <2> QED BY <1>2, <1>8, <2>2, <2>3, <2>5
<1> QED BY <1>8, <1>9

LEMMA RequestOfLine ==
  ASSUME LinesOfTheirOwn, Linking, NEW c \in Cores, NEW r \in read_queue, r.addr \in Lines[c]
  PROVE  r.core = c
BY RequestTypes DEF LinesOfTheirOwn, Linking, RequestsOwn

LEMMA StepServed ==
  ASSUME LinesOfTheirOwn, Linking, Served, Effect
  PROVE  Served'
<1> SUFFICES ASSUME NEW c \in Cores, NEW s \in Slots,
                    InWindow(c, s)', ROB'[c].entry[s].comptime = BIGNUM
             PROVE  \/ \E r \in read_queue' : r.core = c /\ r.slot = s
                    \/ \E j \in Slots : InWindow(c, j)' /\ ROB'[c].entry[j].next = s
  BY DEF Served
<1>0. s # Nil
  BY ConstantTypes
<1>1. ASSUME InWindow(c, s), ROB[c].entry[s].comptime = BIGNUM,
             \A r \in read_queue : r.core = c /\ r.slot = s => r \in read_queue',
             \A j \in Slots : InWindow(c, j) /\ ROB[c].entry[j].next = s
                                => InWindow(c, j)' /\ ROB'[c].entry[j].next = s
      PROVE  \/ \E r \in read_queue' : r.core = c /\ r.slot = s
             \/ \E j \in Slots : InWindow(c, j)' /\ ROB'[c].entry[j].next = s
  <2>1. CASE \E r \in read_queue : r.core = c /\ r.slot = s
    BY <1>1, <2>1
  <2>2. CASE \E j \in Slots : InWindow(c, j) /\ ROB[c].entry[j].next = s
    BY <1>1, <2>2
  <2> QED BY <1>1, <2>1, <2>2 DEF Served
<1>2. CASE Quiet
  <2>1. SameOrder(c) /\ \A u : InWindow(c, u)' <=> InWindow(c, u)
    BY <1>2, SameWindow DEF Quiet
  <2>2. ROB[c].entry[s].comptime = BIGNUM /\ read_queue' = read_queue
    BY <1>2 DEF Quiet
  <2> QED BY <1>1, <2>1, <2>2 DEF SameOrder
<1>3. ASSUME NEW q \in read_queue, Answered(q)
      PROVE  \/ \E r \in read_queue' : r.core = c /\ r.slot = s
             \/ \E j \in Slots : InWindow(c, j)' /\ ROB'[c].entry[j].next = s
  <2>1. SameOrder(c) /\ \A u : InWindow(c, u)' <=> InWindow(c, u)
    BY <1>3, SameWindow DEF Answered
  <2>2. ROB[c].entry[s].comptime = BIGNUM /\ ~ (c = q.core /\ s = q.slot)
        /\ read_queue' = read_queue \ {q}
    BY <1>3 DEF Answered
  <2>3. \A r \in read_queue : r.core = c /\ r.slot = s => r \in read_queue'
    BY <2>2
  <2> QED BY <1>1, <2>1, <2>2, <2>3 DEF SameOrder
<1>4. ASSUME NEW d \in Cores, Left(d)
      PROVE  \/ \E r \in read_queue' : r.core = c /\ r.slot = s
             \/ \E j \in Slots : InWindow(c, j)' /\ ROB'[c].entry[j].next = s
  <2>1. read_queue' = read_queue
    BY <1>4 DEF Left
  <2>2. CASE c # d
    <3>1. ROB'[c] = ROB[c]
      BY <1>4, <2>2 DEF Left
    <3>2. \A u : InWindow(c, u)' <=> InWindow(c, u)
      BY <1>4, <2>2, LeftWindow DEF Linking
    <3> QED BY <1>1, <2>1, <3>1, <3>2
  <2>3. CASE c = d
    <3> DEFINE h == ROB[c].head
    <3>1. \A u : InWindow(c, u)' <=> InWindow(c, u) /\ u # h
      BY <1>4, <2>3, LeftWindow DEF Linking
    <3>2. \A u \in Slots : /\ ROB'[c].entry[u].next = ROB[c].entry[u].next
                           /\ ROB'[c].entry[u].comptime = IF u = ROB[c].entry[h].next THEN -1
                                                          ELSE ROB[c].entry[u].comptime
      BY <1>4, <2>3 DEF Left
    <3>3. s # ROB[c].entry[h].next /\ ROB[c].entry[s].comptime = BIGNUM
      <4>1. BIGNUM # -1
        BY Bounds
      <4> QED BY <3>2, <4>1
    <3> HIDE DEF h
    <3> QED BY <1>1, <2>1, <3>1, <3>2, <3>3
  <2> QED BY <2>2, <2>3
<1>5. ASSUME NEW d \in Cores,
             TookReady(d) \/ \E a \in Lines[d] : TookMerged(d, a) \/ TookRequested(d, a)
      PROVE  \/ \E r \in read_queue' : r.core = c /\ r.slot = s
             \/ \E j \in Slots : InWindow(c, j)' /\ ROB'[c].entry[j].next = s
  <2>1. PICK op, a, time, linked : Took(d, op, a, time, linked)
    BY <1>5, AlwaysTook
  <2>2. \A r \in read_queue : r \in read_queue'
    BY <1>5 DEF TookReady, TookMerged, TookRequested
  <2>T. PICK t : t = ROB[d].tail
    OBVIOUS
  <2>3. /\ ~ InWindow(d, t)
        /\ \A u : InWindow(d, u)' <=> InWindow(d, u) \/ u = t
        /\ \A e \in Cores \ {d} : \A u : InWindow(e, u)' <=> InWindow(e, u)
    BY <2>1, <2>T, TookWindow DEF Linking
  <2>4. CASE c # d
    <3>1. ROB'[c] = ROB[c]
      BY <2>1, <2>4 DEF Took
    <3> QED BY <1>1, <2>2, <2>3, <2>4, <3>1
  <2>5. CASE c = d /\ s # t
    <3>1. InWindow(c, s) /\ ROB[c].entry[s].comptime = BIGNUM
      BY <2>1, <2>3, <2>5, <2>T DEF Took
    <3>2. \A j \in Slots : InWindow(c, j) /\ ROB[c].entry[j].next = s
                                => InWindow(c, j)' /\ ROB'[c].entry[j].next = s
      BY <1>0, <2>1, <2>3, <2>5, <2>T DEF Took
    <3> QED BY <1>1, <2>2, <3>1, <3>2
  <2>6. CASE c = d /\ s = t
    <3>1. CASE TookReady(d)
      <4>1. PICK o, b : \E time1 \in Times : Took(d, o, b, time1, FALSE)
        BY <3>1 DEF TookReady
      <4>2. ROB'[c].entry[s].comptime \in Times
        BY <2>6, <2>T, <4>1 DEF Took
      <4> QED BY <4>2, Bounds
    <3>2. CASE \E b \in Lines[d] : TookMerged(d, b)
      <4>1. PICK b \in Lines[d] : TookMerged(d, b)
        BY <3>2
      <4>2. PICK r \in read_queue : r.addr = b
        BY <4>1 DEF TookMerged
      <4>3. r.core = d
        BY <4>1, <4>2, RequestOfLine
      <4>4. InWindow(d, r.slot) /\ ROB[d].entry[r.slot].optype = "R"
            /\ ROB[d].entry[r.slot].mem_address = b /\ r.slot \in Slots
        BY <4>2, <4>3, RequestTypes DEF Linking, RequestsOwn
      <4>5. PICK j \in Slots : /\ InWindow(d, j) /\ ROB[d].entry[j].optype = "R"
                               /\ ROB[d].entry[j].mem_address = b /\ ROB[d].entry[j].next = Nil
        BY <4>4, LastReader
      <4>6. j # t
        BY <2>3, <4>5
      <4>7. ROB'[d].entry[j].next = t
        BY <2>T, <4>1, <4>5, <4>6 DEF TookMerged, Took
      <4> QED BY <2>3, <2>6, <4>5, <4>7
    <3>3. CASE \E b \in Lines[d] : TookRequested(d, b)
      <4>1. PICK b \in Lines[d] : TookRequested(d, b)
        BY <3>3
      <4>2. [core |-> d, slot |-> t, addr |-> b] \in read_queue'
        BY <2>T, <4>1 DEF TookRequested
      <4> QED BY <2>6, <4>2
    <3> QED BY <1>5, <3>1, <3>2, <3>3
  <2> QED BY <2>4, <2>5, <2>6
<1> QED BY <1>2, <1>3, <1>4, <1>5 DEF Effect

LEMMA StepOwing ==
  ASSUME Linking, Typed', Owing, Effect, LinesOfTheirOwn
  PROVE  Owing'
<1> SUFFICES ASSUME NEW c \in Cores, NEW s \in owes'[c]
             PROVE  /\ InWindow(c, s)'
                    /\ \E r \in read_queue' : /\ r.core = c /\ r.addr = ROB'[c].entry[s].mem_address
                                              /\ Age(c, r.slot)' <= Age(c, s)'
  BY DEF Owing
<1>0. s \in Slots
  BY DEF Typed
<1>1. ASSUME s \in owes[c],
             InWindow(c, s) => InWindow(c, s)',
             InWindow(c, s) => ROB'[c].entry[s].mem_address = ROB[c].entry[s].mem_address,
             \A r \in read_queue : r.core = c /\ r.addr = ROB[c].entry[s].mem_address
                /\ Age(c, r.slot) <= Age(c, s)
                => r \in read_queue' /\ Age(c, r.slot)' <= Age(c, s)'
      PROVE  /\ InWindow(c, s)'
             /\ \E r \in read_queue' : /\ r.core = c /\ r.addr = ROB'[c].entry[s].mem_address
                                       /\ Age(c, r.slot)' <= Age(c, s)'
  <2>1. PICK r \in read_queue : /\ r.core = c /\ r.addr = ROB[c].entry[s].mem_address
                                /\ Age(c, r.slot) <= Age(c, s)
    BY <1>1 DEF Owing
  <2>2. InWindow(c, s)
    BY <1>1 DEF Owing
  <2> QED BY <1>1, <2>1, <2>2
<1>2. CASE Quiet
  <2>1. SameOrder(c) /\ \A u : Age(c, u)' = Age(c, u) /\ (InWindow(c, u)' <=> InWindow(c, u))
    BY <1>2, SameWindow DEF Quiet
  <2>2. owes' = owes /\ read_queue' = read_queue
    BY <1>2 DEF Quiet
  <2>3. ROB'[c].entry[s].mem_address = ROB[c].entry[s].mem_address
    BY <1>0, <2>1 DEF SameOrder
  <2> QED BY <1>1, <2>1, <2>2, <2>3
<1>3. ASSUME NEW q \in read_queue, Answered(q)
      PROVE  /\ InWindow(c, s)'
             /\ \E r \in read_queue' : /\ r.core = c /\ r.addr = ROB'[c].entry[s].mem_address
                                       /\ Age(c, r.slot)' <= Age(c, s)'
  <2>1. SameOrder(c) /\ \A u : Age(c, u)' = Age(c, u) /\ (InWindow(c, u)' <=> InWindow(c, u))
    BY <1>3, SameWindow DEF Answered
  <2>2. s \in owes[c] /\ ROB[c].entry[s].mem_address # q.addr /\ read_queue' = read_queue \ {q}
    BY <1>3 DEF Answered
  <2>3. ROB'[c].entry[s].mem_address = ROB[c].entry[s].mem_address
    BY <1>0, <2>1 DEF SameOrder
  <2>4. \A r \in read_queue : r.addr = ROB[c].entry[s].mem_address => r \in read_queue'
    BY <2>2
  <2> QED BY <1>1, <2>1, <2>2, <2>3, <2>4
<1>4. ASSUME NEW d \in Cores, Left(d)
      PROVE  /\ InWindow(c, s)'
             /\ \E r \in read_queue' : /\ r.core = c /\ r.addr = ROB'[c].entry[s].mem_address
                                       /\ Age(c, r.slot)' <= Age(c, s)'
  <2>1. read_queue' = read_queue /\ owes \in [Cores -> SUBSET Slots]
        /\ owes' = [owes EXCEPT ![d] = @ \ {ROB[d].head}]
    BY <1>4 DEF Left, Linking, Typed
  <2>2. CASE c # d
    <3>1. ROB'[c] = ROB[c]
      BY <1>4, <2>2 DEF Left
    <3>2. \A u : Age(c, u)' = Age(c, u) /\ (InWindow(c, u)' <=> InWindow(c, u))
      BY <1>4, <2>2, LeftWindow DEF Linking
    <3>3. s \in owes[c]
      BY <2>1, <2>2
    <3> QED BY <1>1, <2>1, <3>1, <3>2, <3>3
  <2>3. CASE c = d
    <3> DEFINE h == ROB[c].head
    <3>1. s \in owes[c] /\ s # h
      BY <2>1, <2>3
    <3>2. /\ \A u : InWindow(c, u)' <=> InWindow(c, u) /\ u # h
          /\ \A u \in Slots \ {h} : Age(c, u)' = Age(c, u) - 1
      BY <1>4, <2>3, LeftWindow DEF Linking
    <3>3. ROB'[c].entry[s].mem_address = ROB[c].entry[s].mem_address
      BY <1>0, <1>4, <2>3 DEF Left
    <3>4. ASSUME NEW r \in read_queue, r.core = c, Age(c, r.slot) <= Age(c, s)
          PROVE  Age(c, r.slot)' <= Age(c, s)'
      <4>1. ROB[c].entry[r.slot].comptime = BIGNUM /\ r.slot \in Slots
        BY <3>4, RequestTypes DEF Linking, RequestsOwn
      <4>2. ROB[c].entry[h].comptime = -1 /\ -1 # BIGNUM
        BY <1>4, <2>3, Bounds DEF Left
      <4>3. r.slot # h
        BY <4>1, <4>2
      <4>4. Age(c, r.slot) \in Int /\ Age(c, s) \in Int
        BY <1>0, <4>1, BufferTypes DEF Linking
      <4>5. Age(c, r.slot)' = Age(c, r.slot) - 1 /\ Age(c, s)' = Age(c, s) - 1
        BY <1>0, <3>1, <3>2, <4>1, <4>3
      <4> QED BY <3>4, <4>4, <4>5
    <3> HIDE DEF h
    <3> QED BY <1>1, <2>1, <3>1, <3>2, <3>3, <3>4
  <2> QED BY <2>2, <2>3
<1>5. ASSUME NEW d \in Cores,
             TookReady(d) \/ \E a \in Lines[d] : TookMerged(d, a) \/ TookRequested(d, a)
      PROVE  /\ InWindow(c, s)'
             /\ \E r \in read_queue' : /\ r.core = c /\ r.addr = ROB'[c].entry[s].mem_address
                                       /\ Age(c, r.slot)' <= Age(c, s)'
  <2>1. PICK op, a, time, linked : Took(d, op, a, time, linked)
    BY <1>5, AlwaysTook
  <2>2. \A r \in read_queue : r \in read_queue'
    BY <1>5 DEF TookReady, TookMerged, TookRequested
  <2>T. PICK t : t = ROB[d].tail
    OBVIOUS
  <2>3. /\ ~ InWindow(d, t) /\ Age(d, t) = ROB[d].inflight
        /\ \A e \in Cores : \A u : Age(e, u)' = Age(e, u)
        /\ \A u : InWindow(d, u)' <=> InWindow(d, u) \/ u = t
        /\ \A e \in Cores \ {d} : \A u : InWindow(e, u)' <=> InWindow(e, u)
    BY <2>1, <2>T, TookWindow DEF Linking
  <2>4. owes \in [Cores -> SUBSET Slots] /\ (owes' = owes \/ owes' = [owes EXCEPT ![d] = @ \cup {t}])
    BY <1>5, <2>T DEF TookReady, TookMerged, TookRequested, Linking, Typed
  <2>5. CASE s \in owes[c]
    <3>1. InWindow(c, s) => InWindow(c, s)'
      BY <2>3
    <3>2. InWindow(c, s) => ROB'[c].entry[s].mem_address = ROB[c].entry[s].mem_address
      BY <1>0, <2>1, <2>3, <2>T DEF Took
    <3> QED BY <1>1, <2>2, <2>3, <2>5, <3>1, <3>2
  <2>6. CASE s \notin owes[c]
    <3>1. c = d /\ s = t /\ ~ TookReady(d)
      BY <1>5, <2>4, <2>6 DEF TookReady
    <3>2. InWindow(c, s)'
      BY <2>3, <3>1
    <3>3. CASE \E b \in Lines[d] : TookMerged(d, b)
      <4>1. PICK b \in Lines[d] : TookMerged(d, b)
        BY <3>3
      <4>2. PICK r \in read_queue : r.addr = b
        BY <4>1 DEF TookMerged
      <4>3. r.core = d
        BY <4>1, <4>2, RequestOfLine
      <4>4. InWindow(d, r.slot) /\ r.slot \in Slots
        BY <4>2, <4>3, RequestTypes DEF Linking, RequestsOwn
      <4>5. Age(d, r.slot)' <= Age(d, s)'
        <5>1. Age(d, r.slot) < ROB[d].inflight /\ Age(d, r.slot) \in Int /\ ROB[d].inflight \in Int
          BY <4>4, BufferTypes DEF Linking, InWindow
        <5> QED BY <2>3, <3>1, <5>1
      <4>6. ROB'[c].entry[s].mem_address = b
        BY <2>T, <3>1, <4>1 DEF TookMerged, Took
      <4> QED BY <2>2, <3>1, <3>2, <4>2, <4>3, <4>5, <4>6
    <3>4. CASE \E b \in Lines[d] : TookRequested(d, b)
      <4>1. PICK b \in Lines[d] : TookRequested(d, b)
        BY <3>4
      <4>2. PICK r : r = [core |-> d, slot |-> t, addr |-> b]
        OBVIOUS
      <4>3. r \in read_queue' /\ r.core = c /\ r.slot = s /\ r.addr = b
        BY <2>T, <3>1, <4>1, <4>2 DEF TookRequested
      <4>4. ROB'[c].entry[s].mem_address = b
        BY <2>T, <3>1, <4>1 DEF TookRequested, Took
      <4>5. Age(c, r.slot)' <= Age(c, s)'
        <5>1. Age(c, s)' = ROB[d].inflight /\ ROB[d].inflight \in Int
          BY <2>3, <3>1, BufferTypes DEF Linking
        <5> QED BY <4>3, <5>1
      <4> QED BY <3>2, <4>3, <4>4, <4>5
    <3> QED BY <1>5, <3>1, <3>3, <3>4
  <2> QED BY <2>5, <2>6
<1> QED BY <1>2, <1>3, <1>4, <1>5 DEF Effect

\* What leaves is not owed anything.
LEMMA OldestNotOwed ==
  ASSUME Linking, Owing, NEW c \in Cores, Left(c) PROVE ROB[c].head \notin owes[c]
<1> SUFFICES ASSUME ROB[c].head \in owes[c] PROVE FALSE
  OBVIOUS
<1> DEFINE h == ROB[c].head
<1>1. PICK r \in read_queue : r.core = c /\ Age(c, r.slot) <= Age(c, h)
  BY DEF Owing
<1>2. r.slot \in Slots /\ ROB[c].entry[r.slot].comptime = BIGNUM /\ h \in Slots
  BY <1>1, RequestTypes, BufferTypes DEF Linking, RequestsOwn
<1>3. Age(c, h) = 0 /\ Age(c, r.slot) \in Nat
  BY <1>2, Ring, BufferTypes DEF Linking, Age
<1>4. r.slot = h
  <2>1. Age(c, r.slot) = 0
    BY <1>1, <1>3
  <2> QED BY <1>2, <2>1, Ring DEF Age
<1>5. ROB[c].entry[h].comptime = -1 /\ -1 # BIGNUM
  BY Bounds DEF Left
<1> QED BY <1>2, <1>4, <1>5

LEMMA OwnLinesInv == ASSUME LinesOfTheirOwn PROVE Spec => [](Linking /\ Served /\ Owing)
<1> DEFINE Inv == Linking /\ Served /\ Owing
<1>1. Init => Inv
  <2> SUFFICES ASSUME Init PROVE Inv
    OBVIOUS
  <2>1. Linking
    BY InitLinking
  <2>2. \A c \in Cores : ROB[c].inflight = 0 /\ owes[c] = {}
    BY DEF Init
  <2>3. Owing
    BY <2>2 DEF Owing
  <2>4. Served
    <3>1. \A c \in Cores : \A s : ~ InWindow(c, s)
      <4> SUFFICES ASSUME NEW c \in Cores, NEW s, InWindow(c, s) PROVE FALSE
        OBVIOUS
      <4>1. Age(c, s) \in 0..(ROBSIZE - 1) /\ Age(c, s) < 0
        BY <2>1, <2>2, BufferTypes DEF Linking, InWindow
      <4> QED BY <4>1
    <3> QED BY <3>1 DEF Served
  <2> QED BY <2>1, <2>3, <2>4
<1>2. Inv /\ [Next]_vars => Inv'
  <2> SUFFICES ASSUME Inv, [Next]_vars PROVE Inv'
    OBVIOUS
  <2>1. Typed' /\ Effect
    BY StepEffect DEF Linking
  <2>2. Linking'
    BY <2>1, StepTail, StepOwn, StepLinks DEF Linking
  <2>3. Served'
    BY <2>1, StepServed
  <2>4. Owing'
    BY <2>1, StepOwing
  <2> QED BY <2>2, <2>3, <2>4
<1> QED BY <1>1, <1>2, PTL DEF Spec

\* With lines of their own, every load that waits for the memory is waited for: the comment
\* above read_matches_write_or_read_queue holds of every core.
THEOREM SecondReadsServed == ASSUME LinesOfTheirOwn PROVE Spec => []SecondReadIsServed
<1>1. Linking /\ Served => SecondReadIsServed
  <2> SUFFICES ASSUME Linking, Served, NEW c \in Cores, NEW i \in 0..(ROB[c].inflight - 1),
                      ROB[c].entry[(ROB[c].head + i) % ROBSIZE].comptime = BIGNUM
               PROVE  LET s == (ROB[c].head + i) % ROBSIZE IN
                      \/ \E r \in read_queue : r.core = c /\ r.slot = s
                      \/ \E j \in 0..(i - 1) : ROB[c].entry[(ROB[c].head + j) % ROBSIZE].next = s
    BY DEF SecondReadIsServed
  <2> DEFINE h == ROB[c].head
             s == (h + i) % ROBSIZE
  <2>1. h \in Slots /\ ROB[c].inflight \in 0..ROBSIZE /\ ROBSIZE \in Nat \ {0}
    BY BufferTypes, ConstantTypes DEF Linking
  <2>2. i \in 0..(ROBSIZE - 1) /\ i \in 0..ROBSIZE
    BY <2>1
  <2>3. s \in Slots /\ Age(c, s) = i
    <3>1. Behind(h, (h + i) % ROBSIZE) = i /\ (h + i) % ROBSIZE \in Slots
      <4> HIDE DEF h
      <4> QED BY <2>1, <2>2, Ring, Around
    <3> QED BY <3>1 DEF Age
  <2> HIDE DEF s
  <2>4. InWindow(c, s)
    BY <2>1, <2>3 DEF InWindow
  <2>5. CASE \E j \in Slots : InWindow(c, j) /\ ROB[c].entry[j].next = s
    <3>1. PICK j \in Slots : InWindow(c, j) /\ ROB[c].entry[j].next = s
      BY <2>5
    <3>2. LinkHolds(c, j, s) /\ Age(c, j) \in Nat
      BY <2>3, <3>1, ConstantTypes, LinkBefore
    <3>3. Age(c, j) \in 0..(i - 1)
      BY <2>2, <2>3, <3>2 DEF LinkHolds
    <3>4. (h + Age(c, j)) % ROBSIZE = j
      BY <2>1, <3>1, Ring DEF Age
    <3> QED BY <3>1, <3>3, <3>4 DEF s
  <2> QED BY <2>3, <2>4, <2>5 DEF Served, s
<1> QED BY <1>1, OwnLinesInv, PTL

-----------------------------------------------------------------------------
(* The buffers implement the window of InOrderWindow. *)

LEMMA Appended ==
  ASSUME NEW S, NEW n \in Nat, NEW s \in [1..n -> S], NEW t \in [1..(n + 1) -> S],
         \A i \in 1..n : t[i] = s[i]
  PROVE  t = Append(s, t[n + 1]) /\ Len(s) = n
<1>1. s \in Seq(S) /\ Len(s) = n /\ t \in Seq(S) /\ Len(t) = n + 1
  OBVIOUS
<1>2. t[n + 1] \in S
  OBVIOUS
<1>3. /\ Append(s, t[n + 1]) \in Seq(S) /\ Len(Append(s, t[n + 1])) = n + 1
      /\ \A i \in 1..n : Append(s, t[n + 1])[i] = s[i]
      /\ Append(s, t[n + 1])[n + 1] = t[n + 1]
  BY <1>1, <1>2, AppendProperties
<1>4. \A i \in 1..(n + 1) : Append(s, t[n + 1])[i] = t[i]
  BY <1>3
<1>5. t = Append(s, t[n + 1])
  BY <1>1, <1>3, <1>4, SeqEqual
<1> QED BY <1>1, <1>5

LEMMA Tailed ==
  ASSUME NEW S, NEW n \in Nat \ {0}, NEW s \in [1..n -> S], NEW t \in [1..(n - 1) -> S],
         \A i \in 1..(n - 1) : t[i] = s[i + 1]
  PROVE  t = Tail(s) /\ s # <<>> /\ Head(s) = s[1]
<1>1. s \in Seq(S) /\ Len(s) = n /\ t \in Seq(S) /\ Len(t) = n - 1 /\ s # <<>>
  OBVIOUS
<1>2. /\ Tail(s) \in Seq(S) /\ Len(Tail(s)) = n - 1 /\ Head(s) = s[1]
      /\ \A i \in 1..(n - 1) : Tail(s)[i] = s[i + 1]
  BY <1>1, HeadTailProperties
<1>3. \A i \in 1..(n - 1) : Tail(s)[i] = t[i]
  BY <1>2
<1>4. t = Tail(s)
  BY <1>1, <1>2, <1>3, SeqEqual
<1> QED BY <1>1, <1>2, <1>4

\* The slot of the i-th instruction in the window, and what is said of it.
At(c, i) == (ROB[c].head + i - 1) % ROBSIZE
What(c, s) == <<ROB[c].entry[s].optype, ROB[c].entry[s].mem_address>>
Contents == {"-", "N", "R", "W"} \X (Addrs \cup {Nil})

LEMMA RingPositions ==
  ASSUME NEW h \in Slots
  PROVE  /\ \A i \in 1..ROBSIZE : (h + i - 1) % ROBSIZE \in Slots /\ Behind(h, (h + i - 1) % ROBSIZE) = i - 1
         /\ \A s \in Slots, i \in 1..ROBSIZE : Behind(h, s) = i - 1 => (h + i - 1) % ROBSIZE = s
<1>1. h \in Int /\ ROBSIZE \in Nat \ {0}
  BY ConstantTypes DEF Slots
<1>2. ASSUME NEW i \in 1..ROBSIZE
      PROVE  (h + i - 1) % ROBSIZE \in Slots /\ Behind(h, (h + i - 1) % ROBSIZE) = i - 1
  <2>1. i - 1 \in 0..(ROBSIZE - 1) /\ i - 1 \in 0..ROBSIZE /\ h + i - 1 = h + (i - 1)
    BY <1>1
  <2>2. (h + (i - 1)) % ROBSIZE \in Slots /\ Behind(h, (h + (i - 1)) % ROBSIZE) = i - 1
    BY <2>1, Ring, Around
  <2> QED BY <2>1, <2>2
<1>3. ASSUME NEW s \in Slots, NEW i \in 1..ROBSIZE, Behind(h, s) = i - 1
      PROVE  (h + i - 1) % ROBSIZE = s
  <2>1. PICK u \in Slots : u = (h + i - 1) % ROBSIZE
    BY <1>2
  <2>2. Behind(h, s) = Behind(h, u)
    BY <1>2, <1>3, <2>1
  <2>3. u = s
    BY <2>2, Ring
  <2> QED BY <2>1, <2>3
<1> QED BY <1>2, <1>3

LEMMA Positions ==
  ASSUME Typed, NEW c \in Cores
  PROVE  /\ \A i \in 1..ROBSIZE : At(c, i) \in Slots /\ Age(c, At(c, i)) = i - 1
         /\ \A s \in Slots, i \in 1..ROBSIZE : Age(c, s) = i - 1 => At(c, i) = s
<1>1. ROB[c].head \in Slots
  BY BufferTypes
<1> QED BY <1>1, RingPositions DEF At, Age

LEMMA NextPositions ==
  ASSUME Typed', NEW c \in Cores
  PROVE  /\ \A i \in 1..ROBSIZE : At(c, i)' \in Slots
         /\ \A s \in Slots, i \in 1..ROBSIZE : Age(c, s)' = i - 1 => At(c, i)' = s
<1>1. ROB'[c].head \in Slots
  BY DEF Typed, Buffer
<1> QED BY <1>1, RingPositions DEF At, Age

LEMMA WindowValues ==
  ASSUME NEW c \in Cores
  PROVE  /\ windowOf(c) = [i \in 1..ROB[c].inflight |-> What(c, At(c, i))]
         /\ owedOf(c) = [i \in 1..ROB[c].inflight |-> At(c, i) \in owes[c]]
BY DEF windowOf, owedOf, InOrder, At, What

LEMMA WindowTypes ==
  ASSUME Typed, NEW c \in Cores
  PROVE  /\ windowOf(c) \in [1..ROB[c].inflight -> Contents]
         /\ owedOf(c) \in [1..ROB[c].inflight -> BOOLEAN]
<1>1. ROB[c].inflight \in 0..ROBSIZE /\ ROBSIZE \in Nat
  BY BufferTypes, ConstantTypes
<1>2. \A i \in 1..ROB[c].inflight : What(c, At(c, i)) \in Contents
  <2> SUFFICES ASSUME NEW i \in 1..ROB[c].inflight PROVE What(c, At(c, i)) \in Contents
    OBVIOUS
  <2>1. i \in 1..ROBSIZE
    BY <1>1
  <2>2. At(c, i) \in Slots
    BY <2>1, Positions
  <2> QED BY <2>2, BufferTypes DEF What, Contents
<1>3. windowOf(c) \in [1..ROB[c].inflight -> Contents]
  BY <1>2, WindowValues
<1>4. owedOf(c) \in [1..ROB[c].inflight -> BOOLEAN]
  <2>1. \A i \in 1..ROB[c].inflight : (At(c, i) \in owes[c]) \in BOOLEAN
    OBVIOUS
  <2>2. [i \in 1..ROB[c].inflight |-> At(c, i) \in owes[c]] \in [1..ROB[c].inflight -> BOOLEAN]
    BY <2>1, Zenon
  <2> QED BY <2>2, WindowValues, Zenon
<1> QED BY <1>3, <1>4

\* The values of the abstract variables.
windows == [c \in Cores |-> windowOf(c)]
debts == [c \in Cores |-> owedOf(c)]

LEMMA NextWindowValues ==
  ASSUME NEW c \in Cores
  PROVE  /\ windowOf(c)' = [i \in 1..ROB'[c].inflight |-> What(c, At(c, i))']
         /\ owedOf(c)' = [i \in 1..ROB'[c].inflight |-> At(c, i)' \in owes'[c]]
         /\ windows'[c] = windowOf(c)' /\ debts'[c] = owedOf(c)'
BY DEF windowOf, owedOf, InOrder, At, What, windows, debts

LEMMA NextWindowTypes ==
  ASSUME Typed', NEW c \in Cores
  PROVE  /\ windowOf(c)' \in [1..ROB'[c].inflight -> Contents]
         /\ owedOf(c)' \in [1..ROB'[c].inflight -> BOOLEAN]
         /\ \A s \in Slots : ROB'[c].entry[s].mem_address \in Addrs \cup {Nil}
<1>1. ROB'[c].inflight \in 0..ROBSIZE /\ ROBSIZE \in Nat
  BY ConstantTypes DEF Typed, Buffer
<1>2. \A s \in Slots : /\ ROB'[c].entry[s].mem_address \in Addrs \cup {Nil}
                       /\ ROB'[c].entry[s].optype \in {"-", "N", "R", "W"}
  <2>1. ROB'[c].entry \in [Slots -> Entry]
    BY DEF Typed, Buffer
  <2> QED BY <2>1 DEF Entry
<1>3. \A i \in 1..ROB'[c].inflight : What(c, At(c, i))' \in Contents
  <2> SUFFICES ASSUME NEW i \in 1..ROB'[c].inflight PROVE What(c, At(c, i))' \in Contents
    OBVIOUS
  <2>1. i \in 1..ROBSIZE
    BY <1>1
  <2>2. PICK s \in Slots : s = At(c, i)'
    BY <2>1, NextPositions
  <2>3. What(c, s)' \in Contents
    BY <1>2 DEF What, Contents
  <2> QED BY <2>2, <2>3 DEF What
<1>4. windowOf(c)' \in [1..ROB'[c].inflight -> Contents]
  BY <1>3, NextWindowValues
<1>5. owedOf(c)' \in [1..ROB'[c].inflight -> BOOLEAN]
  <2>1. \A i \in 1..ROB'[c].inflight : (At(c, i)' \in owes'[c]) \in BOOLEAN
    OBVIOUS
  <2>2. [i \in 1..ROB'[c].inflight |-> At(c, i)' \in owes'[c]] \in [1..ROB'[c].inflight -> BOOLEAN]
    BY <2>1, Zenon
  <2> QED BY <2>2, NextWindowValues, Zenon
<1> QED BY <1>2, <1>4, <1>5

\* A core whose buffer nobody touches.
LEMMA OtherWindow ==
  ASSUME NEW d \in Cores, ROB'[d] = ROB[d], owes'[d] = owes[d]
  PROVE  windowOf(d)' = windowOf(d) /\ owedOf(d)' = owedOf(d)
BY DEF windowOf, owedOf, InOrder

LEMMA SamePlaces ==
  ASSUME Typed, NEW c \in Cores, SameOrder(c)
  PROVE  windowOf(c)' = windowOf(c) /\ \A i : At(c, i)' = At(c, i)
<1>1. \A i : At(c, i)' = At(c, i)
  BY DEF SameOrder, At
<1>2. ROB'[c].inflight = ROB[c].inflight /\ \A s \in Slots : What(c, s)' = What(c, s)
  BY DEF SameOrder, What
<1>3. ROB[c].inflight \in 0..ROBSIZE /\ ROBSIZE \in Nat
  BY BufferTypes, ConstantTypes
<1>4. \A i \in 1..ROB[c].inflight : What(c, At(c, i))' = What(c, At(c, i))
  <2> SUFFICES ASSUME NEW i \in 1..ROB[c].inflight PROVE What(c, At(c, i))' = What(c, At(c, i))
    OBVIOUS
  <2>1. i \in 1..ROBSIZE
    BY <1>3
  <2>2. PICK s \in Slots : s = At(c, i)
    BY <2>1, Positions
  <2>3. s = At(c, i)' /\ What(c, s)' = What(c, s)
    BY <1>1, <1>2, <2>2
  <2>4. What(c, At(c, i))' = What(c, s)'
    BY <2>3 DEF What
  <2> QED BY <2>2, <2>3, <2>4
<1>5. windowOf(c)' = windowOf(c)
  <2>1. [i \in 1..ROB'[c].inflight |-> What(c, At(c, i))']
          = [i \in 1..ROB[c].inflight |-> What(c, At(c, i))]
    BY <1>2, <1>4
  <2> QED BY <2>1, WindowValues, NextWindowValues
<1> QED BY <1>1, <1>5

\* No step adds to what a core is owed, unless something enters.
LEMMA StepAnswer ==
  ASSUME Typed, Quiet \/ \E r \in read_queue : Answered(r) PROVE Window!Answer
<1>1. \A c \in Cores : SameOrder(c) /\ owes'[c] \subseteq owes[c]
  BY DEF Quiet, Answered, Typed
<1>2. ASSUME NEW c \in Cores
      PROVE  /\ windowOf(c)' = windowOf(c) /\ Len(debts'[c]) = Len(debts[c])
             /\ \A i \in DOMAIN debts[c] : debts'[c][i] => debts[c][i]
  <2>1. SameOrder(c) /\ owes'[c] \subseteq owes[c]
    BY <1>1
  <2>2. windowOf(c)' = windowOf(c) /\ \A i : At(c, i)' = At(c, i)
    BY <2>1, SamePlaces
  <2>3. ROB'[c].inflight = ROB[c].inflight
    BY <2>1 DEF SameOrder
  <2>4. /\ debts[c] = [i \in 1..ROB[c].inflight |-> At(c, i) \in owes[c]]
        /\ debts'[c] = [i \in 1..ROB[c].inflight |-> At(c, i) \in owes'[c]]
    BY <2>2, <2>3, WindowValues, NextWindowValues DEF debts
  <2>5. \A i \in DOMAIN debts[c] : debts'[c][i] => debts[c][i]
    BY <2>1, <2>4
  <2>6. ROB[c].inflight \in Nat
    BY BufferTypes, ConstantTypes
  <2>7. Len(debts[c]) = ROB[c].inflight /\ Len(debts'[c]) = ROB[c].inflight
    BY <2>4, <2>6
  <2> QED BY <2>2, <2>5, <2>7
<1>3. windows' = windows
  BY <1>2 DEF windows
<1> QED BY <1>2, <1>3 DEF Window!Answer, windows, debts

LEMMA StepLeave ==
  ASSUME Linking, Typed', Owing, NEW c \in Cores, Left(c) PROVE Window!Leave(c)
<1> DEFINE n == ROB[c].inflight
           h == ROB[c].head
<1>1. n \in Nat \ {0} /\ n \in 0..ROBSIZE /\ ROBSIZE \in Nat /\ h \in Slots
  BY BufferTypes, ConstantTypes DEF Linking, Left
<1>2. ROB'[c].inflight = n - 1 /\ owes'[c] = owes[c] \ {h}
  BY DEF Left, Linking, Typed
<1>3. ASSUME NEW i \in 1..(n - 1)
      PROVE  At(c, i)' = At(c, i + 1) /\ At(c, i + 1) # h
             /\ What(c, At(c, i))' = What(c, At(c, i + 1))
  <2>1. i + 1 \in 1..ROBSIZE /\ i \in 1..ROBSIZE
    BY <1>1
  <2>2. PICK s \in Slots : s = At(c, i + 1) /\ Age(c, s) = i
    BY <2>1, Positions DEF Linking
  <2>3. s # h
    <3>1. Age(c, h) = 0
      BY <1>1, Ring DEF Age
    <3> QED BY <2>2, <3>1
  <2>4. Age(c, s)' = i - 1
    BY <2>2, <2>3, LeftWindow DEF Linking
  <2>5. At(c, i)' = s
    BY <2>1, <2>4, NextPositions
  <2>6. What(c, s)' = What(c, s)
    BY DEF Left, What
  <2>7. What(c, At(c, i))' = What(c, s)'
    BY <2>5 DEF What
  <2> QED BY <2>2, <2>3, <2>5, <2>6, <2>7
<1>4. At(c, 1) = h
  <2>1. 1 \in 1..ROBSIZE /\ Age(c, h) = 1 - 1
    BY <1>1, Ring DEF Age
  <2> QED BY <1>1, <2>1, Positions DEF Linking
<1>5. /\ windowOf(c) \in [1..n -> Contents] /\ owedOf(c) \in [1..n -> BOOLEAN]
      /\ windowOf(c)' \in [1..(n - 1) -> Contents] /\ owedOf(c)' \in [1..(n - 1) -> BOOLEAN]
  BY <1>2, WindowTypes, NextWindowTypes DEF Linking
<1>6. /\ \A i \in 1..(n - 1) : windowOf(c)'[i] = windowOf(c)[i + 1]
      /\ \A i \in 1..(n - 1) : owedOf(c)'[i] = owedOf(c)[i + 1]
      /\ owedOf(c)[1] = FALSE
  <2>1. windowOf(c) = [i \in 1..n |-> What(c, At(c, i))]
        /\ owedOf(c) = [i \in 1..n |-> At(c, i) \in owes[c]]
    BY WindowValues
  <2>2. windowOf(c)' = [i \in 1..(n - 1) |-> What(c, At(c, i))']
        /\ owedOf(c)' = [i \in 1..(n - 1) |-> At(c, i)' \in owes'[c]]
    BY <1>2, NextWindowValues
  <2>3. \A i \in 1..(n - 1) : i + 1 \in 1..n
    BY <1>1
  <2>4. \A i \in 1..(n - 1) : windowOf(c)'[i] = windowOf(c)[i + 1]
    BY <1>3, <2>1, <2>2, <2>3
  <2>5. \A i \in 1..(n - 1) : (At(c, i)' \in owes'[c]) = (At(c, i + 1) \in owes[c])
    BY <1>2, <1>3
  <2>6. \A i \in 1..(n - 1) : owedOf(c)'[i] = owedOf(c)[i + 1]
    BY <2>1, <2>2, <2>3, <2>5
  <2>7. owedOf(c)[1] = FALSE
    <3>1. h \notin owes[c] /\ 1 \in 1..n
      BY <1>1, OldestNotOwed
    <3>2. owedOf(c)[1] = (At(c, 1) \in owes[c])
      BY <2>1, <3>1
    <3>3. ~ (At(c, 1) \in owes[c])
      BY <1>4, <3>1
    <3>4. ~ owedOf(c)[1]
      BY <3>2, <3>3
    <3>5. owedOf(c)[1] \in BOOLEAN
      BY <1>5, <3>1
    <3> QED BY <3>4, <3>5, Zenon
  <2> QED BY <2>4, <2>6, <2>7
<1> HIDE DEF n, h
<1>7. windowOf(c)' = Tail(windowOf(c)) /\ windowOf(c) # <<>>
  BY <1>1, <1>5, <1>6, Tailed
<1>8. owedOf(c)' = Tail(owedOf(c)) /\ Head(owedOf(c)) = FALSE
  <2>1. PICK B : B = BOOLEAN
    OBVIOUS
  <2>2. PICK s \in [1..n -> B] : s = owedOf(c)
    BY <1>5, <2>1, Zenon
  <2>3. PICK t \in [1..(n - 1) -> B] : t = owedOf(c)'
    BY <1>5, <2>1, Zenon
  <2>4. \A i \in 1..(n - 1) : t[i] = s[i + 1]
    BY <1>6, <2>2, <2>3, Zenon
  <2>5. t = Tail(s) /\ Head(s) = s[1]
    BY <1>1, <2>4, Tailed
  <2> QED BY <1>6, <2>2, <2>3, <2>5, Zenon
<1>9. \A d \in Cores \ {c} : windowOf(d)' = windowOf(d) /\ owedOf(d)' = owedOf(d)
  <2>1. \A d \in Cores \ {c} : ROB'[d] = ROB[d] /\ owes'[d] = owes[d]
    BY DEF Left, Linking, Typed
  <2> QED BY <2>1, OtherWindow
<1>10. windows' = [windows EXCEPT ![c] = Tail(@)]
  BY <1>7, <1>9 DEF windows
<1>11. debts' = [debts EXCEPT ![c] = Tail(@)]
  BY <1>8, <1>9 DEF debts
<1>12. windows[c] # <<>> /\ ~ Head(debts[c])
  BY <1>7, <1>8 DEF windows, debts
<1> QED BY <1>10, <1>11, <1>12 DEF Window!Leave, windows, debts

LEMMA StepEnter ==
  ASSUME Linking, Typed', Owing, NEW c \in Cores,
         TookReady(c) \/ \E a \in Lines[c] : TookMerged(c, a) \/ TookRequested(c, a)
  PROVE  Window!Enter(c)
<1>N. PICK n : n = ROB[c].inflight
  OBVIOUS
<1>0. PICK op, a, time, linked : Took(c, op, a, time, linked)
  BY AlwaysTook
<1>T. PICK t : t = ROB[c].tail
  OBVIOUS
<1>1. n \in Nat /\ n < ROBSIZE /\ n \in 0..ROBSIZE /\ ROBSIZE \in Nat /\ t \in Slots
  BY <1>0, <1>N, <1>T, BufferTypes, ConstantTypes DEF Linking, Took
<1>2. ROB'[c].inflight = n + 1 /\ ROB'[c].head = ROB[c].head
      /\ \A u \in Slots \ {t} : u \in owes'[c] <=> u \in owes[c]
  <2>1. ROB'[c].inflight = n + 1 /\ ROB'[c].head = ROB[c].head
    BY <1>0, <1>N DEF Took
  <2>2. owes' = owes \/ owes' = [owes EXCEPT ![c] = @ \cup {t}]
    BY <1>T DEF TookReady, TookMerged, TookRequested
  <2>3. owes \in [Cores -> SUBSET Slots]
    BY DEF Linking, Typed
  <2> QED BY <2>1, <2>2, <2>3
<1>3. \A i : At(c, i)' = At(c, i)
  BY <1>2 DEF At
<1>4. At(c, n + 1) = t
  <2>1. Age(c, t) = n
    BY <1>0, <1>N, <1>T, TookWindow DEF Linking
  <2>2. n + 1 \in 1..ROBSIZE /\ n = (n + 1) - 1
    BY <1>1
  <2> QED BY <1>1, <2>1, <2>2, Positions DEF Linking
<1>5. ASSUME NEW i \in 1..n
      PROVE  /\ What(c, At(c, i))' = What(c, At(c, i))
             /\ (At(c, i)' \in owes'[c]) = (At(c, i) \in owes[c])
  <2>1. i \in 1..ROBSIZE /\ i - 1 # n
    BY <1>1
  <2>2. PICK s \in Slots : s = At(c, i) /\ Age(c, s) = i - 1
    BY <2>1, Positions DEF Linking
  <2>3. s # t
    BY <1>0, <1>N, <1>T, <2>1, <2>2, TookWindow DEF Linking
  <2>4. What(c, s)' = What(c, s)
    BY <1>0, <1>T, <2>2, <2>3 DEF Took, What
  <2>5. At(c, i)' = s
    BY <1>3, <2>2
  <2>6. What(c, At(c, i))' = What(c, s)'
    BY <2>5 DEF What
  <2>7. (s \in owes'[c]) = (s \in owes[c])
    BY <1>2, <2>2, <2>3
  <2> QED BY <2>2, <2>4, <2>5, <2>6, <2>7
<1>6. /\ windowOf(c) \in [1..n -> Contents] /\ owedOf(c) \in [1..n -> BOOLEAN]
      /\ windowOf(c)' \in [1..(n + 1) -> Contents] /\ owedOf(c)' \in [1..(n + 1) -> BOOLEAN]
  BY <1>2, <1>N, WindowTypes, NextWindowTypes DEF Linking
<1>7. /\ \A i \in 1..n : windowOf(c)'[i] = windowOf(c)[i]
      /\ \A i \in 1..n : owedOf(c)'[i] = owedOf(c)[i]
      /\ windowOf(c)'[n + 1] = What(c, t)'
  <2>1. windowOf(c) = [i \in 1..n |-> What(c, At(c, i))]
        /\ owedOf(c) = [i \in 1..n |-> At(c, i) \in owes[c]]
    BY <1>N, WindowValues
  <2>2. windowOf(c)' = [i \in 1..(n + 1) |-> What(c, At(c, i))']
        /\ owedOf(c)' = [i \in 1..(n + 1) |-> At(c, i)' \in owes'[c]]
    BY <1>2, NextWindowValues
  <2>3. n + 1 \in 1..(n + 1) /\ \A i \in 1..n : i \in 1..(n + 1)
    BY <1>1
  <2>4. \A i \in 1..n : windowOf(c)'[i] = windowOf(c)[i]
    BY <1>5, <2>1, <2>2, <2>3
  <2>5. \A i \in 1..n : owedOf(c)'[i] = owedOf(c)[i]
    BY <1>5, <2>1, <2>2, <2>3
  <2>6. At(c, n + 1)' = t
    BY <1>3, <1>4
  <2>7. What(c, At(c, n + 1))' = What(c, t)'
    BY <2>6 DEF What
  <2> QED BY <2>2, <2>3, <2>4, <2>5, <2>7
<1> DEFINE i == windowOf(c)'[n + 1]
           w == owedOf(c)'[n + 1]
<1>8. i \in {"N", "R", "W"} \X (Addrs \cup {Nil}) /\ w \in BOOLEAN
  <2>1. ROB'[c].entry[t].optype \in {"N", "R", "W"}
    BY <1>0, <1>T DEF Took
  <2>2. ROB'[c].entry[t].mem_address \in Addrs \cup {Nil}
    BY <1>1, NextWindowTypes
  <2>3. n + 1 \in 1..(n + 1)
    BY <1>1
  <2>4. What(c, t)' \in {"N", "R", "W"} \X (Addrs \cup {Nil})
    BY <2>1, <2>2 DEF What
  <2>5. w \in BOOLEAN
    <3> QED BY <1>6, <2>3
  <2> QED BY <1>7, <2>4, <2>5
<1>9. windowOf(c)' = Append(windowOf(c), i) /\ Len(windowOf(c)) = n
  BY <1>1, <1>6, <1>7, Appended
<1>10. owedOf(c)' = Append(owedOf(c), w)
  BY <1>1, <1>6, <1>7, Appended
<1> HIDE DEF i, w
<1>11. \A d \in Cores \ {c} : windowOf(d)' = windowOf(d) /\ owedOf(d)' = owedOf(d)
  <2>1. \A d \in Cores \ {c} : ROB'[d] = ROB[d]
    BY <1>0 DEF Took
  <2>2. owes' = owes \/ owes' = [owes EXCEPT ![c] = @ \cup {t}]
    BY <1>T DEF TookReady, TookMerged, TookRequested
  <2>3. \A d \in Cores \ {c} : owes'[d] = owes[d]
    BY <2>2 DEF Linking, Typed
  <2> QED BY <2>1, <2>3, OtherWindow
<1>12. windows' = [windows EXCEPT ![c] = Append(@, i)]
  BY <1>9, <1>11 DEF windows
<1>13. debts' = [debts EXCEPT ![c] = Append(@, w)]
  BY <1>10, <1>11 DEF debts
<1>14. Len(windows[c]) < ROBSIZE
  BY <1>1, <1>9 DEF windows
<1> QED BY <1>8, <1>12, <1>13, <1>14 DEF Window!Enter, windows, debts

\* With lines of their own, every buffer keeps the promise of InOrderWindow: instructions
\* leave in program order, and no load before the memory has answered for its line.
THEOREM BuffersImplementInOrder == ASSUME LinesOfTheirOwn PROVE Spec => ImplementsInOrder
<1> DEFINE Inv == Linking /\ Served /\ Owing
<1>1. Init => Window!InOrderInit
  <2> SUFFICES ASSUME Init PROVE Window!InOrderInit
    OBVIOUS
  <2>1. \A c \in Cores : ROB[c].inflight = 0
    BY DEF Init
  <2>2. \A c \in Cores : windowOf(c) = <<>> /\ owedOf(c) = <<>>
    <3> SUFFICES ASSUME NEW c \in Cores PROVE windowOf(c) = <<>> /\ owedOf(c) = <<>>
      OBVIOUS
    <3>1. 1..0 = {}
      OBVIOUS
    <3> QED BY <2>1, <3>1, WindowValues
  <2> QED BY <2>2 DEF Window!InOrderInit
<1>2. Inv /\ [Next]_vars => [Window!InOrderNext]_<<windows, debts>>
  <2> SUFFICES ASSUME Inv, [Next]_vars PROVE Window!InOrderNext
    OBVIOUS
  <2>1. Typed' /\ Effect
    BY StepEffect DEF Linking
  <2>2. CASE Quiet \/ \E r \in read_queue : Answered(r)
    BY <2>2, StepAnswer DEF Linking, Window!InOrderNext
  <2>3. ASSUME NEW c \in Cores, Left(c) PROVE Window!InOrderNext
    BY <2>1, <2>3, StepLeave DEF Window!InOrderNext
  <2>4. ASSUME NEW c \in Cores,
               TookReady(c) \/ \E a \in Lines[c] : TookMerged(c, a) \/ TookRequested(c, a)
        PROVE  Window!InOrderNext
    BY <2>1, <2>4, StepEnter DEF Window!InOrderNext
  <2> QED BY <2>1, <2>2, <2>3, <2>4 DEF Effect
<1>3. Spec => []Inv
  BY OwnLinesInv
<1> HIDE DEF Inv
<1> QED BY <1>1, <1>2, <1>3, PTL DEF Spec, ImplementsInOrder, Window!InOrderSpec, windows, debts
=============================================================================
