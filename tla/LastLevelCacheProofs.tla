------------------------ MODULE LastLevelCacheProofs ------------------------
(***************************************************************************)
(* For any number of sets and ways, any lines and every replacement policy *)
(* the cache holds no line twice and loses no write.  That does not depend *)
(* on which way a policy chooses: it is enough that a line is looked up in *)
(* the set it is installed in.  The last part is about the choice: LRU and *)
(* FIFO evict the oldest line.                                             *)
(***************************************************************************)
EXTENDS LastLevelCache, TLAPS

\* Valid entries hold lines of their set.
Placed ==
  \A s \in Sets, w \in Ways : entries[s][w].valid =>
    entries[s][w].tag \in Tags /\ index(entries[s][w].tag) = s

\* The counter cache installs every line dirty, so that hits need not make it so.
AllDirty == HasReset => \A s \in Sets, w \in Ways : entries[s][w].valid => entries[s][w].dirty

CacheInv == TypeOK /\ Placed /\ NoLineTwice /\ AllDirty /\ WritesNotLost

\* The set of a line is a set.
LEMMA IndexInSets == \A a \in Tags : index(a) \in Sets
  BY LastLevelCacheAssumption DEF index, Sets

\* What the entries of a well-typed cache are.
LEMMA EntryTypes ==
  ASSUME TypeOK, NEW s \in Sets, NEW w \in Ways
  PROVE  /\ entries[s][w] \in Entry
         /\ entries[s][w].valid \in BOOLEAN /\ entries[s][w].dirty \in BOOLEAN
  BY DEF TypeOK, Entry

\* The lookup of a line, and what it finds.
LEMMA Found ==
  ASSUME NEW a \in Tags
  PROVE  /\ \A w \in Lookup(a) : /\ w \in Ways /\ entries[index(a)][w].valid
                                 /\ entries[index(a)][w].tag = a
         /\ \A w \in Ways : entries[index(a)][w].valid /\ entries[index(a)][w].tag = a
                              => w \in Lookup(a)
  BY DEF Lookup, Holds

\* A line is in the cache twice at no time, so what is looked up is one way.
LEMMA FoundOnce ==
  ASSUME NoLineTwice, NEW a \in Tags, NEW v \in Lookup(a), NEW w \in Lookup(a)
  PROVE  v = w
  BY Found, IndexInSets DEF NoLineTwice

-----------------------------------------------------------------------------
(* The cache starts empty. *)

LEMMA InitCache == init_cache => CacheInv
<1> SUFFICES ASSUME init_cache PROVE CacheInv
  OBVIOUS
<1>1. \A s \in Sets, w \in Ways : entries[s][w] = EmptyEntry
  BY DEF init_cache
<1>2. EmptyEntry \in Entry /\ ~ EmptyEntry.valid
  BY LastLevelCacheAssumption DEF EmptyEntry, Entry
<1>3. (PSEL_MAX + 1) \div 2 \in 0..PSEL_MAX
  BY LastLevelCacheAssumption
<1>4. TypeOK
  <2>1. entries \in [Sets -> [Ways -> Entry]]
    BY <1>2 DEF init_cache
  <2>2. fifo_ptr \in [Sets -> Ways]
    BY LastLevelCacheAssumption DEF init_cache, Ways
  <2>3. /\ s_count \in 0..MaxAccesses
        /\ used \in [Tags -> 0..MaxAccesses] /\ installed \in [Tags -> 0..MaxAccesses]
    BY LastLevelCacheAssumption DEF init_cache
  <2>4. psel \in 0..PSEL_MAX
    BY <1>3 DEF init_cache
  <2> QED
    BY <1>2, <2>1, <2>2, <2>3, <2>4 DEF init_cache, TypeOK
<1>5. Placed /\ NoLineTwice /\ AllDirty
  BY <1>1, <1>2 DEF Placed, NoLineTwice, AllDirty
<1>6. WritesNotLost
  <2>1. \A a \in Tags : Lookup(a) = {}
    BY <1>1, <1>2, Found, IndexInSets
  <2> QED
    BY <2>1 DEF init_cache, WritesNotLost
<1> QED
  BY <1>4, <1>5, <1>6 DEF CacheInv

-----------------------------------------------------------------------------
(* A hit. *)

\* What a hit does to the entry.
LEMMA HitEntry ==
  ASSUME TypeOK, NEW e \in Entry, NEW write \in BOOLEAN, s_count < MaxAccesses
  PROVE  /\ Hit(e, write) \in Entry
         /\ Hit(e, write).valid = e.valid /\ Hit(e, write).tag = e.tag
         /\ Hit(e, write).dirty <=> e.dirty \/ write
<1>1. s_count + 1 \in 0..MaxAccesses /\ SRRIP_MAX \in 0..SRRIP_MAX
  BY LastLevelCacheAssumption DEF TypeOK
<1>2. e.valid \in BOOLEAN /\ e.tag \in Tags \cup {NoTag}
  BY DEF Entry
<1>3. PICK d \in BOOLEAN : d <=> e.dirty \/ write
  OBVIOUS
<1>4. d = (e.dirty \/ write)
  BY <1>3, Zenon
<1>5. Hit(e, write) = [e EXCEPT !.last_access = s_count + 1, !.ripctr = SRRIP_MAX, !.dirty = d]
  BY <1>4, Zenon DEF Hit
<1>6. /\ Hit(e, write) \in Entry
      /\ Hit(e, write).valid = e.valid /\ Hit(e, write).tag = e.tag
      /\ Hit(e, write).dirty = d
  <2> DEFINE h == Hit(e, write)
             t == s_count + 1
  <2>1. t \in 0..MaxAccesses /\ SRRIP_MAX \in 0..SRRIP_MAX
    BY <1>1
  <2>2. h = [e EXCEPT !.last_access = t, !.ripctr = SRRIP_MAX, !.dirty = d]
    BY <1>5
  <2> HIDE DEF h, t
  <2>3. h = [valid |-> e.valid, dirty |-> d, tag |-> e.tag, ripctr |-> SRRIP_MAX, last_access |-> t]
    BY <2>2 DEF Entry
  <2>4. h \in Entry /\ h.valid = e.valid /\ h.tag = e.tag /\ h.dirty = d
    BY <1>2, <1>3, <2>1, <2>3 DEF Entry
  <2> QED
    BY <2>4 DEF h
<1> QED
  BY <1>3, <1>6

\* The entries after a hit: one way is used, and stays what it was.
LEMMA EntriesAfterHit ==
  ASSUME TypeOK, NEW a \in Tags, NEW write \in BOOLEAN, access(a, write),
         s_count < MaxAccesses
  PROVE  \E w \in Lookup(a) :
           /\ entries' \in [Sets -> [Ways -> Entry]]
           /\ \A s \in Sets, v \in Ways :
                /\ entries'[s][v].valid = entries[s][v].valid
                /\ entries'[s][v].tag = entries[s][v].tag
                /\ s # index(a) \/ v # w => entries'[s][v] = entries[s][v]
           /\ entries'[index(a)][w].dirty <=> entries[index(a)][w].dirty \/ write
<1>1. PICK w \in Lookup(a) : entries' = [entries EXCEPT ![index(a)][w] = Hit(@, write)]
  BY DEF access, First
<1>2. w \in Ways /\ index(a) \in Sets
  BY Found, IndexInSets
<1> DEFINE e == entries[index(a)][w]
           h == Hit(e, write)
<1>3. /\ e \in Entry /\ h \in Entry /\ h.valid = e.valid /\ h.tag = e.tag
      /\ h.dirty <=> e.dirty \/ write
  <2>1. e \in Entry
    BY <1>2, EntryTypes
  <2> HIDE DEF e
  <2> QED
    BY <2>1, HitEntry
<1>4. entries' = [entries EXCEPT ![index(a)][w] = h]
  BY <1>1
<1>5. entries \in [Sets -> [Ways -> Entry]]
  BY DEF TypeOK
<1> HIDE DEF h
<1>6. /\ entries' \in [Sets -> [Ways -> Entry]]
      /\ entries'[index(a)][w] = h
      /\ \A s \in Sets, v \in Ways :
           s # index(a) \/ v # w => entries'[s][v] = entries[s][v]
  BY <1>2, <1>3, <1>4, <1>5
<1> QED
  <2>1. \A s \in Sets, v \in Ways :
          /\ entries'[s][v].valid = entries[s][v].valid
          /\ entries'[s][v].tag = entries[s][v].tag
    BY <1>3, <1>6
  <2>2. entries'[index(a)][w].dirty <=> entries[index(a)][w].dirty \/ write
    <3>1. entries'[index(a)][w].dirty = h.dirty
      BY <1>6
    <3> QED
      BY <1>3, <3>1, Zenon
  <2> QED
    BY <1>6, <2>1, <2>2, Zenon

\* The invariants in terms of the entries, before and after a step.
LEMMA InTermsOfEntries ==
  /\ WritesNotLost <=>
       \A a \in Tags : a \in unwritten <=>
         \E w \in Ways : /\ entries[index(a)][w].valid /\ entries[index(a)][w].tag = a
                         /\ entries[index(a)][w].dirty
  /\ WritesNotLost' <=>
       \A a \in Tags : a \in unwritten' <=>
         \E w \in Ways : /\ entries'[index(a)][w].valid /\ entries'[index(a)][w].tag = a
                         /\ entries'[index(a)][w].dirty
  BY DEF WritesNotLost, Lookup, Holds

\* The types of what every access changes.
LEMMA AccessTypes ==
  ASSUME TypeOK, NEW a \in Tags, NEW write \in BOOLEAN, Access(a, write)
  PROVE  /\ s_count < MaxAccesses /\ s_count + 1 \in 0..MaxAccesses
         /\ s_count' \in 0..MaxAccesses
         /\ unwritten' \subseteq Tags
         /\ used' \in [Tags -> 0..MaxAccesses]
         /\ user' = user /\ leader' = leader /\ repl_policy' = repl_policy
         /\ wasReset' = wasReset
<1>1. s_count + 1 \in 0..MaxAccesses /\ s_count' = s_count + 1
  BY LastLevelCacheAssumption DEF TypeOK, Access
<1>2. unwritten' \subseteq Tags
  BY DEF TypeOK, Access
<1>3. used' \in [Tags -> 0..MaxAccesses]
  BY <1>1 DEF TypeOK, Access
<1> QED
  BY <1>1, <1>2, <1>3 DEF Access

\* A hit keeps the invariant: it writes nothing back, and a line already dirty need
\* not be made so.
LEMMA HitKeeps ==
  ASSUME CacheInv, NEW a \in Tags, NEW write \in BOOLEAN, Access(a, write),
         access(a, write /\ ~ HasReset)
  PROVE  CacheInv'
<1>1. TypeOK /\ Placed /\ NoLineTwice /\ AllDirty /\ WritesNotLost
  BY DEF CacheInv
<1>2. PICK marks \in BOOLEAN : marks <=> write /\ ~ HasReset
  OBVIOUS
<1>3. access(a, marks)
  <2>1. marks = (write /\ ~ HasReset)
    BY <1>2, Zenon
  <2> QED
    BY <2>1, Zenon
<1>4. s_count < MaxAccesses
  BY <1>1, AccessTypes
<1>5. PICK w \in Lookup(a) :
        /\ entries' \in [Sets -> [Ways -> Entry]]
        /\ \A s \in Sets, v \in Ways :
             /\ entries'[s][v].valid = entries[s][v].valid
             /\ entries'[s][v].tag = entries[s][v].tag
             /\ s # index(a) \/ v # w => entries'[s][v] = entries[s][v]
        /\ entries'[index(a)][w].dirty <=> entries[index(a)][w].dirty \/ marks
  BY <1>1, <1>3, <1>4, EntriesAfterHit
<1>6. /\ w \in Ways /\ index(a) \in Sets
      /\ entries[index(a)][w].valid /\ entries[index(a)][w].tag = a
  BY Found, IndexInSets
<1>7. EmptyEntry \in Entry /\ ~ EmptyEntry.valid
  BY LastLevelCacheAssumption DEF EmptyEntry, Entry
<1>8. /\ victim' = EmptyEntry /\ fifo_ptr' = fifo_ptr /\ psel' = psel
      /\ installed' = installed
  BY <1>3 DEF access
<1>9. TypeOK'
  BY <1>1, <1>5, <1>7, <1>8, AccessTypes DEF TypeOK
<1>10. Placed' /\ NoLineTwice'
  BY <1>1, <1>5 DEF Placed, NoLineTwice
<1>11. AllDirty'
  <2>1. user' = user
    BY <1>1, AccessTypes
  <2> SUFFICES ASSUME HasReset, NEW s \in Sets, NEW v \in Ways, entries'[s][v].valid
               PROVE  entries'[s][v].dirty
    BY <2>1 DEF AllDirty, HasReset
  <2>2. entries[s][v].dirty
    BY <1>1, <1>5 DEF AllDirty
  <2> QED
    BY <1>5, <1>6, <2>2
<1>12. WritesNotLost'
  <2>1. \A b : b \in unwritten' <=> b \in unwritten \/ (write /\ b = a)
    BY <1>7, <1>8 DEF Access, WrittenBack
  <2>2. \A b \in Tags : b \in unwritten <=>
          \E v \in Ways : /\ entries[index(b)][v].valid /\ entries[index(b)][v].tag = b
                          /\ entries[index(b)][v].dirty
    BY <1>1, InTermsOfEntries
  <2>3. ASSUME NEW b \in Tags
        PROVE  b \in unwritten' <=>
                 \E v \in Ways : /\ entries'[index(b)][v].valid
                                 /\ entries'[index(b)][v].tag = b
                                 /\ entries'[index(b)][v].dirty
    <3>1. CASE b = a
      <4>1. \A v \in Ways : entries[index(a)][v].valid /\ entries[index(a)][v].tag = a => v = w
        BY <1>1, <1>6 DEF NoLineTwice
      <4>2. a \in unwritten <=> entries[index(a)][w].dirty
        BY <1>6, <2>2, <4>1
      <4>3. entries'[index(a)][w].dirty <=> a \in unwritten'
        BY <1>1, <1>2, <1>5, <1>6, <2>1, <4>2 DEF AllDirty
      <4> QED
        BY <1>5, <1>6, <3>1, <4>1, <4>3
    <3>2. CASE b # a
      <4>1. b \in unwritten' <=> b \in unwritten
        BY <2>1, <3>2
      <4>2. \A v \in Ways : entries[index(b)][v].tag = b =>
              entries'[index(b)][v] = entries[index(b)][v]
        BY <1>5, <1>6, <3>2, IndexInSets
      <4> QED
        BY <1>5, <2>2, <4>1, <4>2, IndexInSets
    <3> QED
      BY <3>1, <3>2
  <2> QED
    BY <2>3, InTermsOfEntries
<1> QED
  BY <1>9, <1>10, <1>11, <1>12 DEF CacheInv

-----------------------------------------------------------------------------
(* A miss. *)

\* The victim is a way of the set, and the search for it ages counters only, by no
\* more than the lowest of them.
LEMMA VictimFound ==
  ASSUME TypeOK, NEW s \in Sets, NEW w \in Chosen(entries[s], s)
  PROVE  /\ w \in Ways
         /\ Searched(entries[s], w) \in [Ways -> Entry]
         /\ \A v \in Ways :
              /\ Searched(entries[s], w)[v].valid = entries[s][v].valid
              /\ Searched(entries[s], w)[v].tag = entries[s][v].tag
              /\ Searched(entries[s], w)[v].dirty = entries[s][v].dirty
<1>1. entries[s] \in [Ways -> Entry] /\ fifo_ptr[s] \in Ways
  BY DEF TypeOK
<1>2. repl_policy \in {"LRU", "RND", "SRRIP", "DRRIP", "FIFO", "DIP"}
  BY LastLevelCacheAssumption DEF TypeOK
<1>3. w \in Ways
  BY <1>1, <1>2 DEF Chosen, InvalidWays, LowestRip, First
<1>4. CASE InvalidWays(entries[s]) = {} /\ repl_policy \in {"SRRIP", "DRRIP"}
  <2> DEFINE lowest == entries[s][w].ripctr
  <2>1. w \in First(LowestRip(entries[s]))
    BY <1>4 DEF Chosen
  <2>2. \A v \in Ways : lowest <= entries[s][v].ripctr
    BY <2>1 DEF First, LowestRip
  <2>3. Searched(entries[s], w) =
          [v \in Ways |-> [entries[s][v] EXCEPT !.ripctr = @ - lowest]]
    BY <1>4 DEF Searched
  <2>4. ASSUME NEW v \in Ways
        PROVE  /\ Searched(entries[s], w)[v] \in Entry
               /\ Searched(entries[s], w)[v].valid = entries[s][v].valid
               /\ Searched(entries[s], w)[v].tag = entries[s][v].tag
               /\ Searched(entries[s], w)[v].dirty = entries[s][v].dirty
    <3> DEFINE e == entries[s][v]
               r == e.ripctr - lowest
    <3>1. e \in Entry /\ entries[s][w] \in Entry
      BY <1>1, <1>3
    <3>2. e.ripctr \in 0..SRRIP_MAX /\ lowest \in 0..SRRIP_MAX
      BY <3>1 DEF Entry
    <3>3. r \in 0..SRRIP_MAX
      BY <2>2, <3>2, LastLevelCacheAssumption
    <3>4. Searched(entries[s], w)[v] = [e EXCEPT !.ripctr = r]
      BY <2>3
    <3> HIDE DEF e, r
    <3>5. /\ [e EXCEPT !.ripctr = r] \in Entry
          /\ [e EXCEPT !.ripctr = r].valid = e.valid
          /\ [e EXCEPT !.ripctr = r].tag = e.tag
          /\ [e EXCEPT !.ripctr = r].dirty = e.dirty
      BY <3>1, <3>3 DEF Entry
    <3> QED
      BY <3>4, <3>5 DEF e
  <2>5. Searched(entries[s], w) \in [Ways -> Entry]
    BY <2>3, <2>4
  <2> QED
    BY <1>3, <2>4, <2>5
<1>5. CASE ~ (InvalidWays(entries[s]) = {} /\ repl_policy \in {"SRRIP", "DRRIP"})
  <2>1. Searched(entries[s], w) = entries[s]
    BY <1>5 DEF Searched
  <2> QED
    BY <1>1, <1>3, <2>1
<1> QED
  BY <1>4, <1>5

\* The new line.
LEMMA NewEntryTypes ==
  ASSUME TypeOK, NEW old \in Entry, NEW a \in Tags, NEW write \in BOOLEAN,
         NEW sparing, s_count + 1 \in 0..MaxAccesses
  PROVE  /\ NewEntry(old, a, write, sparing) \in Entry
         /\ NewEntry(old, a, write, sparing).valid
         /\ NewEntry(old, a, write, sparing).tag = a
         /\ NewEntry(old, a, write, sparing).dirty = write
<1> DEFINE r == IF repl_policy = "DRRIP" /\ sparing THEN 0 ELSE SRRIP_INIT
           t == IF repl_policy = "DIP" /\ sparing THEN old.last_access ELSE s_count + 1
<1>1. r \in 0..SRRIP_MAX
  BY LastLevelCacheAssumption
<1>2. t \in 0..MaxAccesses
  BY DEF Entry
<1>3. NewEntry(old, a, write, sparing) =
        [valid |-> TRUE, dirty |-> write, tag |-> a, ripctr |-> r, last_access |-> t]
  BY DEF NewEntry
<1> HIDE DEF r, t
<1> QED
  BY <1>1, <1>2, <1>3 DEF Entry

\* The counters of the duel and the pointer of FIFO stay in range.
LEMMA PolicyTypes ==
  ASSUME TypeOK, NEW s \in Sets
  PROVE  Duel(s) \in 0..PSEL_MAX /\ NextFifo(s) \in Ways
<1>1. psel \in 0..PSEL_MAX /\ PSEL_MAX \in Nat
  BY LastLevelCacheAssumption DEF TypeOK
<1>2. Duel(s) \in 0..PSEL_MAX
  BY <1>1 DEF Duel
<1>3. fifo_ptr[s] \in Ways /\ assocs \in Nat \ {0}
  BY LastLevelCacheAssumption DEF TypeOK
<1>4. NextFifo(s) \in Ways
  BY <1>3 DEF NextFifo, Ways
<1> QED
  BY <1>2, <1>4

\* What a miss does to the entries, and what it evicts.
LEMMA EntriesAfterMiss ==
  ASSUME TypeOK, NEW a \in Tags, NEW write \in BOOLEAN, install(a, write),
         s_count + 1 \in 0..MaxAccesses
  PROVE  \E w \in Ways :
           /\ entries' \in [Sets -> [Ways -> Entry]]
           /\ \A s \in Sets, v \in Ways : s # index(a) \/ v # w =>
                /\ entries'[s][v].valid = entries[s][v].valid
                /\ entries'[s][v].tag = entries[s][v].tag
                /\ entries'[s][v].dirty = entries[s][v].dirty
           /\ entries'[index(a)][w].valid
           /\ entries'[index(a)][w].tag = a
           /\ entries'[index(a)][w].dirty = write
           /\ victim' \in Entry
           /\ victim'.valid = entries[index(a)][w].valid
           /\ victim'.tag = entries[index(a)][w].tag
           /\ victim'.dirty = entries[index(a)][w].dirty
<1> DEFINE s == index(a)
<1>1. s \in Sets
  BY IndexInSets
<1>2. PICK w \in Chosen(entries[s], s), sparing \in BOOLEAN :
        /\ victim' = Searched(entries[s], w)[w]
        /\ entries' = [entries EXCEPT ![s] =
             [Searched(entries[s], w) EXCEPT ![w] = NewEntry(entries[s][w], a, write, sparing)]]
  <2>1. \A x \in (IF repl_policy \in {"DRRIP", "DIP"} THEN Sparing(s) ELSE {FALSE}) : x \in BOOLEAN
    <3>1. leader[s] \in {"p0", "p1", "none"}
      BY <1>1 DEF TypeOK, Draws
    <3> QED
      BY <3>1 DEF Sparing
  <2> QED
    BY <2>1 DEF install
<1> HIDE DEF s
<1> DEFINE S == Searched(entries[s], w)
           n == NewEntry(entries[s][w], a, write, sparing)
<1>3. /\ w \in Ways /\ S \in [Ways -> Entry]
      /\ \A v \in Ways : /\ S[v].valid = entries[s][v].valid
                         /\ S[v].tag = entries[s][v].tag
                         /\ S[v].dirty = entries[s][v].dirty
  BY <1>1, <1>2, VictimFound
<1>4. n \in Entry /\ n.valid /\ n.tag = a /\ n.dirty = write
  BY <1>1, <1>3, EntryTypes, NewEntryTypes
<1>5. entries' = [entries EXCEPT ![s] = [S EXCEPT ![w] = n]] /\ victim' = S[w]
  BY <1>2
<1>6. entries \in [Sets -> [Ways -> Entry]]
  BY DEF TypeOK
<1> HIDE DEF S, n
<1>7. entries'[s] = [S EXCEPT ![w] = n] /\ \A z \in Sets : z # s => entries'[z] = entries[z]
  BY <1>1, <1>5, <1>6
<1>8. entries' \in [Sets -> [Ways -> Entry]]
  BY <1>1, <1>3, <1>4, <1>5, <1>6
<1>9. entries'[s][w] = n /\ \A v \in Ways : v # w => entries'[s][v] = S[v]
  BY <1>3, <1>7
<1> QED
  BY <1>3, <1>4, <1>5, <1>7, <1>8, <1>9 DEF s

\* A miss keeps the invariant: the new line was nowhere in the cache, and the victim, if
\* it holds a write, is written back.
LEMMA MissKeeps ==
  ASSUME CacheInv, NEW a \in Tags, NEW write \in BOOLEAN, HasReset => write,
         Access(a, write), install(a, write)
  PROVE  CacheInv'
<1> DEFINE s == index(a)
<1>1. TypeOK /\ Placed /\ NoLineTwice /\ AllDirty /\ WritesNotLost
  BY DEF CacheInv
<1>2. s \in Sets /\ s_count + 1 \in 0..MaxAccesses
  BY <1>1, AccessTypes, IndexInSets
<1>3. PICK w \in Ways :
        /\ entries' \in [Sets -> [Ways -> Entry]]
        /\ \A z \in Sets, v \in Ways : z # s \/ v # w =>
             /\ entries'[z][v].valid = entries[z][v].valid
             /\ entries'[z][v].tag = entries[z][v].tag
             /\ entries'[z][v].dirty = entries[z][v].dirty
        /\ entries'[s][w].valid /\ entries'[s][w].tag = a
        /\ entries'[s][w].dirty = write
        /\ victim' \in Entry
        /\ victim'.valid = entries[s][w].valid
        /\ victim'.tag = entries[s][w].tag
        /\ victim'.dirty = entries[s][w].dirty
  BY <1>1, <1>2, EntriesAfterMiss
<1>4. \A v \in Ways : ~ (entries[s][v].valid /\ entries[s][v].tag = a)
  BY Found DEF install
<1>5. TypeOK'
  <2>1. /\ psel' \in 0..PSEL_MAX /\ fifo_ptr' \in [Sets -> Ways]
        /\ installed' \in [Tags -> 0..MaxAccesses]
    BY <1>1, <1>2, PolicyTypes DEF TypeOK, install
  <2> QED
    BY <1>1, <1>3, <2>1, AccessTypes DEF TypeOK
<1>6. Placed'
  BY <1>1, <1>3 DEF Placed
<1>7. NoLineTwice'
  <2> SUFFICES ASSUME NEW z \in Sets, NEW u \in Ways, NEW v \in Ways,
                      entries'[z][u].valid, entries'[z][v].valid,
                      entries'[z][u].tag = entries'[z][v].tag
               PROVE  u = v
    BY DEF NoLineTwice
  <2>1. CASE z = s /\ (u = w \/ v = w)
    BY <1>3, <1>4, <2>1
  <2>2. CASE ~ (z = s /\ (u = w \/ v = w))
    BY <1>1, <1>3, <2>2 DEF NoLineTwice
  <2> QED
    BY <2>1, <2>2
<1>8. AllDirty'
  <2>1. user' = user
    BY <1>1, AccessTypes
  <2> QED
    BY <1>1, <1>3, <2>1 DEF AllDirty, HasReset
<1>9. WritesNotLost'
  <2>1. \A b : b \in unwritten' <=>
          /\ b \in unwritten \/ (write /\ b = a)
          /\ ~ (victim'.valid /\ victim'.dirty /\ victim'.tag = b)
    BY DEF Access, WrittenBack
  <2>2. \A b \in Tags : b \in unwritten <=>
          \E v \in Ways : /\ entries[index(b)][v].valid /\ entries[index(b)][v].tag = b
                          /\ entries[index(b)][v].dirty
    BY <1>1, InTermsOfEntries
  <2>3. ASSUME NEW b \in Tags
        PROVE  b \in unwritten' <=>
                 \E v \in Ways : /\ entries'[index(b)][v].valid
                                 /\ entries'[index(b)][v].tag = b
                                 /\ entries'[index(b)][v].dirty
    <3>1. CASE b = a
      <4>1. a \notin unwritten
        BY <1>4, <2>2
      <4>2. a \in unwritten' <=> write
        BY <1>3, <1>4, <2>1, <4>1
      <4>3. \A v \in Ways : entries'[s][v].valid /\ entries'[s][v].tag = a => v = w
        BY <1>2, <1>3, <1>4
      <4> QED
        BY <1>3, <3>1, <4>2, <4>3
    <3>2. CASE b # a /\ victim'.valid /\ victim'.tag = b
      <4>1. index(b) = s
        BY <1>1, <1>2, <1>3, <3>2 DEF Placed
      <4>2. entries[s][w].valid /\ entries[s][w].tag = b
        BY <1>3, <3>2
      <4> HIDE DEF s
      <4>3. \A v \in Ways : entries[s][v].valid /\ entries[s][v].tag = b => v = w
        BY <1>1, <1>2, <4>2 DEF NoLineTwice
      <4>4. \A v \in Ways : ~ (entries'[s][v].valid /\ entries'[s][v].tag = b)
        <5> TAKE v \in Ways
        <5>1. CASE v = w
          BY <1>3, <3>2, <5>1
        <5>2. CASE v # w
          BY <1>2, <1>3, <4>3, <5>2
        <5> QED
          BY <5>1, <5>2
      <4>5. b \in unwritten => entries[s][w].dirty
        BY <2>2, <4>1, <4>3
      <4>6. b \in unwritten => victim'.dirty
        BY <1>3, <4>5
      <4> QED
        BY <2>1, <3>2, <4>1, <4>4, <4>6
    <3>3. CASE b # a /\ ~ (victim'.valid /\ victim'.tag = b)
      <4>1. b \in unwritten' <=> b \in unwritten
        BY <2>1, <3>3
      <4>2. ASSUME NEW v \in Ways
            PROVE  (entries'[index(b)][v].valid /\ entries'[index(b)][v].tag = b
                      /\ entries'[index(b)][v].dirty)
                   <=> (entries[index(b)][v].valid /\ entries[index(b)][v].tag = b
                          /\ entries[index(b)][v].dirty)
        <5>1. CASE index(b) = s /\ v = w
          BY <1>3, <3>3, <5>1
        <5>2. CASE ~ (index(b) = s /\ v = w)
          BY <1>3, <5>2, IndexInSets
        <5> QED
          BY <5>1, <5>2
      <4> QED
        BY <2>2, <4>1, <4>2
    <3> QED
      BY <3>1, <3>2, <3>3
  <2> QED
    BY <2>3, InTermsOfEntries
<1> QED
  BY <1>5, <1>6, <1>7, <1>8, <1>9 DEF CacheInv

-----------------------------------------------------------------------------
(* The reset of the counter cache, and all steps. *)

\* A reset keeps the invariant, whatever dirty bits it leaves in the invalid entries.
LEMMA ResetKeeps ==
  ASSUME CacheInv, reset
  PROVE  CacheInv'
<1>1. TypeOK
  BY DEF CacheInv
<1>2. ASSUME NEW e \in Entry
      PROVE  [e EXCEPT !.valid = FALSE] \in Entry /\ ~ [e EXCEPT !.valid = FALSE].valid
  BY DEF Entry
<1>3. \A z \in Sets, v \in Ways : entries'[z][v] \in Entry /\ ~ entries'[z][v].valid
  <2> TAKE z \in Sets, v \in Ways
  <2>1. entries'[z][v] = [entries[z][v] EXCEPT !.valid = FALSE]
    BY DEF reset
  <2> QED
    BY <1>1, <1>2, <2>1, EntryTypes
<1>4. entries' \in [Sets -> [Ways -> Entry]]
  <2>1. entries' = [z \in Sets |-> [v \in Ways |-> entries'[z][v]]]
    BY DEF reset
  <2> QED
    BY <1>3, <2>1
<1>5. EmptyEntry \in Entry
  BY LastLevelCacheAssumption DEF EmptyEntry, Entry
<1>6. TypeOK'
  BY <1>1, <1>4, <1>5 DEF TypeOK, reset
<1>7. Placed' /\ NoLineTwice' /\ AllDirty'
  BY <1>3 DEF Placed, NoLineTwice, AllDirty
<1>8. WritesNotLost'
  BY <1>3, IndexInSets, InTermsOfEntries DEF reset
<1> QED
  BY <1>6, <1>7, <1>8 DEF CacheInv

\* Every step keeps the invariant.
LEMMA CacheSteps == CacheInv /\ [Next]_vars => CacheInv'
<1> SUFFICES ASSUME CacheInv, [Next]_vars PROVE CacheInv'
  OBVIOUS
<1>1. CASE reset
  BY <1>1, ResetKeeps
<1>2. ASSUME NEW a \in Tags, NEW write \in BOOLEAN, HasReset => write, Access(a, write)
      PROVE  CacheInv'
  <2>1. CASE access(a, write /\ ~ HasReset)
    BY <1>2, <2>1, HitKeeps
  <2>2. CASE install(a, write)
    BY <1>2, <2>2, MissKeeps
  <2> QED
    BY <1>2, <2>1, <2>2 DEF Access
<1>3. CASE UNCHANGED vars
  BY <1>3 DEF vars, CacheInv, TypeOK, Placed, NoLineTwice, AllDirty, HasReset, WritesNotLost,
              Lookup, Holds
<1> QED
  BY <1>1, <1>2, <1>3 DEF Next

LEMMA CacheInvariant == Spec => []CacheInv
  BY InitCache, CacheSteps, PTL DEF Spec

-----------------------------------------------------------------------------
(* The victims of LRU and FIFO. *)

\* What last_access says of a line is when it was used.
LastUsed ==
  repl_policy = "LRU" =>
    \A s \in Sets, w \in Ways : entries[s][w].valid =>
      entries[s][w].last_access = used[entries[s][w].tag]

\* The ways of a set in the order in which FIFO evicts them: from the pointer on and round.
Before(p, v, w) == IF v >= p THEN v < w \/ w < p ELSE v < w /\ w < p

\* Until a reset the ways before the pointer are filled, the others are filled all or none,
\* and the lines came in the order of their ways.
FilledInTurn(s, p) ==
  /\ \A w \in Ways : w < p => entries[s][w].valid
  /\ \A v, w \in Ways : v >= p /\ w >= p => (entries[s][v].valid <=> entries[s][w].valid)
  /\ \A v, w \in Ways :
       entries[s][v].valid /\ entries[s][w].valid /\ Before(p, v, w) =>
         installed[entries[s][v].tag] <= installed[entries[s][w].tag]

FifoOrder == repl_policy = "FIFO" /\ ~ wasReset => \A s \in Sets : FilledInTurn(s, fifo_ptr[s])

SoFar == \A a \in Tags : installed[a] <= s_count

OrderInv == LastUsed /\ FifoOrder /\ SoFar

\* Nothing is ordered before the first access.
LEMMA InitOrder == init_cache => OrderInv
<1> SUFFICES ASSUME init_cache PROVE OrderInv
  OBVIOUS
<1>1. \A s \in Sets, w \in Ways : ~ entries[s][w].valid
  BY DEF init_cache, EmptyEntry
<1>2. \A s \in Sets : fifo_ptr[s] = 0
  BY DEF init_cache
<1>3. SoFar
  BY DEF init_cache, SoFar
<1> QED
  BY <1>1, <1>2, <1>3 DEF OrderInv, LastUsed, FifoOrder, FilledInTurn, Ways

\* The time of an access, and the lines it is not an access of.
LEMMA AccessOrder ==
  ASSUME TypeOK, SoFar, NEW a \in Tags, NEW write \in BOOLEAN, Access(a, write)
  PROVE  /\ used'[a] = s_count + 1
         /\ \A b \in Tags : b # a => used'[b] = used[b]
         /\ s_count' = s_count + 1 /\ s_count \in Nat
<1>1. used \in [Tags -> 0..MaxAccesses] /\ s_count \in Nat
  BY LastLevelCacheAssumption DEF TypeOK
<1> QED
  BY <1>1 DEF Access

\* A hit dates the line it finds.
LEMMA HitDates ==
  ASSUME TypeOK, NoLineTwice, NEW a \in Tags, NEW write \in BOOLEAN, access(a, write),
         s_count < MaxAccesses
  PROVE  \A s \in Sets, v \in Ways :
           entries'[s][v].valid =>
             entries'[s][v].last_access =
               IF s = index(a) /\ entries[s][v].tag = a THEN s_count + 1
               ELSE entries[s][v].last_access
<1>1. PICK w \in Lookup(a) : entries' = [entries EXCEPT ![index(a)][w] = Hit(@, write)]
  BY DEF access, First
<1>2. w \in Ways /\ index(a) \in Sets /\ entries[index(a)][w].tag = a
      /\ entries[index(a)][w].valid
  BY Found, IndexInSets
<1>3. entries \in [Sets -> [Ways -> Entry]]
  BY DEF TypeOK
<1> DEFINE e == entries[index(a)][w]
<1>4. e \in Entry
  BY <1>2, <1>3
<1>5. entries'[index(a)][w] = Hit(e, write)
  BY <1>1, <1>2, <1>3
<1>6. Hit(e, write).last_access = s_count + 1
  <2>1. \A d : [e EXCEPT !.last_access = s_count + 1, !.ripctr = SRRIP_MAX,
                         !.dirty = d].last_access = s_count + 1
    <3> HIDE DEF e
    <3> QED BY <1>4 DEF Entry
  <2> QED BY <2>1, Zenon DEF Hit
<1>7. \A s \in Sets, v \in Ways : s # index(a) \/ v # w => entries'[s][v] = entries[s][v]
  BY <1>1, <1>2, <1>3
<1> HIDE DEF e
<1> TAKE s \in Sets, v \in Ways
<1> HAVE entries'[s][v].valid
<1>8. CASE s = index(a) /\ v = w
  BY <1>2, <1>5, <1>6, <1>8
<1>9. CASE s # index(a) \/ v # w
  <2>1. entries'[s][v] = entries[s][v]
    BY <1>7, <1>9
  <2>2. entries[s][v].valid
    BY <2>1
  <2>3. ~ (s = index(a) /\ entries[s][v].tag = a)
    BY <1>2, <1>9, <2>2 DEF NoLineTwice
  <2> QED
    BY <2>1, <2>3
<1> QED
  BY <1>8, <1>9

\* A hit keeps the order: it only dates the line.
LEMMA HitOrder ==
  ASSUME CacheInv, OrderInv, NEW a \in Tags, NEW write \in BOOLEAN, Access(a, write),
         access(a, write /\ ~ HasReset)
  PROVE  OrderInv'
<1>1. TypeOK /\ Placed /\ NoLineTwice /\ LastUsed /\ FifoOrder /\ SoFar
  BY DEF CacheInv, OrderInv
<1>2. PICK marks \in BOOLEAN : access(a, marks)
  <2>1. PICK marks \in BOOLEAN : marks <=> write /\ ~ HasReset
    OBVIOUS
  <2>2. marks = (write /\ ~ HasReset)
    BY <2>1, Zenon
  <2> QED
    BY <2>2, Zenon
<1>3. s_count < MaxAccesses
  BY <1>1, AccessTypes
<1>4. \A s \in Sets, v \in Ways :
        entries'[s][v].valid = entries[s][v].valid /\ entries'[s][v].tag = entries[s][v].tag
  BY <1>1, <1>2, <1>3, EntriesAfterHit
<1>5. \A s \in Sets, v \in Ways :
        entries'[s][v].valid =>
          entries'[s][v].last_access =
            IF s = index(a) /\ entries[s][v].tag = a THEN s_count + 1
            ELSE entries[s][v].last_access
  BY <1>1, <1>2, <1>3, HitDates
<1>6. /\ used'[a] = s_count + 1 /\ \A b \in Tags : b # a => used'[b] = used[b]
      /\ s_count' = s_count + 1 /\ s_count \in Nat
  BY <1>1, AccessOrder
<1>7. /\ fifo_ptr' = fifo_ptr /\ installed' = installed
      /\ repl_policy' = repl_policy /\ wasReset' = wasReset
  BY DEF Access, access
<1>8. LastUsed'
  <2> SUFFICES ASSUME repl_policy = "LRU", NEW s \in Sets, NEW w \in Ways, entries'[s][w].valid
               PROVE  entries'[s][w].last_access = used'[entries'[s][w].tag]
    BY <1>7 DEF LastUsed
  <2>1. /\ entries[s][w].valid /\ entries'[s][w].tag = entries[s][w].tag
        /\ entries[s][w].tag \in Tags /\ index(entries[s][w].tag) = s
    BY <1>1, <1>4 DEF Placed
  <2>2. entries[s][w].last_access = used[entries[s][w].tag]
    BY <1>1, <2>1 DEF LastUsed
  <2>3. CASE entries[s][w].tag = a
    BY <1>5, <1>6, <2>1, <2>3
  <2>4. CASE entries[s][w].tag # a
    BY <1>5, <1>6, <2>1, <2>2, <2>4
  <2> QED
    BY <2>3, <2>4
<1>9. FifoOrder'
  BY <1>1, <1>4, <1>7 DEF FifoOrder, FilledInTurn
<1>10. SoFar'
  <2>1. \A b \in Tags : installed[b] \in Nat
    BY <1>1 DEF TypeOK
  <2> QED
    BY <1>1, <1>6, <1>7, <2>1 DEF SoFar
<1> QED
  BY <1>8, <1>9, <1>10 DEF OrderInv

\* Under LRU and FIFO, which do not age, a miss replaces one way and nothing else.
LEMMA PlainMiss ==
  ASSUME TypeOK, NEW a \in Tags, NEW write \in BOOLEAN, install(a, write),
         repl_policy \in {"LRU", "FIFO"}
  PROVE  \E w \in Chosen(entries[index(a)], index(a)) :
           /\ w \in Ways
           /\ victim' = entries[index(a)][w]
           /\ entries'[index(a)][w].valid /\ entries'[index(a)][w].tag = a
           /\ entries'[index(a)][w].last_access = s_count + 1
           /\ \A s \in Sets, v \in Ways :
                s # index(a) \/ v # w => entries'[s][v] = entries[s][v]
<1> DEFINE s == index(a)
<1>1. s \in Sets
  BY IndexInSets
<1>2. PICK w \in Chosen(entries[s], s), sparing \in {FALSE} :
        /\ victim' = Searched(entries[s], w)[w]
        /\ entries' = [entries EXCEPT ![s] =
             [Searched(entries[s], w) EXCEPT ![w] = NewEntry(entries[s][w], a, write, sparing)]]
  BY DEF install
<1> HIDE DEF s
<1>3. w \in Ways
  BY <1>1, VictimFound
<1>4. Searched(entries[s], w) = entries[s]
  BY DEF Searched
<1> DEFINE n == NewEntry(entries[s][w], a, write, sparing)
<1>5. n.valid /\ n.tag = a /\ n.last_access = s_count + 1
  BY DEF NewEntry
<1>6. entries' = [entries EXCEPT ![s] = [entries[s] EXCEPT ![w] = n]] /\ victim' = entries[s][w]
  BY <1>2, <1>4
<1>7. entries \in [Sets -> [Ways -> Entry]]
  BY DEF TypeOK
<1> HIDE DEF n
<1>8. entries'[s][w] = n
  BY <1>1, <1>3, <1>6, <1>7
<1>9. \A z \in Sets, v \in Ways : z # s \/ v # w => entries'[z][v] = entries[z][v]
  BY <1>1, <1>3, <1>6, <1>7
<1>10. /\ w \in Ways
       /\ victim' = entries[s][w]
       /\ entries'[s][w].valid /\ entries'[s][w].tag = a
       /\ entries'[s][w].last_access = s_count + 1
       /\ \A z \in Sets, v \in Ways : z # s \/ v # w => entries'[z][v] = entries[z][v]
  BY <1>3, <1>5, <1>6, <1>8, <1>9
<1> QED
  BY <1>2, <1>10, Zenon DEF s

\* An empty way is filled first, whatever the policy.
LEMMA EmptyFirst ==
  ASSUME NEW set, NEW s, InvalidWays(set) # {}
  PROVE  Chosen(set, s) = First(InvalidWays(set))
  BY DEF Chosen

\* While it is filled in turn, FIFO fills the way at the pointer, empty or not.
LEMMA FifoVictim ==
  ASSUME TypeOK, NEW s \in Sets, repl_policy = "FIFO", FilledInTurn(s, fifo_ptr[s]),
         NEW w \in Chosen(entries[s], s)
  PROVE  w = fifo_ptr[s]
<1>1. PICK p \in Ways : p = fifo_ptr[s]
  BY DEF TypeOK
<1>2. w \in Ways /\ w \in Nat /\ p \in Nat
  BY VictimFound, LastLevelCacheAssumption DEF Ways
<1>3. CASE InvalidWays(entries[s]) # {}
  <2>1. w \in First(InvalidWays(entries[s]))
    BY <1>3, EmptyFirst
  <2>2. ~ entries[s][w].valid /\ \A v \in Ways : ~ entries[s][v].valid => w <= v
    BY <2>1 DEF First, InvalidWays
  <2>3. w >= p
    BY <1>1, <1>2, <2>2 DEF FilledInTurn
  <2>4. p >= p
    BY <1>2
  <2>5. ~ entries[s][p].valid
    BY <1>1, <1>2, <2>2, <2>3, <2>4 DEF FilledInTurn
  <2> QED
    BY <1>1, <1>2, <2>2, <2>3, <2>5
<1>4. CASE InvalidWays(entries[s]) = {}
  BY <1>4 DEF Chosen
<1> QED
  BY <1>3, <1>4

\* The way at the pointer becomes the last of the order, and the order of the others stays.
LEMMA PointerMoves ==
  ASSUME TypeOK, NEW s \in Sets
  PROVE  LET p == fifo_ptr[s]
             q == NextFifo(s)
         IN  /\ \A v, w \in Ways : Before(q, v, w) => v # p /\ (w # p => Before(p, v, w))
             /\ \A w \in Ways : w < q => w <= p
             /\ \A v \in Ways : v >= q => (v > p \/ q = 0)
             /\ q = 0 => \A v \in Ways : v <= p
<1>1. fifo_ptr[s] \in Ways /\ assocs \in Nat \ {0} /\ Ways = 0..(assocs - 1)
  BY LastLevelCacheAssumption DEF TypeOK, Ways
<1> DEFINE p == fifo_ptr[s]
           q == NextFifo(s)
<1>2. IF p = assocs - 1 THEN q = 0 ELSE q = p + 1
  BY <1>1 DEF NextFifo
<1>3. p \in 0..(assocs - 1)
  BY <1>1
<1> HIDE DEF p, q
<1>4. ASSUME NEW v \in Ways, NEW w \in Ways, Before(q, v, w)
      PROVE  v # p /\ (w # p => Before(p, v, w))
  BY <1>1, <1>2, <1>3, <1>4 DEF Before
<1>5. /\ \A w \in Ways : w < q => w <= p
      /\ \A v \in Ways : v >= q => (v > p \/ q = 0)
      /\ q = 0 => \A v \in Ways : v <= p
  BY <1>1, <1>2, <1>3
<1> QED
  BY <1>4, <1>5 DEF p, q

\* A miss keeps the order: the new line is the latest, in the way the pointer leaves behind.
LEMMA MissOrder ==
  ASSUME CacheInv, OrderInv, NEW a \in Tags, NEW write \in BOOLEAN, Access(a, write),
         install(a, write)
  PROVE  OrderInv'
<1> DEFINE s == index(a)
<1>1. TypeOK /\ Placed /\ NoLineTwice /\ LastUsed /\ FifoOrder /\ SoFar
  BY DEF CacheInv, OrderInv
<1>2. s \in Sets
  BY IndexInSets
<1>3. /\ used'[a] = s_count + 1 /\ \A b \in Tags : b # a => used'[b] = used[b]
      /\ s_count' = s_count + 1 /\ s_count \in Nat
  BY <1>1, AccessOrder
<1>4. /\ installed \in [Tags -> Nat]
      /\ installed'[a] = s_count + 1 /\ \A b \in Tags : b # a => installed'[b] = installed[b]
  BY <1>1 DEF TypeOK, install
<1>5. /\ repl_policy' = repl_policy /\ wasReset' = wasReset
      /\ fifo_ptr' = [fifo_ptr EXCEPT ![s] = NextFifo(s)]
  BY DEF Access, install
<1>6. \A z \in Sets, v \in Ways : entries[z][v].valid =>
        entries[z][v].tag \in Tags /\ index(entries[z][v].tag) = z /\ entries[z][v].tag # a
  <2>1. \A v \in Ways : ~ (entries[s][v].valid /\ entries[s][v].tag = a)
    BY Found DEF install
  <2> QED
    BY <1>1, <2>1 DEF Placed
<1>7. SoFar'
  BY <1>1, <1>3, <1>4 DEF SoFar
<1>8. LastUsed'
  <2> SUFFICES ASSUME repl_policy = "LRU", NEW z \in Sets, NEW v \in Ways, entries'[z][v].valid
               PROVE  entries'[z][v].last_access = used'[entries'[z][v].tag]
    BY <1>5 DEF LastUsed
  <2>1. PICK w \in Ways :
          /\ entries'[s][w].tag = a /\ entries'[s][w].last_access = s_count + 1
          /\ \A y \in Sets, u \in Ways : y # s \/ u # w => entries'[y][u] = entries[y][u]
    BY <1>1, PlainMiss
  <2>2. CASE z = s /\ v = w
    BY <1>3, <2>1, <2>2
  <2>3. CASE z # s \/ v # w
    <3>1. entries'[z][v] = entries[z][v]
      BY <2>1, <2>3
    <3>2. entries[z][v].tag \in Tags /\ entries[z][v].tag # a
      BY <1>6, <3>1
    <3>3. entries[z][v].last_access = used[entries[z][v].tag]
      BY <1>1, <3>1 DEF LastUsed
    <3> QED
      BY <1>3, <3>1, <3>2, <3>3
  <2> QED
    BY <2>2, <2>3
<1>9. FifoOrder'
  <2> SUFFICES ASSUME repl_policy = "FIFO", ~ wasReset, NEW z \in Sets
               PROVE  FilledInTurn(z, fifo_ptr[z])'
    BY <1>5 DEF FifoOrder
  <2>1. FilledInTurn(z, fifo_ptr[z]) /\ FilledInTurn(s, fifo_ptr[s])
    BY <1>1, <1>2 DEF FifoOrder
  <2>2. PICK w \in Chosen(entries[s], s) :
          /\ w \in Ways /\ entries'[s][w].valid /\ entries'[s][w].tag = a
          /\ \A y \in Sets, u \in Ways : y # s \/ u # w => entries'[y][u] = entries[y][u]
    BY <1>1, PlainMiss
  <2>3. CASE z # s
    <3>1. \A u \in Ways : entries'[z][u] = entries[z][u]
      BY <2>2, <2>3
    <3>2. fifo_ptr'[z] = fifo_ptr[z]
      BY <1>1, <1>5, <2>3 DEF TypeOK
    <3>3. \A u \in Ways : entries[z][u].valid =>
            installed'[entries[z][u].tag] = installed[entries[z][u].tag]
      BY <1>4, <1>6
    <3> QED
      BY <2>1, <3>1, <3>2, <3>3 DEF FilledInTurn
  <2>4. CASE z = s
    <3> HIDE DEF s
    <3>1. PICK p, q : p = fifo_ptr[s] /\ q = NextFifo(s)
      OBVIOUS
    <3>2. w = p /\ p \in Ways /\ q \in Ways /\ Ways \subseteq Nat
      <4>1. w = p
        BY <1>1, <1>2, <2>1, <2>2, <3>1, FifoVictim
      <4>2. q \in Ways
        BY <1>1, <1>2, <3>1, PolicyTypes
      <4>3. Ways \subseteq Nat
        BY LastLevelCacheAssumption DEF Ways
      <4> QED
        BY <2>2, <4>1, <4>2, <4>3
    <3>3. fifo_ptr'[s] = q
      BY <1>1, <1>2, <1>5, <3>1 DEF TypeOK
    <3>4. /\ \A v, x \in Ways : Before(q, v, x) => v # p /\ (x # p => Before(p, v, x))
          /\ \A x \in Ways : x < q => x <= p
          /\ \A v \in Ways : v >= q => (v > p \/ q = 0)
          /\ q = 0 => \A v \in Ways : v <= p
      BY <1>1, <1>2, <3>1, PointerMoves
    <3>5. \A u \in Ways : u # p => entries'[s][u] = entries[s][u]
      BY <1>2, <2>2, <3>2
    <3>6. /\ \A u \in Ways : u < p => entries[s][u].valid
          /\ \A u, v \in Ways : u >= p /\ v >= p => (entries[s][u].valid <=> entries[s][v].valid)
          /\ \A u, v \in Ways :
               entries[s][u].valid /\ entries[s][v].valid /\ Before(p, u, v) =>
                 installed[entries[s][u].tag] <= installed[entries[s][v].tag]
      BY <2>1, <3>1 DEF FilledInTurn
    <3>7. ASSUME NEW u \in Ways, u < q PROVE entries'[s][u].valid
      BY <2>2, <3>2, <3>4, <3>5, <3>6, <3>7
    <3>8. ASSUME NEW u \in Ways, NEW v \in Ways, u >= q, v >= q
          PROVE  entries'[s][u].valid <=> entries'[s][v].valid
      <4>1. CASE q = 0
        <5>1. \A x \in Ways : entries'[s][x].valid
          <6> TAKE x \in Ways
          <6>1. x <= p
            BY <3>4, <4>1
          <6> QED
            BY <2>2, <3>2, <3>5, <3>6, <6>1
        <5> QED
          BY <5>1
      <4>2. CASE q # 0
        <5>1. u > p /\ v > p
          BY <3>4, <3>8, <4>2
        <5>2. u >= p /\ v >= p /\ u # p /\ v # p
          BY <3>2, <5>1
        <5> QED
          BY <3>5, <3>6, <5>2
      <4> QED
        BY <4>1, <4>2
    <3>9. ASSUME NEW u \in Ways, NEW v \in Ways,
                 entries'[s][u].valid, entries'[s][v].valid, Before(q, u, v)
          PROVE  installed'[entries'[s][u].tag] <= installed'[entries'[s][v].tag]
      <4>1. u # p
        BY <3>4, <3>9
      <4>2. entries'[s][u] = entries[s][u]
        BY <3>5, <4>1
      <4>3. entries[s][u].tag \in Tags /\ entries[s][u].tag # a
        BY <1>2, <1>6, <3>9, <4>2
      <4>4. /\ installed'[entries'[s][u].tag] = installed[entries[s][u].tag]
            /\ installed[entries[s][u].tag] <= s_count
            /\ installed[entries[s][u].tag] \in Nat
        BY <1>1, <1>4, <4>2, <4>3 DEF SoFar
      <4>5. CASE v = p
        <5>1. installed'[entries'[s][v].tag] = s_count + 1
          BY <1>4, <2>2, <3>2, <4>5
        <5> QED
          BY <1>3, <4>4, <5>1
      <4>6. CASE v # p
        <5>1. entries'[s][v] = entries[s][v]
          BY <3>5, <4>6
        <5>2. entries[s][v].tag \in Tags /\ entries[s][v].tag # a
          BY <1>2, <1>6, <3>9, <5>1
        <5>3. installed'[entries'[s][v].tag] = installed[entries[s][v].tag]
          BY <1>4, <5>1, <5>2
        <5>4. Before(p, u, v)
          BY <3>4, <3>9, <4>6
        <5>5. installed[entries[s][u].tag] <= installed[entries[s][v].tag]
          BY <3>6, <3>9, <4>2, <5>1, <5>4
        <5> QED
          BY <4>4, <5>3, <5>5
      <4> QED
        BY <4>5, <4>6
    <3> QED
      BY <2>4, <3>3, <3>7, <3>8, <3>9 DEF FilledInTurn
  <2> QED
    BY <2>3, <2>4
<1> QED
  BY <1>7, <1>8, <1>9 DEF OrderInv

\* Every step keeps the order; a reset leaves no line to be ordered.
LEMMA OrderSteps == CacheInv /\ OrderInv /\ [Next]_vars => OrderInv'
<1> SUFFICES ASSUME CacheInv, OrderInv, [Next]_vars PROVE OrderInv'
  OBVIOUS
<1>1. CASE reset
  <2>1. \A z \in Sets, v \in Ways : ~ entries'[z][v].valid
    <3> TAKE z \in Sets, v \in Ways
    <3>1. entries'[z][v] = [entries[z][v] EXCEPT !.valid = FALSE]
      BY <1>1 DEF reset
    <3>2. entries[z][v] \in Entry
      BY DEF CacheInv, TypeOK
    <3> QED
      BY <3>1, <3>2 DEF Entry
  <2>2. wasReset' /\ installed' = installed /\ s_count' = s_count
    BY <1>1 DEF reset
  <2> QED
    BY <2>1, <2>2 DEF OrderInv, LastUsed, FifoOrder, SoFar
<1>2. ASSUME NEW a \in Tags, NEW write \in BOOLEAN, Access(a, write)
      PROVE  OrderInv'
  <2>1. CASE access(a, write /\ ~ HasReset)
    BY <1>2, <2>1, HitOrder
  <2>2. CASE install(a, write)
    BY <1>2, <2>2, MissOrder
  <2> QED
    BY <1>2, <2>1, <2>2 DEF Access
<1>3. CASE UNCHANGED vars
  BY <1>3 DEF vars, OrderInv, LastUsed, FifoOrder, FilledInTurn, SoFar
<1> QED
  BY <1>1, <1>2, <1>3 DEF Next

\* A miss evicts the line that was used, or came, first.
LEMMA MissEvicts ==
  ASSUME CacheInv, OrderInv, NEW a \in Tags, NEW write \in BOOLEAN, install(a, write),
         NEW c \in Tags, victim'.valid, victim'.tag = c,
         NEW b \in Cached, index(c) = index(b)
  PROVE  /\ repl_policy = "LRU" => used[c] <= used[b]
         /\ repl_policy = "FIFO" /\ ~ wasReset => installed[c] <= installed[b]
<1>1. TypeOK /\ Placed /\ LastUsed /\ FifoOrder
  BY DEF CacheInv, OrderInv
<1> SUFFICES ASSUME repl_policy \in {"LRU", "FIFO"}
             PROVE  /\ repl_policy = "LRU" => used[c] <= used[b]
                    /\ repl_policy = "FIFO" /\ ~ wasReset => installed[c] <= installed[b]
  OBVIOUS
<1>2. PICK s \in Sets : s = index(a)
  BY IndexInSets
<1>3. PICK w \in Chosen(entries[s], s) : w \in Ways /\ victim' = entries[s][w]
  BY <1>1, <1>2, PlainMiss
<1>4. entries[s][w].valid /\ entries[s][w].tag = c /\ index(c) = s
  BY <1>1, <1>3 DEF Placed
<1>5. PICK v \in Ways : entries[s][v].valid /\ entries[s][v].tag = b
  <2>1. PICK v : b \in Tags /\ v \in Lookup(b)
    BY DEF Cached
  <2>2. v \in Ways /\ entries[index(b)][v].valid /\ entries[index(b)][v].tag = b
    BY <2>1, Found
  <2>3. index(b) = s
    BY <1>4
  <2> QED
    BY <2>2, <2>3
<1>6. InvalidWays(entries[s]) = {}
  <2>1. CASE InvalidWays(entries[s]) # {}
    <3>1. w \in First(InvalidWays(entries[s]))
      BY <2>1, EmptyFirst
    <3> QED
      BY <1>4, <3>1 DEF First, InvalidWays
  <2> QED
    BY <2>1
<1>7. ASSUME repl_policy = "LRU" PROVE used[c] <= used[b]
  <2>1. w \in First({x \in Ways : \A y \in Ways :
                       entries[s][x].last_access <= entries[s][y].last_access})
    BY <1>6, <1>7 DEF Chosen
  <2>2. entries[s][w].last_access <= entries[s][v].last_access
    BY <2>1 DEF First
  <2> QED
    BY <1>1, <1>3, <1>4, <1>5, <1>7, <2>2 DEF LastUsed
<1>8. ASSUME repl_policy = "FIFO", ~ wasReset PROVE installed[c] <= installed[b]
  <2>1. FilledInTurn(s, fifo_ptr[s])
    BY <1>1, <1>8 DEF FifoOrder
  <2>2. w = fifo_ptr[s] /\ Ways \subseteq Nat
    BY <1>1, <1>8, <2>1, FifoVictim, LastLevelCacheAssumption DEF Ways
  <2>3. CASE v = w
    <3>1. c = b /\ installed[c] \in Nat
      BY <1>1, <1>4, <1>5, <2>3 DEF TypeOK
    <3> QED
      BY <3>1
  <2>4. CASE v # w
    <3>1. Before(w, w, v)
      BY <1>3, <1>5, <2>2, <2>4 DEF Before
    <3> QED
      BY <1>3, <1>4, <1>5, <2>1, <2>2, <3>1 DEF FilledInTurn
  <2> QED
    BY <2>3, <2>4
<1> QED
  BY <1>7, <1>8

-----------------------------------------------------------------------------

\* Every field stays within its width, whatever the policy: the counters of SRRIP and
\* DRRIP while victims are searched for, psel, fifo_ptr.
THEOREM CacheTypes == Spec => []TypeOK
<1>1. CacheInv => TypeOK
  BY DEF CacheInv
<1> QED
  BY <1>1, CacheInvariant, PTL

\* No line is in the cache twice, so mcache_install's exit is never taken.
THEOREM CacheHoldsLinesOnce == Spec => []NoLineTwice
<1>1. CacheInv => NoLineTwice
  BY DEF CacheInv
<1> QED
  BY <1>1, CacheInvariant, PTL

\* Every write is in the cache or was written back, and no clean line is written back.
THEOREM CacheLosesNoWrite == Spec => []WritesNotLost
<1>1. CacheInv => WritesNotLost
  BY DEF CacheInv
<1> QED
  BY <1>1, CacheInvariant, PTL

\* LRU evicts the line of the set that was used last the longest ago, FIFO, until a
\* reset, the one that came first, for any number of ways and any accesses.
THEOREM CacheEvictsTheOldest == Spec => EvictsTheOldest
<1> DEFINE Oldest ==
      \A a \in Evicted, b \in Cached : index(a) = index(b) =>
        /\ repl_policy = "LRU" => used[a] <= used[b]
        /\ repl_policy = "FIFO" /\ ~ wasReset => installed[a] <= installed[b]
<1>1. ASSUME CacheInv, OrderInv, Next PROVE Oldest
  <2> SUFFICES ASSUME NEW c \in Evicted, NEW b \in Cached, index(c) = index(b)
               PROVE  /\ repl_policy = "LRU" => used[c] <= used[b]
                      /\ repl_policy = "FIFO" /\ ~ wasReset => installed[c] <= installed[b]
    OBVIOUS
  <2>1. c \in Tags /\ victim'.valid /\ victim'.tag = c
    BY DEF Evicted, Cached
  <2>2. CASE victim' = EmptyEntry
    BY <2>1, <2>2 DEF EmptyEntry
  <2>3. ASSUME NEW a \in Tags, NEW write \in BOOLEAN, install(a, write)
        PROVE  /\ repl_policy = "LRU" => used[c] <= used[b]
               /\ repl_policy = "FIFO" /\ ~ wasReset => installed[c] <= installed[b]
    BY <1>1, <2>1, <2>3, MissEvicts
  <2> QED
    BY <1>1, <2>2, <2>3 DEF Next, reset, Access, access
<1>2. CacheInv /\ OrderInv /\ [Next]_vars => [Oldest]_vars
  BY <1>1
<1>3. Spec => []OrderInv
  BY CacheInvariant, InitOrder, OrderSteps, PTL DEF Spec
<1> QED
  BY <1>2, <1>3, CacheInvariant, PTL DEF Spec, EvictsTheOldest
=============================================================================
