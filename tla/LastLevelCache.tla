--------------------------- MODULE LastLevelCache ---------------------------
(***************************************************************************)
(* cache.c as its two users call it: isHit and, on a miss, install, whose  *)
(* victim is written back if it is valid and dirty.  The last-level cache  *)
(* of main.c installs and writes lines; the counter cache of hydra()       *)
(* installs every line dirty and is emptied by mcache_reset().             *)
(***************************************************************************)
EXTENDS Integers, FiniteSets

CONSTANTS
  Tags,                \* line addresses
  sets, assocs,
  Policies,            \* repl_policy given to init_cache
  SRRIP_MAX, SRRIP_INIT, PSEL_MAX, LEADER_SETS,
  Users,               \* which of the two caches are checked
  NoTag,               \* tag of an entry never filled
  MaxAccesses          \* bound of the checked runs

Sets == 0..(sets - 1)
Ways == 0..(assocs - 1)

ASSUME LastLevelCacheAssumption ==
  /\ Tags \subseteq Nat
  /\ sets \in Nat \ {0} /\ assocs \in Nat \ {0}
  /\ Policies \subseteq {"LRU", "RND", "SRRIP", "DRRIP", "FIFO", "DIP"}
  /\ SRRIP_MAX \in Nat /\ SRRIP_INIT \in 0..SRRIP_MAX /\ SRRIP_MAX >= 1
  /\ PSEL_MAX \in Nat
  /\ LEADER_SETS \in Nat /\ sets >= 2 * (LEADER_SETS + 1)
  /\ Users \subseteq {"L3", "CCache"}
  /\ NoTag \notin Tags /\ MaxAccesses \in Nat

VARIABLES
  user,                \* whose cache it is; never changed
  entries,             \* per set and way
  fifo_ptr, psel, leader, repl_policy,
  s_count,             \* accesses
  victim,              \* what the last access evicted
  unwritten,           \* history: lines with writes that memory has not got
  used, installed,     \* history, per line: when
  wasReset             \* history

vars == <<user, entries, fifo_ptr, psel, leader, repl_policy, s_count, victim,
          unwritten, used, installed, wasReset>>

HasReset == user = "CCache"

EmptyEntry ==
  [valid |-> FALSE, dirty |-> FALSE, tag |-> NoTag, ripctr |-> 0, last_access |-> 0]

\* The leader sets of the two policies are drawn at random, LEADER_SETS and one more of
\* each; with fewer sets than that the draw would not end.
Draws ==
  {l \in [Sets -> {"p0", "p1", "none"}] :
     \A p \in {"p0", "p1"} : Cardinality({s \in Sets : l[s] = p}) = LEADER_SETS + 1}

init_cache ==
  /\ user \in Users
  /\ entries = [s \in Sets |-> [w \in Ways |-> EmptyEntry]]
  /\ fifo_ptr = [s \in Sets |-> 0]
  /\ psel = (PSEL_MAX + 1) \div 2
  /\ leader \in Draws
  /\ repl_policy \in Policies
  /\ s_count = 0
  /\ victim = EmptyEntry
  /\ unwritten = {}
  /\ used = [a \in Tags |-> 0] /\ installed = [a \in Tags |-> 0]
  /\ wasReset = FALSE

\* mcache_get_index.
index(a) == a % sets

Holds(e, a) == e.valid /\ e.tag = a

\* Fault: the last way is not searched.
LookupButLast(a) == {w \in 0..(assocs - 2) : Holds(entries[index(a)][w], a)}

Lookup(a) == {w \in Ways : Holds(entries[index(a)][w], a)}
First(W) == {w \in W : \A v \in W : w <= v}      \* one way, or none if W is empty

-----------------------------------------------------------------------------
(* mcache_access. *)

\* Fault: a write that hits leaves the line clean.
HitClean(e, write) == [e EXCEPT !.last_access = s_count + 1, !.ripctr = SRRIP_MAX]

Hit(e, write) ==
  [e EXCEPT !.last_access = s_count + 1, !.ripctr = SRRIP_MAX, !.dirty = @ \/ write]

access(a, write) ==
  /\ \E w \in First(Lookup(a)) :
       entries' = [entries EXCEPT ![index(a)][w] = Hit(@, write)]
  /\ victim' = EmptyEntry
  /\ UNCHANGED <<fifo_ptr, psel, installed>>

-----------------------------------------------------------------------------
(* mcache_install. *)

\* Whether a duel between the policies is won by the sparing one (DIP without
\* an update of the LRU time, DRRIP with a counter of 0): leaders decide for
\* themselves and move psel, the others follow it; chance may spoil it (BIP).
Sparing(s) ==
  CASE leader[s] = "p0" -> {TRUE, FALSE}
    [] leader[s] = "p1" -> {FALSE}
    [] leader[s] = "none" -> IF psel >= (PSEL_MAX + 1) \div 2 THEN {FALSE} ELSE {TRUE, FALSE}

\* Fault: psel is not held at its ends.
DuelUnbounded(s) ==
  CASE leader[s] = "p0" -> psel + 1 [] leader[s] = "p1" -> psel - 1 [] OTHER -> psel

Duel(s) ==
  CASE leader[s] = "p0" /\ psel < PSEL_MAX -> psel + 1
    [] leader[s] = "p1" /\ psel > 0 -> psel - 1
    [] OTHER -> psel

InvalidWays(set) == {w \in Ways : ~ set[w].valid}

\* The ways of the lowest counter, which the rounds of aging bring to 0 first.
LowestRip(set) == {w \in Ways : \A v \in Ways : set[w].ripctr <= set[v].ripctr}

\* mcache_find_victim, and the set it leaves.
Chosen(set, s) ==
  IF InvalidWays(set) # {} THEN First(InvalidWays(set))
  ELSE CASE repl_policy \in {"LRU", "DIP"} ->
              First({w \in Ways : \A v \in Ways : set[w].last_access <= set[v].last_access})
         [] repl_policy = "RND" -> Ways
         [] repl_policy \in {"SRRIP", "DRRIP"} -> First(LowestRip(set))
         [] repl_policy = "FIFO" -> {fifo_ptr[s]}

Searched(set, w) ==
  IF InvalidWays(set) = {} /\ repl_policy \in {"SRRIP", "DRRIP"}
  THEN [v \in Ways |-> [set[v] EXCEPT !.ripctr = @ - set[w].ripctr]]
  ELSE set

\* Fault: the pointer stays where it is.
NextFifoStays(s) == fifo_ptr[s]

NextFifo(s) == (fifo_ptr[s] + 1) % assocs

NewEntry(old, a, write, sparing) ==
  [valid |-> TRUE, dirty |-> write, tag |-> a,
   ripctr |-> IF repl_policy = "DRRIP" /\ sparing THEN 0 ELSE SRRIP_INIT,
   last_access |-> IF repl_policy = "DIP" /\ sparing THEN old.last_access ELSE s_count + 1]

install(a, write) ==
  LET s == index(a)
      duels == repl_policy \in {"DRRIP", "DIP"}
  IN  /\ Lookup(a) = {}
      /\ \E w \in Chosen(entries[s], s), sparing \in IF duels THEN Sparing(s) ELSE {FALSE} :
           /\ victim' = Searched(entries[s], w)[w]
           /\ entries' = [entries EXCEPT ![s] =
                [Searched(@, w) EXCEPT ![w] = NewEntry(entries[s][w], a, write, sparing)]]
      /\ psel' = IF duels THEN Duel(s) ELSE psel
      /\ fifo_ptr' = [fifo_ptr EXCEPT ![s] = NextFifo(s)]
      /\ installed' = [installed EXCEPT ![a] = s_count + 1]

-----------------------------------------------------------------------------

WrittenBack == IF victim'.valid /\ victim'.dirty THEN {victim'.tag} ELSE {}

Access(a, write) ==
  /\ s_count < MaxAccesses
  /\ s_count' = s_count + 1
  /\ access(a, write /\ ~ HasReset) \/ install(a, write)
  /\ unwritten' = (unwritten \cup IF write THEN {a} ELSE {}) \ WrittenBack
  /\ used' = [used EXCEPT ![a] = s_count']
  /\ UNCHANGED <<user, leader, repl_policy, wasReset>>

\* mcache_reset in resetCC: the counters are gone with their lines.
reset ==
  /\ HasReset
  /\ entries' = [s \in Sets |-> [w \in Ways |-> [entries[s][w] EXCEPT !.valid = FALSE]]]
  /\ unwritten' = {}
  /\ victim' = EmptyEntry
  /\ wasReset' = TRUE
  /\ UNCHANGED <<user, fifo_ptr, psel, leader, repl_policy, s_count, used, installed>>

Next == reset \/ \E a \in Tags, write \in BOOLEAN : (HasReset => write) /\ Access(a, write)

Spec == init_cache /\ [][Next]_vars

-----------------------------------------------------------------------------
(* Properties. *)

Entry == [valid : BOOLEAN, dirty : BOOLEAN, tag : Tags \cup {NoTag},
          ripctr : 0..SRRIP_MAX, last_access : 0..MaxAccesses]

TypeOK ==
  /\ user \in Users
  /\ entries \in [Sets -> [Ways -> Entry]]
  /\ fifo_ptr \in [Sets -> Ways]
  /\ psel \in 0..PSEL_MAX
  /\ leader \in Draws /\ repl_policy \in Policies
  /\ s_count \in 0..MaxAccesses
  /\ victim \in Entry
  /\ unwritten \subseteq Tags
  /\ used \in [Tags -> 0..MaxAccesses] /\ installed \in [Tags -> 0..MaxAccesses]
  /\ wasReset \in BOOLEAN

Cached == {a \in Tags : Lookup(a) # {}}

\* No line is in the cache twice: the exit of mcache_install is never taken and a
\* write never leaves a stale second copy.
NoLineTwice ==
  \A s \in Sets : \A v, w \in Ways :
    entries[s][v].valid /\ entries[s][w].valid /\ entries[s][v].tag = entries[s][w].tag => v = w

\* What was written and not written back is in the cache, valid and dirty, and nothing
\* else is dirty: no write is lost, whatever is evicted and whatever dirty bits a reset
\* has left behind in invalid entries, and no clean line costs a write.
WritesNotLost ==
  \A a \in Tags :
    a \in unwritten <=> \E w \in Lookup(a) : entries[index(a)][w].dirty

\* LRU evicts the line of the set that was used last the longest ago, FIFO the
\* one that came first.  The latter only without a reset: the ways are then filled again
\* from the first on, wherever fifo_ptr is.
Evicted == {a \in Cached : victim'.valid /\ victim'.tag = a}
EvictsTheOldest ==
  [][\A a \in Evicted, b \in Cached : index(a) = index(b) =>
       /\ repl_policy = "LRU" => used[a] <= used[b]
       /\ repl_policy = "FIFO" /\ ~ wasReset => installed[a] <= installed[b]]_vars
=============================================================================
