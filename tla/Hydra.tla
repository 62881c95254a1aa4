------------------------------- MODULE Hydra --------------------------------
(***************************************************************************)
(* The two-level tracker hydra() of scheduler.c with resetCC(): a filter   *)
(* that counts groups of rows together up to a share of the threshold, and *)
(* a counter per row behind it, kept in memory and cached in CCache.  The  *)
(* counters are those of the places in memory where the rows are now, so   *)
(* the row indirection table is part of it.                                *)
(*                                                                         *)
(* The tables are shared by all channels.  In a DRAM cycle the channels    *)
(* are scheduled one after the other, and at the end of a period each of   *)
(* them clears the tables of all: a step is one channel's turn or its      *)
(* clearing.  hashaddr only renames the counters; Group is what is left of *)
(* it, the group of each place.                                            *)
(***************************************************************************)
EXTENDS RowIndirection

CONSTANTS
  TRH, SWITCH_RATE,
  Groups, Group,              \* CRA_FILTER_ENTRIES groups, group of a place
  CRA_FILTER_THRESHOLD_PERC,
  CRA_ENABLE_RAI,             \* counters are read and written in one request
  CCEntries,                  \* lines of the counter cache
  NUM_CHANNELS, Channel,      \* channel of a row
  RQENABLE                    \* mitigated rows move to spares

Channels == 0..(NUM_CHANNELS - 1)

\* rth_actual.
Rth == TRH \div SWITCH_RATE

\* The counter of a group that has just reached its share starts from here.
CounterStart == (CRA_FILTER_THRESHOLD_PERC * Rth) \div 100

ASSUME HydraAssumption ==
  /\ TRH \in Nat /\ SWITCH_RATE \in Nat \ {0} /\ TRH >= SWITCH_RATE
  /\ Group \in [Addresses -> Groups]
  /\ CRA_FILTER_THRESHOLD_PERC \in 0..99      \* a share
  /\ CRA_ENABLE_RAI \in BOOLEAN /\ RQENABLE \in BOOLEAN
  /\ CCEntries \in Nat \ {0}
  /\ NUM_CHANNELS \in Nat \ {0} /\ Channel \in [Rows -> Channels]

VARIABLES
  cra_filter,    \* per group
  actcnt,        \* per place
  cached,        \* places whose counter is in CCache
  inserted,      \* requests the last call put in the queues
  fired,         \* what the last call returned
  turn,          \* the channel to be scheduled next
  ends,          \* this DRAM cycle ends a period
  cleared,       \* the channel has cleared the tables in its turn
  unmitigated    \* history, per place: activations since its last trigger or
                 \* the end of the period

counters == <<cra_filter, actcnt, cached>>
cycle == <<turn, ends, cleared>>
hydraVars == <<vars, counters, inserted, fired, cycle, unmitigated>>

HydraInit ==
  /\ Init
  /\ cra_filter = [g \in Groups |-> 0]
  /\ actcnt = [l \in Addresses |-> 0]
  /\ cached = {}
  /\ inserted = {}
  /\ fired = FALSE
  /\ turn = 0 /\ ends = FALSE /\ cleared = FALSE
  /\ unmitigated = [l \in Addresses |-> 0]

-----------------------------------------------------------------------------
(* hydra(). *)

\* Where the row is now.
Place(row) == IF mapping[row] = Unmapped THEN row ELSE mapping[row]

\* Rows above the spares hold the counters: their own are not cached.  The test is of
\* byte addresses, so the first byte of these rows may pass for one of the others.
fake(row) == row >= Base + SPAREROWS
notFake(row) == row <= Base + SPAREROWS

Filtered(g) == cra_filter[g] * 100 < CRA_FILTER_THRESHOLD_PERC * Rth

\* The group is still below its share.
FilterHit(l) ==
  /\ Filtered(Group[l])
  /\ cra_filter' = [cra_filter EXCEPT ![Group[l]] = @ + 1]
  /\ fired' = FALSE
  /\ inserted' = {}
  /\ UNCHANGED <<actcnt, cached>>

\* isHit and install on the counter cache, and the requests of a miss.  CCBLOCK is 1: a
\* line holds one counter.
CounterCache(row, l) ==
  \/ (fake(row) \/ l \in cached) /\ inserted' = {} /\ UNCHANGED cached
  \/ /\ notFake(row) /\ l \notin cached
     /\ \/ /\ Cardinality(cached) < CCEntries
           /\ cached' = cached \cup {l}
           /\ inserted' = IF CRA_ENABLE_RAI THEN {"READ_AND_WRITE"} ELSE {"READ"}
        \/ \E victim \in cached :
             /\ Cardinality(cached) = CCEntries
             /\ cached' = (cached \ {victim}) \cup {l}
             /\ inserted' = IF CRA_ENABLE_RAI THEN {"READ_AND_WRITE"}
                                              ELSE {"READ", "WRITE"}

\* Fault: the counter forgets what the filter has counted.
CountedFromZero(l) == actcnt[l] + 1

\* The counter after this activation.
Counted(l) == (IF actcnt[l] = 0 THEN CounterStart ELSE actcnt[l]) + 1

\* Fault: the row is given away one activation late.
TriggeredLate(l) == Counted(l) > Rth

Triggered(l) == Counted(l) >= Rth

\* The group has used up its share: the place's own counter decides.
Count(row, l) ==
  /\ ~ Filtered(Group[l])
  /\ CounterCache(row, l)
  /\ fired' = Triggered(l)
  /\ actcnt' = [actcnt EXCEPT ![l] = IF fired' THEN 1 ELSE Counted(l)]
  /\ UNCHANGED cra_filter

\* What the scheduler does with the answer: move the row.
Remap(row) == IF fired' /\ RQENABLE THEN rqidealRIT(row) ELSE UNCHANGED vars

hydra(row) ==
  /\ FilterHit(Place(row)) \/ Count(row, Place(row))
  /\ Remap(row)
  /\ unmitigated' = [unmitigated EXCEPT ![Place(row)] = IF fired' THEN 0 ELSE @ + 1]

-----------------------------------------------------------------------------
(* The channels' turns. *)

NextTurn ==
  /\ turn' = (turn + 1) % NUM_CHANNELS
  /\ ends' \in IF turn' = 0 THEN BOOLEAN ELSE {ends}
  /\ cleared' = FALSE

\* The scheduler of the channel activates a row and counts it.
Activate(row) ==
  /\ ends => cleared
  /\ Channel[row] = turn
  /\ hydra(row)
  /\ NextTurn

\* ... or does not.
Pass ==
  /\ ends => cleared
  /\ NextTurn
  /\ UNCHANGED <<vars, counters, inserted, fired, unmitigated>>

\* resetCC in the channel's turn.  The period ends for the rows with the first.
resetCC ==
  /\ ends /\ ~ cleared
  /\ cleared' = TRUE
  /\ cra_filter' = [g \in Groups |-> 0]
  /\ actcnt' = [l \in Addresses |-> 0]
  /\ cached' = {}
  /\ unmitigated' = IF turn = 0 THEN [l \in Addresses |-> 0] ELSE unmitigated
  /\ UNCHANGED <<vars, inserted, fired, turn, ends>>

HydraNext ==
  \/ \E row \in Rows : Activate(row)
  \/ Pass
  \/ resetCC

HydraSpec == HydraInit /\ [][HydraNext]_hydraVars

-----------------------------------------------------------------------------
(* Properties. *)

\* Types and capacities; no counter is left at the threshold: it starts again.
HydraTypeOK ==
  /\ TypeOK
  /\ cra_filter \in [Groups -> Nat]
  /\ actcnt \in [Addresses -> Nat]
  /\ \A l \in Addresses : actcnt[l] < Rth \/ actcnt[l] <= 1
  /\ cached \subseteq Addresses /\ Cardinality(cached) <= CCEntries
  /\ inserted \subseteq {"READ", "WRITE", "READ_AND_WRITE"}
  /\ fired \in BOOLEAN
  /\ turn \in Channels /\ ends \in BOOLEAN /\ cleared \in BOOLEAN
  /\ unmitigated \in [Addresses -> Nat]

\* How much later than Rth a row may be noticed.  The filter counts up to the
\* share rounded up and the counter starts from the share rounded down; and the
\* activation that an earlier channel counts in the last cycle of a period is
\* cleared by a later one.
Fraction == IF (CRA_FILTER_THRESHOLD_PERC * Rth) % 100 = 0 THEN 0 ELSE 1
Lost == IF NUM_CHANNELS = 1 THEN 0 ELSE 1
Slack == Fraction + Lost

\* The tracker never under-counts a place by more than that: neither when its
\* group hands over to its counter, nor when rows move in and out of it, nor
\* when the counter of another row of the group moves on.
NeverFarBehind ==
  \A l \in Addresses :
    unmitigated[l] <= (IF actcnt[l] = 0 THEN cra_filter[Group[l]]
                                        ELSE actcnt[l] + Fraction) + Lost

\* No place collects Rth + Slack activations unmitigated in a period: hydra keeps
\* the promise of RowTracker with that threshold.
Promise == INSTANCE RowTracker WITH Rows <- Addresses, Rth <- Rth + Slack
ImplementsTracker == Promise!Spec

\* No two rows are counted at one place, whatever moves the tracker has ordered.
OneRowPerPlace ==
  \A r, q \in Rows : Place(r) = Place(q) => r = q
=============================================================================
