----------------------------- MODULE MisraGries -----------------------------
(***************************************************************************)
(* The Misra-Gries activation tracker of one bank: misraGries() of         *)
(* scheduler.c with its tables row_address_track, row_address_count and    *)
(* spillcounter, and the two places that clear them: schedule_fcfs() at    *)
(* the end of its refresh period, and update_memory() after every 1024th   *)
(* forced refresh of the rank.  The two periods are close but not equal    *)
(* (204.8M against 1024*8*T_REFI = 204.47M cycles), so they drift apart.   *)
(***************************************************************************)
EXTENDS Naturals, FiniteSets

CONSTANTS
  Rows,         \* row addresses of the bank
  TRH,          \* row-hammer threshold
  SwitchRate,   \* SWITCH_RATE: mitigations per TRH activations
  MaxActs,      \* most ACTs a bank can see between two clearings (1360000)
  MaxClears     \* most clearings by update_memory in one scheduler period

\* rth_actual of misraGries and init_scheduler_vars.
Rth == TRH \div SwitchRate

\* A table sized by TRH, which is too small (a fault the properties must detect).
MgEntriesByTRH == MaxActs \div TRH

\* mg_entries = 1360000 / rth_actual.
MgEntries == MaxActs \div Rth

Entries == 1..MgEntries

\* calloc leaves row 0 in every entry, so row 0 must be a row.
ASSUME MisraGriesAssumption ==
  /\ Rows \subseteq Nat /\ 0 \in Rows
  /\ TRH \in Nat /\ SwitchRate \in Nat \ {0} /\ TRH >= SwitchRate
  /\ MaxActs \in Nat /\ MaxClears \in Nat

VARIABLES
  track,         \* row_address_track of the bank
  count,         \* row_address_count of the bank
  spill,         \* spillcounter of the bank
  fired,         \* what the last call of misraGries returned
  \* history, read by no guard but the bounds:
  acts,          \* calls since the tables were last cleared
  seen,          \* per row: calls since the tables were last cleared
  unmitigated,   \* per row: calls since its last trigger or clearing
  inPeriod,      \* per row: calls since its last trigger or scheduler period
  clears         \* clearings by update_memory in this scheduler period

table == <<track, count, spill>>
vars == <<track, count, spill, fired, acts, seen, unmitigated, inPeriod, clears>>

Init ==
  /\ track = [e \in Entries |-> 0]
  /\ count = [e \in Entries |-> 0]
  /\ spill = 0
  /\ fired = FALSE
  /\ acts = 0
  /\ seen = [r \in Rows |-> 0]
  /\ unmitigated = [r \in Rows |-> 0]
  /\ inPeriod = [r \in Rows |-> 0]
  /\ clears = 0

-----------------------------------------------------------------------------
(* The three ways through misraGries. *)

Tracked(r) == \E e \in Entries : track[e] = r

\* Entry e is the one a linear search for row r stops at.
FirstFor(e, r) ==
  /\ track[e] = r
  /\ \A d \in 1..(e - 1) : track[d] # r

\* Entry e is the one a linear search for a count equal to spill stops at.
FirstSpilled(e) ==
  /\ count[e] = spill
  /\ \A d \in 1..(e - 1) : count[d] # spill

\* Fault: one activation late.
CrossesLate(n) == n % (Rth + 1) = 0

Crosses(n) == n % Rth = 0

\* The row is in the table: its counter goes up.
Hit(r) ==
  /\ \E e \in Entries :
       /\ FirstFor(e, r)
       /\ count' = [count EXCEPT ![e] = @ + 1]
       /\ fired' = Crosses(count[e] + 1)
  /\ UNCHANGED <<track, spill>>

\* Fault: the row that enters starts from one instead of the entry's count.
ReplaceFromOne(r) ==
  /\ ~ Tracked(r)
  /\ \E e \in Entries :
       /\ FirstSpilled(e)
       /\ track' = [track EXCEPT ![e] = r]
       /\ count' = [count EXCEPT ![e] = 1]
       /\ fired' = Crosses(1)
  /\ UNCHANGED spill

\* The row takes over an entry that is no higher than the spill counter.
Replace(r) ==
  /\ ~ Tracked(r)
  /\ \E e \in Entries :
       /\ FirstSpilled(e)
       /\ track' = [track EXCEPT ![e] = r]
       /\ count' = [count EXCEPT ![e] = @ + 1]
       /\ fired' = Crosses(count[e] + 1)
  /\ UNCHANGED spill

\* Fault: the spill counter runs down.
SpillDown(r) ==
  /\ ~ Tracked(r)
  /\ \A e \in Entries : count[e] # spill
  /\ spill' = 0 - 1
  /\ fired' = FALSE
  /\ UNCHANGED <<track, count>>

\* Every entry is above the spill counter: the activation is spilled.
Spill(r) ==
  /\ ~ Tracked(r)
  /\ \A e \in Entries : count[e] # spill
  /\ spill' = spill + 1
  /\ fired' = FALSE
  /\ UNCHANGED <<track, count>>

\* History of a call for row r.
Record(r) ==
  /\ acts' = acts + 1
  /\ seen' = [seen EXCEPT ![r] = @ + 1]
  /\ unmitigated' = [unmitigated EXCEPT ![r] = IF fired' THEN 0 ELSE @ + 1]
  /\ inPeriod' = [inPeriod EXCEPT ![r] = IF fired' THEN 0 ELSE @ + 1]
  /\ UNCHANGED clears

\* The device's timing admits MaxActs activations between two clearings.
Activate(r) ==
  /\ acts < MaxActs
  /\ Hit(r) \/ Replace(r) \/ Spill(r)
  /\ Record(r)

ClearTables ==
  /\ track' = [e \in Entries |-> 0]
  /\ count' = [e \in Entries |-> 0]
  /\ spill' = 0
  /\ acts' = 0
  /\ seen' = [r \in Rows |-> 0]
  /\ unmitigated' = [r \in Rows |-> 0]
  /\ UNCHANGED fired

\* schedule_fcfs: CYCLE_VAL%204800000 == 0, "Refresh period ends".
EndPeriod ==
  /\ ClearTables
  /\ inPeriod' = [r \in Rows |-> 0]
  /\ clears' = 0

\* update_memory: ref_counter%1024 == 0 and resetflag set.
RefreshClear ==
  /\ clears < MaxClears
  /\ ClearTables
  /\ clears' = clears + 1
  /\ UNCHANGED inPeriod

Next ==
  \/ \E r \in Rows : Activate(r)
  \/ EndPeriod
  \/ RefreshClear

Spec == Init /\ [][Next]_vars

-----------------------------------------------------------------------------
(* Properties. *)

\* Types of the tables and of the history.
TypeOK ==
  /\ track \in [Entries -> Rows]
  /\ count \in [Entries -> Nat]
  /\ spill \in Nat
  /\ fired \in BOOLEAN
  /\ acts \in 0..MaxActs
  /\ seen \in [Rows -> Nat]
  /\ unmitigated \in [Rows -> Nat]
  /\ inPeriod \in [Rows -> Nat]
  /\ clears \in 0..MaxClears

\* misraGries never under-counts: a row's entry, or the spill counter when it
\* has none, is at least the number of its activations since the clearing,
\* whatever rows were evicted and re-entered in between.
OverEstimate ==
  \A r \in Rows :
    /\ \A e \in Entries : FirstFor(e, r) => seen[r] <= count[e]
    /\ ~ Tracked(r) => seen[r] <= spill

\* Sizing the table as 1360000/rth_actual keeps the spill counter below the
\* threshold: a row cannot re-enter above a multiple of Rth and jump over the
\* test count % rth_actual == 0.
SpillBelowThreshold == spill < Rth

\* One unit per counted activation: pairs <<entry, unit>>.
Units == {u \in Entries \X (1..MaxActs) : u[2] <= count[u[1]]}

\* No activation is lost or counted twice: the counters and the spill counter
\* together hold exactly the calls since the clearing.
Conservation == Cardinality(Units) + spill = acts

\* Between two clearings no row collects Rth activations unmitigated.
NoUnmitigatedRow == \A r \in Rows : unmitigated[r] < Rth

\* Over a whole scheduler period a row can escape once more for every clearing
\* that update_memory puts in the middle of it.
PeriodBound == \A r \in Rows : inPeriod[r] < Rth * (clears + 1)

\* misraGries keeps the promise the mitigation relies on.
Promise == INSTANCE RowTracker
ImplementsTracker == Promise!Spec
-----------------------------------------------------------------------------
(* The inductive invariant behind them. *)

\* No entry is below the spill counter, and no counter exceeds the calls.
CountRange ==
  /\ spill <= acts
  /\ \A e \in Entries : spill <= count[e] /\ count[e] <= acts

\* Only entries never used, which calloc left at row 0, share a row with an
\* earlier one.
DuplicatesUnused ==
  \A e, f \in Entries : e < f /\ track[e] = track[f] => count[f] = 0

\* A row's unmitigated activations fit in what its counter is past its last
\* multiple of Rth, or in the spill counter when it has no entry.
Residue ==
  \A r \in Rows :
    /\ \A e \in Entries : FirstFor(e, r) => unmitigated[r] <= count[e] % Rth
    /\ ~ Tracked(r) => unmitigated[r] <= spill

\* Every clearing by update_memory lets a row hide at most Rth - 1 of them.
PeriodResidue ==
  \A r \in Rows : inPeriod[r] <= (Rth - 1) * clears + unmitigated[r]

Counted == TypeOK /\ CountRange /\ Conservation

IInv ==
  /\ Counted
  /\ DuplicatesUnused
  /\ OverEstimate
  /\ Residue
  /\ PeriodResidue
=============================================================================
