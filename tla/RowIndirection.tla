--------------------------- MODULE RowIndirection ---------------------------
(***************************************************************************)
(* The row indirection table: rqidealRIT() of scheduler.c.  A row whose    *)
(* mitigation is ordered is moved to the next spare row; mapping[] keeps   *)
(* the pairs in both directions, and headpointer goes round the spares.    *)
(* The value returned is the number of moves the mitigation takes.         *)
(***************************************************************************)
EXTENDS Integers, FiniteSets

CONSTANTS
  Rows,        \* rows of the operating system's pages, which lie below the
               \* spares, and of Hydra's counters, which lie above them
  Base,        \* first spare row: TOTALOSPAGES * OS_PAGESIZE / row size
  SPAREROWS

Spares == Base..(Base + SPAREROWS - 1)
Addresses == Rows \cup Spares

\* The operating system hands out only pages below TOTALOSPAGES, and nothing
\* requests a spare row.
ASSUME RowIndirectionAssumption ==
  /\ Base \in Nat /\ SPAREROWS \in Nat \ {0}
  /\ Rows \subseteq Nat /\ Rows \cap Spares = {}

Unmapped == -1

VARIABLES
  mapping,      \* per address: its partner, or Unmapped
  headpointer,
  moves,        \* what the last call returned
  \* history, read by no guard:
  last,         \* per spare: the row last moved to it, or Unmapped
  home          \* per row: the spare it was last moved to, or Unmapped

vars == <<mapping, headpointer, moves, last, home>>

Init ==
  /\ mapping = [a \in Addresses |-> Unmapped]
  /\ headpointer = 0
  /\ moves = 0
  /\ last = [s \in Spares |-> Unmapped]
  /\ home = [r \in Rows |-> Unmapped]

\* headpointer + Base.
spareaddress == headpointer + Base

\* Fault: the spare goes on pointing to the row that left it.
UnpairedRowOnly(m, a) == [m EXCEPT ![a] = Unmapped]

\* Both directions of address a's pair are dropped.
Unpaired(m, a) ==
  IF m[a] = Unmapped THEN m
  ELSE [m EXCEPT ![m[a]] = Unmapped, ![a] = Unmapped]

\* Fault: the row that loses its spare goes on pointing to it.
NotEvicted(m, s) == m

\* The partner of the spare is told, not the spare itself, which is rewritten.
Evicted(m, s) ==
  IF m[s] = Unmapped THEN m ELSE [m EXCEPT ![m[s]] = Unmapped]

NextHead == (headpointer + 1) % SPAREROWS

\* Move the row to the spare at the head, after the row has left its old spare
\* and the spare's old row has left the spare.
rqidealRIT(row) ==
  LET m == Unpaired(mapping, row)
  IN
  /\ moves' = IF m[spareaddress] = Unmapped THEN 1 ELSE 2
  /\ mapping' = [Evicted(m, spareaddress)
                   EXCEPT ![row] = spareaddress, ![spareaddress] = row]
  /\ headpointer' = NextHead
  /\ last' = [last EXCEPT ![spareaddress] = row]
  /\ home' = [home EXCEPT ![row] = spareaddress]

Next == \E row \in Rows : rqidealRIT(row)

Spec == Init /\ [][Next]_vars

-----------------------------------------------------------------------------
(* Properties. *)

TypeOK ==
  /\ mapping \in [Addresses -> Addresses \cup {Unmapped}]
  /\ headpointer \in 0..(SPAREROWS - 1)
  /\ moves \in 0..2
  /\ last \in [Spares -> Rows \cup {Unmapped}]
  /\ home \in [Rows -> Spares \cup {Unmapped}]

\* The table is its own inverse and pairs rows with spares only: no two rows
\* share a spare, whatever order rows are moved, moved again and evicted in.
Paired ==
  \A a \in Addresses : mapping[a] # Unmapped =>
    /\ mapping[a] \in Addresses
    /\ mapping[mapping[a]] = a
    /\ a \in Rows <=> mapping[a] \in Spares

\* A row keeps its spare until it is moved again or the head has gone all the
\* way round and given the spare to another row: mapping is what the history of
\* the moves says, and nothing stale is left behind in either direction.
LastMovesHold ==
  \A r \in Rows :
    mapping[r] = IF home[r] # Unmapped /\ last[home[r]] = r THEN home[r] ELSE Unmapped

\* The mitigation is charged one move for its row and one for each other row that
\* loses its spare by it: the delay_stall that schedule_fcfs() takes from it.
Evictions == {r \in Rows : mapping[r] # Unmapped /\ mapping'[r] = Unmapped}
MovesCharged == [][moves' = 1 + Cardinality(Evictions)]_vars
=============================================================================
