---------------------------- MODULE RequestQueues ----------------------------
(***************************************************************************)
(* The read and the write queue of one channel, as all schedulers use      *)
(* them.  A DRAM cycle of main() is                                        *)
(*   update_memory()  ->  the scheduler  ->  fetch of new instructions.    *)
(* update_memory() has stored in each request its next command and whether *)
(* it can be issued; nothing changes before the scheduler reads them, so   *)
(* they are operators of the request and the channel's state here.         *)
(***************************************************************************)
EXTENDS DramChannel, Sequences

CONSTANTS
  NUMCORES,
  WQ_CAPACITY, RQ_CAPACITY, HI_WM, LO_WM,
  MaxFetches        \* bound: memory operations the traces bring to the channel

ASSUME QueuesAssumption ==
  /\ {NUMCORES, WQ_CAPACITY, RQ_CAPACITY} \subseteq Nat \ {0}
  /\ {HI_WM, LO_WM, MaxFetches} \subseteq Nat
  /\ LO_WM < HI_WM /\ HI_WM < WQ_CAPACITY

VARIABLES
  read_queue, write_queue,
  drain_writes,
  turn,             \* "schedule", then "fetch"
  fetches           \* what MaxFetches bounds

queues == <<read_queue, write_queue>>
queueVars == <<channelVars, queues, drain_writes, turn, fetches>>

Cores == 0..(NUMCORES - 1)
Request == [core : Cores, rank : Ranks, bank : Banks, row : Rows,
            fake : BOOLEAN, tracker : BOOLEAN, served : BOOLEAN]
New == {q \in Request : ~ q.fake /\ ~ q.tracker /\ ~ q.served}

QueuesInit ==
  /\ ChannelInit
  /\ read_queue = <<>> /\ write_queue = <<>>
  /\ drain_writes = FALSE
  /\ turn = "schedule"
  /\ fetches = 0

-----------------------------------------------------------------------------
(* The next command of a request. *)

Closed(q) == state[q.rank][q.bank] \in ClosedStates
RowHit(q) == /\ state[q.rank][q.bank] = "ROW_ACTIVE"
             /\ active_row[q.rank][q.bank] = q.row
RowConflict(q) == /\ state[q.rank][q.bank] = "ROW_ACTIVE"
                  /\ active_row[q.rank][q.bank] # q.row

Column(op, q) == IF op = "READ" THEN Read(q.rank, q.bank) ELSE Write(q.rank, q.bank)
is_column_allowed(op, q) ==
  IF op = "READ" THEN is_read_allowed(q.rank, q.bank) ELSE is_write_allowed(q.rank, q.bank)

\* command_issuable.
Issuable(op, q) ==
  \/ Closed(q) /\ is_activate_allowed(q.rank, q.bank)
  \/ RowHit(q) /\ is_column_allowed(op, q)
  \/ RowConflict(q) /\ is_precharge_allowed(q.rank, q.bank)

issue_request_command(op, q) ==
  \/ Closed(q) /\ Activate(q.rank, q.bank, q.row)
  \/ RowHit(q) /\ Column(op, q)
  \/ RowConflict(q) /\ Precharge(q.rank, q.bank)

\* The request after its command: a column access serves it.
Commanded(q) == [q EXCEPT !.served = RowHit(q)]

Queue(op) == IF op = "READ" THEN read_queue ELSE write_queue

NoCommand == UNCHANGED channelVars

-----------------------------------------------------------------------------
(* Arrival and removal. *)

\* Fault: a full queue takes one more.
QueueRoomAtCapacity ==
  Len(write_queue) <= WQ_CAPACITY /\ Len(read_queue) <= RQ_CAPACITY

\* ~ writeqfull /\ ~ readqfull.
QueueRoom == Len(write_queue) < WQ_CAPACITY /\ Len(read_queue) < RQ_CAPACITY

\* A memory operation of a trace that misses the cache and brings a read of one
\* of the cores in C, a write-back of a dirty victim, or both.  No scheduler looks
\* at the core of a write.
Arrive(C) ==
  /\ turn = "fetch"
  /\ fetches < MaxFetches
  /\ QueueRoom
  /\ fetches' = fetches + 1
  /\ \E q \in {n \in New : n.core \in C}, w \in {n \in New : n.core = 0} :
       \/ read_queue' = Append(read_queue, q) /\ UNCHANGED write_queue
       \/ write_queue' = Append(write_queue, w) /\ UNCHANGED read_queue
       \/ /\ read_queue' = Append(read_queue, q)
          /\ write_queue' = Append(write_queue, w)
  /\ UNCHANGED <<channelVars, drain_writes, turn>>

\* clean_queues() walks along a queue and removes what the last turn has served.
Unserved(s) ==
  LET kept[n \in 0..Len(s)] ==
        IF n = 0 THEN <<>>
        ELSE IF s[n].served THEN kept[n - 1] ELSE Append(kept[n - 1], s[n])
  IN kept[Len(s)]

\* What update_memory() does to the channel and its queues.
NewCycle ==
  /\ turn = "fetch"
  /\ turn' = "schedule"
  /\ Tick
  /\ read_queue' = Unserved(read_queue)
  /\ write_queue' = Unserved(write_queue)
  /\ UNCHANGED <<drain_writes, fetches>>

QueuesTypeOK ==
  /\ ChannelTypeOK
  /\ read_queue \in Seq(Request)
  /\ write_queue \in Seq(Request)
  /\ drain_writes \in BOOLEAN
  /\ turn \in {"schedule", "fetch"}
  /\ fetches \in 0..MaxFetches
=============================================================================
