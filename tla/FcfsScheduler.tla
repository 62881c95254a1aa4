--------------------------- MODULE FcfsScheduler ----------------------------
(***************************************************************************)
(* schedule_fcfs() of scheduler.c on one channel: the scheduler that       *)
(* carries the row-hammer mitigations.  A DRAM cycle of main() is          *)
(*   update_memory()  ->  schedule_fcfs()  ->  fetch of new instructions.  *)
(* Only the head of the read or the write queue is served.  An activation  *)
(* that is counted for the first time asks the tracker (MisraGries, hydra  *)
(* or the BlockHammer test), which may order a mitigation of the rank;     *)
(* until that is issued nothing else is scheduled on the channel.          *)
(***************************************************************************)
EXTENDS RequestQueues

CONSTANTS
  Modes,            \* values of MITIGATION_MODE to be checked
  RQENABLE,         \* moves of the ideal row indirection table for swaps
  MaxEpochs,        \* bound: ends of the 204.8M cycle period
  MaxOthers,        \* bound: moves of other channels
  MaxCounters       \* bound: counter requests of hydra() that land on this channel

ASSUME FcfsAssumption ==
  Modes \subseteq 0..7 /\ RQENABLE \in BOOLEAN /\ {MaxEpochs, MaxOthers, MaxCounters} \subseteq Nat

\* issue_move asks the last bank, NUM_BANKS - 1.
ASSUME BanksAssumption == Banks = 0..(Cardinality(Banks) - 1)

VARIABLES
  MITIGATION_MODE,  \* 0 none, 1 RRS, 2 Hydra, 3 BlockHammer, 4..7 Scale-SRS; the
                    \* configuration's, never changed
  delay_stall,      \* per rank: mitigations that are ordered and not issued
  skipit,           \* cycles until the scheduler resumes after a move of any channel
  prob_epoch,       \* prob_epoch_tracker: orders in this period, per rank
  epoch_moves,      \* prob_epoch_tracker_temp while refreshdone is set
  epochs,           \* what MaxEpochs bounds
  others,           \* what MaxOthers bounds
  counters          \* what MaxCounters bounds

orders == <<delay_stall, skipit, prob_epoch, epoch_moves>>
vars == <<MITIGATION_MODE, queueVars, orders, epochs, others, counters>>

Init ==
  /\ MITIGATION_MODE \in Modes
  /\ QueuesInit
  /\ delay_stall = [r \in Ranks |-> 0]
  /\ skipit = 0
  /\ prob_epoch = [r \in Ranks |-> 0]
  /\ epoch_moves = [r \in Ranks |-> 0]
  /\ epochs = 0 /\ others = 0 /\ counters = 0

-----------------------------------------------------------------------------
(* The mitigations. *)

Periodic == MITIGATION_MODE \in {4, 5}

\* The rank that the loops over the ranks reach first.
FirstRank(r, S) == r \in S /\ \A k \in S : r <= k

\* What a firing tracker stores in delay_stall.
Ordered ==
  CASE MITIGATION_MODE \in {1, 2} -> IF RQENABLE THEN DelayMuls ELSE {1}
    [] MITIGATION_MODE \in {6, 7} -> {2}
    [] OTHER -> {1}

LastBank == CHOOSE b \in Banks : \A c \in Banks : c <= b

\* issue_move returns next_act of the last bank, to which skipit is raised.
MoveAndSkip(r, delaymul) ==
  /\ Move(r, delaymul)
  /\ skipit' = Later(next'[r][LastBank].act, skipit)

\* Fault: one move whatever the mode and the order.
IssueOneMove(r) ==
  /\ MoveAndSkip(r, 1)
  /\ delay_stall' = [delay_stall EXCEPT ![r] = 0]

\* Fault: the order is not taken back.
IssueAgain(r) == Swap(r, delay_stall[r]) /\ UNCHANGED <<delay_stall, skipit>>

\* Issue what delay_stall orders for rank r.
IssueOrder(r) ==
  \/ /\ MITIGATION_MODE \in {1, 2}
     /\ IF RQENABLE THEN Move(r, delay_stall[r]) ELSE Swap(r, delay_stall[r])
     /\ delay_stall' = [delay_stall EXCEPT ![r] = 0]
     /\ UNCHANGED skipit
  \/ /\ MITIGATION_MODE = 3
     /\ Stall(r, delay_stall[r])
     /\ delay_stall' = [delay_stall EXCEPT ![r] = 0]
     /\ UNCHANGED skipit
  \/ /\ MITIGATION_MODE \in {4, 5}
     /\ MoveAndSkip(r, delay_stall[r])
     /\ delay_stall' = [delay_stall EXCEPT ![r] = 0]
  \/ /\ MITIGATION_MODE \in {6, 7}
     /\ MoveAndSkip(r, 1)
     /\ delay_stall' = [delay_stall EXCEPT ![r] = @ - 1]

-----------------------------------------------------------------------------
(* The requests. *)

\* The tracker is asked once for a request, when its row is first activated;
\* its answer is left open here.  tally is prob_epoch before the call.
CountActivation(q, tally) ==
  \/ UNCHANGED delay_stall /\ prob_epoch' = tally
  \/ /\ ~ q.tracker /\ MITIGATION_MODE # 0
     /\ \E n \in Ordered : delay_stall' = [delay_stall EXCEPT ![q.rank] = n]
     /\ prob_epoch' = IF Periodic THEN [tally EXCEPT ![q.rank] = @ + 1] ELSE tally

AsksHydra == MITIGATION_MODE \in {2, 5, 7}

\* Once for a request.  hydra() asks for no counter of a counter beyond the boundary of
\* the counters; the one exactly at the boundary is not beyond it, so a counter request
\* may ask as well, and which one does is left open.
Asks(q) == AsksHydra /\ ~ q.tracker

\* insert_read(ctraddrfinal, ...) and insert_write(victim.tag, ...): thread 0, fake.
CounterRequest ==
  {q \in Request : q.core = 0 /\ q.fake /\ ~ q.tracker /\ ~ q.served}

\* An activation that asks hydra() may fetch the counter of its row and write another
\* counter back.  Each goes to the channel of its own address, without a look at the
\* limits: this channel gets both, either or none of them, and it gets those of the
\* other channels' activations too.
CounterQueues(asks) ==
  IF asks THEN {<<>>} \cup {<<c>> : c \in CounterRequest} ELSE {<<>>}
CountersLand(reads, writes) ==
  /\ counters' = counters + Len(reads) + Len(writes)
  /\ counters' <= MaxCounters

\* The head of the queue becomes q, and counter requests follow.
HeadBecomes(op, q, reads, writes) ==
  /\ read_queue' = (IF op = "READ" THEN [read_queue EXCEPT ![1] = q] ELSE read_queue) \o reads
  /\ write_queue' = (IF op = "WRITE" THEN [write_queue EXCEPT ![1] = q] ELSE write_queue) \o writes

\* One command for the head of a queue, or none.
ServeHead(op, tally) ==
  LET q == Head(Queue(op))
      Order == UNCHANGED delay_stall /\ prob_epoch' = tally
  IN
  \/ /\ Queue(op) # <<>> => ~ Issuable(op, q)
     /\ NoCommand /\ UNCHANGED <<queues, counters>> /\ Order
  \/ /\ Queue(op) # <<>> /\ issue_request_command(op, q)
     /\ IF Closed(q)
        THEN /\ CountActivation(q, tally)
             /\ \E reads, writes \in CounterQueues(Asks(q)) :
                  /\ HeadBecomes(op, [q EXCEPT !.tracker = TRUE], reads, writes)
                  /\ CountersLand(reads, writes)
        ELSE HeadBecomes(op, Commanded(q), <<>>, <<>>) /\ Order /\ UNCHANGED counters

\* Fault: the drain goes on at LO_WM itself.
DrainingForEver ==
  \/ drain_writes /\ Len(write_queue) >= LO_WM
  \/ Len(write_queue) > HI_WM

\* Fault: the drain stops as soon as the queue is below HI_WM.
DrainingToHigh == Len(write_queue) > HI_WM

\* Writes are drained from above HI_WM down to LO_WM.
Draining ==
  \/ drain_writes /\ Len(write_queue) > LO_WM
  \/ Len(write_queue) > HI_WM

ServeQueues(tally) ==
  /\ drain_writes' = Draining
  /\ ServeHead(IF Draining THEN "WRITE" ELSE "READ", tally)

-----------------------------------------------------------------------------
(* The scheduler's turn. *)

\* Fault: the move is not counted.
PeriodMoveAgain(owed) ==
  \E r \in Ranks :
    /\ FirstRank(r, {k \in Ranks : owed[k] > 0})
    /\ MoveAndSkip(r, 1) \/ (~ is_refresh_allowed(r) /\ NoCommand /\ UNCHANGED skipit)
    /\ epoch_moves' = owed

\* Modes 4 and 5: at the end of a period every order of the period is repeated
\* as one more move, before anything else and whatever skipit says.
PeriodMove(owed) ==
  \E r \in Ranks :
    /\ FirstRank(r, {k \in Ranks : owed[k] > 0})
    /\ \/ /\ MoveAndSkip(r, 1)
          /\ epoch_moves' = [owed EXCEPT ![r] = @ - 1]
       \/ /\ ~ is_refresh_allowed(r)
          /\ NoCommand
          /\ epoch_moves' = owed
          /\ UNCHANGED skipit

OrderedMove ==
  \E r \in Ranks :
    /\ FirstRank(r, {k \in Ranks : delay_stall[k] > 0})
    /\ \/ IssueOrder(r)
       \/ /\ ~ is_refresh_allowed(r)
          /\ NoCommand
          /\ UNCHANGED <<delay_stall, skipit>>

\* ends: the cycle is a multiple of 204.8M.
schedule_fcfs(ends) ==
  LET owed == IF ends /\ Periodic THEN prob_epoch ELSE epoch_moves
      tally == IF ends THEN [r \in Ranks |-> 0] ELSE prob_epoch
      Moving == \E r \in Ranks : owed[r] > 0
      Stalled == \E r \in Ranks : delay_stall[r] > 0
  IN
  \/ /\ Moving
     /\ PeriodMove(owed)
     /\ prob_epoch' = tally
     /\ UNCHANGED <<queues, drain_writes, delay_stall, counters>>
  \/ /\ ~ Moving
     /\ epoch_moves' = owed
     /\ \/ /\ skipit > 0
           /\ NoCommand
           /\ prob_epoch' = tally
           /\ UNCHANGED <<queues, drain_writes, delay_stall, skipit, counters>>
        \/ /\ skipit = 0 /\ Stalled
           /\ OrderedMove
           /\ prob_epoch' = tally
           /\ UNCHANGED <<queues, drain_writes, counters>>
        \/ /\ skipit = 0 /\ ~ Stalled
           /\ ServeQueues(tally)
           /\ UNCHANGED skipit

\* What the end of a period clears is kept in modes 4 and 5 only.
Schedule ==
  /\ turn = "schedule"
  /\ turn' = "fetch"
  /\ \/ schedule_fcfs(FALSE) /\ UNCHANGED epochs
     \/ Periodic /\ epochs < MaxEpochs /\ schedule_fcfs(TRUE) /\ epochs' = epochs + 1
  /\ UNCHANGED <<MITIGATION_MODE, fetches, others>>

-----------------------------------------------------------------------------
(* The rest of the cycle. *)

Fetch == Arrive(Cores) /\ UNCHANGED <<MITIGATION_MODE, orders, epochs, others, counters>>

\* A channel that has its turn before this one moves a row: skipit is one variable.
\* Only the moves of a period are made whatever skipit says.  The longest move, of a
\* rank with an open row, stands for all.
OthersMove ==
  /\ turn = "schedule"
  /\ MITIGATION_MODE \in 4..7
  /\ others < MaxOthers
  /\ Periodic \/ skipit = 0
  /\ skipit' = Later(T_RP + T_MOVE, skipit)
  /\ others' = others + 1
  /\ UNCHANGED <<MITIGATION_MODE, queueVars, delay_stall, prob_epoch, epoch_moves, epochs,
                 counters>>

\* A channel that has its turn before or after this one in the cycle activates a row and
\* asks hydra(), whose requests land here.  (Between two arrivals of one fetch they land
\* in the next cycle, from a channel before this one.)
OthersAsk ==
  /\ AsksHydra
  /\ skipit = 0
  /\ \E reads, writes \in CounterQueues(TRUE) :
       /\ <<reads, writes>> # <<<<>>, <<>>>>
       /\ CountersLand(reads, writes)
       /\ read_queue' = read_queue \o reads
       /\ write_queue' = write_queue \o writes
  /\ UNCHANGED <<MITIGATION_MODE, channelVars, drain_writes, turn, fetches, orders, epochs,
                 others>>

update_memory ==
  /\ NewCycle
  /\ skipit' = Down(skipit)
  /\ UNCHANGED <<MITIGATION_MODE, delay_stall, prob_epoch, epoch_moves, epochs, others, counters>>

Next == Schedule \/ Fetch \/ OthersMove \/ OthersAsk \/ update_memory

\* main() never leaves out a cycle, nor the scheduler in one.
Spec == Init /\ [][Next]_vars /\ WF_vars(Schedule) /\ WF_vars(update_memory)

-----------------------------------------------------------------------------
(* Properties. *)

\* hydra() inserts without a look at the limits, so a queue may grow beyond them by its
\* counter requests; a request of the traces never stands beyond the limit.
TraceWithinLimits ==
  /\ \A i \in DOMAIN read_queue : read_queue[i].fake \/ i <= RQ_CAPACITY
  /\ \A i \in DOMAIN write_queue : write_queue[i].fake \/ i <= WQ_CAPACITY

TypeOK ==
  /\ QueuesTypeOK
  /\ TraceWithinLimits
  /\ MITIGATION_MODE \in Modes
  /\ delay_stall \in [Ranks -> 0..2]
  /\ skipit \in Nat
  /\ prob_epoch \in [Ranks -> Nat] /\ epoch_moves \in [Ranks -> Nat]
  /\ epochs \in 0..MaxEpochs /\ others \in 0..MaxOthers /\ counters \in 0..MaxCounters

\* A row is only activated in a rank whose mitigations are over: none is ordered
\* and none is under way, also when a forced refresh came between and overwrote
\* the clocks that the mitigation had set.
ActivatedAfterMitigation ==
  [][\A r \in Ranks, b \in Banks : Activated(r, b) =>
       delay_stall[r] = 0 /\ occupied[r] = 0]_vars

\* An order leaves delay_stall only for a swap, move or stall of that length
\* that the rank starts in the same cycle, and no order replaces another one.
OrdersAreIssued ==
  [][\A r \in Ranks : delay_stall'[r] # delay_stall[r] =>
       \/ delay_stall[r] = 0 /\ command_issued'
       \/ /\ delay_stall'[r] < delay_stall[r]
          /\ occupied'[r] >= (delay_stall[r] - delay_stall'[r])
                * (CASE MITIGATION_MODE \in {1, 2} /\ ~ RQENABLE -> T_SWAP
                     [] MITIGATION_MODE = 3 -> T_STALL
                     [] OTHER -> T_MOVE)]_vars

\* Every ordered mitigation is issued in the end, although the scheduler asks for
\* an instant at which no forced refresh is under way and no bank is busy, and
\* moves of other channels make it skip its turns.
MitigationServed == \A r \in Ranks : delay_stall[r] > 0 ~> delay_stall[r] = 0

\* The moves owed for a period are made, whatever else is ordered meanwhile.
PeriodServed == \A r \in Ranks : epoch_moves[r] > 0 ~> epoch_moves[r] = 0

\* Every read is served once the trace brings no more, and a write queue above
\* HI_WM comes down to LO_WM: forced refreshes, mitigations and the other queue
\* take the row of the head away, but not for ever.
ReadsServed == read_queue # <<>> ~> read_queue = <<>>
WritesDrained == Len(write_queue) > HI_WM ~> Len(write_queue) <= LO_WM
=============================================================================
