------------------------ MODULE FcfsSchedulerProofs -------------------------
(***************************************************************************)
(* schedule_fcfs() on any channel, for queues of any capacity.  It issues  *)
(* its commands through the channel's interface only, so what is proved    *)
(* of the channel holds under the scheduler; on top of that come the fate  *)
(* of the ordered mitigations and the places of the traces' requests in    *)
(* the queues, to which hydra() adds without a look at the limits.         *)
(***************************************************************************)
EXTENDS FcfsScheduler, DramChannelProofs, FiniteSetTheorems

-----------------------------------------------------------------------------
(* The steps of the scheduler. *)

\* The types of TypeOK, without the limits of the traces' requests.
SchedulerTypes ==
  /\ QueuesTypeOK
  /\ MITIGATION_MODE \in Modes
  /\ delay_stall \in [Ranks -> 0..2]
  /\ skipit \in Nat
  /\ prob_epoch \in [Ranks -> Nat] /\ epoch_moves \in [Ranks -> Nat]
  /\ epochs \in 0..MaxEpochs /\ others \in 0..MaxOthers /\ counters \in 0..MaxCounters

LEMMA LastBankType == LastBank \in Banks
<1>1. Cardinality(Banks) \in Nat
  BY DramAssumption, FS_CardinalityType
<1>2. Banks = 0..(Cardinality(Banks) - 1) /\ 0 \in Banks
  BY DramAssumption, BanksAssumption
<1>3. /\ Cardinality(Banks) - 1 \in Banks
      /\ \A c \in Banks : c <= Cardinality(Banks) - 1
  BY <1>1, <1>2
<1> QED BY <1>3 DEF LastBank

\* The turns of the scheduler: it waits, makes a move that a period owes, issues an
\* ordered mitigation, or serves a queue when nothing is ordered.
Waiting == NoCommand /\ UNCHANGED <<queues, drain_writes, delay_stall, skipit, counters>>
PeriodTurn ==
  /\ \E r \in Ranks : MoveAndSkip(r, 1)
  /\ UNCHANGED <<queues, drain_writes, delay_stall, counters>>
OrderTurn ==
  /\ \E r \in Ranks : delay_stall[r] > 0 /\ IssueOrder(r)
  /\ UNCHANGED <<queues, drain_writes, counters>>
QueueTurn ==
  /\ \A r \in Ranks : delay_stall[r] = 0
  /\ \E tally \in [Ranks -> Nat] : ServeQueues(tally)
  /\ UNCHANGED skipit

LEMMA TurnIs ==
  ASSUME SchedulerTypes, NEW ends \in BOOLEAN, schedule_fcfs(ends)
  PROVE  /\ Waiting \/ PeriodTurn \/ OrderTurn \/ QueueTurn
         /\ epoch_moves' \in [Ranks -> Nat]
         /\ prob_epoch' \in [Ranks -> Nat] \/ QueueTurn
<1> DEFINE owed == IF ends /\ Periodic THEN prob_epoch ELSE epoch_moves
           tally == IF ends THEN [r \in Ranks |-> 0] ELSE prob_epoch
           Moving == \E r \in Ranks : owed[r] > 0
           Stalled == \E r \in Ranks : delay_stall[r] > 0
<1>1. owed \in [Ranks -> Nat] /\ tally \in [Ranks -> Nat]
  BY DEF SchedulerTypes
<1>2. CASE Moving /\ PeriodMove(owed) /\ prob_epoch' = tally
           /\ UNCHANGED <<queues, drain_writes, delay_stall, counters>>
  <2>1. PICK r \in Ranks : \/ MoveAndSkip(r, 1) /\ epoch_moves' = [owed EXCEPT ![r] = @ - 1]
                           \/ NoCommand /\ epoch_moves' = owed /\ UNCHANGED skipit
        /\ owed[r] > 0
    BY <1>2 DEF PeriodMove, FirstRank
  <2>2. epoch_moves' \in [Ranks -> Nat]
    <3>1. owed[r] - 1 \in Nat
      BY <1>1, <2>1
    <3> QED BY <1>1, <2>1, <3>1
  <2> HIDE DEF owed, tally
  <2> QED BY <1>1, <1>2, <2>1, <2>2 DEF Waiting, PeriodTurn
<1>3. CASE skipit > 0 /\ NoCommand /\ prob_epoch' = tally /\ epoch_moves' = owed
           /\ UNCHANGED <<queues, drain_writes, delay_stall, skipit, counters>>
  BY <1>1, <1>3 DEF Waiting
<1>4. CASE Stalled /\ OrderedMove /\ prob_epoch' = tally /\ epoch_moves' = owed
           /\ UNCHANGED <<queues, drain_writes, counters>>
  <2>1. PICK r \in Ranks : delay_stall[r] > 0
                           /\ \/ IssueOrder(r)
                              \/ NoCommand /\ UNCHANGED <<delay_stall, skipit>>
    BY <1>4 DEF OrderedMove, FirstRank
  <2> HIDE DEF owed, tally
  <2> QED BY <1>1, <1>4, <2>1 DEF Waiting, OrderTurn
<1>5. CASE ~ Stalled /\ ServeQueues(tally) /\ epoch_moves' = owed /\ UNCHANGED skipit
  <2>1. \A r \in Ranks : delay_stall[r] = 0
    BY <1>5 DEF SchedulerTypes
  <2> HIDE DEF owed, tally
  <2> QED BY <1>1, <1>5, <2>1 DEF QueueTurn
<1> QED BY <1>2, <1>3, <1>4, <1>5 DEF schedule_fcfs

\* An order is a mitigation of the rank, at most twice the length of its kind.
LEMMA OrderIs ==
  ASSUME SchedulerTypes, NEW r \in Ranks, delay_stall[r] > 0, IssueOrder(r)
  PROVE  /\ \E m \in DelayMuls : Swap(r, m) \/ Move(r, m) \/ Stall(r, m)
         /\ skipit' = skipit \/ skipit' = Later(next'[r][LastBank].act, skipit)
         /\ delay_stall' \in [Ranks -> 0..2]
<1>1. delay_stall[r] \in DelayMuls /\ 1 \in DelayMuls
  BY DEF SchedulerTypes, DelayMuls
<1>2. \E m \in DelayMuls : Swap(r, m) \/ Move(r, m) \/ Stall(r, m)
  BY <1>1 DEF IssueOrder, MoveAndSkip
<1>3. skipit' = skipit \/ skipit' = Later(next'[r][LastBank].act, skipit)
  BY DEF IssueOrder, MoveAndSkip
<1>4. delay_stall[r] - 1 \in 0..2 /\ 0 \in 0..2
  BY DEF SchedulerTypes
<1>5. delay_stall' \in [Ranks -> 0..2]
  BY <1>4 DEF IssueOrder, SchedulerTypes
<1> QED BY <1>2, <1>3, <1>5

\* What a turn may do to the head of the queue that is served: nothing, open its row and
\* perhaps order a mitigation and insert counter requests, or close the row of another
\* request or transfer the data.
Served == IF Draining THEN "WRITE" ELSE "READ"
TheHead == Head(Queue(Served))
HeadWaits == NoCommand /\ UNCHANGED <<queues, delay_stall, counters>>
HeadActivates ==
  /\ Queue(Served) # <<>>
  /\ Closed(TheHead) /\ Activate(TheHead.rank, TheHead.bank, TheHead.row)
  /\ \/ UNCHANGED delay_stall
     \/ ~ TheHead.tracker /\ MITIGATION_MODE # 0
        /\ \E n \in Ordered : delay_stall' = [delay_stall EXCEPT ![TheHead.rank] = n]
  /\ \E reads, writes \in CounterQueues(Asks(TheHead)) :
       /\ HeadBecomes(Served, [TheHead EXCEPT !.tracker = TRUE], reads, writes)
       /\ CountersLand(reads, writes)
HeadProceeds ==
  /\ Queue(Served) # <<>>
  /\ \/ RowHit(TheHead) /\ Column(Served, TheHead)
     \/ RowConflict(TheHead) /\ Precharge(TheHead.rank, TheHead.bank)
  /\ HeadBecomes(Served, Commanded(TheHead), <<>>, <<>>)
  /\ UNCHANGED <<delay_stall, counters>>

LEMMA HeadType ==
  ASSUME SchedulerTypes, Queue(Served) # <<>>
  PROVE  /\ TheHead \in Request /\ TheHead = Queue(Served)[1]
         /\ TheHead.rank \in Ranks /\ TheHead.bank \in Banks /\ TheHead.row \in Rows
<1>1. Queue(Served) \in Seq(Request)
  BY DEF Queue, Served, SchedulerTypes, QueuesTypeOK
<1>2. TheHead \in Request /\ TheHead = Queue(Served)[1]
  BY <1>1 DEF TheHead
<1> QED BY <1>2 DEF Request

LEMMA QueueTurnIs ==
  ASSUME SchedulerTypes, QueueTurn
  PROVE  /\ drain_writes' = Draining
         /\ HeadWaits \/ HeadActivates \/ HeadProceeds
         /\ prob_epoch' \in [Ranks -> Nat]
<1>1. PICK tally \in [Ranks -> Nat] : ServeQueues(tally)
  BY DEF QueueTurn
<1>2. drain_writes' = Draining /\ ServeHead(Served, tally)
  BY <1>1 DEF ServeQueues, Served
<1> DEFINE order == UNCHANGED delay_stall /\ prob_epoch' = tally
           idle == NoCommand /\ UNCHANGED <<queues, counters>> /\ order
<1>3. CASE idle
  BY <1>2, <1>3 DEF HeadWaits
<1>4. CASE ~ idle
  <2>1. Queue(Served) # <<>> /\ issue_request_command(Served, TheHead)
    BY <1>2, <1>4 DEF ServeHead, TheHead
  <2>2. /\ TheHead.rank \in Ranks
        /\ tally \in [Ranks -> Nat] /\ [tally EXCEPT ![TheHead.rank] = @ + 1] \in [Ranks -> Nat]
    BY <2>1, HeadType
  <2>3. CASE Closed(TheHead)
    <3>1. /\ CountActivation(TheHead, tally)
          /\ \E reads, writes \in CounterQueues(Asks(TheHead)) :
               /\ HeadBecomes(Served, [TheHead EXCEPT !.tracker = TRUE], reads, writes)
               /\ CountersLand(reads, writes)
      BY <1>2, <1>4, <2>3 DEF ServeHead, TheHead
    <3>2. Activate(TheHead.rank, TheHead.bank, TheHead.row)
      BY <2>1, <2>3 DEF issue_request_command, Closed, RowHit, RowConflict, ClosedStates
    <3>3. prob_epoch' \in [Ranks -> Nat]
      BY <2>2, <3>1 DEF CountActivation
    <3> QED BY <1>2, <2>1, <2>3, <3>1, <3>2, <3>3 DEF HeadActivates, CountActivation
  <2>4. CASE ~ Closed(TheHead)
    <3>1. HeadBecomes(Served, Commanded(TheHead), <<>>, <<>>) /\ order /\ UNCHANGED counters
      BY <1>2, <1>4, <2>4 DEF ServeHead, TheHead
    <3> QED BY <1>2, <2>1, <2>2, <2>4, <3>1 DEF HeadProceeds, issue_request_command
  <2> QED BY <2>3, <2>4
<1> QED BY <1>3, <1>4

\* The commands of the scheduler are commands of the channel.
LEMMA TurnOnChannel ==
  ASSUME SchedulerTypes, Waiting \/ PeriodTurn \/ OrderTurn \/ QueueTurn
  PROVE  [ChannelNext]_channelVars
<1>1. CASE Waiting
  BY <1>1 DEF Waiting, NoCommand
<1>2. CASE PeriodTurn
  <2>1. PICK r \in Ranks : Move(r, 1)
    BY <1>2 DEF PeriodTurn, MoveAndSkip
  <2>2. RankCommand(r)
    BY <2>1 DEF RankCommand, DelayMuls
  <2> QED BY <2>2 DEF ChannelNext
<1>3. CASE OrderTurn
  <2>1. PICK r \in Ranks : delay_stall[r] > 0 /\ IssueOrder(r)
    BY <1>3 DEF OrderTurn
  <2>2. \E m \in DelayMuls : Swap(r, m) \/ Move(r, m) \/ Stall(r, m)
    BY <2>1, OrderIs
  <2>3. RankCommand(r)
    BY <2>2 DEF RankCommand
  <2> QED BY <2>3 DEF ChannelNext
<1>4. CASE QueueTurn
  <2>1. CASE HeadWaits
    BY <2>1 DEF HeadWaits, NoCommand
  <2>2. CASE HeadActivates
    <3>1. TheHead.rank \in Ranks /\ TheHead.bank \in Banks /\ TheHead.row \in Rows
      BY <2>2, HeadType DEF HeadActivates
    <3>2. BankCommand(TheHead.rank, TheHead.bank)
      BY <2>2, <3>1 DEF HeadActivates, BankCommand
    <3> QED BY <3>1, <3>2 DEF ChannelNext
  <2>3. CASE HeadProceeds
    <3>1. TheHead.rank \in Ranks /\ TheHead.bank \in Banks
      BY <2>3, HeadType DEF HeadProceeds
    <3>2. BankCommand(TheHead.rank, TheHead.bank)
      BY <2>3, <3>1 DEF HeadProceeds, Column, BankCommand
    <3> QED BY <3>1, <3>2 DEF ChannelNext
  <2> QED BY <1>4, <2>1, <2>2, <2>3, QueueTurnIs
<1> QED BY <1>1, <1>2, <1>3, <1>4

LEMMA ScheduleIs ==
  ASSUME SchedulerTypes, Schedule
  PROVE  /\ Waiting \/ PeriodTurn \/ OrderTurn \/ QueueTurn
         /\ epoch_moves' \in [Ranks -> Nat] /\ prob_epoch' \in [Ranks -> Nat]
<1>1. PICK ends \in BOOLEAN : schedule_fcfs(ends)
  BY DEF Schedule
<1> QED BY <1>1, TurnIs, QueueTurnIs

\* Every step of the system is a step of the channel, or none.
LEMMA SchedulerOnChannel ==
  ASSUME SchedulerTypes, [Next]_vars
  PROVE  [ChannelNext]_channelVars
<1>1. CASE Schedule
  BY <1>1, ScheduleIs, TurnOnChannel
<1>2. CASE Fetch
  BY <1>2 DEF Fetch, Arrive
<1>3. CASE OthersMove
  BY <1>3 DEF OthersMove, queueVars
<1>4. CASE OthersAsk
  BY <1>4 DEF OthersAsk
<1>5. CASE update_memory
  BY <1>5 DEF update_memory, NewCycle, ChannelNext
<1>6. CASE UNCHANGED vars
  BY <1>6 DEF vars, queueVars
<1> QED BY <1>1, <1>2, <1>3, <1>4, <1>5, <1>6 DEF Next

\* What hydra() adds to a queue: one counter request, or none.
LEMMA CounterQueueIs ==
  ASSUME NEW asks \in BOOLEAN, NEW more \in CounterQueues(asks)
  PROVE  /\ more \in Seq(CounterRequest) /\ more \in Seq(Request)
         /\ \A i \in 1..Len(more) : more[i].fake /\ ~ more[i].served /\ ~ more[i].tracker
<1>1. more = <<>> \/ \E c \in CounterRequest : more = <<c>>
  BY DEF CounterQueues
<1>2. more \in Seq(CounterRequest)
  <2>1. <<>> \in Seq(CounterRequest) /\ \A c \in CounterRequest : <<c>> \in Seq(CounterRequest)
    OBVIOUS
  <2> QED BY <1>1, <2>1
<1>3. CounterRequest \subseteq Request
  BY DEF CounterRequest
<1>4. \A i \in 1..Len(more) : more[i] \in CounterRequest
  BY <1>2
<1>5. more \in Seq(Request)
  BY <1>2, <1>3
<1> QED BY <1>2, <1>4, <1>5 DEF CounterRequest

LEMMA CountersType ==
  ASSUME SchedulerTypes, NEW reads \in Seq(Request), NEW writes \in Seq(Request),
         CountersLand(reads, writes)
  PROVE  counters' \in 0..MaxCounters
<1>1. /\ counters \in Nat /\ Len(reads) \in Nat /\ Len(writes) \in Nat
      /\ counters' = counters + Len(reads) + Len(writes)
      /\ counters' <= MaxCounters
  BY DEF SchedulerTypes, CountersLand
<1>2. MaxCounters \in Nat
  BY FcfsAssumption
<1> QED BY <1>1, <1>2

\* The queue op whose head becomes q, with more behind it.
LEMMA HeadReplaced ==
  ASSUME NEW s \in Seq(Request), s # <<>>, NEW q \in Request, NEW more \in Seq(Request)
  PROVE  /\ [s EXCEPT ![1] = q] \o more \in Seq(Request)
         /\ Len([s EXCEPT ![1] = q] \o more) = Len(s) + Len(more)
         /\ \A i \in 1..(Len(s) + Len(more)) :
              ([s EXCEPT ![1] = q] \o more)[i] = IF i = 1 THEN q
                                               ELSE IF i <= Len(s) THEN s[i] ELSE more[i - Len(s)]
<1> DEFINE t == [s EXCEPT ![1] = q]
<1>1. /\ t \in Seq(Request) /\ Len(t) = Len(s)
      /\ \A i \in 1..Len(s) : t[i] = IF i = 1 THEN q ELSE s[i]
  OBVIOUS
<1>2. Len(s) \in Nat /\ Len(s) >= 1 /\ Len(more) \in Nat
  OBVIOUS
<1> HIDE DEF t
<1>3. /\ t \o more \in Seq(Request) /\ Len(t \o more) = Len(s) + Len(more)
      /\ \A i \in 1..(Len(s) + Len(more)) :
           (t \o more)[i] = IF i <= Len(s) THEN t[i] ELSE more[i - Len(s)]
  BY <1>1
<1>4. \A i \in 1..(Len(s) + Len(more)) :
        (t \o more)[i] = IF i = 1 THEN q ELSE IF i <= Len(s) THEN s[i] ELSE more[i - Len(s)]
  BY <1>1, <1>2, <1>3
<1> QED BY <1>3, <1>4 DEF t

LEMMA Concatenated ==
  ASSUME NEW s \in Seq(Request), NEW more \in Seq(Request)
  PROVE  /\ s \o more \in Seq(Request) /\ Len(s \o more) = Len(s) + Len(more)
         /\ \A i \in 1..(Len(s) + Len(more)) :
              (s \o more)[i] = IF i <= Len(s) THEN s[i] ELSE more[i - Len(s)]
OBVIOUS

\* The queues after a turn that serves a head.
LEMMA HeadBecomesType ==
  ASSUME SchedulerTypes, Queue(Served) # <<>>, NEW q \in Request,
         NEW reads \in Seq(Request), NEW writes \in Seq(Request),
         HeadBecomes(Served, q, reads, writes)
  PROVE  /\ read_queue' \in Seq(Request) /\ write_queue' \in Seq(Request)
         /\ Len(read_queue') = Len(read_queue) + Len(reads)
         /\ Len(write_queue') = Len(write_queue) + Len(writes)
         /\ \A i \in 1..Len(read_queue') :
              read_queue'[i] = IF i = 1 /\ ~ Draining THEN q
                               ELSE IF i <= Len(read_queue) THEN read_queue[i]
                               ELSE reads[i - Len(read_queue)]
         /\ \A i \in 1..Len(write_queue') :
              write_queue'[i] = IF i = 1 /\ Draining THEN q
                                ELSE IF i <= Len(write_queue) THEN write_queue[i]
                                ELSE writes[i - Len(write_queue)]
<1>1. read_queue \in Seq(Request) /\ write_queue \in Seq(Request)
  BY DEF SchedulerTypes, QueuesTypeOK
<1>2. CASE Draining
  <2>1. /\ read_queue' = read_queue \o reads /\ write_queue # <<>>
        /\ write_queue' = [write_queue EXCEPT ![1] = q] \o writes
    BY <1>2 DEF HeadBecomes, Served, Queue
  <2> QED BY <1>1, <1>2, <2>1, HeadReplaced, Concatenated
<1>3. CASE ~ Draining
  <2>1. /\ write_queue' = write_queue \o writes /\ read_queue # <<>>
        /\ read_queue' = [read_queue EXCEPT ![1] = q] \o reads
    BY <1>3 DEF HeadBecomes, Served, Queue
  <2> QED BY <1>1, <1>3, <2>1, HeadReplaced, Concatenated
<1> QED BY <1>2, <1>3

LEMMA MarkedType ==
  ASSUME NEW q \in Request
  PROVE  /\ [q EXCEPT !.tracker = TRUE] \in Request
         /\ Commanded(q) \in Request
BY DEF Request, Commanded, RowHit

LEMMA QueueTurnTypes ==
  ASSUME SchedulerTypes, QueueTurn
  PROVE  /\ read_queue' \in Seq(Request) /\ write_queue' \in Seq(Request)
         /\ delay_stall' \in [Ranks -> 0..2] /\ counters' \in 0..MaxCounters
<1>1. CASE HeadWaits
  BY <1>1 DEF HeadWaits, queues, SchedulerTypes, QueuesTypeOK
<1>2. CASE HeadActivates
  <2>1. Asks(TheHead) \in BOOLEAN
    BY DEF Asks
  <2>2. PICK reads \in CounterQueues(Asks(TheHead)), writes \in CounterQueues(Asks(TheHead)) :
          /\ HeadBecomes(Served, [TheHead EXCEPT !.tracker = TRUE], reads, writes)
          /\ CountersLand(reads, writes)
    BY <1>2 DEF HeadActivates
  <2>3. reads \in Seq(Request) /\ writes \in Seq(Request)
    BY <2>1, CounterQueueIs
  <2>4. [TheHead EXCEPT !.tracker = TRUE] \in Request
    BY <1>2, HeadType, MarkedType DEF HeadActivates
  <2>5. read_queue' \in Seq(Request) /\ write_queue' \in Seq(Request)
    BY <1>2, <2>2, <2>3, <2>4, HeadBecomesType DEF HeadActivates
  <2>6. delay_stall' \in [Ranks -> 0..2]
    <3>1. Ordered \subseteq 0..2
      BY DEF Ordered, DelayMuls
    <3>2. delay_stall \in [Ranks -> 0..2]
      BY DEF SchedulerTypes
    <3>3. \/ delay_stall' = delay_stall
          \/ \E n \in Ordered : delay_stall' = [delay_stall EXCEPT ![TheHead.rank] = n]
      BY <1>2 DEF HeadActivates
    <3> QED BY <3>1, <3>2, <3>3
  <2>7. counters' \in 0..MaxCounters
    BY <2>2, <2>3, CountersType
  <2> QED BY <2>5, <2>6, <2>7
<1>3. CASE HeadProceeds
  <2>1. TheHead \in Request /\ Queue(Served) # <<>>
    BY <1>3, HeadType DEF HeadProceeds
  <2>3. Commanded(TheHead) \in Request
    BY <2>1, MarkedType
  <2>4. <<>> \in Seq(Request)
    OBVIOUS
  <2>2. read_queue' \in Seq(Request) /\ write_queue' \in Seq(Request)
    BY <1>3, <2>1, <2>3, <2>4, HeadBecomesType DEF HeadProceeds
  <2> QED BY <1>3, <2>2 DEF HeadProceeds, SchedulerTypes
<1> QED BY <1>1, <1>2, <1>3, QueueTurnIs

LEMMA SchedulerTypesStep ==
  ASSUME SchedulerTypes, [Next]_vars
  PROVE  SchedulerTypes'
<1>1. ChannelTypeOK'
  BY SchedulerOnChannel, TypesKept DEF SchedulerTypes, QueuesTypeOK
<1>2. \A r \in Ranks : next'[r][LastBank].act \in Nat
  BY <1>1, LastBankType DEF ChannelTypeOK, Clocks
<1>3. \A x \in Nat : Later(x, skipit) \in Nat
  BY DEF Later, SchedulerTypes
<1>4. CASE Schedule
  <2>1. /\ turn' \in {"schedule", "fetch"} /\ fetches' = fetches /\ others' = others
        /\ MITIGATION_MODE' = MITIGATION_MODE
    BY <1>4 DEF Schedule
  <2>5. epochs' \in 0..MaxEpochs
    <3>1. epochs' = epochs \/ (epochs < MaxEpochs /\ epochs' = epochs + 1)
      BY <1>4 DEF Schedule
    <3>2. epochs \in 0..MaxEpochs /\ MaxEpochs \in Nat
      BY FcfsAssumption DEF SchedulerTypes
    <3> QED BY <3>1, <3>2
  <2>2. epoch_moves' \in [Ranks -> Nat] /\ prob_epoch' \in [Ranks -> Nat]
    BY <1>4, ScheduleIs
  <2>3. /\ read_queue' \in Seq(Request) /\ write_queue' \in Seq(Request)
        /\ drain_writes' \in BOOLEAN /\ delay_stall' \in [Ranks -> 0..2] /\ skipit' \in Nat
        /\ counters' \in 0..MaxCounters
    <3>1. CASE Waiting
      BY <3>1 DEF Waiting, queues, SchedulerTypes, QueuesTypeOK
    <3>2. CASE PeriodTurn
      BY <1>2, <1>3, <3>2 DEF PeriodTurn, MoveAndSkip, queues, SchedulerTypes, QueuesTypeOK
    <3>3. CASE OrderTurn
      <4>1. PICK r \in Ranks : delay_stall[r] > 0 /\ IssueOrder(r)
        BY <3>3 DEF OrderTurn
      <4>2. /\ delay_stall' \in [Ranks -> 0..2]
            /\ skipit' = skipit \/ skipit' = Later(next'[r][LastBank].act, skipit)
        BY <4>1, OrderIs
      <4> QED BY <1>2, <1>3, <3>3, <4>2 DEF OrderTurn, queues, SchedulerTypes, QueuesTypeOK
    <3>4. CASE QueueTurn
      <4>1. drain_writes' \in BOOLEAN /\ skipit' = skipit
        BY <3>4, QueueTurnIs DEF QueueTurn, Draining, SchedulerTypes, QueuesTypeOK
      <4> QED BY <3>4, <4>1, QueueTurnTypes DEF SchedulerTypes
    <3> QED BY <1>4, <3>1, <3>2, <3>3, <3>4, ScheduleIs
  <2>4. fetches' \in 0..MaxFetches /\ others' \in 0..MaxOthers /\ MITIGATION_MODE' \in Modes
    BY <2>1 DEF SchedulerTypes, QueuesTypeOK
  <2> QED BY <1>1, <2>1, <2>2, <2>3, <2>4, <2>5 DEF SchedulerTypes, QueuesTypeOK
<1>5. CASE Fetch
  <2>1. read_queue' \in Seq(Request) /\ write_queue' \in Seq(Request)
    <3>1. read_queue \in Seq(Request) /\ write_queue \in Seq(Request)
      BY DEF SchedulerTypes, QueuesTypeOK
    <3>2. PICK q \in Request, w \in Request :
            /\ read_queue' \in {read_queue, Append(read_queue, q)}
            /\ write_queue' \in {write_queue, Append(write_queue, w)}
      BY <1>5 DEF Fetch, Arrive, New
    <3>3. \A s \in Seq(Request), n \in Request : Append(s, n) \in Seq(Request)
      OBVIOUS
    <3> QED BY <3>1, <3>2, <3>3, Zenon
  <2>2. fetches' \in 0..MaxFetches /\ drain_writes' = drain_writes /\ turn' = turn
    BY <1>5, QueuesAssumption DEF Fetch, Arrive, SchedulerTypes, QueuesTypeOK
  <2> QED BY <1>1, <1>5, <2>1, <2>2 DEF Fetch, orders, SchedulerTypes, QueuesTypeOK
<1>6. CASE OthersMove
  <2>1. skipit' \in Nat /\ others' \in 0..MaxOthers
    <3>1. T_RP + T_MOVE \in Nat
      BY TimingTypes
    <3> QED BY <1>3, <1>6, <3>1, FcfsAssumption DEF OthersMove, SchedulerTypes
  <2> QED BY <1>1, <1>6, <2>1 DEF OthersMove, queueVars, queues, SchedulerTypes, QueuesTypeOK
<1>9. CASE OthersAsk
  <2>1. PICK reads \in CounterQueues(TRUE), writes \in CounterQueues(TRUE) :
          /\ CountersLand(reads, writes)
          /\ read_queue' = read_queue \o reads
          /\ write_queue' = write_queue \o writes
    BY <1>9 DEF OthersAsk
  <2>2. reads \in Seq(Request) /\ writes \in Seq(Request)
    BY CounterQueueIs
  <2>3. read_queue' \in Seq(Request) /\ write_queue' \in Seq(Request)
    BY <2>1, <2>2 DEF SchedulerTypes, QueuesTypeOK
  <2>4. counters' \in 0..MaxCounters
    BY <2>1, <2>2, CountersType
  <2> QED BY <1>1, <1>9, <2>3, <2>4 DEF OthersAsk, orders, SchedulerTypes, QueuesTypeOK
<1>7. CASE update_memory
  <2>1. read_queue' \in Seq(Request) /\ write_queue' \in Seq(Request)
    BY <1>7, UnservedType DEF update_memory, NewCycle, SchedulerTypes, QueuesTypeOK
  <2>2. skipit' \in Nat
    BY <1>7 DEF update_memory, Down, SchedulerTypes
  <2> QED BY <1>1, <1>7, <2>1, <2>2 DEF update_memory, NewCycle, SchedulerTypes, QueuesTypeOK
<1>8. CASE UNCHANGED vars
  BY <1>1, <1>8 DEF vars, queueVars, queues, orders, SchedulerTypes, QueuesTypeOK
<1> QED BY <1>4, <1>5, <1>6, <1>7, <1>8, <1>9 DEF Next

LEMMA SchedulerInit ==
  ASSUME Init PROVE SchedulerTypes
<1>1. ChannelTypeOK
  BY InitialTypes DEF Init, QueuesInit
<1>2. 0 \in 0..MaxEpochs /\ 0 \in 0..MaxOthers /\ 0 \in 0..MaxFetches /\ 0 \in 0..MaxCounters
  BY FcfsAssumption, QueuesAssumption
<1>3. <<>> \in Seq(Request)
  OBVIOUS
<1>4. read_queue \in Seq(Request) /\ write_queue \in Seq(Request)
  BY <1>3 DEF Init, QueuesInit
<1>5. QueuesTypeOK
  BY <1>1, <1>2, <1>4 DEF Init, QueuesInit, QueuesTypeOK
<1>6. /\ delay_stall \in [Ranks -> 0..2] /\ skipit \in Nat
      /\ prob_epoch \in [Ranks -> Nat] /\ epoch_moves \in [Ranks -> Nat]
  BY DEF Init
<1> QED BY <1>2, <1>5, <1>6 DEF Init, SchedulerTypes

LEMMA SchedulerTypesKept == Spec => []SchedulerTypes
<1>1. Init => SchedulerTypes
  BY SchedulerInit
<1>2. SchedulerTypes /\ [Next]_vars => SchedulerTypes'
  BY SchedulerTypesStep
<1> QED BY <1>1, <1>2, PTL DEF Spec

\* The scheduler uses the channel only through its interface, with requests and orders
\* that the channel accepts: whatever is proved of the channel holds of it.
THEOREM SchedulerDrivesChannel == Spec => ChannelSafety
<1>1. Init => ChannelInit
  BY DEF Init, QueuesInit
<1>2. SchedulerTypes /\ [Next]_vars => [ChannelNext]_channelVars
  BY SchedulerOnChannel
<1> QED BY <1>1, <1>2, SchedulerTypesKept, PTL DEF Spec, ChannelSafety

\* Data bursts under FCFS, with its mitigations, do not overlap.
THEOREM BusExclusiveUnderFcfs == Spec => DataBusExclusive
BY SchedulerDrivesChannel, BusExclusive, PTL

-----------------------------------------------------------------------------
(* The fate of the ordered mitigations. *)

\* The cycles that one order stands for.
OrderTime == CASE MITIGATION_MODE \in {1, 2} /\ ~ RQENABLE -> T_SWAP
               [] MITIGATION_MODE = 3 -> T_STALL
               [] OTHER -> T_MOVE

LEMMA MitigationOccupies ==
  ASSUME ChannelTypeOK, NEW r \in Ranks, NEW d \in Nat, NEW rw, Mitigate(r, d, rw)
  PROVE  occupied' = [occupied EXCEPT ![r] = Extra(r) + d] /\ occupied'[r] >= d
<1>1. occupied' = [occupied EXCEPT ![r] = Extra(r) + d] /\ Extra(r) \in Nat
  BY ExtraType DEF Mitigate
<1>2. occupied'[r] = Extra(r) + d
  BY <1>1 DEF ChannelTypeOK
<1> QED BY <1>1, <1>2

LEMMA OrderLasts ==
  ASSUME SchedulerTypes, NEW r \in Ranks, delay_stall[r] > 0, IssueOrder(r)
  PROVE  /\ delay_stall'[r] < delay_stall[r]
         /\ occupied'[r] >= (delay_stall[r] - delay_stall'[r]) * OrderTime
         /\ \A k \in Ranks \ {r} : delay_stall'[k] = delay_stall[k]
<1> DEFINE n == delay_stall[r]
<1>1. /\ n \in 1..2 /\ ChannelTypeOK /\ delay_stall \in [Ranks -> 0..2]
      /\ T_SWAP \in Nat /\ T_MOVE \in Nat /\ T_STALL \in Nat
  BY TimingTypes DEF SchedulerTypes, QueuesTypeOK
<1>2. ASSUME NEW t \in Nat, NEW m \in 1..2, NEW rw, Mitigate(r, t * m, rw)
      PROVE  occupied'[r] >= m * t
  <2>1. t * m \in Nat /\ t * m = m * t
    BY <1>2
  <2> QED BY <1>1, <1>2, <2>1, MitigationOccupies
<1>3. CASE /\ MITIGATION_MODE \in {1, 2}
           /\ IF RQENABLE THEN Move(r, n) ELSE Swap(r, n)
           /\ delay_stall' = [delay_stall EXCEPT ![r] = 0]
  <2>1. delay_stall'[r] = 0 /\ \A k \in Ranks \ {r} : delay_stall'[k] = delay_stall[k]
    BY <1>1, <1>3
  <2>2. OrderTime = IF RQENABLE THEN T_MOVE ELSE T_SWAP
    BY <1>3 DEF OrderTime
  <2>3. occupied'[r] >= n * OrderTime
    BY <1>1, <1>2, <1>3, <2>2 DEF Move, Swap
  <2>4. n - 0 = n /\ 0 < n
    BY <1>1
  <2> QED BY <2>1, <2>3, <2>4
<1>4. CASE /\ MITIGATION_MODE = 3
           /\ Stall(r, n)
           /\ delay_stall' = [delay_stall EXCEPT ![r] = 0]
  <2>1. delay_stall'[r] = 0 /\ \A k \in Ranks \ {r} : delay_stall'[k] = delay_stall[k]
    BY <1>1, <1>4
  <2>2. OrderTime = T_STALL
    BY <1>4 DEF OrderTime
  <2>3. occupied'[r] >= n * OrderTime
    BY <1>1, <1>2, <1>4, <2>2 DEF Stall
  <2>4. n - 0 = n /\ 0 < n
    BY <1>1
  <2> QED BY <2>1, <2>3, <2>4
<1>5. CASE /\ MITIGATION_MODE \in {4, 5}
           /\ Move(r, n)
           /\ delay_stall' = [delay_stall EXCEPT ![r] = 0]
  <2>1. delay_stall'[r] = 0 /\ \A k \in Ranks \ {r} : delay_stall'[k] = delay_stall[k]
    BY <1>1, <1>5
  <2>2. OrderTime = T_MOVE
    BY <1>5 DEF OrderTime
  <2>3. occupied'[r] >= n * OrderTime
    BY <1>1, <1>2, <1>5, <2>2 DEF Move
  <2>4. n - 0 = n /\ 0 < n
    BY <1>1
  <2> QED BY <2>1, <2>3, <2>4
<1>6. CASE /\ MITIGATION_MODE \in {6, 7}
           /\ Move(r, 1)
           /\ delay_stall' = [delay_stall EXCEPT ![r] = @ - 1]
  <2>1. delay_stall'[r] = n - 1 /\ \A k \in Ranks \ {r} : delay_stall'[k] = delay_stall[k]
    BY <1>1, <1>6
  <2>2. OrderTime = T_MOVE
    BY <1>6 DEF OrderTime
  <2>3. 1 \in 1..2
    OBVIOUS
  <2>4. occupied'[r] >= 1 * OrderTime
    BY <1>1, <1>2, <1>6, <2>2, <2>3 DEF Move
  <2>5. n - (n - 1) = 1 /\ n - 1 < n
    BY <1>1
  <2> QED BY <2>1, <2>4, <2>5
<1> QED BY <1>3, <1>4, <1>5, <1>6 DEF IssueOrder, MoveAndSkip

\* Nothing is scheduled while an order waits.
LEMMA OrdersByTurns ==
  ASSUME SchedulerTypes, [Next]_vars, delay_stall' # delay_stall
  PROVE  OrderTurn \/ ((\A r \in Ranks : delay_stall[r] = 0) /\ HeadActivates)
<1>1. Schedule
  BY DEF Next, Fetch, OthersMove, OthersAsk, update_memory, vars, orders
<1>2. CASE QueueTurn
  BY <1>2, QueueTurnIs DEF QueueTurn, HeadWaits, HeadProceeds
<1> QED BY <1>1, <1>2, ScheduleIs DEF Waiting, PeriodTurn

\* An order leaves delay_stall only for a mitigation of that length that its rank starts
\* in the same cycle, and no order is overwritten by another.
THEOREM OrdersIssued == Spec => OrdersAreIssued
<1>1. ASSUME SchedulerTypes, [Next]_vars, NEW r \in Ranks, delay_stall'[r] # delay_stall[r]
      PROVE  \/ delay_stall[r] = 0 /\ command_issued'
             \/ /\ delay_stall'[r] < delay_stall[r]
                /\ occupied'[r] >= (delay_stall[r] - delay_stall'[r]) * OrderTime
  <2>1. delay_stall' # delay_stall
    BY <1>1
  <2>2. CASE OrderTurn
    <3>1. PICK k \in Ranks : delay_stall[k] > 0 /\ IssueOrder(k)
      BY <2>2 DEF OrderTurn
    <3>2. k = r
      BY <1>1, <3>1, OrderLasts
    <3> QED BY <1>1, <3>1, <3>2, OrderLasts
  <2>3. CASE (\A k \in Ranks : delay_stall[k] = 0) /\ HeadActivates
    BY <2>3 DEF HeadActivates, Activate, Command
  <2> QED BY <1>1, <2>1, <2>2, <2>3, OrdersByTurns
<1>2. SchedulerTypes /\ [Next]_vars =>
        [\A r \in Ranks : delay_stall'[r] # delay_stall[r] =>
           \/ delay_stall[r] = 0 /\ command_issued'
           \/ /\ delay_stall'[r] < delay_stall[r]
              /\ occupied'[r] >= (delay_stall[r] - delay_stall'[r]) * OrderTime]_vars
  BY <1>1
<1> QED BY <1>2, SchedulerTypesKept, PTL DEF Spec, OrdersAreIssued, OrderTime

-----------------------------------------------------------------------------
(* Activations and mitigations. *)

\* What the .vi files and the lengths of schedule_fcfs() give: every mitigation is at
\* most as long as the burst of refreshes.  The stall of BlockHammer is not.
MitigationsFit ==
  /\ T_SWAP <= Burst * T_RFC
  /\ 2 * T_MOVE <= Burst * T_RFC
  /\ 3 \in Modes => T_STALL <= Burst * T_RFC

\* schedule_fcfs() issues no refresh of its own and never powers down.
RanksAwake ==
  \A r \in Ranks : num_issued[r] = 0 /\ \A b \in Banks : state[r][b] \in PoweredUp

\* Only two moves are ordered at once.
OrdersFit ==
  \A r \in Ranks : delay_stall[r] = 2 =>
    MITIGATION_MODE \in {6, 7} \/ (MITIGATION_MODE \in {1, 2} /\ RQENABLE)

\* next_act covers the mitigation under way, which is over before the forced refreshes
\* of its rank are, wherever it started.
OccupationCovered ==
  \A r \in Ranks :
    /\ occupied[r] <= T_RP + Burst * T_RFC
    /\ \A b \in Banks : next[r][b].act >= occupied[r]

LEMMA BurstType == Burst * T_RFC \in Nat
BY DramAssumption, TimingTypes

LEMMA AwakeExtra ==
  ASSUME RanksAwake, NEW r \in Ranks PROVE Extra(r) \in Nat /\ Extra(r) <= T_RP
<1>1. state[r][0] \in PoweredUp
  BY DramAssumption DEF RanksAwake
<1>2. Extra(r) = IF \E b \in Banks : state[r][b] = "ROW_ACTIVE" THEN T_RP ELSE 0
  BY <1>1 DEF Extra, PoweredUp, ClosedStates
<1> QED BY <1>2, TimingTypes

\* The clocks of an open mitigation can only be moved on.
LEMMA OccupationUntouched ==
  ASSUME ChannelTypeOK, ChannelTypeOK', OccupationCovered, UNCHANGED occupied,
         \A q \in Ranks, c \in Banks : next'[q][c].act >= next[q][c].act
  PROVE  OccupationCovered'
<1> SUFFICES ASSUME NEW q \in Ranks
             PROVE  /\ occupied[q] <= T_RP + Burst * T_RFC
                    /\ \A c \in Banks : next'[q][c].act >= occupied[q]
  BY DEF OccupationCovered
<1>1. occupied[q] <= T_RP + Burst * T_RFC
  BY DEF OccupationCovered
<1>2. ASSUME NEW c \in Banks PROVE next'[q][c].act >= occupied[q]
  <2>1. /\ next[q][c].act \in Nat /\ next'[q][c].act \in Nat /\ occupied[q] \in Nat
        /\ next'[q][c].act >= next[q][c].act
    BY DEF ChannelTypeOK, Clocks
  <2>2. next[q][c].act >= occupied[q]
    BY DEF OccupationCovered
  <2> QED BY <2>1, <2>2
<1> QED BY <1>1, <1>2

LEMMA MitigationCovered ==
  ASSUME ChannelTypeOK, RanksAwake, OccupationCovered, NEW r \in Ranks,
         NEW d \in Nat, NEW rw \in Nat, d <= Burst * T_RFC, Mitigate(r, d, rw)
  PROVE  OccupationCovered'
<1>1. /\ Extra(r) \in Nat /\ Extra(r) <= T_RP
      /\ occupied' = [occupied EXCEPT ![r] = Extra(r) + d]
  BY AwakeExtra, MitigationOccupies
<1>3. ASSUME NEW q \in Ranks, q # r
      PROVE  /\ occupied'[q] <= T_RP + Burst * T_RFC
             /\ \A c \in Banks : next'[q][c].act >= occupied'[q]
  <2>1. occupied'[q] = occupied[q]
    BY <1>1, <1>3
  <2>2. \A c \in Banks : next'[q][c].act = next[q][c].act
    BY <1>3, MitigateEffect DEF Waits
  <2> QED BY <2>1, <2>2 DEF OccupationCovered
<1>4. occupied'[r] = Extra(r) + d
  BY <1>1 DEF ChannelTypeOK
<1>5. occupied'[r] <= T_RP + Burst * T_RFC
  BY <1>1, <1>4, TimingTypes, BurstType
<1>6. ASSUME NEW c \in Banks PROVE next'[r][c].act >= occupied'[r]
  <2>1. next[r][c].act \in Nat /\ Extra(r) + d \in Int
    BY <1>1, BankType
  <2>2. Waits(r, c, RefreshClocks, Extra(r) + d)
    BY MitigateEffect
  <2>3. next'[r][c].act = Later(next[r][c].act, Extra(r) + d)
    BY <2>2 DEF Waits, RefreshClocks
  <2> QED BY <1>4, <2>1, <2>3, LaterMax
<1> QED BY <1>3, <1>5, <1>6 DEF OccupationCovered

\* The forced refreshes of a rank that has issued none itself outlast any mitigation.
LEMMA ForcedOutlasts ==
  ASSUME ChannelTypeOK, DeadlineKept, RanksAwake, NEW r \in Ranks, MustForce(r)
  PROVE  /\ toCompletion[r] - 1 \in Nat
         /\ toCompletion[r] - 1 >= T_RP + Burst * T_RFC
<1>1. toCompletion[r] \in Int /\ toCompletion[r] >= 1
  <2>1. toCompletion[r] \in 1..Window
    BY DEF ChannelTypeOK
  <2> QED BY <2>1, WindowType
<1>2. 1 <= IssueDeadline(toCompletion[r], 0)
  BY DEF DeadlineKept, RanksAwake, MustForce
<1>3. Burst - 0 = Burst
  BY DramAssumption
<1>4. 1 <= toCompletion[r] - T_RP - Burst * T_RFC
  BY <1>2, <1>3 DEF IssueDeadline
<1> QED BY <1>1, <1>4, TimingTypes, BurstType

LEMMA OccupationTick ==
  ASSUME ChannelTypeOK, DeadlineKept, RanksAwake, OccupationCovered, Tick
  PROVE  OccupationCovered'
<1>2. ASSUME NEW q \in Ranks
      PROVE  /\ occupied'[q] <= T_RP + Burst * T_RFC
             /\ \A c \in Banks : next'[q][c].act >= occupied'[q]
  <2>1. /\ occupied[q] \in Nat /\ occupied[q] <= T_RP + Burst * T_RFC
        /\ occupied'[q] = Down(occupied[q])
    BY DEF ChannelTypeOK, OccupationCovered, Tick
  <2>2. occupied'[q] <= T_RP + Burst * T_RFC /\ occupied'[q] \in Nat
    BY <2>1, TimingTypes, BurstType DEF Down
  <2>3. ASSUME NEW c \in Banks PROVE next'[q][c].act >= occupied'[q]
    <3>1. /\ next[q][c].act \in Nat /\ next[q][c].act >= occupied[q]
          /\ next'[q][c].act = IF MustForce(q) THEN toCompletion[q] - 1
                               ELSE Down(next[q][c].act)
      BY BankType, TickEffect DEF OccupationCovered
    <3>2. CASE MustForce(q)
      <4>1. toCompletion[q] - 1 \in Nat /\ toCompletion[q] - 1 >= T_RP + Burst * T_RFC
        BY <3>2, ForcedOutlasts
      <4> QED BY <2>2, <3>1, <3>2, <4>1, TimingTypes, BurstType
    <3>3. CASE ~ MustForce(q)
      BY <2>1, <3>1, <3>3 DEF Down
    <3> QED BY <3>2, <3>3
  <2> QED BY <2>2, <2>3
<1> QED BY <1>2 DEF OccupationCovered

LEMMA HeadKeepsAwake ==
  ASSUME SchedulerTypes, RanksAwake, HeadActivates \/ HeadProceeds
  PROVE  RanksAwake'
<1>1. ChannelTypeOK /\ TheHead.rank \in Ranks /\ TheHead.bank \in Banks
  BY HeadType DEF HeadActivates, HeadProceeds, SchedulerTypes, QueuesTypeOK
<1>2. \/ state' = state
      \/ \E s \in PoweredUp : state' = [state EXCEPT ![TheHead.rank][TheHead.bank] = s]
  BY DEF HeadActivates, HeadProceeds, Activate, Column, Read, Write, Precharge, PoweredUp,
         ClosedStates
<1>3. num_issued' = num_issued
  BY DEF HeadActivates, HeadProceeds, Activate, Column, Read, Write, Precharge, refreshVars
<1>4. state \in [Ranks -> [Banks -> States]]
  BY <1>1 DEF ChannelTypeOK
<1>5. ASSUME NEW q \in Ranks, NEW c \in Banks PROVE state'[q][c] \in PoweredUp
  <2>1. state[q][c] \in PoweredUp
    BY DEF RanksAwake
  <2> QED BY <1>1, <1>2, <1>4, <2>1
<1> QED BY <1>3, <1>5 DEF RanksAwake

\* No rank ever sleeps or refreshes by a command.
LEMMA AwakeStep ==
  ASSUME SchedulerTypes, RanksAwake, [Next]_vars
  PROVE  RanksAwake'
<1>1. ChannelTypeOK
  BY DEF SchedulerTypes, QueuesTypeOK
<1>2. ASSUME NEW r \in Ranks, NEW m \in DelayMuls, Swap(r, m) \/ Move(r, m) \/ Stall(r, m)
      PROVE  RanksAwake'
  <2>1. PICK d \in Nat, rw \in Nat : Mitigate(r, d, rw)
    BY <1>2, MitigationIs
  <2> QED BY <1>1, <2>1 DEF RanksAwake, Mitigate, Busy, refreshVars, ChannelTypeOK, PoweredUp,
                            ClosedStates
<1>3. CASE UNCHANGED channelVars
  BY <1>3 DEF channelVars, bankVars, refreshVars, RanksAwake
<1>4. CASE PeriodTurn
  <2>1. 1 \in DelayMuls /\ \E r \in Ranks : Move(r, 1)
    BY <1>4 DEF PeriodTurn, MoveAndSkip, DelayMuls
  <2> QED BY <1>2, <2>1
<1>5. CASE OrderTurn
  <2>1. PICK r \in Ranks : delay_stall[r] > 0 /\ IssueOrder(r)
    BY <1>5 DEF OrderTurn
  <2> QED BY <1>2, <2>1, OrderIs
<1>6. CASE QueueTurn
  BY <1>3, <1>6, QueueTurnIs, HeadKeepsAwake DEF HeadWaits, NoCommand
<1>7. CASE Tick
  BY <1>7 DEF RanksAwake, Tick, PoweredUp, ClosedStates
<1>8. CASE Schedule
  BY <1>3, <1>4, <1>5, <1>6, <1>8, ScheduleIs DEF Waiting, NoCommand
<1> QED BY <1>3, <1>7, <1>8 DEF Next, Fetch, Arrive, OthersMove, OthersAsk, update_memory, NewCycle, vars,
                              queueVars

LEMMA HeadKeepsOccupation ==
  ASSUME SchedulerTypes, OccupationCovered, HeadActivates \/ HeadProceeds
  PROVE  OccupationCovered'
<1>1. ChannelTypeOK /\ TheHead.rank \in Ranks /\ TheHead.bank \in Banks /\ TheHead.row \in Rows
  BY HeadType DEF HeadActivates, HeadProceeds, SchedulerTypes, QueuesTypeOK
<1> DEFINE r == TheHead.rank
           b == TheHead.bank
<1> HIDE DEF r, b
<1>2. CASE Activate(r, b, TheHead.row)
  <2>1. UNCHANGED occupied
    BY <1>2 DEF Activate
  <2>2. ChannelTypeOK' /\ \A q \in Ranks, c \in Banks :
          next'[q][c].act = IF q # r THEN next[q][c].act
                            ELSE Later(next[q][c].act, IF c = b THEN T_RC ELSE T_RRD)
    BY <1>1, <1>2, ActivateEffect DEF r, b
  <2>3. ASSUME NEW q \in Ranks, NEW c \in Banks PROVE next'[q][c].act >= next[q][c].act
    <3>1. next[q][c].act \in Nat
      BY <1>1, BankType
    <3>2. Later(next[q][c].act, T_RC) >= next[q][c].act
          /\ Later(next[q][c].act, T_RRD) >= next[q][c].act
      BY <3>1, TimingTypes DEF Later
    <3> QED BY <2>2, <3>1, <3>2
  <2> QED BY <1>1, <2>1, <2>2, <2>3, OccupationUntouched
<1>3. CASE Read(r, b) \/ Write(r, b) \/ Precharge(r, b)
  <2>1. UNCHANGED occupied
    BY <1>3 DEF Read, Write, Precharge, history
  <2>3. ChannelTypeOK'
    BY <1>1, <1>3, ReadEffect, WriteEffect, PrechargeEffect DEF r, b
  <2>4. ASSUME NEW q \in Ranks, NEW c \in Banks PROVE next'[q][c].act >= next[q][c].act
    <3>1. CASE Read(r, b)
      BY <1>1, <3>1, ReadEffect, ActNotEarlier, TimingTypes DEF r, b
    <3>2. CASE Write(r, b)
      BY <1>1, <3>2, WriteEffect, ActNotEarlier, TimingTypes DEF r, b
    <3>3. CASE Precharge(r, b)
      BY <1>1, <3>3, PrechargeEffect, ActNotEarlier, TimingTypes DEF r, b
    <3> QED BY <1>3, <3>1, <3>2, <3>3
  <2> QED BY <1>1, <2>1, <2>3, <2>4, OccupationUntouched
<1> QED BY <1>2, <1>3 DEF HeadActivates, HeadProceeds, Column, r, b

LEMMA OrderFits ==
  ASSUME MitigationsFit, SchedulerTypes, OrdersFit, NEW r \in Ranks, delay_stall[r] > 0,
         IssueOrder(r)
  PROVE  \E d \in Nat, rw \in Nat : d <= Burst * T_RFC /\ Mitigate(r, d, rw)
<1> DEFINE n == delay_stall[r]
<1>1. /\ n \in 1..2 /\ MITIGATION_MODE \in Modes
      /\ n = 2 => MITIGATION_MODE \in {6, 7} \/ (MITIGATION_MODE \in {1, 2} /\ RQENABLE)
  BY DEF SchedulerTypes, OrdersFit
<1>2. /\ T_SWAP * 1 = T_SWAP /\ T_MOVE * 1 = T_MOVE /\ T_STALL * 1 = T_STALL
      /\ T_SWAP \in Nat /\ T_MOVE \in Nat /\ T_STALL \in Nat /\ T_RCD \in Nat
      /\ T_MOVE * 2 \in Nat /\ T_MOVE * 2 <= Burst * T_RFC /\ T_MOVE <= Burst * T_RFC
  BY TimingTypes, BurstType DEF MitigationsFit
<1>3. ASSUME NEW m \in 1..2, Move(r, m)
      PROVE  \E d \in Nat, rw \in Nat : d <= Burst * T_RFC /\ Mitigate(r, d, rw)
  <2>1. T_MOVE * m \in Nat /\ T_MOVE * m <= Burst * T_RFC
    BY <1>2
  <2> QED BY <1>3, <2>1 DEF Move
<1>4. ASSUME Swap(r, 1)
      PROVE  \E d \in Nat, rw \in Nat : d <= Burst * T_RFC /\ Mitigate(r, d, rw)
  <2>1. Mitigate(r, T_SWAP, 0) \/ Mitigate(r, T_SWAP, T_RCD)
    BY <1>2, <1>4 DEF Swap
  <2> QED BY <1>2, <2>1 DEF MitigationsFit
<1>5. CASE MITIGATION_MODE \in {1, 2} /\ IF RQENABLE THEN Move(r, n) ELSE Swap(r, n)
  <2>1. CASE RQENABLE
    BY <1>1, <1>3, <1>5, <2>1
  <2>2. CASE ~ RQENABLE
    <3>1. n = 1
      BY <1>1, <1>5, <2>2
    <3> QED BY <1>4, <1>5, <2>2, <3>1
  <2> QED BY <2>1, <2>2
<1>6. CASE MITIGATION_MODE = 3 /\ Stall(r, n)
  <2>1. n = 1
    BY <1>1, <1>6
  <2>2. Mitigate(r, T_STALL, 0) /\ T_STALL <= Burst * T_RFC
    BY <1>1, <1>2, <1>6, <2>1 DEF Stall, MitigationsFit
  <2> QED BY <1>2, <2>2
<1>7. CASE MITIGATION_MODE \in {4, 5} /\ Move(r, n)
  BY <1>1, <1>3, <1>7
<1>8. CASE MITIGATION_MODE \in {6, 7} /\ Move(r, 1)
  BY <1>3, <1>8
<1> QED BY <1>5, <1>6, <1>7, <1>8 DEF IssueOrder, MoveAndSkip

\* The new orders are as long as the mode allows.
LEMMA NewOrderFits ==
  ASSUME SchedulerTypes, OrdersFit, HeadActivates
  PROVE  \A q \in Ranks : delay_stall'[q] = 2 =>
           MITIGATION_MODE \in {6, 7} \/ (MITIGATION_MODE \in {1, 2} /\ RQENABLE)
<1>1. TheHead.rank \in Ranks /\ delay_stall \in [Ranks -> 0..2]
  BY HeadType DEF HeadActivates, SchedulerTypes
<1>2. \/ delay_stall' = delay_stall
      \/ \E n \in Ordered : delay_stall' = [delay_stall EXCEPT ![TheHead.rank] = n]
  BY DEF HeadActivates
<1>3. \A n \in Ordered : n = 2 =>
        MITIGATION_MODE \in {6, 7} \/ (MITIGATION_MODE \in {1, 2} /\ RQENABLE)
  BY DEF Ordered
<1> QED BY <1>1, <1>2, <1>3 DEF OrdersFit

LEMMA OrdersFitStep ==
  ASSUME SchedulerTypes, OrdersFit, [Next]_vars
  PROVE  OrdersFit'
<1>1. MITIGATION_MODE' = MITIGATION_MODE
  BY DEF Next, Schedule, Fetch, OthersMove, OthersAsk, update_memory, vars
<1>2. CASE delay_stall' = delay_stall
  BY <1>1, <1>2 DEF OrdersFit
<1>3. CASE delay_stall' # delay_stall
  <2>1. CASE HeadActivates
    BY <1>1, <2>1, NewOrderFits DEF OrdersFit
  <2>2. CASE OrderTurn
    <3>1. PICK r \in Ranks : delay_stall[r] > 0 /\ IssueOrder(r)
      BY <2>2 DEF OrderTurn
    <3>2. /\ delay_stall'[r] < delay_stall[r] /\ delay_stall[r] \in 0..2
          /\ \A k \in Ranks \ {r} : delay_stall'[k] = delay_stall[k]
      BY <3>1, OrderLasts DEF SchedulerTypes
    <3>3. delay_stall'[r] # 2
      <4>1. ~ (2 < delay_stall[r])
        BY <3>2
      <4> QED BY <3>2, <4>1, Zenon
    <3> QED BY <1>1, <3>2, <3>3 DEF OrdersFit
  <2> QED BY <1>3, <2>1, <2>2, OrdersByTurns
<1> QED BY <1>2, <1>3

LEMMA OccupationStep ==
  ASSUME MitigationsFit, SchedulerTypes, DeadlineKept, RanksAwake, OrdersFit, OccupationCovered,
         [Next]_vars
  PROVE  OccupationCovered'
<1>1. ChannelTypeOK
  BY DEF SchedulerTypes, QueuesTypeOK
<1>2. CASE UNCHANGED channelVars
  BY <1>2 DEF channelVars, bankVars, history, OccupationCovered
<1>3. CASE PeriodTurn
  <2>1. PICK r \in Ranks : Mitigate(r, T_MOVE * 1, 0)
    BY <1>3 DEF PeriodTurn, MoveAndSkip, Move
  <2>2. T_MOVE * 1 \in Nat /\ T_MOVE * 1 <= Burst * T_RFC
    BY TimingTypes, BurstType DEF MitigationsFit
  <2> QED BY <1>1, <2>1, <2>2, MitigationCovered
<1>4. CASE OrderTurn
  <2>1. PICK r \in Ranks : delay_stall[r] > 0 /\ IssueOrder(r)
    BY <1>4 DEF OrderTurn
  <2>2. \E d \in Nat, rw \in Nat : d <= Burst * T_RFC /\ Mitigate(r, d, rw)
    BY <2>1, OrderFits
  <2> QED BY <1>1, <2>2, MitigationCovered
<1>5. CASE QueueTurn
  BY <1>2, <1>5, QueueTurnIs, HeadKeepsOccupation DEF HeadWaits, NoCommand
<1>6. CASE update_memory
  BY <1>1, <1>6, OccupationTick DEF update_memory, NewCycle
<1>7. CASE Schedule
  BY <1>2, <1>3, <1>4, <1>5, <1>7, ScheduleIs DEF Waiting, NoCommand
<1> QED BY <1>2, <1>6, <1>7 DEF Next, Fetch, Arrive, OthersMove, OthersAsk, vars, queueVars

LEMMA InitialOccupation == Init => RanksAwake /\ OrdersFit /\ OccupationCovered
<1>1. 0 <= T_RP + Burst * T_RFC
  BY TimingTypes, BurstType
<1>2. ASSUME Init PROVE RanksAwake /\ OrdersFit
  BY <1>2 DEF Init, QueuesInit, ChannelInit, PerBank, RanksAwake, OrdersFit, PoweredUp, ClosedStates
<1>3. ASSUME Init PROVE OccupationCovered
  <2>1. \A q \in Ranks : occupied[q] = 0 /\ \A c \in Banks : next[q][c].act = 0
    BY <1>3 DEF Init, QueuesInit, ChannelInit, PerBank, Delay, Clocks
  <2> QED BY <1>1, <2>1 DEF OccupationCovered
<1> QED BY <1>2, <1>3

\* An activation is a turn of the scheduler in which nothing is ordered.
LEMMA ActivatedByTurn ==
  ASSUME SchedulerTypes, [Next]_vars, NEW r \in Ranks, NEW b \in Banks, Activated(r, b)
  PROVE  delay_stall[r] = 0 /\ next[r][b].act = 0
<1>1. ChannelTypeOK /\ [ChannelNext]_channelVars
  BY SchedulerOnChannel DEF SchedulerTypes, QueuesTypeOK
<1>2. next[r][b].act = 0 /\ \E row \in Rows : Activate(r, b, row)
  BY <1>1, ActivatedReady
<1>3. command_issued' /\ ~ command_issued
  BY <1>2 DEF Activate, is_activate_allowed, CommandSlot, Command
<1>4. Schedule
  BY <1>3 DEF Next, Fetch, Arrive, OthersMove, OthersAsk, update_memory, NewCycle, Tick, vars, queueVars,
              channelVars
<1>5. sinceAct' # sinceAct
  BY <1>1, TimingTypes DEF Activated
<1>6. ~ Waiting
  BY <1>5 DEF Waiting, NoCommand, channelVars, history
<1>7. ~ PeriodTurn
  BY <1>5 DEF PeriodTurn, MoveAndSkip, Move, Mitigate
<1>8. ~ OrderTurn
  <2> SUFFICES ASSUME OrderTurn PROVE FALSE
    OBVIOUS
  <2>1. PICK q \in Ranks : delay_stall[q] > 0 /\ IssueOrder(q)
    BY DEF OrderTurn
  <2>2. \E m \in DelayMuls : Swap(q, m) \/ Move(q, m) \/ Stall(q, m)
    BY <2>1, OrderIs
  <2> QED BY <1>5, <2>2 DEF Swap, Move, Stall, Mitigate
<1>9. QueueTurn
  BY <1>4, <1>6, <1>7, <1>8, ScheduleIs
<1> QED BY <1>2, <1>9 DEF QueueTurn

\* A row is only activated in a rank in which no mitigation is ordered or under way, also
\* when a forced refresh has overwritten the clocks that the mitigation had set.
THEOREM ActivatedAfterMitigations ==
  ASSUME MitigationsFit
  PROVE  Spec => ActivatedAfterMitigation
<1> DEFINE Kept == RanksAwake /\ OrdersFit /\ OccupationCovered
<1>1. Init => Kept
  BY InitialOccupation
<1>2. SchedulerTypes /\ DeadlineKept /\ Kept /\ [Next]_vars => Kept'
  BY AwakeStep, OccupationStep, OrdersFitStep
<1>3. ASSUME SchedulerTypes, OccupationCovered, [Next]_vars, NEW r \in Ranks, NEW b \in Banks,
             Activated(r, b)
      PROVE  delay_stall[r] = 0 /\ occupied[r] = 0
  <2>1. delay_stall[r] = 0 /\ next[r][b].act = 0
    BY <1>3, ActivatedByTurn
  <2>2. occupied[r] \in Nat /\ next[r][b].act >= occupied[r]
    BY <1>3 DEF OccupationCovered, SchedulerTypes, QueuesTypeOK, ChannelTypeOK
  <2> QED BY <2>1, <2>2
<1>4. SchedulerTypes /\ Kept /\ [Next]_vars =>
        [\A r \in Ranks, b \in Banks : Activated(r, b) =>
           delay_stall[r] = 0 /\ occupied[r] = 0]_vars
  BY <1>3
<1>5. Spec => []DeadlineKept
  BY SchedulerDrivesChannel, DeadlinesKept, PTL
<1> HIDE DEF Kept
<1> QED BY <1>1, <1>2, <1>4, <1>5, SchedulerTypesKept, PTL DEF Spec, ActivatedAfterMitigation

\* schedule_fcfs() leaves no power-down, so none too late, and the forced refreshes of every
\* rank start when its commands are over.
THEOREM ForcedQuietlyUnderFcfs == Spec => [](\A r \in Ranks : num_issued[r] = 0) /\ ForcedWhenQuiet
<1>1. Init => RanksAwake
  BY InitialOccupation
<1>2. Spec => []RanksAwake
  BY <1>1, AwakeStep, SchedulerTypesKept, PTL DEF Spec
<1>3. RanksAwake => \A r \in Ranks : num_issued[r] = 0
  BY DEF RanksAwake
<1>4. RanksAwake => [\A r \in Ranks, b \in Banks : Woken(r, b) =>
                       Fits(r, WakeTime(state[r][b]))]_channelVars
  BY DEF RanksAwake, Woken, PoweredUp, ClosedStates, PowerDowns
<1>5. Spec => PowerUpMeetsDeadline
  BY <1>2, <1>4, PTL DEF PowerUpMeetsDeadline
<1> QED BY <1>2, <1>3, <1>5, SchedulerDrivesChannel, ForcedQuietly, PTL

-----------------------------------------------------------------------------
(* The limits of the queues. *)

\* Only the head of a queue is ever served, and a request of the traces, once it stands
\* within the limit, only comes forward.
Placed(s, limit) ==
  /\ \A i \in 2..Len(s) : ~ s[i].served
  /\ \A i \in 1..Len(s) : s[i].fake \/ i <= limit
QueuesPlaced == Placed(read_queue, RQ_CAPACITY) /\ Placed(write_queue, WQ_CAPACITY)

\* What hydra() adds, behind everything else.
Added(more) == \A i \in 1..Len(more) : more[i].fake /\ ~ more[i].served /\ ~ more[i].tracker

LEMMA PlacedBehind ==
  ASSUME NEW s \in Seq(Request), NEW limit \in Nat, Placed(s, limit),
         NEW more \in Seq(Request), Added(more)
  PROVE  Placed(s \o more, limit)
<1> DEFINE t == s \o more
<1>1. /\ Len(t) = Len(s) + Len(more) /\ Len(s) \in Nat /\ Len(more) \in Nat
      /\ \A i \in 1..(Len(s) + Len(more)) : t[i] = IF i <= Len(s) THEN s[i] ELSE more[i - Len(s)]
  BY Concatenated
<1> HIDE DEF t
<1>2. \A i \in 1..(Len(s) + Len(more)) : ~ (i <= Len(s)) => i - Len(s) \in 1..Len(more)
  BY <1>1
<1>3. \A i \in 2..Len(t) : ~ t[i].served
  BY <1>1, <1>2 DEF Placed, Added
<1>4. ASSUME NEW i \in 1..Len(t) PROVE t[i].fake \/ i <= limit
  <2>1. CASE i <= Len(s)
    BY <1>1, <2>1 DEF Placed
  <2>2. CASE ~ (i <= Len(s))
    <3>1. t[i] = more[i - Len(s)] /\ i - Len(s) \in 1..Len(more)
      BY <1>1, <1>2, <2>2
    <3> QED BY <3>1 DEF Added
  <2> QED BY <2>1, <2>2
<1> QED BY <1>3, <1>4 DEF Placed, t

LEMMA PlacedHead ==
  ASSUME NEW s \in Seq(Request), s # <<>>, NEW limit \in Nat, Placed(s, limit),
         NEW q \in Request, q.fake = s[1].fake
  PROVE  Placed([s EXCEPT ![1] = q], limit) /\ [s EXCEPT ![1] = q] \in Seq(Request)
<1> DEFINE t == [s EXCEPT ![1] = q]
<1>1. /\ t \in Seq(Request) /\ Len(t) = Len(s) /\ Len(s) \in Nat \ {0}
      /\ \A i \in 1..Len(s) : t[i] = IF i = 1 THEN q ELSE s[i]
  OBVIOUS
<1> HIDE DEF t
<1>2. \A i \in 1..Len(s) : t[i].fake = s[i].fake
  BY <1>1
<1>3. \A i \in 2..Len(s) : t[i] = s[i]
  BY <1>1
<1> QED BY <1>1, <1>2, <1>3 DEF Placed, t

LEMMA PlacedArrival ==
  ASSUME NEW s \in Seq(Request), NEW limit \in Nat, Placed(s, limit),
         Len(s) < limit, NEW q \in New
  PROVE  Placed(Append(s, q), limit)
<1> DEFINE t == Append(s, q)
<1>1. /\ Len(t) = Len(s) + 1 /\ Len(s) \in Nat
      /\ \A i \in 1..Len(s) : t[i] = s[i]
      /\ t[Len(s) + 1] = q
  BY DEF New
<1> HIDE DEF t
<1>2. ~ q.served
  BY DEF New
<1> QED BY <1>1, <1>2 DEF Placed, t

\* clean_queues() takes the served head away.
LEMMA PlacedCleaned ==
  ASSUME NEW s \in Seq(Request), NEW limit \in Nat, Placed(s, limit)
  PROVE  Placed(Unserved(s), limit)
<1>1. Unserved(s) = s \/ (s # <<>> /\ Unserved(s) = Tail(s))
  BY UnservedHead DEF Placed
<1>2. CASE s # <<>>
  <2> DEFINE t == Tail(s)
  <2>1. /\ Len(s) \in Nat \ {0} /\ Len(t) = Len(s) - 1
        /\ \A i \in 1..(Len(s) - 1) : t[i] = s[i + 1]
    BY <1>2
  <2> HIDE DEF t
  <2>2. Placed(t, limit)
    BY <2>1 DEF Placed
  <2> QED BY <1>1, <2>2 DEF t
<1> QED BY <1>1, <1>2

\* A turn that serves a queue.
LEMMA PlacedTurn ==
  ASSUME SchedulerTypes, QueuesPlaced, HeadActivates \/ HeadProceeds
  PROVE  QueuesPlaced'
<1>1. /\ read_queue \in Seq(Request) /\ write_queue \in Seq(Request)
      /\ RQ_CAPACITY \in Nat /\ WQ_CAPACITY \in Nat
  BY QueuesAssumption DEF SchedulerTypes, QueuesTypeOK
<1>2. TheHead \in Request /\ TheHead = Queue(Served)[1] /\ Queue(Served) # <<>>
  BY HeadType DEF HeadActivates, HeadProceeds
<1>3. ASSUME NEW q \in Request, q.fake = TheHead.fake,
             NEW reads \in Seq(Request), NEW writes \in Seq(Request),
             Added(reads), Added(writes), HeadBecomes(Served, q, reads, writes)
      PROVE  QueuesPlaced'
  <2>1. CASE Draining
    <3>1. /\ write_queue # <<>> /\ TheHead = write_queue[1]
          /\ read_queue' = read_queue \o reads
          /\ write_queue' = [write_queue EXCEPT ![1] = q] \o writes
      BY <1>2, <1>3, <2>1 DEF Queue, Served, HeadBecomes
    <3>2. /\ Placed([write_queue EXCEPT ![1] = q], WQ_CAPACITY)
          /\ [write_queue EXCEPT ![1] = q] \in Seq(Request)
      BY <1>1, <1>3, <3>1, PlacedHead DEF QueuesPlaced
    <3>3. Placed([write_queue EXCEPT ![1] = q] \o writes, WQ_CAPACITY)
      BY <1>1, <1>3, <3>2, PlacedBehind
    <3>4. Placed(read_queue \o reads, RQ_CAPACITY)
      BY <1>1, <1>3, PlacedBehind DEF QueuesPlaced
    <3> QED BY <3>1, <3>3, <3>4 DEF QueuesPlaced, Placed
  <2>2. CASE ~ Draining
    <3>1. /\ read_queue # <<>> /\ TheHead = read_queue[1]
          /\ read_queue' = [read_queue EXCEPT ![1] = q] \o reads
          /\ write_queue' = write_queue \o writes
      BY <1>2, <1>3, <2>2 DEF Queue, Served, HeadBecomes
    <3>2. /\ Placed([read_queue EXCEPT ![1] = q], RQ_CAPACITY)
          /\ [read_queue EXCEPT ![1] = q] \in Seq(Request)
      BY <1>1, <1>3, <3>1, PlacedHead DEF QueuesPlaced
    <3>3. Placed([read_queue EXCEPT ![1] = q] \o reads, RQ_CAPACITY)
      BY <1>1, <1>3, <3>2, PlacedBehind
    <3>4. Placed(write_queue \o writes, WQ_CAPACITY)
      BY <1>1, <1>3, PlacedBehind DEF QueuesPlaced
    <3> QED BY <3>1, <3>3, <3>4 DEF QueuesPlaced, Placed
  <2> QED BY <2>1, <2>2
<1>4. CASE HeadActivates
  <2> DEFINE q == [TheHead EXCEPT !.tracker = TRUE]
  <2>1. Asks(TheHead) \in BOOLEAN
    BY DEF Asks
  <2>2. PICK reads \in CounterQueues(Asks(TheHead)), writes \in CounterQueues(Asks(TheHead)) :
          HeadBecomes(Served, q, reads, writes)
    BY <1>4 DEF HeadActivates
  <2>3. /\ reads \in Seq(Request) /\ writes \in Seq(Request)
        /\ Added(reads) /\ Added(writes)
    BY <2>1, CounterQueueIs DEF Added
  <2>4. q \in Request /\ q.fake = TheHead.fake
    BY <1>2 DEF Request
  <2> HIDE DEF q
  <2> QED BY <1>3, <2>2, <2>3, <2>4
<1>5. CASE HeadProceeds
  <2> DEFINE q == Commanded(TheHead)
  <2>1. q \in Request /\ q.fake = TheHead.fake
    BY <1>2, MarkedType DEF Commanded, Request
  <2>2. HeadBecomes(Served, q, <<>>, <<>>)
    BY <1>5 DEF HeadProceeds
  <2>3. <<>> \in Seq(Request) /\ Added(<<>>)
    BY DEF Added
  <2> HIDE DEF q
  <2> QED BY <1>3, <2>1, <2>2, <2>3
<1> QED BY <1>4, <1>5

LEMMA PlacedStep ==
  ASSUME SchedulerTypes, QueuesPlaced, [Next]_vars
  PROVE  QueuesPlaced'
<1>1. /\ read_queue \in Seq(Request) /\ write_queue \in Seq(Request)
      /\ RQ_CAPACITY \in Nat /\ WQ_CAPACITY \in Nat
      /\ Placed(read_queue, RQ_CAPACITY) /\ Placed(write_queue, WQ_CAPACITY)
  BY QueuesAssumption DEF SchedulerTypes, QueuesTypeOK, QueuesPlaced
<1>2. SUFFICES Placed(read_queue', RQ_CAPACITY) /\ Placed(write_queue', WQ_CAPACITY)
  BY DEF QueuesPlaced, Placed
<1>3. CASE UNCHANGED queues
  BY <1>1, <1>3 DEF queues
<1>4. CASE Schedule
  <2>1. CASE QueueTurn
    <3>1. CASE HeadWaits
      BY <1>3, <3>1 DEF HeadWaits
    <3>2. CASE HeadActivates \/ HeadProceeds
      BY <3>2, PlacedTurn DEF QueuesPlaced, Placed
    <3> QED BY <2>1, <3>1, <3>2, QueueTurnIs
  <2> QED BY <1>3, <1>4, <2>1, ScheduleIs DEF Waiting, PeriodTurn, OrderTurn
<1>5. CASE Fetch
  <2>1. Len(write_queue) < WQ_CAPACITY /\ Len(read_queue) < RQ_CAPACITY
    BY <1>5 DEF Fetch, Arrive, QueueRoom
  <2>2. PICK q \in New, w \in New :
          /\ read_queue' = read_queue \/ read_queue' = Append(read_queue, q)
          /\ write_queue' = write_queue \/ write_queue' = Append(write_queue, w)
    BY <1>5 DEF Fetch, Arrive
  <2>3. /\ Placed(Append(read_queue, q), RQ_CAPACITY)
        /\ Placed(Append(write_queue, w), WQ_CAPACITY)
    BY <1>1, <2>1, PlacedArrival
  <2> QED BY <1>1, <2>2, <2>3
<1>6. CASE OthersAsk
  <2>1. PICK reads \in CounterQueues(TRUE), writes \in CounterQueues(TRUE) :
          /\ read_queue' = read_queue \o reads
          /\ write_queue' = write_queue \o writes
    BY <1>6 DEF OthersAsk
  <2>2. /\ reads \in Seq(Request) /\ writes \in Seq(Request)
        /\ Added(reads) /\ Added(writes)
    BY CounterQueueIs DEF Added
  <2>3. /\ Placed(read_queue \o reads, RQ_CAPACITY)
        /\ Placed(write_queue \o writes, WQ_CAPACITY)
    BY <1>1, <2>2, PlacedBehind
  <2> QED BY <2>1, <2>3
<1>7. CASE update_memory
  BY <1>1, <1>7, PlacedCleaned DEF update_memory, NewCycle
<1> QED BY <1>3, <1>4, <1>5, <1>6, <1>7 DEF Next, OthersMove, vars, queueVars, queues

\* The types of the scheduler, and the limits of the traces' requests: whatever hydra()
\* adds for the activations of this and of other channels, no request of the traces is
\* taken into a queue that is full, nor falls back beyond its limit.
THEOREM SchedulerTypesAndLimits == Spec => []TypeOK
<1>1. Init => QueuesPlaced
  BY DEF Init, QueuesInit, QueuesPlaced, Placed
<1>2. SchedulerTypes /\ QueuesPlaced /\ [Next]_vars => QueuesPlaced'
  BY PlacedStep
<1>3. SchedulerTypes /\ QueuesPlaced => TypeOK
  BY DEF SchedulerTypes, QueuesTypeOK, QueuesPlaced, Placed, TypeOK, TraceWithinLimits
<1> QED BY <1>1, <1>2, <1>3, SchedulerTypesKept, PTL DEF Spec
=============================================================================
