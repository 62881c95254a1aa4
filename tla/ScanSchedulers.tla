--------------------------- MODULE ScanSchedulers ----------------------------
(***************************************************************************)
(* The other schedulers that main() can be started with.  All of them      *)
(* drain writes alike and scan a queue for the first request whose command *)
(* can be issued; they differ in the reads they let through:               *)
(*   frfcfs     column accesses before all others                          *)
(*   closepage  one column access, then the row is closed                  *)
(*   bta        equal commands of a bank are Gap cycles apart              *)
(*   pr         the reads present at an instant, then all rows are closed  *)
(*   fs         one read of each core in turn, invented if it has none     *)
(*   lps, tp    slots of the cores, cumulative or exclusive                *)
(*   camou      at most BinSize reads in an epoch                          *)
(* Times are in DRAM cycles, of PROCESSOR_CLK_MULTIPLIER processor cycles. *)
(***************************************************************************)
EXTENDS RequestQueues

CONSTANTS
  Schedulers,            \* the schedulers to be checked
  SlotLps, SlotTp,       \* 3*4*44 and 10*4*44 processor cycles
  Gap,                   \* the first DRAM cycle after more than 244 processor cycles
  BinEpoch, BinSize,     \* 7920 processor cycles, and 10
  Cycle                  \* a common multiple of all periods

Turns == {"fs", "lps", "tp"}
AllSchedulers == {"frfcfs", "closepage", "bta", "pr", "camou"} \cup Turns

ASSUME ScanAssumption ==
  /\ Schedulers \subseteq AllSchedulers
  /\ {SlotLps, SlotTp, Gap, BinEpoch, BinSize, Cycle} \subseteq Nat \ {0}
  /\ Cycle % (SlotLps * NUMCORES) = 0 /\ Cycle % (SlotTp * NUMCORES) = 0
  /\ Cycle % BinEpoch = 0

VARIABLES
  scheduler,      \* config_param; the command line's, never changed
  delay_stall,    \* frfcfs, per rank: a mitigation is ordered
  wait_time,      \* closepage, fs: rows are to be closed before the next read
  recent_colacc,  \* closepage, fs, pr: banks with a row to be closed
  sandbox,        \* pr: requests left in it, and close_page
  time_diff,      \* bta: per bank and command, cycles until it is allowed
  runcore,        \* fs, tp: the core whose turn it is
  current_core,   \* lps: the last core that has been let in
  slot,           \* lps, tp: cycles to perthread_timer_end, -1 when it is past
  bin_active,     \* camou: bin 0, the only one in use
  cycle,          \* CYCLE_VAL modulo Cycle
  \* history:
  pageRead        \* per bank: its row has been read since it was opened

pageVars == <<wait_time, recent_colacc>>
turnVars == <<runcore, current_core, slot>>
policyVars == <<delay_stall, pageVars, sandbox, time_diff, turnVars, bin_active>>
vars == <<scheduler, queueVars, policyVars, cycle, pageRead>>

Commands == {"ACT", "READ", "PRE"}

Init ==
  /\ scheduler \in Schedulers
  /\ QueuesInit
  /\ delay_stall = [r \in Ranks |-> FALSE]
  /\ wait_time = FALSE
  /\ recent_colacc = PerBank(FALSE)
  /\ sandbox = [left |-> 0, closing |-> FALSE]
  /\ time_diff = PerBank([c \in Commands |-> Gap])
  /\ runcore = 0 /\ current_core = 0 /\ slot = 0
  /\ bin_active = 0
  /\ cycle = 0
  /\ pageRead = PerBank(FALSE)

-----------------------------------------------------------------------------
(* Scanning a queue. *)

Reads == DOMAIN read_queue
Writes == DOMAIN write_queue

\* per_thread_queue: the reads of a core in the order of their arrival.
Of(core) == {i \in Reads : read_queue[i].core = core}

IssuableIn(op, S) == {i \in S : Issuable(op, Queue(op)[i])}

\* Issue the command of request i, the first of those in S that can be issued.
ServeFirst(op, S, i) ==
  /\ i \in IssuableIn(op, S) /\ \A j \in IssuableIn(op, S) : i <= j
  /\ issue_request_command(op, Queue(op)[i])

ServeRead(S, i) ==
  /\ ServeFirst("READ", S, i)
  /\ read_queue' = [read_queue EXCEPT ![i] = Commanded(@)]
  /\ UNCHANGED write_queue

\* The reads in S whose row is open, if one of them can be issued, before the rest.
HitsFirst(S) ==
  LET hits == {i \in S : RowHit(read_queue[i])}
  IN IF IssuableIn("READ", hits) # {} THEN hits ELSE S

NoReads == read_queue = <<>>
NoneServed == NoCommand /\ UNCHANGED queues

\* Fault: a drain does not begin when there is no read.
DrainingWhenFull(idle) ==
  \/ drain_writes /\ Len(write_queue) > LO_WM
  \/ Len(write_queue) > HI_WM

\* Writes are drained from above HI_WM down to LO_WM, and when the reads are idle.
Draining(idle) ==
  \/ drain_writes /\ Len(write_queue) > LO_WM
  \/ Len(write_queue) > HI_WM
  \/ idle

\* A drain that issues a command, one that cannot, and no drain.
DrainWrite(idle, i) ==
  /\ Draining(idle) /\ drain_writes' = TRUE
  /\ ServeFirst("WRITE", Writes, i)
  /\ write_queue' = [write_queue EXCEPT ![i] = Commanded(@)]
DrainStuck(idle) ==
  Draining(idle) /\ drain_writes' = TRUE /\ IssuableIn("WRITE", Writes) = {}
NoDrain(idle) == ~ Draining(idle) /\ drain_writes' = FALSE

\* A drain by a scheduler whose reads have no part in it.
Drain ==
  \/ \E i \in Writes : DrainWrite(NoReads, i) /\ UNCHANGED read_queue
  \/ DrainStuck(NoReads) /\ NoneServed

-----------------------------------------------------------------------------
(* frfcfs. *)

\* Modes 0 and 1.  Misra-Gries is asked on every activation, also on one that is
\* repeated for the same request; its answer is left open.
Asked(q) ==
  \/ UNCHANGED delay_stall
  \/ Closed(q) /\ delay_stall' = [delay_stall EXCEPT ![q.rank] = TRUE]

\* Ranks whose order is taken back; the swap and the move are commented out.
Dropping == {r \in Ranks : delay_stall[r] /\ is_refresh_allowed(r)}

schedule_frfcfs ==
  /\ \/ \E r \in Dropping :
          /\ \A k \in Dropping : r <= k
          /\ delay_stall' = [delay_stall EXCEPT ![r] = FALSE]
          /\ NoneServed /\ UNCHANGED drain_writes
     \/ /\ Dropping = {}
        /\ \/ \E i \in Writes :
                DrainWrite(NoReads, i) /\ Asked(write_queue[i]) /\ UNCHANGED read_queue
           \/ DrainStuck(NoReads) /\ NoneServed /\ UNCHANGED delay_stall
           \/ /\ NoDrain(NoReads)
              /\ \/ \E i \in Reads : ServeRead(HitsFirst(Reads), i) /\ Asked(read_queue[i])
                 \/ IssuableIn("READ", Reads) = {} /\ NoneServed /\ UNCHANGED delay_stall
  /\ UNCHANGED <<pageVars, sandbox, time_diff, turnVars, bin_active>>

-----------------------------------------------------------------------------
(* closepage, fs and pr close the rows they have read. *)

Before(r, b, q, c) == r < q \/ (r = q /\ b < c)
Closable(r, b) == recent_colacc[r][b] /\ is_precharge_allowed(r, b)
Remaining == \E r \in Ranks, b \in Banks : recent_colacc[r][b]

\* Precharge the first bank in recent_colacc that allows it: a cycle has room
\* for one command only.
CloseOne ==
  \/ \E r \in Ranks, b \in Banks :
       /\ Closable(r, b)
       /\ \A q \in Ranks, c \in Banks : Closable(q, c) => ~ Before(q, c, r, b)
       /\ Precharge(r, b)
       /\ recent_colacc' = [recent_colacc EXCEPT ![r][b] = FALSE]
  \/ /\ \A r \in Ranks, b \in Banks : ~ Closable(r, b)
     /\ NoCommand /\ UNCHANGED recent_colacc

\* A column access marks its bank, an activation or a precharge clears the mark.
Mark(q) == recent_colacc' = [recent_colacc EXCEPT ![q.rank][q.bank] = RowHit(q)]

\* Fault: the wait ends although the row may still be open.
CloseOnce ==
  \/ wait_time /\ CloseOne /\ wait_time' = FALSE
  \/ ~ wait_time /\ NoCommand /\ UNCHANGED pageVars

ClosePages ==
  \/ wait_time /\ CloseOne /\ wait_time' = Remaining'
  \/ ~ wait_time /\ NoCommand /\ UNCHANGED pageVars

\* A command for the reads in S once all rows are closed; a column access starts
\* the wait for its row.
ReadPage(S, i) ==
  /\ ~ wait_time
  /\ ServeRead(S, i)
  /\ Mark(read_queue[i])
  /\ wait_time' = RowHit(read_queue[i])
NoReadPage(S) == wait_time \/ IssuableIn("READ", S) = {}

schedule_closepage ==
  LET idle == NoReads /\ ~ wait_time IN
  /\ \/ \E i \in Writes : DrainWrite(idle, i) /\ UNCHANGED <<read_queue, pageVars>>
     \/ /\ DrainStuck(idle) \/ (NoDrain(idle) /\ NoReadPage(Reads))
        /\ ClosePages
        /\ UNCHANGED queues
     \/ NoDrain(idle) /\ \E i \in Reads : ReadPage(Reads, i)
  /\ UNCHANGED <<delay_stall, sandbox, time_diff, turnVars, bin_active>>

NextCore == (runcore + 1) % NUMCORES

\* Fault: no read is invented.
NoFakeRead == UNCHANGED read_queue

\* Fault: a read is invented without a look for the core's own.
FakeReadAlways ==
  \E q \in New :
    q.core = runcore /\ read_queue' = Append(read_queue, [q EXCEPT !.fake = TRUE])

\* Without a read of the core whose turn it is main() inserts one to a random
\* address, whatever the length of the queue.  Its first command comes in the next
\* cycle.
FakeRead ==
  IF Of(runcore) = {}
  THEN \E q \in New :
         q.core = runcore /\ read_queue' = Append(read_queue, [q EXCEPT !.fake = TRUE])
  ELSE UNCHANGED read_queue

\* The read queue is never empty, so only a full write queue is drained.
schedule_fs ==
  /\ \/ /\ FakeRead
        /\ UNCHANGED runcore
        /\ \/ /\ \E i \in Writes : DrainWrite(FALSE, i)
              /\ UNCHANGED recent_colacc
              /\ wait_time' = (wait_time /\ Remaining)
           \/ /\ DrainStuck(FALSE) \/ (NoDrain(FALSE) /\ NoReadPage(Of(runcore)))
              /\ ClosePages
              /\ UNCHANGED write_queue
     \/ /\ NoDrain(FALSE)
        /\ \E i \in Of(runcore) :
             /\ ReadPage(Of(runcore), i)
             /\ runcore' = IF RowHit(read_queue[i]) THEN NextCore ELSE runcore
  /\ UNCHANGED <<delay_stall, sandbox, time_diff, current_core, slot, bin_active>>

\* pr works on the sandbox, the reads that were present when it was opened:
\* bottom_request is the last of those that are left.
Opened ==
  IF sandbox.left = 0 /\ ~ sandbox.closing THEN Len(read_queue) ELSE sandbox.left

ServeSandbox ==
  \E i \in Reads :
    /\ ServeRead(HitsFirst(1..Opened), i)
    /\ Mark(read_queue[i])
    /\ sandbox' = IF RowHit(read_queue[i])
                  THEN [left |-> Opened - 1, closing |-> Opened = 1]
                  ELSE [left |-> Opened, closing |-> FALSE]

CloseSandbox ==
  /\ \/ sandbox.closing /\ CloseOne
     \/ ~ sandbox.closing /\ NoCommand /\ UNCHANGED recent_colacc
  /\ sandbox' = [left |-> Opened, closing |-> sandbox.closing /\ Remaining']
  /\ UNCHANGED queues

schedule_pr ==
  /\ \/ /\ \E i \in Writes : DrainWrite(NoReads, i)
        /\ UNCHANGED <<read_queue, recent_colacc, sandbox>>
     \/ DrainStuck(NoReads) /\ CloseSandbox
     \/ NoDrain(NoReads) /\ ~ sandbox.closing /\ ServeSandbox
     \/ /\ NoDrain(NoReads)
        /\ sandbox.closing \/ IssuableIn("READ", 1..Opened) = {}
        /\ CloseSandbox
  /\ UNCHANGED <<delay_stall, wait_time, time_diff, turnVars, bin_active>>

-----------------------------------------------------------------------------
(* bta, lps, tp and camou: who is let through, and when. *)

NextCommand(q) == IF Closed(q) THEN "ACT" ELSE IF RowHit(q) THEN "READ" ELSE "PRE"

schedule_bta ==
  LET timely == {i \in Reads :
        LET q == read_queue[i] IN time_diff[q.rank][q.bank][NextCommand(q)] = 0}
  IN
  /\ \/ Drain /\ UNCHANGED time_diff
     \/ /\ NoDrain(NoReads)
        /\ \E i \in timely :
             LET q == read_queue[i] IN
             /\ ServeRead(timely, i)
             /\ time_diff' = [time_diff EXCEPT ![q.rank][q.bank][NextCommand(q)] = Gap]
     \/ /\ NoDrain(NoReads)
        /\ IssuableIn("READ", timely) = {} /\ NoneServed /\ UNCHANGED time_diff
  /\ UNCHANGED <<delay_stall, pageVars, sandbox, turnVars, bin_active>>

Begins(period) == cycle % period = 0

\* lps: the slot in which the scheduler finds itself, and the last core that is
\* let in and has a read that can be issued.
schedule_lps ==
  LET now == IF Begins(SlotLps * NUMCORES) THEN SlotLps ELSE slot
      waiting == {c \in 0..current_core : IssuableIn("READ", Of(c)) # {}}
      Chosen(c) == c \in waiting /\ \A d \in waiting : d <= c
  IN
  /\ \/ Drain /\ UNCHANGED <<current_core, slot>>
     \/ /\ NoDrain(NoReads)
        /\ \/ /\ Chosen(current_core) /\ now < 0
              /\ current_core' = IF current_core + 1 = NUMCORES
                                 THEN current_core ELSE current_core + 1
              /\ slot' = SlotLps
              /\ NoneServed
           \/ /\ \E c \in waiting :
                   /\ Chosen(c)
                   /\ IF c = current_core THEN now >= 0 ELSE now > 0
                   /\ \E i \in Of(c) : ServeRead(Of(c), i)
              /\ slot' = now /\ UNCHANGED current_core
           \/ /\ \A c \in waiting : Chosen(c) => c # current_core /\ now <= 0
              /\ NoneServed
              /\ slot' = now /\ UNCHANGED current_core
  /\ UNCHANGED <<delay_stall, pageVars, sandbox, time_diff, runcore, bin_active>>

\* tp: the turn passes with the clock, and when its core asks too late.
schedule_tp ==
  LET renewed == Begins(SlotTp * NUMCORES)
      core == IF renewed THEN NextCore ELSE runcore
      now == IF renewed THEN SlotTp ELSE slot
      asks == IssuableIn("READ", Of(core)) # {}
  IN
  /\ \/ Drain /\ UNCHANGED <<runcore, slot>>
     \/ /\ NoDrain(NoReads)
        /\ \/ asks /\ now < 0 /\ NoneServed /\ slot' = SlotTp /\ runcore' = (core + 1) % NUMCORES
           \/ /\ asks /\ now >= 0
              /\ \E i \in Of(core) : ServeRead(Of(core), i)
              /\ slot' = now /\ runcore' = core
           \/ ~ asks /\ NoneServed /\ slot' = now /\ runcore' = core
  /\ UNCHANGED <<delay_stall, pageVars, sandbox, time_diff, current_core, bin_active>>

\* camou: inter_arrival_time is always 0, so bin 0 is the only one; at the end of
\* an epoch the column accesses that were made are given back, the others are not.
schedule_camou ==
  LET active == IF Begins(BinEpoch) THEN BinSize - bin_active ELSE bin_active
      allowed == {i \in Reads : RowHit(read_queue[i]) => active < BinSize}
  IN
  /\ \/ Drain /\ bin_active' = active
     \/ /\ NoDrain(NoReads)
        /\ \E i \in allowed :
             /\ ServeRead(allowed, i)
             /\ bin_active' = active + (IF RowHit(read_queue[i]) THEN 1 ELSE 0)
     \/ /\ NoDrain(NoReads)
        /\ IssuableIn("READ", allowed) = {} /\ NoneServed /\ bin_active' = active
  /\ UNCHANGED <<delay_stall, pageVars, sandbox, time_diff, turnVars>>

-----------------------------------------------------------------------------
(* The cycle. *)

Schedule ==
  /\ turn = "schedule"
  /\ turn' = "fetch"
  /\ \/ scheduler = "frfcfs" /\ schedule_frfcfs
     \/ scheduler = "closepage" /\ schedule_closepage
     \/ scheduler = "bta" /\ schedule_bta
     \/ scheduler = "pr" /\ schedule_pr
     \/ scheduler = "fs" /\ schedule_fs
     \/ scheduler = "lps" /\ schedule_lps
     \/ scheduler = "tp" /\ schedule_tp
     \/ scheduler = "camou" /\ schedule_camou
  /\ pageRead' = [r \in Ranks |-> [b \in Banks |->
       \/ cas_issued'[r][b] = 1
       \/ pageRead[r][b] /\ ~ Activated(r, b)]]
  /\ UNCHANGED <<scheduler, fetches, cycle>>

\* Schedulers that give no turns do not look at the core of a read.
Fetch ==
  /\ Arrive(IF scheduler \in Turns THEN Cores ELSE {0})
  /\ UNCHANGED <<scheduler, policyVars, cycle, pageRead>>

update_memory ==
  /\ NewCycle
  /\ time_diff' = [r \in Ranks |-> [b \in Banks |->
       [c \in Commands |-> Down(time_diff[r][b][c])]]]
  /\ slot' = IF slot < 0 THEN slot ELSE slot - 1
  /\ cycle' = (cycle + 1) % Cycle
  /\ UNCHANGED <<scheduler, delay_stall, pageVars, sandbox, runcore, current_core,
                 bin_active, pageRead>>

Next == Schedule \/ Fetch \/ update_memory

\* main() never leaves out a cycle, nor the scheduler in one.
Spec == Init /\ [][Next]_vars /\ WF_vars(Schedule) /\ WF_vars(update_memory)

-----------------------------------------------------------------------------
(* Properties. *)

\* With the limits of the queues: fs adds at most one read of each core to what
\* the queue has room for.
TypeOK ==
  /\ QueuesTypeOK /\ Len(write_queue) <= WQ_CAPACITY
  /\ Len(read_queue) <= RQ_CAPACITY + (IF scheduler = "fs" THEN NUMCORES ELSE 0)
  /\ scheduler \in Schedulers
  /\ delay_stall \in [Ranks -> BOOLEAN]
  /\ wait_time \in BOOLEAN
  /\ recent_colacc \in [Ranks -> [Banks -> BOOLEAN]]
  /\ sandbox \in [left : 0..Len(read_queue), closing : BOOLEAN]
  /\ time_diff \in [Ranks -> [Banks -> [Commands -> 0..Gap]]]
  /\ runcore \in Cores /\ current_core \in Cores
  /\ slot \in -1..Later(SlotLps, SlotTp)
  /\ bin_active \in 0..BinSize
  /\ cycle \in 0..(Cycle - 1)
  /\ pageRead \in [Ranks -> [Banks -> BOOLEAN]]

\* closepage and fs read a row at most once after opening it, also when a drain
\* of writes or a forced refresh comes between the read and the precharge.
OneReadPerRow ==
  [][\A r \in Ranks, b \in Banks :
       /\ scheduler \in {"closepage", "fs"}
       /\ cas_issued[r][b] = 0 /\ cas_issued'[r][b] = 1
       => ~ pageRead[r][b]]_vars

\* lps lets a core in when the one before it asks for a read late enough: if that
\* core has no read any more, the later cores wait for ever, and the writes with
\* them.  The other schedulers admit every core.
Admitted == scheduler = "lps" => current_core = NUMCORES - 1

\* Every read is served once the traces bring no more, in spite of slots, credits,
\* gaps and rows that other requests close.
Waiting == \E i \in Reads : ~ read_queue[i].fake
ReadsServed == Waiting /\ Admitted ~> ~ Waiting

\* Every write is served in the end: the schedulers drain when there is no read.
\* fs always has one, and drains only what is above HI_WM.
WritesServed ==
  /\ scheduler # "fs" /\ write_queue # <<>> /\ Admitted ~> write_queue = <<>>
  /\ scheduler = "fs" /\ Len(write_queue) > HI_WM ~> Len(write_queue) <= LO_WM
=============================================================================
