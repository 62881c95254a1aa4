------------------------------ MODULE CoreLoop ------------------------------
(***************************************************************************)
(* The main loop of main.c: in each cycle every core retires from the head *)
(* of its reorder buffer, the scheduler has its turn, and every core       *)
(* fetches into the tail; with the merging of reads and writes in          *)
(* memory_controller.c.                                                    *)
(*                                                                         *)
(* A step is one instruction retired or fetched, or the end of a core's    *)
(* turn.  Times are what is left until them: comptime - CYCLE_VAL, -1 when *)
(* it has passed, and skipit - CYCLE_VAL, 0 when it has.  A load that      *)
(* waits for the memory has comptime BIGNUM, longer than any queue delay   *)
(* and so never counted down.  The trace, the hits of the last-level cache *)
(* and its victims are left open.  One channel; the scheduler serves any   *)
(* waiting request or none.                                                *)
(***************************************************************************)
EXTENDS Integers, FiniteSets, Sequences

CONSTANTS
  NUMCORES, ROBSIZE, MAX_RETIRE, MAX_FETCH,
  PIPELINEDEPTH, L3_LATENCY, WQ_LOOKUP_LATENCY,
  WQ_CAPACITY, RQ_CAPACITY,
  ReadLatency,      \* from COL_READ to the data
  Stalls,           \* by how much a mitigation can stop everything
  INSTRUCTIONS,     \* INST_MILLION * 10^6
  BIGNUM,
  Nil,              \* no next
  Lines             \* cache lines of a core's trace after translation

Cores == 0..(NUMCORES - 1)
Slots == 0..(ROBSIZE - 1)
Addrs == UNION {Lines[c] : c \in Cores}
Longest(S) == CHOOSE n \in S : \A k \in S : k <= n
Delays == {ReadLatency, L3_LATENCY, WQ_LOOKUP_LATENCY} \cup Stalls
Times == -1..(PIPELINEDEPTH + Longest(Delays))

ASSUME CoreLoopAssumption ==
  /\ {NUMCORES, ROBSIZE, MAX_RETIRE, MAX_FETCH, WQ_CAPACITY, RQ_CAPACITY} \subseteq Nat \ {0}
  /\ {PIPELINEDEPTH, L3_LATENCY, WQ_LOOKUP_LATENCY, ReadLatency, INSTRUCTIONS} \subseteq Nat
  /\ Stalls \subseteq Nat /\ 0 \in Stalls /\ IsFiniteSet(Stalls)
  /\ BIGNUM \in Nat \ Times
  /\ Nil \notin Slots \cup Addrs

VARIABLES
  ROB,                      \* per core
  loadq, storeq, committed,
  read_queue, write_queue,  \* requests without a completion time
  leaving,                  \* served ones not yet cleaned from the queues
  readqfull, writeqfull,
  skipit,
  phase, val, corecount, num, num_done, expt_done,
  owes                      \* history: loads in flight whose line the memory
                            \* has not yet delivered

queues == <<read_queue, write_queue, leaving, readqfull, writeqfull>>
loop == <<phase, val, corecount, num, num_done, expt_done>>
vars == <<ROB, loadq, storeq, committed, queues, skipit, loop, owes>>

\* calloc, at CYCLE_VAL 0.
EmptySlot == [optype |-> "-", mem_address |-> Nil, comptime |-> 0, next |-> Nil]

Init ==
  /\ ROB = [c \in Cores |-> [head |-> 0, tail |-> 0, inflight |-> 0, tracedone |-> FALSE,
                             entry |-> [s \in Slots |-> EmptySlot]]]
  /\ loadq = [c \in Cores |-> 0] /\ storeq = [c \in Cores |-> 0]
  /\ committed = [c \in Cores |-> 0]
  /\ read_queue = {} /\ write_queue = {}
  /\ leaving = [reads |-> 0, writes |-> 0]
  /\ readqfull = FALSE /\ writeqfull = FALSE
  /\ skipit = 0
  /\ phase = "retire" /\ val \in Cores /\ corecount = 0 /\ num = 0
  /\ num_done = 0 /\ expt_done = FALSE
  /\ owes = [c \in Cores |-> {}]

-----------------------------------------------------------------------------
(* Cores take their turns from a random one on. *)

numc == (val + corecount) % NUMCORES

\* The core's turn is over; after the last core's the next phase begins.
TurnOver(next) ==
  /\ num' = 0
  /\ corecount' = (corecount + 1) % NUMCORES
  /\ phase' = IF corecount' = 0 THEN next ELSE phase

-----------------------------------------------------------------------------
(* Retire. *)

rob == ROB[numc]
Oldest == rob.entry[rob.head]
InFlight(c) == {(ROB[c].head + i) % ROBSIZE : i \in 0..(ROB[c].inflight - 1)}

MayRetire ==
  /\ phase = "retire" /\ ~ expt_done
  /\ num < MAX_RETIRE
  /\ rob.inflight > 0
  /\ Oldest.comptime < 0

\* Fault: whoever waits for this one is not told.
NotWoken(e) == e

\* The merged read behind this one is complete with it.
Woken(e) ==
  IF Oldest.next = Nil THEN e ELSE [e EXCEPT ![Oldest.next].comptime = Oldest.comptime]

Retire ==
  /\ MayRetire /\ skipit = 0
  /\ ROB' = [ROB EXCEPT ![numc].entry = Woken(@), ![numc].head = (@ + 1) % ROBSIZE,
                        ![numc].inflight = @ - 1]
  /\ loadq' = IF Oldest.optype = "R" THEN [loadq EXCEPT ![numc] = @ - 1] ELSE loadq
  /\ storeq' = IF Oldest.optype = "W" THEN [storeq EXCEPT ![numc] = @ - 1] ELSE storeq
  /\ committed' = [committed EXCEPT ![numc] = IF @ < INSTRUCTIONS THEN @ + 1 ELSE @]
  /\ num' = num + 1
  /\ owes' = [owes EXCEPT ![numc] = @ \ {rob.head}]
  /\ UNCHANGED <<queues, skipit, phase, val, corecount, num_done, expt_done>>

\* Fault: the stall also gives a time to what waits for the memory.
PushedBackAll(entry) == [entry EXCEPT !.comptime = skipit + PIPELINEDEPTH]

PushedBack(entry) ==
  IF entry.comptime < 0 THEN [entry EXCEPT !.comptime = skipit + PIPELINEDEPTH] ELSE entry

\* A mitigation has stopped everything: what is complete waits for its end.
Stall ==
  /\ MayRetire /\ skipit > 0
  /\ ROB' = [ROB EXCEPT ![numc].entry = [s \in Slots |-> PushedBack(@[s])]]
  /\ UNCHANGED <<loadq, storeq, committed, queues, skipit, loop, owes>>

RetireTurnOver ==
  /\ phase = "retire" /\ ~ expt_done
  /\ ~ MayRetire
  /\ TurnOver("dram")
  /\ UNCHANGED <<ROB, loadq, storeq, committed, queues, skipit, val, num_done, expt_done, owes>>

-----------------------------------------------------------------------------
(* The scheduler's turn, if this is a DRAM cycle.  The requests it served   *)
(* in its last turn leave the queues; it serves one, or makes a move that a *)
(* mitigation calls for, or does neither.                                   *)

readLength == Cardinality(read_queue) + leaving.reads
writeLength == Cardinality(write_queue) + leaving.writes

\* Fault: full is noticed one request late.
QueuesOverfull ==
  /\ readqfull' = (readLength' > RQ_CAPACITY)
  /\ writeqfull' = (writeLength' > WQ_CAPACITY)

QueuesFull ==
  /\ readqfull' = (readLength' >= RQ_CAPACITY)
  /\ writeqfull' = (writeLength' >= WQ_CAPACITY)

ServeRead(r) ==
  /\ read_queue' = read_queue \ {r}
  /\ leaving' = [reads |-> 1, writes |-> 0]
  /\ ROB' = [ROB EXCEPT ![r.core].entry[r.slot].comptime = ReadLatency + PIPELINEDEPTH]
  /\ owes' = [c \in Cores |-> {s \in owes[c] : ROB[c].entry[s].mem_address # r.addr}]
  /\ UNCHANGED write_queue

ServeWrite(a) ==
  /\ write_queue' = write_queue \ {a}
  /\ leaving' = [reads |-> 0, writes |-> 1]
  /\ UNCHANGED <<ROB, read_queue, owes>>

\* The cycle is no DRAM cycle, or one in which no request is served.
NoDramCycle == UNCHANGED <<ROB, read_queue, write_queue, leaving, skipit, owes>>

ServeNothing ==
  /\ leaving' = [reads |-> 0, writes |-> 0]
  /\ UNCHANGED <<ROB, read_queue, write_queue, skipit, owes>>

\* A move stops everything until it is over; the moves of a period are made also
\* while an earlier one does.
MoveRows ==
  /\ \E stall \in Stalls : skipit' = IF stall < skipit THEN skipit ELSE stall
  /\ leaving' = [reads |-> 0, writes |-> 0]
  /\ UNCHANGED <<ROB, read_queue, write_queue, owes>>

Serve(request) == request /\ skipit = 0 /\ UNCHANGED skipit

Schedule(what) ==
  /\ phase = "dram"
  /\ what
  /\ QueuesFull
  /\ phase' = "fetch" /\ num_done' = 0
  /\ UNCHANGED <<loadq, storeq, committed, val, corecount, num, expt_done>>

ServeOne ==
  \/ \E r \in read_queue : Schedule(Serve(ServeRead(r)))
  \/ \E a \in write_queue : Schedule(Serve(ServeWrite(a)))

DramCycle == Schedule(ServeNothing) \/ Schedule(MoveRows) \/ ServeOne

-----------------------------------------------------------------------------
(* Fetch. *)

\* Fault: the buffer takes one more instruction than it has slots.
RoomForOneMore == rob.inflight <= ROBSIZE

Room == rob.inflight < ROBSIZE

MayFetch ==
  /\ phase = "fetch"
  /\ ~ rob.tracedone
  /\ num < MAX_FETCH
  /\ Room
  /\ ~ writeqfull /\ ~ readqfull

\* The entries with the new instruction, whose slot is the tail.
Filled(e, op, a, time) ==
  [e EXCEPT ![rob.tail] = [optype |-> op, comptime |-> time, next |-> Nil,
                           mem_address |-> IF a = Nil THEN @.mem_address ELSE a]]

Fetched(e) ==
  /\ ROB' = [ROB EXCEPT ![numc].entry = e, ![numc].tail = (@ + 1) % ROBSIZE,
                        ![numc].inflight = @ + 1]
  /\ num' = num + 1
  /\ UNCHANGED <<committed, skipit, phase, val, corecount, num_done, expt_done>>

FetchN ==
  /\ MayFetch
  /\ Fetched(Filled(rob.entry, "N", Nil, PIPELINEDEPTH))
  /\ UNCHANGED <<loadq, storeq, queues, owes>>

\* write_exists_in_write_queue and insert_write, for a dirty victim.
WriteBack ==
  \/ UNCHANGED write_queue
  \/ \E victim \in Addrs : write_queue' = write_queue \cup {victim}

\* Fault: the youngest merged read takes the place of the one before it.
LinkedToLast(e, a) ==
  [s \in Slots |-> IF s # rob.tail /\ e[s].optype = "R" /\ e[s].mem_address = a
                   THEN [e[s] EXCEPT !.next = rob.tail] ELSE e[s]]

\* Whoever in this buffer reads the same line and has no follower gets this one.
Linked(e, a) ==
  [s \in Slots |-> IF s # rob.tail /\ e[s].optype = "R" /\ e[s].mem_address = a /\ e[s].next = Nil
                   THEN [e[s] EXCEPT !.next = rob.tail] ELSE e[s]]

PendingRead(a) == \E r \in read_queue : r.addr = a

\* read_matches_write_or_read_queue decides where the missing line comes from.
\* The queues are looked up before the victim is written back.
Miss(a) ==
  \/ /\ a \in write_queue
     /\ Fetched(Filled(rob.entry, "R", a, WQ_LOOKUP_LATENCY + PIPELINEDEPTH))
     /\ UNCHANGED <<read_queue, owes>>
  \/ /\ a \notin write_queue /\ PendingRead(a)
     /\ Fetched(Linked(Filled(rob.entry, "R", a, BIGNUM), a))
     /\ owes' = [owes EXCEPT ![numc] = @ \cup {rob.tail}]
     /\ UNCHANGED read_queue
  \/ /\ a \notin write_queue /\ ~ PendingRead(a)
     /\ Fetched(Filled(rob.entry, "R", a, BIGNUM))
     /\ owes' = [owes EXCEPT ![numc] = @ \cup {rob.tail}]
     /\ read_queue' = read_queue \cup {[core |-> numc, slot |-> rob.tail, addr |-> a]}

FetchR(a) ==
  /\ MayFetch
  /\ \/ /\ Fetched(Filled(rob.entry, "R", a, L3_LATENCY + PIPELINEDEPTH))   \* hit
        /\ UNCHANGED <<read_queue, write_queue, owes>>
     \/ Miss(a) /\ WriteBack
  /\ loadq' = [loadq EXCEPT ![numc] = @ + 1]
  /\ UNCHANGED <<storeq, leaving>>
  /\ QueuesFull

\* Stores complete without the memory.
FetchW(a) ==
  /\ MayFetch
  /\ Fetched(Filled(rob.entry, "W", a, PIPELINEDEPTH))
  /\ WriteBack
  /\ storeq' = [storeq EXCEPT ![numc] = @ + 1]
  /\ UNCHANGED <<loadq, read_queue, leaving, owes>>
  /\ QueuesFull

Later(entry) ==
  IF entry.comptime \in {-1, BIGNUM} THEN entry ELSE [entry EXCEPT !.comptime = @ - 1]

\* A core has stopped fetching: it looks whether its trace is long enough, or
\* whether its last instruction has left.  After the last core the cycle ends.
Drained == rob.tracedone /\ rob.inflight = 0

FetchTurnOver ==
  /\ phase = "fetch" /\ ~ MayFetch
  /\ TurnOver("retire")
  /\ num_done' = IF Drained THEN num_done + 1 ELSE num_done
  /\ LET robs == [ROB EXCEPT ![numc].tracedone = @ \/ committed[numc] >= INSTRUCTIONS]
     IN  IF corecount' = 0
         THEN /\ ROB' = [c \in Cores |->
                           [robs[c] EXCEPT !.entry = [s \in Slots |-> Later(@[s])]]]
              /\ skipit' = IF skipit = 0 THEN 0 ELSE skipit - 1
              /\ val' \in Cores
              /\ expt_done' = (num_done' = NUMCORES)
         ELSE ROB' = robs /\ UNCHANGED <<skipit, val, expt_done>>
  /\ UNCHANGED <<loadq, storeq, committed, queues, owes>>

-----------------------------------------------------------------------------

Fetch == FetchN \/ (\E a \in Lines[numc] : FetchR(a) \/ FetchW(a))

Next ==
  \/ Retire \/ Stall \/ RetireTurnOver
  \/ Schedule(NoDramCycle)
  \/ DramCycle
  \/ Fetch \/ FetchTurnOver

\* The loop goes on, DRAM cycles come again and again, and the scheduler does not
\* for ever leave all that waits: which request it serves is its own choice.  A move
\* that stops everything is ordered by the activation of a request, at most two by one,
\* or repeats such an order at the end of a period: as the trace ends, so do the moves.
Fairness ==
  /\ WF_vars(Next) /\ SF_vars(DramCycle) /\ SF_vars(ServeOne)
  /\ <>[][skipit' <= skipit]_vars

Spec == Init /\ [][Next]_vars

FairSpec == Spec /\ Fairness

-----------------------------------------------------------------------------
(* Properties. *)

Requests == [core : Cores, slot : Slots, addr : Addrs]

\* With the limits of the queues: the fetching of all cores together never overfills
\* one, though its length is compared with its capacity only before an instruction.
TypeOK ==
  /\ readLength <= RQ_CAPACITY /\ writeLength <= WQ_CAPACITY
  /\ ROB \in [Cores -> [head : Slots, tail : Slots, inflight : 0..ROBSIZE,
                        tracedone : BOOLEAN,
                        entry : [Slots -> [optype : {"-", "N", "R", "W"},
                                           mem_address : Addrs \cup {Nil},
                                           comptime : Times \cup {BIGNUM},
                                           next : Slots \cup {Nil}]]]]
  /\ {loadq, storeq} \subseteq [Cores -> 0..ROBSIZE]
  /\ committed \in [Cores -> 0..INSTRUCTIONS]
  /\ read_queue \subseteq Requests /\ write_queue \subseteq Addrs
  /\ leaving \in [reads : 0..1, writes : 0..1]
  /\ {readqfull, writeqfull, expt_done} \subseteq BOOLEAN
  /\ skipit \in 0..Longest(Stalls)
  /\ phase \in {"retire", "dram", "fetch"}
  /\ {val, corecount} \subseteq Cores /\ num_done \in 0..NUMCORES
  /\ num \in 0..Longest({MAX_RETIRE, MAX_FETCH})
  /\ owes \in [Cores -> SUBSET Slots]

\* COL_READ writes the completion time into the buffer entry the request names:
\* as long as it waits, that entry is still the load that asked, however often
\* the buffer has gone round and whatever stalls have rewritten its times.
RequestOwnsItsEntry ==
  \A r \in read_queue :
    LET e == ROB[r.core].entry[r.slot]
    IN  /\ r.slot \in InFlight(r.core)
        /\ e.optype = "R" /\ e.mem_address = r.addr /\ e.comptime = BIGNUM

\* loadq and storeq count the loads and stores in flight: the assertions at
\* their decrements hold.
LoadsAndStoresCounted ==
  \A c \in Cores :
    LET Of(op) == {s \in InFlight(c) : ROB[c].entry[s].optype = op}
    IN  loadq[c] = Cardinality(Of("R")) /\ storeq[c] = Cardinality(Of("W"))

\* A load that waits for the memory is waited for: its own request is in the
\* queue, or an older entry of its buffer will complete it when it retires.
\* The comment above read_matches_write_or_read_queue: "The 2nd read is assumed
\* to be serviced when the original request completes".
SecondReadIsServed ==
  \A c \in Cores : \A i \in 0..(ROB[c].inflight - 1) :
    LET s == (ROB[c].head + i) % ROBSIZE
    IN  ROB[c].entry[s].comptime = BIGNUM =>
          \/ \E r \in read_queue : r.core = c /\ r.slot = s
          \/ \E j \in 0..(i - 1) : ROB[c].entry[(ROB[c].head + j) % ROBSIZE].next = s

\* Every buffer keeps the promise of InOrderWindow: program order through the
\* wrap of head and tail, and no load leaves before the memory has answered.
InOrder(c, Field(_)) ==
  [i \in 1..ROB[c].inflight |-> Field((ROB[c].head + i - 1) % ROBSIZE)]
windowOf(c) ==
  InOrder(c, LAMBDA s : <<ROB[c].entry[s].optype, ROB[c].entry[s].mem_address>>)
owedOf(c) == InOrder(c, LAMBDA s : s \in owes[c])
Window == INSTANCE InOrderWindow WITH
            Instructions <- {"N", "R", "W"} \X (Addrs \cup {Nil}),
            window <- [c \in Cores |-> windowOf(c)],
            owed <- [c \in Cores |-> owedOf(c)]
ImplementsInOrder == Window!InOrderSpec

\* The comment at main.c 1169: before the end, "Must confirm that write queues have been
\* drained".
EndsWithWriteQueuesDrained == expt_done => write_queue = {}

\* The experiment of one core ends: whichever of its reads are merged and whatever is
\* stopped, its buffer drains.  (Of cores that share lines it is not so: see
\* SecondReadIsServed.)
ExperimentEnds == <>expt_done
=============================================================================
