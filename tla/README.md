# A verification of scale-srs

scale-srs is a trace-driven DRAM simulator (USIMM) extended with row-hammer
mitigations: RRS, Hydra, BlockHammer and Scale-SRS. A run reads memory traces of
several cores, sends them through a shared cache and a memory controller, and at
every row activation asks a tracker whether the row must be swapped, moved or
stalled. What the program reports is right only if the tracker really notices a
row in time, the mitigations it orders are really issued, they really take the
time they are charged, and DRAM timing and refreshes hold in spite of them. That
is what the modules here are about.

## 1. The system

| Part | State | Operations | Where |
|---|---|---|---|
| Misra-Gries tracker | `row_address_track`, `row_address_count`, `spillcounter` per bank | `misraGries`, two clearings | `scheduler.c:391`, `scheduler.c:580`, `memory_controller.c:2539` |
| Hydra tracker | group filter `cra_filter`, counters `actcnt`, counter cache `CCache` | `hydra`, `resetCC` | `scheduler.c:242`, `scheduler.c:306` |
| Row indirection table | `mapping`, `headpointer` | `rqidealRIT` | `scheduler.c:258` |
| DRAM channel | `dram_state` per bank, refresh window per rank, command slot | 14 commands, `update_memory` | `memory_controller.c` |
| Request queues | read and write queue per channel | insertion, next command, removal | `memory_controller.c:420-1031` |
| FCFS scheduler | `drain_writes`, `delay_stall`, `skipit`, `prob_epoch_tracker` | `schedule_fcfs` | `scheduler.c:569` |
| Other schedulers | page policy, turns and slots of cores, credits | `schedule_frfcfs`, `closepage`, `bta`, `pr`, `fs`, `lps`, `tp`, `camou` | `scheduler.c:426`, `scheduler.c:1003-2019` |
| Address mapping | none | `calc_dram_addr`, `get_dram_channel_addr`, `check_dram_addr`, `generate_random_addr` | `memory_controller.c:156-415`, `memory_controller.c:2144` |
| Core loop | reorder buffers, trace positions, `CYCLE_VAL` | retire, DRAM cycle, fetch, end test | `main.c:682-1195` |
| Last-level cache | sets of tagged lines | `isHit`, `install`, replacement | `cache.c` |
| Virtual memory | page table, inverted page table, last translation | `os_v2p_lineaddr` and below | `os.c`, `hash_lib.c` |
| Statistics, power, configuration, Monte Carlo analysis | counters | arithmetic and files | `memory_controller.c`, `configfile.h`, `MonteCarlo.cpp` |

The program is one thread. In a processor cycle `main` retires instructions, in
every `PROCESSOR_CLK_MULTIPLIER`-th cycle calls `update_memory` and then the
scheduler of each channel, and then fetches instructions, which may insert into
the queues. So the interleavings that matter are not of threads. They are:

* of **commands on one channel**: each command pushes the earliest times of many
  banks forward, the forced refresh overwrites them, power-downs hide them;
* of **clocks**: the refresh window of each rank, the scheduler's period of
  204.8M cycles, and the count of 1024 forced refreshes are not synchronised;
* of **orders and their execution**: a mitigation is ordered by the activation of
  one request and issued cycles later, when the rank happens to be quiet;
* of **reads, writes and mitigations** that wait for each other;
* of **channels**, which share `skipit` and Hydra's tables and insert counter requests
  into each other's queues, and of **cores**, which take turns at the scheduler.

There is no persistence, no message loss and no restart.

### What makes each part correct

* Tracker: no row collects `TRH/SWITCH_RATE` counted activations without an order.
* Indirection table: never two rows on a spare, nothing stale when it wraps.
* Channel: activations and data bursts keep their distance whatever comes between
  them; every refresh window gets its refreshes.
* Scheduler: an order is issued exactly once, with its length, before the rank is
  used again; reads, writes and orders are not starved.
* Other schedulers: reads and writes are served in the end, whatever slot, credit or
  page policy lets them through; a row is closed when the policy says so.
* Address mapping: no two lines share a cell; an address goes to the channel it was
  made for.
* Core loop: instructions retire in order and once; the run ends when everything
  is drained.
* Cache and virtual memory: dirty lines are written back once, the two page
  tables agree.

## 2. Modules

| Module | Models |
|---|---|
| `RowTracker` | the promise the mitigation needs of any tracker: `Fire`, `Pass`, `Clear` |
| `MisraGries` | `misraGries()` of one bank and both clearings; implements `RowTracker` |
| `MisraGriesProofs` | its theorems |
| `RowIndirection` | `rqidealRIT()` |
| `DramChannel` | one channel of `memory_controller.c`: every command, the power-down states, the refresh window, `update_memory()` |
| `DramChannelProofs` | its theorems, and the lemmas about the queues that all schedulers share |
| `RequestQueues` | the read and the write queue of a channel: arrival, next command, service, removal |
| `FcfsScheduler` | `schedule_fcfs()` in modes 0 to 7, on `RequestQueues`: drains, orders, period moves, Hydra's counter requests, moves and counter requests of other channels; the cycle of `main` |
| `FcfsSchedulerProofs` | its theorems, built on those of the channel |
| `ScanSchedulers` | the eight other schedulers that `main` can be started with, on `RequestQueues` |
| `ScanSchedulersProofs` | their theorems, built on those of the channel |
| `Hydra` | `hydra()` and `resetCC()` on a `RowIndirection`, in the turns of several channels; implements `RowTracker` with a slack |
| `HydraProofs` | the theorems of the table, and those of `Hydra` built on them |
| `InOrderWindow` | the promise of a reorder buffer: `Enter`, `Answer`, `Leave` |
| `CoreLoop` | retire and fetch of all cores in `main`, merged reads and writes, stalls, the end of the run; implements `InOrderWindow` |
| `CoreLoopProofs` | its theorems |
| `PageTables` | `os.c` and the hash table below it |
| `AddressMapping` | the location of a physical address in the DRAM, and random addresses |
| `PhysicalMemory` | `PageTables` composed with `AddressMapping`: from the page of a trace to a cell |
| `PhysicalMemoryProofs` | the theorems of the page tables, and its own built on them |
| `LastLevelCache` | `cache.c`, as the last-level cache and as Hydra's counter cache |
| `LastLevelCacheProofs` | its theorems |
| `MC...` | the small constants of the runs |

`RequestQueues` extends `DramChannel`, and the two scheduler modules extend it: their
actions take the channel's commands as conjuncts, so that a scheduling decision and
the command it issues are one step.
`Hydra` extends `RowIndirection`, because it counts at the place where the table
says the row is, and its orders change that table. `MisraGries` and `Hydra` are
connected with `RowTracker` by refinement, `CoreLoop` with `InOrderWindow`. In `FcfsScheduler` the
tracker's answer is left open (any counted activation may order a mitigation),
which covers Misra-Gries, Hydra and the BlockHammer test alike. `PhysicalMemory`
extends `PageTables` and `AddressMapping`: the frames that the clock gives out decide
in which cell a line lies.

### State and code

*MisraGries.* `track`, `count` and `spill` are the three tables of one bank, the
only thing banks share being the code. The linear searches become "the first
entry such that". `fired` is the value returned. `acts`, `seen`, `unmitigated`,
`inPeriod` and `clears` are history: no action but the bounds `MaxActs` and
`MaxClears` reads them. `MaxActs` stands for the constant 1360000 of
`init_scheduler_vars`, the most activations one bank's timing admits in 64 ms.

*DramChannel.* The code keeps absolute cycle numbers and only compares them with
`CYCLE_VAL` or sets them to `max(CYCLE_VAL + d, old)`; a number in the past acts
like the present. The module keeps `max(0, number - CYCLE_VAL)`, in DRAM cycles.
The refresh deadlines, which are compared with `==`, are kept as exact
differences, negative ones too. One `Tick` is one `update_memory()`. `state`,
`active_row` and `next` are `dram_state`; `toCompletion`, `toIssue`, `num_issued`
and `forced` are the refresh variables of a rank; `cas_issued` and
`command_issued` are the slots of a cycle. `sinceAct`, `bus` and `occupied` are
history for the properties. A forced refresh that finds commands in flight
overwrites four of the seven clocks, as the code does.

*RequestQueues.* `turn` makes a cycle of `Schedule`, then `Fetch` as often as the
trace likes, then `update_memory`. The tests `command_issuable` of a request are
evaluated where the code reads them, on the state `update_memory` left. A request
keeps its `core`, the location its row lies in, `fake`, `tracker` (already counted)
and `served`. A queue's length is `Len`, the per-thread queues are the reads of one
core in their order.

*FcfsScheduler.* `epoch_moves` is `prob_epoch_tracker_temp` as long as `refreshdone`
is set; `prob_epoch` is kept in the modes that read it. When an activation is counted
in a mode that asks Hydra, `hydra` may insert a read of the row's counter and a write-back
of another counter, whatever the queues' lengths, each into the queue of the channel that
its own address lies on (`memory_controller.c:640`, `memory_controller.c:712`). So of an
activation on this channel both, either or none arrive here (`CounterQueues` in
`ServeHead`), and so may those of an activation on another channel (`OthersAsk`), before
or after this channel's turn. A counter's request is marked `fake`; that the test at
`scheduler.c:318` lets the counter exactly at the boundary ask for a counter too is why
`Asks` does not look at `fake`. `OthersMove` is the turn of a channel before this one that
moves a row: this channel sees `skipit`, which is raised by the longest such move.

*ScanSchedulers.* `scheduler` says which of the eight functions runs. Each is an
operator of its own; what they share (drains, the search for the first request that
can be issued, the closing of rows) is stated once. `sandbox` is `new_sandbox_mode1`:
the number of requests left in it, which lie at the front of the queue, and whether
rows are being closed. `slot` is what is left until `perthread_timer_end`, `time_diff`
what is left of a gap, `cycle` is `CYCLE_VAL` modulo all the periods. `bin_active` is
bin 0: `inter_arrival_time` is set to 0 before it is used. `pageRead` is history.

*AddressMapping.* Shifts and masks by `log_base2` of a size are quotients and
remainders of it; the assumption that sizes are powers of two is what makes them so.
`generate_random_addr` is the set of addresses it may return.

*PhysicalMemory.* `Cell` is `calc_dram_addr` of the physical address that
`os_v2p_lineaddr` makes of a frame and a line. It adds `ADDRESS_MAPPING` to the state,
which no step changes.

*Hydra.* A step is one channel's turn in a DRAM cycle: an activation that is
counted (`Activate`), none (`Pass`), or, when the cycle ends a period, its call
of `resetCC` before either. `cra_filter` and `actcnt` are the code's, `cached` is
what `CCache` holds, `inserted` the requests the call put into the queues, `fired`
what it returned. `hashaddr` is a permutation, so it only decides which places
share a filter entry: the constant `Group`. The filter is on
(`CRA_FILTER_ENTRIES` is not 0), as in every configuration.

*CoreLoop.* A step is one instruction retired or fetched, or the end of a core's
turn; `phase` says which part of the cycle of `main` it is, `val` and `corecount`
whose turn. `entry` holds `comptime` and `next` of a slot with its `optype` and
`mem_address`. Completion times are kept as what is left of them, and `BIGNUM`
stays `BIGNUM`. The memory controller appears as the queues of unserved requests
and the two numbers of served ones that `clean_queues` has not removed; which
request the scheduler serves, or whether it moves a row instead, which stalls everything
and may happen again during a stall (`MoveRows`), is left open, and so are the trace, hits and victims of the cache.
`owes` is history. `expt_done` ends the loop, so deadlock is not checked.

*PageTables.* `pt` is the hash table as a function from pages to frames, `ipt`
with `refptr` the inverted table and the hand of the clock, `last_xlation` the
shortcut of each core. A sweep of the clock is one step. `stolen` is history.

*LastLevelCache.* `entries` are the lines of a set, with the fields the policies
read. `unwritten`, `used`, `installed` and `wasReset` are history. `user`
says which of the two caches it is: the last-level cache, which writes lines and is
never reset, and the counter cache, which installs dirty lines only.

*RowIndirection.* `mapping` and `headpointer` are the code's; `last` and `home`
are history, the moves as the calls ordered them.

Definitions whose comment starts with "Fault:" are not part of the model. Each is
a plausible mistake in the definition after it, and putting it in its place makes
one of the properties fail: this shows that the property depends on the code.

## 3. Runs

| Run | Instance | What it shows |
|---|---|---|
| `misra_gries` | 4 rows, 2 entries, threshold 3, 8 activations, 1 extra clearing | no under-count, the bound on a period with extra clearings, refinement of `RowTracker`: every row mitigated in time |
| `hydra` | 3 rows, 2 spares, 2 groups, 2 channels, threshold 3 of which the filter takes half | every place is noticed after at most 2 activations more than the threshold: refinement of `RowTracker`; the indirection table agrees with the history and charges its moves |
| `dram_channel` | 1 rank, 2 banks | activation spacing, refresh of every window, a quiet rank at a forced refresh, coherence of the banks of a rank |
| `fcfs_safe` | modes 2, 3, 4 and 6, 2 ranks, 1 bank, 3 operations, 1 counter request, 1 end of a period | mitigations end before rows open again, orders are issued with their length, data bursts of two ranks never overlap, no request of a trace stands beyond its queue's limit when counter requests land there |
| `fcfs_live` | modes 2 and 4, 1 rank, 1 bank, 2 rows, 2 operations, 1 counter request, 1 end of a period, 1 move of another channel | orders, moves of the period, reads and write drains are served |
| `scan` | 8 schedulers, 2 cores, 1 bank with 2 rows, 2 operations | reads and writes are served, a closed page is read once, the limits of the queue under `fs` |
| `core` | 1 core, 3 slots, 2 lines, with fairness | a served request finds its own entry, merged reads are served, loads and stores are counted, the queues keep their limits, refinement of `InOrderWindow`, the run ends |
| `page_tables` | 2 cores, 3 pages each, 3 frames of 4 lines, 2 channels of 2 banks, 2 rows and 2 columns, mappings 1, 2 and 3 | inverse tables, what the shortcut can get wrong, lines never share a cell, random addresses reach their channel |
| `cache` | 3 sets, 2 ways, 4 lines, 5 accesses, all policies, both users | no line twice, no write lost, also across resets; the oldest is evicted |
| `dram_power_up`, `core_shared`, `core_drained` | as above; two cores in `core_shared` | disagreements, section 6 |

A constant that the configuration file of the program sets once (`MITIGATION_MODE`,
the replacement policy, the user of a cache) is a variable that `Init` draws from a
constant set and no step changes, so that one run covers several of its values.

**Bounds.** The tracker's table with two entries for four rows is the
smallest in which rows evict each other, the spill counter moves and
an evicted row returns; with `MaxActs = 8` a row can reach its threshold twice.
Two spares and three rows let the head wrap, evict, and reuse the row's own spare.
DRAM timings are a few cycles each, all different where a comparison of two of
them decides something (`T_RAS` against `T_RCD`, `T_XP` against `T_XP_DLL`, a move
shorter than the burst of refreshes, a swap and a stall as long as it); the refresh window is
long enough for an activation, a column access, a precharge and a power-down
between two bursts, and short enough that every state recurs. The code's burst of
8 refreshes is 2 here: the deadline still moves with each refresh, and may be
approached by one or jumped over by a wrong one. Schedulers are modelled on one
channel. What another channel does to it is `skipit`, which `OthersMove` raises, and the
counter requests that `OthersAsk` inserts; the tables that channels share are those of
`Hydra`, which has two channels. `MaxFetches`, `MaxEpochs`, `MaxOthers` and `MaxCounters`
limit the trace, the ends of a period, the moves of other channels and the counter
requests, of whatever channel's activation. `fcfs_safe` has no moves of others:
they only delay, and 3 operations on two ranks are what its safety needs. One counter
request is enough to fill a read queue of one place before main looks at it, or to
stand behind a full one, and to take a write queue of two beyond its limit; the theorem
about the limits bounds neither the requests nor the capacities. The end of a period is
a case of its own in modes 4 and 5 only (`Periodic`): elsewhere nothing reads the tallies
it clears.

Two ranks with one row each make bursts of different ranks follow each other and
mitigations of one rank be ordered while the other's are pending; one rank with two
rows makes requests conflict. Two write-backs exceed `HI_WM`. The modes are chosen
so that every branch of `IssueOrder` is taken: swaps (mode 2 with `RQENABLE` off, in
`fcfs_live`), moves of the ideal table (mode 2 with it on, in `fcfs_safe`), stalls (3),
moves with the period (4), moves one at a time (6); modes 1, 5 and 7 execute their orders
like 2, 4 and 6. Mode 2 asks Hydra, so that both runs have counter requests.

In `scan` two operations are enough for a conflict of two rows, for two cores that ask
at once, for a sandbox of two, and for a write drain (`HI_WM` is 1). `T_RTP` is 2
there: a row cannot be closed in the cycle after its read, so the wait for closing
lasts. One slot is as long as a row conflict takes to be resolved (`SlotLps`), the other
three times as long (`SlotTp`); the gap of `bta` is shorter than a refresh interval, as 244 processor cycles
are; a bin has two credits, which two reads of an epoch use up. `Cycle` makes the clock
finite and holds a whole number of every period.

In `hydra` half of the threshold is a fraction, so the filter counts further than
the counter starts, and two channels clear one after the other: both reasons for
a late order occur. A slack of one activation is not enough, TLC says. One core
with three slots and more instructions than slots makes head and tail wrap and
chains of three merged reads possible; a write queue of one line makes every
instruction compete for the last place. Three frames for six pages let the clock
evict pages of the own and of the other core and sweep a full round; they fill 12 of
16 lines, so that every field of the address takes both values except the rank. Five accesses
fill a set of two ways, evict, hit and return. `MaxAccesses` is the only bound on
`LastLevelCache`; `CoreLoop`, `Hydra` and `PageTables` are finite as they are.

The state of `DramChannel` is finite without a bound: countdowns stop at zero.
Deadlock is checked in every run but those of `CoreLoop`, whose program stops, and
of `LastLevelCache`, where the bound on the accesses ends a behaviour.

**Fairness.** `update_memory` and the scheduler are called in every DRAM cycle by
the one loop of `main`, so the specifications assume weak fairness of `Tick`, or of
`Schedule` and `update_memory`. Nothing is assumed of the trace (`Fetch` has no
fairness), of other channels (`OthersMove`, `OthersAsk`), of the tracker's answer, or of which command of the channel's interface
is used. `core` assumes weak fairness of the loop's next step, that DRAM cycles come
again and again (they do, every `PROCESSOR_CLK_MULTIPLIER` cycles), and strong
fairness of the service of some waiting request, whichever, and that `skipit` is not
raised for ever (`<>[][skipit' <= skipit]_vars`). The latter is no more than that a trace
ends: a move that raises `skipit` is ordered by the first activation of a request, which
orders two at most, or repeats such an order at the end of a period, and the tallies
that are repeated are cleared with it. So mitigations may keep the scheduler from
serving, but not for ever. `fcfs_live` shows more than that for
`schedule_fcfs`. That some request is served suffices for `ExperimentEnds`, because a
request that is left waiting fills the reorder buffer behind it. `ExperimentEnds` is
claimed of one core, the instance of `core`: with two that share a line a merged read may
wait for nobody (`core_shared`) and the run does not end.

`scan` claims less for two schedulers, because the code gives less. `lps` admits a core
when the core before it asks for a read after its slot; if that core has no more reads,
the later cores are never admitted, and as long as their reads wait, writes below
`HI_WM` wait too. The properties are claimed once all are admitted (`Admitted`). `fs`
never lets the read queue be empty, so it drains only what exceeds `HI_WM`.

## 4. Proofs

`MisraGriesProofs` proves, for every set of rows, threshold, `SWITCH_RATE` and
`MaxActs` that satisfy `MisraGriesAssumption`, everything the run `misra_gries`
checks, and what it rests on: that the counters hold exactly the activations
(`ActivationsConserved`) and the spill counter stays below the threshold
(`SpillNeverReachesThreshold`). The inductive invariant `IInv` of `MisraGries` is

* `Counted`: the types, `spill <= count[e] <= acts` for every entry, and that the
  counters and the spill counter add up to the activations;
* `DuplicatesUnused`: `calloc` leaves row 0 in every entry, so row 0 is in the
  table more than once; but the later copies are unused;
* `OverEstimate`: what is to be proved;
* `Residue`: since its last order a row has collected no more than its counter is
  past the last multiple of `Rth`, or than the spill counter if it has no entry;
* `PeriodResidue`: what each clearing in the middle of a period may hide.

`OverEstimate` alone is not inductive: a row that re-enters takes the spill
counter's value and one more, which is enough only because no entry lies below the
spill counter. `NoUnmitigatedRow` (implied by the refinement) needs `SpillBelowThreshold`, and that needs the
size of the table: if the spill counter reached `Rth`, the `MgEntries` entries and
the spill counter would hold more than `MaxActs` activations. The sum is expressed
as the cardinality of a set of pairs (`Units`), so that no recursion is needed.
`TrackerRefinement` shows every step of `MisraGries` to be a step of `RowTracker`.

`HydraProofs` begins with the table: it proves for any rows and any number of spares that the table
is its own inverse (`NoSharedSpare`), that it is what the history says
(`MovesRemembered`) and that the charge is exact (`ChargeIsExact`). The invariant
is `TypeOK /\ Paired /\ LastMovesHold`; `Paired` supplies what makes the eviction
of exactly one row enough.

It then proves for any rows, spares, groups, channels, cache and threshold that
`hydra` implements `RowTracker` with the threshold `Rth + Slack`
(`HydraRefinement`). Each step of `Hydra` is a step of `RowIndirection` or leaves it
alone (`HydraUsesTable`), so the theorems about the table carry over; with them no
two rows are counted at one place (`NoSharedCounter`). The invariant `Tracking` is

* `FilterBound`: a filter entry never counts past its share rounded up;
* `HandedOver`: a place has a counter only if its group has used up its share, so
  that filter and counter are never counted alternately;
* `NeverFarBehind`: what is to be proved;
* `EndOfPeriod`: from the first clearing at the end of a period to the end of that
  cycle a place was activated at most once, by a row of an earlier channel that is
  still there. It needs `Paired`: without it two rows could add up at one place,
  and the later channels' clearings would hide more than one activation.

The assumptions are: the filter takes less than the whole threshold (with 100 % a
row would be noticed one activation later still); `calloc`'s row 0 is a row; the threshold is at least
`SWITCH_RATE`; the rows that are requested are not spares.

`PhysicalMemoryProofs` begins with the page tables: it proves for any cores, pages and number of frames that the two
tables are inverses (`TablesAlwaysAgree`) and that last translations of two cores
name one frame only if one of them has outlived its page (`CoresAlwaysApart`). The
invariant adds to both that a last translation that is not `stolen` is what the
page table says; without it nothing ties the shortcut to the tables.

It then proves, under every mapping and for any numbers of channels,
ranks, banks, rows and columns that are powers of two, that no cell belongs to two
lines (`CellsApart`) and that random addresses go to their channel
(`RandomAddressOnChannel`). The argument is about digits: a remainder and a quotient
determine a number (`Digits`), so five remainders determine a number below the product
of the sizes (`SlicedApart`), and the product does not depend on the order
(`CapacityInOrder`). A frame's lines are numbered apart (`LinesOfFrames`), and that two
pages have two frames is `TablesAlwaysAgree`, carried over by `MemoryUsesTables`. That
the frames fit into the memory is an assumption (`MemoryAssumption`): the code compares
the widths of the fields with `ADDRESS_BITS`, but `TOTALOSPAGES` with nothing. That a
line's number fits into 32 bits is another (`WidthAssumption`): `os.c:183` multiplies the
frame by `lines_in_page` in 32 bits, and nothing compares the product with them. The
configurations have 4194304 pages of 64 lines, which is 2^28.
`RandomAddressOnChannel` leaves `ADDRESS_MAPPING` 2 out, see section 6.

`LastLevelCacheProofs` proves for any sets, ways and lines, and for all policies, that
the fields keep their widths (`CacheTypes`), that no line is held twice
(`CacheHoldsLinesOnce`) and that no write is lost (`CacheLosesNoWrite`). Which way a
policy chooses does not matter to the last two. The invariant adds

* `Placed`: a valid line lies in its set, so that a lookup that finds nothing means
  the line is nowhere, and an eviction concerns a line of this set only;
* `AllDirty`: the counter cache holds dirty lines only. `hydra` hits it with a read
  even when it counts, so without this a hit could leave a counter unwritten.

For the types it matters that the searches of SRRIP and DRRIP take from every way no
more than the lowest counter.

`CacheEvictsTheOldest` does look at the choice. For LRU, `LastUsed` says that
`last_access` of a valid entry is when its line was used. For FIFO nothing in an entry
says when it came, so `FifoOrder` says it of the ways: those before the pointer are
filled, the others all or none, and from the pointer on and round the lines came in the
order of their ways. A reset breaks that, because it empties ways and leaves the pointer.

### The channel

`DramChannelProofs` is about `ChannelSafety`, the channel's specification without
fairness: any commands in any order, as long as each is allowed when it is issued. Each
command is described once by what it does to the clocks of one bank; after that the
invariants are inequalities between a few numbers of a rank, one for each property.

| Invariant | What it says | Gives |
|---|---|---|
| `ChannelTypeOK` | the types, a lemma all the others cite | `ChannelTypes` |
| `DeadlineKept` | `toIssue` is no later than `IssueDeadline` of the refreshes still owed, lies ahead while some are owed and none is forced, and behind once they are | `EveryWindowRefreshed`: the deadline is compared with `==` and moves with every refresh, but is never stepped over |
| `ColumnOpen` | a bank with a column access in this cycle has its row open | `RanksCoherent`: an auto-precharge finds its row, and the banks of a rank sleep and wake together |
| `ActCovered` | `next.act` outlasts what is left of `T_RC` and `T_RRD`, and the deadline what is left of `T_RAS` | `ActivationsSpaced`: a forced refresh overwrites `next.act`, but then only `T_RP` of the row cycle is left, and the refreshes take longer |
| `BusCovered` | while a burst is on the bus, `next.read` and `next.write` of every bank cover it, and `T_RTRS` for another rank | `BusExclusive` |
| `QuietBefore` | a clock that closes a row, or `next.refresh`, ends by the deadline, unless a refresh or a mitigation set it | `ForcedQuietly` |

`ForcedQuietly` has the hypothesis `PowerUpMeetsDeadline`, that no rank is woken up past
its own deadline, and it needs it: the code asks rank 0's deadline, and `dram_power_up`
shows two ranks where that is wrong. `OneRankQuiet` shows that with one rank, the
channel of the run, the hypothesis always holds; `ForcedQuietlyUnderFcfs` and
`ForcedQuietlyUnderScan` do without it for any number of ranks, since no scheduler powers
a rank down.

Assumed of the timings (`DramAssumption`, `DeadlineAssumption`): they are positive;
`T_RC = T_RAS + T_RP`; `T_RRD <= T_RC`; `T_XP <= T_XP_DLL`; the window holds its burst
of refreshes and a precharge; any one operation and a precharge fit before the first
deadline. The `.vi` files satisfy all of it: `8Gb_x8.vi` has `T_RAS` 51, `T_RC` 73,
`T_RRD` 6, `T_RFC` 560, `T_REFI` 12480, `T_XP` 5, `T_XP_DLL` 20, so that a window of
8 `T_REFI` has 95338 cycles before the deadline.

### The schedulers

`FcfsSchedulerProofs` and `ScanSchedulersProofs` first show that the schedulers drive the
channel through its interface only: every step is a step of `ChannelSafety` or leaves the
channel alone (`SchedulerDrivesChannel`, `ScanDrivesChannel`). So all theorems about the
channel hold under them, and `BusExclusiveUnderFcfs` and `BusExclusiveUnderScan` are
instances. What is left is about queues and orders.

* `OrdersIssued` needs the types only: an order that is taken back starts a mitigation
  of its length in that cycle, and an order is only given where there is none.
* `ActivatedAfterMitigations` rests on `OccupationCovered` (`next.act` outlasts the
  mitigation under way, and no mitigation outlasts `T_RP` and a burst of refreshes),
  `RanksAwake` and `OrdersFit` (two moves at most are ordered at once). The forced refresh overwrites
  `next.act`, so the theorem assumes `MitigationsFit`: no mitigation is longer than the
  burst. `T_SWAP` 2048 and two `T_MOVE` 1024 are no longer than 8 `T_RFC` = 4480.
  BlockHammer's `T_STALL`, 20480000 divided by `TRH - BLACKLIST`, need not be; of longer
  stalls the theorem says nothing, and neither does the run, whose stall is as long as
  the burst.
* `SchedulerTypesAndLimits`: `hydra` inserts counter requests without a look at the limits,
  from activations of any channel, so a queue has no limit of its own: the
  theorem is about the requests of the traces, none of which ever stands beyond the
  limit, whatever number of counter requests comes between. `QueuesPlaced` is the
  invariant: only the head is served, so a served request stands at the head, and its removal
  brings everyone one place forward; a trace's request enters only below the limit;
  a counter's request goes to the end and moves nobody.
* `ScanTypesAndLimits` bounds the queues of the other schedulers. `fs` invents a read for
  a core that has none in the queue, so invented reads belong to different cores
  (`FakesApart`) and there are no more of them than cores; the others are what arrived
  (`RealFit`). The types need `SandboxFits` too: the sandbox of `pr` counts reads that are in
  the queue, except one that was served and leaves with the next cycle.
* `RowsReadOnce`: `PagesWait` says that a row that was read and is still open waits to be
  closed, under `closepage` and `fs`, and no read is served while rows wait. Drains go on
  meanwhile and may close and open rows; an activation clears `pageRead`, which is seen by
  `sinceAct` falling to 0, and `ActCovered` says that it was not 0 before.

Each of the eight scan schedulers has its own lemma (`frfcfsTurn` to `camouTurn`): whatever it
decides, its turn is one of four (`Turn`): a request gets its command, a row is closed, or nothing
happens, or `fs` invents a read. The invariants are then proved for `Turn`.

`Unserved`, the removal of served requests, keeps a subsequence. The lemmas about it (last
section of `DramChannelProofs`) are proved by induction over its recursive function without a
theorem that takes a predicate: a statement that failed for some prefix would fail for a
shortest one (`SmallestNat`, from the well-foundedness of `<`), and does not fail there. The same
least number serves `CoreLoopProofs`.

### The reorder buffers

`CoreLoopProofs` proves for any number of cores, buffers and queues of any size and any
latencies what the run `core` checks but for its liveness. Every step of `CoreLoop` has
one of five effects (`Effect`): the memory answers a request, an instruction
leaves, one enters without waiting, merged with a request, or with a request of its own;
otherwise nothing but time passes. The invariant `RobInv` is

* `Typed` and `TailFollows`: the tail is as far behind the head as instructions are in
  flight, so that ages (`Age`, the distance from the head) order the slots;
* `RequestsOwn`: a request names a load in flight that waits for its line. This is
  `RequestOwnsItsEntry`, and it carries itself only with
* `LinksForward`: a link leads to a younger load of the same line without a request of
  its own. Otherwise a load could leave before the one that completes it, and its slot be
  completed under another instruction;
* `Counted`: `loadq` and `storeq` are the numbers of loads and stores in the window;
* `FullNoticed`: `readqfull` and `writeqfull` are set as soon as a queue is full.

`SecondReadsServed` and `BuffersImplementInOrder` add `Served` (a waiting load has a request
or an entry that links to it) and `Owing` (a load that is owed a line waits at or behind the
one that asked). Both have the hypothesis `LinesOfTheirOwn`, no line belongs to two
cores: with a shared line `SecondReadIsServed` is false, as `core_shared` shows. The run
`core` has one core, which satisfies it. In the refinement of `InOrderWindow` the window is the slots
from the head on; entering appends (`Appended`), and each of the five effects is one action of the
window or a stutter.

### What is not proved

Some theorems state what no run checks because a property that depends on it is checked
instead: `NoSharedSpare`, `HydraNeverFarBehind`, two of Misra-Gries, and
`DeadlinesKept`. `DataBusExclusive` is checked under `schedule_fcfs` only and proved under all schedulers.

Every safety property of a passing run is a theorem. Only model-checked are the liveness
properties (`MitigationServed`, `PeriodServed`, `ReadsServed`, `WritesDrained`,
`WritesServed`, `ExperimentEnds`), which are out of the prover's reach, and the three
runs that expect a violation.

## 5. Not modelled, and why

Statistics and the power model decide nothing. The configuration reader supplies
constants. `is_T_FAW_met` always returns 1, so no four-activation window exists.
`MonteCarlo.cpp` is a statistical experiment.

* `schedule_fsopen`, `bl`, `blopen`, `pq`, `pb`, `bp` and `secmc` have no caller: the
  schedulers that `main` can be started with are all modelled. The prefetch buffers,
  `generate_random_addr_bs` and `insert_requestID_prefetch` belong to them.
* No scheduler issues the power-down, the refresh, the precharge-all or the
  auto-precharge command. `DramChannel` has them all the same, because they are what
  the controller offers; the runs of the schedulers do not reach them.
* `CRA_ENABLE_RAI` is 0 in every configuration. With 1, a counter's read counts in both
  queues (`memory_controller.c:650`): more than `HI_WM` of them waiting would start a
  drain of an empty write queue that nothing ends.
* Several channels are not composed in one module; `OthersMove`, `OthersAsk` and the
  channels of `Hydra` stand for what they do to each other. Which counter's address lies
  on which channel is left open. `runcore` is an array of cores indexed by the
  channel (`main.c:313`), which with fewer traces than channels has no element for
  some of them.
* `clean_temp_queues` asserts on a node it has just freed (`memory_controller.c:959`).
  The assertion holds for what the node held.
* A read that finds a read invented by `fs` at the same address is merged with it and
  gets no answer; `fs` draws addresses from the whole memory, so `ScanSchedulers`
  leaves the merging out, as do the other schedulers' modules (`CoreLoop` has it).
* Of `cache.c`, the functions nobody calls are left out. The draw of leader sets
  (`cache.c:83`) is an arbitrary choice: the code's loop does not end in a cache with
  no more sets than leaders, which no configuration has.

## 6. Disagreements between code and comments

1. `dram_power_up`: `is_powerup_allowed` (`memory_controller.c:1401`) asks whether
   waking a rank would miss its refresh deadline, but reads rank 0's deadline.
2. `core_shared`: a read that finds another core's read in the queue is given no
   request and no link (`main.c:989`), although the comment at
   `memory_controller.c:575` counts on the original request to serve it. Cores
   share lines when `BM_MODE` is 0, because the core prefix announced at
   `main.c:522` is not applied to the addresses, and through a last translation
   that has outlived its page (`CoresKeepApart` says exactly when).
3. `core_drained`: the test that the write queues are drained (`main.c:1170`)
   compares `NUM_CHANNELS` with itself; the run ends with writes waiting.

Without a run:

* the comment at `scheduler.c:735` lets a drain start also when no read is pending; the
  code of `schedule_fcfs` that did this is commented out, and `Draining` is what is left.
  The other schedulers do it;
* a wake-up from a slow power-down is given `T_XP`: the state is overwritten before it
  is compared (`memory_controller.c:1558`), so `T_XP_DLL` is never waited for. No
  scheduler powers a rank down;
* `schedule_lps` and `schedule_tp` announce "2 requests per turn : 44\*4\*2 = 352
  cycles" (`scheduler.c:1197`, `scheduler.c:1288`); the slots are 528 and 1760;
* `schedule_frfcfs` asks the tracker and takes the order back without executing it
  (`scheduler.c:450`, the call is commented out);
* with `ADDRESS_MAPPING` 2, `generate_random_addr`, `check_dram_addr` and
  `get_dram_channel_addr` take the channel from other bits than `calc_dram_addr`: the
  assertion in `main` passes and the request goes to another channel. No configuration
  uses mapping 2.

## 7. Plan

1. `FcfsScheduler` with `MisraGries` in place of the open answer, to bound
   activations rather than counted ones (`scheduler.c:905` counts a request once).
2. The safety part of liveness as theorems: while an order is kept or a read waits, which
   steps can and which cannot undo it, so that TLC is left with the fairness alone.
3. More of the scan schedulers' own promises: what the slots of `lps` and `tp` and the
   credits of `camou` let through.
