---------------------------- MODULE DramChannel -----------------------------
(***************************************************************************)
(* One DRAM channel of memory_controller.c: the bank states, the earliest  *)
(* cycles next_act, next_pre, ... of each bank, the refresh window of each *)
(* rank, and every command of the controller's interface.                  *)
(*                                                                         *)
(* A cycle number of the code appears here as the number of DRAM cycles    *)
(* that are left until it: the code only compares such numbers with        *)
(* CYCLE_VAL and sets them to max(CYCLE_VAL + delay, old), so a countdown  *)
(* that stops at zero behaves in the same way and keeps the state finite.  *)
(* Tick is one call of update_memory(); between two Ticks the scheduler    *)
(* issues at most one command, and perhaps an auto-precharge with it.      *)
(***************************************************************************)
EXTENDS Integers, FiniteSets

CONSTANTS
  Ranks, Banks,      \* 0..NUM_RANKS-1 and 0..NUM_BANKS-1
  Rows,              \* rows of a bank
  T_RCD, T_RP, T_CAS, T_RC, T_RAS, T_RRD, T_WR, T_WTR, T_RTP, T_CCD, T_RFC,
  T_REFI, T_CWD, T_RTRS, T_PD_MIN, T_XP, T_XP_DLL, T_DATA_TRANS,
  Burst,             \* refreshes owed per window, 8 in the code
  T_SWAP, T_MOVE, T_STALL   \* lengths of the row-hammer mitigations

Timings == {T_RCD, T_RP, T_CAS, T_RC, T_RAS, T_RRD, T_WR, T_WTR, T_RTP, T_CCD,
            T_RFC, T_CWD, T_RTRS, T_PD_MIN, T_XP, T_XP_DLL, T_DATA_TRANS}

Window == Burst * T_REFI

\* What the .vi files give: the burst fits in its window, a row cycle is a row's
\* active time and its precharge and longer than the distance of two activations
\* in a rank, and the slow wake-up is the slower one.
ASSUME DramAssumption ==
  /\ 0 \in Ranks /\ IsFiniteSet(Ranks)
  /\ 0 \in Banks /\ IsFiniteSet(Banks)
  /\ Rows \subseteq Nat
  /\ Timings \subseteq Nat \ {0} /\ {T_SWAP, T_MOVE, T_STALL} \subseteq Nat
  /\ Burst \in Nat \ {0} /\ T_REFI \in Nat
  /\ Window > T_RP + Burst * T_RFC
  /\ T_RC = T_RAS + T_RP /\ T_RRD <= T_RC /\ T_XP <= T_XP_DLL

NoRow == -1

ClosedStates == {"IDLE", "PRECHARGING", "REFRESHING"}
PoweredUp == ClosedStates \cup {"ROW_ACTIVE"}
PowerDowns == {"PRECHARGE_POWER_DOWN_SLOW", "PRECHARGE_POWER_DOWN_FAST",
               "ACTIVE_POWER_DOWN"}
States == PoweredUp \cup PowerDowns

\* The clocks next_act, ..., next_powerup of a bank.
Clocks == {"act", "pre", "read", "write", "refresh", "powerdown", "powerup"}

VARIABLES
  state, active_row,          \* per rank and bank
  next,                       \* per rank, bank and clock: cycles until it allows
  cas_issued,                 \* cas_issued_current_cycle: 0, 1 read, 2 write
  command_issued,             \* command_issued_current_cycle
  toCompletion,               \* per rank: cycles to next_refresh_completion_deadline
  toIssue,                    \* per rank: cycles to refresh_issue_deadline
  num_issued,                 \* num_issued_refreshes
  forced,                     \* forced_refresh_mode_on
  \* history, read by no guard:
  sinceAct,                   \* per rank and bank: cycles since the last ACT, to T_RC
  bus,                        \* the last data burst: its rank, cycles to its end
  occupied                    \* per rank: cycles left of its refresh, swap, move or stall

bankVars == <<state, active_row, next>>
refreshVars == <<toCompletion, toIssue, num_issued, forced>>
history == <<sinceAct, bus, occupied>>
channelVars == <<bankVars, cas_issued, command_issued, refreshVars, history>>

Later(x, y) == IF x > y THEN x ELSE y

\* Clocks n after each clock in the domain of d waits at least its delay.
Raised(n, d) ==
  [k \in Clocks |-> IF k \in DOMAIN d THEN Later(n[k], d[k]) ELSE n[k]]

\* The same delay for several clocks.
Delay(ks, d) == [k \in ks |-> d]

PerBank(v) == [r \in Ranks |-> [b \in Banks |-> v]]

\* Fault: every refresh issued moves the deadline forward instead of back.
IssueDeadlineWrong(c, n) == c - T_RP - (Burst + n) * T_RFC

\* refresh_issue_deadline of a window that ends in c cycles, n refreshes issued.
IssueDeadline(c, n) == c - T_RP - (Burst - n) * T_RFC

ChannelInit ==
  /\ state = PerBank("IDLE")
  /\ active_row = PerBank(NoRow)
  /\ next = PerBank(Delay(Clocks, 0))
  /\ cas_issued = PerBank(0)
  /\ command_issued = FALSE
  /\ toCompletion = [r \in Ranks |-> Window]
  /\ toIssue = [r \in Ranks |-> IssueDeadline(Window, 0)]
  /\ num_issued = [r \in Ranks |-> 0]
  /\ forced = [r \in Ranks |-> FALSE]
  /\ sinceAct = PerBank(T_RC)
  /\ bus = [rank |-> 0, left |-> 0]
  /\ occupied = [r \in Ranks |-> 0]

-----------------------------------------------------------------------------
(* What every command of a rank asks first: the channel is free, no forced  *)
(* refresh is under way and the command's own time t ends by the deadline.  *)

CommandSlot(r) == ~ command_issued /\ ~ forced[r]
Fits(r, t) == t <= toIssue[r]
Ready(r, b, k) == next[r][b][k] = 0

\* Fault: the refresh deadline is not looked at.
ActivateUntimely(r, b) ==
  /\ CommandSlot(r)
  /\ state[r][b] \in ClosedStates
  /\ Ready(r, b, "act")

is_activate_allowed(r, b) ==
  /\ CommandSlot(r) /\ Fits(r, T_RAS)
  /\ state[r][b] \in ClosedStates
  /\ Ready(r, b, "act")

is_read_allowed(r, b) ==
  /\ CommandSlot(r) /\ Fits(r, T_RTP)
  /\ state[r][b] = "ROW_ACTIVE"
  /\ Ready(r, b, "read")

WriteTime == T_CWD + T_DATA_TRANS + T_WR

\* What the .vi files give: a new window has room for every command, and for the
\* precharge after it, before its deadline.
ASSUME DeadlineAssumption ==
  /\ \A t \in {T_RAS, T_RTP, WriteTime, T_XP} : t + T_RP <= IssueDeadline(Window, 0)
  /\ T_PD_MIN <= IssueDeadline(Window, 0)

is_write_allowed(r, b) ==
  /\ CommandSlot(r) /\ Fits(r, WriteTime)
  /\ state[r][b] = "ROW_ACTIVE"
  /\ Ready(r, b, "write")

is_precharge_allowed(r, b) ==
  /\ CommandSlot(r) /\ Fits(r, T_RP)
  /\ state[r][b] \in PoweredUp
  /\ Ready(r, b, "pre")

is_powerdown_fast_allowed(r) ==
  /\ CommandSlot(r) /\ Fits(r, T_PD_MIN + T_XP)
  /\ \A b \in Banks : state[r][b] \in PoweredUp /\ Ready(r, b, "powerdown")

\* Fault: open rows are not excluded from a slow power-down.
SlowWithOpenRows(r) ==
  /\ CommandSlot(r) /\ Fits(r, T_PD_MIN + T_XP_DLL)
  /\ \A b \in Banks : state[r][b] \in PoweredUp /\ Ready(r, b, "powerdown")

is_powerdown_slow_allowed(r) ==
  /\ CommandSlot(r) /\ Fits(r, T_PD_MIN + T_XP_DLL)
  /\ \A b \in Banks : state[r][b] \in ClosedStates /\ Ready(r, b, "powerdown")

WakeTime(s) == IF s = "PRECHARGE_POWER_DOWN_SLOW" THEN T_XP_DLL ELSE T_XP

\* What a queued request to bank b needs to wake its rank up.
is_wakeup_issuable(r, b) ==
  /\ ~ command_issued
  /\ state[r][b] \in PowerDowns
  /\ Ready(r, b, "powerup")
  /\ Fits(r, WakeTime(state[r][b]))

\* The scheduler's own power-up: bank 0 speaks for the rank, and the deadline
\* it is compared with is refresh_issue_deadline[channel][0].
is_powerup_allowed(r) ==
  /\ CommandSlot(r)
  /\ state[r][0] \in PowerDowns
  /\ Ready(r, 0, "powerup")
  /\ Fits(0, WakeTime(state[r][0]))

is_refresh_allowed(r) ==
  /\ CommandSlot(r)
  /\ \A b \in Banks : Ready(r, b, "refresh")

-----------------------------------------------------------------------------
(* The commands. *)

Command == command_issued' = TRUE

\* A data burst of rank r that starts l cycles from now.
Transfer(r, l) == bus' = [rank |-> r, left |-> l + T_DATA_TRANS]

\* Fault: the other banks of the rank may be activated at once.
AfterActivateOwnBank(b, c) ==
  IF c = b
  THEN [act |-> T_RC, pre |-> T_RAS, refresh |-> T_RAS,
        read |-> T_RCD, write |-> T_RCD, powerdown |-> T_RCD]
  ELSE [act |-> 0]

\* What an activation of bank b makes bank c of its rank wait for.
AfterActivate(b, c) ==
  IF c = b
  THEN [act |-> T_RC, pre |-> T_RAS, refresh |-> T_RAS,
        read |-> T_RCD, write |-> T_RCD, powerdown |-> T_RCD]
  ELSE [act |-> T_RRD]

Activate(r, b, row) ==
  /\ is_activate_allowed(r, b)
  /\ state' = [state EXCEPT ![r][b] = "ROW_ACTIVE"]
  /\ active_row' = [active_row EXCEPT ![r][b] = row]
  /\ next' = [next EXCEPT ![r] = [c \in Banks |->
       Raised(@[c], AfterActivate(b, c))]]
  /\ sinceAct' = [sinceAct EXCEPT ![r][b] = 0]
  /\ Command
  /\ UNCHANGED <<cas_issued, refreshVars, bus, occupied>>

\* Fault: the turn-around from a read to a write only binds the read's own rank.
AfterReadOwnRank(r, b, q, c) ==
  LET n == Raised(next[q][c],
                  [read |-> IF q = r THEN Later(T_CCD, T_DATA_TRANS)
                                     ELSE T_DATA_TRANS + T_RTRS,
                   write |-> IF q = r THEN T_CAS + T_DATA_TRANS + T_RTRS - T_CWD ELSE 0])
  IN IF q = r /\ c = b
     THEN Raised(n, Delay({"pre", "refresh", "powerdown"}, T_RTP))
     ELSE n

\* What a read of bank b of rank r makes bank c of rank q wait for.
AfterRead(r, b, q, c) ==
  LET busy == [read  |-> IF q = r THEN Later(T_CCD, T_DATA_TRANS)
                                  ELSE T_DATA_TRANS + T_RTRS,
               write |-> T_CAS + T_DATA_TRANS + T_RTRS - T_CWD]
      n == Raised(next[q][c], busy)
  IN IF q = r /\ c = b
     THEN Raised(n, Delay({"pre", "refresh", "powerdown"}, T_RTP))
     ELSE n

Read(r, b) ==
  /\ is_read_allowed(r, b)
  /\ next' = [q \in Ranks |-> [c \in Banks |-> AfterRead(r, b, q, c)]]
  /\ cas_issued' = [cas_issued EXCEPT ![r][b] = 1]
  /\ Transfer(r, T_CAS)
  /\ Command
  /\ UNCHANGED <<state, active_row, refreshVars, sinceAct, occupied>>

\* What a write to bank b of rank r makes bank c of rank q wait for.
AfterWrite(r, b, q, c) ==
  LET busy == IF q = r
              THEN [write |-> Later(T_CCD, T_DATA_TRANS),
                    read  |-> T_CWD + T_DATA_TRANS + T_WTR]
              ELSE [write |-> T_DATA_TRANS + T_RTRS,
                    read  |-> T_CWD + T_DATA_TRANS + T_RTRS - T_CAS]
      n == Raised(next[q][c], busy)
  IN IF q = r /\ c = b
     THEN Raised(n, Delay({"pre", "refresh", "powerdown"}, WriteTime))
     ELSE n

Write(r, b) ==
  /\ is_write_allowed(r, b)
  /\ next' = [q \in Ranks |-> [c \in Banks |-> AfterWrite(r, b, q, c)]]
  /\ cas_issued' = [cas_issued EXCEPT ![r][b] = 2]
  /\ Transfer(r, T_CWD)
  /\ Command
  /\ UNCHANGED <<state, active_row, refreshVars, sinceAct, occupied>>

\* A bank that starts to precharge in s cycles.
Precharging(n, s) ==
  Raised(n, Delay({"act", "powerdown", "pre", "refresh"}, s + T_RP))

Precharge(r, b) ==
  /\ is_precharge_allowed(r, b)
  /\ state' = [state EXCEPT ![r][b] = "PRECHARGING"]
  /\ active_row' = [active_row EXCEPT ![r][b] = NoRow]
  /\ next' = [next EXCEPT ![r][b] = Precharging(@, 0)]
  /\ Command
  /\ UNCHANGED <<cas_issued, refreshVars, history>>

PrechargeAll(r) ==
  /\ \A b \in Banks : is_precharge_allowed(r, b)
  /\ state' = [state EXCEPT ![r] = [b \in Banks |-> "PRECHARGING"]]
  /\ active_row' = [active_row EXCEPT ![r] = [b \in Banks |-> NoRow]]
  /\ next' = [next EXCEPT ![r] = [b \in Banks |-> Precharging(@[b], 0)]]
  /\ Command
  /\ UNCHANGED <<cas_issued, refreshVars, history>>

\* Precharge as soon as the read or write of this cycle allows it.  It needs no
\* command slot: it rides on the column command.
AutoPrecharge(r, b) ==
  LET start == Later(IF cas_issued[r][b] = 1 THEN T_RTP ELSE WriteTime,
                     next[r][b].pre)
  IN
  /\ cas_issued[r][b] # 0
  /\ Fits(r, start + T_RP)
  /\ state' = [state EXCEPT ![r][b] = "PRECHARGING"]
  /\ active_row' = [active_row EXCEPT ![r][b] = NoRow]
  /\ next' = [next EXCEPT ![r][b] = Precharging(@, start)]
  /\ cas_issued' = PerBank(0)
  /\ UNCHANGED <<command_issued, refreshVars, history>>

Asleep(s, kind) == IF s = "ROW_ACTIVE" THEN "ACTIVE_POWER_DOWN" ELSE kind

PowerDown(r, kind) ==
  /\ state' = [state EXCEPT ![r] = [b \in Banks |-> Asleep(state[r][b], kind)]]
  /\ active_row' = [active_row EXCEPT ![r] =
       [b \in Banks |-> IF state[r][b] = "ROW_ACTIVE" THEN @[b] ELSE NoRow]]
  /\ next' = [next EXCEPT ![r] = [b \in Banks |->
       [Raised(@[b], [refresh |-> T_PD_MIN])
          EXCEPT !.powerup = Later(T_PD_MIN, next[r][b].powerdown)]]]
  /\ Command
  /\ UNCHANGED <<cas_issued, refreshVars, history>>

PowerDownFast(r) ==
  /\ is_powerdown_fast_allowed(r)
  /\ PowerDown(r, "PRECHARGE_POWER_DOWN_FAST")

PowerDownSlow(r) ==
  /\ is_powerdown_slow_allowed(r)
  /\ PowerDown(r, "PRECHARGE_POWER_DOWN_SLOW")

\* The new state is stored before the old one is tested for a slow power-down,
\* so the branch that waits for T_XP_DLL is never taken.
WakeUp(r) ==
  LET awake(s) == IF s \in {"PRECHARGE_POWER_DOWN_SLOW",
                            "PRECHARGE_POWER_DOWN_FAST"}
                  THEN "IDLE" ELSE "ROW_ACTIVE"
  IN
  /\ state' = [state EXCEPT ![r] = [b \in Banks |-> awake(state[r][b])]]
  /\ active_row' = [active_row EXCEPT ![r] =
       [b \in Banks |-> IF awake(state[r][b]) = "IDLE" THEN NoRow ELSE @[b]]]
  /\ next' = [next EXCEPT ![r] = [b \in Banks |->
       Raised(@[b], Delay(Clocks \ {"powerup"}, T_XP))]]
  /\ Command
  /\ UNCHANGED <<cas_issued, refreshVars, history>>

PowerUp(r) == is_powerup_allowed(r) /\ WakeUp(r)
PowerUpRequest(r, b) == is_wakeup_issuable(r, b) /\ WakeUp(r)

\* What a rank needs before it can start to refresh: to leave its power-down and
\* to close its open rows.  In a power-down bank 0 speaks for the rank.
Extra(r) ==
  CASE state[r][0] = "PRECHARGE_POWER_DOWN_SLOW" -> T_XP_DLL
    [] state[r][0] = "PRECHARGE_POWER_DOWN_FAST" -> T_XP
    [] state[r][0] = "ACTIVE_POWER_DOWN" -> T_XP + T_RP
    [] OTHER -> IF \E b \in Banks : state[r][b] = "ROW_ACTIVE" THEN T_RP ELSE 0

\* Fault: next_act is forgotten.
RefreshClocksNoAct == {"pre", "refresh", "powerdown"}

RefreshClocks == {"act", "pre", "refresh", "powerdown"}

Busy(r) == state' = [state EXCEPT ![r] = [b \in Banks |-> "REFRESHING"]]

Refresh(r) ==
  /\ is_refresh_allowed(r)
  /\ num_issued' = [num_issued EXCEPT ![r] = @ + 1]
  /\ Busy(r)
  /\ active_row' = [active_row EXCEPT ![r] = [b \in Banks |-> NoRow]]
  /\ next' = [next EXCEPT ![r] = [b \in Banks |->
       Raised(@[b], Delay(RefreshClocks, Extra(r) + T_RFC))]]
  /\ occupied' = [occupied EXCEPT ![r] = Extra(r) + T_RFC]
  /\ Command
  /\ UNCHANGED <<cas_issued, toCompletion, toIssue, forced, sinceAct, bus>>

\* issue_swap, issue_move and issue_stall for d cycles.  A swap of a rank in a
\* precharge power-down asks for rw = T_RCD more before a read or a write;
\* the open rows stay in active_row.
Mitigate(r, d, rw) ==
  /\ is_refresh_allowed(r)
  /\ Busy(r)
  /\ next' = [next EXCEPT ![r] = [b \in Banks |->
       Raised(Raised(@[b], Delay(RefreshClocks, Extra(r) + d)),
              Delay({"read", "write"}, Extra(r) + rw + d))]]
  /\ occupied' = [occupied EXCEPT ![r] = Extra(r) + d]
  /\ Command
  /\ UNCHANGED <<active_row, cas_issued, refreshVars, sinceAct, bus>>

\* delaymul: delay_stall as schedule_fcfs() passes it, at most rqidealRIT()'s 2.
DelayMuls == 1..2

Swap(r, delaymul) ==
  Mitigate(r, T_SWAP * delaymul,
           IF state[r][0] \in {"PRECHARGE_POWER_DOWN_SLOW",
                               "PRECHARGE_POWER_DOWN_FAST"}
           THEN T_RCD ELSE 0)
Move(r, delaymul) == Mitigate(r, T_MOVE * delaymul, 0)
Stall(r, delaymul) == Mitigate(r, T_STALL * delaymul, 0)

-----------------------------------------------------------------------------
(* update_memory(): the next DRAM cycle. *)

Down(n) == IF n = 0 THEN 0 ELSE n - 1

\* The three cases of a rank's refresh window in the new cycle.
Rollover(r) == toCompletion[r] = 1
MustForce(r) == ~ Rollover(r) /\ toIssue[r] = 1 /\ num_issued[r] < Burst

NewToIssue(r) ==
  IF Rollover(r) THEN IssueDeadline(Window, 0)
  ELSE IF toIssue[r] > 1 THEN IssueDeadline(toCompletion[r] - 1, num_issued[r])
  ELSE toIssue[r] - 1

\* issue_forced_refresh_commands: until the end of the window, whatever the
\* clocks were before.
ForcedNext(r, n) ==
  [k \in Clocks |-> IF k \in RefreshClocks THEN toCompletion[r] - 1 ELSE Down(n[k])]

Tick ==
  /\ command_issued' = FALSE
  /\ cas_issued' = PerBank(0)
  /\ toCompletion' = [r \in Ranks |-> IF Rollover(r) THEN Window ELSE toCompletion[r] - 1]
  /\ toIssue' = [r \in Ranks |-> NewToIssue(r)]
  /\ num_issued' = [r \in Ranks |-> IF Rollover(r) THEN 0 ELSE num_issued[r]]
  /\ forced' = [r \in Ranks |-> ~ Rollover(r) /\ (forced[r] \/ MustForce(r))]
  /\ state' = [r \in Ranks |-> [b \in Banks |->
       IF MustForce(r) THEN "REFRESHING" ELSE state[r][b]]]
  /\ active_row' = [r \in Ranks |-> [b \in Banks |->
       IF MustForce(r) THEN NoRow ELSE active_row[r][b]]]
  /\ next' = [r \in Ranks |-> [b \in Banks |->
       IF MustForce(r) THEN ForcedNext(r, next[r][b])
       ELSE [k \in Clocks |-> Down(next[r][b][k])]]]
  /\ sinceAct' = [r \in Ranks |-> [b \in Banks |->
       IF sinceAct[r][b] < T_RC THEN sinceAct[r][b] + 1 ELSE T_RC]]
  /\ bus' = [bus EXCEPT !.left = Down(@)]
  /\ occupied' = [r \in Ranks |-> Down(occupied[r])]

BankCommand(r, b) ==
  \/ \E row \in Rows : Activate(r, b, row)
  \/ Read(r, b)
  \/ Write(r, b)
  \/ Precharge(r, b)
  \/ AutoPrecharge(r, b)
  \/ PowerUpRequest(r, b)

RankCommand(r) ==
  \/ PrechargeAll(r)
  \/ PowerDownFast(r)
  \/ PowerDownSlow(r)
  \/ PowerUp(r)
  \/ Refresh(r)
  \/ \E m \in DelayMuls : Swap(r, m) \/ Move(r, m) \/ Stall(r, m)

ChannelNext ==
  \/ \E r \in Ranks : RankCommand(r) \/ \E b \in Banks : BankCommand(r, b)
  \/ Tick

ChannelSpec == ChannelInit /\ [][ChannelNext]_channelVars /\ WF_channelVars(Tick)

-----------------------------------------------------------------------------
(* Properties. *)

ChannelTypeOK ==
  /\ state \in [Ranks -> [Banks -> States]]
  /\ active_row \in [Ranks -> [Banks -> Rows \cup {NoRow}]]
  /\ next \in [Ranks -> [Banks -> [Clocks -> Nat]]]
  /\ cas_issued \in [Ranks -> [Banks -> 0..2]]
  /\ command_issued \in BOOLEAN
  /\ toCompletion \in [Ranks -> 1..Window]
  /\ toIssue \in [Ranks -> Int]
  /\ num_issued \in [Ranks -> Nat]
  /\ forced \in [Ranks -> BOOLEAN]
  /\ sinceAct \in [Ranks -> [Banks -> 0..T_RC]]
  /\ bus \in [rank : Ranks, left : Nat]
  /\ occupied \in [Ranks -> Nat]

\* A bank whose row is open knows the row, also across a power-down, and the
\* banks of a rank go to sleep and wake up together, so that bank 0 can speak
\* for the rank: the tests of is_powerup_allowed() and issue_refresh_command().
RankCoherent ==
  \A r \in Ranks :
    /\ \A b \in Banks : state[r][b] \in {"ROW_ACTIVE", "ACTIVE_POWER_DOWN"}
                          => active_row[r][b] # NoRow
    /\ \/ \A b \in Banks : state[r][b] \in PoweredUp
       \/ \A b \in Banks : state[r][b] = "PRECHARGE_POWER_DOWN_SLOW"
       \/ \A b \in Banks : state[r][b] \in {"PRECHARGE_POWER_DOWN_FAST",
                                            "ACTIVE_POWER_DOWN"}

\* Two activations of a bank are T_RC apart and two of a rank T_RRD, whatever
\* refreshes, swaps and power-downs come between: a forced refresh overwrites
\* next_act, and may only do so when nothing earlier is lost.
Activated(r, b) == sinceAct'[r][b] = 0 /\ sinceAct[r][b] # 0
ActSpacing ==
  [][\A r \in Ranks, b \in Banks : Activated(r, b) =>
       /\ sinceAct[r][b] >= T_RC
       /\ \A c \in Banks : sinceAct[r][c] >= T_RRD]_channelVars

\* The data bursts of the channel do not overlap, and two ranks leave T_RTRS
\* between theirs: next_read and next_write of every bank of every rank.
BusFree(r, latency) ==
  bus.left = 0 \/ bus.left + (IF bus.rank = r THEN 0 ELSE T_RTRS) <= latency
DataBusExclusive ==
  [][\A r \in Ranks, b \in Banks : cas_issued[r][b] = 0 =>
       /\ cas_issued'[r][b] = 1 => BusFree(r, T_CAS)
       /\ cas_issued'[r][b] = 2 => BusFree(r, T_CWD)]_channelVars

\* No refresh window ends without its refreshes: either Burst of them were
\* issued or they were forced.  Forcing is decided by the equality of the cycle
\* with a deadline that the refreshes move, which must not be stepped over.
WindowRefreshed ==
  [][\A r \in Ranks : Rollover(r) /\ toCompletion'[r] # 1 =>
       forced[r] \/ num_issued[r] >= Burst]_channelVars

\* The forced refreshes of a rank start when its commands are over: only a
\* refresh, swap, move or stall may still be under way.
ForcedWhenQuiet ==
  [][\A r \in Ranks : ~ forced[r] /\ forced'[r] =>
       \A b \in Banks : next[r][b].refresh <= Later(1, occupied[r])]_channelVars

\* A rank leaves a power-down by a command only if its wake-up ends by its own
\* refresh deadline: the comment of is_powerup_allowed().  The scheduler's own
\* power-up asks rank 0's deadline instead.
Woken(r, b) == state[r][b] \in PowerDowns /\ state'[r][b] \in {"IDLE", "ROW_ACTIVE"}
PowerUpMeetsDeadline ==
  [][\A r \in Ranks, b \in Banks : Woken(r, b) =>
       Fits(r, WakeTime(state[r][b]))]_channelVars
=============================================================================
