------------------------- MODULE DramChannelProofs --------------------------
(***************************************************************************)
(* The DRAM channel for any number of ranks and banks and any timings that *)
(* the .vi files could give.  Each command is first described by what it   *)
(* does to one bank, clock by clock; every invariant is then a statement   *)
(* about one rank and a few numbers, proved command by command.  Last come *)
(* the queues before the channel, which all schedulers share.              *)
(***************************************************************************)
EXTENDS RequestQueues, SequenceTheorems, WellFoundedInduction, TLAPS

-----------------------------------------------------------------------------
(* The operators. *)

LEMMA TimingTypes ==
  /\ T_RCD \in Nat \ {0} /\ T_RP \in Nat \ {0} /\ T_CAS \in Nat \ {0}
  /\ T_RC \in Nat \ {0} /\ T_RAS \in Nat \ {0} /\ T_RRD \in Nat \ {0}
  /\ T_WR \in Nat \ {0} /\ T_WTR \in Nat \ {0} /\ T_RTP \in Nat \ {0}
  /\ T_CCD \in Nat \ {0} /\ T_RFC \in Nat \ {0} /\ T_CWD \in Nat \ {0}
  /\ T_RTRS \in Nat \ {0} /\ T_PD_MIN \in Nat \ {0} /\ T_XP \in Nat \ {0}
  /\ T_XP_DLL \in Nat \ {0} /\ T_DATA_TRANS \in Nat \ {0}
  /\ T_SWAP \in Nat /\ T_MOVE \in Nat /\ T_STALL \in Nat
  /\ WriteTime \in Nat \ {0}
BY DramAssumption DEF Timings, WriteTime

LEMMA WindowType == Window \in Nat \ {0}
<1>1. Burst * T_RFC \in Nat /\ Window \in Nat
  BY DramAssumption, TimingTypes DEF Window
<1> QED BY <1>1, DramAssumption, TimingTypes

LEMMA DeadlineType ==
  ASSUME NEW c \in Int, NEW n \in Int PROVE IssueDeadline(c, n) \in Int
<1>1. (Burst - n) * T_RFC \in Int
  BY DramAssumption, TimingTypes
<1> QED BY <1>1, TimingTypes DEF IssueDeadline

\* A refresh moves the deadline by its own length.
LEMMA DeadlineMoves ==
  ASSUME NEW c \in Int, NEW n \in Int
  PROVE  /\ IssueDeadline(c, n + 1) = IssueDeadline(c, n) + T_RFC
         /\ IssueDeadline(c - 1, n) = IssueDeadline(c, n) - 1
<1>1. (Burst - (n + 1)) * T_RFC = (Burst - n) * T_RFC - T_RFC
  BY DramAssumption, TimingTypes
<1>2. (Burst - n) * T_RFC \in Int
  BY DramAssumption, TimingTypes
<1> QED BY <1>1, <1>2, TimingTypes DEF IssueDeadline

\* While refreshes are owed the deadline is at least their time and T_RP away
\* from the end of the window.
LEMMA DeadlineBeforeEnd ==
  ASSUME NEW c \in Int, NEW n \in Int, n < Burst
  PROVE  IssueDeadline(c, n) <= c - T_RP - T_RFC
<1>1. (Burst - n) * T_RFC >= T_RFC
  BY DramAssumption, TimingTypes
<1> QED BY <1>1, DramAssumption, TimingTypes DEF IssueDeadline

LEMMA LaterMax ==
  ASSUME NEW x \in Nat, NEW d \in Int
  PROVE  /\ Later(x, d) \in Nat /\ Later(x, d) >= x /\ Later(x, d) >= d
         /\ Later(x, d) = x \/ Later(x, d) = d
BY DEF Later

LEMMA RaisedType ==
  ASSUME NEW n \in [Clocks -> Nat], NEW d, DOMAIN d \subseteq Clocks,
         \A k \in DOMAIN d : d[k] \in Int
  PROVE  Raised(n, d) \in [Clocks -> Nat]
<1>1. \A k \in Clocks : k \in DOMAIN d => Later(n[k], d[k]) \in Nat
  BY LaterMax
<1> QED BY <1>1 DEF Raised

LEMMA RaisedAt ==
  ASSUME NEW n \in [Clocks -> Nat], NEW d, DOMAIN d \subseteq Clocks,
         \A k \in DOMAIN d : d[k] \in Int
  PROVE  \A k \in Clocks :
           /\ Raised(n, d)[k] = IF k \in DOMAIN d THEN Later(n[k], d[k]) ELSE n[k]
           /\ Raised(n, d)[k] >= n[k]
<1>1. \A k \in Clocks : k \in DOMAIN d => Later(n[k], d[k]) >= n[k]
  BY LaterMax
<1> QED BY <1>1 DEF Raised

LEMMA DelayAt ==
  ASSUME NEW ks, NEW d
  PROVE  DOMAIN Delay(ks, d) = ks /\ \A k \in ks : Delay(ks, d)[k] = d
BY DEF Delay

\* The clocks ks of a bank wait at least d.
LEMMA RaisedByDelay ==
  ASSUME NEW n \in [Clocks -> Nat], NEW ks \in SUBSET Clocks, NEW d \in Int
  PROVE  /\ Raised(n, Delay(ks, d)) \in [Clocks -> Nat]
         /\ \A k \in Clocks :
              Raised(n, Delay(ks, d))[k] = IF k \in ks THEN Later(n[k], d) ELSE n[k]
<1>1. DOMAIN Delay(ks, d) \subseteq Clocks
      /\ \A k \in DOMAIN Delay(ks, d) : Delay(ks, d)[k] \in Int
  BY DelayAt
<1>2. Raised(n, Delay(ks, d)) \in [Clocks -> Nat]
  BY <1>1, RaisedType
<1>3. \A k \in Clocks :
        Raised(n, Delay(ks, d))[k] = IF k \in ks THEN Later(n[k], d) ELSE n[k]
  BY <1>1, DelayAt, RaisedAt
<1> QED BY <1>2, <1>3

-----------------------------------------------------------------------------
(* What each command does to bank c of rank q: the clocks of ks wait for d,  *)
(* and no clock of a column access allows it earlier than before.            *)

Waits(q, c, ks, d) ==
  \A k \in {"act", "pre", "refresh"} :
    next'[q][c][k] = IF k \in ks THEN Later(next[q][c][k], d) ELSE next[q][c][k]

ColumnsWait(q, c) ==
  next'[q][c].read >= next[q][c].read /\ next'[q][c].write >= next[q][c].write

LEMMA BankType ==
  ASSUME ChannelTypeOK, NEW q \in Ranks, NEW c \in Banks
  PROVE  /\ next[q][c] \in [Clocks -> Nat]
         /\ next[q][c].act \in Nat /\ next[q][c].pre \in Nat /\ next[q][c].refresh \in Nat
         /\ next[q][c].read \in Nat /\ next[q][c].write \in Nat
         /\ next[q][c].powerdown \in Nat /\ next[q][c].powerup \in Nat
BY DEF ChannelTypeOK, Clocks

LEMMA ActivateEffect ==
  ASSUME ChannelTypeOK, NEW r \in Ranks, NEW b \in Banks, NEW row \in Rows,
         Activate(r, b, row)
  PROVE  /\ ChannelTypeOK'
         /\ \A q \in Ranks, c \in Banks :
              /\ ColumnsWait(q, c)
              /\ next'[q][c].act = IF q # r THEN next[q][c].act
                                   ELSE Later(next[q][c].act, IF c = b THEN T_RC ELSE T_RRD)
              /\ \A k \in {"pre", "refresh"} :
                   next'[q][c][k] = IF q = r /\ c = b THEN Later(next[q][c][k], T_RAS)
                                    ELSE next[q][c][k]
<1> USE TimingTypes
<1>1. ASSUME NEW c \in Banks
      PROVE  /\ DOMAIN AfterActivate(b, c) \subseteq Clocks
             /\ \A k \in DOMAIN AfterActivate(b, c) : AfterActivate(b, c)[k] \in Int
  BY DEF AfterActivate, Clocks
<1>2. \A q \in Ranks, c \in Banks :
        next'[q][c] = IF q = r THEN Raised(next[q][c], AfterActivate(b, c)) ELSE next[q][c]
  BY DEF Activate, ChannelTypeOK
<1>3. next' \in [Ranks -> [Banks -> [Clocks -> Nat]]]
  <2>1. ASSUME NEW c \in Banks
        PROVE  Raised(next[r][c], AfterActivate(b, c)) \in [Clocks -> Nat]
    BY <1>1, RaisedType, BankType
  <2> QED BY <2>1 DEF Activate, ChannelTypeOK
<1>4. ChannelTypeOK'
  BY <1>3 DEF Activate, Command, ChannelTypeOK, refreshVars, States, PoweredUp
<1>5. ASSUME NEW q \in Ranks, NEW c \in Banks
      PROVE  /\ ColumnsWait(q, c)
             /\ next'[q][c].act = IF q # r THEN next[q][c].act
                                  ELSE Later(next[q][c].act, IF c = b THEN T_RC ELSE T_RRD)
             /\ \A k \in {"pre", "refresh"} :
                   next'[q][c][k] = IF q = r /\ c = b THEN Later(next[q][c][k], T_RAS)
                                    ELSE next[q][c][k]
  <2>1. next[q][c] \in [Clocks -> Nat]
    BY BankType
  <2>2. CASE q # r
    BY <1>2, <2>1, <2>2 DEF Clocks, ColumnsWait
  <2>3. CASE q = r /\ c = b
    <3>1. DOMAIN AfterActivate(b, c) = {"act", "pre", "refresh", "read", "write", "powerdown"}
      BY <2>3 DEF AfterActivate
    <3>2. /\ AfterActivate(b, c).act = T_RC /\ AfterActivate(b, c).pre = T_RAS
          /\ AfterActivate(b, c).refresh = T_RAS
      BY <2>3 DEF AfterActivate
    <3> QED BY <1>1, <1>2, <2>1, <2>3, <3>1, <3>2, RaisedAt DEF Clocks, ColumnsWait
  <2>4. CASE q = r /\ c # b
    <3>1. DOMAIN AfterActivate(b, c) = {"act"} /\ AfterActivate(b, c).act = T_RRD
      BY <2>4 DEF AfterActivate
    <3> QED BY <1>1, <1>2, <2>1, <2>4, <3>1, RaisedAt DEF Clocks, ColumnsWait
  <2> QED BY <2>2, <2>3, <2>4
<1> QED BY <1>4, <1>5

\* A column access: every bank's read and write wait, the bank of the access also
\* closes no sooner than after d.
LEMMA ColumnRaise ==
  ASSUME NEW n \in [Clocks -> Nat], NEW busy, DOMAIN busy = {"read", "write"},
         busy["read"] \in Int, busy["write"] \in Int
  PROVE  LET m == Raised(n, busy) IN
         /\ m \in [Clocks -> Nat]
         /\ m.act = n.act /\ m.pre = n.pre /\ m.refresh = n.refresh
         /\ m.read >= n.read /\ m.read >= busy.read
         /\ m.write >= n.write /\ m.write >= busy.write
<1> DEFINE m == Raised(n, busy)
<1>1. DOMAIN busy \subseteq Clocks /\ \A k \in DOMAIN busy : busy[k] \in Int
  BY DEF Clocks
<1>2. m \in [Clocks -> Nat]
  BY <1>1, RaisedType
<1>3. /\ m.act = n.act /\ m.pre = n.pre /\ m.refresh = n.refresh
      /\ m.read = Later(n.read, busy.read) /\ m.write = Later(n.write, busy.write)
  BY <1>1, RaisedAt DEF Clocks
<1>4. n.read \in Nat /\ n.write \in Nat
  BY DEF Clocks
<1> HIDE DEF m
<1>5. m.read >= n.read /\ m.read >= busy.read
  BY <1>3, <1>4, LaterMax
<1>6. m.write >= n.write /\ m.write >= busy.write
  BY <1>3, <1>4, LaterMax
<1> QED BY <1>2, <1>3, <1>5, <1>6 DEF m

LEMMA OwnColumn ==
  ASSUME NEW n \in [Clocks -> Nat], NEW d \in Int
  PROVE  LET m == Raised(n, Delay({"pre", "refresh", "powerdown"}, d)) IN
         /\ m \in [Clocks -> Nat]
         /\ m.act = n.act /\ m.pre = Later(n.pre, d) /\ m.refresh = Later(n.refresh, d)
         /\ m.read = n.read /\ m.write = n.write
<1> DEFINE m == Raised(n, Delay({"pre", "refresh", "powerdown"}, d))
<1>1. {"pre", "refresh", "powerdown"} \in SUBSET Clocks
  BY DEF Clocks
<1>2. /\ m \in [Clocks -> Nat]
      /\ \A k \in Clocks : m[k] = IF k \in {"pre", "refresh", "powerdown"}
                                 THEN Later(n[k], d) ELSE n[k]
  BY <1>1, RaisedByDelay
<1> HIDE DEF m
<1>3. /\ m.act = n.act /\ m.pre = Later(n.pre, d) /\ m.refresh = Later(n.refresh, d)
      /\ m.read = n.read /\ m.write = n.write
  BY <1>2 DEF Clocks
<1> QED BY <1>2, <1>3 DEF m

LEMMA ReadEffect ==
  ASSUME ChannelTypeOK, NEW r \in Ranks, NEW b \in Banks, Read(r, b)
  PROVE  /\ ChannelTypeOK'
         /\ \A q \in Ranks, c \in Banks :
              /\ ColumnsWait(q, c)
              /\ Waits(q, c, IF q = r /\ c = b THEN {"pre", "refresh"} ELSE {}, T_RTP)
              /\ next'[q][c].read >= T_DATA_TRANS + (IF q = r THEN 0 ELSE T_RTRS)
              /\ next'[q][c].write >= T_CAS + T_DATA_TRANS + T_RTRS - T_CWD
<1> USE TimingTypes
<1>1. ASSUME NEW q \in Ranks, NEW c \in Banks
      PROVE  /\ AfterRead(r, b, q, c) \in [Clocks -> Nat]
             /\ AfterRead(r, b, q, c).act = next[q][c].act
             /\ \A k \in {"pre", "refresh"} :
                  AfterRead(r, b, q, c)[k] = IF q = r /\ c = b THEN Later(next[q][c][k], T_RTP)
                                             ELSE next[q][c][k]
             /\ AfterRead(r, b, q, c).read >= next[q][c].read
             /\ AfterRead(r, b, q, c).write >= next[q][c].write
             /\ AfterRead(r, b, q, c).read >= T_DATA_TRANS + (IF q = r THEN 0 ELSE T_RTRS)
             /\ AfterRead(r, b, q, c).write >= T_CAS + T_DATA_TRANS + T_RTRS - T_CWD
  <2> DEFINE busy == [read  |-> IF q = r THEN Later(T_CCD, T_DATA_TRANS)
                                ELSE T_DATA_TRANS + T_RTRS,
                      write |-> T_CAS + T_DATA_TRANS + T_RTRS - T_CWD]
             n == Raised(next[q][c], busy)
  <2>1. /\ DOMAIN busy = {"read", "write"}
        /\ busy["read"] \in Int /\ busy["write"] \in Int
        /\ busy["read"] >= T_DATA_TRANS + (IF q = r THEN 0 ELSE T_RTRS)
        /\ busy["write"] >= T_CAS + T_DATA_TRANS + T_RTRS - T_CWD
    BY DEF Later
  <2>2. AfterRead(r, b, q, c) = IF q = r /\ c = b
                                THEN Raised(n, Delay({"pre", "refresh", "powerdown"}, T_RTP))
                                ELSE n
    BY DEF AfterRead
  <2>3. /\ next[q][c] \in [Clocks -> Nat] /\ T_RTP \in Int
        /\ next[q][c].read \in Nat /\ next[q][c].write \in Nat
    BY BankType
  <2> HIDE DEF busy
  <2>4. /\ n \in [Clocks -> Nat]
        /\ n.act = next[q][c].act /\ n.pre = next[q][c].pre /\ n.refresh = next[q][c].refresh
        /\ n.read >= next[q][c].read /\ n.read >= busy["read"]
        /\ n.write >= next[q][c].write /\ n.write >= busy["write"]
    BY <2>1, <2>3, ColumnRaise
  <2> HIDE DEF n
  <2>5. n.read \in Nat /\ n.write \in Nat
    BY <2>4 DEF Clocks
  <2>6. n.read >= T_DATA_TRANS + (IF q = r THEN 0 ELSE T_RTRS) /\ n.write >= T_CAS + T_DATA_TRANS + T_RTRS - T_CWD
    BY <2>1, <2>4, <2>5
  <2>7. CASE q = r /\ c = b
    <3> DEFINE m == Raised(n, Delay({"pre", "refresh", "powerdown"}, T_RTP))
    <3>1. AfterRead(r, b, q, c) = m
      BY <2>2, <2>7
    <3>2. /\ m \in [Clocks -> Nat]
          /\ m.act = n.act /\ m.pre = Later(n.pre, T_RTP) /\ m.refresh = Later(n.refresh, T_RTP)
          /\ m.read = n.read /\ m.write = n.write
      BY <2>3, <2>4, OwnColumn
    <3> HIDE DEF m
    <3> QED BY <3>1, <3>2, <2>4, <2>6, <2>7
  <2>8. CASE ~ (q = r /\ c = b)
    BY <2>2, <2>4, <2>6, <2>8
  <2> QED BY <2>7, <2>8
<1>2. \A q \in Ranks, c \in Banks : next'[q][c] = AfterRead(r, b, q, c)
  BY DEF Read
<1>3. next' \in [Ranks -> [Banks -> [Clocks -> Nat]]]
  BY <1>1 DEF Read
<1>4. bus' \in [rank : Ranks, left : Nat]
  BY DEF Read, Transfer
<1>5. ChannelTypeOK'
  BY <1>3, <1>4 DEF Read, Command, ChannelTypeOK, refreshVars
<1> QED BY <1>1, <1>2, <1>5 DEF Waits, ColumnsWait

LEMMA WriteEffect ==
  ASSUME ChannelTypeOK, NEW r \in Ranks, NEW b \in Banks, Write(r, b)
  PROVE  /\ ChannelTypeOK'
         /\ \A q \in Ranks, c \in Banks :
              /\ ColumnsWait(q, c)
              /\ Waits(q, c, IF q = r /\ c = b THEN {"pre", "refresh"} ELSE {}, WriteTime)
              /\ next'[q][c].read >= T_CWD + T_DATA_TRANS - T_CAS + (IF q = r THEN 0 ELSE T_RTRS)
              /\ next'[q][c].write >= T_DATA_TRANS + (IF q = r THEN 0 ELSE T_RTRS)
<1> USE TimingTypes
<1>1. ASSUME NEW q \in Ranks, NEW c \in Banks
      PROVE  /\ AfterWrite(r, b, q, c) \in [Clocks -> Nat]
             /\ AfterWrite(r, b, q, c).act = next[q][c].act
             /\ \A k \in {"pre", "refresh"} :
                  AfterWrite(r, b, q, c)[k] = IF q = r /\ c = b THEN Later(next[q][c][k], WriteTime)
                                             ELSE next[q][c][k]
             /\ AfterWrite(r, b, q, c).read >= next[q][c].read
             /\ AfterWrite(r, b, q, c).write >= next[q][c].write
             /\ AfterWrite(r, b, q, c).read >= T_CWD + T_DATA_TRANS - T_CAS + (IF q = r THEN 0 ELSE T_RTRS)
             /\ AfterWrite(r, b, q, c).write >= T_DATA_TRANS + (IF q = r THEN 0 ELSE T_RTRS)
  <2> DEFINE busy == IF q = r
                     THEN [write |-> Later(T_CCD, T_DATA_TRANS),
                           read  |-> T_CWD + T_DATA_TRANS + T_WTR]
                     ELSE [write |-> T_DATA_TRANS + T_RTRS,
                           read  |-> T_CWD + T_DATA_TRANS + T_RTRS - T_CAS]
             n == Raised(next[q][c], busy)
  <2>1. /\ DOMAIN busy = {"read", "write"}
        /\ busy["read"] \in Int /\ busy["write"] \in Int
        /\ busy["read"] >= T_CWD + T_DATA_TRANS - T_CAS + (IF q = r THEN 0 ELSE T_RTRS)
        /\ busy["write"] >= T_DATA_TRANS + (IF q = r THEN 0 ELSE T_RTRS)
    BY DEF Later
  <2>2. AfterWrite(r, b, q, c) = IF q = r /\ c = b
                                THEN Raised(n, Delay({"pre", "refresh", "powerdown"}, WriteTime))
                                ELSE n
    BY DEF AfterWrite
  <2>3. /\ next[q][c] \in [Clocks -> Nat] /\ WriteTime \in Int
        /\ next[q][c].read \in Nat /\ next[q][c].write \in Nat
    BY BankType
  <2> HIDE DEF busy
  <2>4. /\ n \in [Clocks -> Nat]
        /\ n.act = next[q][c].act /\ n.pre = next[q][c].pre /\ n.refresh = next[q][c].refresh
        /\ n.read >= next[q][c].read /\ n.read >= busy["read"]
        /\ n.write >= next[q][c].write /\ n.write >= busy["write"]
    BY <2>1, <2>3, ColumnRaise
  <2> HIDE DEF n
  <2>5. n.read \in Nat /\ n.write \in Nat
    BY <2>4 DEF Clocks
  <2>6. n.read >= T_CWD + T_DATA_TRANS - T_CAS + (IF q = r THEN 0 ELSE T_RTRS) /\ n.write >= T_DATA_TRANS + (IF q = r THEN 0 ELSE T_RTRS)
    BY <2>1, <2>4, <2>5
  <2>7. CASE q = r /\ c = b
    <3> DEFINE m == Raised(n, Delay({"pre", "refresh", "powerdown"}, WriteTime))
    <3>1. AfterWrite(r, b, q, c) = m
      BY <2>2, <2>7
    <3>2. /\ m \in [Clocks -> Nat]
          /\ m.act = n.act /\ m.pre = Later(n.pre, WriteTime) /\ m.refresh = Later(n.refresh, WriteTime)
          /\ m.read = n.read /\ m.write = n.write
      BY <2>3, <2>4, OwnColumn
    <3> HIDE DEF m
    <3> QED BY <3>1, <3>2, <2>4, <2>6, <2>7
  <2>8. CASE ~ (q = r /\ c = b)
    BY <2>2, <2>4, <2>6, <2>8
  <2> QED BY <2>7, <2>8
<1>2. \A q \in Ranks, c \in Banks : next'[q][c] = AfterWrite(r, b, q, c)
  BY DEF Write
<1>3. next' \in [Ranks -> [Banks -> [Clocks -> Nat]]]
  BY <1>1 DEF Write
<1>4. bus' \in [rank : Ranks, left : Nat]
  BY DEF Write, Transfer
<1>5. ChannelTypeOK'
  BY <1>3, <1>4 DEF Write, Command, ChannelTypeOK, refreshVars
<1> QED BY <1>1, <1>2, <1>5 DEF Waits, ColumnsWait

\* A bank whose clocks ks wait for d, as Waits and ColumnsWait say it.
LEMMA DelayedBank ==
  ASSUME ChannelTypeOK, NEW q \in Ranks, NEW c \in Banks,
         NEW ks \in SUBSET Clocks, NEW d \in Int,
         next'[q][c] = Raised(next[q][c], Delay(ks, d))
  PROVE  ColumnsWait(q, c) /\ Waits(q, c, ks, d)
<1>1. \A k \in Clocks : next'[q][c][k] = IF k \in ks THEN Later(next[q][c][k], d)
                                         ELSE next[q][c][k]
  BY BankType, RaisedByDelay
<1>2. Later(next[q][c].read, d) >= next[q][c].read
      /\ Later(next[q][c].write, d) >= next[q][c].write
  BY BankType, LaterMax
<1>3. next[q][c].read \in Nat /\ next[q][c].write \in Nat
  BY BankType
<1>4. ColumnsWait(q, c)
  BY <1>1, <1>2, <1>3 DEF ColumnsWait, Clocks
<1> QED BY <1>1, <1>4 DEF Waits, Clocks

\* A bank that no command touches.
LEMMA SameBank ==
  ASSUME ChannelTypeOK, NEW q \in Ranks, NEW c \in Banks,
         next'[q][c] = next[q][c], NEW d
  PROVE  ColumnsWait(q, c) /\ Waits(q, c, {}, d)
BY BankType DEF ColumnsWait, Waits

ClosingClocks == {"act", "powerdown", "pre", "refresh"}

LEMMA PrechargingDelay ==
  ASSUME ChannelTypeOK, NEW q \in Ranks, NEW c \in Banks, NEW t \in Int
  PROVE  /\ Precharging(next[q][c], t) = Raised(next[q][c], Delay(ClosingClocks, t + T_RP))
         /\ Precharging(next[q][c], t) \in [Clocks -> Nat]
         /\ ClosingClocks \in SUBSET Clocks /\ t + T_RP \in Int
<1>1. ClosingClocks \in SUBSET Clocks /\ t + T_RP \in Int
  BY TimingTypes DEF ClosingClocks, Clocks
<1>2. Precharging(next[q][c], t) = Raised(next[q][c], Delay(ClosingClocks, t + T_RP))
  BY DEF Precharging, ClosingClocks
<1>3. next[q][c] \in [Clocks -> Nat]
  BY BankType
<1>4. Raised(next[q][c], Delay(ClosingClocks, t + T_RP)) \in [Clocks -> Nat]
  BY <1>1, <1>3, RaisedByDelay
<1> QED BY <1>1, <1>2, <1>4

LEMMA PrechargeEffect ==
  ASSUME ChannelTypeOK, NEW r \in Ranks, NEW b \in Banks, Precharge(r, b)
  PROVE  /\ ChannelTypeOK'
         /\ \A q \in Ranks, c \in Banks :
              /\ ColumnsWait(q, c)
              /\ Waits(q, c, IF q = r /\ c = b THEN ClosingClocks ELSE {}, 0 + T_RP)
<1>1. Precharging(next[r][b], 0) \in [Clocks -> Nat]
  BY PrechargingDelay
<1>2. next' \in [Ranks -> [Banks -> [Clocks -> Nat]]]
  BY <1>1 DEF Precharge, ChannelTypeOK
<1>3. ChannelTypeOK'
  BY <1>2 DEF Precharge, Command, ChannelTypeOK, refreshVars, history, States, PoweredUp,
              ClosedStates
<1>4. \A q \in Ranks, c \in Banks :
        next'[q][c] = IF q = r /\ c = b THEN Precharging(next[q][c], 0) ELSE next[q][c]
  BY DEF Precharge, ChannelTypeOK
<1>5. ASSUME NEW q \in Ranks, NEW c \in Banks
      PROVE  /\ ColumnsWait(q, c)
             /\ Waits(q, c, IF q = r /\ c = b THEN ClosingClocks ELSE {}, 0 + T_RP)
  <2>1. CASE q = r /\ c = b
    BY <1>4, <2>1, PrechargingDelay, DelayedBank
  <2>2. CASE ~ (q = r /\ c = b)
    BY <1>4, <2>2, SameBank
  <2> QED BY <2>1, <2>2
<1> QED BY <1>3, <1>5

LEMMA PrechargeAllEffect ==
  ASSUME ChannelTypeOK, NEW r \in Ranks, PrechargeAll(r)
  PROVE  /\ ChannelTypeOK'
         /\ \A q \in Ranks, c \in Banks :
              /\ ColumnsWait(q, c)
              /\ Waits(q, c, IF q = r THEN ClosingClocks ELSE {}, 0 + T_RP)
<1>1. \A c \in Banks : Precharging(next[r][c], 0) \in [Clocks -> Nat]
  BY PrechargingDelay
<1>2. next' \in [Ranks -> [Banks -> [Clocks -> Nat]]]
  BY <1>1 DEF PrechargeAll, ChannelTypeOK
<1>3. ChannelTypeOK'
  BY <1>2 DEF PrechargeAll, Command, ChannelTypeOK, refreshVars, history, States, PoweredUp,
              ClosedStates
<1>4. \A q \in Ranks, c \in Banks :
        next'[q][c] = IF q = r THEN Precharging(next[q][c], 0) ELSE next[q][c]
  BY DEF PrechargeAll, ChannelTypeOK
<1>5. ASSUME NEW q \in Ranks, NEW c \in Banks
      PROVE  /\ ColumnsWait(q, c)
             /\ Waits(q, c, IF q = r THEN ClosingClocks ELSE {}, 0 + T_RP)
  <2>1. CASE q = r
    BY <1>4, <2>1, PrechargingDelay, DelayedBank
  <2>2. CASE q # r
    BY <1>4, <2>2, SameBank
  <2> QED BY <2>1, <2>2
<1> QED BY <1>3, <1>5

\* The time at which an auto-precharge starts.
AutoStart(r, b) ==
  Later(IF cas_issued[r][b] = 1 THEN T_RTP ELSE WriteTime, next[r][b].pre)

LEMMA AutoPrechargeEffect ==
  ASSUME ChannelTypeOK, NEW r \in Ranks, NEW b \in Banks, AutoPrecharge(r, b)
  PROVE  /\ ChannelTypeOK'
         /\ AutoStart(r, b) \in Nat
         /\ \A q \in Ranks, c \in Banks :
              /\ ColumnsWait(q, c)
              /\ Waits(q, c, IF q = r /\ c = b THEN ClosingClocks ELSE {},
                       AutoStart(r, b) + T_RP)
<1>1. AutoStart(r, b) \in Nat
  <2>1. next[r][b].pre \in Nat
    BY BankType
  <2> QED BY <2>1, TimingTypes DEF AutoStart, Later
<1>2. Precharging(next[r][b], AutoStart(r, b)) \in [Clocks -> Nat]
  BY <1>1, PrechargingDelay
<1>3. next' = [next EXCEPT ![r][b] = Precharging(@, AutoStart(r, b))]
  BY DEF AutoPrecharge, AutoStart
<1>4. next' \in [Ranks -> [Banks -> [Clocks -> Nat]]]
  BY <1>2, <1>3 DEF ChannelTypeOK
<1>5. cas_issued' \in [Ranks -> [Banks -> 0..2]]
  BY DEF AutoPrecharge, PerBank
<1>6. ChannelTypeOK'
  BY <1>4, <1>5 DEF AutoPrecharge, ChannelTypeOK, refreshVars, history, States, PoweredUp,
              ClosedStates
<1>7. \A q \in Ranks, c \in Banks :
        next'[q][c] = IF q = r /\ c = b THEN Precharging(next[q][c], AutoStart(r, b))
                      ELSE next[q][c]
  BY <1>3 DEF ChannelTypeOK
<1>8. ASSUME NEW q \in Ranks, NEW c \in Banks
      PROVE  /\ ColumnsWait(q, c)
             /\ Waits(q, c, IF q = r /\ c = b THEN ClosingClocks ELSE {},
                      AutoStart(r, b) + T_RP)
  <2>1. CASE q = r /\ c = b
    BY <1>1, <1>7, <2>1, PrechargingDelay, DelayedBank
  <2>2. CASE ~ (q = r /\ c = b)
    BY <1>7, <2>2, SameBank
  <2> QED BY <2>1, <2>2
<1> QED BY <1>1, <1>6, <1>8

LEMMA PowerDownEffect ==
  ASSUME ChannelTypeOK, NEW r \in Ranks, NEW kind \in PowerDowns, PowerDown(r, kind)
  PROVE  /\ ChannelTypeOK'
         /\ \A q \in Ranks, c \in Banks :
              /\ ColumnsWait(q, c)
              /\ Waits(q, c, IF q = r THEN {"refresh"} ELSE {}, T_PD_MIN)
<1> DEFINE slept(c) == Raised(next[r][c], [refresh |-> T_PD_MIN])
           down(c) == [slept(c) EXCEPT !.powerup = Later(T_PD_MIN, next[r][c].powerdown)]
<1>1. ASSUME NEW c \in Banks
      PROVE  /\ slept(c) \in [Clocks -> Nat]
             /\ \A k \in Clocks :
                  slept(c)[k] = IF k = "refresh" THEN Later(next[r][c][k], T_PD_MIN)
                                ELSE next[r][c][k]
  <2> DEFINE d == [refresh |-> T_PD_MIN]
  <2>1. /\ DOMAIN d = {"refresh"} /\ DOMAIN d \subseteq Clocks /\ d["refresh"] = T_PD_MIN
        /\ \A k \in DOMAIN d : d[k] \in Int
    BY TimingTypes DEF Clocks
  <2>2. next[r][c] \in [Clocks -> Nat]
    BY BankType
  <2> HIDE DEF d
  <2>3. Raised(next[r][c], d) \in [Clocks -> Nat]
    BY <2>1, <2>2, RaisedType
  <2>4. \A k \in Clocks : Raised(next[r][c], d)[k] =
                             IF k = "refresh" THEN Later(next[r][c][k], T_PD_MIN)
                             ELSE next[r][c][k]
    BY <2>1, <2>2, RaisedAt
  <2> QED BY <2>3, <2>4 DEF d
<1> HIDE DEF slept
<1>2. ASSUME NEW c \in Banks
      PROVE  /\ down(c) \in [Clocks -> Nat]
             /\ \A k \in Clocks \ {"powerup"} : down(c)[k] = slept(c)[k]
  <2>1. Later(T_PD_MIN, next[r][c].powerdown) \in Nat
    <3>1. next[r][c].powerdown \in Nat
      BY BankType
    <3> QED BY <3>1, TimingTypes DEF Later
  <2> QED BY <1>1, <2>1
<1>3. next' = [next EXCEPT ![r] = [c \in Banks |-> down(c)]]
  BY DEF PowerDown, slept
<1> HIDE DEF down
<1>4. next' \in [Ranks -> [Banks -> [Clocks -> Nat]]]
  BY <1>2, <1>3 DEF ChannelTypeOK
<1>5. state' \in [Ranks -> [Banks -> States]]
  BY DEF PowerDown, Asleep, ChannelTypeOK, States, PowerDowns
<1>6. active_row' \in [Ranks -> [Banks -> Rows \cup {NoRow}]]
  BY DEF PowerDown, ChannelTypeOK
<1>7. ChannelTypeOK'
  BY <1>4, <1>5, <1>6 DEF PowerDown, Command, ChannelTypeOK, refreshVars, history
<1>8. ASSUME NEW q \in Ranks, NEW c \in Banks
      PROVE  /\ ColumnsWait(q, c)
             /\ Waits(q, c, IF q = r THEN {"refresh"} ELSE {}, T_PD_MIN)
  <2>1. CASE q = r
    <3>1. next'[q][c] = down(c)
      BY <1>3, <2>1 DEF ChannelTypeOK
    <3>2. \A k \in {"act", "pre", "refresh", "read", "write"} :
            next'[q][c][k] = IF k = "refresh" THEN Later(next[q][c][k], T_PD_MIN)
                             ELSE next[q][c][k]
      BY <1>1, <1>2, <2>1, <3>1 DEF Clocks
    <3> QED BY <2>1, <3>2, BankType DEF ColumnsWait, Waits
  <2>2. CASE q # r
    <3>1. next'[q][c] = next[q][c]
      BY <1>3, <2>2 DEF ChannelTypeOK
    <3> QED BY <2>2, <3>1, SameBank
  <2> QED BY <2>1, <2>2
<1> QED BY <1>7, <1>8

LEMMA WakeUpEffect ==
  ASSUME ChannelTypeOK, NEW r \in Ranks, WakeUp(r)
  PROVE  /\ ChannelTypeOK'
         /\ \A q \in Ranks, c \in Banks :
              /\ ColumnsWait(q, c)
              /\ Waits(q, c, IF q = r THEN Clocks \ {"powerup"} ELSE {}, T_XP)
<1> DEFINE woken(c) == Raised(next[r][c], Delay(Clocks \ {"powerup"}, T_XP))
<1>1. ASSUME NEW c \in Banks
      PROVE  woken(c) \in [Clocks -> Nat]
  <2>1. next[r][c] \in [Clocks -> Nat]
    BY BankType
  <2>2. Clocks \ {"powerup"} \in SUBSET Clocks /\ T_XP \in Int
    BY TimingTypes
  <2> QED BY <2>1, <2>2, RaisedByDelay
<1>2. next' = [next EXCEPT ![r] = [c \in Banks |-> woken(c)]]
  BY DEF WakeUp
<1>3. next' \in [Ranks -> [Banks -> [Clocks -> Nat]]]
  BY <1>1, <1>2 DEF ChannelTypeOK
<1>4. state' \in [Ranks -> [Banks -> States]]
  BY DEF WakeUp, ChannelTypeOK, States, PoweredUp, ClosedStates
<1>5. active_row' \in [Ranks -> [Banks -> Rows \cup {NoRow}]]
  BY DEF WakeUp, ChannelTypeOK
<1>6. ChannelTypeOK'
  BY <1>3, <1>4, <1>5 DEF WakeUp, Command, ChannelTypeOK, refreshVars, history
<1>7. ASSUME NEW q \in Ranks, NEW c \in Banks
      PROVE  /\ ColumnsWait(q, c)
             /\ Waits(q, c, IF q = r THEN Clocks \ {"powerup"} ELSE {}, T_XP)
  <2>1. CASE q = r
    <3>1. next'[q][c] = woken(c)
      BY <1>2, <2>1 DEF ChannelTypeOK
    <3>2. Clocks \ {"powerup"} \in SUBSET Clocks /\ T_XP \in Int
      BY TimingTypes
    <3> QED BY <2>1, <3>1, <3>2, DelayedBank
  <2>2. CASE q # r
    <3>1. next'[q][c] = next[q][c]
      BY <1>2, <2>2 DEF ChannelTypeOK
    <3> QED BY <2>2, <3>1, SameBank
  <2> QED BY <2>1, <2>2
<1> QED BY <1>6, <1>7

LEMMA ExtraType ==
  ASSUME NEW r \in Ranks PROVE Extra(r) \in Nat
BY TimingTypes DEF Extra

LEMMA RefreshEffect ==
  ASSUME ChannelTypeOK, NEW r \in Ranks, Refresh(r)
  PROVE  /\ ChannelTypeOK'
         /\ \A q \in Ranks, c \in Banks :
              /\ ColumnsWait(q, c)
              /\ Waits(q, c, IF q = r THEN RefreshClocks ELSE {}, Extra(r) + T_RFC)
<1> DEFINE busy(c) == Raised(next[r][c], Delay(RefreshClocks, Extra(r) + T_RFC))
<1>1. /\ RefreshClocks \in SUBSET Clocks
      /\ Extra(r) + T_RFC \in Nat /\ Extra(r) + T_RFC \in Int
  BY ExtraType, TimingTypes DEF RefreshClocks, Clocks
<1>2. ASSUME NEW c \in Banks PROVE busy(c) \in [Clocks -> Nat]
  <2>1. next[r][c] \in [Clocks -> Nat]
    BY BankType
  <2> QED BY <1>1, <2>1, RaisedByDelay
<1>3. next' = [next EXCEPT ![r] = [c \in Banks |-> busy(c)]]
  BY DEF Refresh
<1>4. next' \in [Ranks -> [Banks -> [Clocks -> Nat]]]
  BY <1>2, <1>3 DEF ChannelTypeOK
<1>5. /\ state' \in [Ranks -> [Banks -> States]]
      /\ active_row' \in [Ranks -> [Banks -> Rows \cup {NoRow}]]
      /\ num_issued' \in [Ranks -> Nat] /\ occupied' \in [Ranks -> Nat]
  BY <1>1 DEF Refresh, Busy, ChannelTypeOK, States, PoweredUp, ClosedStates
<1>6. ChannelTypeOK'
  BY <1>4, <1>5 DEF Refresh, Command, ChannelTypeOK
<1>7. ASSUME NEW q \in Ranks, NEW c \in Banks
      PROVE  /\ ColumnsWait(q, c)
             /\ Waits(q, c, IF q = r THEN RefreshClocks ELSE {}, Extra(r) + T_RFC)
  <2>1. CASE q = r
    <3>1. next'[q][c] = busy(c)
      BY <1>3, <2>1 DEF ChannelTypeOK
    <3> QED BY <1>1, <2>1, <3>1, DelayedBank
  <2>2. CASE q # r
    <3>1. next'[q][c] = next[q][c]
      BY <1>3, <2>2 DEF ChannelTypeOK
    <3> QED BY <2>2, <3>1, SameBank
  <2> QED BY <2>1, <2>2
<1> QED BY <1>6, <1>7

LEMMA RaisedTwice ==
  ASSUME NEW n \in [Clocks -> Nat], NEW d \in Int, NEW e \in Int
  PROVE  LET m == Raised(Raised(n, Delay(RefreshClocks, d)), Delay({"read", "write"}, e)) IN
         /\ m \in [Clocks -> Nat]
         /\ \A k \in {"act", "pre", "refresh"} : m[k] = Later(n[k], d)
         /\ \A k \in {"read", "write"} : m[k] = Later(n[k], e)
<1> DEFINE first == Raised(n, Delay(RefreshClocks, d))
           m == Raised(first, Delay({"read", "write"}, e))
<1>1. RefreshClocks \in SUBSET Clocks /\ {"read", "write"} \in SUBSET Clocks
  BY DEF RefreshClocks, Clocks
<1>2. /\ first \in [Clocks -> Nat]
      /\ \A k \in Clocks : first[k] = IF k \in RefreshClocks THEN Later(n[k], d) ELSE n[k]
  BY <1>1, RaisedByDelay
<1> HIDE DEF first
<1>3. /\ m \in [Clocks -> Nat]
      /\ \A k \in Clocks : m[k] = IF k \in {"read", "write"} THEN Later(first[k], e) ELSE first[k]
  BY <1>1, <1>2, RaisedByDelay
<1> HIDE DEF m
<1>4. /\ \A k \in {"act", "pre", "refresh"} : m[k] = Later(n[k], d)
      /\ \A k \in {"read", "write"} : m[k] = Later(n[k], e)
  BY <1>2, <1>3 DEF Clocks, RefreshClocks
<1> QED BY <1>3, <1>4 DEF m, first

LEMMA MitigateEffect ==
  ASSUME ChannelTypeOK, NEW r \in Ranks, NEW d \in Nat, NEW rw \in Nat, Mitigate(r, d, rw)
  PROVE  /\ ChannelTypeOK'
         /\ \A q \in Ranks, c \in Banks :
              /\ ColumnsWait(q, c)
              /\ Waits(q, c, IF q = r THEN RefreshClocks ELSE {}, Extra(r) + d)
<1> DEFINE busy(c) == Raised(Raised(next[r][c], Delay(RefreshClocks, Extra(r) + d)),
                             Delay({"read", "write"}, Extra(r) + rw + d))
<1>1. /\ RefreshClocks \in SUBSET Clocks /\ {"read", "write"} \in SUBSET Clocks
      /\ Extra(r) + d \in Nat /\ Extra(r) + d \in Int /\ Extra(r) + rw + d \in Int
  BY ExtraType DEF RefreshClocks, Clocks
<1>2. ASSUME NEW c \in Banks
      PROVE  /\ busy(c) \in [Clocks -> Nat]
             /\ \A k \in {"act", "pre", "refresh"} : busy(c)[k] = Later(next[r][c][k], Extra(r) + d)
             /\ busy(c).read >= next[r][c].read /\ busy(c).write >= next[r][c].write
  <2>1. next[r][c] \in [Clocks -> Nat] /\ next[r][c].read \in Nat /\ next[r][c].write \in Nat
    BY BankType
  <2>2. /\ busy(c) \in [Clocks -> Nat]
        /\ \A k \in {"act", "pre", "refresh"} : busy(c)[k] = Later(next[r][c][k], Extra(r) + d)
        /\ \A k \in {"read", "write"} : busy(c)[k] = Later(next[r][c][k], Extra(r) + rw + d)
    BY <1>1, <2>1, RaisedTwice
  <2>3. busy(c).read >= next[r][c].read /\ busy(c).write >= next[r][c].write
    <3> HIDE DEF busy
    <3> QED BY <1>1, <2>1, <2>2, LaterMax
  <2> QED BY <2>2, <2>3
<1>3. next' = [next EXCEPT ![r] = [c \in Banks |-> busy(c)]]
  BY DEF Mitigate
<1> HIDE DEF busy
<1>4. next' \in [Ranks -> [Banks -> [Clocks -> Nat]]]
  BY <1>2, <1>3 DEF ChannelTypeOK
<1>5. /\ state' \in [Ranks -> [Banks -> States]]
      /\ occupied' \in [Ranks -> Nat]
  BY <1>1 DEF Mitigate, Busy, ChannelTypeOK, States, PoweredUp, ClosedStates
<1>6. ChannelTypeOK'
  BY <1>4, <1>5 DEF Mitigate, Command, ChannelTypeOK, refreshVars
<1>7. ASSUME NEW q \in Ranks, NEW c \in Banks
      PROVE  /\ ColumnsWait(q, c)
             /\ Waits(q, c, IF q = r THEN RefreshClocks ELSE {}, Extra(r) + d)
  <2>1. CASE q = r
    <3>1. next'[q][c] = busy(c)
      BY <1>3, <2>1 DEF ChannelTypeOK
    <3> QED BY <1>2, <2>1, <3>1 DEF ColumnsWait, Waits, RefreshClocks
  <2>2. CASE q # r
    <3>1. next'[q][c] = next[q][c]
      BY <1>3, <2>2 DEF ChannelTypeOK
    <3> QED BY <2>2, <3>1, SameBank
  <2> QED BY <2>1, <2>2
<1> QED BY <1>6, <1>7

LEMMA MitigationIs ==
  ASSUME NEW r \in Ranks, NEW m \in DelayMuls, Swap(r, m) \/ Move(r, m) \/ Stall(r, m)
  PROVE  \E d \in Nat, rw \in Nat : Mitigate(r, d, rw)
<1>1. T_SWAP * m \in Nat /\ T_MOVE * m \in Nat /\ T_STALL * m \in Nat
  BY TimingTypes DEF DelayMuls
<1>2. CASE Swap(r, m)
  BY <1>1, <1>2, TimingTypes DEF Swap
<1>3. CASE Move(r, m)
  BY <1>1, <1>3 DEF Move
<1>4. CASE Stall(r, m)
  BY <1>1, <1>4 DEF Stall
<1> QED BY <1>2, <1>3, <1>4

LEMMA PowerDownIs ==
  ASSUME NEW r \in Ranks, PowerDownFast(r) \/ PowerDownSlow(r)
  PROVE  \E kind \in PowerDowns : PowerDown(r, kind)
BY DEF PowerDownFast, PowerDownSlow, PowerDowns

LEMMA TickEffect ==
  ASSUME ChannelTypeOK, Tick
  PROVE  /\ ChannelTypeOK'
         /\ \A q \in Ranks, c \in Banks :
              /\ \A k \in {"act", "pre", "refresh"} :
                   next'[q][c][k] = IF MustForce(q) THEN toCompletion[q] - 1
                                    ELSE Down(next[q][c][k])
              /\ next'[q][c].read = Down(next[q][c].read)
              /\ next'[q][c].write = Down(next[q][c].write)
<1> DEFINE new(q, c) == IF MustForce(q) THEN ForcedNext(q, next[q][c])
                        ELSE [k \in Clocks |-> Down(next[q][c][k])]
<1>1. ASSUME NEW q \in Ranks
      PROVE  /\ toCompletion[q] - 1 \in Nat /\ toCompletion[q] \in 1..Window
             /\ toIssue[q] \in Int /\ num_issued[q] \in Nat
  <2>1. toCompletion[q] \in 1..Window /\ toIssue[q] \in Int /\ num_issued[q] \in Nat
    BY DEF ChannelTypeOK
  <2>2. toCompletion[q] \in Int /\ toCompletion[q] >= 1
    BY <2>1, WindowType
  <2> QED BY <2>1, <2>2
<1>2. ASSUME NEW q \in Ranks, NEW c \in Banks
      PROVE  /\ new(q, c) \in [Clocks -> Nat]
             /\ \A k \in {"act", "pre", "refresh"} :
                  new(q, c)[k] = IF MustForce(q) THEN toCompletion[q] - 1
                                 ELSE Down(next[q][c][k])
             /\ new(q, c).read = Down(next[q][c].read)
             /\ new(q, c).write = Down(next[q][c].write)
  <2>1. \A k \in Clocks : Down(next[q][c][k]) \in Nat
    <3>1. \A k \in Clocks : next[q][c][k] \in Nat
      BY BankType
    <3> QED BY <3>1 DEF Down
  <2>2. CASE MustForce(q)
    BY <1>1, <2>1, <2>2 DEF ForcedNext, Clocks, RefreshClocks
  <2>3. CASE ~ MustForce(q)
    BY <2>1, <2>3 DEF Clocks
  <2> QED BY <2>2, <2>3
<1>3. next' = [q \in Ranks |-> [c \in Banks |-> new(q, c)]]
  BY DEF Tick
<1> HIDE DEF new
<1>4. next' \in [Ranks -> [Banks -> [Clocks -> Nat]]]
  BY <1>2, <1>3
<1>5. state' \in [Ranks -> [Banks -> States]]
  BY DEF Tick, ChannelTypeOK, States, PoweredUp, ClosedStates
<1>6. active_row' \in [Ranks -> [Banks -> Rows \cup {NoRow}]]
  BY DEF Tick, ChannelTypeOK
<1>7. toCompletion' \in [Ranks -> 1..Window]
  <2>1. \A q \in Ranks : ~ Rollover(q) => toCompletion[q] - 1 \in 1..Window
    BY <1>1, WindowType DEF Rollover
  <2>2. Window \in 1..Window
    BY WindowType
  <2> QED BY <2>1, <2>2 DEF Tick
<1>8. toIssue' \in [Ranks -> Int]
  <2>1. ASSUME NEW q \in Ranks PROVE NewToIssue(q) \in Int
    <3>1. Window \in Int /\ toCompletion[q] - 1 \in Int /\ num_issued[q] \in Int
      BY <1>1, WindowType
    <3>2. IssueDeadline(Window, 0) \in Int
      BY <3>1, DeadlineType
    <3>3. IssueDeadline(toCompletion[q] - 1, num_issued[q]) \in Int
      BY <3>1, DeadlineType
    <3> QED BY <1>1, <3>2, <3>3 DEF NewToIssue
  <2> QED BY <2>1 DEF Tick
<1>9. num_issued' \in [Ranks -> Nat]
  BY <1>1 DEF Tick
<1>10. cas_issued' \in [Ranks -> [Banks -> 0..2]]
  BY DEF Tick, PerBank
<1>15. command_issued' \in BOOLEAN
  BY DEF Tick
<1>16. forced' \in [Ranks -> BOOLEAN]
  <2>1. \A q \in Ranks : (~ Rollover(q) /\ (forced[q] \/ MustForce(q))) \in BOOLEAN
    OBVIOUS
  <2> QED BY <2>1, Zenon DEF Tick
<1>11. sinceAct' \in [Ranks -> [Banks -> 0..T_RC]]
  BY TimingTypes DEF Tick, ChannelTypeOK
<1>12. bus' \in [rank : Ranks, left : Nat]
  <2>1. bus \in [rank : Ranks, left : Nat]
    BY DEF ChannelTypeOK
  <2>2. Down(bus.left) \in Nat
    BY <2>1 DEF Down
  <2>3. bus' = [bus EXCEPT !.left = Down(bus.left)]
    BY DEF Tick
  <2> QED BY <2>1, <2>2, <2>3
<1>13. occupied' \in [Ranks -> Nat]
  <2>1. \A q \in Ranks : Down(occupied[q]) \in Nat
    BY DEF ChannelTypeOK, Down
  <2> QED BY <2>1 DEF Tick
<1>14. ChannelTypeOK'
  BY <1>4, <1>5, <1>6, <1>7, <1>8, <1>9, <1>10, <1>11, <1>12, <1>13, <1>15,
     <1>16 DEF ChannelTypeOK
<1> QED BY <1>2, <1>3, <1>14

-----------------------------------------------------------------------------
(* Types. *)

LEMMA InitialTypes ==
  ASSUME ChannelInit PROVE ChannelTypeOK
<1>1. next \in [Ranks -> [Banks -> [Clocks -> Nat]]]
  BY DEF ChannelInit, PerBank, Delay
<1>2. /\ state \in [Ranks -> [Banks -> States]]
      /\ active_row \in [Ranks -> [Banks -> Rows \cup {NoRow}]]
      /\ cas_issued \in [Ranks -> [Banks -> 0..2]]
      /\ sinceAct \in [Ranks -> [Banks -> 0..T_RC]]
  BY TimingTypes DEF ChannelInit, PerBank, States, PoweredUp, ClosedStates
<1>3. /\ toCompletion \in [Ranks -> 1..Window]
      /\ toIssue \in [Ranks -> Int]
  BY WindowType, DeadlineType DEF ChannelInit
<1>4. bus \in [rank : Ranks, left : Nat]
  BY DramAssumption DEF ChannelInit
<1> QED BY <1>1, <1>2, <1>3, <1>4 DEF ChannelInit, ChannelTypeOK

LEMMA TypesKept ==
  ASSUME ChannelTypeOK, [ChannelNext]_channelVars
  PROVE  ChannelTypeOK'
<1>1. ASSUME NEW r \in Ranks, RankCommand(r) PROVE ChannelTypeOK'
  <2>1. CASE PrechargeAll(r)
    BY <2>1, PrechargeAllEffect
  <2>2. CASE PowerDownFast(r) \/ PowerDownSlow(r)
    BY <2>2, PowerDownIs, PowerDownEffect
  <2>3. CASE PowerUp(r)
    BY <2>3, WakeUpEffect DEF PowerUp
  <2>4. CASE Refresh(r)
    BY <2>4, RefreshEffect
  <2>5. ASSUME NEW m \in DelayMuls, Swap(r, m) \/ Move(r, m) \/ Stall(r, m)
        PROVE  ChannelTypeOK'
    BY <2>5, MitigationIs, MitigateEffect
  <2> QED BY <1>1, <2>1, <2>2, <2>3, <2>4, <2>5 DEF RankCommand
<1>2. ASSUME NEW r \in Ranks, NEW b \in Banks, BankCommand(r, b) PROVE ChannelTypeOK'
  <2>1. ASSUME NEW row \in Rows, Activate(r, b, row) PROVE ChannelTypeOK'
    BY <2>1, ActivateEffect
  <2>2. CASE Read(r, b)
    BY <2>2, ReadEffect
  <2>3. CASE Write(r, b)
    BY <2>3, WriteEffect
  <2>4. CASE Precharge(r, b)
    BY <2>4, PrechargeEffect
  <2>5. CASE AutoPrecharge(r, b)
    BY <2>5, AutoPrechargeEffect
  <2>6. CASE PowerUpRequest(r, b)
    BY <2>6, WakeUpEffect DEF PowerUpRequest
  <2> QED BY <1>2, <2>1, <2>2, <2>3, <2>4, <2>5, <2>6 DEF BankCommand
<1>3. CASE Tick
  BY <1>3, TickEffect
<1>4. CASE UNCHANGED channelVars
  BY <1>4 DEF ChannelTypeOK, channelVars, bankVars, refreshVars, history
<1> QED BY <1>1, <1>2, <1>3, <1>4 DEF ChannelNext

\* What the theorems need of ChannelSpec: a scheduler that issues its commands through
\* the channel's interface has the same properties, whether it is fair or not.
ChannelSafety == ChannelInit /\ [][ChannelNext]_channelVars

\* Every clock, deadline and state of the channel keeps its type.
LEMMA ChannelTypes == ChannelSafety => []ChannelTypeOK
<1>1. ChannelInit => ChannelTypeOK
  BY InitialTypes
<1>2. ChannelTypeOK /\ [ChannelNext]_channelVars => ChannelTypeOK'
  BY TypesKept
<1> QED BY <1>1, <1>2, PTL DEF ChannelSafety

-----------------------------------------------------------------------------
(* The inductive invariants. *)

\* The deadline is never later than its refreshes allow, is ahead while refreshes
\* are owed, and lies behind once they are forced.
DeadlineKept ==
  \A r \in Ranks :
    /\ toIssue[r] <= IssueDeadline(toCompletion[r], num_issued[r])
    /\ ~ forced[r] /\ num_issued[r] < Burst => toIssue[r] >= 1
    /\ forced[r] => toIssue[r] <= 0

\* A bank whose column access was issued in this cycle still has its row open.
ColumnOpen ==
  \A r \in Ranks, b \in Banks :
    cas_issued[r][b] # 0 => state[r][b] = "ROW_ACTIVE" /\ command_issued

\* next_act covers what is left of T_RC and of T_RRD, and the deadline what is left
\* of T_RAS: a forced refresh, which overwrites next_act, finds only T_RP of a row
\* cycle left.
ActCovered ==
  \A r \in Ranks, b \in Banks :
    /\ next[r][b].act >= T_RC - sinceAct[r][b]
    /\ \A c \in Banks : next[r][b].act >= T_RRD - sinceAct[r][c]
    /\ ~ forced[r] /\ num_issued[r] < Burst => toIssue[r] >= T_RAS - sinceAct[r][b]

\* While the bus is in use, next_read and next_write of every bank cover the burst
\* and, for another rank, the turn-around.
BusCovered ==
  bus.left # 0 =>
    \A r \in Ranks, b \in Banks :
      LET busy == bus.left + (IF bus.rank = r THEN 0 ELSE T_RTRS)
      IN next[r][b].read >= busy - T_CAS /\ next[r][b].write >= busy - T_CWD

\* next_refresh never outlasts the deadline, except by a refresh or a mitigation.
\* It also bounds next_pre, on which the start of an auto-precharge depends.
OpenStates == {"ROW_ACTIVE", "ACTIVE_POWER_DOWN"}
OpenTimes == {T_RAS, T_RTP, WriteTime, T_XP}
BankQuiet(r, b) ==
  /\ next[r][b].pre <= next[r][b].refresh
  /\ state[r][b] \in OpenStates => \E t \in OpenTimes : next[r][b].pre <= t
  /\ state[r][b] \notin OpenStates => next[r][b].pre <= next[r][b].act
  /\ IF forced[r]
     THEN next[r][b].refresh <= toCompletion[r]
     ELSE /\ num_issued[r] < Burst => next[r][b].refresh <= Later(toIssue[r], occupied[r])
          /\ next[r][b].refresh <= Later(IssueDeadline(Window, 0), occupied[r])
QuietBefore == \A r \in Ranks, b \in Banks : BankQuiet(r, b)

-----------------------------------------------------------------------------
(* Refresh windows. *)

\* Only a refresh and a new cycle touch the window of a rank.
LEMMA WindowsLeftAlone ==
  ASSUME ChannelNext, \A r \in Ranks : ~ Refresh(r), ~ Tick
  PROVE  UNCHANGED refreshVars
<1>1. ASSUME NEW r \in Ranks, RankCommand(r) PROVE UNCHANGED refreshVars
  BY <1>1 DEF RankCommand, PrechargeAll, PowerDownFast, PowerDownSlow, PowerDown, PowerUp,
              WakeUp, Swap, Move, Stall, Mitigate
<1>2. ASSUME NEW r \in Ranks, NEW b \in Banks, BankCommand(r, b) PROVE UNCHANGED refreshVars
  BY <1>2 DEF BankCommand, Activate, Read, Write, Precharge, AutoPrecharge, PowerUpRequest,
              WakeUp
<1> QED BY <1>1, <1>2 DEF ChannelNext

LEMMA InitialDeadline ==
  ASSUME ChannelInit PROVE DeadlineKept
<1>1. IssueDeadline(Window, 0) >= 1
  BY DeadlineAssumption, TimingTypes, WindowType, DeadlineType
<1>2. IssueDeadline(Window, 0) \in Int
  BY WindowType, DeadlineType
<1> QED BY <1>1, <1>2 DEF ChannelInit, DeadlineKept

\* The window of one rank in a new cycle.
LEMMA WindowTick ==
  ASSUME ChannelTypeOK, DeadlineKept, Tick, NEW r \in Ranks
  PROVE  /\ toIssue'[r] <= IssueDeadline(toCompletion'[r], num_issued'[r])
         /\ ~ forced'[r] /\ num_issued'[r] < Burst => toIssue'[r] >= 1
         /\ forced'[r] => toIssue'[r] <= 0
         /\ ~ forced'[r] /\ num_issued'[r] < Burst /\ ~ Rollover(r)
              => toIssue'[r] >= toIssue[r] - 1 /\ ~ forced[r] /\ num_issued[r] < Burst
<1> DEFINE c == toCompletion[r]
           n == num_issued[r]
           t == toIssue[r]
<1>1. /\ c \in Int /\ n \in Nat /\ n \in Int /\ t \in Int /\ forced[r] \in BOOLEAN /\ c >= 1
  <2>1. c \in 1..Window /\ n \in Nat /\ t \in Int /\ forced[r] \in BOOLEAN
    BY DEF ChannelTypeOK
  <2> QED BY <2>1, WindowType
<1>2. /\ toCompletion'[r] = IF Rollover(r) THEN Window ELSE c - 1
      /\ toIssue'[r] = NewToIssue(r)
      /\ num_issued'[r] = IF Rollover(r) THEN 0 ELSE n
      /\ forced'[r] = (~ Rollover(r) /\ (forced[r] \/ MustForce(r)))
  BY DEF Tick
<1>3. /\ t <= IssueDeadline(c, n)
      /\ ~ forced[r] /\ n < Burst => t >= 1
      /\ forced[r] => t <= 0
  BY DEF DeadlineKept
<1>4. IssueDeadline(Window, 0) \in Int /\ IssueDeadline(Window, 0) >= 1
  BY DeadlineAssumption, TimingTypes, WindowType, DeadlineType
<1>5. /\ IssueDeadline(c - 1, n) = IssueDeadline(c, n) - 1
      /\ IssueDeadline(c, n) \in Int
  BY <1>1, DeadlineMoves, DeadlineType
<1> HIDE DEF c, n, t
<1>6. CASE Rollover(r)
  <2>1. /\ toCompletion'[r] = Window /\ num_issued'[r] = 0 /\ ~ forced'[r]
        /\ toIssue'[r] = IssueDeadline(Window, 0)
    BY <1>2, <1>6 DEF NewToIssue
  <2> QED BY <2>1, <1>4, <1>6
<1>7. CASE ~ Rollover(r)
  <2>1. /\ toCompletion'[r] = c - 1 /\ num_issued'[r] = n
        /\ forced'[r] = (forced[r] \/ (t = 1 /\ n < Burst))
        /\ toIssue'[r] = IF t > 1 THEN IssueDeadline(c - 1, n) ELSE t - 1
    BY <1>2, <1>7, Zenon DEF NewToIssue, MustForce, c, n, t
  <2>2. toIssue'[r] <= IssueDeadline(c - 1, n)
    BY <1>1, <1>3, <1>5, <2>1
  <2>3. ~ forced'[r] /\ n < Burst => t > 1 /\ ~ forced[r]
    <3>1. ~ forced'[r] /\ n < Burst => ~ forced[r] /\ t # 1
      BY <2>1, Zenon
    <3>2. ~ forced'[r] /\ n < Burst => t >= 1
      BY <1>3, <3>1, Zenon
    <3>3. t # 1 /\ t >= 1 => t > 1
      BY <1>1
    <3> QED BY <3>1, <3>2, <3>3, Zenon
  <2>4. ~ forced'[r] /\ n < Burst => toIssue'[r] >= t - 1
    BY <1>1, <1>3, <1>5, <2>1, <2>3
  <2>5. forced'[r] => t <= 1
    BY <1>1, <1>3, <2>1
  <2>6. forced'[r] => toIssue'[r] <= 0
    BY <1>1, <2>1, <2>5
  <2>7. ~ forced'[r] /\ n < Burst => toIssue'[r] >= 1
    <3>1. t > 1 => toIssue'[r] = IssueDeadline(c - 1, n)
      BY <2>1
    <3>2. t > 1 => IssueDeadline(c - 1, n) >= 1
      BY <1>1, <1>3, <1>5
    <3> QED BY <2>3, <3>1, <3>2, Zenon
  <2> QED BY <2>1, <2>2, <2>3, <2>4, <2>6, <2>7 DEF n, t
<1> QED BY <1>6, <1>7

LEMMA DeadlineStep ==
  ASSUME ChannelTypeOK, DeadlineKept, [ChannelNext]_channelVars
  PROVE  DeadlineKept'
<1>1. CASE Tick
  BY <1>1, WindowTick DEF DeadlineKept
<1>2. ASSUME NEW r \in Ranks, Refresh(r) PROVE DeadlineKept'
  <2>1. /\ num_issued' = [num_issued EXCEPT ![r] = @ + 1] /\ ~ forced[r]
        /\ UNCHANGED <<toCompletion, toIssue, forced>>
    BY <1>2 DEF Refresh, is_refresh_allowed, CommandSlot
  <2>2. /\ toCompletion[r] \in Int /\ num_issued[r] \in Int /\ toIssue[r] \in Int
    <3>1. toCompletion[r] \in 1..Window /\ num_issued[r] \in Nat /\ toIssue[r] \in Int
      BY DEF ChannelTypeOK
    <3> QED BY <3>1, WindowType
  <2>3. IssueDeadline(toCompletion[r], num_issued[r] + 1)
          = IssueDeadline(toCompletion[r], num_issued[r]) + T_RFC
    BY <2>2, DeadlineMoves
  <2>4. IssueDeadline(toCompletion[r], num_issued[r]) \in Int
    BY <2>2, DeadlineType
  <2>5. toIssue[r] <= IssueDeadline(toCompletion[r], num_issued[r] + 1)
    BY <2>2, <2>3, <2>4, TimingTypes DEF DeadlineKept
  <2>6. ~ forced[r] /\ num_issued[r] + 1 < Burst => toIssue[r] >= 1
    BY <2>2, DramAssumption DEF DeadlineKept
  <2>7. num_issued'[r] = num_issued[r] + 1
        /\ \A q \in Ranks \ {r} : num_issued'[q] = num_issued[q]
    BY <2>1 DEF ChannelTypeOK
  <2> QED BY <2>1, <2>5, <2>6, <2>7 DEF DeadlineKept
<1>3. CASE UNCHANGED refreshVars
  BY <1>3 DEF refreshVars, DeadlineKept
<1>4. UNCHANGED channelVars => UNCHANGED refreshVars
  BY DEF channelVars
<1> QED BY <1>1, <1>2, <1>3, <1>4, WindowsLeftAlone

\* A window that ends without its refreshes and without forced ones would have its
\* deadline both ahead and before the end of the window.
LEMMA NoWindowUnrefreshed ==
  ASSUME ChannelTypeOK, DeadlineKept, NEW r \in Ranks, Rollover(r)
  PROVE  forced[r] \/ num_issued[r] >= Burst
<1>1. /\ num_issued[r] \in Nat /\ num_issued[r] \in Int /\ toIssue[r] \in Int
      /\ forced[r] \in BOOLEAN /\ 1 \in Int /\ toCompletion[r] = 1
  BY DEF ChannelTypeOK, Rollover
<1> SUFFICES ASSUME ~ forced[r], num_issued[r] < Burst PROVE FALSE
  BY <1>1, DramAssumption
<1>2. IssueDeadline(1, num_issued[r]) <= 1 - T_RP - T_RFC
  BY <1>1, DeadlineBeforeEnd
<1>3. IssueDeadline(1, num_issued[r]) \in Int
  BY <1>1, DeadlineType
<1>4. toIssue[r] >= 1 /\ toIssue[r] <= IssueDeadline(1, num_issued[r])
  BY <1>1 DEF DeadlineKept
<1> QED BY <1>1, <1>2, <1>3, <1>4, TimingTypes

\* Every step of update_memory() and every refresh keeps refresh_issue_deadline ahead of
\* the cycle while refreshes are owed, and behind it once they are forced.
THEOREM DeadlinesKept == ChannelSafety => []DeadlineKept
<1>1. ChannelInit => DeadlineKept
  BY InitialDeadline
<1>2. ChannelTypeOK /\ DeadlineKept /\ [ChannelNext]_channelVars => DeadlineKept'
  BY DeadlineStep
<1> QED BY <1>1, <1>2, ChannelTypes, PTL DEF ChannelSafety

\* No refresh window of any rank ends before its refreshes were issued or forced,
\* although forcing is decided by the equality of the cycle with a deadline that
\* every refresh moves.
THEOREM EveryWindowRefreshed == ChannelSafety => WindowRefreshed
<1>1. ChannelTypeOK /\ DeadlineKept /\ [ChannelNext]_channelVars =>
        [\A r \in Ranks : Rollover(r) /\ toCompletion'[r] # 1 =>
           forced[r] \/ num_issued[r] >= Burst]_channelVars
  BY NoWindowUnrefreshed
<1> QED BY <1>1, ChannelTypes, DeadlinesKept, PTL DEF ChannelSafety, WindowRefreshed

-----------------------------------------------------------------------------
(* Bank states. *)

LEMMA ColumnStep ==
  ASSUME ChannelTypeOK, ColumnOpen, [ChannelNext]_channelVars
  PROVE  ColumnOpen'
<1>1. ASSUME NEW r \in Ranks, RankCommand(r) PROVE ColumnOpen'
  <2>1. UNCHANGED cas_issued /\ ~ command_issued
    <3>1. 0 \in Banks
      BY DramAssumption
    <3> QED BY <1>1, <3>1 DEF RankCommand, PrechargeAll, PowerDownFast, PowerDownSlow,
               PowerDown, PowerUp, WakeUp, Refresh, Swap, Move, Stall, Mitigate,
               is_precharge_allowed, is_powerdown_fast_allowed, is_powerdown_slow_allowed,
               is_powerup_allowed, is_refresh_allowed, CommandSlot
  <2> QED BY <2>1 DEF ColumnOpen
<1>2. ASSUME NEW r \in Ranks, NEW b \in Banks, BankCommand(r, b) PROVE ColumnOpen'
  <2>1. CASE AutoPrecharge(r, b)
    BY <2>1 DEF AutoPrecharge, PerBank, ColumnOpen
  <2>2. CASE Read(r, b)
    BY <2>2 DEF Read, is_read_allowed, CommandSlot, Command, ColumnOpen, ChannelTypeOK
  <2>3. CASE Write(r, b)
    BY <2>3 DEF Write, is_write_allowed, CommandSlot, Command, ColumnOpen, ChannelTypeOK
  <2>4. CASE \/ \E row \in Rows : Activate(r, b, row)
             \/ Precharge(r, b) \/ PowerUpRequest(r, b)
    <3>1. UNCHANGED cas_issued /\ ~ command_issued
      BY <2>4 DEF Activate, Precharge, PowerUpRequest, WakeUp, is_activate_allowed,
                  is_precharge_allowed, is_wakeup_issuable, CommandSlot
    <3> QED BY <3>1 DEF ColumnOpen
  <2> QED BY <1>2, <2>1, <2>2, <2>3, <2>4 DEF BankCommand
<1>3. CASE Tick
  BY <1>3 DEF Tick, PerBank, ColumnOpen
<1>4. CASE UNCHANGED channelVars
  BY <1>4 DEF channelVars, bankVars, ColumnOpen
<1> QED BY <1>1, <1>2, <1>3, <1>4 DEF ChannelNext

\* One rank: its open rows are known and it sleeps as a whole.
RankAwake(s) == \A b \in Banks : s[b] \in PoweredUp
RankAsleep(s) ==
  \/ \A b \in Banks : s[b] = "PRECHARGE_POWER_DOWN_SLOW"
  \/ \A b \in Banks : s[b] \in {"PRECHARGE_POWER_DOWN_FAST", "ACTIVE_POWER_DOWN"}
RowsKnown(s, a) ==
  \A b \in Banks : s[b] \in {"ROW_ACTIVE", "ACTIVE_POWER_DOWN"} => a[b] # NoRow

LEMMA CoherentIs ==
  RankCoherent <=>
    \A r \in Ranks : RowsKnown(state[r], active_row[r])
                     /\ (RankAwake(state[r]) \/ RankAsleep(state[r]))
BY DEF RankCoherent, RowsKnown, RankAwake, RankAsleep

\* A rank that has one bank awake is awake.
LEMMA OneAwake ==
  ASSUME RankCoherent, NEW r \in Ranks, NEW b \in Banks, state[r][b] \in PoweredUp
  PROVE  RankAwake(state[r])
BY DEF RankCoherent, RankAwake, PoweredUp, ClosedStates

\* A rank that has one bank asleep sleeps, and wakes up as a whole.
LEMMA OneAsleep ==
  ASSUME RankCoherent, NEW r \in Ranks, NEW b \in Banks, state[r][b] \in PowerDowns
  PROVE  RankAsleep(state[r]) /\ \A c \in Banks : state[r][c] \in PowerDowns
BY DEF RankCoherent, RankAsleep, PowerDowns, PoweredUp, ClosedStates

LEMMA WakeUpCoherent ==
  ASSUME ChannelTypeOK, RankCoherent, NEW r \in Ranks, WakeUp(r),
         \A c \in Banks : state[r][c] \in PowerDowns
  PROVE  RowsKnown(state'[r], active_row'[r]) /\ RankAwake(state'[r])
<1>1. \A c \in Banks :
        /\ state'[r][c] = IF state[r][c] = "ACTIVE_POWER_DOWN" THEN "ROW_ACTIVE" ELSE "IDLE"
        /\ state[r][c] = "ACTIVE_POWER_DOWN" => active_row'[r][c] = active_row[r][c]
  BY DEF WakeUp, PowerDowns, ChannelTypeOK
<1> QED BY <1>1 DEF RowsKnown, RankAwake, RankCoherent, PoweredUp, ClosedStates

LEMMA PowerDownCoherent ==
  ASSUME ChannelTypeOK, RankCoherent, NEW r \in Ranks,
         PowerDownFast(r) \/ PowerDownSlow(r)
  PROVE  RowsKnown(state'[r], active_row'[r]) /\ RankAsleep(state'[r])
<1>1. CASE PowerDownFast(r)
  <2>1. \A c \in Banks :
          /\ state'[r][c] = IF state[r][c] = "ROW_ACTIVE" THEN "ACTIVE_POWER_DOWN"
                            ELSE "PRECHARGE_POWER_DOWN_FAST"
          /\ state[r][c] = "ROW_ACTIVE" => active_row'[r][c] = active_row[r][c]
    BY <1>1 DEF PowerDownFast, PowerDown, Asleep, ChannelTypeOK
  <2> QED BY <2>1 DEF RowsKnown, RankAsleep, RankCoherent
<1>2. CASE PowerDownSlow(r)
  <2>1. \A c \in Banks : state'[r][c] = "PRECHARGE_POWER_DOWN_SLOW"
    BY <1>2 DEF PowerDownSlow, is_powerdown_slow_allowed, PowerDown, Asleep, ClosedStates,
                ChannelTypeOK
  <2> QED BY <2>1 DEF RowsKnown, RankAsleep
<1> QED BY <1>1, <1>2

LEMMA RefreshingCoherent ==
  ASSUME ChannelTypeOK, NEW r \in Ranks, Busy(r)
  PROVE  RowsKnown(state'[r], active_row'[r]) /\ RankAwake(state'[r])
<1>1. \A c \in Banks : state'[r][c] = "REFRESHING"
  BY DEF Busy, ChannelTypeOK
<1> QED BY <1>1 DEF RowsKnown, RankAwake, PoweredUp, ClosedStates

\* The other ranks, whose banks a command leaves alone.
LEMMA OtherRanks ==
  ASSUME RankCoherent, NEW r \in Ranks,
         RowsKnown(state'[r], active_row'[r]),
         RankAwake(state'[r]) \/ RankAsleep(state'[r]),
         \A q \in Ranks \ {r} : state'[q] = state[q] /\ active_row'[q] = active_row[q]
  PROVE  RankCoherent'
<1>1. RankCoherent' <=>
        \A q \in Ranks : RowsKnown(state'[q], active_row'[q])
                         /\ (RankAwake(state'[q]) \/ RankAsleep(state'[q]))
  BY DEF RankCoherent, RowsKnown, RankAwake, RankAsleep
<1>2. \A q \in Ranks \ {r} : RowsKnown(state'[q], active_row'[q])
                             /\ (RankAwake(state'[q]) \/ RankAsleep(state'[q]))
  BY CoherentIs
<1> QED BY <1>1, <1>2

LEMMA CoherentStep ==
  ASSUME ChannelTypeOK, ColumnOpen, RankCoherent, [ChannelNext]_channelVars
  PROVE  RankCoherent'
<1>1. ASSUME NEW r \in Ranks, RankCommand(r) PROVE RankCoherent'
  <2>1. \A q \in Ranks \ {r} : state'[q] = state[q] /\ active_row'[q] = active_row[q]
    BY <1>1 DEF RankCommand, PrechargeAll, PowerDownFast, PowerDownSlow, PowerDown, PowerUp,
                WakeUp, Refresh, Busy, Swap, Move, Stall, Mitigate, ChannelTypeOK
  <2>2. CASE PrechargeAll(r)
    <3>1. \A c \in Banks : state'[r][c] = "PRECHARGING"
      BY <2>2 DEF PrechargeAll, ChannelTypeOK
    <3>2. RowsKnown(state'[r], active_row'[r]) /\ RankAwake(state'[r])
      BY <3>1 DEF RowsKnown, RankAwake, PoweredUp, ClosedStates
    <3> QED BY <2>1, <3>2, OtherRanks
  <2>3. CASE PowerDownFast(r) \/ PowerDownSlow(r)
    BY <2>1, <2>3, PowerDownCoherent, OtherRanks
  <2>4. CASE PowerUp(r)
    <3>1. \A c \in Banks : state[r][c] \in PowerDowns
      BY <2>4, OneAsleep, DramAssumption DEF PowerUp, is_powerup_allowed
    <3> QED BY <2>1, <2>4, <3>1, WakeUpCoherent, OtherRanks DEF PowerUp
  <2>5. CASE Refresh(r)
    BY <2>1, <2>5, RefreshingCoherent, OtherRanks DEF Refresh
  <2>6. ASSUME NEW m \in DelayMuls, Swap(r, m) \/ Move(r, m) \/ Stall(r, m)
        PROVE  RankCoherent'
    <3>1. Busy(r)
      BY <2>6 DEF Swap, Move, Stall, Mitigate
    <3> QED BY <2>1, <3>1, RefreshingCoherent, OtherRanks
  <2> QED BY <1>1, <2>2, <2>3, <2>4, <2>5, <2>6 DEF RankCommand
<1>2. ASSUME NEW r \in Ranks, NEW b \in Banks, BankCommand(r, b) PROVE RankCoherent'
  <2>1. \A q \in Ranks \ {r} : state'[q] = state[q] /\ active_row'[q] = active_row[q]
    BY <1>2 DEF BankCommand, Activate, Read, Write, Precharge, AutoPrecharge, PowerUpRequest,
                WakeUp, ChannelTypeOK
  <2>2. ASSUME NEW row \in Rows, Activate(r, b, row) PROVE RankCoherent'
    <3>1. RankAwake(state[r])
      BY <2>2, OneAwake DEF Activate, is_activate_allowed, PoweredUp
    <3>2. \A c \in Banks :
            /\ state'[r][c] = IF c = b THEN "ROW_ACTIVE" ELSE state[r][c]
            /\ active_row'[r][c] = IF c = b THEN row ELSE active_row[r][c]
      BY <2>2 DEF Activate, ChannelTypeOK
    <3>3. row # NoRow
      BY DramAssumption DEF NoRow
    <3>4. RowsKnown(state'[r], active_row'[r]) /\ RankAwake(state'[r])
      BY <3>1, <3>2, <3>3 DEF RowsKnown, RankAwake, RankCoherent, PoweredUp
    <3> QED BY <2>1, <3>4, OtherRanks
  <2>3. CASE Precharge(r, b) \/ AutoPrecharge(r, b)
    <3>1. state[r][b] \in PoweredUp
      BY <2>3 DEF Precharge, is_precharge_allowed, AutoPrecharge, ColumnOpen, PoweredUp
    <3>2. RankAwake(state[r])
      BY <3>1, OneAwake
    <3>3. \A c \in Banks :
            /\ state'[r][c] = IF c = b THEN "PRECHARGING" ELSE state[r][c]
            /\ c # b => active_row'[r][c] = active_row[r][c]
      BY <2>3 DEF Precharge, AutoPrecharge, ChannelTypeOK
    <3>4. RowsKnown(state'[r], active_row'[r]) /\ RankAwake(state'[r])
      BY <3>2, <3>3 DEF RowsKnown, RankAwake, RankCoherent, PoweredUp, ClosedStates
    <3> QED BY <2>1, <3>4, OtherRanks
  <2>4. CASE Read(r, b) \/ Write(r, b)
    BY <2>4 DEF Read, Write, RankCoherent
  <2>5. CASE PowerUpRequest(r, b)
    <3>1. \A c \in Banks : state[r][c] \in PowerDowns
      BY <2>5, OneAsleep DEF PowerUpRequest, is_wakeup_issuable
    <3> QED BY <2>1, <2>5, <3>1, WakeUpCoherent, OtherRanks DEF PowerUpRequest
  <2> QED BY <1>2, <2>2, <2>3, <2>4, <2>5 DEF BankCommand
<1>3. CASE Tick
  <2> SUFFICES ASSUME NEW r \in Ranks
               PROVE  /\ RowsKnown(state'[r], active_row'[r])
                      /\ RankAwake(state'[r]) \/ RankAsleep(state'[r])
    BY DEF RankCoherent, RowsKnown, RankAwake, RankAsleep
  <2>1. \A c \in Banks :
          /\ state'[r][c] = IF MustForce(r) THEN "REFRESHING" ELSE state[r][c]
          /\ ~ MustForce(r) => active_row'[r][c] = active_row[r][c]
    BY <1>3 DEF Tick
  <2>2. CASE MustForce(r)
    BY <2>1, <2>2 DEF RowsKnown, RankAwake, PoweredUp, ClosedStates
  <2>3. CASE ~ MustForce(r)
    BY <2>1, <2>3, CoherentIs DEF RowsKnown, RankAwake, RankAsleep
  <2> QED BY <2>2, <2>3
<1>4. CASE UNCHANGED channelVars
  BY <1>4 DEF channelVars, bankVars, RankCoherent
<1> QED BY <1>1, <1>2, <1>3, <1>4 DEF ChannelNext

\* cas_issued_current_cycle is only set for a bank whose row is open: what issue_autoprecharge()
\* relies on.
THEOREM ColumnsOpen == ChannelSafety => []ColumnOpen
<1>1. ChannelInit => ColumnOpen
  BY DEF ChannelInit, PerBank, ColumnOpen
<1>2. ChannelTypeOK /\ ColumnOpen /\ [ChannelNext]_channelVars => ColumnOpen'
  BY ColumnStep
<1> QED BY <1>1, <1>2, ChannelTypes, PTL DEF ChannelSafety

\* An open row is known, also across a power-down, and the banks of a rank sleep and
\* wake up together, so that bank 0 may speak for the rank.
THEOREM RanksCoherent == ChannelSafety => []RankCoherent
<1>1. ChannelInit => RankCoherent
  BY DEF ChannelInit, PerBank, RankCoherent, PoweredUp, ClosedStates
<1>2. ChannelTypeOK /\ ColumnOpen /\ RankCoherent /\ [ChannelNext]_channelVars => RankCoherent'
  BY CoherentStep
<1> QED BY <1>1, <1>2, ChannelTypes, ColumnsOpen, PTL DEF ChannelSafety

-----------------------------------------------------------------------------
(* The data bus. *)

\* A command that transfers nothing leaves the bus as it was.
LEMMA BusUntouched ==
  ASSUME ChannelTypeOK, BusCovered, UNCHANGED bus,
         next' \in [Ranks -> [Banks -> [Clocks -> Nat]]],
         \A q \in Ranks, c \in Banks : ColumnsWait(q, c)
  PROVE  BusCovered'
<1> SUFFICES ASSUME bus.left # 0, NEW q \in Ranks, NEW c \in Banks
             PROVE  LET busy == bus.left + (IF bus.rank = q THEN 0 ELSE T_RTRS)
                    IN next'[q][c].read >= busy - T_CAS /\ next'[q][c].write >= busy - T_CWD
  BY DEF BusCovered
<1> DEFINE busy == bus.left + (IF bus.rank = q THEN 0 ELSE T_RTRS)
<1>1. next[q][c].read >= busy - T_CAS /\ next[q][c].write >= busy - T_CWD
  BY DEF BusCovered
<1>2. bus.left \in Nat
  BY DEF ChannelTypeOK
<1>3. busy \in Nat
  BY <1>2, TimingTypes
<1>4. /\ next[q][c].read \in Nat /\ next[q][c].write \in Nat
      /\ next'[q][c].read \in Nat /\ next'[q][c].write \in Nat
  BY BankType DEF Clocks
<1>5. next'[q][c].read >= next[q][c].read /\ next'[q][c].write >= next[q][c].write
  BY DEF ColumnsWait
<1> HIDE DEF busy
<1>6. next'[q][c].read >= busy - T_CAS /\ next'[q][c].write >= busy - T_CWD
  BY <1>1, <1>3, <1>4, <1>5, TimingTypes
<1> QED BY <1>6 DEF busy

LEMMA BusStep ==
  ASSUME ChannelTypeOK, BusCovered, [ChannelNext]_channelVars
  PROVE  BusCovered'
<1>0. next' \in [Ranks -> [Banks -> [Clocks -> Nat]]]
  BY TypesKept DEF ChannelTypeOK
<1>1. ASSUME NEW r \in Ranks, RankCommand(r) PROVE BusCovered'
  <2>1. UNCHANGED bus
    BY <1>1 DEF RankCommand, PrechargeAll, PowerDownFast, PowerDownSlow, PowerDown, PowerUp,
                WakeUp, Refresh, Swap, Move, Stall, Mitigate, history
  <2>2. \A q \in Ranks, c \in Banks : ColumnsWait(q, c)
    <3>1. CASE PrechargeAll(r)
      BY <3>1, PrechargeAllEffect
    <3>2. CASE PowerDownFast(r) \/ PowerDownSlow(r)
      BY <3>2, PowerDownIs, PowerDownEffect
    <3>3. CASE PowerUp(r)
      BY <3>3, WakeUpEffect DEF PowerUp
    <3>4. CASE Refresh(r)
      BY <3>4, RefreshEffect
    <3>5. ASSUME NEW m \in DelayMuls, Swap(r, m) \/ Move(r, m) \/ Stall(r, m)
          PROVE  \A q \in Ranks, c \in Banks : ColumnsWait(q, c)
      BY <3>5, MitigationIs, MitigateEffect
    <3> QED BY <1>1, <3>1, <3>2, <3>3, <3>4, <3>5 DEF RankCommand
  <2> QED BY <1>0, <2>1, <2>2, BusUntouched
<1>2. ASSUME NEW r \in Ranks, NEW b \in Banks, BankCommand(r, b) PROVE BusCovered'
  <2>1. CASE Read(r, b)
    <3>1. bus' = [rank |-> r, left |-> T_CAS + T_DATA_TRANS]
      BY <2>1 DEF Read, Transfer
    <3>2. bus'.rank = r /\ bus'.left = T_CAS + T_DATA_TRANS
      BY <3>1
    <3> SUFFICES ASSUME NEW q \in Ranks, NEW c \in Banks
                 PROVE  LET busy == T_CAS + T_DATA_TRANS + (IF r = q THEN 0 ELSE T_RTRS)
                        IN next'[q][c].read >= busy - T_CAS /\ next'[q][c].write >= busy - T_CWD
      BY <3>2 DEF BusCovered
    <3>3. /\ next'[q][c].read >= T_DATA_TRANS + (IF q = r THEN 0 ELSE T_RTRS)
          /\ next'[q][c].write >= T_CAS + T_DATA_TRANS + T_RTRS - T_CWD
      BY <2>1, ReadEffect
    <3>4. next'[q][c].read \in Nat /\ next'[q][c].write \in Nat
      BY <1>0 DEF Clocks
    <3> QED BY <3>3, <3>4, TimingTypes
  <2>2. CASE Write(r, b)
    <3>1. bus' = [rank |-> r, left |-> T_CWD + T_DATA_TRANS]
      BY <2>2 DEF Write, Transfer
    <3>2. bus'.rank = r /\ bus'.left = T_CWD + T_DATA_TRANS
      BY <3>1
    <3> SUFFICES ASSUME NEW q \in Ranks, NEW c \in Banks
                 PROVE  LET busy == T_CWD + T_DATA_TRANS + (IF r = q THEN 0 ELSE T_RTRS)
                        IN next'[q][c].read >= busy - T_CAS /\ next'[q][c].write >= busy - T_CWD
      BY <3>2 DEF BusCovered
    <3>3. /\ next'[q][c].read >= T_CWD + T_DATA_TRANS - T_CAS + (IF q = r THEN 0 ELSE T_RTRS)
          /\ next'[q][c].write >= T_DATA_TRANS + (IF q = r THEN 0 ELSE T_RTRS)
      BY <2>2, WriteEffect
    <3>4. next'[q][c].read \in Nat /\ next'[q][c].write \in Nat
      BY <1>0 DEF Clocks
    <3> QED BY <3>3, <3>4, TimingTypes
  <2>3. ASSUME NEW row \in Rows, Activate(r, b, row) PROVE BusCovered'
    BY <1>0, <2>3, ActivateEffect, BusUntouched DEF Activate
  <2>4. CASE Precharge(r, b)
    BY <1>0, <2>4, PrechargeEffect, BusUntouched DEF Precharge, history
  <2>5. CASE AutoPrecharge(r, b)
    BY <1>0, <2>5, AutoPrechargeEffect, BusUntouched DEF AutoPrecharge, history
  <2>6. CASE PowerUpRequest(r, b)
    BY <1>0, <2>6, WakeUpEffect, BusUntouched DEF PowerUpRequest, WakeUp, history
  <2> QED BY <1>2, <2>1, <2>2, <2>3, <2>4, <2>5, <2>6 DEF BankCommand
<1>3. CASE Tick
  <2>1. bus.left \in Nat /\ bus'.left = Down(bus.left) /\ bus'.rank = bus.rank
    BY <1>3 DEF Tick, ChannelTypeOK
  <2> SUFFICES ASSUME bus'.left # 0, NEW q \in Ranks, NEW c \in Banks
               PROVE  LET busy == bus'.left + (IF bus.rank = q THEN 0 ELSE T_RTRS)
                      IN next'[q][c].read >= busy - T_CAS /\ next'[q][c].write >= busy - T_CWD
    BY <2>1 DEF BusCovered
  <2>2. bus.left # 0 /\ bus'.left = bus.left - 1
    BY <2>1 DEF Down
  <2>3. LET busy == bus.left + (IF bus.rank = q THEN 0 ELSE T_RTRS)
        IN next[q][c].read >= busy - T_CAS /\ next[q][c].write >= busy - T_CWD
    BY <2>2 DEF BusCovered
  <2>4. next'[q][c].read = Down(next[q][c].read) /\ next'[q][c].write = Down(next[q][c].write)
    BY <1>3, TickEffect
  <2>5. next[q][c].read \in Nat /\ next[q][c].write \in Nat
    BY BankType
  <2>6. /\ Down(next[q][c].read) >= next[q][c].read - 1
        /\ Down(next[q][c].write) >= next[q][c].write - 1
        /\ Down(next[q][c].read) \in Nat /\ Down(next[q][c].write) \in Nat
    BY <2>5 DEF Down
  <2> QED BY <2>1, <2>2, <2>3, <2>4, <2>5, <2>6, TimingTypes
<1>4. CASE UNCHANGED channelVars
  BY <1>4 DEF channelVars, bankVars, history, BusCovered
<1> QED BY <1>1, <1>2, <1>3, <1>4 DEF ChannelNext

\* next_read and next_write of every bank keep the running data burst to itself.
THEOREM BusAlwaysCovered == ChannelSafety => []BusCovered
<1>1. ChannelInit => BusCovered
  BY DEF ChannelInit, BusCovered
<1>2. ChannelTypeOK /\ BusCovered /\ [ChannelNext]_channelVars => BusCovered'
  BY BusStep
<1> QED BY <1>1, <1>2, ChannelTypes, PTL DEF ChannelSafety

\* A column access is only issued when the bus is free by the time of its data.
LEMMA AccessFindsBusFree ==
  ASSUME ChannelTypeOK, BusCovered, [ChannelNext]_channelVars,
         NEW r \in Ranks, NEW b \in Banks, cas_issued[r][b] = 0
  PROVE  /\ cas_issued'[r][b] = 1 => BusFree(r, T_CAS)
         /\ cas_issued'[r][b] = 2 => BusFree(r, T_CWD)
<1>1. ASSUME NEW q \in Ranks, RankCommand(q) PROVE cas_issued'[r][b] = 0
  BY <1>1 DEF RankCommand, PrechargeAll, PowerDownFast, PowerDownSlow, PowerDown, PowerUp,
              WakeUp, Refresh, Swap, Move, Stall, Mitigate
<1>2. ASSUME NEW q \in Ranks, NEW c \in Banks, BankCommand(q, c)
      PROVE  /\ cas_issued'[r][b] = 1 => BusFree(r, T_CAS)
             /\ cas_issued'[r][b] = 2 => BusFree(r, T_CWD)
  <2>1. CASE Read(q, c)
    <3>1. cas_issued'[r][b] = IF r = q /\ b = c THEN 1 ELSE 0
      BY <2>1 DEF Read, ChannelTypeOK
    <3>2. next[q][c].read = 0
      BY <2>1 DEF Read, is_read_allowed, Ready
    <3>3. bus.left \in Nat
      BY DEF ChannelTypeOK
    <3>4. r = q /\ b = c => BusFree(r, T_CAS)
      BY <3>2, <3>3, TimingTypes DEF BusCovered, BusFree
    <3> QED BY <3>1, <3>4
  <2>2. CASE Write(q, c)
    <3>1. cas_issued'[r][b] = IF r = q /\ b = c THEN 2 ELSE 0
      BY <2>2 DEF Write, ChannelTypeOK
    <3>2. next[q][c].write = 0
      BY <2>2 DEF Write, is_write_allowed, Ready
    <3>3. bus.left \in Nat
      BY DEF ChannelTypeOK
    <3>4. r = q /\ b = c => BusFree(r, T_CWD)
      BY <3>2, <3>3, TimingTypes DEF BusCovered, BusFree
    <3> QED BY <3>1, <3>4
  <2>3. CASE \/ \E row \in Rows : Activate(q, c, row)
             \/ Precharge(q, c) \/ AutoPrecharge(q, c) \/ PowerUpRequest(q, c)
    BY <2>3 DEF Activate, Precharge, AutoPrecharge, PowerUpRequest, WakeUp, PerBank
  <2> QED BY <1>2, <2>1, <2>2, <2>3 DEF BankCommand
<1>3. CASE Tick
  BY <1>3 DEF Tick, PerBank
<1>4. CASE UNCHANGED channelVars
  BY <1>4 DEF channelVars
<1> QED BY <1>1, <1>2, <1>3, <1>4 DEF ChannelNext

\* No two data bursts of the channel overlap, and two ranks leave T_RTRS between theirs.
THEOREM BusExclusive == ChannelSafety => DataBusExclusive
<1>1. ChannelTypeOK /\ BusCovered /\ [ChannelNext]_channelVars =>
        [\A r \in Ranks, b \in Banks : cas_issued[r][b] = 0 =>
           /\ cas_issued'[r][b] = 1 => BusFree(r, T_CAS)
           /\ cas_issued'[r][b] = 2 => BusFree(r, T_CWD)]_channelVars
  BY AccessFindsBusFree
<1> QED BY <1>1, ChannelTypes, BusAlwaysCovered, PTL DEF ChannelSafety, DataBusExclusive

-----------------------------------------------------------------------------
(* The distance of activations. *)

LEMMA ActNotEarlier ==
  ASSUME ChannelTypeOK, NEW q \in Ranks, NEW c \in Banks, NEW ks, NEW d \in Int,
         Waits(q, c, ks, d)
  PROVE  next'[q][c].act >= next[q][c].act
<1>1. next[q][c].act \in Nat /\ Later(next[q][c].act, d) >= next[q][c].act
  BY BankType, LaterMax
<1> QED BY <1>1 DEF Waits

\* A command that activates nothing.
LEMMA ActUntouched ==
  ASSUME ChannelTypeOK, ChannelTypeOK', ActCovered, UNCHANGED <<sinceAct, toIssue, forced>>,
         \A q \in Ranks : num_issued'[q] >= num_issued[q],
         \A q \in Ranks, c \in Banks : next'[q][c].act >= next[q][c].act
  PROVE  ActCovered'
<1> SUFFICES ASSUME NEW q \in Ranks, NEW b \in Banks
             PROVE  /\ next'[q][b].act >= T_RC - sinceAct[q][b]
                    /\ \A c \in Banks : next'[q][b].act >= T_RRD - sinceAct[q][c]
                    /\ ~ forced[q] /\ num_issued'[q] < Burst
                         => toIssue[q] >= T_RAS - sinceAct[q][b]
  BY DEF ActCovered
<1>1. /\ next[q][b].act \in Nat /\ next'[q][b].act \in Nat
      /\ next'[q][b].act >= next[q][b].act
      /\ num_issued[q] \in Nat /\ num_issued'[q] \in Nat /\ num_issued'[q] >= num_issued[q]
  BY DEF ChannelTypeOK, Clocks
<1>2. \A c \in Banks : sinceAct[q][c] \in Nat
  BY TimingTypes DEF ChannelTypeOK
<1>3. /\ next[q][b].act >= T_RC - sinceAct[q][b]
      /\ \A c \in Banks : next[q][b].act >= T_RRD - sinceAct[q][c]
      /\ ~ forced[q] /\ num_issued[q] < Burst => toIssue[q] >= T_RAS - sinceAct[q][b]
  BY DEF ActCovered
<1>4. next'[q][b].act >= T_RC - sinceAct[q][b]
  BY <1>1, <1>2, <1>3, TimingTypes
<1>5. ASSUME NEW c \in Banks PROVE next'[q][b].act >= T_RRD - sinceAct[q][c]
  BY <1>1, <1>2, <1>3, TimingTypes
<1>6. num_issued'[q] < Burst => num_issued[q] < Burst
  BY <1>1, DramAssumption
<1> QED BY <1>3, <1>4, <1>5, <1>6

LEMMA ActivateCovered ==
  ASSUME ChannelTypeOK, ActCovered, NEW r \in Ranks, NEW b \in Banks, NEW row \in Rows,
         Activate(r, b, row)
  PROVE  ActCovered'
<1> SUFFICES ASSUME NEW q \in Ranks, NEW d \in Banks
             PROVE  /\ next'[q][d].act >= T_RC - sinceAct'[q][d]
                    /\ \A c \in Banks : next'[q][d].act >= T_RRD - sinceAct'[q][c]
                    /\ ~ forced'[q] /\ num_issued'[q] < Burst
                         => toIssue'[q] >= T_RAS - sinceAct'[q][d]
  BY DEF ActCovered
<1>1. /\ next[q][d].act >= T_RC - sinceAct[q][d]
      /\ \A c \in Banks : next[q][d].act >= T_RRD - sinceAct[q][c]
      /\ ~ forced[q] /\ num_issued[q] < Burst => toIssue[q] >= T_RAS - sinceAct[q][d]
  BY DEF ActCovered
<1>2. UNCHANGED <<toIssue, num_issued, forced>> /\ T_RAS <= toIssue[r]
  BY DEF Activate, refreshVars, is_activate_allowed, Fits
<1>3. \A c \in Banks :
        /\ sinceAct'[q][c] = IF q = r /\ c = b THEN 0 ELSE sinceAct[q][c]
        /\ sinceAct[q][c] \in Nat /\ sinceAct[q][c] \in 0..T_RC
  BY TimingTypes DEF Activate, ChannelTypeOK
<1>4. next[q][d].act \in Nat
  BY BankType
<1>5. next'[q][d].act = IF q # r THEN next[q][d].act
                        ELSE Later(next[q][d].act, IF d = b THEN T_RC ELSE T_RRD)
  BY ActivateEffect
<1>6. toIssue[q] \in Int
  BY DEF ChannelTypeOK
<1>7. CASE q # r
  BY <1>1, <1>2, <1>3, <1>5, <1>7
<1>8. CASE q = r
  <2>1. /\ next'[q][d].act \in Nat /\ next'[q][d].act >= next[q][d].act
        /\ next'[q][d].act >= IF d = b THEN T_RC ELSE T_RRD
    BY <1>4, <1>5, <1>8, TimingTypes DEF Later
  <2>2. next'[q][d].act >= T_RC - sinceAct'[q][d]
    BY <1>1, <1>3, <1>4, <2>1, TimingTypes
  <2>3. ASSUME NEW c \in Banks PROVE next'[q][d].act >= T_RRD - sinceAct'[q][c]
    BY <1>1, <1>3, <1>4, <2>1, TimingTypes, DramAssumption
  <2>4. ~ forced'[q] /\ num_issued'[q] < Burst => toIssue'[q] >= T_RAS - sinceAct'[q][d]
    <3>1. toIssue[q] >= T_RAS - sinceAct'[q][d]
      BY <1>2, <1>3, <1>6, <1>8, TimingTypes
    <3> QED BY <1>2, <3>1
  <2> QED BY <2>2, <2>3, <2>4
<1> QED BY <1>7, <1>8

\* What is left when the refreshes of a rank are forced: T_RP of every row cycle, and
\* more than that of the window.
LEMMA ForcedLate ==
  ASSUME ChannelTypeOK, DeadlineKept, NEW r \in Ranks, MustForce(r)
  PROVE  /\ ~ forced[r] /\ num_issued[r] < Burst /\ toIssue[r] = 1
         /\ toCompletion[r] - 1 >= T_RP + T_RFC /\ toCompletion[r] \in Nat
<1>1. num_issued[r] < Burst /\ toIssue[r] = 1
  BY DEF MustForce
<1>2. ~ forced[r]
  BY <1>1 DEF DeadlineKept
<1>3. toCompletion[r] \in Nat /\ toCompletion[r] \in Int /\ num_issued[r] \in Int
  <2>1. toCompletion[r] \in 1..Window /\ num_issued[r] \in Nat
    BY DEF ChannelTypeOK
  <2> QED BY <2>1, WindowType
<1>4. IssueDeadline(toCompletion[r], num_issued[r]) <= toCompletion[r] - T_RP - T_RFC
  BY <1>1, <1>3, DeadlineBeforeEnd
<1>5. IssueDeadline(toCompletion[r], num_issued[r]) \in Int
  BY <1>3, DeadlineType
<1>6. 1 <= IssueDeadline(toCompletion[r], num_issued[r])
  BY <1>1 DEF DeadlineKept
<1>7. toCompletion[r] - 1 >= T_RP + T_RFC
  BY <1>3, <1>4, <1>5, <1>6, TimingTypes
<1> QED BY <1>1, <1>2, <1>3, <1>7

LEMMA TickCovered ==
  ASSUME ChannelTypeOK, DeadlineKept, ActCovered, Tick
  PROVE  ActCovered'
<1> SUFFICES ASSUME NEW r \in Ranks, NEW b \in Banks
             PROVE  /\ next'[r][b].act >= T_RC - sinceAct'[r][b]
                    /\ \A c \in Banks : next'[r][b].act >= T_RRD - sinceAct'[r][c]
                    /\ ~ forced'[r] /\ num_issued'[r] < Burst
                         => toIssue'[r] >= T_RAS - sinceAct'[r][b]
  BY DEF ActCovered
<1>1. \A c \in Banks :
        /\ next[r][c].act >= T_RC - sinceAct[r][c]
        /\ next[r][b].act >= T_RRD - sinceAct[r][c]
        /\ ~ forced[r] /\ num_issued[r] < Burst => toIssue[r] >= T_RAS - sinceAct[r][c]
  BY DEF ActCovered
<1>2. \A c \in Banks :
        /\ sinceAct[r][c] \in 0..T_RC /\ sinceAct[r][c] \in Nat
        /\ sinceAct'[r][c] = IF sinceAct[r][c] < T_RC THEN sinceAct[r][c] + 1 ELSE T_RC
  BY TimingTypes DEF Tick, ChannelTypeOK
<1>3. next[r][b].act \in Nat /\ toIssue[r] \in Int
  BY BankType DEF ChannelTypeOK
<1>4. next'[r][b].act = IF MustForce(r) THEN toCompletion[r] - 1 ELSE Down(next[r][b].act)
  BY TickEffect
<1>5. /\ next'[r][b].act >= T_RC - sinceAct'[r][b]
      /\ \A c \in Banks : next'[r][b].act >= T_RRD - sinceAct'[r][c]
  <2>1. CASE MustForce(r)
    <3>1. \A c \in Banks : 1 >= T_RAS - sinceAct[r][c]
      BY <1>1, <2>1, ForcedLate
    <3>2. next'[r][b].act >= T_RP + T_RFC /\ next'[r][b].act \in Int
      BY <1>4, <2>1, ForcedLate
    <3>3. ASSUME NEW c \in Banks
          PROVE  T_RC - sinceAct'[r][c] <= T_RP /\ T_RRD - sinceAct'[r][c] <= T_RP
                 /\ sinceAct'[r][c] \in Int
      BY <1>2, <3>1, TimingTypes, DramAssumption
    <3> QED BY <3>2, <3>3, TimingTypes
  <2>2. CASE ~ MustForce(r)
    <3>1. /\ next'[r][b].act \in Nat /\ next'[r][b].act >= next[r][b].act - 1
      BY <1>3, <1>4, <2>2 DEF Down
    <3>2. next'[r][b].act >= T_RC - sinceAct'[r][b]
      BY <1>1, <1>2, <1>3, <3>1, TimingTypes
    <3>3. ASSUME NEW c \in Banks PROVE next'[r][b].act >= T_RRD - sinceAct'[r][c]
      BY <1>1, <1>2, <1>3, <3>1, TimingTypes, DramAssumption
    <3> QED BY <3>2, <3>3
  <2> QED BY <2>1, <2>2
<1>6. ASSUME ~ forced'[r], num_issued'[r] < Burst
      PROVE  toIssue'[r] >= T_RAS - sinceAct'[r][b]
  <2>1. toIssue'[r] >= 1 /\ toIssue'[r] \in Int
    <3>1. ChannelTypeOK'
      BY TickEffect
    <3>2. toIssue'[r] \in Int
      BY <3>1 DEF ChannelTypeOK
    <3>3. ~ forced'[r] /\ num_issued'[r] < Burst => toIssue'[r] >= 1
      BY WindowTick
    <3> QED BY <1>6, <3>2, <3>3
  <2>2. CASE Rollover(r)
    <3>1. toIssue'[r] = IssueDeadline(Window, 0)
      BY <2>2 DEF Tick, NewToIssue
    <3>2. T_RAS + T_RP <= IssueDeadline(Window, 0)
      BY DeadlineAssumption
    <3> QED BY <1>2, <2>1, <3>1, <3>2, TimingTypes
  <2>3. CASE ~ Rollover(r)
    <3>1. toIssue'[r] >= toIssue[r] - 1 /\ ~ forced[r] /\ num_issued[r] < Burst
      BY <1>6, <2>3, WindowTick
    <3>2. toIssue[r] >= T_RAS - sinceAct[r][b]
      BY <1>1, <3>1
    <3> QED BY <1>2, <1>3, <2>1, <3>1, <3>2, TimingTypes, DramAssumption
  <2> QED BY <2>2, <2>3
<1> QED BY <1>5, <1>6

LEMMA ActStep ==
  ASSUME ChannelTypeOK, DeadlineKept, ActCovered, [ChannelNext]_channelVars
  PROVE  ActCovered'
<1>0. ChannelTypeOK'
  BY TypesKept
<1>1. ASSUME NEW r \in Ranks, RankCommand(r) PROVE ActCovered'
  <2>1. UNCHANGED <<sinceAct, toIssue, forced>>
    BY <1>1 DEF RankCommand, PrechargeAll, PowerDownFast, PowerDownSlow, PowerDown, PowerUp,
                WakeUp, Refresh, Swap, Move, Stall, Mitigate, history, refreshVars
  <2>2. \A q \in Ranks : num_issued'[q] >= num_issued[q]
    <3>1. CASE Refresh(r)
      BY <3>1 DEF Refresh, ChannelTypeOK
    <3>2. CASE UNCHANGED num_issued
      BY <3>2 DEF ChannelTypeOK
    <3> QED BY <1>1, <3>1, <3>2 DEF RankCommand, PrechargeAll, PowerDownFast, PowerDownSlow,
               PowerDown, PowerUp, WakeUp, Swap, Move, Stall, Mitigate, refreshVars
  <2>3. ASSUME NEW q \in Ranks, NEW c \in Banks PROVE next'[q][c].act >= next[q][c].act
    <3>1. CASE PrechargeAll(r)
      BY <3>1, PrechargeAllEffect, ActNotEarlier, TimingTypes
    <3>2. CASE PowerDownFast(r) \/ PowerDownSlow(r)
      BY <3>2, PowerDownIs, PowerDownEffect, ActNotEarlier, TimingTypes
    <3>3. CASE PowerUp(r)
      BY <3>3, WakeUpEffect, ActNotEarlier, TimingTypes DEF PowerUp
    <3>4. CASE Refresh(r)
      BY <3>4, RefreshEffect, ActNotEarlier, TimingTypes, ExtraType
    <3>5. ASSUME NEW d \in Nat, NEW rw \in Nat, Mitigate(r, d, rw)
          PROVE  next'[q][c].act >= next[q][c].act
      <4>1. Extra(r) + d \in Int
        BY ExtraType
      <4>2. Waits(q, c, IF q = r THEN RefreshClocks ELSE {}, Extra(r) + d)
        BY <3>5, MitigateEffect
      <4> QED BY <4>1, <4>2, ActNotEarlier
    <3>6. ASSUME NEW m \in DelayMuls, Swap(r, m) \/ Move(r, m) \/ Stall(r, m)
          PROVE  next'[q][c].act >= next[q][c].act
      <4>1. PICK d \in Nat, rw \in Nat : Mitigate(r, d, rw)
        BY <3>6, MitigationIs
      <4> QED BY <4>1, <3>5
    <3>7. CASE \E m \in DelayMuls : Swap(r, m) \/ Move(r, m) \/ Stall(r, m)
      BY <3>6, <3>7
    <3> QED BY <1>1, <3>1, <3>2, <3>3, <3>4, <3>7, Zenon DEF RankCommand
  <2> QED BY <1>0, <2>1, <2>2, <2>3, ActUntouched
<1>2. ASSUME NEW r \in Ranks, NEW b \in Banks, BankCommand(r, b) PROVE ActCovered'
  <2>1. ASSUME NEW row \in Rows, Activate(r, b, row) PROVE ActCovered'
    BY <2>1, ActivateCovered
  <2>2. ASSUME ~ \E row \in Rows : Activate(r, b, row) PROVE ActCovered'
    <3>1. UNCHANGED <<sinceAct, toIssue, forced, num_issued>>
      BY <1>2, <2>2 DEF BankCommand, Read, Write, Precharge, AutoPrecharge, PowerUpRequest,
                        WakeUp, history, refreshVars
    <3>2. \A q \in Ranks : num_issued'[q] >= num_issued[q]
      BY <3>1 DEF ChannelTypeOK
    <3>3. ASSUME NEW q \in Ranks, NEW c \in Banks PROVE next'[q][c].act >= next[q][c].act
      <4>1. CASE Read(r, b)
        BY <4>1, ReadEffect, ActNotEarlier, TimingTypes
      <4>2. CASE Write(r, b)
        BY <4>2, WriteEffect, ActNotEarlier, TimingTypes
      <4>3. CASE Precharge(r, b)
        BY <4>3, PrechargeEffect, ActNotEarlier, TimingTypes
      <4>4. CASE AutoPrecharge(r, b)
        <5>1. AutoStart(r, b) + T_RP \in Int
          BY <4>4, AutoPrechargeEffect, TimingTypes
        <5>2. Waits(q, c, IF q = r /\ c = b THEN ClosingClocks ELSE {}, AutoStart(r, b) + T_RP)
          BY <4>4, AutoPrechargeEffect
        <5> QED BY <5>1, <5>2, ActNotEarlier
      <4>5. CASE PowerUpRequest(r, b)
        BY <4>5, WakeUpEffect, ActNotEarlier, TimingTypes DEF PowerUpRequest
      <4> QED BY <1>2, <2>2, <4>1, <4>2, <4>3, <4>4, <4>5 DEF BankCommand
    <3> QED BY <1>0, <3>1, <3>2, <3>3, ActUntouched
  <2> QED BY <2>1, <2>2
<1>3. CASE Tick
  BY <1>3, TickCovered
<1>4. CASE UNCHANGED channelVars
  BY <1>4 DEF channelVars, bankVars, history, refreshVars, ActCovered
<1> QED BY <1>1, <1>2, <1>3, <1>4 DEF ChannelNext

\* next_act never runs out before T_RC and T_RRD do, in spite of the forced refreshes, which
\* overwrite it.
THEOREM ActivationsCovered == ChannelSafety => []ActCovered
<1>1. ChannelInit => ActCovered
  <2> SUFFICES ASSUME ChannelInit, NEW r \in Ranks, NEW b \in Banks
               PROVE  /\ next[r][b].act >= T_RC - sinceAct[r][b]
                      /\ \A c \in Banks : next[r][b].act >= T_RRD - sinceAct[r][c]
                      /\ toIssue[r] >= T_RAS - sinceAct[r][b]
    BY DEF ActCovered
  <2>1. \A c \in Banks : sinceAct[r][c] = T_RC /\ next[r][c].act = 0
    BY DEF ChannelInit, PerBank, Delay, Clocks
  <2>2. toIssue[r] = IssueDeadline(Window, 0) /\ T_RAS + T_RP <= IssueDeadline(Window, 0)
    BY DeadlineAssumption DEF ChannelInit
  <2>3. IssueDeadline(Window, 0) \in Int
    BY WindowType, DeadlineType
  <2> QED BY <2>1, <2>2, <2>3, TimingTypes, DramAssumption
<1>2. ChannelTypeOK /\ DeadlineKept /\ ActCovered /\ [ChannelNext]_channelVars => ActCovered'
  BY ActStep
<1> QED BY <1>1, <1>2, ChannelTypes, DeadlinesKept, PTL DEF ChannelSafety

\* Only an activation restarts the count of a bank, and only when its next_act has come.
LEMMA ActivatedReady ==
  ASSUME ChannelTypeOK, [ChannelNext]_channelVars, NEW r \in Ranks, NEW b \in Banks,
         Activated(r, b)
  PROVE  /\ next[r][b].act = 0
         /\ \E row \in Rows : Activate(r, b, row)
<1>1. sinceAct'[r][b] = 0 /\ sinceAct[r][b] # 0 /\ sinceAct[r][b] \in Nat
  BY TimingTypes DEF Activated, ChannelTypeOK
<1>2. ~ UNCHANGED sinceAct
  BY <1>1
<1>3. ~ Tick
  BY <1>1, TimingTypes DEF Tick
<1>4. \A q \in Ranks : ~ RankCommand(q)
  BY <1>2 DEF RankCommand, PrechargeAll, PowerDownFast, PowerDownSlow, PowerDown, PowerUp,
              WakeUp, Refresh, Swap, Move, Stall, Mitigate, history
<1>5. \E q \in Ranks, c \in Banks, row \in Rows : Activate(q, c, row)
  BY <1>2, <1>3, <1>4 DEF ChannelNext, channelVars, history, BankCommand, Read, Write,
                          Precharge, AutoPrecharge, PowerUpRequest, WakeUp
<1>6. PICK q \in Ranks, c \in Banks, row \in Rows : Activate(q, c, row)
  BY <1>5
<1>7. q = r /\ c = b
  BY <1>1, <1>6 DEF Activate, ChannelTypeOK
<1> QED BY <1>6, <1>7 DEF Activate, is_activate_allowed, Ready

\* Two activations of a bank are T_RC apart and two of a rank T_RRD, whatever refreshes,
\* mitigations and power-downs come between.
THEOREM ActivationsSpaced == ChannelSafety => ActSpacing
<1>1. ASSUME ChannelTypeOK, ActCovered, [ChannelNext]_channelVars,
             NEW r \in Ranks, NEW b \in Banks, Activated(r, b)
      PROVE  sinceAct[r][b] >= T_RC /\ \A c \in Banks : sinceAct[r][c] >= T_RRD
  <2>1. next[r][b].act = 0
    BY <1>1, ActivatedReady
  <2>2. \A c \in Banks : sinceAct[r][c] \in Nat
    BY <1>1, TimingTypes DEF ChannelTypeOK
  <2> QED BY <1>1, <2>1, <2>2, TimingTypes DEF ActCovered
<1>2. ChannelTypeOK /\ ActCovered /\ [ChannelNext]_channelVars =>
        [\A r \in Ranks, b \in Banks : Activated(r, b) =>
           /\ sinceAct[r][b] >= T_RC
           /\ \A c \in Banks : sinceAct[r][c] >= T_RRD]_channelVars
  BY <1>1
<1> QED BY <1>2, ChannelTypes, ActivationsCovered, PTL DEF ChannelSafety, ActSpacing

-----------------------------------------------------------------------------
(* The start of the forced refreshes. *)

\* What a new window has room for.
LEMMA WindowRoom ==
  /\ IssueDeadline(Window, 0) \in Int
  /\ \A t \in OpenTimes : t \in Nat \ {0} /\ t + T_RP <= IssueDeadline(Window, 0)
  /\ T_PD_MIN <= IssueDeadline(Window, 0)
<1>1. IssueDeadline(Window, 0) \in Int
  BY WindowType, DeadlineType
<1>2. \A t \in OpenTimes : t \in Nat \ {0}
  BY TimingTypes DEF OpenTimes
<1> QED BY <1>1, <1>2, DeadlineAssumption DEF OpenTimes

\* The numbers of one rank.
LEMMA RankType ==
  ASSUME ChannelTypeOK, NEW r \in Ranks
  PROVE  /\ toCompletion[r] \in Nat \ {0} /\ toIssue[r] \in Int /\ num_issued[r] \in Nat
         /\ forced[r] \in BOOLEAN /\ occupied[r] \in Nat
<1>1. toCompletion[r] \in 1..Window
  BY DEF ChannelTypeOK
<1> QED BY <1>1, WindowType DEF ChannelTypeOK

\* What a command leaves of a rank's window.
WindowKept(q) ==
  /\ toCompletion'[q] = toCompletion[q] /\ toIssue'[q] = toIssue[q]
  /\ forced'[q] = forced[q] /\ num_issued'[q] >= num_issued[q]

\* A bank whose closing no command delays.
LEMMA QuietUntouched ==
  ASSUME ChannelTypeOK, ChannelTypeOK', NEW q \in Ranks, NEW c \in Banks, BankQuiet(q, c),
         WindowKept(q), occupied'[q] = occupied[q],
         state'[q][c] = state[q][c], next'[q][c].act >= next[q][c].act,
         next'[q][c].pre = next[q][c].pre, next'[q][c].refresh = next[q][c].refresh
  PROVE  BankQuiet(q, c)'
<1>1. /\ next'[q][c].pre <= next'[q][c].refresh
      /\ state'[q][c] \in OpenStates => \E t \in OpenTimes : next'[q][c].pre <= t
  BY DEF BankQuiet
<1>2. state'[q][c] \notin OpenStates => next'[q][c].pre <= next'[q][c].act
  <2>1. /\ next[q][c].pre \in Nat /\ next[q][c].act \in Nat /\ next'[q][c].act \in Nat
    BY BankType DEF ChannelTypeOK, Clocks
  <2> QED BY <2>1 DEF BankQuiet
<1>3. num_issued'[q] < Burst => num_issued[q] < Burst
  BY RankType, DramAssumption DEF WindowKept, ChannelTypeOK
<1> QED BY <1>1, <1>2, <1>3 DEF BankQuiet, WindowKept

\* A bank that is open after the command and closes no sooner than after d.
LEMMA QuietOpening ==
  ASSUME ChannelTypeOK, NEW q \in Ranks, NEW c \in Banks, BankQuiet(q, c),
         WindowKept(q), occupied'[q] = occupied[q], num_issued'[q] \in Nat, ~ forced[q],
         state'[q][c] \in OpenStates, NEW d \in OpenTimes, d <= toIssue[q],
         state[q][c] \in OpenStates \/ next[q][c].pre = 0,
         next'[q][c].pre = Later(next[q][c].pre, d),
         next'[q][c].refresh = Later(next[q][c].refresh, d)
  PROVE  BankQuiet(q, c)'
<1>1. /\ d \in Nat /\ d <= IssueDeadline(Window, 0) /\ IssueDeadline(Window, 0) \in Int
  BY WindowRoom, TimingTypes
<1>2. /\ next[q][c].pre \in Nat /\ next[q][c].refresh \in Nat
      /\ next[q][c].pre <= next[q][c].refresh
  BY BankType DEF BankQuiet
<1>3. next'[q][c].pre <= next'[q][c].refresh
  BY <1>1, <1>2 DEF Later
<1>4. \E t \in OpenTimes : next'[q][c].pre <= t
  <2>1. PICK t \in OpenTimes : next[q][c].pre <= t
    <3>1. CASE next[q][c].pre = 0
      BY <1>1, <3>1
    <3>2. CASE state[q][c] \in OpenStates
      BY <3>2 DEF BankQuiet
    <3> QED BY <3>1, <3>2
  <2>2. t \in Nat
    BY WindowRoom
  <2>3. Later(next[q][c].pre, d) <= t \/ Later(next[q][c].pre, d) <= d
    BY <1>1, <1>2, <2>1, <2>2 DEF Later
  <2> QED BY <2>3
<1>5. /\ num_issued'[q] < Burst => next'[q][c].refresh <= Later(toIssue[q], occupied[q])
      /\ next'[q][c].refresh <= Later(IssueDeadline(Window, 0), occupied[q])
  <2>1. num_issued'[q] < Burst => next[q][c].refresh <= Later(toIssue[q], occupied[q])
    BY RankType, DramAssumption DEF BankQuiet, WindowKept
  <2>2. next[q][c].refresh <= Later(IssueDeadline(Window, 0), occupied[q])
    BY DEF BankQuiet
  <2>3. toIssue[q] \in Int /\ occupied[q] \in Nat
    BY RankType
  <2>4. next'[q][c].refresh = next[q][c].refresh \/ next'[q][c].refresh = d
    BY DEF Later
  <2>5. d <= Later(toIssue[q], occupied[q]) /\ d <= Later(IssueDeadline(Window, 0), occupied[q])
    BY <1>1, <2>3 DEF Later
  <2> QED BY <2>1, <2>2, <2>4, <2>5
<1> QED BY <1>3, <1>4, <1>5 DEF BankQuiet, WindowKept

\* A bank that is closed after the command and stays so for d.
LEMMA QuietClosing ==
  ASSUME ChannelTypeOK, NEW q \in Ranks, NEW c \in Banks, BankQuiet(q, c),
         WindowKept(q), occupied'[q] = occupied[q], num_issued'[q] \in Nat, ~ forced[q],
         state'[q][c] \notin OpenStates,
         NEW d \in Nat, d <= toIssue[q], d <= IssueDeadline(Window, 0),
         next[q][c].pre <= next[q][c].act \/ next[q][c].pre <= d,
         next'[q][c].act = Later(next[q][c].act, d),
         next'[q][c].pre = Later(next[q][c].pre, d),
         next'[q][c].refresh = Later(next[q][c].refresh, d)
  PROVE  BankQuiet(q, c)'
<1>1. IssueDeadline(Window, 0) \in Int
  BY WindowRoom
<1>2. /\ next[q][c].pre \in Nat /\ next[q][c].refresh \in Nat /\ next[q][c].act \in Nat
      /\ next[q][c].pre <= next[q][c].refresh
  BY BankType DEF BankQuiet
<1>3. next'[q][c].pre <= next'[q][c].refresh /\ next'[q][c].pre <= next'[q][c].act
  BY <1>2 DEF Later
<1>4. /\ num_issued'[q] < Burst => next'[q][c].refresh <= Later(toIssue[q], occupied[q])
      /\ next'[q][c].refresh <= Later(IssueDeadline(Window, 0), occupied[q])
  <2>1. num_issued'[q] < Burst => next[q][c].refresh <= Later(toIssue[q], occupied[q])
    BY RankType, DramAssumption DEF BankQuiet, WindowKept
  <2>2. next[q][c].refresh <= Later(IssueDeadline(Window, 0), occupied[q])
    BY DEF BankQuiet
  <2>3. toIssue[q] \in Int /\ occupied[q] \in Nat
    BY RankType
  <2>4. next'[q][c].refresh = next[q][c].refresh \/ next'[q][c].refresh = d
    BY DEF Later
  <2>5. d <= Later(toIssue[q], occupied[q]) /\ d <= Later(IssueDeadline(Window, 0), occupied[q])
    BY <1>1, <2>3 DEF Later
  <2> QED BY <2>1, <2>2, <2>4, <2>5
<1> QED BY <1>3, <1>4 DEF BankQuiet, WindowKept

\* A bank of a rank that a refresh or a mitigation keeps busy for d.
LEMMA QuietOccupied ==
  ASSUME ChannelTypeOK, NEW q \in Ranks, NEW c \in Banks, BankQuiet(q, c),
         ~ forced'[q], NEW d \in Nat, occupied'[q] = d, toIssue'[q] \in Int,
         state'[q][c] = "REFRESHING", next[q][c].refresh = 0,
         \A k \in {"act", "pre", "refresh"} : next'[q][c][k] = Later(next[q][c][k], d)
  PROVE  BankQuiet(q, c)'
<1>1. next[q][c].pre \in Nat /\ next[q][c].pre <= 0 /\ next[q][c].act \in Nat
  BY BankType DEF BankQuiet
<1>2. next'[q][c].pre = d /\ next'[q][c].refresh = d /\ d <= next'[q][c].act
  BY <1>1 DEF Later
<1>3. d <= Later(toIssue'[q], d) /\ d <= Later(IssueDeadline(Window, 0), d)
  BY WindowRoom DEF Later
<1>4. "REFRESHING" \notin OpenStates
  BY DEF OpenStates
<1> QED BY <1>2, <1>3, <1>4 DEF BankQuiet

\* The wake-up of a rank that ends by its own deadline.
WakesInTime(r) == \A b \in Banks : Woken(r, b) => Fits(r, WakeTime(state[r][b]))

\* Only a refresh counts one, and no command ends or starts the forced mode.
LEMMA CommandWindow ==
  ASSUME ChannelTypeOK, ChannelNext, ~ Tick
  PROVE  /\ UNCHANGED <<toCompletion, toIssue, forced>>
         /\ \A q \in Ranks : num_issued'[q] >= num_issued[q]
<1>1. ASSUME NEW r \in Ranks, Refresh(r)
      PROVE  /\ UNCHANGED <<toCompletion, toIssue, forced>>
             /\ \A q \in Ranks : num_issued'[q] >= num_issued[q]
  BY <1>1 DEF Refresh, ChannelTypeOK
<1>2. CASE UNCHANGED refreshVars
  BY <1>2, RankType DEF refreshVars
<1> QED BY <1>1, <1>2, WindowsLeftAlone

LEMMA QuietWakeUp ==
  ASSUME ChannelTypeOK, ChannelTypeOK', DeadlineKept, QuietBefore,
         NEW r \in Ranks, WakeUp(r), WakesInTime(r), \A b \in Banks : state[r][b] \in PowerDowns,
         \A q \in Ranks : WindowKept(q)
  PROVE  QuietBefore'
<1> SUFFICES ASSUME NEW q \in Ranks, NEW c \in Banks PROVE BankQuiet(q, c)'
  BY DEF QuietBefore
<1>1. BankQuiet(q, c) /\ WindowKept(q) /\ num_issued'[q] \in Nat
  BY DEF QuietBefore, ChannelTypeOK
<1>2. Waits(q, c, IF q = r THEN Clocks \ {"powerup"} ELSE {}, T_XP) /\ occupied' = occupied
  BY WakeUpEffect DEF WakeUp, history
<1>3. CASE q # r
  <2>1. state'[q][c] = state[q][c]
    BY <1>3 DEF WakeUp, ChannelTypeOK
  <2>2. /\ next'[q][c].act = next[q][c].act /\ next'[q][c].pre = next[q][c].pre
        /\ next'[q][c].refresh = next[q][c].refresh
    BY <1>2, <1>3 DEF Waits
  <2>3. next'[q][c].act >= next[q][c].act
    BY <2>2, BankType
  <2> QED BY <1>1, <1>2, <2>1, <2>2, <2>3, QuietUntouched
<1>4. CASE q = r
  <2>1. /\ next'[r][c].act = Later(next[r][c].act, T_XP)
        /\ next'[r][c].pre = Later(next[r][c].pre, T_XP)
        /\ next'[r][c].refresh = Later(next[r][c].refresh, T_XP)
    BY <1>2, <1>4 DEF Waits, Clocks
  <2>2. state'[r][c] = IF state[r][c] = "ACTIVE_POWER_DOWN" THEN "ROW_ACTIVE" ELSE "IDLE"
    BY DEF WakeUp, PowerDowns, ChannelTypeOK
  <2>3. T_XP <= toIssue[r]
    <3>1. Woken(r, c)
      BY <2>2 DEF Woken
    <3>2. WakeTime(state[r][c]) <= toIssue[r]
      BY <3>1 DEF WakesInTime, Fits
    <3> QED BY <3>2, RankType, TimingTypes, DramAssumption DEF WakeTime
  <2>4. ~ forced[r]
    BY <2>3, RankType, TimingTypes DEF DeadlineKept
  <2>5. T_XP \in OpenTimes /\ T_XP \in Nat /\ T_XP <= IssueDeadline(Window, 0)
    BY WindowRoom, TimingTypes DEF OpenTimes
  <2>6. CASE state[r][c] = "ACTIVE_POWER_DOWN"
    <3>1. state[r][c] \in OpenStates /\ state'[r][c] \in OpenStates
      BY <2>2, <2>6 DEF OpenStates
    <3> QED BY <1>1, <1>2, <1>4, <2>1, <2>3, <2>4, <2>5, <3>1, QuietOpening
  <2>7. CASE state[r][c] # "ACTIVE_POWER_DOWN"
    <3>1. state[r][c] \notin OpenStates /\ state'[r][c] \notin OpenStates
      BY <2>2, <2>7 DEF OpenStates, PowerDowns
    <3>2. next[r][c].pre <= next[r][c].act
      BY <1>1, <1>4, <3>1 DEF BankQuiet
    <3> QED BY <1>1, <1>2, <1>4, <2>1, <2>3, <2>4, <2>5, <3>1, <3>2, QuietClosing
  <2> QED BY <2>6, <2>7
<1> QED BY <1>3, <1>4

LEMMA QuietRankCommand ==
  ASSUME ChannelTypeOK, ChannelTypeOK', DeadlineKept, RankCoherent, QuietBefore,
         ChannelNext, ~ Tick, NEW r \in Ranks, RankCommand(r), WakesInTime(r)
  PROVE  QuietBefore'
<1> USE DEF OpenStates
<1> SUFFICES ASSUME NEW q \in Ranks, NEW c \in Banks PROVE BankQuiet(q, c)'
  BY DEF QuietBefore
<1>1. /\ BankQuiet(q, c) /\ WindowKept(q) /\ num_issued'[q] \in Nat
      /\ \A b \in Banks : BankQuiet(r, b)
  <2>1. num_issued'[q] \in Nat
    BY DEF ChannelTypeOK
  <2>2. WindowKept(q)
    BY CommandWindow DEF WindowKept
  <2> QED BY <2>1, <2>2 DEF QuietBefore
<1>2. /\ next[q][c].act \in Nat /\ next[q][c].pre \in Nat /\ next[q][c].refresh \in Nat
      /\ 0 \in Banks
  BY BankType, DramAssumption
<1>3. ASSUME q # r, NEW d, Waits(q, c, {}, d) PROVE BankQuiet(q, c)'
  <2>1. state'[q][c] = state[q][c] /\ occupied'[q] = occupied[q]
    BY <1>3 DEF RankCommand, PrechargeAll, PowerDownFast, PowerDownSlow, PowerDown, PowerUp,
                WakeUp, Refresh, Busy, Swap, Move, Stall, Mitigate, history, ChannelTypeOK
  <2>2. /\ next'[q][c].act >= next[q][c].act /\ next'[q][c].pre = next[q][c].pre
        /\ next'[q][c].refresh = next[q][c].refresh
    BY <1>2, <1>3 DEF Waits
  <2> QED BY <1>1, <2>1, <2>2, QuietUntouched
<1>4. CASE PrechargeAll(r)
  <2>1. Waits(q, c, IF q = r THEN ClosingClocks ELSE {}, 0 + T_RP)
    BY <1>4, PrechargeAllEffect
  <2>2. CASE q = r
    <3>1. /\ ~ forced[r] /\ T_RP <= toIssue[r] /\ next[r][c].pre = 0
          /\ state'[r][c] \notin OpenStates /\ occupied'[r] = occupied[r]
      BY <1>2, <1>4 DEF PrechargeAll, is_precharge_allowed, CommandSlot, Fits, Ready, history,
                        ChannelTypeOK
    <3>2. T_RP \in Nat /\ T_RP <= IssueDeadline(Window, 0) /\ 0 + T_RP = T_RP
      BY WindowRoom, TimingTypes DEF OpenTimes
    <3>3. /\ next'[r][c].act = Later(next[r][c].act, T_RP)
          /\ next'[r][c].pre = Later(next[r][c].pre, T_RP)
          /\ next'[r][c].refresh = Later(next[r][c].refresh, T_RP)
      BY <2>1, <2>2, <3>2 DEF Waits, ClosingClocks
    <3>4. next[r][c].pre <= T_RP
      BY <3>1, <3>2
    <3> HIDE DEF OpenStates
    <3> QED BY <1>1, <2>2, <3>1, <3>2, <3>3, <3>4, QuietClosing
  <2> QED BY <1>3, <2>1, <2>2
<1>5. CASE PowerDownFast(r) \/ PowerDownSlow(r)
  <2>1. Waits(q, c, IF q = r THEN {"refresh"} ELSE {}, T_PD_MIN)
    BY <1>5, PowerDownIs, PowerDownEffect
  <2>2. CASE q = r
    <3>1. /\ ~ forced[r] /\ T_PD_MIN <= toIssue[r] /\ state[r][c] \in PoweredUp
      <4>1. toIssue[r] \in Int
        BY RankType
      <4> QED BY <1>5, <4>1, TimingTypes DEF PowerDownFast, PowerDownSlow,
                 is_powerdown_fast_allowed, is_powerdown_slow_allowed, CommandSlot, Fits,
                 PoweredUp
    <3>2. /\ state'[r][c] \in OpenStates <=> state[r][c] \in OpenStates
          /\ occupied'[r] = occupied[r]
      BY <1>5, <3>1 DEF PowerDownFast, PowerDownSlow, PowerDown, Asleep, history, PoweredUp,
                        ClosedStates, ChannelTypeOK
    <3>3. /\ next'[r][c].act = next[r][c].act /\ next'[r][c].pre = next[r][c].pre
          /\ next'[r][c].refresh = Later(next[r][c].refresh, T_PD_MIN)
      BY <2>1, <2>2 DEF Waits
    <3> HIDE DEF OpenStates
    <3>4. next'[r][c].pre <= next'[r][c].refresh
      BY <1>1, <1>2, <2>2, <3>3, TimingTypes DEF BankQuiet, Later
    <3>5. /\ num_issued'[r] < Burst => next'[r][c].refresh <= Later(toIssue[r], occupied[r])
          /\ next'[r][c].refresh <= Later(IssueDeadline(Window, 0), occupied[r])
      <4>1. num_issued'[r] < Burst => next[r][c].refresh <= Later(toIssue[r], occupied[r])
        BY <1>1, <2>2, <3>1, RankType, DramAssumption DEF BankQuiet, WindowKept
      <4>2. next[r][c].refresh <= Later(IssueDeadline(Window, 0), occupied[r])
        BY <1>1, <2>2, <3>1 DEF BankQuiet
      <4>3. next'[r][c].refresh = next[r][c].refresh \/ next'[r][c].refresh = T_PD_MIN
        BY <3>3 DEF Later
      <4>4. /\ T_PD_MIN <= Later(toIssue[r], occupied[r])
            /\ T_PD_MIN <= Later(IssueDeadline(Window, 0), occupied[r])
        BY <3>1, RankType, WindowRoom, TimingTypes DEF Later
      <4> QED BY <4>1, <4>2, <4>3, <4>4
    <3> QED BY <1>1, <2>2, <3>1, <3>2, <3>3, <3>4, <3>5 DEF BankQuiet, WindowKept
  <2> QED BY <1>3, <2>1, <2>2
<1>6. CASE PowerUp(r)
  <2>1. \A b \in Banks : state[r][b] \in PowerDowns
    BY <1>2, <1>6, OneAsleep DEF PowerUp, is_powerup_allowed
  <2>2. \A p \in Ranks : WindowKept(p)
    BY CommandWindow DEF WindowKept
  <2>3. QuietBefore'
    BY <1>6, <2>1, <2>2, QuietWakeUp DEF PowerUp
  <2> QED BY <2>3 DEF QuietBefore
<1>7. ASSUME NEW d \in Nat, is_refresh_allowed(r), Busy(r),
             occupied' = [occupied EXCEPT ![r] = d],
             Waits(q, c, IF q = r THEN RefreshClocks ELSE {}, d)
      PROVE  BankQuiet(q, c)'
  <2>1. CASE q = r
    <3>1. /\ ~ forced[r] /\ next[r][c].refresh = 0 /\ state'[r][c] = "REFRESHING"
          /\ occupied'[r] = d
      BY <1>7 DEF is_refresh_allowed, CommandSlot, Ready, Busy, ChannelTypeOK
    <3>2. \A k \in {"act", "pre", "refresh"} : next'[r][c][k] = Later(next[r][c][k], d)
      BY <1>7, <2>1 DEF Waits, RefreshClocks
    <3>3. ~ forced'[r] /\ toIssue'[r] \in Int
      BY <1>1, <2>1, <3>1 DEF WindowKept, ChannelTypeOK
    <3> HIDE DEF OpenStates
    <3> QED BY <1>1, <2>1, <3>1, <3>2, <3>3, QuietOccupied
  <2> QED BY <1>3, <1>7, <2>1
<1>8. CASE Refresh(r)
  <2>1. Extra(r) + T_RFC \in Nat
    BY ExtraType, TimingTypes
  <2>2. Waits(q, c, IF q = r THEN RefreshClocks ELSE {}, Extra(r) + T_RFC)
    BY <1>8, RefreshEffect
  <2> QED BY <1>7, <1>8, <2>1, <2>2 DEF Refresh
<1>9. ASSUME NEW d \in Nat, NEW rw \in Nat, Mitigate(r, d, rw)
      PROVE  BankQuiet(q, c)'
  <2>1. Extra(r) + d \in Nat
    BY ExtraType
  <2>2. Waits(q, c, IF q = r THEN RefreshClocks ELSE {}, Extra(r) + d)
    BY <1>9, MitigateEffect
  <2> QED BY <1>7, <1>9, <2>1, <2>2 DEF Mitigate
<1>10. CASE \E m \in DelayMuls : Swap(r, m) \/ Move(r, m) \/ Stall(r, m)
  <2>1. PICK d \in Nat, rw \in Nat : Mitigate(r, d, rw)
    BY <1>10, MitigationIs
  <2> QED BY <1>9, <2>1
<1> QED BY <1>4, <1>5, <1>6, <1>8, <1>10, Zenon DEF RankCommand

LEMMA QuietBankCommand ==
  ASSUME ChannelTypeOK, ChannelTypeOK', DeadlineKept, ColumnOpen, RankCoherent, QuietBefore,
         ChannelNext, ~ Tick, NEW r \in Ranks, NEW b \in Banks, BankCommand(r, b),
         WakesInTime(r)
  PROVE  QuietBefore'
<1>1. \A q \in Ranks : WindowKept(q) /\ num_issued'[q] \in Nat
  BY CommandWindow DEF WindowKept, ChannelTypeOK
<1>2. CASE PowerUpRequest(r, b)
  <2>1. \A c \in Banks : state[r][c] \in PowerDowns
    BY <1>2, OneAsleep DEF PowerUpRequest, is_wakeup_issuable
  <2> QED BY <1>1, <1>2, <2>1, QuietWakeUp DEF PowerUpRequest
<1>3. ASSUME ~ PowerUpRequest(r, b), NEW q \in Ranks, NEW c \in Banks, q # r \/ c # b
      PROVE  BankQuiet(q, c)'
  <2>1. state'[q][c] = state[q][c] /\ occupied'[q] = occupied[q]
    BY <1>3 DEF BankCommand, Activate, Read, Write, Precharge, AutoPrecharge, history,
                ChannelTypeOK
  <2>2. next[q][c].act \in Nat
    BY BankType
  <2>3. /\ next'[q][c].act >= next[q][c].act /\ next'[q][c].pre = next[q][c].pre
        /\ next'[q][c].refresh = next[q][c].refresh
    <3>1. ASSUME NEW row \in Rows, Activate(r, b, row)
          PROVE  /\ next'[q][c].act >= next[q][c].act /\ next'[q][c].pre = next[q][c].pre
                 /\ next'[q][c].refresh = next[q][c].refresh
      <4>1. \A k \in {"pre", "refresh"} : next'[q][c][k] = next[q][c][k]
        BY <1>3, <3>1, ActivateEffect
      <4>2. next'[q][c].act = next[q][c].act \/ next'[q][c].act = Later(next[q][c].act, T_RRD)
        BY <1>3, <3>1, ActivateEffect
      <4> QED BY <2>2, <4>1, <4>2, TimingTypes DEF Later
    <3>2. ASSUME NEW d, Waits(q, c, {}, d)
          PROVE  /\ next'[q][c].act >= next[q][c].act /\ next'[q][c].pre = next[q][c].pre
                 /\ next'[q][c].refresh = next[q][c].refresh
      BY <2>2, <3>2 DEF Waits
    <3>3. CASE Read(r, b)
      <4>1. Waits(q, c, {}, T_RTP)
        BY <1>3, <3>3, ReadEffect
      <4> QED BY <3>2, <4>1
    <3>4. CASE Write(r, b)
      <4>1. Waits(q, c, {}, WriteTime)
        BY <1>3, <3>4, WriteEffect
      <4> QED BY <3>2, <4>1
    <3>5. CASE Precharge(r, b)
      <4>1. Waits(q, c, {}, 0 + T_RP)
        BY <1>3, <3>5, PrechargeEffect
      <4> QED BY <3>2, <4>1
    <3>6. CASE AutoPrecharge(r, b)
      <4>1. Waits(q, c, {}, AutoStart(r, b) + T_RP)
        BY <1>3, <3>6, AutoPrechargeEffect
      <4> QED BY <3>2, <4>1
    <3> QED BY <1>3, <3>1, <3>3, <3>4, <3>5, <3>6 DEF BankCommand
  <2>4. BankQuiet(q, c)
    BY DEF QuietBefore
  <2> QED BY <1>1, <2>1, <2>3, <2>4, QuietUntouched
<1>4. /\ BankQuiet(r, b) /\ toIssue[r] \in Int
      /\ next[r][b].act \in Nat /\ next[r][b].pre \in Nat /\ next[r][b].refresh \in Nat
  BY RankType, BankType DEF QuietBefore
<1>5. ASSUME NEW row \in Rows, Activate(r, b, row) PROVE BankQuiet(r, b)'
  <2>1. /\ ~ forced[r] /\ T_RAS <= toIssue[r] /\ next[r][b].act = 0
        /\ state[r][b] \notin OpenStates /\ state'[r][b] \in OpenStates
        /\ occupied'[r] = occupied[r]
    BY <1>5 DEF Activate, is_activate_allowed, CommandSlot, Fits, Ready, OpenStates,
                ClosedStates, ChannelTypeOK
  <2>2. next[r][b].pre = 0
    BY <1>4, <2>1 DEF BankQuiet
  <2>3. \A k \in {"pre", "refresh"} : next'[r][b][k] = Later(next[r][b][k], T_RAS)
    BY <1>5, ActivateEffect
  <2>4. T_RAS \in OpenTimes
    BY DEF OpenTimes
  <2> QED BY <1>1, <1>4, <2>1, <2>2, <2>3, <2>4, QuietOpening
<1>6. ASSUME NEW d \in OpenTimes, d <= toIssue[r], Waits(r, b, {"pre", "refresh"}, d),
             state[r][b] = "ROW_ACTIVE", UNCHANGED <<state, occupied>>, ~ forced[r]
      PROVE  BankQuiet(r, b)'
  <2>1. /\ next'[r][b].pre = Later(next[r][b].pre, d)
        /\ next'[r][b].refresh = Later(next[r][b].refresh, d)
    BY <1>6 DEF Waits
  <2>2. state[r][b] \in OpenStates /\ state'[r][b] \in OpenStates
    BY <1>6 DEF OpenStates
  <2> QED BY <1>1, <1>4, <1>6, <2>1, <2>2, QuietOpening
<1>7. ASSUME Read(r, b) PROVE BankQuiet(r, b)'
  <2>1. Waits(r, b, {"pre", "refresh"}, T_RTP)
    BY <1>7, ReadEffect
  <2>2. /\ T_RTP <= toIssue[r] /\ ~ forced[r] /\ state[r][b] = "ROW_ACTIVE"
        /\ UNCHANGED <<state, occupied>> /\ T_RTP \in OpenTimes
    BY <1>7 DEF Read, is_read_allowed, CommandSlot, Fits, OpenTimes
  <2> QED BY <1>6, <2>1, <2>2
<1>8. ASSUME Write(r, b) PROVE BankQuiet(r, b)'
  <2>1. Waits(r, b, {"pre", "refresh"}, WriteTime)
    BY <1>8, WriteEffect
  <2>2. /\ WriteTime <= toIssue[r] /\ ~ forced[r] /\ state[r][b] = "ROW_ACTIVE"
        /\ UNCHANGED <<state, occupied>> /\ WriteTime \in OpenTimes
    BY <1>8 DEF Write, is_write_allowed, CommandSlot, Fits, OpenTimes
  <2> QED BY <1>6, <2>1, <2>2
<1>9. ASSUME NEW d \in Nat, d <= toIssue[r], d >= 1, d <= IssueDeadline(Window, 0),
             next[r][b].pre <= d, Waits(r, b, ClosingClocks, d),
             state' = [state EXCEPT ![r][b] = "PRECHARGING"], UNCHANGED occupied
      PROVE  BankQuiet(r, b)'
  <2>1. ~ forced[r]
    BY <1>4, <1>9 DEF DeadlineKept
  <2>2. state'[r][b] \notin OpenStates
    BY <1>9 DEF OpenStates, ChannelTypeOK
  <2>3. /\ next'[r][b].act = Later(next[r][b].act, d)
        /\ next'[r][b].pre = Later(next[r][b].pre, d)
        /\ next'[r][b].refresh = Later(next[r][b].refresh, d)
    BY <1>9 DEF Waits, ClosingClocks
  <2> QED BY <1>1, <1>4, <1>9, <2>1, <2>2, <2>3, QuietClosing
<1>10. ASSUME Precharge(r, b) PROVE BankQuiet(r, b)'
  <2>1. Waits(r, b, ClosingClocks, 0 + T_RP) /\ 0 + T_RP = T_RP
    BY <1>10, PrechargeEffect, TimingTypes
  <2>2. /\ T_RP <= toIssue[r] /\ next[r][b].pre = 0 /\ UNCHANGED occupied
        /\ state' = [state EXCEPT ![r][b] = "PRECHARGING"]
    BY <1>10 DEF Precharge, is_precharge_allowed, Fits, Ready, history
  <2>3. T_RP \in Nat /\ T_RP >= 1 /\ T_RP <= IssueDeadline(Window, 0)
    BY WindowRoom, TimingTypes DEF OpenTimes
  <2> QED BY <1>9, <2>1, <2>2, <2>3
<1>11. ASSUME AutoPrecharge(r, b) PROVE BankQuiet(r, b)'
  <2>1. /\ Waits(r, b, ClosingClocks, AutoStart(r, b) + T_RP)
        /\ AutoStart(r, b) \in Nat
    BY <1>11, AutoPrechargeEffect
  <2>2. /\ AutoStart(r, b) + T_RP <= toIssue[r] /\ UNCHANGED occupied
        /\ state' = [state EXCEPT ![r][b] = "PRECHARGING"]
        /\ cas_issued[r][b] # 0
    BY <1>11 DEF AutoPrecharge, AutoStart, Fits, history
  <2>3. PICK t \in OpenTimes : next[r][b].pre <= t
    BY <1>4, <2>2 DEF ColumnOpen, BankQuiet, OpenStates
  <2>4. /\ next[r][b].pre <= AutoStart(r, b)
        /\ \E u \in OpenTimes : AutoStart(r, b) <= u
    <3>1. T_RTP \in OpenTimes /\ WriteTime \in OpenTimes
      BY DEF OpenTimes
    <3>2. t \in Nat
      BY WindowRoom
    <3> QED BY <1>4, <2>3, <3>1, <3>2, TimingTypes DEF AutoStart, Later
  <2>5. AutoStart(r, b) + T_RP <= IssueDeadline(Window, 0)
    <3>1. PICK u \in OpenTimes : AutoStart(r, b) <= u
      BY <2>4
    <3> QED BY <2>1, <3>1, WindowRoom, TimingTypes
  <2>6. /\ AutoStart(r, b) + T_RP \in Nat /\ AutoStart(r, b) + T_RP >= 1
        /\ next[r][b].pre <= AutoStart(r, b) + T_RP
    BY <1>4, <2>1, <2>4, TimingTypes
  <2> QED BY <1>9, <2>1, <2>2, <2>5, <2>6
<1>12. ASSUME ~ PowerUpRequest(r, b) PROVE BankQuiet(r, b)'
  BY <1>5, <1>7, <1>8, <1>10, <1>11, <1>12, Zenon DEF BankCommand
<1> QED BY <1>2, <1>3, <1>12 DEF QuietBefore

\* A countdown that is behind another one, or behind a window and its work, stays so.
LEMMA DownBehind ==
  ASSUME NEW x \in Nat, NEW y \in Nat, x <= y PROVE Down(x) <= Down(y)
BY DEF Down

LEMMA DownBehindLater ==
  ASSUME NEW x \in Nat, NEW t \in Int, NEW u \in Int, NEW y \in Nat,
         t >= 1, u >= t - 1, x <= Later(t, y)
  PROVE  Down(x) <= Later(u, Down(y))
BY DEF Down, Later

LEMMA QuietTick ==
  ASSUME ChannelTypeOK, ChannelTypeOK', DeadlineKept, QuietBefore, Tick
  PROVE  QuietBefore'
<1> SUFFICES ASSUME NEW r \in Ranks, NEW b \in Banks PROVE BankQuiet(r, b)'
  BY DEF QuietBefore
<1>1. /\ BankQuiet(r, b)
      /\ next[r][b].act \in Nat /\ next[r][b].pre \in Nat /\ next[r][b].refresh \in Nat
      /\ toCompletion[r] \in Nat \ {0} /\ toIssue[r] \in Int /\ num_issued[r] \in Nat
      /\ occupied[r] \in Nat /\ toIssue'[r] \in Int /\ forced[r] \in BOOLEAN
  BY BankType, RankType DEF QuietBefore, ChannelTypeOK
<1>2. \A k \in {"act", "pre", "refresh"} :
        next'[r][b][k] = IF MustForce(r) THEN toCompletion[r] - 1 ELSE Down(next[r][b][k])
  BY TickEffect
<1>3. /\ state'[r][b] = IF MustForce(r) THEN "REFRESHING" ELSE state[r][b]
      /\ forced'[r] = (~ Rollover(r) /\ (forced[r] \/ MustForce(r)))
      /\ toCompletion'[r] = IF Rollover(r) THEN Window ELSE toCompletion[r] - 1
      /\ toIssue'[r] = NewToIssue(r)
      /\ num_issued'[r] = IF Rollover(r) THEN 0 ELSE num_issued[r]
      /\ occupied'[r] = Down(occupied[r])
  BY DEF Tick
<1>4. CASE MustForce(r)
  <2>1. forced'[r] /\ toCompletion'[r] = toCompletion[r] - 1 /\ state'[r][b] = "REFRESHING"
    BY <1>3, <1>4 DEF MustForce
  <2> QED BY <1>1, <1>2, <1>4, <2>1 DEF BankQuiet, OpenStates
<1>5. CASE ~ MustForce(r)
  <2>1. /\ next'[r][b].act = Down(next[r][b].act) /\ next'[r][b].pre = Down(next[r][b].pre)
        /\ next'[r][b].refresh = Down(next[r][b].refresh) /\ state'[r][b] = state[r][b]
    BY <1>2, <1>3, <1>5
  <2>2. next'[r][b].pre <= next'[r][b].refresh
    BY <1>1, <2>1, DownBehind DEF BankQuiet
  <2>3. state[r][b] \notin OpenStates => next'[r][b].pre <= next'[r][b].act
    BY <1>1, <2>1, DownBehind DEF BankQuiet
  <2>4. ASSUME state[r][b] \in OpenStates
        PROVE  \E t \in OpenTimes : next'[r][b].pre <= t
    <3>1. PICK t \in OpenTimes : next[r][b].pre <= t
      BY <1>1, <2>4 DEF BankQuiet
    <3>2. t \in Nat /\ Down(next[r][b].pre) <= t
      BY <1>1, <3>1, WindowRoom DEF Down
    <3> QED BY <2>1, <3>2
  <2>5. ~ forced[r] =>
          next'[r][b].refresh <= Later(IssueDeadline(Window, 0), occupied'[r])
    <3>1. IssueDeadline(Window, 0) \in Int /\ IssueDeadline(Window, 0) >= 1
      BY WindowRoom, TimingTypes DEF OpenTimes
    <3>2. ~ forced[r] => next[r][b].refresh <= Later(IssueDeadline(Window, 0), occupied[r])
      BY <1>1 DEF BankQuiet
    <3>3. IssueDeadline(Window, 0) >= IssueDeadline(Window, 0) - 1
      BY <3>1
    <3> QED BY <1>1, <1>3, <2>1, <3>1, <3>2, <3>3, DownBehindLater
  <2>6. CASE Rollover(r)
    <3>1. ~ forced'[r] /\ toIssue'[r] = IssueDeadline(Window, 0)
      BY <1>3, <2>6 DEF NewToIssue
    <3>2. CASE forced[r]
      <4>1. next[r][b].refresh <= 1
        BY <1>1, <2>6, <3>2 DEF BankQuiet, Rollover
      <4>2. Down(next[r][b].refresh) = 0
        BY <1>1, <4>1 DEF Down
      <4>3. IssueDeadline(Window, 0) \in Int /\ IssueDeadline(Window, 0) >= 1
        BY WindowRoom, TimingTypes DEF OpenTimes
      <4>4. Later(IssueDeadline(Window, 0), occupied'[r]) >= 0
        BY <1>1, <1>3, <4>3 DEF Later, Down
      <4> QED BY <2>1, <2>2, <2>3, <2>4, <3>1, <4>2, <4>4 DEF BankQuiet
    <3>3. CASE ~ forced[r]
      BY <2>1, <2>2, <2>3, <2>4, <2>5, <3>1, <3>3 DEF BankQuiet
    <3> QED BY <3>2, <3>3
  <2>7. CASE ~ Rollover(r) /\ forced[r]
    <3>1. forced'[r] /\ toCompletion'[r] = toCompletion[r] - 1
      BY <1>3, <2>7
    <3>2. next[r][b].refresh <= toCompletion[r]
      BY <1>1, <2>7 DEF BankQuiet
    <3>3. next'[r][b].refresh <= toCompletion'[r]
      BY <1>1, <2>1, <3>1, <3>2 DEF Down
    <3> QED BY <2>1, <2>2, <2>3, <2>4, <3>1, <3>3 DEF BankQuiet
  <2>8. CASE ~ Rollover(r) /\ ~ forced[r]
    <3>1. ~ forced'[r] /\ num_issued'[r] = num_issued[r]
      BY <1>3, <1>5, <2>8
    <3>2. ASSUME num_issued[r] < Burst
          PROVE  next'[r][b].refresh <= Later(toIssue'[r], occupied'[r])
      <4>1. toIssue[r] >= 1
        BY <2>8, <3>2 DEF DeadlineKept
      <4>2. toIssue'[r] >= toIssue[r] - 1
        BY <2>8, <3>1, <3>2, WindowTick
      <4>3. next[r][b].refresh <= Later(toIssue[r], occupied[r])
        BY <1>1, <2>8, <3>2 DEF BankQuiet
      <4> QED BY <1>1, <1>3, <2>1, <4>1, <4>2, <4>3, DownBehindLater
    <3> QED BY <2>1, <2>2, <2>3, <2>4, <2>5, <2>8, <3>1, <3>2 DEF BankQuiet
  <2> QED BY <2>6, <2>7, <2>8
<1> QED BY <1>4, <1>5

LEMMA QuietStep ==
  ASSUME ChannelTypeOK, DeadlineKept, ColumnOpen, RankCoherent, QuietBefore,
         [ChannelNext]_channelVars, \A r \in Ranks : WakesInTime(r)
  PROVE  QuietBefore'
<1>1. ChannelTypeOK'
  BY TypesKept
<1>2. CASE ChannelNext /\ ~ Tick
  BY <1>1, <1>2, QuietRankCommand, QuietBankCommand DEF ChannelNext
<1>3. CASE Tick
  BY <1>1, <1>3, QuietTick
<1>4. CASE UNCHANGED channelVars
  BY <1>4 DEF channelVars, bankVars, refreshVars, history, QuietBefore, BankQuiet
<1> QED BY <1>2, <1>3, <1>4

LEMMA InitialQuiet ==
  ASSUME ChannelInit PROVE QuietBefore
<1> SUFFICES ASSUME NEW r \in Ranks, NEW b \in Banks PROVE BankQuiet(r, b)
  BY DEF QuietBefore
<1>1. /\ next[r][b].act = 0 /\ next[r][b].pre = 0 /\ next[r][b].refresh = 0
      /\ state[r][b] = "IDLE" /\ ~ forced[r] /\ occupied[r] = 0
      /\ toIssue[r] = IssueDeadline(Window, 0)
  BY DEF ChannelInit, PerBank, Delay, Clocks
<1>2. 0 <= Later(IssueDeadline(Window, 0), 0)
  BY WindowRoom DEF Later
<1> QED BY <1>1, <1>2 DEF BankQuiet, OpenStates

\* Only a new cycle starts the forced refreshes of a rank.
LEMMA ForcedByTick ==
  ASSUME ChannelTypeOK, [ChannelNext]_channelVars, NEW r \in Ranks, ~ forced[r], forced'[r]
  PROVE  MustForce(r)
<1>1. Tick
  BY CommandWindow DEF channelVars, refreshVars
<1>2. forced'[r] = (~ Rollover(r) /\ (forced[r] \/ MustForce(r)))
  BY <1>1 DEF Tick
<1> QED BY <1>2

\* The forced refreshes of a rank start when its commands are over and only a refresh, a
\* swap, a move or a stall may still be under way, as long as no rank is woken up past
\* its own deadline.
THEOREM ForcedQuietly == ChannelSafety /\ PowerUpMeetsDeadline => ForcedWhenQuiet
<1>1. ASSUME DeadlineKept, QuietBefore, ChannelTypeOK, [ChannelNext]_channelVars,
             NEW r \in Ranks, ~ forced[r], forced'[r], NEW b \in Banks
      PROVE  next[r][b].refresh <= Later(1, occupied[r])
  <2>1. /\ toIssue[r] = 1 /\ num_issued[r] < Burst
    BY <1>1, ForcedByTick DEF MustForce
  <2> QED BY <1>1, <2>1 DEF QuietBefore, BankQuiet
<1>2. ChannelInit => QuietBefore
  BY InitialQuiet
<1>3. (\A r \in Ranks, b \in Banks : Woken(r, b) => Fits(r, WakeTime(state[r][b])))
        => \A r \in Ranks : WakesInTime(r)
  BY DEF WakesInTime
<1>4. (UNCHANGED channelVars) => \A r \in Ranks : WakesInTime(r)
  BY DEF channelVars, bankVars, Woken, WakesInTime, PowerDowns
<1>5. /\ ChannelTypeOK /\ DeadlineKept /\ ColumnOpen /\ RankCoherent /\ QuietBefore
      /\ [ChannelNext]_channelVars
      /\ [\A r \in Ranks, b \in Banks : Woken(r, b) => Fits(r, WakeTime(state[r][b]))]_channelVars
      => QuietBefore'
  BY <1>3, <1>4, QuietStep
<1>6. ChannelTypeOK /\ DeadlineKept /\ QuietBefore /\ [ChannelNext]_channelVars
      => [\A r \in Ranks : ~ forced[r] /\ forced'[r] =>
            \A b \in Banks : next[r][b].refresh <= Later(1, occupied[r])]_channelVars
  BY <1>1
<1> QED BY <1>2, <1>5, <1>6, ChannelTypes, DeadlinesKept, ColumnsOpen, RanksCoherent, PTL
        DEF ChannelSafety, PowerUpMeetsDeadline, ForcedWhenQuiet

\* The banks of a sleeping rank take the same time to wake up.
LEMMA SameWakeTime ==
  ASSUME RankCoherent, NEW r \in Ranks, NEW b \in Banks, NEW c \in Banks,
         state[r][b] \in PowerDowns
  PROVE  WakeTime(state[r][c]) = WakeTime(state[r][b])
BY DEF RankCoherent, PowerDowns, PoweredUp, ClosedStates, WakeTime

\* A rank is woken up by a request, which asks its own deadline, or by the scheduler,
\* which asks that of rank 0.
LEMMA WokenByCommand ==
  ASSUME ChannelTypeOK, RankCoherent, [ChannelNext]_channelVars,
         NEW r \in Ranks, NEW b \in Banks, Woken(r, b)
  PROVE  Fits(r, WakeTime(state[r][b])) \/ Fits(0, WakeTime(state[r][b]))
<1>1. state'[r][b] # state[r][b] /\ state[r][b] \in PowerDowns
  BY DEF Woken, PowerDowns
<1>2. ~ Tick
  BY DEF Tick, Woken, PowerDowns
<1>3. ASSUME NEW q \in Ranks, PowerUp(q)
      PROVE  Fits(0, WakeTime(state[r][b]))
  <2>1. q = r
    BY <1>1, <1>3 DEF PowerUp, WakeUp, ChannelTypeOK
  <2>2. 0 \in Banks
    BY DramAssumption
  <2> QED BY <1>1, <1>3, <2>1, <2>2, SameWakeTime DEF PowerUp, is_powerup_allowed
<1>4. ASSUME NEW q \in Ranks, NEW c \in Banks, PowerUpRequest(q, c)
      PROVE  Fits(r, WakeTime(state[r][b]))
  <2>1. q = r
    BY <1>1, <1>4 DEF PowerUpRequest, WakeUp, ChannelTypeOK
  <2> QED BY <1>1, <1>4, <2>1, SameWakeTime DEF PowerUpRequest, is_wakeup_issuable
<1>5. ASSUME NEW q \in Ranks, RankCommand(q), ~ PowerUp(q) PROVE FALSE
  <2>1. state'[r][b] \in {"IDLE", "ROW_ACTIVE"}
    BY DEF Woken
  <2>2. q = r
    BY <1>1, <1>5 DEF RankCommand, PrechargeAll, PowerDownFast, PowerDownSlow, PowerDown,
                      Refresh, Swap, Move, Stall, Mitigate, Busy, ChannelTypeOK
  <2>3. CASE PowerDownFast(q) \/ PowerDownSlow(q)
    <3>1. PICK kind \in PowerDowns : PowerDown(q, kind)
      BY <2>3, PowerDownIs
    <3>2. state'[r][b] = Asleep(state[r][b], kind)
      BY <2>2, <3>1 DEF PowerDown, ChannelTypeOK
    <3> QED BY <2>1, <3>2 DEF Asleep, PowerDowns
  <2>4. CASE PrechargeAll(q)
    <3>1. state'[r][b] = "PRECHARGING"
      BY <2>2, <2>4 DEF PrechargeAll, ChannelTypeOK
    <3> QED BY <2>1, <3>1
  <2>5. ASSUME Busy(q) PROVE FALSE
    <3>1. state'[r][b] = "REFRESHING"
      BY <2>2, <2>5 DEF Busy, ChannelTypeOK
    <3> QED BY <2>1, <3>1
  <2> QED BY <1>5, <2>3, <2>4, <2>5 DEF RankCommand, Refresh, Swap, Move, Stall, Mitigate
<1>6. ASSUME NEW q \in Ranks, NEW c \in Banks, BankCommand(q, c), ~ PowerUpRequest(q, c)
      PROVE  FALSE
  BY <1>1, <1>6 DEF BankCommand, Activate, is_activate_allowed, Read, Write, Precharge,
                    AutoPrecharge, Woken, PowerDowns, ClosedStates, ChannelTypeOK
<1>7. ~ UNCHANGED channelVars
  BY <1>1 DEF channelVars, bankVars
<1> QED BY <1>2, <1>3, <1>4, <1>5, <1>6, <1>7 DEF ChannelNext

\* With one rank per channel the deadline of rank 0 is the right one: no rank is woken up
\* past its deadline, and the forced refreshes need no further assumption.
THEOREM OneRankQuiet ==
  ASSUME Ranks = {0}
  PROVE  ChannelSafety => PowerUpMeetsDeadline /\ ForcedWhenQuiet
<1>1. ChannelTypeOK /\ RankCoherent /\ [ChannelNext]_channelVars
      => [\A r \in Ranks, b \in Banks : Woken(r, b) => Fits(r, WakeTime(state[r][b]))]_channelVars
  BY WokenByCommand
<1>2. ChannelSafety => PowerUpMeetsDeadline
  BY <1>1, ChannelTypes, RanksCoherent, PTL DEF ChannelSafety, PowerUpMeetsDeadline
<1> QED BY <1>2, ForcedQuietly, PTL

\* The specification that the runs check has all of these properties.
THEOREM ChannelCorrect ==
  ChannelSpec => /\ [](ChannelTypeOK /\ RankCoherent)
                 /\ ActSpacing /\ DataBusExclusive /\ WindowRefreshed
                 /\ PowerUpMeetsDeadline => ForcedWhenQuiet
<1>1. ChannelSpec => ChannelSafety
  BY PTL DEF ChannelSpec, ChannelSafety
<1> QED BY <1>1, ChannelTypes, RanksCoherent, ActivationsSpaced, BusExclusive,
           EveryWindowRefreshed, ForcedQuietly, PTL

-----------------------------------------------------------------------------
(* The queues of the channel: what clean_queues() keeps. *)

\* Induction: what holds of some number does so of a least one.
LEMMA SmallestNat ==
  ASSUME NEW T \in SUBSET Nat, NEW n \in T
  PROVE  \E x \in T : \A y \in T : x <= y
<1>1. \E x \in T : \A y \in T : ~ (<<y, x>> \in OpToRel(<, Nat))
  BY WFMin, NatLessThanWellFounded, Zenon
<1>2. PICK x \in T : \A y \in T : ~ (<<y, x>> \in OpToRel(<, Nat))
  BY <1>1
<1>3. \A y \in T : ~ (y < x)
  <2>1. \A y \in T : y < x => <<y, x>> \in OpToRel(<, Nat)
    BY DEF OpToRel
  <2> QED BY <1>2, <2>1, Zenon
<1>4. \A y \in T : x <= y
  BY <1>3
<1> QED BY <1>4

\* What the walk of clean_queues() has kept of the first requests of a queue.
IsKept(s, m, f) ==
  f = [n \in 0..m |-> IF n = 0 THEN <<>>
        ELSE IF s[n].served THEN f[n - 1] ELSE Append(f[n - 1], s[n])]

LEMMA KeptExists ==
  ASSUME NEW S, NEW s \in Seq(S), NEW k \in Nat PROVE \E f : IsKept(s, k, f)
<1> DEFINE T == {m \in Nat : ~ \E f : IsKept(s, m, f)}
<1> SUFFICES ASSUME T # {} PROVE FALSE
  OBVIOUS
<1>1. PICK x \in T : \A y \in T : x <= y
  <2>1. PICK n \in T : TRUE
    OBVIOUS
  <2>2. T \in SUBSET Nat
    OBVIOUS
  <2> HIDE DEF T
  <2> QED BY <2>1, <2>2, SmallestNat
<1>2. x # 0
  <2>1. IsKept(s, 0, [n \in 0..0 |-> <<>>])
    BY DEF IsKept
  <2> QED BY <2>1
<1>3. PICK g : IsKept(s, x - 1, g)
  <2>1. x - 1 \in Nat /\ ~ (x <= x - 1)
    BY <1>2
  <2> QED BY <1>1, <2>1
<1> DEFINE h == [n \in 0..x |-> IF n <= x - 1 THEN g[n]
                   ELSE IF s[n].served THEN g[n - 1] ELSE Append(g[n - 1], s[n])]
<1>4. IsKept(s, x, h)
  <2>1. x \in Nat /\ x # 0
    BY <1>2
  <2>2. \A n \in 0..(x - 1) : g[n] = IF n = 0 THEN <<>>
                   ELSE IF s[n].served THEN g[n - 1] ELSE Append(g[n - 1], s[n])
    BY <1>3 DEF IsKept
  <2>3. \A n \in 0..x : h[n] = IF n = 0 THEN <<>>
                   ELSE IF s[n].served THEN h[n - 1] ELSE Append(h[n - 1], s[n])
    BY <2>1, <2>2
  <2>4. h = [n \in 0..x |-> h[n]]
    OBVIOUS
  <2> HIDE DEF h
  <2> QED BY <2>3, <2>4 DEF IsKept
<1> QED BY <1>4

LEMMA KeptIs ==
  ASSUME NEW S, NEW s \in Seq(S)
  PROVE  \E f : IsKept(s, Len(s), f) /\ Unserved(s) = f[Len(s)]
<1>1. \E f : IsKept(s, Len(s), f)
  BY KeptExists
<1> QED BY <1>1 DEF Unserved, IsKept

LEMMA KeptType ==
  ASSUME NEW S, NEW s \in Seq(S), NEW f, IsKept(s, Len(s), f), NEW k \in 0..Len(s)
  PROVE  f[k] \in Seq(S) /\ Len(f[k]) <= k
<1> DEFINE T == {m \in 0..Len(s) : ~ (f[m] \in Seq(S) /\ Len(f[m]) <= m)}
<1> SUFFICES ASSUME T # {} PROVE FALSE
  OBVIOUS
<1>1. PICK x \in T : \A y \in T : x <= y
  <2>1. PICK n \in T : TRUE
    OBVIOUS
  <2>2. T \in SUBSET Nat
    OBVIOUS
  <2> HIDE DEF T
  <2> QED BY <2>1, <2>2, SmallestNat
<1>2. f[0] = <<>> /\ x # 0
  BY DEF IsKept
<1>3. x \in Nat /\ x - 1 \in 0..Len(s) /\ x - 1 \notin T
  BY <1>1, <1>2
<1>4. f[x - 1] \in Seq(S) /\ Len(f[x - 1]) <= x - 1
  BY <1>3
<1>5. f[x] = IF s[x].served THEN f[x - 1] ELSE Append(f[x - 1], s[x])
  BY <1>2 DEF IsKept
<1>6. s[x] \in S
  BY <1>2
<1>7. f[x] \in Seq(S)
  BY <1>4, <1>5, <1>6
<1>8. Len(f[x]) <= x
  BY <1>3, <1>4, <1>5, <1>6
<1> QED BY <1>3, <1>7, <1>8

\* Kept requests keep their order and their number does not grow.
LEMMA UnservedType ==
  ASSUME NEW S, NEW s \in Seq(S)
  PROVE  Unserved(s) \in Seq(S) /\ Len(Unserved(s)) <= Len(s)
<1>1. PICK f : IsKept(s, Len(s), f) /\ Unserved(s) = f[Len(s)]
  BY KeptIs
<1>2. Len(s) \in 0..Len(s)
  OBVIOUS
<1> QED BY <1>1, <1>2, KeptType

\* When only the head can be served, it alone is removed.
LEMMA KeptHead ==
  ASSUME NEW S, NEW s \in Seq(S), NEW f, IsKept(s, Len(s), f), NEW k \in 1..Len(s),
         \A i \in 2..Len(s) : ~ s[i].served
  PROVE  f[k] = IF s[1].served THEN SubSeq(s, 2, k) ELSE SubSeq(s, 1, k)
<1> DEFINE part(m) == IF s[1].served THEN SubSeq(s, 2, m) ELSE SubSeq(s, 1, m)
           T == {m \in 1..Len(s) : f[m] # part(m)}
<1> SUFFICES ASSUME T # {} PROVE FALSE
  OBVIOUS
<1>1. PICK x \in T : \A y \in T : x <= y
  <2>1. PICK n \in T : TRUE
    OBVIOUS
  <2>2. T \in SUBSET Nat
    OBVIOUS
  <2> HIDE DEF T
  <2> QED BY <2>1, <2>2, SmallestNat
<1>2. x \in 1..Len(s) /\ x \in Nat /\ Len(s) \in Nat
  OBVIOUS
<1>3. /\ f[0] = <<>>
      /\ f[x] = IF s[x].served THEN f[x - 1] ELSE Append(f[x - 1], s[x])
  <2>1. \A n \in 0..Len(s) : f[n] = IF n = 0 THEN <<>>
          ELSE IF s[n].served THEN f[n - 1] ELSE Append(f[n - 1], s[n])
    BY DEF IsKept
  <2>2. x \in 0..Len(s) /\ 0 \in 0..Len(s) /\ x # 0
    BY <1>2
  <2> HIDE DEF T, part
  <2> QED BY <2>1, <2>2
<1>4. CASE x = 1
  <2>1. SubSeq(s, 2, 1) = <<>> /\ SubSeq(s, 1, 0) = <<>>
    BY SubSeqEmpty
  <2>2. Append(SubSeq(s, 1, 0), s[1]) = SubSeq(s, 1, 1)
    BY <1>2, <1>4
  <2>3. f[1] = IF s[1].served THEN <<>> ELSE Append(<<>>, s[1])
    <3>1. x - 1 = 0
      BY <1>4
    <3> QED BY <1>3, <1>4, <3>1
  <2>4. f[1] = part(1)
    BY <2>1, <2>2, <2>3
  <2> QED BY <1>4, <2>4
<1>5. CASE x # 1
  <2>1. x - 1 \in 1..Len(s) /\ x - 1 \notin T
    BY <1>1, <1>2, <1>5
  <2>2. f[x - 1] = part(x - 1)
    BY <2>1
  <2>3. f[x] = Append(f[x - 1], s[x])
    BY <1>2, <1>3, <1>5
  <2>4. Append(SubSeq(s, 2, x - 1), s[x]) = SubSeq(s, 2, x)
    BY <1>2, <1>5
  <2>5. Append(SubSeq(s, 1, x - 1), s[x]) = SubSeq(s, 1, x)
    BY <1>2, <1>5
  <2> QED BY <2>2, <2>3, <2>4, <2>5
<1> QED BY <1>4, <1>5

LEMMA UnservedHead ==
  ASSUME NEW S, NEW s \in Seq(S), \A i \in 2..Len(s) : ~ s[i].served
  PROVE  Unserved(s) = IF s # <<>> /\ s[1].served THEN Tail(s) ELSE s
<1>1. PICK f : IsKept(s, Len(s), f) /\ Unserved(s) = f[Len(s)]
  BY KeptIs
<1>2. CASE s = <<>>
  <2>1. f[0] = <<>> /\ Len(s) = 0
    BY <1>1, <1>2 DEF IsKept
  <2> QED BY <1>1, <1>2, <2>1
<1>3. CASE s # <<>>
  <2>1. Len(s) \in 1..Len(s)
    BY <1>3
  <2>2. f[Len(s)] = IF s[1].served THEN SubSeq(s, 2, Len(s)) ELSE SubSeq(s, 1, Len(s))
    BY <1>1, <2>1, KeptHead
  <2>3. SubSeq(s, 2, Len(s)) = Tail(s) /\ SubSeq(s, 1, Len(s)) = s
    BY <1>3
  <2> QED BY <1>1, <1>3, <2>2, <2>3
<1> QED BY <1>2, <1>3
=============================================================================
