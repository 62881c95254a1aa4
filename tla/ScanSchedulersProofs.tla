------------------------ MODULE ScanSchedulersProofs -------------------------
(***************************************************************************)
(* The eight scanning schedulers on any channel, for queues of any         *)
(* capacity and any slots, gaps and epochs.  Each is first described by    *)
(* what a turn does: at most one command of the channel's interface, at    *)
(* most one request served, and the scheduler's own variables.             *)
(***************************************************************************)
EXTENDS ScanSchedulers, DramChannelProofs, FiniteSetTheorems

-----------------------------------------------------------------------------
(* Removal from the middle of a queue. *)

\* Kept requests were there before, in their order, and had not been served.
LEMMA KeptFrom ==
  ASSUME NEW S, NEW s \in Seq(S), NEW f, IsKept(s, Len(s), f), NEW k \in 0..Len(s)
  PROVE  \E g \in [1..Len(f[k]) -> 1..k] :
           /\ \A i \in 1..Len(f[k]) : f[k][i] = s[g[i]] /\ ~ s[g[i]].served
           /\ \A i, j \in 1..Len(f[k]) : i < j => g[i] < g[j]
<1> DEFINE From(m, g) ==
             /\ g \in [1..Len(f[m]) -> 1..m]
             /\ \A i \in 1..Len(f[m]) : f[m][i] = s[g[i]] /\ ~ s[g[i]].served
             /\ \A i, j \in 1..Len(f[m]) : i < j => g[i] < g[j]
           T == {m \in 0..Len(s) : ~ \E g : From(m, g)}
<1> SUFFICES ASSUME T # {} PROVE FALSE
  OBVIOUS
<1>1. PICK x \in T : \A y \in T : x <= y
  <2>1. PICK n \in T : TRUE
    OBVIOUS
  <2>2. T \in SUBSET Nat
    OBVIOUS
  <2> HIDE DEF T
  <2> QED BY <2>1, <2>2, SmallestNat
<1>2. x \in 0..Len(s) /\ Len(s) \in Nat
  OBVIOUS
<1>3. f[0] = <<>> /\ (x # 0 => f[x] = IF s[x].served THEN f[x - 1] ELSE Append(f[x - 1], s[x]))
  <2>1. \A n \in 0..Len(s) : f[n] = IF n = 0 THEN <<>>
          ELSE IF s[n].served THEN f[n - 1] ELSE Append(f[n - 1], s[n])
    BY DEF IsKept
  <2>2. 0 \in 0..Len(s)
    BY <1>2
  <2> HIDE DEF T
  <2> QED BY <1>2, <2>1, <2>2
<1>4. x # 0
  <2>1. From(0, [i \in 1..0 |-> 0])
    BY <1>3
  <2> HIDE DEF From
  <2> QED BY <2>1
<1>5. PICK g : From(x - 1, g)
  <2>1. x - 1 \in 0..Len(s) /\ ~ (x <= x - 1)
    BY <1>2, <1>4
  <2>2. x - 1 \notin T
    <3> HIDE DEF T
    <3> QED BY <1>1, <2>1
  <2> HIDE DEF From
  <2> QED BY <2>1, <2>2
<1>6. ~ \E h : From(x, h)
  OBVIOUS
<1> HIDE DEF T
<1>7. f[x - 1] \in Seq(S) /\ s[x] \in S
  <2>1. x - 1 \in 0..Len(s)
    BY <1>2, <1>4
  <2>2. x \in 1..Len(s)
    BY <1>2, <1>4
  <2> QED BY <2>1, <2>2, KeptType
<1>8. CASE s[x].served
  <2>1. f[x] = f[x - 1]
    BY <1>3, <1>4, <1>8
  <2>2. From(x, g)
    BY <1>2, <1>4, <1>5, <2>1
  <2> HIDE DEF From
  <2> QED BY <1>6, <2>2
<1>9. CASE ~ s[x].served
  <2> DEFINE l == Len(f[x - 1])
             h == [i \in 1..(l + 1) |-> IF i = l + 1 THEN x ELSE g[i]]
  <2>1. l \in Nat /\ Len(f[x]) = l + 1 /\ f[x][l + 1] = s[x]
        /\ \A i \in 1..l : f[x][i] = f[x - 1][i]
    <3>1. f[x] = Append(f[x - 1], s[x])
      BY <1>3, <1>4, <1>9
    <3> QED BY <1>7, <3>1, AppendProperties
  <2>2. /\ g \in [1..l -> 1..(x - 1)]
        /\ \A i \in 1..l : f[x - 1][i] = s[g[i]] /\ ~ s[g[i]].served
        /\ \A i, j \in 1..l : i < j => g[i] < g[j]
    BY <1>5
  <2> HIDE DEF l, From
  <2>3. h \in [1..(l + 1) -> 1..x]
    BY <1>2, <1>4, <2>1, <2>2
  <2>4. \A i \in 1..(l + 1) : i = l + 1 \/ i \in 1..l
    BY <2>1
  <2>5. \A i \in 1..l : h[i] = g[i] /\ i # l + 1 /\ g[i] \in 1..(x - 1)
    BY <2>1, <2>2
  <2>6. h[l + 1] = x
    BY <2>1
  <2> HIDE DEF h
  <2>7. \A i \in 1..(l + 1) : f[x][i] = s[h[i]] /\ ~ s[h[i]].served
    BY <1>9, <2>1, <2>2, <2>4, <2>5, <2>6
  <2>8. \A i, j \in 1..(l + 1) : i < j => h[i] < h[j]
    <3> SUFFICES ASSUME NEW i \in 1..(l + 1), NEW j \in 1..(l + 1), i < j PROVE h[i] < h[j]
      OBVIOUS
    <3>1. i \in 1..l /\ h[i] = g[i] /\ g[i] \in 1..(x - 1)
      BY <2>1, <2>5
    <3>2. CASE j = l + 1
      BY <1>2, <1>4, <2>6, <3>1, <3>2
    <3>3. CASE j \in 1..l
      BY <2>2, <2>5, <3>1, <3>3
    <3> QED BY <2>4, <3>2, <3>3
  <2>9. From(x, h)
    BY <2>1, <2>3, <2>7, <2>8 DEF From
  <2> QED BY <1>6, <2>9
<1> QED BY <1>8, <1>9

LEMMA UnservedFrom ==
  ASSUME NEW S, NEW s \in Seq(S)
  PROVE  \E g \in [1..Len(Unserved(s)) -> 1..Len(s)] :
           /\ \A i \in 1..Len(Unserved(s)) : Unserved(s)[i] = s[g[i]] /\ ~ s[g[i]].served
           /\ \A i, j \in 1..Len(Unserved(s)) : i # j => g[i] # g[j]
<1>1. PICK f : IsKept(s, Len(s), f) /\ Unserved(s) = f[Len(s)]
  BY KeptIs
<1>2. Len(s) \in 0..Len(s)
  OBVIOUS
<1>3. PICK g \in [1..Len(Unserved(s)) -> 1..Len(s)] :
           /\ \A i \in 1..Len(Unserved(s)) : Unserved(s)[i] = s[g[i]] /\ ~ s[g[i]].served
           /\ \A i, j \in 1..Len(Unserved(s)) : i < j => g[i] < g[j]
  BY <1>1, <1>2, KeptFrom
<1>4. ASSUME NEW i \in 1..Len(Unserved(s)), NEW j \in 1..Len(Unserved(s)), i # j
      PROVE  g[i] # g[j]
  <2>1. Len(Unserved(s)) \in Nat
    BY UnservedType
  <2>2. i < j \/ j < i
    BY <1>4
  <2>3. g[i] < g[j] \/ g[j] < g[i]
    BY <1>3, <2>2
  <2>4. g[i] \in Int /\ g[j] \in Int
    OBVIOUS
  <2> QED BY <2>3, <2>4
<1> QED BY <1>3, <1>4

\* One request that has been served leaves, the others stay.
LEMMA KeptCount ==
  ASSUME NEW S, NEW s \in Seq(S), NEW f, IsKept(s, Len(s), f), NEW k \in 0..Len(s),
         \A i, j \in 1..Len(s) : s[i].served /\ s[j].served => i = j
  PROVE  Len(f[k]) = IF \E i \in 1..k : s[i].served THEN k - 1 ELSE k
<1> DEFINE size(m) == IF \E i \in 1..m : s[i].served THEN m - 1 ELSE m
           T == {m \in 0..Len(s) : Len(f[m]) # size(m)}
<1> SUFFICES ASSUME T # {} PROVE FALSE
  OBVIOUS
<1>1. PICK x \in T : \A y \in T : x <= y
  <2>1. PICK n \in T : TRUE
    OBVIOUS
  <2>2. T \in SUBSET Nat
    OBVIOUS
  <2> HIDE DEF T
  <2> QED BY <2>1, <2>2, SmallestNat
<1>2. x \in 0..Len(s) /\ Len(s) \in Nat /\ Len(f[x]) # size(x)
  OBVIOUS
<1>3. f[0] = <<>> /\ (x # 0 => f[x] = IF s[x].served THEN f[x - 1] ELSE Append(f[x - 1], s[x]))
  <2>1. \A n \in 0..Len(s) : f[n] = IF n = 0 THEN <<>>
          ELSE IF s[n].served THEN f[n - 1] ELSE Append(f[n - 1], s[n])
    BY DEF IsKept
  <2>2. 0 \in 0..Len(s)
    BY <1>2
  <2> HIDE DEF T, size
  <2> QED BY <1>2, <2>1, <2>2
<1>4. x # 0
  <2>1. size(0) = 0 /\ Len(f[0]) = 0
    BY <1>3
  <2> HIDE DEF size
  <2> QED BY <1>2, <2>1
<1>5. x - 1 \in 0..Len(s) /\ x \in 1..Len(s) /\ ~ (x <= x - 1)
  BY <1>2, <1>4
<1>6. Len(f[x - 1]) = size(x - 1)
  <2>1. x - 1 \notin T
    <3> HIDE DEF T
    <3> QED BY <1>1, <1>5
  <2> HIDE DEF size
  <2> QED BY <1>5, <2>1
<1> HIDE DEF T
<1>7. f[x - 1] \in Seq(S) /\ s[x] \in S
  BY <1>5, KeptType
<1>8. \A i \in 1..x : i = x \/ i \in 1..(x - 1)
  BY <1>5
<1>9. \A i \in 1..(x - 1) : i \in 1..x /\ i \in 1..Len(s) /\ i # x
  BY <1>5
<1>10. CASE s[x].served
  <2>1. Len(f[x]) = size(x - 1)
    <3> HIDE DEF size
    <3> QED BY <1>3, <1>4, <1>6, <1>10
  <2>2. ~ \E i \in 1..(x - 1) : s[i].served
    BY <1>5, <1>9, <1>10
  <2>3. x \in 1..x
    BY <1>5
  <2> QED BY <1>2, <1>10, <2>1, <2>2, <2>3
<1>11. CASE ~ s[x].served
  <2>1. Len(f[x]) = size(x - 1) + 1
    <3> HIDE DEF size
    <3> QED BY <1>3, <1>4, <1>6, <1>7, <1>11
  <2>2. (\E i \in 1..x : s[i].served) <=> \E i \in 1..(x - 1) : s[i].served
    BY <1>8, <1>9, <1>11
  <2> QED BY <1>2, <1>5, <2>1, <2>2
<1> QED BY <1>10, <1>11

LEMMA UnservedCount ==
  ASSUME NEW S, NEW s \in Seq(S),
         \A i, j \in 1..Len(s) : s[i].served /\ s[j].served => i = j
  PROVE  Len(Unserved(s)) = IF \E i \in 1..Len(s) : s[i].served THEN Len(s) - 1 ELSE Len(s)
<1>1. PICK f : IsKept(s, Len(s), f) /\ Unserved(s) = f[Len(s)]
  BY KeptIs
<1>2. Len(s) \in 0..Len(s)
  OBVIOUS
<1> QED BY <1>1, <1>2, KeptCount

-----------------------------------------------------------------------------
(* What a turn of any scheduler does. *)

\* A read or a write gets its next command.
ReadTurn(i) ==
  /\ i \in Reads /\ issue_request_command("READ", read_queue[i])
  /\ read_queue' = [read_queue EXCEPT ![i] = Commanded(@)]
  /\ UNCHANGED write_queue

\* Without a read that is served, the queue stays, or fs invents a read.
Invented ==
  /\ scheduler = "fs" /\ Of(runcore) = {}
  /\ \E q \in New : q.core = runcore
                    /\ read_queue' = Append(read_queue, [q EXCEPT !.fake = TRUE])
ReadsKept == read_queue' = read_queue \/ Invented

WriteTurn(i) ==
  /\ i \in Writes /\ issue_request_command("WRITE", write_queue[i])
  /\ write_queue' = [write_queue EXCEPT ![i] = Commanded(@)]
  /\ ReadsKept

\* A row is closed that was read, or nothing happens.
CloseTurn ==
  /\ \E r \in Ranks, b \in Banks : Precharge(r, b)
  /\ UNCHANGED write_queue /\ ReadsKept
IdleTurn == NoCommand /\ UNCHANGED write_queue /\ ReadsKept

Turn ==
  /\ (\E i \in Reads : ReadTurn(i)) \/ (\E i \in Writes : WriteTurn(i)) \/ CloseTurn \/ IdleTurn
  /\ drain_writes' \in BOOLEAN

\* The types of the schedulers' own variables.
PolicyTypes ==
  /\ scheduler \in Schedulers
  /\ delay_stall \in [Ranks -> BOOLEAN]
  /\ wait_time \in BOOLEAN
  /\ recent_colacc \in [Ranks -> [Banks -> BOOLEAN]]
  /\ sandbox \in [left : Nat, closing : BOOLEAN]
  /\ time_diff \in [Ranks -> [Banks -> [Commands -> 0..Gap]]]
  /\ runcore \in Cores /\ current_core \in Cores
  /\ slot \in -1..Later(SlotLps, SlotTp)
  /\ bin_active \in 0..BinSize
  /\ cycle \in 0..(Cycle - 1)
  /\ pageRead \in [Ranks -> [Banks -> BOOLEAN]]

ScanTypes == QueuesTypeOK /\ PolicyTypes

LEMMA QueueTypes ==
  ASSUME ScanTypes
  PROVE  /\ read_queue \in Seq(Request) /\ write_queue \in Seq(Request)
         /\ Len(read_queue) \in Nat /\ Len(write_queue) \in Nat
         /\ Reads = 1..Len(read_queue) /\ Writes = 1..Len(write_queue)
<1>1. read_queue \in Seq(Request) /\ write_queue \in Seq(Request)
  BY DEF ScanTypes, QueuesTypeOK
<1> QED BY <1>1 DEF Reads, Writes

LEMMA RequestType ==
  ASSUME NEW q \in Request
  PROVE  /\ q.rank \in Ranks /\ q.bank \in Banks /\ q.row \in Rows /\ q.core \in Cores
         /\ q.fake \in BOOLEAN /\ q.served \in BOOLEAN
         /\ Commanded(q) \in Request
         /\ Commanded(q).core = q.core /\ Commanded(q).fake = q.fake
         /\ Commanded(q).served = RowHit(q)
<1>1. RowHit(q) \in BOOLEAN
  BY DEF RowHit
<1> QED BY <1>1 DEF Request, Commanded

LEMMA ReadType ==
  ASSUME ScanTypes, NEW i \in Reads PROVE read_queue[i] \in Request
BY QueueTypes

LEMMA ServeReadIs ==
  ASSUME NEW S, NEW i \in Reads, ServeRead(S, i)
  PROVE  ReadTurn(i) /\ i \in S /\ Issuable("READ", read_queue[i])
BY DEF ServeRead, ServeFirst, ReadTurn, IssuableIn, Queue

LEMMA DrainWriteIs ==
  ASSUME NEW idle, NEW i \in Writes, DrainWrite(idle, i), ReadsKept
  PROVE  WriteTurn(i) /\ drain_writes' = TRUE
BY DEF DrainWrite, ServeFirst, WriteTurn, Queue

LEMMA NoneServedIs ==
  ASSUME NoneServed PROVE IdleTurn
BY DEF NoneServed, IdleTurn, ReadsKept, queues

\* Schedulers that close rows: the bank is precharged and not marked any more.
LEMMA CloseOneIs ==
  ASSUME ScanTypes, CloseOne
  PROVE  /\ \/ \E r \in Ranks, b \in Banks :
                 Precharge(r, b) /\ recent_colacc' = [recent_colacc EXCEPT ![r][b] = FALSE]
            \/ NoCommand /\ UNCHANGED recent_colacc
         /\ recent_colacc' \in [Ranks -> [Banks -> BOOLEAN]]
<1>1. \/ \E r \in Ranks, b \in Banks :
            Precharge(r, b) /\ recent_colacc' = [recent_colacc EXCEPT ![r][b] = FALSE]
      \/ NoCommand /\ UNCHANGED recent_colacc
  BY DEF CloseOne
<1>2. recent_colacc \in [Ranks -> [Banks -> BOOLEAN]]
  BY DEF ScanTypes, PolicyTypes
<1>3. \A r \in Ranks, b \in Banks :
        recent_colacc' = [recent_colacc EXCEPT ![r][b] = FALSE]
          => recent_colacc' \in [Ranks -> [Banks -> BOOLEAN]]
  BY <1>2
<1>4. recent_colacc' = recent_colacc => recent_colacc' \in [Ranks -> [Banks -> BOOLEAN]]
  BY <1>2
<1>5. recent_colacc' \in [Ranks -> [Banks -> BOOLEAN]]
  BY <1>1, <1>3, <1>4
<1> QED BY <1>1, <1>5

LEMMA MarkType ==
  ASSUME ScanTypes, NEW i \in Reads, Mark(read_queue[i])
  PROVE  recent_colacc' \in [Ranks -> [Banks -> BOOLEAN]]
<1>1. recent_colacc \in [Ranks -> [Banks -> BOOLEAN]]
  BY DEF ScanTypes, PolicyTypes
<1>2. RowHit(read_queue[i]) \in BOOLEAN
  BY DEF RowHit
<1> QED BY <1>1, <1>2, ReadType, RequestType DEF Mark

LEMMA ClosePagesIs ==
  ASSUME ScanTypes, ClosePages, UNCHANGED write_queue, ReadsKept
  PROVE  /\ CloseTurn \/ IdleTurn
         /\ recent_colacc' \in [Ranks -> [Banks -> BOOLEAN]] /\ wait_time' \in BOOLEAN
<1>1. CASE wait_time /\ CloseOne /\ wait_time' = Remaining'
  <2>1. wait_time' \in BOOLEAN
    BY <1>1 DEF Remaining
  <2> QED BY <1>1, <2>1, CloseOneIs DEF CloseTurn, IdleTurn
<1>2. CASE ~ wait_time /\ NoCommand /\ UNCHANGED pageVars
  BY <1>2 DEF IdleTurn, pageVars, ScanTypes, PolicyTypes
<1> QED BY <1>1, <1>2 DEF ClosePages

LEMMA NextCoreType ==
  ASSUME NEW c \in Cores PROVE (c + 1) % NUMCORES \in Cores
<1>1. NUMCORES \in Nat \ {0} /\ c + 1 \in Nat
  BY QueuesAssumption DEF Cores
<1> QED BY <1>1 DEF Cores

LEMMA DrainIs ==
  ASSUME Drain PROVE Turn
<1>1. CASE \E i \in Writes : DrainWrite(NoReads, i) /\ UNCHANGED read_queue
  <2>1. PICK i \in Writes : DrainWrite(NoReads, i) /\ UNCHANGED read_queue
    BY <1>1
  <2>2. ReadsKept
    BY <2>1 DEF ReadsKept
  <2> QED BY <2>1, <2>2, DrainWriteIs DEF Turn
<1>2. CASE DrainStuck(NoReads) /\ NoneServed
  BY <1>2, NoneServedIs DEF DrainStuck, Turn
<1> QED BY <1>1, <1>2 DEF Drain

-----------------------------------------------------------------------------
(* The turn of each scheduler. *)

\* Policy variables that a scheduler leaves alone keep their types.
LEMMA OthersKeepTypes ==
  ASSUME ScanTypes
  PROVE  /\ UNCHANGED delay_stall => delay_stall' \in [Ranks -> BOOLEAN]
         /\ UNCHANGED pageVars => /\ wait_time' \in BOOLEAN
                                  /\ recent_colacc' \in [Ranks -> [Banks -> BOOLEAN]]
         /\ UNCHANGED sandbox => sandbox' \in [left : Nat, closing : BOOLEAN]
         /\ UNCHANGED time_diff => time_diff' \in [Ranks -> [Banks -> [Commands -> 0..Gap]]]
         /\ UNCHANGED runcore => runcore' \in Cores
         /\ UNCHANGED current_core => current_core' \in Cores
         /\ UNCHANGED slot => slot' \in -1..Later(SlotLps, SlotTp)
         /\ UNCHANGED bin_active => bin_active' \in 0..BinSize
BY DEF ScanTypes, PolicyTypes, pageVars

\* What is left of PolicyTypes after a turn.
TurnTypes ==
  /\ delay_stall' \in [Ranks -> BOOLEAN]
  /\ wait_time' \in BOOLEAN
  /\ recent_colacc' \in [Ranks -> [Banks -> BOOLEAN]]
  /\ sandbox' \in [left : Nat, closing : BOOLEAN]
  /\ time_diff' \in [Ranks -> [Banks -> [Commands -> 0..Gap]]]
  /\ runcore' \in Cores /\ current_core' \in Cores
  /\ slot' \in -1..Later(SlotLps, SlotTp)
  /\ bin_active' \in 0..BinSize

LEMMA frfcfsTurn ==
  ASSUME ScanTypes, schedule_frfcfs PROVE Turn /\ TurnTypes
<1>0. UNCHANGED <<pageVars, sandbox, time_diff, turnVars, bin_active>>
  BY DEF schedule_frfcfs
<1> SUFFICES Turn /\ delay_stall' \in [Ranks -> BOOLEAN]
  BY <1>0, OthersKeepTypes DEF TurnTypes, turnVars
<1>1. delay_stall \in [Ranks -> BOOLEAN]
  BY DEF ScanTypes, PolicyTypes
<1>2. \A q : Asked(q) => delay_stall' \in [Ranks -> BOOLEAN]
  BY <1>1 DEF Asked
<1>3. CASE \E r \in Dropping :
             /\ delay_stall' = [delay_stall EXCEPT ![r] = FALSE]
             /\ NoneServed /\ UNCHANGED drain_writes
  BY <1>1, <1>3, NoneServedIs DEF Turn, ScanTypes, QueuesTypeOK
<1>4. CASE \E i \in Writes :
             DrainWrite(NoReads, i) /\ Asked(write_queue[i]) /\ UNCHANGED read_queue
  <2>1. PICK i \in Writes :
          DrainWrite(NoReads, i) /\ Asked(write_queue[i]) /\ UNCHANGED read_queue
    BY <1>4
  <2>2. ReadsKept
    BY <2>1 DEF ReadsKept
  <2> QED BY <1>2, <2>1, <2>2, DrainWriteIs DEF Turn
<1>5. CASE DrainStuck(NoReads) /\ NoneServed /\ UNCHANGED delay_stall
  BY <1>1, <1>5, NoneServedIs DEF Turn, DrainStuck
<1>6. CASE /\ NoDrain(NoReads)
           /\ \E i \in Reads : ServeRead(HitsFirst(Reads), i) /\ Asked(read_queue[i])
  BY <1>2, <1>6, ServeReadIs DEF Turn, NoDrain
<1>7. CASE NoDrain(NoReads) /\ NoneServed /\ UNCHANGED delay_stall
  BY <1>1, <1>7, NoneServedIs DEF Turn, NoDrain
<1> QED BY <1>3, <1>4, <1>5, <1>6, <1>7 DEF schedule_frfcfs

LEMMA closepageTurn ==
  ASSUME ScanTypes, schedule_closepage PROVE Turn /\ TurnTypes
<1> DEFINE idle == NoReads /\ ~ wait_time
<1>0. UNCHANGED <<delay_stall, sandbox, time_diff, turnVars, bin_active>>
  BY DEF schedule_closepage
<1>1. CASE \E i \in Writes : DrainWrite(idle, i) /\ UNCHANGED <<read_queue, pageVars>>
  <2> HIDE DEF idle
  <2>1. PICK i \in Writes : DrainWrite(idle, i) /\ UNCHANGED <<read_queue, pageVars>>
    BY <1>1
  <2>2. ReadsKept
    BY <2>1 DEF ReadsKept
  <2> QED BY <1>0, <2>1, <2>2, DrainWriteIs, OthersKeepTypes DEF Turn, TurnTypes, turnVars
<1>2. CASE /\ DrainStuck(idle) \/ (NoDrain(idle) /\ NoReadPage(Reads))
           /\ ClosePages /\ UNCHANGED queues
  <2>1. UNCHANGED write_queue /\ ReadsKept /\ drain_writes' \in BOOLEAN
    BY <1>2 DEF queues, ReadsKept, DrainStuck, NoDrain
  <2> QED BY <1>0, <1>2, <2>1, ClosePagesIs, OthersKeepTypes DEF Turn, TurnTypes, turnVars
<1>3. CASE NoDrain(idle) /\ \E i \in Reads : ReadPage(Reads, i)
  <2>1. PICK i \in Reads : ReadPage(Reads, i)
    BY <1>3
  <2>2. wait_time' \in BOOLEAN /\ drain_writes' \in BOOLEAN
    BY <1>3, <2>1 DEF ReadPage, RowHit, NoDrain
  <2> QED BY <1>0, <2>1, <2>2, ServeReadIs, MarkType, OthersKeepTypes
          DEF Turn, TurnTypes, turnVars, ReadPage
<1> QED BY <1>1, <1>2, <1>3 DEF schedule_closepage

LEMMA fsTurn ==
  ASSUME ScanTypes, scheduler = "fs", schedule_fs PROVE Turn /\ TurnTypes
<1>0. UNCHANGED <<delay_stall, sandbox, time_diff, current_core, slot, bin_active>>
  BY DEF schedule_fs
<1>1. ASSUME FakeRead PROVE ReadsKept
  BY <1>1 DEF FakeRead, ReadsKept, Invented
<1>2. CASE /\ FakeRead /\ UNCHANGED runcore
           /\ \E i \in Writes : DrainWrite(FALSE, i)
           /\ UNCHANGED recent_colacc /\ wait_time' = (wait_time /\ Remaining)
  <2>1. PICK i \in Writes : DrainWrite(FALSE, i)
    BY <1>2
  <2>2. wait_time' \in BOOLEAN /\ recent_colacc' \in [Ranks -> [Banks -> BOOLEAN]]
    BY <1>2 DEF ScanTypes, PolicyTypes
  <2>3. ReadsKept
    BY <1>1, <1>2
  <2>4. WriteTurn(i) /\ drain_writes' = TRUE
    BY <2>1, <2>3, DrainWriteIs
  <2> QED BY <1>0, <1>2, <2>2, <2>4, OthersKeepTypes DEF Turn, TurnTypes
<1>3. CASE /\ FakeRead /\ UNCHANGED runcore
           /\ DrainStuck(FALSE) \/ (NoDrain(FALSE) /\ NoReadPage(Of(runcore)))
           /\ ClosePages /\ UNCHANGED write_queue
  <2>1. ReadsKept /\ drain_writes' \in BOOLEAN
    BY <1>1, <1>3 DEF DrainStuck, NoDrain
  <2> QED BY <1>0, <1>3, <2>1, ClosePagesIs, OthersKeepTypes DEF Turn, TurnTypes
<1>4. CASE /\ NoDrain(FALSE)
           /\ \E i \in Of(runcore) :
                /\ ReadPage(Of(runcore), i)
                /\ runcore' = IF RowHit(read_queue[i]) THEN NextCore ELSE runcore
  <2>1. PICK i \in Of(runcore) :
             /\ ReadPage(Of(runcore), i)
             /\ runcore' = IF RowHit(read_queue[i]) THEN NextCore ELSE runcore
    BY <1>4
  <2>2. i \in Reads
    BY DEF Of
  <2>3. runcore' \in Cores
    BY <2>1, NextCoreType DEF NextCore, ScanTypes, PolicyTypes
  <2>4. wait_time' \in BOOLEAN /\ drain_writes' \in BOOLEAN
    BY <1>4, <2>1 DEF ReadPage, RowHit, NoDrain
  <2>5. ServeRead(Of(runcore), i) /\ Mark(read_queue[i])
    BY <2>1 DEF ReadPage
  <2>6. ReadTurn(i) /\ recent_colacc' \in [Ranks -> [Banks -> BOOLEAN]]
    BY <2>2, <2>5, ServeReadIs, MarkType
  <2> QED BY <1>0, <2>2, <2>3, <2>4, <2>6, OthersKeepTypes DEF Turn, TurnTypes
<1> QED BY <1>2, <1>3, <1>4 DEF schedule_fs

\* The reads of a sandbox that are left.
LEMMA OpenedType ==
  ASSUME ScanTypes
  PROVE  Opened \in Nat /\ (sandbox.left <= Len(read_queue) => Opened <= Len(read_queue))
BY QueueTypes DEF Opened, ScanTypes, PolicyTypes

LEMMA prTurn ==
  ASSUME ScanTypes, schedule_pr
  PROVE  /\ Turn /\ TurnTypes
         /\ \/ \E i \in Reads : ReadTurn(i) /\ i \in 1..Opened
                 /\ sandbox'.left = IF RowHit(read_queue[i]) THEN Opened - 1 ELSE Opened
            \/ UNCHANGED read_queue /\ sandbox'.left \in {sandbox.left, Opened}
<1>0. UNCHANGED <<delay_stall, wait_time, time_diff, turnVars, bin_active>>
  BY DEF schedule_pr
<1>1. CASE /\ \E i \in Writes : DrainWrite(NoReads, i)
           /\ UNCHANGED <<read_queue, recent_colacc, sandbox>>
  <2>1. PICK i \in Writes : DrainWrite(NoReads, i)
    BY <1>1
  <2>2. ReadsKept
    BY <1>1 DEF ReadsKept
  <2>3. WriteTurn(i) /\ drain_writes' = TRUE
    BY <2>1, <2>2, DrainWriteIs
  <2>4. wait_time' \in BOOLEAN /\ recent_colacc' \in [Ranks -> [Banks -> BOOLEAN]]
    BY <1>0, <1>1 DEF ScanTypes, PolicyTypes
  <2> QED BY <1>0, <1>1, <2>3, <2>4, OthersKeepTypes DEF Turn, TurnTypes, turnVars
<1>2. CASE NoDrain(NoReads) /\ ServeSandbox
  <2>1. PICK i \in Reads :
          /\ ServeRead(HitsFirst(1..Opened), i)
          /\ Mark(read_queue[i])
          /\ sandbox' = IF RowHit(read_queue[i])
                        THEN [left |-> Opened - 1, closing |-> Opened = 1]
                        ELSE [left |-> Opened, closing |-> FALSE]
    BY <1>2 DEF ServeSandbox
  <2>2. HitsFirst(1..Opened) \subseteq 1..Opened
    BY DEF HitsFirst
  <2>3. ReadTurn(i) /\ i \in 1..Opened /\ recent_colacc' \in [Ranks -> [Banks -> BOOLEAN]]
    BY <2>1, <2>2, ServeReadIs, MarkType
  <2>4. Opened \in Nat /\ Opened - 1 \in Nat
    BY <2>3, OpenedType
  <2>5. /\ sandbox' \in [left : Nat, closing : BOOLEAN]
        /\ sandbox'.left = IF RowHit(read_queue[i]) THEN Opened - 1 ELSE Opened
    BY <2>1, <2>4
  <2>6. wait_time' \in BOOLEAN /\ drain_writes' \in BOOLEAN
    BY <1>0, <1>2 DEF ScanTypes, PolicyTypes, NoDrain
  <2> QED BY <1>0, <2>3, <2>5, <2>6, OthersKeepTypes DEF Turn, TurnTypes, turnVars
<1>3. CASE CloseSandbox /\ drain_writes' \in BOOLEAN
  <2>1. UNCHANGED read_queue /\ UNCHANGED write_queue /\ ReadsKept
    BY <1>3 DEF CloseSandbox, queues, ReadsKept
  <2>2. (CloseTurn \/ IdleTurn) /\ recent_colacc' \in [Ranks -> [Banks -> BOOLEAN]]
    <3>1. CASE sandbox.closing /\ CloseOne
      BY <2>1, <3>1, CloseOneIs DEF CloseTurn, IdleTurn
    <3>2. CASE NoCommand /\ UNCHANGED recent_colacc
      BY <2>1, <3>2 DEF IdleTurn, ScanTypes, PolicyTypes
    <3> QED BY <1>3, <3>1, <3>2 DEF CloseSandbox
  <2>3. sandbox' = [left |-> Opened, closing |-> sandbox.closing /\ Remaining']
    BY <1>3 DEF CloseSandbox
  <2>4. sandbox' \in [left : Nat, closing : BOOLEAN] /\ sandbox'.left = Opened
    BY <2>3, OpenedType
  <2>5. wait_time' \in BOOLEAN
    BY <1>0 DEF ScanTypes, PolicyTypes
  <2> QED BY <1>0, <1>3, <2>1, <2>2, <2>4, <2>5, OthersKeepTypes DEF Turn, TurnTypes, turnVars
<1> QED BY <1>1, <1>2, <1>3 DEF schedule_pr, DrainStuck, NoDrain

LEMMA btaTurn ==
  ASSUME ScanTypes, schedule_bta PROVE Turn /\ TurnTypes
<1> DEFINE timely == {i \in Reads :
        LET q == read_queue[i] IN time_diff[q.rank][q.bank][NextCommand(q)] = 0}
<1>0. UNCHANGED <<delay_stall, pageVars, sandbox, turnVars, bin_active>>
  BY DEF schedule_bta
<1> SUFFICES Turn /\ time_diff' \in [Ranks -> [Banks -> [Commands -> 0..Gap]]]
  BY <1>0, OthersKeepTypes DEF TurnTypes, turnVars
<1>1. CASE Drain /\ UNCHANGED time_diff
  BY <1>1, DrainIs DEF ScanTypes, PolicyTypes
<1>2. CASE /\ NoDrain(NoReads)
           /\ \E i \in timely :
                LET q == read_queue[i] IN
                /\ ServeRead(timely, i)
                /\ time_diff' = [time_diff EXCEPT ![q.rank][q.bank][NextCommand(q)] = Gap]
  <2>1. PICK i \in Reads :
          LET q == read_queue[i] IN
          /\ ServeRead(timely, i)
          /\ time_diff' = [time_diff EXCEPT ![q.rank][q.bank][NextCommand(q)] = Gap]
    BY <1>2
  <2> HIDE DEF timely
  <2>2. Gap \in 0..Gap
    BY ScanAssumption
  <2>3. time_diff \in [Ranks -> [Banks -> [Commands -> 0..Gap]]]
    BY DEF ScanTypes, PolicyTypes
  <2>4. time_diff' \in [Ranks -> [Banks -> [Commands -> 0..Gap]]]
    BY <2>1, <2>2, <2>3
  <2> QED BY <1>2, <2>1, <2>4, ServeReadIs DEF Turn, NoDrain
<1>3. CASE NoDrain(NoReads) /\ NoneServed /\ UNCHANGED time_diff
  BY <1>3, NoneServedIs DEF Turn, NoDrain, ScanTypes, PolicyTypes
<1> QED BY <1>1, <1>2, <1>3 DEF schedule_bta

LEMMA SlotTypes ==
  /\ SlotLps \in -1..Later(SlotLps, SlotTp) /\ SlotTp \in -1..Later(SlotLps, SlotTp)
  /\ Later(SlotLps, SlotTp) \in Nat
BY ScanAssumption DEF Later

LEMMA lpsTurn ==
  ASSUME ScanTypes, schedule_lps PROVE Turn /\ TurnTypes
<1> DEFINE now == IF Begins(SlotLps * NUMCORES) THEN SlotLps ELSE slot
           waiting == {c \in 0..current_core : IssuableIn("READ", Of(c)) # {}}
           Chosen(c) == c \in waiting /\ \A d \in waiting : d <= c
<1>0. UNCHANGED <<delay_stall, pageVars, sandbox, time_diff, runcore, bin_active>>
  BY DEF schedule_lps
<1> SUFFICES Turn /\ current_core' \in Cores /\ slot' \in -1..Later(SlotLps, SlotTp)
  BY <1>0, OthersKeepTypes DEF TurnTypes
<1>1. /\ now \in -1..Later(SlotLps, SlotTp) /\ slot \in -1..Later(SlotLps, SlotTp)
      /\ current_core \in Cores
  BY SlotTypes DEF ScanTypes, PolicyTypes
<1>2. CASE Drain /\ UNCHANGED <<current_core, slot>>
  BY <1>1, <1>2, DrainIs
<1>3. CASE /\ NoDrain(NoReads)
           /\ current_core' = IF current_core + 1 = NUMCORES
                              THEN current_core ELSE current_core + 1
           /\ slot' = SlotLps
           /\ NoneServed
  <2>1. current_core' \in Cores
    <3>1. NUMCORES \in Nat \ {0}
      BY QueuesAssumption
    <3> QED BY <1>1, <1>3, <3>1 DEF Cores
  <2> QED BY <1>3, <2>1, NoneServedIs, SlotTypes DEF Turn, NoDrain
<1>4. CASE /\ NoDrain(NoReads)
           /\ \E c \in waiting : \E i \in Of(c) : ServeRead(Of(c), i)
           /\ slot' = now /\ UNCHANGED current_core
  <2> HIDE DEF now
  <2>1. PICK c \in waiting : \E i \in Of(c) : ServeRead(Of(c), i)
    BY <1>4
  <2>2. PICK i \in Reads : ServeRead(Of(c), i)
    BY <2>1 DEF Of
  <2> QED BY <1>1, <1>4, <2>2, ServeReadIs DEF Turn, NoDrain
<1>5. CASE NoDrain(NoReads) /\ NoneServed /\ slot' = now /\ UNCHANGED current_core
  <2> HIDE DEF now
  <2> QED BY <1>1, <1>5, NoneServedIs DEF Turn, NoDrain
<1> QED BY <1>2, <1>3, <1>4, <1>5 DEF schedule_lps

LEMMA tpTurn ==
  ASSUME ScanTypes, schedule_tp PROVE Turn /\ TurnTypes
<1> DEFINE renewed == Begins(SlotTp * NUMCORES)
           core == IF renewed THEN NextCore ELSE runcore
           now == IF renewed THEN SlotTp ELSE slot
           asks == IssuableIn("READ", Of(core)) # {}
<1>0. UNCHANGED <<delay_stall, pageVars, sandbox, time_diff, current_core, bin_active>>
  BY DEF schedule_tp
<1> SUFFICES Turn /\ runcore' \in Cores /\ slot' \in -1..Later(SlotLps, SlotTp)
  BY <1>0, OthersKeepTypes DEF TurnTypes
<1>1. /\ slot \in -1..Later(SlotLps, SlotTp) /\ runcore \in Cores
      /\ now \in -1..Later(SlotLps, SlotTp) /\ core \in Cores
      /\ (core + 1) % NUMCORES \in Cores
  <2>1. slot \in -1..Later(SlotLps, SlotTp) /\ runcore \in Cores
    BY DEF ScanTypes, PolicyTypes
  <2>2. now \in -1..Later(SlotLps, SlotTp)
    BY <2>1, SlotTypes
  <2>3. core \in Cores
    BY <2>1, NextCoreType DEF NextCore
  <2> HIDE DEF core, now
  <2> QED BY <2>1, <2>2, <2>3, NextCoreType
<1>2. CASE Drain /\ UNCHANGED <<runcore, slot>>
  BY <1>1, <1>2, DrainIs
<1>3. CASE /\ NoDrain(NoReads) /\ NoneServed
           /\ slot' = SlotTp /\ runcore' = (core + 1) % NUMCORES
  <2> HIDE DEF core, now
  <2> QED BY <1>1, <1>3, NoneServedIs, SlotTypes DEF Turn, NoDrain
<1>4. CASE /\ NoDrain(NoReads) /\ \E i \in Of(core) : ServeRead(Of(core), i)
           /\ slot' = now /\ runcore' = core
  <2> HIDE DEF core, now
  <2>1. PICK i \in Reads : ServeRead(Of(core), i)
    BY <1>4 DEF Of
  <2> QED BY <1>1, <1>4, <2>1, ServeReadIs DEF Turn, NoDrain
<1>5. CASE NoDrain(NoReads) /\ NoneServed /\ slot' = now /\ runcore' = core
  <2> HIDE DEF core, now
  <2> QED BY <1>1, <1>5, NoneServedIs DEF Turn, NoDrain
<1> QED BY <1>2, <1>3, <1>4, <1>5 DEF schedule_tp

LEMMA camouTurn ==
  ASSUME ScanTypes, schedule_camou PROVE Turn /\ TurnTypes
<1> DEFINE active == IF Begins(BinEpoch) THEN BinSize - bin_active ELSE bin_active
           allowed == {i \in Reads : RowHit(read_queue[i]) => active < BinSize}
<1>0. UNCHANGED <<delay_stall, pageVars, sandbox, time_diff, turnVars>>
  BY DEF schedule_camou
<1> SUFFICES Turn /\ bin_active' \in 0..BinSize
  BY <1>0, OthersKeepTypes DEF TurnTypes, turnVars
<1>1. active \in 0..BinSize /\ BinSize \in Nat
  <2>1. bin_active \in 0..BinSize /\ BinSize \in Nat
    BY ScanAssumption DEF ScanTypes, PolicyTypes
  <2> QED BY <2>1
<1> HIDE DEF active
<1>2. CASE Drain /\ bin_active' = active
  BY <1>1, <1>2, DrainIs
<1>3. CASE /\ NoDrain(NoReads)
           /\ \E i \in allowed :
                /\ ServeRead(allowed, i)
                /\ bin_active' = active + (IF RowHit(read_queue[i]) THEN 1 ELSE 0)
  <2>1. PICK i \in allowed :
          /\ ServeRead(allowed, i)
          /\ bin_active' = active + (IF RowHit(read_queue[i]) THEN 1 ELSE 0)
    BY <1>3
  <2>2. i \in Reads /\ (RowHit(read_queue[i]) => active < BinSize)
    OBVIOUS
  <2> HIDE DEF allowed
  <2>3. bin_active' \in 0..BinSize
    BY <1>1, <2>1, <2>2
  <2> QED BY <1>3, <2>1, <2>2, <2>3, ServeReadIs DEF Turn, NoDrain
<1>4. CASE NoDrain(NoReads) /\ NoneServed /\ bin_active' = active
  BY <1>1, <1>4, NoneServedIs DEF Turn, NoDrain
<1> QED BY <1>2, <1>3, <1>4 DEF schedule_camou, active

LEMMA ScheduleIs ==
  ASSUME ScanTypes, Schedule PROVE Turn /\ TurnTypes
BY frfcfsTurn, closepageTurn, btaTurn, prTurn, fsTurn, lpsTurn, tpTurn, camouTurn
   DEF Schedule

-----------------------------------------------------------------------------
(* The commands of the schedulers are commands of the channel. *)

LEMMA RequestOnChannel ==
  ASSUME NEW op, NEW q \in Request, issue_request_command(op, q)
  PROVE  /\ [ChannelNext]_channelVars
         /\ \/ Closed(q) /\ Activate(q.rank, q.bank, q.row)
            \/ RowHit(q) /\ Column(op, q)
            \/ RowConflict(q) /\ Precharge(q.rank, q.bank)
<1>1. q.rank \in Ranks /\ q.bank \in Banks /\ q.row \in Rows
  BY RequestType
<1>2. BankCommand(q.rank, q.bank)
  BY <1>1 DEF issue_request_command, Column, BankCommand
<1> QED BY <1>1, <1>2 DEF ChannelNext, issue_request_command

LEMMA TurnOnChannel ==
  ASSUME ScanTypes, Turn PROVE [ChannelNext]_channelVars
<1>1. ASSUME NEW i \in Reads, ReadTurn(i) PROVE [ChannelNext]_channelVars
  BY <1>1, ReadType, RequestOnChannel DEF ReadTurn
<1>2. ASSUME NEW i \in Writes, WriteTurn(i) PROVE [ChannelNext]_channelVars
  <2>1. write_queue[i] \in Request
    BY QueueTypes
  <2> QED BY <1>2, <2>1, RequestOnChannel DEF WriteTurn
<1>3. CASE CloseTurn
  <2>1. PICK r \in Ranks, b \in Banks : Precharge(r, b)
    BY <1>3 DEF CloseTurn
  <2> QED BY <2>1 DEF ChannelNext, BankCommand
<1>4. CASE IdleTurn
  BY <1>4 DEF IdleTurn, NoCommand
<1> QED BY <1>1, <1>2, <1>3, <1>4 DEF Turn

LEMMA ScanOnChannel ==
  ASSUME ScanTypes, [Next]_vars PROVE [ChannelNext]_channelVars
<1>1. CASE Schedule
  BY <1>1, ScheduleIs, TurnOnChannel
<1>2. CASE Fetch
  BY <1>2 DEF Fetch, Arrive
<1>3. CASE update_memory
  BY <1>3 DEF update_memory, NewCycle, ChannelNext
<1>4. CASE UNCHANGED vars
  BY <1>4 DEF vars, queueVars
<1> QED BY <1>1, <1>2, <1>3, <1>4 DEF Next

-----------------------------------------------------------------------------
(* Types. *)

\* The queues after a turn.
LEMMA InventedIs ==
  ASSUME ScanTypes, Invented
  PROVE  \E q \in Request : /\ q.core = runcore /\ q.fake /\ ~ q.served
                            /\ read_queue' = Append(read_queue, q)
<1>1. PICK q \in New : q.core = runcore
                       /\ read_queue' = Append(read_queue, [q EXCEPT !.fake = TRUE])
  BY DEF Invented
<1>2. [q EXCEPT !.fake = TRUE] \in Request
  BY DEF New, Request
<1>3. /\ [q EXCEPT !.fake = TRUE].core = q.core /\ [q EXCEPT !.fake = TRUE].fake
      /\ ~ [q EXCEPT !.fake = TRUE].served
  BY DEF New, Request
<1> QED BY <1>1, <1>2, <1>3

LEMMA ReadsKeptType ==
  ASSUME ScanTypes, ReadsKept PROVE read_queue' \in Seq(Request)
<1>1. CASE read_queue' = read_queue
  BY <1>1, QueueTypes
<1>2. CASE Invented
  <2>1. PICK q \in Request : read_queue' = Append(read_queue, q)
    BY <1>2, InventedIs
  <2> QED BY <2>1, QueueTypes
<1> QED BY <1>1, <1>2 DEF ReadsKept

LEMMA TurnQueues ==
  ASSUME ScanTypes, Turn
  PROVE  /\ read_queue' \in Seq(Request) /\ write_queue' \in Seq(Request)
         /\ Len(write_queue') = Len(write_queue)
<1>1. ASSUME NEW i \in Reads, ReadTurn(i)
      PROVE  /\ read_queue' \in Seq(Request) /\ write_queue' \in Seq(Request)
             /\ Len(write_queue') = Len(write_queue)
  <2>1. Commanded(read_queue[i]) \in Request
    BY ReadType, RequestType
  <2> QED BY <1>1, <2>1, QueueTypes DEF ReadTurn
<1>2. ASSUME NEW i \in Writes, WriteTurn(i)
      PROVE  /\ read_queue' \in Seq(Request) /\ write_queue' \in Seq(Request)
             /\ Len(write_queue') = Len(write_queue)
  <2>1. Commanded(write_queue[i]) \in Request
    BY QueueTypes, RequestType
  <2> QED BY <1>2, <2>1, QueueTypes, ReadsKeptType DEF WriteTurn
<1>3. CASE CloseTurn \/ IdleTurn
  BY <1>3, QueueTypes, ReadsKeptType DEF CloseTurn, IdleTurn
<1> QED BY <1>1, <1>2, <1>3 DEF Turn

LEMMA ArriveIs ==
  ASSUME ScanTypes, NEW C \in SUBSET Cores, Arrive(C)
  PROVE  /\ \/ read_queue' = read_queue
            \/ \E q \in New : q.core \in C /\ read_queue' = Append(read_queue, q)
         /\ \/ write_queue' = write_queue
            \/ \E w \in New : write_queue' = Append(write_queue, w)
         /\ Len(write_queue) < WQ_CAPACITY /\ Len(read_queue) < RQ_CAPACITY
         /\ fetches' \in 0..MaxFetches /\ turn = "fetch"
<1>1. fetches' \in 0..MaxFetches
  <2>1. fetches \in 0..MaxFetches /\ MaxFetches \in Nat /\ fetches < MaxFetches
        /\ fetches' = fetches + 1
    BY QueuesAssumption DEF ScanTypes, QueuesTypeOK, Arrive
  <2> QED BY <2>1
<1> QED BY <1>1 DEF Arrive, QueueRoom

LEMMA ScanTypesStep ==
  ASSUME ScanTypes, [Next]_vars PROVE ScanTypes'
<1>1. ChannelTypeOK'
  BY ScanOnChannel, TypesKept DEF ScanTypes, QueuesTypeOK
<1>2. CASE Schedule
  <2>1. Turn /\ TurnTypes
    BY <1>2, ScheduleIs
  <2>2. QueuesTypeOK'
    BY <1>1, <1>2, <2>1, TurnQueues DEF Turn, Schedule, QueuesTypeOK, ScanTypes
  <2>3. pageRead' \in [Ranks -> [Banks -> BOOLEAN]]
    <3>1. \A r \in Ranks, b \in Banks :
            (cas_issued'[r][b] = 1 \/ (pageRead[r][b] /\ ~ Activated(r, b))) \in BOOLEAN
      OBVIOUS
    <3>2. pageRead' = [r \in Ranks |-> [b \in Banks |->
             \/ cas_issued'[r][b] = 1
             \/ pageRead[r][b] /\ ~ Activated(r, b)]]
      BY <1>2 DEF Schedule
    <3> QED BY <3>1, <3>2
  <2>4. PolicyTypes'
    BY <1>2, <2>1, <2>3 DEF TurnTypes, Schedule, ScanTypes, PolicyTypes
  <2> QED BY <2>2, <2>4 DEF ScanTypes
<1>3. CASE Fetch
  <2>1. PICK C \in SUBSET Cores : Arrive(C)
    <3>1. {0} \in SUBSET Cores
      BY QueuesAssumption DEF Cores
    <3> QED BY <1>3, <3>1 DEF Fetch
  <2>2. read_queue' \in Seq(Request) /\ write_queue' \in Seq(Request)
    <3>1. New \subseteq Request
      BY DEF New
    <3>2. \A s \in Seq(Request), q \in New : Append(s, q) \in Seq(Request)
      BY <3>1
    <3>3. /\ read_queue' = read_queue \/ \E q \in New : read_queue' = Append(read_queue, q)
          /\ write_queue' = write_queue \/ \E w \in New : write_queue' = Append(write_queue, w)
      BY <2>1, ArriveIs
    <3> QED BY <3>2, <3>3, QueueTypes
  <2>3. QueuesTypeOK'
    BY <1>1, <2>1, <2>2, ArriveIs DEF Arrive, QueuesTypeOK, ScanTypes
  <2>4. PolicyTypes'
    BY <1>3 DEF Fetch, policyVars, pageVars, turnVars, ScanTypes, PolicyTypes
  <2> QED BY <2>3, <2>4 DEF ScanTypes
<1>4. CASE update_memory
  <2>1. read_queue' \in Seq(Request) /\ write_queue' \in Seq(Request)
    BY <1>4, QueueTypes, UnservedType DEF update_memory, NewCycle
  <2>2. QueuesTypeOK'
    BY <1>1, <1>4, <2>1 DEF update_memory, NewCycle, QueuesTypeOK, ScanTypes
  <2>3. time_diff' \in [Ranks -> [Banks -> [Commands -> 0..Gap]]]
    <3>1. \A n \in 0..Gap : Down(n) \in 0..Gap
      BY ScanAssumption DEF Down
    <3>2. \A r \in Ranks, b \in Banks, c \in Commands : time_diff[r][b][c] \in 0..Gap
      BY DEF ScanTypes, PolicyTypes
    <3>3. time_diff' = [r \in Ranks |-> [b \in Banks |->
             [c \in Commands |-> Down(time_diff[r][b][c])]]]
      BY <1>4 DEF update_memory
    <3> QED BY <3>1, <3>2, <3>3
  <2>4. slot' \in -1..Later(SlotLps, SlotTp)
    <3>1. slot \in -1..Later(SlotLps, SlotTp) /\ slot' = IF slot < 0 THEN slot ELSE slot - 1
      BY <1>4 DEF update_memory, ScanTypes, PolicyTypes
    <3> QED BY <3>1, SlotTypes
  <2>5. cycle' \in 0..(Cycle - 1)
    <3>1. Cycle \in Nat \ {0} /\ cycle \in 0..(Cycle - 1) /\ cycle' = (cycle + 1) % Cycle
      BY <1>4, ScanAssumption DEF update_memory, ScanTypes, PolicyTypes
    <3> QED BY <3>1
  <2>6. PolicyTypes'
    BY <1>4, <2>3, <2>4, <2>5 DEF update_memory, pageVars, ScanTypes, PolicyTypes
  <2> QED BY <2>2, <2>6 DEF ScanTypes
<1>5. CASE UNCHANGED vars
  <2>1. QueuesTypeOK'
    BY <1>1, <1>5 DEF vars, queueVars, queues, QueuesTypeOK, ScanTypes
  <2>2. PolicyTypes'
    BY <1>5 DEF vars, policyVars, pageVars, turnVars, PolicyTypes, ScanTypes
  <2> QED BY <2>1, <2>2 DEF ScanTypes
<1> QED BY <1>2, <1>3, <1>4, <1>5 DEF Next

LEMMA InitialScanTypes ==
  ASSUME Init PROVE ScanTypes
<1>1. ChannelTypeOK
  BY InitialTypes DEF Init, QueuesInit
<1>2. QueuesTypeOK
  <2>1. <<>> \in Seq(Request) /\ 0 \in 0..MaxFetches
    BY QueuesAssumption
  <2> QED BY <1>1, <2>1 DEF Init, QueuesInit, QueuesTypeOK
<1>3. 0 \in 0..Gap /\ Gap \in 0..Gap /\ 0 \in 0..BinSize /\ 0 \in 0..(Cycle - 1) /\ 0 \in Cores
      /\ 0 \in -1..Later(SlotLps, SlotTp)
  BY ScanAssumption, QueuesAssumption, SlotTypes DEF Cores
<1>4. PolicyTypes
  BY <1>3 DEF Init, PolicyTypes, PerBank
<1> QED BY <1>2, <1>4 DEF ScanTypes

THEOREM ScanTypesKept == Spec => []ScanTypes
BY InitialScanTypes, ScanTypesStep, PTL DEF Spec

\* Each of the schedulers drives the channel through its commands only, so that all that
\* is proved of the channel holds under it: refresh windows, open rows, activations and
\* the data bus.
THEOREM ScanDrivesChannel == Spec => ChannelSafety
<1>1. Init => ChannelInit
  BY DEF Init, QueuesInit
<1>2. ScanTypes /\ [Next]_vars => [ChannelNext]_channelVars
  BY ScanOnChannel
<1> QED BY <1>1, <1>2, ScanTypesKept, PTL DEF Spec, ChannelSafety

-----------------------------------------------------------------------------
(* The read queue: its real and its invented requests. *)

Real(s) == {i \in 1..Len(s) : ~ s[i].fake}
Fakes(s) == {i \in 1..Len(s) : s[i].fake}

\* Invented reads belong to different cores, since fs only invents one for a core that
\* has none, and only fs does.
FakesApart(s) ==
  \A i, j \in 1..Len(s) : s[i].fake /\ s[j].fake /\ i # j => s[i].core # s[j].core

\* Nobody invents a read when the queue is full of reads that arrived.
RealFit(s) == Cardinality(Real(s)) <= RQ_CAPACITY

\* A turn serves one read, and the served one is gone before the next turn.
OneServed(s) == \A i, j \in 1..Len(s) : s[i].served /\ s[j].served => i = j
SomeServed(s) == \E i \in 1..Len(s) : s[i].served

ReadsBounded ==
  /\ FakesApart(read_queue) /\ RealFit(read_queue)
  /\ scheduler # "fs" => Fakes(read_queue) = {}
  /\ OneServed(read_queue)
  /\ turn = "schedule" => ~ SomeServed(read_queue)

LEMMA RealType ==
  ASSUME NEW s \in Seq(Request)
  PROVE  /\ IsFiniteSet(Real(s)) /\ IsFiniteSet(Fakes(s))
         /\ Cardinality(Real(s)) \in Nat /\ Cardinality(Fakes(s)) \in Nat
         /\ Len(s) = Cardinality(Real(s)) + Cardinality(Fakes(s))
<1>1. Len(s) \in Nat /\ 1 \in Int /\ Len(s) \in Int
  OBVIOUS
<1>2. IsFiniteSet(1..Len(s)) /\ Cardinality(1..Len(s)) = Len(s)
  <2>1. /\ IsFiniteSet(1..Len(s))
        /\ Cardinality(1..Len(s)) = IF 1 > Len(s) THEN 0 ELSE Len(s) - 1 + 1
    BY <1>1, FS_Interval
  <2> QED BY <1>1, <2>1
<1>3. Real(s) \in SUBSET (1..Len(s)) /\ Fakes(s) \in SUBSET (1..Len(s))
  BY DEF Real, Fakes
<1>4. IsFiniteSet(Real(s)) /\ IsFiniteSet(Fakes(s))
  BY <1>2, <1>3, FS_Subset
<1>5. Cardinality(Real(s)) \in Nat /\ Cardinality(Fakes(s)) \in Nat
  BY <1>4, FS_CardinalityType
<1>6. Real(s) \cup Fakes(s) = 1..Len(s) /\ Real(s) \cap Fakes(s) = {}
  BY DEF Real, Fakes
<1>7. /\ Cardinality(Real(s) \cup Fakes(s))
           = Cardinality(Real(s)) + Cardinality(Fakes(s)) - Cardinality(Real(s) \cap Fakes(s))
  BY <1>4, FS_Union
<1>8. Cardinality(Real(s) \cap Fakes(s)) = 0
  BY <1>6, FS_EmptySet
<1>9. Cardinality(Real(s) \cup Fakes(s)) = Len(s)
  BY <1>2, <1>6
<1>10. \A x, y \in Nat : \A z, n : z = 0 /\ n = x + y - z => n = x + y
  OBVIOUS
<1>11. Len(s) = Cardinality(Real(s)) + Cardinality(Fakes(s))
  BY <1>5, <1>7, <1>8, <1>9, <1>10
<1> QED BY <1>4, <1>5, <1>11

\* With a fake read of each core at most, the queue is not longer than that.
LEMMA ReadsFit ==
  ASSUME NEW s \in Seq(Request), FakesApart(s), RealFit(s)
  PROVE  Len(s) <= RQ_CAPACITY + (IF Fakes(s) = {} THEN 0 ELSE NUMCORES)
<1>1. NUMCORES \in Nat \ {0} /\ RQ_CAPACITY \in Nat
  BY QueuesAssumption
<1>2. IsFiniteSet(Cores) /\ Cardinality(Cores) = NUMCORES
  <2>1. 0 \in Int /\ NUMCORES - 1 \in Int
    BY <1>1
  <2>2. /\ IsFiniteSet(0..(NUMCORES - 1))
        /\ Cardinality(0..(NUMCORES - 1))
             = IF 0 > NUMCORES - 1 THEN 0 ELSE NUMCORES - 1 - 0 + 1
    BY <2>1, FS_Interval
  <2> QED BY <1>1, <2>2 DEF Cores
<1> DEFINE f == [i \in Fakes(s) |-> s[i].core]
<1>3. f \in Injection(Fakes(s), Cores)
  <2>1. \A i \in Fakes(s) : s[i] \in Request /\ s[i].core \in Cores
    BY RequestType DEF Fakes
  <2>2. f \in [Fakes(s) -> Cores]
    BY <2>1
  <2>3. \A i, j \in Fakes(s) : f[i] = f[j] => i = j
    BY DEF Fakes, FakesApart
  <2> QED BY <2>2, <2>3 DEF Injection, IsInjective
<1>4. Cardinality(Fakes(s)) <= NUMCORES
  <2> HIDE DEF f
  <2> QED BY <1>2, <1>3, FS_Injection
<1>5. Fakes(s) = {} => Cardinality(Fakes(s)) = 0
  BY FS_EmptySet
<1> QED BY <1>1, <1>4, <1>5, RealType DEF RealFit

\* A command changes neither the core of a read nor whether it is real.
AfterCommand(s, i, t) ==
  /\ t \in Seq(Request) /\ Len(t) = Len(s)
  /\ \A j \in 1..Len(s) :
       /\ t[j].fake = s[j].fake /\ t[j].core = s[j].core
       /\ t[j].served = IF j = i THEN RowHit(s[i]) ELSE s[j].served
  /\ Real(t) = Real(s) /\ Fakes(t) = Fakes(s)

LEMMA CommandedBounds ==
  ASSUME NEW s \in Seq(Request), NEW i \in 1..Len(s)
  PROVE  AfterCommand(s, i, [s EXCEPT ![i] = Commanded(@)])
<1>0. PICK t : t = [s EXCEPT ![i] = Commanded(@)]
  OBVIOUS
<1>1. s[i] \in Request
  OBVIOUS
<1>2. Commanded(s[i]) \in Request
  BY <1>1, RequestType
<1>3. t \in Seq(Request) /\ Len(t) = Len(s)
      /\ \A j \in 1..Len(s) : t[j] = IF j = i THEN Commanded(s[i]) ELSE s[j]
  BY <1>0, <1>2
<1>4. \A j \in 1..Len(s) :
        /\ t[j].fake = s[j].fake /\ t[j].core = s[j].core
        /\ t[j].served = IF j = i THEN RowHit(s[i]) ELSE s[j].served
  BY <1>1, <1>3, RequestType
<1> QED BY <1>0, <1>3, <1>4 DEF AfterCommand, Real, Fakes

\* One more real or one more invented read.
AfterAppend(s, q, t) ==
  /\ t \in Seq(Request) /\ Len(t) = Len(s) + 1 /\ t[Len(s) + 1] = q
  /\ \A j \in 1..Len(s) : t[j] = s[j]
  /\ \A j \in 1..Len(t) : j \in 1..Len(s) \/ j = Len(s) + 1
  /\ Cardinality(Real(t)) <= Cardinality(Real(s)) + (IF q.fake THEN 0 ELSE 1)
  /\ Fakes(t) # {} => q.fake \/ Fakes(s) # {}

LEMMA AppendedBounds ==
  ASSUME NEW s \in Seq(Request), NEW q \in Request
  PROVE  AfterAppend(s, q, Append(s, q))
<1>0. PICK t : t = Append(s, q)
  OBVIOUS
<1>1. /\ t \in Seq(Request) /\ Len(t) = Len(s) + 1 /\ t[Len(s) + 1] = q
      /\ \A j \in 1..Len(s) : t[j] = s[j]
  BY <1>0
<1>2. /\ Len(s) \in Nat
      /\ \A j \in 1..Len(t) : j \in 1..Len(s) \/ j = Len(s) + 1
      /\ \A j \in 1..Len(s) : j \in 1..Len(t)
  BY <1>1
<1>3. Real(t) \subseteq IF q.fake THEN Real(s) ELSE Real(s) \cup {Len(s) + 1}
  BY <1>1, <1>2 DEF Real
<1>4. /\ IsFiniteSet(Real(s)) /\ Cardinality(Real(s)) \in Nat
      /\ IsFiniteSet(Real(t)) /\ Cardinality(Real(t)) \in Nat
  BY <1>1, RealType
<1>5. /\ IsFiniteSet(Real(s) \cup {Len(s) + 1})
      /\ Cardinality(Real(s) \cup {Len(s) + 1}) \in Nat
      /\ Cardinality(Real(s) \cup {Len(s) + 1}) <= Cardinality(Real(s)) + 1
  <2>1. /\ IsFiniteSet(Real(s) \cup {Len(s) + 1})
        /\ Cardinality(Real(s) \cup {Len(s) + 1}) =
             IF Len(s) + 1 \in Real(s) THEN Cardinality(Real(s)) ELSE Cardinality(Real(s)) + 1
    BY <1>4, FS_AddElement
  <2> QED BY <1>4, <2>1
<1>6. CASE q.fake
  <2>1. Cardinality(Real(t)) <= Cardinality(Real(s))
    BY <1>3, <1>4, <1>6, FS_Subset
  <2> QED BY <1>0, <1>1, <1>2, <1>4, <1>6, <2>1 DEF AfterAppend, Fakes
<1>7. CASE ~ q.fake
  <2>1. Cardinality(Real(t)) <= Cardinality(Real(s) \cup {Len(s) + 1})
    BY <1>3, <1>5, <1>7, FS_Subset
  <2>2. Cardinality(Real(t)) <= Cardinality(Real(s)) + 1
    BY <1>4, <1>5, <2>1
  <2>3. Fakes(t) # {} => Fakes(s) # {}
    BY <1>1, <1>2, <1>7 DEF Fakes
  <2> QED BY <1>0, <1>1, <1>2, <1>7, <2>2, <2>3 DEF AfterAppend
<1> QED BY <1>6, <1>7

LEMMA UnservedBounds ==
  ASSUME NEW s \in Seq(Request), FakesApart(s), RealFit(s)
  PROVE  /\ FakesApart(Unserved(s)) /\ RealFit(Unserved(s))
         /\ Fakes(s) = {} => Fakes(Unserved(s)) = {}
         /\ ~ SomeServed(Unserved(s))
<1> DEFINE t == Unserved(s)
<1>1. PICK g \in [1..Len(t) -> 1..Len(s)] :
        /\ \A i \in 1..Len(t) : t[i] = s[g[i]] /\ ~ s[g[i]].served
        /\ \A i, j \in 1..Len(t) : i # j => g[i] # g[j]
  BY UnservedFrom
<1>2. t \in Seq(Request)
  BY UnservedType
<1> HIDE DEF t
<1>3. FakesApart(t)
  BY <1>1 DEF FakesApart
<1>4. ~ SomeServed(t)
  BY <1>1 DEF SomeServed
<1>5. Fakes(s) = {} => Fakes(t) = {}
  BY <1>1 DEF Fakes
<1>6. RealFit(t)
  <2> DEFINE f == [i \in Real(t) |-> g[i]]
  <2>1. \A i \in Real(t) : g[i] \in Real(s) /\ i \in 1..Len(t)
    BY <1>1 DEF Real
  <2>2. f \in [Real(t) -> Real(s)]
    BY <2>1
  <2>3. \A i, j \in Real(t) : f[i] = f[j] => i = j
    BY <1>1, <2>1
  <2>4. f \in Injection(Real(t), Real(s))
    BY <2>2, <2>3 DEF Injection, IsInjective
  <2> HIDE DEF f
  <2>5. IsFiniteSet(Real(s)) /\ Cardinality(Real(s)) \in Nat /\ Cardinality(Real(t)) \in Nat
    BY <1>2, RealType
  <2>6. Cardinality(Real(t)) <= Cardinality(Real(s))
    BY <2>4, <2>5, FS_Injection
  <2>7. RQ_CAPACITY \in Nat
    BY QueuesAssumption
  <2> QED BY <2>5, <2>6, <2>7 DEF RealFit
<1> QED BY <1>3, <1>4, <1>5, <1>6 DEF t

\* What a step does to the read queue.
LEMMA ReadsStep ==
  ASSUME ScanTypes, [Next]_vars
  PROVE  /\ scheduler' = scheduler
         /\ \/ read_queue' = read_queue /\ turn' \in {turn, "fetch"}
            \/ \E i \in Reads : ReadTurn(i) /\ turn = "schedule" /\ turn' = "fetch"
            \/ Invented /\ turn = "schedule" /\ turn' = "fetch"
            \/ \E q \in New : /\ read_queue' = Append(read_queue, q)
                              /\ Len(read_queue) < RQ_CAPACITY
                              /\ turn = "fetch" /\ turn' = "fetch"
            \/ read_queue' = Unserved(read_queue) /\ turn = "fetch" /\ turn' = "schedule"
<1>1. CASE Schedule
  <2>1. Turn /\ scheduler' = scheduler /\ turn = "schedule" /\ turn' = "fetch"
    BY <1>1, ScheduleIs DEF Schedule
  <2>2. (\E i \in Reads : ReadTurn(i)) \/ ReadsKept
    BY <2>1 DEF Turn, WriteTurn, CloseTurn, IdleTurn
  <2> QED BY <2>1, <2>2 DEF ReadsKept
<1>2. CASE Fetch
  <2>1. PICK C \in SUBSET Cores : Arrive(C)
    <3>1. {0} \in SUBSET Cores
      BY QueuesAssumption DEF Cores
    <3> QED BY <1>2, <3>1 DEF Fetch
  <2>2. scheduler' = scheduler /\ turn = "fetch" /\ turn' = "fetch"
    BY <1>2, <2>1 DEF Fetch, Arrive
  <2> QED BY <2>1, <2>2, ArriveIs
<1>3. CASE update_memory
  BY <1>3 DEF update_memory, NewCycle
<1>4. CASE UNCHANGED vars
  BY <1>4 DEF vars, queueVars, queues
<1> QED BY <1>1, <1>2, <1>3, <1>4 DEF Next

LEMMA ReadsBoundedStep ==
  ASSUME ScanTypes, ReadsBounded, [Next]_vars PROVE ReadsBounded'
<1>0. PICK s, t : s = read_queue /\ t = read_queue'
  OBVIOUS
<1>1. s \in Seq(Request) /\ Reads = 1..Len(s) /\ RQ_CAPACITY \in Nat /\ Len(s) \in Nat
  BY <1>0, QueueTypes, QueuesAssumption
<1>2. scheduler' = scheduler
  BY ReadsStep
<1> SUFFICES /\ FakesApart(t) /\ RealFit(t)
             /\ scheduler # "fs" => Fakes(t) = {}
             /\ OneServed(t) /\ (turn' = "schedule" => ~ SomeServed(t))
  BY <1>0, <1>2 DEF ReadsBounded, FakesApart, RealFit, Real, Fakes, OneServed, SomeServed
<1>3. CASE read_queue' = read_queue /\ turn' \in {turn, "fetch"}
  BY <1>0, <1>3 DEF ReadsBounded
<1>4. CASE \E i \in Reads : ReadTurn(i) /\ turn = "schedule" /\ turn' = "fetch"
  <2>1. PICK i \in 1..Len(s) : t = [s EXCEPT ![i] = Commanded(@)]
                               /\ turn = "schedule" /\ turn' = "fetch"
    BY <1>0, <1>1, <1>4 DEF ReadTurn
  <2>2. AfterCommand(s, i, t)
    BY <1>1, <2>1, CommandedBounds
  <2>3. OneServed(t)
    BY <1>0, <2>1, <2>2 DEF AfterCommand, ReadsBounded, SomeServed, OneServed
  <2>4. FakesApart(t) /\ RealFit(t)
    BY <1>0, <2>2 DEF AfterCommand, ReadsBounded, FakesApart, RealFit
  <2> QED BY <1>0, <2>1, <2>2, <2>3, <2>4 DEF AfterCommand, ReadsBounded
<1>5. CASE Invented /\ turn = "schedule" /\ turn' = "fetch"
  <2>1. PICK q \in Request : q.core = runcore /\ q.fake /\ ~ q.served /\ t = Append(s, q)
    BY <1>0, <1>5, InventedIs
  <2>2. /\ Len(t) = Len(s) + 1 /\ t[Len(s) + 1] = q
        /\ \A j \in 1..Len(s) : t[j] = s[j]
        /\ \A j \in 1..Len(t) : j \in 1..Len(s) \/ j = Len(s) + 1
        /\ Cardinality(Real(t)) <= Cardinality(Real(s)) /\ t \in Seq(Request)
    <3>1. AfterAppend(s, q, t)
      BY <1>1, <2>1, AppendedBounds
    <3>2. Cardinality(Real(s)) \in Nat
      BY <1>1, RealType
    <3> QED BY <2>1, <3>1, <3>2 DEF AfterAppend
  <2>3. FakesApart(t)
    <3>1. \A j \in 1..Len(s) : s[j].core # q.core
      BY <1>0, <1>1, <1>5, <2>1 DEF Invented, Of
    <3> QED BY <1>0, <2>2, <3>1 DEF FakesApart, ReadsBounded
  <2>4. RealFit(t)
    <3>1. Cardinality(Real(s)) \in Nat /\ Cardinality(Real(t)) \in Nat
      BY <1>1, <2>2, RealType
    <3> QED BY <1>0, <1>1, <2>2, <3>1 DEF RealFit, ReadsBounded
  <2>5. ~ SomeServed(t)
    BY <1>0, <1>5, <2>1, <2>2 DEF SomeServed, ReadsBounded
  <2>6. scheduler = "fs"
    BY <1>5 DEF Invented
  <2> QED BY <2>3, <2>4, <2>5, <2>6 DEF OneServed, SomeServed
<1>6. CASE \E q \in New : /\ read_queue' = Append(read_queue, q)
                          /\ Len(read_queue) < RQ_CAPACITY
                          /\ turn = "fetch" /\ turn' = "fetch"
  <2>1. PICK q \in Request : /\ ~ q.fake /\ ~ q.served /\ t = Append(s, q)
                             /\ Len(s) < RQ_CAPACITY /\ turn' = "fetch"
    BY <1>0, <1>6 DEF New
  <2>2. AfterAppend(s, q, t)
    BY <1>1, <2>1, AppendedBounds
  <2>3. FakesApart(t) /\ OneServed(t)
    BY <1>0, <2>1, <2>2 DEF AfterAppend, FakesApart, OneServed, ReadsBounded
  <2>4. RealFit(t)
    <3>1. /\ Cardinality(Real(s)) \in Nat /\ Cardinality(Real(t)) \in Nat
          /\ Cardinality(Fakes(s)) \in Nat
          /\ Len(s) = Cardinality(Real(s)) + Cardinality(Fakes(s))
      BY <1>1, <2>2, RealType DEF AfterAppend
    <3>2. Cardinality(Real(t)) <= Cardinality(Real(s)) + 1
      BY <2>1, <2>2, <3>1 DEF AfterAppend
    <3> QED BY <1>1, <2>1, <3>1, <3>2 DEF RealFit
  <2> QED BY <1>0, <2>1, <2>2, <2>3, <2>4 DEF AfterAppend, ReadsBounded
<1>7. CASE read_queue' = Unserved(read_queue) /\ turn = "fetch" /\ turn' = "schedule"
  <2>1. t = Unserved(s) /\ FakesApart(s) /\ RealFit(s)
    BY <1>0, <1>7 DEF ReadsBounded
  <2>2. /\ FakesApart(t) /\ RealFit(t) /\ ~ SomeServed(t)
        /\ Fakes(s) = {} => Fakes(t) = {}
    BY <1>1, <2>1, UnservedBounds
  <2> QED BY <1>0, <2>2 DEF ReadsBounded, OneServed, SomeServed
<1> QED BY <1>3, <1>4, <1>5, <1>6, <1>7, ReadsStep

\* The sandbox of pr counts reads that are still in the queue; a read that is served
\* leaves the count at once and the queue in the next cycle.
SandboxFits ==
  IF scheduler = "pr"
  THEN sandbox.left + (IF SomeServed(read_queue) THEN 1 ELSE 0) <= Len(read_queue)
  ELSE sandbox.left = 0

LEMMA SandboxStep ==
  ASSUME ScanTypes, ReadsBounded, SandboxFits, [Next]_vars PROVE SandboxFits'
<1>0. PICK s, t : s = read_queue /\ t = read_queue'
  OBVIOUS
<1>1. /\ s \in Seq(Request) /\ t \in Seq(Request) /\ Reads = 1..Len(s)
      /\ Len(s) \in Nat /\ Len(t) \in Nat
      /\ sandbox.left \in Nat /\ Opened \in Nat
      /\ sandbox.left <= Len(s) => Opened <= Len(s)
  <2>1. t \in Seq(Request)
    BY <1>0, ScanTypesStep DEF ScanTypes, QueuesTypeOK
  <2>2. sandbox.left \in Nat
    BY DEF ScanTypes, PolicyTypes
  <2> QED BY <1>0, <2>1, <2>2, QueueTypes, OpenedType
<1>2. scheduler' = scheduler
  BY ReadsStep
<1>3. CASE scheduler # "pr"
  <2>1. sandbox' = sandbox
    <3>1. CASE Schedule
      BY <1>3, <3>1 DEF Schedule, schedule_frfcfs, schedule_closepage, schedule_bta,
         schedule_fs, schedule_lps, schedule_tp, schedule_camou
    <3>2. CASE Fetch
      BY <3>2 DEF Fetch, policyVars
    <3>3. CASE update_memory
      BY <3>3 DEF update_memory
    <3>4. CASE UNCHANGED vars
      BY <3>4 DEF vars, policyVars
    <3> QED BY <3>1, <3>2, <3>3, <3>4 DEF Next
  <2> QED BY <1>2, <1>3, <2>1 DEF SandboxFits
<1>4. CASE scheduler = "pr"
  <2> DEFINE left == sandbox.left
             nleft == sandbox'.left
             size(u) == IF SomeServed(u) THEN 1 ELSE 0
  <2>1. left + size(s) <= Len(s)
    BY <1>0, <1>4 DEF SandboxFits
  <2> SUFFICES nleft + size(t) <= Len(t)
    BY <1>0, <1>2, <1>4 DEF SandboxFits, SomeServed
  <2> HIDE DEF left, nleft
  <2>2. CASE Schedule
    <3>1. ~ SomeServed(s)
      BY <1>0, <2>2 DEF ReadsBounded, Schedule
    <3>2. left <= Len(s) /\ Opened <= Len(s)
      BY <1>1, <2>1, <3>1 DEF left
    <3>3. \/ \E i \in Reads : ReadTurn(i) /\ i \in 1..Opened
               /\ nleft = IF RowHit(read_queue[i]) THEN Opened - 1 ELSE Opened
          \/ UNCHANGED read_queue /\ nleft \in {left, Opened}
      BY <1>4, <2>2, prTurn DEF Schedule, left, nleft
    <3>4. CASE UNCHANGED read_queue /\ nleft \in {left, Opened}
      <4>1. t = s
        BY <1>0, <3>4
      <4> QED BY <1>1, <3>1, <3>2, <3>4, <4>1 DEF left
    <3>5. CASE \E i \in Reads : ReadTurn(i) /\ i \in 1..Opened
               /\ nleft = IF RowHit(read_queue[i]) THEN Opened - 1 ELSE Opened
      <4>1. PICK i \in 1..Len(s) : /\ t = [s EXCEPT ![i] = Commanded(@)]
                                   /\ nleft = IF RowHit(s[i]) THEN Opened - 1 ELSE Opened
        BY <1>0, <1>1, <3>5 DEF ReadTurn
      <4>2. AfterCommand(s, i, t)
        BY <1>1, <4>1, CommandedBounds
      <4>3. ~ RowHit(s[i]) => ~ SomeServed(t)
        BY <3>1, <4>2 DEF AfterCommand, SomeServed
      <4>4. Len(t) = Len(s)
        BY <4>2 DEF AfterCommand
      <4> QED BY <1>1, <3>2, <4>1, <4>3, <4>4
    <3> QED BY <3>3, <3>4, <3>5
  <2>3. CASE Fetch
    <3>1. nleft = left
      BY <2>3 DEF Fetch, policyVars, left, nleft
    <3>2. PICK C \in SUBSET Cores : Arrive(C)
      <4>1. {0} \in SUBSET Cores
        BY QueuesAssumption DEF Cores
      <4> QED BY <2>3, <4>1 DEF Fetch
    <3>3. t = s \/ \E q \in Request : ~ q.served /\ t = Append(s, q)
      BY <1>0, <3>2, ArriveIs DEF New
    <3>4. ASSUME NEW q \in Request, ~ q.served, t = Append(s, q)
          PROVE  Len(t) = Len(s) + 1 /\ (SomeServed(t) => SomeServed(s))
      <4>1. AfterAppend(s, q, t)
        BY <1>1, <3>4, AppendedBounds
      <4> QED BY <3>4, <4>1 DEF AfterAppend, SomeServed
    <3>5. Len(t) >= Len(s) /\ (SomeServed(t) => SomeServed(s))
      BY <1>1, <3>3, <3>4
    <3> QED BY <1>1, <2>1, <3>1, <3>5 DEF left
  <2>4. CASE update_memory
    <3>1. nleft = left /\ t = Unserved(s)
      BY <1>0, <2>4 DEF update_memory, NewCycle, left, nleft
    <3>2. Len(t) = IF SomeServed(s) THEN Len(s) - 1 ELSE Len(s)
      <4>1. \A i, j \in 1..Len(s) : s[i].served /\ s[j].served => i = j
        BY <1>0 DEF ReadsBounded, OneServed
      <4>2. Len(Unserved(s)) = IF \E i \in 1..Len(s) : s[i].served THEN Len(s) - 1 ELSE Len(s)
        BY <1>1, <4>1, UnservedCount
      <4> QED BY <3>1, <4>2 DEF SomeServed
    <3>3. ~ SomeServed(t)
      <4>1. FakesApart(s) /\ RealFit(s)
        BY <1>0 DEF ReadsBounded
      <4> QED BY <1>1, <3>1, <4>1, UnservedBounds
    <3> QED BY <1>1, <2>1, <3>1, <3>2, <3>3 DEF left
  <2>5. CASE UNCHANGED vars
    <3>1. nleft = left /\ t = s
      BY <1>0, <2>5 DEF vars, policyVars, queueVars, queues, left, nleft
    <3> QED BY <2>1, <3>1
  <2> QED BY <2>2, <2>3, <2>4, <2>5 DEF Next
<1> QED BY <1>3, <1>4

LEMMA WritesStep ==
  ASSUME ScanTypes, Len(write_queue) <= WQ_CAPACITY, [Next]_vars
  PROVE  Len(write_queue') <= WQ_CAPACITY
<1>1. /\ write_queue \in Seq(Request) /\ Len(write_queue) \in Nat /\ WQ_CAPACITY \in Nat
  BY QueueTypes, QueuesAssumption
<1>2. CASE Schedule
  BY <1>2, ScheduleIs, TurnQueues
<1>3. CASE Fetch
  <2>1. PICK C \in SUBSET Cores : Arrive(C)
    <3>1. {0} \in SUBSET Cores
      BY QueuesAssumption DEF Cores
    <3> QED BY <1>3, <3>1 DEF Fetch
  <2>2. /\ write_queue' = write_queue \/ \E w \in Request : write_queue' = Append(write_queue, w)
        /\ Len(write_queue) < WQ_CAPACITY
    BY <2>1, ArriveIs DEF New
  <2>3. \A w \in Request : Len(Append(write_queue, w)) = Len(write_queue) + 1
    BY <1>1
  <2> QED BY <1>1, <2>2, <2>3
<1>4. CASE update_memory
  <2>1. write_queue' = Unserved(write_queue)
    BY <1>4 DEF update_memory, NewCycle
  <2>2. /\ Len(Unserved(write_queue)) <= Len(write_queue)
        /\ Len(Unserved(write_queue)) \in Nat
    <3>1. /\ Len(Unserved(write_queue)) <= Len(write_queue)
          /\ Unserved(write_queue) \in Seq(Request)
      BY <1>1, UnservedType
    <3> QED BY <3>1
  <2> QED BY <1>1, <2>1, <2>2
<1>5. CASE UNCHANGED vars
  BY <1>5 DEF vars, queueVars, queues
<1> QED BY <1>2, <1>3, <1>4, <1>5 DEF Next

\* The inductive invariant of the queues.
QueueLimits ==
  ReadsBounded /\ SandboxFits /\ Len(write_queue) <= WQ_CAPACITY

LEMMA InitialLimits ==
  ASSUME Init PROVE QueueLimits
<1>1. /\ read_queue = <<>> /\ write_queue = <<>> /\ sandbox.left = 0
      /\ Len(<<>>) = 0
  BY DEF Init, QueuesInit
<1>2. RQ_CAPACITY \in Nat /\ WQ_CAPACITY \in Nat
  BY QueuesAssumption
<1>3. Real(<<>>) = {} /\ Fakes(<<>>) = {} /\ Cardinality({}) = 0
  BY FS_EmptySet DEF Real, Fakes
<1>4. ReadsBounded
  <2>1. FakesApart(<<>>) /\ OneServed(<<>>) /\ ~ SomeServed(<<>>)
    BY <1>1 DEF FakesApart, OneServed, SomeServed
  <2>2. RealFit(<<>>)
    BY <1>2, <1>3 DEF RealFit
  <2> QED BY <1>1, <1>3, <2>1, <2>2 DEF ReadsBounded
<1>5. SandboxFits
  BY <1>1 DEF SandboxFits, SomeServed
<1> QED BY <1>1, <1>2, <1>4, <1>5 DEF QueueLimits

LEMMA LimitsStep ==
  ASSUME ScanTypes, QueueLimits, [Next]_vars PROVE QueueLimits'
BY ReadsBoundedStep, SandboxStep, WritesStep DEF QueueLimits

LEMMA TypesFromLimits ==
  ASSUME ScanTypes, QueueLimits PROVE TypeOK
<1>1. /\ NUMCORES \in Nat /\ RQ_CAPACITY \in Nat /\ read_queue \in Seq(Request)
      /\ Len(read_queue) \in Nat
  BY QueuesAssumption, QueueTypes
<1>2. Len(read_queue) <= RQ_CAPACITY + (IF scheduler = "fs" THEN NUMCORES ELSE 0)
  <2>1. Len(read_queue) <= RQ_CAPACITY + (IF Fakes(read_queue) = {} THEN 0 ELSE NUMCORES)
    BY <1>1, ReadsFit DEF QueueLimits, ReadsBounded
  <2>2. scheduler # "fs" => Fakes(read_queue) = {}
    BY DEF QueueLimits, ReadsBounded
  <2> QED BY <1>1, <2>1, <2>2
<1>3. sandbox \in [left : 0..Len(read_queue), closing : BOOLEAN]
  <2>1. sandbox \in [left : Nat, closing : BOOLEAN]
    BY DEF ScanTypes, PolicyTypes
  <2>2. sandbox.left <= Len(read_queue)
    BY <1>1, <2>1 DEF QueueLimits, SandboxFits
  <2>3. sandbox.left \in 0..Len(read_queue)
    BY <1>1, <2>1, <2>2
  <2> QED BY <2>1, <2>3
<1>4. Len(write_queue) <= WQ_CAPACITY
  BY DEF QueueLimits
<1> QED BY <1>2, <1>3, <1>4 DEF TypeOK, ScanTypes, PolicyTypes

\* Under all of the schedulers the queues keep their limits, to which fs adds one read
\* of each core, and the sandbox of pr never counts more reads than there are.
THEOREM ScanTypesAndLimits == Spec => []TypeOK
<1>1. Init => QueueLimits
  BY InitialLimits
<1>2. ScanTypes /\ QueueLimits /\ [Next]_vars => QueueLimits'
  BY LimitsStep
<1>3. ScanTypes /\ QueueLimits => TypeOK
  BY TypesFromLimits
<1> QED BY <1>1, <1>2, <1>3, ScanTypesKept, PTL DEF Spec

-----------------------------------------------------------------------------
(* closepage and fs: a row is read once. *)

\* No column access of an earlier cycle is left when the scheduler begins.
FreshCycle ==
  turn = "schedule" => \A r \in Ranks, b \in Banks : cas_issued[r][b] = 0

\* A row that has been read and is still open is marked, and the wait has not ended.
PagesWait ==
  scheduler \in {"closepage", "fs"} =>
    \A r \in Ranks, b \in Banks :
      pageRead[r][b] /\ state[r][b] = "ROW_ACTIVE" => wait_time /\ recent_colacc[r][b]

LEMMA FreshStep ==
  ASSUME ScanTypes, FreshCycle, [Next]_vars PROVE FreshCycle'
<1>1. CASE Schedule
  BY <1>1 DEF Schedule, FreshCycle
<1>2. CASE Fetch
  BY <1>2 DEF Fetch, Arrive, FreshCycle
<1>3. CASE update_memory
  BY <1>3 DEF update_memory, NewCycle, Tick, PerBank, FreshCycle
<1>4. CASE UNCHANGED vars
  BY <1>4 DEF vars, queueVars, channelVars, FreshCycle
<1> QED BY <1>1, <1>2, <1>3, <1>4 DEF Next

\* What a command for a request does to the banks.
LEMMA RequestOnBanks ==
  ASSUME ScanTypes, ActCovered, NEW op \in {"READ", "WRITE"}, NEW q \in Request,
         issue_request_command(op, q)
  PROVE  /\ \A r \in Ranks, b \in Banks : r # q.rank \/ b # q.bank =>
              /\ state'[r][b] = state[r][b] /\ cas_issued'[r][b] = cas_issued[r][b]
         /\ \/ Closed(q) /\ Activated(q.rank, q.bank)
               /\ cas_issued'[q.rank][q.bank] = cas_issued[q.rank][q.bank]
            \/ /\ RowHit(q) /\ state'[q.rank][q.bank] = "ROW_ACTIVE"
               /\ cas_issued'[q.rank][q.bank] = IF op = "READ" THEN 1 ELSE 2
            \/ RowConflict(q) /\ state'[q.rank][q.bank] # "ROW_ACTIVE"
               /\ cas_issued'[q.rank][q.bank] = cas_issued[q.rank][q.bank]
<1>1. q.rank \in Ranks /\ q.bank \in Banks /\ q.row \in Rows
  BY RequestType
<1>2. /\ state \in [Ranks -> [Banks -> States]]
      /\ cas_issued \in [Ranks -> [Banks -> 0..2]]
      /\ sinceAct \in [Ranks -> [Banks -> 0..T_RC]]
  BY DEF ScanTypes, QueuesTypeOK, ChannelTypeOK
<1>3. CASE Closed(q) /\ Activate(q.rank, q.bank, q.row)
  <2>1. /\ state' = [state EXCEPT ![q.rank][q.bank] = "ROW_ACTIVE"]
        /\ sinceAct' = [sinceAct EXCEPT ![q.rank][q.bank] = 0]
        /\ cas_issued' = cas_issued
        /\ next[q.rank][q.bank].act = 0
    BY <1>3 DEF Activate, is_activate_allowed, Ready
  <2>2. sinceAct[q.rank][q.bank] # 0
    <3>1. next[q.rank][q.bank].act >= T_RC - sinceAct[q.rank][q.bank]
      BY <1>1 DEF ActCovered
    <3>2. sinceAct[q.rank][q.bank] \in Int
      BY <1>1, <1>2
    <3> QED BY <2>1, <3>1, <3>2, TimingTypes
  <2>3. sinceAct'[q.rank][q.bank] = 0
    BY <1>1, <1>2, <2>1
  <2> QED BY <1>1, <1>2, <1>3, <2>1, <2>2, <2>3 DEF Activated
<1>4. CASE RowHit(q) /\ Column(op, q)
  <2>1. /\ state' = state
        /\ cas_issued' = [cas_issued EXCEPT ![q.rank][q.bank] = IF op = "READ" THEN 1 ELSE 2]
    BY <1>4 DEF Column, Read, Write
  <2>2. state[q.rank][q.bank] = "ROW_ACTIVE"
    BY <1>4 DEF RowHit
  <2> QED BY <1>1, <1>2, <1>4, <2>1, <2>2
<1>5. CASE RowConflict(q) /\ Precharge(q.rank, q.bank)
  <2>1. /\ state' = [state EXCEPT ![q.rank][q.bank] = "PRECHARGING"]
        /\ cas_issued' = cas_issued
    BY <1>5 DEF Precharge
  <2> QED BY <1>1, <1>2, <1>5, <2>1
<1> QED BY <1>3, <1>4, <1>5 DEF issue_request_command

\* A turn reads a row only as ReadPage does, and otherwise keeps the marks of rows that
\* stay open.
LEMMA PageTurn ==
  ASSUME ScanTypes, ActCovered, FreshCycle, PagesWait, Schedule,
         scheduler \in {"closepage", "fs"}, NEW r \in Ranks, NEW b \in Banks
  PROVE  /\ cas_issued'[r][b] = 1 => ~ wait_time /\ state[r][b] = "ROW_ACTIVE"
         /\ pageRead'[r][b] /\ state'[r][b] = "ROW_ACTIVE" => wait_time' /\ recent_colacc'[r][b]
<1>0. /\ \A q \in Ranks, c \in Banks : cas_issued[q][c] = 0
      /\ pageRead'[r][b] = (\/ cas_issued'[r][b] = 1
                            \/ pageRead[r][b] /\ ~ Activated(r, b))
  BY DEF Schedule, FreshCycle
<1>1. pageRead[r][b] /\ state[r][b] = "ROW_ACTIVE" => wait_time /\ recent_colacc[r][b]
  BY DEF PagesWait
<1>2. recent_colacc \in [Ranks -> [Banks -> BOOLEAN]]
      /\ state \in [Ranks -> [Banks -> States]]
  BY DEF ScanTypes, PolicyTypes, QueuesTypeOK, ChannelTypeOK
<1>3. ASSUME NEW S, NEW i \in Reads, ReadPage(S, i)
      PROVE  /\ cas_issued'[r][b] = 1 => ~ wait_time /\ state[r][b] = "ROW_ACTIVE"
             /\ pageRead'[r][b] /\ state'[r][b] = "ROW_ACTIVE" => wait_time' /\ recent_colacc'[r][b]
  <2>1. PICK q \in Request : q = read_queue[i]
    BY ReadType
  <2>2. /\ ~ wait_time /\ wait_time' = RowHit(q) /\ issue_request_command("READ", q)
        /\ recent_colacc' = [recent_colacc EXCEPT ![q.rank][q.bank] = RowHit(q)]
    BY <1>3, <2>1, ServeReadIs DEF ReadPage, ReadTurn, Mark
  <2>3. q.rank \in Ranks /\ q.bank \in Banks
    BY RequestType
  <2>4. CASE r # q.rank \/ b # q.bank
    BY <1>0, <1>1, <2>2, <2>4, RequestOnBanks
  <2>5. CASE r = q.rank /\ b = q.bank
    <3>1. CASE Closed(q) /\ Activated(r, b) /\ cas_issued'[r][b] = cas_issued[r][b]
      BY <1>0, <3>1
    <3>2. CASE RowHit(q)
      <4>1. wait_time' /\ recent_colacc'[r][b] /\ state[r][b] = "ROW_ACTIVE"
        BY <1>2, <2>2, <2>5, <3>2 DEF RowHit
      <4> QED BY <2>2, <4>1
    <3>3. CASE state'[r][b] # "ROW_ACTIVE" /\ cas_issued'[r][b] = cas_issued[r][b]
      BY <1>0, <3>3
    <3> QED BY <2>2, <2>5, <3>1, <3>2, <3>3, RequestOnBanks
  <2> QED BY <2>4, <2>5
<1>4. ASSUME NEW idle, NEW i \in Writes, DrainWrite(idle, i), recent_colacc' = recent_colacc,
             wait_time' = wait_time \/ wait_time' = (wait_time /\ Remaining)
      PROVE  /\ cas_issued'[r][b] # 1
             /\ pageRead'[r][b] /\ state'[r][b] = "ROW_ACTIVE" => wait_time' /\ recent_colacc'[r][b]
  <2>1. PICK q \in Request : q = write_queue[i]
    BY QueueTypes
  <2>2. issue_request_command("WRITE", q)
    BY <1>4, <2>1 DEF DrainWrite, ServeFirst, Queue
  <2>3. wait_time /\ recent_colacc[r][b] => wait_time'
    BY <1>4 DEF Remaining
  <2>4. /\ cas_issued'[r][b] # 1
        /\ state'[r][b] = "ROW_ACTIVE" => state[r][b] = "ROW_ACTIVE" \/ Activated(r, b)
    <3>1. CASE r # q.rank \/ b # q.bank
      BY <1>0, <2>2, <3>1, RequestOnBanks
    <3>2. CASE r = q.rank /\ b = q.bank
      <4>1. \/ Activated(r, b) /\ cas_issued'[r][b] = cas_issued[r][b]
            \/ RowHit(q) /\ cas_issued'[r][b] = 2
            \/ state'[r][b] # "ROW_ACTIVE" /\ cas_issued'[r][b] = cas_issued[r][b]
        BY <2>2, <3>2, RequestOnBanks
      <4> QED BY <1>0, <3>2, <4>1 DEF RowHit
    <3> QED BY <3>1, <3>2
  <2> QED BY <1>0, <1>1, <1>4, <2>3, <2>4
<1>5. ASSUME ClosePages
      PROVE  /\ cas_issued'[r][b] # 1
             /\ pageRead'[r][b] /\ state'[r][b] = "ROW_ACTIVE" => wait_time' /\ recent_colacc'[r][b]
  <2>1. CASE NoCommand /\ UNCHANGED pageVars
    BY <1>0, <1>1, <2>1 DEF NoCommand, channelVars, bankVars, pageVars
  <2>2. CASE wait_time /\ CloseOne /\ wait_time' = Remaining'
    <3>1. recent_colacc'[r][b] => wait_time'
      BY <2>2 DEF Remaining
    <3>2. CASE NoCommand /\ UNCHANGED recent_colacc
      BY <1>0, <1>1, <3>1, <3>2 DEF NoCommand, channelVars, bankVars
    <3>3. CASE \E q \in Ranks, c \in Banks :
                 Precharge(q, c) /\ recent_colacc' = [recent_colacc EXCEPT ![q][c] = FALSE]
      <4>1. PICK q \in Ranks, c \in Banks :
              Precharge(q, c) /\ recent_colacc' = [recent_colacc EXCEPT ![q][c] = FALSE]
        BY <3>3
      <4>2. /\ state' = [state EXCEPT ![q][c] = "PRECHARGING"] /\ cas_issued' = cas_issued
        BY <4>1 DEF Precharge
      <4>3. CASE r = q /\ b = c
        BY <1>0, <1>2, <4>2, <4>3
      <4>4. CASE r # q \/ b # c
        <5>1. state'[r][b] = state[r][b] /\ recent_colacc'[r][b] = recent_colacc[r][b]
          BY <1>2, <4>1, <4>2, <4>4
        <5> QED BY <1>0, <1>1, <3>1, <4>2, <5>1
      <4> QED BY <4>3, <4>4
    <3> QED BY <2>2, <3>2, <3>3, CloseOneIs
  <2> QED BY <1>5, <2>1, <2>2 DEF ClosePages
<1>6. CASE schedule_closepage
  BY <1>3, <1>4, <1>5, <1>6 DEF schedule_closepage, pageVars
<1>7. CASE schedule_fs
  <2>1. \A i \in Of(runcore) : i \in Reads
    BY DEF Of
  <2> QED BY <1>3, <1>4, <1>5, <1>7, <2>1 DEF schedule_fs
<1> QED BY <1>6, <1>7 DEF Schedule

LEMMA PagesStep ==
  ASSUME ScanTypes, ActCovered, FreshCycle, PagesWait, [Next]_vars PROVE PagesWait'
<1>1. scheduler' = scheduler
  BY ReadsStep
<1> SUFFICES ASSUME scheduler \in {"closepage", "fs"}, NEW r \in Ranks, NEW b \in Banks,
                    pageRead'[r][b], state'[r][b] = "ROW_ACTIVE"
             PROVE  wait_time' /\ recent_colacc'[r][b]
  BY <1>1 DEF PagesWait
<1>2. CASE Schedule
  BY <1>2, PageTurn
<1>3. CASE Fetch
  BY <1>3 DEF Fetch, Arrive, policyVars, pageVars, channelVars, bankVars, PagesWait
<1>4. CASE update_memory
  <2>1. pageRead' = pageRead /\ wait_time' = wait_time /\ recent_colacc' = recent_colacc
    BY <1>4 DEF update_memory, pageVars
  <2>2. state[r][b] = "ROW_ACTIVE"
    BY <1>4 DEF update_memory, NewCycle, Tick
  <2> QED BY <2>1, <2>2 DEF PagesWait
<1>5. CASE UNCHANGED vars
  BY <1>5 DEF vars, policyVars, pageVars, queueVars, channelVars, bankVars, PagesWait
<1> QED BY <1>2, <1>3, <1>4, <1>5 DEF Next

LEMMA RowReadOnce ==
  ASSUME ScanTypes, ActCovered, FreshCycle, PagesWait, [Next]_vars,
         NEW r \in Ranks, NEW b \in Banks, scheduler \in {"closepage", "fs"},
         cas_issued[r][b] = 0, cas_issued'[r][b] = 1
  PROVE  ~ pageRead[r][b]
<1>1. CASE Schedule
  <2>1. ~ wait_time /\ state[r][b] = "ROW_ACTIVE"
    BY <1>1, PageTurn
  <2> QED BY <2>1 DEF PagesWait
<1>2. CASE Fetch
  BY <1>2 DEF Fetch, Arrive, channelVars
<1>3. CASE update_memory
  BY <1>3 DEF update_memory, NewCycle, Tick, PerBank
<1>4. CASE UNCHANGED vars
  BY <1>4 DEF vars, queueVars, channelVars
<1> QED BY <1>1, <1>2, <1>3, <1>4 DEF Next

\* closepage and fs read a row at most once after opening it, whatever drains of writes
\* and forced refreshes come between the read and the precharge.
THEOREM RowsReadOnce == Spec => OneReadPerRow
<1>1. Init => FreshCycle /\ PagesWait
  BY DEF Init, QueuesInit, ChannelInit, PerBank, FreshCycle, PagesWait
<1>2. ScanTypes /\ ActCovered /\ FreshCycle /\ PagesWait /\ [Next]_vars
        => FreshCycle' /\ PagesWait'
  BY FreshStep, PagesStep
<1>3. ScanTypes /\ ActCovered /\ FreshCycle /\ PagesWait /\ [Next]_vars =>
        [\A r \in Ranks, b \in Banks :
           /\ scheduler \in {"closepage", "fs"}
           /\ cas_issued[r][b] = 0 /\ cas_issued'[r][b] = 1
           => ~ pageRead[r][b]]_vars
  BY RowReadOnce
<1>4. Spec => []ActCovered
  BY ScanDrivesChannel, ActivationsCovered, PTL
<1> QED BY <1>1, <1>2, <1>3, <1>4, ScanTypesKept, PTL DEF Spec, OneReadPerRow

\* Whatever the scheduler, the bursts on the data bus do not overlap.
THEOREM BusExclusiveUnderScan == Spec => DataBusExclusive
BY ScanDrivesChannel, BusExclusive, PTL

-----------------------------------------------------------------------------
(* Forced refreshes. *)

\* No scheduler issues a refresh or powers a rank down.
RanksAwake ==
  \A r \in Ranks : num_issued[r] = 0 /\ \A b \in Banks : state[r][b] \in PoweredUp

LEMMA CommandKeepsAwake ==
  ASSUME ScanTypes, RanksAwake, NEW r \in Ranks, NEW b \in Banks,
         \/ Precharge(r, b) \/ Read(r, b) \/ Write(r, b)
         \/ \E row \in Rows : Activate(r, b, row)
  PROVE  RanksAwake'
<1>1. num_issued' = num_issued /\ \E x \in {"PRECHARGING", "ROW_ACTIVE"} :
        state' = state \/ state' = [state EXCEPT ![r][b] = x]
  BY DEF Precharge, Read, Write, Activate, refreshVars
<1>2. state \in [Ranks -> [Banks -> States]]
  BY DEF ScanTypes, QueuesTypeOK, ChannelTypeOK
<1> QED BY <1>1, <1>2 DEF RanksAwake, PoweredUp, ClosedStates

LEMMA RequestKeepsAwake ==
  ASSUME ScanTypes, RanksAwake, NEW op, NEW q \in Request, issue_request_command(op, q)
  PROVE  RanksAwake'
<1>1. q.rank \in Ranks /\ q.bank \in Banks /\ q.row \in Rows
  BY RequestType
<1>2. \/ \E row \in Rows : Activate(q.rank, q.bank, row)
      \/ Read(q.rank, q.bank) \/ Write(q.rank, q.bank) \/ Precharge(q.rank, q.bank)
  BY <1>1, RequestOnChannel DEF Column
<1> QED BY <1>1, <1>2, CommandKeepsAwake

\* No rank ever sleeps or refreshes by a command.
LEMMA AwakeStep ==
  ASSUME ScanTypes, RanksAwake, [Next]_vars PROVE RanksAwake'
<1>1. CASE UNCHANGED channelVars
  BY <1>1 DEF channelVars, bankVars, refreshVars, RanksAwake
<1>2. CASE Turn
  <2>1. ASSUME NEW i \in Reads, ReadTurn(i) PROVE RanksAwake'
    BY <2>1, ReadType, RequestKeepsAwake DEF ReadTurn
  <2>2. ASSUME NEW i \in Writes, WriteTurn(i) PROVE RanksAwake'
    <3>1. write_queue[i] \in Request
      BY QueueTypes
    <3> QED BY <2>2, <3>1, RequestKeepsAwake DEF WriteTurn
  <2>3. CASE CloseTurn
    BY <2>3, CommandKeepsAwake DEF CloseTurn
  <2>4. CASE IdleTurn
    BY <1>1, <2>4 DEF IdleTurn, NoCommand
  <2> QED BY <1>2, <2>1, <2>2, <2>3, <2>4 DEF Turn
<1>3. CASE Tick
  BY <1>3 DEF RanksAwake, Tick, PoweredUp, ClosedStates
<1>4. CASE Schedule
  BY <1>2, <1>4, ScheduleIs
<1> QED BY <1>1, <1>3, <1>4 DEF Next, Fetch, Arrive, update_memory, NewCycle, vars, queueVars

\* No scheduler leaves a power-down too late, and the forced refreshes of every rank start when its
\* commands are over, whichever scheduler issued them.
THEOREM ForcedQuietlyUnderScan == Spec => ForcedWhenQuiet
<1>1. Init => RanksAwake
  BY DEF Init, QueuesInit, ChannelInit, PerBank, RanksAwake, PoweredUp, ClosedStates
<1>2. Spec => []RanksAwake
  BY <1>1, AwakeStep, ScanTypesKept, PTL DEF Spec
<1>3. RanksAwake => [\A r \in Ranks, b \in Banks : Woken(r, b) =>
                       Fits(r, WakeTime(state[r][b]))]_channelVars
  BY DEF RanksAwake, Woken, PoweredUp, ClosedStates, PowerDowns
<1>4. Spec => PowerUpMeetsDeadline
  BY <1>2, <1>3, PTL DEF PowerUpMeetsDeadline
<1> QED BY <1>4, ScanDrivesChannel, ForcedQuietly, PTL
=============================================================================
