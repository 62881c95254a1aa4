-------------------------- MODULE PhysicalMemoryProofs --------------------------
(***************************************************************************)
(* The page table and its inverse agree for any number of cores, pages and *)
(* frames; and the unchecked last translations keep two cores apart as     *)
(* long as neither's page has lost its frame.  The invariant Translated    *)
(* adds what links the last translations to the page table.                *)
(*                                                                         *)
(* The address mapping gives different cells to different lines, for any   *)
(* sizes: a line number below the capacity is determined by its fields,    *)
(* from the highest to the lowest, as a number is by its digits.  With the *)
(* theorems about the page tables no two lines of pages share a cell.      *)
(***************************************************************************)
EXTENDS PhysicalMemory, TLAPS

\* A last translation that has not been overtaken is the page table's.
LastIsCurrent ==
  \A t \in Threads : OwnTranslation(t) => pt[last_xlation[t].vpn] = last_xlation[t].pfn

\* A core's last page is its own, or the zeroed one.
LastIsOwn ==
  \A t \in Threads : last_xlation[t].vpn \in Pages

Translated == TypeOK /\ TablesAgree /\ LastIsCurrent /\ LastIsOwn

LEMMA Apart ==
  NoFrame \notin Frames /\ NoPage \notin Pages
  BY PageTablesAssumption

\* The tables are empty at the start.
LEMMA InitTranslated == os_new => Translated
<1> SUFFICES ASSUME os_new PROVE Translated
  OBVIOUS
<1>1. 0 \in Frames /\ <<0, 0>> \in Pages
  BY PageTablesAssumption DEF Frames, Pages
<1>2. TypeOK
  <2>1. pt \in [Pages -> Frames \cup {NoFrame}]
    BY DEF os_new
  <2>2. ipt \in [Frames -> [valid : BOOLEAN, ref : BOOLEAN, vpn : Pages \cup {NoPage}]]
    BY DEF os_new
  <2>3. last_xlation \in [Threads -> Translation] /\ answer \in Translation
    BY <1>1 DEF os_new, Translation
  <2> QED BY <1>1, <2>1, <2>2, <2>3, PageTablesAssumption DEF os_new, TypeOK
<1>3. TablesAgree
  BY DEF os_new, TablesAgree
<1>4. LastIsCurrent
  BY DEF os_new, LastIsCurrent, OwnTranslation
<1>5. LastIsOwn
  BY <1>1 DEF os_new, LastIsOwn
<1> QED BY <1>2, <1>3, <1>4, <1>5 DEF Translated

\* The hand stays on the frames.
LEMMA AfterIsFrame == ASSUME NEW f \in Frames PROVE After(f) \in Frames
  BY PageTablesAssumption DEF After, Frames

\* Allotting a frame to a page without one: the page that was in the frame is
\* the only one that loses it.
LEMMA AllotAgrees ==
  ASSUME Translated, NEW page \in Pages, pt[page] = NoFrame, Allot(page)
  PROVE  /\ pt' \in [Pages -> Frames \cup {NoFrame}]
         /\ ipt' \in [Frames -> [valid : BOOLEAN, ref : BOOLEAN, vpn : Pages \cup {NoPage}]]
         /\ refptr' \in Frames
         /\ TablesAgree'
         /\ pt'[page] \in Frames
         /\ \A p \in Pages \ {page} : pt'[p] \in {pt[p], NoFrame}
<1> DEFINE Row == [valid : BOOLEAN, ref : BOOLEAN, vpn : Pages \cup {NoPage}]
           New == [valid |-> TRUE, ref |-> TRUE, vpn |-> page]
<1>1. /\ pt \in [Pages -> Frames \cup {NoFrame}] /\ ipt \in [Frames -> Row]
      /\ refptr \in Frames /\ TablesAgree
  BY DEF Translated, TypeOK
<1>2. New \in Row
  OBVIOUS
<1>3. PICK f \in Frames : TakeRandom(page, f) \/ TakeVictim(page, f)
  BY DEF Allot
<1>4. CASE TakeRandom(page, f)
  <2>1. /\ pt' = [pt EXCEPT ![page] = f] /\ ipt' = [ipt EXCEPT ![f] = New]
        /\ refptr' = refptr /\ ~ ipt[f].valid
    BY <1>4 DEF TakeRandom
  <2>2. pt' \in [Pages -> Frames \cup {NoFrame}] /\ ipt' \in [Frames -> Row]
    BY <1>1, <1>2, <2>1
  <2>3. TablesAgree'
    BY <1>1, <2>1, Apart DEF TablesAgree
  <2> QED BY <1>1, <2>1, <2>2, <2>3
<1>5. CASE TakeVictim(page, f)
  <2>1. /\ pt' = [Deleted(f) EXCEPT ![page] = f]
        /\ ipt' = [Swept(f) EXCEPT ![f] = New]
        /\ refptr' = After(f)
    BY <1>5 DEF TakeVictim
  <2>2. Deleted(f) \in [Pages -> Frames \cup {NoFrame}]
    BY <1>1 DEF Deleted
  <2>3. /\ Swept(f) \in [Frames -> Row]
        /\ \A g \in Frames : Swept(f)[g].valid = ipt[g].valid /\ Swept(f)[g].vpn = ipt[g].vpn
    BY <1>1 DEF Swept
  <2>4. pt' \in [Pages -> Frames \cup {NoFrame}] /\ ipt' \in [Frames -> Row]
    BY <1>2, <2>1, <2>2, <2>3
  <2>5. /\ pt'[page] = f
        /\ \A p \in Pages \ {page} :
             pt'[p] = IF ipt[f].valid /\ p = ipt[f].vpn THEN NoFrame ELSE pt[p]
    BY <1>1, <2>1, <2>2 DEF Deleted, TablesAgree
  <2>6. /\ ipt'[f] = New
        /\ \A g \in Frames \ {f} : ipt'[g].valid = ipt[g].valid /\ ipt'[g].vpn = ipt[g].vpn
    BY <2>1, <2>3
  <2>7. TablesAgree'
    BY <1>1, <2>5, <2>6, Apart DEF TablesAgree
  <2> QED BY <2>1, <2>4, <2>5, <2>7, AfterIsFrame
<1> QED BY <1>3, <1>4, <1>5

\* The tables after any translation.
LEMMA TablesAfter ==
  ASSUME Translated, NEW t \in Threads, NEW v \in Vpns, os_vpn_to_pfn(t, v)
  PROVE  /\ pt' \in [Pages -> Frames \cup {NoFrame}]
         /\ ipt' \in [Frames -> [valid : BOOLEAN, ref : BOOLEAN, vpn : Pages \cup {NoPage}]]
         /\ refptr' \in Frames
         /\ TablesAgree'
         /\ \A p \in Pages \ {<<t, v>>} : pt'[p] \in {pt[p], NoFrame}
         /\ \/ pt' = pt /\ last_xlation' = last_xlation /\ answer' = last_xlation[t]
            \/ /\ answer' = [vpn |-> <<t, v>>, pfn |-> pt'[<<t, v>>]]
               /\ pt'[<<t, v>>] \in Frames
               /\ pt[<<t, v>>] # NoFrame => pt'[<<t, v>>] = pt[<<t, v>>]
               /\ last_xlation[t].vpn # <<t, v>>
               /\ last_xlation' = [last_xlation EXCEPT ![t] = answer']
<1> DEFINE Row == [valid : BOOLEAN, ref : BOOLEAN, vpn : Pages \cup {NoPage}]
           page == <<t, v>>
<1>1. /\ pt \in [Pages -> Frames \cup {NoFrame}] /\ ipt \in [Frames -> Row]
      /\ refptr \in Frames /\ TablesAgree
  BY DEF Translated, TypeOK
<1>2. page \in Pages
  BY DEF Pages
<1>3. CASE LastAgain(t, page)
  BY <1>1, <1>3 DEF LastAgain, TablesAgree
<1>4. CASE LookUp(t, page)
  <2>1. /\ answer' = [vpn |-> page, pfn |-> pt'[page]]
        /\ last_xlation[t].vpn # page
        /\ last_xlation' = [last_xlation EXCEPT ![t] = answer']
    BY <1>4 DEF LookUp, Remembered
  <2>2. CASE pt[page] # NoFrame
    <3>1. /\ ipt' = [ipt EXCEPT ![pt[page]].ref = TRUE]
          /\ UNCHANGED <<pt, refptr>>
      BY <1>4, <2>2 DEF LookUp
    <3>2. pt[page] \in Frames
      BY <1>1, <1>2, <2>2
    <3>3. /\ ipt' \in [Frames -> Row]
          /\ \A g \in Frames : ipt'[g].valid = ipt[g].valid /\ ipt'[g].vpn = ipt[g].vpn
      BY <1>1, <3>1, <3>2
    <3>4. TablesAgree'
      BY <1>1, <3>1, <3>3 DEF TablesAgree
    <3> QED BY <1>1, <2>1, <3>1, <3>2, <3>3, <3>4
  <2>3. CASE pt[page] = NoFrame
    <3>1. Allot(page)
      BY <1>4, <2>3 DEF LookUp
    <3> QED BY <1>2, <2>1, <2>3, <3>1, AllotAgrees
  <2> QED BY <2>2, <2>3
<1> QED BY <1>3, <1>4 DEF os_vpn_to_pfn

\* Every translation preserves the invariant.
LEMMA StepTranslated == Translated /\ [Next]_vars => Translated'
<1> SUFFICES ASSUME Translated, [Next]_vars PROVE Translated'
  OBVIOUS
<1>1. CASE UNCHANGED vars
  BY <1>1 DEF vars, Translated, TypeOK, TablesAgree, LastIsCurrent, LastIsOwn, OwnTranslation
<1>2. CASE Next
  <2>1. PICK t \in Threads, v \in Vpns : os_vpn_to_pfn(t, v)
    BY <1>2 DEF Next
  <2> DEFINE page == <<t, v>>
  <2>2. page \in Pages
    BY DEF Pages
  <2>3. /\ pt \in [Pages -> Frames \cup {NoFrame}]
        /\ last_xlation \in [Threads -> Translation] /\ answer \in Translation
        /\ LastIsCurrent /\ LastIsOwn
    BY DEF Translated, TypeOK
  <2>A. \/ last_xlation' = last_xlation /\ answer' = last_xlation[t]
        \/ /\ answer' = [vpn |-> page, pfn |-> pt'[page]] /\ pt'[page] \in Frames
           /\ last_xlation' = [last_xlation EXCEPT ![t] = answer']
    BY <2>1, TablesAfter
  <2>4. last_xlation' \in [Threads -> Translation] /\ answer' \in Translation
    <3>1. pt'[page] \in Frames => [vpn |-> page, pfn |-> pt'[page]] \in Translation
      BY <2>2 DEF Translation
    <3> QED BY <2>A, <2>3, <3>1
  <2>5. LastIsOwn'
    <3>1. \A u \in Threads : last_xlation[u].vpn \in Pages
      BY <2>3 DEF LastIsOwn
    <3>2. \A u \in Threads : last_xlation'[u].vpn \in Pages
      BY <2>A, <2>2, <2>3, <3>1
    <3> QED BY <3>2 DEF LastIsOwn
  <2>6. stolen' = {u \in Threads :
                  LET p == last_xlation'[u].vpn
                  IN  IF last_xlation'[u] = last_xlation[u]
                      THEN u \in stolen \/ (pt[p] # NoFrame /\ pt'[p] = NoFrame)
                      ELSE FALSE}
    BY <2>1 DEF os_vpn_to_pfn
  <2>7. LastIsCurrent'
    <3> SUFFICES ASSUME NEW u \in Threads, OwnTranslation(u)'
                 PROVE  pt'[last_xlation'[u].vpn] = last_xlation'[u].pfn
      BY DEF LastIsCurrent
    <3> DEFINE q == last_xlation'[u].vpn
    <3>1. u \notin stolen' /\ q[1] = u
      BY DEF OwnTranslation
    <3>2. CASE last_xlation'[u] = last_xlation[u]
      <4>1. u \notin stolen /\ ~ (pt[q] # NoFrame /\ pt'[q] = NoFrame)
        BY <2>6, <3>1, <3>2
      <4>2. pt[q] = last_xlation[u].pfn /\ q \in Pages
        BY <2>3, <3>1, <3>2, <4>1 DEF LastIsCurrent, OwnTranslation, LastIsOwn
      <4>3. pt[q] \in Frames
        BY <2>3, <3>2, <4>2 DEF Translation
      <4>4. pt'[q] \in {pt[q], NoFrame}
        BY <2>1, <4>3, Apart, TablesAfter, <4>2
      <4> QED BY <3>2, <4>1, <4>2, <4>3, <4>4, Apart
    <3>3. CASE last_xlation'[u] # last_xlation[u]
      <4>1. u = t /\ last_xlation'[u] = [vpn |-> page, pfn |-> pt'[page]]
        BY <2>1, <2>3, <3>3, TablesAfter
      <4> QED BY <4>1
    <3> QED BY <3>2, <3>3
  <2>8. TypeOK'
    BY <2>1, <2>4, <2>6, TablesAfter DEF TypeOK
  <2>9. TablesAgree'
    BY <2>1, TablesAfter
  <2> QED BY <2>5, <2>7, <2>8, <2>9 DEF Translated
<1> QED BY <1>1, <1>2

LEMMA TranslatedHolds == Spec => []Translated
<1> QED BY InitTranslated, StepTranslated, PTL DEF Spec

\* Types, for any number of cores, pages and frames.
THEOREM PagesTypes == Spec => []TypeOK
<1>1. Translated => TypeOK
  BY DEF Translated
<1> QED BY <1>1, TranslatedHolds, PTL

\* The page table of os_vpn_to_pfn and the inverse one that the clock reads are
\* each other's inverse after any sequence of translations.
THEOREM TablesAlwaysAgree == Spec => []TablesAgree
<1>1. Translated => TablesAgree
  BY DEF Translated
<1> QED BY <1>1, TranslatedHolds, PTL

\* The shortcut through the last translations never lets two cores share a
\* frame unless one of their pages has lost its frame.
THEOREM CoresAlwaysApart == Spec => []CoresKeepApart
<1>1. Translated => CoresKeepApart
  <2> SUFFICES ASSUME Translated, NEW t \in Threads, NEW u \in Threads, t # u,
                      OwnTranslation(t), OwnTranslation(u),
                      last_xlation[t].pfn = last_xlation[u].pfn
               PROVE  FALSE
    BY DEF CoresKeepApart
  <2> DEFINE p == last_xlation[t].vpn
             q == last_xlation[u].vpn
  <2>1. /\ p \in Pages /\ q \in Pages /\ p # q
        /\ pt[p] = last_xlation[t].pfn /\ pt[q] = last_xlation[t].pfn
        /\ last_xlation[t].pfn \in Frames
    BY DEF Translated, LastIsCurrent, LastIsOwn, OwnTranslation, TypeOK, Translation
  <2>2. ipt[pt[p]].vpn = p /\ ipt[pt[q]].vpn = q
    BY <2>1, Apart DEF Translated, TablesAgree
  <2> QED BY <2>1, <2>2
<1> QED BY <1>1, TranslatedHolds, PTL

-----------------------------------------------------------------------------

\* Arithmetic of a digit d on top of which x lies.
LEMMA Digits ==
  ASSUME NEW a \in Nat, NEW n \in Nat \ {0}
  PROVE  a \div n \in Nat /\ a % n \in 0..(n - 1) /\ a = n * (a \div n) + (a % n)
OBVIOUS

LEMMA SameDigits ==
  ASSUME NEW a \in Nat, NEW b \in Nat, NEW n \in Nat \ {0},
         a % n = b % n, a \div n = b \div n
  PROVE  a = b
BY Digits

LEMMA Composition ==
  ASSUME NEW x \in Nat, NEW n \in Nat \ {0}, NEW d \in 0..(n - 1)
  PROVE  x * n + d \in Nat /\ (x * n + d) \div n = x /\ (x * n + d) % n = d
<1> DEFINE a == x * n + d
           q == a \div n
<1>1. a \in Nat
  OBVIOUS
<1>2. q \in Nat /\ a % n \in 0..(n - 1) /\ a = n * q + (a % n)
  BY <1>1, Digits
<1> HIDE DEF q
<1>3. n * (x - q) = (a % n) - d
  BY <1>2
<1>4. ~ x - q >= 1
  <2>1. x - q >= 1 => n * (x - q) >= n
    BY <1>2
  <2> QED BY <2>1, <1>2, <1>3
<1>5. ~ x - q <= -1
  <2>1. x - q <= -1 => n * (x - q) <= -n
    BY <1>2
  <2> QED BY <2>1, <1>2, <1>3
<1>6. x = q
  BY <1>2, <1>4, <1>5
<1>7. a % n = d
  BY <1>2, <1>6
<1> QED BY <1>1, <1>6, <1>7 DEF q

LEMMA Quotient ==
  ASSUME NEW a \in Nat, NEW m \in Nat \ {0}, NEW n \in Nat \ {0}, a < m * n
  PROVE  a \div m < n
<1> DEFINE q == a \div m
<1>1. q \in Nat /\ a >= m * q
  BY Digits
<1> HIDE DEF q
<1>2. q >= n => m * q >= m * n
  BY <1>1
<1> QED BY <1>1, <1>2 DEF q

-----------------------------------------------------------------------------

LEMMA Sizes == \A f \in Fields : Size[f] \in Nat \ {0}
BY AddressAssumption DEF Size, Fields

\* A line number in the memory is determined by its fields, in any order of them.
LEMMA SlicedApart ==
  ASSUME NEW a \in Nat, NEW b \in Nat,
         NEW f1 \in Fields, NEW f2 \in Fields, NEW f3 \in Fields, NEW f4 \in Fields,
         NEW f5 \in Fields,
         f1 \notin {f2, f3, f4, f5}, f2 \notin {f3, f4, f5}, f3 \notin {f4, f5}, f4 # f5,
         a < Size[f1] * (Size[f2] * (Size[f3] * (Size[f4] * Size[f5]))),
         b < Size[f1] * (Size[f2] * (Size[f3] * (Size[f4] * Size[f5]))),
         Sliced(a, f1, f2, f3, f4, f5) = Sliced(b, f1, f2, f3, f4, f5)
  PROVE  a = b
<1> DEFINE n1 == Size[f1]
           n2 == Size[f2]
           n3 == Size[f3]
           n4 == Size[f4]
           n5 == Size[f5]
           Q2(x) == x \div n1
           Q3(x) == Q2(x) \div n2
           Q4(x) == Q3(x) \div n3
           Q5(x) == Q4(x) \div n4
<1>1. n1 \in Nat \ {0} /\ n2 \in Nat \ {0} /\ n3 \in Nat \ {0} /\ n4 \in Nat \ {0}
        /\ n5 \in Nat \ {0}
  BY Sizes
<1>2. \A x \in {a, b} :
        LET s == Sliced(x, f1, f2, f3, f4, f5) IN
        s[f1] = x % n1 /\ s[f2] = Q2(x) % n2 /\ s[f3] = Q3(x) % n3 /\ s[f4] = Q4(x) % n4
          /\ s[f5] = Q5(x) % n5
  BY DEF Sliced
<1>3. a % n1 = b % n1 /\ Q2(a) % n2 = Q2(b) % n2 /\ Q3(a) % n3 = Q3(b) % n3
        /\ Q4(a) % n4 = Q4(b) % n4 /\ Q5(a) % n5 = Q5(b) % n5
  BY <1>2
<1> HIDE DEF n1, n2, n3, n4, n5
<1>4. ASSUME NEW x \in Nat, x < n1 * (n2 * (n3 * (n4 * n5)))
      PROVE  /\ Q2(x) \in Nat /\ Q3(x) \in Nat /\ Q4(x) \in Nat /\ Q5(x) \in Nat
             /\ Q5(x) % n5 = Q5(x)
  <2>1. n4 * n5 \in Nat \ {0}
    BY <1>1
  <2>2. n3 * (n4 * n5) \in Nat \ {0}
    BY <1>1, <2>1
  <2>3. n2 * (n3 * (n4 * n5)) \in Nat \ {0}
    BY <1>1, <2>2
  <2>4. Q2(x) \in Nat /\ Q2(x) < n2 * (n3 * (n4 * n5))
    BY <1>1, <1>4, <2>3, Digits, Quotient
  <2> HIDE DEF Q2
  <2>5. Q3(x) \in Nat /\ Q3(x) < n3 * (n4 * n5)
    BY <1>1, <2>2, <2>4, Digits, Quotient
  <2> HIDE DEF Q3
  <2>6. Q4(x) \in Nat /\ Q4(x) < n4 * n5
    BY <1>1, <2>1, <2>5, Digits, Quotient
  <2> HIDE DEF Q4
  <2>7. Q5(x) \in Nat /\ Q5(x) < n5
    BY <1>1, <2>6, Digits, Quotient
  <2> HIDE DEF Q5
  <2>8. Q5(x) % n5 = Q5(x)
    BY <1>1, <2>7
  <2> QED BY <2>4, <2>5, <2>6, <2>7, <2>8
<1>5. a < n1 * (n2 * (n3 * (n4 * n5))) /\ b < n1 * (n2 * (n3 * (n4 * n5)))
  BY DEF n1, n2, n3, n4, n5
<1>6. Q5(a) = Q5(b)
  BY <1>3, <1>4, <1>5
<1>7. Q4(a) = Q4(b)
  <2>1. Q4(a) \in Nat /\ Q4(b) \in Nat
    BY <1>4, <1>5
  <2> HIDE DEF Q4
  <2> QED BY <1>1, <1>3, <1>6, <2>1, SameDigits
<1>8. Q3(a) = Q3(b)
  <2>1. Q3(a) \in Nat /\ Q3(b) \in Nat
    BY <1>4, <1>5
  <2> HIDE DEF Q3
  <2> QED BY <1>1, <1>3, <1>7, <2>1, SameDigits
<1>9. Q2(a) = Q2(b)
  <2>1. Q2(a) \in Nat /\ Q2(b) \in Nat
    BY <1>4, <1>5
  <2> HIDE DEF Q2
  <2> QED BY <1>1, <1>3, <1>8, <2>1, SameDigits
<1> QED BY <1>1, <1>3, <1>9, SameDigits

-----------------------------------------------------------------------------

\* The capacity, as the product of the sizes in the order of each mapping.
LEMMA CapacityInOrder ==
  LET s == Size IN
  /\ Capacity = s["column"] * (s["channel"] * (s["bank"] * (s["rank"] * s["row"])))
  /\ Capacity = s["bank"] * (s["rank"] * (s["channel"] * (s["row"] * s["column"])))
  /\ Capacity = s["channel"] * (s["bank"] * (s["rank"] * (s["column"] * s["row"])))
<1>1. \A c, k, b, r, w \in Nat :
        /\ c * k * b * r * w = w * (c * (b * (k * r)))
        /\ c * k * b * r * w = b * (k * (c * (r * w)))
        /\ c * k * b * r * w = c * (b * (k * (w * r)))
  OBVIOUS
<1>2. {NUM_CHANNELS, NUM_RANKS, NUM_BANKS, NUM_ROWS, NUM_COLUMNS} \subseteq Nat
  BY AddressAssumption
<1> QED BY <1>1, <1>2 DEF Capacity, Size

LEMMA MappingApart ==
  ASSUME NEW mapping, NEW a \in Nat, NEW b \in Nat, a < Capacity, b < Capacity,
         calc_dram_addr(mapping, a * CACHE_LINE_SIZE)
           = calc_dram_addr(mapping, b * CACHE_LINE_SIZE)
  PROVE  a = b
<1>1. /\ (a * CACHE_LINE_SIZE) \div CACHE_LINE_SIZE = a
      /\ (b * CACHE_LINE_SIZE) \div CACHE_LINE_SIZE = b
  <2>1. CACHE_LINE_SIZE \in Nat \ {0} /\ 0 \in 0..(CACHE_LINE_SIZE - 1)
    BY AddressAssumption
  <2>2. a * CACHE_LINE_SIZE + 0 = a * CACHE_LINE_SIZE /\ b * CACHE_LINE_SIZE + 0 = b * CACHE_LINE_SIZE
    BY <2>1
  <2> QED BY <2>1, <2>2, Composition
<1>2. CASE mapping = 1
  <2>1. Sliced(a, "column", "channel", "bank", "rank", "row")
          = Sliced(b, "column", "channel", "bank", "rank", "row")
    BY <1>1, <1>2 DEF calc_dram_addr
  <2> QED BY <2>1, CapacityInOrder, SlicedApart DEF Fields
<1>3. CASE mapping = 2
  <2>1. Sliced(a, "bank", "rank", "channel", "row", "column")
          = Sliced(b, "bank", "rank", "channel", "row", "column")
    BY <1>1, <1>3 DEF calc_dram_addr
  <2> QED BY <2>1, CapacityInOrder, SlicedApart DEF Fields
<1>4. CASE mapping \notin {1, 2}
  <2>1. Sliced(a, "channel", "bank", "rank", "column", "row")
          = Sliced(b, "channel", "bank", "rank", "column", "row")
    BY <1>1, <1>4 DEF calc_dram_addr
  <2> QED BY <2>1, CapacityInOrder, SlicedApart DEF Fields
<1> QED BY <1>2, <1>3, <1>4

\* Line numbers of the frames: inside the memory, and different for different lines.
LEMMA LineOfFrame ==
  ASSUME NEW f \in Frames, NEW i \in Lines
  PROVE  os_v2p_lineaddr(f, i) \in Nat /\ os_v2p_lineaddr(f, i) < Capacity
<1>1. lines_in_page \in Nat \ {0} /\ num_pages \in Nat \ {0} /\ f \in 0..(num_pages - 1)
        /\ i \in 0..(lines_in_page - 1)
  BY MemoryAssumption, PageTablesAssumption DEF Frames, Lines
<1>2. Capacity \in Int
  BY AddressAssumption DEF Capacity
<1> HIDE DEF lines_in_page, Capacity
<1>3. f * lines_in_page + i < (f + 1) * lines_in_page
  BY <1>1
<1>4. (f + 1) * lines_in_page <= num_pages * lines_in_page
  BY <1>1
<1>5. num_pages * lines_in_page <= Capacity
  BY MemoryAssumption
<1> QED BY <1>1, <1>2, <1>3, <1>4, <1>5 DEF os_v2p_lineaddr

LEMMA LinesOfFrames ==
  ASSUME NEW f \in Frames, NEW g \in Frames, NEW i \in Lines, NEW j \in Lines,
         os_v2p_lineaddr(f, i) = os_v2p_lineaddr(g, j)
  PROVE  f = g /\ i = j
<1>1. lines_in_page \in Nat \ {0} /\ f \in Nat /\ g \in Nat
        /\ i \in 0..(lines_in_page - 1) /\ j \in 0..(lines_in_page - 1)
  BY MemoryAssumption, PageTablesAssumption DEF Frames, Lines
<1> HIDE DEF lines_in_page
<1>2. f = (f * lines_in_page + i) \div lines_in_page /\ i = (f * lines_in_page + i) % lines_in_page
  BY <1>1, Composition
<1>3. g = (g * lines_in_page + j) \div lines_in_page /\ j = (g * lines_in_page + j) % lines_in_page
  BY <1>1, Composition
<1> QED BY <1>2, <1>3 DEF os_v2p_lineaddr

\* Pages that have frames, and cells of lines of different frames.
LEMMA TablesKeepLinesApart == TypeOK /\ TablesAgree => LinesApart
<1> SUFFICES ASSUME TypeOK, TablesAgree,
                    NEW p \in Pages, NEW q \in Pages, pt[p] # NoFrame, pt[q] # NoFrame,
                    NEW i \in Lines, NEW j \in Lines, Cell(pt[p], i) = Cell(pt[q], j)
             PROVE  p = q /\ i = j
  BY DEF LinesApart
<1>1. pt[p] \in Frames /\ pt[q] \in Frames
  BY DEF TypeOK
<1>2. os_v2p_lineaddr(pt[p], i) = os_v2p_lineaddr(pt[q], j)
  <2>1. /\ os_v2p_lineaddr(pt[p], i) \in Nat /\ os_v2p_lineaddr(pt[p], i) < Capacity
        /\ os_v2p_lineaddr(pt[q], j) \in Nat /\ os_v2p_lineaddr(pt[q], j) < Capacity
    BY <1>1, LineOfFrame
  <2> QED BY <2>1, MappingApart DEF Cell
<1>3. pt[p] = pt[q] /\ i = j
  BY <1>1, <1>2, LinesOfFrames
<1>4. p = q
  BY <1>3 DEF TablesAgree
<1> QED BY <1>3, <1>4

\* The composition takes the steps of the page tables and no other.
LEMMA MemoryUsesTables == MemorySpec => Spec
<1>1. MemoryInit => os_new
  BY DEF MemoryInit
<1>2. [MemoryNext]_memoryVars => [Next]_vars
  BY DEF MemoryNext, memoryVars, vars
<1> QED BY <1>1, <1>2, PTL DEF MemorySpec, Spec

\* No cell of the DRAM belongs to two lines of pages, for any sizes of the memory that
\* have place for the frames, any cores and pages, under every mapping.
THEOREM CellsApart == MemorySpec => []LinesApart
BY MemoryUsesTables, PagesTypes, TablesAlwaysAgree, TablesKeepLinesApart, PTL

\* An address that is composed for a channel has that channel for the check, and for the
\* request unless the mapping is 2.
LEMMA ComposedOnChannel ==
  ASSUME NEW mapping, NEW l \in Locations
  PROVE  /\ get_dram_channel_addr(mapping, Composed(mapping, l)) = l.channel
         /\ mapping # 2 => calc_dram_addr(mapping, Composed(mapping, l)).channel = l.channel
<1> DEFINE r == IF mapping = 1 THEN (l.row * NUM_RANKS + l.rank) * NUM_BANKS + l.bank
                ELSE ((l.row * NUM_COLUMNS + l.column) * NUM_RANKS + l.rank) * NUM_BANKS + l.bank
           c == r * NUM_CHANNELS + l.channel
           line == IF mapping = 1 THEN c * NUM_COLUMNS + l.column ELSE c
<1>1. /\ NUM_CHANNELS \in Nat \ {0} /\ NUM_RANKS \in Nat \ {0} /\ NUM_BANKS \in Nat \ {0}
      /\ NUM_ROWS \in Nat \ {0} /\ NUM_COLUMNS \in Nat \ {0} /\ CACHE_LINE_SIZE \in Nat \ {0}
  BY AddressAssumption
<1>2. /\ l.channel \in 0..(NUM_CHANNELS - 1) /\ l.rank \in Nat /\ l.bank \in Nat /\ l.row \in Nat
      /\ l.column \in 0..(NUM_COLUMNS - 1)
  BY <1>1 DEF Locations
<1>3. r \in Nat
  <2>1. (l.row * NUM_RANKS + l.rank) * NUM_BANKS + l.bank \in Nat
    BY <1>1, <1>2
  <2>2. l.row * NUM_COLUMNS + l.column \in Nat
    BY <1>1, <1>2
  <2>3. ((l.row * NUM_COLUMNS + l.column) * NUM_RANKS + l.rank) * NUM_BANKS + l.bank \in Nat
    BY <1>1, <1>2, <2>2
  <2> QED BY <2>1, <2>3
<1>4. Composed(mapping, l) = line * CACHE_LINE_SIZE
  BY DEF Composed
<1> HIDE DEF r
<1>5. c \in Nat /\ c % NUM_CHANNELS = l.channel
  BY <1>1, <1>2, <1>3, Composition
<1> HIDE DEF c
<1>6. c * NUM_COLUMNS + l.column \in Nat /\ (c * NUM_COLUMNS + l.column) \div NUM_COLUMNS = c
  BY <1>1, <1>2, <1>5, Composition
<1>7. line \in Nat
  BY <1>5, <1>6
<1>8. /\ mapping = 1 => line \div NUM_COLUMNS = c
      /\ mapping # 1 => line = c
  BY <1>6
<1> HIDE DEF line
<1>9. (line * CACHE_LINE_SIZE) \div CACHE_LINE_SIZE = line
  <2>1. 0 \in 0..(CACHE_LINE_SIZE - 1) /\ line * CACHE_LINE_SIZE + 0 = line * CACHE_LINE_SIZE
    BY <1>1, <1>7
  <2> QED BY <1>1, <1>7, <2>1, Composition
<1>10. get_dram_channel_addr(mapping, Composed(mapping, l)) = l.channel
  BY <1>4, <1>5, <1>8, <1>9 DEF get_dram_channel_addr
<1>11. CASE mapping = 1
  <2>1. calc_dram_addr(mapping, Composed(mapping, l))
          = Sliced(line, "column", "channel", "bank", "rank", "row")
    BY <1>4, <1>9, <1>11 DEF calc_dram_addr
  <2>2. calc_dram_addr(mapping, Composed(mapping, l)).channel
          = (line \div NUM_COLUMNS) % NUM_CHANNELS
    BY <2>1 DEF Sliced, Fields, Size
  <2> QED BY <1>5, <1>8, <1>10, <1>11, <2>2
<1>12. CASE mapping \notin {1, 2}
  <2>1. calc_dram_addr(mapping, Composed(mapping, l))
          = Sliced(line, "channel", "bank", "rank", "column", "row")
    BY <1>4, <1>9, <1>12 DEF calc_dram_addr
  <2>2. calc_dram_addr(mapping, Composed(mapping, l)).channel = line % NUM_CHANNELS
    BY <2>1 DEF Sliced, Fields, Size
  <2> QED BY <1>5, <1>8, <1>10, <1>12, <2>2
<1> QED BY <1>10, <1>11, <1>12

\* A random address made for a channel passes the check in main and goes to that channel,
\* unless ADDRESS_MAPPING is 2.
THEOREM RandomAddressOnChannel == MemorySpec => []RandomOnChannel
<1>1. RandomOnChannel
  BY ComposedOnChannel DEF RandomOnChannel, generate_random_addr, check_dram_addr
<1> QED BY <1>1, PTL
=============================================================================
