----------------------------- MODULE PageTables -----------------------------
(***************************************************************************)
(* os.c: the page table that all cores share, its inverse with the clock   *)
(* that looks for a victim, and each core's last translation, which is     *)
(* used without a look at either.  The hash table of hash_lib.c is the     *)
(* function pt; a page is a pair of a core and a page of its trace, which  *)
(* is what its key packs.  Frames are allotted at random (page_alloc_isrand*)
(* is 1): a random try may find any invalid frame or none.                 *)
(***************************************************************************)
EXTENDS Integers, FiniteSets

CONSTANTS
  Threads,
  Vpns,            \* pages of a trace, with page 0
  num_pages,
  NoFrame, NoPage

Frames == 0..(num_pages - 1)
Pages == Threads \X Vpns

ASSUME PageTablesAssumption ==
  /\ Threads \subseteq Nat /\ 0 \in Threads
  /\ 0 \in Vpns
  /\ num_pages \in Nat \ {0}
  /\ NoFrame \notin Frames /\ NoPage \notin Pages

VARIABLES
  pt,              \* frame of a page, NoFrame if the page has none
  ipt,             \* per frame: valid, ref, and the page in it
  refptr,          \* hand of the clock
  last_xlation,    \* per core: its last page and frame
  answer,          \* the last translation: page and frame
  stolen           \* history: cores whose last page has lost its frame since

vars == <<pt, ipt, refptr, last_xlation, answer, stolen>>

\* The zeroed last translations are page 0 of core 0 in frame 0, which nobody
\* allotted: for core 0 it is as if the page had already lost its frame.
os_new ==
  /\ pt = [p \in Pages |-> NoFrame]
  /\ ipt = [f \in Frames |-> [valid |-> FALSE, ref |-> FALSE, vpn |-> NoPage]]
  /\ refptr = 0
  /\ last_xlation = [t \in Threads |-> [vpn |-> <<0, 0>>, pfn |-> 0]]
  /\ answer = [vpn |-> NoPage, pfn |-> 0]
  /\ stolen = {0}

-----------------------------------------------------------------------------
(* os_get_victim_from_ipt. *)

\* What the hand stops at.
Passable(f) == ~ ipt[f].valid \/ ~ ipt[f].ref

\* How far the hand has to go to the frame.
Ahead(f) == (f - refptr + num_pages) % num_pages

\* Whether it stops at the frame: if every frame was referenced since the last
\* round, where it started.
Stops(f) ==
  IF \E g \in Frames : Passable(g)
  THEN Passable(f) /\ \A g \in Frames : Passable(g) => Ahead(f) <= Ahead(g)
  ELSE f = refptr

\* The frames it passes lose their reference bit.
Passed(stop) ==
  {f \in Frames : (\E g \in Frames : Passable(g)) => Ahead(f) < Ahead(stop)}

Swept(stop) ==
  [f \in Frames |-> IF f \in Passed(stop) THEN [ipt[f] EXCEPT !.ref = FALSE] ELSE ipt[f]]

\* Fault: the page that loses its frame stays in the page table.
Kept(f) == pt

\* hash_table_access_delete of the page in the victim.
Deleted(f) == IF ipt[f].valid THEN [pt EXCEPT ![ipt[f].vpn] = NoFrame] ELSE pt

\* Fault: the hand goes past the last frame.
PastTheEnd(f) == f + 1

After(f) == (f + 1) % num_pages

\* The page gets the frame: a random invalid one, or the clock's victim.
TakeRandom(page, f) ==
  /\ ~ ipt[f].valid
  /\ pt' = [pt EXCEPT ![page] = f]
  /\ ipt' = [ipt EXCEPT ![f] = [valid |-> TRUE, ref |-> TRUE, vpn |-> page]]
  /\ UNCHANGED refptr

TakeVictim(page, f) ==
  /\ Stops(f)
  /\ pt' = [Deleted(f) EXCEPT ![page] = f]
  /\ ipt' = [Swept(f) EXCEPT ![f] = [valid |-> TRUE, ref |-> TRUE, vpn |-> page]]
  /\ refptr' = After(f)

Allot(page) == \E f \in Frames : TakeRandom(page, f) \/ TakeVictim(page, f)

-----------------------------------------------------------------------------
(* os_vpn_to_pfn. *)

\* The same page as last time: nothing is looked up and nothing is marked.
LastAgain(t, page) ==
  /\ last_xlation[t].vpn = page
  /\ answer' = last_xlation[t]
  /\ UNCHANGED <<pt, ipt, refptr, last_xlation>>

\* Fault: the frame of the page before stays.
RememberedPage(t) == [last_xlation EXCEPT ![t].vpn = answer'.vpn]

Remembered(t) == [last_xlation EXCEPT ![t] = answer']

LookUp(t, page) ==
  /\ last_xlation[t].vpn # page
  /\ \/ /\ pt[page] # NoFrame
        /\ ipt' = [ipt EXCEPT ![pt[page]].ref = TRUE]
        /\ UNCHANGED <<pt, refptr>>
     \/ pt[page] = NoFrame /\ Allot(page)
  /\ answer' = [vpn |-> page, pfn |-> pt'[page]]
  /\ last_xlation' = Remembered(t)

os_vpn_to_pfn(t, v) ==
  /\ LastAgain(t, <<t, v>>) \/ LookUp(t, <<t, v>>)
  /\ stolen' = {u \in Threads :
                  LET p == last_xlation'[u].vpn
                  IN  IF last_xlation'[u] = last_xlation[u]
                      THEN u \in stolen \/ (pt[p] # NoFrame /\ pt'[p] = NoFrame)
                      ELSE FALSE}

Next == \E t \in Threads, v \in Vpns : os_vpn_to_pfn(t, v)

Spec == os_new /\ [][Next]_vars

-----------------------------------------------------------------------------
(* Properties. *)

Translation == [vpn : Pages \cup {NoPage}, pfn : Frames]

TypeOK ==
  /\ pt \in [Pages -> Frames \cup {NoFrame}]
  /\ ipt \in [Frames -> [valid : BOOLEAN, ref : BOOLEAN, vpn : Pages \cup {NoPage}]]
  /\ refptr \in Frames
  /\ last_xlation \in [Threads -> Translation]
  /\ answer \in Translation
  /\ stolen \subseteq Threads

\* The two tables are each other's inverse, so no frame holds two pages, the
\* victim's page is always found in the hash table (the assertion of the clock)
\* and the table never has more pages than the memory has frames.
TablesAgree ==
  /\ \A p \in Pages : pt[p] # NoFrame => ipt[pt[p]].valid /\ ipt[pt[p]].vpn = p
  /\ \A f \in Frames : ipt[f].valid => ipt[f].vpn \in Pages /\ pt[ipt[f].vpn] = f

\* Two cores reach the same frame by their last translations only if one of the two pages
\* has lost its frame since (or is page 0 of core 0 before it was ever looked up): the
\* unchecked shortcut is wrong in these cases and in no other.
OwnTranslation(t) == t \notin stolen /\ last_xlation[t].vpn[1] = t
CoresKeepApart ==
  \A t, u \in Threads :
    t # u /\ OwnTranslation(t) /\ OwnTranslation(u) =>
      last_xlation[t].pfn # last_xlation[u].pfn
=============================================================================
