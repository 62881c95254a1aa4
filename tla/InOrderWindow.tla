--------------------------- MODULE InOrderWindow ----------------------------
(***************************************************************************)
(* What a core's reorder buffer promises: instructions leave in the order  *)
(* in which they came, no more than ROBSIZE of them are inside, and a load *)
(* does not leave before the memory has answered for its line.             *)
(***************************************************************************)
EXTENDS Naturals, Sequences

CONSTANTS Cores, Instructions, ROBSIZE

VARIABLES
  window,    \* per core, its instructions from the oldest to the youngest
  owed       \* per core, for each of them: it waits for the memory

InOrderInit ==
  /\ window = [c \in Cores |-> <<>>]
  /\ owed = [c \in Cores |-> <<>>]

Enter(c) ==
  /\ Len(window[c]) < ROBSIZE
  /\ \E i \in Instructions, w \in BOOLEAN :
       /\ window' = [window EXCEPT ![c] = Append(@, i)]
       /\ owed' = [owed EXCEPT ![c] = Append(@, w)]

\* The memory answers, maybe for several instructions and cores at once.
Answer ==
  /\ UNCHANGED window
  /\ \A c \in Cores :
       /\ Len(owed'[c]) = Len(owed[c])
       /\ \A i \in DOMAIN owed[c] : owed'[c][i] => owed[c][i]

Leave(c) ==
  /\ window[c] # <<>>
  /\ ~ Head(owed[c])
  /\ window' = [window EXCEPT ![c] = Tail(@)]
  /\ owed' = [owed EXCEPT ![c] = Tail(@)]

InOrderNext == Answer \/ \E c \in Cores : Enter(c) \/ Leave(c)

InOrderSpec == InOrderInit /\ [][InOrderNext]_<<window, owed>>
=============================================================================
