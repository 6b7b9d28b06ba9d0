---------------------------- MODULE ListRegister ----------------------------
(***************************************************************************)
(* What a manager takes clientsList for: a list that a thread reads, and   *)
(* later writes as it has changed it, each in one step.  Nothing is        *)
(* promised of a list before it is open.                                   *)
(***************************************************************************)
CONSTANTS Place, Thread, Client, Nil

VARIABLES
  open,    \* the places whose list is a register
  lists,   \* the list in each place
  at,      \* the place a thread works in
  held     \* what a thread has read there, as it has changed it, or Nil

Init ==
  /\ open = {}
  /\ lists = [d \in Place |-> {}]
  /\ at \in [Thread -> Place]
  /\ held = [t \in Thread |-> Nil]

Changes(list) ==
  {list} \cup {list \cup {c} : c \in Client} \cup {list \ {c} : c \in Client}

Read(t) ==
  /\ at[t] \in open
  /\ \E list \in Changes(lists[at[t]]) : held' = [held EXCEPT ![t] = list]
  /\ UNCHANGED <<open, lists, at>>

Write(t) ==
  /\ at[t] \in open /\ held[t] # Nil
  /\ lists' = [lists EXCEPT ![at[t]] = held[t]]
  /\ held' = [held EXCEPT ![t] = Nil]
  /\ UNCHANGED <<open, at>>

\* The threads forget what they held, and may go on in another place.
Move(threads) ==
  /\ at' \in [Thread -> Place] /\ \A t \in Thread \ threads : at'[t] = at[t]
  /\ held' = [t \in Thread |-> IF t \in threads THEN Nil ELSE held[t]]
  /\ UNCHANGED <<open, lists>>

\* The threads that work in d may hold anything then, or be gone.
Open(d) ==
  /\ d \notin open
  /\ open' = open \cup {d}
  /\ \E list \in SUBSET Client : lists' = [lists EXCEPT ![d] = list]
  /\ at' \in [Thread -> Place] /\ held' \in [Thread -> {Nil} \cup SUBSET Client]
  /\ \A t \in Thread : at[t] # d => at'[t] = at[t] /\ held'[t] = held[t]

Next ==
  \/ \E t \in Thread : Read(t) \/ Write(t)
  \/ \E threads \in SUBSET Thread : Move(threads)
  \/ \E d \in Place : Open(d)

Spec == Init /\ [][Next]_<<open, lists, at, held>>
=============================================================================
