------------------------------ MODULE Sessions ------------------------------
(***************************************************************************)
(* What an application takes a manager for: clients it creates and         *)
(* removes, and at most one session of each of them.                       *)
(***************************************************************************)
CONSTANTS
  Instance,
  Login      \* each login can begin a session, once

VARIABLES
  of,        \* the client each login is for
  clients,   \* the clients there are
  sessions,  \* the logins whose session goes on
  begun      \* those whose session ever began

Init ==
  /\ of \in [Login -> Instance]
  /\ clients = {} /\ sessions = {} /\ begun = {}

Create(i) ==
  /\ i \notin clients
  /\ clients' = clients \cup {i}
  /\ UNCHANGED <<of, sessions, begun>>

\* The client's session goes with it.
Remove(i) ==
  /\ i \in clients
  /\ clients' = clients \ {i}
  /\ sessions' = {l \in sessions : of[l] # i}
  /\ UNCHANGED <<of, begun>>

Begin(l) ==
  /\ of[l] \in clients /\ l \notin begun
  /\ \A m \in sessions : of[m] # of[l]
  /\ sessions' = sessions \cup {l}
  /\ begun' = begun \cup {l}
  /\ UNCHANGED <<of, clients>>

End(l) ==
  /\ l \in sessions
  /\ sessions' = sessions \ {l}
  /\ UNCHANGED <<of, clients, begun>>

Next ==
  \/ \E i \in Instance : Create(i) \/ Remove(i)
  \/ \E l \in Login : Begin(l) \/ End(l)

Spec == Init /\ [][Next]_<<of, clients, sessions, begun>>
=============================================================================
