------------------------------ MODULE Exchanges ------------------------------
(***************************************************************************)
(* What those who perform requests with an NXOAuth2Client take it for: a   *)
(* request goes out, may be held for another token as often as it is       *)
(* refused, and has one end.  Those that are held go out again, or are     *)
(* given up, together.                                                     *)
(***************************************************************************)
CONSTANT Connection

VARIABLE state

Becomes(connections, s) ==
  state' = [c \in Connection |-> IF c \in connections THEN s ELSE state[c]]

Init == state = [c \in Connection |-> "idle"]

Start(c) ==
  /\ state[c] = "idle"
  /\ Becomes({c}, "sent") \/ Becomes({c}, "held")

Answer(c) ==
  /\ state[c] = "sent"
  /\ Becomes({c}, "answered")

Hold(c) ==
  /\ state[c] = "sent"
  /\ Becomes({c}, "held")

\* Some of those that are held: another may have asked in vain and stays.
Release(connections) ==
  /\ \A c \in connections : state[c] = "held"
  /\ Becomes(connections, "sent") \/ Becomes(connections, "dropped")

\* The process ends.
Crash == Becomes({c \in Connection : state[c] \in {"sent", "held"}}, "lost")

Next ==
  \/ \E c \in Connection : Start(c) \/ Answer(c) \/ Hold(c)
  \/ \E connections \in SUBSET Connection : Release(connections)
  \/ Crash

Spec == Init /\ [][Next]_state
=============================================================================
