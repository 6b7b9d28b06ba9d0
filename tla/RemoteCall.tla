----------------------------- MODULE RemoteCall -----------------------------
(***************************************************************************)
(* What an application takes a fetch method for: the server does what a    *)
(* call asks at most once, and the call is answered at most once, as       *)
(* "declined" if nothing was sent, as "success" if it was done, as         *)
(* "failure" if it may or may not have been.  A method that does not look  *)
(* at the outcome, or makes something else of the answer than its block    *)
(* takes, answers "unchecked".                                             *)
(***************************************************************************)
EXTENDS Naturals

CONSTANT Call

VARIABLES
  state,   \* "new", "open" or "over"
  done,    \* how often the server did it
  answer   \* "none", or what the one answer says

vars == <<state, done, answer>>

Init ==
  /\ state = [c \in Call |-> "new"]
  /\ done = [c \in Call |-> 0]
  /\ answer = [c \in Call |-> "none"]

Ask(c) ==
  /\ state[c] = "new"
  /\ state' = [state EXCEPT ![c] = "open"]
  /\ UNCHANGED <<done, answer>>

Perform(c) ==
  /\ state[c] = "open" /\ done[c] = 0
  /\ done' = [done EXCEPT ![c] = 1]
  /\ UNCHANGED <<state, answer>>

Ends(c, how) ==
  /\ state' = [state EXCEPT ![c] = "over"]
  /\ answer' = [answer EXCEPT ![c] = how]
  /\ UNCHANGED done

Decline(c) == state[c] = "new" /\ Ends(c, "declined")

Answer(c) ==
  /\ state[c] = "open"
  /\ \/ done[c] = 1 /\ Ends(c, "success")
     \/ Ends(c, "failure")
     \/ Ends(c, "unchecked")

\* Dropped with the token it waits for, or its answer cannot be read.
GiveUp(c) == state[c] = "open" /\ Ends(c, "none")

Next ==
  \E c \in Call :
    Ask(c) \/ Perform(c) \/ Decline(c) \/ Answer(c) \/ GiveUp(c)

Spec == Init /\ [][Next]_vars
=============================================================================
