----------------------------- MODULE ByteSource -----------------------------
(***************************************************************************)
(* What a request body promises to the connection that reads it: the bytes *)
(* 1..length, each once and in order, in pieces of any size, and no bytes  *)
(* only when all of them were read.  A reading may be given up at any time *)
(* and another one begun, of a body that may have another length.          *)
(***************************************************************************)
EXTENDS Naturals, Sequences

VARIABLES
  state,    \* "none", "ready", "reading", "ended", "failed" or "closed"
  length,   \* of the body
  received  \* what was read of it

vars == <<state, length, received>>

\* A byte is its place in the body.
Piece(from, n) == [i \in 1..n |-> from + i]
Whole(n) == Piece(0, n)

Init == state = "none" /\ length = 0 /\ received = <<>>

Begin ==
  /\ state' = "ready"
  /\ length' \in Nat
  /\ received' = <<>>

Open ==
  /\ state = "ready"
  /\ state' = "reading"
  /\ UNCHANGED <<length, received>>

Read ==
  /\ state = "reading"
  /\ \E n \in 1..(length - Len(received)) :
       received' = received \o Piece(Len(received), n)
  /\ UNCHANGED <<state, length>>

End ==
  /\ state = "reading"
  /\ received = Whole(length)
  /\ state' = "ended"
  /\ UNCHANGED <<length, received>>

Fail ==
  /\ state = "reading"
  /\ state' = "failed"
  /\ UNCHANGED <<length, received>>

Close ==
  /\ state' = "closed"
  /\ length' = 0
  /\ received' = <<>>

Next == Begin \/ Open \/ Read \/ End \/ Fail \/ Close

Spec == Init /\ [][Next]_vars
=============================================================================
