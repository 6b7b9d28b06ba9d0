------------------------------- MODULE Grants -------------------------------
(***************************************************************************)
(* What becomes of the authorization code of each login, as the account    *)
(* store and its clients have it: a code asked for a token ends in one     *)
(* account at most.  If the store forgets the client that asks, the token  *)
(* that may still come belongs to an orphan, an account of no type, which  *)
(* stays for ever; and no account that has ended comes back.               *)
(***************************************************************************)
CONSTANT Login

VARIABLE state

Becomes(logins, s) ==
  state' = [l \in Login |-> IF l \in logins THEN s ELSE state[l]]

In(states) == {l \in Login : state[l] \in states}

Init == state = [l \in Login |-> "new"]

Ask(l) ==
  /\ state[l] = "new"
  /\ Becomes({l}, "asked")

\* The login page was left with an error.
Decline(l) ==
  /\ state[l] = "new"
  /\ Becomes({l}, "over")

\* The store forgets every client that is pending.
Forget == Becomes(In({"asked"}), "forgotten")

Grant(l) ==
  \/ state[l] = "asked" /\ Becomes({l}, "account")
  \/ state[l] = "forgotten" /\ Becomes({l}, "orphan")

Refuse(l) ==
  /\ state[l] \in {"asked", "forgotten"}
  /\ Becomes({l}, "over")

EndAccounts(logins) ==
  /\ logins \subseteq In({"account"})
  /\ Becomes(logins, "over")

\* The process ends: the accounts are in the keychain.
Crash == Becomes(In({"asked", "forgotten"}), "over")

Next ==
  \/ \E l \in Login : Ask(l) \/ Decline(l) \/ Grant(l) \/ Refuse(l)
  \/ Forget
  \/ \E logins \in SUBSET Login : EndAccounts(logins)
  \/ Crash

Spec == Init /\ [][Next]_state
=============================================================================
