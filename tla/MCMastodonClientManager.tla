---- MODULE MCMastodonClientManager ----
(* MastodonClientManager with a few instances, logins and requests.        *)
EXTENDS MastodonClientManager, TLC

\* No action or property names an instance, a login or a request.
Symmetry == Permutations(Instance) \cup Permutations(Login) \cup Permutations(Request)
====
