-------------------------- MODULE MCFetchPipeline --------------------------
EXTENDS FetchPipeline, FetchMethods

\* One method of each kind: a list, an object, an object that no block takes,
\* and the handlers that are written differently.
EachKind == {"fetchHomeTimeline", "fetchStatus", "deleteStatus",
             "apporveFollowRequest", "clearNotification", "followAccountUri"}
Symmetry == Permutations(Call) \cup Permutations(Account)

\* Every method has a block, and all but three make what it takes.
ASSUME MethodsAreFaithful ==
  /\ DOMAIN Handlers = DOMAIN Blocks
  /\ {m \in DOMAIN Handlers : ~Faithful(m)} =
       {"fetchNotification", "clearNotification", "followAccountUri"}
=============================================================================
