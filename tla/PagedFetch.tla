----------------------------- MODULE PagedFetch -----------------------------
(***************************************************************************)
(* A feed built from the pages of one paged fetch method: older pages with *)
(* the max_id, newer ones with the since_id that the completion of the     *)
(* last page handed on from the answer's Link header.  Items come and go   *)
(* meanwhile, a call to each end of the feed may be in flight, and calls   *)
(* fail.                                                                   *)
(*                                                                         *)
(* An item is its id, and ids grow.  The server and the application, which *)
(* this module needs to say what the ids are for, are external.            *)
(***************************************************************************)
EXTENDS Naturals, Sequences, FiniteSets

CONSTANTS
  MaxItem,  \* how many items are ever created
  Limit     \* items of a page

ASSUME PageAssumption == MaxItem \in Nat /\ Limit \in Nat \ {0}

Item == 1..MaxItem
nil == 0
End == {"older", "newer"}

VARIABLES
  items,    \* the server's collection
  created,  \* how many items were ever created
  feed,     \* what the application shows, newest first
  maxId,    \* of the last older page
  sinceId,  \* of the last newer page that was not empty
  walk,     \* "new" before the first page, "ended" after the last
  first,    \* the items there were when the first page was made
  call,     \* at each end of the feed: none, sent or answered
  page,     \* the items of an answer
  link,     \* its Link header
  gap       \* "possible" once a refresh had a full page

feedVars == <<feed, maxId, sinceId, walk, gap>>
callVars == <<call, page, link>>
vars == <<items, created, first, feedVars, callVars>>

Relation ==
  [rel : {"next", "prev"}, name : {"max_id", "since_id"}, id : Item]

TypeOK ==
  /\ items \subseteq Item /\ created \in 0..MaxItem
  /\ feed \in Seq(Item)
  /\ maxId \in Item \cup {nil} /\ sinceId \in Item \cup {nil}
  /\ walk \in {"new", "walking", "ended"}
  /\ first \subseteq Item
  /\ call \in [End -> {"none", "sent", "answered"}]
  /\ page \in [End -> SUBSET Item]
  /\ link \in [End -> Seq(Relation)]
  /\ gap \in {"impossible", "possible"}

Init ==
  /\ created \in 0..MaxItem /\ items = 1..created
  /\ feed = <<>> /\ maxId = nil /\ sinceId = nil
  /\ walk = "new" /\ first = {} /\ gap = "impossible"
  /\ call = [e \in End |-> "none"]
  /\ page = [e \in End |-> {}]
  /\ link = [e \in End |-> <<>>]

-----------------------------------------------------------------------------
(* The framework.                                                          *)

\* One of the two is left out.
ParametersNoSince(max, since) == {<<"max_id", max>>} \ {<<"max_id", nil>>}

\* An id that is nil is no parameter.
Parameters(max, since) ==
  {p \in {<<"max_id", max>>, <<"since_id", since>>} : p[2] # nil}

\* Only the header's first relation is looked at.
IdFromFirstRelation(header, rel, name) ==
  IF header = <<>> THEN nil
  ELSE IF Head(header).rel = rel THEN Head(header).id ELSE nil

\* getMaxIdFromResponse: and getSinceIdFromResponse: are this for "next" and
\* "max_id", "prev" and "since_id": the first such relation of the header.
IdFromResponse(header, rel, name) ==
  LET found == {k \in DOMAIN header : header[k].rel = rel /\ header[k].name = name}
  IN  IF found = {} THEN nil
      ELSE header[CHOOSE k \in found : \A j \in found : k <= j].id

MaxIdFromResponse(header) == IdFromResponse(header, "next", "max_id")
SinceIdAfter(header) ==
  LET id == IdFromResponse(header, "prev", "since_id")
  IN  IF id = nil THEN nil ELSE id + 1
SinceIdFromResponse(header) == IdFromResponse(header, "prev", "since_id")

\* What a call at an end of the feed is called with.
CallParameters(e) ==
  IF e = "older" THEN Parameters(maxId, nil) ELSE Parameters(nil, sinceId)

-----------------------------------------------------------------------------
(* The server.                                                             *)

Newest(n, S) == {i \in S : Cardinality({j \in S : j > i}) < n}

\* Paged by id: the newest Limit items that the parameters leave.
ServerPage(params) ==
  Newest(Limit, {i \in items : /\ \A p \in params : p[1] = "max_id" => i < p[2]
                               /\ \A p \in params : p[1] = "since_id" => i > p[2]})

Oldest(S) == CHOOSE i \in S : \A j \in S : i <= j
Latest(S) == CHOOSE i \in S : \A j \in S : i >= j

\* Links for a page, in any order; no next if the page is not full, perhaps.
Links(S) ==
  LET next == [rel |-> "next", name |-> "max_id", id |-> Oldest(S)]
      prev == [rel |-> "prev", name |-> "since_id", id |-> Latest(S)]
  IN  IF S = {} THEN {<<>>}
      ELSE {<<next, prev>>, <<prev, next>>} \cup
             IF Cardinality(S) < Limit THEN {<<prev>>} ELSE {}

Serve(e) ==
  /\ call[e] = "sent"
  /\ call' = [call EXCEPT ![e] = "answered"]
  /\ LET S == ServerPage(CallParameters(e))
     IN  /\ page' = [page EXCEPT ![e] = S]
         /\ \E l \in Links(S) : link' = [link EXCEPT ![e] = l]
  /\ first' = IF walk = "new" THEN items ELSE first
  /\ UNCHANGED <<items, created, feedVars>>

Create ==
  /\ created < MaxItem
  /\ created' = created + 1
  /\ items' = items \cup {created'}
  /\ UNCHANGED <<first, feedVars, callVars>>

Delete(i) ==
  /\ i \in items
  /\ items' = items \ {i}
  /\ UNCHANGED <<created, first, feedVars, callVars>>

-----------------------------------------------------------------------------
(* The application.                                                        *)

\* One call at each end; a refresh only when the first page was shown.
Fetch(e) ==
  /\ call[e] = "none"
  /\ e = "older" => walk # "ended"
  /\ e = "newer" => walk # "new"
  /\ call' = [call EXCEPT ![e] = "sent"]
  /\ UNCHANGED <<items, created, first, feedVars, page, link>>

Ended(e) ==
  /\ call' = [call EXCEPT ![e] = "none"]
  /\ page' = [page EXCEPT ![e] = {}]
  /\ link' = [link EXCEPT ![e] = <<>>]

CallFails(e) ==
  /\ call[e] # "none"
  /\ Ended(e)
  /\ UNCHANGED <<items, created, first, feedVars>>

\* A page as its array.
NewestFirst(S) ==
  [k \in 1..Cardinality(S) |->
     CHOOSE i \in S : Cardinality({j \in S : j > i}) = k - 1]

ShowOlder ==
  /\ call["older"] = "answered"
  /\ feed' = feed \o NewestFirst(page["older"])
  /\ maxId' = MaxIdFromResponse(link["older"])
  /\ walk' = IF maxId' = nil THEN "ended" ELSE "walking"
  /\ sinceId' = IF walk = "new" THEN SinceIdFromResponse(link["older"]) ELSE sinceId
  /\ Ended("older")
  /\ UNCHANGED <<items, created, first, gap>>

\* An empty page has no Link header: the old id stays.
ShowNewer ==
  LET since == SinceIdFromResponse(link["newer"])
  IN
  /\ call["newer"] = "answered"
  /\ feed' = NewestFirst(page["newer"]) \o feed
  /\ sinceId' = IF since = nil THEN sinceId ELSE since
  /\ gap' = IF Cardinality(page["newer"]) = Limit THEN "possible" ELSE gap
  /\ Ended("newer")
  /\ UNCHANGED <<items, created, first, maxId, walk>>

Next ==
  \/ Create
  \/ \E i \in Item : Delete(i)
  \/ \E e \in End : Fetch(e) \/ Serve(e) \/ CallFails(e)
  \/ ShowOlder
  \/ ShowNewer

Spec == Init /\ [][Next]_vars
-----------------------------------------------------------------------------
(* Properties.                                                             *)

Shown == {feed[k] : k \in 1..Len(feed)}

\* The feed is in order and shows nothing twice, whatever the two ends fetch
\* at the same time: no page overlaps what is shown (getMaxIdFromResponse:,
\* getSinceIdFromResponse:, MastodonClientManager.m 2260-2355).
FeedIsSorted == \A k \in 1..(Len(feed) - 1) : feed[k] > feed[k + 1]

\* The walk to older pages misses nothing that was there when it began and is
\* there still, down to the id it has come to.
WalkMissesNothing ==
  walk # "new" =>
    \A i \in first \cap items :
      walk = "ended" \/ i >= maxId => i \in Shown

\* Refreshes miss nothing up to the id they have come to, as long as none had
\* a full page.
RefreshMissesNothing ==
  gap = "impossible" =>
    \A i \in items : i <= sinceId /\ (walk = "ended" \/ i >= maxId) => i \in Shown

\* Both walks make progress, whatever was deleted and in whatever order the
\* relations come: no page is fetched again for ever, since the next older page
\* is of smaller ids, and a newer page with an item moves the refreshes on
\* (getMaxIdFromResponse:, getSinceIdFromResponse:, MastodonClientManager.m
\* 2260-2355).
PagesAdvance ==
  [][/\ ShowOlder /\ walk = "walking" => maxId' < maxId
     /\ ShowNewer /\ page["newer"] # {} => sinceId' > sinceId]_vars
=============================================================================
