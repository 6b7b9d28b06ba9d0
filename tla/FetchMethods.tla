---------------------------- MODULE FetchMethods ----------------------------
(***************************************************************************)
(* The fetch methods of MastodonClientManager and the blocks through which *)
(* MastodonAPI hands on what they make.                                    *)
(*                                                                         *)
(* A method is what its responseHandler does with an answer: which JSON    *)
(* class it expects and what it makes of it.  Methods of one name are told *)
(* apart by their second argument.                                         *)
(***************************************************************************)
EXTENDS Naturals, Sequences, TLC

One(class) == <<class>>
ListOf(class) == <<"NSArray", class>>
RawData == <<"NSData">>
Nothing == <<>>

\* error, then JSON, then its class.
Makes(class) == [handler |-> "parses", json |-> "dictionary", made |-> One(class)]
MakesList(class) == [handler |-> "parses", json |-> "array", made |-> ListOf(class)]

\* error, and no look at the data.
Acknowledges == [handler |-> "acknowledges", json |-> "dictionary", made |-> RawData]

-----------------------------------------------------------------------------
(* The handlers, in the order of MastodonClientManager.m.                  *)

RelationshipHandlers ==
  [fetchAccountRelationships |-> MakesList("MastodonRelationship")]

NotificationHandlers ==
  [fetchNotifications |-> MakesList("MastodonNotification"),
   fetchNotification |-> Makes("MastodonAccount"),
   clearNotification |-> [Acknowledges EXCEPT !.handler = "ignores"]]

ReportHandlers ==
  [fetchReports |-> MakesList("MastodonReport"),
   reportUser |-> Makes("MastodonReport")]

SearchAndStatusHandlers ==
  [search |-> Makes("MastodonSearchResult"),
   fetchStatus |-> Makes("MastodonStatus"),
   fetchStatusContext |-> Makes("MastodonContext")]

StatusDetailHandlers ==
  [fetchStatusCard |-> Makes("MastodonCard"),
   fetchStatusRebloggedBy |-> MakesList("MastodonAccount")]

FavouritedByHandlers ==
  [fetchStatusFavouritedBy |-> MakesList("MastodonAccount")]

PostHandlers ==
  [postStatus |-> Makes("MastodonStatus"), deleteStatus |-> Makes("MastodonStatus")]

\* The callers of statusesOperation, which have its handler.
StatusOperations ==
  {"reblogStatus", "unreblogStatus", "favouriteStatus", "unfavouriteStatus"}

StatusOperationHandlers == [m \in StatusOperations |-> Makes("MastodonStatus")]

\* The callers of accountOperation, which have its handler.
AccountOperations ==
  {"followAccount", "unfollowAccount", "blockAccount", "unblockAccount",
   "muteAccount", "unmuteAccount"}

AccountOperationHandlers == [m \in AccountOperations |-> Makes("MastodonAccount")]

FollowRequestHandlers ==
  [apporveFollowRequest |-> Acknowledges,
   rejectFollowRequest |-> Acknowledges,
   followAccountUri |-> [Makes("MastodonAccount") EXCEPT !.handler = "inverted"]]

MutesAndBlocksHandlers ==
  [m \in {"fetchCurentUserMutes", "fetchCurentUserBlocks"} |->
     MakesList("MastodonAccount")]

FavouritesHandlers ==
  [fetchCurentUserStatuses |-> MakesList("MastodonStatus"),
   fetchCurentUserFollowRequests |-> MakesList("MastodonAccount")]

AccountStatusesHandlers ==
  [fetchAccountStatuses |-> MakesList("MastodonStatus"),
   fetchAccountFollowing |-> MakesList("MastodonAccount")]

AccountHandlers ==
  [fetchAccountFollowers |-> MakesList("MastodonAccount"),
   fetchCurentUserAccountInfo |-> Makes("MastodonAccount")]

AccountInfoHandlers == [fetchAccountInfo |-> Makes("MastodonAccount")]

TagsAndPublicHandlers ==
  [m \in {"fetchTagsTimeline", "fetchPublicTimeline"} |-> MakesList("MastodonStatus")]

HomeAndLocalHandlers ==
  [m \in {"fetchHomeTimeline", "fetchLocalTimeline"} |-> MakesList("MastodonStatus")]

UploadHandlers == [uploadFile |-> Makes("MastodonAttachment")]

Handlers ==
  RelationshipHandlers @@ NotificationHandlers @@ ReportHandlers @@
  SearchAndStatusHandlers @@ StatusDetailHandlers @@ FavouritedByHandlers @@
  PostHandlers @@ StatusOperationHandlers @@ AccountOperationHandlers @@
  FollowRequestHandlers @@ MutesAndBlocksHandlers @@ FavouritesHandlers @@
  AccountStatusesHandlers @@ AccountHandlers @@ AccountInfoHandlers @@
  TagsAndPublicHandlers @@ HomeAndLocalHandlers @@ UploadHandlers

-----------------------------------------------------------------------------
(* What the successBlock of each method of MastodonAPI takes, in the order *)
(* of MastodonAPI.m.                                                       *)

NotificationBlocks ==
  [fetchNotifications |-> ListOf("MastodonNotification"),
   fetchNotification |-> One("MastodonNotification"),
   clearNotification |-> Nothing,
   fetchReports |-> ListOf("MastodonReport"),
   reportUser |-> One("MastodonReport"),
   search |-> One("MastodonSearchResult")]

StatusBlocks ==
  [fetchStatus |-> One("MastodonStatus"),
   fetchStatusContext |-> One("MastodonContext"),
   fetchStatusCard |-> One("MastodonCard"),
   fetchStatusRebloggedBy |-> ListOf("MastodonAccount"),
   fetchStatusFavouritedBy |-> ListOf("MastodonAccount")]

StatusOperationBlocks ==
  [postStatus |-> One("MastodonStatus"), deleteStatus |-> Nothing] @@
  [m \in StatusOperations |-> One("MastodonStatus")]

AccountOperationBlocks ==
  [m \in AccountOperations |-> One("MastodonAccount")]

FollowRequestBlocks ==
  [apporveFollowRequest |-> Nothing,
   rejectFollowRequest |-> Nothing,
   followAccountUri |-> One("MastodonAccount")]

AccountBlocks ==
  [fetchCurentUserAccountInfo |-> One("MastodonAccount"),
   fetchAccountFollowers |-> ListOf("MastodonAccount"),
   fetchAccountFollowing |-> ListOf("MastodonAccount"),
   fetchAccountStatuses |-> ListOf("MastodonStatus"),
   fetchAccountRelationships |-> ListOf("MastodonRelationship")]

CurrentAccountBlocks ==
  [fetchAccountInfo |-> One("MastodonAccount"),
   fetchCurentUserBlocks |-> ListOf("MastodonAccount"),
   fetchCurentUserStatuses |-> ListOf("MastodonStatus"),
   fetchCurentUserFollowRequests |-> ListOf("MastodonAccount"),
   fetchCurentUserMutes |-> ListOf("MastodonAccount")]

TimelineBlocks ==
  [m \in DOMAIN TagsAndPublicHandlers \cup DOMAIN HomeAndLocalHandlers |->
     ListOf("MastodonStatus")] @@
  [uploadFile |-> One("MastodonAttachment")]

Blocks ==
  NotificationBlocks @@ StatusBlocks @@ StatusOperationBlocks @@
  AccountOperationBlocks @@ FollowRequestBlocks @@ AccountBlocks @@
  CurrentAccountBlocks @@ TimelineBlocks
=============================================================================
