# MastodonKit in TLA+

MastodonKit is an Objective-C framework that logs in to Mastodon instances and
fetches from their API. These modules model the parts of it that have state and
keep it across callbacks, threads and restarts: the OAuth2 client with its queue
of waiting requests, the body of a request, the store of accounts, the list of
clients and where it is saved, the login; and what a fetch does from its call to
its block, method by method, and from one page to the next. TLC checks them on
small instances; TLAPS proves for any instance every property but liveness, and
that the modules keep the contracts they assume of each other.
Paths are relative to `src/`; `OAuth2Client/` stands for
`Dependency/Sources/OAuth2Client/`.

## The system

| component | state | operations |
|---|---|---|
| `NXOAuth2Client` | `accessToken`, `authConnection`, `waitingConnections`, `refreshConnectionDidRetryCount`, pending delayed performs, weak `delegate` | `openRedirectURL:error:`, `refreshAccessTokenAndRetryConnection:`, `requestAccessAndRetryConnection:`, `setAccessToken:`, the two `oauthConnection:did...` callbacks |
| `NXOAuth2Connection` | the `NSURLConnection` on the wire, the response, the `responseHandler` | `createConnection` (signs, or asks for a refresh instead), `cancel`, `retry`, `didReceiveResponse:`, `connectionDidFinishLoading:`, `didFailWithError:` |
| `NXOAuth2Account` | its own copy of the token, its client | the client's delegate callbacks, `NSCoding` |
| `NXOAuth2AccountStore` | `accountsDict` (a copy is in the keychain), `configurations`, `pendingOAuthClients` | `setClientID:...`, `requestAccessToAccountWithType:withPreparedAuthorizationURLHandler:`, `handleRedirectURL:`, the delegate callbacks of pending clients, `removeAccount:`, two notifications |
| `MastodonClientManager` | `clientsList` in the user defaults; each read unpacks new `MastodonClient` objects | `createClient:`, `removeClient:`, `registerApplication...`, `loginWithClient:`, `updateClient:`, `performMethod:...` |
| `MastodonLoginViewController` | its web page, two observers of the store, three blocks | `viewDidLoad`, `dismiss:`, `shouldStartLoadWithRequest:` |
| `NSUserDefaults+MastodonKit` | one dictionary, application name to list, and the last used client; in the standard defaults or those of an app group | the getter (which also writes), the setter, both for the list and for the last used client |
| `MastodonAPI` | the one manager | both launches, a facade of the manager |
| `NXOAuth2PostBodyStream` | a list of streams, the current one; the stream of a file wrapper is the request's, not the body's | `initWithParameters:`, `open`, `read:maxLength:`, `close` |
| fetch methods | none of their own; each call its completion, an answer its `maxId` and `sinceId` | about fifty, each with its `responseHandler` and its pair of blocks |
| models, URL and string helpers | none | pure |

**How they interact.** A fetch calls `performMethod:`, which makes an
`NXOAuth2Request` of an account; its `NXOAuth2Connection` asks the account's
`NXOAuth2Client` for a token, and when the server refuses it, for a refresh or
for authentication; the client tells its delegate, first the store, then the
account; account and store post notifications; the login views listen to them and
call the completions of `loginWithClient:`, which write the list of clients.
Almost everything runs on the main thread. The exception is the answer to a
registration, handled on the delegate queue of `NSURLSession`, which writes the
list, configures the store and goes on with the login there. The list itself may
be in the defaults of an app group, which other applications and extensions read
and write as a whole. A request with parts hands `NSURLConnection` a body stream,
and makes it again for each retry and whenever the connection asks.

**What is hard.** Several requests are refused at once and must share one
refresh. A refresh fails for good, for now (a delayed retry), or is itself
challenged. Tokens change while requests signed with the old one are in flight.
Observers outlive their view. Two threads read, change and write one list, and
reading it may write it. A body is read in pieces of any size, given up, and
begun again with a stream that was half read. Items come and go between two
pages. The process ends anywhere, and only the keychain and the defaults are left.

**What makes it correct.** Client: no request is queued twice or lost, whoever
waits has something to wake it, a retry is signed with a newer token. Account: the
keychain never holds another token than the client's. Store: the token reaches the owner of
the client; a pending client stays until its request is answered. Manager: what
the list calls registered is configured in the store, every account's instance
is listed, a login is answered once it began and with the truth. Fetch: a call is
answered once, told success only for what the server did, and given what its
block declares; pages put together have no hole and nothing twice. Saved list: a
read or a write of a list that is there is as good as one step, and no
application's list gets another's clients. Body: read to its end, and the
announced bytes unless the header shows that it is not.
`PROJECT.json` lists each hazard at its line.

## The modules

### `NXOAuth2Client.tla`: one client, its connections and its account

A token is its generation (`gen`; 0 is nil), so "newer" and "the same" can be
said and nothing else. `auth` is what `authConnection` asks for (`"self"`: a
refresh that was queued behind itself), `waiting` is the bag
`waitingConnections`, `conn[c]` and `signed[c]` say where a request is and what
signed it, `revoked` and `lapsed` are the server's view of the tokens and the
expiry date on our clock. `owner` is the delegate (the store, the account, or an
account without a type), `accToken`, `place` and `keychain` are the account's copy, its
place in the store, and its entry in the keychain.

Each action is one callback on the main run loop, run to completion with every
call it makes: `AuthDidFinish` is `oauthConnection:didFinishWithData:` with
`setAccessToken:`, the delegate's reaction, the save in the keychain and the
retries. `didReceiveResponse:` and `connectionDidFinishLoading:` are one action
because nothing the second reads can change between them. `Invalidate`,
`SaveAccounts`, `RemoveAccount` and `Restart` are the environment.

### `MastodonClientManager.tla`: the list, the login, the store

`listed`, `saved` and `authorized` are the saved list; `reg[l]` and `reqReg[r]`
are the copies of a client that a login and a fetch hold, and later write back.
`config`, `pending`, `accounts` and `orphans` are the store. `stage` follows a
login through registration, the delegate queue, the main queue and the web page;
`code` and `codeAt` follow its authorization code to a pending client. A login
names what it makes: the registration it obtains, its code, its account.

`RegistrationSucceeds` and `SaveRegistration` are the read and the write of
`updateClient:` on the delegate queue; everything the main thread does can come
between, and the write then hides it, or is hidden by a write of the main thread that began
with an older read. The other read-change-write sequences run on the main thread and are
atomic among themselves. That one read or write of the whole list is one step
is what `ClientsStore.tla` shows. `Observers` are the login views ever loaded: the
observers of `viewDidLoad` are never removed, so each of them reacts to each
notification; blocks run in any order, of which only the registration that is
written last can tell (`SavedBySuccess`).

`Application` says what the application does: `"any"` calls anything at any
time, `"careful"` creates, removes and logs in nothing while a login runs.
`Launch` is how it is launched.

### `Exchanges.tla` and `Grants.tla`: what the client promises its users

Two other modules need a client, and model only what they need of it; these are
the contracts on which the models meet.

`Exchanges` is a connection as a fetch sees it: sent, held as often as it is
refused, released with others that were held, and ended once.
`NXOAuth2Client.tla` shows that its requests are exchanges (`IsExchange`), with
`ExchangeOf` made of `conn` and the queue; `FetchPipeline.tla`, whose `Challenge`,
`Retry` and `Drop` stand for all that a client does, shows that it expects no
less than that (`UsesExchange`).

`Grants` is what becomes of the code of a login: it ends in one account at most,
or in an orphan, if the store forgot the client that asks for its token, and an
account that ended does not come back. `NXOAuth2Client.tla` shows it of its one
client and that client's owner, `MastodonClientManager.tla` of every login at once
(`IsGrant` in both), whose actions have one step where the client has a
connection, a token and a delegate.

### `Sessions.tla`: what an application takes the manager for

Clients that it creates and removes, and at most one session of each. The list
is the set of clients, an account is the session of the login that made it, and
a login whose code was granted has had its session (`Session` in
`MastodonClientManager.tla`). Registrations, configurations, pending clients,
pages, codes and the second thread do not show. `IsSession` holds for a careful
application only: one that removes a client while its login runs gets a session
of no client.

### `ClientsStore.tla` and `ListRegister.tla`: where the list is saved

Each access to `NSUserDefaults` is a step: `Read` is the `dictionaryForKey:` that
getter and setter begin with, `WriteEmpty` and `Write` the `setObject:forKey:`
of the empty dictionary and of the one with the list. The getter writes when
there is no list; the process may end between any two steps. `Where` is
`appGroupUserDefault:`: the launch reads the standard defaults before the
manager is told of its group, so a manager with a group has never made the
group's list when it first reads it.
A thread's `op` is the method it is in; what `createClient:`, `removeClient:`
and `updateClient:` do with the list between their read and their write is
`Changed` and `Writes`. `lastUsed` is written by `performMethod:` where the
manager works, and read by `lastUsedClient` from the standard defaults: the group's
value is never read, and a fetch of a manager with a group leaves what
`lastUsedClient` answers as it was.

`ListRegister` is what `MastodonClientManager.tla` relies on: a list read in one
step, and written in one step as the reader has changed it. The refinement says
of which lists the code promises that: of one that is there, and that nobody is
about to replace by an empty one (`Settled`). A launch without a group makes the
list before a second thread can come; in a group nothing does, and the first
clients of two members may be lost to each other's empty list. Before a list is
settled the register promises nothing.

### `PostBodyStream.tla` and `ByteSource.tla`: the body of a request

A byte is its place in the body, so a wrong, missing or repeated byte can be told
from the right one. `FromCurrent` says which stream a `read:maxLength:`
arrives at: the code goes on to the next stream when the current one has nothing
left, and calls itself again when that one is empty too. `CreateConnection`
is a request or its retry, which makes the header and the body together;
`NeedNewBodyStream` makes another body, with a boundary of its own, and leaves the
header. The stream in an `NXOAuth2FileStreamWrapper` belongs to the caller:
`FreshPositions` leaves it where it is, `shut` says that a body closed it, and
`CancelledConnectionCloses` lets the connection a retry replaced do so late.

`ByteSource` is what a connection is promised. A body implements it as long as
none of its streams was read for another body before (`Intact`); what remains of
the promise for the others is `DamageShows`. The message that
`NXOAuth2PostBodyStream.m:123` keeps for a body without streams is logged for
one that has them, and conversely: the condition is the wrong way round, without
effect on the state.

### `FetchMethods.tla`: the table of fetch methods

Every fetch method of `MastodonClientManager.m` as an entry of `Handlers`: how its
`responseHandler` goes about an answer (`"parses"`: error, then JSON, then its
class; `"acknowledges"`: the error only; `"ignores"` and `"inverted"`: the two
that are written differently), the JSON class it expects and the class it makes.
`Blocks` is what the `successBlock` of the same method of `MastodonAPI` takes.
`MCFetchPipeline.tla` asserts over the whole table which methods make something
other than what their block takes (`MethodsAreFaithful`): three.

### `FetchPipeline.tla`: a call, from its start to its block

For each call the module keeps the method, the account it was made `using`, the
`phase` of its request, how often the server has `done` what it asks, the `error`
and the class of the `body` it was answered with, and what its `blocks` were
`told`. `FetchWithoutAccount` and `Fetch` are the two branches of a fetch method;
`ServerPerforms`, `ServerFails`, `ServerRefuses` and `NetworkFails` are the ways a
connection ends (`connectionDidFinishLoading:`, `connection:didFailWithError:`);
`Challenge`, `Retry` and `Drop` are all that `NXOAuth2Client.tla` does to a single
connection; `Answer` is the handler of `performMethod:` with the method's own
handler and the block. A response with an empty body leaves an `NSData` of no
bytes, which is no JSON; only a connection that never had a response ends with
nil. `Handle` is written over the entry of the method, so the module's
properties are about any table, and `FetchPipelineProofs.tla` proves them so.

`RemoteCall.tla` is what an application takes a fetch method for: the server does
what it asks at most once, and then there is at most one answer, which is
`"success"` only if it was done, `"declined"` only if nothing was sent, and
otherwise `"failure"`, which does not say. `IsRemoteCall` shows that every call
implements it; the answer of a method that is not `Faithful`, because it does not
look at the error (`"ignores"`, `"inverted"`) or makes what its block does not take,
is `"unchecked"`: one answer, of which nothing more is promised.

Left out: blocks and upload data that are nil (the headers declare the blocks
`_Nullable`, the code calls them unchecked), arrays of anything but
dictionaries, and the list of clients, which a refusal changes too
(`MastodonClientManager.tla`).

### `PagedFetch.tla`: a feed put together from pages

`Parameters` is how a fetch method makes its parameters, `IdFromResponse` how the
completion's `maxId` and `sinceId` are found in the `Link` header. What these are
for needs a server that pages by id and an application that walks down and
refreshes; both are external, and so is their bookkeeping (`feed`, `walk`, `gap`).
An answer is served at some moment between the call and its block, and items are
created and deleted all the time. Only the followers and following methods of
`MastodonAPI` hand both ids through; an application uses the manager's own
methods for the rest.

### The proof modules

`NXOAuth2ClientProofs.tla`, `MastodonClientManagerProofs.tla`,
`CarefulApplicationProofs.tla` (which builds on the one before),
`ClientsStoreProofs.tla`, `PostBodyStreamProofs.tla`, `FetchPipelineProofs.tla`
and `PagedFetchProofs.tla` hold the theorems about the modules they extend;
`LeastNumber.tla` has the two lemmas on least and greatest numbers that two of
them use where one would write an induction.

### Assumptions about what is outside `src/`'s control

* iOS: on macOS `loginWithClient:` hands the URL to the application and its
  completion never hears of the login's end.
* Assertions are enabled, as in a debug build: a failed one ends the process
  (`aborted`).
* The redirect URL has a scheme of its own, as the launch asks.
* The application takes its clients from `clientsList` and does not call the
  framework from within a completion.
* The answer to a registration is a JSON dictionary or no JSON: any other JSON
  raises in its handler (`MastodonClientManager.m:164`), which ends the process,
  and of that the model has the end only (`Restart`).
* A token response of status below 400 is well formed and its token not yet
  expired.
* A server grants a code only if it issued it.
* `NSUserDefaults` reads and sets a value in one step, seen by every thread and
  process at once. (A second process may in fact see it late; nothing in the
  code waits for it.)
* One thread launches the framework, and nobody calls it before the launch is over.
* `NSURLConnection` opens, reads and closes a body in this order, reads no more
  after it has read nothing, and asks for a new body while it has one.
* A file of a part does not change its length between two bodies. Its stream may
  fail at any read, like a wrapper's (`ReadFails`).

## The runs

| run | bounds | what it shows |
|---|---|---|
| `client_safety` | 3 requests, any challenge, any failure, 3 tokens | `TypeOK`, `QueuedOnceAndOffTheWire`, `WaitersHaveAWaker`, `RefreshKeepsItsToken`, `KeychainIsCurrent`, `RetrySignsNewerToken`, the refinements `IsExchange`, `IsGrant` |
| `client_refreshable` | 2 requests, challenges that name the token, refresh tokens always granted, any failure of the token endpoint, 3 tokens | `ParkedIsQueued`, with fairness `QueueIsEmptied`, `EveryRequestEnds` |
| `client_self_wait` | 2 requests, any failure, 2 tokens | with fairness, a refresh refused as invalid waits for itself for ever, and the account stays (`NXOAuth2Connection.m:479`) |
| `client_invalid_state` | 2 requests | the assertion `NXOAuth2Client.m:455` can fail |
| `client_needs_authentication` | 2 requests | an account is asked to authenticate (`NXOAuth2Account.m:164`) |
| `manager_any` | 2 instances, 2 logins, 1 fetch, `"any"` | `TypeOK`, `RegisteredIsConfigured`, `LoginHasUrl`, `CodeHasItsPendingClient`, `GrantTellsItsLogin`, the refinement `IsGrant`, and with fairness `LoginIsAnswered`, `CodeIsAnswered` |
| `manager_careful` | 2 instances, 3 logins, 1 fetch, `"careful"` | `NeverAborted`, the refinement `IsSession`, no deadlock |
| `manager_group` | 1 instance, launched with a group | a registered client is not configured after a relaunch |
| `clients_store` | 2 applications, 2 threads, 2 names, 1 client, with and without a group | `TypeOK`, `ListsAreOwn`, `LastUsedIsOwn`, `LaunchSettles`, the refinement `IsListRegister`, no deadlock |
| `post_body` | 2 parts, one of them empty, wrapped or not; 2 boundaries; buffers of 1 and 4; 3 bodies | `TypeOK`, `DamageShows`, the refinement `IsByteSource`, with fairness `BodyEnds`, no deadlock |
| `fetch_calls` | 2 calls of 6 methods, 2 accounts | `TypeOK`, `AnsweredOnce`, `OnlyOddAnswersRaise`, `RefusalCostsItsAccount`, the refinements `IsRemoteCall`, `UsesExchange` |
| `paged_fetch` | 6 items, pages of 2 | `TypeOK`, `FeedIsSorted`, `WalkMissesNothing`, `RefreshMissesNothing`, no deadlock |

**Why the bounds are enough.** Two requests are what sharing a refresh, a
spurious timer and every order of challenge and refresh need; the third shows
that nothing depends on there being one other. Three generations give an old, a
current and a new token, so a retry may be refused again. The four delayed tries
are the code's own bound. Two instances are needed for a code or a success to go
astray, two logins to share a pending client, and a third to leave an account
behind before them. Registrations, codes and accounts are bounded by the number
of logins; no counter is cut but `gen` (`MaxGen`, in `Invalidate`). `fetch_calls`
has one method of each kind, since no property tells two classes of model
objects apart (an object, a list, an object that no block takes, and the three
unusual handlers), and two calls and two accounts, for a refusal that comes after
the next login. `paged_fetch` has room for three pages and for a refresh that is
full and one that is not; `MaxItem` is its only bound. `clients_store` has two
threads and two applications in any assignment, so that the threads meet in one
process, in one group, or not at all; two names, equal or not; one client is
enough, since a list's own and another's differ by name, and its loss shows in an
empty list. `post_body` has a part that is shorter than any buffer but the
smallest and one of no bytes, and boundaries of different lengths, so that a
damaged body can have the length that the header announces; the third body is the
first whose predecessor was itself begun late. `MaxBodies` is its only bound;
the code has none.

**Deadlock.** `manager_careful`, `clients_store`, `post_body` and `paged_fetch`
are checked for it: a process can always end and start again, a closed body can
be opened again, the user can always ask for newer items. The other runs stop
where an assertion or an exception ended the process, where a pending client was
released with its last request, or when every call is over.

**Fairness.** Weak fairness for each call on the wire (`NSURLConnection` and
`NSURLSession` report an answer, an error or a timeout), for a delayed perform
that is due, and for a block queued on the delegate queue or the main queue; and
for the reading of a body that is open (`NSURLConnection` goes on until it has
read nothing, an error, or is cancelled). None for the user, the application, the
expiry of tokens or restarts. Each liveness property is stated up to what really
ends the obligation: the process ends, or an assertion stops it. For the client
that is more, and its two properties name it. A refresh refused with
`invalid_token` or `invalid_grant` waits for itself (`auth = "self"`), and then
nothing leaves the queue: that is the finding of `client_self_wait`, and the one
exception of `QueueIsEmptied` for a client with a token. `EveryRequestEnds` lists
the ends in which the caller never gets an answer (`LeftWithoutAnswer`): given up
with its refresh, since only a delegate is told; waiting for a refresh that
waits for itself; refused when there was no token any more. So the run shows that
there are no others, and not that callers are answered. It leaves out on purpose,
by its constants, the challenges that name no token and the token without a
refresh token: `requestAccessAndRetryConnection:` then cancels a request that
nothing will retry. And it takes a server to accept a token in the end: each one
granted may be refused once more, up to `MaxGen`.

**What the violations say.** Each refutes a sentence of the repository
(`PROJECT.json`, findings): two comments and an assertion of the OAuth2 client,
and one assertion reached through the app-group launch.

Three methods hand their blocks something else than `MastodonAPI.h` declares, or
tell success of everything: `followAccountUri`, whose two branches are swapped so
that a successful follow gives its block the raw data
(`MastodonClientManager.m:1293`), `fetchNotification` and `clearNotification`. That
is seen in the table, without a step: `MethodsAreFaithful`, which TLC evaluates
before the run `fetch_calls`, says that it is these three. The properties of
that run promise nothing of what they tell (`"unchecked"`, `Faithful`).

Other observations have no run, because the repository does not claim otherwise
of its own code or nothing in the state shows them: `Dependency/README.md` tells
applications to tell accounts apart by the notification's user info and to give
each account type a redirect URL of its own, and the login does neither, so a
login that was cancelled hears of another one's success, and a code may go to
the pending client of another instance; the blocks of every method are declared
`_Nullable` and called unchecked.

## The proofs

No proof assumes anything but the named `ASSUME`s of its module, which TLC
evaluates on every run of it (`ConstantsAssumption` of the client and of the body,
`StartAssumption`, `ManagerAssumption`, `PipelineAssumption`, `StoreAssumption`,
`PageAssumption`), and the hypotheses a theorem states.

**The client** (`NXOAuth2ClientProofs.tla`), for every set of requests,
challenges, failures and any `MaxGen`:

* `TypeCorrect`: `TypeOK`, inductive by itself.
* `ClientSafety`: the four state invariants the run checks, and `LifeCycle`,
  which strengthens them. None is inductive alone. A waiter
  has a waker because a running refresh ends in a retry or a failure of
  everybody in the queue; it does because the refresh cannot lose its token
  while it runs (`RefreshKeepsItsToken`), since only its own end takes the token
  away; the keychain is current because the account never remembers another
  token than the client's (`LifeCycle`), which holds from the moment the store
  hands the client over. `IInv` is their conjunction with `TypeOK`; there is one
  lemma for each conjunct, with one step for each action.
* `StoreKeepsTokens`, `RetriesSignNewerToken`: two action properties, each step
  from `IInv`. The first, that the store, as a delegate, is never told of a lost
  token, has no run of its own.
* `NoRequestIsLost`: `ParkedIsQueued`, under the hypotheses of the run that
  checks it.
* `ImplementsExchange`: each step from `IInv` is a step of `Exchanges` or none.
  The steps that matter are the ends of a refresh, which release or drop all that
  is held: a connection in the queue is off the wire, so none of them goes out
  twice (`QueuedOnceAndOffTheWire`).
* `ImplementsGrant`: `GrantInv` adds that only the client of an account of a type
  has requests and delayed refreshes, and that an orphan's does nothing any more
  (`OrphanRests`). An account that was removed while its refresh ran does not get
  back into the store, since the account, not the store, is told of that refresh.
* `WaitIsBounded`: `WaitersHaveMaxRetry`, the safety half of `QueueIsEmptied`.
* Where the two findings end. `InvalidStateNeedsBoth`: the assertion of line 455
  holds if the token endpoint never answers 5xx, or never a plain 401; with one
  of them missing a delayed refresh still has its token (`TimersCanRefresh`).
  `AuthenticationIsNotNeeded`: the comment of `NXOAuth2Account.m:164` is true if
  a refresh is only ever refused in the way that makes it wait for itself
  (`TokenIsKept`).

**The manager, whatever the application calls**
(`MastodonClientManagerProofs.tla`), for any instances, logins and fetches:

* `ManagerTypeCorrect`: `TypeOK`, with `SnapshotIsAList`: the copy the delegate
  queue holds is a list too, or writing it back would not be one.
* `CodeKeepsItsPendingClient`: a code in flight has a pending client of its own.
  `CodeState` strengthens it: a code is in flight only after its own redirect,
  and with a client of some instance.
* `GrantIsHeard`: from `CodeState`, the login whose code is granted still
  listens.
* `ConfiguredSafety`, launched without a group: a registration is remembered in
  four places (the saved list, the copy of it, the client of a login, the client
  of a fetch), each of which may write the list later. `ConfigInv` says of each
  that the store is configured for it; configurations go with the process only,
  and a restart makes them anew from the list and forgets the other three.
* `ImplementsGrant`, for any launch and any application: `CodeIsUsedOnce` adds to
  `CodeInv` that a login with an account, or with an orphan, has had its code
  granted, so nothing gives it another.
* `CodeEndIsHeard` and `LoginNeverGoesBack`: `EndedCodeIsTold` and `LoginGoesOn`,
  the safety halves of `CodeIsAnswered` and `LoginIsAnswered`.

**The manager with a careful application** (`CarefulApplicationProofs.tla`):
`CarefulSafety` is `OneAccount`, `AccountIsListed` and `NeverAborted`, of which
`IsSession` implies the first two.
`CarefulInv` adds to the two invariants above that one login runs at a time and
its client stays listed (`OneLogin`); that an instance whose page is shown has no
account (`NoAccountYet`), so the one that comes is the only one; that the copy
on the delegate queue has lost no client or account since it was read
(`CopyIsNoOlder`); and that whoever may write a client that has an account writes
a registration (`WritersAreRegistered`, `AccountIsRegistered`). The lost update
does happen here: the registration of a login may be hidden by another write, and
is saved again by the login's own observers. `ImplementsSession` shows that every
step is a step of `Sessions` or none of its steps. A session begins once because
a login that was granted a token is over (`GrantedIsOver`), and in a listed
client without a session because of `OneLogin` and `NoAccountYet`; a lost update
must not drop a client, which is `CopyIsNoOlder`. `UrlsAreThere`: the assertion
that the run `manager_group` breaks holds without a group, in a login and in a
fetch; the launch is what that finding is about.

**The saved list** (`ClientsStoreProofs.tla`), for any applications, threads and
names:

* `StoreTypeCorrect`, `ListsStayOwn` (with `SeenIsOwn`: what a thread has read
  and will write back was created under its name, too) and `LastUsedStaysOwn`.
* `LaunchesSettle`: from `StartInv`, which follows a launch: while one thread
  launches, no other thread of the application is in a method; when it is over,
  the list is made; and a list is never unmade.
* `ImplementsListRegister`: under `StartInv`, a step that reads a settled list is
  the register's read, one that writes it is its write, the steps in between are
  none, and the step after which nobody is about to write an empty list opens it.

**The body** (`PostBodyStreamProofs.tla`), for any parts (empty ones too),
boundaries, buffers and number of bodies:

* `TypeCorrect`, and `DamageIsNoticed`. `IInv` says where each stream stands:
  those after the current one are untouched, except a wrapper's, which may stand
  anywhere (`Positions`, `FirstUse`); and that what was received is never longer
  than the body up to where the reading is, and is that part of the body, byte
  for byte, if it is as long (`Received`): what a wrapper's stream lacks is never
  made up for. A body without streams has no bytes, and a delimiter has some.
* `ImplementsByteSource`: of an intact body the streams before the current one
  were read from their beginning, so the bytes of a piece follow those
  received. That the read goes to the first stream with bytes left is an argument
  about the least such stream (`LeastNumber`).
* `ReadsReturn`: `ReadReturns`, the safety half of `BodyEnds`: a read arrives at a
  stream with bytes or at the last one, and the bytes received are never more
  than the body has. It needs no hypothesis of intactness.

**The pipeline** (`FetchPipelineProofs.tla`), for every table of methods, any
calls and accounts:

* `PipelineSafety`: `TypeOK`, `AnsweredOnce`, `OnlyOddAnswersRaise`, and the three
  that `IsRemoteCall` rests on, `DoneOnce`, `SuccessIsEarned` and
  `NoErrorNothingDone`. `Phases` strengthens them: what
  is known of a call in each phase, above all that a request without an answer
  has not been done and that no block is called before the end. `HandleEnds`
  says of any entry of the table that its handler succeeds, fails or raises.
* `RefusalRemovesItsAccount`: the action property, from the same invariant.
* `ImplementsRemoteCall` and `ConnectionsAreExchanges`: two refinements, one of
  what the application sees of a call and one of what the client does to it.
  With the client's `ImplementsExchange` the second closes the circle: what is
  assumed of a connection here is proved of it there.
* `DeclaredIfFaithful`: if every method with a typed block looks at the error and
  makes what the block takes, every block gets what `MastodonAPI.h` declares.
  That `MethodsAreFaithful` has three exceptions is a matter of the table, not of
  the pipeline.

**The feed** (`PagedFetchProofs.tla`), for any number of items, any size of a page
and any order of a header's relations: `FeedSafety`, the type invariant and the
three state properties. `FeedInv` adds what is known while a call is in flight
and when it was answered (`OlderPage`, `NewerPage`): the ids of the header are
the ends of the page, and every item between the feed and the page's far end is
on the page, if it still exists. The array of a page is defined by ranks, so the
proofs begin with how many elements of a set are above a number: ranks are
different, none is left out, and the newest `Limit` items are an upper end of
what was asked for. `WalksAdvance` is `PagesAdvance`: the id of the next older
page goes down with each page, that of the next refresh up with each page that
has an item, so no page is fetched for ever.

What is only model-checked: the five liveness properties (`QueueIsEmptied`,
`EveryRequestEnds`, `LoginIsAnswered`, `CodeIsAnswered`, `BodyEnds`), because
fairness and `ENABLED` are out of the prover's reach; of four of them the safety
half is proved: that the steps which fairness forces lead on and never back. The
table of `FetchMethods` is a finite one and is evaluated by TLC. The four
properties that are violated are not theorems; for three of them one says under
which condition it would be, and the fourth is a liveness property.

Conversely, five action or state properties are theorems without a run of their
own: `WaitersHaveMaxRetry`, `EndedCodeIsTold`, `LoginGoesOn`, `PagesAdvance` and
`ReadReturns`; and five state properties are theorems that the refinements of the
runs imply: `OneAccount`, `AccountIsListed`, `DoneOnce`, `SuccessIsEarned` and
`NoErrorNothingDone`.

## Not modelled, and the plan

Left out for good: third-party checkouts; pure string, URL and date helpers; the
model classes, which are views of a dictionary; trust handlers; the password,
assertion and client-credential grants, which MastodonKit never uses; the
assertions on the Info.plist, which does not change while a process runs; a list
stored as an array of property lists, which nothing can have stored.

What is left of the plan: the parsing of a token response
(`NXOAuth2AccessToken.m`), as far as an expiry date can be absent or in the past
on arrival, which the queue's enumeration depends on (`NXOAuth2Client.m:507`);
and HTTP redirects of a signed request (`NXOAuth2Connection.m`,
`connection:willSendRequest:redirectResponse:`), which need a model of the
server's side that says what a redirect is for.

The modules were written in the order of what depends on them: the token and its
queue first, because every request needs them; then the list and the login,
which decide whether there is an account at all; what a fetch makes of an
answer; and at last what the others take for granted, the saved list and the
body, each shown to implement what was assumed of it.
