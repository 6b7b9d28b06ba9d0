--------------------------- MODULE NXOAuth2Client ---------------------------
(***************************************************************************)
(* One NXOAuth2Client with the connections signed with its access token,   *)
(* the NXOAuth2Account it belongs to once it is authenticated, and the     *)
(* keychain entry of that account.  All callbacks run on the main run      *)
(* loop: every action is one callback, run to completion.                  *)
(*                                                                         *)
(* A token is named by its generation: 0 is nil, and every token the       *)
(* server grants has the next number.  connection:didReceiveResponse: and  *)
(* connectionDidFinishLoading: are one action, Respond or an Auth action:  *)
(* nothing that the second reads can change between the two.               *)
(***************************************************************************)
EXTENDS Integers

CONSTANTS
  Request,       \* the NXOAuth2Connections the application performs
  Auth,          \* client.authConnection, when it queues behind itself
  Challenge,     \* WWW-Authenticate headers the API server may send
  AuthFailure,   \* ways in which a call to the token endpoint may fail
  RefreshGrant,  \* the refresh tokens a token response may carry
  MaxGen         \* bound: no token after generation MaxGen - 1 is invalidated

Header == {"invalid_token", "expired_token", "invalid_grant", "other"}
Failure == {"http401_invalid", "http401", "http5xx", "other"}
RefreshToken == {"nil", "token"}

ASSUME ConstantsAssumption ==
  /\ Auth \notin Request
  /\ Challenge \subseteq Header
  /\ AuthFailure \subseteq Failure
  /\ RefreshGrant \subseteq RefreshToken
  /\ MaxGen \in Nat

MaxRetry == 4

VARIABLES
  owner,       \* the client's delegate, and whether the store knows its type
  gen,         \* client.accessToken, 0 for nil
  refresh,     \* client.accessToken.refreshToken
  lapsed,      \* by our clock tokens 0 .. lapsed expired ten seconds ago
  auth,        \* client.authConnection: what it asks for, or "self"
  retryCount,  \* client.refreshConnectionDidRetryCount
  timers,      \* delayed performs of refreshAccessToken
  waiting,     \* client.waitingConnections, a bag
  conn,        \* where each request is
  signed,      \* the token that signed a request last
  revoked,     \* the API server refuses the generations 0 .. revoked
  accToken,    \* account.accessToken
  place,       \* is the account in accountsDict, and so in the keychain?
  keychain,    \* the token in the account's keychain entry
  unexpected,  \* messages the account was sent and does not handle
  aborted      \* the assertion that stopped the process

clientVars == <<gen, refresh, lapsed, auth, retryCount, timers, waiting>>
accountVars == <<owner, accToken, place, keychain, unexpected>>
vars == <<clientVars, accountVars, conn, signed, revoked, aborted>>

Connection == Request \cup {Auth}

TypeOK ==
  /\ owner \in {"pending", "abandoned", "account", "orphan"}
  /\ gen \in Nat /\ revoked \in Nat /\ accToken \in Nat /\ keychain \in Nat
  /\ refresh \in RefreshToken /\ lapsed \in Nat
  /\ auth \in {"none", "token", "refresh", "self"}
  /\ retryCount \in 0..MaxRetry /\ timers \in Nat
  /\ waiting \in [Connection -> Nat]
  /\ conn \in [Request -> {"idle", "flight", "parked", "answered", "dropped", "lost"}]
  /\ signed \in [Request -> Nat]
  /\ place \in {"none", "stored", "removed"}
  /\ unexpected \subseteq {"NeedsAuthentication"}
  /\ aborted \in {"none", "invalid_state", "already_running"}

Init ==
  /\ owner = "pending"
  /\ gen = 0 /\ refresh = "nil" /\ lapsed = 0 /\ revoked = 0
  /\ auth = "none" /\ retryCount = 0 /\ timers = 0
  /\ waiting = [c \in Connection |-> 0]
  /\ conn = [c \in Request |-> "idle"]
  /\ signed = [c \in Request |-> 0]
  /\ accToken = 0 /\ place = "none" /\ keychain = 0
  /\ unexpected = {} /\ aborted = "none"

-----------------------------------------------------------------------------
(* Helpers: the parts several handlers share.                              *)

Queued(c) == waiting[c] > 0
Stored == place = "stored"
CanRefresh == refresh = "token"
\* createConnection's test: do not bother to send this token.
Expired == gen # 0 /\ CanRefresh /\ gen <= lapsed

\* [connection cancel], then addObject: - what was queued before is removed.
Enqueue(c) == waiting' = [waiting EXCEPT ![c] = 1]

\* A build without assertions: nothing checks the refresh token.
StartRefreshUnchecked ==
  /\ auth' = IF auth = "none" THEN "refresh" ELSE auth
  /\ UNCHANGED aborted

\* The second half of refreshAccessTokenAndRetryConnection:.
StartRefresh ==
  \/ /\ auth # "none"
     /\ UNCHANGED <<auth, aborted>>
  \/ /\ auth = "none" /\ CanRefresh
     /\ auth' = "refresh"
     /\ UNCHANGED aborted
  \/ /\ auth = "none" /\ ~CanRefresh
     /\ aborted' = "invalid_state"
     /\ UNCHANGED auth

\* A refresh is running already: the connection is cancelled and not queued.
RefreshAndForget(c) ==
  /\ conn' = [conn EXCEPT ![c] = "parked"]
  /\ IF auth = "none" THEN Enqueue(c) ELSE UNCHANGED waiting
  /\ StartRefresh

\* The connection is queued, but not cancelled.
RefreshWithoutCancel(c) ==
  /\ UNCHANGED conn
  /\ Enqueue(c)
  /\ StartRefresh

\* A connection whose request has to wait for a refresh.
RefreshAndRetry(c) ==
  /\ conn' = [conn EXCEPT ![c] = "parked"]
  /\ Enqueue(c)
  /\ StartRefresh

\* requestAccessAndRetryConnection:, after [self cancel].
RequestAccess(c) ==
  /\ conn' = [conn EXCEPT ![c] = "parked"]
  /\ \/ /\ gen = 0
        /\ Enqueue(c)
        /\ unexpected' = unexpected \cup {"NeedsAuthentication"}
     \/ /\ gen # 0
        /\ waiting' = [waiting EXCEPT ![c] = 0]
        /\ UNCHANGED unexpected

\* After removeAllObjects is forgotten.
RetryAndKeepWaiting(token) ==
  /\ conn' = [c \in Request |-> IF Queued(c) THEN "flight" ELSE conn[c]]
  /\ signed' = [c \in Request |-> IF Queued(c) THEN token ELSE signed[c]]
  /\ UNCHANGED waiting

\* The queue is cleared before the loop over it.
ClearThenRetry(token) ==
  /\ waiting' = [c \in Connection |-> 0]
  /\ UNCHANGED <<conn, signed>>

\* The loop runs before self.accessToken = newToken.
RetryWithOldToken(token) ==
  /\ conn' = [c \in Request |-> IF Queued(c) THEN "flight" ELSE conn[c]]
  /\ signed' = [c \in Request |-> IF Queued(c) THEN gen ELSE signed[c]]
  /\ waiting' = [c \in Connection |-> 0]

\* Every waiting connection is retried, signed with the new token.
RetryWaiting(token) ==
  /\ conn' = [c \in Request |-> IF Queued(c) THEN "flight" ELSE conn[c]]
  /\ signed' = [c \in Request |-> IF Queued(c) THEN token ELSE signed[c]]
  /\ waiting' = [c \in Connection |-> 0]

\* The loop over failedConnections is missing.
FailNobody == UNCHANGED <<conn, waiting>>

\* The delegate of every waiting request is told; its responseHandler is not.
FailWaiting ==
  /\ conn' = [c \in Request |-> IF Queued(c) THEN "dropped" ELSE conn[c]]
  /\ waiting' = [c \in Connection |-> 0]

\* retryCount <= 4
MayRetryOnceMore == auth = "refresh" /\ retryCount <= MaxRetry

\* After a server error: may the refresh be tried again?
MayRetry == auth = "refresh" /\ retryCount < MaxRetry

-----------------------------------------------------------------------------
(* Login: the redirect with the authorization code, or with an error.      *)

OpenRedirectCode ==
  /\ owner = "pending"
  /\ \/ /\ auth = "none"
        /\ auth' = "token"
        /\ UNCHANGED aborted
     \/ /\ auth # "none"
        /\ aborted' = "already_running"
        /\ UNCHANGED auth
  /\ UNCHANGED <<accountVars, gen, refresh, lapsed, retryCount, timers,
                 waiting, conn, signed, revoked>>

\* The store forgets the pending client; a running token request goes on.
OpenRedirectError ==
  /\ owner = "pending"
  /\ owner' = "abandoned"
  /\ UNCHANGED <<clientVars, accToken, place, keychain, unexpected, conn,
                 signed, revoked, aborted>>

-----------------------------------------------------------------------------
(* The client as delegate of its authConnection.                           *)

AuthRunning == auth \in {"token", "refresh"}

\* The store does not observe accountDidChangeAccessToken:.
AccountHasTokenUnsaved(g) ==
  /\ owner' = CASE owner = "pending" -> "account"
                [] owner = "abandoned" -> "orphan"
                [] OTHER -> owner
  /\ accToken' = g
  /\ place' = IF gen = 0 THEN "stored" ELSE place
  /\ keychain' = IF gen = 0 THEN g ELSE keychain

\* Every new token puts the account in accountsDict, not the first one only.
AccountIsStoredAgain(g) ==
  /\ owner' = CASE owner = "pending" -> "account"
                [] owner = "abandoned" -> "orphan"
                [] OTHER -> owner
  /\ accToken' = g
  /\ place' = "stored"
  /\ keychain' = g

\* setAccessToken: with a token, as its delegate sees it.
AccountHasToken(g) ==
  /\ owner' = CASE owner = "pending" -> "account"
                [] owner = "abandoned" -> "orphan"
                [] OTHER -> owner
  /\ accToken' = g
  /\ place' = IF gen = 0 THEN "stored" ELSE place
  /\ keychain' = IF gen = 0 \/ Stored THEN g ELSE keychain

AuthDidFinish(granted) ==
  /\ AuthRunning
  /\ gen' = gen + 1
  /\ refresh' = IF granted = "nil" THEN refresh ELSE granted
  /\ AccountHasToken(gen + 1)
  /\ RetryWaiting(gen + 1)
  /\ auth' = "none" /\ retryCount' = 0
  /\ UNCHANGED <<lapsed, timers, revoked, unexpected, aborted>>

\* The refresh is refused with invalid_token or invalid_grant: the
\* connection cancels itself and queues behind itself.
AuthRefreshesItself ==
  /\ "http401_invalid" \in AuthFailure
  /\ auth = "refresh"
  /\ auth' = "self"
  /\ Enqueue(Auth)
  /\ UNCHANGED <<accountVars, gen, refresh, lapsed, retryCount, timers,
                 conn, signed, revoked, aborted>>

\* A server error: keep the waiting connections and try again in a second.
AuthFailsForNow ==
  /\ "http5xx" \in AuthFailure
  /\ MayRetry
  /\ auth' = "none"
  /\ timers' = timers + 1
  /\ retryCount' = retryCount + 1
  /\ UNCHANGED <<accountVars, gen, refresh, lapsed, waiting, conn, signed,
                 revoked, aborted>>

\* Does this failure end the call (rather than start a retry or a self-wait)?
Final(failure) ==
  /\ failure = "http5xx" => ~MayRetry
  /\ failure = "http401_invalid" => auth = "token"

\* The failure is final: the waiting connections fail with it, a 401 costs the
\* token, and the client's delegate is told.
AuthDidFail(failure) ==
  LET loses == failure \in {"http401", "http401_invalid"} /\ gen # 0
  IN
  /\ AuthRunning /\ Final(failure)
  /\ auth' = "none"
  /\ IF auth = "refresh" THEN FailWaiting ELSE UNCHANGED <<conn, waiting>>
  /\ gen' = IF loses THEN 0 ELSE gen
  /\ refresh' = IF loses THEN "nil" ELSE refresh
  /\ place' = IF loses THEN "removed" ELSE place
  /\ owner' = IF owner = "pending" THEN "abandoned" ELSE owner
  /\ accToken' = 0
  /\ UNCHANGED <<lapsed, retryCount, timers, signed, revoked, keychain,
                 unexpected, aborted>>

TimerFires ==
  /\ timers > 0
  /\ timers' = timers - 1
  /\ StartRefresh
  /\ UNCHANGED <<accountVars, gen, refresh, lapsed, retryCount, waiting,
                 conn, signed, revoked>>

-----------------------------------------------------------------------------
(* Requests.                                                               *)

\* createConnection of a new request: signed and started, unless the token
\* is known to have expired and can be refreshed.
Perform(c) ==
  /\ conn[c] = "idle"
  /\ Stored /\ owner = "account"
  /\ \/ /\ Expired
        /\ RefreshAndRetry(c)
        /\ UNCHANGED signed
     \/ /\ ~Expired
        /\ conn' = [conn EXCEPT ![c] = "flight"]
        /\ signed' = [signed EXCEPT ![c] = gen]
        /\ UNCHANGED <<auth, waiting, aborted>>
  /\ UNCHANGED <<accountVars, gen, refresh, lapsed, retryCount, timers,
                 revoked>>

\* An answer the connection passes on to its responseHandler: a success, an
\* HTTP error without a WWW-Authenticate header, a network error.
RespondPlain(c) ==
  /\ conn[c] = "flight"
  /\ conn' = [conn EXCEPT ![c] = "answered"]
  /\ UNCHANGED <<clientVars, accountVars, signed, revoked, aborted>>

\* A 401 without the header: performMethod's handler removes the account.
RespondUnauthorized(c) ==
  /\ conn[c] = "flight" /\ signed[c] <= revoked
  /\ conn' = [conn EXCEPT ![c] = "answered"]
  /\ place' = "removed"
  /\ UNCHANGED <<clientVars, owner, accToken, keychain, unexpected, signed,
                 revoked, aborted>>

\* A 401 with a WWW-Authenticate header, or a challenge of a valid token.
RespondChallenge(c, header) ==
  LET refreshable == CanRefresh /\ header \in {"invalid_token", "expired_token"}
  IN
  /\ conn[c] = "flight"
  /\ header # "other" => signed[c] <= revoked
  /\ \/ refreshable /\ RefreshAndRetry(c) /\ UNCHANGED unexpected
     \/ ~refreshable /\ RequestAccess(c) /\ UNCHANGED <<auth, aborted>>
  /\ UNCHANGED <<gen, refresh, lapsed, retryCount, timers, owner, accToken,
                 place, keychain, signed, revoked>>

-----------------------------------------------------------------------------
(* The environment: the server, the other accounts, the user.              *)

\* The server stops accepting the current token; its expiry date, on our
\* clock, may tell us.
Invalidate(known) ==
  /\ gen # 0 /\ gen < MaxGen
  /\ revoked < gen \/ (known /\ lapsed < gen)
  /\ revoked' = gen
  /\ lapsed' = IF known THEN gen ELSE lapsed
  /\ UNCHANGED <<gen, refresh, auth, retryCount, timers, waiting,
                 accountVars, conn, signed, aborted>>

\* A change of any other account saves the whole dictionary.
SaveAccounts ==
  /\ Stored /\ keychain # accToken
  /\ keychain' = accToken
  /\ UNCHANGED <<clientVars, owner, accToken, place, unexpected, conn, signed,
                 revoked, aborted>>

\* The application forgets the instance this account belongs to.
RemoveAccount ==
  /\ Stored /\ owner = "account"
  /\ place' = "removed"
  /\ UNCHANGED <<clientVars, owner, accToken, keychain, unexpected, conn,
                 signed, revoked, aborted>>

\* The process ends and starts again from the keychain.
Restart ==
  /\ Stored
  /\ gen' = keychain /\ accToken' = keychain
  /\ refresh' = IF keychain = 0 THEN "nil" ELSE refresh
  /\ auth' = "none" /\ retryCount' = 0 /\ timers' = 0
  /\ waiting' = [c \in Connection |-> 0]
  /\ conn' = [c \in Request |->
                IF conn[c] \in {"flight", "parked"} THEN "lost" ELSE conn[c]]
  /\ UNCHANGED <<owner, lapsed, place, keychain, unexpected, signed, revoked,
                 aborted>>

-----------------------------------------------------------------------------

ClientStep ==
  \/ OpenRedirectCode
  \/ OpenRedirectError
  \/ \E r \in RefreshGrant : AuthDidFinish(r)
  \/ AuthRefreshesItself
  \/ AuthFailsForNow
  \/ \E f \in AuthFailure : AuthDidFail(f)
  \/ TimerFires

RequestStep(c) ==
  \/ Perform(c)
  \/ RespondPlain(c)
  \/ RespondUnauthorized(c)
  \/ \E h \in Challenge : RespondChallenge(c, h)

EnvironmentStep ==
  \/ \E known \in BOOLEAN : Invalidate(known)
  \/ SaveAccounts
  \/ RemoveAccount
  \/ Restart

Next ==
  /\ aborted = "none"
  /\ \/ ClientStep
     \/ \E c \in Request : RequestStep(c)
     \/ EnvironmentStep

Spec == Init /\ [][Next]_vars
-----------------------------------------------------------------------------
(* What the client promises.                                               *)

\* A connection is queued at most once, and only while its request is off
\* the wire: retry never runs a request twice, and never one that ended
\* (addObject: after [self cancel], NXOAuth2Connection.m 160-190, 420-431).
QueuedOnceAndOffTheWire ==
  /\ \A c \in Connection : waiting[c] <= 1
  /\ \A c \in Request : Queued(c) => conn[c] = "parked"
  /\ Queued(Auth) => auth = "self"

\* While there is a token, whoever waits in waitingConnections is waiting for
\* something that will come - a refresh on the wire or a timer that can start
\* one - unless the refresh is queued behind itself
\* (refreshAccessTokenAndRetryConnection:, didFailWithError:).
WaitersHaveAWaker ==
  (gen # 0 /\ \E c \in Request : Queued(c))
    => CanRefresh /\ (auth \in {"refresh", "self"} \/ timers > 0)

\* A running refresh still has the token it was started with: the response
\* can restore the old refresh token, and the retry can sign with the new
\* one (restoreWithOldToken:, NXOAuth2AccessToken.m 138-143).
RefreshKeepsItsToken == auth \in {"refresh", "self"} => gen # 0 /\ CanRefresh

\* The keychain never holds a token older than the one in use: after a
\* restart the account comes back with the current token, or with none
\* (accountDidChangeAccessToken:, NXOAuth2AccountStore.m 653-660).
KeychainIsCurrent == Stored => keychain \in {0, gen}

\* The life of a client: no request, token or stored account before the login
\* ended, no token request after it, and nothing signed with, or remembered
\* by the account as, a token other than the client has had.
LifeCycle ==
  /\ gen = 0 => ~CanRefresh
  /\ auth = "token" => owner \in {"pending", "abandoned"}
  /\ owner \in {"pending", "abandoned"} =>
       gen = 0 /\ ~Stored /\ \A c \in Request : conn[c] = "idle"
  /\ gen # 0 => \A c \in Request : signed[c] <= gen
  /\ \A c \in Request : conn[c] = "idle" => signed[c] = 0
  /\ accToken \in {0, gen}

\* The account store, as delegate of pending clients, never sees
\* oauthClientDidLoseAccessToken: (NXOAuth2AccountStore.m 586-600).
StoreNeverLosesToken ==
  [][gen # 0 /\ gen' = 0 => owner \in {"account", "orphan"}]_vars

\* A request that had to wait goes back on the wire only with a token newer
\* than the one it was refused with (retry and createConnection).
RetrySignsNewerToken ==
  [][\A c \in Request :
       conn[c] = "parked" /\ conn'[c] = "flight" => signed'[c] > signed[c]]_vars

\* No request gets lost between the connection and the queue: one that is off
\* the wire is queued.  It holds when every token can be refreshed and every
\* challenge asks for it; requestAccessAndRetryConnection: breaks it otherwise.
ParkedIsQueued == \A c \in Request : conn[c] = "parked" => Queued(c)

\* A request as those who perform it see it, and the login of this client as
\* the store sees it.
ExchangeState(c) ==
  CASE conn[c] = "flight" -> "sent"
    [] conn[c] = "parked" -> "held"
    [] OTHER -> conn[c]

GrantState ==
  CASE owner = "pending" /\ auth = "none" -> "new"
    [] owner = "pending" /\ auth # "none" -> "asked"
    [] owner = "abandoned" /\ auth # "none" -> "forgotten"
    [] Stored /\ owner \in {"account", "orphan"} -> owner
    [] OTHER -> "over"

ExchangeOf == [c \in Request |-> ExchangeState(c)]
GrantOf == [l \in {"login"} |-> GrantState]

Exchange == INSTANCE Exchanges WITH Connection <- Request, state <- ExchangeOf
Grant == INSTANCE Grants WITH Login <- {"login"}, state <- GrantOf

\* What a fetch takes the client for: only a request that was refused is sent
\* again, and one that ended never is, in whatever order the refusals of
\* several requests, the refreshes and their failures come
\* (NXOAuth2Connection.m 404-431, NXOAuth2Client.m 507-511, 547-554).
IsExchange == Exchange!Spec

\* What the store takes the client for: one account for one code, none for a
\* client it forgot, and none that comes back after it was removed, whatever
\* refresh is still on its way (NXOAuth2AccountStore.m 559-619).
IsGrant == Grant!Spec

-----------------------------------------------------------------------------
(* What comments of the code claim, and the code does not keep.            *)

\* "invalid state", the assertion of NXOAuth2Client.m:455, never fails.
NeverInvalidState == aborted # "invalid_state"

\* "This delegate method will never be called" (NXOAuth2Account.m:164).
AccountNeverNeedsAuthentication == unexpected = {}

-----------------------------------------------------------------------------
(* Fairness: NSURLConnection reports an answer or an error (at the latest  *)
(* its timeout) for every call on the wire, and the run loop fires a timer *)
(* that is due.  Nothing is assumed of the user or the other accounts.     *)

AuthAnswered ==
  \/ \E r \in RefreshGrant : AuthDidFinish(r)
  \/ AuthRefreshesItself
  \/ AuthFailsForNow
  \/ \E f \in AuthFailure : AuthDidFail(f)

RequestAnswered(c) ==
  \/ RespondPlain(c)
  \/ RespondUnauthorized(c)
  \/ \E h \in Challenge : RespondChallenge(c, h)

Running == aborted = "none"

FairSpec ==
  /\ Spec
  /\ WF_vars(Running /\ AuthAnswered)
  /\ WF_vars(Running /\ TimerFires)
  /\ \A c \in Request : WF_vars(Running /\ RequestAnswered(c))

\* A request queued for a refresh leaves the queue, retried or given up, after at
\* most MaxRetry delayed attempts; only a refresh that is queued behind itself
\* keeps it there, and the loss of the token before it was queued.  (Retried:
\* NXOAuth2Client.m 507-511; given up: 547-554.)
QueueIsEmptied ==
  \A c \in Request : gen # 0 /\ Queued(c) ~> ~Queued(c) \/ auth = "self"

\* What bounds that wait: a refresh that ends without emptying the queue is one
\* more of MaxRetry, each of which leaves its timer, or it queues itself; no
\* other request, and no other end of a refresh, starts the count again
\* (didFailWithError:, NXOAuth2Client.m 528-556).
WaitersHaveMaxRetry ==
  [][\A c \in Request :
       gen # 0 /\ Queued(c) /\ Queued(c)' =>
         /\ retryCount' >= retryCount
         /\ auth = "refresh" /\ auth' # "refresh" =>
              \/ auth' = "self"
              \/ retryCount' = retryCount + 1 /\ timers' = timers + 1]_vars

\* The ways in which the code leaves the caller of a request without an answer:
\* its refresh failed, and only a delegate, which it does not have, is told
\* (NXOAuth2Client.m 547-554); it waits for a refresh that waits for itself
\* (NXOAuth2Connection.m 478-483); or for a token that nobody asks for
\* (requestAccessAndRetryConnection:, NXOAuth2Client.m 240-251).
LeftWithoutAnswer(c) ==
  \/ conn[c] = "dropped"
  \/ Queued(c) /\ (auth = "self" \/ gen = 0)

\* A request put on the wire or in the queue ends in a call of its
\* responseHandler, with the process, or in one of those three ways: none is
\* forgotten otherwise.  It holds when every challenge names the token and every
\* token can be refreshed; requestAccessAndRetryConnection: is a fourth way.
EveryRequestEnds ==
  \A c \in Request :
    conn[c] \in {"flight", "parked"} ~>
      conn[c] \in {"answered", "lost"} \/ LeftWithoutAnswer(c) \/ ~Running

\* "Try to refresh the token if possible, otherwise remove this account."
\* (NXOAuth2Connection.m:479), of a refresh that was refused: it does not stay
\* what everybody waits for.
RefusedRefreshIsSettled == auth = "self" ~> auth # "self" \/ place = "removed"
=============================================================================
