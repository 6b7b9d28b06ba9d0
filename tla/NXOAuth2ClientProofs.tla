------------------------ MODULE NXOAuth2ClientProofs ------------------------
(***************************************************************************)
(* The invariants of NXOAuth2Client hold for any set of requests, any      *)
(* number of tokens and whatever the servers answer.                       *)
(***************************************************************************)
EXTENDS NXOAuth2Client, TLAPS

\* The inductive invariant: each part needs the others.  Who waits has a
\* waker because the running refresh keeps its token; it keeps it because
\* only the end of that refresh can take it; the keychain is current because
\* the account never remembers another token than the client's.
IInv ==
  /\ TypeOK
  /\ QueuedOnceAndOffTheWire
  /\ WaitersHaveAWaker
  /\ RefreshKeepsItsToken
  /\ KeychainIsCurrent
  /\ LifeCycle

\* The connection of the token requests (authConnection) is none of the
\* application's, and both may stand in the queue.
LEMMA AuthIsNoRequest == Auth \in Connection /\ \A c \in Request : c \in Connection /\ c # Auth
  BY ConstantsAssumption DEF Connection

\* A pending client, before its login, satisfies the inductive invariant.
LEMMA InitIInv == Init => IInv
<1> SUFFICES ASSUME Init PROVE IInv
  OBVIOUS
<1>1. TypeOK
  BY DEF Init, TypeOK, MaxRetry, RefreshToken
<1>2. QueuedOnceAndOffTheWire
  BY AuthIsNoRequest DEF Init, QueuedOnceAndOffTheWire, Queued
<1>3. WaitersHaveAWaker /\ RefreshKeepsItsToken /\ KeychainIsCurrent /\ LifeCycle
  BY DEF Init, WaitersHaveAWaker, RefreshKeepsItsToken, KeychainIsCurrent,
         LifeCycle, Stored, CanRefresh
<1>4. QED
  BY <1>1, <1>2, <1>3 DEF IInv

-----------------------------------------------------------------------------
(* Type correctness.                                                       *)

\* No handler takes a variable out of its type; TypeOK is inductive alone.
LEMMA NextTypeOK == TypeOK /\ [Next]_vars => TypeOK'
<1> SUFFICES ASSUME TypeOK, [Next]_vars PROVE TypeOK'
  OBVIOUS
<1> USE DEF TypeOK, clientVars, accountVars, MaxRetry, RefreshToken, Queued,
            Stored, CanRefresh, Expired
<1>1. CASE OpenRedirectCode
  BY <1>1 DEF OpenRedirectCode
<1>2. CASE OpenRedirectError
  BY <1>2 DEF OpenRedirectError
<1>3. ASSUME NEW r \in RefreshGrant, AuthDidFinish(r) PROVE TypeOK'
  BY <1>3, ConstantsAssumption, AuthIsNoRequest
  DEF AuthDidFinish, RetryWaiting, AccountHasToken, AuthRunning
<1>4. CASE AuthRefreshesItself
  BY <1>4, AuthIsNoRequest DEF AuthRefreshesItself, Enqueue
<1>5. CASE AuthFailsForNow
  BY <1>5 DEF AuthFailsForNow, MayRetry
<1>6. ASSUME NEW f \in AuthFailure, AuthDidFail(f) PROVE TypeOK'
  BY <1>6, AuthIsNoRequest DEF AuthDidFail, FailWaiting, AuthRunning, Final, MayRetry
<1>7. CASE TimerFires
  BY <1>7 DEF TimerFires, StartRefresh
<1>8. ASSUME NEW c \in Request, Perform(c) PROVE TypeOK'
  BY <1>8, AuthIsNoRequest DEF Perform, RefreshAndRetry, Enqueue, StartRefresh
<1>9. ASSUME NEW c \in Request, RespondPlain(c) PROVE TypeOK'
  BY <1>9 DEF RespondPlain
<1>10. ASSUME NEW c \in Request, RespondUnauthorized(c) PROVE TypeOK'
  BY <1>10 DEF RespondUnauthorized
<1>11. ASSUME NEW c \in Request, NEW h \in Challenge, RespondChallenge(c, h)
       PROVE  TypeOK'
  <2>1. CASE RefreshAndRetry(c) /\ UNCHANGED unexpected
    BY <1>11, <2>1, AuthIsNoRequest
    DEF RespondChallenge, RefreshAndRetry, Enqueue, StartRefresh
  <2>2. CASE RequestAccess(c) /\ UNCHANGED <<auth, aborted>>
    <3>1. /\ waiting' \in [Connection -> Nat]
          /\ conn' \in [Request -> {"idle", "flight", "parked", "answered",
                                    "dropped", "lost"}]
      BY <2>2, AuthIsNoRequest DEF RequestAccess, Enqueue
    <3>2. unexpected' \subseteq {"NeedsAuthentication"}
      BY <2>2 DEF RequestAccess
    <3>3. QED
      BY <1>11, <2>2, <3>1, <3>2 DEF RespondChallenge
  <2>3. QED
    BY <1>11, <2>1, <2>2 DEF RespondChallenge
<1>12. ASSUME NEW known \in BOOLEAN, Invalidate(known) PROVE TypeOK'
  BY <1>12 DEF Invalidate
<1>13. CASE SaveAccounts
  BY <1>13 DEF SaveAccounts
<1>14. CASE RemoveAccount
  BY <1>14 DEF RemoveAccount
<1>15. CASE Restart
  BY <1>15, AuthIsNoRequest DEF Restart
<1>16. CASE UNCHANGED vars
  BY <1>16 DEF vars
<1>17. QED
  BY <1>1, <1>2, <1>3, <1>4, <1>5, <1>6, <1>7, <1>8, <1>9, <1>10, <1>11,
     <1>12, <1>13, <1>14, <1>15, <1>16
  DEF Next, ClientStep, RequestStep, EnvironmentStep

\* Every variable keeps its type, for all values of the constants.
THEOREM TypeCorrect == Spec => []TypeOK
<1>1. Init => TypeOK
  BY InitIInv DEF IInv
<1>2. QED
  BY <1>1, NextTypeOK, PTL DEF Spec

-----------------------------------------------------------------------------
(* The other parts of the inductive invariant.                             *)

\* No handler queues a connection twice or leaves it queued on the wire: every
\* addObject: follows the connection's own cancel.
LEMMA NextQueuedOnceAndOffTheWire == IInv /\ [Next]_vars => QueuedOnceAndOffTheWire'
<1> SUFFICES ASSUME IInv, [Next]_vars PROVE QueuedOnceAndOffTheWire'
  OBVIOUS
<1> USE DEF IInv, TypeOK, QueuedOnceAndOffTheWire, RefreshKeepsItsToken,
            LifeCycle, clientVars, accountVars, MaxRetry, RefreshToken,
            Queued, Stored, CanRefresh, Expired
<1>1. CASE OpenRedirectCode
  BY <1>1 DEF OpenRedirectCode
<1>2. CASE OpenRedirectError
  BY <1>2 DEF OpenRedirectError
<1>3. ASSUME NEW r \in RefreshGrant, AuthDidFinish(r)
      PROVE  QueuedOnceAndOffTheWire'
  BY <1>3, ConstantsAssumption, AuthIsNoRequest
  DEF AuthDidFinish, RetryWaiting, AccountHasToken, AuthRunning
<1>4. CASE AuthRefreshesItself
  BY <1>4, AuthIsNoRequest DEF AuthRefreshesItself, Enqueue
<1>5. CASE AuthFailsForNow
  BY <1>5 DEF AuthFailsForNow, MayRetry
<1>6. ASSUME NEW f \in AuthFailure, AuthDidFail(f)
      PROVE  QueuedOnceAndOffTheWire'
  BY <1>6, AuthIsNoRequest DEF AuthDidFail, FailWaiting, AuthRunning, Final, MayRetry
<1>7. CASE TimerFires
  BY <1>7 DEF TimerFires, StartRefresh
<1>8. ASSUME NEW c \in Request, Perform(c) PROVE QueuedOnceAndOffTheWire'
  BY <1>8, AuthIsNoRequest DEF Perform, RefreshAndRetry, Enqueue, StartRefresh
<1>9. ASSUME NEW c \in Request, RespondPlain(c)
      PROVE  QueuedOnceAndOffTheWire'
  BY <1>9 DEF RespondPlain
<1>10. ASSUME NEW c \in Request, RespondUnauthorized(c)
       PROVE  QueuedOnceAndOffTheWire'
  BY <1>10 DEF RespondUnauthorized
<1>11. ASSUME NEW c \in Request, NEW h \in Challenge, RespondChallenge(c, h)
       PROVE  QueuedOnceAndOffTheWire'
  BY <1>11, AuthIsNoRequest DEF RespondChallenge, RefreshAndRetry,
                                RequestAccess, Enqueue, StartRefresh
<1>12. ASSUME NEW known \in BOOLEAN, Invalidate(known)
       PROVE  QueuedOnceAndOffTheWire'
  BY <1>12 DEF Invalidate
<1>13. CASE SaveAccounts
  BY <1>13 DEF SaveAccounts
<1>14. CASE RemoveAccount
  BY <1>14 DEF RemoveAccount
<1>15. CASE Restart
  BY <1>15, AuthIsNoRequest DEF Restart
<1>16. CASE UNCHANGED vars
  BY <1>16 DEF vars
<1>17. QED
  BY <1>1, <1>2, <1>3, <1>4, <1>5, <1>6, <1>7, <1>8, <1>9, <1>10, <1>11,
     <1>12, <1>13, <1>14, <1>15, <1>16
  DEF Next, ClientStep, RequestStep, EnvironmentStep

\* No handler leaves a waiting connection without a refresh or a timer that
\* will wake it.
LEMMA NextWaitersHaveAWaker == IInv /\ [Next]_vars => WaitersHaveAWaker'
<1> SUFFICES ASSUME IInv, [Next]_vars PROVE WaitersHaveAWaker'
  OBVIOUS
<1> USE DEF IInv, TypeOK, WaitersHaveAWaker, RefreshKeepsItsToken, LifeCycle,
            clientVars, accountVars, MaxRetry, RefreshToken, Queued, Stored,
            CanRefresh, Expired
<1>1. CASE OpenRedirectCode
  BY <1>1 DEF OpenRedirectCode
<1>2. CASE OpenRedirectError
  BY <1>2 DEF OpenRedirectError
<1>3. ASSUME NEW r \in RefreshGrant, AuthDidFinish(r)
      PROVE  WaitersHaveAWaker'
  BY <1>3, ConstantsAssumption, AuthIsNoRequest
  DEF AuthDidFinish, RetryWaiting, AccountHasToken, AuthRunning
<1>4. CASE AuthRefreshesItself
  BY <1>4, AuthIsNoRequest DEF AuthRefreshesItself, Enqueue
<1>5. CASE AuthFailsForNow
  BY <1>5 DEF AuthFailsForNow, MayRetry
<1>6. ASSUME NEW f \in AuthFailure, AuthDidFail(f) PROVE WaitersHaveAWaker'
  BY <1>6, AuthIsNoRequest DEF AuthDidFail, FailWaiting, AuthRunning, Final, MayRetry
<1>7. CASE TimerFires
  BY <1>7 DEF TimerFires, StartRefresh
<1>8. ASSUME NEW c \in Request, Perform(c) PROVE WaitersHaveAWaker'
  BY <1>8, AuthIsNoRequest DEF Perform, RefreshAndRetry, Enqueue, StartRefresh
<1>9. ASSUME NEW c \in Request, RespondPlain(c) PROVE WaitersHaveAWaker'
  BY <1>9 DEF RespondPlain
<1>10. ASSUME NEW c \in Request, RespondUnauthorized(c)
       PROVE  WaitersHaveAWaker'
  BY <1>10 DEF RespondUnauthorized
<1>11. ASSUME NEW c \in Request, NEW h \in Challenge, RespondChallenge(c, h)
       PROVE  WaitersHaveAWaker'
  BY <1>11, AuthIsNoRequest DEF RespondChallenge, RefreshAndRetry,
                                RequestAccess, Enqueue, StartRefresh
<1>12. ASSUME NEW known \in BOOLEAN, Invalidate(known)
       PROVE  WaitersHaveAWaker'
  BY <1>12 DEF Invalidate
<1>13. CASE SaveAccounts
  BY <1>13 DEF SaveAccounts
<1>14. CASE RemoveAccount
  BY <1>14 DEF RemoveAccount
<1>15. CASE Restart
  BY <1>15, AuthIsNoRequest DEF Restart
<1>16. CASE UNCHANGED vars
  BY <1>16 DEF vars
<1>17. QED
  BY <1>1, <1>2, <1>3, <1>4, <1>5, <1>6, <1>7, <1>8, <1>9, <1>10, <1>11,
     <1>12, <1>13, <1>14, <1>15, <1>16
  DEF Next, ClientStep, RequestStep, EnvironmentStep

\* No handler takes the token from under a running refresh.
LEMMA NextRefreshKeepsItsToken == IInv /\ [Next]_vars => RefreshKeepsItsToken'
<1> SUFFICES ASSUME IInv, [Next]_vars PROVE RefreshKeepsItsToken'
  OBVIOUS
<1> USE DEF IInv, TypeOK, RefreshKeepsItsToken, LifeCycle, clientVars,
            accountVars, MaxRetry, RefreshToken, Queued, Stored, CanRefresh,
            Expired
<1>1. CASE OpenRedirectCode
  BY <1>1 DEF OpenRedirectCode
<1>2. CASE OpenRedirectError
  BY <1>2 DEF OpenRedirectError
<1>3. ASSUME NEW r \in RefreshGrant, AuthDidFinish(r)
      PROVE  RefreshKeepsItsToken'
  BY <1>3, ConstantsAssumption, AuthIsNoRequest
  DEF AuthDidFinish, RetryWaiting, AccountHasToken, AuthRunning
<1>4. CASE AuthRefreshesItself
  BY <1>4, AuthIsNoRequest DEF AuthRefreshesItself, Enqueue
<1>5. CASE AuthFailsForNow
  BY <1>5 DEF AuthFailsForNow, MayRetry
<1>6. ASSUME NEW f \in AuthFailure, AuthDidFail(f)
      PROVE  RefreshKeepsItsToken'
  BY <1>6, AuthIsNoRequest DEF AuthDidFail, FailWaiting, AuthRunning, Final, MayRetry
<1>7. CASE TimerFires
  BY <1>7 DEF TimerFires, StartRefresh
<1>8. ASSUME NEW c \in Request, Perform(c) PROVE RefreshKeepsItsToken'
  BY <1>8, AuthIsNoRequest DEF Perform, RefreshAndRetry, Enqueue, StartRefresh
<1>9. ASSUME NEW c \in Request, RespondPlain(c) PROVE RefreshKeepsItsToken'
  BY <1>9 DEF RespondPlain
<1>10. ASSUME NEW c \in Request, RespondUnauthorized(c)
       PROVE  RefreshKeepsItsToken'
  BY <1>10 DEF RespondUnauthorized
<1>11. ASSUME NEW c \in Request, NEW h \in Challenge, RespondChallenge(c, h)
       PROVE  RefreshKeepsItsToken'
  BY <1>11, AuthIsNoRequest DEF RespondChallenge, RefreshAndRetry,
                                RequestAccess, Enqueue, StartRefresh
<1>12. ASSUME NEW known \in BOOLEAN, Invalidate(known)
       PROVE  RefreshKeepsItsToken'
  BY <1>12 DEF Invalidate
<1>13. CASE SaveAccounts
  BY <1>13 DEF SaveAccounts
<1>14. CASE RemoveAccount
  BY <1>14 DEF RemoveAccount
<1>15. CASE Restart
  BY <1>15, AuthIsNoRequest DEF Restart
<1>16. CASE UNCHANGED vars
  BY <1>16 DEF vars
<1>17. QED
  BY <1>1, <1>2, <1>3, <1>4, <1>5, <1>6, <1>7, <1>8, <1>9, <1>10, <1>11,
     <1>12, <1>13, <1>14, <1>15, <1>16
  DEF Next, ClientStep, RequestStep, EnvironmentStep

\* No handler changes the token of a stored account and leaves an older one in
\* its keychain entry.
LEMMA NextKeychainIsCurrent == IInv /\ [Next]_vars => KeychainIsCurrent'
<1> SUFFICES ASSUME IInv, [Next]_vars PROVE KeychainIsCurrent'
  OBVIOUS
<1> USE DEF IInv, TypeOK, KeychainIsCurrent, LifeCycle, clientVars,
            accountVars, MaxRetry, RefreshToken, Queued, Stored, CanRefresh,
            Expired
<1>1. CASE OpenRedirectCode
  BY <1>1 DEF OpenRedirectCode
<1>2. CASE OpenRedirectError
  BY <1>2 DEF OpenRedirectError
<1>3. ASSUME NEW r \in RefreshGrant, AuthDidFinish(r)
      PROVE  KeychainIsCurrent'
  BY <1>3, ConstantsAssumption, AuthIsNoRequest
  DEF AuthDidFinish, RetryWaiting, AccountHasToken, AuthRunning
<1>4. CASE AuthRefreshesItself
  BY <1>4, AuthIsNoRequest DEF AuthRefreshesItself, Enqueue
<1>5. CASE AuthFailsForNow
  BY <1>5 DEF AuthFailsForNow, MayRetry
<1>6. ASSUME NEW f \in AuthFailure, AuthDidFail(f) PROVE KeychainIsCurrent'
  BY <1>6, AuthIsNoRequest DEF AuthDidFail, FailWaiting, AuthRunning, Final, MayRetry
<1>7. CASE TimerFires
  BY <1>7 DEF TimerFires, StartRefresh
<1>8. ASSUME NEW c \in Request, Perform(c) PROVE KeychainIsCurrent'
  BY <1>8, AuthIsNoRequest DEF Perform, RefreshAndRetry, Enqueue, StartRefresh
<1>9. ASSUME NEW c \in Request, RespondPlain(c) PROVE KeychainIsCurrent'
  BY <1>9 DEF RespondPlain
<1>10. ASSUME NEW c \in Request, RespondUnauthorized(c)
       PROVE  KeychainIsCurrent'
  BY <1>10 DEF RespondUnauthorized
<1>11. ASSUME NEW c \in Request, NEW h \in Challenge, RespondChallenge(c, h)
       PROVE  KeychainIsCurrent'
  BY <1>11, AuthIsNoRequest DEF RespondChallenge, RefreshAndRetry,
                                RequestAccess, Enqueue, StartRefresh
<1>12. ASSUME NEW known \in BOOLEAN, Invalidate(known)
       PROVE  KeychainIsCurrent'
  BY <1>12 DEF Invalidate
<1>13. CASE SaveAccounts
  BY <1>13 DEF SaveAccounts
<1>14. CASE RemoveAccount
  BY <1>14 DEF RemoveAccount
<1>15. CASE Restart
  BY <1>15, AuthIsNoRequest DEF Restart
<1>16. CASE UNCHANGED vars
  BY <1>16 DEF vars
<1>17. QED
  BY <1>1, <1>2, <1>3, <1>4, <1>5, <1>6, <1>7, <1>8, <1>9, <1>10, <1>11,
     <1>12, <1>13, <1>14, <1>15, <1>16
  DEF Next, ClientStep, RequestStep, EnvironmentStep

\* No handler leaves the order login, token, requests.
LEMMA NextLifeCycle == IInv /\ [Next]_vars => LifeCycle'
<1> SUFFICES ASSUME IInv, [Next]_vars PROVE LifeCycle'
  OBVIOUS
<1> USE DEF IInv, TypeOK, LifeCycle, KeychainIsCurrent,
            QueuedOnceAndOffTheWire, RefreshKeepsItsToken, clientVars,
            accountVars, MaxRetry, RefreshToken, Queued, Stored, CanRefresh,
            Expired
<1>1. CASE OpenRedirectCode
  BY <1>1 DEF OpenRedirectCode
<1>2. CASE OpenRedirectError
  BY <1>2 DEF OpenRedirectError
<1>3. ASSUME NEW r \in RefreshGrant, AuthDidFinish(r) PROVE LifeCycle'
  BY <1>3, ConstantsAssumption, AuthIsNoRequest
  DEF AuthDidFinish, RetryWaiting, AccountHasToken, AuthRunning
<1>4. CASE AuthRefreshesItself
  BY <1>4, AuthIsNoRequest DEF AuthRefreshesItself, Enqueue
<1>5. CASE AuthFailsForNow
  BY <1>5 DEF AuthFailsForNow, MayRetry
<1>6. ASSUME NEW f \in AuthFailure, AuthDidFail(f) PROVE LifeCycle'
  BY <1>6, AuthIsNoRequest DEF AuthDidFail, FailWaiting, AuthRunning, Final, MayRetry
<1>7. CASE TimerFires
  BY <1>7 DEF TimerFires, StartRefresh
<1>8. ASSUME NEW c \in Request, Perform(c) PROVE LifeCycle'
  BY <1>8, AuthIsNoRequest DEF Perform, RefreshAndRetry, Enqueue, StartRefresh
<1>9. ASSUME NEW c \in Request, RespondPlain(c) PROVE LifeCycle'
  BY <1>9 DEF RespondPlain
<1>10. ASSUME NEW c \in Request, RespondUnauthorized(c) PROVE LifeCycle'
  BY <1>10 DEF RespondUnauthorized
<1>11. ASSUME NEW c \in Request, NEW h \in Challenge, RespondChallenge(c, h)
       PROVE  LifeCycle'
  BY <1>11, AuthIsNoRequest DEF RespondChallenge, RefreshAndRetry,
                                RequestAccess, Enqueue, StartRefresh
<1>12. ASSUME NEW known \in BOOLEAN, Invalidate(known) PROVE LifeCycle'
  BY <1>12 DEF Invalidate
<1>13. CASE SaveAccounts
  BY <1>13 DEF SaveAccounts
<1>14. CASE RemoveAccount
  BY <1>14 DEF RemoveAccount
<1>15. CASE Restart
  BY <1>15, AuthIsNoRequest DEF Restart
<1>16. CASE UNCHANGED vars
  BY <1>16 DEF vars
<1>17. QED
  BY <1>1, <1>2, <1>3, <1>4, <1>5, <1>6, <1>7, <1>8, <1>9, <1>10, <1>11,
     <1>12, <1>13, <1>14, <1>15, <1>16
  DEF Next, ClientStep, RequestStep, EnvironmentStep

-----------------------------------------------------------------------------
(* The theorems.                                                           *)

\* IInv is inductive.
LEMMA NextIInv == IInv /\ [Next]_vars => IInv'
<1> SUFFICES ASSUME IInv, [Next]_vars PROVE IInv'
  OBVIOUS
<1>1. TypeOK'
  BY NextTypeOK DEF IInv
<1>2. QED
  BY <1>1, NextQueuedOnceAndOffTheWire, NextWaitersHaveAWaker,
     NextRefreshKeepsItsToken, NextKeychainIsCurrent, NextLifeCycle
  DEF IInv

\* The parts of IInv are invariants: a request is queued at most once and
\* never while it is on the wire, whoever waits has a refresh or a timer to
\* wait for, a refresh keeps the token it needs, and the keychain holds the
\* current token or none.
THEOREM ClientSafety ==
  Spec => [](/\ QueuedOnceAndOffTheWire /\ WaitersHaveAWaker
             /\ RefreshKeepsItsToken /\ KeychainIsCurrent /\ LifeCycle)
<1>1. IInv => /\ QueuedOnceAndOffTheWire /\ WaitersHaveAWaker
              /\ RefreshKeepsItsToken /\ KeychainIsCurrent /\ LifeCycle
  BY DEF IInv
<1>2. QED
  BY <1>1, InitIInv, NextIInv, PTL DEF Spec

\* The comment of NXOAuth2AccountStore.m 588 is right: a client whose delegate
\* is still the account store cannot lose a token.
THEOREM StoreKeepsTokens == Spec => StoreNeverLosesToken
<1>1. IInv /\ [Next]_vars
        => [gen # 0 /\ gen' = 0 => owner \in {"account", "orphan"}]_vars
  BY DEF IInv, TypeOK, LifeCycle
<1>2. QED
  BY <1>1, InitIInv, NextIInv, PTL DEF Spec, StoreNeverLosesToken

\* A connection that goes from the queue back on the wire is one the end of a
\* refresh retries, and it carries a token newer than the refused one.
LEMMA RetryStep ==
  IInv /\ [Next]_vars =>
    \A c \in Request :
      conn[c] = "parked" /\ conn'[c] = "flight" => signed'[c] > signed[c]
<1> SUFFICES ASSUME IInv, [Next]_vars, NEW q \in Request,
                    conn[q] = "parked", conn'[q] = "flight"
             PROVE  signed'[q] > signed[q]
  OBVIOUS
<1> USE DEF IInv, TypeOK, clientVars, accountVars
<1>1. ASSUME NEW r \in RefreshGrant, AuthDidFinish(r)
      PROVE  signed'[q] > signed[q]
  <2>1. auth = "refresh" /\ gen # 0
    BY <1>1 DEF AuthDidFinish, RetryWaiting, AuthRunning, LifeCycle, RefreshKeepsItsToken
  <2>2. Queued(q) /\ signed'[q] = gen + 1
    BY <1>1 DEF AuthDidFinish, RetryWaiting, Queued
  <2>3. QED
    BY <2>1, <2>2 DEF LifeCycle
<1>2. CASE OpenRedirectCode \/ OpenRedirectError
  BY <1>2 DEF OpenRedirectCode, OpenRedirectError
<1>3. CASE AuthRefreshesItself \/ AuthFailsForNow \/ TimerFires
  BY <1>3 DEF AuthRefreshesItself, AuthFailsForNow, TimerFires
<1>4. ASSUME NEW f \in AuthFailure, AuthDidFail(f)
      PROVE  FALSE
  BY <1>4 DEF AuthDidFail, FailWaiting
<1>5. ASSUME NEW c \in Request, RequestStep(c)
      PROVE  FALSE
  <2>1. CASE Perform(c)
    BY <2>1 DEF Perform, RefreshAndRetry
  <2>2. CASE RespondPlain(c) \/ RespondUnauthorized(c)
    BY <2>2 DEF RespondPlain, RespondUnauthorized
  <2>3. ASSUME NEW h \in Challenge, RespondChallenge(c, h)
        PROVE  FALSE
    BY <2>3 DEF RespondChallenge, RefreshAndRetry, RequestAccess
  <2>4. QED
    BY <1>5, <2>1, <2>2, <2>3 DEF RequestStep
<1>6. CASE EnvironmentStep
  BY <1>6 DEF EnvironmentStep, Invalidate, SaveAccounts, RemoveAccount, Restart
<1>7. CASE UNCHANGED vars
  BY <1>7 DEF vars
<1>8. QED
  BY <1>1, <1>2, <1>3, <1>4, <1>5, <1>6, <1>7 DEF Next, ClientStep

\* No request is repeated with the token it was refused with.
THEOREM RetriesSignNewerToken == Spec => RetrySignsNewerToken
<1>1. IInv /\ [Next]_vars
        => [\A c \in Request :
              conn[c] = "parked" /\ conn'[c] = "flight"
                => signed'[c] > signed[c]]_vars
  BY RetryStep
<1>2. QED
  BY <1>1, InitIInv, NextIInv, PTL DEF Spec, RetrySignsNewerToken

\* With a server that names the refused token in every challenge, and grants
\* refresh tokens, no request is lost between the wire and the queue.
Refreshable == IInv /\ (gen # 0 => CanRefresh) /\ ParkedIsQueued

\* With such a server, every step keeps the refresh token with the access token
\* and every parked request in the queue.
LEMMA NextRefreshable ==
  ASSUME Challenge \subseteq {"invalid_token", "expired_token"},
         RefreshGrant = {"token"}
  PROVE  Refreshable /\ [Next]_vars => Refreshable'
<1> SUFFICES ASSUME Refreshable, [Next]_vars
             PROVE  (gen' # 0 => refresh' = "token") /\ ParkedIsQueued'
  BY NextIInv DEF Refreshable, CanRefresh
<1> USE DEF Refreshable, IInv, TypeOK, ParkedIsQueued, Queued, CanRefresh,
            clientVars, accountVars
<1>1. CASE OpenRedirectCode \/ OpenRedirectError
  BY <1>1 DEF OpenRedirectCode, OpenRedirectError
<1>2. ASSUME NEW r \in RefreshGrant, AuthDidFinish(r)
      PROVE  (gen' # 0 => refresh' = "token") /\ ParkedIsQueued'
  BY <1>2 DEF AuthDidFinish, RetryWaiting
<1>3. CASE AuthRefreshesItself
  BY <1>3, AuthIsNoRequest DEF AuthRefreshesItself, Enqueue
<1>4. CASE AuthFailsForNow \/ TimerFires
  BY <1>4 DEF AuthFailsForNow, TimerFires
<1>5. ASSUME NEW f \in AuthFailure, AuthDidFail(f)
      PROVE  (gen' # 0 => refresh' = "token") /\ ParkedIsQueued'
  BY <1>5 DEF AuthDidFail, FailWaiting
<1>6. ASSUME NEW c \in Request, Perform(c)
      PROVE  (gen' # 0 => refresh' = "token") /\ ParkedIsQueued'
  BY <1>6, AuthIsNoRequest DEF Perform, RefreshAndRetry, Enqueue
<1>7. ASSUME NEW c \in Request, RespondPlain(c) \/ RespondUnauthorized(c)
      PROVE  (gen' # 0 => refresh' = "token") /\ ParkedIsQueued'
  BY <1>7 DEF RespondPlain, RespondUnauthorized
<1>8. ASSUME NEW c \in Request, NEW h \in Challenge, RespondChallenge(c, h)
      PROVE  (gen' # 0 => refresh' = "token") /\ ParkedIsQueued'
  <2>1. gen # 0 => RefreshAndRetry(c)
    BY <1>8 DEF RespondChallenge
  <2>2. (gen' = gen /\ refresh' = refresh) /\ Queued(c)'
    BY <1>8, <2>1, AuthIsNoRequest
    DEF RespondChallenge, RefreshAndRetry, RequestAccess, Enqueue
  <2>3. \A d \in Request \ {c} : conn'[d] = conn[d] /\ waiting'[d] = waiting[d]
    BY <1>8, AuthIsNoRequest
    DEF RespondChallenge, RefreshAndRetry, RequestAccess, Enqueue
  <2>4. QED
    BY <2>2, <2>3
<1>9. CASE EnvironmentStep
  BY <1>9
  DEF EnvironmentStep, Invalidate, SaveAccounts, RemoveAccount, Restart,
      KeychainIsCurrent, Stored
<1>10. CASE UNCHANGED vars
  BY <1>10 DEF vars
<1>11. QED
  BY <1>1, <1>2, <1>3, <1>4, <1>5, <1>6, <1>7, <1>8, <1>9, <1>10
  DEF Next, ClientStep, RequestStep

\* A request off the wire is in the queue, for every such server.
THEOREM NoRequestIsLost ==
  ASSUME Challenge \subseteq {"invalid_token", "expired_token"},
         RefreshGrant = {"token"}
  PROVE  Spec => []ParkedIsQueued
<1>1. Init => Refreshable
  BY InitIInv DEF Init, Refreshable, ParkedIsQueued
<1>2. Refreshable /\ [Next]_vars => Refreshable'
  BY NextRefreshable
<1>3. Refreshable => ParkedIsQueued
  BY DEF Refreshable
<1>4. QED
  BY <1>1, <1>2, <1>3, PTL DEF Spec

-----------------------------------------------------------------------------
(* The client is what those who perform requests take it for.              *)

ExchangeUnchanged == UNCHANGED ExchangeOf

\* Some requests go to one state, and the others stay where they are.
LEMMA RequestsBecome ==
  ASSUME NEW requests \in SUBSET Request, NEW s,
         \A c \in requests : ExchangeState(c)' = s,
         \A c \in Request \ requests : conn'[c] = conn[c]
  PROVE  Exchange!Becomes(requests, s)
<1>1. \A c \in Request \ requests : ExchangeState(c)' = ExchangeState(c)
  BY DEF ExchangeState
<1>2. QED
  BY <1>1 DEF Exchange!Becomes, ExchangeOf

LEMMA ConnUnchanged == ASSUME UNCHANGED conn PROVE ExchangeUnchanged
  BY DEF ExchangeUnchanged, ExchangeOf, ExchangeState

LEMMA RequestIsExchange ==
  ASSUME TypeOK, NEW c \in Request, RequestStep(c)
  PROVE  Exchange!Start(c) \/ Exchange!Answer(c) \/ Exchange!Hold(c)
<1> USE DEF TypeOK
<1>1. CASE Perform(c)
  <2>1. ExchangeOf[c] = "idle"
    BY <1>1 DEF Perform, ExchangeOf, ExchangeState
  <2>2. \E s \in {"flight", "parked"} : conn' = [conn EXCEPT ![c] = s]
    BY <1>1 DEF Perform, RefreshAndRetry
  <2>3. Exchange!Becomes({c}, "sent") \/ Exchange!Becomes({c}, "held")
    BY <2>2, RequestsBecome DEF ExchangeState
  <2>4. QED
    BY <2>1, <2>3 DEF Exchange!Start
<1>2. CASE RespondPlain(c) \/ RespondUnauthorized(c)
  <2>1. ExchangeOf[c] = "sent" /\ conn' = [conn EXCEPT ![c] = "answered"]
    BY <1>2 DEF RespondPlain, RespondUnauthorized, ExchangeOf, ExchangeState
  <2>2. QED
    BY <2>1, RequestsBecome DEF ExchangeState, Exchange!Answer
<1>3. ASSUME NEW h \in Challenge, RespondChallenge(c, h)
      PROVE  Exchange!Hold(c)
  <2>1. ExchangeOf[c] = "sent" /\ conn' = [conn EXCEPT ![c] = "parked"]
    BY <1>3
    DEF RespondChallenge, RefreshAndRetry, RequestAccess, ExchangeOf, ExchangeState
  <2>2. QED
    BY <2>1, RequestsBecome DEF ExchangeState, Exchange!Hold
<1>4. QED
  BY <1>1, <1>2, <1>3 DEF RequestStep

\* The end of a refresh sends, or gives up, the requests in the queue, which
\* are all off the wire.
LEMMA QueueIsReleased ==
  ASSUME TypeOK, QueuedOnceAndOffTheWire, NEW s \in {"flight", "dropped"},
         conn' = [c \in Request |-> IF Queued(c) THEN s ELSE conn[c]]
  PROVE  \E requests \in SUBSET Request : Exchange!Release(requests)
<1> DEFINE requests == {c \in Request : Queued(c)}
<1>1. \A c \in requests : ExchangeOf[c] = "held"
  BY DEF QueuedOnceAndOffTheWire, ExchangeOf, ExchangeState
<1>2. \/ \A c \in requests : ExchangeState(c)' = "sent"
      \/ \A c \in requests : ExchangeState(c)' = "dropped"
  BY DEF ExchangeState
<1>3. \A c \in Request \ requests : conn'[c] = conn[c]
  OBVIOUS
<1>4. Exchange!Becomes(requests, "sent") \/ Exchange!Becomes(requests, "dropped")
  BY <1>2, <1>3, RequestsBecome
<1>5. QED
  BY <1>1, <1>4 DEF Exchange!Release

LEMMA ClientStepIsExchange ==
  ASSUME IInv, ClientStep
  PROVE  (\E requests \in SUBSET Request : Exchange!Release(requests))
           \/ ExchangeUnchanged
<1>1. ASSUME NEW r \in RefreshGrant, AuthDidFinish(r)
      PROVE  \E requests \in SUBSET Request : Exchange!Release(requests)
  BY <1>1, QueueIsReleased DEF AuthDidFinish, RetryWaiting, IInv
<1>2. ASSUME NEW f \in AuthFailure, AuthDidFail(f), auth = "refresh"
      PROVE  \E requests \in SUBSET Request : Exchange!Release(requests)
  BY <1>2, QueueIsReleased DEF AuthDidFail, FailWaiting, IInv
<1>3. ASSUME NEW f \in AuthFailure, AuthDidFail(f), auth # "refresh"
      PROVE  UNCHANGED conn
  BY <1>3 DEF AuthDidFail
<1>4. CASE OpenRedirectCode \/ OpenRedirectError \/ AuthRefreshesItself
             \/ AuthFailsForNow \/ TimerFires
  <2>1. UNCHANGED conn
    BY <1>4
    DEF OpenRedirectCode, OpenRedirectError, AuthRefreshesItself, AuthFailsForNow,
        TimerFires
  <2>2. QED
    BY <2>1, ConnUnchanged
<1>5. QED
  BY <1>1, <1>2, <1>3, <1>4, ConnUnchanged DEF ClientStep

LEMMA RestartIsExchange ==
  ASSUME TypeOK, Restart
  PROVE  Exchange!Crash
<1> DEFINE requests == {c \in Request : ExchangeOf[c] \in {"sent", "held"}}
<1>1. \A c \in Request : c \in requests <=> conn[c] \in {"flight", "parked"}
  BY DEF TypeOK, ExchangeOf, ExchangeState
<1>2. conn' = [c \in Request |-> IF c \in requests THEN "lost" ELSE conn[c]]
  BY <1>1 DEF Restart
<1>3. \A c \in requests : ExchangeState(c)' = "lost"
  BY <1>2 DEF ExchangeState
<1>4. Exchange!Becomes(requests, "lost")
  BY <1>2, <1>3, RequestsBecome
<1>5. QED
  BY <1>4 DEF Exchange!Crash

LEMMA ExchangeStep == IInv /\ [Next]_vars => [Exchange!Next]_ExchangeOf
<1> SUFFICES ASSUME IInv, [Next]_vars PROVE [Exchange!Next]_ExchangeOf
  OBVIOUS
<1>1. CASE ClientStep
  BY <1>1, ClientStepIsExchange DEF Exchange!Next, ExchangeUnchanged
<1>2. ASSUME NEW c \in Request, RequestStep(c) PROVE Exchange!Next
  BY <1>2, RequestIsExchange DEF Exchange!Next, IInv
<1>3. CASE Restart
  BY <1>3, RestartIsExchange DEF Exchange!Next, IInv
<1>4. ASSUME UNCHANGED conn PROVE UNCHANGED ExchangeOf
  BY <1>4, ConnUnchanged DEF ExchangeUnchanged
<1>5. CASE UNCHANGED vars
  BY <1>4, <1>5 DEF vars
<1>6. QED
  BY <1>1, <1>2, <1>3, <1>4, <1>5
  DEF Next, EnvironmentStep, Invalidate, SaveAccounts, RemoveAccount

\* Whatever the servers answer and in whatever order, a request goes through
\* the client as an exchange: it is sent again only after a refusal, together
\* with the others that wait, and has one end.
THEOREM ImplementsExchange == Spec => IsExchange
<1>1. Init => Exchange!Init
  BY DEF Init, Exchange!Init, ExchangeOf, ExchangeState
<1>2. IInv /\ [Next]_vars => [Exchange!Next]_ExchangeOf
  BY ExchangeStep
<1>3. QED
  BY <1>1, <1>2, InitIInv, NextIInv, PTL DEF Spec, IsExchange, Exchange!Spec

-----------------------------------------------------------------------------
(* The client is what the store takes it for.                              *)

\* Only the client of an account of a type has requests and retries: a pending
\* one has none yet, and that of an orphan never gets any.
OrphanRests ==
  /\ owner # "account" => timers = 0 /\ \A c \in Request : conn[c] = "idle"
  /\ owner = "orphan" => Stored /\ auth = "none"

GrantInv == IInv /\ OrphanRests

LEMMA OrphanRestsStep == GrantInv /\ [Next]_vars => OrphanRests'
<1> SUFFICES ASSUME GrantInv, [Next]_vars PROVE OrphanRests'
  OBVIOUS
<1> USE DEF GrantInv, IInv, OrphanRests, Stored, clientVars, accountVars
<1>1. ASSUME NEW r \in RefreshGrant, AuthDidFinish(r) PROVE OrphanRests'
  BY <1>1
  DEF AuthDidFinish, AuthRunning, AccountHasToken, RetryWaiting, Queued, TypeOK,
      LifeCycle, QueuedOnceAndOffTheWire
<1>2. ASSUME NEW f \in AuthFailure, AuthDidFail(f) PROVE OrphanRests'
  BY <1>2
  DEF AuthDidFail, AuthRunning, FailWaiting, Queued, TypeOK, LifeCycle,
      QueuedOnceAndOffTheWire
<1>3. CASE AuthRefreshesItself \/ AuthFailsForNow
  BY <1>3
  DEF AuthRefreshesItself, AuthFailsForNow, MayRetry, TypeOK, LifeCycle,
      RefreshKeepsItsToken
<1>4. CASE OpenRedirectCode \/ OpenRedirectError \/ TimerFires
  BY <1>4 DEF OpenRedirectCode, OpenRedirectError, TimerFires, TypeOK
<1>5. ASSUME NEW c \in Request, RequestStep(c) PROVE OrphanRests'
  <2>1. owner = "account" /\ owner' = owner
    BY <1>5
    DEF RequestStep, Perform, RespondPlain, RespondUnauthorized, RespondChallenge
  <2>2. QED
    BY <2>1
<1>6. CASE EnvironmentStep
  BY <1>6
  DEF EnvironmentStep, Invalidate, SaveAccounts, RemoveAccount, Restart, TypeOK
<1>7. CASE UNCHANGED vars
  BY <1>7 DEF vars
<1>8. QED
  BY <1>1, <1>2, <1>3, <1>4, <1>5, <1>6, <1>7 DEF Next, ClientStep

LEMMA GrantBecomes ==
  ASSUME NEW s, GrantState' = s
  PROVE  Grant!Becomes({"login"}, s)
  BY DEF Grant!Becomes, GrantOf

LEMMA GrantUnchanged == ASSUME GrantState' = GrantState PROVE UNCHANGED GrantOf
  BY DEF GrantOf

\* A removed account is over.
LEMMA AccountEnds ==
  ASSUME Stored, owner = "account", owner' = owner, place' = "removed"
  PROVE  Grant!Next
<1>1. Grant!In({"account"}) = {"login"}
  BY DEF Grant!In, GrantOf, GrantState
<1>2. GrantState' = "over"
  BY DEF GrantState, Stored
<1>3. Grant!EndAccounts({"login"})
  BY <1>1, <1>2, GrantBecomes DEF Grant!EndAccounts
<1>4. QED
  BY <1>3 DEF Grant!Next

LEMMA ClientStepIsGrant ==
  ASSUME GrantInv, ClientStep
  PROVE  Grant!Next \/ UNCHANGED GrantOf
<1> USE DEF GrantInv, IInv, TypeOK, OrphanRests, LifeCycle, RefreshKeepsItsToken,
            Stored, accountVars
<1>0. /\ GrantOf["login"] = GrantState
      /\ "login" \in {"login"}
  BY DEF GrantOf
<1>1. CASE OpenRedirectCode
  <2>1. CASE auth = "none"
    <3>1. GrantState = "new" /\ GrantState' = "asked"
      BY <1>1, <2>1 DEF OpenRedirectCode, GrantState
    <3>2. QED
      BY <1>0, <3>1, GrantBecomes DEF Grant!Next, Grant!Ask
  <2>2. CASE auth # "none"
    BY <1>1, <2>2, GrantUnchanged DEF OpenRedirectCode, GrantState
  <2>3. QED
    BY <2>1, <2>2
<1>2. CASE OpenRedirectError
  <2>1. CASE auth = "none"
    <3>1. GrantState = "new" /\ GrantState' = "over"
      BY <1>2, <2>1 DEF OpenRedirectError, GrantState, clientVars
    <3>2. QED
      BY <1>0, <3>1, GrantBecomes DEF Grant!Next, Grant!Decline
  <2>2. CASE auth # "none"
    <3>1. GrantState = "asked" /\ GrantState' = "forgotten"
      BY <1>2, <2>2 DEF OpenRedirectError, GrantState, clientVars
    <3>2. Grant!In({"asked"}) = {"login"}
      BY <3>1 DEF Grant!In, GrantOf
    <3>3. QED
      BY <3>1, <3>2, GrantBecomes DEF Grant!Next, Grant!Forget
  <2>3. QED
    BY <2>1, <2>2
<1>3. ASSUME NEW r \in RefreshGrant, AuthDidFinish(r)
      PROVE  Grant!Next \/ UNCHANGED GrantOf
  <2>1. CASE owner = "pending"
    <3>1. GrantState = "asked" /\ GrantState' = "account"
      BY <1>3, <2>1 DEF AuthDidFinish, AuthRunning, AccountHasToken, GrantState
    <3>2. QED
      BY <1>0, <3>1, GrantBecomes DEF Grant!Next, Grant!Grant
  <2>2. CASE owner = "abandoned"
    <3>1. GrantState = "forgotten" /\ GrantState' = "orphan"
      BY <1>3, <2>2 DEF AuthDidFinish, AuthRunning, AccountHasToken, GrantState
    <3>2. QED
      BY <1>0, <3>1, GrantBecomes DEF Grant!Next, Grant!Grant
  <2>3. CASE owner = "account"
    BY <1>3, <2>3, GrantUnchanged
    DEF AuthDidFinish, AuthRunning, AccountHasToken, GrantState
  <2>4. QED
    BY <1>3, <2>1, <2>2, <2>3 DEF AuthDidFinish, AuthRunning
<1>4. CASE AuthRefreshesItself \/ AuthFailsForNow \/ TimerFires
  <2>1. owner = "account" /\ UNCHANGED <<owner, place>>
    BY <1>4 DEF AuthRefreshesItself, AuthFailsForNow, MayRetry, TimerFires
  <2>2. QED
    BY <2>1, GrantUnchanged DEF GrantState
<1>5. ASSUME NEW f \in AuthFailure, AuthDidFail(f)
      PROVE  Grant!Next \/ UNCHANGED GrantOf
  <2>1. CASE owner \in {"pending", "abandoned"}
    <3>1. GrantState \in {"asked", "forgotten"} /\ GrantState' = "over"
      BY <1>5, <2>1 DEF AuthDidFail, AuthRunning, GrantState
    <3>2. QED
      BY <1>0, <3>1, GrantBecomes DEF Grant!Next, Grant!Refuse
  <2>2. CASE owner = "account" /\ place' = "removed" /\ Stored
    BY <1>5, <2>2, AccountEnds DEF AuthDidFail
  <2>3. CASE owner = "account" /\ (place' = place \/ (place' = "removed" /\ ~Stored))
    BY <1>5, <2>3, GrantUnchanged DEF AuthDidFail, GrantState
  <2>4. QED
    BY <1>5, <2>1, <2>2, <2>3 DEF AuthDidFail, AuthRunning
<1>6. QED
  BY <1>1, <1>2, <1>3, <1>4, <1>5 DEF ClientStep

LEMMA GrantStep == GrantInv /\ [Next]_vars => [Grant!Next]_GrantOf
<1> SUFFICES ASSUME GrantInv, [Next]_vars PROVE Grant!Next \/ UNCHANGED GrantOf
  OBVIOUS
<1> USE DEF GrantInv, IInv, TypeOK, OrphanRests, LifeCycle, Stored
<1>1. CASE ClientStep
  BY <1>1, ClientStepIsGrant
<1>2. ASSUME NEW c \in Request, Perform(c) \/ RespondPlain(c)
             \/ \E h \in Challenge : RespondChallenge(c, h)
      PROVE  UNCHANGED GrantOf
  <2>1. owner = "account" /\ UNCHANGED <<owner, place>>
    BY <1>2 DEF Perform, RespondPlain, RespondChallenge, accountVars
  <2>2. QED
    BY <2>1, GrantUnchanged DEF GrantState
<1>3. ASSUME NEW c \in Request, RespondUnauthorized(c)
      PROVE  Grant!Next \/ UNCHANGED GrantOf
  <2>1. owner = "account" /\ owner' = owner /\ place' = "removed"
    BY <1>3 DEF RespondUnauthorized
  <2>2. CASE Stored
    BY <2>1, <2>2, AccountEnds
  <2>3. CASE ~Stored
    BY <2>1, <2>3, GrantUnchanged DEF GrantState
  <2>4. QED
    BY <2>2, <2>3
<1>4. CASE RemoveAccount
  BY <1>4, AccountEnds DEF RemoveAccount
<1>5. CASE Restart
  BY <1>5, GrantUnchanged DEF Restart, GrantState
<1>6. CASE UNCHANGED vars \/ (\E known \in BOOLEAN : Invalidate(known)) \/ SaveAccounts
  <2>1. UNCHANGED <<owner, auth, place>>
    BY <1>6 DEF vars, clientVars, accountVars, Invalidate, SaveAccounts
  <2>2. QED
    BY <2>1, GrantUnchanged DEF GrantState
<1>7. QED
  BY <1>1, <1>2, <1>3, <1>4, <1>5, <1>6 DEF Next, RequestStep, EnvironmentStep

\* Whatever is refreshed, refused, removed or restarted, the code of a login
\* ends in one account at most, which does not come back once it is gone.
THEOREM ImplementsGrant == Spec => IsGrant
<1>1. Init => GrantInv /\ Grant!Init
  BY InitIInv DEF Init, GrantInv, OrphanRests, Grant!Init, GrantOf, GrantState, Stored
<1>2. GrantInv /\ [Next]_vars => GrantInv'
  BY OrphanRestsStep, NextIInv DEF GrantInv
<1>3. GrantInv /\ [Next]_vars => [Grant!Next]_GrantOf
  BY GrantStep
<1>4. QED
  BY <1>1, <1>2, <1>3, PTL DEF Spec, IsGrant, Grant!Spec

-----------------------------------------------------------------------------
(* How long a request may wait.                                            *)

\* A step that leaves a request in the queue counts its failed refresh.
LEMMA WaiterStep ==
  ASSUME IInv, Next, NEW q \in Request, gen # 0, Queued(q), Queued(q)'
  PROVE  /\ retryCount' >= retryCount
         /\ auth = "refresh" /\ auth' # "refresh" =>
              \/ auth' = "self"
              \/ retryCount' = retryCount + 1 /\ timers' = timers + 1
<1> USE DEF IInv, TypeOK, MaxRetry, Queued, clientVars
<1>0. q \in Connection
  BY AuthIsNoRequest
<1>1. ASSUME NEW r \in RefreshGrant, AuthDidFinish(r) PROVE FALSE
  BY <1>0, <1>1 DEF AuthDidFinish, RetryWaiting
<1>2. ASSUME NEW f \in AuthFailure, AuthDidFail(f)
      PROVE  auth # "refresh" /\ UNCHANGED retryCount
  BY <1>0, <1>2 DEF AuthDidFail, FailWaiting
<1>3. CASE AuthRefreshesItself \/ AuthFailsForNow
  BY <1>3 DEF AuthRefreshesItself, AuthFailsForNow
<1>4. CASE OpenRedirectCode \/ OpenRedirectError \/ TimerFires
  BY <1>4 DEF OpenRedirectCode, OpenRedirectError, TimerFires, StartRefresh
<1>5. ASSUME NEW c \in Request, RequestStep(c)
      PROVE  UNCHANGED retryCount /\ (auth = "refresh" => auth' = auth)
  BY <1>5
  DEF RequestStep, Perform, RespondPlain, RespondUnauthorized, RespondChallenge,
      RefreshAndRetry, RequestAccess, StartRefresh
<1>6. CASE Restart
  BY <1>0, <1>6 DEF Restart
<1>7. CASE (\E known \in BOOLEAN : Invalidate(known)) \/ SaveAccounts \/ RemoveAccount
  BY <1>7 DEF Invalidate, SaveAccounts, RemoveAccount
<1>8. QED
  BY <1>1, <1>2, <1>3, <1>4, <1>5, <1>6, <1>7 DEF Next, ClientStep, EnvironmentStep

\* A waiting request sees at most MaxRetry refreshes fail for now, whatever the
\* other requests do: the safety half of QueueIsEmptied (NXOAuth2Client.m 528-556).
THEOREM WaitIsBounded == Spec => WaitersHaveMaxRetry
<1>1. IInv /\ [Next]_vars =>
        [\A c \in Request :
           gen # 0 /\ Queued(c) /\ Queued(c)' =>
             /\ retryCount' >= retryCount
             /\ auth = "refresh" /\ auth' # "refresh" =>
                  \/ auth' = "self"
                  \/ retryCount' = retryCount + 1 /\ timers' = timers + 1]_vars
  BY WaiterStep
<1>2. QED
  BY <1>1, InitIInv, NextIInv, PTL DEF Spec, WaitersHaveMaxRetry

-----------------------------------------------------------------------------
(* When the comments of the code are right after all.                      *)

\* A delayed refresh has a token to refresh.
TimersCanRefresh == (timers > 0 => CanRefresh) /\ NeverInvalidState

\* A server that has no 5xx sets no timer; one that has no plain 401 takes no
\* token from a client that has one.
LEMMA NextTimersCanRefresh ==
  ASSUME ~({"http401", "http5xx"} \subseteq AuthFailure),
         "http5xx" \notin AuthFailure => timers = 0,
         IInv, TimersCanRefresh, [Next]_vars
  PROVE  /\ TimersCanRefresh'
         /\ "http5xx" \notin AuthFailure => timers' = 0
<1> USE DEF IInv, TypeOK, TimersCanRefresh, NeverInvalidState, CanRefresh,
            RefreshToken, clientVars, accountVars
<1>1. ASSUME NEW r \in RefreshGrant, AuthDidFinish(r)
      PROVE  (refresh = "token" => refresh' = "token") /\ UNCHANGED <<timers, aborted>>
  BY <1>1, ConstantsAssumption DEF AuthDidFinish
<1>2. CASE AuthFailsForNow
  BY <1>2 DEF AuthFailsForNow, MayRetry, RefreshKeepsItsToken
<1>3. ASSUME NEW f \in AuthFailure, AuthDidFail(f)
      PROVE  /\ UNCHANGED <<timers, aborted>>
             /\ timers > 0 => UNCHANGED refresh
  <2>1. timers > 0 => f # "http401"
    OBVIOUS
  <2>2. f = "http401_invalid" => gen = 0
    BY <1>3 DEF AuthDidFail, Final, LifeCycle
  <2>3. QED
    BY <1>3, <2>1, <2>2 DEF AuthDidFail
<1>4. CASE TimerFires
  BY <1>4 DEF TimerFires, StartRefresh
<1>5. ASSUME NEW c \in Request, RequestStep(c)
      PROVE  UNCHANGED <<timers, refresh, aborted>>
  BY <1>5
  DEF RequestStep, Perform, RespondPlain, RespondUnauthorized, RespondChallenge,
      RefreshAndRetry, RequestAccess, StartRefresh, Expired
<1>6. CASE OpenRedirectCode \/ OpenRedirectError \/ AuthRefreshesItself
  BY <1>6 DEF OpenRedirectCode, OpenRedirectError, AuthRefreshesItself
<1>7. CASE EnvironmentStep
  BY <1>7 DEF EnvironmentStep, Invalidate, SaveAccounts, RemoveAccount, Restart
<1>8. CASE UNCHANGED vars
  BY <1>8 DEF vars
<1>9. QED
  BY <1>1, <1>2, <1>3, <1>4, <1>5, <1>6, <1>7, <1>8 DEF Next, ClientStep

\* The assertion of NXOAuth2Client.m 455 takes both failures: a 5xx, which
\* leaves a delayed refresh, and a plain 401 to another one, which takes the
\* token.  A token endpoint that never answers one of the two never breaks it.
THEOREM InvalidStateNeedsBoth ==
  ASSUME ~({"http401", "http5xx"} \subseteq AuthFailure)
  PROVE  Spec => []NeverInvalidState
<1> DEFINE TimerInv ==
      IInv /\ TimersCanRefresh /\ ("http5xx" \notin AuthFailure => timers = 0)
<1>1. Init => TimerInv
  BY InitIInv DEF Init, TimersCanRefresh, NeverInvalidState
<1>2. TimerInv /\ [Next]_vars => TimerInv'
  BY NextTimersCanRefresh, NextIInv
<1>3. TimerInv => NeverInvalidState
  BY DEF TimersCanRefresh
<1>4. QED
  BY <1>1, <1>2, <1>3, PTL DEF Spec

\* The account of a client that never failed to refresh for good has its token,
\* in the keychain too, so no request is made without one.
TokenIsKept ==
  /\ owner \in {"account", "orphan"} => gen # 0 /\ accToken = gen
  /\ Stored => keychain = gen
  /\ place = "removed" => owner = "account"
  /\ owner \notin {"account", "orphan"} => \A c \in Request : conn[c] = "idle"
  /\ AccountNeverNeedsAuthentication

LEMMA NextTokenIsKept ==
  ASSUME AuthFailure \subseteq {"http401_invalid"},
         IInv, OrphanRests, TokenIsKept, [Next]_vars
  PROVE  TokenIsKept'
<1> USE DEF IInv, TypeOK, OrphanRests, TokenIsKept, LifeCycle, Stored,
            AccountNeverNeedsAuthentication, clientVars, accountVars
<1>1. ASSUME NEW r \in RefreshGrant, AuthDidFinish(r) PROVE TokenIsKept'
  <2>1. owner \in {"pending", "abandoned"} => place = "none" /\ gen = 0
    OBVIOUS
  <2>2. /\ owner' \in {"account", "orphan"} /\ gen' # 0 /\ accToken' = gen'
        /\ place' = "stored" => keychain' = gen'
        /\ place' = "removed" => owner' = "account"
        /\ UNCHANGED unexpected
    BY <1>1, <2>1 DEF AuthDidFinish, AccountHasToken
  <2>3. QED
    BY <2>2
<1>2. ASSUME NEW f \in AuthFailure, AuthDidFail(f) PROVE TokenIsKept'
  <2>1. auth = "token" /\ owner \in {"pending", "abandoned"} /\ gen = 0
    BY <1>2 DEF AuthDidFail, Final
  <2>2. QED
    BY <1>2, <2>1 DEF AuthDidFail
<1>3. CASE AuthRefreshesItself \/ AuthFailsForNow \/ TimerFires
             \/ OpenRedirectCode \/ OpenRedirectError
  BY <1>3
  DEF AuthRefreshesItself, AuthFailsForNow, TimerFires, OpenRedirectCode,
      OpenRedirectError
<1>4. ASSUME NEW c \in Request, RequestStep(c) PROVE TokenIsKept'
  <2>1. owner \in {"account", "orphan"} /\ gen # 0
    BY <1>4
    DEF RequestStep, Perform, RespondPlain, RespondUnauthorized, RespondChallenge
  <2>2. /\ UNCHANGED <<owner, gen, accToken, keychain, unexpected>>
        /\ place' = place \/ place' = "removed"
    BY <1>4, <2>1
    DEF RequestStep, Perform, RespondPlain, RespondUnauthorized, RespondChallenge,
        RequestAccess
  <2>3. owner = "account"
    BY <1>4, <2>1
    DEF RequestStep, Perform, RespondPlain, RespondUnauthorized, RespondChallenge
  <2>4. QED
    BY <2>1, <2>2, <2>3
<1>5. CASE EnvironmentStep
  BY <1>5
  DEF EnvironmentStep, Invalidate, SaveAccounts, RemoveAccount, Restart
<1>6. CASE UNCHANGED vars
  BY <1>6 DEF vars
<1>7. QED
  BY <1>1, <1>2, <1>3, <1>4, <1>5, <1>6 DEF Next, ClientStep

\* "This delegate method will never be called" (NXOAuth2Account.m 164) is right
\* as long as no refresh fails for good: only a token endpoint with another
\* failure than the refusal that makes the refresh wait for itself can make a
\* client, or its copy in the keychain, lose the token it has.
THEOREM AuthenticationIsNotNeeded ==
  ASSUME AuthFailure \subseteq {"http401_invalid"}
  PROVE  Spec => []AccountNeverNeedsAuthentication
<1> DEFINE TokenInv == GrantInv /\ TokenIsKept
<1>1. Init => TokenInv
  BY InitIInv
  DEF Init, GrantInv, OrphanRests, TokenIsKept, AccountNeverNeedsAuthentication,
      Stored
<1>2. TokenInv /\ [Next]_vars => TokenInv'
  BY NextTokenIsKept, OrphanRestsStep, NextIInv DEF GrantInv
<1>3. TokenInv => AccountNeverNeedsAuthentication
  BY DEF TokenIsKept
<1>4. QED
  BY <1>1, <1>2, <1>3, PTL DEF Spec
=============================================================================
