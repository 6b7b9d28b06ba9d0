---------------------- MODULE CarefulApplicationProofs ----------------------
(***************************************************************************)
(* What MastodonClientManager keeps for an application that is launched    *)
(* without a group and creates, removes and logs in nothing while a login  *)
(* runs, for any instances, logins and fetches.                            *)
(***************************************************************************)
EXTENDS MastodonClientManagerProofs

\* One login at a time, of a client that stays listed.
OneLogin ==
  /\ \A l, m \in Login : Busy(l) /\ Busy(m) => l = m
  /\ \A l \in Login : Busy(l) => inst[l] \in listed
  /\ abandoned = {}

\* A login got its page because its instance had no account, and only a login
\* adds one.
NoAccountYet ==
  \A l \in Login :
    stage[l] \in {"opening", "web"} \/ code[l] = "flight" =>
      \A a \in accounts : inst[a] # inst[l]

\* While the delegate queue holds a copy of the list, clients neither come nor
\* go, and no account comes.
CopyIsNoOlder ==
  \A l \in Login :
    stage[l] = "saving" =>
      /\ snapshot.listed = listed
      /\ \A a \in accounts : snapshot.saved[inst[a]] # None

\* Whoever may write the registration of a client knows one.
WritersAreRegistered ==
  /\ \A l \in Login :
       stage[l] \in {"saving", "opening", "web", "cancelled", "closed"} =>
         reg[l] # None
  /\ \A r \in Request : reqAccount[r] # None => reqReg[r] # None

AccountIsRegistered == \A a \in accounts : saved[inst[a]] # None

\* What CodeStep and ConfigStep do not give.
CarefulRest ==
  /\ OneLogin
  /\ NoAccountYet
  /\ CopyIsNoOlder
  /\ WritersAreRegistered
  /\ AccountIsRegistered
  /\ OneAccount
  /\ AccountIsListed
  /\ NeverAborted

CarefulInv == CodeInv /\ ConfigInv /\ CarefulRest

-----------------------------------------------------------------------------

LEMMA CarefulInit == Init => CarefulInv
  BY CodeInit, ConfigInit
  DEF Init, CarefulInv, CarefulRest, OneLogin, NoAccountYet, CopyIsNoOlder,
      WritersAreRegistered, AccountIsRegistered, OneAccount, AccountIsListed,
      NeverAborted, Busy

\* An observer of a client that is listed leaves it registered.
LEMMA SavedBySuccessRegistered ==
  ASSUME CarefulInv, NEW f \in SavedBySuccess, NEW i \in listed,
         saved[i] # None \/ \E l \in Observers : inst[l] = i
  PROVE  f[i] # None
<1> USE DEF CarefulInv, CarefulRest, CodeInv, TypeInv, TypeOK
<1>1. i \in Instance
  OBVIOUS
<1>2. CASE \E l \in Observers : inst[l] = i
  <2>1. PICK l \in Observers : f[i] = reg[l]
    BY <1>1, <1>2 DEF SavedBySuccess
  <2>2. QED
    BY <2>1 DEF Observers, WritersAreRegistered
<1>3. CASE ~ \E l \in Observers : inst[l] = i
  <2>1. f[i] = saved[i]
    BY <1>1, <1>3 DEF SavedBySuccess
  <2>2. QED
    BY <1>3, <2>1
<1>4. QED
  BY <1>2, <1>3

\* A step of no login, after which there are no more accounts than before, and
\* each of them registered.
LEMMA FewerAccounts ==
  ASSUME CarefulInv, accounts' \subseteq accounts, AccountIsRegistered',
         UNCHANGED <<listed, codeVars, inst, stage, reg, snapshot, aborted>>,
         \A r \in Request : reqAccount'[r] # None => reqReg'[r] # None
  PROVE  CarefulRest'
BY DEF CarefulInv, CarefulRest, OneLogin, NoAccountYet, CopyIsNoOlder,
       WritersAreRegistered, OneAccount, AccountIsListed, NeverAborted, Busy,
       codeVars

LEMMA ListSteps ==
  ASSUME CarefulInv, Application = "careful", NEW i \in Instance,
         CreateClient(i) \/ RemoveClient(i)
  PROVE  CarefulRest'
<1>1. \A l \in Login : ~Busy(l)
  BY DEF CreateClient, RemoveClient, MayCall
<1>2. /\ UNCHANGED <<abandoned, code, stage, reg, inst, requestVars, aborted>>
      /\ accounts' \subseteq accounts
      /\ \A a \in accounts' : inst[a] \in listed' /\ saved'[inst[a]] # None
  BY DEF CreateClient, RemoveClient, storeVars, codeVars, AccountsOf,
         CarefulInv, CarefulRest, CodeInv, TypeInv, TypeOK, AccountIsListed,
         AccountIsRegistered
<1>3. QED
  BY <1>1, <1>2
  DEF CarefulInv, CarefulRest, OneLogin, NoAccountYet, CopyIsNoOlder,
      WritersAreRegistered, AccountIsRegistered, OneAccount, AccountIsListed,
      NeverAborted, Busy, requestVars

LEMMA BeginLoginStep ==
  ASSUME CarefulInv, Application = "careful", NEW l \in Login, BeginLogin(l),
         LoginHasUrl'
  PROVE  CarefulRest'
<1> USE DEF CarefulInv, CarefulRest, CodeInv, TypeInv, TypeOK
<1>1. /\ \A m \in Login : ~Busy(m)
      /\ inst[l] \in listed
      /\ UNCHANGED <<listed, saved, accounts, abandoned, code, inst, requestVars,
                     snapshot>>
      /\ reg' = [reg EXCEPT ![l] = saved[inst[l]]]
  BY DEF BeginLogin, MayCall, listVars, codeVars
<1>2. /\ \A m \in Login : m # l => stage'[m] = stage[m]
      /\ stage'[l] \in {"registering", "opening", "done"}
      /\ stage'[l] = "opening" =>
           saved[inst[l]] # None /\ \A a \in accounts : inst[a] # inst[l]
  BY DEF BeginLogin, RequestAccess, AccountsOf
<1>3. NeverAborted'
  BY DEF BeginLogin, RequestAccess, LoginHasUrl, NeverAborted
<1>4. \A m \in Login : Busy(m)' => m = l
  BY <1>1, <1>2 DEF Busy
<1>5. OneLogin'
  BY <1>1, <1>4 DEF OneLogin
<1>6. NoAccountYet' /\ CopyIsNoOlder' /\ WritersAreRegistered'
  BY <1>1, <1>2
  DEF NoAccountYet, CopyIsNoOlder, WritersAreRegistered, Busy, requestVars
<1>7. QED
  BY <1>1, <1>3, <1>5, <1>6
  DEF CarefulRest, AccountIsRegistered, OneAccount, AccountIsListed

LEMMA RegistrationSteps ==
  ASSUME CarefulInv, NEW l \in Login,
         RegistrationFails(l) \/ RegistrationSucceeds(l)
  PROVE  CarefulRest'
<1> USE DEF CarefulInv, CarefulRest, CodeInv, TypeInv, TypeOK
<1>1. /\ UNCHANGED <<listed, saved, accounts, abandoned, code, inst, requestVars,
                     aborted>>
      /\ Busy(l)
      /\ \A m \in Login : m # l => stage'[m] = stage[m] /\ reg'[m] = reg[m]
      /\ stage'[l] \in {"done", "saving"}
  BY DEF RegistrationFails, RegistrationSucceeds, listVars, storeVars, codeVars,
         Busy
<1>2. stage'[l] = "saving" => reg'[l] # None /\ snapshot' = CurrentList
  BY ManagerAssumption DEF RegistrationFails, RegistrationSucceeds
<1>3. \A m \in Login : m # l => stage'[m] # "saving"
  BY <1>1 DEF OneLogin, Busy
<1>4. OneLogin'
  BY <1>1 DEF OneLogin, Busy
<1>5. NoAccountYet' /\ CopyIsNoOlder' /\ WritersAreRegistered'
  BY <1>1, <1>2, <1>3
  DEF NoAccountYet, CopyIsNoOlder, WritersAreRegistered, AccountIsRegistered,
      CurrentList, requestVars
<1>6. QED
  BY <1>1, <1>4, <1>5
  DEF CarefulRest, AccountIsRegistered, OneAccount, AccountIsListed,
      NeverAborted

LEMMA SaveRegistrationStep ==
  ASSUME CarefulInv, NEW l \in Login, SaveRegistration(l), LoginHasUrl'
  PROVE  CarefulRest'
<1> USE DEF CarefulInv, CarefulRest, CodeInv, TypeInv, TypeOK
<1>1. /\ UNCHANGED <<accounts, abandoned, code, inst, reg, requestVars>>
      /\ Busy(l) /\ reg[l] # None
      /\ snapshot.listed = listed
  BY DEF SaveRegistration, codeVars, Busy, CopyIsNoOlder, WritersAreRegistered
<1>2. /\ \A m \in Login : m # l => stage'[m] = stage[m]
      /\ stage'[l] \in {"opening", "done"}
      /\ stage'[l] = "opening" => \A a \in accounts : inst[a] # inst[l]
  BY DEF SaveRegistration, RequestAccess, AccountsOf
<1>3. listed' = listed /\ AccountIsRegistered'
  BY <1>1
  DEF SaveRegistration, CopyIsNoOlder, AccountIsRegistered, listVars
<1>4. NeverAborted'
  BY DEF SaveRegistration, RequestAccess, LoginHasUrl, NeverAborted
<1>5. OneLogin'
  BY <1>1, <1>2, <1>3 DEF OneLogin, Busy
<1>6. NoAccountYet' /\ CopyIsNoOlder' /\ WritersAreRegistered'
  BY <1>1, <1>2, <1>3
  DEF OneLogin, Busy, NoAccountYet, CopyIsNoOlder, WritersAreRegistered,
      requestVars
<1>7. QED
  BY <1>1, <1>3, <1>4, <1>5, <1>6
  DEF CarefulRest, OneAccount, AccountIsListed

\* The page of the only login: it is shown, given up, or redirected.
LEMMA PageSteps ==
  ASSUME CarefulInv, Application = "careful", NEW l \in Login,
         ShowLoginView(l) \/ Cancel(l) \/ RedirectWithError(l)
           \/ \E i \in Instance : RedirectWithCode(l, i)
  PROVE  CarefulRest'
<1> USE DEF CarefulInv, CarefulRest, CodeInv, TypeInv, TypeOK
<1>1. /\ UNCHANGED <<listed, saved, accounts, inst, reg, requestVars, snapshot>>
      /\ stage[l] \in {"opening", "web"}
      /\ \A m \in Login : m # l => stage'[m] = stage[m]
      /\ stage'[l] \in {"web", "cancelled", "closed"}
  BY DEF ShowLoginView, Cancel, RedirectWithError, RedirectWithCode, Redirected,
         listVars, storeVars, codeVars
<1>2. Busy(l) /\ \A m \in Login : Busy(m) => m = l
  BY <1>1 DEF Busy, OneLogin
<1>3. \A m \in Login : code[m] # "flight"
  BY <1>1, <1>2 DEF Busy, CodeState
<1>4. \A m \in Login : m # l => code'[m] # "flight"
  BY <1>3
  DEF ShowLoginView, Cancel, RedirectWithError, RedirectWithCode, codeVars
<1>5. abandoned' = {}
  BY <1>3
  DEF ShowLoginView, Cancel, RedirectWithError, RedirectWithCode, OneLogin,
      codeVars
<1>6. NeverAborted'
  <2>1. \A i \in Instance : ~Authenticating(i)
    BY <1>3, ManagerAssumption DEF Authenticating, CodeState
  <2>2. QED
    BY <2>1
    DEF ShowLoginView, Cancel, RedirectWithError, RedirectWithCode, NeverAborted
<1>7. OneLogin'
  BY <1>1, <1>2, <1>4, <1>5 DEF OneLogin, Busy
<1>8. NoAccountYet' /\ CopyIsNoOlder' /\ WritersAreRegistered'
  BY <1>1, <1>4
  DEF NoAccountYet, CopyIsNoOlder, WritersAreRegistered, requestVars
<1>9. QED
  BY <1>1, <1>6, <1>7, <1>8
  DEF CarefulRest, AccountIsRegistered, OneAccount, AccountIsListed

\* The account of the only login, whose instance had none.
LEMMA TokenGrantedStep ==
  ASSUME CarefulInv, NEW l \in Login, TokenGranted(l)
  PROVE  CarefulRest'
<1> USE DEF CarefulInv, CarefulRest, CodeInv, TypeInv, TypeOK
<1>1. /\ code[l] = "flight" /\ code' = [code EXCEPT ![l] = "granted"]
      /\ abandoned = {} /\ abandoned' = {}
      /\ accounts' = accounts \cup {l}
      /\ UNCHANGED <<listed, inst, stage, reg, requestVars, snapshot, aborted>>
  BY DEF TokenGranted, CodeEnds, OneLogin
<1>2. Busy(l) /\ stage[l] = "closed" /\ inst[l] \in listed
  BY <1>1 DEF Busy, CodeState, OneLogin
<1>3. \A m \in Login :
        /\ stage[m] \notin {"saving", "opening", "web"}
        /\ code'[m] # "flight"
  BY <1>1, <1>2 DEF Busy, OneLogin
<1>4. AccountIsRegistered'
  <2>1. PICK f \in SavedBySuccess : saved' = f
    BY DEF TokenGranted, AccountsDidChange
  <2>2. l \in Observers
    BY <1>2 DEF Observers
  <2>3. \A a \in accounts' : f[inst[a]] # None
    BY <1>1, <1>2, <2>2, SavedBySuccessRegistered
    DEF AccountIsListed, AccountIsRegistered
  <2>4. QED
    BY <1>1, <2>1, <2>3 DEF AccountIsRegistered
<1>5. OneAccount' /\ AccountIsListed'
  BY <1>1, <1>2 DEF OneAccount, AccountIsListed, NoAccountYet
<1>6. OneLogin' /\ NeverAborted'
  BY <1>1 DEF OneLogin, Busy, NeverAborted
<1>7. NoAccountYet' /\ CopyIsNoOlder' /\ WritersAreRegistered'
  BY <1>1, <1>3
  DEF NoAccountYet, CopyIsNoOlder, WritersAreRegistered, requestVars
<1>8. QED
  BY <1>4, <1>5, <1>6, <1>7 DEF CarefulRest

LEMMA TokenRefusedStep ==
  ASSUME CarefulInv, NEW l \in Login, TokenRefused(l)
  PROVE  CarefulRest'
<1>1. /\ UNCHANGED <<listed, saved, accounts, inst, stage, reg, requestVars,
                     snapshot, aborted>>
      /\ abandoned' = {}
      /\ \A m \in Login : code'[m] = "flight" => code[m] = "flight"
  BY DEF TokenRefused, CodeEnds, listVars, CarefulInv, CarefulRest, OneLogin,
         CodeInv, TypeInv, TypeOK
<1>2. QED
  BY <1>1
  DEF CarefulInv, CarefulRest, OneLogin, NoAccountYet, CopyIsNoOlder,
      WritersAreRegistered, AccountIsRegistered, OneAccount, AccountIsListed,
      NeverAborted, Busy, requestVars

LEMMA AccountStep ==
  ASSUME CarefulInv, NEW a \in Login, AccountLosesToken(a)
  PROVE  CarefulRest'
<1>1. PICK f \in SavedBySuccess : saved' = f
  BY DEF AccountLosesToken, AccountsDidChange
<1>2. AccountIsRegistered'
  BY <1>1, SavedBySuccessRegistered
  DEF AccountLosesToken, CarefulInv, CarefulRest, AccountIsListed,
      AccountIsRegistered
<1>3. \A r \in Request : reqAccount'[r] # None => reqReg'[r] # None
  BY DEF AccountLosesToken, requestVars, CarefulInv, CarefulRest,
         WritersAreRegistered
<1>4. QED
  BY <1>2, <1>3, FewerAccounts DEF AccountLosesToken

LEMMA RequestSteps ==
  ASSUME CarefulInv, NEW r \in Request, RequestStep(r)
  PROVE  CarefulRest'
<1> USE
DEF CarefulInv, CarefulRest, CodeInv, TypeInv, TypeOK, WritersAreRegistered
<1>1. ASSUME NEW a \in Login, Fetch(r, a) PROVE CarefulRest'
  <2>1. saved[inst[a]] # None /\ config[inst[a]] # None
    BY <1>1
    DEF Fetch, AccountIsRegistered, ConfigInv, ListsConfigured, Configured
  <2>2. /\ reqReg' = [reqReg EXCEPT ![r] = saved[inst[a]]]
        /\ reqAccount' = [reqAccount EXCEPT ![r] = a]
        /\ UNCHANGED <<listVars, storeVars, codeVars, inst, stage, reg, snapshot,
                       aborted>>
    BY <1>1, <2>1 DEF Fetch
  <2>3. QED
    BY <2>1, <2>2, FewerAccounts DEF AccountIsRegistered, listVars, storeVars
<1>2. CASE FetchEnds(r)
  <2>1. \A q \in Request : reqAccount'[q] # None => reqReg'[q] # None
    BY <1>2 DEF FetchEnds
  <2>2. QED
    BY <1>2, <2>1, FewerAccounts
    DEF FetchEnds, AccountIsRegistered, listVars, storeVars
<1>3. CASE FetchUnauthorized(r)
  <2>1. PICK f \in SavedBySuccess :
          saved' = IF inst[reqAccount[r]] \in listed
                   THEN [f EXCEPT ![inst[reqAccount[r]]] = reqReg[r]] ELSE f
    BY <1>3 DEF FetchUnauthorized
  <2>2. f \in [Instance -> Registration]
    BY SavedBySuccessType
  <2>3. \A a \in accounts : f[inst[a]] # None
    BY SavedBySuccessRegistered DEF AccountIsListed, AccountIsRegistered
  <2>4. accounts' \subseteq accounts /\ inst' = inst /\ reqReg[r] # None
    BY <1>3 DEF FetchUnauthorized
  <2>5. AccountIsRegistered'
    BY <2>1, <2>2, <2>3, <2>4 DEF AccountIsRegistered
  <2>6. \A q \in Request : reqAccount'[q] # None => reqReg'[q] # None
    BY <1>3 DEF FetchUnauthorized
  <2>7. QED
    BY <1>3, <2>4, <2>5, <2>6, FewerAccounts DEF FetchUnauthorized
<1>4. QED
  BY <1>1, <1>2, <1>3 DEF RequestStep

LEMMA RestartStep ==
  ASSUME CarefulInv, Restart
  PROVE  CarefulRest'
<1>1. /\ UNCHANGED <<listed, saved, accounts, inst, aborted>>
      /\ abandoned' = {}
      /\ \A l \in Login : stage'[l] \in {"idle", "done", "lost"} /\ code'[l] # "flight"
      /\ \A r \in Request : reqAccount'[r] = None
  BY DEF Restart, listVars, CarefulInv, CarefulRest, CodeInv, TypeInv, TypeOK
<1>2. QED
  BY <1>1
  DEF CarefulInv, CarefulRest, OneLogin, NoAccountYet, CopyIsNoOlder,
      WritersAreRegistered, AccountIsRegistered, OneAccount, AccountIsListed,
      NeverAborted, Busy

LEMMA CarefulStep ==
  ASSUME Launch = "plain", Application = "careful", CarefulInv, [Next]_vars
  PROVE  CarefulInv'
<1>1. CodeInv' /\ ConfigInv'
  BY CodeStep, ConfigStep DEF CarefulInv, CarefulRest
<1>2. LoginHasUrl'
  BY <1>1 DEF ConfigInv
<1>3. ASSUME NEW i \in Instance, CreateClient(i) \/ RemoveClient(i)
      PROVE  CarefulRest'
  BY <1>3, ListSteps
<1>4. ASSUME NEW l \in Login, LoginStep(l) PROVE CarefulRest'
  BY <1>2, <1>4, BeginLoginStep, RegistrationSteps, SaveRegistrationStep,
     PageSteps, TokenGrantedStep, TokenRefusedStep, AccountStep DEF LoginStep
<1>5. ASSUME UNCHANGED vars PROVE CarefulRest'
  BY <1>5, FewerAccounts
  DEF vars, listVars, storeVars, requestVars, CarefulInv, CarefulRest,
      AccountIsRegistered, WritersAreRegistered
<1>6. CarefulRest'
  BY <1>3, <1>4, <1>5, RequestSteps, RestartStep DEF Next, ListStep
<1>7. QED
  BY <1>1, <1>6 DEF CarefulInv

\* A careful application never has two accounts of one instance, nor an account
\* of an instance it removed, and no assertion stops it, whatever restarts,
\* refusals, lost tokens and lost updates it meets (loginWithClient: and
\* removeClient:, MastodonClientManager.m 112-137 and 155-216).
THEOREM CarefulSafety ==
  ASSUME Launch = "plain", Application = "careful"
  PROVE  Spec => [](OneAccount /\ AccountIsListed /\ NeverAborted)
<1>1. CarefulInv /\ [Next]_vars => CarefulInv'
  BY CarefulStep
<1>2. CarefulInv => OneAccount /\ AccountIsListed /\ NeverAborted
  BY DEF CarefulInv, CarefulRest
<1>3. QED
  BY CarefulInit, <1>1, <1>2, PTL DEF Spec

-----------------------------------------------------------------------------
(* The manager implements Sessions.                                        *)

\* No page is redirected a second time.
GrantedIsOver ==
  \A l \in Login : code[l] = "granted" => stage[l] \in {"closed", "lost"}

LEMMA GrantedStep ==
  ASSUME CarefulInv, GrantedIsOver, [Next]_vars
  PROVE  GrantedIsOver'
<1> USE DEF CarefulInv, CarefulRest, CodeInv, TypeInv, TypeOK, GrantedIsOver
<1>1. ASSUME NEW i \in Instance, CreateClient(i) \/ RemoveClient(i)
      PROVE  GrantedIsOver'
  BY <1>1 DEF CreateClient, RemoveClient, codeVars
<1>2. ASSUME NEW l \in Login, LoginStep(l) PROVE GrantedIsOver'
  <2>1. CASE \/ BeginLogin(l) \/ RegistrationFails(l)
             \/ RegistrationSucceeds(l) \/ SaveRegistration(l)
             \/ ShowLoginView(l) \/ Cancel(l) \/ AccountLosesToken(l)
    BY <1>2, <2>1
    DEF BeginLogin, RegistrationFails, RegistrationSucceeds, SaveRegistration,
        RequestAccess, ShowLoginView, Cancel, AccountLosesToken, codeVars
  <2>2. CASE (\E i \in Instance : RedirectWithCode(l, i)) \/ RedirectWithError(l)
    BY <1>2, <2>2 DEF RedirectWithCode, RedirectWithError, Redirected
  <2>3. CASE TokenGranted(l) \/ TokenRefused(l)
    BY <1>2, <2>3 DEF TokenGranted, TokenRefused, CodeEnds, CodeState
  <2>4. QED
    BY <1>2, <2>1, <2>2, <2>3 DEF LoginStep
<1>3. ASSUME NEW r \in Request, RequestStep(r) PROVE GrantedIsOver'
  BY <1>3 DEF RequestStep, Fetch, FetchEnds, FetchUnauthorized, codeVars
<1>4. CASE Restart
  BY <1>4 DEF Restart
<1>5. CASE UNCHANGED vars
  BY <1>5 DEF vars, codeVars
<1>6. QED
  BY <1>1, <1>2, <1>3, <1>4, <1>5 DEF Next, ListStep

SessionUnchanged == UNCHANGED <<inst, listed, accounts, Granted>>

LEMMA GrantedOfCode ==
  ASSUME code' = code
  PROVE  Granted' = Granted
  BY DEF Granted

LEMMA ListIsSession ==
  ASSUME CarefulInv, NEW i \in Instance, CreateClient(i) \/ RemoveClient(i)
  PROVE  Session!Create(i) \/ Session!Remove(i)
<1>1. Granted' = Granted
  BY GrantedOfCode DEF CreateClient, RemoveClient, codeVars
<1>2. CASE CreateClient(i)
  BY <1>1, <1>2 DEF CreateClient, storeVars, Session!Create
<1>3. CASE RemoveClient(i)
  <2>1. accounts' = {a \in accounts : inst[a] # i}
    BY <1>3 DEF RemoveClient, AccountsOf
  <2>2. QED
    BY <1>1, <1>3, <2>1 DEF RemoveClient, Session!Remove
<1>4. QED
  BY <1>2, <1>3

\* A granted login is of a client that is listed and has no other account.
LEMMA GrantIsSession ==
  ASSUME CarefulInv, NEW l \in Login, TokenGranted(l)
  PROVE  Session!Begin(l)
<1> USE DEF CarefulInv, CarefulRest, CodeInv, TypeInv, TypeOK
<1>1. /\ code[l] = "flight" /\ code' = [code EXCEPT ![l] = "granted"]
      /\ accounts' = accounts \cup {l}
      /\ UNCHANGED <<listed, inst>>
  BY DEF TokenGranted, CodeEnds, OneLogin
<1>2. inst[l] \in listed /\ \A a \in accounts : inst[a] # inst[l]
  BY <1>1 DEF OneLogin, Busy, NoAccountYet
<1>3. l \notin Granted /\ Granted' = Granted \cup {l}
  BY <1>1 DEF Granted
<1>4. QED
  BY <1>1, <1>2, <1>3 DEF Session!Begin

\* The copy of the list that is written is the list.
LEMMA LoginIsSession ==
  ASSUME CarefulInv, GrantedIsOver, NEW l \in Login, LoginStep(l)
  PROVE  Session!Begin(l) \/ Session!End(l) \/ SessionUnchanged
<1> USE DEF CarefulInv, CarefulRest, CodeInv, TypeInv, TypeOK
<1>1. CASE \/ BeginLogin(l) \/ RegistrationFails(l) \/ RegistrationSucceeds(l)
           \/ ShowLoginView(l) \/ Cancel(l)
  BY <1>1, GrantedOfCode
  DEF BeginLogin, RegistrationFails, RegistrationSucceeds, ShowLoginView, Cancel,
      listVars, storeVars, codeVars, SessionUnchanged
<1>2. CASE SaveRegistration(l)
  BY <1>2, GrantedOfCode
  DEF SaveRegistration, CopyIsNoOlder, listVars, codeVars, SessionUnchanged
<1>3. ASSUME NEW i \in Instance, RedirectWithCode(l, i)
      PROVE  SessionUnchanged
  <2>1. code[l] # "granted" /\ code'[l] # "granted"
    BY <1>3 DEF RedirectWithCode, Redirected, GrantedIsOver
  <2>2. \A m \in Login : m # l => code'[m] = code[m]
    BY <1>3 DEF RedirectWithCode
  <2>3. Granted' = Granted
    BY <2>1, <2>2 DEF Granted
  <2>4. QED
    BY <1>3, <2>3 DEF RedirectWithCode, listVars, SessionUnchanged
<1>4. CASE RedirectWithError(l)
  BY <1>4, GrantedOfCode DEF RedirectWithError, listVars, SessionUnchanged
<1>5. CASE TokenRefused(l)
  <2>1. Granted' = Granted
    BY <1>5 DEF TokenRefused, CodeEnds, Granted
  <2>2. QED
    BY <1>5, <2>1 DEF TokenRefused, listVars, SessionUnchanged
<1>6. CASE AccountLosesToken(l)
  BY <1>6, GrantedOfCode DEF AccountLosesToken, codeVars, Session!End
<1>7. QED
  BY <1>1, <1>2, <1>3, <1>4, <1>5, <1>6, GrantIsSession DEF LoginStep

\* The account of a request that is refused goes, if it is still there.
LEMMA RequestIsSession ==
  ASSUME CarefulInv, NEW r \in Request, RequestStep(r)
  PROVE  (\E l \in Login : Session!End(l)) \/ SessionUnchanged
<1>1. CASE (\E a \in Login : Fetch(r, a)) \/ FetchEnds(r)
  BY <1>1, GrantedOfCode
  DEF Fetch, FetchEnds, listVars, storeVars, codeVars, SessionUnchanged
<1>2. CASE FetchUnauthorized(r)
  <2> DEFINE a == reqAccount[r]
  <2>1. /\ accounts' = accounts \ {a} /\ Granted' = Granted
        /\ UNCHANGED <<inst, listed>>
    BY <1>2, GrantedOfCode DEF FetchUnauthorized, codeVars
  <2>2. CASE a \in accounts
    <3>1. a \in Login
      BY <2>2 DEF CarefulInv, CodeInv, TypeInv, TypeOK
    <3>2. Session!End(a)
      BY <2>1, <2>2 DEF Session!End
    <3>3. QED
      BY <3>1, <3>2
  <2>3. CASE a \notin accounts
    BY <2>1, <2>3 DEF SessionUnchanged
  <2>4. QED
    BY <2>2, <2>3
<1>3. QED
  BY <1>1, <1>2 DEF RequestStep

LEMMA RestartIsSession ==
  ASSUME CarefulInv, Restart
  PROVE  SessionUnchanged
<1>1. Granted' = Granted
  BY DEF Restart, Granted, CarefulInv, CodeInv, TypeInv, TypeOK
<1>2. QED
  BY <1>1 DEF Restart, listVars, SessionUnchanged

LEMMA SessionInit == Init => Session!Init
  BY DEF Init, Granted, Session!Init

LEMMA SessionStep ==
  ASSUME CarefulInv, GrantedIsOver, [Next]_vars
  PROVE  [Session!Next]_<<inst, listed, accounts, Granted>>
<1>1. ASSUME NEW i \in Instance, CreateClient(i) \/ RemoveClient(i)
      PROVE  Session!Next
  BY <1>1, ListIsSession DEF Session!Next
<1>2. ASSUME NEW l \in Login, LoginStep(l)
      PROVE  Session!Next \/ SessionUnchanged
  BY <1>2, LoginIsSession DEF Session!Next
<1>3. ASSUME NEW r \in Request, RequestStep(r)
      PROVE  Session!Next \/ SessionUnchanged
  BY <1>3, RequestIsSession DEF Session!Next
<1>4. CASE UNCHANGED vars
  BY <1>4, GrantedOfCode DEF vars, listVars, storeVars, codeVars, SessionUnchanged
<1>5. QED
  BY <1>1, <1>2, <1>3, <1>4, RestartIsSession DEF Next, ListStep, SessionUnchanged

\* For a careful application the manager is a set of clients, each with at most
\* one session, which begins with the grant of a login and ends with the
\* removal of the client, a refused fetch or a lost token; registrations,
\* pages, stale copies of the list and launches change nothing of it
\* (loginWithClient:, removeClient:, performMethod:, MastodonClientManager.m
\* 90-137, 155-216, 2376-2395).
THEOREM ImplementsSession ==
  ASSUME Launch = "plain", Application = "careful"
  PROVE  Spec => IsSession
<1>1. CarefulInv /\ [Next]_vars => CarefulInv'
  BY CarefulStep
<1>2. CarefulInv /\ GrantedIsOver /\ [Next]_vars => GrantedIsOver'
  BY GrantedStep
<1>3. CarefulInv /\ GrantedIsOver /\ [Next]_vars =>
        [Session!Next]_<<inst, listed, accounts, Granted>>
  BY SessionStep
<1>4. Init => GrantedIsOver
  BY DEF Init, GrantedIsOver
<1>5. QED
  BY CarefulInit, SessionInit, <1>1, <1>2, <1>3, <1>4, PTL
  DEF Spec, IsSession, Session!Spec

\* The assertion of NXOAuth2Client.m 91, which the run manager_group breaks,
\* holds without a group for every request too, not for login pages only, if
\* the application is careful.
THEOREM UrlsAreThere ==
  ASSUME Launch = "plain", Application = "careful"
  PROVE  Spec => []NeverWithoutUrl
<1>1. NeverAborted => NeverWithoutUrl
  BY DEF NeverAborted, NeverWithoutUrl
<1>2. QED
  BY <1>1, CarefulSafety, PTL
=============================================================================
