-------------------- MODULE MastodonClientManagerProofs --------------------
(***************************************************************************)
(* The properties of MastodonClientManager that hold however the           *)
(* application calls, for any instances, logins and fetches.               *)
(***************************************************************************)
EXTENDS MastodonClientManager, TLAPS

\* What the delegate queue has read is a list.
SnapshotIsAList ==
  /\ snapshot.authorized \subseteq snapshot.listed
  /\ \A i \in Instance \ snapshot.listed : snapshot.saved[i] = None

TypeInv == TypeOK /\ SnapshotIsAList

-----------------------------------------------------------------------------
(* Types.                                                                  *)

LEMMA TypeInit == Init => TypeInv
  BY DEF Init, TypeInv, TypeOK, SnapshotIsAList, NoList, Registration, Stage

LEMMA NoListIsAList ==
  /\ NoList \in [listed : SUBSET Instance, saved : [Instance -> Registration],
                 authorized : SUBSET Instance]
  /\ NoList.authorized \subseteq NoList.listed
  /\ \A i \in Instance \ NoList.listed : NoList.saved[i] = None
  BY DEF NoList, Registration

LEMMA CurrentListIsAList ==
  ASSUME TypeOK
  PROVE  /\ CurrentList \in [listed : SUBSET Instance,
                             saved : [Instance -> Registration],
                             authorized : SUBSET Instance]
         /\ CurrentList.authorized \subseteq CurrentList.listed
         /\ \A i \in Instance \ CurrentList.listed : CurrentList.saved[i] = None
  BY DEF TypeOK, CurrentList

\* A notification tells logins, and changes what listed clients are saved with.
LEMMA TellType ==
  ASSUME TypeOK, NEW logins, NEW answer \in {"success", "failure", "cancel"},
         Tell(logins, answer)
  PROVE  told' \in [Login -> SUBSET {"success", "failure", "cancel"}]
  BY DEF TypeOK, Tell

LEMMA SavedBySuccessType ==
  ASSUME TypeOK, NEW f \in SavedBySuccess
  PROVE  /\ f \in [Instance -> Registration]
         /\ \A i \in Instance \ listed : f[i] = None
  BY DEF TypeOK, SavedBySuccess

LEMMA AuthorizedBySuccessType ==
  ASSUME TypeOK PROVE AuthorizedBySuccess \subseteq listed
  BY DEF TypeOK, AuthorizedBySuccess

LEMMA RequestAccessType ==
  ASSUME TypeOK, NEW l \in Login, RequestAccess(l)
  PROVE  /\ pending' \in [Instance -> Registration]
         /\ stage' \in [Login -> Stage]
         /\ told' \in [Login -> SUBSET {"success", "failure", "cancel"}]
         /\ aborted' \in {"none", "login_without_url", "fetch_without_url",
                          "already_running"}
<1>1. told' \in [Login -> SUBSET {"success", "failure", "cancel"}]
  BY TellType DEF RequestAccess, TypeOK
<1>2. QED
  BY <1>1 DEF RequestAccess, TypeOK, Stage

LEMMA CodeEndsType ==
  ASSUME TypeOK, NEW l \in Login, NEW how \in {"granted", "refused"},
         CodeEnds(l, how)
  PROVE  /\ code' \in [Login -> {"none", "flight", "granted", "refused", "lost"}]
         /\ codeAt' \in [Login -> Instance \cup {None}]
         /\ abandoned' \subseteq Login
         /\ pending' \in [Instance -> Registration]
  BY DEF CodeEnds, TypeOK, Registration

LEMMA TypeStep == TypeInv /\ [Next]_vars => TypeInv'
<1> SUFFICES ASSUME TypeInv, [Next]_vars PROVE TypeInv'
  OBVIOUS
<1> USE DEF listVars, storeVars, codeVars, requestVars
<1>1. ASSUME NEW i \in Instance, CreateClient(i) PROVE TypeInv'
  BY <1>1 DEF CreateClient, TypeInv, TypeOK, SnapshotIsAList
<1>2. ASSUME NEW i \in Instance, RemoveClient(i) PROVE TypeInv'
  <2>1. told' \in [Login -> SUBSET {"success", "failure", "cancel"}]
    BY <1>2, TellType DEF RemoveClient, TypeInv
  <2>2. QED
    BY <1>2, <2>1 DEF RemoveClient, TypeInv, TypeOK, SnapshotIsAList, Registration
<1>3. ASSUME NEW l \in Login, BeginLogin(l) PROVE TypeInv'
  <2>1. /\ pending' \in [Instance -> Registration]
        /\ stage' \in [Login -> Stage]
        /\ told' \in [Login -> SUBSET {"success", "failure", "cancel"}]
        /\ aborted' \in {"none", "login_without_url", "fetch_without_url",
                         "already_running"}
    BY <1>3, RequestAccessType DEF BeginLogin, TypeInv, TypeOK, Stage
  <2>2. QED
    BY <1>3, <2>1 DEF BeginLogin, TypeInv, TypeOK, SnapshotIsAList, Registration
<1>4. ASSUME NEW l \in Login, RegistrationFails(l) PROVE TypeInv'
  <2>1. told' \in [Login -> SUBSET {"success", "failure", "cancel"}]
    BY <1>4, TellType DEF RegistrationFails, TypeInv
  <2>2. QED
    BY <1>4, <2>1 DEF RegistrationFails, TypeInv, TypeOK, SnapshotIsAList, Stage
<1>5. ASSUME NEW l \in Login, RegistrationSucceeds(l) PROVE TypeInv'
  <2>1. SnapshotIsAList' /\ snapshot' \in [listed : SUBSET Instance,
                                           saved : [Instance -> Registration],
                                           authorized : SUBSET Instance]
    BY <1>5, CurrentListIsAList DEF RegistrationSucceeds, TypeInv, SnapshotIsAList
  <2>2. QED
    BY <1>5, <2>1 DEF RegistrationSucceeds, TypeInv, TypeOK, Registration, Stage
<1>6. ASSUME NEW l \in Login, SaveRegistration(l) PROVE TypeInv'
  <2>1. SnapshotIsAList' /\ snapshot' \in [listed : SUBSET Instance,
                                           saved : [Instance -> Registration],
                                           authorized : SUBSET Instance]
    BY <1>6, NoListIsAList DEF SaveRegistration, SnapshotIsAList
  <2>2. /\ listed' \subseteq Instance /\ authorized' \subseteq listed'
        /\ saved' \in [Instance -> Registration]
        /\ \A i \in Instance \ listed' : saved'[i] = None
    BY <1>6 DEF SaveRegistration, TypeInv, TypeOK, SnapshotIsAList
  <2>3. /\ pending' \in [Instance -> Registration]
        /\ stage' \in [Login -> Stage]
        /\ told' \in [Login -> SUBSET {"success", "failure", "cancel"}]
        /\ aborted' \in {"none", "login_without_url", "fetch_without_url",
                         "already_running"}
    BY <1>6, RequestAccessType DEF SaveRegistration, TypeInv
  <2>4. QED
    BY <1>6, <2>1, <2>2, <2>3 DEF SaveRegistration, TypeInv, TypeOK
<1>7. ASSUME NEW l \in Login, ShowLoginView(l) PROVE TypeInv'
  BY <1>7 DEF ShowLoginView, TypeInv, TypeOK, SnapshotIsAList, Stage
<1>8. ASSUME NEW l \in Login, Cancel(l) PROVE TypeInv'
  <2>1. told' \in [Login -> SUBSET {"success", "failure", "cancel"}]
    BY <1>8, TellType DEF Cancel, TypeInv
  <2>2. QED
    BY <1>8, <2>1 DEF Cancel, TypeInv, TypeOK, SnapshotIsAList, Stage
<1>9. ASSUME NEW l \in Login, NEW i \in Instance, RedirectWithCode(l, i)
      PROVE  TypeInv'
  <2>1. pending' \in [Instance -> Registration]
    BY <1>9 DEF RedirectWithCode, TypeInv, TypeOK
  <2>2. /\ code' \in [Login -> {"none", "flight", "granted", "refused", "lost"}]
        /\ codeAt' \in [Login -> Instance \cup {None}]
        /\ aborted' \in {"none", "login_without_url", "fetch_without_url",
                         "already_running"}
    BY <1>9 DEF RedirectWithCode, TypeInv, TypeOK
  <2>3. QED
    BY <1>9, <2>1, <2>2
    DEF RedirectWithCode, Redirected, TypeInv, TypeOK, SnapshotIsAList, Stage
<1>10. ASSUME NEW l \in Login, RedirectWithError(l) PROVE TypeInv'
  <2>1. told' \in [Login -> SUBSET {"success", "failure", "cancel"}]
    BY <1>10, TellType DEF RedirectWithError, TypeInv
  <2>2. QED
    BY <1>10, <2>1
    DEF RedirectWithError, Redirected, TypeInv, TypeOK, SnapshotIsAList, Stage,
        Registration
<1>11. ASSUME NEW l \in Login, TokenGranted(l) PROVE TypeInv'
  <2>1. told' \in [Login -> SUBSET {"success", "failure", "cancel"}]
    BY <1>11, TellType DEF TokenGranted, AccountsDidChange, TypeInv
  <2>2. /\ code' \in [Login -> {"none", "flight", "granted", "refused", "lost"}]
        /\ codeAt' \in [Login -> Instance \cup {None}]
        /\ abandoned' \subseteq Login
        /\ pending' \in [Instance -> Registration]
    BY <1>11, CodeEndsType DEF TokenGranted, TypeInv
  <2>3. /\ saved' \in [Instance -> Registration]
        /\ \A i \in Instance \ listed : saved'[i] = None
        /\ authorized' \subseteq listed
    BY <1>11, SavedBySuccessType, AuthorizedBySuccessType
    DEF TokenGranted, AccountsDidChange, TypeInv
  <2>4. QED
    BY <1>11, <2>1, <2>2, <2>3
    DEF TokenGranted, TypeInv, TypeOK, SnapshotIsAList
<1>12. ASSUME NEW l \in Login, TokenRefused(l) PROVE TypeInv'
  <2>1. told' \in [Login -> SUBSET {"success", "failure", "cancel"}]
    BY <1>12, TellType DEF TokenRefused, TypeInv
  <2>2. /\ code' \in [Login -> {"none", "flight", "granted", "refused", "lost"}]
        /\ codeAt' \in [Login -> Instance \cup {None}]
        /\ abandoned' \subseteq Login
        /\ pending' \in [Instance -> Registration]
    BY <1>12, CodeEndsType DEF TokenRefused, TypeInv
  <2>3. QED
    BY <1>12, <2>1, <2>2 DEF TokenRefused, TypeInv, TypeOK, SnapshotIsAList
<1>13. ASSUME NEW l \in Login, AccountLosesToken(l) PROVE TypeInv'
  <2>1. told' \in [Login -> SUBSET {"success", "failure", "cancel"}]
    BY <1>13, TellType DEF AccountLosesToken, AccountsDidChange, TypeInv
  <2>2. /\ saved' \in [Instance -> Registration]
        /\ \A i \in Instance \ listed : saved'[i] = None
        /\ authorized' \subseteq listed
    BY <1>13, SavedBySuccessType, AuthorizedBySuccessType
    DEF AccountLosesToken, AccountsDidChange, TypeInv
  <2>3. QED
    BY <1>13, <2>1, <2>2 DEF AccountLosesToken, TypeInv, TypeOK, SnapshotIsAList
<1>14. ASSUME NEW r \in Request, NEW a \in Login, Fetch(r, a) PROVE TypeInv'
  BY <1>14 DEF Fetch, TypeInv, TypeOK, SnapshotIsAList, Registration
<1>15. ASSUME NEW r \in Request, FetchEnds(r) PROVE TypeInv'
  BY <1>15 DEF FetchEnds, TypeInv, TypeOK, SnapshotIsAList, Registration
<1>16. ASSUME NEW r \in Request, FetchUnauthorized(r) PROVE TypeInv'
  <2>1. told' \in [Login -> SUBSET {"success", "failure", "cancel"}]
    BY <1>16, TellType DEF FetchUnauthorized, TypeInv
  <2>2. /\ saved' \in [Instance -> Registration]
        /\ \A i \in Instance \ listed : saved'[i] = None
    <3>1. PICK f \in SavedBySuccess :
            saved' = IF inst[reqAccount[r]] \in listed
                     THEN [f EXCEPT ![inst[reqAccount[r]]] = reqReg[r]] ELSE f
      BY <1>16 DEF FetchUnauthorized
    <3>2. /\ f \in [Instance -> Registration]
          /\ \A i \in Instance \ listed : f[i] = None
      BY SavedBySuccessType DEF TypeInv
    <3>3. QED
      BY <3>1, <3>2 DEF TypeInv, TypeOK
  <2>3. authorized' \subseteq listed
    BY <1>16, AuthorizedBySuccessType DEF FetchUnauthorized, TypeInv
  <2>4. QED
    BY <1>16, <2>1, <2>2, <2>3
    DEF FetchUnauthorized, TypeInv, TypeOK, SnapshotIsAList, Registration
<1>17. CASE Restart
  <2>1. SnapshotIsAList' /\ snapshot' \in [listed : SUBSET Instance,
                                           saved : [Instance -> Registration],
                                           authorized : SUBSET Instance]
    BY <1>17, NoListIsAList DEF Restart, SnapshotIsAList
  <2>2. QED
    BY <1>17, <2>1
    DEF Restart, SetUpAllClient, TypeInv, TypeOK, Registration, Stage
<1>18. CASE UNCHANGED vars
  BY <1>18 DEF vars, TypeInv, TypeOK, SnapshotIsAList
<1>19. QED
  BY <1>1, <1>2, <1>3, <1>4, <1>5, <1>6, <1>7, <1>8, <1>9, <1>10, <1>11, <1>12,
     <1>13, <1>14, <1>15, <1>16, <1>17, <1>18
  DEF Next, ListStep, LoginStep, RequestStep

\* Each variable has its type, and the list no registration or authorization of
\* a client it does not have, for every instance of the constants.
THEOREM ManagerTypeCorrect == Spec => []TypeOK
<1>1. TypeInv => TypeOK
  BY DEF TypeInv
<1>2. QED
  BY TypeInit, TypeStep, <1>1, PTL DEF Spec

-----------------------------------------------------------------------------
(* Authorization codes.                                                    *)

\* A code in flight is with a client, after the redirect that brought it; no
\* other login has one.
CodeState ==
  \A l \in Login :
    /\ code[l] = "flight" => stage[l] = "closed" /\ codeAt[l] \in Instance
    /\ code[l] # "flight" => codeAt[l] = None /\ l \notin abandoned

CodeInv == TypeInv /\ CodeState /\ CodeHasItsPendingClient

LEMMA CodeInit == Init => CodeInv
  BY TypeInit DEF Init, CodeInv, CodeState, CodeHasItsPendingClient

\* The pending clients are not fewer.
LEMMA RequestAccessKeepsPending ==
  ASSUME TypeOK, NEW l \in Login, RequestAccess(l)
  PROVE  \A i \in Instance : pending[i] # None => pending'[i] # None
  BY DEF RequestAccess, TypeOK

LEMMA CodesKept ==
  ASSUME CodeInv, UNCHANGED codeVars,
         \A l \in Login : stage[l] = "closed" => stage'[l] = "closed",
         \A i \in Instance : pending[i] # None => pending'[i] # None
  PROVE  CodeState' /\ CodeHasItsPendingClient'
  BY DEF CodeInv, CodeState, CodeHasItsPendingClient, codeVars

\* An answer takes the pending client of its own code only.
LEMMA CodeEndsKeepsOthers ==
  ASSUME CodeInv, NEW l \in Login, NEW how \in {"granted", "refused"},
         CodeEnds(l, how), UNCHANGED stage
  PROVE  CodeState' /\ CodeHasItsPendingClient'
<1> USE ManagerAssumption
    DEF CodeInv, TypeInv, TypeOK, CodeState, CodeHasItsPendingClient, CodeEnds
<1>1. CodeState'
  OBVIOUS
<1>2. \A m \in Login \ abandoned' :
        code'[m] = "flight" =>
          m # l /\ m \notin abandoned /\ code[m] = "flight" /\ codeAt'[m] = codeAt[m]
  OBVIOUS
<1>3. ASSUME NEW m \in Login \ abandoned', code'[m] = "flight"
      PROVE  pending'[codeAt'[m]] # None
  <2>1. pending[codeAt[m]] # None /\ codeAt[m] \in Instance
    BY <1>2, <1>3
  <2>2. l \notin abandoned => codeAt[l] # codeAt[m]
    BY <1>2, <1>3
  <2>3. QED
    BY <1>2, <1>3, <2>1, <2>2
<1>4. QED
  BY <1>1, <1>2, <1>3

LEMMA CodeStep == CodeInv /\ [Next]_vars => CodeInv'
<1> SUFFICES ASSUME CodeInv, [Next]_vars PROVE CodeState' /\ CodeHasItsPendingClient'
  BY TypeStep DEF CodeInv
<1> USE DEF storeVars, codeVars
<1>1. ASSUME NEW i \in Instance, CreateClient(i) \/ RemoveClient(i)
      PROVE  CodeState' /\ CodeHasItsPendingClient'
  BY <1>1, CodesKept DEF CreateClient, RemoveClient
<1>2. ASSUME NEW l \in Login, BeginLogin(l) \/ SaveRegistration(l)
      PROVE  CodeState' /\ CodeHasItsPendingClient'
  <2>1. \A i \in Instance : pending[i] # None => pending'[i] # None
    BY <1>2, RequestAccessKeepsPending
    DEF BeginLogin, SaveRegistration, CodeInv, TypeInv
  <2>2. \A m \in Login : stage[m] = "closed" => stage'[m] = "closed"
    BY <1>2
    DEF BeginLogin, SaveRegistration, RequestAccess, CodeInv, TypeInv, TypeOK
  <2>3. QED
    BY <1>2, <2>1, <2>2, CodesKept DEF BeginLogin, SaveRegistration
<1>3. ASSUME NEW l \in Login,
             RegistrationFails(l) \/ RegistrationSucceeds(l) \/ ShowLoginView(l)
               \/ Cancel(l)
      PROVE  CodeState' /\ CodeHasItsPendingClient'
  <2>1. \A m \in Login : stage[m] = "closed" => stage'[m] = "closed"
    BY <1>3
    DEF RegistrationFails, RegistrationSucceeds, ShowLoginView, Cancel, CodeInv,
        TypeInv, TypeOK
  <2>2. QED
    BY <1>3, <2>1, CodesKept
    DEF RegistrationFails, RegistrationSucceeds, ShowLoginView, Cancel
<1>4. ASSUME NEW l \in Login, NEW i \in Instance, RedirectWithCode(l, i)
      PROVE  CodeState' /\ CodeHasItsPendingClient'
  <2> USE DEF CodeInv, TypeInv, TypeOK, CodeState, CodeHasItsPendingClient
  <2>1. /\ code[l] # "flight" /\ l \notin abandoned /\ pending'[i] # None
        /\ stage' = [stage EXCEPT ![l] = "closed"]
    BY <1>4 DEF RedirectWithCode, Redirected
  <2>2. \A j \in Instance : pending[j] # None => pending'[j] # None
    BY <1>4 DEF RedirectWithCode
  <2>3. CASE Authenticating(i)
    <3>1. UNCHANGED codeVars
      BY <1>4, <2>3 DEF RedirectWithCode
    <3>2. \A m \in Login : stage[m] = "closed" => stage'[m] = "closed"
      BY <2>1
    <3>3. QED
      BY <2>2, <3>1, <3>2, CodesKept
  <2>4. CASE ~Authenticating(i)
    <3>1. /\ code' = [code EXCEPT ![l] = "flight"]
          /\ codeAt' = [codeAt EXCEPT ![l] = i]
          /\ abandoned' = abandoned
          /\ \A m \in Login \ abandoned : codeAt[m] # i
      BY <1>4, <2>4 DEF RedirectWithCode, Authenticating
    <3>2. CodeState'
      BY <2>1, <3>1
    <3>3. CodeHasItsPendingClient'
      BY <2>1, <2>2, <3>1
    <3>4. QED
      BY <3>2, <3>3
  <2>5. QED
    BY <2>3, <2>4
<1>5. ASSUME NEW l \in Login, RedirectWithError(l)
      PROVE  CodeState' /\ CodeHasItsPendingClient'
  BY <1>5
  DEF RedirectWithError, Redirected, CodeInv, TypeInv, TypeOK, CodeState,
      CodeHasItsPendingClient
<1>6. ASSUME NEW l \in Login, TokenGranted(l) \/ TokenRefused(l)
      PROVE  CodeState' /\ CodeHasItsPendingClient'
  BY <1>6, CodeEndsKeepsOthers DEF TokenGranted, TokenRefused
<1>7. ASSUME UNCHANGED <<codeVars, stage, pending>>
      PROVE  CodeState' /\ CodeHasItsPendingClient'
  BY <1>7, CodesKept
<1>8. CASE Restart
  BY <1>8
  DEF Restart, CodeInv, TypeInv, TypeOK, CodeState, CodeHasItsPendingClient
<1>9. QED
  BY <1>1, <1>2, <1>3, <1>4, <1>5, <1>6, <1>7, <1>8
  DEF Next, ListStep, LoginStep, RequestStep, AccountLosesToken, Fetch, FetchEnds,
      FetchUnauthorized, vars

\* A pending client sends one code at a time and stays until its answer is
\* there, however many logins share it (NXOAuth2AccountStore.m 529-542).
THEOREM CodeKeepsItsPendingClient == Spec => []CodeHasItsPendingClient
<1>1. CodeInv => CodeHasItsPendingClient
  BY DEF CodeInv
<1>2. QED
  BY CodeInit, CodeStep, <1>1, PTL DEF Spec

\* The login whose code is granted hears of it: its observers are still there,
\* since the view stays until the process ends (MastodonLoginViewController.m
\* 86-93).
THEOREM GrantIsHeard == Spec => GrantTellsItsLogin
<1> DEFINE Heard ==
      \A l \in Login :
        code[l] = "flight" /\ code'[l] = "granted" =>
          /\ "success" \in told'[l]
          /\ inst[l] \in listed' => inst[l] \in authorized'
<1>1. ASSUME CodeInv, Next PROVE Heard
  <2> SUFFICES ASSUME NEW l \in Login, code[l] = "flight", code'[l] = "granted"
               PROVE  /\ "success" \in told'[l]
                      /\ inst[l] \in listed' => inst[l] \in authorized'
    OBVIOUS
  <2>1. l \in Observers /\ inst[l] \in Instance
    BY <1>1 DEF CodeInv, CodeState, Observers, TypeInv, TypeOK
  <2>2. TokenGranted(l)
    <3>1. /\ code'[l] # code[l] /\ code'[l] = "granted"
          /\ code \in [Login -> {"none", "flight", "granted", "refused", "lost"}]
      BY <1>1 DEF CodeInv, TypeInv, TypeOK
    <3>2. ~Restart
      BY <3>1 DEF Restart
    <3>3. ASSUME NEW m \in Login PROVE ~TokenRefused(m)
      BY <3>1 DEF TokenRefused, CodeEnds
    <3>4. ASSUME NEW m \in Login, NEW i \in Instance PROVE ~RedirectWithCode(m, i)
      BY <3>1 DEF RedirectWithCode
    <3>5. PICK m \in Login : TokenGranted(m)
      BY <1>1, <3>1, <3>2, <3>3, <3>4
      DEF Next, ListStep, LoginStep, RequestStep, CreateClient, RemoveClient,
          BeginLogin, RegistrationFails, RegistrationSucceeds, SaveRegistration,
          ShowLoginView, Cancel, RedirectWithError, AccountLosesToken, Fetch,
          FetchEnds, FetchUnauthorized, codeVars
    <3>6. QED
      BY <3>1, <3>5 DEF TokenGranted, CodeEnds
  <2>3. QED
    BY <2>1, <2>2
    DEF TokenGranted, AccountsDidChange, Tell, AuthorizedBySuccess
<1>2. CodeInv /\ [Next]_vars => [Heard]_vars
  BY <1>1
<1>3. QED
  BY CodeInit, CodeStep, <1>2, PTL DEF Spec, GrantTellsItsLogin

-----------------------------------------------------------------------------
(* What is registered is configured, wherever it is remembered: in the     *)
(* saved list, in a copy of that list, in the client of a login, in the    *)
(* client of a fetch.                                                      *)

Configured(r, i) == r # None => config[i] # None

ListsConfigured ==
  \A i \in Instance :
    Configured(saved[i], i) /\ Configured(snapshot.saved[i], i)

LoginsConfigured ==
  \A l \in Login :
    stage[l] \in {"saving", "opening", "web", "cancelled", "closed"} =>
      Configured(reg[l], inst[l])

FetchesConfigured ==
  \A r \in Request :
    reqAccount[r] # None => Configured(reqReg[r], inst[reqAccount[r]])

ConfigInv ==
  /\ TypeInv
  /\ ListsConfigured
  /\ LoginsConfigured
  /\ FetchesConfigured
  /\ \A l \in Login : stage[l] = "saving" => reg[l] # None
  /\ LoginHasUrl

\* A configuration goes with the process only.
LEMMA SavedBySuccessConfigured ==
  ASSUME ConfigInv, NEW f \in SavedBySuccess, NEW i \in Instance
  PROVE  Configured(f[i], i)
<1>1. f[i] = saved[i] \/ \E l \in Observers : inst[l] = i /\ f[i] = reg[l]
  BY DEF SavedBySuccess
<1>2. QED
  BY <1>1
  DEF ConfigInv, ListsConfigured, LoginsConfigured, Observers, Configured

LEMMA RequestAccessHasUrl ==
  ASSUME ConfigInv, NEW l \in Login, config[inst[l]] # None, RequestAccess(l)
  PROVE  LoginHasUrl'
  BY DEF RequestAccess, ConfigInv, TypeInv, TypeOK, LoginHasUrl

LEMMA ConfigInit == Init => ConfigInv
  BY TypeInit
  DEF Init, ConfigInv, ListsConfigured, LoginsConfigured, FetchesConfigured,
      Configured, NoList, LoginHasUrl

\* A step that changes neither a login nor a configuration.
LEMMA ConfigKept ==
  ASSUME ConfigInv, TypeInv',
         UNCHANGED <<config, inst, stage, reg, snapshot, aborted>>,
         \A i \in Instance : Configured(saved'[i], i),
         \A r \in Request :
           \/ reqAccount'[r] = reqAccount[r] /\ reqReg'[r] = reqReg[r]
           \/ reqAccount'[r] = None
  PROVE  ConfigInv'
  BY DEF ConfigInv, ListsConfigured, LoginsConfigured, FetchesConfigured,
         Configured, LoginHasUrl

LEMMA ConfigStep ==
  ASSUME Launch = "plain", ConfigInv, [Next]_vars
  PROVE  ConfigInv'
<1>0. TypeInv'
  BY TypeStep DEF ConfigInv
<1> USE DEF listVars, requestVars
<1>1. ASSUME NEW i \in Instance, CreateClient(i) \/ RemoveClient(i)
      PROVE  ConfigInv'
  <2>1. \A j \in Instance : Configured(saved'[j], j)
    BY <1>1
    DEF CreateClient, RemoveClient, ConfigInv, TypeInv, TypeOK, ListsConfigured,
        Configured
  <2>2. QED
    BY <1>0, <1>1, <2>1, ConfigKept DEF CreateClient, RemoveClient, storeVars
<1>2. ASSUME NEW l \in Login, BeginLogin(l) PROVE ConfigInv'
  <2>1. /\ UNCHANGED <<config, inst, saved, snapshot, requestVars>>
        /\ reg' = [reg EXCEPT ![l] = saved[inst[l]]]
        /\ \A m \in Login : m # l => stage'[m] = stage[m]
        /\ stage'[l] # "saving"
    BY <1>2
    DEF BeginLogin, RequestAccess, ConfigInv, TypeInv, TypeOK
  <2>2. LoginHasUrl'
    BY <1>2, RequestAccessHasUrl
    DEF BeginLogin, ConfigInv, TypeInv, TypeOK, ListsConfigured, Configured,
        LoginHasUrl
  <2>3. QED
    BY <1>0, <2>1, <2>2
    DEF ConfigInv, TypeInv, TypeOK, ListsConfigured, LoginsConfigured,
        FetchesConfigured, Configured
<1>3. ASSUME NEW l \in Login,
             RegistrationFails(l) \/ ShowLoginView(l) \/ Cancel(l)
               \/ RedirectWithError(l)
      PROVE  ConfigInv'
  <2>1. /\ UNCHANGED <<config, inst, saved, reg, snapshot, requestVars, aborted>>
        /\ \A m \in Login : stage'[m] = stage[m] \/ m = l
        /\ stage'[l] # "saving"
        /\ stage'[l] \in {"web", "cancelled", "closed"} =>
             stage[l] \in {"opening", "web", "cancelled"}
        /\ stage'[l] # "opening"
    BY <1>3
    DEF RegistrationFails, ShowLoginView, Cancel, RedirectWithError, Redirected,
        storeVars, ConfigInv, TypeInv, TypeOK
  <2>2. QED
    BY <1>0, <2>1
    DEF ConfigInv, ListsConfigured, LoginsConfigured, FetchesConfigured,
        Configured, LoginHasUrl
<1>4. ASSUME NEW l \in Login, RegistrationSucceeds(l) PROVE ConfigInv'
  <2>1. /\ UNCHANGED <<inst, saved, requestVars, aborted>>
        /\ reg' = [reg EXCEPT ![l] = l] /\ l # None
        /\ config' = [config EXCEPT ![inst[l]] = l]
        /\ stage' = [stage EXCEPT ![l] = "saving"]
        /\ snapshot'.saved = saved
    BY <1>4, ManagerAssumption DEF RegistrationSucceeds, CurrentList
  <2>2. \A r, i : Configured(r, i) => Configured(r, i)'
    BY <2>1 DEF Configured, ConfigInv, TypeInv, TypeOK
  <2>3. ListsConfigured' /\ FetchesConfigured' /\ LoginHasUrl'
    BY <2>1 DEF ConfigInv, TypeInv, TypeOK, ListsConfigured, FetchesConfigured,
                Configured, LoginHasUrl
  <2>4. LoginsConfigured' /\ \A m \in Login : stage'[m] = "saving" => reg'[m] # None
    BY <2>1 DEF ConfigInv, TypeInv, TypeOK, LoginsConfigured, Configured
  <2>5. QED
    BY <1>0, <2>3, <2>4 DEF ConfigInv
<1>5. ASSUME NEW l \in Login, SaveRegistration(l) PROVE ConfigInv'
  <2>1. config[inst[l]] # None /\ inst[l] \in Instance
    BY <1>5
    DEF SaveRegistration, ConfigInv, TypeInv, TypeOK, LoginsConfigured, Configured
  <2>2. LoginHasUrl'
    BY <1>5, <2>1, RequestAccessHasUrl DEF SaveRegistration
  <2>3. \A i \in Instance : Configured(saved'[i], i)
    BY <1>5, <2>1
    DEF SaveRegistration, ConfigInv, TypeInv, TypeOK, ListsConfigured, Configured
  <2>4. /\ UNCHANGED <<config, inst, reg, requestVars>>
        /\ \A i \in Instance : snapshot'.saved[i] = None
        /\ \A m \in Login : m # l => stage'[m] = stage[m]
        /\ stage'[l] # "saving"
    BY <1>5
    DEF SaveRegistration, RequestAccess, NoList, ConfigInv, TypeInv, TypeOK
  <2>5. QED
    BY <1>0, <2>1, <2>2, <2>3, <2>4
    DEF ConfigInv, ListsConfigured, LoginsConfigured, FetchesConfigured, Configured
<1>6. ASSUME NEW l \in Login, NEW i \in Instance, RedirectWithCode(l, i)
      PROVE  ConfigInv'
  <2>1. /\ UNCHANGED <<config, inst, saved, reg, snapshot, requestVars>>
        /\ aborted' \in {aborted, "already_running"}
        /\ stage[l] \in {"web", "cancelled"}
        /\ stage' = [stage EXCEPT ![l] = "closed"]
    BY <1>6 DEF RedirectWithCode, Redirected
  <2>2. QED
    BY <1>0, <2>1
    DEF ConfigInv, TypeInv, TypeOK, ListsConfigured, LoginsConfigured,
        FetchesConfigured, Configured, LoginHasUrl
<1>7. ASSUME NEW l \in Login,
             TokenGranted(l) \/ TokenRefused(l) \/ AccountLosesToken(l)
      PROVE  ConfigInv'
  <2>1. \A i \in Instance : Configured(saved'[i], i)
    BY <1>7, SavedBySuccessConfigured
    DEF TokenGranted, TokenRefused, AccountLosesToken, AccountsDidChange, ConfigInv,
        ListsConfigured
  <2>2. QED
    BY <1>0, <1>7, <2>1, ConfigKept
    DEF TokenGranted, TokenRefused, AccountLosesToken
<1>8. ASSUME NEW r \in Request, NEW a \in Login, Fetch(r, a) PROVE ConfigInv'
  <2>1. CASE config[inst[a]] = None
    BY <1>0, <1>8, <2>1
    DEF Fetch, storeVars, ConfigInv, ListsConfigured, LoginsConfigured,
        FetchesConfigured, Configured, LoginHasUrl
  <2>2. CASE config[inst[a]] # None
    BY <1>0, <1>8, <2>2
    DEF Fetch, storeVars, ConfigInv, TypeInv, TypeOK, ListsConfigured,
        LoginsConfigured, FetchesConfigured, Configured, LoginHasUrl
  <2>3. QED
    BY <2>1, <2>2
<1>9. ASSUME NEW r \in Request, FetchEnds(r) PROVE ConfigInv'
  BY <1>0, <1>9, ConfigKept
  DEF FetchEnds, storeVars, ConfigInv, TypeInv, TypeOK, ListsConfigured
<1>10. ASSUME NEW r \in Request, FetchUnauthorized(r) PROVE ConfigInv'
  <2>1. PICK f \in SavedBySuccess :
          saved' = IF inst[reqAccount[r]] \in listed
                   THEN [f EXCEPT ![inst[reqAccount[r]]] = reqReg[r]] ELSE f
    BY <1>10 DEF FetchUnauthorized
  <2>2. \A i \in Instance : Configured(f[i], i)
    BY SavedBySuccessConfigured
  <2>3. Configured(reqReg[r], inst[reqAccount[r]])
    BY <1>10 DEF FetchUnauthorized, ConfigInv, FetchesConfigured
  <2>4. f \in [Instance -> Registration]
    BY SavedBySuccessType DEF ConfigInv, TypeInv
  <2>5. \A i \in Instance : Configured(saved'[i], i)
    BY <2>1, <2>2, <2>3, <2>4
  <2>6. QED
    BY <1>0, <1>10, <2>5, ConfigKept
    DEF FetchUnauthorized, ConfigInv, TypeInv, TypeOK
<1>11. CASE Restart
  <2>1. /\ UNCHANGED <<saved, aborted>> /\ config' = saved
        /\ \A i \in Instance : snapshot'.saved[i] = None
        /\ \A l \in Login : stage'[l] \in {"idle", "done", "lost"}
        /\ \A r \in Request : reqAccount'[r] = None
    BY <1>11 DEF Restart, SetUpAllClient, NoList, ConfigInv, TypeInv, TypeOK
  <2>2. QED
    BY <1>0, <2>1
    DEF ConfigInv, ListsConfigured, LoginsConfigured, FetchesConfigured,
        Configured, LoginHasUrl
<1>12. CASE UNCHANGED vars
  BY <1>0, <1>12, ConfigKept DEF vars, storeVars, ConfigInv, ListsConfigured
<1>13. QED
  BY <1>1, <1>2, <1>3, <1>4, <1>5, <1>6, <1>7, <1>8, <1>9, <1>10, <1>11, <1>12
  DEF Next, ListStep, LoginStep, RequestStep

\* Launched without a group, what the list calls registered is configured in
\* the store, and a login always gets the URL of its page, whatever the
\* application calls and however the two threads interleave (setUpClient:,
\* MastodonClientManager.m 77-88; NXOAuth2Client.m 91).
THEOREM ConfiguredSafety ==
  ASSUME Launch = "plain"
  PROVE  Spec => [](RegisteredIsConfigured /\ LoginHasUrl)
<1>1. ConfigInv /\ [Next]_vars => ConfigInv'
  BY ConfigStep
<1>2. ConfigInv => RegisteredIsConfigured /\ LoginHasUrl
  BY DEF ConfigInv, TypeInv, TypeOK, ListsConfigured, Configured,
         RegisteredIsConfigured
<1>3. QED
  BY ConfigInit, <1>1, <1>2, PTL DEF Spec

-----------------------------------------------------------------------------
(* A login is what the store takes it for: the life of its code and of the *)
(* account that comes of it.                                               *)

\* A login that has had its redirect has no other; what was granted is an
\* account, or was one, or is an orphan.
CodeIsUsedOnce ==
  /\ \A l \in Login : code[l] # "none" => stage[l] \in {"closed", "lost"}
  /\ \A l \in accounts \cup orphans : code[l] = "granted"
  /\ accounts \cap orphans = {}

GrantInv == CodeInv /\ CodeIsUsedOnce

LEMMA CodeIsUsedOnceStep == GrantInv /\ [Next]_vars => CodeIsUsedOnce'
<1> SUFFICES ASSUME GrantInv, [Next]_vars PROVE CodeIsUsedOnce'
  OBVIOUS
<1> USE DEF GrantInv, CodeInv, TypeInv, TypeOK, CodeState, CodeIsUsedOnce, storeVars,
            codeVars
<1>1. ASSUME NEW l \in Login,
             BeginLogin(l) \/ RegistrationFails(l) \/ RegistrationSucceeds(l)
               \/ SaveRegistration(l) \/ ShowLoginView(l) \/ Cancel(l)
      PROVE  CodeIsUsedOnce'
  <2>1. /\ UNCHANGED <<code, accounts, orphans>>
        /\ \A m \in Login : m # l => stage'[m] = stage[m]
        /\ stage[l] \notin {"closed", "lost"}
    BY <1>1
    DEF BeginLogin, RegistrationFails, RegistrationSucceeds, SaveRegistration,
        ShowLoginView, Cancel, RequestAccess
  <2>2. QED
    BY <2>1
<1>2. ASSUME NEW l \in Login,
             RedirectWithError(l) \/ \E i \in Instance : RedirectWithCode(l, i)
      PROVE  CodeIsUsedOnce'
  BY <1>2 DEF RedirectWithCode, RedirectWithError, Redirected
<1>3. ASSUME NEW l \in Login, TokenGranted(l) PROVE CodeIsUsedOnce'
  BY <1>3 DEF TokenGranted, CodeEnds
<1>4. ASSUME NEW l \in Login, TokenRefused(l) PROVE CodeIsUsedOnce'
  BY <1>4 DEF TokenRefused, CodeEnds
<1>5. ASSUME UNCHANGED <<code, stage, orphans>>, accounts' \subseteq accounts
      PROVE  CodeIsUsedOnce'
  BY <1>5
<1>6. CASE Restart
  BY <1>6 DEF Restart
<1>7. QED
  BY <1>1, <1>2, <1>3, <1>4, <1>5, <1>6
  DEF Next, ListStep, LoginStep, RequestStep, CreateClient, RemoveClient,
      AccountLosesToken, Fetch, FetchEnds, FetchUnauthorized, vars

\* The codes of some logins get another state, and the others keep theirs.
LEMMA GrantBecomes ==
  ASSUME NEW logins, NEW s,
         \A l \in Login : GrantState(l)' = IF l \in logins THEN s ELSE GrantState(l)
  PROVE  Grant!Becomes(logins, s)
  BY DEF Grant!Becomes, GrantOf

LEMMA GrantsUnchanged ==
  ASSUME \A l \in Login : GrantState(l)' = GrantState(l)
  PROVE  UNCHANGED GrantOf
  BY DEF GrantOf

LEMMA GrantsIn ==
  ASSUME NEW states
  PROVE  Grant!In(states) = {l \in Login : GrantState(l) \in states}
  BY DEF Grant!In, GrantOf

\* Any accounts that go are over.
LEMMA AccountsEnd ==
  ASSUME GrantInv, UNCHANGED <<codeVars, orphans>>, accounts' \subseteq accounts
  PROVE  Grant!Next
<1> USE DEF GrantInv, CodeInv, TypeInv, TypeOK, CodeState, CodeIsUsedOnce, codeVars
<1> DEFINE Gone == accounts \ accounts'
<1>1. \A l \in Gone : GrantState(l) = "account"
  BY DEF GrantState
<1>2. Gone \subseteq Grant!In({"account"})
  BY <1>1, GrantsIn
<1>3. \A l \in Login : GrantState(l)' = IF l \in Gone THEN "over" ELSE GrantState(l)
  BY DEF GrantState
<1>4. Grant!Becomes(Gone, "over")
  BY <1>3, GrantBecomes
<1>5. Gone \in SUBSET Login /\ Grant!EndAccounts(Gone)
  BY <1>2, <1>4 DEF Grant!EndAccounts
<1>6. QED
  BY <1>5 DEF Grant!Next

\* The answer to a code ends it, in one account of the login or in none.
LEMMA AnswerIsGrant ==
  ASSUME GrantInv, NEW l \in Login, TokenGranted(l) \/ TokenRefused(l)
  PROVE  Grant!Next
<1> USE DEF GrantInv, CodeInv, TypeInv, TypeOK, CodeState, CodeIsUsedOnce, CodeEnds
<1>1. /\ GrantOf[l] = GrantState(l)
      /\ GrantState(l) = IF l \in abandoned THEN "forgotten" ELSE "asked"
  BY DEF GrantOf, GrantState, TokenGranted, TokenRefused
<1>2. ASSUME TokenGranted(l) PROVE Grant!Grant(l)
  <2>1. \A m \in Login :
          GrantState(m)' = IF m \in {l}
                           THEN IF l \in abandoned THEN "orphan" ELSE "account"
                           ELSE GrantState(m)
    BY <1>2 DEF GrantState, TokenGranted
  <2>2. Grant!Becomes({l}, IF l \in abandoned THEN "orphan" ELSE "account")
    BY <2>1, GrantBecomes
  <2>3. QED
    BY <1>1, <2>2 DEF Grant!Grant
<1>3. ASSUME TokenRefused(l) PROVE Grant!Refuse(l)
  <2>1. \A m \in Login :
          GrantState(m)' = IF m \in {l} THEN "over" ELSE GrantState(m)
    BY <1>3 DEF GrantState, TokenRefused
  <2>2. Grant!Becomes({l}, "over")
    BY <2>1, GrantBecomes
  <2>3. QED
    BY <1>1, <2>2 DEF Grant!Refuse
<1>4. QED
  BY <1>2, <1>3 DEF Grant!Next

LEMMA RedirectIsGrant ==
  ASSUME GrantInv, NEW l \in Login,
         RedirectWithError(l) \/ \E i \in Instance : RedirectWithCode(l, i)
  PROVE  Grant!Next \/ UNCHANGED GrantOf
<1> USE DEF GrantInv, CodeInv, TypeInv, TypeOK, CodeState, CodeIsUsedOnce, codeVars
<1>1. CASE RedirectWithError(l)
  <2>1. \A m \in Login :
          GrantState(m)' = IF GrantState(m) \in {"asked"} THEN "forgotten"
                           ELSE GrantState(m)
    BY <1>1 DEF GrantState, RedirectWithError
  <2>2. Grant!Becomes(Grant!In({"asked"}), "forgotten")
    BY <2>1, GrantBecomes, GrantsIn
  <2>3. QED
    BY <2>2 DEF Grant!Forget, Grant!Next
<1>2. ASSUME NEW i \in Instance, RedirectWithCode(l, i)
      PROVE  Grant!Next \/ UNCHANGED GrantOf
  <2>0. code[l] = "none"
    BY <1>2 DEF RedirectWithCode, Redirected
  <2>1. CASE Authenticating(i)
    BY <1>2, <2>1, GrantsUnchanged DEF RedirectWithCode, GrantState
  <2>2. CASE ~Authenticating(i)
    <3>1. GrantOf[l] = "new"
      BY <2>0 DEF GrantOf, GrantState
    <3>2. \A m \in Login :
            GrantState(m)' = IF m \in {l} THEN "asked" ELSE GrantState(m)
      BY <1>2, <2>0, <2>2 DEF GrantState, RedirectWithCode
    <3>3. Grant!Becomes({l}, "asked")
      BY <3>2, GrantBecomes
    <3>4. QED
      BY <3>1, <3>3 DEF Grant!Ask, Grant!Next
  <2>3. QED
    BY <2>1, <2>2
<1>3. QED
  BY <1>1, <1>2

LEMMA RestartIsGrant == ASSUME GrantInv, Restart PROVE Grant!Next
<1>1. \A l \in Login :
        GrantState(l)' = IF GrantState(l) \in {"asked", "forgotten"} THEN "over"
                         ELSE GrantState(l)
  BY DEF Restart, GrantState, GrantInv, CodeInv, TypeInv, TypeOK, CodeState,
         CodeIsUsedOnce
<1>2. Grant!Becomes(Grant!In({"asked", "forgotten"}), "over")
  BY <1>1, GrantBecomes, GrantsIn
<1>3. QED
  BY <1>2 DEF Grant!Crash, Grant!Next

LEMMA GrantStep == GrantInv /\ [Next]_vars => [Grant!Next]_GrantOf
<1> SUFFICES ASSUME GrantInv, [Next]_vars PROVE Grant!Next \/ UNCHANGED GrantOf
  OBVIOUS
<1>1. ASSUME UNCHANGED <<codeVars, accounts, orphans>> PROVE UNCHANGED GrantOf
  BY <1>1, GrantsUnchanged DEF GrantState, codeVars
<1>2. ASSUME NEW l \in Login,
             TokenGranted(l) \/ TokenRefused(l) \/ RedirectWithError(l)
               \/ \E i \in Instance : RedirectWithCode(l, i)
      PROVE  Grant!Next \/ UNCHANGED GrantOf
  BY <1>2, AnswerIsGrant, RedirectIsGrant
<1>3. ASSUME UNCHANGED <<codeVars, orphans>>, accounts' \subseteq accounts
      PROVE  Grant!Next
  BY <1>3, AccountsEnd
<1>4. CASE Restart
  BY <1>4, RestartIsGrant
<1>5. QED
  BY <1>1, <1>2, <1>3, <1>4
  DEF Next, ListStep, LoginStep, RequestStep, CreateClient, RemoveClient, BeginLogin,
      RegistrationFails, RegistrationSucceeds, SaveRegistration, ShowLoginView, Cancel,
      AccountLosesToken, Fetch, FetchEnds, FetchUnauthorized, vars, storeVars

\* However the application calls and whatever the launch, what becomes of the
\* codes of any number of logins is what Grants says of them: each ends once,
\* in an account of its own login or in an orphan if the store forgot its
\* client, and no account comes back (NXOAuth2AccountStore.m 529-542, 602-619).
THEOREM ImplementsGrant == Spec => IsGrant
<1>1. Init => GrantInv /\ Grant!Init
  BY CodeInit DEF Init, GrantInv, CodeIsUsedOnce, Grant!Init, GrantOf, GrantState
<1>2. GrantInv /\ [Next]_vars => GrantInv'
  BY CodeStep, CodeIsUsedOnceStep DEF GrantInv
<1>3. GrantInv /\ [Next]_vars => [Grant!Next]_GrantOf
  BY GrantStep
<1>4. QED
  BY <1>1, <1>2, <1>3, PTL DEF Spec, IsGrant, Grant!Spec

-----------------------------------------------------------------------------
(* The safety halves of CodeIsAnswered and LoginIsAnswered.                *)

\* However many logins share its instance or its client, and whoever forgets
\* that client, the end of a code is told to its login: with the fairness of
\* FairSpec this is CodeIsAnswered.
THEOREM CodeEndIsHeard == Spec => EndedCodeIsTold
<1> DEFINE Heard ==
      \A l \in Login :
        code[l] = "flight" /\ code'[l] # "flight" =>
          told'[l] \cap {"success", "failure"} # {} \/ code'[l] = "lost"
<1>1. ASSUME CodeInv, Next PROVE Heard
  <2> SUFFICES ASSUME NEW l \in Login, code[l] = "flight", code'[l] # "flight"
               PROVE  told'[l] \cap {"success", "failure"} # {} \/ code'[l] = "lost"
    OBVIOUS
  <2>1. l \in Observers
    BY <1>1 DEF CodeInv, CodeState, Observers
  <2>2. CASE Restart
    BY <2>2 DEF Restart
  <2>3. CASE \E m \in Login : TokenGranted(m) \/ TokenRefused(m)
    <3>1. "success" \in told'[l] \/ "failure" \in told'[l]
      BY <2>1, <2>3 DEF TokenGranted, TokenRefused, AccountsDidChange, Tell
    <3>2. QED
      BY <3>1
  <2>4. CASE \E m \in Login, i \in Instance : RedirectWithCode(m, i)
    BY <1>1, <2>4 DEF RedirectWithCode, CodeInv, TypeInv, TypeOK
  <2>5. CASE UNCHANGED code
    BY <2>5
  <2>6. QED
    BY <1>1, <2>2, <2>3, <2>4, <2>5
    DEF Next, ListStep, LoginStep, RequestStep, CreateClient, RemoveClient, BeginLogin,
        RegistrationFails, RegistrationSucceeds, SaveRegistration, ShowLoginView,
        Cancel, RedirectWithError, AccountLosesToken, Fetch, FetchEnds,
        FetchUnauthorized, codeVars
<1>2. CodeInv /\ [Next]_vars => [Heard]_vars
  BY <1>1
<1>3. QED
  BY CodeInit, CodeStep, <1>2, PTL DEF Spec, EndedCodeIsTold

\* The stages of a login are passed once each: with the fairness of FairSpec
\* this is LoginIsAnswered.
THEOREM LoginNeverGoesBack == Spec => LoginGoesOn
<1> DEFINE GoesOn ==
      \A l \in Login :
        Waits(l) /\ stage'[l] # stage[l] =>
          \/ stage[l] = "registering" /\ stage'[l] = "saving"
          \/ stage[l] = "saving" /\ stage'[l] = "opening"
          \/ ~Waits(l)' /\ (told'[l] # {} \/ stage'[l] \in {"web", "lost"})
<1>1. ASSUME TypeInv, Next PROVE GoesOn
  <2> SUFFICES ASSUME NEW l \in Login, Waits(l), stage'[l] # stage[l]
               PROVE  \/ stage[l] = "registering" /\ stage'[l] = "saving"
                      \/ stage[l] = "saving" /\ stage'[l] = "opening"
                      \/ ~Waits(l)' /\ (told'[l] # {} \/ stage'[l] \in {"web", "lost"})
    OBVIOUS
  <2> USE DEF TypeInv, TypeOK, Waits
  <2>1. CASE Restart
    BY <1>1, <2>1 DEF Restart
  <2>2. CASE SaveRegistration(l)
    <3>1. stage'[l] = "opening" \/ (stage'[l] = "done" /\ "success" \in told'[l])
      BY <1>1, <2>2 DEF SaveRegistration, RequestAccess, Tell
    <3>2. stage[l] = "saving"
      BY <2>2 DEF SaveRegistration
    <3>3. QED
      BY <3>1, <3>2
  <2>3. CASE RegistrationFails(l)
    <3>1. stage'[l] = "done" /\ "failure" \in told'[l]
      BY <1>1, <2>3 DEF RegistrationFails, Tell
    <3>2. QED
      BY <3>1
  <2>4. CASE RegistrationSucceeds(l) \/ ShowLoginView(l)
    BY <1>1, <2>4 DEF RegistrationSucceeds, ShowLoginView
  <2>5. ASSUME NEW m \in Login,
               BeginLogin(m) \/ Cancel(m) \/ RedirectWithError(m)
                 \/ \E i \in Instance : RedirectWithCode(m, i)
        PROVE  m # l /\ stage'[l] = stage[l]
    BY <1>1, <2>5
    DEF BeginLogin, RequestAccess, Cancel, RedirectWithError, RedirectWithCode,
        Redirected
  <2>6. ASSUME NEW m \in Login, m # l,
               SaveRegistration(m) \/ RegistrationFails(m) \/ RegistrationSucceeds(m)
                 \/ ShowLoginView(m)
        PROVE  stage'[l] = stage[l]
    BY <1>1, <2>6
    DEF SaveRegistration, RequestAccess, RegistrationFails, RegistrationSucceeds,
        ShowLoginView
  <2>7. CASE UNCHANGED stage
    BY <2>7
  <2>8. QED
    BY <1>1, <2>1, <2>2, <2>3, <2>4, <2>5, <2>6, <2>7
    DEF Next, ListStep, LoginStep, RequestStep, CreateClient, RemoveClient,
        TokenGranted, TokenRefused, AccountLosesToken, Fetch, FetchEnds,
        FetchUnauthorized
<1>2. TypeInv /\ [Next]_vars => [GoesOn]_vars
  BY <1>1
<1>3. QED
  BY TypeInit, TypeStep, <1>2, PTL DEF Spec, LoginGoesOn
=============================================================================
