----------------------- MODULE MastodonClientManager -----------------------
(***************************************************************************)
(* MastodonClientManager's list of clients (the instances the application  *)
(* knows, kept in NSUserDefaults), the login of one of them, and the       *)
(* shared NXOAuth2AccountStore both work on.                               *)
(*                                                                         *)
(* Three actors: the main thread (the application, the login view          *)
(* controllers, every callback of NXOAuth2Client), the delegate queue of   *)
(* NSURLSession, where the answer to a registration is handled, and the    *)
(* servers.  A MastodonClient is a copy: each call of clientsList unpacks  *)
(* new objects, and updateClient: writes back whatever its object holds.   *)
(*                                                                         *)
(* A login attempt names what it makes: the registration of the            *)
(* application it obtains, the code it is redirected with, the account.    *)
(***************************************************************************)
EXTENDS Naturals, FiniteSets

CONSTANTS
  Instance,   \* instance URLs
  Login,       \* calls of loginWithClient:
  Request,     \* fetches
  None,        \* nil
  Application, \* "careful" calls nothing while a login runs, "any" does
  Launch       \* "plain" or "group", launchMastodonKitWithAppGroupIdentifier:

ASSUME ManagerAssumption ==
  /\ None \notin Login /\ None \notin Instance
  /\ Application \in {"careful", "any"}
  /\ Launch \in {"plain", "group"}

Registration == Login \cup {None}
Stage == {"idle", "registering", "saving", "opening", "web", "cancelled",
          "closed", "done", "lost"}

VARIABLES
  listed,      \* the clients of clientsList
  saved,       \* the registration each of them is saved with
  authorized,  \* those saved with isAuthorized
  accounts,    \* the store's accounts, each of the type of its login
  orphans,     \* the store's accounts of no type
  config,      \* the store's configurations
  pending,     \* the store's pending clients, by the configuration they have
  inst,        \* the instance a login is for
  stage,       \* how far a login is
  reg,         \* the registration of a login's MastodonClient
  told,        \* the completions a login was given
  code,        \* the authorization code of a login
  codeAt,      \* the instance whose pending client has that code
  abandoned,   \* the logins whose code is with a client no longer pending
  snapshot,    \* the list that the delegate queue is about to change
  reqAccount,  \* the account of a fetch that is not answered
  reqReg,      \* the registration of that fetch's MastodonClient
  aborted      \* the assertion that stopped the process

listVars == <<listed, saved, authorized>>
storeVars == <<accounts, orphans, config, pending>>
codeVars == <<code, codeAt, abandoned>>
requestVars == <<reqAccount, reqReg>>
vars == <<listVars, storeVars, codeVars, requestVars, inst, stage, reg, told,
          snapshot, aborted>>

TypeOK ==
  /\ listed \subseteq Instance /\ authorized \subseteq listed
  /\ saved \in [Instance -> Registration]
  /\ \A i \in Instance \ listed : saved[i] = None
  /\ accounts \subseteq Login /\ orphans \subseteq Login
  /\ config \in [Instance -> Registration]
  /\ pending \in [Instance -> Registration]
  /\ inst \in [Login -> Instance]
  /\ stage \in [Login -> Stage]
  /\ reg \in [Login -> Registration]
  /\ told \in [Login -> SUBSET {"success", "failure", "cancel"}]
  /\ code \in [Login -> {"none", "flight", "granted", "refused", "lost"}]
  /\ codeAt \in [Login -> Instance \cup {None}]
  /\ abandoned \subseteq Login
  /\ snapshot \in [listed : SUBSET Instance, saved : [Instance -> Registration],
                   authorized : SUBSET Instance]
  /\ reqAccount \in [Request -> Registration]
  /\ reqReg \in [Request -> Registration]
  /\ aborted \in {"none", "login_without_url", "fetch_without_url",
                  "already_running"}

NoList == [listed |-> {}, saved |-> [i \in Instance |-> None], authorized |-> {}]
CurrentList == [listed |-> listed, saved |-> saved, authorized |-> authorized]

Init ==
  /\ listed = {} /\ authorized = {} /\ saved = [i \in Instance |-> None]
  /\ accounts = {} /\ orphans = {}
  /\ config = [i \in Instance |-> None] /\ pending = [i \in Instance |-> None]
  /\ inst \in [Login -> Instance]
  /\ stage = [l \in Login |-> "idle"] /\ reg = [l \in Login |-> None]
  /\ told = [l \in Login |-> {}]
  /\ code = [l \in Login |-> "none"] /\ codeAt = [l \in Login |-> None]
  /\ abandoned = {}
  /\ snapshot = NoList
  /\ reqAccount = [r \in Request |-> None] /\ reqReg = [r \in Request |-> None]
  /\ aborted = "none"

-----------------------------------------------------------------------------
(* Helpers.                                                                *)

\* accountsWithAccountType: compares with another name.
AccountsOfNoType(i) == {}

\* accountsWithAccountType:
AccountsOf(i) == {a \in accounts : inst[a] = i}

\* No check of authConnection: a build without assertions.
NeverAuthenticating(i) == FALSE

\* The pending client of i waits for the answer to a token request.
Authenticating(i) == \E l \in Login \ abandoned : codeAt[l] = i

\* The delegate queue of NSURLSession is serial.
QueueIsFree == \A l \in Login : stage[l] # "saving"

\* A login runs: from the call of loginWithClient: to its first completion.
Busy(l) ==
  \/ stage[l] \in {"registering", "saving", "opening", "web"}
  \/ code[l] = "flight"

MayCall == Application = "any" \/ \A l \in Login : ~Busy(l)

\* The observers are removed when the view disappears.
ObserversOnScreen == {l \in Login : stage[l] = "web"}

\* The two observers of a login view are never removed: they listen as long
\* as the process lives.
Observers == {l \in Login : stage[l] \in {"web", "cancelled", "closed"}}

Tell(logins, answer) ==
  told' = [l \in Login |-> IF l \in logins THEN told[l] \cup {answer} ELSE told[l]]

\* The registrations the success blocks of the observers, in any order, may
\* leave in the saved list.
SavedBySuccess ==
  LET writers(i) == {l \in Observers : inst[l] = i}
  IN  {f \in [Instance -> Registration] :
         \A i \in Instance :
           IF i \in listed /\ writers(i) # {}
           THEN f[i] \in {reg[l] : l \in writers(i)}
           ELSE f[i] = saved[i]}

\* updateClient: adds a client the list does not have.
AuthorizedBySuccessUnlisted ==
  authorized \cup {i \in Instance : \E l \in Observers : inst[l] = i}

AuthorizedBySuccess ==
  authorized \cup {i \in listed : \E l \in Observers : inst[l] = i}

\* NXOAuth2AccountStoreAccountsDidChangeNotification: every observer takes it
\* for its own success.
AccountsDidChange ==
  /\ Tell(Observers, "success")
  /\ saved' \in SavedBySuccess
  /\ authorized' = AuthorizedBySuccess

-----------------------------------------------------------------------------
(* The list of clients.                                                    *)

CreateClient(i) ==
  /\ MayCall
  /\ i \notin listed
  /\ listed' = listed \cup {i}
  /\ UNCHANGED <<saved, authorized, storeVars, codeVars, requestVars, inst,
                 stage, reg, told, snapshot, aborted>>

\* Removing an account calls the observers; the list is then written as it
\* was read, without the client.
RemoveClient(i) ==
  /\ MayCall
  /\ i \in listed
  /\ accounts' = accounts \ AccountsOf(i)
  /\ Tell(IF AccountsOf(i) = {} THEN {} ELSE Observers, "success")
  /\ listed' = listed \ {i}
  /\ saved' = [saved EXCEPT ![i] = None]
  /\ authorized' = authorized \ {i}
  /\ UNCHANGED <<orphans, config, pending, codeVars, requestVars, inst, stage,
                 reg, snapshot, aborted>>

-----------------------------------------------------------------------------
(* Login.                                                                  *)

\* The completion is not called for an account that exists.
RequestAccessSilently(l) ==
  LET i == inst[l]
  IN
  \/ /\ AccountsOf(i) # {}
     /\ stage' = [stage EXCEPT ![l] = "done"]
     /\ UNCHANGED <<pending, told, aborted>>
  \/ /\ AccountsOf(i) = {}
     /\ stage' = [stage EXCEPT ![l] = "opening"]
     /\ pending' = [pending EXCEPT ![i] = IF @ = None THEN config[i] ELSE @]
     /\ aborted' = IF pending'[i] = None THEN "login_without_url" ELSE aborted
     /\ UNCHANGED told

\* The second half of loginWithClient:, for a registered client: it has an
\* account already, or the store makes the URL of its login page with the
\* pending client, made of its configuration if there is none.
RequestAccess(l) ==
  LET i == inst[l]
  IN
  \/ /\ AccountsOf(i) # {}
     /\ Tell({l}, "success")
     /\ stage' = [stage EXCEPT ![l] = "done"]
     /\ UNCHANGED <<pending, aborted>>
  \/ /\ AccountsOf(i) = {}
     /\ stage' = [stage EXCEPT ![l] = "opening"]
     /\ pending' = [pending EXCEPT ![i] = IF @ = None THEN config[i] ELSE @]
     /\ aborted' = IF pending'[i] = None THEN "login_without_url" ELSE aborted
     /\ UNCHANGED told

\* The application takes the client from clientsList.
BeginLogin(l) ==
  /\ MayCall
  /\ stage[l] = "idle" /\ inst[l] \in listed
  /\ reg' = [reg EXCEPT ![l] = saved[inst[l]]]
  /\ \/ /\ saved[inst[l]] # None
        /\ RequestAccess(l)
     \/ /\ saved[inst[l]] = None
        /\ stage' = [stage EXCEPT ![l] = "registering"]
        /\ UNCHANGED <<pending, told, aborted>>
  /\ UNCHANGED <<listVars, accounts, orphans, config, codeVars, requestVars,
                 inst, snapshot>>

\* An error, no JSON, or a field missing.  (JSON that is no dictionary raises at
\* line 164: the process ends, which is Restart.)
RegistrationFails(l) ==
  /\ stage[l] = "registering" /\ QueueIsFree
  /\ stage' = [stage EXCEPT ![l] = "done"]
  /\ Tell({l}, "failure")
  /\ UNCHANGED <<listVars, storeVars, codeVars, requestVars, inst, reg,
                 snapshot, aborted>>

\* On the delegate queue: setUpClient:, and updateClient: reads the list.
RegistrationSucceeds(l) ==
  /\ stage[l] = "registering" /\ QueueIsFree
  /\ reg' = [reg EXCEPT ![l] = l]
  /\ config' = [config EXCEPT ![inst[l]] = l]
  /\ snapshot' = CurrentList
  /\ stage' = [stage EXCEPT ![l] = "saving"]
  /\ UNCHANGED <<listVars, accounts, orphans, pending, codeVars, requestVars,
                 inst, told, aborted>>

\* On the delegate queue: updateClient: writes the list it read, which hides
\* what the main thread wrote since then, unless the main thread had read the
\* list before and hides this.  The login goes on.
SaveRegistration(l) ==
  /\ stage[l] = "saving"
  /\ \/ /\ inst[l] \in snapshot.listed
        /\ listed' = snapshot.listed
        /\ saved' = [snapshot.saved EXCEPT ![inst[l]] = reg[l]]
        /\ authorized' = snapshot.authorized \ {inst[l]}
     \/ /\ inst[l] \notin snapshot.listed \/ snapshot # CurrentList
        /\ UNCHANGED listVars
  /\ snapshot' = NoList
  /\ RequestAccess(l)
  /\ UNCHANGED <<accounts, orphans, config, codeVars, requestVars, inst, reg>>

\* On the main thread again: the view loads and adds its observers.
ShowLoginView(l) ==
  /\ stage[l] = "opening"
  /\ stage' = [stage EXCEPT ![l] = "web"]
  /\ UNCHANGED <<listVars, storeVars, codeVars, requestVars, inst, reg, told,
                 snapshot, aborted>>

\* The observers stay, and so does the page that is loading.
Cancel(l) ==
  /\ stage[l] = "web"
  /\ stage' = [stage EXCEPT ![l] = "cancelled"]
  /\ Tell({l}, "cancel")
  /\ UNCHANGED <<listVars, storeVars, codeVars, requestVars, inst, reg,
                 snapshot, aborted>>

-----------------------------------------------------------------------------
(* Redirects.  Every instance has the application's one redirect URL.      *)

Redirected(l) ==
  /\ stage[l] = "web" \/ (stage[l] = "cancelled" /\ Application = "any")
  /\ stage' = [stage EXCEPT ![l] = "closed"]

\* handleRedirectURL: gives the code to the first type of an unordered set.
RedirectWithCode(l, i) ==
  /\ Redirected(l)
  /\ config[i] # None
  /\ IF Authenticating(i)
     THEN aborted' = "already_running" /\ UNCHANGED <<code, codeAt>>
     ELSE /\ code' = [code EXCEPT ![l] = "flight"]
          /\ codeAt' = [codeAt EXCEPT ![l] = i]
          /\ UNCHANGED aborted
  /\ pending' = [pending EXCEPT ![i] = IF @ = None THEN config[i] ELSE @]
  /\ UNCHANGED <<listVars, accounts, orphans, config, abandoned, requestVars,
                 inst, reg, told, snapshot>>

\* An error goes to the pending client of every type, and makes the store
\* forget it; a token request it has sent goes on.
RedirectWithError(l) ==
  /\ Redirected(l)
  /\ Tell(Observers, "failure")
  /\ pending' = [i \in Instance |-> None]
  /\ abandoned' = abandoned \cup {m \in Login : code[m] = "flight"}
  /\ UNCHANGED <<listVars, accounts, orphans, config, code, codeAt,
                 requestVars, inst, reg, snapshot, aborted>>

-----------------------------------------------------------------------------
(* Token requests.                                                         *)

CodeEnds(l, how) ==
  /\ code[l] = "flight"
  /\ code' = [code EXCEPT ![l] = how]
  /\ codeAt' = [codeAt EXCEPT ![l] = None]
  /\ abandoned' = abandoned \ {l}
  /\ pending' = IF l \in abandoned THEN pending
                ELSE [pending EXCEPT ![codeAt[l]] = None]

\* The account is made for the login, whoever its client is.
TokenGrantedToAnyone(l) ==
  /\ CodeEnds(l, "granted")
  /\ codeAt[l] = inst[l]
  /\ accounts' = accounts \cup {l}
  /\ AccountsDidChange
  /\ UNCHANGED <<listed, orphans, config, requestVars, inst, stage, reg,
                 snapshot, aborted>>

\* A server grants its own codes only.
TokenGranted(l) ==
  /\ CodeEnds(l, "granted")
  /\ codeAt[l] = inst[l]
  /\ accounts' = IF l \in abandoned THEN accounts ELSE accounts \cup {l}
  /\ orphans' = IF l \in abandoned THEN orphans \cup {l} ELSE orphans
  /\ AccountsDidChange
  /\ UNCHANGED <<listed, config, requestVars, inst, stage, reg, snapshot,
                 aborted>>

TokenRefused(l) ==
  /\ CodeEnds(l, "refused")
  /\ Tell(Observers, "failure")
  /\ UNCHANGED <<listVars, accounts, orphans, config, requestVars, inst, stage,
                 reg, snapshot, aborted>>

-----------------------------------------------------------------------------
(* Requests, and what they do to accounts.                                 *)

\* A fetch with a client of clientsList that has an account.
Fetch(r, a) ==
  /\ reqAccount[r] = None
  /\ a \in accounts /\ inst[a] \in listed
  /\ IF config[inst[a]] = None
     THEN aborted' = "fetch_without_url" /\ UNCHANGED requestVars
     ELSE /\ reqAccount' = [reqAccount EXCEPT ![r] = a]
          /\ reqReg' = [reqReg EXCEPT ![r] = saved[inst[a]]]
          /\ UNCHANGED aborted
  /\ UNCHANGED <<listVars, storeVars, codeVars, inst, stage, reg, told,
                 snapshot>>

FetchEnds(r) ==
  /\ reqAccount[r] # None
  /\ reqAccount' = [reqAccount EXCEPT ![r] = None]
  /\ reqReg' = [reqReg EXCEPT ![r] = None]
  /\ UNCHANGED <<listVars, storeVars, codeVars, inst, stage, reg, told,
                 snapshot, aborted>>

\* performMethod's handler of a 401: the account goes, which calls the
\* observers, and then the client is saved as the fetch remembers it.
FetchUnauthorized(r) ==
  LET i == inst[reqAccount[r]]
  IN
  /\ reqAccount[r] # None
  /\ accounts' = accounts \ {reqAccount[r]}
  /\ Tell(Observers, "success")
  /\ \E f \in SavedBySuccess :
       saved' = IF i \in listed THEN [f EXCEPT ![i] = reqReg[r]] ELSE f
  /\ authorized' = AuthorizedBySuccess \ {i}
  /\ reqAccount' = [reqAccount EXCEPT ![r] = None]
  /\ reqReg' = [reqReg EXCEPT ![r] = None]
  /\ UNCHANGED <<listed, orphans, config, pending, codeVars, inst, stage, reg,
                 snapshot, aborted>>

\* The account's client lost its token: accountDidLoseAccessToken:.
AccountLosesToken(a) ==
  /\ a \in accounts
  /\ accounts' = accounts \ {a}
  /\ AccountsDidChange
  /\ UNCHANGED <<listed, orphans, config, pending, codeVars, requestVars, inst,
                 stage, reg, snapshot, aborted>>

-----------------------------------------------------------------------------

\* initWithBlock: does not call setUpAllClient.
SetUpNoClient == [i \in Instance |-> None]

\* setUpAllClient runs before the identifier of the group is set, and reads the
\* standard defaults, where the list of a group is not.
SetUpAllClient ==
  [i \in Instance |-> IF Launch = "plain" THEN saved[i] ELSE None]

\* The process ends and is launched again.
Restart ==
  /\ config' = SetUpAllClient
  /\ pending' = [i \in Instance |-> None]
  /\ stage' = [l \in Login |-> IF stage[l] \in {"idle", "done"}
                               THEN stage[l] ELSE "lost"]
  /\ code' = [l \in Login |-> IF code[l] = "flight" THEN "lost" ELSE code[l]]
  /\ codeAt' = [l \in Login |-> None]
  /\ abandoned' = {}
  /\ reqAccount' = [r \in Request |-> None]
  /\ reqReg' = [r \in Request |-> None]
  /\ snapshot' = NoList
  /\ UNCHANGED <<listVars, accounts, orphans, inst, reg, told, aborted>>

ListStep == \E i \in Instance : CreateClient(i) \/ RemoveClient(i)

LoginStep(l) ==
  \/ BeginLogin(l)
  \/ RegistrationFails(l)
  \/ RegistrationSucceeds(l)
  \/ SaveRegistration(l)
  \/ ShowLoginView(l)
  \/ Cancel(l)
  \/ \E i \in Instance : RedirectWithCode(l, i)
  \/ RedirectWithError(l)
  \/ TokenGranted(l)
  \/ TokenRefused(l)
  \/ AccountLosesToken(l)

RequestStep(r) ==
  \/ \E a \in Login : Fetch(r, a)
  \/ FetchEnds(r)
  \/ FetchUnauthorized(r)

Next ==
  /\ aborted = "none"
  /\ \/ ListStep
     \/ \E l \in Login : LoginStep(l)
     \/ \E r \in Request : RequestStep(r)
     \/ Restart

Spec == Init /\ [][Next]_vars
-----------------------------------------------------------------------------
(* What holds however the application calls, launched without a group.     *)

\* Whatever registration the list of clients remembers, the account store has
\* a configuration for that client: the stale copies that updateClient: writes
\* are never ahead of setClientID:... (setUpClient:, MastodonClientManager.m
\* 77-88 and 170-174).
RegisteredIsConfigured ==
  \A i \in listed : saved[i] # None => config[i] # None

\* The login of a registered client always has a configuration to make its
\* page from (pendingOAuthClientForAccountType:, "No token or no authorize
\* URL", NXOAuth2Client.m 91).
LoginHasUrl == aborted # "login_without_url"

\* A pending client sends one code at a time, and stays in pendingOAuthClients
\* until the answer is there, whatever the other logins of its instance do
\* (NXOAuth2AccountStore.m 529-542, 602-619).
CodeHasItsPendingClient ==
  /\ \A l \in Login \ abandoned : code[l] = "flight" => pending[codeAt[l]] # None
  /\ \A l, m \in Login \ abandoned :
       code[l] = "flight" /\ code[m] = "flight" /\ codeAt[l] = codeAt[m] => l = m

\* The login whose code a server grants hears of it, although its view left the
\* screen with the redirect, and its client is saved as authorized if it is
\* still listed (MastodonLoginViewController.m 86-93, 167-176).
GrantTellsItsLogin ==
  [][\A l \in Login :
       code[l] = "flight" /\ code'[l] = "granted" =>
         /\ "success" \in told'[l]
         /\ inst[l] \in listed' => inst[l] \in authorized']_vars

\* What became of a login's code.
GrantState(l) ==
  CASE code[l] = "none" -> "new"
    [] code[l] = "flight" /\ l \notin abandoned -> "asked"
    [] code[l] = "flight" /\ l \in abandoned -> "forgotten"
    [] l \in accounts -> "account"
    [] l \in orphans -> "orphan"
    [] OTHER -> "over"

GrantOf == [l \in Login |-> GrantState(l)]

Grant == INSTANCE Grants WITH state <- GrantOf

\* Of several logins with one redirect URL, each has one account from one code,
\* or an orphan if the store forgot its client while the code was on its way:
\* an error, a removed client, a late answer or a restart never gives the token
\* of one login to another, or brings back an account
\* (NXOAuth2AccountStore.m 529-542, 602-619).
IsGrant == Grant!Spec

\* Whatever ends a code but the end of the process is heard by the login it was
\* asked for: its view's observers outlive the view, and the store calls them
\* for a client it has forgotten too (NXOAuth2AccountStore.m 529-542, 602-619).
EndedCodeIsTold ==
  [][\A l \in Login :
       code[l] = "flight" /\ code'[l] # "flight" =>
         told'[l] \cap {"success", "failure"} # {} \/ code'[l] = "lost"]_vars

\* The stages of a login that nothing but the program moves on.
Waits(l) == stage[l] \in {"registering", "saving", "opening"}

\* A login never goes back to an earlier stage, and leaves the last of these
\* with its page or its completion, unless the process ended or it was told
\* before (loginWithClient:completion:, MastodonClientManager.m 194-248).
LoginGoesOn ==
  [][\A l \in Login :
       Waits(l) /\ stage'[l] # stage[l] =>
         \/ stage[l] = "registering" /\ stage'[l] = "saving"
         \/ stage[l] = "saving" /\ stage'[l] = "opening"
         \/ ~Waits(l)' /\ (told'[l] # {} \/ stage'[l] \in {"web", "lost"})]_vars

-----------------------------------------------------------------------------
(* What holds for an application that calls nothing while a login runs.    *)

\* One account of a type, as the TODO of loginWithClient: (line 199) and the
\* use of accounts[0] in every fetch take for granted.
OneAccount == \A a, b \in accounts : inst[a] = inst[b] => a = b

\* The client of every account is in the list: removeClient: can remove the
\* account, and the next launch configures it (removeClient:, lines 112-137).
AccountIsListed == \A a \in accounts : inst[a] \in listed

\* No assertion stops the process.
NeverAborted == aborted = "none"

Granted == {l \in Login : code[l] = "granted"}

Session == INSTANCE Sessions WITH
  of <- inst, clients <- listed, sessions <- accounts, begun <- Granted

\* A client comes and goes as the application says, and has one session from
\* the grant of its login to its end: no copy of the list that is written late
\* brings a client back or drops one, and no restart, refusal or second login
\* leaves an account without its client or brings one back.
IsSession == Session!Spec

-----------------------------------------------------------------------------
(* What an assertion claims, and the code does not keep.                   *)

\* "No token or no authorize URL" (NXOAuth2Client.m:91) never fails.
NeverWithoutUrl == aborted \notin {"login_without_url", "fetch_without_url"}

-----------------------------------------------------------------------------
(* Fairness: every connection is answered or times out, and what is queued *)
(* for the main thread or the delegate queue runs.  Nothing is assumed of  *)
(* the user or of the application.                                         *)

Alive == aborted = "none"

FairSpec ==
  /\ Spec
  /\ \A l \in Login :
       /\ WF_vars(Alive /\ (RegistrationFails(l) \/ RegistrationSucceeds(l)))
       /\ WF_vars(Alive /\ SaveRegistration(l))
       /\ WF_vars(Alive /\ ShowLoginView(l))
       /\ WF_vars(Alive /\ (TokenGranted(l) \/ TokenRefused(l)))

\* A login that was begun shows its page or calls its completion, unless the
\* process ends.
LoginIsAnswered ==
  \A l \in Login :
    stage[l] \in {"registering", "saving", "opening"} ~>
      told[l] # {} \/ stage[l] \in {"web", "lost"} \/ ~Alive

\* A login whose redirect brought a code is told success or failure, even when
\* the code is with a client of another instance or one the store has
\* forgotten.
CodeIsAnswered ==
  \A l \in Login :
    code[l] = "flight" ~>
      told[l] \cap {"success", "failure"} # {} \/ code[l] = "lost" \/ ~Alive
=============================================================================
