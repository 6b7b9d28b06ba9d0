---------------------------- MODULE FetchPipeline ----------------------------
(***************************************************************************)
(* A call of MastodonAPI from its start to its block: the fetch method of  *)
(* MastodonClientManager with the account it finds, the connection, what   *)
(* the server did and answered, performMethod:'s handler, the method's own *)
(* handler, and the successBlock or failureBlock.                          *)
(*                                                                         *)
(* What a method does with an answer is its entry in Handler, what its     *)
(* successBlock takes its entry in Block (FetchMethods.tla).  There is one *)
(* instance, whose accounts follow each other.  A connection that waits    *)
(* for a token is "held" by NXOAuth2Client (NXOAuth2Client.tla); what a    *)
(* refusal does to the list is in MastodonClientManager.tla.               *)
(***************************************************************************)
EXTENDS Naturals, FiniteSets

CONSTANTS
  Call,      \* calls of a method of MastodonAPI
  Account,   \* the accounts the instance has in turn
  None,      \* nil
  Method,    \* the methods
  Handler,   \* a method's handler
  Block      \* what its successBlock takes

Body == {"broken", "array", "dictionary", "other"}
Result == {Handler[m].made : m \in Method} \cup {<<"NSData">>, None}
HandlerKind == {"parses", "acknowledges", "ignores", "inverted"}

ASSUME PipelineAssumption ==
  /\ None \notin Account /\ None \notin Method
  /\ \A m \in Method :
       /\ Handler[m].handler \in HandlerKind
       /\ Handler[m].json \in {"array", "dictionary"}

VARIABLES
  account,  \* the account the store has
  former,   \* the accounts it had
  method,   \* the method called
  using,    \* the account a call was made with
  phase,    \* where its request is
  heard,    \* the calls whose connection ever had a response, thus data
  done,     \* how often the server did what a call asks
  error,    \* the error its connection ended with
  body,     \* its data: "none" is nil
  blocks,   \* how often one of its two blocks was called
  told,     \* what the last one was told: success or failure
  result,   \* what the successBlock was given
  reason,   \* the failureBlock's error: "none" is nil
  process   \* "raised": an exception ended it

requestVars == <<using, phase, heard, done, error, body>>
blockVars == <<blocks, told, result, reason>>
vars == <<account, former, method, requestVars, blockVars, process>>

TypeOK ==
  /\ account \in Account \cup {None}
  /\ former \subseteq Account
  /\ method \in [Call -> Method \cup {None}]
  /\ using \in [Call -> Account \cup {None}]
  /\ phase \in [Call -> {"idle", "sent", "held", "answered", "over", "lost"}]
  /\ heard \subseteq Call
  /\ done \in [Call -> Nat]
  /\ error \in [Call -> {"none", "http", "unauthorized", "network"}]
  /\ body \in [Call -> Body \cup {"none"}]
  /\ blocks \in [Call -> Nat]
  /\ told \in [Call -> {"nothing", "success", "failure"}]
  /\ result \in [Call -> Result]
  /\ reason \in [Call -> {"none", "http", "unauthorized", "network", "json", "server"}]
  /\ process \in {"running", "raised"}

Init ==
  /\ account \in Account \cup {None}
  /\ former = {}
  /\ method = [c \in Call |-> None]
  /\ using = [c \in Call |-> None]
  /\ phase = [c \in Call |-> "idle"]
  /\ heard = {}
  /\ done = [c \in Call |-> 0]
  /\ error = [c \in Call |-> "none"]
  /\ body = [c \in Call |-> "none"]
  /\ blocks = [c \in Call |-> 0]
  /\ told = [c \in Call |-> "nothing"]
  /\ result = [c \in Call |-> None]
  /\ reason = [c \in Call |-> "none"]
  /\ process = "running"

-----------------------------------------------------------------------------
(* The end of a call.  MastodonAPI maps the completion to a block.         *)

Succeed(c, made) ==
  /\ blocks' = [blocks EXCEPT ![c] = @ + 1]
  /\ told' = [told EXCEPT ![c] = "success"]
  /\ result' = [result EXCEPT ![c] = made]
  /\ UNCHANGED <<reason, process>>

Fail(c, err) ==
  /\ blocks' = [blocks EXCEPT ![c] = @ + 1]
  /\ told' = [told EXCEPT ![c] = "failure"]
  /\ reason' = [reason EXCEPT ![c] = err]
  /\ UNCHANGED <<result, process>>

Raise ==
  /\ process' = "raised"
  /\ UNCHANGED blockVars

\* The completion is given the JSON object, and not what is made of it.
ParseHandsOverJSON(c) ==
  LET h == Handler[method[c]]
  IN
  \/ body[c] = h.json /\ Succeed(c, <<h.json>>)
  \/ body[c] = "broken" /\ Fail(c, "json")
  \/ body[c] = "dictionary" /\ h.json # "dictionary" /\ Fail(c, "server")
  \/ body[c] \in {"none", "array", "other"} \ {h.json} /\ Raise

\* JSONObjectWithData: raises if there is no data; serverErrorWithResponse:
\* asks what it is given for a key, which only a dictionary has.
Parse(c) ==
  LET h == Handler[method[c]]
  IN
  \/ body[c] = h.json /\ Succeed(c, h.made)
  \/ body[c] = "broken" /\ Fail(c, "json")
  \/ body[c] = "dictionary" /\ h.json # "dictionary" /\ Fail(c, "server")
  \/ body[c] \in {"none", "array", "other"} \ {h.json} /\ Raise

\* The data of a failed answer is parsed all the same.
HandleDataFirst(c) ==
  LET kind == Handler[method[c]].handler
      failed == error[c] # "none"
  IN
  \/ kind \in {"parses", "inverted"} /\ Parse(c)
  \/ kind = "acknowledges" /\ failed /\ Fail(c, error[c])
  \/ ((kind = "acknowledges" /\ ~failed) \/ kind = "ignores") /\ Succeed(c, <<"NSData">>)

Handle(c) ==
  LET kind == Handler[method[c]].handler
      failed == error[c] # "none"
  IN
  \/ kind \in {"parses", "acknowledges"} /\ failed /\ Fail(c, error[c])
  \/ kind = "parses" /\ ~failed /\ Parse(c)
  \/ kind = "acknowledges" /\ ~failed /\ Succeed(c, <<"NSData">>)
  \/ kind = "ignores" /\ Succeed(c, <<"NSData">>)
  \/ kind = "inverted" /\ failed /\ Parse(c)
  \/ kind = "inverted" /\ ~failed /\ Succeed(c, <<"NSData">>)

-----------------------------------------------------------------------------
(* The application's calls.                                                *)

\* Not logged in: the failureBlock is called at once, without an error.
FetchWithoutAccount(c, m) ==
  /\ phase[c] = "idle"
  /\ account = None
  /\ method' = [method EXCEPT ![c] = m]
  /\ phase' = [phase EXCEPT ![c] = "over"]
  /\ Fail(c, "none")
  /\ UNCHANGED <<account, former, using, heard, done, error, body>>

\* performMethod: starts a connection, or hands it over to the client if its
\* token has lapsed.
Fetch(c, m) ==
  /\ phase[c] = "idle"
  /\ account # None
  /\ method' = [method EXCEPT ![c] = m]
  /\ using' = [using EXCEPT ![c] = account]
  /\ \E p \in {"sent", "held"} : phase' = [phase EXCEPT ![c] = p]
  /\ UNCHANGED <<account, former, heard, done, error, body, blockVars, process>>

-----------------------------------------------------------------------------
(* The server and the wire.                                                *)

Ends(c, err, data) ==
  /\ phase[c] = "sent"
  /\ phase' = [phase EXCEPT ![c] = "answered"]
  /\ error' = [error EXCEPT ![c] = err]
  /\ body' = [body EXCEPT ![c] = data]
  /\ UNCHANGED <<account, former, method, using, blockVars, process>>

\* A status below 400.
ServerPerforms(c, data) ==
  /\ Ends(c, "none", data)
  /\ done' = [done EXCEPT ![c] = @ + 1]
  /\ heard' = heard \cup {c}

\* Any other status; it may come after the fact.
ServerFails(c, data) ==
  /\ Ends(c, "http", data)
  /\ \E n \in {0, 1} : done' = [done EXCEPT ![c] = @ + n]
  /\ heard' = heard \cup {c}

\* A 401 that is no challenge.
ServerRefuses(c, data) ==
  /\ Ends(c, "unauthorized", data)
  /\ heard' = heard \cup {c}
  /\ UNCHANGED done

\* A request that had no answer is sent again.
NetworkFailsResends(c, data) ==
  /\ phase[c] = "sent"
  /\ data = "none" => c \notin heard
  /\ \E n \in {0, 1} : done' = [done EXCEPT ![c] = @ + n]
  /\ UNCHANGED <<account, former, method, using, phase, heard, error, body,
                 blockVars, process>>

\* The connection breaks: before the request arrived, before its answer did,
\* or while it did.  The data of an earlier response is empty, not nil.
NetworkFails(c, data) ==
  /\ Ends(c, "network", data)
  /\ data = "none" => c \notin heard
  /\ \E n \in {0, 1} : done' = [done EXCEPT ![c] = @ + n]
  /\ UNCHANGED heard

\* The method's handler is told of the challenge.
ChallengeTells(c) ==
  /\ phase[c] = "sent"
  /\ phase' = [phase EXCEPT ![c] = "held"]
  /\ heard' = heard \cup {c}
  /\ Fail(c, "http")
  /\ UNCHANGED <<account, former, method, using, done, error, body>>

\* The connection is cancelled and waits for a token.
Challenge(c) ==
  /\ phase[c] = "sent"
  /\ phase' = [phase EXCEPT ![c] = "held"]
  /\ heard' = heard \cup {c}
  /\ UNCHANGED <<account, former, method, using, done, error, body, blockVars,
                 process>>

\* A connection that has its answer waits all the same.
RetryAnswered(c) ==
  /\ phase[c] \in {"held", "answered"}
  /\ phase' = [phase EXCEPT ![c] = "sent"]
  /\ UNCHANGED <<account, former, method, using, heard, done, error, body,
                 blockVars, process>>

Retry(c) ==
  /\ phase[c] = "held"
  /\ phase' = [phase EXCEPT ![c] = "sent"]
  /\ UNCHANGED <<account, former, method, using, heard, done, error, body,
                 blockVars, process>>

\* The refresh failed for good: nobody is told.
Drop(c) ==
  /\ phase[c] = "held"
  /\ phase' = [phase EXCEPT ![c] = "lost"]
  /\ UNCHANGED <<account, former, method, using, heard, done, error, body,
                 blockVars, process>>

-----------------------------------------------------------------------------
(* The answer, and what becomes of accounts.                               *)

AccountGoes(a) ==
  IF account = a THEN account' = None /\ former' = former \cup {a}
                 ELSE UNCHANGED <<account, former>>

\* The account the store has now is removed.
AnswerRemovesCurrent(c) ==
  /\ phase[c] = "answered"
  /\ phase' = [phase EXCEPT ![c] = "over"]
  /\ \/ error[c] = "unauthorized" /\ AccountGoes(account)
     \/ error[c] # "unauthorized" /\ UNCHANGED <<account, former>>
  /\ Handle(c)
  /\ UNCHANGED <<method, using, heard, done, error, body>>

\* performMethod:'s handler removes the account of a refused request, the
\* one it was made with, and calls the method's handler.
Answer(c) ==
  /\ phase[c] = "answered"
  /\ phase' = [phase EXCEPT ![c] = "over"]
  /\ \/ error[c] = "unauthorized" /\ AccountGoes(using[c])
     \/ error[c] # "unauthorized" /\ UNCHANGED <<account, former>>
  /\ Handle(c)
  /\ UNCHANGED <<method, using, heard, done, error, body>>

Login(a) ==
  /\ account = None /\ a \notin former
  /\ account' = a
  /\ UNCHANGED <<former, method, requestVars, blockVars, process>>

\* Its token was lost, or its client removed.
LoseAccount ==
  /\ account # None
  /\ AccountGoes(account)
  /\ UNCHANGED <<method, requestVars, blockVars, process>>

CallStep(c) ==
  \/ \E m \in Method : FetchWithoutAccount(c, m) \/ Fetch(c, m)
  \/ \E data \in Body : ServerPerforms(c, data) \/ ServerFails(c, data)
                          \/ ServerRefuses(c, data)
  \/ \E data \in Body \cup {"none"} : NetworkFails(c, data)
  \/ Challenge(c)
  \/ Retry(c)
  \/ Drop(c)
  \/ Answer(c)

Next ==
  /\ process = "running"
  /\ \/ \E c \in Call : CallStep(c)
     \/ \E a \in Account : Login(a)
     \/ LoseAccount

Spec == Init /\ [][Next]_vars
-----------------------------------------------------------------------------
(* Properties.                                                             *)

\* The methods whose handler looks at the error and makes what the
\* successBlock takes.
Faithful(m) ==
  /\ Handler[m].handler \in {"parses", "acknowledges"}
  /\ Block[m] # <<>> =>
       Handler[m].handler = "parses" /\ Handler[m].made = Block[m]

\* A call is answered by exactly one call of one block, when its request is
\* over, however often its connection was cancelled and retried; without one
\* only if its client dropped it or its handler raised (performMethod:,
\* MastodonClientManager.m 2379-2402, and the responseHandler calls of
\* NXOAuth2Connection.m 468 and 499-515).
AnsweredOnce ==
  \A c \in Call :
    /\ blocks[c] <= 1
    /\ blocks[c] = 1 => phase[c] = "over"
    /\ phase[c] = "over" /\ blocks[c] = 0 => process = "raised"

\* The server does what a call asks at most once, although connections are
\* retried: only a request the server refused is sent again
\* (NXOAuth2Connection.m 404-424).
DoneOnce == \A c \in Call : done[c] <= 1

\* A faithful method tells success only if the server did what was asked in
\* this call, and gives the block what it takes.
SuccessIsEarned ==
  \A c \in Call :
    told[c] = "success" /\ Faithful(method[c]) =>
      /\ done[c] = 1
      /\ Block[method[c]] # <<>> => result[c] = Block[method[c]]

\* A failure without an error means that nothing was sent, so it may be
\* repeated after a login (the "else" of every fetch method,
\* MastodonClientManager.m 295-297).
NoErrorNothingDone ==
  \A c \in Call :
    told[c] = "failure" /\ reason[c] = "none" => done[c] = 0 /\ using[c] = None

\* The one answer of a call, as an application takes it: a success that was
\* not given what its block takes is none of the answers of RemoteCall.
CallState(c) ==
  CASE phase[c] = "idle" -> "new"
    [] phase[c] \in {"sent", "held", "answered"} -> "open"
    [] OTHER -> "over"

AnswerOf(c) ==
  CASE told[c] = "nothing" -> "none"
    [] told[c] = "failure" /\ using[c] = None -> "declined"
    [] told[c] # "nothing" /\ using[c] # None /\ ~Faithful(method[c]) -> "unchecked"
    [] told[c] = "failure" /\ using[c] # None /\ Faithful(method[c])
         /\ reason[c] # "none" -> "failure"
    [] told[c] = "success" /\ Faithful(method[c])
         /\ (Block[method[c]] # <<>> => result[c] = Block[method[c]]) -> "success"
    [] OTHER -> "wrong"

StateOf == [c \in Call |-> CallState(c)]
AnswerOfAll == [c \in Call |-> AnswerOf(c)]

Remote == INSTANCE RemoteCall WITH state <- StateOf, answer <- AnswerOfAll

\* Every call is done at most once and answered at most once, in this order,
\* with an answer that a program may act on: refusals, retries, broken
\* connections and accounts that go meanwhile make none of them twice
\* (performMethod:, MastodonClientManager.m 2379-2402).
IsRemoteCall == Remote!Spec

\* The life of a call's connection, as NXOAuth2Client.tla has it too.
ExchangeState(c) ==
  CASE phase[c] = "over" /\ using[c] = None -> "idle"
    [] phase[c] = "over" /\ using[c] # None -> "answered"
    [] phase[c] = "lost" -> "dropped"
    [] OTHER -> phase[c]

ExchangeOf == [c \in Call |-> ExchangeState(c)]

Exchange == INSTANCE Exchanges WITH Connection <- Call, state <- ExchangeOf

\* What this module takes a connection for is what NXOAuth2Client provides.
UsesExchange == Exchange!Spec

\* However late a refusal is, it removes the account the refused request was
\* made with and no other (performMethod:, MastodonClientManager.m 2383-2385).
RefusalCostsItsAccount ==
  [][\A c \in Call :
       phase[c] = "answered" /\ phase'[c] = "over" =>
         /\ account' # account => account = using[c]
         /\ error[c] = "unauthorized" => account' # using[c]]_vars

\* A server that answers a success with the JSON class the method expects, and
\* any failure, never ends the process through a faithful method.
OnlyOddAnswersRaise ==
  process = "raised" =>
    \E c \in Call :
      /\ phase[c] = "over" /\ blocks[c] = 0
      /\ Faithful(method[c]) =>
           error[c] = "none" /\ body[c] # Handler[method[c]].json

\* "successBlock:(void(^)(MastodonAccount * result))" and its likes: whatever a
\* successBlock is given is what MastodonAPI.h declares.  A method that is not
\* Faithful breaks it (MastodonClientManager.m 399 and 1306).
SuccessIsAsDeclared ==
  \A c \in Call :
    told[c] = "success" /\ Block[method[c]] # <<>> => result[c] = Block[method[c]]
=============================================================================
