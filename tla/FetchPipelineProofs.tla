------------------------ MODULE FetchPipelineProofs ------------------------
(***************************************************************************)
(* The properties of FetchPipeline, for every table of methods, any number *)
(* of calls and of accounts.                                               *)
(***************************************************************************)
EXTENDS FetchPipeline, TLAPS

\* What the phase of a call says of the rest of it.
Phases ==
  \A c \in Call :
    /\ phase[c] = "idle" => using[c] = None
    /\ phase[c] # "idle" => method[c] \in Method
    /\ phase[c] \in {"sent", "held", "answered", "lost"} => using[c] \in Account
    /\ phase[c] \in {"idle", "sent", "held", "lost"} => done[c] = 0
    /\ phase[c] = "answered" /\ error[c] = "none" => done[c] = 1
    /\ phase[c] # "over" => blocks[c] = 0 /\ told[c] = "nothing"
    /\ phase[c] = "over" =>
         \/ blocks[c] = 1
         \/ blocks[c] = 0 /\ told[c] = "nothing" /\ process = "raised"

IInv ==
  /\ TypeOK
  /\ Phases
  /\ DoneOnce
  /\ SuccessIsEarned
  /\ NoErrorNothingDone
  /\ OnlyOddAnswersRaise

-----------------------------------------------------------------------------

\* A handler ends a call in one of three ways.
LEMMA HandleEnds ==
  ASSUME TypeOK, NEW c \in Call, method[c] \in Method, Handle(c)
  PROVE  \/ \E made \in Result : Succeed(c, made)
         \/ \E err \in {"http", "unauthorized", "network", "json", "server"} :
              Fail(c, err)
         \/ Raise
  BY PipelineAssumption DEF Handle, Parse, Result, HandlerKind, TypeOK

LEMMA TypeInit == Init => TypeOK
  BY DEF Init, TypeOK, Result

LEMMA TypeStep == TypeOK /\ Phases /\ [Next]_vars => TypeOK'
<1> SUFFICES ASSUME TypeOK, Phases, [Next]_vars PROVE TypeOK'
  OBVIOUS
<1> USE DEF TypeOK, requestVars, blockVars
<1>1. ASSUME NEW c \in Call, NEW m \in Method, FetchWithoutAccount(c, m)
      PROVE  TypeOK'
  BY <1>1 DEF FetchWithoutAccount, Fail
<1>2. ASSUME NEW c \in Call, NEW m \in Method, Fetch(c, m) PROVE TypeOK'
  BY <1>2 DEF Fetch
<1>3. ASSUME NEW c \in Call, NEW data \in Body, ServerPerforms(c, data)
      PROVE  TypeOK'
  BY <1>3 DEF ServerPerforms, Ends
<1>4. ASSUME NEW c \in Call, NEW data \in Body, ServerFails(c, data)
      PROVE  TypeOK'
  BY <1>4 DEF ServerFails, Ends
<1>5. ASSUME NEW c \in Call, NEW data \in Body, ServerRefuses(c, data)
      PROVE  TypeOK'
  BY <1>5 DEF ServerRefuses, Ends
<1>6. ASSUME NEW c \in Call, NEW data \in Body \cup {"none"},
             NetworkFails(c, data)
      PROVE  TypeOK'
  BY <1>6 DEF NetworkFails, Ends
<1>7. ASSUME NEW c \in Call, Challenge(c) \/ Retry(c) \/ Drop(c) PROVE TypeOK'
  BY <1>7 DEF Challenge, Retry, Drop
<1>8. ASSUME NEW c \in Call, Answer(c) PROVE TypeOK'
  <2>1. method[c] \in Method /\ using[c] \in Account
    BY <1>8 DEF Answer, Phases
  <2>2. account' \in Account \cup {None} /\ former' \subseteq Account
    BY <1>8, <2>1 DEF Answer, AccountGoes
  <2>3. /\ blocks' \in [Call -> Nat] /\ result' \in [Call -> Result]
        /\ told' \in [Call -> {"nothing", "success", "failure"}]
        /\ reason' \in [Call -> {"none", "http", "unauthorized", "network",
                                 "json", "server"}]
        /\ process' \in {"running", "raised"}
    BY <1>8, <2>1, HandleEnds DEF Answer, Succeed, Fail, Raise
  <2>4. QED
    BY <1>8, <2>2, <2>3 DEF Answer
<1>9. ASSUME NEW a \in Account, Login(a) PROVE TypeOK'
  BY <1>9 DEF Login
<1>10. CASE LoseAccount
  BY <1>10 DEF LoseAccount, AccountGoes
<1>11. CASE UNCHANGED vars
  BY <1>11 DEF vars
<1>12. QED
  BY <1>1, <1>2, <1>3, <1>4, <1>5, <1>6, <1>7, <1>8, <1>9, <1>10, <1>11
  DEF Next, CallStep

-----------------------------------------------------------------------------
(* The invariant is inductive.                                             *)

LEMMA InvInit == Init => IInv
  BY TypeInit DEF Init, IInv, TypeOK, Phases, DoneOnce, SuccessIsEarned,
                  NoErrorNothingDone, OnlyOddAnswersRaise

LEMMA PhasesStep == IInv /\ [Next]_vars => Phases'
<1> SUFFICES ASSUME IInv, [Next]_vars PROVE Phases'
  OBVIOUS
<1> USE DEF IInv, TypeOK, Phases, OnlyOddAnswersRaise, requestVars, blockVars
<1>1. ASSUME NEW c \in Call, NEW m \in Method, process = "running",
             FetchWithoutAccount(c, m)
      PROVE  Phases'
  BY <1>1 DEF FetchWithoutAccount, Fail
<1>2. ASSUME NEW c \in Call, NEW m \in Method, process = "running", Fetch(c, m)
      PROVE  Phases'
  BY <1>2 DEF Fetch
<1>3. ASSUME NEW c \in Call, NEW data \in Body, ServerPerforms(c, data)
      PROVE  Phases'
  BY <1>3 DEF ServerPerforms, Ends
<1>4. ASSUME NEW c \in Call, NEW data \in Body, ServerFails(c, data)
      PROVE  Phases'
  BY <1>4 DEF ServerFails, Ends
<1>5. ASSUME NEW c \in Call, NEW data \in Body, ServerRefuses(c, data)
      PROVE  Phases'
  BY <1>5 DEF ServerRefuses, Ends
<1>6. ASSUME NEW c \in Call, NEW data \in Body \cup {"none"},
             NetworkFails(c, data)
      PROVE  Phases'
  BY <1>6 DEF NetworkFails, Ends
<1>7. ASSUME NEW c \in Call, Challenge(c) \/ Retry(c) \/ Drop(c) PROVE Phases'
  BY <1>7 DEF Challenge, Retry, Drop
<1>8. ASSUME NEW c \in Call, process = "running", Answer(c) PROVE Phases'
  <2>1. method[c] \in Method
    BY <1>8 DEF Answer
  <2>2. CASE \E made \in Result : Succeed(c, made)
    BY <1>8, <2>2 DEF Answer, Succeed
  <2>3. CASE \E err \in {"http", "unauthorized", "network", "json", "server"} :
               Fail(c, err)
    BY <1>8, <2>3 DEF Answer, Fail
  <2>4. CASE Raise
    BY <1>8, <2>4 DEF Answer, Raise
  <2>5. QED
    BY <1>8, <2>1, <2>2, <2>3, <2>4, HandleEnds DEF Answer
<1>9. ASSUME NEW a \in Account, Login(a) PROVE Phases'
  BY <1>9 DEF Login
<1>10. CASE LoseAccount
  BY <1>10 DEF LoseAccount
<1>11. CASE UNCHANGED vars
  BY <1>11 DEF vars
<1>12. QED
  BY <1>1, <1>2, <1>3, <1>4, <1>5, <1>6, <1>7, <1>8, <1>9, <1>10, <1>11
  DEF Next, CallStep

\* Only a connection that ends has its request done.
LEMMA DoneStep == IInv /\ [Next]_vars => DoneOnce'
<1> SUFFICES ASSUME IInv, [Next]_vars PROVE DoneOnce'
  OBVIOUS
<1> USE DEF IInv, TypeOK, Phases, DoneOnce, requestVars
<1>1. ASSUME NEW c \in Call, NEW data \in Body \cup {"none"},
             ServerPerforms(c, data) \/ ServerFails(c, data)
               \/ ServerRefuses(c, data) \/ NetworkFails(c, data)
      PROVE  DoneOnce'
  BY <1>1 DEF ServerPerforms, ServerFails, ServerRefuses, NetworkFails, Ends
<1>2. CASE UNCHANGED done
  BY <1>2
<1>3. QED
  BY <1>1, <1>2
  DEF Next, CallStep, FetchWithoutAccount, Fetch, Challenge, Retry, Drop, Answer,
      Login, LoseAccount, vars

\* A step that calls no block and raises nothing, and leaves the calls that are
\* over alone, keeps what was told.
Told == SuccessIsEarned /\ NoErrorNothingDone /\ OnlyOddAnswersRaise

LEMMA ToldIsKept ==
  ASSUME IInv, process = "running", UNCHANGED <<blockVars, process>>,
         \A c \in Call : told[c] # "nothing" =>
           method'[c] = method[c] /\ done'[c] = done[c] /\ using'[c] = using[c]
  PROVE  Told'
<1>1. SuccessIsEarned'
  <2> SUFFICES ASSUME NEW c \in Call, told[c] = "success", Faithful(method'[c])
               PROVE  /\ done'[c] = 1
                      /\ Block[method'[c]] # <<>> => result[c] = Block[method'[c]]
    BY DEF SuccessIsEarned, blockVars, Faithful
  <2>1. method'[c] = method[c] /\ done'[c] = done[c]
    OBVIOUS
  <2>2. Faithful(method[c])
    BY <2>1
  <2>3. QED
    BY <2>1, <2>2 DEF IInv, SuccessIsEarned
<1>2. NoErrorNothingDone'
  BY DEF IInv, NoErrorNothingDone, blockVars
<1>3. OnlyOddAnswersRaise'
  BY DEF OnlyOddAnswersRaise
<1>4. QED
  BY <1>1, <1>2, <1>3 DEF Told

LEMMA ToldStep == IInv /\ [Next]_vars => Told'
<1> SUFFICES ASSUME IInv, [Next]_vars PROVE Told'
  OBVIOUS
<1> USE DEF requestVars
<1>1. ASSUME NEW c \in Call, NEW m \in Method, process = "running",
             FetchWithoutAccount(c, m)
      PROVE  Told'
  BY <1>1
  DEF FetchWithoutAccount, Fail, IInv, TypeOK, Phases, Told, SuccessIsEarned,
      NoErrorNothingDone, OnlyOddAnswersRaise, Faithful
<1>2. ASSUME NEW c \in Call, NEW m \in Method, process = "running", Fetch(c, m)
      PROVE  Told'
  <2>1. told[c] = "nothing"
    BY <1>2 DEF Fetch, IInv, Phases
  <2>2. QED
    BY <1>2, <2>1, ToldIsKept DEF Fetch, IInv, TypeOK
<1>3. ASSUME NEW c \in Call, NEW data \in Body \cup {"none"},
             process = "running",
             ServerPerforms(c, data) \/ ServerFails(c, data)
               \/ ServerRefuses(c, data) \/ NetworkFails(c, data)
      PROVE  Told'
  <2>1. told[c] = "nothing"
    BY <1>3 DEF ServerPerforms, ServerFails, ServerRefuses, NetworkFails, Ends,
                IInv, Phases
  <2>2. QED
    BY <1>3, <2>1, ToldIsKept
    DEF ServerPerforms, ServerFails, ServerRefuses, NetworkFails, Ends, IInv, TypeOK
<1>4. ASSUME NEW c \in Call, process = "running", Answer(c) PROVE Told'
  <2>1. /\ method[c] \in Method /\ told[c] = "nothing"
        /\ error[c] = "none" => done[c] = 1
    BY <1>4 DEF Answer, IInv, Phases
  <2>2. SuccessIsEarned'
    BY <1>4, <2>1, PipelineAssumption
    DEF Answer, Handle, Parse, Succeed, Fail, Raise, blockVars, IInv, TypeOK,
        SuccessIsEarned, Faithful
  <2>3. NoErrorNothingDone'
    <3>1. CASE \E made \in Result : Succeed(c, made)
      BY <1>4, <3>1 DEF Answer, Succeed, IInv, TypeOK, NoErrorNothingDone
    <3>2. CASE \E err \in {"http", "unauthorized", "network", "json", "server"} :
                 Fail(c, err)
      BY <1>4, <3>2 DEF Answer, Fail, IInv, TypeOK, NoErrorNothingDone
    <3>3. CASE Raise
      BY <1>4, <3>3 DEF Answer, Raise, blockVars, IInv, NoErrorNothingDone
    <3>4. QED
      BY <1>4, <2>1, <3>1, <3>2, <3>3, HandleEnds DEF Answer, IInv
  <2>4. OnlyOddAnswersRaise'
    <3>1. CASE Raise
      <4>1. Faithful(method[c]) => error[c] = "none" /\ body[c] # Handler[method[c]].json
        BY <1>4, <2>1, <3>1
        DEF Answer, Handle, Parse, Succeed, Fail, Raise, Faithful, blockVars, IInv,
            TypeOK
      <4>2. blocks[c] = 0
        BY <1>4 DEF Answer, IInv, Phases
      <4>3. QED
        BY <1>4, <3>1, <4>1, <4>2
        DEF Answer, Raise, blockVars, IInv, TypeOK, OnlyOddAnswersRaise, Faithful
    <3>2. CASE process' = "running"
      BY <3>2 DEF OnlyOddAnswersRaise
    <3>3. QED
      BY <1>4, <2>1, <3>1, <3>2, HandleEnds DEF Answer, Succeed, Fail, IInv
  <2>5. QED
    BY <2>2, <2>3, <2>4 DEF Told
<1>5. ASSUME process = "running",
             UNCHANGED <<blockVars, process, method, done, using>>
      PROVE  Told'
  BY <1>5, ToldIsKept
<1>6. CASE UNCHANGED vars
  BY <1>6
  DEF vars, blockVars, IInv, Told, SuccessIsEarned, NoErrorNothingDone,
      OnlyOddAnswersRaise, Faithful
<1>7. QED
  BY <1>1, <1>2, <1>3, <1>4, <1>5, <1>6
  DEF Next, CallStep, Challenge, Retry, Drop, Login, LoseAccount

LEMMA InvStep == IInv /\ [Next]_vars => IInv'
  BY TypeStep, PhasesStep, DoneStep, ToldStep DEF IInv, Told

-----------------------------------------------------------------------------

\* The invariant of every reachable state: each variable has its type, a call
\* is answered once, done once, told success only if it was done, told a
\* failure without an error only if nothing was sent, and only an answer of the
\* wrong JSON class ends the process through a faithful method.
THEOREM PipelineSafety ==
  Spec => [](/\ TypeOK /\ AnsweredOnce /\ DoneOnce /\ SuccessIsEarned
             /\ NoErrorNothingDone /\ OnlyOddAnswersRaise)
<1>1. IInv => /\ TypeOK /\ AnsweredOnce /\ DoneOnce /\ SuccessIsEarned
              /\ NoErrorNothingDone /\ OnlyOddAnswersRaise
  BY DEF IInv, Phases, AnsweredOnce
<1>2. QED
  BY InvInit, InvStep, <1>1, PTL DEF Spec

\* However late a refusal arrives, it removes the account of its request and no
\* other (performMethod:, MastodonClientManager.m 2383-2385).
THEOREM RefusalRemovesItsAccount == Spec => RefusalCostsItsAccount
<1> DEFINE Costs ==
      \A c \in Call :
        phase[c] = "answered" /\ phase'[c] = "over" =>
          /\ account' # account => account = using[c]
          /\ error[c] = "unauthorized" => account' # using[c]
<1>1. ASSUME IInv, Next PROVE Costs
  <2> SUFFICES ASSUME NEW c \in Call, phase[c] = "answered", phase'[c] = "over"
               PROVE  /\ account' # account => account = using[c]
                      /\ error[c] = "unauthorized" => account' # using[c]
    OBVIOUS
  <2>1. using[c] \in Account /\ using[c] # None
    BY <1>1, PipelineAssumption DEF IInv, Phases
  <2>2. Answer(c)
    BY <1>1
    DEF Next, CallStep, FetchWithoutAccount, Fetch, ServerPerforms, ServerFails,
        ServerRefuses, NetworkFails, Ends, Challenge, Retry, Drop, Answer, Login,
        LoseAccount, requestVars, IInv, TypeOK
  <2>3. QED
    BY <2>1, <2>2 DEF Answer, AccountGoes
<1>2. IInv /\ [Next]_vars => [Costs]_vars
  BY <1>1
<1>3. QED
  BY InvInit, InvStep, <1>2, PTL DEF Spec, RefusalCostsItsAccount

\* Among methods that look at the error and make what the successBlock takes,
\* the declarations of MastodonAPI.h are right: that MethodsAreFaithful has
\* exceptions is a matter of the table of methods, not of the pipeline.
THEOREM DeclaredIfFaithful ==
  ASSUME \A m \in Method : Block[m] # <<>> => Faithful(m)
  PROVE  Spec => []SuccessIsAsDeclared
<1>1. IInv => SuccessIsAsDeclared
  BY DEF IInv, Phases, SuccessIsEarned, SuccessIsAsDeclared
<1>2. QED
  BY InvInit, InvStep, <1>1, PTL DEF Spec

-----------------------------------------------------------------------------
(* The connection of a call.                                               *)

LEMMA ExchangeBecomes ==
  ASSUME NEW calls, NEW s,
         \A c \in Call : ExchangeState(c)' = IF c \in calls THEN s ELSE ExchangeState(c)
  PROVE  Exchange!Becomes(calls, s)
  BY DEF Exchange!Becomes, ExchangeOf

\* A connection is started, held, released and answered as its phase says.
LEMMA ConnectionStep ==
  ASSUME IInv, NEW c \in Call, NEW from, NEW to,
         phase[c] = from, phase' = [phase EXCEPT ![c] = to],
         from # "over" /\ to # "over",
         \A d \in Call : d # c => using'[d] = using[d]
  PROVE  /\ to # "lost" => Exchange!Becomes({c}, to)
         /\ to = "lost" => Exchange!Becomes({c}, "dropped")
<1> USE DEF IInv, TypeOK, ExchangeState
<1>1. \A d \in Call : d # c => ExchangeState(d)' = ExchangeState(d)
  OBVIOUS
<1>2. to # "lost" => ExchangeState(c)' = to
  OBVIOUS
<1>3. to = "lost" => ExchangeState(c)' = "dropped"
  OBVIOUS
<1>4. to # "lost" => Exchange!Becomes({c}, to)
  BY <1>1, <1>2, ExchangeBecomes
<1>5. to = "lost" => Exchange!Becomes({c}, "dropped")
  BY <1>1, <1>3, ExchangeBecomes
<1>6. QED
  BY <1>4, <1>5

LEMMA ExchangeStep == IInv /\ [Next]_vars => [Exchange!Next]_ExchangeOf
<1> SUFFICES ASSUME IInv, [Next]_vars PROVE Exchange!Next \/ UNCHANGED ExchangeOf
  OBVIOUS
<1> USE DEF requestVars
<1>0. ASSUME \A c \in Call : ExchangeState(c)' = ExchangeState(c)
      PROVE  UNCHANGED ExchangeOf
  BY <1>0 DEF ExchangeOf
<1>1. ASSUME NEW c \in Call, NEW m \in Method, FetchWithoutAccount(c, m)
      PROVE  UNCHANGED ExchangeOf
  BY <1>0, <1>1 DEF FetchWithoutAccount, ExchangeState, IInv, TypeOK, Phases
<1>2. ASSUME NEW c \in Call, NEW m \in Method, Fetch(c, m) PROVE Exchange!Start(c)
  <2>1. PICK p \in {"sent", "held"} : phase' = [phase EXCEPT ![c] = p]
    BY <1>2 DEF Fetch
  <2>2. phase[c] = "idle" /\ \A d \in Call : d # c => using'[d] = using[d]
    BY <1>2 DEF Fetch, IInv, TypeOK
  <2>3. ExchangeOf[c] = "idle"
    BY <2>2 DEF ExchangeOf, ExchangeState
  <2>4. Exchange!Becomes({c}, p)
    BY <2>1, <2>2, ConnectionStep
  <2>5. QED
    BY <2>1, <2>3, <2>4 DEF Exchange!Start
<1>3. ASSUME NEW c \in Call, NEW err, NEW data, Ends(c, err, data)
      PROVE  Exchange!Answer(c)
  <2>1. phase[c] = "sent" /\ phase' = [phase EXCEPT ![c] = "answered"] /\ using' = using
    BY <1>3 DEF Ends
  <2>2. ExchangeOf[c] = "sent"
    BY <2>1 DEF ExchangeOf, ExchangeState
  <2>3. Exchange!Becomes({c}, "answered")
    BY <2>1, ConnectionStep
  <2>4. QED
    BY <2>2, <2>3 DEF Exchange!Answer
<1>4. ASSUME NEW c \in Call, Challenge(c) PROVE Exchange!Hold(c)
  <2>1. phase[c] = "sent" /\ phase' = [phase EXCEPT ![c] = "held"] /\ using' = using
    BY <1>4 DEF Challenge
  <2>2. ExchangeOf[c] = "sent"
    BY <2>1 DEF ExchangeOf, ExchangeState
  <2>3. Exchange!Becomes({c}, "held")
    BY <2>1, ConnectionStep
  <2>4. QED
    BY <2>2, <2>3 DEF Exchange!Hold
<1>5. ASSUME NEW c \in Call, Retry(c) \/ Drop(c)
      PROVE  {c} \in SUBSET Call /\ Exchange!Release({c})
  <2>1. phase[c] = "held"
    BY <1>5 DEF Retry, Drop
  <2>2. ExchangeOf[c] = "held"
    BY <2>1 DEF ExchangeOf, ExchangeState
  <2>3. Retry(c) => Exchange!Becomes({c}, "sent")
    BY ConnectionStep DEF Retry
  <2>4. Drop(c) => Exchange!Becomes({c}, "dropped")
    BY ConnectionStep DEF Drop
  <2>5. QED
    BY <1>5, <2>2, <2>3, <2>4 DEF Exchange!Release
<1>6. ASSUME NEW c \in Call, Answer(c) PROVE UNCHANGED ExchangeOf
  BY <1>0, <1>6, PipelineAssumption DEF Answer, ExchangeState, IInv, TypeOK, Phases
<1>7. ASSUME UNCHANGED <<phase, using>> PROVE UNCHANGED ExchangeOf
  BY <1>0, <1>7 DEF ExchangeState
<1>8. QED
  BY <1>1, <1>2, <1>3, <1>4, <1>5, <1>6, <1>7
  DEF Next, CallStep, ServerPerforms, ServerFails, ServerRefuses, NetworkFails, Login,
      LoseAccount, vars, Exchange!Next

\* The connection of a call lives as the client's own model says it does: what
\* is assumed here of NXOAuth2Client is what ImplementsExchange proves of it.
THEOREM ConnectionsAreExchanges == Spec => UsesExchange
<1>1. Init => Exchange!Init
  BY DEF Init, Exchange!Init, ExchangeOf, ExchangeState
<1>2. QED
  BY <1>1, InvInit, InvStep, ExchangeStep, PTL DEF Spec, UsesExchange, Exchange!Spec

-----------------------------------------------------------------------------
(* The call as an application takes it.                                    *)

\* What was answered does not change.
LEMMA AnswerIsKept ==
  ASSUME NEW c \in Call, told'[c] = told[c],
         told[c] # "nothing" =>
           /\ method'[c] = method[c] /\ using'[c] = using[c]
           /\ reason'[c] = reason[c] /\ result'[c] = result[c]
  PROVE  AnswerOf(c)' = AnswerOf(c)
<1>1. CASE told[c] = "nothing"
  BY <1>1 DEF AnswerOf
<1>2. CASE told[c] # "nothing"
  BY <1>2 DEF AnswerOf, Faithful
<1>3. QED
  BY <1>1, <1>2

\* The step of call c, as a call that goes from s to t with the answer how.
RemoteStep(c, s, t, how) ==
  /\ StateOf[c] = s
  /\ StateOf' = [StateOf EXCEPT ![c] = t]
  /\ AnswerOfAll' = [AnswerOfAll EXCEPT ![c] = how]

LEMMA RemoteStepOf ==
  ASSUME IInv, NEW c \in Call, NEW s, NEW t, NEW how,
         \A d \in Call : d # c =>
           /\ phase'[d] = phase[d] /\ told'[d] = told[d]
           /\ told[d] # "nothing" =>
                /\ method'[d] = method[d] /\ using'[d] = using[d]
                /\ reason'[d] = reason[d] /\ result'[d] = result[d],
         CallState(c) = s, CallState(c)' = t, AnswerOf(c)' = how
  PROVE  RemoteStep(c, s, t, how)
<1>1. \A d \in Call : d # c => CallState(d)' = CallState(d) /\ AnswerOf(d)' = AnswerOf(d)
  BY AnswerIsKept DEF CallState
<1>2. QED
  BY <1>1 DEF RemoteStep, StateOf, AnswerOfAll

\* A step after which every call is where it was, and was told what it was.
LEMMA RemoteUnchanged ==
  ASSUME \A d \in Call :
           /\ CallState(d)' = CallState(d) /\ told'[d] = told[d]
           /\ told[d] # "nothing" =>
                /\ method'[d] = method[d] /\ using'[d] = using[d]
                /\ reason'[d] = reason[d] /\ result'[d] = result[d]
  PROVE  UNCHANGED <<StateOf, AnswerOfAll>>
<1>1. \A d \in Call : AnswerOf(d)' = AnswerOf(d)
  BY AnswerIsKept
<1>2. QED
  BY <1>1 DEF StateOf, AnswerOfAll

\* The block that is called tells what RemoteCall's answers mean.
LEMMA AnswerIsRemote ==
  ASSUME IInv, IInv', process = "running", NEW c \in Call, Answer(c)
  PROVE  Remote!Answer(c) \/ Remote!GiveUp(c)
<1> USE DEF IInv, TypeOK, Phases, Answer
<1>0. /\ told[c] = "nothing" /\ AnswerOfAll[c] = "none" /\ done' = done
      /\ using'[c] = using[c] /\ using[c] # None /\ method'[c] = method[c]
      /\ method[c] \in Method
  BY PipelineAssumption DEF AnswerOfAll, AnswerOf
<1>1. ASSUME NEW how, AnswerOf(c)' = how PROVE RemoteStep(c, "open", "over", how)
  <2>1. CallState(c) = "open" /\ CallState(c)' = "over"
    BY DEF CallState
  <2>2. \/ \E made \in Result : Succeed(c, made)
        \/ \E err \in {"http", "unauthorized", "network", "json", "server"} :
             Fail(c, err)
        \/ Raise
    BY <1>0, HandleEnds
  <2>3. \A d \in Call : d # c =>
          /\ phase'[d] = phase[d] /\ told'[d] = told[d]
          /\ reason'[d] = reason[d] /\ result'[d] = result[d]
    BY <2>2 DEF Succeed, Fail, Raise, blockVars
  <2>4. QED
    BY <1>1, <2>1, <2>3, RemoteStepOf
<1>2. CASE told'[c] = "nothing"
  <2>1. AnswerOf(c)' = "none"
    BY <1>2 DEF AnswerOf
  <2>2. RemoteStep(c, "open", "over", "none")
    BY <1>1, <2>1
  <2>3. QED
    BY <1>0, <2>2 DEF RemoteStep, Remote!GiveUp, Remote!Ends
<1>3. CASE told'[c] # "nothing" /\ ~Faithful(method[c])
  <2>1. AnswerOf(c)' = "unchecked"
    BY <1>0, <1>3 DEF AnswerOf, Faithful
  <2>2. RemoteStep(c, "open", "over", "unchecked")
    BY <1>1, <2>1
  <2>3. QED
    BY <1>0, <2>2 DEF RemoteStep, Remote!Answer, Remote!Ends
<1>4. CASE told'[c] = "failure" /\ Faithful(method[c])
  <2>1. reason'[c] # "none"
    BY <1>0, <1>4 DEF NoErrorNothingDone
  <2>2. AnswerOf(c)' = "failure"
    BY <1>0, <1>4, <2>1 DEF AnswerOf, Faithful
  <2>3. RemoteStep(c, "open", "over", "failure")
    BY <1>1, <2>2
  <2>4. QED
    BY <1>0, <2>3 DEF RemoteStep, Remote!Answer, Remote!Ends
<1>5. CASE told'[c] = "success" /\ Faithful(method[c])
  <2>1. /\ done[c] = 1
        /\ Block[method[c]] # <<>> => result'[c] = Block[method[c]]
    BY <1>0, <1>5 DEF SuccessIsEarned, Faithful
  <2>2. AnswerOf(c)' = "success"
    BY <1>0, <1>5, <2>1 DEF AnswerOf, Faithful
  <2>3. RemoteStep(c, "open", "over", "success")
    BY <1>1, <2>2
  <2>4. QED
    BY <1>0, <2>1, <2>3 DEF RemoteStep, Remote!Answer, Remote!Ends
<1>6. QED
  BY <1>2, <1>3, <1>4, <1>5

RemoteVars == <<StateOf, done, AnswerOfAll>>

LEMMA RemoteNext ==
  ASSUME IInv, IInv', [Next]_vars
  PROVE  Remote!Next \/ UNCHANGED RemoteVars
<1> USE DEF IInv, TypeOK, Phases, requestVars
<1>1. ASSUME NEW c \in Call, NEW m \in Method, FetchWithoutAccount(c, m)
      PROVE  Remote!Decline(c)
  <2>1. CallState(c) = "new" /\ CallState(c)' = "over" /\ AnswerOf(c)' = "declined"
    BY <1>1 DEF FetchWithoutAccount, Fail, CallState, AnswerOf
  <2>2. RemoteStep(c, "new", "over", "declined")
    BY <1>1, <2>1, RemoteStepOf DEF FetchWithoutAccount, Fail
  <2>3. QED
    BY <1>1, <2>2 DEF FetchWithoutAccount, RemoteStep, Remote!Decline, Remote!Ends
<1>2. ASSUME NEW c \in Call, NEW m \in Method, Fetch(c, m) PROVE Remote!Ask(c)
  <2>1. CallState(c) = "new" /\ CallState(c)' = "open" /\ AnswerOf(c)' = "none"
    BY <1>2 DEF Fetch, blockVars, CallState, AnswerOf
  <2>2. RemoteStep(c, "new", "open", "none")
    BY <1>2, <2>1, RemoteStepOf DEF Fetch, blockVars
  <2>3. \A d \in Call : AnswerOf(d)' = AnswerOf(d)
    BY <1>2, AnswerIsKept DEF Fetch, blockVars
  <2>4. AnswerOfAll' = AnswerOfAll /\ done' = done
    BY <1>2, <2>3 DEF Fetch, AnswerOfAll
  <2>5. QED
    BY <2>2, <2>4 DEF RemoteStep, Remote!Ask
<1>3. ASSUME NEW c \in Call, NEW err, NEW data, Ends(c, err, data),
             NEW n \in {0, 1}, done' = [done EXCEPT ![c] = @ + n]
      PROVE  Remote!Perform(c) \/ UNCHANGED RemoteVars
  <2>1. UNCHANGED <<StateOf, AnswerOfAll>>
    BY <1>3, RemoteUnchanged DEF Ends, blockVars, CallState
  <2>2. StateOf[c] = "open" /\ done[c] = 0
    BY <1>3 DEF Ends, StateOf, CallState
  <2>3. CASE n = 0
    <3>1. done' = done
      BY <1>3, <2>3
    <3>2. QED
      BY <2>1, <3>1 DEF RemoteVars
  <2>4. CASE n = 1
    <3>1. done' = [done EXCEPT ![c] = 1]
      BY <1>3, <2>2, <2>4
    <3>2. QED
      BY <2>1, <2>2, <3>1 DEF Remote!Perform
  <2>5. QED
    BY <2>3, <2>4
<1>4. ASSUME NEW c \in Call, Challenge(c) \/ Retry(c) PROVE UNCHANGED RemoteVars
  BY <1>4, RemoteUnchanged DEF Challenge, Retry, blockVars, CallState, RemoteVars
<1>5. ASSUME NEW c \in Call, Drop(c) PROVE Remote!GiveUp(c)
  <2>1. CallState(c) = "open" /\ CallState(c)' = "over" /\ AnswerOf(c)' = "none"
    BY <1>5 DEF Drop, blockVars, CallState, AnswerOf
  <2>2. RemoteStep(c, "open", "over", "none")
    BY <1>5, <2>1, RemoteStepOf DEF Drop, blockVars
  <2>3. QED
    BY <1>5, <2>2 DEF Drop, RemoteStep, Remote!GiveUp, Remote!Ends
<1>6. ASSUME process = "running", NEW c \in Call, Answer(c)
      PROVE  Remote!Answer(c) \/ Remote!GiveUp(c)
  BY <1>6, AnswerIsRemote
<1>7. ASSUME UNCHANGED <<method, using, phase, done, told, result, reason>>
      PROVE  UNCHANGED RemoteVars
  BY <1>7, RemoteUnchanged DEF CallState, RemoteVars
<1>8. ASSUME NEW c \in Call, NEW err, NEW data, Ends(c, err, data), done' = done
      PROVE  UNCHANGED RemoteVars
  BY <1>8, RemoteUnchanged DEF Ends, blockVars, CallState, RemoteVars
<1>9. ASSUME NEW c \in Call, NEW data \in Body \cup {"none"},
             ServerPerforms(c, data) \/ ServerFails(c, data)
               \/ ServerRefuses(c, data) \/ NetworkFails(c, data)
      PROVE  Remote!Next \/ UNCHANGED RemoteVars
  BY <1>3, <1>8, <1>9
  DEF ServerPerforms, ServerFails, ServerRefuses, NetworkFails, Remote!Next
<1>10. QED
  BY <1>1, <1>2, <1>4, <1>5, <1>6, <1>7, <1>9
  DEF Next, CallStep, Login, LoseAccount, vars, blockVars, Remote!Next

\* For every table of methods a call is what an application takes it for: done
\* at most once, answered at most once, with success only after it was done and
\* without an error only if nothing was sent, however often its connection was
\* refused, held, retried or broken (performMethod:, MastodonClientManager.m
\* 2379-2402).
THEOREM ImplementsRemoteCall == Spec => IsRemoteCall
<1>1. Init => Remote!Init
  BY DEF Init, Remote!Init, StateOf, CallState, AnswerOfAll, AnswerOf
<1>2. IInv /\ IInv' /\ [Next]_vars => [Remote!Next]_(Remote!vars)
  BY RemoteNext DEF RemoteVars, Remote!vars
<1>3. QED
  BY <1>1, InvInit, InvStep, <1>2, PTL DEF Spec, IsRemoteCall, Remote!Spec
=============================================================================
