------------------------- MODULE ClientsStoreProofs -------------------------
(* Proofs about ClientsStore, for any applications, threads and names.     *)
EXTENDS ClientsStore, TLAPS

-----------------------------------------------------------------------------
(* Types.                                                                  *)

LEMMA NilFacts ==
  /\ Nil \notin Client /\ Nil \notin Lists /\ Nil \notin Dictionaries
  /\ {} \in Lists /\ NoLists \in Dictionaries /\ Group \notin App
BY StoreAssumption DEF Lists, Dictionaries, NoLists

\* Every method hands on a list, whatever it was given.
LEMMA ChangedIsAList ==
  ASSUME TypeOK, NEW t \in Thread, NEW l \in Lists
  PROVE  Changed(t, l) \in Lists
BY DEF Changed, Lists, TypeOK, Ops

LEMMA PlaceFacts ==
  ASSUME TypeOK, NEW t \in Thread
  PROVE  Where(t) \in Defaults /\ Key(t) \in Name /\ appOf[t] \in App
BY DEF TypeOK, Where, Key, Defaults

LEMMA AnswersType ==
  ASSUME TypeOK, NEW t \in Thread, NEW l \in Lists, Answers(t, l),
         stage[t] \in {"read", "write"}
  PROVE  /\ list' \in [Thread -> {Nil} \cup Lists]
         /\ seen' \in [Thread -> {Nil} \cup Dictionaries]
         /\ stage' \in [Thread -> {"idle", "read", "empty", "write"}]
         /\ op' \in [Thread -> Ops]
         /\ client' \in [Thread -> {Nil} \cup Client]
         /\ \A u \in Thread :
              /\ seen'[u] # Nil <=> stage'[u] \in {"empty", "write"}
              /\ op'[u] = "none" <=> stage'[u] = "idle"
              /\ client'[u] = Nil <=> op'[u] \in {"none", "launch", "list"}
<1>1. Changed(t, l) \in Lists
  BY ChangedIsAList
<1>2. CASE Writes(t, l)
  BY <1>1, <1>2 DEF Answers, Rest, TypeOK
<1>3. CASE ~Writes(t, l)
  BY <1>1, <1>3 DEF Answers, Rest, TypeOK, Ops
<1>4. QED
  BY <1>2, <1>3

LEMMA CallsType ==
  ASSUME TypeOK, NEW t \in Thread, NEW o \in Ops \ {"none"},
         NEW c \in {Nil} \cup Client, Calls(t, o, c),
         c = Nil <=> o \in {"launch", "list"}
  PROVE  /\ UNCHANGED <<bundleVars, storeVars, seen>>
         /\ list' \in [Thread -> {Nil} \cup Lists]
         /\ stage' \in [Thread -> {"idle", "read", "empty", "write"}]
         /\ op' \in [Thread -> Ops]
         /\ client' \in [Thread -> {Nil} \cup Client]
         /\ \A u \in Thread :
              /\ seen'[u] # Nil <=> stage'[u] \in {"empty", "write"}
              /\ op'[u] = "none" <=> stage'[u] = "idle"
              /\ client'[u] = Nil <=> op'[u] \in {"none", "launch", "list"}
BY DEF Calls, TypeOK, Ops

LEMMA TypeInit == Init => TypeOK
BY NilFacts DEF Init, TypeOK, Defaults, Ops

LEMMA TypeStep == TypeOK /\ [Next]_vars => TypeOK'
<1> SUFFICES ASSUME TypeOK, [Next]_vars PROVE TypeOK'
  OBVIOUS
<1> USE NilFacts
<1>1. ASSUME NEW t \in Thread, Launch(t) PROVE TypeOK'
  <2>1. appOf[t] \in App
    BY PlaceFacts
  <2>2. Calls(t, "launch", Nil)
    BY <1>1 DEF Launch
  <2>3. QED
    BY <1>1, <2>1, <2>2, CallsType DEF Launch, TypeOK, Ops, bundleVars, storeVars,
                                       historyVars
<1>2. ASSUME NEW t \in Thread, ListAllClients(t) PROVE TypeOK'
  BY <1>2, CallsType DEF ListAllClients, TypeOK, Ops, bundleVars, storeVars, historyVars
<1>3. ASSUME NEW t \in Thread, LastUsedClient(t) PROVE TypeOK'
  <2>1. Standard(t) \in Defaults
    BY PlaceFacts DEF Standard, Defaults
  <2>2. lastUsed[Standard(t)] \in Client
    BY <1>3, <2>1 DEF LastUsedClient, TypeOK
  <2>3. Calls(t, "last", lastUsed[Standard(t)])
    BY <1>3 DEF LastUsedClient
  <2>4. QED
    BY <1>3, <2>2, <2>3, CallsType
    DEF LastUsedClient, TypeOK, Ops, bundleVars, storeVars, historyVars
<1>4. ASSUME NEW t \in Thread, NEW c \in Client,
             CreateClient(t, c) \/ RemoveClient(t, c) \/ UpdateClient(t, c)
      PROVE  TypeOK'
  <2>1. PICK o \in {"create", "remove", "update"} : Calls(t, o, c)
    BY <1>4 DEF CreateClient, RemoveClient, UpdateClient
  <2>2. mode' = mode /\ used' = used /\ created' \in [Name -> SUBSET Client]
    BY <1>4, PlaceFacts
    DEF CreateClient, RemoveClient, UpdateClient, historyVars, TypeOK
  <2>3. QED
    BY <2>1, <2>2, CallsType DEF TypeOK, Ops, bundleVars, storeVars
<1>5. ASSUME NEW t \in Thread, NEW c \in Client, PerformMethod(t, c) PROVE TypeOK'
  BY <1>5, PlaceFacts DEF PerformMethod, TypeOK, bundleVars, threadVars
<1>6. ASSUME NEW t \in Thread, Read(t) PROVE TypeOK'
  <2> DEFINE dict == stored[Where(t)]
  <2>1. dict \in {Nil} \cup Dictionaries
    BY PlaceFacts DEF TypeOK
  <2>2. UNCHANGED <<bundleVars, mode, storeVars, historyVars>> /\ stage[t] = "read"
    BY <1>6 DEF Read
  <2>3. CASE dict = Nil
    BY <1>6, <2>2, <2>3 DEF Read, TypeOK, bundleVars, storeVars, historyVars
  <2>4. CASE dict # Nil /\ (Setting(t) \/ NotThere(t, dict))
    BY <1>6, <2>1, <2>2, <2>4 DEF Read, TypeOK, bundleVars, storeVars, historyVars
  <2>5. CASE dict # Nil /\ ~Setting(t) /\ ~NotThere(t, dict)
    <3>1. dict[Key(t)] \in Lists
      BY <2>1, <2>5, PlaceFacts DEF Dictionaries, NotThere
    <3>2. Answers(t, dict[Key(t)])
      BY <1>6, <2>5 DEF Read
    <3>3. QED
      BY <2>2, <3>1, <3>2, AnswersType DEF TypeOK, bundleVars, storeVars, historyVars
  <2>6. QED
    BY <2>3, <2>4, <2>5
<1>7. ASSUME NEW t \in Thread, WriteEmpty(t) PROVE TypeOK'
  BY <1>7, PlaceFacts
  DEF WriteEmpty, TypeOK, bundleVars, historyVars
<1>8. ASSUME NEW t \in Thread, Write(t) PROVE TypeOK'
  <2>1. seen[t] \in Dictionaries /\ stage[t] = "write"
    BY <1>8 DEF Write, TypeOK
  <2>2. \A l \in Lists : With(t, l) \in Dictionaries
    BY <2>1, PlaceFacts DEF With, Dictionaries
  <2>3. UNCHANGED <<bundleVars, mode, lastUsed, historyVars>>
    BY <1>8 DEF Write
  <2>4. CASE Setting(t)
    <3>1. list[t] \in Lists
      BY <2>4 DEF Setting, TypeOK
    <3>2. stored' = [stored EXCEPT ![Where(t)] = With(t, list[t])]
      BY <1>8, <2>4 DEF Write
    <3>3. stored' \in [Defaults -> {Nil} \cup Dictionaries]
      BY <2>2, <3>1, <3>2, PlaceFacts DEF TypeOK
    <3>4. QED
      BY <1>8, <2>3, <2>4, <3>3
      DEF Write, Rest, TypeOK, bundleVars, historyVars, Ops
  <2>5. CASE ~Setting(t)
    <3>1. stored' = [stored EXCEPT ![Where(t)] = With(t, {})] /\ Answers(t, {})
      BY <1>8, <2>5 DEF Write
    <3>2. stored' \in [Defaults -> {Nil} \cup Dictionaries]
      BY <2>2, <3>1, PlaceFacts DEF TypeOK
    <3>3. QED
      BY <2>1, <2>3, <3>1, <3>2, AnswersType DEF TypeOK, bundleVars, historyVars
  <2>6. QED
    BY <2>4, <2>5
<1>9. ASSUME NEW a \in App, Launched(a) PROVE TypeOK'
  BY <1>9 DEF Launched, ForThreadsOf, TypeOK, bundleVars, storeVars, historyVars
<1>10. ASSUME NEW a \in App, ProcessEnds(a) PROVE TypeOK'
  BY <1>10
  DEF ProcessEnds, ForThreadsOf, TypeOK, bundleVars, storeVars, historyVars, Ops
<1>11. CASE UNCHANGED vars
  BY <1>11 DEF vars, bundleVars, storeVars, threadVars, historyVars, TypeOK
<1>12. QED
  BY <1>1, <1>2, <1>3, <1>4, <1>5, <1>6, <1>7, <1>8, <1>9, <1>10, <1>11
  DEF Next, ThreadStep

-----------------------------------------------------------------------------
(* Lists are of their own name.                                            *)

\* A copy of the dictionary, however old, is no worse: clients are created and
\* never uncreated.
SeenIsOwn ==
  \A t \in Thread, n \in Name :
    seen[t] # Nil /\ seen[t][n] # Nil => seen[t][n] \subseteq created[n]

CreatesItsOwn ==
  \A t \in Thread : op[t] = "create" => client[t] \in created[Key(t)]

OwnInv == TypeOK /\ ListsAreOwn /\ SeenIsOwn /\ CreatesItsOwn

LEMMA ChangedIsOwn ==
  ASSUME OwnInv, NEW t \in Thread, NEW l \in SUBSET created[Key(t)]
  PROVE  Changed(t, l) \subseteq created[Key(t)]
BY DEF Changed, OwnInv, CreatesItsOwn

\* The threads' part, in the getter's answer.
LEMMA AnswersIsOwn ==
  ASSUME OwnInv, NEW t \in Thread, NEW l \in SUBSET created[Key(t)], Answers(t, l),
         UNCHANGED <<bundleVars, created>>
  PROVE  /\ \A u \in Thread : list'[u] # Nil => list'[u] \subseteq created[Key(u)]'
         /\ SeenIsOwn' /\ CreatesItsOwn'
<1>1. Changed(t, l) \subseteq created[Key(t)]
  BY ChangedIsOwn
<1>2. \A u \in Thread : Key(u)' = Key(u)
  BY DEF Key, bundleVars
<1>3. list' = [list EXCEPT ![t] = Changed(t, l)] /\ seen' = [seen EXCEPT ![t] = Nil]
  BY DEF Answers
<1>4. \A u \in Thread : list'[u] # Nil => list'[u] \subseteq created[Key(u)]'
  BY <1>1, <1>2, <1>3 DEF OwnInv, TypeOK, ListsAreOwn
<1>5. SeenIsOwn'
  BY <1>3 DEF OwnInv, TypeOK, SeenIsOwn
<1>6. \A u \in Thread : op'[u] = "create" => op[u] = "create" /\ client'[u] = client[u]
  BY DEF Answers, Rest, OwnInv, TypeOK
<1>7. CreatesItsOwn'
  BY <1>2, <1>6 DEF CreatesItsOwn, OwnInv
<1>8. QED
  BY <1>4, <1>5, <1>7

LEMMA CallsIsOwn ==
  ASSUME OwnInv, NEW t \in Thread, NEW o, NEW c, Calls(t, o, c),
         created' \in [Name -> SUBSET Client],
         \A n \in Name : created[n] \subseteq created'[n],
         o = "create" => c \in created'[Key(t)]
  PROVE  ListsAreOwn' /\ SeenIsOwn' /\ CreatesItsOwn'
<1>1. /\ \A u \in Thread : Key(u)' = Key(u) /\ Key(u) \in Name
      /\ stored' = stored /\ seen' = seen
      /\ \A u \in Thread : list'[u] = list[u] \/ list'[u] = Nil
  BY PlaceFacts DEF Key, Calls, bundleVars, storeVars, OwnInv, TypeOK
<1>2. ListsAreOwn'
  BY <1>1 DEF ListsAreOwn, OwnInv
<1>3. SeenIsOwn'
  BY <1>1 DEF SeenIsOwn, OwnInv
<1>4. CreatesItsOwn'
  <2>1. ASSUME NEW u \in Thread, op'[u] = "create" PROVE client'[u] \in created'[Key(u)]
    BY <1>1, <2>1 DEF Calls, CreatesItsOwn, OwnInv, TypeOK
  <2>2. QED
    BY <1>1, <2>1 DEF CreatesItsOwn
<1>5. QED
  BY <1>2, <1>3, <1>4

LEMMA OwnStep == OwnInv /\ [Next]_vars => OwnInv'
<1> SUFFICES ASSUME OwnInv, [Next]_vars PROVE OwnInv'
  OBVIOUS
<1>0. TypeOK /\ TypeOK'
  BY TypeStep DEF OwnInv
<1>a. SUFFICES ListsAreOwn' /\ SeenIsOwn' /\ CreatesItsOwn'
  BY <1>0 DEF OwnInv
<1>1. ASSUME NEW t \in Thread,
             Launch(t) \/ ListAllClients(t) \/ LastUsedClient(t)
               \/ \E c \in Client : RemoveClient(t, c) \/ UpdateClient(t, c)
      PROVE  ListsAreOwn' /\ SeenIsOwn' /\ CreatesItsOwn'
  <2>1. PICK o \in {"launch", "list", "last", "remove", "update"}, c \in {Nil} \cup Client :
          Calls(t, o, c)
    BY <1>1, <1>0
    DEF Launch, ListAllClients, LastUsedClient, RemoveClient, UpdateClient, TypeOK,
        Standard, Defaults
  <2>2. created' = created
    BY <1>1
    DEF Launch, ListAllClients, LastUsedClient, RemoveClient, UpdateClient, historyVars
  <2>3. QED
    BY <1>0, <2>1, <2>2, CallsIsOwn DEF TypeOK
<1>2. ASSUME NEW t \in Thread, NEW c \in Client, CreateClient(t, c)
      PROVE  ListsAreOwn' /\ SeenIsOwn' /\ CreatesItsOwn'
  <2>1. /\ created' \in [Name -> SUBSET Client]
        /\ \A n \in Name : created[n] \subseteq created'[n]
        /\ c \in created'[Key(t)]
    BY <1>0, <1>2, PlaceFacts DEF CreateClient, TypeOK
  <2>2. Calls(t, "create", c)
    BY <1>2 DEF CreateClient
  <2>3. QED
    BY <2>1, <2>2, CallsIsOwn
<1>3. ASSUME NEW t \in Thread, NEW c \in Client, PerformMethod(t, c)
      PROVE  ListsAreOwn' /\ SeenIsOwn' /\ CreatesItsOwn'
  BY <1>3
  DEF PerformMethod, OwnInv, ListsAreOwn, SeenIsOwn, CreatesItsOwn, Key, bundleVars,
      threadVars
<1>4. ASSUME NEW t \in Thread, Read(t)
      PROVE  ListsAreOwn' /\ SeenIsOwn' /\ CreatesItsOwn'
  <2> DEFINE dict == stored[Where(t)]
  <2>1. /\ UNCHANGED <<bundleVars, stored, created>>
        /\ dict \in {Nil} \cup Dictionaries
        /\ Where(t) \in Defaults /\ Key(t) \in Name
    BY <1>0, <1>4, PlaceFacts DEF Read, storeVars, historyVars, TypeOK
  <2>2. \A u \in Thread : Key(u)' = Key(u)
    BY <2>1 DEF Key, bundleVars
  <2>3. \A n \in Name : dict # Nil /\ dict[n] # Nil => dict[n] \subseteq created[n]
    BY <2>1 DEF OwnInv, ListsAreOwn
  <2>4. CASE dict = Nil \/ (dict # Nil /\ (Setting(t) \/ NotThere(t, dict)))
    <3>1. /\ UNCHANGED <<op, client, list>>
          /\ seen' = [seen EXCEPT ![t] = NoLists] \/ seen' = [seen EXCEPT ![t] = dict]
      BY <1>4, <2>4 DEF Read
    <3>2. dict = Nil => seen' = [seen EXCEPT ![t] = NoLists]
      BY <1>4 DEF Read
    <3>3. SeenIsOwn'
      <4>1. \A u \in Thread \ {t} : seen'[u] = seen[u]
        BY <1>0, <3>1 DEF TypeOK
      <4>2. seen'[t] = NoLists \/ (dict # Nil /\ seen'[t] = dict)
        BY <1>0, <3>1, <3>2 DEF TypeOK
      <4>3. \A n \in Name :
              seen'[t] # Nil /\ seen'[t][n] # Nil => seen'[t][n] \subseteq created[n]
        BY <2>3, <4>2 DEF NoLists
      <4>4. QED
        BY <2>1, <4>1, <4>3 DEF SeenIsOwn, OwnInv
    <3>4. QED
      BY <2>1, <2>2, <3>1, <3>3 DEF ListsAreOwn, CreatesItsOwn, OwnInv
  <2>5. CASE dict # Nil /\ ~Setting(t) /\ ~NotThere(t, dict)
    <3>1. Answers(t, dict[Key(t)]) /\ dict[Key(t)] \subseteq created[Key(t)]
      BY <1>4, <2>1, <2>3, <2>5 DEF Read, NotThere
    <3>2. /\ \A u \in Thread : list'[u] # Nil => list'[u] \subseteq created[Key(u)]'
          /\ SeenIsOwn' /\ CreatesItsOwn'
      BY <2>1, <3>1, AnswersIsOwn
    <3>3. QED
      BY <2>1, <3>2 DEF ListsAreOwn, OwnInv
  <2>6. QED
    BY <2>4, <2>5
<1>5. ASSUME NEW t \in Thread, WriteEmpty(t)
      PROVE  ListsAreOwn' /\ SeenIsOwn' /\ CreatesItsOwn'
  <2>1. /\ UNCHANGED <<bundleVars, created, seen, list, op, client>>
        /\ stored' = [stored EXCEPT ![Where(t)] = seen[t]]
        /\ Where(t) \in Defaults
    BY <1>0, <1>5, PlaceFacts DEF WriteEmpty, historyVars
  <2>2. \A d \in Defaults : stored'[d] = stored[d] \/ stored'[d] = seen[t]
    BY <1>0, <2>1 DEF TypeOK
  <2>3. QED
    BY <2>1, <2>2
    DEF OwnInv, ListsAreOwn, SeenIsOwn, CreatesItsOwn, Key, bundleVars
<1>6. ASSUME NEW t \in Thread, Write(t)
      PROVE  ListsAreOwn' /\ SeenIsOwn' /\ CreatesItsOwn'
  <2>1. /\ UNCHANGED <<bundleVars, created>>
        /\ Where(t) \in Defaults /\ Key(t) \in Name
        /\ seen[t] \in Dictionaries /\ seen[t] # Nil
    BY <1>0, <1>6, PlaceFacts DEF Write, historyVars, TypeOK
  <2>2. ASSUME NEW l \in SUBSET created[Key(t)], NEW n \in Name,
               With(t, l)[n] # Nil
        PROVE  With(t, l)[n] \subseteq created[n]
    BY <2>1, <2>2 DEF With, Dictionaries, OwnInv, SeenIsOwn
  <2>3. ASSUME NEW l \in SUBSET created[Key(t)],
               stored' = [stored EXCEPT ![Where(t)] = With(t, l)]
        PROVE  \A d \in Defaults, n \in Name :
                 stored'[d] # Nil /\ stored'[d][n] # Nil =>
                   stored'[d][n] \subseteq created[n]
    <3>1. \A d \in Defaults : stored'[d] = stored[d] \/ stored'[d] = With(t, l)
      BY <1>0, <2>1, <2>3 DEF TypeOK
    <3>2. QED
      BY <2>2, <3>1 DEF OwnInv, ListsAreOwn
  <2>4. CASE Setting(t)
    <3>1. /\ stored' = [stored EXCEPT ![Where(t)] = With(t, list[t])]
          /\ list' = [list EXCEPT ![t] = Nil] /\ seen' = [seen EXCEPT ![t] = Nil]
          /\ Rest(t)
      BY <1>6, <2>4 DEF Write
    <3>2. list[t] \subseteq created[Key(t)]
      BY <2>4 DEF Setting, OwnInv, ListsAreOwn
    <3>3. ListsAreOwn'
      BY <1>0, <2>1, <2>3, <3>1, <3>2 DEF OwnInv, ListsAreOwn, Key, bundleVars, TypeOK
    <3>4. QED
      BY <1>0, <2>1, <3>1, <3>3
      DEF Rest, OwnInv, SeenIsOwn, CreatesItsOwn, Key, bundleVars, TypeOK
  <2>5. CASE ~Setting(t)
    <3>1. stored' = [stored EXCEPT ![Where(t)] = With(t, {})] /\ Answers(t, {})
      BY <1>6, <2>5 DEF Write
    <3>2. /\ \A u \in Thread : list'[u] # Nil => list'[u] \subseteq created[Key(u)]'
          /\ SeenIsOwn' /\ CreatesItsOwn'
      BY <2>1, <3>1, AnswersIsOwn
    <3>3. \A d \in Defaults, n \in Name :
            stored'[d] # Nil /\ stored'[d][n] # Nil => stored'[d][n] \subseteq created[n]
      <4>1. {} \in SUBSET created[Key(t)]
        OBVIOUS
      <4>2. QED
        BY <2>3, <3>1, <4>1
    <3>4. QED
      BY <2>1, <3>2, <3>3 DEF ListsAreOwn
  <2>6. QED
    BY <2>4, <2>5
<1>7. ASSUME NEW a \in App, Launched(a) \/ ProcessEnds(a)
      PROVE  ListsAreOwn' /\ SeenIsOwn' /\ CreatesItsOwn'
  <2>1. /\ UNCHANGED <<bundleVars, stored, created>>
        /\ \A u \in Thread : list'[u] = list[u] \/ list'[u] = Nil
        /\ \A u \in Thread : seen'[u] = seen[u] \/ seen'[u] = Nil
        /\ \A u \in Thread : op'[u] = "none" \/ (op'[u] = op[u] /\ client'[u] = client[u])
    <3>1. CASE Launched(a)
      BY <3>1 DEF Launched, ForThreadsOf, storeVars, historyVars
    <3>2. CASE ProcessEnds(a)
      BY <3>2 DEF ProcessEnds, ForThreadsOf, storeVars, historyVars
    <3>3. QED
      BY <1>7, <3>1, <3>2
  <2>2. QED
    BY <2>1 DEF OwnInv, ListsAreOwn, SeenIsOwn, CreatesItsOwn, Key, bundleVars
<1>8. CASE UNCHANGED vars
  BY <1>8
  DEF vars, bundleVars, storeVars, threadVars, historyVars, OwnInv, ListsAreOwn,
      SeenIsOwn, CreatesItsOwn, Key
<1>9. QED
  BY <1>1, <1>2, <1>3, <1>4, <1>5, <1>6, <1>7, <1>8 DEF Next, ThreadStep

LEMMA OwnInit == Init => OwnInv
BY TypeInit DEF Init, OwnInv, ListsAreOwn, SeenIsOwn, CreatesItsOwn

-----------------------------------------------------------------------------
(* The last used client.                                                   *)

LastInv ==
  /\ TypeOK /\ LastUsedIsOwn
  /\ \A a \in App : lastUsed[a] # Nil => lastUsed[a] \in used[a]

LEMMA LastInit == Init => LastInv
BY TypeInit DEF Init, LastInv, LastUsedIsOwn, Defaults

LEMMA LastStep == LastInv /\ [Next]_vars => LastInv'
<1> SUFFICES ASSUME LastInv, [Next]_vars PROVE LastInv'
  OBVIOUS
<1>0. TypeOK /\ TypeOK'
  BY TypeStep DEF LastInv
<1>1. ASSUME UNCHANGED <<appOf, lastUsed, used>>,
             \A t \in Thread :
               op'[t] = "last" => op[t] = "last" /\ client'[t] = client[t]
      PROVE  LastInv'
  BY <1>0, <1>1 DEF LastInv, LastUsedIsOwn
<1>2. ASSUME NEW t \in Thread, NEW o \in Ops \ {"last"}, NEW c, Calls(t, o, c), used' = used
      PROVE  LastInv'
  BY <1>0, <1>1, <1>2 DEF Calls, bundleVars, storeVars, TypeOK
<1>3. ASSUME NEW t \in Thread,
             Launch(t) \/ ListAllClients(t)
               \/ \E c \in Client : CreateClient(t, c) \/ RemoveClient(t, c)
                                      \/ UpdateClient(t, c)
      PROVE  LastInv'
  <2>1. PICK o \in {"launch", "list", "create", "remove", "update"},
             c \in {Nil} \cup Client : Calls(t, o, c)
    BY <1>3 DEF Launch, ListAllClients, CreateClient, RemoveClient, UpdateClient
  <2>2. used' = used
    BY <1>3
    DEF Launch, ListAllClients, CreateClient, RemoveClient, UpdateClient, historyVars
  <2>3. QED
    BY <1>2, <2>1, <2>2 DEF Ops
<1>4. ASSUME NEW t \in Thread, LastUsedClient(t) PROVE LastInv'
  <2>1. lastUsed[appOf[t]] \in used[appOf[t]] /\ appOf[t] \in App
    BY <1>0, <1>4, PlaceFacts DEF LastUsedClient, Standard, LastInv
  <2>2. /\ UNCHANGED <<appOf, lastUsed, used>>
        /\ op' = [op EXCEPT ![t] = "last"]
        /\ client' = [client EXCEPT ![t] = lastUsed[appOf[t]]]
    BY <1>4 DEF LastUsedClient, Standard, Calls, bundleVars, storeVars, historyVars
  <2>3. QED
    BY <1>0, <2>1, <2>2 DEF LastInv, LastUsedIsOwn, TypeOK
<1>5. ASSUME NEW t \in Thread, NEW c \in Client, PerformMethod(t, c) PROVE LastInv'
  <2>1. /\ UNCHANGED <<appOf, op, client>>
        /\ lastUsed' = [lastUsed EXCEPT ![Where(t)] = c]
        /\ used' = [used EXCEPT ![appOf[t]] = @ \cup {c}]
    BY <1>5 DEF PerformMethod, bundleVars, threadVars
  <2>2. \A a \in App : used[a] \subseteq used'[a]
    BY <1>0, <2>1, PlaceFacts DEF TypeOK
  <2>3. \A a \in App : lastUsed'[a] = lastUsed[a] \/ (a = appOf[t] /\ lastUsed'[a] = c)
    BY <1>0, <2>1, NilFacts DEF TypeOK, Where, Defaults
  <2>4. c \in used'[appOf[t]]
    BY <1>0, <2>1, PlaceFacts DEF TypeOK
  <2>5. LastUsedIsOwn'
    BY <1>0, <2>1, <2>2, PlaceFacts DEF LastInv, LastUsedIsOwn
  <2>6. QED
    BY <1>0, <2>2, <2>3, <2>4, <2>5 DEF LastInv
<1>6. ASSUME NEW t \in Thread, Read(t) \/ WriteEmpty(t) \/ Write(t) PROVE LastInv'
  <2>1. UNCHANGED <<appOf, lastUsed, used>>
    BY <1>6 DEF Read, WriteEmpty, Write, bundleVars, storeVars, historyVars
  <2>2. \A u \in Thread : op'[u] = "none" \/ (op'[u] = op[u] /\ client'[u] = client[u])
    <3>1. UNCHANGED <<op, client>> \/ Rest(t)
      BY <1>6 DEF Read, WriteEmpty, Write, Answers
    <3>2. QED
      BY <1>0, <3>1 DEF Rest, TypeOK
  <2>3. QED
    BY <1>1, <2>1, <2>2
<1>7. ASSUME NEW a \in App, Launched(a) \/ ProcessEnds(a) PROVE LastInv'
  BY <1>1, <1>7
  DEF Launched, ProcessEnds, ForThreadsOf, bundleVars, storeVars, historyVars
<1>8. CASE UNCHANGED vars
  BY <1>1, <1>8 DEF vars, bundleVars, storeVars, threadVars, historyVars
<1>9. QED
  BY <1>3, <1>4, <1>5, <1>6, <1>7, <1>8 DEF Next, ThreadStep

-----------------------------------------------------------------------------
(* The launch.                                                             *)

\* The list of an application is in its standard defaults.
Made(a) == stored[a] # Nil /\ stored[a][name[a]] # Nil

LaunchIsOver(a) ==
  mode[a] # "off" /\ \A t \in Thread : appOf[t] = a => op[t] # "launch"

\* Nothing of a process happens before its launch, the launch is one thread's
\* and alone while it lasts, and only a launch, or a thread that works in the
\* group, may come upon a list that is not there.
StartInv ==
  /\ TypeOK
  /\ \A t \in Thread : list[t] # Nil => stored[Where(t)] # Nil
  /\ \A t \in Thread : stage[t] = "empty" => list[t] = Nil
  /\ \A t \in Thread : mode[appOf[t]] = "off" => stage[t] = "idle" /\ list[t] = Nil
  /\ \A t \in Thread : mode[appOf[t]] = "starting" => op[t] \in {"none", "launch"}
  /\ \A t \in Thread :
       op[t] = "launch" => mode[appOf[t]] = "starting" /\ list[t] = Nil
  /\ \A t, u \in Thread :
       op[t] = "launch" /\ op[u] = "launch" /\ appOf[t] = appOf[u] => t = u
  /\ \A a \in App : LaunchIsOver(a) => Made(a)
  /\ \A t \in Thread :
       mode[appOf[t]] = "plain" /\ list[t] = Nil => stage[t] \in {"idle", "read"}

LEMMA StartInit == Init => StartInv
BY TypeInit DEF Init, StartInv, LaunchIsOver, Made, Defaults

LEMMA SettledAtLaunch == StartInv => LaunchSettles
<1> SUFFICES ASSUME StartInv, NEW a \in App, mode[a] \in {"plain", "group"}
             PROVE  Settled(a)
  BY DEF LaunchSettles
<1>1. a # Group /\ Made(a)
  BY NilFacts DEF StartInv, LaunchIsOver
<1>2. ASSUME NEW t \in Thread, Where(t) = a PROVE ~Makes(t)
  BY <1>1, <1>2, PlaceFacts DEF Where, Setting, Makes, StartInv
<1>3. \A b \in App : a \in {b, Group} => b = a
  BY <1>1
<1>4. QED
  BY <1>1, <1>2, <1>3 DEF Settled, Made

\* What StartInv needs to know of a method that begins.
LEMMA CallsStart ==
  ASSUME StartInv, NEW t \in Thread, NEW o \in Ops \ {"none", "launch"}, NEW c,
         Calls(t, o, c), HasManager(t), mode' = mode, TypeOK'
  PROVE  StartInv'
<1>1. /\ UNCHANGED <<appOf, name, mode, stored>>
      /\ stage' = [stage EXCEPT ![t] = "read"]
      /\ op' = [op EXCEPT ![t] = o]
      /\ list' = [list EXCEPT ![t] = Nil]
  BY DEF Calls, bundleVars, storeVars
<1>2. \A u \in Thread : Where(u)' = Where(u)
  BY <1>1 DEF Where
<1>3. mode[appOf[t]] \in {"plain", "group"}
  BY DEF HasManager
<1>4. \A u \in Thread : u # t => stage'[u] = stage[u] /\ op'[u] = op[u] /\ list'[u] = list[u]
  BY <1>1 DEF StartInv, TypeOK
<1>5. stage'[t] = "read" /\ op'[t] = o /\ list'[t] = Nil
  BY <1>1 DEF StartInv, TypeOK
<1>6. QED
  BY <1>1, <1>2, <1>3, <1>4, <1>5 DEF StartInv, LaunchIsOver, Made, Ops

LEMMA StartStep == StartInv /\ [Next]_vars => StartInv'
<1> SUFFICES ASSUME StartInv, [Next]_vars PROVE StartInv'
  OBVIOUS
<1>0. TypeOK /\ TypeOK'
  BY TypeStep DEF StartInv
<1>1. ASSUME NEW t \in Thread, Launch(t) PROVE StartInv'
  <2>1. /\ UNCHANGED <<appOf, name, stored>>
        /\ mode[appOf[t]] = "off" /\ mode' = [mode EXCEPT ![appOf[t]] = "starting"]
        /\ stage' = [stage EXCEPT ![t] = "read"]
        /\ op' = [op EXCEPT ![t] = "launch"]
        /\ list' = [list EXCEPT ![t] = Nil]
    BY <1>1 DEF Launch, Calls, bundleVars, storeVars
  <2>2. \A u \in Thread : appOf[u] = appOf[t] => op[u] = "none" /\ list[u] = Nil
    BY <1>0, <2>1 DEF StartInv, TypeOK
  <2>3. \A u \in Thread : u # t => stage'[u] = stage[u] /\ op'[u] = op[u] /\ list'[u] = list[u]
    BY <1>0, <2>1 DEF TypeOK
  <2>4. stage'[t] = "read" /\ op'[t] = "launch" /\ list'[t] = Nil
    BY <1>0, <2>1 DEF TypeOK
  <2>5. /\ mode'[appOf[t]] = "starting"
        /\ \A a \in App : a # appOf[t] => mode'[a] = mode[a]
    BY <1>0, <2>1, PlaceFacts DEF TypeOK
  <2>6. \A u \in Thread : Where(u)' = Where(u)
    BY <1>0, <2>1, <2>5, PlaceFacts DEF Where
  <2>7. \A a \in App : Made(a)' = Made(a)
    BY <2>1 DEF Made
  <2>8. /\ \A u \in Thread : list'[u] # Nil => stored'[Where(u)'] # Nil
        /\ \A u \in Thread : stage'[u] = "empty" => list'[u] = Nil
    BY <2>1, <2>3, <2>4, <2>6 DEF StartInv
  <2>9. /\ \A u \in Thread : mode'[appOf[u]] = "off" => stage'[u] = "idle" /\ list'[u] = Nil
        /\ \A u \in Thread : mode'[appOf[u]] = "starting" => op'[u] \in {"none", "launch"}
    BY <1>0, <2>2, <2>3, <2>4, <2>5, PlaceFacts DEF StartInv
  <2>10. \A u \in Thread :
           op'[u] = "launch" => mode'[appOf[u]] = "starting" /\ list'[u] = Nil
    BY <1>0, <2>1, <2>2, <2>3, <2>4, <2>5, PlaceFacts DEF StartInv
  <2>11. \A u, v \in Thread :
           op'[u] = "launch" /\ op'[v] = "launch" /\ appOf[u] = appOf[v] => u = v
    BY <2>2, <2>3, <2>4 DEF StartInv
  <2>12. \A a \in App : LaunchIsOver(a)' => Made(a)
    BY <2>1, <2>3, <2>4, <2>5 DEF StartInv, LaunchIsOver
  <2>13. \A u \in Thread :
           mode'[appOf[u]] = "plain" /\ list'[u] = Nil => stage'[u] \in {"idle", "read"}
    BY <1>0, <2>3, <2>4, <2>5, PlaceFacts DEF StartInv
  <2>14. QED
    BY <1>0, <2>1, <2>7, <2>8, <2>9, <2>10, <2>11, <2>12, <2>13 DEF StartInv
<1>2. ASSUME NEW t \in Thread,
             \/ ListAllClients(t) \/ LastUsedClient(t)
             \/ \E c \in Client : \/ CreateClient(t, c) \/ RemoveClient(t, c)
                                  \/ UpdateClient(t, c)
      PROVE  StartInv'
  <2>1. HasManager(t) /\ mode' = mode
    BY <1>2
    DEF ListAllClients, LastUsedClient, CreateClient, RemoveClient, UpdateClient
  <2>2. PICK o \in {"list", "last", "create", "remove", "update"}, c \in {Nil} \cup Client :
          Calls(t, o, c)
    BY <1>0, <1>2, PlaceFacts
    DEF ListAllClients, LastUsedClient, CreateClient, RemoveClient, UpdateClient, TypeOK,
        Standard, Defaults
  <2>3. QED
    BY <1>0, <2>1, <2>2, CallsStart DEF Ops
<1>3. ASSUME NEW t \in Thread, NEW c \in Client, PerformMethod(t, c) PROVE StartInv'
  BY <1>0, <1>3 DEF PerformMethod, StartInv, LaunchIsOver, Made, Where, bundleVars, threadVars
<1>4. ASSUME NEW t \in Thread, Read(t) PROVE StartInv'
  <2> DEFINE dict == stored[Where(t)]
  <2>1. /\ UNCHANGED <<appOf, name, mode, stored>> /\ stage[t] = "read"
        /\ dict \in {Nil} \cup Dictionaries
    BY <1>0, <1>4, PlaceFacts DEF Read, bundleVars, storeVars, TypeOK
  <2>2. (\A u \in Thread : Where(u)' = Where(u)) /\ (\A a \in App : Made(a)' = Made(a))
    BY <2>1 DEF Where, Made
  <2>3. mode[appOf[t]] \in {"plain", "starting", "group"}
    BY <1>0, <2>1, PlaceFacts DEF StartInv, TypeOK
  <2>4. CASE dict = Nil \/ (dict # Nil /\ (Setting(t) \/ NotThere(t, dict)))
    <3>1. /\ UNCHANGED <<op, list>>
          /\ stage' = [stage EXCEPT ![t] = "empty"] \/ stage' = [stage EXCEPT ![t] = "write"]
          /\ dict # Nil => stage' = [stage EXCEPT ![t] = "write"]
      BY <1>4, <2>4 DEF Read
    <3>2. \A u \in Thread : u # t => stage'[u] = stage[u]
      BY <1>0, <3>1 DEF TypeOK
    <3>3. stage'[t] \in {"empty", "write"} /\ (dict # Nil => stage'[t] = "write")
      BY <1>0, <3>1 DEF TypeOK
    <3>4. dict = Nil => list[t] = Nil
      BY DEF StartInv
    <3>5. ASSUME mode[appOf[t]] = "plain", list[t] = Nil PROVE FALSE
      <4>1. Where(t) = appOf[t] /\ appOf[t] \in App /\ Made(appOf[t])
        BY <1>0, <3>5, PlaceFacts DEF Where, StartInv, LaunchIsOver
      <4>2. QED
        BY <2>4, <3>5, <4>1 DEF Made, NotThere, Key, Setting
    <3>6. QED
      BY <1>0, <2>1, <2>2, <2>3, <3>1, <3>2, <3>3, <3>4, <3>5 DEF StartInv, LaunchIsOver
  <2>5. CASE dict # Nil /\ ~Setting(t) /\ ~NotThere(t, dict)
    <3> DEFINE l == dict[Key(t)]
    <3>1. Answers(t, l) /\ l \in Lists
      BY <1>0, <1>4, <2>1, <2>5, PlaceFacts DEF Read, NotThere, Dictionaries
    <3>2. Changed(t, l) # Nil
      BY <1>0, <3>1, ChangedIsAList, NilFacts
    <3>3. list' = [list EXCEPT ![t] = Changed(t, l)]
      BY <3>1 DEF Answers
    <3>4. \A u \in Thread : u # t =>
            stage'[u] = stage[u] /\ op'[u] = op[u] /\ list'[u] = list[u]
      BY <1>0, <3>1 DEF Answers, Rest, TypeOK
    <3>5. list'[t] # Nil
      BY <1>0, <3>2, <3>3 DEF TypeOK
    <3>6. \/ /\ op'[t] = "none" /\ stage'[t] = "idle"
          \/ /\ op'[t] = op[t] /\ stage'[t] = "read" /\ op[t] # "launch"
      BY <1>0, <3>1 DEF Answers, Rest, Writes, TypeOK
    <3>7. Where(t) = appOf[t] => Made(appOf[t])
      BY <2>5 DEF Made, NotThere, Key
    <3>8. mode[appOf[t]] # "group" => Where(t) = appOf[t]
      BY DEF Where
    <3>9. \A u \in Thread : list'[u] # Nil => stored[Where(u)] # Nil
      BY <2>5, <3>4 DEF StartInv
    <3>10. \A a \in App : LaunchIsOver(a)' => Made(a)
      <4>1. TAKE a \in App
      <4>2. CASE a = appOf[t]
        BY <2>3, <3>7, <3>8, <4>2 DEF StartInv, LaunchIsOver
      <4>3. CASE a # appOf[t]
        BY <2>1, <3>4, <4>3 DEF StartInv, LaunchIsOver
      <4>4. QED
        BY <4>2, <4>3
    <3>11. QED
      BY <1>0, <2>1, <2>2, <2>3, <3>4, <3>5, <3>6, <3>9, <3>10 DEF StartInv
  <2>6. QED
    BY <2>4, <2>5
<1>5. ASSUME NEW t \in Thread, WriteEmpty(t) PROVE StartInv'
  <2>1. /\ UNCHANGED <<appOf, name, mode, op, list>> /\ stage[t] = "empty"
        /\ stage' = [stage EXCEPT ![t] = "write"]
        /\ stored' = [stored EXCEPT ![Where(t)] = seen[t]]
        /\ seen[t] # Nil /\ list[t] = Nil
    BY <1>0, <1>5 DEF WriteEmpty, bundleVars, StartInv, TypeOK
  <2>2. \A u \in Thread : Where(u)' = Where(u)
    BY <2>1 DEF Where
  <2>3. mode[appOf[t]] \in {"starting", "group"}
    BY <1>0, <2>1, PlaceFacts DEF StartInv, TypeOK
  <2>4. \A d \in Defaults : d # Where(t) => stored'[d] = stored[d]
    BY <1>0, <2>1 DEF TypeOK
  <2>5. stored'[Where(t)] # Nil
    BY <1>0, <2>1, PlaceFacts DEF TypeOK
  <2>6. ASSUME NEW a \in App, a = Where(t)
        PROVE  mode[a] = "starting" /\ appOf[t] = a /\ op[t] = "launch"
    BY <1>0, <2>1, <2>3, <2>6, NilFacts, PlaceFacts DEF Where, StartInv, TypeOK
  <2>7. \A a \in App : a # Where(t) => Made(a)' = Made(a)
    BY <2>1, <2>4 DEF Made, Defaults
  <2>8. \A u \in Thread : list[u] # Nil => stored'[Where(u)] # Nil
    BY <1>0, <2>4, <2>5, PlaceFacts DEF StartInv
  <2>9. \A u \in Thread : u # t => stage'[u] = stage[u]
    BY <1>0, <2>1 DEF TypeOK
  <2>10. stage'[t] = "write"
    BY <1>0, <2>1 DEF TypeOK
  <2>11. \A a \in App : LaunchIsOver(a)' => Made(a)'
    BY <2>1, <2>6, <2>7 DEF StartInv, LaunchIsOver
  <2>12. QED
    BY <1>0, <2>1, <2>2, <2>3, <2>8, <2>9, <2>10, <2>11 DEF StartInv
<1>6. ASSUME NEW t \in Thread, Write(t) PROVE StartInv'
  <2>1. /\ UNCHANGED <<appOf, name, mode>> /\ stage[t] = "write"
        /\ seen[t] \in Dictionaries
    BY <1>0, <1>6 DEF Write, bundleVars, TypeOK
  <2>2. \A u \in Thread : Where(u)' = Where(u)
    BY <2>1 DEF Where
  <2>3. PICK l \in Lists : stored' = [stored EXCEPT ![Where(t)] = With(t, l)]
    BY <1>0, <1>6, NilFacts DEF Write, Setting, TypeOK
  <2>4. With(t, l) \in Dictionaries /\ With(t, l)[Key(t)] = l
    BY <1>0, <2>1, <2>3, PlaceFacts DEF With, Dictionaries
  <2>5. With(t, l) # Nil /\ l # Nil
    BY <2>3, <2>4, NilFacts
  <2>6. /\ stored'[Where(t)] = With(t, l)
        /\ \A d \in Defaults : d # Where(t) => stored'[d] = stored[d]
    BY <1>0, <2>3, PlaceFacts DEF TypeOK
  <2>7. \A u \in Thread : stored[Where(u)] # Nil => stored'[Where(u)] # Nil
    BY <1>0, <2>5, <2>6, PlaceFacts
  <2>8. \A a \in App : Made(a) \/ a = Where(t) => Made(a)'
    <3>1. TAKE a \in App
    <3>2. CASE a = Where(t)
      <4>1. a = appOf[t]
        BY <3>2, NilFacts DEF Where
      <4>2. QED
        BY <2>1, <2>4, <2>5, <2>6, <3>2, <4>1 DEF Made, Key
    <3>3. CASE a # Where(t)
      BY <2>1, <2>6, <3>3 DEF Made, Defaults
    <3>4. QED
      BY <3>2, <3>3
  <2>9. /\ \A u \in Thread : u # t =>
             stage'[u] = stage[u] /\ op'[u] = op[u] /\ list'[u] = list[u]
        /\ stage'[t] \in {"idle", "read"}
        /\ \/ op'[t] = "none"
           \/ op'[t] = op[t] /\ op[t] # "launch"
    BY <1>0, <1>6 DEF Write, Answers, Rest, Writes, TypeOK
  <2>10. list'[t] # Nil => list[t] = Nil
    BY <1>0, <1>6 DEF Write, Setting, TypeOK
  <2>11. mode[appOf[t]] # "off" /\ (mode[appOf[t]] # "group" => Where(t) = appOf[t])
    BY <2>1 DEF StartInv, Where
  <2>12. \A u \in Thread : list'[u] # Nil => stored'[Where(u)] # Nil
    BY <2>5, <2>6, <2>7, <2>9 DEF StartInv
  <2>13. \A a \in App : LaunchIsOver(a)' => Made(a)'
    <3>1. TAKE a \in App
    <3>2. CASE a = appOf[t]
      BY <1>0, <2>8, <2>11, <3>2 DEF StartInv, LaunchIsOver
    <3>3. CASE a # appOf[t]
      BY <2>1, <2>8, <2>9, <3>3 DEF StartInv, LaunchIsOver
    <3>4. QED
      BY <3>2, <3>3
  <2>14. QED
    BY <1>0, <2>1, <2>2, <2>9, <2>11, <2>12, <2>13 DEF StartInv
<1>7. ASSUME NEW a \in App, Launched(a) PROVE StartInv'
  <2>1. /\ UNCHANGED <<appOf, name, stored, stage, op>> /\ mode[a] = "starting"
        /\ \A t \in Thread : appOf[t] = a => op[t] # "launch"
        /\ list' = [t \in Thread |-> IF appOf[t] = a THEN Nil ELSE list[t]]
    BY <1>7 DEF Launched, ForThreadsOf, bundleVars, storeVars
  <2>2. mode'[a] \in {"plain", "group"} /\ \A b \in App : b # a => mode'[b] = mode[b]
    BY <1>0, <1>7 DEF Launched, TypeOK
  <2>3. \A t \in Thread : appOf[t] = a => stage[t] = "idle" /\ list'[t] = Nil
    BY <1>0, <2>1 DEF StartInv, TypeOK
  <2>4. \A t \in Thread : appOf[t] # a => list'[t] = list[t] /\ Where(t)' = Where(t)
    BY <1>0, <2>1, <2>2, PlaceFacts DEF Where
  <2>5. \A b \in App : Made(b)' = Made(b)
    BY <2>1 DEF Made
  <2>6. Made(a)
    BY <2>1 DEF StartInv, LaunchIsOver
  <2>7. QED
    BY <1>0, <2>1, <2>2, <2>3, <2>4, <2>5, <2>6, PlaceFacts DEF StartInv, LaunchIsOver
<1>8. ASSUME NEW a \in App, ProcessEnds(a) PROVE StartInv'
  <2>1. /\ UNCHANGED <<appOf, name, stored>>
        /\ mode' = [mode EXCEPT ![a] = "off"]
        /\ stage' = [t \in Thread |-> IF appOf[t] = a THEN "idle" ELSE stage[t]]
        /\ op' = [t \in Thread |-> IF appOf[t] = a THEN "none" ELSE op[t]]
        /\ list' = [t \in Thread |-> IF appOf[t] = a THEN Nil ELSE list[t]]
    BY <1>8 DEF ProcessEnds, ForThreadsOf, bundleVars, storeVars
  <2>2. mode'[a] = "off" /\ \A b \in App : b # a => mode'[b] = mode[b]
    BY <1>0, <2>1 DEF TypeOK
  <2>3. \A t \in Thread : appOf[t] = a =>
          stage'[t] = "idle" /\ op'[t] = "none" /\ list'[t] = Nil
    BY <2>1
  <2>4. \A t \in Thread : appOf[t] # a =>
          /\ stage'[t] = stage[t] /\ op'[t] = op[t] /\ list'[t] = list[t]
          /\ Where(t)' = Where(t)
    BY <1>0, <2>1, <2>2, PlaceFacts DEF Where
  <2>5. \A b \in App : Made(b)' = Made(b)
    BY <2>1 DEF Made
  <2>6. QED
    BY <1>0, <2>1, <2>2, <2>3, <2>4, <2>5, PlaceFacts DEF StartInv, LaunchIsOver
<1>9. CASE UNCHANGED vars
  BY <1>0, <1>9
  DEF vars, bundleVars, storeVars, threadVars, historyVars, StartInv, LaunchIsOver, Made, Where
<1>10. QED
  BY <1>1, <1>2, <1>3, <1>4, <1>5, <1>6, <1>7, <1>8, <1>9 DEF Next, ThreadStep

-----------------------------------------------------------------------------
(* The register.                                                           *)

\* The list that a thread finds in a settled place.
EntryIsListed ==
  \A a \in App : \A d \in {a, Group} :
    Settled(d) => /\ stored[d] \in Dictionaries /\ stored[d][name[a]] \in Lists
                  /\ ListIn(d) = stored[d][name[a]]

LEMMA EntryFacts == StartInv => EntryIsListed
<1> SUFFICES ASSUME StartInv, NEW a \in App, NEW d \in {a, Group}, Settled(d)
             PROVE  /\ stored[d] \in Dictionaries /\ stored[d][name[a]] \in Lists
                    /\ ListIn(d) = stored[d][name[a]]
  BY DEF EntryIsListed
<1>1. TypeOK /\ d \in Defaults
  BY DEF StartInv, Defaults
<1>2. stored[d] \in Dictionaries
  BY <1>1 DEF Settled, TypeOK
<1>3. stored[d][name[a]] \in Lists
  BY <1>1, <1>2 DEF Settled, TypeOK, Dictionaries
<1>4. CASE d = Group
  <2>1. (CHOOSE b \in App : TRUE) \in App
    OBVIOUS
  <2>2. name[CHOOSE b \in App : TRUE] = name[a]
    BY <1>4, <2>1 DEF Settled
  <2>3. QED
    BY <1>2, <1>3, <1>4, <2>2 DEF ListIn
<1>5. CASE d = a
  BY <1>2, <1>3, <1>5, NilFacts DEF ListIn
<1>6. QED
  BY <1>4, <1>5

LEMMA EntryFactsNext == StartInv' => EntryIsListed'
BY EntryFacts, PTL

\* A place where nothing is written and no getter begins or ends making a list.
LEMMA PlaceStays ==
  ASSUME NEW d \in Defaults, UNCHANGED name, stored'[d] = stored[d],
         \A t \in Thread : (Where(t) = d /\ Makes(t)) <=> (Where(t)' = d /\ Makes(t)')
  PROVE  (Settled(d)' <=> Settled(d)) /\ ListIn(d)' = ListIn(d)
<1>1. Settled(d)' <=> Settled(d)
  BY DEF Settled
<1>2. QED
  BY <1>1 DEF ListIn

\* The state of the register when no place but d0 changes, and d0 is open
\* before and after, or neither before nor after.
LEMMA RegisterStays ==
  ASSUME NEW d0 \in Defaults, Settled(d0)' <=> Settled(d0),
         \A d \in Defaults \ {d0} : (Settled(d)' <=> Settled(d)) /\ ListIn(d)' = ListIn(d)
  PROVE  /\ OpenPlaces' = OpenPlaces
         /\ ListsThere' = [ListsThere EXCEPT ![d0] = ListIn(d0)']
BY DEF OpenPlaces, ListsThere

\* The state of the register when d0 opens.
LEMMA RegisterOpens ==
  ASSUME StartInv, StartInv', NEW a \in App, NEW d0 \in {a, Group},
         ~Settled(d0), Settled(d0)',
         \A d \in Defaults \ {d0} : (Settled(d)' <=> Settled(d)) /\ ListIn(d)' = ListIn(d),
         \A t \in Thread : Where(t) # d0 => Where(t)' = Where(t) /\ list'[t] = list[t]
  PROVE  Register!Open(d0)
<1>1. d0 \in Defaults /\ TypeOK /\ TypeOK'
  BY DEF Defaults, StartInv
<1>2. d0 \notin OpenPlaces /\ OpenPlaces' = OpenPlaces \cup {d0}
  BY <1>1 DEF OpenPlaces
<1>3. ListIn(d0)' \in SUBSET Client
  BY EntryFactsNext DEF EntryIsListed, Lists
<1>4. ListsThere' = [ListsThere EXCEPT ![d0] = ListIn(d0)']
  BY <1>1 DEF ListsThere
<1>5. PlaceOf' \in [Thread -> Defaults]
  BY <1>1 DEF PlaceOf, Where, Defaults, TypeOK
<1>6. Held' \in [Thread -> {Nil} \cup SUBSET Client]
  BY <1>1 DEF Held, TypeOK, Lists
<1>7. \A t \in Thread : PlaceOf[t] # d0 => PlaceOf'[t] = PlaceOf[t] /\ Held'[t] = Held[t]
  <2>1. TAKE t \in Thread
  <2>2. HAVE PlaceOf[t] # d0
  <2>3. Where(t) # d0 /\ Where(t)' = Where(t) /\ list'[t] = list[t] /\ Where(t) \in Defaults
    BY <1>1, <2>2, PlaceFacts DEF PlaceOf
  <2>4. Settled(Where(t))' <=> Settled(Where(t))
    BY <2>3
  <2>5. QED
    BY <2>3, <2>4 DEF PlaceOf, Held
<1>8. QED
  BY <1>2, <1>3, <1>4, <1>5, <1>6, <1>7 DEF Register!Open

RegisterStep ==
  Register!Next \/ UNCHANGED <<OpenPlaces, ListsThere, PlaceOf, Held>>

\* A step of t, which changes no place but its own.
OnlyOf(t) ==
  /\ UNCHANGED name
  /\ \A u \in Thread : Where(u)' = Where(u)
  /\ \A u \in Thread \ {t} : list'[u] = list[u] /\ stage'[u] = stage[u]
  /\ \A d \in Defaults \ {Where(t)} : stored'[d] = stored[d]

LEMMA OtherPlacesStay ==
  ASSUME StartInv, NEW t \in Thread, OnlyOf(t)
  PROVE  /\ PlaceOf' = PlaceOf
         /\ \A d \in Defaults \ {Where(t)} :
              (Settled(d)' <=> Settled(d)) /\ ListIn(d)' = ListIn(d)
<1>1. PlaceOf' = PlaceOf
  BY DEF OnlyOf, PlaceOf
<1>2. ASSUME NEW d \in Defaults \ {Where(t)}
      PROVE  (Settled(d)' <=> Settled(d)) /\ ListIn(d)' = ListIn(d)
  <2>1. \A u \in Thread : (Where(u) = d /\ Makes(u)) <=> (Where(u)' = d /\ Makes(u)')
    BY DEF OnlyOf, Makes, Setting
  <2>2. QED
    BY <2>1, PlaceStays DEF OnlyOf
<1>3. QED
  BY <1>1, <1>2

LEMMA HeldIn ==
  ASSUME NEW t \in Thread, NEW d, Where(t) = d
  PROVE  Held[t] = IF Settled(d) THEN list[t] ELSE Nil
BY DEF Held

LEMMA HeldInNext ==
  ASSUME NEW t \in Thread, NEW d, Where(t)' = d
  PROVE  Held'[t] = IF Settled(d)' THEN list'[t] ELSE Nil
<1>1. Settled(Where(t))' <=> Settled(d)'
  BY DEF Settled
<1>2. QED
  BY <1>1 DEF Held

LEMMA HeldElsewhere ==
  ASSUME NEW t \in Thread, NEW d, Where(t) = d, Where(t)' = d, Settled(d)' <=> Settled(d),
         list'[t] = list[t]
  PROVE  Held'[t] = Held[t]
BY HeldIn, HeldInNext

\* Before its place is settled, a thread changes nothing of the register.
LEMMA UnsettledStep ==
  ASSUME StartInv, StartInv', NEW t \in Thread, OnlyOf(t),
         NEW d0 \in Defaults, Where(t) = d0, ~Settled(d0)
  PROVE  RegisterStep
<1>0. appOf[t] \in App /\ d0 \in {appOf[t], Group}
  BY PlaceFacts DEF StartInv, Where
<1>1. \A d \in Defaults \ {d0} : (Settled(d)' <=> Settled(d)) /\ ListIn(d)' = ListIn(d)
  BY OtherPlacesStay
<1>2. CASE Settled(d0)'
  <2>1. \A u \in Thread : Where(u) # d0 => Where(u)' = Where(u) /\ list'[u] = list[u]
    BY DEF OnlyOf
  <2>2. Register!Open(d0)
    BY <1>0, <1>1, <1>2, <2>1, RegisterOpens
  <2>3. QED
    BY <2>2 DEF RegisterStep, Register!Next
<1>3. CASE ~Settled(d0)'
  <2>1. ListIn(d0) = {} /\ ListIn(d0)' = {}
    BY <1>3 DEF ListIn
  <2>2. OpenPlaces' = OpenPlaces /\ ListsThere' = ListsThere
    BY <1>1, <1>3, <2>1 DEF OpenPlaces, ListsThere
  <2>3. ASSUME NEW u \in Thread PROVE Held'[u] = Held[u]
    <3>1. PICK d \in Defaults : Where(u)' = d /\ Where(u) = d
      BY PlaceFacts DEF StartInv, OnlyOf
    <3>2. CASE d = d0
      BY <1>3, <3>1, <3>2, HeldIn, HeldInNext
    <3>3. CASE d # d0
      BY <1>1, <3>1, <3>3, HeldElsewhere DEF OnlyOf
    <3>4. QED
      BY <3>2, <3>3
  <2>4. Held' = Held
    BY <2>3 DEF Held
  <2>5. QED
    BY <2>2, <2>4, OtherPlacesStay DEF RegisterStep
<1>4. QED
  BY <1>2, <1>3

\* Once it is, the register has the thread's list, and the list it is in.
LEMMA SettledStep ==
  ASSUME StartInv, NEW t \in Thread, OnlyOf(t),
         NEW d0 \in Defaults, Where(t) = d0, Settled(d0), Settled(d0)'
  PROVE  /\ OpenPlaces' = OpenPlaces /\ PlaceOf' = PlaceOf
         /\ ListsThere' = [ListsThere EXCEPT ![d0] = ListIn(d0)']
         /\ Held' = [Held EXCEPT ![t] = list'[t]]
         /\ PlaceOf[t] = d0 /\ d0 \in OpenPlaces /\ Held[t] = list[t]
         /\ ListsThere[d0] = ListIn(d0)
<1>1. \A d \in Defaults \ {d0} : (Settled(d)' <=> Settled(d)) /\ ListIn(d)' = ListIn(d)
  BY OtherPlacesStay
<1>2. OpenPlaces' = OpenPlaces /\ ListsThere' = [ListsThere EXCEPT ![d0] = ListIn(d0)']
  BY <1>1, RegisterStays
<1>3. ASSUME NEW u \in Thread PROVE Held'[u] = IF u = t THEN list'[t] ELSE Held[u]
  <2>1. PICK d \in Defaults : Where(u)' = d /\ Where(u) = d
    BY PlaceFacts DEF StartInv, OnlyOf
  <2>2. CASE u = t
    BY <2>1, <2>2, HeldInNext
  <2>3. CASE u # t
    BY <1>1, <2>1, <2>3, HeldElsewhere DEF OnlyOf
  <2>4. QED
    BY <2>2, <2>3
<1>4. Held' = [Held EXCEPT ![t] = list'[t]]
  BY <1>3 DEF Held
<1>5. PlaceOf[t] = d0 /\ d0 \in OpenPlaces /\ Held[t] = list[t] /\ ListsThere[d0] = ListIn(d0)
  BY DEF PlaceOf, OpenPlaces, Held, ListsThere
<1>6. QED
  BY <1>2, <1>4, <1>5, OtherPlacesStay

LEMMA CallStep ==
  ASSUME StartInv, StartInv', NEW t \in Thread, NEW o \in Ops, NEW c, Calls(t, o, c),
         \A u \in Thread : Where(u)' = Where(u)
  PROVE  RegisterStep
<1>0. TypeOK
  BY DEF StartInv
<1>1. OnlyOf(t) /\ stored' = stored /\ list'[t] = Nil /\ stage'[t] = "read"
  BY <1>0 DEF Calls, OnlyOf, TypeOK, bundleVars, storeVars
<1>2. PICK d0 \in Defaults : Where(t) = d0
  BY <1>0, PlaceFacts
<1>3. CASE Settled(d0)
  <2>1. \A u \in Thread : (Where(u) = d0 /\ Makes(u)) <=> (Where(u)' = d0 /\ Makes(u)')
    BY <1>1, <1>2, <1>3 DEF Settled, OnlyOf, Makes, Setting
  <2>2. Settled(d0)' /\ ListIn(d0)' = ListIn(d0)
    BY <1>1, <1>3, <2>1, PlaceStays DEF OnlyOf
  <2>3. /\ OpenPlaces' = OpenPlaces /\ PlaceOf' = PlaceOf
        /\ ListsThere' = [ListsThere EXCEPT ![d0] = ListsThere[d0]]
        /\ Held' = [Held EXCEPT ![t] = Nil]
    BY <1>1, <1>2, <1>3, <2>2, SettledStep
  <2>4. PlaceOf \in [Thread -> Defaults]
    BY <1>0, PlaceFacts DEF PlaceOf
  <2>5. Register!Move({t})
    BY <2>3, <2>4 DEF Register!Move, ListsThere, Held
  <2>6. QED
    BY <2>5 DEF RegisterStep, Register!Next
<1>4. CASE ~Settled(d0)
  BY <1>1, <1>2, <1>4, UnsettledStep
<1>5. QED
  BY <1>3, <1>4

LEMMA ReadStep ==
  ASSUME StartInv, StartInv', NEW t \in Thread, Read(t)
  PROVE  RegisterStep
<1>0. TypeOK
  BY DEF StartInv
<1>1. UNCHANGED <<appOf, name, mode, stored>> /\ stage[t] = "read"
  BY DEF Read, bundleVars, storeVars
<1>2. \A u \in Thread : Where(u)' = Where(u)
  BY <1>1 DEF Where
<1>3. OnlyOf(t)
  BY <1>0, <1>1, <1>2 DEF Read, Answers, Rest, OnlyOf, TypeOK
<1>4. PICK d0 \in Defaults : Where(t) = d0
  BY <1>0, PlaceFacts
<1>5. CASE Settled(d0)
  <2>1. appOf[t] \in App /\ d0 \in {appOf[t], Group}
    BY <1>0, <1>4, PlaceFacts DEF Where
  <2>2. stored[d0] # Nil /\ stored[d0][Key(t)] \in Lists /\ ListIn(d0) = stored[d0][Key(t)]
    BY <1>5, <2>1, EntryFacts, NilFacts DEF EntryIsListed, Key
  <2>3. ASSUME ~Makes(t)' PROVE Settled(d0)' /\ ListIn(d0)' = ListIn(d0)
    <3>1. \A u \in Thread : (Where(u) = d0 /\ Makes(u)) <=> (Where(u)' = d0 /\ Makes(u)')
      BY <1>3, <1>5, <2>3 DEF Settled, OnlyOf, Makes, Setting
    <3>2. QED
      BY <1>1, <1>5, <3>1, PlaceStays
  <2>4. CASE Setting(t)
    <3>1. list' = list
      BY <1>4, <2>2, <2>4 DEF Read
    <3>2. ~Makes(t)'
      BY <2>4, <3>1 DEF Makes, Setting
    <3>3. UNCHANGED <<OpenPlaces, ListsThere, PlaceOf, Held>>
      BY <1>3, <1>4, <1>5, <2>3, <3>1, <3>2, SettledStep DEF ListsThere, Held
    <3>4. QED
      BY <3>3 DEF RegisterStep
  <2>5. CASE ~Setting(t)
    <3>1. Answers(t, ListIn(d0)) /\ ListIn(d0) \in Lists
      BY <1>4, <2>2, <2>5, NilFacts DEF Read, NotThere
    <3>2. list'[t] = Changed(t, ListIn(d0)) /\ Changed(t, ListIn(d0)) \in Lists
      BY <1>0, <3>1, ChangedIsAList DEF Answers, TypeOK
    <3>3. ~Makes(t)'
      BY <3>2, NilFacts DEF Makes, Setting
    <3>4. Changed(t, ListIn(d0)) \in Register!Changes(ListsThere[d0])
      <4>1. op[t] \in {"create", "remove"} => client[t] \in Client
        BY <1>0 DEF TypeOK
      <4>2. ListsThere[d0] = ListIn(d0)
        BY DEF ListsThere
      <4>3. QED
        BY <4>1, <4>2 DEF Changed, Register!Changes
    <3>5. /\ OpenPlaces' = OpenPlaces /\ PlaceOf' = PlaceOf
          /\ ListsThere' = [ListsThere EXCEPT ![d0] = ListsThere[d0]]
          /\ Held' = [Held EXCEPT ![t] = Changed(t, ListIn(d0))]
          /\ PlaceOf[t] = d0 /\ d0 \in OpenPlaces
      BY <1>3, <1>4, <1>5, <2>3, <3>2, <3>3, SettledStep
    <3>6. Register!Read(t)
      BY <3>4, <3>5 DEF Register!Read, ListsThere
    <3>7. QED
      BY <3>6 DEF RegisterStep, Register!Next
  <2>6. QED
    BY <2>4, <2>5
<1>6. CASE ~Settled(d0)
  BY <1>3, <1>4, <1>6, UnsettledStep
<1>7. QED
  BY <1>5, <1>6

LEMMA WriteEmptyStep ==
  ASSUME StartInv, StartInv', NEW t \in Thread, WriteEmpty(t)
  PROVE  RegisterStep
<1>0. TypeOK
  BY DEF StartInv
<1>1. /\ UNCHANGED <<appOf, name, mode, list>> /\ stage[t] = "empty" /\ list[t] = Nil
      /\ stage' = [stage EXCEPT ![t] = "write"]
      /\ stored' = [stored EXCEPT ![Where(t)] = seen[t]]
  BY DEF WriteEmpty, bundleVars, StartInv
<1>2. \A u \in Thread : Where(u)' = Where(u)
  BY <1>1 DEF Where
<1>3. OnlyOf(t)
  BY <1>0, <1>1, <1>2 DEF OnlyOf, TypeOK
<1>4. PICK d0 \in Defaults : Where(t) = d0
  BY <1>0, PlaceFacts
<1>5. ~Settled(d0)
  BY <1>1, <1>4 DEF Settled, Makes, Setting
<1>6. QED
  BY <1>3, <1>4, <1>5, UnsettledStep

LEMMA WriteStep ==
  ASSUME StartInv, StartInv', NEW t \in Thread, Write(t)
  PROVE  RegisterStep
<1>0. TypeOK
  BY DEF StartInv
<1>1. UNCHANGED <<appOf, name, mode>> /\ stage[t] = "write" /\ seen[t] \in Dictionaries
  BY <1>0 DEF Write, bundleVars, TypeOK
<1>2. \A u \in Thread : Where(u)' = Where(u)
  BY <1>1 DEF Where
<1>3. OnlyOf(t)
  BY <1>0, <1>1, <1>2 DEF Write, Answers, Rest, OnlyOf, TypeOK
<1>4. PICK d0 \in Defaults : Where(t) = d0
  BY <1>0, PlaceFacts
<1>5. CASE Settled(d0)
  <2>1. Setting(t) /\ list[t] \in Lists
    BY <1>0, <1>1, <1>4, <1>5 DEF Settled, Makes, Setting, TypeOK
  <2>2. /\ stored' = [stored EXCEPT ![d0] = With(t, list[t])]
        /\ list'[t] = Nil /\ stage'[t] = "idle"
    BY <1>0, <1>4, <2>1 DEF Write, Rest, TypeOK
  <2>3. With(t, list[t]) \in Dictionaries /\ With(t, list[t])[Key(t)] = list[t]
    BY <1>0, <1>1, <2>1, PlaceFacts DEF With, Dictionaries
  <2>4. stored'[d0] = With(t, list[t]) /\ stored'[d0] # Nil
    BY <1>0, <2>2, <2>3, NilFacts DEF TypeOK
  <2>5. appOf[t] \in App /\ d0 \in {appOf[t], Group}
    BY <1>0, <1>4, PlaceFacts DEF Where
  <2>6. \A b \in App : d0 \in {b, Group} => name[b] = Key(t)
    BY <1>5, <2>5 DEF Settled, Key
  <2>7. \A u \in Thread : Where(u)' = d0 => ~Makes(u)'
    BY <1>3, <1>4, <1>5, <2>2 DEF Settled, OnlyOf, Makes, Setting
  <2>8. Settled(d0)'
    BY <1>1, <1>5, <2>1, <2>3, <2>4, <2>6, <2>7, NilFacts DEF Settled
  <2>9. ListIn(d0)' = list[t]
    BY <1>1, <2>3, <2>4, <2>5, <2>8, EntryFactsNext DEF EntryIsListed, Key
  <2>10. Register!Write(t)
    BY <1>3, <1>4, <1>5, <2>1, <2>2, <2>8, <2>9, SettledStep DEF Register!Write, Setting
  <2>11. QED
    BY <2>10 DEF RegisterStep, Register!Next
<1>6. CASE ~Settled(d0)
  BY <1>3, <1>4, <1>6, UnsettledStep
<1>7. QED
  BY <1>5, <1>6

LEMMA LaunchedStep ==
  ASSUME StartInv, StartInv', NEW a \in App, Launched(a)
  PROVE  RegisterStep
<1> DEFINE threads == {t \in Thread : appOf[t] = a}
<1>0. TypeOK /\ TypeOK'
  BY DEF StartInv
<1>1. /\ UNCHANGED <<appOf, name, stored, stage, op>> /\ mode[a] = "starting"
      /\ \A t \in Thread : appOf[t] = a => op[t] # "launch"
      /\ list' = [t \in Thread |-> IF appOf[t] = a THEN Nil ELSE list[t]]
  BY DEF Launched, ForThreadsOf, bundleVars, storeVars
<1>2. \A b \in App : b # a => mode'[b] = mode[b]
  BY <1>0 DEF Launched, TypeOK
<1>3. \A t \in threads : ~Makes(t) /\ ~Makes(t)' /\ list'[t] = Nil
  BY <1>0, <1>1 DEF StartInv, Makes, TypeOK
<1>4. \A t \in Thread \ threads :
        list'[t] = list[t] /\ Where(t)' = Where(t) /\ (Makes(t)' <=> Makes(t))
  BY <1>0, <1>1, <1>2, PlaceFacts DEF Where, Makes, Setting
<1>5. \A d \in Defaults : (Settled(d)' <=> Settled(d)) /\ ListIn(d)' = ListIn(d)
  BY <1>1, <1>3, <1>4, PlaceStays
<1>6. OpenPlaces' = OpenPlaces /\ ListsThere' = ListsThere
  BY <1>5 DEF OpenPlaces, ListsThere
<1>7. PlaceOf' \in [Thread -> Defaults]
  BY <1>0 DEF PlaceOf, Where, Defaults, TypeOK
<1>8. \A t \in Thread \ threads : PlaceOf'[t] = PlaceOf[t] /\ Held'[t] = Held[t]
  <2>1. TAKE t \in Thread \ threads
  <2>2. PICK d \in Defaults : Where(t) = d /\ Where(t)' = d
    BY <1>0, <1>4, PlaceFacts
  <2>3. Held'[t] = Held[t]
    BY <1>4, <1>5, <2>2, HeldElsewhere
  <2>4. QED
    BY <2>2, <2>3 DEF PlaceOf
<1>9. \A t \in threads : Held'[t] = Nil
  BY <1>3 DEF Held
<1>10. Register!Move(threads)
  BY <1>6, <1>7, <1>8, <1>9 DEF Register!Move, Held
<1>11. QED
  BY <1>10 DEF RegisterStep, Register!Next

LEMMA EndStep ==
  ASSUME StartInv, StartInv', NEW a \in App, ProcessEnds(a)
  PROVE  RegisterStep
<1> DEFINE threads == {t \in Thread : appOf[t] = a}
<1> PICK d0 \in {a, Group} : d0 = IF mode[a] = "group" THEN Group ELSE a
  OBVIOUS
<1>0. TypeOK /\ TypeOK' /\ d0 \in Defaults
  BY DEF StartInv, Defaults
<1>1. /\ UNCHANGED <<appOf, name, stored>>
      /\ mode' = [mode EXCEPT ![a] = "off"]
      /\ stage' = [t \in Thread |-> IF appOf[t] = a THEN "idle" ELSE stage[t]]
      /\ list' = [t \in Thread |-> IF appOf[t] = a THEN Nil ELSE list[t]]
  BY DEF ProcessEnds, ForThreadsOf, bundleVars, storeVars
<1>2. \A b \in App : b # a => mode'[b] = mode[b]
  BY <1>0, <1>1 DEF TypeOK
<1>3. \A t \in threads : Where(t) = d0 /\ ~Makes(t)' /\ list'[t] = Nil
  BY <1>1 DEF Where, Makes
<1>4. \A t \in Thread \ threads :
        list'[t] = list[t] /\ Where(t)' = Where(t) /\ (Makes(t)' <=> Makes(t))
  BY <1>0, <1>1, <1>2, PlaceFacts DEF Where, Makes, Setting
<1>5. \A d \in Defaults \ {d0} : (Settled(d)' <=> Settled(d)) /\ ListIn(d)' = ListIn(d)
  BY <1>1, <1>3, <1>4, PlaceStays
<1>6. CASE Settled(d0)' <=> Settled(d0)
  <2>1. ListIn(d0)' = ListIn(d0)
    BY <1>1, <1>6 DEF ListIn
  <2>2. \A d \in Defaults : (Settled(d)' <=> Settled(d)) /\ ListIn(d)' = ListIn(d)
    BY <1>5, <1>6, <2>1
  <2>3. OpenPlaces' = OpenPlaces /\ ListsThere' = ListsThere
    BY <2>2 DEF OpenPlaces, ListsThere
  <2>4. PlaceOf' \in [Thread -> Defaults]
    BY <1>0 DEF PlaceOf, Where, Defaults, TypeOK
  <2>5. \A t \in Thread \ threads : PlaceOf'[t] = PlaceOf[t] /\ Held'[t] = Held[t]
    <3>1. TAKE t \in Thread \ threads
    <3>2. PICK d \in Defaults : Where(t) = d /\ Where(t)' = d
      BY <1>0, <1>4, PlaceFacts
    <3>3. Held'[t] = Held[t]
      BY <1>4, <2>2, <3>2, HeldElsewhere
    <3>4. QED
      BY <3>2, <3>3 DEF PlaceOf
  <2>6. \A t \in threads : Held'[t] = Nil
    BY <1>3 DEF Held
  <2>7. Register!Move(threads)
    BY <2>3, <2>4, <2>5, <2>6 DEF Register!Move, Held
  <2>8. QED
    BY <2>7 DEF RegisterStep, Register!Next
<1>7. CASE ~(Settled(d0)' <=> Settled(d0))
  <2>1. Settled(d0) => Settled(d0)'
    BY <1>1, <1>3, <1>4 DEF Settled
  <2>2. ~Settled(d0) /\ Settled(d0)'
    BY <1>7, <2>1
  <2>3. \A t \in Thread : Where(t) # d0 => Where(t)' = Where(t) /\ list'[t] = list[t]
    BY <1>3, <1>4
  <2>4. Register!Open(d0)
    BY <1>5, <2>2, <2>3, RegisterOpens
  <2>5. QED
    BY <1>0, <2>4 DEF RegisterStep, Register!Next
<1>8. QED
  BY <1>6, <1>7

LEMMA StepImplements == StartInv /\ StartInv' /\ [Next]_vars => RegisterStep
<1> SUFFICES ASSUME StartInv, StartInv', [Next]_vars PROVE RegisterStep
  OBVIOUS
<1>1. ASSUME NEW t \in Thread,
             \/ Launch(t) \/ ListAllClients(t) \/ LastUsedClient(t)
             \/ \E c \in Client : \/ CreateClient(t, c) \/ RemoveClient(t, c)
                                  \/ UpdateClient(t, c)
      PROVE  RegisterStep
  <2>0. PICK o \in Ops : \E c : Calls(t, o, c)
    BY <1>1
    DEF Launch, ListAllClients, LastUsedClient, CreateClient, RemoveClient,
        UpdateClient, Ops
  <2>1. PICK c : Calls(t, o, c)
    BY <2>0
  <2>2. \A u \in Thread : Where(u)' = Where(u)
    <3>1. appOf' = appOf
      BY <2>1 DEF Calls, bundleVars
    <3>2. \/ mode' = mode
          \/ mode[appOf[t]] = "off" /\ mode' = [mode EXCEPT ![appOf[t]] = "starting"]
      BY <1>1
      DEF Launch, ListAllClients, LastUsedClient, CreateClient, RemoveClient, UpdateClient
    <3>3. QED
      BY <3>1, <3>2, PlaceFacts DEF Where, StartInv, TypeOK
  <2>3. QED
    BY <2>1, <2>2, CallStep
<1>2. ASSUME UNCHANGED <<appOf, name, mode, stored, stage, list>> PROVE RegisterStep
  <2>1. \A d \in Defaults : (Settled(d)' <=> Settled(d)) /\ ListIn(d)' = ListIn(d)
    BY <1>2, PlaceStays DEF Where, Makes, Setting
  <2>2. \A t \in Thread : Where(t)' = Where(t)
    BY <1>2 DEF Where
  <2>3. OpenPlaces' = OpenPlaces /\ ListsThere' = ListsThere /\ PlaceOf' = PlaceOf
    BY <2>1, <2>2 DEF OpenPlaces, ListsThere, PlaceOf
  <2>4. ASSUME NEW t \in Thread PROVE Held'[t] = Held[t]
    <3>1. PICK d \in Defaults : Where(t) = d /\ Where(t)' = d
      BY <2>2, PlaceFacts DEF StartInv
    <3>2. QED
      BY <1>2, <2>1, <3>1, HeldElsewhere
  <2>5. QED
    BY <2>3, <2>4 DEF Held, RegisterStep
<1>3. CASE \E t \in Thread, c \in Client : PerformMethod(t, c)
  BY <1>2, <1>3 DEF PerformMethod, bundleVars, threadVars
<1>4. CASE UNCHANGED vars
  BY <1>2, <1>4 DEF vars, bundleVars, storeVars, threadVars
<1>5. QED
  BY <1>1, <1>3, <1>4, ReadStep, WriteEmptyStep, WriteStep, LaunchedStep, EndStep
  DEF Next, ThreadStep

LEMMA InitImplements == Init => Register!Init
<1> SUFFICES ASSUME Init PROVE Register!Init
  OBVIOUS
<1>1. \A d \in Defaults : ~Settled(d) /\ ListIn(d) = {}
  BY DEF Init, Settled, ListIn
<1>2. \A t \in Thread : Where(t) \in Defaults /\ list[t] = Nil
  BY TypeInit, PlaceFacts DEF Init
<1>3. QED
  BY <1>1, <1>2 DEF Register!Init, OpenPlaces, ListsThere, PlaceOf, Held

-----------------------------------------------------------------------------
(* The theorems.                                                           *)

\* The types hold in every state, and with them that a thread keeps a
\* dictionary and a client only while a method of it needs them.
THEOREM StoreTypeCorrect == Spec => []TypeOK
<1>1. TypeOK /\ [Next]_vars => TypeOK'
  BY TypeStep
<1>2. QED
  BY <1>1, TypeInit, PTL DEF Spec

\* No list gets a client of another name, in an app group either, however the
\* applications interleave or end (NSUserDefaults+MastodonKit.m 19-69).
THEOREM ListsStayOwn == Spec => []ListsAreOwn
<1>1. OwnInv => ListsAreOwn
  BY DEF OwnInv
<1>2. QED
  BY <1>1, OwnInit, OwnStep, PTL DEF Spec

\* lastUsedClient answers for a client that its application has used
\* (MastodonAPI.m 108-114).
THEOREM LastUsedStaysOwn == Spec => []LastUsedIsOwn
<1>1. LastInv => LastUsedIsOwn
  BY DEF LastInv
<1>2. QED
  BY <1>1, LastInit, LastStep, PTL DEF Spec

LEMMA StartHolds == Spec => []StartInv
BY StartInit, StartStep, PTL DEF Spec

\* An application that is launched has its list in the standard defaults
\* (MastodonAPI.m 43-64, NSUserDefaults+MastodonKit.m 31-38).
THEOREM LaunchesSettle == Spec => []LaunchSettles
BY StartHolds, SettledAtLaunch, PTL

\* A list that is there is read and written as if each were one step
\* (NSUserDefaults+MastodonKit.m 19-69).
THEOREM ImplementsListRegister == Spec => IsListRegister
<1>1. StartInv /\ StartInv' /\ [Next]_vars
        => [Register!Next]_<<OpenPlaces, ListsThere, PlaceOf, Held>>
  BY StepImplements DEF RegisterStep
<1>2. QED
  BY <1>1, InitImplements, StartHolds, PTL DEF Spec, IsListRegister, Register!Spec
=============================================================================
