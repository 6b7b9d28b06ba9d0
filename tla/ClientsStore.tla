---------------------------- MODULE ClientsStore ----------------------------
(***************************************************************************)
(* NSUserDefaults+MastodonKit: where MastodonClientManager keeps its list  *)
(* of clients.  The list is an entry, under the name of the application,   *)
(* of one dictionary, which is read and written as a whole: in the         *)
(* standard defaults of the application, or in those of an app group,      *)
(* which other applications write too.                                     *)
(*                                                                         *)
(* A list is the set of its clients' instances: what is saved of each is   *)
(* MastodonClientManager's.  NSUserDefaults is external: a value is read   *)
(* or set in one step, and every process sees it at once.                  *)
(***************************************************************************)
CONSTANTS
  App,      \* applications and extensions, each a bundle with its process
  Thread,   \* threads that call the framework
  Name,     \* values of MastodonKitApplicationName
  Client,   \* instance URLs
  Group,    \* the defaults of the app group
  Nil       \* nil

Lists == SUBSET Client
Dictionaries == [Name -> {Nil} \cup Lists]
Defaults == App \cup {Group}

ASSUME StoreAssumption ==
  /\ Group \notin App
  /\ Nil \notin Client
  /\ \A l \in Lists : l # Nil
  /\ \A dict \in Dictionaries : dict # Nil

VARIABLES
  appOf,     \* the process of each thread
  name,      \* MastodonKitApplicationName in the Info.plist of an application
  mode,      \* whether its manager is there, and has an appGroupIdentifier
  stored,    \* the dictionary under MastodonKitClientsKey
  lastUsed,  \* the value of MastodonKitLastUsedClientKey
  stage,     \* how far the getter or the setter of a thread is
  op,        \* the method the thread is in
  client,    \* and what it is about
  seen,      \* the dictionary it has read
  list,      \* what the getter answered, with the change the setter will write
  created,   \* the clients ever created under a name
  used       \* the clients an application ever fetched with

storeVars == <<stored, lastUsed>>
threadVars == <<stage, op, client, seen, list>>
historyVars == <<created, used>>
bundleVars == <<appOf, name>>
vars == <<bundleVars, mode, storeVars, threadVars, historyVars>>

Ops == {"none", "launch", "list", "create", "remove", "update", "last"}

TypeOK ==
  /\ appOf \in [Thread -> App]
  /\ name \in [App -> Name]
  /\ mode \in [App -> {"off", "starting", "plain", "group"}]
  /\ stored \in [Defaults -> {Nil} \cup Dictionaries]
  /\ lastUsed \in [Defaults -> {Nil} \cup Client]
  /\ stage \in [Thread -> {"idle", "read", "empty", "write"}]
  /\ op \in [Thread -> Ops]
  /\ client \in [Thread -> {Nil} \cup Client]
  /\ seen \in [Thread -> {Nil} \cup Dictionaries]
  /\ list \in [Thread -> {Nil} \cup Lists]
  /\ created \in [Name -> SUBSET Client]
  /\ used \in [App -> SUBSET Client]
  /\ \A t \in Thread : /\ seen[t] # Nil <=> stage[t] \in {"empty", "write"}
                       /\ op[t] = "none" <=> stage[t] = "idle"
                       /\ client[t] = Nil <=> op[t] \in {"none", "launch", "list"}

NoLists == [n \in Name |-> Nil]

Init ==
  /\ appOf \in [Thread -> App]
  /\ name \in [App -> Name]
  /\ mode = [a \in App |-> "off"]
  /\ stored = [d \in Defaults |-> Nil] /\ lastUsed = [d \in Defaults |-> Nil]
  /\ stage = [t \in Thread |-> "idle"] /\ op = [t \in Thread |-> "none"]
  /\ client = [t \in Thread |-> Nil] /\ seen = [t \in Thread |-> Nil]
  /\ list = [t \in Thread |-> Nil]
  /\ created = [n \in Name |-> {}] /\ used = [a \in App |-> {}]

-----------------------------------------------------------------------------
(* Where the list is.                                                      *)

\* appGroupUserDefault: the identifier is set when the launch has read its list.
Where(t) == IF mode[appOf[t]] = "group" THEN Group ELSE appOf[t]

Key(t) == name[appOf[t]]

\* The last used client is read from the defaults it is written to.
WhereLastUsed(t) == Where(t)

\* [NSUserDefaults standardUserDefaults]
Standard(t) == appOf[t]

-----------------------------------------------------------------------------
(* The methods that read the list.                                         *)

Calls(t, o, c) ==
  /\ stage[t] = "idle"
  /\ stage' = [stage EXCEPT ![t] = "read"]
  /\ op' = [op EXCEPT ![t] = o]
  /\ client' = [client EXCEPT ![t] = c]
  /\ list' = [list EXCEPT ![t] = Nil]
  /\ UNCHANGED <<bundleVars, storeVars, seen>>

ForThreadsOf(a, f, v) == [t \in Thread |-> IF appOf[t] = a THEN v ELSE f[t]]

\* The manager is kept before it is set up.
HasManagerSoon(t) == mode[appOf[t]] # "off"

HasManager(t) == mode[appOf[t]] \in {"plain", "group"}

\* initWithBlock: and its setUpAllClient.
Launch(t) ==
  /\ mode[appOf[t]] = "off"
  /\ mode' = [mode EXCEPT ![appOf[t]] = "starting"]
  /\ Calls(t, "launch", Nil)
  /\ UNCHANGED historyVars

\* The manager is kept, and told of the group if there is one.
Launched(a) ==
  /\ mode[a] = "starting"
  /\ \A t \in Thread : appOf[t] = a => op[t] # "launch"
  /\ \E m \in {"plain", "group"} : mode' = [mode EXCEPT ![a] = m]
  /\ list' = ForThreadsOf(a, list, Nil)
  /\ UNCHANGED <<bundleVars, storeVars, stage, op, client, seen, historyVars>>

ListAllClients(t) ==
  /\ HasManager(t)
  /\ Calls(t, "list", Nil)
  /\ UNCHANGED <<mode, historyVars>>

CreateClient(t, c) ==
  /\ HasManager(t)
  /\ Calls(t, "create", c)
  /\ created' = [created EXCEPT ![Key(t)] = @ \cup {c}]
  /\ UNCHANGED <<mode, used>>

RemoveClient(t, c) ==
  /\ HasManager(t) /\ c \in created[Key(t)]
  /\ Calls(t, "remove", c)
  /\ UNCHANGED <<mode, historyVars>>

UpdateClient(t, c) ==
  /\ HasManager(t) /\ c \in created[Key(t)]
  /\ Calls(t, "update", c)
  /\ UNCHANGED <<mode, historyVars>>

\* Without a URL there is nothing to look for.
LastUsedClient(t) ==
  /\ HasManager(t) /\ lastUsed[Standard(t)] # Nil
  /\ Calls(t, "last", lastUsed[Standard(t)])
  /\ UNCHANGED <<mode, historyVars>>

\* performMethod:... remembers the client.
PerformMethod(t, c) ==
  /\ HasManager(t) /\ stage[t] = "idle" /\ c \in created[Key(t)]
  /\ lastUsed' = [lastUsed EXCEPT ![Where(t)] = c]
  /\ used' = [used EXCEPT ![appOf[t]] = @ \cup {c}]
  /\ UNCHANGED <<bundleVars, mode, stored, threadVars, created>>

-----------------------------------------------------------------------------
(* clientsArrayWithApplicationName:... and setClientsArray:...             *)

\* What a method does with the list it is given.
Changed(t, l) ==
  CASE op[t] = "create" -> l \cup {client[t]}
    [] op[t] = "remove" -> l \ {client[t]}
    [] OTHER -> l

\* containsObject:
Writes(t, l) ==
  \/ op[t] = "create" /\ client[t] \notin l
  \/ op[t] \in {"remove", "update"} /\ client[t] \in l

Rest(t) ==
  /\ stage' = [stage EXCEPT ![t] = "idle"]
  /\ op' = [op EXCEPT ![t] = "none"]
  /\ client' = [client EXCEPT ![t] = Nil]

\* The getter answers l: the setter begins, or the method is over.
Answers(t, l) ==
  /\ list' = [list EXCEPT ![t] = Changed(t, l)]
  /\ seen' = [seen EXCEPT ![t] = Nil]
  /\ \/ /\ Writes(t, l)
        /\ stage' = [stage EXCEPT ![t] = "read"]
        /\ UNCHANGED <<op, client>>
     \/ ~Writes(t, l) /\ Rest(t)

Setting(t) == list[t] # Nil

\* An empty list is taken for one that is not there.
NotThereOrEmpty(t, dict) == dict[Key(t)] \in {Nil, {}}

NotThere(t, dict) == dict[Key(t)] = Nil

\* Both read the dictionary; the getter may have nothing to write.
Read(t) ==
  LET dict == stored[Where(t)]
  IN
  /\ stage[t] = "read"
  /\ \/ /\ dict = Nil
        /\ seen' = [seen EXCEPT ![t] = NoLists]
        /\ stage' = [stage EXCEPT ![t] = "empty"]
        /\ UNCHANGED <<op, client, list>>
     \/ /\ dict # Nil /\ (Setting(t) \/ NotThere(t, dict))
        /\ seen' = [seen EXCEPT ![t] = dict]
        /\ stage' = [stage EXCEPT ![t] = "write"]
        /\ UNCHANGED <<op, client, list>>
     \/ /\ dict # Nil /\ ~Setting(t) /\ ~NotThere(t, dict)
        /\ Answers(t, dict[Key(t)])
  /\ UNCHANGED <<bundleVars, mode, storeVars, historyVars>>

\* The getter is over then.
WriteEmptyOnly(t) ==
  /\ stage[t] = "empty"
  /\ stored' = [stored EXCEPT ![Where(t)] = seen[t]]
  /\ stage' = [stage EXCEPT ![t] = "idle"]
  /\ UNCHANGED <<bundleVars, mode, lastUsed, op, client, seen, list, historyVars>>

\* The empty dictionary, where there was none.
WriteEmpty(t) ==
  /\ stage[t] = "empty"
  /\ stored' = [stored EXCEPT ![Where(t)] = seen[t]]
  /\ stage' = [stage EXCEPT ![t] = "write"]
  /\ UNCHANGED <<bundleVars, mode, lastUsed, op, client, seen, list, historyVars>>

\* Every application's list is the one that is set.
EveryWith(t, l) == [n \in Name |-> l]

\* initWithDictionary: and setObject:forKey:
With(t, l) == [seen[t] EXCEPT ![Key(t)] = l]

\* The dictionary with the list that is set, or an empty one for the getter.
Write(t) ==
  /\ stage[t] = "write"
  /\ \/ /\ Setting(t)
        /\ stored' = [stored EXCEPT ![Where(t)] = With(t, list[t])]
        /\ list' = [list EXCEPT ![t] = Nil]
        /\ seen' = [seen EXCEPT ![t] = Nil]
        /\ Rest(t)
     \/ /\ ~Setting(t)
        /\ stored' = [stored EXCEPT ![Where(t)] = With(t, {})]
        /\ Answers(t, {})
  /\ UNCHANGED <<bundleVars, mode, lastUsed, historyVars>>

-----------------------------------------------------------------------------

\* At any moment.
ProcessEnds(a) ==
  /\ mode[a] # "off"
  /\ mode' = [mode EXCEPT ![a] = "off"]
  /\ stage' = ForThreadsOf(a, stage, "idle")
  /\ op' = ForThreadsOf(a, op, "none")
  /\ client' = ForThreadsOf(a, client, Nil)
  /\ seen' = ForThreadsOf(a, seen, Nil)
  /\ list' = ForThreadsOf(a, list, Nil)
  /\ UNCHANGED <<bundleVars, storeVars, historyVars>>

ThreadStep(t) ==
  \/ Launch(t)
  \/ ListAllClients(t) \/ LastUsedClient(t)
  \/ \E c \in Client : CreateClient(t, c) \/ RemoveClient(t, c)
                         \/ UpdateClient(t, c) \/ PerformMethod(t, c)
  \/ Read(t) \/ WriteEmpty(t) \/ Write(t)

Next ==
  \/ \E t \in Thread : ThreadStep(t)
  \/ \E a \in App : Launched(a) \/ ProcessEnds(a)

Spec == Init /\ [][Next]_vars

-----------------------------------------------------------------------------
(* Properties.                                                             *)

\* An application's updates may be lost in an app group, where every other one
\* writes its list as it has read it, but no list gets a client of another
\* name: what is stored under a name, and what a thread reads or is about to
\* write there, was created under that name (NSUserDefaults+MastodonKit.m
\* 19-69).
ListsAreOwn ==
  /\ \A d \in Defaults, n \in Name :
       stored[d] # Nil /\ stored[d][n] # Nil => stored[d][n] \subseteq created[n]
  /\ \A t \in Thread : list[t] # Nil => list[t] \subseteq created[Key(t)]

\* lastUsedClient looks for a client that this application has fetched with.
\* performMethod: writes the defaults of the group, which hold what any
\* application of it used last; that they are not read there is what keeps the
\* applications apart (MastodonAPI.m 108-114, MastodonClientManager.m 2376).
LastUsedIsOwn ==
  \A t \in Thread : op[t] = "last" => client[t] \in used[appOf[t]]

-----------------------------------------------------------------------------
(* The register that MastodonClientManager takes the list for.             *)

\* A getter that found no list, and is about to write an empty one.
Makes(t) == ~Setting(t) /\ stage[t] \in {"empty", "write"}

\* A list that the applications of d, all of one name, have made: nobody is
\* about to make it again.
Settled(d) ==
  /\ d = Group => \A a, b \in App : name[a] = name[b]
  /\ stored[d] # Nil
  /\ \A a \in App : d \in {a, Group} => stored[d][name[a]] # Nil
  /\ \A t \in Thread : Where(t) = d => ~Makes(t)

\* A launch makes the list in the standard defaults, before a second thread can
\* come upon its absence: from then on that list is never an empty one for want
\* of another, whether the manager uses it or that of a group (MastodonAPI.m
\* 43-64, NSUserDefaults+MastodonKit.m 31-38).
LaunchSettles == \A a \in App : mode[a] \in {"plain", "group"} => Settled(a)

ListIn(d) ==
  IF Settled(d) THEN stored[d][name[IF d = Group THEN CHOOSE a \in App : TRUE ELSE d]]
  ELSE {}

OpenPlaces == {d \in Defaults : Settled(d)}
ListsThere == [d \in Defaults |-> ListIn(d)]
PlaceOf == [t \in Thread |-> Where(t)]
Held == [t \in Thread |-> IF Settled(Where(t)) THEN list[t] ELSE Nil]

Register == INSTANCE ListRegister WITH
  Place <- Defaults, open <- OpenPlaces, lists <- ListsThere, at <- PlaceOf,
  held <- Held

\* Once it is made, the list of an application launched without a group, and
\* that of a group whose members have one name, is read and written in one step
\* each, by whatever threads and processes, although each of these steps is
\* several of NSUserDefaults (NSUserDefaults+MastodonKit.m 19-69).
IsListRegister == Register!Spec
=============================================================================
