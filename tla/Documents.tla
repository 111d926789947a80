----------------------------- MODULE Documents -----------------------------
(***************************************************************************)
(* Documents as clients and the agent watcher see them: the service's      *)
(* document and typed-collection calls (service.rs) over a store that      *)
(* seals documents when a key is configured (node.rs, crypto.rs), the      *)
(* watcher that copies a remote agent's state into the store (watcher.rs), *)
(* and the collection configurations with their file (node.rs).  A restart *)
(* may come at any time and may bring another key.                         *)
(***************************************************************************)
EXTENDS Integers, FiniteSets

CONSTANTS
  Ids, Agent,   \* ids of typed documents; the watched agent's is one of them
  Packages,     \* names of the agent's packages
  Agents,       \* kinds of agents, by the polls that they answer
  Keys,         \* encryption keys an operator may configure
  Colls,        \* collections with a lifecycle configuration
  MaxEvents     \* bound: calls, changes, faults and restarts together

ASSUME SomeKey == Keys # {}

VARIABLES
  cipher,     \* the configured key, or "none"
  docs,       \* the store
  call,       \* a GetNodes, GetCells, GetTracks or GetCommands under way, or its answer
  steady,     \* documents no one has written since that call began
  agent,      \* per list, the agent's packages with their versions
  serves,     \* the calls that this agent answers
  round, todo, \* where the watcher is, and what is left of the list it fetched
  configs,    \* collection_configs in memory
  file,       \* collection_configs.json
  acked,      \* per collection, what may come back after a restart
  writing,    \* set_collection_config is between truncating and writing
  events

client == <<call, steady>>
watcher == <<round, todo>>
settings == <<configs, file, acked, writing>>
serviceVars == <<cipher, docs, client, agent, serves, watcher, settings, events>>

Lists == {"deployments", "packages"}
Typed == {"nodes"} \X Ids   \* for cells, tracks and commands, too
All == Typed \cup (Lists \X Packages)

\* A required text or integer, a required float and an optional: the sorts of fields
\* that the conversions tell apart.
Messages == {[name |-> "x", real |-> "1", opt |-> "u"], [name |-> "x", real |-> "nan", opt |-> "none"]}
AgentMap == [name |-> "missing", real |-> "missing", opt |-> "missing"]
OtherMap == [name |-> "y", real |-> "missing", opt |-> "u"]
Versions == 1..2
NoDocument == [seal |-> "none", body |-> <<>>]

\* An earlier run of the node, with whatever key, may have left a document behind.
ServiceInit ==
  /\ cipher \in {"none"} \cup Keys
  /\ docs \in {[d \in All |-> IF d \in old THEN [seal |-> key, body |-> <<OtherMap>>] ELSE NoDocument] :
                old \in {{}, {CHOOSE d \in Typed : TRUE}}, key \in {CHOOSE k \in Keys : TRUE}}
  /\ call = [at |-> "idle"] /\ steady = {}
  /\ agent = [l \in Lists |-> [p \in Packages |-> 0]] /\ serves \in Agents
  /\ round = <<"tick", "wait">> /\ todo = {}
  /\ configs = [c \in Colls |-> 0] /\ file = configs /\ acked = [c \in Colls |-> {0}]
  /\ writing = {} /\ events = 0

Event == events < MaxEvents /\ events' = events + 1

--------------------------------------------------------------------------
\* A float that JSON cannot hold becomes null, and so does an optional that is not set.
ToMap(m) ==
  [name |-> m.name, real |-> IF m.real = "nan" THEN "null" ELSE m.real,
   opt |-> IF m.opt = "none" THEN "null" ELSE m.opt]

\* What is missing or null gets its default.
FromMap(f) ==
  [name |-> IF f.name = "missing" THEN "" ELSE f.name,
   real |-> IF f.real \in {"missing", "null"} THEN "0" ELSE f.real,
   opt |-> IF f.opt \in {"missing", "null"} THEN "none" ELSE f.opt]

\* With the configured key, if there is one.
Encrypt(body) == [seal |-> cipher, body |-> <<body>>]

\* write_document
Write(d, body) ==
  /\ docs' = [docs EXCEPT ![d] = Encrypt(body)]
  /\ steady' = steady \ {d}

Decrypt(seal) == IF seal = cipher THEN "map" ELSE "error"

\* Wrong on purpose: with a key configured, whatever is not sealed with it is an error.
MaybeDecryptAlways(seal) == Decrypt(seal)

\* Plain documents are read as they are; without a key ciphertext is, too, and that is
\* no map.
MaybeDecrypt(seal) ==
  IF seal = "none" THEN "map" ELSE IF cipher = "none" THEN "ciphertext" ELSE Decrypt(seal)

\* get_document
Open(d) == MaybeDecrypt(docs[d].seal)

PutDocument ==
  /\ Event
  /\ \E d \in Typed : Write(d, OtherMap)
  /\ UNCHANGED <<cipher, call, agent, serves, watcher, settings>>

PutTyped ==
  /\ Event
  /\ \E d \in Typed, m \in Messages : Write(d, ToMap(m))
  /\ UNCHANGED <<cipher, call, agent, serves, watcher, settings>>

DeleteDocument ==
  /\ Event
  /\ \E d \in All : /\ docs[d] # NoDocument /\ docs' = [docs EXCEPT ![d] = NoDocument]
                    /\ steady' = steady \ {d}
  /\ UNCHANGED <<cipher, call, agent, serves, watcher, settings>>

ListDocuments == {d \in Typed : docs[d] # NoDocument}

\* get_nodes and its like: list the ids, ...
GetTyped ==
  /\ Event /\ call.at # "reading"
  /\ call' = [at |-> "reading", left |-> ListDocuments, listed |-> ListDocuments, got |-> {}]
  /\ steady' = Typed
  /\ UNCHANGED <<cipher, docs, agent, serves, watcher, settings>>

\* ... then read one after the other, leave out what has gone or is no map, and give
\* up at the first one that does not open.
GetTypedNext ==
  /\ call.at = "reading"
  /\ IF call.left = {} THEN call' = [call EXCEPT !.at = "ok"]
     ELSE \E d \in call.left :
       LET rest == [call EXCEPT !.left = @ \ {d}] IN
       call' = IF docs[d] = NoDocument \/ Open(d) = "ciphertext" THEN rest
               ELSE IF Open(d) = "error" THEN [rest EXCEPT !.at = "failed"]
               ELSE [rest EXCEPT !.got = @ \cup {<<d, FromMap(docs[d].body[1])>>}]
  /\ UNCHANGED <<cipher, docs, steady, agent, serves, watcher, settings, events>>

--------------------------------------------------------------------------
\* The remote agent deploys, upgrades, pulls or removes a package.
AgentChanges ==
  /\ Event
  /\ \E l \in Lists, p \in Packages, v \in {0} \cup Versions :
       agent[l][p] # v /\ agent' = [agent EXCEPT ![l][p] = v]
  /\ UNCHANGED <<cipher, docs, client, serves, watcher, settings>>

Tick ==
  /\ round = <<"tick", "wait">> /\ round' = <<"status", "fetch">>
  /\ UNCHANGED <<cipher, docs, client, agent, serves, todo, settings, events>>

\* Wrong on purpose: an agent without /status ends the round.
PollStatusFirst ==
  /\ round = <<"status", "fetch">>
  /\ \/ "status" \in serves /\ Write(<<"nodes", Agent>>, AgentMap) /\ round' = <<"deployments", "fetch">> /\ UNCHANGED events
     \/ "status" \notin serves /\ round' = <<"tick", "wait">> /\ UNCHANGED <<docs, steady, events>>
  /\ UNCHANGED <<cipher, call, agent, serves, todo, settings>>

\* poll_status: a failure is logged, and the round goes on.
PollStatus ==
  /\ round = <<"status", "fetch">> /\ round' = <<"deployments", "fetch">>
  /\ \/ "status" \in serves /\ Write(<<"nodes", Agent>>, AgentMap) /\ UNCHANGED events
     \/ "status" \notin serves /\ UNCHANGED <<docs, steady, events>>
     \/ "status" \in serves /\ Event /\ UNCHANGED <<docs, steady>>
  /\ UNCHANGED <<cipher, call, agent, serves, todo, settings>>

NextRound(l) == IF l = "deployments" THEN <<"packages", "fetch">> ELSE <<"tick", "wait">>

\* poll_packages and poll_pulled_packages: the list, as it is at this moment, ...
Fetch(l) ==
  /\ round = <<l, "fetch">>
  /\ \/ /\ l \in serves /\ todo' = {<<p, agent[l][p]>> : p \in {q \in Packages : agent[l][q] # 0}}
        /\ round' = <<l, "put">> /\ UNCHANGED events
     \/ /\ l \notin serves /\ round' = NextRound(l) /\ UNCHANGED <<todo, events>>
     \/ /\ l \in serves /\ Event /\ round' = NextRound(l) /\ UNCHANGED todo
  /\ UNCHANGED <<cipher, docs, client, agent, serves, settings>>

\* ... then one put for each entry, until one fails.
PutFetched(l) ==
  /\ round = <<l, "put">>
  /\ IF todo = {} THEN round' = NextRound(l) /\ UNCHANGED <<docs, steady, todo, events>>
     ELSE \/ /\ \E e \in todo : Write(<<l, e[1]>>, e[2]) /\ todo' = todo \ {e}
             /\ UNCHANGED <<round, events>>
          \/ Event /\ todo' = {} /\ round' = NextRound(l) /\ UNCHANGED <<docs, steady>>
  /\ UNCHANGED <<cipher, call, agent, serves, settings>>

Watch == Tick \/ PollStatus \/ \E l \in Lists : Fetch(l) \/ PutFetched(l)

--------------------------------------------------------------------------
\* proto_config_to_entry: an unknown policy is the default one.
Policy(n) == IF n \in 2..4 THEN n ELSE 1
Torn == [c \in Colls |-> -1]

\* set_collection_config, under the write lock: into memory, then fs::write, which may
\* fail before it has truncated the file ...
SetConfig ==
  /\ Event /\ writing = {}
  /\ \E c \in Colls, n \in {0, 2} :
       /\ configs' = [configs EXCEPT ![c] = Policy(n)]
       /\ acked' = [acked EXCEPT ![c] = @ \cup {Policy(n)}]
       /\ \/ writing' = {c} /\ file' = Torn
          \/ UNCHANGED <<writing, file>>
  /\ UNCHANGED <<cipher, docs, client, agent, serves, watcher>>

\* Wrong on purpose: the entry alone replaces the file.
WriteConfigEntry ==
  /\ writing # {} /\ writing' = {}
  /\ file' = [c \in Colls |-> IF c \in writing THEN configs[c] ELSE 0]
  /\ acked' = [c \in Colls |-> IF c \in writing THEN {configs[c]} ELSE acked[c]] /\ UNCHANGED events
  /\ UNCHANGED <<cipher, docs, client, agent, serves, watcher, configs>>

\* ... or after.
WriteConfig ==
  /\ writing # {} /\ writing' = {}
  /\ \/ /\ file' = configs /\ UNCHANGED events
        /\ acked' = [c \in Colls |-> IF c \in writing THEN {configs[c]} ELSE acked[c]]
     \/ Event /\ UNCHANGED <<file, acked>>
  /\ UNCHANGED <<cipher, docs, client, agent, serves, watcher, configs>>

\* Wrong on purpose: what a half-written file holds is taken for configurations.
LoadUnchecked == file

\* The start reads the file, or goes without if it cannot be parsed.
Load == IF file = Torn THEN [c \in Colls |-> 0] ELSE file

\* A crash or a stop, and a start, perhaps with another key.
Restart ==
  /\ Event /\ cipher' \in {"none"} \cup Keys
  /\ call' = [at |-> "idle"] /\ steady' = {} /\ round' = <<"tick", "wait">> /\ todo' = {} /\ writing' = {}
  /\ configs' = Load
  /\ acked' = [c \in Colls |-> {configs'[c]}]
  /\ UNCHANGED <<docs, agent, serves, file>>

--------------------------------------------------------------------------
ServiceNext == \/ PutDocument \/ PutTyped \/ DeleteDocument \/ GetTyped \/ GetTypedNext
        \/ AgentChanges \/ Watch \/ SetConfig \/ WriteConfig \/ Restart

ServiceSpec == ServiceInit /\ [][ServiceNext]_serviceVars

--------------------------------------------------------------------------
\* Documents, calls, the watcher and the configurations keep to their types.
ServiceTyped ==
  /\ cipher \in {"none"} \cup Keys
  /\ \A d \in All : docs[d] = NoDocument \/ docs[d].seal \in {"none"} \cup Keys
  /\ call.at \in {"idle", "reading", "ok", "failed"} /\ steady \subseteq Typed
  /\ round \in {<<"tick", "wait">>, <<"status", "fetch">>} \cup (Lists \X {"fetch", "put"})
  /\ configs \in [Colls -> 0..4] /\ file \in [Colls -> -1..4]

\* GetNodes and its like, running among writes and deletions: a document that no one
\* touched during the call and that this node can open is in the answer, as the values
\* last written; one it has no key for is left out; and the call fails only for a
\* document that is sealed with another key than the configured one (service.rs,
\* get_nodes; node.rs, get_document, "two doc shapes co-exist").
AnswerIsExact ==
  /\ call.at = "ok" => \A d \in call.listed \cap steady :
       {e \in call.got : e[1] = d} =
         IF docs[d].seal \in {"none", cipher} THEN {<<d, FromMap(docs[d].body[1])>>} ELSE {}
  /\ call.at = "failed" => cipher # "none" /\
       (call.listed \subseteq steady => \E d \in call.listed : docs[d].seal \notin {"none", cipher})

\* After a restart every collection has the configuration of its last acknowledged
\* SetCollectionConfig or of a later one that failed, unless the restart found the file
\* half written (node.rs, set_collection_config).
ConfigsSurvive == file # Torn => \A c \in Colls : file[c] \in acked[c]

\* GetNodes and its like answer exactly, among writes and with any key, and after a
\* restart the collection configurations are the acknowledged ones (service.rs,
\* get_nodes; node.rs, set_collection_config).
ServiceIsSound == ServiceTyped /\ AnswerIsExact /\ ConfigsSurvive

\* Whatever the agent has deployed or pulled is in the store in the end, readable with
\* the key then configured, if the agent serves that list: not even an agent that never
\* answers another poll stops it (watcher.rs, run).
Mirrored ==
  \A l \in Lists, p \in Packages :
    <>[](l \in serves /\ agent[l][p] # 0 =>
           docs[<<l, p>>].body = <<agent[l][p]>> /\ Open(<<l, p>>) = "map")
=============================================================================
