----------------------------- MODULE DataProofs -----------------------------
(***************************************************************************)
(* Proofs about what the node keeps and tells of it.                       *)
(***************************************************************************)
EXTENDS Changes, Documents, TLAPS

-----------------------------------------------------------------------------
(***************************************************************************)
(* Documents.  A GetNodes under way has, for every document that was       *)
(* listed and that no one has touched since, either still to read it or    *)
(* its exact entry; and what the configuration file holds is among what    *)
(* may come back.                                                          *)
(***************************************************************************)
Opens(d) == docs[d].seal \in {"none", cipher}
Exact(d) == IF Opens(d) THEN {<<d, FromMap(docs[d].body[1])>>} ELSE {}
Told(d) == {e \in call.got : e[1] = d}

CallInv ==
  \/ call = [at |-> "idle"]
  \/ /\ call = [at |-> call.at, left |-> call.left, listed |-> call.listed, got |-> call.got]
     /\ call.at \in {"reading", "ok", "failed"}
     /\ call.left \subseteq call.listed /\ call.listed \subseteq Typed
     /\ \A d \in call.listed \cap steady : docs[d] # NoDocument
     /\ call.at \in {"reading", "ok"} => \A d \in call.listed \cap steady :
          Told(d) = IF d \in call.left THEN {} ELSE Exact(d)
     /\ call.at = "ok" => call.left = {}
     /\ call.at = "failed" =>
          cipher # "none" /\ (call.listed \subseteq steady => \E d \in call.listed : ~Opens(d))

ConfigInv ==
  /\ file = Torn \/ file \in [Colls -> 0..4]
  /\ DOMAIN acked = Colls /\ \A c \in Colls : configs[c] \in acked[c]

ServiceInv == ServiceTyped /\ DOMAIN docs = All /\ CallInv /\ ConfigsSurvive /\ ConfigInv

LEMMA ServiceStarts == ServiceInit => ServiceInv
<1> SUFFICES ASSUME ServiceInit PROVE ServiceInv
  BY Zenon
<1> USE DEF ServiceInit
<1>1. DOMAIN docs = All /\ \A d \in All : docs[d] = NoDocument \/ docs[d].seal \in {"none"} \cup Keys
  <2>1. (CHOOSE k \in Keys : TRUE) \in Keys
    BY Zenon, SomeKey
  <2>2. PICK old \in {{}, {CHOOSE d \in Typed : TRUE}}, key \in {CHOOSE k \in Keys : TRUE} :
          docs = [d \in All |-> IF d \in old THEN [seal |-> key, body |-> <<OtherMap>>] ELSE NoDocument]
    OBVIOUS
  <2> QED BY Zenon, <2>1, <2>2
<1>2. configs \in [Colls -> 0..4] /\ file \in [Colls -> -1..4] /\ file \in [Colls -> 0..4]
  OBVIOUS
<1>3. call.at = "idle"
  BY Zenon
<1>4. ServiceTyped
  BY <1>1, <1>2, <1>3 DEF ServiceTyped
<1>5. ConfigInv /\ ConfigsSurvive
  BY Zenon, <1>2 DEF ConfigInv, ConfigsSurvive
<1> QED BY Zenon, <1>1, <1>4, <1>5 DEF ServiceInv, CallInv

\* A write or a deletion changes one document, which is no longer steady.
LEMMA TouchKeepsCall ==
  ASSUME CallInv, NEW d, NEW body, docs' = [docs EXCEPT ![d] = body], steady' = steady \ {d},
         UNCHANGED <<cipher, call>>
  PROVE  CallInv'
<1>1. CASE call = [at |-> "idle"]
  BY Zenon, <1>1 DEF CallInv
<1>2. CASE call # [at |-> "idle"]
  <2>1. \A x \in call.listed \cap steady' :
          docs'[x] = docs[x] /\ x \in steady /\ Exact(x)' = Exact(x) /\ Told(x)' = Told(x)
    BY DEF Exact, Told, Opens
  <2>2. call.listed \subseteq steady' => call.listed \subseteq steady /\ d \notin call.listed
    BY Zenon
  <2>3. \A x : x # d => (Opens(x)' <=> Opens(x))
    BY DEF Opens
  <2> QED BY <1>2, <2>1, <2>2, <2>3 DEF CallInv
<1> QED BY Zenon, <1>1, <1>2

LEMMA ReadKeepsCall ==
  ASSUME CallInv, GetTypedNext PROVE CallInv'
<1>1. /\ call.at = "reading" /\ UNCHANGED <<cipher, docs, steady>>
      /\ call = [at |-> "reading", left |-> call.left, listed |-> call.listed, got |-> call.got]
  <2>1. call.at = "reading" /\ UNCHANGED <<cipher, docs, steady>>
    BY Zenon DEF GetTypedNext
  <2>2. call # [at |-> "idle"]
    BY <2>1
  <2> QED BY Zenon, <2>1, <2>2 DEF CallInv
<1>2. \A d : Exact(d)' = Exact(d) /\ (Opens(d)' <=> Opens(d))
  BY Zenon, <1>1 DEF Exact, Opens
<1>3. CASE call.left = {}
  <2>1. call' = [at |-> "ok", left |-> call.left, listed |-> call.listed, got |-> call.got]
    BY Zenon, <1>1, <1>3 DEF GetTypedNext
  <2> QED BY <1>1, <1>2, <1>3, <2>1 DEF CallInv, Told
<1>4. ASSUME NEW d \in call.left,
             docs[d] = NoDocument \/ Open(d) = "ciphertext",
             call' = [at |-> "reading", left |-> call.left \ {d}, listed |-> call.listed, got |-> call.got]
      PROVE  CallInv'
  <2>1. d \in steady => Exact(d) = {}
    BY <1>1, <1>4 DEF CallInv, Exact, Opens, Open, MaybeDecrypt, Decrypt
  <2> QED BY <1>1, <1>2, <1>4, <2>1 DEF CallInv, Told
<1>5. ASSUME NEW d \in call.left, docs[d] # NoDocument, Open(d) = "error",
             call' = [at |-> "failed", left |-> call.left \ {d}, listed |-> call.listed, got |-> call.got]
      PROVE  CallInv'
  <2>1. cipher # "none" /\ ~Opens(d)
    BY Zenon, <1>5 DEF Opens, Open, MaybeDecrypt, Decrypt
  <2> QED BY <1>1, <1>2, <1>5, <2>1 DEF CallInv
<1>6. ASSUME NEW d \in call.left, Open(d) \notin {"ciphertext", "error"},
             call' = [at |-> "reading", left |-> call.left \ {d}, listed |-> call.listed,
                      got |-> call.got \cup {<<d, FromMap(docs[d].body[1])>>}]
      PROVE  CallInv'
  <2>1. Exact(d) = {<<d, FromMap(docs[d].body[1])>>}
    BY Zenon, <1>6 DEF Exact, Opens, Open, MaybeDecrypt, Decrypt
  <2>2. Told(d)' = Told(d) \cup {<<d, FromMap(docs[d].body[1])>>}
    BY <1>6 DEF Told
  <2>3. \A x : x # d => Told(x)' = Told(x)
    BY <1>6 DEF Told
  <2> QED BY SMTT(60), <1>1, <1>2, <1>6, <2>1, <2>2, <2>3 DEF CallInv
<1>7. CASE call.left # {}
  <2>1. PICK d \in call.left :
          LET rest == [call EXCEPT !.left = @ \ {d}] IN
          call' = IF docs[d] = NoDocument \/ Open(d) = "ciphertext" THEN rest
               ELSE IF Open(d) = "error" THEN [rest EXCEPT !.at = "failed"]
               ELSE [rest EXCEPT !.got = @ \cup {<<d, FromMap(docs[d].body[1])>>}]
    BY Zenon, <1>7 DEF GetTypedNext
  <2> DEFINE rest == [call EXCEPT !.left = @ \ {d}]
  <2>2. rest = [at |-> "reading", left |-> call.left \ {d}, listed |-> call.listed, got |-> call.got]
    BY <1>1
  <2>3. CASE docs[d] = NoDocument \/ Open(d) = "ciphertext"
    BY Zenon, <1>4, <2>1, <2>2, <2>3
  <2>4. CASE docs[d] # NoDocument /\ Open(d) = "error"
    <3>1. call' = [rest EXCEPT !.at = "failed"]
      BY Zenon, <2>1, <2>4
    <3>2. call' = [at |-> "failed", left |-> call.left \ {d}, listed |-> call.listed, got |-> call.got]
      BY Zenon, <2>2, <3>1
    <3> QED BY Zenon, <1>5, <2>4, <3>2
  <2>5. CASE docs[d] # NoDocument /\ Open(d) \notin {"ciphertext", "error"}
    <3>1. call' = [rest EXCEPT !.got = @ \cup {<<d, FromMap(docs[d].body[1])>>}]
      BY Zenon, <2>1, <2>5
    <3>2. call' = [at |-> "reading", left |-> call.left \ {d}, listed |-> call.listed,
                      got |-> call.got \cup {<<d, FromMap(docs[d].body[1])>>}]
      BY Zenon, <2>2, <3>1
    <3> QED BY Zenon, <1>6, <2>5, <3>2
  <2> QED BY Zenon, <2>3, <2>4, <2>5
<1> QED BY Zenon, <1>3, <1>7

LEMMA CallStep == ASSUME ServiceInv, [ServiceNext]_serviceVars PROVE CallInv'
<1> USE DEF ServiceInv
<1>1. ASSUME UNCHANGED <<cipher, docs, call, steady>> PROVE CallInv'
  BY Zenon, <1>1 DEF CallInv, Told, Exact, Opens
<1>2. CASE PutDocument \/ PutTyped \/ DeleteDocument
  BY Zenon, <1>2, TouchKeepsCall
     DEF PutDocument, PutTyped, DeleteDocument, Write
<1>3. CASE GetTyped
  <2>1. /\ UNCHANGED <<cipher, docs>> /\ steady' = Typed
        /\ call' = [at |-> "reading", left |-> ListDocuments,
                    listed |-> ListDocuments, got |-> {}]
    BY Zenon, <1>3 DEF GetTyped
  <2>2. \A d : Told(d)' = {}
    BY Zenon, <2>1 DEF Told
  <2> QED BY Zenon, <2>1, <2>2 DEF CallInv, ListDocuments
<1>4. CASE GetTypedNext
  BY Zenon, <1>4, ReadKeepsCall
<1>5. CASE AgentChanges \/ Tick \/ SetConfig \/ WriteConfig
  BY Zenon, <1>1, <1>5 DEF AgentChanges, Tick, SetConfig, WriteConfig,
     client
<1>6. CASE PollStatus
  BY Zenon, <1>1, <1>6, TouchKeepsCall DEF PollStatus, Write
<1>7. CASE \E l \in Lists : Fetch(l) \/ PutFetched(l)
  BY Zenon, <1>1, <1>7, TouchKeepsCall DEF Fetch, PutFetched, Write, client
<1>8. CASE Restart
  BY Zenon, <1>8 DEF Restart, CallInv
<1>9. CASE UNCHANGED serviceVars
  BY Zenon, <1>1, <1>9 DEF serviceVars, client
<1> QED BY Zenon, <1>2, <1>3, <1>4, <1>5, <1>6, <1>7, <1>8, <1>9 DEF ServiceNext, Watch

LEMMA ServiceStaysTyped ==
  ASSUME ServiceInv, [ServiceNext]_serviceVars
  PROVE  /\ cipher' \in {"none"} \cup Keys /\ DOMAIN docs' = All /\ steady' \subseteq Typed
         /\ \A d \in All : docs'[d] = NoDocument \/ docs'[d].seal \in {"none"} \cup Keys
         /\ round' \in {<<"tick", "wait">>, <<"status", "fetch">>} \cup (Lists \X {"fetch", "put"})
<1> USE DEF ServiceInv, ServiceTyped
<1>1. ASSUME NEW d, NEW body, Write(d, body)
      PROVE  /\ DOMAIN docs' = All /\ steady' \subseteq Typed
             /\ \A x \in All : docs'[x] = NoDocument \/ docs'[x].seal \in {"none"} \cup Keys
  BY Zenon, <1>1 DEF Write, Encrypt
<1>2. CASE PutDocument \/ PutTyped \/ DeleteDocument \/ GetTyped \/ GetTypedNext
  BY Zenon, <1>1, <1>2 DEF PutDocument, PutTyped, DeleteDocument, GetTyped,
     GetTypedNext, watcher
<1>3. CASE AgentChanges \/ Tick \/ SetConfig \/ WriteConfig
  BY Zenon, <1>3 DEF AgentChanges, Tick, SetConfig, WriteConfig,
     client, watcher
<1>4. CASE PollStatus
  <2>1. round' = <<"deployments", "fetch">> /\ "deployments" \in Lists
    BY Zenon, <1>4 DEF PollStatus, Lists
  <2> QED BY <1>1, <1>4, <2>1 DEF PollStatus
<1>5. ASSUME NEW l \in Lists, Fetch(l) \/ PutFetched(l)
      PROVE round' \in {<<"tick", "wait">>, <<"status", "fetch">>} \cup (Lists \X {"fetch", "put"})
  BY <1>5 DEF Fetch, PutFetched, NextRound, Lists
<1>6. CASE \E l \in Lists : Fetch(l) \/ PutFetched(l)
  BY Zenon, <1>1, <1>5, <1>6 DEF Fetch, PutFetched, client
<1>7. CASE Restart
  BY Zenon, <1>7 DEF Restart
<1>8. CASE UNCHANGED serviceVars
  BY Zenon, <1>8 DEF serviceVars, client, watcher
<1> QED BY Zenon, <1>2, <1>3, <1>4, <1>6, <1>7, <1>8 DEF ServiceNext, Watch

LEMMA ConfigStep ==
  ASSUME ServiceInv, [ServiceNext]_serviceVars
  PROVE  /\ ConfigInv' /\ ConfigsSurvive'
         /\ configs' \in [Colls -> 0..4] /\ file' \in [Colls -> -1..4]
<1> USE DEF ServiceInv, ConfigInv, ConfigsSurvive
<1>1. configs \in [Colls -> 0..4] /\ file \in [Colls -> -1..4]
  BY Zenon DEF ServiceTyped
<1>2. Torn \in [Colls -> -1..4]
  BY DEF Torn
<1>3. CASE UNCHANGED <<configs, file, acked>>
  BY Zenon, <1>1, <1>3
<1>4. CASE SetConfig
  <2>1. PICK c \in Colls, n \in {0, 2} :
          /\ configs' = [configs EXCEPT ![c] = Policy(n)]
          /\ acked' = [acked EXCEPT ![c] = acked[c] \cup {Policy(n)}]
          /\ file' = Torn \/ file' = file
    BY Zenon, <1>4 DEF SetConfig
  <2>2. Policy(n) \in 0..4
    BY DEF Policy
  <2>3. configs' \in [Colls -> 0..4] /\ \A x \in Colls : acked[x] \subseteq acked'[x]
    BY Zenon, <1>1, <2>1, <2>2
  <2> QED BY Zenon, <1>1, <1>2, <2>1, <2>3
<1>5. CASE WriteConfig
  <2>1. configs' = configs
    BY Zenon, <1>5 DEF WriteConfig
  <2>2. CASE UNCHANGED <<file, acked>>
    BY Zenon, <1>3, <2>1, <2>2
  <2>3. CASE /\ file' = configs
             /\ acked' = [c \in Colls |-> IF c \in writing THEN {configs[c]} ELSE acked[c]]
    <3>1. DOMAIN acked' = Colls /\ \A c \in Colls : configs[c] \in acked'[c]
      BY Zenon, <2>3
    <3> QED BY <1>1, <2>1, <2>3, <3>1
  <2> QED BY Zenon, <1>5, <2>2, <2>3 DEF WriteConfig
<1>6. CASE Restart
  <2>1. configs' = Load /\ acked' = [c \in Colls |-> {configs'[c]}] /\ file' = file
    BY Zenon, <1>6 DEF Restart
  <2>2. configs' \in [Colls -> 0..4] /\ (file # Torn => configs' = file)
    BY <2>1 DEF Load
  <2>3. DOMAIN acked' = Colls /\ \A c \in Colls : configs'[c] \in acked'[c]
    BY Zenon, <2>1
  <2> QED BY Zenon, <1>1, <2>1, <2>2, <2>3
<1>7. \/ UNCHANGED <<configs, file, acked>> \/ SetConfig \/ WriteConfig \/ Restart
  BY Zenon DEF ServiceNext, Watch, serviceVars, settings, PutDocument, PutTyped,
    DeleteDocument, GetTyped, GetTypedNext, AgentChanges, Tick,
    PollStatus, Fetch, PutFetched
<1> QED BY Zenon, <1>3, <1>4, <1>5, <1>6, <1>7

LEMMA ServiceStep == ServiceInv /\ [ServiceNext]_serviceVars => ServiceInv'
<1> SUFFICES ASSUME ServiceInv, [ServiceNext]_serviceVars PROVE ServiceInv'
  BY Zenon
<1>1. CallInv' /\ call'.at \in {"idle", "reading", "ok", "failed"}
  BY CallStep DEF CallInv
<1> QED BY Zenon, <1>1, ServiceStaysTyped, ConfigStep DEF ServiceInv, ServiceTyped

\* GetNodes and its like answer exactly while others write and delete, whatever key is
\* configured and whatever keys sealed the documents; and what the configuration file
\* holds is, for each collection, the last acknowledged configuration or a later one
\* (service.rs, get_nodes; node.rs, get_document and set_collection_config).
THEOREM ServiceAlwaysSound == ServiceSpec => []ServiceIsSound
<1>1. ServiceInv => ServiceIsSound
  <2> SUFFICES ASSUME ServiceInv PROVE AnswerIsExact
    BY Zenon DEF ServiceInv, ServiceIsSound
  <2>1. CASE call = [at |-> "idle"]
    BY Zenon, <2>1 DEF AnswerIsExact
  <2>2. CASE call # [at |-> "idle"]
    BY Zenon, <2>2 DEF AnswerIsExact, ServiceInv, CallInv, Told, Exact, Opens
  <2> QED BY Zenon, <2>1, <2>2
<1> QED BY <1>1, ServiceStarts, ServiceStep, PTL DEF ServiceSpec

-----------------------------------------------------------------------------
(***************************************************************************)
(* Changes.  Nothing is ever told out of order: whatever is said of a      *)
(* document travels from the observer ring through the forwarder's hands   *)
(* to a subscription's ring, and the last word on the way is the store's.  *)
(* A key in the observer ring will be read as the document is then; held   *)
(* and queued values must be the current ones if nothing follows them.     *)
(***************************************************************************)
Forgiven(d) == d \in lost \/ d \in stale
Unread(d) == \E i \in 1..Len(observed) : observed[i] = d
Queued(s, d) == \E i \in 1..Len(sub[s].queue) : sub[s].queue[i].doc = d

\* The i-th event of a ring is the last one about its document.
LastOf(q, i) == \A j \in 1..Len(q) : j > i => q[j].doc # q[i].doc

HeldInv ==
  \A d \in Docs : ~Unread(d) /\ held.doc = d /\ ~Forgiven(d) => held.value = store[d]

\* Nothing about d is on its way to the rings, and d has no excuse.
Settled(s, d) ==
  /\ ~Unread(d) /\ held.doc # d /\ ~Forgiven(d) /\ d \notin missed[s]
  /\ store[d].kind \notin {"miss", "sealed"}

QueueOf(s) ==
  sub[s].pc # "none" =>
    \A i \in 1..Len(sub[s].queue), d \in Docs :
      sub[s].queue[i].doc = d /\ LastOf(sub[s].queue, i) /\ Settled(s, d) =>
        sub[s].queue[i].value = store[d]
QueueInv == \A s \in Subs : QueueOf(s)

ViewOf(s) ==
  \A d \in Docs :
    /\ sub[s].pc \in {"none", "list"} => view[s][d] = 0 /\ sub[s].todo = {}
    /\ s \notin Named => sub[s].pc \in {"none", "live"}
    /\ sub[s].pc = "none" => sub[s].queue = <<>>
    /\ sub[s].pc = "live" => sub[s].todo = {}
    /\ sub[s].pc \in {"read", "live"} /\ d \notin sub[s].todo /\ ~Queued(s, d) /\ Settled(s, d) =>
         view[s][d] = store[d].n \/ (s \notin Named /\ view[s][d] = 0)
ViewInv == \A s \in Subs : ViewOf(s)

FeedTypes ==
  /\ TypeOK /\ owed \in Nat
  /\ sub \in [Subs -> [pc : {"none", "list", "read", "live"}, todo : SUBSET Docs, queue : Seq(Events)]]
  /\ DOMAIN missed = Subs
  /\ \A d \in Docs : store[d].kind = "none" => store[d].n = 0

FeedInv == FeedTypes /\ AnnouncedOnce /\ HeldInv /\ QueueInv /\ ViewInv

-----------------------------------------------------------------------------
\* What a push into a ring leaves, for a ring within its capacity.
LEMMA PushFacts ==
  ASSUME NEW S, NEW q \in Seq(S), NEW x \in S, NEW cap \in Nat \ {0}, Len(q) <= cap,
         NEW k \in {0, 1}, k = IF Len(q) = cap THEN 1 ELSE 0
  PROVE  /\ Push(q, x, cap) \in Seq(S) /\ Len(Push(q, x, cap)) = Len(q) - k + 1
         /\ Len(Push(q, x, cap)) <= cap /\ Push(q, x, cap)[Len(Push(q, x, cap))] = x
<1>1. CASE Len(q) = cap
  <2>1. q # <<>> /\ Tail(q) \in Seq(S) /\ Len(Tail(q)) = Len(q) - 1
    BY <1>1
  <2> QED BY <1>1, <2>1 DEF Push
<1>2. CASE Len(q) # cap
  BY <1>2 DEF Push
<1> QED BY Zenon, <1>1, <1>2

LEMMA PushShifts ==
  ASSUME NEW S, NEW q \in Seq(S), NEW x \in S, NEW cap \in Nat \ {0}, Len(q) <= cap,
         NEW k \in {0, 1}, k = IF Len(q) = cap THEN 1 ELSE 0, NEW i \in 1..(Len(q) - k)
  PROVE  Push(q, x, cap)[i] = q[i + k]
<1>1. CASE Len(q) = cap
  <2>1. q # <<>> /\ Tail(q) \in Seq(S) /\ Len(Tail(q)) = Len(q) - 1 /\ Tail(q)[i] = q[i + 1]
    BY <1>1
  <2> QED BY <1>1, <2>1 DEF Push
<1>2. CASE Len(q) # cap
  BY <1>2 DEF Push
<1> QED BY Zenon, <1>1, <1>2

\* What was pushed out of a ring of keys and is not in it any more counts as forgotten.
LEMMA ForgottenFacts ==
  ASSUME NEW S, NEW q \in Seq(S), NEW d, NEW cap \in Nat \ {0}, Len(q) <= cap, NEW before
  PROVE  LET f == Forgotten(q, d, cap, before) IN
         /\ \A x \in before : x # d => x \in f
         /\ d \notin f /\ f \subseteq before \cup {q[i] : i \in 1..Len(q)}
         /\ Len(q) = cap /\ q[1] # d /\ (\A i \in 2..Len(q) : q[i] # q[1]) => q[1] \in f
<1> DEFINE f == Forgotten(q, d, cap, before)
<1>1. /\ \A x \in before : x # d => x \in f
      /\ d \notin f
  BY Zenon DEF Forgotten
<1>2. f \subseteq before \cup {q[i] : i \in 1..Len(q)}
  <2>1. DOMAIN q = 1..Len(q)
    OBVIOUS
  <2> QED BY <2>1, Zenon DEF Forgotten
<1>3. ASSUME Len(q) = cap, q[1] # d, \A i \in 2..Len(q) : q[i] # q[1] PROVE q[1] \in f
  <2>1. q # <<>> /\ DOMAIN q = 1..Len(q) /\ 1 \in DOMAIN q
    BY <1>3
  <2>2. Tail(q) \in Seq(S) /\ Len(Tail(q)) = Len(q) - 1 /\ \A i \in 1..Len(Tail(q)) : Tail(q)[i] = q[i + 1]
    BY <2>1
  <2>3. DOMAIN Tail(q) = 1..Len(Tail(q))
    BY <2>2
  <2>4. ASSUME q[1] \in Range(Tail(q)) PROVE FALSE
    <3>1. PICK i \in DOMAIN Tail(q) : Tail(q)[i] = q[1]
      BY Zenon, <2>4 DEF Range
    <3>2. i + 1 \in 2..Len(q) /\ q[i + 1] = q[1]
      BY <2>2, <2>3, <3>1
    <3> QED BY Zenon, <1>3, <3>2
  <2>5. q[1] \in {q[1] : i \in {1} \cap DOMAIN q}
    BY Zenon, <2>1
  <2> QED BY Zenon, <1>3, <2>4, <2>5 DEF Forgotten
<1> QED BY Zenon, <1>1, <1>2, <1>3

LEMMA FeedStarts == Init => FeedInv
<1> SUFFICES ASSUME Init PROVE FeedInv
  OBVIOUS
<1> USE ChangesConstants DEF Init, Absent, Nothing, NoSub
<1>1. /\ store \in [Docs -> Values] /\ writes \in 0..MaxWrites
      /\ \A d \in Docs : store[d].kind = "none" => store[d].n = 0
  BY DEF Values, Kinds
<1>2. sub \in [Subs -> [pc : {"none", "list", "read", "live"}, todo : SUBSET Docs, queue : Seq(Events)]]
  OBVIOUS
<1>3. \A s \in Subs : sub[s].pc = "none" /\ sub[s].todo = {} /\ sub[s].queue = <<>> /\ missed[s] = {}
  BY Zenon
<1>4. view \in [Subs -> [Docs -> 0..MaxWrites]] /\ \A s \in Subs, d \in Docs : view[s][d] = 0
  OBVIOUS
<1>5. observed \in Seq(Docs) /\ Len(observed) = 0
  OBVIOUS
<1>6. \A s \in Subs : sub[s].queue \in Seq(Events) /\ Len(sub[s].queue) = 0
  <2>1. <<>> \in Seq(Events) /\ Len(<<>>) = 0
    BY SMTT(60)
  <2> QED BY <1>3, <2>1, Zenon
<1>7. FeedTypes
  BY <1>1, <1>2, <1>3, <1>4, <1>5, <1>6 DEF FeedTypes, TypeOK
<1>8. AnnouncedOnce
  BY <1>5 DEF AnnouncedOnce
<1>9. HeldInv
  BY Zenon DEF HeldInv
<1>10. QueueInv
  BY Zenon, <1>3 DEF QueueInv, QueueOf
<1>11. ViewInv
  BY SMTT(60), <1>3, <1>4 DEF ViewInv, ViewOf
<1> QED BY Zenon, <1>7, <1>8, <1>9, <1>10, <1>11 DEF FeedInv

\* What the store's notice of d does to the observer ring.
LEMMA NotifyFacts ==
  ASSUME FeedTypes, NEW d \in Docs, Notify(d)
  PROVE  /\ observed' \in Seq(Docs) /\ Len(observed') <= ObserverCap /\ lost' \subseteq Docs
         /\ owed' = owed + (Len(observed') - Len(observed)) /\ owed' \in Nat /\ Unread(d)'
         /\ \A x \in Docs : x # d /\ ~Unread(x)' /\ x \notin lost' => ~Unread(x) /\ x \notin lost
<1> DEFINE k == IF Len(observed) = ObserverCap THEN 1 ELSE 0
<1>1. /\ observed \in Seq(Docs) /\ Len(observed) <= ObserverCap /\ lost \subseteq Docs /\ owed \in Nat
      /\ observed' = Push(observed, d, ObserverCap)
      /\ lost' = Forgotten(observed, d, ObserverCap, lost)
      /\ owed' = IF Len(observed) = ObserverCap THEN owed ELSE owed + 1
      /\ ObserverCap \in Nat \ {0}
  BY Zenon, ChangesConstants DEF FeedTypes, TypeOK, Notify
<1>k. k \in {0, 1} /\ k = IF Len(observed) = ObserverCap THEN 1 ELSE 0
  BY Zenon
<1> HIDE DEF k
<1>2. /\ observed' \in Seq(Docs) /\ Len(observed') = Len(observed) - k + 1
      /\ Len(observed') <= ObserverCap /\ observed'[Len(observed')] = d
      /\ \A i \in 1..(Len(observed) - k) : observed'[i] = observed[i + k]
      /\ Len(observed) \in Nat /\ Len(observed) - k \in Nat
  <2> DEFINE r == Push(observed, d, ObserverCap)
  <2>0. observed \in Seq(Docs) /\ Len(observed) <= ObserverCap /\ ObserverCap \in Nat \ {0}
    BY Zenon, <1>1
  <2>1. /\ r \in Seq(Docs) /\ Len(r) = Len(observed) - k + 1
        /\ Len(r) <= ObserverCap /\ r[Len(r)] = d
    <3>1. r \in Seq(Docs)
      BY Zenon, <2>0, <1>k, PushFacts
    <3>2. Len(r) = Len(observed) - k + 1
      BY <2>0, <1>k, PushFacts
    <3>3. Len(r) <= ObserverCap
      BY Zenon, <2>0, <1>k, PushFacts
    <3>4. r[Len(r)] = d
      BY <2>0, <1>k, PushFacts
    <3> QED BY Zenon, <3>1, <3>2, <3>3, <3>4
  <2>2. ASSUME NEW i \in 1..(Len(observed) - k) PROVE r[i] = observed[i + k]
    BY <2>0, <1>k, PushShifts
  <2>3. Len(observed) \in Nat /\ Len(observed) - k \in Nat
    BY <1>1, <1>k
  <2> HIDE DEF r
  <2>4. observed' = r
    BY Zenon, <1>1 DEF r
  <2> QED BY Zenon, <2>1, <2>2, <2>3, <2>4
<1>3. /\ \A x \in lost : x # d => x \in lost'
      /\ lost' \subseteq lost \cup {observed[i] : i \in 1..Len(observed)}
      /\ Len(observed) = ObserverCap /\ observed[1] # d /\ (\A i \in 2..Len(observed) : observed[i] # observed[1])
         => observed[1] \in lost'
  BY Zenon, <1>1, ForgottenFacts
<1>4. lost' \subseteq Docs
  BY <1>1, <1>3
<1>5. Unread(d)'
  <2>1. Len(observed') \in 1..Len(observed')
    BY <1>2
  <2> QED BY Zenon, <1>2, <2>1 DEF Unread
<1>6. ASSUME NEW x \in Docs, x # d, ~Unread(x)', x \notin lost', Unread(x) PROVE FALSE
  <2>1. PICK i \in 1..Len(observed) : observed[i] = x
    BY Zenon, <1>6 DEF Unread
  <2>2. \A j \in 1..Len(observed') : observed'[j] # x
    BY Zenon, <1>6 DEF Unread
  <2>3. \A j \in 1..Len(observed) : j > k => observed[j] # x
    <3> SUFFICES ASSUME NEW j \in 1..Len(observed), j > k PROVE observed[j] # x
      BY Zenon
    <3>1. j - k \in 1..(Len(observed) - k) /\ j - k \in 1..Len(observed') /\ (j - k) + k = j
      BY <1>k, <1>2
    <3>2. observed'[j - k] = observed[(j - k) + k]
      BY Zenon, <1>2, <3>1
    <3> QED BY Zenon, <2>2, <3>1, <3>2
  <2>4. i = 1 /\ k = 1
    BY <1>k, <1>2, <2>1, <2>3
  <2> QED BY <1>k, <1>3, <1>6, <2>1, <2>3, <2>4
<1>7. owed' = owed + (Len(observed') - Len(observed)) /\ owed' \in Nat
  BY SMTT(60), <1>k, <1>1, <1>2
<1> QED BY Zenon, <1>2, <1>3, <1>4, <1>5, <1>6, <1>7

\* What an event does to the ring of one subscription.
LEMMA PublishFacts ==
  ASSUME FeedTypes, NEW e \in Events, Publish(e), NEW s \in Subs
  PROVE  /\ sub'[s].pc = sub[s].pc /\ sub'[s].todo = sub[s].todo /\ sub'[s].queue \in Seq(Events)
         /\ Len(sub'[s].queue) <= ChangeCap /\ missed'[s] \subseteq Docs
         /\ sub[s].pc = "none" => sub'[s] = sub[s] /\ missed'[s] = missed[s]
         /\ sub[s].pc # "none" => Queued(s, e.doc)'
         /\ \A x \in Docs : x # e.doc /\ x \notin missed'[s] =>
              x \notin missed[s] /\ (~Queued(s, x)' => ~Queued(s, x))
         /\ sub[s].pc # "none" => \A i \in 1..Len(sub'[s].queue) : LastOf(sub'[s].queue, i) =>
              \/ sub'[s].queue[i] = e
              \/ /\ sub'[s].queue[i].doc # e.doc
                 /\ \E j \in 1..Len(sub[s].queue) :
                      sub[s].queue[j] = sub'[s].queue[i] /\ LastOf(sub[s].queue, j)
<1>1. /\ sub[s] \in [pc : {"none", "list", "read", "live"}, todo : SUBSET Docs, queue : Seq(Events)]
      /\ Len(sub[s].queue) <= ChangeCap /\ missed[s] \subseteq Docs /\ ChangeCap \in Nat \ {0}
  BY Zenon, ChangesConstants DEF FeedTypes, TypeOK
<1>2. CASE sub[s].pc = "none"
  <2>1. sub'[s] = sub[s] /\ missed'[s] = missed[s]
    BY Zenon, <1>2 DEF Publish, Joined
  <2> QED BY Zenon, <1>1, <1>2, <2>1 DEF Queued
<1>3. CASE sub[s].pc # "none"
  <2> DEFINE q == sub[s].queue
             r == sub'[s].queue
             keys == KeysOf(q)
             k == IF Len(q) = ChangeCap THEN 1 ELSE 0
  <2>1. /\ sub'[s] = [sub[s] EXCEPT !.queue = Push(sub[s].queue, e, ChangeCap)]
        /\ missed'[s] = Forgotten(keys, e.doc, ChangeCap, missed[s])
    BY Zenon, <1>3 DEF Publish, Joined
  <2>2. sub'[s].pc = sub[s].pc /\ sub'[s].todo = sub[s].todo /\ r = Push(q, e, ChangeCap)
    BY Zenon, <1>1, <2>1
  <2>3. q \in Seq(Events) /\ Len(q) <= ChangeCap
    BY Zenon, <1>1
  <2>4. /\ keys \in Seq(Docs) /\ Len(keys) = Len(q) /\ \A i \in 1..Len(q) : keys[i] = q[i].doc
    <3>1. Len(q) \in Nat /\ DOMAIN q = 1..Len(q) /\ \A i \in 1..Len(q) : q[i].doc \in Docs
      <4>1. Len(q) \in Nat /\ DOMAIN q = 1..Len(q) /\ \A i \in 1..Len(q) : q[i] \in Events
        BY <2>3
      <4> HIDE DEF q
      <4> QED BY Zenon, <4>1 DEF Events
    <3>2. keys = [i \in 1..Len(q) |-> q[i].doc]
      BY Zenon, <3>1 DEF KeysOf
    <3> HIDE DEF keys, q
    <3> QED BY <3>1, <3>2
  <2>k. k \in {0, 1} /\ k = IF Len(q) = ChangeCap THEN 1 ELSE 0
    BY Zenon
  <2> HIDE DEF q, r, keys, k
  <2>5. /\ r \in Seq(Events) /\ Len(r) = Len(q) - k + 1 /\ Len(r) <= ChangeCap /\ r[Len(r)] = e
        /\ \A i \in 1..(Len(q) - k) : r[i] = q[i + k]
        /\ Len(q) \in Nat /\ Len(q) - k \in Nat
    <3> DEFINE p == Push(q, e, ChangeCap)
    <3>1. /\ p \in Seq(Events) /\ Len(p) = Len(q) - k + 1
          /\ Len(p) <= ChangeCap /\ p[Len(p)] = e
      BY <1>1, <2>3, <2>k, PushFacts
    <3>2. ASSUME NEW i \in 1..(Len(q) - k) PROVE p[i] = q[i + k]
      BY <1>1, <2>3, <2>k, PushShifts
    <3>3. Len(q) \in Nat /\ Len(q) - k \in Nat
      BY <1>1, <2>3, <2>k
    <3> HIDE DEF p
    <3>4. r = p
      BY Zenon, <2>2 DEF p
    <3> QED BY Zenon, <3>1, <3>2, <3>3, <3>4
  <2>6. /\ \A x \in missed[s] : x # e.doc => x \in missed'[s]
        /\ missed'[s] \subseteq missed[s] \cup {keys[i] : i \in 1..Len(keys)}
        /\ Len(keys) = ChangeCap /\ keys[1] # e.doc /\ (\A i \in 2..Len(keys) : keys[i] # keys[1])
           => keys[1] \in missed'[s]
    BY SMTT(60), <1>1, <2>1, <2>3, <2>4, ForgottenFacts
  <2>7. missed'[s] \subseteq Docs
    BY <1>1, <2>4, <2>6
  <2>8. Len(r) \in 1..Len(r) /\ r[Len(r)].doc = e.doc
    BY <2>5
  <2>9. Queued(s, e.doc)'
    BY Zenon, <2>8 DEF Queued, r
  <2>10. ASSUME NEW x \in Docs, x # e.doc, x \notin missed'[s], ~Queued(s, x)', Queued(s, x) PROVE FALSE
    <3>1. PICK i \in 1..Len(q) : q[i].doc = x
      BY Zenon, <2>10 DEF Queued, q
    <3>2. \A j \in 1..Len(r) : r[j].doc # x
      BY Zenon, <2>10 DEF Queued, r
    <3>3. ASSUME NEW j \in 1..Len(q), j > k PROVE q[j].doc # x
      <4>1. j - k \in 1..(Len(q) - k) /\ j - k \in 1..Len(r) /\ (j - k) + k = j
        BY <2>k, <2>5, <3>3
      <4>2. r[j - k] = q[(j - k) + k]
        BY Zenon, <2>5, <4>1
      <4> QED BY Zenon, <3>2, <4>1, <4>2
    <3>4. i = 1 /\ k = 1
      BY <2>k, <2>5, <3>1, <3>3
    <3>5. keys[1] = x /\ \A j \in 2..Len(q) : keys[j] # x
      BY SMTT(60), <2>4, <2>5, <3>1, <3>3, <3>4
    <3> QED BY Zenon, <2>k, <2>4, <2>6, <2>10, <3>4, <3>5
  <2>11. ASSUME NEW i \in 1..Len(r), LastOf(r, i), r[i] # e
         PROVE  r[i].doc # e.doc /\ \E j \in 1..Len(q) : q[j] = r[i] /\ LastOf(q, j)
    <3>1. i # Len(r) /\ i \in 1..(Len(q) - k) /\ i + k \in 1..Len(q)
      BY <2>k, <2>5, <2>11
    <3>2. r[i] = q[i + k]
      BY Zenon, <2>5, <3>1
    <3>3. r[i].doc # e.doc
      <4>1. Len(r) > i
        BY <2>5, <3>1
      <4> QED BY <2>8, <2>11, <4>1 DEF LastOf
    <3>4. ASSUME NEW j \in 1..Len(q), j > i + k PROVE q[j].doc # q[i + k].doc
      <4>1. j - k \in 1..(Len(q) - k) /\ j - k \in 1..Len(r) /\ (j - k) + k = j /\ j - k > i
        BY <2>k, <2>5, <3>4
      <4>2. r[j - k] = q[(j - k) + k]
        BY Zenon, <2>5, <4>1
      <4>3. r[j - k].doc # r[i].doc
        BY Zenon, <2>11, <4>1 DEF LastOf
      <4> QED BY Zenon, <3>2, <4>1, <4>2, <4>3
    <3>5. LastOf(q, i + k)
      BY Zenon, <3>4 DEF LastOf
    <3> QED BY Zenon, <3>1, <3>2, <3>3, <3>5
  <2>12. \A x \in Docs : x # e.doc /\ x \notin missed'[s] =>
              x \notin missed[s] /\ (~Queued(s, x)' => ~Queued(s, x))
    BY Zenon, <2>6, <2>10
  <2>13. /\ sub'[s].queue \in Seq(Events) /\ Len(sub'[s].queue) <= ChangeCap
    BY Zenon, <2>5 DEF r
  <2>14. \A i \in 1..Len(sub'[s].queue) : LastOf(sub'[s].queue, i) =>
              \/ sub'[s].queue[i] = e
              \/ /\ sub'[s].queue[i].doc # e.doc
                 /\ \E j \in 1..Len(sub[s].queue) :
                      sub[s].queue[j] = sub'[s].queue[i] /\ LastOf(sub[s].queue, j)
    BY Zenon, <2>11 DEF r, q
  <2> QED BY Zenon, <1>3, <2>2, <2>7, <2>9, <2>12, <2>13, <2>14
<1> QED BY Zenon, <1>2, <1>3

-----------------------------------------------------------------------------
LEMMA FeedTyped == ASSUME FeedInv, [Next]_(vars) PROVE FeedTypes' /\ AnnouncedOnce'
<1> DEFINE SubTypes ==
      /\ sub \in [Subs -> [pc : {"none", "list", "read", "live"}, todo : SUBSET Docs, queue : Seq(Events)]]
      /\ DOMAIN missed = Subs
      /\ \A s \in Subs : Len(sub[s].queue) <= ChangeCap /\ missed[s] \subseteq Docs
           StoreTypes ==
      /\ store \in [Docs -> Values] /\ writes \in 0..MaxWrites
      /\ \A d \in Docs : store[d].kind = "none" => store[d].n = 0
           RingTypes ==
      /\ observed \in Seq(Docs) /\ Len(observed) <= ObserverCap /\ held \in Events \cup {Nothing}
      /\ lost \subseteq Docs /\ stale \subseteq Docs /\ owed \in Nat /\ AnnouncedOnce
           ViewTypes == view \in [Subs -> [Docs -> 0..MaxWrites]]
<1>1. SubTypes /\ StoreTypes /\ RingTypes /\ ViewTypes
  BY Zenon DEF FeedInv, FeedTypes, TypeOK
<1>2. SUFFICES SubTypes' /\ StoreTypes' /\ RingTypes' /\ ViewTypes'
  <2>1. ASSUME SubTypes', NEW s \in Subs
        PROVE  /\ sub'[s].pc \in {"none", "list", "read", "live"} /\ sub'[s].todo \subseteq Docs
               /\ sub'[s].queue \in Seq(Events)
    BY Zenon, <2>1
  <2> QED BY Zenon, <2>1 DEF FeedTypes, TypeOK
<1>3. Absent \in Values /\ Absent.kind = "none" /\ Absent.n = 0
  BY ChangesConstants DEF Absent, Values
<1>4. ASSUME NEW e \in Events, Publish(e) PROVE SubTypes'
  <2>1. ASSUME NEW s \in Subs
        PROVE  /\ sub'[s] \in [pc : {"none", "list", "read", "live"}, todo : SUBSET Docs, queue : Seq(Events)]
               /\ Len(sub'[s].queue) <= ChangeCap /\ missed'[s] \subseteq Docs
    <3>1. /\ sub'[s].pc = sub[s].pc /\ sub'[s].todo = sub[s].todo /\ sub'[s].queue \in Seq(Events)
          /\ Len(sub'[s].queue) <= ChangeCap /\ missed'[s] \subseteq Docs
      BY <1>4, PublishFacts DEF FeedInv
    <3>2. sub[s] \in [pc : {"none", "list", "read", "live"}, todo : SUBSET Docs, queue : Seq(Events)]
      BY Zenon, <1>1
    <3>3. sub'[s] = [pc |-> sub'[s].pc, todo |-> sub'[s].todo, queue |-> sub'[s].queue]
      <4>1. sub'[s] = IF s \in Joined THEN [sub[s] EXCEPT !.queue = Push(sub[s].queue, e, ChangeCap)]
                      ELSE sub[s]
        BY Zenon, <1>4 DEF Publish
      <4> QED BY Zenon, <3>2, <4>1
    <3> QED BY Zenon, <3>1, <3>2, <3>3
  <2>2. sub' = [s \in Subs |-> sub'[s]] /\ DOMAIN missed' = Subs
    BY SMTT(60), <1>4 DEF Publish
  <2> QED BY Zenon, <2>1, <2>2
<1>5. ASSUME NEW d \in Docs, Notify(d), held' = held, stale' \subseteq Docs PROVE RingTypes'
  <2>1. /\ observed' \in Seq(Docs) /\ Len(observed') <= ObserverCap /\ lost' \subseteq Docs
        /\ owed' = owed + (Len(observed') - Len(observed)) /\ owed' \in Nat
    BY Zenon, <1>5, NotifyFacts DEF FeedInv
  <2>2. Len(observed) \in Nat /\ Len(observed') \in Nat
    BY SMTT(60), <1>1, <2>1
  <2>3. AnnouncedOnce'
    BY SMTT(60), <1>1, <1>5, <2>1, <2>2 DEF AnnouncedOnce
  <2> QED BY Zenon, <1>1, <1>5, <2>1, <2>3
<1>6. ASSUME NEW d \in Docs, NEW v \in Values, store' = [store EXCEPT ![d] = v],
             v.kind = "none" => v.n = 0, writes' = writes + 1, writes < MaxWrites
      PROVE  StoreTypes'
  BY SMTT(60), <1>1, <1>6, ChangesConstants
<1>7. ASSUME UNCHANGED <<sub, missed>> PROVE SubTypes'
  BY Zenon, <1>1, <1>7
<1>8. ASSUME UNCHANGED <<store, writes>> PROVE StoreTypes'
  BY <1>1, <1>8
<1>9. ASSUME UNCHANGED <<observed, held, lost, owed>>, stale' \subseteq Docs PROVE RingTypes'
  BY Zenon, <1>1, <1>9 DEF AnnouncedOnce
<1>10. ASSUME UNCHANGED view PROVE ViewTypes'
  BY <1>1, <1>10
<1>11. ASSUME NEW d \in Docs, NEW k \in Kinds, Put(d, k)
       PROVE  SubTypes' /\ StoreTypes' /\ RingTypes' /\ ViewTypes'
  <2>1. [n |-> writes + 1, kind |-> k] \in Values /\ k # "none"
    BY <1>1, <1>11, ChangesConstants DEF Put, Values, Kinds
  <2>2. StoreTypes'
    BY <1>6, <1>11, <2>1, Zenon DEF Put
  <2> HIDE DEF SubTypes, StoreTypes, RingTypes, ViewTypes
  <2>3. stale \subseteq Docs
    BY SMTT(60), <1>1 DEF RingTypes
  <2> QED BY Zenon, <1>5, <1>7, <1>10, <1>11, <2>2, <2>3 DEF Put
<1>12. ASSUME NEW d \in Docs, NEW b \in BOOLEAN, Delete(d, b)
       PROVE  SubTypes' /\ StoreTypes' /\ RingTypes' /\ ViewTypes'
  <2>1. StoreTypes'
    BY <1>3, <1>6, <1>12, Zenon DEF Delete
  <2>2. [doc |-> d, value |-> Absent] \in Events
    BY Zenon, <1>3 DEF Events
  <2>3. SubTypes'
    BY Zenon, <1>4, <1>12, <2>2 DEF Delete
  <2>4. stale' \subseteq Docs
    BY Zenon, <1>1, <1>12 DEF Delete
  <2> HIDE DEF SubTypes, StoreTypes, RingTypes, ViewTypes
  <2> QED BY Zenon, <1>5, <1>9, <1>10, <1>12, <2>1, <2>3, <2>4 DEF Delete
<1>13. CASE ForwarderReads
  <2>1. /\ observed # <<>> /\ observed' = Tail(observed) /\ held = Nothing
        /\ \/ held' = Nothing /\ owed' = owed - 1
           \/ held' = [doc |-> Head(observed), value |-> store[Head(observed)]] /\ owed' = owed
    BY Zenon, <1>13 DEF ForwarderReads
  <2>2. /\ Head(observed) \in Docs /\ observed' \in Seq(Docs) /\ Len(observed') = Len(observed) - 1
        /\ Len(observed) \in Nat \ {0}
    BY SMTT(60), <1>1, <2>1
  <2>3. /\ [doc |-> Head(observed), value |-> store[Head(observed)]] \in Events
        /\ [doc |-> Head(observed), value |-> store[Head(observed)]] # Nothing
    BY Zenon, <1>1, <2>2, ChangesConstants DEF Events, Nothing
  <2>4. RingTypes'
    <3>1. /\ held' \in Events \cup {Nothing} /\ owed = Len(observed)
          /\ lost' = lost /\ stale' = stale
      BY SMTT(60), <1>1, <1>13, <2>1, <2>3 DEF ForwarderReads, AnnouncedOnce
    <3>2. owed' = Len(observed') + (IF held' = Nothing THEN 0 ELSE 1)
      BY SMTT(60), <2>1, <2>2, <2>3, <3>1
    <3>3. owed' \in Nat /\ Len(observed') <= ObserverCap
      BY SMTT(60), <1>1, <2>1, <2>2, <3>1, ChangesConstants
    <3> QED BY Zenon, <1>1, <2>2, <3>1, <3>2, <3>3 DEF AnnouncedOnce
  <2> QED BY Zenon, <1>7, <1>8, <1>10, <1>13, <2>4 DEF ForwarderReads
<1>14. CASE ForwarderSends
  <2>1. held \in Events
    BY Zenon, <1>1, <1>14 DEF ForwarderSends
  <2>2. SubTypes'
    BY Zenon, <1>4, <1>14, <2>1 DEF ForwarderSends
  <2>3. RingTypes'
    BY SMTT(60), <1>1, <1>14 DEF ForwarderSends, AnnouncedOnce
  <2> QED BY Zenon, <1>8, <1>10, <1>14, <2>2, <2>3 DEF ForwarderSends
<1>15. ASSUME NEW s \in Subs, Subscribe(s) \/ Subscriber(s)
       PROVE  SubTypes' /\ StoreTypes' /\ RingTypes' /\ ViewTypes'
  <2>1. UNCHANGED <<store, writes, observed, held, lost, missed, stale, owed>>
    BY Zenon, <1>15 DEF Subscribe, Subscriber, List, ReadOne, GoLive, Receive,
       history
  <2>2. StoreTypes' /\ RingTypes'
    BY Zenon, <1>1, <1>8, <1>9, <2>1
  <2>3. sub[s] \in [pc : {"none", "list", "read", "live"}, todo : SUBSET Docs, queue : Seq(Events)]
    BY Zenon, <1>1
  <2>4. CASE Subscribe(s) \/ List(s) \/ GoLive(s)
    <3>1. /\ sub' \in [Subs -> [pc : {"none", "list", "read", "live"}, todo : SUBSET Docs, queue : Seq(Events)]]
          /\ \A t \in Subs : sub'[t].queue = sub[t].queue
      <4>1. CASE Subscribe(s)
        BY <1>1, <2>3, <4>1, ZenonT(60) DEF Subscribe
      <4>2. CASE List(s)
        <5>1. sub' = [sub EXCEPT ![s] = [pc |-> "read", todo |-> {d \in Docs : store[d] # Absent},
                                         queue |-> sub[s].queue]]
          <6> DEFINE T == {d \in Docs : store[d] # Absent}
          <6>1. sub' = [sub EXCEPT ![s].pc = "read", ![s].todo = T]
            BY <4>2 DEF List
          <6> HIDE DEF T
          <6>2. sub'[s] = [[sub[s] EXCEPT !.pc = "read"] EXCEPT !.todo = T]
            BY Zenon, <1>1, <6>1
          <6>3. sub'[s] = [pc |-> "read", todo |-> T, queue |-> sub[s].queue]
            BY <2>3, <6>2, Zenon
          <6>4. sub' = [sub EXCEPT ![s] = sub'[s]]
            BY <1>1, <6>1, Zenon
          <6> QED BY Zenon, <6>3, <6>4 DEF T
        <5> QED BY Zenon, <1>1, <2>3, <5>1
      <4>3. CASE GoLive(s)
        BY <1>1, <2>3, <4>3, ZenonT(60) DEF GoLive
      <4> QED BY Zenon, <2>4, <4>1, <4>2, <4>3
    <3> QED BY Zenon, <1>1, <1>10, <2>1, <2>2, <2>4, <3>1 DEF Subscribe, List, GoLive
  <2>5. ASSUME NEW d \in Docs, ReadOne(s, d) PROVE SubTypes' /\ ViewTypes'
    <3>1. /\ sub' \in [Subs -> [pc : {"none", "list", "read", "live"}, todo : SUBSET Docs, queue : Seq(Events)]]
          /\ \A t \in Subs : sub'[t].queue = sub[t].queue
      BY <1>1, <2>3, <2>5, Zenon DEF ReadOne
    <3>2. store[d].n \in 0..MaxWrites /\ 0 \in 0..MaxWrites
      BY <1>1, ChangesConstants DEF Values
    <3>3. ViewTypes'
      BY Zenon, <1>1, <2>5, <3>2 DEF ReadOne
    <3> QED BY Zenon, <1>1, <2>1, <3>1, <3>3
  <2>6. CASE Receive(s)
    <3> DEFINE q == sub[s].queue
    <3>1. q \in Seq(Events) /\ q # <<>> /\ Len(q) <= ChangeCap
      BY ZenonT(60), <1>1, <2>3, <2>6 DEF Receive
    <3>2. Tail(q) \in Seq(Events) /\ Len(Tail(q)) <= ChangeCap /\ Head(q) \in Events
      BY <3>1, ChangesConstants
    <3>3. sub' = [sub EXCEPT ![s] = [sub[s] EXCEPT !.queue = Tail(q)]]
      BY Zenon, <2>6 DEF Receive
    <3> HIDE DEF q
    <3>4. SubTypes'
      BY <1>1, <2>1, <2>3, <3>2, <3>3, Zenon
    <3>5. Head(q).doc \in Docs /\ Head(q).value.n \in 0..MaxWrites
      BY Zenon, <3>2 DEF Events, Values
    <3>6. view' = view \/ view' = [view EXCEPT ![s] = [view[s] EXCEPT ![Head(q).doc] = Head(q).value.n]]
      BY Zenon, <2>6 DEF Receive, q
    <3>7. ViewTypes'
      <4>1. CASE view' = view
        BY Zenon, <1>10, <4>1
      <4>2. CASE view' = [view EXCEPT ![s] = [view[s] EXCEPT ![Head(q).doc] = Head(q).value.n]]
        <5>1. [view[s] EXCEPT ![Head(q).doc] = Head(q).value.n] \in [Docs -> 0..MaxWrites]
          BY Zenon, <1>1, <3>5
        <5> QED BY Zenon, <1>1, <4>2, <5>1
      <4> QED BY Zenon, <3>6, <4>1, <4>2
    <3> QED BY Zenon, <2>2, <3>4, <3>7
  <2> QED BY SMTT(60), <1>15, <2>2, <2>4, <2>5, <2>6 DEF Subscriber
<1>16. CASE UNCHANGED vars
  BY Zenon, <1>1, <1>7, <1>8, <1>9, <1>10, <1>16 DEF vars, history
<1> HIDE DEF SubTypes, StoreTypes, RingTypes, ViewTypes
<1> QED BY Zenon, <1>11, <1>12, <1>13, <1>14, <1>15, <1>16 DEF Next, Forwarder

-----------------------------------------------------------------------------
OrderInv == HeldInv /\ QueueInv /\ ViewInv

\* Nothing new is settled, and the subscriptions are as they were.
LEMMA OrderKept ==
  ASSUME FeedInv, UNCHANGED <<sub, view>>,
         \A s \in Subs, x \in Docs : Settled(s, x)' => Settled(s, x) /\ store'[x] = store[x]
  PROVE  QueueInv' /\ ViewInv'
<1>1. QueueInv'
  BY SMTT(60) DEF FeedInv, QueueInv, QueueOf
<1>2. ViewInv'
  BY DEF FeedInv, ViewInv, ViewOf, Queued
<1> QED BY Zenon, <1>1, <1>2

\* The event is right as far as nothing more is on the way about its document, and the
\* step keeps the other documents and what is on the way about them.
Truthful(e) == \A s \in Subs : Settled(s, e.doc)' => e.value = store'[e.doc]
OthersKept(e) ==
  \A x \in Docs : x # e.doc =>
    /\ store'[x] = store[x]
    /\ ~Unread(x)' /\ held'.doc # x /\ ~Forgiven(x)' => ~Unread(x) /\ held.doc # x /\ ~Forgiven(x)

LEMMA OrderPublished ==
  ASSUME FeedInv, NEW e \in Events, Publish(e), view' = view, Truthful(e), OthersKept(e)
  PROVE  QueueInv' /\ ViewInv'
<1>1. FeedTypes /\ e.doc \in Docs
  BY SMTT(60) DEF FeedInv, Events
<1>2. ASSUME NEW s \in Subs, NEW x \in Docs, x # e.doc, Settled(s, x)'
      PROVE  Settled(s, x) /\ store'[x] = store[x] /\ (~Queued(s, x)' => ~Queued(s, x))
  <2>1. x \notin missed'[s]
    BY Zenon, <1>2 DEF Settled
  <2>2. x \notin missed[s] /\ (~Queued(s, x)' => ~Queued(s, x))
    BY Zenon, <1>1, <1>2, <2>1, PublishFacts
  <2> QED BY Zenon, <1>2, <2>1, <2>2 DEF Settled, OthersKept
<1>3. ASSUME NEW s \in Subs PROVE QueueOf(s)'
  <2>1. sub'[s].pc = sub[s].pc
    BY Zenon, <1>1, <1>3, PublishFacts
  <2>2. ASSUME sub[s].pc # "none", NEW i \in 1..Len(sub'[s].queue), NEW d \in Docs, sub'[s].queue[i].doc = d,
               LastOf(sub'[s].queue, i), Settled(s, d)'
        PROVE  sub'[s].queue[i].value = store'[d]
    <3>1. CASE sub'[s].queue[i] = e
      BY Zenon, <2>2, <3>1 DEF Truthful
    <3>2. CASE sub'[s].queue[i] # e
      <4>1. /\ d # e.doc
            /\ \E j \in 1..Len(sub[s].queue) :
                 sub[s].queue[j] = sub'[s].queue[i] /\ LastOf(sub[s].queue, j)
        <5>1. \/ sub'[s].queue[i] = e
              \/ /\ sub'[s].queue[i].doc # e.doc
                 /\ \E j \in 1..Len(sub[s].queue) :
                      sub[s].queue[j] = sub'[s].queue[i] /\ LastOf(sub[s].queue, j)
          BY SMTT(60), <1>1, <2>2, PublishFacts
        <5> QED BY Zenon, <2>2, <3>2, <5>1
      <4>2. PICK j \in 1..Len(sub[s].queue) :
                 sub[s].queue[j] = sub'[s].queue[i] /\ LastOf(sub[s].queue, j)
        BY Zenon, <4>1
      <4>3. Settled(s, d) /\ store'[d] = store[d]
        BY Zenon, <1>2, <2>2, <4>1
      <4>4. QueueOf(s)
        BY Zenon DEF FeedInv, QueueInv
      <4> QED BY SMTT(60), <2>2, <4>2, <4>3, <4>4 DEF QueueOf
    <3> QED BY Zenon, <3>1, <3>2
  <2> QED BY Zenon, <2>1, <2>2 DEF QueueOf, LastOf
<1>4. ASSUME NEW s \in Subs PROVE ViewOf(s)'
  <2>1. /\ sub'[s].pc = sub[s].pc /\ sub'[s].todo = sub[s].todo /\ (sub[s].pc = "none" => sub'[s] = sub[s])
        /\ sub[s].pc # "none" => Queued(s, e.doc)'
    BY Zenon, <1>1, PublishFacts
  <2>2. ViewOf(s)
    BY Zenon DEF FeedInv, ViewInv
  <2> QED BY SMTT(60), <1>2, <2>1, <2>2 DEF ViewOf
<1> QED BY Zenon, <1>3, <1>4 DEF QueueInv, ViewInv

LEMMA PutOrder ==
  ASSUME FeedInv, NEW d \in Docs, NEW k \in Kinds, Put(d, k) PROVE OrderInv'
<1>1. /\ FeedTypes /\ Notify(d) /\ UNCHANGED <<held, sub, view, missed, stale>>
      /\ \A x \in Docs : x # d => store'[x] = store[x]
  BY Zenon DEF FeedInv, FeedTypes, TypeOK, Put
<1>2. \A x \in Docs : ~Unread(x)' /\ ~Forgiven(x)' =>
                       x # d /\ ~Unread(x) /\ ~Forgiven(x) /\ store'[x] = store[x]
  BY Zenon, <1>1, NotifyFacts DEF Forgiven
<1>3. HeldInv'
  BY Zenon, <1>1, <1>2 DEF FeedInv, HeldInv
<1>4. \A s \in Subs, x \in Docs : Settled(s, x)' => Settled(s, x) /\ store'[x] = store[x]
  BY Zenon, <1>1, <1>2 DEF Settled
<1> QED BY Zenon, <1>1, <1>3, <1>4, OrderKept DEF OrderInv

LEMMA DeleteOrder ==
  ASSUME FeedInv, NEW d \in Docs, NEW b \in BOOLEAN, Delete(d, b) PROVE OrderInv'
<1> DEFINE e == [doc |-> d, value |-> Absent]
<1>1. /\ FeedTypes /\ Publish(e) /\ UNCHANGED <<held, view>> /\ store'[d] = Absent
      /\ \A x \in Docs : x # d => store'[x] = store[x]
      /\ stale \subseteq stale' /\ (held.doc = d /\ held.value # Absent => d \in stale')
      /\ Notify(d) \/ UNCHANGED <<observed, lost, owed>>
  BY Zenon DEF FeedInv, FeedTypes, TypeOK, Delete
<1>2. e \in Events /\ e.doc = d /\ e.value = Absent
  BY SMTT(60), ChangesConstants DEF Events, Values, Absent
<1>3. \A x \in Docs : x # d /\ ~Unread(x)' /\ ~Forgiven(x)' => ~Unread(x) /\ ~Forgiven(x)
  <2>1. CASE Notify(d)
    BY Zenon, <1>1, <2>1, NotifyFacts DEF Forgiven
  <2>2. CASE UNCHANGED <<observed, lost, owed>>
    BY ZenonT(60), <1>1, <2>2 DEF Forgiven, Unread
  <2> QED BY Zenon, <1>1, <2>1, <2>2
<1>4. HeldInv'
  <2> SUFFICES ASSUME NEW x \in Docs, ~Unread(x)', held.doc = x, ~Forgiven(x)' PROVE held.value = store'[x]
    BY Zenon, <1>1 DEF HeldInv
  <2>1. CASE x = d
    BY ZenonT(60), <1>1, <2>1 DEF Forgiven
  <2>2. CASE x # d
    BY Zenon, <1>1, <1>3, <2>2 DEF FeedInv, HeldInv
  <2> QED BY Zenon, <2>1, <2>2
<1> HIDE DEF e
<1>5. QueueInv' /\ ViewInv'
  <2>1. Truthful(e) /\ OthersKept(e)
    BY Zenon, <1>1, <1>2, <1>3 DEF Truthful, OthersKept
  <2> QED BY Zenon, <1>1, <1>2, <2>1, OrderPublished
<1> QED BY Zenon, <1>4, <1>5 DEF OrderInv

LEMMA ForwarderOrder == ASSUME FeedInv, Forwarder PROVE OrderInv'
<1>1. CASE ForwarderSends
  <2>1. /\ held # Nothing /\ held' = Nothing /\ Publish(held)
        /\ UNCHANGED <<store, observed, view, lost, stale>>
    BY Zenon, <1>1 DEF ForwarderSends
  <2>2. held \in Events /\ held.doc \in Docs /\ \A x \in Docs : held'.doc # x
    BY Zenon, <2>1, ChangesConstants DEF FeedInv, FeedTypes, TypeOK, Events, Nothing
  <2>3. HeldInv'
    BY Zenon, <2>2 DEF HeldInv
  <2>4. \A x : (Unread(x)' <=> Unread(x)) /\ (Forgiven(x)' <=> Forgiven(x))
    BY Zenon, <2>1 DEF Unread, Forgiven
  <2>5. PICK e \in Events : e = held
    BY Zenon, <2>2
  <2>6. Truthful(e)
    BY ZenonT(60), <2>1, <2>2, <2>4, <2>5 DEF FeedInv, HeldInv, Settled, Truthful
  <2>7. OthersKept(e)
    BY Zenon, <2>1, <2>4, <2>5 DEF OthersKept
  <2>8. QueueInv' /\ ViewInv'
    BY <2>1, <2>5, <2>6, <2>7, OrderPublished
  <2> QED BY Zenon, <2>3, <2>8 DEF OrderInv
<1>2. CASE ForwarderReads
  <2> DEFINE h == Head(observed)
  <2>1. /\ held = Nothing /\ observed # <<>> /\ observed' = Tail(observed)
        /\ UNCHANGED <<store, sub, view, lost, missed, stale>>
        /\ \/ store[h].kind = "sealed" /\ held' = Nothing
           \/ held' = [doc |-> h, value |-> store[h]]
    BY Zenon, <1>2 DEF ForwarderReads
  <2>2. observed \in Seq(Docs)
    BY Zenon DEF FeedInv, FeedTypes, TypeOK
  <2>3. ASSUME NEW x \in Docs, x # h, ~Unread(x)', Unread(x) PROVE FALSE
    <3>1. PICK i \in 1..Len(observed) : observed[i] = x
      BY Zenon, <2>3 DEF Unread
    <3>2. Len(observed') = Len(observed) - 1 /\ h = observed[1] /\ Len(observed) \in Nat
      BY <2>1, <2>2
    <3>3. i - 1 \in 1..Len(observed')
      BY SMTT(60), <2>3, <3>1, <3>2
    <3>4. observed'[i - 1] = observed[(i - 1) + 1]
      BY SMTT(60), <2>1, <2>2, <3>2, <3>3
    <3>5. observed'[i - 1] = x
      BY SMTT(60), <3>1, <3>4
    <3> QED BY Zenon, <2>3, <3>3, <3>5 DEF Unread
  <2>4. \A x \in Docs : held.doc # x
    BY Zenon, <2>1, ChangesConstants DEF Nothing
  <2>5. \A x \in Docs : ~Unread(x)' => ~Unread(x) \/ x = h
    BY Zenon, <2>3
  <2> HIDE DEF h
  <2>6. \A s \in Subs, x \in Docs : Settled(s, x)' => Settled(s, x) /\ store'[x] = store[x]
    BY SMTT(60), <2>1, <2>4, <2>5 DEF Settled, Forgiven
  <2>7. HeldInv'
    <3>1. CASE held' = Nothing
      BY Zenon, <3>1, ChangesConstants DEF HeldInv, Nothing
    <3>2. CASE held' = [doc |-> h, value |-> store[h]]
      BY SMTT(60), <2>1, <3>2 DEF HeldInv
    <3> QED BY Zenon, <2>1, <3>1, <3>2
  <2>8. QueueInv' /\ ViewInv'
    BY ZenonT(60), <2>1, <2>6, OrderKept
  <2> QED BY Zenon, <2>7, <2>8 DEF OrderInv
<1> QED BY Zenon, <1>1, <1>2 DEF Forwarder

\* A step of a subscription leaves what is settled.
Quiet == UNCHANGED <<store, observed, held, lost, missed, stale>>

LEMMA QuietSettled ==
  ASSUME Quiet, NEW t \in Subs, NEW x \in Docs PROVE Settled(t, x)' <=> Settled(t, x)
BY Zenon DEF Quiet, Settled, Unread, Forgiven

LEMMA RingKept ==
  ASSUME Quiet, NEW t \in Subs, sub'[t].queue = sub[t].queue, QueueOf(t),
         sub[t].pc # "none" \/ sub[t].queue = <<>> \/ sub'[t].pc = "none"
  PROVE  QueueOf(t)'
<1>1. ASSUME NEW x \in Docs PROVE Settled(t, x)' <=> Settled(t, x)
  BY Zenon, QuietSettled
<1>2. store' = store
  BY Zenon DEF Quiet
<1> QED BY SMTT(60), <1>1, <1>2 DEF QueueOf

\* The subscription's client knows no less, and nothing but its own reading changes.
LEMMA ViewKept ==
  ASSUME Quiet, NEW t \in Subs, sub'[t].queue = sub[t].queue, view'[t] = view[t], ViewOf(t),
         sub[t].pc = sub'[t].pc, sub'[t].todo = sub[t].todo
  PROVE  ViewOf(t)'
<1>1. ASSUME NEW x \in Docs PROVE (Settled(t, x)' <=> Settled(t, x)) /\ (Queued(t, x)' <=> Queued(t, x))
  BY Zenon, QuietSettled DEF Queued
<1>2. store' = store
  BY Zenon DEF Quiet
<1> QED BY Zenon, <1>1, <1>2 DEF ViewOf

\* It is enough to look at the subscription that moves.
LEMMA SubscriberFrame ==
  ASSUME FeedInv, NEW s \in Subs, Subscribe(s) \/ Subscriber(s), QueueOf(s)', ViewOf(s)' PROVE OrderInv'
<1>1. Quiet
  BY ZenonT(60) DEF Quiet, Subscribe, Subscriber, List, ReadOne, GoLive, Receive, history
<1>2. sub \in [Subs -> [pc : {"none", "list", "read", "live"}, todo : SUBSET Docs, queue : Seq(Events)]]
      /\ view \in [Subs -> [Docs -> 0..MaxWrites]]
  BY ZenonT(60) DEF FeedInv, FeedTypes, TypeOK
<1>3. \A t \in Subs : t # s => sub'[t] = sub[t] /\ view'[t] = view[t]
  BY Zenon, <1>2 DEF Subscribe, Subscriber, List, ReadOne, GoLive, Receive
<1>4. ASSUME NEW t \in Subs, t # s PROVE QueueOf(t)' /\ ViewOf(t)'
  <2>1. QueueOf(t) /\ ViewOf(t)
    BY Zenon DEF FeedInv, QueueInv, ViewInv
  <2>2. sub'[t] = sub[t] /\ view'[t] = view[t]
    BY Zenon, <1>3, <1>4
  <2>3. sub'[t].queue = sub[t].queue /\ sub'[t].pc = sub[t].pc /\ sub'[t].todo = sub[t].todo
    BY Zenon, <2>2
  <2>4. QueueOf(t)'
    BY Zenon, <1>1, <2>1, <2>3, RingKept
  <2>5. ViewOf(t)'
    BY Zenon, <1>1, <2>1, <2>2, <2>3, ViewKept
  <2> QED BY Zenon, <2>4, <2>5
<1>5. HeldInv'
  BY Zenon, <1>1 DEF FeedInv, HeldInv, Unread, Forgiven, Quiet
<1> QED BY Zenon, <1>4, <1>5 DEF OrderInv, QueueInv, ViewInv

LEMMA SnapshotOrder ==
  ASSUME FeedInv, NEW s \in Subs, Subscribe(s) \/ List(s) \/ (\E d \in Docs : ReadOne(s, d)) \/ GoLive(s)
  PROVE  OrderInv'
<1>1. Quiet /\ QueueOf(s) /\ ViewOf(s)
  BY Zenon DEF Quiet, Subscribe, List, ReadOne, GoLive, history, FeedInv, QueueInv, ViewInv
<1>2. /\ sub \in [Subs -> [pc : {"none", "list", "read", "live"}, todo : SUBSET Docs, queue : Seq(Events)]]
      /\ view \in [Subs -> [Docs -> 0..MaxWrites]]
  BY Zenon DEF FeedInv, FeedTypes, TypeOK
<1>3. \A d \in Docs : store[d].kind = "none" => store[d].n = 0
  BY Zenon DEF FeedInv, FeedTypes
<1>4. \A d \in Docs : store[d].kind \in {"hit", "miss", "sealed", "none"}
  BY Zenon DEF FeedInv, FeedTypes, TypeOK, Values, Kinds
<1>5. sub'[s].queue = sub[s].queue
  BY SMTT(60), <1>2 DEF Subscribe, List, ReadOne, GoLive
<1>6. ASSUME NEW x \in Docs
      PROVE  (Settled(s, x)' <=> Settled(s, x)) /\ (Queued(s, x)' <=> Queued(s, x)) /\ store'[x] = store[x]
  BY Zenon, <1>1, <1>5, QuietSettled DEF Queued, Quiet
<1>7. QueueOf(s)'
  <2>1. CASE Docs = {}
    BY ZenonT(60), <2>1 DEF QueueOf
  <2>2. CASE Docs # {}
    <3>1. sub[s].pc # "none" \/ sub[s].queue = <<>>
      BY Zenon, <1>1, <2>2 DEF ViewOf
    <3> QED BY Zenon, <1>1, <1>5, <3>1, RingKept
  <2> QED BY Zenon, <2>1, <2>2
<1>8. ViewOf(s)'
  <2>1. CASE Subscribe(s)
    <3>1. /\ sub[s].pc = "none" /\ sub'[s].todo = sub[s].todo /\ view' = view
          /\ sub'[s].pc = IF s \in Named THEN "list" ELSE "live"
      BY Zenon, <1>2, <2>1 DEF Subscribe
    <3>2. CASE s \in Named
      BY Zenon, <1>1, <3>1, <3>2 DEF ViewOf
    <3>3. CASE s \notin Named
      BY Zenon, <1>1, <3>1, <3>3 DEF ViewOf
    <3> QED BY Zenon, <3>2, <3>3
  <2>2. CASE List(s)
    <3>1. /\ sub[s].pc = "list" /\ view' = view /\ sub'[s].pc = "read"
          /\ sub'[s].todo = {d \in Docs : store[d] # Absent}
      BY ZenonT(60), <1>2, <2>2 DEF List
    <3>2. \A d \in Docs : d \notin sub'[s].todo => store[d].n = 0
      BY SMTT(60), <3>1 DEF Absent
    <3> QED BY Zenon, <1>1, <1>6, <3>1, <3>2 DEF ViewOf
  <2>3. CASE \E d \in Docs : ReadOne(s, d)
    <3>1. PICK d \in Docs : ReadOne(s, d)
      BY Zenon, <2>3
    <3>2. /\ sub[s].pc = "read" /\ sub'[s].pc = "read" /\ sub'[s].todo = sub[s].todo \ {d}
          /\ view'[s][d] = (IF store[d].kind = "hit" THEN store[d].n ELSE 0)
          /\ \A x \in Docs : x # d => view'[s][x] = view[s][x]
      BY Zenon, <1>2, <3>1 DEF ReadOne
    <3>3. Settled(s, d) => view'[s][d] = store[d].n
      BY ZenonT(60), <1>3, <1>4, <3>2 DEF Settled
    <3> QED BY ZenonT(60), <1>1, <1>6, <3>2, <3>3 DEF ViewOf
  <2>4. CASE GoLive(s)
    <3>1. /\ sub[s].pc = "read" /\ sub'[s].todo = sub[s].todo /\ view' = view
          /\ sub'[s].pc = "live" /\ sub[s].todo = {}
      BY Zenon, <1>2, <2>4 DEF GoLive
    <3> QED BY Zenon, <1>1, <1>6, <3>1 DEF ViewOf
  <2> QED BY Zenon, <2>1, <2>2, <2>3, <2>4
<1> QED BY Zenon, <1>7, <1>8, SubscriberFrame DEF Subscriber

LEMMA ReceiveOrder == ASSUME FeedInv, NEW s \in Subs, Receive(s) PROVE OrderInv'
<1> DEFINE q == sub[s].queue
           r == sub'[s].queue
<1>1. Quiet /\ QueueOf(s) /\ ViewOf(s)
  BY Zenon DEF Quiet, Receive, history, FeedInv, QueueInv, ViewInv
<1>2. /\ sub \in [Subs -> [pc : {"none", "list", "read", "live"}, todo : SUBSET Docs, queue : Seq(Events)]]
      /\ view \in [Subs -> [Docs -> 0..MaxWrites]]
  BY Zenon DEF FeedInv, FeedTypes, TypeOK
<1>3. /\ sub[s].pc = "live" /\ q # <<>> /\ q \in Seq(Events) /\ r = Tail(q)
      /\ sub'[s].pc = "live" /\ sub'[s].todo = sub[s].todo
  BY SMTT(60), <1>2 DEF Receive
<1>4. view' = IF Passes(Head(q).value) THEN [view EXCEPT ![s][Head(q).doc] = Head(q).value.n] ELSE view
  BY Zenon DEF Receive
<1>5. Len(q) \in Nat \ {0} /\ Len(r) = Len(q) - 1 /\ Head(q) = q[1] /\ 1 \in 1..Len(q)
  BY SMTT(60), <1>3
<1>6. ASSUME NEW i \in 1..Len(r) PROVE i + 1 \in 1..Len(q) /\ r[i] = q[i + 1]
  BY SMTT(60), <1>3, <1>5
<1>7. ASSUME NEW x \in Docs PROVE (Settled(s, x)' <=> Settled(s, x)) /\ store'[x] = store[x]
  BY Zenon, <1>1, QuietSettled DEF Quiet
<1>8. q[1].doc \in Docs
  <2>1. q[1] \in Events
    BY SMTT(60), <1>3, <1>5
  <2> QED BY Zenon, <2>1 DEF Events
<1>9. ASSUME NEW i \in 2..Len(q) PROVE i - 1 \in 1..Len(r) /\ r[i - 1] = q[i]
  <2>1. i - 1 \in 1..Len(r) /\ (i - 1) + 1 = i
    BY <1>5
  <2> QED BY Zenon, <1>6, <2>1
<1> HIDE DEF q, r
<1>10. ASSUME NEW i \in 1..Len(r), LastOf(r, i) PROVE LastOf(q, i + 1)
  <2>1. ASSUME NEW j \in 1..Len(q), j > i + 1 PROVE q[j].doc # q[i + 1].doc
    <3>1. j \in 2..Len(q) /\ j - 1 > i
      BY <1>5, <2>1
    <3>2. j - 1 \in 1..Len(r) /\ r[j - 1] = q[j] /\ r[i] = q[i + 1]
      BY SMTT(60), <1>6, <1>9, <3>1
    <3> QED BY Zenon, <1>10, <3>1, <3>2 DEF LastOf
  <2> QED BY Zenon, <2>1 DEF LastOf
<1>11. QueueOf(s)'
  <2>1. ASSUME NEW i \in 1..Len(r), NEW d \in Docs, r[i].doc = d, LastOf(r, i), Settled(s, d)'
        PROVE  r[i].value = store'[d]
    <3>1. i + 1 \in 1..Len(q) /\ r[i] = q[i + 1] /\ LastOf(q, i + 1)
      BY Zenon, <1>6, <1>10, <2>1
    <3>2. Settled(s, d) /\ store'[d] = store[d]
      BY Zenon, <1>7, <2>1
    <3> QED BY SMTT(60), <1>1, <1>3, <2>1, <3>1, <3>2 DEF QueueOf, q
  <2> QED BY Zenon, <1>3, <2>1 DEF QueueOf, r
<1>12. ViewOf(s)'
  <2>1. ASSUME NEW d \in Docs, ~Queued(s, d)', Settled(s, d)
        PROVE  view'[s][d] = store[d].n \/ (s \notin Named /\ view'[s][d] = 0)
    <3>1. ASSUME NEW i \in 2..Len(q) PROVE q[i].doc # d
      BY Zenon, <1>9, <2>1, <3>1 DEF Queued, r
    <3>2. CASE q[1].doc = d
      <4>1. LastOf(q, 1)
        BY SMTT(60), <1>5, <3>1, <3>2 DEF LastOf
      <4>2. q[1].value = store[d]
        BY SMTT(60), <1>1, <1>3, <1>5, <2>1, <3>2, <4>1 DEF QueueOf, q
      <4>3. Passes(Head(q).value) /\ Head(q).doc = d /\ Head(q).value.n = store[d].n
        BY Zenon, <1>5, <2>1, <3>2, <4>2 DEF Passes, Settled
      <4> QED BY ZenonT(60), <1>2, <1>4, <4>3
    <3>3. CASE q[1].doc # d
      <4>1. ~Queued(s, d)
        BY SMTT(60), <1>5, <3>1, <3>3 DEF Queued, q
      <4>2. view'[s][d] = view[s][d]
        BY Zenon, <1>2, <1>4, <1>5, <3>3
      <4> QED BY ZenonT(60), <1>1, <1>3, <2>1, <4>1, <4>2 DEF ViewOf
    <3> QED BY Zenon, <3>2, <3>3
  <2> QED BY ZenonT(60), <1>1, <1>3, <1>7, <2>1 DEF ViewOf
<1> QED BY Zenon, <1>11, <1>12, SubscriberFrame DEF Subscriber

LEMMA FeedStep == FeedInv /\ [Next]_(vars) => FeedInv'
<1> SUFFICES ASSUME FeedInv, [Next]_(vars) PROVE FeedInv'
  OBVIOUS
<1>2. OrderInv'
  <2>1. CASE UNCHANGED vars
    <3>1. UNCHANGED <<store, observed, held, lost, missed, sub, view, stale>>
      BY Zenon, <2>1 DEF vars, history
    <3>2. \A s \in Subs, x \in Docs : Settled(s, x)' => Settled(s, x) /\ store'[x] = store[x]
      BY Zenon, <3>1 DEF Settled, Unread, Forgiven
    <3>3. HeldInv'
      BY Zenon, <3>1 DEF FeedInv, HeldInv, Unread, Forgiven
    <3> QED BY Zenon, <3>1, <3>2, <3>3, OrderKept DEF OrderInv
  <2> QED BY Zenon, <2>1, PutOrder, DeleteOrder, ForwarderOrder, SnapshotOrder, ReceiveOrder DEF Next,
      Subscriber
<1> QED BY Zenon, <1>2, FeedTyped DEF FeedInv, OrderInv

\* An upsert is announced once; and as soon as nothing about a document is on its way,
\* every client knows it as the store has it, whatever order writes, deletions, reads,
\* lags and deliveries come in: the snapshot and the events of a subscription leave no
\* gap, and no event arrives that a later one should have replaced (node.rs,
\* forward_store_changes and subscribe; service.rs, subscribe).
THEOREM FeedAlwaysSound == Spec => []FeedIsSound
<1>1. FeedInv => FeedIsSound
  <2> SUFFICES ASSUME FeedInv PROVE NoGap /\ NoStaleEvent
    BY Zenon DEF FeedInv, FeedTypes, FeedIsSound
  <2>1. ASSUME NEW s \in Subs, NEW d \in Docs, sub[s].pc = "live", ~Pending(s, d), ~Excused(s, d)
        PROVE  view[s][d] = store[d].n \/ (s \notin Named /\ view[s][d] = 0)
    <3>1. observed \in Seq(Docs) /\ sub[s].queue \in Seq(Events)
      BY ZenonT(60) DEF FeedInv, FeedTypes, TypeOK
    <3>2. ~Unread(d)
      BY SMTT(60), <2>1, <3>1 DEF Pending, Range, Unread
    <3>3. ~Queued(s, d)
      BY SMTT(60), <2>1, <3>1 DEF Pending, KeysOf, Range, Queued
    <3>4. Settled(s, d) /\ d \notin sub[s].todo
      BY Zenon, <2>1, <3>2 DEF Pending, Excused, Settled, Forgiven
    <3> QED BY Zenon, <2>1, <3>3, <3>4 DEF FeedInv, ViewInv, ViewOf
  <2> QED BY ZenonT(60), <2>1, ChangesConstants DEF NoGap, NoStaleEvent
<1> QED BY <1>1, FeedStarts, FeedStep, PTL DEF Spec
=============================================================================
