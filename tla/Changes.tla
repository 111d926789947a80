------------------------------ MODULE Changes ------------------------------
(***************************************************************************)
(* Documents and those who watch them.  Writes reach the store from the    *)
(* RPCs and from sync; the store tells its observers the key, and the      *)
(* forwarder (node.rs, forward_store_changes) reads the document and sends *)
(* a ChangeEvent to every subscriber.  DeleteDocument sends its event by   *)
(* itself, past the forwarder.  A subscription (service.rs, subscribe)     *)
(* first joins the channel, then reads a snapshot of the collections it    *)
(* names, and passes on the snapshot before the events.  Both channels are *)
(* tokio broadcast rings, which drop the oldest entry for a receiver that  *)
(* is too slow.                                                            *)
(***************************************************************************)
EXTENDS Naturals, Sequences, FiniteSets, Functions

CONSTANTS
  Docs,
  Subs,       \* subscriptions
  Named,      \* those that name the collection and so get a snapshot
  ObserverCap,\* entries the store's observer channel keeps
  ChangeCap,  \* entries the channel of ChangeEvents keeps
  MaxWrites   \* bound on changes of the store

ASSUME ChangesConstants ==
  /\ "none" \notin Docs /\ Named \subseteq Subs
  /\ ObserverCap \in Nat \ {0} /\ ChangeCap \in Nat \ {0} /\ MaxWrites \in Nat

VARIABLES
  store,      \* the document under a key: its version and what it holds
  writes,
  observed,   \* keys the forwarder has not received yet
  held,       \* the event the forwarder is about to send
  sub,        \* the subscriptions and the events queued for each
  view,       \* the version each client knows of each document
  lost,       \* documents whose last notification the forwarder lost
  missed,     \* documents whose last event a subscription lost
  stale,      \* documents deleted between the forwarder's read and its event
  owed        \* changes not yet announced (these four are history)

history == <<lost, missed, stale, owed>>
vars == <<store, writes, observed, held, sub, view, history>>

\* "hit" passes the query of the subscriptions, "miss" does not, and "sealed"
\* is a ciphertext that the node's key does not open.
Kinds == {"hit", "miss", "sealed"}
Absent == [n |-> 0, kind |-> "none"]
Nothing == [doc |-> "none", value |-> Absent]
NoSub == [pc |-> "none", todo |-> {}, queue |-> <<>>]

Init ==
  /\ store = [d \in Docs |-> Absent] /\ writes = 0
  /\ observed = <<>> /\ held = Nothing
  /\ sub = [s \in Subs |-> NoSub] /\ view = [s \in Subs |-> [d \in Docs |-> 0]]
  /\ lost = {} /\ missed = [s \in Subs |-> {}] /\ stale = {} /\ owed = 0

--------------------------------------------------------------------------
\* A broadcast ring as one receiver sees it: the oldest entry makes room.
PushUnbounded(ring, x, cap) == Append(ring, x)
Push(ring, x, cap) == Append(IF Len(ring) = cap THEN Tail(ring) ELSE ring, x)

\* What an entry for d pushed out of a ring of keys leaves unannounced.
Forgotten(keys, d, cap, before) ==
  (before \cup {k \in {keys[1] : i \in {1} \cap DOMAIN keys} :
                  Len(keys) = cap /\ k \notin Range(Tail(keys))}) \ {d}

KeysOf(queue) == [i \in DOMAIN queue |-> queue[i].doc]
JoinedLate == {s \in Subs : sub[s].pc = "live"}
\* The receivers that node.subscribe() made.
Joined == {s \in Subs : sub[s].pc # "none"}

\* change_tx.send
Publish(e) ==
  /\ sub' = [s \in Subs |->
       IF s \in Joined THEN [sub[s] EXCEPT !.queue = Push(@, e, ChangeCap)] ELSE sub[s]]
  /\ missed' = [s \in Subs |->
       IF s \in Joined THEN Forgotten(KeysOf(sub[s].queue), e.doc, ChangeCap, missed[s])
       ELSE missed[s]]

\* The store tells its observers of d.
Notify(d) ==
  /\ observed' = Push(observed, d, ObserverCap)
  /\ lost' = Forgotten(observed, d, ObserverCap, lost)
  /\ owed' = IF Len(observed) = ObserverCap THEN owed ELSE owed + 1

PutAnnouncing(d, kind) ==
  /\ writes < MaxWrites /\ writes' = writes + 1
  /\ store' = [store EXCEPT ![d] = [n |-> writes + 1, kind |-> kind]]
  /\ Publish([doc |-> d, value |-> store'[d]])
  /\ observed' = Push(observed, d, ObserverCap)
  /\ lost' = Forgotten(observed, d, ObserverCap, lost)
  /\ owed' = (IF Len(observed) = ObserverCap THEN owed ELSE owed + 1) - 1
  /\ UNCHANGED <<held, view, stale>>
\* write_document, or a document that sync merges into the store: the forwarder
\* announces it.
Put(d, kind) ==
  /\ writes < MaxWrites /\ writes' = writes + 1
  /\ store' = [store EXCEPT ![d] = [n |-> writes + 1, kind |-> kind]]
  /\ Notify(d)
  /\ UNCHANGED <<held, sub, view, missed, stale>>

DeleteSilently(d, notifies) ==
  /\ writes < MaxWrites /\ writes' = writes + 1
  /\ store' = [store EXCEPT ![d] = Absent]
  /\ stale' = IF held.doc = d /\ held.value # Absent THEN stale \cup {d} ELSE stale
  /\ IF notifies THEN Notify(d) ELSE UNCHANGED <<observed, lost, owed>>
  /\ UNCHANGED <<held, sub, view, missed>>
\* delete_document: the store may tell its observers of it, too.
Delete(d, notifies) ==
  /\ writes < MaxWrites /\ writes' = writes + 1
  /\ store' = [store EXCEPT ![d] = Absent]
  /\ Publish([doc |-> d, value |-> Absent])
  /\ stale' = IF held.doc = d /\ held.value # Absent THEN stale \cup {d} ELSE stale
  /\ IF notifies THEN Notify(d) ELSE UNCHANGED <<observed, lost, owed>>
  /\ UNCHANGED <<held, view>>

--------------------------------------------------------------------------
ForwarderReadsUntilLag ==
  /\ lost = {} /\ held = Nothing /\ observed # <<>>
  /\ LET d == Head(observed) IN
       IF store[d].kind = "sealed"
       THEN held' = Nothing /\ owed' = owed - 1
       ELSE held' = [doc |-> d, value |-> store[d]] /\ UNCHANGED owed
  /\ observed' = Tail(observed)
  /\ UNCHANGED <<store, writes, sub, view, lost, missed, stale>>
\* forward_store_changes receives a key and reads the document; one that it
\* cannot decrypt is counted and skipped.
ForwarderReads ==
  /\ held = Nothing /\ observed # <<>>
  /\ LET d == Head(observed) IN
       IF store[d].kind = "sealed"
       THEN held' = Nothing /\ owed' = owed - 1
       ELSE held' = [doc |-> d, value |-> store[d]] /\ UNCHANGED owed
  /\ observed' = Tail(observed)
  /\ UNCHANGED <<store, writes, sub, view, lost, missed, stale>>

\* An upsert without data if the document was gone.
ForwarderSends ==
  /\ held # Nothing /\ held' = Nothing /\ Publish(held) /\ owed' = owed - 1
  /\ UNCHANGED <<store, writes, observed, view, lost, stale>>

--------------------------------------------------------------------------
\* node.subscribe() comes first; a named collection is then read.
Subscribe(s) ==
  /\ sub[s].pc = "none"
  /\ sub' = [sub EXCEPT ![s].pc = IF s \in Named THEN "list" ELSE "live"]
  /\ UNCHANGED <<store, writes, observed, held, view, history>>

List(s) ==
  /\ sub[s].pc = "list"
  /\ sub' = [sub EXCEPT ![s].pc = "read", ![s].todo = {d \in Docs : store[d] # Absent}]
  /\ UNCHANGED <<store, writes, observed, held, view, history>>

\* get_document of one listed document; what is gone, sealed or does not
\* match is left out.
ReadOne(s, d) ==
  /\ sub[s].pc = "read" /\ d \in sub[s].todo
  /\ sub' = [sub EXCEPT ![s].todo = @ \ {d}]
  /\ view' = [view EXCEPT ![s][d] = IF store[d].kind = "hit" THEN store[d].n ELSE 0]
  /\ UNCHANGED <<store, writes, observed, held, history>>

GoLive(s) ==
  /\ sub[s].pc = "read" /\ sub[s].todo = {}
  /\ sub' = [sub EXCEPT ![s].pc = "live"]
  /\ UNCHANGED <<store, writes, observed, held, view, history>>

\* event_passes: an event without data always does.
Passes(value) == value.kind # "miss"

Receive(s) ==
  /\ sub[s].pc = "live" /\ sub[s].queue # <<>>
  /\ LET e == Head(sub[s].queue) IN
       view' = IF Passes(e.value) THEN [view EXCEPT ![s][e.doc] = e.value.n] ELSE view
  /\ sub' = [sub EXCEPT ![s].queue = Tail(@)]
  /\ UNCHANGED <<store, writes, observed, held, history>>

Forwarder == ForwarderReads \/ ForwarderSends
Subscriber(s) == List(s) \/ (\E d \in Docs : ReadOne(s, d)) \/ GoLive(s) \/ Receive(s)

Next ==
  \/ \E d \in Docs : (\E k \in Kinds : Put(d, k)) \/ (\E b \in BOOLEAN : Delete(d, b))
  \/ Forwarder
  \/ \E s \in Subs : Subscribe(s) \/ Subscriber(s)

Spec == Init /\ [][Next]_vars
\* The forwarder's task and the clients keep receiving.
FairSpec == Spec /\ WF_vars(Forwarder) /\ \A s \in Subs : WF_vars(Subscriber(s))

--------------------------------------------------------------------------
Values == [n : 0..MaxWrites, kind : Kinds \cup {"none"}]
Events == [doc : Docs, value : Values]

\* The state has its type, and no receiver is kept more than its ring holds.
TypeOK ==
  /\ store \in [Docs -> Values] /\ writes \in 0..MaxWrites
  /\ observed \in Seq(Docs) /\ Len(observed) <= ObserverCap /\ held \in Events \cup {Nothing}
  /\ \A s \in Subs :
       /\ sub[s].pc \in {"none", "list", "read", "live"} /\ sub[s].todo \subseteq Docs
       /\ sub[s].queue \in Seq(Events) /\ Len(sub[s].queue) <= ChangeCap
       /\ missed[s] \subseteq Docs
  /\ view \in [Subs -> [Docs -> 0..MaxWrites]]
  /\ lost \subseteq Docs /\ stale \subseteq Docs

\* An upsert is announced once, by the forwarder (node.rs: "The forwarder is
\* the single source of truth for upsert events"): what has not been announced
\* is exactly what is queued for it or in its hands.
AnnouncedOnce == owed = Len(observed) + (IF held = Nothing THEN 0 ELSE 1)

Pending(s, d) ==
  \/ d \in Range(observed) \/ held.doc = d
  \/ d \in Range(KeysOf(sub[s].queue)) \/ d \in sub[s].todo

Excused(s, d) ==
  \/ d \in lost \/ d \in missed[s] \/ d \in stale
  \/ store[d].kind \in {"miss", "sealed"}

\* The snapshot and the events leave no gap: a client of a subscription that
\* named its collection knows the document as the store has it as soon as
\* nothing about it is on the way.  Excused are documents whose last event was
\* lost in a ring, those deleted between the forwarder's read and its event, and
\* those that the query or the key now keeps from the client.
NoGap == \A s \in Named, d \in Docs :
  sub[s].pc = "live" /\ ~Pending(s, d) /\ ~Excused(s, d) => view[s][d] = store[d].n

\* What a subscription without a snapshot is told after it joined is right, too.
NoStaleEvent == \A s \in Subs \ Named, d \in Docs :
  sub[s].pc = "live" /\ ~Pending(s, d) /\ ~Excused(s, d) => view[s][d] \in {0, store[d].n}

\* An upsert is announced once, a subscription's snapshot and its events leave no gap,
\* and what a client is told is not older than what it should know.
FeedIsSound == TypeOK /\ AnnouncedOnce /\ NoGap /\ NoStaleEvent

\* Lost entries do not end the stream: once the writes stop, each live client comes to
\* know every document as it is, except those it is excused for (node.rs,
\* forward_store_changes, and service.rs, subscribe: both go on after a lag).
CatchesUp == \A s \in Named :
  []<>(sub[s].pc = "live" => \A d \in Docs : view[s][d] = store[d].n \/ Excused(s, d))
============================================================================
