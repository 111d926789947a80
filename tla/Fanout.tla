------------------------------- MODULE Fanout -------------------------------
(***************************************************************************)
(* The relay queue of a node (fanout.rs) between the listener that hears   *)
(* of every changed document (node.rs, sync_on_change) and the single      *)
(* worker that sends documents to peers.  A sequence number orders entries *)
(* by age only, so the set of (rank, seq, key) is a sequence of keys,      *)
(* oldest first; the rank of a key is a function of its collection.        *)
(***************************************************************************)
EXTENDS Naturals, Sequences, Functions

CONSTANTS
  Keys,        \* documents
  Rank,        \* QoSClass of each document's collection, 1 the most urgent
  Recipients,  \* the node's peers
  Steady,      \* peers that stay connected
  Local,       \* origin of a change made on this node
  MaxPending,  \* MAX_PENDING
  MaxBurst     \* MAX_PRIORITY_BURST

ASSUME FanoutConstants ==
  /\ Keys # {} /\ Rank \in [Keys -> 1..5] /\ Local \notin Recipients
  /\ MaxPending \in Nat /\ MaxBurst \in Nat

AllPeers == [all |-> TRUE, source |-> Local]
ExcludeSource(p) == [all |-> FALSE, source |-> p]
NoKind == [all |-> FALSE, source |-> Local]     \* no entry
Kinds == {AllPeers} \cup {ExcludeSource(p) : p \in Recipients}
Origins == Recipients \cup {Local}
Enqueuers == {"listener", "call"}

VARIABLES
  linked,     \* the transport's connected peers
  pending,    \* Inner.pending, oldest entry first
  entries,    \* Inner.entries: the kind of each pending document
  burst,      \* Inner.priority_burst
  rousing,    \* callers of enqueue or close that have not called notify_one yet
  permit,     \* the permit stored by notify_one
  closed,
  sender,     \* the worker: what it does, and the document and peers it serves
  news        \* peers that a change the entry stands for does not come from (history)

queued == <<pending, entries, burst>>
queueVars == <<linked, queued, rousing, permit, closed, sender, news>>

Idle == [pc |-> "pop", key |-> CHOOSE k \in Keys : TRUE, todo |-> {}]

QueueInit ==
  /\ linked = Recipients
  /\ pending = <<>> /\ entries = [k \in Keys |-> NoKind] /\ burst = 0
  /\ rousing = {} /\ permit = FALSE /\ closed = FALSE /\ sender = Idle
  /\ news = [k \in Keys |-> {}]

\* Which peers a kind sends to.
Reaches(kind, p) == kind.all \/ kind.source # p

\* Wrong on purpose: the later change decides.
MergeLast(a, b) == b

\* FanoutKind::merge
Merge(a, b) == IF ~a.all /\ ~b.all /\ a.source = b.source THEN a ELSE AllPeers

\* The place of the last in the order by rank and age: lowest priority, newest.
Victim(s) ==
  CHOOSE i \in DOMAIN s : \A j \in DOMAIN s :
    Rank[s[j]] < Rank[s[i]] \/ (Rank[s[j]] = Rank[s[i]] /\ j <= i)

\* The place of the first in that order: highest priority, oldest.
Highest(s) ==
  CHOOSE i \in DOMAIN s : \A j \in DOMAIN s :
    Rank[s[j]] > Rank[s[i]] \/ (Rank[s[j]] = Rank[s[i]] /\ j >= i)

Without(s, i) == [j \in 1..(Len(s) - 1) |-> IF j < i THEN s[j] ELSE s[j + 1]]

Overflows(s) == Len(s) > MaxPending

\* enqueue, under the lock: a pending document keeps its place; a full queue sheds one
\* entry.  Who inserted an entry lets go of the lock and then calls notify_one.
Enqueue(producer, k, kind, origin) ==
  /\ producer \notin rousing /\ UNCHANGED permit
  /\ IF entries[k] # NoKind
     THEN /\ entries' = [entries EXCEPT ![k] = Merge(@, kind)]
          /\ news' = [news EXCEPT ![k] = @ \cup (Recipients \ {origin})]
          /\ UNCHANGED <<pending, rousing>>
     ELSE LET grown == Append(pending, k)
              gone == IF Overflows(grown) THEN {grown[Victim(grown)]} ELSE {}
          IN /\ pending' = IF Overflows(grown) THEN Without(grown, Victim(grown)) ELSE grown
             /\ entries' = [x \in Keys |-> IF x \in gone THEN NoKind
                                           ELSE IF x = k THEN kind ELSE entries[x]]
             /\ news' = [x \in Keys |-> IF x \in gone THEN {}
                                        ELSE IF x = k THEN Recipients \ {origin} ELSE news[x]]
             /\ rousing' = rousing \cup {producer}

\* notify_one stores a permit, or wakes the worker.
Notify(producer) ==
  /\ producer \in rousing /\ rousing' = rousing \ {producer} /\ permit' = TRUE
  /\ UNCHANGED <<linked, queued, closed, sender, news>>

-----------------------------------------------------------------------------
\* sync_on_change takes a change from the store's ring.  A change that the ring
\* overwrites before is only logged: the queue never hears of it.
SyncOnChange(k, origin) ==
  /\ ~closed /\ origin \in linked \cup {Local}
  /\ Enqueue("listener", k, IF origin = Local THEN AllPeers ELSE ExcludeSource(origin), origin)
  /\ UNCHANGED <<linked, burst, closed, sender>>

\* queue_document_sync_with_all_peers, after a distribution was started.
QueueExplicit(k) ==
  /\ ~closed /\ Enqueue("call", k, AllPeers, Local)
  /\ UNCHANGED <<linked, burst, closed, sender>>

\* The store is gone; the listener sees the end of its ring and closes the queue:
\* the flag is set, then notify_one called.
CloseQueue ==
  /\ ~closed /\ "listener" \notin rousing
  /\ closed' = TRUE /\ rousing' = rousing \cup {"listener"}
  /\ UNCHANGED <<linked, queued, permit, sender, news>>

-----------------------------------------------------------------------------
\* Wrong on purpose: strict priority.
ServedStrictly == [at |-> Highest(pending), burst |-> 0]

\* pop: the most urgent entry, and the oldest after MaxBurst others in a row.
Served ==
  LET top == Highest(pending) IN
  IF top = 1 THEN [at |-> 1, burst |-> 0]
  ELSE IF burst >= MaxBurst THEN [at |-> 1, burst |-> 0]
  ELSE [at |-> top, burst |-> burst + 1]

\* The peers are read when the document's turn has come.
Pop ==
  /\ sender.pc = "pop" /\ pending # <<>>
  /\ LET k == pending[Served.at] IN
     /\ burst' = Served.burst
     /\ pending' = Without(pending, Served.at)
     /\ entries' = [entries EXCEPT ![k] = NoKind]
     /\ sender' = [pc |-> "fan", key |-> k,
                   todo |-> {p \in linked : Reaches(entries[k], p)}]
     /\ news' = [news EXCEPT ![k] = {}]
  /\ UNCHANGED <<linked, rousing, permit, closed>>

\* One peer; a failed sync is logged and the next peer follows.
SyncWith(p) ==
  /\ sender.pc = "fan" /\ p \in sender.todo
  /\ sender' = [sender EXCEPT !.todo = @ \ {p}]
  /\ UNCHANGED <<linked, queued, rousing, permit, closed, news>>

FanoutDone ==
  /\ sender.pc = "fan" /\ sender.todo = {}
  /\ sender' = Idle
  /\ UNCHANGED <<linked, queued, rousing, permit, closed, news>>

\* Nothing to pop: the worker looks at closed after it has let go of the lock.
PopEmpty ==
  /\ sender.pc = "pop" /\ pending = <<>> /\ burst' = 0
  /\ sender' = [Idle EXCEPT !.pc = "check"]
  /\ UNCHANGED <<linked, pending, entries, rousing, permit, closed, news>>

CheckClosed ==
  /\ sender.pc = "check"
  /\ sender' = [Idle EXCEPT !.pc = IF closed THEN "done" ELSE "wait"]
  /\ UNCHANGED <<linked, queued, rousing, permit, closed, news>>

Wake ==
  /\ sender.pc = "wait" /\ permit
  /\ permit' = FALSE /\ sender' = Idle
  /\ UNCHANGED <<linked, queued, rousing, closed, news>>

\* Connections come and go under the queue.
RecipientsChange(p) ==
  /\ linked' = IF p \in linked THEN linked \ {p} ELSE linked \cup {p}
  /\ UNCHANGED <<queued, rousing, permit, closed, sender, news>>

Worker == Pop \/ FanoutDone \/ PopEmpty \/ CheckClosed \/ Wake \/ \E p \in Recipients : SyncWith(p)

QueueNext ==
  \/ \E k \in Keys, o \in Origins : SyncOnChange(k, o)
  \/ \E k \in Keys : QueueExplicit(k)
  \/ CloseQueue
  \/ \E producer \in Enqueuers : Notify(producer)
  \/ Worker
  \/ \E p \in Recipients \ Steady : RecipientsChange(p)

QueueSpec == QueueInit /\ [][QueueNext]_queueVars

-----------------------------------------------------------------------------
\* Type invariant; the queue holds MAX_PENDING documents at most.
QueueTyped ==
  /\ linked \in SUBSET Recipients
  /\ pending \in Seq(Keys) /\ Len(pending) <= MaxPending
  /\ entries \in [Keys -> Kinds \cup {NoKind}] /\ burst \in 0..MaxBurst
  /\ rousing \subseteq Enqueuers /\ permit \in BOOLEAN /\ closed \in BOOLEAN
  /\ sender \in [pc : {"pop", "fan", "check", "wait", "done"}, key : Keys, todo : SUBSET Recipients]
  /\ news \in [Keys -> SUBSET Recipients]

(***************************************************************************)
(* The ordered set and the map of the queue hold the same documents, each  *)
(* once (enqueue, pop: fanout.rs:138-154, 192-193).  An entry that only    *)
(* the map holds would swallow every later change of its document.         *)
(***************************************************************************)
IndexesAgree ==
  /\ \A k \in Keys : entries[k] # NoKind <=> k \in Range(pending)
  /\ \A i, j \in DOMAIN pending : pending[i] = pending[j] => i = j

(***************************************************************************)
(* The worker never parks over work: a waiting worker with something       *)
(* pending, or after close, finds a stored permit or somebody about to     *)
(* store one, although a coalesced change stores none, an entry is there   *)
(* before its permit, and the worker takes a permit that came for an entry *)
(* it has already served (fanout.rs:138-143, 166, 240-248).                *)
(***************************************************************************)
NoLostWakeup ==
  sender.pc = "wait" /\ (pending # <<>> \/ closed) => permit \/ rousing # {}

(***************************************************************************)
(* Coalescing neither loses a recipient nor echoes: the kind of an entry   *)
(* reaches exactly the peers that are not the only source of the changes   *)
(* it stands for (FanoutKind::merge, and the worker's choice of peers).    *)
(***************************************************************************)
KindIsExact ==
  \A k \in Range(pending), p \in Recipients :
    Reaches(entries[k], p) <=> p \in news[k]

\* What leaves the queue in this step is served, or no less urgent document stays.
Sheds ==
  \A k \in Range(pending) \ Range(pending') :
    \/ sender'.pc = "fan" /\ sender'.key = k
    \/ \A j \in Range(pending') : Rank[j] <= Rank[k]

(***************************************************************************)
(* A document leaves the queue to be served, or to make room, and then no  *)
(* less urgent one stays (fanout.rs:149-164).                              *)
(***************************************************************************)
ShedsLowest == [][Sheds]_queueVars

\* The fanout queue is sound: its set and its map hold the same documents and
\* MAX_PENDING at most, a coalesced entry reaches exactly the peers it is news to, and
\* the worker never parks over pending work or after close (fanout.rs).
QueueIsSound == QueueTyped /\ IndexesAgree /\ KindIsExact /\ NoLostWakeup

(***************************************************************************)
(* No class starves: whatever is pending is served or shed, however often  *)
(* more urgent documents come back (MAX_PRIORITY_BURST), as long as the    *)
(* worker runs: a change that comes between its empty pop and its look at  *)
(* closed is left behind if the queue is closed in between as well.        *)
(***************************************************************************)
NoStarvation ==
  \A k \in Keys : []<>(k \notin Range(pending) \/ sender.pc = "done")
=============================================================================
