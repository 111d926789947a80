-------------------------------- MODULE Cli --------------------------------
(***************************************************************************)
(* The peat command line (crates/peat-cli).  Each command joins the mesh   *)
(* as a node of its own: it opens a store, in a temporary or a persistent  *)
(* data_dir, dials its peers, lets them sync for a while, does its work    *)
(* and ends, which ends its background tasks, too.  The model has one      *)
(* document and one peer.  A document is the set of the changes it holds,  *)
(* each named after the command that made it; merging is union.            *)
(***************************************************************************)
EXTENDS Naturals, FiniteSets

CONSTANTS
  Cmds,      \* commands that are run
  Seed,      \* a change the peer has from the start, if it has the document
  Disk,      \* the persistent data_dir
  NoteCap,   \* observer notifications that are kept
  MaxCuts  \* bound on links that fail

ASSUME CliConstants ==
  /\ Disk \notin Cmds /\ Seed \notin Cmds
  /\ NoteCap \in Nat \ {0} /\ MaxCuts \in Nat

Verbs == {"create", "update", "delete", "query", "observe"}
Readers == {"query", "observe"}
Changes == Cmds \cup {Seed}
Gone == "ended"

VARIABLES
  cmd,       \* the commands: what they do and where they are
  store,     \* the stores in the data_dirs
  lock,      \* the command that has the persistent store open
  link,      \* connections to the peer
  sent,      \* changes written to a connection, not yet processed
  node,      \* the changes the peer has
  notes,     \* notifications queued for observe
  shown,     \* the state observe last wrote
  cuts

cliVars == <<cmd, store, lock, link, sent, node, notes, shown, cuts>>

IsData(x) == x \in Cmds => cmd[x].verb # "delete"
\* Tombstones are kept in a table of their own.
Data(changes) == {x \in changes : IsData(x)}
Exists(changes) == \E x \in changes : IsData(x)
Dir(c) == IF cmd[c].persistent THEN Disk ELSE c
Local(c) == store[Dir(c)]
Open(c) == cmd[c].pc \notin {"start", "open", Gone}
Joined(c) == Open(c) /\ cmd[c].pc # "dial"
Linked(c) == link[c] = "up"

CliInit ==
  /\ cmd \in [Cmds -> [verb : Verbs, wait : BOOLEAN, persistent : BOOLEAN,
                       pc : {"start"}, base : {{}}, due : {FALSE}, code : {"none"}]]
  /\ \A c \in Cmds : cmd[c].verb \in Readers => ~cmd[c].wait
  /\ \E c \in Cmds : cmd[c].verb \notin Readers
  /\ store = [d \in Cmds \cup {Disk} |-> {}] /\ lock = Disk
  /\ link = [c \in Cmds |-> "none"] /\ sent = [c \in Cmds |-> {}]
  /\ node \in {{}, {Seed}}
  /\ notes = [c \in Cmds |-> 0] /\ shown = [c \in Cmds |-> {}] /\ cuts = 0

Turns(c, new) == cmd' = [cmd EXCEPT ![c] = new]
GoesTo(c, pc) == Turns(c, [cmd[c] EXCEPT !.pc = pc])

\* The process ends, in one of three ways that a caller tells apart by their exit
\* codes (the codes of failures are one), and with it its connection: what the
\* peer has not processed is lost, and so is a temporary store.
Leave(c, code) ==
  /\ Turns(c, [cmd[c] EXCEPT !.pc = Gone, !.code = code, !.due = FALSE, !.base = {}])
  /\ lock' = IF lock = c THEN Disk ELSE lock
  /\ store' = [store EXCEPT ![c] = {}]
  /\ link' = [link EXCEPT ![c] = "none"] /\ sent' = [sent EXCEPT ![c] = {}]
  /\ notes' = [notes EXCEPT ![c] = 0] /\ shown' = [shown EXCEPT ![c] = {}]

--------------------------------------------------------------------------
\* Arguments come first, and for create the document and --dry-run, too.
CreateArguments(c) ==
  /\ cmd[c].verb = "create" /\ cmd[c].pc = "start"
  /\ \/ Leave(c, "failed") \/ Leave(c, "ok")
     \/ GoesTo(c, "open") /\ UNCHANGED <<store, lock, link, sent, notes, shown>>
  /\ UNCHANGED <<node, cuts>>

\* update reads --from here.
UpdateArguments(c) ==
  /\ cmd[c].verb = "update" /\ cmd[c].pc = "start"
  /\ \/ Leave(c, "failed")
     \/ GoesTo(c, "open") /\ UNCHANGED <<store, lock, link, sent, notes, shown>>
  /\ UNCHANGED <<node, cuts>>

OtherArguments(c) ==
  /\ cmd[c].verb \in {"delete", "query", "observe"} /\ cmd[c].pc = "start"
  /\ \/ Leave(c, "failed")
     \/ GoesTo(c, "open") /\ UNCHANGED <<store, lock, link, sent, notes, shown>>
  /\ UNCHANGED <<node, cuts>>

\* creds::load fails.
NoCreds(c) == Leave(c, "failed")

\* The credentials and the timeout are read; MeshSession::open makes the data_dir
\* and opens the store, which one process can do at a time.
OpenStore(c) ==
  /\ cmd[c].pc = "open"
  /\ \/ NoCreds(c)
     \/ /\ cmd[c].persistent => lock = Disk
        /\ lock' = IF cmd[c].persistent THEN c ELSE lock
        /\ GoesTo(c, "dial") /\ UNCHANGED <<store, link, sent, notes, shown>>
  /\ UNCHANGED <<node, cuts>>

\* The configured peer is dialled, with retries; if there is one it must be
\* reached.  The initial sync sends what is stored.
Dial(c) ==
  /\ cmd[c].pc = "dial"
  /\ \/ Leave(c, "failed")
     \/ \E l \in {"up", "none"} :
          /\ link' = [link EXCEPT ![c] = l]
          /\ sent' = [sent EXCEPT ![c] = IF l = "up" THEN Local(c) ELSE {}]
          /\ GoesTo(c, "settle") /\ UNCHANGED <<store, lock, notes, shown>>
  /\ UNCHANGED <<node, cuts>>

\* After the settle window; observe subscribes only now.
Begin(c) ==
  /\ cmd[c].pc = "settle" /\ GoesTo(c, cmd[c].verb)
  /\ shown' = IF cmd[c].verb = "observe" THEN [shown EXCEPT ![c] = Data(Local(c))] ELSE shown
  /\ UNCHANGED <<store, lock, link, sent, node, notes, cuts>>

\* A peer announced by mDNS, after the settle window or later, is dialled unless
\* it is connected.  A failure other than a timeout rules it out for good.
MdnsFinds(c) ==
  /\ Joined(c) /\ link[c] = "none"
  /\ \/ /\ link' = [link EXCEPT ![c] = "up"] /\ sent' = [sent EXCEPT ![c] = Local(c)]
     \/ link' = [link EXCEPT ![c] = "banned"] /\ UNCHANGED sent
  /\ UNCHANGED <<cmd, store, lock, node, notes, shown, cuts>>

\* The peer's documents arrive at any time; the observer also hears of rounds
\* that bring nothing new.
SyncDocuments(c) ==
  /\ Joined(c) /\ Linked(c) /\ Exists(node)
  /\ store' = [store EXCEPT ![Dir(c)] = Local(c) \cup Data(node)]
  /\ notes' = [notes EXCEPT ![c] =
       IF cmd[c].pc = "observe" /\ notes[c] < NoteCap THEN notes[c] + 1 ELSE notes[c]]
  /\ UNCHANGED <<cmd, lock, link, sent, node, shown, cuts>>

\* Tombstones arrive, too, of which the observer hears nothing.
SyncTombstones(c) ==
  /\ Joined(c) /\ Linked(c)
  /\ store' = [store EXCEPT ![Dir(c)] = Local(c) \cup (node \ Data(node))]
  /\ UNCHANGED <<cmd, lock, link, sent, node, notes, shown, cuts>>

\* What was written to the connection is processed.
NodeReceives(c) ==
  /\ Linked(c) /\ sent[c] # {}
  /\ node' = node \cup sent[c] /\ sent' = [sent EXCEPT ![c] = {}]
  /\ UNCHANGED <<cmd, store, lock, link, notes, shown, cuts>>

LinkFails(c) ==
  /\ Linked(c) /\ cuts < MaxCuts /\ cuts' = cuts + 1
  /\ link' = [link EXCEPT ![c] = "none"] /\ sent' = [sent EXCEPT ![c] = {}]
  /\ UNCHANGED <<cmd, store, lock, node, notes, shown>>

\* spawn_on_change_pusher: in the background, for documents only
Pusher(c) ==
  /\ Joined(c) /\ cmd[c].due /\ Turns(c, [cmd[c] EXCEPT !.due = FALSE])
  /\ sent' = IF Linked(c) THEN [sent EXCEPT ![c] = sent[c] \cup {c}] ELSE sent
  /\ UNCHANGED <<store, lock, link, node, notes, shown, cuts>>

--------------------------------------------------------------------------
\* The store tells the pusher.
AfterWrite(c) ==
  Turns(c, [cmd[c] EXCEPT !.pc = IF cmd[c].wait THEN "push" ELSE "done", !.due = TRUE])
\* store.put of a document built from nothing
Replace(c) == {x \in Local(c) : ~IsData(x)} \cup {c}

\* strict: an existing document is refused
Create(c) ==
  /\ cmd[c].pc = "create"
  /\ \/ Exists(Local(c)) /\ Leave(c, "failed")
     \/ ~Exists(Local(c)) /\ GoesTo(c, "put") /\ UNCHANGED <<store, lock, link, sent, notes, shown>>
  /\ UNCHANGED <<node, cuts>>

\* store.put, apply_delta or put_tombstone: the write is one transaction, or an error.
Stores(c, changes) == store' = [store EXCEPT ![Dir(c)] = changes]
WriteFails(c) == Leave(c, "failed") /\ UNCHANGED <<node, cuts>>

Put(c) ==
  /\ cmd[c].pc = "put"
  /\ \/ WriteFails(c)
     \/ /\ Stores(c, Replace(c)) /\ AfterWrite(c)
        /\ UNCHANGED <<lock, link, sent, node, notes, shown, cuts>>

\* The result is validated after the join, and --dry-run ends here.
Update(c) ==
  /\ cmd[c].pc = "update"
  /\ \/ Leave(c, "failed") \/ Leave(c, "ok")
     \/ /\ Turns(c, [cmd[c] EXCEPT !.base = Local(c), !.pc = IF Exists(Local(c)) THEN "delta" ELSE "put"])
        /\ UNCHANGED <<store, lock, link, sent, notes, shown>>
  /\ UNCHANGED <<node, cuts>>

\* Wrong on purpose: the document is built anew from what was read before.
DeltaRebuilds(c) ==
  /\ cmd[c].pc = "delta" /\ Stores(c, cmd[c].base \cup {c}) /\ AfterWrite(c)
  /\ UNCHANGED <<lock, link, sent, node, notes, shown, cuts>>

\* apply_delta: only the new change is added to what the store has by now
Delta(c) ==
  /\ cmd[c].pc = "delta"
  /\ \/ WriteFails(c)
     \/ /\ Stores(c, Local(c) \cup {c}) /\ AfterWrite(c)
        /\ UNCHANGED <<lock, link, sent, node, notes, shown, cuts>>

\* The tombstone is stored, then sent: the pusher does not see it.
Delete(c) ==
  /\ cmd[c].pc = "delete"
  /\ \/ WriteFails(c)
     \/ /\ Stores(c, Local(c) \cup {c}) /\ GoesTo(c, "push")
        /\ UNCHANGED <<lock, link, sent, node, notes, shown, cuts>>

\* Wrong on purpose: delete asks for the round trip after a push that failed, too.
PushGoesOn(c) ==
  /\ cmd[c].pc = "push" /\ GoesTo(c, IF cmd[c].wait THEN "roundTrip" ELSE "done")
  /\ sent' = sent \/ (Linked(c) /\ sent' = [sent EXCEPT ![c] = sent[c] \cup {c}])
  /\ UNCHANGED <<store, lock, link, node, notes, shown, cuts>>

\* sync_document_with_all_peers and send_tombstones_to_peer write to the connection.
\* Without a peer there is nothing to write; an error on a live link is logged.  For
\* delete both mean that there is no round trip with that peer.
Push(c) ==
  /\ cmd[c].pc = "push"
  /\ \/ /\ Linked(c) /\ sent' = [sent EXCEPT ![c] = sent[c] \cup {c}]
        /\ GoesTo(c, IF cmd[c].wait THEN "roundTrip" ELSE "done")
     \/ /\ GoesTo(c, IF cmd[c].wait /\ cmd[c].verb # "delete" THEN "roundTrip" ELSE "done")
        /\ UNCHANGED sent
  /\ UNCHANGED <<store, lock, link, node, notes, shown, cuts>>

\* sync_all_documents_with_peer sends the documents, if there is a peer.
RoundTrip(c) ==
  /\ cmd[c].pc = "roundTrip"
  /\ \/ /\ Linked(c) /\ GoesTo(c, "answer")
        /\ sent' = [sent EXCEPT ![c] = sent[c] \cup Data(Local(c))]
     \/ GoesTo(c, "done") /\ UNCHANGED sent
  /\ UNCHANGED <<store, lock, link, node, notes, shown, cuts>>

\* It answers once the peer has processed what it was sent before, or fails, with the
\* link or without: that is logged, and the command ends as if it had answered.
Answer(c) ==
  /\ cmd[c].pc = "answer"
  /\ (Linked(c) /\ sent[c] = {} /\ GoesTo(c, "confirmed")) \/ GoesTo(c, "done")
  /\ UNCHANGED <<store, lock, link, sent, node, notes, shown, cuts>>

Done(c) == cmd[c].pc \in {"done", "confirmed"} /\ Leave(c, "ok") /\ UNCHANGED <<node, cuts>>

--------------------------------------------------------------------------
\* query polls; with nothing found it ends once its time is up.
Query(c) ==
  /\ cmd[c].pc = "query" /\ Exists(Local(c)) /\ Leave(c, "ok") /\ UNCHANGED <<node, cuts>>

QueryDeadline(c) ==
  /\ cmd[c].pc = "query" /\ ~Exists(Local(c)) /\ Leave(c, "ok") /\ UNCHANGED <<node, cuts>>

\* observe reads the document on a notification; the digest of what it last
\* wrote suppresses rounds that changed nothing.
ObserveReads(c) ==
  /\ cmd[c].pc = "observe" /\ notes[c] > 0 /\ notes' = [notes EXCEPT ![c] = notes[c] - 1]
  /\ shown' = [shown EXCEPT ![c] = Data(Local(c))]
  /\ UNCHANGED <<cmd, store, lock, link, sent, node, cuts>>

\* SIGINT, or the reader of the pipe is gone
ObserveEnds(c) ==
  /\ cmd[c].pc = "observe" /\ (Leave(c, "interrupted") \/ Leave(c, "ok"))
  /\ UNCHANGED <<node, cuts>>

Work(c) ==
  \/ CreateArguments(c) \/ UpdateArguments(c) \/ OtherArguments(c) \/ OpenStore(c)
  \/ Dial(c) \/ Begin(c) \/ Create(c) \/ Put(c) \/ Update(c) \/ Delta(c) \/ Delete(c)
  \/ Push(c) \/ RoundTrip(c) \/ Answer(c) \/ Done(c)
  \/ Query(c) \/ QueryDeadline(c) \/ ObserveReads(c)

CliNext == \E c \in Cmds :
  \/ Work(c) \/ ObserveEnds(c) \/ MdnsFinds(c) \/ SyncDocuments(c) \/ SyncTombstones(c)
  \/ NodeReceives(c) \/ LinkFails(c) \/ Pusher(c)

CliSpec == CliInit /\ [][CliNext]_cliVars

--------------------------------------------------------------------------
\* The state has its type; a persistent store is open in one process.
CliTypes ==
  /\ \A c \in Cmds :
       /\ cmd[c].verb \in Verbs /\ cmd[c].base \subseteq Changes /\ cmd[c].due \in BOOLEAN
       /\ cmd[c].code \in {"none", "ok", "failed", "interrupted"}
       /\ link[c] \in {"none", "up", "banned"} /\ sent[c] \subseteq Changes
       /\ notes[c] \in 0..NoteCap /\ shown[c] \subseteq Changes
       /\ cmd[c].persistent /\ Open(c) => lock = c
  /\ store \in [Cmds \cup {Disk} -> SUBSET Changes] /\ node \subseteq Changes

\* --wait-for-sync: a round trip that was answered confirms the write, although the push
\* before it may have failed: a document goes with the round trip itself, and a tombstone,
\* which does not, had been written to the connection (create.rs: "confirming the create
\* was received", delete.rs: "giving us a delivery confirmation").  A command whose round
\* trip failed ends in the same way, so that its exit code says nothing of this.
ConfirmedArrives == \A c \in Cmds : cmd[c].pc = "confirmed" => c \in node

\* A command that ends with an error has changed nothing, anywhere.
RefusedWroteNothing == \A c \in Cmds :
  cmd[c].code = "failed" =>
    c \notin node /\ \A d \in DOMAIN store : c \notin store[d]

\* What a command wrote to the persistent store stays there: nothing that runs
\* later, and nothing that syncs in meanwhile, takes the change away.
PersistedStays == [][
  \A x \in Cmds : cmd[x].pc = Gone /\ cmd[x].persistent /\ x \in store[Disk]
                   => x \in store'[Disk]]_cliVars

\* update evolves the document: whatever synced in since it read the document is
\* still there after its write (update.rs: "the existing operation history on
\* the doc survives the round-trip-edit pattern").
UpdateKeepsHistory == [][
  \A c \in Cmds : cmd[c].pc = "delta" /\ cmd'[c].pc # Gone
                   => Local(c) \subseteq store'[Dir(c)]]_cliVars

\* observe has written the document's current state once it has read all that it was
\* notified of since it subscribed, although notifications are dropped, tombstones
\* bring none, and rounds that change nothing are suppressed.
ObserveIsCurrent == \A c \in Cmds :
  cmd[c].pc = "observe" /\ notes[c] = 0 => shown[c] = Data(Local(c))

(***************************************************************************)
(* All of it: a confirmed write has reached the peer, a command that       *)
(* failed wrote nothing, observe shows the current state, nothing takes    *)
(* back what is in the persistent store, and update keeps what syncs in    *)
(* under it.                                                               *)
(***************************************************************************)
CommandsAreSound ==
  /\ [](CliTypes /\ ConfirmedArrives /\ RefusedWroteNothing /\ ObserveIsCurrent)
  /\ PersistedStays /\ UpdateKeepsHistory
============================================================================
