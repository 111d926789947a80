------------------------------ MODULE Delivery ------------------------------
(***************************************************************************)
(* How a remote Peat document reaches NATS at most once: the private event *)
(* feed (node.rs), the event router, the delivery coordinator and the      *)
(* egress worker (egress.rs), the reconciliation scanner (reconcile.rs),   *)
(* local mutations with their exclusion records (node.rs), readiness, the  *)
(* health of the two journals, shutdown, and crashes.                      *)
(*                                                                         *)
(* A journal is here what Journal.tla shows it to be: a durable map whose  *)
(* reservations are granted once, which refuses callers after an error and *)
(* may, after one, come back with an unanswered reservation in place or    *)
(* not open at all.  The link to the broker is one flag, connected with    *)
(* every subject established; Supervisor.tla is about how it is set.       *)
(***************************************************************************)
EXTENDS Integers, Sequences, FiniteSets

CONSTANTS
  Docs,         \* document identities of the mapped collections
  Envelope,     \* what the stored body of each document looks like
  FifoCap,      \* EGRESS_QUEUE_CAPACITY
  EventCap,     \* capacity of the private event broadcast
  NoticeCap,    \* capacity of the store observer broadcast
  MaxNotices,   \* bound: remote changes in a behaviour
  MaxWrites,    \* bound: local mutations
  MaxFlaps,     \* bound: losses of the broker link
  MaxFaults,    \* bound: journal and store errors
  MaxCrashes    \* bound: process crashes

ASSUME DeliveryConstants ==
  /\ "none" \notin Docs
  /\ Envelope \in [Docs -> [bounded : BOOLEAN,
                            parses : BOOLEAN, kind : BOOLEAN, version : BOOLEAN,
                            mapped : BOOLEAN, subject : BOOLEAN,
                            local : BOOLEAN, fits : BOOLEAN]]
  /\ FifoCap \in Nat \ {0}
  /\ EventCap \in Nat \ {0}
  /\ NoticeCap \in Nat \ {0}
  /\ {MaxNotices, MaxWrites, MaxFlaps, MaxFaults, MaxCrashes} \subseteq Nat

VARIABLES
  content,    \* store: "absent", "remote", or "local" once mutated locally
  excluded,   \* documents with a durable LocalExcluded record
  delivery,   \* durable delivery record: "none", "Reserved" or "Completed"
  uncertain,  \* documents whose reservation ended in an I/O error
  exUp,       \* the exclusion worker is healthy
  delUp,      \* the delivery worker is healthy
  notices,    \* store observer broadcast, as seen by the bridge forwarder
  events,     \* private event broadcast, as seen by the router: the
              \* document and the body that was read for it
  lagged,     \* the router has a pending Lagged error
  task,       \* router and reconciler: program counter, document, body
  todo,       \* keys the current scan still has to look at
  trig,       \* occupancy of the one-slot trigger channel
  pending,    \* coalesced trigger
  fifo,       \* egress FIFO
  egress,     \* egress worker: program counter and document
  writer,     \* a local mutation between its exclusion record and its write
  ready,      \* readiness inputs: accepting, delivery, exclusion, linked
  published,  \* history: how often NATS accepted each document
  dropped,    \* history: admitted documents the worker dropped unpublished
  used        \* bounds used up: notices, writes, flaps, faults, crashes

store == <<content, writer>>
journals == <<excluded, delivery, uncertain, exUp, delUp>>
feed == <<notices, events, lagged>>
scan == <<todo, trig, pending>>
out == <<fifo, egress, published, dropped>>
vars == <<store, journals, feed, task, scan, out, ready, used>>

Offerers == {"router", "recon"}
Idle == [pc |-> "idle", doc |-> "none", body |-> "absent"]
AtPc(p, d, b) == [pc |-> p, doc |-> d, body |-> b]

IsReady == ready.accepting /\ ready.delivery /\ ready.exclusion /\ ready.linked

Spend(b) == used' = [used EXCEPT ![b] = @ + 1]

Init ==
  /\ content = [d \in Docs |-> "absent"] /\ writer = Idle
  /\ excluded = {} /\ delivery = [d \in Docs |-> "none"] /\ uncertain = {}
  /\ exUp = TRUE /\ delUp = TRUE
  /\ notices = <<>> /\ events = <<>> /\ lagged = FALSE
  /\ task = [o \in Offerers |-> Idle]
  /\ todo = {} /\ trig = 0 /\ pending = FALSE
  /\ fifo = <<>> /\ egress = Idle
  /\ ready = [accepting |-> TRUE, delivery |-> TRUE, exclusion |-> TRUE,
              linked |-> FALSE]
  /\ published = [d \in Docs |-> 0] /\ dropped = {}
  /\ used = [notices |-> 0, writes |-> 0, flaps |-> 0, faults |-> 0, crashes |-> 0]

-----------------------------------------------------------------------------
(***************************************************************************)
(* EgressClassifier::classify: the first gate that fails names the skip.   *)
(***************************************************************************)
\* Wrong on purpose: the node's own documents are not recognised.
ClassifyOwn(e) ==
  IF e.parses /\ e.kind /\ e.version /\ e.mapped /\ e.subject /\ e.fits
  THEN "eligible" ELSE "MalformedEnvelope"

Classify(e) ==
  IF ~e.parses THEN "MalformedEnvelope"
  ELSE IF ~e.kind THEN "UnsupportedKind"
  ELSE IF ~e.version THEN "UnsupportedVersion"
  ELSE IF ~e.mapped THEN "UnmappedCollection"
  ELSE IF ~e.subject THEN "RouteMismatch"
  ELSE IF e.local THEN "ReturnedLocal"
  ELSE IF ~e.fits THEN "OversizedPayload"
  ELSE "eligible"

Eligible(d) == Classify(Envelope[d]) = "eligible"

(***************************************************************************)
(* A tokio broadcast channel: a full ring overwrites its oldest entry.     *)
(***************************************************************************)
\* Wrong on purpose: the ring grows.
PushUnbounded(s, x, cap) == Append(s, x)

Push(s, x, cap) == IF Len(s) < cap THEN Append(s, x) ELSE Append(Tail(s), x)

\* A peer's change is merged into the store and observed as Remote.
RemoteWrite(d) ==
  /\ used.notices < MaxNotices /\ Spend("notices")
  /\ content' = [content EXCEPT ![d] = IF @ = "local" THEN "local" ELSE "remote"]
  /\ notices' = Push(notices, d, NoticeCap)
  /\ UNCHANGED <<writer, journals, events, lagged, task, scan, out, ready>>

\* get_bridge_document: a document over the identity, encoding or event
\* bounds reads as missing.
Readable(d) == content[d] # "absent" /\ Envelope[d].bounded

\* forward_bridge_changes: reread the document and pass it on.  When the
\* observer ring overflowed, the loss is only logged.
Forward ==
  /\ notices # <<>>
  /\ notices' = Tail(notices)
  /\ IF ~Readable(Head(notices))
     THEN UNCHANGED <<events, lagged>>
     ELSE /\ events' = Push(events, [doc |-> Head(notices),
                                     body |-> content[Head(notices)]], EventCap)
          /\ lagged' = (lagged \/ Len(events) = EventCap)
  /\ UNCHANGED <<store, journals, task, scan, out, ready, used>>

\* The store read, decryption or conversion fails: the notice is spent.
ForwardFails ==
  /\ notices # <<>>
  /\ used.faults < MaxFaults /\ Spend("faults")
  /\ notices' = Tail(notices)
  /\ UNCHANGED <<store, journals, events, lagged, task, scan, out, ready>>

-----------------------------------------------------------------------------
(***************************************************************************)
(* write_document and delete_document: in a mapped collection the          *)
(* exclusion record is durable before the store is touched; without it     *)
(* nothing is stored.                                                      *)
(***************************************************************************)
\* Wrong on purpose: the store is written before the exclusion record.
ExcludeLate(d) ==
  /\ writer.pc = "idle" /\ (Envelope[d].mapped => exUp)
  /\ used.writes < MaxWrites /\ Spend("writes")
  /\ excluded' = excluded
  /\ writer' = AtPc("put", d, "local")
  /\ UNCHANGED <<content, delivery, uncertain, exUp, delUp, feed, task, scan,
                 out, ready>>

Exclude(d) ==
  /\ writer.pc = "idle" /\ (Envelope[d].mapped => exUp)
  /\ used.writes < MaxWrites /\ Spend("writes")
  /\ excluded' = IF Envelope[d].mapped THEN excluded \cup {d} ELSE excluded
  /\ writer' = AtPc("put", d, "local")
  /\ UNCHANGED <<content, delivery, uncertain, exUp, delUp, feed, task, scan,
                 out, ready>>

\* The record fails; it may be on disk all the same.
ExcludeFails(d) ==
  /\ writer.pc = "idle" /\ exUp /\ Envelope[d].mapped
  /\ used.faults < MaxFaults /\ Spend("faults")
  /\ exUp' = FALSE
  /\ excluded' \in {excluded, excluded \cup {d}}
  /\ UNCHANGED <<store, delivery, uncertain, delUp, feed, task, scan, out,
                 ready>>

\* Upsert or create; create refuses an existing document, and the store may
\* fail.
LocalPut ==
  /\ writer.pc = "put"
  /\ content' \in {[content EXCEPT ![writer.doc] = "local"], content}
  /\ writer' = Idle
  /\ UNCHANGED <<journals, feed, task, scan, out, ready, used>>

LocalDelete ==
  /\ writer.pc = "put"
  /\ content' = [content EXCEPT ![writer.doc] = "absent"]
  /\ writer' = Idle
  /\ UNCHANGED <<journals, feed, task, scan, out, ready, used>>

-----------------------------------------------------------------------------
(***************************************************************************)
(* ReconcileTrigger::trigger.                                              *)
(***************************************************************************)
Trigger ==
  IF ~ready.accepting THEN UNCHANGED <<trig, pending>>
  ELSE IF trig = 0 THEN trig' = 1 /\ UNCHANGED pending
  ELSE pending' = TRUE /\ UNCHANGED trig

(***************************************************************************)
(* DeliveryCoordinator::deliver, shared by router and reconciler.  Offer   *)
(* covers classification, the readiness snapshot and sending the command;  *)
(* it leaves the offerer waiting for the reservation or done.              *)
(***************************************************************************)
Done(o) == IF o = "router" THEN Idle ELSE AtPc("next", "none", "absent")

Offer(o, d, body) ==
  \/ /\ ~Eligible(d) \/ ~IsReady
     /\ task' = [task EXCEPT ![o] = Done(o)]
     /\ UNCHANGED ready
  \/ /\ Eligible(d) /\ IsReady /\ ~delUp
     /\ task' = [task EXCEPT ![o] = Done(o)]
     /\ ready' = [ready EXCEPT !.delivery = FALSE]
  \/ /\ Eligible(d) /\ IsReady /\ delUp
     /\ task' = [task EXCEPT ![o] = AtPc("reserve", d, body)]
     /\ UNCHANGED ready

\* The command queue of the delivery journal is full.
OfferQueueFull(o, d) ==
  /\ Eligible(d) /\ IsReady /\ delUp
  /\ used.faults < MaxFaults /\ Spend("faults")
  /\ task' = [task EXCEPT ![o] = Done(o)]
  /\ ready' = [ready EXCEPT !.delivery = FALSE]

\* Wrong on purpose: whatever the journal says, the document is queued.
ReserveAlways(o) ==
  /\ task[o].pc = "reserve"
  /\ delivery' = [delivery EXCEPT ![task[o].doc] = "Reserved"]
  /\ task' = [task EXCEPT ![o].pc = "enqueue"]
  /\ UNCHANGED <<store, excluded, uncertain, exUp, delUp, feed, scan, out, ready,
                 used>>

\* Wrong on purpose: the reservation is not made durable.
ReserveUnlogged(o) ==
  /\ task[o].pc = "reserve"
  /\ delivery[task[o].doc] = "none"
  /\ task' = [task EXCEPT ![o].pc = "enqueue"]
  /\ UNCHANGED <<store, journals, feed, scan, out, ready, used>>

Reserve(o) ==
  /\ task[o].pc = "reserve"
  /\ delivery[task[o].doc] = "none"
  /\ delivery' = [delivery EXCEPT ![task[o].doc] = "Reserved"]
  /\ task' = [task EXCEPT ![o].pc = "enqueue"]
  /\ UNCHANGED <<store, excluded, uncertain, exUp, delUp, feed, scan, out, ready,
                 used>>

ReserveSuppressed(o) ==
  /\ task[o].pc = "reserve"
  /\ delivery[task[o].doc] # "none"
  /\ task' = [task EXCEPT ![o] = Done(o)]
  /\ UNCHANGED <<store, journals, feed, scan, out, ready, used>>

ReserveFails(o) ==
  /\ task[o].pc = "reserve" /\ delivery[task[o].doc] = "none"
  /\ used.faults < MaxFaults /\ Spend("faults")
  /\ delUp' = FALSE
  /\ uncertain' = uncertain \cup {task[o].doc}
  /\ ready' = [ready EXCEPT !.delivery = FALSE]
  /\ task' = [task EXCEPT ![o] = Done(o)]
  /\ UNCHANGED <<store, excluded, delivery, exUp, feed, scan, out>>

\* try_send: a full FIFO is a terminal loss of the reserved document.
Enqueue(o) ==
  /\ task[o].pc = "enqueue"
  /\ fifo' = IF Len(fifo) < FifoCap THEN Append(fifo, task[o].doc) ELSE fifo
  /\ task' = [task EXCEPT ![o] = Done(o)]
  /\ UNCHANGED <<store, journals, feed, scan, egress, published, dropped, ready,
                 used>>

-----------------------------------------------------------------------------
(***************************************************************************)
(* run_bridge_event_router.                                                *)
(***************************************************************************)
RouterIdle == task["router"].pc = "idle"

RouterEvent ==
  /\ RouterIdle /\ ~lagged /\ events # <<>>
  /\ events' = Tail(events)
  /\ LET e == Head(events) IN
       \/ Offer("router", e.doc, e.body) /\ UNCHANGED used
       \/ OfferQueueFull("router", e.doc)
  /\ UNCHANGED <<store, journals, notices, lagged, scan, out>>

\* Wrong on purpose: lag is counted but does not ask for a scan.
RouterLaggedSilent ==
  /\ RouterIdle /\ lagged
  /\ lagged' = FALSE
  /\ UNCHANGED <<store, journals, notices, events, task, scan, out, ready, used>>

RouterLagged ==
  /\ RouterIdle /\ lagged
  /\ lagged' = FALSE
  /\ Trigger
  /\ UNCHANGED <<store, journals, notices, events, task, todo, out, ready, used>>

-----------------------------------------------------------------------------
(***************************************************************************)
(* The reconciler task and scan_once, for one mapped collection.           *)
(***************************************************************************)
CanScan == ready.accepting /\ exUp /\ delUp /\ IsReady
Recon(pc) == task["recon"].pc = pc
ReconTo(t) == task' = [task EXCEPT !["recon"] = t]

\* Return of scan_once: scan again if a trigger was coalesced meanwhile.
ScanReturns ==
  /\ todo' = {}
  /\ IF ready.accepting /\ pending
     THEN pending' = FALSE /\ ReconTo(AtPc("list", "none", "absent"))
     ELSE UNCHANGED pending /\ ReconTo(Idle)
  /\ UNCHANGED trig

ScanStart ==
  /\ Recon("idle") /\ trig = 1 /\ ready.accepting
  /\ trig' = 0
  /\ ReconTo(AtPc("list", "none", "absent"))
  /\ UNCHANGED <<store, journals, feed, todo, pending, out, ready, used>>

ScanList ==
  /\ Recon("list") /\ CanScan
  /\ todo' = {d \in Docs : content[d] # "absent" /\ Envelope[d].mapped}
  /\ ReconTo(AtPc("next", "none", "absent"))
  /\ UNCHANGED <<store, journals, feed, trig, pending, out, ready, used>>

\* keys_with_prefix fails.
ScanListFails ==
  /\ Recon("list") /\ CanScan
  /\ used.faults < MaxFaults /\ Spend("faults")
  /\ ScanReturns
  /\ UNCHANGED <<store, journals, feed, out, ready>>

\* The scan is over, or may not go on.
ScanEnd ==
  /\ \/ Recon("next") /\ (todo = {} \/ ~CanScan)
     \/ Recon("list") /\ ~CanScan
     \/ Recon("wait") /\ ~CanScan
  /\ ScanReturns
  /\ UNCHANGED <<store, journals, feed, out, ready, used>>

\* The two ledger lookups of one key.
ScanFilter(d) ==
  /\ Recon("next") /\ CanScan /\ d \in todo
  /\ todo' = todo \ {d}
  /\ ReconTo(IF d \in excluded \/ delivery[d] # "none"
             THEN AtPc("next", "none", "absent")
             ELSE AtPc("wait", d, "absent"))
  /\ UNCHANGED <<store, journals, feed, trig, pending, out, ready, used>>

\* A lookup fails: a command queue is full or a worker died after CanScan.
ScanLookupFails ==
  /\ Recon("next") /\ CanScan /\ todo # {}
  /\ used.faults < MaxFaults /\ Spend("faults")
  /\ ready' \in {[ready EXCEPT !.exclusion = FALSE],
                 [ready EXCEPT !.delivery = FALSE]}
  /\ ScanReturns
  /\ UNCHANGED <<store, journals, feed, out>>

\* After the pacing delay: read the document, or fail to and go on.
ScanHydrate ==
  /\ Recon("wait") /\ CanScan
  /\ LET d == task["recon"].doc IN
       ReconTo(IF Readable(d) THEN AtPc("hydrated", d, content[d])
               ELSE AtPc("next", "none", "absent"))
  /\ UNCHANGED <<store, journals, feed, scan, out, ready, used>>

ScanReadFails ==
  /\ Recon("wait") /\ CanScan
  /\ used.faults < MaxFaults /\ Spend("faults")
  /\ ReconTo(AtPc("next", "none", "absent"))
  /\ UNCHANGED <<store, journals, feed, scan, out, ready>>

\* Wrong on purpose: no second lookup.
ScanOfferUnchecked ==
  /\ Recon("hydrated")
  /\ exUp
  /\ \/ Offer("recon", task["recon"].doc, task["recon"].body) /\ UNCHANGED used
     \/ OfferQueueFull("recon", task["recon"].doc)
  /\ UNCHANGED <<store, journals, feed, scan, out>>

\* Second exclusion lookup, then deliver.
ScanOffer ==
  /\ Recon("hydrated")
  /\ exUp
  /\ \/ /\ task["recon"].doc \in excluded
        /\ ReconTo(AtPc("next", "none", "absent"))
        /\ UNCHANGED <<ready, used>>
     \/ /\ task["recon"].doc \notin excluded
        /\ \/ Offer("recon", task["recon"].doc, task["recon"].body)
              /\ UNCHANGED used
           \/ OfferQueueFull("recon", task["recon"].doc)
  /\ UNCHANGED <<store, journals, feed, scan, out>>

\* The second lookup fails.
ScanExclusionDown ==
  /\ Recon("hydrated")
  /\ IF exUp THEN used.faults < MaxFaults /\ Spend("faults") ELSE UNCHANGED used
  /\ ready' = [ready EXCEPT !.exclusion = FALSE]
  /\ ScanReturns
  /\ UNCHANGED <<store, journals, feed, out>>

-----------------------------------------------------------------------------
(***************************************************************************)
(* run_egress_worker and NatsBridgePublisher: publish, flush, mark.        *)
(***************************************************************************)
EgressPublish ==
  /\ egress.pc = "idle" /\ fifo # <<>> /\ IsReady
  /\ fifo' = Tail(fifo)
  /\ published' = [published EXCEPT ![Head(fifo)] = @ + 1]
  /\ egress' = AtPc("flush", Head(fifo), "remote")
  /\ UNCHANGED <<store, journals, feed, task, scan, dropped, ready, used>>

\* The client refuses the message, or is not connected.
EgressPublishFails ==
  /\ egress.pc = "idle" /\ fifo # <<>> /\ IsReady
  /\ used.faults < MaxFaults /\ Spend("faults")
  /\ fifo' = Tail(fifo)
  /\ UNCHANGED <<store, journals, feed, task, scan, egress, published, dropped,
                 ready>>

EgressUnavailable ==
  /\ egress.pc = "idle" /\ fifo # <<>> /\ ~IsReady
  /\ fifo' = Tail(fifo)
  /\ dropped' = IF ready.linked /\ ready.delivery /\ ready.exclusion
                THEN dropped \cup {Head(fifo)} ELSE dropped
  /\ UNCHANGED <<store, journals, feed, task, scan, egress, published, ready,
                 used>>

\* Wrong on purpose: an item whose flush failed is put back.
EgressFlushRetried ==
  /\ egress.pc = "flush"
  /\ \/ IsReady /\ egress' = [egress EXCEPT !.pc = "mark"] /\ UNCHANGED fifo
     \/ egress' = Idle /\ fifo' = Append(fifo, egress.doc)
  /\ UNCHANGED <<store, journals, feed, task, scan, published, dropped, ready,
                 used>>

\* The bounded flush succeeds, fails or times out.
EgressFlush ==
  /\ egress.pc = "flush"
  /\ \/ IsReady /\ egress' = [egress EXCEPT !.pc = "mark"]
     \/ egress' = Idle
  /\ UNCHANGED <<store, journals, feed, task, scan, fifo, published, dropped,
                 ready, used>>

EgressMark ==
  /\ egress.pc = "mark" /\ delUp
  /\ delivery' = [delivery EXCEPT ![egress.doc] = "Completed"]
  /\ egress' = Idle
  /\ UNCHANGED <<store, excluded, uncertain, exUp, delUp, feed, task, scan, fifo,
                 published, dropped, ready, used>>

\* mark_completed fails, at once when the worker is unhealthy.
EgressMarkFails ==
  /\ egress.pc = "mark"
  /\ IF delUp THEN used.faults < MaxFaults /\ Spend("faults") ELSE UNCHANGED used
  /\ delUp' \in {delUp, FALSE}
  /\ ready' = [ready EXCEPT !.delivery = FALSE]
  /\ egress' = Idle
  /\ UNCHANGED <<store, excluded, delivery, uncertain, exUp, feed, task, scan,
                 fifo, published, dropped>>

-----------------------------------------------------------------------------
(***************************************************************************)
(* Readiness: the supervisor's link, the two health monitors, shutdown.    *)
(***************************************************************************)
LinkUp ==
  /\ ~ready.linked /\ ready.accepting
  /\ ready' = [ready EXCEPT !.linked = TRUE]
  /\ IF ready.delivery /\ ready.exclusion THEN Trigger
                                          ELSE UNCHANGED <<trig, pending>>
  /\ UNCHANGED <<store, journals, feed, task, todo, out, used>>

LinkDown ==
  /\ ready.linked /\ used.flaps < MaxFlaps /\ Spend("flaps")
  /\ ready' = [ready EXCEPT !.linked = FALSE]
  /\ UNCHANGED <<store, journals, feed, task, scan, out>>

HealthMonitor ==
  /\ \/ ready.exclusion /\ ~exUp
     \/ ready.delivery /\ ~delUp
  /\ ready' = [ready EXCEPT !.exclusion = @ /\ exUp, !.delivery = @ /\ delUp]
  /\ UNCHANGED <<store, journals, feed, task, scan, out, used>>

\* begin_shutdown and trigger.close().
BeginShutdown ==
  /\ ready.accepting
  /\ ready' = [ready EXCEPT !.accepting = FALSE]
  /\ pending' = FALSE
  /\ UNCHANGED <<store, journals, feed, task, todo, trig, out, used>>

\* A producer task is aborted; a reservation it waits for may still be made.
AbortProducer(o) ==
  /\ ~ready.accepting /\ task[o].pc # "aborted"
  /\ delivery' \in {delivery} \cup
        (IF task[o].pc = "reserve" /\ delivery[task[o].doc] = "none"
         THEN {[delivery EXCEPT ![task[o].doc] = "Reserved"]} ELSE {})
  /\ task' = [task EXCEPT ![o] = AtPc("aborted", "none", "absent")]
  /\ UNCHANGED <<store, excluded, uncertain, exUp, delUp, feed, scan, out, ready,
                 used>>

(***************************************************************************)
(* The process dies, or was shut down, and starts again.  Store and        *)
(* journals persist; a journal that saw an error may not open.             *)
(***************************************************************************)
Restart ==
  /\ used.crashes < MaxCrashes /\ Spend("crashes")
  /\ \E kept \in SUBSET uncertain :
       delivery' = [d \in Docs |-> IF d \in kept /\ delivery[d] = "none"
                                   THEN "Reserved" ELSE delivery[d]]
  /\ uncertain' = {}
  /\ exUp' \in BOOLEAN /\ delUp' \in BOOLEAN
  /\ used.faults = 0 => delUp'
  /\ delUp' => exUp'
  /\ ready' = [accepting |-> TRUE, delivery |-> delUp', exclusion |-> exUp',
               linked |-> FALSE]
  /\ notices' = <<>> /\ events' = <<>> /\ lagged' = FALSE
  /\ task' = [o \in Offerers |-> Idle]
  /\ todo' = {} /\ trig' = 0 /\ pending' = FALSE
  /\ fifo' = <<>> /\ egress' = Idle /\ writer' = Idle
  /\ UNCHANGED <<content, excluded, published, dropped>>

-----------------------------------------------------------------------------
Offering(o) == Reserve(o) \/ ReserveSuppressed(o) \/ ReserveFails(o) \/ Enqueue(o)

RouterStep == RouterEvent \/ RouterLagged \/ Offering("router")

ScanStep == \/ ScanStart \/ ScanList \/ ScanListFails \/ ScanEnd
            \/ \E d \in Docs : ScanFilter(d)
            \/ ScanLookupFails \/ ScanHydrate \/ ScanReadFails \/ ScanOffer \/ ScanExclusionDown
            \/ Offering("recon")

EgressStep == \/ EgressPublish \/ EgressPublishFails \/ EgressUnavailable
              \/ EgressFlush \/ EgressMark \/ EgressMarkFails

Mutation == \/ \E d \in Docs : Exclude(d) \/ ExcludeFails(d)
            \/ LocalPut \/ LocalDelete

Next == \/ \E d \in Docs : RemoteWrite(d)
        \/ Forward \/ ForwardFails \/ RouterStep \/ ScanStep \/ EgressStep \/ Mutation
        \/ LinkUp \/ LinkDown \/ HealthMonitor
        \/ BeginShutdown \/ \E o \in Offerers : AbortProducer(o)
        \/ Restart

Spec == Init /\ [][Next]_vars

(***************************************************************************)
(* Tokio polls every ready task, and the supervisor reconnects for ever.   *)
(***************************************************************************)
Fairness ==
  /\ WF_vars(Forward) /\ WF_vars(RouterStep) /\ WF_vars(ScanStep)
  /\ WF_vars(EgressStep) /\ WF_vars(LinkUp)

FairSpec == Spec /\ Fairness

-----------------------------------------------------------------------------
Pcs == {"idle", "list", "next", "wait", "hydrated", "reserve", "enqueue",
        "flush", "mark", "put", "aborted"}
Bodies == {"absent", "remote", "local"}
Threads == [pc : Pcs, doc : Docs \cup {"none"}, body : Bodies]

Busy == {"wait", "hydrated", "reserve", "enqueue", "put"}
Fit(t) == t \in Threads /\ (t.pc \in Busy => t.doc \in Docs)

StoreOK == content \in [Docs -> Bodies] /\ Fit(writer)
JournalsOK == /\ excluded \subseteq Docs /\ uncertain \subseteq Docs
              /\ delivery \in [Docs -> {"none", "Reserved", "Completed"}]
              /\ exUp \in BOOLEAN /\ delUp \in BOOLEAN
FeedOK == /\ notices \in Seq(Docs) /\ Len(notices) <= NoticeCap
          /\ events \in Seq([doc : Docs, body : Bodies])
          /\ Len(events) <= EventCap /\ lagged \in BOOLEAN
TaskOK == task \in [Offerers -> Threads] /\ \A o \in Offerers : Fit(task[o])
ScanOK == todo \subseteq Docs /\ trig \in {0, 1} /\ pending \in BOOLEAN
OutOK == /\ fifo \in Seq(Docs) /\ Len(fifo) <= FifoCap /\ egress \in Threads
         /\ published \in [Docs -> Nat] /\ dropped \subseteq Docs
ReadyOK == ready \in [accepting : BOOLEAN, delivery : BOOLEAN,
                      exclusion : BOOLEAN, linked : BOOLEAN]
UsedOK == used \in [notices : 0..MaxNotices, writes : 0..MaxWrites,
                    flaps : 0..MaxFlaps, faults : 0..MaxFaults,
                    crashes : 0..MaxCrashes]

\* Types, and the bounded channels within their capacities; whoever is busy
\* with a document has one.
TypeOK == /\ StoreOK /\ JournalsOK /\ FeedOK /\ TaskOK /\ ScanOK /\ OutOK
          /\ ReadyOK /\ UsedOK

\* No document is handed to NATS twice: not by the router and the scanner
\* racing on it, not after a failed flush, not after a restart.
PublishedOnce == \A d \in Docs : published[d] <= 1

\* A document NATS accepted has a durable reservation, whatever failed since:
\* a restart cannot offer it again.
PublishedIsReserved == \A d \in Docs : published[d] > 0 => delivery[d] # "none"

\* A document a local caller wrote is excluded from remote delivery, across
\* failures and restarts (CONFIGURATION.md: exclusion precedes the store
\* change).
LocalIsExcluded == \A d \in Docs :
  content[d] = "local" /\ Envelope[d].mapped => d \in excluded

\* What the scanner offers is never a body written locally, even when a local
\* write runs between its lookups and its read.
ScanOffersRemote ==
  task["recon"].pc \in {"reserve", "enqueue"} => task["recon"].body = "remote"

\* The live path never carries a body written locally either
\* (CONFIGURATION.md: local mutations never enter the event stream).
RouterOffersRemote ==
  task["router"].pc \in {"reserve", "enqueue"} => task["router"].body = "remote"

\* What reaches NATS passed every gate: mapped, matching subject, not ours.
PublishedEligible == \A d \in Docs : published[d] > 0 =>
  /\ Envelope[d].mapped /\ Envelope[d].subject /\ ~Envelope[d].local
  /\ Envelope[d].fits /\ Envelope[d].bounded

\* The coordinator implements the abstract at-most-once promise.
Abstract == INSTANCE AtMostOnce WITH Items <- Docs, times <- published
DeliveryRefines == Abstract!Spec

\* An eligible remote document is reserved for delivery in the end, or the
\* bridge stops for good, or the document turns local or goes away.
Settled(d) == \/ delivery[d] # "none" \/ content[d] # "remote"
              \/ d \in excluded \/ ~ready.accepting
EventuallyReserved == \A d \in Docs :
  Eligible(d) /\ Envelope[d].bounded => [](content[d] = "remote" => <>Settled(d))

\* Shutdown drains what was admitted: while link and journals are fine the
\* egress worker drops nothing (runtime.rs, BridgeRuntimeHandle::shutdown).
ShutdownDrains == dropped = {}
=============================================================================
