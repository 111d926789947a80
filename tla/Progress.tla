------------------------------ MODULE Progress ------------------------------
(***************************************************************************)
(* The life of one attachment bundle after SendAttachments has returned    *)
(* (attachments/runtime.rs, handlers.rs): one watcher task per             *)
(* distribution, cancel requests, the discovery-grace promoter, and        *)
(* subscribers of the progress stream.  They meet in the bundle's runtime  *)
(* (a mutex over the slots, an atomic counter, a broadcast ring) and in    *)
(* the bundle's status in the registry.  Byte counts, error texts and the  *)
(* other bundles are left out.                                             *)
(***************************************************************************)
EXTENDS Naturals, Sequences, FiniteSets

CONSTANTS
  Dists,        \* the bundle's distributions, one per file
  Targets,      \* how many peers each distribution was resolved to
  Listed,       \* distributions whose scope is a list of peers
  Missing,      \* how many listed peers are never discovered
  Cancels,      \* requests to cancel ...
  Asks,         \* ... and the distribution each of them names
  Subscribers,
  Backlog,      \* PROGRESS_BACKLOG
  EventCap,     \* length of the substrate's ring of status updates
  Faulty        \* watchers and requests whose calls of the substrate may fail

ASSUME ProgressConstants ==
  /\ IsFiniteSet(Dists) /\ Dists \cap Cancels = {} /\ Asks \in [Cancels -> Dists]
  /\ Targets \in [Dists -> Nat] /\ Missing \in [Dists -> Nat]
  /\ Listed \subseteq Dists /\ \A d \in Dists \ Listed : Missing[d] = 0
  /\ Backlog \in Nat \ {0} /\ EventCap \in Nat \ {0}
  /\ Faulty \subseteq Dists \cup Cancels

VARIABLES
  peers,     \* substrate: how many peers' transfers run, are complete, have failed
  revoked,   \* substrate: distributions whose document says cancelled
  events,    \* substrate: status updates on their way to each watcher
  grace,     \* the promoters' program counters
  slot,      \* BundleRuntime.per_distribution: state of each distribution
  count,     \* BundleRuntime.terminal_count
  relabelled, \* distributions that a cancellation took over from FAILED (history)
  status,    \* BundleRecord.status
  thread,    \* watcher tasks (by distribution) and cancel handlers
  sub        \* subscribers

substrate == <<peers, revoked, events, grace>>
runtime == <<slot, count, relabelled>>
vars == <<substrate, runtime, status, thread, sub>>

Threads == Dists \cup Cancels
Total == Cardinality(Dists)
Final == {"completed", "failed", "cancelled"}
States == {"pending", "inprogress"} \cup Final
Terminal(state) == state \in Final

Thread(pc, d) ==
  [pc |-> pc, dist |-> d, frame |-> "pending", next |-> "done",
   verdict |-> "pending", reply |-> "none"]

\* As SendAttachments leaves it: record and runtime exist, the watchers are spawned.
Init ==
  /\ peers = [d \in Dists |-> [running |-> Targets[d], completed |-> 0, failed |-> 0]]
  /\ revoked = {} /\ events = [d \in Dists |-> <<>>]
  /\ grace = [d \in Dists |-> IF d \in Listed THEN "sleep" ELSE "done"]
  /\ slot = [d \in Dists |-> "pending"] /\ count = 0 /\ relabelled = {}
  /\ status = "pending"
  /\ thread = [t \in Threads |-> IF t \in Dists THEN Thread("status", t)
                                                ELSE Thread("idle", Asks[t])]
  /\ sub = [s \in Subscribers |-> [pc |-> "idle", ring |-> <<>>, ids |-> {},
                                   got |-> {}, terminals |-> 0, lagged |-> FALSE]]

Becomes(t, r) == thread' = [thread EXCEPT ![t] = r]
Goto(t, pc) == Becomes(t, [thread[t] EXCEPT !.pc = pc])

-----------------------------------------------------------------------------
(***************************************************************************)
(* The substrate (peat-protocol), as far as the handlers rely on it.       *)
(***************************************************************************)
\* Wrong on purpose: peers that have not finished are overlooked.
AggregateEager(m) ==
  IF m.running + m.completed + m.failed = 0 THEN "pending"
  ELSE IF m.failed > 0 THEN "failed"
  ELSE IF m.completed > 0 THEN "completed" ELSE "inprogress"

\* per_node_aggregate
Aggregate(m) ==
  IF m.running + m.completed + m.failed = 0 THEN "pending"
  ELSE IF m.failed > 0 THEN "failed"
  ELSE IF m.running > 0 THEN "inprogress" ELSE "completed"

\* DistributionStatus::is_complete
Complete(d, m) == m.completed + m.failed >= Targets[d]

Subscribed(d) == "loop" \in {thread[d].pc, thread[d].next}

\* A status update reaches the watcher if it has subscribed.  The ring keeps the
\* newest ones: a watcher it overtakes goes on with those.
Announce(d, m) ==
  /\ peers' = [peers EXCEPT ![d] = m]
  /\ events' = IF ~Subscribed(d) THEN events
               ELSE LET e == [agg |-> Aggregate(m), complete |-> Complete(d, m)] IN
                    [events EXCEPT ![d] =
                       Append(IF Len(events[d]) < EventCap THEN events[d]
                              ELSE Tail(events[d]), e)]

\* Updates between the ends of transfers, as bytes move, carry no other state than
\* those in which one of several peers is done, and are left out.
TransferEnds(d) ==
  /\ peers[d].running > 0
  /\ LET p == peers[d] IN
     \/ Announce(d, [p EXCEPT !.running = p.running - 1, !.completed = p.completed + 1])
     \/ Announce(d, [p EXCEPT !.running = p.running - 1, !.failed = p.failed + 1])
  /\ UNCHANGED <<revoked, grace, runtime, status, thread, sub>>

\* The grace window has passed: the promoter reads the document ...
GraceReads(d) ==
  /\ grace[d] = "sleep"
  /\ grace' = [grace EXCEPT ![d] = IF d \in revoked THEN "done" ELSE "write"]
  /\ UNCHANGED <<peers, revoked, events, runtime, status, thread, sub>>

\* ... and marks the listed peers that were never discovered as failed, one after
\* the other; the first write already fails the distribution.
GraceWrites(d) ==
  /\ grace[d] = "write" /\ grace' = [grace EXCEPT ![d] = "done"]
  /\ IF Missing[d] = 0 THEN UNCHANGED <<peers, events>>
     ELSE Announce(d, [peers[d] EXCEPT !.failed = peers[d].failed + Missing[d]])
  /\ UNCHANGED <<revoked, runtime, status, thread, sub>>

-----------------------------------------------------------------------------
(***************************************************************************)
(* BundleRuntime: a slot is written under the mutex; counting a fresh      *)
(* terminal state and broadcasting the frame follow without it.            *)
(***************************************************************************)
\* Wrong on purpose: a terminal slot takes later observations.
ApplyProgressAlways(t, d, new, next) ==
  /\ slot' = [slot EXCEPT ![d] = new]
  /\ Becomes(t, [thread[t] EXCEPT !.pc = IF Terminal(new) THEN "count" ELSE "send",
                              !.frame = new, !.next = next])

ApplyProgress(t, d, new, next) ==
  IF Terminal(slot[d]) THEN Goto(t, next) /\ UNCHANGED slot
  ELSE /\ slot' = [slot EXCEPT ![d] = new]
       /\ Becomes(t, [thread[t] EXCEPT !.pc = IF Terminal(new) THEN "count" ELSE "send",
                                   !.frame = new, !.next = next])

\* Wrong on purpose: relabelling a failed distribution counts it again.
ApplyCancellationCounts(t, d) ==
  IF slot[d] \in {"completed", "cancelled"} THEN Goto(t, "check") /\ UNCHANGED <<slot, relabelled>>
  ELSE /\ slot' = [slot EXCEPT ![d] = "cancelled"]
       /\ relabelled' = relabelled \cup ({d} \cap {x \in Dists : Terminal(slot[x])})
       /\ Becomes(t, [thread[t] EXCEPT !.pc = "count", !.frame = "cancelled",
                                   !.next = "check"])

\* Wrong on purpose: a cancellation is applied like any other observation.
ApplyCancellationPlain(t, d) ==
  ApplyProgress(t, d, "cancelled", "check") /\ UNCHANGED relabelled

\* Wrong on purpose: the cancel handler does not finalise the bundle.
ApplyCancellationOnly(t, d) ==
  IF slot[d] \in {"completed", "cancelled"} THEN Goto(t, "done") /\ UNCHANGED <<slot, relabelled>>
  ELSE /\ slot' = [slot EXCEPT ![d] = "cancelled"]
       /\ relabelled' = relabelled \cup ({d} \cap {x \in Dists : Terminal(slot[x])})
       /\ Becomes(t, [thread[t] EXCEPT
                       !.pc = IF Terminal(slot[d]) THEN "send" ELSE "count",
                       !.frame = "cancelled", !.next = "done"])

\* An accepted cancellation also takes over a failed slot.
ApplyCancellation(t, d) ==
  IF slot[d] \in {"completed", "cancelled"} THEN Goto(t, "check") /\ UNCHANGED <<slot, relabelled>>
  ELSE /\ slot' = [slot EXCEPT ![d] = "cancelled"]
       /\ relabelled' = relabelled \cup ({d} \cap {x \in Dists : Terminal(slot[x])})
       /\ Becomes(t, [thread[t] EXCEPT
                       !.pc = IF Terminal(slot[d]) THEN "send" ELSE "count",
                       !.frame = "cancelled", !.next = "check"])

CountTerminal(t) ==
  /\ thread[t].pc = "count" /\ count' = count + 1 /\ Goto(t, "send")
  /\ UNCHANGED <<substrate, slot, relabelled, status, sub>>

\* The ring keeps the newest frames; a subscriber it overtakes skips the others.
Delivered(u, frame) ==
  IF u.pc \notin {"snapshot", "stream"} THEN u
  ELSE IF Len(u.ring) < Backlog THEN [u EXCEPT !.ring = Append(@, frame)]
  ELSE [u EXCEPT !.ring = Append(Tail(@), frame), !.lagged = TRUE]

Broadcast(t) ==
  /\ thread[t].pc = "send"
  /\ sub' = [s \in Subscribers |->
               Delivered(sub[s], [dist |-> thread[t].dist, status |-> thread[t].frame])]
  /\ Becomes(t, [thread[t] EXCEPT !.pc = thread[t].next, !.frame = "pending",
                              !.next = "done"])
  /\ UNCHANGED <<substrate, runtime, status>>

\* The bundle's status from the states of its distributions.
Verdict ==
  IF \E d \in Dists : slot[d] = "failed" THEN "failed"
  ELSE IF \E d \in Dists : slot[d] = "cancelled" THEN "cancelled" ELSE "completed"

\* Wrong on purpose: the first watcher to end finalises the bundle.
MaybeFinalizeEager(t) ==
  /\ thread[t].pc = "check"
  /\ Becomes(t, [thread[t] EXCEPT !.pc = "update", !.verdict = Verdict])
  /\ UNCHANGED <<substrate, runtime, status, sub>>

\* maybe_finalize_bundle up to its snapshot of the slots.
MaybeFinalize(t) ==
  /\ thread[t].pc = "check"
  /\ IF count >= Total
     THEN Becomes(t, [thread[t] EXCEPT !.pc = "update", !.verdict = Verdict])
     ELSE Goto(t, "done")
  /\ UNCHANGED <<substrate, runtime, status, sub>>

\* registry.update_status
UpdateStatus(t) ==
  /\ thread[t].pc = "update" /\ status' = thread[t].verdict
  /\ Becomes(t, [thread[t] EXCEPT !.pc = "done", !.verdict = "pending"])
  /\ UNCHANGED <<substrate, runtime, sub>>

-----------------------------------------------------------------------------
(***************************************************************************)
(* A distribution's watcher.                                               *)
(***************************************************************************)
\* The first status check; a scope without peers is complete at once unless it
\* declares peers that are still to be discovered.
WatchStatus(d) ==
  /\ thread[d].pc = "status"
  /\ \/ /\ Targets[d] = 0 /\ d \notin Listed
        /\ ApplyProgress(d, d, "completed", "check")
     \/ /\ Targets[d] > 0 \/ d \in Listed
        /\ Goto(d, "subscribe") /\ UNCHANGED slot
     \/ d \in Faulty /\ ApplyProgress(d, d, "failed", "check")
  /\ UNCHANGED <<substrate, count, relabelled, status, sub>>

WatchSubscribe(d) ==
  /\ thread[d].pc = "subscribe"
  /\ \/ Goto(d, "loop") /\ UNCHANGED slot
     \/ d \in Faulty /\ ApplyProgress(d, d, "failed", "check")
  /\ UNCHANGED <<substrate, count, relabelled, status, sub>>

WatchReceives(d) ==
  /\ thread[d].pc = "loop" /\ events[d] # <<>>
  /\ LET e == Head(events[d]) IN
     /\ events' = [events EXCEPT ![d] = IF e.complete THEN <<>> ELSE Tail(events[d])]
     /\ ApplyProgress(d, d, e.agg, IF e.complete THEN "check" ELSE "loop")
  /\ UNCHANGED <<peers, revoked, grace, count, relabelled, status, sub>>

\* The substrate's ring is closed: the watcher ends whatever the slot says.
WatchClosed(d) ==
  /\ thread[d].pc = "loop" /\ events[d] = <<>> /\ d \in Faulty /\ Goto(d, "check")
  /\ UNCHANGED <<substrate, runtime, status, sub>>

-----------------------------------------------------------------------------
(***************************************************************************)
(* CancelAttachmentDistribution.                                           *)
(***************************************************************************)
\* A bundle in a terminal state is left alone.
CancelLookup(c) ==
  /\ thread[c].pc = "idle"
  /\ IF Terminal(status)
     THEN Becomes(c, [thread[c] EXCEPT !.pc = "done", !.reply = "no"])
     ELSE Goto(c, "cancel")
  /\ UNCHANGED <<substrate, runtime, status, sub>>

\* file_distribution.cancel: the substrate fails every transfer that has not
\* completed and marks the document.
CancelTransfers(c) ==
  /\ thread[c].pc = "cancel"
  /\ LET d == thread[c].dist IN
     /\ Announce(d, [peers[d] EXCEPT !.running = 0, !.failed = peers[d].failed + peers[d].running])
     /\ revoked' = revoked \cup {d}
  /\ Becomes(c, [thread[c] EXCEPT !.pc = "apply", !.reply = "yes"])
  /\ UNCHANGED <<grace, runtime, status, sub>>

CancelRefused(c) ==
  /\ thread[c].pc = "cancel" /\ c \in Faulty
  /\ Becomes(c, [thread[c] EXCEPT !.pc = "done", !.reply = "error"])
  /\ UNCHANGED <<substrate, runtime, status, sub>>

CancelApplies(c) ==
  /\ thread[c].pc = "apply" /\ ApplyCancellation(c, thread[c].dist)
  /\ UNCHANGED <<substrate, count, status, sub>>

-----------------------------------------------------------------------------
(***************************************************************************)
(* SubscribeAttachmentBundle: subscribe, snapshot, then the live frames    *)
(* through the filter and the StreamCloser.                                *)
(***************************************************************************)
Attach(s) ==
  /\ sub[s].pc = "idle"
  /\ sub' = [sub EXCEPT ![s] = [sub[s] EXCEPT !.pc = "snapshot"]]
  /\ UNCHANGED <<substrate, runtime, status, thread>>

\* The closer ends the stream once it has passed on enough terminal frames.
Closing(u) ==
  IF u.terminals >= Total THEN [u EXCEPT !.pc = "closed", !.ring = <<>>, !.ids = {}] ELSE u

StartStream(s, ids) ==
  /\ sub[s].pc = "snapshot"
  /\ sub' = [sub EXCEPT ![s] = Closing(
       [sub[s] EXCEPT !.pc = "stream", !.ids = ids, !.got = ids,
                      !.terminals = Cardinality(ids)])]
  /\ UNCHANGED <<substrate, runtime, status, thread>>

\* Wrong on purpose: cancelled distributions are missing from the snapshot.
SnapshotUncancelled(s) ==
  StartStream(s, {d \in Dists : slot[d] \in {"completed", "failed"}})

\* One frame for each distribution that has already ended, counted by the closer.
Snapshot(s) == StartStream(s, {d \in Dists : Terminal(slot[d])})

\* Wrong on purpose: nothing is suppressed after the snapshot.
SuppressNothing(u, frame) == FALSE

\* A frame of a distribution that the snapshot has covered.
Suppress(u, frame) == frame.dist \in u.ids

StreamReceives(s) ==
  /\ sub[s].pc = "stream" /\ sub[s].ring # <<>>
  /\ LET f == Head(sub[s].ring)
         rest == [sub[s] EXCEPT !.ring = Tail(@)] IN
     sub' = [sub EXCEPT ![s] =
       IF Suppress(rest, f) \/ ~Terminal(f.status) THEN rest
       ELSE Closing([rest EXCEPT !.got = @ \cup {f.dist}, !.terminals = @ + 1])]
  /\ UNCHANGED <<substrate, runtime, status, thread>>

-----------------------------------------------------------------------------
ThreadStep(t) == CountTerminal(t) \/ Broadcast(t) \/ MaybeFinalize(t) \/ UpdateStatus(t)

WatchStep(d) == WatchStatus(d) \/ WatchSubscribe(d) \/ WatchReceives(d)

StreamStep(s) == Snapshot(s) \/ StreamReceives(s)

Next ==
  \/ \E d \in Dists : TransferEnds(d)
  \/ \E d \in Dists : GraceReads(d) \/ GraceWrites(d)
  \/ \E t \in Threads : ThreadStep(t)
  \/ \E d \in Dists : WatchStep(d) \/ WatchClosed(d)
  \/ \E c \in Cancels :
       CancelLookup(c) \/ CancelTransfers(c) \/ CancelRefused(c) \/ CancelApplies(c)
  \/ \E s \in Subscribers : Attach(s) \/ StreamStep(s)

Spec == Init /\ [][Next]_vars

(***************************************************************************)
(* Fairness: tokio runs every runnable task and the client reads its       *)
(* stream.  Peers, requests and faults owe nothing.                        *)
(***************************************************************************)
Fairness ==
  /\ \A d \in Dists : WF_vars(ThreadStep(d) \/ WatchStep(d))
  /\ \A c \in Cancels : WF_vars(ThreadStep(c) \/ CancelApplies(c))
  /\ \A s \in Subscribers : WF_vars(StreamStep(s))

FairSpec == Spec /\ Fairness

-----------------------------------------------------------------------------
Ended(d) == Terminal(slot[d])

(***************************************************************************)
(* Every variable has its type; a distribution is counted at most once.    *)
(***************************************************************************)
TypeOK ==
  /\ peers \in [Dists -> [running : Nat, completed : Nat, failed : Nat]]
  /\ revoked \subseteq Dists
  /\ \A d \in Dists : events[d] \in Seq([agg : States, complete : BOOLEAN])
  /\ grace \in [Dists -> {"sleep", "write", "done"}]
  /\ slot \in [Dists -> States] /\ count \in 0..Total
  /\ relabelled \subseteq Dists
  /\ status \in {"pending"} \cup Final
  /\ thread \in [Threads ->
       [pc : {"status", "subscribe", "loop", "count", "send", "check", "update",
              "idle", "cancel", "apply", "done"},
        dist : Dists, frame : States, next : {"loop", "check", "done"},
        verdict : {"pending"} \cup Final, reply : {"none", "yes", "no", "error"}]]
  /\ \A s \in Subscribers :
       /\ sub[s].pc \in {"idle", "snapshot", "stream", "closed"}
       /\ sub[s].ring \in Seq([dist : Dists, status : States])
       /\ Len(sub[s].ring) <= Backlog /\ sub[s].ids \subseteq sub[s].got
       /\ sub[s].got \subseteq Dists /\ sub[s].terminals \in 0..Total

(***************************************************************************)
(* all_terminal tells the truth: when the counter has reached the number   *)
(* of distributions, every slot is terminal, whatever watchers and         *)
(* cancellations counted meanwhile.                                        *)
(***************************************************************************)
CountIsSound == count >= Total => \A d \in Dists : Ended(d)

(***************************************************************************)
(* A bundle has a final status only when all of its distributions have     *)
(* ended, and is COMPLETED only when each of them is, although the status  *)
(* is computed from a snapshot and written later.                          *)
(***************************************************************************)
FinalIsTrue ==
  /\ status # "pending" => \A d \in Dists : Ended(d)
  /\ status = "completed" => \A d \in Dists : slot[d] = "completed"

(***************************************************************************)
(* A slot is COMPLETED only when every peer that the distribution was      *)
(* resolved to has pulled the blob: no late, lost or cancelled transfer    *)
(* ends in a completed slot (per_node_aggregate, apply_progress).  Listed  *)
(* peers that are never discovered are not among them: when all resolved   *)
(* transfers end before the grace window does, the slot is COMPLETED       *)
(* without them, which is less than "every targeted peer" of               *)
(* sidecar.proto:643 if the listed ones are meant.                         *)
(***************************************************************************)
CompletedMeansPulled ==
  \A d \in Dists : slot[d] = "completed" => peers[d].completed = Targets[d]

(***************************************************************************)
(* A distribution whose cancellation was answered with was_cancelled never *)
(* shows as FAILED, although the substrate reports the cancelled transfers *)
(* as failed and the watcher may see that first.  It may show as COMPLETED *)
(* (ToldIfCancelled).                                                      *)
(***************************************************************************)
Told(c) == thread[c].pc = "done" /\ thread[c].reply = "yes"

AcceptedShown ==
  \A c \in Cancels : Told(c) => slot[thread[c].dist] \in {"cancelled", "completed"}

(***************************************************************************)
(* was_cancelled is "True iff cancellation was applied; false if the       *)
(* distribution was already in a terminal state (COMPLETED / FAILED /      *)
(* CANCELLED)" (sidecar.proto:678-680).  The handler only looks at the     *)
(* status of the whole bundle, so that a distribution that has completed   *)
(* while another one of its bundle runs is answered with true as well      *)
(* (handlers.rs:334-339, 375-378).                                         *)
(***************************************************************************)
ToldIfCancelled == \A c \in Cancels : Told(c) => slot[thread[c].dist] = "cancelled"

(***************************************************************************)
(* A stream closes only after it has delivered a terminal frame of every   *)
(* distribution, unless a cancellation relabelled a failed one: that puts  *)
(* two terminal frames of one distribution on the ring and the closer      *)
(* counts both.                                                            *)
(***************************************************************************)
CloseIsComplete ==
  \A s \in Subscribers : sub[s].pc = "closed" => sub[s].got = Dists \/ relabelled # {}

(***************************************************************************)
(* The state has its type, when the count has reached the number of        *)
(* distributions each one has ended, COMPLETED means that every peer it    *)
(* was resolved to pulled all bytes, and a cancellation that was accepted  *)
(* never shows as FAILED (runtime.rs and handlers.rs).                     *)
(***************************************************************************)
ProgressIsSound == TypeOK /\ CountIsSound /\ CompletedMeansPulled /\ AcceptedShown

(***************************************************************************)
(* A bundle whose distributions and transfers have all ended gets its      *)
(* final status: whoever counts last also sees the full count.             *)
(***************************************************************************)
Finalised ==
  []<>((\A d \in Dists : Ended(d) /\ Complete(d, peers[d])) => Terminal(status))

(***************************************************************************)
(* The stream of a bundle that has ended closes, whenever the subscriber   *)
(* attached, unless the ring overtook it: no terminal frame falls between  *)
(* the snapshot and the subscription.                                      *)
(***************************************************************************)
StreamEnds ==
  \A s \in Subscribers :
    []<>(sub[s].pc # "idle" /\ (\A d \in Dists : Ended(d)) => sub[s].pc = "closed" \/ sub[s].lagged)
=============================================================================
