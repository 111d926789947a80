------------------------------ MODULE Sending ------------------------------
(***************************************************************************)
(* SendAttachments (attachments/handlers.rs) with the bundle registry      *)
(* (registry.rs) and the ingest of files into the blob store (ingest.rs):  *)
(* requests of several clients run concurrently, files change on disk,     *)
(* bundles end, are cancelled, reused under the same id and evicted.  A    *)
(* request starts one group of distributions at most, so the request names *)
(* the group: the i-th distribution of request r is <<r, i>>.  Module      *)
(* Progress has the inside of a watcher; here it observes and ends.        *)
(***************************************************************************)
EXTENDS Naturals, Sequences, FiniteSets

CONSTANTS
  Requests, Ids, Contents,
  Namings,       \* bundle_ids that the requests may have
  Files,         \* the contents that the files of each request are declared to have
  Client,        \* the client that makes it, one request at a time
  MaxConcurrent, \* max_concurrent_distributions
  QueueWhenFull, \* queue_when_full
  MaxKnown,      \* max_known_bundles, 0 for no bound
  Retention,     \* handle_retention_secs is not 0
  Unwanted,      \* distributions that a client may cancel
  NoOne          \* no request, no bundle

ASSUME SendingConstants ==
  /\ Namings \subseteq [Requests -> Ids] /\ NoOne \notin Requests \cup Ids /\ IsFiniteSet(Ids)
  /\ MaxKnown \in Nat /\ MaxConcurrent \in Nat
  /\ QueueWhenFull \in BOOLEAN /\ Retention \in BOOLEAN
  /\ \A r \in Requests : Files[r] \in Seq(Contents) \ {<<>>}
  /\ \A d \in Unwanted : d[1] \in Requests /\ d[2] \in DOMAIN Files[d[1]]

DistsOf(r) == {<<r, i>> : i \in DOMAIN Files[r]}
Dists == UNION {DistsOf(r) : r \in Requests}

VARIABLES
  id,        \* bundle_id of each request
  blobs,     \* the blob store
  queued,    \* distribution documents handed to the relay queue
  bundles,   \* RegistryInner.bundles: the request that made the record of an id
  status,    \* BundleRecord.status
  index,     \* RegistryInner.distribution_index
  older,     \* last_touched_at: pairs of ids with a record, the earlier one first
  slot,      \* the runtime's state of each distribution
  watcher,   \* watcher tasks
  runtimes,  \* BundleRuntimeStore: the group registered for an id
  thread,    \* the requests
  cancel,    \* a cancellation
  excused,   \* contents that a mismatch or an overlapping request deleted (history)
  evicted    \* requests whose record was evicted (history)

registry == <<bundles, status, index, older>>
progress == <<slot, watcher, runtimes>>
stored == <<id, blobs, queued>>
history == <<excused, evicted>>
vars == <<stored, registry, progress, thread, cancel, history>>

Resident == {b \in Ids : bundles[b] # NoOne}
Terminal == {"completed", "failed", "cancelled"}
Reusable == {"failed", "cancelled"}
NonTerminal == {b \in Resident : status[b] \notin Terminal}

Fresh == [pc |-> "idle", pre |-> {}, got |-> CHOOSE c \in Contents : TRUE, created |-> <<>>,
          started |-> 0, reply |-> NoOne, also |-> {}, after |-> {}, undone |-> 0]

Unasked == [pc |-> "idle", bundle |-> NoOne, dist |-> CHOOSE d \in Dists : TRUE]

Init ==
  /\ id \in Namings /\ blobs = {} /\ queued = {}
  /\ bundles = [b \in Ids |-> NoOne] /\ status = [b \in Ids |-> "pending"]
  /\ index = [d \in Dists |-> NoOne] /\ older = {}
  /\ slot = [d \in Dists |-> "none"] /\ watcher = [d \in Dists |-> "none"]
  /\ runtimes = [b \in Ids |-> NoOne]
  /\ thread = [r \in Requests |-> Fresh] /\ cancel = Unasked
  /\ excused = {} /\ evicted = {}

Becomes(r, t) == thread' = [thread EXCEPT ![r] = t]
Goto(r, pc) == Becomes(r, [thread[r] EXCEPT !.pc = pc])

\* The handler returns, and its locals are gone.
Return(r, pc, reply) ==
  Becomes(r, [Fresh EXCEPT !.pc = pc, !.reply = reply, !.after = thread[r].after])

-----------------------------------------------------------------------------
(***************************************************************************)
(* The registry, each operation under its lock.                            *)
(***************************************************************************)
\* The ages without those of the ids in B, and with b as the youngest.  A resubmission
\* and a new status touch a record; BundleRegistry::get would too, and has no caller
\* outside the tests.
Forget(B) == {p \in older : p[1] \notin B /\ p[2] \notin B}
Touch(b) == older' = Forget({b}) \cup {<<x, b>> : x \in Resident \ {b}}

\* drop_record, for a set of ids
Drop(B) ==
  /\ bundles' = [b \in Ids |-> IF b \in B THEN NoOne ELSE bundles[b]]
  /\ index' = [d \in Dists |-> IF index[d] \in B THEN NoOne ELSE index[d]]
  /\ status' = [b \in Ids |-> IF b \in B THEN "pending" ELSE status[b]]
  /\ older' = Forget(B)

\* Wrong on purpose: a table that has reached its bound takes one more record.
OverLate(rest) == MaxKnown > 0 /\ Cardinality(rest) > MaxKnown

\* A table that is full without the prior record gives up an oldest one.
Over(rest) == MaxKnown > 0 /\ Cardinality(rest) >= MaxKnown
Victims(rest) == IF Over(rest) THEN {{b} : b \in {x \in rest : \A y \in rest : <<y, x>> \notin older}}
                 ELSE {{}}

\* Wrong on purpose: the index keeps the distributions of the record it replaces.
InsertLeaking(r) ==
  LET b == id[r] IN
  \E out \in Victims(Resident \ {b}) :
    /\ bundles' = [x \in Ids |-> IF x = b THEN r ELSE IF x \in out THEN NoOne ELSE bundles[x]]
    /\ status' = [x \in Ids |-> IF x \in out \cup {b} THEN "pending" ELSE status[x]]
    /\ index' = [d \in Dists |-> IF d \in DistsOf(r) THEN b
                                 ELSE IF index[d] \in out THEN NoOne ELSE index[d]]
    /\ older' = Forget(out \cup {b}) \cup {<<x, b>> : x \in Resident \ (out \cup {b})}
    /\ evicted' = evicted \cup {bundles[x] : x \in out}

\* BundleRegistry::insert: the prior record and the oldest one of a full table go.
Insert(r) ==
  LET b == id[r] IN
  \E out \in Victims(Resident \ {b}) :
    /\ bundles' = [x \in Ids |-> IF x = b THEN r ELSE IF x \in out THEN NoOne ELSE bundles[x]]
    /\ status' = [x \in Ids |-> IF x \in out \cup {b} THEN "pending" ELSE status[x]]
    /\ index' = [d \in Dists |-> IF d \in DistsOf(r) THEN b
                                 ELSE IF index[d] \in out \cup {b} THEN NoOne ELSE index[d]]
    /\ older' = Forget(out \cup {b}) \cup {<<x, b>> : x \in Resident \ (out \cup {b})}
    /\ evicted' = evicted \cup {bundles[x] : x \in out}

\* BundleRegistry::update_status
UpdateStatus(b, s) ==
  IF bundles[b] = NoOne THEN UNCHANGED registry
  ELSE /\ status' = [status EXCEPT ![b] = s] /\ Touch(b)
       /\ UNCHANGED <<bundles, index>>

\* The evictor: terminal records last touched before the cutoff, which is right after
\* the age of some record b.
EvictExpired(b) ==
  LET old == {x \in Resident : (x = b \/ <<x, b>> \in older) /\ status[x] \in Terminal} IN
  /\ Retention /\ old # {} /\ Drop(old)
  /\ evicted' = evicted \cup {bundles[x] : x \in old}
  /\ UNCHANGED <<stored, progress, thread, cancel, excused>>

-----------------------------------------------------------------------------
(***************************************************************************)
(* send_attachments                                                        *)
(***************************************************************************)
InFlight == {r \in Requests : thread[r].pc \notin {"idle", "refused", "failed", "done"}}

\* Wrong on purpose: records of all ages and states are let in.
RoomAlways == TRUE

\* Rule 11, against the bundles that are not terminal now
Room == QueueWhenFull \/ Cardinality(NonTerminal) < MaxConcurrent

\* A request that is refused for its form (module Rules) or for the limit leaves no
\* trace; what was validated of a file may have changed when the file is streamed.
Admit(r) ==
  /\ thread[r].pc = "idle" /\ \A q \in InFlight : Client[q] # Client[r]
  /\ Room /\ Goto(r, "probe")
  /\ UNCHANGED <<stored, registry, progress, cancel, history>>

\* Requests for the same id that had been answered with bundles of their own.
Answered(r) == {q \in Requests \ {r} : id[q] = id[r] /\ thread[q].reply = q}

\* ingest_bundle notes the blobs that exist before.
StartIngest(r) ==
  Becomes(r, [thread[r] EXCEPT !.pc = "ingest", !.pre = blobs, !.after = Answered(r)])

\* check_resubmit, under the read lock
Probe(r) ==
  LET b == id[r] IN
  /\ thread[r].pc = "probe"
  /\ CASE bundles[b] = NoOne -> StartIngest(r)
       [] bundles[b] # NoOne /\ status[b] \notin Reusable /\ Files[bundles[b]] # Files[r] ->
            Return(r, "refused", NoOne)
       [] OTHER -> Goto(r, "claim")
  /\ UNCHANGED <<stored, registry, progress, cancel, history>>

\* Wrong on purpose: any terminal bundle gives up its id.
ClaimableAny(b) == status[b] \in Terminal
Claimable(b) == status[b] \in Reusable

\* check_resubmit, under the write lock
Claim(r) ==
  LET b == id[r] IN
  /\ thread[r].pc = "claim"
  /\ CASE bundles[b] = NoOne -> StartIngest(r) /\ UNCHANGED registry
       [] bundles[b] # NoOne /\ Claimable(b) -> StartIngest(r) /\ Drop({b})
       [] bundles[b] # NoOne /\ ~Claimable(b) /\ Files[bundles[b]] = Files[r] ->
            /\ Return(r, "done", bundles[b])
            /\ Touch(b) /\ UNCHANGED <<bundles, status, index>>
       [] OTHER -> Return(r, "refused", NoOne) /\ UNCHANGED registry
  /\ UNCHANGED <<stored, progress, cancel, history>>

Ingesting == {q \in Requests : thread[q].pc \in {"ingest", "mismatch", "rollback"}}
NextFile(r) == Files[r][Len(thread[r].created) + 1]

\* The error is returned.
Fail(r) == Becomes(r, [thread[r] EXCEPT !.pc = "failed", !.pre = {}, !.also = {}])

\* Wrong on purpose: what was ingested before the failure stays.
GiveUpAtOnce(r) == Fail(r)

\* A step of the ingest has failed.
GiveUp(r) == Goto(r, "rollback")

\* ingest_file: the file as it is now becomes a blob, ...
StreamFile(r) ==
  /\ thread[r].pc = "ingest" /\ Len(thread[r].created) < Len(Files[r])
  /\ \E c \in Contents :
       /\ blobs' = blobs \cup {c}
       /\ thread' = [q \in Requests |->
            IF q = r THEN IF c = NextFile(r) THEN [thread[r] EXCEPT !.created = Append(thread[r].created, c)]
                          ELSE [thread[r] EXCEPT !.pc = "mismatch", !.got = c]
            ELSE IF q \in Ingesting THEN [thread[q] EXCEPT !.also = thread[q].also \cup {c}] ELSE thread[q]]
  /\ UNCHANGED <<id, queued, registry, progress, cancel, history>>

\* ... which is deleted again when it is not what the caller declared, ...
Mismatch(r) ==
  /\ thread[r].pc = "mismatch" /\ GiveUp(r)
  /\ blobs' = blobs \ {thread[r].got} /\ excused' = excused \cup {thread[r].got}
  /\ UNCHANGED <<id, queued, registry, progress, cancel, evicted>>

\* ... or it cannot be opened or stored.
StreamFails(r) ==
  /\ thread[r].pc = "ingest" /\ Len(thread[r].created) < Len(Files[r]) /\ GiveUp(r)
  /\ UNCHANGED <<stored, registry, progress, cancel, history>>

\* One distribution per file, when all are ingested.
Distribute(r) ==
  LET n == thread[r].started + 1 IN
  /\ thread[r].pc = "ingest" /\ Len(thread[r].created) = Len(Files[r]) /\ n <= Len(Files[r])
  /\ \/ /\ slot' = [slot EXCEPT ![<<r, n>>] = "pending"]
        /\ Becomes(r, [thread[r] EXCEPT !.started = n])
     \/ GiveUp(r) /\ UNCHANGED slot
  /\ UNCHANGED <<stored, registry, watcher, runtimes, cancel, history>>

\* Wrong on purpose: every blob of the request is deleted.
MayDeleteAll(r, c) == TRUE

\* rollback spares what existed before.
MayDelete(r, c) == c \notin thread[r].pre

\* One blob after the other; a deletion that fails is only logged.
Rollback(r) ==
  LET c == thread[r].created[thread[r].undone + 1] IN
  /\ thread[r].pc = "rollback"
  /\ IF thread[r].undone = Len(thread[r].created) THEN Fail(r) /\ UNCHANGED <<blobs, excused>>
     ELSE /\ Becomes(r, [thread[r] EXCEPT !.undone = thread[r].undone + 1])
          /\ \/ /\ MayDelete(r, c) /\ blobs' = blobs \ {c}
                /\ excused' = excused \cup ({c} \cap thread[r].also)
             \/ UNCHANGED <<blobs, excused>>
  /\ UNCHANGED <<id, queued, registry, progress, cancel, evicted>>

\* All distributions run: their documents are queued and the record is made, ...
Record(r) ==
  /\ thread[r].pc = "ingest" /\ thread[r].started = Len(Files[r])
  /\ queued' = queued \cup DistsOf(r) /\ Insert(r) /\ Return(r, "register", NoOne)
  /\ UNCHANGED <<id, blobs, progress, cancel, excused>>

\* ... then the runtime and the watchers, and the response leaves.
Register(r) ==
  /\ thread[r].pc = "register"
  /\ runtimes' = [runtimes EXCEPT ![id[r]] = r]
  /\ watcher' = [d \in Dists |-> IF d \in DistsOf(r) THEN "watch" ELSE watcher[d]]
  /\ Return(r, "done", r)
  /\ UNCHANGED <<stored, registry, slot, cancel, history>>

-----------------------------------------------------------------------------
(***************************************************************************)
(* The end of a bundle.                                                    *)
(***************************************************************************)
\* Wrong on purpose: the first distribution to end ends the bundle.
SomeEnded(r) == \E d \in DistsOf(r) : slot[d] \in Terminal

\* BundleRuntime::all_terminal
AllEnded(r) == \A d \in DistsOf(r) : slot[d] \in Terminal

\* What maybe_finalize_bundle makes of the slots.
Verdict(slots, r) ==
  LET all == {slots[d] : d \in DistsOf(r)} IN
  IF "failed" \in all THEN "failed" ELSE IF "cancelled" \in all THEN "cancelled" ELSE "completed"

\* A watcher hears of an end.  One failed transfer of several is enough for a slot,
\* while the watcher waits for the others.
Observe(d) ==
  /\ watcher[d] = "watch" /\ slot[d] = "pending"
  /\ \E s \in {"completed", "failed"} : slot' = [slot EXCEPT ![d] = s]
  /\ UNCHANGED <<stored, registry, watcher, runtimes, thread, cancel, history>>

\* Its last transfer is over: maybe_finalize_bundle, by the id of the bundle.
WatcherEnds(d) ==
  /\ watcher[d] = "watch" /\ slot[d] \in Terminal
  /\ watcher' = [watcher EXCEPT ![d] = "done"]
  /\ IF AllEnded(d[1]) THEN UpdateStatus(id[d[1]], Verdict(slot, d[1])) ELSE UNCHANGED registry
  /\ UNCHANGED <<stored, slot, runtimes, thread, cancel, history>>

\* CancelAttachmentDistribution of a distribution some response has named: the
\* lookup of a bundle that has not ended, ...
CancelLookup(d) ==
  /\ cancel.pc = "idle" /\ d \in Unwanted /\ \E r \in Requests : thread[r].reply = d[1]
  /\ index[d] # NoOne /\ status[index[d]] \notin Terminal
  /\ cancel' = [pc |-> "calling", bundle |-> index[d], dist |-> d]
  /\ UNCHANGED <<stored, registry, progress, thread, history>>

\* ... the call of the substrate, which may fail, and what is registered for the id
\* when it returns: apply_cancellation and maybe_finalize_bundle there.
CancelApplies ==
  LET b == cancel.bundle
      g == runtimes[b]
      d == <<g, cancel.dist[2]>>
      after == IF slot[d] \in {"completed", "cancelled"} THEN slot
               ELSE [slot EXCEPT ![d] = "cancelled"] IN
  /\ cancel.pc = "calling"
  /\ \/ cancel' = Unasked /\ UNCHANGED <<registry, slot>>
     \/ /\ cancel' = [Unasked EXCEPT !.pc = "accepted"]
        /\ IF g = NoOne THEN UpdateStatus(b, "cancelled") /\ UNCHANGED slot
           ELSE IF d \notin DistsOf(g) THEN UNCHANGED <<registry, slot>>
           ELSE /\ slot' = after
                /\ IF \A x \in DistsOf(g) : after[x] \in Terminal
                   THEN UpdateStatus(b, Verdict(after, g)) ELSE UNCHANGED registry
  /\ UNCHANGED <<stored, watcher, runtimes, thread, history>>

SendStep(r) ==
  \/ Admit(r) \/ Probe(r) \/ Claim(r) \/ StreamFile(r) \/ StreamFails(r)
  \/ Mismatch(r) \/ Distribute(r) \/ Rollback(r) \/ Record(r) \/ Register(r)

Next ==
  \/ \E r \in Requests : SendStep(r)
  \/ \E d \in Dists : Observe(d) \/ WatcherEnds(d) \/ CancelLookup(d)
  \/ \E b \in Resident : EvictExpired(b)
  \/ CancelApplies

Spec == Init /\ [][Next]_vars

-----------------------------------------------------------------------------
Pcs == {"idle", "probe", "claim", "ingest", "mismatch", "rollback", "register",
        "refused", "failed", "done"}

\* Type invariant; the table of bundles holds max_known_bundles records at most, and
\* every record has its place in the order of ages.
TypeOK ==
  /\ blobs \subseteq Contents /\ queued \subseteq Dists
  /\ bundles \in [Ids -> Requests \cup {NoOne}] /\ status \in [Ids -> {"pending"} \cup Terminal]
  /\ index \in [Dists -> Ids \cup {NoOne}] /\ runtimes \in [Ids -> Requests \cup {NoOne}]
  /\ slot \in [Dists -> {"none", "pending"} \cup Terminal]
  /\ \A r \in Requests : thread[r].pc \in Pcs
  /\ older \subseteq Resident \X Resident
  /\ \A x, y \in Resident : x # y <=> ((<<x, y>> \in older) # (<<y, x>> \in older))
  /\ MaxKnown > 0 => Cardinality(Resident) <= MaxKnown

\* The reverse index leads from a distribution to a bundle exactly when that bundle's
\* record is resident and holds the distribution, across insertions over a record
\* that is still there, reuse and both kinds of eviction (registry.rs): a lookup never
\* finds a handle missing, which the handlers would panic on.
IndexIsExact ==
  \A d \in Dists, b \in Ids :
    (index[d] = b) <=> (bundles[b] # NoOne /\ d \in DistsOf(bundles[b]))

\* The check of max_concurrent_distributions and the insertion are far apart, so that
\* several clients together may exceed the limit.  The bundles in progress of one
\* client, which waits for each answer, never do (handlers.rs, send_attachments, Rule 11).
LimitPerClient ==
  QueueWhenFull \/ \A r \in Requests :
    Cardinality({b \in NonTerminal : Client[bundles[b]] = Client[r]}) <= MaxConcurrent

\* The blob of a distribution that was not given up is in the store as long as the
\* distribution runs, unless a request read the same content from a file declared to
\* hold another, or ingested it at the same time and failed (ingest.rs, rollback).
BlobsAreKept ==
  \A d \in Dists :
    (slot[d] = "pending" /\ thread[d[1]].pc \notin {"rollback", "failed"})
      => LET c == Files[d[1]][d[2]] IN c \in blobs \cup excused

\* A request that failed has tried to delete each blob it created and nobody had
\* before (ingest.rs, "Atomic on failure").
FailureCleansUp ==
  \A r \in Requests : thread[r].pc = "failed" => thread[r].undone = Len(thread[r].created)

\* A bundle whose id was ingested once is terminal only when its distributions all
\* are, or when it was cancelled (handlers.rs, maybe_finalize_bundle).
Alone(r) == \A q \in Requests \ {r} : id[q] = id[r] => \A d \in DistsOf(q) : slot[d] = "none"
StatusIsOwn ==
  \A b \in Ids :
    (bundles[b] # NoOne /\ status[b] \in Terminal /\ Alone(bundles[b]))
      => (\A d \in DistsOf(bundles[b]) : slot[d] \in Terminal) \/ cancel.pc = "accepted"

\* Rule 12: files are ingested again under an id that was answered before only if the
\* earlier bundle failed, was cancelled or was evicted (registry.rs, check_resubmit),
\* or a third request interfered.
IngestedOnce ==
  \A r \in Requests : \A q \in thread[r].after :
    (thread[r].pc \in {"ingest", "mismatch", "register"} \/ thread[r].reply = r)
      => \/ q \in evicted \/ Verdict(slot, q) \in Reusable
         \/ \E p \in Requests \ {q, r} : id[p] = id[q]

(***************************************************************************)
(* All of it: requests of several clients, cancellation, reuse of ids and  *)
(* eviction leave the registry exact, each client within its limit, the    *)
(* blobs in place that are distributed, failed requests cleaned up, and    *)
(* files ingested once.                                                    *)
(***************************************************************************)
SendingIsSound ==
  /\ TypeOK /\ IndexIsExact /\ LimitPerClient /\ BlobsAreKept
  /\ FailureCleansUp /\ StatusIsOwn /\ IngestedOnce
=============================================================================
