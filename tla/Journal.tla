------------------------------- MODULE Journal -------------------------------
(***************************************************************************)
(* One suppression journal of the NATS bridge (ledger.rs): the active file *)
(* and what of it is durable, the worker thread that owns the file, its    *)
(* bounded command queue, the async callers, I/O errors, process crashes   *)
(* and power losses.  Kind chooses between the two files the code opens.   *)
(***************************************************************************)
EXTENDS JournalFormat

CONSTANTS
  Callers,      \* async tasks that use the facade
  QueueCap,     \* COMMAND_CAPACITY
  MaxFaults,    \* bound: I/O errors in a behaviour
  MaxCrashes,   \* bound: process crashes and power losses in a behaviour
  DirentSafe    \* does fsync of a new file also persist its directory entry?

ASSUME JournalConstants ==
  /\ QueueCap \in Nat \ {0}
  /\ MaxFaults \in Nat
  /\ MaxCrashes \in Nat
  /\ DirentSafe \in BOOLEAN

VARIABLES
  header,    \* of the active file: "absent" (length 0), "partial" or "ok"
  file,      \* cells of the active file, in order
  synced,    \* how many of them are known to be on stable storage
  proc,      \* the worker: "down", "up", "failed" (I/O error at
             \* open), "refused" (file rejected) or "exited"
  healthy,   \* AtomicBool read by the facade before it sends
  stopped,   \* AtomicBool set by request_stop
  index,     \* in-memory state of each digest ("none" if absent)
  sequence,  \* last sequence number handed out
  records,   \* number of records the worker believes the file holds
  queue,     \* sync_channel(COMMAND_CAPACITY) of commands
  pc,        \* where the worker is: "recv", "append", "sync" or "compact"
  cur,       \* the Record command being executed when pc # "recv"
  grants,    \* history: how often record answered Ok(true) for a new digest
  faults,    \* I/O errors so far
  crashes    \* crashes so far

disk == <<header, file, synced>>
memory == <<index, sequence, records>>
worker == <<proc, healthy, stopped>>
budget == <<faults, crashes>>
vars == <<disk, memory, worker, queue, pc, cur, grants, budget>>

Ops == Permits \cup {"Lookup"}
Request == [caller : Callers, op : Ops, digest : Digests]
Stop == [op |-> "Stop"]

Present == {d \in Digests : index[d] # "none"}
Completed == {d \in Digests : index[d] = "Completed"}

-----------------------------------------------------------------------------
Init ==
  /\ header = "absent" /\ file = <<>> /\ synced = 0
  /\ proc = "down" /\ healthy = FALSE /\ stopped = FALSE
  /\ index = [d \in Digests |-> "none"] /\ sequence = 0 /\ records = 0
  /\ queue = <<>> /\ pc = "recv" /\ cur = Stop
  /\ grants = [d \in Digests |-> 0]
  /\ faults = 0 /\ crashes = 0

(***************************************************************************)
(* Worker::spawn and Journal::open.  A file of length 0 gets its header,   *)
(* written and synced; then recovery loads the index.                      *)
(***************************************************************************)
Opened(f) ==
  /\ file' = Whole(f)
  /\ synced' = IF Whole(f) = f THEN synced ELSE Len(Whole(f))
  /\ index' = IndexOf(Whole(f))
  /\ sequence' = Len(Whole(f))
  /\ records' = Len(Whole(f))
  /\ proc' = "up" /\ healthy' = TRUE /\ stopped' = FALSE
  /\ UNCHANGED <<queue, pc, cur, grants, budget>>

OpenFresh ==
  /\ proc = "down" /\ header = "absent"
  /\ header' = "ok"
  /\ Opened(file)

OpenExisting ==
  /\ proc = "down" /\ header = "ok" /\ Recovers(file)
  /\ Opened(file)
  /\ UNCHANGED header

OpenRefused ==
  /\ proc = "down"
  /\ header = "partial" \/ (header = "ok" /\ ~Recovers(file))
  /\ proc' = "refused"
  /\ UNCHANGED <<disk, memory, healthy, stopped, queue, pc, cur, grants,
                 budget>>

\* write_header fails, or power is lost in it, and the file is left with a
\* length other than 0 and no valid header.
OpenTorn ==
  /\ proc = "down" /\ header = "absent"
  /\ header' = "partial"
  /\ \/ faults < MaxFaults /\ faults' = faults + 1 /\ proc' = "failed"
        /\ UNCHANGED crashes
     \/ crashes < MaxCrashes /\ crashes' = crashes + 1 /\ UNCHANGED <<proc, faults>>
  /\ UNCHANGED <<file, synced, memory, healthy, stopped, queue, pc, cur, grants>>

-----------------------------------------------------------------------------
(***************************************************************************)
(* Worker::record / lookup: the facade's health check and try_send.  A     *)
(* caller waits while its command is queued or being executed.  Completed  *)
(* is asked for only by the egress worker, for a digest once reserved.     *)
(***************************************************************************)
Queued(c) == \E i \in 1..Len(queue) : queue[i].op # "Stop" /\ queue[i].caller = c
Executing(c) == pc # "recv" /\ cur.caller = c
Waiting(c) == Queued(c) \/ Executing(c)

\* Every call is refused at once: Unavailable, QueueFull or Stopped.
CallFails(c) ==
  /\ ~Waiting(c)
  /\ ~healthy \/ Len(queue) = QueueCap
  /\ UNCHANGED vars

Call(c, op, d) ==
  /\ ~Waiting(c)
  /\ healthy
  /\ Len(queue) < QueueCap
  /\ op = "Completed" => grants[d] > 0
  /\ queue' = Append(queue, [caller |-> c, op |-> op, digest |-> d])
  /\ UNCHANGED <<disk, memory, worker, pc, cur, grants, budget>>

\* Wrong on purpose: a stop that only sets the flag never wakes recv.
RequestStopSilently ==
  /\ proc = "up" /\ ~stopped
  /\ stopped' = TRUE
  /\ UNCHANGED <<disk, memory, proc, healthy, queue, pc, cur, grants, budget>>

\* Wrong on purpose: a stop that does not look whether the queue is full.
RequestStopUnbounded ==
  /\ proc = "up" /\ ~stopped
  /\ stopped' = TRUE
  /\ queue' = Append(queue, Stop)
  /\ UNCHANGED <<disk, memory, proc, healthy, pc, cur, grants, budget>>

RequestStop ==
  /\ proc = "up" /\ ~stopped
  /\ stopped' = TRUE
  /\ queue' = IF Len(queue) < QueueCap THEN Append(queue, Stop) ELSE queue
  /\ UNCHANGED <<disk, memory, proc, healthy, pc, cur, grants, budget>>

-----------------------------------------------------------------------------
(***************************************************************************)
(* The worker's loop.  Every branch that answers a caller removes its      *)
(* command; a Record that needs the disk goes through append and sync.     *)
(***************************************************************************)
Received == proc = "up" /\ pc = "recv" /\ queue # <<>>

\* record_inner up to the capacity check.
Verdict(d, s) ==
  IF s \notin Permits THEN "Corrupt"
  ELSE IF index[d] = s \/ (index[d] = "Completed" /\ s = "Reserved") THEN "Known"
  ELSE IF index[d] = "none" /\ Cardinality(Present) >= MaxUnique THEN "Capacity"
  ELSE IF index[d] = "none" \/ (index[d] = "Reserved" /\ s = "Completed")
       THEN "Proceed"
  ELSE "Corrupt"

\* Wrong on purpose: the worker ends but its queue keeps the replies alive.
WorkerExitKeepsQueue ==
  /\ Received
  /\ stopped \/ Head(queue).op = "Stop"
  /\ proc' = "exited" /\ healthy' = FALSE /\ stopped' = TRUE
  /\ UNCHANGED <<disk, memory, queue, pc, cur, grants, budget>>

WorkerExit ==
  /\ Received
  /\ stopped \/ Head(queue).op = "Stop"
  /\ proc' = "exited" /\ healthy' = FALSE /\ stopped' = TRUE
  /\ queue' = <<>>              \* dropped replies: every waiter gets Stopped
  /\ UNCHANGED <<disk, memory, pc, cur, grants, budget>>

AnswerLookup ==
  /\ Received /\ ~stopped /\ Head(queue).op = "Lookup"
  /\ queue' = Tail(queue)
  /\ UNCHANGED <<disk, memory, worker, pc, cur, grants, budget>>

\* Ok(false) for what is known already, Corrupt or Capacity otherwise.
AnswerAtOnce ==
  /\ Received /\ ~stopped /\ Head(queue).op \in Recorded
  /\ LET v == Verdict(Head(queue).digest, Head(queue).op) IN
       /\ v # "Proceed"
       /\ healthy' = (healthy /\ v = "Known")
  /\ queue' = Tail(queue)
  /\ UNCHANGED <<disk, memory, proc, stopped, pc, cur, grants, budget>>

StartRecord ==
  /\ Received /\ ~stopped /\ Head(queue).op \in Recorded
  /\ Verdict(Head(queue).digest, Head(queue).op) = "Proceed"
  /\ cur' = Head(queue)
  /\ queue' = Tail(queue)
  /\ pc' = IF records >= MaxRecords THEN "compact" ELSE "append"
  /\ UNCHANGED <<disk, memory, worker, grants, budget>>

NewCell == [seq |-> sequence + 1, state |-> cur.op, digest |-> cur.digest]
TornCell == [seq |-> sequence + 1, state |-> "torn", digest |-> cur.digest]

\* Wrong on purpose: an I/O error that leaves the journal marked healthy.
AnswerStillHealthy ==
  /\ faults < MaxFaults /\ faults' = faults + 1
  /\ pc' = "recv" /\ cur' = Stop
  /\ UNCHANGED <<proc, healthy, stopped, queue, grants, crashes, header, synced,
                 index, records>>

AnswerUnavailable ==
  /\ faults < MaxFaults /\ faults' = faults + 1
  /\ pc' = "recv" /\ cur' = Stop /\ healthy' = FALSE
  /\ UNCHANGED <<proc, stopped, queue, grants, crashes, header, synced, index,
                 records>>

AppendCell ==
  /\ proc = "up" /\ pc = "append"
  /\ file' = Append(file, NewCell)
  /\ sequence' = sequence + 1
  /\ pc' = "sync"
  /\ UNCHANGED <<header, synced, index, records, worker, queue, cur, grants,
                 budget>>

\* write_all fails with nothing written, or with part of the record
\* written; two partial records may still be shorter than one.
AppendFails ==
  /\ proc = "up" /\ pc = "append"
  /\ \/ file' = file
     \/ file' = Append(file, TornCell)
  /\ sequence' = sequence + 1
  /\ AnswerUnavailable

SyncFails ==
  /\ proc = "up" /\ pc = "sync"
  /\ AnswerUnavailable
  /\ UNCHANGED <<file, sequence>>

\* Wrong on purpose: answer before sync_all has returned.
CommitUnsynced ==
  /\ proc = "up" /\ pc = "sync"
  /\ index' = [index EXCEPT ![cur.digest] = cur.op]
  /\ records' = records + 1
  /\ grants' = IF cur.op = First
               THEN [grants EXCEPT ![cur.digest] = @ + 1] ELSE grants
  /\ pc' = "recv" /\ cur' = Stop
  /\ UNCHANGED <<disk, sequence, worker, queue, budget>>

\* sync_all, index.insert and the answer Ok(true).
Commit ==
  /\ proc = "up" /\ pc = "sync"
  /\ synced' = Len(file)
  /\ index' = [index EXCEPT ![cur.digest] = cur.op]
  /\ records' = records + 1
  /\ grants' = IF cur.op = First
               THEN [grants EXCEPT ![cur.digest] = @ + 1] ELSE grants
  /\ pc' = "recv" /\ cur' = Stop
  /\ UNCHANGED <<header, file, sequence, worker, queue, budget>>

-----------------------------------------------------------------------------
(***************************************************************************)
(* Crashes.  A dead process leaves the file as written; a power loss keeps *)
(* the synced prefix and any part of the rest, and where the file system   *)
(* does not persist the directory entry with the file, the file itself may *)
(* be gone: no code syncs the directory after creating the active file.    *)
(***************************************************************************)
Dies ==
  /\ crashes < MaxCrashes /\ crashes' = crashes + 1
  /\ proc # "down" /\ proc' = "down"
  /\ healthy' = FALSE /\ stopped' = FALSE
  /\ queue' = <<>> /\ pc' = "recv" /\ cur' = Stop
  /\ index' = [d \in Digests |-> "none"] /\ sequence' = 0 /\ records' = 0
  /\ UNCHANGED <<grants, faults>>

ProcessCrash == Dies /\ UNCHANGED disk

Survivors == synced..Len(file) \cup (IF DirentSafe THEN {} ELSE {0})

PowerLoss ==
  /\ Dies
  /\ \E k \in Survivors :
       /\ \/ file' = SubSeq(file, 1, k)
          \/ /\ k \in synced..(Len(file) - 1)
             /\ file' = Append(SubSeq(file, 1, k),
                               [file[k + 1] EXCEPT !.state = "torn"])
       /\ header' = IF k < synced THEN "absent" ELSE header
  /\ synced' = Len(file')

-----------------------------------------------------------------------------
WorkerStep == \/ WorkerExit \/ AnswerLookup \/ AnswerAtOnce \/ StartRecord
              \/ AppendCell \/ AppendFails \/ SyncFails \/ Commit

Open == OpenFresh \/ OpenExisting \/ OpenRefused

Next == \/ Open \/ OpenTorn
        \/ \E c \in Callers : \/ CallFails(c)
                              \/ \E op \in Ops, d \in Digests : Call(c, op, d)
        \/ RequestStop
        \/ WorkerStep
        \/ ProcessCrash \/ PowerLoss

Spec == Init /\ [][Next]_vars

\* The worker thread is scheduled; nothing else is assumed.
FairSpec == Spec /\ WF_vars(WorkerStep)
-----------------------------------------------------------------------------
(***************************************************************************)
(* Type invariant of the journal; the queue never holds more commands than *)
(* its capacity and no more cells are durable than were written.           *)
(***************************************************************************)
TypeOK ==
  /\ header \in {"absent", "partial", "ok"}
  /\ file \in Seq(Cell)
  /\ synced \in 0..Len(file)
  /\ proc \in {"down", "up", "failed", "refused", "exited"}
  /\ healthy \in BOOLEAN /\ stopped \in BOOLEAN
  /\ index \in [Digests -> Recorded \cup {"none"}]
  /\ sequence \in Nat /\ records \in Nat
  /\ queue \in Seq(Request \cup {Stop}) /\ Len(queue) <= QueueCap
  /\ pc \in {"recv", "append", "sync", "compact"}
  /\ cur \in Request \cup {Stop}
  /\ pc # "recv" => cur \in Request /\ cur.op \in Recorded
  /\ grants \in [Digests -> Nat]
  /\ faults \in 0..MaxFaults /\ crashes \in 0..MaxCrashes

(***************************************************************************)
(* check_and_reserve answers Reserved at most once per digest, over all    *)
(* restarts, failed writes and queued commands (ledger.rs:389).            *)
(***************************************************************************)
GrantedOnce == \A d \in Digests : grants[d] <= 1

(***************************************************************************)
(* A digest for which record answered Ok(true) has a complete record on    *)
(* stable storage from then on (ledger.rs:603-610).                        *)
(***************************************************************************)
GrantDurable ==
  \A d \in Digests : grants[d] > 0 =>
    \E i \in 1..synced : file[i].digest = d /\ file[i].state = First

(***************************************************************************)
(* While the worker is healthy and between two commands, reopening the     *)
(* file would give back exactly its index, sequence and record count       *)
(* (ledger.rs:566-611 against recover, ledger.rs:670-717).                 *)
(***************************************************************************)
HealthyAgrees ==
  proc = "up" /\ healthy /\ pc = "recv" =>
    /\ header = "ok" /\ Recovers(file) /\ Whole(file) = file
    /\ index = IndexOf(file)
    /\ sequence = Len(file) /\ records = Len(file)

(***************************************************************************)
(* With MAX_RECORDS = 2 * MAX_UNIQUE_ENTRIES the compaction branch of      *)
(* record_inner (ledger.rs:586-588) is never taken: when the file holds    *)
(* MAX_RECORDS records every digest is Completed and no command proceeds.  *)
(***************************************************************************)
CompactionUnreachable == pc # "compact"

(***************************************************************************)
(* Every caller whose command was accepted gets an answer, by the worker   *)
(* or by its exit dropping the reply channel (ledger.rs:263-287).          *)
(***************************************************************************)
Answered == \A c \in Callers : []<>~Waiting(c)

(***************************************************************************)
(* After request_stop the worker thread ends, whether or not the Stop      *)
(* command found room in the queue, so join returns (ledger.rs:289-300).   *)
(***************************************************************************)
StopEndsWorker == []<>~(proc = "up" /\ stopped)

(***************************************************************************)
(* A journal whose header is in place always opens again: an interrupted   *)
(* or failed append leaves a file that recovery accepts.                   *)
(***************************************************************************)
AlwaysReopens == proc = "refused" => header = "partial"

=============================================================================
