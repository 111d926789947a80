------------------------------- MODULE Ingress -------------------------------
(***************************************************************************)
(* Native ingress of the NATS bridge: one reader per mapped subject        *)
(* (runtime.rs, read_subscription), the shared FIFO, and the serial        *)
(* processor with its bounded retries (ingress.rs).  Shutdown.tla adds the *)
(* end of it.  Storing is SidecarNode::create_bridge_document: exclusion   *)
(* record, existence check, put.                                           *)
(***************************************************************************)
EXTENDS Integers, Sequences, FiniteSets

CONSTANTS
  Subjects,     \* mapped literal subjects
  Msgs,         \* messages the broker delivers, each once
  Route,        \* subject and kind of each message
  FifoCap,      \* INGRESS_QUEUE_CAPACITY
  MaxAttempts,  \* STORE_MAX_ATTEMPTS
  MaxStoreFails     \* bound: failing store operations

ASSUME IngressConstants ==
  /\ "none" \notin Msgs
  /\ Route \in [Msgs -> [subject : Subjects,
                         kind : {"valid", "invalid", "own", "oversized"}]]
  /\ FifoCap \in Nat \ {0} /\ MaxAttempts \in Nat \ {0} /\ MaxStoreFails \in Nat

VARIABLES
  buffer,     \* per subject: the one message the client library retains
  reader,     \* per subject: "next", "send" or "ended", and the message held
  fifo,       \* the ingress FIFO
  work,       \* processor: "recv", "try", "sleep" or "ended"; message; attempt
  docs,       \* documents stored for each message
  outcome,    \* of each message: "none" before it arrives, "pending" on its way,
              \* "discarded" before the FIFO, "processed" to a counted end, or
              \* "lost" after it was admitted to the FIFO
  accepting,  \* readiness still accepts work
  held,       \* the supervisor holds a sender of the FIFO
  exclusion,  \* exclusion journal worker: "up", "stopping" or "ended"
  storeFails      \* failing store operations so far

path == <<buffer, reader, fifo, work, docs, outcome>>
ingressVars == <<path, accepting, held, exclusion, storeFails>>

Reading == [pc |-> "next", msg |-> "none"]
Ended == [pc |-> "ended", msg |-> "none"]
Receive == [pc |-> "recv", msg |-> "none", attempt |-> 0]

IngressInit ==
  /\ buffer = [s \in Subjects |-> "none"] /\ reader = [s \in Subjects |-> Ended]
  /\ fifo = <<>> /\ work = Receive
  /\ docs = [m \in Msgs |-> 0] /\ outcome = [m \in Msgs |-> "none"]
  /\ accepting = TRUE /\ held = TRUE
  /\ exclusion = "up" /\ storeFails = 0

Settle(m, o) == outcome' = [outcome EXCEPT ![m] = o]

InHand == {reader[s].msg : s \in Subjects} \ {"none"}

\* The readers share one task: it ends with the first of them, and drops what
\* they hold and what waits for them.
GenerationEnds ==
  /\ reader' = [s \in Subjects |-> Ended]
  /\ buffer' = [s \in Subjects |-> "none"]
  /\ outcome' = [m \in Msgs |->
                   IF m \in InHand \/ \E s \in Subjects : buffer[s] = m
                   THEN "discarded" ELSE outcome[m]]

-----------------------------------------------------------------------------
(***************************************************************************)
(* The client library keeps one message per subscription and drops the     *)
(* next one as a slow consumer's.                                          *)
(***************************************************************************)
Arrive(m) ==
  LET s == Route[m].subject IN
  /\ outcome[m] = "none" /\ reader[s].pc # "ended"
  /\ IF buffer[s] = "none"
     THEN buffer' = [buffer EXCEPT ![s] = m] /\ Settle(m, "pending")
     ELSE UNCHANGED buffer /\ Settle(m, "discarded")
  /\ UNCHANGED <<reader, fifo, work, docs, accepting, held, exclusion,
                 storeFails>>

\* read_subscription up to the send.
ReaderTakes(s) ==
  LET m == buffer[s] IN
  /\ reader[s].pc = "next" /\ m # "none"
  /\ IF ~accepting THEN GenerationEnds
     ELSE /\ buffer' = [buffer EXCEPT ![s] = "none"]
          /\ IF Route[m].kind \in {"own", "oversized"}
             THEN UNCHANGED reader /\ Settle(m, "discarded")
             ELSE /\ reader' = [reader EXCEPT ![s] = [pc |-> "send", msg |-> m]]
                  /\ UNCHANGED outcome
  /\ UNCHANGED <<fifo, work, docs, accepting, held, exclusion, storeFails>>

\* Wrong on purpose: a reader does not wait for room.
ReaderSendsAlways(s) ==
  /\ reader[s].pc = "send" /\ work.pc # "ended"
  /\ fifo' = Append(fifo, reader[s].msg)
  /\ reader' = [reader EXCEPT ![s] = Reading]
  /\ UNCHANGED <<buffer, work, docs, outcome, accepting, held, exclusion, storeFails>>

ReaderSends(s) ==
  /\ reader[s].pc = "send" /\ Len(fifo) < FifoCap /\ work.pc # "ended"
  /\ fifo' = Append(fifo, reader[s].msg)
  /\ reader' = [reader EXCEPT ![s] = Reading]
  /\ UNCHANGED <<buffer, work, docs, outcome, accepting, held, exclusion, storeFails>>

\* The processor is gone: the send fails and the reader returns.
ReaderFails(s) ==
  /\ reader[s].pc = "send" /\ work.pc = "ended"
  /\ GenerationEnds
  /\ UNCHANGED <<fifo, work, docs, accepting, held, exclusion, storeFails>>

-----------------------------------------------------------------------------
(***************************************************************************)
(* run_ingress_processor and process_item.                                 *)
(***************************************************************************)
WorkReceives ==
  LET m == Head(fifo) IN
  /\ work.pc = "recv" /\ fifo # <<>>
  /\ fifo' = Tail(fifo)
  /\ IF Route[m].kind = "invalid"
     THEN UNCHANGED work /\ Settle(m, "processed")
     ELSE work' = [pc |-> "try", msg |-> m, attempt |-> 1] /\ UNCHANGED outcome
  /\ UNCHANGED <<buffer, reader, docs, accepting, held, exclusion, storeFails>>

\* What create_bridge_document answers: a stopped exclusion journal refuses,
\* then an existing document does.
Refused(m) == exclusion # "up" \/ docs[m] > 0

\* Wrong on purpose: every attempt makes a new document id.
WorkStoresAnew ==
  /\ work.pc = "try" /\ exclusion = "up"
  /\ docs' = [docs EXCEPT ![work.msg] = @ + 1]
  /\ Settle(work.msg, "processed") /\ work' = Receive
  /\ UNCHANGED <<buffer, reader, fifo, accepting, held, exclusion, storeFails>>

WorkStores ==
  /\ work.pc = "try" /\ ~Refused(work.msg)
  /\ docs' = [docs EXCEPT ![work.msg] = @ + 1]
  /\ Settle(work.msg, "processed") /\ work' = Receive
  /\ UNCHANGED <<buffer, reader, fifo, accepting, held, exclusion, storeFails>>

WorkRefused ==
  /\ work.pc = "try" /\ Refused(work.msg)
  /\ Settle(work.msg, IF exclusion # "up" THEN "lost" ELSE "processed")
  /\ work' = Receive
  /\ UNCHANGED <<buffer, reader, fifo, docs, accepting, held, exclusion,
                 storeFails>>

\* A transient store error sleeps before the next attempt, or gives up.
Transient ==
  /\ storeFails < MaxStoreFails /\ storeFails' = storeFails + 1
  /\ IF work.attempt < MaxAttempts
     THEN work' = [work EXCEPT !.pc = "sleep"] /\ UNCHANGED outcome
     ELSE work' = Receive /\ Settle(work.msg, "processed")
  /\ UNCHANGED <<buffer, reader, fifo, accepting, held, exclusion>>

\* The existence check itself failed.
WorkReadFails ==
  work.pc = "try" /\ exclusion = "up" /\ UNCHANGED docs /\ Transient

\* The put failed, and may nevertheless have reached the disk.
WorkWriteFails ==
  /\ work.pc = "try" /\ ~Refused(work.msg)
  /\ docs' \in {docs, [docs EXCEPT ![work.msg] = @ + 1]}
  /\ Transient

\* An encryption or conversion error.
WorkPermanent ==
  /\ work.pc = "try" /\ ~Refused(work.msg)
  /\ storeFails < MaxStoreFails /\ storeFails' = storeFails + 1
  /\ work' = Receive /\ Settle(work.msg, "processed")
  /\ UNCHANGED <<buffer, reader, fifo, docs, accepting, held, exclusion>>

WorkRetries ==
  /\ work.pc = "sleep"
  /\ work' = [work EXCEPT !.pc = "try", !.attempt = @ + 1]
  /\ UNCHANGED <<buffer, reader, fifo, docs, outcome, accepting, held,
                 exclusion, storeFails>>

\* Every sender is dropped and the FIFO is empty.
WorkEnds ==
  /\ work.pc = "recv" /\ fifo = <<>> /\ ~held
  /\ \A s \in Subjects : reader[s].pc = "ended"
  /\ work' = [Receive EXCEPT !.pc = "ended"]
  /\ UNCHANGED <<buffer, reader, fifo, docs, outcome, accepting, held,
                 exclusion, storeFails>>

ReaderStep(s) == ReaderTakes(s) \/ ReaderSends(s) \/ ReaderFails(s)

WorkStep == \/ WorkReceives \/ WorkStores \/ WorkRefused
            \/ WorkReadFails \/ WorkWriteFails \/ WorkPermanent \/ WorkRetries \/ WorkEnds

IngressNext == \/ \E m \in Msgs : Arrive(m)
               \/ \E s \in Subjects : ReaderStep(s)
               \/ WorkStep
=============================================================================
