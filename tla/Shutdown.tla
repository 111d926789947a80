------------------------------ MODULE Shutdown ------------------------------
(***************************************************************************)
(* The bridge's shutdown (runtime.rs, BridgeRuntimeHandle::shutdown) over  *)
(* the ingress path of Ingress.tla: quiesce, abort and join the producers, *)
(* join the supervisor while it stops the readers, lets egress drain and   *)
(* closes the client, join the ingress processor, stop and join the        *)
(* journals, all under one deadline.  What egress does with its queue is   *)
(* Delivery.tla's subject; here its worker only runs or has ended.         *)
(***************************************************************************)
EXTENDS Ingress

VARIABLES
  stage,     \* where shutdown() is
  expired,   \* the absolute deadline has passed
  live,      \* running tasks other than the readers and the processor
  doomed,    \* tasks whose abort was requested
  sup,       \* the supervisor's program counter
  delivery,  \* delivery journal worker
  failure    \* the first failure recorded: the report

handleVars == <<stage, expired, live, doomed, sup, delivery, failure>>
shutdownVars == <<ingressVars, handleVars>>

\* The reconciler, the router and the journal health monitors: aborted and joined
\* one after the other, counted here as one task.
Producers == {"producers"}

ShutdownInit ==
  /\ IngressInit /\ stage = "idle" /\ expired = FALSE
  /\ live = Producers \cup {"supervisor", "operations"} /\ doomed = {}
  /\ sup = "connect" /\ delivery = "up" /\ failure = "none"

\* Only the first failure is reported.
Fail(f) == failure' = IF failure = "none" THEN f ELSE failure

-----------------------------------------------------------------------------
(***************************************************************************)
(* The supervisor task.                                                    *)
(***************************************************************************)
\* It connects, spawns the egress worker and builds the subscriptions.
SupConnects ==
  /\ sup = "connect" /\ "supervisor" \in live
  /\ sup' = "run" /\ live' = live \cup {"egress"}
  /\ reader' = [s \in Subjects |-> Reading]
  /\ UNCHANGED <<buffer, fifo, work, docs, outcome, accepting, held,
                 exclusion, storeFails, stage, expired, doomed, delivery, failure>>

\* It returns, dropping its ingress sender.
SupReturns(result) ==
  /\ sup' = result /\ held' = FALSE /\ live' = live \ {"supervisor"}
  /\ UNCHANGED <<path, accepting, exclusion, storeFails, stage, expired, delivery,
                 failure>>

SupConnectFails ==
  sup = "connect" /\ "supervisor" \in live /\ SupReturns("none") /\ UNCHANGED doomed

\* The shutdown arm: barrier and readers are aborted and joined, the ingress
\* sender is dropped.
SupStopsReaders ==
  /\ sup = "run" /\ "supervisor" \in live /\ stage # "idle"
  /\ GenerationEnds /\ held' = FALSE /\ sup' = "egress"
  /\ UNCHANGED <<fifo, work, docs, accepting, exclusion, storeFails, stage,
                 expired, live, doomed, delivery, failure>>

\* The readers were not joined in time: their task stays aborted.
SupStopExpires ==
  /\ sup = "run" /\ "supervisor" \in live /\ expired
  /\ SupReturns("deadline") /\ doomed' = doomed \cup {"generation"}

SupJoinsEgress ==
  /\ sup = "egress" /\ "supervisor" \in live /\ "egress" \notin live
  /\ sup' = "flush"
  /\ UNCHANGED <<ingressVars, stage, expired, live, doomed, delivery, failure>>

SupEgressExpires ==
  /\ sup = "egress" /\ "supervisor" \in live /\ "egress" \in live /\ expired
  /\ SupReturns("deadline") /\ doomed' = doomed \cup {"egress"}

SupFlushes ==
  /\ sup = "flush" /\ "supervisor" \in live /\ sup' = "drain"
  /\ UNCHANGED <<ingressVars, stage, expired, live, doomed, delivery, failure>>

SupDrains ==
  sup = "drain" /\ "supervisor" \in live /\ SupReturns("none") /\ UNCHANGED doomed

\* Flush or drain failed, or ran into the deadline.
SupClientFails ==
  /\ sup \in {"flush", "drain"} /\ "supervisor" \in live
  /\ \E f \in {"client"} \cup (IF expired THEN {"deadline"} ELSE {}) : SupReturns(f)
  /\ UNCHANGED doomed

SupStep == \/ SupConnects \/ SupConnectFails \/ SupStopsReaders \/ SupStopExpires
           \/ SupJoinsEgress \/ SupEgressExpires \/ SupFlushes \/ SupDrains
           \/ SupClientFails

-----------------------------------------------------------------------------
(***************************************************************************)
(* The other tasks, and time.                                              *)
(***************************************************************************)
\* The egress worker ends once no coordinator can send to it.
EgressEnds ==
  /\ "egress" \in live /\ Producers \cap live = {}
  /\ live' = live \ {"egress"}
  /\ UNCHANGED <<ingressVars, stage, expired, doomed, sup, delivery, failure>>

OperationsEnds ==
  /\ "operations" \in live /\ stage # "idle"
  /\ live' = live \ {"operations"}
  /\ UNCHANGED <<ingressVars, stage, expired, doomed, sup, delivery, failure>>

\* An aborted task ends when it next yields.
TaskAborted(t) ==
  /\ t \in doomed \cap live
  /\ live' = live \ {t}
  /\ IF t = "supervisor" THEN held' = FALSE ELSE UNCHANGED held
  /\ UNCHANGED <<path, accepting, exclusion, storeFails, stage, expired, doomed, sup,
                 delivery, failure>>

GenerationAborted ==
  /\ "generation" \in doomed /\ \E s \in Subjects : reader[s].pc # "ended"
  /\ GenerationEnds
  /\ UNCHANGED <<fifo, work, docs, accepting, held, exclusion, storeFails,
                 handleVars>>

\* The processor's queue and item are dropped with it.
ProcessorAborted ==
  /\ "processor" \in doomed /\ work.pc # "ended"
  /\ work' = [Receive EXCEPT !.pc = "ended"] /\ fifo' = <<>>
  /\ outcome' = [m \in Msgs |->
                  IF m = work.msg \/ \E i \in DOMAIN fifo : fifo[i] = m
                  THEN "lost" ELSE outcome[m]]
  /\ UNCHANGED <<buffer, reader, docs, accepting, held, exclusion, storeFails,
                 handleVars>>

ExclusionEnds ==
  /\ exclusion = "stopping" /\ exclusion' = "ended"
  /\ UNCHANGED <<path, accepting, held, storeFails, handleVars>>

DeliveryEnds ==
  /\ delivery = "stopping" /\ delivery' = "ended"
  /\ UNCHANGED <<ingressVars, stage, expired, live, doomed, sup, failure>>

DeadlinePasses ==
  /\ stage \notin {"idle", "done"} /\ ~expired /\ expired' = TRUE
  /\ UNCHANGED <<ingressVars, stage, live, doomed, sup, delivery, failure>>

-----------------------------------------------------------------------------
(***************************************************************************)
(* shutdown().  Each wait ends when what it waits for has ended, or at the *)
(* deadline, when it requests the abort and goes on.                       *)
(***************************************************************************)
BeginShutdown ==
  /\ stage = "idle" /\ stage' = "producers"
  /\ accepting' = FALSE /\ doomed' = doomed \cup Producers
  /\ UNCHANGED <<path, held, exclusion, storeFails, expired, live, sup, delivery, failure>>

JoinProducers ==
  /\ stage = "producers" /\ stage' = "supervisor"
  /\ \/ Producers \cap live = {} /\ UNCHANGED failure
     \/ Producers \cap live # {} /\ expired /\ Fail("deadline")
  /\ UNCHANGED <<ingressVars, expired, live, doomed, sup, delivery>>

\* Wrong on purpose: the supervisor is awaited without the deadline.
JoinSupervisorForever ==
  /\ stage = "supervisor" /\ stage' = "consumers" /\ "supervisor" \notin live
  /\ Fail(sup) /\ UNCHANGED doomed
  /\ UNCHANGED <<ingressVars, expired, live, sup, delivery>>

\* Wrong on purpose: the journals are told to stop before the processor ends.
JoinSupervisorStopsJournals ==
  /\ stage = "supervisor" /\ stage' = "consumers"
  /\ \/ "supervisor" \notin live /\ Fail(sup) /\ UNCHANGED doomed
     \/ /\ "supervisor" \in live /\ expired /\ Fail("deadline")
        /\ doomed' = doomed \cup {"supervisor"}
  /\ exclusion' = "stopping" /\ delivery' = "stopping"
  /\ UNCHANGED <<path, accepting, held, storeFails, expired, live, sup>>

JoinSupervisor ==
  /\ stage = "supervisor" /\ stage' = "consumers"
  /\ \/ "supervisor" \notin live /\ Fail(sup) /\ UNCHANGED doomed
     \/ /\ "supervisor" \in live /\ expired /\ Fail("deadline")
        /\ doomed' = doomed \cup {"supervisor"}
  /\ UNCHANGED <<ingressVars, expired, live, sup, delivery>>

\* Wrong on purpose: an unjoined processor is not a failure.
JoinConsumersQuietly ==
  /\ stage = "consumers" /\ stage' = "ledgers"
  /\ \/ work.pc = "ended" /\ UNCHANGED doomed
     \/ work.pc # "ended" /\ expired /\ doomed' = doomed \cup {"processor"}
  /\ exclusion' = "stopping" /\ delivery' = "stopping"
  /\ UNCHANGED <<path, accepting, held, storeFails, expired, live, sup, failure>>

\* Joins the ingress processor, then tells both journals to stop.
JoinConsumers ==
  /\ stage = "consumers" /\ stage' = "ledgers"
  /\ \/ work.pc = "ended" /\ UNCHANGED <<doomed, failure>>
     \/ /\ work.pc # "ended" /\ expired /\ Fail("deadline")
        /\ doomed' = doomed \cup {"processor"}
  /\ exclusion' = "stopping" /\ delivery' = "stopping"
  /\ UNCHANGED <<path, accepting, held, storeFails, expired, live, sup>>

JoinLedgers ==
  /\ stage = "ledgers" /\ stage' = "operations"
  /\ \/ exclusion = "ended" /\ delivery = "ended" /\ UNCHANGED failure
     \/ expired /\ Fail("ledger")
  /\ UNCHANGED <<ingressVars, expired, live, doomed, sup, delivery>>

JoinOperations ==
  /\ stage = "operations" /\ stage' = "done"
  /\ \/ "operations" \notin live /\ UNCHANGED <<doomed, failure>>
     \/ /\ "operations" \in live /\ expired /\ Fail("deadline")
        /\ doomed' = doomed \cup {"operations"}
  /\ UNCHANGED <<ingressVars, expired, live, sup, delivery>>

HandleStep == \/ BeginShutdown \/ JoinProducers \/ JoinSupervisor \/ JoinConsumers
              \/ JoinLedgers \/ JoinOperations

ShutdownNext ==
  \/ IngressNext /\ UNCHANGED handleVars
  \/ SupStep \/ EgressEnds \/ OperationsEnds
  \/ \E t \in doomed : TaskAborted(t)
  \/ GenerationAborted \/ ProcessorAborted
  \/ ExclusionEnds \/ DeliveryEnds
  \/ DeadlinePasses \/ HandleStep

ShutdownSpec == ShutdownInit /\ [][ShutdownNext]_shutdownVars

(***************************************************************************)
(* Only the caller of shutdown() and the clock are assumed to make         *)
(* progress: the runtime polls the future it awaits in main.rs, and timers *)
(* fire.  No other task, journal thread, store or broker need ever move.   *)
(***************************************************************************)
ShutdownFairness ==
  /\ WF_shutdownVars(DeadlinePasses)
  /\ WF_shutdownVars(JoinProducers \/ JoinSupervisor \/ JoinConsumers \/ JoinLedgers
             \/ JoinOperations)

-----------------------------------------------------------------------------
(***************************************************************************)
(* Properties.                                                             *)
(***************************************************************************)
Tasks == Producers \cup {"supervisor", "egress", "operations"}
Workers == {"up", "stopping", "ended"}

\* Every variable keeps its type; the FIFO never exceeds its capacity.
ShutdownTyped ==
  /\ buffer \in [Subjects -> Msgs \cup {"none"}]
  /\ reader \in [Subjects -> [pc : {"next", "send", "ended"},
                              msg : Msgs \cup {"none"}]]
  /\ fifo \in Seq(Msgs) /\ Len(fifo) <= FifoCap
  /\ work \in [pc : {"recv", "try", "sleep", "ended"}, msg : Msgs \cup {"none"},
               attempt : 0 .. MaxAttempts]
  /\ docs \in [Msgs -> Nat]
  /\ outcome \in [Msgs -> {"none", "pending", "discarded", "processed", "lost"}]
  /\ accepting \in BOOLEAN /\ held \in BOOLEAN /\ expired \in BOOLEAN
  /\ exclusion \in Workers /\ delivery \in Workers /\ storeFails \in 0 .. MaxStoreFails
  /\ stage \in {"idle", "producers", "supervisor", "consumers", "ledgers",
                "operations", "done"}
  /\ live \subseteq Tasks
  /\ doomed \subseteq Tasks \cup {"generation", "processor"}
  /\ sup \in {"connect", "run", "egress", "flush", "drain", "none", "client",
              "deadline"}
  /\ failure \in {"none", "client", "deadline", "ledger"}

\* Retries of a create whose put may already have reached the disk never leave
\* two documents for one NATS message (process_item keeps one document id for
\* all attempts and creates only).
StoredOnce == \A m \in Msgs : docs[m] <= 1

Clean == stage = "done" /\ failure = "none"

\* A clean report means nothing of the bridge still runs: producers,
\* supervisor, readers, egress, processor, operations task and both journal
\* workers ("True only when all controlled tasks and both ledger workers
\* joined", BridgeShutdownReport::is_clean).
CleanMeansQuiet ==
  Clean => /\ live = {} /\ work.pc = "ended"
           /\ \A s \in Subjects : reader[s].pc = "ended"
           /\ exclusion = "ended" /\ delivery = "ended"

\* The state has its type, a message becomes one document at most although its store
\* operation is retried, and a clean report means that every task and both journal
\* workers have ended (ingress.rs, process_item, and runtime.rs, shutdown).
ShutdownIsSound == ShutdownTyped /\ StoredOnce /\ CleanMeansQuiet

\* A clean report means every message admitted to the FIFO was processed to an
\* end, none dropped with a task and none refused because the exclusion journal
\* had been stopped before the drain was over.
CleanDrainsIngress ==
  Clean => \A m \in Msgs : outcome[m] \notin {"pending", "lost"}

\* Shutdown always returns, even if no task, journal thread, store operation or
\* broker request ever completes.
ShutdownEnds == []<>(stage \in {"idle", "done"})
=============================================================================
