------------------------------- MODULE MCData -------------------------------
(***************************************************************************)
(* What the node keeps and tells of it, one part per behaviour: recovery   *)
(* of a journal over every file of a few cells (Recovery), documents and   *)
(* collection configurations (Documents), and those who watch documents    *)
(* (Changes).                                                              *)
(***************************************************************************)
EXTENDS Changes, Recovery, Documents

VARIABLE topic

parts == <<topic, vars, recoveryVars, serviceVars>>

DataInit ==
  /\ topic \in {"recovery", "changes", "documents"} /\ Init
  /\ IF topic = "recovery" THEN RecoveryInit ELSE
       input = <<>> /\ pos = 0 /\ expected = 1 /\ idx = [d \in Digests |-> "none"] /\ result = "Ok"
  /\ ServiceInit
  /\ topic # "documents" =>
       cipher = "none" /\ serves = {"packages"} /\ \A d \in Typed : docs[d] = NoDocument

DataNext ==
  \/ topic = "recovery" /\ RecoveryNext /\ UNCHANGED <<topic, vars, serviceVars>>
  \/ topic = "changes" /\ Next /\ UNCHANGED <<topic, recoveryVars, serviceVars>>
  \/ topic = "documents" /\ ServiceNext /\ UNCHANGED <<topic, vars, recoveryVars>>

\* The fairness of Changes; in Documents the watcher polls on an interval, and a file
\* operation ends.  Each for the part that runs.
DataSpec ==
  /\ DataInit /\ [][DataNext]_parts
  /\ WF_vars(topic = "changes" /\ Forwarder)
  /\ \A s \in Subs : WF_vars(topic = "changes" /\ Subscriber(s))
  /\ WF_serviceVars(topic = "documents" /\ Watch)
  /\ WF_serviceVars(topic = "documents" /\ WriteConfig)

--------------------------------------------------------------------------
\* A client whose events were dropped still comes to know the documents when writes
\* stop, and the watched agent's packages reach the store even if some of its polls
\* never answer (Changes: CatchesUp; Documents: Mirrored).
WatchersCatchUp == CatchesUp /\ (topic = "documents" => Mirrored)
=============================================================================
