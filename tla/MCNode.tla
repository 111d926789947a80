------------------------------- MODULE MCNode -------------------------------
(***************************************************************************)
(* Parts of the node that share no state, each on a small instance and one *)
(* per behaviour: the process from its start to its exit (Process), the    *)
(* bridge's connection supervisor (Supervisor), the links to the peers     *)
(* (Peers), the relay's fanout queue (Fanout: three documents of three     *)
(* classes in a queue of two, one of two peers stays), and the outbox and  *)
(* inbox watchers (Files).                                                 *)
(***************************************************************************)
EXTENDS Supervisor, Process, Peers, Fanout, Files, TLC

CONSTANTS k1, k2, k3

VARIABLE topic   \* the part that runs

MCRank == (k1 :> 1 @@ k2 :> 2 @@ k3 :> 3)

parts == <<topic, supervisorVars, processVars, peersVars, queueVars, filesVars>>

Supervising == topic = "supervisor"
InProcess == topic = "process"
InPeers == topic = "peers"
InFanout == topic = "fanout"
InFiles == topic = "files"

NodeInit ==
  /\ topic \in {"supervisor", "process", "peers", "fanout", "files"}
  /\ SupervisorInit /\ ProcessInit /\ PeersInit /\ QueueInit /\ FilesInit
  /\ InFiles \/ recv.target = 0

NodeNext ==
  \/ /\ Supervising /\ SupervisorNext
     /\ UNCHANGED <<topic, processVars, peersVars, queueVars, filesVars>>
  \/ /\ InProcess /\ ProcessNext
     /\ UNCHANGED <<topic, supervisorVars, peersVars, queueVars, filesVars>>
  \/ /\ InPeers /\ PeersNext
     /\ UNCHANGED <<topic, supervisorVars, processVars, queueVars, filesVars>>
  \/ /\ InFanout /\ QueueNext
     /\ UNCHANGED <<topic, supervisorVars, processVars, peersVars, filesVars>>
  \/ /\ InFiles /\ FilesNext
     /\ UNCHANGED <<topic, supervisorVars, processVars, peersVars, queueVars>>

\* Tokio polls the callback, the readers and the supervisor, whose select! takes its ready
\* arms in random order; max_reconnects(None) retries for ever (Supervisor).  main runs: a
\* dial, the shutdown of the bridge and the node's own end (Process).  Time passes, and
\* the watchdog ticks and ends its dials; nobody owes a call or its end, a dial from
\* outside or a change of the links (Peers).  Tokio polls a ready task, and a sync attempt
\* ends (Fanout).  Both watchers poll on an interval for as long as their process lives
\* (Files).  Each for the part that runs.
NodeSpec ==
  /\ NodeInit /\ [][NodeNext]_parts
  /\ WF_supervisorVars(Supervising /\ Connect) /\ WF_supervisorVars(Supervising /\ Delivered)
  /\ WF_supervisorVars(Supervising /\ (BarrierAnswered \/ BarrierTimesOut))
  /\ WF_supervisorVars(Supervising /\ \E g \in ended : SendSignal(g))
  /\ WF_supervisorVars(Supervising /\ (Connected \/ Rebuild))
  /\ WF_supervisorVars(Supervising /\ LifecycleChanged)
  /\ WF_supervisorVars(Supervising /\ Signal) /\ WF_supervisorVars(Supervising /\ BarrierDone)
  /\ WF_peersVars(InPeers /\ Watchdog) /\ \A p \in Peers : WF_peersVars(InPeers /\ Elapse(p))
  /\ WF_processVars(InProcess /\ Startup) /\ WF_processVars(InProcess /\ Stopping)
  /\ WF_processVars(InProcess /\ Rearm)
  /\ WF_queueVars(InFanout /\ \E e \in Enqueuers : Notify(e)) /\ WF_queueVars(InFanout /\ Worker)
  /\ WF_filesVars(InFiles /\ Watcher) /\ WF_filesVars(InFiles /\ Receiver)

--------------------------------------------------------------------------
\* The bridge gets ready and stays so when connections stop failing, whatever order
\* disconnects, reconnects, ended generations and late round trips came in, unless it is
\* shut down (runtime.rs, the supervisor; Supervisor: ReadyOrExcused).
EventuallyReady == <>[](Supervising => ReadyOrExcused)

\* Neither the broker nor unreachable peers keep the process from listening, and once it
\* has noticed a signal over TCP, or stopped serving, it ends, however long RPCs take
\* (main.rs; Process: Listened, Ending).
StopsInTime == []<>(InProcess => Listened) /\ []<>~(Ending /\ Running)

\* A full queue sheds no document while a less urgent one stays, and whatever is pending
\* is served or shed, however often more urgent documents come (fanout.rs, enqueue and
\* pop; Fanout: ShedsLowest, NoStarvation).
QueueServes == ShedsLowest /\ NoStarvation

\* A file that stays as it is is offered with that content, although it may change
\* between the listing, the hash and the read; and every distribution ends in a file of
\* its size (outbox.rs and inbox.rs; Files: SettledIsOffered, Arrives).
FilesArrive == SettledIsOffered /\ Arrives
=============================================================================
