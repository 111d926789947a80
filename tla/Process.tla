------------------------------ MODULE Process ------------------------------
(***************************************************************************)
(* The life of a peat-node process (main.rs): the settings are checked and *)
(* turned into state one after the other, the node and the bridge come up, *)
(* RPCs are served over TCP or over a Unix socket, and a signal takes all  *)
(* of it down again.  A setting is chosen when main first reads it.        *)
(***************************************************************************)
EXTENDS Naturals

CONSTANTS
  MaxRpcs,    \* RPCs in progress at a time
  MaxPeers,   \* entries of PEAT_NODE_PEERS
  MaxSignals  \* SIGINTs and SIGTERMs sent

ASSUME ProcessBounds == MaxRpcs \in Nat /\ MaxPeers \in Nat /\ MaxSignals \in Nat

VARIABLES
  phase,      \* the next step of main
  made,       \* what the process has created or started
  mode,       \* "tcp" or "unix" once it listens
  peers,      \* entries of PEAT_NODE_PEERS still to dial
  bridge,     \* "off", "wanted", "running", "closed"
  up,         \* whether the node runs
  rpcs,       \* RPCs in progress
  server,     \* the task that serves TCP
  listening,  \* whether a shutdown_signal() is being waited on
  noticed,    \* whether that one has seen a signal
  sigs,       \* signals sent so far
  failed,     \* stages of the shutdown that failed
  cut,        \* an RPC was cut off (history)
  code        \* how the process ended

outside == <<rpcs, server, listening, noticed, sigs, cut>>
processVars == <<phase, made, mode, peers, bridge, up, failed, code, outside>>

ProcessInit ==
  /\ phase = "parse" /\ made = {} /\ mode = "none" /\ peers = 0
  /\ bridge = "off" /\ up = FALSE
  /\ rpcs = 0 /\ server = "none" /\ listening = FALSE /\ noticed = FALSE
  /\ sigs = 0 /\ failed = {} /\ cut = FALSE /\ code = "none"

Running == code = "none"
\* main returns; the runtime is dropped with it.
Exit(c) ==
  /\ phase' = "exited" /\ code' = c /\ rpcs' = 0 /\ server' = "none"
  /\ UNCHANGED <<made, mode, peers, bridge, up, listening, noticed, sigs, failed, cut>>

\* One step of the startup that creates `what`, or ends the process with `why`.
Step(now, then, what, why) ==
  /\ phase = now
  /\ \/ /\ phase' = then /\ made' = made \cup what
        /\ UNCHANGED <<mode, peers, bridge, up, failed, code, outside>>
     \/ why # "none" /\ Exit(why)

ParseMakesDir ==
  \/ Step("parse", "bridgeConfig", {"dataDir"}, "usage")
  \/ phase = "parse" /\ Exit("derived")
\* derive-id answers and ends; the timeouts have to be in order.
Parse ==
  \/ Step("parse", "bridgeConfig", {}, "usage")
  \/ phase = "parse" /\ Exit("derived")

\* BridgeConfig::from_raw, and validate_node_identity if it is enabled
BridgeConfig ==
  /\ phase = "bridgeConfig"
  /\ \/ /\ phase' = "dataDir" /\ bridge' \in {"off", "wanted"}
        /\ UNCHANGED <<made, mode, peers, up, failed, code, outside>>
     \/ Exit("badBridge")

DataDir == Step("dataDir", "identity", {"dataDir"}, "io")

AttachmentsWatch == \E inbox \in {{}, {"outbox"}} :
  Step("attachments", "node", inbox, "badAttachments")
\* derive_iroh_secret_seed, then AttachmentConfig::from_raw, which may create
\* the inbox, then SidecarNode::new
Identity == Step("identity", "attachments", {}, "badKey")

Attachments == \E inbox \in {{}, {"inbox"}} :
  Step("attachments", "node", inbox, "badAttachments")

NewNode ==
  /\ phase = "node"
  /\ \/ /\ phase' = "bridge" /\ up' = TRUE /\ made' = made \cup {"node"}
        /\ UNCHANGED <<mode, peers, bridge, failed, code, outside>>
     \/ Exit("nodeFailed")

StartBridgeWaits ==
  /\ phase = "bridge" /\ bridge = "off" /\ phase' = "outbox"
  /\ UNCHANGED <<made, mode, peers, bridge, up, failed, code, outside>>
\* BridgeRuntime::try_spawn opens the ledgers but does not wait for the broker.
StartBridge ==
  /\ phase = "bridge"
  /\ \/ /\ phase' = "outbox" /\ bridge' = IF bridge = "wanted" THEN "running" ELSE "off"
        /\ UNCHANGED <<made, mode, peers, up, failed, code, outside>>
     \/ bridge = "wanted" /\ Exit("bridgeFailed")

\* The outbox watcher starts if it is asked for and there are roots.
Outbox == \E w \in {{}, {"outbox"}}, n \in 0..MaxPeers :
  /\ phase = "outbox" /\ phase' = "peers" /\ made' = made \cup w /\ peers' = n
  /\ UNCHANGED <<mode, bridge, up, failed, code, outside>>

\* An entry that is malformed, or a peer that does not answer, is only logged.
ConnectPeers ==
  /\ phase = "peers"
  /\ IF peers = 0 THEN phase' = "sync" /\ UNCHANGED peers
     ELSE peers' = peers - 1 /\ UNCHANGED phase
  /\ UNCHANGED <<made, mode, bridge, up, failed, code, outside>>

StartSync == \E s \in {{}, {"sync"}} :
  Step("sync", "agent", s, IF s = {} THEN "none" ELSE "syncFailed")
StartAgent == \E a \in {{}, {"agent"}} : Step("agent", "bind", a, "none")

Bind ==
  /\ phase = "bind"
  /\ \/ /\ phase' = "serve" /\ mode' \in {"tcp", "unix"} /\ listening' = TRUE
        /\ server' = IF mode' = "tcp" THEN "serving" ELSE "none"
        /\ UNCHANGED <<made, peers, bridge, up, failed, code, rpcs, noticed, sigs, cut>>
     \/ Exit("bindFailed")

Startup ==
  \/ Parse \/ BridgeConfig \/ DataDir \/ Identity \/ Attachments \/ NewNode \/ StartBridge
  \/ Outbox \/ ConnectPeers \/ StartSync \/ StartAgent \/ Bind

--------------------------------------------------------------------------
\* Until main first waits for a signal it has its default effect; later, one
\* that nobody waits for is lost.
SignalArrives ==
  /\ Running /\ sigs < MaxSignals /\ sigs' = sigs + 1
  /\ \/ /\ mode = "none"
        /\ phase' = "exited" /\ code' = "killed" /\ UNCHANGED <<noticed, rpcs, server>>
     \/ /\ mode # "none" /\ noticed' = (noticed \/ listening)
        /\ UNCHANGED <<phase, code, rpcs, server>>
  /\ UNCHANGED <<made, mode, peers, bridge, up, failed, listening, cut>>

\* TCP: the server's task takes requests by itself.
RpcStarts ==
  /\ server = "serving" /\ rpcs < MaxRpcs /\ rpcs' = rpcs + 1
  /\ UNCHANGED <<phase, made, mode, peers, bridge, up, failed, code, server, listening,
                 noticed, sigs, cut>>

\* Unix: main accepts between two waits for a signal, each of which starts anew.
AcceptUnix ==
  /\ phase = "serve" /\ mode = "unix" /\ rpcs < MaxRpcs
  /\ phase' = "accepted" /\ rpcs' = rpcs + 1 /\ listening' = FALSE /\ noticed' = FALSE
  /\ UNCHANGED <<made, mode, peers, bridge, up, failed, code, server, sigs, cut>>

Rearm ==
  /\ phase = "accepted" /\ phase' = "serve" /\ listening' = TRUE
  /\ UNCHANGED <<made, mode, peers, bridge, up, failed, code, rpcs, server, noticed,
                 sigs, cut>>

RpcEnds ==
  /\ rpcs > 0 /\ rpcs' = rpcs - 1
  /\ UNCHANGED <<phase, made, mode, peers, bridge, up, failed, code, server, listening,
                 noticed, sigs, cut>>

\* The server's task ends: with an error at any time, or drained.
ServerEnds ==
  /\ \/ server \in {"serving", "draining"} /\ server' = "error"
     \/ server = "draining" /\ rpcs = 0 /\ server' = "drained"
  /\ UNCHANGED <<phase, made, mode, peers, bridge, up, failed, code, rpcs, listening,
                 noticed, sigs, cut>>

--------------------------------------------------------------------------
\* The signal ends the serving; so does an error of the Unix listener.
StopServing ==
  /\ phase = "serve" /\ phase' = "stopBridge" /\ listening' = FALSE
  /\ \/ noticed /\ UNCHANGED failed
     \/ mode = "unix" /\ failed' = {"serve"}
  /\ server' = IF server = "serving" THEN "draining" ELSE server
  /\ UNCHANGED <<made, mode, peers, bridge, up, code, rpcs, noticed, sigs, cut>>

ShutdownBridge ==
  /\ phase = "stopBridge" /\ phase' = "stopServer"
  /\ bridge' = IF bridge = "running" THEN "closed" ELSE bridge
  /\ \/ UNCHANGED failed
     \/ bridge = "running" /\ failed' = failed \cup {"bridge"}
  /\ UNCHANGED <<made, mode, peers, up, code, outside>>

\* Unix: every connection is aborted and waited for within the deadline.
StopConnections ==
  /\ phase = "stopServer" /\ mode = "unix" /\ phase' = "stopNode"
  /\ cut' = (cut \/ rpcs > 0)
  /\ \/ rpcs' = 0 /\ UNCHANGED failed
     \/ rpcs > 0 /\ failed' = failed \cup {"serve"} /\ UNCHANGED rpcs
  /\ UNCHANGED <<made, mode, peers, bridge, up, code, server, listening, noticed, sigs>>

StopServerHasty ==
  /\ phase = "stopServer" /\ mode = "tcp" /\ phase' = "stopNode"
  /\ UNCHANGED <<made, mode, peers, bridge, up, code, failed, outside>>
StopServerPatiently ==
  /\ phase = "stopServer" /\ mode = "tcp" /\ phase' = "stopNode"
  /\ \/ server = "drained" /\ UNCHANGED failed
     \/ server = "error" /\ failed' = failed \cup {"serve"}
  /\ UNCHANGED <<made, mode, peers, bridge, up, code, outside>>
\* TCP: the drained server is waited for, until the deadline aborts its task.
StopServer ==
  /\ phase = "stopServer" /\ mode = "tcp" /\ phase' = "stopNode"
  /\ \/ server = "drained" /\ UNCHANGED <<failed, rpcs, server, cut>>
     \/ server = "error" /\ failed' = failed \cup {"serve"} /\ UNCHANGED <<rpcs, server, cut>>
     \/ /\ server = "draining" /\ server' = "aborted"
        /\ failed' = failed \cup {"serve"} /\ rpcs' \in {0, rpcs} /\ cut' = (cut \/ rpcs > 0)
  /\ UNCHANGED <<made, mode, peers, bridge, up, code, listening, noticed, sigs>>

ShutdownNode ==
  /\ phase = "stopNode" /\ phase' = "report" /\ up' = FALSE
  /\ failed' \in {failed, failed \cup {"node"}}
  /\ UNCHANGED <<made, mode, peers, bridge, code, outside>>

ReportServe(stages) == IF "serve" \in stages THEN "failed" ELSE "clean"
\* Several failed stages are reported as one error.
Report(stages) == IF stages = {} THEN "clean" ELSE "failed"

Finish == phase = "report" /\ Exit(Report(failed))

Stopping ==
  \/ StopServing \/ ShutdownBridge \/ StopConnections \/ StopServer \/ ShutdownNode \/ Finish

ProcessNext ==
  \/ Startup \/ Stopping \/ SignalArrives \/ RpcStarts \/ AcceptUnix \/ Rearm \/ RpcEnds \/ ServerEnds

ProcessSpec == ProcessInit /\ [][ProcessNext]_processVars

--------------------------------------------------------------------------
\* The state has its type; what follows the node's start only runs with it.
ProcessTyped ==
  /\ made \subseteq {"dataDir", "inbox", "node", "outbox", "sync", "agent"}
  /\ mode \in {"none", "tcp", "unix"} /\ peers \in 0..MaxPeers
  /\ bridge \in {"off", "wanted", "running", "closed"} /\ up \in BOOLEAN
  /\ rpcs \in 0..MaxRpcs /\ server \in {"none", "serving", "draining", "drained", "error", "aborted"}
  /\ listening \in BOOLEAN /\ noticed \in BOOLEAN /\ sigs \in 0..MaxSignals
  /\ failed \subseteq {"serve", "bridge", "node"} /\ cut \in BOOLEAN
  /\ made \cap {"outbox", "sync", "agent"} # {} => "node" \in made

\* A bridge configuration that is refused leaves no trace (main.rs: "Reject the
\* complete bridge configuration before any data-directory or mesh construction").
RejectsEarly == code \in {"usage", "badBridge"} => made = {}

\* The node goes last: a process that has served takes the bridge down before the
\* node, and no RPC still runs on a node that is down unless the exit will tell.
NodeLast ==
  /\ mode # "none" /\ ~up => bridge # "running"
  /\ mode # "none" /\ ~up /\ rpcs > 0 => "serve" \in failed

\* A clean exit means that no stage failed and that, over TCP, every RPC was
\* allowed to finish.
CleanIsClean == code = "clean" =>
  failed = {} /\ ~up /\ bridge # "running" /\ (mode = "tcp" => ~cut)

\* A refused configuration leaves no trace, the node goes down last, and a clean exit
\* means that no stage failed and no RPC over TCP was cut off (main.rs, main).
ProcessIsSound == ProcessTyped /\ RejectsEarly /\ NodeLast /\ CleanIsClean

\* Startup is over: the process listens, or it has ended.
Listened == mode # "none" \/ ~Running

\* Serving is over, or about to be: main never goes back from here.
Ending ==
  \/ phase \in {"stopBridge", "stopServer", "stopNode", "report"}
  \/ mode = "tcp" /\ noticed
============================================================================
