--------------------------- MODULE LifecycleProofs ---------------------------
(***************************************************************************)
(* Proofs about what starts, stays up and stops: the life of a process     *)
(* (Process) and the readiness of the NATS bridge (Supervisor), for any    *)
(* number of RPCs, peers, signals, lost connections, errors and ended      *)
(* generations.                                                            *)
(***************************************************************************)
EXTENDS Supervisor, Process, FiniteSetTheorems, TLAPS

LEMMA EmptySeq == ASSUME NEW S PROVE <<>> \in Seq(S) /\ \A s \in Seq(S) : s = <<>> <=> Len(s) = 0
OBVIOUS
LEMMA LenProperties ==
  ASSUME NEW S, NEW s \in Seq(S)
  PROVE  Len(s) \in Nat /\ s \in [1..Len(s) -> S] /\ DOMAIN s = 1..Len(s)
OBVIOUS
LEMMA AppendProperties ==
  ASSUME NEW S, NEW s \in Seq(S), NEW e \in S
  PROVE  /\ Append(s, e) \in Seq(S) /\ Append(s, e) # <<>> /\ Len(Append(s, e)) = Len(s) + 1
         /\ \A i \in 1..Len(s) : Append(s, e)[i] = s[i]
         /\ Append(s, e)[Len(s) + 1] = e
OBVIOUS
LEMMA HeadTailProperties ==
  ASSUME NEW S, NEW s \in Seq(S), s # <<>>
  PROVE  /\ Head(s) \in S /\ Head(s) = s[1]
         /\ Tail(s) \in Seq(S) /\ Len(Tail(s)) = Len(s) - 1
         /\ \A i \in 1..Len(Tail(s)) : Tail(s)[i] = s[i + 1]
OBVIOUS

-----------------------------------------------------------------------------

(***************************************************************************)
(* Process.  Why it has stopped is known only from where it was: the       *)
(* invariant says for every phase of main what is up, and that an RPC      *)
(* outlives the server only if the failure of that stage is on record.     *)
(***************************************************************************)

Serving == {"serve", "accepted", "stopBridge", "stopServer", "stopNode"}
Started == {"bridge", "outbox", "peers", "sync", "agent", "bind"}
Early == {"parse", "bridgeConfig", "dataDir", "identity", "attachments", "node"}

PhaseTyped ==
  /\ phase \in Serving \cup Started \cup Early \cup {"report", "exited"}
  /\ rpcs \in Nat

\* What is up in each phase.
Phases ==
  /\ phase \in Serving => up /\ mode # "none"
  /\ phase \in {"stopServer", "stopNode", "report"} => bridge # "running"
  /\ phase = "report" => ~up /\ mode # "none"
  /\ phase \in Early => ~up
  /\ phase \in Started => up
  /\ phase \in Started \cup Early => mode = "none"
  /\ phase = "exited" => code # "none"
  /\ phase = "exited" /\ mode # "none" => ~up /\ bridge # "running" /\ rpcs = 0
  /\ phase # "exited" => code = "none"

\* Nothing is created before the bridge's configuration is accepted.
Untouched == /\ phase \in {"parse", "bridgeConfig"} => made = {}
             /\ code \in {"usage", "badBridge"} => made = {}

\* RPCs that are left when the server has been stopped, and RPCs that were cut off.
Accounted ==
  /\ server = "serving" => phase \in {"serve", "accepted"}
  /\ server = "drained" => rpcs = 0
  /\ phase \in {"stopNode", "report"} /\ rpcs > 0 => "serve" \in failed
  /\ mode = "tcp" /\ cut => "serve" \in failed
  /\ code = "clean" => failed = {} /\ mode # "none"
  /\ mode # "tcp" => server = "none"
  /\ mode = "none" => ~cut

ProcInv == PhaseTyped /\ Phases /\ Untouched /\ Accounted

-----------------------------------------------------------------------------
LEMMA InitSound == ProcessInit => ProcInv
BY DEF ProcessInit, ProcInv, PhaseTyped, Phases, Untouched, Accounted, Serving, Started, Early

\* A way out of the startup.
LEMMA ExitSound ==
  ASSUME ProcInv, NEW c, Exit(c), phase \in Started \cup Early, c # "clean", c # "none",
         c \in {"usage", "badBridge"} => phase \in {"parse", "bridgeConfig"}
  PROVE  ProcInv'
BY ZenonT(60) DEF Exit, ProcInv, PhaseTyped, Phases, Untouched, Accounted, Serving, Started, Early

\* A step from one phase of the startup to another.
LEMMA StartupSound ==
  ASSUME ProcInv, phase \in Started \cup Early, phase' \in Started \cup Early,
         phase' \in Early => phase \in Early /\ up' = up,
         phase' \in Started => up' \/ (phase \in Started /\ up' = up),
         phase' \in {"parse", "bridgeConfig"} => phase = "parse" /\ made' = made,
         UNCHANGED <<mode, failed, code, rpcs, server, cut>>
  PROVE  ProcInv'
BY DEF ProcInv, PhaseTyped, Phases, Untouched, Accounted, Serving, Started, Early

LEMMA StepsSound == ProcInv /\ Startup => ProcInv'
<1>. SUFFICES ASSUME ProcInv, Startup PROVE ProcInv'
  BY Zenon
<1>. USE DEF Started, Early, outside
<1>1. CASE Parse
  BY Zenon, <1>1, ExitSound, StartupSound DEF Parse, Step
<1>2. CASE BridgeConfig
  BY Zenon, <1>2, ExitSound, StartupSound DEF BridgeConfig
<1>3. CASE DataDir
  BY Zenon, <1>3, ExitSound, StartupSound DEF DataDir, Step
<1>4. CASE Identity
  BY Zenon, <1>4, ExitSound, StartupSound DEF Identity, Step
<1>5. CASE Attachments
  BY Zenon, <1>5, ExitSound, StartupSound DEF Attachments, Step
<1>6. CASE NewNode
  BY Zenon, <1>6, ExitSound, StartupSound DEF NewNode
<1>7. CASE StartBridge
  BY Zenon, <1>7, ExitSound, StartupSound DEF StartBridge
<1>8. CASE Outbox
  BY Zenon, <1>8, StartupSound DEF Outbox
<1>9. CASE ConnectPeers
  BY Zenon, <1>9, StartupSound DEF ConnectPeers
<1>10. CASE StartSync
  BY Zenon, <1>10, ExitSound, StartupSound DEF StartSync, Step
<1>11. CASE StartAgent
  BY Zenon, <1>11, ExitSound, StartupSound DEF StartAgent, Step
<1>12. CASE Bind
  <2>1. CASE Exit("bindFailed")
    BY Zenon, <1>12, <2>1, ExitSound DEF Bind
  <2>2. CASE ~Exit("bindFailed")
    <3>1. /\ phase = "bind" /\ phase' = "serve" /\ mode' \in {"tcp", "unix"}
          /\ server' = IF mode' = "tcp" THEN "serving" ELSE "none"
          /\ UNCHANGED <<made, bridge, up, failed, code, rpcs, cut>>
      BY Zenon, <1>12, <2>2 DEF Bind
    <3>2. up /\ mode = "none" /\ code = "none" /\ ~cut
      BY Zenon, <3>1 DEF ProcInv, Phases, Accounted
    <3>3. PhaseTyped' /\ Phases'
      BY Zenon, <3>1, <3>2 DEF ProcInv, PhaseTyped, Phases, Serving
    <3>4. Untouched' /\ Accounted'
      BY Zenon, <3>1, <3>2 DEF ProcInv, Untouched, Accounted
    <3>. QED  BY Zenon, <3>3, <3>4 DEF ProcInv
  <2>. QED  BY Zenon, <2>1, <2>2
<1>. QED
  BY Zenon, <1>1, <1>2, <1>3, <1>4, <1>5, <1>6, <1>7, <1>8, <1>9, <1>10, <1>11, <1>12 DEF Startup

LEMMA ServingSound ==
  ProcInv /\ (SignalArrives \/ RpcStarts \/ AcceptUnix \/ Rearm \/ RpcEnds \/ ServerEnds) => ProcInv'
<1>. SUFFICES ASSUME ProcInv, SignalArrives \/ RpcStarts \/ AcceptUnix \/ Rearm \/ RpcEnds \/ ServerEnds
              PROVE  ProcInv'
  BY Zenon
<1>. USE DEF ProcInv, PhaseTyped, Phases, Untouched, Accounted, Serving, Started, Early
<1>1. CASE SignalArrives
  BY ZenonT(60), <1>1 DEF SignalArrives, Running
<1>2. CASE RpcStarts
  BY SMTT(60), <1>2 DEF RpcStarts
<1>3. CASE AcceptUnix
  BY <1>3 DEF AcceptUnix
<1>4. CASE Rearm
  BY ZenonT(60), <1>4 DEF Rearm
<1>5. CASE RpcEnds
  BY <1>5 DEF RpcEnds
<1>6. CASE ServerEnds
  BY ZenonT(60), <1>6 DEF ServerEnds
<1>. QED  BY Zenon, <1>1, <1>2, <1>3, <1>4, <1>5, <1>6

LEMMA ShutdownSound == ProcInv /\ Stopping => ProcInv'
<1>. SUFFICES ASSUME ProcInv, Stopping PROVE ProcInv'
  BY Zenon
<1>. USE DEF ProcInv, PhaseTyped, Phases, Untouched, Accounted, Serving, Started, Early
<1>1. CASE StopServing
  BY Zenon, <1>1 DEF StopServing
<1>2. CASE ShutdownBridge
  BY ZenonT(60), <1>2 DEF ShutdownBridge, outside
<1>3. CASE StopConnections
  BY SMTT(60), <1>3 DEF StopConnections
<1>4. CASE StopServer
  BY <1>4 DEF StopServer
<1>5. CASE ShutdownNode
  BY Zenon, <1>5 DEF ShutdownNode, outside
<1>6. CASE Finish
  BY Zenon, <1>6 DEF Finish, Exit, Report
<1>. QED  BY Zenon, <1>1, <1>2, <1>3, <1>4, <1>5, <1>6 DEF Stopping

LEMMA SoundAlways == ProcessSpec => []ProcInv
<1>1. ProcInv /\ [ProcessNext]_processVars => ProcInv'
  <2>1. ASSUME ProcInv, UNCHANGED processVars PROVE ProcInv'
    BY ZenonT(60), <2>1 DEF processVars, outside, ProcInv, PhaseTyped, Phases, Untouched, Accounted
  <2>. QED  BY Zenon, <2>1, StepsSound, ServingSound, ShutdownSound DEF ProcessNext
<1>. QED  BY <1>1, InitSound, PTL DEF ProcessSpec

(***************************************************************************)
(* A configuration that main refuses leaves nothing behind.                *)
(***************************************************************************)
THEOREM AlwaysRejectsEarly == ProcessSpec => []RejectsEarly
<1>1. ProcInv => RejectsEarly
  BY Zenon DEF ProcInv, Untouched, RejectsEarly
<1>. QED  BY <1>1, SoundAlways, PTL

(***************************************************************************)
(* The bridge goes down before the node, and no RPC is left on a node that *)
(* is down unless the exit reports it (main, the stages of the shutdown).  *)
(***************************************************************************)
THEOREM NodeGoesLast == ProcessSpec => []NodeLast
<1>1. ProcInv => NodeLast
  BY SMTT(60) DEF ProcInv, PhaseTyped, Phases, Accounted, NodeLast, Serving, Started, Early
<1>. QED  BY <1>1, SoundAlways, PTL

(***************************************************************************)
(* A clean exit means that no stage failed and, over TCP, no RPC was cut.  *)
(***************************************************************************)
THEOREM CleanIsAlwaysClean == ProcessSpec => []CleanIsClean
<1>1. ProcInv => CleanIsClean
  BY Zenon DEF ProcInv, PhaseTyped, Phases, Accounted, CleanIsClean
<1>. QED  BY <1>1, SoundAlways, PTL

\* The part of ProcessTyped that is not about what was created.
Flags ==
  /\ mode \in {"none", "tcp", "unix"} /\ peers \in 0..MaxPeers
  /\ bridge \in {"off", "wanted", "running", "closed"} /\ up \in BOOLEAN
  /\ rpcs \in 0..MaxRpcs /\ server \in {"none", "serving", "draining", "drained", "error", "aborted"}
  /\ listening \in BOOLEAN /\ noticed \in BOOLEAN /\ sigs \in 0..MaxSignals
  /\ failed \subseteq {"serve", "bridge", "node"} /\ cut \in BOOLEAN

\* What has been created, phase by phase: what needs the node only after it.
Things == {"dataDir", "inbox", "node", "outbox", "sync", "agent"}
Late == Started \cup Serving \cup {"report"}
Made ==
  /\ made \subseteq Things
  /\ made \cap {"outbox", "sync", "agent"} # {} => "node" \in made
  /\ phase \in Early => made \cap {"outbox", "sync", "agent"} = {}
  /\ phase \in Late => "node" \in made

LEMMA PhasesApart ==
  /\ "exited" \notin Early \cup Late /\ \A p \in Early : p \notin Late
BY Zenon DEF Early, Late, Started, Serving

LEMMA MadeStays ==
  ASSUME Made, made' = made, \/ phase' = phase \/ phase' = "exited"
                             \/ phase \in Late /\ phase' \in Late
                             \/ phase \in Early /\ phase' \in Early
  PROVE  Made'
BY Zenon, PhasesApart DEF Made

LEMMA MadeGrows ==
  ASSUME Made, NEW what \in SUBSET Things, made' = made \cup what,
         \/ phase \in Late /\ phase' \in Late
         \/ phase \in Early /\ phase' \in Early /\ what \cap {"outbox", "sync", "agent"} = {}
  PROVE  Made'
<1>1. CASE phase \in Late /\ phase' \in Late
  BY Zenon, <1>1, PhasesApart DEF Made
<1>2. CASE phase \in Early /\ phase' \in Early /\ what \cap {"outbox", "sync", "agent"} = {}
  <2>1. made' \cap {"outbox", "sync", "agent"} = {}
    BY Zenon, <1>2 DEF Made
  <2>. QED  BY Zenon, <1>2, <2>1, PhasesApart DEF Made
<1>. QED  BY Zenon, <1>1, <1>2

LEMMA ExitTyped ==
  ASSUME Flags, Made, NEW c, Exit(c) PROVE Flags' /\ Made'
<1>1. 0 \in 0..MaxRpcs
  BY ProcessBounds
<1>2. Flags'
  BY Zenon, <1>1 DEF Exit, Flags
<1>3. Made'
  BY Zenon, MadeStays DEF Exit
<1>. QED  BY Zenon, <1>2, <1>3

LEMMA StepTyped ==
  ASSUME Flags, Made, NEW now, NEW then, NEW what \in SUBSET Things, NEW why,
         Step(now, then, what, why),
         \/ now \in Late /\ then \in Late
         \/ now \in Early /\ then \in Early /\ what \cap {"outbox", "sync", "agent"} = {}
  PROVE  Flags' /\ Made'
<1>1. CASE Exit(why)
  BY Zenon, <1>1, ExitTyped
<1>2. CASE /\ phase' = then /\ made' = made \cup what
           /\ UNCHANGED <<mode, peers, bridge, up, failed, code, outside>>
  <2>1. Flags'
    BY ZenonT(40), <1>2 DEF Flags, outside
  <2>2. Made'
    BY Zenon, <1>2, MadeGrows DEF Step
  <2>. QED  BY Zenon, <2>1, <2>2
<1>. QED  BY Zenon, <1>1, <1>2 DEF Step

LEMMA StartupTyped == Flags /\ Made /\ Startup => Flags' /\ Made'
<1>. SUFFICES ASSUME Flags, Made, Startup PROVE Flags' /\ Made'
  BY Zenon
<1>0. /\ Early = {"parse", "bridgeConfig", "dataDir", "identity", "attachments", "node"}
      /\ \A p \in {"bridge", "outbox", "peers", "sync", "agent", "bind", "serve"} : p \in Late
      /\ {} \in SUBSET Things /\ {"dataDir"} \in SUBSET Things /\ {"inbox"} \in SUBSET Things
      /\ {"sync"} \in SUBSET Things /\ {"agent"} \in SUBSET Things
      /\ {"node"} \in SUBSET Things /\ {"outbox"} \in SUBSET Things
      /\ \A x \in {{}, {"dataDir"}, {"inbox"}} : x \cap {"outbox", "sync", "agent"} = {}
  BY Zenon DEF Early, Late, Started, Serving, Things
<1>1. CASE Parse
  <2>1. CASE Step("parse", "bridgeConfig", {}, "usage")
    BY Zenon, <1>0, <2>1, StepTyped
  <2>. QED  BY Zenon, <1>1, <2>1, ExitTyped DEF Parse
<1>2. CASE BridgeConfig
  <2>1. CASE Exit("badBridge")
    BY Zenon, <2>1, ExitTyped
  <2>2. CASE ~Exit("badBridge")
    <3>1. /\ phase = "bridgeConfig" /\ phase' = "dataDir" /\ bridge' \in {"off", "wanted"}
          /\ UNCHANGED <<made, mode, peers, up, failed, code, outside>>
      BY Zenon, <1>2, <2>2 DEF BridgeConfig
    <3>2. Flags'
      BY ZenonT(60), <3>1 DEF Flags, outside
    <3>. QED  BY Zenon, <1>0, <3>1, <3>2, MadeStays
  <2>. QED  BY Zenon, <2>1, <2>2
<1>3. CASE DataDir
  BY Zenon, <1>0, <1>3, StepTyped DEF DataDir
<1>4. CASE Identity
  BY Zenon, <1>0, <1>4, StepTyped DEF Identity
<1>5. CASE Attachments
  <2>1. PICK x \in {{}, {"inbox"}} : Step("attachments", "node", x, "badAttachments")
    BY Zenon, <1>5 DEF Attachments
  <2>. QED  BY Zenon, <1>0, <2>1, StepTyped
<1>6. CASE NewNode
  <2>1. CASE Exit("nodeFailed")
    BY Zenon, <2>1, ExitTyped
  <2>2. CASE ~Exit("nodeFailed")
    <3>1. /\ phase' = "bridge" /\ up' = TRUE /\ made' = made \cup {"node"}
          /\ UNCHANGED <<mode, peers, bridge, failed, code, outside>>
      BY Zenon, <1>6, <2>2 DEF NewNode
    <3>2. Flags'
      BY Zenon, <3>1 DEF Flags, outside
    <3>3. Made'
      BY Zenon, <1>0, <3>1, PhasesApart DEF Made
    <3>. QED  BY Zenon, <3>2, <3>3
  <2>. QED  BY Zenon, <2>1, <2>2
<1>7. CASE StartBridge
  <2>1. CASE Exit("bridgeFailed")
    BY Zenon, <2>1, ExitTyped
  <2>2. CASE ~Exit("bridgeFailed")
    <3>1. /\ phase = "bridge" /\ phase' = "outbox" /\ bridge' \in {"running", "off"}
          /\ UNCHANGED <<made, mode, peers, up, failed, code, outside>>
      BY Zenon, <1>7, <2>2 DEF StartBridge
    <3>2. Flags'
      BY Zenon, <3>1 DEF Flags, outside
    <3>. QED  BY Zenon, <1>0, <3>1, <3>2, MadeStays
  <2>. QED  BY Zenon, <2>1, <2>2
<1>8. CASE Outbox
  <2>1. PICK w \in {{}, {"outbox"}} : made' = made \cup w
    BY Zenon, <1>8 DEF Outbox
  <2>2. /\ peers' \in 0..MaxPeers /\ phase = "outbox" /\ phase' = "peers"
        /\ UNCHANGED <<mode, bridge, up, failed, code, outside>>
    BY Zenon, <1>8 DEF Outbox
  <2>3. Flags'
    BY ZenonT(40), <2>2 DEF Flags, outside
  <2>. QED  BY ZenonT(40), <1>0, <2>1, <2>2, <2>3, MadeGrows
<1>9. CASE ConnectPeers
  <2>1. peers' \in 0..MaxPeers
    BY <1>9, ProcessBounds DEF ConnectPeers, Flags
  <2>2. /\ phase = "peers" /\ phase' \in {"peers", "sync"}
        /\ UNCHANGED <<made, mode, bridge, up, failed, code, outside>>
    BY Zenon, <1>9 DEF ConnectPeers
  <2>3. Flags'
    BY ZenonT(40), <2>1, <2>2 DEF Flags, outside
  <2>. QED  BY ZenonT(40), <1>0, <2>2, <2>3, MadeStays
<1>10. CASE StartSync
  <2>1. PICK x \in {{}, {"sync"}} :
          Step("sync", "agent", x, IF x = {} THEN "none" ELSE "syncFailed")
    BY Zenon, <1>10 DEF StartSync
  <2>. QED  BY Zenon, <1>0, <2>1, StepTyped
<1>11. CASE StartAgent
  <2>1. PICK x \in {{}, {"agent"}} : Step("agent", "bind", x, "none")
    BY Zenon, <1>11 DEF StartAgent
  <2>. QED  BY Zenon, <1>0, <2>1, StepTyped
<1>12. CASE Bind
  <2>1. CASE Exit("bindFailed")
    BY Zenon, <2>1, ExitTyped
  <2>2. CASE ~Exit("bindFailed")
    <3>1. /\ phase = "bind" /\ phase' = "serve" /\ mode' \in {"tcp", "unix"} /\ listening' = TRUE
          /\ server' \in {"serving", "none"}
          /\ UNCHANGED <<made, peers, bridge, up, failed, code, rpcs, noticed, sigs, cut>>
      BY Zenon, <1>12, <2>2 DEF Bind
    <3>2. Flags'
      BY Zenon, <3>1 DEF Flags
    <3>. QED  BY Zenon, <1>0, <3>1, <3>2, MadeStays
  <2>. QED  BY Zenon, <2>1, <2>2
<1>. QED
  BY Zenon, <1>1, <1>2, <1>3, <1>4, <1>5, <1>6, <1>7, <1>8, <1>9, <1>10, <1>11, <1>12
     DEF Startup

LEMMA ProcessStaysTyped == Flags /\ Made /\ [ProcessNext]_processVars => Flags' /\ Made'
<1>. SUFFICES ASSUME Flags, Made, [ProcessNext]_processVars PROVE Flags' /\ Made'
  BY Zenon
<1>0. /\ \A r \in 0..MaxRpcs : r < MaxRpcs => r + 1 \in 0..MaxRpcs
      /\ \A r \in 0..MaxRpcs : r > 0 => r - 1 \in 0..MaxRpcs
      /\ \A r \in 0..MaxSignals : r < MaxSignals => r + 1 \in 0..MaxSignals
      /\ 0 \in 0..MaxRpcs
  BY ProcessBounds
<1>1. ASSUME \/ SignalArrives \/ RpcStarts \/ AcceptUnix \/ Rearm \/ RpcEnds \/ ServerEnds
             \/ StopServing \/ ShutdownBridge \/ StopConnections \/ StopServer \/ ShutdownNode
             \/ UNCHANGED processVars
      PROVE  Made'
  <2>1. \/ phase' = phase \/ phase' = "exited"
        \/ /\ phase \in {"serve", "accepted", "stopBridge", "stopServer", "stopNode"}
           /\ phase' \in {"serve", "accepted", "stopBridge", "stopServer", "stopNode", "report"}
    BY Zenon, <1>1 DEF SignalArrives, RpcStarts, AcceptUnix, Rearm, RpcEnds, ServerEnds, StopServing,
       ShutdownBridge, StopConnections, StopServer, ShutdownNode, processVars
  <2>2. made' = made
    BY Zenon, <1>1 DEF SignalArrives, RpcStarts, AcceptUnix, Rearm, RpcEnds, ServerEnds, StopServing,
       ShutdownBridge, StopConnections, StopServer, ShutdownNode, processVars
  <2>3. \A p \in {"serve", "accepted", "stopBridge", "stopServer", "stopNode", "report"} : p \in Late
    BY Zenon DEF Late, Serving
  <2>. QED  BY Zenon, <2>1, <2>2, <2>3, MadeStays
<1>2. CASE SignalArrives
  BY ZenonT(40), <1>0, <1>1, <1>2 DEF SignalArrives, Flags
<1>3. CASE RpcStarts
  BY Zenon, <1>0, <1>1, <1>3 DEF RpcStarts, Flags
<1>4. CASE RpcEnds
  BY ZenonT(40), <1>0, <1>1, <1>4 DEF RpcEnds, Flags
<1>5. CASE AcceptUnix
  BY Zenon, <1>0, <1>1, <1>5 DEF AcceptUnix, Flags
<1>6. CASE Rearm
  BY ZenonT(60), <1>1, <1>6 DEF Rearm, Flags
<1>7. CASE ServerEnds
  BY ZenonT(60), <1>1, <1>7 DEF ServerEnds, Flags
<1>8. CASE StopServing
  BY Zenon, <1>1, <1>8 DEF StopServing, Flags
<1>9. CASE ShutdownBridge
  BY ZenonT(40), <1>1, <1>9 DEF ShutdownBridge, Flags, outside
<1>10. CASE StopConnections
  BY Zenon, <1>0, <1>1, <1>10 DEF StopConnections, Flags
<1>11. CASE StopServer
  BY Zenon, <1>0, <1>1, <1>11 DEF StopServer, Flags
<1>12. CASE ShutdownNode
  BY ZenonT(40), <1>1, <1>12 DEF ShutdownNode, Flags, outside
<1>13. CASE Finish
  BY Zenon, <1>13, ExitTyped DEF Finish
<1>14. CASE Startup
  BY Zenon, <1>14, StartupTyped
<1>15. CASE UNCHANGED processVars
  BY ZenonT(40), <1>1, <1>15 DEF processVars, outside, Flags
<1>. QED
  BY ZenonT(40), <1>2, <1>3, <1>4, <1>5, <1>6, <1>7, <1>8, <1>9, <1>10, <1>11, <1>12, <1>13, <1>14,
     <1>15 DEF ProcessNext, Stopping

(***************************************************************************)
(* A refused configuration leaves nothing behind, the node goes down last  *)
(* and a clean exit is clean, in every state of a well-typed process       *)
(* (main.rs, main).                                                        *)
(***************************************************************************)
THEOREM ProcessAlwaysSound == ProcessSpec => []ProcessIsSound
<1>1. ProcessInit => Flags /\ Made
  <2>. SUFFICES ASSUME ProcessInit PROVE Flags /\ Made
    BY Zenon
  <2>1. 0 \in 0..MaxRpcs /\ 0 \in 0..MaxPeers /\ 0 \in 0..MaxSignals
    BY ProcessBounds
  <2>2. Flags
    BY Zenon, <2>1 DEF ProcessInit, Flags
  <2>3. phase \in Early
    BY Zenon DEF ProcessInit, Early
  <2>. QED  BY Zenon, <2>2, <2>3, PhasesApart DEF ProcessInit, Made
<1>2. Flags /\ Made => ProcessTyped
  BY Zenon DEF Flags, Made, Things, ProcessTyped
<1>3. ProcessSpec => []ProcessTyped
  BY <1>1, <1>2, ProcessStaysTyped, PTL DEF ProcessSpec
<1>. QED
  BY <1>3, AlwaysRejectsEarly, NodeGoesLast, CleanIsAlwaysClean, PTL DEF ProcessIsSound

-----------------------------------------------------------------------------
(***************************************************************************)
(* Supervisor.  ReadyIsCurrent is not inductive: a Connected event must    *)
(* never find the subjects established.  It does not because the client's  *)
(* events alternate, the ones still queued included (Alternating), as long *)
(* as the queue has room for each of them.  That the round trip was        *)
(* answered on the present connection follows by counting the connections  *)
(* the callback has heard of and those it has yet to hear of (Counts).     *)
(***************************************************************************)
\* No event of the client is lost.
QueueHasRoom == Len(events) < EventCap

RoundTrips == [st : {"none", "flying", "ok", "failed"}, conn : Nat, inval : Nat,
               gen : Nat, on : Nat]

\* Types, without the bounds.
Typed ==
  /\ net \in BOOLEAN /\ conn \in Nat /\ events \in Seq(Events)
  /\ life \in Snapshots /\ heard \in Snapshots
  /\ rdy \in [accepting : BOOLEAN, connected : BOOLEAN, established : BOOLEAN]
  /\ loop \in {"select", "connected", "rebuild", "stopped"}
  /\ gen \in Nat /\ nextGen \in Nat \ {0}
  /\ barrier \in RoundTrips /\ confirmed \in RoundTrips

\* Only the current generation has readers, and one that is rebuilt is gone.
Generations == /\ serving \subseteq {gen} \ {0}
               /\ loop = "rebuild" => gen = 0

GInv == gen \in Nat /\ nextGen \in Nat \ {0} /\ Generations

-----------------------------------------------------------------------------
LEMMA NextGenerations == GInv /\ [SupervisorNext]_supervisorVars => GInv'
<1>. SUFFICES ASSUME GInv, [SupervisorNext]_supervisorVars PROVE GInv'
  BY Zenon
<1>. USE DEF GInv, Generations
<1>1. CASE Connect \/ Disconnect \/ ClientError \/ Delivered \/ BeginShutdown
  BY Zenon, <1>1 DEF Connect, Disconnect, ClientError, Delivered, BeginShutdown, readers
<1>2. CASE BarrierAnswered \/ BarrierTimesOut \/ LifecycleChanged \/ BarrierDone
  BY Zenon, <1>2 DEF BarrierAnswered, BarrierTimesOut, LifecycleChanged, BarrierDone, readers
<1>3. ASSUME NEW g \in serving, GenerationEnds(g) PROVE GInv'
  BY Zenon, <1>3 DEF GenerationEnds
<1>4. ASSUME NEW g \in ended, SendSignal(g) PROVE GInv'
  BY Zenon, <1>4 DEF SendSignal
<1>0. ASSUME Build, gen = 0, loop' = "select" PROVE GInv'
  <2>1. serving = {}
    BY Zenon, <1>0
  <2>2. CASE gen' = nextGen /\ serving' = serving \cup {nextGen}
    BY <1>0, <2>1, <2>2 DEF Build
  <2>3. CASE gen' = 0 /\ serving' = serving
    BY <1>0, <2>1, <2>3 DEF Build
  <2>. QED  BY Zenon, <1>0, <2>2, <2>3 DEF Build
<1>5. CASE Connected
  <2>1. CASE gen = 0
    BY Zenon, <1>0, <1>5, <2>1 DEF Connected
  <2>2. CASE gen # 0
    BY Zenon, <1>5, <2>2 DEF Connected
  <2>. QED  BY Zenon, <2>1, <2>2
<1>6. CASE Signal
  BY <1>6 DEF Signal
<1>7. CASE Rebuild
  BY Zenon, <1>0, <1>7 DEF Rebuild
<1>8. CASE Shutdown
  BY Zenon, <1>8 DEF Shutdown
<1>9. CASE UNCHANGED supervisorVars
  BY Zenon, <1>9 DEF supervisorVars, readers
<1>. QED
  BY Zenon, <1>1, <1>2, <1>3, <1>4, <1>5, <1>6, <1>7, <1>8, <1>9 DEF SupervisorNext, SupervisorStep

(***************************************************************************)
(* Never two generations of subscriptions at a time (run_client_supervisor)*)
(***************************************************************************)
THEOREM NeverTwoGenerations == SupervisorSpec => []OneGeneration
<1>1. SupervisorInit => GInv
  BY DEF SupervisorInit, GInv, Generations
<1>2. GInv => OneGeneration
  <2>. SUFFICES ASSUME GInv PROVE Cardinality(serving) <= 1
    BY Zenon DEF OneGeneration
  <2>1. IsFiniteSet({gen}) /\ Cardinality({gen}) = 1
    BY Zenon, FS_Singleton
  <2>2. serving \in SUBSET {gen}
    BY Zenon DEF GInv, Generations
  <2>. QED  BY Zenon, <2>1, <2>2, FS_Subset
<1>. QED  BY <1>1, <1>2, NextGenerations, PTL DEF SupervisorSpec

-----------------------------------------------------------------------------
LEMMA BarrierTypes ==
  /\ NoBarrier \in RoundTrips
  /\ \A l \in Snapshots, g \in Nat : StartBarrier(l, g) \in RoundTrips
BY Zenon DEF NoBarrier, RoundTrips, StartBarrier, Snapshots

\* What an event makes of the lifecycle snapshot, field by field.
LEMMA LifeFields ==
  ASSUME Typed
  PROVE
    /\ LifeAfter("Connected") =
            [seq |-> life.seq + 1, conn |-> life.conn + 1, inval |-> life.inval,
             connected |-> TRUE, connSeq |-> life.seq + 1, invalSeq |-> life.invalSeq]
    /\ LifeAfter("Disconnected") =
            [seq |-> life.seq + 1, conn |-> life.conn, inval |-> life.inval + 1,
             connected |-> FALSE, connSeq |-> life.connSeq, invalSeq |-> life.seq + 1]
    /\ LifeAfter("Error") =
            [seq |-> life.seq + 1, conn |-> life.conn, inval |-> life.inval + 1,
             connected |-> life.connected, connSeq |-> life.connSeq, invalSeq |-> life.seq + 1]
<1>1. LifeAfter("Connected") =
            [seq |-> life.seq + 1, conn |-> life.conn + 1, inval |-> life.inval,
             connected |-> TRUE, connSeq |-> life.seq + 1, invalSeq |-> life.invalSeq]
  BY Zenon DEF Typed, LifeAfter, Snapshots
<1>2. LifeAfter("Disconnected") =
            [seq |-> life.seq + 1, conn |-> life.conn, inval |-> life.inval + 1,
             connected |-> FALSE, connSeq |-> life.connSeq, invalSeq |-> life.seq + 1]
  BY Zenon DEF Typed, LifeAfter, Snapshots
<1>3. LifeAfter("Error") =
            [seq |-> life.seq + 1, conn |-> life.conn, inval |-> life.inval + 1,
             connected |-> life.connected, connSeq |-> life.connSeq, invalSeq |-> life.seq + 1]
  BY Zenon DEF Typed, LifeAfter, Snapshots
<1>. QED  BY Zenon, <1>1, <1>2, <1>3

LEMMA EventTypes ==
  ASSUME Typed, NEW e \in Events
  PROVE  /\ Append(events, e) \in Seq(Events)
         /\ LifeAfter(e) \in Snapshots
         /\ ReadinessAfter(e) \in
              [accepting : BOOLEAN, connected : BOOLEAN, established : BOOLEAN]
<1>1. Append(events, e) \in Seq(Events)
  BY Zenon, AppendProperties DEF Typed
<1>2. LifeAfter(e) \in Snapshots
  <2>1. /\ life.seq \in Nat /\ life.conn \in Nat /\ life.inval \in Nat
        /\ life.connected \in BOOLEAN /\ life.connSeq \in Nat /\ life.invalSeq \in Nat
    BY Zenon DEF Typed, Snapshots
  <2>5. \A s, c, i, cs, is \in Nat, b \in BOOLEAN :
          [seq |-> s, conn |-> c, inval |-> i, connected |-> b, connSeq |-> cs,
           invalSeq |-> is] \in Snapshots
    BY Zenon DEF Snapshots
  <2>6. life.seq + 1 \in Nat /\ life.conn + 1 \in Nat /\ life.inval + 1 \in Nat
    BY <2>1
  <2>2. LifeAfter("Connected") \in Snapshots
    <3>1. TRUE \in BOOLEAN /\ FALSE \in BOOLEAN
      BY Zenon
    <3>2. [seq |-> life.seq + 1, conn |-> life.conn + 1, inval |-> life.inval,
             connected |-> TRUE, connSeq |-> life.seq + 1, invalSeq |-> life.invalSeq] \in Snapshots
      BY Zenon, <2>1, <2>5, <2>6, <3>1
    <3>. QED  BY Zenon, <3>2, LifeFields
  <2>3. LifeAfter("Disconnected") \in Snapshots
    <3>1. TRUE \in BOOLEAN /\ FALSE \in BOOLEAN
      BY Zenon
    <3>2. [seq |-> life.seq + 1, conn |-> life.conn, inval |-> life.inval + 1,
             connected |-> FALSE, connSeq |-> life.connSeq, invalSeq |-> life.seq + 1] \in Snapshots
      BY Zenon, <2>1, <2>5, <2>6, <3>1
    <3>. QED  BY Zenon, <3>2, LifeFields
  <2>4. LifeAfter("Error") \in Snapshots
    BY <2>1, LifeFields DEF Snapshots
  <2>. QED  BY Zenon, <2>2, <2>3, <2>4 DEF Events
<1>3. ReadinessAfter(e) \in
        [accepting : BOOLEAN, connected : BOOLEAN, established : BOOLEAN]
  BY Zenon DEF Typed, ReadinessAfter, Events
<1>. QED  BY Zenon, <1>1, <1>2, <1>3

LEMMA NextTyped == Typed /\ [SupervisorNext]_supervisorVars => Typed'
<1>. SUFFICES ASSUME Typed, [SupervisorNext]_supervisorVars PROVE Typed'
  BY Zenon
<1>1. CASE Connect \/ Disconnect \/ ClientError
  <2>1. events' \in Seq(Events)
    BY Zenon, <1>1, EventTypes DEF Connect, Disconnect, ClientError, Post, Events, Typed
  <2>2. net' \in BOOLEAN /\ conn' \in Nat
    <3>1. CASE Connect
      BY <3>1 DEF Typed, Connect
    <3>2. CASE Disconnect
      BY Zenon, <3>2 DEF Typed, Disconnect
    <3>3. CASE ClientError
      BY Zenon, <3>3 DEF Typed, ClientError
    <3>. QED  BY Zenon, <1>1, <3>1, <3>2, <3>3
  <2>3. UNCHANGED <<life, heard, rdy, loop, gen, nextGen, barrier, confirmed>>
    BY Zenon, <1>1 DEF Connect, Disconnect, ClientError, watch
  <2>. QED  BY Zenon, <2>1, <2>2, <2>3 DEF Typed
<1>2. CASE BarrierAnswered \/ BarrierTimesOut
  BY ZenonT(60), <1>2 DEF Typed, BarrierAnswered, BarrierTimesOut, client, watch, RoundTrips
<1>3. CASE Delivered
  <2>1. Head(events) \in Events /\ Tail(events) \in Seq(Events)
    BY Zenon, <1>3, HeadTailProperties DEF Typed, Delivered
  <2>2. /\ LifeAfter(Head(events)) \in Snapshots
        /\ ReadinessAfter(Head(events)) \in
             [accepting : BOOLEAN, connected : BOOLEAN, established : BOOLEAN]
    BY Zenon, <2>1, EventTypes
  <2>. QED  BY Zenon, <1>3, <2>1, <2>2 DEF Typed, Delivered
<1>4. ASSUME NEW g \in serving, GenerationEnds(g) PROVE Typed'
  BY Zenon, <1>4 DEF Typed, GenerationEnds, client, watch
<1>5. ASSUME NEW g \in ended, SendSignal(g) PROVE Typed'
  BY Zenon, <1>5 DEF Typed, SendSignal, client, watch
<1>6. CASE LifecycleChanged
  BY Zenon, <1>6, BarrierTypes DEF Typed, LifecycleChanged, client
<1>7. CASE Connected
  <2>1. gen' \in Nat /\ nextGen' \in Nat \ {0}
    BY <1>7 DEF Typed, Connected, Build
  <2>2. barrier' \in RoundTrips
    BY Zenon, <1>7, <2>1, BarrierTypes DEF Typed, Connected, MaybeStartBarrier
  <2>. QED  BY Zenon, <1>7, <2>1, <2>2 DEF Typed, Connected, client, watch
<1>8. CASE Signal
  <2>1. /\ rdy' \in [accepting : BOOLEAN, connected : BOOLEAN, established : BOOLEAN]
        /\ loop' \in {"select", "connected", "rebuild", "stopped"}
    BY Zenon, <1>8 DEF Typed, Signal
  <2>2. barrier' \in RoundTrips /\ gen' \in Nat
    BY <1>8, BarrierTypes DEF Typed, Signal
  <2>. QED  BY Zenon, <1>8, <2>1, <2>2 DEF Typed, Signal, client, watch
<1>9. CASE Rebuild
  <2>1. gen' \in Nat /\ nextGen' \in Nat \ {0}
    BY <1>9 DEF Typed, Rebuild, Build
  <2>2. barrier' \in RoundTrips
    BY Zenon, <1>9, <2>1, BarrierTypes DEF Typed, Rebuild, MaybeStartBarrier
  <2>. QED  BY Zenon, <1>9, <2>1, <2>2 DEF Typed, Rebuild, client, watch
<1>10. CASE BarrierDone
  BY Zenon, <1>10, BarrierTypes DEF Typed, BarrierDone, client, watch
<1>11. CASE BeginShutdown \/ Shutdown
  <2>1. CASE BeginShutdown
    BY Zenon, <2>1 DEF Typed, BeginShutdown, client, watch
  <2>2. CASE Shutdown
    BY Zenon, <2>2, BarrierTypes DEF Typed, Shutdown, client, watch
  <2>. QED  BY Zenon, <1>11, <2>1, <2>2
<1>12. CASE UNCHANGED supervisorVars
  BY Zenon, <1>12 DEF Typed, supervisorVars, client, watch
<1>. QED
  BY ZenonT(60), <1>1, <1>2, <1>3, <1>4, <1>5, <1>6, <1>7, <1>8, <1>9, <1>10, <1>11, <1>12
     DEF SupervisorNext, SupervisorStep

-----------------------------------------------------------------------------
(***************************************************************************)
(* The client's events, as the callback has heard them (was: the last one  *)
(* it heard was Connected) and as they are queued (s).                     *)
(***************************************************************************)
\* Before event i the connection is down.
Down(s, was, i) ==
  \/ \E j \in 1..(i - 1) : /\ s[j] = "Disconnected"
                           /\ \A k \in (j + 1)..(i - 1) : s[k] = "Error"
  \/ ~was /\ \A k \in 1..(i - 1) : s[k] = "Error"

\* A connection is made only after the last one was lost, and n tells whether there is
\* one after all of s.
Alternating(s, was, n) ==
  /\ \A i \in 1..Len(s) : s[i] = "Connected" => Down(s, was, i)
  /\ ~n => Down(s, was, Len(s) + 1)

LEMMA AppendAlternates ==
  ASSUME NEW s \in Seq(Events), NEW was \in BOOLEAN, NEW n \in BOOLEAN, NEW m \in BOOLEAN,
         NEW e \in Events, Alternating(s, was, n),
         e = "Connected" => ~n, e = "Connected" => m, e = "Error" => m = n
  PROVE  Alternating(Append(s, e), was, m)
<1>. DEFINE t == Append(s, e)
<1>1. Len(s) \in Nat
  BY Zenon, LenProperties
<1>2. /\ Len(t) = Len(s) + 1 /\ t[Len(s) + 1] = e
      /\ \A i \in 1..Len(s) : t[i] = s[i]
  BY AppendProperties
<1>. HIDE DEF t
<1>3. ASSUME NEW i \in 1..(Len(s) + 1), Down(s, was, i) PROVE Down(t, was, i)
  <2>1. i - 1 <= Len(s) /\ i \in Nat
    BY <1>1
  <2>2. CASE \E j \in 1..(i - 1) : /\ s[j] = "Disconnected"
                                   /\ \A k \in (j + 1)..(i - 1) : s[k] = "Error"
    <3>1. PICK j \in 1..(i - 1) : /\ s[j] = "Disconnected"
                                  /\ \A k \in (j + 1)..(i - 1) : s[k] = "Error"
      BY Zenon, <2>2
    <3>2. t[j] = "Disconnected" /\ \A k \in (j + 1)..(i - 1) : t[k] = "Error"
      BY <1>1, <1>2, <2>1, <3>1
    <3>. QED  BY Zenon, <3>2 DEF Down
  <2>3. CASE ~was /\ \A k \in 1..(i - 1) : s[k] = "Error"
    <3>1. \A k \in 1..(i - 1) : t[k] = "Error"
      BY <1>1, <1>2, <2>1, <2>3
    <3>. QED  BY Zenon, <2>3, <3>1 DEF Down
  <2>. QED  BY Zenon, <1>3, <2>2, <2>3 DEF Down
<1>4. ASSUME NEW i \in 1..Len(t), t[i] = "Connected" PROVE Down(t, was, i)
  <2>1. CASE i \in 1..Len(s)
    <3>1. Down(s, was, i)
      BY Zenon, <1>2, <1>4, <2>1 DEF Alternating
    <3>. QED  BY <1>1, <1>3, <2>1, <3>1
  <2>2. CASE i = Len(s) + 1
    <3>1. Down(s, was, Len(s) + 1)
      BY Zenon, <1>2, <1>4, <2>2 DEF Alternating
    <3>. QED  BY <1>1, <1>3, <2>2, <3>1
  <2>. QED  BY <1>1, <1>2, <2>1, <2>2
<1>5. ASSUME ~m PROVE Down(t, was, Len(t) + 1)
  <2>1. Len(t) + 1 - 1 = Len(s) + 1 /\ Len(t) + 1 = Len(s) + 2
    BY <1>1, <1>2
  <2>2. CASE e = "Disconnected"
    <3>1. /\ t[Len(s) + 1] = "Disconnected"
          /\ \A k \in (Len(s) + 1 + 1)..(Len(s) + 1) : t[k] = "Error"
      BY <1>1, <1>2, <2>2
    <3>2. Len(s) + 1 \in 1..(Len(s) + 1)
      BY <1>1
    <3>. QED  BY <2>1, <3>1, <3>2 DEF Down
  <2>3. CASE e = "Error"
    <3>1. Down(s, was, Len(s) + 1)
      BY Zenon, <1>5, <2>3 DEF Alternating
    <3>2. Down(t, was, Len(s) + 1)
      BY <1>1, <1>3, <3>1
    <3>3. Len(s) + 1 - 1 = Len(s)
      BY <1>1
    <3>4. CASE \E j \in 1..Len(s) : /\ t[j] = "Disconnected"
                                    /\ \A k \in (j + 1)..Len(s) : t[k] = "Error"
      <4>1. PICK j \in 1..Len(s) : /\ t[j] = "Disconnected"
                                   /\ \A k \in (j + 1)..Len(s) : t[k] = "Error"
        BY Zenon, <3>4
      <4>2. j \in 1..(Len(s) + 1) /\ \A k \in (j + 1)..(Len(s) + 1) : t[k] = "Error"
        BY <1>1, <1>2, <2>3, <4>1
      <4>. QED  BY <2>1, <4>1, <4>2 DEF Down
    <3>5. CASE ~was /\ \A k \in 1..Len(s) : t[k] = "Error"
      <4>1. \A k \in 1..(Len(s) + 1) : t[k] = "Error"
        BY <1>1, <1>2, <2>3, <3>5
      <4>. QED  BY <2>1, <3>5, <4>1 DEF Down
    <3>. QED  BY <3>2, <3>3, <3>4, <3>5 DEF Down
  <2>. QED  BY Zenon, <1>5, <2>2, <2>3 DEF Events
<1>6. Alternating(t, was, m)
  BY Zenon, <1>4, <1>5 DEF Alternating
<1>. QED  BY Zenon, <1>6 DEF t

LEMMA TailAlternates ==
  ASSUME NEW s \in Seq(Events), s # <<>>, NEW was \in BOOLEAN, NEW n \in BOOLEAN,
         NEW now \in BOOLEAN, Alternating(s, was, n),
         Head(s) = "Disconnected" => ~now, Head(s) = "Error" => now = was
  PROVE  /\ Alternating(Tail(s), now, n)
         /\ Head(s) = "Connected" => ~was
<1>. DEFINE t == Tail(s)
<1>1. Len(s) \in Nat /\ Len(s) > 0 /\ Head(s) = s[1]
  BY LenProperties, EmptySeq, HeadTailProperties
<1>2. /\ Len(t) = Len(s) - 1 /\ Len(t) \in Nat
      /\ \A i \in 1..Len(t) : t[i] = s[i + 1]
  BY <1>1, HeadTailProperties
<1>. HIDE DEF t
<1>3. ASSUME NEW i \in 1..(Len(t) + 1), Down(s, was, i + 1) PROVE Down(t, now, i)
  <2>1. i \in Nat /\ i >= 1 /\ i + 1 - 1 = i /\ i - 1 <= Len(t)
    BY <1>2
  <2>2. CASE \E j \in 1..i : /\ s[j] = "Disconnected"
                             /\ \A k \in (j + 1)..i : s[k] = "Error"
    <3>1. PICK j \in 1..i : /\ s[j] = "Disconnected"
                            /\ \A k \in (j + 1)..i : s[k] = "Error"
      BY Zenon, <2>2
    <3>2. CASE j = 1
      <4>1. \A k \in 1..(i - 1) : t[k] = "Error"
        BY <1>2, <2>1, <3>1, <3>2
      <4>2. ~now
        BY Zenon, <1>1, <3>1, <3>2
      <4>. QED  BY Zenon, <4>1, <4>2 DEF Down
    <3>3. CASE j # 1
      <4>1. j - 1 \in 1..(i - 1)
        BY <2>1, <3>1, <3>3
      <4>2. t[j - 1] = "Disconnected" /\ \A k \in (j - 1 + 1)..(i - 1) : t[k] = "Error"
        BY SMTT(60), <1>2, <2>1, <3>1, <3>3
      <4>. QED  BY Zenon, <4>1, <4>2 DEF Down
    <3>. QED  BY Zenon, <3>2, <3>3
  <2>3. CASE ~was /\ \A k \in 1..i : s[k] = "Error"
    <3>1. \A k \in 1..(i - 1) : t[k] = "Error"
      BY <1>2, <2>1, <2>3
    <3>2. ~now
      <4>1. s[1] = "Error"
        BY <2>1, <2>3
      <4>. QED  BY Zenon, <1>1, <2>3, <4>1
    <3>. QED  BY Zenon, <3>1, <3>2 DEF Down
  <2>. QED  BY <1>3, <2>1, <2>2, <2>3 DEF Down
<1>4. ASSUME NEW i \in 1..Len(t), t[i] = "Connected" PROVE Down(t, now, i)
  <2>1. Down(s, was, i + 1)
    BY <1>1, <1>2, <1>4 DEF Alternating
  <2>. QED  BY <1>2, <1>3, <2>1
<1>5. ASSUME ~n PROVE Down(t, now, Len(t) + 1)
  <2>1. Down(s, was, Len(t) + 1 + 1)
    BY <1>1, <1>2, <1>5 DEF Alternating
  <2>. QED  BY <1>2, <1>3, <2>1
<1>6. Alternating(t, now, n)
  BY Zenon, <1>4, <1>5 DEF Alternating
<1>7. ASSUME s[1] = "Connected" PROVE ~was
  <2>1. Down(s, was, 1)
    BY <1>1, <1>7 DEF Alternating
  <2>. QED  BY <2>1 DEF Down
<1>. QED  BY Zenon, <1>1, <1>6, <1>7 DEF t

-----------------------------------------------------------------------------
\* The connections that are queued.
Ups(s) == {i \in 1..Len(s) : s[i] = "Connected"}

LEMMA UpsFinite ==
  ASSUME NEW s \in Seq(Events)
  PROVE  IsFiniteSet(Ups(s)) /\ Cardinality(Ups(s)) \in Nat
<1>1. Len(s) \in Nat
  BY Zenon, LenProperties
<1>2. IsFiniteSet(1..Len(s))
  BY <1>1, FS_Interval
<1>. QED  BY Zenon, <1>2, FS_Subset, FS_CardinalityType DEF Ups

LEMMA UpsAppend ==
  ASSUME NEW s \in Seq(Events), NEW e \in Events
  PROVE  Cardinality(Ups(Append(s, e))) =
           IF e = "Connected" THEN Cardinality(Ups(s)) + 1 ELSE Cardinality(Ups(s))
<1>. DEFINE t == Append(s, e)
<1>1. /\ Len(s) \in Nat /\ Len(t) = Len(s) + 1 /\ t[Len(s) + 1] = e
      /\ \A i \in 1..Len(s) : t[i] = s[i]
  BY LenProperties, AppendProperties
<1>. HIDE DEF t
<1>2. CASE e = "Connected"
  <2>1. Ups(t) = Ups(s) \cup {Len(s) + 1} /\ Len(s) + 1 \notin Ups(s)
    BY <1>1, <1>2 DEF Ups
  <2>. QED  BY Zenon, <1>2, <2>1, UpsFinite, FS_AddElement DEF t
<1>3. CASE e # "Connected"
  <2>1. Ups(t) = Ups(s)
    BY <1>1, <1>3 DEF Ups
  <2>. QED  BY Zenon, <1>3, <2>1 DEF t
<1>. QED  BY Zenon, <1>2, <1>3

LEMMA UpsTail ==
  ASSUME NEW s \in Seq(Events), s # <<>>
  PROVE  Cardinality(Ups(s)) =
           IF Head(s) = "Connected" THEN Cardinality(Ups(Tail(s))) + 1
                                    ELSE Cardinality(Ups(Tail(s)))
<1>. DEFINE t == Tail(s)
            rest == Ups(s) \ {1}
            f == [i \in Ups(t) |-> i + 1]
<1>1. /\ t \in Seq(Events) /\ Len(s) \in Nat /\ Len(s) > 0 /\ Head(s) = s[1]
      /\ Len(t) = Len(s) - 1 /\ \A i \in 1..Len(t) : t[i] = s[i + 1]
  BY LenProperties, EmptySeq, HeadTailProperties
<1>. HIDE DEF t
<1>2. f \in Bijection(Ups(t), rest)
  <2>1. \A i \in Ups(t) : i \in Int /\ i + 1 \in rest
    BY <1>1 DEF Ups
  <2>2. \A i \in rest : i \in Int /\ i - 1 \in Ups(t)
    BY <1>1 DEF Ups
  <2>3. f \in [Ups(t) -> rest]
    BY Zenon, <2>1
  <2>4. \A i, j \in Ups(t) : f[i] = f[j] => i = j
    BY <2>1
  <2>5. \A i \in rest : \E j \in Ups(t) : f[j] = i
    <3>1. ASSUME NEW i \in rest PROVE f[i - 1] = i
      BY <2>2
    <3>. QED  BY Zenon, <2>2, <3>1
  <2>. HIDE DEF f, rest
  <2>. QED  BY Zenon, <2>3, <2>4, <2>5 DEF Bijection, Injection, Surjection, IsInjective
<1>3. Cardinality(rest) = Cardinality(Ups(t))
  <2>1. ExistsBijection(Ups(t), rest)
    BY Zenon, <1>2 DEF ExistsBijection
  <2>. QED  BY Zenon, <1>1, <2>1, UpsFinite, FS_Bijection
<1>4. Cardinality(rest) = IF 1 \in Ups(s) THEN Cardinality(Ups(s)) - 1
                                          ELSE Cardinality(Ups(s))
  BY Zenon, UpsFinite, FS_RemoveElement
<1>5. 1 \in Ups(s) <=> Head(s) = "Connected"
  BY <1>1 DEF Ups
<1>6. Cardinality(Ups(s)) \in Nat /\ Cardinality(Ups(t)) \in Nat
  BY Zenon, <1>1, UpsFinite
<1>. HIDE DEF rest
<1>7. Cardinality(Ups(s)) = IF Head(s) = "Connected" THEN Cardinality(Ups(t)) + 1
                                                     ELSE Cardinality(Ups(t))
  BY <1>3, <1>4, <1>5, <1>6
<1>. QED  BY Zenon, <1>7 DEF t

-----------------------------------------------------------------------------
(***************************************************************************)
(* The inductive invariant behind readiness.                               *)
(***************************************************************************)
\* The callback has heard of every connection but the queued ones.
Counts == /\ life.connected = rdy.connected
          /\ life.conn + Cardinality(Ups(events)) = conn

\* A round trip is for a generation and for a connection that was heard of, and is
\* answered on that connection or a later one.
Tags ==
  /\ heard.conn <= life.conn
  /\ barrier.st # "none" => barrier.gen # 0 /\ barrier.conn <= life.conn
  /\ barrier.st = "ok" => barrier.conn <= barrier.on /\ barrier.on <= conn

\* What a commit has confirmed.
Established ==
  rdy.established =>
    /\ rdy.connected
    /\ confirmed.conn = life.conn /\ confirmed.inval = life.inval
    /\ confirmed.conn <= confirmed.on /\ confirmed.on <= conn
    /\ loop # "stopped" => confirmed.gen = gen /\ gen # 0

SInv ==
  /\ Typed /\ (loop = "rebuild" => gen = 0)
  /\ Alternating(events, rdy.connected, net)
  /\ Counts /\ Tags /\ Established

LEMMA InitReady == SupervisorInit => SInv
<1>. SUFFICES ASSUME SupervisorInit PROVE SInv
  BY Zenon
<1>1. Typed
  <2>1. TRUE \in BOOLEAN /\ FALSE \in BOOLEAN
    BY Zenon
  <2>2. \A b \in BOOLEAN : [seq |-> 0, conn |-> 0, inval |-> 0, connected |-> b,
                            connSeq |-> 0, invalSeq |-> 0] \in Snapshots
    BY Zenon DEF Snapshots
  <2>3. Quiet \in Snapshots
    BY Zenon, <2>1, <2>2 DEF Quiet
  <2>4. \A a, b, c \in BOOLEAN : [accepting |-> a, connected |-> b, established |-> c] \in
          [accepting : BOOLEAN, connected : BOOLEAN, established : BOOLEAN]
    BY Zenon
  <2>5. rdy \in [accepting : BOOLEAN, connected : BOOLEAN, established : BOOLEAN]
    BY Zenon, <2>1, <2>4 DEF SupervisorInit
  <2>6. events \in Seq(Events)
    BY Zenon, EmptySeq DEF SupervisorInit
  <2>7. /\ net \in BOOLEAN
        /\ conn \in Nat /\ gen \in Nat /\ nextGen \in Nat \ {0}
    <3>1. net \in BOOLEAN
      BY Zenon, <2>1 DEF SupervisorInit
    <3>2. conn \in Nat /\ gen \in Nat /\ nextGen \in Nat \ {0}
      BY DEF SupervisorInit
    <3>. QED  BY Zenon, <3>1, <3>2
  <2>8. loop \in {"select", "connected", "rebuild", "stopped"}
    BY Zenon DEF SupervisorInit
  <2>9. life = Quiet /\ heard = Quiet /\ barrier = NoBarrier /\ confirmed = NoBarrier
    BY Zenon DEF SupervisorInit
  <2>. QED  BY Zenon, <2>3, <2>5, <2>6, <2>7, <2>8, <2>9, BarrierTypes DEF Typed
<1>2. Len(events) = 0 /\ rdy.connected = FALSE /\ ~rdy.established
  BY Zenon, EmptySeq DEF SupervisorInit
<1>3. Alternating(events, rdy.connected, net)
  BY <1>2 DEF Alternating, Down
<1>4. Counts
  <2>1. Ups(events) = {}
    BY <1>2 DEF Ups
  <2>2. Cardinality(Ups(events)) = 0
    BY Zenon, <2>1, FS_EmptySet
  <2>3. life.conn = 0 /\ conn = 0
    BY Zenon DEF SupervisorInit, Quiet
  <2>4. life.connected = rdy.connected
    BY Zenon DEF SupervisorInit, Quiet
  <2>. QED  BY <2>2, <2>3, <2>4 DEF Counts
<1>5. Tags
  BY DEF SupervisorInit, Tags, Quiet, NoBarrier
<1>. QED  BY Zenon, <1>1, <1>2, <1>3, <1>4, <1>5 DEF SInv, Established, SupervisorInit

\* An event the client posts.
LEMMA PostReady ==
  ASSUME SInv, Typed', NEW e \in Events, events' = Append(events, e),
         e = "Connected" => ~net /\ net' /\ conn' = conn + 1,
         e = "Disconnected" => ~net',
         e = "Error" => net' = net,
         e # "Connected" => conn' = conn,
         UNCHANGED <<life, rdy, loop, heard, gen, barrier, confirmed>>
  PROVE  SInv'
<1>1. /\ events \in Seq(Events) /\ rdy.connected \in BOOLEAN /\ net \in BOOLEAN
      /\ net' \in BOOLEAN /\ conn \in Nat /\ life.conn \in Nat
  BY Zenon DEF SInv, Typed, Snapshots
<1>2. Alternating(events', rdy.connected, net')
  BY Zenon, <1>1, AppendAlternates DEF SInv
<1>3. Counts'
  <2>1. Cardinality(Ups(events)) \in Nat
    BY Zenon, <1>1, UpsFinite
  <2>2. Cardinality(Ups(events')) = IF e = "Connected" THEN Cardinality(Ups(events)) + 1
                                                       ELSE Cardinality(Ups(events))
    BY Zenon, <1>1, UpsAppend
  <2>3. life.conn + Cardinality(Ups(events)) = conn
    BY Zenon DEF SInv, Counts
  <2>4. life.conn + Cardinality(Ups(events')) = conn'
    BY <1>1, <2>1, <2>2, <2>3
  <2>. QED  BY Zenon, <2>4 DEF SInv, Counts
<1>4. conn <= conn' /\ conn' \in Nat
  BY SMTT(60), <1>1
<1>5. Tags'
  BY SMTT(60), <1>1, <1>4 DEF SInv, Tags, Typed, RoundTrips
<1>6. Established'
  BY SMTT(60), <1>1, <1>4 DEF SInv, Established, Typed, RoundTrips
<1>. QED  BY Zenon, <1>2, <1>3, <1>5, <1>6 DEF SInv

LEMMA DeliveredReady ==
  ASSUME SInv, Typed', Delivered
  PROVE  SInv'
<1>. DEFINE e == Head(events)
<1>1. /\ events \in Seq(Events) /\ events # <<>> /\ rdy.connected \in BOOLEAN
      /\ net \in BOOLEAN /\ conn \in Nat /\ life.conn \in Nat /\ heard.conn \in Nat
      /\ barrier.conn \in Nat
  BY Zenon DEF SInv, Typed, Snapshots, RoundTrips, Delivered
<1>2. e \in Events /\ events' = Tail(events) /\ Tail(events) \in Seq(Events)
  BY Zenon, <1>1, HeadTailProperties DEF Delivered
<1>3. /\ rdy'.connected = IF e = "Connected" THEN TRUE
                          ELSE IF e = "Disconnected" THEN FALSE ELSE rdy.connected
      /\ e # "Connected" => ~rdy'.established
      /\ e = "Connected" => rdy'.established = rdy.established
  BY Zenon, <1>2 DEF Delivered, ReadinessAfter, Events, SInv, Typed
<1>4. /\ life'.connected = IF e = "Connected" THEN TRUE
                           ELSE IF e = "Disconnected" THEN FALSE ELSE life.connected
      /\ life'.conn = IF e = "Connected" THEN life.conn + 1 ELSE life.conn
  <2>1. life' = LifeAfter(e)
    BY Zenon DEF Delivered
  <2>2. CASE e = "Connected"
    <3>1. life' = LifeAfter("Connected")
      BY Zenon, <2>1, <2>2
    <3>2. life'.conn = life.conn + 1 /\ life'.connected = TRUE
      BY <3>1, LifeFields DEF SInv
    <3>. QED  BY Zenon, <2>2, <3>2
  <2>3. CASE e = "Disconnected"
    <3>1. life' = LifeAfter("Disconnected")
      BY ZenonT(60), <2>1, <2>3
    <3>2. life'.conn = life.conn /\ life'.connected = FALSE
      BY <3>1, LifeFields DEF SInv
    <3>. QED  BY Zenon, <2>3, <3>2
  <2>4. CASE e = "Error"
    <3>1. life' = LifeAfter("Error")
      BY Zenon, <2>1, <2>4
    <3>2. life'.conn = life.conn /\ life'.connected = life.connected
      BY <3>1, LifeFields DEF SInv
    <3>. QED  BY Zenon, <2>4, <3>2
  <2>. QED  BY Zenon, <1>2, <2>2, <2>3, <2>4 DEF Events
<1>5. rdy'.connected \in BOOLEAN
  BY Zenon DEF Typed
<1>. HIDE DEF e
<1>6. /\ Alternating(Tail(events), rdy'.connected, net)
      /\ e = "Connected" => ~rdy.connected
  <2>1. e = "Disconnected" => ~rdy'.connected
    BY Zenon, <1>3
  <2>2. e = "Error" => rdy'.connected = rdy.connected
    BY Zenon, <1>3
  <2>. QED  BY Zenon, <1>1, <1>5, <2>1, <2>2, TailAlternates DEF SInv, e
<1>7. UNCHANGED <<net, conn, loop, heard, gen, barrier, confirmed>>
  BY Zenon DEF Delivered
<1>8. Counts'
  <2>1. life'.connected = rdy'.connected
    BY <1>3, <1>4 DEF SInv, Counts
  <2>2. /\ Cardinality(Ups(events)) = IF e = "Connected"
             THEN Cardinality(Ups(events')) + 1 ELSE Cardinality(Ups(events'))
        /\ Cardinality(Ups(events')) \in Nat
    BY Zenon, <1>1, <1>2, UpsTail, UpsFinite DEF e
  <2>3. life'.conn + Cardinality(Ups(events')) = conn
    BY SMTT(60), <1>1, <1>4, <2>2 DEF SInv, Counts
  <2>. QED  BY Zenon, <1>7, <2>1, <2>3 DEF Counts
<1>9. Tags'
  <2>1. life.conn <= life'.conn /\ life'.conn \in Nat
    BY <1>1, <1>4
  <2>. QED  BY <1>1, <1>7, <2>1 DEF SInv, Tags
<1>10. ~rdy'.established
  BY Zenon, <1>3, <1>6 DEF SInv, Established
<1>11. Alternating(events', rdy'.connected, net')
  BY Zenon, <1>2, <1>6, <1>7
<1>. QED  BY Zenon, <1>7, <1>8, <1>9, <1>10, <1>11 DEF SInv, Established

\* A step that is not the client's or the callback's: what is left to show of it.
LEMMA RestReady ==
  ASSUME SInv, Typed', UNCHANGED <<net, conn, events, life>>,
         rdy'.connected = rdy.connected, Tags', Established',
         loop' = "rebuild" => gen' = 0
  PROVE  SInv'
<1>1. Alternating(events', rdy'.connected, net')
  BY Zenon DEF SInv
<1>2. Counts'
  BY Zenon DEF SInv, Counts
<1>. QED  BY Zenon, <1>1, <1>2 DEF SInv

\* A generation is built only when there is none, and so nothing is established.
LEMMA BuildReady ==
  ASSUME SInv, Typed', NEW l \in Snapshots, l.conn <= life.conn, MaybeStartBarrier(l),
         gen = 0 \/ gen' = gen, loop # "stopped", loop' = "select",
         UNCHANGED <<net, conn, events, life, rdy, heard, confirmed>>
  PROVE  SInv'
<1>1. Tags'
  <2>1. CASE barrier' = barrier
    BY Zenon, <2>1 DEF SInv, Tags
  <2>2. CASE barrier' = StartBarrier(l, gen')
    BY Zenon, <2>2 DEF SInv, Tags, StartBarrier, NoBarrier
  <2>. QED  BY Zenon, <2>1, <2>2 DEF MaybeStartBarrier
<1>2. Established'
  BY Zenon DEF SInv, Established
<1>. QED  BY Zenon, <1>1, <1>2, RestReady

\* The step loses no event of the client.
NothingLost == Connect \/ Disconnect \/ ClientError => QueueHasRoom

LEMMA NextReady == NothingLost /\ SInv /\ [SupervisorNext]_supervisorVars => SInv'
<1>. SUFFICES ASSUME NothingLost, SInv, [SupervisorNext]_supervisorVars PROVE SInv'
  BY Zenon
<1>1. Typed /\ Typed'
  BY Zenon, NextTyped DEF SInv
<1>2. CASE Connect
  <2>1. events' = Append(events, "Connected")
    BY Zenon, <1>2 DEF Connect, Post, QueueHasRoom, NothingLost
  <2>. QED  BY Zenon, <1>1, <1>2, <2>1, PostReady DEF Connect, watch, Events
<1>3. CASE Disconnect
  <2>1. events' = Append(events, "Disconnected")
    BY Zenon, <1>3 DEF Disconnect, Post, QueueHasRoom, NothingLost
  <2>. QED  BY Zenon, <1>1, <1>3, <2>1, PostReady DEF Disconnect, watch, Events
<1>4. CASE ClientError
  <2>1. events' = Append(events, "Error")
    BY Zenon, <1>4 DEF ClientError, Post, QueueHasRoom, NothingLost
  <2>. QED  BY Zenon, <1>1, <1>4, <2>1, PostReady DEF ClientError, watch, Events
<1>5. CASE Delivered
  BY Zenon, <1>1, <1>5, DeliveredReady
<1>6. CASE BarrierAnswered
  <2>1. life.conn <= conn
    <3>1. Cardinality(Ups(events)) \in Nat /\ life.conn \in Nat
      BY Zenon, <1>1, UpsFinite DEF Typed, Snapshots
    <3>. QED  BY <3>1 DEF SInv, Counts
  <2>2. barrier.conn \in Nat /\ life.conn \in Nat /\ conn \in Nat
    BY Zenon, <1>1 DEF Typed, RoundTrips, Snapshots
  <2>3. /\ barrier'.on = conn /\ barrier'.conn = barrier.conn
        /\ barrier'.gen = barrier.gen /\ barrier.st # "none"
    BY Zenon, <1>1, <1>6 DEF BarrierAnswered, Typed, RoundTrips
  <2>4. UNCHANGED <<net, conn, events, life, rdy, loop, heard, gen, confirmed>>
    BY Zenon, <1>6 DEF BarrierAnswered, client, watch
  <2>5. Tags'
    BY <2>1, <2>2, <2>3, <2>4 DEF SInv, Tags
  <2>6. Established'
    BY Zenon, <2>4 DEF SInv, Established
  <2>. QED  BY Zenon, <1>1, <2>4, <2>5, <2>6, RestReady DEF SInv
<1>7. CASE BarrierTimesOut
  <2>1. /\ barrier'.st = "failed" /\ barrier'.conn = barrier.conn
        /\ barrier'.gen = barrier.gen /\ barrier.st # "none"
    BY Zenon, <1>1, <1>7 DEF BarrierTimesOut, Typed, RoundTrips
  <2>2. UNCHANGED <<net, conn, events, life, rdy, loop, heard, gen, confirmed>>
    BY Zenon, <1>7 DEF BarrierTimesOut, client, watch
  <2>3. Tags' /\ Established'
    BY Zenon, <2>1, <2>2 DEF SInv, Tags, Established
  <2>. QED  BY Zenon, <1>1, <2>2, <2>3, RestReady DEF SInv
<1>8. ASSUME UNCHANGED <<net, conn, events, life, rdy, loop, heard, gen, barrier, confirmed>>
      PROVE  SInv'
  <2>1. Tags' /\ Established'
    BY Zenon, <1>8 DEF SInv, Tags, Established
  <2>. QED  BY Zenon, <1>1, <1>8, <2>1, RestReady DEF SInv
<1>9. ASSUME NEW g \in serving, GenerationEnds(g) PROVE SInv'
  BY Zenon, <1>8, <1>9 DEF GenerationEnds, client, watch
<1>10. ASSUME NEW g \in ended, SendSignal(g) PROVE SInv'
  BY Zenon, <1>8, <1>10 DEF SendSignal, client, watch
<1>11. CASE LifecycleChanged
  <2>1. /\ UNCHANGED <<net, conn, events, life, rdy, gen, confirmed>>
        /\ heard' = life /\ loop = "select" /\ loop' \in {"select", "connected"}
        /\ barrier' \in {barrier, NoBarrier}
    BY Zenon, <1>11 DEF LifecycleChanged, client
  <2>2. life.conn \in Nat
    BY Zenon, <1>1 DEF Typed, Snapshots
  <2>3. Tags'
    BY <2>1, <2>2 DEF SInv, Tags, NoBarrier
  <2>4. Established'
    BY Zenon, <2>1 DEF SInv, Established
  <2>. QED  BY Zenon, <1>1, <2>1, <2>3, <2>4, RestReady
<1>12. CASE Connected
  BY Zenon, <1>1, <1>12, BuildReady DEF Connected, client, watch, SInv, Tags, Typed
<1>13. CASE Signal
  <2>1. /\ UNCHANGED <<net, conn, events, life, heard, confirmed>> /\ loop = "select"
        /\ rdy'.connected = rdy.connected
    BY Zenon, <1>1, <1>13 DEF Signal, client, watch, Typed
  <2>2. CASE Head(signals) = gen
    <3>1. barrier' = NoBarrier /\ gen' = 0 /\ ~rdy'.established
      BY Zenon, <1>1, <1>13, <2>2 DEF Signal, Typed
    <3>2. Tags' /\ Established'
      BY Zenon, <2>1, <3>1 DEF SInv, Tags, Established, NoBarrier
    <3>. QED  BY Zenon, <1>1, <2>1, <3>1, <3>2, RestReady
  <2>3. CASE Head(signals) # gen
    BY Zenon, <1>8, <1>13, <2>1, <2>3 DEF Signal
  <2>. QED  BY Zenon, <2>2, <2>3
<1>14. CASE Rebuild
  <2>1. life.conn <= life.conn /\ life \in Snapshots
    BY <1>1 DEF Typed, Snapshots
  <2>. QED  BY ZenonT(60), <1>1, <1>14, <2>1, BuildReady DEF Rebuild, client, watch, SInv
<1>15. CASE BarrierDone
  <2>1. /\ UNCHANGED <<net, conn, events, life, loop, heard, gen>> /\ barrier' = NoBarrier
        /\ loop = "select" /\ rdy'.connected = rdy.connected
    BY Zenon, <1>1, <1>15 DEF BarrierDone, client, watch, Typed
  <2>2. Tags'
    BY Zenon, <2>1 DEF SInv, Tags, NoBarrier
  <2>3. CASE barrier.st = "ok" /\ TagsMatch(barrier)
    <3>1. confirmed' = barrier
      BY Zenon, <1>15, <2>3 DEF BarrierDone
    <3>2. /\ life.connected /\ barrier.conn = life.conn /\ barrier.inval = life.inval
          /\ barrier.gen = gen
      BY Zenon, <2>3 DEF TagsMatch
    <3>3. barrier.gen # 0 /\ barrier.conn <= barrier.on /\ barrier.on <= conn
      BY Zenon, <2>3 DEF SInv, Tags
    <3>4. rdy.connected
      BY Zenon, <3>2 DEF SInv, Counts
    <3>5. Established'
      BY ZenonT(60), <2>1, <3>1, <3>2, <3>3, <3>4 DEF Established
    <3>. QED  BY ZenonT(60), <1>1, <2>1, <2>2, <3>5, RestReady
  <2>4. CASE ~(barrier.st = "ok" /\ TagsMatch(barrier))
    <3>1. UNCHANGED <<rdy, confirmed>>
      BY Zenon, <1>15, <2>4 DEF BarrierDone
    <3>2. Established'
      BY Zenon, <2>1, <3>1 DEF SInv, Established
    <3>. QED  BY Zenon, <1>1, <2>1, <2>2, <3>2, RestReady
  <2>. QED  BY Zenon, <2>3, <2>4
<1>16. CASE BeginShutdown
  <2>1. /\ UNCHANGED <<net, conn, events, life, loop, heard, gen, barrier, confirmed>>
        /\ rdy'.connected = rdy.connected /\ rdy'.established = rdy.established
    BY Zenon, <1>1, <1>16 DEF BeginShutdown, client, watch, Typed
  <2>2. Tags' /\ Established'
    BY Zenon, <2>1 DEF SInv, Tags, Established
  <2>. QED  BY Zenon, <1>1, <2>1, <2>2, RestReady DEF SInv
<1>17. CASE Shutdown
  <2>1. /\ UNCHANGED <<net, conn, events, life, rdy, heard, confirmed>>
        /\ barrier' = NoBarrier /\ loop' = "stopped"
    BY Zenon, <1>17 DEF Shutdown, client, watch
  <2>2. Tags' /\ Established'
    BY Zenon, <2>1 DEF SInv, Tags, Established, NoBarrier
  <2>. QED  BY ZenonT(60), <1>1, <2>1, <2>2, RestReady
<1>18. CASE UNCHANGED supervisorVars
  BY Zenon, <1>8, <1>18 DEF supervisorVars, client, watch
<1>. QED
  BY ZenonT(60), <1>2, <1>3, <1>4, <1>5, <1>6, <1>7, <1>9, <1>10, <1>11, <1>12, <1>13, <1>14, <1>15,
     <1>16, <1>17, <1>18 DEF SupervisorNext, SupervisorStep

LEMMA ReadyAlways == SupervisorSpec /\ []QueueHasRoom => []SInv
<1>1. QueueHasRoom => NothingLost
  BY Zenon DEF NothingLost
<1>. QED  BY <1>1, InitReady, NextReady, PTL DEF SupervisorSpec

(***************************************************************************)
(* As long as the client loses no event, established means confirmed for   *)
(* the connection, the invalidation and the generation of now: no late     *)
(* round trip survives an event (commit_barrier).                          *)
(***************************************************************************)
THEOREM ReadyIsAlwaysCurrent == SupervisorSpec /\ []QueueHasRoom => []ReadyIsCurrent
<1>1. SInv => ReadyIsCurrent
  BY Zenon DEF SInv, Established, ReadyIsCurrent
<1>. QED  BY <1>1, ReadyAlways, PTL

(***************************************************************************)
(* And once the callback has caught up, there is a connection and the      *)
(* round trip was answered on that very one (commit_barrier, delivered).   *)
(***************************************************************************)
THEOREM ReadyIsAlwaysConfirmed == SupervisorSpec /\ []QueueHasRoom => []ReadyIsConfirmed
<1>1. SInv => ReadyIsConfirmed
  <2>. SUFFICES ASSUME SInv, rdy.established, rdy.connected, events = <<>>
                PROVE  net /\ confirmed.on = conn
    BY Zenon DEF ReadyIsConfirmed
  <2>1. Len(events) = 0 /\ net \in BOOLEAN /\ conn \in Nat /\ life.conn \in Nat
        /\ confirmed.on \in Nat
    BY Zenon, EmptySeq DEF SInv, Typed, Snapshots, RoundTrips
  <2>2. net
    <3>1. ~Down(events, rdy.connected, Len(events) + 1)
      BY <2>1 DEF Down
    <3>. QED  BY Zenon, <3>1 DEF SInv, Alternating
  <2>3. Ups(events) = {}
    BY <2>1 DEF Ups
  <2>4. life.conn = conn
    <3>1. Cardinality(Ups(events)) = 0
      BY Zenon, <2>3, FS_EmptySet
    <3>2. life.conn + Cardinality(Ups(events)) = conn
      BY Zenon DEF SInv, Counts
    <3>. QED  BY <2>1, <3>1, <3>2
  <2>5. life.conn <= confirmed.on /\ confirmed.on <= conn
    BY Zenon DEF SInv, Established
  <2>. QED  BY SMTT(60), <2>1, <2>2, <2>4, <2>5
<1>. QED  BY <1>1, ReadyAlways, PTL

-----------------------------------------------------------------------------
\* The part of SupervisorTyped that is not in Typed.
Bounded ==
  /\ Len(events) <= EventCap /\ changed \in BOOLEAN
  /\ handled \in [conn : Nat, inval : Nat] /\ ended \subseteq Nat
  /\ signals \in Seq(Nat) /\ Len(signals) <= SignalCap
  /\ barrier \in Barriers /\ confirmed \in Barriers
  /\ used \in [drops : 0..MaxDrops, errors : 0..MaxErrors, ends : 0..MaxEnds]

LEMMA SpendTyped ==
  ASSUME NEW b \in {"drops", "errors", "ends"},
         NEW max, max = (CASE b = "drops" -> MaxDrops [] b = "errors" -> MaxErrors
                           [] b = "ends" -> MaxEnds),
         used \in [drops : 0..MaxDrops, errors : 0..MaxErrors, ends : 0..MaxEnds],
         Spend(b, max)
  PROVE  used' \in [drops : 0..MaxDrops, errors : 0..MaxErrors, ends : 0..MaxEnds]
BY SupervisorBounds DEF Spend

LEMMA RoundTripTypes ==
  /\ NoBarrier \in Barriers
  /\ \A l \in Snapshots, g \in Nat : StartBarrier(l, g) \in Barriers
  /\ \A b \in Barriers, c \in Nat : b.st = "flying" =>
       /\ [b EXCEPT !.st = "ok", !.on = c] \in Barriers
       /\ [b EXCEPT !.st = "failed"] \in Barriers
<1>1. NoBarrier \in Barriers
  BY Zenon DEF Barriers
<1>2. ASSUME NEW l \in Snapshots, NEW g \in Nat PROVE StartBarrier(l, g) \in Barriers
  BY Zenon DEF StartBarrier, Barriers, Snapshots
<1>3. ASSUME NEW b \in Barriers, NEW c \in Nat, b.st = "flying"
      PROVE  /\ [b EXCEPT !.st = "ok", !.on = c] \in Barriers
             /\ [b EXCEPT !.st = "failed"] \in Barriers
  <2>1. b \in [st : {"flying", "ok", "failed"}, conn : Nat, inval : Nat,
               gen : Nat \ {0}, on : Nat]
    BY <1>3 DEF Barriers, NoBarrier
  <2>. QED  BY Zenon, <2>1 DEF Barriers
<1>. QED  BY Zenon, <1>1, <1>2, <1>3

LEMMA QueueTypes ==
  /\ \A s \in Seq(Nat), x \in Nat : Append(s, x) \in Seq(Nat) /\ Len(Append(s, x)) = Len(s) + 1
  /\ \A s \in Seq(Nat) : s # <<>> =>
       Head(s) \in Nat /\ Tail(s) \in Seq(Nat) /\ Len(Tail(s)) = Len(s) - 1
  /\ \A s \in Seq(Events), x \in Events : Len(Append(s, x)) = Len(s) + 1
  /\ \A s \in Seq(Events) : s # <<>> => Len(Tail(s)) = Len(s) - 1
BY ZenonT(60), AppendProperties, HeadTailProperties

LEMMA BuildTyped ==
  ASSUME Typed, Typed', Bounded, Build \/ UNCHANGED used,
         NEW l \in Snapshots, MaybeStartBarrier(l)
  PROVE  /\ barrier' \in Barriers
         /\ used' \in [drops : 0..MaxDrops, errors : 0..MaxErrors, ends : 0..MaxEnds]
<1>1. gen' \in Nat
  BY Zenon DEF Typed
<1>2. barrier' \in Barriers
  BY Zenon, <1>1, RoundTripTypes DEF Bounded, MaybeStartBarrier
<1>3. CASE UNCHANGED used
  BY Zenon, <1>2, <1>3 DEF Bounded
<1>4. CASE Spend("errors", MaxErrors)
  BY Zenon, <1>2, <1>4, SpendTyped DEF Bounded
<1>. QED  BY Zenon, <1>3, <1>4 DEF Build

LEMMA NextBounded == GInv /\ Typed /\ Typed' /\ Bounded /\ [SupervisorNext]_supervisorVars => Bounded'
<1>. SUFFICES ASSUME GInv, Typed, Typed', Bounded, [SupervisorNext]_supervisorVars PROVE Bounded'
  BY Zenon
<1>1. ASSUME NEW e \in Events, Post(e) PROVE Len(events') <= EventCap
  <2>1. Len(events) \in Nat /\ Len(Append(events, e)) = Len(events) + 1
    BY Zenon, LenProperties, QueueTypes DEF Typed
  <2>. QED  BY SMTT(60), <1>1, <2>1, SupervisorBounds DEF Post, Bounded
<1>2. CASE Connect
  <2>1. Len(events') <= EventCap
    BY Zenon, <1>1, <1>2 DEF Connect, Events
  <2>. QED  BY Zenon, <1>2, <2>1 DEF Connect, Bounded, watch, readers
<1>3. CASE Disconnect
  <2>1. Len(events') <= EventCap
    BY Zenon, <1>1, <1>3 DEF Disconnect, Events
  <2>2. used' \in [drops : 0..MaxDrops, errors : 0..MaxErrors, ends : 0..MaxEnds]
    BY Zenon, <1>3, SpendTyped DEF Disconnect, Bounded
  <2>. QED  BY Zenon, <1>3, <2>1, <2>2 DEF Disconnect, Bounded, watch, readers
<1>4. CASE ClientError
  <2>1. Len(events') <= EventCap
    BY Zenon, <1>1, <1>4 DEF ClientError, Events
  <2>2. used' \in [drops : 0..MaxDrops, errors : 0..MaxErrors, ends : 0..MaxEnds]
    BY Zenon, <1>4, SpendTyped DEF ClientError, Bounded
  <2>. QED  BY Zenon, <1>4, <2>1, <2>2 DEF ClientError, Bounded, watch, readers
<1>5. CASE BarrierAnswered \/ BarrierTimesOut
  <2>1. barrier' \in Barriers
    <3>1. conn \in Nat /\ barrier \in Barriers
      BY Zenon DEF Bounded, Typed
    <3>2. CASE BarrierAnswered
      BY Zenon, <3>1, <3>2, RoundTripTypes DEF BarrierAnswered
    <3>3. CASE BarrierTimesOut
      BY Zenon, <3>1, <3>3, RoundTripTypes DEF BarrierTimesOut
    <3>. QED  BY Zenon, <1>5, <3>2, <3>3
  <2>2. used' \in [drops : 0..MaxDrops, errors : 0..MaxErrors, ends : 0..MaxEnds]
    <3>1. CASE Spend("errors", MaxErrors)
      BY Zenon, <3>1, SpendTyped DEF Bounded
    <3>2. CASE UNCHANGED used
      BY Zenon, <3>2 DEF Bounded
    <3>. QED  BY Zenon, <1>5, <3>1, <3>2 DEF BarrierAnswered, BarrierTimesOut
  <2>3. UNCHANGED <<events, changed, handled, ended, signals, confirmed>>
    BY Zenon, <1>5 DEF BarrierAnswered, BarrierTimesOut, client, watch, readers
  <2>. QED  BY Zenon, <2>1, <2>2, <2>3 DEF Bounded
<1>6. CASE Delivered
  <2>1. Len(events') <= EventCap
    <3>1. Len(events) \in Nat /\ Len(events') = Len(events) - 1
      BY Zenon, <1>6, LenProperties, QueueTypes DEF Typed, Delivered
    <3>. QED  BY <3>1, SupervisorBounds DEF Bounded
  <2>2. changed' \in BOOLEAN
    BY Zenon, <1>6 DEF Delivered
  <2>3. UNCHANGED <<handled, ended, signals, barrier, confirmed, used>>
    BY Zenon, <1>6 DEF Delivered, readers
  <2>. QED  BY Zenon, <2>1, <2>2, <2>3 DEF Bounded
<1>7. ASSUME NEW g \in serving, GenerationEnds(g) PROVE Bounded'
  <2>1. used' \in [drops : 0..MaxDrops, errors : 0..MaxErrors, ends : 0..MaxEnds]
    BY Zenon, <1>7, SpendTyped DEF GenerationEnds, Bounded
  <2>2. ended' \subseteq Nat
    BY Zenon, <1>7 DEF GenerationEnds, GInv, Generations, Bounded
  <2>. QED  BY Zenon, <1>7, <2>1, <2>2 DEF GenerationEnds, Bounded, client, watch
<1>8. ASSUME NEW g \in ended, SendSignal(g) PROVE Bounded'
  <2>1. g \in Nat /\ signals \in Seq(Nat) /\ signals' = Append(signals, g)
        /\ ended' \subseteq Nat
    BY Zenon, <1>8 DEF SendSignal, Bounded
  <2>2. signals' \in Seq(Nat) /\ Len(signals') = Len(signals) + 1
    BY Zenon, <2>1, QueueTypes
  <2>3. Len(signals') <= SignalCap
    BY SMTT(60), <1>8, <2>1, <2>2, LenProperties, SupervisorBounds DEF SendSignal
  <2>. QED  BY Zenon, <1>8, <2>1, <2>2, <2>3 DEF SendSignal, Bounded, client, watch
<1>9. CASE LifecycleChanged
  <2>1. handled' \in [conn : Nat, inval : Nat]
    BY Zenon, <1>9 DEF LifecycleChanged, Typed, Snapshots
  <2>2. barrier' \in Barriers /\ changed' \in BOOLEAN
    BY Zenon, <1>9, RoundTripTypes DEF LifecycleChanged, Bounded
  <2>. QED  BY Zenon, <1>9, <2>1, <2>2 DEF LifecycleChanged, Bounded, client, readers
<1>10. CASE Connected \/ Rebuild
  <2>1. /\ barrier' \in Barriers
        /\ used' \in [drops : 0..MaxDrops, errors : 0..MaxErrors, ends : 0..MaxEnds]
    BY Zenon, <1>10, BuildTyped DEF Connected, Rebuild, Typed
  <2>2. UNCHANGED <<events, changed, handled, ended, signals, confirmed>>
    BY Zenon, <1>10 DEF Connected, Rebuild, client, watch
  <2>. QED  BY Zenon, <2>1, <2>2 DEF Bounded
<1>11. CASE Signal
  <2>1. signals' \in Seq(Nat) /\ Len(signals') = Len(signals) - 1 /\ Len(signals) \in Nat
    BY Zenon, <1>11, QueueTypes, LenProperties DEF Signal, Bounded
  <2>2. Len(signals') <= SignalCap
    BY <2>1, SupervisorBounds DEF Bounded
  <2>3. barrier' \in Barriers
    BY Zenon, <1>11, RoundTripTypes DEF Signal, Bounded
  <2>. QED  BY Zenon, <1>11, <2>1, <2>2, <2>3 DEF Signal, Bounded, client, watch
<1>12. CASE BarrierDone
  <2>1. barrier' \in Barriers /\ confirmed' \in Barriers
    BY Zenon, <1>12, RoundTripTypes DEF BarrierDone, Bounded
  <2>. QED  BY Zenon, <1>12, <2>1 DEF BarrierDone, Bounded, client, watch, readers
<1>13. CASE Shutdown
  <2>1. barrier' \in Barriers /\ ended' \subseteq Nat
    BY Zenon, <1>13, RoundTripTypes DEF Shutdown, Bounded
  <2>. QED  BY Zenon, <1>13, <2>1 DEF Shutdown, Bounded, client, watch
<1>14. CASE BeginShutdown \/ UNCHANGED supervisorVars
  BY Zenon, <1>14 DEF BeginShutdown, supervisorVars, Bounded, client, watch, readers
<1>. QED
  BY ZenonT(60), <1>2, <1>3, <1>4, <1>5, <1>6, <1>7, <1>8, <1>9, <1>10, <1>11, <1>12, <1>13, <1>14
     DEF SupervisorNext, SupervisorStep

LEMMA InitBounded == SupervisorInit => Bounded
<1>. SUFFICES ASSUME SupervisorInit PROVE Bounded
  BY Zenon
<1>1. Len(events) = 0 /\ Len(signals) = 0 /\ signals \in Seq(Nat)
  BY ZenonT(60), EmptySeq DEF SupervisorInit
<1>2. /\ handled \in [conn : Nat, inval : Nat]
      /\ used \in [drops : 0..MaxDrops, errors : 0..MaxErrors, ends : 0..MaxEnds]
  BY SupervisorBounds DEF SupervisorInit
<1>3. Len(events) <= EventCap /\ Len(signals) <= SignalCap
  BY <1>1, SupervisorBounds
<1>4. barrier \in Barriers /\ confirmed \in Barriers /\ changed \in BOOLEAN /\ ended \subseteq Nat
  BY Zenon, RoundTripTypes DEF SupervisorInit
<1>. QED  BY ZenonT(60), <1>1, <1>2, <1>3, <1>4 DEF Bounded

\* The connections made, and all that was posted against all that may be.
Posted ==
  /\ net => conn = used.drops + 1
  /\ ~net => conn = used.drops
  /\ Len(events) <= conn + used.drops + used.errors

\* The client's queue holds every event of a run of the bounded model.
EventsFit == EventCap > 2 * MaxDrops + MaxErrors

LEMMA NextPosted == Typed /\ Bounded /\ Posted /\ [SupervisorNext]_supervisorVars => Posted'
<1>. SUFFICES ASSUME Typed, Bounded, Posted, [SupervisorNext]_supervisorVars PROVE Posted'
  BY Zenon
<1>0. /\ conn \in Nat /\ Len(events) \in Nat /\ net \in BOOLEAN
      /\ used.drops \in Nat /\ used.errors \in Nat
  BY LenProperties, SupervisorBounds DEF Typed, Bounded
<1>1. ASSUME NEW e \in Events, Post(e) PROVE Len(events') <= Len(events) + 1 /\ Len(events') \in Nat
  <2>1. Len(Append(events, e)) = Len(events) + 1
    BY Zenon, QueueTypes DEF Typed
  <2>. QED  BY <1>0, <1>1, <2>1 DEF Post
<1>2. CASE Connect
  <2>1. Len(events') <= Len(events) + 1 /\ Len(events') \in Nat
    BY Zenon, <1>1, <1>2 DEF Connect, Events
  <2>2. conn' = conn + 1 /\ UNCHANGED used
    BY Zenon, <1>2 DEF Connect, Posted
  <2>3. Len(events) <= conn + used.drops + used.errors
    BY Zenon DEF Posted
  <2>4. Len(events') <= conn' + used'.drops + used'.errors
    BY SMTT(60), <1>0, <2>1, <2>2, <2>3
  <2>5. conn' = used'.drops + 1
    BY Zenon, <1>2 DEF Posted, Connect
  <2>. QED  BY Zenon, <1>2, <2>4, <2>5 DEF Posted, Connect
<1>3. CASE Disconnect
  <2>1. Len(events') <= Len(events) + 1 /\ Len(events') \in Nat
    BY Zenon, <1>1, <1>3 DEF Disconnect, Events
  <2>2. used'.drops = used.drops + 1 /\ used'.errors = used.errors
    BY Zenon, <1>3 DEF Disconnect, Spend, Bounded
  <2>3. conn' = conn /\ Len(events) <= conn + used.drops + used.errors
    BY Zenon, <1>3 DEF Disconnect, Posted
  <2>4. Len(events') <= conn' + used'.drops + used'.errors
    BY SMTT(60), <1>0, <2>1, <2>2, <2>3
  <2>5. conn' = used'.drops
    BY Zenon, <1>3, <2>2, <2>3 DEF Posted, Disconnect
  <2>. QED  BY Zenon, <1>3, <2>4, <2>5 DEF Posted, Disconnect
<1>a. ASSUME Spend("errors", MaxErrors) PROVE used'.drops = used.drops /\ used'.errors = used.errors + 1
  BY Zenon, <1>a DEF Spend, Bounded
<1>4. CASE ClientError
  <2>1. Len(events') <= Len(events) + 1 /\ Len(events') \in Nat
    BY Zenon, <1>1, <1>4 DEF ClientError, Events
  <2>2. /\ used'.drops = used.drops /\ used'.errors = used.errors + 1
        /\ UNCHANGED <<net, conn>>
    BY Zenon, <1>4, <1>a DEF ClientError
  <2>3. Len(events') <= conn' + used'.drops + used'.errors
    BY SMTT(60), <1>0, <2>1, <2>2 DEF Posted
  <2>. QED  BY Zenon, <2>2, <2>3 DEF Posted
<1>5. ASSUME UNCHANGED client, UNCHANGED used \/ Spend("errors", MaxErrors) PROVE Posted'
  <2>1. CASE UNCHANGED used
    BY Zenon, <1>5, <2>1 DEF client, Posted
  <2>2. CASE Spend("errors", MaxErrors)
    <3>1. /\ used'.drops = used.drops /\ used'.errors = used.errors + 1
          /\ UNCHANGED <<net, conn, events>>
      BY ZenonT(60), <1>5, <1>a, <2>2 DEF client
    <3>2. Len(events') <= conn' + used'.drops + used'.errors
      BY <1>0, <3>1 DEF Posted
    <3>. QED  BY Zenon, <3>1, <3>2 DEF Posted
  <2>. QED  BY Zenon, <1>5, <2>1, <2>2
<1>6. CASE BarrierAnswered \/ BarrierTimesOut
  BY Zenon, <1>5, <1>6 DEF BarrierAnswered, BarrierTimesOut
<1>7. CASE Delivered
  <2>1. Len(events') = Len(events) - 1 /\ UNCHANGED <<net, conn, used>>
    BY ZenonT(60), <1>7, QueueTypes DEF Typed, Delivered
  <2>2. Len(events') <= conn' + used'.drops + used'.errors
    BY <1>0, <2>1 DEF Posted
  <2>. QED  BY Zenon, <2>1, <2>2 DEF Posted
<1>8. ASSUME NEW g \in serving, GenerationEnds(g) PROVE Posted'
  <2>1. used'.drops = used.drops /\ used'.errors = used.errors
    BY Zenon, <1>8 DEF GenerationEnds, Spend, Bounded
  <2>. QED  BY Zenon, <1>8, <2>1 DEF GenerationEnds, client, Posted
<1>9. ASSUME NEW g \in ended, SendSignal(g) PROVE Posted'
  BY Zenon, <1>5, <1>9 DEF SendSignal
<1>10. CASE SupervisorStep
  BY Zenon, <1>5, <1>10
     DEF SupervisorStep, LifecycleChanged, Connected, Signal, Rebuild, BarrierDone, Shutdown, Build
<1>11. CASE BeginShutdown \/ UNCHANGED supervisorVars
  BY Zenon, <1>5, <1>11 DEF BeginShutdown, supervisorVars
<1>. QED
  BY ZenonT(60), <1>2, <1>3, <1>4, <1>6, <1>7, <1>8, <1>9, <1>10, <1>11 DEF SupervisorNext

LEMMA EnoughRoom ==
  ASSUME EventsFit, Typed, Bounded, Posted PROVE NothingLost
<1>0. /\ conn \in Nat /\ Len(events) \in Nat /\ net \in BOOLEAN
      /\ used.drops \in 0..MaxDrops /\ used.errors \in 0..MaxErrors
  BY Zenon, LenProperties DEF Typed, Bounded
<1>1. ASSUME Connect PROVE QueueHasRoom
  <2>1. conn = used.drops
    BY Zenon, <1>1 DEF Connect, Posted
  <2>. QED  BY SMTT(60), <1>0, <2>1, SupervisorBounds DEF EventsFit, Posted, QueueHasRoom
<1>2. ASSUME Disconnect PROVE QueueHasRoom
  <2>1. net /\ used.drops < MaxDrops
    BY Zenon, <1>2 DEF Disconnect, Spend
  <2>. QED  BY SMTT(60), <1>0, <2>1, SupervisorBounds DEF EventsFit, Posted, QueueHasRoom
<1>3. ASSUME ClientError PROVE QueueHasRoom
  <2>1. used.errors < MaxErrors
    BY Zenon, <1>3 DEF ClientError, Spend
  <2>. QED  BY SMTT(60), <1>0, <2>1, SupervisorBounds DEF EventsFit, Posted, QueueHasRoom
<1>. QED  BY Zenon, <1>1, <1>2, <1>3 DEF NothingLost

LEMMA SupervisorInvariant == EventsFit => (SupervisorSpec => [](SInv /\ GInv /\ Bounded))
<1>. SUFFICES ASSUME EventsFit PROVE SupervisorSpec => [](SInv /\ GInv /\ Bounded)
  BY Zenon
<1>. DEFINE All == SInv /\ GInv /\ Bounded /\ Posted
<1>1. SupervisorInit => All
  <2>1. SupervisorInit => Posted
    <3>. SUFFICES ASSUME SupervisorInit PROVE Posted
      BY Zenon
    <3>1. Len(events) = 0
      BY ZenonT(60), EmptySeq DEF SupervisorInit
    <3>. QED  BY <3>1 DEF SupervisorInit, Posted
  <2>2. SupervisorInit => GInv
    BY DEF SupervisorInit, GInv, Generations
  <2>. QED  BY ZenonT(60), <2>1, <2>2, InitReady, InitBounded
<1>2. All /\ [SupervisorNext]_supervisorVars => All'
  <2>. SUFFICES ASSUME All, [SupervisorNext]_supervisorVars PROVE All'
    BY Zenon
  <2>1. Typed /\ Typed'
    BY Zenon, NextTyped DEF SInv
  <2>2. SInv'
    BY Zenon, <2>1, EnoughRoom, NextReady
  <2>. QED  BY ZenonT(60), <2>1, <2>2, NextGenerations, NextBounded, NextPosted
<1>3. All => SInv /\ GInv /\ Bounded
  BY Zenon
<1>. HIDE DEF All
<1>. QED  BY <1>1, <1>2, <1>3, PTL DEF SupervisorSpec

(***************************************************************************)
(* The supervisor keeps its types and its bounds, reads with one           *)
(* generation at a time and is ready only for the connection, the          *)
(* invalidation and the generation of now, whatever the bounds, once the   *)
(* client's queue holds all the events they allow (run_client_supervisor). *)
(***************************************************************************)
THEOREM SupervisorAlwaysSound == EventsFit => (SupervisorSpec => []SupervisorIsSound)
<1>. SUFFICES ASSUME EventsFit PROVE SupervisorSpec => []SupervisorIsSound
  BY Zenon
<1>1. SInv /\ GInv /\ Bounded /\ OneGeneration => SupervisorIsSound
  <2>. SUFFICES ASSUME SInv, GInv, Bounded, OneGeneration PROVE SupervisorIsSound
    BY Zenon
  <2>1. ReadyIsCurrent
    BY Zenon DEF SInv, Established, ReadyIsCurrent
  <2>2. serving \subseteq Nat
    BY Zenon DEF GInv, Generations
  <2>3. SupervisorTyped
    BY Zenon, <2>2 DEF SInv, Typed, Bounded, SupervisorTyped
  <2>. QED  BY Zenon, <2>1, <2>3 DEF SupervisorIsSound
<1>. QED  BY <1>1, SupervisorInvariant, NeverTwoGenerations, PTL

=============================================================================
