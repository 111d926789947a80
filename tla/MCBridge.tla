------------------------------ MODULE MCBridge ------------------------------
(***************************************************************************)
(* Parts of the bridge that share no state, one per behaviour: a journal   *)
(* through crashes and restarts (Journal: three digests, two callers), and *)
(* ingress with the shutdown (Shutdown: the readers of two subjects        *)
(* compete for the FIFO, one message can be stored, one is invalid, and    *)
(* one of the node's own meets a full subscription buffer).                *)
(***************************************************************************)
EXTENDS Journal, Shutdown, TLC

CONSTANTS s1, s2, m1, m2, m3

VARIABLE topic   \* the part that runs

At(s, k) == [subject |-> s, kind |-> k]
MCRoute == (m1 :> At(s1, "valid") @@ m2 :> At(s2, "invalid")
            @@ m3 :> At(s1, "own"))

parts == <<topic, vars, shutdownVars>>

BridgeInit == topic \in {"journal", "shutdown"} /\ Init /\ ShutdownInit

\* A bridge that is shut down stays so; a journal can always go on.
Rests == stage = "done" /\ UNCHANGED parts

BridgeNext ==
  \/ topic = "journal" /\ Next /\ UNCHANGED <<topic, shutdownVars>>
  \/ topic = "shutdown" /\ ShutdownNext /\ UNCHANGED <<topic, vars>>
  \/ Rests

\* The journal's worker thread runs.  The fairness of Shutdown asks nothing before
\* shutdown begins.
BridgeSpec ==
  /\ BridgeInit /\ [][BridgeNext]_parts
  /\ WF_vars(topic = "journal" /\ WorkerStep) /\ ShutdownFairness
=============================================================================
