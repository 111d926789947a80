----------------------------- MODULE Supervisor -----------------------------
(***************************************************************************)
(* The client supervisor of the NATS bridge (runtime.rs): the event        *)
(* callback of the NATS client, the lifecycle watch it writes, the         *)
(* supervisor loop that builds subscription generations and proves them    *)
(* with a broker round trip, and the readiness both of them change.        *)
(*                                                                         *)
(* Callback and supervisor run concurrently; they meet only in the watch,  *)
(* in readiness and in the transition lock, under which an event is        *)
(* applied and a finished round trip is committed.  The client library is  *)
(* external: it reconnects for ever and posts its events with try_send.    *)
(***************************************************************************)
EXTENDS Integers, Sequences, FiniteSets

CONSTANTS
  EventCap,     \* the client's event queue; a full queue loses the event
  SignalCap,    \* SUPERVISOR_SIGNAL_CAPACITY
  MaxDrops,     \* bound: lost connections
  MaxErrors,    \* bound: client and server errors, and round trips that time out
  MaxEnds       \* bound: generations whose subscriptions end

ASSUME SupervisorBounds ==
  EventCap \in Nat /\ SignalCap \in Nat /\ MaxDrops \in Nat /\ MaxErrors \in Nat /\ MaxEnds \in Nat

VARIABLES
  net,        \* the client holds a connection
  conn,       \* how many connections it has made
  events,     \* its event queue
  life,       \* LifecycleSnapshot
  changed,    \* the watch holds a value the supervisor has not seen
  rdy,        \* BridgeStatus: accepting, connected, all subjects established
  loop,         \* supervisor: "select", "connected", "rebuild" or "stopped"
  heard,      \* the snapshot it works on across awaits
  handled,    \* handled_connection_epoch, handled_invalidation_epoch
  gen,        \* id of the current generation, 0 for none
  nextGen,    \* next_generation_id
  serving,    \* generations with subscriptions and a reading task
  ended,      \* generations whose reader ended and has yet to send its signal
  signals,    \* GenerationEnded signals
  barrier,    \* the broker round trip: its state and its tags
  confirmed,  \* history: tags of the last commit, and the connection it ran on
  used        \* bounds used up

client == <<net, conn, events>>
watch == <<life, changed>>
readers == <<serving, ended, signals>>
supervisorVars == <<client, watch, rdy, loop, heard, handled, gen, nextGen, readers, barrier,
          confirmed, used>>

NoBarrier == [st |-> "none", conn |-> 0, inval |-> 0, gen |-> 0, on |-> 0]
Quiet == [seq |-> 0, conn |-> 0, inval |-> 0, connected |-> FALSE,
          connSeq |-> 0, invalSeq |-> 0]

SupervisorInit ==
  /\ net = FALSE /\ conn = 0 /\ events = <<>>
  /\ life = Quiet /\ changed = FALSE
  /\ rdy = [accepting |-> TRUE, connected |-> FALSE, established |-> FALSE]
  /\ loop = "select" /\ heard = Quiet /\ handled = [conn |-> 0, inval |-> 0]
  /\ gen = 0 /\ nextGen = 1 /\ serving = {} /\ ended = {} /\ signals = <<>>
  /\ barrier = NoBarrier /\ confirmed = NoBarrier
  /\ used = [drops |-> 0, errors |-> 0, ends |-> 0]

Spend(b, max) == used[b] < max /\ used' = [used EXCEPT ![b] = @ + 1]

-----------------------------------------------------------------------------
(***************************************************************************)
(* The client library.                                                     *)
(***************************************************************************)
Post(e) == events' = IF Len(events) < EventCap THEN Append(events, e) ELSE events

Connect ==
  /\ ~net /\ loop # "stopped"
  /\ net' = TRUE /\ conn' = conn + 1
  /\ Post("Connected")
  /\ UNCHANGED <<watch, rdy, loop, heard, handled, gen, nextGen, readers, barrier,
                 confirmed, used>>

Disconnect ==
  /\ net /\ Spend("drops", MaxDrops)
  /\ net' = FALSE
  /\ Post("Disconnected")
  /\ UNCHANGED <<conn, watch, rdy, loop, heard, handled, gen, nextGen, readers,
                 barrier, confirmed>>

ClientError ==
  /\ Spend("errors", MaxErrors)
  /\ Post("Error")
  /\ UNCHANGED <<net, conn, watch, rdy, loop, heard, handled, gen, nextGen, readers,
                 barrier, confirmed>>

\* broker_round_trip: an answer shows that the broker has seen what was sent
\* before on the same connection, every SUB of the generation included.
BarrierAnswered ==
  /\ barrier.st = "flying" /\ net
  /\ barrier' = [barrier EXCEPT !.st = "ok", !.on = conn]
  /\ UNCHANGED <<client, watch, rdy, loop, heard, handled, gen, nextGen, readers,
                 confirmed, used>>

BarrierTimesOut ==
  /\ barrier.st = "flying"
  /\ IF net THEN Spend("errors", MaxErrors) ELSE UNCHANGED used
  /\ barrier' = [barrier EXCEPT !.st = "failed"]
  /\ UNCHANGED <<client, watch, rdy, loop, heard, handled, gen, nextGen, readers,
                 confirmed>>

-----------------------------------------------------------------------------
(***************************************************************************)
(* LifecycleControl::delivered, called by the event callback.              *)
(***************************************************************************)
\* Wrong on purpose: a disconnect leaves the subjects established.
ReadinessAfterKept(e) ==
  CASE e = "Connected"    -> [rdy EXCEPT !.connected = TRUE]
    [] e = "Disconnected" -> [rdy EXCEPT !.connected = FALSE]
    [] e = "Error"        -> [rdy EXCEPT !.established = FALSE]

ReadinessAfter(e) ==
  CASE e = "Connected"    -> [rdy EXCEPT !.connected = TRUE]
    [] e = "Disconnected" -> [rdy EXCEPT !.connected = FALSE, !.established = FALSE]
    [] e = "Error"        -> [rdy EXCEPT !.established = FALSE]

LifeAfter(e) ==
  LET n == life.seq + 1 IN
  CASE e = "Connected"    -> [life EXCEPT !.seq = n, !.conn = @ + 1,
                                          !.connected = TRUE, !.connSeq = n]
    [] e = "Disconnected" -> [life EXCEPT !.seq = n, !.inval = @ + 1,
                                          !.connected = FALSE, !.invalSeq = n]
    [] e = "Error"        -> [life EXCEPT !.seq = n, !.inval = @ + 1, !.invalSeq = n]

Delivered ==
  /\ events # <<>>
  /\ events' = Tail(events)
  /\ rdy' = ReadinessAfter(Head(events))
  /\ life' = LifeAfter(Head(events))
  /\ changed' = TRUE
  /\ UNCHANGED <<net, conn, loop, heard, handled, gen, nextGen, readers, barrier,
                 confirmed, used>>

-----------------------------------------------------------------------------
(***************************************************************************)
(* Subscription generations: the readers of one generation end together,   *)
(* and their task then sends one signal, waiting for room.                 *)
(***************************************************************************)
GenerationEnds(g) ==
  /\ g \in serving /\ Spend("ends", MaxEnds)
  /\ serving' = serving \ {g} /\ ended' = ended \cup {g}
  /\ UNCHANGED <<client, watch, rdy, loop, heard, handled, gen, nextGen, signals,
                 barrier, confirmed>>

SendSignal(g) ==
  /\ g \in ended /\ Len(signals) < SignalCap
  /\ ended' = ended \ {g} /\ signals' = Append(signals, g)
  /\ UNCHANGED <<client, watch, rdy, loop, heard, handled, gen, nextGen, serving,
                 barrier, confirmed, used>>

\* build_subscription_generation: every subject or none.
Build ==
  /\ nextGen' = nextGen + 1
  /\ \/ gen' = nextGen /\ serving' = serving \cup {nextGen} /\ UNCHANGED used
     \/ gen' = 0 /\ Spend("errors", MaxErrors) /\ UNCHANGED serving

\* barrier_allowed_after_latest_delivery
BarrierAllowed(l) == l.connected /\ l.connSeq > l.invalSeq

\* Wrong on purpose: a round trip is started without a generation.
StartBarrierAlways(l, g) ==
  [st |-> "flying", conn |-> l.conn, inval |-> l.inval, gen |-> g, on |-> 0]

StartBarrier(l, g) ==
  IF g = 0 THEN NoBarrier
  ELSE [st |-> "flying", conn |-> l.conn, inval |-> l.inval, gen |-> g, on |-> 0]

\* The two callers that have just built or kept a generation.
MaybeStartBarrier(l) ==
  barrier' = IF BarrierAllowed(l) THEN StartBarrier(l, gen') ELSE barrier

-----------------------------------------------------------------------------
(***************************************************************************)
(* run_client_supervisor: the arms of its select!.                         *)
(***************************************************************************)
\* The lifecycle arm up to the awaits of a new connection: only the latest
\* snapshot is seen, and it is the one the rest of the arm uses.
LifecycleChanged ==
  /\ loop = "select" /\ changed
  /\ changed' = FALSE /\ heard' = life
  /\ handled' = [conn |-> life.conn, inval |-> life.inval]
  /\ barrier' = IF life.inval # handled.inval THEN NoBarrier ELSE barrier
  /\ loop' = IF life.conn # handled.conn THEN "connected" ELSE "select"
  /\ UNCHANGED <<client, life, rdy, gen, nextGen, readers, confirmed, used>>

\* Wrong on purpose: every connection builds its subscriptions anew.
ConnectedAlwaysBuilds ==
  /\ loop = "connected"
  /\ Build
  /\ MaybeStartBarrier(heard)
  /\ loop' = "select"
  /\ UNCHANGED <<client, watch, rdy, heard, handled, ended, signals, confirmed>>

\* connected_generation_action: BuildAll, or FlushRetained.
Connected ==
  /\ loop = "connected"
  /\ IF gen = 0 THEN Build ELSE UNCHANGED <<gen, nextGen, serving, used>>
  /\ MaybeStartBarrier(heard)
  /\ loop' = "select"
  /\ UNCHANGED <<client, watch, rdy, heard, handled, ended, signals, confirmed>>

\* Wrong on purpose: the ended generation is only removed.
SignalRemoves ==
  /\ loop = "select" /\ signals # <<>>
  /\ signals' = Tail(signals)
  /\ rdy' = [rdy EXCEPT !.established = FALSE]
  /\ barrier' = NoBarrier
  /\ gen' = 0 /\ serving' = serving \ {gen}
  /\ UNCHANGED <<client, watch, loop, heard, handled, nextGen, ended, confirmed, used>>

\* ended_generation_action: a signal of another generation is ignored; the
\* current one is removed, and replaced if there is a connection.
Signal ==
  /\ loop = "select" /\ signals # <<>>
  /\ signals' = Tail(signals)
  /\ IF Head(signals) = gen
     THEN /\ rdy' = [rdy EXCEPT !.established = FALSE]
          /\ barrier' = NoBarrier
          /\ gen' = 0 /\ serving' = serving \ {gen}
          /\ loop' = IF rdy.connected THEN "rebuild" ELSE "select"
     ELSE UNCHANGED <<rdy, barrier, gen, serving, loop>>
  /\ UNCHANGED <<client, watch, heard, handled, nextGen, ended, confirmed, used>>

Rebuild ==
  /\ loop = "rebuild"
  /\ Build
  /\ MaybeStartBarrier(life)
  /\ loop' = "select"
  /\ UNCHANGED <<client, watch, rdy, heard, handled, ended, signals, confirmed>>

\* Wrong on purpose: an error since the round trip started is not noticed.
TagsMatchConnection(b) == life.connected /\ life.conn = b.conn /\ gen = b.gen

\* barrier_tags_match
TagsMatch(b) == /\ life.connected
                /\ life.conn = b.conn /\ life.inval = b.inval
                /\ gen = b.gen

\* wait_for_barrier and commit_barrier, under the transition lock.  The scan a
\* commit asks for is LinkUp of Delivery.tla.
BarrierDone ==
  /\ loop = "select" /\ barrier.st \in {"ok", "failed"}
  /\ barrier' = NoBarrier
  /\ IF barrier.st = "ok" /\ TagsMatch(barrier)
     THEN /\ rdy' = [rdy EXCEPT !.established = TRUE]
          /\ confirmed' = barrier
     ELSE UNCHANGED <<rdy, confirmed>>
  /\ UNCHANGED <<client, watch, loop, heard, handled, gen, nextGen, readers, used>>

BeginShutdown ==
  /\ rdy.accepting
  /\ rdy' = [rdy EXCEPT !.accepting = FALSE]
  /\ UNCHANGED <<client, watch, loop, heard, handled, gen, nextGen, readers, barrier,
                 confirmed, used>>

\* The shutdown arm: round trip and generation are stopped, the client is
\* flushed and drained.
Shutdown ==
  /\ loop = "select" /\ ~rdy.accepting
  /\ barrier' = NoBarrier /\ gen' = 0 /\ serving' = serving \ {gen}
  /\ ended' = ended \ {gen}
  /\ loop' = "stopped"
  /\ UNCHANGED <<client, watch, rdy, heard, handled, nextGen, signals, confirmed,
                 used>>

-----------------------------------------------------------------------------
SupervisorStep == \/ LifecycleChanged \/ Connected \/ Signal
                  \/ Rebuild \/ BarrierDone \/ Shutdown

SupervisorNext ==
  \/ Connect \/ Disconnect \/ ClientError
  \/ BarrierAnswered \/ BarrierTimesOut \/ Delivered
  \/ \E g \in serving : GenerationEnds(g)
  \/ \E g \in ended : SendSignal(g)
  \/ SupervisorStep \/ BeginShutdown

SupervisorSpec == SupervisorInit /\ [][SupervisorNext]_supervisorVars

-----------------------------------------------------------------------------
Events == {"Connected", "Disconnected", "Error"}
Snapshots == [seq : Nat, conn : Nat, inval : Nat, connected : BOOLEAN,
              connSeq : Nat, invalSeq : Nat]
Barriers == {NoBarrier} \cup
            [st : {"flying", "ok", "failed"}, conn : Nat, inval : Nat,
             gen : Nat \ {0}, on : Nat]

\* Types, the two bounded queues, and a round trip always for a generation.
SupervisorTyped ==
  /\ net \in BOOLEAN /\ conn \in Nat
  /\ events \in Seq(Events) /\ Len(events) <= EventCap
  /\ life \in Snapshots /\ heard \in Snapshots /\ changed \in BOOLEAN
  /\ rdy \in [accepting : BOOLEAN, connected : BOOLEAN, established : BOOLEAN]
  /\ loop \in {"select", "connected", "rebuild", "stopped"}
  /\ handled \in [conn : Nat, inval : Nat]
  /\ gen \in Nat /\ nextGen \in Nat \ {0}
  /\ serving \subseteq Nat /\ ended \subseteq Nat
  /\ signals \in Seq(Nat) /\ Len(signals) <= SignalCap
  /\ barrier \in Barriers /\ confirmed \in Barriers
  /\ used \in [drops : 0..MaxDrops, errors : 0..MaxErrors, ends : 0..MaxEnds]

\* Whenever the subjects count as established, they were confirmed by a round
\* trip for the connection and invalidation epochs of now and for the
\* generation of now: no late answer survives an event (runtime.rs,
\* commit_barrier).
ReadyIsCurrent ==
  rdy.established /\ loop # "stopped" =>
    /\ confirmed.conn = life.conn /\ confirmed.inval = life.inval
    /\ confirmed.gen = gen

\* Once the callback has caught up, established means: there is a connection,
\* and the round trip was answered on that very connection
\* (CONFIGURATION.md: established only after the post-subscription round trip).
ReadyIsConfirmed ==
  rdy.established /\ rdy.connected /\ events = <<>> =>
    net /\ confirmed.on = conn

\* Never two generations of subscriptions at a time: each message of a mapped
\* subject is read once (runtime.rs, connected_generation_action).
OneGeneration == Cardinality(serving) <= 1

\* The state has its type; never two generations of subscriptions read at a time; and
\* whenever the subjects count as established, a round trip confirmed them for the
\* connection, the invalidation and the generation of now (runtime.rs,
\* run_client_supervisor and commit_barrier).
SupervisorIsSound == SupervisorTyped /\ OneGeneration /\ ReadyIsCurrent

\* The bridge is ready, or it is shut down, or an error or a timed-out round trip
\* left it to wait for the next connection, of which nothing is claimed.
ReadyOrExcused ==
  (rdy.connected /\ rdy.established) \/ ~rdy.accepting \/ used.errors > 0
=============================================================================
