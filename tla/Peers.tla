------------------------------- MODULE Peers -------------------------------
(***************************************************************************)
(* Whom a node is connected to (node.rs).  The operator connects and       *)
(* disconnects peers, the watchdog dials registered peers again whose      *)
(* connection was lost, and the mDNS and Kubernetes watchers dial peers    *)
(* they discover; links come and go.  All of them share the connections of *)
(* the transport, and the first three the registry of peers.  A dial       *)
(* (dial_and_attach with its three attempts) takes time, in which all the  *)
(* others move; it succeeds if the peer can be reached when it ends, and   *)
(* then attaches the peer in two steps.  A peer may also dial in, which    *)
(* the transport's accept loop (external) answers.                         *)
(***************************************************************************)
EXTENDS Naturals, FiniteSets

CONSTANTS
  Self, Peers,
  Announced,   \* peers that discovery tells of; of itself, too
  MaxAddrs,    \* addresses of a discovered peer
  BackoffMin,  \* RECONNECT_BACKOFF_MIN
  BackoffMax,  \* RECONNECT_BACKOFF_MAX
  MaxFlaps,    \* bound on changes of the links
  MaxCalls     \* bound on calls of the operator

ASSUME PeersConstants ==
  /\ Self \notin Peers /\ Announced \subseteq Peers \cup {Self}
  /\ MaxAddrs \in Nat \ {0} /\ MaxFlaps \in Nat /\ MaxCalls \in Nat
  /\ BackoffMin \in Nat \ {0} /\ BackoffMax \in Nat /\ BackoffMin <= BackoffMax

Finders == {"mdns", "k8s"}

VARIABLES
  reachable,   \* peers a dial would reach
  flaps,
  connected,   \* the transport's connected peers
  accepted,    \* those of them whose last connection the peer opened (history)
  known,       \* the blob store's known peers
  registered,  \* registered_peers: the backoff, and whether next_attempt has passed
  caller,      \* ConnectPeer in progress
  closer,      \* DisconnectPeer in progress
  calls,
  dog,         \* the watchdog: the rest of the list it found dead
  redialled,   \* the peer of that list that it has connected but not yet added, or Self
  finder,      \* the discovery watchers: the peer they dial and the addresses left, 0
               \* for one that is connected but not yet added
  banned,      \* auth_failed of the mDNS watcher
  late         \* peers disconnected while a dial of them was under way (history)

world == <<reachable, flaps>>
links == <<connected, accepted, known>>
watchdog == <<dog, redialled>>
operator == <<caller, closer, calls>>
peersVars == <<world, links, registered, operator, watchdog, finder, banned, late>>

None == [backoff |-> 0, due |-> FALSE]
Registered == {p \in Peers : registered[p] # None}
Registration == [backoff |-> BackoffMin, due |-> TRUE]
NoDial == [peer |-> Self, left |-> 0]

PeersInit ==
  /\ reachable = Peers /\ flaps = 0 /\ connected = {} /\ accepted = {} /\ known = {}
  /\ registered = [p \in Peers |-> None]
  /\ caller = [pc |-> "idle", peer |-> Self] /\ closer = [pc |-> "idle", peer |-> Self]
  /\ calls = 0 /\ dog = {} /\ redialled = Self /\ finder = [w \in Finders |-> NoDial]
  /\ banned = {} /\ late = {}

Ends(p) == connected' = connected \ {p} /\ accepted' = accepted \ {p}

\* The links of a peer fail, which ends its connection, or come back.
LinkChanges(p) ==
  /\ flaps < MaxFlaps /\ flaps' = flaps + 1
  /\ \/ p \in reachable /\ reachable' = reachable \ {p} /\ Ends(p)
     \/ p \notin reachable /\ reachable' = reachable \cup {p} /\ UNCHANGED <<connected, accepted>>
  /\ UNCHANGED <<known, registered, operator, watchdog, finder, banned, late>>

\* An idle timeout.
Drop(p) ==
  /\ flaps < MaxFlaps /\ flaps' = flaps + 1
  /\ p \in connected /\ Ends(p)
  /\ UNCHANGED <<reachable, known, registered, operator, watchdog, finder, banned, late>>

\* A peer dials in: it is connected, but neither registered nor added.
Accept(p) ==
  /\ p \in reachable \ connected
  /\ connected' = connected \cup {p} /\ accepted' = accepted \cup {p}
  /\ UNCHANGED <<world, known, registered, operator, watchdog, finder, banned, late>>

\* dial_and_attach that succeeds: start_sync_connection, and after it AddPeer.
Attach(p) ==
  /\ p \in reachable /\ connected' = connected \cup {p} /\ accepted' = accepted \ {p}
  /\ UNCHANGED known

\* add_peer of the blob store, and reset_peer_health, which is not modelled.
AddPeer(p) == known' = known \cup {p} /\ UNCHANGED <<connected, accepted>>

\* Dials of a peer that are under way or decided on.
Dialling(p) ==
  \/ p \in dog \/ \E w \in Finders : finder[w].peer = p
  \/ caller.peer = p /\ caller.pc # "idle"

\* Peers that a dial has connected and is about to add.
Adding ==
  {p \in Peers : \/ caller = [pc |-> "add", peer |-> p] \/ redialled = p
                 \/ \E w \in Finders : finder[w] = [peer |-> p, left |-> 0]}

-----------------------------------------------------------------------------
(***************************************************************************)
(* The operator.                                                           *)
(***************************************************************************)
\* connect_peer with a good endpoint id and an address; anything else is refused.
ConnectPeer(p) ==
  /\ caller.pc = "idle" /\ calls < MaxCalls /\ calls' = calls + 1
  /\ caller' = [pc |-> "dial", peer |-> p]
  /\ UNCHANGED <<world, links, registered, closer, watchdog, finder, banned, late>>

\* Wrong on purpose: the peer is registered before it is dialled.
ConnectDialsLate ==
  /\ caller.pc = "dial"
  /\ \/ Attach(caller.peer) /\ caller' = [caller EXCEPT !.pc = "add"] /\ UNCHANGED registered
     \/ /\ caller.peer \notin reachable /\ caller' = [pc |-> "idle", peer |-> Self]
        /\ registered' = [registered EXCEPT ![caller.peer] = Registration]
        /\ UNCHANGED links
  /\ UNCHANGED <<world, closer, calls, watchdog, finder, banned, late>>

ConnectDials ==
  /\ caller.pc = "dial"
  /\ \/ Attach(caller.peer) /\ caller' = [caller EXCEPT !.pc = "add"]
     \/ /\ caller.peer \notin reachable /\ caller' = [pc |-> "idle", peer |-> Self]
        /\ UNCHANGED links
  /\ UNCHANGED <<world, registered, closer, calls, watchdog, finder, banned, late>>

ConnectAdds ==
  /\ caller.pc = "add" /\ AddPeer(caller.peer) /\ caller' = [caller EXCEPT !.pc = "insert"]
  /\ UNCHANGED <<world, registered, closer, calls, watchdog, finder, banned, late>>

ConnectRegisters ==
  /\ caller.pc = "insert" /\ caller' = [pc |-> "idle", peer |-> Self]
  /\ registered' = [registered EXCEPT ![caller.peer] = Registration]
  /\ late' = late \ {caller.peer}
  /\ UNCHANGED <<world, links, closer, calls, watchdog, finder, banned>>

Forget(p) == registered' = [registered EXCEPT ![p] = None] /\ UNCHANGED <<connected, accepted>>
Close(p) == Ends(p) /\ UNCHANGED registered

\* Wrong on purpose: the connection is closed first.
DisconnectStepSwapped(i, p) == IF i = 1 THEN Close(p) ELSE Forget(p)

\* disconnect_peer: the registration goes first, then the connection.
DisconnectStep(i, p) == IF i = 1 THEN Forget(p) ELSE Close(p)

DisconnectPeer(p) ==
  /\ closer.pc = "idle" /\ calls < MaxCalls /\ calls' = calls + 1
  /\ closer' = [pc |-> "close", peer |-> p] /\ DisconnectStep(1, p)
  /\ late' = IF Dialling(p) THEN late \cup {p} ELSE late
  /\ UNCHANGED <<world, known, caller, watchdog, finder, banned>>

DisconnectEnds ==
  /\ closer.pc = "close" /\ DisconnectStep(2, closer.peer)
  /\ closer' = [pc |-> "idle", peer |-> Self]
  /\ UNCHANGED <<world, known, caller, calls, watchdog, finder, banned, late>>

-----------------------------------------------------------------------------
(***************************************************************************)
(* The watchdog.                                                           *)
(***************************************************************************)
Elapse(p) ==
  /\ p \in Registered /\ ~registered[p].due
  /\ registered' = [registered EXCEPT ![p].due = TRUE]
  /\ UNCHANGED <<world, links, operator, watchdog, finder, banned, late>>

\* Wrong on purpose: a peer that failed often enough is given up.
DeadBelowMax(p) ==
  p \in Registered /\ p \notin connected /\ registered[p].due /\ registered[p].backoff < BackoffMax

Dead(p) == p \in Registered /\ p \notin connected /\ registered[p].due

\* A tick: the list is a copy, dialled one after the other without another look.
Tick ==
  /\ dog = {} /\ dog' = {p \in Peers : Dead(p)} /\ dog' # {}
  /\ UNCHANGED <<world, links, registered, operator, redialled, finder, banned, late>>

\* Wrong on purpose: the backoff doubles forever.
LongerUnbounded(b) == 2 * b
Longer(b) == IF 2 * b < BackoffMax THEN 2 * b ELSE BackoffMax

\* The result is noted only if the peer is still registered.
Note(p, entry) == registered' = IF p \in Registered THEN [registered EXCEPT ![p] = entry] ELSE registered

Redial(p) ==
  /\ p \in dog /\ redialled = Self
  /\ \/ Attach(p) /\ redialled' = p /\ UNCHANGED <<dog, registered>>
     \/ /\ p \notin reachable /\ dog' = dog \ {p} /\ UNCHANGED <<links, redialled>>
        /\ Note(p, [backoff |-> Longer(registered[p].backoff), due |-> FALSE])
  /\ UNCHANGED <<world, operator, finder, banned, late>>

RedialAdds ==
  /\ redialled # Self /\ AddPeer(redialled) /\ Note(redialled, Registration)
  /\ dog' = dog \ {redialled} /\ redialled' = Self
  /\ UNCHANGED <<world, operator, finder, banned, late>>

Watchdog == Tick \/ RedialAdds \/ \E p \in Peers : Redial(p)

-----------------------------------------------------------------------------
(***************************************************************************)
(* Discovery: one watcher per source, each handles one event at a time.    *)
(***************************************************************************)
\* A pod of the Kubernetes service with its n addresses; k8s_dial_decision skips
\* the node itself, pods without an address and those already connected.
K8sFound(p, n) ==
  /\ finder["k8s"] = NoDial /\ p \in Announced \ {Self} /\ n > 0 /\ p \notin connected
  /\ finder' = [finder EXCEPT !["k8s"] = [peer |-> p, left |-> n]]
  /\ UNCHANGED <<world, links, registered, operator, watchdog, banned, late>>

\* A peer of the formation announces itself with n addresses, or with the port
\* alone, which stands for one.
MdnsFound(p, n) ==
  /\ finder["mdns"] = NoDial /\ p \in Announced \ ({Self} \cup banned) /\ p \notin connected
  /\ finder' = [finder EXCEPT !["mdns"] = [peer |-> p, left |-> n]]
  /\ UNCHANGED <<world, links, registered, operator, watchdog, banned, late>>

\* Addresses are tried in turn until one answers.
Dials(w) ==
  /\ finder[w].left > 0
  /\ \/ Attach(finder[w].peer) /\ finder' = [finder EXCEPT ![w].left = 0]
     \/ /\ finder[w].peer \notin reachable /\ UNCHANGED links
        /\ finder' = [finder EXCEPT ![w] = IF @.left = 1 THEN NoDial
                                           ELSE [peer |-> @.peer, left |-> @.left - 1]]
  /\ UNCHANGED <<world, registered, operator, watchdog, late>>

K8sDials == Dials("k8s") /\ UNCHANGED banned

\* The error of every failed dial contains the word "auth", so that mdns_watcher
\* never dials the peer again.
MdnsDials ==
  /\ Dials("mdns")
  /\ banned' = banned \cup ({finder["mdns"].peer} \ reachable)

FinderAdds(w) ==
  /\ finder[w].left = 0 /\ finder[w].peer # Self /\ AddPeer(finder[w].peer)
  /\ finder' = [finder EXCEPT ![w] = NoDial]
  /\ UNCHANGED <<world, registered, operator, watchdog, banned, late>>

-----------------------------------------------------------------------------
PeersNext ==
  \/ \E p \in Peers : \/ LinkChanges(p) \/ Drop(p) \/ Accept(p)
                      \/ ConnectPeer(p) \/ DisconnectPeer(p) \/ Elapse(p)
  \/ \E p \in Peers, n \in 1..MaxAddrs : K8sFound(p, n) \/ MdnsFound(p, n)
  \/ K8sDials \/ MdnsDials \/ \E w \in Finders : FinderAdds(w)
  \/ ConnectDials \/ ConnectAdds \/ ConnectRegisters \/ DisconnectEnds \/ Watchdog

PeersSpec == PeersInit /\ [][PeersNext]_peersVars

-----------------------------------------------------------------------------
\* Type invariant; a registered peer's backoff stays between RECONNECT_BACKOFF_MIN and
\* RECONNECT_BACKOFF_MAX.
PeersTyped ==
  /\ reachable \subseteq Peers /\ connected \subseteq Peers /\ known \subseteq Peers
  /\ \A p \in Registered : registered[p] \in [backoff : BackoffMin..BackoffMax, due : BOOLEAN]
  /\ accepted \subseteq connected
  /\ dog \subseteq Peers /\ redialled \in dog \cup {Self} /\ banned \subseteq Announced
  /\ \A w \in Finders : finder[w].peer \in Peers \cup {Self} /\ finder[w].left \in 0..MaxAddrs

(***************************************************************************)
(* The watchdog only dials peers that a call has connected once: a         *)
(* registration stands for a dial that succeeded (node.rs, connect_peer:   *)
(* "AFTER the dial succeeds").  And whoever the node itself has connected  *)
(* is one that attachments can be sent to, once the dial has ended         *)
(* (dial_and_attach: "only the former was populated, which silently broke  *)
(* the attachment-delivery"); who dialled in need not be.                  *)
(***************************************************************************)
RegisteredWasReached ==
  /\ Registered \cup dog \subseteq known
  /\ connected \subseteq known \cup accepted \cup Adding

(***************************************************************************)
(* The node does not go back to a peer that the operator disconnected: it  *)
(* has a connection of its own to the peer only if the peer is registered, *)
(* a call to connect it is under way, discovery tells of it, or a dial of  *)
(* it had been decided on when the operator disconnected it (node.rs,      *)
(* disconnect_peer).                                                       *)
(***************************************************************************)
StaysDisconnected ==
  \A p \in connected \ (Announced \cup accepted) :
    p \in Registered \cup late \/ Dialling(p) \/ closer.peer = p

\* The peers that the node redials are ones it has reached, with backoffs in bounds; its
\* own connections are to peers that attachments reach, and it opens none to a peer that
\* the operator disconnected unless something still accounts for it (connect_peer,
\* disconnect_peer and the watchdog).
LinksAccountedFor == PeersTyped /\ RegisteredWasReached /\ StaysDisconnected

\* A registered peer that can be reached is connected again, unless the operator
\* disconnects it or its links fail (node.rs, the watchdog, peat-node#91).
Reconnects ==
  \A p \in Peers :
    []<>(p \in Registered \cap reachable => p \in connected)
=============================================================================
