----------------------------- MODULE MeshProofs -----------------------------
(***************************************************************************)
(* Proofs about a node's links, its relay queue and the folders it keeps   *)
(* in sync (Peers, Fanout, Files), for any peers, documents, paths and     *)
(* limits and any number of calls, faults and restarts.                    *)
(***************************************************************************)
EXTENDS Peers, Fanout, Files, WellFoundedInduction, TLAPS

LEMMA ElementOfSeq == ASSUME NEW S, NEW s \in Seq(S), NEW i \in 1..Len(s) PROVE s[i] \in S
OBVIOUS
LEMMA EmptySeq == ASSUME NEW S PROVE <<>> \in Seq(S) /\ Len(<<>>) = 0
OBVIOUS
LEMMA LenProperties ==
  ASSUME NEW S, NEW s \in Seq(S)
  PROVE  Len(s) \in Nat /\ s \in [1..Len(s) -> S] /\ DOMAIN s = 1..Len(s)
OBVIOUS
LEMMA AppendProperties ==
  ASSUME NEW S, NEW s \in Seq(S), NEW e \in S
  PROVE  /\ Append(s, e) \in Seq(S) /\ Append(s, e) # <<>> /\ Len(Append(s, e)) = Len(s) + 1
         /\ \A i \in 1..Len(s) : Append(s, e)[i] = s[i]
         /\ Append(s, e)[Len(s) + 1] = e
OBVIOUS


-----------------------------------------------------------------------------
(***************************************************************************)
(* Peers.  StaysDisconnected is not inductive: when the watchdog's dial    *)
(* ends, the peer leaves its list and must be registered or have been      *)
(* disconnected since the list was read (DogKnows); when a call's dial     *)
(* fails, the peer must not be connected by other means, which holds       *)
(* because only reachable peers are (LinksUp).                             *)
(***************************************************************************)
Entries == {None} \cup [backoff : BackoffMin..BackoffMax, due : BOOLEAN]

\* Types, also of what PeersTyped leaves to the other conjuncts.
LinksTyped ==
  /\ reachable \subseteq Peers /\ connected \subseteq Peers /\ known \subseteq Peers
  /\ accepted \subseteq connected /\ registered \in [Peers -> Entries]
  /\ dog \subseteq Peers /\ redialled \in dog \cup {Self} /\ banned \subseteq Announced
  /\ caller \in [pc : {"idle", "dial", "add", "insert"}, peer : Peers \cup {Self}]
  /\ caller.pc # "idle" => caller.peer \in Peers
  /\ closer \in [pc : {"idle", "close"}, peer : Peers \cup {Self}]
  /\ closer.pc = "idle" => closer.peer = Self
  /\ finder \in [Finders -> [peer : (Announced \cap Peers) \cup {Self}, left : 0..MaxAddrs]]
  /\ \A w \in Finders : finder[w].peer = Self => finder[w] = NoDial

\* Only peers that can be reached are connected.
LinksUp == connected \subseteq reachable

\* What the watchdog is about to dial is registered, or was disconnected since.
DogKnows == dog \subseteq Registered \cup late

\* A call about to register its peer has reached it.
InsertReached == caller.pc = "insert" => caller.peer \in known

LinksInv ==
  /\ LinksTyped /\ LinksUp /\ DogKnows /\ InsertReached
  /\ RegisteredWasReached /\ StaysDisconnected

-----------------------------------------------------------------------------
\* A backoff that doubles stays within its bounds (the watchdog).
LEMMA LongerBounded ==
  ASSUME NEW b \in BackoffMin..BackoffMax
  PROVE  Longer(b) \in BackoffMin..BackoffMax
BY PeersConstants DEF Longer

LEMMA InitAccounts == PeersInit => LinksInv
BY PeersConstants
  DEF PeersInit, LinksInv, LinksTyped, LinksUp, DogKnows, InsertReached, RegisteredWasReached,
      StaysDisconnected, Registered, Entries, None, NoDial, Finders

\* An entry is a registration exactly if it is not None.
LEMMA RegistrationIsEntry ==
  /\ None \in Entries /\ Registration \in Entries /\ Registration # None
  /\ \A e \in Entries \ {None} : e \in [backoff : BackoffMin..BackoffMax, due : BOOLEAN]
BY PeersConstants DEF Entries, None, Registration

LEMMA NextAccounts == LinksInv /\ [PeersNext]_peersVars => LinksInv'
<1>. SUFFICES ASSUME LinksInv, [PeersNext]_peersVars PROVE LinksInv'
  BY Zenon
<1>. USE PeersConstants DEF LinksInv, LinksTyped, LinksUp, DogKnows, InsertReached,
       RegisteredWasReached, StaysDisconnected, Registered, Dialling, Adding
<1>1. ASSUME NEW p \in Peers, LinkChanges(p) PROVE LinksInv'
  BY ZenonT(60), <1>1 DEF LinkChanges, Ends, operator, watchdog
<1>2. ASSUME NEW p \in Peers, Drop(p) PROVE LinksInv'
  BY ZenonT(60), <1>2 DEF Drop, Ends, operator, watchdog
<1>16. ASSUME NEW p \in Peers, Accept(p) PROVE LinksInv'
  BY ZenonT(60), <1>16 DEF Accept, world, operator, watchdog
<1>3. ASSUME NEW p \in Peers, ConnectPeer(p) PROVE LinksInv'
  BY SMTT(60), <1>3 DEF ConnectPeer, world, links, watchdog
<1>4. ASSUME NEW p \in Peers, DisconnectPeer(p) PROVE LinksInv'
  <2>1. registered' \in [Peers -> Entries]
    BY <1>4, RegistrationIsEntry DEF DisconnectPeer, DisconnectStep, Forget
  <2>. QED  BY <1>4, <2>1 DEF DisconnectPeer, DisconnectStep, Forget, world, watchdog
<1>5. ASSUME NEW p \in Peers, Elapse(p) PROVE LinksInv'
  <2>1. registered' \in [Peers -> Entries] /\ registered'[p] # None
    <3>1. registered[p] \in [backoff : BackoffMin..BackoffMax, due : BOOLEAN]
      BY Zenon, <1>5, RegistrationIsEntry DEF Elapse
    <3>2. [registered[p] EXCEPT !.due = TRUE] \in Entries \ {None}
      BY ZenonT(60), <3>1 DEF Entries, None
    <3>. QED  BY ZenonT(60), <1>5, <3>2 DEF Elapse
  <2>2. Registered' = Registered
    BY Zenon, <1>5, <2>1 DEF Elapse
  <2>. QED  BY SMTT(60), <1>5, <2>1, <2>2 DEF Elapse, world, links, operator, watchdog
<1>6. ASSUME NEW p \in Peers, Redial(p) PROVE LinksInv'
  <2>1. CASE Attach(p) /\ redialled' = p /\ UNCHANGED <<dog, registered>>
    BY <1>6, <2>1 DEF Redial, Attach, world, operator
  <2>2. CASE /\ p \notin reachable /\ dog' = dog \ {p} /\ UNCHANGED <<links, redialled>>
             /\ Note(p, [backoff |-> Longer(registered[p].backoff), due |-> FALSE])
    <3>1. registered' \in [Peers -> Entries] /\ Registered' = Registered
      <4>1. CASE p \notin Registered
        BY Zenon, <2>2, <4>1 DEF Note
      <4>2. CASE p \in Registered
        <5>1. registered[p].backoff \in BackoffMin..BackoffMax
          BY <4>2, RegistrationIsEntry
        <5>2. Longer(registered[p].backoff) \in BackoffMin..BackoffMax
          BY Zenon, <5>1, LongerBounded
        <5>3. [backoff |-> Longer(registered[p].backoff), due |-> FALSE] \in Entries \ {None}
          BY SMTT(60), <5>2 DEF Entries, None
        <5>. QED  BY <2>2, <4>2, <5>3 DEF Note
      <4>. QED  BY Zenon, <4>1, <4>2
    <3>2. redialled' = Self
      BY Zenon, <1>6, <2>2 DEF Redial
    <3>. QED  BY ZenonT(60), <1>6, <2>2, <3>1, <3>2 DEF Redial, world, links, operator
  <2>. QED  BY <1>6, <2>1, <2>2, Zenon DEF Redial
<1>17. CASE RedialAdds
  <2>1. registered' \in [Peers -> Entries] /\ Registered' = Registered
    BY <1>17, RegistrationIsEntry DEF RedialAdds, Note
  <2>. QED  BY ZenonT(60), <1>17, <2>1 DEF RedialAdds, AddPeer, world, operator
<1>7. ASSUME NEW p \in Peers, NEW n \in 1..MaxAddrs, K8sFound(p, n) PROVE LinksInv'
  BY SMTT(60), <1>7 DEF K8sFound, world, links, operator, watchdog, Finders, NoDial
<1>8. ASSUME NEW p \in Peers, NEW n \in 1..MaxAddrs, MdnsFound(p, n) PROVE LinksInv'
  BY SMTT(60), <1>8 DEF MdnsFound, world, links, operator, watchdog, Finders, NoDial
<1>9. ASSUME NEW w \in Finders, Dials(w), banned' \subseteq Announced PROVE LinksInv'
  <2>1. /\ finder[w].left \in 1..MaxAddrs /\ finder[w].peer \in Announced \cap Peers
        /\ finder[w] = [peer |-> finder[w].peer, left |-> finder[w].left]
    BY <1>9 DEF Dials, NoDial
  <2>2. \/ /\ UNCHANGED links /\ finder' = [finder EXCEPT ![w] = NoDial]
        \/ /\ Attach(finder[w].peer)
           /\ finder' = [finder EXCEPT ![w] = [peer |-> finder[w].peer, left |-> 0]]
        \/ /\ finder[w].left - 1 \in 1..MaxAddrs /\ UNCHANGED links
           /\ finder' = [finder EXCEPT ![w] = [peer |-> finder[w].peer, left |-> finder[w].left - 1]]
    <3>1. finder[w].left # 1 => finder[w].left - 1 \in 1..MaxAddrs
      BY <2>1
    <3>2. [finder[w] EXCEPT !.left = 0] = [peer |-> finder[w].peer, left |-> 0]
      BY <2>1
    <3>. QED  BY Zenon, <1>9, <3>1, <3>2 DEF Dials
  <2>3. /\ finder' \in [Finders -> [peer : (Announced \cap Peers) \cup {Self}, left : 0..MaxAddrs]]
        /\ \A v \in Finders : finder'[v].peer = Self => finder'[v] = NoDial
    BY SMTT(60), <2>1, <2>2 DEF NoDial
  <2>4. \A q \in Peers \ Announced : Dialling(q)' <=> Dialling(q)
    BY <1>9, <2>3 DEF Dials, operator, watchdog
  <2>7. ASSUME NEW q \in Peers, q \in Adding PROVE q \in Adding'
    <3>1. \A v \in Finders \ {w} : finder'[v] = finder[v]
      BY <2>2
    <3>2. finder[w] # [peer |-> q, left |-> 0]
      BY <2>1
    <3>3. CASE \E v \in Finders : finder[v] = [peer |-> q, left |-> 0]
      <4>1. PICK v \in Finders : finder[v] = [peer |-> q, left |-> 0]
        BY Zenon, <3>3
      <4>2. finder'[v] = [peer |-> q, left |-> 0]
        BY Zenon, <3>1, <3>2, <4>1
      <4>. QED  BY Zenon, <4>2
    <3>4. CASE caller = [pc |-> "add", peer |-> q] \/ redialled = q
      BY Zenon, <1>9, <3>4 DEF Dials, operator, watchdog
    <3>. QED  BY <2>7, <3>3, <3>4
  <2>5. CASE Attach(finder[w].peer) /\ finder' = [finder EXCEPT ![w] = [peer |-> finder[w].peer, left |-> 0]]
    <3>1. finder[w].peer \in Adding'
      <4>1. finder'[w] = [peer |-> finder[w].peer, left |-> 0]
        BY <2>5
      <4>2. finder[w].peer \in Peers
        BY <2>1
      <4>. QED  BY ZenonT(60), <4>1, <4>2
    <3>. QED  BY <1>9, <2>1, <2>3, <2>4, <2>5, <2>7, <3>1 DEF Dials, Attach, world, operator, watchdog
  <2>6. CASE UNCHANGED links
    BY ZenonT(60), <1>9, <2>3, <2>4, <2>6, <2>7 DEF Dials, world, links, operator, watchdog
  <2>. QED  BY <2>2, <2>5, <2>6, Zenon
<1>10. CASE K8sDials \/ MdnsDials
  <2>1. CASE K8sDials
    BY Zenon, <1>9, <2>1 DEF K8sDials, Finders
  <2>2. CASE MdnsDials
    <3>1. finder["mdns"].peer \in Announced
      BY <2>2 DEF MdnsDials, Dials, Finders, NoDial
    <3>. QED  BY Zenon, <1>9, <2>2, <3>1 DEF MdnsDials, Finders
  <2>. QED  BY Zenon, <1>10, <2>1, <2>2
<1>18. ASSUME NEW w \in Finders, FinderAdds(w) PROVE LinksInv'
  BY SMTT(60), <1>18 DEF FinderAdds, AddPeer, world, operator, watchdog, NoDial
<1>11. CASE ConnectDials
  BY SMTT(60), <1>11 DEF ConnectDials, Attach, world, links, watchdog
<1>19. CASE ConnectAdds
  BY SMTT(60), <1>19 DEF ConnectAdds, AddPeer, world, watchdog
<1>12. CASE ConnectRegisters
  BY SMTT(60), <1>12, RegistrationIsEntry DEF ConnectRegisters, world, links, watchdog
<1>13. CASE DisconnectEnds
  BY <1>13 DEF DisconnectEnds, DisconnectStep, Close, Ends, world, watchdog
<1>14. CASE Tick
  BY Zenon, <1>14 DEF Tick, Dead, world, links, operator
<1>15. CASE UNCHANGED peersVars
  BY Zenon, <1>15 DEF peersVars, world, links, operator, watchdog
<1>. QED
  BY ZenonT(60), <1>1, <1>2, <1>3, <1>4, <1>5, <1>6, <1>7, <1>8, <1>10, <1>11, <1>12, <1>13,
     <1>14, <1>15, <1>16, <1>17, <1>18, <1>19, Zenon DEF PeersNext, Watchdog

(***************************************************************************)
(* The links of a node are accounted for, whatever calls, redials,         *)
(* discovery, peers that dial in and failing links interleave: what is     *)
(* registered was reached, what the node connected itself is known to the  *)
(* blob store once the dial has ended, backoffs stay within                *)
(* RECONNECT_BACKOFF_MIN and MAX, and the node goes back to a peer that    *)
(* disconnect_peer removed only through a dial that was under way, a new   *)
(* call, or discovery.                                                     *)
(***************************************************************************)
THEOREM LinksAlwaysAccountedFor == PeersSpec => []LinksAccountedFor
<1>1. LinksInv => LinksAccountedFor
  BY Zenon, PeersConstants, RegistrationIsEntry
    DEF LinksInv, LinksTyped, LinksAccountedFor, PeersTyped, Registered, Finders
<1>. QED  BY <1>1, InitAccounts, NextAccounts, PTL DEF PeersSpec

-----------------------------------------------------------------------------
(***************************************************************************)
(* Files.  What makes InboxIsWhole inductive is that documents and         *)
(* versions are never taken back (Documented) and that the temporary file  *)
(* belongs to the document that is being delivered (Copied), whatever its  *)
(* length.                                                                 *)
(***************************************************************************)
Lens == Sizes \cup {n - 1 : n \in Sizes} \cup {0}
Content == [ver : Nat, len : Lens]
Doc == [path : Paths, ver : Nat]

BoxTyped ==
  /\ size \in Seq(Sizes) /\ dists \in Seq(Doc)
  /\ outbox \in [Paths -> 0..Len(size)]
  /\ poll \in [pc : {"sleep", "decide", "hash", "send"}, found : [Paths -> Nat],
               todo : SUBSET Paths, path : Paths \cup {Nothing}, hash : Nat]
  /\ inbox \in [Paths -> Content]
  /\ recv \in [pc : {"sweep", "copied", "ended"}, handled : SUBSET Nat, dist : Nat,
               tmp : Content, target : {Nothing, 1}]

\* The watcher is at a file, and what it has hashed is a version.
AtFile == /\ poll.pc \in {"hash", "send"} => poll.path \in Paths
          /\ poll.pc = "send" => poll.hash # Nothing

\* Every document is of a version that was written.
Documented == \A d \in 1..Len(dists) : dists[d].ver \in 1..Len(size)

\* The temporary file holds content of the document it is for.
Copied == recv.pc = "copied" => /\ recv.dist \in 1..Len(dists)
                                /\ recv.tmp.ver = dists[recv.dist].ver

Published(p, c) == \E d \in 1..Len(dists) : /\ dists[d] = [path |-> p, ver |-> c.ver]
                                           /\ c.len = size[c.ver]

Whole == \A p \in Paths : inbox[p] # NoFile => Published(p, inbox[p])

Landed == recv.pc = "ended" =>
            /\ recv.target \in 1..Len(dists)
            /\ inbox[dists[recv.target].path].ver = dists[recv.target].ver

InboxInv == BoxTyped /\ AtFile /\ Documented /\ Copied /\ Whole /\ Landed

-----------------------------------------------------------------------------
LEMMA InitWhole == FilesInit => InboxInv
<1>. SUFFICES ASSUME FilesInit PROVE InboxInv
  BY Zenon
<1>1. size \in Seq(Sizes) /\ dists \in Seq(Doc) /\ Len(dists) = 0 /\ Len(size) = 0
  BY Zenon, EmptySeq DEF FilesInit
<1>2. NoFile \in Content
  BY Zenon DEF NoFile, Content, Lens, Nothing
<1>3. BoxTyped
  <2>1. outbox \in [Paths -> 0..Len(size)] /\ inbox \in [Paths -> Content]
    BY <1>1, <1>2 DEF FilesInit, NoFiles, Nothing
  <2>2. poll \in [pc : {"sleep", "decide", "hash", "send"}, found : [Paths -> Nat],
                  todo : SUBSET Paths, path : Paths \cup {Nothing}, hash : Nat]
    BY Zenon DEF FilesInit, Asleep, NoFiles, Nothing
  <2>3. recv \in [pc : {"sweep", "copied", "ended"}, handled : SUBSET Nat, dist : Nat,
                  tmp : Content, target : {Nothing, 1}]
    BY <1>2 DEF FilesInit, Nothing
  <2>. QED  BY Zenon, <1>1, <2>1, <2>2, <2>3 DEF BoxTyped
<1>4. poll.pc = "sleep" /\ recv.pc = "sweep"
  BY Zenon DEF FilesInit, Asleep
<1>. QED
  BY <1>1, <1>3, <1>4 DEF InboxInv, AtFile, Documented, Copied, Whole, Landed, FilesInit

\* The steps that write no version, no document and no file of the inbox.
LEMMA QuietWhole ==
  ASSUME InboxInv, BoxTyped', AtFile', UNCHANGED <<size, dists, inbox>>, Copied', Landed'
  PROVE  InboxInv'
<1>1. Documented'
  BY Zenon DEF InboxInv, Documented
<1>2. Whole'
  BY Zenon DEF InboxInv, Whole, Published
<1>. QED  BY Zenon, <1>1, <1>2 DEF InboxInv

\* The steps of the watcher that only change where it is.
LEMMA WatcherWhole ==
  ASSUME InboxInv, UNCHANGED <<size, outbox, dists, inbox, recv>>, AtFile',
         poll' \in [pc : {"sleep", "decide", "hash", "send"}, found : [Paths -> Nat],
                    todo : SUBSET Paths, path : Paths \cup {Nothing}, hash : Nat]
  PROVE  InboxInv'
<1>1. BoxTyped'
  BY Zenon DEF InboxInv, BoxTyped
<1>2. Copied' /\ Landed'
  BY Zenon DEF InboxInv, Copied, Landed
<1>. QED  BY Zenon, <1>1, <1>2, QuietWhole

LEMMA WriteWhole ==
  ASSUME InboxInv, NEW p \in Paths, NEW n \in Sizes, Write(p, n)
  PROVE  InboxInv'
<1>1. size \in Seq(Sizes) /\ Len(size) \in Nat
  BY Zenon, LenProperties DEF InboxInv, BoxTyped
<1>2. /\ size' \in Seq(Sizes) /\ Len(size') = Len(size) + 1
      /\ \A v \in 1..Len(size) : size'[v] = size[v]
  BY <1>1, AppendProperties DEF Write
<1>3. UNCHANGED <<poll, dists, inbox, recv>>
  BY Zenon DEF Write, inboxVars
<1>4. outbox' \in [Paths -> 0..Len(size')]
  <2>1. outbox \in [Paths -> 0..Len(size)] /\ outbox' = [outbox EXCEPT ![p] = Len(size) + 1]
    BY Zenon DEF InboxInv, BoxTyped, Write
  <2>. QED  BY <1>1, <1>2, <2>1
<1>5. BoxTyped'
  BY Zenon, <1>2, <1>3, <1>4 DEF InboxInv, BoxTyped
<1>6. Documented'
  BY <1>1, <1>2, <1>3 DEF InboxInv, Documented
<1>7. Whole'
  <2>1. ASSUME NEW q \in Paths, inbox[q] # NoFile PROVE Published(q, inbox[q])'
    <3>1. PICK d \in 1..Len(dists) : /\ dists[d] = [path |-> q, ver |-> inbox[q].ver]
                                    /\ inbox[q].len = size[inbox[q].ver]
      BY Zenon, <2>1 DEF InboxInv, Whole, Published
    <3>2. inbox[q].ver \in 1..Len(size)
      BY <3>1 DEF InboxInv, Documented
    <3>3. inbox[q].len = size'[inbox[q].ver]
      BY Zenon, <1>2, <3>1, <3>2
    <3>. QED  BY Zenon, <1>3, <3>1, <3>3 DEF Published
  <2>. QED  BY Zenon, <1>3, <2>1 DEF Whole
<1>8. AtFile' /\ Copied' /\ Landed'
  BY Zenon, <1>3 DEF InboxInv, AtFile, Copied, Landed
<1>. QED  BY Zenon, <1>5, <1>6, <1>7, <1>8 DEF InboxInv

LEMMA SendWhole ==
  ASSUME InboxInv, Send
  PROVE  InboxInv'
<1>1. /\ UNCHANGED <<size, outbox, inbox, recv>>
      /\ poll' = [poll EXCEPT !.pc = "decide", !.path = Nothing, !.hash = Nothing]
      /\ poll.pc = "send"
  BY Zenon DEF Send, SendMarks, inboxVars
<1>2. CASE dists' = dists
  BY Zenon, <1>1, <1>2, WatcherWhole DEF InboxInv, AtFile, BoxTyped, Nothing
<1>3. CASE Accepted /\ dists' = Append(dists, [path |-> poll.path, ver |-> poll.hash])
  <2>. DEFINE x == [path |-> poll.path, ver |-> poll.hash]
  <2>1. poll.path \in Paths /\ poll.hash \in Nat /\ poll.hash # 0
    BY Zenon, <1>1 DEF InboxInv, AtFile, BoxTyped, Nothing
  <2>2. x.ver \in 1..Len(size) /\ x \in Doc
    <3>1. outbox[poll.path] \in 0..Len(size) /\ outbox[poll.path] = poll.hash
      BY Zenon, <1>3, <2>1 DEF InboxInv, BoxTyped, Accepted
    <3>. QED  BY <2>1, <3>1 DEF Doc
  <2>3. dists \in Seq(Doc) /\ Len(dists) \in Nat
    BY Zenon, LenProperties DEF InboxInv, BoxTyped
  <2>4. /\ dists' \in Seq(Doc) /\ Len(dists') = Len(dists) + 1 /\ dists'[Len(dists) + 1] = x
        /\ \A d \in 1..Len(dists) : dists'[d] = dists[d]
    BY <1>3, <2>2, <2>3, AppendProperties
  <2>. HIDE DEF x
  <2>5. BoxTyped'
    <3>1. poll' \in [pc : {"sleep", "decide", "hash", "send"}, found : [Paths -> Nat],
                     todo : SUBSET Paths, path : Paths \cup {Nothing}, hash : Nat]
      BY Zenon, <1>1 DEF InboxInv, BoxTyped, Nothing
    <3>. QED  BY Zenon, <1>1, <2>4, <3>1 DEF InboxInv, BoxTyped
  <2>6. Documented'
    <3>1. \A d \in 1..Len(dists') : d \in 1..Len(dists) \/ d = Len(dists) + 1
      BY <2>3, <2>4
    <3>. QED  BY Zenon, <1>1, <2>2, <2>4, <3>1 DEF InboxInv, Documented
  <2>7. \A d \in 1..Len(dists) : d \in 1..Len(dists')
    BY <2>3, <2>4
  <2>8. AtFile'
    BY Zenon, <1>1 DEF InboxInv, BoxTyped, AtFile
  <2>9. Copied' /\ Landed'
    BY Zenon, <1>1, <2>4, <2>7 DEF InboxInv, Copied, Landed
  <2>10. Whole'
    BY Zenon, <1>1, <2>4, <2>7 DEF InboxInv, Whole, Published
  <2>. QED  BY Zenon, <2>5, <2>6, <2>8, <2>9, <2>10 DEF InboxInv
<1>. QED  BY Zenon, <1>2, <1>3 DEF Send, SendMarks

LEMMA CopyWhole ==
  ASSUME InboxInv, NEW d \in DOMAIN dists, Copy(d)
  PROVE  InboxInv'
<1>1. dists \in Seq(Doc) /\ Len(dists) \in Nat /\ d \in 1..Len(dists)
  BY Zenon, LenProperties DEF InboxInv, BoxTyped
<1>2. dists[d] \in Doc /\ dists[d].ver \in 1..Len(size)
  BY Zenon, <1>1, ElementOfSeq DEF InboxInv, Documented
<1>3. SizeOf(d) \in Sizes
  BY Zenon, <1>2, ElementOfSeq DEF InboxInv, BoxTyped, SizeOf
<1>4. UNCHANGED <<size, outbox, poll, dists, inbox>>
  BY Zenon DEF Copy, outboxVars
<1>5. PICK n \in Lens :
        recv' = [recv EXCEPT !.pc = "copied", !.dist = d,
                             !.tmp = [ver |-> dists[d].ver, len |-> n]]
  BY Zenon, <1>3 DEF Copy, Lens
<1>6. [ver |-> dists[d].ver, len |-> n] \in Content
  BY Zenon, <1>2 DEF Content, Doc
<1>7. /\ recv' \in [pc : {"sweep", "copied", "ended"}, handled : SUBSET Nat, dist : Nat,
                    tmp : Content, target : {Nothing, 1}]
      /\ recv'.pc = "copied" /\ recv'.dist = d /\ recv'.tmp.ver = dists[d].ver
  <2>. DEFINE c == [ver |-> dists[d].ver, len |-> n]
  <2>1. c.ver = dists[d].ver /\ c \in Content /\ d \in Nat
    BY <1>1, <1>6
  <2>2. recv' = [recv EXCEPT !.pc = "copied", !.dist = d, !.tmp = c]
    BY Zenon, <1>5
  <2>. HIDE DEF c
  <2>. QED  BY Zenon, <2>1, <2>2 DEF InboxInv, BoxTyped
<1>8. BoxTyped'
  BY Zenon, <1>4, <1>7 DEF InboxInv, BoxTyped
<1>9. Copied' /\ Landed' /\ AtFile'
  BY Zenon, <1>1, <1>4, <1>7 DEF InboxInv, Copied, Landed, AtFile
<1>. QED  BY Zenon, <1>4, <1>8, <1>9, QuietWhole

LEMMA PublishWhole ==
  ASSUME InboxInv, Publish
  PROVE  InboxInv'
<1>1. UNCHANGED <<size, outbox, poll, dists>> /\ recv.pc = "copied"
  BY Zenon DEF Publish, outboxVars
<1>2. /\ dists \in Seq(Doc) /\ Len(dists) \in Nat /\ recv.dist \in 1..Len(dists)
      /\ recv.tmp.ver = dists[recv.dist].ver /\ recv.tmp \in Content
  BY Zenon, <1>1, LenProperties DEF InboxInv, BoxTyped, Copied
<1>3. dists[recv.dist] \in Doc
  BY Zenon, <1>2, ElementOfSeq
<1>4. NoFile \in Content
  BY Zenon DEF NoFile, Content, Lens, Nothing
<1>5. CASE recv.tmp.len = SizeOf(recv.dist) /\ Rename(recv.dist)
  <2>. DEFINE p == dists[recv.dist].path
  <2>1. p \in Paths /\ dists[recv.dist] = [path |-> p, ver |-> recv.tmp.ver]
    BY Zenon, <1>2, <1>3 DEF Doc
  <2>2. inbox' = [inbox EXCEPT ![p] = recv.tmp] /\ inbox' \in [Paths -> Content]
    BY Zenon, <1>2, <1>5, <2>1 DEF Rename, InboxInv, BoxTyped
  <2>3. /\ recv' \in [pc : {"sweep", "copied", "ended"}, handled : SUBSET Nat, dist : Nat,
                      tmp : Content, target : {Nothing, 1}]
        /\ recv'.pc = IF recv.dist = recv.target THEN "ended" ELSE "sweep"
        /\ recv'.target = recv.target
    BY Zenon, <1>2, <1>4, <1>5 DEF Rename, InboxInv, BoxTyped, Nothing
  <2>4. Published(p, recv.tmp)
    BY Zenon, <1>2, <1>5, <2>1 DEF Published, SizeOf
  <2>. HIDE DEF p
  <2>5. BoxTyped' /\ AtFile' /\ Documented'
    BY Zenon, <1>1, <2>2, <2>3 DEF InboxInv, BoxTyped, AtFile, Documented
  <2>6. Whole'
    <3>1. ASSUME NEW q \in Paths, inbox'[q] # NoFile PROVE Published(q, inbox'[q])
      <4>1. CASE q = p
        BY Zenon, <2>1, <2>2, <2>4, <4>1 DEF InboxInv, BoxTyped
      <4>2. CASE q # p
        BY Zenon, <2>2, <3>1, <4>2 DEF InboxInv, BoxTyped, Whole
      <4>. QED  BY Zenon, <4>1, <4>2
    <3>. QED  BY Zenon, <1>1, <3>1 DEF Whole, Published
  <2>7. Landed'
    <3>1. inbox'[p].ver = dists[recv.dist].ver
      BY Zenon, <1>2, <2>1, <2>2 DEF InboxInv, BoxTyped
    <3>. QED  BY Zenon, <1>1, <1>2, <2>3, <3>1 DEF Landed, p
  <2>8. Copied'
    BY Zenon, <2>3 DEF Copied
  <2>. QED  BY Zenon, <2>5, <2>6, <2>7, <2>8 DEF InboxInv
<1>6. CASE /\ recv' = [recv EXCEPT !.pc = "sweep", !.dist = Nothing, !.tmp = NoFile]
           /\ UNCHANGED inbox
  <2>1. /\ recv' \in [pc : {"sweep", "copied", "ended"}, handled : SUBSET Nat, dist : Nat,
                      tmp : Content, target : {Nothing, 1}]
        /\ recv'.pc = "sweep"
    BY Zenon, <1>4, <1>6 DEF InboxInv, BoxTyped, Nothing
  <2>2. BoxTyped' /\ AtFile' /\ Copied' /\ Landed'
    BY Zenon, <1>1, <1>6, <2>1 DEF InboxInv, BoxTyped, AtFile, Copied, Landed
  <2>. QED  BY Zenon, <1>1, <1>6, <2>2, QuietWhole
<1>. QED  BY Zenon, <1>5, <1>6 DEF Publish

LEMMA NextWhole == InboxInv /\ [FilesNext]_filesVars => InboxInv'
<1>. SUFFICES ASSUME InboxInv, [FilesNext]_filesVars PROVE InboxInv'
  BY Zenon
<1>1. ASSUME NEW p \in Paths, Remove(p) PROVE InboxInv'
  <2>1. outbox' \in [Paths -> 0..Len(size)] /\ UNCHANGED <<size, poll, dists, inbox, recv>>
    <3>1. Len(size) \in Nat
      BY Zenon, LenProperties DEF InboxInv, BoxTyped
    <3>. QED  BY <1>1, <3>1 DEF Remove, InboxInv, BoxTyped, Nothing, inboxVars
  <2>2. BoxTyped' /\ AtFile' /\ Copied' /\ Landed'
    BY Zenon, <2>1 DEF InboxInv, BoxTyped, AtFile, Copied, Landed
  <2>. QED  BY Zenon, <2>1, <2>2, QuietWhole
<1>2. ASSUME NEW p \in Paths, NEW n \in Sizes, Write(p, n) PROVE InboxInv'
  BY Zenon, <1>2, WriteWhole
<1>3. CASE Walk
  <2>1. outbox \in [Paths -> Nat]
    <3>1. Len(size) \in Nat /\ outbox \in [Paths -> 0..Len(size)]
      BY Zenon, LenProperties DEF InboxInv, BoxTyped
    <3>. QED  BY <3>1
  <2>. QED  BY Zenon, <1>3, <2>1, WatcherWhole DEF Walk, InboxInv, BoxTyped, AtFile, inboxVars
<1>4. ASSUME NEW p \in Paths, Decide(p) PROVE InboxInv'
  BY Zenon, <1>4, WatcherWhole DEF Decide, InboxInv, BoxTyped, AtFile, inboxVars
<1>5. CASE Hash
  <2>1. poll.path \in Paths /\ outbox[poll.path] \in Nat
    <3>1. Len(size) \in Nat /\ outbox \in [Paths -> 0..Len(size)]
      BY Zenon, LenProperties DEF InboxInv, BoxTyped
    <3>. QED  BY <1>5, <3>1 DEF Hash, InboxInv, AtFile
  <2>. QED  BY Zenon, <1>5, <2>1, WatcherWhole DEF Hash, InboxInv, BoxTyped, AtFile, inboxVars
<1>6. CASE Send
  BY Zenon, <1>6, SendWhole
<1>7. CASE EndPoll \/ SenderRestarts
  <2>1. poll' = Asleep /\ UNCHANGED <<size, outbox, dists, inbox, recv>>
    BY Zenon, <1>7 DEF EndPoll, SenderRestarts, inboxVars
  <2>2. Asleep \in [pc : {"sleep", "decide", "hash", "send"}, found : [Paths -> Nat],
                    todo : SUBSET Paths, path : Paths \cup {Nothing}, hash : Nat]
    BY Zenon DEF Asleep, NoFiles, Nothing
  <2>3. Asleep.pc = "sleep"
    BY Zenon DEF Asleep
  <2>. QED  BY Zenon, <2>1, <2>2, <2>3, WatcherWhole DEF AtFile
<1>8. ASSUME NEW d \in DOMAIN dists, Skip(d) PROVE InboxInv'
  <2>1. d \in Nat
    BY LenProperties DEF InboxInv, BoxTyped
  <2>2. /\ recv' \in [pc : {"sweep", "copied", "ended"}, handled : SUBSET Nat, dist : Nat,
                      tmp : Content, target : {Nothing, 1}]
        /\ recv'.pc = "sweep" /\ UNCHANGED <<size, outbox, poll, dists, inbox>>
    BY Zenon, <1>8, <2>1 DEF Skip, InboxInv, BoxTyped, outboxVars
  <2>3. BoxTyped' /\ AtFile' /\ Copied' /\ Landed'
    BY Zenon, <2>2 DEF InboxInv, BoxTyped, AtFile, Copied, Landed
  <2>. QED  BY Zenon, <2>2, <2>3, QuietWhole
<1>9. ASSUME NEW d \in DOMAIN dists, Copy(d) PROVE InboxInv'
  BY Zenon, <1>9, CopyWhole
<1>10. CASE Publish
  BY Zenon, <1>10, PublishWhole
<1>11. CASE ReceiverRestarts
  <2>1. NoFile \in Content
    BY Zenon DEF NoFile, Content, Lens, Nothing
  <2>2. /\ recv' \in [pc : {"sweep", "copied", "ended"}, handled : SUBSET Nat, dist : Nat,
                      tmp : Content, target : {Nothing, 1}]
        /\ recv'.pc = "sweep" /\ UNCHANGED <<size, outbox, poll, dists, inbox>>
    BY Zenon, <1>11, <2>1 DEF ReceiverRestarts, InboxInv, BoxTyped, outboxVars, Nothing
  <2>3. BoxTyped' /\ AtFile' /\ Copied' /\ Landed'
    BY Zenon, <2>2 DEF InboxInv, BoxTyped, AtFile, Copied, Landed
  <2>. QED  BY Zenon, <2>2, <2>3, QuietWhole
<1>12. CASE UNCHANGED filesVars
  <2>1. UNCHANGED <<size, outbox, poll, dists, inbox, recv>>
    BY Zenon, <1>12 DEF filesVars, outboxVars, inboxVars
  <2>2. BoxTyped' /\ AtFile' /\ Copied' /\ Landed'
    BY Zenon, <2>1 DEF InboxInv, BoxTyped, AtFile, Copied, Landed
  <2>. QED  BY Zenon, <2>1, <2>2, QuietWhole
<1>. QED
  BY ZenonT(60), <1>1, <1>2, <1>3, <1>4, <1>5, <1>6, <1>7, <1>8, <1>9, <1>10, <1>11, <1>12
     DEF FilesNext, Watcher, Receiver

LEMMA WholeAlways == FilesSpec => []InboxInv
BY InitWhole, NextWhole, PTL DEF FilesSpec

(***************************************************************************)
(* A reader of the inbox never sees part of a file, or one that was not    *)
(* distributed under this path (inbox.rs, deliver).                        *)
(***************************************************************************)
THEOREM InboxAlwaysWhole == FilesSpec => []InboxIsWhole
<1>1. InboxInv => InboxIsWhole
  <2>. SUFFICES ASSUME InboxInv, NEW p \in Paths, inbox[p] # NoFile
                PROVE  /\ inbox[p].len = size[inbox[p].ver]
                       /\ \E d \in DOMAIN dists : dists[d] = [path |-> p, ver |-> inbox[p].ver]
    BY Zenon DEF InboxIsWhole
  <2>1. DOMAIN dists = 1..Len(dists)
    BY Zenon, LenProperties DEF InboxInv, BoxTyped
  <2>. QED  BY Zenon, <2>1 DEF InboxInv, Whole, Published
<1>. QED  BY <1>1, WholeAlways, PTL

(***************************************************************************)
(* peat attach watch --dist-id ends only with that file in the inbox.      *)
(***************************************************************************)
THEOREM EndedAlwaysLanded == FilesSpec => []EndedHasLanded
<1>1. InboxInv => EndedHasLanded
  BY Zenon DEF InboxInv, Landed, EndedHasLanded
<1>. QED  BY <1>1, WholeAlways, PTL

-----------------------------------------------------------------------------
\* The books of the two watchers: versions that were written, documents that exist, and
\* nothing sent that was not seen.
Kept ==
  /\ Len(size) <= MaxWrites /\ mishaps \in 0..MaxMishaps
  /\ seen \in [Paths -> 0..MaxWrites] /\ sent \in [Paths -> 0..MaxWrites]
  /\ poll.found \in [Paths -> 0..MaxWrites] /\ poll.hash \in 0..MaxWrites
  /\ tried \subseteq 1..MaxWrites /\ recv.handled \subseteq 1..Len(dists)

Remembered ==
  /\ \A p \in Paths : sent[p] # Nothing => seen[p] # Nothing
  /\ \A p \in poll.todo : poll.found[p] # Nothing
  /\ poll.pc \in {"hash", "send"} =>
       poll.found[poll.path] # Nothing /\ seen[poll.path] # Nothing

LEMMA BooksStart == FilesInit => Kept /\ Remembered
<1> SUFFICES ASSUME FilesInit PROVE Kept /\ Remembered
  BY Zenon
<1>1. Len(size) = 0 /\ Len(dists) = 0
  BY Zenon DEF FilesInit
<1>2. NoFiles \in [Paths -> 0..MaxWrites] /\ \A p \in Paths : NoFiles[p] = Nothing
  BY FilesBounds DEF NoFiles, Nothing
<1>3. poll.found = NoFiles /\ poll.hash = 0 /\ poll.todo = {} /\ poll.pc = "sleep" /\ recv.handled = {}
  BY Zenon DEF FilesInit, Asleep, Nothing
<1>4. Kept
  BY <1>1, <1>2, <1>3, FilesBounds DEF FilesInit, Kept
<1>5. Remembered
  BY Zenon, <1>2, <1>3 DEF FilesInit, Remembered
<1> QED BY Zenon, <1>4, <1>5

LEMMA BooksStep == InboxInv /\ Kept /\ Remembered /\ [FilesNext]_filesVars => Kept' /\ Remembered'
<1> SUFFICES ASSUME InboxInv, Kept, Remembered, [FilesNext]_filesVars PROVE Kept' /\ Remembered'
  BY Zenon
<1>1. /\ Len(size) \in Nat /\ Len(dists) \in Nat /\ dists \in Seq(Doc) /\ size \in Seq(Sizes)
      /\ outbox \in [Paths -> 0..Len(size)] /\ MaxWrites \in Nat /\ MaxMishaps \in Nat
      /\ AtFile /\ poll.todo \subseteq Paths /\ Nothing = 0
      /\ outbox \in [Paths -> 0..MaxWrites]
  <2>1. Len(size) \in Nat /\ Len(dists) \in Nat /\ dists \in Seq(Doc) /\ size \in Seq(Sizes)
    BY Zenon, LenProperties DEF InboxInv, BoxTyped
  <2>2. outbox \in [Paths -> 0..Len(size)] /\ Len(size) <= MaxWrites
    BY Zenon DEF InboxInv, BoxTyped, Kept
  <2>3. outbox \in [Paths -> 0..MaxWrites]
    BY <2>1, <2>2, FilesBounds
  <2> QED BY Zenon, <2>1, <2>2, <2>3, FilesBounds DEF InboxInv, BoxTyped, Nothing
<1>2. poll = [pc |-> poll.pc, found |-> poll.found, todo |-> poll.todo, path |-> poll.path, hash |-> poll.hash]
  BY Zenon DEF InboxInv, BoxTyped
<1>3. ASSUME NEW p \in Paths, Remove(p) PROVE Kept' /\ Remembered'
  BY Zenon, <1>3 DEF Remove, Kept, Remembered, inboxVars
<1>4. ASSUME NEW p \in Paths, NEW n \in Sizes, Write(p, n) PROVE Kept' /\ Remembered'
  <2>1. Len(size') = Len(size) + 1 /\ Len(size) < MaxWrites
    BY Zenon, <1>1, <1>4, AppendProperties DEF Write
  <2> QED BY SMTT(60), <1>1, <1>4, <2>1 DEF Write, Kept, Remembered, inboxVars
<1>5. CASE Walk
  <2>1. /\ poll'.pc = "decide" /\ poll'.found = outbox /\ poll'.hash = poll.hash
        /\ poll'.todo = {p \in Paths : outbox[p] # Nothing}
    BY Zenon, <1>2, <1>5 DEF Walk
  <2> QED BY Zenon, <1>1, <1>5, <2>1 DEF Walk, Kept, Remembered, inboxVars
<1>6. ASSUME NEW p \in Paths, Decide(p) PROVE Kept' /\ Remembered'
  <2>1. /\ poll'.found = poll.found /\ poll'.hash = poll.hash /\ poll'.todo = poll.todo \ {p}
        /\ poll'.pc \in {"decide", "hash"} /\ (poll'.pc = "hash" => poll'.path = p)
    BY Zenon, <1>2, <1>6 DEF Decide
  <2>2. seen' = [seen EXCEPT ![p] = poll.found[p]] /\ poll.found[p] # Nothing
    BY Zenon, <1>6 DEF Decide, Remembered
  <2>3. seen' \in [Paths -> 0..MaxWrites] /\ \A q \in Paths : seen[q] # Nothing => seen'[q] # Nothing
    BY Zenon, <2>2 DEF Kept
  <2>4. seen'[p] # Nothing
    BY Zenon, <2>2 DEF Kept
  <2>5. Kept'
    BY Zenon, <1>6, <2>1, <2>3 DEF Decide, Kept, inboxVars
  <2>6. Remembered'
    BY Zenon, <1>6, <2>1, <2>2, <2>3, <2>4 DEF Decide, Remembered, inboxVars
  <2> QED BY Zenon, <2>5, <2>6
<1>7. CASE Hash
  <2>1. poll.path \in Paths
    BY Zenon, <1>1, <1>7 DEF Hash, AtFile
  <2>2. /\ poll'.found = poll.found /\ poll'.todo = poll.todo /\ poll'.pc \in {"decide", "send"}
        /\ poll'.hash \in 0..MaxWrites /\ (poll'.pc = "send" => poll'.path = poll.path)
    <3>1. outbox[poll.path] \in 0..MaxWrites /\ poll.hash \in 0..MaxWrites
      BY Zenon, <1>1, <2>1 DEF Kept
    <3> QED BY Zenon, <1>2, <1>7, <3>1 DEF Hash
  <2> QED BY Zenon, <1>7, <2>2 DEF Hash, Kept, Remembered, inboxVars
<1>8. CASE Send
  <2>1. poll.path \in Paths /\ poll.hash \in 1..MaxWrites /\ poll.pc = "send"
    BY <1>1, <1>8 DEF Send, SendMarks, AtFile, Kept
  <2>2. sent' = [sent EXCEPT ![poll.path] = poll.found[poll.path]] /\ UNCHANGED <<size, seen, recv>>
    BY Zenon, <1>8 DEF Send, SendMarks, inboxVars
  <2>3. /\ poll'.found = poll.found /\ poll'.todo = poll.todo /\ poll'.pc = "decide" /\ poll'.hash = 0
    BY Zenon, <1>1, <1>2, <1>8 DEF Send, SendMarks
  <2>4. tried' \subseteq 1..MaxWrites /\ mishaps' \in 0..MaxMishaps
    BY SMTT(60), <1>1, <1>8, <2>1 DEF Send, SendMarks, Kept
  <2>5. recv'.handled \subseteq 1..Len(dists')
    <3>1. dists' = dists \/ dists' = Append(dists, [path |-> poll.path, ver |-> poll.hash])
      BY Zenon, <1>8 DEF Send, SendMarks
    <3>2. Len(dists') \in Nat /\ Len(dists') >= Len(dists)
      <4>1. [path |-> poll.path, ver |-> poll.hash] \in Doc
        BY <1>1, <2>1 DEF Doc
      <4> QED BY <1>1, <3>1, <4>1, AppendProperties
    <3> QED BY <1>1, <2>2, <3>2 DEF Kept
  <2>6. sent' \in [Paths -> 0..MaxWrites]
    BY Zenon, <2>1, <2>2 DEF Kept
  <2>7. Kept'
    BY SMTT(60), <1>1, <2>2, <2>3, <2>4, <2>5, <2>6 DEF Kept
  <2>8. Remembered'
    <3>1. seen[poll.path] # Nothing
      BY Zenon, <2>1 DEF Remembered
    <3>2. \A p \in Paths : p # poll.path => sent'[p] = sent[p]
      BY ZenonT(60), <2>2 DEF Kept
    <3> QED BY Zenon, <2>2, <2>3, <3>1, <3>2 DEF Remembered
  <2> QED BY Zenon, <2>7, <2>8
<1>9. CASE EndPoll
  <2>1. /\ poll'.found = NoFiles /\ poll'.todo = {} /\ poll'.pc = "sleep" /\ poll'.hash = 0
        /\ NoFiles \in [Paths -> 0..MaxWrites]
    BY SMTT(60), <1>1, <1>9 DEF EndPoll, Asleep, NoFiles
  <2> QED BY SMTT(60), <1>1, <1>9, <2>1 DEF EndPoll, Kept, Remembered, inboxVars
<1>10. CASE SenderRestarts
  <2>1. /\ poll'.found = NoFiles /\ poll'.todo = {} /\ poll'.pc = "sleep" /\ poll'.hash = 0
        /\ NoFiles \in [Paths -> 0..MaxWrites] /\ \A p \in Paths : NoFiles[p] = Nothing
    BY SMTT(60), <1>1, <1>10 DEF SenderRestarts, Asleep, NoFiles
  <2>2. mishaps' \in 0..MaxMishaps
    BY <1>1, <1>10 DEF SenderRestarts, Kept
  <2> QED BY SMTT(60), <1>1, <1>10, <2>1, <2>2 DEF SenderRestarts, Kept, Remembered, inboxVars
<1>11. ASSUME NEW d \in DOMAIN dists, Skip(d) PROVE Kept' /\ Remembered'
  <2>1. d \in 1..Len(dists)
    BY <1>1, <1>11
  <2>2. recv'.handled = recv.handled \cup {d}
    BY Zenon, <1>11 DEF Skip, InboxInv, BoxTyped
  <2> QED BY Zenon, <1>11, <2>1, <2>2 DEF Skip, Kept, Remembered, outboxVars
<1>12. ASSUME NEW d \in DOMAIN dists, Copy(d) PROVE Kept' /\ Remembered'
  <2>1. recv'.handled = recv.handled
    BY Zenon, <1>12 DEF Copy, InboxInv, BoxTyped
  <2>2. mishaps' \in 0..MaxMishaps
    BY <1>1, <1>12 DEF Copy, Kept
  <2> QED BY Zenon, <1>12, <2>1, <2>2 DEF Copy, Kept, Remembered, outboxVars
<1>13. CASE Publish
  <2>1. recv.dist \in 1..Len(dists)
    BY Zenon, <1>13 DEF Publish, InboxInv, Copied
  <2>2. recv'.handled \subseteq 1..Len(dists)
    <3>1. recv'.handled = recv.handled \cup {recv.dist} \/ recv'.handled = recv.handled
      BY Zenon, <1>13 DEF Publish, Rename, InboxInv, BoxTyped
    <3> QED BY Zenon, <2>1, <3>1 DEF Kept
  <2> QED BY Zenon, <1>13, <2>2 DEF Publish, Kept, Remembered, outboxVars
<1>14. CASE ReceiverRestarts
  <2>1. recv'.handled = {}
    BY Zenon, <1>14 DEF ReceiverRestarts, InboxInv, BoxTyped
  <2>2. mishaps' \in 0..MaxMishaps
    BY <1>1, <1>14 DEF ReceiverRestarts, Kept
  <2> QED BY Zenon, <1>14, <2>1, <2>2 DEF ReceiverRestarts, Kept, Remembered, outboxVars
<1>15. CASE UNCHANGED filesVars
  BY Zenon, <1>15 DEF filesVars, outboxVars, inboxVars, Kept, Remembered
<1> QED
  BY ZenonT(60), <1>3, <1>4, <1>5, <1>6, <1>7, <1>8, <1>9, <1>10, <1>11, <1>12, <1>13, <1>14, <1>15
     DEF FilesNext, Watcher, Receiver

(***************************************************************************)
(* What is published in the inbox is whole, whatever dies when, the        *)
(* watchers' books name only what was written and distributed, and peat    *)
(* attach watch --dist-id ends only with its file in place (outbox.rs and  *)
(* inbox.rs), for any paths and sizes and any number of writes and faults. *)
(***************************************************************************)
THEOREM InboxAlwaysSound == FilesSpec => []InboxIsSound
<1>1. FilesSpec => [](InboxInv /\ Kept /\ Remembered)
  BY InitWhole, NextWhole, BooksStart, BooksStep, PTL DEF FilesSpec
<1>2. InboxInv /\ Kept /\ Remembered => FilesTyped
  <2> SUFFICES ASSUME InboxInv, Kept, Remembered PROVE FilesTyped
    BY Zenon
  <2>1. Len(size) \in Nat /\ DOMAIN dists = 1..Len(dists) /\ size \in Seq(Sizes)
    BY Zenon, LenProperties DEF InboxInv, BoxTyped
  <2>2. outbox \in [Paths -> 0..MaxWrites]
    BY <2>1, FilesBounds DEF InboxInv, BoxTyped, Kept
  <2>3. ASSUME NEW d \in 1..Len(dists) PROVE dists[d] \in [path : Paths, ver : Versions]
    <3>1. dists[d] \in Doc /\ dists[d].ver \in 1..Len(size)
      BY Zenon, ElementOfSeq DEF InboxInv, BoxTyped, Documented
    <3> QED BY <2>1, <3>1, FilesBounds DEF Doc, Versions, Kept
  <2> QED BY Zenon, <2>1, <2>2, <2>3 DEF FilesTyped, Kept, Remembered, Versions
<1> QED BY <1>1, <1>2, InboxAlwaysWhole, EndedAlwaysLanded, PTL DEF InboxIsSound

-----------------------------------------------------------------------------
(***************************************************************************)
(* Fanout.  A set of naturals has a least element, so the queue's order    *)
(* has a first and a last place in any sequence of documents.              *)
(***************************************************************************)
LEMMA LeastNat ==
  ASSUME NEW S \in SUBSET Nat, S # {}
  PROVE  \E m \in S : \A n \in S : m <= n
<1>1. PICK m \in S : \A y \in S : ~(<<y, m>> \in OpToRel(<, Nat))
  BY Zenon, WFMin, NatLessThanWellFounded
<1>2. \A y \in S : ~(y < m)
  BY Zenon, <1>1 DEF OpToRel
<1> QED BY <1>2

LEMMA VictimFacts ==
  ASSUME NEW s \in Seq(Keys), s # <<>>
  PROVE  /\ Victim(s) \in 1..Len(s)
         /\ \A j \in 1..Len(s) : \/ Rank[s[j]] < Rank[s[Victim(s)]]
                                 \/ Rank[s[j]] = Rank[s[Victim(s)]] /\ j <= Victim(s)
<1>1. DOMAIN s = 1..Len(s) /\ Len(s) \in Nat \ {0} /\ \A j \in 1..Len(s) : Rank[s[j]] \in 1..5
  BY FanoutConstants
<1> DEFINE R == {5 - Rank[s[j]] : j \in 1..Len(s)}
<1>2. R \in SUBSET Nat /\ R # {}
  BY <1>1
<1>3. PICK r \in 1..5 : (\E j \in 1..Len(s) : Rank[s[j]] = r) /\ \A j \in 1..Len(s) : Rank[s[j]] <= r
  <2>1. PICK m \in R : \A x \in R : m <= x
    BY Zenon, <1>2, LeastNat
  <2>2. PICK k \in 1..Len(s) : m = 5 - Rank[s[k]]
    BY Zenon, <2>1
  <2>3. \A j \in 1..Len(s) : m <= 5 - Rank[s[j]]
    BY Zenon, <2>1
  <2>4. Rank[s[k]] \in 1..5 /\ \A j \in 1..Len(s) : Rank[s[j]] <= Rank[s[k]]
    BY SMTT(60), <1>1, <2>2, <2>3
  <2> QED BY Zenon, <2>2, <2>4
<1> DEFINE T == {Len(s) - j : j \in {i \in 1..Len(s) : Rank[s[i]] = r}}
<1>4. T \in SUBSET Nat /\ T # {}
  BY <1>1, <1>3
<1>5. PICK v \in 1..Len(s) : Rank[s[v]] = r /\ \A j \in 1..Len(s) : Rank[s[j]] = r => j <= v
  <2>1. PICK m \in T : \A x \in T : m <= x
    BY Zenon, <1>4, LeastNat
  <2>2. PICK k \in 1..Len(s) : m = Len(s) - k /\ Rank[s[k]] = r
    BY Zenon, <2>1
  <2>3. \A j \in 1..Len(s) : Rank[s[j]] = r => m <= Len(s) - j
    BY Zenon, <2>1
  <2> QED BY <1>1, <2>2, <2>3
<1>6. \A j \in 1..Len(s) : Rank[s[j]] < Rank[s[v]] \/ (Rank[s[j]] = Rank[s[v]] /\ j <= v)
  BY SMTT(60), <1>1, <1>3, <1>5
<1> QED BY Zenon, <1>1, <1>6 DEF Victim

LEMMA HighestFacts ==
  ASSUME NEW s \in Seq(Keys), s # <<>>
  PROVE  Highest(s) \in 1..Len(s)
<1>1. DOMAIN s = 1..Len(s) /\ Len(s) \in Nat \ {0} /\ \A j \in 1..Len(s) : Rank[s[j]] \in 1..5
  BY FanoutConstants
<1> DEFINE R == {Rank[s[j]] : j \in 1..Len(s)}
<1>2. R \in SUBSET Nat /\ R # {}
  BY <1>1
<1>3. PICK r \in R : \A x \in R : r <= x
  BY Zenon, <1>2, LeastNat
<1> DEFINE T == {i \in 1..Len(s) : Rank[s[i]] = r}
<1>4. T \in SUBSET Nat /\ T # {}
  BY <1>1, <1>3
<1>5. PICK h \in T : \A x \in T : h <= x
  BY Zenon, <1>4, LeastNat
<1>6. \A j \in 1..Len(s) : Rank[s[j]] > Rank[s[h]] \/ (Rank[s[j]] = Rank[s[h]] /\ j >= h)
  <2> TAKE j \in 1..Len(s)
  <2>1. Rank[s[h]] = r /\ r <= Rank[s[j]] /\ r \in 1..5
    BY Zenon, <1>1, <1>3, <1>5
  <2>2. Rank[s[j]] = r => h <= j
    BY Zenon, <1>5
  <2> QED BY SMTT(60), <1>1, <2>1, <2>2
<1> QED BY Zenon, <1>1, <1>5, <1>6 DEF Highest

Distinct(s) == \A i, j \in 1..Len(s) : s[i] = s[j] => i = j

\* Without takes one document out of a queue that holds each once, and no other.
LEMMA WithoutFacts ==
  ASSUME NEW s \in Seq(Keys), NEW i \in 1..Len(s), Distinct(s)
  PROVE  /\ Without(s, i) \in Seq(Keys) /\ Len(Without(s, i)) = Len(s) - 1
         /\ Distinct(Without(s, i)) /\ Range(Without(s, i)) = Range(s) \ {s[i]}
<1> DEFINE w == Without(s, i)
<1>1. Len(s) \in Nat \ {0} /\ DOMAIN s = 1..Len(s) /\ \A j \in 1..Len(s) : s[j] \in Keys
  OBVIOUS
<1>2. /\ w \in Seq(Keys) /\ Len(w) = Len(s) - 1
      /\ \A j \in 1..(Len(s) - 1) : w[j] = IF j < i THEN s[j] ELSE s[j + 1]
  BY <1>1 DEF Without
<1>3. Distinct(w)
  BY SMTT(60), <1>1, <1>2 DEF Distinct
<1>4. Range(w) \subseteq Range(s) \ {s[i]}
  <2> SUFFICES ASSUME NEW j \in 1..(Len(s) - 1) PROVE w[j] \in Range(s) \ {s[i]}
    BY SMTT(60), <1>1, <1>2 DEF Range
  <2>1. PICK l \in 1..Len(s) : w[j] = s[l] /\ l # i
    <3>1. CASE j < i
      BY SMTT(60), <1>1, <1>2, <3>1
    <3>2. CASE ~(j < i)
      <4>1. j + 1 \in 1..Len(s) /\ w[j] = s[j + 1] /\ j + 1 # i
        BY <1>1, <1>2, <3>2
      <4> QED BY Zenon, <4>1
    <3> QED BY Zenon, <3>1, <3>2
  <2> QED BY ZenonT(60), <1>1, <2>1 DEF Range, Distinct
<1>5. Range(s) \ {s[i]} \subseteq Range(w)
  <2> SUFFICES ASSUME NEW j \in 1..Len(s), s[j] # s[i] PROVE s[j] \in Range(w)
    BY Zenon, <1>1 DEF Range
  <2>1. CASE j < i
    BY SMTT(60), <1>1, <1>2, <2>1 DEF Range
  <2>2. CASE j > i
    <3>1. j - 1 \in 1..(Len(s) - 1) /\ w[j - 1] = s[j]
      BY <1>1, <1>2, <2>2
    <3> QED BY <1>2, <3>1 DEF Range
  <2> QED BY <2>1, <2>2
<1> QED BY Zenon, <1>2, <1>3, <1>4, <1>5

-----------------------------------------------------------------------------
\* What keeps a worker from parking over work: between its empty pop and its wait, too,
\* whatever is pending came with a permit, or somebody is about to store one.
Roused == sender.pc \in {"check", "wait"} /\ pending # <<>> => permit \/ rousing # {}

QueueInv == QueueIsSound /\ Roused

LEMMA QueueStarts == QueueInit => QueueInv
<1> SUFFICES ASSUME QueueInit PROVE QueueInv
  BY Zenon
<1>1. Idle \in [pc : {"pop"}, key : Keys, todo : SUBSET Recipients]
  BY Zenon, FanoutConstants DEF Idle
<1>2. pending = <<>> /\ Range(pending) = {} /\ DOMAIN pending = {} /\ Len(pending) = 0
  BY DEF QueueInit, Range
<1>3. QueueTyped
  <2>1. pending \in Seq(Keys) /\ Len(pending) <= MaxPending
    BY <1>2, FanoutConstants
  <2>2. burst \in 0..MaxBurst
    BY FanoutConstants DEF QueueInit
  <2> QED BY Zenon, <1>1, <2>1, <2>2 DEF QueueInit, QueueTyped
<1> QED
  BY Zenon, <1>1, <1>2, <1>3 DEF QueueInv, QueueIsSound, IndexesAgree, KindIsExact, NoLostWakeup,
     Roused, QueueInit

\* Every kind reaches the peers it was made for, and is not the mark of no entry.
LEMMA KindFacts ==
  /\ AllPeers \in Kinds /\ \A o \in Recipients : ExcludeSource(o) \in Kinds
  /\ NoKind \notin Kinds
  /\ \A a, b \in Kinds : Merge(a, b) \in Kinds
  /\ \A a, b \in Kinds, p \in Recipients :
       Reaches(Merge(a, b), p) <=> Reaches(a, p) \/ Reaches(b, p)
BY Zenon, FanoutConstants DEF AllPeers, ExcludeSource, NoKind, Kinds, Merge, Reaches

\* A change is news to all but its origin.
KindOf(o) == IF o = Local THEN AllPeers ELSE ExcludeSource(o)

LEMMA OriginFacts ==
  ASSUME NEW o \in Origins
  PROVE  /\ KindOf(o) \in Kinds
         /\ \A p \in Recipients : Reaches(KindOf(o), p) <=> p \in Recipients \ {o}
BY Zenon, FanoutConstants, KindFacts DEF KindOf, Origins, AllPeers, ExcludeSource, Reaches

\* The documents of a queue are documents.
LEMMA KeysPending == ASSUME NEW s \in Seq(Keys) PROVE Range(s) \subseteq Keys
<1>1. \A i \in DOMAIN s : s[i] \in Keys
  BY ElementOfSeq, LenProperties
<1>. QED  BY Zenon, <1>1 DEF Range

\* enqueue of a document that is pending: the kinds merge, and nothing else changes.
LEMMA CoalesceKeeps ==
  ASSUME QueueInv, NEW P \in Enqueuers, NEW k \in Keys, NEW o \in Origins, entries[k] # NoKind,
         Enqueue(P, k, KindOf(o), o), UNCHANGED <<linked, burst, closed, sender>>
  PROVE  QueueInv'
<1>1. /\ entries' = [entries EXCEPT ![k] = Merge(entries[k], KindOf(o))]
      /\ news' = [news EXCEPT ![k] = news[k] \cup (Recipients \ {o})]
      /\ pending' = pending /\ rousing' = rousing /\ permit' = permit
      /\ linked' = linked /\ burst' = burst /\ closed' = closed /\ sender' = sender
  BY Zenon DEF Enqueue
<1>2. QueueTyped /\ IndexesAgree /\ KindIsExact
  BY Zenon DEF QueueInv, QueueIsSound
<1>3. entries[k] \in Kinds /\ Merge(entries[k], KindOf(o)) \in Kinds /\ k \in Range(pending)
  BY Zenon, <1>2, KindFacts, OriginFacts DEF QueueTyped, IndexesAgree
<1>4. QueueTyped'
  BY Zenon, <1>1, <1>2, <1>3 DEF QueueTyped
<1>5. IndexesAgree'
  BY Zenon, <1>1, <1>2, <1>3, KindFacts DEF IndexesAgree, QueueTyped
<1>6. KindIsExact'
  <2> SUFFICES ASSUME NEW x \in Range(pending), NEW p \in Recipients
               PROVE  Reaches(entries'[x], p) <=> p \in news'[x]
    BY ZenonT(60), <1>1 DEF KindIsExact
  <2>0. x \in Keys
    BY Zenon, <1>2, KeysPending DEF QueueTyped
  <2>1. CASE x # k
    BY Zenon, <1>1, <1>2, <2>0, <2>1 DEF KindIsExact, QueueTyped
  <2>2. CASE x = k
    <3>1. Reaches(entries[k], p) <=> p \in news[k]
      BY Zenon, <1>2, <1>3 DEF KindIsExact
    <3>2. Reaches(KindOf(o), p) <=> p \in Recipients \ {o}
      BY Zenon, OriginFacts
    <3>3. Reaches(Merge(entries[k], KindOf(o)), p) <=> Reaches(entries[k], p) \/ Reaches(KindOf(o), p)
      BY Zenon, <1>3, KindFacts, OriginFacts
    <3>4. entries'[k] = Merge(entries[k], KindOf(o)) /\ news'[k] = news[k] \cup (Recipients \ {o})
      BY Zenon, <1>1, <1>2 DEF QueueTyped
    <3> QED BY Zenon, <2>2, <3>1, <3>2, <3>3, <3>4
  <2> QED BY Zenon, <2>1, <2>2
<1>7. NoLostWakeup' /\ Roused'
  BY <1>1 DEF QueueInv, QueueIsSound, NoLostWakeup, Roused
<1> QED BY Zenon, <1>4, <1>5, <1>6, <1>7 DEF QueueInv, QueueIsSound

\* A document that is new to the queue: it grows, and perhaps one goes.
Grown(k) == Append(pending, k)
Gone(k) == IF Overflows(Grown(k)) THEN {Grown(k)[Victim(Grown(k))]} ELSE {}
Left(k) == IF Overflows(Grown(k)) THEN Without(Grown(k), Victim(Grown(k))) ELSE Grown(k)

LEMMA GrownFacts ==
  ASSUME QueueInv, NEW k \in Keys, entries[k] = NoKind
  PROVE  /\ Grown(k) \in Seq(Keys) /\ Len(Grown(k)) = Len(pending) + 1 /\ Distinct(Grown(k))
         /\ Range(Grown(k)) = Range(pending) \cup {k} /\ k \notin Range(pending)
         /\ Victim(Grown(k)) \in 1..Len(Grown(k))
<1>1. pending \in Seq(Keys) /\ k \notin Range(pending) /\ Distinct(pending)
  BY DEF QueueInv, QueueIsSound, QueueTyped, IndexesAgree, Distinct
<1>2. /\ Grown(k) \in Seq(Keys) /\ Len(Grown(k)) = Len(pending) + 1
      /\ Grown(k)[Len(pending) + 1] = k /\ \A i \in 1..Len(pending) : Grown(k)[i] = pending[i]
  BY SMTT(60), <1>1 DEF Grown
<1>3. Distinct(Grown(k))
  BY <1>1, <1>2 DEF Distinct, Range
<1>4. Range(Grown(k)) = Range(pending) \cup {k}
  <2>1. DOMAIN Grown(k) = 1..(Len(pending) + 1) /\ DOMAIN pending = 1..Len(pending) /\ Len(pending) \in Nat
    BY SMTT(60), <1>1, <1>2
  <2>2. ASSUME NEW x \in Range(Grown(k)) PROVE x \in Range(pending) \cup {k}
    BY SMTT(60), <1>2, <2>1, <2>2 DEF Range
  <2>3. ASSUME NEW x \in Range(pending) PROVE x \in Range(Grown(k))
    <3>1. PICK i \in 1..Len(pending) : x = pending[i]
      BY Zenon, <2>1, <2>3 DEF Range
    <3> QED BY <1>2, <2>1, <3>1 DEF Range
  <2>4. k \in Range(Grown(k))
    BY <1>2, <2>1 DEF Range
  <2> QED BY ZenonT(60), <2>2, <2>3, <2>4
<1>5. Grown(k) # <<>>
  BY <1>1, <1>2
<1> QED BY ZenonT(60), <1>1, <1>2, <1>3, <1>4, <1>5, VictimFacts

LEMMA LeftFacts ==
  ASSUME QueueInv, NEW k \in Keys, entries[k] = NoKind
  PROVE  /\ Left(k) \in Seq(Keys) /\ Len(Left(k)) <= MaxPending /\ Distinct(Left(k))
         /\ Range(Left(k)) = (Range(pending) \cup {k}) \ Gone(k)
<1>1. pending \in Seq(Keys) /\ Len(pending) <= MaxPending
  BY ZenonT(60) DEF QueueInv, QueueIsSound, QueueTyped
<1>2. CASE Overflows(Grown(k))
  BY SMTT(60), <1>1, <1>2, GrownFacts, WithoutFacts, FanoutConstants DEF Left, Gone
<1>3. CASE ~Overflows(Grown(k))
  BY <1>1, <1>3, GrownFacts, FanoutConstants DEF Left, Gone, Overflows
<1> QED BY Zenon, <1>2, <1>3

LEMMA InsertKeeps ==
  ASSUME QueueInv, NEW P \in Enqueuers, NEW k \in Keys, NEW o \in Origins, entries[k] = NoKind,
         Enqueue(P, k, KindOf(o), o), UNCHANGED <<linked, burst, closed, sender>>
  PROVE  QueueInv'
<1>1. /\ pending' = Left(k) /\ rousing' = rousing \cup {P} /\ permit' = permit
      /\ entries' = [x \in Keys |-> IF x \in Gone(k) THEN NoKind ELSE IF x = k THEN KindOf(o) ELSE entries[x]]
      /\ news' = [x \in Keys |-> IF x \in Gone(k) THEN {} ELSE IF x = k THEN Recipients \ {o} ELSE news[x]]
      /\ linked' = linked /\ burst' = burst /\ closed' = closed /\ sender' = sender
  BY Zenon DEF Enqueue, Left, Gone, Grown
<1>2. QueueTyped /\ IndexesAgree /\ KindIsExact
  BY Zenon DEF QueueInv, QueueIsSound
<1>3. KindOf(o) \in Kinds /\ KindOf(o) # NoKind
  BY Zenon, KindFacts, OriginFacts
<1>4. QueueTyped'
  BY Zenon, <1>1, <1>2, <1>3, LeftFacts DEF QueueTyped
<1>5. IndexesAgree'
  <2>1. \A x \in Keys : entries'[x] # NoKind <=> x \in Range(pending')
    BY SMTT(60), <1>1, <1>2, <1>3, LeftFacts DEF IndexesAgree
  <2>2. \A i, j \in DOMAIN pending' : pending'[i] = pending'[j] => i = j
    <3>1. DOMAIN Left(k) = 1..Len(Left(k))
      BY LeftFacts
    <3> QED BY SMTT(60), <1>1, <3>1, LeftFacts DEF Distinct
  <2> QED BY ZenonT(60), <2>1, <2>2 DEF IndexesAgree
<1>6. KindIsExact'
  <2> SUFFICES ASSUME NEW x \in Range(pending'), NEW p \in Recipients
               PROVE  Reaches(entries'[x], p) <=> p \in news'[x]
    BY ZenonT(60), <1>1 DEF KindIsExact
  <2>1. x \in Keys /\ x \notin Gone(k) /\ (x = k \/ x \in Range(pending))
    <3>1. x \in (Range(pending) \cup {k}) \ Gone(k)
      BY Zenon, <1>1, LeftFacts
    <3>2. Range(pending) \subseteq Keys
      BY Zenon, <1>2, KeysPending DEF QueueTyped
    <3> QED BY Zenon, <3>1, <3>2
  <2>2. CASE x = k
    BY Zenon, <1>1, <2>1, <2>2, OriginFacts
  <2>3. CASE x # k
    BY Zenon, <1>1, <1>2, <2>1, <2>3 DEF KindIsExact
  <2> QED BY Zenon, <2>2, <2>3
<1>7. NoLostWakeup' /\ Roused'
  BY Zenon, <1>1 DEF NoLostWakeup, Roused
<1> QED BY Zenon, <1>4, <1>5, <1>6, <1>7 DEF QueueInv, QueueIsSound

\* pop takes one document out of the set and of the map.
LEMMA PopKeeps == QueueInv /\ Pop => QueueInv'
<1> SUFFICES ASSUME QueueInv, Pop PROVE QueueInv'
  BY Zenon
<1>1. QueueTyped /\ IndexesAgree /\ KindIsExact
  BY Zenon DEF QueueInv, QueueIsSound
<1>2. pending # <<>> /\ Distinct(pending) /\ pending \in Seq(Keys)
  BY SMTT(60), <1>1 DEF Pop, IndexesAgree, Distinct, QueueTyped
<1>3. Served.at \in 1..Len(pending) /\ Served.burst \in 0..MaxBurst
  <2>1. Highest(pending) \in 1..Len(pending)
    BY ZenonT(60), <1>2, HighestFacts
  <2> QED BY <1>1, <1>2, <2>1, FanoutConstants DEF Served, QueueTyped
<1> DEFINE k == pending[Served.at]
<1>4. /\ k \in Keys /\ burst' \in 0..MaxBurst /\ pending' = Without(pending, Served.at)
      /\ entries' = [entries EXCEPT ![k] = NoKind] /\ news' = [news EXCEPT ![k] = {}]
      /\ sender' = [pc |-> "fan", key |-> k, todo |-> {p \in linked : Reaches(entries[k], p)}]
      /\ linked' = linked /\ rousing' = rousing /\ permit' = permit /\ closed' = closed
  BY <1>2, <1>3 DEF Pop
<1> HIDE DEF k
<1>5. /\ pending' \in Seq(Keys) /\ Len(pending') = Len(pending) - 1
      /\ Distinct(pending') /\ Range(pending') = Range(pending) \ {k}
  BY ZenonT(60), <1>2, <1>3, <1>4, WithoutFacts DEF k
<1>6. QueueTyped'
  BY <1>1, <1>4, <1>5, FanoutConstants DEF QueueTyped
<1>7. IndexesAgree'
  <2>1. \A x \in Keys : entries'[x] # NoKind <=> x \in Range(pending')
    BY Zenon, <1>1, <1>4, <1>5 DEF IndexesAgree, QueueTyped
  <2>2. DOMAIN pending' = 1..Len(pending')
    BY SMTT(60), <1>5
  <2> QED BY Zenon, <1>5, <2>1, <2>2 DEF IndexesAgree, Distinct
<1>8. KindIsExact'
  <2> SUFFICES ASSUME NEW x \in Range(pending'), NEW p \in Recipients
               PROVE  Reaches(entries'[x], p) <=> p \in news'[x]
    BY Zenon, <1>4 DEF KindIsExact
  <2>1. x \in Range(pending) /\ x # k
    BY Zenon, <1>5
  <2> QED BY <1>1, <1>4, <2>1 DEF KindIsExact, QueueTyped
<1>9. NoLostWakeup' /\ Roused'
  BY Zenon, <1>4 DEF NoLostWakeup, Roused
<1> QED BY Zenon, <1>6, <1>7, <1>8, <1>9 DEF QueueInv, QueueIsSound

\* A worker that has nothing to pop rests only over an empty queue or a permit.
LEMMA QuietKeeps ==
  ASSUME QueueInv, UNCHANGED <<pending, entries, news>>, QueueTyped', NoLostWakeup', Roused'
  PROVE  QueueInv'
BY Zenon DEF QueueInv, QueueIsSound, IndexesAgree, KindIsExact

LEMMA QueueStep == QueueInv /\ [QueueNext]_queueVars => QueueInv'
<1> SUFFICES ASSUME QueueInv, [QueueNext]_queueVars PROVE QueueInv'
  BY Zenon
<1>1. QueueTyped /\ NoLostWakeup /\ Roused
  BY Zenon DEF QueueInv, QueueIsSound
<1>2. Idle \in [pc : {"pop"}, key : Keys, todo : SUBSET Recipients]
  BY Zenon, FanoutConstants DEF Idle
<1>3. ASSUME NEW k \in Keys, NEW o \in Origins, SyncOnChange(k, o) PROVE QueueInv'
  <2>1. /\ "listener" \in Enqueuers /\ Enqueue("listener", k, KindOf(o), o)
        /\ UNCHANGED <<linked, burst, closed, sender>>
    BY Zenon, <1>3 DEF SyncOnChange, KindOf, Enqueuers
  <2> QED BY Zenon, <2>1, CoalesceKeeps, InsertKeeps
<1>4. ASSUME NEW k \in Keys, QueueExplicit(k) PROVE QueueInv'
  <2>1. /\ Local \in Origins /\ "call" \in Enqueuers /\ Enqueue("call", k, KindOf(Local), Local)
        /\ UNCHANGED <<linked, burst, closed, sender>>
    BY Zenon, <1>4 DEF QueueExplicit, KindOf, Origins, Enqueuers
  <2> QED BY Zenon, <2>1, CoalesceKeeps, InsertKeeps
<1>5. CASE CloseQueue
  <2>1. QueueTyped' /\ NoLostWakeup' /\ Roused'
    BY Zenon, <1>1, <1>5 DEF CloseQueue, queued, QueueTyped, NoLostWakeup, Roused, Enqueuers
  <2> QED BY Zenon, <1>5, <2>1, QuietKeeps DEF CloseQueue, queued
<1>14. ASSUME NEW P \in Enqueuers, Notify(P) PROVE QueueInv'
  <2>1. QueueTyped' /\ NoLostWakeup' /\ Roused'
    BY Zenon, <1>1, <1>14 DEF Notify, queued, QueueTyped, NoLostWakeup, Roused
  <2> QED BY Zenon, <1>14, <2>1, QuietKeeps DEF Notify, queued
<1>6. CASE Pop
  BY Zenon, <1>6, PopKeeps
<1>7. CASE FanoutDone
  <2>1. QueueTyped' /\ NoLostWakeup' /\ Roused'
    BY Zenon, <1>1, <1>2, <1>7 DEF FanoutDone, queued, QueueTyped, NoLostWakeup, Roused
  <2> QED BY Zenon, <1>7, <2>1, QuietKeeps DEF FanoutDone, queued
<1>8. CASE PopEmpty
  <2>0. sender' \in [pc : {"check"}, key : Keys, todo : SUBSET Recipients]
    BY Zenon, <1>2, <1>8 DEF PopEmpty
  <2>1. QueueTyped' /\ NoLostWakeup' /\ Roused'
    BY <1>1, <1>8, <2>0, FanoutConstants DEF PopEmpty, QueueTyped, NoLostWakeup, Roused
  <2> QED BY Zenon, <1>8, <2>1, QuietKeeps DEF PopEmpty
<1>9. CASE CheckClosed
  <2>0. sender' \in [pc : {"done", "wait"}, key : Keys, todo : SUBSET Recipients]
        /\ (sender'.pc = "wait" => ~closed)
    BY Zenon, <1>2, <1>9 DEF CheckClosed
  <2>1. QueueTyped' /\ NoLostWakeup' /\ Roused'
    BY Zenon, <1>1, <1>9, <2>0 DEF CheckClosed, queued, QueueTyped, NoLostWakeup, Roused
  <2> QED BY Zenon, <1>9, <2>1, QuietKeeps DEF CheckClosed, queued
<1>10. CASE Wake
  <2>1. QueueTyped' /\ NoLostWakeup' /\ Roused'
    BY Zenon, <1>1, <1>2, <1>10 DEF Wake, queued, QueueTyped, NoLostWakeup, Roused
  <2> QED BY Zenon, <1>10, <2>1, QuietKeeps DEF Wake, queued
<1>11. ASSUME NEW p \in Recipients, SyncWith(p) PROVE QueueInv'
  <2>0. sender' \in [pc : {"fan"}, key : Keys, todo : SUBSET Recipients]
    BY Zenon, <1>1, <1>11 DEF SyncWith, QueueTyped
  <2>1. QueueTyped' /\ NoLostWakeup' /\ Roused'
    BY Zenon, <1>1, <1>11, <2>0 DEF SyncWith, queued, QueueTyped, NoLostWakeup, Roused
  <2> QED BY Zenon, <1>11, <2>1, QuietKeeps DEF SyncWith, queued
<1>12. ASSUME NEW p \in Recipients, RecipientsChange(p) PROVE QueueInv'
  <2>1. QueueTyped' /\ NoLostWakeup' /\ Roused'
    BY Zenon, <1>1, <1>12 DEF RecipientsChange, queued, QueueTyped, NoLostWakeup, Roused
  <2> QED BY Zenon, <1>12, <2>1, QuietKeeps DEF RecipientsChange, queued
<1>13. CASE UNCHANGED queueVars
  BY Zenon, <1>1, <1>13, QuietKeeps DEF queueVars, queued, QueueTyped, NoLostWakeup, Roused
<1> QED BY ZenonT(60), <1>3, <1>4, <1>5, <1>6, <1>7, <1>8, <1>9, <1>10, <1>11, <1>12, <1>13, <1>14
        DEF QueueNext, Worker

\* The fanout queue is sound (fanout.rs, enqueue, pop, close and run): its set and its
\* map agree and hold MAX_PENDING documents at most, a merged entry reaches exactly the
\* peers it is news to, and no worker parks over work or after close.  For any
\* documents, classes and peers, and any limits.
THEOREM QueueAlwaysSound == QueueSpec => []QueueIsSound
<1>1. QueueInv => QueueIsSound
  BY Zenon DEF QueueInv
<1> QED BY <1>1, QueueStarts, QueueStep, PTL DEF QueueSpec

\* A step of enqueue sheds a document only if no less urgent one stays.
LEMMA InsertSheds ==
  ASSUME QueueInv, NEW P, NEW k \in Keys, NEW o \in Origins, Enqueue(P, k, KindOf(o), o),
         NEW d \in Range(pending) \ Range(pending'), NEW j \in Range(pending')
  PROVE  Rank[j] <= Rank[d]
<1>1. CASE entries[k] # NoKind
  BY Zenon, <1>1 DEF Enqueue
<1>2. CASE entries[k] = NoKind
  <2>1. pending' = Left(k)
    BY Zenon, <1>2 DEF Enqueue, Left, Grown
  <2>2. d \in Gone(k) /\ j \in Range(Grown(k))
    BY Zenon, <1>2, <2>1, LeftFacts, GrownFacts
  <2>3. d = Grown(k)[Victim(Grown(k))] /\ Grown(k) \in Seq(Keys) /\ Grown(k) # <<>>
    BY SMTT(60), <1>2, <2>2, GrownFacts DEF Gone
  <2>4. PICK i \in 1..Len(Grown(k)) : j = Grown(k)[i]
    BY <2>2, <2>3 DEF Range
  <2>5. Rank[j] < Rank[d] \/ Rank[j] = Rank[d]
    BY Zenon, <2>3, <2>4, VictimFacts
  <2>6. Rank[j] \in 1..5 /\ Rank[d] \in 1..5
    <3>1. j \in Keys /\ d \in Keys
      BY <1>2, <2>3, <2>4, GrownFacts
    <3> QED BY ZenonT(60), <3>1, FanoutConstants
  <2> QED BY <2>5, <2>6
<1> QED BY Zenon, <1>1, <1>2

\* A full queue sheds no document while a less urgent one stays (fanout.rs, enqueue): a
\* document leaves the queue to be served, or as the least urgent of all.
THEOREM QueueAlwaysShedsLowest == QueueSpec => ShedsLowest
<1>1. QueueInv /\ [QueueNext]_queueVars => [Sheds]_queueVars
  <2> SUFFICES ASSUME QueueInv, QueueNext, NEW d \in Range(pending) \ Range(pending')
               PROVE  \/ sender'.pc = "fan" /\ sender'.key = d
                      \/ \A j \in Range(pending') : Rank[j] <= Rank[d]
    BY Zenon DEF Sheds
  <2>1. ASSUME NEW k \in Keys, NEW o \in Origins, SyncOnChange(k, o)
        PROVE  \A j \in Range(pending') : Rank[j] <= Rank[d]
    <3>1. Enqueue("listener", k, KindOf(o), o)
      BY Zenon, <2>1 DEF SyncOnChange, KindOf
    <3> QED BY Zenon, <3>1, InsertSheds
  <2>2. ASSUME NEW k \in Keys, QueueExplicit(k)
        PROVE  \A j \in Range(pending') : Rank[j] <= Rank[d]
    <3>1. Local \in Origins /\ Enqueue("call", k, KindOf(Local), Local)
      BY Zenon, <2>2 DEF QueueExplicit, KindOf, Origins
    <3> QED BY Zenon, <3>1, InsertSheds
  <2>3. CASE Pop
    <3>1. pending # <<>> /\ Distinct(pending) /\ pending \in Seq(Keys) /\ QueueTyped
      BY <2>3 DEF Pop, QueueInv, QueueIsSound, IndexesAgree, Distinct, QueueTyped
    <3>2. Served.at \in 1..Len(pending)
      BY <3>1, HighestFacts DEF Served
    <3>3. Range(pending') = Range(pending) \ {pending[Served.at]}
      BY Zenon, <2>3, <3>1, <3>2, WithoutFacts DEF Pop
    <3>4. sender'.pc = "fan" /\ sender'.key = pending[Served.at]
      BY Zenon, <2>3 DEF Pop
    <3> QED BY ZenonT(60), <3>3, <3>4
  <2>4. CASE CloseQueue \/ FanoutDone \/ PopEmpty \/ CheckClosed \/ Wake
             \/ (\E p \in Recipients : SyncWith(p) \/ RecipientsChange(p))
             \/ \E P \in Enqueuers : Notify(P)
    <3>1. pending' = pending
      BY Zenon, <2>4 DEF CloseQueue, FanoutDone, PopEmpty, CheckClosed, Wake, SyncWith, RecipientsChange, Notify, queued
    <3> QED BY Zenon, <3>1
  <2> QED BY Zenon, <2>1, <2>2, <2>3, <2>4 DEF QueueNext, Worker
<1> QED BY <1>1, QueueStarts, QueueStep, PTL DEF QueueSpec, ShedsLowest
=============================================================================
