--------------------------- MODULE ProgressProofs ---------------------------
(***************************************************************************)
(* Proofs about the life of a bundle (Progress), for any number of         *)
(* distributions, peers, cancel requests and subscribers and rings of any  *)
(* length.                                                                 *)
(*                                                                         *)
(* A slot that has ended is not always counted yet, and its frame is not   *)
(* always sent: the invariant follows each of them from the thread that    *)
(* wrote the slot to the counter (Counting) and to the rings (Frames).     *)
(***************************************************************************)
EXTENDS Progress, FiniteSetTheorems, TLAPS

Updates == [agg : States, complete : BOOLEAN]
Frame == [dist : Dists, status : States]
Tasks ==
  [pc : {"status", "subscribe", "loop", "count", "send", "check", "update",
         "idle", "cancel", "apply", "done"},
   dist : Dists, frame : States, next : {"loop", "check", "done"},
   verdict : {"pending"} \cup Final, reply : {"none", "yes", "no", "error"}]
Streams ==
  [pc : {"idle", "snapshot", "stream", "closed"}, ring : Seq(Frame), ids : SUBSET Dists,
   got : SUBSET Dists, terminals : Nat, lagged : BOOLEAN]

Typed ==
  /\ peers \in [Dists -> [running : Nat, completed : Nat, failed : Nat]]
  /\ revoked \subseteq Dists /\ events \in [Dists -> Seq(Updates)]
  /\ grace \in [Dists -> {"sleep", "write", "done"}]
  /\ slot \in [Dists -> States] /\ relabelled \subseteq Dists
  /\ status \in {"pending"} \cup Final
  /\ thread \in [Threads -> Tasks] /\ sub \in [Subscribers -> Streams]

\* A watcher is its distribution's.
Own == \A d \in Dists : thread[d].dist = d

\* Transfers are neither lost nor invented, and COMPLETED is said of those that are done.
Pulled ==
  /\ \A d \in Dists :
       /\ peers[d].running + peers[d].completed <= Targets[d]
       /\ peers[d].failed = 0 => peers[d].running + peers[d].completed = Targets[d]
       /\ slot[d] = "completed" => peers[d].completed = Targets[d]
  /\ \A d \in Dists : \A i \in 1..Len(events[d]) :
       events[d][i].agg = "completed" => peers[d].completed = Targets[d]

\* Each slot that has ended is counted, or one thread is about to count it.
Counter(t, d) == thread[t].pc = "count" /\ thread[t].dist = d
Counted == {d \in Dists : Ended(d) /\ \A t \in Threads : ~Counter(t, d)}
Counting ==
  /\ \A t \in Threads, d \in Dists : Counter(t, d) => Ended(d)
  /\ \A t, u \in Threads, d \in Dists : Counter(t, d) /\ Counter(u, d) => t = u
  /\ count = Cardinality(Counted)

\* A status that is written, or about to be, is true for good.
True(s) == /\ \A d \in Dists : Ended(d)
           /\ s = "completed" => \A d \in Dists : slot[d] = "completed"
Decided == /\ \A t \in Threads : thread[t].pc = "update" => True(thread[t].verdict)
           /\ status # "pending" => True(status)

\* A cancellation that was accepted is applied before its handler goes on.
Accepted == \A c \in Cancels : thread[c].reply = "yes" =>
  thread[c].pc = "apply" \/ slot[thread[c].dist] \in {"cancelled", "completed"}

\* A terminal frame of d that t has yet to send, and one on the ring of s.
Pending(t, d) == /\ thread[t].pc \in {"count", "send"} /\ thread[t].dist = d
                 /\ Terminal(thread[t].frame)
OnRing(s, i, d) == /\ i \in 1..Len(sub[s].ring)
                   /\ sub[s].ring[i].dist = d /\ Terminal(sub[s].ring[i].status)

\* Until a cancellation relabels a slot there is at most one terminal frame of each
\* distribution for a stream to count.
Once ==
  /\ \A t \in Threads, d \in Dists : Pending(t, d) => Ended(d)
  /\ \A t, u \in Threads, d \in Dists : Pending(t, d) /\ Pending(u, d) => t = u
Streamed(s) == \A d \in Dists :
  /\ \A i \in Nat : OnRing(s, i, d) => Ended(d) /\ \A t \in Threads : ~Pending(t, d)
  /\ \A i, j \in Nat : OnRing(s, i, d) /\ OnRing(s, j, d) => i = j
  /\ sub[s].pc = "stream" /\ d \in sub[s].got \ sub[s].ids =>
       Ended(d) /\ (\A t \in Threads : ~Pending(t, d)) /\ \A i \in Nat : ~OnRing(s, i, d)
Totals(s) == /\ sub[s].pc = "stream" => sub[s].terminals = Cardinality(sub[s].got)
             /\ sub[s].pc = "closed" => sub[s].got = Dists
Frames ==
  relabelled = {} => Once /\ \A s \in Subscribers : Streamed(s) /\ Totals(s)

\* What holds of a stream in any case.
Shape(s) ==
  /\ sub[s].pc \in {"idle", "closed"} => sub[s].ring = <<>>
  /\ Len(sub[s].ring) <= Backlog /\ sub[s].ids \subseteq sub[s].got
  /\ sub[s].pc \in {"idle", "snapshot"} => sub[s].got = {} /\ sub[s].terminals = 0
  /\ sub[s].pc = "stream" => sub[s].terminals < Total
  /\ sub[s].terminals <= Total

IInv ==
  /\ Typed /\ Own /\ Pulled /\ Counting /\ Decided /\ Accepted /\ Frames
  /\ \A s \in Subscribers : Shape(s)

-----------------------------------------------------------------------------
(***************************************************************************)
(* What a step of a thread does to the slots: nothing (Quiet), it writes   *)
(* one that had not ended (Fresh), or it takes over a failed one (Relabel).*)
(***************************************************************************)
Busy == {"count", "send"}
Only(t) == /\ \A u \in Threads : u # t => thread'[u] = thread[u]
           /\ thread'[t].dist = thread[t].dist
\* A handler that has applied its cancellation.
Applied(t) == thread[t].reply = "yes" /\ thread[t].pc # "apply"

Quiet(t) ==
  /\ Only(t) /\ thread[t].pc \notin Busy /\ thread'[t].pc \notin Busy
  /\ thread'[t].reply = "yes" =>
       \/ thread'[t].pc = "apply" \/ Applied(t)
       \/ slot[thread[t].dist] \in {"cancelled", "completed"}
  /\ thread'[t].pc = "update" => True(thread'[t].verdict)
  /\ status' = status \/ True(status')
  /\ UNCHANGED <<slot, count, relabelled, sub>>

Fresh(t, new) ==
  /\ Only(t) /\ thread[t].pc \notin Busy /\ ~Ended(thread[t].dist)
  /\ slot' = [slot EXCEPT ![thread[t].dist] = new]
  /\ thread'[t].pc = IF Terminal(new) THEN "count" ELSE "send"
  /\ thread'[t].frame = new
  /\ thread'[t].reply = "yes" => new = "cancelled" \/ Applied(t)
  /\ UNCHANGED <<count, relabelled, status, sub>>

Relabel(t) ==
  /\ Only(t) /\ thread[t].pc \notin Busy /\ slot[thread[t].dist] = "failed"
  /\ slot' = [slot EXCEPT ![thread[t].dist] = "cancelled"]
  /\ thread'[t].pc = "send" /\ relabelled' # {}
  /\ UNCHANGED <<count, status, sub>>

LEMMA BecomesEffect ==
  ASSUME Typed, NEW t \in Threads, NEW r \in Tasks, Becomes(t, r), r.dist = thread[t].dist
  PROVE  thread' \in [Threads -> Tasks] /\ thread'[t] = r /\ Only(t)
BY Zenon DEF Typed, Becomes, Only

LEMMA ThreadTyped ==
  ASSUME Typed, NEW t \in Threads
  PROVE  /\ thread[t] \in Tasks /\ thread[t].dist \in Dists
         /\ slot[thread[t].dist] \in States
<1>1. thread[t] \in Tasks
  BY Zenon DEF Typed
<1>2. thread[t].dist \in Dists
  BY Zenon, <1>1 DEF Tasks
<1>. QED  BY Zenon, <1>1, <1>2 DEF Typed

Places == {"status", "subscribe", "loop", "count", "send", "check", "update",
           "idle", "cancel", "apply", "done"}

\* A new program counter.
LEMMA NewPlace ==
  ASSUME NEW r \in Tasks, NEW p \in Places
  PROVE  /\ [r EXCEPT !.pc = p] \in Tasks /\ [r EXCEPT !.pc = p].pc = p
         /\ [r EXCEPT !.pc = p].dist = r.dist /\ [r EXCEPT !.pc = p].reply = r.reply
         /\ [r EXCEPT !.pc = p].frame = r.frame
BY Zenon DEF Tasks, Places

LEMMA ApplyProgressEffect ==
  ASSUME Typed, NEW t \in Threads, NEW new \in States, NEW next \in {"loop", "check"},
         ApplyProgress(t, thread[t].dist, new, next),
         thread[t].pc \in {"status", "subscribe", "loop"},
         UNCHANGED <<count, relabelled, status, sub>>
  PROVE  /\ thread' \in [Threads -> Tasks] /\ slot' \in [Dists -> States]
         /\ Quiet(t) \/ Fresh(t, new)
<1>1. thread[t] \in Tasks /\ thread[t].dist \in Dists /\ slot \in [Dists -> States]
  BY Zenon, ThreadTyped DEF Typed
<1>2. CASE Terminal(slot[thread[t].dist])
  <2>1. Goto(t, next) /\ UNCHANGED slot
    BY Zenon, <1>2 DEF ApplyProgress
  <2>2. /\ [thread[t] EXCEPT !.pc = next] \in Tasks
        /\ [thread[t] EXCEPT !.pc = next].dist = thread[t].dist
        /\ [thread[t] EXCEPT !.pc = next].reply = thread[t].reply
        /\ [thread[t] EXCEPT !.pc = next].pc = next
    <3>1. next \in Places
      BY Zenon DEF Places
    <3>. QED  BY Zenon, <1>1, <3>1, NewPlace
  <2>3. thread' \in [Threads -> Tasks] /\ thread'[t] = [thread[t] EXCEPT !.pc = next] /\ Only(t)
    BY Zenon, <2>1, <2>2, BecomesEffect DEF Goto
  <2>4. Quiet(t)
    BY Zenon, <2>1, <2>2, <2>3 DEF Quiet, Busy, Applied
  <2>. QED  BY Zenon, <1>1, <2>1, <2>3, <2>4
<1>3. CASE ~Terminal(slot[thread[t].dist])
  <2>. DEFINE p == IF Terminal(new) THEN "count" ELSE "send"
              r == [thread[t] EXCEPT !.pc = p, !.frame = new, !.next = next]
  <2>1. slot' = [slot EXCEPT ![thread[t].dist] = new] /\ Becomes(t, r)
    BY Zenon, <1>3 DEF ApplyProgress
  <2>2. r \in Tasks /\ r.dist = thread[t].dist /\ r.reply = thread[t].reply /\ r.pc = p
        /\ r.frame = new
    <3>1. p \in Places /\ next \in {"loop", "check", "done"}
      BY Zenon DEF Places
    <3>. HIDE DEF p
    <3>. QED  BY ZenonT(60), <1>1, <3>1 DEF Tasks, Places
  <2>. HIDE DEF r
  <2>3. thread' \in [Threads -> Tasks] /\ thread'[t] = r /\ Only(t)
    BY Zenon, <2>1, <2>2, BecomesEffect
  <2>4. Fresh(t, new)
    BY Zenon, <1>3, <2>1, <2>2, <2>3 DEF Fresh, Busy, Applied, Ended
  <2>. QED  BY Zenon, <1>1, <2>1, <2>3, <2>4
<1>. QED  BY Zenon, <1>2, <1>3

LEMMA ApplyCancellationEffect ==
  ASSUME Typed, NEW t \in Threads, ApplyCancellation(t, thread[t].dist),
         thread[t].pc = "apply", UNCHANGED <<count, status, sub>>
  PROVE  /\ thread' \in [Threads -> Tasks] /\ slot' \in [Dists -> States]
         /\ relabelled' \subseteq Dists
         /\ Quiet(t) \/ Fresh(t, "cancelled") \/ Relabel(t)
         /\ slot' = slot \/ slot' = [slot EXCEPT ![thread[t].dist] = "cancelled"]
<1>1. /\ thread[t] \in Tasks /\ thread[t].dist \in Dists /\ slot \in [Dists -> States]
      /\ relabelled \subseteq Dists /\ slot[thread[t].dist] \in States
  BY Zenon, ThreadTyped DEF Typed
<1>. DEFINE d == thread[t].dist
<1>2. CASE slot[d] \in {"completed", "cancelled"}
  <2>1. Goto(t, "check") /\ UNCHANGED <<slot, relabelled>>
    BY Zenon, <1>2 DEF ApplyCancellation
  <2>2. /\ [thread[t] EXCEPT !.pc = "check"] \in Tasks
        /\ [thread[t] EXCEPT !.pc = "check"].dist = thread[t].dist
        /\ [thread[t] EXCEPT !.pc = "check"].pc = "check"
    BY Zenon, <1>1, NewPlace DEF Places
  <2>3. thread' \in [Threads -> Tasks] /\ thread'[t] = [thread[t] EXCEPT !.pc = "check"] /\ Only(t)
    BY Zenon, <2>1, <2>2, BecomesEffect DEF Goto
  <2>4. Quiet(t)
    BY Zenon, <1>2, <2>1, <2>2, <2>3 DEF Quiet, Busy
  <2>. QED  BY Zenon, <1>1, <2>1, <2>3, <2>4
<1>3. CASE slot[d] \notin {"completed", "cancelled"}
  <2>. DEFINE p == IF Terminal(slot[d]) THEN "send" ELSE "count"
              r == [thread[t] EXCEPT !.pc = p, !.frame = "cancelled", !.next = "check"]
  <2>1. /\ slot' = [slot EXCEPT ![thread[t].dist] = "cancelled"] /\ Becomes(t, r)
        /\ relabelled' = relabelled \cup ({d} \cap {x \in Dists : Terminal(slot[x])})
    BY Zenon, <1>3 DEF ApplyCancellation
  <2>2. r \in Tasks /\ r.dist = thread[t].dist /\ r.reply = thread[t].reply /\ r.pc = p
        /\ r.frame = "cancelled"
    <3>1. p \in Places /\ "cancelled" \in States /\ "check" \in {"loop", "check", "done"}
      BY Zenon DEF States, Final, Places
    <3>. HIDE DEF p
    <3>. QED  BY ZenonT(60), <1>1, <3>1 DEF Tasks, Places
  <2>. HIDE DEF r
  <2>3. thread' \in [Threads -> Tasks] /\ thread'[t] = r /\ Only(t)
    BY Zenon, <2>1, <2>2, BecomesEffect
  <2>4. slot' \in [Dists -> States] /\ relabelled' \subseteq Dists
    BY Zenon, <1>1, <2>1 DEF States, Final
  <2>5. CASE Terminal(slot[d])
    <3>1. slot[d] = "failed"
      BY Zenon, <1>3, <2>5 DEF Terminal, Final
    <3>2. relabelled' # {}
      BY Zenon, <1>1, <2>1, <2>5
    <3>3. Relabel(t)
      BY Zenon, <2>1, <2>2, <2>3, <2>5, <3>1, <3>2 DEF Relabel, Busy
    <3>. QED  BY Zenon, <2>1, <2>3, <2>4, <3>3
  <2>6. CASE ~Terminal(slot[d])
    <3>1. UNCHANGED relabelled
      BY Zenon, <2>1, <2>6
    <3>2. Terminal("cancelled")
      BY Zenon DEF Terminal, Final
    <3>3. Fresh(t, "cancelled")
      BY Zenon, <2>1, <2>2, <2>3, <2>6, <3>1, <3>2 DEF Fresh, Busy, Ended
    <3>. QED  BY Zenon, <2>1, <2>3, <2>4, <3>3
  <2>. QED  BY Zenon, <2>5, <2>6
<1>. QED  BY Zenon, <1>2, <1>3

-----------------------------------------------------------------------------
(***************************************************************************)
(* A step of a thread keeps what the invariant says beside types and       *)
(* tallies, in the three ways it may touch the slots.                      *)
(***************************************************************************)
Rest ==
  /\ Own /\ Counting /\ Decided /\ Accepted /\ Frames
  /\ \A s \in Subscribers : Shape(s)

\* A slot that has ended stays so, and COMPLETED and CANCELLED stay what they are.
Grows == \A d \in Dists :
  /\ Terminal(slot[d]) => Terminal(slot'[d])
  /\ slot[d] \in {"cancelled", "completed"} => slot'[d] = slot[d]

LEMMA DecidedKeeps ==
  ASSUME Decided, Grows, status' = status,
         \A t \in Threads : thread'[t].pc = "update" =>
           thread[t].pc = "update" /\ thread'[t].verdict = thread[t].verdict
  PROVE  Decided'
<1>1. ASSUME NEW x, True(x)
      PROVE  /\ \A d \in Dists : Terminal(slot'[d])
             /\ x = "completed" => \A d \in Dists : slot'[d] = "completed"
  BY Zenon, <1>1 DEF True, Ended, Grows
<1>2. ASSUME NEW t \in Threads, thread'[t].pc = "update" PROVE True(thread[t].verdict)'
  <2>1. True(thread[t].verdict) /\ thread'[t].verdict = thread[t].verdict
    BY Zenon, <1>2 DEF Decided
  <2>. QED  BY Zenon, <1>1, <2>1 DEF True, Ended
<1>3. ASSUME status' # "pending" PROVE True(status)'
  <2>1. True(status)
    BY Zenon, <1>3 DEF Decided
  <2>. QED  BY Zenon, <1>1, <2>1 DEF True, Ended
<1>. QED  BY Zenon, <1>2, <1>3 DEF Decided

LEMMA QuietKeeps ==
  ASSUME Typed, Rest, NEW t \in Threads, Quiet(t) PROVE Rest'
<1>1. /\ \A u \in Threads : u # t => thread'[u] = thread[u]
      /\ thread'[t].dist = thread[t].dist
      /\ thread[t].pc \notin Busy /\ thread'[t].pc \notin Busy
      /\ slot' = slot /\ count' = count /\ relabelled' = relabelled /\ sub' = sub
  BY Zenon DEF Quiet, Only
<1>2. Own'
  BY Zenon, <1>1 DEF Rest, Own, Threads
<1>3. \A u \in Threads, d \in Dists : Counter(u, d)' <=> Counter(u, d)
  BY Zenon, <1>1 DEF Counter, Busy
<1>4. \A u \in Threads, d \in Dists : Pending(u, d)' <=> Pending(u, d)
  BY Zenon, <1>1 DEF Pending, Busy
<1>5. \A d \in Dists : Ended(d)' <=> Ended(d)
  BY Zenon, <1>1 DEF Ended
<1>6. Counted' = Counted
  BY Zenon, <1>3, <1>5 DEF Counted
<1>7. Counting'
  BY Zenon, <1>1, <1>3, <1>5, <1>6 DEF Rest, Counting
<1>8. Decided'
  <2>1. ASSUME NEW x, True(x)
        PROVE  /\ \A d \in Dists : Ended(d)'
               /\ x = "completed" => \A d \in Dists : slot'[d] = "completed"
    BY Zenon, <1>1, <1>5, <2>1 DEF True
  <2>2. \A u \in Threads : thread'[u].pc = "update" => True(thread'[u].verdict)
    BY Zenon, <1>1 DEF Rest, Decided, Quiet
  <2>3. status' # "pending" => True(status')
    BY Zenon DEF Rest, Decided, Quiet
  <2>. QED  BY Zenon, <2>1, <2>2, <2>3 DEF Decided, True
<1>9. Accepted'
  <2>. SUFFICES ASSUME NEW c \in Cancels, thread'[c].reply = "yes", thread'[c].pc # "apply"
                PROVE  slot'[thread'[c].dist] \in {"cancelled", "completed"}
    BY Zenon DEF Accepted
  <2>1. c \in Threads
    BY Zenon DEF Threads
  <2>2. CASE c = t
    BY Zenon, <1>1, <2>1, <2>2 DEF Quiet, Applied, Rest, Accepted
  <2>3. CASE c # t
    BY Zenon, <1>1, <2>1, <2>3 DEF Rest, Accepted
  <2>. QED  BY Zenon, <2>2, <2>3
<1>10. Frames'
  <2>1. Once => Once'
    BY Zenon, <1>4, <1>5 DEF Once
  <2>2. \A s \in Subscribers, i \in Nat, d \in Dists : OnRing(s, i, d)' <=> OnRing(s, i, d)
    BY Zenon, <1>1 DEF OnRing
  <2>3. ASSUME NEW s \in Subscribers PROVE Streamed(s) /\ Totals(s) => Streamed(s)' /\ Totals(s)'
    <3>1. Streamed(s) => Streamed(s)'
      BY Zenon, <1>1, <1>4, <1>5, <2>2 DEF Streamed
    <3>. QED  BY Zenon, <1>1, <3>1 DEF Totals
  <2>. QED  BY Zenon, <1>1, <2>1, <2>3 DEF Rest, Frames
<1>11. \A s \in Subscribers : Shape(s)'
  BY Zenon, <1>1 DEF Rest, Shape
<1>. QED  BY Zenon, <1>2, <1>7, <1>8, <1>9, <1>10, <1>11 DEF Rest

LEMMA FreshKeeps ==
  ASSUME Typed, Rest, NEW t \in Threads, NEW new, Fresh(t, new) PROVE Rest'
<1>. DEFINE e == thread[t].dist
<1>1. /\ \A u \in Threads : u # t => thread'[u] = thread[u]
      /\ thread'[t].dist = e
      /\ thread[t].pc \notin Busy /\ ~Ended(e)
      /\ thread'[t].pc = IF Terminal(new) THEN "count" ELSE "send"
      /\ thread'[t].frame = new
      /\ count' = count /\ relabelled' = relabelled /\ status' = status
      /\ sub' = sub
  BY Zenon DEF Fresh, Only
<1>2. e \in Dists /\ slot'[e] = new /\ \A d \in Dists : d # e => slot'[d] = slot[d]
  BY Zenon, ThreadTyped DEF Fresh, Typed
<1>3. Own'
  BY Zenon, <1>1 DEF Rest, Own, Threads
<1>4. \A u \in Threads, d \in Dists :
        Counter(u, d)' <=> IF u = t THEN d = e /\ Terminal(new) ELSE Counter(u, d)
  BY Zenon, <1>1 DEF Counter
<1>5. \A u \in Threads, d \in Dists :
        Pending(u, d)' <=> IF u = t THEN d = e /\ Terminal(new) ELSE Pending(u, d)
  BY Zenon, <1>1 DEF Pending
<1>6. \A d \in Dists : Ended(d)' <=> Ended(d) \/ (d = e /\ Terminal(new))
  BY Zenon, <1>1, <1>2 DEF Ended
<1>7. \A d \in Dists : ~Counter(t, d) /\ ~Pending(t, d)
  BY Zenon, <1>1 DEF Counter, Pending, Busy
<1>. HIDE DEF e
<1>8. Counted' = Counted
  <2>1. ASSUME NEW d \in Dists
        PROVE  (Ended(d)' /\ \A u \in Threads : ~Counter(u, d)') <=>
               (Ended(d) /\ \A u \in Threads : ~Counter(u, d))
    BY Zenon, <1>1, <1>4, <1>6, <1>7
  <2>. QED  BY Zenon, <2>1 DEF Counted
<1>9. Counting'
  <2>1. \A u \in Threads, d \in Dists : Counter(u, d)' => Ended(d)'
    BY Zenon, <1>4, <1>6 DEF Rest, Counting
  <2>2. \A u, v \in Threads, d \in Dists : Counter(u, d)' /\ Counter(v, d)' => u = v
    <3>1. \A u \in Threads : ~Counter(u, e)
      BY Zenon, <1>1, <1>2 DEF Rest, Counting
    <3>2. \A u, v \in Threads, d \in Dists : Counter(u, d) /\ Counter(v, d) => u = v
      BY Zenon DEF Rest, Counting
    <3>. QED  BY ZenonT(60), <1>4, <3>1, <3>2
  <2>. QED  BY Zenon, <1>1, <1>8, <2>1, <2>2 DEF Rest, Counting
<1>10. Decided'
  <2>1. Grows
    BY Zenon, <1>1, <1>2 DEF Grows, Ended, Terminal, Final
  <2>. QED  BY Zenon, <1>1, <2>1, DecidedKeeps DEF Rest
<1>11. Accepted'
  <2>. SUFFICES ASSUME NEW c \in Cancels, thread'[c].reply = "yes", thread'[c].pc # "apply"
                PROVE  slot'[thread'[c].dist] \in {"cancelled", "completed"}
    BY Zenon DEF Accepted
  <2>1. c \in Threads
    BY Zenon DEF Threads
  <2>2. CASE c = t
    <3>1. CASE new = "cancelled"
      BY Zenon, <1>1, <1>2, <2>2, <3>1
    <3>2. CASE Applied(t)
      <4>1. slot[e] \in {"cancelled", "completed"}
        BY Zenon, <2>2, <3>2 DEF Applied, Rest, Accepted, e
      <4>. QED  BY Zenon, <1>1, <4>1 DEF Ended, Terminal, Final
    <3>. QED  BY Zenon, <2>2, <3>1, <3>2 DEF Fresh
  <2>3. CASE c # t
    <3>1. slot[thread[c].dist] \in {"cancelled", "completed"} /\ thread'[c] = thread[c]
      BY Zenon, <1>1, <2>1, <2>3 DEF Rest, Accepted
    <3>2. thread[c].dist # e /\ thread[c].dist \in Dists
      BY Zenon, <1>1, <2>1, <3>1, ThreadTyped DEF Ended, Terminal, Final
    <3>. QED  BY Zenon, <1>2, <3>1, <3>2
  <2>. QED  BY Zenon, <2>2, <2>3
<1>12. Frames'
  <2>. SUFFICES ASSUME relabelled = {}
                PROVE  Once' /\ \A s \in Subscribers : Streamed(s)' /\ Totals(s)'
    BY Zenon, <1>1 DEF Frames
  <2>1. Once
    BY Zenon DEF Rest, Frames
  <2>2. Once'
    <3>1. \A u \in Threads, d \in Dists : Pending(u, d)' => Ended(d)'
      BY Zenon, <1>5, <1>6, <2>1 DEF Once
    <3>2. \A u, v \in Threads, d \in Dists : Pending(u, d)' /\ Pending(v, d)' => u = v
      <4>1. \A u \in Threads : ~Pending(u, e)
        BY Zenon, <1>1, <1>2, <2>1 DEF Once
      <4>2. \A u, v \in Threads, d \in Dists : Pending(u, d) /\ Pending(v, d) => u = v
        BY Zenon, <2>1 DEF Once
      <4>. QED  BY ZenonT(60), <1>5, <4>1, <4>2
    <3>. QED  BY Zenon, <3>1, <3>2 DEF Once
  <2>3. \A s \in Subscribers, i \in Nat, d \in Dists : OnRing(s, i, d)' <=> OnRing(s, i, d)
    BY Zenon, <1>1 DEF OnRing
  <2>4. ASSUME NEW s \in Subscribers PROVE Streamed(s)' /\ Totals(s)'
    <3>1. Streamed(s) /\ Totals(s)
      BY Zenon DEF Rest, Frames
    <3>2. ASSUME NEW d \in Dists, Ended(d), \A u \in Threads : ~Pending(u, d)
          PROVE  Ended(d)' /\ \A u \in Threads : ~Pending(u, d)'
      BY Zenon, <1>1, <1>5, <1>6, <3>2
    <3>3. Streamed(s)'
      BY Zenon, <1>1, <2>3, <3>1, <3>2 DEF Streamed
    <3>. QED  BY Zenon, <1>1, <3>1, <3>3 DEF Totals
  <2>. QED  BY Zenon, <2>2, <2>4
<1>13. \A s \in Subscribers : Shape(s)'
  BY Zenon, <1>1 DEF Rest, Shape
<1>. QED  BY Zenon, <1>3, <1>9, <1>10, <1>11, <1>12, <1>13 DEF Rest

LEMMA RelabelKeeps ==
  ASSUME Typed, Rest, NEW t \in Threads, Relabel(t) PROVE Rest'
<1>. DEFINE e == thread[t].dist
<1>1. /\ \A u \in Threads : u # t => thread'[u] = thread[u]
      /\ thread'[t].dist = e /\ thread'[t].pc = "send"
      /\ thread[t].pc \notin Busy /\ slot[e] = "failed"
      /\ count' = count /\ relabelled' # {} /\ status' = status
      /\ sub' = sub
  BY Zenon DEF Relabel, Only
<1>2. e \in Dists /\ slot'[e] = "cancelled" /\ \A d \in Dists : d # e => slot'[d] = slot[d]
  BY Zenon, ThreadTyped DEF Relabel, Typed
<1>3. Own'
  BY Zenon, <1>1 DEF Rest, Own, Threads
<1>4. \A u \in Threads, d \in Dists : Counter(u, d)' <=> Counter(u, d)
  BY Zenon, <1>1 DEF Counter, Busy
<1>5. \A d \in Dists : Ended(d)' <=> Ended(d)
  BY Zenon, <1>1, <1>2 DEF Ended, Terminal, Final
<1>. HIDE DEF e
<1>6. Counted' = Counted
  BY Zenon, <1>4, <1>5 DEF Counted
<1>7. Counting'
  BY Zenon, <1>1, <1>4, <1>5, <1>6 DEF Rest, Counting
<1>8. Grows
  BY Zenon, <1>1, <1>2 DEF Grows, Terminal, Final
<1>9. Decided'
  BY Zenon, <1>1, <1>8, DecidedKeeps DEF Rest
<1>10. Accepted'
  <2>. SUFFICES ASSUME NEW c \in Cancels, thread'[c].reply = "yes", thread'[c].pc # "apply"
                PROVE  slot'[thread'[c].dist] \in {"cancelled", "completed"}
    BY Zenon DEF Accepted
  <2>1. c \in Threads
    BY Zenon DEF Threads
  <2>2. CASE c = t
    BY Zenon, <1>1, <1>2, <2>2
  <2>3. CASE c # t
    <3>1. slot[thread[c].dist] \in {"cancelled", "completed"} /\ thread'[c] = thread[c]
      BY Zenon, <1>1, <2>1, <2>3 DEF Rest, Accepted
    <3>2. thread[c].dist \in Dists
      BY Zenon, <2>1, ThreadTyped
    <3>. QED  BY Zenon, <1>8, <3>1, <3>2 DEF Grows
  <2>. QED  BY Zenon, <2>2, <2>3
<1>11. Frames'
  BY Zenon, <1>1 DEF Frames
<1>12. \A s \in Subscribers : Shape(s)'
  BY Zenon, <1>1 DEF Rest, Shape
<1>. QED  BY Zenon, <1>3, <1>7, <1>9, <1>10, <1>11, <1>12 DEF Rest

-----------------------------------------------------------------------------
(***************************************************************************)
(* Counting a slot and finalising the bundle.                              *)
(***************************************************************************)
LEMMA TotalIsNat == Total \in Nat /\ \A S \in SUBSET Dists :
  /\ IsFiniteSet(S) /\ Cardinality(S) \in Nat /\ Cardinality(S) <= Total
  /\ Cardinality(S) >= Total => S = Dists
<1>1. IsFiniteSet(Dists) /\ Total \in Nat
  BY Zenon, ProgressConstants, FS_CardinalityType DEF Total
<1>2. ASSUME NEW S \in SUBSET Dists
      PROVE  /\ IsFiniteSet(S) /\ Cardinality(S) \in Nat /\ Cardinality(S) <= Total
             /\ Cardinality(S) >= Total => S = Dists
  <2>1. IsFiniteSet(S) /\ Cardinality(S) <= Total /\ (Cardinality(S) = Total => S = Dists)
    BY Zenon, <1>1, FS_Subset DEF Total
  <2>2. Cardinality(S) \in Nat
    BY Zenon, <2>1, FS_CardinalityType
  <2>. QED  BY <1>1, <2>1, <2>2
<1>. QED  BY Zenon, <1>1, <1>2

\* The counter tells the truth.
LEMMA CountSound == Typed /\ Counting => count \in 0..Total /\ CountIsSound
<1>. SUFFICES ASSUME Typed, Counting PROVE count \in 0..Total /\ CountIsSound
  BY Zenon
<1>1. Counted \in SUBSET Dists /\ count = Cardinality(Counted)
  BY Zenon DEF Counted, Counting
<1>2. count \in 0..Total /\ (count >= Total => Counted = Dists)
  BY <1>1, TotalIsNat
<1>3. CountIsSound
  BY Zenon, <1>2 DEF CountIsSound, Counted
<1>. QED  BY Zenon, <1>2, <1>3

LEMMA CountKeeps ==
  ASSUME Typed, Rest, NEW t \in Threads, CountTerminal(t)
  PROVE  thread' \in [Threads -> Tasks] /\ Rest'
<1>. DEFINE e == thread[t].dist
<1>0. thread[t] \in Tasks /\ e \in Dists
  BY Zenon, ThreadTyped
<1>a. [thread[t] EXCEPT !.pc = "send"] \in Tasks
      /\ [thread[t] EXCEPT !.pc = "send"].pc = "send"
      /\ [thread[t] EXCEPT !.pc = "send"].dist = e
      /\ [thread[t] EXCEPT !.pc = "send"].reply = thread[t].reply
      /\ [thread[t] EXCEPT !.pc = "send"].frame = thread[t].frame
  BY Zenon, <1>0, NewPlace DEF Places
<1>b. thread' \in [Threads -> Tasks] /\ thread'[t] = [thread[t] EXCEPT !.pc = "send"] /\ Only(t)
  BY Zenon, <1>0, <1>a, BecomesEffect DEF CountTerminal, Goto
<1>1. /\ \A u \in Threads : u # t => thread'[u] = thread[u]
      /\ thread'[t].dist = e /\ thread'[t].frame = thread[t].frame
      /\ thread[t].pc = "count" /\ thread'[t].pc = "send" /\ thread'[t].reply = thread[t].reply
      /\ slot' = slot /\ count' = count + 1 /\ relabelled' = relabelled /\ status' = status
      /\ sub' = sub
  BY Zenon, <1>a, <1>b DEF Only, CountTerminal
<1>2. Own'
  BY ZenonT(60), <1>1 DEF Rest, Own, Threads
<1>3. \A u \in Threads, d \in Dists : Counter(u, d)' <=> u # t /\ Counter(u, d)
  BY Zenon, <1>1 DEF Counter
<1>4. \A u \in Threads, d \in Dists : Pending(u, d)' <=> Pending(u, d)
  BY Zenon, <1>1 DEF Pending
<1>5. \A d \in Dists : Ended(d)' <=> Ended(d)
  BY Zenon, <1>1 DEF Ended
<1>6. Counter(t, e)
  BY Zenon, <1>1 DEF Counter
<1>7. \A d \in Dists : Counter(t, d) => d = e
  BY Zenon DEF Counter
<1>. HIDE DEF e
<1>8. Counted' = Counted \cup {e} /\ e \notin Counted
  <2>1. ASSUME NEW d \in Dists
        PROVE  (Ended(d)' /\ \A u \in Threads : ~Counter(u, d)') <=> d \in Counted \/ d = e
    <3>1. CASE d = e
      <4>1. Ended(e) /\ \A u \in Threads : Counter(u, e) => u = t
        BY Zenon, <1>0, <1>6 DEF Rest, Counting
      <4>. QED  BY Zenon, <1>3, <1>5, <3>1, <4>1
    <3>2. CASE d # e
      <4>1. ~Counter(t, d)
        BY Zenon, <1>7, <3>2
      <4>. QED  BY Zenon, <1>3, <1>5, <3>2, <4>1 DEF Counted
    <3>. QED  BY Zenon, <3>1, <3>2
  <2>2. e \notin Counted
    BY Zenon, <1>6 DEF Counted
  <2>3. Counted' = {d \in Dists : d \in Counted \/ d = e}
    BY Zenon, <2>1 DEF Counted
  <2>4. Counted \subseteq Dists
    BY Zenon DEF Counted
  <2>. QED  BY Zenon, <1>0, <2>2, <2>3, <2>4
<1>9. Counting'
  <2>1. count' = Cardinality(Counted')
    <3>1. Counted \in SUBSET Dists /\ count = Cardinality(Counted)
      BY Zenon DEF Counted, Rest, Counting
    <3>2. Cardinality(Counted \cup {e}) = Cardinality(Counted) + 1
      BY Zenon, <1>8, <3>1, TotalIsNat, FS_AddElement
    <3>. QED  BY Zenon, <1>1, <1>8, <3>1, <3>2
  <2>. QED  BY Zenon, <1>3, <1>5, <2>1 DEF Rest, Counting
<1>10. Decided'
  <2>1. Grows
    BY Zenon, <1>1 DEF Grows
  <2>. QED  BY Zenon, <1>1, <2>1, DecidedKeeps DEF Rest
<1>11. Accepted'
  <2>. SUFFICES ASSUME NEW c \in Cancels, thread'[c].reply = "yes", thread'[c].pc # "apply"
                PROVE  slot'[thread'[c].dist] \in {"cancelled", "completed"}
    BY Zenon DEF Accepted
  <2>1. c \in Threads
    BY Zenon DEF Threads
  <2>2. thread[c].reply = "yes" /\ thread[c].pc # "apply" /\ thread'[c].dist = thread[c].dist
    BY Zenon, <1>1, <2>1 DEF e
  <2>. QED  BY Zenon, <1>1, <2>2 DEF Rest, Accepted
<1>12. Frames'
  <2>1. Once => Once'
    BY Zenon, <1>4, <1>5 DEF Once
  <2>2. \A s \in Subscribers, i \in Nat, d \in Dists : OnRing(s, i, d)' <=> OnRing(s, i, d)
    BY Zenon, <1>1 DEF OnRing
  <2>3. ASSUME NEW s \in Subscribers PROVE Streamed(s) /\ Totals(s) => Streamed(s)' /\ Totals(s)'
    <3>1. Streamed(s) => Streamed(s)'
      BY Zenon, <1>1, <1>4, <1>5, <2>2 DEF Streamed
    <3>. QED  BY Zenon, <1>1, <3>1 DEF Totals
  <2>. QED  BY Zenon, <1>1, <2>1, <2>3 DEF Rest, Frames
<1>13. \A s \in Subscribers : Shape(s)'
  BY Zenon, <1>1 DEF Rest, Shape
<1>. QED  BY Zenon, <1>b, <1>2, <1>9, <1>10, <1>11, <1>12, <1>13 DEF Rest

LEMMA FinalizeQuiet ==
  ASSUME Typed, Rest, NEW t \in Threads, MaybeFinalize(t) \/ UpdateStatus(t)
  PROVE  thread' \in [Threads -> Tasks] /\ status' \in {"pending"} \cup Final /\ Quiet(t)
<1>0. thread[t] \in Tasks
  BY Zenon, ThreadTyped
<1>1. CASE MaybeFinalize(t) /\ count >= Total
  <2>. DEFINE r == [thread[t] EXCEPT !.pc = "update", !.verdict = Verdict]
  <2>1. Becomes(t, r) /\ thread[t].pc = "check"
    BY Zenon, <1>1 DEF MaybeFinalize
  <2>2. Verdict \in Final
    BY Zenon DEF Verdict, Final
  <2>3. r \in Tasks /\ r.pc = "update" /\ r.dist = thread[t].dist /\ r.verdict = Verdict
        /\ r.reply = thread[t].reply
    BY Zenon, <1>0, <2>2 DEF Tasks
  <2>. HIDE DEF r
  <2>4. thread' \in [Threads -> Tasks] /\ thread'[t] = r /\ Only(t)
    BY Zenon, <2>1, <2>3, BecomesEffect
  <2>5. True(Verdict)
    <3>1. \A d \in Dists : Ended(d)
      BY Zenon, <1>1, CountSound DEF Rest, CountIsSound
    <3>2. ASSUME Verdict = "completed", NEW d \in Dists PROVE slot[d] = "completed"
      <4>1. slot[d] # "failed" /\ slot[d] # "cancelled"
        BY Zenon, <3>2 DEF Verdict
      <4>. QED  BY Zenon, <3>1, <4>1 DEF Ended, Terminal, Final
    <3>. QED  BY Zenon, <3>1, <3>2 DEF True
  <2>6. Quiet(t)
    BY Zenon, <1>1, <2>1, <2>3, <2>4, <2>5 DEF Quiet, Busy, Applied, MaybeFinalize, runtime
  <2>. QED  BY Zenon, <1>1, <2>4, <2>6 DEF MaybeFinalize, Typed
<1>2. CASE MaybeFinalize(t) /\ ~(count >= Total)
  <2>1. Goto(t, "done") /\ thread[t].pc = "check"
    BY Zenon, <1>2 DEF MaybeFinalize
  <2>2. /\ [thread[t] EXCEPT !.pc = "done"] \in Tasks
        /\ [thread[t] EXCEPT !.pc = "done"].dist = thread[t].dist
        /\ [thread[t] EXCEPT !.pc = "done"].reply = thread[t].reply
        /\ [thread[t] EXCEPT !.pc = "done"].pc = "done"
    BY Zenon, <1>0, NewPlace DEF Places
  <2>3. thread' \in [Threads -> Tasks] /\ thread'[t] = [thread[t] EXCEPT !.pc = "done"] /\ Only(t)
    BY Zenon, <2>1, <2>2, BecomesEffect DEF Goto
  <2>4. Quiet(t)
    BY Zenon, <1>2, <2>1, <2>2, <2>3 DEF Quiet, Busy, Applied, MaybeFinalize, runtime
  <2>. QED  BY Zenon, <1>2, <2>3, <2>4 DEF MaybeFinalize, Typed
<1>3. CASE UpdateStatus(t)
  <2>. DEFINE r == [thread[t] EXCEPT !.pc = "done", !.verdict = "pending"]
  <2>1. Becomes(t, r) /\ thread[t].pc = "update" /\ status' = thread[t].verdict
    BY Zenon, <1>3 DEF UpdateStatus
  <2>2. r \in Tasks /\ r.pc = "done" /\ r.dist = thread[t].dist /\ r.reply = thread[t].reply
        /\ thread[t].verdict \in {"pending"} \cup Final
    BY Zenon, <1>0 DEF Tasks
  <2>. HIDE DEF r
  <2>3. thread' \in [Threads -> Tasks] /\ thread'[t] = r /\ Only(t)
    BY Zenon, <2>1, <2>2, BecomesEffect
  <2>4. True(status')
    BY Zenon, <2>1 DEF Rest, Decided
  <2>5. Quiet(t)
    BY Zenon, <1>3, <2>1, <2>2, <2>3, <2>4 DEF Quiet, Busy, Applied, UpdateStatus, runtime
  <2>. QED  BY Zenon, <2>1, <2>2, <2>3, <2>5
<1>. QED  BY Zenon, <1>1, <1>2, <1>3

-----------------------------------------------------------------------------
(***************************************************************************)
(* Broadcasting a frame to every ring.                                     *)
(***************************************************************************)
LEMMA RingFacts ==
  ASSUME NEW S, NEW r \in Seq(S)
  PROVE  /\ Len(r) \in Nat /\ (r = <<>> <=> Len(r) = 0)
         /\ \A i \in 1..Len(r) : r[i] \in S
         /\ r # <<>> => /\ Head(r) = r[1] /\ Head(r) \in S /\ Tail(r) \in Seq(S)
                        /\ Len(Tail(r)) = Len(r) - 1
                        /\ \A i \in 1..Len(Tail(r)) : Tail(r)[i] = r[i + 1]
OBVIOUS

LEMMA GrownFacts ==
  ASSUME NEW S, NEW r \in Seq(S), NEW f \in S
  PROVE  /\ Append(r, f) \in Seq(S) /\ Len(Append(r, f)) = Len(r) + 1
         /\ \A i \in 1..Len(r) : Append(r, f)[i] = r[i]
         /\ Append(r, f)[Len(r) + 1] = f
OBVIOUS

\* What a frame on its way does to a stream: the ring moves by k places.
Moved(u, v, f, k) ==
  /\ v.pc = u.pc /\ v.ids = u.ids /\ v.got = u.got /\ v.terminals = u.terminals
  /\ v.pc \in {"snapshot", "stream"}
  /\ Len(v.ring) = Len(u.ring) + 1 - k /\ Len(v.ring) <= Backlog
  /\ \A i \in 1..Len(v.ring) :
       \/ i + k \in 1..Len(u.ring) /\ v.ring[i] = u.ring[i + k]
       \/ i = Len(v.ring) /\ v.ring[i] = f

LEMMA DeliveredFacts ==
  ASSUME NEW u \in Streams, NEW f \in Frame, Len(u.ring) <= Backlog
  PROVE  /\ Delivered(u, f) \in Streams
         /\ \/ Delivered(u, f) = u /\ u.pc \notin {"snapshot", "stream"}
            \/ \E k \in {0, 1} : Moved(u, Delivered(u, f), f, k)
<1>. DEFINE r == u.ring
            v == Delivered(u, f)
<1>1. r \in Seq(Frame) /\ Backlog \in Nat \ {0}
  BY Zenon, ProgressConstants DEF Streams
<1>2. CASE u.pc \notin {"snapshot", "stream"}
  BY Zenon, <1>2 DEF Delivered
<1>3. CASE u.pc \in {"snapshot", "stream"} /\ Len(u.ring) < Backlog
  <2>1. v = [u EXCEPT !.ring = Append(r, f)]
    BY Zenon, <1>3 DEF Delivered
  <2>a. Len(r) \in Nat
    BY <1>1
  <2>2. /\ Append(r, f) \in Seq(Frame) /\ Len(Append(r, f)) = Len(r) + 1
        /\ \A i \in 1..Len(r) : Append(r, f)[i] = r[i]
        /\ Append(r, f)[Len(r) + 1] = f
    BY ZenonT(60), <1>1, GrownFacts
  <2>. HIDE DEF v, r
  <2>3. v \in Streams /\ v.pc = u.pc /\ v.ids = u.ids /\ v.got = u.got
        /\ v.terminals = u.terminals /\ v.ring = Append(r, f)
    BY Zenon, <2>1, <2>2 DEF Streams
  <2>4. Moved(u, v, f, 0)
    <3>1. Len(v.ring) = Len(r) + 1 - 0 /\ Len(v.ring) <= Backlog
      BY SMTT(60), <1>1, <1>3, <2>a, <2>2, <2>3 DEF r
    <3>2. \A i \in 1..Len(v.ring) :
            \/ i + 0 \in 1..Len(r) /\ v.ring[i] = r[i + 0]
            \/ i = Len(v.ring) /\ v.ring[i] = f
      BY <2>a, <2>2, <2>3
    <3>. QED  BY Zenon, <1>3, <2>3, <3>1, <3>2 DEF Moved, r
  <2>. QED  BY Zenon, <2>3, <2>4 DEF v
<1>4. CASE u.pc \in {"snapshot", "stream"} /\ ~(Len(u.ring) < Backlog)
  <2>1. v = [u EXCEPT !.ring = Append(Tail(r), f), !.lagged = TRUE]
    BY Zenon, <1>4 DEF Delivered
  <2>2. Len(r) \in Nat /\ Len(r) = Backlog /\ r # <<>>
    <3>1. Len(r) \in Nat /\ (r = <<>> <=> Len(r) = 0)
      BY Zenon, <1>1, RingFacts
    <3>. QED  BY <1>1, <1>4, <3>1
  <2>3. /\ Tail(r) \in Seq(Frame) /\ Len(Tail(r)) = Len(r) - 1
        /\ \A i \in 1..Len(Tail(r)) : Tail(r)[i] = r[i + 1]
    BY Zenon, <1>1, <2>2, RingFacts
  <2>. DEFINE w == Tail(r)
  <2>4. /\ Append(w, f) \in Seq(Frame) /\ Len(Append(w, f)) = Len(w) + 1
        /\ \A i \in 1..Len(w) : Append(w, f)[i] = w[i]
        /\ Append(w, f)[Len(w) + 1] = f
    BY ZenonT(60), <2>3, GrownFacts
  <2>. HIDE DEF v, r
  <2>5. v \in Streams /\ v.pc = u.pc /\ v.ids = u.ids /\ v.got = u.got
        /\ v.terminals = u.terminals /\ v.ring = Append(w, f)
    BY Zenon, <2>1, <2>4 DEF Streams
  <2>6. Len(w) = Len(r) - 1 /\ \A i \in 1..Len(w) : w[i] = r[i + 1]
    BY Zenon, <2>3
  <2>. HIDE DEF w
  <2>7. Moved(u, v, f, 1)
    <3>1. Len(v.ring) = Len(r) + 1 - 1 /\ Len(v.ring) <= Backlog
      BY SMTT(60), <1>1, <2>2, <2>4, <2>5, <2>6
    <3>2. \A i \in 1..Len(v.ring) :
            \/ i + 1 \in 1..Len(r) /\ v.ring[i] = r[i + 1]
            \/ i = Len(v.ring) /\ v.ring[i] = f
      BY SMTT(60), <2>2, <2>4, <2>5, <2>6
    <3>. QED  BY Zenon, <1>4, <2>5, <3>1, <3>2 DEF Moved, r
  <2>. QED  BY Zenon, <2>5, <2>7 DEF v
<1>. QED  BY Zenon, <1>2, <1>3, <1>4

LEMMA BroadcastEffect ==
  ASSUME Typed, NEW t \in Threads, Broadcast(t)
  PROVE  /\ thread' \in [Threads -> Tasks] /\ Only(t) /\ thread[t].pc = "send"
         /\ thread'[t].pc \in {"loop", "check", "done"}
         /\ thread'[t].reply = thread[t].reply
<1>. DEFINE r == [thread[t] EXCEPT !.pc = thread[t].next, !.frame = "pending", !.next = "done"]
<1>1. thread[t] \in Tasks
  BY Zenon, ThreadTyped
<1>2. r \in Tasks /\ r.dist = thread[t].dist /\ r.pc \in {"loop", "check", "done"}
      /\ r.reply = thread[t].reply
  BY ZenonT(60), <1>1 DEF Tasks, States
<1>3. Becomes(t, r) /\ thread[t].pc = "send"
  BY Zenon DEF Broadcast
<1>. HIDE DEF r
<1>. QED  BY Zenon, <1>2, <1>3, BecomesEffect

LEMMA BroadcastKeeps ==
  ASSUME Typed, Rest, NEW t \in Threads, Broadcast(t)
  PROVE  thread' \in [Threads -> Tasks] /\ sub' \in [Subscribers -> Streams] /\ Rest'
<1>. DEFINE e == thread[t].dist
            f == [dist |-> e, status |-> thread[t].frame]
<1>0. thread[t] \in Tasks /\ e \in Dists
  BY Zenon, ThreadTyped
<1>1. /\ \A u \in Threads : u # t => thread'[u] = thread[u]
      /\ thread'[t].dist = e /\ thread[t].pc = "send"
      /\ thread'[t].pc \in {"loop", "check", "done"} /\ thread'[t].reply = thread[t].reply
      /\ slot' = slot /\ count' = count /\ relabelled' = relabelled /\ status' = status
  BY Zenon, BroadcastEffect DEF Only, Broadcast, runtime
<1>2. f \in Frame /\ f.dist = e /\ f.status = thread[t].frame
  BY Zenon, <1>0 DEF Tasks, Frame
<1>3. sub' = [s \in Subscribers |-> Delivered(sub[s], f)]
  BY Zenon DEF Broadcast
<1>. HIDE DEF f
<1>4. ASSUME NEW s \in Subscribers
      PROVE  /\ sub'[s] \in Streams
             /\ \/ sub'[s] = sub[s] \/ \E k \in {0, 1} : Moved(sub[s], sub'[s], f, k)
  <2>1. sub[s] \in Streams /\ Len(sub[s].ring) <= Backlog /\ sub'[s] = Delivered(sub[s], f)
    BY Zenon, <1>3 DEF Typed, Rest, Shape
  <2>. QED  BY Zenon, <1>2, <2>1, DeliveredFacts
<1>5. sub' \in [Subscribers -> Streams]
  BY Zenon, <1>3, <1>4
<1>6. Own'
  BY Zenon, <1>1 DEF Rest, Own, Threads
<1>7. \A u \in Threads, d \in Dists : Counter(u, d)' <=> Counter(u, d)
  BY Zenon, <1>1 DEF Counter
<1>8. \A u \in Threads, d \in Dists : Pending(u, d)' <=> u # t /\ Pending(u, d)
  BY Zenon, <1>1 DEF Pending
<1>9. \A d \in Dists : Ended(d)' <=> Ended(d)
  BY Zenon, <1>1 DEF Ended
<1>10. Counted' = Counted
  BY Zenon, <1>7, <1>9 DEF Counted
<1>11. Counting'
  BY Zenon, <1>1, <1>7, <1>9, <1>10 DEF Rest, Counting
<1>12. Decided'
  <2>1. Grows
    BY Zenon, <1>1 DEF Grows
  <2>. QED  BY Zenon, <1>1, <2>1, DecidedKeeps DEF Rest
<1>13. Accepted'
  <2>. SUFFICES ASSUME NEW c \in Cancels, thread'[c].reply = "yes", thread'[c].pc # "apply"
                PROVE  slot'[thread'[c].dist] \in {"cancelled", "completed"}
    BY Zenon DEF Accepted
  <2>1. c \in Threads
    BY Zenon DEF Threads
  <2>2. thread[c].reply = "yes" /\ thread[c].pc # "apply" /\ thread'[c].dist = thread[c].dist
    BY Zenon, <1>1, <2>1
  <2>. QED  BY Zenon, <1>1, <2>2 DEF Rest, Accepted
<1>14. Terminal(f.status) => Pending(t, e)
  BY Zenon, <1>1, <1>2 DEF Pending
<1>. HIDE DEF e
<1>15. ASSUME NEW s \in Subscribers, NEW k \in {0, 1}, Moved(sub[s], sub'[s], f, k),
              NEW i \in Nat, NEW d \in Dists, OnRing(s, i, d)'
       PROVE  \/ i + k \in Nat /\ OnRing(s, i + k, d)
              \/ i = Len(sub'[s].ring) /\ d = e /\ Pending(t, e)
  <2>1. /\ i \in 1..Len(sub'[s].ring)
        /\ sub'[s].ring[i].dist = d /\ Terminal(sub'[s].ring[i].status)
    BY Zenon, <1>15 DEF OnRing
  <2>2. i + k \in Nat
    BY SMT
  <2>3. \/ i + k \in 1..Len(sub[s].ring) /\ sub'[s].ring[i] = sub[s].ring[i + k]
        \/ i = Len(sub'[s].ring) /\ sub'[s].ring[i] = f
    BY Zenon, <1>15, <2>1 DEF Moved
  <2>. QED  BY Zenon, <1>2, <1>14, <2>1, <2>2, <2>3 DEF OnRing
<1>16. Frames'
  <2>. SUFFICES ASSUME relabelled = {}
                PROVE  Once' /\ \A s \in Subscribers : Streamed(s)' /\ Totals(s)'
    BY Zenon, <1>1 DEF Frames
  <2>1. Once
    BY Zenon DEF Rest, Frames
  <2>2. Once'
    BY Zenon, <1>8, <1>9, <2>1 DEF Once
  <2>3. ASSUME NEW s \in Subscribers PROVE Streamed(s)' /\ Totals(s)'
    <3>1. Streamed(s) /\ Totals(s)
      BY Zenon DEF Rest, Frames
    <3>2. CASE sub'[s] = sub[s]
      <4>1. \A i \in Nat, d \in Dists : OnRing(s, i, d)' <=> OnRing(s, i, d)
        BY Zenon, <3>2 DEF OnRing
      <4>2. Streamed(s)'
        BY Zenon, <1>8, <1>9, <3>1, <3>2, <4>1 DEF Streamed
      <4>. QED  BY Zenon, <3>1, <3>2, <4>2 DEF Totals
    <3>3. ASSUME NEW k \in {0, 1}, Moved(sub[s], sub'[s], f, k)
          PROVE  Streamed(s)' /\ Totals(s)'
      <4>. DEFINE n == Len(sub'[s].ring)
      <4>1. \A i \in Nat, d \in Dists : OnRing(s, i, d)' =>
              \/ i + k \in Nat /\ OnRing(s, i + k, d)
              \/ i = n /\ d = e /\ Pending(t, e)
        BY Zenon, <1>15, <3>3
      <4>. HIDE DEF n
      <4>2. ASSUME NEW i \in Nat, NEW d \in Dists, OnRing(s, i, d)'
            PROVE  Ended(d)' /\ \A u \in Threads : ~Pending(u, d)'
        <5>1. CASE i + k \in Nat /\ OnRing(s, i + k, d)
          BY Zenon, <1>8, <1>9, <3>1, <5>1 DEF Streamed
        <5>2. CASE d = e /\ Pending(t, e)
          BY Zenon, <1>8, <1>9, <2>1, <5>2 DEF Once
        <5>. QED  BY Zenon, <4>1, <4>2, <5>1, <5>2
      <4>3. ASSUME NEW i \in Nat, NEW j \in Nat, NEW d \in Dists, OnRing(s, i, d)', OnRing(s, j, d)'
            PROVE  i = j
        <5>1. CASE Pending(t, d)
          <6>1. ASSUME NEW x \in Nat PROVE ~OnRing(s, x, d)
            BY Zenon, <3>1, <5>1 DEF Streamed
          <6>. QED  BY Zenon, <4>1, <4>3, <6>1
        <5>2. CASE ~Pending(t, d)
          <6>1. i + k = j + k
            BY Zenon, <3>1, <4>1, <4>3, <5>2 DEF Streamed
          <6>. QED  BY <6>1
        <5>. QED  BY Zenon, <5>1, <5>2
      <4>4. ASSUME NEW d \in Dists, sub'[s].pc = "stream", d \in sub'[s].got \ sub'[s].ids
            PROVE  /\ Ended(d)' /\ \A u \in Threads : ~Pending(u, d)'
                   /\ \A i \in Nat : ~OnRing(s, i, d)'
        <5>1. sub[s].pc = "stream" /\ d \in sub[s].got \ sub[s].ids
          BY Zenon, <3>3, <4>4 DEF Moved
        <5>2. /\ Ended(d) /\ \A u \in Threads : ~Pending(u, d)
              /\ \A i \in Nat : ~OnRing(s, i, d)
          BY Zenon, <3>1, <5>1 DEF Streamed
        <5>. QED  BY Zenon, <1>8, <1>9, <4>1, <5>2
      <4>5. Streamed(s)'
        BY Zenon, <4>2, <4>3, <4>4 DEF Streamed
      <4>6. Totals(s)'
        BY Zenon, <3>1, <3>3 DEF Totals, Moved
      <4>. QED  BY Zenon, <4>5, <4>6
    <3>. QED  BY Zenon, <1>4, <3>2, <3>3
  <2>. QED  BY Zenon, <2>2, <2>3
<1>17. ASSUME NEW s \in Subscribers PROVE Shape(s)'
  <2>1. Shape(s)
    BY Zenon DEF Rest
  <2>2. CASE sub'[s] = sub[s]
    BY Zenon, <2>1, <2>2 DEF Shape
  <2>3. ASSUME NEW k \in {0, 1}, Moved(sub[s], sub'[s], f, k) PROVE Shape(s)'
    <3>1. /\ sub'[s].pc = sub[s].pc /\ sub'[s].ids = sub[s].ids /\ sub'[s].got = sub[s].got
          /\ sub'[s].terminals = sub[s].terminals /\ sub'[s].pc \in {"snapshot", "stream"}
          /\ Len(sub'[s].ring) <= Backlog
      BY Zenon, <2>3 DEF Moved
    <3>. QED  BY Zenon, <2>1, <3>1 DEF Shape
  <2>. QED  BY Zenon, <1>4, <2>2, <2>3
<1>. QED
  BY ZenonT(60), <1>5, <1>6, <1>11, <1>12, <1>13, <1>16, <1>17, BroadcastEffect DEF Rest

-----------------------------------------------------------------------------
(***************************************************************************)
(* The steps of a subscriber.                                              *)
(***************************************************************************)
\* Steps that change one stream only.
LEMMA SubKeeps ==
  ASSUME Typed, Rest, NEW s \in Subscribers, NEW v \in Streams,
         sub' = [sub EXCEPT ![s] = v], UNCHANGED <<slot, count, relabelled, status, thread>>,
         Shape(s)', relabelled = {} => Streamed(s)' /\ Totals(s)'
  PROVE  sub' \in [Subscribers -> Streams] /\ Rest'
<1>1. sub' \in [Subscribers -> Streams] /\ \A x \in Subscribers : x # s => sub'[x] = sub[x]
  BY Zenon DEF Typed
<1>2. \A u \in Threads, d \in Dists : Counter(u, d)' <=> Counter(u, d)
  BY Zenon DEF Counter
<1>3. \A u \in Threads, d \in Dists : Pending(u, d)' <=> Pending(u, d)
  BY Zenon DEF Pending
<1>4. \A d \in Dists : Ended(d)' <=> Ended(d)
  BY Zenon DEF Ended
<1>5. Counted' = Counted
  BY Zenon, <1>2, <1>4 DEF Counted
<1>6. Own' /\ Accepted'
  BY Zenon DEF Rest, Own, Accepted
<1>7. Counting'
  BY Zenon, <1>2, <1>4, <1>5 DEF Rest, Counting
<1>8. Decided'
  <2>1. Grows
    BY Zenon DEF Grows
  <2>. QED  BY Zenon, <2>1, DecidedKeeps DEF Rest
<1>9. Frames'
  <2>. SUFFICES ASSUME relabelled = {}
                PROVE  Once' /\ \A x \in Subscribers : Streamed(x)' /\ Totals(x)'
    BY Zenon DEF Frames
  <2>1. Once'
    BY Zenon, <1>3, <1>4 DEF Rest, Frames, Once
  <2>2. ASSUME NEW x \in Subscribers, x # s PROVE Streamed(x)' /\ Totals(x)'
    <3>1. Streamed(x) /\ Totals(x) /\ sub'[x] = sub[x]
      BY Zenon, <1>1, <2>2 DEF Rest, Frames
    <3>2. \A i \in Nat, d \in Dists : OnRing(x, i, d)' <=> OnRing(x, i, d)
      BY Zenon, <3>1 DEF OnRing
    <3>3. Streamed(x)'
      BY Zenon, <1>3, <1>4, <3>1, <3>2 DEF Streamed
    <3>. QED  BY Zenon, <3>1, <3>3 DEF Totals
  <2>. QED  BY Zenon, <2>1, <2>2
<1>10. ASSUME NEW x \in Subscribers PROVE Shape(x)'
  <2>1. CASE x # s
    BY Zenon, <1>1, <2>1 DEF Rest, Shape
  <2>. QED  BY Zenon, <2>1
<1>. QED  BY Zenon, <1>1, <1>6, <1>7, <1>8, <1>9, <1>10 DEF Rest

LEMMA AttachKeeps ==
  ASSUME Typed, Rest, NEW s \in Subscribers, Attach(s)
  PROVE  sub' \in [Subscribers -> Streams] /\ Rest'
<1>. DEFINE v == [sub[s] EXCEPT !.pc = "snapshot"]
<1>1. sub[s] \in Streams /\ Shape(s)
  BY Zenon DEF Typed, Rest
<1>2. /\ v \in Streams /\ v.pc = "snapshot" /\ v.ring = sub[s].ring /\ v.ids = sub[s].ids
      /\ v.got = sub[s].got /\ v.terminals = sub[s].terminals
  BY Zenon, <1>1 DEF Streams
<1>3. /\ sub' = [sub EXCEPT ![s] = v] /\ sub[s].pc = "idle"
      /\ UNCHANGED <<slot, count, relabelled, status, thread>>
  BY Zenon DEF Attach, runtime
<1>. HIDE DEF v
<1>4. sub'[s] = v
  BY Zenon, <1>3 DEF Typed
<1>5. Shape(s)'
  BY Zenon, <1>1, <1>2, <1>3, <1>4 DEF Shape
<1>6. ASSUME relabelled = {} PROVE Streamed(s)' /\ Totals(s)'
  <2>1. Streamed(s)
    BY Zenon, <1>6 DEF Rest, Frames
  <2>2. \A i \in Nat, d \in Dists : OnRing(s, i, d)' <=> OnRing(s, i, d)
    BY Zenon, <1>2, <1>4 DEF OnRing
  <2>3. (\A u \in Threads, d \in Dists : Pending(u, d)' <=> Pending(u, d))
        /\ \A d \in Dists : Ended(d)' <=> Ended(d)
    BY Zenon, <1>3 DEF Pending, Ended
  <2>4. Streamed(s)'
    BY Zenon, <1>2, <1>4, <2>1, <2>2, <2>3 DEF Streamed
  <2>. QED  BY Zenon, <1>2, <1>4, <2>4 DEF Totals
<1>. QED  BY Zenon, <1>2, <1>3, <1>5, <1>6, SubKeeps

\* The closer either leaves the stream open or ends it.
LEMMA ClosingFacts ==
  ASSUME NEW u \in Streams
  PROVE  /\ Closing(u) \in Streams
         /\ \/ ~(u.terminals >= Total) /\ Closing(u) = u
            \/ /\ u.terminals >= Total
               /\ Closing(u).pc = "closed" /\ Closing(u).ring = <<>> /\ Closing(u).ids = {}
               /\ Closing(u).got = u.got /\ Closing(u).terminals = u.terminals
<1>1. CASE u.terminals >= Total
  <2>1. Closing(u) = [u EXCEPT !.pc = "closed", !.ring = <<>>, !.ids = {}]
    BY Zenon, <1>1 DEF Closing
  <2>2. <<>> \in Seq(Frame) /\ {} \in SUBSET Dists
    OBVIOUS
  <2>3. /\ Closing(u) \in Streams /\ Closing(u).pc = "closed" /\ Closing(u).ring = <<>>
        /\ Closing(u).ids = {} /\ Closing(u).got = u.got /\ Closing(u).terminals = u.terminals
    BY Zenon, <2>1, <2>2 DEF Streams
  <2>. QED  BY Zenon, <1>1, <2>3
<1>2. CASE ~(u.terminals >= Total)
  BY Zenon, <1>2 DEF Closing
<1>. QED  BY Zenon, <1>1, <1>2

LEMMA SnapshotKeeps ==
  ASSUME Typed, Rest, NEW s \in Subscribers, Snapshot(s)
  PROVE  sub' \in [Subscribers -> Streams] /\ Rest'
<1>. DEFINE now == {d \in Dists : Terminal(slot[d])}
            u == [sub[s] EXCEPT !.pc = "stream", !.ids = now, !.got = now,
                                !.terminals = Cardinality(now)]
            v == Closing(u)
<1>1. sub[s] \in Streams /\ Shape(s)
  BY Zenon DEF Typed, Rest
<1>a. now \in SUBSET Dists
  BY Zenon
<1>b. Cardinality(now) \in Nat /\ Cardinality(now) <= Total /\ Total \in Nat
      /\ (Cardinality(now) >= Total => now = Dists)
  BY Zenon, <1>a, TotalIsNat
<1>3. /\ sub' = [sub EXCEPT ![s] = v] /\ sub[s].pc = "snapshot"
      /\ UNCHANGED <<slot, count, relabelled, status, thread>>
  BY Zenon DEF Snapshot, StartStream, runtime
<1>. HIDE DEF now
<1>2. /\ u \in Streams /\ u.pc = "stream" /\ u.ring = sub[s].ring /\ u.ids = now
      /\ u.got = now /\ u.terminals = Cardinality(now)
  BY Zenon, <1>1, <1>a, <1>b DEF Streams
<1>. HIDE DEF u
<1>4. /\ v \in Streams
      /\ \/ ~(u.terminals >= Total) /\ v = u
         \/ /\ u.terminals >= Total /\ v.pc = "closed" /\ v.ring = <<>> /\ v.ids = {}
            /\ v.got = u.got /\ v.terminals = u.terminals
  BY Zenon, <1>2, ClosingFacts
<1>. HIDE DEF v
<1>5. sub'[s] = v
  BY Zenon, <1>3 DEF Typed
<1>6. Len(sub[s].ring) <= Backlog /\ Len(<<>>) <= Backlog
  <2>1. Len(sub[s].ring) <= Backlog
    BY Zenon, <1>1 DEF Shape
  <2>. QED  BY <2>1, ProgressConstants
<1>7. (\A x \in Threads, d \in Dists : Pending(x, d)' <=> Pending(x, d))
      /\ \A d \in Dists : Ended(d)' <=> Ended(d)
  BY Zenon, <1>3 DEF Pending, Ended
<1>8. CASE ~(u.terminals >= Total) /\ v = u
  <2>1. Cardinality(now) < Total
    BY <1>b, <1>2, <1>8
  <2>2. Shape(s)'
    BY Zenon, <1>b, <1>2, <1>5, <1>6, <1>8, <2>1 DEF Shape
  <2>3. ASSUME relabelled = {} PROVE Streamed(s)' /\ Totals(s)'
    <3>1. Streamed(s)
      BY Zenon, <2>3 DEF Rest, Frames
    <3>2. \A i \in Nat, d \in Dists : OnRing(s, i, d)' <=> OnRing(s, i, d)
      BY Zenon, <1>2, <1>5, <1>8 DEF OnRing
    <3>3. sub'[s].got \ sub'[s].ids = {}
      BY Zenon, <1>2, <1>5, <1>8
    <3>4. Streamed(s)'
      BY Zenon, <1>7, <3>1, <3>2, <3>3 DEF Streamed
    <3>. QED  BY Zenon, <1>2, <1>5, <1>8, <3>4 DEF Totals
  <2>. QED  BY Zenon, <1>3, <1>4, <2>2, <2>3, SubKeeps
<1>9. CASE /\ u.terminals >= Total /\ v.pc = "closed" /\ v.ring = <<>> /\ v.ids = {}
           /\ v.got = u.got /\ v.terminals = u.terminals
  <2>1. v.got = Dists
    BY Zenon, <1>b, <1>2, <1>9
  <2>2. Shape(s)'
    BY Zenon, <1>b, <1>2, <1>5, <1>6, <1>9 DEF Shape
  <2>3. Streamed(s)' /\ Totals(s)'
    <3>1. \A i \in Nat, d \in Dists : ~OnRing(s, i, d)'
      <4>1. sub'[s].ring = <<>>
        BY Zenon, <1>5, <1>9
      <4>. QED  BY <4>1 DEF OnRing
    <3>. QED  BY Zenon, <1>5, <1>9, <2>1, <3>1 DEF Streamed, Totals
  <2>. QED  BY Zenon, <1>3, <1>4, <2>2, <2>3, SubKeeps
<1>. QED  BY Zenon, <1>4, <1>8, <1>9

LEMMA ReceivesKeeps ==
  ASSUME Typed, Rest, NEW s \in Subscribers, StreamReceives(s)
  PROVE  sub' \in [Subscribers -> Streams] /\ Rest'
<1>. DEFINE f == Head(sub[s].ring)
            e == f.dist
            r == [sub[s] EXCEPT !.ring = Tail(sub[s].ring)]
            g == r.got \cup {e}
            n == r.terminals + 1
            u == [r EXCEPT !.got = g, !.terminals = n]
<1>1. sub[s] \in Streams /\ Shape(s) /\ sub \in [Subscribers -> Streams]
  BY Zenon DEF Typed, Rest
<1>2. /\ sub[s].pc = "stream" /\ sub[s].ring # <<>>
      /\ UNCHANGED <<slot, count, relabelled, status, thread>>
      /\ sub' = [sub EXCEPT ![s] = IF Suppress(r, f) \/ ~Terminal(f.status) THEN r ELSE Closing(u)]
  BY Zenon DEF StreamReceives, runtime
<1>3. sub[s].ring \in Seq(Frame) /\ sub[s].terminals \in Nat /\ sub[s].got \in SUBSET Dists
  BY Zenon, <1>1 DEF Streams
<1>4. /\ Tail(sub[s].ring) \in Seq(Frame) /\ Len(sub[s].ring) \in Nat
      /\ Len(Tail(sub[s].ring)) = Len(sub[s].ring) - 1
      /\ \A i \in 1..Len(Tail(sub[s].ring)) : Tail(sub[s].ring)[i] = sub[s].ring[i + 1]
      /\ f \in Frame /\ f = sub[s].ring[1]
  BY Zenon, <1>2, <1>3, RingFacts
<1>5. e \in Dists
  BY Zenon, <1>4 DEF Frame
<1>6. /\ r \in Streams /\ r.pc = "stream" /\ r.ring = Tail(sub[s].ring) /\ r.ids = sub[s].ids
      /\ r.got = sub[s].got /\ r.terminals = sub[s].terminals
  BY Zenon, <1>1, <1>2, <1>4 DEF Streams
<1>. HIDE DEF r
<1>7. /\ u \in Streams /\ u.pc = "stream" /\ u.ring = r.ring /\ u.ids = r.ids
      /\ u.got = r.got \cup {e} /\ u.terminals = r.terminals + 1
  <2>1. g \in SUBSET Dists /\ n \in Nat
    BY <1>3, <1>5, <1>6
  <2>. HIDE DEF g, n
  <2>2. /\ u \in Streams /\ u.pc = "stream" /\ u.ring = r.ring /\ u.ids = r.ids
        /\ u.got = g /\ u.terminals = n
    BY Zenon, <1>6, <2>1 DEF Streams
  <2>. QED  BY Zenon, <2>2 DEF g, n
<1>. HIDE DEF u
<1>8. /\ Len(r.ring) <= Backlog /\ Len(<<>>) <= Backlog /\ sub[s].terminals < Total
      /\ sub[s].ids \subseteq sub[s].got
      /\ sub[s].terminals <= Total /\ sub[s].terminals + 1 <= Total /\ Total \in Nat
  <2>1. /\ Len(sub[s].ring) <= Backlog /\ sub[s].terminals < Total
        /\ sub[s].ids \subseteq sub[s].got
    BY Zenon, <1>1, <1>2 DEF Shape
  <2>2. Total \in Nat
    BY Zenon, TotalIsNat
  <2>. QED  BY SMTT(60), <1>3, <1>4, <1>6, <2>1, <2>2, ProgressConstants
<1>9. (\A x \in Threads, d \in Dists : Pending(x, d)' <=> Pending(x, d))
      /\ \A d \in Dists : Ended(d)' <=> Ended(d)
  BY Zenon, <1>2 DEF Pending, Ended
<1>10. ASSUME NEW i \in Nat, NEW d \in Dists, sub'[s].ring = r.ring, OnRing(s, i, d)'
       PROVE  i + 1 \in Nat /\ OnRing(s, i + 1, d) /\ i # 0
  <2>1. /\ i \in 1..Len(Tail(sub[s].ring)) /\ Tail(sub[s].ring)[i].dist = d
        /\ Terminal(Tail(sub[s].ring)[i].status)
    BY Zenon, <1>6, <1>10 DEF OnRing
  <2>2. i + 1 \in Nat /\ i # 0 /\ i + 1 \in 1..Len(sub[s].ring)
    BY <1>4, <2>1
  <2>. QED  BY Zenon, <1>4, <2>1, <2>2 DEF OnRing
<1>11. CASE Suppress(r, f) \/ ~Terminal(f.status)
  <2>1. sub' = [sub EXCEPT ![s] = r] /\ sub'[s] = r
    BY Zenon, <1>1, <1>2, <1>11
  <2>2. Shape(s)'
    BY Zenon, <1>6, <1>8, <2>1 DEF Shape
  <2>3. ASSUME relabelled = {} PROVE Streamed(s)' /\ Totals(s)'
    <3>1. Streamed(s) /\ Totals(s)
      BY Zenon, <2>3 DEF Rest, Frames
    <3>2. \A i \in Nat, d \in Dists : OnRing(s, i, d)' => i + 1 \in Nat /\ OnRing(s, i + 1, d)
      BY Zenon, <1>10, <2>1
    <3>3. ASSUME NEW i \in Nat, NEW j \in Nat, NEW d \in Dists, OnRing(s, i, d)', OnRing(s, j, d)'
          PROVE  i = j
      <4>1. i + 1 = j + 1
        BY Zenon, <3>1, <3>2, <3>3 DEF Streamed
      <4>. QED  BY <4>1
    <3>4. Streamed(s)'
      BY ZenonT(60), <1>2, <1>6, <1>9, <2>1, <3>1, <3>2, <3>3 DEF Streamed
    <3>. QED  BY Zenon, <1>2, <1>6, <2>1, <3>1, <3>4 DEF Totals
  <2>. QED  BY ZenonT(60), <1>2, <1>6, <2>1, <2>2, <2>3, SubKeeps
<1>12. CASE ~(Suppress(r, f) \/ ~Terminal(f.status))
  <2>. DEFINE v == Closing(u)
  <2>1. sub' = [sub EXCEPT ![s] = v] /\ sub'[s] = v
    BY Zenon, <1>1, <1>2, <1>12
  <2>2. /\ v \in Streams
        /\ \/ ~(u.terminals >= Total) /\ v = u
           \/ /\ u.terminals >= Total /\ v.pc = "closed" /\ v.ring = <<>> /\ v.ids = {}
              /\ v.got = u.got /\ v.terminals = u.terminals
    BY Zenon, <1>7, ClosingFacts
  <2>. HIDE DEF v
  <2>3. e \notin sub[s].ids /\ Terminal(f.status) /\ 1 \in Nat /\ OnRing(s, 1, e)
    <3>1. e \notin sub[s].ids /\ Terminal(f.status)
      BY Zenon, <1>6, <1>12 DEF Suppress
    <3>2. 1 \in Nat /\ 1 \in 1..Len(sub[s].ring)
      <4>1. Len(sub[s].ring) # 0
        BY <1>2, <1>3
      <4>. QED  BY <1>4, <4>1
    <3>. QED  BY Zenon, <1>4, <3>1, <3>2 DEF OnRing
  <2>. HIDE DEF e, f
  <2>4. ASSUME relabelled = {}
        PROVE  /\ Streamed(s) /\ u.got \in SUBSET Dists /\ u.terminals = Cardinality(u.got)
               /\ \A i \in Nat : ~(i + 1 \in Nat /\ OnRing(s, i + 1, e) /\ i # 0)
               /\ Ended(e) /\ \A x \in Threads : ~Pending(x, e)
    <3>1. Streamed(s) /\ sub[s].terminals = Cardinality(sub[s].got)
      BY Zenon, <1>2, <2>4 DEF Rest, Frames, Totals
    <3>2. e \notin sub[s].got
      BY Zenon, <1>2, <1>5, <2>3, <3>1 DEF Streamed
    <3>3. Cardinality(sub[s].got \cup {e}) = Cardinality(sub[s].got) + 1
      BY Zenon, <1>3, <3>2, TotalIsNat, FS_AddElement
    <3>4. ASSUME NEW i \in Nat, i + 1 \in Nat, OnRing(s, i + 1, e), i # 0 PROVE FALSE
      <4>1. i + 1 = 1
        BY Zenon, <1>5, <2>3, <3>1, <3>4 DEF Streamed
      <4>. QED  BY <3>4, <4>1
    <3>5. Ended(e) /\ \A x \in Threads : ~Pending(x, e)
      BY Zenon, <1>5, <2>3, <3>1 DEF Streamed
    <3>. QED  BY ZenonT(60), <1>3, <1>5, <1>6, <1>7, <3>1, <3>3, <3>4, <3>5
  <2>5. CASE ~(u.terminals >= Total) /\ v = u
    <3>1. u.terminals < Total
      BY SMTT(60), <1>3, <1>6, <1>7, <1>8, <2>5
    <3>2. Shape(s)'
      BY ZenonT(60), <1>6, <1>7, <1>8, <2>1, <2>5, <3>1 DEF Shape
    <3>3. ASSUME relabelled = {} PROVE Streamed(s)' /\ Totals(s)'
      <4>1. /\ Streamed(s) /\ u.terminals = Cardinality(u.got)
            /\ \A i \in Nat : ~(i + 1 \in Nat /\ OnRing(s, i + 1, e) /\ i # 0)
            /\ Ended(e) /\ \A x \in Threads : ~Pending(x, e)
        BY Zenon, <2>4, <3>3
      <4>2. \A i \in Nat, d \in Dists :
              OnRing(s, i, d)' => i + 1 \in Nat /\ OnRing(s, i + 1, d) /\ i # 0
        BY ZenonT(60), <1>7, <1>10, <2>1, <2>5
      <4>3. ASSUME NEW i \in Nat, NEW j \in Nat, NEW d \in Dists, OnRing(s, i, d)', OnRing(s, j, d)'
            PROVE  i = j
        <5>1. i + 1 = j + 1
          BY Zenon, <4>1, <4>2, <4>3 DEF Streamed
        <5>. QED  BY <5>1
      <4>4. ASSUME NEW d \in Dists, d \in sub'[s].got \ sub'[s].ids
            PROVE  /\ Ended(d)' /\ \A x \in Threads : ~Pending(x, d)'
                   /\ \A i \in Nat : ~OnRing(s, i, d)'
        <5>1. CASE d = e
          BY ZenonT(60), <1>9, <4>1, <4>2, <4>4, <5>1
        <5>2. CASE d # e
          <6>1. d \in sub[s].got \ sub[s].ids
            BY Zenon, <1>6, <1>7, <2>1, <2>5, <4>4, <5>2
          <6>. QED  BY ZenonT(60), <1>2, <1>9, <4>1, <4>2, <6>1 DEF Streamed
        <5>. QED  BY Zenon, <5>1, <5>2
      <4>5. ASSUME NEW i \in Nat, NEW d \in Dists, OnRing(s, i, d)'
            PROVE  Ended(d)' /\ \A x \in Threads : ~Pending(x, d)'
        BY Zenon, <1>9, <4>1, <4>2, <4>5 DEF Streamed
      <4>6. Streamed(s)'
        BY ZenonT(60), <4>3, <4>4, <4>5 DEF Streamed
      <4>. QED  BY ZenonT(60), <1>7, <2>1, <2>5, <4>1, <4>6 DEF Totals
    <3>. QED  BY ZenonT(60), <1>2, <2>1, <2>2, <3>2, <3>3, SubKeeps
  <2>6. CASE /\ u.terminals >= Total /\ v.pc = "closed" /\ v.ring = <<>> /\ v.ids = {}
             /\ v.got = u.got /\ v.terminals = u.terminals
    <3>1. Shape(s)'
      BY Zenon, <1>6, <1>7, <1>8, <2>1, <2>6 DEF Shape
    <3>2. ASSUME relabelled = {} PROVE Streamed(s)' /\ Totals(s)'
      <4>1. u.got = Dists
        BY ZenonT(60), <2>4, <2>6, <3>2, TotalIsNat
      <4>2. \A i \in Nat, d \in Dists : ~OnRing(s, i, d)'
        <5>1. sub'[s].ring = <<>>
          BY Zenon, <2>1, <2>6
        <5>. QED  BY <5>1 DEF OnRing
      <4>. QED  BY Zenon, <2>1, <2>6, <4>1, <4>2 DEF Streamed, Totals
    <3>. QED  BY Zenon, <1>2, <2>1, <2>2, <3>1, <3>2, SubKeeps
  <2>. QED  BY Zenon, <2>2, <2>5, <2>6
<1>. QED  BY Zenon, <1>11, <1>12

-----------------------------------------------------------------------------
(***************************************************************************)
(* The steps of the substrate.                                             *)
(***************************************************************************)
Substrate ==
  /\ peers \in [Dists -> [running : Nat, completed : Nat, failed : Nat]]
  /\ revoked \subseteq Dists /\ events \in [Dists -> Seq(Updates)]
  /\ grace \in [Dists -> {"sleep", "write", "done"}]

\* Nothing that Rest is about has changed.
LEMMA RestStays ==
  ASSUME Rest, UNCHANGED <<slot, count, relabelled, status, thread, sub>> PROVE Rest'
<1>1. (\A u \in Threads, d \in Dists : Counter(u, d)' <=> Counter(u, d))
      /\ (\A u \in Threads, d \in Dists : Pending(u, d)' <=> Pending(u, d))
      /\ (\A d \in Dists : Ended(d)' <=> Ended(d))
      /\ \A s \in Subscribers, i \in Nat, d \in Dists : OnRing(s, i, d)' <=> OnRing(s, i, d)
  BY Zenon DEF Counter, Pending, Ended, OnRing
<1>2. Counted' = Counted
  BY Zenon, <1>1 DEF Counted
<1>3. Own' /\ Accepted' /\ \A s \in Subscribers : Shape(s)'
  BY Zenon DEF Rest, Own, Accepted, Shape
<1>4. Counting'
  BY Zenon, <1>1, <1>2 DEF Rest, Counting
<1>5. Decided'
  <2>1. Grows
    BY Zenon DEF Grows
  <2>. QED  BY Zenon, <2>1, DecidedKeeps DEF Rest
<1>6. Frames'
  <2>1. Once => Once'
    BY Zenon, <1>1 DEF Once
  <2>2. ASSUME NEW s \in Subscribers PROVE Streamed(s) /\ Totals(s) => Streamed(s)' /\ Totals(s)'
    <3>1. Streamed(s) => Streamed(s)'
      BY Zenon, <1>1 DEF Streamed
    <3>. QED  BY Zenon, <3>1 DEF Totals
  <2>. QED  BY Zenon, <2>1, <2>2 DEF Rest, Frames
<1>. QED  BY Zenon, <1>3, <1>4, <1>5, <1>6 DEF Rest

Tally == [running : Nat, completed : Nat, failed : Nat]

\* A tally that may follow m of distribution d.
Follows(d, m, n) ==
  /\ n.running + n.completed <= Targets[d]
  /\ n.failed = 0 => n.running + n.completed = Targets[d]
  /\ m.completed = Targets[d] => n.completed = Targets[d]

LEMMA AnnounceKeeps ==
  ASSUME Typed, Pulled, NEW d \in Dists, NEW m \in Tally, Announce(d, m),
         Follows(d, peers[d], m), slot' = slot
  PROVE  /\ peers' \in [Dists -> Tally] /\ events' \in [Dists -> Seq(Updates)] /\ Pulled'
<1>1. /\ peers \in [Dists -> Tally] /\ events \in [Dists -> Seq(Updates)]
      /\ peers' = [peers EXCEPT ![d] = m]
  BY Zenon DEF Typed, Tally, Announce
<1>2. peers' \in [Dists -> Tally] /\ peers'[d] = m /\ \A x \in Dists : x # d => peers'[x] = peers[x]
  BY Zenon, <1>1
<1>3. \A x \in Dists : peers[x].completed = Targets[x] => peers'[x].completed = Targets[x]
  BY Zenon, <1>2 DEF Follows
<1>4. ASSUME NEW x \in Dists
      PROVE  /\ peers'[x].running + peers'[x].completed <= Targets[x]
             /\ peers'[x].failed = 0 => peers'[x].running + peers'[x].completed = Targets[x]
             /\ slot'[x] = "completed" => peers'[x].completed = Targets[x]
  BY Zenon, <1>2, <1>3 DEF Follows, Pulled
<1>. DEFINE e == [agg |-> Aggregate(m), complete |-> Complete(d, m)]
            r == IF Len(events[d]) < EventCap THEN events[d] ELSE Tail(events[d])
<1>5. CASE ~Subscribed(d)
  <2>1. events' = events
    BY Zenon, <1>5 DEF Announce
  <2>. QED  BY Zenon, <1>1, <1>2, <1>3, <1>4, <2>1 DEF Pulled
<1>6. CASE Subscribed(d)
  <2>1. events' = [events EXCEPT ![d] = Append(r, e)]
    BY Zenon, <1>6 DEF Announce
  <2>2. e \in Updates /\ e.agg = Aggregate(m)
    <3>1. Aggregate(m) \in States
      BY Zenon DEF Aggregate, States, Final
    <3>2. Complete(d, m) \in BOOLEAN
      BY DEF Complete
    <3>. QED  BY Zenon, <3>1, <3>2 DEF Updates
  <2>3. Aggregate(m) = "completed" => m.completed = Targets[d]
    <3>. SUFFICES ASSUME Aggregate(m) = "completed" PROVE m.completed = Targets[d]
      BY Zenon
    <3>1. m.running \in Nat /\ m.completed \in Nat /\ m.failed \in Nat /\ Targets[d] \in Nat
      BY Zenon, ProgressConstants DEF Tally
    <3>2. ~(m.failed > 0) /\ ~(m.running > 0)
      BY Zenon DEF Aggregate
    <3>3. m.failed = 0 => m.running + m.completed = Targets[d]
      BY Zenon DEF Follows
    <3>. QED  BY <3>1, <3>2, <3>3
  <2>4. events[d] \in Seq(Updates) /\ EventCap \in Nat \ {0}
    BY Zenon, <1>1, ProgressConstants
  <2>5. /\ r \in Seq(Updates) /\ Len(r) \in Nat
        /\ \A i \in 1..Len(r) : \E j \in 1..Len(events[d]) : r[i] = events[d][j]
    <3>1. CASE Len(events[d]) < EventCap
      <4>1. r = events[d]
        BY Zenon, <3>1
      <4>2. Len(events[d]) \in Nat
        BY <2>4
      <4>. QED  BY Zenon, <2>4, <4>1, <4>2
    <3>2. CASE ~(Len(events[d]) < EventCap)
      <4>1. r = Tail(events[d])
        BY Zenon, <3>2
      <4>2. events[d] # <<>> /\ Len(events[d]) \in Nat
        BY <2>4, <3>2
      <4>3. /\ r \in Seq(Updates) /\ Len(r) = Len(events[d]) - 1
            /\ \A i \in 1..Len(r) : r[i] = events[d][i + 1]
        BY Zenon, <2>4, <4>1, <4>2, RingFacts
      <4>. HIDE DEF r
      <4>4. \A i \in 1..Len(r) : i + 1 \in 1..Len(events[d])
        BY <4>2, <4>3
      <4>5. Len(r) \in Nat
        BY <4>3
      <4>. QED  BY Zenon, <4>3, <4>4, <4>5
    <3>. QED  BY Zenon, <3>1, <3>2
  <2>. HIDE DEF r, e
  <2>6. /\ Append(r, e) \in Seq(Updates) /\ Len(Append(r, e)) = Len(r) + 1
        /\ \A i \in 1..Len(r) : Append(r, e)[i] = r[i]
        /\ Append(r, e)[Len(r) + 1] = e
    BY ZenonT(60), <2>2, <2>5, GrownFacts
  <2>7. events' \in [Dists -> Seq(Updates)] /\ events'[d] = Append(r, e)
        /\ \A x \in Dists : x # d => events'[x] = events[x]
    BY Zenon, <1>1, <2>1, <2>6
  <2>8. ASSUME NEW x \in Dists, NEW i \in 1..Len(events'[x]), events'[x][i].agg = "completed"
        PROVE  peers'[x].completed = Targets[x]
    <3>1. CASE x # d
      BY Zenon, <1>3, <2>7, <2>8, <3>1 DEF Pulled
    <3>2. CASE x = d
      <4>1. i \in 1..(Len(r) + 1) /\ Append(r, e)[i].agg = "completed"
        BY Zenon, <2>6, <2>7, <2>8, <3>2
      <4>2. i \in 1..Len(r) \/ i = Len(r) + 1
        BY <2>5, <4>1
      <4>3. CASE i = Len(r) + 1
        BY ZenonT(60), <1>2, <2>2, <2>3, <2>6, <3>2, <4>1, <4>3
      <4>4. CASE i \in 1..Len(r)
        <5>1. PICK j \in 1..Len(events[d]) : r[i] = events[d][j]
          BY Zenon, <2>5, <4>4
        <5>. QED  BY ZenonT(60), <1>3, <2>6, <3>2, <4>1, <4>4, <5>1 DEF Pulled
      <4>. QED  BY Zenon, <4>2, <4>3, <4>4
    <3>. QED  BY Zenon, <3>1, <3>2
  <2>. QED  BY Zenon, <1>2, <1>4, <2>7, <2>8 DEF Pulled
<1>. QED  BY Zenon, <1>5, <1>6

LEMMA TallyTyped ==
  ASSUME Typed, Pulled, NEW d \in Dists
  PROVE  /\ peers[d] \in Tally /\ peers[d].running \in Nat /\ peers[d].completed \in Nat
         /\ peers[d].failed \in Nat /\ Targets[d] \in Nat /\ Missing[d] \in Nat
         /\ peers[d].running + peers[d].completed <= Targets[d]
         /\ peers[d].failed = 0 => peers[d].running + peers[d].completed = Targets[d]
<1>1. peers[d] \in Tally
  BY Zenon DEF Typed, Tally
<1>2. peers[d].running \in Nat /\ peers[d].completed \in Nat /\ peers[d].failed \in Nat
  BY Zenon, <1>1 DEF Tally
<1>3. Targets[d] \in Nat /\ Missing[d] \in Nat
  BY Zenon, ProgressConstants
<1>. QED  BY Zenon, <1>1, <1>2, <1>3 DEF Pulled

LEMMA TransferKeeps ==
  ASSUME Typed, Pulled, NEW d \in Dists, TransferEnds(d)
  PROVE  /\ peers' \in [Dists -> Tally] /\ events' \in [Dists -> Seq(Updates)] /\ Pulled'
<1>. DEFINE p == peers[d]
<1>1. /\ p \in Tally /\ p.running \in Nat /\ p.completed \in Nat /\ p.failed \in Nat
      /\ Targets[d] \in Nat /\ p.running + p.completed <= Targets[d]
      /\ p.failed = 0 => p.running + p.completed = Targets[d]
  BY Zenon, TallyTyped
<1>2. p.running > 0 /\ slot' = slot
  BY Zenon DEF TransferEnds, runtime
<1>3. p.running - 1 \in Nat /\ p.completed + 1 \in Nat /\ p.failed + 1 \in Nat
  BY <1>1, <1>2
<1>4. CASE Announce(d, [p EXCEPT !.running = p.running - 1, !.completed = p.completed + 1])
  <2>. DEFINE r == p.running - 1
              x == p.completed + 1
              m == [p EXCEPT !.running = r, !.completed = x]
  <2>2. Announce(d, m) /\ r \in Nat /\ x \in Nat
    BY Zenon, <1>3, <1>4
  <2>. HIDE DEF r, x, p
  <2>1. m \in Tally /\ m.running = r /\ m.completed = x /\ m.failed = p.failed
    BY Zenon, <1>1, <2>2 DEF Tally
  <2>. HIDE DEF m
  <2>3. Follows(d, p, m)
    BY SMTT(60), <1>1, <1>2, <2>1 DEF Follows, r, x
  <2>. QED  BY ZenonT(60), <1>2, <2>1, <2>2, <2>3, AnnounceKeeps DEF p
<1>5. CASE Announce(d, [p EXCEPT !.running = p.running - 1, !.failed = p.failed + 1])
  <2>. DEFINE r == p.running - 1
              x == p.failed + 1
              m == [p EXCEPT !.running = r, !.failed = x]
  <2>2. Announce(d, m) /\ r \in Nat /\ x \in Nat
    BY Zenon, <1>3, <1>5
  <2>. HIDE DEF r, x, p
  <2>1. m \in Tally /\ m.running = r /\ m.completed = p.completed /\ m.failed = x
    BY Zenon, <1>1, <2>2 DEF Tally
  <2>. HIDE DEF m
  <2>3. Follows(d, p, m)
    BY <1>1, <1>2, <2>1 DEF Follows, r, x
  <2>. QED  BY ZenonT(60), <1>2, <2>1, <2>2, <2>3, AnnounceKeeps DEF p
<1>. QED  BY Zenon, <1>4, <1>5 DEF TransferEnds

LEMMA GraceKeeps ==
  ASSUME Typed, Pulled, NEW d \in Dists, GraceWrites(d)
  PROVE  /\ peers' \in [Dists -> Tally] /\ events' \in [Dists -> Seq(Updates)] /\ Pulled'
<1>. DEFINE p == peers[d]
            x == p.failed + Missing[d]
            m == [p EXCEPT !.failed = x]
<1>1. /\ p \in Tally /\ p.running \in Nat /\ p.completed \in Nat /\ p.failed \in Nat
      /\ Targets[d] \in Nat /\ Missing[d] \in Nat /\ p.running + p.completed <= Targets[d]
      /\ p.failed = 0 => p.running + p.completed = Targets[d]
  BY Zenon, TallyTyped
<1>2. slot' = slot
  BY Zenon DEF GraceWrites, runtime
<1>3. CASE Missing[d] = 0
  <2>1. UNCHANGED <<peers, events>>
    BY Zenon, <1>3 DEF GraceWrites
  <2>. QED  BY Zenon, <1>2, <2>1 DEF Typed, Tally, Pulled
<1>4. CASE Missing[d] # 0
  <2>1. x \in Nat
    BY <1>1
  <2>3. Announce(d, m)
    BY Zenon, <1>4 DEF GraceWrites
  <2>. HIDE DEF x, p
  <2>2. m \in Tally /\ m.running = p.running /\ m.completed = p.completed /\ m.failed = x
    BY Zenon, <1>1, <2>1 DEF Tally
  <2>. HIDE DEF m
  <2>4. Follows(d, p, m)
    BY <1>1, <1>4, <2>2 DEF Follows, x
  <2>. QED  BY ZenonT(60), <1>2, <2>2, <2>3, <2>4, AnnounceKeeps DEF p
<1>. QED  BY Zenon, <1>3, <1>4

LEMMA SubstrateKeeps ==
  ASSUME Typed, Pulled, NEW d \in Dists, TransferEnds(d) \/ GraceReads(d) \/ GraceWrites(d)
  PROVE  Substrate' /\ Pulled' /\ UNCHANGED <<slot, count, relabelled, status, thread, sub>>
<1>1. UNCHANGED <<slot, count, relabelled, status, thread, sub>> /\ revoked' = revoked
  BY Zenon DEF TransferEnds, GraceReads, GraceWrites, runtime
<1>2. grace' \in [Dists -> {"sleep", "write", "done"}]
  BY Zenon DEF TransferEnds, GraceReads, GraceWrites, Typed
<1>3. peers' \in [Dists -> Tally] /\ events' \in [Dists -> Seq(Updates)] /\ Pulled'
  <2>1. CASE GraceReads(d)
    BY Zenon, <1>1, <2>1 DEF GraceReads, Typed, Tally, Pulled
  <2>. QED  BY Zenon, <2>1, TransferKeeps, GraceKeeps
<1>. QED  BY Zenon, <1>1, <1>2, <1>3 DEF Substrate, Typed, Tally

-----------------------------------------------------------------------------
(***************************************************************************)
(* The steps of watchers and cancel handlers, and the theorems.            *)
(***************************************************************************)
\* A thread goes on without a word about its distribution.
LEMMA GotoQuiet ==
  ASSUME Typed, NEW t \in Threads, NEW p \in Places, p \notin {"count", "send", "update"},
         Goto(t, p), thread[t].pc \notin {"count", "send", "apply"},
         UNCHANGED <<slot, count, relabelled, status, sub>>
  PROVE  thread' \in [Threads -> Tasks] /\ Quiet(t)
<1>1. /\ [thread[t] EXCEPT !.pc = p] \in Tasks
      /\ [thread[t] EXCEPT !.pc = p].dist = thread[t].dist
      /\ [thread[t] EXCEPT !.pc = p].reply = thread[t].reply
      /\ [thread[t] EXCEPT !.pc = p].pc = p
  BY Zenon, ThreadTyped, NewPlace
<1>2. thread' \in [Threads -> Tasks] /\ thread'[t] = [thread[t] EXCEPT !.pc = p] /\ Only(t)
  BY Zenon, <1>1, BecomesEffect DEF Goto
<1>. QED  BY Zenon, <1>1, <1>2 DEF Quiet, Busy, Applied

\* A cancel handler answers, and goes on to apply what was accepted.
LEMMA ReplyQuiet ==
  ASSUME Typed, NEW t \in Threads, NEW p \in {"done", "apply"}, NEW a \in {"yes", "no", "error"},
         a = "yes" => p = "apply", Becomes(t, [thread[t] EXCEPT !.pc = p, !.reply = a]),
         thread[t].pc \notin {"count", "send"}, UNCHANGED <<slot, count, relabelled, status, sub>>
  PROVE  thread' \in [Threads -> Tasks] /\ Quiet(t)
<1>. DEFINE r == [thread[t] EXCEPT !.pc = p, !.reply = a]
<1>1. r \in Tasks /\ r.dist = thread[t].dist /\ r.reply = a /\ r.pc = p
  <2>1. thread[t] \in Tasks
    BY Zenon, ThreadTyped
  <2>. QED  BY Zenon, <2>1 DEF Tasks
<1>2. Becomes(t, r)
  BY Zenon
<1>. HIDE DEF r
<1>3. thread' \in [Threads -> Tasks] /\ thread'[t] = r /\ Only(t)
  BY Zenon, <1>1, <1>2, BecomesEffect
<1>4. p \notin Busy /\ p # "update"
  BY Zenon DEF Busy
<1>. QED  BY Zenon, <1>1, <1>3, <1>4 DEF Quiet, Busy

LEMMA PulledKeeps ==
  ASSUME Pulled, peers' = peers,
         \A d \in Dists : slot'[d] = "completed" =>
           slot[d] = "completed" \/ peers[d].completed = Targets[d],
         \A d \in Dists : \A i \in 1..Len(events'[d]) :
           \E j \in 1..Len(events[d]) : events'[d][i] = events[d][j]
  PROVE  Pulled'
BY ZenonT(60) DEF Pulled

\* The slots, whichever way a thread wrote them.
LEMMA SlotsAfter ==
  ASSUME Typed, NEW t \in Threads, NEW new, Quiet(t) \/ Fresh(t, new)
  PROVE  /\ \A d \in Dists : slot'[d] = slot[d] \/ (d = thread[t].dist /\ slot'[d] = new)
         /\ relabelled' = relabelled /\ sub' = sub
<1>1. CASE Quiet(t)
  BY Zenon, <1>1 DEF Quiet
<1>2. CASE Fresh(t, new)
  BY Zenon, <1>2, ThreadTyped DEF Fresh, Typed
<1>. QED  BY Zenon, <1>1, <1>2

\* What a watcher of d may do with its slot.
Watched(d) == \E new \in States :
  /\ thread' \in [Threads -> Tasks] /\ slot' \in [Dists -> States]
  /\ Quiet(d) \/ Fresh(d, new)
  /\ new = "completed" => peers[d].completed = Targets[d]

LEMMA WatchKeeps ==
  ASSUME Typed, Pulled, Rest, NEW d \in Dists, WatchStep(d) \/ WatchClosed(d)
  PROVE  Typed' /\ Pulled' /\ Rest'
<1>1. d \in Threads /\ thread[d].dist = d
  BY Zenon DEF Threads, Rest, Own
<1>2. /\ UNCHANGED <<peers, revoked, grace, count, relabelled, status, sub>>
      /\ thread[d].pc \in {"status", "subscribe", "loop"}
  BY Zenon DEF WatchStep, WatchStatus, WatchSubscribe, WatchReceives, WatchClosed, substrate, runtime
<1>3. events' \in [Dists -> Seq(Updates)]
      /\ \A x \in Dists : \A i \in 1..Len(events'[x]) :
           \E j \in 1..Len(events[x]) : events'[x][i] = events[x][j]
  <2>1. CASE events' = events
    BY Zenon, <2>1 DEF Typed
  <2>2. CASE WatchReceives(d)
    <3>. DEFINE r == events[d]
                w == IF Head(r).complete THEN <<>> ELSE Tail(r)
    <3>1. r # <<>> /\ r \in Seq(Updates) /\ events' = [events EXCEPT ![d] = w]
      BY Zenon, <2>2 DEF WatchReceives, Typed
    <3>2. w \in Seq(Updates) /\ \A i \in 1..Len(w) : \E j \in 1..Len(r) : w[i] = r[j]
      <4>1. CASE w = <<>>
        <5>1. <<>> \in Seq(Updates) /\ 1..Len(<<>>) = {}
          OBVIOUS
        <5>. HIDE DEF w
        <5>. QED  BY Zenon, <4>1, <5>1
      <4>2. CASE w = Tail(r)
        <5>1. /\ Tail(r) \in Seq(Updates) /\ Len(Tail(r)) = Len(r) - 1 /\ Len(r) \in Nat
              /\ \A i \in 1..Len(Tail(r)) : Tail(r)[i] = r[i + 1]
          BY Zenon, <3>1, RingFacts
        <5>. HIDE DEF r
        <5>2. \A i \in 1..Len(Tail(r)) : i + 1 \in 1..Len(r)
          BY <5>1
        <5>. QED  BY Zenon, <4>2, <5>1, <5>2
      <4>. QED  BY Zenon, <4>1, <4>2
    <3>. HIDE DEF w
    <3>3. events' \in [Dists -> Seq(Updates)] /\ events'[d] = w
          /\ \A x \in Dists : x # d => events'[x] = events[x]
      BY Zenon, <3>1, <3>2 DEF Typed
    <3>. QED
      <4>1. ASSUME NEW x \in Dists, NEW i \in 1..Len(events'[x])
            PROVE  \E j \in 1..Len(events[x]) : events'[x][i] = events[x][j]
        <5>1. CASE x = d
          BY Zenon, <3>2, <3>3, <4>1, <5>1
        <5>2. CASE x # d
          BY Zenon, <3>3, <4>1, <5>2
        <5>. QED  BY Zenon, <5>1, <5>2
      <4>. QED  BY Zenon, <3>3, <4>1
  <2>. QED
    BY Zenon, <2>1, <2>2 DEF WatchStep, WatchStatus, WatchSubscribe, WatchClosed, substrate
<1>4. Watched(d)
  <2>1. /\ "failed" \in States /\ "completed" \in States /\ slot \in [Dists -> States]
        /\ {"loop", "subscribe", "check"} \subseteq Places
    BY Zenon DEF States, Final, Places, Typed
  <2>2. ASSUME NEW new \in States, NEW next \in {"loop", "check"}, ApplyProgress(d, d, new, next),
               new = "completed" => peers[d].completed = Targets[d]
        PROVE  Watched(d)
    <3>1. /\ thread' \in [Threads -> Tasks] /\ slot' \in [Dists -> States]
          /\ Quiet(d) \/ Fresh(d, new)
      BY Zenon, <1>1, <1>2, <2>2, ApplyProgressEffect
    <3>. QED  BY Zenon, <2>2, <3>1 DEF Watched
  <2>3. ASSUME NEW p \in {"loop", "subscribe", "check"}, Goto(d, p), slot' = slot
        PROVE  Watched(d)
    <3>1. p \in Places /\ p \notin {"count", "send", "update"}
      BY Zenon, <2>1
    <3>2. thread' \in [Threads -> Tasks] /\ Quiet(d)
      BY ZenonT(60), <1>1, <1>2, <2>3, <3>1, GotoQuiet
    <3>. QED  BY Zenon, <2>1, <2>3, <3>2 DEF Watched
  <2>4. "failed" # "completed"
    BY Zenon
  <2>5. CASE WatchStatus(d)
    <3>1. ASSUME Targets[d] = 0 PROVE peers[d].completed = Targets[d]
      <4>1. /\ peers[d].running \in Nat /\ peers[d].completed \in Nat /\ Targets[d] \in Nat
            /\ peers[d].running + peers[d].completed <= Targets[d]
        BY Zenon, TallyTyped
      <4>. QED  BY <3>1, <4>1
    <3>. QED  BY ZenonT(60), <2>1, <2>2, <2>3, <2>4, <2>5, <3>1 DEF WatchStatus
  <2>6. CASE WatchSubscribe(d)
    BY ZenonT(60), <2>1, <2>2, <2>3, <2>4, <2>6 DEF WatchSubscribe
  <2>7. CASE WatchReceives(d)
    <3>. DEFINE e == Head(events[d])
                next == IF e.complete THEN "check" ELSE "loop"
    <3>1. ApplyProgress(d, d, e.agg, next) /\ events[d] # <<>> /\ events[d] \in Seq(Updates)
      BY Zenon, <2>7 DEF WatchReceives, Typed
    <3>2. e \in Updates /\ e = events[d][1] /\ Len(events[d]) \in Nat /\ Len(events[d]) # 0
      BY Zenon, <3>1, RingFacts
    <3>3. 1 \in 1..Len(events[d])
      BY <3>2
    <3>4. e.agg = "completed" => peers[d].completed = Targets[d]
      BY Zenon, <3>2, <3>3 DEF Pulled
    <3>5. next \in {"loop", "check"}
      BY Zenon
    <3>. HIDE DEF e, next
    <3>6. e.agg \in States
      BY Zenon, <3>2 DEF Updates
    <3>. QED  BY ZenonT(60), <2>2, <3>1, <3>4, <3>5, <3>6
  <2>8. CASE WatchClosed(d)
    BY Zenon, <2>1, <2>3, <2>8 DEF WatchClosed, runtime
  <2>. QED  BY ZenonT(60), <2>5, <2>6, <2>7, <2>8 DEF WatchStep
<1>5. PICK new \in States :
        /\ thread' \in [Threads -> Tasks] /\ slot' \in [Dists -> States]
        /\ Quiet(d) \/ Fresh(d, new)
        /\ new = "completed" => peers[d].completed = Targets[d]
  BY Zenon, <1>4 DEF Watched
<1>6. Typed'
  BY Zenon, <1>2, <1>3, <1>5 DEF Typed
<1>7. Pulled'
  <2>1. \A x \in Dists : slot'[x] = slot[x] \/ (x = d /\ slot'[x] = new)
    BY ZenonT(60), <1>1, <1>5, SlotsAfter
  <2>. QED  BY ZenonT(60), <1>2, <1>3, <1>5, <2>1, PulledKeeps
<1>8. Rest'
  BY Zenon, <1>1, <1>5, QuietKeeps, FreshKeeps
<1>. QED  BY Zenon, <1>6, <1>7, <1>8

LEMMA ThreadKeeps ==
  ASSUME Typed, Pulled, Rest, NEW t \in Threads, ThreadStep(t)
  PROVE  Typed' /\ Pulled' /\ Rest'
<1>1. UNCHANGED <<substrate, slot, relabelled>>
  BY Zenon DEF ThreadStep, CountTerminal, Broadcast, MaybeFinalize, UpdateStatus, runtime
<1>2. Pulled'
  BY Zenon, <1>1 DEF Pulled, substrate
<1>3. CASE CountTerminal(t)
  <2>1. thread' \in [Threads -> Tasks] /\ Rest'
    BY Zenon, <1>3, CountKeeps
  <2>2. Typed'
    BY Zenon, <1>1, <1>3, <2>1 DEF Typed, substrate, CountTerminal
  <2>. QED  BY Zenon, <1>2, <2>1, <2>2
<1>4. CASE Broadcast(t)
  <2>1. thread' \in [Threads -> Tasks] /\ sub' \in [Subscribers -> Streams] /\ Rest'
    BY Zenon, <1>4, BroadcastKeeps
  <2>2. Typed'
    BY Zenon, <1>1, <1>4, <2>1 DEF Typed, substrate, Broadcast
  <2>. QED  BY Zenon, <1>2, <2>1, <2>2
<1>5. CASE MaybeFinalize(t) \/ UpdateStatus(t)
  <2>1. thread' \in [Threads -> Tasks] /\ status' \in {"pending"} \cup Final /\ Quiet(t)
    BY Zenon, <1>5, FinalizeQuiet
  <2>2. Rest'
    BY Zenon, <2>1, QuietKeeps
  <2>3. Typed'
    BY Zenon, <1>1, <2>1 DEF Typed, substrate, Quiet
  <2>. QED  BY Zenon, <1>2, <2>2, <2>3
<1>. QED  BY Zenon, <1>3, <1>4, <1>5 DEF ThreadStep

LEMMA CancelKeeps ==
  ASSUME Typed, Pulled, Rest, NEW c \in Cancels,
         CancelLookup(c) \/ CancelTransfers(c) \/ CancelRefused(c) \/ CancelApplies(c)
  PROVE  Typed' /\ Pulled' /\ Rest'
<1>1. c \in Threads
  BY Zenon DEF Threads
<1>2. CASE CancelLookup(c) \/ CancelRefused(c)
  <2>1. /\ UNCHANGED <<substrate, slot, count, relabelled, status, sub>>
        /\ thread[c].pc \in {"idle", "cancel"}
        /\ \/ Goto(c, "cancel")
           \/ \E a \in {"no", "error"} : Becomes(c, [thread[c] EXCEPT !.pc = "done", !.reply = a])
    BY Zenon, <1>2 DEF CancelLookup, CancelRefused, runtime
  <2>2. thread' \in [Threads -> Tasks] /\ Quiet(c)
    <3>1. CASE Goto(c, "cancel")
      BY ZenonT(60), <1>1, <2>1, <3>1, GotoQuiet DEF Places
    <3>2. ASSUME NEW a \in {"no", "error"}, Becomes(c, [thread[c] EXCEPT !.pc = "done", !.reply = a])
          PROVE  thread' \in [Threads -> Tasks] /\ Quiet(c)
      <4>1. a \in {"yes", "no", "error"} /\ a # "yes" /\ "done" \in {"done", "apply"}
            /\ thread[c].pc \notin {"count", "send"}
        BY Zenon, <2>1
      <4>. QED  BY ZenonT(60), <1>1, <2>1, <3>2, <4>1, ReplyQuiet
    <3>. QED  BY Zenon, <2>1, <3>1, <3>2
  <2>3. Typed' /\ Pulled'
    BY Zenon, <2>1, <2>2 DEF Typed, Pulled, substrate
  <2>. QED  BY Zenon, <1>1, <2>2, <2>3, QuietKeeps
<1>3. CASE CancelTransfers(c)
  <2>. DEFINE d == thread[c].dist
              p == peers[d]
              x == p.failed + p.running
              m == [p EXCEPT !.running = 0, !.failed = x]
  <2>1. /\ Announce(d, m) /\ revoked' = revoked \cup {d} /\ thread[c].pc = "cancel"
        /\ Becomes(c, [thread[c] EXCEPT !.pc = "apply", !.reply = "yes"])
        /\ UNCHANGED <<grace, slot, count, relabelled, status, sub>>
    BY Zenon, <1>3 DEF CancelTransfers, runtime
  <2>2. d \in Dists
    BY Zenon, <1>1, ThreadTyped
  <2>3. /\ p \in Tally /\ p.running \in Nat /\ p.completed \in Nat /\ p.failed \in Nat
        /\ Targets[d] \in Nat /\ p.running + p.completed <= Targets[d]
        /\ p.failed = 0 => p.running + p.completed = Targets[d]
    BY ZenonT(60), <2>2, TallyTyped
  <2>4. x \in Nat /\ (x = 0 => p.failed = 0 /\ p.running = 0)
    BY <2>3
  <2>. HIDE DEF x, p, d
  <2>5. m \in Tally /\ m.running = 0 /\ m.completed = p.completed /\ m.failed = x
    BY Zenon, <2>3, <2>4 DEF Tally
  <2>. HIDE DEF m
  <2>6. Follows(d, p, m)
    BY SMTT(60), <2>3, <2>4, <2>5 DEF Follows
  <2>7. peers' \in [Dists -> Tally] /\ events' \in [Dists -> Seq(Updates)] /\ Pulled'
    BY ZenonT(60), <2>1, <2>2, <2>5, <2>6, AnnounceKeeps DEF p
  <2>8. thread' \in [Threads -> Tasks] /\ Quiet(c)
    <3>1. "yes" \in {"yes", "no", "error"} /\ "apply" \in {"done", "apply"}
          /\ thread[c].pc \notin {"count", "send"}
      BY Zenon, <2>1
    <3>. QED  BY Zenon, <1>1, <2>1, <3>1, ReplyQuiet
  <2>9. Typed'
    BY ZenonT(60), <2>1, <2>2, <2>7, <2>8 DEF Typed, Tally
  <2>. QED  BY ZenonT(60), <1>1, <2>7, <2>8, <2>9, QuietKeeps
<1>4. CASE CancelApplies(c)
  <2>1. /\ thread[c].pc = "apply" /\ ApplyCancellation(c, thread[c].dist)
        /\ UNCHANGED <<substrate, count, status, sub>>
    BY Zenon, <1>4 DEF CancelApplies
  <2>2. /\ thread' \in [Threads -> Tasks] /\ slot' \in [Dists -> States]
        /\ relabelled' \subseteq Dists
        /\ Quiet(c) \/ Fresh(c, "cancelled") \/ Relabel(c)
        /\ slot' = slot \/ slot' = [slot EXCEPT ![thread[c].dist] = "cancelled"]
    BY ZenonT(60), <1>1, <2>1, ApplyCancellationEffect
  <2>3. Typed'
    BY Zenon, <2>1, <2>2 DEF Typed, substrate
  <2>4. Rest'
    BY ZenonT(60), <1>1, <2>2, QuietKeeps, FreshKeeps, RelabelKeeps
  <2>5. Pulled'
    <3>1. \A d \in Dists : slot'[d] = "completed" => slot[d] = "completed"
      BY Zenon, <2>2 DEF Typed
    <3>. QED  BY Zenon, <2>1, <3>1 DEF Pulled, substrate
  <2>. QED  BY Zenon, <2>3, <2>4, <2>5
<1>. QED  BY Zenon, <1>2, <1>3, <1>4

LEMMA StreamKeeps ==
  ASSUME Typed, Pulled, Rest, NEW s \in Subscribers, Attach(s) \/ StreamStep(s)
  PROVE  Typed' /\ Pulled' /\ Rest'
<1>1. UNCHANGED <<substrate, runtime, status, thread>>
  BY Zenon DEF Attach, StreamStep, Snapshot, StartStream, StreamReceives
<1>2. sub' \in [Subscribers -> Streams] /\ Rest'
  BY Zenon, AttachKeeps, SnapshotKeeps, ReceivesKeeps DEF StreamStep
<1>3. Typed' /\ Pulled'
  BY Zenon, <1>1, <1>2 DEF Typed, Pulled, substrate, runtime
<1>. QED  BY Zenon, <1>2, <1>3

LEMMA SubstrateStepKeeps ==
  ASSUME Typed, Pulled, Rest, NEW d \in Dists, TransferEnds(d) \/ GraceReads(d) \/ GraceWrites(d)
  PROVE  Typed' /\ Pulled' /\ Rest'
<1>1. Substrate' /\ Pulled' /\ UNCHANGED <<slot, count, relabelled, status, thread, sub>>
  BY Zenon, SubstrateKeeps
<1>2. Typed'
  BY Zenon, <1>1 DEF Typed, Substrate
<1>. QED  BY Zenon, <1>1, <1>2, RestStays

LEMMA InductiveStep == IInv /\ [Next]_vars => IInv'
<1>. SUFFICES ASSUME Typed, Pulled, Rest, [Next]_vars PROVE Typed' /\ Pulled' /\ Rest'
  BY Zenon DEF IInv, Rest
<1>1. CASE UNCHANGED vars
  <2>1. UNCHANGED <<slot, count, relabelled, status, thread, sub, peers, revoked, events, grace>>
    BY Zenon, <1>1 DEF vars, substrate, runtime
  <2>. QED  BY Zenon, <2>1, RestStays DEF Typed, Pulled
<1>2. CASE Next
  BY ZenonT(60), <1>2, SubstrateStepKeeps, ThreadKeeps, WatchKeeps, CancelKeeps, StreamKeeps DEF Next
<1>. QED  BY Zenon, <1>1, <1>2

LEMMA InductiveInit == Init => IInv
<1>. SUFFICES ASSUME Init PROVE IInv
  BY Zenon
<1>1. ASSUME NEW d \in Dists PROVE Thread("status", d) \in Tasks /\ Thread("status", d).dist = d
                                   /\ Thread("status", d).pc = "status" /\ Thread("status", d).reply = "none"
  BY Zenon, <1>1 DEF Thread, Tasks, States, Final
<1>2. ASSUME NEW d \in Dists PROVE Thread("idle", d) \in Tasks /\ Thread("idle", d).pc = "idle"
                                   /\ Thread("idle", d).reply = "none"
  BY Zenon, <1>2 DEF Thread, Tasks, States, Final
<1>3. ASSUME NEW t \in Threads PROVE thread[t] \in Tasks /\ thread[t].pc \in {"status", "idle"}
                                     /\ thread[t].reply = "none"
  <2>1. CASE t \in Dists
    BY Zenon, <1>1, <2>1 DEF Init
  <2>2. CASE t \notin Dists
    <3>1. t \in Cancels /\ Asks[t] \in Dists
      BY ZenonT(60), <2>2, ProgressConstants DEF Threads
    <3>. QED  BY ZenonT(60), <1>2, <2>2, <3>1 DEF Init
  <2>. QED  BY Zenon, <2>1, <2>2
<1>4. \A s \in Subscribers :
        /\ sub[s] \in Streams /\ sub[s].pc = "idle" /\ sub[s].ring = <<>> /\ sub[s].ids = {}
        /\ sub[s].got = {} /\ sub[s].terminals = 0
  BY SMTT(60) DEF Init, Streams
<1>5. \A d \in Dists :
        /\ peers[d] \in Tally /\ peers[d].running = Targets[d] /\ peers[d].completed = 0
        /\ peers[d].failed = 0 /\ Targets[d] \in Nat
  BY Zenon, ProgressConstants DEF Init, Tally
<1>6. Typed
  <2>1. peers \in [Dists -> Tally] /\ sub \in [Subscribers -> Streams] /\ thread \in [Threads -> Tasks]
    BY ZenonT(60), <1>3, <1>4, <1>5 DEF Init
  <2>2. events \in [Dists -> Seq(Updates)]
    BY DEF Init
  <2>3. slot \in [Dists -> States] /\ grace \in [Dists -> {"sleep", "write", "done"}]
    BY Zenon DEF Init, States
  <2>. QED  BY ZenonT(60), <2>1, <2>2, <2>3 DEF Init, Typed, Tally
<1>7. Own
  BY Zenon, <1>1 DEF Init, Own, Threads
<1>8. Pulled
  <2>1. \A d \in Dists : events[d] = <<>> /\ slot[d] = "pending"
    BY Zenon DEF Init
  <2>. QED  BY SMTT(60), <1>5, <2>1 DEF Pulled
<1>9. (\A d \in Dists : ~Ended(d)) /\ (\A t \in Threads, d \in Dists : ~Counter(t, d))
      /\ (\A t \in Threads, d \in Dists : ~Pending(t, d))
      /\ \A s \in Subscribers, i \in Nat, d \in Dists : ~OnRing(s, i, d)
  <2>1. \A d \in Dists : ~Ended(d)
    BY Zenon DEF Init, Ended, Terminal, Final
  <2>2. \A t \in Threads, d \in Dists : ~Counter(t, d) /\ ~Pending(t, d)
    BY Zenon, <1>3 DEF Counter, Pending
  <2>3. ASSUME NEW s \in Subscribers, NEW i \in Nat, NEW d \in Dists PROVE ~OnRing(s, i, d)
    <3>1. sub[s].ring = <<>>
      BY Zenon, <1>4
    <3>. QED  BY <3>1 DEF OnRing
  <2>. QED  BY ZenonT(60), <2>1, <2>2, <2>3
<1>10. Counting
  <2>1. Counted = {}
    BY Zenon, <1>9 DEF Counted
  <2>2. Cardinality({}) = 0
    BY Zenon, FS_EmptySet
  <2>. QED  BY ZenonT(60), <1>9, <2>1, <2>2 DEF Init, Counting
<1>11. Decided /\ Accepted
  BY Zenon, <1>3 DEF Init, Decided, Accepted, Threads
<1>12. Frames
  BY Zenon, <1>4, <1>9 DEF Frames, Once, Streamed, Totals
<1>13. ASSUME NEW s \in Subscribers PROVE Shape(s)
  <2>1. Len(<<>>) <= Backlog /\ 0 <= Total
    BY SMTT(60), ProgressConstants, TotalIsNat
  <2>. QED  BY Zenon, <1>4, <2>1 DEF Shape
<1>. QED  BY ZenonT(60), <1>6, <1>7, <1>8, <1>10, <1>11, <1>12, <1>13 DEF IInv

LEMMA IInvHolds == Spec => []IInv
BY InductiveInit, InductiveStep, PTL DEF Spec

LEMMA TypesHold == IInv => TypeOK
<1>. SUFFICES ASSUME IInv PROVE TypeOK
  BY Zenon
<1>1. count \in 0..Total
  BY Zenon, CountSound DEF IInv
<1>2. ASSUME NEW s \in Subscribers
      PROVE  /\ sub[s].pc \in {"idle", "snapshot", "stream", "closed"}
             /\ sub[s].ring \in Seq([dist : Dists, status : States])
             /\ Len(sub[s].ring) <= Backlog /\ sub[s].ids \subseteq sub[s].got
             /\ sub[s].got \subseteq Dists /\ sub[s].terminals \in 0..Total
  <2>1. sub[s] \in Streams /\ Shape(s)
    BY Zenon DEF IInv, Typed
  <2>2. /\ sub[s].pc \in {"idle", "snapshot", "stream", "closed"} /\ sub[s].ring \in Seq(Frame)
        /\ sub[s].got \subseteq Dists /\ sub[s].terminals \in Nat
    BY Zenon, <2>1 DEF Streams
  <2>3. sub[s].terminals <= Total /\ Len(sub[s].ring) <= Backlog /\ sub[s].ids \subseteq sub[s].got
    BY Zenon, <2>1 DEF Shape
  <2>4. sub[s].terminals \in 0..Total
    BY SMTT(60), <2>2, <2>3, TotalIsNat
  <2>. QED  BY ZenonT(60), <2>2, <2>3, <2>4 DEF Frame
<1>3. thread \in [Threads -> Tasks]
  BY Zenon DEF IInv, Typed
<1>. QED  BY ZenonT(60), <1>1, <1>2, <1>3 DEF IInv, Typed, TypeOK, Updates, Tasks

(***************************************************************************)
(* runtime.rs and handlers.rs, for every interleaving of watchers, cancel  *)
(* handlers, the promoter and subscribers: the counter never claims a      *)
(* distribution that has not ended, a slot says COMPLETED only when every  *)
(* targeted peer has pulled all bytes, and a cancellation that was         *)
(* accepted never shows as FAILED.                                         *)
(***************************************************************************)
THEOREM ProgressAlwaysSound == Spec => []ProgressIsSound
<1>1. IInv => ProgressIsSound
  <2>. SUFFICES ASSUME IInv PROVE ProgressIsSound
    BY Zenon
  <2>1. TypeOK /\ CountIsSound
    BY Zenon, TypesHold, CountSound DEF IInv
  <2>2. CompletedMeansPulled /\ AcceptedShown
    BY Zenon DEF IInv, Pulled, CompletedMeansPulled, Accepted, AcceptedShown, Told
  <2>. QED  BY Zenon, <2>1, <2>2 DEF ProgressIsSound
<1>. QED  BY <1>1, IInvHolds, PTL

(***************************************************************************)
(* maybe_finalize_bundle and update_status: the status that is computed    *)
(* from a snapshot of the slots and written later is still true then, and  *)
(* stays so: FAILED slots may be relabelled, but nothing leaves COMPLETED. *)
(***************************************************************************)
THEOREM FinalIsAlwaysTrue == Spec => []FinalIsTrue
<1>1. IInv => FinalIsTrue
  BY Zenon DEF IInv, Decided, True, FinalIsTrue
<1>. QED  BY <1>1, IInvHolds, PTL

(***************************************************************************)
(* StreamCloser: whenever the subscriber attached and whatever the ring    *)
(* dropped, a stream that closes has passed on a terminal frame of every   *)
(* distribution, unless a cancellation relabelled a failed one.            *)
(***************************************************************************)
THEOREM CloseIsAlwaysComplete == Spec => []CloseIsComplete
<1>1. IInv => CloseIsComplete
  BY Zenon DEF IInv, Frames, Totals, CloseIsComplete
<1>. QED  BY <1>1, IInvHolds, PTL
=============================================================================
