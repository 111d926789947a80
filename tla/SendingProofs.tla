--------------------------- MODULE SendingProofs ---------------------------
(***************************************************************************)
(* Proofs about SendAttachments, for any requests, clients, files, bundle  *)
(* ids and limits.                                                         *)
(***************************************************************************)
EXTENDS Sending, TLAPS, FiniteSetTheorems

Early == {"idle", "probe", "claim"}
Work == {"ingest", "mismatch", "rollback"}

\* The record of r was made, whether or not the response has left.
Recorded(r) == thread[r].pc = "register" \/ thread[r].reply = r

Threads == [pc : Pcs, pre : SUBSET Contents, got : Contents, created : Seq(Contents),
            started : Nat, reply : Requests \cup {NoOne}, also : SUBSET Contents,
            after : SUBSET Requests, undone : Nat]

Typed ==
  /\ id \in [Requests -> Ids] /\ blobs \subseteq Contents /\ queued \subseteq Dists
  /\ bundles \in [Ids -> Requests \cup {NoOne}] /\ status \in [Ids -> {"pending"} \cup Terminal]
  /\ index \in [Dists -> Ids \cup {NoOne}] /\ runtimes \in [Ids -> Requests \cup {NoOne}]
  /\ slot \in [Dists -> {"none", "pending"} \cup Terminal]
  /\ watcher \in [Dists -> {"none", "watch", "done"}]
  /\ thread \in [Requests -> Threads]
  /\ cancel.pc \in {"idle", "calling", "accepted"}
  /\ cancel.pc = "calling" => cancel.bundle \in Ids /\ cancel.dist \in Dists

LEMMA DistFacts ==
  /\ \A r \in Requests : /\ DistsOf(r) \subseteq Dists /\ <<r, 1>> \in DistsOf(r)
                         /\ \A d \in DistsOf(r) : d[1] = r
                         /\ \A i \in DOMAIN Files[r] : <<r, i>> \in DistsOf(r)
  /\ \A d \in Dists : /\ d[1] \in Requests /\ d \in DistsOf(d[1])
                      /\ d[2] \in DOMAIN Files[d[1]] /\ d = <<d[1], d[2]>>
<1>1. \A r \in Requests : Files[r] \in Seq(Contents) /\ Files[r] # <<>>
  BY Zenon, SendingConstants
<1>2. \A r \in Requests : 1 \in DOMAIN Files[r]
  BY <1>1
<1>3. \A r : \A d \in DistsOf(r) : d[1] = r /\ d[2] \in DOMAIN Files[r] /\ d = <<d[1], d[2]>>
  BY DEF DistsOf
<1>4. \A r : \A i \in DOMAIN Files[r] : <<r, i>> \in DistsOf(r)
  BY Zenon DEF DistsOf
<1>5. \A r \in Requests : DistsOf(r) \subseteq Dists /\ <<r, 1>> \in DistsOf(r)
  BY Zenon, <1>2, <1>4 DEF Dists
<1>6. \A d \in Dists : \E r \in Requests : d \in DistsOf(r)
  BY Zenon DEF Dists
<1>7. \A d \in Dists : d[1] \in Requests /\ d \in DistsOf(d[1])
  BY Zenon, <1>3, <1>6
<1>8. \A d \in Dists : d[2] \in DOMAIN Files[d[1]] /\ d = <<d[1], d[2]>>
  BY Zenon, <1>3, <1>7
<1>. QED  BY Zenon, <1>3, <1>4, <1>5, <1>7, <1>8

LEMMA FileFacts ==
  ASSUME NEW r \in Requests
  PROVE  /\ Files[r] \in Seq(Contents) /\ Len(Files[r]) \in Nat \ {0} /\ DOMAIN Files[r] = 1..Len(Files[r])
         /\ \A i \in 1..Len(Files[r]) : Files[r][i] \in Contents
<1>1. Files[r] \in Seq(Contents) /\ Files[r] # <<>>
  BY Zenon, SendingConstants
<1>. QED  BY <1>1

-----------------------------------------------------------------------------
(***************************************************************************)
(* What a step does to a request.                                          *)
(***************************************************************************)
Kept(q) ==
  /\ thread'[q].created = thread[q].created /\ thread'[q].started = thread[q].started
  /\ thread'[q].undone = thread[q].undone /\ thread'[q].reply = thread[q].reply
  /\ thread'[q].after = thread[q].after
Reset(q) ==
  /\ thread'[q].created = <<>> /\ thread'[q].started = 0 /\ thread'[q].undone = 0
  /\ thread'[q].after = thread[q].after
Moves(q, from, to) == thread[q].pc \in from /\ thread'[q].pc = to

Stays(q) == thread'[q].pc = thread[q].pc /\ Kept(q)
Starts(q) ==
  /\ Moves(q, {"probe", "claim"}, "ingest") /\ thread'[q].reply = thread[q].reply
  /\ thread'[q].created = thread[q].created /\ thread'[q].started = thread[q].started
  /\ thread'[q].undone = thread[q].undone
  /\ thread'[q].after = Answered(q) /\ thread'[q].pre = blobs
  /\ bundles[id[q]] = NoOne \/ status[id[q]] \in Reusable
Copies(q) ==
  /\ Moves(q, {"ingest"}, "ingest") /\ Len(thread[q].created) < Len(Files[q])
  /\ thread'[q].created = Append(thread[q].created, NextFile(q))
  /\ thread'[q].started = thread[q].started /\ thread'[q].undone = thread[q].undone
  /\ thread'[q].reply = thread[q].reply /\ thread'[q].after = thread[q].after
Hands(q) ==
  /\ Moves(q, {"ingest"}, "ingest") /\ Len(thread[q].created) = Len(Files[q])
  /\ thread'[q].started = thread[q].started + 1 /\ thread'[q].started <= Len(Files[q])
  /\ thread'[q].created = thread[q].created /\ thread'[q].undone = thread[q].undone
  /\ thread'[q].reply = thread[q].reply /\ thread'[q].after = thread[q].after
Undoes(q) ==
  /\ Moves(q, {"rollback"}, "rollback") /\ thread[q].undone # Len(thread[q].created)
  /\ thread'[q].undone = thread[q].undone + 1
  /\ thread'[q].created = thread[q].created /\ thread'[q].started = thread[q].started
  /\ thread'[q].reply = thread[q].reply /\ thread'[q].after = thread[q].after

Takes(q) ==
  \/ Stays(q) \/ Starts(q) \/ Copies(q) \/ Hands(q) \/ Undoes(q)
  \/ Kept(q) /\ \/ Moves(q, {"idle"}, "probe") \/ Moves(q, {"probe"}, "claim")
                \/ Moves(q, {"ingest"}, "mismatch") /\ Len(thread[q].created) < Len(Files[q])
                \/ Moves(q, {"ingest", "mismatch"}, "rollback")
                \/ Moves(q, {"rollback"}, "failed") /\ thread[q].undone = Len(thread[q].created)
  \/ Reset(q) /\ \/ Moves(q, {"probe", "claim"}, "refused") /\ thread'[q].reply = NoOne
                 \/ /\ Moves(q, {"claim"}, "done") /\ bundles[id[q]] # NoOne
                    /\ thread'[q].reply = bundles[id[q]]
                 \/ /\ Moves(q, {"ingest"}, "register") /\ thread'[q].reply = NoOne
                    /\ thread[q].started = Len(Files[q]) /\ bundles'[id[q]] = q
                 \/ Moves(q, {"register"}, "done") /\ thread'[q].reply = q

LEMMA BecomesEffect ==
  ASSUME Typed, NEW r \in Requests, NEW t \in Threads, Becomes(r, t)
  PROVE  /\ thread' \in [Requests -> Threads] /\ thread'[r] = t
         /\ \A q \in Requests \ {r} : thread'[q] = thread[q] /\ Stays(q)
<1>1. thread \in [Requests -> Threads] /\ thread' = [thread EXCEPT ![r] = t]
  BY Zenon DEF Typed, Becomes
<1>2. thread'[r] = t /\ \A q \in Requests \ {r} : thread'[q] = thread[q]
  BY Zenon, <1>1
<1>3. thread' \in [Requests -> Threads]
  BY Zenon, <1>1
<1>. QED  BY Zenon, <1>2, <1>3 DEF Stays, Kept

LEMMA GotoEffect ==
  ASSUME Typed, NEW r \in Requests, NEW p \in Pcs, Goto(r, p)
  PROVE  /\ thread' \in [Requests -> Threads] /\ thread'[r].pc = p /\ Kept(r)
         /\ thread'[r].pre = thread[r].pre /\ thread'[r].also = thread[r].also
         /\ \A q \in Requests \ {r} : thread'[q] = thread[q] /\ Stays(q)
<1>. DEFINE t == [thread[r] EXCEPT !.pc = p]
<1>1. thread[r] \in Threads
  BY Zenon DEF Typed
<1>2. /\ t \in Threads /\ t.pc = p /\ t.created = thread[r].created /\ t.started = thread[r].started
      /\ t.undone = thread[r].undone
      /\ t.reply = thread[r].reply /\ t.after = thread[r].after
      /\ t.pre = thread[r].pre /\ t.also = thread[r].also
  BY Zenon, <1>1 DEF Threads
<1>3. Becomes(r, t)
  BY Zenon DEF Goto
<1>. HIDE DEF t
<1>. QED  BY Zenon, <1>2, <1>3, BecomesEffect DEF Kept

LEMMA FreshTyped ==
  ASSUME NEW r \in Requests
  PROVE  /\ Fresh \in Threads /\ Fresh.pc = "idle" /\ Fresh.created = <<>> /\ Fresh.started = 0
         /\ Fresh.reply = NoOne /\ Fresh.undone = 0 /\ Fresh.after = {}
<1>. DEFINE c == CHOOSE x \in Contents : TRUE
<1>1. \E x \in Contents : TRUE
  BY FileFacts
<1>2. c \in Contents
  BY Zenon, <1>1
<1>. HIDE DEF c
<1>3. Fresh = [pc |-> "idle", pre |-> {}, got |-> c, created |-> <<>>,
               started |-> 0, reply |-> NoOne, also |-> {}, after |-> {}, undone |-> 0]
  BY Zenon DEF Fresh, c
<1>. QED  BY <1>2, <1>3 DEF Threads, Pcs

LEMMA ReturnEffect ==
  ASSUME Typed, NEW r \in Requests, NEW p \in Pcs, NEW x \in Requests \cup {NoOne}, Return(r, p, x)
  PROVE  /\ thread' \in [Requests -> Threads] /\ thread'[r].pc = p /\ thread'[r].reply = x /\ Reset(r)
         /\ \A q \in Requests \ {r} : thread'[q] = thread[q] /\ Stays(q)
<1>. DEFINE a == thread[r].after
            t == [Fresh EXCEPT !.pc = p, !.reply = x, !.after = a]
<1>1. a \subseteq Requests
  <2>1. thread[r] \in Threads
    BY Zenon DEF Typed
  <2>. QED  BY Zenon, <2>1 DEF Threads
<1>2. Becomes(r, t)
  BY Zenon DEF Return
<1>. HIDE DEF a
<1>3. /\ t \in Threads /\ t.pc = p /\ t.reply = x /\ t.created = <<>> /\ t.started = 0
      /\ t.undone = 0 /\ t.after = a
  BY Zenon, <1>1, FreshTyped DEF Threads
<1>. HIDE DEF t
<1>. QED  BY Zenon, <1>2, <1>3, BecomesEffect DEF Reset, a

LEMMA StartEffect ==
  ASSUME Typed, NEW r \in Requests, thread[r].pc \in {"probe", "claim"}, StartIngest(r),
         bundles[id[r]] = NoOne \/ status[id[r]] \in Reusable
  PROVE  /\ thread' \in [Requests -> Threads] /\ Starts(r) /\ thread'[r].also = thread[r].also
         /\ \A q \in Requests \ {r} : thread'[q] = thread[q] /\ Stays(q)
<1>. DEFINE A == Answered(r)
            t == [thread[r] EXCEPT !.pc = "ingest", !.pre = blobs, !.after = A]
<1>1. thread[r] \in Threads /\ blobs \subseteq Contents /\ A \subseteq Requests
  BY Zenon DEF Typed, Answered
<1>2. Becomes(r, t)
  BY Zenon DEF StartIngest
<1>. HIDE DEF A
<1>3. /\ t \in Threads /\ t.pc = "ingest" /\ t.created = thread[r].created /\ t.started = thread[r].started
      /\ t.undone = thread[r].undone
      /\ t.reply = thread[r].reply /\ t.after = A
      /\ t.pre = blobs /\ t.also = thread[r].also
  BY Zenon, <1>1 DEF Threads, Pcs
<1>. HIDE DEF t
<1>. QED  BY Zenon, <1>2, <1>3, BecomesEffect DEF Starts, Moves, A

LEMMA FailEffect ==
  ASSUME Typed, NEW r \in Requests, Fail(r)
  PROVE  /\ thread' \in [Requests -> Threads] /\ thread'[r].pc = "failed" /\ Kept(r)
         /\ \A q \in Requests \ {r} : thread'[q] = thread[q] /\ Stays(q)
<1>. DEFINE t == [thread[r] EXCEPT !.pc = "failed", !.pre = {}, !.also = {}]
<1>1. thread[r] \in Threads
  BY Zenon DEF Typed
<1>2. /\ t \in Threads /\ t.pc = "failed" /\ t.created = thread[r].created /\ t.started = thread[r].started
      /\ t.undone = thread[r].undone
      /\ t.reply = thread[r].reply /\ t.after = thread[r].after
  BY Zenon, <1>1 DEF Threads, Pcs
<1>3. Becomes(r, t)
  BY Zenon DEF Fail
<1>. HIDE DEF t
<1>. QED  BY Zenon, <1>2, <1>3, BecomesEffect DEF Kept

\* The blob c arrives: all who ingest have seen it come, and r has its file or a mismatch.
LEMMA StreamEffect ==
  ASSUME Typed, NEW r \in Requests, StreamFile(r)
  PROVE  \E c \in Contents :
           /\ blobs' = blobs \cup {c} /\ thread' \in [Requests -> Threads]
           /\ \/ Copies(r) /\ c = NextFile(r)
              \/ Kept(r) /\ Moves(r, {"ingest"}, "mismatch") /\ Len(thread[r].created) < Len(Files[r])
           /\ thread'[r].pre = thread[r].pre /\ thread'[r].also = thread[r].also
           /\ \A q \in Requests \ {r} :
                /\ Stays(q) /\ thread'[q].pre = thread[q].pre
                /\ thread'[q].also = IF thread[q].pc \in Work THEN thread[q].also \cup {c}
                                                             ELSE thread[q].also
<1>1. PICK c \in Contents :
        /\ blobs' = blobs \cup {c}
        /\ thread' = [q \in Requests |->
             IF q = r THEN IF c = NextFile(r)
                           THEN [thread[r] EXCEPT !.created = Append(thread[r].created, c)]
                           ELSE [thread[r] EXCEPT !.pc = "mismatch", !.got = c]
             ELSE IF q \in Ingesting THEN [thread[q] EXCEPT !.also = thread[q].also \cup {c}]
             ELSE thread[q]]
  BY Zenon DEF StreamFile
<1>2. /\ thread[r].pc = "ingest" /\ Len(thread[r].created) < Len(Files[r])
      /\ \A q \in Requests : thread[q] \in Threads
  BY Zenon DEF StreamFile, Typed
<1>3. ASSUME NEW q \in Requests \ {r}
      PROVE  /\ thread'[q] \in Threads /\ Stays(q) /\ thread'[q].pre = thread[q].pre
             /\ thread'[q].also = IF thread[q].pc \in Work THEN thread[q].also \cup {c}
                                                          ELSE thread[q].also
  <2>. DEFINE t == [thread[q] EXCEPT !.also = thread[q].also \cup {c}]
  <2>0. thread[q] \in Threads /\ c \in Contents
    BY Zenon, <1>1, <1>2, <1>3
  <2>1. thread'[q] = IF q \in Ingesting THEN t ELSE thread[q]
    BY Zenon, <1>1, <1>3
  <2>2. /\ t \in Threads /\ t.pc = thread[q].pc /\ t.created = thread[q].created
        /\ t.started = thread[q].started /\ t.undone = thread[q].undone
        /\ t.reply = thread[q].reply /\ t.after = thread[q].after /\ t.pre = thread[q].pre
        /\ t.also = thread[q].also \cup {c}
    BY Zenon, <2>0 DEF Threads
  <2>. HIDE DEF t
  <2>3. q \in Ingesting <=> thread[q].pc \in Work
    BY Zenon, <1>3 DEF Ingesting, Work
  <2>. QED  BY Zenon, <1>2, <2>1, <2>2, <2>3 DEF Stays, Kept
<1>4. /\ thread'[r] \in Threads
      /\ \/ Copies(r) /\ c = NextFile(r)
         \/ Kept(r) /\ Moves(r, {"ingest"}, "mismatch") /\ Len(thread[r].created) < Len(Files[r])
      /\ thread'[r].pre = thread[r].pre /\ thread'[r].also = thread[r].also
  <2>0. thread[r] \in Threads /\ c \in Contents
    BY Zenon, <1>1, <1>2
  <2>1. CASE c = NextFile(r)
    <3>. DEFINE v == Append(thread[r].created, c)
                t == [thread[r] EXCEPT !.created = v]
    <3>1. thread'[r] = t
      BY Zenon, <1>1, <2>1
    <3>0. v \in Seq(Contents)
      <4>1. thread[r].created \in Seq(Contents)
        BY Zenon, <2>0 DEF Threads
      <4>. QED  BY <2>0, <4>1
    <3>. HIDE DEF v
    <3>2. /\ t \in Threads /\ t.pc = thread[r].pc /\ t.created = v
          /\ t.started = thread[r].started /\ t.undone = thread[r].undone
          /\ t.reply = thread[r].reply /\ t.after = thread[r].after /\ t.pre = thread[r].pre
          /\ t.also = thread[r].also
      BY Zenon, <2>0, <3>0 DEF Threads
    <3>. HIDE DEF t
    <3>. QED  BY Zenon, <1>2, <2>1, <3>1, <3>2 DEF Copies, Moves, v
  <2>2. CASE c # NextFile(r)
    <3>. DEFINE t == [thread[r] EXCEPT !.pc = "mismatch", !.got = c]
    <3>1. thread'[r] = t
      BY Zenon, <1>1, <2>2
    <3>2. /\ t \in Threads /\ t.pc = "mismatch" /\ t.created = thread[r].created
          /\ t.started = thread[r].started /\ t.undone = thread[r].undone
          /\ t.reply = thread[r].reply /\ t.after = thread[r].after /\ t.pre = thread[r].pre
          /\ t.also = thread[r].also
      BY Zenon, <2>0 DEF Threads, Pcs
    <3>. HIDE DEF t
    <3>. QED  BY Zenon, <1>2, <3>1, <3>2 DEF Kept, Moves
  <2>. QED  BY Zenon, <2>1, <2>2
<1>5. thread' \in [Requests -> Threads]
  <2>1. \A q \in Requests : thread'[q] \in Threads
    BY Zenon, <1>3, <1>4
  <2>2. thread' = [q \in Requests |-> thread'[q]]
    BY Zenon, <1>1
  <2>. QED  BY Zenon, <2>1, <2>2
<1>. QED  BY Zenon, <1>1, <1>3, <1>4, <1>5

LEMMA HandEffect ==
  ASSUME Typed, NEW r \in Requests, Distribute(r), ~GiveUp(r)
  PROVE  /\ thread' \in [Requests -> Threads] /\ Hands(r)
         /\ thread'[r].pre = thread[r].pre /\ thread'[r].also = thread[r].also
         /\ slot' = [slot EXCEPT ![<<r, thread'[r].started>>] = "pending"]
         /\ \A q \in Requests \ {r} : thread'[q] = thread[q] /\ Stays(q)
<1>. DEFINE n == thread[r].started + 1
            t == [thread[r] EXCEPT !.started = n]
<1>1. /\ thread[r].pc = "ingest" /\ Len(thread[r].created) = Len(Files[r]) /\ n <= Len(Files[r])
      /\ slot' = [slot EXCEPT ![<<r, n>>] = "pending"] /\ Becomes(r, t)
  BY Zenon DEF Distribute
<1>2. thread[r] \in Threads
  BY Zenon DEF Typed
<1>3. /\ t \in Threads /\ t.pc = thread[r].pc /\ t.created = thread[r].created /\ t.started = n
      /\ t.pre = thread[r].pre /\ t.also = thread[r].also /\ t.undone = thread[r].undone
      /\ t.reply = thread[r].reply /\ t.after = thread[r].after
  BY SMTT(60), <1>2 DEF Threads
<1>. HIDE DEF t
<1>. QED  BY Zenon, <1>1, <1>3, BecomesEffect DEF Hands, Moves

LEMMA UndoEffect ==
  ASSUME Typed, NEW r \in Requests, Rollback(r), thread[r].undone # Len(thread[r].created)
  PROVE  /\ thread' \in [Requests -> Threads] /\ Undoes(r)
         /\ thread'[r].pre = thread[r].pre /\ thread'[r].also = thread[r].also
         /\ \A q \in Requests \ {r} : thread'[q] = thread[q] /\ Stays(q)
<1>. DEFINE n == thread[r].undone + 1
            t == [thread[r] EXCEPT !.undone = n]
<1>1. thread[r].pc = "rollback" /\ Becomes(r, t)
  BY Zenon DEF Rollback
<1>2. thread[r] \in Threads
  BY Zenon DEF Typed
<1>3. /\ t \in Threads /\ t.pc = thread[r].pc /\ t.created = thread[r].created /\ t.undone = n
      /\ t.pre = thread[r].pre /\ t.also = thread[r].also /\ t.started = thread[r].started
      /\ t.reply = thread[r].reply /\ t.after = thread[r].after
  BY SMTT(60), <1>2 DEF Threads
<1>. HIDE DEF t
<1>. QED  BY Zenon, <1>1, <1>3, BecomesEffect DEF Undoes, Moves
-----------------------------------------------------------------------------
LEMMA RequestTakes ==
  ASSUME Typed, NEW r \in Requests, SendStep(r)
  PROVE  /\ thread' \in [Requests -> Threads] /\ Takes(r)
         /\ \A q \in Requests \ {r} : Stays(q)
<1>0. "probe" \in Pcs /\ "claim" \in Pcs /\ "rollback" \in Pcs /\ "refused" \in Pcs
      /\ "done" \in Pcs /\ "register" \in Pcs
  BY Zenon DEF Pcs
<1>1. CASE Admit(r)
  <2>1. thread[r].pc = "idle" /\ Goto(r, "probe")
    BY Zenon, <1>1 DEF Admit
  <2>. QED  BY Zenon, <1>0, <2>1, GotoEffect DEF Takes, Moves
<1>2. CASE Probe(r)
  <2>1. /\ thread[r].pc = "probe"
        /\ \/ StartIngest(r) /\ bundles[id[r]] = NoOne
           \/ Return(r, "refused", NoOne) \/ Goto(r, "claim")
    BY Zenon, <1>2 DEF Probe
  <2>2. CASE StartIngest(r) /\ bundles[id[r]] = NoOne
    BY Zenon, <2>1, <2>2, StartEffect DEF Takes
  <2>3. CASE Return(r, "refused", NoOne)
    BY Zenon, <1>0, <2>1, <2>3, ReturnEffect DEF Takes, Moves
  <2>4. CASE Goto(r, "claim")
    BY Zenon, <1>0, <2>1, <2>4, GotoEffect DEF Takes, Moves
  <2>. QED  BY Zenon, <2>1, <2>2, <2>3, <2>4
<1>3. CASE Claim(r)
  <2>1. /\ thread[r].pc = "claim"
        /\ \/ StartIngest(r) /\ (bundles[id[r]] = NoOne \/ status[id[r]] \in Reusable)
           \/ Return(r, "refused", NoOne)
           \/ bundles[id[r]] # NoOne /\ Return(r, "done", bundles[id[r]])
    BY Zenon, <1>3 DEF Claim, Claimable
  <2>2. CASE StartIngest(r) /\ (bundles[id[r]] = NoOne \/ status[id[r]] \in Reusable)
    BY Zenon, <2>1, <2>2, StartEffect DEF Takes
  <2>3. CASE Return(r, "refused", NoOne)
    BY Zenon, <1>0, <2>1, <2>3, ReturnEffect DEF Takes, Moves
  <2>4. CASE bundles[id[r]] # NoOne /\ Return(r, "done", bundles[id[r]])
    <3>1. bundles[id[r]] \in Requests \cup {NoOne}
      BY Zenon DEF Typed
    <3>. QED  BY ZenonT(60), <1>0, <2>1, <2>4, <3>1, ReturnEffect DEF Takes, Moves
  <2>. QED  BY Zenon, <2>1, <2>2, <2>3, <2>4
<1>4. CASE StreamFile(r)
  BY Zenon, <1>4, StreamEffect DEF Takes
<1>5. CASE GiveUp(r) /\ thread[r].pc \in {"ingest", "mismatch"}
  BY Zenon, <1>0, <1>5, GotoEffect DEF GiveUp, Takes, Moves
<1>6. CASE StreamFails(r) \/ Mismatch(r)
  BY Zenon, <1>5, <1>6 DEF StreamFails, Mismatch
<1>7. CASE Distribute(r)
  <2>1. thread[r].pc = "ingest"
    BY Zenon, <1>7 DEF Distribute
  <2>. QED  BY Zenon, <1>5, <1>7, <2>1, HandEffect DEF Takes
<1>8. CASE Rollback(r)
  <2>1. CASE thread[r].undone = Len(thread[r].created)
    <3>1. thread[r].pc = "rollback" /\ Fail(r)
      BY Zenon, <1>8, <2>1 DEF Rollback
    <3>. QED  BY Zenon, <2>1, <3>1, FailEffect DEF Takes, Moves
  <2>2. CASE thread[r].undone # Len(thread[r].created)
    BY Zenon, <1>8, <2>2, UndoEffect DEF Takes
  <2>. QED  BY Zenon, <2>1, <2>2
<1>9. CASE Record(r)
  <2>1. /\ thread[r].pc = "ingest" /\ thread[r].started = Len(Files[r])
        /\ Return(r, "register", NoOne) /\ Insert(r)
    BY Zenon, <1>9 DEF Record
  <2>2. bundles'[id[r]] = r
    BY Zenon, <2>1 DEF Insert, Typed
  <2>. QED  BY Zenon, <1>0, <2>1, <2>2, ReturnEffect DEF Takes, Moves
<1>10. CASE Register(r)
  <2>1. thread[r].pc = "register" /\ Return(r, "done", r)
    BY Zenon, <1>10 DEF Register
  <2>. QED  BY Zenon, <1>0, <2>1, ReturnEffect DEF Takes, Moves
<1>. QED
  BY Zenon, <1>1, <1>2, <1>3, <1>4, <1>6, <1>7, <1>8, <1>9, <1>10 DEF SendStep

LEMMA NextTakes ==
  ASSUME Typed, [Next]_vars
  PROVE  thread' \in [Requests -> Threads] /\ \A q \in Requests : Takes(q)
<1>1. CASE thread' = thread
  BY Zenon, <1>1 DEF Typed, Takes, Stays, Kept
<1>2. ASSUME NEW r \in Requests, SendStep(r)
      PROVE  thread' \in [Requests -> Threads] /\ \A q \in Requests : Takes(q)
  BY ZenonT(60), <1>2, RequestTakes DEF Takes
<1>3. CASE \E d \in Dists : Observe(d) \/ WatcherEnds(d) \/ CancelLookup(d)
  BY Zenon, <1>1, <1>3 DEF Observe, WatcherEnds, CancelLookup
<1>4. CASE CancelApplies \/ \E b \in Resident : EvictExpired(b)
  BY Zenon, <1>1, <1>4 DEF CancelApplies, EvictExpired
<1>5. CASE UNCHANGED vars
  BY Zenon, <1>1, <1>5 DEF vars
<1>. QED  BY Zenon, <1>2, <1>3, <1>4, <1>5 DEF Next
-----------------------------------------------------------------------------
(***************************************************************************)
(* What a step does to the registry: nothing but to an age, it ends the    *)
(* bundle of an id, it drops records, or it makes one (Record).            *)
(***************************************************************************)
Rests == /\ UNCHANGED <<bundles, status, index>>
         /\ UNCHANGED older \/ \E b \in Resident : Touch(b)
Ends(b, s) == /\ b \in Resident /\ s \in Terminal /\ status' = [status EXCEPT ![b] = s]
              /\ UNCHANGED <<bundles, index>> /\ Touch(b)
Drops(B) == B \subseteq Resident /\ Drop(B)

\* Who ends a bundle, and who drops records.
ByWatcher(d) ==
  /\ WatcherEnds(d) /\ AllEnded(d[1]) /\ Ends(id[d[1]], Verdict(slot, d[1])) /\ UNCHANGED <<slot, evicted>>
ByCancel(s) ==
  /\ CancelApplies /\ cancel'.pc = "accepted" /\ Ends(cancel.bundle, s) /\ UNCHANGED evicted
  /\ runtimes[cancel.bundle] # NoOne => s = Verdict(slot', runtimes[cancel.bundle])
ByClaim(r) == Claim(r) /\ thread'[r].pc = "ingest" /\ Drops({id[r]})
ByEvictor(B) == Drops(B) /\ evicted' = evicted \cup {bundles[x] : x \in B}

LEMMA UpdateEffect ==
  ASSUME NEW b \in Ids, NEW s \in Terminal, UpdateStatus(b, s)
  PROVE  Rests \/ Ends(b, s)
BY Zenon DEF UpdateStatus, Rests, Ends, registry, Resident

LEMMA VerdictTerminal == \A f, r : Verdict(f, r) \in Terminal
BY Zenon DEF Verdict, Terminal

LEMMA NextRegistry ==
  ASSUME Typed, [Next]_vars
  PROVE  \/ Rests /\ UNCHANGED evicted
         \/ \E d \in Dists : ByWatcher(d)
         \/ \E s \in Terminal : ByCancel(s)
         \/ \E r \in Requests : ByClaim(r) \/ Record(r)
         \/ \E B \in SUBSET Ids : ByEvictor(B)
<1>1. CASE UNCHANGED <<registry, evicted>>
  BY Zenon, <1>1 DEF registry, Rests
<1>2. ASSUME NEW r \in Requests, Claim(r) PROVE (Rests /\ UNCHANGED evicted) \/ ByClaim(r)
  <2>1. id[r] \in Ids /\ UNCHANGED evicted /\ thread[r].pc \in {"probe", "claim"}
    BY Zenon, <1>2 DEF Typed, Claim, history
  <2>2. \/ Rests
        \/ StartIngest(r) /\ Drops({id[r]}) /\ (bundles[id[r]] = NoOne \/ status[id[r]] \in Reusable)
    BY Zenon, <1>2, <2>1 DEF Claim, Claimable, registry, Rests, Drops, Resident
  <2>. QED  BY Zenon, <1>2, <2>1, <2>2, StartEffect DEF ByClaim, Starts, Moves
<1>3. ASSUME NEW r \in Requests, SendStep(r), ~Claim(r), ~Record(r) PROVE UNCHANGED <<registry, evicted>>
  BY Zenon, <1>3 DEF SendStep, Admit, Probe, StreamFile, StreamFails, Mismatch, Distribute, Rollback,
     Register, registry, history
<1>4. ASSUME NEW d \in Dists, WatcherEnds(d) PROVE (Rests /\ UNCHANGED evicted) \/ ByWatcher(d)
  <2>1. /\ UNCHANGED <<slot, evicted>>
        /\ \/ UNCHANGED registry
           \/ AllEnded(d[1]) /\ UpdateStatus(id[d[1]], Verdict(slot, d[1]))
    BY Zenon, <1>4 DEF WatcherEnds, history
  <2>2. id[d[1]] \in Ids
    BY Zenon, DistFacts DEF Typed
  <2>. QED  BY Zenon, <1>4, <2>1, <2>2, UpdateEffect, VerdictTerminal DEF registry, Rests, ByWatcher
<1>5. CASE CancelApplies
  <2>. DEFINE g == runtimes[cancel.bundle]
  <2>1. /\ UNCHANGED evicted
        /\ \/ UNCHANGED registry
           \/ /\ cancel' = [Unasked EXCEPT !.pc = "accepted"]
              /\ \/ g = NoOne /\ UpdateStatus(cancel.bundle, "cancelled")
                 \/ g # NoOne /\ UpdateStatus(cancel.bundle, Verdict(slot', g))
    BY Zenon, <1>5 DEF CancelApplies, history
  <2>2. cancel.bundle \in Ids /\ "cancelled" \in Terminal
    BY Zenon, <1>5 DEF Typed, CancelApplies, Terminal
  <2>3. [Unasked EXCEPT !.pc = "accepted"].pc = "accepted"
    BY Zenon DEF Unasked
  <2>4. CASE UNCHANGED registry
    BY Zenon, <1>1, <2>1, <2>4
  <2>5. ASSUME NEW s \in Terminal, UpdateStatus(cancel.bundle, s), cancel'.pc = "accepted",
               g # NoOne => s = Verdict(slot', g)
        PROVE  (Rests /\ UNCHANGED evicted) \/ ByCancel(s)
    BY Zenon, <1>5, <2>1, <2>2, <2>5, UpdateEffect DEF ByCancel
  <2>6. ASSUME ~UNCHANGED registry
        PROVE  \E s \in Terminal : UpdateStatus(cancel.bundle, s) /\ cancel'.pc = "accepted"
                                   /\ (g # NoOne => s = Verdict(slot', g))
    BY Zenon, <2>1, <2>2, <2>3, <2>6, VerdictTerminal
  <2>. HIDE DEF g
  <2>. QED  BY Zenon, <2>4, <2>5, <2>6
<1>6. ASSUME NEW b \in Resident, EvictExpired(b) PROVE \E B \in SUBSET Ids : ByEvictor(B)
  <2>. DEFINE old == {x \in Resident : (x = b \/ <<x, b>> \in older) /\ status[x] \in Terminal}
  <2>1. Drop(old) /\ evicted' = evicted \cup {bundles[x] : x \in old}
    BY Zenon, <1>6 DEF EvictExpired
  <2>. QED  BY Zenon, <2>1 DEF Drops, ByEvictor, Resident
<1>7. CASE UNCHANGED vars
  BY Zenon, <1>1, <1>7 DEF vars, registry, history
<1>8. CASE \E d \in Dists : Observe(d) \/ CancelLookup(d)
  BY Zenon, <1>1, <1>8 DEF Observe, CancelLookup, registry, history
<1>. QED  BY ZenonT(60), <1>1, <1>2, <1>3, <1>4, <1>5, <1>6, <1>7, <1>8 DEF Next

\* The same without who did it.
LEMMA RegistrySteps ==
  ASSUME Typed, [Next]_vars
  PROVE  \/ Rests \/ \E b \in Ids, s \in Terminal : Ends(b, s)
         \/ \E B \in SUBSET Ids : Drops(B)
         \/ \E r \in Requests : Record(r)
<1>1. \A r \in Requests : id[r] \in Ids /\ {id[r]} \in SUBSET Ids
  <2>1. \A r \in Requests : id[r] \in Ids
    BY Zenon DEF Typed
  <2>. QED  BY Zenon, <2>1
<1>2. \A b, s : Ends(b, s) => b \in Ids /\ s \in Terminal
  BY Zenon DEF Ends, Resident
<1>. QED  BY Zenon, <1>1, <1>2, NextRegistry, VerdictTerminal DEF ByWatcher, ByCancel, ByClaim, ByEvictor

\* What Insert does, with the records it gives up.
Inserts(r, out) ==
  /\ bundles' = [x \in Ids |-> IF x = id[r] THEN r ELSE IF x \in out THEN NoOne ELSE bundles[x]]
  /\ status' = [x \in Ids |-> IF x \in out \cup {id[r]} THEN "pending" ELSE status[x]]
  /\ index' = [d \in Dists |-> IF d \in DistsOf(r) THEN id[r]
                               ELSE IF index[d] \in out \cup {id[r]} THEN NoOne ELSE index[d]]
  /\ older' = Forget(out \cup {id[r]}) \cup {<<x, id[r]>> : x \in Resident \ (out \cup {id[r]})}
  /\ evicted' = evicted \cup {bundles[x] : x \in out}

LEMMA InsertEffect ==
  ASSUME NEW r, Record(r)
  PROVE  \E out \in Victims(Resident \ {id[r]}) : Inserts(r, out) /\ out \subseteq Resident \ {id[r]}
<1>1. PICK out \in Victims(Resident \ {id[r]}) : Inserts(r, out)
  BY Zenon DEF Record, Insert, Inserts
<1>2. out \subseteq Resident \ {id[r]}
  BY Zenon, <1>1 DEF Victims
<1>. QED  BY Zenon, <1>1, <1>2

LEMMA RegistryTyped ==
  ASSUME Typed, [Next]_vars
  PROVE  /\ bundles' \in [Ids -> Requests \cup {NoOne}]
         /\ status' \in [Ids -> {"pending"} \cup Terminal]
         /\ index' \in [Dists -> Ids \cup {NoOne}]
<1>0. /\ bundles \in [Ids -> Requests \cup {NoOne}] /\ status \in [Ids -> {"pending"} \cup Terminal]
      /\ index \in [Dists -> Ids \cup {NoOne}] /\ id \in [Requests -> Ids]
  BY Zenon DEF Typed
<1>1. CASE Rests
  BY Zenon, <1>0, <1>1 DEF Rests
<1>2. ASSUME NEW b \in Ids, NEW s \in Terminal, Ends(b, s)
      PROVE  UNCHANGED <<bundles, index>> /\ status' \in [Ids -> {"pending"} \cup Terminal]
  <2>1. status' = [status EXCEPT ![b] = s] /\ UNCHANGED <<bundles, index>>
    BY Zenon, <1>2 DEF Ends
  <2>. QED  BY Zenon, <1>0, <2>1
<1>3. ASSUME NEW B, Drops(B)
      PROVE  /\ bundles' \in [Ids -> Requests \cup {NoOne}]
             /\ status' \in [Ids -> {"pending"} \cup Terminal]
             /\ index' \in [Dists -> Ids \cup {NoOne}]
  <2>1. /\ bundles' = [b \in Ids |-> IF b \in B THEN NoOne ELSE bundles[b]]
        /\ index' = [d \in Dists |-> IF index[d] \in B THEN NoOne ELSE index[d]]
        /\ status' = [b \in Ids |-> IF b \in B THEN "pending" ELSE status[b]]
    BY Zenon, <1>3 DEF Drops, Drop
  <2>. QED  BY Zenon, <1>0, <2>1
<1>4. ASSUME NEW r \in Requests, NEW out, Inserts(r, out)
      PROVE  /\ bundles' \in [Ids -> Requests \cup {NoOne}]
             /\ status' \in [Ids -> {"pending"} \cup Terminal]
             /\ index' \in [Dists -> Ids \cup {NoOne}]
  BY Zenon, <1>0, <1>4 DEF Inserts
<1>. QED  BY Zenon, <1>0, <1>1, <1>2, <1>3, <1>4, RegistrySteps, InsertEffect

LEMMA NextTyped == Typed /\ [Next]_vars => Typed'
<1>. SUFFICES ASSUME Typed, [Next]_vars PROVE Typed'
  BY Zenon
<1>0. /\ id \in [Requests -> Ids] /\ blobs \subseteq Contents /\ queued \subseteq Dists
      /\ runtimes \in [Ids -> Requests \cup {NoOne}] /\ thread \in [Requests -> Threads]
      /\ slot \in [Dists -> {"none", "pending"} \cup Terminal]
      /\ watcher \in [Dists -> {"none", "watch", "done"}]
  BY Zenon DEF Typed
<1>1. UNCHANGED id
  BY Zenon DEF Next, SendStep, Admit, Probe, Claim, StreamFile, StreamFails, Mismatch, Distribute,
     Rollback, Record, Register, Observe, WatcherEnds, CancelLookup, EvictExpired, CancelApplies,
     stored, vars
<1>2. blobs' \subseteq Contents /\ queued' \subseteq Dists
  <2>1. CASE UNCHANGED <<blobs, queued>>
    BY Zenon, <1>0, <2>1
  <2>2. ASSUME NEW r \in Requests, SendStep(r) PROVE blobs' \subseteq Contents /\ queued' \subseteq Dists
    <3>1. CASE StreamFile(r)
      BY Zenon, <1>0, <3>1 DEF StreamFile
    <3>2. CASE Mismatch(r) \/ Rollback(r)
      BY Zenon, <1>0, <3>2 DEF Mismatch, Rollback
    <3>3. CASE Record(r)
      BY Zenon, <1>0, <3>3, DistFacts DEF Record
    <3>. QED
      BY ZenonT(60), <2>1, <2>2, <3>1, <3>2, <3>3
         DEF SendStep, Admit, Probe, Claim, StreamFails, Distribute, Register, stored
  <2>. QED
    BY Zenon, <2>1, <2>2 DEF Next, Observe, WatcherEnds, CancelLookup, EvictExpired, CancelApplies,
       stored, vars
<1>3. runtimes' \in [Ids -> Requests \cup {NoOne}]
  <2>1. CASE UNCHANGED runtimes
    BY Zenon, <1>0, <2>1
  <2>2. ASSUME NEW r \in Requests, SendStep(r) PROVE runtimes' \in [Ids -> Requests \cup {NoOne}]
    <3>1. CASE Register(r)
      <4>1. runtimes' = [runtimes EXCEPT ![id[r]] = r]
        BY Zenon, <3>1 DEF Register
      <4>. QED  BY Zenon, <1>0, <4>1
    <3>. QED
      BY Zenon, <2>1, <2>2, <3>1 DEF SendStep, Admit, Probe, Claim, StreamFile, StreamFails, Mismatch,
         Distribute, Rollback, Record, progress
  <2>. QED
    BY Zenon, <2>1, <2>2 DEF Next, Observe, WatcherEnds, CancelLookup, EvictExpired, CancelApplies,
       progress, vars
<1>4. watcher' \in [Dists -> {"none", "watch", "done"}]
  <2>1. CASE UNCHANGED watcher
    BY Zenon, <1>0, <2>1
  <2>2. ASSUME NEW r \in Requests, SendStep(r) PROVE watcher' \in [Dists -> {"none", "watch", "done"}]
    <3>1. CASE Register(r)
      <4>1. watcher' = [d \in Dists |-> IF d \in DistsOf(r) THEN "watch" ELSE watcher[d]]
        BY Zenon, <3>1 DEF Register
      <4>. QED  BY Zenon, <1>0, <4>1
    <3>. QED
      BY Zenon, <2>1, <2>2, <3>1 DEF SendStep, Admit, Probe, Claim, StreamFile, StreamFails, Mismatch,
         Distribute, Rollback, Record, progress
  <2>3. ASSUME NEW d \in Dists, WatcherEnds(d) PROVE watcher' \in [Dists -> {"none", "watch", "done"}]
    <3>1. watcher' = [watcher EXCEPT ![d] = "done"]
      BY Zenon, <2>3 DEF WatcherEnds
    <3>. QED  BY Zenon, <1>0, <3>1
  <2>. QED
    BY Zenon, <2>1, <2>2, <2>3 DEF Next, Observe, CancelLookup, EvictExpired, CancelApplies,
       progress, vars
<1>5. slot' \in [Dists -> {"none", "pending"} \cup Terminal]
  <2>1. CASE UNCHANGED slot
    BY Zenon, <1>0, <2>1
  <2>2. ASSUME NEW d, NEW s \in {"pending"} \cup Terminal, slot' = [slot EXCEPT ![d] = s]
        PROVE  slot' \in [Dists -> {"none", "pending"} \cup Terminal]
    BY Zenon, <1>0, <2>2
  <2>3. ASSUME NEW r \in Requests, SendStep(r)
        PROVE  slot' \in [Dists -> {"none", "pending"} \cup Terminal]
    <3>1. CASE Distribute(r)
      <4>1. "pending" \in {"pending"} \cup Terminal
        BY Zenon
      <4>. QED  BY Zenon, <2>1, <2>2, <3>1, <4>1 DEF Distribute
    <3>. QED
      BY Zenon, <2>1, <2>3, <3>1 DEF SendStep, Admit, Probe, Claim, StreamFile, StreamFails, Mismatch,
         Rollback, Record, Register, progress
  <2>4. ASSUME NEW d \in Dists, Observe(d) PROVE slot' \in [Dists -> {"none", "pending"} \cup Terminal]
    <3>1. {"completed", "failed"} \subseteq {"pending"} \cup Terminal
      BY Zenon DEF Terminal
    <3>. QED  BY Zenon, <2>2, <2>4, <3>1 DEF Observe
  <2>5. CASE CancelApplies
    <3>1. "cancelled" \in {"pending"} \cup Terminal
      BY Zenon DEF Terminal
    <3>. QED  BY Zenon, <2>1, <2>2, <2>5, <3>1 DEF CancelApplies
  <2>. QED
    BY Zenon, <2>1, <2>3, <2>4, <2>5 DEF Next, WatcherEnds, CancelLookup, EvictExpired, progress, vars
<1>6. /\ cancel'.pc \in {"idle", "calling", "accepted"}
      /\ cancel'.pc = "calling" => cancel'.bundle \in Ids /\ cancel'.dist \in Dists
  <2>1. CASE UNCHANGED cancel
    BY Zenon, <2>1 DEF Typed
  <2>2. ASSUME NEW r \in Requests, SendStep(r) PROVE UNCHANGED cancel
    BY Zenon, <2>2 DEF SendStep, Admit, Probe, Claim, StreamFile, StreamFails, Mismatch,
       Distribute, Rollback, Record, Register
  <2>3. ASSUME NEW d \in Dists, CancelLookup(d)
        PROVE  cancel'.pc = "calling" /\ cancel'.bundle \in Ids /\ cancel'.dist \in Dists
    <3>1. cancel' = [pc |-> "calling", bundle |-> index[d], dist |-> d] /\ index[d] # NoOne
      BY Zenon, <2>3 DEF CancelLookup
    <3>2. index[d] \in Ids
      BY Zenon, <3>1 DEF Typed
    <3>. QED  BY Zenon, <3>1, <3>2
  <2>4. CASE CancelApplies
    <3>1. cancel' = Unasked \/ cancel' = [Unasked EXCEPT !.pc = "accepted"]
      BY Zenon, <2>4 DEF CancelApplies
    <3>. QED  BY <3>1 DEF Unasked
  <2>. QED
    BY Zenon, <2>1, <2>2, <2>3, <2>4 DEF Next, Observe, WatcherEnds, EvictExpired, vars
<1>. QED
  BY ZenonT(60), <1>0, <1>1, <1>2, <1>3, <1>4, <1>5, <1>6, NextTakes, RegistryTyped DEF Typed
-----------------------------------------------------------------------------
(***************************************************************************)
(* The progress of a request, its answer and its record.                   *)
(***************************************************************************)
LEMMA TakesFrom ==
  ASSUME NEW q, Takes(q)
  PROVE  /\ thread[q].pc \in {"refused", "failed", "done"} => Stays(q)
         /\ thread[q].pc = "register" => Stays(q) \/ (thread'[q].pc = "done" /\ thread'[q].reply = q)
         /\ thread'[q].pc \in Early => thread[q].pc \in Early /\ Kept(q)
         /\ thread'[q].pc \in Early \cup Work => thread'[q].reply = thread[q].reply
         /\ thread'[q].reply # thread[q].reply =>
              \/ thread'[q].reply = NoOne
              \/ thread[q].pc = "register" /\ thread'[q].pc = "done" /\ thread'[q].reply = q
              \/ /\ thread[q].pc = "claim" /\ thread'[q].pc = "done" /\ bundles[id[q]] # NoOne
                 /\ thread'[q].reply = bundles[id[q]]
         /\ thread'[q].pc = "register" =>
              \/ Stays(q)
              \/ /\ thread[q].pc = "ingest" /\ thread'[q].reply = NoOne
                 /\ thread[q].started = Len(Files[q]) /\ bundles'[id[q]] = q
         /\ thread'[q].pc = "ingest" => thread[q].pc = "ingest" \/ Starts(q)
         /\ thread'[q].after = thread[q].after \/ Starts(q)
<1>1. CASE Stays(q)
  <2>1. /\ thread'[q].pc = thread[q].pc /\ thread'[q].reply = thread[q].reply
        /\ thread'[q].after = thread[q].after /\ Kept(q)
    BY Zenon, <1>1 DEF Stays, Kept
  <2>. QED  BY Zenon, <1>1, <2>1
<1>2. CASE Starts(q)
  BY Zenon, <1>2 DEF Starts, Moves, Early, Work
<1>3. CASE Copies(q) \/ Hands(q) \/ Undoes(q)
  <2>1. /\ Moves(q, {"ingest"}, "ingest") \/ Moves(q, {"rollback"}, "rollback")
        /\ thread'[q].reply = thread[q].reply /\ thread'[q].after = thread[q].after
    BY Zenon, <1>3 DEF Copies, Hands, Undoes
  <2>. QED  BY Zenon, <2>1 DEF Moves, Early, Work
<1>4. CASE Kept(q) /\ \/ Moves(q, {"idle"}, "probe") \/ Moves(q, {"probe"}, "claim")
                      \/ Moves(q, {"ingest"}, "mismatch") \/ Moves(q, {"ingest", "mismatch"}, "rollback")
                      \/ Moves(q, {"rollback"}, "failed")
  BY Zenon, <1>4 DEF Kept, Moves, Early, Work
<1>5. CASE Reset(q) /\ \/ Moves(q, {"probe", "claim"}, "refused") /\ thread'[q].reply = NoOne
                       \/ /\ Moves(q, {"claim"}, "done") /\ bundles[id[q]] # NoOne
                          /\ thread'[q].reply = bundles[id[q]]
                       \/ /\ Moves(q, {"ingest"}, "register") /\ thread'[q].reply = NoOne
                          /\ thread[q].started = Len(Files[q]) /\ bundles'[id[q]] = q
                       \/ Moves(q, {"register"}, "done") /\ thread'[q].reply = q
  BY Zenon, <1>5 DEF Reset, Moves, Early, Work
<1>. QED  BY ZenonT(60), <1>1, <1>2, <1>3, <1>4, <1>5 DEF Takes

\* Recorded, after the step.
StillRecorded(x) == thread'[x].pc = "register" \/ thread'[x].reply = x

\* An answer names a recorded request for the same id.
Replies ==
  \A r \in Requests : thread[r].reply # NoOne =>
    /\ thread[r].pc = "done" /\ id[thread[r].reply] = id[r] /\ Recorded(thread[r].reply)

\* The record of an id is of a request for that id.
RecordInv ==
  \A b \in Ids : bundles[b] # NoOne => id[bundles[b]] = b /\ Recorded(bundles[b])

LEMMA IdStays == ASSUME [Next]_vars PROVE id' = id
BY ZenonT(60) DEF Next, SendStep, Admit, Probe, Claim, StreamFile, StreamFails, Mismatch, Distribute,
   Rollback, Record, Register, Observe, WatcherEnds, CancelLookup, EvictExpired, CancelApplies,
   stored, vars

LEMMA RecordedStays ==
  ASSUME Typed, Replies, [Next]_vars, NEW q \in Requests
  PROVE  /\ Recorded(q) => StillRecorded(q)
         /\ thread[q].reply # NoOne => thread'[q].reply = thread[q].reply /\ thread'[q].pc = "done"
         /\ Recorded(q) => thread[q].pc \in {"register", "done"}
<1>1. Takes(q) /\ q # NoOne
  BY Zenon, NextTakes, SendingConstants
<1>2. thread[q].reply # NoOne => thread[q].pc = "done"
  BY Zenon DEF Replies
<1>3. thread[q].pc = "done" => Stays(q)
  BY Zenon, <1>1, TakesFrom
<1>4. thread[q].pc = "register" => Stays(q) \/ (thread'[q].pc = "done" /\ thread'[q].reply = q)
  BY Zenon, <1>1, TakesFrom
<1>. QED  BY Zenon, <1>1, <1>2, <1>3, <1>4 DEF Stays, Kept, Recorded, StillRecorded

LEMMA RepliesStep ==
  ASSUME Typed, Replies, RecordInv, [Next]_vars
  PROVE  Replies'
<1>. SUFFICES ASSUME NEW r \in Requests, thread'[r].reply # NoOne
              PROVE  /\ thread'[r].pc = "done" /\ id'[thread'[r].reply] = id'[r]
                     /\ StillRecorded(thread'[r].reply)
  BY Zenon DEF Replies, Recorded, StillRecorded
<1>1. Takes(r) /\ id' = id /\ id[r] \in Ids /\ thread[r].reply \in Requests \cup {NoOne}
      /\ thread' \in [Requests -> Threads] /\ bundles[id[r]] \in Requests \cup {NoOne}
  <2>1. thread[r] \in Threads
    BY Zenon DEF Typed
  <2>2. thread[r].reply \in Requests \cup {NoOne}
    BY Zenon, <2>1 DEF Threads
  <2>. QED  BY Zenon, <2>2, NextTakes, IdStays DEF Typed
<1>2. CASE thread'[r].reply = thread[r].reply
  BY Zenon, <1>1, <1>2, RecordedStays DEF Replies
<1>3. CASE thread'[r].reply = r /\ thread'[r].pc = "done"
  BY Zenon, <1>1, <1>3 DEF StillRecorded
<1>4. CASE /\ thread[r].pc = "claim" /\ thread'[r].pc = "done" /\ bundles[id[r]] # NoOne
           /\ thread'[r].reply = bundles[id[r]]
  <2>1. id[bundles[id[r]]] = id[r] /\ Recorded(bundles[id[r]]) /\ bundles[id[r]] \in Requests
    BY Zenon, <1>1, <1>4 DEF RecordInv
  <2>2. StillRecorded(bundles[id[r]])
    BY Zenon, <2>1, RecordedStays
  <2>. QED  BY Zenon, <1>1, <1>4, <2>1, <2>2
<1>. QED  BY Zenon, <1>1, <1>2, <1>3, <1>4, TakesFrom

\* A record that is there after a step was there before, or the step made it.
LEMMA RecordSteps ==
  ASSUME Typed, [Next]_vars, NEW b \in Ids, bundles'[b] # NoOne
  PROVE  \/ bundles'[b] = bundles[b]
         \/ \E r \in Requests : Record(r) /\ bundles'[b] = r /\ id[r] = b /\ status'[b] = "pending"
<1>1. CASE Rests \/ \E x \in Ids, s \in Terminal : Ends(x, s)
  BY Zenon, <1>1 DEF Rests, Ends
<1>2. CASE \E B \in SUBSET Ids : Drops(B)
  BY Zenon, <1>2 DEF Drops, Drop
<1>3. ASSUME NEW r \in Requests, Record(r) 
      PROVE  bundles'[b] = bundles[b] \/ (bundles'[b] = r /\ id[r] = b /\ status'[b] = "pending")
  <2>1. PICK out : Inserts(r, out)
    BY Zenon, <1>3, InsertEffect
  <2>3. CASE b = id[r]
    BY Zenon, <2>1, <2>3 DEF Inserts
  <2>4. CASE b # id[r]
    <3>1. bundles'[b] = IF b \in out THEN NoOne ELSE bundles[b]
      BY Zenon, <2>1, <2>4 DEF Inserts
    <3>. QED  BY Zenon, <3>1
  <2>. QED  BY Zenon, <2>3, <2>4
<1>. QED  BY Zenon, <1>1, <1>2, <1>3, RegistrySteps

LEMMA RecordMoves ==
  ASSUME Typed, NEW r \in Requests, Record(r)
  PROVE  thread[r].pc = "ingest" /\ thread'[r].pc = "register"
<1>1. Return(r, "register", NoOne) /\ "register" \in Pcs /\ NoOne \in Requests \cup {NoOne}
  BY Zenon DEF Record, Pcs
<1>. QED  BY Zenon, <1>1, ReturnEffect DEF Record

LEMMA RecordStep ==
  ASSUME Typed, Replies, RecordInv, [Next]_vars
  PROVE  RecordInv'
<1>. SUFFICES ASSUME NEW b \in Ids, bundles'[b] # NoOne
              PROVE  id'[bundles'[b]] = b /\ StillRecorded(bundles'[b])
  BY Zenon DEF RecordInv, Recorded, StillRecorded
<1>1. id' = id
  BY Zenon, IdStays
<1>2. CASE bundles'[b] = bundles[b]
  <2>1. bundles[b] \in Requests /\ id[bundles[b]] = b /\ Recorded(bundles[b])
    BY Zenon, <1>2 DEF RecordInv, Typed
  <2>2. StillRecorded(bundles[b])
    BY Zenon, <2>1, RecordedStays
  <2>. QED  BY Zenon, <1>1, <1>2, <2>1, <2>2
<1>3. ASSUME NEW r \in Requests, Record(r), bundles'[b] = r, id[r] = b
      PROVE  id'[bundles'[b]] = b /\ StillRecorded(bundles'[b])
  BY Zenon, <1>1, <1>3, RecordMoves DEF StillRecorded
<1>. QED  BY Zenon, <1>2, <1>3, RecordSteps
-----------------------------------------------------------------------------
(***************************************************************************)
(* The reverse index.                                                      *)
(***************************************************************************)
LEMMA NoOneFacts ==
  /\ \A r \in Requests : r # NoOne
  /\ \A b \in Ids : b # NoOne
  /\ \A d \in Dists : d[1] \in Requests /\ d[1] # NoOne
  /\ \A d \in Dists, r \in Requests : d \in DistsOf(r) <=> d[1] = r
<1>1. NoOne \notin Requests /\ NoOne \notin Ids
  BY Zenon, SendingConstants
<1>2. \A d \in Dists : d[1] \in Requests /\ d \in DistsOf(d[1])
  BY Zenon, DistFacts
<1>3. \A r \in Requests : \A d \in DistsOf(r) : d[1] = r
  BY Zenon, DistFacts
<1>. QED  BY Zenon, <1>1, <1>2, <1>3

\* The index and the records say the same.
Agree(i, m) == \A d \in Dists, b \in Ids : (i[d] = b) <=> (m[b] = d[1])

LEMMA AgreeForm ==
  ASSUME NEW i, NEW m \in [Ids -> Requests \cup {NoOne}]
  PROVE  Agree(i, m) <=> \A d \in Dists, b \in Ids :
                           (i[d] = b) <=> (m[b] # NoOne /\ d \in DistsOf(m[b]))
<1>1. ASSUME NEW d \in Dists, NEW b \in Ids
      PROVE  (m[b] # NoOne /\ d \in DistsOf(m[b])) <=> (m[b] = d[1])
  <2>1. m[b] = NoOne \/ m[b] \in Requests
    BY Zenon
  <2>. QED  BY Zenon, <2>1, NoOneFacts
<1>2. ASSUME Agree(i, m), NEW d \in Dists, NEW b \in Ids
      PROVE  (i[d] = b) <=> (m[b] # NoOne /\ d \in DistsOf(m[b]))
  BY ZenonT(60), <1>1, <1>2 DEF Agree
<1>3. ASSUME \A d \in Dists, b \in Ids : (i[d] = b) <=> (m[b] # NoOne /\ d \in DistsOf(m[b]))
      PROVE  Agree(i, m)
  BY Zenon, <1>1, <1>3 DEF Agree
<1>. QED  BY Zenon, <1>2, <1>3

LEMMA IndexStep ==
  ASSUME Typed, Replies, RecordInv, IndexIsExact, [Next]_vars
  PROVE  IndexIsExact'
<1>1. Agree(index, bundles)
  BY Zenon, AgreeForm DEF Typed, IndexIsExact
<1>2. bundles' \in [Ids -> Requests \cup {NoOne}]
  BY Zenon, RegistryTyped
<1>3. SUFFICES Agree(index', bundles')
  BY Zenon, <1>2, AgreeForm DEF IndexIsExact
<1>4. CASE Rests \/ \E b \in Ids, s \in Terminal : Ends(b, s)
  <2>1. index' = index /\ bundles' = bundles
    BY Zenon, <1>4 DEF Rests, Ends
  <2>. QED  BY Zenon, <1>1, <2>1
<1>5. ASSUME NEW B, Drops(B) PROVE Agree(index', bundles')
  <2>. SUFFICES ASSUME NEW d \in Dists, NEW b \in Ids PROVE (index'[d] = b) <=> (bundles'[b] = d[1])
    BY Zenon DEF Agree
  <2>1. index'[d] = (IF index[d] \in B THEN NoOne ELSE index[d])
        /\ bundles'[b] = (IF b \in B THEN NoOne ELSE bundles[b])
    BY Zenon, <1>5 DEF Drops, Drop
  <2>2. b # NoOne /\ d[1] # NoOne /\ ((index[d] = b) <=> (bundles[b] = d[1]))
    BY Zenon, <1>1, NoOneFacts DEF Agree
  <2>. QED  BY Zenon, <2>1, <2>2
<1>6. ASSUME NEW r \in Requests, Record(r) PROVE Agree(index', bundles')
  <2>1. PICK out : Inserts(r, out)
    BY Zenon, <1>6, InsertEffect
  <2>2. ASSUME NEW b \in Ids PROVE bundles[b] # r
    <3>1. thread[r].pc = "ingest" /\ r # NoOne
      BY Zenon, <1>6, RecordMoves, NoOneFacts
    <3>2. ~Recorded(r)
      BY Zenon, <3>1 DEF Replies, Recorded
    <3>. QED  BY Zenon, <3>1, <3>2 DEF RecordInv
  <2>. SUFFICES ASSUME NEW d \in Dists, NEW b \in Ids PROVE (index'[d] = b) <=> (bundles'[b] = d[1])
    BY Zenon DEF Agree
  <2>3. index'[d] = (IF d \in DistsOf(r) THEN id[r]
                     ELSE IF index[d] \in out \cup {id[r]} THEN NoOne ELSE index[d])
        /\ bundles'[b] = (IF b = id[r] THEN r ELSE IF b \in out THEN NoOne ELSE bundles[b])
    BY Zenon, <2>1 DEF Inserts
  <2>4. b # NoOne /\ d[1] # NoOne /\ ((index[d] = b) <=> (bundles[b] = d[1]))
    BY Zenon, <1>1, NoOneFacts DEF Agree
  <2>5. d \in DistsOf(r) <=> d[1] = r
    BY Zenon, NoOneFacts
  <2>6. bundles[b] # r
    BY Zenon, <2>2
  <2>. QED  BY Zenon, <2>3, <2>4, <2>5, <2>6
<1>. QED  BY Zenon, <1>4, <1>5, <1>6, RegistrySteps

-----------------------------------------------------------------------------
(***************************************************************************)
(* The ages of the records.                                                *)
(***************************************************************************)
Ages ==
  /\ older \subseteq Resident \X Resident
  /\ \A x, y \in Resident : x # y <=> ((<<x, y>> \in older) # (<<y, x>> \in older))
  /\ MaxKnown > 0 => Cardinality(Resident) <= MaxKnown

Ordered(S, O) ==
  /\ O \subseteq S \X S
  /\ \A x, y \in S : x # y <=> ((<<x, y>> \in O) # (<<y, x>> \in O))

Without(O, B) == {p \in O : p[1] \notin B /\ p[2] \notin B}
Joined(S, O, b) == O \cup {<<x, b>> : x \in S}

LEMMA ForgetOrdered ==
  ASSUME NEW S, NEW O, Ordered(S, O), NEW B
  PROVE  Ordered(S \ B, Without(O, B))
<1>. DEFINE P == Without(O, B)
<1>1. \A x, y : <<x, y>> \in P <=> (<<x, y>> \in O /\ x \notin B /\ y \notin B)
  BY Zenon DEF Without
<1>2. ASSUME NEW p \in P PROVE p \in (S \ B) \X (S \ B)
  <2>1. p \in S \X S /\ p[1] \notin B /\ p[2] \notin B
    BY Zenon, <1>2 DEF Ordered, Without
  <2>. QED  BY Zenon, <2>1
<1>. HIDE DEF P
<1>3. ASSUME NEW x \in S \ B, NEW y \in S \ B PROVE x # y <=> ((<<x, y>> \in P) # (<<y, x>> \in P))
  <2>1. x # y <=> ((<<x, y>> \in O) # (<<y, x>> \in O))
    BY Zenon, <1>3 DEF Ordered
  <2>. QED  BY <1>1, <2>1
<1>4. P \subseteq (S \ B) \X (S \ B)
  BY Zenon, <1>2
<1>. QED  BY Zenon, <1>3, <1>4 DEF Ordered, P

\* b is the youngest of all.
LEMMA YoungestOrdered ==
  ASSUME NEW S, NEW O, Ordered(S, O), NEW b, b \notin S
  PROVE  Ordered(S \cup {b}, Joined(S, O, b))
<1>. DEFINE P == Joined(S, O, b)
<1>1. \A x, y : <<x, y>> \in P <=> (<<x, y>> \in O \/ (x \in S /\ y = b))
  BY Zenon DEF Joined
<1>2. ASSUME NEW p \in P PROVE p \in (S \cup {b}) \X (S \cup {b})
  <2>1. CASE p \in O
    <3>1. p \in S \X S
      BY Zenon, <2>1 DEF Ordered
    <3>. QED  BY Zenon, <3>1
  <2>2. ASSUME NEW x \in S, p = <<x, b>> PROVE p \in (S \cup {b}) \X (S \cup {b})
    BY Zenon, <2>2
  <2>. QED  BY ZenonT(60), <1>2, <2>1, <2>2 DEF Joined
<1>. HIDE DEF P
<1>3. ASSUME NEW x, NEW y, <<x, y>> \in O PROVE x \in S /\ y \in S
  <2>1. <<x, y>> \in S \X S
    BY Zenon, <1>3 DEF Ordered
  <2>. QED  BY Zenon, <2>1
<1>4. ASSUME NEW x \in S \cup {b}, NEW y \in S \cup {b}
      PROVE  x # y <=> ((<<x, y>> \in P) # (<<y, x>> \in P))
  <2>1. CASE x \in S /\ y \in S
    <3>1. x # b /\ y # b /\ (x # y <=> ((<<x, y>> \in O) # (<<y, x>> \in O)))
      BY Zenon, <2>1 DEF Ordered
    <3>. QED  BY <1>1, <3>1
  <2>2. CASE x = b \/ y = b
    BY Zenon, <1>1, <1>3, <2>2
  <2>. QED  BY Zenon, <1>4, <2>1, <2>2
<1>5. P \subseteq (S \cup {b}) \X (S \cup {b})
  BY Zenon, <1>2
<1>. QED  BY Zenon, <1>4, <1>5 DEF Ordered, P

LEMMA TouchAges ==
  ASSUME Ages, NEW b \in Resident, Touch(b), bundles' = bundles
  PROVE  Ages'
<1>. DEFINE S == Resident
            O == Without(older, {b})
<1>1. Resident' = S
  BY Zenon DEF Resident
<1>2. (S \ {b}) \cup {b} = S /\ b \notin S \ {b}
  BY Zenon
<1>3. older' = Joined(S \ {b}, O, b)
  BY Zenon DEF Touch, Forget, Joined, Without
<1>4. Ordered(S, older)
  BY Zenon DEF Ages, Ordered
<1>. HIDE DEF S
<1>5. Ordered(S \ {b}, O)
  BY Zenon, <1>4, ForgetOrdered
<1>. HIDE DEF O
<1>6. Ordered((S \ {b}) \cup {b}, older')
  BY ZenonT(60), <1>2, <1>3, <1>5, YoungestOrdered
<1>7. Ordered(S, older')
  BY Zenon, <1>2, <1>6
<1>. QED  BY Zenon, <1>1, <1>7 DEF Ages, Ordered, S

LEMMA DropAges ==
  ASSUME Ages, Typed, NEW B, Drops(B)
  PROVE  Ages'
<1>. DEFINE S == Resident
<1>1. Resident' = S \ B
  <2>1. bundles' = [b \in Ids |-> IF b \in B THEN NoOne ELSE bundles[b]]
    BY Zenon DEF Drops, Drop
  <2>. QED  BY Zenon, <2>1 DEF Resident
<1>2. older' = Without(older, B)
  BY Zenon DEF Drops, Drop, Forget, Without
<1>3. Ordered(S, older) /\ S \subseteq Ids /\ (MaxKnown > 0 => Cardinality(S) <= MaxKnown)
  BY Zenon DEF Ages, Ordered, Resident
<1>. HIDE DEF S
<1>4. Ordered(S \ B, older')
  BY Zenon, <1>2, <1>3, ForgetOrdered
<1>5. MaxKnown > 0 => Cardinality(S \ B) <= MaxKnown
  <2>1. IsFiniteSet(S)
    BY Zenon, <1>3, FS_Subset, SendingConstants
  <2>2. Cardinality(S \ B) <= Cardinality(S) /\ Cardinality(S) \in Nat /\ Cardinality(S \ B) \in Nat
    <3>1. S \ B \subseteq S
      BY Zenon
    <3>2. IsFiniteSet(S \ B) /\ Cardinality(S \ B) <= Cardinality(S)
      BY Zenon, <2>1, <3>1, FS_Subset
    <3>. QED  BY Zenon, <2>1, <3>2, FS_CardinalityType
  <2>. QED  BY SMTT(60), <1>3, <2>2, SendingConstants
<1>. QED  BY Zenon, <1>1, <1>4, <1>5 DEF Ages, Ordered

LEMMA InsertAges ==
  ASSUME Ages, Typed, NEW r \in Requests, Record(r)
  PROVE  Ages'
<1>. DEFINE S == Resident
            b == id[r]
<1>1. PICK out \in Victims(S \ {b}) : Inserts(r, out) /\ out \subseteq S \ {b}
  BY Zenon, InsertEffect
<1>. DEFINE B == out \cup {b}
<1>2. b \in Ids /\ r # NoOne
  BY Zenon, NoOneFacts DEF Typed
<1>3. Resident' = (S \ B) \cup {b}
  <2>1. bundles' = [x \in Ids |-> IF x = b THEN r ELSE IF x \in out THEN NoOne ELSE bundles[x]]
    BY Zenon, <1>1 DEF Inserts
  <2>. QED  BY Zenon, <1>2, <2>1 DEF Resident
<1>4. older' = Joined(S \ B, Without(older, B), b)
  BY Zenon, <1>1 DEF Inserts, Forget, Joined, Without
<1>5. Ordered(S, older) /\ S \subseteq Ids /\ (MaxKnown > 0 => Cardinality(S) <= MaxKnown)
  BY Zenon DEF Ages, Ordered, Resident
<1>6. b \notin S \ B /\ S \ B = (S \ {b}) \ out
  BY Zenon
<1>7. Victims(S \ {b}) = IF MaxKnown > 0 /\ Cardinality(S \ {b}) >= MaxKnown
                         THEN {{y} : y \in {x \in S \ {b} : \A y \in S \ {b} : <<y, x>> \notin older}}
                         ELSE {{}}
  BY Zenon DEF Victims, Over
<1>. HIDE DEF S, B, b
<1>9. Ordered((S \ B) \cup {b}, older')
  <2>1. Ordered(S \ B, Without(older, B))
    BY Zenon, <1>5, ForgetOrdered
  <2>. QED  BY Zenon, <1>4, <1>6, <2>1, YoungestOrdered
<1>10. MaxKnown > 0 => Cardinality((S \ B) \cup {b}) <= MaxKnown
  <2>. DEFINE T == S \ {b}
  <2>1. IsFiniteSet(S) /\ T \subseteq S
    BY Zenon, <1>5, FS_Subset, SendingConstants
  <2>2. IsFiniteSet(T) /\ Cardinality(T) <= Cardinality(S)
    BY Zenon, <2>1, FS_Subset
  <2>3. Cardinality(S) \in Nat /\ Cardinality(T) \in Nat
    BY Zenon, <2>1, <2>2, FS_CardinalityType
  <2>4. b \notin S \ B /\ S \ B = T \ out
    BY Zenon, <1>6
  <2>. HIDE DEF T
  <2>5. IsFiniteSet(T \ out) /\ Cardinality(T \ out) \in Nat /\ Cardinality(T \ out) <= Cardinality(T)
    <3>1. T \ out \subseteq T
      BY Zenon
    <3>. QED  BY Zenon, <2>2, <3>1, FS_Subset, FS_CardinalityType
  <2>6. Cardinality((S \ B) \cup {b}) = Cardinality(T \ out) + 1
    BY ZenonT(60), <2>4, <2>5, FS_AddElement
  <2>7. CASE MaxKnown > 0 /\ Cardinality(T) >= MaxKnown
    <3>1. PICK y \in T : out = {y}
      BY Zenon, <1>1, <1>7, <2>7 DEF T
    <3>2. Cardinality(T \ out) = Cardinality(T) - 1
      BY Zenon, <2>2, <3>1, FS_RemoveElement
    <3>. QED  BY SMTT(60), <1>5, <2>2, <2>3, <2>6, <3>2, SendingConstants
  <2>8. CASE ~(MaxKnown > 0 /\ Cardinality(T) >= MaxKnown)
    BY SMTT(60), <2>3, <2>5, <2>6, <2>8, SendingConstants
  <2>. QED  BY Zenon, <2>7, <2>8
<1>. QED  BY Zenon, <1>3, <1>9, <1>10 DEF Ages, Ordered

LEMMA AgesStep == ASSUME Typed, Ages, [Next]_vars PROVE Ages'
<1>1. CASE Rests
  <2>1. CASE UNCHANGED <<older, bundles>>
    BY Zenon, <2>1 DEF Ages, Resident
  <2>. QED  BY Zenon, <1>1, <2>1, TouchAges DEF Rests
<1>2. CASE \E b \in Ids, s \in Terminal : Ends(b, s)
  BY Zenon, <1>2, TouchAges DEF Ends
<1>. QED  BY Zenon, <1>1, <1>2, DropAges, InsertAges, RegistrySteps
-----------------------------------------------------------------------------
(***************************************************************************)
(* The files that a request has ingested, distributed and given up.        *)
(***************************************************************************)
CopiedOf(r, t) ==
  /\ t.pc \in Early => t.created = <<>> /\ t.started = 0
  /\ t.pc \in Early \cup {"ingest", "mismatch"} => t.undone = 0
  /\ Len(t.created) <= Len(Files[r])
  /\ \A i \in 1..Len(t.created) : t.created[i] = Files[r][i]
  /\ t.pc = "ingest" /\ t.started > 0 => Len(t.created) = Len(Files[r])
  /\ t.undone <= Len(t.created)
  /\ t.pc = "failed" => t.undone = Len(t.created)
Copied == \A r \in Requests : CopiedOf(r, thread[r])

LEMMA CopiedStep == ASSUME Typed, Copied, [Next]_vars PROVE Copied'
<1>. SUFFICES ASSUME NEW r \in Requests PROVE CopiedOf(r, thread'[r])
  BY Zenon DEF Copied
<1>. DEFINE f == Files[r]
            v == thread[r].created
            v2 == thread'[r].created
            s == thread[r].started
            s2 == thread'[r].started
            u == thread[r].undone
            u2 == thread'[r].undone
            p == thread[r].pc
            p2 == thread'[r].pc
<1>1. f \in Seq(Contents)
  BY Zenon, FileFacts
<1>2. v \in Seq(Contents) /\ s \in Nat /\ u \in Nat
  <2>1. thread[r] \in Threads
    BY Zenon DEF Typed
  <2>. QED  BY Zenon, <2>1 DEF Threads
<1>3. v2 \in Seq(Contents) /\ s2 \in Nat /\ u2 \in Nat
  <2>1. thread'[r] \in Threads
    BY Zenon, NextTakes
  <2>. QED  BY Zenon, <2>1 DEF Threads
<1>4. /\ p \in Early => v = <<>> /\ s = 0
      /\ p \in Early \cup {"ingest", "mismatch"} => u = 0
      /\ Len(v) <= Len(f) /\ \A i \in 1..Len(v) : v[i] = f[i]
      /\ p = "ingest" /\ s > 0 => Len(v) = Len(f)
      /\ u <= Len(v) /\ (p = "failed" => u = Len(v))
  BY Zenon DEF Copied, CopiedOf
<1>5. \/ p2 = p /\ v2 = v /\ s2 = s /\ u2 = u
      \/ p \in {"probe", "claim"} /\ p2 = "ingest" /\ v2 = v /\ s2 = s /\ u2 = u
      \/ /\ p \in {"ingest"} /\ p2 = "ingest" /\ Len(v) < Len(f)
         /\ v2 = Append(v, f[Len(v) + 1]) /\ s2 = s /\ u2 = u
      \/ p \in {"ingest"} /\ p2 = "ingest" /\ Len(v) = Len(f) /\ v2 = v /\ s2 = s + 1 /\ u2 = u
      \/ p \in {"rollback"} /\ p2 = "rollback" /\ u # Len(v) /\ u2 = u + 1 /\ v2 = v /\ s2 = s
      \/ /\ v2 = v /\ s2 = s /\ u2 = u
         /\ \/ p \in {"idle"} /\ p2 = "probe"
            \/ p \in {"probe"} /\ p2 = "claim"
            \/ p \in {"ingest"} /\ p2 = "mismatch"
            \/ p \in {"ingest", "mismatch"} /\ p2 = "rollback"
            \/ p \in {"rollback"} /\ p2 = "failed" /\ u = Len(v)
      \/ v2 = <<>> /\ s2 = 0 /\ u2 = 0 /\ p2 \in {"refused", "done", "register"}
  <2>1. Takes(r)
    BY Zenon, NextTakes
  <2>. QED
    BY Zenon, <2>1 DEF Takes, Stays, Starts, Copies, Hands, Undoes, Moves, Kept, Reset, NextFile
<1>. HIDE DEF f, v, v2, s, s2, u, u2, p, p2
<1>6. /\ p2 \in Early => v2 = <<>> /\ s2 = 0
      /\ p2 \in Early \cup {"ingest", "mismatch"} => u2 = 0
      /\ Len(v2) <= Len(f) /\ \A i \in 1..Len(v2) : v2[i] = f[i]
      /\ p2 = "ingest" /\ s2 > 0 => Len(v2) = Len(f)
      /\ u2 <= Len(v2) /\ (p2 = "failed" => u2 = Len(v2))
  <2>1. CASE v2 = v
    BY SMTT(60), <1>1, <1>2, <1>3, <1>4, <1>5, <2>1 DEF Early
  <2>2. CASE /\ p \in {"ingest"} /\ p2 = "ingest" /\ Len(v) < Len(f)
             /\ v2 = Append(v, f[Len(v) + 1]) /\ s2 = s /\ u2 = u
    <3>1. Len(v2) = Len(v) + 1 /\ \A i \in 1..Len(v2) : v2[i] = IF i = Len(v) + 1 THEN f[i] ELSE v[i]
      BY SMTT(60), <1>1, <1>2, <2>2
    <3>. QED  BY SMTT(60), <1>1, <1>2, <1>4, <2>2, <3>1 DEF Early
  <2>3. CASE v2 = <<>> /\ s2 = 0 /\ u2 = 0 /\ p2 \in {"refused", "done", "register"}
    BY <1>1, <2>3 DEF Early
  <2>. QED  BY Zenon, <1>5, <2>1, <2>2, <2>3
<1>. QED  BY Zenon, <1>6 DEF CopiedOf, f, v2, s2, u2, p2
-----------------------------------------------------------------------------
(***************************************************************************)
(* Runtimes, watchers and the cancellation belong to answered requests.    *)
(***************************************************************************)
Runs ==
  /\ \A b \in Ids : runtimes[b] # NoOne =>
       id[runtimes[b]] = b /\ thread[runtimes[b]].reply = runtimes[b]
  /\ \A r \in Requests : thread[r].reply = r => runtimes[id[r]] # NoOne
  /\ \A d \in Dists : watcher[d] # "none" => thread[d[1]].reply = d[1]
  /\ cancel.pc = "calling" => /\ id[cancel.dist[1]] = cancel.bundle
                              /\ \E r \in Requests : thread[r].reply = cancel.dist[1]

LEMMA RegisterMoves ==
  ASSUME Typed, NEW r \in Requests, Register(r)
  PROVE  thread[r].pc = "register" /\ thread'[r].pc = "done" /\ thread'[r].reply = r
<1>1. Return(r, "done", r) /\ "done" \in Pcs /\ r \in Requests \cup {NoOne}
  BY Zenon DEF Register, Pcs
<1>. QED  BY Zenon, <1>1, ReturnEffect DEF Register

LEMMA OwnReplyHow ==
  ASSUME Typed, Replies, RecordInv, [Next]_vars, NEW r \in Requests, thread'[r].reply = r, thread[r].reply # r
  PROVE  Register(r)
<1>1. thread[r].pc = "register" /\ thread'[r].pc = "done"
  <2>1. Takes(r) /\ r # NoOne
    BY Zenon, NextTakes, NoOneFacts
  <2>2. ~(thread[r].pc = "claim" /\ bundles[id[r]] = r)
    <3>1. ASSUME thread[r].pc = "claim" PROVE ~Recorded(r)
      BY Zenon, <2>1, <3>1 DEF Recorded, Replies
    <3>2. id[r] \in Ids
      BY Zenon DEF Typed
    <3>. QED  BY Zenon, <2>1, <3>1, <3>2 DEF RecordInv
  <2>3. \/ thread'[r].reply = NoOne
        \/ thread[r].pc = "register" /\ thread'[r].pc = "done" /\ thread'[r].reply = r
        \/ /\ thread[r].pc = "claim" /\ thread'[r].pc = "done" /\ bundles[id[r]] # NoOne
           /\ thread'[r].reply = bundles[id[r]]
    BY Zenon, <2>1, TakesFrom
  <2>. QED  BY Zenon, <2>1, <2>2, <2>3
<1>2. ASSUME NEW q \in Requests, SendStep(q) PROVE q = r
  BY Zenon, <1>1, <1>2, RequestTakes DEF Stays
<1>3. CASE SendStep(r)
  BY Zenon, <1>1, <1>3 DEF SendStep, Admit, Probe, Claim, StreamFile, StreamFails, Mismatch, Distribute,
     Rollback, Record
<1>4. CASE UNCHANGED thread
  BY Zenon, <1>1, <1>4
<1>. QED
  BY ZenonT(60), <1>2, <1>3, <1>4 DEF Next, Observe, WatcherEnds, CancelLookup, EvictExpired,
     CancelApplies, vars

\* Runtimes and watchers change when a request registers, and a watcher ends.
LEMMA RuntimeSteps ==
  ASSUME Typed, [Next]_vars
  PROVE  \/ runtimes' = runtimes /\ \A d \in Dists : watcher[d] = "none" => watcher'[d] = "none"
         \/ \E r \in Requests : Register(r)
<1>1. CASE UNCHANGED <<runtimes, watcher>>
  BY Zenon, <1>1
<1>2. ASSUME NEW r \in Requests, SendStep(r) PROVE UNCHANGED <<runtimes, watcher>> \/ Register(r)
  BY Zenon, <1>2 DEF SendStep, Admit, Probe, Claim, StreamFile, StreamFails, Mismatch, Distribute,
     Rollback, Record, progress
<1>3. ASSUME NEW d \in Dists, WatcherEnds(d)
      PROVE  runtimes' = runtimes /\ \A e \in Dists : watcher[e] = "none" => watcher'[e] = "none"
  <2>1. /\ runtimes' = runtimes /\ watcher[d] = "watch" /\ watcher' = [watcher EXCEPT ![d] = "done"]
        /\ watcher \in [Dists -> {"none", "watch", "done"}]
    BY Zenon, <1>3 DEF WatcherEnds, Typed
  <2>. QED  BY Zenon, <2>1
<1>. QED
  BY ZenonT(60), <1>1, <1>2, <1>3 DEF Next, Observe, CancelLookup, EvictExpired, CancelApplies, progress, vars

LEMMA RunsStep ==
  ASSUME Typed, Replies, RecordInv, IndexIsExact, Runs, [Next]_vars
  PROVE  Runs'
<1>0. id' = id /\ id \in [Requests -> Ids] /\ runtimes \in [Ids -> Requests \cup {NoOne}]
      /\ watcher \in [Dists -> {"none", "watch", "done"}]
  BY Zenon, IdStays DEF Typed
<1>1. \A r \in Requests : thread[r].reply # NoOne => thread'[r].reply = thread[r].reply
  BY Zenon, RecordedStays
<1>2. ASSUME runtimes' = runtimes, \A d \in Dists : watcher[d] = "none" => watcher'[d] = "none"
      PROVE  /\ \A b \in Ids : runtimes'[b] # NoOne =>
                  id'[runtimes'[b]] = b /\ thread'[runtimes'[b]].reply = runtimes'[b]
             /\ \A d \in Dists : watcher'[d] # "none" => thread'[d[1]].reply = d[1]
             /\ \A b \in Ids : runtimes[b] # NoOne => runtimes'[b] # NoOne
  <2>1. ASSUME NEW b \in Ids, runtimes[b] # NoOne
        PROVE  id[runtimes[b]] = b /\ thread'[runtimes[b]].reply = runtimes[b]
    <3>1. runtimes[b] \in Requests
      BY Zenon, <1>0, <2>1
    <3>. QED  BY Zenon, <1>1, <2>1, <3>1 DEF Runs
  <2>2. ASSUME NEW d \in Dists, watcher'[d] # "none" PROVE thread'[d[1]].reply = d[1]
    <3>1. thread[d[1]].reply = d[1] /\ d[1] \in Requests /\ d[1] # NoOne
      BY Zenon, <1>2, <2>2, NoOneFacts DEF Runs
    <3>. QED  BY Zenon, <1>1, <3>1
  <2>. QED  BY ZenonT(60), <1>0, <1>2, <2>1, <2>2
<1>3. ASSUME NEW r \in Requests, Register(r)
      PROVE  /\ \A b \in Ids : runtimes'[b] # NoOne =>
                  id'[runtimes'[b]] = b /\ thread'[runtimes'[b]].reply = runtimes'[b]
             /\ \A d \in Dists : watcher'[d] # "none" => thread'[d[1]].reply = d[1]
             /\ \A b \in Ids : runtimes[b] # NoOne => runtimes'[b] # NoOne
             /\ runtimes'[id[r]] # NoOne
  <2>1. /\ runtimes' = [runtimes EXCEPT ![id[r]] = r] /\ thread'[r].reply = r /\ r # NoOne
        /\ watcher' = [d \in Dists |-> IF d \in DistsOf(r) THEN "watch" ELSE watcher[d]]
    BY ZenonT(60), <1>3, RegisterMoves, NoOneFacts DEF Register
  <2>2. /\ runtimes'[id[r]] = r /\ id[r] \in Ids
        /\ \A b \in Ids \ {id[r]} : runtimes'[b] = runtimes[b]
    BY Zenon, <1>0, <2>1
  <2>3. ASSUME NEW b \in Ids, b # id[r], runtimes[b] # NoOne
        PROVE  id[runtimes[b]] = b /\ thread'[runtimes[b]].reply = runtimes[b]
    <3>1. runtimes[b] \in Requests
      BY Zenon, <1>0, <2>3
    <3>. QED  BY Zenon, <1>1, <2>3, <3>1 DEF Runs
  <2>4. ASSUME NEW d \in Dists, watcher'[d] # "none" PROVE thread'[d[1]].reply = d[1]
    <3>1. CASE d \in DistsOf(r)
      BY Zenon, <2>1, <3>1, NoOneFacts
    <3>2. CASE d \notin DistsOf(r)
      <4>1. watcher[d] # "none"
        BY ZenonT(60), <2>1, <2>4, <3>2
      <4>2. thread[d[1]].reply = d[1] /\ d[1] \in Requests /\ d[1] # NoOne
        BY Zenon, <4>1, NoOneFacts DEF Runs
      <4>. QED  BY Zenon, <1>1, <4>2
    <3>. QED  BY Zenon, <3>1, <3>2
  <2>. QED  BY ZenonT(60), <1>0, <2>1, <2>2, <2>3, <2>4
<1>4. /\ \A b \in Ids : runtimes'[b] # NoOne =>
           id'[runtimes'[b]] = b /\ thread'[runtimes'[b]].reply = runtimes'[b]
      /\ \A d \in Dists : watcher'[d] # "none" => thread'[d[1]].reply = d[1]
      /\ \A b \in Ids : runtimes[b] # NoOne => runtimes'[b] # NoOne
  BY Zenon, <1>2, <1>3, RuntimeSteps
<1>5. ASSUME NEW r \in Requests, thread'[r].reply = r PROVE runtimes'[id'[r]] # NoOne
  <2>1. CASE thread[r].reply = r
    BY Zenon, <1>0, <1>4, <2>1 DEF Runs
  <2>2. CASE thread[r].reply # r
    BY ZenonT(60), <1>0, <1>3, <1>5, <2>2, OwnReplyHow
  <2>. QED  BY Zenon, <2>1, <2>2
<1>6. ASSUME cancel'.pc = "calling"
      PROVE  /\ id'[cancel'.dist[1]] = cancel'.bundle
             /\ \E r \in Requests : thread'[r].reply = cancel'.dist[1]
  <2>1. ASSUME NEW c, c \in Requests, \E r \in Requests : thread[r].reply = c
        PROVE  \E r \in Requests : thread'[r].reply = c
    BY Zenon, <1>1, <2>1, NoOneFacts
  <2>2. CASE cancel' = cancel
    <3>1. /\ id[cancel.dist[1]] = cancel.bundle /\ cancel.dist \in Dists
          /\ \E r \in Requests : thread[r].reply = cancel.dist[1]
      BY Zenon, <1>6, <2>2 DEF Runs, Typed
    <3>2. cancel.dist[1] \in Requests
      BY Zenon, <3>1, NoOneFacts
    <3>. QED  BY ZenonT(60), <1>0, <2>1, <2>2, <3>1, <3>2
  <2>3. ASSUME NEW d \in Dists, CancelLookup(d)
        PROVE  /\ id'[cancel'.dist[1]] = cancel'.bundle
               /\ \E r \in Requests : thread'[r].reply = cancel'.dist[1]
    <3>1. /\ cancel' = [pc |-> "calling", bundle |-> index[d], dist |-> d] /\ index[d] # NoOne
          /\ \E r \in Requests : thread[r].reply = d[1]
      BY Zenon, <2>3 DEF CancelLookup
    <3>2. cancel'.bundle = index[d] /\ cancel'.dist = d
      BY Zenon, <3>1
    <3>3. index[d] \in Ids /\ bundles \in [Ids -> Requests \cup {NoOne}]
      BY Zenon, <3>1 DEF Typed
    <3>4. bundles[index[d]] = d[1] /\ d[1] \in Requests /\ d[1] # NoOne
      <4>1. Agree(index, bundles)
        BY Zenon, <3>3, AgreeForm DEF IndexIsExact
      <4>. QED  BY ZenonT(60), <3>3, <4>1, NoOneFacts DEF Agree
    <3>5. id[d[1]] = index[d]
      BY Zenon, <3>3, <3>4 DEF RecordInv
    <3>. QED  BY ZenonT(60), <1>0, <2>1, <3>1, <3>2, <3>4, <3>5
  <2>4. CASE CancelApplies
    <3>1. cancel' = Unasked \/ cancel' = [Unasked EXCEPT !.pc = "accepted"]
      BY Zenon, <2>4 DEF CancelApplies
    <3>2. Unasked.pc = "idle" /\ [Unasked EXCEPT !.pc = "accepted"].pc = "accepted"
      BY Zenon DEF Unasked
    <3>3. "calling" # "idle" /\ "calling" # "accepted"
      BY Zenon
    <3>. QED  BY ZenonT(60), <1>6, <3>1, <3>2, <3>3
  <2>5. ASSUME NEW r \in Requests, SendStep(r) PROVE cancel' = cancel
    BY ZenonT(60), <2>5 DEF SendStep, Admit, Probe, Claim, StreamFile, StreamFails, Mismatch,
       Distribute, Rollback, Record, Register
  <2>. QED
    BY ZenonT(60), <2>2, <2>3, <2>4, <2>5 DEF Next, Observe, WatcherEnds, EvictExpired, vars
<1>. QED  BY Zenon, <1>4, <1>5, <1>6 DEF Runs

-----------------------------------------------------------------------------
(***************************************************************************)
(* The slots.                                                              *)
(***************************************************************************)
SlotMove(d) ==
  \/ slot'[d] = slot[d]
  \/ slot'[d] = "pending" /\ Hands(d[1])
  \/ slot[d] = "pending" /\ slot'[d] \in {"completed", "failed"} /\ UNCHANGED thread
  \/ slot[d] \notin {"completed", "cancelled"} /\ slot'[d] = "cancelled" /\ thread[d[1]].reply = d[1]

LEMMA SlotSteps ==
  ASSUME Typed, Runs, [Next]_vars
  PROVE  \A d \in Dists : SlotMove(d)
<1>0. slot \in [Dists -> {"none", "pending"} \cup Terminal]
  BY Zenon DEF Typed
<1>1. CASE slot' = slot
  BY Zenon, <1>1 DEF SlotMove
<1>2. ASSUME NEW e \in Dists, NEW s, slot' = [slot EXCEPT ![e] = s]
      PROVE  slot'[e] = s /\ \A d \in Dists \ {e} : slot'[d] = slot[d]
  BY Zenon, <1>0, <1>2
<1>3. ASSUME NEW r \in Requests, SendStep(r) PROVE \A d \in Dists : SlotMove(d)
  <2>1. CASE Distribute(r) /\ slot' # slot
    <3>1. /\ Hands(r) /\ slot' = [slot EXCEPT ![<<r, thread'[r].started>>] = "pending"]
      <4>1. ~GiveUp(r) \/ slot' = [slot EXCEPT ![<<r, thread[r].started + 1>>] = "pending"]
        BY Zenon, <2>1 DEF Distribute
      <4>2. ~GiveUp(r)
        <5>1. ASSUME GiveUp(r), Becomes(r, [thread[r] EXCEPT !.started = thread[r].started + 1]) PROVE FALSE
          <6>1. thread'[r] = [thread[r] EXCEPT !.pc = "rollback"]
                /\ thread'[r] = [thread[r] EXCEPT !.started = thread[r].started + 1]
                /\ thread[r] \in Threads /\ thread[r].pc = "ingest"
            BY Zenon, <2>1, <5>1 DEF GiveUp, Goto, Becomes, Typed, Distribute
          <6>2. thread'[r].pc = "rollback"
            BY Zenon, <6>1 DEF Threads
          <6>3. thread'[r].pc = "ingest"
            BY Zenon, <6>1 DEF Threads
          <6>. QED  BY Zenon, <6>2, <6>3
        <5>. QED  BY Zenon, <2>1, <5>1 DEF Distribute
      <4>. QED  BY Zenon, <2>1, <4>2, HandEffect
    <3>2. /\ thread'[r].started \in DOMAIN Files[r] /\ thread'[r].started \in Nat
      <4>1. thread[r] \in Threads
        BY Zenon DEF Typed
      <4>2. thread[r].started \in Nat
        BY Zenon, <4>1 DEF Threads
      <4>3. thread'[r].started = thread[r].started + 1 /\ thread'[r].started <= Len(Files[r])
        BY Zenon, <3>1 DEF Hands
      <4>4. DOMAIN Files[r] = 1..Len(Files[r])
        BY Zenon, FileFacts
      <4>. QED  BY SMTT(60), <4>2, <4>3, <4>4
    <3>. DEFINE e == <<r, thread'[r].started>>
    <3>3. e \in Dists /\ e[1] = r /\ slot' = [slot EXCEPT ![e] = "pending"]
      BY ZenonT(60), <3>1, <3>2, DistFacts
    <3>. HIDE DEF e
    <3>4. slot'[e] = "pending" /\ \A d \in Dists \ {e} : slot'[d] = slot[d]
      BY Zenon, <1>2, <3>3
    <3>5. SlotMove(e)
      BY Zenon, <3>1, <3>3, <3>4 DEF SlotMove
    <3>. QED  BY Zenon, <3>4, <3>5 DEF SlotMove
  <2>. QED
    BY ZenonT(60), <1>1, <1>3, <2>1 DEF SendStep, Admit, Probe, Claim, StreamFile, StreamFails, Mismatch,
       Rollback, Record, Register, progress
<1>4. ASSUME NEW e \in Dists, Observe(e) PROVE \A d \in Dists : SlotMove(d)
  BY Zenon, <1>2, <1>4 DEF Observe, SlotMove
<1>5. CASE CancelApplies
  <2>. DEFINE g == runtimes[cancel.bundle]
              e == <<g, cancel.dist[2]>>
  <2>1. \/ slot' = slot
        \/ /\ g # NoOne /\ e \in DistsOf(g) /\ slot[e] \notin {"completed", "cancelled"}
           /\ slot' = [slot EXCEPT ![e] = "cancelled"]
    BY Zenon, <1>5 DEF CancelApplies
  <2>2. ASSUME g # NoOne, e \in DistsOf(g), slot[e] \notin {"completed", "cancelled"},
               slot' = [slot EXCEPT ![e] = "cancelled"]
        PROVE  \A d \in Dists : SlotMove(d)
    <3>1. cancel.bundle \in Ids
      BY Zenon, <1>5 DEF Typed, CancelApplies
    <3>2. g \in Requests /\ thread[g].reply = g
      BY ZenonT(60), <2>2, <3>1 DEF Typed, Runs
    <3>3. e \in Dists /\ e[1] = g
      BY Zenon, <2>2, <3>2, DistFacts
    <3>. HIDE DEF e, g
    <3>. QED  BY ZenonT(60), <1>2, <2>2, <3>2, <3>3 DEF SlotMove
  <2>. QED  BY ZenonT(60), <1>1, <2>1, <2>2
<1>. QED
  BY ZenonT(60), <1>1, <1>3, <1>4, <1>5 DEF Next, WatcherEnds, CancelLookup, EvictExpired, progress, vars

\* A distribution exists when all files were ingested, or the request gave up since.
Slots ==
  \A d \in Dists : slot[d] # "none" =>
    \/ thread[d[1]].pc = "ingest" /\ Len(thread[d[1]].created) = Len(Files[d[1]])
    \/ thread[d[1]].pc \in {"rollback", "failed"}
    \/ Recorded(d[1])

LEMMA FullStays ==
  ASSUME Typed, [Next]_vars, NEW q \in Requests, thread[q].pc = "ingest",
         Len(thread[q].created) = Len(Files[q])
  PROVE  \/ thread'[q].pc = "ingest" /\ thread'[q].created = thread[q].created
         \/ thread'[q].pc = "rollback" \/ StillRecorded(q)
<1>1. Takes(q)
  BY Zenon, NextTakes
<1>2. ~(Len(thread[q].created) < Len(Files[q]))
  <2>1. thread[q] \in Threads
    BY Zenon DEF Typed
  <2>2. thread[q].created \in Seq(Contents) /\ Files[q] \in Seq(Contents)
    BY Zenon, <2>1, FileFacts DEF Threads
  <2>. QED  BY <2>2
<1>. QED
  BY Zenon, <1>1, <1>2 DEF Takes, Stays, Starts, Copies, Hands, Undoes, Moves, Kept, StillRecorded

LEMMA SlotsStep ==
  ASSUME Typed, Replies, Runs, Slots, [Next]_vars
  PROVE  Slots'
<1>. SUFFICES ASSUME NEW d \in Dists, slot'[d] # "none"
              PROVE  \/ thread'[d[1]].pc = "ingest" /\ Len(thread'[d[1]].created) = Len(Files[d[1]])
                     \/ thread'[d[1]].pc \in {"rollback", "failed"}
                     \/ StillRecorded(d[1])
  BY Zenon DEF Slots, Recorded, StillRecorded
<1>1. PICK q \in Requests : q = d[1] /\ Takes(q) /\ q # NoOne
  BY Zenon, NoOneFacts, NextTakes
<1>2. CASE thread[q].pc = "ingest" /\ Len(thread[q].created) = Len(Files[q])
  BY ZenonT(60), <1>1, <1>2, FullStays
<1>3. CASE thread[q].pc \in {"rollback", "failed"}
  BY Zenon, <1>1, <1>3 DEF Takes, Stays, Starts, Copies, Hands, Undoes, Moves
<1>4. CASE Recorded(q)
  BY Zenon, <1>1, <1>4, RecordedStays
<1>5. CASE slot[d] = "none"
  <2>1. SlotMove(d) /\ slot[d] # "pending" /\ slot'[d] # slot[d]
    <3>1. SlotMove(d) /\ slot'[d] # slot[d]
      BY Zenon, <1>5, SlotSteps
    <3>. QED  BY Zenon, <1>5, <3>1
  <2>2. CASE Hands(q)
    BY Zenon, <1>1, <2>2 DEF Hands, Moves
  <2>. QED  BY ZenonT(60), <1>1, <1>4, <2>1, <2>2 DEF SlotMove, Recorded
<1>. QED  BY ZenonT(60), <1>1, <1>2, <1>3, <1>4, <1>5 DEF Slots

-----------------------------------------------------------------------------
(***************************************************************************)
(* The blobs.  Whoever is still to roll back knows of each blob that       *)
(* another request has a use for.                                          *)
(***************************************************************************)
Needs(r, t, c) ==
  \/ t.pc = "ingest" /\ \E i \in 1..Len(t.created) : Files[r][i] = c
  \/ (t.pc = "register" \/ t.reply = r) /\ \E i \in DOMAIN Files[r] : Files[r][i] = c
BlobInv ==
  \A r \in Requests, c \in Contents : Needs(r, thread[r], c) =>
    /\ c \in blobs \cup excused
    /\ \A q \in Requests \ {r} :
         thread[q].pc \in Work => c \in thread[q].pre \cup thread[q].also \cup excused

\* A step that ingests no file.
Quiet ==
  /\ \A q \in Requests :
       /\ thread'[q].pc = "ingest" => thread'[q].created = thread[q].created
       /\ thread'[q].pc \in Work =>
            \/ /\ thread[q].pc \in Work /\ thread'[q].pre = thread[q].pre
               /\ thread'[q].also = thread[q].also
            \/ thread'[q].pre = blobs /\ UNCHANGED <<blobs, excused>>
  /\ excused \subseteq excused'
  /\ \A c \in blobs : \/ c \in blobs' \cup excused'
                      \/ \E q \in Requests : /\ thread[q].pc = "rollback"
                                             /\ c \notin thread[q].pre \cup thread[q].also

LEMMA SameQuiet ==
  ASSUME NEW q, thread'[q] = thread[q]
  PROVE  /\ thread'[q].pc = "ingest" => thread'[q].created = thread[q].created
         /\ thread'[q].pc \in Work => /\ thread[q].pc \in Work /\ thread'[q].pre = thread[q].pre
                                      /\ thread'[q].also = thread[q].also
BY Zenon

LEMMA BlobSteps ==
  ASSUME Typed, [Next]_vars
  PROVE  (\E r \in Requests : StreamFile(r)) \/ Quiet
<1>0. "probe" \in Pcs /\ "claim" \in Pcs /\ "rollback" \in Pcs /\ "refused" \in Pcs
      /\ "done" \in Pcs /\ "register" \in Pcs
  BY Zenon DEF Pcs
<1>1. ASSUME UNCHANGED <<thread, blobs, excused>> PROVE Quiet
  BY Zenon, <1>1 DEF Quiet
<1>2. ASSUME NEW r \in Requests, \A q \in Requests \ {r} : thread'[q] = thread[q],
             UNCHANGED <<blobs, excused>>,
             \/ thread'[r].pc \notin Work
             \/ Starts(r)
             \/ /\ thread[r].pc \in Work /\ thread'[r].pre = thread[r].pre
                /\ thread'[r].also = thread[r].also /\ thread'[r].created = thread[r].created
      PROVE  Quiet
  <2>1. "ingest" \in Work
    BY Zenon DEF Work
  <2>2. ASSUME NEW q \in Requests
        PROVE  /\ thread'[q].pc = "ingest" => thread'[q].created = thread[q].created
               /\ thread'[q].pc \in Work =>
                    \/ /\ thread[q].pc \in Work /\ thread'[q].pre = thread[q].pre
                       /\ thread'[q].also = thread[q].also
                    \/ thread'[q].pre = blobs
    <3>1. CASE q = r
      BY ZenonT(60), <1>2, <2>1, <3>1 DEF Starts
    <3>2. CASE q # r
      BY ZenonT(60), <1>2, <3>2, SameQuiet
    <3>. QED  BY Zenon, <3>1, <3>2
  <2>. QED  BY Zenon, <1>2, <2>2 DEF Quiet
<1>3. ASSUME NEW r \in Requests, \A q \in Requests \ {r} : thread'[q] = thread[q],
             thread[r].pc \in Work, thread'[r].pc # "ingest",
             thread'[r].pc \in Work => thread'[r].pre = thread[r].pre /\ thread'[r].also = thread[r].also,
             excused \subseteq excused',
             \A c \in blobs : \/ c \in blobs' \cup excused'
                              \/ thread[r].pc = "rollback" /\ c \notin thread[r].pre \cup thread[r].also
      PROVE  Quiet
  <2>1. ASSUME NEW q \in Requests
        PROVE  /\ thread'[q].pc = "ingest" => thread'[q].created = thread[q].created
               /\ thread'[q].pc \in Work =>
                    /\ thread[q].pc \in Work /\ thread'[q].pre = thread[q].pre
                    /\ thread'[q].also = thread[q].also
    <3>1. CASE q = r
      BY Zenon, <1>3, <3>1
    <3>2. CASE q # r
      BY ZenonT(60), <1>3, <3>2, SameQuiet
    <3>. QED  BY Zenon, <3>1, <3>2
  <2>. QED  BY Zenon, <1>3, <2>1 DEF Quiet
<1>4. ASSUME NEW r \in Requests, SendStep(r), ~StreamFile(r) PROVE Quiet
  <2>0. "ingest" \in Work /\ "mismatch" \in Work /\ "rollback" \in Work /\ "rollback" # "ingest"
        /\ "failed" \notin Work /\ "probe" \notin Work /\ "claim" \notin Work /\ "refused" \notin Work
        /\ "done" \notin Work /\ "register" \notin Work /\ "failed" # "ingest"
    BY Zenon DEF Work
  <2>a. ASSUME NEW p \in Pcs \ Work, Goto(r, p), UNCHANGED <<blobs, excused>> PROVE Quiet
    BY ZenonT(60), <1>2, <2>a, GotoEffect
  <2>b. ASSUME NEW p \in Pcs \ Work, NEW x \in Requests \cup {NoOne}, Return(r, p, x),
               UNCHANGED <<blobs, excused>>
        PROVE  Quiet
    BY ZenonT(60), <1>2, <2>b, ReturnEffect
  <2>c. ASSUME StartIngest(r), bundles[id[r]] = NoOne \/ status[id[r]] \in Reusable,
               thread[r].pc \in {"probe", "claim"}, UNCHANGED <<blobs, excused>>
        PROVE  Quiet
    BY Zenon, <1>2, <2>c, StartEffect
  <2>1. CASE Admit(r)
    <3>1. Goto(r, "probe") /\ UNCHANGED <<blobs, excused>>
      BY Zenon, <2>1 DEF Admit, stored, history
    <3>. QED  BY ZenonT(60), <1>0, <2>0, <2>a, <3>1
  <2>2. CASE Probe(r)
    <3>1. /\ thread[r].pc \in {"probe", "claim"} /\ UNCHANGED <<blobs, excused>>
          /\ \/ StartIngest(r) /\ bundles[id[r]] = NoOne
             \/ Return(r, "refused", NoOne) \/ Goto(r, "claim")
      BY Zenon, <2>2 DEF Probe, stored, history
    <3>. QED  BY ZenonT(60), <1>0, <2>0, <2>a, <2>b, <2>c, <3>1
  <2>3. CASE Claim(r)
    <3>1. /\ thread[r].pc \in {"probe", "claim"} /\ UNCHANGED <<blobs, excused>>
          /\ \/ StartIngest(r) /\ (bundles[id[r]] = NoOne \/ status[id[r]] \in Reusable)
             \/ Return(r, "refused", NoOne) \/ Return(r, "done", bundles[id[r]])
      BY Zenon, <2>3 DEF Claim, Claimable, stored, history
    <3>2. bundles[id[r]] \in Requests \cup {NoOne}
      BY Zenon DEF Typed
    <3>. QED  BY ZenonT(60), <1>0, <2>0, <2>b, <2>c, <3>1, <3>2
  <2>4. CASE Mismatch(r)
    <3>1. /\ thread[r].pc = "mismatch" /\ Goto(r, "rollback")
          /\ blobs' = blobs \ {thread[r].got} /\ excused' = excused \cup {thread[r].got}
      BY Zenon, <2>4 DEF Mismatch, GiveUp
    <3>2. excused \subseteq excused' /\ \A c \in blobs : c \in blobs' \cup excused'
      BY Zenon, <3>1
    <3>3. /\ thread'[r].pc = "rollback" /\ thread'[r].pre = thread[r].pre /\ thread'[r].also = thread[r].also
          /\ \A q \in Requests \ {r} : thread'[q] = thread[q]
      BY ZenonT(60), <1>0, <3>1, GotoEffect
    <3>. QED  BY ZenonT(60), <1>3, <2>0, <3>1, <3>2, <3>3
  <2>5. CASE GiveUp(r) /\ thread[r].pc = "ingest" /\ UNCHANGED <<blobs, excused>>
    <3>1. /\ thread'[r].pc = "rollback" /\ thread'[r].pre = thread[r].pre /\ thread'[r].also = thread[r].also
          /\ \A q \in Requests \ {r} : thread'[q] = thread[q]
      BY ZenonT(60), <1>0, <2>5, GotoEffect DEF GiveUp
    <3>. QED  BY ZenonT(60), <1>3, <2>0, <2>5, <3>1
  <2>6. CASE StreamFails(r)
    BY ZenonT(60), <2>5, <2>6 DEF StreamFails, stored, history
  <2>7. CASE Distribute(r)
    <3>1. UNCHANGED <<blobs, excused>> /\ thread[r].pc = "ingest"
      BY Zenon, <2>7 DEF Distribute, stored, history
    <3>2. CASE ~GiveUp(r)
      BY ZenonT(60), <1>2, <2>0, <2>7, <3>1, <3>2, HandEffect DEF Hands
    <3>. QED  BY ZenonT(60), <2>5, <3>1, <3>2
  <2>8. CASE Rollback(r)
    <3>0. thread[r].pc = "rollback"
      BY Zenon, <2>8 DEF Rollback
    <3>1. CASE thread[r].undone = Len(thread[r].created)
      <4>1. Fail(r) /\ UNCHANGED <<blobs, excused>>
        BY ZenonT(60), <2>8, <3>1 DEF Rollback
      <4>. QED  BY ZenonT(60), <1>2, <2>0, <4>1, FailEffect
    <3>2. CASE thread[r].undone # Len(thread[r].created)
      <4>. DEFINE c == thread[r].created[thread[r].undone + 1]
      <4>1. \/ UNCHANGED <<blobs, excused>>
            \/ /\ c \notin thread[r].pre /\ blobs' = blobs \ {c}
               /\ excused' = excused \cup ({c} \cap thread[r].also)
        BY ZenonT(60), <2>8, <3>2 DEF Rollback, MayDelete
      <4>. HIDE DEF c
      <4>2. /\ excused \subseteq excused'
            /\ \A x \in blobs : \/ x \in blobs' \cup excused'
                                \/ thread[r].pc = "rollback" /\ x \notin thread[r].pre \cup thread[r].also
        BY Zenon, <3>0, <4>1
      <4>3. /\ thread'[r].pc = "rollback" /\ thread'[r].pre = thread[r].pre
            /\ thread'[r].also = thread[r].also /\ \A q \in Requests \ {r} : thread'[q] = thread[q]
        BY ZenonT(60), <2>8, <3>2, UndoEffect DEF Undoes, Moves
      <4>. QED  BY ZenonT(60), <1>3, <2>0, <3>0, <4>2, <4>3
    <3>. QED  BY ZenonT(60), <3>1, <3>2
  <2>9. CASE Record(r) \/ Register(r)
    <3>1. /\ UNCHANGED <<blobs, excused>>
          /\ Return(r, "register", NoOne) \/ Return(r, "done", r)
      BY Zenon, <2>9 DEF Record, Register, stored, history
    <3>2. r \in Requests \cup {NoOne} /\ NoOne \in Requests \cup {NoOne}
      BY Zenon
    <3>. QED  BY ZenonT(60), <1>0, <2>0, <2>b, <3>1, <3>2
  <2>. QED
    BY ZenonT(60), <1>4, <2>1, <2>2, <2>3, <2>4, <2>6, <2>7, <2>8, <2>9 DEF SendStep
<1>. QED
  BY ZenonT(60), <1>1, <1>4 DEF Next, Observe, WatcherEnds, CancelLookup, EvictExpired, CancelApplies,
     stored, history, vars

\* A request needs what it needed before, or the file it has just ingested.
LEMMA NeedsStep ==
  ASSUME Typed, Replies, RecordInv, Copied, [Next]_vars, NEW r \in Requests, NEW c,
         Needs(r, thread'[r], c)
  PROVE  \/ Needs(r, thread[r], c)
         \/ Copies(r) /\ c = NextFile(r)
<1>0. Takes(r) /\ thread[r] \in Threads /\ CopiedOf(r, thread[r]) /\ r # NoOne
  BY ZenonT(60), NextTakes, NoOneFacts DEF Typed, Copied
<1>1. thread[r].created \in Seq(Contents) /\ thread[r].started \in Nat
  BY Zenon, <1>0 DEF Threads
<1>2. Files[r] \in Seq(Contents) /\ Len(Files[r]) \in Nat \ {0} /\ DOMAIN Files[r] = 1..Len(Files[r])
  BY Zenon, FileFacts
<1>3. CASE thread'[r].reply = r
  <2>1. CASE thread[r].reply = r
    BY ZenonT(60), <1>3, <2>1, <1>0, RecordedStays DEF Needs, Replies
  <2>2. CASE thread[r].reply # r
    <3>1. thread[r].pc = "register" /\ thread'[r].pc = "done"
      BY ZenonT(60), <1>3, <2>2, OwnReplyHow, RegisterMoves
    <3>. QED  BY Zenon, <3>1 DEF Needs
  <2>. QED  BY Zenon, <2>1, <2>2
<1>4. CASE thread'[r].pc = "register"
  <2>1. CASE thread[r].pc = "register"
    BY Zenon, <1>4, <2>1 DEF Needs
  <2>2. CASE thread[r].pc = "ingest" /\ thread[r].started = Len(Files[r])
    <3>1. Len(thread[r].created) = Len(Files[r])
      BY SMTT(60), <1>0, <1>1, <1>2, <2>2 DEF CopiedOf
    <3>2. \E i \in DOMAIN Files[r] : Files[r][i] = c
      <4>1. "register" # "ingest"
        BY Zenon
      <4>. QED  BY ZenonT(60), <1>4, <4>1 DEF Needs
    <3>. QED  BY ZenonT(60), <1>2, <2>2, <3>1, <3>2 DEF Needs
  <2>. QED  BY ZenonT(60), <1>0, <1>4, <2>1, <2>2, TakesFrom DEF Stays
<1>5. CASE thread'[r].pc = "ingest" /\ thread'[r].reply # r
  <2>0. \E i \in 1..Len(thread'[r].created) : Files[r][i] = c
    <3>1. "register" # "ingest"
      OBVIOUS
    <3>. QED  BY Zenon, <1>5, <3>1 DEF Needs
  <2>1. CASE thread'[r].created = thread[r].created /\ thread[r].pc = "ingest"
    BY Zenon, <2>0, <2>1 DEF Needs
  <2>2. CASE Copies(r)
    <3>1. /\ thread'[r].created = Append(thread[r].created, NextFile(r)) /\ thread[r].pc = "ingest"
      BY Zenon, <2>2 DEF Copies, Moves
    <3>2. Len(thread'[r].created) = Len(thread[r].created) + 1
      BY SMTT(60), <1>1, <3>1
    <3>3. PICK i \in 1..Len(thread'[r].created) : Files[r][i] = c
      BY Zenon, <2>0
    <3>4. i \in 1..Len(thread[r].created) \/ i = Len(thread[r].created) + 1
      BY SMTT(60), <1>1, <3>2, <3>3
    <3>. QED  BY ZenonT(60), <2>2, <3>1, <3>3, <3>4 DEF Needs, NextFile
  <2>3. CASE Starts(r)
    <3>1. thread'[r].created = thread[r].created /\ thread[r].pc \in Early
      BY Zenon, <2>3 DEF Starts, Moves, Early
    <3>2. thread'[r].created = <<>>
      BY ZenonT(60), <1>0, <3>1 DEF CopiedOf
    <3>3. 1..Len(<<>>) = {}
      OBVIOUS
    <3>. QED  BY ZenonT(60), <2>0, <3>2, <3>3
  <2>. QED
    BY ZenonT(60), <1>0, <1>5, <2>1, <2>2, <2>3 DEF Takes, Stays, Kept, Hands, Undoes, Moves
<1>. QED  BY ZenonT(60), <1>3, <1>4, <1>5 DEF Needs

LEMMA NeedsNoRollback ==
  ASSUME Replies, NEW r \in Requests, NEW c, Needs(r, thread[r], c)
  PROVE  thread[r].pc # "rollback"
<1>1. r # NoOne /\ "rollback" # "ingest" /\ "rollback" # "register" /\ "rollback" # "done"
  BY Zenon, NoOneFacts
<1>. QED  BY Zenon, <1>1 DEF Needs, Replies

LEMMA BlobStep ==
  ASSUME Typed, Replies, RecordInv, Copied, BlobInv, [Next]_vars
  PROVE  BlobInv'
<1>. SUFFICES ASSUME NEW r \in Requests, NEW c \in Contents, Needs(r, thread'[r], c)
              PROVE  /\ c \in blobs' \cup excused'
                     /\ \A q \in Requests \ {r} : thread'[q].pc \in Work =>
                          c \in thread'[q].pre \cup thread'[q].also \cup excused'
  BY Zenon DEF BlobInv, Needs
<1>1. ASSUME NEW p \in Requests, StreamFile(p)
      PROVE  /\ c \in blobs' \cup excused'
             /\ \A q \in Requests \ {r} : thread'[q].pc \in Work =>
                  c \in thread'[q].pre \cup thread'[q].also \cup excused'
  <2>0. excused' = excused
    BY Zenon, <1>1 DEF StreamFile, history
  <2>1. PICK x \in Contents :
           /\ blobs' = blobs \cup {x} /\ thread' \in [Requests -> Threads]
           /\ \/ Copies(p) /\ x = NextFile(p)
              \/ Kept(p) /\ Moves(p, {"ingest"}, "mismatch") /\ Len(thread[p].created) < Len(Files[p])
           /\ thread'[p].pre = thread[p].pre /\ thread'[p].also = thread[p].also
           /\ \A q \in Requests \ {p} :
                /\ Stays(q) /\ thread'[q].pre = thread[q].pre
                /\ thread'[q].also = IF thread[q].pc \in Work THEN thread[q].also \cup {x}
                                                             ELSE thread[q].also
    BY Zenon, <1>1, StreamEffect
  <2>2. \A q \in Requests : /\ thread[q].pre \subseteq thread'[q].pre
                            /\ thread[q].also \subseteq thread'[q].also
                            /\ thread'[q].pc \in Work => thread[q].pc \in Work
    <3>1. thread[p].pc \in Work
      BY Zenon, <1>1 DEF StreamFile, Work
    <3>2. ASSUME NEW q \in Requests \ {p}
          PROVE  /\ thread[q].pre \subseteq thread'[q].pre /\ thread[q].also \subseteq thread'[q].also
                 /\ thread'[q].pc \in Work => thread[q].pc \in Work
      BY ZenonT(60), <2>1, <3>2 DEF Stays
    <3>. QED  BY ZenonT(60), <2>1, <3>1, <3>2
  <2>3. CASE Needs(r, thread[r], c)
    BY ZenonT(60), <2>0, <2>1, <2>2, <2>3 DEF BlobInv
  <2>4. CASE Copies(r) /\ c = NextFile(r)
    <3>1. p = r
      <4>1. ASSUME p # r PROVE FALSE
        <5>1. thread'[r].created = thread[r].created
          BY ZenonT(60), <2>1, <4>1 DEF Stays, Kept
        <5>2. thread'[r].created = Append(thread[r].created, c) /\ thread[r] \in Threads
          BY ZenonT(60), <2>4 DEF Copies, Typed
        <5>3. thread[r].created \in Seq(Contents)
          BY Zenon, <5>2 DEF Threads
        <5>4. Len(thread'[r].created) = Len(thread[r].created) + 1 /\ Len(thread[r].created) \in Nat
          BY SMTT(60), <5>2, <5>3
        <5>. QED  BY SMTT(60), <5>1, <5>4
      <4>. QED  BY Zenon, <4>1
    <3>2. x = c
      <4>1. thread'[r].pc = "ingest" /\ "ingest" # "mismatch"
        BY Zenon, <2>4 DEF Copies, Moves
      <4>. QED  BY ZenonT(60), <2>1, <2>4, <3>1, <4>1 DEF Moves
    <3>3. ASSUME NEW q \in Requests \ {r}, thread'[q].pc \in Work PROVE c \in thread'[q].also
      <4>1. thread'[q].also = thread[q].also \cup {c}
        BY ZenonT(60), <2>1, <2>2, <3>1, <3>2, <3>3
      <4>. QED  BY Zenon, <4>1
    <3>. QED  BY ZenonT(60), <2>1, <3>2, <3>3
  <2>. QED  BY ZenonT(60), <2>3, <2>4, NeedsStep
<1>2. CASE Quiet
  <2>1. Needs(r, thread[r], c)
    <3>1. CASE Copies(r) /\ c = NextFile(r)
      <4>0. thread'[r].created = thread[r].created
        BY ZenonT(60), <1>2, <3>1 DEF Copies, Moves, Quiet
      <4>1. thread'[r].created = Append(thread[r].created, c) /\ thread[r] \in Threads
        BY ZenonT(60), <3>1 DEF Copies, Typed
      <4>2. thread[r].created \in Seq(Contents)
        BY Zenon, <4>1 DEF Threads
      <4>3. Len(thread'[r].created) = Len(thread[r].created) + 1 /\ Len(thread[r].created) \in Nat
        BY SMTT(60), <4>1, <4>2
      <4>. QED  BY SMTT(60), <4>0, <4>3
    <3>. QED  BY ZenonT(60), <3>1, NeedsStep
  <2>2. /\ c \in blobs \cup excused
        /\ \A q \in Requests \ {r} :
             thread[q].pc \in Work => c \in thread[q].pre \cup thread[q].also \cup excused
    BY Zenon, <2>1 DEF BlobInv
  <2>3. c \in blobs' \cup excused'
    <3>1. CASE c \in excused
      BY Zenon, <1>2, <3>1 DEF Quiet
    <3>2. ASSUME NEW q \in Requests, thread[q].pc = "rollback", c \notin thread[q].pre \cup thread[q].also
          PROVE  c \in excused
      <4>1. q # r /\ "rollback" \in Work
        BY ZenonT(60), <2>1, <3>2, NeedsNoRollback DEF Work
      <4>. QED  BY ZenonT(60), <2>2, <3>2, <4>1
    <3>. QED  BY ZenonT(60), <1>2, <2>2, <3>1, <3>2 DEF Quiet
  <2>4. ASSUME NEW q \in Requests \ {r}, thread'[q].pc \in Work
        PROVE  c \in thread'[q].pre \cup thread'[q].also \cup excused'
    <3>1. CASE thread[q].pc \in Work /\ thread'[q].pre = thread[q].pre /\ thread'[q].also = thread[q].also
      BY ZenonT(60), <1>2, <2>2, <3>1 DEF Quiet
    <3>2. CASE thread'[q].pre = blobs /\ UNCHANGED <<blobs, excused>>
      BY ZenonT(60), <2>2, <3>2
    <3>. QED  BY ZenonT(60), <1>2, <2>4, <3>1, <3>2 DEF Quiet
  <2>. QED  BY Zenon, <2>3, <2>4
<1>. QED  BY ZenonT(60), <1>1, <1>2, BlobSteps
-----------------------------------------------------------------------------
(***************************************************************************)
(* The status of a bundle.                                                 *)
(***************************************************************************)
LEMMA SlotStays ==
  ASSUME Typed, Replies, Runs, [Next]_vars
  PROVE  /\ \A d \in Dists : slot'[d] = "none" => slot[d] = "none"
         /\ \A d \in Dists : Recorded(d[1]) =>
              /\ slot[d] \in Terminal => slot'[d] \in Terminal
              /\ slot[d] \in Reusable => slot'[d] \in Reusable
<1>. SUFFICES ASSUME NEW d \in Dists
              PROVE  /\ slot'[d] = "none" => slot[d] = "none"
                     /\ Recorded(d[1]) => /\ slot[d] \in Terminal => slot'[d] \in Terminal
                                          /\ slot[d] \in Reusable => slot'[d] \in Reusable
  BY Zenon
<1>1. SlotMove(d)
  BY ZenonT(60), SlotSteps
<1>2. Recorded(d[1]) => ~Hands(d[1])
  <2>1. d[1] \in Requests
    BY Zenon, NoOneFacts
  <2>2. Recorded(d[1]) => thread[d[1]].pc \in {"register", "done"}
    BY ZenonT(60), <2>1, RecordedStays
  <2>. QED  BY Zenon, <2>2 DEF Hands, Moves
<1>. QED  BY Zenon, <1>1, <1>2 DEF SlotMove, Terminal, Reusable

\* accepted is forever, and nothing but an accepted cancellation leads to it.
LEMMA AcceptedStays ==
  ASSUME [Next]_vars, cancel.pc = "accepted"
  PROVE  cancel'.pc = "accepted"
<1>1. ~CancelApplies /\ \A d \in Dists : ~CancelLookup(d)
  BY Zenon DEF CancelApplies, CancelLookup
<1>. QED
  BY ZenonT(60), <1>1 DEF Next, SendStep, Admit, Probe, Claim, StreamFile, StreamFails, Mismatch, Distribute,
     Rollback, Record, Register, Observe, WatcherEnds, EvictExpired, vars

LEMMA StatusStep ==
  ASSUME Typed, Replies, RecordInv, Runs, StatusIsOwn, [Next]_vars
  PROVE  StatusIsOwn'
<1>. DEFINE AloneNext(r) == \A q \in Requests \ {r} : id'[q] = id'[r] => \A d \in DistsOf(q) : slot'[d] = "none"
<1>. SUFFICES ASSUME NEW b \in Ids, bundles'[b] # NoOne, status'[b] \in Terminal, AloneNext(bundles'[b])
              PROVE  (\A d \in DistsOf(bundles'[b]) : slot'[d] \in Terminal) \/ cancel'.pc = "accepted"
  BY Zenon DEF StatusIsOwn, Alone
<1>0. id' = id
  BY Zenon, IdStays
<1>1. PICK r \in Requests : bundles[b] = r /\ bundles'[b] = r
  <2>1. "pending" \notin Terminal
    BY Zenon DEF Terminal
  <2>2. bundles'[b] = bundles[b]
    BY ZenonT(60), <2>1, RecordSteps
  <2>. QED  BY Zenon, <2>2 DEF Typed
<1>2. r # NoOne /\ Recorded(r) /\ id[r] = b /\ DistsOf(r) \subseteq Dists /\ \A d \in DistsOf(r) : d[1] = r
  <2>1. r # NoOne /\ DistsOf(r) \subseteq Dists /\ \A d \in DistsOf(r) : d[1] = r
    BY ZenonT(60), NoOneFacts, DistFacts
  <2>. QED  BY Zenon, <1>1, <2>1 DEF RecordInv
<1>3. Alone(r)
  <2>. SUFFICES ASSUME NEW q \in Requests \ {r}, id[q] = id[r], NEW d \in DistsOf(q) PROVE slot[d] = "none"
    BY Zenon DEF Alone
  <2>1. slot'[d] = "none" /\ d \in Dists
    BY ZenonT(60), <1>0, <1>1, DistFacts
  <2>. QED  BY Zenon, <2>1, SlotStays
<1>4. ASSUME AllEnded(r) PROVE \A d \in DistsOf(r) : slot'[d] \in Terminal
  BY ZenonT(60), <1>2, <1>4, SlotStays DEF AllEnded
<1>5. CASE status[b] \in Terminal
  BY ZenonT(60), <1>1, <1>2, <1>3, <1>4, <1>5, AcceptedStays DEF StatusIsOwn, AllEnded
<1>6. ASSUME NEW d \in Dists, ByWatcher(d), status[b] \notin Terminal PROVE AllEnded(r)
  <2>1. /\ WatcherEnds(d) /\ AllEnded(d[1]) /\ status' = [status EXCEPT ![id[d[1]]] = Verdict(slot, d[1])]
        /\ d[1] \in Requests /\ d \in DistsOf(d[1]) /\ slot[d] \in Terminal
    BY Zenon, <1>6, DistFacts DEF ByWatcher, Ends, WatcherEnds
  <2>2. id[d[1]] = b
    <3>1. ASSUME id[d[1]] # b PROVE status'[b] = status[b]
      BY ZenonT(60), <2>1, <3>1 DEF Typed
    <3>. QED  BY Zenon, <1>6, <3>1
  <2>3. slot[d] # "none"
    BY Zenon, <2>1 DEF Terminal
  <2>4. d[1] = r
    BY ZenonT(60), <1>2, <1>3, <2>1, <2>2, <2>3 DEF Alone
  <2>. QED  BY ZenonT(60), <2>1, <2>4
<1>7. ASSUME status' # status, status[b] \notin Terminal
      PROVE  (\E d \in Dists : ByWatcher(d)) \/ (\E s \in Terminal : ByCancel(s))
  <2>1. CASE \E q \in Requests : ByClaim(q)
    <3>1. PICK B : status' = [x \in Ids |-> IF x \in B THEN "pending" ELSE status[x]]
      BY Zenon, <2>1 DEF ByClaim, Drops, Drop
    <3>2. status'[b] = "pending" \/ status'[b] = status[b]
      BY ZenonT(60), <3>1
    <3>. QED  BY ZenonT(60), <1>7, <3>2 DEF Terminal
  <2>2. CASE \E B \in SUBSET Ids : ByEvictor(B)
    <3>1. PICK B : status' = [x \in Ids |-> IF x \in B THEN "pending" ELSE status[x]]
      BY ZenonT(60), <2>2 DEF ByEvictor, Drops, Drop
    <3>2. status'[b] = "pending" \/ status'[b] = status[b]
      BY Zenon, <3>1
    <3>. QED  BY <1>7, <3>2 DEF Terminal
  <2>3. CASE \E q \in Requests : Record(q)
    <3>0. PICK q \in Requests : \E out : Inserts(q, out)
      BY Zenon, <2>3, InsertEffect
    <3>1. PICK out : Inserts(q, out)
      BY Zenon, <3>0
    <3>2. status'[b] = "pending" \/ status'[b] = status[b]
      BY Zenon, <3>1 DEF Inserts
    <3>. QED  BY Zenon, <1>7, <3>2 DEF Terminal
  <2>. QED  BY ZenonT(60), <1>7, <2>1, <2>2, <2>3, NextRegistry DEF Rests
<1>8. CASE status[b] \notin Terminal
  <2>1. status' # status
    BY Zenon, <1>8
  <2>. QED  BY ZenonT(60), <1>1, <1>4, <1>6, <1>7, <1>8, <2>1 DEF ByCancel
<1>. QED  BY ZenonT(60), <1>5, <1>8

-----------------------------------------------------------------------------
(***************************************************************************)
(* Rule 12.  A request for the same id that has not started yet waits for  *)
(* a bundle q, unless a third request has the id too.                      *)
(***************************************************************************)
Third(q, r) == \E p \in Requests \ {q, r} : id[p] = id[q]
Spoilt(q) == \E d \in DistsOf(q) : slot[d] \in Reusable
Waiting(q, r) == q # r /\ id[q] = id[r] /\ Recorded(q) /\ thread[r].pc \in Early /\ ~Third(q, r)
Kin(q, r) ==
  /\ Waiting(q, r) => bundles[id[q]] = q \/ q \in evicted
  /\ Waiting(q, r) /\ bundles[id[q]] = q /\ status[id[q]] \in Reusable => Spoilt(q)
  /\ q \in thread[r].after =>
       /\ q # r /\ id[q] = id[r] /\ thread[q].reply = q /\ thread[r].pc \notin Early
       /\ q \in evicted \/ Spoilt(q) \/ Third(q, r)
OnceInv == \A q, r \in Requests : Kin(q, r)

LEMMA VerdictSpoilt ==
  ASSUME NEW q, NEW s
  PROVE  Verdict(s, q) \in Reusable <=> \E d \in DistsOf(q) : s[d] \in Reusable
<1>. DEFINE all == {s[d] : d \in DistsOf(q)}
<1>1. Verdict(s, q) = IF "failed" \in all THEN "failed"
                      ELSE IF "cancelled" \in all THEN "cancelled" ELSE "completed"
  BY Zenon DEF Verdict
<1>2. ("failed" \in all \/ "cancelled" \in all) <=> \E d \in DistsOf(q) : s[d] \in Reusable
  BY Zenon DEF Reusable
<1>. HIDE DEF all
<1>3. Verdict(s, q) \in Reusable <=> ("failed" \in all \/ "cancelled" \in all)
  BY Zenon, <1>1 DEF Reusable
<1>. QED  BY ZenonT(60), <1>2, <1>3

LEMMA EvictedGrows == ASSUME Typed, [Next]_vars PROVE evicted \subseteq evicted'
<1>1. ASSUME NEW r \in Requests, Record(r) PROVE evicted \subseteq evicted'
  BY Zenon, <1>1, InsertEffect DEF Inserts
<1>2. ASSUME NEW r \in Requests, ByClaim(r) PROVE evicted' = evicted
  BY Zenon, <1>2 DEF ByClaim, Claim, history
<1>. QED  BY ZenonT(60), <1>1, <1>2, NextRegistry DEF ByWatcher, ByCancel, ByEvictor

\* What a step does to the record of an id that is not that of a claim or a new record.
LEMMA IdSteps ==
  ASSUME Typed, [Next]_vars, NEW b \in Ids,
         \A p \in Requests : id[p] = b => ~ByClaim(p) /\ ~Record(p)
  PROVE  /\ bundles'[b] = bundles[b] \/ bundles[b] \in evicted'
         /\ \/ status'[b] = status[b] \/ status'[b] = "pending"
            \/ \E d \in Dists : ByWatcher(d) /\ id[d[1]] = b /\ status'[b] = Verdict(slot, d[1])
            \/ \E s \in Terminal : ByCancel(s) /\ cancel.bundle = b /\ status'[b] = s
<1>0. status \in [Ids -> {"pending"} \cup Terminal]
  BY Zenon DEF Typed
<1>1. CASE Rests
  BY Zenon, <1>1 DEF Rests
<1>2. ASSUME NEW x, NEW s, Ends(x, s)
      PROVE  bundles' = bundles /\ (IF x = b THEN status'[b] = s ELSE status'[b] = status[b])
  BY ZenonT(60), <1>0, <1>2 DEF Ends
<1>3. ASSUME NEW d \in Dists, ByWatcher(d)
      PROVE  /\ bundles'[b] = bundles[b]
             /\ status'[b] = status[b] \/ (id[d[1]] = b /\ status'[b] = Verdict(slot, d[1]))
  <2>1. Ends(id[d[1]], Verdict(slot, d[1]))
    BY Zenon, <1>3 DEF ByWatcher
  <2>. QED  BY ZenonT(60), <1>2, <2>1
<1>4. ASSUME NEW s \in Terminal, ByCancel(s)
      PROVE  /\ bundles'[b] = bundles[b]
             /\ status'[b] = status[b] \/ (cancel.bundle = b /\ status'[b] = s)
  <2>1. Ends(cancel.bundle, s)
    BY Zenon, <1>4 DEF ByCancel
  <2>. QED  BY ZenonT(60), <1>2, <2>1
<1>5. ASSUME NEW B, Drops(B)
      PROVE  IF b \in B THEN status'[b] = "pending"
             ELSE bundles'[b] = bundles[b] /\ status'[b] = status[b]
  BY Zenon, <1>5 DEF Drops, Drop
<1>6. ASSUME NEW p \in Requests, ByClaim(p)
      PROVE  bundles'[b] = bundles[b] /\ status'[b] = status[b]
  <2>1. id[p] # b /\ Drops({id[p]})
    BY Zenon, <1>6 DEF ByClaim
  <2>2. b \notin {id[p]}
    BY Zenon, <2>1
  <2>. QED  BY ZenonT(60), <1>5, <2>1, <2>2
<1>7. ASSUME NEW B \in SUBSET Ids, ByEvictor(B)
      PROVE  /\ bundles'[b] = bundles[b] \/ bundles[b] \in evicted'
             /\ status'[b] = status[b] \/ status'[b] = "pending"
  BY ZenonT(60), <1>5, <1>7 DEF ByEvictor
<1>8. ASSUME NEW p \in Requests, Record(p)
      PROVE  /\ bundles'[b] = bundles[b] \/ bundles[b] \in evicted'
             /\ status'[b] = status[b] \/ status'[b] = "pending"
  <2>0. id[p] # b
    BY Zenon, <1>8
  <2>1. PICK out : Inserts(p, out)
    BY ZenonT(60), <1>8, InsertEffect
  <2>2. /\ bundles'[b] = IF b = id[p] THEN p ELSE IF b \in out THEN NoOne ELSE bundles[b]
        /\ status'[b] = IF b \in out \cup {id[p]} THEN "pending" ELSE status[b]
        /\ evicted' = evicted \cup {bundles[x] : x \in out}
    BY Zenon, <2>1 DEF Inserts
  <2>. QED  BY ZenonT(60), <2>0, <2>2
<1>. QED  BY ZenonT(60), <1>1, <1>3, <1>4, <1>6, <1>7, <1>8, NextRegistry

LEMMA OnceStep ==
  ASSUME Typed, Replies, RecordInv, Runs, OnceInv, [Next]_vars
  PROVE  OnceInv'
<1>. SUFFICES ASSUME NEW q \in Requests, NEW r \in Requests PROVE Kin(q, r)'
  BY Zenon DEF OnceInv
<1>0. /\ id' = id /\ id[q] \in Ids /\ q # NoOne /\ r # NoOne /\ Kin(q, r)
      /\ Takes(q) /\ Takes(r) /\ evicted \subseteq evicted'
  BY ZenonT(60), IdStays, NoOneFacts, NextTakes, EvictedGrows DEF Typed, OnceInv
<1>1. Third(q, r)' <=> Third(q, r)
  BY Zenon, <1>0 DEF Third
<1>2. Recorded(q) /\ Spoilt(q) => Spoilt(q)'
  <2>1. \A d \in DistsOf(q) : d \in Dists /\ d[1] = q
    BY Zenon, DistFacts
  <2>. QED  BY ZenonT(60), <2>1, SlotStays DEF Spoilt
<1>3. thread'[r].pc \in Early => thread[r].pc \in Early
  BY ZenonT(60), <1>0, TakesFrom
<1>4. "pending" \notin Reusable
  BY Zenon DEF Reusable
<1>5. ASSUME StillRecorded(q), ~Recorded(q)
      PROVE  bundles'[id[q]] = q /\ status'[id[q]] = "pending"
  <2>1. bundles'[id[q]] = q
    <3>1. CASE thread'[q].pc = "register"
      BY ZenonT(60), <1>0, <1>5, <3>1, TakesFrom DEF Stays, Recorded
    <3>2. CASE thread'[q].reply = q
      <4>1. thread[q].reply # q
        BY Zenon, <1>5 DEF Recorded
      <4>2. thread[q].pc = "register"
        BY ZenonT(60), <3>2, <4>1, OwnReplyHow, RegisterMoves
      <4>. QED  BY Zenon, <1>5, <4>2 DEF Recorded
    <3>. QED  BY ZenonT(60), <1>5, <3>1, <3>2 DEF StillRecorded
  <2>2. bundles[id[q]] # q
    BY Zenon, <1>0, <1>5 DEF RecordInv
  <2>. QED  BY ZenonT(60), <1>0, <2>1, <2>2, RecordSteps
<1>6. ASSUME Waiting(q, r), thread'[r].pc \in Early
      PROVE  /\ bundles'[id[q]] = q \/ q \in evicted'
             /\ bundles'[id[q]] = q /\ status'[id[q]] \in Reusable => Spoilt(q)'
  <2>0. /\ Recorded(q) /\ thread[r].pc \in Early /\ \A p \in Requests : id[p] = id[q] => p = q \/ p = r
        /\ thread[q].pc \in {"register", "done"} /\ q # r /\ id[q] = id[r]
    BY ZenonT(60), <1>6, RecordedStays DEF Waiting, Third
  <2>a. "ingest" \notin Early /\ "done" \notin Early /\ "register" \notin Early
        /\ "ingest" \notin {"register", "done"} /\ "claim" \notin {"register", "done"}
    BY Zenon DEF Early
  <2>1. ASSUME NEW p \in Requests, id[p] = id[q] PROVE ~ByClaim(p) /\ ~Record(p)
    <3>1. CASE p = q
      BY ZenonT(60), <2>0, <2>a, <3>1, RecordMoves DEF ByClaim, Claim
    <3>2. CASE p = r
      BY ZenonT(60), <1>6, <2>0, <2>a, <3>2, RecordMoves DEF ByClaim
    <3>. QED  BY ZenonT(60), <2>0, <2>1, <3>1, <3>2
  <2>2. ASSUME NEW p \in Requests, id[p] = id[q], Recorded(p) PROVE p = q
    <3>1. ~Recorded(r)
      BY ZenonT(60), <1>0, <2>0, <2>a DEF Recorded, Replies
    <3>. QED  BY ZenonT(60), <2>0, <2>2, <3>1
  <2>3. bundles'[id[q]] = q \/ q \in evicted'
    <3>1. bundles[id[q]] = q \/ q \in evicted
      BY ZenonT(60), <1>0, <1>6 DEF Kin
    <3>. QED  BY ZenonT(60), <1>0, <2>1, <3>1, IdSteps
  <2>4. ASSUME bundles'[id[q]] = q, status'[id[q]] \in Reusable PROVE Spoilt(q)'
    <3>1. bundles[id[q]] = q
      <4>1. bundles'[id[q]] # NoOne /\ ~Record(q)
        BY Zenon, <1>0, <2>1, <2>4
      <4>. QED  BY ZenonT(60), <1>0, <2>4, <4>1, RecordSteps
    <3>2. CASE status'[id[q]] = status[id[q]]
      BY ZenonT(60), <1>0, <1>2, <1>6, <2>0, <2>4, <3>1, <3>2 DEF Kin
    <3>3. ASSUME NEW d \in Dists, ByWatcher(d), id[d[1]] = id[q], status'[id[q]] = Verdict(slot, d[1])
          PROVE  Spoilt(q)'
      <4>1. watcher[d] = "watch" /\ "watch" # "none" /\ d[1] \in Requests
        BY Zenon, <3>3, NoOneFacts DEF ByWatcher, WatcherEnds
      <4>2. Recorded(d[1])
        BY Zenon, <4>1 DEF Runs, Recorded
      <4>3. d[1] = q
        BY ZenonT(60), <2>2, <3>3, <4>1, <4>2
      <4>4. Spoilt(q)
        BY ZenonT(60), <2>4, <3>3, <4>3, VerdictSpoilt DEF Spoilt
      <4>. QED  BY ZenonT(60), <1>2, <2>0, <4>4
    <3>4. ASSUME NEW s \in Terminal, ByCancel(s), cancel.bundle = id[q], status'[id[q]] = s
          PROVE  Spoilt(q)'
      <4>1. cancel.pc = "calling"
        BY Zenon, <3>4 DEF ByCancel, CancelApplies
      <4>2. CASE runtimes[id[q]] # NoOne
        <5>1. runtimes[id[q]] \in Requests /\ Recorded(runtimes[id[q]]) /\ id[runtimes[id[q]]] = id[q]
          <6>1. runtimes[id[q]] \in Requests
            BY ZenonT(60), <1>0, <4>2 DEF Typed
          <6>2. id[runtimes[id[q]]] = id[q] /\ thread[runtimes[id[q]]].reply = runtimes[id[q]]
            BY ZenonT(60), <1>0, <4>2 DEF Runs
          <6>. QED  BY ZenonT(60), <6>1, <6>2 DEF Recorded
        <5>2. runtimes[id[q]] = q
          BY ZenonT(60), <2>2, <5>1
        <5>3. s = Verdict(slot', q)
          BY ZenonT(60), <3>4, <4>2, <5>2 DEF ByCancel
        <5>. QED  BY ZenonT(60), <2>4, <3>4, <5>3, VerdictSpoilt DEF Spoilt
      <4>3. CASE runtimes[id[q]] = NoOne
        <5>1. PICK e \in Requests : e = cancel.dist[1]
          BY ZenonT(60), <4>1, NoOneFacts DEF Typed
        <5>2. PICK p \in Requests : thread[p].reply = e
          BY ZenonT(60), <4>1, <5>1 DEF Runs
        <5>3. id[e] = id[q] /\ e # NoOne
          BY ZenonT(60), <3>4, <4>1, <5>1, NoOneFacts DEF Runs
        <5>4. thread[p].pc = "done" /\ id[p] = id[e] /\ Recorded(e)
          BY ZenonT(60), <5>2, <5>3 DEF Replies
        <5>5. thread[e].reply # e
          BY ZenonT(60), <4>3, <5>3 DEF Runs
        <5>6. e = q /\ p # r /\ p # e
          BY ZenonT(60), <2>0, <2>2, <2>a, <5>2, <5>3, <5>4, <5>5
        <5>. QED  BY ZenonT(60), <2>0, <5>4, <5>6
      <4>. QED  BY ZenonT(60), <4>2, <4>3
    <3>. QED  BY ZenonT(60), <1>0, <1>4, <2>1, <2>4, <3>2, <3>3, <3>4, IdSteps
  <2>. QED  BY ZenonT(60), <2>3, <2>4
<1>7. ASSUME Waiting(q, r)'
      PROVE  /\ bundles'[id[q]] = q \/ q \in evicted'
             /\ bundles'[id[q]] = q /\ status'[id[q]] \in Reusable => Spoilt(q)'
  <2>1. /\ q # r /\ id[q] = id[r] /\ StillRecorded(q) /\ thread'[r].pc \in Early /\ ~Third(q, r)
    BY ZenonT(60), <1>0, <1>1, <1>7 DEF Waiting, Recorded, StillRecorded
  <2>2. CASE Recorded(q)
    BY ZenonT(60), <1>3, <1>6, <2>1, <2>2 DEF Waiting
  <2>3. CASE ~Recorded(q)
    BY ZenonT(60), <1>4, <1>5, <2>1, <2>3
  <2>. QED  BY ZenonT(60), <2>2, <2>3
<1>8. ASSUME q \in thread'[r].after
      PROVE  /\ q # r /\ id[q] = id[r] /\ thread'[q].reply = q /\ thread'[r].pc \notin Early
             /\ q \in evicted' \/ Spoilt(q)' \/ Third(q, r)
  <2>0. thread[q].reply = q => thread'[q].reply = q /\ Recorded(q)
    BY ZenonT(60), <1>0, RecordedStays DEF Recorded
  <2>1. CASE thread'[r].after = thread[r].after
    BY ZenonT(60), <1>0, <1>2, <1>3, <1>8, <2>0, <2>1 DEF Kin
  <2>2. CASE Starts(r)
    <3>1. /\ q # r /\ id[q] = id[r] /\ thread[q].reply = q
      BY ZenonT(60), <1>8, <2>2 DEF Starts, Answered
    <3>2. thread'[r].pc \notin Early /\ thread[r].pc \in Early
      BY Zenon, <2>2 DEF Starts, Moves, Early
    <3>3. bundles[id[r]] = NoOne \/ status[id[r]] \in Reusable
      BY Zenon, <2>2 DEF Starts
    <3>4. Third(q, r) \/ Waiting(q, r)
      BY ZenonT(60), <2>0, <3>1, <3>2 DEF Waiting
    <3>. QED  BY ZenonT(60), <1>0, <1>2, <2>0, <3>1, <3>2, <3>3, <3>4 DEF Kin
  <2>. QED  BY ZenonT(60), <1>0, <2>1, <2>2, TakesFrom
<1>. QED  BY ZenonT(60), <1>0, <1>1, <1>7, <1>8 DEF Kin
-----------------------------------------------------------------------------
(***************************************************************************)
(* Rule 11.                                                                *)
(***************************************************************************)
Admitted == {"probe", "claim", "ingest", "mismatch", "rollback"}
Of(k) == {b \in NonTerminal : Client[bundles[b]] = k}
Limits ==
  /\ \A q, r \in InFlight : Client[q] = Client[r] => q = r
  /\ QueueWhenFull \/ \A r \in Requests :
       /\ Cardinality(Of(Client[r])) <= MaxConcurrent
       /\ thread[r].pc \in Admitted => Cardinality(Of(Client[r])) < MaxConcurrent

LEMMA OfFinite ==
  ASSUME NEW k PROVE IsFiniteSet(Of(k)) /\ Of(k) \subseteq NonTerminal /\ IsFiniteSet(NonTerminal)
<1>1. Of(k) \subseteq NonTerminal /\ NonTerminal \subseteq Ids
  BY Zenon DEF Of, NonTerminal, Resident
<1>2. IsFiniteSet(Ids)
  BY Zenon, SendingConstants
<1>. QED  BY ZenonT(60), <1>1, <1>2, FS_Subset

LEMMA AdmitMoves ==
  ASSUME Typed, NEW r \in Requests, Admit(r)
  PROVE  /\ thread[r].pc = "idle" /\ thread'[r].pc = "probe"
         /\ \A q \in Requests \ {r} : thread'[q] = thread[q]
<1>1. Goto(r, "probe") /\ "probe" \in Pcs
  BY Zenon DEF Admit, Pcs
<1>. QED  BY Zenon, <1>1, GotoEffect DEF Admit

LEMMA FlightSteps ==
  ASSUME Typed, [Next]_vars
  PROVE  \/ \E r \in Requests : Admit(r)
         \/ \A q \in Requests : /\ q \in InFlight' => q \in InFlight
                                /\ thread'[q].pc \in Admitted => thread[q].pc \in Admitted
<1>1. ASSUME NEW q \in Requests, Takes(q), ~(thread[q].pc = "idle" /\ thread'[q].pc = "probe")
      PROVE  /\ q \in InFlight' => q \in InFlight
             /\ thread'[q].pc \in Admitted => thread[q].pc \in Admitted
  <2>1. /\ thread'[q].pc \notin {"idle", "refused", "failed", "done"}
              => thread[q].pc \notin {"idle", "refused", "failed", "done"}
        /\ thread'[q].pc \in Admitted => thread[q].pc \in Admitted
    BY ZenonT(60), <1>1 DEF Takes, Stays, Starts, Copies, Hands, Undoes, Moves, Admitted
  <2>. QED  BY ZenonT(60), <2>1 DEF InFlight
<1>2. ASSUME NEW q \in Requests, thread[q].pc = "idle", thread'[q].pc = "probe" PROVE Admit(q)
  <2>1. ASSUME NEW r \in Requests, SendStep(r) PROVE r = q
    <3>1. "idle" # "probe"
      BY Zenon
    <3>. QED  BY ZenonT(60), <1>2, <2>1, <3>1, RequestTakes DEF Stays
  <2>2. CASE SendStep(q)
    BY ZenonT(60), <1>2, <2>2 DEF SendStep, Probe, Claim, StreamFile, StreamFails, Mismatch, Distribute,
       Rollback, Record, Register
  <2>3. CASE UNCHANGED thread
    BY ZenonT(60), <1>2, <2>3
  <2>. QED
    BY ZenonT(60), <2>1, <2>2, <2>3 DEF Next, Observe, WatcherEnds, CancelLookup, EvictExpired,
       CancelApplies, vars
<1>. QED  BY ZenonT(60), <1>1, <1>2, NextTakes

\* A record made by r is the only one that a client may have more than before.
LEMMA OfSteps ==
  ASSUME Typed, [Next]_vars, NEW k
  PROVE  \/ Of(k)' \subseteq Of(k)
         \/ \E r \in Requests : Record(r) /\ Client[r] = k /\ Of(k)' \subseteq Of(k) \cup {id[r]}
<1>0. status \in [Ids -> {"pending"} \cup Terminal]
  BY Zenon DEF Typed
<1>1. \A b : b \in Of(k)' <=> /\ b \in Ids /\ bundles'[b] # NoOne /\ status'[b] \notin Terminal
                              /\ Client[bundles'[b]] = k
  BY Zenon DEF Of, NonTerminal, Resident
<1>2. \A b : b \in Of(k) <=> /\ b \in Ids /\ bundles[b] # NoOne /\ status[b] \notin Terminal
                             /\ Client[bundles[b]] = k
  BY Zenon DEF Of, NonTerminal, Resident
<1>3. CASE Rests
  BY ZenonT(60), <1>1, <1>2, <1>3 DEF Rests
<1>4. ASSUME NEW x \in Ids, NEW s \in Terminal, Ends(x, s) PROVE Of(k)' \subseteq Of(k)
  <2>1. bundles' = bundles /\ \A b \in Ids : status'[b] \notin Terminal => status'[b] = status[b]
    BY ZenonT(60), <1>0, <1>4 DEF Ends
  <2>. QED  BY ZenonT(60), <1>1, <1>2, <2>1
<1>5. ASSUME NEW B, Drops(B) PROVE Of(k)' \subseteq Of(k)
  <2>1. \A b \in Ids : bundles'[b] # NoOne => bundles'[b] = bundles[b] /\ status'[b] = status[b]
    <3>1. ASSUME NEW b \in Ids, bundles'[b] # NoOne PROVE bundles'[b] = bundles[b] /\ status'[b] = status[b]
      <4>1. /\ bundles'[b] = IF b \in B THEN NoOne ELSE bundles[b]
            /\ status'[b] = IF b \in B THEN "pending" ELSE status[b]
        BY ZenonT(60), <1>5 DEF Drops, Drop
      <4>. QED  BY ZenonT(60), <3>1, <4>1
    <3>. QED  BY Zenon, <3>1
  <2>. QED  BY ZenonT(60), <1>1, <1>2, <2>1
<1>6. ASSUME NEW r \in Requests, Record(r)
      PROVE  Of(k)' \subseteq Of(k) \/ (Client[r] = k /\ Of(k)' \subseteq Of(k) \cup {id[r]})
  <2>1. PICK out : Inserts(r, out)
    BY Zenon, <1>6, InsertEffect
  <2>2. ASSUME NEW b \in Ids, bundles'[b] # NoOne, b # id[r]
        PROVE  bundles'[b] = bundles[b] /\ status'[b] = status[b]
    <3>1. /\ bundles'[b] = IF b = id[r] THEN r ELSE IF b \in out THEN NoOne ELSE bundles[b]
          /\ status'[b] = IF b \in out \cup {id[r]} THEN "pending" ELSE status[b]
      BY Zenon, <2>1 DEF Inserts
    <3>. QED  BY Zenon, <2>2, <3>1
  <2>3. bundles'[id[r]] = r
    BY ZenonT(60), <2>1 DEF Inserts, Typed
  <2>. QED  BY ZenonT(60), <1>1, <1>2, <2>2, <2>3
<1>. QED  BY ZenonT(60), <1>3, <1>4, <1>5, <1>6, RegistrySteps

LEMMA LimitsStep == ASSUME Typed, Typed', Limits, [Next]_vars PROVE Limits'
<1>1. ASSUME NEW q \in InFlight', NEW r \in InFlight', Client[q] = Client[r] PROVE q = r
  <2>0. q \in Requests /\ r \in Requests
    BY Zenon DEF InFlight
  <2>1. ASSUME NEW p \in Requests, Admit(p) PROVE q = r
    <3>1. \A x \in InFlight : Client[x] # Client[p]
      BY Zenon, <2>1 DEF Admit
    <3>2. \A x \in Requests \ {p} : x \in InFlight' => x \in InFlight
      BY ZenonT(60), <2>1, AdmitMoves DEF InFlight
    <3>. QED  BY ZenonT(60), <1>1, <2>0, <3>1, <3>2 DEF Limits
  <2>. QED  BY ZenonT(60), <1>1, <2>0, <2>1, FlightSteps DEF Limits
<1>2. ASSUME ~QueueWhenFull, NEW r \in Requests
      PROVE  /\ Cardinality(Of(Client[r])') <= MaxConcurrent
             /\ thread'[r].pc \in Admitted => Cardinality(Of(Client[r])') < MaxConcurrent
  <2>. DEFINE k == Client[r]
              S == Of(k)
              T == Of(k)'
  <2>0. IsFiniteSet(S) /\ IsFiniteSet(T)
    <3>1. T \subseteq Ids
      BY Zenon DEF Of, NonTerminal, Resident
    <3>. QED  BY ZenonT(60), <3>1, OfFinite, FS_Subset, SendingConstants
  <2>1. /\ Cardinality(S) <= MaxConcurrent
        /\ thread[r].pc \in Admitted => Cardinality(S) < MaxConcurrent
    BY Zenon, <1>2 DEF Limits
  <2>2. Cardinality(S) \in Nat /\ Cardinality(T) \in Nat /\ MaxConcurrent \in Nat
    BY ZenonT(60), <2>0, FS_CardinalityType, SendingConstants
  <2>3. CASE Admit(r)
    <3>1. UNCHANGED registry /\ (QueueWhenFull \/ Cardinality(NonTerminal) < MaxConcurrent)
      BY Zenon, <2>3 DEF Admit, Room
    <3>2. T = S
      BY Zenon, <3>1 DEF registry, Of, NonTerminal, Resident
    <3>3. Cardinality(S) <= Cardinality(NonTerminal) /\ Cardinality(NonTerminal) \in Nat
      BY ZenonT(60), OfFinite, FS_Subset, FS_CardinalityType
    <3>. HIDE DEF S, T, k
    <3>4. Cardinality(T) < MaxConcurrent
      BY SMTT(60), <1>2, <2>2, <3>1, <3>2, <3>3
    <3>5. Cardinality(T) <= MaxConcurrent
      BY SMTT(60), <2>2, <3>4
    <3>. QED  BY ZenonT(60), <3>4, <3>5 DEF T, k
  <2>4. CASE T \subseteq S /\ ~Admit(r)
    <3>1. thread'[r].pc \in Admitted => thread[r].pc \in Admitted
      <4>1. ASSUME NEW p \in Requests, Admit(p) PROVE thread'[r] = thread[r]
        BY ZenonT(60), <2>4, <4>1, AdmitMoves
      <4>. QED  BY ZenonT(60), <4>1, FlightSteps
    <3>2. Cardinality(T) <= Cardinality(S)
      BY ZenonT(60), <2>0, <2>4, FS_Subset
    <3>. HIDE DEF S, T, k
    <3>3. /\ Cardinality(T) <= MaxConcurrent
          /\ thread[r].pc \in Admitted => Cardinality(T) < MaxConcurrent
      BY SMTT(60), <2>1, <2>2, <3>2
    <3>. QED  BY ZenonT(60), <3>1, <3>3 DEF T, k
  <2>5. ASSUME NEW p \in Requests, Record(p), Client[p] = k, T \subseteq S \cup {id[p]}
        PROVE  Cardinality(T) <= MaxConcurrent /\ thread'[r].pc \notin Admitted
    <3>1. thread[p].pc = "ingest" /\ thread'[p].pc = "register"
      BY ZenonT(60), <2>5, RecordMoves
    <3>2. Cardinality(S) < MaxConcurrent
      <4>1. "ingest" \in Admitted
        BY Zenon DEF Admitted
      <4>. QED  BY ZenonT(60), <1>2, <2>5, <3>1, <4>1 DEF Limits
    <3>3. Cardinality(T) <= Cardinality(S) + 1
      <4>1. IsFiniteSet(S \cup {id[p]})
            /\ (\/ Cardinality(S \cup {id[p]}) = Cardinality(S)
                \/ Cardinality(S \cup {id[p]}) = Cardinality(S) + 1)
        BY ZenonT(60), <2>0, FS_AddElement
      <4>2. Cardinality(T) <= Cardinality(S \cup {id[p]})
        BY ZenonT(60), <2>5, <4>1, FS_Subset
      <4>. HIDE DEF S, T, k
      <4>. QED  BY SMTT(60), <2>2, <4>1, <4>2
    <3>4. thread'[r].pc \notin Admitted
      <4>1. ASSUME thread'[r].pc \in Admitted PROVE FALSE
        <5>1. "register" \notin Admitted /\ "register" \notin {"idle", "refused", "failed", "done"}
              /\ thread'[r].pc \notin {"idle", "refused", "failed", "done"}
          BY Zenon, <4>1 DEF Admitted
        <5>2. p \in InFlight' /\ r \in InFlight'
          BY ZenonT(60), <3>1, <5>1 DEF InFlight
        <5>3. p = r
          BY ZenonT(60), <1>1, <2>5, <5>2
        <5>. QED  BY ZenonT(60), <3>1, <4>1, <5>1, <5>3
      <4>. QED  BY Zenon, <4>1
    <3>. HIDE DEF S, T, k
    <3>5. Cardinality(T) <= MaxConcurrent
      BY SMTT(60), <2>2, <3>2, <3>3
    <3>. QED  BY ZenonT(60), <3>4, <3>5
  <2>. QED  BY ZenonT(60), <2>3, <2>4, <2>5, OfSteps
<1>. QED  BY ZenonT(60), <1>1, <1>2 DEF Limits

-----------------------------------------------------------------------------
SendingInv ==
  /\ Typed /\ Ages /\ Replies /\ RecordInv /\ IndexIsExact /\ Copied /\ Runs
  /\ Slots /\ BlobInv /\ StatusIsOwn /\ OnceInv /\ Limits

LEMMA SendingStep == SendingInv /\ [Next]_vars => SendingInv'
<1>. SUFFICES ASSUME SendingInv, [Next]_vars PROVE SendingInv'
  BY Zenon
<1>1. Typed' /\ Ages' /\ Replies' /\ RecordInv' /\ IndexIsExact' /\ Copied' /\ Runs'
  BY ZenonT(60), NextTyped, AgesStep, RepliesStep, RecordStep, IndexStep, CopiedStep, RunsStep DEF SendingInv
<1>2. Slots' /\ BlobInv' /\ StatusIsOwn' /\ OnceInv'
  BY ZenonT(60), SlotsStep, BlobStep, StatusStep, OnceStep DEF SendingInv
<1>3. Limits'
  BY ZenonT(60), <1>1, LimitsStep DEF SendingInv
<1>. QED  BY ZenonT(60), <1>1, <1>2, <1>3 DEF SendingInv

LEMMA SendingSound == SendingInv => SendingIsSound
<1>. SUFFICES ASSUME SendingInv PROVE SendingIsSound
  BY Zenon
<1>1. TypeOK
  <2>1. ASSUME NEW r \in Requests PROVE thread[r].pc \in Pcs
    <3>1. thread[r] \in Threads
      BY Zenon DEF SendingInv, Typed
    <3>. QED  BY Zenon, <3>1 DEF Threads
  <2>. QED  BY ZenonT(60), <2>1 DEF SendingInv, Typed, Ages, TypeOK
<1>2. LimitPerClient
  BY Zenon DEF SendingInv, Limits, LimitPerClient, Of
<1>3. BlobsAreKept
  <2>. SUFFICES ASSUME NEW d \in Dists, slot[d] = "pending", thread[d[1]].pc \notin {"rollback", "failed"}
                PROVE  Files[d[1]][d[2]] \in blobs \cup excused
    BY Zenon DEF BlobsAreKept
  <2>0. PICK r \in Requests : r = d[1] /\ d[2] \in DOMAIN Files[r]
    BY ZenonT(60), DistFacts
  <2>1. PICK i \in DOMAIN Files[r] : r = d[1] /\ i = d[2]
    BY ZenonT(60), <2>0
  <2>2. "pending" # "none"
    BY Zenon
  <2>3. Files[r][i] \in Contents /\ DOMAIN Files[r] = 1..Len(Files[r])
    BY Zenon, FileFacts
  <2>4. (thread[r].pc = "ingest" /\ Len(thread[r].created) = Len(Files[r])) \/ Recorded(r)
    BY ZenonT(60), <2>1, <2>2 DEF SendingInv, Slots
  <2>5. Needs(r, thread[r], Files[r][i])
    BY ZenonT(60), <2>3, <2>4 DEF Needs, Recorded
  <2>. QED  BY ZenonT(60), <2>1, <2>3, <2>5 DEF SendingInv, BlobInv
<1>4. FailureCleansUp
  BY Zenon DEF SendingInv, Copied, CopiedOf, FailureCleansUp
<1>5. IngestedOnce
  <2>. SUFFICES ASSUME NEW r \in Requests, NEW q \in thread[r].after
                PROVE  q \in evicted \/ Verdict(slot, q) \in Reusable \/ Third(q, r)
    BY Zenon DEF IngestedOnce, Third
  <2>1. q \in Requests
    <3>1. thread[r] \in Threads
      BY Zenon DEF SendingInv, Typed
    <3>2. thread[r].after \subseteq Requests
      BY Zenon, <3>1 DEF Threads
    <3>. QED  BY Zenon, <3>2
  <2>. QED  BY ZenonT(60), <2>1, VerdictSpoilt DEF SendingInv, OnceInv, Kin, Spoilt
<1>. QED  BY ZenonT(60), <1>1, <1>2, <1>3, <1>4, <1>5 DEF SendingIsSound, SendingInv

LEMMA SendingInit == Init => SendingInv
<1>. SUFFICES ASSUME Init PROVE SendingInv
  BY Zenon
<1>0. /\ id \in [Requests -> Ids] /\ blobs = {} /\ queued = {} /\ older = {} /\ excused = {} /\ evicted = {}
      /\ bundles = [b \in Ids |-> NoOne] /\ status = [b \in Ids |-> "pending"]
      /\ index = [d \in Dists |-> NoOne] /\ runtimes = [b \in Ids |-> NoOne]
      /\ slot = [d \in Dists |-> "none"] /\ watcher = [d \in Dists |-> "none"]
      /\ thread = [r \in Requests |-> Fresh] /\ cancel = Unasked
  BY Zenon, SendingConstants DEF Init
<1>1. ASSUME NEW r \in Requests
      PROVE  /\ thread[r] = Fresh /\ Fresh \in Threads /\ Fresh.pc = "idle" /\ Fresh.created = <<>>
             /\ Fresh.started = 0 /\ Fresh.reply = NoOne /\ Fresh.undone = 0 /\ Fresh.after = {}
             /\ r # NoOne /\ Fresh.reply # r
  BY ZenonT(60), <1>0, <1>1, FreshTyped, NoOneFacts
<1>2. cancel.pc = "idle"
  BY Zenon, <1>0 DEF Unasked
<1>3. ASSUME NEW r \in Requests PROVE ~Recorded(r)
  <2>1. "idle" # "register"
    BY Zenon
  <2>. QED  BY ZenonT(60), <1>1, <1>3, <2>1 DEF Recorded
<1>4. Typed
  <2>1. thread \in [Requests -> Threads]
    BY ZenonT(60), <1>0, <1>1
  <2>2. /\ bundles \in [Ids -> Requests \cup {NoOne}] /\ status \in [Ids -> {"pending"} \cup Terminal]
        /\ index \in [Dists -> Ids \cup {NoOne}] /\ runtimes \in [Ids -> Requests \cup {NoOne}]
        /\ slot \in [Dists -> {"none", "pending"} \cup Terminal]
        /\ watcher \in [Dists -> {"none", "watch", "done"}]
    BY Zenon, <1>0
  <2>3. cancel.pc \in {"idle", "calling", "accepted"} /\ cancel.pc # "calling"
    BY Zenon, <1>2
  <2>. QED  BY ZenonT(60), <1>0, <2>1, <2>2, <2>3 DEF Typed
<1>5. \A b \in Ids : bundles[b] = NoOne /\ runtimes[b] = NoOne
  BY Zenon, <1>0
<1>6. \A d \in Dists : slot[d] = "none" /\ watcher[d] = "none" /\ index[d] = NoOne
  BY Zenon, <1>0
<1>7. Ages /\ NonTerminal = {}
  <2>1. Resident = {}
    BY ZenonT(60), <1>5 DEF Resident
  <2>2. Cardinality(Resident) <= MaxKnown
    BY SMTT(60), <2>1, FS_EmptySet, SendingConstants
  <2>. QED  BY ZenonT(60), <1>0, <2>1, <2>2 DEF Ages, NonTerminal
<1>8. Replies /\ RecordInv
  BY ZenonT(60), <1>1, <1>5 DEF Replies, RecordInv
<1>9. IndexIsExact
  BY ZenonT(60), <1>5, <1>6, NoOneFacts DEF IndexIsExact
<1>10. Copied
  <2>. SUFFICES ASSUME NEW r \in Requests PROVE CopiedOf(r, thread[r])
    BY Zenon DEF Copied
  <2>1. Len(Files[r]) \in Nat
    BY Zenon, FileFacts
  <2>2. thread[r].pc = "idle" /\ thread[r].created = <<>> /\ thread[r].started = 0 /\ thread[r].undone = 0
    BY Zenon, <1>1
  <2>. QED  BY SMTT(60), <2>1, <2>2 DEF CopiedOf
<1>11. Runs
  <2>1. "idle" # "calling"
    BY Zenon
  <2>. QED  BY ZenonT(60), <1>1, <1>2, <1>5, <1>6, <2>1 DEF Runs
<1>12. Slots
  BY Zenon, <1>6 DEF Slots
<1>13. BlobInv
  <2>. SUFFICES ASSUME NEW r \in Requests, NEW c PROVE ~Needs(r, thread[r], c)
    BY Zenon DEF BlobInv
  <2>1. "idle" # "register" /\ "idle" # "ingest"
    BY Zenon
  <2>. QED  BY ZenonT(60), <1>1, <2>1 DEF Needs
<1>14. StatusIsOwn
  BY Zenon, <1>5 DEF StatusIsOwn
<1>15. OnceInv
  BY ZenonT(60), <1>1, <1>3 DEF OnceInv, Kin, Waiting
<1>16. Limits
  <2>1. InFlight = {} /\ "idle" \notin Admitted
    BY ZenonT(60), <1>1 DEF InFlight, Admitted
  <2>2. ASSUME NEW r \in Requests
        PROVE  /\ Cardinality(Of(Client[r])) <= MaxConcurrent
               /\ thread[r].pc \in Admitted => Cardinality(Of(Client[r])) < MaxConcurrent
    <3>1. Of(Client[r]) = {} /\ thread[r].pc \notin Admitted
      BY ZenonT(60), <1>1, <1>7, <2>1 DEF Of
    <3>. QED  BY SMTT(60), <3>1, FS_EmptySet, SendingConstants
  <2>. QED  BY ZenonT(60), <2>1, <2>2 DEF Limits
<1>. QED
  BY ZenonT(60), <1>4, <1>7, <1>8, <1>9, <1>10, <1>11, <1>12, <1>13, <1>14, <1>15, <1>16 DEF SendingInv

\* Whatever the requests, clients, files, ids and limits, and however requests,
\* watchers, cancellations and the evictor interleave: the registry and its index
\* agree, no client is over its limit, blobs in use are kept, a failed request has
\* cleaned up, a bundle ends by its own distributions and an id is ingested once
\* (handlers.rs, send_attachments; registry.rs; ingest.rs).
THEOREM SendingAlwaysSound == Spec => []SendingIsSound
<1>. QED  BY SendingInit, SendingStep, SendingSound, PTL DEF Spec
=============================================================================
