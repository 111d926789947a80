--------------------------- MODULE ShutdownProofs ---------------------------
(***************************************************************************)
(* Proofs about what runs to an end: the bridge's shutdown and its         *)
(* ingress, for any number of subjects and messages, any capacity of the   *)
(* FIFO and any number of attempts, and the commands of peat (Cli), for    *)
(* any number of commands and links that fail.  The bridge's inductive     *)
(* invariant has two halves: Places says where a message that is on its    *)
(* way can be, Stages what the report promises once shutdown() has gone    *)
(* past a join without recording a failure.                                *)
(***************************************************************************)
EXTENDS Shutdown, Cli, TLAPS

AllEnded == \A s \in Subjects : reader[s].pc = "ended"

\* Nothing is held where nothing runs, and a stopped processor leaves an empty FIFO.
Holders ==
  /\ \A s \in Subjects : /\ reader[s].pc = "send" => reader[s].msg \in Msgs
                         /\ reader[s].pc # "send" => reader[s].msg = "none"
                         /\ reader[s].pc = "ended" => buffer[s] = "none"
  /\ work.pc \in {"try", "sleep"} => work.msg \in Msgs
  /\ work.pc \in {"recv", "ended"} => work.msg = "none"
  /\ work.pc = "sleep" => work.attempt < MaxAttempts
  /\ work.pc = "ended" => fifo = <<>>

\* A message on its way is held somewhere.
Held(m) ==
  \/ \E s \in Subjects : buffer[s] = m \/ reader[s].msg = m
  \/ work.msg = m \/ \E i \in 1..Len(fifo) : fifo[i] = m

Places == Holders /\ \A m \in Msgs : outcome[m] = "pending" => Held(m)

AfterProducers == {"supervisor", "consumers", "ledgers", "operations", "done"}
AfterSupervisor == {"consumers", "ledgers", "operations", "done"}
AfterConsumers == {"ledgers", "operations", "done"}
AfterLedgers == {"operations", "done"}
Results == {"none", "client", "deadline"}

\* The supervisor's order of stopping.
Stops ==
  /\ sup = "connect" => AllEnded /\ "egress" \notin live
  /\ sup \in {"egress", "flush", "drain", "none", "client"} => AllEnded
  /\ sup \in {"flush", "drain", "none"} => "egress" \notin live
  /\ "supervisor" \in doomed => stage \in AfterSupervisor
  /\ "supervisor" \notin live /\ stage \notin AfterSupervisor => sup \in Results
  /\ exclusion # "up" => stage \in AfterConsumers

\* What holds after each join as long as no failure was recorded.
Stages ==
  failure = "none" =>
    /\ "processor" \notin doomed /\ \A m \in Msgs : outcome[m] # "lost"
    /\ stage \in AfterProducers => "producers" \notin live
    /\ stage \in AfterSupervisor => "supervisor" \notin live /\ sup = "none"
    /\ stage \in AfterConsumers => work.pc = "ended"
    /\ stage \in AfterLedgers => exclusion = "ended" /\ delivery = "ended"
    /\ stage = "done" => "operations" \notin live

ShutdownInv == ShutdownTyped /\ StoredOnce /\ Places /\ Stops /\ Stages

-----------------------------------------------------------------------------
LEMMA ShutdownStarts == ShutdownInit => ShutdownInv
<1> SUFFICES ASSUME ShutdownInit PROVE ShutdownInv
  BY Zenon
<1> USE IngressConstants DEF ShutdownInit, IngressInit, Ended, Receive, Producers
<1>1. ShutdownTyped
  <2>1. /\ buffer \in [Subjects -> Msgs \cup {"none"}]
        /\ reader \in [Subjects -> [pc : {"next", "send", "ended"}, msg : Msgs \cup {"none"}]]
        /\ fifo \in Seq(Msgs) /\ Len(fifo) <= FifoCap
    OBVIOUS
  <2>2. /\ work \in [pc : {"recv", "try", "sleep", "ended"}, msg : Msgs \cup {"none"},
                      attempt : 0 .. MaxAttempts]
        /\ docs \in [Msgs -> Nat] /\ storeFails \in 0 .. MaxStoreFails
    OBVIOUS
  <2>3. accepting \in BOOLEAN /\ held \in BOOLEAN /\ expired \in BOOLEAN
    BY Zenon
  <2>4. /\ live \subseteq Tasks /\ doomed \subseteq Tasks \cup {"generation", "processor"}
        /\ outcome \in [Msgs -> {"none", "pending", "discarded", "processed", "lost"}]
    BY Zenon DEF Tasks
  <2> QED BY Zenon, <2>1, <2>2, <2>3, <2>4 DEF ShutdownTyped, Workers
<1>2. StoredOnce
  BY DEF StoredOnce
<1>3. Places
  BY Zenon DEF Places, Holders, Held
<1>4. Stops
  BY Zenon DEF Stops, AllEnded, AfterSupervisor, AfterConsumers, Results
<1>5. Stages
  BY Zenon DEF Stages, AfterProducers, AfterSupervisor, AfterConsumers, AfterLedgers
<1> QED BY Zenon, <1>1, <1>2, <1>3, <1>4, <1>5 DEF ShutdownInv

\* Each step of the ingress path keeps the types.
LEMMA IngressTyped == ASSUME ShutdownTyped, Places, StoredOnce, IngressNext, UNCHANGED handleVars
                      PROVE  ShutdownTyped'
<1> USE IngressConstants DEF ShutdownTyped, Tasks, Workers, handleVars
<1>1. ASSUME NEW m \in Msgs, Arrive(m) PROVE ShutdownTyped'
  <2>1. /\ buffer' \in [Subjects -> Msgs \cup {"none"}]
        /\ outcome' \in [Msgs -> {"none", "pending", "discarded", "processed", "lost"}]
    <3>1. Route[m].subject \in Subjects
      BY Zenon
    <3>2. CASE buffer[Route[m].subject] = "none"
      <4>1. /\ buffer' = [buffer EXCEPT ![Route[m].subject] = m]
            /\ outcome' = [outcome EXCEPT ![m] = "pending"]
        BY Zenon, <1>1, <3>2 DEF Arrive, Settle
      <4> QED BY Zenon, <3>1, <4>1
    <3>3. CASE buffer[Route[m].subject] # "none"
      BY ZenonT(60), <1>1, <3>1, <3>3 DEF Arrive, Settle
    <3> QED BY Zenon, <3>2, <3>3
  <2> QED BY <1>1, <2>1 DEF Arrive
<1>2. ASSUME NEW s \in Subjects, ReaderTakes(s) PROVE ShutdownTyped'
  <2>1. buffer[s] \in Msgs
    BY Zenon, <1>2 DEF ReaderTakes
  <2>2. CASE ~accepting
    <3>1. GenerationEnds
      BY Zenon, <1>2, <2>2 DEF ReaderTakes
    <3> QED BY SMTT(60), <1>2, <3>1 DEF ReaderTakes, GenerationEnds, Ended
  <2>3. CASE accepting /\ Route[buffer[s]].kind \in {"own", "oversized"}
    <3>1. /\ buffer' = [buffer EXCEPT ![s] = "none"] /\ reader' = reader
          /\ outcome' = [outcome EXCEPT ![buffer[s]] = "discarded"]
      BY Zenon, <1>2, <2>3 DEF ReaderTakes, Settle
    <3> QED BY SMTT(60), <1>2, <3>1, <2>1 DEF ReaderTakes
  <2>4. CASE accepting /\ Route[buffer[s]].kind \notin {"own", "oversized"}
    <3>1. /\ buffer' = [buffer EXCEPT ![s] = "none"] /\ outcome' = outcome
          /\ reader' = [reader EXCEPT ![s] = [pc |-> "send", msg |-> buffer[s]]]
      BY Zenon, <1>2, <2>4 DEF ReaderTakes
    <3> QED BY SMTT(60), <1>2, <3>1, <2>1 DEF ReaderTakes
  <2> QED BY Zenon, <2>2, <2>3, <2>4
<1>3. ASSUME NEW s \in Subjects, ReaderSends(s) PROVE ShutdownTyped'
  <2>1. reader[s].msg \in Msgs
    BY Zenon, <1>3 DEF ReaderSends, Places, Holders
  <2>2. fifo' \in Seq(Msgs) /\ Len(fifo') <= FifoCap
    BY SMTT(60), <1>3, <2>1 DEF ReaderSends
  <2> QED BY SMTT(60), <1>3, <2>2 DEF ReaderSends, Reading
<1>4. ASSUME NEW s \in Subjects, ReaderFails(s) PROVE ShutdownTyped'
  BY SMTT(60), <1>4 DEF ReaderFails, GenerationEnds, Ended
<1>5. ASSUME WorkReceives PROVE ShutdownTyped'
  <2>1. Head(fifo) \in Msgs /\ fifo' \in Seq(Msgs) /\ Len(fifo') <= FifoCap
    BY SMTT(60), <1>5 DEF WorkReceives
  <2>2. CASE Route[Head(fifo)].kind = "invalid"
    <3>1. work' = work /\ outcome' = [outcome EXCEPT ![Head(fifo)] = "processed"]
      BY Zenon, <1>5, <2>2 DEF WorkReceives, Settle
    <3> QED BY SMTT(60), <1>5, <2>1, <3>1 DEF WorkReceives
  <2>3. CASE Route[Head(fifo)].kind # "invalid"
    <3>1. work' = [pc |-> "try", msg |-> Head(fifo), attempt |-> 1] /\ outcome' = outcome
      BY Zenon, <1>5, <2>3 DEF WorkReceives
    <3> QED BY SMTT(60), <1>5, <2>1, <3>1 DEF WorkReceives
  <2> QED BY Zenon, <2>2, <2>3
<1>6. ASSUME WorkStores \/ WorkRefused PROVE ShutdownTyped'
  <2>1. work.msg \in Msgs
    BY Zenon, <1>6 DEF WorkStores, WorkRefused, Places, Holders
  <2>2. /\ outcome' \in [Msgs -> {"none", "pending", "discarded", "processed", "lost"}]
        /\ docs' \in [Msgs -> Nat]
    BY SMTT(60), <1>6, <2>1 DEF WorkStores, WorkRefused, Settle
  <2>3. work' \in [pc : {"recv", "try", "sleep", "ended"}, msg : Msgs \cup {"none"},
                   attempt : 0 .. MaxAttempts]
    BY <1>6 DEF WorkStores, WorkRefused, Receive
  <2> QED BY SMTT(60), <1>6, <2>2, <2>3 DEF WorkStores, WorkRefused
<1>7. ASSUME WorkReadFails \/ WorkWriteFails PROVE ShutdownTyped'
  <2>1. work.msg \in Msgs
    BY Zenon, <1>7 DEF WorkReadFails, WorkWriteFails, Places, Holders
  <2>2. /\ outcome' \in [Msgs -> {"none", "pending", "discarded", "processed", "lost"}]
        /\ docs' \in [Msgs -> Nat]
    <3>1. docs' = docs \/ docs' = [docs EXCEPT ![work.msg] = docs[work.msg] + 1]
      BY Zenon, <1>7 DEF WorkReadFails, WorkWriteFails
    <3>2. outcome' = outcome \/ outcome' = [outcome EXCEPT ![work.msg] = "processed"]
      BY Zenon, <1>7 DEF WorkReadFails, WorkWriteFails, Transient, Settle
    <3>3. docs' \in [Msgs -> Nat]
      <4>1. docs \in [Msgs -> Nat]
        BY Zenon
      <4> HIDE DEF ShutdownTyped
      <4> QED BY <2>1, <3>1, <4>1
    <3> QED BY ZenonT(60), <2>1, <3>2, <3>3
  <2>3. work' \in [pc : {"recv", "try", "sleep", "ended"}, msg : Msgs \cup {"none"},
                   attempt : 0 .. MaxAttempts]
    BY SMTT(60), <1>7 DEF WorkReadFails, WorkWriteFails, Transient, Receive
  <2> QED BY SMTT(60), <1>7, <2>2, <2>3 DEF WorkReadFails, WorkWriteFails, Transient
<1>8. ASSUME WorkPermanent PROVE ShutdownTyped'
  <2>1. work.msg \in Msgs
    BY Zenon, <1>8 DEF WorkPermanent, Places, Holders
  <2> QED BY SMTT(60), <1>8, <2>1 DEF WorkPermanent, Settle, Receive
<1>9. ASSUME WorkRetries PROVE ShutdownTyped'
  <2>1. work.attempt < MaxAttempts
    BY Zenon, <1>9 DEF WorkRetries, Places, Holders
  <2>2. work' \in [pc : {"recv", "try", "sleep", "ended"}, msg : Msgs \cup {"none"},
                   attempt : 0 .. MaxAttempts]
    <3>1. work' = [pc |-> "try", msg |-> work.msg, attempt |-> work.attempt + 1]
      BY Zenon, <1>9 DEF WorkRetries
    <3> QED BY <2>1, <3>1
  <2> QED BY SMTT(60), <1>9, <2>2 DEF WorkRetries
<1>10. ASSUME WorkEnds PROVE ShutdownTyped'
  BY SMTT(60), <1>10 DEF WorkEnds, Receive
<1> QED
  BY Zenon, <1>1, <1>2, <1>3, <1>4, <1>5, <1>6, <1>7, <1>8, <1>9, <1>10
     DEF IngressNext, ReaderStep, WorkStep

\* A store operation that is tried again finds the document it may have made.
LEMMA StoredStep == ASSUME ShutdownTyped, Places, StoredOnce, [ShutdownNext]_shutdownVars PROVE StoredOnce'
<1>1. CASE docs' = docs
  BY Zenon, <1>1 DEF StoredOnce
<1>2. ASSUME docs' # docs
      PROVE  /\ work.msg \in Msgs /\ docs[work.msg] = 0
             /\ docs' = [docs EXCEPT ![work.msg] = docs[work.msg] + 1]
  <2>1. WorkStores \/ WorkWriteFails
    BY ZenonT(60), <1>2 DEF ShutdownNext, shutdownVars, IngressNext, ReaderStep, WorkStep, Arrive, ReaderTakes, ReaderSends,
      ReaderFails, WorkReceives, WorkRefused, WorkReadFails, WorkPermanent, WorkRetries, WorkEnds,
      ingressVars, path, SupStep, SupConnects, SupConnectFails, SupReturns, SupStopsReaders,
      SupStopExpires, SupJoinsEgress, SupEgressExpires, SupFlushes, SupDrains, SupClientFails,
      EgressEnds, OperationsEnds, TaskAborted, GenerationAborted, ProcessorAborted, ExclusionEnds,
      DeliveryEnds, DeadlinePasses, HandleStep, BeginShutdown, JoinProducers, JoinSupervisor,
      JoinConsumers, JoinLedgers, JoinOperations
  <2>2. work.msg \in Msgs
    BY Zenon, <2>1 DEF WorkStores, WorkWriteFails, Places, Holders
  <2>3. docs[work.msg] = 0
    BY <2>1, <2>2 DEF WorkStores, WorkWriteFails, Refused, ShutdownTyped
  <2> QED BY Zenon, <1>2, <2>1, <2>2, <2>3 DEF WorkStores, WorkWriteFails
<1>3. docs \in [Msgs -> Nat]
  BY Zenon DEF ShutdownTyped
<1> QED BY <1>1, <1>2, <1>3 DEF StoredOnce

\* Dropping a generation of readers keeps track of what they held.
LEMMA GenerationPlaces ==
  ASSUME ShutdownTyped, Places, GenerationEnds, UNCHANGED <<fifo, work>> PROVE Places'
<1>1. \A s \in Subjects : reader'[s] = Ended /\ buffer'[s] = "none"
  BY Zenon DEF GenerationEnds
<1>2. ASSUME NEW m \in Msgs, outcome'[m] = "pending"
      PROVE  work.msg = m \/ \E i \in 1..Len(fifo) : fifo[i] = m
  <2>1. outcome[m] = "pending" /\ m \notin InHand /\ ~\E s \in Subjects : buffer[s] = m
    BY Zenon, <1>2 DEF GenerationEnds
  <2> QED BY Zenon, <2>1, IngressConstants DEF Places, Held, InHand
<1>3. Holders'
  BY <1>1 DEF Places, Holders, Ended
<1> QED BY Zenon, <1>2, <1>3 DEF Places, Held

LEMMA ArrivePlaces == ASSUME ShutdownTyped, Places, NEW m \in Msgs, Arrive(m) PROVE Places'
<1> DEFINE s == Route[m].subject
<1>1. /\ s \in Subjects /\ reader[s].pc # "ended" /\ UNCHANGED <<reader, fifo, work>>
      /\ buffer \in [Subjects -> Msgs \cup {"none"}] /\ DOMAIN outcome = Msgs
  BY Zenon, IngressConstants DEF Arrive, ShutdownTyped
<1>2. CASE buffer[s] = "none"
  <2>1. buffer' = [buffer EXCEPT ![s] = m] /\ outcome' = [outcome EXCEPT ![m] = "pending"]
    BY Zenon, <1>2 DEF Arrive, Settle
  <2> HIDE DEF s
  <2>2. Holders'
    BY Zenon, <1>1, <2>1 DEF Places, Holders
  <2>3. ASSUME NEW x \in Msgs, outcome'[x] = "pending" PROVE Held(x)'
    <3>1. CASE x = m
      BY Zenon, <1>1, <2>1, <3>1 DEF Held
    <3>2. CASE x # m
      <4>1. Held(x)
        BY Zenon, <1>1, <2>1, <2>3, <3>2 DEF Places
      <4>2. \A t \in Subjects : buffer[t] = x => buffer'[t] = x
        BY Zenon, <1>1, <1>2, <2>1, <3>2, IngressConstants
      <4> QED BY Zenon, <1>1, <4>1, <4>2 DEF Held
    <3> QED BY Zenon, <3>1, <3>2
  <2> QED BY Zenon, <2>2, <2>3 DEF Places
<1>3. CASE buffer[s] # "none"
  <2>1. buffer' = buffer /\ outcome' = [outcome EXCEPT ![m] = "discarded"]
    BY Zenon, <1>3 DEF Arrive, Settle
  <2> HIDE DEF s
  <2>2. Holders'
    BY Zenon, <1>1, <2>1 DEF Places, Holders
  <2>3. \A x \in Msgs : outcome'[x] = "pending" => outcome[x] = "pending"
    BY Zenon, <1>1, <2>1
  <2> QED BY SMTT(60), <1>1, <2>1, <2>2, <2>3 DEF Places, Held
<1> QED BY Zenon, <1>2, <1>3

LEMMA ReaderTakesPlaces == ASSUME ShutdownTyped, Places, NEW s \in Subjects, ReaderTakes(s) PROVE Places'
<1>1. /\ buffer[s] \in Msgs /\ UNCHANGED <<fifo, work>> /\ reader[s].pc = "next"
      /\ buffer \in [Subjects -> Msgs \cup {"none"}]
      /\ DOMAIN outcome = Msgs /\ DOMAIN reader = Subjects
      /\ reader[s].msg = "none"
  BY SMTT(60) DEF ReaderTakes, ShutdownTyped, Places, Holders
<1>2. CASE ~accepting
  BY Zenon, <1>1, <1>2, GenerationPlaces DEF ReaderTakes
<1>3. CASE accepting
  <2>1. buffer' = [buffer EXCEPT ![s] = "none"]
    BY Zenon, <1>3 DEF ReaderTakes
  <2>2. \/ reader' = reader /\ outcome' = [outcome EXCEPT ![buffer[s]] = "discarded"]
        \/ reader' = [reader EXCEPT ![s] = [pc |-> "send", msg |-> buffer[s]]] /\ outcome' = outcome
    BY Zenon, <1>3 DEF ReaderTakes, Settle
  <2>3. /\ buffer'[s] = "none" /\ \A t \in Subjects : t # s => buffer'[t] = buffer[t]
        /\ \A t \in Subjects : t # s => reader'[t] = reader[t]
        /\ reader'[s] = reader[s] \/ reader'[s] = [pc |-> "send", msg |-> buffer[s]]
    BY Zenon, <1>1, <2>1, <2>2
  <2>4. Holders'
    BY <1>1, <2>3 DEF Places, Holders
  <2>5. ASSUME NEW m \in Msgs, outcome'[m] = "pending" PROVE Held(m)'
    <3>1. outcome[m] = "pending" /\ (m = buffer[s] => reader'[s].msg = m)
      BY SMTT(60), <1>1, <2>2, <2>5
    <3>2. Held(m)
      BY Zenon, <3>1 DEF Places
    <3>3. CASE m = buffer[s]
      BY Zenon, <3>1, <3>3 DEF Held
    <3>4. CASE m # buffer[s]
      BY SMTT(60), <1>1, <2>3, <3>2, <3>4, IngressConstants DEF Held
    <3> QED BY Zenon, <3>3, <3>4
  <2> QED BY Zenon, <2>4, <2>5 DEF Places
<1> QED BY Zenon, <1>2, <1>3

LEMMA ReaderSendsPlaces == ASSUME ShutdownTyped, Places, NEW s \in Subjects, ReaderSends(s) PROVE Places'
<1>1. /\ UNCHANGED <<buffer, work, outcome>> /\ reader' = [reader EXCEPT ![s] = Reading]
      /\ reader[s].pc = "send" /\ work.pc # "ended" /\ reader[s].msg \in Msgs
      /\ DOMAIN reader = Subjects /\ fifo \in Seq(Msgs) /\ fifo' = Append(fifo, reader[s].msg)
  BY Zenon DEF ReaderSends, ShutdownTyped, Places, Holders
<1>2. /\ Len(fifo') = Len(fifo) + 1 /\ fifo'[Len(fifo) + 1] = reader[s].msg
      /\ Len(fifo) \in Nat /\ \A i \in 1..Len(fifo) : fifo'[i] = fifo[i]
  BY SMTT(60), <1>1
<1>3. /\ \A t \in Subjects : t # s => reader'[t] = reader[t]
      /\ reader'[s].pc = "next" /\ reader'[s].msg = "none"
  BY Zenon, <1>1 DEF Reading
<1>4. Holders'
  BY SMTT(60), <1>1, <1>3 DEF Places, Holders
<1>5. ASSUME NEW m \in Msgs, outcome'[m] = "pending" PROVE Held(m)'
  <2>1. Held(m)
    BY Zenon, <1>1, <1>5 DEF Places
  <2>2. CASE reader[s].msg = m
    <3>1. Len(fifo') \in 1..Len(fifo') /\ fifo'[Len(fifo')] = m
      BY SMTT(60), <1>2, <2>2
    <3> QED BY Zenon, <3>1 DEF Held
  <2>3. CASE \E i \in 1..Len(fifo) : fifo[i] = m
    <3>1. PICK i \in 1..Len(fifo) : fifo[i] = m
      BY Zenon, <2>3
    <3>2. i \in 1..Len(fifo') /\ fifo'[i] = m
      BY SMTT(60), <1>2, <3>1
    <3> QED BY Zenon, <3>2 DEF Held
  <2>4. CASE reader[s].msg # m /\ ~\E i \in 1..Len(fifo) : fifo[i] = m
    BY Zenon, <1>1, <1>3, <2>1, <2>4 DEF Held
  <2> QED BY Zenon, <2>2, <2>3, <2>4
<1> QED BY <1>4, <1>5 DEF Places

LEMMA WorkReceivesPlaces == ASSUME ShutdownTyped, Places, WorkReceives PROVE Places'
<1>1. /\ UNCHANGED <<buffer, reader>> /\ work.pc = "recv" /\ fifo # <<>>
      /\ fifo \in Seq(Msgs) /\ fifo' = Tail(fifo) /\ DOMAIN outcome = Msgs /\ work.msg = "none"
  BY Zenon DEF WorkReceives, Places, Holders, ShutdownTyped
<1>2. /\ Len(fifo) \in Nat \ {0} /\ Len(fifo') = Len(fifo) - 1 /\ Head(fifo) = fifo[1]
      /\ \A i \in 1..Len(fifo') : fifo'[i] = fifo[i + 1]
      /\ Head(fifo) \in Msgs
  BY SMTT(60), <1>1
<1>3. \/ work' = work /\ outcome' = [outcome EXCEPT ![Head(fifo)] = "processed"]
      \/ work' = [pc |-> "try", msg |-> Head(fifo), attempt |-> 1] /\ outcome' = outcome
  BY Zenon DEF WorkReceives, Settle
<1>4. Holders'
  <2>1. \/ work'.pc = "recv" /\ work'.msg = "none"
        \/ work'.pc = "try" /\ work'.msg \in Msgs
    <3>1. CASE work' = work
      <4>1. work'.pc = "recv" /\ work'.msg = "none"
        BY Zenon, <1>1, <3>1
      <4> QED BY Zenon, <4>1
    <3>2. CASE work' = [pc |-> "try", msg |-> Head(fifo), attempt |-> 1]
      BY Zenon, <1>2, <3>2
    <3> QED BY Zenon, <1>3, <3>1, <3>2
  <2> QED BY Zenon, <1>1, <2>1 DEF Places, Holders
<1>5. ASSUME NEW m \in Msgs, outcome'[m] = "pending" PROVE Held(m)'
  <2>1. outcome[m] = "pending" /\ (m = Head(fifo) => work'.msg = m)
    BY SMTT(60), <1>1, <1>2, <1>3, <1>5
  <2>2. Held(m) /\ work.msg # m
    BY Zenon, <1>1, <2>1, IngressConstants DEF Places
  <2>3. CASE m = Head(fifo)
    BY Zenon, <2>1, <2>3 DEF Held
  <2>4. CASE m # Head(fifo) /\ \E i \in 1..Len(fifo) : fifo[i] = m
    <3>1. PICK i \in 1..Len(fifo) : fifo[i] = m
      BY Zenon, <2>4
    <3>2. i - 1 \in 1..Len(fifo') /\ fifo'[i - 1] = fifo[(i - 1) + 1]
      BY SMTT(60), <1>2, <2>4, <3>1
    <3>3. fifo'[i - 1] = m
      BY SMTT(60), <3>1, <3>2
    <3> QED BY Zenon, <3>2, <3>3 DEF Held
  <2>5. CASE ~\E i \in 1..Len(fifo) : fifo[i] = m
    BY Zenon, <1>1, <2>2, <2>5 DEF Held
  <2> QED BY Zenon, <2>3, <2>4, <2>5
<1> QED BY Zenon, <1>4, <1>5 DEF Places

\* An attempt ends, one way or the other.
LEMMA AttemptPlaces ==
  ASSUME ShutdownTyped, Places, work.msg \in Msgs, UNCHANGED <<buffer, reader, fifo>>, work' = Receive,
         NEW o \in {"processed", "lost"}, Settle(work.msg, o)
  PROVE  Places'
<1>1. DOMAIN outcome = Msgs /\ outcome' = [outcome EXCEPT ![work.msg] = o]
  BY Zenon DEF ShutdownTyped, Settle
<1>2. /\ \A m \in Msgs : outcome'[m] = "pending" => outcome[m] = "pending" /\ m # work.msg
      /\ work'.pc = "recv" /\ work'.msg = "none"
  BY Zenon, <1>1 DEF Receive
<1>3. Holders'
  BY SMTT(60), <1>2 DEF Places, Holders
<1> QED BY SMTT(60), <1>2, <1>3 DEF Places, Held

LEMMA IngressPlaces == ASSUME ShutdownTyped, Places, IngressNext PROVE Places'
<1>1. ASSUME NEW s \in Subjects, ReaderFails(s) PROVE Places'
  BY Zenon, <1>1, GenerationPlaces DEF ReaderFails
<1>2. ASSUME work.pc = "try" PROVE work.msg \in Msgs
  BY Zenon, <1>2 DEF Places, Holders
<1>3. ASSUME WorkStores \/ WorkRefused \/ WorkPermanent PROVE Places'
  BY Zenon, <1>2, <1>3, AttemptPlaces DEF WorkStores, WorkRefused, WorkPermanent
<1>4. ASSUME WorkReadFails \/ WorkWriteFails PROVE Places'
  <2>1. work.pc = "try" /\ Transient
    BY Zenon, <1>4 DEF WorkReadFails, WorkWriteFails
  <2>2. CASE work.attempt < MaxAttempts
    <3>1. work' = [work EXCEPT !.pc = "sleep"] /\ UNCHANGED <<buffer, reader, fifo, outcome>>
      BY Zenon, <2>1, <2>2 DEF Transient
    <3>2. work'.pc = "sleep" /\ work'.msg = work.msg /\ work'.attempt = work.attempt
      BY Zenon, <3>1 DEF ShutdownTyped
    <3>3. Holders'
      BY SMTT(60), <1>2, <2>1, <2>2, <3>1, <3>2 DEF Places, Holders
    <3> QED BY SMTT(60), <3>1, <3>2, <3>3 DEF Places, Held
  <2>3. CASE ~(work.attempt < MaxAttempts)
    BY Zenon, <2>1, <2>3, <1>2, AttemptPlaces DEF Transient
  <2> QED BY <2>2, <2>3
<1>5. ASSUME WorkRetries PROVE Places'
  <2>1. work' = [pc |-> "try", msg |-> work.msg, attempt |-> work.attempt + 1]
    BY Zenon, <1>5 DEF WorkRetries, ShutdownTyped
  <2> QED BY <1>5, <2>1 DEF WorkRetries, Places, Holders, Held
<1>6. ASSUME WorkEnds PROVE Places'
  <2>1. work' = [pc |-> "ended", msg |-> "none", attempt |-> 0] /\ work.msg = "none"
    BY Zenon, <1>6 DEF WorkEnds, Receive, Places, Holders
  <2> QED BY <1>6, <2>1 DEF WorkEnds, Places, Holders, Held
<1> QED
  BY Zenon, <1>1, <1>3, <1>4, <1>5, <1>6, ArrivePlaces, ReaderTakesPlaces, ReaderSendsPlaces,
     WorkReceivesPlaces DEF IngressNext, ReaderStep, WorkStep

-----------------------------------------------------------------------------
\* The steps of the other tasks and of shutdown() itself.
HandleNext ==
  \/ SupStep \/ EgressEnds \/ OperationsEnds \/ \E t \in doomed : TaskAborted(t)
  \/ GenerationAborted \/ ProcessorAborted \/ ExclusionEnds \/ DeliveryEnds
  \/ DeadlinePasses \/ HandleStep

\* What they leave of the ingress path.
LEMMA HandlePath ==
  ASSUME ShutdownTyped, HandleNext
  PROVE  \/ UNCHANGED path
         \/ SupConnects /\ UNCHANGED <<buffer, fifo, work, docs, outcome>>
         \/ GenerationEnds /\ UNCHANGED <<fifo, work, docs>>
         \/ ProcessorAborted
BY ZenonT(60) DEF HandleNext, path, ingressVars, SupStep, SupConnectFails, SupReturns, SupConnects,
       SupStopsReaders, SupStopExpires, SupJoinsEgress, SupEgressExpires, SupFlushes, SupDrains,
       SupClientFails, EgressEnds, OperationsEnds, TaskAborted, GenerationAborted, ExclusionEnds,
       DeliveryEnds, DeadlinePasses, HandleStep, BeginShutdown, JoinProducers, JoinSupervisor,
       JoinConsumers, JoinLedgers, JoinOperations

LEMMA HandlePlaces ==
  ASSUME ShutdownTyped, Places, Stops, HandleNext
  PROVE  /\ Places' /\ buffer' \in [Subjects -> Msgs \cup {"none"}]
         /\ reader' \in [Subjects -> [pc : {"next", "send", "ended"}, msg : Msgs \cup {"none"}]]
         /\ fifo' \in Seq(Msgs) /\ Len(fifo') <= FifoCap
         /\ work' \in [pc : {"recv", "try", "sleep", "ended"}, msg : Msgs \cup {"none"},
                        attempt : 0 .. MaxAttempts]
         /\ docs' \in [Msgs -> Nat]
         /\ outcome' \in [Msgs -> {"none", "pending", "discarded", "processed", "lost"}]
<1> USE IngressConstants
<1>1. CASE UNCHANGED path
  BY SMTT(60), <1>1 DEF path, Places, Holders, Held, ShutdownTyped
<1>2. CASE SupConnects /\ UNCHANGED <<buffer, fifo, work, docs, outcome>>
  <2>1. /\ \A s \in Subjects : reader[s].msg = "none" /\ buffer[s] = "none"
        /\ reader' = [s \in Subjects |-> [pc |-> "next", msg |-> "none"]]
    BY Zenon, <1>2 DEF SupConnects, Stops, AllEnded, Places, Holders, Reading
  <2>2. Holders'
    BY SMTT(60), <1>2, <2>1 DEF Places, Holders
  <2>3. \A m \in Msgs : Held(m) => Held(m)'
    BY Zenon, <1>2, <2>1 DEF Held
  <2>4. reader' \in [Subjects -> [pc : {"next", "send", "ended"}, msg : Msgs \cup {"none"}]]
    BY Zenon, <2>1
  <2> QED BY Zenon, <1>2, <2>2, <2>3, <2>4 DEF Places, ShutdownTyped
<1>3. CASE GenerationEnds /\ UNCHANGED <<fifo, work, docs>>
  <2>1. /\ buffer' \in [Subjects -> Msgs \cup {"none"}]
        /\ reader' \in [Subjects -> [pc : {"next", "send", "ended"}, msg : Msgs \cup {"none"}]]
        /\ outcome' \in [Msgs -> {"none", "pending", "discarded", "processed", "lost"}]
    BY Zenon, <1>3 DEF GenerationEnds, Ended, ShutdownTyped
  <2> QED BY SMTT(60), <1>3, <2>1, GenerationPlaces DEF ShutdownTyped
<1>4. CASE ProcessorAborted
  <2>1. /\ work' = [pc |-> "ended", msg |-> "none", attempt |-> 0] /\ fifo' = <<>>
        /\ UNCHANGED <<buffer, reader, docs>>
    BY Zenon, <1>4 DEF ProcessorAborted, Receive
  <2>2. ASSUME NEW m \in Msgs, outcome'[m] = "pending" PROVE Held(m)'
    <3>1. outcome[m] = "pending" /\ m # work.msg /\ ~\E i \in DOMAIN fifo : fifo[i] = m
      BY Zenon, <1>4, <2>2 DEF ProcessorAborted
    <3>2. Held(m) /\ DOMAIN fifo = 1..Len(fifo)
      BY SMTT(60), <3>1 DEF Places, ShutdownTyped
    <3> QED BY Zenon, <2>1, <3>1, <3>2 DEF Held
  <2>3. Holders'
    BY Zenon, <2>1 DEF Places, Holders
  <2>4. /\ fifo' \in Seq(Msgs) /\ Len(fifo') <= FifoCap
        /\ outcome' \in [Msgs -> {"none", "pending", "discarded", "processed", "lost"}]
    BY SMTT(60), <1>4, <2>1 DEF ProcessorAborted, ShutdownTyped
  <2>5. work' \in [pc : {"recv", "try", "sleep", "ended"}, msg : Msgs \cup {"none"},
                   attempt : 0 .. MaxAttempts]
    BY SMTT(60), <2>1
  <2> QED BY SMTT(60), <2>1, <2>2, <2>3, <2>4, <2>5 DEF Places, ShutdownTyped
<1> QED BY Zenon, <1>1, <1>2, <1>3, <1>4, HandlePath

\* At the join of the supervisor, its program counter is its result.
LEMMA HandleTyped ==
  ASSUME ShutdownTyped, Places, Stops, HandleNext PROVE ShutdownTyped'
<1> USE DEF HandleNext, path, ingressVars, handleVars, SupStep, SupConnectFails, SupReturns,
    SupConnects, SupStopsReaders, SupStopExpires, SupJoinsEgress, SupEgressExpires, SupFlushes,
    SupDrains, SupClientFails, EgressEnds, OperationsEnds, TaskAborted, GenerationAborted,
    ProcessorAborted, ExclusionEnds, DeliveryEnds, DeadlinePasses, HandleStep, BeginShutdown,
    JoinProducers, JoinConsumers, JoinLedgers, JoinOperations
<1>1. /\ accepting' \in BOOLEAN /\ held' \in BOOLEAN /\ expired' \in BOOLEAN
  BY ZenonT(60) DEF ShutdownTyped, JoinSupervisor
<1>2. exclusion' \in Workers /\ delivery' \in Workers /\ storeFails' \in 0 .. MaxStoreFails
  BY ZenonT(60) DEF ShutdownTyped, Workers, JoinSupervisor
<1>3. stage' \in {"idle", "producers", "supervisor", "consumers", "ledgers", "operations", "done"}
  BY ZenonT(60) DEF ShutdownTyped, JoinSupervisor
<1>4. sup' \in {"connect", "run", "egress", "flush", "drain", "none", "client", "deadline"}
  BY ZenonT(60) DEF ShutdownTyped, JoinSupervisor
<1>5. live' \subseteq live \cup Tasks
  BY ZenonT(60) DEF Tasks, Producers, JoinSupervisor
<1>6. doomed' \subseteq doomed \cup Tasks \cup {"generation", "processor"}
  BY ZenonT(60) DEF Tasks, Producers, JoinSupervisor
<1>7. failure' \in {"none", "client", "deadline", "ledger"}
  <2>1. CASE JoinSupervisor
    BY ZenonT(60), <2>1 DEF JoinSupervisor, Fail, ShutdownTyped, Stops, AfterSupervisor, Results
  <2>2. CASE ~JoinSupervisor
    BY ZenonT(60), <2>2 DEF ShutdownTyped, Fail
  <2> QED BY Zenon, <2>1, <2>2
<1> HIDE DEF HandleNext
<1> QED BY Zenon, <1>1, <1>2, <1>3, <1>4, <1>5, <1>6, <1>7, HandlePlaces DEF ShutdownTyped

\* The supervisor stops the readers before it returns and egress before it flushes.
LEMMA StopsStep == ASSUME ShutdownTyped, Places, Stops, [ShutdownNext]_shutdownVars PROVE Stops'
<1> USE DEF Stops, AllEnded, AfterSupervisor, AfterConsumers, Results
<1>1. ASSUME UNCHANGED handleVars, exclusion' = exclusion,
             \A s \in Subjects : reader[s].pc = "ended" => reader'[s].pc = "ended"
      PROVE  Stops'
  BY Zenon, <1>1 DEF handleVars
<1>2. CASE IngressNext /\ UNCHANGED handleVars
  <2>1. exclusion' = exclusion
    BY ZenonT(60), <1>2 DEF IngressNext, ReaderStep, WorkStep, Arrive, ReaderTakes, ReaderSends, ReaderFails,
       WorkReceives, WorkStores, WorkRefused, WorkReadFails, WorkWriteFails, Transient,
       WorkPermanent, WorkRetries, WorkEnds
  <2>2. \A s \in Subjects : reader[s].pc = "ended" => reader'[s].pc = "ended"
    <3>1. DOMAIN reader = Subjects
      BY Zenon DEF ShutdownTyped
    <3> QED
      BY SMTT(60), <1>2, <3>1 DEF IngressNext, ReaderStep, WorkStep, Arrive, ReaderTakes, ReaderSends,
         ReaderFails,
       GenerationEnds, Ended, WorkReceives, WorkStores, WorkRefused, WorkReadFails, WorkWriteFails, Transient,
       WorkPermanent, WorkRetries, WorkEnds
  <2> QED BY Zenon, <1>1, <1>2, <2>1, <2>2
<1>3. ASSUME UNCHANGED reader PROVE AllEnded' <=> AllEnded
  BY Zenon, <1>3
<1>4. ASSUME GenerationEnds PROVE AllEnded'
  BY SMTT(60), <1>4 DEF GenerationEnds, Ended
<1> HIDE DEF AllEnded
<1> USE DEF Producers, path, ingressVars, handleVars
<1>5. CASE SupStep
  BY SMTT(60), <1>3, <1>4, <1>5 DEF SupStep, SupConnectFails, SupReturns, SupConnects, SupStopsReaders,
     SupStopExpires, SupJoinsEgress, SupEgressExpires, SupFlushes, SupDrains, SupClientFails, ShutdownTyped
<1>6. CASE EgressEnds \/ OperationsEnds \/ ExclusionEnds \/ DeliveryEnds \/ DeadlinePasses
  BY SMTT(60), <1>3, <1>6 DEF EgressEnds, OperationsEnds, ExclusionEnds, DeliveryEnds, DeadlinePasses
<1>7. CASE \E t \in doomed : TaskAborted(t)
  BY <1>3, <1>7 DEF TaskAborted
<1>8. CASE GenerationAborted \/ ProcessorAborted
  BY SMTT(60), <1>3, <1>4, <1>8 DEF GenerationAborted, ProcessorAborted
<1>9. CASE HandleStep
  BY SMTT(60), <1>3, <1>9 DEF HandleStep, BeginShutdown, JoinProducers, JoinSupervisor, JoinConsumers,
     JoinLedgers, JoinOperations
<1>10. CASE UNCHANGED shutdownVars
  BY Zenon, <1>3, <1>10 DEF shutdownVars
<1> QED BY Zenon, <1>2, <1>5, <1>6, <1>7, <1>8, <1>9, <1>10 DEF ShutdownNext

\* A join that did not happen is recorded as a failure.
LEMMA StagesStep == ASSUME ShutdownTyped, Places, Stops, Stages, [ShutdownNext]_shutdownVars PROVE Stages'
<1> USE DEF Stages, AfterProducers, AfterSupervisor, AfterConsumers, AfterLedgers
<1>1. CASE IngressNext /\ UNCHANGED handleVars
  <2>1. UNCHANGED <<stage, doomed, live, sup, delivery, failure>>
    BY Zenon, <1>1 DEF handleVars
  <2>2. exclusion' = exclusion
    BY Zenon, <1>1 DEF IngressNext, ReaderStep, WorkStep, Arrive, ReaderTakes, ReaderSends, ReaderFails,
       WorkReceives, WorkStores, WorkRefused, WorkReadFails, WorkWriteFails, Transient,
       WorkPermanent, WorkRetries, WorkEnds
  <2>3. work.pc = "ended" => work' = work
    BY Zenon, <1>1 DEF IngressNext, ReaderStep, WorkStep, Arrive, ReaderTakes, ReaderSends, ReaderFails,
       WorkReceives, WorkStores, WorkRefused, WorkReadFails, WorkWriteFails, Transient,
       WorkPermanent, WorkRetries, WorkEnds
  <2>4. ASSUME failure = "none", NEW m \in Msgs PROVE outcome'[m] # "lost"
    <3>1. outcome[m] # "lost" /\ outcome \in [Msgs -> {"none", "pending", "discarded", "processed", "lost"}]
      BY Zenon, <2>4 DEF ShutdownTyped
    <3>2. CASE WorkRefused
      <4>1. exclusion = "up"
        BY ZenonT(60), <2>4, <3>2 DEF WorkRefused, Stops
      <4> QED BY SMTT(60), <3>1, <3>2, <4>1 DEF WorkRefused, Settle
    <3>3. CASE ~WorkRefused
      BY SMTT(60), <1>1, <3>1, <3>3 DEF IngressNext, ReaderStep, WorkStep, Arrive, ReaderTakes, ReaderSends,
         ReaderFails, GenerationEnds, Settle, WorkReceives, WorkStores, WorkReadFails,
         WorkWriteFails, Transient, WorkPermanent, WorkRetries, WorkEnds
    <3> QED BY Zenon, <3>2, <3>3
  <2> QED BY Zenon, <2>1, <2>2, <2>3, <2>4
<1>2. ASSUME GenerationEnds, \A m \in Msgs : outcome[m] # "lost"
      PROVE  \A m \in Msgs : outcome'[m] # "lost"
  BY SMTT(60), <1>2 DEF GenerationEnds
<1> USE DEF Producers, path, ingressVars, handleVars
<1>3. CASE SupStep
  BY SMTT(60), <1>2, <1>3 DEF SupStep, SupConnectFails, SupReturns, SupConnects, SupStopsReaders,
     SupStopExpires, SupJoinsEgress, SupEgressExpires, SupFlushes, SupDrains, SupClientFails, ShutdownTyped
<1>4. CASE EgressEnds \/ OperationsEnds \/ ExclusionEnds \/ DeliveryEnds \/ DeadlinePasses
  BY SMTT(60), <1>4 DEF EgressEnds, OperationsEnds, ExclusionEnds, DeliveryEnds, DeadlinePasses
<1>5. CASE \E t \in doomed : TaskAborted(t)
  BY Zenon, <1>5 DEF TaskAborted
<1>6. CASE GenerationAborted \/ ProcessorAborted
  BY ZenonT(60), <1>2, <1>6 DEF GenerationAborted, ProcessorAborted
<1>7. CASE HandleStep
  BY SMTT(60), <1>7 DEF HandleStep, BeginShutdown, JoinProducers, JoinSupervisor, JoinConsumers,
     JoinLedgers, JoinOperations, Fail
<1>8. CASE UNCHANGED shutdownVars
  BY Zenon, <1>8 DEF shutdownVars
<1> QED BY Zenon, <1>1, <1>3, <1>4, <1>5, <1>6, <1>7, <1>8 DEF ShutdownNext

-----------------------------------------------------------------------------
LEMMA ShutdownStep == ShutdownInv /\ [ShutdownNext]_shutdownVars => ShutdownInv'
<1> SUFFICES ASSUME ShutdownInv, [ShutdownNext]_shutdownVars PROVE ShutdownInv'
  BY Zenon
<1> USE DEF ShutdownInv
<1>1. ShutdownTyped' /\ Places'
  <2>1. CASE IngressNext /\ UNCHANGED handleVars
    BY Zenon, <2>1, IngressTyped, IngressPlaces
  <2>2. CASE HandleNext
    BY Zenon, <2>2, HandleTyped, HandlePlaces
  <2>3. CASE UNCHANGED shutdownVars
    BY <2>3 DEF shutdownVars, ingressVars, path, handleVars, ShutdownTyped, Places, Holders, Held
  <2> QED BY Zenon, <2>1, <2>2, <2>3 DEF ShutdownNext, HandleNext
<1> QED BY <1>1, StoredStep, StopsStep, StagesStep

\* Whatever the order in which tasks end, are aborted or hang: the state has its type,
\* no message becomes two documents although its store operation is retried, and a
\* clean report means that no task and no journal worker runs any more (runtime.rs,
\* shutdown, and ingress.rs, process_item).
THEOREM ShutdownAlwaysSound == ShutdownSpec => []ShutdownIsSound
<1>1. ShutdownInv => ShutdownIsSound
  <2> SUFFICES ASSUME ShutdownInv, Clean
               PROVE  /\ live = {} /\ work.pc = "ended" /\ AllEnded
                      /\ exclusion = "ended" /\ delivery = "ended"
    BY Zenon DEF ShutdownInv, ShutdownIsSound, CleanMeansQuiet, AllEnded
  <2>1. /\ live \subseteq Tasks /\ AllEnded /\ "egress" \notin live /\ "producers" \notin live
        /\ "supervisor" \notin live /\ "operations" \notin live /\ work.pc = "ended"
        /\ exclusion = "ended" /\ delivery = "ended"
    BY Zenon DEF ShutdownInv, ShutdownTyped, Stops, Stages, Clean, AfterProducers, AfterSupervisor,
           AfterConsumers, AfterLedgers
  <2> QED BY Zenon, <2>1 DEF Tasks, Producers
<1> QED BY <1>1, ShutdownStarts, ShutdownStep, PTL DEF ShutdownSpec

\* A clean report means that every message admitted to the FIFO came to its counted
\* end: none is still on its way, none was dropped with the processor, and none was
\* refused by an exclusion journal that stopped too early (runtime.rs, shutdown).
THEOREM CleanAlwaysDrains == ShutdownSpec => []CleanDrainsIngress
<1>1. ShutdownInv => CleanDrainsIngress
  <2> SUFFICES ASSUME ShutdownInv, Clean, NEW m \in Msgs
               PROVE  outcome[m] \notin {"pending", "lost"}
    BY Zenon DEF CleanDrainsIngress
  <2>1. outcome[m] # "lost" /\ work.pc = "ended" /\ AllEnded
    BY Zenon DEF ShutdownInv, Stages, Stops, Clean, AfterConsumers, AfterSupervisor
  <2>2. \A s \in Subjects : reader[s].msg = "none" /\ buffer[s] = "none"
    BY Zenon, <2>1 DEF ShutdownInv, Places, Holders, AllEnded
  <2>3. work.msg = "none" /\ Len(fifo) = 0
    BY Zenon, <2>1 DEF ShutdownInv, Places, Holders
  <2>4. ~Held(m)
    BY SMTT(60), <2>2, <2>3, IngressConstants DEF Held
  <2> QED BY Zenon, <2>1, <2>4 DEF ShutdownInv, Places
<1> QED BY <1>1, ShutdownStarts, ShutdownStep, PTL DEF ShutdownSpec

-----------------------------------------------------------------------------
(***************************************************************************)
(* Commands.  The store that a command has open is its own: a temporary    *)
(* one, or the persistent one under the lock.  What a command wrote can    *)
(* only be found, anywhere, once it has written; a persistent one's write  *)
(* is in the persistent store if it is anywhere, because a document is     *)
(* replaced only where there was none, and what syncs in afterwards has    *)
(* not been in that store before.                                          *)
(***************************************************************************)
Whereabouts == Verbs \cup {"start", "open", "dial", "settle", "put", "delta", "push", "roundTrip", "answer",
                         "confirmed", "done", Gone}
Commands == [verb : Verbs, wait : BOOLEAN, persistent : BOOLEAN, pc : Whereabouts,
             base : SUBSET Changes, due : BOOLEAN, code : {"none", "ok", "failed", "interrupted"}]

CliTyped ==
  /\ cmd \in [Cmds -> Commands]
  /\ store \in [Cmds \cup {Disk} -> SUBSET Changes] /\ node \subseteq Changes
  /\ sent \in [Cmds -> SUBSET Changes] /\ shown \in [Cmds -> SUBSET Changes]
  /\ link \in [Cmds -> {"none", "up", "banned"}] /\ notes \in [Cmds -> 0..NoteCap]

Locked == \A c \in Cmds : cmd[c].persistent /\ Open(c) => lock = c

Wrote == {"push", "roundTrip", "answer", "confirmed", "done", Gone}

\* What a command wrote is in its store.
Stored == \A c \in Cmds : cmd[c].pc \in Wrote \ {Gone} => c \in Local(c)

\* A tombstone that is to be confirmed, or anything about to be, is on its way to the
\* peer, or there.
Arriving == \A c \in Cmds :
  /\ cmd[c].pc = "roundTrip" /\ cmd[c].verb = "delete" /\ Linked(c) => c \in sent[c] \cup node
  /\ cmd[c].pc = "answer" /\ Linked(c) => c \in sent[c] \cup node
  /\ cmd[c].pc = "confirmed" => c \in node

Spread(x) ==
  x \in node \/ (\E q \in Cmds : x \in sent[q]) \/ (\E d \in Cmds \cup {Disk} : x \in store[d])
Known(x) == Spread(x) \/ cmd[x].pc = "push" \/ cmd[x].due
Traced == \A c \in Cmds :
  /\ cmd[c].pc # Gone => cmd[c].code = "none"
  /\ Known(c) => cmd[c].pc \in Wrote /\ cmd[c].code # "failed"

OnDisk == \A x \in Cmds : cmd[x].persistent /\ Known(x) => x \in store[Disk]
Blank == \A c \in Cmds : cmd[c].pc = "put" /\ cmd[c].persistent =>
           \A x \in store[Disk] \cap Cmds : cmd[x].verb # "delete" => ~cmd[x].persistent

CliInv ==
  CliTyped /\ Locked /\ Stored /\ Arriving /\ Traced /\ OnDisk /\ Blank /\ ObserveIsCurrent

(***************************************************************************)
(* What a step of a command does.                                          *)
(***************************************************************************)
Frame(c) ==
  /\ \A q \in Cmds \ {c} : /\ cmd'[q] = cmd[q] /\ link'[q] = link[q] /\ sent'[q] = sent[q]
                           /\ notes'[q] = notes[q] /\ shown'[q] = shown[q]
  /\ cmd'[c].verb = cmd[c].verb /\ cmd'[c].wait = cmd[c].wait
  /\ cmd'[c].persistent = cmd[c].persistent

Ends(c) ==
  /\ cmd'[c].pc = Gone /\ cmd'[c].code \in {"ok", "failed", "interrupted"} /\ cmd'[c].due = FALSE
  /\ cmd[c].pc \in {"start", "open", "dial", "create", "update", "put", "delta", "delete"} \/
       (cmd[c].pc \in {"done", "confirmed", "query", "observe"} /\ cmd'[c].code # "failed")
  /\ lock' = IF lock = c THEN Disk ELSE lock
  /\ store'[c] = {} /\ (\A d \in (Cmds \cup {Disk}) \ {c} : store'[d] = store[d]) /\ node' = node
  /\ link'[c] = "none" /\ sent'[c] = {}

Proceeds(c) ==
  /\ cmd'[c].code = cmd[c].code /\ cmd'[c].due = cmd[c].due
  /\ store' = store /\ node' = node /\ notes' = notes
  /\ \/ cmd[c].pc = "start" /\ cmd'[c].pc = "open" /\ UNCHANGED <<lock, link, sent, shown>>
     \/ /\ cmd[c].pc = "open" /\ cmd'[c].pc = "dial" /\ (cmd[c].persistent => lock = Disk)
        /\ lock' = (IF cmd[c].persistent THEN c ELSE lock) /\ UNCHANGED <<link, sent, shown>>
     \/ /\ cmd[c].pc = "dial" /\ cmd'[c].pc = "settle" /\ sent'[c] \in {Local(c), {}}
        /\ UNCHANGED <<lock, shown>>
     \/ /\ cmd[c].pc = "settle" /\ cmd'[c].pc = cmd[c].verb /\ UNCHANGED <<lock, link, sent>>
        /\ cmd[c].verb = "observe" => shown'[c] = Data(Local(c))
     \/ /\ cmd[c].pc \in {"create", "update"} /\ cmd'[c].pc \in {"put", "delta"}
        /\ cmd'[c].pc = "put" => ~Exists(Local(c))
        /\ UNCHANGED <<lock, link, sent, shown>>
     \/ /\ cmd[c].pc = "push" /\ cmd'[c].pc \in {"roundTrip", "done"} /\ UNCHANGED <<lock, link, shown>>
        /\ sent'[c] = sent[c] \cup {c} \/
             (sent'[c] = sent[c] /\ (cmd[c].verb = "delete" => cmd'[c].pc = "done"))
     \/ /\ cmd[c].pc = "roundTrip" /\ cmd'[c].pc \in {"answer", "done"} /\ UNCHANGED <<lock, link, shown>>
        /\ sent'[c] = sent[c] \cup Data(Local(c)) \/ (sent'[c] = sent[c] /\ cmd'[c].pc = "done")
     \/ /\ cmd[c].pc = "answer" /\ cmd'[c].pc \in {"confirmed", "done"} /\ UNCHANGED <<lock, link, sent, shown>>
        /\ cmd'[c].pc = "confirmed" => Linked(c) /\ sent[c] = {}

Writes(c) ==
  /\ cmd[c].pc \in {"put", "delta", "delete"} /\ cmd'[c].pc \in {"push", "done"}
  /\ cmd'[c].code = cmd[c].code
  /\ \A d \in (Cmds \cup {Disk}) \ {Dir(c)} : store'[d] = store[d]
  /\ c \in store'[Dir(c)] /\ store'[Dir(c)] \subseteq Local(c) \cup {c}
  /\ \A x \in Local(c) : ~IsData(x) \/ cmd[c].pc # "put" => x \in store'[Dir(c)]
  /\ UNCHANGED <<lock, link, sent, node, notes, shown>>

LEMMA TurnsEffect ==
  ASSUME CliTyped, NEW c \in Cmds, NEW t \in Commands, Turns(c, t)
  PROVE  cmd' \in [Cmds -> Commands] /\ cmd'[c] = t /\ \A q \in Cmds \ {c} : cmd'[q] = cmd[q]
BY Zenon DEF CliTyped, Turns

LEMMA GoesEffect ==
  ASSUME CliTyped, NEW c \in Cmds, NEW p \in Whereabouts, GoesTo(c, p)
  PROVE  /\ cmd' \in [Cmds -> Commands] /\ \A q \in Cmds \ {c} : cmd'[q] = cmd[q]
         /\ cmd'[c].pc = p /\ cmd'[c].code = cmd[c].code /\ cmd'[c].due = cmd[c].due
         /\ cmd'[c].verb = cmd[c].verb /\ cmd'[c].wait = cmd[c].wait
         /\ cmd'[c].persistent = cmd[c].persistent
<1>. DEFINE t == [cmd[c] EXCEPT !.pc = p]
<1>1. Turns(c, t)
  BY Zenon DEF GoesTo
<1>2. cmd[c] \in Commands
  BY Zenon DEF CliTyped
<1>3. /\ t \in Commands /\ t.pc = p /\ t.code = cmd[c].code /\ t.due = cmd[c].due
      /\ t.verb = cmd[c].verb /\ t.wait = cmd[c].wait /\ t.persistent = cmd[c].persistent
  BY Zenon, <1>2 DEF Commands
<1>. HIDE DEF t
<1>. QED  BY Zenon, <1>1, <1>3, TurnsEffect

LEMMA LeaveEffect ==
  ASSUME CliTyped, NEW c \in Cmds, NEW x \in {"ok", "failed", "interrupted"}, Leave(c, x), node' = node,
         cmd[c].pc \in {"start", "open", "dial", "create", "update", "put", "delta", "delete"} \/
           (cmd[c].pc \in {"done", "confirmed", "query", "observe"} /\ x # "failed")
  PROVE  CliTyped' /\ Frame(c) /\ Ends(c)
<1>. DEFINE t == [cmd[c] EXCEPT !.pc = Gone, !.code = x, !.due = FALSE, !.base = {}]
<1>1. Turns(c, t)
  BY Zenon DEF Leave
<1>2. cmd[c] \in Commands /\ Gone \in Whereabouts
  BY Zenon DEF CliTyped, Whereabouts
<1>3. /\ t \in Commands /\ t.pc = Gone /\ t.code = x /\ t.due = FALSE
      /\ t.verb = cmd[c].verb /\ t.wait = cmd[c].wait /\ t.persistent = cmd[c].persistent
  BY Zenon, <1>2 DEF Commands
<1>. HIDE DEF t
<1>4. /\ cmd' \in [Cmds -> Commands] /\ cmd'[c] = t
      /\ \A q \in Cmds \ {c} : cmd'[q] = cmd[q]
  BY Zenon, <1>1, <1>3, TurnsEffect
<1>5. /\ link' \in [Cmds -> {"none", "up", "banned"}] /\ link'[c] = "none"
      /\ \A q \in Cmds \ {c} : link'[q] = link[q]
  BY DEF Leave, CliTyped
<1>6. /\ sent' \in [Cmds -> SUBSET Changes] /\ sent'[c] = {}
      /\ \A q \in Cmds \ {c} : sent'[q] = sent[q]
  BY DEF Leave, CliTyped
<1>7. shown' \in [Cmds -> SUBSET Changes] /\ \A q \in Cmds \ {c} : shown'[q] = shown[q]
  BY Zenon DEF Leave, CliTyped
<1>8. notes' \in [Cmds -> 0..NoteCap] /\ \A q \in Cmds \ {c} : notes'[q] = notes[q]
  BY CliConstants DEF Leave, CliTyped
<1>9. store' \in [Cmds \cup {Disk} -> SUBSET Changes] /\ node' \subseteq Changes
  BY Zenon DEF Leave, CliTyped
<1>10. CliTyped' /\ Frame(c)
  BY ZenonT(60), <1>3, <1>4, <1>5, <1>6, <1>7, <1>8, <1>9 DEF CliTyped, Frame
<1>11. /\ store'[c] = {} /\ \A d \in (Cmds \cup {Disk}) \ {c} : store'[d] = store[d]
       /\ lock' = IF lock = c THEN Disk ELSE lock
  BY Zenon DEF Leave, CliTyped
<1>12. Ends(c)
  BY ZenonT(60), <1>3, <1>4, <1>5, <1>6, <1>11 DEF Ends
<1>. QED  BY Zenon, <1>10, <1>12
\* A step of a command that is under way.
Steps(c) == CliTyped' /\ Frame(c) /\ (Ends(c) \/ Proceeds(c) \/ Writes(c))

LEMMA PlacesOf ==
  /\ Verbs \subseteq Whereabouts /\ "open" \in Whereabouts /\ "dial" \in Whereabouts /\ "settle" \in Whereabouts
  /\ "put" \in Whereabouts /\ "delta" \in Whereabouts /\ "push" \in Whereabouts /\ "roundTrip" \in Whereabouts
  /\ "answer" \in Whereabouts /\ "confirmed" \in Whereabouts /\ "done" \in Whereabouts
BY Zenon DEF Whereabouts

\* A move that leaves all but places and lock as they are.
LEMMA PlainMove ==
  ASSUME CliTyped, NEW c \in Cmds, NEW p \in Whereabouts, GoesTo(c, p),
         UNCHANGED <<store, link, sent, node, notes, shown>>
  PROVE  /\ CliTyped' /\ Frame(c) /\ cmd'[c].pc = p
         /\ cmd'[c].code = cmd[c].code /\ cmd'[c].due = cmd[c].due
BY Zenon, GoesEffect DEF CliTyped, Frame

LEMMA ArgumentsStep ==
  ASSUME CliTyped, NEW c \in Cmds,
         CreateArguments(c) \/ UpdateArguments(c) \/ OtherArguments(c) \/ OpenStore(c)
  PROVE  Steps(c)
<1>1. CASE (Leave(c, "failed") \/ Leave(c, "ok")) /\ cmd[c].pc \in {"start", "open"} /\ node' = node
  BY Zenon, <1>1, LeaveEffect DEF Steps
<1>2. CASE cmd[c].pc = "start" /\ GoesTo(c, "open")
           /\ UNCHANGED <<store, lock, link, sent, node, notes, shown>>
  <2>1. /\ CliTyped' /\ Frame(c) /\ cmd'[c].pc = "open"
        /\ cmd'[c].code = cmd[c].code /\ cmd'[c].due = cmd[c].due
    BY Zenon, <1>2, PlainMove, PlacesOf
  <2>. QED  BY Zenon, <1>2, <2>1 DEF Steps, Proceeds
<1>3. CASE /\ cmd[c].pc = "open" /\ (cmd[c].persistent => lock = Disk)
           /\ lock' = (IF cmd[c].persistent THEN c ELSE lock)
           /\ GoesTo(c, "dial") /\ UNCHANGED <<store, link, sent, node, notes, shown>>
  <2>1. /\ CliTyped' /\ Frame(c) /\ cmd'[c].pc = "dial"
        /\ cmd'[c].code = cmd[c].code /\ cmd'[c].due = cmd[c].due
    BY Zenon, <1>3, PlainMove, PlacesOf
  <2>. QED  BY Zenon, <1>3, <2>1 DEF Steps, Proceeds
<1>. QED
  BY Zenon, <1>1, <1>2, <1>3 DEF CreateArguments, UpdateArguments, OtherArguments, OpenStore, NoCreds

LEMMA DialStep ==
  ASSUME CliTyped, NEW c \in Cmds, Dial(c) \/ Begin(c)
  PROVE  Steps(c)
<1>1. CASE Leave(c, "failed") /\ cmd[c].pc = "dial" /\ node' = node
  BY Zenon, <1>1, LeaveEffect DEF Steps
<1>2. ASSUME NEW l \in {"up", "none"}, cmd[c].pc = "dial", GoesTo(c, "settle"),
             link' = [link EXCEPT ![c] = l],
             sent' = [sent EXCEPT ![c] = IF l = "up" THEN Local(c) ELSE {}],
             UNCHANGED <<store, lock, node, notes, shown>>
      PROVE  Steps(c)
  <2>1. Local(c) \subseteq Changes
    BY Zenon, CliConstants DEF CliTyped, Local, Dir
  <2>2. /\ cmd' \in [Cmds -> Commands] /\ \A q \in Cmds \ {c} : cmd'[q] = cmd[q]
        /\ cmd'[c].pc = "settle" /\ cmd'[c].code = cmd[c].code /\ cmd'[c].due = cmd[c].due
        /\ cmd'[c].verb = cmd[c].verb /\ cmd'[c].wait = cmd[c].wait
        /\ cmd'[c].persistent = cmd[c].persistent
    BY ZenonT(60), <1>2, GoesEffect, PlacesOf
  <2>3. /\ link' \in [Cmds -> {"none", "up", "banned"}]
        /\ \A q \in Cmds \ {c} : link'[q] = link[q]
    BY Zenon, <1>2 DEF CliTyped
  <2>4. /\ sent' \in [Cmds -> SUBSET Changes] /\ sent'[c] \in {Local(c), {}}
        /\ \A q \in Cmds \ {c} : sent'[q] = sent[q]
    BY Zenon, <1>2, <2>1 DEF CliTyped
  <2>5. CliTyped' /\ Frame(c)
    BY ZenonT(60), <1>2, <2>2, <2>3, <2>4 DEF CliTyped, Frame
  <2>6. Proceeds(c)
    BY Zenon, <1>2, <2>2, <2>4 DEF Proceeds
  <2>. QED  BY Zenon, <2>5, <2>6 DEF Steps
<1>3. CASE Begin(c)
  <2>1. cmd[c].verb \in Verbs /\ Data(Local(c)) \subseteq Changes
    BY Zenon, CliConstants DEF CliTyped, Commands, Local, Dir, Data
  <2>2. /\ cmd' \in [Cmds -> Commands] /\ \A q \in Cmds \ {c} : cmd'[q] = cmd[q]
        /\ cmd'[c].pc = cmd[c].verb /\ cmd'[c].code = cmd[c].code /\ cmd'[c].due = cmd[c].due
        /\ cmd'[c].verb = cmd[c].verb /\ cmd'[c].wait = cmd[c].wait
        /\ cmd'[c].persistent = cmd[c].persistent
    BY ZenonT(60), <1>3, <2>1, GoesEffect, PlacesOf DEF Begin
  <2>3. /\ shown' \in [Cmds -> SUBSET Changes] /\ (cmd[c].verb = "observe" => shown'[c] = Data(Local(c)))
        /\ \A q \in Cmds \ {c} : shown'[q] = shown[q]
    BY Zenon, <1>3, <2>1 DEF CliTyped, Begin
  <2>4. CliTyped' /\ Frame(c)
    BY Zenon, <1>3, <2>2, <2>3 DEF CliTyped, Frame, Begin
  <2>5. Proceeds(c)
    BY Zenon, <1>3, <2>2, <2>3 DEF Proceeds, Begin
  <2>. QED  BY Zenon, <2>4, <2>5 DEF Steps
<1>. QED  BY Zenon, <1>1, <1>2, <1>3 DEF Dial
\* A write, by what it makes of the store.
LEMMA WriteEffect ==
  ASSUME CliTyped, NEW c \in Cmds, cmd[c].pc \in {"put", "delta", "delete"}, NEW S \in SUBSET Changes,
         store' = [store EXCEPT ![Dir(c)] = S], c \in S, S \subseteq Local(c) \cup {c},
         \A x \in Local(c) : ~IsData(x) \/ cmd[c].pc # "put" => x \in S,
         AfterWrite(c) \/ GoesTo(c, "push"), UNCHANGED <<lock, link, sent, node, notes, shown>>
  PROVE  Steps(c)
<1>1. /\ cmd' \in [Cmds -> Commands] /\ \A q \in Cmds \ {c} : cmd'[q] = cmd[q]
      /\ cmd'[c].pc \in {"push", "done"}
      /\ cmd'[c].code = cmd[c].code
      /\ cmd'[c].verb = cmd[c].verb /\ cmd'[c].wait = cmd[c].wait
      /\ cmd'[c].persistent = cmd[c].persistent
  <2>1. CASE GoesTo(c, "push")
    BY Zenon, <2>1, GoesEffect, PlacesOf
  <2>2. CASE AfterWrite(c)
    <3>. DEFINE p == IF cmd[c].wait THEN "push" ELSE "done"
                t == [cmd[c] EXCEPT !.pc = p, !.due = TRUE]
    <3>1. Turns(c, t)
      BY Zenon, <2>2 DEF AfterWrite
    <3>2. cmd[c] \in Commands /\ p \in Whereabouts /\ p \in {"push", "done"}
      BY Zenon, PlacesOf DEF CliTyped
    <3>. HIDE DEF p
    <3>3. /\ t \in Commands /\ t.pc = p /\ t.code = cmd[c].code
          /\ t.verb = cmd[c].verb /\ t.wait = cmd[c].wait /\ t.persistent = cmd[c].persistent
      BY Zenon, <3>2 DEF Commands
    <3>. HIDE DEF t
    <3>. QED  BY ZenonT(60), <3>1, <3>2, <3>3, TurnsEffect
  <2>. QED  BY Zenon, <2>1, <2>2
<1>2. Dir(c) \in Cmds \cup {Disk}
  BY Zenon DEF Dir
<1>3. /\ store' \in [Cmds \cup {Disk} -> SUBSET Changes] /\ store'[Dir(c)] = S
      /\ \A d \in (Cmds \cup {Disk}) \ {Dir(c)} : store'[d] = store[d]
  BY <1>2 DEF CliTyped
<1>4. CliTyped' /\ Frame(c)
  BY Zenon, <1>1, <1>3 DEF CliTyped, Frame
<1>5. Writes(c)
  BY Zenon, <1>1, <1>3 DEF Writes
<1>. QED  BY Zenon, <1>4, <1>5 DEF Steps

LEMMA WriteStep ==
  ASSUME CliTyped, NEW c \in Cmds, Put(c) \/ Delta(c) \/ Delete(c)
  PROVE  Steps(c)
<1>1. Local(c) \subseteq Changes /\ c \in Changes
  BY Zenon, CliConstants DEF CliTyped, Local, Dir, Changes
<1>2. CASE WriteFails(c) /\ cmd[c].pc \in {"put", "delta", "delete"}
  BY ZenonT(60), <1>2, LeaveEffect DEF Steps, WriteFails
<1>3. CASE /\ cmd[c].pc = "put" /\ Stores(c, Replace(c)) /\ AfterWrite(c)
           /\ UNCHANGED <<lock, link, sent, node, notes, shown>>
  <2>. DEFINE S == Replace(c)
  <2>1. /\ S \in SUBSET Changes /\ c \in S /\ S \subseteq Local(c) \cup {c}
        /\ \A x \in Local(c) : ~IsData(x) => x \in S
    BY Zenon, <1>1 DEF Replace
  <2>2. store' = [store EXCEPT ![Dir(c)] = S]
    BY Zenon, <1>3 DEF Stores
  <2>. HIDE DEF S
  <2>. QED  BY ZenonT(60), <1>3, <2>1, <2>2, WriteEffect
<1>4. CASE /\ cmd[c].pc \in {"delta", "delete"} /\ Stores(c, Local(c) \cup {c})
           /\ AfterWrite(c) \/ GoesTo(c, "push")
           /\ UNCHANGED <<lock, link, sent, node, notes, shown>>
  <2>. DEFINE S == Local(c) \cup {c}
  <2>1. /\ S \in SUBSET Changes /\ c \in S /\ S \subseteq Local(c) \cup {c}
        /\ \A x \in Local(c) : x \in S
    BY Zenon, <1>1
  <2>2. store' = [store EXCEPT ![Dir(c)] = S]
    BY Zenon, <1>4 DEF Stores
  <2>. HIDE DEF S
  <2>. QED  BY ZenonT(60), <1>4, <2>1, <2>2, WriteEffect
<1>. QED  BY ZenonT(60), <1>2, <1>3, <1>4 DEF Put, Delta, Delete

LEMMA CheckStep ==
  ASSUME CliTyped, NEW c \in Cmds, Create(c) \/ Update(c)
  PROVE  Steps(c)
<1>1. CASE (Leave(c, "failed") \/ Leave(c, "ok")) /\ cmd[c].pc \in {"create", "update"} /\ node' = node
  BY Zenon, <1>1, LeaveEffect DEF Steps
<1>2. CASE /\ cmd[c].pc = "create" /\ ~Exists(Local(c)) /\ GoesTo(c, "put")
           /\ UNCHANGED <<store, lock, link, sent, node, notes, shown>>
  <2>1. /\ CliTyped' /\ Frame(c) /\ cmd'[c].pc = "put"
        /\ cmd'[c].code = cmd[c].code /\ cmd'[c].due = cmd[c].due
    BY ZenonT(60), <1>2, PlainMove, PlacesOf
  <2>. QED  BY ZenonT(60), <1>2, <2>1 DEF Steps, Proceeds
<1>3. CASE /\ cmd[c].pc = "update"
           /\ Turns(c, [cmd[c] EXCEPT !.base = Local(c), !.pc = IF Exists(Local(c)) THEN "delta" ELSE "put"])
           /\ UNCHANGED <<store, lock, link, sent, node, notes, shown>>
  <2>. DEFINE b == Local(c)
              p == IF Exists(Local(c)) THEN "delta" ELSE "put"
              t == [cmd[c] EXCEPT !.base = b, !.pc = p]
  <2>1. Turns(c, t)
    BY ZenonT(60), <1>3
  <2>2. b \in SUBSET Changes
    BY Zenon, CliConstants DEF CliTyped, Local, Dir
  <2>3. cmd[c] \in Commands /\ p \in Whereabouts /\ p \in {"put", "delta"} /\ (p = "put" => ~Exists(Local(c)))
    BY Zenon, PlacesOf DEF CliTyped
  <2>. HIDE DEF p, b
  <2>4. /\ t \in Commands /\ t.pc = p /\ t.code = cmd[c].code /\ t.due = cmd[c].due
        /\ t.verb = cmd[c].verb /\ t.wait = cmd[c].wait /\ t.persistent = cmd[c].persistent
    BY ZenonT(60), <2>2, <2>3 DEF Commands
  <2>. HIDE DEF t
  <2>5. cmd' \in [Cmds -> Commands] /\ cmd'[c] = t /\ \A q \in Cmds \ {c} : cmd'[q] = cmd[q]
    BY Zenon, <2>1, <2>4, TurnsEffect
  <2>6. CliTyped' /\ Frame(c)
    BY Zenon, <1>3, <2>4, <2>5 DEF CliTyped, Frame
  <2>7. Proceeds(c)
    BY ZenonT(60), <1>3, <2>3, <2>4, <2>5 DEF Proceeds
  <2>. QED  BY Zenon, <2>6, <2>7 DEF Steps
<1>. QED  BY ZenonT(60), <1>1, <1>2, <1>3 DEF Create, Update

LEMMA FinishStep ==
  ASSUME CliTyped, NEW c \in Cmds,
         Push(c) \/ RoundTrip(c) \/ Answer(c) \/ Done(c) \/ Query(c) \/ QueryDeadline(c) \/ ObserveEnds(c)
  PROVE  Steps(c)
<1>1. CASE /\ Leave(c, "ok") \/ Leave(c, "interrupted")
           /\ cmd[c].pc \in {"done", "confirmed", "query", "observe"} /\ node' = node
  <2>1. "ok" # "failed" /\ "interrupted" # "failed"
    BY Zenon
  <2>. QED  BY ZenonT(60), <1>1, <2>1, LeaveEffect DEF Steps
<1>2. CASE Answer(c)
  <2>1. PICK p \in {"confirmed", "done"} :
          GoesTo(c, p) /\ (p = "confirmed" => Linked(c) /\ sent[c] = {})
    BY ZenonT(60), <1>2 DEF Answer
  <2>2. UNCHANGED <<store, lock, link, sent, node, notes, shown>> /\ cmd[c].pc = "answer"
    BY ZenonT(60), <1>2 DEF Answer
  <2>3. /\ CliTyped' /\ Frame(c) /\ cmd'[c].pc = p
        /\ cmd'[c].code = cmd[c].code /\ cmd'[c].due = cmd[c].due
    BY ZenonT(60), <2>1, <2>2, PlainMove, PlacesOf
  <2>4. Proceeds(c)
    BY ZenonT(60), <2>1, <2>2, <2>3 DEF Proceeds
  <2>. QED  BY ZenonT(60), <2>3, <2>4 DEF Steps
\* What both steps that send have in common
<1>3. ASSUME NEW p \in Whereabouts, NEW S \in SUBSET Changes, GoesTo(c, p),
             sent' = sent \/ sent' = [sent EXCEPT ![c] = sent[c] \cup S],
             UNCHANGED <<store, lock, link, node, notes, shown>>
      PROVE  /\ CliTyped' /\ Frame(c) /\ cmd'[c].pc = p /\ cmd'[c].code = cmd[c].code
             /\ cmd'[c].due = cmd[c].due
             /\ sent' # sent => sent'[c] = sent[c] \cup S
  <2>1. /\ cmd' \in [Cmds -> Commands] /\ \A q \in Cmds \ {c} : cmd'[q] = cmd[q]
        /\ cmd'[c].pc = p /\ cmd'[c].code = cmd[c].code /\ cmd'[c].due = cmd[c].due
        /\ cmd'[c].verb = cmd[c].verb /\ cmd'[c].wait = cmd[c].wait
        /\ cmd'[c].persistent = cmd[c].persistent
    BY ZenonT(60), <1>3, GoesEffect
  <2>2. /\ sent' \in [Cmds -> SUBSET Changes] /\ (sent' # sent => sent'[c] = sent[c] \cup S)
        /\ \A q \in Cmds \ {c} : sent'[q] = sent[q]
    BY <1>3 DEF CliTyped
  <2>. QED  BY ZenonT(60), <1>3, <2>1, <2>2 DEF CliTyped, Frame
<1>4. CASE Push(c)
  <2>1. PICK p \in {"roundTrip", "done"} :
          /\ GoesTo(c, p)
          /\ \/ sent' = [sent EXCEPT ![c] = sent[c] \cup {c}]
             \/ sent' = sent /\ (cmd[c].verb = "delete" => p = "done")
    BY ZenonT(60), <1>4 DEF Push
  <2>2. UNCHANGED <<store, lock, link, node, notes, shown>> /\ cmd[c].pc = "push"
    BY ZenonT(60), <1>4 DEF Push
  <2>3. p \in Whereabouts /\ {c} \in SUBSET Changes
    BY ZenonT(60), <2>1, PlacesOf DEF Changes
  <2>4. /\ CliTyped' /\ Frame(c) /\ cmd'[c].pc = p /\ cmd'[c].code = cmd[c].code
        /\ cmd'[c].due = cmd[c].due
        /\ sent' # sent => sent'[c] = sent[c] \cup {c}
    BY ZenonT(60), <1>3, <2>1, <2>2, <2>3
  <2>5. sent'[c] = sent[c] \cup {c} \/ (sent'[c] = sent[c] /\ (cmd[c].verb = "delete" => p = "done"))
    BY ZenonT(60), <2>1 DEF CliTyped
  <2>6. Proceeds(c)
    BY ZenonT(60), <2>1, <2>2, <2>4, <2>5 DEF Proceeds
  <2>. QED  BY ZenonT(60), <2>4, <2>6 DEF Steps
<1>5. CASE RoundTrip(c)
  <2>. DEFINE S == Data(Local(c))
  <2>1. S \in SUBSET Changes
    BY Zenon, CliConstants DEF CliTyped, Local, Dir, Data
  <2>2. PICK p \in {"answer", "done"} :
          /\ GoesTo(c, p)
          /\ sent' = [sent EXCEPT ![c] = sent[c] \cup S] \/ (sent' = sent /\ p = "done")
    BY ZenonT(60), <1>5 DEF RoundTrip
  <2>3. UNCHANGED <<store, lock, link, node, notes, shown>> /\ cmd[c].pc = "roundTrip"
    BY ZenonT(60), <1>5 DEF RoundTrip
  <2>. HIDE DEF S
  <2>4. p \in Whereabouts
    BY ZenonT(60), <2>2, PlacesOf
  <2>5. /\ CliTyped' /\ Frame(c) /\ cmd'[c].pc = p /\ cmd'[c].code = cmd[c].code
        /\ cmd'[c].due = cmd[c].due
    BY ZenonT(60), <1>3, <2>1, <2>2, <2>3, <2>4
  <2>6. sent'[c] = sent[c] \cup S \/ (sent'[c] = sent[c] /\ p = "done")
    BY ZenonT(60), <2>2 DEF CliTyped
  <2>7. Proceeds(c)
    BY ZenonT(60), <2>2, <2>3, <2>5, <2>6 DEF Proceeds, S
  <2>. QED  BY ZenonT(60), <2>5, <2>7 DEF Steps
<1>. QED  BY ZenonT(60), <1>1, <1>2, <1>4, <1>5 DEF Done, Query, QueryDeadline, ObserveEnds

\* What goes on beside: connections, the pusher, and what observe reads.
Talks(c) ==
  /\ CliTyped' /\ Frame(c) /\ store' = store /\ lock' = lock
  /\ cmd'[c].pc = cmd[c].pc /\ cmd'[c].code = cmd[c].code /\ (cmd'[c].due => cmd[c].due)
  /\ node' \subseteq node \cup sent[c]
  /\ sent'[c] \in {sent[c], {}, Local(c)} \/ (sent'[c] = sent[c] \cup {c} /\ cmd[c].due)
  /\ Linked(c)' => \/ Linked(c) /\ sent[c] \cup node \subseteq sent'[c] \cup node'
                   \/ sent'[c] = Local(c)
  /\ node \subseteq node'
  /\ (notes'[c] = notes[c] /\ shown'[c] = shown[c]) \/ shown'[c] = Data(Local(c))

Syncs(c) ==
  /\ CliTyped' /\ Frame(c) /\ Joined(c)
  /\ Local(c) \subseteq store'[Dir(c)] /\ store'[Dir(c)] \subseteq Local(c) \cup node
  /\ \A d \in (Cmds \cup {Disk}) \ {Dir(c)} : store'[d] = store[d]
  /\ cmd[c].pc = "observe" /\ notes'[c] = 0 =>
       notes[c] = 0 /\ Data(store'[Dir(c)]) = Data(Local(c))
  /\ UNCHANGED <<cmd, lock, link, sent, node, shown>>

LEMMA LinkSteps ==
  ASSUME CliTyped, NEW c \in Cmds, MdnsFinds(c) \/ LinkFails(c) \/ NodeReceives(c)
  PROVE  Talks(c)
<1>1. Local(c) \subseteq Changes
  BY Zenon, CliConstants DEF CliTyped, Local, Dir
<1>2. UNCHANGED <<cmd, store, lock, notes, shown>>
  BY ZenonT(60) DEF MdnsFinds, LinkFails, NodeReceives
<1>3. /\ link' \in [Cmds -> {"none", "up", "banned"}]
      /\ \A q \in Cmds \ {c} : link'[q] = link[q]
  BY Zenon DEF CliTyped, MdnsFinds, LinkFails, NodeReceives
<1>4. /\ sent' \in [Cmds -> SUBSET Changes] /\ sent'[c] \in {sent[c], {}, Local(c)}
      /\ \A q \in Cmds \ {c} : sent'[q] = sent[q]
  BY SMTT(60), <1>1 DEF CliTyped, MdnsFinds, LinkFails, NodeReceives
<1>5. /\ node \subseteq node' /\ node' \subseteq node \cup sent[c]
      /\ Linked(c)' => \/ Linked(c) /\ sent[c] \cup node \subseteq sent'[c] \cup node'
                       \/ sent'[c] = Local(c)
  BY SMTT(60) DEF CliTyped, MdnsFinds, LinkFails, NodeReceives, Linked
<1>6. node' \subseteq Changes
  BY Zenon, <1>5 DEF CliTyped
<1>7. CliTyped' /\ Frame(c)
  BY ZenonT(60), <1>2, <1>3, <1>4, <1>6 DEF CliTyped, Frame
<1>. QED  BY ZenonT(60), <1>2, <1>4, <1>5, <1>7 DEF Talks

LEMMA PusherStep ==
  ASSUME CliTyped, NEW c \in Cmds, Pusher(c)
  PROVE  Talks(c)
<1>. DEFINE t == [cmd[c] EXCEPT !.due = FALSE]
<1>1. /\ Turns(c, t) /\ UNCHANGED <<store, lock, link, node, notes, shown>> /\ cmd[c].due
  BY Zenon DEF Pusher
<1>2. cmd[c] \in Commands
  BY Zenon DEF CliTyped
<1>3. /\ t \in Commands /\ t.pc = cmd[c].pc /\ t.code = cmd[c].code /\ t.due = FALSE
      /\ t.verb = cmd[c].verb /\ t.wait = cmd[c].wait /\ t.persistent = cmd[c].persistent
  BY Zenon, <1>2 DEF Commands
<1>. HIDE DEF t
<1>4. cmd' \in [Cmds -> Commands] /\ cmd'[c] = t /\ \A q \in Cmds \ {c} : cmd'[q] = cmd[q]
  BY Zenon, <1>1, <1>3, TurnsEffect
<1>5. /\ sent' \in [Cmds -> SUBSET Changes] /\ sent'[c] \in {sent[c], sent[c] \cup {c}}
      /\ sent[c] \subseteq sent'[c] /\ \A q \in Cmds \ {c} : sent'[q] = sent[q]
  BY DEF CliTyped, Pusher, Changes
<1>6. CliTyped' /\ Frame(c)
  BY ZenonT(60), <1>1, <1>3, <1>4, <1>5 DEF CliTyped, Frame
<1>. QED  BY ZenonT(60), <1>1, <1>3, <1>4, <1>5, <1>6 DEF Talks, Linked

LEMMA ObserveStep ==
  ASSUME CliTyped, NEW c \in Cmds, ObserveReads(c)
  PROVE  Talks(c)
<1>1. Data(Local(c)) \subseteq Changes
  BY Zenon, CliConstants DEF CliTyped, Local, Dir, Data
<1>2. UNCHANGED <<cmd, store, lock, link, sent, node>>
  BY ZenonT(60) DEF ObserveReads
<1>3. notes' \in [Cmds -> 0..NoteCap] /\ \A q \in Cmds \ {c} : notes'[q] = notes[q]
  <2>1. notes[c] - 1 \in 0..NoteCap
    BY SMTT(60), CliConstants DEF CliTyped, ObserveReads
  <2>. QED  BY Zenon, <2>1 DEF CliTyped, ObserveReads
<1>4. /\ shown' \in [Cmds -> SUBSET Changes] /\ shown'[c] = Data(Local(c))
      /\ \A q \in Cmds \ {c} : shown'[q] = shown[q]
  BY Zenon, <1>1 DEF CliTyped, ObserveReads
<1>5. CliTyped' /\ Frame(c)
  BY ZenonT(60), <1>2, <1>3, <1>4 DEF CliTyped, Frame
<1>. QED  BY ZenonT(60), <1>2, <1>4, <1>5 DEF Talks, Linked

LEMMA SyncStep ==
  ASSUME CliTyped, NEW c \in Cmds, SyncDocuments(c) \/ SyncTombstones(c)
  PROVE  Syncs(c)
<1>1. Dir(c) \in Cmds \cup {Disk} /\ Local(c) = store[Dir(c)]
  BY ZenonT(60) DEF Dir, Local
<1>2. Joined(c) /\ UNCHANGED <<cmd, lock, link, sent, node, shown>>
  BY Zenon DEF SyncDocuments, SyncTombstones
<1>3. ASSUME NEW S \in SUBSET node, store' = [store EXCEPT ![Dir(c)] = Local(c) \cup S]
      PROVE  /\ store' \in [Cmds \cup {Disk} -> SUBSET Changes]
             /\ store'[Dir(c)] = Local(c) \cup S
             /\ Local(c) \subseteq store'[Dir(c)] /\ store'[Dir(c)] \subseteq Local(c) \cup node
             /\ \A d \in (Cmds \cup {Disk}) \ {Dir(c)} : store'[d] = store[d]
  <2>1. Local(c) \cup S \in SUBSET Changes
    BY SMTT(60), <1>1 DEF CliTyped
  <2>2. /\ store' \in [Cmds \cup {Disk} -> SUBSET Changes] /\ store'[Dir(c)] = Local(c) \cup S
        /\ \A d \in (Cmds \cup {Disk}) \ {Dir(c)} : store'[d] = store[d]
    BY Zenon, <1>1, <1>3, <2>1 DEF CliTyped
  <2>. QED  BY Zenon, <2>2
<1>4. CASE SyncDocuments(c)
  <2>. DEFINE S == Data(node)
  <2>1. S \in SUBSET node /\ store' = [store EXCEPT ![Dir(c)] = Local(c) \cup S]
    BY Zenon, <1>4 DEF SyncDocuments, Data
  <2>2. /\ notes' \in [Cmds -> 0..NoteCap] /\ \A q \in Cmds \ {c} : notes'[q] = notes[q]
        /\ cmd[c].pc = "observe" => notes'[c] # 0
    <3>. DEFINE n == IF cmd[c].pc = "observe" /\ notes[c] < NoteCap THEN notes[c] + 1 ELSE notes[c]
    <3>1. n \in 0..NoteCap /\ (cmd[c].pc = "observe" => n # 0)
      BY CliConstants DEF CliTyped
    <3>2. notes' = [notes EXCEPT ![c] = n]
      BY Zenon, <1>4 DEF SyncDocuments
    <3>. HIDE DEF n
    <3>. QED  BY SMTT(60), <3>1, <3>2 DEF CliTyped
  <2>. HIDE DEF S
  <2>3. CliTyped' /\ Frame(c)
    BY ZenonT(60), <1>2, <1>3, <2>1, <2>2 DEF CliTyped, Frame
  <2>. QED  BY ZenonT(60), <1>2, <1>3, <2>1, <2>2, <2>3 DEF Syncs
<1>5. CASE SyncTombstones(c)
  <2>. DEFINE S == node \ Data(node)
  <2>1. S \in SUBSET node /\ store' = [store EXCEPT ![Dir(c)] = Local(c) \cup S] /\ notes' = notes
    BY Zenon, <1>5 DEF SyncTombstones
  <2>2. Data(Local(c) \cup S) = Data(Local(c))
    BY SMTT(60) DEF Data
  <2>. HIDE DEF S
  <2>3. CliTyped' /\ Frame(c)
    BY ZenonT(60), <1>2, <1>3, <2>1 DEF CliTyped, Frame
  <2>. QED  BY ZenonT(60), <1>2, <1>3, <2>1, <2>2, <2>3 DEF Syncs
<1>. QED  BY Zenon, <1>4, <1>5

LEMMA CliSteps ==
  ASSUME CliTyped, CliNext
  PROVE  \E c \in Cmds : Steps(c) \/ Talks(c) \/ Syncs(c)
BY ZenonT(60), ArgumentsStep, DialStep, CheckStep, WriteStep, FinishStep, LinkSteps, PusherStep,
   ObserveStep, SyncStep DEF CliNext, Work
Acts(c) == Steps(c) \/ Talks(c) \/ Syncs(c)

LEMMA ActsFrame ==
  ASSUME NEW c \in Cmds, Acts(c)
  PROVE  /\ CliTyped' /\ Frame(c) /\ node \subseteq node'
         /\ \A q \in Cmds : /\ cmd'[q].verb = cmd[q].verb /\ cmd'[q].wait = cmd[q].wait
                            /\ cmd'[q].persistent = cmd[q].persistent /\ Dir(q)' = Dir(q)
<1>1. CliTyped' /\ Frame(c) /\ node \subseteq node'
  BY Zenon DEF Acts, Steps, Talks, Syncs, Ends, Proceeds, Writes
<1>2. \A q \in Cmds : /\ cmd'[q].verb = cmd[q].verb /\ cmd'[q].wait = cmd[q].wait
                      /\ cmd'[q].persistent = cmd[q].persistent
  BY Zenon, <1>1 DEF Frame
<1>. QED  BY ZenonT(60), <1>1, <1>2 DEF Dir

(***************************************************************************)
(* One command at a time has the persistent store open, so that no one     *)
(* else changes the documents that a command sees.                         *)
(***************************************************************************)
LEMMA LockedStep ==
  ASSUME Locked, NEW c \in Cmds, Acts(c)
  PROVE  Locked'
<1>. SUFFICES ASSUME NEW q \in Cmds, cmd'[q].persistent, Open(q)' PROVE lock' = q
  BY Zenon DEF Locked
<1>1. cmd[q].persistent /\ Frame(c) /\ Disk \notin Cmds
  BY ZenonT(60), ActsFrame, CliConstants
<1>2. Open(q) => lock = q
  BY ZenonT(60), <1>1 DEF Locked
<1>3. CASE q # c
  <2>1. Open(q) /\ lock = q /\ lock # c /\ lock # Disk
    BY ZenonT(60), <1>1, <1>2, <1>3 DEF Frame, Open
  <2>2. lock' = lock
    BY ZenonT(60), <2>1 DEF Acts, Steps, Talks, Syncs, Ends, Proceeds, Writes
  <2>. QED  BY ZenonT(60), <2>1, <2>2
<1>4. CASE q = c
  <2>1. cmd'[c].pc \notin {"start", "open", Gone}
    BY ZenonT(60), <1>4 DEF Open
  <2>2. CASE Open(c) /\ lock' = lock
    BY ZenonT(60), <1>2, <1>4, <2>2
  <2>3. CASE cmd[c].pc = "open" /\ lock' = (IF cmd[c].persistent THEN c ELSE lock)
    BY ZenonT(60), <1>1, <1>4, <2>3
  <2>4. (Open(c) /\ lock' = lock) \/ (cmd[c].pc = "open" /\ lock' = (IF cmd[c].persistent THEN c ELSE lock))
    <3>1. CASE Ends(c)
      BY ZenonT(60), <2>1, <3>1 DEF Ends
    <3>2. CASE Proceeds(c)
      BY ZenonT(60), <2>1, <3>2 DEF Proceeds, Open, Gone
    <3>3. CASE Writes(c)
      BY Zenon, <3>3 DEF Writes, Open, Gone
    <3>4. CASE Talks(c)
      BY ZenonT(60), <2>1, <3>4 DEF Talks, Open
    <3>5. CASE Syncs(c)
      BY ZenonT(60), <3>5 DEF Syncs, Joined
    <3>. QED  BY ZenonT(60), <3>1, <3>2, <3>3, <3>4, <3>5 DEF Acts, Steps
  <2>. QED  BY ZenonT(60), <2>2, <2>3, <2>4
<1>. QED  BY ZenonT(60), <1>3, <1>4

LEMMA LocalStays ==
  ASSUME Locked, NEW c \in Cmds, Acts(c), NEW q \in Cmds \ {c}, Open(q)
  PROVE  store'[Dir(q)] = store[Dir(q)]
<1>1. Dir(q) \in (Cmds \cup {Disk}) \ {c}
  BY ZenonT(60), CliConstants DEF Dir
<1>2. ASSUME Open(c) PROVE Dir(q) # Dir(c)
  BY ZenonT(60), <1>2, CliConstants DEF Dir, Locked
<1>3. CASE Ends(c)
  BY ZenonT(60), <1>1, <1>3 DEF Ends
<1>4. CASE Writes(c)
  <2>1. Open(c)
    BY Zenon, <1>4 DEF Writes, Open, Gone
  <2>. QED  BY ZenonT(60), <1>1, <1>2, <1>4, <2>1 DEF Writes
<1>5. CASE Syncs(c)
  <2>1. Open(c)
    BY Zenon, <1>5 DEF Syncs, Joined
  <2>. QED  BY ZenonT(60), <1>1, <1>2, <1>5, <2>1 DEF Syncs
<1>. QED  BY ZenonT(60), <1>3, <1>4, <1>5 DEF Acts, Steps, Talks, Proceeds

(***************************************************************************)
(* --wait-for-sync.                                                        *)
(***************************************************************************)
LEMMA OwnStoreStep ==
  ASSUME CliTyped, Locked, Stored, NEW c \in Cmds, Acts(c)
  PROVE  Stored'
<1>. SUFFICES ASSUME NEW q \in Cmds, cmd'[q].pc \in Wrote \ {Gone} PROVE q \in store'[Dir(q)]
  <2>1. \A q \in Cmds : Dir(q)' = Dir(q)
    BY Zenon, ActsFrame
  <2>. QED  BY Zenon, <2>1 DEF Stored, Local, Wrote, Gone
<1>1. Frame(c)
  BY Zenon, ActsFrame
<1>2. CASE q # c
  <2>1. cmd[q].pc \in Wrote \ {Gone}
    BY ZenonT(60), <1>1, <1>2 DEF Frame
  <2>2. Open(q) /\ q \in store[Dir(q)]
    BY ZenonT(60), <2>1 DEF Open, Wrote, Gone, Stored, Local
  <2>. QED  BY ZenonT(60), <1>2, <2>2, LocalStays
<1>3. CASE q = c
  <2>1. CASE Ends(c)
    BY ZenonT(60), <1>3, <2>1 DEF Ends
  <2>2. CASE Writes(c)
    BY ZenonT(60), <1>3, <2>2 DEF Writes
  <2>3. CASE Proceeds(c)
    <3>1. cmd[c].verb \notin Wrote
      BY Zenon DEF CliTyped, Commands, Verbs, Wrote, Gone
    <3>2. cmd[c].pc \in Wrote \ {Gone} /\ store' = store
      BY ZenonT(60), <1>3, <2>3, <3>1 DEF Proceeds, Wrote, Gone
    <3>. QED  BY ZenonT(60), <1>3, <3>2 DEF Stored, Local
  <2>4. CASE Talks(c)
    BY ZenonT(60), <1>3, <2>4 DEF Talks, Stored, Local
  <2>5. CASE Syncs(c)
    BY ZenonT(60), <1>3, <2>5 DEF Syncs, Stored
  <2>. QED  BY ZenonT(60), <2>1, <2>2, <2>3, <2>4, <2>5 DEF Acts, Steps
<1>. QED  BY ZenonT(60), <1>2, <1>3

LEMMA ArrivingStep ==
  ASSUME CliTyped, Stored, Arriving, NEW c \in Cmds, Acts(c)
  PROVE  Arriving'
<1>1. Frame(c) /\ node \subseteq node' /\ cmd'[c].verb = cmd[c].verb
  BY Zenon, ActsFrame DEF Frame
<1>. DEFINE Right(q) ==
              /\ cmd'[q].pc = "roundTrip" /\ cmd'[q].verb = "delete" /\ link'[q] = "up" => q \in sent'[q] \cup node'
              /\ cmd'[q].pc = "answer" /\ link'[q] = "up" => q \in sent'[q] \cup node'
              /\ cmd'[q].pc = "confirmed" => q \in node'
<1>2. ASSUME NEW q \in Cmds \ {c} PROVE Right(q)
  BY ZenonT(60), <1>1, <1>2 DEF Arriving, Frame, Linked
<1>3. Right(c)
  <2>1. CASE Ends(c)
    BY Zenon, <2>1 DEF Ends, Gone
  <2>2. CASE Proceeds(c)
    <3>1. cmd[c].verb \in Verbs /\ cmd[c].verb \notin {"roundTrip", "answer", "confirmed"}
      BY Zenon DEF CliTyped, Commands, Verbs
    <3>2. CASE cmd[c].pc = "push"
      BY ZenonT(60), <1>1, <2>2, <3>2 DEF Proceeds
    <3>3. CASE cmd[c].pc = "roundTrip"
      <4>1. /\ cmd'[c].pc \in {"answer", "done"} /\ link' = link /\ node' = node
            /\ cmd'[c].pc = "answer" => sent'[c] = sent[c] \cup Data(Local(c))
        BY ZenonT(60), <2>2, <3>3 DEF Proceeds
      <4>2. c \in Local(c)
        BY ZenonT(60), <3>3 DEF Stored, Wrote, Gone
      <4>3. cmd[c].verb # "delete" => c \in Data(Local(c))
        BY ZenonT(60), <4>2 DEF Data, IsData
      <4>. QED  BY ZenonT(60), <3>3, <4>1, <4>3 DEF Arriving, Linked
    <3>4. CASE cmd[c].pc = "answer"
      BY ZenonT(60), <2>2, <3>4 DEF Proceeds, Arriving
    <3>5. CASE cmd[c].pc \notin {"push", "roundTrip", "answer"}
      BY ZenonT(60), <2>2, <3>1, <3>5 DEF Proceeds
    <3>. QED  BY ZenonT(60), <3>2, <3>3, <3>4, <3>5
  <2>3. CASE Writes(c)
    BY Zenon, <2>3 DEF Writes
  <2>4. CASE Talks(c)
    <3>1. cmd[c].pc \in {"roundTrip", "answer"} => c \in Local(c)
      BY ZenonT(60) DEF Stored, Wrote, Gone
    <3>2. /\ cmd'[c].pc = cmd[c].pc
          /\ link'[c] = "up" => \/ Linked(c) /\ sent[c] \cup node \subseteq sent'[c] \cup node'
                               \/ sent'[c] = Local(c)
      BY ZenonT(60), <2>4 DEF Talks, Linked
    <3>. QED  BY ZenonT(60), <1>1, <3>1, <3>2 DEF Arriving
  <2>5. CASE Syncs(c)
    BY ZenonT(60), <2>5 DEF Syncs, Arriving, Linked
  <2>. QED  BY ZenonT(60), <2>1, <2>2, <2>3, <2>4, <2>5 DEF Acts, Steps
<1>. HIDE DEF Right
<1>4. \A q \in Cmds : Right(q)
  BY ZenonT(60), <1>2, <1>3
<1>. QED  BY Zenon, <1>4 DEF Arriving, Right, Linked

(***************************************************************************)
(* Where the change of a command can be found.                             *)
(***************************************************************************)
LEMMA KnownStep ==
  ASSUME CliTyped, NEW c \in Cmds, Acts(c), NEW x \in Cmds, Known(x)'
  PROVE  Known(x) \/ (x = c /\ Writes(c))
<1>. SUFFICES ASSUME ~Known(x), ~(x = c /\ Writes(c)) PROVE FALSE
  BY Zenon
<1>1. Frame(c) /\ Dir(c) \in Cmds \cup {Disk} /\ Local(c) = store[Dir(c)]
  BY Zenon, ActsFrame DEF Dir, Local
<1>2. /\ x \notin node /\ (\A q \in Cmds : x \notin sent[q])
      /\ (\A d \in Cmds \cup {Disk} : x \notin store[d]) /\ cmd[x].pc # "push" /\ ~cmd[x].due
  BY Zenon DEF Known, Spread
<1>3. x \notin Local(c)
  BY ZenonT(60), <1>1, <1>2
<1>4. x \notin node'
  BY Zenon, <1>2 DEF Acts, Steps, Talks, Syncs, Ends, Proceeds, Writes
<1>5. x \notin sent'[c]
  <2>1. CASE Ends(c) \/ Writes(c) \/ Syncs(c)
    BY ZenonT(60), <1>2, <2>1 DEF Ends, Writes, Syncs
  <2>2. CASE Talks(c)
    BY ZenonT(60), <1>2, <1>3, <2>2 DEF Talks
  <2>3. CASE Proceeds(c)
    <3>1. CASE sent' = sent
      BY ZenonT(60), <1>2, <3>1
    <3>2. CASE sent'[c] \in {Local(c), {}}
      BY ZenonT(60), <1>3, <3>2
    <3>3. CASE cmd[c].pc = "push" /\ sent'[c] \in {sent[c], sent[c] \cup {c}}
      <4>1. x # c
        BY ZenonT(60), <1>2, <3>3
      <4>. QED  BY SMTT(60), <1>2, <3>3, <4>1
    <3>4. CASE sent'[c] \in {sent[c], sent[c] \cup Data(Local(c))}
      BY ZenonT(60), <1>2, <1>3, <3>4 DEF Data
    <3>. QED  BY ZenonT(60), <2>3, <3>1, <3>2, <3>3, <3>4 DEF Proceeds
  <2>. QED  BY ZenonT(60), <2>1, <2>2, <2>3 DEF Acts, Steps
<1>6. \A q \in Cmds : x \notin sent'[q]
  BY ZenonT(60), <1>1, <1>2, <1>5 DEF Frame
<1>7. ASSUME NEW d \in Cmds \cup {Disk} PROVE x \notin store'[d]
  <2>1. CASE Ends(c)
    BY ZenonT(60), <1>2, <2>1 DEF Ends
  <2>2. CASE Proceeds(c) \/ Talks(c)
    BY ZenonT(60), <1>2, <2>2 DEF Proceeds, Talks
  <2>3. CASE Syncs(c)
    <3>1. x \notin store'[Dir(c)]
      BY ZenonT(60), <1>2, <1>3, <2>3 DEF Syncs
    <3>. QED  BY ZenonT(60), <1>2, <2>3, <3>1 DEF Syncs
  <2>4. CASE Writes(c)
    <3>1. x \notin store'[Dir(c)]
      BY ZenonT(60), <1>3, <2>4 DEF Writes
    <3>. QED  BY ZenonT(60), <1>2, <2>4, <3>1 DEF Writes
  <2>. QED  BY ZenonT(60), <2>1, <2>2, <2>3, <2>4 DEF Acts, Steps
<1>8. cmd'[x].pc # "push" /\ ~cmd'[x].due
  <2>1. CASE x # c
    BY ZenonT(60), <1>1, <1>2, <2>1 DEF Frame
  <2>2. CASE x = c
    <3>1. CASE Ends(c)
      BY Zenon, <2>2, <3>1 DEF Ends, Gone
    <3>2. CASE Proceeds(c)
      <4>1. cmd[c].verb # "push"
        BY Zenon DEF CliTyped, Commands, Verbs
      <4>2. cmd'[c].pc # "push"
        BY ZenonT(60), <3>2, <4>1 DEF Proceeds
      <4>3. cmd'[c].due = cmd[c].due
        BY ZenonT(60), <3>2 DEF Proceeds
      <4>. QED  BY ZenonT(60), <1>2, <2>2, <4>2, <4>3
    <3>3. CASE Talks(c) \/ Syncs(c)
      BY ZenonT(60), <1>2, <2>2, <3>3 DEF Talks, Syncs
    <3>. QED  BY ZenonT(60), <2>2, <3>1, <3>2, <3>3 DEF Acts, Steps
  <2>. QED  BY ZenonT(60), <2>1, <2>2
<1>. QED  BY ZenonT(60), <1>4, <1>6, <1>7, <1>8 DEF Known, Spread

LEMMA TracedStep ==
  ASSUME CliTyped, Traced, NEW c \in Cmds, Acts(c)
  PROVE  Traced'
<1>1. Frame(c)
  BY Zenon, ActsFrame
<1>. SUFFICES ASSUME NEW q \in Cmds
              PROVE  /\ cmd'[q].pc # Gone => cmd'[q].code = "none"
                     /\ Known(q)' => cmd'[q].pc \in Wrote /\ cmd'[q].code # "failed"
  BY Zenon DEF Traced, Wrote
<1>2. CASE q # c
  <2>1. cmd'[q] = cmd[q] /\ (Known(q)' => Known(q))
    BY ZenonT(60), <1>1, <1>2, KnownStep DEF Frame
  <2>. QED  BY Zenon, <2>1 DEF Traced
<1>3. CASE q = c
  <2>1. /\ cmd[c].pc # Gone => cmd[c].code = "none"
        /\ Known(c) => cmd[c].pc \in Wrote /\ cmd[c].code # "failed"
    BY Zenon DEF Traced
  <2>2. Known(c)' => Known(c) \/ Writes(c)
    BY ZenonT(60), KnownStep
  <2>3. CASE Ends(c)
    <3>1. /\ cmd'[c].pc = Gone /\ Gone \in Wrote
          /\ cmd[c].pc \in Wrote => cmd'[c].code # "failed"
          /\ ~Writes(c)
      BY Zenon, <2>3 DEF Ends, Wrote, Gone, Writes
    <3>. QED  BY ZenonT(60), <1>3, <2>1, <2>2, <3>1
  <2>4. CASE Proceeds(c)
    <3>1. /\ cmd[c].pc # Gone /\ cmd'[c].code = cmd[c].code /\ ~Writes(c)
          /\ cmd[c].pc \in Wrote => cmd'[c].pc \in Wrote
      BY Zenon, <2>4 DEF Proceeds, Wrote, Gone, Writes
    <3>. QED  BY ZenonT(60), <1>3, <2>1, <2>2, <3>1
  <2>5. CASE Writes(c)
    <3>1. cmd[c].pc # Gone /\ cmd'[c].code = cmd[c].code /\ cmd'[c].pc \in Wrote
      BY Zenon, <2>5 DEF Wrote, Gone, Writes
    <3>2. "none" # "failed"
      BY Zenon
    <3>. QED  BY ZenonT(60), <1>3, <2>1, <3>1, <3>2
  <2>6. CASE Talks(c) \/ Syncs(c)
    <3>1. cmd'[c].pc = cmd[c].pc /\ cmd'[c].code = cmd[c].code
      BY ZenonT(60), <2>6 DEF Talks, Syncs
    <3>2. CASE Writes(c)
      BY ZenonT(60), <2>5, <3>2
    <3>. QED  BY ZenonT(60), <1>3, <2>1, <2>2, <3>1, <3>2
  <2>. QED  BY ZenonT(60), <2>3, <2>4, <2>5, <2>6 DEF Acts, Steps
<1>. QED  BY ZenonT(60), <1>2, <1>3

(***************************************************************************)
(* The persistent store.                                                   *)
(***************************************************************************)
LEMMA DiskKeeps ==
  ASSUME Blank, NEW c \in Cmds, Acts(c), NEW x \in Cmds, cmd[x].persistent, x \in store[Disk]
  PROVE  x \in store'[Disk]
<1>1. Disk \in (Cmds \cup {Disk}) \ {c}
  BY Zenon, CliConstants
<1>2. CASE Ends(c) \/ Proceeds(c) \/ Talks(c)
  BY Zenon, <1>1, <1>2 DEF Ends, Proceeds, Talks
<1>3. CASE Syncs(c)
  BY ZenonT(60), <1>1, <1>3 DEF Syncs, Local
<1>4. CASE Writes(c)
  <2>1. CASE Dir(c) # Disk
    BY ZenonT(60), <1>1, <1>4, <2>1 DEF Writes
  <2>2. CASE Dir(c) = Disk
    <3>1. cmd[c].persistent /\ x \in Local(c)
      BY ZenonT(60), <2>2, CliConstants DEF Dir, Local
    <3>2. ~IsData(x) \/ cmd[c].pc # "put"
      BY Zenon, <3>1 DEF Blank, IsData
    <3>. QED  BY ZenonT(60), <1>4, <2>2, <3>1, <3>2 DEF Writes
  <2>. QED  BY ZenonT(60), <2>1, <2>2
<1>. QED  BY ZenonT(60), <1>2, <1>3, <1>4 DEF Acts, Steps

LEMMA OnDiskStep ==
  ASSUME CliTyped, OnDisk, Blank, NEW c \in Cmds, Acts(c)
  PROVE  OnDisk'
<1>. SUFFICES ASSUME NEW x \in Cmds, cmd'[x].persistent, Known(x)' PROVE x \in store'[Disk]
  BY Zenon DEF OnDisk
<1>1. cmd[x].persistent
  BY Zenon, ActsFrame
<1>2. CASE Known(x)
  BY ZenonT(60), <1>1, <1>2, DiskKeeps DEF OnDisk
<1>3. CASE x = c /\ Writes(c)
  BY ZenonT(60), <1>1, <1>3 DEF Writes, Dir
<1>. QED  BY ZenonT(60), <1>2, <1>3, KnownStep

LEMMA BlankStep ==
  ASSUME CliTyped, Locked, OnDisk, Blank, NEW c \in Cmds, Acts(c)
  PROVE  Blank'
<1>. SUFFICES ASSUME NEW q \in Cmds, cmd'[q].pc = "put", cmd'[q].persistent,
                     NEW x \in store'[Disk] \cap Cmds, cmd'[x].verb # "delete", cmd'[x].persistent
              PROVE  FALSE
  BY Zenon DEF Blank
<1>1. /\ Frame(c) /\ cmd[q].persistent /\ cmd[x].persistent /\ cmd[x].verb # "delete"
      /\ Dir(q) = Disk
  BY ZenonT(60), ActsFrame DEF Dir
<1>2. CASE q # c
  <2>1. cmd[q].pc = "put"
    BY ZenonT(60), <1>1, <1>2 DEF Frame
  <2>2. Open(q)
    BY Zenon, <2>1 DEF Open, Gone
  <2>3. x \in store[Disk]
    BY ZenonT(60), <1>1, <1>2, <2>2, LocalStays
  <2>. QED  BY ZenonT(60), <1>1, <2>1, <2>3 DEF Blank
<1>3. CASE q = c
  <2>1. CASE Ends(c) \/ Writes(c)
    BY Zenon, <1>3, <2>1 DEF Ends, Writes, Gone
  <2>2. CASE Proceeds(c)
    <3>1. cmd[c].verb # "put"
      BY Zenon DEF CliTyped, Commands, Verbs
    <3>2. ~Exists(Local(c)) /\ store' = store
      BY ZenonT(60), <1>3, <2>2, <3>1 DEF Proceeds
    <3>3. x \in Local(c) /\ IsData(x)
      BY ZenonT(60), <1>1, <1>3, <3>2 DEF Local, IsData
    <3>. QED  BY ZenonT(60), <3>2, <3>3 DEF Exists
  <2>3. CASE Talks(c)
    BY ZenonT(60), <1>1, <1>3, <2>3 DEF Talks, Blank
  <2>4. CASE Syncs(c)
    <3>1. cmd[c].pc = "put" /\ x \in store[Disk] \cup node
      BY ZenonT(60), <1>1, <1>3, <2>4 DEF Syncs, Local
    <3>2. x \in store[Disk]
      BY ZenonT(60), <1>1, <3>1 DEF OnDisk, Known, Spread
    <3>. QED  BY ZenonT(60), <1>1, <1>3, <3>1, <3>2 DEF Blank
  <2>. QED  BY ZenonT(60), <2>1, <2>2, <2>3, <2>4 DEF Acts, Steps
<1>. QED  BY ZenonT(60), <1>2, <1>3
LEMMA CurrentStep ==
  ASSUME CliTyped, Locked, ObserveIsCurrent, NEW c \in Cmds, Acts(c)
  PROVE  ObserveIsCurrent'
<1>. SUFFICES ASSUME NEW q \in Cmds, cmd'[q].pc = "observe", notes'[q] = 0
              PROVE  shown'[q] = Data(store'[Dir(q)])
  <2>1. \A x \in Cmds : cmd'[x].verb = cmd[x].verb /\ Dir(x)' = Dir(x)
    BY Zenon, ActsFrame
  <2>2. ASSUME NEW q \in Cmds PROVE Data(Local(q))' = Data(store'[Dir(q)])
    <3>1. Local(q)' = store'[Dir(q)]
      BY Zenon, <2>1 DEF Local
    <3>. QED  BY SMTT(60), <2>1, <3>1 DEF Data, IsData
  <2>. QED  BY Zenon, <2>2 DEF ObserveIsCurrent
<1>1. Frame(c)
  BY ZenonT(60), ActsFrame
<1>2. CASE q # c
  <2>1. cmd[q].pc = "observe" /\ notes[q] = 0 /\ shown'[q] = shown[q]
    BY ZenonT(60), <1>1, <1>2 DEF Frame
  <2>2. Open(q)
    BY Zenon, <2>1 DEF Open, Gone
  <2>3. store'[Dir(q)] = store[Dir(q)]
    BY ZenonT(60), <1>2, <2>2, LocalStays
  <2>. QED  BY ZenonT(60), <2>1, <2>3 DEF ObserveIsCurrent, Local
<1>3. CASE q = c
  <2>1. CASE Ends(c) \/ Writes(c)
    BY ZenonT(60), <1>3, <2>1 DEF Ends, Writes, Gone
  <2>2. CASE Proceeds(c)
    <3>1. shown'[c] = Data(Local(c)) /\ store' = store
      BY ZenonT(60), <1>3, <2>2 DEF Proceeds
    <3>. QED  BY ZenonT(60), <1>3, <3>1 DEF Local
  <2>3. CASE Talks(c)
    BY ZenonT(60), <1>3, <2>3 DEF Talks, ObserveIsCurrent, Local
  <2>4. CASE Syncs(c)
    BY ZenonT(60), <1>3, <2>4 DEF Syncs, ObserveIsCurrent
  <2>. QED  BY ZenonT(60), <2>1, <2>2, <2>3, <2>4 DEF Acts, Steps
<1>. QED  BY ZenonT(60), <1>2, <1>3

LEMMA HistoryStep ==
  ASSUME Locked, NEW c \in Cmds, Acts(c), NEW q \in Cmds, cmd[q].pc = "delta", cmd'[q].pc # Gone
  PROVE  Local(q) \subseteq store'[Dir(q)]
<1>1. CASE q # c
  <2>1. Open(q)
    BY Zenon DEF Open, Gone
  <2>. QED  BY ZenonT(60), <1>1, <2>1, LocalStays DEF Local
<1>2. CASE q = c
  <2>1. CASE Ends(c)
    BY ZenonT(60), <1>2, <2>1 DEF Ends
  <2>2. CASE Proceeds(c) \/ Talks(c) \/ Syncs(c)
    BY ZenonT(60), <1>2, <2>2 DEF Proceeds, Talks, Syncs, Local
  <2>3. CASE Writes(c)
    <3>1. cmd[c].pc # "put"
      BY Zenon, <1>2
    <3>. QED  BY ZenonT(60), <1>2, <2>3, <3>1 DEF Writes
  <2>. QED  BY ZenonT(60), <2>1, <2>2, <2>3 DEF Acts, Steps
<1>. QED  BY ZenonT(60), <1>1, <1>2

-----------------------------------------------------------------------------
LEMMA CliStarts == CliInit => CliInv
<1>. SUFFICES ASSUME CliInit PROVE CliInv
  BY SMTT(60)
<1>1. /\ cmd \in [Cmds -> Commands]
      /\ \A c \in Cmds : cmd[c].pc = "start" /\ cmd[c].code = "none" /\ cmd[c].due = FALSE
  BY ZenonT(60) DEF CliInit, Commands, Whereabouts
<1>2. /\ \A d \in Cmds \cup {Disk} : store[d] = {}
      /\ \A c \in Cmds : sent[c] = {} /\ c \notin node
  BY Zenon, CliConstants DEF CliInit
<1>3. CliTyped
  BY <1>1, CliConstants DEF CliTyped, CliInit, Changes
<1>4. \A c \in Cmds : /\ cmd[c].pc \notin Wrote \cup {"put", "observe"} /\ ~Open(c)
                      /\ ~cmd[c].due /\ cmd[c].code = "none"
  BY Zenon, <1>1 DEF Gone, Open, Wrote
<1>5. \A c \in Cmds : ~Known(c)
  BY ZenonT(60), <1>2, <1>4 DEF Known, Spread, Wrote
<1>6. Locked /\ Stored /\ Arriving /\ Blank /\ ObserveIsCurrent
  BY ZenonT(60), <1>4 DEF Locked, Stored, Arriving, Blank, ObserveIsCurrent, Wrote
<1>7. Traced /\ OnDisk
  BY ZenonT(60), <1>4, <1>5 DEF Traced, OnDisk
<1>. QED  BY ZenonT(60), <1>3, <1>6, <1>7 DEF CliInv

LEMMA CliStep == CliInv /\ [CliNext]_cliVars => CliInv'
<1>. SUFFICES ASSUME CliInv, [CliNext]_cliVars PROVE CliInv'
  OBVIOUS
<1>1. CASE CliNext
  <2>1. PICK c \in Cmds : Acts(c)
    BY ZenonT(60), <1>1, CliSteps DEF CliInv, Acts
  <2>2. CliTyped' /\ Locked' /\ Stored'
    BY ZenonT(60), <2>1, ActsFrame, LockedStep, OwnStoreStep DEF CliInv
  <2>3. Arriving' /\ Traced'
    BY ZenonT(60), <2>1, ArrivingStep, TracedStep DEF CliInv
  <2>4. OnDisk' /\ Blank' /\ ObserveIsCurrent'
    BY ZenonT(60), <2>1, OnDiskStep, BlankStep, CurrentStep DEF CliInv
  <2>. QED  BY ZenonT(60), <2>2, <2>3, <2>4 DEF CliInv
<1>2. CASE UNCHANGED cliVars
  BY ZenonT(60), <1>2 DEF cliVars, CliInv, CliTyped, Locked, Stored, Arriving, Traced, Known, Spread, OnDisk,
     Blank, ObserveIsCurrent, Local, Dir, Open, Linked, Data, IsData
<1>. QED  BY ZenonT(60), <1>1, <1>2

LEMMA CliPromises == CliInv => CliTypes /\ ConfirmedArrives /\ RefusedWroteNothing /\ ObserveIsCurrent
<1>. SUFFICES ASSUME CliInv PROVE CliTypes /\ ConfirmedArrives /\ RefusedWroteNothing /\ ObserveIsCurrent
  BY Zenon
<1>1. CliTypes
  <2>1. ASSUME NEW c \in Cmds
        PROVE  /\ cmd[c].verb \in Verbs /\ cmd[c].base \subseteq Changes /\ cmd[c].due \in BOOLEAN
               /\ cmd[c].code \in {"none", "ok", "failed", "interrupted"}
    BY Zenon DEF CliInv, CliTyped, Commands
  <2>2. ASSUME NEW c \in Cmds
        PROVE  /\ link[c] \in {"none", "up", "banned"} /\ sent[c] \subseteq Changes
               /\ notes[c] \in 0..NoteCap /\ shown[c] \subseteq Changes
    BY Zenon DEF CliInv, CliTyped
  <2>. QED  BY ZenonT(60), <2>1, <2>2 DEF CliTypes, CliInv, CliTyped, Locked
<1>2. ConfirmedArrives /\ ObserveIsCurrent
  BY ZenonT(60) DEF CliInv, Arriving, ConfirmedArrives
<1>3. DOMAIN store = Cmds \cup {Disk}
  BY Zenon DEF CliInv, CliTyped
<1>4. RefusedWroteNothing
  BY ZenonT(60), <1>3 DEF CliInv, Traced, Known, Spread, RefusedWroteNothing
<1>. QED  BY ZenonT(60), <1>1, <1>2, <1>4

\* Whatever the commands, their stores and their links, and however they interleave
\* with sync and with each other: a write whose round trip was answered has reached the
\* peer even if its push failed, a failed command wrote nothing anywhere, what is in the
\* persistent store stays, update keeps what syncs in between its read and its write, and
\* observe has written the document's current state once it has read all that it was
\* notified of (create.rs, update.rs, delete.rs, observe.rs).
THEOREM CommandsAlwaysSound == CliSpec => CommandsAreSound
<1>. DEFINE P == \A x \in Cmds : cmd[x].pc = Gone /\ cmd[x].persistent /\ x \in store[Disk]
                                => x \in store'[Disk]
            H == \A c \in Cmds : cmd[c].pc = "delta" /\ cmd'[c].pc # Gone
                                => Local(c) \subseteq store'[Dir(c)]
            S == CliTypes /\ ConfirmedArrives /\ RefusedWroteNothing /\ ObserveIsCurrent
<1>1. CliInv /\ [CliNext]_cliVars => [P]_cliVars /\ [H]_cliVars
  <2>. SUFFICES ASSUME CliInv, CliNext PROVE P /\ H
    BY Zenon
  <2>1. PICK c \in Cmds : Acts(c)
    BY ZenonT(60), CliSteps DEF CliInv, Acts
  <2>. QED  BY ZenonT(60), <2>1, DiskKeeps, HistoryStep DEF CliInv
<1>2. CliInv => S
  BY ZenonT(60), CliPromises
<1>3. CliSpec => []CliInv
  BY CliStarts, CliStep, PTL DEF CliSpec
<1>4. CliSpec => []S /\ [][P]_cliVars /\ [][H]_cliVars
  BY <1>1, <1>2, <1>3, PTL DEF CliSpec
<1>. QED  BY Zenon, <1>4 DEF CommandsAreSound, PersistedStays, UpdateKeepsHistory
=============================================================================
