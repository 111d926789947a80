--------------------------- MODULE DeliveryProofs ---------------------------
(***************************************************************************)
(* Proofs about Delivery for every set of documents, every capacity and    *)
(* every bound.                                                            *)
(***************************************************************************)
EXTENDS Delivery, TLAPS

(***************************************************************************)
(* Sequences.                                                              *)
(***************************************************************************)
LEMMA EmptySeq ==
  ASSUME NEW S PROVE <<>> \in Seq(S) /\ Len(<<>>) = 0 /\ \A q \in Seq(S) : q # <<>> => Len(q) \in Nat \ {0}
OBVIOUS
LEMMA LenProperties ==
  ASSUME NEW S, NEW q \in Seq(S)
  PROVE  Len(q) \in Nat /\ q \in [1..Len(q) -> S] /\ DOMAIN q = 1..Len(q)
OBVIOUS
LEMMA ElementOfSeq == ASSUME NEW S, NEW q \in Seq(S), NEW i \in 1..Len(q) PROVE q[i] \in S
OBVIOUS
LEMMA AppendProperties ==
  ASSUME NEW S, NEW q \in Seq(S), NEW x \in S
  PROVE  /\ Append(q, x) \in Seq(S) /\ Append(q, x) # <<>> /\ Len(Append(q, x)) = Len(q) + 1
         /\ \A i \in 1..Len(q) : Append(q, x)[i] = q[i]
         /\ Append(q, x)[Len(q) + 1] = x
OBVIOUS
LEMMA HeadTailProperties ==
  ASSUME NEW S, NEW q \in Seq(S), q # <<>>
  PROVE  /\ Head(q) \in S /\ Tail(q) \in Seq(S) /\ Len(Tail(q)) = Len(q) - 1
         /\ \A i \in 1..Len(Tail(q)) : Tail(q)[i] = q[i + 1]
OBVIOUS

-----------------------------------------------------------------------------
(***************************************************************************)
(* Type correctness.  What a step leaves alone keeps its type.             *)
(***************************************************************************)
LEMMA Frame ==
  ASSUME TypeOK
  PROVE  /\ UNCHANGED store => StoreOK'
         /\ UNCHANGED journals => JournalsOK'
         /\ UNCHANGED feed => FeedOK'
         /\ UNCHANGED task => TaskOK'
         /\ UNCHANGED scan => ScanOK'
         /\ UNCHANGED out => OutOK'
         /\ UNCHANGED ready => ReadyOK'
         /\ UNCHANGED used => UsedOK'
<1>1. UNCHANGED store => StoreOK'
  BY Zenon DEF TypeOK, StoreOK, store, Fit
<1>2. UNCHANGED journals => JournalsOK'
  BY Zenon DEF TypeOK, JournalsOK, journals
<1>3. UNCHANGED feed => FeedOK'
  BY Zenon DEF TypeOK, FeedOK, feed
<1>4. UNCHANGED task => TaskOK'
  BY Zenon DEF TypeOK, TaskOK, Fit
<1>5. UNCHANGED scan => ScanOK'
  BY Zenon DEF TypeOK, ScanOK, scan
<1>6. UNCHANGED out => OutOK'
  BY Zenon DEF TypeOK, OutOK, out
<1>7. UNCHANGED ready => ReadyOK'
  BY Zenon DEF TypeOK, ReadyOK
<1>8. UNCHANGED used => UsedOK'
  BY Zenon DEF TypeOK, UsedOK
<1>. QED  BY Zenon, <1>1, <1>2, <1>3, <1>4, <1>5, <1>6, <1>7, <1>8

LEMMA ThreadFacts ==
  /\ Idle \in Threads /\ Idle.pc = "idle" /\ Fit(Idle)
  /\ \A p \in Pcs, d \in Docs, b \in Bodies : Fit(AtPc(p, d, b))
  /\ \A p \in {"list", "next", "aborted"} : Fit(AtPc(p, "none", "absent"))
  /\ \A o \in Offerers : Fit(Done(o))
BY ZenonT(60) DEF Idle, AtPc, Done, Fit, Threads, Pcs, Bodies, Busy, Offerers

\* One offerer moves to a fitting state.
LEMMA TaskMoves ==
  ASSUME TaskOK, NEW o \in Offerers, NEW t, Fit(t),
         task' = [task EXCEPT ![o] = t]
  PROVE  TaskOK'
BY Zenon DEF TaskOK, Fit

\* A bound that is not used up is spent.
LEMMA Spending ==
  ASSUME TypeOK
  PROVE  /\ used.notices < MaxNotices /\ Spend("notices") => UsedOK'
         /\ used.writes < MaxWrites /\ Spend("writes") => UsedOK'
         /\ used.flaps < MaxFlaps /\ Spend("flaps") => UsedOK'
         /\ used.faults < MaxFaults /\ Spend("faults") => UsedOK'
         /\ used.crashes < MaxCrashes /\ Spend("crashes") => UsedOK'
BY DeliveryConstants DEF TypeOK, UsedOK, Spend

\* Clearing flags keeps the readiness record.
LEMMA FlagCleared ==
  ASSUME TypeOK
  PROVE  /\ ready' = [ready EXCEPT !.delivery = FALSE] => ReadyOK'
         /\ ready' = [ready EXCEPT !.exclusion = FALSE] => ReadyOK'
         /\ ready' = [ready EXCEPT !.accepting = FALSE] => ReadyOK'
         /\ ready' = [ready EXCEPT !.linked = FALSE] => ReadyOK'
         /\ ready' = [ready EXCEPT !.linked = TRUE] => ReadyOK'
BY Zenon DEF TypeOK, ReadyOK

\* A broadcast ring keeps its type and its capacity.
LEMMA PushFacts ==
  ASSUME NEW S, NEW s \in Seq(S), NEW x \in S, NEW cap \in Nat \ {0},
         Len(s) <= cap
  PROVE  Push(s, x, cap) \in Seq(S) /\ Len(Push(s, x, cap)) <= cap
<1>1. CASE Len(s) < cap
  BY <1>1, AppendProperties, LenProperties DEF Push
<1>2. CASE ~(Len(s) < cap)
  <2>1. s # <<>>
    BY <1>2, EmptySeq
  <2>2. Tail(s) \in Seq(S) /\ Len(Tail(s)) = Len(s) - 1 /\ Len(s) \in Nat
    BY Zenon, <2>1, HeadTailProperties, LenProperties
  <2>3. Append(Tail(s), x) \in Seq(S) /\ Len(Append(Tail(s), x)) = Len(s)
    BY <2>2, AppendProperties
  <2>. QED  BY Zenon, <1>2, <2>2, <2>3 DEF Push
<1>. QED  BY Zenon, <1>1, <1>2

LEMMA TriggerTyped ==
  ASSUME TypeOK, Trigger, UNCHANGED todo
  PROVE  ScanOK'
BY Zenon DEF TypeOK, ScanOK, Trigger

LEMMA ScanReturnsTyped ==
  ASSUME TypeOK, ScanReturns
  PROVE  ScanOK' /\ TaskOK'
<1>1. ScanOK'
  BY Zenon DEF TypeOK, ScanOK, ScanReturns
<1>2. TaskOK'
  BY Zenon, ThreadFacts, TaskMoves DEF TypeOK, ScanReturns, ReconTo, Offerers
<1>. QED  BY Zenon, <1>1, <1>2

LEMMA OfferTyped ==
  ASSUME TypeOK, NEW o \in Offerers, NEW d \in Docs, NEW b \in Bodies
  PROVE  /\ Offer(o, d, b) => TaskOK' /\ ReadyOK'
         /\ OfferQueueFull(o, d) => TaskOK' /\ ReadyOK' /\ UsedOK'
<1>1. Fit(Done(o)) /\ Fit(AtPc("reserve", d, b))
  BY Zenon, ThreadFacts DEF Pcs
<1>2. ASSUME Offer(o, d, b) PROVE TaskOK' /\ ReadyOK'
  BY Zenon, <1>1, <1>2, TaskMoves, FlagCleared, Frame DEF Offer, TypeOK
<1>3. ASSUME OfferQueueFull(o, d) PROVE TaskOK' /\ ReadyOK' /\ UsedOK'
  BY <1>1, <1>3, TaskMoves, FlagCleared, Spending, Zenon DEF OfferQueueFull, TypeOK
<1>. QED  BY Zenon, <1>2, <1>3

LEMMA InitTyped == Init => TypeOK
<1>. SUFFICES ASSUME Init PROVE TypeOK
  BY Zenon
<1>1. StoreOK
  BY Zenon, ThreadFacts DEF Init, StoreOK, Bodies
<1>2. JournalsOK
  BY Zenon DEF Init, JournalsOK
<1>3. FeedOK /\ OutOK
  <2>1. \A S : <<>> \in Seq(S) /\ Len(<<>>) = 0
    BY Zenon, EmptySeq
  <2>2. FeedOK
    <3>1. notices \in Seq(Docs) /\ Len(notices) <= NoticeCap
      BY <2>1, DeliveryConstants DEF Init
    <3>2. /\ events \in Seq([doc : Docs, body : Bodies])
          /\ Len(events) <= EventCap
      BY <2>1, DeliveryConstants DEF Init
    <3>. QED  BY <3>1, <3>2, Zenon DEF Init, FeedOK
  <2>3. egress \in Threads /\ published \in [Docs -> Nat] /\ dropped \subseteq Docs
    BY Zenon, ThreadFacts DEF Init
  <2>4. fifo \in Seq(Docs) /\ Len(fifo) <= FifoCap
    BY <2>1, DeliveryConstants DEF Init
  <2>. QED  BY Zenon, <2>2, <2>3, <2>4 DEF OutOK
<1>4. TaskOK
  BY Zenon, ThreadFacts DEF Init, TaskOK
<1>5. ScanOK
  BY Zenon DEF Init, ScanOK
<1>6. ReadyOK /\ UsedOK
  BY DeliveryConstants DEF Init, ReadyOK, UsedOK
<1>. QED  BY Zenon, <1>1, <1>2, <1>3, <1>4, <1>5, <1>6 DEF TypeOK

(***************************************************************************)
(* Every step keeps every part of the type invariant: one step per action, *)
(* naming the parts it can disturb.                                        *)
(***************************************************************************)
LEMMA FeedTyped ==
  ASSUME TypeOK
  PROVE  /\ \A d \in Docs : RemoteWrite(d) => TypeOK'
         /\ Forward => TypeOK'
         /\ ForwardFails => TypeOK'
<1>1. ASSUME NEW d \in Docs, RemoteWrite(d) PROVE TypeOK'
  <2>1. StoreOK'
    BY Zenon, <1>1 DEF RemoteWrite, TypeOK, StoreOK, Bodies
  <2>2. FeedOK'
    BY <1>1, PushFacts, DeliveryConstants, Zenon DEF RemoteWrite, TypeOK, FeedOK
  <2>. QED  BY Zenon, <1>1, <2>1, <2>2, Frame, Spending DEF RemoteWrite, TypeOK
<1>2. ASSUME notices # <<>>
      PROVE  /\ Head(notices) \in Docs /\ Tail(notices) \in Seq(Docs)
             /\ Len(Tail(notices)) <= NoticeCap
  BY <1>2, HeadTailProperties, LenProperties, DeliveryConstants
     DEF TypeOK, FeedOK
<1>3. ASSUME Forward PROVE TypeOK'
  <2>1. notices # <<>> /\ notices' = Tail(notices)
    BY Zenon, <1>3 DEF Forward
  <2>2. ASSUME ~Readable(Head(notices)) PROVE FeedOK'
    BY Zenon, <1>3, <1>2, <2>1, <2>2 DEF Forward, TypeOK, FeedOK
  <2>3. ASSUME Readable(Head(notices)) PROVE FeedOK'
    <3>1. [doc |-> Head(notices), body |-> content[Head(notices)]]
            \in [doc : Docs, body : Bodies]
      BY Zenon, <1>2, <2>1 DEF TypeOK, StoreOK
    <3>2. /\ events' = Push(events, [doc |-> Head(notices),
                                     body |-> content[Head(notices)]], EventCap)
          /\ lagged' = (lagged \/ Len(events) = EventCap)
      BY Zenon, <1>3, <2>3 DEF Forward
    <3>3. /\ events \in Seq([doc : Docs, body : Bodies])
          /\ Len(events) <= EventCap /\ EventCap \in Nat \ {0}
      BY Zenon, DeliveryConstants DEF TypeOK, FeedOK
    <3>4. /\ events' \in Seq([doc : Docs, body : Bodies])
          /\ Len(events') <= EventCap
      BY <3>1, <3>2, <3>3, PushFacts, Zenon
    <3>5. lagged' \in BOOLEAN
      BY Zenon, <3>2
    <3>. QED  BY Zenon, <3>4, <3>5, <1>2, <2>1 DEF FeedOK
  <2>4. FeedOK'
    BY Zenon, <2>2, <2>3
  <2>. QED  BY Zenon, <1>3, <2>4, Frame DEF Forward, TypeOK
<1>4. ASSUME ForwardFails PROVE TypeOK'
  <2>1. FeedOK'
    BY Zenon, <1>4, <1>2 DEF ForwardFails, TypeOK, FeedOK
  <2>. QED  BY Zenon, <1>4, <2>1, Frame, Spending DEF ForwardFails, TypeOK
<1>. QED  BY Zenon, <1>1, <1>3, <1>4

LEMMA MutationTyped ==
  ASSUME TypeOK, Mutation
  PROVE  TypeOK'
<1>1. ASSUME NEW d \in Docs, Exclude(d) PROVE TypeOK'
  <2>1. StoreOK'
    BY Zenon, <1>1, ThreadFacts DEF Exclude, TypeOK, StoreOK, Pcs, Bodies
  <2>2. JournalsOK'
    BY Zenon, <1>1 DEF Exclude, TypeOK, JournalsOK
  <2>. QED  BY Zenon, <1>1, <2>1, <2>2, Frame, Spending DEF Exclude, TypeOK
<1>2. ASSUME NEW d \in Docs, ExcludeFails(d) PROVE TypeOK'
  <2>1. JournalsOK'
    BY <1>2, Zenon DEF ExcludeFails, TypeOK, JournalsOK
  <2>. QED  BY Zenon, <1>2, <2>1, Frame, Spending DEF ExcludeFails, TypeOK
<1>3. CASE LocalPut
  <2>1. StoreOK'
    BY Zenon, <1>3, ThreadFacts DEF LocalPut, TypeOK, StoreOK, Bodies
  <2>. QED  BY Zenon, <1>3, <2>1, Frame DEF LocalPut, TypeOK
<1>4. CASE LocalDelete
  <2>1. StoreOK'
    BY <1>4, ThreadFacts, Zenon DEF LocalDelete, TypeOK, StoreOK, Bodies
  <2>. QED  BY Zenon, <1>4, <2>1, Frame DEF LocalDelete, TypeOK
<1>. QED  BY Zenon, <1>1, <1>2, <1>3, <1>4 DEF Mutation

LEMMA OfferingTyped ==
  ASSUME TypeOK, NEW o \in Offerers, Offering(o)
  PROVE  TypeOK'
<1>1. Fit(Done(o)) /\ Fit(task[o])
  BY Zenon, ThreadFacts DEF TypeOK, TaskOK
<1>2. CASE Reserve(o)
  <2>1. TaskOK'
    BY Zenon, <1>2, <1>1 DEF Reserve, TypeOK, TaskOK, Fit, Threads, Pcs, Busy
  <2>2. JournalsOK'
    BY <1>2, Zenon DEF Reserve, TypeOK, JournalsOK
  <2>. QED  BY Zenon, <1>2, <2>1, <2>2, Frame DEF Reserve, TypeOK
<1>3. CASE ReserveSuppressed(o)
  BY <1>3, <1>1, TaskMoves, Frame, Zenon DEF ReserveSuppressed, TypeOK
<1>4. CASE ReserveFails(o)
  <2>1. JournalsOK'
    BY <1>4, <1>1, Zenon DEF ReserveFails, TypeOK, JournalsOK, Fit, Busy
  <2>. QED
    BY <1>4, <1>1, <2>1, TaskMoves, FlagCleared, Spending, Frame, Zenon
       DEF ReserveFails, TypeOK
<1>5. CASE Enqueue(o)
  <2>1. task[o].doc \in Docs
    BY Zenon, <1>5, <1>1 DEF Enqueue, Fit, Busy
  <2>2. /\ Append(fifo, task[o].doc) \in Seq(Docs)
        /\ Len(Append(fifo, task[o].doc)) = Len(fifo) + 1 /\ Len(fifo) \in Nat
    BY Zenon, <2>1, AppendProperties, LenProperties DEF TypeOK, OutOK
  <2>3. fifo' \in Seq(Docs) /\ Len(fifo') <= FifoCap
    BY <1>5, <2>2, DeliveryConstants DEF Enqueue, TypeOK, OutOK
  <2>4. OutOK'
    BY Zenon, <1>5, <2>3 DEF Enqueue, TypeOK, OutOK
  <2>. QED  BY <1>5, <1>1, <2>4, TaskMoves, Frame, Zenon DEF Enqueue, TypeOK
<1>. QED  BY Zenon, <1>2, <1>3, <1>4, <1>5 DEF Offering

LEMMA RouterTyped ==
  ASSUME TypeOK
  PROVE  /\ RouterEvent => TypeOK'
         /\ RouterLagged => TypeOK'
<1>1. ASSUME RouterEvent PROVE TypeOK'
  <2>1. events # <<>> /\ events' = Tail(events) /\ UNCHANGED <<notices, lagged>>
    BY Zenon, <1>1 DEF RouterEvent
  <2>2. /\ Head(events) \in [doc : Docs, body : Bodies]
        /\ Tail(events) \in Seq([doc : Docs, body : Bodies])
        /\ Len(Tail(events)) <= EventCap
    <3>1. /\ events \in Seq([doc : Docs, body : Bodies])
          /\ Len(events) <= EventCap /\ EventCap \in Nat
      BY Zenon, DeliveryConstants DEF TypeOK, FeedOK
    <3>2. Len(events) \in Nat
      BY Zenon, <3>1, LenProperties
    <3>3. /\ Head(events) \in [doc : Docs, body : Bodies]
          /\ Tail(events) \in Seq([doc : Docs, body : Bodies])
          /\ Len(Tail(events)) = Len(events) - 1
      BY <2>1, <3>1, HeadTailProperties, Zenon
    <3>. QED  BY <3>1, <3>2, <3>3
  <2>3. FeedOK'
    BY Zenon, <2>1, <2>2 DEF TypeOK, FeedOK
  <2>4. /\ \/ Offer("router", Head(events).doc, Head(events).body)
              /\ UNCHANGED used
           \/ OfferQueueFull("router", Head(events).doc)
        /\ UNCHANGED <<store, journals, scan, out>>
    BY Zenon, <1>1 DEF RouterEvent
  <2>5. /\ Head(events).doc \in Docs /\ Head(events).body \in Bodies
        /\ "router" \in Offerers
    BY Zenon, <2>2 DEF Offerers
  <2>6. TaskOK' /\ ReadyOK' /\ UsedOK'
    BY Zenon, <2>4, <2>5, OfferTyped, Frame
  <2>. QED  BY Zenon, <2>3, <2>4, <2>6, Frame DEF TypeOK
<1>2. ASSUME RouterLagged PROVE TypeOK'
  <2>1. FeedOK'
    BY <1>2, Zenon DEF RouterLagged, TypeOK, FeedOK
  <2>. QED  BY Zenon, <1>2, <2>1, TriggerTyped, Frame DEF RouterLagged, TypeOK
<1>. QED  BY Zenon, <1>1, <1>2

LEMMA ScanTyped ==
  ASSUME TypeOK, ScanStep
  PROVE  TypeOK'
<1>1. "recon" \in Offerers
  BY Zenon DEF Offerers
<1>2. Fit(AtPc("list", "none", "absent")) /\ Fit(AtPc("next", "none", "absent"))
  BY Zenon, ThreadFacts
<1>3. ASSUME NEW t, ReconTo(t), Fit(t) PROVE TaskOK'
  BY <1>1, <1>3, TaskMoves, Zenon DEF ReconTo, TypeOK
<1>4. CASE ScanStart
  <2>1. ScanOK'
    BY Zenon, <1>4 DEF ScanStart, TypeOK, ScanOK
  <2>. QED  BY Zenon, <1>4, <1>2, <1>3, <2>1, Frame DEF ScanStart, TypeOK
<1>5. CASE ScanList
  <2>1. ScanOK'
    BY Zenon, <1>5 DEF ScanList, TypeOK, ScanOK
  <2>. QED  BY Zenon, <1>5, <1>2, <1>3, <2>1, Frame DEF ScanList, TypeOK
<1>6. CASE ScanListFails
  BY Zenon, <1>6, ScanReturnsTyped, Spending, Frame DEF ScanListFails, TypeOK
<1>7. CASE ScanEnd
  BY Zenon, <1>7, ScanReturnsTyped, Frame DEF ScanEnd, TypeOK
<1>8. ASSUME NEW d \in Docs, ScanFilter(d) PROVE TypeOK'
  <2>1. ScanOK'
    BY Zenon, <1>8 DEF ScanFilter, TypeOK, ScanOK
  <2>2. Fit(AtPc("wait", d, "absent"))
    BY Zenon, ThreadFacts DEF Pcs, Bodies
  <2>3. TaskOK'
    BY Zenon, <1>8, <1>2, <1>3, <2>2 DEF ScanFilter
  <2>. QED  BY Zenon, <1>8, <2>1, <2>3, Frame DEF ScanFilter, TypeOK
<1>9. CASE ScanLookupFails
  BY Zenon, <1>9, ScanReturnsTyped, FlagCleared, Spending, Frame
     DEF ScanLookupFails, TypeOK
<1>10. CASE ScanHydrate
  <2>1. task["recon"].doc \in Docs
    BY Zenon, <1>10, <1>1 DEF ScanHydrate, Recon, TypeOK, TaskOK, Fit, Busy
  <2>2. Fit(AtPc("hydrated", task["recon"].doc, content[task["recon"].doc]))
    BY Zenon, <2>1, ThreadFacts DEF Pcs, TypeOK, StoreOK
  <2>3. TaskOK'
    BY <1>10, <1>2, <1>3, <2>2, Zenon DEF ScanHydrate
  <2>. QED  BY Zenon, <1>10, <2>3, Frame DEF ScanHydrate, TypeOK
<1>11. CASE ScanReadFails
  BY Zenon, <1>11, <1>2, <1>3, Spending, Frame DEF ScanReadFails, TypeOK
<1>12. CASE ScanOffer
  <2>1. task["recon"].doc \in Docs /\ task["recon"].body \in Bodies
    BY Zenon, <1>12, <1>1 DEF ScanOffer, Recon, TypeOK, TaskOK, Fit, Busy, Threads
  <2>2. CASE ReconTo(AtPc("next", "none", "absent")) /\ UNCHANGED <<ready, used>>
    BY Zenon, <1>12, <1>2, <1>3, <2>2, Frame DEF ScanOffer, TypeOK
  <2>3. CASE Offer("recon", task["recon"].doc, task["recon"].body)
             /\ UNCHANGED used
    BY Zenon, <1>12, <1>1, <2>1, <2>3, OfferTyped, Frame DEF ScanOffer, TypeOK
  <2>4. CASE OfferQueueFull("recon", task["recon"].doc)
    BY Zenon, <1>12, <1>1, <2>1, <2>4, OfferTyped, Frame DEF ScanOffer, TypeOK
  <2>. QED  BY Zenon, <1>12, <2>2, <2>3, <2>4 DEF ScanOffer
<1>13. CASE ScanExclusionDown
  <2>1. UsedOK'
    BY Zenon, <1>13, Spending, Frame DEF ScanExclusionDown
  <2>. QED
    BY Zenon, <1>13, <2>1, ScanReturnsTyped, FlagCleared, Frame
       DEF ScanExclusionDown, TypeOK
<1>14. CASE Offering("recon")
  BY Zenon, <1>14, <1>1, OfferingTyped
<1>. QED
  BY Zenon, <1>4, <1>5, <1>6, <1>7, <1>8, <1>9, <1>10, <1>11, <1>12, <1>13, <1>14
     DEF ScanStep

LEMMA EgressTyped ==
  ASSUME TypeOK, EgressStep
  PROVE  TypeOK'
<1>1. ASSUME fifo # <<>>
      PROVE  /\ Head(fifo) \in Docs /\ Tail(fifo) \in Seq(Docs)
             /\ Len(Tail(fifo)) <= FifoCap
  BY <1>1, HeadTailProperties, LenProperties, DeliveryConstants DEF TypeOK, OutOK
<1>2. CASE EgressPublish
  <2>1. AtPc("flush", Head(fifo), "remote") \in Threads
    BY Zenon, <1>1, <1>2 DEF EgressPublish, AtPc, Threads, Pcs, Bodies
  <2>2. published' \in [Docs -> Nat]
    BY <1>1, <1>2 DEF EgressPublish, TypeOK, OutOK
  <2>3. OutOK'
    BY Zenon, <1>1, <1>2, <2>1, <2>2 DEF EgressPublish, TypeOK, OutOK
  <2>. QED  BY Zenon, <1>2, <2>3, Frame DEF EgressPublish, TypeOK
<1>3. CASE EgressPublishFails
  <2>1. OutOK'
    BY Zenon, <1>1, <1>3 DEF EgressPublishFails, TypeOK, OutOK
  <2>. QED  BY Zenon, <1>3, <2>1, Spending, Frame DEF EgressPublishFails, TypeOK
<1>4. CASE EgressUnavailable
  <2>1. OutOK'
    BY Zenon, <1>1, <1>4 DEF EgressUnavailable, TypeOK, OutOK
  <2>. QED  BY Zenon, <1>4, <2>1, Frame DEF EgressUnavailable, TypeOK
<1>5. CASE EgressFlush
  <2>1. egress' \in Threads
    BY <1>5, ThreadFacts, Zenon DEF EgressFlush, TypeOK, OutOK, Threads, Pcs
  <2>2. OutOK'
    BY Zenon, <1>5, <2>1 DEF EgressFlush, TypeOK, OutOK
  <2>. QED  BY Zenon, <1>5, <2>2, Frame DEF EgressFlush, TypeOK
<1>6. CASE EgressMark
  <2>1. OutOK'
    BY Zenon, <1>6, ThreadFacts DEF EgressMark, TypeOK, OutOK
  <2>2. JournalsOK'
    BY <1>6, Zenon DEF EgressMark, TypeOK, JournalsOK
  <2>. QED  BY Zenon, <1>6, <2>1, <2>2, Frame DEF EgressMark, TypeOK
<1>7. CASE EgressMarkFails
  <2>1. OutOK'
    BY Zenon, <1>7, ThreadFacts DEF EgressMarkFails, TypeOK, OutOK
  <2>2. JournalsOK'
    BY <1>7, Zenon DEF EgressMarkFails, TypeOK, JournalsOK
  <2>3. UsedOK'
    BY Zenon, <1>7, Spending, Frame DEF EgressMarkFails
  <2>. QED
    BY Zenon, <1>7, <2>1, <2>2, <2>3, FlagCleared, Frame DEF EgressMarkFails, TypeOK
<1>. QED  BY Zenon, <1>2, <1>3, <1>4, <1>5, <1>6, <1>7 DEF EgressStep

LEMMA LifecycleTyped ==
  ASSUME TypeOK
  PROVE  /\ LinkUp => TypeOK'
         /\ LinkDown => TypeOK'
         /\ HealthMonitor => TypeOK'
         /\ BeginShutdown => TypeOK'
         /\ \A o \in Offerers : AbortProducer(o) => TypeOK'
         /\ Restart => TypeOK'
<1>1. ASSUME LinkUp PROVE TypeOK'
  <2>1. ScanOK'
    BY Zenon, <1>1, TriggerTyped DEF LinkUp, TypeOK, ScanOK
  <2>. QED  BY Zenon, <1>1, <2>1, FlagCleared, Frame DEF LinkUp, TypeOK
<1>2. ASSUME LinkDown PROVE TypeOK'
  BY Zenon, <1>2, FlagCleared, Spending, Frame DEF LinkDown, TypeOK
<1>3. ASSUME HealthMonitor PROVE TypeOK'
  <2>1. ReadyOK'
    BY <1>3, Zenon DEF HealthMonitor, TypeOK, ReadyOK, JournalsOK
  <2>. QED  BY Zenon, <1>3, <2>1, Frame DEF HealthMonitor, TypeOK
<1>4. ASSUME BeginShutdown PROVE TypeOK'
  <2>1. ScanOK'
    BY <1>4, Zenon DEF BeginShutdown, TypeOK, ScanOK
  <2>. QED  BY Zenon, <1>4, <2>1, FlagCleared, Frame DEF BeginShutdown, TypeOK
<1>5. ASSUME NEW o \in Offerers, AbortProducer(o) PROVE TypeOK'
  <2>1. JournalsOK'
    BY Zenon, <1>5 DEF AbortProducer, TypeOK, JournalsOK
  <2>2. TaskOK'
    BY <1>5, ThreadFacts, TaskMoves, Zenon DEF AbortProducer, TypeOK
  <2>. QED  BY Zenon, <1>5, <2>1, <2>2, Frame DEF AbortProducer, TypeOK
<1>6. ASSUME Restart PROVE TypeOK'
  <2>1. StoreOK'
    BY <1>6, ThreadFacts, Zenon DEF Restart, TypeOK, StoreOK
  <2>2. JournalsOK'
    BY Zenon, <1>6 DEF Restart, TypeOK, JournalsOK
  <2>3. \A S : <<>> \in Seq(S) /\ Len(<<>>) = 0
    BY EmptySeq
  <2>4. /\ notices' \in Seq(Docs) /\ Len(notices') <= NoticeCap
        /\ events' \in Seq([doc : Docs, body : Bodies]) /\ Len(events') <= EventCap
        /\ fifo' \in Seq(Docs) /\ Len(fifo') <= FifoCap
    <3>1. notices' = <<>> /\ events' = <<>> /\ fifo' = <<>>
      BY Zenon, <1>6 DEF Restart
    <3>2. 0 <= NoticeCap /\ 0 <= EventCap /\ 0 <= FifoCap
      BY DeliveryConstants
    <3>. QED  BY Zenon, <2>3, <3>1, <3>2
  <2>5. FeedOK'
    BY <1>6, <2>4, Zenon DEF Restart, FeedOK
  <2>6. TaskOK'
    BY <1>6, ThreadFacts, Zenon DEF Restart, TaskOK
  <2>7. ScanOK'
    BY <1>6, Zenon DEF Restart, ScanOK
  <2>8. OutOK'
    BY <1>6, <2>4, ThreadFacts, Zenon DEF Restart, TypeOK, OutOK
  <2>9. ReadyOK'
    BY Zenon, <1>6 DEF Restart, ReadyOK
  <2>10. UsedOK'
    BY Zenon, <1>6, Spending DEF Restart
  <2>. QED
    BY Zenon, <2>1, <2>2, <2>5, <2>6, <2>7, <2>8, <2>9, <2>10 DEF TypeOK
<1>. QED  BY Zenon, <1>1, <1>2, <1>3, <1>4, <1>5, <1>6

LEMMA NextTyped == TypeOK /\ [Next]_vars => TypeOK'
<1>. SUFFICES ASSUME TypeOK, [Next]_vars PROVE TypeOK'
  BY Zenon
<1>1. CASE RouterStep
  BY Zenon, <1>1, RouterTyped, OfferingTyped DEF RouterStep, Offerers
<1>2. CASE UNCHANGED vars
  BY Zenon, <1>2, Frame DEF vars, TypeOK
<1>. QED
  BY Zenon, <1>1, <1>2, FeedTyped, MutationTyped, ScanTyped, EgressTyped,
     LifecycleTyped DEF Next

(***************************************************************************)
(* The delivery path's variables keep their types; every ring and queue    *)
(* stays within its capacity.                                              *)
(***************************************************************************)
THEOREM DeliveryTyped == Spec => []TypeOK
BY InitTyped, NextTyped, PTL DEF Spec

-----------------------------------------------------------------------------
(***************************************************************************)
(* At most once.  PublishedOnce is not inductive: it also takes that a     *)
(* document is at any time in one place only on its way to NATS - carried  *)
(* by one offerer, or in the FIFO once, or published - and that a document *)
(* without a durable reservation is in none of them.                       *)
(***************************************************************************)
InFifo(d) == \E i \in 1..Len(fifo) : fifo[i] = d
Carried(o, d) == task[o].pc = "enqueue" /\ task[o].doc = d

FreshIsNowhere ==
  \A d \in Docs : delivery[d] = "none" =>
    published[d] = 0 /\ ~InFifo(d) /\ \A o \in Offerers : ~Carried(o, d)

FifoUnpublished == \A i \in 1..Len(fifo) : published[fifo[i]] = 0

FifoDistinct == \A i, j \in 1..Len(fifo) : fifo[i] = fifo[j] => i = j

CarriedOnce ==
  \A o \in Offerers, d \in Docs : Carried(o, d) =>
    /\ published[d] = 0 /\ ~InFifo(d)
    /\ \A p \in Offerers : Carried(p, d) => p = o

OnceInv == /\ FreshIsNowhere /\ FifoUnpublished /\ FifoDistinct /\ CarriedOnce
           /\ PublishedOnce

LEMMA InitOnce == Init => OnceInv
<1>. SUFFICES ASSUME Init PROVE OnceInv
  OBVIOUS
<1>1. Len(fifo) = 0
  BY Zenon, EmptySeq DEF Init
<1>2. \A d : ~InFifo(d)
  BY <1>1 DEF InFifo
<1>3. \A o \in Offerers, d \in Docs : ~Carried(o, d)
  BY ThreadFacts, Zenon DEF Init, Carried
<1>4. \A d \in Docs : published[d] = 0
  BY Zenon DEF Init
<1>5. FreshIsNowhere
  BY Zenon, <1>2, <1>3, <1>4 DEF FreshIsNowhere
<1>6. FifoUnpublished /\ FifoDistinct
  <2>1. \A i : i \notin 1..Len(fifo)
    BY <1>1
  <2>. QED  BY Zenon, <2>1 DEF FifoUnpublished, FifoDistinct
<1>7. CarriedOnce
  BY Zenon, <1>3 DEF CarriedOnce
<1>8. PublishedOnce
  BY <1>4 DEF PublishedOnce
<1>. QED  BY Zenon, <1>5, <1>6, <1>7, <1>8 DEF OnceInv

\* A step that queues, carries and publishes nothing new.
LEMMA OnceKept ==
  ASSUME OnceInv, UNCHANGED <<fifo, published>>,
         \A d \in Docs : delivery'[d] = "none" => delivery[d] = "none",
         \A o \in Offerers : task'[o].pc = "enqueue" => task'[o] = task[o]
  PROVE  OnceInv'
<1>1. \A d : InFifo(d)' <=> InFifo(d)
  BY Zenon DEF InFifo
<1>2. \A o \in Offerers, d \in Docs : Carried(o, d)' => Carried(o, d)
  BY Zenon DEF Carried
<1>3. FreshIsNowhere'
  BY <1>1, <1>2, Zenon DEF OnceInv, FreshIsNowhere
<1>4. FifoUnpublished' /\ FifoDistinct' /\ PublishedOnce'
  BY Zenon DEF OnceInv, FifoUnpublished, FifoDistinct, PublishedOnce
<1>5. CarriedOnce'
  BY <1>1, <1>2, Zenon DEF OnceInv, CarriedOnce
<1>. QED  BY Zenon, <1>3, <1>4, <1>5 DEF OnceInv

\* A durable reservation of a fresh document makes one offerer carry it.
LEMMA ReserveOnce ==
  ASSUME TypeOK, OnceInv, NEW o \in Offerers, Reserve(o)
  PROVE  OnceInv'
<1>. DEFINE d0 == task[o].doc
<1>1. /\ d0 \in Docs /\ delivery[d0] = "none"
      /\ task \in [Offerers -> Threads]
      /\ delivery \in [Docs -> {"none", "Reserved", "Completed"}]
  BY Zenon DEF Reserve, TypeOK, TaskOK, JournalsOK, Fit, Busy
<1>2. /\ delivery' = [delivery EXCEPT ![d0] = "Reserved"]
      /\ task' = [task EXCEPT ![o].pc = "enqueue"]
      /\ UNCHANGED <<fifo, published>>
  BY Zenon DEF Reserve, out
<1>3. \A d : InFifo(d)' <=> InFifo(d)
  BY Zenon, <1>2 DEF InFifo
<1>4. ASSUME NEW p \in Offerers, NEW d \in Docs
      PROVE  Carried(p, d)' <=> Carried(p, d) \/ (p = o /\ d = d0)
  <2>1. CASE p = o
    <3>1. task'[o].pc = "enqueue" /\ task'[o].doc = d0
      BY Zenon, <1>1, <1>2 DEF Threads
    <3>2. task[o].pc = "reserve"
      BY Zenon DEF Reserve
    <3>. QED  BY Zenon, <2>1, <3>1, <3>2 DEF Carried
  <2>2. CASE p # o
    BY Zenon, <2>2, <1>1, <1>2 DEF Carried
  <2>. QED  BY Zenon, <2>1, <2>2
<1>5. published[d0] = 0 /\ ~InFifo(d0) /\ \A p \in Offerers : ~Carried(p, d0)
  BY <1>1, Zenon DEF OnceInv, FreshIsNowhere
<1>6. FreshIsNowhere'
  BY Zenon, <1>1, <1>2, <1>3, <1>4 DEF OnceInv, FreshIsNowhere
<1>7. FifoUnpublished' /\ FifoDistinct' /\ PublishedOnce'
  BY Zenon, <1>2 DEF OnceInv, FifoUnpublished, FifoDistinct, PublishedOnce
<1>8. CarriedOnce'
  BY <1>2, <1>3, <1>4, <1>5 DEF OnceInv, CarriedOnce
<1>. QED  BY Zenon, <1>6, <1>7, <1>8 DEF OnceInv

\* The carried document enters the FIFO, or is lost.
LEMMA EnqueueOnce ==
  ASSUME TypeOK, OnceInv, NEW o \in Offerers, Enqueue(o)
  PROVE  OnceInv'
<1>. DEFINE d0 == task[o].doc
<1>1. /\ d0 \in Docs /\ task \in [Offerers -> Threads] /\ fifo \in Seq(Docs)
      /\ Len(fifo) \in Nat
  BY Zenon, LenProperties DEF Enqueue, TypeOK, TaskOK, OutOK, Fit, Busy
<1>2. /\ UNCHANGED <<delivery, published>>
      /\ fifo' = IF Len(fifo) < FifoCap THEN Append(fifo, d0) ELSE fifo
      /\ task' = [task EXCEPT ![o] = Done(o)]
      /\ Carried(o, d0)
  BY Zenon DEF Enqueue, journals, Carried
<1>3. Done(o).pc # "enqueue"
  BY Zenon DEF Done, Idle, AtPc
<1>4. ASSUME NEW p \in Offerers, NEW d \in Docs, Carried(p, d)'
      PROVE  Carried(p, d) /\ p # o
  BY Zenon, <1>1, <1>2, <1>3, <1>4 DEF Carried
<1>5. CASE fifo' = fifo
  <2>1. \A p \in Offerers : task'[p].pc = "enqueue" => task'[p] = task[p]
    BY Zenon, <1>1, <1>2, <1>3
  <2>. QED  BY Zenon, <1>2, <1>5, <2>1, OnceKept
<1>6. CASE fifo' = Append(fifo, d0)
  <2>1. /\ Len(fifo') = Len(fifo) + 1 /\ fifo'[Len(fifo) + 1] = d0
        /\ \A i \in 1..Len(fifo) : fifo'[i] = fifo[i]
    BY <1>1, <1>6, AppendProperties
  <2>2. \A i \in 1..Len(fifo') : i = Len(fifo) + 1 \/ i \in 1..Len(fifo)
    BY <1>1, <2>1
  <2>3. \A d : InFifo(d)' => InFifo(d) \/ d = d0
    BY Zenon, <2>1, <2>2 DEF InFifo
  <2>4. published[d0] = 0 /\ ~InFifo(d0)
    BY <1>1, <1>2, Zenon DEF OnceInv, CarriedOnce
  <2>5. FreshIsNowhere'
    BY <1>1, <1>2, <1>4, <2>3, Zenon DEF OnceInv, FreshIsNowhere
  <2>6. FifoUnpublished'
    <3>1. \A i \in 1..Len(fifo) : published[fifo'[i]] = 0
      BY <2>1, Zenon DEF OnceInv, FifoUnpublished
    <3>2. published[fifo'[Len(fifo) + 1]] = 0
      BY Zenon, <2>1, <2>4
    <3>. QED  BY <1>2, <2>2, <3>1, <3>2, Zenon DEF FifoUnpublished
  <2>7. FifoDistinct'
    <3>1. \A i, j \in 1..Len(fifo) : fifo'[i] = fifo'[j] => i = j
      BY Zenon, <2>1 DEF OnceInv, FifoDistinct
    <3>2. \A i \in 1..Len(fifo) : fifo'[i] # fifo'[Len(fifo) + 1]
      BY Zenon, <2>1, <2>4 DEF InFifo
    <3>. QED  BY Zenon, <2>2, <3>1, <3>2 DEF FifoDistinct
  <2>8. CarriedOnce'
    <3>1. SUFFICES ASSUME NEW p \in Offerers, NEW d \in Docs, Carried(p, d)'
                   PROVE  /\ published'[d] = 0 /\ ~InFifo(d)'
                          /\ \A q \in Offerers : Carried(q, d)' => q = p
      BY Zenon DEF CarriedOnce
    <3>2. Carried(p, d) /\ p # o
      BY Zenon, <1>4, <3>1
    <3>3. /\ published[d] = 0 /\ ~InFifo(d)
          /\ \A q \in Offerers : Carried(q, d) => q = p
      BY Zenon, <3>2 DEF OnceInv, CarriedOnce
    <3>4. d # d0
      BY <1>2, <3>2, <3>3, Zenon
    <3>. QED  BY <1>2, <1>4, <2>3, <3>3, <3>4, Zenon
  <2>9. PublishedOnce'
    BY Zenon, <1>2 DEF OnceInv, PublishedOnce
  <2>. QED  BY Zenon, <2>5, <2>6, <2>7, <2>8, <2>9 DEF OnceInv
<1>. QED  BY Zenon, <1>2, <1>5, <1>6

\* The worker takes the head of the FIFO; it publishes it at most now.
LEMMA TakeOnce ==
  ASSUME TypeOK, OnceInv, fifo # <<>>, fifo' = Tail(fifo),
         UNCHANGED <<delivery, task>>,
         \/ UNCHANGED published
         \/ published' = [published EXCEPT ![Head(fifo)] = @ + 1]
  PROVE  OnceInv'
<1>1. /\ fifo \in Seq(Docs) /\ Len(fifo) \in Nat \ {0}
      /\ published \in [Docs -> Nat]
  BY Zenon, EmptySeq DEF TypeOK, OutOK
<1>2. /\ Len(fifo') = Len(fifo) - 1
      /\ \A i \in 1..Len(fifo') : fifo'[i] = fifo[i + 1] /\ i + 1 \in 1..Len(fifo)
      /\ Head(fifo) = fifo[1] /\ 1 \in 1..Len(fifo) /\ Head(fifo) \in Docs
  BY <1>1, HeadTailProperties
<1>3. \A d : InFifo(d)' => InFifo(d) /\ d # Head(fifo)
  BY <1>1, <1>2 DEF OnceInv, FifoDistinct, InFifo
<1>4. InFifo(Head(fifo)) /\ published[Head(fifo)] = 0
  BY Zenon, <1>2 DEF InFifo, OnceInv, FifoUnpublished
<1>5. delivery[Head(fifo)] # "none" /\ \A o \in Offerers : ~Carried(o, Head(fifo))
  BY Zenon, <1>2, <1>4 DEF OnceInv, FreshIsNowhere, CarriedOnce
<1>6. \A d \in Docs : d # Head(fifo) => published'[d] = published[d]
  BY Zenon, <1>1
<1>7. \A o, d : Carried(o, d)' <=> Carried(o, d)
  BY Zenon DEF Carried
<1>8. FreshIsNowhere'
  BY Zenon, <1>3, <1>5, <1>6, <1>7 DEF OnceInv, FreshIsNowhere
<1>9. FifoUnpublished'
  <2>1. \A i \in 1..Len(fifo') : fifo'[i] \in Docs /\ fifo'[i] # Head(fifo)
    BY <1>1, <1>2, ElementOfSeq DEF OnceInv, FifoDistinct
  <2>. QED  BY <2>1, <1>2, <1>6 DEF OnceInv, FifoUnpublished
<1>10. FifoDistinct'
  BY <1>1, <1>2 DEF OnceInv, FifoDistinct
<1>11. CarriedOnce'
  BY ZenonT(60), <1>3, <1>5, <1>6, <1>7 DEF OnceInv, CarriedOnce
<1>12. PublishedOnce'
  BY <1>1, <1>2, <1>4, <1>6 DEF OnceInv, PublishedOnce
<1>. QED  BY Zenon, <1>8, <1>9, <1>10, <1>11, <1>12 DEF OnceInv

\* Restart empties FIFO and tasks and forgets no reservation.
LEMMA RestartOnce ==
  ASSUME TypeOK, OnceInv, Restart
  PROVE  OnceInv'
<1>1. /\ UNCHANGED published /\ Len(fifo') = 0
      /\ \A o \in Offerers : task'[o].pc = "idle"
      /\ \A d \in Docs : delivery'[d] = "none" => delivery[d] = "none"
  BY EmptySeq, ThreadFacts, Zenon DEF Restart
<1>2. \A d : ~InFifo(d)'
  BY <1>1 DEF InFifo
<1>3. \A o \in Offerers, d \in Docs : ~Carried(o, d)'
  BY Zenon, <1>1 DEF Carried
<1>4. FreshIsNowhere'
  BY <1>1, <1>2, <1>3, Zenon DEF OnceInv, FreshIsNowhere
<1>5. FifoUnpublished' /\ FifoDistinct'
  BY <1>1 DEF FifoUnpublished, FifoDistinct
<1>6. CarriedOnce'
  BY Zenon, <1>3 DEF CarriedOnce
<1>7. PublishedOnce'
  BY Zenon, <1>1 DEF OnceInv, PublishedOnce
<1>. QED  BY Zenon, <1>4, <1>5, <1>6, <1>7 DEF OnceInv

\* No offer, whatever its outcome, makes its offerer carry a document.
LEMMA OfferCarriesNothing ==
  ASSUME TypeOK, NEW o \in Offerers, NEW d, NEW b,
         Offer(o, d, b) \/ OfferQueueFull(o, d)
  PROVE  \A p \in Offerers : task'[p].pc = "enqueue" => task'[p] = task[p]
BY DEF Offer, OfferQueueFull, TypeOK, TaskOK, Done, AtPc, Idle

LEMMA ReconCarriesNothing ==
  ASSUME TypeOK, NEW t, t.pc # "enqueue", ReconTo(t)
  PROVE  \A p \in Offerers : task'[p].pc = "enqueue" => task'[p] = task[p]
BY Zenon DEF ReconTo, TypeOK, TaskOK

LEMMA ScanOnce ==
  ASSUME TypeOK, OnceInv, ScanStep, ~Offering("recon")
  PROVE  OnceInv'
<1>1. UNCHANGED <<out, delivery>>
  BY Zenon DEF ScanStep, ScanStart, ScanList, ScanListFails, ScanEnd, ScanFilter,
         ScanLookupFails, ScanHydrate, ScanReadFails, ScanOffer,
         ScanExclusionDown, journals
<1>2. \A p \in Offerers : task'[p].pc = "enqueue" => task'[p] = task[p]
  <2>1. CASE \/ Offer("recon", task["recon"].doc, task["recon"].body)
             \/ OfferQueueFull("recon", task["recon"].doc)
    BY Zenon, <2>1, OfferCarriesNothing DEF Offerers
  <2>2. CASE \E t : ReconTo(t) /\ t.pc # "enqueue"
    BY Zenon, <2>2, ReconCarriesNothing
  <2>3. \A q \in {"list", "next", "wait", "hydrated"} :
          \A d, b : AtPc(q, d, b).pc # "enqueue"
    BY Zenon DEF AtPc
  <2>4. Idle.pc # "enqueue"
    BY Zenon DEF Idle
  <2>5. ScanReturns => \E t : ReconTo(t) /\ t.pc # "enqueue"
    BY Zenon, <2>3, <2>4 DEF ScanReturns
  <2>6. ScanStart \/ ScanList \/ ScanHydrate \/ ScanReadFails
          => \E t : ReconTo(t) /\ t.pc # "enqueue"
    BY <2>3, Zenon DEF ScanStart, ScanList, ScanHydrate, ScanReadFails
  <2>7. \A d \in Docs : ScanFilter(d) => \E t : ReconTo(t) /\ t.pc # "enqueue"
    BY Zenon, <2>3 DEF ScanFilter
  <2>8. ScanListFails \/ ScanEnd \/ ScanLookupFails \/ ScanExclusionDown
          => ScanReturns
    BY Zenon DEF ScanListFails, ScanEnd, ScanLookupFails, ScanExclusionDown
  <2>9. ScanOffer => \/ Offer("recon", task["recon"].doc, task["recon"].body)
                     \/ OfferQueueFull("recon", task["recon"].doc)
                     \/ \E t : ReconTo(t) /\ t.pc # "enqueue"
    BY Zenon, <2>3 DEF ScanOffer
  <2>. QED  BY <2>1, <2>2, <2>5, <2>6, <2>7, <2>8, <2>9, ZenonT(60) DEF ScanStep
<1>. QED  BY Zenon, <1>1, <1>2, OnceKept DEF out

LEMMA OfferingOnce ==
  ASSUME TypeOK, OnceInv, NEW o \in Offerers, Offering(o)
  PROVE  OnceInv'
<1>1. CASE ReserveSuppressed(o) \/ ReserveFails(o)
  <2>1. UNCHANGED <<out, delivery>> /\ task' = [task EXCEPT ![o] = Done(o)]
    BY Zenon, <1>1 DEF ReserveSuppressed, ReserveFails, journals
  <2>2. \A p \in Offerers : task'[p].pc = "enqueue" => task'[p] = task[p]
    BY Zenon, <2>1 DEF TypeOK, TaskOK, Done, AtPc, Idle
  <2>. QED  BY Zenon, <2>1, <2>2, OnceKept DEF out
<1>. QED  BY Zenon, <1>1, ReserveOnce, EnqueueOnce DEF Offering

LEMMA EgressOnce ==
  ASSUME TypeOK, OnceInv, EgressStep
  PROVE  OnceInv'
<1>1. CASE EgressPublish
  BY Zenon, <1>1, TakeOnce DEF EgressPublish, journals
<1>2. CASE EgressPublishFails
  BY Zenon, <1>2, TakeOnce DEF EgressPublishFails, journals
<1>3. CASE EgressUnavailable
  BY Zenon, <1>3, TakeOnce DEF EgressUnavailable, journals
<1>4. CASE EgressFlush
  <2>1. UNCHANGED <<fifo, published, task, delivery>>
    BY Zenon, <1>4 DEF EgressFlush, journals
  <2>. QED  BY Zenon, <2>1, OnceKept
<1>5. CASE EgressMark
  <2>1. UNCHANGED <<fifo, published, task>>
    BY Zenon, <1>5 DEF EgressMark
  <2>2. \A d \in Docs : delivery'[d] = "none" => delivery[d] = "none"
    BY Zenon, <1>5 DEF EgressMark, TypeOK, JournalsOK
  <2>. QED  BY Zenon, <2>1, <2>2, OnceKept
<1>6. CASE EgressMarkFails
  <2>1. UNCHANGED <<fifo, published, task, delivery>>
    BY Zenon, <1>6 DEF EgressMarkFails
  <2>. QED  BY <2>1, OnceKept
<1>. QED  BY Zenon, <1>1, <1>2, <1>3, <1>4, <1>5, <1>6 DEF EgressStep

\* Store writes, the router's feed and readiness leave the delivery side alone.
LEMMA QuietFrame ==
  ASSUME \/ \E d \in Docs : RemoteWrite(d)
         \/ Forward \/ ForwardFails \/ RouterLagged \/ Mutation
         \/ LinkUp \/ LinkDown \/ HealthMonitor \/ BeginShutdown
         \/ UNCHANGED vars
  PROVE  UNCHANGED <<out, delivery, task>>
<1>1. ASSUME NEW d \in Docs, RemoteWrite(d)
      PROVE  UNCHANGED <<out, delivery, task>>
  BY Zenon, <1>1 DEF RemoteWrite, journals
<1>2. CASE Forward \/ ForwardFails
  BY <1>2, Zenon DEF Forward, ForwardFails, journals
<1>3. CASE RouterLagged
  BY Zenon, <1>3 DEF RouterLagged, journals
<1>4. CASE Mutation
  <2>1. ASSUME NEW d \in Docs, Exclude(d) \/ ExcludeFails(d)
        PROVE  UNCHANGED <<out, delivery, task>>
    BY Zenon, <2>1 DEF Exclude, ExcludeFails
  <2>2. CASE LocalPut \/ LocalDelete
    BY Zenon, <2>2 DEF LocalPut, LocalDelete, journals
  <2>. QED  BY Zenon, <1>4, <2>1, <2>2 DEF Mutation
<1>5. CASE LinkUp \/ LinkDown
  BY Zenon, <1>5 DEF LinkUp, LinkDown, journals
<1>6. CASE HealthMonitor \/ BeginShutdown
  BY Zenon, <1>6 DEF HealthMonitor, BeginShutdown, journals
<1>7. CASE UNCHANGED vars
  BY Zenon, <1>7 DEF vars, journals
<1>. QED  BY Zenon, <1>1, <1>2, <1>3, <1>4, <1>5, <1>6, <1>7

LEMMA NextOnce == TypeOK /\ OnceInv /\ [Next]_vars => OnceInv'
<1>. SUFFICES ASSUME TypeOK, OnceInv, [Next]_vars PROVE OnceInv'
  BY Zenon
<1>1. CASE RouterEvent
  <2>1. UNCHANGED <<out, journals>>
    BY Zenon, <1>1 DEF RouterEvent
  <2>2. \A p \in Offerers : task'[p].pc = "enqueue" => task'[p] = task[p]
    BY Zenon, <1>1, OfferCarriesNothing DEF RouterEvent, Offerers
  <2>. QED  BY <2>1, <2>2, OnceKept, Zenon DEF out, journals
<1>2. CASE Offering("router") \/ Offering("recon")
  BY Zenon, <1>2, OfferingOnce DEF Offerers
<1>3. ASSUME NEW o \in Offerers, AbortProducer(o) PROVE OnceInv'
  <2>1. \A p \in Offerers : task'[p].pc = "enqueue" => task'[p] = task[p]
    BY <1>3, Zenon DEF AbortProducer, TypeOK, TaskOK, AtPc
  <2>2. \A d \in Docs : delivery'[d] = "none" => delivery[d] = "none"
    BY <1>3, Zenon DEF AbortProducer, TypeOK, JournalsOK
  <2>. QED  BY Zenon, <1>3, <2>1, <2>2, OnceKept DEF AbortProducer, out
<1>4. CASE \/ \E d \in Docs : RemoteWrite(d)
           \/ Forward \/ ForwardFails \/ RouterLagged \/ Mutation
           \/ LinkUp \/ LinkDown \/ HealthMonitor \/ BeginShutdown
           \/ UNCHANGED vars
  <2>1. UNCHANGED <<out, delivery, task>>
    BY Zenon, <1>4, QuietFrame
  <2>. QED  BY <2>1, OnceKept, Zenon DEF out
<1>. QED
  BY Zenon, <1>1, <1>2, <1>3, <1>4, ScanOnce, EgressOnce, RestartOnce
     DEF Next, RouterStep

LEMMA OnceAlways == Spec => [](TypeOK /\ OnceInv)
BY InitTyped, InitOnce, NextTyped, NextOnce, PTL DEF Spec

(***************************************************************************)
(* No document is handed to NATS twice, for any number of documents,       *)
(* faults, flaps and restarts and any capacities.                          *)
(***************************************************************************)
THEOREM PublishedAtMostOnce == Spec => []PublishedOnce
<1>1. OnceInv => PublishedOnce
  BY Zenon DEF OnceInv
<1>. QED  BY <1>1, OnceAlways, PTL

(***************************************************************************)
(* A published document has a durable reservation for ever.                *)
(***************************************************************************)
THEOREM PublishedStaysReserved == Spec => []PublishedIsReserved
<1>1. TypeOK /\ OnceInv => PublishedIsReserved
  BY DEF TypeOK, OutOK, OnceInv, FreshIsNowhere, PublishedIsReserved
<1>. QED  BY <1>1, OnceAlways, PTL

\* Only EgressPublish changes the published counts.
LEMMA OnlyPublishCounts ==
  ASSUME [Next]_vars, published' # published
  PROVE  EgressPublish
<1>1. CASE RouterEvent
  BY Zenon, <1>1 DEF RouterEvent, out
<1>2. ASSUME NEW o \in Offerers, Offering(o) PROVE FALSE
  <2>1. CASE Reserve(o)
    BY Zenon, <2>1 DEF Reserve, out
  <2>2. CASE ReserveSuppressed(o) \/ ReserveFails(o)
    BY Zenon, <2>2 DEF ReserveSuppressed, ReserveFails, out
  <2>3. CASE Enqueue(o)
    BY Zenon, <2>3 DEF Enqueue
  <2>. QED  BY Zenon, <1>2, <2>1, <2>2, <2>3 DEF Offering
<1>3. CASE ScanStep
  <2>1. CASE ScanStart \/ ScanList
    BY <2>1, Zenon DEF ScanStart, ScanList, out
  <2>2. CASE ScanListFails \/ ScanEnd \/ ScanLookupFails
    BY Zenon, <2>2 DEF ScanListFails, ScanEnd, ScanLookupFails, out
  <2>3. ASSUME NEW d \in Docs, ScanFilter(d) PROVE FALSE
    BY Zenon, <2>3 DEF ScanFilter, out
  <2>4. CASE ScanHydrate \/ ScanReadFails
    BY <2>4, Zenon DEF ScanHydrate, ScanReadFails, out
  <2>5. CASE ScanOffer \/ ScanExclusionDown
    BY Zenon, <2>5 DEF ScanOffer, ScanExclusionDown, out
  <2>. QED  BY Zenon, <1>2, <1>3, <2>1, <2>2, <2>3, <2>4, <2>5 DEF ScanStep, Offerers
<1>4. CASE EgressStep
  <2>1. CASE EgressPublishFails \/ EgressUnavailable
    BY Zenon, <2>1 DEF EgressPublishFails, EgressUnavailable
  <2>2. CASE EgressFlush \/ EgressMark
    BY Zenon, <2>2 DEF EgressFlush, EgressMark
  <2>3. CASE EgressMarkFails
    BY Zenon, <2>3 DEF EgressMarkFails
  <2>. QED  BY Zenon, <1>4, <2>1, <2>2, <2>3 DEF EgressStep
<1>5. ASSUME NEW o \in Offerers, AbortProducer(o) PROVE FALSE
  BY Zenon, <1>5 DEF AbortProducer, out
<1>6. CASE Restart
  BY <1>6, Zenon DEF Restart
<1>7. CASE \/ \E d \in Docs : RemoteWrite(d)
           \/ Forward \/ ForwardFails \/ RouterLagged \/ Mutation
           \/ LinkUp \/ LinkDown \/ HealthMonitor \/ BeginShutdown
           \/ UNCHANGED vars
  <2>1. UNCHANGED out
    BY Zenon, <1>7, QuietFrame
  <2>. QED  BY Zenon, <2>1 DEF out
<1>. QED
  BY Zenon, <1>1, <1>2, <1>3, <1>4, <1>5, <1>6, <1>7 DEF Next, RouterStep, Offerers

(***************************************************************************)
(* The delivery path implements AtMostOnce: the only step that counts is   *)
(* the worker publishing a document for the first time.                    *)
(***************************************************************************)
THEOREM DeliveryImplementsAtMostOnce == Spec => DeliveryRefines
<1>1. Init => Abstract!Init
  BY Zenon DEF Init, Abstract!Init
<1>2. TypeOK /\ OnceInv /\ [Next]_vars => [Abstract!Next]_published
  <2>. SUFFICES ASSUME TypeOK, OnceInv, [Next]_vars, published' # published
                PROVE  Abstract!Next
    BY Zenon
  <2>1. EgressPublish
    BY Zenon, OnlyPublishCounts
  <2>2. /\ fifo \in Seq(Docs) /\ fifo # <<>> /\ Len(fifo) \in Nat \ {0}
        /\ published \in [Docs -> Nat]
        /\ published' = [published EXCEPT ![Head(fifo)] = @ + 1]
    BY Zenon, <2>1, EmptySeq DEF EgressPublish, TypeOK, OutOK
  <2>3. Head(fifo) \in Docs /\ Head(fifo) = fifo[1] /\ 1 \in 1..Len(fifo)
    BY <2>2, HeadTailProperties
  <2>4. published[Head(fifo)] = 0
    BY Zenon, <2>3 DEF OnceInv, FifoUnpublished
  <2>5. published' = [published EXCEPT ![Head(fifo)] = 1]
    BY <2>2, <2>3, <2>4
  <2>6. Abstract!Do(Head(fifo))
    BY Zenon, <2>4, <2>5 DEF Abstract!Do
  <2>. QED  BY Zenon, <2>3, <2>6 DEF Abstract!Next
<1>. QED
  BY <1>1, <1>2, OnceAlways, PTL DEF Spec, DeliveryRefines, Abstract!Spec

-----------------------------------------------------------------------------
(***************************************************************************)
(* Local authorship.  The write follows its exclusion record, exclusion    *)
(* records are never lost, and the scanner looks the record up again after *)
(* it has read the body.                                                   *)
(***************************************************************************)
WriterExcluded ==
  writer.pc = "put" /\ Envelope[writer.doc].mapped => writer.doc \in excluded

ScanMapped ==
  /\ \A d \in todo : Envelope[d].mapped
  /\ task["recon"].pc \in {"wait", "hydrated"} =>
       Envelope[task["recon"].doc].mapped

ScanRead ==
  task["recon"].pc = "hydrated" =>
    /\ task["recon"].body # "absent"
    /\ task["recon"].body = "local" => task["recon"].doc \in excluded

AuthorInv == /\ LocalIsExcluded /\ WriterExcluded /\ ScanMapped /\ ScanRead
             /\ ScanOffersRemote

LEMMA InitAuthor == Init => AuthorInv
<1>. SUFFICES ASSUME Init PROVE AuthorInv
  OBVIOUS
<1>1. todo = {} /\ writer.pc = "idle" /\ task["recon"].pc = "idle"
  BY ThreadFacts, Zenon DEF Init, Offerers
<1>2. LocalIsExcluded
  BY Zenon DEF Init, LocalIsExcluded
<1>3. WriterExcluded /\ ScanMapped
  BY Zenon, <1>1 DEF WriterExcluded, ScanMapped
<1>4. ScanRead /\ ScanOffersRemote
  BY Zenon, <1>1 DEF ScanRead, ScanOffersRemote
<1>. QED  BY Zenon, <1>2, <1>3, <1>4 DEF AuthorInv

\* A step that leaves the scanner and the store alone.
LEMMA AuthorKept ==
  ASSUME AuthorInv, UNCHANGED <<content, writer, todo>>, excluded \subseteq excluded',
         UNCHANGED task["recon"]
  PROVE  AuthorInv'
BY Zenon DEF AuthorInv, LocalIsExcluded, WriterExcluded, ScanMapped, ScanRead,
       ScanOffersRemote

\* The scanner moves to a state that is not about a document, or goes on
\* with the one it was offering.
LEMMA ScannerMoves ==
  ASSUME TypeOK, AuthorInv, UNCHANGED <<content, writer, excluded>>,
         todo' \subseteq todo,
         \/ task'["recon"].pc \notin {"wait", "hydrated", "reserve", "enqueue"}
         \/ /\ task["recon"].pc \in {"reserve", "enqueue"}
            /\ task'["recon"].pc \in {"reserve", "enqueue"}
            /\ task'["recon"].body = task["recon"].body
  PROVE  AuthorInv'
BY Zenon DEF AuthorInv, LocalIsExcluded, WriterExcluded, ScanMapped, ScanRead,
       ScanOffersRemote

LEMMA MutationAuthor ==
  ASSUME TypeOK, AuthorInv, Mutation
  PROVE  AuthorInv'
<1>1. /\ UNCHANGED <<todo, task>> /\ excluded \subseteq excluded'
  BY Zenon DEF Mutation, Exclude, ExcludeFails, LocalPut, LocalDelete, journals, scan
<1>2. ScanMapped' /\ ScanRead' /\ ScanOffersRemote'
  BY <1>1, Zenon DEF AuthorInv, ScanMapped, ScanRead, ScanOffersRemote
<1>3. ASSUME NEW d \in Docs, Exclude(d) PROVE LocalIsExcluded' /\ WriterExcluded'
  BY <1>1, <1>3, Zenon DEF Exclude, AuthorInv, LocalIsExcluded, WriterExcluded, AtPc
<1>4. ASSUME NEW d \in Docs, ExcludeFails(d)
      PROVE  LocalIsExcluded' /\ WriterExcluded'
  BY <1>1, <1>4, Zenon DEF ExcludeFails, AuthorInv, LocalIsExcluded, WriterExcluded, store
<1>5. ASSUME LocalPut \/ LocalDelete PROVE LocalIsExcluded' /\ WriterExcluded'
  <2>1. writer.pc = "put" /\ writer' = Idle /\ UNCHANGED excluded
    BY Zenon, <1>5 DEF LocalPut, LocalDelete, journals
  <2>2. \/ content' = [content EXCEPT ![writer.doc] = "local"]
        \/ content' = [content EXCEPT ![writer.doc] = "absent"]
        \/ content' = content
    BY <1>5, Zenon DEF LocalPut, LocalDelete
  <2>3. \A d \in Docs : content'[d] = "local" => content[d] = "local" \/ d = writer.doc
    BY Zenon, <2>2 DEF TypeOK, StoreOK
  <2>. QED
    BY <2>1, <2>3, Zenon DEF AuthorInv, LocalIsExcluded, WriterExcluded, Idle
<1>. QED  BY Zenon, <1>2, <1>3, <1>4, <1>5 DEF Mutation, AuthorInv

LEMMA ScanAuthor ==
  ASSUME TypeOK, AuthorInv, ScanStep
  PROVE  AuthorInv'
<1>1. UNCHANGED <<store, excluded>>
  BY Zenon DEF ScanStep, ScanStart, ScanList, ScanListFails, ScanEnd, ScanFilter,
         ScanLookupFails, ScanHydrate, ScanReadFails, ScanOffer,
         ScanExclusionDown, Offering, Reserve, ReserveSuppressed, ReserveFails,
         Enqueue, journals
<1>2. UNCHANGED <<content, writer>>
  BY Zenon, <1>1 DEF store
<1>3. "recon" \in Offerers /\ task \in [Offerers -> Threads]
  BY Zenon DEF Offerers, TypeOK, TaskOK
<1>4. ASSUME NEW t, ReconTo(t) PROVE task'["recon"] = t
  BY Zenon, <1>3, <1>4 DEF ReconTo
<1>5. /\ AtPc("list", "none", "absent").pc = "list"
      /\ AtPc("next", "none", "absent").pc = "next"
      /\ Idle.pc = "idle"
  BY Zenon DEF AtPc, Idle
<1>6. ASSUME ScanReturns
      PROVE  /\ todo' \subseteq todo
             /\ task'["recon"].pc \notin {"wait", "hydrated", "reserve", "enqueue"}
  <2>1. task'["recon"] = AtPc("list", "none", "absent") \/ task'["recon"] = Idle
    BY Zenon, <1>4, <1>6 DEF ScanReturns
  <2>2. todo' = {}
    BY Zenon, <1>6 DEF ScanReturns
  <2>. QED  BY Zenon, <1>5, <2>1, <2>2
<1>7. CASE ScanStart
  <2>1. task'["recon"] = AtPc("list", "none", "absent") /\ UNCHANGED todo
    BY Zenon, <1>4, <1>7 DEF ScanStart
  <2>. QED  BY <1>1, <1>2, <1>5, <2>1, ScannerMoves, Zenon
<1>8. CASE ScanList
  <2>1. /\ task'["recon"].pc = "next" /\ \A d \in todo' : Envelope[d].mapped
    <3>1. task'["recon"] = AtPc("next", "none", "absent")
      BY <1>4, <1>8, Zenon DEF ScanList
    <3>2. \A d \in todo' : Envelope[d].mapped
      BY <1>8, Zenon DEF ScanList
    <3>. QED  BY Zenon, <1>5, <3>1, <3>2
  <2>. QED
    BY <1>1, <1>2, <2>1, Zenon DEF AuthorInv, LocalIsExcluded, WriterExcluded,
       ScanMapped, ScanRead, ScanOffersRemote
<1>9. CASE ScanListFails \/ ScanEnd \/ ScanLookupFails \/ ScanExclusionDown
  BY Zenon, <1>1, <1>2, <1>6, <1>9, ScannerMoves
     DEF ScanListFails, ScanEnd, ScanLookupFails, ScanExclusionDown
<1>10. ASSUME NEW d \in Docs, ScanFilter(d) PROVE AuthorInv'
  <2>1. \/ task'["recon"].pc = "next"
        \/ task'["recon"].pc = "wait" /\ task'["recon"].doc = d
    <3>1. \/ task'["recon"] = AtPc("next", "none", "absent")
          \/ task'["recon"] = AtPc("wait", d, "absent")
      BY Zenon, <1>4, <1>10 DEF ScanFilter
    <3>2. /\ AtPc("next", "none", "absent").pc = "next"
          /\ AtPc("wait", d, "absent").pc = "wait"
          /\ AtPc("wait", d, "absent").doc = d
      BY Zenon DEF AtPc
    <3>. QED  BY <3>1, <3>2, Zenon
  <2>2. todo' \subseteq todo /\ Envelope[d].mapped
    BY <1>10, Zenon DEF ScanFilter, AuthorInv, ScanMapped
  <2>. QED
    BY <1>1, <1>2, <2>1, <2>2, Zenon DEF AuthorInv, LocalIsExcluded, WriterExcluded,
       ScanMapped, ScanRead, ScanOffersRemote
<1>11. CASE ScanHydrate
  <2>. DEFINE d == task["recon"].doc
  <2>1. /\ task["recon"].pc = "wait" /\ UNCHANGED todo
        /\ \/ task'["recon"].pc = "next"
           \/ /\ task'["recon"].pc = "hydrated" /\ task'["recon"].doc = d
              /\ task'["recon"].body = content[d] /\ content[d] # "absent"
    <3>1. task["recon"].pc = "wait" /\ UNCHANGED todo
      BY <1>11, Zenon DEF ScanHydrate, Recon, scan
    <3>2. \/ task'["recon"] = AtPc("next", "none", "absent")
          \/ Readable(d) /\ task'["recon"] = AtPc("hydrated", d, content[d])
      BY <1>4, <1>11, Zenon DEF ScanHydrate
    <3>3. Readable(d) => content[d] # "absent"
      BY Zenon DEF Readable
    <3>4. /\ AtPc("hydrated", d, content[d]).pc = "hydrated"
          /\ AtPc("hydrated", d, content[d]).doc = d
          /\ AtPc("hydrated", d, content[d]).body = content[d]
      BY Zenon DEF AtPc
    <3>. QED  BY <1>5, <3>1, <3>2, <3>3, <3>4, Zenon
  <2>2. d \in Docs
    BY <2>1, <1>3, Zenon DEF TypeOK, TaskOK, Fit, Busy
  <2>3. content[d] = "local" => d \in excluded
    BY <2>1, <2>2, Zenon DEF AuthorInv, LocalIsExcluded, ScanMapped
  <2>. QED
    BY <1>1, <1>2, <2>1, <2>3, Zenon DEF AuthorInv, LocalIsExcluded, WriterExcluded,
       ScanMapped, ScanRead, ScanOffersRemote
<1>12. CASE ScanReadFails
  <2>1. task'["recon"] = AtPc("next", "none", "absent") /\ UNCHANGED todo
    BY Zenon, <1>4, <1>12 DEF ScanReadFails, scan
  <2>. QED  BY <1>1, <1>2, <1>5, <2>1, ScannerMoves, Zenon
<1>13. CASE ScanOffer
  <2>1. /\ task["recon"].pc = "hydrated" /\ UNCHANGED todo
    BY <1>13, Zenon DEF ScanOffer, Recon, scan
  <2>2. task["recon"].doc \notin excluded => task["recon"].body = "remote"
    BY Zenon, <2>1, <1>3 DEF AuthorInv, ScanRead, TypeOK, TaskOK, Threads, Bodies
  <2>3. \/ task'["recon"].pc \in {"idle", "next"}
        \/ /\ task'["recon"].pc = "reserve"
           /\ task'["recon"].body = task["recon"].body
           /\ task["recon"].doc \notin excluded
    <3>. DEFINE r == AtPc("reserve", task["recon"].doc, task["recon"].body)
    <3>1. r.pc = "reserve" /\ r.body = task["recon"].body
      BY Zenon DEF AtPc
    <3>2. Done("recon").pc \in {"idle", "next"}
      BY Zenon, <1>5 DEF Done
    <3>3. CASE ReconTo(AtPc("next", "none", "absent"))
      BY <1>4, <1>5, <3>3, Zenon
    <3>4. CASE ReconTo(Done("recon"))
      BY <1>4, <3>2, <3>4, Zenon
    <3>5. CASE ReconTo(r) /\ task["recon"].doc \notin excluded
      BY <1>4, <3>1, <3>5, Zenon
    <3>6. \/ ReconTo(AtPc("next", "none", "absent"))
          \/ ReconTo(Done("recon"))
          \/ ReconTo(r) /\ task["recon"].doc \notin excluded
      BY Zenon, <1>13 DEF ScanOffer, Offer, OfferQueueFull, ReconTo
    <3>. QED  BY <3>3, <3>4, <3>5, <3>6, Zenon
  <2>. QED
    BY <1>1, <1>2, <2>1, <2>2, <2>3, Zenon DEF AuthorInv, LocalIsExcluded,
       WriterExcluded, ScanMapped, ScanRead, ScanOffersRemote
<1>14. CASE Offering("recon")
  <2>1. /\ UNCHANGED todo
        /\ \/ task'["recon"].pc \in {"idle", "next"}
           \/ /\ task["recon"].pc = "reserve" /\ task'["recon"].pc = "enqueue"
              /\ task'["recon"].body = task["recon"].body
    BY ZenonT(60), <1>3, <1>5, <1>14 DEF Offering, Reserve, ReserveSuppressed, ReserveFails,
       Enqueue, Done, Pcs, Threads, scan
  <2>. QED  BY <1>1, <1>2, <2>1, ScannerMoves, Zenon
<1>. QED
  BY Zenon, <1>7, <1>8, <1>9, <1>10, <1>11, <1>12, <1>13, <1>14 DEF ScanStep

LEMMA NextAuthor == TypeOK /\ AuthorInv /\ [Next]_vars => AuthorInv'
<1>. SUFFICES ASSUME TypeOK, AuthorInv, [Next]_vars PROVE AuthorInv'
  OBVIOUS
<1>1. ASSUME NEW d \in Docs, RemoteWrite(d) PROVE AuthorInv'
  <2>1. UNCHANGED <<writer, todo, task, excluded>>
    BY Zenon, <1>1 DEF RemoteWrite, journals, scan
  <2>2. \A e \in Docs : content'[e] = "local" => content[e] = "local"
    BY Zenon, <1>1 DEF RemoteWrite, TypeOK, StoreOK
  <2>. QED
    BY <2>1, <2>2, Zenon DEF AuthorInv, LocalIsExcluded, WriterExcluded, ScanMapped,
       ScanRead, ScanOffersRemote
<1>2. CASE RouterStep
  <2>1. "router" \in Offerers /\ "recon" \in Offerers /\ "router" # "recon"
        /\ task \in [Offerers -> Threads]
    BY Zenon DEF Offerers, TypeOK, TaskOK
  <2>2. UNCHANGED <<store, todo, excluded>> /\ UNCHANGED task["recon"]
    BY Zenon, <1>2, <2>1 DEF RouterStep, RouterEvent, RouterLagged, Offer,
       OfferQueueFull, Offering, Reserve, ReserveSuppressed, ReserveFails,
       Enqueue, journals, scan
  <2>. QED  BY <2>2, AuthorKept, Zenon DEF store
<1>3. ASSUME NEW o \in Offerers, AbortProducer(o) PROVE AuthorInv'
  <2>1. /\ UNCHANGED <<store, excluded, scan>>
        /\ task' = [task EXCEPT ![o] = AtPc("aborted", "none", "absent")]
    BY Zenon, <1>3 DEF AbortProducer
  <2>2. \/ task'["recon"] = task["recon"]
        \/ task'["recon"].pc = "aborted"
    BY Zenon, <2>1 DEF TypeOK, TaskOK, Offerers, AtPc
  <2>3. CASE task'["recon"] = task["recon"]
    BY Zenon, <2>1, <2>3, AuthorKept DEF store, scan
  <2>4. CASE task'["recon"].pc = "aborted"
    BY Zenon, <2>1, <2>4, ScannerMoves DEF store, scan
  <2>. QED  BY Zenon, <2>2, <2>3, <2>4
<1>4. CASE Restart
  <2>1. /\ UNCHANGED <<content, excluded>> /\ writer' = Idle /\ todo' = {}
        /\ task'["recon"] = Idle
    BY <1>4, Zenon DEF Restart, Offerers
  <2>2. writer'.pc = "idle" /\ task'["recon"].pc = "idle"
    BY <2>1, ThreadFacts, Zenon
  <2>3. LocalIsExcluded'
    BY Zenon, <2>1 DEF AuthorInv, LocalIsExcluded
  <2>4. WriterExcluded' /\ ScanMapped'
    BY <2>1, <2>2, Zenon DEF WriterExcluded, ScanMapped
  <2>5. ScanRead' /\ ScanOffersRemote'
    BY Zenon, <2>2 DEF ScanRead, ScanOffersRemote
  <2>. QED  BY Zenon, <2>3, <2>4, <2>5 DEF AuthorInv
<1>5. CASE \/ Forward \/ ForwardFails \/ EgressStep
           \/ LinkUp \/ LinkDown \/ HealthMonitor \/ BeginShutdown
           \/ UNCHANGED vars
  <2>1. UNCHANGED <<store, todo, excluded, task>>
    <3>1. CASE Forward \/ ForwardFails
      BY <3>1, Zenon DEF Forward, ForwardFails, journals, scan
    <3>2. CASE EgressPublish \/ EgressPublishFails
      BY <3>2, Zenon DEF EgressPublish, EgressPublishFails, journals, scan
    <3>3. CASE EgressUnavailable \/ EgressFlush
      BY Zenon, <3>3 DEF EgressUnavailable, EgressFlush, journals, scan
    <3>4. CASE EgressMark \/ EgressMarkFails
      BY <3>4, Zenon DEF EgressMark, EgressMarkFails, scan
    <3>5. CASE LinkUp \/ LinkDown
      BY Zenon, <3>5 DEF LinkUp, LinkDown, journals, scan
    <3>6. CASE HealthMonitor \/ BeginShutdown
      BY Zenon, <3>6 DEF HealthMonitor, BeginShutdown, journals, scan
    <3>7. CASE UNCHANGED vars
      BY Zenon, <3>7 DEF vars, journals, scan
    <3>. QED  BY Zenon, <1>5, <3>1, <3>2, <3>3, <3>4, <3>5, <3>6, <3>7 DEF EgressStep
  <2>. QED  BY Zenon, <2>1, AuthorKept DEF store
<1>. QED
  BY Zenon, <1>1, <1>2, <1>3, <1>4, <1>5, MutationAuthor, ScanAuthor DEF Next

LEMMA AuthorAlways == Spec => []AuthorInv
BY InitTyped, InitAuthor, NextTyped, NextAuthor, PTL DEF Spec

(***************************************************************************)
(* A mapped document written locally is excluded from then on, across      *)
(* journal failures and restarts.                                          *)
(***************************************************************************)
THEOREM LocalStaysExcluded == Spec => []LocalIsExcluded
<1>1. AuthorInv => LocalIsExcluded
  BY Zenon DEF AuthorInv
<1>. QED  BY <1>1, AuthorAlways, PTL

(***************************************************************************)
(* Reconciliation never offers a body that was written locally, however    *)
(* local writes interleave with its lookups and reads.                     *)
(***************************************************************************)
THEOREM ScanNeverOffersLocal == Spec => []ScanOffersRemote
<1>1. AuthorInv => ScanOffersRemote
  BY Zenon DEF AuthorInv
<1>. QED  BY <1>1, AuthorAlways, PTL

-----------------------------------------------------------------------------
(***************************************************************************)
(* The gates.  An event and a document read by the scanner are within the  *)
(* bounds of a bridge document, whoever asks for a reservation has passed  *)
(* the classifier, and nothing else gets into the FIFO.                    *)
(***************************************************************************)
Passed(d) == Eligible(d) /\ Envelope[d].bounded

EventsBounded == \A i \in 1..Len(events) : Envelope[events[i].doc].bounded
TasksPassed == \A o \in Offerers :
  /\ task[o].pc = "hydrated" => Envelope[task[o].doc].bounded
  /\ task[o].pc \in {"reserve", "enqueue"} => Passed(task[o].doc)
FifoPassed == \A i \in 1..Len(fifo) : Passed(fifo[i])
SentPassed == \A d \in Docs : published[d] > 0 => Passed(d)

GateInv == EventsBounded /\ TasksPassed /\ FifoPassed /\ SentPassed

\* Every element of t is one of s, or x.
Holds(t, s, x) == \A i \in 1..Len(t) : (\E j \in 1..Len(s) : t[i] = s[j]) \/ t[i] = x

\* What a sequence holds after its head is gone, or one element was added.
LEMMA TailHolds ==
  ASSUME NEW S, NEW s \in Seq(S), s # <<>>
  PROVE  /\ \A i \in 1..Len(Tail(s)) : \E j \in 1..Len(s) : Tail(s)[i] = s[j]
         /\ \E j \in 1..Len(s) : Head(s) = s[j]
<1>1. /\ Head(s) = s[1] /\ Tail(s) \in Seq(S) /\ Len(Tail(s)) = Len(s) - 1
      /\ \A i \in 1..Len(Tail(s)) : Tail(s)[i] = s[i + 1]
  BY HeadTailProperties
<1>2. Len(s) \in Nat /\ Len(s) # 0
  BY Zenon, LenProperties, EmptySeq
<1>3. 1 \in 1..Len(s) /\ \A i \in 1..Len(Tail(s)) : i + 1 \in 1..Len(s)
  BY <1>1, <1>2
<1>. QED  BY Zenon, <1>1, <1>3

LEMMA AppendHolds ==
  ASSUME NEW S, NEW s \in Seq(S), NEW x \in S
  PROVE  Holds(Append(s, x), s, x)
<1>1. /\ Len(s) \in Nat /\ Len(Append(s, x)) = Len(s) + 1
      /\ \A i \in 1..Len(s) : Append(s, x)[i] = s[i]
      /\ Append(s, x)[Len(s) + 1] = x
  BY AppendProperties, LenProperties
<1>2. \A i \in 1..Len(Append(s, x)) : i \in 1..Len(s) \/ i = Len(s) + 1
  BY <1>1
<1>. QED  BY Zenon, <1>1, <1>2 DEF Holds

LEMMA PushHolds ==
  ASSUME NEW S, NEW s \in Seq(S), NEW x \in S, NEW cap \in Nat \ {0}
  PROVE  Holds(Push(s, x, cap), s, x)
<1>1. CASE Push(s, x, cap) = Append(s, x)
  BY Zenon, <1>1, AppendHolds
<1>2. CASE Push(s, x, cap) = Append(Tail(s), x) /\ s # <<>>
  <2>1. Tail(s) \in Seq(S)
    BY Zenon, <1>2, HeadTailProperties
  <2>2. Holds(Append(Tail(s), x), Tail(s), x)
    BY Zenon, <2>1, AppendHolds
  <2>3. \A j \in 1..Len(Tail(s)) : \E k \in 1..Len(s) : Tail(s)[j] = s[k]
    BY Zenon, <1>2, TailHolds
  <2>. QED  BY Zenon, <1>2, <2>2, <2>3 DEF Holds
<1>3. Len(s) < cap \/ s # <<>>
  BY EmptySeq
<1>. QED  BY Zenon, <1>1, <1>2, <1>3 DEF Push

LEMMA EventsStep ==
  ASSUME TypeOK, EventsBounded, [Next]_vars PROVE EventsBounded'
<1>0. events \in Seq([doc : Docs, body : Bodies]) /\ notices \in Seq(Docs)
      /\ content \in [Docs -> Bodies] /\ EventCap \in Nat \ {0}
  BY Zenon, DeliveryConstants DEF TypeOK, FeedOK, StoreOK
<1>1. CASE events' = events
  BY Zenon, <1>1 DEF EventsBounded
<1>2. CASE Forward
  <2>. DEFINE d == Head(notices)
              e == [doc |-> d, body |-> content[d]]
  <2>1. d \in Docs
    BY ZenonT(60), <1>0, <1>2, HeadTailProperties DEF Forward
  <2>2. e \in [doc : Docs, body : Bodies] /\ e.doc = d
    BY Zenon, <1>0, <2>1
  <2>3. CASE Readable(d)
    <3>1. events' = Push(events, e, EventCap) /\ Envelope[d].bounded
      BY Zenon, <1>2, <2>3 DEF Forward, Readable
    <3>. HIDE DEF e
    <3>2. Holds(Push(events, e, EventCap), events, e)
      BY Zenon, <1>0, <2>2, PushHolds
    <3>. QED  BY Zenon, <2>2, <3>1, <3>2 DEF EventsBounded, Holds
  <2>4. CASE ~Readable(d)
    BY Zenon, <1>1, <1>2, <2>4 DEF Forward
  <2>. QED  BY Zenon, <2>3, <2>4
<1>3. CASE RouterEvent
  <2>1. events # <<>> /\ events' = Tail(events)
    BY Zenon, <1>3 DEF RouterEvent
  <2>2. \A i \in 1..Len(Tail(events)) : \E j \in 1..Len(events) : Tail(events)[i] = events[j]
    BY Zenon, <1>0, <2>1, TailHolds
  <2>. QED  BY Zenon, <2>1, <2>2 DEF EventsBounded
<1>4. CASE Restart
  <2>1. events' = <<>>
    BY Zenon, <1>4 DEF Restart
  <2>2. 1..Len(<<>>) = {}
    OBVIOUS
  <2>. QED  BY Zenon, <2>1, <2>2 DEF EventsBounded
<1>5. ASSUME NEW o \in Offerers, Offering(o) PROVE events' = events
  BY Zenon, <1>5 DEF Offering, Reserve, ReserveSuppressed, ReserveFails, Enqueue, feed
<1>6. CASE \/ \E d \in Docs : RemoteWrite(d)
           \/ ForwardFails \/ RouterLagged \/ Mutation \/ EgressStep
  <2>1. ASSUME NEW d \in Docs, RemoteWrite(d) \/ Exclude(d) \/ ExcludeFails(d) PROVE events' = events
    BY Zenon, <2>1 DEF RemoteWrite, Exclude, ExcludeFails, feed
  <2>2. CASE ForwardFails \/ RouterLagged \/ LocalPut \/ LocalDelete
    BY Zenon, <1>1, <2>2 DEF ForwardFails, RouterLagged, LocalPut, LocalDelete, feed
  <2>3. CASE EgressStep
    BY Zenon, <1>1, <2>3 DEF EgressStep, EgressPublish, EgressPublishFails, EgressUnavailable,
       EgressFlush, EgressMark, EgressMarkFails, feed
  <2>. QED  BY Zenon, <1>1, <1>6, <2>1, <2>2, <2>3 DEF Mutation
<1>7. CASE ScanStep
  BY Zenon, <1>1, <1>5, <1>7 DEF ScanStep, ScanStart, ScanList, ScanListFails, ScanEnd, ScanFilter,
     ScanLookupFails, ScanHydrate, ScanReadFails, ScanOffer, ScanExclusionDown, feed, Offerers
<1>8. CASE LinkUp \/ LinkDown \/ HealthMonitor \/ BeginShutdown \/ UNCHANGED vars
           \/ \E o \in Offerers : AbortProducer(o)
  BY Zenon, <1>1, <1>8 DEF LinkUp, LinkDown, HealthMonitor, BeginShutdown, AbortProducer, vars, feed
<1>9. CASE Offering("router")
  BY Zenon, <1>1, <1>5, <1>9 DEF Offerers
<1>. QED  BY Zenon, <1>2, <1>3, <1>4, <1>6, <1>7, <1>8, <1>9 DEF Next, RouterStep

\* One offerer moves, not to a place behind a gate unless it has passed it.
LEMMA TaskPasses ==
  ASSUME TypeOK, TasksPassed, NEW o \in Offerers, NEW t, task' = [task EXCEPT ![o] = t],
         t.pc = "hydrated" => Envelope[t.doc].bounded,
         t.pc \in {"reserve", "enqueue"} => Passed(t.doc)
  PROVE  TasksPassed'
<1>1. \A u \in Offerers : task'[u] = IF u = o THEN t ELSE task[u]
  BY Zenon DEF TypeOK, TaskOK
<1>. QED  BY Zenon, <1>1 DEF TasksPassed

LEMMA OfferPasses ==
  ASSUME TypeOK, TasksPassed, NEW o \in Offerers, NEW d, NEW b, Envelope[d].bounded,
         Offer(o, d, b) \/ OfferQueueFull(o, d)
  PROVE  TasksPassed'
<1>1. Done(o).pc \in {"idle", "next"}
  BY Zenon DEF Done, Idle, AtPc
<1>2. CASE task' = [task EXCEPT ![o] = Done(o)]
  <2>1. Done(o).pc \notin {"hydrated", "reserve", "enqueue"}
    BY Zenon, <1>1
  <2>. QED  BY Zenon, <1>2, <2>1, TaskPasses
<1>3. CASE Eligible(d) /\ task' = [task EXCEPT ![o] = AtPc("reserve", d, b)]
  <2>1. AtPc("reserve", d, b).pc = "reserve" /\ AtPc("reserve", d, b).doc = d
    BY Zenon DEF AtPc
  <2>. QED  BY Zenon, <1>3, <2>1, TaskPasses DEF Passed
<1>. QED  BY Zenon, <1>2, <1>3 DEF Offer, OfferQueueFull

LEMMA OfferingPasses ==
  ASSUME TypeOK, TasksPassed, NEW o \in Offerers, Offering(o)
  PROVE  TasksPassed'
<1>1. Done(o).pc \notin {"hydrated", "reserve", "enqueue"}
  BY Zenon DEF Done, Idle, AtPc
<1>2. CASE task' = [task EXCEPT ![o] = Done(o)]
  BY Zenon, <1>1, <1>2, TaskPasses
<1>3. CASE Reserve(o)
  <2>. DEFINE t == [task[o] EXCEPT !.pc = "enqueue"]
  <2>1. task[o] \in Threads /\ task[o].pc = "reserve" /\ task' = [task EXCEPT ![o] = t]
    BY Zenon, <1>3 DEF Reserve, TypeOK, TaskOK
  <2>2. t.pc = "enqueue" /\ t.doc = task[o].doc
    BY Zenon, <2>1 DEF Threads
  <2>. HIDE DEF t
  <2>3. Passed(t.doc)
    BY Zenon, <2>1, <2>2 DEF TasksPassed
  <2>. QED  BY Zenon, <2>1, <2>2, <2>3, TaskPasses
<1>. QED  BY Zenon, <1>2, <1>3 DEF Offering, ReserveSuppressed, ReserveFails, Enqueue

LEMMA TasksStep ==
  ASSUME TypeOK, EventsBounded, TasksPassed, [Next]_vars PROVE TasksPassed'
<1>0. "recon" \in Offerers /\ "router" \in Offerers
  BY Zenon DEF Offerers
<1>1. CASE task' = task
  BY Zenon, <1>1 DEF TasksPassed
<1>2. ASSUME NEW t, ReconTo(t), t.pc \notin {"hydrated", "reserve", "enqueue"} PROVE TasksPassed'
  BY Zenon, <1>0, <1>2, TaskPasses DEF ReconTo
<1>3. /\ AtPc("list", "none", "absent").pc \notin {"hydrated", "reserve", "enqueue"}
      /\ AtPc("next", "none", "absent").pc \notin {"hydrated", "reserve", "enqueue"}
      /\ AtPc("aborted", "none", "absent").pc \notin {"hydrated", "reserve", "enqueue"}
      /\ \A d : AtPc("wait", d, "absent").pc \notin {"hydrated", "reserve", "enqueue"}
      /\ Idle.pc \notin {"hydrated", "reserve", "enqueue"}
  BY Zenon DEF AtPc, Idle
<1>4. CASE ScanReturns
  BY Zenon, <1>2, <1>3, <1>4 DEF ScanReturns
<1>5. CASE ScanStart \/ ScanList \/ ScanReadFails
  BY Zenon, <1>2, <1>3, <1>5 DEF ScanStart, ScanList, ScanReadFails
<1>6. CASE ScanListFails \/ ScanEnd \/ ScanLookupFails \/ ScanExclusionDown
  BY Zenon, <1>4, <1>6 DEF ScanListFails, ScanEnd, ScanLookupFails, ScanExclusionDown
<1>7. ASSUME NEW d \in Docs, ScanFilter(d) PROVE TasksPassed'
  BY Zenon, <1>2, <1>3, <1>7 DEF ScanFilter
<1>8. CASE ScanHydrate
  <2>. DEFINE d == task["recon"].doc
              t == AtPc("hydrated", d, content[d])
  <2>1. \/ ReconTo(AtPc("next", "none", "absent"))
        \/ ReconTo(t) /\ Envelope[d].bounded
    BY ZenonT(60), <1>8 DEF ScanHydrate, Readable
  <2>2. t.pc = "hydrated" /\ t.doc = d
    BY Zenon DEF AtPc
  <2>. HIDE DEF t, d
  <2>3. CASE ReconTo(t) /\ Envelope[d].bounded
    BY Zenon, <1>0, <2>2, <2>3, TaskPasses DEF ReconTo
  <2>. QED  BY Zenon, <1>2, <1>3, <2>1, <2>3
<1>9. CASE ScanOffer
  <2>1. Envelope[task["recon"].doc].bounded
    BY Zenon, <1>0, <1>9 DEF ScanOffer, Recon, TasksPassed
  <2>. QED  BY Zenon, <1>0, <1>2, <1>3, <1>9, <2>1, OfferPasses DEF ScanOffer
<1>10. CASE RouterEvent
  <2>1. /\ events # <<>> /\ events \in Seq([doc : Docs, body : Bodies])
        /\ \/ Offer("router", Head(events).doc, Head(events).body)
           \/ OfferQueueFull("router", Head(events).doc)
    BY Zenon, <1>10 DEF RouterEvent, TypeOK, FeedOK
  <2>2. Envelope[Head(events).doc].bounded
    BY Zenon, <2>1, TailHolds DEF EventsBounded
  <2>. QED  BY Zenon, <1>0, <2>1, <2>2, OfferPasses
<1>11. ASSUME NEW o \in Offerers, AbortProducer(o) PROVE TasksPassed'
  BY Zenon, <1>3, <1>11, TaskPasses DEF AbortProducer
<1>12. CASE Restart
  BY Zenon, <1>3, <1>12 DEF Restart, TasksPassed
<1>13. CASE \/ \E d \in Docs : RemoteWrite(d)
            \/ Forward \/ ForwardFails \/ RouterLagged \/ Mutation
            \/ LinkUp \/ LinkDown \/ HealthMonitor \/ BeginShutdown
            \/ UNCHANGED vars
  BY Zenon, <1>1, <1>13, QuietFrame
<1>14. CASE EgressStep
  BY Zenon, <1>1, <1>14 DEF EgressStep, EgressPublish, EgressPublishFails, EgressUnavailable,
     EgressFlush, EgressMark, EgressMarkFails
<1>15. CASE Offering("router") \/ Offering("recon")
  BY Zenon, <1>0, <1>15, OfferingPasses
<1>. QED
  BY ZenonT(60), <1>5, <1>6, <1>7, <1>8, <1>9, <1>10, <1>11, <1>12, <1>13, <1>14, <1>15
     DEF Next, RouterStep, ScanStep

LEMMA FifoStep ==
  ASSUME TypeOK, TasksPassed, FifoPassed, [Next]_vars PROVE FifoPassed'
<1>0. fifo \in Seq(Docs)
  BY Zenon DEF TypeOK, OutOK
<1>1. CASE fifo' = fifo
  BY Zenon, <1>1 DEF FifoPassed
<1>2. CASE fifo # <<>> /\ fifo' = Tail(fifo)
  BY Zenon, <1>0, <1>2, TailHolds DEF FifoPassed
<1>3. ASSUME NEW o \in Offerers, Offering(o) PROVE FifoPassed'
  <2>1. CASE Enqueue(o)
    <3>. DEFINE d == task[o].doc
    <3>1. Passed(d) /\ d \in Docs
      BY Zenon, <2>1 DEF Enqueue, TasksPassed, TypeOK, TaskOK, Fit, Busy
    <3>2. CASE fifo' = Append(fifo, d)
      <4>. HIDE DEF d
      <4>1. Holds(Append(fifo, d), fifo, d)
        BY Zenon, <1>0, <3>1, AppendHolds
      <4>. QED  BY Zenon, <3>1, <3>2, <4>1 DEF FifoPassed, Holds
    <3>. QED  BY Zenon, <1>1, <2>1, <3>2 DEF Enqueue
  <2>. QED
    BY Zenon, <1>1, <1>3, <2>1 DEF Offering, Reserve, ReserveSuppressed, ReserveFails, out
<1>4. CASE EgressStep
  BY Zenon, <1>1, <1>2, <1>4 DEF EgressStep, EgressPublish, EgressPublishFails, EgressUnavailable,
     EgressFlush, EgressMark, EgressMarkFails
<1>5. CASE Restart
  <2>1. fifo' = <<>>
    BY Zenon, <1>5 DEF Restart
  <2>2. 1..Len(<<>>) = {}
    OBVIOUS
  <2>. QED  BY Zenon, <2>1, <2>2 DEF FifoPassed
<1>6. CASE \/ \E d \in Docs : RemoteWrite(d)
           \/ Forward \/ ForwardFails \/ RouterLagged \/ Mutation
           \/ LinkUp \/ LinkDown \/ HealthMonitor \/ BeginShutdown
           \/ UNCHANGED vars
  BY Zenon, <1>1, <1>6, QuietFrame DEF out
<1>7. CASE RouterEvent \/ \E o \in Offerers : AbortProducer(o)
  BY Zenon, <1>1, <1>7 DEF RouterEvent, AbortProducer, out
<1>8. CASE ScanStep
  BY Zenon, <1>1, <1>3, <1>8 DEF ScanStep, ScanStart, ScanList, ScanListFails, ScanEnd, ScanFilter,
     ScanLookupFails, ScanHydrate, ScanReadFails, ScanOffer, ScanExclusionDown, out, Offerers
<1>9. CASE Offering("router")
  BY Zenon, <1>3, <1>9 DEF Offerers
<1>. QED  BY Zenon, <1>4, <1>5, <1>6, <1>7, <1>8, <1>9 DEF Next, RouterStep

LEMMA SentStep ==
  ASSUME TypeOK, FifoPassed, SentPassed, [Next]_vars PROVE SentPassed'
<1>1. CASE published' = published
  BY Zenon, <1>1 DEF SentPassed
<1>2. CASE published' # published
  <2>1. EgressPublish
    BY Zenon, <1>2, OnlyPublishCounts
  <2>2. /\ fifo \in Seq(Docs) /\ fifo # <<>> /\ published \in [Docs -> Nat]
        /\ published' = [published EXCEPT ![Head(fifo)] = published[Head(fifo)] + 1]
    BY Zenon, <2>1 DEF EgressPublish, TypeOK, OutOK
  <2>3. Passed(Head(fifo))
    BY Zenon, <2>2, TailHolds DEF FifoPassed
  <2>4. \A d \in Docs : d # Head(fifo) => published'[d] = published[d]
    BY Zenon, <2>2
  <2>. QED  BY Zenon, <2>3, <2>4 DEF SentPassed
<1>. QED  BY Zenon, <1>1, <1>2

LEMMA GateAlways == Spec => []GateInv
<1>1. Init => GateInv
  <2>. SUFFICES ASSUME Init PROVE GateInv
    BY Zenon
  <2>1. events = <<>> /\ fifo = <<>> /\ task = [o \in Offerers |-> Idle]
        /\ published = [d \in Docs |-> 0]
    BY ZenonT(60) DEF Init
  <2>2. EventsBounded /\ FifoPassed
    <3>1. 1..Len(<<>>) = {}
      OBVIOUS
    <3>. QED  BY Zenon, <2>1, <3>1 DEF EventsBounded, FifoPassed
  <2>3. TasksPassed
    <3>1. Idle.pc \notin {"hydrated", "reserve", "enqueue"}
      BY Zenon DEF Idle
    <3>. QED  BY Zenon, <2>1, <3>1 DEF TasksPassed
  <2>4. SentPassed
    BY <2>1 DEF SentPassed
  <2>. QED  BY Zenon, <2>2, <2>3, <2>4 DEF GateInv
<1>2. TypeOK /\ GateInv /\ [Next]_vars => GateInv'
  BY Zenon, EventsStep, TasksStep, FifoStep, SentStep DEF GateInv
<1>. QED  BY <1>1, <1>2, InitTyped, NextTyped, PTL DEF Spec

(***************************************************************************)
(* What reaches NATS passed every gate of the classifier and the bounds of *)
(* a bridge document, on the live path and on the scanner's, although      *)
(* classification, reservation, FIFO and publication are separate steps.   *)
(***************************************************************************)
THEOREM PublishedAlwaysEligible == Spec => []PublishedEligible
<1>1. \A d \in Docs : Passed(d) =>
        /\ Envelope[d].mapped /\ Envelope[d].subject /\ ~Envelope[d].local
        /\ Envelope[d].fits /\ Envelope[d].bounded
  <2>1. \A e : Classify(e) = "eligible" => e.mapped /\ e.subject /\ ~e.local /\ e.fits
    BY Zenon DEF Classify
  <2>. QED  BY Zenon, <2>1 DEF Passed, Eligible
<1>2. GateInv => PublishedEligible
  BY Zenon, <1>1 DEF GateInv, SentPassed, PublishedEligible
<1>. QED  BY <1>2, GateAlways, PTL
=============================================================================
