---------------------------- MODULE JournalProofs ----------------------------
(***************************************************************************)
(* Proofs about Journal, and about the loop that reads its file (Recovery, *)
(* at the end), for every set of digests and callers and every bound.  The *)
(* central argument: a reservation is answered only when the in-memory     *)
(* index has no entry for its digest, a granted digest is always in the    *)
(* index of a running worker, and that survives a restart because a        *)
(* granted digest has a complete record within the durable prefix, which   *)
(* recovery never cuts off.                                                *)
(***************************************************************************)
EXTENDS Journal, Recovery, TLAPS, FiniteSetTheorems

(***************************************************************************)
(* Sequences.                                                              *)
(***************************************************************************)
LEMMA EmptySeq ==
  ASSUME NEW S PROVE <<>> \in Seq(S) /\ Len(<<>>) = 0 /\ \A q \in Seq(S) : q # <<>> => Len(q) \in Nat \ {0}
OBVIOUS
LEMMA LenProperties ==
  ASSUME NEW S, NEW q \in Seq(S)
  PROVE  Len(q) \in Nat /\ q \in [1..Len(q) -> S] /\ DOMAIN q = 1..Len(q)
OBVIOUS
LEMMA ElementOfSeq == ASSUME NEW S, NEW q \in Seq(S), NEW i \in 1..Len(q) PROVE q[i] \in S
OBVIOUS
LEMMA AppendProperties ==
  ASSUME NEW S, NEW q \in Seq(S), NEW x \in S
  PROVE  /\ Append(q, x) \in Seq(S) /\ Append(q, x) # <<>> /\ Len(Append(q, x)) = Len(q) + 1
         /\ \A i \in 1..Len(q) : Append(q, x)[i] = q[i]
         /\ Append(q, x)[Len(q) + 1] = x
OBVIOUS
LEMMA HeadTailProperties ==
  ASSUME NEW S, NEW q \in Seq(S), q # <<>>
  PROVE  /\ Head(q) \in S /\ Tail(q) \in Seq(S) /\ Len(Tail(q)) = Len(q) - 1
         /\ \A i \in 1..Len(Tail(q)) : Tail(q)[i] = q[i + 1]
OBVIOUS
LEMMA SeqEqual ==
  ASSUME NEW S, NEW p \in Seq(S), NEW q \in Seq(S), Len(p) = Len(q), \A i \in 1..Len(p) : p[i] = q[i]
  PROVE  p = q
OBVIOUS

(***************************************************************************)
(* A prefix of a file, as a power loss leaves it.                          *)
(***************************************************************************)
LEMMA PrefixFacts ==
  ASSUME NEW S, NEW f \in Seq(S), NEW k \in 0..Len(f)
  PROVE  /\ SubSeq(f, 1, k) \in Seq(S)
         /\ Len(SubSeq(f, 1, k)) = k
         /\ \A i \in 1..k : SubSeq(f, 1, k)[i] = f[i]
<1>1. \A i \in 1..k : f[i] \in S
  BY ElementOfSeq, LenProperties
<1>2. Len(f) \in Nat /\ k \in Int
  BY LenProperties
<1>. QED  BY <1>1, <1>2

(***************************************************************************)
(* What cutting a torn last cell off a file (recover) keeps.               *)
(***************************************************************************)
LEMMA WholeFacts ==
  ASSUME NEW f \in Seq(Cell)
  PROVE  /\ Whole(f) \in Seq(Cell)
         /\ Len(Whole(f)) <= Len(f)
         /\ \A i \in 1..Len(Whole(f)) : Whole(f)[i] = f[i]
         /\ \A i \in 1..Len(f) : f[i].state # "torn" => i \in 1..Len(Whole(f))
<1>1. CASE f # <<>> /\ f[Len(f)].state = "torn"
  <2>1. Whole(f) = SubSeq(f, 1, Len(f) - 1)
    BY Zenon, <1>1 DEF Whole
  <2>2. Len(f) \in Nat \ {0}
    BY Zenon, <1>1, EmptySeq
  <2>3. /\ SubSeq(f, 1, Len(f) - 1) \in Seq(Cell)
        /\ Len(SubSeq(f, 1, Len(f) - 1)) = Len(f) - 1
        /\ \A i \in 1..(Len(f) - 1) : SubSeq(f, 1, Len(f) - 1)[i] = f[i]
    <3>1. Len(f) - 1 \in 0..Len(f)
      BY <2>2
    <3>. QED  BY <3>1, PrefixFacts, Zenon
  <2>. QED  BY <1>1, <2>1, <2>2, <2>3
<1>2. CASE ~(f # <<>> /\ f[Len(f)].state = "torn")
  BY <1>2 DEF Whole
<1>. QED  BY Zenon, <1>1, <1>2

(***************************************************************************)
(* Recovery yields a well-typed index in which every digest that has a     *)
(* first record is present.                                                *)
(***************************************************************************)
LEMMA IndexOfFacts ==
  ASSUME NEW f \in Seq(Cell)
  PROVE  /\ IndexOf(f) \in [Digests -> Recorded \cup {"none"}]
         /\ \A i \in 1..Len(f) : IndexOf(f)[f[i].digest] # "none"
<1>1. First \in Recorded
  BY Zenon DEF First, Recorded
<1>2. IndexOf(f) \in [Digests -> Recorded \cup {"none"}]
  BY Zenon, <1>1 DEF IndexOf, Recorded
<1>3. ASSUME NEW i \in 1..Len(f)
      PROVE  IndexOf(f)[f[i].digest] # "none"
  <2>1. f[i] \in Cell
    BY Zenon, ElementOfSeq
  <2>2. f[i].digest \in Digests
    BY Zenon, <2>1 DEF Cell
  <2>. QED  BY Zenon, <2>2, <1>1 DEF IndexOf, First
<1>. QED  BY Zenon, <1>2, <1>3

-----------------------------------------------------------------------------
LEMMA InitTyped == Init => TypeOK
<1>1. /\ <<>> \in Seq(Cell) /\ <<>> \in Seq(Request \cup {Stop})
      /\ Len(<<>>) = 0
  BY Zenon, EmptySeq
<1>. SUFFICES ASSUME Init PROVE TypeOK
  BY Zenon
<1>2. /\ file \in Seq(Cell) /\ synced \in 0..Len(file)
      /\ queue \in Seq(Request \cup {Stop}) /\ Len(queue) <= QueueCap
  BY <1>1, JournalConstants DEF Init
<1>3. cur \in Request \cup {Stop} /\ ~(pc # "recv")
  BY Zenon DEF Init
<1>4. /\ index \in [Digests -> Recorded \cup {"none"}]
      /\ grants \in [Digests -> Nat]
      /\ faults \in 0..MaxFaults /\ crashes \in 0..MaxCrashes
  BY JournalConstants DEF Init
<1>. QED  BY <1>2, <1>3, <1>4, Zenon DEF Init, TypeOK

(***************************************************************************)
(* Every step keeps the type invariant: one step per action.               *)
(***************************************************************************)
LEMMA NextTyped == TypeOK /\ [Next]_vars => TypeOK'
<1>. SUFFICES ASSUME TypeOK, [Next]_vars PROVE TypeOK'
  BY Zenon
<1>. USE FormatConstants, JournalConstants
<1>1. ASSUME Opened(file), header' \in {"absent", "partial", "ok"} PROVE TypeOK'
  <2>1. /\ Whole(file) \in Seq(Cell) /\ Len(Whole(file)) <= Len(file)
        /\ Len(Whole(file)) \in Nat
    BY Zenon, WholeFacts, LenProperties DEF TypeOK
  <2>2. IndexOf(Whole(file)) \in [Digests -> Recorded \cup {"none"}]
    BY Zenon, <2>1, IndexOfFacts
  <2>3. synced' \in 0..Len(file')
    BY <1>1, <2>1 DEF Opened, TypeOK
  <2>. QED  BY <1>1, <2>1, <2>2, <2>3, Zenon DEF Opened, TypeOK, budget
<1>2. CASE OpenFresh
  BY Zenon, <1>2, <1>1 DEF OpenFresh
<1>3. CASE OpenExisting
  BY Zenon, <1>3, <1>1 DEF OpenExisting
<1>4. CASE OpenRefused
  BY Zenon, <1>4 DEF OpenRefused, TypeOK, disk, memory, budget
<1>5. CASE OpenTorn
  BY SMTT(60), <1>5 DEF OpenTorn, TypeOK, memory
<1>6. ASSUME NEW c \in Callers, NEW op \in Ops, NEW d \in Digests, Call(c, op, d)
      PROVE  TypeOK'
  <2>1. [caller |-> c, op |-> op, digest |-> d] \in Request \cup {Stop}
    BY Zenon DEF Request
  <2>2. queue' \in Seq(Request \cup {Stop}) /\ Len(queue') <= QueueCap
    BY <1>6, <2>1 DEF Call, TypeOK
  <2>. QED  BY Zenon, <1>6, <2>2 DEF Call, TypeOK, disk, memory, worker, budget
<1>7. CASE RequestStop
  <2>1. queue' \in Seq(Request \cup {Stop}) /\ Len(queue') <= QueueCap
    BY <1>7 DEF RequestStop, TypeOK
  <2>. QED  BY Zenon, <1>7, <2>1 DEF RequestStop, TypeOK, disk, memory, budget
<1>8. CASE WorkerExit
  <2>1. queue' \in Seq(Request \cup {Stop}) /\ Len(queue') <= QueueCap
    BY <1>8, EmptySeq DEF WorkerExit
  <2>. QED  BY <1>8, <2>1, Zenon DEF WorkerExit, TypeOK, disk, memory, budget
<1>9. ASSUME Received
      PROVE  /\ Tail(queue) \in Seq(Request \cup {Stop})
             /\ Len(Tail(queue)) <= QueueCap
             /\ Head(queue) \in Request \cup {Stop}
  BY <1>9 DEF Received, TypeOK
<1>10. CASE AnswerLookup
  BY Zenon, <1>10, <1>9 DEF AnswerLookup, TypeOK, disk, memory, worker, budget
<1>11. CASE AnswerAtOnce
  BY Zenon, <1>11, <1>9 DEF AnswerAtOnce, TypeOK, disk, memory, budget
<1>12. CASE StartRecord
  <2>1. Head(queue) \in Request
    BY SMTT(60), <1>12, <1>9 DEF StartRecord, Stop, Recorded
  <2>. QED
    BY ZenonT(60), <1>12, <1>9, <2>1 DEF StartRecord, TypeOK, disk, memory, worker, budget
<1>13. ASSUME pc # "recv" PROVE NewCell \in Cell /\ TornCell \in Cell
  BY <1>13 DEF TypeOK, NewCell, TornCell, Cell, Damaged, Request
<1>14. CASE AppendCell
  BY <1>14, <1>13 DEF AppendCell, TypeOK, worker, budget
<1>15. ASSUME AnswerUnavailable
       PROVE  /\ cur' \in Request \cup {Stop} /\ ~(pc' # "recv")
              /\ faults' \in 0..MaxFaults
  BY <1>15 DEF AnswerUnavailable, TypeOK
<1>16. CASE AppendFails
  <2>1. file \in Seq(Cell) /\ TornCell \in Cell /\ synced' = synced
    BY Zenon, <1>16, <1>13 DEF AppendFails, AnswerUnavailable, TypeOK
  <2>2. /\ Append(file, TornCell) \in Seq(Cell)
        /\ Len(Append(file, TornCell)) = Len(file) + 1
    BY Zenon, <2>1, AppendProperties
  <2>3. file' = file \/ file' = Append(file, TornCell)
    BY Zenon, <1>16 DEF AppendFails
  <2>4. file' \in Seq(Cell) /\ synced' \in 0..Len(file')
    <3>1. Len(file) \in Nat /\ synced \in 0..Len(file)
      BY Zenon, LenProperties DEF TypeOK
    <3>. QED  BY <3>1, <2>1, <2>2, <2>3
  <2>5. sequence' \in Nat
    BY <1>16 DEF AppendFails, TypeOK
  <2>6. AnswerUnavailable
    BY Zenon, <1>16 DEF AppendFails
  <2>. QED  BY <2>6, <1>15, <2>4, <2>5, ZenonT(60) DEF AnswerUnavailable, TypeOK
<1>17. CASE SyncFails
  BY <1>17, <1>15, ZenonT(60) DEF SyncFails, AnswerUnavailable, TypeOK
<1>18. CASE Commit
  <2>1. cur' \in Request \cup {Stop} /\ ~(pc' # "recv")
    BY Zenon, <1>18 DEF Commit
  <2>2. cur.digest \in Digests /\ cur.op \in Recorded
    BY Zenon, <1>18 DEF Commit, TypeOK, Request
  <2>3. /\ index' \in [Digests -> Recorded \cup {"none"}]
        /\ grants' \in [Digests -> Nat]
        /\ synced' \in 0..Len(file')
    BY SMTT(60), <1>18, <2>2 DEF Commit, TypeOK
  <2>. QED  BY SMTT(60), <1>18, <2>1, <2>3 DEF Commit, TypeOK, worker, budget
<1>19. ASSUME Dies, file' \in Seq(Cell), synced' \in 0..Len(file'),
              header' \in {"absent", "partial", "ok"}
       PROVE  TypeOK'
  <2>1. cur' \in Request \cup {Stop} /\ ~(pc' # "recv")
    BY Zenon, <1>19 DEF Dies
  <2>2. queue' \in Seq(Request \cup {Stop}) /\ Len(queue') <= QueueCap
    BY <1>19, EmptySeq DEF Dies
  <2>3. crashes' \in 0..MaxCrashes
    BY <1>19 DEF Dies, TypeOK
  <2>4. index' \in [Digests -> Recorded \cup {"none"}]
    BY Zenon, <1>19 DEF Dies
  <2>. QED  BY <1>19, <2>1, <2>2, <2>3, <2>4, ZenonT(60) DEF Dies, TypeOK
<1>20. CASE ProcessCrash
  BY Zenon, <1>20, <1>19 DEF ProcessCrash, TypeOK, disk
<1>21. CASE PowerLoss
  <2>1. PICK k \in Survivors :
          /\ \/ file' = SubSeq(file, 1, k)
             \/ /\ k \in synced..(Len(file) - 1)
                /\ file' = Append(SubSeq(file, 1, k),
                                  [file[k + 1] EXCEPT !.state = "torn"])
          /\ header' = IF k < synced THEN "absent" ELSE header
    BY <1>21, Zenon DEF PowerLoss
  <2>2. k \in 0..Len(file)
    BY DEF Survivors, TypeOK
  <2>3. SubSeq(file, 1, k) \in Seq(Cell)
    BY Zenon, <2>2, PrefixFacts DEF TypeOK
  <2>4. ASSUME k \in synced..(Len(file) - 1)
        PROVE  [file[k + 1] EXCEPT !.state = "torn"] \in Cell
    <3>1. file[k + 1] \in Cell
      BY SMTT(60), <2>4, <2>2, ElementOfSeq DEF TypeOK
    <3>. QED  BY Zenon, <3>1 DEF Cell, Damaged
  <2>5. file' \in Seq(Cell)
    <3>1. CASE file' = SubSeq(file, 1, k)
      BY Zenon, <3>1, <2>3
    <3>2. CASE k \in synced..(Len(file) - 1)
               /\ file' = Append(SubSeq(file, 1, k),
                                 [file[k + 1] EXCEPT !.state = "torn"])
      BY ZenonT(60), <3>2, <2>3, <2>4, AppendProperties
    <3>. QED  BY Zenon, <3>1, <3>2, <2>1
  <2>6. synced' \in 0..Len(file')
    BY SMTT(60), <2>5, <1>21, LenProperties DEF PowerLoss
  <2>7. header' \in {"absent", "partial", "ok"}
    BY ZenonT(60), <2>1 DEF TypeOK
  <2>. QED  BY Zenon, <1>21, <1>19, <2>5, <2>6, <2>7 DEF PowerLoss
<1>22. CASE UNCHANGED vars
  BY ZenonT(60), <1>22 DEF vars, TypeOK, disk, memory, worker, budget
<1>23. ASSUME NEW c \in Callers, CallFails(c) PROVE TypeOK'
  BY Zenon, <1>23, <1>22 DEF CallFails
<1>. QED
  BY ZenonT(60), <1>2, <1>3, <1>4, <1>5, <1>6, <1>7, <1>8, <1>10, <1>11, <1>12, <1>14,
     <1>16, <1>17, <1>18, <1>20, <1>21, <1>22, <1>23
     DEF Next, Open, WorkerStep

(***************************************************************************)
(* The journal's variables keep their types in every behaviour; the queue  *)
(* stays within COMMAND_CAPACITY (ledger.rs:137-300).                      *)
(***************************************************************************)
THEOREM JournalTyped == Spec => []TypeOK
BY InitTyped, NextTyped, PTL DEF Spec

-----------------------------------------------------------------------------
(***************************************************************************)
(* The inductive invariant behind at-most-once.  A running worker knows    *)
(* every digest it ever granted; a command on its way to the disk was      *)
(* found to be new, or is a completion; after the append the last cell is  *)
(* the command's record.                                                   *)
(***************************************************************************)
GrantIndexed ==
  proc = "up" => \A d \in Digests : grants[d] > 0 => index[d] # "none"

RecordPending ==
  pc # "recv" => /\ proc = "up"
                 /\ cur.op = First => index[cur.digest] = "none"

CellWritten ==
  pc = "sync" => /\ file # <<>>
                 /\ file[Len(file)].digest = cur.digest
                 /\ file[Len(file)].state = cur.op

IInv == /\ TypeOK /\ GrantedOnce /\ GrantDurable
        /\ GrantIndexed /\ RecordPending /\ CellWritten

(***************************************************************************)
(* A step that keeps the durable prefix and the grants keeps GrantDurable. *)
(***************************************************************************)
LEMMA DurableKept ==
  ASSUME TypeOK, GrantDurable, UNCHANGED grants, synced' \in Nat,
         \A i \in 1..synced : file[i].state # "torn" =>
            i \in 1..synced' /\ file'[i] = file[i]
  PROVE  GrantDurable'
<1>1. SUFFICES ASSUME NEW d \in Digests, grants[d] > 0
              PROVE  \E i \in 1..synced' : /\ file'[i].digest = d
                                            /\ file'[i].state = First
  BY Zenon DEF GrantDurable
<1>2. PICK i \in 1..synced : file[i].digest = d /\ file[i].state = First
  BY Zenon, <1>1 DEF GrantDurable
<1>3. First # "torn"
  BY Zenon DEF First
<1>4. i \in 1..synced' /\ file'[i] = file[i]
  BY Zenon, <1>2, <1>3
<1>. QED  BY Zenon, <1>2, <1>4

LEMMA InitSafe == Init => IInv
<1>. SUFFICES ASSUME Init PROVE IInv
  BY Zenon
<1>1. TypeOK
  BY Zenon, InitTyped
<1>2. GrantedOnce /\ GrantDurable /\ GrantIndexed
  BY DEF Init, GrantedOnce, GrantDurable, GrantIndexed
<1>3. RecordPending /\ CellWritten
  BY Zenon DEF Init, RecordPending, CellWritten
<1>. QED  BY Zenon, <1>1, <1>2, <1>3 DEF IInv

(***************************************************************************)
(* Opening keeps the invariant: no granted record is cut off, and recovery *)
(* puts every granted digest back into the index.                          *)
(***************************************************************************)
LEMMA OpenSafe ==
  ASSUME IInv, TypeOK', proc = "down", Opened(file)
  PROVE  IInv'
<1>1. /\ file \in Seq(Cell) /\ synced \in 0..Len(file) /\ Len(file) \in Nat
  BY Zenon, LenProperties DEF IInv, TypeOK
<1>2. /\ Whole(file) \in Seq(Cell) /\ Len(Whole(file)) \in Nat
      /\ \A i \in 1..Len(Whole(file)) : Whole(file)[i] = file[i]
      /\ \A i \in 1..Len(file) :
            file[i].state # "torn" => i \in 1..Len(Whole(file))
  BY Zenon, <1>1, WholeFacts, LenProperties
<1>3. pc = "recv" /\ pc' = "recv" /\ UNCHANGED grants
  BY Zenon DEF Opened, IInv, RecordPending
<1>4. GrantDurable'
  <2>1. synced' \in Nat
    BY <1>1, <1>2 DEF Opened
  <2>2. ASSUME NEW i \in 1..synced, file[i].state # "torn"
        PROVE  i \in 1..synced' /\ file'[i] = file[i]
    BY <2>2, <1>1, <1>2 DEF Opened
  <2>. QED  BY Zenon, <1>3, <2>1, <2>2, DurableKept DEF IInv
<1>5. ASSUME NEW d \in Digests, grants'[d] > 0 PROVE index'[d] # "none"
  <2>1. PICK i \in 1..synced : file[i].digest = d /\ file[i].state = First
    BY Zenon, <1>5, <1>3 DEF IInv, GrantDurable
  <2>2. i \in 1..Len(Whole(file)) /\ Whole(file)[i] = file[i]
    BY SMTT(60), <2>1, <1>1, <1>2 DEF First
  <2>3. IndexOf(Whole(file))[Whole(file)[i].digest] # "none"
    BY Zenon, <2>2, <1>2, IndexOfFacts
  <2>. QED  BY Zenon, <2>1, <2>2, <2>3 DEF Opened
<1>6. GrantIndexed'
  BY Zenon, <1>5 DEF GrantIndexed
<1>7. GrantedOnce' /\ RecordPending' /\ CellWritten'
  BY Zenon, <1>3 DEF IInv, GrantedOnce, RecordPending, CellWritten
<1>. QED  BY Zenon, <1>4, <1>6, <1>7 DEF IInv

(***************************************************************************)
(* A command that starts on its way to the disk with the first state of    *)
(* its digest has found the digest absent.                                 *)
(***************************************************************************)
LEMMA ProceedIsNew ==
  ASSUME NEW d \in Digests, Verdict(d, First) = "Proceed"
  PROVE  index[d] = "none"
<1>1. First # "Completed"
  BY Zenon DEF First
<1>. QED  BY Zenon, <1>1 DEF Verdict

(***************************************************************************)
(* Steps that leave disk, index and grants alone and start no record.      *)
(***************************************************************************)
LEMMA QuietSafe ==
  ASSUME IInv, TypeOK', UNCHANGED <<disk, memory, grants>>,
         pc' = "recv" \/ UNCHANGED <<pc, cur, proc>>,
         proc' = "up" => proc = "up"
  PROVE  IInv'
<1>1. UNCHANGED <<file, synced, index, grants>>
  BY Zenon DEF disk, memory
<1>2. GrantedOnce' /\ GrantDurable'
  BY Zenon, <1>1 DEF IInv, GrantedOnce, GrantDurable
<1>3. GrantIndexed'
  BY Zenon, <1>1 DEF IInv, GrantIndexed
<1>4. RecordPending' /\ CellWritten'
  BY Zenon, <1>1 DEF IInv, RecordPending, CellWritten
<1>. QED  BY Zenon, <1>2, <1>3, <1>4 DEF IInv

(***************************************************************************)
(* Commit: the digest was new, so this is its first grant, and its record  *)
(* is the last cell of a file that is now durable as a whole.              *)
(***************************************************************************)
LEMMA CommitSafe ==
  ASSUME IInv, TypeOK', Commit
  PROVE  IInv'
<1>1. /\ proc = "up" /\ pc = "sync" /\ pc' = "recv" /\ proc' = "up"
      /\ UNCHANGED file /\ synced' = Len(file)
      /\ index' = [index EXCEPT ![cur.digest] = cur.op]
      /\ grants' = IF cur.op = First
                   THEN [grants EXCEPT ![cur.digest] = @ + 1] ELSE grants
  BY Zenon DEF Commit, worker
<1>2. /\ cur.digest \in Digests /\ cur.op \in Recorded
      /\ index \in [Digests -> Recorded \cup {"none"}]
      /\ grants \in [Digests -> Nat]
      /\ synced \in 0..Len(file) /\ Len(file) \in Nat
  BY <1>1, LenProperties, Zenon DEF IInv, TypeOK, Request
<1>3. cur.op = First => grants[cur.digest] = 0
  BY <1>1, <1>2 DEF IInv, RecordPending, GrantIndexed
<1>4. GrantedOnce'
  BY <1>1, <1>2, <1>3 DEF IInv, GrantedOnce
<1>5. GrantDurable'
  <2>1. SUFFICES ASSUME NEW d \in Digests, grants'[d] > 0
                PROVE  \E i \in 1..Len(file) : /\ file[i].digest = d
                                                /\ file[i].state = First
    BY Zenon, <1>1 DEF GrantDurable
  <2>2. CASE cur.op = First /\ d = cur.digest
    <3>1. file \in Seq(Cell) /\ file # << >>
      BY Zenon, <1>1 DEF IInv, TypeOK, CellWritten
    <3>2. Len(file) \in 1..Len(file)
      BY <3>1, <1>2, EmptySeq
    <3>3. file[Len(file)].digest = cur.digest /\ file[Len(file)].state = cur.op
      BY Zenon, <1>1 DEF IInv, CellWritten
    <3>. QED  BY Zenon, <3>2, <3>3, <2>2
  <2>3. CASE ~(cur.op = First /\ d = cur.digest)
    <3>1. grants[d] > 0
      BY Zenon, <2>1, <2>3, <1>1, <1>2
    <3>2. PICK i \in 1..synced : file[i].digest = d /\ file[i].state = First
      BY Zenon, <3>1 DEF IInv, GrantDurable
    <3>. QED  BY <3>2, <1>2
  <2>. QED  BY Zenon, <2>2, <2>3
<1>6. GrantIndexed'
  <2>1. "none" \notin Recorded
    BY Zenon DEF Recorded
  <2>. QED  BY Zenon, <2>1, <1>1, <1>2 DEF IInv, GrantIndexed
<1>7. RecordPending' /\ CellWritten'
  BY Zenon, <1>1 DEF RecordPending, CellWritten
<1>. QED  BY Zenon, <1>4, <1>5, <1>6, <1>7 DEF IInv

(***************************************************************************)
(* An append, complete or torn, only adds to the end of the file.          *)
(***************************************************************************)
LEMMA AppendSafe ==
  ASSUME IInv, TypeOK', NEW x \in Cell,
         file' = file \/ file' = Append(file, x),
         UNCHANGED <<synced, index, grants, proc>>,
         \/ pc' = "recv"
         \/ /\ pc # "recv" /\ UNCHANGED cur /\ file' = Append(file, x)
            /\ x.digest = cur.digest /\ x.state = cur.op
  PROVE  IInv'
<1>1. /\ file \in Seq(Cell) /\ Len(file) \in Nat /\ synced \in 0..Len(file)
  BY Zenon, LenProperties DEF IInv, TypeOK
<1>2. /\ Append(file, x) # <<>> /\ Len(Append(file, x)) = Len(file) + 1
      /\ \A i \in 1..Len(file) : Append(file, x)[i] = file[i]
      /\ Append(file, x)[Len(file) + 1] = x
  BY ZenonT(60), <1>1, AppendProperties
<1>3. \A i \in 1..synced : file'[i] = file[i]
  BY <1>1, <1>2
<1>4. GrantDurable'
  BY <1>1, <1>3, DurableKept DEF IInv
<1>5. GrantedOnce' /\ GrantIndexed' /\ RecordPending'
  BY Zenon DEF IInv, GrantedOnce, GrantIndexed, RecordPending
<1>6. CellWritten'
  BY Zenon, <1>2 DEF CellWritten
<1>. QED  BY Zenon, <1>4, <1>5, <1>6 DEF IInv

(***************************************************************************)
(* A power loss keeps the durable prefix, given that the file itself is    *)
(* not lost.                                                               *)
(***************************************************************************)
LEMMA CrashSafe ==
  ASSUME IInv, TypeOK', Dies, synced' \in Nat,
         \A i \in 1..synced : i \in 1..synced' /\ file'[i] = file[i]
  PROVE  IInv'
<1>1. proc' = "down" /\ pc' = "recv" /\ UNCHANGED grants
  BY Zenon DEF Dies
<1>2. GrantDurable'
  BY Zenon, <1>1, DurableKept DEF IInv
<1>3. GrantedOnce' /\ GrantIndexed' /\ RecordPending' /\ CellWritten'
  BY Zenon, <1>1 DEF IInv, GrantedOnce, GrantIndexed, RecordPending, CellWritten
<1>. QED  BY Zenon, <1>2, <1>3 DEF IInv

(***************************************************************************)
(* Every step keeps the invariant, provided that a file whose content was  *)
(* synced keeps its directory entry.                                       *)
(***************************************************************************)
LEMMA NextSafe == DirentSafe /\ IInv /\ [Next]_vars => IInv'
<1>. SUFFICES ASSUME DirentSafe, IInv, [Next]_vars PROVE IInv'
  BY Zenon
<1>1. TypeOK /\ TypeOK'
  BY Zenon, NextTyped DEF IInv
<1>2. CASE OpenFresh
  BY Zenon, <1>1, <1>2, OpenSafe DEF OpenFresh
<1>3. CASE OpenExisting
  BY Zenon, <1>1, <1>3, OpenSafe DEF OpenExisting
<1>4. CASE OpenRefused
  <2>1. proc = "down" /\ proc' # "up" /\ UNCHANGED <<disk, memory, grants, pc>>
    BY Zenon, <1>4 DEF OpenRefused
  <2>2. pc' = "recv"
    BY Zenon, <2>1 DEF IInv, RecordPending
  <2>. QED  BY Zenon, <1>1, <2>1, <2>2, QuietSafe
<1>5. CASE OpenTorn
  <2>1. /\ UNCHANGED <<file, synced, index, grants, pc, cur>>
        /\ proc = "down" /\ proc' # "up"
    BY Zenon, <1>5 DEF OpenTorn, memory
  <2>2. pc = "recv"
    BY Zenon, <2>1 DEF IInv, RecordPending
  <2>. QED
    BY Zenon, <1>1, <2>1, <2>2
       DEF IInv, GrantedOnce, GrantDurable, GrantIndexed, RecordPending,
           CellWritten
<1>6. ASSUME NEW c \in Callers, NEW op \in Ops, NEW d \in Digests, Call(c, op, d)
      PROVE  IInv'
  BY Zenon, <1>1, <1>6, QuietSafe DEF Call, worker
<1>7. CASE RequestStop
  BY Zenon, <1>1, <1>7, QuietSafe DEF RequestStop
<1>8. CASE WorkerExit
  BY Zenon, <1>1, <1>8, QuietSafe DEF WorkerExit, Received
<1>9. CASE AnswerLookup
  BY Zenon, <1>1, <1>9, QuietSafe DEF AnswerLookup, worker
<1>10. CASE AnswerAtOnce
  BY Zenon, <1>1, <1>10, QuietSafe DEF AnswerAtOnce
<1>11. CASE StartRecord
  <2>1. /\ UNCHANGED <<file, synced, index, grants, proc>>
        /\ proc = "up" /\ pc' # "sync" /\ cur' = Head(queue)
        /\ Verdict(cur'.digest, cur'.op) = "Proceed"
    BY Zenon, <1>11 DEF StartRecord, Received, disk, memory, worker
  <2>2. cur'.digest \in Digests
    BY <1>1, <1>11, Zenon DEF StartRecord, TypeOK, Request
  <2>3. RecordPending'
    BY Zenon, <2>1, <2>2, ProceedIsNew DEF RecordPending
  <2>4. GrantedOnce' /\ GrantDurable' /\ GrantIndexed' /\ CellWritten'
    BY Zenon, <2>1 DEF IInv, GrantedOnce, GrantDurable, GrantIndexed, CellWritten
  <2>. QED  BY Zenon, <1>1, <2>3, <2>4 DEF IInv
<1>12. ASSUME pc = "append" PROVE NewCell \in Cell /\ TornCell \in Cell
  <2>1. cur.digest \in Digests /\ cur.op \in Recorded /\ sequence \in Nat
    BY Zenon, <1>1, <1>12 DEF TypeOK, Request
  <2>. QED  BY <2>1 DEF NewCell, TornCell, Cell, Damaged
<1>13. CASE AppendCell
  <2>1. /\ pc = "append" /\ file' = Append(file, NewCell) /\ UNCHANGED cur
        /\ UNCHANGED <<synced, index, grants, proc>>
    BY Zenon, <1>13 DEF AppendCell, worker
  <2>2. NewCell.digest = cur.digest /\ NewCell.state = cur.op
    BY Zenon DEF NewCell
  <2>. QED  BY Zenon, <1>1, <1>12, <2>1, <2>2, AppendSafe
<1>14. CASE AppendFails
  <2>1. /\ pc = "append" /\ pc' = "recv"
        /\ file' = file \/ file' = Append(file, TornCell)
        /\ UNCHANGED <<synced, index, grants, proc>>
    BY Zenon, <1>14 DEF AppendFails, AnswerUnavailable
  <2>. QED  BY Zenon, <1>1, <1>12, <2>1, AppendSafe
<1>15. CASE SyncFails
  BY Zenon, <1>1, <1>15, QuietSafe DEF SyncFails, AnswerUnavailable, disk, memory
<1>16. CASE Commit
  BY Zenon, <1>1, <1>16, CommitSafe
<1>17. CASE ProcessCrash
  <2>1. /\ UNCHANGED <<file, synced>> /\ Dies
    BY Zenon, <1>17 DEF ProcessCrash, disk
  <2>2. synced \in 0..Len(file) /\ Len(file) \in Nat
    BY Zenon, <1>1, LenProperties DEF TypeOK
  <2>3. synced' \in Nat /\ \A i \in 1..synced : i \in 1..synced' /\ file'[i] = file[i]
    BY <2>1, <2>2
  <2>. QED  BY Zenon, <1>1, <2>1, <2>3, CrashSafe
<1>18. CASE PowerLoss
  <2>1. PICK k \in Survivors :
          \/ file' = SubSeq(file, 1, k)
          \/ /\ k \in synced..(Len(file) - 1)
             /\ file' = Append(SubSeq(file, 1, k),
                               [file[k + 1] EXCEPT !.state = "torn"])
    BY Zenon, <1>18 DEF PowerLoss
  <2>2. /\ file \in Seq(Cell) /\ Len(file) \in Nat /\ synced \in 0..Len(file)
        /\ k \in synced..Len(file)
    BY Zenon, <1>1, LenProperties DEF TypeOK, Survivors
  <2>3. /\ SubSeq(file, 1, k) \in Seq(Cell) /\ Len(SubSeq(file, 1, k)) = k
        /\ \A i \in 1..k : SubSeq(file, 1, k)[i] = file[i]
    <3>1. k \in 0..Len(file)
      BY <2>2
    <3>. HIDE DEF IInv, Next, vars
    <3>. QED  BY ONLY Zenon, <2>2, <3>1, PrefixFacts
  <2>4. k \in Nat /\ Len(file') \in {k, k + 1} /\ \A i \in 1..k : file'[i] = file[i]
    <3>1. CASE file' = SubSeq(file, 1, k)
      BY <3>1, <2>2, <2>3
    <3>2. CASE /\ k \in synced..(Len(file) - 1)
               /\ file' = Append(SubSeq(file, 1, k),
                                 [file[k + 1] EXCEPT !.state = "torn"])
      <4>1. file[k + 1] \in Cell
        BY <2>2, <3>2, ElementOfSeq
      <4>2. [file[k + 1] EXCEPT !.state = "torn"] \in Cell
        BY Zenon, <4>1 DEF Cell, Damaged
      <4>. QED  BY SMTT(60), <2>2, <2>3, <3>2, <4>2, AppendProperties
    <3>. QED  BY Zenon, <2>1, <3>1, <3>2
  <2>5. synced' = Len(file') /\ Dies
    BY Zenon, <1>18 DEF PowerLoss
  <2>6. synced' \in Nat /\ \A i \in 1..synced : i \in 1..synced' /\ file'[i] = file[i]
    BY <2>2, <2>4, <2>5
  <2>. QED  BY Zenon, <1>1, <2>5, <2>6, CrashSafe
<1>19. CASE UNCHANGED vars
  BY Zenon, <1>1, <1>19, QuietSafe DEF vars, worker
<1>20. ASSUME NEW c \in Callers, CallFails(c) PROVE IInv'
  BY Zenon, <1>20, <1>19 DEF CallFails
<1>. QED
  BY ZenonT(60), <1>2, <1>3, <1>4, <1>5, <1>6, <1>7, <1>8, <1>9, <1>10, <1>11, <1>13,
     <1>14, <1>15, <1>16, <1>17, <1>18, <1>19, <1>20
     DEF Next, Open, WorkerStep

LEMMA SafeAlways == DirentSafe => (Spec => []IInv)
<1>. SUFFICES ASSUME DirentSafe PROVE Spec => []IInv
  BY Zenon
<1>1. IInv /\ [Next]_vars => IInv'
  BY Zenon, NextSafe
<1>. QED  BY InitSafe, <1>1, PTL DEF Spec

(***************************************************************************)
(* check_and_reserve answers Reserved at most once for a digest, over any  *)
(* number of callers, I/O errors, crashes and power losses.                *)
(***************************************************************************)
THEOREM GrantedAtMostOnce == DirentSafe => (Spec => []GrantedOnce)
<1>1. IInv => GrantedOnce
  BY Zenon DEF IInv
<1>. QED  BY <1>1, SafeAlways, PTL

(***************************************************************************)
(* A reservation that was answered is on stable storage from then on.      *)
(***************************************************************************)
THEOREM GrantsAreDurable == DirentSafe => (Spec => []GrantDurable)
<1>1. IInv => GrantDurable
  BY Zenon DEF IInv
<1>. QED  BY <1>1, SafeAlways, PTL

KnownIn(f) == {d \in Digests : f[d] # "none"}
DoneIn(f) == {d \in Digests : f[d] = "Completed"}

\* Sets of digests are finite.
LEMMA DigestSets ==
  ASSUME NEW D \in SUBSET Digests
  PROVE  IsFiniteSet(D) /\ Cardinality(D) \in Nat
BY Zenon, FormatConstants, FS_Subset, FS_CardinalityType

(***************************************************************************)
(* A legal file has at most one first record of a digest and at most one   *)
(* Completed record of it (recover).                                       *)
(***************************************************************************)
LEMMA LegalCount ==
  ASSUME NEW f \in Seq(Cell), LegalFile(f)
  PROVE  Len(f) <= Cardinality(KnownIn(IndexOf(f))) + Cardinality(DoneIn(IndexOf(f)))
<1>. DEFINE K == KnownIn(IndexOf(f))
            C == DoneIn(IndexOf(f))
            A == {i \in 1..Len(f) : f[i].state = First}
            B == {i \in 1..Len(f) : f[i].state = "Completed"}
<1>1. /\ Len(f) \in Nat
      /\ \A i \in 1..Len(f) : f[i].digest \in Digests
  <2>1. \A i \in 1..Len(f) : f[i] \in Cell
    BY Zenon, ElementOfSeq
  <2>. QED  BY Zenon, <2>1, LenProperties DEF Cell
<1>2. First # "Completed" /\ Permits \subseteq {First, "Completed"} /\ First # "none"
  BY Zenon, FormatConstants DEF First, Permits
<1>3. 1..Len(f) = A \cup B
  BY Zenon, <1>2 DEF LegalFile, LegalCell
<1>4. A \cap B = {}
  BY Zenon, <1>2
<1>5. /\ IsFiniteSet(A) /\ Cardinality(A) \in Nat /\ Cardinality(A) <= Cardinality(K)
  <2>. DEFINE g == [i \in A |-> f[i].digest]
  <2>1. \A i \in A : f[i].digest \in K
    BY Zenon, <1>1, <1>2 DEF KnownIn, IndexOf
  <2>2. \A i, j \in A : f[i].digest = f[j].digest => i = j
    <3>1. ASSUME NEW i \in A, NEW j \in A, f[i].digest = f[j].digest, i < j PROVE FALSE
      BY <3>1, <1>1 DEF LegalFile, LegalCell, Earlier
    <3>. QED  BY <3>1, <1>1
  <2>3. g \in Injection(A, K)
    BY Zenon, <2>1, <2>2 DEF Injection, IsInjective
  <2>4. IsFiniteSet(K)
    BY Zenon, DigestSets DEF KnownIn
  <2>. QED  BY Zenon, <2>3, <2>4, FS_Injection, FS_CardinalityType
<1>6. /\ IsFiniteSet(B) /\ Cardinality(B) \in Nat /\ Cardinality(B) <= Cardinality(C)
  <2>. DEFINE g == [i \in B |-> f[i].digest]
  <2>1. \A i \in B : f[i].digest \in C
    BY Zenon, <1>1 DEF DoneIn, IndexOf
  <2>2. \A i, j \in B : f[i].digest = f[j].digest => i = j
    <3>1. ASSUME NEW i \in B, NEW j \in B, f[i].digest = f[j].digest, i < j PROVE FALSE
      <4>1. i \in Earlier(f, j)
        BY <3>1, <1>1 DEF Earlier
      <4>2. f[i].state = First
        BY Zenon, <4>1 DEF LegalFile, LegalCell
      <4>. QED  BY Zenon, <4>2, <1>2
    <3>. QED  BY <3>1, <1>1
  <2>3. g \in Injection(B, C)
    BY Zenon, <2>1, <2>2 DEF Injection, IsInjective
  <2>4. IsFiniteSet(C)
    BY Zenon, DigestSets DEF DoneIn
  <2>. QED  BY Zenon, <2>3, <2>4, FS_Injection, FS_CardinalityType
<1>7. Cardinality(A \cup B) = Cardinality(A) + Cardinality(B)
  <2>1. Cardinality(A \cap B) = 0
    BY Zenon, <1>4, FS_EmptySet
  <2>. HIDE DEF A, B
  <2>2. Cardinality(A \cup B) = Cardinality(A) + Cardinality(B) - Cardinality(A \cap B)
    BY Zenon, <1>5, <1>6, FS_Union
  <2>. QED  BY SMTT(60), <1>5, <1>6, <2>1, <2>2
<1>8. Cardinality(1..Len(f)) = Len(f)
  BY SMTT(60), <1>1, FS_Interval
<1>9. Cardinality(K) \in Nat /\ Cardinality(C) \in Nat
  BY Zenon, DigestSets DEF KnownIn, DoneIn
<1>10. Len(f) <= Cardinality(K) + Cardinality(C)
  <2>. HIDE DEF A, B, K, C
  <2>1. Len(f) = Cardinality(A) + Cardinality(B)
    BY Zenon, <1>3, <1>7, <1>8
  <2>. QED  BY <2>1, <1>1, <1>5, <1>6, <1>9
<1>. QED  BY Zenon, <1>10

-----------------------------------------------------------------------------
\* The count of records is covered by the known and the completed digests, and the
\* known ones stay within MAX_UNIQUE_ENTRIES.
Counted ==
  proc = "up" => /\ records <= Cardinality(Present) + Cardinality(Completed)
                 /\ Cardinality(Present) <= MaxUnique

\* Cells follow a header.
HeaderFirst == /\ header # "ok" => file = <<>>
               /\ proc = "up" => header = "ok"

\* A record on its way to the disk was let through by record_inner, and the index has
\* not changed since.
Underway == pc # "recv" => proc = "up" /\ Verdict(cur.digest, cur.op) = "Proceed"

CInv == TypeOK /\ Counted /\ HeaderFirst /\ Underway /\ CompactionUnreachable

\* The sets that the count is about.
LEMMA CountTypes ==
  /\ IsFiniteSet(Present) /\ Cardinality(Present) \in Nat
  /\ IsFiniteSet(Completed) /\ Cardinality(Completed) \in Nat
BY Zenon, DigestSets DEF Present, Completed

(***************************************************************************)
(* A command that proceeds finds room in the file (record_inner).          *)
(***************************************************************************)
LEMMA ProceedHasRoom ==
  ASSUME TypeOK, Counted, proc = "up", NEW d \in Digests, NEW s \in Recorded,
         Verdict(d, s) = "Proceed"
  PROVE  /\ records < MaxRecords
         /\ index[d] = "none" => Cardinality(Present) < MaxUnique
         /\ index[d] \in {"none", "Reserved"}
         /\ index[d] = "Reserved" => s = "Completed"
<1>1. /\ index[d] = "none" => Cardinality(Present) < MaxUnique
      /\ index[d] \in {"none", "Reserved"}
      /\ index[d] = "Reserved" => s = "Completed"
  BY CountTypes, FormatConstants DEF Verdict
<1>2. Cardinality(Completed) <= Cardinality(Present)
  <2>1. Completed \subseteq Present
    BY Zenon DEF Completed, Present
  <2>. QED  BY Zenon, <2>1, CountTypes, FS_Subset
<1>3. CASE index[d] = "none"
  BY SMTT(60), <1>1, <1>2, <1>3, CountTypes, FormatConstants DEF Counted, TypeOK, MaxRecords
<1>4. CASE index[d] = "Reserved"
  <2>1. Completed \subseteq Present \ {d} /\ d \in Present
    BY Zenon, <1>4 DEF Completed, Present
  <2>2. /\ IsFiniteSet(Present \ {d}) /\ Cardinality(Present \ {d}) = Cardinality(Present) - 1
    BY Zenon, <2>1, CountTypes, FS_RemoveElement
  <2>3. Cardinality(Completed) <= Cardinality(Present) - 1
    BY ZenonT(60), <2>1, <2>2, FS_Subset
  <2>. QED  BY SMTT(60), <1>1, <2>3, <1>4, CountTypes, FormatConstants DEF Counted, TypeOK, MaxRecords
<1>. QED  BY Zenon, <1>1, <1>3, <1>4

(***************************************************************************)
(* Opening counts the records of a legal file.                             *)
(***************************************************************************)
LEMMA OpenCounts ==
  ASSUME TypeOK, Opened(file), Recovers(file)
  PROVE  Counted'
<1>. DEFINE f == Whole(file)
<1>1. f \in Seq(Cell) /\ LegalFile(f) /\ Len(f) \in Nat
  BY Zenon, WholeFacts, LenProperties DEF TypeOK, Recovers
<1>2. Present' = KnownIn(IndexOf(f)) /\ Completed' = DoneIn(IndexOf(f)) /\ records' = Len(f)
  BY Zenon DEF Opened, Present, Completed, KnownIn, DoneIn
<1>3. KnownIn(IndexOf(f)) = DigestsOf(f)
  <2>1. First \notin {"none", "Completed"}
    BY Zenon DEF First
  <2>. QED  BY Zenon, <2>1 DEF KnownIn, IndexOf, DigestsOf
<1>4. Cardinality(DigestsOf(f)) <= MaxUnique
  BY Zenon DEF Recovers
<1>5. Len(f) <= Cardinality(KnownIn(IndexOf(f))) + Cardinality(DoneIn(IndexOf(f)))
  BY Zenon, <1>1, LegalCount
<1>. HIDE DEF f
<1>. QED  BY Zenon, <1>2, <1>3, <1>4, <1>5 DEF Counted

\* The empty file is legal (a new journal).
LEMMA EmptyRecovers == Recovers(<<>>)
<1>1. Len(<<>>) = 0 /\ Whole(<<>>) = <<>>
  BY Zenon, EmptySeq DEF Whole
<1>2. LegalFile(<<>>)
  BY <1>1 DEF LegalFile
<1>3. DigestsOf(<<>>) = {}
  BY <1>1 DEF DigestsOf
<1>. QED  BY SMTT(60), <1>1, <1>2, <1>3, FS_EmptySet, FormatConstants DEF Recovers, MaxRecords

(***************************************************************************)
(* Commit: one more record, and one more digest that is known or done.     *)
(***************************************************************************)
LEMMA CommitCounts ==
  ASSUME CInv, TypeOK', Commit
  PROVE  Counted'
<1>1. /\ proc = "up" /\ pc = "sync" /\ records' = records + 1
      /\ index' = [index EXCEPT ![cur.digest] = cur.op]
      /\ index \in [Digests -> Recorded \cup {"none"}] /\ records \in Nat
      /\ cur.digest \in Digests /\ cur.op \in Recorded
      /\ Verdict(cur.digest, cur.op) = "Proceed"
  BY Zenon DEF Commit, CInv, TypeOK, Underway, Request
<1>2. /\ index[cur.digest] = "none" => Cardinality(Present) < MaxUnique
      /\ index[cur.digest] \in {"none", "Reserved"}
      /\ index[cur.digest] = "Reserved" => cur.op = "Completed"
  BY Zenon, <1>1, ProceedHasRoom DEF CInv
<1>3. "none" \notin Recorded
  BY Zenon DEF Recorded
<1>4. Present' = Present \cup {cur.digest}
  BY Zenon, <1>1, <1>3 DEF Present
<1>5. Completed' = IF cur.op = "Completed" THEN Completed \cup {cur.digest} ELSE Completed
  BY Zenon, <1>1, <1>2 DEF Completed
<1>6. /\ cur.digest \in Present <=> index[cur.digest] # "none"
      /\ cur.digest \notin Completed
  BY Zenon, <1>1, <1>2 DEF Present, Completed
<1>7. Cardinality(Present') = IF index[cur.digest] = "none" THEN Cardinality(Present) + 1
                              ELSE Cardinality(Present)
  BY Zenon, <1>4, <1>6, CountTypes, FS_AddElement
<1>8. Cardinality(Completed') = IF cur.op = "Completed" THEN Cardinality(Completed) + 1
                                ELSE Cardinality(Completed)
  BY Zenon, <1>5, <1>6, CountTypes, FS_AddElement
<1>9. /\ records <= Cardinality(Present) + Cardinality(Completed)
      /\ Cardinality(Present) <= MaxUnique
  BY Zenon, <1>1 DEF CInv, Counted
<1>. QED  BY SMTT(60), <1>1, <1>2, <1>7, <1>8, <1>9, CountTypes, FormatConstants DEF Counted

\* Steps that leave index, count, file and header alone, and start no record.
LEMMA QuietCounts ==
  ASSUME CInv, TypeOK', UNCHANGED <<index, records, file, header>>,
         pc' = "recv" \/ UNCHANGED <<pc, cur, proc>>,
         proc' = "up" => proc = "up"
  PROVE  CInv'
<1>1. Counted' /\ HeaderFirst'
  BY Zenon DEF CInv, Counted, HeaderFirst, Present, Completed
<1>2. Underway' /\ CompactionUnreachable'
  BY Zenon DEF CInv, Underway, CompactionUnreachable, Verdict, Present
<1>. QED  BY Zenon, <1>1, <1>2 DEF CInv

LEMMA InitCounts == Init => CInv
<1>. SUFFICES ASSUME Init PROVE CInv
  BY Zenon
<1>1. TypeOK
  BY Zenon, InitTyped
<1>2. Counted /\ HeaderFirst /\ Underway /\ CompactionUnreachable
  BY Zenon DEF Init, Counted, HeaderFirst, Underway, CompactionUnreachable
<1>. QED  BY Zenon, <1>1, <1>2 DEF CInv

LEMMA NextCounts == CInv /\ [Next]_vars => CInv'
<1>. SUFFICES ASSUME CInv, [Next]_vars PROVE CInv'
  BY Zenon
<1>1. TypeOK /\ TypeOK'
  BY Zenon, NextTyped DEF CInv
<1>2. ASSUME Opened(file), Recovers(file), header' = "ok", proc = "down" PROVE CInv'
  <2>1. Counted'
    BY Zenon, <1>1, <1>2, OpenCounts
  <2>2. pc' = "recv"
    BY Zenon, <1>2 DEF Opened, CInv, Underway
  <2>. QED  BY Zenon, <1>1, <1>2, <2>1, <2>2 DEF CInv, HeaderFirst, Underway, CompactionUnreachable
<1>3. CASE OpenFresh
  BY Zenon, <1>2, <1>3, EmptyRecovers DEF OpenFresh, CInv, HeaderFirst
<1>4. CASE OpenExisting
  BY Zenon, <1>2, <1>4 DEF OpenExisting
<1>5. CASE OpenRefused
  <2>1. pc' = "recv"
    BY Zenon, <1>5 DEF OpenRefused, CInv, Underway
  <2>. QED  BY Zenon, <1>1, <1>5, <2>1, QuietCounts DEF OpenRefused, disk, memory
<1>6. CASE OpenTorn
  <2>1. UNCHANGED <<file, pc>> /\ proc = "down" /\ proc' # "up" /\ header = "absent"
    BY Zenon, <1>6 DEF OpenTorn
  <2>2. pc' = "recv" /\ file' = <<>>
    BY Zenon, <2>1 DEF CInv, Underway, HeaderFirst
  <2>. QED
    BY Zenon, <1>1, <2>1, <2>2 DEF CInv, Counted, HeaderFirst, Underway, CompactionUnreachable
<1>7. ASSUME NEW c \in Callers, NEW op \in Ops, NEW d \in Digests, Call(c, op, d)
      PROVE  CInv'
  BY Zenon, <1>1, <1>7, QuietCounts DEF Call, worker, disk, memory
<1>8. CASE RequestStop
  BY Zenon, <1>1, <1>8, QuietCounts DEF RequestStop, disk, memory
<1>9. CASE WorkerExit
  BY Zenon, <1>1, <1>9, QuietCounts DEF WorkerExit, Received, disk, memory
<1>10. CASE AnswerLookup
  BY Zenon, <1>1, <1>10, QuietCounts DEF AnswerLookup, worker, disk, memory
<1>11. CASE AnswerAtOnce
  BY Zenon, <1>1, <1>11, QuietCounts DEF AnswerAtOnce, disk, memory
<1>12. CASE StartRecord
  <2>1. /\ UNCHANGED <<file, header, index, records, proc>> /\ proc = "up"
        /\ cur' = Head(queue) /\ Verdict(cur'.digest, cur'.op) = "Proceed"
        /\ pc' = IF records >= MaxRecords THEN "compact" ELSE "append"
    BY Zenon, <1>12 DEF StartRecord, Received, disk, memory, worker
  <2>2. cur'.digest \in Digests /\ cur'.op \in Recorded
    BY <1>1, <1>12, Zenon DEF StartRecord, TypeOK, Request
  <2>3. records < MaxRecords
    BY ZenonT(60), <1>1, <2>1, <2>2, ProceedHasRoom DEF CInv
  <2>4. records \in Nat /\ MaxRecords \in Nat
    BY SMTT(60), <1>1, FormatConstants DEF TypeOK, MaxRecords
  <2>5. pc' = "append"
    BY <2>1, <2>3, <2>4
  <2>6. Counted' /\ HeaderFirst'
    BY Zenon, <2>1 DEF CInv, Counted, HeaderFirst, Present, Completed
  <2>7. Underway'
    BY Zenon, <2>1 DEF Underway, Verdict, Present
  <2>. QED  BY Zenon, <1>1, <2>5, <2>6, <2>7 DEF CInv, CompactionUnreachable
<1>13. ASSUME pc # "recv", UNCHANGED <<header, index, records, proc>>,
              pc' \in {"recv", "sync"}, pc' = "sync" => UNCHANGED cur
       PROVE  CInv'
  <2>1. proc = "up" /\ header = "ok"
    BY Zenon, <1>13 DEF CInv, Underway, HeaderFirst
  <2>2. Counted' /\ HeaderFirst'
    BY Zenon, <1>13, <2>1 DEF CInv, Counted, HeaderFirst, Present, Completed
  <2>3. Underway' /\ CompactionUnreachable'
    BY Zenon, <1>13 DEF CInv, Underway, CompactionUnreachable, Verdict, Present
  <2>. QED  BY Zenon, <1>1, <2>2, <2>3 DEF CInv
<1>14. CASE AppendCell
  BY Zenon, <1>13, <1>14 DEF AppendCell, worker
<1>15. CASE AppendFails
  BY Zenon, <1>13, <1>15 DEF AppendFails, AnswerUnavailable
<1>16. CASE SyncFails
  BY Zenon, <1>13, <1>16 DEF SyncFails, AnswerUnavailable
<1>17. CASE Commit
  <2>1. Counted'
    BY Zenon, <1>1, <1>17, CommitCounts
  <2>2. pc' = "recv" /\ UNCHANGED <<header, file, proc>>
    BY Zenon, <1>17 DEF Commit, worker
  <2>. QED
    BY Zenon, <1>1, <2>1, <2>2 DEF CInv, HeaderFirst, Underway, CompactionUnreachable
<1>18. ASSUME Dies, header' # "ok" => file' = <<>> PROVE CInv'
  BY Zenon, <1>1, <1>18
    DEF Dies, CInv, Counted, HeaderFirst, Underway, CompactionUnreachable
<1>19. CASE ProcessCrash
  BY Zenon, <1>18, <1>19 DEF ProcessCrash, disk, CInv, HeaderFirst
<1>20. CASE PowerLoss
  <2>1. PICK k \in Survivors :
          /\ \/ file' = SubSeq(file, 1, k)
             \/ k \in synced..(Len(file) - 1)
          /\ header' = IF k < synced THEN "absent" ELSE header
    BY Zenon, <1>20 DEF PowerLoss
  <2>2. file \in Seq(Cell) /\ Len(file) \in Nat /\ synced \in 0..Len(file)
    BY Zenon, <1>1, LenProperties DEF TypeOK
  <2>3. ASSUME header' # "ok" PROVE file' = <<>>
    <3>1. k = 0 /\ file' = SubSeq(file, 1, k)
      <4>1. CASE k < synced
        BY SMTT(60), <2>1, <2>2, <4>1 DEF Survivors
      <4>2. CASE ~(k < synced)
        <5>1. file = <<>>
          BY Zenon, <2>1, <2>3, <4>2 DEF CInv, HeaderFirst
        <5>2. Len(file) = 0
          BY Zenon, <5>1, EmptySeq
        <5>. QED  BY SMTT(60), <2>1, <2>2, <5>2 DEF Survivors
      <4>. QED  BY Zenon, <4>1, <4>2
    <3>2. Len(SubSeq(file, 1, 0)) = 0 /\ SubSeq(file, 1, 0) \in Seq(Cell)
      BY <2>2, PrefixFacts
    <3>. QED  BY Zenon, <3>1, <3>2, EmptySeq
  <2>. QED  BY Zenon, <1>18, <1>20, <2>3 DEF PowerLoss
<1>21. CASE UNCHANGED vars
  BY ZenonT(60), <1>1, <1>21, QuietCounts DEF vars, worker, disk, memory
<1>22. ASSUME NEW c \in Callers, CallFails(c) PROVE CInv'
  BY Zenon, <1>21, <1>22 DEF CallFails
<1>. QED
  BY ZenonT(60), <1>3, <1>4, <1>5, <1>6, <1>7, <1>8, <1>9, <1>10, <1>11, <1>12, <1>14, <1>15, <1>16,
     <1>17, <1>19, <1>20, <1>21, <1>22 DEF Next, Open, WorkerStep

LEMMA CountsAlways == Spec => []CInv
BY InitCounts, NextCounts, PTL DEF Spec

(***************************************************************************)
(* The compaction branch of record_inner is never taken, over any faults,  *)
(* crashes and power losses, whatever becomes of the file.                 *)
(***************************************************************************)
THEOREM CompactionNeverRuns == Spec => []CompactionUnreachable
<1>1. CInv => CompactionUnreachable
  BY Zenon DEF CInv
<1>. QED  BY <1>1, CountsAlways, PTL

-----------------------------------------------------------------------------
(***************************************************************************)
(* A record that proceeds, appended to a legal file, makes a legal file    *)
(* whose index is the updated one (record_inner against recover).          *)
(***************************************************************************)
LEMMA ExtendLegal ==
  ASSUME NEW f \in Seq(Cell), NEW g \in Seq(Cell), Len(f) = Len(g) + 1,
         \A i \in 1..Len(g) : f[i] = g[i],
         LegalFile(g), TypeOK, index = IndexOf(g),
         NEW d \in Digests, NEW s \in Recorded,
         f[Len(f)] = [seq |-> Len(f), state |-> s, digest |-> d],
         Verdict(d, s) = "Proceed",
         s = "Completed" => index[d] # "none"
  PROVE  LegalFile(f) /\ IndexOf(f) = [index EXCEPT ![d] = s]
<1>. DEFINE n == Len(f)
<1>1. /\ Len(g) \in Nat /\ n = Len(g) + 1
      /\ \A i \in 1..Len(g) : g[i].digest \in Digests
  <2>1. \A i \in 1..Len(g) : g[i] \in Cell
    BY Zenon, ElementOfSeq
  <2>. QED  BY Zenon, <2>1, LenProperties DEF Cell
<1>2. /\ First # "Completed" /\ Permits \subseteq {First, "Completed"} /\ First # "none"
      /\ "Completed" \in Permits => First = "Reserved"
  BY Zenon, FormatConstants DEF First, Permits
<1>3. s \in Permits /\ s \in {First, "Completed"}
  BY Zenon, <1>2 DEF Verdict
<1>4. s = First => index[d] = "none"
  BY Zenon, ProceedIsNew
<1>5. s = "Completed" => index[d] = First
  BY Zenon, <1>2, <1>3 DEF Verdict
<1>6. f[n].digest = d /\ f[n].state = s /\ f[n].seq = n
  OBVIOUS
<1>7. /\ index[d] = "none" => \A i \in 1..Len(g) : g[i].digest # d
      /\ index[d] = First => /\ \E i \in 1..Len(g) : g[i].digest = d
                             /\ \A i \in 1..Len(g) : g[i].digest = d => g[i].state # "Completed"
  BY Zenon, <1>2 DEF IndexOf
<1>8. ASSUME NEW i \in 1..Len(g) PROVE LegalCell(f, i)
  <2>1. Earlier(f, i) = Earlier(g, i) /\ \A j \in Earlier(g, i) : f[j] = g[j]
    BY SMTT(60), <1>1 DEF Earlier
  <2>2. LegalCell(g, i)
    BY Zenon DEF LegalFile
  <2>. QED  BY Zenon, <2>1, <2>2 DEF LegalCell
<1>9. LegalCell(f, n)
  <2>1. Earlier(f, n) = {j \in 1..Len(g) : g[j].digest = d}
    BY <1>1, <1>6 DEF Earlier
  <2>2. CASE s = First
    BY ZenonT(60), <2>1, <2>2, <1>2, <1>3, <1>4, <1>6, <1>7 DEF LegalCell
  <2>3. CASE s = "Completed"
    <3>1. \A j \in Earlier(f, n) : f[j].state = First
      BY SMTT(60), <2>1, <2>3, <1>2, <1>5, <1>7 DEF LegalFile, LegalCell
    <3>2. Earlier(f, n) # {}
      BY ZenonT(60), <2>1, <2>3, <1>5, <1>7
    <3>. QED  BY ZenonT(60), <2>3, <3>1, <3>2, <1>2, <1>3, <1>6 DEF LegalCell
  <2>. QED  BY Zenon, <2>2, <2>3, <1>3
<1>10. LegalFile(f)
  BY <1>1, <1>8, <1>9 DEF LegalFile
<1>11. ASSUME NEW e \in Digests PROVE IndexOf(f)[e] = IF e = d THEN s ELSE IndexOf(g)[e]
  <2>1. 1..n = 1..Len(g) \cup {n}
    BY <1>1
  <2>2. CASE e # d
    <3>1. /\ (\E i \in 1..n : f[i].digest = e /\ f[i].state = "Completed")
               <=> (\E i \in 1..Len(g) : g[i].digest = e /\ g[i].state = "Completed")
          /\ (\E i \in 1..n : f[i].digest = e) <=> (\E i \in 1..Len(g) : g[i].digest = e)
      BY Zenon, <2>1, <2>2, <1>6
    <3>. QED  BY Zenon, <2>2, <3>1 DEF IndexOf
  <2>3. CASE e = d /\ s = "Completed"
    BY Zenon, <2>1, <2>3, <1>6 DEF IndexOf
  <2>4. CASE e = d /\ s = First
    <3>1. ~ \E i \in 1..n : f[i].digest = e /\ f[i].state = "Completed"
      BY ZenonT(60), <2>1, <2>4, <1>2, <1>4, <1>6, <1>7
    <3>2. \E i \in 1..n : f[i].digest = e
      BY Zenon, <2>1, <2>4, <1>6
    <3>. QED  BY Zenon, <2>4, <3>1, <3>2 DEF IndexOf
  <2>. QED  BY ZenonT(60), <2>2, <2>3, <2>4, <1>3
<1>12. IndexOf(f) = [index EXCEPT ![d] = s]
  <2>1. IndexOf(f) = [e \in Digests |-> IndexOf(f)[e]]
    BY Zenon DEF IndexOf
  <2>2. index \in [Digests -> Recorded \cup {"none"}]
    BY Zenon DEF TypeOK
  <2>. QED  BY Zenon, <1>11, <2>1, <2>2
<1>. QED  BY Zenon, <1>10, <1>12

\* Completed is asked for only of what was granted, also while the command waits.
DoneIsGranted ==
  /\ \A i \in 1..Len(queue) : queue[i].op = "Completed" => grants[queue[i].digest] > 0
  /\ pc # "recv" /\ cur.op = "Completed" => grants[cur.digest] > 0

\* Of a healthy worker: the file, without a cell that is not committed yet, is legal and
\* gives the index.
Committed == IF pc = "sync" THEN SubSeq(file, 1, Len(file) - 1) ELSE file

HealthyFile ==
  proc = "up" /\ healthy =>
    /\ LegalFile(Committed) /\ index = IndexOf(Committed)
    /\ sequence = Len(file) /\ records = Len(Committed)
    /\ pc = "sync" => /\ file # <<>>
                      /\ file[Len(file)] = [seq |-> Len(file), state |-> cur.op,
                                            digest |-> cur.digest]

HInv == IInv /\ CInv /\ DoneIsGranted /\ HealthyFile

\* Steps that add no request for Completed and take no grant back.
LEMMA DoneKept ==
  ASSUME TypeOK, DoneIsGranted, \A d \in Digests : grants'[d] >= grants[d],
         grants' \in [Digests -> Nat],
         queue' \in {queue, <<>>} \/ (queue # <<>> /\ queue' = Tail(queue)),
         \/ pc' = "recv"
         \/ pc # "recv" /\ UNCHANGED cur
         \/ queue # <<>> /\ cur' = Head(queue)
  PROVE  DoneIsGranted'
<1>1. queue \in Seq(Request \cup {Stop}) /\ Len(queue) \in Nat
  BY ZenonT(60), LenProperties DEF TypeOK
<1>2. \A i \in 1..Len(queue) : queue[i].op = "Completed" => queue[i].digest \in Digests
  <2>1. \A i \in 1..Len(queue) : queue[i] \in Request \cup {Stop}
    BY ZenonT(60), <1>1, ElementOfSeq
  <2>. QED  BY <2>1 DEF Request, Stop
<1>3. \A i \in 1..Len(queue) : queue[i].op = "Completed" => grants'[queue[i].digest] > 0
  BY SMTT(60), <1>2 DEF DoneIsGranted, TypeOK
<1>4. \A i \in 1..Len(queue') : queue'[i].op = "Completed" => grants'[queue'[i].digest] > 0
  <2>1. CASE queue' = queue
    BY Zenon, <2>1, <1>3
  <2>2. CASE queue' = <<>>
    BY SMTT(60), <2>2, EmptySeq
  <2>3. CASE queue # <<>> /\ queue' = Tail(queue)
    <3>1. /\ Len(queue') = Len(queue) - 1
          /\ \A i \in 1..Len(queue') : queue'[i] = queue[i + 1]
      BY ZenonT(60), <1>1, <2>3, HeadTailProperties
    <3>. QED  BY SMTT(60), <1>1, <1>3, <3>1
  <2>. QED  BY Zenon, <2>1, <2>2, <2>3
<1>5. ASSUME pc' # "recv", cur'.op = "Completed" PROVE grants'[cur'.digest] > 0
  <2>1. CASE pc # "recv" /\ UNCHANGED cur
    BY SMTT(60), <1>5, <2>1 DEF DoneIsGranted, TypeOK, Request
  <2>2. CASE queue # <<>> /\ cur' = Head(queue)
    <3>1. 1 \in 1..Len(queue) /\ Head(queue) = queue[1]
      BY SMTT(60), <1>1, <2>2, HeadTailProperties, EmptySeq
    <3>. QED  BY ZenonT(60), <1>3, <1>5, <2>2, <3>1
  <2>. QED  BY ZenonT(60), <1>5, <2>1, <2>2
<1>. QED  BY Zenon, <1>4, <1>5 DEF DoneIsGranted

\* A command that a caller or a stop appends.
LEMMA DoneAppended ==
  ASSUME TypeOK, DoneIsGranted, UNCHANGED <<grants, pc, cur>>,
         NEW x \in Request \cup {Stop}, queue' = Append(queue, x),
         x.op = "Completed" => grants[x.digest] > 0
  PROVE  DoneIsGranted'
<1>1. queue \in Seq(Request \cup {Stop}) /\ Len(queue) \in Nat
  BY ZenonT(60), LenProperties DEF TypeOK
<1>2. /\ Len(queue') = Len(queue) + 1 /\ queue'[Len(queue) + 1] = x
      /\ \A i \in 1..Len(queue) : queue'[i] = queue[i]
  BY SMTT(60), <1>1, AppendProperties
<1>3. \A i \in 1..Len(queue') : i \in 1..Len(queue) \/ i = Len(queue) + 1
  BY SMTT(60), <1>1, <1>2
<1>. QED  BY ZenonT(60), <1>2, <1>3 DEF DoneIsGranted

LEMMA NextDone == TypeOK /\ DoneIsGranted /\ [Next]_vars => DoneIsGranted'
<1>. SUFFICES ASSUME TypeOK, DoneIsGranted, [Next]_vars PROVE DoneIsGranted'
  BY Zenon
<1>1. grants \in [Digests -> Nat] /\ grants' \in [Digests -> Nat]
  BY ZenonT(60), NextTyped DEF TypeOK
<1>2. \A d \in Digests : grants[d] >= grants[d]
  BY <1>1
<1>3. CASE OpenFresh \/ OpenExisting
  BY ZenonT(60), <1>1, <1>2, <1>3, DoneKept DEF OpenFresh, OpenExisting, Opened
<1>4. CASE OpenRefused \/ OpenTorn
  BY ZenonT(60), <1>1, <1>2, <1>4, DoneKept DEF OpenRefused, OpenTorn
<1>5. ASSUME NEW c \in Callers, NEW op \in Ops, NEW d \in Digests, Call(c, op, d)
      PROVE  DoneIsGranted'
  <2>1. [caller |-> c, op |-> op, digest |-> d] \in Request \cup {Stop}
    BY Zenon DEF Request
  <2>. QED  BY ZenonT(60), <1>5, <2>1, DoneAppended DEF Call
<1>6. CASE RequestStop
  <2>1. CASE queue' = Append(queue, Stop)
    BY ZenonT(60), <1>6, <2>1, DoneAppended DEF RequestStop, Stop
  <2>2. CASE queue' = queue
    BY ZenonT(60), <1>1, <1>2, <1>6, <2>2, DoneKept DEF RequestStop
  <2>. QED  BY ZenonT(60), <1>6, <2>1, <2>2 DEF RequestStop
<1>7. CASE WorkerExit
  BY ZenonT(60), <1>1, <1>2, <1>7, DoneKept DEF WorkerExit, Received
<1>8. CASE AnswerLookup \/ AnswerAtOnce
  BY ZenonT(60), <1>1, <1>2, <1>8, DoneKept DEF AnswerLookup, AnswerAtOnce, Received
<1>9. CASE StartRecord
  BY ZenonT(60), <1>1, <1>2, <1>9, DoneKept DEF StartRecord, Received
<1>10. CASE AppendCell
  BY ZenonT(60), <1>1, <1>2, <1>10, DoneKept DEF AppendCell
<1>11. CASE AppendFails \/ SyncFails
  BY ZenonT(60), <1>1, <1>2, <1>11, DoneKept DEF AppendFails, SyncFails, AnswerUnavailable
<1>12. CASE Commit
  <2>1. cur.digest \in Digests
    BY ZenonT(60), <1>12 DEF Commit, TypeOK, Request
  <2>2. \A d \in Digests : grants'[d] >= grants[d]
    BY SMTT(60), <1>1, <1>12, <2>1 DEF Commit
  <2>. QED  BY ZenonT(60), <1>1, <1>12, <2>2, DoneKept DEF Commit
<1>13. CASE ProcessCrash \/ PowerLoss
  BY ZenonT(60), <1>1, <1>2, <1>13, DoneKept DEF ProcessCrash, PowerLoss, Dies
<1>14. CASE UNCHANGED vars
  BY ZenonT(60), <1>1, <1>2, <1>14, DoneKept DEF vars
<1>15. ASSUME NEW c \in Callers, CallFails(c) PROVE DoneIsGranted'
  BY ZenonT(60), <1>14, <1>15 DEF CallFails
<1>. QED
  BY ZenonT(60), <1>3, <1>4, <1>5, <1>6, <1>7, <1>8, <1>9, <1>10, <1>11, <1>12, <1>13, <1>14, <1>15
     DEF Next, Open, WorkerStep

LEMMA InitHealthy == Init => HInv
<1>. SUFFICES ASSUME Init PROVE HInv
  BY Zenon
<1>1. IInv /\ CInv
  BY ZenonT(60), InitSafe, InitCounts
<1>2. DoneIsGranted
  BY SMTT(60), EmptySeq DEF Init, DoneIsGranted
<1>3. HealthyFile
  BY Zenon DEF Init, HealthyFile
<1>. QED  BY ZenonT(60), <1>1, <1>2, <1>3 DEF HInv

\* Recovery hands the worker an index that agrees with the file.
LEMMA OpenHealthy ==
  ASSUME CInv, Opened(file), Recovers(file), proc = "down"
  PROVE  HealthyFile'
<1>1. pc' = "recv"
  BY Zenon DEF Opened, CInv, Underway
<1>2. Committed' = Whole(file)
  BY ZenonT(60), <1>1 DEF Committed, Opened
<1>. QED  BY ZenonT(60), <1>1, <1>2 DEF HealthyFile, Opened, Recovers

\* Steps that leave the file, the index and the command alone.
LEMMA QuietHealthy ==
  ASSUME HealthyFile, UNCHANGED <<index, records, file, sequence, proc>>,
         healthy' => healthy,
         UNCHANGED <<pc, cur>> \/ (pc = "recv" /\ pc' = "append")
  PROVE  HealthyFile'
<1>1. Committed' = Committed
  BY Zenon DEF Committed
<1>. QED  BY ZenonT(60), <1>1 DEF HealthyFile

LEMMA AppendHealthy ==
  ASSUME CInv, HealthyFile, AppendCell
  PROVE  HealthyFile'
<1>1. file \in Seq(Cell) /\ Len(file) \in Nat /\ sequence \in Nat
  BY ZenonT(60), LenProperties DEF CInv, TypeOK
<1>2. cur \in Request /\ cur.op \in Recorded
  BY ZenonT(60) DEF AppendCell, CInv, TypeOK
<1>3. NewCell \in Cell
  <2>1. cur.digest \in Digests
    BY ZenonT(60), <1>2 DEF Request
  <2>. QED  BY SMTT(60), <1>1, <1>2, <2>1 DEF NewCell, Cell
<1>4. /\ file' \in Seq(Cell) /\ Len(file') = Len(file) + 1
      /\ file'[Len(file) + 1] = NewCell
      /\ \A i \in 1..Len(file) : file'[i] = file[i]
  BY SMTT(60), <1>1, <1>3, AppendProperties DEF AppendCell
<1>5. Committed' = file /\ Committed = file
  <2>1. Committed' = SubSeq(file', 1, Len(file))
    BY SMTT(60), <1>1, <1>4 DEF Committed, AppendCell
  <2>2. /\ SubSeq(file', 1, Len(file)) \in Seq(Cell)
        /\ Len(SubSeq(file', 1, Len(file))) = Len(file)
        /\ \A i \in 1..Len(file) : SubSeq(file', 1, Len(file))[i] = file'[i]
    <3>1. Len(file) \in 0..Len(file')
      BY SMTT(60), <1>1, <1>4
    <3>. QED  BY ZenonT(60), <1>4, <3>1, PrefixFacts
  <2>3. SubSeq(file', 1, Len(file)) = file
    BY ZenonT(60), <1>1, <1>4, <2>2, SeqEqual
  <2>. QED  BY ZenonT(60), <2>1, <2>3 DEF Committed, AppendCell
<1>6. file' # <<>>
  BY SMTT(60), <1>1, <1>4, EmptySeq
<1>7. SUFFICES ASSUME proc' = "up", healthy' PROVE
        /\ LegalFile(file) /\ index' = IndexOf(file)
        /\ sequence' = Len(file') /\ records' = Len(file)
        /\ file'[Len(file')] = [seq |-> Len(file'), state |-> cur'.op,
                                digest |-> cur'.digest]
  BY ZenonT(60), <1>5, <1>6 DEF HealthyFile, AppendCell
<1>8. proc = "up" /\ healthy
  BY ZenonT(60), <1>7 DEF AppendCell, worker
<1>9. /\ LegalFile(file) /\ index = IndexOf(file)
      /\ sequence = Len(file) /\ records = Len(file)
  BY ZenonT(60), <1>5, <1>8 DEF HealthyFile
<1>. QED  BY ZenonT(60), <1>4, <1>9 DEF AppendCell, NewCell

LEMMA CommitHealthy ==
  ASSUME HInv, Commit
  PROVE  HealthyFile'
<1>1. file \in Seq(Cell) /\ Len(file) \in Nat
  BY ZenonT(60), LenProperties DEF HInv, CInv, TypeOK, Commit
<1>2. cur.digest \in Digests /\ cur.op \in Recorded
  BY ZenonT(60) DEF HInv, CInv, TypeOK, Commit, Request
<1>3. SUFFICES ASSUME proc = "up", healthy PROVE
        /\ LegalFile(file) /\ index' = IndexOf(file)
        /\ sequence' = Len(file) /\ records' = Len(file)
  <2>1. Committed' = file /\ pc' = "recv"
    BY Zenon DEF Committed, Commit
  <2>. QED  BY ZenonT(60), <1>3, <2>1 DEF HealthyFile, Commit, worker
<1>4. /\ LegalFile(Committed) /\ index = IndexOf(Committed)
      /\ sequence = Len(file) /\ records = Len(Committed)
      /\ file # <<>>
      /\ file[Len(file)] = [seq |-> Len(file), state |-> cur.op, digest |-> cur.digest]
  BY ZenonT(60), <1>3 DEF HInv, HealthyFile, Commit
<1>5. Len(file) > 0
  BY SMTT(60), <1>1, <1>4, EmptySeq
<1>6. /\ Committed \in Seq(Cell) /\ Len(Committed) = Len(file) - 1
      /\ \A i \in 1..Len(Committed) : file[i] = Committed[i]
  <2>1. Len(file) - 1 \in 0..Len(file)
    BY SMTT(60), <1>1, <1>5
  <2>2. Committed = SubSeq(file, 1, Len(file) - 1)
    BY Zenon DEF Committed, Commit
  <2>. QED  BY ZenonT(60), <1>1, <2>1, <2>2, PrefixFacts
<1>7. Verdict(cur.digest, cur.op) = "Proceed"
  BY Zenon DEF HInv, CInv, Underway, Commit
<1>8. ASSUME cur.op = "Completed" PROVE index[cur.digest] # "none"
  <2>1. grants[cur.digest] > 0
    BY ZenonT(60), <1>8 DEF HInv, DoneIsGranted, Commit
  <2>. QED  BY ZenonT(60), <1>2, <1>3, <2>1 DEF HInv, IInv, GrantIndexed
<1>9. Len(file) = Len(Committed) + 1
  BY SMTT(60), <1>1, <1>5, <1>6
<1>10. LegalFile(file) /\ IndexOf(file) = [index EXCEPT ![cur.digest] = cur.op]
  BY SMTT(60), <1>1, <1>2, <1>4, <1>6, <1>7, <1>8, <1>9, ExtendLegal DEF HInv, CInv
<1>. QED  BY ZenonT(60), <1>4, <1>9, <1>10 DEF Commit

LEMMA NextHealthy == DirentSafe /\ HInv /\ [Next]_vars => HInv'
<1>. SUFFICES ASSUME DirentSafe, HInv, [Next]_vars PROVE HInv'
  BY Zenon
<1>1. IInv' /\ CInv' /\ DoneIsGranted'
  BY ZenonT(60), NextSafe, NextCounts, NextDone DEF HInv, CInv
<1>. SUFFICES HealthyFile'
  BY Zenon, <1>1 DEF HInv
<1>. USE DEF HInv
<1>2. CASE ~(proc' = "up" /\ healthy')
  BY Zenon, <1>2 DEF HealthyFile
<1>3. CASE OpenFresh
  BY ZenonT(60), <1>3, OpenHealthy, EmptyRecovers DEF OpenFresh, CInv, HeaderFirst
<1>4. CASE OpenExisting
  BY ZenonT(60), <1>4, OpenHealthy DEF OpenExisting
<1>5. CASE OpenRefused \/ OpenTorn \/ WorkerExit
  BY ZenonT(60), <1>2, <1>5 DEF OpenRefused, OpenTorn, WorkerExit
<1>6. ASSUME NEW c \in Callers, NEW op \in Ops, NEW d \in Digests, Call(c, op, d)
      PROVE  HealthyFile'
  BY ZenonT(60), <1>6, QuietHealthy DEF Call, worker, disk, memory
<1>7. CASE RequestStop
  BY ZenonT(60), <1>7, QuietHealthy DEF RequestStop, disk, memory
<1>8. CASE AnswerLookup
  BY ZenonT(60), <1>8, QuietHealthy DEF AnswerLookup, worker, disk, memory
<1>9. CASE AnswerAtOnce
  BY ZenonT(60), <1>9, QuietHealthy DEF AnswerAtOnce, disk, memory
<1>10. CASE StartRecord
  <2>1. pc = "recv" /\ pc' = "append"
    BY ZenonT(60), <1>1, <1>10 DEF StartRecord, Received, CInv, CompactionUnreachable
  <2>. QED  BY ZenonT(60), <1>10, <2>1, QuietHealthy DEF StartRecord, worker, disk, memory
<1>11. CASE AppendCell
  BY ZenonT(60), <1>11, AppendHealthy
<1>12. CASE AppendFails \/ SyncFails
  BY ZenonT(60), <1>2, <1>12 DEF AppendFails, SyncFails, AnswerUnavailable
<1>13. CASE Commit
  BY ZenonT(60), <1>13, CommitHealthy
<1>14. CASE ProcessCrash \/ PowerLoss
  BY ZenonT(60), <1>2, <1>14 DEF ProcessCrash, PowerLoss, Dies
<1>15. CASE UNCHANGED vars
  BY ZenonT(60), <1>15, QuietHealthy DEF vars, worker, disk, memory
<1>16. ASSUME NEW c \in Callers, CallFails(c) PROVE HealthyFile'
  BY ZenonT(60), <1>15, <1>16 DEF CallFails
<1>. QED
  BY ZenonT(60), <1>3, <1>4, <1>5, <1>6, <1>7, <1>8, <1>9, <1>10, <1>11, <1>12, <1>13, <1>14, <1>15,
     <1>16 DEF Next, Open, WorkerStep

\* The file a healthy worker leaves between two commands is one that recovery accepts.
LEMMA HealthyMeansAgrees == HInv => HealthyAgrees
<1>. SUFFICES ASSUME HInv, proc = "up", healthy, pc = "recv" PROVE
       /\ header = "ok" /\ Recovers(file) /\ Whole(file) = file
       /\ index = IndexOf(file)
       /\ sequence = Len(file) /\ records = Len(file)
  BY Zenon DEF HealthyAgrees
<1>1. file \in Seq(Cell) /\ Len(file) \in Nat
  BY ZenonT(60), LenProperties DEF HInv, CInv, TypeOK
<1>2. /\ LegalFile(file) /\ index = IndexOf(file)
      /\ sequence = Len(file) /\ records = Len(file)
  BY Zenon DEF HInv, HealthyFile, Committed
<1>3. header = "ok"
  BY Zenon DEF HInv, CInv, HeaderFirst
<1>4. Whole(file) = file
  <2>1. CASE file = <<>>
    BY ZenonT(60), <2>1 DEF Whole
  <2>2. CASE file # <<>>
    <3>1. Len(file) \in 1..Len(file)
      BY SMTT(60), <1>1, <2>2, EmptySeq
    <3>2. file[Len(file)].state \in Permits
      BY ZenonT(60), <1>2, <3>1 DEF LegalFile, LegalCell
    <3>. QED  BY ZenonT(60), <3>2 DEF Whole, Permits
  <2>. QED  BY ZenonT(60), <2>1, <2>2
<1>5. records <= Cardinality(Present) + Cardinality(Completed)
      /\ Cardinality(Present) <= MaxUnique
  BY Zenon DEF HInv, CInv, Counted
<1>6. Cardinality(Completed) <= Cardinality(Present)
  <2>1. Completed \subseteq Present
    BY Zenon DEF Completed, Present
  <2>. QED  BY ZenonT(60), <2>1, CountTypes, FS_Subset
<1>7. Len(file) <= MaxRecords
  <2>1. /\ Cardinality(Present) \in Nat /\ Cardinality(Completed) \in Nat
        /\ MaxUnique \in Nat
    BY ZenonT(60), CountTypes, FormatConstants
  <2>. QED  BY SMTT(60), <1>1, <1>2, <1>5, <1>6, <2>1 DEF MaxRecords
<1>8. DigestsOf(file) = Present
  <2>1. ASSUME NEW d \in Digests
        PROVE  index[d] # "none" <=> \E i \in 1..Len(file) : file[i].digest = d
    BY Zenon, <1>2 DEF IndexOf, First
  <2>. QED  BY Zenon, <2>1 DEF DigestsOf, Present
<1>9. Recovers(file)
  BY ZenonT(60), <1>2, <1>4, <1>5, <1>7, <1>8 DEF Recovers
<1>. QED  BY ZenonT(60), <1>2, <1>3, <1>4, <1>9

(***************************************************************************)
(* Between two commands the memory of a healthy worker is what reopening   *)
(* its file would give, and recovery accepts that file: an I/O error or a  *)
(* crash never leaves the two apart unnoticed (record_inner and recover).  *)
(***************************************************************************)
THEOREM HealthyAlwaysAgrees == DirentSafe => (Spec => []HealthyAgrees)
<1>. SUFFICES ASSUME DirentSafe PROVE Spec => []HealthyAgrees
  BY Zenon
<1>1. Init => HInv
  BY Zenon, InitHealthy
<1>2. HInv /\ [Next]_vars => HInv'
  BY Zenon, NextHealthy
<1>3. HInv => HealthyAgrees
  BY Zenon, HealthyMeansAgrees
<1>. QED  BY <1>1, <1>2, <1>3, PTL DEF Spec

-----------------------------------------------------------------------------
(***************************************************************************)
(* Recovery.  The cells consumed so far are legal ones, the index is what  *)
(* they say, and a loop that ended early had its reason.                   *)
(***************************************************************************)
cells == Whole(input)
Seen(n, d) == \E i \in 1..n : cells[i].digest = d
Done(n, d) == \E i \in 1..n : cells[i].digest = d /\ cells[i].state = "Completed"
Raw == [seq : Nat, state : {"LocalExcluded", "Reserved", "Completed", "torn", "bad"}, digest : Digests]

LoopInv ==
  /\ input \in Seq(Raw) /\ pos \in 0..Len(cells) /\ expected = pos + 1
  /\ \A i \in 1..pos : LegalCell(cells, i)
  /\ idx = [d \in Digests |-> IF Done(pos, d) THEN "Completed" ELSE IF Seen(pos, d) THEN First ELSE "none"]

OutcomeInv ==
  /\ result \in {"running", "Ok", "Corrupt", "Capacity"}
  /\ result # "Capacity" => Len(input) <= MaxRecords /\ Cardinality(Entries(idx)) <= MaxUnique
  /\ result = "Ok" => pos = Len(cells)
  /\ result = "Corrupt" => pos < Len(cells) /\ ~LegalCell(cells, pos + 1)
  /\ result = "Capacity" => Len(input) > MaxRecords \/ Cardinality(Entries(idx)) > MaxUnique

RecoveryInv == LoopInv /\ OutcomeInv

\* What recovery decodes is the file without a torn end.
LEMMA CellsFacts ==
  ASSUME input \in Seq(Raw)
  PROVE  cells \in Seq(Raw) /\ Len(cells) <= Len(input) /\ \A i \in 1..Len(cells) : cells[i] = input[i]
<1>1. CASE input # <<>> /\ input[Len(input)].state = "torn"
  <2>1. Len(input) \in Nat \ {0} /\ cells = SubSeq(input, 1, Len(input) - 1)
    BY SMTT(60), <1>1 DEF cells, Whole
  <2> QED BY SMTT(60), <2>1
<1>2. CASE ~(input # <<>> /\ input[Len(input)].state = "torn")
  <2>1. cells = input
    BY <1>2, ZenonT(60) DEF cells, Whole
  <2> QED BY SMTT(60), <2>1
<1> QED BY Zenon, <1>1, <1>2

\* The checks of the loop on the next cell are what the format demands of it.
LEMMA NextCell ==
  ASSUME LoopInv, pos < Len(cells)
  PROVE  LegalNext(input[pos + 1]) <=> LegalCell(cells, pos + 1)
<1> DEFINE c == cells[pos + 1]
           E == Earlier(cells, pos + 1)
<1>1. cells \in Seq(Raw) /\ pos \in Nat /\ pos + 1 \in 1..Len(cells) /\ input[pos + 1] = c
  BY SMTT(60), CellsFacts DEF LoopInv
<1>2. c \in Raw /\ c.digest \in Digests
  <2>1. c \in Raw
    BY SMTT(60), <1>1
  <2> QED BY Zenon, <2>1 DEF Raw
<1>3. E = {j \in 1..pos : cells[j].digest = c.digest}
  BY SMTT(60), <1>1 DEF Earlier
<1>4. /\ E = {} <=> ~Seen(pos, c.digest)
      /\ Done(pos, c.digest) <=> \E j \in E : cells[j].state = "Completed"
  BY Zenon, <1>3 DEF Seen, Done
<1>5. idx[c.digest] = IF Done(pos, c.digest) THEN "Completed"
                      ELSE IF Seen(pos, c.digest) THEN First ELSE "none"
  BY Zenon, <1>2 DEF LoopInv
<1>6. \A j \in E : cells[j].state \in Permits
  BY Zenon, <1>3 DEF LoopInv, LegalCell
<1>7. expected = pos + 1
  BY Zenon DEF LoopInv
<1> HIDE DEF c, E
<1>8. /\ LegalNext(input[pos + 1]) <=>
           /\ c.state \in Recorded /\ c.seq = pos + 1 /\ c.state \in Permits
           /\ \/ idx[c.digest] = "none" /\ c.state \in {"LocalExcluded", "Reserved"}
              \/ idx[c.digest] = "Reserved" /\ c.state = "Completed"
      /\ LegalCell(cells, pos + 1) <=>
           /\ c.seq = pos + 1 /\ c.state \in Permits
           /\ c.state = First => E = {}
           /\ c.state = "Completed" => E # {} /\ \A j \in E : cells[j].state = First
  BY Zenon, <1>1, <1>7 DEF LegalNext, LegalCell, c, E
<1>9. CASE Kind = "Exclusion"
  <2>1. Permits = {"LocalExcluded"} /\ First = "LocalExcluded"
    BY Zenon, <1>9 DEF Permits, First
  <2> QED BY Zenon, <1>4, <1>5, <1>6, <1>8, <2>1 DEF Recorded
<1>10. CASE Kind = "Delivery"
  <2>1. Permits = {"Reserved", "Completed"} /\ First = "Reserved"
    BY Zenon, <1>10 DEF Permits, First
  <2>2. CASE c.state = "Reserved"
    BY Zenon, <1>4, <1>5, <1>8, <2>1, <2>2 DEF Recorded
  <2>3. CASE c.state = "Completed"
    <3>1. idx[c.digest] = "Reserved" <=> Seen(pos, c.digest) /\ ~Done(pos, c.digest)
      BY Zenon, <1>5, <2>1
    <3>2. ~Done(pos, c.digest) <=> \A j \in E : cells[j].state = "Reserved"
      BY Zenon, <1>4, <1>6, <2>1
    <3> QED BY Zenon, <1>4, <1>8, <2>1, <2>3, <3>1, <3>2 DEF Recorded
  <2>4. CASE c.state \notin {"Reserved", "Completed"}
    BY Zenon, <1>8, <2>1, <2>4
  <2> QED BY Zenon, <2>2, <2>3, <2>4
<1> QED BY Zenon, <1>9, <1>10, FormatConstants, CellBound

LEMMA LogStarts == RecoveryInit => RecoveryInv
<1> SUFFICES ASSUME RecoveryInit PROVE RecoveryInv
  BY Zenon
<1>1. input \in Seq(Raw)
  <2>1. PICK n \in 0..MaxCells :
          input \in [1..n -> [seq : 1..MaxCells, state : Recorded \cup Damaged, digest : Digests]]
    BY Zenon DEF RecoveryInit, Files
  <2>2. input \in [1..n -> Raw] /\ n \in Nat
    BY SMTT(60), <2>1, FormatConstants, CellBound DEF Raw, Recorded, Damaged
  <2> QED BY SMTT(60), <2>2
<1>2. pos = 0 /\ expected = 1 /\ idx = [d \in Digests |-> "none"]
      /\ result = IF Len(input) > MaxRecords THEN "Capacity" ELSE "running"
  BY Zenon DEF RecoveryInit
<1>3. Len(cells) \in Nat /\ Len(input) \in Nat /\ MaxRecords \in Nat
  BY SMTT(60), <1>1, CellsFacts, FormatConstants, CellBound DEF MaxRecords
<1>4. \A d : ~Seen(0, d) /\ ~Done(0, d)
  BY DEF Seen, Done
<1>5. LoopInv
  BY SMTT(60), <1>1, <1>2, <1>3, <1>4 DEF LoopInv
<1>6. Cardinality(Entries(idx)) = 0
  <2>1. Entries(idx) = {}
    BY Zenon, <1>2 DEF Entries
  <2> QED BY Zenon, <2>1, FS_EmptySet
<1>7. OutcomeInv
  BY SMTT(60), <1>2, <1>3, <1>6, FormatConstants, CellBound DEF OutcomeInv
<1> QED BY Zenon, <1>5, <1>7 DEF RecoveryInv

LEMMA LogStep == RecoveryInv /\ [RecoveryNext]_recoveryVars => RecoveryInv'
<1> SUFFICES ASSUME RecoveryInv, [RecoveryNext]_recoveryVars PROVE RecoveryInv'
  BY Zenon
<1>1. LoopInv /\ OutcomeInv
  BY Zenon DEF RecoveryInv
<1>2. input \in Seq(Raw) /\ cells \in Seq(Raw) /\ pos \in 0..Len(cells) /\ expected = pos + 1 /\ Len(cells) \in Nat
  BY SMTT(60), <1>1, CellsFacts DEF LoopInv
<1>3. CASE UNCHANGED recoveryVars
  BY SMTT(60), <1>1, <1>3 DEF recoveryVars, RecoveryInv, LoopInv, OutcomeInv, cells, Seen, Done
<1>4. CASE Reject \/ Finish
  <2>1. /\ UNCHANGED <<input, pos, expected, idx>> /\ result = "running" /\ cells' = cells
        /\ \/ result' = "Corrupt" /\ pos < Len(cells) /\ ~LegalNext(input[pos + 1])
           \/ result' = "Ok" /\ pos = Len(cells)
    BY Zenon, <1>4 DEF Reject, Finish, CompleteCells, cells
  <2>2. LoopInv'
    BY Zenon, <1>1, <2>1 DEF LoopInv, Seen, Done
  <2>3. OutcomeInv'
    BY Zenon, <1>1, <2>1, NextCell DEF OutcomeInv
  <2> QED BY Zenon, <2>2, <2>3 DEF RecoveryInv
<1>5. CASE Accept
  <2> DEFINE c == cells[pos + 1]
  <2>0. /\ input' = input /\ cells' = cells
    BY Zenon, <1>5 DEF Accept, cells
  <2>1. /\ input' = input /\ cells' = cells /\ pos' = pos + 1 /\ expected' = expected + 1 /\ pos < Len(cells)
        /\ LegalNext(input[pos + 1]) /\ result = "running"
        /\ result' = IF Cardinality(Entries(idx')) > MaxUnique THEN "Capacity" ELSE "running"
        /\ idx' = [idx EXCEPT ![input[pos + 1].digest] = input[pos + 1].state]
    BY ZenonT(60), <1>5, <2>0 DEF Accept, CompleteCells, cells
  <2>2. LegalCell(cells, pos + 1) /\ input[pos + 1] = c /\ c \in Raw /\ pos + 1 \in 1..Len(cells)
    BY SMTT(60), <1>1, <1>2, <2>1, NextCell, CellsFacts
  <2>3. \A i \in 1..pos' : LegalCell(cells', i)
    BY SMTT(60), <1>1, <1>2, <2>1, <2>2 DEF LoopInv
  <2>4. /\ c.digest \in Digests /\ c.state \in Permits
        /\ c.state \in {First, "Completed"}
    BY Zenon, <2>2, FormatConstants, CellBound DEF Raw, LegalCell, Permits, First
  <2>5. ASSUME NEW d \in Digests
        PROVE  /\ Seen(pos + 1, d) <=> Seen(pos, d) \/ d = c.digest
               /\ Done(pos + 1, d) <=> Done(pos, d) \/ (d = c.digest /\ c.state = "Completed")
    <3>1. 1..(pos + 1) = (1..pos) \cup {pos + 1}
      BY SMTT(60), <1>2
    <3> QED BY Zenon, <3>1 DEF Seen, Done
  <2>6. c.state # "Completed" => ~Done(pos, c.digest)
    <3> SUFFICES ASSUME c.state # "Completed" PROVE ~Done(pos, c.digest)
      BY Zenon
    <3>1. Earlier(cells, pos + 1) = {}
      BY Zenon, <2>2, <2>4 DEF LegalCell
    <3>2. ~Seen(pos, c.digest)
      BY SMTT(60), <1>2, <3>1 DEF Earlier, Seen
    <3> QED BY Zenon, <3>2 DEF Seen, Done
  <2>7. idx \in [Digests -> {"none", First, "Completed"}]
    BY Zenon, <1>1 DEF LoopInv
  <2> HIDE DEF c
  <2>8. ASSUME NEW d \in Digests
        PROVE  idx'[d] = IF Done(pos + 1, d) THEN "Completed" ELSE IF Seen(pos + 1, d) THEN First ELSE "none"
    <3>1. idx[d] = IF Done(pos, d) THEN "Completed" ELSE IF Seen(pos, d) THEN First ELSE "none"
      BY Zenon, <1>1, <2>8 DEF LoopInv
    <3>2. CASE d = c.digest
      <4>1. idx'[d] = c.state
        BY Zenon, <2>1, <2>2, <2>7, <3>2
      <4> QED BY ZenonT(60), <2>4, <2>5, <2>6, <3>2, <4>1
    <3>3. CASE d # c.digest
      <4>1. idx'[d] = idx[d]
        BY Zenon, <2>1, <2>2, <2>7, <3>3
      <4> QED BY Zenon, <2>5, <3>1, <3>3, <4>1
    <3> QED BY Zenon, <3>2, <3>3
  <2>9. DOMAIN idx' = Digests /\ idx' = [d \in DOMAIN idx' |-> idx'[d]]
    BY ZenonT(60), <2>1, <2>7
  <2>10. idx' = [d \in Digests |-> IF Done(pos + 1, d) THEN "Completed"
                                  ELSE IF Seen(pos + 1, d) THEN First ELSE "none"]
    BY Zenon, <2>8, <2>9
  <2>11. LoopInv'
    <3>1. \A n, d : (Seen(n, d)' <=> Seen(n, d)) /\ (Done(n, d)' <=> Done(n, d))
      BY Zenon, <2>1 DEF Seen, Done
    <3>2. idx' = [d \in Digests |-> IF Done(pos, d)' THEN "Completed"
                                   ELSE IF Seen(pos, d)' THEN First ELSE "none"]
      BY ZenonT(60), <2>1, <2>10 DEF Seen, Done
    <3>3. pos' \in 0..Len(cells') /\ expected' = pos' + 1 /\ input' \in Seq(Raw)
      BY SMTT(60), <1>2, <2>1, <2>2
    <3> QED BY Zenon, <2>3, <3>2, <3>3 DEF LoopInv
  <2>12. OutcomeInv'
    <3>1. Cardinality(Entries(idx')) \in Nat
      <4>1. IsFiniteSet(Entries(idx'))
        BY Zenon, FS_Subset, FormatConstants, CellBound DEF Entries
      <4> QED BY Zenon, <4>1, FS_CardinalityType
    <3>2. MaxUnique \in Nat
      BY Zenon, FormatConstants, CellBound
    <3> QED BY SMTT(60), <1>1, <2>1, <3>1, <3>2 DEF OutcomeInv
  <2> QED BY <2>11, <2>12 DEF RecoveryInv
<1> QED BY Zenon, <1>3, <1>4, <1>5 DEF RecoveryNext

\* The loop of recover() ends with Ok on exactly the files that the format calls
\* recoverable, and returns their index and their last sequence number, for files of any
\* length and any number of digests (ledger.rs, recover).
THEOREM RecoveryAlwaysMeetsFormat == RecoverySpec => []LoopMeetsFormat
<1>1. RecoveryInv => LoopMeetsFormat
  <2> SUFFICES ASSUME RecoveryInv PROVE LoopMeetsFormat
    BY Zenon DEF LoopMeetsFormat
  <2>1. LoopInv /\ OutcomeInv /\ cells \in Seq(Raw) /\ Len(cells) \in Nat /\ pos \in Nat
    BY SMTT(60), CellsFacts DEF RecoveryInv, LoopInv
  <2>3. Entries(idx) \subseteq DigestsOf(cells)
    <3> SUFFICES ASSUME NEW d \in Digests, idx[d] # "none" PROVE \E i \in 1..Len(cells) : cells[i].digest = d
      BY Zenon DEF Entries, DigestsOf
    <3>1. Done(pos, d) \/ Seen(pos, d)
      BY Zenon, <2>1 DEF LoopInv
    <3>2. PICK i \in 1..pos : cells[i].digest = d
      BY Zenon, <3>1 DEF Seen, Done
    <3> QED BY SMTT(60), <2>1, <3>2 DEF LoopInv
  <2>4. IsFiniteSet(DigestsOf(cells)) /\ Cardinality(Entries(idx)) <= Cardinality(DigestsOf(cells))
        /\ Cardinality(DigestsOf(cells)) \in Nat /\ Cardinality(Entries(idx)) \in Nat
    <3>1. IsFiniteSet(DigestsOf(cells))
      BY Zenon, FS_Subset, FormatConstants, CellBound DEF DigestsOf
    <3> QED BY Zenon, <2>3, <3>1, FS_Subset, FS_CardinalityType
  <2>5. CASE result = "Ok"
    <3>1. pos = Len(cells) /\ \A i \in 1..Len(cells) : LegalCell(cells, i)
      BY Zenon, <2>1, <2>5 DEF OutcomeInv, LoopInv
    <3>2. idx = IndexOf(cells)
      BY Zenon, <2>1, <3>1 DEF LoopInv, IndexOf, Seen, Done
    <3>3. Entries(idx) = DigestsOf(cells)
      <4>1. First # "none"
        BY Zenon DEF First
      <4> QED BY Zenon, <3>2, <4>1 DEF Entries, DigestsOf, IndexOf
    <3>4. Recovers(input)
      <4>1. Len(input) <= MaxRecords /\ Cardinality(DigestsOf(cells)) <= MaxUnique
        BY Zenon, <2>1, <2>5, <3>3 DEF OutcomeInv
      <4>2. LegalFile(cells)
        BY Zenon, <3>1 DEF LegalFile
      <4> QED BY Zenon, <4>1, <4>2 DEF Recovers, cells
    <3> QED BY SMTT(60), <2>1, <2>5, <3>1, <3>2, <3>4 DEF LoopMeetsFormat, LoopInv, cells
  <2>6. CASE result = "Corrupt"
    <3>1. pos + 1 \in 1..Len(cells) /\ ~LegalCell(cells, pos + 1)
      BY SMTT(60), <2>1, <2>6 DEF OutcomeInv
    <3> QED BY Zenon, <2>6, <3>1 DEF LoopMeetsFormat, Recovers, LegalFile, cells
  <2>7. CASE result = "Capacity"
    <3>1. Len(input) > MaxRecords \/ Cardinality(Entries(idx)) > MaxUnique
      BY Zenon, <2>1, <2>7 DEF OutcomeInv
    <3>2. Len(input) \in Nat /\ MaxRecords \in Nat /\ MaxUnique \in Nat
      BY SMTT(60), <2>1, FormatConstants, CellBound DEF LoopInv, MaxRecords
    <3>3. ~Recovers(input)
      <4>1. ~(Len(input) <= MaxRecords /\ Cardinality(DigestsOf(cells)) <= MaxUnique)
        BY SMTT(60), <2>4, <3>1, <3>2
      <4> QED BY Zenon, <4>1 DEF Recovers, cells
    <3> QED BY Zenon, <2>7, <3>3 DEF LoopMeetsFormat
  <2> QED BY Zenon, <2>1, <2>5, <2>6, <2>7 DEF OutcomeInv, LoopMeetsFormat
<1> QED BY <1>1, LogStarts, LogStep, PTL DEF RecoverySpec

\* A replacement file: its cells enumerate the digests of the index, each once.
Enumerates(s, n, S) ==
  /\ s \in [1..n -> S] /\ \A i, j \in 1..n : s[i] = s[j] => i = j
  /\ \A d \in S : \E i \in 1..n : s[i] = d

LEMMA EnumerationExists ==
  ASSUME NEW S, IsFiniteSet(S), NEW n, n = Cardinality(S)
  PROVE  LET s == CHOOSE s \in [1..n -> S] : \A i, j \in 1..n : s[i] = s[j] => i = j IN
         n \in Nat /\ Enumerates(s, n, S)
<1> DEFINE P(s) == \A i, j \in 1..n : s[i] = s[j] => i = j
           s == CHOOSE x \in [1..n -> S] : P(x)
<1>1. n \in Nat /\ ExistsBijection(1..n, S)
  BY Zenon, FS_CardinalityType
<1>2. PICK f : f \in Bijection(1..n, S)
  BY Zenon, <1>1 DEF ExistsBijection
<1>3. f \in [1..n -> S] /\ P(f)
  BY <1>2, ZenonT(60) DEF Bijection, Injection, IsInjective
<1>4. s \in [1..n -> S] /\ P(s)
  <2> HIDE DEF P
  <2> QED BY Zenon, <1>3
<1>5. s \in Injection(1..n, S)
  BY <1>4, ZenonT(60) DEF Injection, IsInjective
<1>6. Cardinality(1..n) = n
  BY SMTT(60), <1>1, FS_Interval
<1> HIDE DEF s
<1>7. s \in Surjection(1..n, S)
  BY Zenon, <1>5, <1>6, FS_Injection
<1>8. Enumerates(s, n, S)
  BY Zenon, <1>4, <1>7 DEF Enumerates, Surjection
<1> QED BY Zenon, <1>1, <1>8 DEF s

LEMMA ImageFacts ==
  ASSUME RecoveryInv
  PROVE  \E n \in Nat : \E s :
           /\ n = Cardinality(Entries(idx)) /\ Enumerates(s, n, Entries(idx))
           /\ CompactImage(idx) = [i \in 1..n |-> [seq |-> i, state |-> idx[s[i]], digest |-> s[i]]]
<1> DEFINE S == {d \in Digests : idx[d] # "none"}
           n == Cardinality(S)
           s == CHOOSE s \in [1..n -> S] : \A i, j \in 1..n : s[i] = s[j] => i = j
<1>1. IsFiniteSet(S)
  BY Zenon, FS_Subset, FormatConstants, CellBound
<1>2. n = Cardinality(S)
  BY Zenon
<1>3. n \in Nat /\ Enumerates(s, n, S)
  <2> HIDE DEF n, S
  <2> QED BY SMTT(60), <1>1, <1>2, EnumerationExists
<1>4. S = Entries(idx)
  BY Zenon DEF Entries
<1>5. CompactImage(idx) = [i \in 1..n |-> [seq |-> i, state |-> idx[s[i]], digest |-> s[i]]]
  BY ZenonT(60) DEF CompactImage
<1> HIDE DEF S, n, s
<1> QED BY ZenonT(60), <1>2, <1>4, <1>5, <1>3

\* The file that compact_inner would write in place of a recovered one says the same of
\* every digest; and recovery would accept it exactly if no digest is Completed (ledger.rs,
\* compact_inner against recover).
THEOREM CompactionAlwaysKeepsState == RecoverySpec => []CompactionKeepsState
<1>1. RecoveryInv => CompactionKeepsState
  <2> SUFFICES ASSUME RecoveryInv, result = "Ok"
               PROVE  /\ IndexOf(CompactImage(idx)) = idx
                      /\ Recovers(CompactImage(idx)) <=> \A d \in Digests : idx[d] # "Completed"
    BY ZenonT(60) DEF CompactionKeepsState, CompactionKeepsState
  <2> DEFINE S == Entries(idx)
             f == CompactImage(idx)
  <2>1. PICK n, s : /\ n \in Nat /\ n = Cardinality(S) /\ Enumerates(s, n, S)
                    /\ f = [i \in 1..n |-> [seq |-> i, state |-> idx[s[i]], digest |-> s[i]]]
    BY SMTT(60), ImageFacts
  <2>2. S = {d \in Digests : idx[d] # "none"}
    BY Zenon DEF Entries
  <2>3. \A d \in Digests : idx[d] \in {"none", First, "Completed"}
    BY Zenon DEF RecoveryInv, LoopInv
  <2>4. DOMAIN idx = Digests /\ idx = [d \in Digests |-> idx[d]]
    BY Zenon DEF RecoveryInv, LoopInv
  <2>5. n <= MaxUnique /\ MaxUnique \in Nat
    BY ZenonT(60), <2>1, FormatConstants, CellBound DEF RecoveryInv, OutcomeInv
  <2> HIDE DEF S, f
  <2>6. Len(f) = n /\ \A i \in 1..n : f[i].seq = i /\ f[i].state = idx[s[i]] /\ f[i].digest = s[i]
    BY SMTT(60), <2>1
  <2>7. /\ \A i \in 1..n : s[i] \in Digests /\ idx[s[i]] \in {First, "Completed"}
        /\ \A d \in Digests : idx[d] # "none" => \E i \in 1..n : s[i] = d
        /\ \A i, j \in 1..n : s[i] = s[j] => i = j
    BY ZenonT(60), <2>1, <2>2, <2>3 DEF Enumerates
  <2>8. First \in {"LocalExcluded", "Reserved"} /\ First \in Permits
    BY Zenon DEF First, Permits
  <2>9. ASSUME NEW d \in Digests
        PROVE  /\ (\E i \in 1..Len(f) : f[i].digest = d) <=> idx[d] # "none"
               /\ (\E i \in 1..Len(f) : f[i].digest = d /\ f[i].state = "Completed") <=> idx[d] = "Completed"
    BY SMTT(60), <2>6, <2>7, <2>8, <2>9
  <2>10. IndexOf(f) = idx
    <3>1. ASSUME NEW d \in Digests
          PROVE  (IF idx[d] = "Completed" THEN "Completed" ELSE IF idx[d] # "none" THEN First ELSE "none") = idx[d]
      BY Zenon, <2>3, <3>1
    <3>2. IndexOf(f) = [d \in Digests |->
             IF idx[d] = "Completed" THEN "Completed" ELSE IF idx[d] # "none" THEN First ELSE "none"]
      BY Zenon, <2>9 DEF IndexOf
    <3> QED BY Zenon, <2>4, <3>1, <3>2
  <2>11. Whole(f) = f
    <3>1. f = <<>> \/ f[Len(f)].state # "torn"
      <4>1. CASE n = 0
        BY SMTT(60), <2>1, <4>1
      <4>2. CASE n # 0
        BY SMTT(60), <2>6, <2>7, <2>8, <4>2
      <4> QED BY ZenonT(60), <4>1, <4>2
    <3> QED BY <3>1, Zenon DEF Whole
  <2>12. ASSUME NEW i \in 1..n PROVE Earlier(f, i) = {}
    BY SMTT(60), <2>6, <2>7, <2>12 DEF Earlier
  <2>13. ASSUME NEW i \in 1..n PROVE LegalCell(f, i) <=> idx[s[i]] # "Completed"
    <3>1. CASE idx[s[i]] = "Completed"
      BY Zenon, <2>6, <2>12, <3>1 DEF LegalCell
    <3>2. CASE idx[s[i]] # "Completed"
      <4>1. f[i].state = First /\ f[i].state # "Completed" /\ f[i].seq = i
        BY ZenonT(60), <2>6, <2>7, <3>2
      <4> QED BY Zenon, <2>8, <2>12, <3>2, <4>1 DEF LegalCell
    <3> QED BY Zenon, <3>1, <3>2
  <2>14. LegalFile(f) <=> \A d \in Digests : idx[d] # "Completed"
    BY SMTT(60), <2>6, <2>7, <2>13 DEF LegalFile
  <2>15. Len(f) <= MaxRecords
    BY SMTT(60), <2>5, <2>6 DEF MaxRecords
  <2>16. DigestsOf(f) = S
    BY Zenon, <2>2, <2>9 DEF DigestsOf
  <2>17. Cardinality(DigestsOf(f)) <= MaxUnique
    BY Zenon, <2>1, <2>5, <2>16
  <2>18. Recovers(f) <=> \A d \in Digests : idx[d] # "Completed"
    BY <2>11, <2>14, <2>15, <2>17, Zenon DEF Recovers
  <2> QED BY Zenon, <2>10, <2>18 DEF f
<1> QED BY <1>1, LogStarts, LogStep, PTL DEF RecoverySpec
==============================================================================
