---------------------------- MODULE JournalFormat ----------------------------
(***************************************************************************)
(* The on-disk format of a suppression journal (ledger.rs) and what        *)
(* recovery accepts.  A file is a header and a sequence of 80-byte cells.  *)
(* A cell carries the fields recovery looks at; a cell that ends early is  *)
(* "torn", and one of full length that its checksum does not match is      *)
(* "bad": recovery tells the two apart by the length alone.                *)
(***************************************************************************)
EXTENDS Integers, Sequences, FiniteSets

CONSTANTS
  Digests,      \* digests of (collection, document id) pairs
  Kind,         \* "Exclusion" or "Delivery": which of the two journals
  MaxUnique     \* MAX_UNIQUE_ENTRIES

ASSUME FormatConstants ==
  /\ IsFiniteSet(Digests)
  /\ Kind \in {"Exclusion", "Delivery"}
  /\ MaxUnique \in Nat \ {0}

Recorded == {"LocalExcluded", "Reserved", "Completed"}
Damaged == {"torn", "bad"}
Cell == [seq : Nat, state : Recorded \cup Damaged, digest : Digests]

(***************************************************************************)
(* JournalKind::permits, and the state a digest enters the journal with.   *)
(***************************************************************************)
Permits == IF Kind = "Exclusion" THEN {"LocalExcluded"}
                                 ELSE {"Reserved", "Completed"}
First == IF Kind = "Exclusion" THEN "LocalExcluded" ELSE "Reserved"

\* Wrong on purpose: room for one record less than two per digest.
MaxRecordsShort == 2 * MaxUnique - 1

MaxRecords == 2 * MaxUnique

-----------------------------------------------------------------------------
(***************************************************************************)
(* recover(): a torn last cell is cut off, every other cell must carry the *)
(* next sequence number, a permitted state, and a legal transition of its  *)
(* digest.  Recovery.tla is the loop as written; here it is stated by what *)
(* it accepts.                                                             *)
(***************************************************************************)
Whole(f) == IF f # <<>> /\ f[Len(f)].state = "torn"
            THEN SubSeq(f, 1, Len(f) - 1) ELSE f

Earlier(f, i) == {j \in 1..(i - 1) : f[j].digest = f[i].digest}

LegalCell(f, i) ==
  /\ f[i].seq = i
  /\ f[i].state \in Permits
  /\ f[i].state = First => Earlier(f, i) = {}
  /\ f[i].state = "Completed" =>
       /\ Earlier(f, i) # {}
       /\ \A j \in Earlier(f, i) : f[j].state = First

LegalFile(f) == \A i \in 1..Len(f) : LegalCell(f, i)

\* Wrong on purpose: recovery that offers uncertain reservations again.
IndexOfRetrying(f) ==
  [d \in Digests |->
     IF \E i \in 1..Len(f) : f[i].digest = d /\ f[i].state = "Completed"
     THEN "Completed" ELSE "none"]

IndexOf(f) ==
  [d \in Digests |->
     IF \E i \in 1..Len(f) : f[i].digest = d /\ f[i].state = "Completed"
     THEN "Completed"
     ELSE IF \E i \in 1..Len(f) : f[i].digest = d THEN First ELSE "none"]

DigestsOf(f) == {d \in Digests : \E i \in 1..Len(f) : f[i].digest = d}

Recovers(f) == /\ Len(f) <= MaxRecords
               /\ LegalFile(Whole(f))
               /\ Cardinality(DigestsOf(Whole(f))) <= MaxUnique

\* Wrong on purpose: the replacement is numbered from 0.
CompactImageFromZero(idx) ==
  LET present == {d \in Digests : idx[d] # "none"}
      n == Cardinality(present)
      order == CHOOSE s \in [1..n -> present] :
                 \A i, j \in 1..n : s[i] = s[j] => i = j
  IN  [i \in 1..n |-> [seq |-> i - 1, state |-> idx[order[i]], digest |-> order[i]]]

(***************************************************************************)
(* compact_inner's replacement file: one record per digest, in digest      *)
(* order, carrying the digest's current state, renumbered from 1.          *)
(***************************************************************************)
CompactImage(idx) ==
  LET present == {d \in Digests : idx[d] # "none"}
      n == Cardinality(present)
      order == CHOOSE s \in [1..n -> present] :
                 \A i, j \in 1..n : s[i] = s[j] => i = j
  IN  [i \in 1..n |-> [seq |-> i, state |-> idx[order[i]], digest |-> order[i]]]
=============================================================================
