------------------------------ MODULE Recovery ------------------------------
(***************************************************************************)
(* The loop of recover() (ledger.rs), one cell per step, on an arbitrary   *)
(* file.  Its outcome is compared with what JournalFormat states recovery  *)
(* to accept, which is what Journal uses.                                  *)
(***************************************************************************)
EXTENDS JournalFormat

CONSTANT MaxCells    \* bound: length of the files given to recovery

ASSUME CellBound == MaxCells \in Nat

VARIABLES
  input,      \* the file, as read
  pos,        \* complete cells consumed so far
  expected,   \* expected_sequence
  idx,        \* the index being built
  result      \* "running", "Ok", "Corrupt" or "Capacity"

recoveryVars == <<input, pos, expected, idx, result>>

Files == UNION {[1..n -> [seq : 1..MaxCells,
                          state : Recorded \cup Damaged,
                          digest : Digests]] : n \in 0..MaxCells}

\* Journal::open rejects an oversized file before recovery reads it.
RecoveryInit ==
  /\ input \in Files
  /\ pos = 0 /\ expected = 1
  /\ idx = [d \in Digests |-> "none"]
  /\ result = IF Len(input) > MaxRecords THEN "Capacity" ELSE "running"

\* complete_len / RECORD_LEN: a trailing partial record is not decoded.
CompleteCells == Len(Whole(input))

\* Wrong on purpose: record_inner's transition check used in recovery.
LegalNextAsRecorded(c) ==
  /\ c.state \in Recorded
  /\ c.seq = expected
  /\ c.state \in Permits
  /\ \/ idx[c.digest] = "none"
     \/ idx[c.digest] = "Reserved" /\ c.state = "Completed"

\* decode_record, then the sequence, permits and transition checks.
LegalNext(c) ==
  /\ c.state \in Recorded
  /\ c.seq = expected
  /\ c.state \in Permits
  /\ \/ idx[c.digest] = "none" /\ c.state \in {"LocalExcluded", "Reserved"}
     \/ idx[c.digest] = "Reserved" /\ c.state = "Completed"

Entries(ix) == {d \in Digests : ix[d] # "none"}

Accept ==
  /\ result = "running" /\ pos < CompleteCells
  /\ LegalNext(input[pos + 1])
  /\ expected' = expected + 1
  /\ idx' = [idx EXCEPT ![input[pos + 1].digest] = input[pos + 1].state]
  /\ result' = IF Cardinality(Entries(idx')) > MaxUnique THEN "Capacity"
                                                         ELSE "running"
  /\ pos' = pos + 1
  /\ UNCHANGED input

Reject ==
  /\ result = "running" /\ pos < CompleteCells
  /\ ~LegalNext(input[pos + 1])
  /\ result' = "Corrupt"
  /\ UNCHANGED <<input, pos, expected, idx>>

Finish ==
  /\ result = "running" /\ pos = CompleteCells
  /\ result' = "Ok"
  /\ UNCHANGED <<input, pos, expected, idx>>

RecoveryNext == Accept \/ Reject \/ Finish

RecoverySpec == RecoveryInit /\ [][RecoveryNext]_recoveryVars

-----------------------------------------------------------------------------
(***************************************************************************)
(* The loop of recover() accepts exactly the files that JournalFormat      *)
(* calls recoverable, and then returns their index, their last sequence    *)
(* number and their record count (ledger.rs:690-716).                      *)
(***************************************************************************)
LoopMeetsFormat ==
  /\ result = "Ok" => /\ Recovers(input)
                      /\ idx = IndexOf(Whole(input))
                      /\ expected - 1 = Len(Whole(input))
  /\ result \in {"Corrupt", "Capacity"} => ~Recovers(input)

(***************************************************************************)
(* The replacement file that compact_inner writes holds the state of every *)
(* digest, and recovery accepts it unless some digest is Completed: its    *)
(* only record is then one recovery takes for a skipped Reserved           *)
(* (ledger.rs:617-656 against ledger.rs:690-707).                          *)
(***************************************************************************)
CompactionKeepsState ==
  result = "Ok" =>
    LET image == CompactImage(idx) IN
    /\ IndexOf(image) = idx
    /\ Recovers(image) <=> \A d \in Digests : idx[d] # "Completed"
=============================================================================
