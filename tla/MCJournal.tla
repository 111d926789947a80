------------------------------ MODULE MCJournal ------------------------------
(* Small instances of Journal: a few digests, two callers. *)
EXTENDS Journal
=============================================================================
