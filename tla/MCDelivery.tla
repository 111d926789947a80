----------------------------- MODULE MCDelivery -----------------------------
(* Small instances of Delivery for TLC. *)
EXTENDS Delivery, TLC

CONSTANTS a, b, c

Good == [bounded |-> TRUE, parses |-> TRUE, kind |-> TRUE, version |-> TRUE,
         mapped |-> TRUE, subject |-> TRUE, local |-> FALSE, fits |-> TRUE]

\* Every document is eligible.
MCGood == [d \in Docs |-> Good]

\* The last one came back to the node that wrote it.
MCMixed == [d \in Docs |-> IF d = c THEN [Good EXCEPT !.local = TRUE] ELSE Good]
=============================================================================
