----------------------------- MODULE AtMostOnce -----------------------------
(***************************************************************************)
(* What the bridge promises about one-time effects: each item is done at   *)
(* most once, for ever, whatever crashes or races happen in between.       *)
(* Journal implements it for "this reservation was granted" and Delivery   *)
(* for "this document was handed to NATS".                                 *)
(***************************************************************************)
CONSTANT Items

VARIABLE times      \* how often each item was done

Init == times = [i \in Items |-> 0]

Do(i) == /\ times[i] = 0
         /\ times' = [times EXCEPT ![i] = 1]

Next == \E i \in Items : Do(i)

Spec == Init /\ [][Next]_times
=============================================================================
