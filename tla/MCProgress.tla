----------------------------- MODULE MCProgress -----------------------------
(***************************************************************************)
(* Two distributions.  The first goes to two peers and lists a third that  *)
(* is never discovered, so that it can fail while transfers run; the       *)
(* second has no peer at all.  One request to cancel the first, one        *)
(* subscriber, rings of two.                                               *)
(***************************************************************************)
EXTENDS Progress, TLC

CONSTANTS a, b, c1, s1

MCDists == {a, b}
MCTargets == (a :> 2 @@ b :> 0)
MCListed == {a}
MCMissing == (a :> 1 @@ b :> 0)
MCCancels == {c1}
MCAsks == (c1 :> a)
MCSubscribers == {s1}
MCFaulty == {a, c1}

\* A bundle whose distributions have all ended gets its final status, and its streams
\* close unless a ring overtook them (Progress: Finalised, StreamEnds).
BundleEnds == Finalised /\ StreamEnds
=============================================================================
