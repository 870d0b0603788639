---------------------------- MODULE MCOperations ----------------------------
(* Instances of Operations for TLC.                                        *)
EXTENDS Operations, TLC

CONSTANTS o1, o2, o3, k1, k2, c1

(* Three submissions of which two share a key; one of those is cancelled.  *)
ThreeTwoKeys == o1 :> k1 @@ o2 :> k2 @@ o3 :> k1
CancelFirst == c1 :> o1

(* Where writes fail, the third submission, of the first one's key, or the *)
(* Cancel takes place, not both: together they are too many states.        *)
MCNext == Next /\ (faulty => pc'[o3] = "new" \/ cpc'[c1] = "new")
MCSpec == Init /\ [][MCNext]_vars
=============================================================================
