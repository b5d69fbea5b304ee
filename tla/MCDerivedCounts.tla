---------------------------- MODULE MCDerivedCounts ----------------------------
(* Constants of the TLC instance of DerivedCounts. *)
EXTENDS DerivedCounts, TLC

CONSTANTS u1, u2, r1, r2, p1

ScenesOf == {{"follow", "unfollow"}, {"like"}, {"rate", "unrate"},
             {"review", "editReview", "dropReview"}, {"review", "editReview", "hideReview"},
             {"wish", "unwish"}}

Interchangeable == Permutations(Users) \cup Permutations(Procs)
=============================================================================
