---------------------------- MODULE MCTokenBucket ----------------------------
(* TokenBucket for TLC: the goroutines that call Allow are interchangeable. *)
EXTENDS TokenBucket, TLC

UserSymmetry == Permutations(Users)
=============================================================================
