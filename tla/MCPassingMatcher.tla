-------------------------- MODULE MCPassingMatcher --------------------------
(* Two cars for TLC; either may come first. *)
EXTENDS PassingMatcher, TLC

CONSTANTS c1, c2, c3

AnyCar == Permutations(Cars)
=============================================================================
