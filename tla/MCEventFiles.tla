---------------------------- MODULE MCEventFiles ----------------------------
(* Three events, two requests at once, four writes. *)
EXTENDS EventFiles, TLC

CONSTANTS a, b, c, r1, r2

Symmetry == Permutations({a, b, c}) \cup Permutations({r1, r2})
=============================================================================
