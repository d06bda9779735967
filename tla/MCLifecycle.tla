---------------------------- MODULE MCLifecycle ----------------------------
(* A small instance of LiveNetLifecycle for TLC. *)
EXTENDS LiveNetLifecycle, TLC

StartTimesValue == {1}
Symmetry == Permutations(Rooms) \cup Permutations(Occurrences)
=============================================================================
