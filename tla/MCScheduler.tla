---------------------------- MODULE MCScheduler ----------------------------
(* Small instances of Scheduler: model values for targets, keys and Timer  *)
(* objects, which the specification treats alike, so they are symmetric.   *)
EXTENDS Scheduler, TLC

Symmetry == Permutations(Target) \cup Permutations(Key) \cup Permutations(Timer)
=============================================================================
