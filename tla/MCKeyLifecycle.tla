--------------------------- MODULE MCKeyLifecycle ---------------------------
(* Instances of KeyLifecycle for TLC.                                      *)
EXTENDS KeyLifecycle, TLC

\* Callers, contexts and keys are interchangeable.
Symmetry == Permutations(Kid) \cup Permutations(Context) \cup Permutations(Caller)
=============================================================================
