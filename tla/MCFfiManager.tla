---------------------------- MODULE MCFfiManager ----------------------------
(* Instances of FfiManager for TLC.                                        *)
EXTENDS FfiManager, TLC

CONSTANTS soft, tee, svc  \* softkey, a restorable platform plugin, r2ps

\* The FFI constructor takes no operation_defaults.
MCOpDefault == [op \in Op |-> None]
MCLevelsOf == [p \in Plugin |-> IF p = tee THEN {2} ELSE {0}]
MCCandidateLists == {<<tee, svc>>}
\* fido2 asks for a PIN, and talks to an authenticator; r2ps to its service.
MCCallsBack ==
  [p \in Plugin |-> CASE p = tee -> {"auth", "transport"}
                      [] p = svc -> {"transport"}
                      [] OTHER -> {}]

KidSymmetry == Permutations(Kid)
=============================================================================
