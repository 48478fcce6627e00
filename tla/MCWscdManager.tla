--------------------------- MODULE MCWscdManager ---------------------------
(* Instances of WscdManager for TLC.                                       *)
EXTENDS WscdManager, TLC

CONSTANTS soft, tee, svc  \* softkey, an attesting platform plugin, r2ps

\* Signing and reading back a level are sent to r2ps unless the key is bound
\* elsewhere, as an operator may configure.
MCOpDefault ==
  [op \in Op |-> IF op \in {"sign", "security_properties"} THEN svc ELSE None]

\* The platform plugin reaches the dedicated hardware.
MCLevelsOf == [p \in Plugin |-> IF p = tee THEN {2} ELSE {0}]

MCCandidateLists == {<<>>, <<svc, tee>>, <<soft, tee>>}

KidSymmetry == Permutations(Kid)
=============================================================================
