--------------------------- MODULE MCPlatformKeys ---------------------------
(* An instance of PlatformKeys for TLC.                                    *)
EXTENDS PlatformKeys

\* StrongBox with a chain, the TEE with a leaf only, which is no chain, and
\* a level the platform did not say.
MCAttestation ==
  {[level |-> "StrongBox", certs |-> 2], [level |-> "TrustedExecution", certs |-> 1],
   [level |-> "Unknown", certs |-> 2]}
=============================================================================
