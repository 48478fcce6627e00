---------------------------- MODULE MCR2psPlugin ----------------------------
(* Instances of R2psPlugin for TLC.                                        *)
EXTENDS R2psPlugin, TLC

\* A host may vouch for a biometric or for a PIN it asked for itself, and may
\* try to vouch for a key.
MCHostFactor ==
  {[cat |-> "possession", method |-> "key_in_local_native_wscd"],
   [cat |-> "inherence", method |-> "fingerprint_device"],
   [cat |-> "knowledge", method |-> "pin_6_or_more_digits"]}

Symmetry == Permutations(Caller)
=============================================================================
