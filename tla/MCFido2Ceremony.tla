-------------------------- MODULE MCFido2Ceremony --------------------------
(* Instances of Fido2Ceremony for TLC.                                     *)
EXTENDS Fido2Ceremony, TLC

\* A passphrase of seven code points, composed.
Alpha == [name |-> "alpha", utf8 |-> TRUE, nul |-> FALSE,
          bytes |-> 8, chars |-> 7, marks |-> 0]

\* The same text typed with a combining mark, eight code points that are seven
\* once composed; another PIN; one with a NUL.
MCEntry ==
  {[Alpha EXCEPT !.bytes = 9, !.chars = 8, !.marks = 1],
   [Alpha EXCEPT !.name = "beta"],
   [Alpha EXCEPT !.name = "with a NUL", !.nul = TRUE]}

Key5 == [ext |-> TRUE, arkg |-> TRUE, clientPin |-> TRUE, force |-> FALSE,
         protocols |-> <<2, 1>>, min |-> 4, attests |-> "chain", flagsUv |-> TRUE]

\* A security key; a phone; a key without the extension that asks for eight
\* code points, so that the PIN is too short for it once composed; keys that
\* cannot be enrolled, each for a reason.
MCModel ==
  {Key5,
   [Key5 EXCEPT !.arkg = FALSE, !.attests = "android", !.protocols = <<>>,
                !.flagsUv = FALSE],
   [Key5 EXCEPT !.ext = FALSE, !.min = 8],
   [Key5 EXCEPT !.clientPin = FALSE],
   [Key5 EXCEPT !.force = TRUE, !.attests = "none"],
   [Key5 EXCEPT !.protocols = <<3>>]}

\* A signing input as long as a digest, which is the one that can be confused
\* with a digest.
MCData == {[name |-> "challenge", len |-> 32]}
MCHostFactor == {[cat |-> "inherence", method |-> "fingerprint_device"],
                 [cat |-> "possession", method |-> "other"]}

Symmetry == Permutations(Caller)
=============================================================================
