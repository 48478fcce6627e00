CONSTANTS
  None = None
  Caller = {c1, c2}
  Attestation <- MCAttestation
  MaxKeys = 2
  MaxRestarts = 1
SPECIFICATION FairSpec
INVARIANTS TypeOK DeletedMeansGone NoSilentLeak ClaimsBorneOut
PROPERTIES DeletionEnds
