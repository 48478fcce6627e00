CONSTANTS
  None = None
  Caller = {c1, c2}
  Entry <- MCEntry
  FactoryPin <- Alpha
  Model <- MCModel
  Data <- MCData
  HostFactor <- MCHostFactor
  MaxRetries = 2
  MaxConsecutive = 2
  MaxCalls = 3
  MaxFaults = 1
SYMMETRY Symmetry
SPECIFICATION Spec
INVARIANTS TypeOK RightPinIsAccepted CommandsAreUnderstood SignatureVerifies
  FactorIsBorneOut CapabilityIsKept CertificationIsTrue
  AttestationVerifies UnsuitableNeverEnrols
PROPERTIES PromptCostsOneAttempt
CHECK_DEADLOCK FALSE
