\* Two callers, overlapping or not, one context.
CONSTANTS
  None = None
  Caller = {c1, c2}
  Context = {x1}
  PinMethod = {"pin_6_or_more_digits", "passphrase_8_to_11_chars"}
  HostFactor <- MCHostFactor
  MaxAssertions = 2
SYMMETRY Symmetry
SPECIFICATION Spec
INVARIANTS TypeOK PinFactorIsOfThisSign CeremonyBearsOutFactor CapabilityIsKept
  ActiveMeansAuthenticated DestroyIsNotOptimistic HeldForOneCeremony
