\* The RFC 8176 values a WebAuthn signature records.
CONSTANTS
  None = None
  Caller = {c1}
  Context = {x1}
  PinMethod = {"pin_6_or_more_digits"}
  HostFactor <- MCHostFactor
  MaxAssertions = 1
SPECIFICATION Spec
INVARIANT AmrIsOfLastSign
