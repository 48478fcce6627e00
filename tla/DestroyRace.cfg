\* Softkey under concurrent callers: a destroy races a registration.
CONSTANTS
  None = None
  Caller = {c1, c2}
  Context = {x1, x2}
  Kid = {k1, k2, k3}
  OneAtATime = FALSE
  Kind = {"softkey"}
SYMMETRY Symmetry
SPECIFICATION Spec
INVARIANT ReRegisterNeverLeaks
