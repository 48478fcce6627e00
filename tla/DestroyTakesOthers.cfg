\* fido2 under the mutex of the FFI: two contexts.
CONSTANTS
  None = None
  Caller = {c1, c2}
  Context = {x1, x2}
  Kid = {k1, k2, k3}
  OneAtATime = TRUE
  Kind = {"fido2"}
SYMMETRY Symmetry
SPECIFICATION Spec
INVARIANT DestroyTakesOwnKeysOnly
