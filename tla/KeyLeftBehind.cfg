\* The orphan a kid collision leaves behind a success.
CONSTANTS
  None = None
  soft = soft
  tee = tee
  svc = svc
  Plugin = {soft, tee, svc}
  Kid = {k1, k2}
  DefaultPlugin = soft
  OpDefault <- MCOpDefault
  LevelsOf <- MCLevelsOf
  Service = {svc}
  Importer = {soft}
  WipesAll = {tee}
  NoCleanup = {tee}
  CandidateLists <- MCCandidateLists
  Asked = {1}
SYMMETRY KidSymmetry
SPECIFICATION Spec
INVARIANT NoKeyLeftBehindSuccess
