\* A softkey container imported where softkey is not the default plugin.
CONSTANTS
  None = None
  soft = soft
  tee = tee
  svc = svc
  Plugin = {soft, tee, svc}
  Kid = {k1, k2}
  DefaultPlugin = svc
  OpDefault <- MCOpDefault
  LevelsOf <- MCLevelsOf
  Service = {svc}
  Importer = {soft}
  WipesAll = {tee}
  NoCleanup = {}
  CandidateLists <- MCCandidateLists
  Asked = {1}
  Restorable = {tee}
  Container = {soft}
  Challenger = {tee}
  CallsBack <- MCCallsBack
SYMMETRY KidSymmetry
SPECIFICATION HostSpec
INVARIANT ImportedKeysRoutable
