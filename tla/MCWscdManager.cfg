\* Three plugins, two kids, operation defaults that name another plugin than
\* the default one. No symmetry: CallReturns is a liveness property.
CONSTANTS
  None = None
  soft = soft
  tee = tee
  svc = svc
  Plugin = {soft, tee, svc}
  Kid = {k1, k2}
  DefaultPlugin = soft
  OpDefault <- MCOpDefault
  LevelsOf <- MCLevelsOf
  Service = {svc}
  Importer = {soft}
  WipesAll = {tee}
  NoCleanup = {tee}
  CandidateLists <- MCCandidateLists
  Asked = {1}
SPECIFICATION FairSpec
INVARIANTS TypeOK HandedKeyReachable NoOrphanBehindSuccess
PROPERTIES CallReturns CallAdvances AcceptedMeetsLevel BindingStable UnboundOnlyWhenGone
  KeepsDirectory
