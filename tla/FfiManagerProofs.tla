-------------------------- MODULE FfiManagerProofs --------------------------
(***************************************************************************)
(* The manager's invariant survives its host: what FfiManager adds to      *)
(* WscdManager (restarts, exports, restores that fail half way, challenges *)
(* and errors raised from callbacks) keeps IInv, for every set of plugins  *)
(* and kids, every configuration and every set of callbacks.               *)
(***************************************************************************)
EXTENDS FfiManager, KeyDirectoryProofs

\* A blob lists keys its plugin has made: restoring it brings back no key of
\* another plugin.
SavedInv ==
  \A p \in Plugin : saved[p] # None => \A k \in saved[p] : minted[p][k] # None

HostInv == HostTypeOK /\ IInv /\ SavedInv /\ DeclineEndsTheCall

-----------------------------------------------------------------------------
(* Steps that are steps of the manager.                                    *)

LEMMA ManagerStepIsNext == ManagerStep => Next /\ UNCHANGED saved
BY DEF ManagerStep, GeneratingCalls, KeyCalls, LifecycleCalls, Next

LEMMA RegistrationIsNext ==
  ASSUME HostInv, NEW p \in Plugin, RegisterFresh(p) \/ ImportContainer(p)
  PROVE  Next
<1>1. {} \in SUBSET Kid /\ held[p] \in SUBSET Kid /\ TypeOK
  BY DEF HostInv, HostTypeOK, TypeOK
<1>2. CASE RegisterFresh(p)
  BY <1>1, <1>2 DEF RegisterFresh, Next
<1>3. CASE ImportContainer(p)
  <2>1. saved[p] \in SUBSET Kid
    BY <1>3 DEF ImportContainer, HostInv, HostTypeOK
  <2> QED BY <1>3, <2>1 DEF ImportContainer, Next
<1> QED BY <1>2, <1>3

LEMMA HostRaisesIsNext ==
  ASSUME NEW callback, NEW raised, HostRaises(callback, raised)
  PROVE  Next
BY DEF HostRaises, Next, GeneratingStep

\* What a plugin has made stays made.
LEMMA MintedStays ==
  ASSUME IInv, [Next]_vars
  PROVE  \A p \in Plugin, k \in Kid : minted[p][k] # None => minted'[p][k] # None
<1> SUFFICES ASSUME Next
             PROVE  \A p \in Plugin, k \in Kid :
                      minted[p][k] # None => minted'[p][k] # None
  BY DEF vars
<1>0. TypeOK /\ (cands # <<>> => Head(cands) \in Plugin)
  BY CandidateTypes DEF IInv, TypeOK
<1>1. ASSUME NEW p \in Plugin, NEW k \in Kid, NEW level \in Level,
             minted' = [minted EXCEPT ![p][k] = level]
      PROVE  \A q \in Plugin, j \in Kid : minted[q][j] # None => minted'[q][j] # None
  BY <1>0, <1>1, MintedUpdate
<1>2. ASSUME NEW k \in Kid, NEW level \in Level,
             Generated(k, level) \/ GeneratedInVain(k, level)
      PROVE  \A q \in Plugin, j \in Kid : minted[q][j] # None => minted'[q][j] # None
  <2>1. Head(cands) \in Plugin
    BY <1>0, <1>2 DEF Generated, GeneratedInVain, IInv, CallTypes
  <2>2. minted' = [minted EXCEPT ![Head(cands)][k] = level]
    BY <1>2 DEF Generated, GeneratedInVain
  <2> QED BY <1>1, <2>1, <2>2
<1>3. CASE Abort
  <2>1. CASE UNCHANGED minted
    BY <2>1
  <2>2. CASE pc = "generate" /\ \E k \in Kid, level \in LevelsOf[Head(cands)] :
               minted' = [minted EXCEPT ![Head(cands)][k] = level]
    <3>1. Head(cands) \in Plugin
      BY <1>0, <2>2 DEF IInv, CallTypes
    <3> QED BY <1>1, <2>2, <3>1, NoneIsNone
  <2> QED BY <1>3, <2>1, <2>2 DEF Abort
<1>4. ASSUME NEW k \in Kid, NEW new \in Kid, NEW target \in Plugin,
             MigrateKey(k, target, new)
      PROVE  \A q \in Plugin, j \in Kid : minted[q][j] # None => minted'[q][j] # None
  <2>1. CASE UNCHANGED minted
    BY <2>1
  <2>2. CASE \E level \in LevelsOf[target] :
               minted' = [minted EXCEPT ![target][new] = level]
    BY <1>1, <2>2, NoneIsNone
  <2> QED BY <1>4, <2>1, <2>2 DEF MigrateKey
<1>5. ASSUME NEW p \in Plugin, NEW k \in Kid, NEW level \in LevelsOf[p],
             LifecycleProvision(p, k, level)
      PROVE  \A q \in Plugin, j \in Kid : minted[q][j] # None => minted'[q][j] # None
  <2>1. level \in Level /\ minted' = [minted EXCEPT ![p][k] = level]
    BY <1>5, NoneIsNone DEF LifecycleProvision
  <2> QED BY <1>1, <2>1
<1>6. CASE UNCHANGED minted
  BY <1>6
<1>7. CASE GeneratingStep
  BY <1>2, <1>6, <1>7
     DEF GeneratingStep, NextCandidate, GenerateFails, GenerateStops, Accept, Shortfall,
         NotConfirmed, Reject, RejectedDeleted, RejectedDeleteFails
<1> QED
  BY <1>3, <1>4, <1>5, <1>6, <1>7
     DEF Next, RegisterPlugin, BindKeys, GenerateKey, GenerateKeyWithPlugin,
         GenerateKeyForLevel, StartGenerate, DeleteKey, LifecyclePurge

-----------------------------------------------------------------------------
(* Steps of the host's own.                                                *)

\* bind_keys binds to p what it binds at all, and everything if it succeeds.
LEMMA BindKidsBinds ==
  ASSUME TypeOK, NEW p \in Plugin, NEW kids \in SUBSET Kid, NEW j, BindKids(p, kids, j)
  PROVE  /\ bindings' \in [Kid -> Plugin \cup {None}]
         /\ \A k \in Kid : bindings'[k] = bindings[k]
                           \/ (k \in kids /\ bindings[k] = None /\ bindings'[k] = p)
         /\ outcome'.res = "ok" => \A k \in kids : bindings'[k] = p
         /\ outcome' \in {[res |-> "ok", kid |-> j], [res |-> "err", kid |-> None]}
<1>1. PICK bound \in SUBSET {k \in kids : MayBind(k, p)} :
        /\ {k \in kids : MayBind(k, p)} = kids => bound = kids
        /\ bindings' = [k \in Kid |-> IF k \in bound THEN p ELSE bindings[k]]
        /\ \/ /\ {k \in kids : MayBind(k, p)} = kids
              /\ outcome' = [res |-> "ok", kid |-> j]
           \/ outcome' = [res |-> "err", kid |-> None]
  BY DEF BindKids, Return
<1>2. \A k \in bound : bindings[k] \in {None, p}
  BY <1>1 DEF MayBind
<1> QED BY <1>1, <1>2 DEF TypeOK

\* A call that is not in progress keeps what IInv says of calls, if the step
\* reports a plain success or a plain error.
LEMMA IdleKeepsCalls ==
  ASSUME IInv, pc' = "idle", cands' \in Seq(Plugin), outcome'.res \in {"ok", "err"}
  PROVE  CallTypes' /\ CallInv' /\ LeftInv'
BY DEF CallTypes, CallInv, LeftInv, NoOrphanBehindSuccess

LEMMA RestoreKeeps ==
  ASSUME HostInv, NEW p \in Plugin, RegisterWithState(p)
  PROVE  IInv'
<1>1. /\ TypeOK /\ OriginInv /\ HandedInv /\ IInv
      /\ Idle /\ p \in Restorable /\ p \notin Service
      /\ saved[p] \in SUBSET Kid /\ \A k \in saved[p] : minted[p][k] # None
      /\ registered' = registered \cup {p} /\ held' = [held EXCEPT ![p] = saved[p]]
      /\ UNCHANGED <<callVars, minted, ctxKeys, left>>
  BY HostAssumption
     DEF RegisterWithState, Replace, HostInv, HostTypeOK, IInv, SavedInv
<1>2. /\ bindings' \in [Kid -> Plugin \cup {None}]
      /\ \A k \in Kid : bindings'[k] = bindings[k]
                        \/ (k \in saved[p] /\ bindings[k] = None /\ bindings'[k] = p)
      /\ outcome'.res = "ok" => \A k \in saved[p] : bindings'[k] = p
      /\ outcome' \in {[res |-> "ok", kid |-> None], [res |-> "err", kid |-> None]}
  BY <1>1, BindKidsBinds DEF RegisterWithState
<1>3. handed' = [k \in Kid |->
        IF outcome'.res = "ok" /\ k \in saved[p] \ ctxKeys[p] THEN p
        ELSE IF k \in Forgotten(p, saved[p]) THEN None ELSE handed[k]]
  BY DEF RegisterWithState
<1>4. TypeOK'
  BY <1>1, <1>2, <1>3 DEF TypeOK, callVars, Result
<1>5. OriginInv'
  BY <1>1, <1>2 DEF OriginInv, TypeOK
<1>6. HandedInv'
  <2> SUFFICES ASSUME NEW k \in Kid, handed'[k] # None
               PROVE  /\ bindings'[k] = handed'[k]
                      /\ handed'[k] \in registered'
                      /\ handed'[k] \notin WipesAll => k \in held'[handed'[k]]
                      /\ handed'[k] \notin Service => k \notin ctxKeys'[handed'[k]]
    BY DEF HandedInv
  <2>1. CASE outcome'.res = "ok" /\ k \in saved[p] \ ctxKeys[p]
    BY <1>1, <1>2, <1>3, <2>1 DEF TypeOK
  <2>2. CASE ~(outcome'.res = "ok" /\ k \in saved[p] \ ctxKeys[p])
    <3>1. handed'[k] = handed[k] /\ ~(handed[k] = p /\ k \notin saved[p])
      BY <1>3, <2>2 DEF Forgotten
    <3>2. /\ bindings[k] = handed[k] /\ handed[k] \in registered
          /\ handed[k] \notin WipesAll => k \in held[handed[k]]
          /\ handed[k] \notin Service => k \notin ctxKeys[handed[k]]
      BY <1>1, <3>1 DEF HandedInv
    <3>3. bindings'[k] = bindings[k]
      BY <1>2, <3>1, <3>2
    <3> QED BY <1>1, <3>1, <3>2, <3>3 DEF TypeOK
  <2> QED BY <2>1, <2>2
<1>7. CallTypes' /\ CallInv' /\ LeftInv'
  BY <1>1, <1>2, <1>4, IdleKeepsCalls DEF Idle, callVars, TypeOK
<1> QED BY <1>4, <1>5, <1>6, <1>7 DEF IInv

LEMMA ExportKeeps ==
  ASSUME HostInv, NEW p \in Plugin, ExportState(p)
  PROVE  IInv' /\ SavedInv'
<1>1. /\ IInv /\ TypeOK /\ SavedInv /\ saved \in [Plugin -> (SUBSET Kid) \cup {None}]
      /\ Idle /\ outcome' = [res |-> "ok", kid |-> None]
      /\ saved' = [saved EXCEPT ![p] = held[p]]
      /\ UNCHANGED <<registered, held, bindings, callVars, minted, ctxKeys, handed, left>>
  BY DEF ExportState, HostInv, HostTypeOK, Return
<1>2. TypeOK'
  BY <1>1 DEF TypeOK, callVars, Result
<1>3. OriginInv' /\ HandedInv'
  BY <1>1 DEF IInv, OriginInv, HandedInv
<1>4. CallTypes' /\ CallInv' /\ LeftInv'
  BY <1>1, <1>2, IdleKeepsCalls DEF Idle, callVars, TypeOK
<1>5. SavedInv'
  BY <1>1 DEF SavedInv, IInv, OriginInv, TypeOK
<1> QED BY <1>2, <1>3, <1>4, <1>5 DEF IInv

\* A key made with a challenge is as any other the plugin made and bound.
LEMMA ChallengeKeeps ==
  ASSUME HostInv, NEW p \in Plugin, NEW k \in Kid, NEW level \in LevelsOf[p],
         GenerateWithChallenge(p, k, level)
  PROVE  IInv' /\ SavedInv'
<1>1. /\ TypeOK /\ OriginInv /\ HandedInv /\ IInv /\ SavedInv
      /\ saved \in [Plugin -> (SUBSET Kid) \cup {None}]
      /\ Idle /\ p \in registered /\ p \notin Service /\ level \in Level
      /\ minted' = [minted EXCEPT ![p][k] = level]
      /\ held' = [held EXCEPT ![p] = @ \cup {k}]
      /\ UNCHANGED <<registered, callVars, ctxKeys, left, saved>>
  BY HostAssumption, NoneIsNone
     DEF GenerateWithChallenge, HostInv, HostTypeOK, IInv
<1>2. /\ bindings[k] = None /\ handed[k] = None
      /\ \A q \in Plugin : k \notin held[q] /\ k \notin ctxKeys[q]
  BY <1>1, FreshKid DEF GenerateWithChallenge
<1>3. /\ bindings' \in [Kid -> Plugin \cup {None}]
      /\ \A j \in Kid : bindings'[j] = bindings[j]
                        \/ (j \in {k} /\ bindings[j] = None /\ bindings'[j] = p)
      /\ outcome'.res = "ok" => \A j \in {k} : bindings'[j] = p
      /\ outcome' \in {[res |-> "ok", kid |-> k], [res |-> "err", kid |-> None]}
  <2>1. BindKids(p, {k}, k) /\ {k} \in SUBSET Kid
    BY DEF GenerateWithChallenge
  <2>2. /\ outcome'.res = "ok" => \A j \in {k} : bindings'[j] = p
        /\ outcome' \in {[res |-> "ok", kid |-> k], [res |-> "err", kid |-> None]}
    BY <1>1, <2>1, BindKidsBinds
  <2>3. /\ bindings' \in [Kid -> Plugin \cup {None}]
        /\ \A j \in Kid : bindings'[j] = bindings[j]
                          \/ (j \in {k} /\ bindings[j] = None /\ bindings'[j] = p)
    BY <1>1, <2>1, BindKidsBinds
  <2> QED BY <2>2, <2>3
<1>4. handed' = [handed EXCEPT ![k] = IF outcome'.res = "ok" THEN p ELSE @]
  BY DEF GenerateWithChallenge
<1>5. TypeOK'
  BY <1>1, <1>3, <1>4 DEF TypeOK, callVars, Result
<1>6. /\ minted'[p][k] # None
      /\ \A q \in Plugin, j \in Kid : minted[q][j] # None => minted'[q][j] # None
  <2>1. minted'[p][k] = level
    BY <1>1, MintedUpdate
  <2>2. \A q \in Plugin, j \in Kid : minted[q][j] # None => minted'[q][j] # None
    BY <1>1, MintedUpdate
  <2> QED BY <1>1, <2>1, <2>2, NoneIsNone
<1>7. OriginInv'
  <2>1. bindings' = bindings \/ bindings' = [bindings EXCEPT ![k] = p]
    <3>1. bindings \in [Kid -> Plugin \cup {None}]
      BY <1>1 DEF TypeOK
    <3>2. CASE bindings'[k] = p
      BY <1>3, <3>1, <3>2
    <3>3. CASE bindings'[k] = bindings[k]
      BY <1>3, <3>1, <3>3
    <3> QED BY <1>3, <3>2, <3>3
  <2> QED BY <1>1, <2>1, OriginMint
<1>8. HandedInv'
  <2> SUFFICES ASSUME NEW j \in Kid, handed'[j] # None
               PROVE  /\ bindings'[j] = handed'[j]
                      /\ handed'[j] \in registered'
                      /\ handed'[j] \notin WipesAll => j \in held'[handed'[j]]
                      /\ handed'[j] \notin Service => j \notin ctxKeys'[handed'[j]]
    BY DEF HandedInv
  <2>1. CASE j = k
    BY <1>1, <1>2, <1>3, <1>4, <2>1 DEF TypeOK
  <2>2. CASE j # k
    BY <1>1, <1>3, <1>4, <2>2 DEF TypeOK, HandedInv
  <2> QED BY <2>1, <2>2
<1>9. CallTypes' /\ CallInv' /\ LeftInv'
  BY <1>1, <1>3, <1>5, IdleKeepsCalls DEF Idle, callVars, TypeOK
<1>10. SavedInv'
  BY <1>1, <1>6 DEF SavedInv
<1> QED BY <1>5, <1>7, <1>8, <1>9, <1>10 DEF IInv

\* A new process has forgotten everything but its blobs and the service's keys.
LEMMA RestartKeeps ==
  ASSUME HostInv, Restart
  PROVE  IInv' /\ SavedInv'
<1>1. TypeOK /\ OriginInv /\ IInv /\ SavedInv
  BY DEF HostInv, IInv
<1>2. TypeOK'
  BY <1>1, ConfigAssumption DEF TypeOK, Restart, EndCall, Return, Result
<1>3. OriginInv' /\ HandedInv'
  BY <1>1 DEF OriginInv, HandedInv, Restart, TypeOK
<1>4. CallTypes' /\ CallInv' /\ LeftInv'
  BY <1>1, <1>2, IdleKeepsCalls DEF Restart, EndCall, Return, TypeOK
<1>5. SavedInv'
  BY <1>1 DEF SavedInv, Restart
<1> QED BY <1>2, <1>3, <1>4, <1>5 DEF IInv

-----------------------------------------------------------------------------
(* The invariant.                                                          *)

\* A refusal of the user's own prompt comes through its bridge as what it is.
LEMMA RefusalsArrive ==
  ASSUME NEW callback \in Prompting
  PROVE  Converted(callback, "AuthCancelled") = "AuthCancelled"
BY DEF Prompting, Converted, AuthError, SecureEnclaveError, Kept

LEMMA HostInitInv == HostInit => HostInv
<1> SUFFICES ASSUME HostInit PROVE HostInv
  OBVIOUS
<1>1. IInv
  BY InitIInv DEF HostInit
<1> QED
  BY <1>1 DEF HostInit, HostInv, HostTypeOK, IInv, SavedInv, DeclineEndsTheCall

LEMMA HostStepTypes ==
  ASSUME HostInv, [HostNext]_allVars, TypeOK'
  PROVE  HostTypeOK'
<1>1. HostTypeOK
  BY DEF HostInv
<1>2. CASE ManagerStep
  BY <1>1, <1>2 DEF ManagerStep, HostTypeOK
<1>3. ASSUME NEW p \in Plugin,
             \/ (RegisterFresh(p) \/ RegisterWithState(p)) /\ imported' = {}
             \/ ImportContainer(p),
             declined' = FALSE
      PROVE  HostTypeOK'
  <2>1. saved' = saved
    BY <1>3 DEF RegisterFresh, RegisterWithState, ImportContainer
  <2>2. imported' = {} \/ (saved[p] # None /\ imported' = saved[p])
    BY <1>3 DEF ImportContainer
  <2>3. imported' \in SUBSET Kid
    BY <1>1, <2>2 DEF HostTypeOK
  <2> QED BY <1>1, <1>3, <2>1, <2>3 DEF HostTypeOK
<1>4. ASSUME NEW p \in Plugin, ExportState(p), imported' = {}, declined' = FALSE
      PROVE  HostTypeOK'
  BY <1>1, <1>4 DEF ExportState, HostTypeOK, TypeOK
<1>5. CASE HostStep
  BY <1>1, <1>3, <1>4, <1>5
     DEF HostStep, HostTypeOK, GenerateWithChallenge, Restart
<1>6. ASSUME NEW callback, NEW raised, HostRaises(callback, raised) PROVE HostTypeOK'
  BY <1>1, <1>6 DEF HostRaises, HostTypeOK
<1>7. CASE UNCHANGED allVars
  BY <1>1, <1>7 DEF allVars, hostVars, HostTypeOK
<1> QED
  BY <1>2, <1>5, <1>6, <1>7 DEF HostNext

LEMMA HostStepDeclines ==
  ASSUME HostInv, [HostNext]_allVars
  PROVE  DeclineEndsTheCall'
<1>1. DeclineEndsTheCall
  BY DEF HostInv
<1>2. CASE ManagerStep
  BY <1>1, <1>2 DEF ManagerStep, DeclineEndsTheCall, Idle
<1>3. CASE HostStep
  BY <1>3 DEF HostStep, DeclineEndsTheCall
<1>4. ASSUME NEW callback, NEW raised, HostRaises(callback, raised), declined'
      PROVE  Idle' /\ outcome' = [res |-> "err", kid |-> None]
  <2>1. callback \in Prompting /\ raised = "AuthCancelled"
    BY <1>4 DEF HostRaises
  <2>2. GenerateStops("cancelled")
    BY <1>4, <2>1, RefusalsArrive DEF HostRaises
  <2> QED BY <2>2 DEF GenerateStops, EndCall, Return, Idle
<1>5. CASE UNCHANGED allVars
  BY <1>1, <1>5 DEF allVars, vars, hostVars, callVars, DeclineEndsTheCall, Idle
<1> QED BY <1>2, <1>3, <1>4, <1>5 DEF HostNext, DeclineEndsTheCall

LEMMA HostStepKeeps ==
  ASSUME HostInv, [HostNext]_allVars
  PROVE  IInv' /\ SavedInv'
<1>1. IInv /\ SavedInv
  BY DEF HostInv
<1>2. ASSUME [Next]_vars, UNCHANGED saved PROVE IInv' /\ SavedInv'
  BY <1>1, <1>2, NextIInv, MintedStays DEF SavedInv, HostInv, HostTypeOK
<1>3. CASE ManagerStep
  BY <1>2, <1>3, ManagerStepIsNext
<1>4. ASSUME NEW p \in Plugin, RegisterFresh(p) \/ ImportContainer(p)
      PROVE  IInv' /\ SavedInv'
  BY <1>2, <1>4, RegistrationIsNext DEF RegisterFresh, ImportContainer
<1>5. ASSUME NEW p \in Plugin, RegisterWithState(p) PROVE IInv' /\ SavedInv'
  BY <1>1, <1>5, RestoreKeeps DEF RegisterWithState, SavedInv
<1>6. CASE HostStep
  BY <1>4, <1>5, <1>6, ExportKeeps, ChallengeKeeps, RestartKeeps DEF HostStep
<1>7. ASSUME NEW callback, NEW raised, HostRaises(callback, raised)
      PROVE  IInv' /\ SavedInv'
  BY <1>2, <1>7, HostRaisesIsNext DEF HostRaises
<1>8. CASE UNCHANGED allVars
  BY <1>2, <1>8 DEF allVars, hostVars
<1> QED BY <1>3, <1>6, <1>7, <1>8 DEF HostNext

LEMMA HostNextInv == HostInv /\ [HostNext]_allVars => HostInv'
<1> SUFFICES ASSUME HostInv, [HostNext]_allVars PROVE HostInv'
  OBVIOUS
<1>1. IInv' /\ SavedInv' /\ DeclineEndsTheCall'
  BY HostStepKeeps, HostStepDeclines
<1>2. HostTypeOK'
  BY <1>1, HostStepTypes DEF IInv
<1> QED BY <1>1, <1>2 DEF HostInv

LEMMA HostInductive == HostSpec => []HostInv
BY HostInitInv, HostNextInv, PTL DEF HostSpec

-----------------------------------------------------------------------------
(* The theorems.                                                           *)

\* Manager and host stay in well-typed states across restarts, restores and
\* errors; only plugins whose state ffi.rs exports ever have a blob.
THEOREM HostTypesCorrect == HostSpec => []HostTypeOK
<1>1. HostInv => HostTypeOK
  BY DEF HostInv
<1> QED BY <1>1, HostInductive, PTL

\* A key a call of the FFI returned, or a restore brought back, stays routed to
\* its plugin and held by it (register_*_plugin_with_state, bind_keys).
THEOREM HostKeepsHandedKeys == HostSpec => []HandedKeyReachable
<1>1. HostInv => HandedKeyReachable
  BY HandedIsReachable DEF HostInv
<1> QED BY <1>1, HostInductive, PTL

\* A prompt the user declines ends the generating call, whatever candidates
\* are left (map_err of AuthCallbackBridge, secure_enclave_callback_error).
THEOREM DeclinesEndTheCall == HostSpec => []DeclineEndsTheCall
<1>1. HostInv => DeclineEndsTheCall
  BY DEF HostInv
<1> QED BY <1>1, HostInductive, PTL

\* No restore, no challenge and no restart re-routes a kid that stays bound.
THEOREM HostKeepsBindings == HostSpec => BindingStable
<1> DEFINE Stable == \A k \in Kid : bindings[k] # None /\ bindings'[k] # None
                                     => bindings'[k] = bindings[k]
<1>1. HostInv /\ [HostNext]_allVars => [Stable]_vars
  <2> SUFFICES ASSUME HostInv, [HostNext]_allVars PROVE [Stable]_vars
    OBVIOUS
  <2>1. ASSUME [Next]_vars PROVE [Stable]_vars
    BY <2>1, BindingStep DEF HostInv
  <2>2. ASSUME NEW p \in Plugin, RegisterWithState(p) PROVE Stable
    <3>1. TypeOK /\ saved[p] \in SUBSET Kid
      BY <2>2 DEF RegisterWithState, HostInv, HostTypeOK
    <3> QED BY <2>2, <3>1, BindKidsBinds DEF RegisterWithState
  <2>3. ASSUME NEW p \in Plugin, NEW k \in Kid, NEW level, GenerateWithChallenge(p, k, level)
        PROVE  Stable
    BY <2>3, BindKidsBinds DEF GenerateWithChallenge, HostInv, HostTypeOK
  <2>4. ASSUME NEW p \in Plugin, ExportState(p) PROVE Stable
    BY <2>4 DEF ExportState
  <2>5. CASE Restart
    BY <2>5 DEF Restart
  <2>6. CASE HostStep
    BY <2>1, <2>2, <2>3, <2>4, <2>5, <2>6, RegistrationIsNext DEF HostStep
  <2>7. CASE UNCHANGED allVars
    BY <2>7 DEF allVars
  <2> QED BY <2>1, <2>6, <2>7, ManagerStepIsNext, HostRaisesIsNext DEF HostNext
<1> QED BY <1>1, HostInductive, PTL DEF HostSpec, BindingStable

-----------------------------------------------------------------------------
(* The directory over restarts.                                            *)

\* The directory of the manager and the one a process of the host is while it
\* lives have the same steps.
LEMMA SameDirectory == Directory!Next <=> DirectoryOfHost!Next
BY DEF Directory!Next, Directory!NoKey, Directory!Issue, Directory!Withdraw,
       Directory!Forget, Directory!Send, Directory!Lose, Directory!Success,
       Directory!NoSuccess, DirectoryOfHost!Next, DirectoryOfHost!NoKey,
       DirectoryOfHost!Issue, DirectoryOfHost!Withdraw, DirectoryOfHost!Forget,
       DirectoryOfHost!Send, DirectoryOfHost!Lose, DirectoryOfHost!Success,
       DirectoryOfHost!NoSuccess

\* A key made for a context is in no blob, so that no step of the manager
\* changes what the blobs bring back.
LEMMA BlobsStay ==
  ASSUME HostInv, [Next]_vars, UNCHANGED saved
  PROVE  OwnKeysSaved' = OwnKeysSaved
<1>1. CASE UNCHANGED ctxKeys
  BY <1>1 DEF OwnKeysSaved
<1>2. ASSUME NEW p \in Plugin, NEW k \in Kid, NEW level \in LevelsOf[p],
             LifecycleProvision(p, k, level)
      PROVE  OwnKeysSaved' = OwnKeysSaved
  <2>1. ctxKeys' = [ctxKeys EXCEPT ![p] = @ \cup {k}]
    BY <1>2 DEF LifecycleProvision
  <2>2. saved[p] = None \/ k \notin saved[p]
    BY <1>2 DEF LifecycleProvision, CanMint, HostInv, SavedInv
  <2>3. ctxKeys \in [Plugin -> SUBSET Kid]
    BY DEF HostInv, IInv, TypeOK
  <2>4. \A q \in Plugin : saved[q] # None => saved[q] \ ctxKeys'[q] = saved[q] \ ctxKeys[q]
    BY <2>1, <2>2, <2>3
  <2> QED BY <2>4 DEF OwnKeysSaved
<1>3. CASE GeneratingStep
  BY <1>1, <1>3
     DEF GeneratingStep, NextCandidate, Generated, GeneratedInVain, GenerateFails,
         GenerateStops, Accept, Shortfall, NotConfirmed, Reject, RejectedDeleted,
         RejectedDeleteFails
<1> QED
  BY <1>1, <1>2, <1>3
     DEF Next, RegisterPlugin, BindKeys, GenerateKey, GenerateKeyWithPlugin,
         GenerateKeyForLevel, StartGenerate, Abort, DeleteKey, MigrateKey,
         LifecyclePurge, vars

\* What a step of the manager is to the directory of its host.
LEMMA ManagerStepOfHost ==
  ASSUME HostInv, UntoldInv, [Next]_vars, UNCHANGED saved
  PROVE  [DirectoryOfHost!HostNext]_(DirectoryOfHost!hostDirVars)
<1>1. OwnKeysSaved' = OwnKeysSaved
  BY BlobsStay
<1>2. Directory!Next \/ UNCHANGED <<handed, bindings, Answer>>
  BY DirectoryStep DEF HostInv, Directory!dirVars
<1>3. CASE Directory!Next
  BY <1>1, <1>3, SameDirectory DEF DirectoryOfHost!HostNext
<1>4. CASE UNCHANGED <<handed, bindings, Answer>>
  BY <1>1, <1>4 DEF DirectoryOfHost!hostDirVars, DirectoryOfHost!dirVars
<1> QED BY <1>2, <1>3, <1>4

\* What a plugin had issued and its blob holds is what its new instance has.
LEMMA ForgottenIsLost ==
  ASSUME HostInv, NEW p \in Restorable, saved[p] # None, NEW k \in Kid
  PROVE  k \in Forgotten(p, saved[p]) <=>
           k \in DirectoryOfHost!IssuedBy(p) \ OwnKeysSaved[p]
<1>1. p \in Plugin /\ p \notin Service
  BY HostAssumption
<1>2. handed[k] = p => k \notin ctxKeys[p]
  BY <1>1, NoneIsNone DEF HostInv, IInv, HandedInv
<1> QED BY <1>1, <1>2 DEF Forgotten, OwnKeysSaved, DirectoryOfHost!IssuedBy

\* A restore.
LEMMA RestoreOfHost ==
  ASSUME HostInv, NEW p \in Plugin, RegisterWithState(p)
  PROVE  DirectoryOfHost!HostNext
<1>1. /\ p \in Restorable /\ saved[p] # None
      /\ saved[p] \in SUBSET Kid
      /\ OwnKeysSaved[p] = saved[p] \ ctxKeys[p]
      /\ OwnKeysSaved' = OwnKeysSaved
  BY DEF RegisterWithState, HostInv, HostTypeOK, OwnKeysSaved
<1>2. PICK bound \in SUBSET {k \in saved[p] : MayBind(k, p)} :
        /\ {k \in saved[p] : MayBind(k, p)} = saved[p] => bound = saved[p]
        /\ bindings' = [k \in Kid |-> IF k \in bound THEN p ELSE bindings[k]]
        /\ \/ /\ {k \in saved[p] : MayBind(k, p)} = saved[p]
              /\ outcome' = [res |-> "ok", kid |-> None]
           \/ outcome' = [res |-> "err", kid |-> None]
  BY DEF RegisterWithState, BindKids, Return
<1>3. bound \in SUBSET Kid /\ \A k \in bound : bindings[k] \in {None, p}
  BY <1>1, <1>2 DEF MayBind
<1>4. handed' = [k \in Kid |->
        IF outcome'.res = "ok" /\ k \in OwnKeysSaved[p] THEN p
        ELSE DirectoryOfHost!Kept(p)[k]]
  BY <1>1, ForgottenIsLost DEF RegisterWithState, DirectoryOfHost!Kept
<1>5. CASE {k \in saved[p] : MayBind(k, p)} = saved[p] /\ outcome' = [res |-> "ok", kid |-> None]
  <2>1. OwnKeysSaved[p] \subseteq bound
    BY <1>1, <1>2, <1>5
  <2>2. Answer' = DirectoryOfHost!Success(None)
    BY <1>5 DEF Answer, DirectoryOfHost!Success
  <2>3. handed' = [k \in Kid |-> IF k \in OwnKeysSaved[p] THEN p
                                 ELSE DirectoryOfHost!Kept(p)[k]]
    BY <1>4, <1>5
  <2>4. DirectoryOfHost!Restore(p, bound)
    BY <1>1, <1>2, <1>3, <2>1, <2>2, <2>3 DEF DirectoryOfHost!Restore
  <2> QED BY <1>3, <2>4 DEF DirectoryOfHost!HostNext
<1>6. CASE outcome' = [res |-> "err", kid |-> None]
  <2>1. Answer' = DirectoryOfHost!NoSuccess
    BY <1>6 DEF Answer, DirectoryOfHost!NoSuccess
  <2>2. handed' = DirectoryOfHost!Kept(p)
    BY <1>4, <1>6 DEF DirectoryOfHost!Kept
  <2>3. DirectoryOfHost!Restore(p, bound)
    BY <1>1, <1>2, <1>3, <2>1, <2>2 DEF DirectoryOfHost!Restore
  <2> QED BY <1>3, <2>3 DEF DirectoryOfHost!HostNext
<1> QED BY <1>2, <1>5, <1>6

\* An export has every key its plugin has issued and holds.
LEMMA ExportOfHost ==
  ASSUME HostInv, NEW p \in Plugin, ExportState(p)
  PROVE  DirectoryOfHost!HostNext
<1> DEFINE S == held[p] \ ctxKeys[p]
<1>1. /\ saved \in [Plugin -> (SUBSET Kid) \cup {None}]
      /\ held[p] \in SUBSET Kid /\ held[p] # None
      /\ p \notin Service
  <2>1. saved \in [Plugin -> (SUBSET Kid) \cup {None}]
    BY DEF HostInv, HostTypeOK
  <2>2. held[p] \in SUBSET Kid
    BY DEF HostInv, IInv, TypeOK
  <2>3. p \in Restorable \cup Container
    BY DEF ExportState
  <2> QED BY <2>1, <2>2, <2>3, HostAssumption
<1>2. p \notin WipesAll => DirectoryOfHost!IssuedBy(p) \subseteq S
  BY <1>1, NoneIsNone DEF HostInv, IInv, HandedInv, DirectoryOfHost!IssuedBy
<1>3. OwnKeysSaved' = [OwnKeysSaved EXCEPT ![p] = S]
  <2>1. saved'[p] = held[p] /\ \A q \in Plugin \ {p} : saved'[q] = saved[q]
    BY <1>1 DEF ExportState
  <2> QED BY <1>1, <2>1 DEF OwnKeysSaved, ExportState
<1>4. Answer' = DirectoryOfHost!Success(None)
  BY DEF ExportState, Return, Answer, DirectoryOfHost!Success
<1>5. DirectoryOfHost!Persist(p, S)
  BY <1>2, <1>3, <1>4 DEF DirectoryOfHost!Persist, ExportState
<1> QED BY <1>1, <1>5 DEF DirectoryOfHost!HostNext

\* A key made with a challenge is issued.
LEMMA ChallengeOfHost ==
  ASSUME HostInv, NEW p \in Plugin, NEW k \in Kid, NEW level \in LevelsOf[p],
         GenerateWithChallenge(p, k, level)
  PROVE  DirectoryOfHost!HostNext
<1>1. TypeOK /\ IInv /\ p \notin Service
  BY HostAssumption DEF GenerateWithChallenge, HostInv, IInv
<1>2. bindings[k] = None
  BY <1>1, FreshKid DEF GenerateWithChallenge
<1>3. {j \in {k} : MayBind(j, p)} = {k}
  BY <1>2 DEF MayBind
<1>4. bindings' = [bindings EXCEPT ![k] = p] /\ outcome' = [res |-> "ok", kid |-> k]
  BY <1>1, <1>3 DEF GenerateWithChallenge, BindKids, Return, TypeOK
<1>5. DirectoryOfHost!Issue(k, p)
  BY <1>1, <1>2, <1>4
     DEF GenerateWithChallenge, Answer, DirectoryOfHost!Issue, DirectoryOfHost!Success
<1>6. OwnKeysSaved' = OwnKeysSaved
  BY DEF GenerateWithChallenge, OwnKeysSaved
<1> QED BY <1>5, <1>6 DEF DirectoryOfHost!HostNext, DirectoryOfHost!Next

\* The death of the process.
LEMMA RestartOfHost == Restart => DirectoryOfHost!HostNext
<1> SUFFICES ASSUME Restart PROVE DirectoryOfHost!Restart
  BY DEF DirectoryOfHost!HostNext
<1>1. Answer' = DirectoryOfHost!Success(None)
  BY DEF Restart, Return, Answer, DirectoryOfHost!Success
<1>2. OwnKeysSaved' = OwnKeysSaved
  BY DEF Restart, OwnKeysSaved
<1> QED BY <1>1, <1>2 DEF Restart, DirectoryOfHost!Restart

LEMMA HostDirectoryStep ==
  HostInv /\ UntoldInv /\ [HostNext]_allVars =>
    [DirectoryOfHost!HostNext]_(DirectoryOfHost!hostDirVars)
<1> SUFFICES ASSUME HostInv, UntoldInv, [HostNext]_allVars
             PROVE  [DirectoryOfHost!HostNext]_(DirectoryOfHost!hostDirVars)
  OBVIOUS
<1>1. CASE ManagerStep
  BY <1>1, ManagerStepIsNext, ManagerStepOfHost
<1>2. ASSUME NEW p \in Plugin, RegisterFresh(p) \/ ImportContainer(p)
      PROVE  [DirectoryOfHost!HostNext]_(DirectoryOfHost!hostDirVars)
  BY <1>2, RegistrationIsNext, ManagerStepOfHost DEF RegisterFresh, ImportContainer
<1>3. CASE HostStep
  BY <1>2, <1>3, RestoreOfHost, ExportOfHost, ChallengeOfHost, RestartOfHost DEF HostStep
<1>4. ASSUME NEW callback, NEW raised, HostRaises(callback, raised)
      PROVE  [DirectoryOfHost!HostNext]_(DirectoryOfHost!hostDirVars)
  BY <1>4, HostRaisesIsNext, ManagerStepOfHost DEF HostRaises
<1>5. CASE UNCHANGED allVars
  BY <1>5, ManagerStepOfHost DEF allVars, hostVars
<1> QED BY <1>1, <1>3, <1>4, <1>5 DEF HostNext

\* Every host step leaves no call in progress, or is one of the manager.
LEMMA HostUntold == HostInv /\ UntoldInv /\ [HostNext]_allVars => UntoldInv'
<1> SUFFICES ASSUME HostInv, UntoldInv, [HostNext]_allVars PROVE UntoldInv'
  OBVIOUS
<1>1. ASSUME [Next]_vars PROVE UntoldInv'
  BY <1>1, UntoldStep DEF HostInv
<1>2. CASE pc' = "idle"
  BY <1>2 DEF UntoldInv
<1>3. ASSUME NEW p \in Plugin, RegisterFresh(p) \/ ImportContainer(p)
      PROVE  UntoldInv'
  BY <1>1, <1>3, RegistrationIsNext
<1>4. CASE HostStep
  BY <1>2, <1>3, <1>4
     DEF HostStep, RegisterWithState, ExportState, GenerateWithChallenge, Restart,
         EndCall, Idle, callVars
<1>5. CASE UNCHANGED allVars
  BY <1>1, <1>5 DEF allVars
<1> QED BY <1>1, <1>4, <1>5, ManagerStepIsNext, HostRaisesIsNext DEF HostNext

\* Over exports, restores that fail half way, restarts in the middle of a call
\* and everything the manager does in between, the FFI is HostDirectory: what
\* an export held is issued again and routed by a restore, or by none.
THEOREM FfiIsADirectory == HostSpec => KeepsHostDirectory
<1>1. HostInit => UntoldInv
  BY DEF HostInit, Init, UntoldInv
<1>2. HostSpec => [](HostInv /\ UntoldInv)
  BY <1>1, HostInitInv, HostNextInv, HostUntold, PTL DEF HostSpec
<1>3. HostInit => DirectoryOfHost!HostInit
  BY DEF HostInit, Init, Answer, OwnKeysSaved, DirectoryOfHost!HostInit,
         DirectoryOfHost!Init, DirectoryOfHost!Success
<1> QED
  BY <1>2, <1>3, HostDirectoryStep, PTL
     DEF HostSpec, KeepsHostDirectory, DirectoryOfHost!HostSpec

(***************************************************************************)
(* What a host may conclude from it.                                       *)
(***************************************************************************)

\* No step of the directory, a restart or a restore that fails half way
\* included, leaves an issued key routed elsewhere.
LEMMA HostDirectoryKeeps ==
  DirectoryInv /\ [DirectoryOfHost!HostNext]_(DirectoryOfHost!hostDirVars) =>
    DirectoryInv'
<1> SUFFICES ASSUME DirectoryInv,
                    [DirectoryOfHost!HostNext]_(DirectoryOfHost!hostDirVars)
             PROVE  DirectoryInv'
  OBVIOUS
<1> USE DEF Directory!TypeOK, Directory!IssuedIsRouted
<1>1. CASE DirectoryOfHost!Next \/ UNCHANGED DirectoryOfHost!hostDirVars
  <2>1. [Directory!Next]_(Directory!dirVars)
    BY <1>1, SameDirectory
       DEF DirectoryOfHost!hostDirVars, DirectoryOfHost!dirVars, Directory!dirVars
  <2> QED BY <2>1, DirectoryKeeps
<1>2. CASE DirectoryOfHost!Restart
  BY <1>2, KeylessAnswer
     DEF DirectoryInv, DirectoryOfHost!Restart, DirectoryOfHost!Success, Directory!Success
<1>3. ASSUME NEW p \in Plugin, NEW S \in SUBSET Kid, DirectoryOfHost!Persist(p, S)
      PROVE  DirectoryInv'
  BY <1>3, KeylessAnswer
     DEF DirectoryInv, DirectoryOfHost!Persist, DirectoryOfHost!Success, Directory!Success
<1>4. ASSUME NEW p \in Plugin, NEW S \in SUBSET Kid, DirectoryOfHost!Restore(p, S)
      PROVE  DirectoryInv'
  <2>1. /\ bindings' = [k \in Kid |-> IF k \in S THEN p ELSE bindings[k]]
        /\ \A k \in Kid : bindings[k] # None => bindings'[k] = bindings[k]
    BY <1>4 DEF DirectoryInv, DirectoryOfHost!Restore
  <2>2. \A k \in Kid : DirectoryOfHost!Kept(p)[k] # None =>
                          DirectoryOfHost!Kept(p)[k] = handed[k]
    BY DEF DirectoryOfHost!Kept
  <2>3. \A k \in Kid : handed'[k] # None =>
          \/ k \in S /\ handed'[k] = p
          \/ handed'[k] = handed[k] /\ handed[k] # None
    BY <1>4, <2>2 DEF DirectoryOfHost!Restore
  <2>4. Directory!IssuedIsRouted'
    BY <2>1, <2>3 DEF DirectoryInv
  <2>5. /\ handed' \in [Kid -> Plugin \cup {None}]
        /\ bindings' \in [Kid -> Plugin \cup {None}]
    BY <1>4, <2>1 DEF DirectoryInv, DirectoryOfHost!Restore, DirectoryOfHost!Kept
  <2>6. Directory!AnswerIsIssued'
    BY <1>4, KeylessAnswer
       DEF DirectoryOfHost!Restore, DirectoryOfHost!Success, Directory!Success,
           DirectoryOfHost!NoSuccess, Directory!NoSuccess
  <2> QED BY <2>4, <2>5, <2>6 DEF DirectoryInv
<1> QED BY <1>1, <1>2, <1>3, <1>4 DEF DirectoryOfHost!HostNext

\* Whatever the host has persisted, restored and lost, in any life of its
\* process a key the FFI has given it is routed to the plugin that made it, and
\* so is the key the latest call returned.
THEOREM HostIsServed ==
  HostSpec => [](Directory!IssuedIsRouted /\ Directory!AnswerIsIssued)
<1>1. DirectoryOfHost!HostInit => DirectoryInv
  BY DirectoryInit
     DEF DirectoryOfHost!HostInit, DirectoryOfHost!Init, Directory!Init,
         DirectoryOfHost!Success, Directory!Success
<1>2. DirectoryOfHost!HostSpec => []DirectoryInv
  BY <1>1, HostDirectoryKeeps, PTL DEF DirectoryOfHost!HostSpec
<1>3. DirectoryInv => Directory!IssuedIsRouted /\ Directory!AnswerIsIssued
  BY DEF DirectoryInv
<1> QED BY <1>2, <1>3, FfiIsADirectory, PTL DEF KeepsHostDirectory

\* The host cannot make a call go on forever either: what it raises from a
\* callback ends the attempt, and its own steps start no call.
THEOREM HostCallsAdvance == HostSpec => CallAdvances
<1>1. HostInv /\ [HostNext]_allVars =>
        [pc # "idle" => pc' = "idle" \/ StepsLeft' < StepsLeft]_vars
  <2> SUFFICES ASSUME HostInv, [HostNext]_allVars, pc # "idle"
               PROVE  \/ pc' = "idle" \/ StepsLeft' < StepsLeft
                      \/ UNCHANGED vars
    OBVIOUS
  <2>1. CASE [Next]_vars
    BY <2>1, AdvanceStep DEF HostInv
  <2>2. CASE HostStep
    BY <2>2
       DEF HostStep, RegisterFresh, ImportContainer, RegisterPlugin,
           RegisterWithState, ExportState, GenerateWithChallenge, Restart,
           EndCall, Idle
  <2> QED
    BY <2>1, <2>2, ManagerStepIsNext, HostRaisesIsNext DEF HostNext, allVars
<1> QED BY <1>1, HostInductive, PTL DEF HostSpec, CallAdvances

(***************************************************************************)
(* The extent of what an import leaves unbound.                            *)
(***************************************************************************)

\* A kid of a local plugin was made once and by nobody else.
MintedOnce ==
  \A p, q \in Plugin : \A k \in Kid :
    minted[p][k] # None /\ minted[q][k] # None =>
      p = q \/ p \in Service \/ q \in Service

\* What a step makes is one key at most, by a plugin that can.
LEMMA MintsOne ==
  ASSUME HostInv, [HostNext]_allVars
  PROVE  \/ UNCHANGED minted
         \/ \E p \in Plugin, k \in Kid, level \in Level :
              CanMint(p, k) /\ minted' = [minted EXCEPT ![p][k] = level]
<1>0. /\ cands # <<>> => Head(cands) \in Plugin
      /\ \A p \in Plugin : LevelsOf[p] \subseteq Level
  BY CandidateTypes, NoneIsNone DEF HostInv, IInv, TypeOK
<1>1. ASSUME NEW k \in Kid, NEW level \in Level,
             Generated(k, level) \/ GeneratedInVain(k, level)
      PROVE  /\ Head(cands) \in Plugin
             /\ CanMint(Head(cands), k)
             /\ minted' = [minted EXCEPT ![Head(cands)][k] = level]
  BY <1>0, <1>1 DEF Generated, GeneratedInVain, HostInv, IInv, CallTypes
<1>2. CASE GeneratingStep
  BY <1>1, <1>2
     DEF GeneratingStep, NextCandidate, GenerateFails, GenerateStops, Accept,
         Shortfall, NotConfirmed, Reject, RejectedDeleted, RejectedDeleteFails
<1>3. CASE Abort
  BY <1>0, <1>3 DEF Abort, HostInv, IInv, CallTypes
<1>4. ASSUME NEW k \in Kid, NEW new \in Kid, NEW target \in Plugin,
             MigrateKey(k, target, new)
      PROVE  \/ UNCHANGED minted
             \/ \E level \in Level : /\ CanMint(target, new)
                                     /\ minted' = [minted EXCEPT ![target][new] = level]
  BY <1>0, <1>4 DEF MigrateKey
<1>5. ASSUME NEW p \in Plugin, NEW k \in Kid, NEW level \in LevelsOf[p],
             LifecycleProvision(p, k, level) \/ GenerateWithChallenge(p, k, level)
      PROVE  /\ CanMint(p, k)
             /\ minted' = [minted EXCEPT ![p][k] = level]
  BY <1>5 DEF LifecycleProvision, GenerateWithChallenge
<1>6. CASE Next
  BY <1>0, <1>2, <1>3, <1>4, <1>5, <1>6
     DEF Next, RegisterPlugin, BindKeys, GenerateKey, GenerateKeyWithPlugin,
         GenerateKeyForLevel, StartGenerate, DeleteKey, LifecyclePurge
<1>7. CASE HostStep
  BY <1>0, <1>5, <1>7
     DEF HostStep, ImportContainer, RegisterFresh, RegisterPlugin,
         RegisterWithState, ExportState, Restart
<1>8. CASE UNCHANGED allVars
  BY <1>8 DEF allVars, vars
<1> QED BY <1>6, <1>7, <1>8, ManagerStepIsNext, HostRaisesIsNext DEF HostNext

LEMMA MintedOnceStep == HostInv /\ MintedOnce /\ [HostNext]_allVars => MintedOnce'
<1> SUFFICES ASSUME HostInv, MintedOnce, [HostNext]_allVars PROVE MintedOnce'
  OBVIOUS
<1>1. CASE UNCHANGED minted
  BY <1>1 DEF MintedOnce
<1>2. ASSUME NEW p \in Plugin, NEW k \in Kid, NEW level \in Level,
             CanMint(p, k), minted' = [minted EXCEPT ![p][k] = level]
      PROVE  MintedOnce'
  <2>1. \A q \in Plugin, j \in Kid :
          minted'[q][j] # None => minted[q][j] # None \/ (q = p /\ j = k)
    BY <1>2 DEF HostInv, IInv, TypeOK
  <2>2. p \in Service \/ \A q \in Plugin : minted[q][k] = None
    BY <1>2 DEF CanMint
  <2> QED BY <2>1, <2>2 DEF MintedOnce
<1> QED BY <1>1, <1>2, MintsOne

\* Where signing defaults to the plugin whose container is imported, and no
\* remote service takes its kids, import_softkey_container need not bind: a test
\* with softkey as the default plugin cannot find the missing bindings.
THEOREM ImportsOfTheDefaultRoute ==
  ASSUME Container \subseteq {DefaultPlugin}, OpDefault["sign"] = None, Service = {}
  PROVE  HostSpec => []ImportedKeysRoutable
<1>1. HostInit => MintedOnce /\ ImportedKeysRoutable
  BY DEF HostInit, Init, MintedOnce, ImportedKeysRoutable
<1>2. HostInv /\ MintedOnce /\ ImportedKeysRoutable /\ [HostNext]_allVars =>
        ImportedKeysRoutable'
  <2> SUFFICES ASSUME HostInv, MintedOnce, ImportedKeysRoutable, [HostNext]_allVars
               PROVE  ImportedKeysRoutable'
    OBVIOUS
  <2>1. CASE imported' = {}
    BY <2>1 DEF ImportedKeysRoutable
  <2>2. ASSUME NEW p \in Plugin, ImportContainer(p)
        PROVE  ImportedKeysRoutable'
    <3>1. /\ p = DefaultPlugin
          /\ saved[p] \in SUBSET Kid
          /\ bindings' = bindings /\ imported' = saved[p]
      BY <2>2 DEF ImportContainer, RegisterPlugin, HostInv, HostTypeOK
    <3>2. \A k \in saved[p] : bindings[k] \in {None, p}
      <4> SUFFICES ASSUME NEW k \in saved[p], bindings[k] # None
                   PROVE  bindings[k] = p
        OBVIOUS
      <4>1. k \in Kid /\ bindings[k] \in Plugin
        BY <3>1 DEF HostInv, IInv, TypeOK
      <4>2. minted[bindings[k]][k] # None
        BY <4>1 DEF HostInv, IInv, OriginInv
      <4>3. minted[p][k] # None
        BY <2>2 DEF ImportContainer, HostInv, SavedInv
      <4> QED BY <4>1, <4>2, <4>3 DEF MintedOnce
    <3> QED BY <3>1, <3>2, NoneIsNone DEF ImportedKeysRoutable, ResolveForKey
  <2>3. CASE UNCHANGED allVars
    BY <2>3 DEF allVars, vars, hostVars, ImportedKeysRoutable, ResolveForKey
  <2> QED BY <2>1, <2>2, <2>3 DEF HostNext, ManagerStep, HostStep, HostRaises
<1> QED BY <1>1, <1>2, HostInductive, MintedOnceStep, PTL DEF HostSpec
=============================================================================
