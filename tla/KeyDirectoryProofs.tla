------------------------- MODULE KeyDirectoryProofs -------------------------
(***************************************************************************)
(* The manager is a directory of keys to its host: WscdManager implements  *)
(* KeyDirectory, for every set of plugins and kids, every configuration    *)
(* and every candidate list.                                               *)
(***************************************************************************)
EXTENDS WscdManagerProofs

(***************************************************************************)
(* What the mapping needs beyond IInv.                                     *)
(***************************************************************************)

\* A call in progress has told its host nothing, and the key it may yet
\* delete is one the host was never given.
UntoldInv ==
  /\ pc # "idle" => outcome = [res |-> "pending", kid |-> None]
  /\ pc \in {"confirm", "reject"} /\ Head(cands) \notin Service =>
       handed[cur] = None

\* It holds when a call starts, and no step of the call breaks it.
LEMMA UntoldStep == IInv /\ UntoldInv /\ [Next]_vars => UntoldInv'
<1> SUFFICES ASSUME IInv, UntoldInv, [Next]_vars PROVE UntoldInv'
  OBVIOUS
<1>0. TypeOK /\ (cands # <<>> => Head(cands) \in Plugin)
  BY CandidateTypes DEF IInv, TypeOK
<1>1. CASE Idle /\ UNCHANGED callVars
  BY <1>1 DEF UntoldInv, Idle, callVars
<1>2. ASSUME NEW cs, NEW level, StartGenerate(cs, level) PROVE UntoldInv'
  BY <1>2 DEF StartGenerate, UntoldInv, Return
<1>3. CASE EndCall
  BY <1>3 DEF EndCall, UntoldInv
<1>4. CASE AttemptFailed /\ pc # "idle"
  BY <1>4, <1>3 DEF AttemptFailed, UntoldInv
<1>5. CASE NextCandidate
  <2>1. CASE pc' = "generate" /\ UNCHANGED outcome
    BY <1>5, <2>1 DEF NextCandidate, UntoldInv
  <2> QED BY <1>5, <2>1, <1>3, <1>4 DEF NextCandidate
<1>6. ASSUME NEW k \in Kid, NEW level \in Level, Generated(k, level)
      PROVE  UntoldInv'
  <2>1. Head(cands) \in Plugin
    BY <1>6, <1>0 DEF Generated, IInv, CallTypes
  <2>2. Head(cands) \notin Service => handed[k] = None
    BY <1>6, <2>1, FreshKid DEF Generated
  <2>3. CASE pc' = "confirm" /\ cur' = k /\ UNCHANGED <<cands, outcome, handed>>
    BY <1>6, <2>2, <2>3 DEF Generated, UntoldInv
  <2> QED BY <1>6, <2>3, <1>3 DEF Generated
<1>7. ASSUME NEW k \in Kid, NEW level \in Level, GeneratedInVain(k, level)
      PROVE  UntoldInv'
  BY <1>7, <1>4 DEF GeneratedInVain
<1>8. CASE Shortfall \/ NotConfirmed
  BY <1>8 DEF Shortfall, NotConfirmed, Reject, UntoldInv
<1>9. CASE GeneratingStep
  BY <1>9, <1>3, <1>4, <1>5, <1>6, <1>7, <1>8
     DEF GeneratingStep, GenerateFails, GenerateStops, Accept, RejectedDeleted,
         RejectedDeleteFails
<1>10. CASE Next
  BY <1>10, <1>1, <1>2, <1>3, <1>9
     DEF Next, RegisterPlugin, BindKeys, GenerateKey, GenerateKeyWithPlugin,
         GenerateKeyForLevel, Abort, DeleteKey, MigrateKey, LifecycleProvision,
         LifecyclePurge
<1>11. CASE UNCHANGED vars
  BY <1>11 DEF vars, callVars, UntoldInv
<1> QED BY <1>10, <1>11

(***************************************************************************)
(* Steps of the manager as steps of the directory.                         *)
(***************************************************************************)

\* A result with success is the directory's success, one without its failure.
LEMMA AnswerOf ==
  ASSUME NEW res, NEW k, Return(res, k)
  PROVE  /\ res \in {"ok", "accepted"} => Answer' = Directory!Success(k)
         /\ res \notin {"ok", "accepted"} /\ k = None =>
              Answer' = Directory!NoSuccess
BY DEF Return, Answer, Directory!Success, Directory!NoSuccess

\* While a call is in progress the directory's answer is a failure.
LEMMA AnswerUntold ==
  ASSUME UntoldInv, pc # "idle"
  PROVE  Answer = Directory!NoSuccess
BY DEF UntoldInv, Answer, Directory!NoSuccess

\* A step that touches neither table and returns no key is one to the directory.
LEMMA QuietStep ==
  ASSUME NEW res \in Result, Return(res, None), UNCHANGED <<handed, bindings>>
  PROVE  Directory!Next
BY AnswerOf DEF Directory!Next, Directory!NoKey

\* Failing attempts show nothing to the host, unless they end its call.
LEMMA FailedAttempt ==
  ASSUME UntoldInv, pc # "idle", AttemptFailed
  PROVE  Answer' = Directory!NoSuccess
<1>1. CASE Return("err", None)
  BY <1>1, AnswerOf
<1>2. CASE UNCHANGED outcome
  BY <1>2, AnswerUntold DEF Answer
<1> QED BY <1>1, <1>2 DEF AttemptFailed

\* Every step of the manager is a step of the directory, or shows it nothing.
LEMMA DirectoryStep ==
  IInv /\ UntoldInv /\ [Next]_vars => [Directory!Next]_(Directory!dirVars)
<1> SUFFICES ASSUME IInv, UntoldInv, [Next]_vars
             PROVE  Directory!Next \/ UNCHANGED <<handed, bindings, Answer>>
  BY DEF Directory!dirVars
<1>0. TypeOK /\ (cands # <<>> => Head(cands) \in Plugin)
  BY CandidateTypes DEF IInv, TypeOK
<1>1. CASE UNCHANGED <<handed, bindings, outcome>>
  BY <1>1 DEF Answer
<1>2. ASSUME NEW res \in Result, Return(res, None), UNCHANGED <<handed, bindings>>
      PROVE  Directory!Next
  BY <1>2, QuietStep
<1>3. CASE AttemptFailed /\ UNCHANGED <<handed, bindings>>
  BY <1>1, <1>2, <1>3 DEF AttemptFailed, Result
<1>4. ASSUME NEW p \in Plugin, NEW S \in SUBSET Kid, RegisterPlugin(p, S)
      PROVE  Directory!Next
  <2>1. Directory!Lose(Forgotten(p, S), p)
    BY <1>4, AnswerOf DEF RegisterPlugin, Forgotten, Directory!Lose
  <2>2. Forgotten(p, S) \in SUBSET Kid
    BY DEF Forgotten
  <2> QED BY <2>1, <2>2 DEF Directory!Next
<1>5. ASSUME NEW p \in Plugin, BindKeys(p) PROVE Directory!Next
  <2>1. PICK bound \in SUBSET {k \in held[p] : MayBind(k, p)} :
          /\ bindings' = [k \in Kid |-> IF k \in bound THEN p ELSE bindings[k]]
          /\ \E res \in {"ok", "err"} : Return(res, None)
    BY <1>5 DEF BindKeys, BindKids
  <2>2. Answer' \in {Directory!Success(None), Directory!NoSuccess}
    BY <2>1, AnswerOf
  <2>3. bound \in SUBSET Kid /\ Directory!Send(bound, p)
    BY <1>5, <1>0, <2>1, <2>2 DEF BindKeys, MayBind, TypeOK, Directory!Send
  <2> QED BY <2>3 DEF Directory!Next
<1>6. ASSUME NEW k \in Kid, NEW level \in Level, Generated(k, level)
      PROVE  Directory!Next
  <2> DEFINE p == Head(cands)
  <2>1. p \in Plugin
    BY <1>6, <1>0 DEF Generated, IInv, CallTypes
  <2>2. CASE handed' = [handed EXCEPT ![k] = p] /\ Return("ok", k)
    <3>1. Directory!Issue(k, p)
      BY <1>6, <2>2, AnswerOf DEF Generated, MayBind, Directory!Issue
    <3> QED BY <2>1, <3>1 DEF Directory!Next
  <2>3. CASE UNCHANGED <<outcome, handed>>
    <3>1. Answer' = Directory!NoSuccess
      BY <1>6, <2>3, AnswerUntold DEF Generated, Answer
    <3>2. bindings' = [j \in Kid |-> IF j \in {k} THEN p ELSE bindings[j]]
      BY <1>6, <1>0 DEF Generated, TypeOK
    <3>3. Directory!Send({k}, p)
      BY <1>6, <2>3, <3>1, <3>2 DEF Generated, MayBind, Directory!Send
    <3> QED BY <2>1, <3>3 DEF Directory!Next
  <2> QED BY <1>6, <2>2, <2>3 DEF Generated
<1>7. CASE Accept
  <2>1. /\ cur \in Kid
        /\ bindings[cur] = Head(cands)
        /\ Head(cands) \in Plugin
    BY <1>0, <1>7 DEF Accept, IInv, CallInv
  <2>2. bindings' = [bindings EXCEPT ![cur] = Head(cands)]
    BY <1>0, <1>7, <2>1 DEF Accept, TypeOK
  <2>3. Directory!Issue(cur, Head(cands))
    BY <1>7, <2>1, <2>2, AnswerOf DEF Accept, Directory!Issue
  <2> QED BY <2>1, <2>3 DEF Directory!Next
<1>8. CASE RejectedDeleted
  <2>1. cur \in Kid /\ handed[cur] = None
    <3>1. ResolveForKey(cur, "delete") = Head(cands)
      BY <1>0, <1>8, NoneIsNone
         DEF RejectedDeleted, IInv, CallInv, ResolveForKey
    <3> QED BY <1>8, <3>1 DEF RejectedDeleted, Removed, IInv, CallInv, UntoldInv
  <2>2. handed' = handed
    BY <1>0, <1>8, <2>1 DEF RejectedDeleted, Removed, TypeOK
  <2>3. Directory!Forget(cur)
    BY <1>8, <2>1, <2>2, FailedAttempt
       DEF RejectedDeleted, Removed, Directory!Forget
  <2> QED BY <2>1, <2>3 DEF Directory!Next
<1>9. ASSUME NEW k \in Kid, DeleteKey(k) PROVE Directory!Next
  <2>1. CASE Removed(ResolveForKey(k, "delete"), k) /\ Return("ok", None)
    <3>1. Directory!Withdraw(k)
      BY <2>1, AnswerOf DEF Removed, Directory!Withdraw
    <3> QED BY <3>1 DEF Directory!Next
  <2>2. CASE Return("err", None) /\ UNCHANGED <<bindings, handed>>
    BY <2>2, <1>2 DEF Result
  <2> QED BY <1>9, <2>1, <2>2 DEF DeleteKey
<1>10. ASSUME NEW k \in Kid, NEW new \in Kid, NEW target \in Plugin,
              MigrateKey(k, target, new)
       PROVE  Directory!Next
  <2>1. CASE Return("err", None) /\ UNCHANGED <<bindings, handed>>
    BY <2>1, <1>2 DEF Result
  <2>2. CASE /\ target \in Importer
             /\ CanMint(target, new)
             /\ bindings' = [bindings EXCEPT ![new] = target]
             /\ handed' = [handed EXCEPT ![new] = target]
             /\ Return("ok", new)
    <3>1. bindings[new] = None
      BY <2>2, FreshKid, ImporterAssumption
    <3>2. Directory!Issue(new, target)
      BY <2>2, <3>1, AnswerOf DEF Directory!Issue
    <3> QED BY <3>2 DEF Directory!Next
  <2> QED BY <1>10, <2>1, <2>2 DEF MigrateKey
<1>11. CASE \/ GenerateKey
            \/ \E p \in Plugin : GenerateKeyWithPlugin(p)
            \/ \E cs \in CandidateLists, level \in Asked :
                 GenerateKeyForLevel(cs, level)
  BY <1>11, <1>2 DEF GenerateKey, GenerateKeyWithPlugin, GenerateKeyForLevel,
       StartGenerate, Result
<1>12. CASE \/ NextCandidate
            \/ \E k \in Kid, level \in Level : GeneratedInVain(k, level)
            \/ GenerateFails
            \/ \E err \in {"cancelled", "pin", "unconfirmed"} : GenerateStops(err)
            \/ Shortfall
            \/ NotConfirmed
            \/ RejectedDeleteFails
  BY <1>12, <1>1, <1>2, <1>3
     DEF NextCandidate, GeneratedInVain, GenerateFails, GenerateStops,
         Shortfall, NotConfirmed, Reject, RejectedDeleteFails, Result
<1>13. CASE \/ Abort
            \/ \E p \in Plugin, k \in Kid : \E level \in LevelsOf[p] :
                 LifecycleProvision(p, k, level)
            \/ \E p \in Plugin, S \in SUBSET Kid : LifecyclePurge(p, S)
  BY <1>13, <1>2 DEF Abort, LifecycleProvision, LifecyclePurge, Result
<1>14. CASE UNCHANGED vars
  BY <1>14, <1>1 DEF vars
<1> QED
  BY <1>4, <1>5, <1>6, <1>7, <1>8, <1>9, <1>10, <1>11, <1>12, <1>13, <1>14
     DEF Next, GeneratingStep

(***************************************************************************)
(* The refinement, and what a host may conclude from it.                   *)
(***************************************************************************)

\* The steps of generate_key_on, generate_key_for_level, delete_key,
\* migrate_key, bind_keys and register_plugin look to a host like those of a
\* directory: keys are issued at once, and only the host takes them back.
THEOREM ManagerIsADirectory == Spec => KeepsDirectory
<1>1. Init => UntoldInv
  BY DEF Init, UntoldInv
<1>2. Spec => [](IInv /\ UntoldInv)
  BY <1>1, InitIInv, NextIInv, UntoldStep, PTL DEF Spec
<1>3. Init => Directory!Init
  BY DEF Init, Directory!Init, Directory!Success, Answer
<1> QED BY <1>2, <1>3, DirectoryStep, PTL DEF Spec, KeepsDirectory, Directory!Spec

\* What a directory keeps: its tables agree on every key a host was given, and
\* the latest answer names such a key.
DirectoryInv ==
  Directory!TypeOK /\ Directory!IssuedIsRouted /\ Directory!AnswerIsIssued

\* Every directory starts so.
LEMMA DirectoryInit == Directory!Init => DirectoryInv
BY DEF DirectoryInv, Directory!Init, Directory!TypeOK, Directory!IssuedIsRouted,
       Directory!AnswerIsIssued, Directory!Success

\* An answer without a key names no key.
LEMMA KeylessAnswer ==
  ASSUME Answer' \in {Directory!Success(None), Directory!NoSuccess}
  PROVE  Directory!AnswerIsIssued'
BY DEF Directory!AnswerIsIssued, Directory!Success, Directory!NoSuccess

\* Every step of a directory keeps it so.
LEMMA DirectoryKeeps ==
  DirectoryInv /\ [Directory!Next]_(Directory!dirVars) => DirectoryInv'
<1> SUFFICES ASSUME DirectoryInv, [Directory!Next]_(Directory!dirVars)
             PROVE  DirectoryInv'
  OBVIOUS
<1> USE DEF DirectoryInv, Directory!TypeOK, Directory!IssuedIsRouted
<1>1. ASSUME NEW k \in Kid, NEW p \in Plugin, Directory!Issue(k, p)
      PROVE  DirectoryInv'
  <2>1. handed'[k] = p /\ p # None
    BY <1>1, NoneIsNone DEF Directory!Issue
  <2>2. Directory!AnswerIsIssued'
    BY <1>1, <2>1 DEF Directory!Issue, Directory!AnswerIsIssued, Directory!Success
  <2> QED BY <1>1, <2>2 DEF Directory!Issue
<1>2. ASSUME NEW k \in Kid, Directory!Withdraw(k) PROVE DirectoryInv'
  BY <1>2, KeylessAnswer DEF Directory!Withdraw
<1>3. ASSUME NEW k \in Kid, Directory!Forget(k) PROVE DirectoryInv'
  BY <1>3, KeylessAnswer DEF Directory!Forget
<1>4. ASSUME NEW S \in SUBSET Kid, NEW p \in Plugin, Directory!Send(S, p)
      PROVE  DirectoryInv'
  <2>1. /\ bindings' \in [Kid -> Plugin \cup {None}]
        /\ handed' = handed
        /\ \A k \in Kid : bindings[k] # None => bindings'[k] = bindings[k]
    BY <1>4 DEF Directory!Send
  <2>2. \A k \in Kid : handed[k] # None => bindings[k] = handed[k]
    OBVIOUS
  <2> QED BY <1>4, <2>1, <2>2, KeylessAnswer DEF Directory!Send
<1>5. ASSUME NEW S \in SUBSET Kid, NEW p \in Plugin, Directory!Lose(S, p)
      PROVE  DirectoryInv'
  BY <1>5, KeylessAnswer DEF Directory!Lose
<1>6. CASE Directory!NoKey
  BY <1>6, KeylessAnswer DEF Directory!NoKey
<1>7. CASE UNCHANGED Directory!dirVars
  BY <1>7 DEF Directory!dirVars, Directory!AnswerIsIssued
<1> QED BY <1>1, <1>2, <1>3, <1>4, <1>5, <1>6, <1>7 DEF Directory!Next

\* A key that any generating call or migration has just returned is one its
\* host holds from then on, and operations on it reach the plugin that made it.
THEOREM DirectoryServesItsHost ==
  Spec => [](Directory!IssuedIsRouted /\ Directory!AnswerIsIssued)
<1>1. Directory!Spec => []DirectoryInv
  BY DirectoryInit, DirectoryKeeps, PTL DEF Directory!Spec
<1>2. DirectoryInv => Directory!IssuedIsRouted /\ Directory!AnswerIsIssued
  BY DEF DirectoryInv
<1> QED BY <1>1, <1>2, ManagerIsADirectory, PTL DEF KeepsDirectory
=============================================================================
