------------------------- MODULE WscdManagerProofs -------------------------
(***************************************************************************)
(* Type correctness and the routing guarantees of WscdManager, for every   *)
(* set of plugins and kids, every configuration and every candidate list.  *)
(***************************************************************************)
EXTENDS WscdManager, TLAPS, SequenceTheorems

(***************************************************************************)
(* Type correctness.                                                       *)
(***************************************************************************)

\* The first candidate is a plugin and the rest is again a candidate list.
LEMMA CandidateTypes ==
  ASSUME NEW cs \in Seq(Plugin), cs # <<>>
  PROVE  Head(cs) \in Plugin /\ Tail(cs) \in Seq(Plugin)
BY HeadTailProperties

\* Removing a key keeps the types of the tables it is removed from.
LEMMA RemovedTypes ==
  ASSUME TypeOK, NEW p \in Plugin, NEW k \in Kid, Removed(p, k)
  PROVE  /\ held' \in [Plugin -> SUBSET Kid]
         /\ bindings' \in [Kid -> Plugin \cup {None}]
         /\ handed' \in [Kid -> Plugin \cup {None}]
BY DEF TypeOK, Removed

\* Resolution always names a plugin id.
LEMMA ResolvesToPlugin ==
  ASSUME TypeOK, NEW k \in Kid, NEW op \in Op
  PROVE  ResolveForKey(k, op) \in Plugin
BY ConfigAssumption DEF TypeOK, ResolveForKey

\* Ending a call keeps the types of the call's own variables.
LEMMA EndCallTypes ==
  ASSUME EndCall
  PROVE  /\ pc' \in {"idle", "next", "generate", "confirm", "reject"}
         /\ cands' \in Seq(Plugin)
         /\ required' \in Level \cup {None}
         /\ cur' \in Kid \cup {None}
BY DEF EndCall

\* A failed attempt keeps the types of the call's own variables.
LEMMA AttemptFailedTypes ==
  ASSUME TypeOK, cands # <<>>, AttemptFailed
  PROVE  /\ pc' \in {"idle", "next", "generate", "confirm", "reject"}
         /\ cands' \in Seq(Plugin)
         /\ required' \in Level \cup {None}
         /\ cur' \in Kid \cup {None}
         /\ outcome' \in [res: Result, kid: Kid \cup {None}]
<1>1. CASE required = None /\ EndCall /\ Return("err", None)
  BY <1>1, EndCallTypes DEF Return, Result
<1>2. CASE /\ pc' = "next"
           /\ cands' = Tail(cands)
           /\ cur' = None
           /\ UNCHANGED <<required, outcome>>
  <2>1. Tail(cands) \in Seq(Plugin)
    BY CandidateTypes DEF TypeOK
  <2> QED BY <1>2, <2>1 DEF TypeOK
<1> QED BY <1>1, <1>2 DEF AttemptFailed

\* Starting a generating call.
LEMMA StartGenerateTypes ==
  ASSUME TypeOK, NEW cs \in Seq(Plugin), NEW level \in Level \cup {None},
         StartGenerate(cs, level)
  PROVE  TypeOK'
BY DEF TypeOK, StartGenerate, Return, Result

\* A call that is past the head of its loop has a candidate, and one that is
\* past generation has a key: what makes TypeOK inductive.
CallTypes ==
  /\ pc \in {"generate", "confirm", "reject"} => cands # <<>>
  /\ pc \in {"confirm", "reject"} => cur \in Kid

\* No step takes a call to a place where it lacks what that place needs.
LEMMA CallTypesStep == CallTypes /\ [Next]_vars => CallTypes'
<1> SUFFICES ASSUME CallTypes, [Next]_vars PROVE CallTypes'
  OBVIOUS
<1> USE DEF CallTypes
<1>1. ASSUME NEW cs, NEW level, StartGenerate(cs, level) PROVE CallTypes'
  BY <1>1 DEF StartGenerate
<1>2. CASE EndCall
  BY <1>2 DEF EndCall
<1>3. CASE AttemptFailed
  BY <1>3, <1>2 DEF AttemptFailed
<1>4. CASE UNCHANGED callVars
  BY <1>4 DEF callVars
<1>5. CASE NextCandidate
  BY <1>5, <1>2, <1>3 DEF NextCandidate
<1>6. ASSUME NEW k \in Kid, NEW level \in Level,
             Generated(k, level) \/ GeneratedInVain(k, level)
      PROVE  CallTypes'
  BY <1>6, <1>2, <1>3 DEF Generated, GeneratedInVain
<1>7. CASE Shortfall \/ NotConfirmed
  BY <1>7 DEF Shortfall, NotConfirmed, Reject
<1>8. CASE GeneratingStep
  BY <1>8, <1>2, <1>3, <1>5, <1>6, <1>7
     DEF GeneratingStep, GenerateFails, GenerateStops, Accept, RejectedDeleted,
         RejectedDeleteFails
<1>9. CASE Next
  BY <1>9, <1>1, <1>2, <1>4, <1>8
     DEF Next, RegisterPlugin, BindKeys, GenerateKey, GenerateKeyWithPlugin,
         GenerateKeyForLevel, Abort, DeleteKey, MigrateKey, LifecycleProvision,
         LifecyclePurge
<1>10. CASE UNCHANGED vars
  BY <1>10, <1>4 DEF vars, callVars
<1> QED BY <1>9, <1>10

\* What every step does to the types, one case per operation.
LEMMA TypeStep == TypeOK /\ CallTypes /\ [Next]_vars => TypeOK'
<1> SUFFICES ASSUME TypeOK, CallTypes, [Next]_vars PROVE TypeOK'
  OBVIOUS
<1> USE ConfigAssumption
<1>0. cands # <<>> => Head(cands) \in Plugin
  BY CandidateTypes DEF TypeOK
<1>1. ASSUME NEW p \in Plugin, NEW S \in SUBSET Kid, RegisterPlugin(p, S)
      PROVE  TypeOK'
  BY <1>1 DEF TypeOK, RegisterPlugin, Replace, Return, Result, callVars
<1>2. ASSUME NEW p \in Plugin, BindKeys(p) PROVE TypeOK'
  BY <1>2 DEF TypeOK, BindKeys, BindKids, Return, Result, callVars
<1>3. CASE GenerateKey
  <2>1. /\ <<ResolveForGenerate>> \in Seq(Plugin)
        /\ None \in Level \cup {None}
    BY DEF ResolveForGenerate, Op
  <2> QED BY <1>3, <2>1, StartGenerateTypes DEF GenerateKey
<1>4. ASSUME NEW p \in Plugin, GenerateKeyWithPlugin(p) PROVE TypeOK'
  <2>1. <<p>> \in Seq(Plugin) /\ None \in Level \cup {None}
    OBVIOUS
  <2> QED BY <1>4, <2>1, StartGenerateTypes DEF GenerateKeyWithPlugin
<1>5. ASSUME NEW cs \in CandidateLists, NEW level \in Asked,
             GenerateKeyForLevel(cs, level)
      PROVE  TypeOK'
  <2>1. cs \in Seq(Plugin) /\ level \in Level \cup {None}
    OBVIOUS
  <2> QED BY <1>5, <2>1, StartGenerateTypes DEF GenerateKeyForLevel
<1>6. CASE NextCandidate
  <2>1. CASE cands = <<>> /\ EndCall /\ Return("err", None)
    BY <1>6, <2>1, EndCallTypes DEF NextCandidate, TypeOK, Return, Result
  <2>2. CASE cands # <<>> /\ AttemptFailed
    BY <1>6, <2>2, AttemptFailedTypes DEF NextCandidate, TypeOK
  <2>3. CASE pc' = "generate" /\ UNCHANGED <<cands, required, cur, outcome>>
    BY <1>6, <2>3 DEF NextCandidate, TypeOK
  <2> QED BY <1>6, <2>1, <2>2, <2>3 DEF NextCandidate
<1>7. ASSUME NEW k \in Kid, NEW level \in Level, Generated(k, level)
      PROVE  TypeOK'
  <2>1. Head(cands) \in Plugin
    BY <1>7, <1>0 DEF Generated, CallTypes
  <2>2. /\ minted' \in [Plugin -> [Kid -> Level \cup {None}]]
        /\ held' \in [Plugin -> SUBSET Kid]
        /\ bindings' \in [Kid -> Plugin \cup {None}]
    BY <1>7, <2>1 DEF Generated, TypeOK
  <2>3. CASE required = None /\ handed' = [handed EXCEPT ![k] = Head(cands)]
             /\ EndCall /\ Return("ok", k)
    BY <1>7, <2>1, <2>2, <2>3, EndCallTypes
       DEF Generated, TypeOK, Return, Result
  <2>4. CASE pc' = "confirm" /\ cur' = k
             /\ UNCHANGED <<cands, required, outcome, handed>>
    BY <1>7, <2>2, <2>4 DEF Generated, TypeOK
  <2> QED BY <1>7, <2>3, <2>4 DEF Generated
<1>8. ASSUME NEW k \in Kid, NEW level \in Level, GeneratedInVain(k, level)
      PROVE  TypeOK'
  <2>1. cands # <<>> /\ Head(cands) \in Plugin
    BY <1>8, <1>0 DEF GeneratedInVain, CallTypes
  <2>2. /\ minted' \in [Plugin -> [Kid -> Level \cup {None}]]
        /\ held' \in [Plugin -> SUBSET Kid]
        /\ left' \in SUBSET [plugin: Plugin, why: Why]
    BY <1>8, <2>1 DEF GeneratedInVain, TypeOK, Why
  <2> QED BY <1>8, <2>1, <2>2, AttemptFailedTypes
          DEF GeneratedInVain, TypeOK
<1>9. CASE GenerateFails
  <2>1. left' \in SUBSET [plugin: Plugin, why: Why]
    BY <1>9, CandidateTypes DEF GenerateFails, TypeOK, CallTypes, Why
  <2> QED BY <1>9, <2>1, AttemptFailedTypes DEF GenerateFails, TypeOK, CallTypes
<1>10. ASSUME NEW err, GenerateStops(err) PROVE TypeOK'
  <2>1. left' \in SUBSET [plugin: Plugin, why: Why]
    BY <1>10, <1>0 DEF GenerateStops, TypeOK, CallTypes, Why
  <2> QED BY <1>10, <2>1, EndCallTypes
          DEF GenerateStops, TypeOK, Return, Result
<1>11. CASE Accept
  <2>1. handed' \in [Kid -> Plugin \cup {None}]
    BY <1>11 DEF Accept, TypeOK, CallTypes
  <2> QED BY <1>11, <2>1, EndCallTypes DEF Accept, TypeOK, Return, Result
<1>12. CASE Shortfall \/ NotConfirmed
  <2>1. Reject /\ left' \in SUBSET [plugin: Plugin, why: Why]
    BY <1>12, <1>0
       DEF Shortfall, NotConfirmed, Reject, TypeOK, CallTypes, Why
  <2> QED BY <2>1 DEF Reject, TypeOK
<1>13. CASE RejectedDeleted
  <2>1. cands # <<>> /\ cur \in Kid
    BY <1>13 DEF RejectedDeleted, CallTypes
  <2>2. ResolveForKey(cur, "delete") \in Plugin
    BY <2>1, ResolvesToPlugin DEF Op, KeyOp
  <2> QED BY <1>13, <2>1, <2>2, RemovedTypes, AttemptFailedTypes
          DEF RejectedDeleted, TypeOK
<1>14. CASE RejectedDeleteFails
  BY <1>14, EndCallTypes DEF RejectedDeleteFails, TypeOK, Return, Result
<1>15. CASE Abort
  <2>1. /\ minted' \in [Plugin -> [Kid -> Level \cup {None}]]
        /\ held' \in [Plugin -> SUBSET Kid]
    <3>1. CASE UNCHANGED <<held, minted>>
      BY <3>1 DEF TypeOK
    <3>2. ASSUME NEW k \in Kid, NEW level \in LevelsOf[Head(cands)],
                 pc = "generate",
                 minted' = [minted EXCEPT ![Head(cands)][k] = level],
                 held' = [held EXCEPT ![Head(cands)] = @ \cup {k}]
          PROVE  /\ minted' \in [Plugin -> [Kid -> Level \cup {None}]]
                 /\ held' \in [Plugin -> SUBSET Kid]
      <4>1. Head(cands) \in Plugin
        BY <3>2, <1>0 DEF CallTypes
      <4>2. level \in Level
        BY <4>1
      <4> QED BY <3>2, <4>1, <4>2 DEF TypeOK
    <3> QED BY <1>15, <3>1, <3>2 DEF Abort
  <2> QED BY <1>15, <2>1, EndCallTypes DEF Abort, TypeOK, Return, Result
<1>16. ASSUME NEW k \in Kid, DeleteKey(k) PROVE TypeOK'
  <2>1. ResolveForKey(k, "delete") \in Plugin
    BY ResolvesToPlugin DEF Op, KeyOp
  <2> QED BY <1>16, <2>1, RemovedTypes
          DEF DeleteKey, TypeOK, Return, Result, callVars
<1>17. ASSUME NEW k \in Kid, NEW new \in Kid, NEW target \in Plugin,
              MigrateKey(k, target, new)
       PROVE  TypeOK'
  <2>1. CASE Return("err", None) /\ UNCHANGED <<held, bindings, handed, minted>>
    BY <1>17, <2>1 DEF MigrateKey, TypeOK, Return, Result, callVars
  <2>2. CASE /\ \E level \in LevelsOf[target] :
                  minted' = [minted EXCEPT ![target][new] = level]
             /\ held' = [held EXCEPT ![target] = @ \cup {new}]
             /\ bindings' = [bindings EXCEPT ![new] = target]
             /\ handed' = [handed EXCEPT ![new] = target]
             /\ Return("ok", new)
    <3>1. PICK level \in Level : minted' = [minted EXCEPT ![target][new] = level]
      BY <2>2
    <3>2. /\ minted' \in [Plugin -> [Kid -> Level \cup {None}]]
          /\ held' \in [Plugin -> SUBSET Kid]
          /\ bindings' \in [Kid -> Plugin \cup {None}]
          /\ handed' \in [Kid -> Plugin \cup {None}]
          /\ outcome' \in [res: Result, kid: Kid \cup {None}]
      BY <2>2, <3>1 DEF TypeOK, Return, Result
    <3> QED BY <1>17, <3>2 DEF MigrateKey, TypeOK, callVars
  <2> QED BY <1>17, <2>1, <2>2 DEF MigrateKey
<1>18. ASSUME NEW p \in Plugin, NEW k \in Kid, NEW level \in LevelsOf[p],
              LifecycleProvision(p, k, level)
       PROVE  TypeOK'
  <2>1. level \in Level
    OBVIOUS
  <2> QED BY <1>18, <2>1 DEF LifecycleProvision, TypeOK, Return, Result, callVars
<1>19. ASSUME NEW p \in Plugin, NEW S \in SUBSET Kid, LifecyclePurge(p, S)
       PROVE  TypeOK'
  BY <1>19 DEF LifecyclePurge, TypeOK, Return, Result, callVars
<1>20. CASE UNCHANGED vars
  BY <1>20 DEF vars, callVars, TypeOK
<1> QED
  BY <1>1, <1>2, <1>3, <1>4, <1>5, <1>6, <1>7, <1>8, <1>9, <1>10, <1>11,
     <1>12, <1>13, <1>14, <1>15, <1>16, <1>17, <1>18, <1>19, <1>20
     DEF Next, GeneratingStep

\* Every variable keeps its type.
THEOREM TypeCorrect == Spec => []TypeOK
<1>1. Init => TypeOK /\ CallTypes
  BY ConfigAssumption DEF Init, TypeOK, CallTypes, Result
<1>2. TypeOK /\ CallTypes /\ [Next]_vars => (TypeOK /\ CallTypes)'
  BY TypeStep, CallTypesStep
<1> QED BY <1>1, <1>2, PTL DEF Spec

(***************************************************************************)
(* The inductive invariant.                                                *)
(***************************************************************************)

\* Bound, held and context keys were made by the plugin they are filed under.
OriginInv ==
  /\ \A k \in Kid : bindings[k] # None => minted[bindings[k]][k] # None
  /\ \A p \in Plugin : \A k \in held[p] \cup ctxKeys[p] : minted[p][k] # None

\* A key returned to the host is bound to its plugin, which holds it; the
\* lifecycle of another context does not own it.
HandedInv ==
  \A k \in Kid : handed[k] # None =>
    /\ bindings[k] = handed[k]
    /\ handed[k] \in registered
    /\ handed[k] \notin WipesAll => k \in held[handed[k]]
    /\ handed[k] \notin Service => k \notin ctxKeys[handed[k]]

\* The call in progress works on its first candidate; once that has made a
\* key, the key is held there, bound to it and no lifecycle owns it.
CallInv ==
  /\ pc # "idle" => outcome.res # "accepted"
  /\ pc \in {"generate", "confirm", "reject"} =>
       cands # <<>> /\ Head(cands) \in registered
  /\ pc \in {"confirm", "reject"} =>
       /\ cur \in Kid
       /\ required # None
       /\ bindings[cur] = Head(cands)
       /\ cur \in held[Head(cands)]
       /\ Head(cands) \notin Service => cur \notin ctxKeys[Head(cands)]

\* Why an attempt leaves a key behind and the loop goes on all the same.
InVain == {"collision", "lookup", "unfinished"}

\* What the call has left behind so far: nothing but keys made in vain, and the
\* key being deleted.
LeftInv ==
  /\ pc \in {"next", "generate", "confirm"} =>
       \A x \in left : x.why \in InVain
  /\ pc = "reject" =>
       \A x \in left : x.why \in InVain
                       \/ x = [plugin |-> Head(cands), why |-> "rejected"]
  /\ NoOrphanBehindSuccess

IInv == TypeOK /\ CallTypes /\ OriginInv /\ HandedInv /\ CallInv /\ LeftInv

\* None is no plugin and no rank.
LEMMA NoneIsNone ==
  /\ \A p \in Plugin : p # None
  /\ \A level \in Level : level # None
  /\ \A p \in Plugin : LevelsOf[p] \subseteq Level
BY ConfigAssumption

\* Recording a key in minted sets that entry and no other.
LEMMA MintedUpdate ==
  ASSUME TypeOK, NEW p \in Plugin, NEW k \in Kid, NEW level \in Level,
         minted' = [minted EXCEPT ![p][k] = level]
  PROVE  /\ minted'[p][k] = level
         /\ \A q \in Plugin, j \in Kid :
              minted[q][j] # None => minted'[q][j] # None
BY NoneIsNone DEF TypeOK

\* A plugin storing a key it has made keeps OriginInv, as far as the bindings
\* and the context keys stay or gain that key.
LEMMA OriginMint ==
  ASSUME IInv, NEW p \in Plugin, NEW k \in Kid, NEW level \in Level,
         minted' = [minted EXCEPT ![p][k] = level],
         held' = [held EXCEPT ![p] = @ \cup {k}],
         bindings' = bindings \/ bindings' = [bindings EXCEPT ![k] = p],
         ctxKeys' = ctxKeys \/ ctxKeys' = [ctxKeys EXCEPT ![p] = @ \cup {k}]
  PROVE  OriginInv'
<1> USE DEF IInv, OriginInv
<1>1. /\ minted'[p][k] # None
      /\ \A q \in Plugin, j \in Kid :
           minted[q][j] # None => minted'[q][j] # None
  <2>1. TypeOK /\ level # None
    BY NoneIsNone
  <2>2. minted'[p][k] = level
    BY <2>1, MintedUpdate
  <2>3. \A q \in Plugin, j \in Kid :
          minted[q][j] # None => minted'[q][j] # None
    BY <2>1, MintedUpdate
  <2> QED BY <2>1, <2>2, <2>3
<1>2. \A j \in Kid : bindings'[j] # None => minted'[bindings'[j]][j] # None
  <2> SUFFICES ASSUME NEW j \in Kid, bindings'[j] # None
               PROVE  minted'[bindings'[j]][j] # None
    OBVIOUS
  <2>1. CASE bindings'[j] = bindings[j]
    BY <2>1, <1>1 DEF TypeOK
  <2>2. CASE j = k /\ bindings'[j] = p
    BY <2>2, <1>1
  <2> QED BY <2>1, <2>2 DEF TypeOK
<1>3. \A q \in Plugin : \A j \in held'[q] \cup ctxKeys'[q] :
        minted'[q][j] # None
  <2> SUFFICES ASSUME NEW q \in Plugin, NEW j \in held'[q] \cup ctxKeys'[q]
               PROVE  minted'[q][j] # None
    OBVIOUS
  <2>1. j \in held[q] \cup ctxKeys[q] \/ (q = p /\ j = k)
    BY DEF TypeOK
  <2>2. CASE j \in held[q] \cup ctxKeys[q]
    BY <2>2, <1>1 DEF TypeOK
  <2> QED BY <2>1, <2>2, <1>1
<1> QED BY <1>2, <1>3

\* Nothing is bound to, held by or kept for a context of a plugin that did not
\* make it.
LEMMA OriginStep == IInv /\ [Next]_vars => OriginInv'
<1> SUFFICES ASSUME IInv, [Next]_vars PROVE OriginInv'
  OBVIOUS
<1> USE DEF IInv
<1>0. cands # <<>> => Head(cands) \in Plugin
  BY CandidateTypes DEF TypeOK
<1>1. CASE UNCHANGED <<held, bindings, minted, ctxKeys>>
  BY <1>1 DEF OriginInv
<1>2. ASSUME NEW p \in Plugin, NEW S \in SUBSET Kid, RegisterPlugin(p, S)
      PROVE  OriginInv'
  BY <1>2 DEF RegisterPlugin, Replace, OriginInv, TypeOK
<1>3. ASSUME NEW p \in Plugin, BindKeys(p) PROVE OriginInv'
  BY <1>3 DEF BindKeys, BindKids, OriginInv, TypeOK
<1>4. ASSUME NEW k \in Kid, NEW level \in Level,
             Generated(k, level) \/ GeneratedInVain(k, level)
      PROVE  OriginInv'
  <2>1. Head(cands) \in Plugin
    BY <1>4, <1>0 DEF Generated, GeneratedInVain, CallTypes
  <2> QED BY <1>4, <2>1, OriginMint DEF Generated, GeneratedInVain
<1>5. ASSUME NEW p \in Plugin, NEW k \in Kid, Removed(p, k),
             UNCHANGED <<minted, ctxKeys>>
      PROVE  OriginInv'
  BY <1>5 DEF Removed, OriginInv, TypeOK
<1>6. CASE RejectedDeleted
  <2>1. cur \in Kid /\ ResolveForKey(cur, "delete") \in Plugin
    BY <1>6, ResolvesToPlugin DEF RejectedDeleted, CallTypes, Op, KeyOp
  <2> QED BY <1>6, <2>1, <1>5 DEF RejectedDeleted
<1>7. ASSUME NEW k \in Kid, DeleteKey(k) PROVE OriginInv'
  <2>1. ResolveForKey(k, "delete") \in Plugin
    BY ResolvesToPlugin DEF Op, KeyOp
  <2> QED BY <1>7, <2>1, <1>5, <1>1 DEF DeleteKey
<1>8. CASE Abort
  <2>1. CASE UNCHANGED <<held, minted>>
    BY <1>8, <2>1, <1>1 DEF Abort
  <2>2. ASSUME NEW k \in Kid, NEW level \in LevelsOf[Head(cands)],
               pc = "generate",
               minted' = [minted EXCEPT ![Head(cands)][k] = level],
               held' = [held EXCEPT ![Head(cands)] = @ \cup {k}]
        PROVE  OriginInv'
    <3>1. Head(cands) \in Plugin /\ level \in Level
      BY <2>2, <1>0, NoneIsNone DEF CallTypes
    <3> QED BY <1>8, <2>2, <3>1, OriginMint DEF Abort
  <2> QED BY <1>8, <2>1, <2>2 DEF Abort
<1>9. ASSUME NEW k \in Kid, NEW new \in Kid, NEW target \in Plugin,
             MigrateKey(k, target, new)
      PROVE  OriginInv'
  <2>1. CASE UNCHANGED <<held, bindings, minted>>
    BY <1>9, <2>1, <1>1 DEF MigrateKey
  <2>2. ASSUME NEW level \in LevelsOf[target],
               minted' = [minted EXCEPT ![target][new] = level],
               held' = [held EXCEPT ![target] = @ \cup {new}],
               bindings' = [bindings EXCEPT ![new] = target]
        PROVE  OriginInv'
    <3>1. level \in Level
      BY NoneIsNone
    <3> QED BY <1>9, <2>2, <3>1, OriginMint DEF MigrateKey
  <2> QED BY <1>9, <2>1, <2>2 DEF MigrateKey
<1>10. ASSUME NEW p \in Plugin, NEW k \in Kid, NEW level \in LevelsOf[p],
              LifecycleProvision(p, k, level)
       PROVE  OriginInv'
  BY <1>10, NoneIsNone, OriginMint DEF LifecycleProvision
<1>11. ASSUME NEW p \in Plugin, NEW S \in SUBSET Kid, LifecyclePurge(p, S)
       PROVE  OriginInv'
  BY <1>11 DEF LifecyclePurge, OriginInv, TypeOK
<1>12. CASE \/ NextCandidate
            \/ GenerateFails
            \/ \E err \in {"cancelled", "pin", "unconfirmed"} : GenerateStops(err)
            \/ Accept
            \/ Shortfall
            \/ NotConfirmed
            \/ RejectedDeleteFails
  BY <1>12, <1>1 DEF NextCandidate, GenerateFails, GenerateStops, Accept,
       Shortfall, NotConfirmed, Reject, RejectedDeleteFails
<1>13. CASE \/ GenerateKey
            \/ \E p \in Plugin : GenerateKeyWithPlugin(p)
            \/ \E cs \in CandidateLists, level \in Asked :
                 GenerateKeyForLevel(cs, level)
  BY <1>13, <1>1 DEF GenerateKey, GenerateKeyWithPlugin, GenerateKeyForLevel,
       StartGenerate
<1>14. CASE UNCHANGED vars
  BY <1>14, <1>1 DEF vars
<1> QED
  BY <1>2, <1>3, <1>4, <1>6, <1>7, <1>8, <1>9, <1>10, <1>11, <1>12, <1>13,
     <1>14 DEF Next, GeneratingStep
\* A plugin that makes its own key ids makes one no other key has.
LEMMA FreshKid ==
  ASSUME IInv, NEW p \in Plugin \ Service, NEW k \in Kid, CanMint(p, k)
  PROVE  /\ bindings[k] = None
         /\ handed[k] = None
         /\ \A q \in Plugin : k \notin held[q] /\ k \notin ctxKeys[q]
<1>1. \A q \in Plugin : minted[q][k] = None
  BY DEF CanMint
<1>2. bindings[k] = None
  BY <1>1 DEF IInv, TypeOK, OriginInv
<1> QED BY <1>1, <1>2 DEF IInv, TypeOK, OriginInv, HandedInv

\* A step that leaves bindings and handed as they are, and neither takes keys
\* from a plugin nor gives any to a context, keeps HandedInv.
LEMMA HandedKept ==
  ASSUME IInv, UNCHANGED <<bindings, handed, registered, ctxKeys>>,
         \A p \in Plugin : held[p] \subseteq held'[p]
  PROVE  HandedInv'
BY DEF IInv, TypeOK, HandedInv

\* Removing a key takes it from the host as well.
LEMMA HandedRemoved ==
  ASSUME IInv, NEW p \in Plugin, NEW k \in Kid, Removed(p, k),
         UNCHANGED <<registered, ctxKeys>>, bindings[k] \in {None, p}
  PROVE  HandedInv'
<1> SUFFICES ASSUME NEW j \in Kid, handed'[j] # None
             PROVE  /\ bindings'[j] = handed'[j]
                    /\ handed'[j] \in registered'
                    /\ handed'[j] \notin WipesAll => j \in held'[handed'[j]]
                    /\ handed'[j] \notin Service => j \notin ctxKeys'[handed'[j]]
  BY DEF HandedInv
<1>1. j # k /\ handed'[j] = handed[j] /\ bindings'[j] = bindings[j]
  BY DEF Removed, IInv, TypeOK
<1>2. \A q \in Plugin : j \in held[q] => j \in held'[q]
  BY <1>1 DEF Removed, IInv, TypeOK
<1> QED BY <1>1, <1>2 DEF IInv, TypeOK, HandedInv

\* The keys a host was given stay bound to plugins that hold them.
LEMMA HandedStep == IInv /\ [Next]_vars => HandedInv'
<1> SUFFICES ASSUME IInv, [Next]_vars PROVE HandedInv'
  OBVIOUS
<1>0. TypeOK /\ (cands # <<>> => Head(cands) \in Plugin)
  BY CandidateTypes DEF IInv, TypeOK
<1>1. CASE UNCHANGED <<registered, held, bindings, ctxKeys, handed>>
  BY <1>1, HandedKept
<1>2. ASSUME NEW p \in Plugin, NEW S \in SUBSET Kid, RegisterPlugin(p, S)
      PROVE  HandedInv'
  BY <1>2 DEF RegisterPlugin, Replace, Forgotten, IInv, TypeOK, HandedInv
<1>3. ASSUME NEW p \in Plugin, BindKeys(p) PROVE HandedInv'
  BY <1>3 DEF BindKeys, BindKids, MayBind, IInv, TypeOK, HandedInv
<1>4. ASSUME NEW k \in Kid, NEW level \in Level, Generated(k, level)
      PROVE  HandedInv'
  <2> DEFINE p == Head(cands)
  <2>1. p \in Plugin /\ p \in registered
    BY <1>4, <1>0 DEF Generated, IInv, CallTypes, CallInv
  <2>2. p \notin Service => k \notin ctxKeys[p]
    BY <1>4, <2>1, FreshKid DEF Generated
  <2>3. /\ UNCHANGED <<registered, ctxKeys>>
        /\ bindings' = [bindings EXCEPT ![k] = p]
        /\ held' = [held EXCEPT ![p] = @ \cup {k}]
        /\ handed' = handed \/ handed' = [handed EXCEPT ![k] = p]
        /\ MayBind(k, p)
    BY <1>4 DEF Generated
  <2> HIDE DEF p
  <2> SUFFICES ASSUME NEW j \in Kid, handed'[j] # None
               PROVE  /\ bindings'[j] = handed'[j]
                      /\ handed'[j] \in registered
                      /\ handed'[j] \notin WipesAll => j \in held'[handed'[j]]
                      /\ handed'[j] \notin Service => j \notin ctxKeys[handed'[j]]
    BY <2>3 DEF HandedInv
  <2>4. CASE j = k
    <3>1. handed'[k] = p
      BY <2>3, <2>4, <1>0 DEF MayBind, IInv, HandedInv, TypeOK
    <3> QED BY <2>1, <2>2, <2>3, <2>4, <3>1, <1>0 DEF TypeOK
  <2>5. CASE j # k
    <3>1. handed'[j] = handed[j] /\ bindings'[j] = bindings[j]
      BY <2>3, <2>5, <1>0 DEF TypeOK
    <3>2. \A q \in Plugin : held[q] \subseteq held'[q]
      BY <2>3, <1>0 DEF TypeOK
    <3> QED BY <3>1, <3>2, <1>0 DEF IInv, HandedInv, TypeOK
  <2> QED BY <2>4, <2>5
<1>5. ASSUME NEW k \in Kid, NEW level \in Level, GeneratedInVain(k, level)
      PROVE  HandedInv'
  BY <1>5, HandedKept DEF GeneratedInVain, IInv, TypeOK
<1>6. CASE Accept
  BY <1>6 DEF Accept, IInv, TypeOK, HandedInv, CallInv
<1>7. CASE RejectedDeleted
  <2>1. /\ cur \in Kid
        /\ ResolveForKey(cur, "delete") \in Plugin
        /\ bindings[cur] \in {None, ResolveForKey(cur, "delete")}
    BY <1>7, <1>0, ResolvesToPlugin
       DEF RejectedDeleted, IInv, CallTypes, Op, KeyOp, ResolveForKey
  <2> QED BY <1>7, <2>1, HandedRemoved DEF RejectedDeleted
<1>8. ASSUME NEW k \in Kid, DeleteKey(k) PROVE HandedInv'
  <2>1. /\ ResolveForKey(k, "delete") \in Plugin
        /\ bindings[k] \in {None, ResolveForKey(k, "delete")}
    BY <1>0, ResolvesToPlugin DEF Op, KeyOp, ResolveForKey
  <2> QED BY <1>8, <2>1, HandedRemoved, <1>1 DEF DeleteKey
<1>9. CASE Abort
  <2>1. \A p \in Plugin : held[p] \subseteq held'[p]
    <3>1. CASE held' = held
      BY <3>1
    <3>2. CASE \E k \in Kid : held' = [held EXCEPT ![Head(cands)] = @ \cup {k}]
      BY <1>0, <3>2 DEF TypeOK
    <3> QED BY <1>9, <3>1, <3>2 DEF Abort
  <2>2. UNCHANGED <<bindings, handed, registered, ctxKeys>>
    BY <1>9 DEF Abort
  <2> QED BY <2>1, <2>2, HandedKept
<1>10. ASSUME NEW k \in Kid, NEW new \in Kid, NEW target \in Plugin,
              MigrateKey(k, target, new)
       PROVE  HandedInv'
  <2>1. CASE UNCHANGED <<held, bindings, handed>>
    BY <1>10, <2>1, <1>1 DEF MigrateKey
  <2>2. CASE /\ target \in registered \cap Importer
             /\ CanMint(target, new)
             /\ held' = [held EXCEPT ![target] = @ \cup {new}]
             /\ bindings' = [bindings EXCEPT ![new] = target]
             /\ handed' = [handed EXCEPT ![new] = target]
             /\ UNCHANGED <<registered, ctxKeys>>
    <3>1. new \notin ctxKeys[target]
      BY <2>2, FreshKid, ImporterAssumption
    <3> QED BY <2>2, <3>1 DEF IInv, TypeOK, HandedInv
  <2> QED BY <1>10, <2>1, <2>2 DEF MigrateKey
<1>11. ASSUME NEW p \in Plugin, NEW k \in Kid, NEW level \in LevelsOf[p],
              LifecycleProvision(p, k, level)
       PROVE  HandedInv'
  <2>1. handed[k] = None
    BY <1>11, FreshKid DEF LifecycleProvision
  <2> QED BY <1>11, <2>1 DEF LifecycleProvision, IInv, TypeOK, HandedInv
<1>12. ASSUME NEW p \in Plugin, NEW S \in SUBSET Kid, LifecyclePurge(p, S)
       PROVE  HandedInv'
  BY <1>12 DEF LifecyclePurge, IInv, TypeOK, HandedInv
<1>13. CASE \/ NextCandidate
            \/ GenerateFails
            \/ \E err \in {"cancelled", "pin", "unconfirmed"} : GenerateStops(err)
            \/ Shortfall
            \/ NotConfirmed
            \/ RejectedDeleteFails
  BY <1>13, <1>1 DEF NextCandidate, GenerateFails, GenerateStops,
       Shortfall, NotConfirmed, Reject, RejectedDeleteFails
<1>14. CASE \/ GenerateKey
            \/ \E p \in Plugin : GenerateKeyWithPlugin(p)
            \/ \E cs \in CandidateLists, level \in Asked :
                 GenerateKeyForLevel(cs, level)
  BY <1>14, <1>1 DEF GenerateKey, GenerateKeyWithPlugin, GenerateKeyForLevel,
       StartGenerate
<1>15. CASE UNCHANGED vars
  BY <1>15, <1>1 DEF vars
<1> QED
  BY <1>2, <1>3, <1>4, <1>5, <1>6, <1>7, <1>8, <1>9, <1>10, <1>11, <1>12,
     <1>13, <1>14, <1>15 DEF Next, GeneratingStep

\* The call in progress stays on its candidate and its key.
LEMMA CallStep == IInv /\ [Next]_vars => CallInv'
<1> SUFFICES ASSUME IInv, [Next]_vars PROVE CallInv'
  OBVIOUS
<1>0. TypeOK /\ (cands # <<>> => Head(cands) \in Plugin)
  BY CandidateTypes DEF IInv, TypeOK
<1>1. CASE Idle /\ UNCHANGED callVars
  BY <1>1 DEF CallInv, Idle, callVars
<1>2. ASSUME NEW cs, NEW level, StartGenerate(cs, level) PROVE CallInv'
  BY <1>2 DEF StartGenerate, CallInv, Return
<1>3. CASE EndCall
  BY <1>3 DEF EndCall, CallInv
<1>4. CASE AttemptFailed /\ pc # "idle"
  BY <1>4, <1>3 DEF AttemptFailed, IInv, CallInv
<1>5. CASE NextCandidate
  <2>1. CASE /\ cands # <<>> /\ Head(cands) \in registered
             /\ pc' = "generate"
             /\ UNCHANGED <<cands, required, cur, outcome, registered>>
    BY <1>5, <2>1 DEF NextCandidate, IInv, CallInv
  <2> QED BY <1>5, <2>1, <1>3, <1>4 DEF NextCandidate
<1>6. ASSUME NEW k \in Kid, NEW level \in Level, Generated(k, level)
      PROVE  CallInv'
  <2> DEFINE p == Head(cands)
  <2>1. cands # <<>> /\ p \in Plugin /\ p \in registered
    BY <1>6, <1>0 DEF Generated, IInv, CallTypes, CallInv
  <2>2. p \notin Service => k \notin ctxKeys[p]
    BY <1>6, <2>1, FreshKid DEF Generated
  <2>3. CASE /\ required # None /\ pc' = "confirm" /\ cur' = k
             /\ UNCHANGED <<cands, required, outcome>>
    <3>1. bindings'[k] = p /\ k \in held'[p]
      BY <1>6, <2>1, <1>0 DEF Generated, TypeOK
    <3> QED BY <1>6, <2>1, <2>2, <2>3, <3>1 DEF Generated, IInv, CallInv
  <2> QED BY <1>6, <2>3, <1>3 DEF Generated
<1>7. ASSUME NEW k \in Kid, NEW level \in Level, GeneratedInVain(k, level)
      PROVE  CallInv'
  BY <1>7, <1>4 DEF GeneratedInVain
<1>8. CASE Shortfall \/ NotConfirmed
  BY <1>8 DEF Shortfall, NotConfirmed, Reject, IInv, CallInv
<1>9. CASE GeneratingStep
  BY <1>9, <1>3, <1>4, <1>5, <1>6, <1>7, <1>8
     DEF GeneratingStep, GenerateFails, GenerateStops, Accept, RejectedDeleted,
         RejectedDeleteFails
<1>10. CASE Next
  BY <1>10, <1>1, <1>2, <1>3, <1>9
     DEF Next, RegisterPlugin, BindKeys, GenerateKey, GenerateKeyWithPlugin,
         GenerateKeyForLevel, Abort, DeleteKey, MigrateKey, LifecycleProvision,
         LifecyclePurge
<1>11. CASE UNCHANGED vars
  BY <1>11 DEF vars, callVars, IInv, CallInv
<1> QED BY <1>10, <1>11
\* What the call leaves behind.
LEMMA LeftStep == IInv /\ [Next]_vars => LeftInv'
<1> SUFFICES ASSUME IInv, [Next]_vars PROVE LeftInv'
  OBVIOUS
<1> USE DEF LeftInv, NoOrphanBehindSuccess
<1>1. ASSUME Idle, UNCHANGED <<callVars, left>>, NEW res \in {"ok", "err"},
             NEW k, Return(res, k)
      PROVE  LeftInv'
  BY <1>1 DEF Idle, callVars, Return
<1>2. ASSUME NEW cs, NEW level, StartGenerate(cs, level) PROVE LeftInv'
  BY <1>2 DEF StartGenerate, Return
<1>3. ASSUME EndCall, NEW res \in {"ok", "err", "aborted"}, NEW k, Return(res, k)
      PROVE  LeftInv'
  BY <1>3 DEF EndCall, Return
<1>4. CASE /\ AttemptFailed /\ pc # "idle"
           /\ \A x \in left' : x.why \in InVain
  BY <1>4, <1>3 DEF AttemptFailed, IInv, CallInv
<1>5. CASE NextCandidate
  BY <1>5, <1>3, <1>4 DEF NextCandidate, IInv, CallInv
<1>6. ASSUME NEW k \in Kid, NEW level \in Level, Generated(k, level)
      PROVE  LeftInv'
  BY <1>6, <1>3 DEF Generated, IInv, CallInv
<1>7. ASSUME NEW k \in Kid, NEW level \in Level, GeneratedInVain(k, level)
      PROVE  LeftInv'
  BY <1>7, <1>4 DEF GeneratedInVain, IInv, InVain
<1>8. CASE GenerateFails
  BY <1>8, <1>4 DEF GenerateFails, IInv, InVain
<1>9. ASSUME NEW err, GenerateStops(err) PROVE LeftInv'
  BY <1>9, <1>3 DEF GenerateStops
<1>10. CASE Accept
  BY <1>10 DEF Accept, EndCall, IInv, InVain
<1>11. CASE Shortfall \/ NotConfirmed
  BY <1>11 DEF Shortfall, NotConfirmed, Reject, IInv, CallInv
<1>12. CASE RejectedDeleted
  BY <1>12, <1>4 DEF RejectedDeleted, IInv
<1>13. CASE RejectedDeleteFails
  BY <1>13, <1>3 DEF RejectedDeleteFails
<1>14. CASE Abort
  BY <1>14, <1>3 DEF Abort
<1>15. CASE GeneratingStep
  BY <1>15, <1>5, <1>6, <1>7, <1>8, <1>9, <1>10, <1>11, <1>12, <1>13
     DEF GeneratingStep
<1>16. CASE \E p \in Plugin, S \in SUBSET Kid :
              RegisterPlugin(p, S) \/ LifecyclePurge(p, S)
  BY <1>16, <1>1 DEF RegisterPlugin, LifecyclePurge
<1>17. CASE \E p \in Plugin : BindKeys(p)
  BY <1>17, <1>1 DEF BindKeys, BindKids
<1>18. CASE \E k \in Kid : DeleteKey(k)
  BY <1>18, <1>1 DEF DeleteKey
<1>19. CASE \E k, new \in Kid, target \in Plugin : MigrateKey(k, target, new)
  BY <1>19, <1>1 DEF MigrateKey
<1>20. CASE \E p \in Plugin, k \in Kid : \E level \in LevelsOf[p] :
              LifecycleProvision(p, k, level)
  BY <1>20, <1>1 DEF LifecycleProvision
<1>21. CASE \/ GenerateKey
            \/ \E p \in Plugin : GenerateKeyWithPlugin(p)
            \/ \E cs \in CandidateLists, level \in Asked :
                 GenerateKeyForLevel(cs, level)
  BY <1>21, <1>2 DEF GenerateKey, GenerateKeyWithPlugin, GenerateKeyForLevel
<1>22. CASE UNCHANGED vars
  BY <1>22 DEF vars, callVars, IInv
<1> QED
  BY <1>14, <1>15, <1>16, <1>17, <1>18, <1>19, <1>20, <1>21, <1>22 DEF Next

(***************************************************************************)
(* The theorems.                                                           *)
(***************************************************************************)

\* Nothing has happened yet.
LEMMA InitIInv == Init => IInv
<1> SUFFICES ASSUME Init PROVE IInv
  OBVIOUS
<1>1. TypeOK /\ CallTypes
  BY ConfigAssumption DEF Init, TypeOK, CallTypes, Result
<1>2. OriginInv /\ HandedInv
  BY DEF Init, OriginInv, HandedInv
<1>3. CallInv /\ LeftInv
  BY DEF Init, CallInv, LeftInv, NoOrphanBehindSuccess
<1> QED BY <1>1, <1>2, <1>3 DEF IInv

\* No step of the manager breaks it.
LEMMA NextIInv == IInv /\ [Next]_vars => IInv'
BY TypeStep, CallTypesStep, OriginStep, HandedStep, CallStep, LeftStep DEF IInv

\* IInv is inductive.
LEMMA Inductive == Spec => []IInv
BY InitIInv, NextIInv, PTL DEF Spec

\* What IInv says of a key that was handed out is what its host relies on.
LEMMA HandedIsReachable == IInv => HandedKeyReachable
BY NoneIsNone DEF IInv, TypeOK, HandedInv, HandedKeyReachable, ResolveForKey

\* A key returned to the host stays routed to, and held by, the plugin that
\* made it: resolve_for_key looks at the binding first, and generate_key_on,
\* bind_keys, migrate_key and delete_key keep the bindings right.
THEOREM HandedKeysReachable == Spec => []HandedKeyReachable
BY HandedIsReachable, Inductive, PTL

\* generate_key_for_level stops at a key it could neither vouch for nor delete,
\* so no such key is hidden by a later candidate's success.
THEOREM NoHiddenOrphan == Spec => []NoOrphanBehindSuccess
<1>1. IInv => NoOrphanBehindSuccess
  BY DEF IInv, LeftInv
<1> QED BY <1>1, Inductive, PTL

\* No step of the manager binds a bound kid to another plugin.
LEMMA BindingStep ==
  IInv /\ [Next]_vars =>
    [\A k \in Kid : bindings[k] # None /\ bindings'[k] # None
                      => bindings'[k] = bindings[k]]_vars
<1> SUFFICES ASSUME IInv, Next, NEW k \in Kid,
                    bindings[k] # None, bindings'[k] # None
             PROVE  bindings'[k] = bindings[k]
  OBVIOUS
<1>1. ASSUME NEW p, NEW j \in Kid, Removed(p, j)
      PROVE  bindings'[k] = bindings[k]
  BY <1>1 DEF Removed, IInv, TypeOK
<1>2. ASSUME NEW p \in Plugin, BindKeys(p)
      PROVE  bindings'[k] = bindings[k]
  BY <1>2 DEF BindKeys, BindKids, MayBind
<1>3. ASSUME NEW j \in Kid, NEW level \in Level, Generated(j, level)
      PROVE  bindings'[k] = bindings[k]
  BY <1>3 DEF Generated, MayBind, IInv, TypeOK
<1>4. ASSUME NEW j \in Kid, NEW new \in Kid, NEW target \in Plugin,
             MigrateKey(j, target, new)
      PROVE  bindings'[k] = bindings[k]
  <2>1. CASE UNCHANGED bindings
    BY <2>1
  <2>2. CASE target \in Importer /\ CanMint(target, new)
             /\ bindings' = [bindings EXCEPT ![new] = target]
    <3>1. k # new
      BY <2>2, FreshKid, ImporterAssumption
    <3> QED BY <2>2, <3>1 DEF IInv, TypeOK
  <2> QED BY <1>4, <2>1, <2>2 DEF MigrateKey
<1>5. CASE UNCHANGED bindings
  BY <1>5
<1>6. CASE RejectedDeleted
  BY <1>6, <1>1 DEF RejectedDeleted, IInv, CallTypes
<1>7. CASE GeneratingStep
  BY <1>3, <1>5, <1>6, <1>7
     DEF GeneratingStep, NextCandidate, GeneratedInVain, GenerateFails,
         GenerateStops, Accept, Shortfall, NotConfirmed, Reject,
         RejectedDeleteFails
<1>8. ASSUME NEW j \in Kid, DeleteKey(j)
      PROVE  bindings'[k] = bindings[k]
  BY <1>8, <1>1, <1>5 DEF DeleteKey
<1>9. CASE \/ GenerateKey
           \/ \E p \in Plugin : GenerateKeyWithPlugin(p)
           \/ \E cs \in CandidateLists, level \in Asked :
                GenerateKeyForLevel(cs, level)
  BY <1>9, <1>5 DEF GenerateKey, GenerateKeyWithPlugin, GenerateKeyForLevel,
       StartGenerate
<1> QED
  BY <1>2, <1>4, <1>5, <1>7, <1>8, <1>9
     DEF Next, RegisterPlugin, Abort, LifecycleProvision, LifecyclePurge

\* A bound kid is never re-routed to another plugin.
THEOREM BindingsStable == Spec => BindingStable
BY BindingStep, Inductive, PTL DEF Spec, BindingStable

\* A step that takes a binding away leaves the key in no instance it was bound
\* to: delete_key unbinds only after the plugin confirmed the deletion.
THEOREM UnbindsOnlyGoneKeys == Spec => UnboundOnlyWhenGone
<1>1. IInv /\ [Next]_vars =>
        [\A k \in Kid : bindings[k] # None /\ bindings'[k] = None
                          => k \notin held'[bindings[k]]]_vars
  <2> SUFFICES ASSUME IInv, Next, NEW k \in Kid,
                      bindings[k] # None, bindings'[k] = None
               PROVE  k \notin held'[bindings[k]]
    OBVIOUS
  <2>0. TypeOK /\ (cands # <<>> => Head(cands) \in Plugin)
    BY CandidateTypes DEF IInv, TypeOK
  <2>1. ASSUME NEW j \in Kid, NEW op \in Op, Removed(ResolveForKey(j, op), j)
        PROVE  k \notin held'[bindings[k]]
    <3>1. k = j
      BY <2>0, <2>1 DEF Removed, TypeOK
    <3>2. ResolveForKey(j, op) = bindings[k]
      BY <3>1 DEF ResolveForKey
    <3> QED BY <2>0, <2>1, <3>1, <3>2 DEF Removed, TypeOK
  <2>2. CASE UNCHANGED bindings
    BY <2>2
  <2>3. ASSUME NEW p \in Plugin, BindKeys(p) PROVE FALSE
    BY <2>3, NoneIsNone DEF BindKeys, BindKids
  <2>4. ASSUME NEW j \in Kid, NEW level \in Level, Generated(j, level)
        PROVE  FALSE
    <3>1. Head(cands) \in Plugin
      BY <2>0, <2>4 DEF Generated, IInv, CallTypes
    <3> QED BY <2>0, <2>4, <3>1, NoneIsNone DEF Generated, TypeOK
  <2>5. ASSUME NEW j \in Kid, NEW new \in Kid, NEW target \in Plugin,
               MigrateKey(j, target, new)
        PROVE  FALSE
    <3>1. \/ UNCHANGED bindings
          \/ bindings' = [bindings EXCEPT ![new] = target]
      BY <2>5 DEF MigrateKey
    <3> QED BY <2>0, <3>1, NoneIsNone DEF TypeOK
  <2>6. CASE RejectedDeleted
    BY <2>6, <2>1 DEF RejectedDeleted, IInv, CallTypes, Op, KeyOp
  <2>7. CASE GeneratingStep
    BY <2>2, <2>4, <2>6, <2>7
       DEF GeneratingStep, NextCandidate, GeneratedInVain, GenerateFails,
           GenerateStops, Accept, Shortfall, NotConfirmed, Reject,
           RejectedDeleteFails
  <2>8. ASSUME NEW j \in Kid, DeleteKey(j)
        PROVE  k \notin held'[bindings[k]]
    BY <2>8, <2>1, <2>2 DEF DeleteKey, Op, KeyOp
  <2>9. CASE \/ GenerateKey
             \/ \E p \in Plugin : GenerateKeyWithPlugin(p)
             \/ \E cs \in CandidateLists, level \in Asked :
                  GenerateKeyForLevel(cs, level)
    BY <2>9, <2>2 DEF GenerateKey, GenerateKeyWithPlugin, GenerateKeyForLevel,
         StartGenerate
  <2> QED
    BY <2>2, <2>3, <2>5, <2>7, <2>8, <2>9
       DEF Next, RegisterPlugin, Abort, LifecycleProvision, LifecyclePurge
<1> QED BY <1>1, Inductive, PTL DEF Spec, UnboundOnlyWhenGone

\* generate_key_for_level returns a key only at the level asked for, as the
\* plugin that made it recorded it: security_properties resolves the kid to
\* that plugin, whatever operation_defaults say.
THEOREM AcceptsOnlyTheLevel == Spec => AcceptedMeetsLevel
<1>1. IInv /\ [Next]_vars =>
        [outcome' # outcome /\ outcome'.res = "accepted" =>
           LET p == Head(cands) IN
           /\ outcome'.kid \in held'[p]
           /\ minted'[p][outcome'.kid] >= required]_vars
  <2> SUFFICES ASSUME IInv, Next, outcome' # outcome, outcome'.res = "accepted"
               PROVE  /\ outcome'.kid \in held'[Head(cands)]
                      /\ minted'[Head(cands)][outcome'.kid] >= required
    OBVIOUS
  <2>1. ASSUME NEW res \in Result \ {"accepted"}, NEW k, Return(res, k)
        PROVE  FALSE
    BY <2>1 DEF Return
  <2>2. CASE AttemptFailed
    BY <2>2, <2>1 DEF AttemptFailed, Result
  <2>3. CASE Accept
    <3>1. /\ outcome'.kid = cur /\ UNCHANGED <<held, minted>>
          /\ cur \in Kid /\ cur \in held[Head(cands)]
          /\ bindings[cur] = Head(cands)
      BY <2>3 DEF Accept, Return, IInv, CallTypes, CallInv
    <3>2. ResolveForKey(cur, "security_properties") = Head(cands)
      BY <2>3, <3>1, CandidateTypes, NoneIsNone
         DEF ResolveForKey, Accept, IInv, TypeOK, CallInv
    <3>3. minted[Head(cands)][cur] >= required
      BY <2>3, <3>2 DEF Accept, Vouched
    <3> QED BY <3>1, <3>3
  <2>4. CASE GeneratingStep
    BY <2>1, <2>2, <2>3, <2>4
       DEF GeneratingStep, NextCandidate, Generated, GeneratedInVain,
           GenerateFails, GenerateStops, Shortfall, NotConfirmed, Reject,
           RejectedDeleted, RejectedDeleteFails, Result
  <2>5. CASE \/ GenerateKey
             \/ \E p \in Plugin : GenerateKeyWithPlugin(p)
             \/ \E cs \in CandidateLists, level \in Asked :
                  GenerateKeyForLevel(cs, level)
    BY <2>5, <2>1 DEF GenerateKey, GenerateKeyWithPlugin, GenerateKeyForLevel,
         StartGenerate, Result
  <2> QED
    BY <2>1, <2>4, <2>5
       DEF Next, RegisterPlugin, BindKeys, BindKids, Abort, DeleteKey,
           MigrateKey, LifecycleProvision, LifecyclePurge, Result
<1> QED BY <1>1, Inductive, PTL DEF Spec, AcceptedMeetsLevel

(***************************************************************************)
(* The safety half of termination: what CallReturns needs besides the      *)
(* fairness of the calls the loop awaits.                                  *)
(***************************************************************************)

\* What is left to do is a number, so that a call cannot advance for ever.
LEMMA StepsLeftIsNat == TypeOK /\ pc # "idle" => StepsLeft \in Nat
BY DEF TypeOK, StepsLeft, Place

\* A failed attempt uses up its candidate.
LEMMA FailedAttemptAdvances ==
  ASSUME TypeOK, pc # "idle", cands # <<>>, AttemptFailed
  PROVE  pc' = "idle" \/ StepsLeft' < StepsLeft
<1>1. CASE EndCall
  BY <1>1 DEF EndCall
<1>2. CASE pc' = "next" /\ cands' = Tail(cands)
  <2>1. Len(cands') = Len(cands) - 1 /\ Len(cands) \in Nat
    BY <1>2, HeadTailProperties DEF TypeOK
  <2> QED BY <1>2, <2>1 DEF TypeOK, StepsLeft, Place
<1> QED BY <1>1, <1>2 DEF AttemptFailed

\* Every step of the system advances the call in progress, if there is one.
LEMMA AdvanceStep ==
  IInv /\ [Next]_vars => [pc # "idle" => pc' = "idle" \/ StepsLeft' < StepsLeft]_vars
<1> SUFFICES ASSUME IInv, Next, pc # "idle"
             PROVE  pc' = "idle" \/ StepsLeft' < StepsLeft
  OBVIOUS
<1>1. TypeOK /\ CallTypes
  BY DEF IInv
<1>2. CASE EndCall
  BY <1>2 DEF EndCall
<1>3. CASE AttemptFailed /\ cands # <<>>
  BY <1>1, <1>3, FailedAttemptAdvances
<1>4. CASE /\ cands' = cands
           /\ \/ pc = "next" /\ pc' = "generate"
              \/ pc = "generate" /\ pc' = "confirm"
              \/ pc = "confirm" /\ pc' = "reject"
  BY <1>1, <1>4 DEF TypeOK, StepsLeft, Place
<1>5. CASE NextCandidate
  BY <1>2, <1>3, <1>4, <1>5 DEF NextCandidate
<1>6. ASSUME NEW k \in Kid, NEW level \in Level,
             Generated(k, level) \/ GeneratedInVain(k, level)
      PROVE  pc' = "idle" \/ StepsLeft' < StepsLeft
  BY <1>1, <1>2, <1>3, <1>4, <1>6 DEF Generated, GeneratedInVain, CallTypes
<1>7. CASE Shortfall \/ NotConfirmed
  BY <1>4, <1>7 DEF Shortfall, NotConfirmed, Reject
<1>8. CASE GeneratingStep
  BY <1>1, <1>2, <1>3, <1>5, <1>6, <1>7, <1>8
     DEF GeneratingStep, GenerateFails, GenerateStops, Accept, RejectedDeleted,
         RejectedDeleteFails, CallTypes
<1> QED
  BY <1>2, <1>8
     DEF Next, RegisterPlugin, BindKeys, GenerateKey, GenerateKeyWithPlugin,
         GenerateKeyForLevel, Abort, DeleteKey, MigrateKey, LifecycleProvision,
         LifecyclePurge, Idle

\* generate_key_for_level tries each candidate of its list once: a call on n
\* candidates is over after at most 4 n + 4 steps.
THEOREM CallsAdvance == Spec => CallAdvances
BY AdvanceStep, Inductive, PTL DEF Spec, CallAdvances

(***************************************************************************)
(* The extent of what a candidate list can leave behind.                   *)
(***************************************************************************)

\* What a failed attempt may have left where the loop goes on: the key of a
\* remote service, or one that a plugin without a cleanup never saw.
LeftByKind(x) ==
  \/ x.plugin \in Service /\ x.why \in {"collision", "lookup"}
  \/ x.plugin \in NoCleanup /\ x.why = "unfinished"

\* A key left behind a success is of those two kinds.
LeftKeysHaveAKind ==
  outcome.res = "accepted" => \A x \in left : LeftByKind(x)

\* While the call goes on, what it has left is of those kinds, or about to be
\* deleted.
KindInv ==
  /\ pc \in {"next", "generate", "confirm"} => \A x \in left : LeftByKind(x)
  /\ pc = "reject" =>
       \A x \in left : \/ LeftByKind(x)
                       \/ x = [plugin |-> Head(cands), why |-> "rejected"]
  /\ LeftKeysHaveAKind

\* A local plugin's new key collides with none ("thumbprint kids make this
\* unreachable for two honest keys", generate_key_on): only a service makes a key
\* that is minted and fails in a way the loop goes on after.
LEMMA VainIsAService ==
  ASSUME IInv, NEW k \in Kid, NEW level \in Level, GeneratedInVain(k, level)
  PROVE  /\ Head(cands) \in Service
         /\ \A x \in left' : x \in left \/ LeftByKind(x)
<1>1. Head(cands) \in Plugin
  BY CandidateTypes DEF GeneratedInVain, IInv, TypeOK, CallTypes
<1>2. Head(cands) \in Service
  BY <1>1, FreshKid DEF GeneratedInVain, MayBind
<1> QED BY <1>2 DEF GeneratedInVain, LeftByKind

LEMMA KindStep == IInv /\ KindInv /\ [Next]_vars => KindInv'
<1> SUFFICES ASSUME IInv, KindInv, [Next]_vars PROVE KindInv'
  OBVIOUS
<1> USE DEF KindInv, LeftKeysHaveAKind
<1>1. ASSUME Idle, UNCHANGED <<callVars, left>>, NEW res \in {"ok", "err"},
             NEW k, Return(res, k)
      PROVE  KindInv'
  BY <1>1 DEF Idle, callVars, Return
<1>2. ASSUME NEW cs, NEW level, StartGenerate(cs, level) PROVE KindInv'
  BY <1>2 DEF StartGenerate, Return
<1>3. ASSUME EndCall, NEW res \in {"ok", "err", "aborted"}, NEW k, Return(res, k)
      PROVE  KindInv'
  BY <1>3 DEF EndCall, Return
<1>4. CASE AttemptFailed /\ pc # "idle" /\ \A x \in left' : LeftByKind(x)
  BY <1>4, <1>3 DEF AttemptFailed, IInv, CallInv
<1>5. CASE NextCandidate
  BY <1>5, <1>3, <1>4 DEF NextCandidate
<1>6. ASSUME NEW k \in Kid, NEW level \in Level, Generated(k, level)
      PROVE  KindInv'
  BY <1>6, <1>3 DEF Generated, IInv, CallInv
<1>7. ASSUME NEW k \in Kid, NEW level \in Level, GeneratedInVain(k, level)
      PROVE  KindInv'
  BY <1>4, <1>7, VainIsAService DEF GeneratedInVain
<1>8. CASE GenerateFails
  <2>1. \A x \in left' : LeftByKind(x)
    BY <1>8 DEF GenerateFails, LeftByKind
  <2> QED BY <1>8, <1>4, <2>1 DEF GenerateFails
<1>9. ASSUME NEW err, GenerateStops(err) PROVE KindInv'
  BY <1>9, <1>3 DEF GenerateStops
<1>10. CASE Accept
  BY <1>10 DEF Accept, EndCall
<1>11. CASE Shortfall \/ NotConfirmed
  BY <1>11 DEF Shortfall, NotConfirmed, Reject, IInv, CallInv
<1>12. CASE RejectedDeleted
  BY <1>12, <1>4 DEF RejectedDeleted
<1>13. CASE RejectedDeleteFails \/ Abort
  BY <1>13, <1>3 DEF RejectedDeleteFails, Abort
<1>14. CASE GeneratingStep
  BY <1>5, <1>6, <1>7, <1>8, <1>9, <1>10, <1>11, <1>12, <1>13, <1>14
     DEF GeneratingStep
<1>15. CASE \/ \E p \in Plugin, S \in SUBSET Kid :
                 RegisterPlugin(p, S) \/ LifecyclePurge(p, S)
            \/ \E p \in Plugin : BindKeys(p)
            \/ \E k \in Kid : DeleteKey(k)
            \/ \E k, new \in Kid, target \in Plugin : MigrateKey(k, target, new)
            \/ \E p \in Plugin, k \in Kid : \E level \in LevelsOf[p] :
                 LifecycleProvision(p, k, level)
  BY <1>15, <1>1
     DEF RegisterPlugin, LifecyclePurge, BindKeys, BindKids, DeleteKey, MigrateKey,
         LifecycleProvision
<1>16. CASE \/ GenerateKey
            \/ \E p \in Plugin : GenerateKeyWithPlugin(p)
            \/ \E cs \in CandidateLists, level \in Asked :
                 GenerateKeyForLevel(cs, level)
  BY <1>16, <1>2 DEF GenerateKey, GenerateKeyWithPlugin, GenerateKeyForLevel
<1>17. CASE UNCHANGED vars
  BY <1>17 DEF vars, callVars
<1> QED BY <1>13, <1>14, <1>15, <1>16, <1>17 DEF Next

\* How far NoKeyLeftBehindSuccess fails: what generate_key_for_level leaves
\* behind a success was made by a remote service, whose kid collides or whose
\* second request failed, or by the platform of a plugin without a cleanup.
THEOREM LeftKeysAreOfTwoKinds == Spec => []LeftKeysHaveAKind
<1>1. Init => KindInv
  BY DEF Init, KindInv, LeftKeysHaveAKind
<1>2. KindInv => LeftKeysHaveAKind
  BY DEF KindInv
<1> QED BY <1>1, <1>2, KindStep, Inductive, PTL DEF Spec

\* Candidate lists without the plugins that may leave a key.
Tidy(cs) == \A i \in DOMAIN cs : cs[i] \notin Service \cup NoCleanup

\* A call for a level has such candidates only, and has left nothing but the
\* key it is about to delete.
TidyInv ==
  /\ required # None => Tidy(cands)
  /\ required # None /\ pc \in {"next", "generate", "confirm"} => left = {}
  /\ pc = "reject" => left \subseteq {[plugin |-> Head(cands), why |-> "rejected"]}
  /\ NoKeyLeftBehindSuccess

LEMMA TidyStep ==
  ASSUME \A cs \in CandidateLists : Tidy(cs)
  PROVE  IInv /\ TidyInv /\ [Next]_vars => TidyInv'
<1> SUFFICES ASSUME IInv, TidyInv, [Next]_vars PROVE TidyInv'
  OBVIOUS
<1> USE DEF TidyInv, NoKeyLeftBehindSuccess
<1>0. cands # <<>> =>
        /\ Tidy(cands) => Head(cands) \notin Service \cup NoCleanup
        /\ Tidy(cands) => Tidy(Tail(cands))
  BY DEF Tidy, IInv, TypeOK
<1>1. ASSUME Idle, UNCHANGED <<callVars, left>>, NEW res \in {"ok", "err"},
             NEW k, Return(res, k)
      PROVE  TidyInv'
  BY <1>1 DEF Idle, callVars, Return, IInv, CallInv
<1>2. ASSUME NEW cs, NEW level, StartGenerate(cs, level),
             level # None => Tidy(cs)
      PROVE  TidyInv'
  BY <1>2 DEF StartGenerate, Return
<1>3. ASSUME EndCall, NEW res \in {"ok", "err", "aborted"}, NEW k, Return(res, k)
      PROVE  TidyInv'
  BY <1>3 DEF EndCall, Return
<1>4. CASE /\ AttemptFailed /\ pc # "idle" /\ cands # <<>>
           /\ required # None => left' = {}
  BY <1>4, <1>3, <1>0 DEF AttemptFailed, IInv, CallInv
<1>5. CASE NextCandidate
  BY <1>5, <1>3, <1>4 DEF NextCandidate
<1>6. ASSUME NEW k \in Kid, NEW level \in Level, Generated(k, level)
      PROVE  TidyInv'
  BY <1>6, <1>3 DEF Generated, IInv, CallInv
<1>7. ASSUME NEW k \in Kid, NEW level \in Level, GeneratedInVain(k, level)
      PROVE  TidyInv'
  <2>1. required = None
    BY <1>7, <1>0, VainIsAService DEF GeneratedInVain, IInv, CallTypes
  <2> QED BY <1>4, <1>7, <2>1 DEF GeneratedInVain, IInv, CallTypes
<1>8. CASE GenerateFails
  <2>1. required # None => left' = {}
    BY <1>8, <1>0 DEF GenerateFails, IInv, CallTypes
  <2> QED BY <1>8, <1>4, <2>1 DEF GenerateFails, IInv, CallTypes
<1>9. ASSUME NEW err, GenerateStops(err) PROVE TidyInv'
  BY <1>9, <1>3 DEF GenerateStops
<1>10. CASE Accept
  BY <1>10 DEF Accept, EndCall, IInv, CallInv, CallTypes
<1>11. CASE Shortfall \/ NotConfirmed
  BY <1>11 DEF Shortfall, NotConfirmed, Reject, IInv, CallInv, CallTypes
<1>12. CASE RejectedDeleted
  <2>1. left' = {}
    BY <1>12 DEF RejectedDeleted
  <2> QED BY <1>12, <1>4, <2>1 DEF RejectedDeleted, IInv, CallTypes
<1>13. CASE RejectedDeleteFails \/ Abort
  BY <1>13, <1>3 DEF RejectedDeleteFails, Abort
<1>14. CASE GeneratingStep
  BY <1>5, <1>6, <1>7, <1>8, <1>9, <1>10, <1>11, <1>12, <1>13, <1>14
     DEF GeneratingStep
<1>15. CASE \/ \E p \in Plugin, S \in SUBSET Kid :
                 RegisterPlugin(p, S) \/ LifecyclePurge(p, S)
            \/ \E p \in Plugin : BindKeys(p)
            \/ \E k \in Kid : DeleteKey(k)
            \/ \E k, new \in Kid, target \in Plugin : MigrateKey(k, target, new)
            \/ \E p \in Plugin, k \in Kid : \E level \in LevelsOf[p] :
                 LifecycleProvision(p, k, level)
  BY <1>15, <1>1
     DEF RegisterPlugin, LifecyclePurge, BindKeys, BindKids, DeleteKey, MigrateKey,
         LifecycleProvision
<1>16. CASE \/ GenerateKey
            \/ \E p \in Plugin : GenerateKeyWithPlugin(p)
            \/ \E cs \in CandidateLists, level \in Asked :
                 GenerateKeyForLevel(cs, level)
  BY <1>16, <1>2 DEF GenerateKey, GenerateKeyWithPlugin, GenerateKeyForLevel
<1>17. CASE UNCHANGED vars
  BY <1>17 DEF vars, callVars
<1> QED BY <1>13, <1>14, <1>15, <1>16, <1>17 DEF Next

\* Where the promise of generate_key_for_level holds as it is written: for
\* callers whose candidate lists name no remote service and no plugin without a
\* cleanup, whatever other plugins are registered and called meanwhile.
THEOREM TidyListsLeaveNothing ==
  (\A cs \in CandidateLists : Tidy(cs)) => (Spec => []NoKeyLeftBehindSuccess)
<1> SUFFICES ASSUME \A cs \in CandidateLists : Tidy(cs)
             PROVE  Spec => []NoKeyLeftBehindSuccess
  OBVIOUS
<1>1. Init => TidyInv
  BY DEF Init, TidyInv, NoKeyLeftBehindSuccess
<1>2. IInv /\ TidyInv /\ [Next]_vars => TidyInv'
  BY TidyStep
<1>3. TidyInv => NoKeyLeftBehindSuccess
  BY DEF TidyInv
<1> QED BY <1>1, <1>2, <1>3, Inductive, PTL DEF Spec
=============================================================================
