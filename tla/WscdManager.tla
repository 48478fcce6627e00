---------------------------- MODULE WscdManager ----------------------------
(***************************************************************************)
(* The central manager (src/src/manager.rs): it routes every key operation *)
(* to the plugin that holds the key, generates keys on one plugin or on    *)
(* the first of several candidates that reaches a required certification   *)
(* level, deletes and migrates them, and delegates lifecycle operations.   *)
(*                                                                         *)
(* A plugin is seen through the WscdPlugin trait only: the key ids its     *)
(* registered instance holds, and what each of its calls may return.       *)
(* Operations that take &mut self exclude every other operation, so at     *)
(* most one call is in progress; it is split into steps where a call can   *)
(* be abandoned (a panicking callback, a dropped future) or fail.          *)
(***************************************************************************)
EXTENDS Naturals, Sequences

CONSTANTS
  Plugin,         \* ids a plugin can be registered under
  Kid,            \* key ids
  None,           \* no plugin, no key, no level
  DefaultPlugin,  \* config.default_plugin
  OpDefault,      \* config.operation_defaults: a plugin or None for each Op
  LevelsOf,       \* the certification ranks the keys of a plugin can have
  Service,        \* plugins whose kids are chosen by a remote service and
                  \* that cannot delete a key (r2ps); the others mint the
                  \* thumbprint of a fresh key pair
  Importer,       \* plugins that support_import() (softkey)
  WipesAll,       \* plugins whose destroy_lifecycle clears every key (fido2)
  NoCleanup,      \* plugins that fail with an ordinary error and no cleanup
                  \* where the platform may have made the key already (the
                  \* Secure Enclave)
  CandidateLists, \* candidate lists a caller passes to generate_key_for_level
  Asked           \* the ranks it requires of the key

Level == 0 .. 2   \* certification_rank

\* The operation names resolution looks up in operation_defaults.
KeyOp == {"sign", "attestation", "export_public_key", "security_properties",
          "delete", "migrate"}
Op == KeyOp \cup {"generate_key"}

ASSUME ConfigAssumption ==
  /\ None \notin Plugin \cup Kid \cup Level
  /\ DefaultPlugin \in Plugin
  /\ OpDefault \in [Op -> Plugin \cup {None}]
  /\ LevelsOf \in [Plugin -> SUBSET Level]
  /\ Service \subseteq Plugin
  /\ WipesAll \subseteq Plugin
  /\ NoCleanup \subseteq Plugin
  /\ CandidateLists \subseteq Seq(Plugin)
  /\ Asked \subseteq Level

\* Only a plugin that generates its keys itself imports one: the default
\* supports_import() is false and softkey alone overrides it.
ASSUME ImporterAssumption == Importer \subseteq Plugin \ Service

VARIABLES
  registered,  \* ids with a plugin instance
  held,        \* [Plugin -> SUBSET Kid]: the keys each instance holds
  bindings,    \* config.key_bindings, None where a kid has no entry
  pc,          \* where the generating call in progress is
  cands,       \* its remaining candidates, the one being tried first
  required,    \* the rank it must reach, None for a plain generate_key
  cur,         \* the key the current candidate has generated
  outcome,     \* what the latest call returned
  \* History, read by no action of the manager:
  minted,      \* [Plugin -> [Kid -> rank or None]]: keys a plugin ever made
  ctxKeys,     \* [Plugin -> SUBSET Kid]: keys made for a lifecycle context
  handed,      \* the plugin that holds a key the manager returned to its host
  left         \* what the call in progress has left behind in its plugins

callVars == <<pc, cands, required, cur>>
vars == <<registered, held, bindings, callVars, outcome,
          minted, ctxKeys, handed, left>>

\* Why a key (or platform alias) outlives the attempt that made it.
Why == {"rejected", "unconfirmed", "collision", "lookup", "unfinished"}
Result == {"pending", "ok", "accepted", "err", "aborted"}

TypeOK ==
  /\ registered \in SUBSET Plugin
  /\ held \in [Plugin -> SUBSET Kid]
  /\ bindings \in [Kid -> Plugin \cup {None}]
  /\ pc \in {"idle", "next", "generate", "confirm", "reject"}
  /\ cands \in Seq(Plugin)
  /\ required \in Level \cup {None}
  /\ cur \in Kid \cup {None}
  /\ outcome \in [res: Result, kid: Kid \cup {None}]
  /\ minted \in [Plugin -> [Kid -> Level \cup {None}]]
  /\ ctxKeys \in [Plugin -> SUBSET Kid]
  /\ handed \in [Kid -> Plugin \cup {None}]
  /\ left \in SUBSET [plugin: Plugin, why: Why]

Init ==
  /\ registered = {}
  /\ held = [p \in Plugin |-> {}]
  /\ bindings = [k \in Kid |-> None]
  /\ pc = "idle"
  /\ cands = <<>>
  /\ required = None
  /\ cur = None
  /\ outcome = [res |-> "ok", kid |-> None]
  /\ minted = [p \in Plugin |-> [k \in Kid |-> None]]
  /\ ctxKeys = [p \in Plugin |-> {}]
  /\ handed = [k \in Kid |-> None]
  /\ left = {}

-----------------------------------------------------------------------------
(* Resolution.                                                             *)

\* Mutant: the default of the operation goes before the binding of the key.
OpDefaultFirst(k, op) ==
  IF OpDefault[op] # None THEN OpDefault[op]
  ELSE IF bindings[k] # None THEN bindings[k]
  ELSE DefaultPlugin

\* The id resolve_for_key picks; the call fails if it is not registered.
ResolveForKey(k, op) ==
  IF bindings[k] # None THEN bindings[k]
  ELSE IF OpDefault[op] # None THEN OpDefault[op]
  ELSE DefaultPlugin

\* Mutant: no fallback to default_plugin.
NoGenerateFallback == OpDefault["generate_key"]

ResolveForGenerate ==
  IF OpDefault["generate_key"] # None THEN OpDefault["generate_key"]
  ELSE DefaultPlugin

\* A plugin can hand out k: anything for a remote service, otherwise only
\* the thumbprint of a key pair that did not exist before.
CanMint(p, k) == p \in Service \/ \A q \in Plugin : minted[q][k] = None

\* Mutant: a collision is taken for an update.
BindsAnyway(k, p) == TRUE

\* k is not bound to another plugin, so that binding it to p is no collision.
MayBind(k, p) == bindings[k] \in {None, p}

Idle == pc = "idle"
Return(res, k) == outcome' = [res |-> res, kid |-> k]
EndCall == pc' = "idle" /\ cands' = <<>> /\ required' = None /\ cur' = None

-----------------------------------------------------------------------------
(* Registration and binding.                                               *)

\* register_plugin: the new instance, holding the keys S it was restored
\* with, replaces any instance of that id.
Replace(p, S) ==
  /\ registered' = registered \cup {p}
  /\ held' = [held EXCEPT ![p] = S]

\* The keys p made for its host that a new instance holding S has lost.
Forgotten(p, S) == {k \in Kid : handed[k] = p /\ k \notin S}

\* The bindings are left as they are.
RegisterPlugin(p, S) ==
  /\ Idle
  /\ S \subseteq {k \in Kid : minted[p][k] # None}
  /\ Replace(p, S)
  /\ handed' = [k \in Kid |-> IF k \in Forgotten(p, S) THEN None ELSE handed[k]]
  /\ Return("ok", None)
  /\ UNCHANGED <<bindings, callVars, minted, ctxKeys, left>>

\* bind_keys binds kids one by one and stops at the first that is bound to
\* another plugin; those before it stay bound. A HashMap gives their order.
\* Its caller returns the key k, or None, if it succeeds.
BindKids(p, kids, k) ==
  LET free == {j \in kids : MayBind(j, p)} IN
  \E bound \in SUBSET free :
    /\ free = kids => bound = kids
    /\ bindings' = [j \in Kid |-> IF j \in bound THEN p ELSE bindings[j]]
    /\ \/ free = kids /\ Return("ok", k)
       \/ free # kids /\ Return("err", None)

\* bind_keys on the keys an instance brought back.
BindKeys(p) ==
  /\ Idle
  /\ p \in registered
  /\ BindKids(p, held[p], None)
  /\ UNCHANGED <<registered, held, callVars, minted, ctxKeys, handed, left>>

-----------------------------------------------------------------------------
(* Generation.                                                             *)

StartGenerate(cs, level) ==
  /\ pc' = "next"
  /\ cands' = cs
  /\ required' = level
  /\ cur' = None
  /\ left' = {}
  /\ Return("pending", None)
  /\ UNCHANGED <<registered, held, bindings, minted, ctxKeys, handed>>

\* generate_key: the plugin operation_defaults or default_plugin names.
GenerateKey == Idle /\ StartGenerate(<<ResolveForGenerate>>, None)

\* generate_key_with_plugin.
GenerateKeyWithPlugin(p) == Idle /\ StartGenerate(<<p>>, None)

\* generate_key_for_level.
GenerateKeyForLevel(cs, level) == Idle /\ StartGenerate(cs, level)

\* Mutant: the failed candidate is tried again.
RetrySameCandidate ==
  \/ /\ required = None
     /\ EndCall
     /\ Return("err", None)
  \/ /\ required # None
     /\ pc' = "next"
     /\ cur' = None
     /\ UNCHANGED <<cands, required, outcome>>

\* A failed attempt: a plain generate_key returns the error, the candidate
\* loop goes on with the rest of the list.
AttemptFailed ==
  \/ /\ required = None
     /\ EndCall
     /\ Return("err", None)
  \/ /\ required # None
     /\ pc' = "next"
     /\ cands' = Tail(cands)
     /\ cur' = None
     /\ UNCHANGED <<required, outcome>>

\* The head of the candidate loop: no candidate left, one that get_plugin
\* does not know, or one whose generate_key is called.
NextCandidate ==
  /\ pc = "next"
  /\ \/ /\ cands = <<>>
        /\ EndCall
        /\ Return("err", None)
     \/ /\ cands # <<>>
        /\ Head(cands) \notin registered
        /\ AttemptFailed
     \/ /\ cands # <<>>
        /\ Head(cands) \in registered
        /\ pc' = "generate"
        /\ UNCHANGED <<cands, required, cur, outcome>>
  /\ UNCHANGED <<registered, held, bindings, minted, ctxKeys, handed, left>>

\* The plugin has made k; generate_key_on binds it and returns it, to the
\* host or to the candidate loop for confirmation.
Generated(k, level) ==
  LET p == Head(cands) IN
  /\ pc = "generate"
  /\ level \in LevelsOf[p]
  /\ CanMint(p, k)
  /\ MayBind(k, p)
  /\ minted' = [minted EXCEPT ![p][k] = level]
  /\ held' = [held EXCEPT ![p] = @ \cup {k}]
  /\ bindings' = [bindings EXCEPT ![k] = p]
  /\ \/ /\ required = None
        /\ handed' = [handed EXCEPT ![k] = p]
        /\ EndCall
        /\ Return("ok", k)
     \/ /\ required # None
        /\ pc' = "confirm"
        /\ cur' = k
        /\ UNCHANGED <<cands, required, outcome, handed>>
  /\ UNCHANGED <<registered, ctxKeys, left>>

\* The plugin has made k, and nothing deletes it although the attempt fails:
\* that kid is bound to another plugin, or the request with which r2ps looks
\* up the key its service has just made fails.
GeneratedInVain(k, level) ==
  LET p == Head(cands) IN
  /\ pc = "generate"
  /\ level \in LevelsOf[p]
  /\ CanMint(p, k)
  /\ minted' = [minted EXCEPT ![p][k] = level]
  /\ held' = [held EXCEPT ![p] = @ \cup {k}]
  /\ \/ /\ ~MayBind(k, p)
        /\ left' = left \cup {[plugin |-> p, why |-> "collision"]}
     \/ /\ p \in Service
        /\ left' = left \cup {[plugin |-> p, why |-> "lookup"]}
  /\ AttemptFailed
  /\ UNCHANGED <<registered, bindings, ctxKeys, handed>>

\* An ordinary error of plugin.generate_key. The platform of a NoCleanup plugin
\* may hold a key by then that the plugin has no record of.
GenerateFails ==
  /\ pc = "generate"
  /\ \/ UNCHANGED left
     \/ /\ Head(cands) \in NoCleanup
        /\ left' = left \cup {[plugin |-> Head(cands), why |-> "unfinished"]}
  /\ AttemptFailed
  /\ UNCHANGED <<registered, held, bindings, minted, ctxKeys, handed>>

\* AuthCancelled, Pin and UnconfirmedCleanup end the whole call; after the
\* last of them the platform may still hold a key nobody has a record of.
GenerateStops(err) ==
  /\ pc = "generate"
  /\ left' = IF err = "unconfirmed"
               THEN left \cup {[plugin |-> Head(cands), why |-> "unconfirmed"]}
               ELSE left
  /\ EndCall
  /\ Return("err", None)
  /\ UNCHANGED <<registered, held, bindings, minted, ctxKeys, handed>>

\* What security_properties reports for the key: its rank, as recorded by
\* the plugin the kid resolves to.
Vouched(k, level) ==
  LET p == ResolveForKey(k, "security_properties") IN
  /\ p \in registered
  /\ k \in held[p]
  /\ minted[p][k] = level

\* Mutant: one level too low is accepted.
AcceptBelow ==
  /\ pc = "confirm"
  /\ \E level \in Level : Vouched(cur, level) /\ level + 1 >= required
  /\ handed' = [handed EXCEPT ![cur] = bindings[cur]]
  /\ EndCall
  /\ Return("accepted", cur)
  /\ UNCHANGED <<registered, held, bindings, minted, ctxKeys, left>>

\* The level is confirmed and high enough: the key is returned.
Accept ==
  /\ pc = "confirm"
  /\ \E level \in Level : Vouched(cur, level) /\ level >= required
  /\ handed' = [handed EXCEPT ![cur] = bindings[cur]]
  /\ EndCall
  /\ Return("accepted", cur)
  /\ UNCHANGED <<registered, held, bindings, minted, ctxKeys, left>>

\* The key is rejected: its deletion is the next thing the loop does.
Reject ==
  /\ pc' = "reject"
  /\ left' = left \cup {[plugin |-> Head(cands), why |-> "rejected"]}
  /\ UNCHANGED <<registered, held, bindings, cands, required, cur, outcome,
                 minted, ctxKeys, handed>>

\* The level is confirmed and too low.
Shortfall ==
  /\ pc = "confirm"
  /\ \E level \in Level : Vouched(cur, level) /\ level < required
  /\ Reject

\* security_properties returns an error, as it may for any key.
NotConfirmed == pc = "confirm" /\ Reject

\* plugin.delete_key succeeds for k at p and the manager drops the binding.
Removed(p, k) ==
  /\ p \in registered \ Service
  /\ k \in held[p]
  /\ held' = [held EXCEPT ![p] = @ \ {k}]
  /\ bindings' = [bindings EXCEPT ![k] = None]
  /\ handed' = [handed EXCEPT ![k] = None]

\* Mutant: the loop is left after the deletion, and the deleted key returned.
DeletedReturned ==
  /\ pc = "reject"
  /\ Removed(ResolveForKey(cur, "delete"), cur)
  /\ left' = left \ {[plugin |-> Head(cands), why |-> "rejected"]}
  /\ EndCall
  /\ Return("ok", cur)
  /\ UNCHANGED <<registered, minted, ctxKeys>>

\* The rejected key is deleted and the loop goes on.
RejectedDeleted ==
  /\ pc = "reject"
  /\ Removed(ResolveForKey(cur, "delete"), cur)
  /\ left' = left \ {[plugin |-> Head(cands), why |-> "rejected"]}
  /\ AttemptFailed
  /\ UNCHANGED <<registered, minted, ctxKeys>>

\* Mutant: the failed deletion is swallowed and the next candidate tried.
RejectedDeleteSwallowed ==
  /\ pc = "reject"
  /\ AttemptFailed
  /\ UNCHANGED <<registered, held, bindings, minted, ctxKeys, handed, left>>

\* Deleting it fails: the call stops and reports both errors.
RejectedDeleteFails ==
  /\ pc = "reject"
  /\ EndCall
  /\ Return("err", None)
  /\ UNCHANGED <<registered, held, bindings, minted, ctxKeys, handed, left>>

\* The call is abandoned while it waits for its plugin. A plugin that was
\* generating may have stored the key already.
Abort ==
  /\ pc \in {"generate", "reject"}
  /\ \/ UNCHANGED <<held, minted>>
     \/ /\ pc = "generate"
        /\ \E k \in Kid, level \in LevelsOf[Head(cands)] :
             /\ CanMint(Head(cands), k)
             /\ minted' = [minted EXCEPT ![Head(cands)][k] = level]
             /\ held' = [held EXCEPT ![Head(cands)] = @ \cup {k}]
  /\ EndCall
  /\ Return("aborted", None)
  /\ UNCHANGED <<registered, bindings, ctxKeys, handed, left>>

-----------------------------------------------------------------------------
(* Deletion, migration, lifecycle.                                         *)

\* Mutant: the binding is dropped before the plugin is asked.
UnbindThenDelete(k) ==
  /\ Idle
  /\ \/ /\ Removed(ResolveForKey(k, "delete"), k)
        /\ Return("ok", None)
     \/ /\ bindings' = [bindings EXCEPT ![k] = None]
        /\ Return("err", None)
        /\ UNCHANGED <<held, handed>>
  /\ UNCHANGED <<registered, callVars, minted, ctxKeys, left>>

\* delete_key.
DeleteKey(k) ==
  /\ Idle
  /\ \/ /\ Removed(ResolveForKey(k, "delete"), k)
        /\ Return("ok", None)
     \/ /\ Return("err", None)  \* no such plugin or key, or a failing backend
        /\ UNCHANGED <<held, bindings, handed>>
  /\ UNCHANGED <<registered, callVars, minted, ctxKeys, left>>

\* migrate_key: the target makes a new key, new, bound to it; the old key and
\* its binding stay.
MigrateKey(k, target, new) ==
  /\ Idle
  /\ \/ LET source == ResolveForKey(k, "migrate") IN
        /\ target \in registered \cap Importer
        /\ source \in registered
        /\ k \in held[source]
        /\ CanMint(target, new)
        /\ \E level \in LevelsOf[target] :
             minted' = [minted EXCEPT ![target][new] = level]
        /\ held' = [held EXCEPT ![target] = @ \cup {new}]
        /\ bindings' = [bindings EXCEPT ![new] = target]
        /\ handed' = [handed EXCEPT ![new] = target]
        /\ Return("ok", new)
     \/ /\ Return("err", None)  \* an error, or ReEnrollmentRequired
        /\ UNCHANGED <<held, bindings, handed, minted>>
  /\ UNCHANGED <<registered, callVars, ctxKeys, left>>

\* register_lifecycle and rotate_lifecycle of softkey and fido2 make a key
\* for a context; the manager only delegates and records no binding.
LifecycleProvision(p, k, level) ==
  /\ Idle
  /\ p \in registered \ Service
  /\ CanMint(p, k)
  /\ minted' = [minted EXCEPT ![p][k] = level]
  /\ held' = [held EXCEPT ![p] = @ \cup {k}]
  /\ ctxKeys' = [ctxKeys EXCEPT ![p] = @ \cup {k}]
  /\ Return("ok", None)
  /\ UNCHANGED <<registered, bindings, callVars, handed, left>>

\* destroy_lifecycle, and re-registering a context, remove keys of contexts;
\* the destroy of a WipesAll plugin removes every key it holds.
LifecyclePurge(p, S) ==
  /\ Idle
  /\ p \in registered \ Service
  /\ \/ S \subseteq ctxKeys[p]
     \/ p \in WipesAll /\ S = held[p]
  /\ held' = [held EXCEPT ![p] = @ \ S]
  /\ Return("ok", None)
  /\ UNCHANGED <<registered, bindings, callVars, minted, ctxKeys, handed, left>>

-----------------------------------------------------------------------------
GeneratingStep ==
  \/ NextCandidate
  \/ \E k \in Kid, level \in Level :
       Generated(k, level) \/ GeneratedInVain(k, level)
  \/ GenerateFails
  \/ \E err \in {"cancelled", "pin", "unconfirmed"} : GenerateStops(err)
  \/ Accept
  \/ Shortfall
  \/ NotConfirmed
  \/ RejectedDeleted
  \/ RejectedDeleteFails

Next ==
  \/ \E p \in Plugin, S \in SUBSET Kid : RegisterPlugin(p, S)
  \/ \E p \in Plugin : BindKeys(p)
  \/ GenerateKey
  \/ \E p \in Plugin : GenerateKeyWithPlugin(p)
  \/ \E cs \in CandidateLists, level \in Asked : GenerateKeyForLevel(cs, level)
  \/ GeneratingStep
  \/ Abort
  \/ \E k \in Kid : DeleteKey(k)
  \/ \E k, new \in Kid, target \in Plugin : MigrateKey(k, target, new)
  \/ \E p \in Plugin, k \in Kid : \E level \in LevelsOf[p] :
       LifecycleProvision(p, k, level)
  \/ \E p \in Plugin, S \in SUBSET Kid : LifecyclePurge(p, S)

Spec == Init /\ [][Next]_vars

\* Callers await a generating call, its plugin calls return (the host answers
\* its prompts) and nothing else in the loop blocks.
FairSpec == Spec /\ WF_vars(GeneratingStep)

-----------------------------------------------------------------------------
(* Properties.                                                             *)

\* A key the manager has returned to its host stays usable until the host
\* deletes it or registers the plugin anew: every operation on its kid
\* resolves to the plugin that made it, and that instance still holds it,
\* whatever other plugins generate, import, restore or purge meanwhile.
HandedKeyReachable ==
  \A k \in Kid : handed[k] # None =>
    /\ \A op \in KeyOp : ResolveForKey(k, op) = handed[k]
    /\ handed[k] \in registered
    /\ handed[k] \notin WipesAll => k \in held[handed[k]]

\* generate_key_for_level returns a key only if the plugin that generated it
\* holds it, at the required level or above, although the level is read back
\* through the routing table (manager.rs generate_key_for_level, step 2).
AcceptedMeetsLevel ==
  [][outcome' # outcome /\ outcome'.res = "accepted" =>
       LET p == Head(cands) IN
       /\ outcome'.kid \in held'[p]
       /\ minted'[p][outcome'.kid] >= required]_vars

\* A successful generate_key_for_level hides no key it rejected and no key
\* whose cleanup was not confirmed (the loop must stop at those).
NoOrphanBehindSuccess ==
  outcome.res = "accepted" =>
    \A x \in left : x.why \notin {"rejected", "unconfirmed"}

\* A bound kid is never re-routed: it keeps its plugin until it is unbound.
BindingStable ==
  [][\A k \in Kid : bindings[k] # None /\ bindings'[k] # None
                      => bindings'[k] = bindings[k]]_vars

\* A binding is only dropped once its plugin no longer holds the key, so a
\* failed deletion never strands a live key on the default plugin.
UnboundOnlyWhenGone ==
  [][\A k \in Kid : bindings[k] # None /\ bindings'[k] = None
                      => k \notin held'[bindings[k]]]_vars

\* What the host reads from a result: success or not, and the key.
Answer ==
  [res |-> IF outcome.res \in {"ok", "accepted"} THEN "ok" ELSE "no",
   kid |-> outcome.kid]

\* To its host the manager is the directory KeyDirectory: a generating call
\* issues its key in one step whatever it tried, deleted or left before, no
\* cleanup takes an issued key away, and migration keeps the old one routed.
Directory == INSTANCE KeyDirectory WITH
  issued <- handed, route <- bindings, answer <- Answer

KeepsDirectory == Directory!Spec

\* What a call in progress has left to do at most: four steps for a candidate.
Place == [next |-> 0, generate |-> 1, confirm |-> 2, reject |-> 3]
StepsLeft == 4 * Len(cands) + 3 - Place[pc]

\* No step lets the loop of generate_key_for_level go round: it ends the call
\* or leaves it with less to do, whatever fails, is rejected or is deleted, and
\* no other operation comes in between.
CallAdvances == [][pc # "idle" => pc' = "idle" \/ StepsLeft' < StepsLeft]_vars

\* Every generating call returns: each pass of the loop uses up a candidate.
CallReturns == pc # "idle" ~> pc = "idle"

\* The doc of generate_key_for_level: a rejected key "must not linger in the
\* backend as an orphan", behind a call that reports success.
NoKeyLeftBehindSuccess == outcome.res = "accepted" => left = {}

=============================================================================
