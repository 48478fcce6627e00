----------------------------- MODULE FfiManager -----------------------------
(***************************************************************************)
(* The manager as a native host application drives it (FfiWscdManager in   *)
(* src/src/ffi.rs): plugins are registered empty or restored from the      *)
(* blobs the host persisted, their state is exported, and the process can  *)
(* die at any moment, in the middle of a call included. One mutex is held  *)
(* over every call, callbacks included, so calls never interleave.         *)
(* A restart loses every instance and every binding: the FFI constructor   *)
(* takes a default plugin only, and nothing persists key_bindings.         *)
(* While a plugin generates it calls the host back, to prompt its user or  *)
(* to work at the platform; the host may raise any error from there.       *)
(***************************************************************************)
EXTENDS WscdManager, HostErrors

CONSTANTS
  Restorable,  \* plugins with a register_*_plugin_with_state (fido2,
               \* android-keystore, apple-se)
  Container,   \* plugins restored by import_softkey_container (softkey)
  Challenger,  \* the plugin of generate_android_keystore_key_with_challenge
  CallsBack    \* the host's callbacks each plugin generates through

ASSUME HostAssumption ==
  /\ \A S \in SUBSET Kid : S # None
  /\ Restorable \subseteq Plugin \ Service
  /\ Container \subseteq Plugin \ Service
  /\ Challenger \subseteq Restorable
  /\ CallsBack \in [Plugin -> SUBSET {"auth", "transport", "keystore generate",
                                      "keystore", "enclave"}]

VARIABLES
  saved,      \* the keys in the blob the host last exported and persisted,
              \* None if there is no blob
  \* History:
  imported,   \* the keys the latest call brought back from a container
  declined    \* the user has declined a prompt of the latest call

hostVars == <<saved, imported, declined>>
allVars == <<vars, hostVars>>

HostTypeOK ==
  /\ TypeOK
  /\ saved \in [Plugin -> (SUBSET Kid) \cup {None}]
  /\ \A p \in Plugin \ (Restorable \cup Container) : saved[p] = None
  /\ imported \in SUBSET Kid
  /\ declined \in BOOLEAN

HostInit ==
  /\ Init
  /\ saved = [p \in Plugin |-> None]
  /\ imported = {}
  /\ declined = FALSE

-----------------------------------------------------------------------------
\* register_softkey_plugin, register_r2ps_plugin, register_fido2_plugin, ...:
\* a new instance, without keys unless they live on the remote service.
RegisterFresh(p) ==
  /\ RegisterPlugin(p, IF p \in Service THEN held[p] ELSE {})
  /\ UNCHANGED saved

\* Mutant: the restored keys are not bound.
RestoreUnbound(p) ==
  /\ Idle
  /\ p \in Restorable
  /\ saved[p] # None
  /\ Replace(p, saved[p])
  /\ Return("ok", None)
  /\ handed' = [k \in Kid |->
       IF k \in saved[p] \ ctxKeys[p] THEN p
       ELSE IF k \in Forgotten(p, saved[p]) THEN None
       ELSE handed[k]]
  /\ UNCHANGED <<bindings, callVars, minted, ctxKeys, left, saved>>

\* Mutant: the error of bind_keys is swallowed.
RestoreSwallows(p) ==
  /\ Idle
  /\ p \in Restorable
  /\ saved[p] # None
  /\ Replace(p, saved[p])
  /\ bindings' = [k \in Kid |-> IF k \in saved[p] /\ MayBind(k, p) THEN p ELSE bindings[k]]
  /\ Return("ok", None)
  /\ handed' = [k \in Kid |->
       IF k \in saved[p] \ ctxKeys[p] THEN p
       ELSE IF k \in Forgotten(p, saved[p]) THEN None
       ELSE handed[k]]
  /\ UNCHANGED <<callVars, minted, ctxKeys, left, saved>>

\* register_*_plugin_with_state: the instance is registered first, then its
\* keys are bound; if that fails the error is returned, the instance stays.
\* The keys the host made itself are its own again.
RegisterWithState(p) ==
  /\ Idle
  /\ p \in Restorable
  /\ saved[p] # None
  /\ Replace(p, saved[p])
  /\ BindKids(p, saved[p], None)
  /\ handed' = [k \in Kid |->
       IF outcome'.res = "ok" /\ k \in saved[p] \ ctxKeys[p] THEN p
       ELSE IF k \in Forgotten(p, saved[p]) THEN None
       ELSE handed[k]]
  /\ UNCHANGED <<callVars, minted, ctxKeys, left, saved>>

\* import_softkey_container: the instance is registered, nothing is bound.
ImportContainer(p) ==
  /\ p \in Container
  /\ saved[p] # None
  /\ RegisterPlugin(p, saved[p])
  /\ imported' = saved[p]
  /\ UNCHANGED saved

\* Mutant: any registered plugin is exported.
ExportAny(p) ==
  /\ Idle
  /\ p \in registered
  /\ saved' = [saved EXCEPT ![p] = held[p]]
  /\ Return("ok", None)
  /\ UNCHANGED <<registered, held, bindings, callVars, minted, ctxKeys, handed,
                 left>>

\* export_softkey_container, export_*_state, and the host persisting the blob.
ExportState(p) ==
  /\ Idle
  /\ p \in registered \cap (Restorable \cup Container)
  /\ saved' = [saved EXCEPT ![p] = held[p]]
  /\ Return("ok", None)
  /\ UNCHANGED <<registered, held, bindings, callVars, minted, ctxKeys, handed,
                 left>>

\* generate_android_keystore_key_with_challenge: past generate_key_on, the
\* key is generated on the plugin, bound by bind_keys and returned.
GenerateWithChallenge(p, k, level) ==
  /\ Idle
  /\ p \in registered \cap Challenger
  /\ CanMint(p, k)
  /\ minted' = [minted EXCEPT ![p][k] = level]
  /\ held' = [held EXCEPT ![p] = @ \cup {k}]
  /\ BindKids(p, {k}, k)
  /\ handed' = [handed EXCEPT ![k] = IF outcome'.res = "ok" THEN p ELSE @]
  /\ UNCHANGED <<registered, callVars, ctxKeys, left, saved>>

\* The process dies, in the middle of a call or not, and is started again.
Restart ==
  /\ registered' = {}
  /\ held' = [p \in Plugin |-> IF p \in Service THEN held[p] ELSE {}]
  /\ bindings' = [k \in Kid |-> None]
  /\ handed' = [k \in Kid |-> None]
  /\ left' = {}
  /\ EndCall
  /\ Return("ok", None)
  /\ UNCHANGED <<minted, ctxKeys, saved>>

-----------------------------------------------------------------------------
(* The host as the plugin that generates calls it back.                    *)

\* What the bridge of a callback makes of an error the host raises from it.
Converted(callback, raised) ==
  CASE callback = "auth"              -> AuthError(raised)
    [] callback = "transport"         -> TransportError(raised)
    [] callback = "keystore generate" -> KeystoreGenerateError(raised)
    [] callback = "keystore"          -> KeystoreError(raised)
    [] callback = "enclave"           -> SecureEnclaveError(raised)

\* The callbacks that prompt the user; AuthCancelled is their refusal.
Prompting == {"auth", "enclave"}

\* The plugin passes on what it does not handle itself, and the candidate loop
\* stops at a refusal.
HostRaises(callback, raised) ==
  LET err == Converted(callback, raised) IN
  /\ pc = "generate"
  /\ callback \in CallsBack[Head(cands)]
  /\ \/ err = "AuthCancelled" /\ GenerateStops("cancelled")
     \/ err \notin {"AuthCancelled", "StrongBoxUnavailable"} /\ GenerateFails
  /\ declined' = (raised = "AuthCancelled" /\ callback \in Prompting)
  /\ imported' = {}
  /\ UNCHANGED saved

-----------------------------------------------------------------------------
(* The manager's own operations, called through the FFI.                   *)

\* generate_key, generate_key_with_plugin and generate_key_for_level: what a
\* host starts, and how the call goes on or is abandoned.
GeneratingCalls ==
  \/ GenerateKey
  \/ \E p \in Plugin : GenerateKeyWithPlugin(p)
  \/ \E cs \in CandidateLists, level \in Asked : GenerateKeyForLevel(cs, level)
  \/ GeneratingStep
  \/ Abort

\* delete_key and migrate_key.
KeyCalls ==
  \/ \E k \in Kid : DeleteKey(k)
  \/ \E k, new \in Kid, target \in Plugin : MigrateKey(k, target, new)

\* register_lifecycle, rotate_lifecycle and destroy_lifecycle; the other two
\* change no keys.
LifecycleCalls ==
  \/ \E p \in Plugin, k \in Kid : \E level \in LevelsOf[p] :
       LifecycleProvision(p, k, level)
  \/ \E p \in Plugin, S \in SUBSET Kid : LifecyclePurge(p, S)

ManagerStep ==
  /\ GeneratingCalls \/ KeyCalls \/ LifecycleCalls
  /\ declined' = (declined /\ pc # "idle")
  /\ imported' = {}
  /\ UNCHANGED saved

HostStep ==
  /\ \/ \E p \in Plugin : ImportContainer(p)
     \/ /\ \/ \E p \in Plugin :
                RegisterFresh(p) \/ RegisterWithState(p) \/ ExportState(p)
           \/ \E p \in Plugin, k \in Kid : \E level \in LevelsOf[p] :
                GenerateWithChallenge(p, k, level)
           \/ Restart
        /\ imported' = {}
  /\ declined' = FALSE

HostNext ==
  \/ ManagerStep
  \/ HostStep
  \/ \E callback \in UNION {CallsBack[p] : p \in Plugin}, raised \in FfiWscdError :
       HostRaises(callback, raised)

HostSpec == HostInit /\ [][HostNext]_allVars

-----------------------------------------------------------------------------
(* Properties.                                                             *)

\* Once the user has declined a candidate's own prompt, the call is over, and
\* no other plugin makes or returns a key for it: the refusal survives the
\* bridge, the plugin and the candidate loop (map_err of AuthCallbackBridge,
\* secure_enclave_callback_error, generate_key_for_level).
DeclineEndsTheCall == declined => Idle /\ outcome = [res |-> "err", kid |-> None]

\* What a blob brings back: the keys of contexts are not the host's own.
OwnKeysSaved == [p \in Plugin |->
  IF saved[p] = None THEN {} ELSE saved[p] \ ctxKeys[p]]

\* Over restarts the FFI is the directory HostDirectory: an export has every
\* key the host was given, a restore brings all of them back or fails, and
\* neither a restore that fails half way nor the death of the process in the
\* middle of a call leaves the host with a key that is routed elsewhere.
DirectoryOfHost == INSTANCE HostDirectory WITH
  issued <- handed, route <- bindings, answer <- Answer, blob <- OwnKeysSaved

KeepsHostDirectory == DirectoryOfHost!HostSpec

\* "Import a softkey container": as for every restored plugin, operations on
\* the keys it brings back must route to it, not to the default plugin
\* (manager.rs, doc of bind_keys).
ImportedKeysRoutable ==
  \A p \in Container : \A k \in imported \cap held[p] :
    ResolveForKey(k, "sign") = p
=============================================================================
