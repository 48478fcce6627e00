---------------------------- MODULE PlatformKeys ----------------------------
(***************************************************************************)
(* Keys held by the platform: the Android Keystore plugin                  *)
(* (src/src/plugins/android_keystore.rs) and the Secure Enclave plugin     *)
(* (src/src/plugins/apple_secure_enclave.rs).                              *)
(*                                                                         *)
(* The platform's store of aliases is not part of src/: every call to it   *)
(* may fail, and one that fails may have been performed.  The plugin's     *)
(* records are kept under a mutex between those calls, exported, restored  *)
(* from an older export, and calls are abandoned at any of them.           *)
(***************************************************************************)
EXTENDS Integers, HostErrors

CONSTANTS
  Caller, None,
  Attestation, \* what the platform may say of a key: its level, and the
               \* length of its certificate chain
  MaxKeys, MaxRestarts  \* bounds: generations; restarts

Level == {"StrongBox", "TrustedExecution", "Software", "Unknown"}

ASSUME PlatformAssumption ==
  /\ Attestation \subseteq [level : Level, certs : Nat]
  /\ None \notin Attestation
  /\ MaxKeys \in Nat /\ MaxRestarts \in Nat

\* A generation draws a random alias, and another for its second attempt.
Alias == (1 .. MaxKeys) \X {"first", "second"}

VARIABLES
  kind,      \* "android" or "apple"
  made,      \* generations so far
  alive,     \* aliases the platform holds
  truth,     \* what it generated under each, None if nothing was confirmed
  keys,      \* aliases the plugin has a record of
  recorded,  \* the level and the chain of each record
  saved,     \* the records of the latest export
  phase, at, got,  \* of each caller: its step, its alias, the level it got
  restarts,
  \* History:
  doomed,    \* keys whose deletion the host wants and has not got yet
  gone,      \* keys whose deletion succeeded
  excuse     \* why an alias may be alive without a record

vars == <<kind, made, alive, truth, keys, recorded, saved, phase, at, got,
          restarts, doomed, gone, excuse>>

Attempts == {"strongbox", "tee", "enclave"}
Cleanups == {"clean strongbox", "clean"}
Generating == Attempts \cup Cleanups \cup {"finish"}
Phase == Generating \cup {"idle", "delete", "forget"}

Init ==
  /\ kind \in {"android", "apple"}
  /\ made = 0 /\ restarts = 0
  /\ alive = {} /\ keys = {} /\ saved = {} /\ doomed = {} /\ gone = {}
  /\ truth = [a \in Alias |-> None]
  /\ recorded = [a \in Alias |-> None]
  /\ phase = [c \in Caller |-> "idle"]
  /\ at = [c \in Caller |-> None]
  /\ got = [c \in Caller |-> None]
  /\ excuse = [a \in Alias |-> "none"]

\* Where a call stands; it uses the same alias for as long as it lasts.
GoesOn(c, step) == phase' = [phase EXCEPT ![c] = step]
Ends(c) ==
  /\ phase' = [phase EXCEPT ![c] = "idle"]
  /\ at' = [at EXCEPT ![c] = None]
  /\ got' = [got EXCEPT ![c] = None]

Store == <<keys, recorded, saved>>
Rest == <<kind, restarts, doomed, gone>>

-----------------------------------------------------------------------------
(* Generating.                                                             *)

\* Mutant: the alias of the last generation is used again.
AliasUsedAgain(c) ==
  /\ phase[c] = "idle" /\ made < MaxKeys
  /\ GoesOn(c, IF kind = "android" THEN "strongbox" ELSE "enclave")
  /\ at' = [at EXCEPT ![c] = <<made + 1, "first">>]
  /\ UNCHANGED <<made, alive, truth, Store, got, Rest, excuse>>

\* generate_key and generate_key_with_challenge.
StartGenerate(c) ==
  /\ phase[c] = "idle" /\ made < MaxKeys
  /\ made' = made + 1
  /\ GoesOn(c, IF kind = "android" THEN "strongbox" ELSE "enclave")
  /\ at' = [at EXCEPT ![c] = <<made + 1, "first">>]
  /\ UNCHANGED <<alive, truth, Store, got, Rest, excuse>>

\* The platform generates, and confirms where; or fails, half done or not.
Confirmed(c) ==
  /\ alive' = alive \cup {at[c]}
  /\ \E att \in Attestation : /\ truth' = [truth EXCEPT ![at[c]] = att]
                              /\ got' = [got EXCEPT ![c] = att.level]
  /\ GoesOn(c, "finish")
  /\ UNCHANGED <<at, excuse>>
HalfMade(c) == alive' \in {alive, alive \cup {at[c]}}

\* best_effort_generate: StrongBox first, and the TEE if the device has none.
StrongBox(c) ==
  /\ phase[c] = "strongbox"
  /\ \/ Confirmed(c)
     \/ /\ HalfMade(c)
        /\ \E err \in {KeystoreGenerateError(e) : e \in FfiWscdError} :
             GoesOn(c, IF err = "StrongBoxUnavailable"
                       THEN "clean strongbox" ELSE "clean")
        /\ UNCHANGED <<truth, at, got, excuse>>
  /\ UNCHANGED <<made, Store, Rest>>

Tee(c) ==
  /\ phase[c] = "tee"
  /\ \/ Confirmed(c)
     \/ HalfMade(c) /\ GoesOn(c, "clean") /\ UNCHANGED <<truth, at, got, excuse>>
  /\ UNCHANGED <<made, Store, Rest>>

\* The deletion failed, or only its answer did, and the host is told so.
Unconfirmed(c) ==
  /\ alive' \in {alive, alive \ {at[c]}}
  /\ excuse' = [excuse EXCEPT ![at[c]] = ToFfi("UnconfirmedCleanup")]
  /\ Ends(c)

\* Mutant: the TEE is tried although the cleanup failed.
FallsBackAnyway(c) ==
  /\ phase[c] = "clean strongbox"
  /\ alive' \in {alive, alive \ {at[c]}}
  /\ at' = [at EXCEPT ![c] = <<at[c][1], "second">>]
  /\ GoesOn(c, "tee")
  /\ UNCHANGED <<made, truth, got, excuse, Store, Rest>>

\* StrongBox is unavailable: the alias of that attempt goes first.
CleanStrongBox(c) ==
  /\ phase[c] = "clean strongbox"
  /\ \/ /\ alive' = alive \ {at[c]}
        /\ at' = [at EXCEPT ![c] = <<at[c][1], "second">>]
        /\ GoesOn(c, "tee")
        /\ UNCHANGED <<got, excuse>>
     \/ Unconfirmed(c)
  /\ UNCHANGED <<made, truth, Store, Rest>>

\* delete_after_failed_generate; the original error if the alias is gone.
Clean(c) ==
  /\ phase[c] = "clean"
  /\ \/ alive' = alive \ {at[c]} /\ Ends(c) /\ UNCHANGED excuse
     \/ Unconfirmed(c)
  /\ UNCHANGED <<made, truth, Store, Rest>>

\* The enclave's generate_key cleans nothing up.
Enclave(c) ==
  /\ phase[c] = "enclave"
  /\ \/ Confirmed(c)
     \/ /\ HalfMade(c) /\ Ends(c)
        /\ excuse' = [excuse EXCEPT ![at[c]] = "unfinished"]
        /\ UNCHANGED truth
  /\ UNCHANGED <<made, Store, Rest>>

\* finish_generate_key: the platform is asked for the chain and the public
\* key, which may fail, and the record made.  The enclave has none to ask for.
Finish(c) ==
  /\ phase[c] = "finish"
  /\ \/ /\ keys' = keys \cup {at[c]}
        /\ recorded' = [recorded EXCEPT ![at[c]] =
             [level |-> got[c],
              certs |-> IF kind = "android" THEN truth[at[c]].certs ELSE 0]]
        /\ Ends(c)
     \/ /\ kind = "android"
        /\ GoesOn(c, "clean")
        /\ UNCHANGED <<keys, recorded, at, got>>
  /\ UNCHANGED <<made, alive, truth, saved, Rest, excuse>>

-----------------------------------------------------------------------------
(* Deleting.                                                               *)

\* delete_key: the alias is looked up, and the record left for now.
StartDelete(c, k) ==
  /\ phase[c] = "idle" /\ k \in keys
  /\ GoesOn(c, "delete")
  /\ at' = [at EXCEPT ![c] = k]
  /\ doomed' = doomed \cup {k}
  /\ UNCHANGED <<kind, made, alive, truth, Store, got, restarts, gone, excuse>>

\* What the plugin hears of a deletion the platform carries out: the enclave's
\* host raises KeyNotFound if it has no such key, Android's raises nothing.
DeletionAnswer(c) ==
  IF kind = "apple" /\ at[c] \notin alive THEN SecureEnclaveError("KeyNotFound")
  ELSE "ok"

\* Deleted, or gone already.
Deleted(c) ==
  /\ phase[c] = "delete"
  /\ DeletionAnswer(c) \in {"ok", "KeyNotFound"}
  /\ alive' = alive \ {at[c]}
  /\ GoesOn(c, "forget")
  /\ UNCHANGED <<made, truth, Store, at, got, Rest, excuse>>

\* Mutant: any error counts as deleted.
ErrorIsDeleted(c) ==
  /\ phase[c] = "delete"
  /\ alive' \in {alive, alive \ {at[c]}}
  /\ GoesOn(c, "forget")
  /\ UNCHANGED <<made, truth, Store, at, got, Rest, excuse>>

DeleteFails(c) ==
  /\ phase[c] = "delete"
  /\ alive' \in {alive, alive \ {at[c]}}
  /\ Ends(c)
  /\ UNCHANGED <<made, truth, Store, Rest, excuse>>

\* Only now is the record dropped.
Forget(c) ==
  /\ phase[c] = "forget"
  /\ keys' = keys \ {at[c]}
  /\ gone' = gone \cup {at[c]}
  /\ doomed' = doomed \ {at[c]}
  /\ Ends(c)
  /\ UNCHANGED <<kind, made, alive, truth, recorded, saved, restarts, excuse>>

-----------------------------------------------------------------------------
(* The host.                                                               *)

\* export_state, export_container.
Export ==
  /\ saved' = keys
  /\ UNCHANGED <<made, alive, truth, keys, recorded, phase, at, got, Rest, excuse>>

\* A call is abandoned while it waits for the platform, which may go on.
Abort(c) ==
  /\ \/ phase[c] \in Attempts \cup Cleanups \cup {"delete"}
     \/ phase[c] = "finish" /\ kind = "android"
  /\ alive' \in
       CASE phase[c] \in Attempts -> {alive, alive \cup {at[c]}}
         [] phase[c] = "finish" -> {alive}
         [] OTHER -> {alive, alive \ {at[c]}}
  /\ excuse' = IF phase[c] = "delete" THEN excuse
               ELSE [excuse EXCEPT ![at[c]] = "abandoned"]
  /\ Ends(c)
  /\ UNCHANGED <<made, truth, Store, Rest>>

\* A new process starts from the latest export: from_state, from_container.
\* What was recorded or begun since then has no record any more; the platform
\* may still perform what it was asked for.
Restart ==
  /\ restarts < MaxRestarts
  /\ restarts' = restarts + 1
  /\ \E done \in SUBSET Caller :
       alive' = (alive \cup {at[c] : c \in {d \in done : phase[d] \in Attempts}})
                  \ {at[c] : c \in {d \in done : phase[d] \in Cleanups \cup {"delete"}}}
  /\ keys' = saved
  /\ phase' = [c \in Caller |-> "idle"]
  /\ at' = [c \in Caller |-> None]
  /\ got' = [c \in Caller |-> None]
  /\ doomed' = doomed \cap saved
  /\ excuse' = [a \in Alias |-> IF a \in alive' \ saved THEN "lost" ELSE excuse[a]]
  /\ UNCHANGED <<kind, made, truth, recorded, saved, gone>>

-----------------------------------------------------------------------------
Step(c) ==
  \/ StrongBox(c)
  \/ Tee(c)
  \/ CleanStrongBox(c)
  \/ Clean(c)
  \/ Enclave(c)
  \/ Finish(c)
  \/ Deleted(c)
  \/ DeleteFails(c)
  \/ Forget(c)

Next ==
  \/ \E c \in Caller : StartGenerate(c)
  \/ \E c \in Caller, k \in keys : StartDelete(c, k)
  \/ \E c \in Caller : Step(c)
  \/ \E c \in Caller : Abort(c)
  \/ Export
  \/ Restart

Spec == Init /\ [][Next]_vars

\* The host deletes again what is not deleted yet.
Retry(k) == k \in doomed /\ \E c \in Caller : StartDelete(c, k)

\* The platform answers every call, and does not fail every deletion for
\* ever; a host that wants something deleted asks again until it is.
FairSpec ==
  /\ Spec
  /\ \A c \in Caller : WF_vars(Step(c))
  /\ SF_vars(\E c \in Caller : Deleted(c))
  /\ SF_vars(\E k \in Alias : Retry(k))

-----------------------------------------------------------------------------
(* What the plugin says of a key.                                          *)

Hardware == {"StrongBox", "TrustedExecution"}

\* as_certification_level and as_key_storage_type.  A level the platform did
\* not say counts as software.
LevelRank(level) ==
  CASE level = "StrongBox" -> 2
    [] level = "TrustedExecution" -> 1
    [] OTHER -> 0

\* The enclave's keys are hardware keys by construction of its API, and
\* nothing proves it.
KeyStorage(k) ==
  IF kind = "apple" \/ recorded[k].level = "StrongBox" THEN "Hardware"
  ELSE IF recorded[k].level = "TrustedExecution" THEN "TrustedExecution"
  ELSE "Software"

\* amr_for.
Amr(k) ==
  IF kind = "apple" THEN {"hwk"}
  ELSE IF recorded[k].level \in Hardware THEN {"hwk", "pop"} ELSE {"swk"}

\* Mutant: the chain is not looked at.
LevelAlone(k) == IF kind = "apple" THEN 0 ELSE LevelRank(recorded[k].level)

\* security_properties: the rank of the certification it reports.
Certification(k) ==
  IF kind = "apple" \/ recorded[k].certs < 2 THEN 0
  ELSE LevelRank(recorded[k].level)

\* attestation_chain reports one.
HasChain(k) == kind = "android" /\ recorded[k].certs >= 2

-----------------------------------------------------------------------------
(* Properties.                                                             *)

TypeOK ==
  /\ kind \in {"android", "apple"}
  /\ made \in 0 .. MaxKeys /\ restarts \in 0 .. MaxRestarts
  /\ alive \subseteq Alias /\ keys \subseteq Alias /\ saved \subseteq Alias
  /\ doomed \subseteq Alias /\ gone \subseteq Alias
  /\ truth \in [Alias -> Attestation \cup {None}]
  /\ recorded \in [Alias -> [level : Level, certs : Nat] \cup {None}]
  /\ got \in [Caller -> Level \cup {None}]
  /\ phase \in [Caller -> Phase]
  /\ at \in [Caller -> Alias \cup {None}]
  /\ \A a \in alive \cup keys \cup saved : a[1] <= made
  /\ excuse \in [Alias ->
       {"none", "UnconfirmedCleanup", "abandoned", "unfinished", "lost"}]

InFlight(a) == \E c \in Caller : phase[c] \in Generating /\ at[c] = a

\* The platform never holds a key the plugin has no record of and no call is
\* working on, unless the caller was told so (UnconfirmedCleanup), abandoned
\* the call, or restarted from an export without it; or, for the enclave, its
\* generation failed half way.  The StrongBox fallback, the cleanups and the
\* order of a deletion are there for this (best_effort_generate, delete_key).
NoSilentLeak ==
  \A a \in alive : \/ a \in keys
                   \/ InFlight(a)
                   \/ /\ excuse[a] # "none"
                      /\ excuse[a] = "unfinished" => kind = "apple"

\* A key whose deletion has succeeded is gone at the platform, whatever calls
\* overlapped and whichever export is restored: nothing revives it.
DeletedMeansGone == gone \cap alive = {}

\* A key is reported certified only by a chain that can be handed out, and
\* neither certified nor called a hardware key above what the platform
\* confirmed for that very alias, through the fallback, failed attempts,
\* deletions and restarts (security_properties, attestation_chain, amr_for).
ClaimsBorneOut ==
  \A k \in keys :
    /\ Certification(k) > 0 => HasChain(k)
    /\ kind = "android" =>
         /\ truth[k] # None
         /\ Certification(k) <= LevelRank(truth[k].level)
         /\ HasChain(k) => truth[k].certs >= 2
         /\ KeyStorage(k) # "Software" \/ "hwk" \in Amr(k) =>
              truth[k].level \in Hardware

\* A deletion that is repeated gets done, also after a failure whose deletion
\* was performed, or a restart from an export that still has the record
\* (delete_key).
DeletionEnds == \A k \in Alias : k \in doomed ~> k \notin doomed
=============================================================================
