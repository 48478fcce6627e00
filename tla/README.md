# A TLA+ model of siros-wscd-manager

The crate manages the keys of an EUDI wallet behind one interface: a *manager*
routes each operation to one of several *plugins* (software keys, a FIDO2
authenticator, a remote HSM, Android Keystore, the Apple Secure Enclave), and a
native and a WebAssembly FFI expose the manager to a host application. These
modules state what makes the manager and its plugins correct, TLC checks them on
small instances, and TLAPS proves the most important results for every value of
the constants. All source paths below are under `src/src/`.

## The system

| Part | State | Operations | Hard behaviour |
|---|---|---|---|
| Manager (`manager.rs`, `config.rs`) | `plugins`, `config.key_bindings`, `operation_defaults`, `default_plugin` | register, bind, generate (default / named plugin / candidate list with a required level), sign, delete, migrate, lifecycle delegation | the routing chain; a loop over candidates with partial failures; kids chosen by a remote service; a future dropped at an await point |
| Native FFI (`ffi.rs`) | one mutex around a manager; callback bridges | everything of the manager; register fresh or with state; export and import blobs | restarts that lose every binding, a restore that fails half way, errors that lose their meaning in a bridge |
| Lifecycle contexts (`plugins/mod.rs`, in `softkey.rs` and `fido2_sign.rs`) | `lifecycle: Mutex<HashMap<context, {state, key_ids}>>` next to the key store's own mutex | register, activate, rotate, destroy, status | each operation is up to three critical sections; re-registration; snapshots between sections |
| softkey (`softkey.rs`) | key store, contexts, container format | generate, sign, delete, export, import | as above |
| fido2 (`fido2_sign.rs`, `preview_sign_protocol.rs`, `arkg.rs`) | credential handles, contexts, a CTAP2 transport | generate, sign, describe, delete, attestation, state blob | a ceremony of several commands with a device other callers use too; two transports with different trust; a destroy that clears the whole store |
| CTAP2 client PIN (`ctap2_client_pin.rs`) | a shared secret and a token per call | choose a PIN, enter a PIN, obtain a token | attempts that run out, lost answers, Unicode, power cycles |
| r2ps (`r2ps.rs`) | an OPAQUE client with a session, contexts, the last `amr` | generate on an HSM, sign, authenticate, contexts with remote steps | session expiry and re-authentication, attribution of factors, two requests per generation, strict and best-effort destroys |
| Android Keystore (`android_keystore.rs`) | aliases per kid | generate StrongBox then TEE, sign, delete, restore | cleaning up a half made alias |
| Secure Enclave (`apple_secure_enclave.rs`) | tags per kid | generate, sign, delete, restore | deletions that were already done |
| Factors (`factors.rs`, `webauthn_uvm.rs`, `authenticator_info.rs`) | none | classify and validate TS12 factors, describe authenticators | categories and boundaries |
| WASM FFI (`wasm_ffi.rs`, `wasm_fido2.rs`) | a `RefCell` around a manager | as the native FFI; a browser as the fido2 transport | what a browser reports and what it does not |

The manager calls the plugins through the `WscdPlugin` trait (`traits.rs`) and
holds no key itself: what it keeps is the map from key ids to plugins. A plugin
calls back into the host for authentication, progress and platform keys
(`callbacks.rs`) in the middle of an operation, which is where an operation can
be abandoned. The host persists what the plugins export, and nothing else:
bindings are rebuilt after a restart.

What must hold, part by part:

- **Manager**: a key the host was given stays reachable; a kid is never
  re-routed; a binding is only given up when the key is gone; the level loop
  accepts only what was confirmed on the plugin that made the key, hides no
  rejected key, and ends.
- **FFI**: the same across restarts, restores and imports; an export has every key
  the host was given, and a restore brings all of them back or fails; a prompt the user
  declines ends the call, whichever bridge the answer comes through.
- **Contexts**: no key backs two contexts, no context loses a key to another,
  no call that returns leaks a key, and a caller who makes one call at a time
  cannot see the sections.
- **fido2**: what is sent is what the authenticator or browser understands; a
  signature verifies under the key it was asked for and over the right bytes;
  attestation and certification are the authenticator's; factors are borne out by
  the assertion; a description of an authenticator agrees with enrolling on it.
- **Client PIN**: a PIN opens the authenticator it was chosen for; one prompt
  spends one attempt at most.
- **r2ps**: the factors returned with a signature are those of that signature,
  whatever other callers do to the shared session, and keep what was promised
  before it; an Active context was authenticated; a destroy claims no revocation
  that did not happen.
- **Keystore, Enclave**: the platform holds no key in silence that the plugin has
  no record of; a deletion that succeeded stays true and one that is repeated
  ends; claims about a key are what the platform confirmed for it.

## The modules

| Module | What it models |
|---|---|
| `WscdManager` | `manager.rs`: resolution, registration, binding, generation step by step, deletion, migration, the effect of lifecycle calls on a plugin's keys |
| `KeyDirectory` | what `WscdManager` promises its host: keys issued in one step, routed, and taken back by the host only |
| `HostErrors` | what each callback bridge of `ffi.rs` makes of an error the host raises, and what the host is told |
| `FfiManager` | `WscdManager` with what a native host does: fresh registration, restore, import, export, generation with a challenge, errors from callbacks, and a process that dies at any moment |
| `HostDirectory` | what `FfiManager` promises the application over many lives of its process: a `KeyDirectory` with blobs that a restore brings back whole or not at all |
| `KeyLifecycle` | contexts of softkey and fido2, one action per critical section, concurrent callers, snapshots and restarts |
| `ContextStore` | what `KeyLifecycle` promises: every operation atomic |
| `ClientPin` | PIN rules, classification and getInfo, as operators |
| `PreviewSignProtocol` | requests, responses, ARKG derivation and parsers of a previewSign ceremony, as operators |
| `Fido2Ceremony` | both composed with an authenticator and a browser: enrolling, signing, describing and deleting by overlapping callers |
| `PlatformKeys` | the Android Keystore and Secure Enclave plugins against the platform's store of aliases |
| `R2psPlugin` | the r2ps plugin: session, signatures with their factors (`factors.rs`), WebAuthn ceremonies, contexts, for overlapping and for serialised callers |
| `*Proofs` | theorems and proofs of `WscdManager` (`WscdManagerProofs`, and `KeyDirectoryProofs` for the refinement), `FfiManager`, `KeyLifecycle`, `PlatformKeys`, `R2psPlugin`, `PreviewSignProtocol` (`PreviewSignProofs`) and `Fido2Ceremony` |
| `MC*` | instances for TLC |

### WscdManager

`registered` and `held` are `plugins` and the keys each instance holds (a plugin
is otherwise a set of allowed answers); `bindings` is `config.key_bindings`;
`DefaultPlugin` and `OpDefault` are the configuration. Operations of the manager
that change state take `&mut self`, so one call at a time is in progress; a
generating call is split at its await points into `NextCandidate`, `Generated` /
`GeneratedInVain` / `GenerateFails` / `GenerateStops`, `Accept` / `Shortfall`
/ `NotConfirmed`, `RejectedDeleted` / `RejectedDeleteFails`, and may be abandoned
(`Abort`: a panicking callback, a dropped future) wherever it awaits its plugin.
`GeneratedInVain` is the failure of an attempt whose key exists: the kid is bound
to another plugin, or r2ps cannot look up what its server has just made.
`generate_key` and `generate_key_with_plugin` are the same steps with one
candidate and no required level, as in the code, which shares `generate_key_on`.
Rejection is two steps because deletion awaits the plugin; `left` records what a
call has left behind and why, `handed` what the host was given, `minted` what
each plugin ever made and at which level, `ctxKeys` what was made for contexts.
These four are history: no guard of the manager reads them, they say what a
plugin may answer and what the properties are about.

Plugins differ in five ways the manager can feel: a `Service` (r2ps) chooses its
kids itself and cannot delete, a `NoCleanup` plugin (the Secure Enclave,
`apple_secure_enclave.rs:201`) may fail with an ordinary error after its platform
has made the key, an `Importer` supports migration, a `WipesAll`
plugin (fido2) clears its store when a context is destroyed, and `LevelsOf` says
which certification a plugin's keys reach. Local plugins name a key by the
thumbprint of its public key, so they never repeat a kid (`CanMint`).

Reading operations (`sign`, `export_public_key`, `attestation_chain`, ...) are
`resolve_for_key` followed by the plugin's answer; they change nothing and are
represented by `ResolveForKey` for every operation name in the properties.

`KeyDirectory` is the manager without its insides: three variables, `issued`
(`handed`), `route` (`bindings`) and `answer` (success or not, and the key).
A whole generating call is one `Issue`; what it does before that, to keys the host
has not been given, is `Send` and `Forget`. `Forget` is the deletion of a rejected
key: it needs `issued[k] = None`, and a `Withdraw` reports success, so a cleanup
inside a call that has not succeeded cannot pass for the host's deletion. A
failed `delete_key` or `migrate_key`, and every lifecycle call, is `NoKey`: it
changes neither table.

### HostErrors and FfiManager

`saved` is the blob the host last exported (the keys in it; the model says nothing
of its bytes), `Restart` loses instances and
bindings and keeps `saved` and the keys of a remote service. `RegisterWithState`
registers and then binds, and when a kid collides returns the error with the
instance in place, as the code does; `ImportContainer` binds nothing.
`BindKids(p, kids, k)` is `bind_keys` with the key its caller returns on success:
none for a restore, the new key for `GenerateWithChallenge`. `imported` is history:
what the latest call brought back from a container.
A key counts as handed to the host when a call returned it or a restore that
succeeded brought it back, except keys made for contexts, which the host never
addresses by kid. `HostRaises` is an error raised in a callback of the plugin
that generates: `HostErrors` says what the bridge makes of it, which decides
whether the level loop stops; `declined` remembers a refused prompt.

`HostDirectory` extends `KeyDirectory` by one variable, `blob` (a plugin's `saved`
without the keys of contexts, which are not the host's own: `OwnKeysSaved`). Its
`Restart` forgets every issued key and every route; `Persist` takes at least the
keys its plugin has issued (unless it is a `WipesAll` plugin, which may have dropped
some by itself); `Restore` issues and routes all keys of the blob, or fails and
issues none of them, and in both cases the keys that were issued and are not in the
blob are lost with the instance it replaces. So a restore that reports success with
a key unbound, or an export that forgets a key, is no step of it.

### KeyLifecycle and ContextStore

`keys` is the key store under its mutex, `state` and `kids` the contexts under
theirs. `MakeFor` (generation) and `Register` or `Rotate` (recording) are two
sections; `DestroyLook`, `DestroyWipe`, `DestroyClose` are three; the purge of a
replaced entry happens inside the contexts' section and is part of `Register`.
`Abandon` ends a call between the two: `generate_key` awaits the host's
`on_progress` once it has stored the key, and a callback that panics there, or a
caller that drops the future, leaves the key to nobody. (A generation for its own
sake may end there too: the second disjunct of `GenerateKey`.) It is the only await
of these operations with a key stored and not recorded. `OneAtATime` is the mutex of
the FFI, which outlives such a panic. `kind` chooses between softkey and fido2,
which differ in what a destroy wipes and what a rotation does to the state.
`ContextStore` has one action per operation. The refinement mapping hides a key
that is being made and shows a destroy as done as soon as its keys are wiped.
A failed rotation is `Generate`, and so is an abandoned call: its key is there, and
nothing records it.
`minted`, `loose` (keys of no context: generated for their own sake, or by a rotation
of an unknown context), `gone` (of each context, the keys `delete_key` or its own
destroy removed) and `abandoned` (the keys of abandoned calls) are history.

### ClientPin, PreviewSignProtocol and Fido2Ceremony

The two operator modules keep what the layouts, fallbacks and omissions of the
code decide: a CBOR map with integer keys is a function on those keys, so that a
parameter at the wrong key is a parameter the other side does not see; byte
strings are values, and a derived key is the term of what went into it, so that
two derivations agree exactly if their inputs do. A PIN is what the checks see of
it: bytes, code points, how many of them NFC composes away, a NUL.

In `Fido2Ceremony`, `call[c]` is what an operation has in its local variables,
`phase` the command it sends next; `keys` is the plugin's store. `dev` is the
authenticator, which is not part of the repository: it accepts what CTAP2.1 and
the previewSign drafts say (as far as the code relies on it), refuses anything
else, and has a PIN, attempts, one token and one key agreement for all callers.
One command is one step, performed or not, its answer heard or `Lost`.
`browser` chooses the transport: a browser does the PIN exchange and the
verification itself, sends the page's own host name, and passes the command's
hash as a WebAuthn challenge; its answer goes through the encoders of
`preview_sign_protocol.rs` before it is parsed, as in `wasm_fido2.rs`.
`With(call[c], learnt)` is the record of a call with what it has just learnt.
`PowerCycle` and `FactoryReset` come at any moment. `chosen` (the PIN its owner
knows), `resets` (how often the authenticator was reset, which is how an enrolment
tells whether that happened since it began) and `returned` (what the latest step
returned, with its circumstances) are history. A browser is assumed to pass on the
attestation it gets: it reports none only where the authenticator made none.

### PlatformKeys

`alive` and `truth` are the platform's store, `keys` and `recorded` the plugin's,
`saved` its latest export. A call of a plugin is a sequence of calls of the
platform, each of which may fail after it was performed. `StrongBox`,
`CleanStrongBox`, `Tee`, `Clean`, `Finish` are `best_effort_generate`,
`delete_after_failed_generate` and `finish_generate_key`; `Enclave` is Apple's
generation. `StartDelete`, `Deleted` / `DeleteFails`, `Forget` are `delete_key`,
whose record goes last. The plugin's reaction depends on the error the bridge
lets through (`HostErrors`). `Abort` and `Restart` come at any moment. `excuse`,
`doomed` and `gone` are history: why an alias may be alive without a record,
which deletions the host wants and which it was told are done.

### R2psPlugin

`session` is what the client of the server has, `lock` its mutex where it is
held across an await: a WebAuthn ceremony blocks on the host with the mutex held
(`Enter`), while an OPAQUE operation asks for its PIN without it (`Collect`,
`Answer`) and authenticates and signs in one section (`SignSection`). The client
library is not part of the repository: a request may fail, may cost the session
when it does, and `SessionEnds` is its expiry. `entry` is the map of contexts
under its own mutex, so that a lifecycle operation is a request
(`RegisteredRemotely`, `AuthenticatedContext`, `Revoke`) and a later recording
(`RecordRegistered`, `RecordActive`, `RecordDestroyed`; a rotation records twice).
`DeriveFactors` and `Agree` are `derive_factors` and `record_assertion`; `amr` is
`last_amr`; `Capability` is what the host may show before the signature.
`owner`, `proof`, `asserts`, `revoked` and `amrUv` are history: who
authenticated the session, what authenticated each activation, what the
authenticator said, what the server did. Instances with serialised callers
(`serial`, the FFI) and with overlapping ones are checked together, in each of
the modes of the configuration. Key generation authenticates nobody and touches
no session; its two requests are a `Service`'s step of `WscdManager`.

## The runs

| Run | Expected | Shows |
|---|---|---|
| `manager` | pass | the properties of the manager under every sequence of calls of three plugins, one of them a remote service that may repeat kids; each step of a generating call ends it or leaves it with less to do; it implements `KeyDirectory` |
| `host` | pass | it implements `HostDirectory`: routing across restarts, stale blobs and failing restores; a declined prompt ends the call |
| `lifecycle_concurrent` | pass | two concurrent callers on softkey: contexts are disjoint and keep their keys |
| `lifecycle_serial` | pass | serialised callers on softkey and fido2, abandoned calls included: only those leak a key; the sections implement `ContextStore` |
| `r2ps` | pass | two callers on one session: a PIN factor and freshness belong to the signature they are returned with, a WebAuthn factor to the whole ceremony, and capabilities are kept; serialised, Active means authenticated; destroys are not optimistic; the client's mutex is held for one ceremony at a time |
| `fido2_ceremony` | pass | two overlapping callers, six kinds of authenticator and a browser, mistyped PINs, lost answers, power cycles and resets: commands are understood, signatures and attestations verify, PINs open what they were chosen for, factors and certification are borne out |
| `platform` | pass | two overlapping callers on either platform, with half performed calls, abandoned calls and a restart: no silent leak, final deletions that end, claims borne out |
| `key_left_behind` | violation | see finding 1 |
| `imported_keys` | violation | see finding 2 |
| `destroy_takes_others` | violation | see finding 3 |
| `destroy_race` | violation | see finding 4 |
| `amr_of_last_sign` | violation | see finding 5 |

**Bounds.** `manager` and `host`: three plugins (a software one, an attesting
platform one, a service) and two kids. Two kids are enough for a collision next
to an unrelated key, three plugins for a candidate list whose plugins differ from
the default and from an operation default. Candidate lists have at most two
entries, one of them empty: the loop treats entries alike. One level is asked for
(`Asked = {1}`) of plugins that reach level 0 and level 2: what the loop tells apart
is enough and not enough. In `manager` signing and the reading of levels default
to the service, the configuration in which routing through the binding matters,
and the platform plugin is a `WipesAll` and a `NoCleanup` one; in `host` no plugin is
either, so that what an export must have is a condition on the plugin that is
restored. `lifecycle_*`: two callers, two contexts,
three keys: one key per context and one spare for a re-registration or rotation;
both callers can be in different operations on the same context. The number of
keys bounds the number of generations: no other counter exists. `r2ps`: two
callers (one whose PIN prompt is open, one that changes the session meanwhile),
one context, two classes of secret, host factors of both categories, and
ceremonies of up to two assertions, the least that can disagree; nothing else is
bounded. `fido2_ceremony`: two callers and three operations (`MaxCalls`: an
enrolment, a signature with its key, and a third that disturbs either), one fault
(`MaxFaults`: a lost answer, a power cycle or a reset), two PIN attempts, in a
row and in all; what may be typed is the right PIN in another Unicode form, whose
eight code points are seven once composed, a wrong one, and one with a NUL; what
is signed has the length of a digest, the only one that can be taken for a digest; the
kinds of authenticator are a security key with ARKG and an attestation chain, a phone
that lists no PIN protocol and never sets the UV flag, and four that cannot be
enrolled, each for one reason; the one without the extension asks for eight code
points, for which the PIN is too short only once it is composed. `platform`: two callers, two generations
(`MaxKeys`), one restart (`MaxRestarts`), a StrongBox key with a chain, a TEE key
whose chain is a leaf, and a key whose level the platform did not say.

Every passing run is exhaustive and takes about a minute with two workers:
`host` has 0.7 million distinct states, `manager` 0.5, `fido2_ceremony` 2.3,
`lifecycle_concurrent` 2.0, `r2ps` 0.8, the others fewer.

**Symmetry.** Kids (and callers and contexts) are interchangeable; `manager` and
`platform` check a liveness property and use none.

**Deadlock** is not looked for where the bounds end every behaviour
(`fido2_ceremony`); in the other runs some call can always begin.

**Fairness.** In `WscdManager`, `FairSpec` assumes weak fairness of the steps of
a generating call: its caller awaits it, the plugin's call returns because the
host answers its prompts, and no step waits for another call. `Abort` and new
calls get none. In `PlatformKeys`, `FairSpec` assumes weak fairness of each
caller's steps (the platform answers every call), strong fairness of `Deleted`
(it does not fail every deletion for ever) and strong fairness of `Retry` (a host
that wants a key deleted asks again, as the doc of `delete_key` in
`apple_secure_enclave.rs` expects; strong, since both callers may be busy again
and again). Nothing is assumed of safety runs.

### Findings

1. `NoKeyLeftBehindSuccess`: a candidate of `generate_key_for_level` can make its
   key and still fail with an ordinary error: r2ps when it cannot list the key its
   server has just made (`r2ps.rs:472-487`), or when the kid the server chose is bound
   elsewhere (`manager.rs:154`), and the Secure Enclave when its platform made the
   key and answered with an error (`apple_secure_enclave.rs:201`). The loop goes on
   and may succeed, against the reasons given in `manager.rs:196-199` and `239-246`
   and for `UnconfirmedCleanup` in `error.rs:68-72`. Its extent is proved: what is
   left is a service's key or one of a plugin without a cleanup
   (`LeftKeysAreOfTwoKinds`), so the promise holds for candidate lists that name
   neither (`TidyListsLeaveNothing`).
2. `ImportedKeysRoutable`: `import_softkey_container` (`ffi.rs:1496`) does not
   bind, against the doc of `bind_keys`; every other restore does. Where signing
   defaults to softkey and no service takes its kids it need not
   (`ImportsOfTheDefaultRoute`): the configuration of the repository's own round
   trip test (`ffi.rs:2287-2300`).
3. `DestroyTakesOwnKeysOnly`: a fido2 destroy clears keys of other contexts and
   independent keys, against the comment that justifies it (`fido2_sign.rs:906`).
4. `ReRegisterNeverLeaks`: concurrent Rust callers can leak a key in softkey,
   against `plugins/mod.rs:117`; serialised callers cannot, unless a call is
   abandoned (`NoKeyLeaks`).
5. `AmrIsOfLastSign`: a WebAuthn signature records the `amr` value `pin` even
   when no assertion was user-verified (`r2ps.rs:577`), against `types.rs:473`.

Divergences noticed without a run:

- A callback that panics at the `on_progress` that follows the storing of a key
  (`softkey.rs:256-259`, `fido2_sign.rs:332`, `583`, `610`) leaves the key in the plugin,
  although `ffi.rs:1226-1227` recovers the mutex on the ground that the manager's
  state 'was never actually mutated mid-panic'. The state is usable, as it says, and
  other keys are unaffected; `NoKeyLeaks` names the keys left so (`abandoned`).
- `README.md:53` of the crate says activation applies to a registered context,
  `plugins/mod.rs:62` activates a destroyed one; `README.md:68` says softkey has
  no lifecycle, `softkey.rs:446` implements it.
- The doc of `AttestationChain::client_data_hash` (`types.rs:163-168`) says
  'there is no browser in this flow'. Over a browser the plugin's hash is the
  challenge (`wasm_fido2.rs:318`), the statement covers the hash of the browser's
  client data, and `attestation_chain` still returns the plugin's hash;
  `AttestationVerifies` is therefore stated for raw transports.
- The doc of `build_generate_key_extension` says 'Do NOT also attach an outer
  `pinUvAuthParam`' (`preview_sign_protocol.rs:488-489`); `make_credential`
  attaches one.
- `make_credential_via_browser` passes the algorithms of `generateKey` as
  `pubKeyCredParams` (`wasm_fido2.rs:307-316`), which
  `preview_sign_protocol.rs:514-518` calls wrong for the raw command.
- The Secure Enclave's failed generation has no cleanup and raises no
  `UnconfirmedCleanup`, which is part of finding 1; `NoSilentLeak` names the
  exception (`unfinished`).
- r2ps in OPAQUE mode answers that it can meet the factors (`r2ps.rs:642`), although
  a sign that reuses the session has no PIN to report unless freshness is asked
  for; `CapabilityIsKept` says which requests it holds for.

## What is proved

The theorems hold for every value of the constants that satisfies the named
assumptions, which only say what kind of value each constant is.

`WscdManagerProofs` (`ConfigAssumption`, `ImporterAssumption`; any set of
plugins, kids, configuration and candidate lists): `TypeCorrect`,
`HandedKeysReachable`, `NoHiddenOrphan`, `BindingsStable`,
`UnbindsOnlyGoneKeys`, `AcceptsOnlyTheLevel`, `CallsAdvance`, `LeftKeysAreOfTwoKinds`,
`TidyListsLeaveNothing`. `HandedKeyReachable` is not inductive: it says nothing
of keys a call has generated and not yet returned, nor of where keys come from.
The inductive invariant `IInv` adds that every bound, held or context key was
minted by the plugin it is filed under (`OriginInv`), that a handed key is bound
to its plugin (`HandedInv`), that the key of the call in progress is held and
bound by the candidate that made it (`CallInv`), and what may be in `left` at each
point (`LeftInv`). `CallsAdvance` is what safety can say of termination: with
`StepsLeft`, four steps for each candidate left and the places left in the loop, every
step of a call ends it or lowers the measure, so a call on n candidates is over
after at most 4 n + 4 steps; with the fairness of its steps that is `CallReturns`.
`LeftKeysAreOfTwoKinds` needs an invariant of its own (`KindInv`) and the
freshness of local kids (`FreshKid`): what a local candidate makes collides with
nothing (`VainIsAService`). `TidyListsLeaveNothing` is about callers: whatever is
registered and called meanwhile, a call for a level whose candidates (`Tidy`) are
neither services nor `NoCleanup` has at no point left more than the key it is about
to delete (`TidyInv`).

`KeyDirectoryProofs` (the same assumptions): `ManagerIsADirectory`, the
refinement `KeepsDirectory`, step by step, and `DirectoryServesItsHost`, what a
host may conclude from it: a key just returned is one it holds, and operations on
a key it holds are routed to the plugin that issued it. The mapping needs one
invariant beyond `IInv` (`UntoldInv`): a call in progress has told its host
nothing, and the key it may yet delete was never given to the host. The second half
is where thumbprint kids matter: a local plugin's new kid is new to the host too,
while a service may return an old one, and only because a service cannot delete
does its rejection take nothing away.

`FfiManagerProofs` (the same and `HostAssumption`): `HostTypesCorrect`,
`HostKeepsHandedKeys`, `DeclinesEndTheCall`, `HostKeepsBindings`,
`HostCallsAdvance`, `FfiIsADirectory`, `HostIsServed`,
`ImportsOfTheDefaultRoute`. Every step of the host is a step of the manager, or
changes the blobs only, or is one of its own (a restart, a restore that fails half
way, a generation with a challenge). `HostInv` is the manager's `IInv` with
`SavedInv`: a blob lists only keys its plugin has made, without which a restore
could bring a foreign key back.

`FfiIsADirectory` is the refinement of `HostDirectory`. The steps of the manager
come from `DirectoryStep` of `KeyDirectoryProofs`, for the two directories have the
same steps while a process lives (`SameDirectory`) and no step of the manager
changes what the blobs bring back, since a key made for a context is new to every
blob (`BlobsStay`); `UntoldInv` survives the host's own steps (`HostUntold`).
What is left is one lemma for each of those: `RestoreOfHost`, with the two outcomes of
`bind_keys`; `ExportOfHost`, which uses that a plugin holds what it issued
(`HandedInv`); `ChallengeOfHost` and `RestartOfHost`. `HostIsServed` is what an
application may conclude: in every life of its process a key it was given or has
restored is routed to the plugin that issued it, and so is the key the latest call
returned. It is proved of `HostDirectory` alone (`HostDirectoryKeeps`) and carried
over by the refinement. `ImportsOfTheDefaultRoute` adds to `HostInv` that kids of
local plugins were minted by one plugin only (`MintedOnce`).

`KeyLifecycleProofs` (`LifecycleAssumption`; any number of callers, contexts and
keys): `TypeCorrect`, `KeysHaveOneContext`, `ContextsKeepTheirKeys` under any
interleaving and with abandoned calls; `OnlyAbandonedCallsLeak` and
`SerialCallersSeeAtomicity`, the refinement of `ContextStore`, under `OneAtATime`. The invariant behind the last
two says that at most one caller is inside an operation and, if a destroy has
wiped its keys, that the copy it took is still the context's.

`PlatformKeysProofs` (`PlatformAssumption`; any number of callers, generations,
restarts, any attestations): `TypeCorrect`, `NoKeyLeaksSilently`,
`DeletionIsFinal`, `ClaimsAreBorneOut`. `IInv` adds that aliases in use were
drawn (`Drawn`), that no two calls work on one being generated (`Alone`), that a
deletion at its last step has nothing alive (`ForgetsTheDead`), that only Apple's
calls are in the enclave's step (`EnclaveIsApple`) and that what a record or a
call says of a key is what the platform said (`RecordsTheTruth`). The steps of a
generation are instances of one abstract step (`GenStep`), whose preservation of
the invariant is proved once.

`R2psPluginProofs` (`R2psAssumption`; any number of callers, contexts, secrets,
ceremonies of any length): `TypeCorrect`, `PinFactorsAreOfThisSign`,
`CeremoniesBearOutFactors`, `CapabilitiesAreKept`, `ActiveIsAuthenticated`,
`DestroysAreNotOptimistic`. `IInv` is a conjunct per caller on what its local
copies say (`LocalInv`), one on serialised callers (`SerialInv`), and what was
returned (`ReturnedInv`). A caller's step keeps the others' conjuncts because
they read only their own variables, the lock and the session (`Frame`).
`CeremoniesHoldTheClient` needs nothing but `TypeOK` and itself: a caller enters
the ceremony only with the mutex free, and no other step touches it.

`PreviewSignProofs` (no assumption; any value): what a transport that is no
authenticator reads out of the plugin's commands is what was asked for
(`MakeCredentialReadBack`, `GetAssertionReadBack`), and what a browser answers
survives being packed into a CTAP2 response and unpacked again
(`MakeCredentialRoundTrip`, `GetAssertionRoundTrip`).

`Fido2CeremonyProofs` (`CeremonyAssumption`; any number of callers, operations and
faults, any set of PINs, data and host factors, any set of authenticators, which
is any answer to getInfo with any attestation): `TypeCorrect`, `RightPin`,
`OneAttemptPerPrompt`, `Understood`, `SignaturesVerify`, `FactorsAreBorneOut`,
`CapabilityKept`, `UnsuitableEnrolsNever`, `Certified`, `AttestationsVerify`.
`CeremonyAssumption` says what the constants stand for: entries with one name are
one text in several Unicode forms (`SameText`), an authenticator comes with a PIN
that is stored as it is, a host's factor names a method (`"unclassified"` is what
`ClassifyPin` says where the code has no value), and `None` is neither a PIN nor a
factor.

Six of the properties are about `returned`, what the latest step gave back. They are
not inductive, and no invariant mentions `returned`: they follow from what the
state was before the step. `Explained` is their conjunction, `Invariance` proves
`IInv /\ Explained`, where `IInv` is inductive on its own:

- `CallsInv`: a call is an operation with a number nobody else has, has its inputs,
  and knows in each phase what the earlier ones taught it (its protocol, its PIN, that
  the authenticator speaks the protocol). Without it a command may lack a parameter.
- `PinInv`: the authenticator's PIN is the composed form of the text its owner
  knows; with the PIN of a call being the composed form of what was typed, a
  mismatch means another text (`RightPin`).
- `TokenInv`: a token's number belongs to one call at most, which is at its command
  and of the operation the token permits. So a refused token is one that was taken
  (`Understood`).
- `KeysInv`, `CopiesInv`: of every stored key, and of every copy a signing call has
  taken, that its public key derives from the credential's COSE key with the hash
  as the ARKG input, that its attestation is that credential's, and that the
  authenticator, if it still has the credential, has it with that COSE key. Copies need
  a conjunct of their own, since a record may be deleted while it is being used.
- `FitsInv`: why an authenticator described as unsuitable cannot enrol. The reason
  may change while the exchange goes on (attempts run out), but without a reset
  there is always one (`Hopeless`), and when a token has been granted it is that
  there is no previewSign.
- `CountInv`: credentials made and enrolments in progress are at most the calls
  begun, which bounds the credentials.

There is one lemma per action for `IInv` and one for `Explained`. The actions
that end or continue a call share `ExchangeKeeps`, those that leave the device
alone `QuietKeeps`.

Model-checked only: `CallReturns` and `DeletionEnds` (liveness under fairness is out
of the prover's reach; `CallsAdvance` is the part of the first that is safety).
Every other property of a passing run is a theorem. What is
hidden in values stays abstract in the proofs too: that ARKG's derivation and
the authenticator's agree is a fact about terms, not about curves.

## Not modelled

Cryptography, the bytes of encodings (CTAP2, CBOR, COSE, JWK), logging and error
texts; signing of softkey, Keystore and Enclave, which keeps no state; iteration
orders except where a failure makes them visible (`BindKids`); conversions of
values at the FFI. Poisoning of the FFI mutex as such: `ffi.rs:1229` recovers the
manager as it was left, so that a panic is a call that ends where it was, `Abort` of
`WscdManager` and `PlatformKeys` and `Abandon` of `KeyLifecycle`. The order of the nested mutexes of fido2
(contexts before keys, wherever both are held): `KeyLifecycle` takes the nested
section as one action. `wasm_ffi.rs`: it makes the same calls on the same manager
with softkey as the default plugin, binds after every import, and panics on a
second borrow by design (`wasm_ffi.rs:5-7`). A destroy of an r2ps context leaves
the session alone, and no document relates the two.

## What is left

Termination of a ceremony under fairness of the transport, and that every
operation of r2ps ends: the liveness check of `MCR2psPlugin` at the present
bounds takes too long, and needs smaller ones.
