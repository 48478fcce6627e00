----------------------------- MODULE R2psPlugin -----------------------------
(***************************************************************************)
(* The R2PS plugin (src/src/plugins/r2ps.rs): signatures and lifecycle     *)
(* contexts on a remote HSM, and the authentication factors a signature is *)
(* returned with (src/src/factors.rs).                                     *)
(*                                                                         *)
(* One client, behind a synchronous mutex, holds the session with the      *)
(* server. An operation awaits the user (a PIN) without the mutex and runs *)
(* its requests in one critical section; a WebAuthn ceremony awaits the    *)
(* user with the mutex held (lock). Contexts have a mutex of their own.    *)
(* Callers of the Rust API may overlap; the FFI serialises them (serial).  *)
(* A request may fail at any time, and what a failed one does to the       *)
(* session is up to the client library, which is not part of src/.         *)
(***************************************************************************)
EXTENDS Naturals, Sequences, FiniteSets, Functions

CONSTANTS
  Caller,        \* tasks calling the plugin
  Context,       \* context ids
  None,
  PinMethod,     \* the TS12 methods classify_secret tells apart
  HostFactor,    \* factors a host may pass as host_verified_factor
  MaxAssertions  \* bound: assertions the server asks for in a ceremony

Mode == {"opaque", "webauthn", "unknown"}   \* config.auth_mode
FactorKind == {"opaque", "webauthn"}        \* raw_sign is refused everywhere
DestroyMode == {"local", "remote", "strict"}

Category == {"knowledge", "possession", "inherence"}
Factor(category, methods) == [cat : {category}, method : methods]

\* What classify_uvm_for_ts12 can name: biometrics are left unclassified.
UvmFactor == Factor("knowledge", {"pattern", "other"})
PinFactor == Factor("knowledge", PinMethod)
Possession == [cat |-> "possession", method |-> "key_in_remote_wscd"]

ASSUME R2psAssumption ==
  /\ None \notin Caller \cup Context
  /\ None \notin UvmFactor \cup HostFactor
  /\ None \notin PinMethod
  /\ PinMethod \cap {"pattern", "other", "unclassified"} = {}
  /\ HostFactor \subseteq [cat : Category, method : STRING]
  /\ MaxAssertions \in Nat

\* An assertion: its UV flag and the factor its uvm extension names.
Assertion == [uv : BOOLEAN, uvm : UvmFactor \cup {None}]
Unseen == [agreed |-> "unseen"]
Disagreed == [agreed |-> "disagreed"]
Agreement == {Unseen, Disagreed} \cup UvmFactor

VARIABLES
  serial,    \* the FFI mutex excludes overlapping operations
  mode, rp,  \* config.auth_mode; config.rp_id is not empty
  session,   \* the client's session: None, or what authenticated it
  lock,      \* the caller holding the client mutex in a ceremony, or None
  entry,     \* the lifecycle entry of each context, or None
  op, pc,    \* the operation of each caller, and where it is
  ctx,       \* the context it is about
  factor,    \* the factor kind it was given or has read
  dmode,     \* the mode of a destroy
  fresh,     \* the options of a sign: require_fresh_user_authentication
  host,      \*   and host_verified_factor
  secret,    \* a PIN it has yet to authenticate with
  class,     \* the class RecordingAuth kept of it
  uvs,       \* per ceremony: how many assertions carried the UV flag
  agreed,    \*   and FactorAgreement
  performed, \* remote_performed of a destroy
  amr,       \* last_amr: the RFC 8176 values of the last signature
  \* History:
  owner,     \* the caller whose operation in progress authenticated session
  asserts,   \* the assertions of each caller's ceremony
  revoked,   \* the server has revoked for this destroy
  amrUv,     \* the ceremony amr is about was user-verified
  proof,     \* the factor that last authenticated each context's activation
  returned   \* what the latest step returned to its caller

config == <<serial, mode, rp>>
signVars == <<fresh, host, secret, class, uvs, agreed, asserts>>
lifeVars == <<ctx, factor, dmode, performed, revoked>>
opVars == <<op, pc, signVars, lifeVars>>
lastVars == <<amr, amrUv>>
vars ==
  <<config, session, lock, entry, opVars, lastVars, owner, proof, returned>>

SadAmr == {"hwk", "pop", "pin"}
PwdAmr == {"pwd"}

Op == {"sign", "register", "rotate", "activate", "destroy"}
Nothing == [op |-> "none"]

TypeOK ==
  /\ serial \in BOOLEAN /\ mode \in Mode /\ rp \in BOOLEAN
  /\ session \in FactorKind \cup {None}
  /\ lock \in Caller \cup {None}
  /\ entry \in [Context ->
       [factor : FactorKind, state : {"Registered", "Active", "Destroyed"}]
         \cup {None}]
  /\ op \in [Caller -> Op \cup {None}]
  /\ pc \in [Caller -> {"idle", "collect", "ask", "remote", "want",
                        "ceremony", "local", "again"}]
  /\ ctx \in [Caller -> Context \cup {None}]
  /\ factor \in [Caller -> FactorKind \cup {None}]
  /\ dmode \in [Caller -> DestroyMode \cup {None}]
  /\ fresh \in [Caller -> BOOLEAN]
  /\ host \in [Caller -> HostFactor \cup {None}]
  /\ secret \in [Caller -> BOOLEAN]
  /\ class \in [Caller -> PinMethod \cup {"unclassified", None}]
  /\ uvs \in [Caller -> 0 .. MaxAssertions]
  /\ agreed \in [Caller -> Agreement]
  /\ performed \in [Caller -> BOOLEAN]
  /\ amr \in {{}, SadAmr, PwdAmr} /\ amrUv \in BOOLEAN
  /\ owner \in Caller \cup {None}
  /\ asserts \in [Caller -> Seq(Assertion)]
  /\ revoked \in [Caller -> BOOLEAN]
  /\ proof \in [Context -> FactorKind \cup {None}]

\* R2psPlugin::new: WebAuthn mode needs an rp_id.
Init ==
  /\ serial \in BOOLEAN
  /\ mode \in Mode
  /\ rp \in BOOLEAN
  /\ mode = "webauthn" => rp
  /\ session = None /\ lock = None /\ owner = None
  /\ amr = {} /\ amrUv = FALSE
  /\ entry = [x \in Context |-> None]
  /\ op = [c \in Caller |-> None]
  /\ pc = [c \in Caller |-> "idle"]
  /\ ctx = [c \in Caller |-> None]
  /\ factor = [c \in Caller |-> None]
  /\ dmode = [c \in Caller |-> None]
  /\ fresh = [c \in Caller |-> FALSE]
  /\ host = [c \in Caller |-> None]
  /\ secret = [c \in Caller |-> FALSE]
  /\ class = [c \in Caller |-> None]
  /\ uvs = [c \in Caller |-> 0]
  /\ agreed = [c \in Caller |-> Unseen]
  /\ performed = [c \in Caller |-> FALSE]
  /\ asserts = [c \in Caller |-> <<>>]
  /\ revoked = [c \in Caller |-> FALSE]
  /\ proof = [x \in Context |-> None]
  /\ returned = Nothing

-----------------------------------------------------------------------------
CanStart(c) ==
  /\ pc[c] = "idle"
  /\ serial => \A d \in Caller : pc[d] = "idle"

Go(c, where) == pc' = [pc EXCEPT ![c] = where]

\* c's operation ends, with a result or with an error, and its locals go.
Done(c, result) ==
  /\ Go(c, "idle")
  /\ op' = [op EXCEPT ![c] = None]
  /\ ctx' = [ctx EXCEPT ![c] = None]
  /\ factor' = [factor EXCEPT ![c] = None]
  /\ dmode' = [dmode EXCEPT ![c] = None]
  /\ fresh' = [fresh EXCEPT ![c] = FALSE]
  /\ host' = [host EXCEPT ![c] = None]
  /\ secret' = [secret EXCEPT ![c] = FALSE]
  /\ class' = [class EXCEPT ![c] = None]
  /\ uvs' = [uvs EXCEPT ![c] = 0]
  /\ agreed' = [agreed EXCEPT ![c] = Unseen]
  /\ performed' = [performed EXCEPT ![c] = FALSE]
  /\ asserts' = [asserts EXCEPT ![c] = <<>>]
  /\ revoked' = [revoked EXCEPT ![c] = FALSE]
  /\ returned' = result

\* The session that goes on after c's operation, and who owns it then.
Keeps(c, s, o) == session' = s /\ owner' = IF o = c THEN None ELSE o

\* A failed request may have cost the client its session.
KeepsOrLoses(c) == Keeps(c, session, owner) \/ Keeps(c, None, None)

-----------------------------------------------------------------------------
(* The factors of a signature.                                             *)

\* An unclassified PIN, or no user verification seen, is no factor.
Second(pin, uv, verified, hostFactor) ==
  IF pin \in PinMethod THEN {[cat |-> "knowledge", method |-> pin]}
  ELSE {f \in {IF verified # None THEN verified ELSE hostFactor} :
          f # None /\ pin = None /\ uv}

\* derive_factors: possession, and a second factor if one was measured,
\* named by the plugin, or supplied by the host for an observed UV.
DeriveFactors(pin, uv, verified, hostFactor) ==
  {Possession} \cup Second(pin, uv, verified, hostFactor)

\* AuthFactors::new keeps a shortfall unless two categories are spanned.
Shortfall(factors) == Cardinality({f.cat : f \in factors}) < 2

\* Mutant: a later assertion replaces what the earlier ones agreed on.
LastWins(state, uvm) == IF uvm # None THEN uvm ELSE Disagreed

\* record_assertion.
Agree(state, uvm) ==
  IF uvm # None /\ state \in {Unseen, uvm} THEN uvm ELSE Disagreed

\* all_assertions_user_verified and agreed_verified_factor.
AllVerified(c) == asserts[c] # <<>> /\ uvs[c] = Len(asserts[c])
Verified(c) ==
  IF AllVerified(c) /\ agreed[c] \in UvmFactor THEN agreed[c] ELSE None

\* authentication_capability: could a sign reach two categories, by the
\* plugin's own means or with the help of the host? It asks nobody.
CapabilityAnswer == {"can", "with host factor", "cannot"}
Capability ==
  IF mode = "opaque" THEN "can"
  ELSE IF mode = "webauthn" THEN "with host factor"
  ELSE "cannot"

\* Mutant: any factor the host passes is taken.
NotValidated(h) == TRUE

\* SignOptions::validate: possession is never for the host to vouch for.
Validate(h) == h # None => h.cat # "possession"

\* The outcome of a sign of c, and the circumstances it is to be true of.
Signed(c, factors, own) ==
  [op |-> "sign", factors |-> factors, short |-> Shortfall(factors),
   fresh |-> fresh[c], own |-> own, host |-> host[c], asserts |-> asserts[c],
   class |-> class[c]]

-----------------------------------------------------------------------------
(* Signing.                                                                *)

\* sign_with_factors up to its first await. WebAuthn cannot prove freshness
\* and refuses; so does an unknown mode, in collect_opaque_pin.
StartSign(c, f, h) ==
  /\ CanStart(c)
  /\ Validate(h)
  /\ mode = "opaque" \/ (mode = "webauthn" /\ ~f)
  /\ op' = [op EXCEPT ![c] = "sign"]
  /\ fresh' = [fresh EXCEPT ![c] = f]
  /\ host' = [host EXCEPT ![c] = h]
  /\ Go(c, IF mode = "opaque" THEN "collect" ELSE "want")
  /\ returned' = Nothing
  /\ UNCHANGED <<config, lastVars, session, lock, entry, secret, class, uvs,
                 agreed, asserts, lifeVars, owner, proof>>

\* Mutant: the mutex of the question is held while the PIN is asked for.
CollectsLocked(c) ==
  /\ pc[c] = "collect"
  /\ lock = None \/ fresh[c]
  /\ Go(c, IF ~fresh[c] /\ session # None THEN "remote" ELSE "ask")
  /\ lock' = IF ~fresh[c] /\ session = None THEN c ELSE lock
  /\ returned' = Nothing
  /\ UNCHANGED <<config, lastVars, session, entry, op, signVars,
                 lifeVars, owner, proof>>

\* collect_opaque_pin: is there a session to reuse? The mutex is dropped
\* before the PIN is asked for.
Collect(c) ==
  /\ pc[c] = "collect"
  /\ lock = None \/ fresh[c]
  /\ Go(c, IF ~fresh[c] /\ session # None THEN "remote" ELSE "ask")
  /\ returned' = Nothing
  /\ UNCHANGED <<config, lastVars, session, lock, entry, op, signVars,
                 lifeVars, owner, proof>>

\* Mutant: the PIN is authenticated as soon as it is typed.
AnswerAndAuthenticate(c, k) ==
  /\ pc[c] = "ask"
  /\ lock = None
  /\ Go(c, "remote")
  /\ secret' = [secret EXCEPT ![c] = op[c] # "sign"]
  /\ class' = [class EXCEPT ![c] = k]
  /\ session' = "opaque"
  /\ owner' = c
  /\ returned' = Nothing
  /\ UNCHANGED <<config, lastVars, lock, entry, op, fresh, host, uvs, agreed,
                 asserts, lifeVars, proof>>

\* The user types the PIN.
Answer(c, k) ==
  /\ pc[c] = "ask"
  /\ Go(c, "remote")
  /\ secret' = [secret EXCEPT ![c] = TRUE]
  /\ class' = [class EXCEPT ![c] = k]
  /\ returned' = Nothing
  /\ UNCHANGED <<config, lastVars, session, lock, entry, op, fresh, host,
                 uvs, agreed, asserts, lifeVars, owner, proof>>

\* The user cancels, or the caller drops its future.
Cancel(c) ==
  /\ pc[c] = "ask"
  /\ Done(c, Nothing)
  /\ UNCHANGED <<config, lastVars, session, lock, entry, owner, proof>>

\* One section: authenticate with the PIN if there is one, and sign.
SignSection(c) ==
  LET s == IF secret[c] THEN "opaque" ELSE session
      o == IF secret[c] THEN c ELSE owner
  IN
  /\ pc[c] = "remote"
  /\ op[c] = "sign"
  /\ lock = None
  /\ \/ /\ s # None
        /\ Keeps(c, s, o)
        /\ Done(c, Signed(c, DeriveFactors(class[c], FALSE, None, host[c]),
                          o = c))
        /\ amr' = PwdAmr /\ amrUv' = FALSE
     \/ /\ KeepsOrLoses(c) \/ Keeps(c, s, o)
        /\ Done(c, Nothing)
        /\ UNCHANGED lastVars
  /\ UNCHANGED <<config, lock, entry, proof>>

\* A ceremony begins: the client is locked until it is over.
Enter(c) ==
  /\ pc[c] = "want"
  /\ lock = None
  /\ lock' = c
  /\ Go(c, "ceremony")
  /\ returned' = Nothing
  /\ UNCHANGED <<config, lastVars, session, entry, op, signVars, lifeVars,
                 owner, proof>>

\* get_assertion: the host's authenticator answers.
GetAssertion(c, a) ==
  /\ pc[c] = "ceremony"
  /\ op[c] = "sign"
  /\ Len(asserts[c]) < MaxAssertions
  /\ asserts' = [asserts EXCEPT ![c] = Append(@, a)]
  /\ uvs' = [uvs EXCEPT ![c] = IF a.uv THEN @ + 1 ELSE @]
  /\ agreed' = [agreed EXCEPT ![c] = Agree(@, a.uvm)]
  /\ returned' = Nothing
  /\ UNCHANGED <<config, lastVars, session, lock, entry, op, pc, fresh, host,
                 secret, class, lifeVars, owner, proof>>

\* sign_with_sad has authenticated with a ceremony and signed; it may have
\* left a session of its own.
SignedWithSad(c) ==
  /\ pc[c] = "ceremony"
  /\ op[c] = "sign"
  /\ asserts[c] # <<>>
  /\ lock' = None
  /\ KeepsOrLoses(c) \/ Keeps(c, "webauthn", None)
  /\ Done(c, Signed(c,
       DeriveFactors(None, AllVerified(c), Verified(c), host[c]), FALSE))
  /\ amr' = SadAmr /\ amrUv' = AllVerified(c)
  /\ UNCHANGED <<config, entry, proof>>

\* A ceremony fails: the authenticator, the host or the server says no.
CeremonyFails(c) ==
  /\ pc[c] = "ceremony"
  /\ lock' = None
  /\ KeepsOrLoses(c)
  /\ Done(c, Nothing)
  /\ UNCHANGED <<config, lastVars, entry, proof>>

\* The client drops an expired session.
SessionEnds ==
  /\ lock = None
  /\ session # None
  /\ session' = None
  /\ owner' = None
  /\ returned' = Nothing
  /\ UNCHANGED <<config, lastVars, lock, entry, opVars, proof>>

-----------------------------------------------------------------------------
(* Lifecycle contexts.                                                     *)

\* An OPAQUE factor asks for the PIN, a WebAuthn factor runs a ceremony.
BeginFactor(c, x, o, f) ==
  /\ op' = [op EXCEPT ![c] = o]
  /\ ctx' = [ctx EXCEPT ![c] = x]
  /\ factor' = [factor EXCEPT ![c] = f]
  /\ Go(c, IF f = "opaque" THEN "ask" ELSE "want")
  /\ returned' = Nothing
  /\ UNCHANGED <<config, lastVars, session, lock, entry, signVars, dmode,
                 performed, revoked, owner, proof>>

\* register_lifecycle; WebAuthn needs an rp_id.
StartRegister(c, x, f) ==
  /\ CanStart(c)
  /\ f = "webauthn" => rp
  /\ BeginFactor(c, x, "register", f)

\* rotate_lifecycle registers again with the factor of the entry.
StartRotate(c, x) ==
  /\ CanStart(c)
  /\ entry[x] # None
  /\ entry[x].factor = "webauthn" => rp
  /\ BeginFactor(c, x, "rotate", entry[x].factor)

\* activate_lifecycle authenticates with the factor of the entry, whatever
\* its state.
StartActivate(c, x) ==
  /\ CanStart(c)
  /\ entry[x] # None
  /\ BeginFactor(c, x, "activate", entry[x].factor)

\* destroy_lifecycle needs no entry.
StartDestroy(c, x, m) ==
  /\ CanStart(c)
  /\ op' = [op EXCEPT ![c] = "destroy"]
  /\ ctx' = [ctx EXCEPT ![c] = x]
  /\ dmode' = [dmode EXCEPT ![c] = m]
  /\ Go(c, IF m = "local" THEN "local" ELSE "remote")
  /\ returned' = Nothing
  /\ UNCHANGED <<config, lastVars, session, lock, entry, signVars, factor,
                 performed, revoked, owner, proof>>

\* The request of a register, a rotate or an activate: a section of its own
\* with the PIN, the end of the ceremony with WebAuthn.
InSection(c) == (pc[c] = "remote" /\ lock = None) \/ pc[c] = "ceremony"

RegisteredRemotely(c) ==
  /\ InSection(c)
  /\ op[c] \in {"register", "rotate"}
  /\ lock' = None
  /\ Go(c, "local")
  /\ \/ UNCHANGED <<session, owner>>
     \/ session' = None /\ owner' = None
  /\ returned' = Nothing
  /\ UNCHANGED <<config, lastVars, entry, op, signVars, lifeVars, proof>>

AuthenticatedContext(c) ==
  /\ InSection(c)
  /\ op[c] = "activate"
  /\ lock' = None
  /\ Go(c, "local")
  /\ session' = factor[c]
  /\ owner' = c
  /\ proof' = [proof EXCEPT ![ctx[c]] = factor[c]]
  /\ returned' = Nothing
  /\ UNCHANGED <<config, lastVars, entry, op, signVars, lifeVars>>

LifecycleFails(c) ==
  /\ pc[c] = "remote"
  /\ op[c] \in {"register", "rotate", "activate"}
  /\ lock = None
  /\ KeepsOrLoses(c)
  /\ Done(c, Nothing)
  /\ UNCHANGED <<config, lastVars, lock, entry, proof>>

\* Mutant: a failed revocation is accepted in strict mode too.
StrictSwallowed(c) ==
  /\ pc[c] = "remote"
  /\ op[c] = "destroy"
  /\ lock = None
  /\ \E happened, ok \in BOOLEAN :
       /\ revoked' = [revoked EXCEPT ![c] = happened]
       /\ ok => happened
       /\ performed' = [performed EXCEPT ![c] = ok]
       /\ Go(c, "local")
  /\ returned' = Nothing
  /\ UNCHANGED <<config, lastVars, session, lock, entry, op, signVars, ctx,
                 factor, dmode, owner, proof>>

\* wi_revoke, which the server may have performed although it failed for the
\* client: strict mode gives up, the other goes on.
Revoke(c) ==
  /\ pc[c] = "remote"
  /\ op[c] = "destroy"
  /\ lock = None
  /\ \/ \E happened, ok \in BOOLEAN :
          /\ ok => happened
          /\ ok \/ dmode[c] # "strict"
          /\ revoked' = [revoked EXCEPT ![c] = happened]
          /\ performed' = [performed EXCEPT ![c] = ok]
          /\ Go(c, "local")
          /\ returned' = Nothing
          /\ UNCHANGED <<op, signVars, ctx, factor, dmode, session, owner>>
     \/ /\ dmode[c] = "strict"
        /\ Keeps(c, session, owner)
        /\ Done(c, Nothing)
  /\ UNCHANGED <<config, lastVars, lock, entry, proof>>

\* Mutant: an entry that is already there keeps its state.
RegisterKeepsState(c) ==
  LET old == entry[ctx[c]] IN
  /\ pc[c] = "local"
  /\ op[c] \in {"register", "rotate"}
  /\ entry' = [entry EXCEPT ![ctx[c]] =
       [factor |-> factor[c],
        state |-> IF old = None THEN "Registered" ELSE old.state]]
  /\ proof' = [proof EXCEPT ![ctx[c]] = None]
  /\ \/ /\ op[c] = "register"
        /\ Keeps(c, session, owner)
        /\ Done(c, Nothing)
     \/ /\ op[c] = "rotate"
        /\ Go(c, "again")
        /\ returned' = Nothing
        /\ UNCHANGED <<op, signVars, lifeVars, session, owner>>
  /\ UNCHANGED <<config, lastVars, lock>>

\* The entry is replaced; a rotation is not over with that.
RecordRegistered(c) ==
  /\ pc[c] = "local"
  /\ op[c] \in {"register", "rotate"}
  /\ entry' = [entry EXCEPT ![ctx[c]] =
                 [factor |-> factor[c], state |-> "Registered"]]
  /\ proof' = [proof EXCEPT ![ctx[c]] = None]
  /\ \/ /\ op[c] = "register"
        /\ Keeps(c, session, owner)
        /\ Done(c, Nothing)
     \/ /\ op[c] = "rotate"
        /\ Go(c, "again")
        /\ returned' = Nothing
        /\ UNCHANGED <<op, signVars, lifeVars, session, owner>>
  /\ UNCHANGED <<config, lastVars, lock>>

\* rotate_lifecycle sets the state once more, if there is an entry.
RotateAgain(c) ==
  LET x == ctx[c] IN
  /\ pc[c] = "again"
  /\ entry' = IF entry[x] = None THEN entry
                                 ELSE [entry EXCEPT ![x].state = "Registered"]
  /\ proof' = [proof EXCEPT ![x] = None]
  /\ Keeps(c, session, owner)
  /\ Done(c, Nothing)
  /\ UNCHANGED <<config, lastVars, lock>>

\* The context is Active, if there still is an entry.
RecordActive(c) ==
  LET x == ctx[c] IN
  /\ pc[c] = "local"
  /\ op[c] = "activate"
  /\ entry' = IF entry[x] = None THEN entry
                                 ELSE [entry EXCEPT ![x].state = "Active"]
  /\ Keeps(c, session, owner)
  /\ Done(c, Nothing)
  /\ UNCHANGED <<config, lastVars, lock, proof>>

\* Mutant: the destroyed entry keeps the factor of the operation.
DestroyedWithFactor(c) ==
  /\ pc[c] = "local"
  /\ op[c] = "destroy"
  /\ entry' = [entry EXCEPT ![ctx[c]] =
                 [factor |-> factor[c], state |-> "Destroyed"]]
  /\ proof' = [proof EXCEPT ![ctx[c]] = None]
  /\ Keeps(c, session, owner)
  /\ Done(c, [op |-> "destroy", mode |-> dmode[c], performed |-> performed[c],
              revoked |-> revoked[c]])
  /\ UNCHANGED <<config, lastVars, lock>>

\* destroy_lifecycle makes an entry even where there was none, and forgets the
\* factor of the one there was.
RecordDestroyed(c) ==
  /\ pc[c] = "local"
  /\ op[c] = "destroy"
  /\ entry' = [entry EXCEPT ![ctx[c]] =
                 [factor |-> "opaque", state |-> "Destroyed"]]
  /\ proof' = [proof EXCEPT ![ctx[c]] = None]
  /\ Keeps(c, session, owner)
  /\ Done(c, [op |-> "destroy", mode |-> dmode[c], performed |-> performed[c],
              revoked |-> revoked[c]])
  /\ UNCHANGED <<config, lastVars, lock>>

-----------------------------------------------------------------------------
CallerStep(c) ==
  \/ \E f \in BOOLEAN, h \in HostFactor \cup {None} : StartSign(c, f, h)
  \/ Collect(c)
  \/ \E k \in PinMethod \cup {"unclassified"} : Answer(c, k)
  \/ Cancel(c)
  \/ SignSection(c)
  \/ Enter(c)
  \/ \E a \in Assertion : GetAssertion(c, a)
  \/ SignedWithSad(c)
  \/ CeremonyFails(c)
  \/ \E x \in Context :
       \/ \E f \in FactorKind : StartRegister(c, x, f)
       \/ StartRotate(c, x)
       \/ StartActivate(c, x)
       \/ \E m \in DestroyMode : StartDestroy(c, x, m)
  \/ RegisteredRemotely(c)
  \/ AuthenticatedContext(c)
  \/ LifecycleFails(c)
  \/ Revoke(c)
  \/ RecordRegistered(c)
  \/ RotateAgain(c)
  \/ RecordActive(c)
  \/ RecordDestroyed(c)

Next == (\E c \in Caller : CallerStep(c)) \/ SessionEnds

Spec == Init /\ [][Next]_vars

-----------------------------------------------------------------------------
(* Properties.                                                             *)

\* An OPAQUE signature that was to be fresh, or that is returned with a PIN
\* factor, was made under the session this very operation authenticated,
\* whatever other callers do to the shared session between the PIN prompt and
\* the signature ("made under another caller's session while reporting this
\* caller's PIN factor", collect_opaque_pin).
PinFactorIsOfThisSign ==
  returned.op = "sign" /\ returned.asserts = <<>> =>
    (returned.fresh \/ returned.factors \cap PinFactor # {} => returned.own)

\* A second factor of a WebAuthn signature is one the whole ceremony bears
\* out: every assertion was user-verified, and either all of them name that
\* factor, or no factor is named by all and the host vouches for it.
CeremonyBearsOutFactor ==
  returned.op = "sign" /\ returned.asserts # <<>> =>
    LET given == Range(returned.asserts)
        named(f) == \A a \in given : a.uvm = f
    IN \A f \in returned.factors \ {Possession} :
         /\ \A a \in given : a.uv
         /\ \/ named(f)
            \/ (f = returned.host /\ ~\E g \in UvmFactor : named(g))

\* What authentication_capability answered before the user saw the transaction
\* is kept: a sign that asks for a fresh authentication reaches two categories
\* if the answer was that it can, and one to which the host lends a factor if
\* the answer was that this is what it takes -- unless the user's PIN has no
\* class, or an authenticator did not verify the user.
CapabilityIsKept ==
  returned.op = "sign" =>
    /\ Capability # "cannot"
    /\ Capability = "can" /\ returned.fresh /\ returned.class # "unclassified"
         => ~returned.short
    /\ Capability = "with host factor" /\ returned.host # None
         /\ (\A a \in Range(returned.asserts) : a.uv) => ~returned.short

\* Calls that do not overlap leave a context Active only if it has been
\* authenticated, by its own factor, since it was last registered, rotated or
\* destroyed.
ActiveMeansAuthenticated ==
  serial => \A x \in Context :
    entry[x] # None /\ entry[x].state = "Active" => proof[x] = entry[x].factor

\* remote_performed is never optimistic, and a strict destroy succeeds only
\* with it (test strict_destroy_fails_when_remote_revocation_fails).
DestroyIsNotOptimistic ==
  returned.op = "destroy" =>
    /\ returned.performed => returned.revoked
    /\ returned.mode = "strict" => returned.revoked

\* The client is held for the ceremonies only, and for one at a time: whoever
\* holds it is delayed by nothing but its own ceremony, so that no operation
\* waits for one that is over, or that waits for the client itself ("lock
\* dropped before the await below", collect_opaque_pin).
HeldForOneCeremony == \A c \in Caller : lock = c <=> pc[c] = "ceremony"

\* "Authentication methods used in the last signing operation"
\* (SecurityProperties::amr, types.rs): "pin" is among them only if the user
\* was verified.
AmrIsOfLastSign == "pin" \in amr => amrUv
=============================================================================
