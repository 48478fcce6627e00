--------------------------- MODULE Fido2Ceremony ---------------------------
(***************************************************************************)
(* Enrolment and signing of the fido2 plugin                               *)
(* (src/src/plugins/fido2_sign.rs) as ceremonies with an authenticator:    *)
(* the PIN exchange of a raw CTAP2 transport (ctap2_client_pin.rs), the    *)
(* commands that need its token (preview_sign_protocol.rs), the same       *)
(* commands through a browser (wasm_fido2.rs), and the description of an   *)
(* authenticator (authenticator_info.rs).                                  *)
(*                                                                         *)
(* A command is one step: the authenticator, which is not part of src/,    *)
(* executes it and its reply comes back or is lost.  Callers overlap       *)
(* between commands; so do power cycles, a factory reset and deletions.    *)
(***************************************************************************)
EXTENDS PreviewSignProtocol, ClientPin, FiniteSets

CONSTANTS
  Caller, None,
  Entry,       \* what a user may type at a PIN prompt
  FactoryPin,  \* the PIN an authenticator may come with
  Model,       \* kinds of authenticator, see Authenticator
  Data,        \* what is signed: [name, len]
  HostFactor,  \* factors a host may vouch for
  MaxRetries, MaxConsecutive,  \* PIN attempts; attempts until a power cycle
  MaxCalls, MaxFaults          \* bounds: operations; lost replies and resets

Attestation == {"chain", "self", "none", "android", "no certificate"}

\* ext: it implements previewSign; arkg: as ARKG; clientPin: it has PINs;
\* flagsUv: its assertions say that the user was verified.
Authenticator ==
  [ext : BOOLEAN, arkg : BOOLEAN, clientPin : BOOLEAN, force : BOOLEAN,
   protocols : Seq(Nat), min : Nat, attests : Attestation,
   flagsUv : BOOLEAN]

\* Two Unicode forms of one text are alike but for the marks.
SameText(p, q) ==
  /\ p.utf8 = q.utf8 /\ p.nul = q.nul
  /\ p.bytes - p.marks = q.bytes - q.marks
  /\ p.chars - p.marks = q.chars - q.marks

ASSUME CeremonyAssumption ==
  /\ Entry \subseteq Pin
  /\ \A p, q \in Entry \cup {FactoryPin} : p.name = q.name => SameText(p, q)
  /\ FactoryPin \in Pin /\ ~FactoryPin.nul /\ FactoryPin.marks = 0
  /\ Model \subseteq Authenticator
  /\ Data \subseteq [name : STRING, len : Nat]
  /\ HostFactor \subseteq [cat : STRING, method : STRING]
  /\ \A f \in HostFactor : f.method # "unclassified"
  /\ None \notin Pin
  /\ None \notin [cat : {"knowledge"}, method : {"other"} \cup {ClassifyPin(p) : p \in Entry}]
  /\ MaxRetries \in Nat \ {0} /\ MaxConsecutive \in Nat \ {0}
  /\ MaxCalls \in Nat /\ MaxFaults \in Nat

VARIABLES
  browser,   \* the transport performs user verification itself
  model,     \* the authenticator's kind
  dev,       \* and its state: see DeviceInit
  keys,      \* the plugin's records of its keys
  call,      \* the operation of each caller
  calls, faults,
  \* History:
  resets,    \* how often the authenticator was reset
  chosen,    \* the name of the PIN its owner knows the authenticator has
  returned   \* what the latest step returned, and the circumstances

vars == <<browser, model, dev, keys, call, calls, faults,
          resets, chosen, returned>>
\* What nothing but a reset changes.
static == <<browser, model, resets>>

Idle == [phase |-> "idle"]
Nothing == [op |-> "none"]

DeviceInit(pin) ==
  [pin |-> pin, retries |-> MaxRetries, consecutive |-> 0, agreement |-> 0,
   token |-> None, creds |-> {}, made |-> 0]

Init ==
  /\ browser \in BOOLEAN
  /\ model \in Model
  /\ \E pin \in {None} \cup (IF model.clientPin THEN {FactoryPin} ELSE {}) :
       /\ dev = DeviceInit(pin)
       /\ chosen = IF pin = None THEN None ELSE pin.name
  /\ keys = {}
  /\ call = [c \in Caller |-> Idle]
  /\ calls = 0 /\ faults = 0 /\ resets = 0
  /\ returned = Nothing

Phase == {"idle", "info", "retries", "ask", "agree to set", "set", "agree",
          "token", "command"}

TypeOK ==
  /\ browser \in BOOLEAN /\ model \in Model
  /\ dev.pin = None \/ dev.pin \in Pin
  /\ dev.retries \in 0 .. MaxRetries
  /\ dev.consecutive \in 0 .. MaxConsecutive
  /\ dev.made \in 0 .. MaxCalls /\ \A d \in dev.creds : d.id \in 1 .. dev.made
  /\ \A k, l \in keys : k.pub = l.pub => k = l
  /\ \A c \in Caller :
       /\ call[c].phase \in Phase
       /\ "pin" \in DOMAIN call[c] => call[c].pin \in Pin /\ call[c].pin.marks = 0
  /\ calls \in 0 .. MaxCalls /\ faults \in 0 .. MaxFaults /\ resets \in Nat

-----------------------------------------------------------------------------
(* The authenticator (external).                                           *)

\* What it answers to getInfo.
GetInfoBody ==
  [k \in {2, 4, 6, 12, 13} |->
     CASE k = 2 -> IF model.ext THEN {"previewSign"} ELSE {}
       [] k = 4 -> IF model.clientPin THEN [clientPin |-> dev.pin # None] ELSE [up |-> TRUE]
       [] k = 6 -> model.protocols
       [] k = 12 -> model.force
       [] k = 13 -> model.min]

Speaks(protocol) ==
  model.clientPin /\ (model.protocols = <<>> \/ \E i \in DOMAIN model.protocols :
                                                   model.protocols[i] = protocol)

\* newPinEnc is padded with zeros: a PIN ends at its first NUL.
Stored(p) == IF p.nul THEN [p EXCEPT !.name = "up to the NUL", !.nul = FALSE] ELSE p

\* A token is bound to what it was asked for: permissions and an rp.
Verifies(token, protocol, over, param, perm, rp) ==
  /\ dev.token # None /\ token = dev.token.id
  /\ perm \in dev.token.perms /\ rp = dev.token.rp
  /\ Speaks(protocol) /\ over = param

\* The attestation object of credential n's generated key, over the hash of
\* the command.
Attest(n, cose, hash) ==
  AttestationObject(
    CASE model.attests = "android" -> "android-key"
      [] model.attests = "none" -> "none"
      [] OTHER -> "packed",
    AuthData({"AT"}, <<"handle", n>>, cose, <<>>),
    CASE model.attests \in {"chain", "android"} -> [x5c |-> <<"certificate">>, over |-> hash]
      [] model.attests = "no certificate" -> [x5c |-> <<"empty">>, over |-> hash]
      [] model.attests = "self" -> [over |-> hash]
      [] OTHER -> <<>>)

Cose(n, algs) ==
  IF ECSDSA_BLS12381 \in algs
    THEN [k \in {-1, -2, -3} |-> IF k = -1 THEN -65601 ELSE <<"g1", n>>]
  ELSE IF model.arkg THEN ArkgSeed(n)
  ELSE [k \in {1, 3, -2, -3} |->
          CASE k = 1 -> 2 [] k = 3 -> ES256 [] OTHER -> <<"p256", n>>]

\* A new credential, and for a verified user the key previewSign made.
NewCredential(rp, algs) ==
  [id |-> dev.made + 1, rp |-> rp, cose |-> Cose(dev.made + 1, algs)]

CreateReply(cred, algs, hash, verified) ==
  LET authData == AuthData({"AT"}, cred.id, PlaceholderCose,
                           [previewSign |-> At(3, CHOOSE a \in algs : TRUE)])
      att == AttestationObject("packed", authData, [sig |-> TRUE])
  IN Response(0,
       IF model.ext /\ verified
         THEN WithOutput(att, 6, [previewSign |-> At(7, Attest(cred.id, cred.cose, hash))])
         ELSE att)

\* authenticatorMakeCredential: what it answers, and what it has created.
Create(msg) ==
  LET p == msg.params
      auth == {8, 9} \subseteq DOMAIN p
      algs == p[6].previewSign[3]
      cred == NewCredential(p[2].id, algs)
  IN IF ~({1, 2, 3, 4, 6} \subseteq DOMAIN p /\ DOMAIN p \subseteq 1 .. 9)
       THEN [reply |-> Refusal(2), creds |-> {}]
     ELSE IF algs \cap {ARKG_P256_ESP256, ECSDSA_BLS12381} = {}
       THEN [reply |-> Refusal(38), creds |-> {}]
     ELSE IF auth /\ ~Verifies(p[8].token, p[9], p[1], p[8].over, "mc", p[2].id)
       THEN [reply |-> Refusal(51), creds |-> {}]
     ELSE [reply |-> CreateReply(cred, algs, p[1], auth), creds |-> {cred}]

\* The signature signByCredential makes, or why it does not.
SignReply(cred, sign, uv) ==
  LET bls == 1 \notin DOMAIN cred.cose
      seed == IsArkgSeed(cred.cose)
      args == sign.args[1]
      derived == BlindPublicKey(cred.cose[-1],
                   KemEncaps(cred.cose[-2], args[-1].ikm, args[-2]).tau, args[-2])
      signature(pub) ==
        Response(0, At(2, AuthData(IF uv THEN {"UV"} ELSE {}, Fail, <<>>,
          [previewSign |-> At(6,
             [by |-> pub, over |-> sign.tbs, form |-> IF bls THEN "scalars" ELSE "der"])])))
  IN IF sign.tbs.len # 32 THEN Refusal(3)
     ELSE IF ~seed THEN signature(cred.cose[-2])
     ELSE IF sign.args = Fail THEN Refusal(20)
     ELSE IF ~Has(args, {3, -1, -2}) \/ args[-1].to # cred.cose[-2] THEN Refusal(17)
     ELSE signature(derived.point)

\* authenticatorGetAssertion.
Assertion(msg) ==
  LET p == msg.params
      auth == {6, 7} \subseteq DOMAIN p
      cred == CHOOSE d \in dev.creds : d.id = p[3][1].id
      ext == p[4].previewSign
  IN IF ~({1, 2, 3, 4} \subseteq DOMAIN p /\ DOMAIN p \subseteq 1 .. 7) THEN Refusal(2)
     ELSE IF ~auth THEN Refusal(54)
     ELSE IF ~Verifies(p[6].token, p[7], p[2], p[6].over, "ga", p[1]) THEN Refusal(51)
     ELSE IF ~\E d \in dev.creds : d.id = p[3][1].id /\ d.rp = p[1] THEN Refusal(46)
     ELSE SignReply(cred, [handle |-> ext[2], tbs |-> ext[6],
                           args |-> IF 7 \in DOMAIN ext THEN Ok(ext[7]) ELSE Fail],
                    model.flagsUv)

-----------------------------------------------------------------------------
(* Calls.                                                                  *)

In(c, phase) == call[c].phase = phase
Go(c, rec) == call' = [call EXCEPT ![c] = rec] /\ returned' = Nothing
Ends(c, result) == call' = [call EXCEPT ![c] = Idle] /\ returned' = result

\* What a call has learnt is added to its record.
With(rec, learnt) ==
  [x \in DOMAIN rec \cup DOMAIN learnt |-> IF x \in DOMAIN learnt THEN learnt[x] ELSE rec[x]]

\* Its call ends with the error of a refused command, or of a lost one.
Refused(c, status) ==
  Ends(c, [op |-> "refused", by |-> call[c], status |-> status])
Lost(c) == faults < MaxFaults /\ faults' = faults + 1 /\ Refused(c, -1)

Hears(c, status, next) ==
  IF status = 0 THEN Go(c, next) ELSE Refused(c, status)

Starts(c) == In(c, "idle") /\ calls < MaxCalls /\ calls' = calls + 1

\* generate_key: the browser does the PIN exchange itself.
StartGenerate(c, algs) ==
  /\ Starts(c)
  /\ Go(c, [op |-> "generate", n |-> calls', algs |-> algs, since |-> resets,
            phase |-> IF browser THEN "command" ELSE "info"])
  /\ UNCHANGED <<static, dev, keys, faults, chosen>>

IsBls(key) == key.pub.width = 48

\* Mutant: whatever is signed is hashed first.
HashesAll(key, data) == Ok([of |-> data.name, hashed |-> TRUE, len |-> 32])

\* The bytes signed: a digest, except that a key binding challenge is one
\* already, of 32 octets.
ToBeSigned(key, data) ==
  IF ~IsBls(key) THEN Ok([of |-> data.name, hashed |-> TRUE, len |-> 32])
  ELSE IF data.len = 32 THEN Ok([of |-> data.name, hashed |-> FALSE, len |-> 32])
  ELSE Fail

\* authentication_capability: with a PIN of its own prompt, or only if the host
\* vouches for what the transport did. It prompts nobody.
Capability == IF browser THEN "with host factor" ELSE "can"

\* SignOptions::validate: possession is never for the host to vouch for.
Validate(host) == host # None => host.cat # "possession"

\* A fresh authentication is refused where the transport verifies the user.
MayBeFresh(fresh) == ~(fresh /\ browser)

\* sign_with_factors and sign_inner up to the exchange: the record is copied.
StartSign(c, key, data, fresh, host) ==
  /\ Starts(c)
  /\ key \in keys
  /\ IF Validate(host) /\ MayBeFresh(fresh) /\ ToBeSigned(key, data) # Fail
       THEN Go(c, [op |-> "sign", n |-> calls', key |-> key, data |-> data,
                   fresh |-> fresh, host |-> host,
                   phase |-> IF browser THEN "command" ELSE "info"])
       ELSE Ends(c, Nothing)
  /\ UNCHANGED <<static, dev, keys, faults, chosen>>

\* describe_authenticator; a browser has no getInfo to send.
StartDescribe(c) ==
  /\ ~browser
  /\ Starts(c)
  /\ Go(c, [op |-> "describe", n |-> calls', phase |-> "info"])
  /\ UNCHANGED <<static, dev, keys, faults, chosen>>

\* delete_key: the record only, whoever is using a copy of it.
DeleteKey(key) ==
  /\ keys' = keys \ {key}
  /\ returned' = Nothing
  /\ UNCHANGED <<static, dev, call, calls, faults, chosen>>

-----------------------------------------------------------------------------
(* The PIN exchange.                                                       *)

Described(fit) == [op |-> "describe", fit |-> fit]

\* getInfo: a PIN to choose or to enter; for a description, its retries too.
GetInfo(c) ==
  /\ In(c, "info")
  /\ LET info == ParsePinInfo(GetInfoBody)
         seen == ParseGetInfo(GetInfoBody)
         retries == IF info.state = "set" THEN dev.retries ELSE -1
     IN IF call[c].op = "describe"
          THEN IF seen.state = "set" THEN Go(c, With(call[c], [phase |-> "retries"]))
               ELSE Ends(c, Described(Suitable(seen, -1, browser)))
          ELSE Go(c, With(call[c],
                      [phase |-> "ask", new |-> info.state = "not_set",
                       protocol |-> info.protocol, min |-> info.min,
                       fit |-> Suitable(seen, retries, browser)]))
  /\ UNCHANGED <<static, dev, keys, calls, faults, chosen>>

\* getPinRetries; one that lists no known protocol may refuse the default.
GetRetries(c) ==
  /\ In(c, "retries")
  /\ \/ Ends(c, Described(Suitable(ParseGetInfo(GetInfoBody), dev.retries, browser)))
     \/ ~Speaks(PinProtocol(model.protocols)) /\ Refused(c, 2)
  /\ UNCHANGED <<static, dev, keys, calls, faults, chosen>>

\* Mutant: an entered PIN is not searched for a NUL.
SendsNul(c, p) ==
  /\ In(c, "ask")
  /\ IF call[c].new => ValidNewPin(p, call[c].min)
       THEN Go(c, With(call[c], [phase |-> IF call[c].new THEN "agree to set" ELSE "agree",
                                 typed |-> p, pin |-> NormalizePin(p)]))
       ELSE Refused(c, -2)
  /\ UNCHANGED <<static, dev, keys, calls, faults, chosen>>

\* The host answers the prompt: what cannot be a PIN is refused here.
Answer(c, p) ==
  /\ In(c, "ask")
  /\ IF IF call[c].new THEN ValidNewPin(p, call[c].min) ELSE ~p.nul
       THEN Go(c, With(call[c], [phase |-> IF call[c].new THEN "agree to set" ELSE "agree",
                                 typed |-> p, pin |-> NormalizePin(p)]))
       ELSE Refused(c, -2)
  /\ UNCHANGED <<static, dev, keys, calls, faults, chosen>>

Cancel(c) ==
  /\ In(c, "ask")
  /\ Refused(c, -2)
  /\ UNCHANGED <<static, dev, keys, calls, faults, chosen>>

\* getKeyAgreement, once for setPIN and once for the token.
KeyAgreement(c) ==
  /\ \E from \in {"agree to set", "agree"} :
       /\ In(c, from)
       /\ IF Speaks(call[c].protocol)
            THEN Go(c, With(call[c], [phase |-> IF from = "agree" THEN "token" ELSE "set",
                                      agreed |-> dev.agreement]))
            ELSE Refused(c, 2)
  /\ UNCHANGED <<static, dev, keys, calls, faults, chosen>>

\* setPIN: only on an authenticator that has none.
SetPin(c) ==
  /\ In(c, "set")
  /\ LET newPinEnc == Encrypt(call[c].agreed, call[c].pin)
         refusal == dev.pin # None \/ Decrypt(dev.agreement, newPinEnc) = <<>>
     IN
     /\ dev' = IF refusal THEN dev
               ELSE [dev EXCEPT !.pin = Stored(call[c].pin), !.retries = MaxRetries,
                                !.consecutive = 0, !.token = None]
     /\ chosen' = IF refusal THEN chosen ELSE call[c].typed.name
     /\ \/ Hears(c, IF refusal THEN 51 ELSE 0, With(call[c], [phase |-> "agree"]))
           /\ UNCHANGED faults
        \/ Lost(c)
  /\ UNCHANGED <<static, keys, calls>>

\* Why a token is not even tried for.
TokenRefusal ==
  IF dev.pin = None THEN 53
  ELSE IF dev.retries = 0 THEN 50
  ELSE IF dev.consecutive = MaxConsecutive THEN 52
  ELSE IF model.force THEN 55
  ELSE 0

RawRp == "siros.wscd.preview-sign"

Permission(op) == IF op = "generate" THEN {"mc"} ELSE {"ga"}

\* send_get_pin_token: for this command only, and for the plugin's own rp.
TokenRequest(c) ==
  [pinHashEnc |-> Encrypt(call[c].agreed, call[c].pin), rp |-> RawRp,
   permissions |-> Permission(call[c].op)]

\* A wrong PIN, or one encrypted for an earlier key agreement.
Mismatch(req) == Decrypt(dev.agreement, req.pinHashEnc) # <<dev.pin>>

\* getPinUvAuthTokenUsingPinWithPermissions: one attempt.
GetToken(c) ==
  /\ In(c, "token")
  /\ LET req == TokenRequest(c)
         status == IF TokenRefusal # 0 THEN TokenRefusal
                   ELSE IF Mismatch(req) THEN 49 ELSE 0
     IN
     /\ dev' = CASE status = 0 ->
                      [dev EXCEPT !.retries = MaxRetries, !.consecutive = 0,
                         !.token = [id |-> call[c].n, perms |-> req.permissions, rp |-> req.rp]]
                 [] status = 49 ->
                      [dev EXCEPT !.retries = @ - 1, !.consecutive = @ + 1, !.agreement = @ + 1]
                 [] OTHER -> dev
     /\ \/ Hears(c, status, With(call[c], [phase |-> "command"])) /\ UNCHANGED faults
        \/ Lost(c)
  /\ UNCHANGED <<static, keys, calls, chosen>>

-----------------------------------------------------------------------------
(* The commands.                                                           *)

Hostname == "the page"

\* pinUvAuthParam over the hash a command carries; none for a browser.
Authenticate(c, hash) ==
  IF browser THEN Fail
  ELSE Ok([param |-> [token |-> call[c].n, over |-> hash], protocol |-> call[c].protocol])

\* The extension's inputs for a browser; a signature is asked for by the
\* credential it is to come from.
GenerateKeyInputs(algs) == [previewSign |-> [generateKey |-> [algorithms |-> algs]]]
SignByCredentialInputs(credential, sign) ==
  [previewSign |-> [signByCredential |-> At(credential, sign)]]

\* A browser attests over the hash of its client data: the hash it is given
\* is only the challenge in there.
ClientData(challenge) == <<"client data", challenge>>

\* make_credential_via_browser: the page's own name is the rp, and the
\* browser's client reads the extension's result for us.
BrowserCreate(req, cred, attestation) ==
  [credential |-> cred.id,
   generated |-> [handle |-> <<"handle", cred.id>>, cose |-> cred.cose,
                  attestation |-> attestation, algorithm |-> CHOOSE a \in req.algs : TRUE]]

Derived(cose, n, algs) ==
  IF ECSDSA_BLS12381 \in algs
    THEN IF DecodeBls(cose) = Fail THEN Fail
         ELSE Ok([pub |-> DecodeBls(cose)[1], arkg |-> Fail])
  ELSE IF IsArkgSeed(cose)
    THEN LET key == DerivePublicKey(cose, n, "ctx") IN
         Ok([pub |-> key.pub, arkg |-> Ok([kh |-> key.kh, ctx |-> "ctx"])])
  ELSE IF DecodeEc2(cose) = Fail THEN Fail
  ELSE Ok([pub |-> DecodeEc2(cose)[1], arkg |-> Fail])

\* Mutant: the hash is discarded, as it was before the record had the field.
HashDiscarded(c, parsed, made) ==
  LET key == parsed.generated IN
  [pub |-> made.pub, credential |-> parsed.credential, handle |-> key.handle,
   attestation |-> key.attestation, chain |-> HasDedicatedHardwareChain(key.attestation),
   hash |-> 0, arkg |-> made.arkg]

\* The record of a new key: its attestation is judged once, and kept together
\* with the hash it was made over.
Record(c, parsed, made) ==
  LET key == parsed.generated IN
  [pub |-> made.pub, credential |-> parsed.credential, handle |-> key.handle,
   attestation |-> key.attestation, chain |-> HasDedicatedHardwareChain(key.attestation),
   hash |-> call[c].n, arkg |-> made.arkg]

\* attestation_chain, security_properties and export_public_key.
AttestationChain(key) ==
  IF key.attestation = <<>> THEN Fail
  ELSE Ok([opaque |-> key.attestation, clientDataHash |-> key.hash])
Certification(key) == IF key.chain THEN "dedicated hardware" ELSE "unattested"
PublicKeyJwk(key) ==
  [crv |-> IF IsBls(key) THEN "BLS12381G1" ELSE "P-256", point |-> key.pub.point]

\* generate_key after the exchange, and store_generated_key.
StoreGenerated(c, parsed) ==
  LET key == parsed[1].generated
      made == Derived(key.cose, call[c].n, call[c].algs)
  IN
  IF parsed = Fail THEN Refused(c, -3) /\ UNCHANGED keys
  ELSE IF made = Fail THEN Refused(c, -3) /\ UNCHANGED keys
  ELSE /\ keys' = keys \cup {Record(c, parsed[1], made[1])}
       /\ Ends(c, [op |-> "generate", by |-> call[c], pub |-> made[1].pub])

\* The reply to a command: from the authenticator, or from the browser, which
\* may also report no attestation, and whose user may decline.
MakeCredentialRaw(c, msg) ==
  LET answer == Create(msg) IN
  /\ ~browser
  /\ dev' = [dev EXCEPT !.creds = @ \cup answer.creds,
                        !.made = @ + Cardinality(answer.creds),
                        !.token = IF answer.creds = {} THEN @ ELSE None]
  /\ \/ /\ IF answer.reply.status = 0
             THEN StoreGenerated(c, ParseMakeCredentialResponse(answer.reply))
             ELSE Refused(c, answer.reply.status) /\ UNCHANGED keys
        /\ UNCHANGED faults
     \/ Lost(c) /\ UNCHANGED keys

MakeCredentialBrowser(c, msg) ==
  LET req == ParseMakeCredentialRequest(msg)
      inputs == GenerateKeyInputs(req[1].algs)
      cred == NewCredential(Hostname, inputs.previewSign.generateKey.algorithms)
  IN
  /\ browser
  /\ UNCHANGED faults
  /\ \/ Refused(c, IF req = Fail THEN 2 ELSE -2) /\ UNCHANGED <<dev, keys>>
     \/ /\ req # Fail
        /\ dev' = [dev EXCEPT !.creds = @ \cup {cred}, !.made = @ + 1]
        /\ \/ /\ model.ext
              /\ \E attestation \in {Attest(cred.id, cred.cose, ClientData(req[1].hash))}
                      \cup (IF model.attests = "none" THEN {Fail} ELSE {}) :
                   StoreGenerated(c, ParseMakeCredentialResponse(
                     EncodeMakeCredentialResponse(BrowserCreate(req[1], cred, attestation))))
           \/ ~model.ext /\ Refused(c, -3) /\ UNCHANGED keys

MakeCredential(c) ==
  /\ In(c, "command")
  /\ call[c].op = "generate"
  /\ LET msg == BuildMakeCredentialRequest(RawRp, call[c].n, call[c].n, call[c].algs,
                                           Authenticate(c, call[c].n))
     IN MakeCredentialRaw(c, msg) \/ MakeCredentialBrowser(c, msg)
  /\ UNCHANGED <<static, calls, chosen>>

\* Mutant: the PIN counts, whatever the assertion says of verification.
PinCounts(c, result) ==
  LET second ==
        IF ~browser THEN {[cat |-> "knowledge", method |-> ClassifyPin(call[c].typed)]}
        ELSE IF result.factor # Fail THEN {result.factor[1]} ELSE {call[c].host}
  IN {f \in second : f # None /\ f.method # "unclassified"}

\* Mutant: a browser's assertion without uvm has no second factor.
HostForgotten(c, result) ==
  LET second ==
        IF ~result.uv THEN {}
        ELSE IF ~browser THEN {[cat |-> "knowledge", method |-> ClassifyPin(call[c].typed)]}
        ELSE IF result.factor # Fail THEN {result.factor[1]} ELSE {}
  IN {f \in second : f # None /\ f.method # "unclassified"}

\* The second factor of a signature: only for an assertion with the UV flag,
\* the class of the PIN typed in this call, or what the transport named, or
\* what the host vouches for.
SecondFactor(c, result) ==
  LET second ==
        IF ~result.uv THEN {}
        ELSE IF ~browser THEN {[cat |-> "knowledge", method |-> ClassifyPin(call[c].typed)]}
        ELSE IF result.factor # Fail THEN {result.factor[1]} ELSE {call[c].host}
  IN {f \in second : f # None /\ f.method # "unclassified"}

\* sign_inner after the exchange: the signature in the form of its key.
SignatureOf(key, signature) ==
  IF IsBls(key) THEN ValidateSchnorr(signature) ELSE DerSignatureToRaw(signature)

ReturnSignature(c, parsed, truth) ==
  LET signature == SignatureOf(call[c].key, parsed[1].signature) IN
  IF parsed = Fail THEN Refused(c, -3)
  ELSE IF signature = Fail THEN Refused(c, -3)
  ELSE Ends(c, [op |-> "sign", by |-> call[c], signature |-> signature[1],
                second |-> SecondFactor(c, parsed[1]), truth |-> truth])

\* An assertion a browser can obtain: verified or not, with or without uvm.
BrowserAssertion == [uv : BOOLEAN, factor : {Fail, Ok([cat |-> "knowledge", method |-> "other"])}]

GetAssertionRaw(c, msg) ==
  LET reply == Assertion(msg) IN
  /\ ~browser
  /\ dev' = [dev EXCEPT !.token = IF reply.status = 0 THEN None ELSE @]
  /\ \/ /\ IF reply.status = 0
             THEN ReturnSignature(c, ParseGetAssertionResponse(reply),
                    [uv |-> "UV" \in reply.body[2].flags, factor |-> Fail])
             ELSE Refused(c, reply.status)
        /\ UNCHANGED faults
     \/ Lost(c)

GetAssertionBrowser(c, msg) ==
  LET parsed == ParseGetAssertionRequest(msg)
      req == parsed[1]
      inputs == SignByCredentialInputs(req.credential, req.sign)
      known == {d \in dev.creds : d.id = req.credential /\ d.rp = Hostname}
  IN
  /\ browser
  /\ UNCHANGED <<dev, faults>>
  /\ \/ Refused(c, IF parsed = Fail THEN 2 ELSE -2)
     \/ /\ parsed # Fail
        /\ \E cred \in known, a \in BrowserAssertion :
          LET reply == SignReply(cred, inputs.previewSign.signByCredential[cred.id], a.uv) IN
          IF reply.status # 0 THEN Refused(c, reply.status)
          ELSE ReturnSignature(c, ParseGetAssertionResponse(
                 EncodeGetAssertionResponse(
                   [signature |-> ExtractSignature(reply.body[2])[1],
                    uv |-> a.uv, factor |-> a.factor])), a)

\* The data and the copied key decide what is sent.
GetAssertion(c) ==
  /\ In(c, "command")
  /\ call[c].op = "sign"
  /\ LET key == call[c].key
         sign == [handle |-> key.handle, tbs |-> ToBeSigned(key, call[c].data)[1],
                  args |-> IF key.arkg = Fail THEN Fail
                           ELSE Ok(EncodeArkgSignArgs(ARKG_P256_ESP256, key.arkg[1].kh,
                                                      key.arkg[1].ctx))]
         msg == BuildGetAssertionRequest(RawRp, call[c].n, key.credential, sign,
                                         Authenticate(c, call[c].n))
     IN GetAssertionRaw(c, msg) \/ GetAssertionBrowser(c, msg)
  /\ UNCHANGED <<static, keys, calls, chosen>>

-----------------------------------------------------------------------------
(* Faults: a command that never arrives, a power cycle, a factory reset.   *)

NotDelivered(c) ==
  /\ call[c].phase \notin {"idle", "ask"}
  /\ Lost(c)
  /\ UNCHANGED <<static, dev, keys, calls, chosen>>

PowerCycle ==
  /\ faults < MaxFaults
  /\ faults' = faults + 1
  /\ dev' = [dev EXCEPT !.token = None, !.consecutive = 0, !.agreement = @ + 1]
  /\ returned' = Nothing
  /\ UNCHANGED <<static, keys, call, calls, chosen>>

FactoryReset ==
  /\ faults < MaxFaults
  /\ faults' = faults + 1
  /\ dev' = [dev EXCEPT !.pin = None, !.creds = {}, !.retries = MaxRetries,
                        !.token = None, !.consecutive = 0, !.agreement = @ + 1]
  /\ resets' = resets + 1
  /\ chosen' = None
  /\ returned' = Nothing
  /\ UNCHANGED <<browser, model, keys, call, calls>>

-----------------------------------------------------------------------------
Step(c) ==
  \/ GetInfo(c)
  \/ GetRetries(c)
  \/ \E p \in Entry : Answer(c, p)
  \/ Cancel(c)
  \/ KeyAgreement(c)
  \/ SetPin(c)
  \/ GetToken(c)
  \/ MakeCredential(c)
  \/ GetAssertion(c)
  \/ NotDelivered(c)

Next ==
  \/ \E c \in Caller, alg \in {ARKG_P256_ESP256, ECSDSA_BLS12381} : StartGenerate(c, {alg})
  \/ \E c \in Caller, key \in keys, data \in Data, fresh \in BOOLEAN,
        host \in HostFactor \cup {None} : StartSign(c, key, data, fresh, host)
  \/ \E c \in Caller : StartDescribe(c)
  \/ \E key \in keys : DeleteKey(key)
  \/ \E c \in Caller : Step(c)
  \/ PowerCycle
  \/ FactoryReset

Spec == Init /\ [][Next]_vars

-----------------------------------------------------------------------------
(* Properties.                                                             *)

\* The PIN an authenticator has is the PIN its user chose or was given, and
\* typing it in any Unicode form opens the authenticator: it is refused as
\* wrong only if the key agreement it was encrypted for was renewed in between,
\* by another call's attempt, a power cycle or a reset
\* (acquire_pin_uv_auth_token, normalize_pin, validate_new_pin).
RightPinIsAccepted ==
  returned.op = "refused" /\ returned.status = 49 =>
    \/ returned.by.typed.name # chosen
    \/ returned.by.agreed # dev.agreement - 1

\* One prompt costs at most one PIN attempt, the call that spends it ends,
\* and an entry that cannot be a PIN costs none.
PromptCostsOneAttempt ==
  [][dev'.retries < dev.retries =>
       /\ dev'.retries = dev.retries - 1
       /\ \E c \in Caller : /\ call[c].phase = "token"
                            /\ call'[c].phase = "idle"
                            /\ ~call[c].pin.nul]_vars

\* No authenticator and no browser refuses what the plugin sends for its
\* form, and no reply of theirs is unreadable: a command fails for want of a
\* token only if another call, a power cycle or a reset has taken it, and for
\* want of a credential only after a reset.
CommandsAreUnderstood ==
  returned.op = "refused" =>
    LET by == returned.by IN
    CASE returned.status = 2 -> by.phase \in {"agree to set", "agree", "retries"}
      [] returned.status \in {3, 17, 20, 38, 54} -> FALSE
      [] returned.status = -3 -> ~model.ext
      [] returned.status = 51 /\ by.phase = "command" ->
           dev.token = None \/ dev.token.id # by.n
      [] returned.status = 46 -> \A d \in dev.creds : d.id # by.key.credential
      [] OTHER -> TRUE

\* A signature verifies, in the form its algorithm has, under the public key
\* of the kid it was asked for and over the data it was asked for.
SignatureVerifies ==
  returned.op = "sign" =>
    LET jwk == PublicKeyJwk(returned.by.key)
        sig == returned.signature
    IN
    /\ sig.by = jwk.point
    /\ sig.over.of = returned.by.data.name
    /\ sig.over.hashed = (jwk.crv = "P-256")
    /\ sig.form = IF jwk.crv = "P-256" THEN "raw" ELSE "scalars"

\* The second factor of a signature is borne out by its own assertion: the
\* user was verified, and the factor is the PIN the authenticator got in this
\* call, or what the browser's uvm output names, or, failing that, what the
\* host vouches for.  A fresh authentication is a PIN of this call.
FactorIsBorneOut ==
  returned.op = "sign" =>
    LET by == returned.by
        truth == returned.truth
    IN
    /\ \A f \in returned.second :
         /\ truth.uv
         /\ f = IF ~browser THEN [cat |-> "knowledge", method |-> ClassifyPin(by.pin)]
               ELSE IF truth.factor # Fail THEN truth.factor[1] ELSE by.host
    /\ truth.uv /\ truth.factor # Fail => returned.second # {}
    /\ by.fresh => ~browser /\ "typed" \in DOMAIN by

\* What authentication_capability answered before the user saw the transaction
\* is kept by every sign whose assertion verified the user: the PIN of the
\* call, if it has a class, or the factor the host vouches for is a second
\* category next to the key.
CapabilityIsKept ==
  returned.op = "sign" /\ returned.truth.uv =>
    LET by == returned.by
        help == IF Capability = "can" THEN ClassifyPin(by.typed) # "unclassified"
                                      ELSE by.host # None
    IN help => \E f \in returned.second : f.cat # "possession"

\* Dedicated hardware is credited to a key only if the authenticator attested
\* that key with a chain of certificates that says so, whichever transport the
\* key was generated over; and to every such key, provided that a browser passes
\* on the chain it was given (here it reports no attestation only where the
\* authenticator made none).
CertificationIsTrue ==
  \A k \in keys : Certification(k) = "dedicated hardware" <=> model.attests = "chain"

\* Whatever happened since a key was made, what attestation_chain returns of
\* it verifies: it attests the key or seed the public key comes from, and a
\* statement an authenticator signed on a raw transport was signed over the
\* hash that is returned with it.
AttestationVerifies ==
  \A k \in keys :
    LET chain == AttestationChain(k)
        att == chain[1].opaque
        cose == att[2].cose
    IN
    /\ chain # Fail
    /\ att[2].id = k.handle
    /\ IF k.arkg = Fail THEN k.pub.point = cose[-2] ELSE k.pub.point[1] = cose[-1]
    /\ ~browser /\ "over" \in DOMAIN att[3] => att[3].over = chain[1].clientDataHash

\* describe_authenticator and the PIN exchange read the same getInfo: no
\* enrolment succeeds on an authenticator that was described as unsuitable
\* when it began and was not reset since.
UnsuitableNeverEnrols ==
  returned.op = "generate" /\ ~browser =>
    returned.by.fit \/ returned.by.since < resets
=============================================================================
