------------------------ MODULE PreviewSignProtocol ------------------------
(***************************************************************************)
(* The messages of a previewSign ceremony                                  *)
(* (src/src/preview_sign_protocol.rs, src/src/arkg.rs): requests, responses*)
(* and what is read back out of them.                                      *)
(*                                                                         *)
(* A CBOR map with integer keys is a function on those keys, one with text *)
(* keys a record; byte strings are values.  What the layouts, the fallbacks*)
(* and the omissions of the code decide is kept; bytes are not.            *)
(***************************************************************************)
EXTENDS Integers, Sequences

MakeCredentialCommand == 1
GetAssertionCommand == 2

\* COSE identifiers of the two generateKey algorithms and of ES256.
ARKG_P256_ESP256 == -65539
ECSDSA_BLS12381 == -65609
ES256 == -7

\* A parser's answer: at most one value, none for an error.
Fail == <<>>
Ok(value) == <<value>>

Has(map, keys) == keys \subseteq DOMAIN map

\* A map of one entry.
At(key, value) == [k \in {key} |-> value]

-----------------------------------------------------------------------------
(* ARKG: keys derived from a public seed.                                  *)

\* An authenticator's ARKG-pub key, and whether parse_arkg_pub_seed takes
\* the COSE key a response carries for one.
ArkgSeed(n) ==
  [k \in {1, 3, -1, -2} |->
     CASE k = 1 -> -65537 [] k = 3 -> -65700 [] k = -1 -> <<"bl", n>> [] k = -2 -> <<"kem", n>>]
IsArkgSeed(cose) ==
  /\ Has(cose, {1, 3, -1, -2})
  /\ cose[1] = -65537
  /\ cose[3] \in {-65700, -65539}

\* kem_encaps and bl_blind_public_key: the context is bound into both.
KemEncaps(pkKem, ikm, ctx) ==
  [tau |-> <<pkKem, ikm, ctx>>, kh |-> [to |-> pkKem, ikm |-> ikm, ctx |-> ctx]]
BlindPublicKey(pkBl, tau, ctx) ==
  [curve |-> "P-256", width |-> 32, point |-> <<pkBl, tau, ctx>>]

\* derive_public_key: the key, and the handle the authenticator derives the
\* private key from.
DerivePublicKey(seed, ikm, ctx) ==
  LET kem == KemEncaps(seed[-2], ikm, ctx) IN
  [pub |-> BlindPublicKey(seed[-1], kem.tau, ctx), kh |-> kem.kh]

\* encode_arkg_sign_args.
EncodeArkgSignArgs(alg, kh, ctx) ==
  [k \in {3, -1, -2} |-> CASE k = 3 -> alg [] k = -1 -> kh [] k = -2 -> ctx]

-----------------------------------------------------------------------------
(* Requests.                                                               *)

\* The keys a command has for pinUvAuthParam and pinUvAuthProtocol.
PinUvAuth(auth, keys) == IF auth = Fail THEN {} ELSE keys

GenerateKeyExtension(algs) ==
  [k \in {3, 4} |-> CASE k = 3 -> algs [] k = 4 -> {"up", "uv"}]

BuildMakeCredentialRequest(rpId, userId, hash, algs, auth) ==
  [command |-> MakeCredentialCommand,
   params |->
     [k \in {1, 2, 3, 4, 6} \cup PinUvAuth(auth, {8, 9}) |->
        CASE k = 1 -> hash
          [] k = 2 -> [id |-> rpId]
          [] k = 3 -> [id |-> userId]
          [] k = 4 -> {-7, -8, -35, -36, -37, -257, -47, -48, -49, -50}
          [] k = 6 -> [previewSign |-> GenerateKeyExtension(algs)]
          [] k = 8 -> auth[1].param
          [] k = 9 -> auth[1].protocol]]

SignByCredential(sign) ==
  [k \in {2, 6} \cup (IF sign.args = Fail THEN {} ELSE {7}) |->
     CASE k = 2 -> sign.handle [] k = 6 -> sign.tbs [] k = 7 -> sign.args[1]]

\* Mutant: the keys of MakeCredential are used for GetAssertion.
MakeCredentialLayout(rpId, challenge, credential, sign, auth) ==
  [command |-> GetAssertionCommand,
   params |->
     [k \in {1, 2, 3, 6} \cup PinUvAuth(auth, {8, 9}) |->
        CASE k = 1 -> rpId
          [] k = 2 -> challenge
          [] k = 3 -> <<[id |-> credential]>>
          [] k = 6 -> [previewSign |-> SignByCredential(sign)]
          [] k = 8 -> auth[1].param
          [] k = 9 -> auth[1].protocol]]

BuildGetAssertionRequest(rpId, challenge, credential, sign, auth) ==
  [command |-> GetAssertionCommand,
   params |->
     [k \in {1, 2, 3, 4} \cup PinUvAuth(auth, {6, 7}) |->
        CASE k = 1 -> rpId
          [] k = 2 -> challenge
          [] k = 3 -> <<[id |-> credential]>>
          [] k = 4 -> [previewSign |-> SignByCredential(sign)]
          [] k = 6 -> auth[1].param
          [] k = 7 -> auth[1].protocol]]

\* What a transport that is no authenticator reads back out of a command.
ParseMakeCredentialRequest(msg) ==
  IF msg.command = MakeCredentialCommand /\ Has(msg.params, {1, 2, 3, 6})
    THEN Ok([rp |-> msg.params[2].id, user |-> msg.params[3].id,
             hash |-> msg.params[1], algs |-> msg.params[6].previewSign[3]])
    ELSE Fail

ParseGetAssertionRequest(msg) ==
  IF msg.command = GetAssertionCommand /\ Has(msg.params, {1, 2, 3, 4})
    THEN LET ext == msg.params[4].previewSign IN
         Ok([rp |-> msg.params[1], challenge |-> msg.params[2],
             credential |-> msg.params[3][1].id,
             sign |-> [handle |-> ext[2], tbs |-> ext[6],
                       args |-> IF 7 \in DOMAIN ext THEN Ok(ext[7]) ELSE Fail]])
    ELSE Fail

-----------------------------------------------------------------------------
(* Responses.                                                              *)

Response(status, body) == [status |-> status, body |-> body]
Refusal(status) == Response(status, <<>>)

\* authData: the flags, a credential with its COSE key if AT is set, and a
\* record of extension outputs if ED is.
AuthData(flags, id, cose, ext) ==
  [flags |-> flags \cup (IF DOMAIN ext # {} THEN {"ED"} ELSE {}),
   id |-> id, cose |-> cose, ext |-> ext]

\* A map with the keys 1, 2 and 3; a response may have another.
AttestationObject(fmt, authData, attStmt) ==
  [k \in {1, 2, 3} |-> CASE k = 1 -> fmt [] k = 2 -> authData [] k = 3 -> attStmt]
WithOutput(att, key, output) ==
  [k \in {1, 2, 3, key} |-> IF k = key THEN output ELSE att[k]]

\* attestation_object_has_dedicated_hardware_chain: what counts is a chain
\* of certificates, not the format, except that android-key never counts.
HasDedicatedHardwareChain(att) ==
  /\ Has(att, {3})
  /\ 1 \in DOMAIN att => att[1] # "android-key"
  /\ "x5c" \in DOMAIN att[3]
  /\ att[3].x5c # <<>>
  /\ \A i \in DOMAIN att[3].x5c : att[3].x5c[i] = "certificate"

PlaceholderCose ==
  [k \in {1, 3, -1} |-> CASE k = 1 -> 2 [] k = 3 -> ES256 [] k = -1 -> 1]

\* Mutant: the attestation the browser reported is not passed on.
AlwaysSynthetic(result) ==
  LET key == result.generated IN
  Response(0, WithOutput(
    AttestationObject("none", AuthData({"AT"}, result.credential,
        PlaceholderCose, [previewSign |-> At(3, key.algorithm)]), <<>>),
    7, AttestationObject("none", AuthData({"AT"}, key.handle, key.cose, <<>>), <<>>)))

\* encode_make_credential_response: the real attestation object if there is
\* one, a synthetic one otherwise.
EncodeMakeCredentialResponse(result) ==
  LET key == result.generated IN
  Response(0, WithOutput(
    AttestationObject("none", AuthData({"AT"}, result.credential,
        PlaceholderCose, [previewSign |-> At(3, key.algorithm)]), <<>>),
    7, IF key.attestation # <<>> THEN key.attestation
       ELSE AttestationObject("none", AuthData({"AT"}, key.handle, key.cose, <<>>), <<>>)))

\* parse_attested_credential_data and extract_signed_previewsign_algorithm.
AttestedCredential(authData) ==
  IF "AT" \notin authData.flags THEN Fail
  ELSE Ok([id |-> authData.id, cose |-> authData.cose])

SignedAlgorithm(authData) ==
  IF /\ "ED" \in authData.flags
     /\ "previewSign" \in DOMAIN authData.ext
     /\ 3 \in DOMAIN authData.ext.previewSign
    THEN Ok(authData.ext.previewSign[3]) ELSE Fail

\* parse_make_credential_response: the generated key comes with its own
\* attestation object, in unsignedExtensionOutputs (6) or at the older key 7.
ParseMakeCredentialResponse(resp) ==
  LET att == resp.body
      unsigned == 6 \in DOMAIN att /\ "previewSign" \in DOMAIN att[6]
                    /\ 7 \in DOMAIN att[6].previewSign
      inner == IF unsigned THEN att[6].previewSign[7] ELSE att[7]
      key == AttestedCredential(inner[2])
  IN
  IF \/ resp.status # 0
     \/ ~Has(att, {2})
     \/ AttestedCredential(att[2]) = Fail
     \/ ~unsigned /\ 7 \notin DOMAIN att
     \/ ~Has(inner, {2})
     \/ key = Fail
    THEN Fail
    ELSE Ok([credential |-> AttestedCredential(att[2])[1].id,
             generated |->
               [handle |-> key[1].id, cose |-> key[1].cose, attestation |-> inner,
                algorithm |->
                  IF SignedAlgorithm(att[2]) # Fail THEN SignedAlgorithm(att[2])[1]
                  ELSE IF 3 \in DOMAIN key[1].cose THEN key[1].cose[3]
                  ELSE ES256]])

\* extract_previewsign_signature.
ExtractSignature(authData) ==
  IF /\ "AT" \notin authData.flags
     /\ "ED" \in authData.flags
     /\ "previewSign" \in DOMAIN authData.ext
     /\ 6 \in DOMAIN authData.ext.previewSign
    THEN Ok(authData.ext.previewSign[6])
    ELSE Fail

\* The crate's private extension: a factor only the browser transport names.
ExtractVerifiedFactor(authData) ==
  IF "verifiedFactor" \in DOMAIN authData.ext
     /\ authData.ext.verifiedFactor.cat \in {"knowledge", "inherence"}
    THEN Ok(authData.ext.verifiedFactor) ELSE Fail

EncodeGetAssertionResponse(result) ==
  LET signature == At(6, result.signature) IN
  Response(0, At(2,
    AuthData(IF result.uv THEN {"UV"} ELSE {}, Fail, <<>>,
             IF result.factor = Fail THEN [previewSign |-> signature]
             ELSE [previewSign |-> signature, verifiedFactor |-> result.factor[1]])))

ParseGetAssertionResponse(resp) ==
  IF resp.status # 0 \/ ~Has(resp.body, {2}) THEN Fail
  ELSE LET authData == resp.body[2]
           signature == ExtractSignature(authData)
       IN IF signature = Fail THEN Fail
          ELSE Ok([signature |-> signature[1], uv |-> "UV" \in authData.flags,
                   factor |-> ExtractVerifiedFactor(authData)])

-----------------------------------------------------------------------------
(* Forms of keys and signatures.                                           *)

\* decode_cose_bls12381_g1_public_key and decode_cose_ec2_public_key.
DecodeBls(cose) ==
  IF Has(cose, {-1, -2, -3}) /\ cose[-1] \in {13, -65601}
    THEN Ok([curve |-> "BLS12381G1", width |-> 48, point |-> cose[-2]])
    ELSE Fail
DecodeEc2(cose) ==
  IF Has(cose, {-2, -3})
    THEN Ok([curve |-> "P-256", width |-> 32, point |-> cose[-2]])
    ELSE Fail

\* der_signature_to_raw and validate_bls12381_schnorr_signature.
DerSignatureToRaw(sig) ==
  IF sig.form = "der" THEN Ok([sig EXCEPT !.form = "raw"]) ELSE Fail
ValidateSchnorr(sig) == IF sig.form = "scalars" THEN Ok(sig) ELSE Fail
=============================================================================
