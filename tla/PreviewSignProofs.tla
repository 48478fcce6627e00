------------------------- MODULE PreviewSignProofs -------------------------
(***************************************************************************)
(* What the messages of PreviewSignProtocol say to whom reads them, for    *)
(* every value they carry.                                                 *)
(***************************************************************************)
EXTENDS PreviewSignProtocol, TLAPS

-----------------------------------------------------------------------------
(* Requests.                                                               *)

\* A raw MakeCredential carries its parameters and the keys of its token.
LEMMA MakeCredentialParams ==
  ASSUME NEW rp, NEW user, NEW hash, NEW algs, NEW auth
  PROVE  LET p == BuildMakeCredentialRequest(rp, user, hash, algs, Ok(auth)).params IN
         /\ DOMAIN p = {1, 2, 3, 4, 6, 8, 9}
         /\ p[1] = hash /\ p[2].id = rp /\ p[6].previewSign[3] = algs
         /\ p[8] = auth.param /\ p[9] = auth.protocol
BY DEF BuildMakeCredentialRequest, PinUvAuth, GenerateKeyExtension, Ok, Fail

\* A browser's MakeCredential carries no token, and a transport that is no
\* authenticator reads back what was asked for.
THEOREM MakeCredentialReadBack ==
  ASSUME NEW rp, NEW user, NEW hash, NEW algs
  PROVE  ParseMakeCredentialRequest(BuildMakeCredentialRequest(rp, user, hash, algs, Fail))
           = Ok([rp |-> rp, user |-> user, hash |-> hash, algs |-> algs])
<1> DEFINE msg == BuildMakeCredentialRequest(rp, user, hash, algs, Fail)
<1>1. /\ msg.command = MakeCredentialCommand
      /\ DOMAIN msg.params = {1, 2, 3, 4, 6}
      /\ msg.params[1] = hash /\ msg.params[2] = [id |-> rp] /\ msg.params[3] = [id |-> user]
      /\ msg.params[6] = [previewSign |-> GenerateKeyExtension(algs)]
  BY DEF BuildMakeCredentialRequest, PinUvAuth, Fail
<1>2. GenerateKeyExtension(algs)[3] = algs
  BY DEF GenerateKeyExtension
<1> HIDE DEF msg
<1>3. Has(msg.params, {1, 2, 3, 6})
  BY <1>1 DEF Has
<1>4. QED
  BY <1>1, <1>2, <1>3 DEF ParseMakeCredentialRequest, msg

\* What SignByCredential says of a signature's inputs.
LEMMA SignInputs ==
  ASSUME NEW sign, NEW handle, NEW tbs, NEW args,
         sign = [handle |-> handle, tbs |-> tbs, args |-> args]
  PROVE  LET ext == SignByCredential(sign) IN
         /\ ext[2] = handle /\ ext[6] = tbs
         /\ 7 \in DOMAIN ext <=> args # Fail
         /\ args # Fail => ext[7] = args[1]
BY DEF SignByCredential

LEMMA GetAssertionParams ==
  ASSUME NEW rp, NEW hash, NEW credential, NEW sign, NEW auth
  PROVE  LET p == BuildGetAssertionRequest(rp, hash, credential, sign, Ok(auth)).params IN
         /\ DOMAIN p = {1, 2, 3, 4, 6, 7}
         /\ p[1] = rp /\ p[2] = hash /\ p[3][1].id = credential
         /\ p[4].previewSign = SignByCredential(sign)
         /\ p[6] = auth.param /\ p[7] = auth.protocol
BY DEF BuildGetAssertionRequest, PinUvAuth, Ok, Fail

\* As for MakeCredential: what is read back is what was asked for.
THEOREM GetAssertionReadBack ==
  ASSUME NEW rp, NEW hash, NEW credential, NEW handle, NEW tbs, NEW args,
         args = Fail \/ args = Ok(args[1])
  PROVE  LET sign == [handle |-> handle, tbs |-> tbs, args |-> args] IN
         ParseGetAssertionRequest(BuildGetAssertionRequest(rp, hash, credential, sign, Fail))
           = Ok([rp |-> rp, challenge |-> hash, credential |-> credential, sign |-> sign])
<1> DEFINE sign == [handle |-> handle, tbs |-> tbs, args |-> args]
           ext == SignByCredential(sign)
           msg == BuildGetAssertionRequest(rp, hash, credential, sign, Fail)
<1>1. /\ msg.command = GetAssertionCommand
      /\ DOMAIN msg.params = {1, 2, 3, 4}
      /\ msg.params[1] = rp /\ msg.params[2] = hash /\ msg.params[3][1].id = credential
      /\ msg.params[4].previewSign = ext
  BY DEF BuildGetAssertionRequest, PinUvAuth, Fail
<1>2. /\ ext[2] = handle /\ ext[6] = tbs
      /\ (IF 7 \in DOMAIN ext THEN Ok(ext[7]) ELSE Fail) = args
  BY SignInputs
<1> HIDE DEF msg, ext
<1>3. Has(msg.params, {1, 2, 3, 4})
  BY <1>1 DEF Has
<1>4. ParseGetAssertionRequest(msg)
        = Ok([rp |-> rp, challenge |-> hash, credential |-> credential, sign |-> sign])
  BY <1>1, <1>2, <1>3 DEF ParseGetAssertionRequest
<1>5. QED
  BY <1>4 DEF msg

-----------------------------------------------------------------------------
(* Responses.                                                              *)

\* The attested credential of authenticator data that says it has one.
LEMMA Attested ==
  ASSUME NEW id, NEW cose, NEW ext
  PROVE  LET a == AttestedCredential(AuthData({"AT"}, id, cose, ext)) IN
         a # Fail /\ a[1].id = id /\ a[1].cose = cose
BY DEF AttestedCredential, AuthData, Ok, Fail

LEMMA ObjectFields ==
  ASSUME NEW fmt, NEW authData, NEW stmt
  PROVE  LET a == AttestationObject(fmt, authData, stmt) IN
         /\ DOMAIN a = {1, 2, 3} /\ a # Fail
         /\ a[1] = fmt /\ a[2] = authData /\ a[3] = stmt
BY DEF AttestationObject, Fail

LEMMA OutputFields ==
  ASSUME NEW att, NEW key, NEW output, key \notin {1, 2, 3}
  PROVE  LET a == WithOutput(att, key, output) IN
         /\ DOMAIN a = {1, 2, 3, key}
         /\ a[1] = att[1] /\ a[2] = att[2] /\ a[3] = att[3] /\ a[key] = output
BY DEF WithOutput

\* Whatever a successful response is: it is read if the object it carries, at
\* one of the two keys, is one of a credential, and what is read is that object.
LEMMA ResponseRead ==
  ASSUME NEW body, NEW inner,
         Has(body, {2}), Has(inner, {2}),
         AttestedCredential(body[2]) # Fail,
         AttestedCredential(inner[2]) # Fail,
         \/ /\ 6 \in DOMAIN body
            /\ body[6] = [previewSign |-> At(7, inner)]
         \/ /\ 6 \notin DOMAIN body
            /\ 7 \in DOMAIN body
            /\ body[7] = inner
  PROVE  LET parsed == ParseMakeCredentialResponse(Response(0, body)) IN
         /\ parsed # Fail
         /\ parsed[1].credential = AttestedCredential(body[2])[1].id
         /\ parsed[1].generated.handle = AttestedCredential(inner[2])[1].id
         /\ parsed[1].generated.cose = AttestedCredential(inner[2])[1].cose
         /\ parsed[1].generated.attestation = inner
<1> DEFINE unsigned == 6 \in DOMAIN body /\ "previewSign" \in DOMAIN body[6]
                         /\ 7 \in DOMAIN body[6].previewSign
           object == IF unsigned THEN body[6].previewSign[7] ELSE body[7]
           key == AttestedCredential(object[2])
           algorithm == IF SignedAlgorithm(body[2]) # Fail THEN SignedAlgorithm(body[2])[1]
                        ELSE IF 3 \in DOMAIN key[1].cose THEN key[1].cose[3]
                        ELSE ES256
<1>1. object = inner /\ (unsigned \/ 7 \in DOMAIN body)
  BY DEF At
<1>2. key = AttestedCredential(inner[2])
  BY <1>1
<1>3. ParseMakeCredentialResponse(Response(0, body)) =
        Ok([credential |-> AttestedCredential(body[2])[1].id,
            generated |-> [handle |-> key[1].id, cose |-> key[1].cose,
                           attestation |-> object, algorithm |-> algorithm]])
  BY <1>1, <1>2 DEF ParseMakeCredentialResponse, Response
<1> HIDE DEF key, object, algorithm
<1>4. QED
  BY <1>1, <1>2, <1>3 DEF Ok, Fail

\* Without either key there is no generated key to read.
LEMMA ResponseUnread ==
  ASSUME NEW body, 6 \notin DOMAIN body, 7 \notin DOMAIN body
  PROVE  ParseMakeCredentialResponse(Response(0, body)) = Fail
BY DEF ParseMakeCredentialResponse, Response

\* The browser's answer survives being packed and unpacked: the credential,
\* the handle and the key, and the attestation it reported, or one that says
\* there is none.
THEOREM MakeCredentialRoundTrip ==
  ASSUME NEW result, NEW handle, NEW cose, NEW f,
         result.generated.handle = handle, result.generated.cose = cose,
         \/ result.generated.attestation = Fail
         \/ /\ Has(result.generated.attestation, {2})
            /\ result.generated.attestation[2] = AuthData({"AT"}, handle, cose, f)
  PROVE  LET parsed == ParseMakeCredentialResponse(EncodeMakeCredentialResponse(result))
             key == parsed[1].generated
         IN
         /\ parsed # Fail
         /\ parsed[1].credential = result.credential
         /\ key.handle = handle /\ key.cose = cose
         /\ key.attestation =
              IF result.generated.attestation # Fail THEN result.generated.attestation
              ELSE AttestationObject("none", AuthData({"AT"}, handle, cose, <<>>), <<>>)
<1> DEFINE none == AttestationObject("none", AuthData({"AT"}, handle, cose, <<>>), <<>>)
           given == result.generated.attestation
           inner == IF given # Fail THEN given ELSE none
           ext == [previewSign |-> At(3, result.generated.algorithm)]
           outer == AttestationObject("none",
                      AuthData({"AT"}, result.credential, PlaceholderCose, ext), <<>>)
           body == WithOutput(outer, 7, inner)
           resp == EncodeMakeCredentialResponse(result)
<1>1. resp = Response(0, body)
  BY DEF EncodeMakeCredentialResponse, Fail
<1>2. /\ DOMAIN body = {1, 2, 3, 7} /\ body[7] = inner
      /\ body[2] = AuthData({"AT"}, result.credential, PlaceholderCose, ext)
  <2>1. outer[2] = AuthData({"AT"}, result.credential, PlaceholderCose, ext)
    BY ObjectFields
  <2> HIDE DEF outer, inner, ext
  <2>2. QED
    BY <2>1 DEF WithOutput
<1>3. Has(inner, {2})
  <2>1. DOMAIN none = {1, 2, 3} /\ none # Fail
    BY ObjectFields
  <2> HIDE DEF none
  <2>2. QED
    BY <2>1 DEF Has
<1>4. \E g : inner[2] = AuthData({"AT"}, handle, cose, g)
  <2>1. none[2] = AuthData({"AT"}, handle, cose, <<>>)
    BY ObjectFields
  <2> HIDE DEF none
  <2>2. QED
    BY <2>1
<1> HIDE DEF none, inner, ext, outer, body, resp
<1>6. PICK g : inner[2] = AuthData({"AT"}, handle, cose, g)
  BY <1>4
<1>7. LET parsed == ParseMakeCredentialResponse(Response(0, body)) IN
      /\ parsed # Fail
      /\ parsed[1].credential = result.credential
      /\ parsed[1].generated.handle = handle
      /\ parsed[1].generated.cose = cose
      /\ parsed[1].generated.attestation = inner
  <2>1. 6 \notin DOMAIN body /\ 7 \in DOMAIN body /\ body[7] = inner /\ Has(body, {2})
    BY <1>2 DEF Has
  <2>2. /\ AttestedCredential(body[2]) # Fail
        /\ AttestedCredential(body[2])[1].id = result.credential
    BY <1>2, Attested
  <2>3. /\ AttestedCredential(inner[2]) # Fail
        /\ AttestedCredential(inner[2])[1].id = handle
        /\ AttestedCredential(inner[2])[1].cose = cose
    BY <1>6, Attested
  <2>4. LET parsed == ParseMakeCredentialResponse(Response(0, body)) IN
        /\ parsed # Fail
        /\ parsed[1].credential = AttestedCredential(body[2])[1].id
        /\ parsed[1].generated.handle = AttestedCredential(inner[2])[1].id
        /\ parsed[1].generated.cose = AttestedCredential(inner[2])[1].cose
        /\ parsed[1].generated.attestation = inner
    <3>1. AttestedCredential(body[2]) # Fail /\ AttestedCredential(inner[2]) # Fail
      BY <2>2, <2>3
    <3>2. QED
      BY <1>3, <2>1, <3>1, ResponseRead
  <2>5. QED
    BY <2>2, <2>3, <2>4
<1>8. QED
  BY <1>1, <1>7 DEF resp, inner, none

\* A signature, and the user's verification, are read from any authenticator
\* data that carries one and attests no credential.
LEMMA SignatureRead ==
  ASSUME NEW authData, NEW signature,
         "AT" \notin authData.flags, "ED" \in authData.flags,
         "previewSign" \in DOMAIN authData.ext,
         authData.ext.previewSign = At(6, signature)
  PROVE  LET parsed == ParseGetAssertionResponse(Response(0, At(2, authData))) IN
         /\ parsed # Fail
         /\ parsed[1].signature = signature
         /\ parsed[1].uv = ("UV" \in authData.flags)
         /\ parsed[1].factor = ExtractVerifiedFactor(authData)
         /\ ExtractSignature(authData)[1] = signature
<1>1. /\ ExtractSignature(authData) = Ok(signature)
      /\ ExtractSignature(authData)[1] = signature
      /\ ExtractSignature(authData) # Fail
  BY DEF ExtractSignature, At, Ok, Fail
<1>2. /\ Response(0, At(2, authData)).status = 0
      /\ Has(Response(0, At(2, authData)).body, {2})
      /\ Response(0, At(2, authData)).body[2] = authData
  BY DEF Response, At, Has
<1>3. ParseGetAssertionResponse(Response(0, At(2, authData))) =
        Ok([signature |-> signature, uv |-> "UV" \in authData.flags,
            factor |-> ExtractVerifiedFactor(authData)])
  BY <1>1, <1>2 DEF ParseGetAssertionResponse
<1>4. QED
  BY <1>1, <1>3 DEF Ok, Fail

\* The browser's assertion survives being packed and unpacked: its signature,
\* whether the user was verified, and the factor it names.
THEOREM GetAssertionRoundTrip ==
  ASSUME NEW result, result.uv \in BOOLEAN,
         \/ result.factor = Fail
         \/ \E f : /\ result.factor = Ok(f)
                   /\ f.cat \in {"knowledge", "inherence"}
  PROVE  LET parsed == ParseGetAssertionResponse(EncodeGetAssertionResponse(result)) IN
         /\ parsed # Fail
         /\ parsed[1].signature = result.signature
         /\ parsed[1].uv = result.uv
         /\ parsed[1].factor = result.factor
<1> DEFINE ext == IF result.factor = Fail THEN [previewSign |-> At(6, result.signature)]
                  ELSE [previewSign |-> At(6, result.signature),
                        verifiedFactor |-> result.factor[1]]
           authData == AuthData(IF result.uv THEN {"UV"} ELSE {}, Fail, <<>>, ext)
<1>1. EncodeGetAssertionResponse(result) = Response(0, At(2, authData))
  BY DEF EncodeGetAssertionResponse
<1>2. /\ "previewSign" \in DOMAIN ext
      /\ ext.previewSign = At(6, result.signature)
      /\ "verifiedFactor" \in DOMAIN ext <=> result.factor # Fail
      /\ result.factor # Fail => ext.verifiedFactor = result.factor[1]
  OBVIOUS
<1> HIDE DEF ext
<1>3. /\ "AT" \notin authData.flags /\ "ED" \in authData.flags
      /\ ("UV" \in authData.flags) = result.uv
      /\ authData.ext = ext
  BY <1>2 DEF AuthData
<1> HIDE DEF authData
<1>4. ExtractVerifiedFactor(authData) = result.factor
  BY <1>2, <1>3 DEF ExtractVerifiedFactor, Ok, Fail
<1>5. QED
  BY <1>1, <1>2, <1>3, <1>4, SignatureRead
=============================================================================
