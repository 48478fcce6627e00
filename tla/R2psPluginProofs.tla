-------------------------- MODULE R2psPluginProofs --------------------------
(* The invariants of R2psPlugin, proved for any callers, contexts, classes *)
(* of secret, host factors and lengths of a ceremony.                      *)
EXTENDS R2psPlugin, FiniteSetTheorems, TLAPS

(* The inductive invariant. What a caller's operation knows is in its own  *)
(* locals; only serialised callers can rely on a context between sections. *)

\* What the assertions of a ceremony have come to so far.
CeremonyInv(c) ==
  /\ uvs[c] <= Len(asserts[c])
  /\ uvs[c] = Len(asserts[c]) <=> \A a \in Range(asserts[c]) : a.uv
  /\ agreed[c] = Unseen <=> asserts[c] = <<>>
  /\ agreed[c] \in UvmFactor => \A a \in Range(asserts[c]) : a.uvm = agreed[c]
  /\ agreed[c] = Disagreed =>
       \A g \in UvmFactor : \E a \in Range(asserts[c]) : a.uvm # g

\* An OPAQUE sign has a class only of a PIN it will authenticate with, and a
\* fresh one has a PIN by the time it signs.
OpaqueSignInv(c) ==
  /\ pc[c] \in {"collect", "ask", "remote"}
  /\ asserts[c] = <<>>
  /\ ~secret[c] => class[c] = None
  /\ secret[c] => class[c] \in PinMethod \cup {"unclassified"}
  /\ pc[c] = "remote" /\ fresh[c] => secret[c]

WebAuthnSignInv(c) ==
  /\ pc[c] \in {"want", "ceremony"}
  /\ ~fresh[c]
  /\ CeremonyInv(c)

SignInv(c) ==
  /\ Validate(host[c])
  /\ \/ mode = "opaque" /\ OpaqueSignInv(c)
     \/ mode = "webauthn" /\ WebAuthnSignInv(c)

FactorOpInv(c) ==
  /\ ctx[c] \in Context
  /\ factor[c] \in FactorKind

DestroyInv(c) ==
  /\ ctx[c] \in Context
  /\ performed[c] => revoked[c]
  /\ pc[c] = "local" /\ dmode[c] = "strict" => performed[c]

\* Between operations nothing is left of the last one.
IdleInv(c) ==
  /\ ~secret[c] /\ class[c] = None
  /\ uvs[c] = 0 /\ agreed[c] = Unseen /\ asserts[c] = <<>>
  /\ ~performed[c] /\ ~revoked[c]

LocalInv(c) ==
  /\ pc[c] = "idle" => IdleInv(c)
  /\ pc[c] # "idle" /\ op[c] = "sign" => SignInv(c)
  /\ pc[c] # "idle" /\ op[c] \in {"register", "rotate", "activate"} => FactorOpInv(c)
  /\ pc[c] # "idle" /\ op[c] = "destroy" => DestroyInv(c)
  /\ pc[c] # "idle" => op[c] \in Op
  /\ pc[c] = "again" => op[c] = "rotate"

\* A context whose activation a serialised caller is working on still is what
\* the caller read of it.
ActivationInv(c) ==
  pc[c] # "idle" /\ op[c] = "activate" =>
    /\ entry[ctx[c]] # None
    /\ entry[ctx[c]].factor = factor[c]
    /\ pc[c] = "local" => proof[ctx[c]] = factor[c]

SerialInv ==
  serial =>
    /\ \A c, d \in Caller : pc[c] # "idle" /\ pc[d] # "idle" => c = d
    /\ \A c \in Caller : ActivationInv(c)

\* What the latest step has returned.
ReturnedInv ==
  /\ PinFactorIsOfThisSign
  /\ CeremonyBearsOutFactor
  /\ CapabilityIsKept
  /\ DestroyIsNotOptimistic

IInv ==
  /\ TypeOK
  /\ \A c \in Caller : LocalInv(c)
  /\ SerialInv
  /\ ReturnedInv
  /\ ActiveMeansAuthenticated

-----------------------------------------------------------------------------
(* Frames.                                                                 *)

\* The types of what a caller's operation keeps to itself.
LocalTypes ==
  /\ op \in [Caller -> Op \cup {None}]
  /\ pc \in [Caller -> {"idle", "collect", "ask", "remote", "want",
                        "ceremony", "local", "again"}]
  /\ ctx \in [Caller -> Context \cup {None}]
  /\ factor \in [Caller -> FactorKind \cup {None}]
  /\ dmode \in [Caller -> DestroyMode \cup {None}]
  /\ fresh \in [Caller -> BOOLEAN]
  /\ host \in [Caller -> HostFactor \cup {None}]
  /\ secret \in [Caller -> BOOLEAN]
  /\ class \in [Caller -> PinMethod \cup {"unclassified", None}]
  /\ uvs \in [Caller -> 0 .. MaxAssertions]
  /\ agreed \in [Caller -> Agreement]
  /\ performed \in [Caller -> BOOLEAN]
  /\ asserts \in [Caller -> Seq(Assertion)]
  /\ revoked \in [Caller -> BOOLEAN]

\* The types of what the callers share.
SharedTypes ==
  /\ session \in FactorKind \cup {None}
  /\ lock \in Caller \cup {None}
  /\ entry \in [Context ->
       [factor : FactorKind, state : {"Registered", "Active", "Destroyed"}]
         \cup {None}]
  /\ amr \in {{}, SadAmr, PwdAmr} /\ amrUv \in BOOLEAN
  /\ owner \in Caller \cup {None}
  /\ proof \in [Context -> FactorKind \cup {None}]

\* A step of c leaves the operations of the others alone.
Frame(c) ==
  /\ UNCHANGED config
  /\ \A d \in Caller \ {c} :
       /\ op'[d] = op[d] /\ pc'[d] = pc[d] /\ ctx'[d] = ctx[d]
       /\ factor'[d] = factor[d] /\ dmode'[d] = dmode[d] /\ fresh'[d] = fresh[d]
       /\ host'[d] = host[d] /\ secret'[d] = secret[d] /\ class'[d] = class[d]
       /\ uvs'[d] = uvs[d] /\ agreed'[d] = agreed[d]
       /\ performed'[d] = performed[d] /\ asserts'[d] = asserts[d]
       /\ revoked'[d] = revoked[d]

LEMMA TypesSplit ==
  TypeOK <=> /\ LocalTypes /\ SharedTypes
             /\ serial \in BOOLEAN /\ mode \in Mode /\ rp \in BOOLEAN
  BY DEF TypeOK, LocalTypes, SharedTypes

\* An operation that ends leaves its caller idle, with nothing.
LEMMA DoneEnds ==
  ASSUME TypeOK, UNCHANGED config, NEW c \in Caller, NEW r, Done(c, r)
  PROVE  LocalTypes' /\ Frame(c) /\ LocalInv(c)' /\ pc'[c] = "idle" /\ returned' = r
<1>1. LocalTypes
  BY TypesSplit
<1>2. /\ (op \in [Caller -> Op \cup {None}])' /\ pc'[c] = "idle"
      /\ (ctx \in [Caller -> Context \cup {None}])'
      /\ (factor \in [Caller -> FactorKind \cup {None}])'
      /\ (dmode \in [Caller -> DestroyMode \cup {None}])'
      /\ (pc \in [Caller -> {"idle", "collect", "ask", "remote", "want",
                             "ceremony", "local", "again"}])'
  BY <1>1 DEF Done, Go, LocalTypes
<1>3. /\ (fresh \in [Caller -> BOOLEAN])'
      /\ (host \in [Caller -> HostFactor \cup {None}])'
      /\ (secret \in [Caller -> BOOLEAN])' /\ ~secret'[c]
      /\ (class \in [Caller -> PinMethod \cup {"unclassified", None}])' /\ class'[c] = None
      /\ (performed \in [Caller -> BOOLEAN])' /\ ~performed'[c]
      /\ (revoked \in [Caller -> BOOLEAN])' /\ ~revoked'[c]
  BY <1>1 DEF Done, LocalTypes
<1>4. /\ (uvs \in [Caller -> 0 .. MaxAssertions])' /\ uvs'[c] = 0
      /\ (agreed \in [Caller -> Agreement])' /\ agreed'[c] = Unseen
      /\ (asserts \in [Caller -> Seq(Assertion)])' /\ asserts'[c] = <<>>
  <2>1. <<>> \in Seq(Assertion) /\ 0 \in 0 .. MaxAssertions
    BY R2psAssumption
  <2> QED
    BY <1>1, <2>1 DEF Done, LocalTypes, Agreement
<1>5. Frame(c)
  BY <1>1 DEF Done, Go, LocalTypes, Frame
<1>6. LocalInv(c)'
  BY <1>2, <1>3, <1>4 DEF LocalInv, IdleInv
<1> QED
  BY <1>2, <1>3, <1>4, <1>5, <1>6 DEF LocalTypes, Done

\* Nothing that is returned claims anything.
LEMMA NothingClaims ==
  ASSUME returned' = Nothing
  PROVE  ReturnedInv'
  BY DEF Nothing, ReturnedInv, PinFactorIsOfThisSign, CeremonyBearsOutFactor,
         CapabilityIsKept, DestroyIsNotOptimistic

\* What is known of the others outlives a step of c.
LEMMA FrameKeeps ==
  ASSUME NEW c \in Caller, Frame(c), \A d \in Caller : LocalInv(d),
         LocalInv(c)'
  PROVE  \A d \in Caller : LocalInv(d)'
<1> SUFFICES ASSUME NEW d \in Caller, d # c PROVE LocalInv(d)'
  OBVIOUS
<1>1. mode' = mode
  BY DEF Frame, config
<1>2. /\ pc'[d] = pc[d] /\ op'[d] = op[d] /\ ctx'[d] = ctx[d]
      /\ factor'[d] = factor[d] /\ dmode'[d] = dmode[d] /\ fresh'[d] = fresh[d]
      /\ host'[d] = host[d] /\ secret'[d] = secret[d] /\ class'[d] = class[d]
      /\ uvs'[d] = uvs[d] /\ agreed'[d] = agreed[d]
      /\ performed'[d] = performed[d] /\ asserts'[d] = asserts[d]
      /\ revoked'[d] = revoked[d]
  BY DEF Frame
<1>3. LocalInv(d)
  OBVIOUS
<1> QED
  BY <1>1, <1>2, <1>3
     DEF LocalInv, IdleInv, SignInv, OpaqueSignInv, WebAuthnSignInv, CeremonyInv,
         FactorOpInv, DestroyInv

-----------------------------------------------------------------------------
(* Sessions and shared types.                                              *)

LEMMA KeepsTypes ==
  ASSUME TypeOK, NEW c \in Caller, NEW s \in FactorKind \cup {None},
         NEW o \in Caller \cup {None}, Keeps(c, s, o)
  PROVE  /\ session' \in FactorKind \cup {None}
         /\ owner' \in Caller \cup {None}
  BY DEF Keeps

LEMMA KeepsOrLosesTypes ==
  ASSUME TypeOK, NEW c \in Caller, KeepsOrLoses(c)
  PROVE  /\ session' \in FactorKind \cup {None}
         /\ owner' \in Caller \cup {None}
  BY DEF KeepsOrLoses, Keeps, TypeOK

-----------------------------------------------------------------------------
(* Ceremonies.                                                             *)

LEMMA RangeOf ==
  ASSUME NEW S, NEW s \in Seq(S), NEW a \in S
  PROVE  /\ Append(s, a) \in Seq(S)
         /\ Len(Append(s, a)) = Len(s) + 1
         /\ Append(s, a) # <<>>
         /\ Range(Append(s, a)) = Range(s) \cup {a}
         /\ s # <<>> => \E b \in S : b \in Range(s)
<1>1. /\ Append(s, a) \in Seq(S) /\ Len(Append(s, a)) = Len(s) + 1
      /\ Append(s, a) # <<>>
      /\ DOMAIN Append(s, a) = 1 .. Len(s) + 1 /\ DOMAIN s = 1 .. Len(s)
      /\ \A i \in 1 .. Len(s) : Append(s, a)[i] = s[i]
      /\ Append(s, a)[Len(s) + 1] = a
      /\ Len(s) \in Nat
  OBVIOUS
<1>2. Range(Append(s, a)) \subseteq Range(s) \cup {a}
  BY <1>1 DEF Range
<1>3. Range(s) \cup {a} \subseteq Range(Append(s, a))
  BY <1>1 DEF Range
<1>4. ASSUME s # <<>> PROVE \E b \in S : b \in Range(s)
  <2>1. 1 \in DOMAIN s /\ s[1] \in S
    BY <1>4
  <2> QED
    BY <2>1 DEF Range
<1> QED
  BY <1>1, <1>2, <1>3, <1>4

\* The three kinds of agreement are different things.
LEMMA AgreementKinds ==
  /\ Unseen # Disagreed /\ Unseen \notin UvmFactor /\ Disagreed \notin UvmFactor
  /\ None \notin UvmFactor
<1>1. Unseen.agreed = "unseen" /\ Disagreed.agreed = "disagreed"
  BY DEF Unseen, Disagreed
<1>2. \A f \in UvmFactor : DOMAIN f = {"cat", "method"}
  BY DEF UvmFactor, Factor
<1>3. DOMAIN Unseen = {"agreed"} /\ DOMAIN Disagreed = {"agreed"}
  BY DEF Unseen, Disagreed
<1> QED
  BY <1>1, <1>2, <1>3, R2psAssumption

\* record_assertion keeps the books.
LEMMA AgreeKeepsBooks ==
  ASSUME NEW c \in Caller, CeremonyInv(c), NEW a \in Assertion,
         asserts[c] \in Seq(Assertion), uvs[c] \in Nat, agreed[c] \in Agreement,
         asserts'[c] = Append(asserts[c], a),
         uvs'[c] = IF a.uv THEN uvs[c] + 1 ELSE uvs[c],
         agreed'[c] = Agree(agreed[c], a.uvm)
  PROVE  CeremonyInv(c)'
<1>1. /\ asserts'[c] # <<>>
      /\ Len(asserts'[c]) = Len(asserts[c]) + 1
      /\ Range(asserts'[c]) = Range(asserts[c]) \cup {a}
      /\ asserts[c] # <<>> => \E b \in Assertion : b \in Range(asserts[c])
  BY RangeOf
<1>2. a.uv \in BOOLEAN /\ a.uvm \in UvmFactor \cup {None} /\ Len(asserts[c]) \in Nat
  BY DEF Assertion
<1>3. /\ uvs'[c] <= Len(asserts'[c])
      /\ uvs'[c] = Len(asserts'[c]) <=> \A b \in Range(asserts'[c]) : b.uv
  BY <1>1, <1>2 DEF CeremonyInv
<1>4. CASE a.uvm # None /\ agreed[c] \in {Unseen, a.uvm}
  <2>1. agreed'[c] = a.uvm /\ a.uvm \in UvmFactor
    BY <1>2, <1>4 DEF Agree
  <2>2. \A b \in Range(asserts[c]) : b.uvm = a.uvm
    <3>1. CASE agreed[c] = Unseen
      BY <3>1 DEF CeremonyInv, Range
    <3>2. CASE agreed[c] = a.uvm
      BY <2>1, <3>2 DEF CeremonyInv
    <3> QED
      BY <1>4, <3>1, <3>2
  <2> QED
    BY <1>1, <1>3, <2>1, <2>2, AgreementKinds DEF CeremonyInv
<1>5. CASE ~(a.uvm # None /\ agreed[c] \in {Unseen, a.uvm})
  <2>1. agreed'[c] = Disagreed
    BY <1>5 DEF Agree
  <2>2. ASSUME NEW g \in UvmFactor PROVE \E b \in Range(asserts'[c]) : b.uvm # g
    <3>1. CASE a.uvm # g
      BY <1>1, <3>1
    <3>2. CASE a.uvm = g
      <4>1. agreed[c] # Unseen /\ agreed[c] # g
        BY <1>5, <3>2, AgreementKinds
      <4>2. asserts[c] # <<>>
        BY <4>1 DEF CeremonyInv
      <4>3. CASE agreed[c] = Disagreed
        BY <1>1, <4>3 DEF CeremonyInv
      <4>4. CASE agreed[c] \in UvmFactor
        BY <1>1, <4>1, <4>2, <4>4 DEF CeremonyInv
      <4> QED
        BY <4>1, <4>3, <4>4 DEF Agreement
    <3> QED
      BY <3>1, <3>2
  <2> QED
    BY <1>1, <1>3, <2>1, <2>2, AgreementKinds DEF CeremonyInv
<1> QED
  BY <1>4, <1>5

-----------------------------------------------------------------------------
(* The steps, one caller at a time.                                        *)

\* What a step of c has to show of c, of what is shared and of what it returns.
Kept(c) ==
  /\ LocalTypes' /\ SharedTypes'
  /\ Frame(c)
  /\ LocalInv(c)'
  /\ ReturnedInv'

\* A step that ends an operation and returns nothing.
LEMMA EndsKept ==
  ASSUME TypeOK, UNCHANGED config, NEW c \in Caller, Done(c, Nothing), SharedTypes'
  PROVE  Kept(c)
<1>1. LocalTypes' /\ Frame(c) /\ LocalInv(c)' /\ returned' = Nothing
  BY DoneEnds
<1> QED
  BY <1>1, NothingClaims DEF Kept

LEMMA StartSignKept ==
  ASSUME IInv, NEW c \in Caller, NEW f \in BOOLEAN, NEW h \in HostFactor \cup {None},
         StartSign(c, f, h)
  PROVE  Kept(c)
<1>1. TypeOK /\ LocalTypes /\ SharedTypes /\ IdleInv(c) /\ pc[c] = "idle"
  BY TypesSplit DEF IInv, LocalInv, StartSign, CanStart
<1>2. LocalTypes'
  BY <1>1 DEF LocalTypes, StartSign, Go, lifeVars, Op
<1>3. SharedTypes'
  BY <1>1 DEF SharedTypes, StartSign, lastVars
<1>4. Frame(c)
  BY <1>1 DEF Frame, LocalTypes, StartSign, Go, lifeVars, config
<1>5. LocalInv(c)'
  <2>1. /\ op'[c] = "sign" /\ host'[c] = h /\ Validate(h) /\ fresh'[c] = f /\ mode' = mode
        /\ pc'[c] = IF mode = "opaque" THEN "collect" ELSE "want"
        /\ secret'[c] = secret[c] /\ class'[c] = class[c] /\ uvs'[c] = uvs[c]
        /\ agreed'[c] = agreed[c] /\ asserts'[c] = asserts[c]
    BY <1>1 DEF StartSign, Go, LocalTypes, config
  <2>2. Validate(host[c])'
    BY <2>1 DEF Validate
  <2>3. CASE mode = "opaque"
    <3>1. OpaqueSignInv(c)'
      BY <1>1, <2>1, <2>3 DEF OpaqueSignInv, IdleInv
    <3> QED
      BY <2>1, <2>2, <2>3, <3>1 DEF LocalInv, SignInv, Op
  <2>4. CASE mode = "webauthn" /\ ~f
    <3>1. CeremonyInv(c)'
      BY <1>1, <2>1, AgreementKinds DEF CeremonyInv, IdleInv, Range
    <3>2. WebAuthnSignInv(c)'
      BY <2>1, <2>4, <3>1 DEF WebAuthnSignInv
    <3> QED
      BY <2>1, <2>2, <2>4, <3>2 DEF LocalInv, SignInv, Op
  <2> QED
    BY <2>3, <2>4 DEF StartSign
<1> QED
  BY <1>2, <1>3, <1>4, <1>5, NothingClaims DEF Kept, StartSign

LEMMA CollectKept ==
  ASSUME IInv, NEW c \in Caller, Collect(c)
  PROVE  Kept(c)
<1>1. TypeOK /\ LocalTypes /\ SharedTypes /\ LocalInv(c) /\ pc[c] = "collect"
  BY TypesSplit DEF IInv, Collect
<1>2. LocalTypes' /\ SharedTypes' /\ Frame(c)
  BY <1>1 DEF LocalTypes, SharedTypes, Frame, Collect, Go, signVars, lifeVars,
              lastVars, config
<1>3. /\ pc'[c] = IF ~fresh[c] /\ session # None THEN "remote" ELSE "ask"
      /\ UNCHANGED <<mode, op, signVars, lifeVars>>
  BY <1>1 DEF Collect, Go, LocalTypes, config
<1>4. LocalInv(c)'
  BY <1>1, <1>3 DEF LocalInv, SignInv, OpaqueSignInv, WebAuthnSignInv, FactorOpInv,
     DestroyInv, CeremonyInv, Validate, signVars, lifeVars
<1> QED
  BY <1>2, <1>4, NothingClaims DEF Kept, Collect

LEMMA AnswerKept ==
  ASSUME IInv, NEW c \in Caller, NEW k \in PinMethod \cup {"unclassified"}, Answer(c, k)
  PROVE  Kept(c)
<1>1. TypeOK /\ LocalTypes /\ SharedTypes /\ LocalInv(c) /\ pc[c] = "ask"
  BY TypesSplit DEF IInv, Answer
<1>2. LocalTypes' /\ SharedTypes' /\ Frame(c)
  BY <1>1 DEF LocalTypes, SharedTypes, Frame, Answer, Go, lifeVars, lastVars, config
<1>3. /\ pc'[c] = "remote" /\ secret'[c] = TRUE /\ class'[c] = k
      /\ UNCHANGED <<mode, op, fresh, host, uvs, agreed, asserts, lifeVars>>
  BY <1>1 DEF Answer, Go, LocalTypes, config
<1>4. LocalInv(c)'
  BY <1>1, <1>3 DEF LocalInv, SignInv, OpaqueSignInv, WebAuthnSignInv, FactorOpInv,
     DestroyInv, Validate, lifeVars
<1> QED
  BY <1>2, <1>4, NothingClaims DEF Kept, Answer

LEMMA CancelKept ==
  ASSUME IInv, NEW c \in Caller, Cancel(c)
  PROVE  Kept(c)
  BY TypesSplit, EndsKept DEF IInv, Cancel, SharedTypes, lastVars

LEMMA EnterKept ==
  ASSUME IInv, NEW c \in Caller, Enter(c)
  PROVE  Kept(c)
<1>1. TypeOK /\ LocalTypes /\ SharedTypes /\ LocalInv(c) /\ pc[c] = "want"
  BY TypesSplit DEF IInv, Enter
<1>2. LocalTypes' /\ SharedTypes' /\ Frame(c)
  BY <1>1 DEF LocalTypes, SharedTypes, Frame, Enter, Go, signVars, lifeVars,
              lastVars, config
<1>3. /\ pc'[c] = "ceremony"
      /\ UNCHANGED <<mode, op, signVars, lifeVars>>
  BY <1>1 DEF Enter, Go, LocalTypes, config
<1>4. LocalInv(c)'
  BY <1>1, <1>3 DEF LocalInv, SignInv, OpaqueSignInv, WebAuthnSignInv, FactorOpInv,
     DestroyInv, CeremonyInv, Validate, signVars, lifeVars
<1> QED
  BY <1>2, <1>4, NothingClaims DEF Kept, Enter

LEMMA GetAssertionKept ==
  ASSUME IInv, NEW c \in Caller, NEW a \in Assertion, GetAssertion(c, a)
  PROVE  Kept(c)
<1>1. /\ TypeOK /\ LocalTypes /\ SharedTypes /\ LocalInv(c)
      /\ pc[c] = "ceremony" /\ op[c] = "sign"
  BY TypesSplit DEF IInv, GetAssertion
<1>2. mode = "webauthn" /\ WebAuthnSignInv(c) /\ Validate(host[c])
  BY <1>1 DEF LocalInv, SignInv, OpaqueSignInv
<1>3. /\ asserts'[c] = Append(asserts[c], a)
      /\ uvs'[c] = IF a.uv THEN uvs[c] + 1 ELSE uvs[c]
      /\ agreed'[c] = Agree(agreed[c], a.uvm)
      /\ UNCHANGED <<mode, pc, op, fresh, host>>
  BY <1>1 DEF GetAssertion, LocalTypes, config
<1>4. asserts[c] \in Seq(Assertion) /\ uvs[c] \in Nat /\ agreed[c] \in Agreement
  BY <1>1, R2psAssumption DEF LocalTypes
<1>5. LocalTypes'
  <2>1. uvs'[c] \in 0 .. MaxAssertions
    BY <1>2, <1>3, <1>4, R2psAssumption
       DEF WebAuthnSignInv, CeremonyInv, GetAssertion, Assertion
  <2>2. agreed'[c] \in Agreement
    BY <1>3 DEF Agree, Agreement, Assertion
  <2>3. asserts'[c] \in Seq(Assertion)
    BY <1>3, <1>4
  <2>4. /\ (uvs \in [Caller -> 0 .. MaxAssertions])'
        /\ (agreed \in [Caller -> Agreement])'
        /\ (asserts \in [Caller -> Seq(Assertion)])'
    BY <1>1, <2>1, <2>2, <2>3 DEF LocalTypes, GetAssertion
  <2> QED
    BY <1>1, <2>4 DEF LocalTypes, GetAssertion, lifeVars
<1>6. SharedTypes' /\ Frame(c)
  BY <1>1 DEF LocalTypes, SharedTypes, Frame, GetAssertion, lifeVars, lastVars, config
<1>7. CeremonyInv(c)'
  BY <1>2, <1>3, <1>4, AgreeKeepsBooks DEF WebAuthnSignInv
<1>8. LocalInv(c)'
  BY <1>1, <1>2, <1>3, <1>7 DEF LocalInv, SignInv, WebAuthnSignInv, Validate, Op
<1> QED
  BY <1>5, <1>6, <1>8, NothingClaims DEF Kept, GetAssertion

LEMMA CeremonyFailsKept ==
  ASSUME IInv, NEW c \in Caller, CeremonyFails(c)
  PROVE  Kept(c)
<1>1. SharedTypes'
  BY TypesSplit, KeepsOrLosesTypes DEF IInv, CeremonyFails, SharedTypes, lastVars
<1> QED
  BY <1>1, EndsKept DEF IInv, CeremonyFails

-----------------------------------------------------------------------------
(* Signatures.                                                             *)

\* A second factor that is not a possession makes two categories.
LEMMA TwoCategories ==
  ASSUME NEW g, g.cat # "possession"
  PROVE  ~Shortfall({Possession} \cup {g})
<1> DEFINE cats == {f.cat : f \in {Possession} \cup {g}}
<1>1. cats = {"possession", g.cat}
  BY DEF Possession
<1>2. IsFiniteSet({g.cat}) /\ Cardinality({g.cat}) = 1
  BY FS_Singleton
<1>3. Cardinality({g.cat} \cup {"possession"}) = 2
  BY <1>2, FS_AddElement
<1>4. {g.cat} \cup {"possession"} = cats
  BY <1>1
<1> QED
  BY <1>3, <1>4 DEF Shortfall

\* An OPAQUE signature claims no more of this caller than it was.
LEMMA OpaqueSignature ==
  ASSUME TypeOK, NEW c \in Caller, mode = "opaque", mode' = mode, OpaqueSignInv(c),
         pc[c] = "remote", NEW own \in BOOLEAN, secret[c] => own,
         returned' = Signed(c, DeriveFactors(class[c], FALSE, None, host[c]), own)
  PROVE  ReturnedInv'
<1> DEFINE factors == DeriveFactors(class[c], FALSE, None, host[c])
<1>1. /\ returned'.op = "sign" /\ returned'.factors = factors
      /\ returned'.short = Shortfall(factors) /\ returned'.fresh = fresh[c]
      /\ returned'.own = own /\ returned'.asserts = <<>> /\ returned'.class = class[c]
  BY DEF Signed, OpaqueSignInv
<1>2. fresh[c] \in BOOLEAN /\ secret[c] \in BOOLEAN
  BY DEF TypeOK
<1>3. class[c] \in PinMethod \/
      (class[c] \in {None, "unclassified"} /\ class[c] \notin PinMethod)
  BY <1>2, R2psAssumption DEF OpaqueSignInv
<1>4. CASE class[c] \in PinMethod
  <2> DEFINE g == [cat |-> "knowledge", method |-> class[c]]
  <2>1. factors = {Possession} \cup {g}
    BY <1>4 DEF DeriveFactors, Second
  <2>2. g.cat # "possession"
    OBVIOUS
  <2>3. ~Shortfall(factors)
    BY <2>1, <2>2, TwoCategories
  <2>4. secret[c]
    BY <1>2, <1>4, R2psAssumption DEF OpaqueSignInv
  <2> QED
    BY <1>1, <2>3, <2>4 DEF ReturnedInv, PinFactorIsOfThisSign, CeremonyBearsOutFactor,
       CapabilityIsKept, Capability, DestroyIsNotOptimistic
<1>5. CASE class[c] \in {None, "unclassified"} /\ class[c] \notin PinMethod
  <2>1. factors = {Possession}
    BY <1>5 DEF DeriveFactors, Second
  <2>2. factors \cap PinFactor = {}
    <3>1. \A f \in PinFactor : f.cat = "knowledge"
      BY DEF PinFactor, Factor
    <3>2. Possession.cat = "possession"
      BY DEF Possession
    <3> QED
      BY <2>1, <3>1, <3>2
  <2>3. fresh[c] => secret[c] /\ class[c] = "unclassified"
    BY <1>2, <1>5 DEF OpaqueSignInv
  <2> QED
    BY <1>1, <1>2, <2>2, <2>3 DEF ReturnedInv, PinFactorIsOfThisSign,
       CeremonyBearsOutFactor, CapabilityIsKept, Capability, DestroyIsNotOptimistic
<1> QED
  BY <1>3, <1>4, <1>5

\* A WebAuthn signature claims what its whole ceremony bears out.
LEMMA WebAuthnSignature ==
  ASSUME TypeOK, NEW c \in Caller, mode = "webauthn", mode' = mode, CeremonyInv(c),
         Validate(host[c]), asserts[c] # <<>>, ~fresh[c],
         returned' = Signed(c, DeriveFactors(None, AllVerified(c), Verified(c), host[c]),
                            FALSE)
  PROVE  ReturnedInv'
<1> DEFINE factors == DeriveFactors(None, AllVerified(c), Verified(c), host[c])
           given == Range(asserts[c])
<1>1. /\ returned'.op = "sign" /\ returned'.factors = factors
      /\ returned'.short = Shortfall(factors) /\ returned'.host = host[c]
      /\ returned'.asserts = asserts[c]
  BY DEF Signed
<1>2. AllVerified(c) <=> \A a \in given : a.uv
  BY DEF AllVerified, CeremonyInv
<1>3. host[c] \in HostFactor \cup {None} /\ None \notin HostFactor
  BY R2psAssumption DEF TypeOK
<1>4. CASE ~AllVerified(c)
  <2>1. factors = {Possession}
    BY <1>4, R2psAssumption DEF DeriveFactors, Second
  <2> QED
    BY <1>1, <1>2, <1>4, <2>1 DEF ReturnedInv, PinFactorIsOfThisSign,
       CeremonyBearsOutFactor, CapabilityIsKept, Capability, DestroyIsNotOptimistic
<1>5. CASE AllVerified(c) /\ Verified(c) # None
  <2>1. Verified(c) \in UvmFactor /\ \A a \in given : a.uvm = Verified(c)
    BY <1>5 DEF Verified, CeremonyInv
  <2>2. factors = {Possession} \cup {Verified(c)}
    BY <1>5, R2psAssumption DEF DeriveFactors, Second
  <2>3. Verified(c).cat # "possession"
    BY <2>1 DEF UvmFactor, Factor
  <2>4. ~Shortfall(factors)
    BY <2>2, <2>3, TwoCategories
  <2> HIDE DEF factors, given
  <2>5. PinFactorIsOfThisSign'
    BY <1>1 DEF PinFactorIsOfThisSign
  <2>6. \A a \in given : a.uv
    BY <1>2, <1>5
  <2>7. CeremonyBearsOutFactor'
    BY <1>1, <2>1, <2>2, <2>6 DEF CeremonyBearsOutFactor, given
  <2>8. CapabilityIsKept'
    BY <1>1, <2>4 DEF CapabilityIsKept, Capability
  <2>9. DestroyIsNotOptimistic'
    BY <1>1 DEF DestroyIsNotOptimistic
  <2> QED
    BY <2>5, <2>7, <2>8, <2>9 DEF ReturnedInv
<1>6. CASE AllVerified(c) /\ Verified(c) = None
  <2>1. agreed[c] \notin UvmFactor
    BY <1>6, AgreementKinds DEF Verified
  <2>2. agreed[c] = Disagreed
    BY <2>1 DEF TypeOK, Agreement, CeremonyInv
  <2>3. ~\E g \in UvmFactor : \A a \in given : a.uvm = g
    BY <2>2 DEF CeremonyInv
  <2>4. factors = {Possession} \cup {f \in {host[c]} : f # None}
    BY <1>6, R2psAssumption DEF DeriveFactors, Second
  <2>5. host[c] # None => ~Shortfall(factors)
    <3>1. SUFFICES ASSUME host[c] # None PROVE ~Shortfall(factors)
      OBVIOUS
    <3>2. factors = {Possession} \cup {host[c]} /\ host[c].cat # "possession"
      BY <2>4, <3>1 DEF Validate
    <3> QED
      BY <3>2, TwoCategories
  <2> QED
    BY <1>1, <1>2, <1>6, <2>3, <2>4, <2>5 DEF ReturnedInv, PinFactorIsOfThisSign,
       CeremonyBearsOutFactor, CapabilityIsKept, Capability, DestroyIsNotOptimistic
<1> QED
  BY <1>4, <1>5, <1>6

LEMMA SignSectionKept ==
  ASSUME IInv, NEW c \in Caller, SignSection(c)
  PROVE  Kept(c)
<1> DEFINE s == IF secret[c] THEN "opaque" ELSE session
           o == IF secret[c] THEN c ELSE owner
<1>1. /\ TypeOK /\ SharedTypes /\ LocalInv(c) /\ UNCHANGED config
      /\ pc[c] = "remote" /\ op[c] = "sign"
  BY TypesSplit DEF IInv, SignSection
<1>2. mode = "opaque" /\ OpaqueSignInv(c) /\ mode' = mode
  BY <1>1 DEF LocalInv, SignInv, WebAuthnSignInv, config
<1>3. s \in FactorKind \cup {None} /\ o \in Caller \cup {None}
  BY <1>1 DEF SharedTypes, FactorKind
<1>4. UNCHANGED <<lock, entry, proof>>
  BY DEF SignSection
<1>5. CASE /\ s # None /\ Keeps(c, s, o)
           /\ Done(c, Signed(c, DeriveFactors(class[c], FALSE, None, host[c]), o = c))
           /\ amr' = PwdAmr /\ amrUv' = FALSE
  <2>1. SharedTypes'
    BY <1>1, <1>3, <1>4, <1>5, KeepsTypes DEF SharedTypes
  <2>2. /\ LocalTypes' /\ Frame(c) /\ LocalInv(c)'
        /\ returned' = Signed(c, DeriveFactors(class[c], FALSE, None, host[c]), o = c)
    BY <1>1, <1>5, DoneEnds
  <2>3. secret[c] => o = c
    OBVIOUS
  <2>4. ReturnedInv'
    BY <1>1, <1>2, <2>2, <2>3, OpaqueSignature
  <2> QED
    BY <2>1, <2>2, <2>4 DEF Kept
<1>6. CASE /\ KeepsOrLoses(c) \/ Keeps(c, s, o)
           /\ Done(c, Nothing)
           /\ UNCHANGED lastVars
  <2>1. SharedTypes'
    BY <1>1, <1>3, <1>4, <1>6, KeepsTypes, KeepsOrLosesTypes DEF SharedTypes, lastVars
  <2> QED
    BY <1>1, <1>6, <2>1, EndsKept
<1> QED
  BY <1>5, <1>6 DEF SignSection

LEMMA SignedWithSadKept ==
  ASSUME IInv, NEW c \in Caller, SignedWithSad(c)
  PROVE  Kept(c)
<1> DEFINE r == Signed(c, DeriveFactors(None, AllVerified(c), Verified(c), host[c]), FALSE)
<1>1. /\ TypeOK /\ SharedTypes /\ LocalInv(c) /\ UNCHANGED config
      /\ pc[c] = "ceremony" /\ op[c] = "sign" /\ asserts[c] # <<>> /\ Done(c, r)
  BY TypesSplit DEF IInv, SignedWithSad
<1>2. mode = "webauthn" /\ WebAuthnSignInv(c) /\ Validate(host[c]) /\ mode' = mode
  BY <1>1 DEF LocalInv, SignInv, OpaqueSignInv, config
<1>3. SharedTypes'
  <2>1. session' \in FactorKind \cup {None} /\ owner' \in Caller \cup {None}
    BY <1>1, KeepsTypes, KeepsOrLosesTypes DEF SignedWithSad, FactorKind
  <2>2. AllVerified(c) \in BOOLEAN
    BY DEF AllVerified
  <2> QED
    BY <1>1, <2>1, <2>2 DEF SharedTypes, SignedWithSad
<1>4. LocalTypes' /\ Frame(c) /\ LocalInv(c)' /\ returned' = r
  BY <1>1, DoneEnds
<1>5. ReturnedInv'
  BY <1>1, <1>2, <1>4, WebAuthnSignature DEF WebAuthnSignInv
<1> QED
  BY <1>3, <1>4, <1>5 DEF Kept

-----------------------------------------------------------------------------
(* Lifecycle steps.                                                        *)

LEMMA BeginFactorKept ==
  ASSUME IInv, NEW c \in Caller, NEW x \in Context,
         NEW o \in {"register", "rotate", "activate"}, NEW f \in FactorKind,
         pc[c] = "idle", BeginFactor(c, x, o, f)
  PROVE  Kept(c)
<1>1. TypeOK /\ LocalTypes /\ SharedTypes
  BY TypesSplit DEF IInv
<1>2. LocalTypes' /\ SharedTypes' /\ Frame(c)
  BY <1>1 DEF LocalTypes, SharedTypes, Frame, BeginFactor, Go, signVars, lastVars,
              config, Op
<1>3. /\ pc'[c] \in {"ask", "want"} /\ op'[c] = o /\ ctx'[c] = x /\ factor'[c] = f
  BY <1>1 DEF BeginFactor, Go, LocalTypes
<1>4. LocalInv(c)'
  BY <1>3 DEF LocalInv, FactorOpInv, Op
<1> QED
  BY <1>2, <1>4, NothingClaims DEF Kept, BeginFactor

LEMMA StartFactorKept ==
  ASSUME IInv, NEW c \in Caller, NEW x \in Context,
         \/ \E f \in FactorKind : StartRegister(c, x, f)
         \/ StartRotate(c, x)
         \/ StartActivate(c, x)
  PROVE  Kept(c)
<1>1. entry[x] # None => entry[x].factor \in FactorKind
  BY DEF IInv, TypeOK
<1> QED
  BY <1>1, BeginFactorKept DEF StartRegister, StartRotate, StartActivate, CanStart

LEMMA StartDestroyKept ==
  ASSUME IInv, NEW c \in Caller, NEW x \in Context, NEW m \in DestroyMode,
         StartDestroy(c, x, m)
  PROVE  Kept(c)
<1>1. TypeOK /\ LocalTypes /\ SharedTypes /\ IdleInv(c)
  BY TypesSplit DEF IInv, LocalInv, StartDestroy, CanStart
<1>2. LocalTypes' /\ SharedTypes' /\ Frame(c)
  BY <1>1 DEF LocalTypes, SharedTypes, Frame, StartDestroy, Go, signVars, lastVars,
              config, Op
<1>3. /\ pc'[c] = IF m = "local" THEN "local" ELSE "remote"
      /\ op'[c] = "destroy" /\ ctx'[c] = x /\ dmode'[c] = m
      /\ performed'[c] = performed[c] /\ revoked'[c] = revoked[c]
  BY <1>1 DEF StartDestroy, Go, LocalTypes
<1>4. LocalInv(c)'
  BY <1>1, <1>3 DEF LocalInv, DestroyInv, IdleInv, Op
<1> QED
  BY <1>2, <1>4, NothingClaims DEF Kept, StartDestroy

LEMMA RegisteredRemotelyKept ==
  ASSUME IInv, NEW c \in Caller, RegisteredRemotely(c)
  PROVE  Kept(c)
<1>1. /\ TypeOK /\ LocalTypes /\ SharedTypes /\ LocalInv(c)
      /\ pc[c] # "idle" /\ op[c] \in {"register", "rotate"}
  BY TypesSplit DEF IInv, RegisteredRemotely, InSection
<1>2. LocalTypes' /\ SharedTypes' /\ Frame(c)
  BY <1>1 DEF LocalTypes, SharedTypes, Frame, RegisteredRemotely, Go, signVars,
              lifeVars, lastVars, config
<1>3. LocalInv(c)'
  BY <1>1 DEF LocalInv, FactorOpInv, RegisteredRemotely, Go, lifeVars, LocalTypes
<1> QED
  BY <1>2, <1>3, NothingClaims DEF Kept, RegisteredRemotely

LEMMA AuthenticatedContextKept ==
  ASSUME IInv, NEW c \in Caller, AuthenticatedContext(c)
  PROVE  Kept(c)
<1>1. /\ TypeOK /\ LocalTypes /\ SharedTypes /\ LocalInv(c)
      /\ pc[c] # "idle" /\ op[c] = "activate"
  BY TypesSplit DEF IInv, AuthenticatedContext, InSection
<1>2. FactorOpInv(c)
  BY <1>1 DEF LocalInv
<1>3. LocalTypes' /\ SharedTypes' /\ Frame(c)
  BY <1>1, <1>2 DEF LocalTypes, SharedTypes, Frame, AuthenticatedContext, FactorOpInv,
              Go, signVars, lifeVars, lastVars, config
<1>4. LocalInv(c)'
  BY <1>1 DEF LocalInv, FactorOpInv, AuthenticatedContext, Go, lifeVars, LocalTypes
<1> QED
  BY <1>3, <1>4, NothingClaims DEF Kept, AuthenticatedContext

LEMMA LifecycleFailsKept ==
  ASSUME IInv, NEW c \in Caller, LifecycleFails(c)
  PROVE  Kept(c)
<1>1. SharedTypes'
  BY TypesSplit, KeepsOrLosesTypes DEF IInv, LifecycleFails, SharedTypes, lastVars
<1> QED
  BY <1>1, EndsKept DEF IInv, LifecycleFails

LEMMA RevokeKept ==
  ASSUME IInv, NEW c \in Caller, Revoke(c)
  PROVE  Kept(c)
<1>1. /\ TypeOK /\ LocalTypes /\ SharedTypes /\ LocalInv(c) /\ UNCHANGED config
      /\ pc[c] = "remote" /\ op[c] = "destroy"
  BY TypesSplit DEF IInv, Revoke
<1>2. ASSUME NEW happened \in BOOLEAN, NEW ok \in BOOLEAN,
             ok => happened,
             ok \/ dmode[c] # "strict",
             revoked' = [revoked EXCEPT ![c] = happened],
             performed' = [performed EXCEPT ![c] = ok],
             Go(c, "local"),
             returned' = Nothing,
             UNCHANGED <<op, signVars, ctx, factor, dmode, session, owner>>
      PROVE  Kept(c)
  <2>1. LocalTypes' /\ SharedTypes' /\ Frame(c)
    BY <1>1, <1>2 DEF LocalTypes, SharedTypes, Frame, Revoke, Go, signVars, lastVars,
                      config
  <2>2. /\ pc'[c] = "local" /\ performed'[c] = ok /\ revoked'[c] = happened
        /\ UNCHANGED <<op, ctx, dmode>>
    BY <1>1, <1>2 DEF Go, LocalTypes
  <2>3. LocalInv(c)'
    BY <1>1, <1>2, <2>2 DEF LocalInv, DestroyInv
  <2> QED
    BY <1>2, <2>1, <2>3, NothingClaims DEF Kept
<1>3. CASE dmode[c] = "strict" /\ Keeps(c, session, owner) /\ Done(c, Nothing)
  <2>1. SharedTypes'
    BY <1>1, <1>3, KeepsTypes DEF SharedTypes, Revoke, lastVars
  <2> QED
    BY <1>1, <1>3, <2>1, EndsKept
<1> QED
  BY <1>2, <1>3 DEF Revoke

LEMMA RecordRegisteredKept ==
  ASSUME IInv, NEW c \in Caller, RecordRegistered(c)
  PROVE  Kept(c)
<1>1. /\ TypeOK /\ LocalTypes /\ SharedTypes /\ LocalInv(c) /\ UNCHANGED config
      /\ pc[c] # "idle" /\ op[c] \in {"register", "rotate"}
  BY TypesSplit DEF IInv, RecordRegistered
<1>2. FactorOpInv(c)
  BY <1>1 DEF LocalInv
<1>3. SharedTypes'
  <2>1. session' \in FactorKind \cup {None} /\ owner' \in Caller \cup {None}
    BY <1>1, KeepsTypes DEF RecordRegistered, SharedTypes
  <2> QED
    BY <1>1, <1>2, <2>1 DEF SharedTypes, RecordRegistered, FactorOpInv, lastVars
<1>4. CASE op[c] = "register"
  BY <1>1, <1>3, <1>4, EndsKept DEF RecordRegistered
<1>5. CASE op[c] = "rotate" /\ Go(c, "again") /\ returned' = Nothing
           /\ UNCHANGED <<op, signVars, lifeVars, session, owner>>
  <2>1. LocalTypes' /\ Frame(c)
    BY <1>1, <1>5 DEF LocalTypes, Frame, Go, signVars, lifeVars, config
  <2>2. LocalInv(c)'
    BY <1>1, <1>5 DEF LocalInv, FactorOpInv, Go, lifeVars, LocalTypes
  <2> QED
    BY <1>3, <1>5, <2>1, <2>2, NothingClaims DEF Kept
<1> QED
  BY <1>1, <1>4, <1>5 DEF RecordRegistered

LEMMA RotateAgainKept ==
  ASSUME IInv, NEW c \in Caller, RotateAgain(c)
  PROVE  Kept(c)
<1>1. /\ TypeOK /\ LocalTypes /\ SharedTypes /\ FactorOpInv(c) /\ UNCHANGED config
  BY TypesSplit DEF IInv, LocalInv, RotateAgain
<1>2. SharedTypes'
  <2>1. session' \in FactorKind \cup {None} /\ owner' \in Caller \cup {None}
    BY <1>1, KeepsTypes DEF RotateAgain, SharedTypes
  <2> QED
    BY <1>1, <2>1 DEF SharedTypes, RotateAgain, FactorOpInv, lastVars
<1> QED
  BY <1>1, <1>2, EndsKept DEF RotateAgain

LEMMA RecordActiveKept ==
  ASSUME IInv, NEW c \in Caller, RecordActive(c)
  PROVE  Kept(c)
<1>1. /\ TypeOK /\ LocalTypes /\ SharedTypes /\ FactorOpInv(c) /\ UNCHANGED config
  BY TypesSplit DEF IInv, LocalInv, RecordActive
<1>2. SharedTypes'
  <2>1. session' \in FactorKind \cup {None} /\ owner' \in Caller \cup {None}
    BY <1>1, KeepsTypes DEF RecordActive, SharedTypes
  <2> QED
    BY <1>1, <2>1 DEF SharedTypes, RecordActive, FactorOpInv, lastVars
<1> QED
  BY <1>1, <1>2, EndsKept DEF RecordActive

LEMMA RecordDestroyedKept ==
  ASSUME IInv, NEW c \in Caller, RecordDestroyed(c)
  PROVE  Kept(c)
<1> DEFINE r == [op |-> "destroy", mode |-> dmode[c], performed |-> performed[c],
                 revoked |-> revoked[c]]
<1>1. /\ TypeOK /\ LocalTypes /\ SharedTypes /\ DestroyInv(c) /\ UNCHANGED config
      /\ pc[c] = "local" /\ Done(c, r)
  BY TypesSplit DEF IInv, LocalInv, RecordDestroyed
<1>2. SharedTypes'
  <2>1. session' \in FactorKind \cup {None} /\ owner' \in Caller \cup {None}
    BY <1>1, KeepsTypes DEF RecordDestroyed, SharedTypes
  <2> QED
    BY <1>1, <2>1 DEF SharedTypes, RecordDestroyed, FactorKind, DestroyInv, lastVars
<1>3. LocalTypes' /\ Frame(c) /\ LocalInv(c)' /\ returned' = r
  BY <1>1, DoneEnds
<1>4. ReturnedInv'
  BY <1>1, <1>3 DEF ReturnedInv, PinFactorIsOfThisSign, CeremonyBearsOutFactor,
     CapabilityIsKept, DestroyIsNotOptimistic, DestroyInv
<1> QED
  BY <1>2, <1>3, <1>4 DEF Kept

\* A step of no caller.
LEMMA SessionEndsKept ==
  ASSUME IInv, SessionEnds
  PROVE  /\ LocalTypes' /\ SharedTypes'
         /\ \A c \in Caller : Frame(c) /\ LocalInv(c)'
         /\ ReturnedInv'
<1>1. LocalTypes /\ SharedTypes
  BY TypesSplit DEF IInv
<1>2. LocalTypes' /\ SharedTypes'
  BY <1>1 DEF LocalTypes, SharedTypes, SessionEnds, opVars, signVars, lifeVars, lastVars
<1>3. UNCHANGED <<config, opVars>>
  BY DEF SessionEnds
<1>4. ASSUME NEW c \in Caller PROVE Frame(c) /\ LocalInv(c)'
  <2>1. LocalInv(c)
    BY DEF IInv
  <2> QED
    BY <1>3, <2>1
       DEF Frame, LocalInv, IdleInv, SignInv, OpaqueSignInv, WebAuthnSignInv, CeremonyInv,
           FactorOpInv, DestroyInv, Validate, config, opVars, signVars, lifeVars
<1> QED
  BY <1>2, <1>4, NothingClaims DEF SessionEnds

\* Every step of a caller.
LEMMA StepKept ==
  ASSUME IInv, NEW c \in Caller, CallerStep(c)
  PROVE  Kept(c)
  BY StartSignKept, CollectKept, AnswerKept, CancelKept, SignSectionKept, EnterKept,
     GetAssertionKept, SignedWithSadKept, CeremonyFailsKept, StartFactorKept,
     StartDestroyKept, RegisteredRemotelyKept, AuthenticatedContextKept,
     LifecycleFailsKept, RevokeKept, RecordRegisteredKept, RotateAgainKept,
     RecordActiveKept, RecordDestroyedKept
     DEF CallerStep

-----------------------------------------------------------------------------
(* Contexts of serialised callers.                                         *)

\* A step that touches no context, nor what an activation knows of one.
Quiet(c) ==
  /\ UNCHANGED <<entry, proof>>
  /\ \/ pc'[c] = "idle"
     \/ op'[c] # "activate"
     \/ /\ pc[c] # "idle" /\ pc'[c] # "local"
        /\ op'[c] = op[c] /\ ctx'[c] = ctx[c] /\ factor'[c] = factor[c]

\* The contexts after a step of c.
ContextsKept(c) ==
  /\ ActiveMeansAuthenticated'
  /\ serial => ActivationInv(c)'

LEMMA QuietKeepsContexts ==
  ASSUME IInv, NEW c \in Caller, Quiet(c), UNCHANGED serial
  PROVE  ContextsKept(c)
  BY DEF IInv, Quiet, ContextsKept, SerialInv, ActivationInv, ActiveMeansAuthenticated

LEMMA SignStepsAreQuiet ==
  ASSUME IInv, NEW c \in Caller,
         \/ \E f \in BOOLEAN, h \in HostFactor \cup {None} : StartSign(c, f, h)
         \/ Collect(c)
         \/ \E k \in PinMethod \cup {"unclassified"} : Answer(c, k)
         \/ Cancel(c)
         \/ SignSection(c)
         \/ Enter(c)
         \/ \E a \in Assertion : GetAssertion(c, a)
         \/ SignedWithSad(c)
         \/ CeremonyFails(c)
  PROVE  Quiet(c)
<1>1. LocalTypes
  BY TypesSplit DEF IInv
<1>2. CASE \E f \in BOOLEAN, h \in HostFactor \cup {None} : StartSign(c, f, h)
  BY <1>1, <1>2 DEF StartSign, Quiet, LocalTypes
<1>3. CASE Collect(c)
  BY <1>1, <1>3 DEF Collect, Go, Quiet, LocalTypes, lifeVars
<1>4. CASE \E k \in PinMethod \cup {"unclassified"} : Answer(c, k)
  BY <1>1, <1>4 DEF Answer, Go, Quiet, LocalTypes, lifeVars
<1>5. CASE Cancel(c) \/ SignSection(c) \/ SignedWithSad(c) \/ CeremonyFails(c)
  BY <1>1, <1>5 DEF Cancel, SignSection, SignedWithSad, CeremonyFails, Done, Go, Quiet,
                    LocalTypes
<1>6. CASE Enter(c)
  BY <1>1, <1>6 DEF Enter, Go, Quiet, LocalTypes, lifeVars
<1>7. CASE \E a \in Assertion : GetAssertion(c, a)
  BY <1>1, <1>7 DEF GetAssertion, Quiet, LocalTypes, lifeVars
<1> QED
  BY <1>2, <1>3, <1>4, <1>5, <1>6, <1>7

LEMMA RequestsAreQuiet ==
  ASSUME IInv, NEW c \in Caller,
         \/ \E x \in Context :
              \/ \E f \in FactorKind : StartRegister(c, x, f)
              \/ StartRotate(c, x)
              \/ \E m \in DestroyMode : StartDestroy(c, x, m)
         \/ RegisteredRemotely(c)
         \/ LifecycleFails(c)
         \/ Revoke(c)
  PROVE  Quiet(c)
<1>1. LocalTypes
  BY TypesSplit DEF IInv
<1>2. ASSUME NEW x \in Context,
             (\E f \in FactorKind : StartRegister(c, x, f)) \/ StartRotate(c, x)
      PROVE  Quiet(c)
  BY <1>1, <1>2 DEF StartRegister, StartRotate, BeginFactor, Quiet, LocalTypes
<1>3. ASSUME NEW x \in Context, NEW m \in DestroyMode, StartDestroy(c, x, m)
      PROVE  Quiet(c)
  BY <1>1, <1>3 DEF StartDestroy, Quiet, LocalTypes
<1>4. CASE RegisteredRemotely(c)
  BY <1>1, <1>4 DEF RegisteredRemotely, Quiet
<1>5. CASE LifecycleFails(c)
  BY <1>1, <1>5 DEF LifecycleFails, Done, Go, Quiet, LocalTypes
<1>6. CASE Revoke(c)
  BY <1>1, <1>6 DEF Revoke, Done, Go, Quiet, LocalTypes
<1> QED
  BY <1>2, <1>3, <1>4, <1>5, <1>6

\* An activation starts from the entry it reads.
LEMMA StartActivateContexts ==
  ASSUME IInv, NEW c \in Caller, NEW x \in Context, StartActivate(c, x)
  PROVE  ContextsKept(c)
<1>1. LocalTypes
  BY TypesSplit DEF IInv
<1>2. UNCHANGED <<serial, entry, proof>> /\ entry[x] # None
  BY DEF StartActivate, BeginFactor, config
<1>3. ctx'[c] = x /\ factor'[c] = entry[x].factor /\ pc'[c] \in {"ask", "want"}
  BY <1>1 DEF StartActivate, BeginFactor, Go, LocalTypes
<1> QED
  BY <1>2, <1>3 DEF IInv, ContextsKept, ActivationInv, ActiveMeansAuthenticated

\* The authentication of an activation is one with the factor of the entry.
LEMMA AuthenticatedContextContexts ==
  ASSUME IInv, NEW c \in Caller, AuthenticatedContext(c)
  PROVE  ContextsKept(c)
<1>1. /\ LocalTypes /\ SharedTypes /\ FactorOpInv(c) /\ pc[c] # "idle" /\ op[c] = "activate"
      /\ serial' = serial
  BY TypesSplit
     DEF IInv, LocalInv, AuthenticatedContext, InSection, config
<1>2. /\ UNCHANGED <<entry, op, ctx, factor>>
      /\ proof' = [proof EXCEPT ![ctx[c]] = factor[c]]
  BY DEF AuthenticatedContext, lifeVars
<1>3. serial => entry[ctx[c]] # None /\ entry[ctx[c]].factor = factor[c]
  BY <1>1 DEF IInv, SerialInv, ActivationInv
<1>4. /\ proof'[ctx[c]] = factor[c]
      /\ \A x \in Context \ {ctx[c]} : proof'[x] = proof[x]
  BY <1>1, <1>2 DEF SharedTypes, FactorOpInv
<1>5. ActiveMeansAuthenticated'
  BY <1>1, <1>2, <1>3, <1>4 DEF IInv, ActiveMeansAuthenticated
<1>6. serial => ActivationInv(c)'
  BY <1>2, <1>3, <1>4 DEF ActivationInv
<1> QED
  BY <1>5, <1>6 DEF ContextsKept

\* An entry that is written anew, in a state that is not Active.
LEMMA WrittenContexts ==
  ASSUME IInv, NEW c \in Caller, ctx[c] \in Context, UNCHANGED serial,
         \A x \in Context \ {ctx[c]} : entry'[x] = entry[x] /\ proof'[x] = proof[x],
         entry'[ctx[c]] = None \/ entry'[ctx[c]].state # "Active",
         pc'[c] = "idle" \/ op'[c] # "activate"
  PROVE  ContextsKept(c)
  BY DEF IInv, ContextsKept, ActivationInv, ActiveMeansAuthenticated

LEMMA RecordContexts ==
  ASSUME IInv, NEW c \in Caller,
         RecordRegistered(c) \/ RotateAgain(c) \/ RecordDestroyed(c)
  PROVE  ContextsKept(c)
<1>1. LocalTypes /\ SharedTypes /\ ctx[c] \in Context
  BY TypesSplit DEF IInv, LocalInv, FactorOpInv, DestroyInv, RecordRegistered,
                    RotateAgain, RecordDestroyed
<1>2. UNCHANGED serial
  BY DEF RecordRegistered, RotateAgain, RecordDestroyed, config
<1>3. \A x \in Context \ {ctx[c]} : entry'[x] = entry[x] /\ proof'[x] = proof[x]
  BY <1>1 DEF RecordRegistered, RotateAgain, RecordDestroyed, SharedTypes
<1>4. entry'[ctx[c]] = None \/ entry'[ctx[c]].state # "Active"
  BY <1>1 DEF RecordRegistered, RotateAgain, RecordDestroyed, SharedTypes
<1>5. pc'[c] = "idle" \/ op'[c] # "activate"
  BY <1>1 DEF RecordRegistered, RotateAgain, RecordDestroyed, Done, Go, LocalTypes
<1> QED
  BY <1>1, <1>2, <1>3, <1>4, <1>5, WrittenContexts

\* The entry that becomes Active still has the factor it was authenticated by.
LEMMA RecordActiveContexts ==
  ASSUME IInv, NEW c \in Caller, RecordActive(c)
  PROVE  ContextsKept(c)
<1> DEFINE x == ctx[c]
<1>1. /\ LocalTypes /\ SharedTypes /\ FactorOpInv(c)
      /\ pc[c] = "local" /\ op[c] = "activate"
      /\ UNCHANGED <<serial, proof>>
  BY TypesSplit DEF IInv, LocalInv, RecordActive, config
<1>2. pc'[c] = "idle"
  BY <1>1 DEF RecordActive, Done, Go, LocalTypes
<1>3. serial => entry[x] # None /\ proof[x] = entry[x].factor
  BY <1>1 DEF IInv, SerialInv, ActivationInv
<1>4. \A y \in Context : entry'[y] # None => entry'[y].factor = entry[y].factor
  BY <1>1 DEF RecordActive, SharedTypes, FactorOpInv
<1>5. \A y \in Context \ {x} : entry'[y] = entry[y]
  BY <1>1 DEF RecordActive, SharedTypes, FactorOpInv
<1>6. ActiveMeansAuthenticated'
  BY <1>1, <1>3, <1>4, <1>5 DEF IInv, ActiveMeansAuthenticated
<1> QED
  BY <1>2, <1>6 DEF ContextsKept, ActivationInv

LEMMA StepContexts ==
  ASSUME IInv, NEW c \in Caller, CallerStep(c)
  PROVE  ContextsKept(c)
<1>1. UNCHANGED serial
  BY StepKept DEF Kept, Frame, config
<1> QED
  BY <1>1, QuietKeepsContexts, SignStepsAreQuiet, RequestsAreQuiet,
     StartActivateContexts, AuthenticatedContextContexts, RecordContexts,
     RecordActiveContexts
     DEF CallerStep

\* A step of c either goes on with an operation of c or, the calls being
\* serialised, starts one when nobody has any.
LEMMA StepGoesOnOrStarts ==
  ASSUME NEW c \in Caller, CallerStep(c)
  PROVE  pc[c] # "idle" \/ CanStart(c)
  BY DEF CallerStep, StartSign, Collect, Answer, Cancel, SignSection, Enter, GetAssertion,
         SignedWithSad, CeremonyFails, StartRegister, StartRotate, StartActivate,
         StartDestroy, RegisteredRemotely, AuthenticatedContext, InSection, LifecycleFails,
         Revoke, RecordRegistered, RotateAgain, RecordActive, RecordDestroyed

LEMMA StepSerial ==
  ASSUME IInv, NEW c \in Caller, CallerStep(c)
  PROVE  SerialInv'
<1>1. Frame(c) /\ ContextsKept(c) /\ serial' = serial
  BY StepKept, StepContexts DEF Kept, Frame, config
<1> SUFFICES ASSUME serial PROVE SerialInv'
  BY <1>1 DEF SerialInv
<1>2. \A d \in Caller \ {c} : pc'[d] = "idle"
  <2>1. \A d \in Caller \ {c} : pc[d] = "idle"
    BY StepGoesOnOrStarts DEF IInv, SerialInv, CanStart
  <2> QED
    BY <1>1, <2>1 DEF Frame
<1> QED
  BY <1>1, <1>2 DEF SerialInv, ContextsKept, ActivationInv

-----------------------------------------------------------------------------
(* The invariant.                                                          *)

LEMMA InitIInv == Init => IInv
<1> SUFFICES ASSUME Init PROVE IInv
  OBVIOUS
<1>1. <<>> \in Seq(Assertion) /\ 0 \in 0 .. MaxAssertions
  BY R2psAssumption
<1>2. LocalTypes /\ SharedTypes
  BY <1>1 DEF Init, LocalTypes, SharedTypes, Agreement
<1>3. TypeOK
  BY <1>2, TypesSplit DEF Init
<1>4. \A c \in Caller : LocalInv(c)
  BY DEF Init, LocalInv, IdleInv
<1>5. SerialInv /\ ActiveMeansAuthenticated
  BY DEF Init, SerialInv, ActivationInv, ActiveMeansAuthenticated
<1>6. ReturnedInv
  BY DEF Init, Nothing, ReturnedInv, PinFactorIsOfThisSign, CeremonyBearsOutFactor,
         CapabilityIsKept, DestroyIsNotOptimistic
<1> QED
  BY <1>3, <1>4, <1>5, <1>6 DEF IInv

LEMMA NextIInv == IInv /\ [Next]_vars => IInv'
<1> SUFFICES ASSUME IInv, [Next]_vars PROVE IInv'
  OBVIOUS
<1>1. ASSUME NEW c \in Caller, CallerStep(c) PROVE IInv'
  <2>1. Kept(c) /\ ContextsKept(c) /\ SerialInv'
    BY <1>1, StepKept, StepContexts, StepSerial
  <2>2. TypeOK'
    <3>1. (serial \in BOOLEAN /\ mode \in Mode /\ rp \in BOOLEAN)'
      BY <2>1 DEF Kept, Frame, config, IInv, TypeOK
    <3> QED
      BY <2>1, <3>1 DEF Kept, TypeOK, LocalTypes, SharedTypes
  <2>3. \A d \in Caller : LocalInv(d)'
    BY <2>1, FrameKeeps DEF Kept, IInv
  <2> QED
    BY <2>1, <2>2, <2>3 DEF IInv, Kept, ContextsKept
<1>2. CASE SessionEnds
  <2>1. UNCHANGED <<config, lock, entry, opVars, proof>>
    BY <1>2 DEF SessionEnds
  <2>2. TypeOK'
    <3>1. (serial \in BOOLEAN /\ mode \in Mode /\ rp \in BOOLEAN)'
      BY <2>1 DEF config, IInv, TypeOK
    <3> QED
      BY <1>2, <3>1, SessionEndsKept DEF TypeOK, LocalTypes, SharedTypes
  <2>3. SerialInv' /\ ActiveMeansAuthenticated'
    BY <2>1 DEF IInv, SerialInv, ActivationInv, ActiveMeansAuthenticated, config, opVars,
                lifeVars
  <2> QED
    BY <1>2, <2>2, <2>3, SessionEndsKept DEF IInv
<1>3. CASE UNCHANGED vars
  <2>1. UNCHANGED <<config, session, lock, entry, opVars, lastVars, owner, proof, returned>>
    BY <1>3 DEF vars
  <2>2. TypeOK'
    BY <2>1 DEF IInv, TypeOK, config, opVars, signVars, lifeVars, lastVars
  <2>3. \A c \in Caller : LocalInv(c)'
    BY <2>1
       DEF IInv, LocalInv, IdleInv, SignInv, OpaqueSignInv, WebAuthnSignInv, CeremonyInv,
           FactorOpInv, DestroyInv, Validate, config, opVars, signVars, lifeVars
  <2>4. SerialInv' /\ ActiveMeansAuthenticated'
    BY <2>1 DEF IInv, SerialInv, ActivationInv, ActiveMeansAuthenticated, config, opVars,
                lifeVars
  <2>5. ReturnedInv'
    BY <2>1 DEF IInv, ReturnedInv, PinFactorIsOfThisSign, CeremonyBearsOutFactor,
                CapabilityIsKept, Capability, DestroyIsNotOptimistic, config
  <2> QED
    BY <2>2, <2>3, <2>4, <2>5 DEF IInv
<1> QED
  BY <1>1, <1>2, <1>3 DEF Next

\* Whatever the callers, the users and the server do, IInv holds.
THEOREM Inductive == Spec => []IInv
  BY InitIInv, NextIInv, PTL DEF Spec

-----------------------------------------------------------------------------
(* What follows from it.                                                   *)

\* The client, its session and the lifecycle entries are always well-formed:
\* no operation of r2ps.rs leaves the plugin in a state outside its types.
THEOREM TypeCorrect == Spec => []TypeOK
<1>1. IInv => TypeOK
  BY DEF IInv
<1> QED
  BY <1>1, Inductive, PTL

\* A PIN factor, and a fresh signature, come from the PIN of this very sign,
\* however many callers share the client (collect_opaque_pin, sign_opaque).
THEOREM PinFactorsAreOfThisSign == Spec => []PinFactorIsOfThisSign
<1>1. IInv => PinFactorIsOfThisSign
  BY DEF IInv, ReturnedInv
<1> QED
  BY <1>1, Inductive, PTL

\* The factor of a WebAuthn signature is borne out by every assertion of its
\* ceremony, however long (record_assertion, agreed_verified_factor).
THEOREM CeremoniesBearOutFactors == Spec => []CeremonyBearsOutFactor
<1>1. IInv => CeremonyBearsOutFactor
  BY DEF IInv, ReturnedInv
<1> QED
  BY <1>1, Inductive, PTL

\* What authentication_capability promises, a later sign delivers.
THEOREM CapabilitiesAreKept == Spec => []CapabilityIsKept
<1>1. IInv => CapabilityIsKept
  BY DEF IInv, ReturnedInv
<1> QED
  BY <1>1, Inductive, PTL

\* Serialised callers find a context Active only if its own factor
\* authenticated it (activate_lifecycle).
THEOREM ActiveIsAuthenticated == Spec => []ActiveMeansAuthenticated
<1>1. IInv => ActiveMeansAuthenticated
  BY DEF IInv
<1> QED
  BY <1>1, Inductive, PTL

\* remote_performed is said only of a revocation the server has performed
\* (destroy_lifecycle).
THEOREM DestroysAreNotOptimistic == Spec => []DestroyIsNotOptimistic
<1>1. IInv => DestroyIsNotOptimistic
  BY DEF IInv, ReturnedInv
<1> QED
  BY <1>1, Inductive, PTL

-----------------------------------------------------------------------------
(* The client's mutex.                                                     *)

\* An operation that ends or goes on is where it says, the others where they
\* were.
LEMMA GoesThere ==
  ASSUME TypeOK, NEW c \in Caller, NEW where, Go(c, where)
  PROVE  pc'[c] = where /\ \A d \in Caller \ {c} : pc'[d] = pc[d]
BY DEF TypeOK, Go

\* A step of c that leaves the client as it is begins or ends no ceremony.
LEMMA ClientUntouched ==
  ASSUME TypeOK, HeldForOneCeremony, NEW c \in Caller, NEW where,
         Go(c, where), pc[c] # "ceremony", where # "ceremony", lock' = lock
  PROVE  HeldForOneCeremony'
BY GoesThere DEF HeldForOneCeremony

\* A step of c that frees the client leaves nobody in a ceremony.
LEMMA ClientFreed ==
  ASSUME TypeOK, HeldForOneCeremony, NEW c \in Caller, NEW where,
         Go(c, where), pc[c] = "ceremony" \/ lock = None,
         where # "ceremony", lock' = None
  PROVE  HeldForOneCeremony'
BY GoesThere, R2psAssumption DEF HeldForOneCeremony, TypeOK

LEMMA CallerKeepsClient ==
  ASSUME TypeOK, HeldForOneCeremony, NEW c \in Caller, CallerStep(c)
  PROVE  HeldForOneCeremony'
<1>1. CASE \E f \in BOOLEAN, h \in HostFactor \cup {None} : StartSign(c, f, h)
  BY <1>1, ClientUntouched DEF StartSign, CanStart
<1>2. CASE Collect(c)
  BY <1>2, ClientUntouched DEF Collect
<1>3. CASE \E k \in PinMethod \cup {"unclassified"} : Answer(c, k)
  BY <1>3, ClientUntouched DEF Answer
<1>4. CASE Cancel(c)
  BY <1>4, ClientUntouched DEF Cancel, Done
<1>5. CASE SignSection(c)
  BY <1>5, ClientUntouched DEF SignSection, Done
<1>6. CASE Enter(c)
  BY <1>6, GoesThere, R2psAssumption DEF Enter, HeldForOneCeremony, TypeOK
<1>7. CASE \E a \in Assertion : GetAssertion(c, a)
  BY <1>7 DEF GetAssertion, HeldForOneCeremony
<1>8. CASE SignedWithSad(c) \/ CeremonyFails(c)
  BY <1>8, ClientFreed DEF SignedWithSad, CeremonyFails, Done
<1>9. CASE \E x \in Context : \/ \E f \in FactorKind : StartRegister(c, x, f)
                             \/ StartRotate(c, x)
                             \/ StartActivate(c, x)
                             \/ \E m \in DestroyMode : StartDestroy(c, x, m)
  BY <1>9, ClientUntouched
     DEF StartRegister, StartRotate, StartActivate, StartDestroy, BeginFactor, CanStart
<1>10. CASE RegisteredRemotely(c) \/ AuthenticatedContext(c)
  BY <1>10, ClientFreed DEF RegisteredRemotely, AuthenticatedContext, InSection
<1>11. CASE LifecycleFails(c) \/ Revoke(c)
  BY <1>11, ClientUntouched DEF LifecycleFails, Revoke, Done
<1>12. CASE \/ RecordRegistered(c) \/ RotateAgain(c)
            \/ RecordActive(c) \/ RecordDestroyed(c)
  BY <1>12, ClientUntouched
     DEF RecordRegistered, RotateAgain, RecordActive, RecordDestroyed, Done
<1> QED
  BY <1>1, <1>2, <1>3, <1>4, <1>5, <1>6, <1>7, <1>8, <1>9, <1>10, <1>11, <1>12
     DEF CallerStep

\* The client is held exactly as long as one ceremony lasts, so no operation
\* waits for a mutex whose holder waits for a mutex.
THEOREM CeremoniesHoldTheClient == Spec => []HeldForOneCeremony
<1>1. Init => HeldForOneCeremony
  BY R2psAssumption DEF Init, HeldForOneCeremony
<1>2. TypeOK /\ HeldForOneCeremony /\ [Next]_vars => HeldForOneCeremony'
  <2>1. CASE SessionEnds
    BY <2>1 DEF SessionEnds, HeldForOneCeremony, opVars
  <2>2. CASE UNCHANGED vars
    BY <2>2 DEF vars, opVars, HeldForOneCeremony
  <2> QED
    BY <2>1, <2>2, CallerKeepsClient DEF Next
<1> QED
  BY <1>1, <1>2, TypeCorrect, PTL DEF Spec
=============================================================================
