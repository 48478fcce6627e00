------------------------ MODULE Fido2CeremonyProofs ------------------------
(***************************************************************************)
(* Proofs about Fido2Ceremony, for every authenticator, every set of PINs  *)
(* and any number of callers.                                              *)
(***************************************************************************)
EXTENDS Fido2Ceremony, PreviewSignProofs, FiniteSetTheorems

-----------------------------------------------------------------------------
(* The inductive invariant.                                                *)

Algs == {{ARKG_P256_ESP256}, {ECSDSA_BLS12381}}

\* Phases of a call to a raw transport: from getInfo on it knows the
\* authenticator's protocol, from the prompt on it has a PIN, from the key
\* agreement on it has talked to an authenticator that has PINs.
Informed == {"ask", "agree to set", "set", "agree", "token", "command"}
Prompted == Informed \ {"ask"}
Agreed == {"set", "token", "command"}

Active(r) == r.phase # "idle"
Generates(r) == Active(r) /\ r.op = "generate"
Signs(r) == Active(r) /\ r.op = "sign"

\* A call is an operation, with a number of its own.
OperationInv(r) ==
  /\ "phase" \in DOMAIN r /\ r.phase \in Phase
  /\ Active(r) =>
       /\ {"op", "n"} \subseteq DOMAIN r
       /\ r.op \in {"generate", "sign", "describe"} /\ r.n \in 1 .. calls
       /\ r.op = "describe" => r.phase \in {"info", "retries"}
       /\ r.phase = "retries" => r.op = "describe"
       /\ browser => r.phase = "command"

\* What an enrolment and a signature are given.
InputInv(r) ==
  /\ Generates(r) =>
       /\ {"algs", "since"} \subseteq DOMAIN r
       /\ r.algs \in Algs /\ r.since \in 0 .. resets
  /\ Signs(r) =>
       /\ {"key", "data", "fresh", "host"} \subseteq DOMAIN r
       /\ r.data \in Data /\ r.fresh \in BOOLEAN /\ r.host \in HostFactor \cup {None}
       /\ Validate(r.host) /\ MayBeFresh(r.fresh)
       /\ ToBeSigned(r.key, r.data) # Fail

\* What a call has learnt from the authenticator and its user.
ExchangeInv(r) ==
  /\ "pin" \in DOMAIN r =>
       /\ "typed" \in DOMAIN r
       /\ r.typed \in Entry /\ ~r.typed.nul /\ r.pin = NormalizePin(r.typed)
  /\ ~browser /\ r.phase \in Informed =>
       /\ {"protocol", "min", "new", "fit"} \subseteq DOMAIN r
       /\ r.protocol = PinProtocol(model.protocols)
  /\ ~browser /\ r.phase \in Prompted => "pin" \in DOMAIN r
  /\ ~browser /\ r.phase \in Agreed => "agreed" \in DOMAIN r /\ Speaks(r.protocol)

\* Why no enrolment can succeed as long as no reset happens; once a token has
\* been granted there is one reason left.
Hopeless ==
  \/ ~model.ext \/ ~model.clientPin \/ model.force
  \/ /\ model.protocols # <<>>
     /\ \A i \in DOMAIN model.protocols : model.protocols[i] \notin {1, 2}
  \/ dev.pin # None /\ dev.retries = 0
FitInv(r) ==
  ~browser /\ Generates(r) /\ r.phase \in Informed /\ ~r.fit /\ r.since = resets =>
    IF r.phase = "command" THEN ~model.ext ELSE Hopeless

\* The authenticator's PIN is the text its owner knows.
PinInv ==
  /\ dev.pin # None =>
       \E p \in Entry \cup {FactoryPin} : p.name = chosen /\ dev.pin = NormalizePin(p)
  /\ ~model.clientPin => dev.pin = None

\* A token belongs to the command of one call.
TokenInv ==
  dev.token # None =>
    /\ ~model.force
    /\ dev.token.id \in 1 .. calls
    /\ \A c \in Caller :
         Active(call[c]) /\ call[c].n = dev.token.id =>
           /\ call[c].phase = "command"
           /\ dev.token.perms = Permission(call[c].op)
           /\ dev.token.rp = RawRp

DeviceInv ==
  /\ {"pin", "retries", "consecutive", "agreement", "token", "creds", "made"}
       = DOMAIN dev
  /\ dev.retries \in 0 .. MaxRetries /\ dev.consecutive \in 0 .. MaxConsecutive
  /\ dev.agreement \in Nat /\ dev.made \in Nat
  /\ \A d \in dev.creds : d.id \in 1 .. dev.made /\ d.rp = IF browser THEN Hostname ELSE RawRp

\* The record of a key is what its credential's key derives to, and its
\* attestation is that credential's.
DerivesFrom(k, cose) ==
  \E algs \in Algs :
    /\ cose = Cose(k.credential, algs)
    /\ Derived(cose, k.hash, algs) = Ok([pub |-> k.pub, arkg |-> k.arkg])
KeyInv(k) ==
  /\ k.credential \in 1 .. dev.made
  /\ k.handle = <<"handle", k.credential>>
  /\ k.attestation # Fail /\ k.attestation[2].id = k.handle
  /\ DerivesFrom(k, k.attestation[2].cose)
  /\ k.chain <=> model.attests = "chain"
  /\ ~browser /\ "over" \in DOMAIN k.attestation[3] => k.attestation[3].over = k.hash
  /\ \A d \in dev.creds : d.id = k.credential => d.cose = k.attestation[2].cose
KeysInv ==
  /\ \A k \in keys : KeyInv(k)
  /\ \A k, l \in keys : k.credential = l.credential => k = l

\* Calls that may yet make a credential.
Making == {c \in Caller : Generates(call[c])}
CountInv ==
  /\ calls \in 0 .. MaxCalls /\ faults \in 0 .. MaxFaults /\ resets \in Nat
  /\ IsFiniteSet(Making)
  /\ dev.made + Cardinality(Making) <= calls

CallsInv ==
  /\ DOMAIN call = Caller
  /\ \A c \in Caller : /\ OperationInv(call[c])
                       /\ InputInv(call[c])
                       /\ ExchangeInv(call[c])
  /\ \A c, d \in Caller :
       Active(call[c]) /\ Active(call[d]) /\ call[c].n = call[d].n => c = d
CopiesInv == \A c \in Caller : Signs(call[c]) => KeyInv(call[c].key)
FitsInv == \A c \in Caller : FitInv(call[c])

IInv ==
  /\ browser \in BOOLEAN /\ model \in Model
  /\ CountInv /\ CallsInv /\ DeviceInv
  /\ PinInv /\ TokenInv /\ FitsInv /\ KeysInv /\ CopiesInv

-----------------------------------------------------------------------------
(* PINs.                                                                   *)

Text == [name : STRING, utf8 : BOOLEAN, nul : BOOLEAN, bytes : Nat, chars : Nat, marks : Nat]

\* Composing the marks of a text.
LEMMA Composed ==
  ASSUME NEW p \in Text, p.marks <= p.chars, p.marks <= p.bytes
  PROVE  LET m == [p EXCEPT !.bytes = @ - p.marks, !.chars = @ - p.marks, !.marks = 0] IN
         /\ m \in Text
         /\ m.name = p.name /\ m.utf8 = p.utf8 /\ m.nul = p.nul
         /\ m.bytes = p.bytes - p.marks /\ m.chars = p.chars - p.marks /\ m.marks = 0
<1>1. p.bytes - p.marks \in Nat /\ p.chars - p.marks \in Nat
  BY DEF Text
<1>2. QED
  BY <1>1 DEF Text

\* What normalisation keeps of a PIN: its text, its NUL and its class; once
\* composed, nothing is left to compose.
LEMMA PinsAreNormal ==
  ASSUME NEW p \in Pin
  PROVE  /\ NormalizePin(p).name = p.name /\ NormalizePin(p).nul = p.nul
         /\ NormalizePin(p) \in Pin /\ NormalizePin(p).marks = 0
         /\ NormalizePin(NormalizePin(p)) = NormalizePin(p)
         /\ ClassifyPin(NormalizePin(p)) = ClassifyPin(p)
<1> DEFINE n == NormalizePin(p)
<1>1. p \in Text /\ p.marks <= p.chars /\ p.marks <= p.bytes /\ (~p.utf8 => p.marks = 0)
  BY DEF Pin, Text
<1>2. /\ n \in Text /\ n.name = p.name /\ n.utf8 = p.utf8 /\ n.nul = p.nul /\ n.marks = 0
      /\ n.bytes = p.bytes - p.marks /\ n.chars = p.chars - p.marks
  <2>1. CASE p.utf8
    BY <1>1, <2>1, Composed DEF NormalizePin
  <2>2. CASE ~p.utf8
    <3>1. n = p
      BY <2>2 DEF NormalizePin
    <3> HIDE DEF n
    <3>2. QED
      BY <1>1, <2>2, <3>1 DEF Text
  <2>3. QED
    BY <1>1, <2>1, <2>2 DEF Text
<1> HIDE DEF n
<1>3. n.marks <= n.chars /\ n.marks <= n.bytes
  BY <1>2 DEF Text
<1>4. n \in Pin
  BY <1>2, <1>3 DEF Pin, Text
<1>5. NormalizePin(n) = n
  <2>1. CASE n.utf8
    <3> DEFINE m == [n EXCEPT !.bytes = @ - n.marks, !.chars = @ - n.marks, !.marks = 0]
    <3>1. /\ m \in Text /\ m.name = n.name /\ m.utf8 = n.utf8 /\ m.nul = n.nul
          /\ m.bytes = n.bytes - 0 /\ m.chars = n.chars - 0 /\ m.marks = 0
      BY <1>2, <1>3, Composed
    <3>2. NormalizePin(n) = m
      BY <2>1 DEF NormalizePin
    <3> HIDE DEF m
    <3>3. m = n
      BY <1>2, <3>1 DEF Text
    <3>4. QED
      BY <3>2, <3>3
  <2>2. CASE ~n.utf8
    BY <2>2 DEF NormalizePin
  <2>3. QED
    BY <2>1, <2>2
<1>6. ClassifyPin(n) = ClassifyPin(p)
  BY <1>2, <1>5 DEF ClassifyPin, n
<1>7. QED
  BY <1>2, <1>4, <1>5, <1>6 DEF n

\* A text without its marks.
ComposedForm(p) ==
  [name |-> p.name, utf8 |-> p.utf8, nul |-> p.nul,
   bytes |-> p.bytes - p.marks, chars |-> p.chars - p.marks, marks |-> 0]

LEMMA NormalForm ==
  ASSUME NEW p \in Pin
  PROVE  NormalizePin(p) = ComposedForm(p)
<1>1. p \in Text /\ (~p.utf8 => p.marks = 0)
  BY DEF Pin, Text
<1>2. CASE p.utf8
  BY <1>1, <1>2 DEF NormalizePin, ComposedForm, Text
<1>3. CASE ~p.utf8
  <2>1. NormalizePin(p) = p
    BY <1>3 DEF NormalizePin
  <2>2. p.bytes - p.marks = p.bytes /\ p.chars - p.marks = p.chars /\ p.marks = 0
    BY <1>1, <1>3 DEF Text
  <2>3. QED
    BY <1>1, <2>1, <2>2 DEF ComposedForm, Text
<1>4. QED
  BY <1>2, <1>3

\* Whatever form a text is typed in, it is the same once composed.
LEMMA SameOnceComposed ==
  ASSUME NEW p \in Entry \cup {FactoryPin}, NEW q \in Entry \cup {FactoryPin},
         p.name = q.name
  PROVE  NormalizePin(p) = NormalizePin(q)
<1>1. p \in Pin /\ q \in Pin /\ SameText(p, q)
  BY CeremonyAssumption
<1>2. ComposedForm(p) = ComposedForm(q)
  BY <1>1 DEF SameText, ComposedForm
<1>3. QED
  BY <1>1, <1>2, NormalForm

LEMMA FactoryPinIsComposed ==
  NormalizePin(FactoryPin) = FactoryPin
<1>1. FactoryPin \in Pin /\ FactoryPin \in Text /\ FactoryPin.marks = 0
  BY CeremonyAssumption DEF Pin, Text
<1>2. /\ FactoryPin.bytes - FactoryPin.marks = FactoryPin.bytes
      /\ FactoryPin.chars - FactoryPin.marks = FactoryPin.chars
  BY <1>1 DEF Text
<1>3. ComposedForm(FactoryPin) = FactoryPin
  BY <1>1, <1>2 DEF ComposedForm, Text
<1>4. QED
  BY <1>1, <1>3, NormalForm

-----------------------------------------------------------------------------
(* Steps of a call.                                                        *)

\* The bounds are numbers.
LEMMA Bounds ==
  /\ MaxCalls \in Nat /\ MaxFaults \in Nat
  /\ MaxRetries \in Nat /\ MaxRetries # 0
  /\ MaxConsecutive \in Nat /\ MaxConsecutive # 0
BY CeremonyAssumption

\* What a call has learnt overrides what its record said.
LEMMA WithFields ==
  ASSUME NEW r, NEW s
  PROVE  /\ DOMAIN With(r, s) = DOMAIN r \cup DOMAIN s
         /\ \A x \in DOMAIN s : With(r, s)[x] = s[x]
         /\ \A x \in DOMAIN r : x \notin DOMAIN s => With(r, s)[x] = r[x]
BY DEF With

\* Only the record of caller c changes, the numbers of calls and faults grow
\* and the ceremony's transport and authenticator stay the same, without a reset.
StepOf(c) ==
  /\ DOMAIN call' = Caller
  /\ \A d \in Caller : d # c => call'[d] = call[d]
  /\ UNCHANGED static
  /\ calls' \in Nat /\ calls <= calls' /\ faults' \in Nat /\ faults <= faults'

\* A step that goes on changes one call and returns nothing.
LEMMA GoStep ==
  ASSUME DOMAIN call = Caller, NEW c \in Caller, NEW rec, Go(c, rec)
  PROVE  /\ call'[c] = rec /\ DOMAIN call' = Caller
         /\ \A d \in Caller : d # c => call'[d] = call[d]
         /\ returned' = Nothing
BY DEF Go

\* A step that ends its call leaves it idle.
LEMMA EndStep ==
  ASSUME DOMAIN call = Caller, NEW c \in Caller, NEW result, Ends(c, result)
  PROVE  /\ call'[c] = Idle /\ DOMAIN call' = Caller
         /\ \A d \in Caller : d # c => call'[d] = call[d]
         /\ returned' = result
BY DEF Ends

\* An idle record says nothing.
LEMMA IdleInv ==
  ASSUME NEW r, r = Idle
  PROVE  OperationInv(r) /\ InputInv(r) /\ ExchangeInv(r) /\ ~Active(r)
BY DEF Idle, OperationInv, InputInv, ExchangeInv, Active, Generates, Signs, Phase,
       Informed, Prompted, Agreed

\* The calls of the others are not disturbed, whatever a call does.
LEMMA OthersKeep ==
  ASSUME CallsInv, CountInv, NEW c \in Caller, StepOf(c),
         NEW d \in Caller, d # c
  PROVE  (OperationInv(call[d]) /\ InputInv(call[d]) /\ ExchangeInv(call[d]))'
<1>1. call'[d] = call[d] /\ browser' = browser /\ model' = model /\ resets' = resets
  BY DEF StepOf, static
<1>2. OperationInv(call[d]) /\ InputInv(call[d]) /\ ExchangeInv(call[d])
  BY DEF CallsInv
<1>3. calls \in Nat /\ calls' \in Nat /\ calls <= calls'
  BY DEF StepOf, CountInv
<1>4. OperationInv(call[d])'
  BY <1>1, <1>2, <1>3 DEF OperationInv, Active
<1>5. InputInv(call[d])'
  BY <1>1, <1>2, <1>3 DEF InputInv, Generates, Signs, Active, MayBeFresh
<1>6. ExchangeInv(call[d])'
  BY <1>1, <1>2 DEF ExchangeInv, Speaks
<1>7. QED
  BY <1>4, <1>5, <1>6

\* The calls keep their invariant if the stepping call does and its number is
\* its own.
LEMMA CallsKept ==
  ASSUME CallsInv, CountInv, NEW c \in Caller, StepOf(c),
         (OperationInv(call[c]) /\ InputInv(call[c]) /\ ExchangeInv(call[c]))',
         Active(call'[c]) =>
           \/ Active(call[c]) /\ call'[c].n = call[c].n
           \/ call'[c].n > calls
  PROVE  CallsInv'
<1>1. \A d \in Caller : (OperationInv(call[d]) /\ InputInv(call[d]) /\ ExchangeInv(call[d]))'
  BY OthersKeep
<1>2. \A d \in Caller : Active(call[d]) => call[d].n \in 1 .. calls
  BY DEF CallsInv, OperationInv
<1>3. \A d \in Caller : d # c => call'[d] = call[d]
  BY DEF StepOf
<1>4. \A d \in Caller :
        d # c /\ Active(call'[c]) /\ Active(call'[d]) => call'[c].n # call'[d].n
  <2> SUFFICES ASSUME NEW d \in Caller, d # c, Active(call'[c]), Active(call'[d])
               PROVE  call'[c].n # call'[d].n
    OBVIOUS
  <2>1. call'[d] = call[d] /\ Active(call[d]) /\ call[d].n \in 1 .. calls /\ calls \in Nat
    BY <1>2, <1>3 DEF CountInv
  <2>2. Active(call[c]) => call[c].n # call[d].n
    BY <2>1 DEF CallsInv
  <2>3. QED
    BY <2>1, <2>2
<1>5. \A d, e \in Caller :
        Active(call'[d]) /\ Active(call'[e]) /\ call'[d].n = call'[e].n => d = e
  BY <1>3, <1>4 DEF CallsInv
<1>6. DOMAIN call' = Caller
  BY DEF StepOf
<1>7. QED
  BY <1>1, <1>5, <1>6 DEF CallsInv, Active

\* What an exchange teaches changes neither the operation nor its inputs.
Learnt == {"phase", "new", "protocol", "min", "fit", "typed", "pin", "agreed"}

\* A call that has learnt something is the same operation.
LEMMA LearntKeeps ==
  ASSUME NEW r, NEW s, DOMAIN s \subseteq Learnt, "phase" \in DOMAIN r,
         Active(r), s.phase # "idle", "phase" \in DOMAIN s
  PROVE  LET w == With(r, s) IN
         /\ DOMAIN w = DOMAIN r \cup DOMAIN s
         /\ Active(w) /\ w.phase = s.phase
         /\ \A x \in DOMAIN r \ Learnt : w[x] = r[x]
         /\ "op" \in DOMAIN r => w.op = r.op
         /\ "n" \in DOMAIN r => w.n = r.n
<1> DEFINE w == With(r, s)
<1>1. /\ DOMAIN w = DOMAIN r \cup DOMAIN s
      /\ \A x \in DOMAIN s : w[x] = s[x]
      /\ \A x \in DOMAIN r : x \notin DOMAIN s => w[x] = r[x]
  BY WithFields
<1> HIDE DEF w
<1>2. w.phase = s.phase
  BY <1>1
<1>3. Active(w)
  BY <1>2 DEF Active
<1>4. \A x \in DOMAIN r \ Learnt : w[x] = r[x]
  BY <1>1
<1>5. "op" \notin Learnt /\ "n" \notin Learnt
  BY DEF Learnt
<1>6. /\ "op" \in DOMAIN r => w.op = r.op
      /\ "n" \in DOMAIN r => w.n = r.n
  BY <1>4, <1>5
<1>7. QED
  BY <1>1, <1>2, <1>3, <1>4, <1>6 DEF w

\* And it still has its inputs.
LEMMA LearntOperation ==
  ASSUME NEW r, NEW s, DOMAIN s \subseteq Learnt, "phase" \in DOMAIN s,
         OperationInv(r), InputInv(r), Active(r), ~browser,
         s.phase \in Phase \ {"idle", "info"},
         s.phase = "retries" <=> r.op = "describe"
  PROVE  OperationInv(With(r, s)) /\ InputInv(With(r, s))
<1> DEFINE w == With(r, s)
<1>1. /\ "phase" \in DOMAIN r /\ {"op", "n"} \subseteq DOMAIN r
      /\ r.op \in {"generate", "sign", "describe"} /\ r.n \in 1 .. calls
  BY DEF OperationInv
<1>2. /\ DOMAIN w = DOMAIN r \cup DOMAIN s
      /\ Active(w) /\ w.phase = s.phase
      /\ \A x \in DOMAIN r \ Learnt : w[x] = r[x]
      /\ w.op = r.op /\ w.n = r.n
  BY <1>1, LearntKeeps
<1> HIDE DEF w
<1>3. OperationInv(w)
  BY <1>1, <1>2 DEF OperationInv
<1>4. /\ Generates(w) => Generates(r) /\ w.algs = r.algs /\ w.since = r.since
                         /\ {"algs", "since"} \subseteq DOMAIN w
      /\ Signs(w) => Signs(r) /\ w.key = r.key /\ w.data = r.data /\ w.fresh = r.fresh
                     /\ w.host = r.host /\ {"key", "data", "fresh", "host"} \subseteq DOMAIN w
  BY <1>2 DEF InputInv, Generates, Signs, Learnt
<1>5. InputInv(w)
  BY <1>4 DEF InputInv
<1>6. QED
  BY <1>3, <1>5 DEF w

-----------------------------------------------------------------------------
(* The calls keep their invariant: one lemma per action.                   *)

\* A step that ends its call.
LEMMA EndKeeps ==
  ASSUME CallsInv, CountInv, NEW c \in Caller, StepOf(c), call'[c] = Idle
  PROVE  CallsInv'
<1>1. (OperationInv(call[c]) /\ InputInv(call[c]) /\ ExchangeInv(call[c]))' /\ ~Active(call'[c])
  BY DEF Idle, OperationInv, InputInv, ExchangeInv, Active, Generates, Signs, Phase,
         Informed, Prompted, Agreed
<1>2. QED
  BY <1>1, CallsKept

\* The call goes on: it is the same operation, with the same inputs.
GoesOn(c) ==
  LET r == call[c]
      w == call'[c]
  IN
  /\ Active(r) /\ Active(w) /\ w.op = r.op /\ w.n = r.n
  /\ r.op = "generate" => w.algs = r.algs /\ w.since = r.since
  /\ r.op = "sign" => w.key = r.key

\* A step of the exchange of c: it ends the call or takes it to a phase.
Exchanges(c, phases) ==
  /\ StepOf(c) /\ calls' = calls
  /\ \/ call'[c] = Idle
     \/ GoesOn(c) /\ call'[c].phase \in phases

\* A step of an exchange that goes on.
LEMMA LearnKeeps ==
  ASSUME CallsInv, CountInv, NEW c \in Caller, StepOf(c), calls' = calls,
         Active(call[c]), ~browser,
         NEW s, DOMAIN s \subseteq Learnt, "phase" \in DOMAIN s,
         s.phase \in Phase \ {"idle", "info"},
         s.phase = "retries" <=> call[c].op = "describe",
         call'[c] = With(call[c], s),
         ExchangeInv(call'[c])
  PROVE  CallsInv' /\ GoesOn(c) /\ call'[c].phase = s.phase
<1> DEFINE r == call[c]
<1>1. OperationInv(r) /\ InputInv(r)
  BY DEF CallsInv
<1>2. OperationInv(call'[c]) /\ InputInv(call'[c])
  BY <1>1, LearntOperation
<1>3. GoesOn(c) /\ call'[c].phase = s.phase
  <2>1. "phase" \in DOMAIN r /\ {"op", "n"} \subseteq DOMAIN r
    BY <1>1 DEF OperationInv
  <2> DEFINE w == With(r, s)
  <2>2. /\ Active(w) /\ w.op = r.op /\ w.n = r.n
        /\ w.phase = s.phase
        /\ \A x \in DOMAIN r \ Learnt : w[x] = r[x]
    <3>1. s.phase # "idle"
      BY DEF Phase
    <3>2. QED
      BY <2>1, <3>1, LearntKeeps
  <2> HIDE DEF w
  <2>3. /\ r.op = "generate" => {"algs", "since"} \subseteq DOMAIN r
        /\ r.op = "sign" => "key" \in DOMAIN r
    BY <1>1 DEF InputInv, Generates, Signs
  <2>4. /\ r.op = "generate" => call'[c].algs = r.algs /\ call'[c].since = r.since
        /\ r.op = "sign" => call'[c].key = r.key
    BY <2>2, <2>3 DEF Learnt, w
  <2>5. QED
    BY <2>2, <2>4 DEF GoesOn, w
<1>4. browser' = browser /\ model' = model /\ resets' = resets
  BY DEF StepOf, static
<1>5. OperationInv(call[c])'
  BY <1>2, <1>4 DEF OperationInv, Active
<1>6. InputInv(call[c])'
  BY <1>2, <1>4 DEF InputInv, Generates, Signs, Active, MayBeFresh
<1>7. ExchangeInv(call[c])'
  BY <1>4 DEF ExchangeInv, Speaks
<1>8. QED
  BY <1>3, <1>5, <1>6, <1>7, CallsKept DEF GoesOn

\* Only a raw transport has an exchange.
LEMMA RawExchange ==
  ASSUME CallsInv, NEW c \in Caller, call[c].phase \notin {"idle", "command"},
         browser \in BOOLEAN
  PROVE  ~browser /\ Active(call[c])
BY DEF CallsInv, OperationInv, Active

\* A step that refuses its call ends it.
LEMMA RefusedStep ==
  ASSUME DOMAIN call = Caller, NEW c \in Caller, NEW status, Refused(c, status)
  PROVE  /\ call'[c] = Idle /\ DOMAIN call' = Caller
         /\ \A d \in Caller : d # c => call'[d] = call[d]
         /\ returned' = [op |-> "refused", by |-> call[c], status |-> status]
BY EndStep DEF Refused

\* A lost answer ends its call.
LEMMA LostStep ==
  ASSUME DOMAIN call = Caller, CountInv, NEW c \in Caller, Lost(c)
  PROVE  /\ call'[c] = Idle /\ DOMAIN call' = Caller
         /\ \A d \in Caller : d # c => call'[d] = call[d]
         /\ returned' = [op |-> "refused", by |-> call[c], status |-> -1]
         /\ faults' = faults + 1 /\ faults' \in 0 .. MaxFaults /\ faults < faults'
<1>1. faults' = faults + 1 /\ faults < MaxFaults /\ Refused(c, -1)
  BY DEF Lost
<1>2. faults' \in 0 .. MaxFaults /\ faults < faults'
  BY <1>1, Bounds DEF CountInv
<1>3. QED
  BY <1>1, <1>2, RefusedStep

\* What getInfo says, in the exchange's words and in the host's.
PinState == IF ~model.clientPin THEN "unsupported"
            ELSE IF dev.pin # None THEN "set" ELSE "not_set"

\* What the exchange reads from getInfo.
LEMMA InfoRead ==
  /\ ParsePinInfo(GetInfoBody).protocol = PinProtocol(model.protocols)
  /\ ParsePinInfo(GetInfoBody).state = PinState
  /\ ParseGetInfo(GetInfoBody).state = PinState
  /\ ParseGetInfo(GetInfoBody).force = model.force
  /\ ParseGetInfo(GetInfoBody).protocols = model.protocols
  /\ "previewSign" \in ParseGetInfo(GetInfoBody).extensions <=> model.ext
<1>1. /\ DOMAIN GetInfoBody = {2, 4, 6, 12, 13}
      /\ GetInfoBody[2] = IF model.ext THEN {"previewSign"} ELSE {}
      /\ GetInfoBody[4] = IF model.clientPin THEN [clientPin |-> dev.pin # None] ELSE [up |-> TRUE]
      /\ GetInfoBody[6] = model.protocols
      /\ GetInfoBody[12] = model.force
  BY DEF GetInfoBody
<1>2. PinStateOf(GetInfoBody) = PinState
  <2>1. Field(GetInfoBody, 4, [none |-> TRUE]) = GetInfoBody[4]
    BY <1>1 DEF Field
  <2>2. CASE model.clientPin
    <3>1. GetInfoBody[4] = [clientPin |-> dev.pin # None]
      BY <1>1, <2>2
    <3> HIDE DEF GetInfoBody
    <3>2. "clientPin" \in DOMAIN GetInfoBody[4] /\ GetInfoBody[4].clientPin = (dev.pin # None)
      BY <3>1
    <3>3. QED
      BY <2>1, <2>2, <3>2 DEF PinStateOf, PinState
  <2>3. CASE ~model.clientPin
    BY <1>1, <2>1, <2>3 DEF PinStateOf, PinState
  <2>4. QED
    BY <2>2, <2>3
<1> HIDE DEF GetInfoBody
<1>3. QED
  BY <1>1, <1>2 DEF ParsePinInfo, ParseGetInfo, Field

\* The record of a call that has read getInfo.
LEMMA AskInv ==
  ASSUME NEW r, NEW new, NEW min, NEW fit, ExchangeInv(r)
  PROVE  ExchangeInv(With(r, [phase |-> "ask", new |-> new,
                              protocol |-> PinProtocol(model.protocols),
                              min |-> min, fit |-> fit]))
<1> DEFINE s == [phase |-> "ask", new |-> new, protocol |-> PinProtocol(model.protocols),
                 min |-> min, fit |-> fit]
           w == With(r, s)
<1>1. /\ DOMAIN s = {"phase", "new", "protocol", "min", "fit"}
      /\ s.phase = "ask" /\ s.protocol = PinProtocol(model.protocols)
  OBVIOUS
<1> HIDE DEF s
<1>2. /\ DOMAIN w = DOMAIN r \cup DOMAIN s
      /\ w.phase = "ask" /\ w.protocol = PinProtocol(model.protocols)
      /\ "pin" \in DOMAIN r => w.pin = r.pin
      /\ "typed" \in DOMAIN r => w.typed = r.typed
  BY <1>1 DEF With
<1> HIDE DEF w
<1>3. ExchangeInv(w)
  BY <1>1, <1>2 DEF ExchangeInv, Informed, Prompted, Agreed
<1>4. QED
  BY <1>3 DEF w, s

\* A step of c that counts no call.
LEMMA StepHolds ==
  ASSUME CallsInv, CountInv, NEW c \in Caller,
         \/ \E rec : Go(c, rec)
         \/ \E result : Ends(c, result),
         UNCHANGED <<browser, model, resets, calls>>,
         faults' = faults \/ faults' = faults + 1
  PROVE  StepOf(c)
<1>1. DOMAIN call' = Caller /\ \A d \in Caller : d # c => call'[d] = call[d]
  BY DEF Go, Ends, CallsInv
<1>2. calls \in Nat /\ faults \in Nat
  BY DEF CountInv
<1>3. QED
  BY <1>1, <1>2 DEF StepOf, static

\* A step of an exchange that ends it.
LEMMA ExchangeEnds ==
  ASSUME CallsInv, CountInv, NEW c \in Caller, NEW phases,
         UNCHANGED <<browser, model, resets, calls>>,
         \E result : Ends(c, result),
         faults' = faults \/ faults' = faults + 1
  PROVE  CallsInv' /\ Exchanges(c, phases)
<1>1. StepOf(c)
  BY StepHolds
<1>2. call'[c] = Idle
  BY DEF Ends, CallsInv
<1>3. QED
  BY <1>1, <1>2, EndKeeps DEF Exchanges

\* A step of an exchange that goes on with what it has learnt.
LEMMA ExchangeLearns ==
  ASSUME CallsInv, CountInv, browser \in BOOLEAN, NEW c \in Caller, NEW phases,
         call[c].phase \notin {"idle", "command"},
         UNCHANGED <<browser, model, resets, calls>>,
         faults' = faults,
         NEW s, DOMAIN s \subseteq Learnt, "phase" \in DOMAIN s,
         s.phase \in phases, s.phase \in Phase \ {"idle", "info"},
         s.phase = "retries" <=> call[c].op = "describe",
         ExchangeInv(With(call[c], s)),
         Go(c, With(call[c], s))
  PROVE  CallsInv' /\ Exchanges(c, phases)
<1>1. StepOf(c)
  BY StepHolds
<1>2. call'[c] = With(call[c], s)
  BY DEF Go, CallsInv
<1>3. ~browser /\ Active(call[c])
  BY RawExchange
<1>4. CallsInv' /\ GoesOn(c) /\ call'[c].phase = s.phase
  <2>1. ExchangeInv(call'[c])
    BY <1>2
  <2>2. QED
    BY <1>1, <1>2, <1>3, <2>1, LearnKeeps
<1>5. QED
  BY <1>1, <1>4 DEF Exchanges

\* Only a description asks for the retries, and it asks for nothing else.
LEMMA NoDescription ==
  ASSUME CallsInv, NEW c \in Caller,
         call[c].phase \notin {"idle", "info", "retries"}
  PROVE  call[c].op # "describe"
BY DEF CallsInv, OperationInv, Active

\* getInfo leads to a prompt, to the PIN retries or to the end.
LEMMA GetInfoCalls ==
  ASSUME IInv, NEW c \in Caller, GetInfo(c)
  PROVE  CallsInv' /\ Exchanges(c, {"retries", "ask"})
<1> DEFINE r == call[c]
           info == ParsePinInfo(GetInfoBody)
           seen == ParseGetInfo(GetInfoBody)
           fit == Suitable(seen, IF info.state = "set" THEN dev.retries ELSE -1, browser)
           s == [phase |-> "ask", new |-> info.state = "not_set", protocol |-> info.protocol,
                 min |-> info.min, fit |-> fit]
<1>1. CallsInv /\ CountInv /\ browser \in BOOLEAN /\ ExchangeInv(r)
  BY DEF IInv, CallsInv
<1>2. /\ r.phase = "info"
      /\ \/ r.op = "describe" /\ Go(c, With(r, [phase |-> "retries"]))
         \/ \E result : Ends(c, result)
         \/ r.op # "describe" /\ Go(c, With(r, s))
      /\ UNCHANGED <<browser, model, resets, calls>> /\ faults' = faults
  BY DEF GetInfo, In, static
<1>3. CASE r.op = "describe" /\ Go(c, With(r, [phase |-> "retries"]))
  <2> DEFINE t == [phase |-> "retries"]
  <2>1. DOMAIN t = {"phase"} /\ t.phase = "retries"
    OBVIOUS
  <2>2. Go(c, With(r, t))
    BY <1>3
  <2> HIDE DEF t
  <2>3. ExchangeInv(With(r, t))
    BY <1>1, <2>1 DEF With, ExchangeInv, Informed, Prompted, Agreed
  <2>4. t.phase \in {"retries", "ask"} /\ t.phase \in Phase \ {"idle", "info"}
        /\ DOMAIN t \subseteq Learnt /\ "phase" \in DOMAIN t
    BY <2>1 DEF Phase, Learnt
  <2>5. QED
    BY <1>1, <1>2, <1>3, <2>1, <2>2, <2>3, <2>4, ExchangeLearns
<1>4. CASE \E result : Ends(c, result)
  BY <1>1, <1>2, <1>4, ExchangeEnds
<1>5. CASE r.op # "describe" /\ Go(c, With(r, s))
  <2>1. ExchangeInv(With(r, s))
    BY <1>1, InfoRead, AskInv
  <2>2. DOMAIN s \subseteq Learnt /\ "phase" \in DOMAIN s /\ s.phase = "ask"
    BY DEF Learnt
  <2>3. Go(c, With(r, s))
    BY <1>5
  <2> HIDE DEF s
  <2>4. /\ s.phase \in {"retries", "ask"} /\ s.phase # "retries"
        /\ s.phase \in Phase \ {"idle", "info"}
    BY <2>2 DEF Phase
  <2>5. QED
    BY <1>1, <1>2, <1>5, <2>1, <2>2, <2>3, <2>4, ExchangeLearns
<1>6. QED
  BY <1>2, <1>3, <1>4, <1>5

\* The retries end a description.
LEMMA GetRetriesCalls ==
  ASSUME IInv, NEW c \in Caller, GetRetries(c)
  PROVE  CallsInv' /\ Exchanges(c, {})
<1>1. CallsInv /\ CountInv
  BY DEF IInv
<1>2. (\E result : Ends(c, result)) /\ UNCHANGED <<browser, model, resets, calls>> /\ faults' = faults
  BY DEF GetRetries, Refused, static
<1>3. QED
  BY <1>1, <1>2, ExchangeEnds

\* An answered prompt leads to a key agreement.
LEMMA AnswerCalls ==
  ASSUME IInv, NEW c \in Caller, NEW p \in Entry, Answer(c, p)
  PROVE  CallsInv' /\ Exchanges(c, {"agree to set", "agree"})
<1> DEFINE r == call[c]
           s == [phase |-> IF r.new THEN "agree to set" ELSE "agree",
                 typed |-> p, pin |-> NormalizePin(p)]
<1>1. CallsInv /\ CountInv /\ browser \in BOOLEAN /\ ExchangeInv(r)
  BY DEF IInv, CallsInv
<1>2. /\ r.phase = "ask"
      /\ \/ ~p.nul /\ Go(c, With(r, s))
         \/ \E result : Ends(c, result)
      /\ UNCHANGED <<browser, model, resets, calls>> /\ faults' = faults
  <2>1. ValidNewPin(p, r.min) => ~p.nul
    <3>1. NormalizePin(p).nul = p.nul
      BY PinsAreNormal, CeremonyAssumption
    <3>2. QED
      BY <3>1 DEF ValidNewPin
  <2>2. QED
    BY <2>1 DEF Answer, In, Refused, static
<1>3. CASE ~p.nul /\ Go(c, With(r, s))
  <2>1. /\ DOMAIN s = {"phase", "typed", "pin"}
        /\ s.phase \in {"agree to set", "agree"} /\ s.typed = p /\ s.pin = NormalizePin(p)
    OBVIOUS
  <2>2. Go(c, With(r, s))
    BY <1>3
  <2> HIDE DEF s
  <2>3. ExchangeInv(With(r, s))
    BY <1>1, <1>2, <1>3, <2>1 DEF With, ExchangeInv, Informed, Prompted, Agreed
  <2>4. s.phase \in Phase \ {"idle", "info"} /\ s.phase # "retries"
        /\ DOMAIN s \subseteq Learnt /\ "phase" \in DOMAIN s
    BY <2>1 DEF Phase, Learnt
  <2>5. QED
    BY <1>1, <1>2, <2>1, <2>2, <2>3, <2>4, ExchangeLearns, NoDescription
<1>4. CASE \E result : Ends(c, result)
  BY <1>1, <1>2, <1>4, ExchangeEnds
<1>5. QED
  BY <1>2, <1>3, <1>4

\* A cancelled one ends the call.
LEMMA CancelCalls ==
  ASSUME IInv, NEW c \in Caller, Cancel(c)
  PROVE  CallsInv' /\ Exchanges(c, {})
<1>1. CallsInv /\ CountInv
  BY DEF IInv
<1>2. (\E result : Ends(c, result)) /\ UNCHANGED <<browser, model, resets, calls>> /\ faults' = faults
  BY DEF Cancel, Refused, static
<1>3. QED
  BY <1>1, <1>2, ExchangeEnds

\* A key agreement leads to setPIN or to the token.
LEMMA KeyAgreementCalls ==
  ASSUME IInv, NEW c \in Caller, KeyAgreement(c)
  PROVE  /\ CallsInv'
         /\ Exchanges(c, IF call[c].phase = "agree" THEN {"token"} ELSE {"set"})
<1> DEFINE r == call[c]
           s == [phase |-> IF r.phase = "agree" THEN "token" ELSE "set",
                 agreed |-> dev.agreement]
           phases == IF r.phase = "agree" THEN {"token"} ELSE {"set"}
<1>1. CallsInv /\ CountInv /\ browser \in BOOLEAN /\ ExchangeInv(r)
  BY DEF IInv, CallsInv
<1>2. /\ r.phase \in {"agree to set", "agree"}
      /\ \/ Speaks(r.protocol) /\ Go(c, With(r, s))
         \/ \E result : Ends(c, result)
      /\ UNCHANGED <<browser, model, resets, calls>> /\ faults' = faults
  BY DEF KeyAgreement, In, Refused, static
<1>3. CASE Speaks(r.protocol) /\ Go(c, With(r, s))
  <2>1. /\ DOMAIN s = {"phase", "agreed"} /\ s.phase \in phases /\ s.phase \in {"set", "token"}
    OBVIOUS
  <2>2. Go(c, With(r, s))
    BY <1>3
  <2> HIDE DEF s, phases
  <2>3. ~browser
    BY <1>1, <1>2, RawExchange
  <2>4. ExchangeInv(With(r, s))
    BY <1>1, <1>2, <1>3, <2>1, <2>3 DEF With, ExchangeInv, Informed, Prompted, Agreed
  <2>5. s.phase \in Phase \ {"idle", "info"} /\ s.phase # "retries"
        /\ DOMAIN s \subseteq Learnt /\ "phase" \in DOMAIN s
    BY <2>1 DEF Phase, Learnt
  <2>6. QED
    BY <1>1, <1>2, <2>1, <2>2, <2>4, <2>5, ExchangeLearns, NoDescription DEF phases
<1>4. CASE \E result : Ends(c, result)
  BY <1>1, <1>2, <1>4, ExchangeEnds
<1>5. QED
  BY <1>2, <1>3, <1>4

\* setPIN is followed by the second key agreement.
LEMMA SetPinCalls ==
  ASSUME IInv, NEW c \in Caller, SetPin(c)
  PROVE  CallsInv' /\ Exchanges(c, {"agree"})
<1> DEFINE r == call[c]
           s == [phase |-> "agree"]
<1>1. CallsInv /\ CountInv /\ browser \in BOOLEAN /\ ExchangeInv(r)
  BY DEF IInv, CallsInv
<1>2. /\ r.phase = "set"
      /\ \/ Go(c, With(r, s)) /\ faults' = faults
         \/ (\E result : Ends(c, result)) /\ (faults' = faults \/ faults' = faults + 1)
      /\ UNCHANGED <<browser, model, resets, calls>>
  BY DEF SetPin, In, Hears, Lost, Refused, static
<1>3. CASE Go(c, With(r, s)) /\ faults' = faults
  <2>1. DOMAIN s = {"phase"} /\ s.phase = "agree"
    OBVIOUS
  <2>2. Go(c, With(r, s))
    BY <1>3
  <2> HIDE DEF s
  <2>3. ExchangeInv(With(r, s))
    BY <1>1, <1>2, <2>1 DEF With, ExchangeInv, Informed, Prompted, Agreed
  <2>4. s.phase \in {"agree"} /\ s.phase \in Phase \ {"idle", "info"} /\ s.phase # "retries"
        /\ DOMAIN s \subseteq Learnt /\ "phase" \in DOMAIN s
    BY <2>1 DEF Phase, Learnt
  <2>5. QED
    BY <1>1, <1>2, <1>3, <2>2, <2>3, <2>4, ExchangeLearns, NoDescription
<1>4. CASE (\E result : Ends(c, result)) /\ (faults' = faults \/ faults' = faults + 1)
  BY <1>1, <1>2, <1>4, ExchangeEnds
<1>5. QED
  BY <1>2, <1>3, <1>4

\* With a token the command is sent.
LEMMA GetTokenCalls ==
  ASSUME IInv, NEW c \in Caller, GetToken(c)
  PROVE  CallsInv' /\ Exchanges(c, {"command"})
<1> DEFINE r == call[c]
           s == [phase |-> "command"]
<1>1. CallsInv /\ CountInv /\ browser \in BOOLEAN /\ ExchangeInv(r)
  BY DEF IInv, CallsInv
<1>2. /\ r.phase = "token"
      /\ \/ Go(c, With(r, s)) /\ faults' = faults
         \/ (\E result : Ends(c, result)) /\ (faults' = faults \/ faults' = faults + 1)
      /\ UNCHANGED <<browser, model, resets, calls>>
  BY DEF GetToken, In, Hears, Lost, Refused, static
<1>3. CASE Go(c, With(r, s)) /\ faults' = faults
  <2>1. DOMAIN s = {"phase"} /\ s.phase = "command"
    OBVIOUS
  <2>2. Go(c, With(r, s))
    BY <1>3
  <2> HIDE DEF s
  <2>3. ExchangeInv(With(r, s))
    BY <1>1, <1>2, <2>1 DEF With, ExchangeInv, Informed, Prompted, Agreed
  <2>4. s.phase \in {"command"} /\ s.phase \in Phase \ {"idle", "info"} /\ s.phase # "retries"
        /\ DOMAIN s \subseteq Learnt /\ "phase" \in DOMAIN s
    BY <2>1 DEF Phase, Learnt
  <2>5. QED
    BY <1>1, <1>2, <1>3, <2>2, <2>3, <2>4, ExchangeLearns, NoDescription
<1>4. CASE (\E result : Ends(c, result)) /\ (faults' = faults \/ faults' = faults + 1)
  BY <1>1, <1>2, <1>4, ExchangeEnds
<1>5. QED
  BY <1>2, <1>3, <1>4

\* A command ends its call, whatever comes back.
LEMMA CommandEnds ==
  ASSUME NEW c \in Caller,
         MakeCredential(c) \/ GetAssertion(c) \/ NotDelivered(c)
  PROVE  /\ \E result : Ends(c, result)
         /\ UNCHANGED <<browser, model, resets, calls, chosen>>
         /\ faults' = faults \/ faults' = faults + 1
<1>1. ASSUME NEW parsed, StoreGenerated(c, parsed)
      PROVE  \E result : Ends(c, result)
  BY <1>1 DEF StoreGenerated, Refused
<1>2. ASSUME NEW parsed, NEW truth, ReturnSignature(c, parsed, truth)
      PROVE  \E result : Ends(c, result)
  BY <1>2 DEF ReturnSignature, Refused
<1>3. ASSUME NEW status, Refused(c, status)
      PROVE  \E result : Ends(c, result)
  BY <1>3 DEF Refused
<1>4. ASSUME Lost(c)
      PROVE  (\E result : Ends(c, result)) /\ faults' = faults + 1
  BY <1>4 DEF Lost, Refused
<1>5. ASSUME NEW msg, MakeCredentialRaw(c, msg)
      PROVE  (\E result : Ends(c, result)) /\ (faults' = faults \/ faults' = faults + 1)
  BY <1>1, <1>3, <1>4, <1>5 DEF MakeCredentialRaw
<1>6. ASSUME NEW msg, MakeCredentialBrowser(c, msg)
      PROVE  (\E result : Ends(c, result)) /\ faults' = faults
  BY <1>1, <1>3, <1>6 DEF MakeCredentialBrowser
<1>7. ASSUME NEW msg, GetAssertionRaw(c, msg)
      PROVE  (\E result : Ends(c, result)) /\ (faults' = faults \/ faults' = faults + 1)
  BY <1>2, <1>3, <1>4, <1>7 DEF GetAssertionRaw
<1>8. ASSUME NEW msg, GetAssertionBrowser(c, msg)
      PROVE  (\E result : Ends(c, result)) /\ faults' = faults
  BY <1>2, <1>3, <1>8 DEF GetAssertionBrowser
<1>9. CASE MakeCredential(c)
  BY <1>5, <1>6, <1>9 DEF MakeCredential, static
<1>10. CASE GetAssertion(c)
  BY <1>7, <1>8, <1>10 DEF GetAssertion, static
<1>11. CASE NotDelivered(c)
  BY <1>4, <1>11 DEF NotDelivered, static
<1>12. QED
  BY <1>9, <1>10, <1>11

\* Either command ends its call.
LEMMA CommandCalls ==
  ASSUME IInv, NEW c \in Caller,
         MakeCredential(c) \/ GetAssertion(c) \/ NotDelivered(c)
  PROVE  CallsInv' /\ Exchanges(c, {})
<1>1. CallsInv /\ CountInv
  BY DEF IInv
<1>2. QED
  BY <1>1, CommandEnds, ExchangeEnds

\* A new operation has a new number, and a copy of the key it is to use.
Begins(c) ==
  /\ StepOf(c) /\ calls' = calls + 1 /\ calls' <= MaxCalls /\ ~Active(call[c])
  /\ \/ call'[c] = Idle
     \/ /\ Active(call'[c]) /\ call'[c].n = calls'
        /\ call'[c].phase = IF browser THEN "command" ELSE "info"
        /\ Signs(call'[c]) => call'[c].key \in keys

\* A starting call has a number nobody has.
LEMMA Starting ==
  ASSUME CallsInv, CountInv, NEW c \in Caller, Starts(c),
         UNCHANGED <<browser, model, resets, faults>>,
         \/ \E rec : Go(c, rec)
         \/ \E result : Ends(c, result)
  PROVE  StepOf(c) /\ calls' = calls + 1 /\ calls' <= MaxCalls /\ ~Active(call[c])
<1>1. DOMAIN call' = Caller /\ \A d \in Caller : d # c => call'[d] = call[d]
  BY DEF Go, Ends, CallsInv
<1>2. calls' = calls + 1 /\ calls < MaxCalls /\ ~Active(call[c])
  BY DEF Starts, In, Active
<1>3. calls \in Nat /\ faults \in Nat
  BY DEF CountInv
<1>4. QED
  BY <1>1, <1>2, <1>3, Bounds DEF StepOf, static

\* A started call is an operation with its inputs.
LEMMA NewCalls ==
  ASSUME CallsInv, CountInv, browser \in BOOLEAN, NEW c \in Caller, Starts(c),
         UNCHANGED <<browser, model, resets, faults>>,
         NEW rec, Go(c, rec), "pin" \notin DOMAIN rec,
         {"phase", "op", "n"} \subseteq DOMAIN rec,
         rec.op \in {"generate", "sign", "describe"}, rec.n = calls',
         rec.phase = IF browser THEN "command" ELSE "info",
         rec.op = "describe" => ~browser,
         InputInv(rec), Signs(rec) => rec.key \in keys
  PROVE  CallsInv' /\ Begins(c)
<1>1. StepOf(c) /\ calls' = calls + 1 /\ calls' <= MaxCalls /\ ~Active(call[c])
  BY Starting
<1>2. call'[c] = rec
  BY DEF Go, CallsInv
<1>3. Active(rec) /\ rec.phase \in Phase /\ browser' = browser /\ model' = model /\ resets' = resets
  BY DEF Active, Phase
<1>4. calls \in Nat /\ calls' \in 1 .. calls'
  BY <1>1 DEF CountInv
<1>5. OperationInv(call[c])'
  <2>1. /\ rec.phase \in Phase /\ rec.n \in 1 .. calls'
        /\ browser' => rec.phase = "command"
        /\ rec.phase # "retries"
        /\ rec.op = "describe" => rec.phase = "info"
    BY <1>3, <1>4
  <2>2. QED
    BY <1>2, <2>1 DEF OperationInv
<1>6. InputInv(call[c])'
  BY <1>2, <1>3 DEF InputInv, Generates, Signs, Active, MayBeFresh
<1>7. ExchangeInv(call[c])'
  <2>1. ~browser' => rec.phase \notin Informed
    BY <1>3 DEF Informed
  <2>2. "pin" \notin DOMAIN rec
    OBVIOUS
  <2>3. QED
    BY <1>2, <2>1, <2>2 DEF ExchangeInv, Informed, Prompted, Agreed
<1>8. call'[c].n > calls
  BY <1>1, <1>2, <1>4
<1>9. CallsInv'
  BY <1>1, <1>5, <1>6, <1>7, <1>8, CallsKept
<1>10. QED
  BY <1>1, <1>2, <1>3, <1>9 DEF Begins

\* The three operations start as such a call.
LEMMA StartGenerateCalls ==
  ASSUME IInv, NEW c \in Caller, NEW algs \in Algs, StartGenerate(c, algs)
  PROVE  CallsInv' /\ Begins(c)
<1> DEFINE rec == [op |-> "generate", n |-> calls', algs |-> algs, since |-> resets,
                   phase |-> IF browser THEN "command" ELSE "info"]
<1>1. /\ CallsInv /\ CountInv /\ browser \in BOOLEAN /\ resets \in 0 .. resets
      /\ Starts(c) /\ Go(c, rec)
      /\ UNCHANGED <<browser, model, resets, faults>>
  BY DEF IInv, CountInv, StartGenerate, static
<1>2. /\ DOMAIN rec = {"op", "n", "algs", "since", "phase"}
      /\ rec.op = "generate" /\ rec.n = calls' /\ rec.algs = algs /\ rec.since = resets
      /\ rec.phase = IF browser THEN "command" ELSE "info"
  OBVIOUS
<1> HIDE DEF rec
<1>3. InputInv(rec) /\ ~Signs(rec)
  BY <1>1, <1>2 DEF InputInv, Generates, Signs
<1>4. QED
  BY <1>1, <1>2, <1>3, NewCalls

\* A signature starts with a copy of its key.
LEMMA StartSignCalls ==
  ASSUME IInv, NEW c \in Caller, NEW key \in keys, NEW data \in Data,
         NEW fresh \in BOOLEAN, NEW host \in HostFactor \cup {None},
         StartSign(c, key, data, fresh, host)
  PROVE  CallsInv' /\ Begins(c)
<1> DEFINE rec == [op |-> "sign", n |-> calls', key |-> key, data |-> data,
                   fresh |-> fresh, host |-> host,
                   phase |-> IF browser THEN "command" ELSE "info"]
<1>1. /\ CallsInv /\ CountInv /\ browser \in BOOLEAN
      /\ Starts(c)
      /\ UNCHANGED <<browser, model, resets, faults>>
      /\ \/ /\ Validate(host) /\ MayBeFresh(fresh) /\ ToBeSigned(key, data) # Fail
            /\ Go(c, rec)
         \/ Ends(c, Nothing)
  BY DEF IInv, StartSign, static
<1>2. /\ DOMAIN rec = {"op", "n", "key", "data", "fresh", "host", "phase"}
      /\ rec.op = "sign" /\ rec.n = calls' /\ rec.key = key /\ rec.data = data
      /\ rec.fresh = fresh /\ rec.host = host
      /\ rec.phase = IF browser THEN "command" ELSE "info"
  OBVIOUS
<1> HIDE DEF rec
<1>3. CASE Validate(host) /\ MayBeFresh(fresh) /\ ToBeSigned(key, data) # Fail /\ Go(c, rec)
  <2>1. InputInv(rec)
    BY <1>2, <1>3 DEF InputInv, Generates, Signs
  <2>2. QED
    BY <1>1, <1>2, <1>3, <2>1, NewCalls
<1>4. CASE Ends(c, Nothing)
  <2>1. StepOf(c) /\ calls' = calls + 1 /\ calls' <= MaxCalls /\ ~Active(call[c])
    BY <1>1, <1>4, Starting
  <2>2. call'[c] = Idle
    BY <1>1, <1>4 DEF Ends, CallsInv
  <2>3. QED
    BY <1>1, <2>1, <2>2, EndKeeps DEF Begins
<1>5. QED
  BY <1>1, <1>3, <1>4

\* A description needs no inputs.
LEMMA StartDescribeCalls ==
  ASSUME IInv, NEW c \in Caller, StartDescribe(c)
  PROVE  CallsInv' /\ Begins(c)
<1> DEFINE rec == [op |-> "describe", n |-> calls', phase |-> "info"]
<1>1. /\ CallsInv /\ CountInv /\ browser \in BOOLEAN /\ ~browser
      /\ Starts(c) /\ Go(c, rec)
      /\ UNCHANGED <<browser, model, resets, faults>>
  BY DEF IInv, StartDescribe, static
<1>2. /\ DOMAIN rec = {"op", "n", "phase"}
      /\ rec.op = "describe" /\ rec.n = calls' /\ rec.phase = "info"
  OBVIOUS
<1> HIDE DEF rec
<1>3. InputInv(rec) /\ ~Signs(rec)
  BY <1>2 DEF InputInv, Generates, Signs
<1>4. QED
  BY <1>1, <1>2, <1>3, NewCalls

-----------------------------------------------------------------------------
(* What a step of a call leaves intact.                                    *)

\* A step of a call, as its caller sees it.
Proceeds(c) == Exchanges(c, Phase) \/ Begins(c)

\* Every phase of an exchange is a phase.
LEMMA SomePhase ==
  ASSUME NEW c \in Caller, NEW phases \in SUBSET Phase, Exchanges(c, phases)
  PROVE  Exchanges(c, Phase)
BY DEF Exchanges

\* The record of a key stays true: credentials are only added, each with a
\* number no record has yet.
LEMMA KeyKept ==
  ASSUME NEW k, KeyInv(k), UNCHANGED <<browser, model>>,
         dev.made \in Nat, dev'.made \in Nat, dev.made <= dev'.made,
         \A d \in dev'.creds : d \in dev.creds \/ d.id = dev.made + 1
  PROVE  KeyInv(k)'
<1>1. k.credential \in 1 .. dev.made /\ k.credential \in 1 .. dev'.made
  BY DEF KeyInv
<1>2. DerivesFrom(k, k.attestation[2].cose)'
  BY DEF KeyInv, DerivesFrom, Cose
<1>3. \A d \in dev'.creds : d.id = k.credential => d.cose = k.attestation[2].cose
  BY <1>1 DEF KeyInv
<1>4. QED
  BY <1>1, <1>2, <1>3 DEF KeyInv

\* Copies of keys outlive what happens to their records.
LEMMA CopiesKept ==
  ASSUME CopiesInv, KeysInv, NEW c \in Caller, Proceeds(c),
         \A k : KeyInv(k) => KeyInv(k)'
  PROVE  CopiesInv'
<1>1. \A d \in Caller : d # c => call'[d] = call[d]
  BY DEF Proceeds, Exchanges, Begins, StepOf
<1>2. ASSUME Signs(call'[c])
      PROVE  KeyInv(call'[c].key)
  <2>1. call'[c] # Idle
    BY <1>2 DEF Signs, Active, Idle
  <2>2. CASE Exchanges(c, Phase)
    <3>1. Signs(call[c]) /\ call'[c].key = call[c].key
      BY <1>2, <2>1, <2>2 DEF Exchanges, GoesOn, Signs
    <3>2. QED
      BY <3>1 DEF CopiesInv
  <2>3. CASE Begins(c)
    BY <1>2, <2>1, <2>3 DEF Begins, KeysInv
  <2>4. QED
    BY <2>2, <2>3 DEF Proceeds
<1>3. \A d \in Caller : Signs(call'[d]) => KeyInv(call'[d].key)
  BY <1>1, <1>2 DEF CopiesInv
<1>4. \A d \in Caller : Signs(call'[d]) => KeyInv(call[d].key)'
  BY <1>3
<1>5. QED
  BY <1>4 DEF CopiesInv, Signs, Active

\* A token stays with the call it was granted to.
LEMMA TokenKept ==
  ASSUME CallsInv, CountInv, TokenInv, NEW c \in Caller, Proceeds(c),
         dev'.token = dev.token \/ dev'.token = None,
         Exchanges(c, Phase) => call'[c] = Idle \/ call[c].phase # "command"
  PROVE  TokenInv'
<1> SUFFICES ASSUME dev'.token # None
             PROVE  /\ ~model'.force
                    /\ dev'.token.id \in 1 .. calls'
                    /\ \A d \in Caller :
                         Active(call'[d]) /\ call'[d].n = dev'.token.id =>
                           /\ call'[d].phase = "command"
                           /\ dev'.token.perms = Permission(call'[d].op)
                           /\ dev'.token.rp = RawRp
  BY DEF TokenInv, Active
<1>1. dev'.token = dev.token /\ dev.token # None
  OBVIOUS
<1>2. model' = model /\ calls \in Nat /\ calls' \in Nat /\ calls <= calls'
      /\ \A d \in Caller : d # c => call'[d] = call[d]
  BY DEF Proceeds, Exchanges, Begins, StepOf, static, CountInv
<1>3. dev.token.id \in 1 .. calls
  BY <1>1 DEF TokenInv
<1>4. ~(Active(call'[c]) /\ call'[c].n = dev.token.id)
  <2>1. CASE Exchanges(c, Phase)
    BY <1>1, <2>1 DEF TokenInv, Exchanges, GoesOn, Active, Idle
  <2>2. CASE Begins(c)
    BY <1>2, <1>3, <2>2 DEF Begins, Active, Idle
  <2>3. QED
    BY <2>1, <2>2 DEF Proceeds
<1>5. QED
  BY <1>1, <1>2, <1>3, <1>4 DEF TokenInv

\* A call that goes on made a promise before, or has made none yet.
LEMMA MakingKept ==
  ASSUME NEW c \in Caller, Proceeds(c)
  PROVE  \/ calls' = calls /\ Making' \subseteq Making
         \/ calls' = calls + 1 /\ Making' \subseteq Making \cup {c}
<1>1. \A d \in Caller : d # c => call'[d] = call[d]
  BY DEF Proceeds, Exchanges, Begins, StepOf
<1>2. CASE Exchanges(c, Phase)
  BY <1>1, <1>2 DEF Exchanges, GoesOn, Making, Generates, Active, Idle
<1>3. CASE Begins(c)
  BY <1>1, <1>3 DEF Begins, Making, Generates, Active
<1>4. QED
  BY <1>2, <1>3 DEF Proceeds

\* The credentials made are no more than the calls begun.
LEMMA CountKept ==
  ASSUME CountInv, dev.made \in Nat, NEW c \in Caller, Proceeds(c),
         dev'.made = dev.made,
         faults' \in 0 .. MaxFaults
  PROVE  CountInv'
<1>1. calls \in 0 .. MaxCalls /\ IsFiniteSet(Making) /\ dev.made + Cardinality(Making) <= calls
  BY DEF CountInv
<1>2. resets' \in Nat
  <2>1. resets' = resets
    BY DEF Proceeds, Exchanges, Begins, StepOf, static
  <2>2. QED
    BY <2>1 DEF CountInv
<1>3. MaxCalls \in Nat
  BY Bounds
<1>4. Cardinality(Making) \in Nat
  BY <1>1, FS_CardinalityType
<1>5. CASE calls' = calls /\ Making' \subseteq Making
  <2>1. IsFiniteSet(Making') /\ Cardinality(Making') <= Cardinality(Making)
    BY <1>1, <1>5, FS_Subset
  <2>2. Cardinality(Making') \in Nat
    BY <2>1, FS_CardinalityType
  <2>3. QED
    BY <1>1, <1>2, <1>3, <1>4, <1>5, <2>1, <2>2 DEF CountInv
<1>6. CASE calls' = calls + 1 /\ Making' \subseteq Making \cup {c}
  <2>1. IsFiniteSet(Making \cup {c}) /\ Cardinality(Making \cup {c}) <= Cardinality(Making) + 1
    <3>1. /\ IsFiniteSet(Making \cup {c})
          /\ \/ Cardinality(Making \cup {c}) = Cardinality(Making)
             \/ Cardinality(Making \cup {c}) = Cardinality(Making) + 1
      BY <1>1, FS_AddElement
    <3>2. QED
      BY <1>4, <3>1
  <2>2. IsFiniteSet(Making') /\ Cardinality(Making') <= Cardinality(Making \cup {c})
    BY <1>6, <2>1, FS_Subset
  <2>3. Cardinality(Making') \in Nat /\ Cardinality(Making \cup {c}) \in Nat
    BY <2>1, <2>2, FS_CardinalityType
  <2>4. calls' <= MaxCalls
    BY <1>1, <1>6 DEF Proceeds, Begins, Exchanges
  <2>5. QED
    BY <1>1, <1>2, <1>3, <1>4, <1>6, <2>1, <2>2, <2>3, <2>4 DEF CountInv
<1>7. QED
  BY <1>5, <1>6, MakingKept

\* Why an enrolment cannot succeed does not go away.
LEMMA FitsKept ==
  ASSUME CallsInv, CountInv, FitsInv, browser \in BOOLEAN,
         NEW c \in Caller, Proceeds(c),
         Hopeless => Hopeless',
         FitInv(call[c])'
  PROVE  FitsInv'
<1>1. /\ UNCHANGED <<browser, model, resets>>
      /\ \A d \in Caller : d # c => call'[d] = call[d]
  BY DEF Proceeds, Exchanges, Begins, StepOf, static, CountInv
<1>2. ASSUME NEW d \in Caller, d # c
      PROVE  FitInv(call[d])'
  <2>1. call'[d] = call[d] /\ FitInv(call[d])
    BY <1>1, <1>2 DEF FitsInv
  <2>2. QED
    BY <1>1, <2>1 DEF FitInv, Generates, Active
<1>3. QED
  BY <1>2 DEF FitsInv

\* Nothing hopeless is said of a call that has ended or just begun.
LEMMA FitSilent ==
  ASSUME NEW c \in Caller, browser \in BOOLEAN, UNCHANGED browser,
         call'[c] = Idle \/ Begins(c)
  PROVE  FitInv(call[c])'
<1>1. CASE call'[c] = Idle
  BY <1>1 DEF FitInv, Generates, Active, Idle
<1>2. CASE call'[c] # Idle /\ Begins(c)
  <2>1. browser' \/ call'[c].phase = "info"
    BY <1>2 DEF Begins
  <2>2. QED
    BY <2>1 DEF FitInv, Informed
<1>3. QED
  BY <1>1, <1>2

\* What was found of the authenticator at first is remembered until its token
\* is granted.
LEMMA FitRemembered ==
  ASSUME CallsInv, CountInv, FitsInv, browser \in BOOLEAN,
         NEW c \in Caller, Exchanges(c, Phase),
         call[c].phase \in Informed \ {"command"},
         call'[c] # Idle => call'[c].phase # "command" /\ call'[c].fit = call[c].fit,
         Hopeless => Hopeless'
  PROVE  FitInv(call[c])'
<1>1. UNCHANGED <<browser, model, resets>>
  BY DEF Exchanges, StepOf, static
<1>2. CASE call'[c] = Idle
  BY <1>1, <1>2, FitSilent
<1>3. CASE call'[c] # Idle
  <2>1. /\ GoesOn(c) /\ call'[c].fit = call[c].fit /\ call'[c].phase # "command"
    BY <1>3 DEF Exchanges
  <2>2. Generates(call'[c]) => Generates(call[c]) /\ call'[c].since = call[c].since
    BY <2>1 DEF GoesOn, Generates
  <2>3. ASSUME Generates(call'[c]), ~browser, ~call'[c].fit, call'[c].since = resets'
        PROVE  Hopeless'
    <3>1. Generates(call[c]) /\ ~call[c].fit /\ call[c].since = resets
      BY <1>1, <2>1, <2>2, <2>3
    <3>2. Hopeless
      BY <2>3, <3>1 DEF FitsInv, FitInv
    <3>3. QED
      BY <3>2
  <2>4. QED
    BY <1>1, <2>1, <2>3 DEF FitInv, Generates, Active
<1>4. QED
  BY <1>2, <1>3

\* A step of a call that makes no credential and no key.
LEMMA ExchangeKeeps ==
  ASSUME IInv, NEW c \in Caller, Proceeds(c), CallsInv',
         UNCHANGED keys, dev'.made = dev.made, dev'.creds \subseteq dev.creds,
         faults' \in 0 .. MaxFaults,
         DeviceInv', PinInv', TokenInv',
         Hopeless => Hopeless',
         FitInv(call[c])'
  PROVE  IInv'
<1>1. /\ browser \in BOOLEAN /\ model \in Model /\ CountInv /\ CallsInv
      /\ FitsInv /\ KeysInv /\ CopiesInv /\ dev.made \in Nat
  BY DEF IInv, DeviceInv
<1>2. UNCHANGED <<browser, model, resets>>
  BY DEF Proceeds, Exchanges, Begins, StepOf, static
<1>3. \A k : KeyInv(k) => KeyInv(k)'
  BY <1>1, <1>2, KeyKept
<1>4. KeysInv'
  BY <1>1, <1>3 DEF KeysInv
<1>5. CopiesInv'
  BY <1>1, <1>3, CopiesKept
<1>6. CountInv'
  BY <1>1, CountKept
<1>7. FitsInv'
  BY <1>1, FitsKept
<1>8. QED
  BY <1>1, <1>2, <1>4, <1>5, <1>6, <1>7 DEF IInv

\* A step that concerns one call only.
LEMMA QuietKeeps ==
  ASSUME IInv, NEW c \in Caller, Proceeds(c), CallsInv',
         UNCHANGED <<dev, keys, chosen>>,
         faults' \in 0 .. MaxFaults,
         Exchanges(c, Phase) => call'[c] = Idle \/ call[c].phase # "command",
         FitInv(call[c])'
  PROVE  IInv'
<1>1. /\ browser \in BOOLEAN /\ model \in Model /\ CountInv /\ CallsInv /\ DeviceInv
      /\ PinInv /\ TokenInv
  BY DEF IInv
<1>2. UNCHANGED <<browser, model, resets>>
  BY DEF Proceeds, Exchanges, Begins, StepOf, static
<1>3. DeviceInv'
  BY <1>1, <1>2 DEF DeviceInv
<1>4. PinInv'
  BY <1>1, <1>2 DEF PinInv
<1>5. TokenInv'
  BY <1>1, TokenKept
<1>6. Hopeless => Hopeless'
  BY <1>2 DEF Hopeless
<1>7. QED
  BY <1>3, <1>4, <1>5, <1>6, ExchangeKeeps

-----------------------------------------------------------------------------
(* Every step keeps the invariant.                                         *)

\* Starting a call keeps the invariant.
LEMMA StartStep ==
  ASSUME IInv, NEW c \in Caller, Begins(c), CallsInv',
         UNCHANGED <<dev, keys, chosen, faults>>
  PROVE  IInv'
<1>1. Proceeds(c) /\ browser \in BOOLEAN /\ UNCHANGED browser /\ faults' \in 0 .. MaxFaults
  BY DEF Proceeds, IInv, Begins, StepOf, static, CountInv
<1>2. FitInv(call[c])'
  BY <1>1, FitSilent
<1>3. Exchanges(c, Phase) => call'[c] = Idle \/ call[c].phase # "command"
  BY DEF Begins, Exchanges, CountInv, IInv
<1>4. QED
  BY <1>1, <1>2, <1>3, QuietKeeps

\* So does ending one with nothing else changed.
LEMMA EndStepKeeps ==
  ASSUME IInv, NEW c \in Caller, Exchanges(c, {}), CallsInv',
         UNCHANGED <<dev, keys, chosen>>, faults' \in 0 .. MaxFaults
  PROVE  IInv'
<1>1. /\ call'[c] = Idle /\ Exchanges(c, Phase) /\ Proceeds(c)
      /\ browser \in BOOLEAN /\ UNCHANGED browser
  BY DEF Exchanges, Proceeds, IInv, StepOf, static
<1>2. FitInv(call[c])'
  BY <1>1, FitSilent
<1>3. QED
  BY <1>1, <1>2, QuietKeeps

\* One lemma per action.
LEMMA GetRetriesStep ==
  ASSUME IInv, NEW c \in Caller, GetRetries(c)
  PROVE  IInv'
<1>1. UNCHANGED <<dev, keys, chosen>> /\ faults' = faults
  BY DEF GetRetries
<1>2. QED
  BY <1>1, GetRetriesCalls, EndStepKeeps DEF IInv, CountInv

\* No answer, no attempt.
LEMMA CancelStep ==
  ASSUME IInv, NEW c \in Caller, Cancel(c)
  PROVE  IInv'
<1>1. UNCHANGED <<dev, keys, chosen>> /\ faults' = faults
  BY DEF Cancel
<1>2. QED
  BY <1>1, CancelCalls, EndStepKeeps DEF IInv, CountInv

\* A command that does not arrive changes its call only.
LEMMA NotDeliveredStep ==
  ASSUME IInv, NEW c \in Caller, NotDelivered(c)
  PROVE  IInv'
<1>1. UNCHANGED <<dev, keys, chosen>> /\ faults' \in 0 .. MaxFaults
  BY Bounds DEF NotDelivered, Lost, IInv, CountInv
<1>2. QED
  BY <1>1, CommandCalls, EndStepKeeps

\* The prompt's answer fixes the PIN of the call.
LEMMA AnswerStep ==
  ASSUME IInv, NEW c \in Caller, NEW p \in Entry, Answer(c, p)
  PROVE  IInv'
<1> DEFINE r == call[c]
           s == [phase |-> IF r.new THEN "agree to set" ELSE "agree",
                 typed |-> p, pin |-> NormalizePin(p)]
<1>1. /\ CallsInv /\ CountInv /\ FitsInv /\ browser \in BOOLEAN /\ ExchangeInv(r)
      /\ faults \in 0 .. MaxFaults
  BY DEF IInv, CallsInv, CountInv
<1>2. CallsInv' /\ Exchanges(c, {"agree to set", "agree"})
  BY AnswerCalls
<1>3. /\ r.phase = "ask" /\ UNCHANGED <<dev, keys, chosen, faults>>
      /\ Go(c, With(r, s)) \/ \E result : Ends(c, result)
  BY DEF Answer, In, Refused
<1>4. Exchanges(c, Phase) /\ Proceeds(c) /\ UNCHANGED model
  BY <1>2 DEF Exchanges, Proceeds, Phase, StepOf, static
<1>5. call'[c] # Idle => call'[c].fit = r.fit
  <2>1. CASE Go(c, With(r, s))
    <3>1. call'[c] = With(r, s)
      BY <1>1, <2>1 DEF Go, CallsInv
    <3>2. "fit" \notin DOMAIN s
      OBVIOUS
    <3>3. "fit" \in DOMAIN r
      <4>1. ~browser
        BY <1>1, <1>3, RawExchange
      <4>2. QED
        BY <1>1, <1>3, <4>1 DEF ExchangeInv, Informed
    <3> HIDE DEF s
    <3>4. QED
      BY <3>1, <3>2, <3>3 DEF With
  <2>2. CASE \E result : Ends(c, result)
    BY <1>1, <2>2 DEF Ends, CallsInv
  <2>3. QED
    BY <1>3, <2>1, <2>2
<1>6. Hopeless => Hopeless'
  BY <1>3, <1>4 DEF Hopeless
<1>7. FitInv(call[c])'
  <2>1. call'[c] # Idle => call'[c].phase # "command" /\ call'[c].fit = call[c].fit
    BY <1>2, <1>5 DEF Exchanges
  <2>2. call[c].phase \in Informed \ {"command"}
    BY <1>3 DEF Informed
  <2>3. QED
    BY <1>1, <1>4, <1>6, <2>1, <2>2, FitRemembered
<1>8. QED
  BY <1>1, <1>2, <1>3, <1>4, <1>7, QuietKeeps

\* A key agreement shows that the authenticator has PINs.
LEMMA KeyAgreementStep ==
  ASSUME IInv, NEW c \in Caller, KeyAgreement(c)
  PROVE  IInv'
<1> DEFINE r == call[c]
           s == [phase |-> IF r.phase = "agree" THEN "token" ELSE "set",
                 agreed |-> dev.agreement]
<1>1. /\ CallsInv /\ CountInv /\ FitsInv /\ browser \in BOOLEAN /\ ExchangeInv(r)
      /\ faults \in 0 .. MaxFaults
  BY DEF IInv, CallsInv, CountInv
<1>2. CallsInv' /\ Exchanges(c, {"set", "token"})
  BY KeyAgreementCalls DEF Exchanges
<1>3. /\ r.phase \in {"agree to set", "agree"} /\ UNCHANGED <<dev, keys, chosen, faults>>
      /\ Go(c, With(r, s)) \/ \E result : Ends(c, result)
  BY DEF KeyAgreement, In, Refused
<1>4. Exchanges(c, Phase) /\ Proceeds(c) /\ UNCHANGED model
  BY <1>2 DEF Exchanges, Proceeds, Phase, StepOf, static
<1>5. call'[c] # Idle => call'[c].fit = r.fit
  <2>1. CASE Go(c, With(r, s))
    <3>1. call'[c] = With(r, s)
      BY <1>1, <2>1 DEF Go, CallsInv
    <3>2. "fit" \notin DOMAIN s
      OBVIOUS
    <3>3. "fit" \in DOMAIN r
      <4>1. ~browser
        BY <1>1, <1>3, RawExchange
      <4>2. QED
        BY <1>1, <1>3, <4>1 DEF ExchangeInv, Informed
    <3> HIDE DEF s
    <3>4. QED
      BY <3>1, <3>2, <3>3 DEF With
  <2>2. CASE \E result : Ends(c, result)
    BY <1>1, <2>2 DEF Ends, CallsInv
  <2>3. QED
    BY <1>3, <2>1, <2>2
<1>6. Hopeless => Hopeless'
  BY <1>3, <1>4 DEF Hopeless
<1>7. FitInv(call[c])'
  <2>1. call'[c] # Idle => call'[c].phase # "command" /\ call'[c].fit = call[c].fit
    BY <1>2, <1>5 DEF Exchanges
  <2>2. call[c].phase \in Informed \ {"command"}
    BY <1>3 DEF Informed
  <2>3. QED
    BY <1>1, <1>4, <1>6, <2>1, <2>2, FitRemembered
<1>8. QED
  BY <1>1, <1>2, <1>3, <1>4, <1>7, QuietKeeps

\* Why an authenticator that getInfo shows is unsuitable.
LEMMA UnsuitableIsHopeless ==
  ASSUME ~browser,
         ~Suitable(ParseGetInfo(GetInfoBody),
                   IF ParsePinInfo(GetInfoBody).state = "set" THEN dev.retries ELSE -1, browser)
  PROVE  Hopeless
<1> DEFINE seen == ParseGetInfo(GetInfoBody)
           retries == IF ParsePinInfo(GetInfoBody).state = "set" THEN dev.retries ELSE -1
<1>1. /\ "previewSign" \in seen.extensions <=> model.ext
      /\ seen.state = PinState /\ seen.force = model.force /\ seen.protocols = model.protocols
      /\ retries = IF PinState = "set" THEN dev.retries ELSE -1
  BY InfoRead
<1> HIDE DEF seen, retries
<1>2. ~Suitable(seen, retries, browser)
  BY DEF seen, retries
<1>3. \/ ~model.ext \/ PinState = "unsupported" \/ model.force \/ retries = 0
      \/ /\ model.protocols # <<>>
         /\ \A i \in DOMAIN model.protocols : model.protocols[i] \notin {1, 2}
  BY <1>1, <1>2 DEF Suitable
<1>4. PinState = "unsupported" => ~model.clientPin
  BY DEF PinState
<1>5. retries = 0 => dev.pin # None /\ dev.retries = 0
  BY <1>1 DEF PinState
<1>6. QED
  BY <1>3, <1>4, <1>5 DEF Hopeless

\* getInfo decides whether the enrolment is hopeless.
LEMMA GetInfoStep ==
  ASSUME IInv, NEW c \in Caller, GetInfo(c)
  PROVE  IInv'
<1> DEFINE r == call[c]
           info == ParsePinInfo(GetInfoBody)
           fit == Suitable(ParseGetInfo(GetInfoBody),
                           IF info.state = "set" THEN dev.retries ELSE -1, browser)
           s == [phase |-> "ask", new |-> info.state = "not_set", protocol |-> info.protocol,
                 min |-> info.min, fit |-> fit]
<1>1. /\ CallsInv /\ CountInv /\ browser \in BOOLEAN /\ faults \in 0 .. MaxFaults
  BY DEF IInv, CountInv
<1>2. CallsInv' /\ Exchanges(c, {"retries", "ask"})
  BY GetInfoCalls
<1>3. /\ r.phase = "info" /\ UNCHANGED <<dev, keys, chosen, faults>>
      /\ \/ r.op = "describe" /\ \E t : Go(c, t)
         \/ \E result : Ends(c, result)
         \/ Go(c, With(r, s))
  BY DEF GetInfo, In
<1>4. Exchanges(c, Phase) /\ Proceeds(c) /\ UNCHANGED <<browser, model, resets>>
  BY <1>2 DEF Exchanges, Proceeds, Phase, StepOf, static
<1>5. FitInv(call[c])'
  <2>1. CASE r.op = "describe" \/ call'[c] = Idle
    BY <1>4, <2>1 DEF FitInv, Generates, Exchanges, GoesOn, Active, Idle
  <2>2. CASE Go(c, With(r, s))
    <3>1. call'[c] = With(r, s)
      BY <1>1, <2>2 DEF Go, CallsInv
    <3>2. call'[c].fit = fit /\ call'[c].phase = "ask"
      <4>1. "fit" \in DOMAIN s /\ s.fit = fit /\ "phase" \in DOMAIN s /\ s.phase = "ask"
        OBVIOUS
      <4> HIDE DEF s, fit
      <4>2. QED
        BY <3>1, <4>1 DEF With
    <3> HIDE DEF s
    <3>3. ~browser /\ ~fit => Hopeless'
      <4>1. ~browser /\ ~fit => Hopeless
        BY UnsuitableIsHopeless
      <4>2. QED
        BY <1>3, <1>4, <4>1 DEF Hopeless
    <3> HIDE DEF fit
    <3>4. QED
      BY <1>4, <3>2, <3>3 DEF FitInv
  <2>3. CASE \E result : Ends(c, result)
    BY <1>1, <2>1, <2>3 DEF Ends, CallsInv
  <2>4. QED
    BY <1>3, <2>1, <2>2, <2>3
<1>6. QED
  BY <1>1, <1>2, <1>3, <1>4, <1>5, QuietKeeps

\* The PIN a call brings along is what its user typed, composed and without a
\* NUL, so that an authenticator stores all of it.
LEMMA PinOfCall ==
  ASSUME NEW r, ExchangeInv(r), "pin" \in DOMAIN r
  PROVE  /\ r.typed \in Entry /\ r.pin = NormalizePin(r.typed) /\ ~r.pin.nul
         /\ r.pin \in Pin /\ r.pin.marks = 0 /\ Stored(r.pin) = r.pin
<1>1. r.typed \in Entry /\ ~r.typed.nul /\ r.pin = NormalizePin(r.typed)
  BY DEF ExchangeInv
<1>2. r.typed \in Pin
  BY <1>1, CeremonyAssumption
<1>3. r.pin.nul = r.typed.nul /\ r.pin \in Pin /\ r.pin.marks = 0
  BY <1>1, <1>2, PinsAreNormal
<1>4. QED
  BY <1>1, <1>3 DEF Stored

\* setPIN: the authenticator's PIN and the one its owner knows change together.
LEMMA SetPinStep ==
  ASSUME IInv, NEW c \in Caller, SetPin(c)
  PROVE  IInv'
<1> DEFINE r == call[c]
           refusal == dev.pin # None \/ Decrypt(dev.agreement, Encrypt(r.agreed, r.pin)) = <<>>
           set == [dev EXCEPT !.pin = Stored(r.pin), !.retries = MaxRetries,
                              !.consecutive = 0, !.token = None]
           s == [phase |-> "agree"]
<1>1. /\ CallsInv /\ CountInv /\ FitsInv /\ DeviceInv /\ PinInv /\ TokenInv
      /\ browser \in BOOLEAN /\ ExchangeInv(r) /\ faults \in 0 .. MaxFaults
  BY DEF IInv, CallsInv, CountInv
<1>2. CallsInv' /\ Exchanges(c, {"agree"})
  BY SetPinCalls
<1>3. /\ r.phase = "set" /\ keys' = keys
      /\ \/ Go(c, With(r, s)) /\ faults' = faults
         \/ (\E result : Ends(c, result)) /\ faults' \in 0 .. MaxFaults
      /\ \/ dev' = dev /\ chosen' = chosen
         \/ ~refusal /\ dev' = set /\ chosen' = r.typed.name
  BY <1>1, Bounds DEF SetPin, In, Hears, Lost, Refused, CountInv
<1> HIDE DEF set, refusal
<1>4. /\ Exchanges(c, Phase) /\ Proceeds(c)
      /\ UNCHANGED <<browser, model, resets>> /\ faults' \in 0 .. MaxFaults
  BY <1>1, <1>2, <1>3 DEF Exchanges, Proceeds, Phase, StepOf, static
<1>5. ~browser /\ "pin" \in DOMAIN r /\ "fit" \in DOMAIN r /\ Speaks(r.protocol)
  <2>1. ~browser
    BY <1>1, <1>3, RawExchange
  <2>2. QED
    BY <1>1, <1>3, <2>1 DEF ExchangeInv, Informed, Prompted, Agreed
<1>6. call'[c] # Idle => call'[c].fit = r.fit
  <2>1. CASE Go(c, With(r, s))
    <3>1. call'[c] = With(r, s) /\ "fit" \notin DOMAIN s
      BY <1>1, <2>1 DEF Go, CallsInv
    <3> HIDE DEF s
    <3>2. QED
      BY <3>1, <1>5 DEF With
  <2>2. CASE \E result : Ends(c, result)
    BY <1>1, <2>2 DEF Ends, CallsInv
  <2>3. QED
    BY <1>3, <2>1, <2>2
<1>7. Hopeless => Hopeless'
  <2>1. CASE dev' = dev
    BY <1>4, <2>1 DEF Hopeless
  <2>2. CASE ~refusal
    BY <1>4, <2>2 DEF Hopeless, refusal
  <2>3. QED
    BY <1>3, <2>1, <2>2
<1>8. FitInv(call[c])'
  <2>1. call'[c] # Idle => call'[c].phase # "command" /\ call'[c].fit = call[c].fit
    BY <1>2, <1>6 DEF Exchanges
  <2>2. call[c].phase \in Informed \ {"command"}
    BY <1>3 DEF Informed
  <2>3. QED
    BY <1>1, <1>4, <1>7, <2>1, <2>2, FitRemembered
<1>9. CASE dev' = dev /\ chosen' = chosen
  BY <1>1, <1>2, <1>3, <1>4, <1>8, <1>9, QuietKeeps
<1>10. CASE dev' = set /\ chosen' = r.typed.name
  <2>1. /\ DOMAIN dev' = DOMAIN dev
        /\ dev'.pin = r.pin /\ dev'.retries = MaxRetries /\ dev'.consecutive = 0
        /\ dev'.token = None /\ dev'.agreement = dev.agreement
        /\ dev'.creds = dev.creds /\ dev'.made = dev.made
    <3>1. Stored(r.pin) = r.pin
      BY <1>1, <1>5, PinOfCall
    <3>2. QED
      BY <1>1, <1>10, <3>1 DEF set, DeviceInv
  <2>2. DeviceInv'
    BY <1>1, <1>4, <2>1, Bounds DEF DeviceInv
  <2>3. PinInv'
    <3>1. r.typed \in Entry /\ r.pin = NormalizePin(r.typed)
      BY <1>1, <1>5, PinOfCall
    <3>2. model'.clientPin
      BY <1>4, <1>5 DEF Speaks
    <3>3. QED
      BY <1>10, <2>1, <3>1, <3>2 DEF PinInv
  <2>4. TokenInv'
    BY <2>1 DEF TokenInv
  <2>5. QED
    BY <1>2, <1>3, <1>4, <1>7, <1>8, <2>1, <2>2, <2>3, <2>4, ExchangeKeeps
<1>11. QED
  BY <1>3, <1>9, <1>10

\* Why a token may have been granted although an authenticator is unsuitable:
\* for want of the extension, which nobody has asked for yet.
LEMMA GrantedToken ==
  ASSUME PinInv, TokenRefusal = 0, Speaks(PinProtocol(model.protocols)), Hopeless
  PROVE  ~model.ext
<1>1. dev.pin # None /\ dev.retries # 0 /\ ~model.force
  BY DEF TokenRefusal
<1>2. model.clientPin
  BY DEF Speaks
<1>3. CASE /\ model.protocols # <<>>
           /\ \A i \in DOMAIN model.protocols : model.protocols[i] \notin {1, 2}
  <2>1. PinProtocol(model.protocols) = 1
    BY <1>3 DEF PinProtocol
  <2>2. QED
    BY <1>3, <2>1 DEF Speaks
<1>4. QED
  BY <1>1, <1>2, <1>3 DEF Hopeless

\* A token goes to the call that asked for it, or one attempt is spent.
LEMMA GetTokenStep ==
  ASSUME IInv, NEW c \in Caller, GetToken(c)
  PROVE  IInv'
<1> DEFINE r == call[c]
           status == IF TokenRefusal # 0 THEN TokenRefusal
                     ELSE IF Mismatch(TokenRequest(c)) THEN 49 ELSE 0
           token == [id |-> r.n, perms |-> Permission(r.op), rp |-> RawRp]
           granted == [dev EXCEPT !.retries = MaxRetries, !.consecutive = 0, !.token = token]
           failed == [dev EXCEPT !.retries = @ - 1, !.consecutive = @ + 1, !.agreement = @ + 1]
           s == [phase |-> "command"]
<1>1. /\ CallsInv /\ CountInv /\ FitsInv /\ DeviceInv /\ PinInv /\ TokenInv
      /\ browser \in BOOLEAN /\ ExchangeInv(r) /\ OperationInv(r) /\ faults \in 0 .. MaxFaults
  BY DEF IInv, CallsInv, CountInv
<1>2. CallsInv' /\ Exchanges(c, {"command"})
  BY GetTokenCalls
<1>3. /\ r.phase = "token" /\ keys' = keys /\ chosen' = chosen
      /\ \/ status = 0 /\ Go(c, With(r, s)) /\ faults' = faults
         \/ (\E result : Ends(c, result)) /\ faults' \in 0 .. MaxFaults
      /\ \/ dev' = dev
         \/ TokenRefusal = 0 /\ status = 0 /\ dev' = granted
         \/ TokenRefusal = 0 /\ dev' = failed
  <2>1. TokenRefusal # 49
    BY DEF TokenRefusal
  <2>2. status = 49 => TokenRefusal = 0
    BY <2>1
  <2>3. status = 0 => TokenRefusal = 0
    OBVIOUS
  <2>4. /\ r.phase = "token" /\ keys' = keys /\ chosen' = chosen
        /\ dev' = CASE status = 0 -> granted [] status = 49 -> failed [] OTHER -> dev
        /\ \/ Hears(c, status, With(r, s)) /\ faults' = faults
           \/ Lost(c)
    BY DEF GetToken, In, TokenRequest
  <2> HIDE DEF status, granted, failed
  <2>5. \/ dev' = dev
        \/ status = 0 /\ dev' = granted
        \/ status = 49 /\ dev' = failed
    BY <2>4
  <2>6. \/ status = 0 /\ Go(c, With(r, s)) /\ faults' = faults
        \/ (\E result : Ends(c, result)) /\ faults' \in 0 .. MaxFaults
    BY <1>1, <2>4, Bounds DEF Hears, Lost, Refused, CountInv
  <2>7. QED
    BY <2>2, <2>3, <2>4, <2>5, <2>6
<1>4. status = 0 => TokenRefusal = 0
  OBVIOUS
<1> HIDE DEF granted, failed, status
<1>5. /\ Exchanges(c, Phase) /\ Proceeds(c) /\ UNCHANGED <<browser, model, resets, calls>>
      /\ faults' \in 0 .. MaxFaults
  BY <1>1, <1>2, <1>3 DEF Exchanges, Proceeds, Phase, StepOf, static
<1>6. /\ ~browser /\ Active(r) /\ "fit" \in DOMAIN r
      /\ r.protocol = PinProtocol(model.protocols) /\ Speaks(r.protocol)
      /\ r.n \in 1 .. calls
  <2>1. ~browser /\ Active(r)
    BY <1>1, <1>3, RawExchange
  <2>2. QED
    BY <1>1, <1>3, <2>1 DEF ExchangeInv, Informed, Prompted, Agreed, OperationInv
<1>7. call'[c] # Idle => call'[c].fit = r.fit /\ status = 0 /\ faults' = faults
  <2>1. CASE Go(c, With(r, s)) /\ status = 0 /\ faults' = faults
    <3>1. call'[c] = With(r, s) /\ "fit" \notin DOMAIN s
      BY <1>1, <2>1 DEF Go, CallsInv
    <3> HIDE DEF s
    <3>2. QED
      BY <2>1, <3>1, <1>6 DEF With
  <2>2. CASE \E result : Ends(c, result)
    BY <1>1, <2>2 DEF Ends, CallsInv
  <2>3. QED
    BY <1>3, <2>1, <2>2
<1>8. Hopeless => Hopeless'
  <2>1. CASE dev' = dev
    BY <1>5, <2>1 DEF Hopeless
  <2>2. CASE TokenRefusal = 0
    BY <1>5, <2>2 DEF Hopeless, TokenRefusal
  <2>3. QED
    BY <1>3, <2>1, <2>2
<1>9. FitInv(call[c])'
  <2>1. CASE call'[c] = Idle
    BY <1>1, <1>5, <2>1, FitSilent
  <2>2. CASE call'[c] # Idle
    <3>1. /\ GoesOn(c) /\ call'[c].fit = r.fit /\ call'[c].phase = "command"
          /\ TokenRefusal = 0
      BY <1>2, <1>4, <1>7, <2>2 DEF Exchanges
    <3>2. Generates(call'[c]) => Generates(r) /\ call'[c].since = r.since
      BY <3>1 DEF GoesOn, Generates
    <3>3. ASSUME Generates(call'[c]), ~call'[c].fit, call'[c].since = resets'
          PROVE  ~model.ext
      <4>1. FitInv(r) /\ r.phase \in Informed
        BY <1>1, <1>3 DEF FitsInv, Informed
      <4>2. Hopeless
        BY <1>3, <1>5, <1>6, <3>1, <3>2, <3>3, <4>1 DEF FitInv
      <4>3. QED
        BY <1>1, <1>6, <3>1, <4>2, GrantedToken
    <3>4. QED
      BY <1>5, <3>1, <3>3 DEF FitInv, Generates, Active
  <2>3. QED
    BY <2>1, <2>2
<1>10. CASE dev' = dev
  BY <1>1, <1>2, <1>3, <1>5, <1>9, <1>10, QuietKeeps
<1>11. CASE TokenRefusal = 0 /\ status = 0 /\ dev' = granted
  <2>1. /\ DOMAIN dev' = DOMAIN dev
        /\ dev'.pin = dev.pin /\ dev'.retries = MaxRetries /\ dev'.consecutive = 0
        /\ dev'.token = token /\ dev'.agreement = dev.agreement
        /\ dev'.creds = dev.creds /\ dev'.made = dev.made
    <3> HIDE DEF token
    <3>1. QED
      BY <1>1, <1>11 DEF granted, DeviceInv
  <2>2. DeviceInv'
    BY <1>1, <1>5, <2>1, Bounds DEF DeviceInv
  <2>3. PinInv'
    BY <1>1, <1>3, <1>5, <2>1 DEF PinInv
  <2>4. TokenInv'
    <3>1. ~model'.force
      BY <1>5, <1>11 DEF TokenRefusal
    <3>2. token.id = r.n /\ token.perms = Permission(r.op) /\ token.rp = RawRp
      OBVIOUS
    <3> HIDE DEF token
    <3>3. ASSUME NEW d \in Caller, Active(call'[d]), call'[d].n = r.n
          PROVE  call'[d].phase = "command" /\ call'[d].op = r.op
      <4>1. call'[c] # Idle => GoesOn(c) /\ call'[c].phase = "command"
        BY <1>2 DEF Exchanges
      <4>2. d = c
        BY <1>1, <1>5, <1>6, <3>3 DEF Exchanges, StepOf, CallsInv
      <4>3. QED
        BY <3>3, <4>1, <4>2 DEF GoesOn, Active, Idle
    <3>4. QED
      BY <1>5, <1>6, <2>1, <3>1, <3>2, <3>3 DEF TokenInv, Active
  <2>5. QED
    BY <1>2, <1>3, <1>5, <1>8, <1>9, <2>1, <2>2, <2>3, <2>4, ExchangeKeeps
<1>12. CASE TokenRefusal = 0 /\ dev' = failed
  <2>1. /\ DOMAIN dev' = DOMAIN dev
        /\ dev'.pin = dev.pin /\ dev'.retries = dev.retries - 1
        /\ dev'.consecutive = dev.consecutive + 1
        /\ dev'.token = dev.token /\ dev'.agreement = dev.agreement + 1
        /\ dev'.creds = dev.creds /\ dev'.made = dev.made
    BY <1>1, <1>12 DEF failed, DeviceInv
  <2>2. dev.retries # 0 /\ dev.consecutive # MaxConsecutive
    BY <1>12 DEF TokenRefusal
  <2>3. DeviceInv'
    BY <1>1, <1>5, <2>1, <2>2, Bounds DEF DeviceInv
  <2>4. PinInv'
    BY <1>1, <1>3, <1>5, <2>1 DEF PinInv
  <2>5. TokenInv'
    BY <1>1, <1>3, <1>5, <2>1, TokenKept
  <2>6. QED
    BY <1>2, <1>3, <1>5, <1>8, <1>9, <2>1, <2>3, <2>4, <2>5, ExchangeKeeps
<1>13. QED
  BY <1>3, <1>10, <1>11, <1>12

\* A step of nobody's call.
LEMMA SystemKeeps ==
  ASSUME IInv, UNCHANGED <<browser, model, call, calls>>,
         keys' \subseteq keys, dev'.made = dev.made, dev'.creds \subseteq dev.creds,
         faults' \in 0 .. MaxFaults,
         \/ resets' = resets /\ (Hopeless => Hopeless')
         \/ resets' = resets + 1,
         DeviceInv', PinInv', TokenInv'
  PROVE  IInv'
<1>1. /\ browser \in BOOLEAN /\ model \in Model /\ CountInv /\ CallsInv
      /\ FitsInv /\ KeysInv /\ CopiesInv /\ dev.made \in Nat
  BY DEF IInv, DeviceInv
<1>2. resets \in Nat /\ resets' \in Nat /\ resets <= resets'
  <2>1. resets \in Nat
    BY <1>1 DEF CountInv
  <2>2. resets' = resets \/ resets' = resets + 1
    OBVIOUS
  <2>3. QED
    BY <2>1, <2>2
<1>3. \A k : KeyInv(k) => KeyInv(k)'
  BY <1>1, KeyKept
<1>4. KeysInv'
  BY <1>1, <1>3 DEF KeysInv
<1>5. CopiesInv'
  BY <1>1, <1>3 DEF CopiesInv, Signs, Active
<1>6. Making' = Making
  BY DEF Making, Generates, Active
<1>7. CountInv'
  BY <1>1, <1>2, <1>6 DEF CountInv
<1>8. CallsInv'
  <2>1. ASSUME NEW d \in Caller
        PROVE  (OperationInv(call[d]) /\ InputInv(call[d]) /\ ExchangeInv(call[d]))'
    <3>1. OperationInv(call[d]) /\ InputInv(call[d]) /\ ExchangeInv(call[d])
      BY <1>1 DEF CallsInv
    <3>2. OperationInv(call[d])' /\ ExchangeInv(call[d])'
      BY <3>1 DEF OperationInv, ExchangeInv, Active, Speaks
    <3>3. InputInv(call[d])'
      BY <1>2, <3>1 DEF InputInv, Generates, Signs, Active, MayBeFresh
    <3>4. QED
      BY <3>2, <3>3
  <2>2. QED
    BY <1>1, <2>1 DEF CallsInv, Active
<1>9. FitsInv'
  <2>1. CASE resets' = resets /\ (Hopeless => Hopeless')
    BY <1>1, <2>1 DEF FitsInv, FitInv, Generates, Active
  <2>2. CASE resets' = resets + 1
    <3>1. \A d \in Caller : Generates(call[d]) => call[d].since \in 0 .. resets
      BY <1>1 DEF CallsInv, InputInv
    <3>2. \A d \in Caller : Generates(call[d]) => call[d].since # resets'
      BY <1>2, <2>2, <3>1
    <3>3. QED
      BY <3>2 DEF FitsInv, FitInv, Generates, Active
  <2>3. QED
    BY <2>1, <2>2
<1>10. QED
  BY <1>1, <1>4, <1>5, <1>7, <1>8, <1>9 DEF IInv

\* A deleted record leaves copies and credentials alone.
LEMMA DeleteKeyStep ==
  ASSUME IInv, NEW key \in keys, DeleteKey(key)
  PROVE  IInv'
<1>1. /\ UNCHANGED <<browser, model, resets, call, calls, dev, faults, chosen>> /\ keys' \subseteq keys
  BY DEF DeleteKey, static
<1>2. DeviceInv' /\ PinInv' /\ TokenInv'
  BY <1>1 DEF IInv, DeviceInv, PinInv, TokenInv, Active
<1>3. faults' \in 0 .. MaxFaults /\ (Hopeless => Hopeless')
  BY <1>1 DEF IInv, CountInv, Hopeless
<1>4. QED
  BY <1>1, <1>2, <1>3, SystemKeeps

\* A power cycle takes the token.
LEMMA PowerCycleStep ==
  ASSUME IInv, PowerCycle
  PROVE  IInv'
<1>1. /\ UNCHANGED <<browser, model, resets, call, calls, keys, chosen>>
      /\ faults' \in 0 .. MaxFaults
  BY Bounds DEF PowerCycle, static, IInv, CountInv
<1>2. DeviceInv /\ PinInv
  BY DEF IInv
<1>3. /\ DOMAIN dev' = DOMAIN dev
      /\ dev'.pin = dev.pin /\ dev'.retries = dev.retries /\ dev'.consecutive = 0
      /\ dev'.token = None /\ dev'.agreement = dev.agreement + 1
      /\ dev'.creds = dev.creds /\ dev'.made = dev.made
  BY <1>2 DEF PowerCycle, DeviceInv
<1>4. DeviceInv'
  BY <1>1, <1>2, <1>3, Bounds DEF DeviceInv
<1>5. PinInv' /\ TokenInv'
  BY <1>1, <1>2, <1>3 DEF PinInv, TokenInv
<1>6. Hopeless => Hopeless'
  BY <1>1, <1>3 DEF Hopeless
<1>7. QED
  BY <1>1, <1>3, <1>4, <1>5, <1>6, SystemKeeps

\* A reset takes everything but the count of what was made.
LEMMA FactoryResetStep ==
  ASSUME IInv, FactoryReset
  PROVE  IInv'
<1>1. /\ UNCHANGED <<browser, model, call, calls, keys>>
      /\ resets' = resets + 1 /\ faults' \in 0 .. MaxFaults
  BY Bounds DEF FactoryReset, IInv, CountInv
<1>2. DeviceInv
  BY DEF IInv
<1>3. /\ DOMAIN dev' = DOMAIN dev
      /\ dev'.pin = None /\ dev'.retries = MaxRetries /\ dev'.consecutive = 0
      /\ dev'.token = None /\ dev'.agreement = dev.agreement + 1
      /\ dev'.creds = {} /\ dev'.made = dev.made
  BY <1>2 DEF FactoryReset, DeviceInv
<1>4. DeviceInv'
  BY <1>1, <1>2, <1>3, Bounds DEF DeviceInv
<1>5. PinInv' /\ TokenInv'
  BY <1>3 DEF PinInv, TokenInv
<1>6. QED
  BY <1>1, <1>3, <1>4, <1>5, SystemKeeps

\* A signature takes the token at most.
LEMMA GetAssertionStep ==
  ASSUME IInv, NEW c \in Caller, GetAssertion(c)
  PROVE  IInv'
<1>1. /\ CallsInv /\ CountInv /\ DeviceInv /\ PinInv /\ TokenInv
      /\ browser \in BOOLEAN /\ faults \in 0 .. MaxFaults
  BY DEF IInv, CountInv
<1>2. CallsInv' /\ Exchanges(c, {})
  BY CommandCalls
<1>3. /\ call'[c] = Idle /\ Exchanges(c, Phase) /\ Proceeds(c)
      /\ UNCHANGED <<browser, model, resets>>
  BY <1>2 DEF Exchanges, Proceeds, StepOf, static
<1>4. /\ keys' = keys /\ chosen' = chosen /\ faults' \in 0 .. MaxFaults
      /\ \/ dev' = dev
         \/ dev' = [dev EXCEPT !.token = @]
         \/ dev' = [dev EXCEPT !.token = None]
  <2>1. ASSUME NEW msg, GetAssertionRaw(c, msg)
        PROVE  /\ faults' \in 0 .. MaxFaults
               /\ \/ dev' = [dev EXCEPT !.token = @]
                  \/ dev' = [dev EXCEPT !.token = None]
    <3>1. dev' = [dev EXCEPT !.token = IF Assertion(msg).status = 0 THEN None ELSE @]
      BY <2>1 DEF GetAssertionRaw
    <3>2. faults' = faults \/ (faults' = faults + 1 /\ faults < MaxFaults)
      BY <2>1 DEF GetAssertionRaw, Lost
    <3>3. CASE Assertion(msg).status = 0
      BY <1>1, <3>1, <3>2, <3>3, Bounds
    <3>4. CASE Assertion(msg).status # 0
      BY <1>1, <3>1, <3>2, <3>4, Bounds
    <3>5. QED
      BY <3>3, <3>4
  <2>2. ASSUME NEW msg, GetAssertionBrowser(c, msg)
        PROVE  dev' = dev /\ faults' = faults
    BY <2>2 DEF GetAssertionBrowser
  <2>3. QED
    BY <1>1, <2>1, <2>2 DEF GetAssertion
<1>5. /\ DOMAIN dev' = DOMAIN dev
      /\ dev'.pin = dev.pin /\ dev'.retries = dev.retries /\ dev'.consecutive = dev.consecutive
      /\ dev'.token \in {dev.token, None} /\ dev'.agreement = dev.agreement
      /\ dev'.creds = dev.creds /\ dev'.made = dev.made
  BY <1>1, <1>4 DEF DeviceInv
<1>6. DeviceInv'
  BY <1>1, <1>3, <1>5 DEF DeviceInv
<1>7. PinInv'
  BY <1>1, <1>3, <1>4, <1>5 DEF PinInv
<1>8. TokenInv'
  BY <1>1, <1>3, <1>5, TokenKept
<1>9. Hopeless => Hopeless'
  BY <1>3, <1>5 DEF Hopeless
<1>10. FitInv(call[c])'
  BY <1>1, <1>3, FitSilent
<1>11. QED
  BY <1>2, <1>3, <1>4, <1>5, <1>6, <1>7, <1>8, <1>9, <1>10, ExchangeKeeps

-----------------------------------------------------------------------------
(* New credentials and keys.                                               *)

\* The attestation object of a credential's generated key.
LEMMA AttestFields ==
  ASSUME NEW n, NEW cose, NEW hash, model \in Model
  PROVE  LET a == Attest(n, cose, hash) IN
         /\ Has(a, {2}) /\ a # Fail
         /\ a[2] = AuthData({"AT"}, <<"handle", n>>, cose, <<>>)
         /\ HasDedicatedHardwareChain(a) <=> model.attests = "chain"
         /\ "over" \in DOMAIN a[3] => a[3].over = hash
<1> DEFINE fmt == CASE model.attests = "android" -> "android-key"
                    [] model.attests = "none" -> "none"
                    [] OTHER -> "packed"
           data == AuthData({"AT"}, <<"handle", n>>, cose, <<>>)
           stmt == CASE model.attests \in {"chain", "android"} ->
                          [x5c |-> <<"certificate">>, over |-> hash]
                     [] model.attests = "no certificate" -> [x5c |-> <<"empty">>, over |-> hash]
                     [] model.attests = "self" -> [over |-> hash]
                     [] OTHER -> <<>>
           a == AttestationObject(fmt, data, stmt)
<1>1. Attest(n, cose, hash) = a
  BY DEF Attest
<1>2. model.attests \in Attestation
  BY CeremonyAssumption DEF Authenticator
<1>3. /\ "over" \in DOMAIN stmt => stmt.over = hash
      /\ IF model.attests = "chain"
           THEN fmt = "packed" /\ "x5c" \in DOMAIN stmt /\ stmt.x5c = <<"certificate">>
           ELSE \/ fmt = "android-key"
                \/ "x5c" \notin DOMAIN stmt
                \/ "x5c" \in DOMAIN stmt /\ stmt.x5c = <<"empty">>
  <2>1. CASE model.attests = "chain"
    BY <2>1
  <2>2. CASE model.attests = "android"
    BY <2>2
  <2>3. CASE model.attests = "no certificate"
    BY <2>3
  <2>4. CASE model.attests = "self"
    BY <2>4
  <2>5. CASE model.attests = "none"
    <3>1. stmt = <<>> /\ DOMAIN <<>> = {}
      BY <2>5
    <3> HIDE DEF stmt
    <3>2. QED
      BY <2>5, <3>1
  <2>6. QED
    BY <1>2, <2>1, <2>2, <2>3, <2>4, <2>5 DEF Attestation
<1> HIDE DEF fmt, data, stmt
<1>4. DOMAIN a = {1, 2, 3} /\ a # Fail /\ a[1] = fmt /\ a[2] = data /\ a[3] = stmt
  BY ObjectFields
<1> HIDE DEF a
<1>5. HasDedicatedHardwareChain(a) <=> model.attests = "chain"
  <2>1. CASE model.attests = "chain"
    BY <1>3, <1>4, <2>1 DEF HasDedicatedHardwareChain, Has
  <2>2. CASE model.attests # "chain"
    BY <1>3, <1>4, <2>2 DEF HasDedicatedHardwareChain, Has
  <2>3. QED
    BY <2>1, <2>2
<1>6. QED
  BY <1>1, <1>3, <1>4, <1>5 DEF Has, data

\* The object the plugin makes up for a browser that reports none.
LEMMA SyntheticFields ==
  ASSUME NEW handle, NEW cose
  PROVE  LET a == AttestationObject("none", AuthData({"AT"}, handle, cose, <<>>), <<>>) IN
         /\ a # Fail /\ a[2] = AuthData({"AT"}, handle, cose, <<>>)
         /\ ~HasDedicatedHardwareChain(a)
         /\ "over" \notin DOMAIN a[3]
<1> DEFINE a == AttestationObject("none", AuthData({"AT"}, handle, cose, <<>>), <<>>)
<1>1. DOMAIN a = {1, 2, 3} /\ a # Fail
      /\ a[2] = AuthData({"AT"}, handle, cose, <<>>) /\ a[3] = <<>>
  BY ObjectFields
<1>2. DOMAIN <<>> = {}
  OBVIOUS
<1> HIDE DEF a
<1>3. QED
  BY <1>1, <1>2 DEF HasDedicatedHardwareChain, a

\* What is stored of a new key is derived from what its credential's object
\* says, and judged from it.
LEMMA StoredKey ==
  ASSUME NEW c \in Caller, NEW parsed, StoreGenerated(c, parsed),
         call[c].algs \in Algs, keys' # keys
  PROVE  LET key == parsed[1].generated
             made == Derived(key.cose, call[c].n, call[c].algs)
             k == Record(c, parsed[1], made[1])
         IN
         /\ parsed # Fail /\ keys' = keys \cup {k}
         /\ returned' = [op |-> "generate", by |-> call[c], pub |-> made[1].pub]
         /\ k.credential = parsed[1].credential /\ k.handle = key.handle
         /\ k.attestation = key.attestation /\ k.hash = call[c].n
         /\ k.chain = HasDedicatedHardwareChain(key.attestation)
         /\ made = Ok([pub |-> k.pub, arkg |-> k.arkg])
<1> DEFINE key == parsed[1].generated
           made == Derived(key.cose, call[c].n, call[c].algs)
           k == Record(c, parsed[1], made[1])
<1>1. /\ parsed # Fail /\ made # Fail /\ keys' = keys \cup {k}
      /\ returned' = [op |-> "generate", by |-> call[c], pub |-> made[1].pub]
  BY DEF StoreGenerated, Ends
<1>2. made = Ok([pub |-> made[1].pub, arkg |-> made[1].arkg])
  BY <1>1 DEF Derived, Ok, Fail
<1>3. /\ k.credential = parsed[1].credential /\ k.handle = key.handle
      /\ k.attestation = key.attestation /\ k.hash = call[c].n
      /\ k.chain = HasDedicatedHardwareChain(key.attestation)
      /\ k.pub = made[1].pub /\ k.arkg = made[1].arkg
  BY DEF Record
<1> HIDE DEF made, k
<1>4. QED
  BY <1>1, <1>2, <1>3 DEF made, k

\* A step that makes a credential, and perhaps a record of its key.
LEMMA CredentialKeeps ==
  ASSUME IInv, NEW c \in Caller, Exchanges(c, {}), CallsInv', Generates(call[c]),
         faults' \in 0 .. MaxFaults, UNCHANGED chosen,
         DOMAIN dev' = DOMAIN dev,
         dev'.pin = dev.pin, dev'.retries = dev.retries, dev'.consecutive = dev.consecutive,
         dev'.agreement = dev.agreement, dev'.token \in {dev.token, None},
         NEW cred, cred.id = dev.made + 1, cred.rp = IF browser THEN Hostname ELSE RawRp,
         dev'.creds = dev.creds \cup {cred}, dev'.made = dev.made + 1,
         \/ keys' = keys
         \/ \E k : keys' = keys \cup {k} /\ k.credential = cred.id /\ KeyInv(k)'
  PROVE  IInv'
<1>1. /\ browser \in BOOLEAN /\ model \in Model /\ CountInv /\ CallsInv /\ DeviceInv
      /\ PinInv /\ TokenInv /\ FitsInv /\ KeysInv /\ CopiesInv /\ dev.made \in Nat
  BY DEF IInv, DeviceInv
<1>2. /\ call'[c] = Idle /\ UNCHANGED <<browser, model, resets, calls>>
      /\ Exchanges(c, Phase) /\ Proceeds(c)
      /\ \A d \in Caller : d # c => call'[d] = call[d]
  BY DEF Exchanges, Proceeds, StepOf, static
<1>3. \A k : KeyInv(k) => KeyInv(k)'
  BY <1>1, <1>2, KeyKept
<1>4. DeviceInv'
  BY <1>1, <1>2 DEF DeviceInv
<1>5. PinInv'
  BY <1>1, <1>2 DEF PinInv
<1>6. TokenInv'
  BY <1>1, <1>2, TokenKept
<1>7. CopiesInv'
  BY <1>1, <1>2, <1>3, CopiesKept
<1>8. KeysInv'
  <2>1. CASE keys' = keys
    BY <1>1, <1>3, <2>1 DEF KeysInv
  <2>2. CASE keys' # keys
    <3>1. PICK k : keys' = keys \cup {k} /\ k.credential = cred.id /\ KeyInv(k)'
      BY <2>2
    <3>2. \A l \in keys : l.credential # k.credential
      BY <1>1, <3>1 DEF KeysInv, KeyInv
    <3>3. QED
      BY <1>1, <1>3, <3>1, <3>2 DEF KeysInv
  <2>3. QED
    BY <2>1, <2>2
<1>9. FitsInv'
  <2>1. Hopeless => Hopeless'
    BY <1>2 DEF Hopeless
  <2>2. FitInv(call[c])'
    BY <1>1, <1>2, FitSilent
  <2>3. QED
    BY <1>1, <1>2, <2>1, <2>2, FitsKept
<1>10. CountInv'
  <2>1. c \in Making /\ IsFiniteSet(Making) /\ dev.made + Cardinality(Making) <= calls
        /\ calls \in 0 .. MaxCalls
    BY <1>1 DEF Making, CountInv
  <2>2. Making' \subseteq Making \ {c}
    BY <1>2 DEF Making, Generates, Active, Idle
  <2>3. IsFiniteSet(Making \ {c}) /\ Cardinality(Making \ {c}) = Cardinality(Making) - 1
    BY <2>1, FS_RemoveElement
  <2>4. IsFiniteSet(Making') /\ Cardinality(Making') <= Cardinality(Making \ {c})
    BY <2>2, <2>3, FS_Subset
  <2>5. Cardinality(Making) \in Nat /\ Cardinality(Making') \in Nat
    BY <2>1, <2>4, FS_CardinalityType
  <2>6. dev'.made + Cardinality(Making') <= calls
    BY <1>1, <2>1, <2>3, <2>4, <2>5 DEF CountInv
  <2>7. QED
    BY <1>1, <1>2, <2>1, <2>4, <2>5, <2>6 DEF CountInv
<1>11. QED
  BY <1>1, <1>2, <1>4, <1>5, <1>6, <1>7, <1>8, <1>9, <1>10 DEF IInv

\* A reply that is read as a credential, its generated key and an attestation.
Carries(parsed, cred, att) ==
  /\ parsed # Fail
  /\ parsed[1].credential = cred.id
  /\ parsed[1].generated.handle = <<"handle", cred.id>>
  /\ parsed[1].generated.cose = cred.cose
  /\ parsed[1].generated.attestation = att

\* The record of a new key is true of its new credential.
LEMMA NewKeyInv ==
  ASSUME NEW c \in Caller, NEW parsed, StoreGenerated(c, parsed), keys' # keys,
         call[c].algs \in Algs, UNCHANGED <<browser, model, resets>>,
         dev.made \in Nat, \A d \in dev.creds : d.id \in 1 .. dev.made,
         NEW cred, cred.id = dev.made + 1, cred.cose = Cose(cred.id, call[c].algs),
         dev'.creds = dev.creds \cup {cred}, dev'.made = dev.made + 1,
         NEW att, att # Fail,
         att[2] = AuthData({"AT"}, <<"handle", cred.id>>, cred.cose, <<>>),
         HasDedicatedHardwareChain(att) <=> model.attests = "chain",
         ~browser /\ "over" \in DOMAIN att[3] => att[3].over = call[c].n,
         parsed # Fail => Carries(parsed, cred, att)
  PROVE  \E k : keys' = keys \cup {k} /\ k.credential = cred.id /\ KeyInv(k)'
<1> DEFINE key == parsed[1].generated
           made == Derived(key.cose, call[c].n, call[c].algs)
<1>1. PICK k :
      /\ parsed # Fail /\ keys' = keys \cup {k}
      /\ k.credential = parsed[1].credential /\ k.handle = key.handle
      /\ k.attestation = key.attestation /\ k.hash = call[c].n
      /\ k.chain = HasDedicatedHardwareChain(key.attestation)
      /\ made = Ok([pub |-> k.pub, arkg |-> k.arkg])
  <2> DEFINE stored == Record(c, parsed[1], made[1])
  <2>1. /\ parsed # Fail /\ keys' = keys \cup {stored}
        /\ stored.credential = parsed[1].credential /\ stored.handle = key.handle
        /\ stored.attestation = key.attestation /\ stored.hash = call[c].n
        /\ stored.chain = HasDedicatedHardwareChain(key.attestation)
        /\ made = Ok([pub |-> stored.pub, arkg |-> stored.arkg])
    BY StoredKey
  <2> HIDE DEF stored, key, made
  <2>2. QED
    BY <2>1
<1>2. cred.id = dev.made + 1 /\ cred.cose = Cose(cred.id, call[c].algs)
  OBVIOUS
<1>3. att[2].id = <<"handle", cred.id>> /\ att[2].cose = cred.cose
  BY DEF AuthData
<1>4. /\ k.credential = cred.id /\ k.handle = <<"handle", cred.id>> /\ k.attestation = att
      /\ k.chain <=> model.attests = "chain"
      /\ Derived(cred.cose, k.hash, call[c].algs) = Ok([pub |-> k.pub, arkg |-> k.arkg])
  BY <1>1 DEF Carries
<1>5. DerivesFrom(k, k.attestation[2].cose)'
  <2>1. \A algs : Cose(k.credential, algs) = Cose(k.credential, algs)'
    BY DEF Cose
  <2>2. QED
    BY <1>2, <1>3, <1>4, <2>1 DEF DerivesFrom
<1>6. k.credential \in 1 .. dev'.made
  BY <1>2, <1>4
<1>7. \A d \in dev'.creds : d.id = k.credential => d.cose = k.attestation[2].cose
  BY <1>2, <1>3, <1>4
<1>8. KeyInv(k)'
  BY <1>1, <1>3, <1>4, <1>5, <1>6, <1>7 DEF KeyInv
<1>9. QED
  BY <1>1, <1>4, <1>8

\* What the plugin reads of the reply to a command with a token: the key the
\* authenticator made, if it implements the extension, and nothing otherwise.
LEMMA CreateReplyRead ==
  ASSUME NEW cred, NEW algs, NEW hash, model \in Model,
         NEW reply, reply = CreateReply(cred, algs, hash, TRUE),
         NEW inner, inner = Attest(cred.id, cred.cose, hash)
  PROVE  LET parsed == ParseMakeCredentialResponse(reply) IN
         /\ reply.status = 0
         /\ ~model.ext => parsed = Fail
         /\ model.ext => Carries(parsed, cred, inner)
<1> DEFINE data == AuthData({"AT"}, cred.id, PlaceholderCose,
                            [previewSign |-> At(3, CHOOSE a \in algs : TRUE)])
           att == AttestationObject("packed", data, [sig |-> TRUE])
           body == IF model.ext THEN WithOutput(att, 6, [previewSign |-> At(7, inner)]) ELSE att
           parsed == ParseMakeCredentialResponse(Response(0, body))
<1>1. reply = Response(0, body)
  BY DEF CreateReply
<1>2. Response(0, body).status = 0
  BY DEF Response
<1>3. AttestedCredential(data) # Fail /\ AttestedCredential(data)[1].id = cred.id
  BY Attested
<1>4. /\ Has(inner, {2})
      /\ inner[2] = AuthData({"AT"}, <<"handle", cred.id>>, cred.cose, <<>>)
  BY AttestFields
<1>5. /\ AttestedCredential(inner[2]) # Fail
      /\ AttestedCredential(inner[2])[1].id = <<"handle", cred.id>>
      /\ AttestedCredential(inner[2])[1].cose = cred.cose
  BY <1>4, Attested
<1> HIDE DEF data
<1>6. DOMAIN att = {1, 2, 3} /\ att[2] = data
  BY ObjectFields
<1> HIDE DEF att
<1>7. CASE ~model.ext
  <2>1. 6 \notin DOMAIN body /\ 7 \notin DOMAIN body
    BY <1>6, <1>7
  <2> HIDE DEF body
  <2>2. parsed = Fail
    BY <2>1, ResponseUnread
  <2>3. QED
    BY <1>1, <1>2, <1>7, <2>2
<1>8. CASE model.ext
  <2>1. /\ DOMAIN body = {1, 2, 3, 6} /\ body[2] = data
        /\ body[6] = [previewSign |-> At(7, inner)]
    BY <1>6, <1>8 DEF WithOutput
  <2> HIDE DEF body
  <2>2. /\ parsed # Fail
        /\ parsed[1].credential = cred.id
        /\ parsed[1].generated.handle = <<"handle", cred.id>>
        /\ parsed[1].generated.cose = cred.cose
        /\ parsed[1].generated.attestation = inner
    <3>1. Has(body, {2}) /\ 6 \in DOMAIN body
      BY <2>1 DEF Has
    <3>2. QED
      BY <1>3, <1>4, <1>5, <2>1, <3>1, ResponseRead
  <2>3. QED
    BY <1>1, <1>2, <1>8, <2>2 DEF Carries
<1>9. QED
  BY <1>7, <1>8

\* The token of a call opens its own command.
LEMMA TokenVerifies ==
  ASSUME IInv, NEW c \in Caller, ~browser, call[c].phase = "command",
         dev.token # None, dev.token.id = call[c].n,
         NEW perm \in Permission(call[c].op), NEW hash
  PROVE  Verifies(call[c].n, call[c].protocol, hash, hash, perm, RawRp)
<1>1. Active(call[c]) /\ ExchangeInv(call[c])
  BY DEF IInv, CallsInv, Active
<1>2. dev.token.perms = Permission(call[c].op) /\ dev.token.rp = RawRp
  BY <1>1 DEF IInv, TokenInv
<1>3. Speaks(call[c].protocol)
  BY <1>1 DEF ExchangeInv, Agreed
<1>4. QED
  BY <1>2, <1>3 DEF Verifies

\* What an authenticator does with the plugin's MakeCredential.
LEMMA RawCreate ==
  ASSUME IInv, NEW c \in Caller, ~browser, call[c].phase = "command",
         call[c].op = "generate"
  PROVE  LET r == call[c]
             answer == Create(BuildMakeCredentialRequest(RawRp, r.n, r.n, r.algs,
                                                         Authenticate(c, r.n)))
             cred == NewCredential(RawRp, r.algs)
         IN
         \/ /\ answer.creds = {} /\ answer.reply.status = 51
            /\ dev.token = None \/ dev.token.id # r.n
         \/ answer.creds = {cred} /\ answer.reply = CreateReply(cred, r.algs, r.n, TRUE)
<1> DEFINE r == call[c]
           auth == [param |-> [token |-> r.n, over |-> r.n], protocol |-> r.protocol]
           msg == BuildMakeCredentialRequest(RawRp, r.n, r.n, r.algs, Ok(auth))
           p == msg.params
           cred == NewCredential(RawRp, r.algs)
<1>1. Authenticate(c, r.n) = Ok(auth)
  BY DEF Authenticate
<1>2. /\ DOMAIN p = {1, 2, 3, 4, 6, 8, 9}
      /\ p[1] = r.n /\ p[2].id = RawRp /\ p[6].previewSign[3] = r.algs
      /\ p[8].token = r.n /\ p[8].over = r.n /\ p[9] = r.protocol
  <2>1. /\ auth.param.token = r.n /\ auth.param.over = r.n /\ auth.protocol = r.protocol
    OBVIOUS
  <2> HIDE DEF auth
  <2>2. QED
    BY <2>1, MakeCredentialParams
<1>3. r.algs \in Algs
  BY DEF IInv, CallsInv, InputInv, Generates, Active
<1>4. "mc" \in Permission(r.op)
  BY DEF Permission
<1>5. dev.token # None /\ dev.token.id = r.n =>
        Verifies(p[8].token, p[9], p[1], p[8].over, "mc", p[2].id)
  BY <1>2, <1>4, TokenVerifies
<1>6. r.algs \cap {ARKG_P256_ESP256, ECSDSA_BLS12381} # {}
  <2>1. ARKG_P256_ESP256 \in r.algs \/ ECSDSA_BLS12381 \in r.algs
    BY <1>3 DEF Algs
  <2>2. QED
    BY <2>1
<1> HIDE DEF msg, auth
<1>7. IF Verifies(p[8].token, p[9], p[1], p[8].over, "mc", p[2].id)
        THEN Create(msg) = [reply |-> CreateReply(cred, r.algs, r.n, TRUE), creds |-> {cred}]
        ELSE Create(msg) = [reply |-> Refusal(51), creds |-> {}]
  <2>1. /\ {1, 2, 3, 4, 6} \subseteq DOMAIN p /\ DOMAIN p \subseteq 1 .. 9
        /\ {8, 9} \subseteq DOMAIN p
    BY <1>2
  <2> HIDE DEF p
  <2>2. CASE Verifies(p[8].token, p[9], p[1], p[8].over, "mc", p[2].id)
    BY <1>2, <1>6, <2>1, <2>2 DEF Create, p
  <2>3. CASE ~Verifies(p[8].token, p[9], p[1], p[8].over, "mc", p[2].id)
    BY <1>2, <1>6, <2>1, <2>3 DEF Create, p
  <2>4. QED
    BY <2>2, <2>3
<1>8. BuildMakeCredentialRequest(RawRp, r.n, r.n, r.algs, Authenticate(c, r.n)) = msg
  BY <1>1 DEF msg
<1>9. Refusal(51).status = 51
  BY DEF Refusal, Response
<1> HIDE DEF p, cred
<1>10. CASE Verifies(p[8].token, p[9], p[1], p[8].over, "mc", p[2].id)
  <2>1. Create(msg) = [reply |-> CreateReply(cred, r.algs, r.n, TRUE), creds |-> {cred}]
    BY <1>7, <1>10
  <2>2. Create(msg).creds = {cred}
    BY <2>1
  <2>3. Create(msg).reply = CreateReply(cred, r.algs, r.n, TRUE)
    BY <2>1
  <2>4. QED
    BY <1>8, <2>2, <2>3 DEF cred
<1>11. CASE ~Verifies(p[8].token, p[9], p[1], p[8].over, "mc", p[2].id)
  <2>1. Create(msg) = [reply |-> Refusal(51), creds |-> {}]
    BY <1>7, <1>11
  <2>2. dev.token = None \/ dev.token.id # r.n
    BY <1>5, <1>11
  <2>3. Create(msg).creds = {} /\ Create(msg).reply.status = 51
    BY <1>9, <2>1
  <2>4. QED
    BY <1>8, <2>2, <2>3
<1>12. QED
  BY <1>10, <1>11

-----------------------------------------------------------------------------
(* What a step returns.                                                    *)

Explained ==
  /\ RightPinIsAccepted /\ UnsuitableNeverEnrols /\ CommandsAreUnderstood
  /\ SignatureVerifies /\ FactorIsBorneOut /\ CapabilityIsKept

\* A step that returns nothing needs no explanation.
LEMMA SilentExplained ==
  ASSUME returned'.op \in {"none", "describe"}
  PROVE  Explained'
BY DEF Explained, RightPinIsAccepted, UnsuitableNeverEnrols, CommandsAreUnderstood,
       SignatureVerifies, FactorIsBorneOut, CapabilityIsKept

\* What makes a refusal an explained one.
LEMMA RefusalExplained ==
  ASSUME NEW by, NEW status, returned' = [op |-> "refused", by |-> by, status |-> status],
         status = 49 => by.typed.name # chosen' \/ by.agreed # dev'.agreement - 1,
         status = 2 => by.phase \in {"agree to set", "agree", "retries"},
         status \notin {3, 17, 20, 38, 54},
         status = -3 => ~model'.ext,
         status = 51 /\ by.phase = "command" => dev'.token = None \/ dev'.token.id # by.n,
         status = 46 => \A d \in dev'.creds : d.id # by.key.credential
  PROVE  Explained'
<1>1. returned'.op = "refused" /\ returned'.by = by /\ returned'.status = status
  OBVIOUS
<1>2. RightPinIsAccepted'
  BY <1>1 DEF RightPinIsAccepted
<1>3. CommandsAreUnderstood'
  <2>1. CASE status = 2
    BY <1>1, <2>1 DEF CommandsAreUnderstood
  <2>2. CASE status = -3
    BY <1>1, <2>2 DEF CommandsAreUnderstood
  <2>3. CASE status = 51 /\ by.phase = "command"
    BY <1>1, <2>3 DEF CommandsAreUnderstood
  <2>4. CASE status = 46
    BY <1>1, <2>4 DEF CommandsAreUnderstood
  <2>5. CASE status \notin {2, -3, 46} /\ ~(status = 51 /\ by.phase = "command")
    BY <1>1, <2>5 DEF CommandsAreUnderstood
  <2>6. QED
    BY <2>1, <2>2, <2>3, <2>4, <2>5
<1>4. QED
  BY <1>1, <1>2, <1>3 DEF Explained, UnsuitableNeverEnrols, SignatureVerifies,
     FactorIsBorneOut, CapabilityIsKept

\* What makes an enrolment an explained one.
LEMMA EnrolmentExplained ==
  ASSUME NEW by, NEW pub, returned' = [op |-> "generate", by |-> by, pub |-> pub],
         ~browser' => by.fit \/ by.since < resets'
  PROVE  Explained'
<1>1. returned'.op = "generate" /\ returned'.by = by
  OBVIOUS
<1>2. QED
  BY <1>1 DEF Explained, RightPinIsAccepted, UnsuitableNeverEnrols, CommandsAreUnderstood,
     SignatureVerifies, FactorIsBorneOut, CapabilityIsKept

\* A refusal of the plugin's own, or of a command that got lost.
LEMMA OwnRefusal ==
  ASSUME NEW c \in Caller, NEW status \in {-1, -2}, Refused(c, status)
  PROVE  Explained'
<1>1. PICK by : returned' = [op |-> "refused", by |-> by, status |-> status]
  BY DEF Refused, Ends
<1>2. status \notin {49, 2, 3, 17, 20, 38, 54, -3, 51, 46}
  OBVIOUS
<1>3. QED
  BY <1>1, <1>2, RefusalExplained

-----------------------------------------------------------------------------
(* MakeCredential.                                                         *)

\* The key of a new credential can be read as what was asked for.
LEMMA DerivedNew ==
  ASSUME NEW rp, NEW algs, algs \in Algs, NEW n
  PROVE  Derived(NewCredential(rp, algs).cose, n, algs) # Fail
<1> DEFINE id == dev.made + 1
           cose == Cose(id, algs)
<1>1. NewCredential(rp, algs).cose = cose
  BY DEF NewCredential
<1>2. CASE ECSDSA_BLS12381 \in algs
  <2>1. DOMAIN cose = {-1, -2, -3} /\ cose[-1] = -65601
    BY <1>2 DEF Cose
  <2> HIDE DEF cose
  <2>2. DecodeBls(cose) # Fail
    BY <2>1 DEF DecodeBls, Has, Ok, Fail
  <2>3. QED
    BY <1>1, <1>2, <2>2 DEF Derived, Ok, Fail
<1>3. CASE ECSDSA_BLS12381 \notin algs /\ IsArkgSeed(cose)
  BY <1>1, <1>3 DEF Derived, Ok, Fail
<1>4. CASE ECSDSA_BLS12381 \notin algs /\ ~IsArkgSeed(cose)
  <2>1. IsArkgSeed(ArkgSeed(id))
    BY DEF IsArkgSeed, ArkgSeed, Has
  <2>2. {-2, -3} \subseteq DOMAIN cose
    BY <1>4, <2>1 DEF Cose
  <2> HIDE DEF cose
  <2>3. DecodeEc2(cose) # Fail
    BY <2>2 DEF DecodeEc2, Has, Ok, Fail
  <2>4. QED
    BY <1>1, <1>4, <2>3 DEF Derived, Ok, Fail
<1>5. QED
  BY <1>2, <1>3, <1>4

\* Over a raw transport: the credential, its record and its attestation agree.
LEMMA MakeCredentialRawStep ==
  ASSUME IInv, NEW c \in Caller, MakeCredential(c), ~browser
  PROVE  IInv' /\ Explained'
<1> DEFINE r == call[c]
           msg == BuildMakeCredentialRequest(RawRp, r.n, r.n, r.algs, Authenticate(c, r.n))
           answer == Create(msg)
           new == NewCredential(RawRp, r.algs)
           parsed == ParseMakeCredentialResponse(answer.reply)
<1>1. /\ CallsInv /\ CountInv /\ DeviceInv /\ FitsInv
      /\ browser \in BOOLEAN /\ model \in Model /\ faults \in 0 .. MaxFaults
  BY DEF IInv, CountInv
<1>2. CallsInv' /\ Exchanges(c, {})
  BY CommandCalls
<1>3. r.phase = "command" /\ r.op = "generate" /\ chosen' = chosen /\ MakeCredentialRaw(c, msg)
  BY DEF MakeCredential, In, MakeCredentialBrowser
<1>4. /\ dev' = [dev EXCEPT !.creds = @ \cup answer.creds,
                            !.made = @ + Cardinality(answer.creds),
                            !.token = IF answer.creds = {} THEN @ ELSE None]
      /\ \/ /\ IF answer.reply.status = 0
                 THEN StoreGenerated(c, parsed)
                 ELSE Refused(c, answer.reply.status) /\ UNCHANGED keys
            /\ UNCHANGED faults
         \/ Lost(c) /\ UNCHANGED keys
  BY <1>3 DEF MakeCredentialRaw
<1>5. UNCHANGED <<browser, model, resets>> /\ Generates(r) /\ r.algs \in Algs
  BY <1>1, <1>2, <1>3 DEF Exchanges, StepOf, static, Generates, Active, CallsInv, InputInv
<1>6. \/ /\ answer.creds = {} /\ answer.reply.status = 51
         /\ dev.token = None \/ dev.token.id # r.n
      \/ answer.creds = {new} /\ answer.reply = CreateReply(new, r.algs, r.n, TRUE)
  BY <1>3, RawCreate
<1> HIDE DEF msg, answer, new
<1>7. Lost(c) => faults' \in 0 .. MaxFaults
  BY <1>1, Bounds DEF Lost, CountInv
<1>8. CASE answer.creds = {} /\ answer.reply.status = 51
  <2>1. Cardinality({}) = 0
    BY FS_EmptySet
  <2>2. /\ DOMAIN dev' = DOMAIN dev
        /\ dev'.pin = dev.pin /\ dev'.retries = dev.retries
        /\ dev'.consecutive = dev.consecutive /\ dev'.agreement = dev.agreement
        /\ dev'.token = dev.token /\ dev'.creds = dev.creds /\ dev'.made = dev.made
    BY <1>1, <1>4, <1>8, <2>1 DEF DeviceInv
  <2>3. keys' = keys /\ faults' \in 0 .. MaxFaults
    BY <1>1, <1>4, <1>7, <1>8
  <2>4. IInv'
    <3>1. call'[c] = Idle /\ Proceeds(c) /\ Exchanges(c, Phase)
      BY <1>2 DEF Exchanges, Proceeds
    <3>2. DeviceInv'
      BY <1>1, <1>5, <2>2 DEF DeviceInv
    <3>3. PinInv'
      BY <1>3, <1>5, <2>2 DEF PinInv, IInv
    <3>4. TokenInv'
      BY <1>1, <2>2, <3>1, TokenKept DEF IInv
    <3>5. Hopeless => Hopeless'
      BY <1>5, <2>2 DEF Hopeless
    <3>6. FitInv(call[c])'
      BY <1>1, <1>5, <3>1, FitSilent
    <3>7. QED
      BY <1>2, <2>2, <2>3, <3>1, <3>2, <3>3, <3>4, <3>5, <3>6, ExchangeKeeps
  <2>5. Explained'
    <3>1. CASE Lost(c)
      BY <3>1, OwnRefusal DEF Lost
    <3>2. CASE ~Lost(c)
      <4>1. PICK by, status :
               /\ by = r /\ status = 51
               /\ returned' = [op |-> "refused", by |-> by, status |-> status]
        BY <1>4, <1>8, <3>2 DEF Refused, Ends
      <4>2. dev'.token = None \/ dev'.token.id # by.n
        BY <1>6, <1>8, <2>2, <2>3, <4>1
      <4>3. status \notin {49, 2, 3, 17, 20, 38, 54, -3, 46}
        BY <4>1
      <4>4. QED
        BY <4>1, <4>2, <4>3, RefusalExplained
    <3>3. QED
      BY <3>1, <3>2
  <2>6. QED
    BY <2>4, <2>5
<1>9. CASE answer.creds = {new} /\ answer.reply = CreateReply(new, r.algs, r.n, TRUE)
  <2>0. PICK att : att = Attest(new.id, new.cose, r.n)
    OBVIOUS
  <2>1. /\ answer.reply.status = 0
        /\ ~model.ext => parsed = Fail
        /\ model.ext => Carries(parsed, new, att)
    <3>1. PICK reply : reply = CreateReply(new, r.algs, r.n, TRUE)
      OBVIOUS
    <3>2. model \in Model
      BY <1>1
    <3>3. /\ reply.status = 0
          /\ ~model.ext => ParseMakeCredentialResponse(reply) = Fail
          /\ model.ext => Carries(ParseMakeCredentialResponse(reply), new, att)
      BY <2>0, <3>1, <3>2, CreateReplyRead
    <3>4. answer.reply = reply
      BY <1>9, <3>1
    <3>5. QED
      BY <3>3, <3>4
  <2>2. /\ att # Fail
        /\ att[2] = AuthData({"AT"}, <<"handle", new.id>>, new.cose, <<>>)
        /\ HasDedicatedHardwareChain(att) <=> model.attests = "chain"
        /\ "over" \in DOMAIN att[3] => att[3].over = r.n
    BY <1>1, <2>0, AttestFields
  <2> HIDE DEF parsed
  <2>3. answer.creds # {} /\ Cardinality(answer.creds) = 1
    BY <1>9, FS_Singleton
  <2>4. /\ DOMAIN dev' = DOMAIN dev
        /\ dev'.pin = dev.pin /\ dev'.retries = dev.retries
        /\ dev'.consecutive = dev.consecutive /\ dev'.agreement = dev.agreement
        /\ dev'.token = None /\ dev'.creds = dev.creds \cup {new} /\ dev'.made = dev.made + 1
    BY <1>1, <1>4, <1>9, <2>3 DEF DeviceInv
  <2>5. \/ StoreGenerated(c, parsed) /\ faults' = faults
        \/ Lost(c) /\ keys' = keys
    BY <1>4, <2>1
  <2>6. new.id = dev.made + 1 /\ new.rp = RawRp /\ new.cose = Cose(new.id, r.algs)
    BY DEF new, NewCredential
  <2>7. \/ keys' = keys
        \/ \E k : keys' = keys \cup {k} /\ k.credential = new.id /\ KeyInv(k)'
    <3>1. CASE keys' # keys
      <4>1. StoreGenerated(c, parsed)
        BY <2>5, <3>1
      <4>2. parsed # Fail => model.ext
        BY <2>1
      <4>3. dev.made \in Nat /\ \A d \in dev.creds : d.id \in 1 .. dev.made
        BY <1>1 DEF DeviceInv
      <4>4. QED
        BY <1>5, <2>1, <2>2, <2>4, <2>6, <3>1, <4>1, <4>2, <4>3, NewKeyInv
    <3>2. QED
      BY <3>1
  <2>8. IInv'
    BY <1>1, <1>2, <1>3, <1>5, <1>7, <2>4, <2>5, <2>6, <2>7, CredentialKeeps
  <2>9. Explained'
    <3>1. CASE Lost(c)
      BY <3>1, OwnRefusal DEF Lost
    <3>2. CASE StoreGenerated(c, parsed) /\ ~model.ext
      <4>1. PICK by, status :
               /\ status = -3
               /\ returned' = [op |-> "refused", by |-> by, status |-> status]
        BY <2>1, <3>2 DEF StoreGenerated, Refused, Ends
      <4>2. ~model'.ext
        BY <1>5, <3>2
      <4>3. status \notin {49, 2, 3, 17, 20, 38, 54, 51, 46}
        BY <4>1
      <4>4. QED
        BY <4>1, <4>2, <4>3, RefusalExplained
    <3>3. CASE StoreGenerated(c, parsed) /\ model.ext /\ faults' = faults
      <4>1. r.fit \/ r.since < resets'
        <5>1. r.since \in 0 .. resets /\ resets \in Nat
          BY <1>1, <1>5 DEF CallsInv, CountInv, InputInv
        <5>2. FitInv(r) /\ r.phase \in Informed
          BY <1>1, <1>3 DEF FitsInv, Informed
        <5>3. QED
          BY <1>3, <1>5, <3>3, <5>1, <5>2 DEF FitInv
      <4>2. Derived(new.cose, r.n, r.algs) # Fail
        BY <1>5, DerivedNew DEF new
      <4>3. PICK by, pub : /\ by = r
                           /\ returned' = [op |-> "generate", by |-> by, pub |-> pub]
        BY <2>1, <3>3, <4>2 DEF StoreGenerated, Ends, Carries
      <4>4. QED
        BY <4>1, <4>3, EnrolmentExplained
    <3>4. QED
      BY <2>5, <3>1, <3>2, <3>3
  <2>10. QED
    BY <2>8, <2>9
<1>10. QED
  BY <1>6, <1>8, <1>9

\* What the plugin reads of a browser's answer: the credential's generated key
\* with the attestation the browser reported, or with one that vouches for
\* nothing.
LEMMA BrowserReplyRead ==
  ASSUME model \in Model, NEW req, NEW cred, NEW challenge, NEW given,
         \/ given = Attest(cred.id, cred.cose, challenge)
         \/ given = Fail /\ model.attests = "none",
         NEW reply, reply = EncodeMakeCredentialResponse(BrowserCreate(req, cred, given))
  PROVE  \E att : /\ Carries(ParseMakeCredentialResponse(reply), cred, att)
                  /\ att # Fail
                  /\ att[2] = AuthData({"AT"}, <<"handle", cred.id>>, cred.cose, <<>>)
                  /\ HasDedicatedHardwareChain(att) <=> model.attests = "chain"
<1>1. PICK id, cose, handle : id = cred.id /\ cose = cred.cose /\ handle = <<"handle", id>>
  OBVIOUS
<1>2. PICK result : result = BrowserCreate(req, cred, given)
  OBVIOUS
<1>3. PICK none : none = AttestationObject("none", AuthData({"AT"}, handle, cose, <<>>), <<>>)
  OBVIOUS
<1> DEFINE att == IF given # Fail THEN given ELSE none
<1>4. PICK parsed : parsed = ParseMakeCredentialResponse(reply)
  OBVIOUS
<1>5. /\ result.credential = id
      /\ result.generated.handle = handle /\ result.generated.cose = cose
      /\ result.generated.attestation = given
  BY <1>1, <1>2 DEF BrowserCreate
<1>6. given # Fail =>
        /\ Has(given, {2}) /\ given[2] = AuthData({"AT"}, handle, cose, <<>>)
        /\ HasDedicatedHardwareChain(given) <=> model.attests = "chain"
  BY <1>1, AttestFields
<1>7. given = Fail => model.attests = "none"
  <2>1. Attest(cred.id, cred.cose, challenge) # Fail
    BY AttestFields
  <2>2. QED
    BY <2>1
<1>8. /\ none # Fail /\ none[2] = AuthData({"AT"}, handle, cose, <<>>)
      /\ ~HasDedicatedHardwareChain(none)
  BY <1>3, SyntheticFields
<1>9. /\ parsed # Fail
      /\ parsed[1].credential = result.credential
      /\ parsed[1].generated.handle = handle /\ parsed[1].generated.cose = cose
      /\ parsed[1].generated.attestation = att
  BY <1>2, <1>3, <1>4, <1>5, <1>6, MakeCredentialRoundTrip
<1>10. /\ att # Fail /\ att[2] = AuthData({"AT"}, handle, cose, <<>>)
       /\ HasDedicatedHardwareChain(att) <=> model.attests = "chain"
  <2>1. CASE given # Fail
    BY <1>6, <2>1
  <2>2. CASE given = Fail
    BY <1>7, <1>8, <2>2
  <2>3. QED
    BY <2>1, <2>2
<1> HIDE DEF att
<1>11. Carries(parsed, cred, att)
  BY <1>1, <1>5, <1>9 DEF Carries
<1>12. Carries(ParseMakeCredentialResponse(reply), cred, att)
  BY <1>4, <1>11
<1>13. att[2] = AuthData({"AT"}, <<"handle", cred.id>>, cred.cose, <<>>)
  BY <1>1, <1>10
<1>14. QED
  BY <1>10, <1>12, <1>13

\* What a browser does with the plugin's MakeCredential.
LEMMA BrowserCreates ==
  ASSUME NEW c \in Caller, MakeCredential(c), browser
  PROVE  LET cred == NewCredential(Hostname, call[c].algs) IN
         /\ faults' = faults
         /\ \/ Refused(c, -2) /\ UNCHANGED <<dev, keys>>
            \/ /\ dev' = [dev EXCEPT !.creds = @ \cup {cred}, !.made = @ + 1]
               /\ \/ /\ model.ext
                     /\ \E req, given :
                          /\ \/ given = Attest(cred.id, cred.cose, ClientData(call[c].n))
                             \/ given = Fail /\ model.attests = "none"
                          /\ StoreGenerated(c, ParseMakeCredentialResponse(
                               EncodeMakeCredentialResponse(BrowserCreate(req, cred, given))))
                  \/ ~model.ext /\ Refused(c, -3) /\ UNCHANGED keys
<1> DEFINE n == call[c].n
           algs == call[c].algs
           msg == BuildMakeCredentialRequest(RawRp, n, n, algs, Authenticate(c, n))
           req == ParseMakeCredentialRequest(msg)
           inputs == GenerateKeyInputs(req[1].algs)
           cred == NewCredential(Hostname, inputs.previewSign.generateKey.algorithms)
<1>1. MakeCredentialBrowser(c, msg)
  BY DEF MakeCredential, MakeCredentialRaw
<1>2. req = Ok([rp |-> RawRp, user |-> n, hash |-> n, algs |-> algs])
  BY MakeCredentialReadBack DEF Authenticate
<1> HIDE DEF msg
<1>3. /\ faults' = faults
      /\ \/ Refused(c, IF req = Fail THEN 2 ELSE -2) /\ UNCHANGED <<dev, keys>>
         \/ /\ dev' = [dev EXCEPT !.creds = @ \cup {cred}, !.made = @ + 1]
            /\ \/ /\ model.ext
                  /\ \E given \in {Attest(cred.id, cred.cose, ClientData(req[1].hash))}
                          \cup (IF model.attests = "none" THEN {Fail} ELSE {}) :
                       StoreGenerated(c, ParseMakeCredentialResponse(
                         EncodeMakeCredentialResponse(BrowserCreate(req[1], cred, given))))
               \/ ~model.ext /\ Refused(c, -3) /\ UNCHANGED keys
  BY <1>1 DEF MakeCredentialBrowser
<1>4. req # Fail /\ req[1].hash = n /\ req[1].algs = algs
  BY <1>2 DEF Ok, Fail
<1>5. inputs.previewSign.generateKey.algorithms = algs
  BY <1>4 DEF GenerateKeyInputs
<1> HIDE DEF req, inputs
<1>6. cred = NewCredential(Hostname, algs)
  BY <1>5
<1> HIDE DEF cred
<1>7. PICK read : read = req[1]
  OBVIOUS
<1>8. /\ faults' = faults
      /\ \/ Refused(c, -2) /\ UNCHANGED <<dev, keys>>
         \/ /\ dev' = [dev EXCEPT !.creds = @ \cup {cred}, !.made = @ + 1]
            /\ \/ /\ model.ext
                  /\ \E given :
                       /\ \/ given = Attest(cred.id, cred.cose, ClientData(n))
                          \/ given = Fail /\ model.attests = "none"
                       /\ StoreGenerated(c, ParseMakeCredentialResponse(
                            EncodeMakeCredentialResponse(BrowserCreate(read, cred, given))))
               \/ ~model.ext /\ Refused(c, -3) /\ UNCHANGED keys
  BY <1>3, <1>4, <1>7
<1>9. QED
  BY <1>6, <1>8

\* Over a browser they agree as well, through its encoding of the result.
LEMMA MakeCredentialBrowserStep ==
  ASSUME IInv, NEW c \in Caller, MakeCredential(c), browser
  PROVE  IInv' /\ Explained'
<1> DEFINE r == call[c]
           new == NewCredential(Hostname, r.algs)
<1>1. /\ CallsInv /\ CountInv /\ DeviceInv
      /\ browser \in BOOLEAN /\ model \in Model /\ faults \in 0 .. MaxFaults
  BY DEF IInv, CountInv
<1>2. CallsInv' /\ Exchanges(c, {})
  BY CommandCalls
<1>3. r.phase = "command" /\ r.op = "generate" /\ chosen' = chosen
  BY DEF MakeCredential, In
<1>4. UNCHANGED <<browser, model, resets>> /\ Generates(r) /\ r.algs \in Algs
  BY <1>1, <1>2, <1>3 DEF Exchanges, StepOf, static, Generates, Active, CallsInv, InputInv
<1>5. PICK cred : cred = new
  OBVIOUS
<1>6. cred.id = dev.made + 1 /\ cred.rp = Hostname /\ cred.cose = Cose(cred.id, r.algs)
  BY <1>5 DEF NewCredential
<1> HIDE DEF new
<1>7. /\ faults' = faults
      /\ \/ Refused(c, -2) /\ UNCHANGED <<dev, keys>>
         \/ /\ dev' = [dev EXCEPT !.creds = @ \cup {cred}, !.made = @ + 1]
            /\ \/ /\ model.ext
                  /\ \E req, given :
                       /\ \/ given = Attest(cred.id, cred.cose, ClientData(r.n))
                          \/ given = Fail /\ model.attests = "none"
                       /\ StoreGenerated(c, ParseMakeCredentialResponse(
                            EncodeMakeCredentialResponse(BrowserCreate(req, cred, given))))
               \/ ~model.ext /\ Refused(c, -3) /\ UNCHANGED keys
  BY <1>5, BrowserCreates DEF new
<1>8. CASE Refused(c, -2) /\ UNCHANGED <<dev, keys>>
  <2>1. Explained'
    BY <1>8, OwnRefusal
  <2>2. call'[c] = Idle /\ Proceeds(c) /\ Exchanges(c, Phase)
    BY <1>2 DEF Exchanges, Proceeds
  <2>3. DeviceInv' /\ PinInv'
    BY <1>1, <1>3, <1>4, <1>8 DEF IInv, DeviceInv, PinInv
  <2>4. TokenInv'
    BY <1>1, <1>4, <1>8, <2>2, TokenKept DEF IInv
  <2>5. Hopeless => Hopeless'
    BY <1>4, <1>8 DEF Hopeless
  <2>6. FitInv(call[c])'
    BY <1>1, <1>4, <2>2, FitSilent
  <2>7. QED
    BY <1>1, <1>2, <1>7, <1>8, <2>1, <2>2, <2>3, <2>4, <2>5, <2>6, ExchangeKeeps
<1>9. CASE dev' = [dev EXCEPT !.creds = @ \cup {cred}, !.made = @ + 1]
  <2>1. /\ DOMAIN dev' = DOMAIN dev
        /\ dev'.pin = dev.pin /\ dev'.retries = dev.retries
        /\ dev'.consecutive = dev.consecutive /\ dev'.agreement = dev.agreement
        /\ dev'.token = dev.token /\ dev'.creds = dev.creds \cup {cred}
        /\ dev'.made = dev.made + 1
    BY <1>1, <1>9 DEF DeviceInv
  <2>2. CASE ~model.ext /\ Refused(c, -3) /\ UNCHANGED keys
    <3>1. IInv'
      BY <1>1, <1>2, <1>3, <1>4, <1>6, <1>7, <2>1, <2>2, CredentialKeeps
    <3>2. PICK by, status :
             /\ status = -3
             /\ returned' = [op |-> "refused", by |-> by, status |-> status]
      BY <2>2 DEF Refused, Ends
    <3>3. ~model'.ext
      BY <1>4, <2>2
    <3>4. status \notin {49, 2, 3, 17, 20, 38, 54, 51, 46}
      BY <3>2
    <3>5. QED
      BY <3>1, <3>2, <3>3, <3>4, RefusalExplained
  <2>3. ASSUME NEW req, NEW given,
               \/ given = Attest(cred.id, cred.cose, ClientData(r.n))
               \/ given = Fail /\ model.attests = "none",
               NEW parsed,
               parsed = ParseMakeCredentialResponse(
                          EncodeMakeCredentialResponse(BrowserCreate(req, cred, given))),
               StoreGenerated(c, parsed)
        PROVE  IInv' /\ Explained'
    <3>1. PICK reply : reply = EncodeMakeCredentialResponse(BrowserCreate(req, cred, given))
      OBVIOUS
    <3>2. PICK att : /\ Carries(ParseMakeCredentialResponse(reply), cred, att)
                     /\ att # Fail
                     /\ att[2] = AuthData({"AT"}, <<"handle", cred.id>>, cred.cose, <<>>)
                     /\ HasDedicatedHardwareChain(att) <=> model.attests = "chain"
      BY <1>1, <2>3, <3>1, BrowserReplyRead
    <3>3. Carries(parsed, cred, att)
      BY <2>3, <3>1, <3>2
    <3>4. \/ keys' = keys
          \/ \E k : keys' = keys \cup {k} /\ k.credential = cred.id /\ KeyInv(k)'
      <4>1. CASE keys' # keys
        <5>1. dev.made \in Nat /\ \A d \in dev.creds : d.id \in 1 .. dev.made
          BY <1>1 DEF DeviceInv
        <5>2. QED
          BY <1>4, <1>6, <2>1, <2>3, <3>2, <3>3, <4>1, <5>1, NewKeyInv
      <4>2. QED
        BY <4>1
    <3>5. IInv'
      BY <1>1, <1>2, <1>3, <1>4, <1>6, <1>7, <2>1, <3>4, CredentialKeeps
    <3>6. Derived(cred.cose, r.n, r.algs) # Fail
      BY <1>4, <1>5, DerivedNew DEF new
    <3>7. PICK by, pub : returned' = [op |-> "generate", by |-> by, pub |-> pub]
      BY <2>3, <3>3, <3>6 DEF StoreGenerated, Ends, Carries
    <3>8. browser'
      BY <1>4
    <3>9. QED
      BY <3>5, <3>7, <3>8, EnrolmentExplained
  <2>4. QED
    BY <1>7, <1>8, <1>9, <2>2, <2>3
<1>10. QED
  BY <1>7, <1>8, <1>9

\* MakeCredential over either transport.
LEMMA MakeCredentialStep ==
  ASSUME IInv, NEW c \in Caller, MakeCredential(c)
  PROVE  IInv' /\ Explained'
BY MakeCredentialRawStep, MakeCredentialBrowserStep

-----------------------------------------------------------------------------
(* What the exchange returns.                                              *)

\* Beginnings, descriptions, deletions and faults return nothing that says
\* anything of a PIN, a key or a signature.
LEMMA QuietExplained ==
  ASSUME \/ \E c, algs : StartGenerate(c, algs)
         \/ \E c, key, data, fresh, host : StartSign(c, key, data, fresh, host)
         \/ \E c : StartDescribe(c) \/ GetInfo(c)
         \/ \E key : DeleteKey(key)
         \/ PowerCycle \/ FactoryReset
  PROVE  Explained'
<1>1. ASSUME NEW c, NEW algs, StartGenerate(c, algs)
      PROVE  returned'.op = "none"
  BY <1>1 DEF StartGenerate, Go, Nothing
<1>2. ASSUME NEW c, NEW key, NEW data, NEW fresh, NEW host, StartSign(c, key, data, fresh, host)
      PROVE  returned'.op = "none"
  <2>1. returned' = Nothing
    BY <1>2 DEF StartSign, Go, Ends
  <2>2. QED
    BY <2>1 DEF Nothing
<1>3. ASSUME NEW c, StartDescribe(c) \/ GetInfo(c)
      PROVE  returned'.op \in {"none", "describe"}
  <2>1. CASE StartDescribe(c)
    BY <2>1 DEF StartDescribe, Go, Nothing
  <2>2. CASE GetInfo(c)
    <3>1. returned' = Nothing \/ \E fit : returned' = Described(fit)
      BY <2>2 DEF GetInfo, Go, Ends
    <3>2. QED
      BY <3>1 DEF Nothing, Described
  <2>3. QED
    BY <1>3, <2>1, <2>2
<1>4. ASSUME \/ \E key : DeleteKey(key)
             \/ PowerCycle \/ FactoryReset
      PROVE  returned'.op = "none"
  BY <1>4 DEF DeleteKey, PowerCycle, FactoryReset, Nothing
<1>5. QED
  BY <1>1, <1>2, <1>3, <1>4, SilentExplained

\* A step that only goes on with its call says nothing.
LEMMA GoExplained ==
  ASSUME NEW c, NEW rec, Go(c, rec)
  PROVE  Explained'
<1>1. returned' = Nothing
  BY DEF Go
<1>2. QED
  BY <1>1, SilentExplained DEF Nothing

\* Only an unknown PIN protocol makes an authenticator refuse its retries.
LEMMA GetRetriesExplained ==
  ASSUME NEW c \in Caller, GetRetries(c)
  PROVE  Explained'
<1>1. CASE Refused(c, 2)
  <2>1. PICK by, status :
           /\ by = call[c] /\ status = 2
           /\ returned' = [op |-> "refused", by |-> by, status |-> status]
    BY <1>1 DEF Refused, Ends
  <2>2. by.phase = "retries"
    BY <2>1 DEF GetRetries, In
  <2>3. status \notin {3, 17, 20, 38, 54, 46, -3, 49, 51}
    BY <2>1
  <2>4. QED
    BY <2>1, <2>2, <2>3, RefusalExplained
<1>2. CASE ~Refused(c, 2)
  <2>1. \E fit : returned' = Described(fit)
    BY <1>2 DEF GetRetries, Ends
  <2>2. QED
    BY <2>1, SilentExplained DEF Described
<1>3. QED
  BY <1>1, <1>2

\* A PIN that cannot be one, or a lost command, is the plugin's own refusal.
LEMMA AnswerExplained ==
  ASSUME NEW c \in Caller, \/ \E p : Answer(c, p)
                           \/ Cancel(c)
                           \/ NotDelivered(c)
  PROVE  Explained'
<1>1. \/ \E rec : Go(c, rec)
      \/ Refused(c, -2)
      \/ Refused(c, -1)
  BY DEF Answer, Cancel, NotDelivered, Lost
<1>2. QED
  BY <1>1, GoExplained, OwnRefusal

\* Only an unknown PIN protocol makes it refuse a key agreement.
LEMMA KeyAgreementExplained ==
  ASSUME NEW c \in Caller, KeyAgreement(c)
  PROVE  Explained'
<1>1. /\ call[c].phase \in {"agree to set", "agree"}
      /\ \/ \E rec : Go(c, rec)
         \/ Refused(c, 2)
  BY DEF KeyAgreement, In
<1>2. CASE Refused(c, 2)
  <2>1. PICK by, status :
           /\ by = call[c] /\ status = 2
           /\ returned' = [op |-> "refused", by |-> by, status |-> status]
    BY <1>2 DEF Refused, Ends
  <2>2. by.phase \in {"agree to set", "agree", "retries"}
    BY <1>1, <2>1
  <2>3. status \notin {3, 17, 20, 38, 54, 46, -3, 49, 51}
    BY <2>1
  <2>4. QED
    BY <2>1, <2>2, <2>3, RefusalExplained
<1>3. QED
  BY <1>1, <1>2, GoExplained

\* A refused setPIN is refused for its authentication.
LEMMA SetPinExplained ==
  ASSUME NEW c \in Caller, SetPin(c)
  PROVE  Explained'
<1>1. call[c].phase = "set"
  BY DEF SetPin, In
<1>2. \/ \E rec : Go(c, rec)
      \/ Refused(c, 51)
      \/ Refused(c, -1)
  BY DEF SetPin, Hears, Lost
<1>3. CASE Refused(c, 51)
  <2>1. PICK by, status :
           /\ by = call[c] /\ status = 51
           /\ returned' = [op |-> "refused", by |-> by, status |-> status]
    BY <1>3 DEF Refused, Ends
  <2>2. by.phase # "command" /\ status \notin {3, 17, 20, 38, 54, 46, -3, 49, 2}
    BY <1>1, <2>1
  <2>3. QED
    BY <2>1, <2>2, RefusalExplained
<1>4. QED
  BY <1>2, <1>3, GoExplained, OwnRefusal

\* A PIN is refused as wrong only if it is another text than its owner's, or
\* was encrypted for an earlier key agreement.
LEMMA WrongPin ==
  ASSUME IInv, NEW c \in Caller, call[c].phase = "token", ~browser,
         TokenRefusal = 0, Mismatch(TokenRequest(c))
  PROVE  call[c].typed.name # chosen \/ call[c].agreed # dev.agreement
<1> DEFINE r == call[c]
<1> SUFFICES ASSUME r.typed.name = chosen, r.agreed = dev.agreement
             PROVE  FALSE
  OBVIOUS
<1>1. ExchangeInv(r) /\ PinInv
  BY DEF IInv, CallsInv
<1>2. "pin" \in DOMAIN r
  BY <1>1 DEF ExchangeInv, Prompted, Informed
<1>3. r.typed \in Entry /\ r.pin = NormalizePin(r.typed)
  BY <1>1, <1>2, PinOfCall
<1>4. dev.pin # None
  BY DEF TokenRefusal
<1>5. PICK p \in Entry \cup {FactoryPin} : p.name = chosen /\ dev.pin = NormalizePin(p)
  BY <1>1, <1>4 DEF PinInv
<1>6. NormalizePin(p) = NormalizePin(r.typed)
  BY <1>3, <1>5, SameOnceComposed
<1>7. PICK pin, agreed : pin = r.pin /\ agreed = r.agreed
  OBVIOUS
<1>8. pin = dev.pin /\ agreed = dev.agreement
  BY <1>3, <1>5, <1>6, <1>7
<1>9. Decrypt(agreed, Encrypt(agreed, pin)) # <<pin>>
  BY <1>7, <1>8 DEF Mismatch, TokenRequest
<1>10. QED
  BY <1>9 DEF Decrypt, Encrypt

\* A PIN refused as wrong is wrong, or came too late.
LEMMA GetTokenExplained ==
  ASSUME IInv, NEW c \in Caller, GetToken(c)
  PROVE  Explained'
<1> DEFINE r == call[c]
           status == IF TokenRefusal # 0 THEN TokenRefusal
                     ELSE IF Mismatch(TokenRequest(c)) THEN 49 ELSE 0
           failed == [dev EXCEPT !.retries = @ - 1, !.consecutive = @ + 1, !.agreement = @ + 1]
<1>1. r.phase = "token" /\ ~browser
  <2>1. r.phase = "token" /\ CallsInv /\ browser \in BOOLEAN
    BY DEF GetToken, In, IInv
  <2>2. QED
    BY <2>1, RawExchange
<1>2. TokenRefusal \in {53, 50, 52, 55, 0}
  BY DEF TokenRefusal
<1>3. status \in {53, 50, 52, 55, 49, 0}
  BY <1>2
<1>4. status = 49 =>
        /\ TokenRefusal = 0 /\ Mismatch(TokenRequest(c))
        /\ dev' = failed /\ chosen' = chosen
  <2>1. status = 49 => TokenRefusal = 0 /\ Mismatch(TokenRequest(c))
    BY <1>2
  <2>2. /\ chosen' = chosen
        /\ dev' = CASE status = 0 ->
                         [dev EXCEPT !.retries = MaxRetries, !.consecutive = 0,
                            !.token = [id |-> r.n, perms |-> TokenRequest(c).permissions,
                                       rp |-> TokenRequest(c).rp]]
                    [] status = 49 -> failed
                    [] OTHER -> dev
    BY DEF GetToken
  <2> HIDE DEF status, failed
  <2>3. QED
    BY <2>1, <2>2
<1>5. \/ \E rec : Go(c, rec)
      \/ Refused(c, status)
      \/ Refused(c, -1)
  BY DEF GetToken, Hears, Lost
<1> HIDE DEF status
<1>6. status = 49 => r.typed.name # chosen' \/ r.agreed # dev'.agreement - 1
  <2> SUFFICES ASSUME status = 49
               PROVE  r.typed.name # chosen' \/ r.agreed # dev'.agreement - 1
    OBVIOUS
  <2>1. r.typed.name # chosen \/ r.agreed # dev.agreement
    BY <1>1, <1>4, WrongPin
  <2>2. dev'.agreement = dev.agreement + 1 /\ dev.agreement \in Nat
    BY <1>4 DEF IInv, DeviceInv
  <2>3. QED
    BY <1>4, <2>1, <2>2
<1>7. CASE Refused(c, status)
  <2>1. PICK by, s :
           by = r /\ s = status /\ returned' = [op |-> "refused", by |-> by, status |-> s]
    BY <1>7 DEF Refused, Ends
  <2>2. s = 49 => by.typed.name # chosen' \/ by.agreed # dev'.agreement - 1
    BY <1>6, <2>1
  <2>3. by.phase # "command" /\ s \notin {3, 17, 20, 38, 54, 46, -3, 2}
    BY <1>1, <1>3, <2>1
  <2>4. QED
    BY <2>1, <2>2, <2>3, RefusalExplained
<1>8. QED
  BY <1>5, <1>7, GoExplained, OwnRefusal

-----------------------------------------------------------------------------
(* Signatures.                                                             *)

\* The three kinds of keys: a key binding key, one derived from an ARKG seed
\* and a key the authenticator made as it is.
BlsKey(k, cose) ==
  /\ DOMAIN cose = {-1, -2, -3}
  /\ k.pub = [curve |-> "BLS12381G1", width |-> 48, point |-> cose[-2]]
  /\ k.arkg = Fail
ArkgKey(k, cose) ==
  /\ IsArkgSeed(cose)
  /\ k.pub = BlindPublicKey(cose[-1], <<cose[-2], k.hash, "ctx">>, "ctx")
  /\ k.arkg = Ok([kh |-> [to |-> cose[-2], ikm |-> k.hash, ctx |-> "ctx"], ctx |-> "ctx"])
Ec2Key(k, cose) ==
  /\ DOMAIN cose = {1, 3, -2, -3}
  /\ k.pub = [curve |-> "P-256", width |-> 32, point |-> cose[-2]]
  /\ k.arkg = Fail

\* There are no other kinds.
LEMMA KeyForms ==
  ASSUME NEW k, NEW cose, DerivesFrom(k, cose)
  PROVE  BlsKey(k, cose) \/ ArkgKey(k, cose) \/ Ec2Key(k, cose)
<1>1. PICK algs \in Algs :
        /\ cose = Cose(k.credential, algs)
        /\ Derived(cose, k.hash, algs) = Ok([pub |-> k.pub, arkg |-> k.arkg])
  BY DEF DerivesFrom
<1>2. PICK pub, arkg, hash, id :
        /\ pub = k.pub /\ arkg = k.arkg /\ hash = k.hash /\ id = k.credential
        /\ cose = Cose(id, algs)
        /\ Derived(cose, hash, algs) = Ok([pub |-> pub, arkg |-> arkg])
  BY <1>1
<1>3. CASE ECSDSA_BLS12381 \in algs
  <2>1. DOMAIN cose = {-1, -2, -3} /\ cose[-1] = -65601
    BY <1>2, <1>3 DEF Cose
  <2>2. DecodeBls(cose) =
          Ok([curve |-> "BLS12381G1", width |-> 48, point |-> cose[-2]])
    BY <2>1 DEF DecodeBls, Has
  <2>3. /\ pub = [curve |-> "BLS12381G1", width |-> 48, point |-> cose[-2]]
        /\ arkg = Fail
    BY <1>2, <1>3, <2>2 DEF Derived, Ok, Fail
  <2>4. QED
    BY <1>2, <2>1, <2>3 DEF BlsKey
<1>4. CASE ECSDSA_BLS12381 \notin algs /\ IsArkgSeed(cose)
  <2>1. /\ pub = BlindPublicKey(cose[-1], <<cose[-2], hash, "ctx">>, "ctx")
        /\ arkg = Ok([kh |-> [to |-> cose[-2], ikm |-> hash, ctx |-> "ctx"], ctx |-> "ctx"])
    BY <1>2, <1>4 DEF Derived, DerivePublicKey, KemEncaps, Ok
  <2>2. QED
    BY <1>2, <1>4, <2>1 DEF ArkgKey
<1>5. CASE ECSDSA_BLS12381 \notin algs /\ ~IsArkgSeed(cose)
  <2>1. IsArkgSeed(ArkgSeed(id))
    BY DEF IsArkgSeed, ArkgSeed, Has
  <2>2. DOMAIN cose = {1, 3, -2, -3}
    BY <1>2, <1>5, <2>1 DEF Cose
  <2>3. DecodeEc2(cose) = Ok([curve |-> "P-256", width |-> 32, point |-> cose[-2]])
    BY <2>2 DEF DecodeEc2, Has
  <2>4. /\ pub = [curve |-> "P-256", width |-> 32, point |-> cose[-2]]
        /\ arkg = Fail
    BY <1>2, <1>5, <2>3 DEF Derived, Ok, Fail
  <2>5. QED
    BY <1>2, <2>2, <2>4 DEF Ec2Key
<1>6. QED
  BY <1>3, <1>4, <1>5

\* What an authenticator is asked to sign for a key, and what it answers.
SignArgs(key) ==
  IF key.arkg = Fail THEN Fail
  ELSE Ok(EncodeArkgSignArgs(ARKG_P256_ESP256, key.arkg[1].kh, key.arkg[1].ctx))
SignInput(key, tbs) == [handle |-> key.handle, tbs |-> tbs, args |-> SignArgs(key)]
SignatureBy(key, tbs) ==
  [by |-> key.pub.point, over |-> tbs, form |-> IF IsBls(key) THEN "scalars" ELSE "der"]
SignedData(key, tbs, uv) ==
  AuthData(IF uv THEN {"UV"} ELSE {}, Fail, <<>>, [previewSign |-> At(6, SignatureBy(key, tbs))])

\* A credential asked with the input of its key signs for that key.
LEMMA SignedReply ==
  ASSUME NEW key, NEW cred, DerivesFrom(key, cred.cose), NEW tbs, tbs.len = 32, NEW uv
  PROVE  SignReply(cred, SignInput(key, tbs), uv) = Response(0, At(2, SignedData(key, tbs, uv)))
<1>1. SignInput(key, tbs).tbs = tbs /\ SignInput(key, tbs).args = SignArgs(key)
  BY DEF SignInput
<1>2. PICK cose, pub, hash : cose = cred.cose /\ pub = key.pub /\ hash = key.hash
  OBVIOUS
<1>3. PICK args, sign : args = SignArgs(key) /\ sign = SignInput(key, tbs)
  OBVIOUS
<1>4. /\ cose = cred.cose /\ pub = key.pub /\ hash = key.hash
      /\ args = SignArgs(key) /\ sign = SignInput(key, tbs)
      /\ sign.tbs = tbs /\ sign.args = args
  BY <1>1, <1>2, <1>3
<1>5. BlsKey(key, cose) \/ ArkgKey(key, cose) \/ Ec2Key(key, cose)
  BY <1>4, KeyForms
<1> DEFINE reply(point, form) ==
             Response(0, At(2, AuthData(IF uv THEN {"UV"} ELSE {}, Fail, <<>>,
               [previewSign |-> At(6, [by |-> point, over |-> tbs, form |-> form])])))
<1>6. /\ pub.width = 48 => Response(0, At(2, SignedData(key, tbs, uv))) = reply(pub.point, "scalars")
      /\ pub.width # 48 => Response(0, At(2, SignedData(key, tbs, uv))) = reply(pub.point, "der")
  BY <1>4 DEF SignedData, SignatureBy, IsBls
<1>7. CASE BlsKey(key, cose)
  <2>1. /\ 1 \notin DOMAIN cose /\ ~IsArkgSeed(cose)
        /\ pub.width = 48 /\ pub.point = cose[-2]
    BY <1>4, <1>7 DEF BlsKey, IsArkgSeed, Has
  <2>2. SignReply(cred, sign, uv) = reply(cose[-2], "scalars")
    BY <1>4, <2>1 DEF SignReply
  <2>3. QED
    BY <1>4, <1>6, <2>1, <2>2
<1>8. CASE Ec2Key(key, cose)
  <2>1. /\ 1 \in DOMAIN cose /\ ~IsArkgSeed(cose)
        /\ pub.width = 32 /\ pub.point = cose[-2]
    BY <1>4, <1>8 DEF Ec2Key, IsArkgSeed, Has
  <2>2. SignReply(cred, sign, uv) = reply(cose[-2], "der")
    BY <1>4, <2>1 DEF SignReply
  <2>3. QED
    BY <1>4, <1>6, <2>1, <2>2
<1>9. CASE ArkgKey(key, cose)
  <2>1. PICK arkg : arkg = key.arkg
    OBVIOUS
  <2>2. /\ IsArkgSeed(cose) /\ 1 \in DOMAIN cose
        /\ pub = BlindPublicKey(cose[-1], <<cose[-2], hash, "ctx">>, "ctx")
        /\ arkg = Ok([kh |-> [to |-> cose[-2], ikm |-> hash, ctx |-> "ctx"], ctx |-> "ctx"])
    BY <1>4, <1>9, <2>1 DEF ArkgKey, IsArkgSeed, Has
  <2>3. PICK kh : kh = [to |-> cose[-2], ikm |-> hash, ctx |-> "ctx"]
    OBVIOUS
  <2>4. args = Ok(EncodeArkgSignArgs(ARKG_P256_ESP256, kh, "ctx")) /\ args # Fail
    BY <1>4, <2>1, <2>2, <2>3 DEF SignArgs, Ok, Fail
  <2>5. PICK map : map = args[1]
    OBVIOUS
  <2>6. /\ DOMAIN map = {3, -1, -2} /\ map[-1] = kh /\ map[-2] = "ctx"
    BY <2>4, <2>5 DEF EncodeArkgSignArgs, Ok
  <2>7. kh.to = cose[-2] /\ kh.ikm = hash
    BY <2>3
  <2>8. KemEncaps(cose[-2], hash, "ctx").tau = <<cose[-2], hash, "ctx">>
    BY DEF KemEncaps
  <2>9. pub.width = 32
    BY <2>2 DEF BlindPublicKey
  <2>10. SignReply(cred, sign, uv) = reply(pub.point, "der")
    <3>1. Has(map, {3, -1, -2})
      BY <2>6 DEF Has
    <3>2. BlindPublicKey(cose[-1], KemEncaps(cose[-2], map[-1].ikm, map[-2]).tau, map[-2]) = pub
      BY <2>2, <2>6, <2>7, <2>8
    <3>3. QED
      BY <1>4, <2>2, <2>4, <2>5, <2>6, <2>7, <3>1, <3>2 DEF SignReply
  <2>11. QED
    BY <1>4, <1>6, <2>9, <2>10
<1>10. QED
  BY <1>5, <1>7, <1>8, <1>9

\* A reply that is read as a signature of call c's key, and what is true of it.
Tbs(c) == ToBeSigned(call[c].key, call[c].data)[1]
Reads(c, parsed, truth) ==
  /\ parsed # Fail
  /\ parsed[1].signature = SignatureBy(call[c].key, Tbs(c))
  /\ parsed[1].uv = truth.uv /\ parsed[1].factor = truth.factor
  /\ truth.uv \in BOOLEAN
  /\ \/ truth.factor = Fail
     \/ browser /\ truth.factor = Ok([cat |-> "knowledge", method |-> "other"])

\* Such a signature verifies.
LEMMA SignatureForm ==
  ASSUME NEW key, NEW data, ToBeSigned(key, data) # Fail,
         NEW tbs, tbs = ToBeSigned(key, data)[1]
  PROVE  LET signature == SignatureOf(key, SignatureBy(key, tbs))
             jwk == PublicKeyJwk(key)
         IN
         /\ signature # Fail
         /\ signature[1].by = jwk.point
         /\ signature[1].over = tbs
         /\ tbs.of = data.name /\ tbs.hashed = (jwk.crv = "P-256")
         /\ signature[1].form = IF jwk.crv = "P-256" THEN "raw" ELSE "scalars"
<1>1. PICK point, sig, jwk, signature :
        /\ point = key.pub.point /\ sig = SignatureBy(key, tbs) /\ jwk = PublicKeyJwk(key)
        /\ signature = SignatureOf(key, sig)
  OBVIOUS
<1> DEFINE Form(crv, form) ==
             /\ jwk.crv = crv /\ jwk.point = point
             /\ signature # Fail
             /\ signature[1].by = point /\ signature[1].over = tbs /\ signature[1].form = form
<1>2. CASE IsBls(key)
  <2>1. sig = [by |-> point, over |-> tbs, form |-> "scalars"]
    BY <1>1, <1>2 DEF SignatureBy
  <2>2. jwk = [crv |-> "BLS12381G1", point |-> point]
    BY <1>1, <1>2 DEF PublicKeyJwk
  <2>3. SignatureOf(key, sig) = Ok(sig)
    BY <1>2, <2>1 DEF SignatureOf, ValidateSchnorr
  <2>4. tbs = [of |-> data.name, hashed |-> FALSE, len |-> 32]
    BY <1>2 DEF ToBeSigned, Ok
  <2>5. Form("BLS12381G1", "scalars")
    BY <1>1, <2>1, <2>2, <2>3 DEF Ok, Fail
  <2>6. tbs.of = data.name /\ tbs.hashed = FALSE
    BY <2>4
  <2>7. QED
    BY <1>1, <2>5, <2>6
<1>3. CASE ~IsBls(key)
  <2>1. sig = [by |-> point, over |-> tbs, form |-> "der"]
    BY <1>1, <1>3 DEF SignatureBy
  <2>2. jwk = [crv |-> "P-256", point |-> point]
    BY <1>1, <1>3 DEF PublicKeyJwk
  <2>3. PICK raw : raw = [sig EXCEPT !.form = "raw"]
    OBVIOUS
  <2>4. SignatureOf(key, sig) = Ok(raw)
    BY <1>3, <2>1, <2>3 DEF SignatureOf, DerSignatureToRaw
  <2>5. raw.by = point /\ raw.over = tbs /\ raw.form = "raw"
    BY <2>1, <2>3
  <2>6. tbs = [of |-> data.name, hashed |-> TRUE, len |-> 32]
    BY <1>3 DEF ToBeSigned, Ok
  <2>7. Form("P-256", "raw")
    BY <1>1, <2>2, <2>4, <2>5 DEF Ok, Fail
  <2>8. tbs.of = data.name /\ tbs.hashed = TRUE
    BY <2>6
  <2>9. QED
    BY <1>1, <2>7, <2>8
<1>4. QED
  BY <1>2, <1>3

\* The second factor of a signature, by what is true of its assertion.
LEMMA SecondFactors ==
  ASSUME NEW c, NEW result, NEW second, second = SecondFactor(c, result),
         NEW uv, result.uv = uv, NEW factor, result.factor = factor,
         NEW host, call[c].host = host, host \in HostFactor \cup {None},
         NEW typed, ~browser => call[c].typed = typed /\ typed \in Entry,
         \/ factor = Fail
         \/ factor = Ok([cat |-> "knowledge", method |-> "other"])
  PROVE  /\ ~uv => second = {}
         /\ uv /\ ~browser =>
              second = IF ClassifyPin(typed) = "unclassified" THEN {}
                       ELSE {[cat |-> "knowledge", method |-> ClassifyPin(typed)]}
         /\ uv /\ browser /\ factor # Fail => second = {factor[1]}
         /\ uv /\ browser /\ factor = Fail =>
              second = IF host = None THEN {} ELSE {host}
<1>1. PICK class : class = ClassifyPin(typed)
  OBVIOUS
<1>2. None \notin [cat : {"knowledge"}, method : {"other"} \cup {ClassifyPin(p) : p \in Entry}]
  BY CeremonyAssumption
<1>3. CASE ~uv
  BY <1>3 DEF SecondFactor
<1>4. CASE uv /\ ~browser
  <2>1. PICK f : f = [cat |-> "knowledge", method |-> class]
    OBVIOUS
  <2>2. f # None /\ f.method = class
    <3>1. class \in {ClassifyPin(p) : p \in Entry}
      BY <1>1, <1>4
    <3>2. QED
      BY <1>2, <2>1, <3>1
  <2>3. second = {g \in {f} : g # None /\ g.method # "unclassified"}
    BY <1>1, <1>4, <2>1 DEF SecondFactor
  <2>4. QED
    BY <1>1, <1>4, <2>1, <2>2, <2>3
<1>5. CASE uv /\ browser /\ factor # Fail
  <2>1. PICK f : f = factor[1]
    OBVIOUS
  <2>2. f = [cat |-> "knowledge", method |-> "other"]
    BY <1>5, <2>1 DEF Ok
  <2>3. f # None /\ f.method # "unclassified"
    BY <1>2, <2>2
  <2>4. second = {g \in {f} : g # None /\ g.method # "unclassified"}
    BY <1>5, <2>1 DEF SecondFactor
  <2>5. QED
    BY <1>5, <2>1, <2>3, <2>4
<1>6. CASE uv /\ browser /\ factor = Fail
  <2>1. second = {g \in {host} : g # None /\ g.method # "unclassified"}
    BY <1>6 DEF SecondFactor
  <2>2. host # None => host.method # "unclassified"
    BY CeremonyAssumption
  <2>3. QED
    BY <1>6, <2>1, <2>2
<1>7. QED
  BY <1>3, <1>4, <1>5, <1>6

\* A call that returns a signature read from a reply.
LEMMA SignExplained ==
  ASSUME IInv, NEW c \in Caller, call[c].phase = "command", call[c].op = "sign",
         UNCHANGED browser, NEW parsed, NEW truth,
         ReturnSignature(c, parsed, truth), Reads(c, parsed, truth)
  PROVE  Explained'
<1>1. PICK by, key, data, first, tbs :
        /\ by = call[c] /\ key = by.key /\ data = by.data
        /\ first = parsed[1] /\ tbs = Tbs(c)
  OBVIOUS
<1>2. PICK host, uv, factor, second :
        /\ host = by.host /\ uv = truth.uv /\ factor = truth.factor
        /\ second = SecondFactor(c, first)
  OBVIOUS
<1>3. PICK sig, signature :
        sig = SignatureBy(key, tbs) /\ signature = SignatureOf(key, sig)
  OBVIOUS
<1>4. /\ parsed # Fail /\ first.signature = sig /\ first.uv = uv /\ first.factor = factor
      /\ uv \in BOOLEAN
      /\ \/ factor = Fail
         \/ browser /\ factor = Ok([cat |-> "knowledge", method |-> "other"])
  BY <1>1, <1>2, <1>3 DEF Reads
<1>5. /\ InputInv(by) /\ ExchangeInv(by) /\ Signs(by) /\ browser \in BOOLEAN
      /\ by.phase = "command"
  BY <1>1 DEF IInv, CallsInv, Signs, Active
<1>6. /\ ToBeSigned(key, data) # Fail /\ tbs = ToBeSigned(key, data)[1]
      /\ host \in HostFactor \cup {None} /\ Validate(host)
      /\ by.fresh => ~browser
  BY <1>1, <1>2, <1>5 DEF InputInv, Tbs, MayBeFresh
<1>7. PICK jwk : jwk = PublicKeyJwk(key)
  OBVIOUS
<1>8. /\ signature # Fail
      /\ signature[1].by = jwk.point /\ signature[1].over = tbs
      /\ tbs.of = data.name /\ tbs.hashed = (jwk.crv = "P-256")
      /\ signature[1].form = IF jwk.crv = "P-256" THEN "raw" ELSE "scalars"
  BY <1>3, <1>6, <1>7, SignatureForm
<1>9. PICK final : final = signature[1]
  OBVIOUS
<1>10. returned' = [op |-> "sign", by |-> by, signature |-> final, second |-> second,
                    truth |-> truth]
  BY <1>1, <1>2, <1>3, <1>4, <1>8, <1>9 DEF ReturnSignature, Ends
<1>11. PICK typed, pin : typed = by.typed /\ pin = by.pin
  OBVIOUS
<1>12. ~browser =>
         /\ "typed" \in DOMAIN by /\ typed \in Entry /\ pin = NormalizePin(typed)
         /\ ClassifyPin(pin) = ClassifyPin(typed)
  <2> SUFFICES ASSUME ~browser
               PROVE  /\ "typed" \in DOMAIN by /\ typed \in Entry /\ pin = NormalizePin(typed)
                      /\ ClassifyPin(pin) = ClassifyPin(typed)
    OBVIOUS
  <2>1. "pin" \in DOMAIN by
    BY <1>5 DEF ExchangeInv, Prompted, Informed
  <2>2. "typed" \in DOMAIN by /\ typed \in Entry /\ pin = NormalizePin(typed)
    BY <1>5, <1>11, <2>1 DEF ExchangeInv
  <2>3. typed \in Pin
    BY <2>2, CeremonyAssumption
  <2>4. QED
    BY <2>2, <2>3, PinsAreNormal
<1>13. /\ ~uv => second = {}
       /\ uv /\ ~browser =>
            second = IF ClassifyPin(typed) = "unclassified" THEN {}
                     ELSE {[cat |-> "knowledge", method |-> ClassifyPin(typed)]}
       /\ uv /\ browser /\ factor # Fail => second = {factor[1]}
       /\ uv /\ browser /\ factor = Fail => second = IF host = None THEN {} ELSE {host}
  <2>1. call[c].host = host /\ (~browser => call[c].typed = typed /\ typed \in Entry)
    BY <1>1, <1>2, <1>11, <1>12
  <2>2. QED
    BY <1>2, <1>4, <1>6, <2>1, SecondFactors
<1>14. /\ returned'.op = "sign" /\ returned'.by = by /\ returned'.signature = final
       /\ returned'.second = second /\ returned'.truth = truth
  BY <1>10
<1>15. SignatureVerifies'
  <2>1. /\ final.by = jwk.point /\ final.over.of = data.name
        /\ final.over.hashed = (jwk.crv = "P-256")
        /\ final.form = IF jwk.crv = "P-256" THEN "raw" ELSE "scalars"
    BY <1>8, <1>9
  <2>2. PublicKeyJwk(by.key) = jwk /\ by.data.name = data.name
    BY <1>1, <1>7
  <2>3. QED
    BY <1>14, <2>1, <2>2 DEF SignatureVerifies
<1>16. FactorIsBorneOut'
  <2>1. \A f \in second :
          /\ uv
          /\ f = IF ~browser THEN [cat |-> "knowledge", method |-> ClassifyPin(pin)]
                 ELSE IF factor # Fail THEN factor[1] ELSE host
    BY <1>4, <1>5, <1>12, <1>13
  <2>2. uv /\ factor # Fail => second # {}
    BY <1>4, <1>13
  <2>3. by.fresh => ~browser /\ "typed" \in DOMAIN by
    BY <1>6, <1>12
  <2>4. browser' = browser /\ pin = by.pin /\ host = by.host
        /\ uv = truth.uv /\ factor = truth.factor
    BY <1>2, <1>11
  <2>5. QED
    BY <1>14, <2>1, <2>2, <2>3, <2>4 DEF FactorIsBorneOut
<1>17. CapabilityIsKept'
  <2>1. CASE ~browser
    <3>1. uv /\ ClassifyPin(typed) # "unclassified" =>
            \E f \in second : f.cat # "possession"
      <4>1. PICK f : f = [cat |-> "knowledge", method |-> ClassifyPin(typed)]
        OBVIOUS
      <4>2. f.cat = "knowledge"
        BY <4>1
      <4>3. QED
        BY <1>13, <2>1, <4>1, <4>2
    <3>2. Capability' = "can" /\ ClassifyPin(by.typed) = ClassifyPin(typed) /\ truth.uv = uv
      BY <1>2, <1>11, <2>1 DEF Capability
    <3>3. QED
      BY <1>14, <3>1, <3>2 DEF CapabilityIsKept
  <2>2. CASE browser
    <3>1. uv /\ host # None => \E f \in second : f.cat # "possession"
      <4>1. CASE factor = Fail
        BY <1>6, <1>13, <2>2, <4>1 DEF Validate
      <4>2. CASE factor # Fail
        <5>1. PICK f : f = factor[1]
          OBVIOUS
        <5>2. f = [cat |-> "knowledge", method |-> "other"]
          BY <1>4, <4>2, <5>1 DEF Ok
        <5>3. QED
          BY <1>13, <2>2, <4>2, <5>1, <5>2
      <4>3. QED
        BY <4>1, <4>2
    <3>2. Capability' = "with host factor" /\ by.host = host /\ truth.uv = uv
      BY <1>2, <2>2 DEF Capability
    <3>3. QED
      BY <1>14, <3>1, <3>2 DEF CapabilityIsKept
  <2>3. QED
    BY <2>1, <2>2
<1>18. RightPinIsAccepted' /\ UnsuitableNeverEnrols' /\ CommandsAreUnderstood'
  BY <1>14 DEF RightPinIsAccepted, UnsuitableNeverEnrols, CommandsAreUnderstood
<1>19. QED
  BY <1>15, <1>16, <1>17, <1>18 DEF Explained

\* The authenticator data of a signature, and what is read from it.
LEMMA SignedDataRead ==
  ASSUME NEW key, NEW tbs, NEW uv,
         NEW authData, authData = SignedData(key, tbs, uv),
         NEW resp, resp = Response(0, At(2, authData))
  PROVE  LET parsed == ParseGetAssertionResponse(resp) IN
         /\ resp.status = 0 /\ resp.body[2] = authData
         /\ parsed # Fail
         /\ parsed[1].signature = SignatureBy(key, tbs)
         /\ parsed[1].uv = ("UV" \in authData.flags)
         /\ parsed[1].factor = Fail
         /\ ExtractSignature(authData)[1] = SignatureBy(key, tbs)
<1>1. PICK signature, flags, ext :
        /\ signature = SignatureBy(key, tbs)
        /\ flags = IF uv THEN {"UV"} ELSE {}
        /\ ext = [previewSign |-> At(6, signature)]
  OBVIOUS
<1>2. authData = AuthData(flags, Fail, <<>>, ext)
  BY <1>1 DEF SignedData
<1>3. DOMAIN ext = {"previewSign"} /\ ext.previewSign = At(6, signature)
  BY <1>1
<1>4. authData.flags = flags \cup {"ED"} /\ authData.ext = ext
  BY <1>2, <1>3 DEF AuthData
<1>5. "AT" \notin authData.flags /\ "ED" \in authData.flags
  BY <1>1, <1>4
<1>6. ExtractVerifiedFactor(authData) = Fail
  BY <1>3, <1>4 DEF ExtractVerifiedFactor
<1>7. LET parsed == ParseGetAssertionResponse(Response(0, At(2, authData))) IN
      /\ parsed # Fail
      /\ parsed[1].signature = signature
      /\ parsed[1].uv = ("UV" \in authData.flags)
      /\ parsed[1].factor = ExtractVerifiedFactor(authData)
      /\ ExtractSignature(authData)[1] = signature
  BY <1>3, <1>4, <1>5, SignatureRead
<1>8. resp.status = 0 /\ resp.body[2] = authData
  BY DEF Response, At
<1>9. QED
  BY <1>1, <1>6, <1>7, <1>8

\* The credential a signature is asked of signs for the key it is asked for.
LEMMA CredentialSigns ==
  ASSUME IInv, NEW c \in Caller, call[c].phase = "command", call[c].op = "sign",
         NEW cred \in dev.creds, cred.id = call[c].key.credential, NEW uv
  PROVE  SignReply(cred, SignInput(call[c].key, Tbs(c)), uv)
           = Response(0, At(2, SignedData(call[c].key, Tbs(c), uv)))
<1>1. PICK r, key, data, tbs : r = call[c] /\ key = r.key /\ data = r.data /\ tbs = Tbs(c)
  OBVIOUS
<1>2. Signs(r) /\ InputInv(r) /\ KeyInv(key)
  BY <1>1 DEF IInv, CallsInv, CopiesInv, Signs, Active
<1>3. tbs.len = 32
  <2>1. ToBeSigned(key, data) # Fail /\ tbs = ToBeSigned(key, data)[1]
    BY <1>1, <1>2 DEF InputInv, Tbs
  <2>2. QED
    BY <2>1 DEF ToBeSigned, Ok, Fail
<1>4. DerivesFrom(key, cred.cose)
  <2>1. cred.id = key.credential
    BY <1>1
  <2>2. PICK cose : cose = key.attestation[2].cose
    OBVIOUS
  <2>3. cred.cose = cose /\ DerivesFrom(key, cose)
    BY <1>2, <2>1, <2>2 DEF KeyInv
  <2>4. QED
    BY <2>3
<1>5. QED
  BY <1>1, <1>3, <1>4, SignedReply

\* What an authenticator does with the plugin's GetAssertion.
LEMMA RawAssertion ==
  ASSUME IInv, NEW c \in Caller, ~browser, call[c].phase = "command", call[c].op = "sign",
         NEW msg, msg = BuildGetAssertionRequest(RawRp, call[c].n, call[c].key.credential,
                          SignInput(call[c].key, Tbs(c)), Authenticate(c, call[c].n))
  PROVE  \/ /\ Assertion(msg) = Refusal(51)
            /\ dev.token = None \/ dev.token.id # call[c].n
         \/ /\ Assertion(msg) = Refusal(46)
            /\ \A d \in dev.creds : d.id # call[c].key.credential
         \/ Assertion(msg) =
              Response(0, At(2, SignedData(call[c].key, Tbs(c), model.flagsUv)))
<1>1. PICK r, key, n, tbs, protocol, credential, handle, args, sign :
        /\ r = call[c] /\ key = r.key /\ n = r.n /\ tbs = Tbs(c) /\ protocol = r.protocol
        /\ credential = key.credential /\ handle = key.handle
        /\ args = SignArgs(key) /\ sign = SignInput(key, tbs)
  OBVIOUS
<1>2. sign = [handle |-> handle, tbs |-> tbs, args |-> args]
  BY <1>1 DEF SignInput
<1>3. args = Fail \/ \E a : args = Ok(a)
  BY <1>1 DEF SignArgs
<1>4. PICK auth, param :
        /\ param = [token |-> n, over |-> n]
        /\ auth = [param |-> param, protocol |-> protocol]
  OBVIOUS
<1>5. Authenticate(c, n) = Ok(auth)
  BY <1>1, <1>4 DEF Authenticate
<1>6. msg = BuildGetAssertionRequest(RawRp, n, credential, sign, Ok(auth))
  BY <1>1, <1>5
<1>7. PICK p, ext : p = msg.params /\ ext = SignByCredential(sign)
  OBVIOUS
<1>8. /\ DOMAIN p = {1, 2, 3, 4, 6, 7}
      /\ p[1] = RawRp /\ p[2] = n /\ p[3][1].id = credential
      /\ p[4].previewSign = ext /\ p[6] = auth.param /\ p[7] = auth.protocol
  BY <1>6, <1>7, GetAssertionParams
<1>9. p[6].token = n /\ p[6].over = n /\ p[7] = protocol
  BY <1>4, <1>8
<1>10. [handle |-> ext[2], tbs |-> ext[6], args |-> IF 7 \in DOMAIN ext THEN Ok(ext[7]) ELSE Fail]
         = sign
  <2>1. /\ ext[2] = handle /\ ext[6] = tbs
        /\ 7 \in DOMAIN ext <=> args # Fail
        /\ args # Fail => ext[7] = args[1]
    BY <1>2, <1>7, SignInputs
  <2>2. args # Fail => args = Ok(args[1])
    BY <1>3 DEF Ok
  <2>3. (IF 7 \in DOMAIN ext THEN Ok(ext[7]) ELSE Fail) = args
    BY <2>1, <2>2
  <2>4. QED
    BY <1>2, <2>1, <2>3
<1>11. /\ {1, 2, 3, 4} \subseteq DOMAIN p /\ DOMAIN p \subseteq 1 .. 7
       /\ {6, 7} \subseteq DOMAIN p
  BY <1>8
<1>12. CASE ~Verifies(n, protocol, n, n, "ga", RawRp)
  <2>1. Assertion(msg) = Refusal(51)
    <3>1. ~Verifies(p[6].token, p[7], p[2], p[6].over, "ga", p[1])
      BY <1>8, <1>9, <1>12
    <3>2. QED
      BY <1>7, <1>11, <3>1 DEF Assertion
  <2>2. dev.token = None \/ dev.token.id # n
    <3>1. "ga" \in Permission(call[c].op)
      BY DEF Permission
    <3>2. QED
      BY <1>1, <1>12, <3>1, TokenVerifies
  <2>3. QED
    BY <1>1, <2>1, <2>2
<1>13. CASE /\ Verifies(n, protocol, n, n, "ga", RawRp)
            /\ ~\E d \in dev.creds : d.id = credential /\ d.rp = RawRp
  <2>1. Assertion(msg) = Refusal(46)
    BY <1>7, <1>8, <1>9, <1>11, <1>13 DEF Assertion
  <2>2. \A d \in dev.creds : d.rp = RawRp
    BY DEF IInv, DeviceInv
  <2>3. QED
    BY <1>1, <1>13, <2>1, <2>2
<1>14. CASE /\ Verifies(n, protocol, n, n, "ga", RawRp)
            /\ \E d \in dev.creds : d.id = credential /\ d.rp = RawRp
  <2>1. PICK cred : cred = CHOOSE d \in dev.creds : d.id = p[3][1].id
    OBVIOUS
  <2>2. cred \in dev.creds /\ cred.id = credential
    BY <1>8, <1>14, <2>1
  <2>3. Assertion(msg) = SignReply(cred, sign, model.flagsUv)
    BY <1>7, <1>8, <1>9, <1>10, <1>11, <1>14, <2>1 DEF Assertion
  <2>4. SignReply(cred, sign, model.flagsUv) =
          Response(0, At(2, SignedData(key, tbs, model.flagsUv)))
    BY <1>1, <2>2, CredentialSigns
  <2>5. QED
    BY <1>1, <2>3, <2>4
<1>15. QED
  BY <1>12, <1>13, <1>14

\* Its command as it is sent.
LEMMA AssertionSent ==
  ASSUME NEW c, GetAssertion(c)
  PROVE  LET msg == BuildGetAssertionRequest(RawRp, call[c].n, call[c].key.credential,
                      SignInput(call[c].key, Tbs(c)), Authenticate(c, call[c].n))
         IN GetAssertionRaw(c, msg) \/ GetAssertionBrowser(c, msg)
BY DEF GetAssertion, SignInput, SignArgs, Tbs

\* Over a raw transport: a signature of the key, or no token, or no credential.
LEMMA GetAssertionRawExplained ==
  ASSUME IInv, NEW c \in Caller, GetAssertion(c), ~browser
  PROVE  Explained'
<1>1. PICK msg : msg = BuildGetAssertionRequest(RawRp, call[c].n, call[c].key.credential,
                         SignInput(call[c].key, Tbs(c)), Authenticate(c, call[c].n))
  OBVIOUS
<1>2. GetAssertionRaw(c, msg)
  BY <1>1, AssertionSent DEF GetAssertionBrowser
<1>3. PICK reply : reply = Assertion(msg)
  OBVIOUS
<1>4. /\ dev' = [dev EXCEPT !.token = IF reply.status = 0 THEN None ELSE @]
      /\ \/ IF reply.status = 0
              THEN ReturnSignature(c, ParseGetAssertionResponse(reply),
                     [uv |-> "UV" \in reply.body[2].flags, factor |-> Fail])
              ELSE Refused(c, reply.status)
         \/ Lost(c)
  BY <1>2, <1>3 DEF GetAssertionRaw
<1>5. call[c].phase = "command" /\ call[c].op = "sign" /\ UNCHANGED browser
  BY DEF GetAssertion, In, static
<1>6. CASE Lost(c)
  BY <1>6, OwnRefusal DEF Lost
<1>7. CASE reply = Refusal(51) /\ (dev.token = None \/ dev.token.id # call[c].n) /\ ~Lost(c)
  <2>1. reply.status = 51
    BY <1>7 DEF Refusal, Response
  <2>2. PICK by, status :
           /\ by = call[c] /\ status = 51
           /\ returned' = [op |-> "refused", by |-> by, status |-> status]
    BY <1>4, <1>7, <2>1 DEF Refused, Ends
  <2>3. dev'.token = dev.token
    BY <1>4, <2>1 DEF IInv, DeviceInv
  <2>4. dev'.token = None \/ dev'.token.id # by.n
    BY <1>7, <2>2, <2>3
  <2>5. status \notin {49, 2, 3, 17, 20, 38, 54, -3, 46}
    BY <2>2
  <2>6. QED
    BY <2>2, <2>4, <2>5, RefusalExplained
<1>8. CASE /\ reply = Refusal(46) /\ ~Lost(c)
           /\ \A d \in dev.creds : d.id # call[c].key.credential
  <2>1. reply.status = 46
    BY <1>8 DEF Refusal, Response
  <2>2. PICK by, status :
           /\ by = call[c] /\ status = 46
           /\ returned' = [op |-> "refused", by |-> by, status |-> status]
    BY <1>4, <1>8, <2>1 DEF Refused, Ends
  <2>3. dev'.creds = dev.creds
    BY <1>4 DEF IInv, DeviceInv
  <2>4. \A d \in dev'.creds : d.id # by.key.credential
    BY <1>8, <2>2, <2>3
  <2>5. status \notin {49, 2, 3, 17, 20, 38, 54, -3, 51}
    BY <2>2
  <2>6. /\ status = 49 => by.typed.name # chosen' \/ by.agreed # dev'.agreement - 1
        /\ status = 2 => by.phase \in {"agree to set", "agree", "retries"}
        /\ status \notin {3, 17, 20, 38, 54}
        /\ status = -3 => ~model'.ext
        /\ status = 51 /\ by.phase = "command" => dev'.token = None \/ dev'.token.id # by.n
        /\ status = 46 => \A d \in dev'.creds : d.id # by.key.credential
    BY <2>4, <2>5
  <2>7. returned' = [op |-> "refused", by |-> by, status |-> status]
    BY <2>2
  <2>8. QED
    BY <2>6, <2>7, RefusalExplained
<1>9. CASE /\ reply = Response(0, At(2, SignedData(call[c].key, Tbs(c), model.flagsUv)))
           /\ ~Lost(c)
  <2>1. PICK key, tbs, uv : key = call[c].key /\ tbs = Tbs(c) /\ uv = model.flagsUv
    OBVIOUS
  <2>2. PICK authData : authData = SignedData(key, tbs, uv)
    OBVIOUS
  <2>3. reply = Response(0, At(2, authData))
    BY <1>9, <2>1, <2>2
  <2>4. PICK parsed : parsed = ParseGetAssertionResponse(reply)
    OBVIOUS
  <2>5. /\ reply.status = 0 /\ reply.body[2] = authData
        /\ parsed # Fail
        /\ parsed[1].signature = SignatureBy(key, tbs)
        /\ parsed[1].uv = ("UV" \in authData.flags)
        /\ parsed[1].factor = Fail
    BY <2>2, <2>3, <2>4, SignedDataRead
  <2>6. PICK truth : truth = [uv |-> "UV" \in authData.flags, factor |-> Fail]
    OBVIOUS
  <2>7. ReturnSignature(c, parsed, truth)
    BY <1>4, <1>9, <2>4, <2>5, <2>6
  <2>8. truth.uv = ("UV" \in authData.flags) /\ truth.factor = Fail
    BY <2>6
  <2>9. Reads(c, parsed, truth)
    BY <2>1, <2>5, <2>8 DEF Reads
  <2>10. QED
    BY <1>5, <2>7, <2>9, SignExplained
<1>10. QED
  BY <1>1, <1>3, <1>5, <1>6, <1>7, <1>8, <1>9, RawAssertion

\* Over a browser: a signature of the key, or a user who declines.
LEMMA GetAssertionBrowserExplained ==
  ASSUME IInv, NEW c \in Caller, GetAssertion(c), browser
  PROVE  Explained'
<1>1. call[c].phase = "command" /\ call[c].op = "sign" /\ UNCHANGED browser
  BY DEF GetAssertion, In, static
<1>2. PICK n, key, tbs, credential, handle, args, sign :
        /\ n = call[c].n /\ key = call[c].key /\ tbs = Tbs(c)
        /\ credential = key.credential /\ handle = key.handle /\ args = SignArgs(key)
        /\ sign = [handle |-> handle, tbs |-> tbs, args |-> args]
  OBVIOUS
<1>3. sign = SignInput(key, tbs)
  BY <1>2 DEF SignInput
<1>4. args = Fail \/ args = Ok(args[1])
  BY <1>2 DEF SignArgs, Ok
<1>5. PICK msg : msg = BuildGetAssertionRequest(RawRp, n, credential, sign, Fail)
  OBVIOUS
<1>6. GetAssertionBrowser(c, msg)
  <2>1. Authenticate(c, n) = Fail
    BY DEF Authenticate
  <2>2. QED
    BY <1>2, <1>3, <1>5, <2>1, AssertionSent DEF GetAssertionRaw
<1>7. PICK parsed, req : parsed = ParseGetAssertionRequest(msg) /\ req = parsed[1]
  OBVIOUS
<1>8. parsed = Ok([rp |-> RawRp, challenge |-> n, credential |-> credential, sign |-> sign])
  BY <1>2, <1>4, <1>5, <1>7, GetAssertionReadBack
<1>9. parsed # Fail /\ req.credential = credential /\ req.sign = sign
  BY <1>7, <1>8 DEF Ok, Fail
<1>10. \/ Refused(c, -2)
       \/ \E cred \in {d \in dev.creds : d.id = req.credential /\ d.rp = Hostname},
             a \in BrowserAssertion :
            LET inputs == SignByCredentialInputs(req.credential, req.sign)
                reply == SignReply(cred, inputs.previewSign.signByCredential[cred.id], a.uv)
            IN
            IF reply.status # 0 THEN Refused(c, reply.status)
            ELSE ReturnSignature(c, ParseGetAssertionResponse(
                   EncodeGetAssertionResponse(
                     [signature |-> ExtractSignature(reply.body[2])[1],
                      uv |-> a.uv, factor |-> a.factor])), a)
  BY <1>6, <1>7, <1>9 DEF GetAssertionBrowser
<1>11. CASE Refused(c, -2)
  BY <1>11, OwnRefusal
<1>12. CASE ~Refused(c, -2)
  <2>1. PICK cred \in dev.creds, a \in BrowserAssertion :
          /\ cred.id = req.credential
          /\ LET inputs == SignByCredentialInputs(req.credential, req.sign)
                 reply == SignReply(cred, inputs.previewSign.signByCredential[cred.id], a.uv)
             IN
             IF reply.status # 0 THEN Refused(c, reply.status)
             ELSE ReturnSignature(c, ParseGetAssertionResponse(
                    EncodeGetAssertionResponse(
                      [signature |-> ExtractSignature(reply.body[2])[1],
                       uv |-> a.uv, factor |-> a.factor])), a)
    BY <1>10, <1>12
  <2>2. PICK id, uv, factor : id = cred.id /\ uv = a.uv /\ factor = a.factor
    OBVIOUS
  <2>3. SignByCredentialInputs(id, sign).previewSign.signByCredential[id] = sign
    BY DEF SignByCredentialInputs, At
  <2>4. PICK reply : reply = SignReply(cred, sign, uv)
    OBVIOUS
  <2>5. IF reply.status # 0 THEN Refused(c, reply.status)
        ELSE ReturnSignature(c, ParseGetAssertionResponse(
               EncodeGetAssertionResponse(
                 [signature |-> ExtractSignature(reply.body[2])[1],
                  uv |-> uv, factor |-> factor])), a)
    BY <1>9, <2>1, <2>2, <2>3, <2>4
  <2>6. PICK authData : authData = SignedData(key, tbs, uv)
    OBVIOUS
  <2>7. reply = Response(0, At(2, authData))
    BY <1>1, <1>2, <1>3, <1>9, <2>1, <2>4, <2>6, CredentialSigns
  <2>8. /\ reply.status = 0 /\ reply.body[2] = authData
        /\ ExtractSignature(authData)[1] = SignatureBy(key, tbs)
    BY <2>6, <2>7, SignedDataRead
  <2>9. PICK signature, result :
          /\ signature = SignatureBy(key, tbs)
          /\ result = [signature |-> signature, uv |-> uv, factor |-> factor]
    OBVIOUS
  <2>10. PICK read : read = ParseGetAssertionResponse(EncodeGetAssertionResponse(result))
    OBVIOUS
  <2>11. ReturnSignature(c, read, a)
    BY <2>5, <2>8, <2>9, <2>10
  <2>12. /\ uv \in BOOLEAN
         /\ factor = Fail \/ factor = Ok([cat |-> "knowledge", method |-> "other"])
    BY <2>1, <2>2 DEF BrowserAssertion
  <2>13. result.signature = signature /\ result.uv = uv /\ result.factor = factor
    BY <2>9
  <2>14. \/ result.factor = Fail
         \/ \E f : /\ result.factor = Ok(f)
                   /\ f.cat \in {"knowledge", "inherence"}
    <3>1. PICK f : f = [cat |-> "knowledge", method |-> "other"]
      OBVIOUS
    <3>2. f.cat \in {"knowledge", "inherence"}
      BY <3>1
    <3>3. QED
      BY <2>12, <2>13, <3>1, <3>2
  <2>15. /\ read # Fail /\ read[1].signature = signature
         /\ read[1].uv = uv /\ read[1].factor = factor
    BY <2>10, <2>12, <2>13, <2>14, GetAssertionRoundTrip
  <2>16. Reads(c, read, a)
    BY <1>2, <2>2, <2>9, <2>12, <2>15 DEF Reads
  <2>17. QED
    BY <1>1, <2>11, <2>16, SignExplained
<1>13. QED
  BY <1>11, <1>12

\* GetAssertion over either transport.
LEMMA GetAssertionExplained ==
  ASSUME IInv, NEW c \in Caller, GetAssertion(c)
  PROVE  Explained'
BY GetAssertionRawExplained, GetAssertionBrowserExplained

-----------------------------------------------------------------------------
(* The invariant of every behaviour.                                       *)

\* The invariant holds at first.
LEMMA InitInv ==
  ASSUME Init
  PROVE  IInv /\ Explained
<1>1. /\ browser \in BOOLEAN /\ model \in Model /\ keys = {}
      /\ call = [c \in Caller |-> Idle] /\ calls = 0 /\ faults = 0 /\ resets = 0
      /\ returned = Nothing
  BY DEF Init
<1>2. PICK pin \in {None} \cup (IF model.clientPin THEN {FactoryPin} ELSE {}) :
        /\ dev = DeviceInit(pin)
        /\ chosen = IF pin = None THEN None ELSE pin.name
  BY DEF Init
<1>3. /\ DOMAIN dev = {"pin", "retries", "consecutive", "agreement", "token", "creds", "made"}
      /\ dev.pin = pin /\ dev.retries = MaxRetries /\ dev.consecutive = 0 /\ dev.agreement = 0
      /\ dev.token = None /\ dev.creds = {} /\ dev.made = 0
  BY <1>2 DEF DeviceInit
<1>4. \A c \in Caller : /\ OperationInv(call[c]) /\ InputInv(call[c]) /\ ExchangeInv(call[c])
                        /\ ~Active(call[c])
  BY <1>1, IdleInv
<1>5. CallsInv
  BY <1>1, <1>4 DEF CallsInv
<1>6. CountInv
  <2>1. Making = {}
    BY <1>4 DEF Making, Generates
  <2>2. IsFiniteSet(Making) /\ Cardinality(Making) = 0
    BY <2>1, FS_EmptySet
  <2>3. QED
    BY <1>1, <1>3, <2>2, Bounds DEF CountInv
<1>7. DeviceInv
  BY <1>3, Bounds DEF DeviceInv
<1>8. PinInv
  <2>1. CASE pin = None
    BY <1>3, <2>1 DEF PinInv
  <2>2. CASE pin # None
    <3>1. pin = FactoryPin /\ model.clientPin /\ chosen = pin.name
      BY <1>2, <2>2
    <3>2. NormalizePin(FactoryPin) = FactoryPin
      BY FactoryPinIsComposed
    <3>3. QED
      BY <1>3, <3>1, <3>2 DEF PinInv
  <2>3. QED
    BY <2>1, <2>2
<1>9. TokenInv
  BY <1>3 DEF TokenInv
<1>10. FitsInv /\ CopiesInv
  BY <1>4 DEF FitsInv, FitInv, CopiesInv, Generates, Signs
<1>11. KeysInv
  BY <1>1 DEF KeysInv
<1>12. Explained
  <2>1. returned.op = "none"
    BY <1>1 DEF Nothing
  <2>2. QED
    BY <2>1 DEF Explained, RightPinIsAccepted, UnsuitableNeverEnrols, CommandsAreUnderstood,
       SignatureVerifies, FactorIsBorneOut, CapabilityIsKept
<1>13. QED
  BY <1>1, <1>5, <1>6, <1>7, <1>8, <1>9, <1>10, <1>11, <1>12 DEF IInv

\* A step of a call keeps it.
LEMMA StepInv ==
  ASSUME IInv, NEW c \in Caller, Step(c)
  PROVE  IInv' /\ Explained'
<1>1. CASE GetInfo(c)
  BY <1>1, GetInfoStep, QuietExplained
<1>2. CASE GetRetries(c)
  BY <1>2, GetRetriesStep, GetRetriesExplained
<1>3. ASSUME NEW p \in Entry, Answer(c, p)
      PROVE  IInv' /\ Explained'
  BY <1>3, AnswerStep, AnswerExplained
<1>4. CASE Cancel(c)
  BY <1>4, CancelStep, AnswerExplained
<1>5. CASE KeyAgreement(c)
  BY <1>5, KeyAgreementStep, KeyAgreementExplained
<1>6. CASE SetPin(c)
  BY <1>6, SetPinStep, SetPinExplained
<1>7. CASE GetToken(c)
  BY <1>7, GetTokenStep, GetTokenExplained
<1>8. CASE MakeCredential(c)
  BY <1>8, MakeCredentialStep
<1>9. CASE GetAssertion(c)
  BY <1>9, GetAssertionStep, GetAssertionExplained
<1>10. CASE NotDelivered(c)
  BY <1>10, NotDeliveredStep, AnswerExplained
<1>11. QED
  BY <1>1, <1>2, <1>3, <1>4, <1>5, <1>6, <1>7, <1>8, <1>9, <1>10 DEF Step

\* Every step keeps it.
LEMMA NextInv ==
  ASSUME IInv, Next
  PROVE  IInv' /\ Explained'
<1>1. ASSUME NEW c \in Caller, NEW alg \in {ARKG_P256_ESP256, ECSDSA_BLS12381},
             StartGenerate(c, {alg})
      PROVE  IInv' /\ Explained'
  <2>1. {alg} \in Algs
    BY <1>1 DEF Algs
  <2>2. CallsInv' /\ Begins(c)
    BY <1>1, <2>1, StartGenerateCalls
  <2>3. UNCHANGED <<dev, keys, chosen, faults>>
    BY <1>1 DEF StartGenerate
  <2>4. QED
    BY <1>1, <2>2, <2>3, StartStep, QuietExplained
<1>2. ASSUME NEW c \in Caller, NEW key \in keys, NEW data \in Data, NEW fresh \in BOOLEAN,
             NEW host \in HostFactor \cup {None}, StartSign(c, key, data, fresh, host)
      PROVE  IInv' /\ Explained'
  <2>1. CallsInv' /\ Begins(c)
    BY <1>2, StartSignCalls
  <2>2. UNCHANGED <<dev, keys, chosen, faults>>
    BY <1>2 DEF StartSign
  <2>3. QED
    BY <1>2, <2>1, <2>2, StartStep, QuietExplained
<1>3. ASSUME NEW c \in Caller, StartDescribe(c)
      PROVE  IInv' /\ Explained'
  <2>1. CallsInv' /\ Begins(c)
    BY <1>3, StartDescribeCalls
  <2>2. UNCHANGED <<dev, keys, chosen, faults>>
    BY <1>3 DEF StartDescribe
  <2>3. QED
    BY <1>3, <2>1, <2>2, StartStep, QuietExplained
<1>4. ASSUME NEW key \in keys, DeleteKey(key)
      PROVE  IInv' /\ Explained'
  BY <1>4, DeleteKeyStep, QuietExplained
<1>5. CASE PowerCycle
  BY <1>5, PowerCycleStep, QuietExplained
<1>6. CASE FactoryReset
  BY <1>6, FactoryResetStep, QuietExplained
<1>7. QED
  BY <1>1, <1>2, <1>3, <1>4, <1>5, <1>6, StepInv DEF Next

\* Nothing is true of a state but what the variables say.
LEMMA Stutters ==
  ASSUME IInv, Explained, UNCHANGED vars
  PROVE  IInv' /\ Explained'
<1>1. UNCHANGED <<browser, model, resets, dev, keys, call, calls, faults, chosen, returned>>
  BY DEF vars
<1>2. Making' = Making
  BY <1>1 DEF Making, Generates, Active
<1>3. CountInv' /\ CallsInv' /\ DeviceInv'
  <2>1. CountInv' /\ DeviceInv'
    BY <1>1, <1>2 DEF IInv, CountInv, DeviceInv
  <2>2. \A c \in Caller : OperationInv(call[c])'
    BY <1>1 DEF IInv, CallsInv, OperationInv, Active
  <2>3. \A c \in Caller : InputInv(call[c])'
    BY <1>1 DEF IInv, CallsInv, InputInv, Generates, Signs, MayBeFresh, Active
  <2>4. \A c \in Caller : ExchangeInv(call[c])'
    BY <1>1 DEF IInv, CallsInv, ExchangeInv, Speaks
  <2>5. QED
    BY <1>1, <2>1, <2>2, <2>3, <2>4 DEF IInv, CallsInv, Active
<1>4. PinInv' /\ TokenInv' /\ FitsInv'
  BY <1>1 DEF IInv, PinInv, TokenInv, FitsInv, FitInv, Hopeless, Active, Generates
<1>5. \A k : KeyInv(k) => KeyInv(k)'
  BY <1>1 DEF KeyInv, DerivesFrom, Cose
<1>6. KeysInv' /\ CopiesInv'
  BY <1>1, <1>5 DEF IInv, KeysInv, CopiesInv, Signs, Active
<1>7. Explained'
  BY <1>1 DEF Explained, RightPinIsAccepted, UnsuitableNeverEnrols, CommandsAreUnderstood,
     SignatureVerifies, FactorIsBorneOut, CapabilityIsKept, Capability
<1>8. QED
  BY <1>1, <1>3, <1>4, <1>6, <1>7 DEF IInv

\* IInv and what every step returns hold in every reachable state.
THEOREM Invariance == Spec => [](IInv /\ Explained)
<1>1. Init => IInv /\ Explained
  BY InitInv
<1>2. IInv /\ Explained /\ [Next]_vars => IInv' /\ Explained'
  BY NextInv, Stutters
<1>3. QED
  BY <1>1, <1>2, PTL DEF Spec

-----------------------------------------------------------------------------
(* What the runs check, for every value of the constants.                  *)

\* The point of a public key names the credential it comes from.
Origin(k) ==
  IF k.pub.width = 48 THEN k.pub.point = <<"g1", k.credential>>
  ELSE IF model.arkg THEN k.pub.point[1] = <<"bl", k.credential>>
  ELSE k.pub.point = <<"p256", k.credential>>

\* For every kind of key.
LEMMA KeyOrigin ==
  ASSUME NEW k, NEW cose, DerivesFrom(k, cose)
  PROVE  Origin(k)
<1>1. PICK algs \in Algs :
        /\ cose = Cose(k.credential, algs)
        /\ Derived(cose, k.hash, algs) = Ok([pub |-> k.pub, arkg |-> k.arkg])
  BY DEF DerivesFrom
<1>2. PICK pub, arkg, hash, id :
        /\ pub = k.pub /\ arkg = k.arkg /\ hash = k.hash /\ id = k.credential
        /\ cose = Cose(id, algs)
        /\ Derived(cose, hash, algs) = Ok([pub |-> pub, arkg |-> arkg])
  BY <1>1
<1>3. CASE ECSDSA_BLS12381 \in algs
  <2>1. DOMAIN cose = {-1, -2, -3} /\ cose[-1] = -65601 /\ cose[-2] = <<"g1", id>>
    BY <1>2, <1>3 DEF Cose
  <2>2. DecodeBls(cose) =
          Ok([curve |-> "BLS12381G1", width |-> 48, point |-> cose[-2]])
    BY <2>1 DEF DecodeBls, Has
  <2>3. pub = [curve |-> "BLS12381G1", width |-> 48, point |-> cose[-2]]
    BY <1>2, <1>3, <2>2 DEF Derived, Ok, Fail
  <2>4. pub.width = 48 /\ pub.point = <<"g1", id>>
    BY <2>1, <2>3
  <2>5. QED
    BY <1>2, <2>4 DEF Origin
<1>4. CASE ECSDSA_BLS12381 \notin algs /\ model.arkg
  <2>1. cose = ArkgSeed(id)
    BY <1>2, <1>4 DEF Cose
  <2>2. IsArkgSeed(cose) /\ cose[-1] = <<"bl", id>>
    BY <2>1 DEF IsArkgSeed, ArkgSeed, Has
  <2>3. pub = BlindPublicKey(cose[-1], <<cose[-2], hash, "ctx">>, "ctx")
    BY <1>2, <1>4, <2>2 DEF Derived, DerivePublicKey, KemEncaps, Ok
  <2>4. pub.width = 32 /\ pub.point[1] = <<"bl", id>>
    BY <2>2, <2>3 DEF BlindPublicKey
  <2>5. QED
    BY <1>2, <1>4, <2>4 DEF Origin
<1>5. CASE ECSDSA_BLS12381 \notin algs /\ ~model.arkg
  <2>1. DOMAIN cose = {1, 3, -2, -3} /\ cose[-2] = <<"p256", id>>
    BY <1>2, <1>5 DEF Cose
  <2>2. DecodeEc2(cose) = Ok([curve |-> "P-256", width |-> 32, point |-> cose[-2]])
    BY <2>1 DEF DecodeEc2, Has
  <2>3. pub = [curve |-> "P-256", width |-> 32, point |-> cose[-2]]
    BY <1>2, <1>5, <2>1, <2>2 DEF Derived, Ok, Fail, IsArkgSeed, Has
  <2>4. pub.width = 32 /\ pub.point = <<"p256", id>>
    BY <2>1, <2>3
  <2>5. QED
    BY <1>2, <1>5, <2>4 DEF Origin
<1>6. QED
  BY <1>3, <1>4, <1>5

\* No two keys share a public key.
LEMMA KeysDiffer ==
  ASSUME KeysInv, NEW k \in keys, NEW l \in keys, k.pub = l.pub
  PROVE  k = l
<1>1. Origin(k) /\ Origin(l)
  BY KeyOrigin DEF KeysInv, KeyInv
<1>2. PICK pub, point, id, other :
        /\ pub = k.pub /\ point = pub.point /\ id = k.credential /\ other = l.credential
  OBVIOUS
<1>3. /\ pub = l.pub
      /\ \/ point = <<"g1", id>> /\ point = <<"g1", other>>
         \/ point[1] = <<"bl", id>> /\ point[1] = <<"bl", other>>
         \/ point = <<"p256", id>> /\ point = <<"p256", other>>
  BY <1>1, <1>2 DEF Origin
<1>4. id = other
  BY <1>3
<1>5. QED
  BY <1>2, <1>4 DEF KeysInv

\* The types of the variables: above all, a stored key is known by its public
\* key, whatever its kind and however it was derived, and every PIN a call
\* carries is a composed one (store_generated_key, normalize_pin).
THEOREM TypeCorrect == Spec => []TypeOK
<1>1. IInv => TypeOK
  <2> SUFFICES ASSUME IInv PROVE TypeOK
    OBVIOUS
  <2>1. /\ browser \in BOOLEAN /\ model \in Model
        /\ calls \in 0 .. MaxCalls /\ faults \in 0 .. MaxFaults /\ resets \in Nat
        /\ dev.retries \in 0 .. MaxRetries /\ dev.consecutive \in 0 .. MaxConsecutive
        /\ dev.made \in Nat /\ \A d \in dev.creds : d.id \in 1 .. dev.made
    BY DEF IInv, CountInv, DeviceInv
  <2>2. dev.pin = None \/ dev.pin \in Pin
    <3>1. dev.pin # None => \E p \in Entry \cup {FactoryPin} : dev.pin = NormalizePin(p)
      BY DEF IInv, PinInv
    <3>2. \A p \in Entry \cup {FactoryPin} : NormalizePin(p) \in Pin
      BY CeremonyAssumption, PinsAreNormal
    <3>3. QED
      BY <3>1, <3>2
  <2>3. dev.made \in 0 .. MaxCalls
    <3>1. Cardinality(Making) \in Nat /\ dev.made + Cardinality(Making) <= calls
      BY FS_CardinalityType DEF IInv, CountInv
    <3>2. QED
      BY <2>1, <3>1, Bounds
  <2>4. \A k, l \in keys : k.pub = l.pub => k = l
    BY KeysDiffer DEF IInv
  <2>5. ASSUME NEW c \in Caller
        PROVE  /\ call[c].phase \in Phase
               /\ "pin" \in DOMAIN call[c] => call[c].pin \in Pin /\ call[c].pin.marks = 0
    <3>1. OperationInv(call[c]) /\ ExchangeInv(call[c])
      BY DEF IInv, CallsInv
    <3>2. QED
      BY <3>1, PinOfCall DEF OperationInv
  <2>6. QED
    BY <2>1, <2>2, <2>3, <2>4, <2>5 DEF TypeOK
<1>2. QED
  BY <1>1, Invariance, PTL

\* The right PIN, typed in any Unicode form, is never refused as wrong unless
\* another attempt has renewed the key agreement in between
\* (acquire_pin_uv_auth_token, normalize_pin).
THEOREM RightPin == Spec => []RightPinIsAccepted
<1>1. Explained => RightPinIsAccepted
  BY DEF Explained
<1>2. QED
  BY <1>1, Invariance, PTL

\* The authenticator and the browser understand every command of the plugin:
\* what it builds, what it reads back and what it copied before the exchange
\* leave only a lost token or credential to fail for (make_credential_via_ctap2,
\* get_assertion_via_ctap2 and their counterparts for a browser).
THEOREM Understood == Spec => []CommandsAreUnderstood
<1>1. Explained => CommandsAreUnderstood
  BY DEF Explained
<1>2. QED
  BY <1>1, Invariance, PTL

\* Every signature verifies under the key it was asked for and over the data
\* it was asked for, for all three kinds of keys and on both transports
\* (sign_inner).
THEOREM SignaturesVerify == Spec => []SignatureVerifies
<1>1. Explained => SignatureVerifies
  BY DEF Explained
<1>2. QED
  BY <1>1, Invariance, PTL

\* The second factor claimed for a signature is the one of its own call and
\* its own assertion (sign_with_factors).
THEOREM FactorsAreBorneOut == Spec => []FactorIsBorneOut
<1>1. Explained => FactorIsBorneOut
  BY DEF Explained
<1>2. QED
  BY <1>1, Invariance, PTL

\* What authentication_capability promises for a transport is kept by every
\* signature whose assertion verified the user.
THEOREM CapabilityKept == Spec => []CapabilityIsKept
<1>1. Explained => CapabilityIsKept
  BY DEF Explained
<1>2. QED
  BY <1>1, Invariance, PTL

\* An authenticator described as unsuitable enrols no key before it is reset,
\* although the exchange reads its getInfo by a parser of its own
\* (suitability, parse_pin_info).
THEOREM UnsuitableEnrolsNever == Spec => []UnsuitableNeverEnrols
<1>1. Explained => UnsuitableNeverEnrols
  BY DEF Explained
<1>2. QED
  BY <1>1, Invariance, PTL

\* The certification of a key is what its authenticator attests, over either
\* transport (attestation_object_has_dedicated_hardware_chain).
THEOREM Certified == Spec => []CertificationIsTrue
<1>1. IInv => CertificationIsTrue
  BY DEF IInv, KeysInv, KeyInv, CertificationIsTrue, Certification
<1>2. QED
  BY <1>1, Invariance, PTL

\* What attestation_chain returns for a key, at any time later, attests that
\* key, over the hash that is returned with it.
THEOREM AttestationsVerify == Spec => []AttestationVerifies
<1>1. IInv => AttestationVerifies
  <2> SUFFICES ASSUME IInv, NEW k \in keys
               PROVE  LET chain == AttestationChain(k)
                          att == chain[1].opaque
                          cose == att[2].cose
                      IN
                      /\ chain # Fail
                      /\ att[2].id = k.handle
                      /\ IF k.arkg = Fail THEN k.pub.point = cose[-2]
                                          ELSE k.pub.point[1] = cose[-1]
                      /\ ~browser /\ "over" \in DOMAIN att[3] =>
                           att[3].over = chain[1].clientDataHash
    BY DEF AttestationVerifies
  <2>1. KeyInv(k)
    BY DEF IInv, KeysInv
  <2>2. PICK att, chain, hash, cose, pub, arkg :
          /\ att = k.attestation /\ chain = AttestationChain(k)
          /\ hash = k.hash /\ cose = att[2].cose /\ pub = k.pub /\ arkg = k.arkg
    OBVIOUS
  <2>3. chain = Ok([opaque |-> att, clientDataHash |-> hash])
    BY <2>1, <2>2 DEF KeyInv, AttestationChain, Fail
  <2>4. chain # Fail /\ chain[1].opaque = att /\ chain[1].clientDataHash = hash
    BY <2>3 DEF Ok, Fail
  <2>5. att[2].id = k.handle
    BY <2>1, <2>2 DEF KeyInv
  <2>6. IF arkg = Fail THEN pub.point = cose[-2] ELSE pub.point[1] = cose[-1]
    <3>1. DerivesFrom(k, cose)
      BY <2>1, <2>2 DEF KeyInv
    <3>2. CASE BlsKey(k, cose) \/ Ec2Key(k, cose)
      BY <2>2, <3>2 DEF BlsKey, Ec2Key
    <3>3. CASE ArkgKey(k, cose)
      <4>1. arkg # Fail
        BY <2>2, <3>3 DEF ArkgKey, Ok, Fail
      <4>2. pub = BlindPublicKey(cose[-1], <<cose[-2], hash, "ctx">>, "ctx")
        BY <2>2, <3>3 DEF ArkgKey
      <4>3. pub.point[1] = cose[-1]
        BY <4>2 DEF BlindPublicKey
      <4>4. QED
        BY <4>1, <4>3
    <3>4. QED
      BY <3>1, <3>2, <3>3, KeyForms
  <2>7. ~browser /\ "over" \in DOMAIN att[3] => att[3].over = hash
    BY <2>1, <2>2 DEF KeyInv
  <2>8. QED
    BY <2>2, <2>4, <2>5, <2>6, <2>7
<1>2. QED
  BY <1>1, Invariance, PTL

\* Only a wrong PIN costs a PIN attempt.
LEMMA OtherStepsCostNothing ==
  ASSUME IInv, NEW c \in Caller, Step(c), ~GetToken(c)
  PROVE  ~(dev'.retries < dev.retries)
<1>1. /\ dev.retries \in 0 .. MaxRetries /\ MaxRetries \in Nat
      /\ "retries" \in DOMAIN dev /\ DeviceInv
  BY Bounds DEF IInv, DeviceInv
<1>2. dev' = dev \/ dev'.retries \in {dev.retries, MaxRetries}
  <2>1. CASE SetPin(c)
    <3>1. \/ dev' = dev
          \/ \E p : dev' = [dev EXCEPT !.pin = p, !.retries = MaxRetries,
                                       !.consecutive = 0, !.token = None]
      BY <2>1 DEF SetPin
    <3>2. QED
      BY <1>1, <3>1
  <2>2. CASE MakeCredential(c)
    BY <1>1, <2>2 DEF MakeCredential, MakeCredentialRaw, MakeCredentialBrowser
  <2>3. CASE GetAssertion(c)
    <3>1. dev' = dev \/ \E t : dev' = [dev EXCEPT !.token = t]
      BY <2>3 DEF GetAssertion, GetAssertionRaw, GetAssertionBrowser
    <3>2. QED
      BY <1>1, <3>1
  <2>4. CASE GetInfo(c) \/ GetRetries(c) \/ Cancel(c) \/ KeyAgreement(c) \/ NotDelivered(c)
             \/ \E p : Answer(c, p)
    BY <2>4 DEF GetInfo, GetRetries, Answer, Cancel, KeyAgreement, NotDelivered
  <2>5. QED
    BY <2>1, <2>2, <2>3, <2>4 DEF Step
<1>3. QED
  BY <1>1, <1>2

\* A wrong PIN is one prompt's only attempt.
LEMMA AttemptEndsCall ==
  ASSUME IInv, NEW c \in Caller, GetToken(c), dev'.retries < dev.retries
  PROVE  /\ dev'.retries = dev.retries - 1
         /\ call[c].phase = "token" /\ call'[c].phase = "idle" /\ ~call[c].pin.nul
<1> DEFINE r == call[c]
           status == IF TokenRefusal # 0 THEN TokenRefusal
                     ELSE IF Mismatch(TokenRequest(c)) THEN 49 ELSE 0
           token == [id |-> r.n, perms |-> TokenRequest(c).permissions,
                     rp |-> TokenRequest(c).rp]
           granted == [dev EXCEPT !.retries = MaxRetries, !.consecutive = 0, !.token = token]
           failed == [dev EXCEPT !.retries = @ - 1, !.consecutive = @ + 1, !.agreement = @ + 1]
<1>1. /\ r.phase = "token"
      /\ dev' = CASE status = 0 -> granted [] status = 49 -> failed [] OTHER -> dev
      /\ Hears(c, status, With(r, [phase |-> "command"])) \/ Lost(c)
  BY DEF GetToken, In
<1> HIDE DEF status, token
<1>2. /\ dev.retries \in 0 .. MaxRetries /\ MaxRetries \in Nat
      /\ "retries" \in DOMAIN dev /\ DOMAIN call = Caller /\ ExchangeInv(r)
      /\ browser \in BOOLEAN /\ CallsInv
  BY Bounds DEF IInv, DeviceInv, CallsInv
<1>3. granted.retries = MaxRetries /\ failed.retries = dev.retries - 1
  BY <1>2 DEF IInv, DeviceInv
<1> HIDE DEF granted, failed
<1>4. status = 49 /\ dev' = failed
  BY <1>1, <1>2, <1>3
<1>5. \E result : Ends(c, result)
  BY <1>1, <1>4 DEF Hears, Lost, Refused
<1>6. call'[c] = Idle
  BY <1>2, <1>5, EndStep
<1>7. ~browser
  BY <1>1, <1>2, RawExchange
<1>8. "pin" \in DOMAIN r
  BY <1>1, <1>2, <1>7 DEF ExchangeInv, Prompted, Informed
<1>9. ~r.pin.nul
  BY <1>2, <1>8, PinOfCall
<1>10. QED
  BY <1>1, <1>3, <1>4, <1>6, <1>9 DEF Idle

\* An attempt is spent only by the call whose user was just asked, which ends
\* with it: nothing is retried behind the user's back, and no PIN with a NUL
\* gets that far (acquire_pin_uv_auth_token).
THEOREM OneAttemptPerPrompt == Spec => PromptCostsOneAttempt
<1> DEFINE Cost ==
      dev'.retries < dev.retries =>
        /\ dev'.retries = dev.retries - 1
        /\ \E c \in Caller : /\ call[c].phase = "token"
                             /\ call'[c].phase = "idle"
                             /\ ~call[c].pin.nul
<1>1. IInv /\ Next => Cost
  <2> SUFFICES ASSUME IInv, Next, dev'.retries < dev.retries
               PROVE  /\ dev'.retries = dev.retries - 1
                      /\ \E c \in Caller : /\ call[c].phase = "token"
                                           /\ call'[c].phase = "idle"
                                           /\ ~call[c].pin.nul
    OBVIOUS
  <2>1. /\ dev.retries \in 0 .. MaxRetries /\ MaxRetries \in Nat
        /\ "retries" \in DOMAIN dev
    BY Bounds DEF IInv, DeviceInv
  <2>2. \E c \in Caller : Step(c)
    <3>1. dev' # dev
      BY <2>1
    <3>2. PowerCycle => dev'.retries = dev.retries
      <4>1. PowerCycle => \E n : dev' = [dev EXCEPT !.token = None, !.consecutive = 0,
                                                    !.agreement = n]
        BY DEF PowerCycle
      <4>2. QED
        BY <2>1, <4>1
    <3>3. FactoryReset => dev'.retries = MaxRetries
      <4>1. FactoryReset =>
              \E n : dev' = [dev EXCEPT !.pin = None, !.creds = {}, !.retries = MaxRetries,
                              !.token = None, !.consecutive = 0, !.agreement = n]
        BY DEF FactoryReset
      <4>2. QED
        BY <2>1, <4>1
    <3>4. ~PowerCycle /\ ~FactoryReset
      BY <2>1, <3>2, <3>3
    <3>5. QED
      BY <3>1, <3>4 DEF Next, StartGenerate, StartSign, StartDescribe, DeleteKey
  <2>3. PICK c \in Caller : Step(c)
    BY <2>2
  <2>4. GetToken(c)
    BY <2>3, OtherStepsCostNothing
  <2>5. QED
    BY <2>4, AttemptEndsCall
<1>2. IInv /\ [Next]_vars => [Cost]_vars
  BY <1>1
<1>3. Spec => [][Cost]_vars
  BY <1>2, Invariance, PTL DEF Spec
<1>4. QED
  BY <1>3 DEF PromptCostsOneAttempt
=============================================================================
