------------------------- MODULE KeyLifecycleProofs -------------------------
(***************************************************************************)
(* What KeyLifecycle promises for every set of callers, contexts and keys: *)
(* types, whose keys a context holds, and, under one outer mutex, that a   *)
(* call which returns leaves no key without an owner.                      *)
(***************************************************************************)
EXTENDS KeyLifecycle, TLAPS

\* The callers that have made a key and not recorded it yet.
Pending(c) == pc[c] \in {"register", "rotate"}
Destroying(c) == pc[c] \in {"wipe", "close"}

\* A caller in an operation has a context and, where it made one, a key.
CallTypes ==
  \A c \in Caller :
    /\ pc[c] # "idle" => ctx[c] \in Context
    /\ Pending(c) => new[c] \in Kid
    /\ ~Pending(c) => new[c] = None
    /\ ~Destroying(c) => stale[c] = {}

\* Every key that occurs anywhere was generated.
MintInv ==
  /\ keys \cup loose \cup saved.keys \cup abandoned \subseteq minted
  /\ \A x \in Context : kids[x] \cup saved.kids[x] \subseteq minted
  /\ \A c \in Caller : Pending(c) => new[c] \in minted
  /\ \A c \in Caller : stale[c] \subseteq minted

\* The key a caller has made is its own until it records it.
PendingInv ==
  \A c \in Caller : Pending(c) =>
    /\ new[c] \notin loose
    /\ \A x \in Context : new[c] \notin kids[x] \cup saved.kids[x]
    /\ \A d \in Caller : new[c] \notin stale[d]
    /\ \A d \in Caller \ {c} : Pending(d) => new[c] # new[d]

\* No key is shared, neither now nor in the snapshot.
DisjointInv ==
  /\ ContextsDisjoint
  /\ \A x \in Context :
       /\ saved.kids[x] \cap loose = {}
       /\ \A y \in Context \ {x} : saved.kids[x] \cap saved.kids[y] = {}

IInv == TypeOK /\ CallTypes /\ MintInv /\ PendingInv /\ DisjointInv

-----------------------------------------------------------------------------
\* Types, and what a caller in an operation carries.
LEMMA TypeStep == TypeOK /\ CallTypes /\ [Next]_vars => (TypeOK /\ CallTypes)'
<1> SUFFICES ASSUME TypeOK, CallTypes, [Next]_vars PROVE (TypeOK /\ CallTypes)'
  OBVIOUS
<1> USE DEF TypeOK, CallTypes, Pending, Destroying, Step, LifecycleState
<1>1. ASSUME NEW c \in Caller, NEW k \in Kid, UNCHANGED kind,
             GenerateKey(c, k) \/ DeleteKey(c, k)
      PROVE  (TypeOK /\ CallTypes)'
  BY <1>1 DEF GenerateKey, DeleteKey, Make, opVars
<1>2. ASSUME NEW c \in Caller, NEW x \in Context, NEW k \in Kid,
             NEW op \in {"register", "rotate"}, UNCHANGED kind,
             MakeFor(c, x, k, op)
      PROVE  (TypeOK /\ CallTypes)'
  BY <1>2 DEF MakeFor, Make, CanStart
<1>3. ASSUME NEW c \in Caller, UNCHANGED kind, Register(c)
      PROVE  (TypeOK /\ CallTypes)'
  BY <1>3 DEF Register, Finish, history
<1>4. ASSUME NEW c \in Caller, UNCHANGED kind, Rotate(c)
      PROVE  (TypeOK /\ CallTypes)'
  BY <1>4 DEF Rotate, Finish
<1>5. ASSUME NEW c \in Caller, NEW x \in Context, UNCHANGED kind, Activate(c, x)
      PROVE  (TypeOK /\ CallTypes)'
  BY <1>5 DEF Activate, opVars, history
<1>6. ASSUME NEW c \in Caller, NEW x \in Context, UNCHANGED kind,
             DestroyLook(c, x)
      PROVE  (TypeOK /\ CallTypes)'
  BY <1>6 DEF DestroyLook, CanStart, history
<1>7. ASSUME NEW c \in Caller, UNCHANGED kind, DestroyWipe(c)
      PROVE  (TypeOK /\ CallTypes)'
  BY <1>7 DEF DestroyWipe
<1>8. ASSUME NEW c \in Caller, UNCHANGED kind, DestroyClose(c)
      PROVE  (TypeOK /\ CallTypes)'
  BY <1>8 DEF DestroyClose, Finish, history
<1>9. ASSUME NEW c \in Caller, UNCHANGED kind, Export(c)
      PROVE  (TypeOK /\ CallTypes)'
  BY <1>9 DEF Export, opVars, history
<1>10. CASE Restart /\ UNCHANGED kind
  BY <1>10 DEF Restart, history
<1>11. CASE UNCHANGED vars
  BY <1>11 DEF vars, opVars, history
<1>12. ASSUME NEW c \in Caller, UNCHANGED kind, Abandon(c)
       PROVE  (TypeOK /\ CallTypes)'
  BY <1>12 DEF Abandon, Finish
<1> QED BY <1>1, <1>2, <1>3, <1>4, <1>5, <1>6, <1>7, <1>8, <1>9, <1>10, <1>11,
           <1>12
        DEF Next, CallerStep

\* Every variable keeps its type.
THEOREM TypeCorrect == Spec => []TypeOK
<1>1. Init => TypeOK /\ CallTypes
  BY DEF Init, TypeOK, CallTypes, Pending, Destroying, Step
<1>2. TypeOK /\ CallTypes /\ [Next]_vars => (TypeOK /\ CallTypes)'
  BY TypeStep
<1> QED BY <1>1, <1>2, PTL DEF Spec
-----------------------------------------------------------------------------
\* Where a step may take a key from or to, whatever the operation.
LEMMA MintStep == IInv /\ [Next]_vars => MintInv'
<1> SUFFICES ASSUME IInv, [Next]_vars PROVE MintInv'
  OBVIOUS
<1> USE DEF IInv, TypeOK, CallTypes, MintInv, Pending, Destroying
<1>1. ASSUME NEW c \in Caller, NEW k \in Kid, GenerateKey(c, k) \/ DeleteKey(c, k)
      PROVE  MintInv'
  BY <1>1 DEF GenerateKey, DeleteKey, Make, opVars
<1>2. ASSUME NEW c \in Caller, NEW x \in Context, NEW k \in Kid,
             NEW op \in {"register", "rotate"}, MakeFor(c, x, k, op)
      PROVE  MintInv'
  BY <1>2 DEF MakeFor, Make, CanStart
<1>3. ASSUME NEW c \in Caller, Register(c) \/ Rotate(c) PROVE MintInv'
  BY <1>3 DEF Register, Rotate, Finish, history
<1>4. ASSUME NEW c \in Caller, NEW x \in Context,
             Activate(c, x) \/ DestroyLook(c, x)
      PROVE  MintInv'
  BY <1>4 DEF Activate, DestroyLook, CanStart, opVars, history
<1>5. ASSUME NEW c \in Caller, DestroyWipe(c) \/ DestroyClose(c) \/ Export(c)
      PROVE  MintInv'
  BY <1>5 DEF DestroyWipe, DestroyClose, Export, Finish, opVars, history
<1>6. CASE Restart \/ UNCHANGED vars
  BY <1>6 DEF Restart, vars, opVars, history
<1>7. ASSUME NEW c \in Caller, Abandon(c) PROVE MintInv'
  BY <1>7 DEF Abandon, Finish
<1> QED BY <1>1, <1>2, <1>3, <1>4, <1>5, <1>6, <1>7 DEF Next, CallerStep

\* The key of an operation in progress stays its own.
LEMMA PendingStep == IInv /\ [Next]_vars => PendingInv'
<1> SUFFICES ASSUME IInv, [Next]_vars PROVE PendingInv'
  OBVIOUS
<1> USE DEF IInv, TypeOK, CallTypes, MintInv, PendingInv, Pending, Destroying
<1>1. ASSUME NEW c \in Caller, NEW k \in Kid, GenerateKey(c, k) \/ DeleteKey(c, k)
      PROVE  PendingInv'
  BY <1>1 DEF GenerateKey, DeleteKey, Make, opVars
<1>2. ASSUME NEW c \in Caller, NEW x \in Context, NEW k \in Kid,
             NEW op \in {"register", "rotate"}, MakeFor(c, x, k, op)
      PROVE  PendingInv'
  BY <1>2 DEF MakeFor, Make, CanStart
<1>3. ASSUME NEW c \in Caller, Register(c) \/ Rotate(c) PROVE PendingInv'
  <2>1. UNCHANGED saved /\ loose' \in {loose, loose \cup {new[c]}}
    BY <1>3 DEF Register, Rotate, history
  <2>2. ~Pending(c)' /\ \A d \in Caller \ {c} :
          pc'[d] = pc[d] /\ new'[d] = new[d] /\ stale'[d] = stale[d]
    BY <1>3 DEF Register, Rotate, Finish
  <2>3. stale'[c] = {} /\ Pending(c)
    BY <1>3 DEF Register, Rotate, Finish
  <2>4. \A x \in Context : kids'[x] \subseteq kids[x] \cup {new[c]}
    BY <1>3 DEF Register, Rotate
  <2> QED BY <2>1, <2>2, <2>3, <2>4
<1>4. ASSUME NEW c \in Caller, NEW x \in Context,
             Activate(c, x) \/ DestroyLook(c, x)
      PROVE  PendingInv'
  BY <1>4 DEF Activate, DestroyLook, CanStart, opVars, history
<1>5. ASSUME NEW c \in Caller, DestroyWipe(c) \/ DestroyClose(c) \/ Export(c)
      PROVE  PendingInv'
  BY <1>5 DEF DestroyWipe, DestroyClose, Export, Finish, opVars, history
<1>6. CASE Restart \/ UNCHANGED vars
  BY <1>6 DEF Restart, vars, opVars, history
<1>7. ASSUME NEW c \in Caller, Abandon(c) PROVE PendingInv'
  BY <1>7 DEF Abandon, Finish
<1> QED BY <1>1, <1>2, <1>3, <1>4, <1>5, <1>6, <1>7 DEF Next, CallerStep

\* No step makes two contexts share a key.
LEMMA DisjointStep == IInv /\ [Next]_vars => DisjointInv'
<1> SUFFICES ASSUME IInv, [Next]_vars PROVE DisjointInv'
  OBVIOUS
<1> USE DEF IInv, TypeOK, CallTypes, MintInv, PendingInv, Pending, Destroying,
            DisjointInv, ContextsDisjoint
<1>1. ASSUME NEW c \in Caller, NEW k \in Kid, GenerateKey(c, k) \/ DeleteKey(c, k)
      PROVE  DisjointInv'
  BY <1>1 DEF GenerateKey, DeleteKey, Make, opVars
<1>2. ASSUME NEW c \in Caller, NEW x \in Context, NEW k \in Kid,
             NEW op \in {"register", "rotate"}, MakeFor(c, x, k, op)
      PROVE  DisjointInv'
  BY <1>2 DEF MakeFor, Make
<1>3. ASSUME NEW c \in Caller, Register(c) \/ Rotate(c) PROVE DisjointInv'
  BY <1>3 DEF Register, Rotate, Finish, history
<1>4. ASSUME NEW c \in Caller, NEW x \in Context,
             Activate(c, x) \/ DestroyLook(c, x)
      PROVE  DisjointInv'
  BY <1>4 DEF Activate, DestroyLook, history
<1>5. ASSUME NEW c \in Caller, DestroyWipe(c) \/ DestroyClose(c) \/ Export(c)
      PROVE  DisjointInv'
  BY <1>5 DEF DestroyWipe, DestroyClose, Export, Finish, history
<1>6. CASE Restart \/ UNCHANGED vars
  BY <1>6 DEF Restart, vars, history
<1>7. ASSUME NEW c \in Caller, Abandon(c) PROVE DisjointInv'
  BY <1>7 DEF Abandon, Finish
<1> QED BY <1>1, <1>2, <1>3, <1>4, <1>5, <1>6, <1>7 DEF Next, CallerStep

\* IInv is inductive.
LEMMA Inductive == Spec => []IInv
<1>1. Init => IInv
  BY DEF Init, IInv, TypeOK, CallTypes, MintInv, PendingInv, DisjointInv,
         ContextsDisjoint, Pending, Destroying, Step
<1>2. IInv /\ [Next]_vars => IInv'
  BY TypeStep, MintStep, PendingStep, DisjointStep DEF IInv
<1> QED BY <1>1, <1>2, PTL DEF Spec

\* Purging one context never takes a key of another context, or one that
\* generate_key made: no two of them share a key, whoever calls when.
THEOREM KeysHaveOneContext == Spec => []ContextsDisjoint
<1>1. IInv => ContextsDisjoint
  BY DEF IInv, DisjointInv
<1> QED BY <1>1, Inductive, PTL
-----------------------------------------------------------------------------
\* A context names no key it has lost otherwise than to delete_key or to its
\* own destroy, now, in the snapshot, and in the hands of an operation.
HeldInv == kind = "softkey" =>
  /\ ContextKeysAreHeld
  /\ \A x \in Context :
       saved.kids[x] \subseteq saved.keys \cup gone[x]
  /\ \A c \in Caller : Pending(c) => new[c] \in keys \cup gone[ctx[c]]
  /\ \A c \in Caller : Destroying(c) =>
       \A x \in Context \ {ctx[c]} : stale[c] \cap kids[x] = {}

LEMMA HeldStep == IInv /\ HeldInv /\ [Next]_vars => HeldInv'
<1> SUFFICES ASSUME IInv, HeldInv, [Next]_vars, kind = "softkey",
                    kind' = "softkey"
             PROVE  HeldInv'
  BY DEF HeldInv, Next, vars
<1> USE DEF IInv, TypeOK, CallTypes, MintInv, PendingInv, DisjointInv,
            ContextsDisjoint, HeldInv, ContextKeysAreHeld, Pending, Destroying
<1>1. ASSUME NEW c \in Caller, NEW k \in Kid, GenerateKey(c, k) \/ DeleteKey(c, k)
      PROVE  HeldInv'
  BY <1>1 DEF GenerateKey, DeleteKey, Make, opVars
<1>2. ASSUME NEW c \in Caller, NEW x \in Context, NEW k \in Kid,
             NEW op \in {"register", "rotate"}, MakeFor(c, x, k, op)
      PROVE  HeldInv'
  BY <1>2 DEF MakeFor, Make, CanStart
<1>3. ASSUME NEW c \in Caller, Register(c) PROVE HeldInv'
  BY <1>3 DEF Register, Finish, history
<1>4. ASSUME NEW c \in Caller, Rotate(c) PROVE HeldInv'
  BY <1>4 DEF Rotate, Finish
<1>5. ASSUME NEW c \in Caller, NEW x \in Context,
             Activate(c, x) \/ DestroyLook(c, x)
      PROVE  HeldInv'
  BY <1>5 DEF Activate, DestroyLook, CanStart, opVars, history
<1>6. ASSUME NEW c \in Caller, DestroyWipe(c) PROVE HeldInv'
  BY <1>6 DEF DestroyWipe
<1>7. ASSUME NEW c \in Caller, DestroyClose(c) PROVE HeldInv'
  <2>1. UNCHANGED <<keys, saved, gone>> /\ \A x \in Context : kids'[x] \subseteq kids[x]
    BY <1>7 DEF DestroyClose, history
  <2>2. pc'[c] = "idle" /\ \A d \in Caller \ {c} :
          pc'[d] = pc[d] /\ ctx'[d] = ctx[d] /\ new'[d] = new[d] /\ stale'[d] = stale[d]
    BY <1>7 DEF DestroyClose, Finish
  <2>3. ContextKeysAreHeld'
    BY <2>1
  <2>4. \A d \in Caller : Pending(d)' => (new[d] \in keys \cup gone[ctx[d]])'
    BY <2>1, <2>2
  <2>5. \A d \in Caller : Destroying(d)' =>
          \A x \in Context \ {ctx'[d]} : stale'[d] \cap kids'[x] = {}
    BY <2>1, <2>2
  <2> QED BY <2>1, <2>3, <2>4, <2>5
<1>8. ASSUME NEW c \in Caller, Export(c) PROVE HeldInv'
  BY <1>8 DEF Export, opVars, history
<1>9. CASE Restart \/ UNCHANGED vars
  BY <1>9 DEF Restart, vars, opVars, history
<1>10. ASSUME NEW c \in Caller, Abandon(c) PROVE HeldInv'
  BY <1>10 DEF Abandon, Finish
<1> QED BY <1>1, <1>2, <1>3, <1>4, <1>5, <1>6, <1>7, <1>8, <1>9, <1>10
    DEF Next, CallerStep

\* A softkey context keeps its keys whatever other contexts, other callers
\* and the restarts of the process do, although the three sections of a
\* destroy interleave with everything.
THEOREM ContextsKeepTheirKeys == Spec => []ContextKeysAreHeld
<1>1. Init => HeldInv
  BY DEF Init, HeldInv, ContextKeysAreHeld, Pending, Destroying
<1>2. IInv /\ HeldInv /\ [Next]_vars => HeldInv'
  BY HeldStep
<1>3. IInv /\ HeldInv => ContextKeysAreHeld
  BY DEF HeldInv, ContextKeysAreHeld
<1> QED BY <1>1, <1>2, <1>3, Inductive, PTL DEF Spec

-----------------------------------------------------------------------------
\* Under one outer mutex a key in the snapshot has an owner too, and a destroy
\* that is under way has read, and then wiped, all the keys of its context,
\* which is still there, as is a key that is about to be recorded.
SerialInv ==
  /\ \A c, d \in Caller : c # d => pc[c] = "idle" \/ pc[d] = "idle"
  /\ NoKeyLeaks
  /\ \A k \in saved.keys :
       k \in loose \cup abandoned \/ \E x \in Context : k \in saved.kids[x]
  /\ \A c \in Caller : pc[c] = "wipe" => kids[ctx[c]] = stale[c]
  /\ \A c \in Caller : pc[c] = "close" => keys \cap kids[ctx[c]] = {}
  /\ \A c \in Caller : Pending(c) => new[c] \in keys
  /\ \A c \in Caller : Destroying(c) => state[ctx[c]] # "Absent"

LEMMA SerialStep ==
  OneAtATime /\ IInv /\ SerialInv /\ [Next]_vars => SerialInv'
<1> SUFFICES ASSUME OneAtATime, IInv, SerialInv, [Next]_vars
             PROVE  SerialInv'
  OBVIOUS
<1> USE LifecycleAssumption
        DEF IInv, TypeOK, CallTypes, SerialInv, NoKeyLeaks, Owned, Pending, Destroying
<1>1. ASSUME NEW c \in Caller, NEW k \in Kid, GenerateKey(c, k) \/ DeleteKey(c, k)
      PROVE  SerialInv'
  BY <1>1 DEF GenerateKey, DeleteKey, Make, CanStart, opVars
<1>2. ASSUME NEW c \in Caller, NEW x \in Context, NEW k \in Kid,
             NEW op \in {"register", "rotate"}, MakeFor(c, x, k, op)
      PROVE  SerialInv'
  BY <1>2 DEF MakeFor, Make, CanStart
<1>3. ASSUME NEW c \in Caller, Register(c) PROVE SerialInv'
  BY <1>3 DEF Register, Finish, history, PendingInv
<1>4. ASSUME NEW c \in Caller, Rotate(c) PROVE SerialInv'
  BY <1>4 DEF Rotate, Finish
<1>5. ASSUME NEW c \in Caller, NEW x \in Context,
             Activate(c, x) \/ DestroyLook(c, x)
      PROVE  SerialInv'
  BY <1>5 DEF Activate, DestroyLook, CanStart, opVars, history
<1>6. ASSUME NEW c \in Caller, DestroyWipe(c) PROVE SerialInv'
  BY <1>6 DEF DestroyWipe
<1>7. ASSUME NEW c \in Caller, DestroyClose(c) PROVE SerialInv'
  BY <1>7 DEF DestroyClose, Finish, history
<1>8. ASSUME NEW c \in Caller, Export(c) PROVE SerialInv'
  BY <1>8 DEF Export, CanStart, opVars, history
<1>9. CASE Restart \/ UNCHANGED vars
  BY <1>9 DEF Restart, vars, opVars, history
<1>10. ASSUME NEW c \in Caller, Abandon(c) PROVE SerialInv'
  BY <1>10 DEF Abandon, Finish
<1> HIDE LifecycleAssumption
         DEF IInv, TypeOK, CallTypes, SerialInv, NoKeyLeaks, Owned, Pending, Destroying
<1> QED BY <1>1, <1>2, <1>3, <1>4, <1>5, <1>6, <1>7, <1>8, <1>9, <1>10
        DEF Next, CallerStep

\* Serialised as the FFI serialises them, the operations of softkey and fido2
\* that return leak no key, restarts included: re-registering a context is the
\* implicit destroy-then-register its comment promises, and every key without
\* an owner is one whose call was abandoned before it recorded the key.
THEOREM OnlyAbandonedCallsLeak == OneAtATime => (Spec => []NoKeyLeaks)
<1> SUFFICES ASSUME OneAtATime PROVE Spec => []NoKeyLeaks
  OBVIOUS
<1>1. Init => SerialInv
  BY DEF Init, SerialInv, NoKeyLeaks, Pending, Destroying
<1>2. IInv /\ SerialInv /\ [Next]_vars => SerialInv'
  BY SerialStep
<1>3. IInv /\ SerialInv => NoKeyLeaks
  BY DEF SerialInv
<1> QED BY <1>1, <1>2, <1>3, Inductive, PTL DEF Spec
-----------------------------------------------------------------------------
\* Where no caller is in an operation, or only c is, the mapping is simple.
LEMMA NothingInProgress ==
  ASSUME IInv, \A c \in Caller : pc[c] = "idle"
  PROVE  Making = {} /\ Closing = {}
BY DEF IInv, CallTypes, Pending, Making, Closing

LEMMA OneInProgress ==
  ASSUME IInv, SerialInv, NEW c \in Caller, pc[c] # "idle"
  PROVE  /\ Making = IF Pending(c) THEN {new[c]} ELSE {}
         /\ Closing = IF pc[c] = "close" THEN {ctx[c]} ELSE {}
<1>1. \A d \in Caller : d # c => pc[d] = "idle" /\ new[d] = None
  BY DEF IInv, SerialInv, CallTypes, Pending
<1>2. new[c] # None <=> Pending(c)
  BY LifecycleAssumption DEF IInv, CallTypes
<1> QED BY <1>1, <1>2 DEF Making, Closing
\* The caller in an operation was the only one.
LEMMA NothingLeft ==
  ASSUME IInv, SerialInv, NEW c \in Caller, pc[c] # "idle", Finish(c)
  PROVE  Making' = {} /\ Closing' = {}
<1>1. \A d \in Caller : pc'[d] = "idle" /\ new'[d] = None
  BY DEF IInv, TypeOK, CallTypes, Pending, SerialInv, Finish
<1> QED BY <1>1 DEF Making, Closing

\* The first steps of the operations, and the last of a destroy, are not seen.
LEMMA HiddenStep ==
  ASSUME OneAtATime, IInv, SerialInv, UNCHANGED kind, NEW c \in Caller,
         \/ \E x \in Context, k \in Kid, op \in {"register", "rotate"} :
              MakeFor(c, x, k, op)
         \/ \E x \in Context : DestroyLook(c, x)
         \/ DestroyClose(c)
  PROVE  UNCHANGED <<kind, keys \ Making,
                     [x \in Context |-> IF x \in Closing THEN "Destroyed"
                                        ELSE state[x]],
                     [x \in Context |-> IF x \in Closing THEN {} ELSE kids[x]],
                     minted \ Making, saved>>
<1> USE DEF IInv, TypeOK, CallTypes, Pending, Destroying
<1>1. ASSUME NEW x \in Context, NEW k \in Kid, NEW op \in {"register", "rotate"},
             MakeFor(c, x, k, op)
      PROVE  /\ keys' \ Making' = keys \ Making
             /\ minted' \ Making' = minted \ Making
             /\ Closing' = Closing
             /\ UNCHANGED <<state, kids, saved>>
  <2>1. Making = {} /\ Closing = {}
    BY <1>1, NothingInProgress DEF MakeFor, CanStart
  <2>2. Making' = {k}
    BY <1>1, LifecycleAssumption DEF MakeFor, CanStart, Making
  <2>3. Closing' = {}
    BY <1>1 DEF MakeFor, CanStart, Closing
  <2> QED BY <1>1, <2>1, <2>2, <2>3 DEF MakeFor, Make, MintInv
<1>2. ASSUME NEW x \in Context, DestroyLook(c, x)
      PROVE  /\ Making' = Making /\ Closing' = Closing
             /\ UNCHANGED <<keys, state, kids, minted, saved>>
  BY <1>2 DEF DestroyLook, CanStart, Making, Closing, history
<1>3. CASE DestroyClose(c)
  <2>1. Making = {} /\ Closing = {ctx[c]}
    BY <1>3, OneInProgress DEF DestroyClose
  <2>2. Making' = {} /\ Closing' = {}
    BY <1>3 DEF DestroyClose, Finish, Making, Closing, SerialInv
  <2>3. UNCHANGED <<keys, minted, saved>>
    BY <1>3 DEF DestroyClose, history
  <2>4. \A x \in Context :
          /\ state'[x] = IF x = ctx[c] THEN "Destroyed" ELSE state[x]
          /\ kids'[x] = IF x = ctx[c] THEN {} ELSE kids[x]
    BY <1>3 DEF DestroyClose
  <2> QED BY <2>1, <2>2, <2>3, <2>4
<1> QED BY <1>1, <1>2, <1>3
\* A serialised step is a step of the abstract store or no step at all.
LEMMA AtomicStep ==
  OneAtATime /\ IInv /\ SerialInv /\ [Next]_vars => [Atomic!Next]_(Atomic!vars)
<1> SUFFICES ASSUME OneAtATime, IInv, SerialInv, [Next]_vars
             PROVE  Atomic!Next \/ UNCHANGED Atomic!vars
  OBVIOUS
<1> USE DEF IInv, TypeOK, CallTypes, Pending, Destroying
<1>1. ASSUME NEW c \in Caller, NEW k \in Kid, UNCHANGED kind,
             GenerateKey(c, k) \/ DeleteKey(c, k)
      PROVE  Atomic!Next
  <2>1. /\ Making = {} /\ Closing = {} /\ Making' = {} /\ Closing' = {}
        /\ UNCHANGED <<state, kids, saved>>
    BY <1>1, NothingInProgress
       DEF GenerateKey, DeleteKey, CanStart, opVars, Making, Closing
  <2>2. CASE GenerateKey(c, k)
    <3>1. Atomic!Generate(k)
      BY <1>1, <2>1, <2>2 DEF GenerateKey, Make, Atomic!Generate
    <3> QED BY <3>1 DEF Atomic!Next
  <2>3. CASE DeleteKey(c, k)
    <3>1. Atomic!Delete(k)
      BY <1>1, <2>1, <2>3 DEF DeleteKey, Atomic!Delete
    <3> QED BY <3>1 DEF Atomic!Next
  <2> QED BY <1>1, <2>2, <2>3
<1>2. ASSUME NEW c \in Caller, Register(c), UNCHANGED kind PROVE Atomic!Next
  <2>1. PICK x \in Context, k \in Kid : x = ctx[c] /\ k = new[c]
    BY <1>2 DEF Register
  <2>2. Making = {k} /\ Closing = {} /\ Making' = {} /\ Closing' = {}
    BY <1>2, <2>1, OneInProgress, NothingLeft DEF Register
  <2>3. k \in keys /\ k \in minted /\ k \notin kids[x]
    BY <1>2, <2>1 DEF Register, SerialInv, MintInv, PendingInv
  <2>4. Atomic!Register(x, k)
    <3>1. k \notin minted \ Making /\ minted' \ Making' = (minted \ Making) \cup {k}
      BY <1>2, <2>2, <2>3 DEF Register, history
    <3>2. keys' \ Making' = ((keys \ Making) \ kids[x]) \cup {k}
      BY <1>2, <2>1, <2>2, <2>3 DEF Register
    <3>3. /\ state' = [state EXCEPT ![x] = "Registered"]
          /\ kids' = [kids EXCEPT ![x] = {k}]
          /\ UNCHANGED <<kind, saved>>
      BY <1>2, <2>1 DEF Register
    <3>4. /\ [z \in Context |-> IF z \in Closing THEN "Destroyed" ELSE state[z]] = state
          /\ [z \in Context |-> IF z \in Closing THEN {} ELSE kids[z]] = kids
          /\ [z \in Context |-> IF z \in Closing' THEN "Destroyed" ELSE state'[z]] = state'
          /\ [z \in Context |-> IF z \in Closing' THEN {} ELSE kids'[z]] = kids'
      BY <2>2, <3>3
    <3> QED BY <2>2, <3>1, <3>2, <3>3, <3>4 DEF Atomic!Register
  <2> QED BY <2>4 DEF Atomic!Next
<1>3. ASSUME NEW c \in Caller, Rotate(c), UNCHANGED kind PROVE Atomic!Next
  <2>1. PICK x \in Context, k \in Kid : x = ctx[c] /\ k = new[c]
    BY <1>3 DEF Rotate
  <2>2. Making = {k} /\ Closing = {} /\ Making' = {} /\ Closing' = {}
    BY <1>3, <2>1, OneInProgress, NothingLeft DEF Rotate
  <2>3. k \in keys /\ k \in minted
    BY <1>3, <2>1 DEF Rotate, SerialInv, MintInv
  <2>4. CASE state[x] # "Absent"
    <3>1. /\ state = [y \in Context |-> IF y \in Closing THEN "Destroyed"
                                        ELSE state[y]]
          /\ kids = [y \in Context |-> IF y \in Closing THEN {} ELSE kids[y]]
      BY <2>2
    <3>2. /\ state' = [y \in Context |-> IF y \in Closing' THEN "Destroyed"
                                         ELSE state'[y]]
          /\ kids' = [y \in Context |-> IF y \in Closing' THEN {} ELSE kids'[y]]
      BY <1>3, <2>2, <2>4 DEF Rotate
    <3>3. /\ state' = [state EXCEPT ![x] = IF kind = "fido2" THEN "Registered"
                                           ELSE @]
          /\ kids' = [kids EXCEPT ![x] = @ \cup {k}]
          /\ UNCHANGED <<keys, saved, minted>>
      BY <1>3, <2>1, <2>4 DEF Rotate
    <3>4. Atomic!Rotate(x, k)
      <4>1. /\ keys' \ Making' = (keys \ Making) \cup {k}
            /\ minted' \ Making' = (minted \ Making) \cup {k}
            /\ k \notin minted \ Making
        BY <2>2, <2>3, <3>3
      <4> QED BY <1>3, <2>4, <3>1, <3>2, <3>3, <4>1, Zenon DEF Atomic!Rotate
    <3> QED BY <3>4 DEF Atomic!Next
  <2>5. CASE state[x] = "Absent"
    <3>1. Atomic!Generate(k)
      BY <1>3, <2>1, <2>2, <2>3, <2>5 DEF Rotate, Atomic!Generate
    <3> QED BY <3>1 DEF Atomic!Next
  <2> QED BY <2>4, <2>5
<1>4. ASSUME NEW c \in Caller, NEW x \in Context, UNCHANGED kind, Activate(c, x)
      PROVE  Atomic!Next
  <2>1. Making = {} /\ Closing = {} /\ Making' = {} /\ Closing' = {}
    BY <1>4, NothingInProgress
       DEF Activate, CanStart, opVars, Making, Closing
  <2>2. Atomic!Activate(x)
    BY <1>4, <2>1 DEF Activate, history, Atomic!Activate
  <2> QED BY <2>2 DEF Atomic!Next
<1>5. ASSUME NEW c \in Caller, DestroyWipe(c), UNCHANGED kind PROVE Atomic!Next
  <2>1. PICK x \in Context : x = ctx[c]
    BY <1>5 DEF DestroyWipe
  <2>2. /\ Making = {} /\ Closing = {}
        /\ state[x] # "Absent" /\ stale[c] = kids[x]
    BY <1>5, <2>1, OneInProgress DEF DestroyWipe, SerialInv
  <2>3. Making' = {} /\ Closing' = {x}
    BY <1>5, <2>1, <2>2 DEF DestroyWipe, Making, Closing, SerialInv
  <2>4. Atomic!Destroy(x)
    BY <1>5, <2>1, <2>2, <2>3 DEF DestroyWipe, Atomic!Destroy
  <2> QED BY <2>4 DEF Atomic!Next
<1>6. ASSUME NEW c \in Caller, Export(c), UNCHANGED kind PROVE Atomic!Next
  <2>1. Making = {} /\ Closing = {} /\ Making' = {} /\ Closing' = {}
    BY <1>6, NothingInProgress DEF Export, CanStart, opVars, Making, Closing
  <2>2. Atomic!Export
    BY <1>6, <2>1 DEF Export, history, Atomic!Export
  <2> QED BY <2>2 DEF Atomic!Next
<1>7. CASE Restart /\ UNCHANGED kind
  <2>1. Making' = {} /\ Closing' = {}
    BY <1>7 DEF Restart, Making, Closing
  <2>2. Atomic!Restart
    BY <1>7, <2>1 DEF Restart, history, Atomic!Restart
  <2> QED BY <2>2 DEF Atomic!Next
<1>8. CASE UNCHANGED vars
  BY <1>8 DEF vars, opVars, history, Making, Closing, Atomic!vars
<1>9. ASSUME NEW c \in Caller, UNCHANGED kind,
             \/ \E x \in Context, k \in Kid, op \in {"register", "rotate"} :
                  MakeFor(c, x, k, op)
             \/ \E x \in Context : DestroyLook(c, x)
             \/ DestroyClose(c)
      PROVE  UNCHANGED Atomic!vars
  BY <1>9, HiddenStep DEF Atomic!vars
<1>10. ASSUME NEW c \in Caller, Abandon(c), UNCHANGED kind PROVE Atomic!Next
  <2>1. PICK k \in Kid : k = new[c]
    BY <1>10 DEF Abandon
  <2>2. Making = {k} /\ Closing = {} /\ Making' = {} /\ Closing' = {}
    BY <1>10, <2>1, OneInProgress, NothingLeft DEF Abandon
  <2>3. k \in keys /\ k \in minted
    BY <1>10, <2>1 DEF Abandon, SerialInv, MintInv
  <2>4. Atomic!Generate(k)
    BY <1>10, <2>2, <2>3 DEF Abandon, Atomic!Generate
  <2> QED BY <2>4 DEF Atomic!Next
<1> QED BY <1>1, <1>2, <1>3, <1>4, <1>5, <1>6, <1>7, <1>8, <1>9, <1>10
        DEF Next, CallerStep

\* Callers of the FFI see every lifecycle operation of softkey and fido2 happen
\* at once: KeyLifecycle under one mutex implements ContextStore.
THEOREM SerialCallersSeeAtomicity == OneAtATime => (Spec => LooksAtomic)
<1> SUFFICES ASSUME OneAtATime PROVE Spec => LooksAtomic
  OBVIOUS
<1>1. Init => SerialInv
  BY DEF Init, SerialInv, NoKeyLeaks, Pending, Destroying
<1>2. IInv /\ SerialInv /\ [Next]_vars => SerialInv'
  BY SerialStep
<1>3. Init => Atomic!Init
  <2>1. Init => Making = {} /\ Closing = {}
    BY DEF Init, Making, Closing
  <2> QED BY <2>1, LifecycleAssumption DEF Init, Atomic!Init
<1>4. IInv /\ SerialInv /\ [Next]_vars => [Atomic!Next]_(Atomic!vars)
  BY AtomicStep
<1> QED BY <1>1, <1>2, <1>3, <1>4, Inductive, PTL
        DEF Spec, LooksAtomic, Atomic!Spec
=============================================================================
