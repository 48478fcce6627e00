---------------------------- MODULE KeyLifecycle ----------------------------
(***************************************************************************)
(* The lifecycle contexts of the two plugins that back a context with keys *)
(* of their own, softkey and fido2 (src/src/plugins/softkey.rs,            *)
(* fido2_sign.rs and the helpers they share in mod.rs).                    *)
(*                                                                         *)
(* A plugin guards its key store and its contexts by two mutexes, and an   *)
(* operation is a sequence of critical sections: each is one action here.  *)
(* Lifecycle operations take &self, so a Rust caller may run several at    *)
(* once; the FFI manager serialises them under its own mutex (OneAtATime). *)
(* The host persists snapshots of a plugin and restores the latest one     *)
(* after the process died.                                                 *)
(***************************************************************************)
EXTENDS Naturals

CONSTANTS
  Caller,          \* tasks calling the plugin
  Context,         \* context ids
  Kid,             \* thumbprints of the key pairs that may be generated
  None,
  OneAtATime,      \* TRUE: every operation runs under one outer mutex
  Kind             \* the plugins it may be: "softkey", "fido2"

ASSUME LifecycleAssumption ==
  /\ None \notin Kid \cup Context
  /\ OneAtATime \in BOOLEAN
  /\ Kind \subseteq {"softkey", "fido2"}

VARIABLES
  kind,    \* which of the two plugins it is
  keys,    \* the key store
  state,   \* the state of each context, "Absent" if the map has no entry
  kids,    \* the key_ids of each context
  pc,      \* the section each caller enters next
  ctx,     \* the context its operation is about
  new,     \* the key it has generated and not recorded yet
  stale,   \* the key ids a destroy has read and not removed yet
  saved,   \* the keys and contexts of the latest snapshot
  \* History:
  minted,  \* every key ever generated
  loose,   \* keys of no context: generate_key made them, or a rotation that
           \* failed for want of a context
  gone,    \* of each context, keys removed by delete_key or by its destroy
  abandoned \* keys of calls that never returned and had not recorded them

opVars == <<pc, ctx, new, stale>>
history == <<minted, loose, gone, abandoned>>
vars == <<kind, keys, state, kids, opVars, saved, history>>

\* Uninitialized and Suspended of types.rs are set by no plugin.
LifecycleState == {"Registered", "Active", "Destroyed"}
Step == {"idle", "register", "rotate", "wipe", "close"}

TypeOK ==
  /\ kind \in Kind
  /\ keys \in SUBSET Kid
  /\ state \in [Context -> LifecycleState \cup {"Absent"}]
  /\ kids \in [Context -> SUBSET Kid]
  /\ pc \in [Caller -> Step]
  /\ ctx \in [Caller -> Context \cup {None}]
  /\ new \in [Caller -> Kid \cup {None}]
  /\ stale \in [Caller -> SUBSET Kid]
  /\ minted \in SUBSET Kid
  /\ loose \in SUBSET Kid
  /\ gone \in [Context -> SUBSET Kid]
  /\ abandoned \in SUBSET Kid
  /\ saved \in [keys : SUBSET Kid,
                state : [Context -> LifecycleState \cup {"Absent"}],
                kids : [Context -> SUBSET Kid]]

\* SoftkeyPlugin::new, Fido2SignPlugin::new.
Init ==
  /\ kind \in Kind
  /\ keys = {}
  /\ state = [x \in Context |-> "Absent"]
  /\ kids = [x \in Context |-> {}]
  /\ pc = [c \in Caller |-> "idle"]
  /\ ctx = [c \in Caller |-> None]
  /\ new = [c \in Caller |-> None]
  /\ stale = [c \in Caller |-> {}]
  /\ minted = {}
  /\ loose = {}
  /\ gone = [x \in Context |-> {}]
  /\ abandoned = {}
  /\ saved = [keys |-> {}, state |-> state, kids |-> kids]

-----------------------------------------------------------------------------
\* c may begin an operation.
CanStart(c) ==
  /\ pc[c] = "idle"
  /\ OneAtATime => \A d \in Caller : pc[d] = "idle"

Finish(c) ==
  /\ pc' = [pc EXCEPT ![c] = "idle"]
  /\ ctx' = [ctx EXCEPT ![c] = None]
  /\ new' = [new EXCEPT ![c] = None]
  /\ stale' = [stale EXCEPT ![c] = {}]

\* generate_key puts a new key into the store.
Make(k) ==
  /\ k \notin minted
  /\ minted' = minted \cup {k}
  /\ keys' = keys \cup {k}

\* generate_key called for its own sake. The key is stored before the host is
\* told of the progress, where the call may still be abandoned.
GenerateKey(c, k) ==
  /\ CanStart(c)
  /\ Make(k)
  /\ \/ loose' = loose \cup {k} /\ UNCHANGED abandoned
     \/ abandoned' = abandoned \cup {k} /\ UNCHANGED loose
  /\ UNCHANGED <<state, kids, opVars, saved, gone>>

\* delete_key looks at the key store only.
DeleteKey(c, k) ==
  /\ CanStart(c)
  /\ k \in keys
  /\ keys' = keys \ {k}
  /\ gone' = [x \in Context |-> gone[x] \cup {k}]
  /\ UNCHANGED <<state, kids, opVars, saved, minted, loose, abandoned>>

\* Mutant: the generated key is forgotten before it is recorded.
MakeAndForget(c, x, k, op) ==
  /\ CanStart(c)
  /\ Make(k)
  /\ pc' = [pc EXCEPT ![c] = op]
  /\ ctx' = [ctx EXCEPT ![c] = x]
  /\ UNCHANGED <<state, kids, new, stale, saved, loose, gone, abandoned>>

\* Mutant: a key the store already holds is taken for the context.
AdoptKey(c, x, k, op) ==
  /\ CanStart(c)
  /\ Make(k) \/ (k \in keys /\ UNCHANGED <<minted, keys>>)
  /\ pc' = [pc EXCEPT ![c] = op]
  /\ ctx' = [ctx EXCEPT ![c] = x]
  /\ new' = [new EXCEPT ![c] = k]
  /\ UNCHANGED <<state, kids, stale, saved, loose, gone, abandoned>>

\* register_lifecycle and rotate_lifecycle generate a key first.
MakeFor(c, x, k, op) ==
  /\ CanStart(c)
  /\ Make(k)
  /\ pc' = [pc EXCEPT ![c] = op]
  /\ ctx' = [ctx EXCEPT ![c] = x]
  /\ new' = [new EXCEPT ![c] = k]
  /\ UNCHANGED <<state, kids, stale, saved, loose, gone, abandoned>>

\* Mutant: the replaced keys are purged after the new entry is in place.
PurgeLate(c) ==
  LET x == ctx[c] IN
  /\ pc[c] = "register"
  /\ keys' = keys \ {new[c]}
  /\ state' = [state EXCEPT ![x] = "Registered"]
  /\ kids' = [kids EXCEPT ![x] = {new[c]}]
  /\ Finish(c)
  /\ UNCHANGED <<saved, history>>

\* Mutant: the entry is overwritten, its keys stay in the store.
NoPurge(c) ==
  LET x == ctx[c] IN
  /\ pc[c] = "register"
  /\ state' = [state EXCEPT ![x] = "Registered"]
  /\ kids' = [kids EXCEPT ![x] = {new[c]}]
  /\ Finish(c)
  /\ UNCHANGED <<keys, saved, history>>

\* register_lifecycle_context, the contexts locked and the key store inside:
\* the keys of the entry that is replaced are purged.
Register(c) ==
  LET x == ctx[c] IN
  /\ pc[c] = "register"
  /\ keys' = keys \ kids[x]
  /\ state' = [state EXCEPT ![x] = "Registered"]
  /\ kids' = [kids EXCEPT ![x] = {new[c]}]
  /\ Finish(c)
  /\ UNCHANGED <<saved, history>>

\* rotate_lifecycle_push_key; without an entry, KeyNotFound, and the new key
\* stays in the store.
Rotate(c) ==
  LET x == ctx[c] IN
  /\ pc[c] = "rotate"
  /\ \/ /\ state[x] # "Absent"
        /\ kids' = [kids EXCEPT ![x] = @ \cup {new[c]}]
        /\ state' = [state EXCEPT ![x] = IF kind = "fido2" THEN "Registered"
                                                           ELSE @]
        /\ UNCHANGED loose
     \/ /\ state[x] = "Absent"
        /\ loose' = loose \cup {new[c]}
        /\ UNCHANGED <<state, kids>>
  /\ Finish(c)
  /\ UNCHANGED <<keys, saved, minted, gone, abandoned>>

\* A registration or a rotation that ends where generate_key reports its
\* progress to the host: the callback panics, which the FFI survives, or the
\* caller drops the future. The key is stored, and nobody undoes that. The
\* other sections follow each other without an await.
Abandon(c) ==
  /\ pc[c] \in {"register", "rotate"}
  /\ abandoned' = abandoned \cup {new[c]}
  /\ Finish(c)
  /\ UNCHANGED <<keys, state, kids, saved, minted, loose, gone>>

\* activate_lifecycle_context asks for an entry only.
Activate(c, x) ==
  /\ CanStart(c)
  /\ state[x] # "Absent"
  /\ state' = [state EXCEPT ![x] = "Active"]
  /\ UNCHANGED <<keys, kids, opVars, saved, history>>

\* destroy_lifecycle, first section: the entry must exist; softkey copies its
\* key ids.
DestroyLook(c, x) ==
  /\ CanStart(c)
  /\ state[x] # "Absent"
  /\ pc' = [pc EXCEPT ![c] = "wipe"]
  /\ ctx' = [ctx EXCEPT ![c] = x]
  /\ stale' = [stale EXCEPT ![c] = kids[x]]
  /\ UNCHANGED <<keys, state, kids, new, saved, history>>

\* Second section, the key store locked.
DestroyWipe(c) ==
  /\ pc[c] = "wipe"
  /\ keys' = IF kind = "fido2" THEN {} ELSE keys \ stale[c]
  /\ gone' = [gone EXCEPT ![ctx[c]] = @ \cup (keys \ keys')]
  /\ pc' = [pc EXCEPT ![c] = "close"]
  /\ stale' = [stale EXCEPT ![c] = {}]
  /\ UNCHANGED <<state, kids, ctx, new, saved, minted, loose, abandoned>>

\* Third section, the contexts locked again.
DestroyClose(c) ==
  /\ pc[c] = "close"
  /\ state' = [state EXCEPT ![ctx[c]] = "Destroyed"]
  /\ kids' = [kids EXCEPT ![ctx[c]] = {}]
  /\ Finish(c)
  /\ UNCHANGED <<keys, saved, history>>

\* export_container, export_state, both mutexes held, and the host persisting
\* the blob.
Export(c) ==
  /\ CanStart(c)
  /\ saved' = [keys |-> keys, state |-> state, kids |-> kids]
  /\ UNCHANGED <<keys, state, kids, opVars, history>>

\* Mutant: the contexts are not part of the blob.
RestartWithoutContexts ==
  /\ keys' = saved.keys
  /\ state' = [x \in Context |-> "Absent"]
  /\ kids' = [x \in Context |-> {}]
  /\ pc' = [c \in Caller |-> "idle"]
  /\ ctx' = [c \in Caller |-> None]
  /\ new' = [c \in Caller |-> None]
  /\ stale' = [c \in Caller |-> {}]
  /\ UNCHANGED <<saved, history>>

\* The process dies, whatever its callers were doing, and the plugin is built
\* again by from_container or from_state.
Restart ==
  /\ keys' = saved.keys
  /\ state' = saved.state
  /\ kids' = saved.kids
  /\ pc' = [c \in Caller |-> "idle"]
  /\ ctx' = [c \in Caller |-> None]
  /\ new' = [c \in Caller |-> None]
  /\ stale' = [c \in Caller |-> {}]
  /\ UNCHANGED <<saved, history>>

-----------------------------------------------------------------------------
CallerStep(c) ==
  \/ \E k \in Kid : GenerateKey(c, k) \/ DeleteKey(c, k)
  \/ \E x \in Context, k \in Kid, op \in {"register", "rotate"} :
       MakeFor(c, x, k, op)
  \/ Register(c)
  \/ Rotate(c)
  \/ Abandon(c)
  \/ \E x \in Context : Activate(c, x) \/ DestroyLook(c, x)
  \/ DestroyWipe(c)
  \/ DestroyClose(c)
  \/ Export(c)

Next == ((\E c \in Caller : CallerStep(c)) \/ Restart) /\ UNCHANGED kind

Spec == Init /\ [][Next]_vars

-----------------------------------------------------------------------------
(* Properties.                                                             *)

\* A softkey context loses a key only by delete_key or to a destroy of that
\* very context, whatever other contexts and callers do meanwhile, and none
\* at all to a restart.
ContextKeysAreHeld ==
  kind = "softkey" =>
    \A x \in Context : kids[x] \subseteq keys \cup gone[x]

\* No key backs two contexts, or a context and an independent key, so that
\* purging one context never takes a key of another.
ContextsDisjoint ==
  \A x \in Context :
    /\ kids[x] \cap loose = {}
    /\ \A y \in Context \ {x} : kids[x] \cap kids[y] = {}

\* A key was asked for on its own, or a context records it, or an operation in
\* progress is about to, or a rotation of an unknown context left it.
Owned(k) ==
  \/ k \in loose
  \/ \E x \in Context : k \in kids[x]
  \/ \E c \in Caller : k = new[c]

\* Nothing leaks from a call that returns: a stored key without an owner was
\* left by one that never did, after generate_key and before the key was
\* recorded ("behaves like an implicit destroy-then-register that never leaks
\* keys", register_lifecycle_context). So it is also after a restart, since
\* the snapshot has the contexts with the keys.
NoKeyLeaks == \A k \in keys : Owned(k) \/ k \in abandoned

\* The same promise for callers of the Rust API, which nothing serialises,
\* while no snapshot has been taken.
ReRegisterNeverLeaks == saved.keys = {} => NoKeyLeaks

\* Serialised, an operation takes effect as a whole: a key being made is not
\* there yet, and a destroy is complete as soon as the keys are wiped.
Making == {new[c] : c \in Caller} \ {None}
Closing == {ctx[c] : c \in {d \in Caller : pc[d] = "close"}}

Atomic == INSTANCE ContextStore WITH
  keys <- keys \ Making,
  state <- [x \in Context |-> IF x \in Closing THEN "Destroyed" ELSE state[x]],
  kids <- [x \in Context |-> IF x \in Closing THEN {} ELSE kids[x]],
  used <- minted \ Making

\* A caller of the FFI sees atomic operations, although each is up to three
\* critical sections and a restart may fall between them.
LooksAtomic == Atomic!Spec

\* fido2's destroy_lifecycle: "every key this instance holds belongs to the
\* context being destroyed".
DestroyTakesOwnKeysOnly ==
  \A c \in Caller : pc[c] = "wipe" => keys \subseteq kids[ctx[c]]
=============================================================================
