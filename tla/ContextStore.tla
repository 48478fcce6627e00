---------------------------- MODULE ContextStore ----------------------------
(***************************************************************************)
(* What a plugin that backs lifecycle contexts with keys promises to a     *)
(* caller that makes one call at a time: every operation happens at once,  *)
(* with all its effects on the key store and on the contexts, or not at    *)
(* all, and a restart brings back one moment of the past.                  *)
(***************************************************************************)
EXTENDS Naturals

CONSTANTS Context, Kid

VARIABLES
  kind,   \* "softkey" or "fido2"
  keys,   \* the key store
  state,  \* the state of each context, "Absent" if there is none
  kids,   \* the keys of each context
  used,   \* every key made so far
  saved   \* the latest snapshot

vars == <<kind, keys, state, kids, used, saved>>

Init ==
  /\ kind \in {"softkey", "fido2"}
  /\ keys = {}
  /\ state = [x \in Context |-> "Absent"]
  /\ kids = [x \in Context |-> {}]
  /\ used = {}
  /\ saved = [keys |-> {}, state |-> state, kids |-> kids]

\* A new key for its own sake, or for a rotation that then fails.
Generate(k) ==
  /\ k \notin used
  /\ keys' = keys \cup {k}
  /\ used' = used \cup {k}
  /\ UNCHANGED <<kind, state, kids, saved>>

Delete(k) ==
  /\ k \in keys
  /\ keys' = keys \ {k}
  /\ UNCHANGED <<kind, state, kids, used, saved>>

\* Registering a context anew drops the keys it had.
Register(x, k) ==
  /\ k \notin used
  /\ keys' = (keys \ kids[x]) \cup {k}
  /\ used' = used \cup {k}
  /\ state' = [state EXCEPT ![x] = "Registered"]
  /\ kids' = [kids EXCEPT ![x] = {k}]
  /\ UNCHANGED <<kind, saved>>

Rotate(x, k) ==
  /\ state[x] # "Absent"
  /\ k \notin used
  /\ keys' = keys \cup {k}
  /\ used' = used \cup {k}
  /\ state' = [state EXCEPT ![x] = IF kind = "fido2" THEN "Registered" ELSE @]
  /\ kids' = [kids EXCEPT ![x] = @ \cup {k}]
  /\ UNCHANGED <<kind, saved>>

Activate(x) ==
  /\ state[x] # "Absent"
  /\ state' = [state EXCEPT ![x] = "Active"]
  /\ UNCHANGED <<kind, keys, kids, used, saved>>

Destroy(x) ==
  /\ state[x] # "Absent"
  /\ keys' = IF kind = "fido2" THEN {} ELSE keys \ kids[x]
  /\ state' = [state EXCEPT ![x] = "Destroyed"]
  /\ kids' = [kids EXCEPT ![x] = {}]
  /\ UNCHANGED <<kind, used, saved>>

Export ==
  /\ saved' = [keys |-> keys, state |-> state, kids |-> kids]
  /\ UNCHANGED <<kind, keys, state, kids, used>>

\* Keys made since, and even one that was being made, are used up.
Restart ==
  /\ keys' = saved.keys
  /\ state' = saved.state
  /\ kids' = saved.kids
  /\ used \subseteq used'
  /\ UNCHANGED <<kind, saved>>

Next ==
  \/ \E k \in Kid : Generate(k) \/ Delete(k)
  \/ \E x \in Context, k \in Kid : Register(x, k) \/ Rotate(x, k)
  \/ \E x \in Context : Activate(x) \/ Destroy(x)
  \/ Export
  \/ Restart

Spec == Init /\ [][Next]_vars
=============================================================================
