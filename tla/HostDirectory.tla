---------------------------- MODULE HostDirectory ----------------------------
(***************************************************************************)
(* What the FFI promises the application that drives it over many lives of *)
(* its process.  While a process lives it is a KeyDirectory.  When it dies *)
(* every key and every route is forgotten, and what comes back is what the *)
(* host has persisted: a blob holds every key its plugin had issued when   *)
(* it was exported, and a restore issues all of its keys and routes them   *)
(* to their plugin, or fails and issues none.                              *)
(***************************************************************************)
EXTENDS KeyDirectory

CONSTANT WipesAll  \* plugins that may take issued keys away by themselves

VARIABLE blob      \* [Plugin -> set of keys]: those in the latest export

hostDirVars == <<dirVars, blob>>

HostInit == Init /\ blob = [p \in Plugin |-> {}]

IssuedBy(p) == {k \in Kid : issued[k] = p}

\* The process dies and is started again.
Restart ==
  /\ issued' = [k \in Kid |-> None]
  /\ route' = [k \in Kid |-> None]
  /\ answer' = Success(None)
  /\ UNCHANGED blob

\* The host persists the keys S of p, those it was given among them.
Persist(p, S) ==
  /\ p \notin WipesAll => IssuedBy(p) \subseteq S
  /\ blob' = [blob EXCEPT ![p] = S]
  /\ answer' = Success(None)
  /\ UNCHANGED <<issued, route>>

\* The keys p had issued and its blob does not bring back are lost.
Kept(p) == [k \in Kid |-> IF k \in IssuedBy(p) \ blob[p] THEN None ELSE issued[k]]

\* A new instance of p takes over with its blob, and the kids S, which lead
\* nowhere else, now lead to p: with success all those of the blob among them.
Restore(p, S) ==
  /\ \A k \in S : route[k] \in {None, p}
  /\ route' = [k \in Kid |-> IF k \in S THEN p ELSE route[k]]
  /\ \/ /\ blob[p] \subseteq S
        /\ issued' = [k \in Kid |-> IF k \in blob[p] THEN p ELSE Kept(p)[k]]
        /\ answer' = Success(None)
     \/ /\ issued' = Kept(p)
        /\ answer' = NoSuccess
  /\ UNCHANGED blob

HostNext ==
  \/ Next /\ UNCHANGED blob
  \/ Restart
  \/ \E p \in Plugin, S \in SUBSET Kid : Persist(p, S) \/ Restore(p, S)

HostSpec == HostInit /\ [][HostNext]_hostDirVars
=============================================================================
