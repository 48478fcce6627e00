---------------------------- MODULE KeyDirectory ----------------------------
(***************************************************************************)
(* What the manager promises a host that only sees key ids: a directory.   *)
(* A key is issued by one plugin in one step, however many candidates were *)
(* tried, keys rejected and deletions made before it; operations on an     *)
(* issued key reach that plugin; and an issued key goes only when the host *)
(* deletes it or registers its plugin anew.                                *)
(***************************************************************************)

CONSTANTS Plugin, Kid, None

VARIABLES
  issued,  \* [Kid -> Plugin or None]: the plugin of a key the host was given
  route,   \* [Kid -> Plugin or None]: where operations on a kid are sent
  answer   \* whether the latest call succeeded, and the key it returned

dirVars == <<issued, route, answer>>

\* Success with the key k, or with none; failure, or a call still under way.
Success(k) == [res |-> "ok", kid |-> k]
NoSuccess == [res |-> "no", kid |-> None]

TypeOK ==
  /\ issued \in [Kid -> Plugin \cup {None}]
  /\ route \in [Kid -> Plugin \cup {None}]

Init ==
  /\ issued = [k \in Kid |-> None]
  /\ route = [k \in Kid |-> None]
  /\ answer = Success(None)

\* The host asks for a key and is given k of plugin p, which nobody else's
\* kid is routed to.
Issue(k, p) ==
  /\ route[k] \in {None, p}
  /\ issued' = [issued EXCEPT ![k] = p]
  /\ route' = [route EXCEPT ![k] = p]
  /\ answer' = Success(k)

\* The host deletes k, and is told so.
Withdraw(k) ==
  /\ issued' = [issued EXCEPT ![k] = None]
  /\ route' = [route EXCEPT ![k] = None]
  /\ answer' = Success(None)

\* In a call that has not succeeded the manager forgets a kid no host was
\* given: of an issued key it must not.
Forget(k) ==
  /\ issued[k] = None
  /\ route' = [route EXCEPT ![k] = None]
  /\ answer' = NoSuccess
  /\ UNCHANGED issued

\* Kids that lead nowhere else now lead to p: keys p brought back, or a key
\* no host has been given yet.
Send(S, p) ==
  /\ \A k \in S : route[k] \in {None, p}
  /\ route' = [k \in Kid |-> IF k \in S THEN p ELSE route[k]]
  /\ answer' \in {Success(None), NoSuccess}
  /\ UNCHANGED issued

\* A new instance of p comes without the keys S of the old one.
Lose(S, p) ==
  /\ \A k \in S : issued[k] = p
  /\ issued' = [k \in Kid |-> IF k \in S THEN None ELSE issued[k]]
  /\ answer' = Success(None)
  /\ UNCHANGED route

\* A call that returns no key, or has not returned yet.
NoKey ==
  /\ answer' \in {Success(None), NoSuccess}
  /\ UNCHANGED <<issued, route>>

Next ==
  \/ NoKey
  \/ \E k \in Kid, p \in Plugin : Issue(k, p)
  \/ \E k \in Kid : Withdraw(k) \/ Forget(k)
  \/ \E S \in SUBSET Kid, p \in Plugin : Send(S, p) \/ Lose(S, p)

Spec == Init /\ [][Next]_dirVars

\* Operations on a key the host was given reach the plugin that issued it.
IssuedIsRouted == \A k \in Kid : issued[k] # None => route[k] = issued[k]

\* A key the latest call returned is one the host has been given.
AnswerIsIssued == answer.kid # None => issued[answer.kid] # None
=============================================================================
