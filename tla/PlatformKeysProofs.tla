------------------------- MODULE PlatformKeysProofs -------------------------
(* The invariants of PlatformKeys, proved for any callers, number of       *)
(* generations and restarts, and anything the platform may say of a key.   *)
EXTENDS PlatformKeys, TLAPS

\* What the plugin or the host may still name.
Taken == keys \cup saved \cup doomed \cup gone

\* A call under way has an alias, and no alias is from a later generation.
Drawn ==
  /\ \A c \in Caller : phase[c] # "idle" => at[c] \in Alias /\ at[c][1] <= made
  /\ \A a \in alive \cup Taken : a[1] <= made

\* The aliases of a generation belong to the call that makes it.
Alone ==
  \A c \in Caller : phase[c] \in Generating =>
    /\ \A a \in Taken : a[1] # at[c][1]
    /\ \A d \in Caller \ {c} : phase[d] # "idle" => at[d][1] # at[c][1]

\* When a record is about to be dropped, its key is gone already.
ForgetsTheDead == \A c \in Caller : phase[c] = "forget" => at[c] \notin alive

\* Only the enclave's calls skip the cleanup.
EnclaveIsApple == \A c \in Caller : phase[c] = "enclave" => kind = "apple"

\* A call that is about to record a key knows what the platform confirmed,
\* and a record, also a saved one, says just that.
RecordsTheTruth ==
  /\ \A c \in Caller : phase[c] = "finish" =>
       truth[at[c]] \in Attestation /\ got[c] = truth[at[c]].level
  /\ \A k \in keys \cup saved :
       /\ truth[k] \in Attestation
       /\ kind = "android" => /\ recorded[k].level = truth[k].level
                              /\ recorded[k].certs = truth[k].certs

IInv ==
  /\ TypeOK
  /\ Drawn
  /\ Alone
  /\ ForgetsTheDead
  /\ EnclaveIsApple
  /\ RecordsTheTruth
  /\ NoSilentLeak
  /\ DeletedMeansGone

-----------------------------------------------------------------------------
(* A step of a generation.                                                 *)

LEMMA Aliases ==
  /\ \A a \in Alias : a[1] \in Nat /\ <<a[1], "second">> \in Alias
  /\ \A n \in 1 .. MaxKeys : <<n, "first">> \in Alias
  BY PlatformAssumption DEF Alias

\* Call c goes on with its generation or ends it, and changes nothing but what
\* is known and held under its alias; if the platform may hold that alias and
\* c does not work on it any more, there is an excuse.
GenStep(c) ==
  /\ phase[c] \in Generating
  /\ phase'[c] \in (Generating \ {"enclave"}) \cup {"idle"}
  /\ phase'[c] # "idle" => at'[c] \in Alias /\ at'[c][1] = at[c][1]
  /\ phase'[c] = "finish" =>
       truth'[at'[c]] \in Attestation /\ got'[c] = truth'[at'[c]].level
  /\ \A d \in Caller \ {c} :
       phase'[d] = phase[d] /\ at'[d] = at[d] /\ got'[d] = got[d]
  /\ \A a \in Alias \ {at[c]} :
       truth'[a] = truth[a] /\ excuse'[a] = excuse[a] /\ (a \in alive' <=> a \in alive)
  /\ at[c] \in alive' =>
       \/ phase'[c] \in Generating /\ at'[c] = at[c]
       \/ /\ excuse'[at[c]] # "none"
          /\ excuse'[at[c]] = "unfinished" => kind = "apple"
  /\ UNCHANGED <<kind, made, keys, recorded, saved, doomed, gone>>

LEMMA GenStepKeeps ==
  ASSUME IInv, NEW c \in Caller, GenStep(c), TypeOK'
  PROVE  IInv'
<1>1. /\ at[c] \in Alias
      /\ at[c][1] <= made
      /\ \A a \in Taken : a[1] # at[c][1]
      /\ \A d \in Caller \ {c} : phase[d] # "idle" => at[d][1] # at[c][1]
  BY DEF IInv, GenStep, Drawn, Alone, Generating, Attempts, Cleanups
<1>2. Taken' = Taken /\ Taken \subseteq Alias /\ alive' \subseteq Alias /\ alive \subseteq Alias
  BY DEF GenStep, Taken, IInv, TypeOK
<1>3. Drawn'
  <2>1. \A d \in Caller : phase'[d] # "idle" => at'[d] \in Alias /\ at'[d][1] <= made
    BY <1>1 DEF IInv, Drawn, GenStep
  <2>2. \A a \in alive' \cup Taken : a[1] <= made
    BY <1>1, <1>2 DEF IInv, Drawn, GenStep
  <2> QED
    BY <2>1, <2>2, <1>2 DEF Drawn, GenStep
<1>4. Alone'
  <2>1. SUFFICES ASSUME NEW e \in Caller, phase'[e] \in Generating
                 PROVE  /\ \A a \in Taken : a[1] # at'[e][1]
                        /\ \A d \in Caller \ {e} : phase'[d] # "idle" => at'[d][1] # at'[e][1]
    BY <1>2 DEF Alone, Generating, Attempts, Cleanups
  <2>2. "idle" \notin Generating
    BY DEF Generating, Attempts, Cleanups
  <2>3. phase[e] \in Generating /\ at'[e][1] = at[e][1]
    BY <2>1, <2>2 DEF GenStep
  <2>4. \A d \in Caller : phase'[d] # "idle" => phase[d] # "idle" /\ at'[d][1] = at[d][1]
    BY <2>2 DEF GenStep
  <2> QED
    BY <2>3, <2>4 DEF IInv, Alone
<1>5. ForgetsTheDead'
  <2> SUFFICES ASSUME NEW d \in Caller, phase'[d] = "forget" PROVE at'[d] \notin alive'
    BY DEF ForgetsTheDead
  <2>1. d # c /\ phase[d] = "forget" /\ at'[d] = at[d] /\ at[d] # at[c]
    BY <1>1 DEF GenStep, Generating, Attempts, Cleanups
  <2>2. at[d] \in Alias /\ at[d] \notin alive
    BY <2>1 DEF IInv, Drawn, ForgetsTheDead
  <2> QED
    BY <2>1, <2>2 DEF GenStep
<1>6. EnclaveIsApple'
  BY DEF IInv, EnclaveIsApple, GenStep
<1>7. RecordsTheTruth'
  <2>1. \A d \in Caller \ {c} : phase[d] = "finish" => at[d] \in Alias \ {at[c]}
    BY <1>1 DEF IInv, Drawn
  <2>2. \A k \in keys \cup saved : k \in Alias \ {at[c]}
    BY <1>1, <1>2 DEF Taken
  <2> QED
    BY <2>1, <2>2 DEF IInv, RecordsTheTruth, GenStep
<1>8. NoSilentLeak'
  <2> SUFFICES ASSUME NEW a \in alive'
               PROVE  \/ a \in keys'
                      \/ InFlight(a)'
                      \/ excuse'[a] # "none" /\ (excuse'[a] = "unfinished" => kind' = "apple")
    BY DEF NoSilentLeak
  <2>1. CASE a = at[c]
    BY <2>1 DEF GenStep, InFlight
  <2>2. CASE a # at[c]
    BY <2>2, <1>2 DEF GenStep, InFlight, IInv, NoSilentLeak
  <2> QED
    BY <2>1, <2>2
<1>9. DeletedMeansGone'
  <2>1. at[c] \notin gone /\ gone \subseteq Alias
    BY <1>1 DEF Taken, IInv, TypeOK
  <2> QED
    BY <2>1 DEF IInv, DeletedMeansGone, GenStep
<1> QED
  BY <1>3, <1>4, <1>5, <1>6, <1>7, <1>8, <1>9 DEF IInv

\* What the calls of a generation have in common: c is called GoesOn or Ends.
LEMMA GoesOnWith ==
  ASSUME IInv, NEW c \in Caller, NEW step \in Phase, GoesOn(c, step)
  PROVE  /\ phase' \in [Caller -> Phase]
         /\ phase'[c] = step
         /\ \A d \in Caller \ {c} : phase'[d] = phase[d]
  BY DEF GoesOn, IInv, TypeOK

LEMMA EndsWith ==
  ASSUME IInv, NEW c \in Caller, Ends(c)
  PROVE  /\ phase' \in [Caller -> Phase]
         /\ at' \in [Caller -> Alias \cup {None}]
         /\ got' \in [Caller -> Level \cup {None}]
         /\ phase'[c] = "idle"
         /\ \A d \in Caller \ {c} :
              phase'[d] = phase[d] /\ at'[d] = at[d] /\ got'[d] = got[d]
<1>1. "idle" \in Phase
  BY DEF Phase
<1> QED
  BY <1>1 DEF Ends, IInv, TypeOK

\* An attempt is confirmed, or its failure leads to a cleanup.
LEMMA Attempted ==
  ASSUME IInv, NEW c \in Caller, phase[c] \in Attempts,
         \/ Confirmed(c)
         \/ /\ HalfMade(c)
            /\ GoesOn(c, "clean strongbox") \/ GoesOn(c, "clean")
            /\ UNCHANGED <<truth, at, got, excuse>>,
         UNCHANGED <<made, Store, Rest>>
  PROVE  IInv'
<1>1. at[c] \in Alias /\ at[c][1] <= made
  BY DEF IInv, Drawn, Attempts
<1>2. UNCHANGED <<kind, made, restarts, keys, saved, doomed, gone, recorded, at, excuse>>
  BY DEF Confirmed, Store, Rest
<1>3. /\ phase' \in [Caller -> Phase]
      /\ phase'[c] \in {"finish", "clean strongbox", "clean"}
      /\ \A d \in Caller \ {c} : phase'[d] = phase[d]
  <2>1. {"finish", "clean strongbox", "clean"} \subseteq Phase
    BY DEF Phase, Generating, Cleanups
  <2>2. \E step \in {"finish", "clean strongbox", "clean"} : GoesOn(c, step)
    BY DEF Confirmed
  <2> QED
    BY <2>1, <2>2, GoesOnWith
<1>4. /\ alive' \subseteq Alias
      /\ \A a \in alive' : a[1] <= made
      /\ \A a \in Alias \ {at[c]} : a \in alive' <=> a \in alive
  BY <1>1 DEF Confirmed, HalfMade, IInv, TypeOK
<1>5. /\ truth' \in [Alias -> Attestation \cup {None}]
      /\ got' \in [Caller -> Level \cup {None}]
      /\ \A a \in Alias \ {at[c]} : truth'[a] = truth[a]
      /\ \A d \in Caller \ {c} : got'[d] = got[d]
      /\ phase'[c] = "finish" => truth'[at[c]] \in Attestation /\ got'[c] = truth'[at[c]].level
  <2>1. CASE Confirmed(c)
    <3>1. PICK att \in Attestation : /\ truth' = [truth EXCEPT ![at[c]] = att]
                                     /\ got' = [got EXCEPT ![c] = att.level]
      BY <2>1 DEF Confirmed
    <3>2. att.level \in Level
      BY PlatformAssumption
    <3> QED
      BY <1>1, <3>1, <3>2 DEF IInv, TypeOK
  <2>2. CASE ~Confirmed(c)
    <3>1. phase'[c] # "finish"
      BY <2>2 DEF GoesOn, IInv, TypeOK
    <3> QED
      BY <2>2, <3>1 DEF IInv, TypeOK
  <2> QED
    BY <2>1, <2>2
<1>6. TypeOK'
  BY <1>2, <1>3, <1>4, <1>5 DEF IInv, TypeOK
<1>7. GenStep(c)
  BY <1>1, <1>2, <1>3, <1>4, <1>5 DEF GenStep, Generating, Attempts, Cleanups
<1> QED
  BY <1>6, <1>7, GenStepKeeps

\* A generation ends without a key: its alias is gone, or there is an excuse.
LEMMA GivenUp ==
  ASSUME IInv, NEW c \in Caller, phase[c] \in Generating, Ends(c),
         alive' \in {alive, alive \cup {at[c]}, alive \ {at[c]}},
         \/ at[c] \notin alive' /\ excuse' = excuse
         \/ \E why \in {"UnconfirmedCleanup", "abandoned", "unfinished"} :
              /\ excuse' = [excuse EXCEPT ![at[c]] = why]
              /\ why = "unfinished" => kind = "apple",
         UNCHANGED <<made, truth, Store, Rest>>
  PROVE  IInv'
<1>1. at[c] \in Alias /\ at[c][1] <= made
  BY DEF IInv, Drawn, Generating, Attempts, Cleanups
<1>2. UNCHANGED <<kind, made, restarts, keys, saved, doomed, gone, recorded, truth>>
  BY DEF Store, Rest
<1>3. /\ alive' \subseteq Alias
      /\ \A a \in alive' : a[1] <= made
      /\ \A a \in Alias \ {at[c]} : a \in alive' <=> a \in alive
  BY <1>1 DEF IInv, TypeOK
<1>4. /\ excuse' \in [Alias -> {"none", "UnconfirmedCleanup", "abandoned", "unfinished", "lost"}]
      /\ \A a \in Alias \ {at[c]} : excuse'[a] = excuse[a]
      /\ at[c] \in alive' => /\ excuse'[at[c]] # "none"
                             /\ excuse'[at[c]] = "unfinished" => kind = "apple"
  BY <1>1 DEF IInv, TypeOK
<1>5. TypeOK'
  BY <1>2, <1>3, <1>4, EndsWith DEF IInv, TypeOK
<1>6. GenStep(c)
  BY <1>2, <1>3, <1>4, EndsWith DEF GenStep
<1> QED
  BY <1>5, <1>6, GenStepKeeps

\* The host is told of an unconfirmed cleanup as such.
LEMMA CleanupIsReported == ToFfi("UnconfirmedCleanup") = "UnconfirmedCleanup"
  BY DEF ToFfi

LEMMA StrongBoxKeeps ==
  ASSUME IInv, NEW c \in Caller, StrongBox(c)
  PROVE  IInv'
<1>1. ASSUME NEW err,
             GoesOn(c, IF err = "StrongBoxUnavailable"
                       THEN "clean strongbox" ELSE "clean")
      PROVE  GoesOn(c, "clean strongbox") \/ GoesOn(c, "clean")
  BY <1>1
<1> QED
  BY <1>1, Attempted DEF StrongBox, Attempts

LEMMA TeeKeeps ==
  ASSUME IInv, NEW c \in Caller, Tee(c)
  PROVE  IInv'
  BY Attempted DEF Tee, Attempts

LEMMA EnclaveKeeps ==
  ASSUME IInv, NEW c \in Caller, Enclave(c)
  PROVE  IInv'
<1>1. CASE Confirmed(c)
  BY <1>1, Attempted DEF Enclave, Attempts
<1>2. CASE ~Confirmed(c)
  <2>1. phase[c] \in Generating /\ kind = "apple"
    BY DEF Enclave, Generating, Attempts, IInv, EnclaveIsApple
  <2> QED
    BY <1>2, <2>1, GivenUp DEF Enclave, HalfMade
<1> QED
  BY <1>1, <1>2

LEMMA CleanKeeps ==
  ASSUME IInv, NEW c \in Caller, Clean(c)
  PROVE  IInv'
<1>1. phase[c] \in Generating /\ Ends(c)
  BY DEF Clean, Unconfirmed, Generating, Cleanups
<1> QED
  BY <1>1, GivenUp, CleanupIsReported DEF Clean, Unconfirmed

LEMMA CleanStrongBoxKeeps ==
  ASSUME IInv, NEW c \in Caller, CleanStrongBox(c)
  PROVE  IInv'
<1>0. phase[c] \in Generating /\ phase[c] # "idle"
  BY DEF CleanStrongBox, Generating, Cleanups
<1>1. CASE Unconfirmed(c)
  BY <1>0, <1>1, GivenUp, CleanupIsReported
     DEF CleanStrongBox, Unconfirmed
<1>2. CASE ~Unconfirmed(c)
  <2>1. /\ at[c] \in Alias
        /\ at[c][1] <= made
        /\ <<at[c][1], "second">> \in Alias
    BY <1>0, Aliases DEF IInv, Drawn
  <2>2. UNCHANGED <<kind, made, restarts, keys, saved, doomed, gone, recorded, truth, got, excuse>>
    BY <1>2 DEF CleanStrongBox, Store, Rest
  <2>3. /\ phase' \in [Caller -> Phase]
        /\ phase'[c] = "tee"
        /\ \A d \in Caller \ {c} : phase'[d] = phase[d]
    <3>1. "tee" \in Phase
      BY DEF Phase, Generating, Attempts
    <3> QED
      BY <1>2, <3>1, GoesOnWith DEF CleanStrongBox
  <2>4. /\ at' \in [Caller -> Alias \cup {None}]
        /\ at'[c] = <<at[c][1], "second">>
        /\ \A d \in Caller \ {c} : at'[d] = at[d]
    BY <1>2, <2>1 DEF CleanStrongBox, IInv, TypeOK
  <2>5. alive' = alive \ {at[c]}
    BY <1>2 DEF CleanStrongBox
  <2>6. TypeOK'
    BY <2>2, <2>3, <2>4, <2>5 DEF IInv, TypeOK
  <2>7. GenStep(c)
    BY <1>0, <2>1, <2>2, <2>3, <2>4, <2>5 DEF GenStep, Generating, Attempts
  <2> QED
    BY <2>6, <2>7, GenStepKeeps
<1> QED
  BY <1>1, <1>2

-----------------------------------------------------------------------------
(* The other steps.                                                        *)

LEMMA StartGenerateKeeps ==
  ASSUME IInv, NEW c \in Caller, StartGenerate(c)
  PROVE  IInv'
<1>1. UNCHANGED <<kind, alive, truth, keys, recorded, saved, got, restarts, doomed, gone, excuse>>
  BY DEF StartGenerate, Store, Rest
<1>2. /\ made \in Nat /\ made' = made + 1 /\ made' \in 0 .. MaxKeys
      /\ <<made', "first">> \in Alias /\ <<made', "first">>[1] = made'
  BY Aliases, PlatformAssumption DEF StartGenerate, IInv, TypeOK
<1>3. /\ phase[c] = "idle"
      /\ phase' \in [Caller -> Phase]
      /\ phase'[c] = IF kind = "android" THEN "strongbox" ELSE "enclave"
      /\ \A d \in Caller \ {c} : phase'[d] = phase[d]
  BY GoesOnWith DEF StartGenerate, Phase, Generating, Attempts
<1>4. /\ at' \in [Caller -> Alias \cup {None}]
      /\ at'[c] = <<made', "first">>
      /\ \A d \in Caller \ {c} : at'[d] = at[d]
  BY <1>2 DEF StartGenerate, IInv, TypeOK
<1>5. Taken' = Taken /\ Taken \subseteq Alias /\ alive \subseteq Alias /\ Alias' = Alias
  BY <1>1 DEF Taken, IInv, TypeOK, Alias
<1>6. \A a \in Alias : a[1] <= made => a[1] <= made'
  <2> SUFFICES ASSUME NEW n \in Nat, n <= made PROVE n <= made'
    BY Aliases
  <2> QED
    BY <1>2
<1>7. TypeOK'
  <2>1. \A a \in alive \cup keys \cup saved : a[1] <= made'
    BY <1>5, <1>6 DEF IInv, TypeOK, Taken
  <2> QED
    BY <1>1, <1>2, <1>3, <1>4, <2>1 DEF IInv, TypeOK
<1>8. Drawn'
  <2>1. \A a \in alive' \cup Taken' : a[1] <= made'
    BY <1>1, <1>5, <1>6 DEF IInv, Drawn
  <2>2. \A d \in Caller : phase'[d] # "idle" => at'[d] \in Alias /\ at'[d][1] <= made'
    BY <1>2, <1>3, <1>4, <1>6 DEF IInv, Drawn
  <2> QED
    BY <2>1, <2>2 DEF Drawn
<1>9. Alone'
  <2>1. \A a \in Taken : a[1] # made'
    BY <1>2, <1>5, Aliases DEF IInv, Drawn
  <2>2. \A d \in Caller : phase[d] # "idle" => at[d][1] # made'
    BY <1>2, Aliases DEF IInv, Drawn
  <2>3. "idle" \notin Generating
    BY DEF Generating, Attempts, Cleanups
  <2> QED
    BY <1>2, <1>3, <1>4, <1>5, <2>1, <2>2, <2>3 DEF IInv, Alone
<1>10. ForgetsTheDead' /\ EnclaveIsApple' /\ RecordsTheTruth'
  BY <1>1, <1>3, <1>4 DEF IInv, TypeOK, ForgetsTheDead, EnclaveIsApple, RecordsTheTruth
<1>11. NoSilentLeak' /\ DeletedMeansGone'
  <2>1. phase[c] \notin Generating
    BY <1>3 DEF Generating, Attempts, Cleanups
  <2> QED
    BY <1>1, <1>3, <1>4, <2>1 DEF IInv, NoSilentLeak, DeletedMeansGone, InFlight
<1> QED
  BY <1>7, <1>8, <1>9, <1>10, <1>11 DEF IInv

\* The record is made, or a cleanup follows.
LEMMA FinishKeeps ==
  ASSUME IInv, NEW c \in Caller, Finish(c)
  PROVE  IInv'
<1>1. /\ at[c] \in Alias
      /\ at[c][1] <= made
      /\ phase[c] \in Generating
      /\ \A a \in Taken : a[1] # at[c][1]
      /\ \A d \in Caller \ {c} : phase[d] # "idle" => at[d][1] # at[c][1]
  BY DEF IInv, Drawn, Alone, Finish, Generating
<1>2. UNCHANGED <<kind, made, restarts, saved, alive, truth, doomed, gone, excuse>>
  BY DEF Finish, Rest
<1>3. CASE Ends(c)
  <2>1. /\ keys' = keys \cup {at[c]}
        /\ recorded' = [recorded EXCEPT ![at[c]] =
             [level |-> got[c],
              certs |-> IF kind = "android" THEN truth[at[c]].certs ELSE 0]]
    <3>1. ~GoesOn(c, "clean")
      BY <1>3 DEF Ends, GoesOn, IInv, TypeOK
    <3> QED
      BY <3>1 DEF Finish
  <2>2. /\ truth[at[c]] \in Attestation
        /\ got[c] = truth[at[c]].level
        /\ got[c] \in Level
        /\ truth[at[c]].certs \in Nat
    BY PlatformAssumption DEF IInv, RecordsTheTruth, Finish
  <2>3. /\ recorded' \in [Alias -> [level : Level, certs : Nat] \cup {None}]
        /\ recorded'[at[c]].level = got[c]
        /\ kind = "android" => recorded'[at[c]].certs = truth[at[c]].certs
        /\ \A a \in Alias \ {at[c]} : recorded'[a] = recorded[a]
    BY <1>1, <2>1, <2>2 DEF IInv, TypeOK
  <2>4. TypeOK'
    BY <1>1, <1>2, <1>3, <2>1, <2>3, EndsWith DEF IInv, TypeOK
  <2>5. Taken' = Taken \cup {at[c]}
    BY <1>2, <2>1 DEF Taken
  <2>6. Drawn'
    BY <1>1, <1>2, <1>3, <2>5, EndsWith DEF IInv, Drawn
  <2>7. Alone'
    <3>1. "idle" \notin Generating
      BY DEF Generating, Attempts, Cleanups
    <3>2. \A d \in Caller \ {c} : phase[d] \in Generating => at[c][1] # at[d][1]
      BY <1>1, <3>1 DEF IInv, Alone
    <3> QED
      BY <1>3, <2>5, <3>1, <3>2, EndsWith DEF IInv, Alone
  <2>8. ForgetsTheDead' /\ EnclaveIsApple' /\ DeletedMeansGone'
    BY <1>2, <1>3, EndsWith DEF IInv, ForgetsTheDead, EnclaveIsApple, DeletedMeansGone
  <2>9. RecordsTheTruth'
    <3>1. \A k \in keys \cup saved : k \in Alias \ {at[c]}
      BY <1>1 DEF Taken, IInv, TypeOK
    <3> QED
      BY <1>2, <1>3, <2>1, <2>2, <2>3, <3>1, EndsWith DEF IInv, RecordsTheTruth
  <2>10. NoSilentLeak'
    BY <1>2, <1>3, <2>1, EndsWith DEF IInv, NoSilentLeak, InFlight
  <2> QED
    BY <2>4, <2>6, <2>7, <2>8, <2>9, <2>10 DEF IInv
<1>4. CASE ~Ends(c)
  <2>1. GoesOn(c, "clean") /\ UNCHANGED <<keys, recorded, at, got>>
    BY <1>4 DEF Finish
  <2>2. /\ phase' \in [Caller -> Phase]
        /\ phase'[c] = "clean"
        /\ \A d \in Caller \ {c} : phase'[d] = phase[d]
    BY <2>1, GoesOnWith DEF Phase, Generating, Cleanups
  <2>3. TypeOK'
    BY <1>2, <2>1, <2>2 DEF IInv, TypeOK
  <2>4. GenStep(c)
    BY <1>1, <1>2, <2>1, <2>2 DEF GenStep, Generating, Attempts, Cleanups, IInv, NoSilentLeak, InFlight
  <2> QED
    BY <2>3, <2>4, GenStepKeeps
<1> QED
  BY <1>3, <1>4

LEMMA StartDeleteKeeps ==
  ASSUME IInv, NEW c \in Caller, NEW k \in keys, StartDelete(c, k)
  PROVE  IInv'
<1>1. /\ UNCHANGED <<kind, made, alive, truth, keys, recorded, saved, got, restarts, gone, excuse>>
      /\ doomed' = doomed \cup {k}
  BY DEF StartDelete, Store
<1>2. /\ phase[c] = "idle"
      /\ phase' \in [Caller -> Phase]
      /\ phase'[c] = "delete"
      /\ \A d \in Caller \ {c} : phase'[d] = phase[d]
  BY GoesOnWith DEF StartDelete, Phase
<1>3. /\ k \in Alias /\ k[1] <= made
      /\ at' \in [Caller -> Alias \cup {None}]
      /\ at'[c] = k
      /\ \A d \in Caller \ {c} : at'[d] = at[d]
  BY DEF StartDelete, IInv, TypeOK
<1>4. Taken' = Taken /\ {"idle", "delete"} \cap Generating = {}
  BY <1>1 DEF Taken, Generating, Attempts, Cleanups
<1>5. TypeOK'
  BY <1>1, <1>2, <1>3 DEF IInv, TypeOK
<1>6. Drawn'
  BY <1>1, <1>2, <1>3, <1>4 DEF IInv, Drawn
<1>7. Alone'
  <2>1. \A d \in Caller : phase[d] \in Generating => k[1] # at[d][1]
    BY DEF IInv, Alone, Taken
  <2> QED
    BY <1>2, <1>3, <1>4, <2>1 DEF IInv, Alone
<1>8. ForgetsTheDead' /\ EnclaveIsApple' /\ RecordsTheTruth' /\ DeletedMeansGone'
  BY <1>1, <1>2, <1>3
     DEF IInv, ForgetsTheDead, EnclaveIsApple, RecordsTheTruth, DeletedMeansGone
<1>9. NoSilentLeak'
  BY <1>1, <1>2, <1>3, <1>4 DEF IInv, NoSilentLeak, InFlight
<1> QED
  BY <1>5, <1>6, <1>7, <1>8, <1>9 DEF IInv

LEMMA DeletedKeeps ==
  ASSUME IInv, NEW c \in Caller, Deleted(c)
  PROVE  IInv'
<1>1. /\ UNCHANGED <<kind, made, truth, keys, recorded, saved, at, got, restarts, doomed, gone, excuse>>
      /\ alive' = alive \ {at[c]}
  BY DEF Deleted, Store, Rest
<1>2. /\ phase[c] = "delete"
      /\ phase' \in [Caller -> Phase]
      /\ phase'[c] = "forget"
      /\ \A d \in Caller \ {c} : phase'[d] = phase[d]
  BY GoesOnWith DEF Deleted, Phase
<1>3. Taken' = Taken /\ {"delete", "forget"} \cap Generating = {}
  BY <1>1 DEF Taken, Generating, Attempts, Cleanups
<1>4. TypeOK' /\ Drawn' /\ Alone'
  BY <1>1, <1>2, <1>3 DEF IInv, TypeOK, Drawn, Alone
<1>5. ForgetsTheDead' /\ EnclaveIsApple' /\ RecordsTheTruth' /\ DeletedMeansGone'
  BY <1>1, <1>2
     DEF IInv, ForgetsTheDead, EnclaveIsApple, RecordsTheTruth, DeletedMeansGone
<1>6. NoSilentLeak'
  BY <1>1, <1>2, <1>3 DEF IInv, NoSilentLeak, InFlight
<1> QED
  BY <1>4, <1>5, <1>6 DEF IInv

\* A deletion that fails or is abandoned leaves its record.
LEMMA DeletionEndsEarly ==
  ASSUME IInv, NEW c \in Caller, phase[c] = "delete", Ends(c),
         alive' \in {alive, alive \ {at[c]}},
         UNCHANGED <<made, truth, Store, Rest, excuse>>
  PROVE  IInv'
<1>1. UNCHANGED <<kind, made, truth, keys, recorded, saved, restarts, doomed, gone, excuse>>
  BY DEF Store, Rest
<1>2. Taken' = Taken /\ alive' \subseteq alive /\ {"delete", "idle"} \cap Generating = {}
  BY <1>1 DEF Taken, Generating, Attempts, Cleanups
<1>3. TypeOK' /\ Drawn' /\ Alone'
  BY <1>1, <1>2, EndsWith DEF IInv, TypeOK, Drawn, Alone
<1>4. ForgetsTheDead' /\ EnclaveIsApple' /\ RecordsTheTruth' /\ DeletedMeansGone'
  BY <1>1, <1>2, EndsWith
     DEF IInv, ForgetsTheDead, EnclaveIsApple, RecordsTheTruth, DeletedMeansGone
<1>5. NoSilentLeak'
  BY <1>1, <1>2, EndsWith DEF IInv, NoSilentLeak, InFlight
<1> QED
  BY <1>3, <1>4, <1>5 DEF IInv

LEMMA ForgetKeeps ==
  ASSUME IInv, NEW c \in Caller, Forget(c)
  PROVE  IInv'
<1>1. /\ UNCHANGED <<kind, made, alive, truth, recorded, saved, restarts, excuse>>
      /\ keys' = keys \ {at[c]}
      /\ gone' = gone \cup {at[c]}
      /\ doomed' = doomed \ {at[c]}
      /\ Ends(c)
  BY DEF Forget
<1>2. /\ at[c] \in Alias /\ at[c][1] <= made /\ at[c] \notin alive
      /\ {"forget", "idle"} \cap Generating = {}
      /\ phase[c] = "forget"
  BY DEF Forget, IInv, Drawn, ForgetsTheDead, Generating, Attempts, Cleanups
<1>3. Taken' \subseteq Taken \cup {at[c]}
  BY <1>1 DEF Taken
<1>4. TypeOK'
  BY <1>1, <1>2, EndsWith DEF IInv, TypeOK
<1>5. Drawn'
  BY <1>1, <1>2, <1>3, EndsWith DEF IInv, Drawn
<1>6. Alone'
  <2>1. \A d \in Caller : phase[d] \in Generating => at[c][1] # at[d][1]
    BY <1>2 DEF IInv, Alone
  <2> QED
    BY <1>1, <1>2, <1>3, <2>1, EndsWith DEF IInv, Alone
<1>7. ForgetsTheDead' /\ EnclaveIsApple' /\ RecordsTheTruth' /\ DeletedMeansGone'
  BY <1>1, <1>2, EndsWith
     DEF IInv, ForgetsTheDead, EnclaveIsApple, RecordsTheTruth, DeletedMeansGone
<1>8. NoSilentLeak'
  BY <1>1, <1>2, EndsWith DEF IInv, NoSilentLeak, InFlight
<1> QED
  BY <1>4, <1>5, <1>6, <1>7, <1>8 DEF IInv

LEMMA AbortKeeps ==
  ASSUME IInv, NEW c \in Caller, Abort(c)
  PROVE  IInv'
<1>1. CASE phase[c] = "delete"
  <2>1. /\ Ends(c)
        /\ alive' \in {alive, alive \ {at[c]}}
        /\ UNCHANGED <<made, truth, Store, Rest, excuse>>
    BY <1>1 DEF Abort, Attempts
  <2> QED
    BY <1>1, <2>1, DeletionEndsEarly
<1>2. CASE phase[c] # "delete"
  <2>1. /\ phase[c] \in Generating
        /\ Ends(c)
        /\ alive' \in {alive, alive \cup {at[c]}, alive \ {at[c]}}
        /\ excuse' = [excuse EXCEPT ![at[c]] = "abandoned"]
        /\ UNCHANGED <<made, truth, Store, Rest>>
    BY <1>2 DEF Abort, Generating, Attempts, Cleanups
  <2> QED
    BY <2>1, GivenUp
<1> QED
  BY <1>1, <1>2

LEMMA ExportKeeps ==
  ASSUME IInv, Export
  PROVE  IInv'
<1>1. /\ UNCHANGED <<kind, made, alive, truth, keys, recorded, phase, at, got, restarts, doomed, gone, excuse>>
      /\ saved' = keys
  BY DEF Export, Rest
<1>2. Taken' \subseteq Taken
  BY <1>1 DEF Taken
<1>3. TypeOK' /\ Drawn' /\ Alone'
  BY <1>1, <1>2 DEF IInv, TypeOK, Drawn, Alone
<1>4. ForgetsTheDead' /\ EnclaveIsApple' /\ RecordsTheTruth' /\ DeletedMeansGone'
  BY <1>1 DEF IInv, ForgetsTheDead, EnclaveIsApple, RecordsTheTruth, DeletedMeansGone
<1>5. NoSilentLeak'
  BY <1>1 DEF IInv, NoSilentLeak, InFlight
<1> QED
  BY <1>3, <1>4, <1>5 DEF IInv

LEMMA RestartKeeps ==
  ASSUME IInv, Restart
  PROVE  IInv'
<1>1. UNCHANGED <<kind, made, truth, recorded, saved, gone>>
  BY DEF Restart
<1>2. PICK done \in SUBSET Caller :
        alive' = (alive \cup {at[c] : c \in {d \in done : phase[d] \in Attempts}})
                   \ {at[c] : c \in {d \in done : phase[d] \in Cleanups \cup {"delete"}}}
  BY DEF Restart
<1>3. \A a \in alive' :
        \/ a \in alive
        \/ \E c \in Caller : phase[c] \in Attempts /\ a = at[c]
  BY <1>2
<1>4. /\ alive' \subseteq Alias
      /\ \A a \in alive' : a[1] <= made
      /\ alive' \cap gone = {}
  <2>1. \A c \in Caller : phase[c] \in Attempts =>
          at[c] \in Alias /\ at[c][1] <= made /\ at[c] \notin gone
    BY DEF IInv, Drawn, Alone, Taken, Generating, Attempts
  <2> QED
    BY <1>3, <2>1 DEF IInv, TypeOK, DeletedMeansGone
<1>5. /\ phase' = [c \in Caller |-> "idle"]
      /\ at' = [c \in Caller |-> None]
      /\ got' = [c \in Caller |-> None]
      /\ keys' = saved
      /\ doomed' = doomed \cap saved
      /\ restarts' \in 0 .. MaxRestarts
  BY PlatformAssumption DEF Restart, IInv, TypeOK
<1>6. excuse' = [a \in Alias |-> IF a \in alive' \ saved THEN "lost" ELSE excuse[a]]
  BY DEF Restart
<1>7. Taken' \subseteq Taken
  BY <1>1, <1>5 DEF Taken
<1>8. TypeOK'
  <2>1. excuse' \in [Alias -> {"none", "UnconfirmedCleanup", "abandoned", "unfinished", "lost"}]
    BY <1>6 DEF IInv, TypeOK
  <2>2. phase' \in [Caller -> Phase]
    BY <1>5 DEF Phase
  <2> QED
    BY <1>1, <1>4, <1>5, <2>1, <2>2 DEF IInv, TypeOK
<1>9. Drawn' /\ Alone' /\ ForgetsTheDead' /\ EnclaveIsApple'
  <2>1. "idle" \notin Generating
    BY DEF Generating, Attempts, Cleanups
  <2>2. \A c \in Caller : phase'[c] = "idle"
    BY <1>5
  <2> QED
    BY <1>1, <1>4, <1>7, <2>1, <2>2
       DEF IInv, Drawn, Alone, ForgetsTheDead, EnclaveIsApple
<1>10. RecordsTheTruth' /\ DeletedMeansGone'
  BY <1>1, <1>4, <1>5 DEF IInv, RecordsTheTruth, DeletedMeansGone
<1>11. NoSilentLeak'
  BY <1>1, <1>4, <1>5, <1>6 DEF NoSilentLeak
<1> QED
  BY <1>8, <1>9, <1>10, <1>11 DEF IInv

-----------------------------------------------------------------------------
LEMMA InitGood == Init => IInv
<1> SUFFICES ASSUME Init PROVE IInv
  OBVIOUS
<1>1. TypeOK
  BY PlatformAssumption DEF Init, TypeOK, Phase
<1>2. Drawn /\ Alone /\ ForgetsTheDead /\ EnclaveIsApple
  BY DEF Init, Drawn, Alone, ForgetsTheDead, EnclaveIsApple, Taken, Generating, Attempts, Cleanups
<1>3. RecordsTheTruth /\ NoSilentLeak /\ DeletedMeansGone
  BY DEF Init, RecordsTheTruth, NoSilentLeak, DeletedMeansGone
<1> QED
  BY <1>1, <1>2, <1>3 DEF IInv

LEMMA StepGood == IInv /\ [Next]_vars => IInv'
<1> SUFFICES ASSUME IInv, [Next]_vars PROVE IInv'
  OBVIOUS
<1>1. ASSUME NEW c \in Caller, StartGenerate(c) PROVE IInv'
  BY <1>1, StartGenerateKeeps
<1>2. ASSUME NEW c \in Caller, NEW k \in keys, StartDelete(c, k) PROVE IInv'
  BY <1>2, StartDeleteKeeps
<1>3. ASSUME NEW c \in Caller, Step(c) PROVE IInv'
  <2>1. CASE StrongBox(c)
    BY <2>1, StrongBoxKeeps
  <2>2. CASE Tee(c)
    BY <2>2, TeeKeeps
  <2>3. CASE CleanStrongBox(c)
    BY <2>3, CleanStrongBoxKeeps
  <2>4. CASE Clean(c)
    BY <2>4, CleanKeeps
  <2>5. CASE Enclave(c)
    BY <2>5, EnclaveKeeps
  <2>6. CASE Finish(c)
    BY <2>6, FinishKeeps
  <2>7. CASE Deleted(c)
    BY <2>7, DeletedKeeps
  <2>8. CASE DeleteFails(c)
    BY <2>8, DeletionEndsEarly DEF DeleteFails
  <2>9. CASE Forget(c)
    BY <2>9, ForgetKeeps
  <2> QED
    BY <1>3, <2>1, <2>2, <2>3, <2>4, <2>5, <2>6, <2>7, <2>8, <2>9 DEF Step
<1>4. ASSUME NEW c \in Caller, Abort(c) PROVE IInv'
  BY <1>4, AbortKeeps
<1>5. CASE Export
  BY <1>5, ExportKeeps
<1>6. CASE Restart
  BY <1>6, RestartKeeps
<1>7. CASE UNCHANGED vars
  <2>1. Taken' = Taken /\ Alias' = Alias
    BY <1>7 DEF vars, Taken, Alias
  <2>2. TypeOK' /\ Drawn' /\ Alone'
    BY <1>7, <2>1 DEF IInv, TypeOK, Drawn, Alone, vars
  <2>3. ForgetsTheDead' /\ EnclaveIsApple' /\ RecordsTheTruth' /\ NoSilentLeak' /\ DeletedMeansGone'
    BY <1>7 DEF IInv, ForgetsTheDead, EnclaveIsApple, RecordsTheTruth, NoSilentLeak,
                InFlight, DeletedMeansGone, vars
  <2> QED
    BY <2>2, <2>3 DEF IInv
<1> QED
  BY <1>1, <1>2, <1>3, <1>4, <1>5, <1>6, <1>7 DEF Next

LEMMA Inductive == Spec => []IInv
  BY InitGood, StepGood, PTL DEF Spec

\* The variables keep their types, and no alias is of a generation that has
\* not begun (StartGenerate draws a new one).
THEOREM TypeCorrect == Spec => []TypeOK
<1>1. IInv => TypeOK
  BY DEF IInv
<1> QED
  BY <1>1, Inductive, PTL

\* No key is left at the platform in silence: whatever fails, is half done,
\* is abandoned or lost by a restart (best_effort_generate, delete_key).
THEOREM NoKeyLeaksSilently == Spec => []NoSilentLeak
<1>1. IInv => NoSilentLeak
  BY DEF IInv
<1> QED
  BY <1>1, Inductive, PTL

\* A successful deletion is final: no call under way and no restored export
\* revives the key (delete_key).
THEOREM DeletionIsFinal == Spec => []DeletedMeansGone
<1>1. IInv => DeletedMeansGone
  BY DEF IInv
<1> QED
  BY <1>1, Inductive, PTL

\* What is reported of a key is what the platform confirmed for its alias
\* (security_properties, attestation_chain, amr_for).
THEOREM ClaimsAreBorneOut == Spec => []ClaimsBorneOut
<1>1. IInv => ClaimsBorneOut
  <2> SUFFICES ASSUME IInv, NEW k \in keys
               PROVE  /\ Certification(k) > 0 => HasChain(k)
                      /\ kind = "android" =>
                           /\ truth[k] # None
                           /\ Certification(k) <= LevelRank(truth[k].level)
                           /\ HasChain(k) => truth[k].certs >= 2
                           /\ KeyStorage(k) # "Software" \/ "hwk" \in Amr(k) =>
                                truth[k].level \in Hardware
    BY DEF ClaimsBorneOut
  <2>1. CASE kind # "android"
    BY <2>1 DEF IInv, TypeOK, Certification
  <2>2. CASE kind = "android"
    <3>1. /\ truth[k] \in Attestation
          /\ recorded[k].level = truth[k].level
          /\ recorded[k].certs = truth[k].certs
      BY <2>2 DEF IInv, RecordsTheTruth
    <3>2. truth[k] # None /\ truth[k].level \in Level /\ truth[k].certs \in Nat
      BY <3>1, PlatformAssumption
    <3> QED
      BY <2>2, <3>1, <3>2
         DEF Certification, HasChain, KeyStorage, Amr, LevelRank, Hardware, Level
  <2> QED
    BY <2>1, <2>2
<1> QED
  BY <1>1, Inductive, PTL

=============================================================================
