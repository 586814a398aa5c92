---------------------------- MODULE WatchdogProofs ----------------------------
(***************************************************************************)
(* Proofs about Watchdog, for any checks that overlap, thresholds and      *)
(* faults.                                                                 *)
(*                                                                         *)
(* Posted says what a check on its way to recordStatus has behind it.      *)
(* Recorded follows the last alert into system_status: it is on record     *)
(* with its age, or the check that posted it is about to record it.  Quiet *)
(* says what a check that meets no other may rely on: nothing it read has  *)
(* changed since.  KnownTo is what keeps the switch from being pinged      *)
(* while something fails all the time.                                     *)
(***************************************************************************)
EXTENDS Watchdog, TLAPS

Posted ==
    \A r \in Runs : pc[r] \in {"recordAlert", "recordQuiet"} => failed[r] \in alerted

Recorded ==
    posted # {} =>
        \/ known = posted /\ alertAge = sincePost
        \/ \E r \in Runs : pc[r] = "recordAlert" /\ failed[r] = posted

Quiet ==
    \A r \in alone :
        /\ Busy(r)
        /\ \A q \in Runs \ {r} : ~ Busy(q)
        /\ pc[r] = "post" => failed[r] # known \/ alertAge = Cooldown
        /\ pc[r] = "recordAlert" => failed[r] = posted /\ sincePost = 0
        /\ pc[r] = "recordQuiet" => failed[r] = known /\ prevAge[r] = alertAge

(* The inductive invariant. *)
IInv ==
    /\ TypeOK
    /\ KnownWasAlerted
    /\ Posted
    /\ Recorded
    /\ Quiet

(* The step of an alert that AlertsAreSpaced speaks of. *)
Spaced ==
    \A r \in alone :
        pc[r] = "post" /\ pc'[r] = "recordAlert" /\ failed[r] = posted
            => sincePost = Cooldown

(* No check has run yet. *)
LEMMA InitIInv == Init => IInv
<1>1. ASSUME Init PROVE TypeOK
  <2>1. /\ silence \in 0..Stale /\ alertAge \in 0..Cooldown
        /\ sincePost \in 0..Cooldown /\ faults \in 0..MaxFaults
        /\ prevAge \in [Runs -> 0..Cooldown]
    BY <1>1, WatchdogAssumption DEF Init, Stale
  <2>2. /\ backlog \in BOOLEAN /\ known \in SUBSET Checks
        /\ slack \in SUBSET Checks /\ posted \in SUBSET Checks
        /\ alone \in SUBSET Runs /\ alerted \subseteq SUBSET Checks
    BY <1>1 DEF Init
  <2>3. /\ pc \in [Runs -> Points]
        /\ checked \in [Runs -> SUBSET Checks] /\ failed \in [Runs -> SUBSET Checks]
        /\ \A r \in Runs : pc[r] = "idle"
    BY <1>1 DEF Init, Points
  <2> QED
    BY <2>1, <2>2, <2>3 DEF TypeOK
<1>2. Init => KnownWasAlerted /\ Posted /\ Recorded /\ Quiet
  BY DEF Init, KnownWasAlerted, Posted, Recorded, Quiet
<1> QED
  BY <1>1, <1>2 DEF IInv

-----------------------------------------------------------------------------
(* Types                                                                   *)

(* A check's steps and its failures keep the types. *)
LEMMA StepTypes == ASSUME TypeOK, NEW r \in Runs, Step(r) \/ Fail(r) PROVE TypeOK'
<1> USE WatchdogAssumption DEF TypeOK, Points, Checks, Stale
<1>1. CASE Start(r)
  BY <1>1 DEF Start, goto, world, state
<1>2. CASE LoadAlertState(r)
  BY <1>2 DEF LoadAlertState, goto, shouldAlert, world, state, history
<1>3. ASSUME NEW c \in Checks, Check(r, c) PROVE TypeOK'
  BY <1>3 DEF Check, world, state, history
<1>4. CASE PostAlert(r)
  <2> HIDE DEF Checks
  <2>1. failed[r] \in SUBSET Checks
    OBVIOUS
  <2>2. faults' \in 0..MaxFaults
    BY <1>4 DEF PostAlert, postSlack, fault
  <2>3. slack' \in SUBSET Checks
    BY <1>4, <2>1 DEF PostAlert, postSlack
  <2>4. pc' \in [Runs -> Points] /\ \A q \in Runs \ {r} : pc'[q] = pc[q]
    BY <1>4 DEF PostAlert, goto
  <2>5. posted' \in SUBSET Checks /\ sincePost' \in 0..Cooldown
    BY <1>4 DEF PostAlert, lastPost
  <2>6. alerted' \subseteq SUBSET Checks
    BY <1>4, <2>1 DEF PostAlert
  <2> QED
    BY <1>4, <2>1, <2>2, <2>3, <2>4, <2>5, <2>6 DEF PostAlert, goto, world, state
<1>5. CASE RecordAlert(r)
  BY <1>5 DEF RecordAlert, recordStatus, lastPost, end, goto, world
<1>6. CASE RecordQuiet(r)
  BY <1>6 DEF RecordQuiet, recordStatus, lastPost, end, goto, world
<1>7. CASE PostClear(r)
  <2>1. faults' \in 0..MaxFaults
    BY <1>7 DEF PostClear, postSlack, fault
  <2>2. slack' \in SUBSET Checks
    BY <1>7 DEF PostClear, postSlack
  <2> QED
    BY <1>7, <2>1, <2>2 DEF PostClear, goto, world, state
<1>8. CASE RecordOk(r)
  BY <1>8 DEF RecordOk, recordStatus, lastPost, goto, world
<1>9. CASE Ping(r)
  BY <1>9 DEF Ping, end, goto, world, state
<1>10. CASE Fail(r)
  BY <1>10 DEF Fail, fault, lastPost, end, goto, world, state
<1> QED
  BY <1>1, <1>2, <1>3, <1>4, <1>5, <1>6, <1>7, <1>8, <1>9, <1>10 DEF Step

(* What is outside the checks only moves the world and the ages. *)
LEMMA WorldTypes ==
    ASSUME TypeOK, (\E ok \in BOOLEAN : Heartbeat(ok)) \/ Queue \/ Tick PROVE TypeOK'
<1> USE WatchdogAssumption DEF TypeOK, Stale
<1>1. CASE \E ok \in BOOLEAN : Heartbeat(ok)
  BY <1>1 DEF Heartbeat, state, run, history
<1>2. CASE Queue
  BY <1>2 DEF Queue, state, run, history
<1>3. CASE Tick
  BY <1>3 DEF Tick, older, run
<1> QED
  BY <1>1, <1>2, <1>3

-----------------------------------------------------------------------------
(* What is on record                                                       *)

(* A check records what it or an earlier check posted. *)
LEMMA StepPosted ==
    ASSUME TypeOK, KnownWasAlerted, Posted, NEW r \in Runs, Step(r) \/ Fail(r)
    PROVE  KnownWasAlerted' /\ Posted'
<1> USE DEF TypeOK, KnownWasAlerted, Posted
<1>1. CASE Start(r)
  BY <1>1 DEF Start, goto, state
<1>2. CASE LoadAlertState(r)
  BY <1>2 DEF LoadAlertState, goto, shouldAlert, state, history
<1>3. ASSUME NEW c \in Checks, Check(r, c) PROVE KnownWasAlerted' /\ Posted'
  BY <1>3 DEF Check, state, history
<1>4. CASE PostAlert(r)
  BY <1>4 DEF PostAlert, goto, state
<1>5. CASE RecordAlert(r)
  BY <1>5 DEF RecordAlert, recordStatus, end, goto
<1>6. CASE RecordQuiet(r)
  BY <1>6 DEF RecordQuiet, recordStatus, end, goto
<1>7. CASE PostClear(r)
  BY <1>7 DEF PostClear, goto, state
<1>8. CASE RecordOk(r)
  BY <1>8 DEF RecordOk, recordStatus, goto
<1>9. CASE Ping(r)
  BY <1>9 DEF Ping, end, goto, state
<1>10. CASE Fail(r)
  BY <1>10 DEF Fail, end, goto, state
<1> QED
  BY <1>1, <1>2, <1>3, <1>4, <1>5, <1>6, <1>7, <1>8, <1>9, <1>10 DEF Step

(* The last alert of a check that met no other is or will be on record.    *)
LEMMA StepRecorded ==
    ASSUME TypeOK, Recorded, Quiet, NEW r \in Runs, Step(r) \/ Fail(r)
    PROVE  Recorded'
<1> USE DEF TypeOK, Recorded, Quiet
<1>1. CASE Start(r)
  BY <1>1 DEF Start, goto, state
<1>2. CASE LoadAlertState(r)
  BY <1>2 DEF LoadAlertState, goto, state, history
<1>3. ASSUME NEW c \in Checks, Check(r, c) PROVE Recorded'
  BY <1>3 DEF Check, state, history
<1>4. CASE PostAlert(r)
  BY <1>4 DEF PostAlert, lastPost, goto, state
<1>5. CASE RecordAlert(r)
  BY <1>5 DEF RecordAlert, recordStatus, lastPost, end, goto, Busy
<1>6. CASE RecordQuiet(r)
  BY <1>6 DEF RecordQuiet, recordStatus, lastPost, end, goto, Busy
<1>7. CASE PostClear(r)
  BY <1>7 DEF PostClear, goto, state
<1>8. CASE RecordOk(r)
  BY <1>8 DEF RecordOk, recordStatus, lastPost, goto
<1>9. CASE Ping(r)
  BY <1>9 DEF Ping, end, goto, state
<1>10. CASE Fail(r)
  BY <1>10 DEF Fail, lastPost, end, goto, state
<1> QED
  BY <1>1, <1>2, <1>3, <1>4, <1>5, <1>6, <1>7, <1>8, <1>9, <1>10 DEF Step

(* A step of r ends the quiet of another check, or finds none. *)
LEMMA StepQuiet ==
    ASSUME TypeOK, Quiet, NEW r \in Runs, Step(r) \/ Fail(r)
    PROVE  Quiet'
<1> USE DEF TypeOK, Quiet, Busy
<1>1. CASE Start(r)
  BY <1>1 DEF Start, goto
<1>2. CASE LoadAlertState(r)
  BY <1>2, WatchdogAssumption DEF LoadAlertState, goto, shouldAlert, state, history
<1>3. ASSUME NEW c \in Checks, Check(r, c) PROVE Quiet'
  BY <1>3 DEF Check, state, history
<1>4. CASE PostAlert(r)
  BY <1>4 DEF PostAlert, lastPost, goto, state
<1>5. CASE RecordAlert(r)
  BY <1>5 DEF RecordAlert, end, goto
<1>6. CASE RecordQuiet(r)
  BY <1>6 DEF RecordQuiet, end, goto
<1>7. CASE PostClear(r)
  BY <1>7 DEF PostClear, goto, state
<1>8. CASE RecordOk(r)
  BY <1>8 DEF RecordOk, goto
<1>9. CASE Ping(r)
  BY <1>9 DEF Ping, end, goto, state
<1>10. CASE Fail(r)
  BY <1>10 DEF Fail, end, goto, state
<1> QED
  BY <1>1, <1>2, <1>3, <1>4, <1>5, <1>6, <1>7, <1>8, <1>9, <1>10 DEF Step

(* Time passes for the record and for the alert alike, and only while no   *)
(* check is at work.                                                       *)
LEMMA WorldIInv ==
    ASSUME IInv, (\E ok \in BOOLEAN : Heartbeat(ok)) \/ Queue \/ Tick PROVE IInv'
<1>1. TypeOK'
  BY WorldTypes DEF IInv
<1>2. CASE (\E ok \in BOOLEAN : Heartbeat(ok)) \/ Queue
  BY <1>1, <1>2
  DEF Heartbeat, Queue, state, run, history, IInv, KnownWasAlerted, Posted, Recorded,
      Quiet, Busy
<1>3. CASE Tick
  BY <1>1, <1>3
  DEF Tick, run, IInv, TypeOK, KnownWasAlerted, Posted, Recorded, Quiet, Busy
<1> QED
  BY <1>2, <1>3

(* Every step keeps the invariant, by the lemmas above. *)
LEMMA NextIInv == IInv /\ [Next]_vars => IInv'
<1> SUFFICES ASSUME IInv, [Next]_vars PROVE IInv'
  OBVIOUS
<1>1. ASSUME NEW r \in Runs, Step(r) \/ Fail(r) PROVE IInv'
  BY <1>1, StepTypes, StepPosted, StepRecorded, StepQuiet DEF IInv
<1>2. CASE UNCHANGED vars
  BY <1>2
  DEF vars, world, state, run, history, IInv, TypeOK, KnownWasAlerted, Posted,
      Recorded, Quiet, Busy
<1> QED
  BY <1>1, <1>2, WorldIInv DEF Next

-----------------------------------------------------------------------------
(* Theorems                                                                *)

(* The inductive invariant holds in every reachable state. *)
THEOREM Invariance == Spec => []IInv
  BY InitIInv, NextIInv, PTL DEF Spec

(* Every reachable state is well typed: a check posts or records failures  *)
(* only if it found some, and pings only if it found none.                 *)
THEOREM TypeCorrect == Spec => []TypeOK
<1>1. IInv => TypeOK
  BY DEF IInv
<1> QED
  BY <1>1, Invariance, PTL

(* However checks overlap and fail, what is kept quiet as known was posted. *)
THEOREM KnownWasPosted == Spec => []KnownWasAlerted
<1>1. IInv => KnownWasAlerted
  BY DEF IInv
<1> QED
  BY <1>1, Invariance, PTL

(* Checks that meet no other never repeat an alert within the cooldown     *)
(* (shouldAlert).                                                          *)
THEOREM AlertsKeepTheirDistance == Spec => AlertsAreSpaced
<1>1. IInv => Spaced
  BY DEF IInv, TypeOK, Recorded, Quiet, Busy, Spaced
<1>2. IInv /\ [Next]_vars => [Spaced]_vars
  BY <1>1
<1> QED
  BY <1>2, Invariance, PTL DEF Spec, AlertsAreSpaced, Spaced

-----------------------------------------------------------------------------
(* The dead man's switch, while a check fails all the time                 *)

(* Every run that has read what check c reads has found that it fails. *)
KnownTo(c) ==
    \A r \in Runs : c \in checked[r] \/ pc[r] \notin {"idle", "checks"} => c \in failed[r]

(* What is failing is found by each run that reads it, and no run forgets  *)
(* what it has found before it is over.                                    *)
LEMMA StaysKnown ==
    ASSUME TypeOK, NEW c \in Checks, KnownTo(c), c \in failing, [Next]_vars
    PROVE  KnownTo(c)'
<1> DEFINE knows(r) == c \in checked[r] \/ pc[r] \notin {"idle", "checks"} => c \in failed[r]
<1>1. \A r \in Runs : knows(r)
  BY DEF KnownTo
<1>2. ASSUME NEW r \in Runs, Step(r) \/ Fail(r) PROVE knows(r)'
  <2>1. CASE Start(r)
    BY <1>1, <2>1 DEF Start, goto, TypeOK
  <2>2. CASE \E b \in Checks : Check(r, b)
    <3> PICK b \in Checks : Check(r, b)
      BY <2>2
    <3>1. /\ checked'[r] = checked[r] \cup {b} /\ pc'[r] = pc[r] /\ pc[r] = "checks"
          /\ failed'[r] = failed[r] \cup ({b} \cap failing)
      BY DEF Check, TypeOK
    <3> QED
      BY <1>1, <3>1
  <2>3. CASE LoadAlertState(r)
    <3>1. checked[r] = Checks /\ failed'[r] = failed[r]
      BY <2>3 DEF LoadAlertState
    <3> QED
      BY <1>1, <3>1
  <2>4. CASE \/ PostAlert(r) \/ RecordAlert(r) \/ RecordQuiet(r)
             \/ PostClear(r) \/ RecordOk(r) \/ Ping(r) \/ Fail(r)
    <3>1. \/ /\ UNCHANGED failed /\ pc[r] \notin {"idle", "checks"}
          \/ /\ pc'[r] = "idle" /\ checked'[r] = {}
      BY <2>4 DEF PostAlert, RecordAlert, RecordQuiet, PostClear, RecordOk, Ping, Fail, end, goto, TypeOK
    <3> QED
      BY <1>1, <3>1
  <2> QED
    BY <1>2, <2>1, <2>2, <2>3, <2>4 DEF Step
<1>3. ASSUME NEW r \in Runs, Step(r) \/ Fail(r), NEW q \in Runs \ {r}
      PROVE  pc'[q] = pc[q] /\ checked'[q] = checked[q] /\ failed'[q] = failed[q]
  BY <1>3 DEF Step, Start, Check, LoadAlertState, PostAlert, RecordAlert, RecordQuiet, PostClear,
      RecordOk, Ping, Fail, end, goto, TypeOK
<1>4. ASSUME NEW r \in Runs, Step(r) \/ Fail(r) PROVE KnownTo(c)'
  BY <1>1, <1>2, <1>3, <1>4 DEF KnownTo
<1>5. CASE UNCHANGED <<pc, checked, failed>>
  BY <1>1, <1>5 DEF KnownTo
<1> QED
  BY <1>4, <1>5 DEF Next, Heartbeat, Queue, Tick, vars, run

(* A run pings only when it found no failure. *)
LEMMA KnownIsNotPinged ==
    ASSUME TypeOK, NEW c \in Checks, KnownTo(c)
    PROVE  \A r \in Runs : pc[r] # "ping"
BY DEF TypeOK, KnownTo

(* At any time: if check c fails from here on, and every run that has read *)
(* what it reads knows, no run ever pings the switch from here on. Neither *)
(* an alert that is kept quiet, nor one that cannot be posted, nor a run   *)
(* that dies, lets a ping through (runWatchdog).                           *)
THEOREM NoPingWhileFailing ==
    ASSUME NEW c \in Checks
    PROVE  Spec => []([](c \in failing) /\ KnownTo(c) => [](\A r \in Runs : pc[r] # "ping"))
<1> DEFINE Fails == c \in failing
           Knows == KnownTo(c)
           Quiets == \A r \in Runs : pc[r] # "ping"
<1>1. TypeOK /\ Knows /\ Fails /\ [Next]_vars => Knows'
  BY StaysKnown
<1>2. TypeOK /\ Knows => Quiets
  BY KnownIsNotPinged
<1> HIDE DEF Fails, Knows, Quiets
<1>3. Spec => []([]Fails /\ Knows => []Quiets)
  BY <1>1, <1>2, TypeCorrect, PTL DEF Spec
<1> QED
  BY <1>3 DEF Fails, Knows, Quiets

(* So a check that fails from the beginning, as that of a heartbeat that   *)
(* was never written does, keeps the switch from ever being pinged.        *)
THEOREM NeverWellNeverPinged ==
    ASSUME NEW c \in Checks
    PROVE  Spec /\ [](c \in failing) => [](\A r \in Runs : pc[r] # "ping")
<1> DEFINE Fails == c \in failing
           Knows == KnownTo(c)
           Quiets == \A r \in Runs : pc[r] # "ping"
<1>1. Init => Knows
  BY DEF Init, KnownTo
<1>2. Spec => []([]Fails /\ Knows => []Quiets)
  BY NoPingWhileFailing
<1> HIDE DEF Fails, Knows, Quiets
<1>3. Spec /\ []Fails => []Quiets
  BY <1>1, <1>2, PTL DEF Spec
<1> QED
  BY <1>3 DEF Fails, Knows, Quiets

===============================================================================
