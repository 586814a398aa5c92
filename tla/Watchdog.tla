------------------------------- MODULE Watchdog -------------------------------
(***************************************************************************)
(* The watchdog Worker (apps/watchdog/src/index.ts): it reads the ingest   *)
(* heartbeat and the length of the review queue, posts alerts to Slack,    *)
(* keeps what it alerted in system_status, and pings a dead man's switch   *)
(* while all is well.  Cron checks and manual ones overlap.                *)
(*                                                                         *)
(* Times are ages, which grow with Tick and stop at Stale or at Cooldown:  *)
(* the code only compares them with thresholds.  A tick is minutes and a   *)
(* check lasts seconds, so no tick falls into one.                         *)
(***************************************************************************)
EXTENDS Integers, FiniteSets

CONSTANTS
    Runs,        \* checks that may overlap
    MaxSilence,  \* INGEST_MAX_SILENCE_SECONDS, in ticks
    Cooldown,    \* ALERT_COOLDOWN_SECONDS, in ticks
    MaxFaults    \* bound: calls that fail

ASSUME WatchdogAssumption ==
    /\ MaxSilence \in Nat
    /\ Cooldown \in Nat \ {0}
    /\ MaxFaults \in Nat

Checks == {"ingest_liveness", "queue_depth"}

VARIABLES
    silence,            \* age of system_status 'ingest'; Stale: no row, or not ok
    backlog,            \* whether more proposals are pending than the ceiling
    known, alertAge,    \* system_status 'watchdog': signature, age of lastAlertAt
    pc,                 \* where a check is
    checked, failed,    \* its answers so far, and those that failed
    prevAge,            \* the age of the lastAlertAt it has read
    slack,              \* what the last message that reached Slack said
    posted, sincePost,  \* history: the last alert, while only checks that met no
                        \* other recorded since; the age of that check's `now`
    alone,              \* history: checks that have met no other
    alerted,            \* history: the sets of failures ever posted
    faults

world   == <<silence, backlog>>
state   == <<known, alertAge>>
run     == <<pc, checked, failed, prevAge>>
history == <<slack, posted, sincePost, alone, alerted>>
vars    == <<world, state, run, history, faults>>

(* The bound of the age of a heartbeat. *)
Stale == MaxSilence + 1

Points == {"idle", "checks", "post", "recordAlert", "recordQuiet", "postClear",
           "recordOk", "ping"}

(* The type invariant; a run is at the alert only with failures, and at    *)
(* the all clear and the ping only without.                                *)
TypeOK ==
    /\ silence \in 0..Stale
    /\ backlog \in BOOLEAN
    /\ known \in SUBSET Checks
    /\ alertAge \in 0..Cooldown
    /\ pc \in [Runs -> Points]
    /\ checked \in [Runs -> SUBSET Checks]
    /\ failed \in [Runs -> SUBSET Checks]
    /\ prevAge \in [Runs -> 0..Cooldown]
    /\ slack \in SUBSET Checks
    /\ posted \in SUBSET Checks
    /\ sincePost \in 0..Cooldown
    /\ alone \in SUBSET Runs
    /\ alerted \subseteq SUBSET Checks
    /\ faults \in 0..MaxFaults
    /\ \A r \in Runs :
          /\ pc[r] \in {"post", "recordAlert", "recordQuiet"} => failed[r] # {}
          /\ pc[r] \in {"postClear", "recordOk", "ping"} => failed[r] = {}

Init ==
    /\ silence = Stale /\ backlog = FALSE
    /\ known = {} /\ alertAge = Cooldown
    /\ pc = [r \in Runs |-> "idle"]
    /\ checked = [r \in Runs |-> {}]
    /\ failed = [r \in Runs |-> {}]
    /\ prevAge = [r \in Runs |-> 0]
    /\ slack = {} /\ posted = {} /\ sincePost = 0
    /\ alone = {} /\ alerted = {}
    /\ faults = 0

Busy(r) == pc[r] # "idle"

goto(r, point) == pc' = [pc EXCEPT ![r] = point]

(* The run is over and its locals are gone. *)
end(r) ==
    /\ goto(r, "idle")
    /\ checked' = [checked EXCEPT ![r] = {}]
    /\ failed' = [failed EXCEPT ![r] = {}]
    /\ prevAge' = [prevAge EXCEPT ![r] = 0]
    /\ alone' = alone \ {r}

fault == faults < MaxFaults /\ faults' = faults + 1

-----------------------------------------------------------------------------
(* The checks                                                              *)

(* What a check finds that reads now: evaluateIngestLiveness and           *)
(* checkQueueDepth.                                                        *)
failing == {c \in Checks : IF c = "queue_depth" THEN backlog
                          ELSE silence > MaxSilence}

Start(r) ==
    /\ pc[r] = "idle"
    /\ goto(r, "checks")
    /\ alone' = IF \E q \in Runs : Busy(q) THEN {} ELSE {r}
    /\ UNCHANGED <<world, state, checked, failed, prevAge, slack, posted,
                   sincePost, alerted, faults>>

(* Promise.all: the two reads, in either order. *)
Check(r, c) ==
    /\ pc[r] = "checks"
    /\ c \notin checked[r]
    /\ checked' = [checked EXCEPT ![r] = @ \cup {c}]
    /\ failed' = [failed EXCEPT ![r] = @ \cup ({c} \cap failing)]
    /\ UNCHANGED <<world, state, pc, prevAge, history, faults>>

(* Mutant: what was alerted lately is left alone, whatever fails now. *)
OnlyCooldown_shouldAlert(signature, prev, age) == signature # {} /\ age >= Cooldown

(* Mutant: only a change is alerted. *)
OnlyChange_shouldAlert(signature, prev, age) == signature # {} /\ signature # prev

(* Mutant: everything that fails is alerted. *)
Always_shouldAlert(signature, prev, age) == signature # {}

(* Mutant: without the early return when nothing fails. *)
NoReturn_shouldAlert(signature, prev, age) == signature # prev \/ age >= Cooldown

shouldAlert(signature, prev, age) ==
    signature # {} /\ (signature # prev \/ age >= Cooldown)

(* The alert state is read last, and the run decides. *)
LoadAlertState(r) ==
    /\ pc[r] = "checks"
    /\ checked[r] = Checks
    /\ prevAge' = [prevAge EXCEPT ![r] = alertAge]
    /\ goto(r, CASE shouldAlert(failed[r], known, alertAge) -> "post"
                 [] failed[r] = {} /\ known # {} -> "postClear"
                 [] failed[r] = {} /\ known = {} -> "recordOk"
                 [] OTHER -> "recordQuiet")
    /\ UNCHANGED <<world, state, checked, failed, history, faults>>

-----------------------------------------------------------------------------
(* What the run does about them                                            *)

lastPost(signature, age) ==
    /\ posted' = signature
    /\ sincePost' = IF signature = {} THEN 0 ELSE age

(* postSlack swallows every error. *)
postSlack(message) ==
    \/ slack' = message /\ UNCHANGED faults
    \/ UNCHANGED slack /\ fault

PostAlert(r) ==
    /\ pc[r] = "post"
    /\ postSlack(failed[r])
    /\ goto(r, "recordAlert")
    /\ alerted' = alerted \cup {failed[r]}
    /\ lastPost(IF r \in alone THEN failed[r] ELSE {}, 0)
    /\ UNCHANGED <<world, state, checked, failed, prevAge, alone>>

(* recordStatus(DB, 'watchdog', ...) *)
recordStatus(r, signature, age) ==
    /\ known' = signature
    /\ alertAge' = age
    /\ lastPost(IF r \in alone /\ signature # {} THEN posted ELSE {}, sincePost)

RecordAlert(r) ==
    /\ pc[r] = "recordAlert"
    /\ recordStatus(r, failed[r], 0)
    /\ end(r)
    /\ UNCHANGED <<world, slack, alerted, faults>>

(* Mutant: the switch is pinged by every check that ends. *)
Pings_RecordQuiet(r) ==
    /\ pc[r] = "recordQuiet"
    /\ recordStatus(r, failed[r], prevAge[r])
    /\ goto(r, "ping")
    /\ UNCHANGED <<world, checked, failed, prevAge, slack, alone, alerted,
                   faults>>

(* Within the cooldown: the time of the alert stays. *)
RecordQuiet(r) ==
    /\ pc[r] = "recordQuiet"
    /\ recordStatus(r, failed[r], prevAge[r])
    /\ end(r)
    /\ UNCHANGED <<world, slack, alerted, faults>>

PostClear(r) ==
    /\ pc[r] = "postClear"
    /\ postSlack({})
    /\ goto(r, "recordOk")
    /\ UNCHANGED <<world, state, checked, failed, prevAge, posted, sincePost,
                   alone, alerted>>

(* lastAlertAt: 0 is as long ago as can be. *)
RecordOk(r) ==
    /\ pc[r] = "recordOk"
    /\ recordStatus(r, {}, Cooldown)
    /\ goto(r, "ping")
    /\ UNCHANGED <<world, checked, failed, prevAge, slack, alone, alerted,
                   faults>>

(* pingHealthcheck swallows every error. *)
Ping(r) ==
    /\ pc[r] = "ping"
    /\ end(r)
    /\ UNCHANGED <<world, state, slack, posted, sincePost, alerted, faults>>

(* D1 throws or the isolate ends; an alert it posted is not on record. *)
Fail(r) ==
    /\ Busy(r)
    /\ fault
    /\ end(r)
    /\ lastPost(IF pc[r] = "recordAlert" THEN {} ELSE posted, sincePost)
    /\ UNCHANGED <<world, state, slack, alerted>>

-----------------------------------------------------------------------------
(* Everyone else                                                           *)

(* A scheduled ingest records its heartbeat. *)
Heartbeat(ok) ==
    /\ silence' = IF ok THEN 0 ELSE Stale
    /\ UNCHANGED <<backlog, state, run, history, faults>>

(* The queue of pending proposals crosses the ceiling. *)
Queue ==
    /\ backlog' = ~ backlog
    /\ UNCHANGED <<silence, state, run, history, faults>>

older(age, bound) == IF age < bound THEN age + 1 ELSE age

Tick ==
    /\ \A r \in Runs : pc[r] = "idle"
    /\ silence' = older(silence, Stale)
    /\ alertAge' = older(alertAge, Cooldown)
    /\ sincePost' = IF posted = {} THEN 0 ELSE older(sincePost, Cooldown)
    /\ UNCHANGED <<backlog, known, run, slack, posted, alone, alerted, faults>>

Step(r) ==
    \/ Start(r) \/ LoadAlertState(r) \/ \E c \in Checks : Check(r, c)
    \/ PostAlert(r) \/ RecordAlert(r) \/ RecordQuiet(r)
    \/ PostClear(r) \/ RecordOk(r) \/ Ping(r)

Next ==
    \/ \E r \in Runs : Step(r) \/ Fail(r)
    \/ \E ok \in BOOLEAN : Heartbeat(ok)
    \/ Queue
    \/ Tick

Spec == Init /\ [][Next]_vars

(* Cron starts a check again and again, a check that is not killed goes    *)
(* on, checks do not overlap one another for ever, and between them time   *)
(* goes by, as long as an age still grows.                                 *)
FairSpec ==
    /\ Spec
    /\ []<>(\A r \in Runs : pc[r] = "idle")
    /\ SF_vars(Tick)
    /\ \A r \in Runs : WF_vars(Step(r))

-----------------------------------------------------------------------------
(* Properties                                                              *)

(* "No re-paging every 5 min while still broken": a check that met no      *)
(* other repeats the last alert only after the cooldown, unless the check  *)
(* that posted it met another or could not record it (shouldAlert).        *)
AlertsAreSpaced ==
    [][\A r \in alone :
           pc[r] = "post" /\ pc'[r] = "recordAlert" /\ failed[r] = posted
               => sincePost = Cooldown]_vars

(* What is on record as alerted, and kept quiet for a cooldown, is a set   *)
(* of failures that some check did post, and not a mixture of two checks   *)
(* that overlapped (runWatchdog).                                          *)
KnownWasAlerted == known # {} => known \in alerted

(* A check posts to Slack exactly what fails, and the message arrives. *)
told == \E r \in Runs : PostAlert(r) /\ failed[r] = failing /\ UNCHANGED faults

(* Failures that no longer change are posted to Slack, and arrive there,   *)
(* again and again: a cooldown ends, though checks record that they are    *)
(* still quiet, and a message that was lost, or posted by a check that     *)
(* ended before it could record it, is not the last (runWatchdog).         *)
OutageIsTold ==
    <>[][failing' = failing]_vars /\ <>[](failing # {}) => []<><<told>>_vars

(* The dead man's switch is not pinged for ever while one check fails, and *)
(* again and again while none does (runWatchdog).                          *)
DeadMansSwitch ==
    /\ \A c \in Checks : <>[](c \in failing) => <>[](\A r \in Runs : pc[r] # "ping")
    /\ <>[](failing = {}) => []<>(\E r \in Runs : pc[r] = "ping")

===============================================================================
