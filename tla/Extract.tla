------------------------------- MODULE Extract --------------------------------
(***************************************************************************)
(* From stored messages to proposals: the extract Worker lists a batch of  *)
(* unextracted messages and starts one durable workflow per chat; the      *)
(* workflow resolves the deal, asks Claude, inserts a proposal and marks   *)
(* its messages extracted, each in a step that is retried.  Cron runs, a   *)
(* manual POST and workflows overlap.                                      *)
(*                                                                         *)
(* Messages are numbered in the order of msg_date.  What a step computes   *)
(* is in DealMap; here it is whether and when the step happens.            *)
(***************************************************************************)
EXTENDS Integers, FiniteSets, FiniteSetsExt

CONSTANTS
    Chats,
    MaxMessage,   \* bound: number of messages
    ChatOf,       \* the chat of each message
    Dispatchers,  \* runOnce executions that may overlap
    BatchLimit,   \* EXTRACT_BATCH_LIMIT
    MaxTries,     \* attempts of a step before its workflow errors
    InOrder,      \* whether a chat's messages are stored oldest first
    FaultKinds,   \* the kinds of fault that happen
    MaxFaults     \* bound

Messages == 1..MaxMessage

ASSUME ExtractAssumption ==
    /\ MaxMessage \in Nat
    /\ ChatOf \in [Messages -> Chats]
    /\ BatchLimit \in Nat \ {0}
    /\ MaxTries \in Nat \ {0}
    /\ InOrder \in BOOLEAN
    /\ FaultKinds \subseteq {"failure", "lostReply", "crash"}
    /\ MaxFaults \in Nat

VARIABLES
    row,        \* telegram_messages: absent, new (extracted_at IS NULL), extracted
    todo,       \* per dispatcher: messages listed and not yet dispatched
    step,       \* per workflow instance: the step it is in
    thread,     \* per workflow instance: the messages in its payload
    tries,      \* per workflow instance: failed attempts of that step
    proposals,  \* crm_proposals: how many each instance inserted
    unacked,    \* history: the instances that lost the reply to an insert
    faults

vars == <<row, todo, step, thread, tries, proposals, unacked, faults>>

Steps == {"resolve-deal", "participants", "extract", "propose", "mark-extracted"}

(* An instance id is chat-lo-hi; lo and hi determine the chat. *)
InstanceIds ==
    {k \in Messages \X Messages : k[1] <= k[2] /\ ChatOf[k[1]] = ChatOf[k[2]]}

(* The type invariant. *)
TypeOK ==
    /\ row \in [Messages -> {"absent", "new", "extracted"}]
    /\ todo \in [Dispatchers -> SUBSET Messages]
    /\ step \in [InstanceIds -> Steps \cup {"none", "done", "errored"}]
    /\ thread \in [InstanceIds -> SUBSET Messages]
    /\ tries \in [InstanceIds -> 0..MaxTries]
    /\ proposals \in [InstanceIds -> 0..(1 + MaxFaults)]
    /\ unacked \subseteq InstanceIds
    /\ faults \in 0..MaxFaults

Init ==
    /\ row = [m \in Messages |-> "absent"]
    /\ todo = [d \in Dispatchers |-> {}]
    /\ step = [k \in InstanceIds |-> "none"]
    /\ thread = [k \in InstanceIds |-> {}]
    /\ tries = [k \in InstanceIds |-> 0]
    /\ proposals = [k \in InstanceIds |-> 0]
    /\ unacked = {}
    /\ faults = 0

fault(kind) ==
    /\ kind \in FaultKinds
    /\ faults < MaxFaults
    /\ faults' = faults + 1

-----------------------------------------------------------------------------
(* The dispatcher: runOnce, groupIntoThreads, dispatch                     *)

(* The oldest BatchLimit messages with extracted_at IS NULL. *)
getUnextractedMessages ==
    LET new == {m \in Messages : row[m] = "new"}
    IN  {m \in new : Cardinality({n \in new : n < m}) < BatchLimit}

(* The first thread of a batch: its oldest message's chat. *)
firstThread(batch) == {m \in batch : ChatOf[m] = ChatOf[Min(batch)]}

(* Mutant: only the oldest message makes the id. *)
Oldest_instanceId(msgs) == <<Min(msgs), Min(msgs)>>

instanceId(msgs) == <<Min(msgs), Max(msgs)>>

List(d) ==
    /\ todo[d] = {}
    /\ getUnextractedMessages # {}
    /\ todo' = [todo EXCEPT ![d] = getUnextractedMessages]
    /\ UNCHANGED <<row, step, thread, tries, proposals, unacked, faults>>

(* Mutant: an instance that exists is started again. *)
Restarts_Dispatch(d) ==
    /\ todo[d] # {}
    /\ LET msgs == firstThread(todo[d])
           k == instanceId(msgs)
       IN  /\ todo' = [todo EXCEPT ![d] = @ \ msgs]
           /\ step' = [step EXCEPT ![k] = "resolve-deal"]
           /\ thread' = [thread EXCEPT ![k] = msgs]
    /\ UNCHANGED <<row, tries, proposals, unacked, faults>>

(* EXTRACT_WORKFLOW.create throws on an id that exists, in whatever state  *)
(* its instance is; that thread is skipped.                                *)
Dispatch(d) ==
    /\ todo[d] # {}
    /\ LET msgs == firstThread(todo[d])
           k == instanceId(msgs)
       IN  /\ todo' = [todo EXCEPT ![d] = @ \ msgs]
           /\ IF step[k] = "none"
              THEN /\ step' = [step EXCEPT ![k] = "resolve-deal"]
                   /\ thread' = [thread EXCEPT ![k] = msgs]
              ELSE UNCHANGED <<step, thread>>
    /\ UNCHANGED <<row, tries, proposals, unacked, faults>>

(* create fails for another reason: logged, and on to the next thread. *)
DispatchFails(d) ==
    /\ todo[d] # {}
    /\ todo' = [todo EXCEPT ![d] = @ \ firstThread(todo[d])]
    /\ fault("failure")
    /\ UNCHANGED <<row, step, thread, tries, proposals, unacked>>

(* The Worker dies between two threads. *)
DispatcherDies(d) ==
    /\ todo[d] # {}
    /\ todo' = [todo EXCEPT ![d] = {}]
    /\ fault("crash")
    /\ UNCHANGED <<row, step, thread, tries, proposals, unacked>>

-----------------------------------------------------------------------------
(* The workflow                                                            *)

Running(k) == step[k] \in Steps

goto(k, s) ==
    /\ step' = [step EXCEPT ![k] = s]
    /\ tries' = [tries EXCEPT ![k] = 0]

(* A step that throws is tried again, and after MaxTries attempts the      *)
(* instance is errored.                                                    *)
retry(k) ==
    /\ tries' = [tries EXCEPT ![k] = @ + 1]
    /\ step' = [step EXCEPT ![k] = IF tries[k] + 1 = MaxTries THEN "errored" ELSE @]

(* resolveDeal, resolveParticipants and extractFromThread. *)
Prepare(k) ==
    /\ \/ step[k] = "resolve-deal" /\ goto(k, "participants")
       \/ step[k] = "participants" /\ goto(k, "extract")
       \/ step[k] = "extract" /\ goto(k, "propose")
    /\ UNCHANGED <<row, todo, thread, proposals, unacked, faults>>

insertProposal(k) == proposals' = [proposals EXCEPT ![k] = @ + 1]

Propose(k) ==
    /\ step[k] = "propose"
    /\ insertProposal(k)
    /\ goto(k, "mark-extracted")
    /\ UNCHANGED <<row, todo, thread, unacked, faults>>

(* The INSERT happened, but its step failed and is tried again. *)
ProposeUnacknowledged(k) ==
    /\ step[k] = "propose"
    /\ insertProposal(k)
    /\ retry(k)
    /\ unacked' = unacked \cup {k}
    /\ fault("lostReply")
    /\ UNCHANGED <<row, todo, thread>>

markMessagesExtracted(msgs) ==
    row' = [m \in Messages |-> IF m \in msgs THEN "extracted" ELSE row[m]]

MarkExtracted(k) ==
    /\ step[k] = "mark-extracted"
    /\ markMessagesExtracted(thread[k])
    /\ goto(k, "done")
    /\ UNCHANGED <<todo, thread, proposals, unacked, faults>>

MarkUnacknowledged(k) ==
    /\ step[k] = "mark-extracted"
    /\ markMessagesExtracted(thread[k])
    /\ retry(k)
    /\ fault("lostReply")
    /\ UNCHANGED <<todo, thread, proposals, unacked>>

(* Mutant: a proposal that cannot be inserted does not stop the workflow. *)
BestEffort_StepFails(k) ==
    /\ Running(k)
    /\ IF step[k] = "propose" THEN goto(k, "mark-extracted") ELSE retry(k)
    /\ fault("failure")
    /\ UNCHANGED <<row, todo, thread, proposals, unacked>>

(* Mutant: a thread that fails is not tried again. *)
NoRetry_StepFails(k) ==
    /\ Running(k)
    /\ goto(k, "errored")
    /\ fault("failure")
    /\ UNCHANGED <<row, todo, thread, proposals, unacked>>

(* A step fails without effect: Attio, Claude or D1 throws. *)
StepFails(k) ==
    /\ Running(k)
    /\ retry(k)
    /\ fault("failure")
    /\ UNCHANGED <<row, todo, thread, proposals, unacked>>

-----------------------------------------------------------------------------
(* Ingest *)

Store(m) ==
    /\ row[m] = "absent"
    /\ InOrder => \A n \in Messages : n < m /\ ChatOf[n] = ChatOf[m] => row[n] # "absent"
    /\ row' = [row EXCEPT ![m] = "new"]
    /\ UNCHANGED <<todo, step, thread, tries, proposals, unacked, faults>>

Advance(k) == Prepare(k) \/ Propose(k) \/ MarkExtracted(k)

Next ==
    \/ \E d \in Dispatchers : List(d) \/ Dispatch(d) \/ DispatchFails(d) \/ DispatcherDies(d)
    \/ \E k \in InstanceIds :
         Advance(k) \/ ProposeUnacknowledged(k) \/ MarkUnacknowledged(k) \/ StepFails(k)
    \/ \E m \in Messages : Store(m)

Spec == Init /\ [][Next]_vars

(* Cron starts a run again and again, a run goes through its threads, and  *)
(* the workflow engine goes on with each instance.                         *)
FairSpec ==
    /\ Spec
    /\ \A d \in Dispatchers : WF_vars(List(d)) /\ WF_vars(Dispatch(d))
    /\ \A k \in InstanceIds : WF_vars(Advance(k))

-----------------------------------------------------------------------------
(* Properties                                                              *)

(* No message is lost: what is marked extracted was in the thread of a     *)
(* proposal that is in crm_proposals.                                      *)
ExtractedIsProposed ==
    \A m \in Messages :
        row[m] = "extracted" =>
            \E k \in InstanceIds : m \in thread[k] /\ proposals[k] > 0

(* A thread is dispatched once: two instances never have the same messages *)
(* and an instance inserts one proposal, unless the reply to an insert was *)
(* lost and the propose step ran again.                                    *)
ThreadProposedOnce ==
    /\ \A k \in InstanceIds : proposals[k] > 1 => k \in unacked
    /\ \A j, k \in InstanceIds : thread[j] = thread[k] /\ thread[k] # {} => j = k

(* "A duplicate id means this exact thread range is already being          *)
(* processed": a thread is skipped only if each of its messages is         *)
(* extracted or in an instance that still runs.                            *)
SkipIsSafe ==
    [][\A d \in Dispatchers :
           Dispatch(d) /\ UNCHANGED step =>
               \A m \in firstThread(todo[d]) :
                   \/ row[m] = "extracted"
                   \/ \E k \in InstanceIds : Running(k) /\ m \in thread[k]]_vars

(* A message is in one proposal, however cron runs and workflows overlap   *)
(* ("idempotency end-to-end", README.md:102).                              *)
MessageProposedOnce ==
    \A j, k \in InstanceIds :
        thread[j] \cap thread[k] # {} /\ proposals[j] > 0 /\ proposals[k] > 0
            => j = k /\ proposals[k] = 1

(* Every stored message is extracted in the end. *)
EveryMessageExtracted ==
    \A m \in Messages : row[m] = "new" ~> row[m] = "extracted"

=============================================================================
