------------------------------- MODULE Workflow --------------------------------
(***************************************************************************)
(* What the extract Worker's workflows put into proposals (apps/extract/   *)
(* src/workflow.ts, ExtractWorkflow.run): DealMap and Identity composed,   *)
(* with Claude's reply between them and the row of crm_proposals.  Extract *)
(* models when these steps happen; here it is what they carry.             *)
(*                                                                         *)
(* A workflow waits for Attio, for D1 and for Claude, and may be retried   *)
(* for hours.  Meanwhile chats are linked, deals renamed, persons          *)
(* confirmed and rejected, and other workflows resolve the same chat.      *)
(***************************************************************************)
EXTENDS Integers, FiniteSets

CONSTANTS
    Instances,  \* workflows that may overlap
    ChatOf,     \* the chat of each one's thread
    Senders,    \* the senders of each one's thread
    Users, Persons,
    Chats, Titled, Deals, Scores, MinScore, AutoConfirm, Margin, PageSize,
    MaxRenames,
    Null

VARIABLES
    dealMap, score, pc, chat, match, answer, renames, linked, raced, clear,
    identity, recording, participants, decided,
    step,             \* per instance: the step it is in
    record,           \* per instance: the record id of its extraction
    proposals,        \* crm_proposals
    liveDuring,       \* history: per instance, the deals its chat was
                      \* confirmed to have while it ran
    confirmedDuring   \* history: per instance and user, the persons the
                      \* user was confirmed to be while it ran

DM == INSTANCE DealMap WITH Runs <- Instances

ID == INSTANCE Identity

(* The assumptions of the parts hold of them. *)
ASSUME WorkflowAssumption ==
    /\ ChatOf \in [Instances -> Chats]
    /\ DM!DealMapAssumption
    /\ ID!IdentityAssumption

deal    == <<dealMap, score, pc, chat, match, answer, renames, linked, raced, clear>>
people  == <<identity, recording, participants, decided>>
own     == <<record, proposals>>
history == <<liveDuring, confirmedDuring>>
vars    == <<deal, people, step, own, history>>

Steps == {"resolve-deal", "participants", "extract", "propose"}

NoPersons == [u \in Users |-> {}]

Rows == [instance : Instances, record : Deals \cup {Null},
         persons : [Users -> Persons \cup {Null}]]

(* The type invariant, that of the parts included. *)
TypeOK ==
    /\ DM!TypeOK
    /\ ID!TypeOK
    /\ step \in [Instances -> Steps \cup {"none", "done", "errored"}]
    /\ record \in [Instances -> Deals \cup {Null}]
    /\ proposals \subseteq Rows
    /\ liveDuring \in [Instances -> SUBSET Deals]
    /\ confirmedDuring \in [Instances -> [Users -> SUBSET Persons]]

Init ==
    /\ DM!Init
    /\ ID!Init
    /\ step = [k \in Instances |-> "none"]
    /\ record = [k \in Instances |-> Null]
    /\ proposals = {}
    /\ liveDuring = [k \in Instances |-> {}]
    /\ confirmedDuring = [k \in Instances |-> NoPersons]

-----------------------------------------------------------------------------
(* The steps                                                               *)

goto(k, s) == step' = [step EXCEPT ![k] = s]

(* The engine runs a step again, or gives the instance up. *)
again(k) == UNCHANGED step \/ goto(k, "errored")

Start(k) ==
    /\ step[k] = "none"
    /\ goto(k, "resolve-deal")
    /\ UNCHANGED <<deal, people, own>>

(* resolve-deal: the calls of resolveDeal. *)
ResolveDeal(k) ==
    /\ step[k] = "resolve-deal"
    /\ \/ DM!Begin(k, ChatOf[k]) /\ UNCHANGED step
       \/ DM!ListDeals(k) /\ UNCHANGED step
       \/ DM!Fail(k) /\ again(k)
       \/ DM!Upsert(k, FALSE) /\ again(k)
       \/ DM!AnswerConfirmed(k, ChatOf[k]) /\ goto(k, "participants")
       \/ DM!Upsert(k, TRUE) /\ goto(k, "participants")
    /\ UNCHANGED <<people, own>>

(* participants: the lookups of resolveParticipants, one sender at a time. *)
ResolveParticipants(k) ==
    /\ step[k] = "participants"
    /\ \/ (\E u \in Users : ID!Find(k, u) \/ ID!Miss(k, u)) /\ UNCHANGED step
       \/ ID!Record(k) /\ UNCHANGED step
       \/ ID!Abort(k) /\ again(k)
       \/ ID!left(k) = {} /\ goto(k, "extract") /\ UNCHANGED people
    /\ UNCHANGED <<deal, own>>

(* Mutant: the model's own attio_record_id goes through. *)
Model_trustedDealId(k, guess) == guess

(* Only a confirmed deal is a target, whatever deal the model names. *)
trustedDealId(k, guess) == IF answer[k].status = "confirmed" THEN answer[k].deal ELSE Null

(* extract: Claude answers anything, or the call fails. *)
ExtractThread(k) ==
    /\ step[k] = "extract"
    /\ \/ \E guess \in Deals \cup {Null} :
             /\ record' = [record EXCEPT ![k] = trustedDealId(k, guess)]
             /\ goto(k, "propose")
       \/ again(k) /\ UNCHANGED record
    /\ UNCHANGED <<deal, people, proposals>>

(* propose: the INSERT, of which the step may not hear, or hear too late.  *)
(* Several rows of one workflow are alike (Extract counts them).           *)
Propose(k) ==
    /\ step[k] = "propose"
    /\ \/ /\ proposals' = proposals \cup
                 {[instance |-> k, record |-> record[k],
                   persons |-> [u \in Users |-> participants[k][u].person]]}
          /\ goto(k, "done") \/ again(k)
       \/ again(k) /\ UNCHANGED proposals
    /\ UNCHANGED <<deal, people, record>>

-----------------------------------------------------------------------------
(* Everyone else                                                           *)

People ==
    /\ \/ (\E c \in Chats, d \in Deals : DM!LinkDeal(c, d)) /\ UNCHANGED people
       \/ (\E d \in Deals, new \in [Chats -> Scores] : DM!Rename(d, new)) /\ UNCHANGED people
       \/ (\E u \in Users : ID!Decide(u)) /\ UNCHANGED deal
    /\ UNCHANGED <<step, own>>

live(k) == {row \in {dealMap[ChatOf[k]]} : row.status = "confirmed"}

(* The history of a workflow, while it runs. *)
Witness ==
    /\ liveDuring' = [k \in Instances |->
           IF step'[k] \in Steps THEN liveDuring[k] \cup {row.deal : row \in live(k)'} ELSE {}]
    /\ confirmedDuring' = [k \in Instances |->
           IF step'[k] \in Steps
           THEN [u \in Users |-> confirmedDuring[k][u] \cup
                    {row.person : row \in {x \in {identity'[u]} : x.status = "confirmed"}}]
           ELSE NoPersons]

Next ==
    /\ \/ \E k \in Instances : \/ Start(k) \/ ResolveDeal(k) \/ ResolveParticipants(k)
                               \/ ExtractThread(k) \/ Propose(k)
       \/ People
    /\ Witness

Spec == Init /\ [][Next]_vars

-----------------------------------------------------------------------------
(* Properties                                                              *)

(* A proposal's record id is a deal its chat was confirmed to have while   *)
(* the workflow ran: never the model's choice, a candidate, or a deal that *)
(* the chat had left before ("only a CONFIRMED deal is a write target").   *)
RecordWasLive ==
    [][\A p \in proposals' \ proposals :
           p.record # Null => p.record \in liveDuring[p.instance]]_vars

(* The people a proposal would associate were each confirmed to be that    *)
(* sender while the workflow ran, however attempts were cut short ("only a *)
(* 'confirmed' participant carries an attio_person_id").                   *)
PersonWasConfirmed ==
    [][\A p \in proposals' \ proposals : \A u \in Users :
           p.persons[u] # Null => /\ u \in Senders[p.instance]
                                  /\ p.persons[u] \in confirmedDuring[p.instance][u]]_vars

(* What a human confirmed stays, whatever workflows had read before.       *)
ConfirmedPersonStays == ID!ConfirmedPersonStays

===============================================================================
