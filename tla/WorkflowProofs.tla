----------------------------- MODULE WorkflowProofs ----------------------------
(***************************************************************************)
(* Proofs about Workflow, for any workflows, chats, deals and persons.     *)
(*                                                                         *)
(* Whatever workflows and people do, deal_map sees the resolutions of      *)
(* DealMap and nothing else, so what DealMapProofs proves of them holds    *)
(* here.  Beyond that, the invariant follows the deal and the persons of a *)
(* proposal through the steps that pass them on: each was confirmed at a   *)
(* moment that the history still knows.                                    *)
(***************************************************************************)
EXTENDS Workflow, TLAPS

(* The theorems of DealMapProofs, of the resolutions of workflows. *)
DMP == INSTANCE DealMapProofs WITH Runs <- Instances

-----------------------------------------------------------------------------
(* DealMap in the composition                                              *)

(* What a workflow or a person does is a step of DealMap, or none. *)
LEMMA DealStep == [Next]_vars => [DM!Next]_deal
<1> SUFFICES ASSUME [Next]_vars PROVE [DM!Next]_deal
  OBVIOUS
<1>1. CASE UNCHANGED vars
  BY <1>1 DEF vars, deal
<1>2. ASSUME NEW k \in Instances, ResolveDeal(k) PROVE DM!Next
  <2>1. ChatOf[k] \in Chats
    BY WorkflowAssumption
  <2> QED
    BY <1>2, <2>1 DEF ResolveDeal, DM!Next
<1>3. CASE People
  BY <1>3 DEF People, DM!Next, people, deal
<1>4. ASSUME NEW k \in Instances,
             Start(k) \/ ResolveParticipants(k) \/ ExtractThread(k) \/ Propose(k)
      PROVE  UNCHANGED deal
  BY <1>4 DEF Start, ResolveParticipants, ExtractThread, Propose, deal
<1> QED
  BY <1>1, <1>2, <1>3, <1>4 DEF Next, deal

(* Of the resolutions of workflows nothing is different: Spec implements   *)
(* DealMap (workflow.ts calls resolveDeal, and nothing else of it).        *)
THEOREM ResolvesAsDealMap == Spec => DM!Spec
<1>1. Init => DM!Init
  BY DEF Init
<1>2. [Next]_vars => [DM!Next]_DM!vars
  BY DealStep DEF deal, DM!vars, DM!run, DM!history
<1> QED
  BY <1>1, <1>2, PTL DEF Spec, DM!Spec

(* The instance that the proofs are about is the one of the model. *)
LEMMA SamePages == ASSUME NEW s PROVE DM!pages(s) = DMP!pages(s)
  BY DEF DM!pages, DMP!pages, Cardinality, DM!Cardinality, DMP!Cardinality

(* The steps are the same. *)
LEMMA SameNext == DM!Next => DMP!Next
<1>1. ASSUME NEW r \in Instances, NEW c \in Chats, DM!AnswerConfirmed(r, c) PROVE DMP!Next
  <2>1. DMP!AnswerConfirmed(r, c)
    BY <1>1 DEF DM!AnswerConfirmed, DMP!AnswerConfirmed, DM!history, DMP!history
  <2> QED
    BY <2>1 DEF DMP!Next
<1>2. ASSUME NEW r \in Instances, NEW c \in Chats, DM!Begin(r, c) PROVE DMP!Next
  <2>1. DMP!Begin(r, c)
    BY <1>2 DEF DM!Begin, DMP!Begin, DM!history, DMP!history, DM!NoRow, DMP!NoRow, DM!unmatched,
        DMP!unmatched
  <2> QED
    BY <2>1 DEF DMP!Next
<1>3. ASSUME NEW r \in Instances, DM!ListDeals(r) PROVE DMP!Next
  <2>1. DMP!ListDeals(r)
    BY <1>3, SamePages DEF DM!ListDeals, DMP!ListDeals, DM!history, DMP!history, DM!outcomes, DMP!outcomes,
        DM!unmatched, DMP!unmatched, DM!matched, DMP!matched, DM!isClearWinner,
        DMP!isClearWinner
  <2> QED
    BY <2>1 DEF DMP!Next
<1>4. ASSUME NEW r \in Instances, NEW answered \in BOOLEAN, DM!Upsert(r, answered) PROVE DMP!Next
  <2>1. DMP!Upsert(r, answered)
    BY <1>4 DEF DM!Upsert, DMP!Upsert, DM!history, DMP!history, DM!upsertDealMap,
        DMP!upsertDealMap, DM!NoRow, DMP!NoRow
  <2> QED
    BY <2>1 DEF DMP!Next
<1>5. ASSUME NEW r \in Instances, DM!Fail(r) PROVE DMP!Next
  <2>1. DMP!Fail(r)
    BY <1>5 DEF DM!Fail, DMP!Fail, DM!history, DMP!history, DM!NoRow, DMP!NoRow
  <2> QED
    BY <2>1 DEF DMP!Next
<1>6. ASSUME NEW c \in Chats, NEW d \in Deals, DM!LinkDeal(c, d) PROVE DMP!Next
  <2>1. DMP!LinkDeal(c, d)
    BY <1>6 DEF DM!LinkDeal, DMP!LinkDeal, DM!run, DMP!run, DM!linkRow, DMP!linkRow, DM!atWork,
        DMP!atWork
  <2> QED
    BY <2>1 DEF DMP!Next
<1>7. ASSUME NEW d \in Deals, NEW new \in [Chats -> Scores], DM!Rename(d, new) PROVE DMP!Next
  <2>1. DMP!Rename(d, new)
    BY <1>7 DEF DM!Rename, DMP!Rename, DM!run, DMP!run, DM!ClearWinners, DMP!ClearWinners
  <2> QED
    BY <2>1 DEF DMP!Next
<1> QED
  BY <1>1, <1>2, <1>3, <1>4, <1>5, <1>6, <1>7 DEF DM!Next

(* The type invariants are the same. *)
LEMMA SameType == DM!TypeOK <=> DMP!TypeOK
  BY DEF DM!TypeOK, DMP!TypeOK, DM!Rows, DMP!Rows, DM!Methods, DMP!Methods

(* The initial states are the same. *)
LEMMA SameInit == DM!Init => DMP!Init
  BY DEF DM!Init, DMP!Init, DM!NoRow, DMP!NoRow, DM!ClearWinners, DMP!ClearWinners

(* So the invariant of DealMapProofs is one of the composition. *)
LEMMA DealInv ==
    /\ Init => DMP!IInv
    /\ DMP!IInv /\ [Next]_vars => DMP!IInv'
<1>1. Init => DMP!IInv
  BY SameInit, DMP!InitIInv, WorkflowAssumption
  DEF Init, DM!DealMapAssumption, DM!IsFiniteSet, DMP!DealMapAssumption, DMP!IsFiniteSet, IsFiniteSet
<1>2. [Next]_vars => [DMP!Next]_DMP!vars
  BY DealStep, SameNext DEF deal, DMP!vars, DMP!run, DMP!history
<1>3. DMP!IInv /\ [DMP!Next]_DMP!vars => DMP!IInv'
  BY DMP!NextIInv, WorkflowAssumption
  DEF DM!DealMapAssumption, DM!IsFiniteSet, DMP!DealMapAssumption, DMP!IsFiniteSet, IsFiniteSet
<1> QED
  BY <1>1, <1>2, <1>3

-----------------------------------------------------------------------------
(* The inductive invariant                                                 *)

(* The types that Workflow adds to those of DealMap. *)
OwnTypeOK ==
    /\ ID!TypeOK
    /\ step \in [Instances -> Steps \cup {"none", "done", "errored"}]
    /\ record \in [Instances -> Deals \cup {Null}]
    /\ proposals \subseteq Rows
    /\ liveDuring \in [Instances -> SUBSET Deals]
    /\ confirmedDuring \in [Instances -> [Users -> SUBSET Persons]]

(* A confirmed user has a person. *)
IdentityOK == \A u \in Users : identity[u].status = "confirmed" => identity[u].person \in Persons

(* A resolution at work is the one of its workflow's step. *)
ResolvesOwnChat ==
    \A k \in Instances : pc[k] # "idle" => chat[k] = ChatOf[k] /\ step[k] = "resolve-deal"

(* What resolve-deal answered as confirmed was so while the workflow ran ... *)
AnswerWasLive ==
    \A k \in Instances :
        step[k] \in {"participants", "extract"} /\ answer[k].status = "confirmed"
            => answer[k].deal \in liveDuring[k]

(* ... and so was the record id that extract made of it. *)
PendingWasLive ==
    \A k \in Instances :
        step[k] = "propose" /\ record[k] # Null => record[k] \in liveDuring[k]

(* No participant is known before their step ... *)
NobodyYet ==
    \A k \in Instances : step[k] \in {"none", "resolve-deal"} =>
        \A u \in Users : participants[k][u].person = Null

(* ... and then a person comes with a sender that was confirmed to be it. *)
FoundWasConfirmed ==
    \A k \in Instances : step[k] \in {"participants", "extract", "propose"} =>
        \A u \in Users : participants[k][u].person # Null =>
            /\ u \in Senders[k]
            /\ participants[k][u].person \in confirmedDuring[k][u]

(* The inductive invariant. *)
WInv ==
    /\ DMP!IInv
    /\ OwnTypeOK
    /\ IdentityOK
    /\ ConfirmedPersonStays
    /\ ResolvesOwnChat
    /\ AnswerWasLive
    /\ PendingWasLive
    /\ NobodyYet
    /\ FoundWasConfirmed

(* It holds at the beginning. *)
LEMMA InitWInv == Init => WInv
<1> SUFFICES ASSUME Init PROVE WInv
  OBVIOUS
<1>1. DMP!IInv
  BY DealInv
<1>2. OwnTypeOK /\ IdentityOK /\ ConfirmedPersonStays
  BY DEF Init, OwnTypeOK, IdentityOK, ConfirmedPersonStays, ID!ConfirmedPersonStays, ID!Init,
         ID!TypeOK, ID!Nobody, ID!NoIdentity, ID!Identities, NoPersons, Steps
<1>3. ResolvesOwnChat
  BY DEF Init, ResolvesOwnChat, DM!Init
<1>4. AnswerWasLive /\ PendingWasLive
  BY DEF Init, AnswerWasLive, PendingWasLive
<1>5. NobodyYet /\ FoundWasConfirmed
  BY DEF Init, NobodyYet, FoundWasConfirmed, ID!Init, ID!Nobody, ID!NoIdentity
<1> QED
  BY <1>1, <1>2, <1>3, <1>4, <1>5 DEF WInv

(* The history of a workflow that runs grows, and has what is confirmed. *)
LEMMA WitnessGrows ==
    ASSUME Witness, NEW k \in Instances, step'[k] \in Steps
    PROVE  /\ liveDuring[k] \subseteq liveDuring'[k]
           /\ dealMap'[ChatOf[k]].status = "confirmed" =>
                  dealMap'[ChatOf[k]].deal \in liveDuring'[k]
           /\ \A u \in Users :
                  /\ confirmedDuring[k][u] \subseteq confirmedDuring'[k][u]
                  /\ identity'[u].status = "confirmed" =>
                         identity'[u].person \in confirmedDuring'[k][u]
  BY DEF Witness, live

(* The history is of deals and of persons. *)
LEMMA WitnessType ==
    ASSUME Witness, DMP!IInv', IdentityOK', OwnTypeOK
    PROVE  /\ liveDuring' \in [Instances -> SUBSET Deals]
           /\ confirmedDuring' \in [Instances -> [Users -> SUBSET Persons]]
<1>1. ASSUME NEW k \in Instances, dealMap'[ChatOf[k]].status = "confirmed"
      PROVE  dealMap'[ChatOf[k]].deal \in Deals
  <2>1. ChatOf[k] \in Chats
    BY WorkflowAssumption
  <2>2. dealMap'[ChatOf[k]].deal # Null /\ dealMap'[ChatOf[k]] \in DMP!Rows
    BY <1>1, <2>1 DEF DMP!IInv, DMP!TypeOK, DMP!TargetIffConfirmed
  <2> QED
    BY <2>2 DEF DMP!Rows
<1>2. ASSUME NEW k \in Instances PROVE {row.deal : row \in live(k)'} \subseteq Deals
  BY <1>1, <1>2 DEF live
<1>3. liveDuring' \in [Instances -> SUBSET Deals]
  BY <1>2 DEF Witness, OwnTypeOK
<1>4. ASSUME NEW u \in Users
      PROVE  {row.person : row \in {x \in {identity'[u]} : x.status = "confirmed"}} \subseteq Persons
  BY <1>4 DEF IdentityOK
<1>5. confirmedDuring' \in [Instances -> [Users -> SUBSET Persons]]
  <2>1. NoPersons \in [Users -> SUBSET Persons]
    BY DEF NoPersons
  <2> QED
    BY <1>4, <2>1 DEF Witness, OwnTypeOK
<1> QED
  BY <1>3, <1>5

(* Every step keeps the invariant. *)
LEMMA NextWInv == WInv /\ [Next]_vars => WInv'
<1> SUFFICES ASSUME WInv, [Next]_vars PROVE WInv'
  OBVIOUS
<1>1. DMP!IInv'
  BY DealInv DEF WInv
<1>2. CASE UNCHANGED vars
  <2>1. UNCHANGED <<dealMap, pc, chat, match, answer, identity, recording, participants, decided,
                    step, record, proposals, liveDuring, confirmedDuring>>
    BY <1>2 DEF vars, deal, people, own, history
  <2>2. OwnTypeOK' /\ IdentityOK' /\ ConfirmedPersonStays'
    BY <2>1 DEF WInv, OwnTypeOK, IdentityOK, ConfirmedPersonStays, ID!ConfirmedPersonStays, ID!TypeOK
  <2>3. ResolvesOwnChat' /\ AnswerWasLive' /\ PendingWasLive' /\ NobodyYet' /\ FoundWasConfirmed'
    BY <2>1 DEF WInv, ResolvesOwnChat, AnswerWasLive, PendingWasLive, NobodyYet, FoundWasConfirmed
  <2> QED
    BY <1>1, <2>2, <2>3 DEF WInv
<1>3. CASE Next
  <2>0. Witness
    BY <1>3 DEF Next
  <2>1. \A k \in Instances : step'[k] \in Steps =>
           /\ liveDuring[k] \subseteq liveDuring'[k]
           /\ dealMap'[ChatOf[k]].status = "confirmed" =>
                  dealMap'[ChatOf[k]].deal \in liveDuring'[k]
           /\ \A u \in Users :
                  /\ confirmedDuring[k][u] \subseteq confirmedDuring'[k][u]
                  /\ identity'[u].status = "confirmed" =>
                         identity'[u].person \in confirmedDuring'[k][u]
    BY <2>0, WitnessGrows
  <2> DEFINE People_ == IdentityOK' /\ ConfirmedPersonStays' /\ ID!TypeOK'
             Own_ == /\ step' \in [Instances -> Steps \cup {"none", "done", "errored"}]
                     /\ record' \in [Instances -> Deals \cup {Null}]
                     /\ proposals' \subseteq Rows
             Passed_ == /\ ResolvesOwnChat' /\ AnswerWasLive' /\ PendingWasLive'
                        /\ NobodyYet' /\ FoundWasConfirmed'
  <2>2. SUFFICES People_ /\ Own_ /\ Passed_
    <3>1. IdentityOK' /\ ConfirmedPersonStays' /\ Passed_
      BY <2>2
    <3>2. OwnTypeOK'
      BY <2>0, <2>2, <1>1, WitnessType DEF OwnTypeOK, WInv
    <3> QED
      BY <1>1, <3>1, <3>2 DEF WInv
  <2>3. ASSUME UNCHANGED people PROVE People_
    BY <2>3 DEF people, WInv, OwnTypeOK, IdentityOK, ConfirmedPersonStays, ID!ConfirmedPersonStays,
                ID!TypeOK
  <2>4. ASSUME NEW k \in Instances, Start(k) PROVE People_ /\ Own_ /\ Passed_
    <3>1. UNCHANGED <<pc, chat, answer, participants, record, proposals>>
      BY <2>4 DEF Start, deal, people, own
    <3>2. step' = [step EXCEPT ![k] = "resolve-deal"] /\ step[k] = "none"
      BY <2>4 DEF Start, goto
    <3>3. People_
      BY <2>3, <2>4 DEF Start
    <3>4. Own_
      BY <3>1, <3>2 DEF WInv, OwnTypeOK, Steps
    <3>5. ResolvesOwnChat' /\ NobodyYet'
      BY <3>1, <3>2 DEF WInv, OwnTypeOK, ResolvesOwnChat, NobodyYet
    <3>6. AnswerWasLive' /\ PendingWasLive' /\ FoundWasConfirmed'
      BY <2>1, <3>1, <3>2
      DEF WInv, OwnTypeOK, AnswerWasLive, PendingWasLive, FoundWasConfirmed, Steps
    <3> QED
      BY <3>3, <3>4, <3>5, <3>6
  <2>5. ASSUME NEW k \in Instances, ExtractThread(k) PROVE People_ /\ Own_ /\ Passed_
    <3>1. UNCHANGED <<pc, chat, answer, participants, proposals>>
      BY <2>5 DEF ExtractThread, deal, people
    <3>2. People_
      BY <2>3, <2>5 DEF ExtractThread
    <3>3. CASE again(k) /\ UNCHANGED record
      <4>1. step' = step \/ step' = [step EXCEPT ![k] = "errored"]
        BY <3>3 DEF again, goto
      <4>2. Own_
        BY <3>1, <3>3, <4>1 DEF WInv, OwnTypeOK
      <4>3. ResolvesOwnChat' /\ NobodyYet'
        BY <2>5, <3>1, <4>1 DEF ExtractThread, WInv, OwnTypeOK, ResolvesOwnChat, NobodyYet
      <4>4. AnswerWasLive' /\ PendingWasLive' /\ FoundWasConfirmed'
        BY <2>1, <3>1, <3>3, <4>1
        DEF WInv, OwnTypeOK, AnswerWasLive, PendingWasLive, FoundWasConfirmed, Steps
      <4> QED
        BY <3>2, <4>2, <4>3, <4>4
    <3>4. ASSUME NEW guess \in Deals \cup {Null},
                 record' = [record EXCEPT ![k] = trustedDealId(k, guess)], goto(k, "propose")
          PROVE  People_ /\ Own_ /\ Passed_
      <4>1. step' = [step EXCEPT ![k] = "propose"] /\ step[k] = "extract"
        BY <2>5, <3>4 DEF ExtractThread, goto
      <4>2. /\ record'[k] # Null => record'[k] = answer[k].deal /\ answer[k].status = "confirmed"
            /\ record'[k] \in Deals \cup {Null}
        BY <3>4 DEF trustedDealId, WInv, OwnTypeOK, DMP!IInv, DMP!TypeOK, DMP!Rows
      <4>3. Own_
        BY <3>1, <3>4, <4>1, <4>2 DEF WInv, OwnTypeOK, Steps
      <4>4. ResolvesOwnChat' /\ NobodyYet' /\ AnswerWasLive' /\ FoundWasConfirmed'
        BY <2>1, <3>1, <4>1
        DEF WInv, OwnTypeOK, ResolvesOwnChat, NobodyYet, AnswerWasLive, FoundWasConfirmed, Steps
      <4>5. PendingWasLive'
        BY <2>1, <3>4, <4>1, <4>2 DEF WInv, OwnTypeOK, AnswerWasLive, PendingWasLive, Steps
      <4> QED
        BY <3>2, <4>3, <4>4, <4>5
    <3> QED
      BY <2>5, <3>3, <3>4 DEF ExtractThread
  <2>6. ASSUME NEW k \in Instances, Propose(k) PROVE People_ /\ Own_ /\ Passed_
    <3>1. UNCHANGED <<pc, chat, answer, participants, record>>
      BY <2>6 DEF Propose, deal, people
    <3>2. step[k] = "propose" /\ \E s \in {"propose", "done", "errored"} : step' = [step EXCEPT ![k] = s]
      BY <2>6 DEF Propose, again, goto, WInv, OwnTypeOK
    <3>3. People_
      BY <2>3, <2>6 DEF Propose
    <3>4. proposals' \subseteq Rows
      <4> DEFINE p == [instance |-> k, record |-> record[k],
                       persons |-> [u \in Users |-> participants[k][u].person]]
      <4>1. participants[k] \in [Users -> ID!Identities]
        BY DEF WInv, OwnTypeOK, ID!TypeOK
      <4>2. [u \in Users |-> participants[k][u].person] \in [Users -> Persons \cup {Null}]
        BY <4>1 DEF ID!Identities
      <4>3. p \in Rows
        BY <4>2 DEF WInv, OwnTypeOK, Rows
      <4>4. proposals' = proposals \cup {p} \/ proposals' = proposals
        BY <2>6 DEF Propose
      <4> QED
        BY <4>3, <4>4 DEF WInv, OwnTypeOK
    <3>5. Own_
      BY <3>1, <3>2, <3>4 DEF WInv, OwnTypeOK
    <3>6. ResolvesOwnChat' /\ NobodyYet'
      BY <3>1, <3>2 DEF WInv, OwnTypeOK, ResolvesOwnChat, NobodyYet
    <3>7. AnswerWasLive' /\ PendingWasLive' /\ FoundWasConfirmed'
      BY <2>1, <3>1, <3>2
      DEF WInv, OwnTypeOK, AnswerWasLive, PendingWasLive, FoundWasConfirmed, Steps
    <3> QED
      BY <3>3, <3>5, <3>6, <3>7
  <2>7. ASSUME NEW k \in Instances, ResolveDeal(k) PROVE People_ /\ Own_ /\ Passed_
    <3>1. UNCHANGED <<participants, record, proposals>> /\ People_ /\ step[k] = "resolve-deal"
      BY <2>3, <2>7 DEF ResolveDeal, people, own
    <3>2. \E s \in {"resolve-deal", "participants", "errored"} : step' = [step EXCEPT ![k] = s]
      BY <2>7 DEF ResolveDeal, again, goto, WInv, OwnTypeOK
    <3>3. Own_
      BY <3>1, <3>2 DEF WInv, OwnTypeOK, Steps
    <3>4. NobodyYet' /\ PendingWasLive'
      BY <2>1, <3>1, <3>2 DEF WInv, OwnTypeOK, NobodyYet, PendingWasLive, Steps
    <3>5. FoundWasConfirmed'
      BY <2>1, <3>1, <3>2 DEF WInv, OwnTypeOK, NobodyYet, FoundWasConfirmed, Steps
    <3>6. \A j \in Instances \ {k} : /\ pc'[j] = pc[j] /\ chat'[j] = chat[j]
                                     /\ answer'[j] = answer[j] /\ step'[j] = step[j]
      BY <2>7, <3>2
      DEF ResolveDeal, DM!Begin, DM!ListDeals, DM!Fail, DM!Upsert, DM!AnswerConfirmed,
          WInv, OwnTypeOK, DMP!IInv, DMP!TypeOK
    <3>7. pc'[k] # "idle" => chat'[k] = ChatOf[k] /\ step'[k] = "resolve-deal"
      BY <2>7, <3>1
      DEF ResolveDeal, DM!Begin, DM!ListDeals, DM!Fail, DM!Upsert, DM!AnswerConfirmed,
          WInv, OwnTypeOK, DMP!IInv, DMP!TypeOK, ResolvesOwnChat
    <3>8. step'[k] = "participants" /\ answer'[k].status = "confirmed" =>
             /\ dealMap'[ChatOf[k]].status = "confirmed"
             /\ dealMap'[ChatOf[k]].deal = answer'[k].deal
      <4>1. ChatOf[k] \in Chats
        BY WorkflowAssumption
      <4>2. CASE DM!AnswerConfirmed(k, ChatOf[k])
        BY <4>1, <4>2 DEF DM!AnswerConfirmed, WInv, DMP!IInv, DMP!TypeOK
      <4>3. CASE DM!Upsert(k, TRUE)
        <5>1. chat[k] = ChatOf[k]
          BY <4>3 DEF DM!Upsert, WInv, ResolvesOwnChat
        <5> QED
          BY <4>1, <4>3, <5>1 DEF DM!Upsert, DM!upsertDealMap, WInv, DMP!IInv, DMP!TypeOK
      <4>4. CASE step'[k] # "participants"
        BY <4>4
      <4> QED
        BY <2>7, <3>1, <4>2, <4>3, <4>4 DEF ResolveDeal, again, goto, WInv, OwnTypeOK
    <3>9. ResolvesOwnChat'
      BY <3>6, <3>7 DEF WInv, ResolvesOwnChat
    <3>10. AnswerWasLive'
      BY <2>1, <3>2, <3>6, <3>8 DEF WInv, OwnTypeOK, AnswerWasLive, Steps
    <3> QED
      BY <3>1, <3>3, <3>4, <3>5, <3>9, <3>10
  <2>8. ASSUME NEW k \in Instances, ResolveParticipants(k) PROVE People_ /\ Own_ /\ Passed_
    <3>1. UNCHANGED <<pc, chat, answer, record, proposals>> /\ step[k] = "participants"
      BY <2>8 DEF ResolveParticipants, deal, own
    <3>2. \E s \in {"participants", "extract", "errored"} : step' = [step EXCEPT ![k] = s]
      BY <2>8, <3>1 DEF ResolveParticipants, again, goto, WInv, OwnTypeOK
    <3>3. Own_
      BY <3>1, <3>2 DEF WInv, OwnTypeOK, Steps
    <3>4. ResolvesOwnChat' /\ AnswerWasLive' /\ PendingWasLive'
      BY <2>1, <3>1, <3>2
      DEF WInv, OwnTypeOK, ResolvesOwnChat, AnswerWasLive, PendingWasLive, Steps
    <3>5. \/ ID!left(k) = {} /\ UNCHANGED people
          \/ \E u \in Users : ID!Find(k, u) \/ ID!Miss(k, u)
          \/ ID!Record(k)
          \/ ID!Abort(k)
      BY <2>8 DEF ResolveParticipants
    <3>6. /\ UNCHANGED decided
          /\ \/ UNCHANGED identity
             \/ /\ recording[k] # Null
                /\ identity' = [identity EXCEPT ![recording[k]] =
                                   ID!upsertIdentity(@, ID!unmatched)]
      BY <3>5 DEF people, ID!Find, ID!Miss, ID!Record, ID!Abort
    <3>7. /\ recording' \in [Instances -> Users \cup {Null}]
          /\ participants' \in [Instances -> [Users -> ID!Identities]]
      <4>1. ID!TypeOK
        BY DEF WInv, OwnTypeOK
      <4>2. \A row \in ID!Identities : ID!participant(row) \in ID!Identities
        BY DEF ID!participant, ID!Identities
      <4>3. ID!unmatched \in ID!Identities /\ ID!Nobody \in [Users -> ID!Identities]
        BY DEF ID!unmatched, ID!Nobody, ID!NoIdentity, ID!Identities
      <4>4. CASE \E u \in Users : ID!Find(k, u) \/ ID!Miss(k, u)
        <5>1. ASSUME NEW u \in Users, ID!Find(k, u)
              PROVE  UNCHANGED recording /\ participants' \in [Instances -> [Users -> ID!Identities]]
          <6>1. ID!participant(identity[u]) \in ID!Identities
            BY <4>1, <4>2 DEF ID!TypeOK
          <6> QED
            BY <4>1, <5>1, <6>1 DEF ID!Find, ID!TypeOK
        <5>2. ASSUME NEW u \in Users, ID!Miss(k, u)
              PROVE  recording' = [recording EXCEPT ![k] = u] /\ UNCHANGED participants
          BY <5>2 DEF ID!Miss
        <5> QED
          BY <4>1, <4>4, <5>1, <5>2 DEF ID!TypeOK
      <4>5. CASE ID!Record(k)
        BY <4>1, <4>3, <4>5 DEF ID!Record, ID!TypeOK
      <4>6. CASE ID!Abort(k)
        BY <4>1, <4>3, <4>6 DEF ID!Abort, ID!TypeOK
      <4> QED
        BY <3>5, <4>1, <4>4, <4>5, <4>6 DEF people, ID!TypeOK
    <3>8. \A u \in Users : identity'[u] = identity[u] \/ (identity[u].status # "confirmed" /\ identity'[u] = ID!unmatched)
      BY <3>6 DEF ID!upsertIdentity, ID!unmatched, WInv, OwnTypeOK, ID!TypeOK
    <3>9. People_
      <4>1. identity' \in [Users -> ID!Identities]
        <5>1. \A old \in ID!Identities : ID!upsertIdentity(old, ID!unmatched) \in ID!Identities
          BY DEF ID!upsertIdentity, ID!unmatched, ID!Identities
        <5> QED
          BY <3>6, <5>1 DEF WInv, OwnTypeOK, ID!TypeOK
      <4>2. IdentityOK' /\ ConfirmedPersonStays'
        BY <3>6, <3>8 DEF WInv, IdentityOK, ConfirmedPersonStays, ID!ConfirmedPersonStays, ID!unmatched
      <4> QED
        BY <3>6, <3>7, <4>1, <4>2 DEF WInv, OwnTypeOK, ID!TypeOK
    <3>10. \A j \in Instances, u \in Users :
              \/ participants'[j][u] = participants[j][u]
              \/ participants'[j][u].person = Null
              \/ /\ j = k /\ u \in Senders[k]
                 /\ identity'[u].status = "confirmed"
                 /\ participants'[j][u].person = identity'[u].person
      BY <3>5 DEF people, ID!Find, ID!Miss, ID!Record, ID!Abort, ID!left, WInv, OwnTypeOK, ID!TypeOK, ID!Identities,
          ID!participant, ID!unmatched, ID!Nobody, ID!NoIdentity
    <3>11. NobodyYet'
      BY <3>1, <3>2, <3>10 DEF WInv, OwnTypeOK, NobodyYet
    <3>12. FoundWasConfirmed'
      <4> SUFFICES ASSUME NEW j \in Instances, step'[j] \in {"participants", "extract", "propose"},
                          NEW u \in Users, participants'[j][u].person # Null
                   PROVE  /\ u \in Senders[j]
                          /\ participants'[j][u].person \in confirmedDuring'[j][u]
        BY DEF FoundWasConfirmed
      <4>1. step[j] \in {"participants", "extract", "propose"}
        BY <3>1, <3>2 DEF WInv, OwnTypeOK
      <4>2. /\ confirmedDuring[j][u] \subseteq confirmedDuring'[j][u]
            /\ identity'[u].status = "confirmed" =>
                   identity'[u].person \in confirmedDuring'[j][u]
        BY <2>1 DEF Steps
      <4>3. CASE participants'[j][u] = participants[j][u]
        BY <4>1, <4>2, <4>3 DEF WInv, FoundWasConfirmed
      <4> QED
        BY <3>10, <4>2, <4>3
    <3> QED
      BY <3>3, <3>4, <3>9, <3>11, <3>12
  <2>9. CASE People
    <3>1. UNCHANGED <<pc, chat, answer, step, record, proposals, participants>>
      BY <2>9 DEF People, DM!LinkDeal, DM!Rename, DM!run, deal, own, people, ID!Decide, ID!confirmIdentity,
                  ID!rejectIdentity, ID!decide
    <3>2. Own_ /\ Passed_
      BY <2>1, <3>1 DEF WInv, OwnTypeOK, ResolvesOwnChat, AnswerWasLive, PendingWasLive, NobodyYet,
                        FoundWasConfirmed, Steps
    <3>3. ASSUME NEW u \in Users, NEW new \in ID!Identities, ID!decide(u, new),
                 new.status = "rejected" \/ (new.status = "confirmed" /\ new.person \in Persons)
          PROVE  People_
      <4>1. /\ identity' = [identity EXCEPT ![u] = new]
            /\ decided' = [decided EXCEPT ![u] = new]
            /\ UNCHANGED <<recording, participants>>
        BY <3>3 DEF ID!decide, ID!upsertIdentity
      <4> QED
        BY <3>3, <4>1 DEF WInv, OwnTypeOK, ID!TypeOK, IdentityOK, ConfirmedPersonStays,
                          ID!ConfirmedPersonStays
    <3>4. ASSUME NEW u \in Users, ID!Decide(u) PROVE People_
      <4>1. identity[u].person \in Persons \cup {Null}
        BY DEF WInv, OwnTypeOK, ID!TypeOK, ID!Identities
      <4>2. ASSUME NEW x \in Persons, ID!confirmIdentity(u, x) PROVE People_
        BY <3>3, <4>2 DEF ID!confirmIdentity, ID!Identities
      <4>3. ASSUME NEW x \in {Null, identity[u].person}, ID!rejectIdentity(u, x) PROVE People_
        BY <3>3, <4>1, <4>3 DEF ID!rejectIdentity, ID!Identities
      <4> QED
        BY <3>4, <4>2, <4>3 DEF ID!Decide
    <3> QED
      BY <2>3, <2>9, <3>2, <3>4 DEF People
  <2> QED
    BY <1>3, <2>4, <2>5, <2>6, <2>7, <2>8, <2>9 DEF Next
<1> QED
  BY <1>2, <1>3

-----------------------------------------------------------------------------
(* Theorems                                                                *)

LEMMA Invariance == Spec => []WInv
  BY InitWInv, NextWInv, PTL DEF Spec

(* The type invariant, of the workflows and of the stores they share. *)
THEOREM TypeCorrect == Spec => []TypeOK
<1>1. WInv => TypeOK
  BY SameType DEF WInv, OwnTypeOK, TypeOK, DMP!IInv
<1> QED
  BY <1>1, Invariance, PTL

(* What a human confirmed stays, though a workflow that missed the row     *)
(* records its sender as unmatched later (upsertIdentity).                 *)
THEOREM ConfirmedPersonsStay == Spec => []ConfirmedPersonStays
<1>1. WInv => ConfirmedPersonStays
  BY DEF WInv
<1> QED
  BY <1>1, Invariance, PTL

(* The one row that a step may insert. *)
LEMMA NewRow ==
    ASSUME WInv, Next, NEW p \in proposals' \ proposals
    PROVE  /\ p.instance \in Instances
           /\ step[p.instance] = "propose"
           /\ p.record = record[p.instance]
           /\ \A u \in Users : p.persons[u] = participants[p.instance][u].person
<1>1. PICK k \in Instances : Propose(k)
  BY DEF Next, Start, ResolveDeal, ResolveParticipants, ExtractThread, People, own
<1>2. p = [instance |-> k, record |-> record[k],
           persons |-> [u \in Users |-> participants[k][u].person]]
  BY <1>1 DEF Propose
<1> QED
  BY <1>1, <1>2 DEF Propose

(* A proposal's record id is a deal that its chat was confirmed to have    *)
(* while the workflow ran.                                                 *)
THEOREM RecordsWereLive == Spec => RecordWasLive
<1>1. WInv /\ [Next]_vars =>
        [\A p \in proposals' \ proposals : p.record # Null => p.record \in liveDuring[p.instance]]_vars
  BY NewRow DEF WInv, PendingWasLive
<1> QED
  BY <1>1, Invariance, PTL DEF Spec, RecordWasLive

(* The persons of a proposal were each confirmed to be that sender while   *)
(* the workflow ran.                                                       *)
THEOREM PersonsWereConfirmed == Spec => PersonWasConfirmed
<1>1. WInv /\ [Next]_vars =>
        [\A p \in proposals' \ proposals : \A u \in Users :
             p.persons[u] # Null => /\ u \in Senders[p.instance]
                                    /\ p.persons[u] \in confirmedDuring[p.instance][u]]_vars
  BY NewRow DEF WInv, FoundWasConfirmed
<1> QED
  BY <1>1, Invariance, PTL DEF Spec, PersonWasConfirmed

===============================================================================
