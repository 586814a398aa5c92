------------------------------ MODULE ApplyProofs ------------------------------
(***************************************************************************)
(* Proofs about Apply, for every value of its constants: any number of     *)
(* overlapping runs, any proposals, chats and deals, any batch limit, any  *)
(* faults.                                                                 *)
(*                                                                         *)
(* TypeOK is not inductive: WriteBack stores the status a run remembers,   *)
(* and only RunOK says that this is one of "pending" and "approved".       *)
(* RunOK carries, from step to step of applyDeal and applyPerson, what the *)
(* run has achieved so far: a note on its target once it is past the note, *)
(* the whole write part once it is past the patch without a soft error.    *)
(*                                                                         *)
(* On it rest the refinement of Lifecycle, with LInv, which knows what of  *)
(* the things a run read long ago still stands, and what holds when no two *)
(* runs overlap (Alone, Settled).                                          *)
(***************************************************************************)
EXTENDS Apply, FunctionTheorems, FiniteSetTheorems, TLAPS

DealPoints == {"note", "patch", "readContacts", "patchContacts"}

AfterNote == {"patch", "readContacts", "patchContacts", "mark"}

AfterPatch == {"readContacts", "patchContacts", "mark"}

isDeal(p) == Prop[p].object = "deals"

Busy(r) == pc[r] \notin {"idle", "listPending", "loop"}

(* What is true of run r between two of its awaits. *)
RunOK(r) ==
    /\ Busy(r) => cur[r] \in Proposals /\ todo[r][cur[r]] \in {"pending", "approved"}
    /\ pc[r] \in DealPoints =>
           /\ isDeal(cur[r])
           /\ target[r] \in Deals
           /\ target[r] \in liveDuring[r][Prop[cur[r]].chat]
    /\ pc[r] = "personNote" => target[r] \in Persons
    /\ pc[r] \in {"assert", "personNote"} => ~ isDeal(cur[r])
    /\ pc[r] \in AfterNote =>
           /\ target[r] \in Records
           /\ notes[cur[r]][target[r]] > 0
    /\ pc[r] \in AfterPatch /\ isDeal(cur[r]) =>
           /\ target[r] \in Deals
           /\ softError[r] \/ written(cur[r]) \subseteq fields[cur[r]][target[r]]
    /\ pc[r] # "idle" => \A c \in Chats : liveNow[c] \subseteq liveDuring[r][c]

(* The inductive invariant. *)
IInv ==
    /\ TypeOK
    /\ \A r \in Runs : RunOK(r)
    /\ DealWriteHasNote
    /\ AppliedHasNote
    /\ CleanApplyIsComplete

-----------------------------------------------------------------------------
(* The write part of a proposal names Attio attributes only                *)
(* (partitionDealChanges keys it by the range of the field map).           *)
LEMMA WrittenType == ASSUME NEW p \in Proposals
                     PROVE  written(p) \subseteq AttioSlugs
<1>1. Prop[p].changes \subseteq Slugs
  BY ProposalAssumption DEF Columns
<1> QED
  BY <1>1, SlugAssumption DEF written, partitionDealChanges, mapped

(* What a proposal's write target can be; for a deal proposal it is a deal *)
(* of deal_map or nothing (withEffectiveTarget).                           *)
LEMMA TargetType == ASSUME TypeOK, NEW p \in Proposals
                    PROVE  /\ withEffectiveTarget(p) \in Records \cup {Null}
                           /\ isDeal(p) => /\ Prop[p].chat \in Chats
                                           /\ withEffectiveTarget(p) = liveDeal[Prop[p].chat]
                                           /\ withEffectiveTarget(p) \in Deals \cup {Null}
<1>1. Prop[p].record \in Records \cup {Null}
  BY ProposalAssumption DEF Columns
<1>2. isDeal(p) => Prop[p].chat \in Chats /\ Prop[p].chat # Null
  BY ProposalAssumption, NullAssumption DEF isDeal
<1>3. \A c \in Chats : liveDeal[c] \in Deals \cup {Null}
  BY DEF TypeOK
<1>4. CASE isDeal(p)
  BY <1>2, <1>3, <1>4 DEF withEffectiveTarget, isDeal, Records
<1>5. CASE ~ isDeal(p)
  BY <1>1, <1>5 DEF withEffectiveTarget, isDeal
<1> QED
  BY <1>4, <1>5

(* A note is added: the counters stay in range and none goes back to zero. *)
LEMMA NoteGrows == ASSUME TypeOK, NEW p \in Proposals, NEW rec \in Records, createNote(p, rec)
                   PROVE  /\ notes' \in [Proposals -> [Records -> 0..NoteCap]]
                          /\ notes'[p][rec] > 0
                          /\ \A q \in Proposals, x \in Records :
                                 notes[q][x] > 0 => notes'[q][x] > 0
<1>1. /\ notes \in [Proposals -> [Records -> 0..2]]
      /\ notes' = [notes EXCEPT ![p] = [notes[p] EXCEPT ![rec] = more(notes[p][rec])]]
  BY DEF TypeOK, NoteCap, createNote
<1>2. \A n \in 0..2 : more(n) \in 0..2 /\ more(n) > 0
  BY DEF more, NoteCap
<1>3. [notes[p] EXCEPT ![rec] = more(notes[p][rec])] \in [Records -> 0..2]
  BY <1>1, <1>2
<1>4. notes' \in [Proposals -> [Records -> 0..2]]
  BY <1>1, <1>3
<1>5. notes'[p][rec] > 0
  BY <1>1, <1>2
<1>6. ASSUME NEW q \in Proposals, NEW x \in Records, notes[q][x] > 0 PROVE notes'[q][x] > 0
  BY <1>1, <1>2, <1>6
<1> QED
  BY <1>4, <1>5, <1>6 DEF NoteCap

(* A field write adds the proposal's write part to what it wrote.          *)
LEMMA FieldsGrow == ASSUME TypeOK, NEW p \in Proposals, NEW d \in Deals, patchFields(p, d)
                    PROVE  /\ fields' \in [Proposals -> [Deals -> SUBSET AttioSlugs]]
                           /\ written(p) \subseteq fields'[p][d]
                           /\ \A q \in Proposals, x \in Deals :
                                  /\ fields[q][x] \subseteq fields'[q][x]
                                  /\ <<q, x>> # <<p, d>> => fields'[q][x] = fields[q][x]
<1>1. /\ fields \in [Proposals -> [Deals -> SUBSET AttioSlugs]]
      /\ fields' = [fields EXCEPT ![p] = [fields[p] EXCEPT ![d] = fields[p][d] \cup written(p)]]
  BY DEF TypeOK, patchFields
<1>2. fields[p][d] \cup written(p) \in SUBSET AttioSlugs
  BY <1>1, WrittenType
<1>3. [fields[p] EXCEPT ![d] = fields[p][d] \cup written(p)] \in [Deals -> SUBSET AttioSlugs]
  BY <1>1, <1>2
<1>4. fields' \in [Proposals -> [Deals -> SUBSET AttioSlugs]]
  BY <1>1, <1>3
<1>5. written(p) \subseteq fields'[p][d]
  BY <1>1
<1>6. ASSUME NEW q \in Proposals, NEW x \in Deals
      PROVE  /\ fields[q][x] \subseteq fields'[q][x]
             /\ <<q, x>> # <<p, d>> => fields'[q][x] = fields[q][x]
  BY <1>1
<1> QED
  BY <1>4, <1>5, <1>6

(* What one turn of the loop leaves in the run's locals.                   *)
LEMMA ConsiderTypes ==
    ASSUME TypeOK, NEW r \in Runs, Consider(r)
    PROVE  /\ pc' \in [Runs -> Points]
           /\ todo' \in [Runs -> [Proposals -> {"no", "pending", "approved"}]]
           /\ cur' \in [Runs -> Proposals \cup {Null}]
           /\ target' \in [Runs -> Records \cup {Null}]
<1>1. /\ pc \in [Runs -> Points]
      /\ todo \in [Runs -> [Proposals -> {"no", "pending", "approved"}]]
      /\ cur \in [Runs -> Proposals \cup {Null}]
      /\ target \in [Runs -> Records \cup {Null}]
  BY DEF TypeOK
<1>2. PICK p \in Proposals :
        \/ pc' = pc /\ cur' = cur /\ target' = target /\ todo' = [todo EXCEPT ![r][p] = "no"]
        \/ /\ pc' = [pc EXCEPT ![r] = "block"]
           /\ cur' = [cur EXCEPT ![r] = p]
           /\ todo' = todo /\ target' = target
        \/ /\ pc' = [pc EXCEPT ![r] = IF Prop[p].object = "deals" THEN "note" ELSE "assert"]
           /\ cur' = [cur EXCEPT ![r] = p]
           /\ target' = [target EXCEPT ![r] = withEffectiveTarget(p)]
           /\ todo' = todo
  BY DEF Consider, goto
<1>3. pc' \in [Runs -> Points]
  BY <1>1, <1>2 DEF Points
<1>4. cur' \in [Runs -> Proposals \cup {Null}]
  BY <1>1, <1>2
<1>5. target' \in [Runs -> Records \cup {Null}]
  BY <1>1, <1>2, TargetType
<1>6. todo' \in [Runs -> [Proposals -> {"no", "pending", "approved"}]]
  <2>1. CASE todo' = [todo EXCEPT ![r][p] = "no"]
    <3>1. todo' = [todo EXCEPT ![r] = [todo[r] EXCEPT ![p] = "no"]]
      BY <2>1
    <3>2. [todo[r] EXCEPT ![p] = "no"] \in [Proposals -> {"no", "pending", "approved"}]
      BY <1>1
    <3> QED
      BY <1>1, <3>1, <3>2
  <2>2. CASE todo' = todo
    BY <1>1, <2>2
  <2> QED
    BY <1>2, <2>1, <2>2
<1> QED
  BY <1>3, <1>4, <1>5, <1>6

(* Writing a person to Attio, whether or not the reply arrives.            *)
LEMMA AssertTypes ==
    ASSUME TypeOK, NEW p \in Proposals, NEW x \in Persons, assertRecord(p, x)
    PROVE  asserted' \in [Proposals -> SUBSET Persons]
<1>1. asserted \in [Proposals -> SUBSET Persons]
  BY DEF TypeOK
<1> QED
  BY <1>1 DEF assertRecord

(* The initial state satisfies the inductive invariant.                    *)
LEMMA InitIInv == Init => IInv
<1> SUFFICES ASSUME Init PROVE IInv
  OBVIOUS
<1>1. TypeOK
  BY BoundAssumption DEF Init, TypeOK, RowStatuses, Statuses, Errors, Points, NoteCap, NoWork, NoDeals
<1>2. \A r \in Runs : RunOK(r)
  BY DEF Init, RunOK, Busy, DealPoints, AfterNote, AfterPatch
<1>3. DealWriteHasNote /\ AppliedHasNote /\ CleanApplyIsComplete
  BY DEF Init, DealWriteHasNote, AppliedHasNote, CleanApplyIsComplete
<1> QED
  BY <1>1, <1>2, <1>3 DEF IInv

(* Every step keeps the types, given what RunOK knows of the locals.       *)
LEMMA TypeStep == IInv /\ [Next]_vars => TypeOK'
<1> SUFFICES ASSUME TypeOK, \A r \in Runs : RunOK(r), [Next]_vars PROVE TypeOK'
  BY DEF IInv
<1> USE DEF TypeOK, RowStatuses, Statuses, Errors, Points, NoteCap
<1>1. ASSUME NEW r \in Runs, Step(r) PROVE TypeOK'
  <2>1. CASE ListApproved(r)
    BY <2>1 DEF ListApproved, goto, liveNow, d1, attio
  <2>2. CASE ListPending(r)
    BY <2>2 DEF ListPending, goto, d1, attio, history
  <2>3. CASE Consider(r)
    BY <2>3, ConsiderTypes DEF Consider, d1, attio, history
  <2>4. CASE EndRun(r)
    BY <2>4 DEF EndRun, NoDeals, goto, d1, attio
  <2>5. CASE WriteBack(r)
    BY <2>5 DEF WriteBack, markStatus, next, goto, attio, history, RunOK, Busy
  <2>6. CASE CreateDealNote(r)
    <3>1. cur[r] \in Proposals /\ target[r] \in Records
      BY <2>6 DEF CreateDealNote, RunOK, Busy, DealPoints, Records
    <3>2. notes' \in [Proposals -> [Records -> 0..2]]
      BY <2>6, <3>1, NoteGrows DEF CreateDealNote
    <3> QED
      BY <2>6, <3>2 DEF CreateDealNote, goto, afterNote, afterPatch, d1, history
  <2>7. CASE PatchFields(r)
    <3>1. cur[r] \in Proposals /\ target[r] \in Deals
      BY <2>7 DEF PatchFields, RunOK, Busy, DealPoints
    <3>2. fields' \in [Proposals -> [Deals -> SUBSET AttioSlugs]]
      BY <2>7, <3>1, FieldsGrow DEF PatchFields
    <3> QED
      BY <2>7, <3>2 DEF PatchFields, goto, afterPatch, d1, history
  <2>8. CASE ReadContacts(r)
    BY <2>8 DEF ReadContacts, goto, d1, attio, history, RunOK, DealPoints
  <2>9. CASE PatchContacts(r)
    <3>1. merged(r) \subseteq Persons
      BY <2>9, ProposalAssumption DEF PatchContacts, merged, RunOK, Busy, Columns
    <3> QED
      BY <2>9, <3>1 DEF PatchContacts, patchContacts, goto, d1, history
  <2>10. CASE AssertPerson(r)
    <3>1. cur[r] \in Proposals /\ Prop[cur[r]].person \in Persons
      BY <2>10, ProposalAssumption DEF AssertPerson, RunOK, Busy, Columns
    <3> QED
      BY <2>10, <3>1, AssertTypes DEF AssertPerson, Records, goto, d1
  <2>11. CASE AssertPersonRefused(r)
    BY <2>11 DEF AssertPersonRefused, goto, d1, attio, history
  <2>12. CASE CreatePersonNote(r)
    <3>1. cur[r] \in Proposals /\ target[r] \in Records
      BY <2>12 DEF CreatePersonNote, RunOK, Busy, Records
    <3>2. notes' \in [Proposals -> [Records -> 0..2]]
      BY <2>12, <3>1, NoteGrows DEF CreatePersonNote
    <3> QED
      BY <2>12, <3>2 DEF CreatePersonNote, goto, d1, history
  <2>13. CASE MarkApplied(r)
    BY <2>13 DEF MarkApplied, markApplied, markStatus, next, goto, attio, history
  <2> QED
    BY <1>1, <2>1, <2>2, <2>3, <2>4, <2>5, <2>6, <2>7, <2>8, <2>9, <2>10, <2>11, <2>12,
       <2>13 DEF Step
<1>2. ASSUME NEW r \in Runs, Fault(r) PROVE TypeOK'
  <2>1. CASE CreateNoteFails(r)
    <3>1. cur[r] \in Proposals /\ target[r] \in Records
      BY <2>1 DEF CreateNoteFails, RunOK, Busy, DealPoints, Records
    <3>2. notes' \in [Proposals -> [Records -> 0..2]]
      BY <2>1, <3>1, NoteGrows DEF CreateNoteFails, callFails
    <3> QED
      BY <2>1, <3>2, BoundAssumption DEF CreateNoteFails, callFails, fault, goto, d1, history
  <2>2. CASE PatchFieldsFails(r)
    <3>1. cur[r] \in Proposals /\ target[r] \in Deals
      BY <2>2 DEF PatchFieldsFails, RunOK, Busy, DealPoints
    <3>2. fields' \in [Proposals -> [Deals -> SUBSET AttioSlugs]]
      BY <2>2, <3>1, FieldsGrow DEF PatchFieldsFails, callFails
    <3> QED
      BY <2>2, <3>2, BoundAssumption DEF PatchFieldsFails, callFails, fault, goto, afterPatch, d1, history
  <2>3. CASE ReadContactsFails(r)
    BY <2>3, BoundAssumption DEF ReadContactsFails, callFails, fault, goto, d1, attio, history
  <2>4. CASE PatchContactsFails(r)
    <3>1. merged(r) \subseteq Persons
      BY <2>4, ProposalAssumption DEF PatchContactsFails, merged, RunOK, Busy, Columns
    <3>2. contacts' \in [Deals -> SUBSET Persons]
      BY <2>4, <3>1 DEF PatchContactsFails, patchContacts, callFails
    <3>3. pc' \in [Runs -> Points] /\ faults' \in 0..MaxFaults
      BY <2>4, BoundAssumption DEF PatchContactsFails, callFails, fault, goto
    <3> QED
      BY <2>4, <3>2, <3>3 DEF PatchContactsFails, d1, history
  <2>5. CASE AssertPersonFails(r)
    <3>1. cur[r] \in Proposals /\ Prop[cur[r]].person \in Persons
      BY <2>5, ProposalAssumption DEF AssertPersonFails, RunOK, Busy, Columns
    <3>2. \/ assertRecord(cur[r], Prop[cur[r]].person)
          \/ asserted' = asserted
      BY <2>5 DEF AssertPersonFails, callFails
    <3>3. asserted' \in [Proposals -> SUBSET Persons]
      BY <3>1, <3>2, AssertTypes
    <3>4. pc' \in [Runs -> Points] /\ faults' \in 0..MaxFaults
      BY <2>5, BoundAssumption DEF AssertPersonFails, callFails, fault, goto
    <3> QED
      BY <2>5, <3>3, <3>4 DEF AssertPersonFails, d1
  <2>6. CASE Crash(r)
    BY <2>6, BoundAssumption DEF Crash, fault, NoWork, NoDeals, goto, d1, attio
  <2>7. CASE MarkAppliedFails(r)
    <3>1. cur[r] \in Proposals
      BY <2>7 DEF MarkAppliedFails, RunOK, Busy
    <3>2. status' \in [Proposals -> RowStatuses] /\ error' \in [Proposals -> Errors]
      BY <2>7, <3>1 DEF MarkAppliedFails, markApplied, markStatus, callFails
    <3>3. pc' \in [Runs -> Points] /\ faults' \in 0..MaxFaults
      BY <2>7, BoundAssumption DEF MarkAppliedFails, callFails, fault, goto
    <3> QED
      BY <2>7, <3>2, <3>3 DEF MarkAppliedFails, attio, history
  <2> QED
    BY <1>2, <2>1, <2>2, <2>3, <2>4, <2>5, <2>6, <2>7 DEF Fault
<1>3. ASSUME Environment PROVE TypeOK'
  <2>1. CASE \E p \in Proposals : Propose(p) \/ Approve(p) \/ Reject(p)
    BY <2>1 DEF Propose, Approve, Reject, attio, local, history
  <2>2. CASE \E c \in Chats, d \in Deals : LinkDeal(c, d)
    BY <2>2 DEF LinkDeal, NoDeals, attio, local
  <2>3. CASE \E d \in Deals, x \in Persons : AddContact(d, x)
    BY <2>3 DEF AddContact, d1, local, history
  <2> QED
    BY <1>3, <2>1, <2>2, <2>3 DEF Environment
<1>4. ASSUME UNCHANGED vars PROVE TypeOK'
  BY <1>4 DEF vars, d1, attio, local, history
<1> QED
  BY <1>1, <1>2, <1>3, <1>4 DEF Next

-----------------------------------------------------------------------------
(* The notes a step of a run adds are on the run's own proposal and        *)
(* target, and so are the fields it writes.                                *)
OwnNote(r) == pc[r] \in {"note", "personNote"} /\ createNote(cur[r], target[r])

OwnFields(r) == pc[r] = "patch" /\ patchFields(cur[r], target[r])

(* A run writes notes and fields only for the proposal it is at, on the    *)
(* deal it resolved, and only from the control points for that.            *)
LEMMA OwnWrites ==
    ASSUME NEW r \in Runs, Step(r) \/ Fault(r)
    PROVE  (UNCHANGED notes \/ OwnNote(r)) /\ (UNCHANGED fields \/ OwnFields(r))
<1>1. CASE ListApproved(r)
  BY <1>1 DEF ListApproved, attio
<1>2. CASE ListPending(r)
  BY <1>2 DEF ListPending, attio
<1>3. CASE Consider(r)
  BY <1>3 DEF Consider, attio
<1>4. CASE EndRun(r)
  BY <1>4 DEF EndRun, attio
<1>5. CASE WriteBack(r)
  BY <1>5 DEF WriteBack, attio
<1>6. CASE ReadContacts(r)
  BY <1>6 DEF ReadContacts, attio
<1>7. CASE AssertPersonRefused(r)
  BY <1>7 DEF AssertPersonRefused, attio
<1>8. CASE MarkApplied(r)
  BY <1>8 DEF MarkApplied, attio
<1>9. CASE ReadContactsFails(r)
  BY <1>9 DEF ReadContactsFails, attio
<1>10. CASE Crash(r)
  BY <1>10 DEF Crash, attio
<1>11. CASE CreateDealNote(r)
  BY <1>11 DEF CreateDealNote, OwnNote, OwnFields
<1>12. CASE PatchFields(r)
  BY <1>12 DEF PatchFields, OwnNote, OwnFields
<1>13. CASE PatchContacts(r)
  BY <1>13 DEF PatchContacts, OwnNote, OwnFields
<1>14. CASE AssertPerson(r)
  BY <1>14 DEF AssertPerson, OwnNote, OwnFields
<1>15. CASE CreatePersonNote(r)
  BY <1>15 DEF CreatePersonNote, OwnNote, OwnFields
<1>16. CASE CreateNoteFails(r)
  BY <1>16 DEF CreateNoteFails, OwnNote, OwnFields, callFails
<1>17. CASE PatchFieldsFails(r)
  BY <1>17 DEF PatchFieldsFails, OwnNote, OwnFields, callFails
<1>18. CASE PatchContactsFails(r)
  BY <1>18 DEF PatchContactsFails, OwnNote, OwnFields
<1>19. CASE AssertPersonFails(r)
  BY <1>19 DEF AssertPersonFails, OwnNote, OwnFields
<1>20. CASE MarkAppliedFails(r)
  BY <1>20 DEF MarkAppliedFails, attio
<1> QED
  BY <1>1, <1>2, <1>3, <1>4, <1>5, <1>6, <1>7, <1>8, <1>9, <1>10, <1>11,
     <1>12, <1>13, <1>14, <1>15, <1>16, <1>17, <1>18, <1>19, <1>20 DEF Step, Fault

(* Nobody but a run writes a note or a field.                              *)
LEMMA QuietSteps ==
    ASSUME Environment \/ UNCHANGED vars
    PROVE  UNCHANGED notes /\ UNCHANGED fields
BY DEF Environment, Propose, Approve, Reject, LinkDeal, AddContact, vars, attio

(* Nothing a proposal left in Attio is taken away.                         *)
Grows == /\ \A p \in Proposals, rec \in Records : notes[p][rec] > 0 => notes'[p][rec] > 0
         /\ \A p \in Proposals, d \in Deals : fields[p][d] \subseteq fields'[p][d]

(* No step, of a run or of anyone else, takes a note or a field away.      *)
LEMMA AttioGrows ==
    ASSUME TypeOK, \A r \in Runs : RunOK(r), [Next]_vars
    PROVE  Grows
<1>1. CASE UNCHANGED notes /\ UNCHANGED fields
  BY <1>1 DEF Grows
<1>2. ASSUME NEW r \in Runs, Step(r) \/ Fault(r) PROVE Grows
  <2>1. \A p \in Proposals, rec \in Records : notes[p][rec] > 0 => notes'[p][rec] > 0
    <3>1. CASE UNCHANGED notes
      BY <3>1
    <3>2. CASE OwnNote(r)
      <4>1. cur[r] \in Proposals /\ target[r] \in Records
        BY <3>2 DEF OwnNote, RunOK, Busy, DealPoints, Records
      <4> QED
        BY <3>2, <4>1, NoteGrows DEF OwnNote
    <3> QED
      BY <1>2, <3>1, <3>2, OwnWrites
  <2>2. \A p \in Proposals, d \in Deals : fields[p][d] \subseteq fields'[p][d]
    <3>1. CASE UNCHANGED fields
      BY <3>1
    <3>2. CASE OwnFields(r)
      <4>1. cur[r] \in Proposals /\ target[r] \in Deals
        BY <3>2 DEF OwnFields, RunOK, Busy, DealPoints
      <4> QED
        BY <3>2, <4>1, FieldsGrow DEF OwnFields
    <3> QED
      BY <1>2, <3>1, <3>2, OwnWrites
  <2> QED
    BY <2>1, <2>2 DEF Grows
<1> QED
  BY <1>1, <1>2, QuietSteps DEF Next

(* A run at rest while someone else acts.                                  *)
LEMMA OtherRun ==
    ASSUME TypeOK, NEW r \in Runs, RunOK(r), Grows,
           pc'[r] = pc[r], todo'[r] = todo[r], cur'[r] = cur[r], target'[r] = target[r],
           softError'[r] = softError[r],
           \A c \in Chats : liveDuring[r][c] \subseteq liveDuring'[r][c] \/ pc[r] = "idle",
           pc[r] # "idle" => \A c \in Chats : liveNow'[c] \subseteq liveDuring'[r][c]
    PROVE  RunOK(r)'
<1>1. Busy(r)' = Busy(r)
  BY DEF Busy
<1>2. ASSUME pc[r] \in DealPoints
      PROVE  isDeal(cur[r]) /\ target[r] \in Deals /\ target[r] \in liveDuring'[r][Prop[cur[r]].chat]
  <2>1. cur[r] \in Proposals /\ isDeal(cur[r]) /\ target[r] \in liveDuring[r][Prop[cur[r]].chat]
    BY <1>2 DEF RunOK, Busy, DealPoints
  <2>2. Prop[cur[r]].chat \in Chats
    BY <2>1, ProposalAssumption DEF isDeal
  <2> QED
    BY <1>2, <2>1, <2>2 DEF RunOK, DealPoints
<1>3. ASSUME pc[r] \in AfterNote
      PROVE  target[r] \in Records /\ notes'[cur[r]][target[r]] > 0
  BY <1>3 DEF RunOK, Busy, AfterNote, Grows
<1>4. ASSUME pc[r] \in AfterPatch, isDeal(cur[r])
      PROVE  target[r] \in Deals /\ (softError[r] \/ written(cur[r]) \subseteq fields'[cur[r]][target[r]])
  BY <1>4 DEF RunOK, Busy, AfterPatch, Grows
<1> QED
  BY <1>1, <1>2, <1>3, <1>4 DEF RunOK

(* Guardrail rule 2 is absolute: nothing is applied without a target,      *)
(* whoever approved it (decide).                                           *)
LEMMA ApplyHasTarget ==
    ASSUME NEW p, NEW st, NEW t, decide(p, st, t) = "apply"
    PROVE  t # Null /\ p.object \in {"deals", "people"}
<1> DEFINE humanApproved == st = "approved"
           eligible == /\ t # Null
                       /\ \/ p.object = "deals"
                          \/ p.object = "people" /\ decidePeople(p, humanApproved)
<1>1. decide(p, st, t) = CASE p.malformed                -> "block"
                           [] ~ p.malformed /\ eligible   -> "apply"
                           [] ~ p.malformed /\ ~ eligible -> refuse(humanApproved)
  BY DEF decide
<1>2. refuse(humanApproved) # "apply"
  BY DEF refuse
<1>3. eligible
  BY <1>1, <1>2
<1> QED
  BY <1>3

(* A run that takes a step of its own.                                     *)
LEMMA ActingRun ==
    ASSUME TypeOK, NEW r \in Runs, RunOK(r), Step(r) \/ Fault(r)
    PROVE  RunOK(r)'
<1> USE DEF Busy, DealPoints, AfterNote, AfterPatch, goto
<1>1. CASE ListApproved(r)
  <2>1. pc'[r] = "listPending" /\ liveDuring'[r] = liveNow /\ liveNow' = liveNow
    BY <1>1 DEF ListApproved, TypeOK, liveNow, d1
  <2> QED
    BY <2>1 DEF RunOK
<1>2. CASE ListPending(r)
  <2>1. pc'[r] = "loop" /\ liveDuring' = liveDuring /\ liveNow' = liveNow /\ pc[r] # "idle"
    BY <1>2 DEF ListPending, TypeOK, liveNow, d1, history
  <2> QED
    BY <2>1 DEF RunOK
<1>3. CASE Consider(r)
  <2>1. liveDuring' = liveDuring /\ liveNow' = liveNow /\ pc[r] = "loop"
    BY <1>3 DEF Consider, liveNow, d1, history
  <2>2. PICK p \in Proposals :
          /\ todo[r][p] # "no"
          /\ \/ pc' = pc
             \/ pc' = [pc EXCEPT ![r] = "block"] /\ cur' = [cur EXCEPT ![r] = p] /\ todo' = todo
             \/ /\ decide(Prop[p], todo[r][p], withEffectiveTarget(p)) = "apply"
                /\ pc' = [pc EXCEPT ![r] = IF isDeal(p) THEN "note" ELSE "assert"]
                /\ cur' = [cur EXCEPT ![r] = p]
                /\ target' = [target EXCEPT ![r] = withEffectiveTarget(p)]
                /\ todo' = todo
    BY <1>3 DEF Consider, isNext, isDeal
  <2>3. todo[r][p] \in {"pending", "approved"}
    BY <2>2 DEF TypeOK
  <2>4. CASE pc' = pc
    BY <2>1, <2>4 DEF RunOK
  <2>5. CASE pc' = [pc EXCEPT ![r] = "block"] /\ cur' = [cur EXCEPT ![r] = p] /\ todo' = todo
    <3>1. pc'[r] = "block" /\ cur'[r] = p
      BY <2>5 DEF TypeOK
    <3> QED
      BY <2>1, <2>3, <2>5, <3>1 DEF RunOK
  <2>6. CASE /\ decide(Prop[p], todo[r][p], withEffectiveTarget(p)) = "apply"
             /\ pc' = [pc EXCEPT ![r] = IF isDeal(p) THEN "note" ELSE "assert"]
             /\ cur' = [cur EXCEPT ![r] = p]
             /\ target' = [target EXCEPT ![r] = withEffectiveTarget(p)]
             /\ todo' = todo
    <3>1. /\ pc'[r] = (IF isDeal(p) THEN "note" ELSE "assert")
          /\ cur'[r] = p
          /\ target'[r] = withEffectiveTarget(p)
      BY <2>6 DEF TypeOK
    <3>2. withEffectiveTarget(p) # Null
      BY <2>6, ApplyHasTarget
    <3>3. ASSUME isDeal(p)
          PROVE  target'[r] \in Deals /\ target'[r] \in liveNow[Prop[p].chat] /\ Prop[p].chat \in Chats
      BY <3>1, <3>2, <3>3, TargetType DEF liveNow
    <3>4. ASSUME isDeal(p) PROVE target'[r] \in liveDuring'[r][Prop[p].chat]
      BY <2>1, <3>3, <3>4 DEF RunOK
    <3> QED
      BY <2>1, <2>3, <2>6, <3>1, <3>3, <3>4 DEF RunOK
  <2> QED
    BY <2>2, <2>4, <2>5, <2>6
<1>4. CASE EndRun(r) \/ Crash(r)
  <2>1. pc'[r] = "idle"
    BY <1>4 DEF EndRun, Crash, TypeOK
  <2> QED
    BY <2>1 DEF RunOK
<1>5. CASE WriteBack(r) \/ MarkApplied(r)
  <2>1. pc'[r] = "loop" /\ liveDuring' = liveDuring /\ liveNow' = liveNow /\ pc[r] # "idle"
    BY <1>5 DEF WriteBack, MarkApplied, next, TypeOK, liveNow, d1, history
  <2> QED
    BY <2>1 DEF RunOK
<1>6. CASE CreateDealNote(r)
  <2>1. /\ pc'[r] = afterNote(cur[r]) /\ liveDuring' = liveDuring /\ liveNow' = liveNow
        /\ cur' = cur /\ todo' = todo /\ target' = target /\ softError' = softError
        /\ pc[r] = "note" /\ createNote(cur[r], target[r]) /\ fields' = fields
    BY <1>6 DEF CreateDealNote, TypeOK, liveNow, d1, history
  <2>2. cur[r] \in Proposals /\ target[r] \in Deals /\ target[r] \in Records /\ isDeal(cur[r])
    BY <2>1 DEF RunOK, Records
  <2>3. notes'[cur[r]][target[r]] > 0
    BY <2>1, <2>2, NoteGrows
  <2>4. afterNote(cur[r]) \in {"patch", "readContacts", "mark"}
    BY DEF afterNote, afterPatch
  <2>5. afterNote(cur[r]) # "patch" => written(cur[r]) = {}
    BY DEF afterNote
  <2> QED
    BY <2>1, <2>2, <2>3, <2>4, <2>5 DEF RunOK
<1>7. CASE PatchFields(r) \/ PatchFieldsFails(r)
  <2>1. /\ pc'[r] = afterPatch(cur[r]) /\ liveDuring' = liveDuring /\ liveNow' = liveNow
        /\ cur' = cur /\ todo' = todo /\ target' = target /\ pc[r] = "patch" /\ notes' = notes
        /\ softError'[r] \/ patchFields(cur[r], target[r])
    BY <1>7 DEF PatchFields, PatchFieldsFails, TypeOK, liveNow, d1, history
  <2>2. /\ cur[r] \in Proposals /\ isDeal(cur[r])
        /\ target[r] \in Deals /\ target[r] \in Records
        /\ notes[cur[r]][target[r]] > 0
    BY <2>1 DEF RunOK, Records
  <2>3. softError'[r] \/ written(cur[r]) \subseteq fields'[cur[r]][target[r]]
    BY <2>1, <2>2, FieldsGrow
  <2>4. afterPatch(cur[r]) \in {"readContacts", "mark"}
    BY DEF afterPatch
  <2> QED
    BY <2>1, <2>2, <2>3, <2>4 DEF RunOK
<1>8. CASE ReadContacts(r) \/ ReadContactsFails(r) \/ PatchContacts(r) \/ PatchContactsFails(r)
  <2>1. /\ pc'[r] \in {"patchContacts", "mark"} /\ liveDuring' = liveDuring /\ liveNow' = liveNow
        /\ cur' = cur /\ todo' = todo /\ target' = target /\ notes' = notes /\ fields' = fields
        /\ pc[r] \in {"readContacts", "patchContacts"}
        /\ softError'[r] = softError[r] \/ softError'[r] = TRUE
    BY <1>8 DEF ReadContacts, ReadContactsFails, PatchContacts, PatchContactsFails, TypeOK,
       liveNow, d1, attio, history
  <2> QED
    BY <2>1 DEF RunOK
<1>9. CASE AssertPerson(r)
  <2>1. /\ pc'[r] = "personNote" /\ liveDuring' = liveDuring /\ liveNow' = liveNow
        /\ cur' = cur /\ todo' = todo /\ target'[r] = Prop[cur[r]].person
        /\ pc[r] = "assert" /\ Prop[cur[r]].person # Null
    BY <1>9 DEF AssertPerson, TypeOK, liveNow, d1
  <2>2. Prop[cur[r]].person \in Persons
    BY <2>1, ProposalAssumption DEF RunOK, Columns
  <2> QED
    BY <2>1, <2>2 DEF RunOK
<1>10. CASE \/ AssertPersonRefused(r) \/ AssertPersonFails(r)
            \/ CreateNoteFails(r) \/ MarkAppliedFails(r)
  <2>1. /\ pc'[r] = "fail" /\ liveDuring' = liveDuring /\ liveNow' = liveNow /\ Busy(r)
        /\ cur' = cur /\ todo' = todo
    BY <1>10 DEF AssertPersonRefused, AssertPersonFails, CreateNoteFails, MarkAppliedFails,
       TypeOK, liveNow, d1, history
  <2> QED
    BY <2>1 DEF RunOK
<1>11. CASE CreatePersonNote(r)
  <2>1. /\ pc'[r] = "mark" /\ liveDuring' = liveDuring /\ liveNow' = liveNow
        /\ cur' = cur /\ todo' = todo /\ target' = target
        /\ pc[r] = "personNote" /\ createNote(cur[r], target[r])
    BY <1>11 DEF CreatePersonNote, TypeOK, liveNow, d1, history
  <2>2. cur[r] \in Proposals /\ target[r] \in Records /\ ~ isDeal(cur[r])
    BY <2>1 DEF RunOK, Records
  <2>3. notes'[cur[r]][target[r]] > 0
    BY <2>1, <2>2, NoteGrows
  <2> QED
    BY <2>1, <2>2, <2>3 DEF RunOK
<1> QED
  BY <1>1, <1>2, <1>3, <1>4, <1>5, <1>6, <1>7, <1>8, <1>9, <1>10, <1>11 DEF Step, Fault

(* A step of one run leaves the locals of the others, and deal_map, alone. *)
AtRest(q) ==
    /\ pc'[q] = pc[q] /\ todo'[q] = todo[q] /\ cur'[q] = cur[q] /\ target'[q] = target[q]
    /\ softError'[q] = softError[q] /\ liveDuring'[q] = liveDuring[q]

(* A step of one run leaves the locals of the others, and deal_map, as     *)
(* they were.                                                              *)
LEMMA OthersAtRest ==
    ASSUME TypeOK, NEW r \in Runs, Step(r) \/ Fault(r), NEW q \in Runs, q # r
    PROVE  AtRest(q) /\ liveDeal' = liveDeal
<1> USE DEF TypeOK, AtRest, goto
<1>1. CASE ListApproved(r)
  BY <1>1 DEF ListApproved, d1
<1>2. CASE ListPending(r)
  BY <1>2 DEF ListPending, d1, history
<1>3. CASE Consider(r)
  BY <1>3 DEF Consider, d1, history
<1>4. CASE EndRun(r)
  BY <1>4 DEF EndRun, d1
<1>5. CASE WriteBack(r)
  BY <1>5 DEF WriteBack, next, history
<1>6. CASE CreateDealNote(r)
  BY <1>6 DEF CreateDealNote, d1, history
<1>7. CASE PatchFields(r)
  BY <1>7 DEF PatchFields, d1, history
<1>8. CASE ReadContacts(r)
  BY <1>8 DEF ReadContacts, d1, history
<1>9. CASE PatchContacts(r)
  BY <1>9 DEF PatchContacts, d1, history
<1>10. CASE AssertPerson(r)
  BY <1>10 DEF AssertPerson, d1
<1>11. CASE AssertPersonRefused(r)
  BY <1>11 DEF AssertPersonRefused, d1, history
<1>12. CASE CreatePersonNote(r)
  BY <1>12 DEF CreatePersonNote, d1, history
<1>13. CASE MarkApplied(r)
  BY <1>13 DEF MarkApplied, next, history
<1>14. CASE CreateNoteFails(r)
  BY <1>14 DEF CreateNoteFails, d1, history
<1>15. CASE PatchFieldsFails(r)
  BY <1>15 DEF PatchFieldsFails, d1, history
<1>16. CASE ReadContactsFails(r)
  BY <1>16 DEF ReadContactsFails, d1, history
<1>17. CASE PatchContactsFails(r)
  BY <1>17 DEF PatchContactsFails, d1, history
<1>18. CASE AssertPersonFails(r)
  BY <1>18 DEF AssertPersonFails, d1
<1>19. CASE Crash(r)
  BY <1>19 DEF Crash, d1
<1>20. CASE MarkAppliedFails(r)
  BY <1>20 DEF MarkAppliedFails, history
<1> QED
  BY <1>1, <1>2, <1>3, <1>4, <1>5, <1>6, <1>7, <1>8, <1>9, <1>10, <1>11,
     <1>12, <1>13, <1>14, <1>15, <1>16, <1>17, <1>18, <1>19, <1>20 DEF Step, Fault

(* Every step keeps the local invariant of every run: that of the run      *)
(* that acts, and, because Attio only grows, that of the others.           *)
LEMMA RunsStep ==
    ASSUME TypeOK, \A r \in Runs : RunOK(r), [Next]_vars
    PROVE  \A r \in Runs : RunOK(r)'
<1>1. Grows
  BY AttioGrows
<1>2. ASSUME NEW r \in Runs, Step(r) \/ Fault(r), NEW q \in Runs PROVE RunOK(q)'
  <2>1. CASE q = r
    BY <1>2, <2>1, ActingRun
  <2>2. CASE q # r
    <3>1. AtRest(q) /\ liveNow' = liveNow
      BY <1>2, <2>2, OthersAtRest DEF liveNow
    <3>2. pc[q] # "idle" => \A c \in Chats : liveNow'[c] \subseteq liveDuring'[q][c]
      BY <3>1 DEF RunOK, AtRest
    <3> QED
      BY <1>1, <3>1, <3>2, OtherRun DEF AtRest
  <2> QED
    BY <2>1, <2>2
<1>3. ASSUME Environment \/ UNCHANGED vars, NEW q \in Runs PROVE RunOK(q)'
  <2>1. pc' = pc /\ todo' = todo /\ cur' = cur /\ target' = target /\ softError' = softError
    BY <1>3 DEF Environment, Propose, Approve, Reject, LinkDeal, AddContact, vars, local
  <2>2. CASE liveDuring' = liveDuring /\ liveDeal' = liveDeal
    <3>1. liveNow' = liveNow
      BY <2>2 DEF liveNow
    <3> QED
      BY <1>1, <2>1, <2>2, <3>1, OtherRun DEF RunOK
  <2>3. ASSUME NEW c \in Chats, NEW d \in Deals, LinkDeal(c, d) PROVE RunOK(q)'
    <3>1. /\ liveDeal' = [liveDeal EXCEPT ![c] = d]
          /\ pc[q] # "idle" => liveDuring'[q] = [liveDuring[q] EXCEPT ![c] = liveDuring[q][c] \cup {d}]
      BY <2>3 DEF LinkDeal
    <3>2. ASSUME pc[q] # "idle", NEW x \in Chats
          PROVE  liveDuring[q][x] \subseteq liveDuring'[q][x] /\ liveNow'[x] \subseteq liveDuring'[q][x]
      <4>1. liveNow[x] \subseteq liveDuring[q][x]
        BY <3>2 DEF RunOK
      <4>2. x # c => liveNow'[x] = liveNow[x]
        BY <3>1 DEF liveNow, TypeOK
      <4>3. x = c => liveNow'[x] \subseteq {d}
        BY <3>1 DEF liveNow, TypeOK
      <4>4. liveDuring[q] \in [Chats -> SUBSET Deals]
        BY DEF TypeOK
      <4> QED
        BY <3>1, <3>2, <4>1, <4>2, <4>3, <4>4
    <3> QED
      BY <1>1, <2>1, <3>2, OtherRun
  <2>4. (liveDuring' = liveDuring /\ liveDeal' = liveDeal) \/ \E c \in Chats, d \in Deals : LinkDeal(c, d)
    BY <1>3 DEF Environment, Propose, Approve, Reject, AddContact, vars, d1, history
  <2> QED
    BY <2>2, <2>3, <2>4
<1> QED
  BY <1>2, <1>3 DEF Next

(* A run past its writes, at markStatus(p.id, 'applied', ...).             *)
Marks(r) == pc[r] = "mark" /\ UNCHANGED <<notes, fields>>

(* Only a run past its writes makes a proposal applied.                    *)
LEMMA StatusStep ==
    ASSUME TypeOK, NEW r \in Runs, RunOK(r), Step(r) \/ Fault(r)
    PROVE  \/ UNCHANGED <<status, error>>
           \/ /\ WriteBack(r)
              /\ cur[r] \in Proposals
              /\ todo[r][cur[r]] \in {"pending", "approved"}
              /\ status' = [status EXCEPT ![cur[r]] = todo[r][cur[r]]]
              /\ \A p \in Proposals : p # cur[r] => error'[p] = error[p]
           \/ /\ Marks(r)
              /\ cur[r] \in Proposals
              /\ status' = [status EXCEPT ![cur[r]] = "applied"]
              /\ error' = [error EXCEPT ![cur[r]] = IF softError[r] THEN "soft" ELSE "none"]
              /\ isDeal(cur[r]) => todo'[r][cur[r]] = "no"
<1>1. CASE ListApproved(r)
  BY <1>1 DEF ListApproved, d1
<1>2. CASE ListPending(r)
  BY <1>2 DEF ListPending, d1
<1>3. CASE Consider(r)
  BY <1>3 DEF Consider, d1
<1>4. CASE EndRun(r)
  BY <1>4 DEF EndRun, d1
<1>5. CASE CreateDealNote(r)
  BY <1>5 DEF CreateDealNote, d1
<1>6. CASE PatchFields(r)
  BY <1>6 DEF PatchFields, d1
<1>7. CASE ReadContacts(r)
  BY <1>7 DEF ReadContacts, d1
<1>8. CASE PatchContacts(r)
  BY <1>8 DEF PatchContacts, d1
<1>9. CASE AssertPerson(r)
  BY <1>9 DEF AssertPerson, d1
<1>10. CASE AssertPersonRefused(r)
  BY <1>10 DEF AssertPersonRefused, d1
<1>11. CASE CreatePersonNote(r)
  BY <1>11 DEF CreatePersonNote, d1
<1>12. CASE CreateNoteFails(r)
  BY <1>12 DEF CreateNoteFails, d1
<1>13. CASE PatchFieldsFails(r)
  BY <1>13 DEF PatchFieldsFails, d1
<1>14. CASE ReadContactsFails(r)
  BY <1>14 DEF ReadContactsFails, d1
<1>15. CASE PatchContactsFails(r)
  BY <1>15 DEF PatchContactsFails, d1
<1>16. CASE AssertPersonFails(r)
  BY <1>16 DEF AssertPersonFails, d1
<1>17. CASE Crash(r)
  BY <1>17 DEF Crash, d1
<1>18. CASE WriteBack(r)
  BY <1>18 DEF WriteBack, markStatus, RunOK, Busy, TypeOK, Errors
<1>19. CASE MarkApplied(r)
  BY <1>19 DEF MarkApplied, markApplied, markStatus, next, Marks, RunOK, Busy, attio, TypeOK
<1>20. CASE MarkAppliedFails(r)
  BY <1>20 DEF MarkAppliedFails, markApplied, markStatus, callFails, Marks, RunOK, Busy, attio,
     isDeal
<1> QED
  BY <1>1, <1>2, <1>3, <1>4, <1>5, <1>6, <1>7, <1>8, <1>9, <1>10, <1>11,
     <1>12, <1>13, <1>14, <1>15, <1>16, <1>17, <1>18, <1>19, <1>20 DEF Step, Fault

(* Every step keeps the three properties that tie Attio to crm_proposals,  *)
(* given the local invariant of the runs.                                  *)
LEMMA NotesAndStatusStep ==
    ASSUME IInv, [Next]_vars
    PROVE  DealWriteHasNote' /\ AppliedHasNote' /\ CleanApplyIsComplete'
<1>1. TypeOK /\ \A r \in Runs : RunOK(r)
  BY DEF IInv
<1>2. Grows
  BY <1>1, AttioGrows
<1>3. DealWriteHasNote'
  <2>1. CASE UNCHANGED fields
    BY <1>2, <2>1 DEF IInv, DealWriteHasNote, Grows, Records
  <2>2. ASSUME NEW r \in Runs, OwnFields(r) PROVE DealWriteHasNote'
    <3>1. cur[r] \in Proposals /\ target[r] \in Deals /\ notes[cur[r]][target[r]] > 0
      BY <1>1, <2>2 DEF OwnFields, RunOK, Busy, DealPoints, AfterNote
    <3>2. \A p \in Proposals, d \in Deals : <<p, d>> # <<cur[r], target[r]>> => fields'[p][d] = fields[p][d]
      BY <1>1, <2>2, <3>1, FieldsGrow DEF OwnFields
    <3> QED
      BY <1>2, <3>1, <3>2 DEF IInv, DealWriteHasNote, Grows, Records
  <2> QED
    BY <2>1, <2>2, OwnWrites, QuietSteps DEF Next
<1>4. ASSUME NEW p \in Proposals, status'[p] = "applied", status[p] = "applied", error'[p] = error[p]
      PROVE  /\ \E rec \in Records : notes'[p][rec] > 0
             /\ error'[p] = "none" /\ isDeal(p)
                    => \E d \in Deals : notes'[p][d] > 0 /\ written(p) \subseteq fields'[p][d]
  <2>1. \E rec \in Records : notes[p][rec] > 0
    BY <1>4 DEF IInv, AppliedHasNote, hasNote
  <2>2. ASSUME error[p] = "none", isDeal(p)
        PROVE  \E d \in Deals : notes[p][d] > 0 /\ written(p) \subseteq fields[p][d]
    BY <1>4, <2>2 DEF IInv, CleanApplyIsComplete, isDeal
  <2> QED
    BY <1>2, <1>4, <2>1, <2>2 DEF Grows, Records
<1>5. ASSUME NEW r \in Runs, NEW p \in Proposals, Marks(r), p = cur[r],
             error'[p] = (IF softError[r] THEN "soft" ELSE "none")
      PROVE  /\ \E rec \in Records : notes'[p][rec] > 0
             /\ error'[p] = "none" /\ isDeal(p)
                    => \E d \in Deals : notes'[p][d] > 0 /\ written(p) \subseteq fields'[p][d]
  <2>1. pc[r] = "mark" /\ notes' = notes /\ fields' = fields
    BY <1>5 DEF Marks
  <2>2. target[r] \in Records /\ notes[p][target[r]] > 0
    BY <1>1, <1>5, <2>1 DEF RunOK, AfterNote
  <2>3. ASSUME isDeal(p), ~ softError[r]
        PROVE  target[r] \in Deals /\ written(p) \subseteq fields[p][target[r]]
    BY <1>1, <1>5, <2>1, <2>3 DEF RunOK, AfterPatch
  <2> QED
    BY <1>5, <2>1, <2>2, <2>3
<1>6. ASSUME NEW p \in Proposals, status'[p] = "applied"
      PROVE  \/ status[p] = "applied" /\ error'[p] = error[p]
             \/ \E r \in Runs : /\ Marks(r) /\ p = cur[r]
                                /\ error'[p] = (IF softError[r] THEN "soft" ELSE "none")
  <2>1. ASSUME NEW r \in Runs, Step(r) \/ Fault(r)
        PROVE  \/ status[p] = "applied" /\ error'[p] = error[p]
               \/ /\ Marks(r) /\ p = cur[r]
                  /\ error'[p] = (IF softError[r] THEN "soft" ELSE "none")
    <3>1. status \in [Proposals -> RowStatuses] /\ error \in [Proposals -> Errors]
      BY <1>1 DEF TypeOK
    <3>2. CASE UNCHANGED <<status, error>>
      BY <1>6, <3>2
    <3>3. CASE /\ status' = [status EXCEPT ![cur[r]] = todo[r][cur[r]]]
               /\ \A q \in Proposals : q # cur[r] => error'[q] = error[q]
               /\ todo[r][cur[r]] \in {"pending", "approved"}
      BY <1>6, <3>1, <3>3
    <3>4. CASE /\ Marks(r)
               /\ status' = [status EXCEPT ![cur[r]] = "applied"]
               /\ error' = [error EXCEPT ![cur[r]] = IF softError[r] THEN "soft" ELSE "none"]
      BY <1>6, <3>1, <3>4
    <3>5. TypeOK /\ RunOK(r)
      BY <1>1
    <3> QED
      BY <2>1, <3>2, <3>3, <3>4, <3>5, StatusStep
  <2>2. CASE Environment \/ UNCHANGED vars
    BY <1>1, <1>6, <2>2 DEF Environment, Propose, Approve, Reject, LinkDeal, AddContact, vars, d1, TypeOK
  <2> QED
    BY <2>1, <2>2 DEF Next
<1>7. AppliedHasNote'
  BY <1>4, <1>5, <1>6 DEF AppliedHasNote, hasNote
<1>8. CleanApplyIsComplete'
  BY <1>4, <1>5, <1>6 DEF CleanApplyIsComplete, isDeal
<1> QED
  BY <1>3, <1>7, <1>8

-----------------------------------------------------------------------------
(* The inductive invariant holds in every reachable state.                 *)
THEOREM Invariance == Spec => []IInv
<1>1. Init => IInv
  BY InitIInv
<1>2. IInv /\ [Next]_vars => IInv'
  <2> SUFFICES ASSUME IInv, [Next]_vars PROVE IInv'
    OBVIOUS
  <2>1. TypeOK'
    BY TypeStep
  <2>2. \A r \in Runs : RunOK(r)'
    BY RunsStep DEF IInv
  <2> QED
    BY <2>1, <2>2, NotesAndStatusStep DEF IInv
<1> QED
  BY <1>1, <1>2, PTL DEF Spec

(* The tables, Attio and the runs keep their types: in particular every    *)
(* status ever written back is one the CHECK of crm_proposals accepts.     *)
THEOREM TypeCorrect == Spec => []TypeOK
<1>1. IInv => TypeOK
  BY DEF IInv
<1> QED
  BY <1>1, Invariance, PTL

(* A deal is only written while it is, or was during that very run, its    *)
(* chat's confirmed deal (withEffectiveTarget).                            *)
THEOREM TargetsAreLive == Spec => []TargetWasLive
<1>1. IInv => TargetWasLive
  BY DEF IInv, RunOK, TargetWasLive, DealPoints
<1> QED
  BY <1>1, Invariance, PTL

(* Whatever overlaps or fails, a deal field is never written without the   *)
(* proposal's note on that deal (applyDeal's order of steps).              *)
THEOREM DealWritesHaveNotes == Spec => []DealWriteHasNote
<1>1. IInv => DealWriteHasNote
  BY DEF IInv
<1> QED
  BY <1>1, Invariance, PTL

(* Whatever overlaps or fails, applied implies noted (applyDeal,             *)
(* applyPerson).                                                           *)
THEOREM AppliedImpliesNoted == Spec => []AppliedHasNote
<1>1. IInv => AppliedHasNote
  BY DEF IInv
<1> QED
  BY <1>1, Invariance, PTL

(* Whatever overlaps or fails, an applied proposal without an error wrote  *)
(* its whole write part (the soft errors of applyDeal are never lost).     *)
THEOREM CleanAppliesAreComplete == Spec => []CleanApplyIsComplete
<1>1. IInv => CleanApplyIsComplete
  BY DEF IInv
<1> QED
  BY <1>1, Invariance, PTL

(* Whatever overlaps or fails, associating people removes only contacts    *)
(* added since they were read (associatePeople).                           *)
THEOREM SeenContactsAreKept == Spec => SeenContactsKept
<1> DEFINE Kept == \A d \in Deals : \A x \in contacts[d] \ contacts'[d] :
              \E r \in Runs :
                  pc[r] = "patchContacts" /\ target[r] = d /\ x \notin seen[r]
<1>1. TypeOK /\ [Next]_vars => [Kept]_vars
  <2> SUFFICES ASSUME TypeOK, [Next]_vars PROVE Kept
    OBVIOUS
  <2>1. CASE UNCHANGED contacts
    BY <2>1
  <2>2. ASSUME NEW r \in Runs, pc[r] = "patchContacts", patchContacts(target[r], merged(r))
        PROVE  Kept
    BY <2>2 DEF patchContacts, merged, TypeOK
  <2>3. ASSUME NEW d \in Deals, NEW x \in Persons, AddContact(d, x) PROVE Kept
    BY <2>3 DEF AddContact, TypeOK
  <2>4. ASSUME NEW r \in Runs, Step(r)
        PROVE  \/ UNCHANGED contacts
               \/ pc[r] = "patchContacts" /\ patchContacts(target[r], merged(r))
    BY <2>4 DEF Step, ListApproved, ListPending, Consider, EndRun, WriteBack, CreateDealNote,
       PatchFields, ReadContacts, PatchContacts, AssertPerson, AssertPersonRefused,
       CreatePersonNote, MarkApplied, attio
  <2>5. ASSUME NEW r \in Runs, Fault(r)
        PROVE  \/ UNCHANGED contacts
               \/ pc[r] = "patchContacts" /\ patchContacts(target[r], merged(r))
    BY <2>5 DEF Fault, CreateNoteFails, PatchFieldsFails, ReadContactsFails,
       PatchContactsFails, AssertPersonFails, MarkAppliedFails, Crash, callFails, attio
  <2>6. CASE \/ \E p \in Proposals : Propose(p) \/ Approve(p) \/ Reject(p)
             \/ \E c \in Chats, d \in Deals : LinkDeal(c, d)
    BY <2>1, <2>6 DEF Propose, Approve, Reject, LinkDeal, attio
  <2>7. CASE UNCHANGED vars
    BY <2>1, <2>7 DEF vars, attio
  <2> QED
    BY <2>1, <2>2, <2>3, <2>4, <2>5, <2>6, <2>7 DEF Next, Environment
<1> QED
  BY <1>1, TypeCorrect, PTL DEF Spec, SeenContactsKept

-----------------------------------------------------------------------------
(* Apply implements Lifecycle: the overlapping, failing and crashing runs  *)
(* of the apply Worker keep the promise made to the reviewers.  The two    *)
(* properties that rest on the same facts, the gate for people and the     *)
(* batch limit, are proved here too.                                       *)
(*                                                                         *)
(* A run acts on what it read long before: Standing says what of that is   *)
(* still true when the run acts on it, whoever has decided otherwise since.*)

chosen(r) == {p \in Proposals : todo[r][p] # "no"}

(* What a run may rely on, from its queries to its writes. *)
Standing(r) ==
    /\ \A p \in Proposals :
           /\ todo[r][p] # "no" => status[p] # "absent"
           /\ todo[r][p] = "approved" => p \in approvedEver
    /\ pc[r] = "block" => Prop[cur[r]].malformed \/ todo[r][cur[r]] = "approved"
    /\ pc[r] \in {"assert", "personNote"} =>
           decidePeople(Prop[cur[r]], todo[r][cur[r]] = "approved")
    /\ pc[r] = "personNote" => target[r] \in asserted[cur[r]]

(* The limit holds, and between the two queries only approved ones count. *)
BatchOK(r) ==
    /\ IsFiniteSet(chosen(r))
    /\ Cardinality(chosen(r)) <= Limit
    /\ pc[r] = "idle" => chosen(r) = {}
    /\ pc[r] = "listPending" => \A p \in Proposals : todo[r][p] # "pending"

(* What is true of a proposal whatever the runs are doing. *)
Sound(p) ==
    /\ status[p] = "approved" => p \in approvedEver
    /\ asserted[p] # {} => /\ ~ isDeal(p)
                           /\ decidePeople(Prop[p], p \in approvedEver)
    /\ \A d \in Deals : fields[p][d] \subseteq written(p)

(* The strengthening of IInv the refinement needs. *)
LInv ==
    /\ IInv
    /\ \A r \in Runs : Standing(r) /\ BatchOK(r)
    /\ \A p \in Proposals : Sound(p)

-----------------------------------------------------------------------------
(* What decide lets through to an error or to applyPerson.                 *)
LEMMA DecideStands ==
    ASSUME NEW p, NEW st, NEW t
    PROVE  /\ decide(p, st, t) = "block" => p.malformed \/ st = "approved"
           /\ decide(p, st, t) = "apply" /\ p.object # "deals" => decidePeople(p, st = "approved")
<1> DEFINE humanApproved == st = "approved"
           eligible == /\ t # Null
                       /\ \/ p.object = "deals"
                          \/ p.object = "people" /\ decidePeople(p, humanApproved)
<1>1. decide(p, st, t) = CASE p.malformed                -> "block"
                           [] ~ p.malformed /\ eligible   -> "apply"
                           [] ~ p.malformed /\ ~ eligible -> refuse(humanApproved)
  BY DEF decide
<1>2. refuse(humanApproved) # "apply" /\ (refuse(humanApproved) = "block" => humanApproved)
  BY DEF refuse
<1>3. CASE p.malformed
  <2>1. decide(p, st, t) = "block"
    BY <1>1, <1>3
  <2> QED
    BY <1>3, <2>1
<1>4. CASE ~ p.malformed /\ eligible
  <2>1. decide(p, st, t) = "apply"
    BY <1>1, <1>4
  <2> QED
    BY <1>4, <2>1
<1>5. CASE ~ p.malformed /\ ~ eligible
  <2>1. decide(p, st, t) = refuse(humanApproved)
    BY <1>1, <1>5
  <2> QED
    BY <1>2, <2>1
<1> QED
  BY <1>3, <1>4, <1>5

(* LIMIT n returns at most n rows, however many there are: the number of   *)
(* older rows tells the rows it returns apart (listProposalsByStatus).     *)
LEMMA ListWithinLimit ==
    ASSUME NEW st, NEW n \in Nat
    PROVE  /\ IsFiniteSet(listByStatus(st, n))
           /\ Cardinality(listByStatus(st, n)) <= n
<1> DEFINE older(p) == {q \in Proposals : status[q] = st /\ q < p}
           L == listByStatus(st, n)
           rank == [p \in L |-> Cardinality(older(p))]
<1>1. Proposals \subseteq Nat
  BY ProposalAssumption
<1>2. \A p \in L : p \in Proposals /\ status[p] = st /\ Cardinality(older(p)) < n
  BY DEF listByStatus
<1> HIDE DEF L
<1>3. ASSUME NEW p \in L PROVE IsFiniteSet(older(p)) /\ Cardinality(older(p)) \in 0..(n - 1)
  <2>1. p \in Nat
    BY <1>1, <1>2
  <2>2. older(p) \subseteq 0..p
    <3>1. \A q \in Nat : q < p => q \in 0..p
      BY <2>1
    <3> QED
      BY <1>1, <3>1
  <2>3. IsFiniteSet(0..p)
    BY <2>1, FS_Interval
  <2>4. IsFiniteSet(older(p))
    <3> HIDE DEF older
    <3> QED
      BY <2>2, <2>3, FS_Subset
  <2>5. Cardinality(older(p)) \in Nat
    BY <2>4, FS_CardinalityType
  <2> QED
    BY <1>2, <2>4, <2>5
<1>4. ASSUME NEW p \in L, NEW q \in L, q < p PROVE rank[q] # rank[p]
  <2>1. p \in Nat /\ q \in Nat /\ q \in Proposals /\ status[q] = st
    BY <1>1, <1>2
  <2>2. older(q) \subseteq older(p) /\ q \in older(p) /\ q \notin older(q)
    <3>1. \A x \in Nat : x < q => x < p
      BY <1>4, <2>1
    <3>2. ~ (q < q)
      BY <2>1
    <3> QED
      BY <1>1, <1>4, <2>1, <3>1, <3>2
  <2>3. Cardinality(older(q)) # Cardinality(older(p))
    <3> HIDE DEF older
    <3> QED
      BY <1>3, <2>2, FS_Subset
  <2> QED
    BY <2>3
<1>5. \A p \in L, q \in L : rank[p] = rank[q] => p = q
  <2>1. \A p \in Nat, q \in Nat : p = q \/ p < q \/ q < p
    OBVIOUS
  <2> QED
    BY <1>1, <1>2, <1>4, <2>1
<1>6. rank \in [L -> 0..(n - 1)]
  BY <1>3
<1>7. rank \in Injection(L, 0..(n - 1))
  BY <1>5, <1>6 DEF Injection, IsInjective
<1>8. IsFiniteSet(0..(n - 1)) /\ Cardinality(0..(n - 1)) = n
  BY FS_Interval
<1>9. IsFiniteSet(L) /\ Cardinality(L) <= n
  <2> HIDE DEF rank
  <2> QED
    BY <1>7, <1>8, FS_Injection
<1> QED
  BY <1>9 DEF L

-----------------------------------------------------------------------------
(* A run writes people for the proposal it is at, the person it names.     *)
OwnPerson(r) ==
    /\ pc[r] = "assert"
    /\ Prop[cur[r]].person # Null
    /\ assertRecord(cur[r], Prop[cur[r]].person)

(* What a run's own step does to the proposals it goes through.            *)
Drops(r) ==
    /\ todo' = [todo EXCEPT ![r] = todo'[r]]
    /\ \A p \in Proposals : todo'[r][p] \in {todo[r][p], "no"}
    /\ pc'[r] # "listPending"
    /\ pc'[r] = "idle" => todo'[r] = NoWork

(* A run approves nothing, writes people only from applyPerson, and after  *)
(* its two queries only drops proposals.                                   *)
LEMMA RunStep ==
    ASSUME TypeOK, NEW r \in Runs, Step(r) \/ Fault(r)
    PROVE  /\ approvedEver' = approvedEver
           /\ UNCHANGED asserted \/ OwnPerson(r)
           /\ ListApproved(r) \/ ListPending(r) \/ Drops(r)
<1> USE DEF TypeOK, goto, Drops, OwnPerson
<1>1. CASE ListApproved(r)
  BY <1>1 DEF ListApproved, attio
<1>2. CASE ListPending(r)
  BY <1>2 DEF ListPending, attio, history
<1>3. CASE Consider(r)
  BY <1>3 DEF Consider, attio, history
<1>4. CASE EndRun(r)
  BY <1>4 DEF EndRun, attio
<1>5. CASE WriteBack(r)
  BY <1>5 DEF WriteBack, next, attio, history
<1>6. CASE CreateDealNote(r)
  BY <1>6 DEF CreateDealNote, afterNote, afterPatch, history
<1>7. CASE PatchFields(r)
  BY <1>7 DEF PatchFields, afterPatch, history
<1>8. CASE ReadContacts(r)
  BY <1>8 DEF ReadContacts, attio, history
<1>9. CASE PatchContacts(r)
  BY <1>9 DEF PatchContacts, history
<1>10. CASE AssertPerson(r)
  BY <1>10 DEF AssertPerson
<1>11. CASE AssertPersonRefused(r)
  BY <1>11 DEF AssertPersonRefused, attio, history
<1>12. CASE CreatePersonNote(r)
  BY <1>12 DEF CreatePersonNote, history
<1>13. CASE MarkApplied(r)
  BY <1>13 DEF MarkApplied, next, attio, history
<1>14. CASE CreateNoteFails(r)
  BY <1>14 DEF CreateNoteFails, history
<1>15. CASE PatchFieldsFails(r)
  BY <1>15 DEF PatchFieldsFails, afterPatch, history
<1>16. CASE ReadContactsFails(r)
  BY <1>16 DEF ReadContactsFails, attio, history
<1>17. CASE PatchContactsFails(r)
  BY <1>17 DEF PatchContactsFails, history
<1>18. CASE AssertPersonFails(r)
  BY <1>18 DEF AssertPersonFails, callFails
<1>19. CASE Crash(r)
  BY <1>19 DEF Crash, NoWork, attio
<1>20. CASE MarkAppliedFails(r)
  BY <1>20 DEF MarkAppliedFails, attio, history
<1> QED
  BY <1>1, <1>2, <1>3, <1>4, <1>5, <1>6, <1>7, <1>8, <1>9, <1>10, <1>11,
     <1>12, <1>13, <1>14, <1>15, <1>16, <1>17, <1>18, <1>19, <1>20 DEF Step, Fault

(* What nobody ever takes back: a row, an approval, a person written.      *)
Lasting ==
    /\ approvedEver \subseteq approvedEver'
    /\ \A p \in Proposals : /\ status[p] # "absent" => status'[p] # "absent"
                            /\ asserted[p] \subseteq asserted'[p]

(* Every step, of a run or of anyone else, keeps these.                    *)
LEMMA LastingStep ==
    ASSUME TypeOK, \A r \in Runs : RunOK(r), [Next]_vars
    PROVE  Lasting
<1>1. ASSUME NEW r \in Runs, Step(r) \/ Fault(r) PROVE Lasting
  <2>1. approvedEver' = approvedEver
    BY <1>1, RunStep
  <2>2. \A p \in Proposals : status[p] # "absent" => status'[p] # "absent"
    BY <1>1, StatusStep DEF TypeOK
  <2>3. \A p \in Proposals : asserted[p] \subseteq asserted'[p]
    <3>1. UNCHANGED asserted \/ OwnPerson(r)
      BY <1>1, RunStep
    <3>2. asserted \in [Proposals -> SUBSET Persons]
      BY DEF TypeOK
    <3> QED
      BY <3>1, <3>2 DEF OwnPerson, assertRecord
  <2> QED
    BY <2>1, <2>2, <2>3 DEF Lasting
<1>2. CASE Environment \/ UNCHANGED vars
  BY <1>2 DEF Environment, Propose, Approve, Reject, LinkDeal, AddContact, Lasting,
     TypeOK, vars, d1, attio, history
<1> QED
  BY <1>1, <1>2 DEF Next

(* The run that acts still has its standing after its step.                *)
LEMMA StandingActs ==
    ASSUME TypeOK, Lasting, NEW r \in Runs, RunOK(r), Standing(r), Step(r) \/ Fault(r),
           \A p \in Proposals : Sound(p)
    PROVE  Standing(r)'
<1> USE DEF TypeOK, goto
<1>1. CASE ListApproved(r)
  <2>1. /\ pc'[r] = "listPending" /\ status' = status /\ approvedEver' = approvedEver
        /\ \A p \in Proposals : todo'[r][p] # "no" =>
               todo'[r][p] = "approved" /\ status[p] = "approved"
    BY <1>1 DEF ListApproved, listByStatus, d1
  <2> QED
    BY <2>1 DEF Standing, Sound
<1>2. CASE ListPending(r)
  <2>1. /\ pc'[r] = "loop" /\ status' = status /\ approvedEver' = approvedEver
        /\ \A p \in Proposals : \/ todo'[r][p] = todo[r][p]
                                \/ todo'[r][p] = "pending" /\ status[p] = "pending"
    BY <1>2 DEF ListPending, listByStatus, d1, history
  <2> QED
    BY <2>1 DEF Standing
<1>3. CASE Drops(r)
  <2>1. \A p \in Proposals : /\ todo'[r][p] # "no" => status'[p] # "absent"
                             /\ todo'[r][p] = "approved" => p \in approvedEver'
    BY <1>3 DEF Standing, Lasting, Drops
  <2>2. CASE Consider(r)
    <3>1. PICK p \in Proposals :
            \/ pc'[r] = "loop"
            \/ /\ decide(Prop[p], todo[r][p], withEffectiveTarget(p)) = "block"
               /\ pc'[r] = "block" /\ cur'[r] = p /\ todo' = todo
            \/ /\ decide(Prop[p], todo[r][p], withEffectiveTarget(p)) = "apply"
               /\ pc'[r] = (IF Prop[p].object = "deals" THEN "note" ELSE "assert")
               /\ cur'[r] = p /\ todo' = todo
      BY <2>2 DEF Consider
    <3>2. /\ pc'[r] = "block" => Prop[cur'[r]].malformed \/ todo'[r][cur'[r]] = "approved"
          /\ pc'[r] = "assert" => decidePeople(Prop[cur'[r]], todo'[r][cur'[r]] = "approved")
          /\ pc'[r] # "personNote"
      BY <3>1, DecideStands
    <3> QED
      BY <2>1, <3>2 DEF Standing
  <2>3. CASE AssertPerson(r)
    <3>1. /\ pc[r] = "assert" /\ pc'[r] = "personNote" /\ cur' = cur /\ todo' = todo
          /\ cur[r] \in Proposals
          /\ target'[r] = Prop[cur[r]].person
          /\ assertRecord(cur[r], Prop[cur[r]].person)
      BY <2>3 DEF AssertPerson, RunOK, Busy
    <3>2. target'[r] \in asserted'[cur'[r]]
      BY <3>1 DEF assertRecord
    <3> QED
      BY <2>1, <3>1, <3>2 DEF Standing
  <2>4. CASE pc'[r] \notin {"block", "assert", "personNote"}
    BY <2>1, <2>4 DEF Standing
  <2>5. \/ Consider(r) \/ AssertPerson(r) \/ pc'[r] \notin {"block", "assert", "personNote"}
    BY DEF Step, ListApproved, ListPending, EndRun, WriteBack, CreateDealNote, PatchFields,
       ReadContacts, PatchContacts, AssertPersonRefused, CreatePersonNote, MarkApplied,
       Fault, CreateNoteFails, PatchFieldsFails, ReadContactsFails, PatchContactsFails,
       AssertPersonFails, MarkAppliedFails, Crash, next, afterNote, afterPatch
  <2> QED
    BY <2>2, <2>3, <2>4, <2>5
<1> QED
  BY <1>1, <1>2, <1>3, RunStep

(* A run at rest keeps its standing, whoever acts.                         *)
LEMMA StandingRests ==
    ASSUME TypeOK, Lasting, NEW r \in Runs, RunOK(r), Standing(r),
           pc'[r] = pc[r], todo'[r] = todo[r], cur'[r] = cur[r], target'[r] = target[r]
    PROVE  Standing(r)'
<1>1. \A p \in Proposals : /\ todo'[r][p] # "no" => status'[p] # "absent"
                           /\ todo'[r][p] = "approved" => p \in approvedEver'
  BY DEF Standing, Lasting
<1>2. pc[r] = "personNote" => target'[r] \in asserted'[cur'[r]]
  BY DEF Standing, Lasting, RunOK, Busy
<1> QED
  BY <1>1, <1>2 DEF Standing

(* The batch limit survives a step of the run itself.                      *)
LEMMA BatchActs ==
    ASSUME TypeOK, NEW r \in Runs, BatchOK(r), Step(r) \/ Fault(r)
    PROVE  BatchOK(r)'
<1> USE DEF TypeOK, goto
<1> Limit \in Nat
  BY BoundAssumption
<1>1. CASE ListApproved(r)
  <2>1. /\ pc'[r] = "listPending"
        /\ chosen(r)' = listByStatus("approved", Limit)
        /\ \A p \in Proposals : todo'[r][p] # "pending"
    BY <1>1 DEF ListApproved, chosen, listByStatus
  <2> QED
    BY <2>1, ListWithinLimit DEF BatchOK
<1>2. CASE ListPending(r)
  <2> DEFINE taken == {p \in Proposals : todo[r][p] = "approved"}
             new == listByStatus("pending", Limit - Cardinality(taken)) \ taken
  <2>1. taken = chosen(r)
    BY <1>2 DEF ListPending, BatchOK, chosen
  <2>2. chosen(r)' = taken \cup new /\ taken \cap new = {}
    BY <1>2, <2>1 DEF ListPending, chosen, listByStatus
  <2>3. IsFiniteSet(taken) /\ Cardinality(taken) <= Limit
    BY <2>1 DEF BatchOK
  <2>4. Cardinality(taken) \in Nat
    BY <2>3, FS_CardinalityType
  <2> DEFINE room == Limit - Cardinality(taken)
             listed == listByStatus("pending", room)
  <2>5. room \in Nat
    BY <2>3, <2>4
  <2>6. IsFiniteSet(listed) /\ Cardinality(listed) <= room
    <3> HIDE DEF room
    <3> QED
      BY <2>5, ListWithinLimit
  <2>7. new \in SUBSET listed
    OBVIOUS
  <2>8. IsFiniteSet(chosen(r)') /\ Cardinality(chosen(r)') <= Limit
    <3> HIDE DEF taken, new, listed
    <3>1. IsFiniteSet(new) /\ Cardinality(new) <= Cardinality(listed) /\ Cardinality(new) \in Nat
      BY <2>6, <2>7, FS_Subset, FS_CardinalityType
    <3>2. Cardinality(listed) \in Nat
      BY <2>6, FS_CardinalityType
    <3>3. IsFiniteSet(chosen(r)') /\ Cardinality(chosen(r)') = Cardinality(taken) + Cardinality(new)
      <4>1. /\ IsFiniteSet(taken \cup new)
            /\ Cardinality(taken \cup new) =
                   Cardinality(taken) + Cardinality(new) - Cardinality(taken \cap new)
        BY <2>3, <3>1, FS_Union
      <4>2. Cardinality(taken \cap new) = 0
        BY <2>2, FS_EmptySet
      <4>3. Cardinality(taken \cup new) = Cardinality(taken) + Cardinality(new)
        BY <2>4, <3>1, <4>1, <4>2
      <4> QED
        BY <2>2, <4>1, <4>3
    <3> QED
      BY <2>4, <2>6, <3>1, <3>2, <3>3
  <2>9. pc'[r] = "loop"
    BY <1>2 DEF ListPending
  <2> QED
    BY <2>8, <2>9 DEF BatchOK
<1>3. CASE Drops(r)
  <2>1. chosen(r)' \subseteq chosen(r)
    BY <1>3 DEF Drops, chosen
  <2>2. IsFiniteSet(chosen(r)') /\ Cardinality(chosen(r)') <= Limit
    BY <2>1, FS_Subset, FS_CardinalityType DEF BatchOK
  <2>3. pc'[r] = "idle" => chosen(r)' = {}
    BY <1>3 DEF Drops, chosen, NoWork
  <2> QED
    BY <1>3, <2>2, <2>3 DEF BatchOK, Drops
<1> QED
  BY <1>1, <1>2, <1>3, RunStep

(* A step keeps what is true of every proposal.                            *)
LEMMA SoundStep ==
    ASSUME LInv, [Next]_vars
    PROVE  \A p \in Proposals : Sound(p)'
<1>1. TypeOK /\ (\A r \in Runs : RunOK(r) /\ Standing(r)) /\ (\A p \in Proposals : Sound(p))
  BY DEF LInv, IInv
<1>2. Lasting
  BY <1>1, LastingStep
<1> SUFFICES ASSUME NEW p \in Proposals PROVE Sound(p)'
  OBVIOUS
<1>3. asserted[p] # {} => ~ isDeal(p) /\ decidePeople(Prop[p], p \in approvedEver')
  <2>1. p \in approvedEver => p \in approvedEver'
    BY <1>2 DEF Lasting
  <2>2. asserted[p] # {} => ~ isDeal(p) /\ decidePeople(Prop[p], p \in approvedEver)
    BY <1>1 DEF Sound
  <2> QED
    BY <2>1, <2>2 DEF decidePeople
<1>4. \A d \in Deals : fields[p][d] \subseteq written(p)
  BY <1>1 DEF Sound
<1>5. ASSUME NEW r \in Runs, Step(r) \/ Fault(r) PROVE Sound(p)'
  <2>1. RunOK(r) /\ Standing(r) /\ approvedEver' = approvedEver
    BY <1>1, <1>5, RunStep
  <2>2. status'[p] = "approved" => p \in approvedEver'
    <3>1. \/ status'[p] = status[p]
          \/ status'[p] = "applied"
          \/ p = cur[r] /\ status'[p] = todo[r][p]
      BY <1>1, <1>5, StatusStep DEF TypeOK
    <3> QED
      BY <1>1, <2>1, <3>1 DEF Sound, Standing
  <2>3. asserted'[p] # {} => ~ isDeal(p) /\ decidePeople(Prop[p], p \in approvedEver')
    <3>1. CASE OwnPerson(r) /\ p = cur[r]
      <4>1. todo[r][p] = "approved" => p \in approvedEver'
        BY <2>1, <3>1 DEF Standing
      <4>2. decidePeople(Prop[p], todo[r][p] = "approved") /\ ~ isDeal(p)
        BY <2>1, <3>1 DEF Standing, RunOK, OwnPerson
      <4> QED
        BY <4>1, <4>2 DEF decidePeople
    <3>2. \/ asserted'[p] = asserted[p]
          \/ OwnPerson(r) /\ p = cur[r]
      <4>1. UNCHANGED asserted \/ OwnPerson(r)
        BY <1>1, <1>5, RunStep
      <4>2. asserted \in [Proposals -> SUBSET Persons]
        BY <1>1 DEF TypeOK
      <4>3. OwnPerson(r) /\ p # cur[r] => asserted'[p] = asserted[p]
        BY <4>2 DEF OwnPerson, assertRecord
      <4> QED
        BY <4>1, <4>3
    <3> QED
      BY <1>3, <3>1, <3>2
  <2>4. \A d \in Deals : fields'[p][d] \subseteq written(p)
    <3>1. CASE UNCHANGED fields
      BY <1>4, <3>1
    <3>2. CASE OwnFields(r)
      <4>1. cur[r] \in Proposals /\ target[r] \in Deals
        BY <2>1, <3>2 DEF OwnFields, RunOK, Busy, DealPoints
      <4>2. fields' = [fields EXCEPT ![cur[r]] =
                          [fields[cur[r]] EXCEPT ![target[r]] = @ \cup written(cur[r])]]
        BY <3>2 DEF OwnFields, patchFields
      <4>3. fields \in [Proposals -> [Deals -> SUBSET AttioSlugs]]
        BY <1>1 DEF TypeOK
      <4> QED
        BY <1>4, <4>1, <4>2, <4>3
    <3> QED
      BY <1>5, <3>1, <3>2, OwnWrites
  <2> QED
    BY <2>2, <2>3, <2>4 DEF Sound
<1>6. CASE Environment \/ UNCHANGED vars
  <2>1. status'[p] = "approved" => p \in approvedEver'
    BY <1>1, <1>6 DEF Environment, Propose, Approve, Reject, LinkDeal, AddContact, Sound,
       TypeOK, vars, d1, history
  <2>2. asserted' = asserted /\ fields' = fields
    BY <1>6 DEF Environment, Propose, Approve, Reject, LinkDeal, AddContact, vars, attio
  <2> QED
    BY <1>3, <1>4, <2>1, <2>2 DEF Sound
<1> QED
  BY <1>5, <1>6 DEF Next

(* The strengthened invariant holds in every reachable state.              *)
THEOREM StrongInvariance == Spec => []LInv
<1>1. Init => LInv
  <2> SUFFICES ASSUME Init PROVE LInv
    OBVIOUS
  <2>1. IInv
    BY InitIInv
  <2>2. \A r \in Runs : chosen(r) = {} /\ Standing(r)
    BY DEF Init, NoWork, chosen, Standing
  <2>3. \A r \in Runs : BatchOK(r)
    <3>1. \A r \in Runs : pc[r] = "idle"
      BY DEF Init
    <3>2. IsFiniteSet({}) /\ Cardinality({}) <= Limit
      BY BoundAssumption, FS_EmptySet
    <3> QED
      BY <2>2, <3>1, <3>2 DEF BatchOK
  <2>4. \A p \in Proposals : Sound(p)
    BY DEF Init, Sound
  <2> QED
    BY <2>1, <2>2, <2>3, <2>4 DEF LInv
<1>2. LInv /\ [Next]_vars => LInv'
  <2> SUFFICES ASSUME LInv, [Next]_vars PROVE LInv'
    OBVIOUS
  <2>1. TypeOK /\ \A r \in Runs : RunOK(r) /\ Standing(r) /\ BatchOK(r)
    BY DEF LInv, IInv
  <2>2. Lasting
    BY <2>1, LastingStep
  <2>3. IInv'
    <3>1. TypeOK'
      BY TypeStep DEF LInv
    <3> QED
      BY <2>1, <3>1, RunsStep, NotesAndStatusStep DEF LInv, IInv
  <2>4. ASSUME NEW q \in Runs PROVE Standing(q)' /\ BatchOK(q)'
    <3>1. CASE pc'[q] = pc[q] /\ todo'[q] = todo[q] /\ cur'[q] = cur[q] /\ target'[q] = target[q]
      <4>1. BatchOK(q)'
        BY <2>1, <3>1 DEF BatchOK, chosen
      <4> QED
        BY <2>1, <2>2, <3>1, <4>1, StandingRests
    <3>2. CASE Step(q) \/ Fault(q)
      BY <2>1, <2>2, <3>2, StandingActs, BatchActs DEF LInv
    <3>3. ASSUME NEW r \in Runs, Step(r) \/ Fault(r), r # q PROVE AtRest(q)
      BY <2>1, <3>3, OthersAtRest
    <3>4. CASE Environment \/ UNCHANGED vars
      BY <3>1, <3>4 DEF Environment, Propose, Approve, Reject, LinkDeal, AddContact, vars, local
    <3> QED
      BY <3>1, <3>2, <3>3, <3>4 DEF Next, AtRest
  <2>5. \A p \in Proposals : Sound(p)'
    BY SoundStep
  <2> QED
    BY <2>3, <2>4, <2>5 DEF LInv
<1> QED
  BY <1>1, <1>2, PTL DEF Spec

(* What no human approved reached Attio's people only with enough          *)
(* confidence and allowlisted slugs, whatever was decided meanwhile (rule  *)
(* 1 of the guardrails, decidePeople).                                     *)
THEOREM UnapprovedWritesStaySafe == Spec => []UnapprovedWritesAreSafe
<1>1. LInv => UnapprovedWritesAreSafe
  BY DEF LInv, Sound, UnapprovedWritesAreSafe, decidePeople
<1> QED
  BY <1>1, StrongInvariance, PTL

(* One run considers at most APPLY_BATCH_LIMIT proposals, however many     *)
(* there are and whatever changes between its two queries (run).           *)
THEOREM BatchesStayWithinLimit == Spec => []BatchWithinLimit
<1>1. LInv => BatchWithinLimit
  BY DEF LInv, BatchOK, BatchWithinLimit, chosen
<1> QED
  BY <1>1, StrongInvariance, PTL

-----------------------------------------------------------------------------
(* The refinement.  What Lifecycle calls noted and the operators it takes  *)
(* from Guardrails, seen from Apply.                                       *)
Noted == [p \in Proposals |-> notedOn(p)]

(* Lifecycle's view of the promise is Apply's.                             *)
LEMMA SameOperators ==
    ASSUME NEW p \in Proposals
    PROVE  /\ Abstract!isDeal(p) = isDeal(p)
           /\ Abstract!writePart(p) = written(p)
           /\ Abstract!mayWritePerson(p) = decidePeople(Prop[p], p \in approvedEver)
BY DEF Abstract!isDeal, isDeal, Abstract!writePart, written, Abstract!partitionDealChanges,
   partitionDealChanges, Abstract!mapped, mapped, Abstract!mayWritePerson,
   Abstract!decidePeople, decidePeople, Abstract!touchesDealStage, touchesDealStage,
   Abstract!unsafe, unsafe

(* The initial states of Apply are initial states of Lifecycle.            *)
LEMMA InitRefines == Init => Abstract!Init
BY DEF Init, Abstract!Init, notedOn

(* A step that touches none of these is a stutter of Lifecycle.            *)
Quiet == UNCHANGED <<status, error, approvedEver, notes, fields, asserted>>

(* Everything Lifecycle sees is unchanged when these are.                  *)
LEMMA QuietStutters == Quiet => UNCHANGED Abstract!vars
BY DEF Quiet, Abstract!vars, notedOn

(* Notes that do not change are the notes Lifecycle sees.                  *)
LEMMA SameNotes == UNCHANGED notes => Noted' = Noted
BY DEF Noted, notedOn

(* A run's step is a step of the life of the proposal it is at.            *)
LEMMA RunRefines ==
    ASSUME LInv, NEW r \in Runs, Step(r) \/ Fault(r)
    PROVE  Abstract!Next \/ UNCHANGED Abstract!vars
<1> DEFINE p == cur[r]
<1>1. TypeOK /\ RunOK(r) /\ Standing(r) /\ \A q \in Proposals : Sound(q)
  BY DEF LInv, IInv
<1>2. /\ approvedEver' = approvedEver
      /\ UNCHANGED notes \/ OwnNote(r)
      /\ UNCHANGED fields \/ OwnFields(r)
      /\ UNCHANGED asserted \/ OwnPerson(r)
  BY <1>1, OwnWrites, RunStep
<1>3. ASSUME Busy(r)
      PROVE  /\ p \in Proposals /\ status[p] # "absent"
             /\ todo[r][p] = "approved" => p \in approvedEver
  BY <1>1, <1>3 DEF RunOK, Standing
<1>4. CASE WriteBack(r)
  <2>1. /\ pc[r] \in {"block", "fail"}
        /\ status' = [status EXCEPT ![p] = todo[r][p]]
        /\ error' = [error EXCEPT ![p] = IF pc[r] = "block" THEN "blocked" ELSE "failed"]
    BY <1>4 DEF WriteBack, markStatus
  <2>2. UNCHANGED <<notes, fields, asserted>>
    BY <1>2, <2>1 DEF OwnNote, OwnFields, OwnPerson
  <2>3. p \in Proposals /\ todo[r][p] \in {"pending", "approved"}
    BY <1>1, <2>1 DEF RunOK, Busy
  <2>4. Abstract!GiveBack(p, todo[r][p], IF pc[r] = "block" THEN "blocked" ELSE "failed")
    BY <1>1, <1>2, <1>3, <2>1, <2>2, SameNotes DEF Abstract!GiveBack, Noted, Busy, Standing
  <2> QED
    BY <2>3, <2>4 DEF Abstract!Next
<1>5. CASE /\ Marks(r)
           /\ status' = [status EXCEPT ![p] = "applied"]
           /\ error' = [error EXCEPT ![p] = IF softError[r] THEN "soft" ELSE "none"]
  <2>1. pc[r] = "mark" /\ UNCHANGED <<notes, fields>>
    BY <1>5 DEF Marks
  <2>2. UNCHANGED asserted
    BY <1>2, <2>1 DEF OwnPerson
  <2>3. p \in Proposals /\ target[r] \in Records /\ notes[p][target[r]] > 0
    BY <1>1, <1>3, <2>1 DEF RunOK, Busy, AfterNote
  <2>4. Noted[p] # {}
    BY <2>3 DEF Noted, notedOn
  <2>5. ASSUME isDeal(p), ~ softError[r] PROVE Abstract!complete(p)
    <3>1. target[r] \in Deals /\ written(p) \subseteq fields[p][target[r]]
      BY <1>1, <2>1, <2>5 DEF RunOK, AfterPatch
    <3>2. fields[p][target[r]] = written(p)
      BY <1>1, <2>3, <3>1 DEF Sound
    <3>3. target[r] \in Noted[p]
      BY <2>3 DEF Noted, notedOn
    <3> QED
      BY <2>3, <3>1, <3>2, <3>3, SameOperators DEF Abstract!complete, Noted
  <2>6. Abstract!Apply(p, IF softError[r] THEN "soft" ELSE "none")
    BY <1>2, <1>5, <2>1, <2>2, <2>3, <2>4, <2>5, SameNotes, SameOperators
    DEF Abstract!Apply, Noted
  <2> QED
    BY <2>3, <2>6 DEF Abstract!Next
<1>6. CASE UNCHANGED <<status, error>>
  <2>1. CASE OwnNote(r)
    <3>1. p \in Proposals /\ pc[r] \in {"note", "personNote"} /\ UNCHANGED <<fields, asserted>>
      BY <1>2, <1>3, <2>1 DEF OwnNote, OwnFields, OwnPerson, Busy
    <3>2. target[r] \in IF isDeal(p) THEN Deals ELSE asserted[p]
      BY <1>1, <3>1 DEF RunOK, Standing, DealPoints
    <3>3. target[r] \in Deals \cup Persons
      BY <1>1, <3>1, <3>2 DEF TypeOK
    <3>4. Noted' = [Noted EXCEPT ![p] = @ \cup {target[r]}]
      <4>1. notes \in [Proposals -> [Records -> 0..2]]
        BY <1>1 DEF TypeOK, NoteCap
      <4>2. notes' = [notes EXCEPT ![p] = [notes[p] EXCEPT ![target[r]] = more(notes[p][target[r]])]]
        BY <2>1 DEF OwnNote, createNote
      <4>3. \A q \in Proposals, rec \in Records :
                notes'[q][rec] > 0 <=> notes[q][rec] > 0 \/ (q = p /\ rec = target[r])
        <5>1. \A n \in 0..2 : more(n) > 0
          BY DEF more, NoteCap
        <5> QED
          BY <3>1, <3>3, <4>1, <4>2, <5>1 DEF Records
      <4>4. \A q \in Proposals :
                notedOn(q)' = IF q = p THEN notedOn(q) \cup {target[r]} ELSE notedOn(q)
        BY <3>3, <4>3 DEF notedOn, Records
      <4> QED
        BY <3>1, <4>4 DEF Noted
    <3>5. Abstract!Note(p, target[r])
      BY <1>2, <1>3, <1>6, <3>1, <3>2, <3>4, SameOperators DEF Abstract!Note, Noted, Busy
    <3> QED
      BY <3>1, <3>3, <3>5 DEF Abstract!Next
  <2>2. CASE OwnFields(r)
    <3>1. p \in Proposals /\ pc[r] = "patch" /\ UNCHANGED <<notes, asserted>>
      BY <1>2, <1>3, <2>2 DEF OwnNote, OwnFields, OwnPerson, Busy
    <3>2. isDeal(p) /\ target[r] \in Deals /\ notes[p][target[r]] > 0
      BY <1>1, <3>1 DEF RunOK, DealPoints, AfterNote
    <3>3. target[r] \in Noted[p]
      BY <3>1, <3>2 DEF Noted, notedOn, Records
    <3>4. fields' = [fields EXCEPT ![p][target[r]] = written(p)]
      <4>1. fields[p][target[r]] \cup written(p) = written(p)
        BY <1>1, <3>1, <3>2 DEF Sound
      <4> QED
        BY <2>2, <4>1 DEF OwnFields, patchFields
    <3>5. Abstract!WriteFields(p, target[r])
      BY <1>2, <1>6, <3>1, <3>2, <3>3, <3>4, SameNotes, SameOperators
      DEF Abstract!WriteFields, Noted
    <3> QED
      BY <3>1, <3>2, <3>5 DEF Abstract!Next
  <2>3. CASE OwnPerson(r)
    <3>1. p \in Proposals /\ pc[r] = "assert" /\ UNCHANGED <<notes, fields>>
      BY <1>2, <1>3, <2>3 DEF OwnNote, OwnFields, OwnPerson, Busy
    <3>2. ~ isDeal(p) /\ decidePeople(Prop[p], p \in approvedEver)
      <4>1. ~ isDeal(p) /\ decidePeople(Prop[p], todo[r][p] = "approved")
        BY <1>1, <3>1 DEF RunOK, Standing
      <4>2. todo[r][p] = "approved" => p \in approvedEver
        BY <1>3, <3>1 DEF Busy
      <4> QED
        BY <4>1, <4>2 DEF decidePeople
    <3>3. asserted' = [asserted EXCEPT ![p] = @ \cup ({Prop[p].person} \ {Null})]
      <4>1. {Prop[p].person} \ {Null} = {Prop[p].person}
        BY <2>3 DEF OwnPerson
      <4> QED
        BY <2>3, <4>1 DEF OwnPerson, assertRecord
    <3>4. Abstract!WritePerson(p)
      BY <1>2, <1>3, <1>6, <3>1, <3>2, <3>3, SameNotes, SameOperators
      DEF Abstract!WritePerson, Noted, Busy
    <3> QED
      BY <3>1, <3>4 DEF Abstract!Next
  <2>4. CASE UNCHANGED <<notes, fields, asserted>>
    BY <1>2, <1>6, <2>4, QuietStutters DEF Quiet
  <2> QED
    BY <1>2, <2>1, <2>2, <2>3, <2>4
<1> QED
  BY <1>1, <1>4, <1>5, <1>6, StatusStep

(* What the others do is a step of Lifecycle too, or none of its business. *)
LEMMA EnvironmentRefines ==
    ASSUME LInv, Environment \/ UNCHANGED vars
    PROVE  Abstract!Next \/ UNCHANGED Abstract!vars
<1>1. ASSUME NEW p \in Proposals, Propose(p) \/ Approve(p) \/ Reject(p)
      PROVE  Abstract!Next
  <2>1. UNCHANGED <<notes, fields, asserted, error>>
    BY <1>1 DEF Propose, Approve, Reject, attio
  <2>2. Abstract!Propose(p) \/ Abstract!Approve(p) \/ Abstract!Reject(p)
    BY <1>1, <2>1, SameNotes
    DEF Propose, Approve, Reject, Abstract!Propose, Abstract!Approve, Abstract!Reject, Noted, history
  <2> QED
    BY <2>2 DEF Abstract!Next
<1>2. CASE \/ \E c \in Chats, d \in Deals : LinkDeal(c, d)
           \/ \E d \in Deals, x \in Persons : AddContact(d, x)
           \/ UNCHANGED vars
  <2>1. Quiet
    BY <1>2 DEF LinkDeal, AddContact, vars, d1, attio, history, Quiet
  <2> QED
    BY <2>1, QuietStutters
<1> QED
  BY <1>1, <1>2 DEF Environment

(* Whatever overlaps and fails, the apply Worker keeps the promise that    *)
(* Lifecycle states (run, applyDeal, applyPerson, markStatus).             *)
THEOREM Refinement == Spec => ImplementsLifecycle
<1>1. Init => Abstract!Init
  BY InitRefines
<1>2. LInv /\ [Next]_vars => [Abstract!Next]_(Abstract!vars)
  <2> SUFFICES ASSUME LInv, [Next]_vars PROVE Abstract!Next \/ UNCHANGED Abstract!vars
    OBVIOUS
  <2> QED
    BY RunRefines, EnvironmentRefines DEF Next
<1> QED
  BY <1>1, <1>2, StrongInvariance, PTL DEF Spec, ImplementsLifecycle, Abstract!Spec

-----------------------------------------------------------------------------
(* When no two runs overlap.  A cron tick and a POST /run share nothing    *)
(* but D1, and nothing in the Worker keeps them apart: that they do not    *)
(* overlap is a hypothesis of its own, and MCApplyTwoNotes shows what      *)
(* happens without it.                                                     *)
(*                                                                         *)
(* Then what a run goes through was pending or approved when it listed it  *)
(* and nobody applies it meanwhile.  This is said of deals whatever fails, *)
(* since applyDeal marks outside of any try; of people only when nothing   *)
(* fails, since applyPerson gives back what D1 did not mark.               *)

Alone == \A r, q \in Runs : pc[r] # "idle" /\ pc[q] # "idle" => r = q

settles(p) == isDeal(p) \/ FaultKinds = {}

(* No run holds an applied proposal. *)
Settled ==
    /\ \A r \in Runs : pc[r] = "idle" => todo[r] = NoWork
    /\ \A p \in Proposals :
           settles(p) /\ status[p] = "applied" => \A r \in Runs : todo[r][p] = "no"

(* An applied proposal is not taken up again. *)
StaysApplied ==
    \A p \in Proposals : settles(p) /\ status[p] = "applied" => status'[p] = "applied"

(* Without faults a run that marks a proposal drops it, deal or not.       *)
LEMMA MarksAndDrops ==
    ASSUME TypeOK, NEW r \in Runs, RunOK(r), Step(r) \/ Fault(r), NEW p \in Proposals, settles(p),
           status[p] # "applied", status'[p] = "applied"
    PROVE  p = cur[r] /\ pc[r] = "mark" /\ todo'[r][p] = "no"
<1>1. /\ pc[r] = "mark" /\ cur[r] \in Proposals
      /\ status' = [status EXCEPT ![cur[r]] = "applied"]
      /\ isDeal(cur[r]) => todo'[r][cur[r]] = "no"
  <2>1. status' # status
    OBVIOUS
  <2>2. ASSUME todo[r][cur[r]] \in {"pending", "approved"}, cur[r] \in Proposals,
               status' = [status EXCEPT ![cur[r]] = todo[r][cur[r]]]
        PROVE  FALSE
    BY <2>2 DEF TypeOK
  <2> QED
    BY <2>1, <2>2, StatusStep DEF Marks
<1>2. p = cur[r]
  BY <1>1 DEF TypeOK
<1>3. ASSUME FaultKinds = {} PROVE todo'[r][p] = "no"
  <2>1. MarkApplied(r)
    BY <1>1, <1>3
    DEF Step, Fault, ListApproved, ListPending, Consider, EndRun, WriteBack, CreateDealNote,
       PatchFields, ReadContacts, PatchContacts, AssertPerson, AssertPersonRefused,
       CreatePersonNote, CreateNoteFails, PatchFieldsFails, ReadContactsFails,
       PatchContactsFails, AssertPersonFails, MarkAppliedFails, Crash, callFails, fault
  <2> QED
    BY <1>2, <2>1 DEF MarkApplied, next, TypeOK
<1> QED
  BY <1>1, <1>2, <1>3 DEF settles

(* The lists of a run name no applied proposal and what it drops stays     *)
(* dropped (run).                                                          *)
LEMMA TakesUpOpenOnes ==
    ASSUME TypeOK, NEW r \in Runs, Step(r) \/ Fault(r), NEW p \in Proposals,
           todo[r][p] = "no", todo'[r][p] # "no"
    PROVE  status[p] \in {"pending", "approved"} /\ UNCHANGED status
<1>1. CASE ListApproved(r)
  BY <1>1 DEF ListApproved, listByStatus, d1, TypeOK
<1>2. CASE ListPending(r)
  BY <1>2 DEF ListPending, listByStatus, d1, TypeOK
<1>3. ~ Drops(r)
  BY DEF Drops
<1> QED
  BY <1>1, <1>2, <1>3, RunStep

(* An idle run is at no proposal, and nothing but its own step makes it    *)
(* idle.                                                                   *)
LEMMA SettledStep ==
    ASSUME IInv, Settled, Alone, [Next]_vars
    PROVE  Settled' /\ StaysApplied
<1>1. TypeOK /\ \A r \in Runs : RunOK(r)
  BY DEF IInv
<1>2. ASSUME NEW r \in Runs, Step(r) \/ Fault(r) PROVE Settled' /\ StaysApplied
  <2>1. \A q \in Runs : q # r => pc'[q] = pc[q] /\ todo'[q] = todo[q]
    BY <1>1, <1>2, OthersAtRest DEF AtRest
  <2>2. ASSUME NEW q \in Runs, pc'[q] = "idle" PROVE todo'[q] = NoWork
    <3>1. CASE q = r
      <4>1. Drops(r)
        BY <1>1, <1>2, <2>2, <3>1, RunStep DEF ListApproved, ListPending, goto, TypeOK
      <4> QED
        BY <2>2, <3>1, <4>1 DEF Drops
    <3> QED
      BY <2>1, <2>2, <3>1 DEF Settled
  <2>3. StaysApplied
    <3> SUFFICES ASSUME NEW p \in Proposals, settles(p), status[p] = "applied"
                 PROVE  status'[p] = "applied"
      BY DEF StaysApplied
    <3>1. todo[r][p] = "no"
      BY DEF Settled
    <3> QED
      BY <1>1, <1>2, <3>1, StatusStep DEF TypeOK
  <2>4. ASSUME NEW p \in Proposals, settles(p), status'[p] = "applied", NEW q \in Runs
        PROVE  todo'[q][p] = "no"
    <3>1. CASE status[p] = "applied"
      <4>1. todo[q][p] = "no"
        BY <2>4, <3>1 DEF Settled
      <4> QED
        BY <1>1, <1>2, <2>1, <3>1, <4>1, TakesUpOpenOnes
    <3>2. CASE status[p] # "applied"
      <4>1. pc[r] = "mark" /\ todo'[r][p] = "no"
        BY <1>1, <1>2, <2>4, <3>2, MarksAndDrops
      <4>2. q # r => todo[q] = NoWork
        BY <4>1 DEF Alone, Settled
      <4> QED
        BY <2>1, <4>1, <4>2 DEF NoWork
    <3> QED
      BY <3>1, <3>2
  <2> QED
    BY <2>2, <2>3, <2>4 DEF Settled
<1>3. CASE Environment \/ UNCHANGED vars
  <2>1. pc' = pc /\ todo' = todo
    BY <1>3 DEF Environment, Propose, Approve, Reject, LinkDeal, AddContact, vars, local
  <2>2. \A p \in Proposals : status'[p] = "applied" <=> status[p] = "applied"
    BY <1>1, <1>3 DEF Environment, Propose, Approve, Reject, LinkDeal, AddContact, vars, d1, TypeOK
  <2> QED
    BY <2>1, <2>2 DEF Settled, StaysApplied
<1> QED
  BY <1>2, <1>3 DEF Next

(* While no two runs overlap, no run holds an applied deal proposal.       *)
THEOREM AppliedAreSettled == Spec /\ []Alone => []Settled
<1>1. Init => Settled
  BY DEF Init, Settled, NoWork
<1>2. IInv /\ Settled /\ Alone /\ [Next]_vars => Settled'
  BY SettledStep
<1> QED
  BY <1>1, <1>2, Invariance, PTL DEF Spec

(* While no two runs overlap an applied deal proposal stays applied,       *)
(* whatever fails and whoever decides what meanwhile (markStatus).         *)
THEOREM AppliedStaysApplied == Spec /\ []Alone => AppliedIsFinal
<1> DEFINE Final == \A p \in Proposals :
               Prop[p].object = "deals" /\ status[p] = "applied" => status'[p] = "applied"
<1>1. IInv /\ Settled /\ Alone /\ [Next]_vars => [Final]_vars
  BY SettledStep DEF StaysApplied, settles, isDeal
<1> QED
  BY <1>1, Invariance, AppliedAreSettled, PTL DEF Spec, AppliedIsFinal

(* In particular when there is a single execution of run() at all.         *)
THEOREM OneRunAppliesForGood ==
    ASSUME \A r, q \in Runs : r = q
    PROVE  Spec => AppliedIsFinal
<1>1. Alone
  BY DEF Alone
<1>2. []Alone
  BY <1>1, PTL
<1> QED
  BY <1>2, AppliedStaysApplied, PTL

(* Moreover, if a call that is answered with an error did nothing and no   *)
(* run is cut short, a proposal is noted once: until it is applied, the    *)
(* run that noted it is still at it.                                       *)
Reliable == FaultKinds \cap {"lostReply", "crash"} = {}

NotedOnce(p) ==
    /\ hasNote(p) => status[p] = "applied" \/ \E r \in Runs : pc[r] \in AfterNote /\ cur[r] = p
    /\ \A rec1, rec2 \in Records :
           notes[p][rec1] > 0 /\ notes[p][rec2] > 0 => rec1 = rec2 /\ notes[p][rec1] = 1

(* From its note on, a run goes on to mark the proposal applied (applyDeal,*)
(* applyPerson).                                                           *)
LEMMA NotedIsMarked ==
    ASSUME Reliable, TypeOK, NEW r \in Runs, RunOK(r), Step(r) \/ Fault(r)
    PROVE  /\ UNCHANGED notes \/ (OwnNote(r) /\ pc'[r] \in AfterNote /\ cur' = cur)
           /\ pc[r] \in AfterNote /\ settles(cur[r]) =>
                  \/ pc'[r] \in AfterNote /\ cur' = cur
                  \/ status'[cur[r]] = "applied"
<1> USE DEF TypeOK, AfterNote, goto
<1> ~ fault("lostReply") /\ ~ fault("crash")
  BY DEF Reliable, fault
<1>1. CASE \/ ListApproved(r) \/ ListPending(r) \/ Consider(r) \/ EndRun(r) \/ WriteBack(r)
           \/ AssertPersonRefused(r)
  BY <1>1 DEF ListApproved, ListPending, Consider, EndRun, WriteBack, AssertPersonRefused, attio
<1>2. CASE CreateDealNote(r)
  BY <1>2 DEF CreateDealNote, OwnNote, afterNote, afterPatch
<1>3. CASE CreatePersonNote(r)
  BY <1>3 DEF CreatePersonNote, OwnNote
<1>4. CASE CreateNoteFails(r)
  BY <1>4 DEF CreateNoteFails, callFails
<1>5. CASE PatchFields(r) \/ PatchFieldsFails(r)
  BY <1>5 DEF PatchFields, PatchFieldsFails, afterPatch
<1>6. CASE ReadContacts(r) \/ ReadContactsFails(r)
  BY <1>6 DEF ReadContacts, ReadContactsFails, attio
<1>7. CASE PatchContacts(r) \/ PatchContactsFails(r)
  BY <1>7 DEF PatchContacts, PatchContactsFails
<1>8. CASE AssertPerson(r) \/ AssertPersonFails(r)
  BY <1>8 DEF AssertPerson, AssertPersonFails
<1>9. CASE MarkApplied(r)
  BY <1>9 DEF MarkApplied, markApplied, markStatus, RunOK, Busy, attio
<1>10. CASE MarkAppliedFails(r)
  <2>1. /\ UNCHANGED notes
        /\ Prop[cur[r]].object = "people"
        /\ FaultKinds # {}
    BY <1>10 DEF MarkAppliedFails, callFails, fault, attio
  <2> QED
    BY <2>1 DEF settles, isDeal
<1>11. ~ Crash(r)
  BY DEF Crash
<1> QED
  BY <1>1, <1>2, <1>3, <1>4, <1>5, <1>6, <1>7, <1>8, <1>9, <1>10, <1>11 DEF Step, Fault

(* A note is the first of its proposal, and the others' are left alone.    *)
LEMMA NotedOnceStep ==
    ASSUME Reliable, IInv, Settled, Alone, [Next]_vars,
           NEW p \in Proposals, settles(p), NotedOnce(p)
    PROVE  NotedOnce(p)'
<1>1. TypeOK /\ \A r \in Runs : RunOK(r)
  BY DEF IInv
<1>2. StaysApplied
  BY SettledStep
<1>3. ASSUME NEW r \in Runs, Step(r) \/ Fault(r) PROVE NotedOnce(p)'
  <2>1. \A q \in Runs : q # r => pc'[q] = pc[q] /\ cur'[q] = cur[q]
    BY <1>1, <1>3, OthersAtRest DEF AtRest
  <2>2. CASE OwnNote(r) /\ p = cur[r] /\ pc'[r] \in AfterNote /\ cur' = cur
    <3>1. todo[r][p] # "no" /\ pc[r] \in {"note", "personNote"} /\ target[r] \in Records
      BY <1>1, <2>2 DEF OwnNote, RunOK, Busy, DealPoints, Records
    <3>2. status[p] # "applied"
      BY <3>1 DEF Settled
    <3>3. \A q \in Runs : pc[q] \notin AfterNote
      BY <3>1 DEF Alone, AfterNote
    <3>4. ~ hasNote(p)
      BY <3>2, <3>3 DEF NotedOnce
    <3>5. notes \in [Proposals -> [Records -> 0..2]]
      BY <1>1 DEF TypeOK, NoteCap
    <3>6. \A rec \in Records : notes[p][rec] = 0
      BY <3>4, <3>5 DEF hasNote
    <3>7. notes' = [notes EXCEPT ![p] = [notes[p] EXCEPT ![target[r]] = more(notes[p][target[r]])]]
      BY <2>2 DEF OwnNote, createNote
    <3>8. more(0) = 1
      BY DEF more, NoteCap
    <3>9. \A rec \in Records : notes'[p][rec] = IF rec = target[r] THEN 1 ELSE 0
      BY <3>1, <3>5, <3>6, <3>7, <3>8
    <3>10. \A rec1, rec2 \in Records :
               notes'[p][rec1] > 0 /\ notes'[p][rec2] > 0 => rec1 = rec2 /\ notes'[p][rec1] = 1
      BY <3>9
    <3> QED
      BY <2>2, <3>10 DEF NotedOnce
  <2>3. CASE notes'[p] = notes[p]
    <3>1. hasNote(p)' => hasNote(p)
      BY <2>3 DEF hasNote
    <3>2. ASSUME NEW q \in Runs, pc[q] \in AfterNote, cur[q] = p
          PROVE  status'[p] = "applied" \/ (pc'[q] \in AfterNote /\ cur'[q] = p)
      BY <1>1, <1>3, <2>1, <3>2, NotedIsMarked
    <3>3. hasNote(p)' =>
              status'[p] = "applied" \/ \E q \in Runs : pc'[q] \in AfterNote /\ cur'[q] = p
      BY <1>2, <3>1, <3>2 DEF NotedOnce, StaysApplied
    <3> QED
      BY <2>3, <3>3 DEF NotedOnce
  <2>4. ASSUME OwnNote(r), p # cur[r] PROVE notes'[p] = notes[p]
    BY <1>1, <2>4 DEF OwnNote, createNote, TypeOK
  <2> QED
    BY <1>1, <1>3, <2>2, <2>3, <2>4, NotedIsMarked
<1>4. CASE Environment \/ UNCHANGED vars
  <2>1. pc' = pc /\ cur' = cur /\ notes' = notes
    BY <1>4 DEF Environment, Propose, Approve, Reject, LinkDeal, AddContact, vars, local, attio
  <2> QED
    BY <1>2, <2>1 DEF NotedOnce, hasNote, StaysApplied
<1> QED
  BY <1>3, <1>4 DEF Next

(* While no two runs overlap, no reply is lost and no run cut short, a     *)
(* deal proposal leaves one note at most, on one deal: what overlap or a   *)
(* fault between note and status costs is exactly this (applyDeal).        *)
THEOREM DealsAreNotedOnce ==
    ASSUME Reliable
    PROVE  Spec /\ []Alone => [](\A p \in Proposals : settles(p) => NotedOnce(p))
<1> DEFINE Once == \A p \in Proposals : settles(p) => NotedOnce(p)
<1>1. Init => Once
  BY DEF Init, NotedOnce, hasNote
<1>2. IInv /\ Settled /\ Alone /\ Once /\ [Next]_vars => Once'
  BY NotedOnceStep DEF settles
<1> QED
  BY <1>1, <1>2, Invariance, AppliedAreSettled, PTL DEF Spec

(* When nothing fails and no two runs overlap, every proposal leaves one   *)
(* note at most (applyDeal, applyPerson).                                  *)
THEOREM NotedOnceWithoutFaults ==
    ASSUME FaultKinds = {}
    PROVE  Spec /\ []Alone => []AtMostOneNote
<1>1. Reliable
  BY DEF Reliable
<1>2. (\A p \in Proposals : settles(p) => NotedOnce(p)) => AtMostOneNote
  BY DEF settles, NotedOnce, AtMostOneNote
<1> QED
  BY <1>1, <1>2, DealsAreNotedOnce, PTL

=============================================================================
