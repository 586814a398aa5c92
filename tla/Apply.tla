--------------------------------- MODULE Apply ---------------------------------
(***************************************************************************)
(* The apply Worker (apps/apply/src/index.ts) with the tables it shares    *)
(* (packages/db/src/client.ts) and the Attio workspace it writes to.       *)
(*                                                                         *)
(* A run is one execution of run(env): a cron tick or a POST /run.  Runs   *)
(* share D1 and Attio and nothing else, so every await is a point where    *)
(* another run, the operator, the extract Worker or a salesperson can act. *)
(* One action is the code between two awaits.                              *)
(*                                                                         *)
(* D1:     status, error   crm_proposals                                   *)
(*         liveDeal        deal_map: the confirmed deal of a chat, or Null *)
(* Attio:  notes           provenance notes per proposal and record        *)
(*         fields          deal attributes written, and by which proposal  *)
(*         contacts        the deal's associated_people                    *)
(*         asserted        people records written, and by which proposal   *)
(* Run:    pc, todo, cur, target, seen, softError                          *)
(* History (written, never read by an action):                             *)
(*         approvedEver    proposals a human approved at some time         *)
(*         liveDuring      per run, the deals that were some chat's        *)
(*                         confirmed deal while it was running             *)
(***************************************************************************)
EXTENDS Guardrails

CONSTANTS
    Runs,             \* executions of run() that may overlap
    Proposals,        \* proposal ids; a smaller id has an earlier created_at
    Prop,             \* the columns of a proposal that never change
    Chats, Deals,
    Persons,          \* people records, named by their matching attribute
    Limit,            \* APPLY_BATCH_LIMIT
    LinkParticipants, \* ATTIO_LINK_PARTICIPANTS = 'true'
    HumanContacts,    \* people a salesperson may add to a deal in Attio
    FaultKinds,       \* the faults that may occur
    MaxFaults         \* bound on the number of faults

Records == Deals \cup Persons

Columns == [object: Objects, chat: Chats \cup {Null}, record: Records \cup {Null},
            malformed: BOOLEAN, changes: SUBSET Slugs, confidence: 0..100,
            participants: SUBSET Persons, person: Persons \cup {Null}]

(* The extract Worker never inserts a deal proposal without its chat. *)
ASSUME ProposalAssumption ==
    /\ Proposals \subseteq Nat
    /\ Prop \in [Proposals -> Columns]
    /\ \A p \in Proposals : Prop[p].object = "deals" => Prop[p].chat \in Chats

ASSUME NullAssumption == Null \notin Records \cup Chats \cup Proposals

ASSUME BoundAssumption ==
    /\ Limit \in Nat
    /\ MaxFaults \in Nat
    /\ LinkParticipants \in BOOLEAN
    /\ HumanContacts \subseteq Persons
    /\ FaultKinds \subseteq {"refused", "lostReply", "crash"}

VARIABLES
    status, error, liveDeal,
    notes, fields, contacts, asserted,
    pc, todo, cur, target, seen, softError,
    approvedEver, liveDuring, faults

d1      == <<status, error, liveDeal>>
attio   == <<notes, fields, contacts, asserted>>
local   == <<pc, todo, cur, target, seen, softError>>
history == <<approvedEver, liveDuring>>
vars    == <<d1, attio, local, history, faults>>

-----------------------------------------------------------------------------
(* Types and initial state                                                 *)

Statuses == {"pending", "approved", "applied", "rejected"}

(* "absent": the row is not inserted yet. *)
RowStatuses == Statuses \cup {"absent"}

(* What the error column holds: nothing, a failed call, a guardrail's      *)
(* refusal, or a best-effort write that was skipped.                       *)
Errors == {"none", "failed", "blocked", "soft"}

Points == {"idle", "listPending", "loop", "block", "note", "fail", "patch",
           "readContacts", "patchContacts", "assert", "personNote", "mark"}

(* Notes are counted up to NoteCap: two notes and more are the same. *)
NoteCap == 2

(* The type invariant of the apply Worker's tables, of Attio and of the runs. *)
TypeOK ==
    /\ status \in [Proposals -> RowStatuses]
    /\ error \in [Proposals -> Errors]
    /\ liveDeal \in [Chats -> Deals \cup {Null}]
    /\ notes \in [Proposals -> [Records -> 0..NoteCap]]
    /\ fields \in [Proposals -> [Deals -> SUBSET AttioSlugs]]
    /\ contacts \in [Deals -> SUBSET Persons]
    /\ asserted \in [Proposals -> SUBSET Persons]
    /\ pc \in [Runs -> Points]
    /\ todo \in [Runs -> [Proposals -> {"no", "pending", "approved"}]]
    /\ cur \in [Runs -> Proposals \cup {Null}]
    /\ target \in [Runs -> Records \cup {Null}]
    /\ seen \in [Runs -> SUBSET Persons]
    /\ softError \in [Runs -> BOOLEAN]
    /\ approvedEver \subseteq Proposals
    /\ liveDuring \in [Runs -> [Chats -> SUBSET Deals]]
    /\ faults \in 0..MaxFaults

NoWork == [p \in Proposals |-> "no"]

NoDeals == [c \in Chats |-> {}]

Init ==
    /\ status = [p \in Proposals |-> "absent"]
    /\ error = [p \in Proposals |-> "none"]
    /\ liveDeal = [c \in Chats |-> Null]
    /\ notes = [p \in Proposals |-> [rec \in Records |-> 0]]
    /\ fields = [p \in Proposals |-> [d \in Deals |-> {}]]
    /\ contacts = [d \in Deals |-> {}]
    /\ asserted = [p \in Proposals |-> {}]
    /\ pc = [r \in Runs |-> "idle"]
    /\ todo = [r \in Runs |-> NoWork]
    /\ cur = [r \in Runs |-> Null]
    /\ target = [r \in Runs |-> Null]
    /\ seen = [r \in Runs |-> {}]
    /\ softError = [r \in Runs |-> FALSE]
    /\ approvedEver = {}
    /\ liveDuring = [r \in Runs |-> NoDeals]
    /\ faults = 0

-----------------------------------------------------------------------------
(* packages/db                                                             *)

(* Mutant: applied proposals with a soft error are listed for a retry. *)
RetriesSoft_listByStatus(st, n) ==
    {p \in Proposals : status[p] = st \/ (status[p] = "applied" /\ error[p] = "soft")}

(* SELECT ... WHERE status = st ORDER BY created_at ASC LIMIT n *)
listByStatus(st, n) ==
    {p \in Proposals : /\ status[p] = st
                       /\ Cardinality({q \in Proposals : status[q] = st /\ q < p}) < n}

(* UPDATE crm_proposals SET status, error WHERE id: unconditional. *)
markStatus(p, st, err) ==
    /\ status' = [status EXCEPT ![p] = st]
    /\ error' = [error EXCEPT ![p] = err]

-----------------------------------------------------------------------------
(* The run                                                                 *)

goto(r, point) == pc' = [pc EXCEPT ![r] = point]

(* A call fails only while faults are left. *)
fault(kind) == /\ kind \in FaultKinds
               /\ faults < MaxFaults
               /\ faults' = faults + 1

(* The run drops the candidate it is at and its locals go out of scope. *)
next(r) ==
    /\ goto(r, "loop")
    /\ todo' = [todo EXCEPT ![r][cur[r]] = "no"]
    /\ cur' = [cur EXCEPT ![r] = Null]
    /\ target' = [target EXCEPT ![r] = Null]
    /\ seen' = [seen EXCEPT ![r] = {}]
    /\ softError' = [softError EXCEPT ![r] = FALSE]

liveNow == [c \in Chats |-> {liveDeal[c]} \ {Null}]

(* The first await of run(): the approved proposals, oldest first. *)
ListApproved(r) ==
    /\ pc[r] = "idle"
    /\ goto(r, "listPending")
    /\ todo' = [todo EXCEPT ![r] =
           [p \in Proposals |-> IF p \in listByStatus("approved", Limit)
                                THEN "approved" ELSE "no"]]
    /\ liveDuring' = [liveDuring EXCEPT ![r] = liveNow]
    /\ UNCHANGED <<d1, attio, cur, target, seen, softError,
                   approvedEver, faults>>

(* Mutant: the second query has the whole limit to itself. *)
FullLimit_ListPending(r) ==
    LET taken == {p \in Proposals : todo[r][p] = "approved"}
        pending == listByStatus("pending", Limit)
    IN  /\ pc[r] = "listPending"
        /\ goto(r, "loop")
        /\ todo' = [todo EXCEPT ![r] =
               [p \in Proposals |-> IF p \in pending \ taken
                                    THEN "pending" ELSE todo[r][p]]]
        /\ UNCHANGED <<d1, attio, cur, target, seen, softError, history, faults>>

(* The second: as many pending ones as the limit leaves room for.  A       *)
(* proposal both lists hold is considered once, as approved.               *)
ListPending(r) ==
    LET taken == {p \in Proposals : todo[r][p] = "approved"}
        pending == listByStatus("pending", Limit - Cardinality(taken))
    IN  /\ pc[r] = "listPending"
        /\ goto(r, "loop")
        /\ todo' = [todo EXCEPT ![r] =
               [p \in Proposals |-> IF p \in pending \ taken
                                    THEN "pending" ELSE todo[r][p]]]
        /\ UNCHANGED <<d1, attio, cur, target, seen, softError, history, faults>>

(* [...approved, ...pending], each oldest first: p is the next candidate. *)
isNext(r, p) ==
    /\ todo[r][p] # "no"
    /\ \A q \in Proposals :
           \/ todo[r][q] = "no"
           \/ todo[r][q] = todo[r][p] /\ p <= q
           \/ todo[r][q] = "pending" /\ todo[r][p] = "approved"

(* Mutant: the id frozen at extraction is the target. *)
FrozenTarget_withEffectiveTarget(p) == Prop[p].record

(* The live confirmed deal for a group chat's deal proposal, else the      *)
(* record id stored on the proposal.                                       *)
withEffectiveTarget(p) ==
    IF Prop[p].object = "deals" /\ Prop[p].chat # Null
    THEN liveDeal[Prop[p].chat]
    ELSE Prop[p].record

(* One turn of the loop up to its next await: resolve the target, decide.  *)
Consider(r) ==
    /\ pc[r] = "loop"
    /\ UNCHANGED <<d1, attio, seen, softError, history, faults>>
    /\ \E p \in Proposals :
         LET decision == decide(Prop[p], todo[r][p], withEffectiveTarget(p))
         IN  /\ isNext(r, p)
             /\ \/ /\ decision = "skip"
                   /\ todo' = [todo EXCEPT ![r][p] = "no"]
                   /\ UNCHANGED <<pc, cur, target>>
                \/ /\ decision = "block"
                   /\ goto(r, "block")
                   /\ cur' = [cur EXCEPT ![r] = p]
                   /\ UNCHANGED <<todo, target>>
                \/ /\ decision = "apply"
                   /\ goto(r, IF Prop[p].object = "deals" THEN "note" ELSE "assert")
                   /\ cur' = [cur EXCEPT ![r] = p]
                   /\ target' = [target EXCEPT ![r] = withEffectiveTarget(p)]
                   /\ UNCHANGED todo

(* The loop is over and run() returns. *)
EndRun(r) ==
    /\ pc[r] = "loop"
    /\ todo[r] = NoWork
    /\ goto(r, "idle")
    /\ liveDuring' = [liveDuring EXCEPT ![r] = NoDeals]
    /\ UNCHANGED <<d1, attio, todo, cur, target, seen, softError,
                   approvedEver, faults>>

(* Mutant: a failed call gets a status of its own, which the CHECK of      *)
(* crm_proposals does not know.                                            *)
FailedStatus_WriteBack(r) ==
    /\ pc[r] \in {"block", "fail"}
    /\ markStatus(cur[r], pc[r], IF pc[r] = "block" THEN "blocked" ELSE "failed")
    /\ next(r)
    /\ UNCHANGED <<liveDeal, attio, history, faults>>

(* markStatus(p.id, p.status, reason) after a refusal or a failed call:    *)
(* p.status is the status this run read when it listed the proposal.       *)
WriteBack(r) ==
    /\ pc[r] \in {"block", "fail"}
    /\ markStatus(cur[r], todo[r][cur[r]], IF pc[r] = "block" THEN "blocked" ELSE "failed")
    /\ next(r)
    /\ UNCHANGED <<liveDeal, attio, history, faults>>

-----------------------------------------------------------------------------
(* Attio.  A call is refused (a non-2xx reply: nothing happened) or its    *)
(* reply is lost (it happened); AttioClient throws in both cases.          *)

more(n) == IF n < NoteCap THEN n + 1 ELSE n

createNote(p, rec) == notes' = [notes EXCEPT ![p][rec] = more(@)]

(* Attributes of the deal that p's changes write. *)
written(p) == partitionDealChanges(Prop[p].changes).write

patchFields(p, d) == fields' = [fields EXCEPT ![p][d] = @ \cup written(p)]

(* PATCH replaces the whole reference attribute. *)
patchContacts(d, people) == contacts' = [contacts EXCEPT ![d] = people]

(* PUT with a matching attribute: updates the record that matches or makes *)
(* a new one; either way it is x.                                          *)
assertRecord(p, x) == asserted' = [asserted EXCEPT ![p] = @ \cup {x}]

callFails(effect, nothing) ==
    \/ fault("refused") /\ nothing
    \/ fault("lostReply") /\ effect

-----------------------------------------------------------------------------
(* applyDeal                                                               *)

afterPatch(p) == IF LinkParticipants /\ Prop[p].participants # {}
                 THEN "readContacts" ELSE "mark"

afterNote(p) == IF written(p) # {} THEN "patch" ELSE afterPatch(p)

(* The provenance note, first and critical. *)
CreateDealNote(r) ==
    /\ pc[r] = "note"
    /\ createNote(cur[r], target[r])
    /\ goto(r, afterNote(cur[r]))
    /\ UNCHANGED <<d1, fields, contacts, asserted,
                   todo, cur, target, seen, softError, history, faults>>

(* Field writes, best effort. *)
PatchFields(r) ==
    /\ pc[r] = "patch"
    /\ patchFields(cur[r], target[r])
    /\ goto(r, afterPatch(cur[r]))
    /\ UNCHANGED <<d1, notes, contacts, asserted,
                   todo, cur, target, seen, softError, history, faults>>

(* Mutant: a skipped field write is logged but not recorded. *)
Silent_PatchFieldsFails(r) ==
    /\ pc[r] = "patch"
    /\ callFails(patchFields(cur[r], target[r]), UNCHANGED fields)
    /\ goto(r, afterPatch(cur[r]))
    /\ UNCHANGED <<d1, notes, contacts, asserted,
                   todo, cur, target, seen, softError, history>>

PatchFieldsFails(r) ==
    /\ pc[r] = "patch"
    /\ callFails(patchFields(cur[r], target[r]), UNCHANGED fields)
    /\ goto(r, afterPatch(cur[r]))
    /\ softError' = [softError EXCEPT ![r] = TRUE]
    /\ UNCHANGED <<d1, notes, contacts, asserted,
                   todo, cur, target, seen, history>>

(* associatePeople: read the deal's contacts ... *)
ReadContacts(r) ==
    /\ pc[r] = "readContacts"
    /\ seen' = [seen EXCEPT ![r] = contacts[target[r]]]
    /\ goto(r, IF Prop[cur[r]].participants \subseteq contacts[target[r]]
               THEN "mark" ELSE "patchContacts")
    /\ UNCHANGED <<d1, attio, todo, cur, target, softError, history, faults>>

ReadContactsFails(r) ==
    /\ pc[r] = "readContacts"
    /\ callFails(TRUE, TRUE)
    /\ goto(r, "mark")
    /\ softError' = [softError EXCEPT ![r] = TRUE]
    /\ UNCHANGED <<d1, attio, todo, cur, target, seen, history>>

(* Mutant: only the participants are written back. *)
Clobber_merged(r) == Prop[cur[r]].participants

(* ... and write back what was read, merged with the participants. *)
merged(r) == seen[r] \cup Prop[cur[r]].participants

PatchContacts(r) ==
    /\ pc[r] = "patchContacts"
    /\ patchContacts(target[r], merged(r))
    /\ goto(r, "mark")
    /\ UNCHANGED <<d1, notes, fields, asserted,
                   todo, cur, target, seen, softError, history, faults>>

PatchContactsFails(r) ==
    /\ pc[r] = "patchContacts"
    /\ callFails(patchContacts(target[r], merged(r)), UNCHANGED contacts)
    /\ goto(r, "mark")
    /\ softError' = [softError EXCEPT ![r] = TRUE]
    /\ UNCHANGED <<d1, notes, fields, asserted,
                   todo, cur, target, seen, history>>

-----------------------------------------------------------------------------
(* applyPerson                                                             *)

AssertPerson(r) ==
    LET x == Prop[cur[r]].person
    IN  /\ pc[r] = "assert"
        /\ x # Null
        /\ assertRecord(cur[r], x)
        /\ target' = [target EXCEPT ![r] = x]
        /\ goto(r, "personNote")
        /\ UNCHANGED <<d1, notes, fields, contacts, todo, cur, seen, softError,
                       approvedEver, liveDuring, faults>>

(* Changes without a value for the matching attribute are always refused. *)
AssertPersonRefused(r) ==
    /\ pc[r] = "assert"
    /\ Prop[cur[r]].person = Null
    /\ goto(r, "fail")
    /\ UNCHANGED <<d1, attio, todo, cur, target, seen, softError, history, faults>>

AssertPersonFails(r) ==
    LET x == Prop[cur[r]].person
    IN  /\ pc[r] = "assert"
        /\ x # Null
        /\ callFails(assertRecord(cur[r], x), UNCHANGED asserted)
        /\ goto(r, "fail")
        /\ UNCHANGED <<d1, notes, fields, contacts, todo, cur, target, seen, softError,
                       approvedEver, liveDuring>>

CreatePersonNote(r) ==
    /\ pc[r] = "personNote"
    /\ createNote(cur[r], target[r])
    /\ goto(r, "mark")
    /\ UNCHANGED <<d1, fields, contacts, asserted,
                   todo, cur, target, seen, softError, history, faults>>

-----------------------------------------------------------------------------
(* The end of both                                                         *)

(* Mutant: the note is best effort like the other writes. *)
BestEffort_CreateNoteFails(r) ==
    /\ pc[r] \in {"note", "personNote"}
    /\ callFails(createNote(cur[r], target[r]), UNCHANGED notes)
    /\ goto(r, IF pc[r] = "note" THEN afterNote(cur[r]) ELSE "mark")
    /\ softError' = [softError EXCEPT ![r] = TRUE]
    /\ UNCHANGED <<d1, fields, contacts, asserted,
                   todo, cur, target, seen, history>>

CreateNoteFails(r) ==
    /\ pc[r] \in {"note", "personNote"}
    /\ callFails(createNote(cur[r], target[r]), UNCHANGED notes)
    /\ goto(r, "fail")
    /\ UNCHANGED <<d1, fields, contacts, asserted,
                   todo, cur, target, seen, softError, history>>

markApplied(r) == markStatus(cur[r], "applied", IF softError[r] THEN "soft" ELSE "none")

MarkApplied(r) ==
    /\ pc[r] = "mark"
    /\ markApplied(r)
    /\ next(r)
    /\ UNCHANGED <<liveDeal, attio, history, faults>>

(* applyPerson calls markStatus inside its try: when D1 throws, the        *)
(* proposal is written back like one whose Attio call failed.              *)
MarkAppliedFails(r) ==
    /\ pc[r] = "mark"
    /\ Prop[cur[r]].object = "people"
    /\ callFails(markApplied(r), UNCHANGED <<status, error>>)
    /\ goto(r, "fail")
    /\ UNCHANGED <<liveDeal, attio, todo, cur, target, seen, softError, history>>

(* The isolate is evicted, or an exception outside the try blocks (a D1    *)
(* call, parseSourceMessageIds) ends the run: its locals are gone.         *)
Crash(r) ==
    /\ pc[r] # "idle"
    /\ fault("crash")
    /\ goto(r, "idle")
    /\ todo' = [todo EXCEPT ![r] = NoWork]
    /\ cur' = [cur EXCEPT ![r] = Null]
    /\ target' = [target EXCEPT ![r] = Null]
    /\ seen' = [seen EXCEPT ![r] = {}]
    /\ softError' = [softError EXCEPT ![r] = FALSE]
    /\ liveDuring' = [liveDuring EXCEPT ![r] = NoDeals]
    /\ UNCHANGED <<d1, attio, approvedEver>>

-----------------------------------------------------------------------------
(* Everyone else                                                           *)

(* The extract Worker's propose step inserts a row as 'pending'.  The      *)
(* record id it freezes is the deal the chat was confirmed to have when    *)
(* the workflow resolved it, any number of links ago.                      *)
Propose(p) ==
    /\ status[p] = "absent"
    /\ \A q \in Proposals : q < p => status[q] # "absent"
    /\ status' = [status EXCEPT ![p] = "pending"]
    /\ UNCHANGED <<error, liveDeal, attio, local, history, faults>>

(* The reviewer's decisions. *)
Approve(p) ==
    /\ status[p] = "pending"
    /\ status' = [status EXCEPT ![p] = "approved"]
    /\ approvedEver' = approvedEver \cup {p}
    /\ UNCHANGED <<error, liveDeal, attio, local, liveDuring, faults>>

Reject(p) ==
    /\ status[p] \in {"pending", "approved"}
    /\ status' = [status EXCEPT ![p] = "rejected"]
    /\ UNCHANGED <<error, liveDeal, attio, local, history, faults>>

(* make link-deal, which may move a chat from one deal to another, or an   *)
(* automatic match that confirms one (DealMap).                            *)
LinkDeal(c, d) ==
    /\ liveDeal[c] # d
    /\ liveDeal' = [liveDeal EXCEPT ![c] = d]
    /\ liveDuring' = [r \in Runs |->
           IF pc[r] = "idle" THEN NoDeals
           ELSE [liveDuring[r] EXCEPT ![c] = @ \cup {d}]]
    /\ UNCHANGED <<status, error, attio, local, approvedEver, faults>>

(* A salesperson adds a contact to a deal in Attio. *)
AddContact(d, x) ==
    /\ x \in HumanContacts \ contacts[d]
    /\ contacts' = [contacts EXCEPT ![d] = @ \cup {x}]
    /\ UNCHANGED <<d1, notes, fields, asserted, local, history, faults>>

-----------------------------------------------------------------------------

(* What a run does when nothing goes wrong. *)
Step(r) ==
    \/ ListApproved(r) \/ ListPending(r) \/ Consider(r) \/ EndRun(r) \/ WriteBack(r)
    \/ CreateDealNote(r) \/ PatchFields(r) \/ ReadContacts(r) \/ PatchContacts(r)
    \/ AssertPerson(r) \/ AssertPersonRefused(r) \/ CreatePersonNote(r)
    \/ MarkApplied(r)

Fault(r) ==
    \/ CreateNoteFails(r) \/ PatchFieldsFails(r) \/ ReadContactsFails(r)
    \/ PatchContactsFails(r) \/ AssertPersonFails(r) \/ MarkAppliedFails(r) \/ Crash(r)

Environment ==
    \/ \E p \in Proposals : Propose(p) \/ Approve(p) \/ Reject(p)
    \/ \E c \in Chats, d \in Deals : LinkDeal(c, d)
    \/ \E d \in Deals, x \in Persons : AddContact(d, x)

Next ==
    \/ \E r \in Runs : Step(r) \/ Fault(r)
    \/ Environment

Spec == Init /\ [][Next]_vars

(* Cron starts a run every ten minutes and a run that started goes on.     *)
(* Nothing is assumed of the faults or of the people.                      *)
FairSpec == Spec /\ \A r \in Runs : WF_vars(Step(r))

-----------------------------------------------------------------------------
(* Properties that hold however many runs overlap and whatever fails       *)

(* A deal proposal is written to a deal that was its chat's confirmed deal *)
(* at some moment of that very run, never to one the chat had left before  *)
(* the run began (withEffectiveTarget).                                    *)
TargetWasLive ==
    \A r \in Runs :
        pc[r] \in {"note", "patch", "readContacts", "patchContacts"}
            => target[r] \in liveDuring[r][Prop[cur[r]].chat]

hasNote(p) == \E rec \in Records : notes[p][rec] > 0

(* Every deal attribute a proposal wrote has that proposal's provenance    *)
(* note on the same deal: the note comes first and its failure ends the    *)
(* attempt (applyDeal, step 1).                                            *)
DealWriteHasNote ==
    \A p \in Proposals, d \in Deals : fields[p][d] # {} => notes[p][d] > 0

(* A proposal that reached 'applied' left its provenance note, on every    *)
(* path through applyDeal and applyPerson.                                 *)
AppliedHasNote == \A p \in Proposals : status[p] = "applied" => hasNote(p)

(* 'applied' without an error means the whole of the write part reached    *)
(* one deal, with its note: a skipped best-effort write is recorded.       *)
CleanApplyIsComplete ==
    \A p \in Proposals :
        status[p] = "applied" /\ error[p] = "none" /\ Prop[p].object = "deals"
            => \E d \in Deals : notes[p][d] > 0 /\ written(p) \subseteq fields[p][d]

(* What no human ever approved was written to people only with enough      *)
(* confidence and allowlisted slugs (guardrail rule 1), whatever was       *)
(* approved or rejected while the run was under way.                       *)
UnapprovedWritesAreSafe ==
    \A p \in Proposals :
        asserted[p] # {} /\ p \notin approvedEver
            => Prop[p].confidence >= Threshold /\ unsafe(Prop[p].changes) = {}

(* One run considers at most APPLY_BATCH_LIMIT proposals, though it lists  *)
(* them with two queries that see different states of the table.           *)
BatchWithinLimit ==
    \A r \in Runs : Cardinality({p \in Proposals : todo[r][p] # "no"}) <= Limit

(* A contact is lost only to an association that had read the contacts     *)
(* before that one was added: what was read is always written back         *)
(* ("WITHOUT clobbering existing contacts", associatePeople).              *)
SeenContactsKept ==
    [][\A d \in Deals : \A x \in contacts[d] \ contacts'[d] :
           \E r \in Runs :
               pc[r] = "patchContacts" /\ target[r] = d /\ x \notin seen[r]]_vars

-----------------------------------------------------------------------------
(* The promise to the reviewers                                            *)

notedOn(p) == {rec \in Records : notes[p][rec] > 0}

Abstract == INSTANCE Lifecycle WITH
    approved <- approvedEver,
    noted <- [p \in Proposals |-> notedOn(p)]

(* Whatever overlaps and fails, each step is one of Lifecycle's: writes go *)
(* through the gate, the note comes before the fields and both before      *)
(* 'applied', an attempt that fails gives a proposal back with no more     *)
(* standing than a human gave it, and only a human rejects (run).          *)
ImplementsLifecycle == Abstract!Spec

-----------------------------------------------------------------------------
(* Properties that need more than the code gives: one run at a time, no    *)
(* crash between note and status, nobody else at work                      *)

(* A proposal leaves at most one provenance note in Attio.                 *)
AtMostOneNote ==
    \A p \in Proposals : \A rec1, rec2 \in Records :
        notes[p][rec1] > 0 /\ notes[p][rec2] > 0 => rec1 = rec2 /\ notes[p][rec1] = 1

(* An applied deal proposal stays applied, so no later run reads it again. *)
AppliedIsFinal ==
    [][\A p \in Proposals :
           Prop[p].object = "deals" /\ status[p] = "applied" => status'[p] = "applied"]_vars

(* A deal proposal whose chat is linked, before or after extraction, is    *)
(* eventually applied, or a human rejects it.                              *)
LinkTakesEffect ==
    \A p \in Proposals :
        Prop[p].object = "deals" =>
            ((status[p] \in {"pending", "approved"} /\ liveDeal[Prop[p].chat] # Null)
                ~> status[p] \in {"applied", "rejected"})

=============================================================================
