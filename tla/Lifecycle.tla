------------------------------- MODULE Lifecycle -------------------------------
(***************************************************************************)
(* What the apply Worker promises to the people who review proposals,      *)
(* however many of its runs overlap, fail or die: the life of a proposal,  *)
(* one step and one proposal at a time.  There are no runs here, no        *)
(* batches, calls or retries; Apply implements this specification.         *)
(*                                                                         *)
(* The promise is weaker than "each proposal is applied once": an attempt  *)
(* may give a proposal back after another one applied it, and a rejected   *)
(* proposal that a run was already at may still be applied.                *)
(***************************************************************************)
EXTENDS Guardrails

CONSTANTS Proposals, Prop, Deals, Persons

VARIABLES
    status, error,  \* the row of crm_proposals
    approved,       \* the proposals a human has approved at some time
    noted,          \* per proposal, the records with its provenance note
    fields,         \* per proposal, the attributes it wrote to each deal
    asserted        \* per proposal, the people records it wrote

vars == <<status, error, approved, noted, fields, asserted>>

isDeal(p) == Prop[p].object = "deals"

(* What a deal proposal writes into fields; the rest stays in the note. *)
writePart(p) == partitionDealChanges(Prop[p].changes).write

Init ==
    /\ status = [p \in Proposals |-> "absent"]
    /\ error = [p \in Proposals |-> "none"]
    /\ approved = {}
    /\ noted = [p \in Proposals |-> {}]
    /\ fields = [p \in Proposals |-> [d \in Deals |-> {}]]
    /\ asserted = [p \in Proposals |-> {}]

-----------------------------------------------------------------------------
(* The people and the extract Worker *)

Propose(p) ==
    /\ status[p] = "absent"
    /\ status' = [status EXCEPT ![p] = "pending"]
    /\ UNCHANGED <<error, approved, noted, fields, asserted>>

Approve(p) ==
    /\ status[p] = "pending"
    /\ status' = [status EXCEPT ![p] = "approved"]
    /\ approved' = approved \cup {p}
    /\ UNCHANGED <<error, noted, fields, asserted>>

Reject(p) ==
    /\ status[p] \in {"pending", "approved"}
    /\ status' = [status EXCEPT ![p] = "rejected"]
    /\ UNCHANGED <<error, approved, noted, fields, asserted>>

-----------------------------------------------------------------------------
(* The apply Worker *)

(* The guardrails for people, with the strongest standing p ever had. *)
mayWritePerson(p) == decidePeople(Prop[p], p \in approved)

(* A people record is written only through the gate. *)
WritePerson(p) ==
    /\ status[p] # "absent"
    /\ ~ isDeal(p)
    /\ mayWritePerson(p)
    /\ asserted' = [asserted EXCEPT ![p] = @ \cup ({Prop[p].person} \ {Null})]
    /\ UNCHANGED <<status, error, approved, noted, fields>>

(* A note on a deal, or on the person that was written. *)
Note(p, record) ==
    /\ status[p] # "absent"
    /\ record \in IF isDeal(p) THEN Deals ELSE asserted[p]
    /\ noted' = [noted EXCEPT ![p] = @ \cup {record}]
    /\ UNCHANGED <<status, error, approved, fields, asserted>>

(* A deal is written only where the note is. *)
WriteFields(p, d) ==
    /\ isDeal(p)
    /\ d \in noted[p]
    /\ fields' = [fields EXCEPT ![p][d] = writePart(p)]
    /\ UNCHANGED <<status, error, approved, noted, asserted>>

(* All that p wants of a deal is there. *)
complete(p) == \E d \in Deals : d \in noted[p] /\ fields[p][d] = writePart(p)

(* Applied is noted; without an error, complete. *)
Apply(p, err) ==
    /\ noted[p] # {}
    /\ isDeal(p) /\ err = "none" => complete(p)
    /\ status' = [status EXCEPT ![p] = "applied"]
    /\ error' = [error EXCEPT ![p] = err]
    /\ UNCHANGED <<approved, noted, fields, asserted>>

(* An attempt that failed, or that a guardrail blocked, leaves p to the    *)
(* next one, as approved only if a human approved it.                      *)
GiveBack(p, st, err) ==
    /\ status[p] # "absent"
    /\ st = "approved" => p \in approved
    /\ err = "blocked" => st = "approved" \/ Prop[p].malformed
    /\ status' = [status EXCEPT ![p] = st]
    /\ error' = [error EXCEPT ![p] = err]
    /\ UNCHANGED <<approved, noted, fields, asserted>>

Next ==
    \E p \in Proposals :
        \/ Propose(p) \/ Approve(p) \/ Reject(p)
        \/ WritePerson(p)
        \/ \E record \in Deals \cup Persons : Note(p, record)
        \/ \E d \in Deals : WriteFields(p, d)
        \/ \E err \in {"none", "soft"} : Apply(p, err)
        \/ \E st \in {"pending", "approved"}, err \in {"failed", "blocked"} : GiveBack(p, st, err)

Spec == Init /\ [][Next]_vars

===============================================================================
