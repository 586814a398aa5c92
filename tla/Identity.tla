------------------------------- MODULE Identity --------------------------------
(***************************************************************************)
(* identity_map: which person in Attio a Telegram user is (packages/db     *)
(* upsertIdentity, apps/extract/src/identity.ts resolveParticipants).      *)
(* Workflows look the senders of their threads up, and record those they   *)
(* do not find; people confirm and reject links at any time.               *)
(*                                                                         *)
(* A row's confidence, method, candidates and name are left out: no        *)
(* decision of the code reads them.                                        *)
(***************************************************************************)
EXTENDS Integers, FiniteSets

CONSTANTS
    Users,      \* Telegram users
    Persons,    \* people records of Attio
    Instances,  \* workflow instances that may overlap
    Senders,    \* per instance, the senders of its thread but the owner
    Null

(* What is assumed of them, by the modules that use this one. *)
IdentityAssumption ==
    /\ Senders \in [Instances -> SUBSET Users]
    /\ Null \notin Persons \cup Users

VARIABLES
    identity,      \* identity_map: per user, status and attio_record_id
    recording,     \* per instance: the sender it did not find, or Null
    participants,  \* per instance: the participants found so far ("none": not yet)
    decided        \* history: per user, what a human decided last

vars == <<identity, recording, participants, decided>>

Identities == [status : {"none", "unmatched", "confirmed", "rejected"},
               person : Persons \cup {Null}]

NoIdentity == [status |-> "none", person |-> Null]

Nobody == [u \in Users |-> NoIdentity]

(* The type invariant; status "none" stands for a user without a row. *)
TypeOK ==
    /\ identity \in [Users -> Identities]
    /\ recording \in [Instances -> Users \cup {Null}]
    /\ participants \in [Instances -> [Users -> Identities]]
    /\ decided \in [Users -> Identities]

Init ==
    /\ identity = Nobody
    /\ recording = [k \in Instances |-> Null]
    /\ participants = [k \in Instances |-> Nobody]
    /\ decided = Nobody

-----------------------------------------------------------------------------
(* packages/db                                                             *)

(* Mutant: ON CONFLICT overwrites whatever is there. *)
Plain_upsertIdentity(old, new) == new

(* A confirmed row keeps its status and person, unless the new one is      *)
(* confirmed or rejected.                                                  *)
upsertIdentity(old, new) ==
    IF old.status = "confirmed" /\ new.status \notin {"confirmed", "rejected"}
    THEN old
    ELSE new

-----------------------------------------------------------------------------
(* resolveParticipants: one sender after the other, each in first-seen     *)
(* order of its thread; which order does not matter, so any is allowed.    *)

unmatched == [status |-> "unmatched", person |-> Null]

(* The senders the loop has still to look up. *)
left(k) == {u \in Senders[k] : participants[k][u].status = "none"}

(* Mutant: the record id of a row that is not confirmed is passed on. *)
AnyStatus_participant(row) == row

(* Only a confirmed row gives its participant a person. *)
participant(row) ==
    [status |-> row.status,
     person |-> IF row.status = "confirmed" THEN row.person ELSE Null]

(* getIdentity finds a row ... *)
Find(k, u) ==
    /\ u \in left(k)
    /\ recording[k] = Null
    /\ identity[u].status # "none"
    /\ participants' = [participants EXCEPT ![k][u] = participant(identity[u])]
    /\ UNCHANGED <<identity, recording, decided>>

(* ... or none, ... *)
Miss(k, u) ==
    /\ u \in left(k)
    /\ recording[k] = Null
    /\ identity[u].status = "none"
    /\ recording' = [recording EXCEPT ![k] = u]
    /\ UNCHANGED <<identity, participants, decided>>

(* ... and the sender is recorded for manual linking, whatever was linked  *)
(* since.                                                                  *)
Record(k) ==
    LET u == recording[k]
    IN  /\ u # Null
        /\ identity' = [identity EXCEPT ![u] = upsertIdentity(@, unmatched)]
        /\ participants' = [participants EXCEPT ![k][u] = unmatched]
        /\ recording' = [recording EXCEPT ![k] = Null]
        /\ UNCHANGED decided

(* D1 throws, in the upsert with or without effect: what was found is lost *)
(* with the attempt.                                                       *)
Abort(k) ==
    /\ recording' = [recording EXCEPT ![k] = Null]
    /\ participants' = [participants EXCEPT ![k] = Nobody]
    /\ \/ UNCHANGED identity
       \/ /\ recording[k] # Null
          /\ identity' = [identity EXCEPT ![recording[k]] = upsertIdentity(@, unmatched)]
    /\ UNCHANGED decided

-----------------------------------------------------------------------------
(* People                                                                  *)

decide(u, new) ==
    /\ identity' = [identity EXCEPT ![u] = upsertIdentity(@, new)]
    /\ decided' = [decided EXCEPT ![u] = new]
    /\ UNCHANGED <<recording, participants>>

confirmIdentity(u, x) == decide(u, [status |-> "confirmed", person |-> x])

(* A rejection may leave the rejected record's id in the row. *)
rejectIdentity(u, x) == decide(u, [status |-> "rejected", person |-> x])

Decide(u) ==
    \/ \E x \in Persons : confirmIdentity(u, x)
    \/ \E x \in {Null, identity[u].person} : rejectIdentity(u, x)

-----------------------------------------------------------------------------

(* A person whom a human confirmed for a user stays, until a human decides *)
(* otherwise: a workflow that missed the row writes "unmatched" later, but *)
(* "a confirmed row is never overwritten by a non-manual re-match".        *)
ConfirmedPersonStays ==
    \A u \in Users : decided[u].status = "confirmed" => identity[u] = decided[u]

=============================================================================
