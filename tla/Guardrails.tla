------------------------------ MODULE Guardrails ------------------------------
(***************************************************************************)
(* The code-enforced guardrails of the apply Worker                        *)
(* (apps/apply/src/guardrails.ts): which proposals may be written to Attio *)
(* and which of a deal proposal's changes become field writes.  The module *)
(* is pure: it declares no variables.                                      *)
(*                                                                         *)
(* An attribute slug is a member of Slugs.  The code compares slugs after  *)
(* trim().toLowerCase(); Norm is that normalisation, so two spellings of   *)
(* one slug are two members of Slugs with the same Norm.  A proposal is a  *)
(* record with the columns of crm_proposals the decision reads; the value  *)
(* part of proposed_changes never matters, only its set of slugs does.     *)
(***************************************************************************)
EXTENDS Integers, FiniteSets

CONSTANTS
    Slugs,          \* attribute slugs as they are spelled in proposed_changes
    AttioSlugs,     \* real Attio deal attributes, the range of DEAL_FIELD_MAP
    Norm,           \* trim().toLowerCase() on slugs
    StageSlugs,     \* DEAL_STAGE_SLUGS, normalised
    SafeSlugs,      \* SAFE_ATTRIBUTE_ALLOWLIST, normalised
    FieldMap,       \* DEAL_FIELD_MAP: normalised slug -> Attio attribute
    Threshold,      \* AUTO_APPLY_CONFIDENCE_THRESHOLD, in percent
    Null            \* SQL NULL / JavaScript null

(***************************************************************************)
(* What loadConfig and parseAllowlist/parseFieldMap guarantee: the keys of *)
(* the allowlist and of the field map are normalised, normalising twice    *)
(* changes nothing, and the field map is a partial function.               *)
(***************************************************************************)
ASSUME SlugAssumption ==
    /\ Norm \in [Slugs -> Slugs]
    /\ \A s \in Slugs : Norm[Norm[s]] = Norm[s]
    /\ StageSlugs \subseteq Slugs
    /\ SafeSlugs \subseteq Slugs
    /\ DOMAIN FieldMap \subseteq Slugs
    /\ FieldMap \in [DOMAIN FieldMap -> AttioSlugs]

ASSUME ThresholdAssumption == Threshold \in 0..100

Objects == {"deals", "people", "companies"}

Decisions == {"apply", "skip", "block"}

-----------------------------------------------------------------------------

(* Some changed slug names a deal-stage move. *)
touchesDealStage(changes) == \E s \in changes : Norm[s] \in StageSlugs

(* The changed slugs that are not on the safe allowlist. *)
unsafe(changes) == {s \in changes : Norm[s] \notin SafeSlugs}

(***************************************************************************)
(* partitionDealChanges.  The write part is keyed by the Attio attribute,  *)
(* so two spellings of one slug fall into one write; the review part goes  *)
(* into the provenance note only.                                          *)
(***************************************************************************)
mapped(changes) == {s \in changes : Norm[s] \in DOMAIN FieldMap}

partitionDealChanges(changes) ==
    [write |-> {FieldMap[Norm[s]] : s \in mapped(changes)},
     review |-> changes \ mapped(changes)]

-----------------------------------------------------------------------------

(* What an ineligible proposal gets: a human's approval turns a silent     *)
(* skip into a blocking error.                                             *)
refuse(humanApproved) == IF humanApproved THEN "block" ELSE "skip"

SkipsAllowlist_decidePeople(p, humanApproved) ==
    /\ ~ touchesDealStage(p.changes)
    /\ p.changes # {}
    /\ humanApproved \/ p.confidence >= Threshold

(***************************************************************************)
(* decidePeople answers "apply".  A stage slug is refused even when        *)
(* approved; approval bypasses the confidence and allowlist gates but not  *)
(* the check that there is something to apply.                             *)
(***************************************************************************)
decidePeople(p, humanApproved) ==
    /\ ~ touchesDealStage(p.changes)
    /\ p.changes # {}
    /\ \/ humanApproved
       \/ p.confidence >= Threshold /\ unsafe(p.changes) = {}

(***************************************************************************)
(* decide, for a proposal p whose status was read as st and whose write    *)
(* target was resolved to target.  p.malformed says that proposed_changes  *)
(* is not a JSON object.  A deal proposal with a target always applies;    *)
(* every refusal that is not a parse error is refuse(humanApproved).       *)
(***************************************************************************)
decide(p, st, target) ==
    LET humanApproved == st = "approved"
        eligible == /\ target # Null
                    /\ \/ p.object = "deals"
                       \/ p.object = "people" /\ decidePeople(p, humanApproved)
    IN  CASE p.malformed                -> "block"
          [] ~ p.malformed /\ eligible   -> "apply"
          [] ~ p.malformed /\ ~ eligible -> refuse(humanApproved)

=============================================================================
