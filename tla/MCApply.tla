-------------------------------- MODULE MCApply --------------------------------
(***************************************************************************)
(* Small instances of Apply.  "Stage" and "stage" are two spellings of one *)
(* slug; next_step is the one slug DEAL_FIELD_MAP maps.                    *)
(***************************************************************************)
EXTENDS Apply, TLC

CONSTANTS c1, c2, d1deal, d2deal, ann, bob

MCSlugs == {"next_step", "Next_Step", "stage", "Stage", "email", "salary"}
MCAttioSlugs == {"next_due_task", "stage"}
MCNorm == [s \in MCSlugs |-> CASE s = "Stage" -> "stage"
                               [] s = "Next_Step" -> "next_step"
                               [] OTHER -> s]
MCStageSlugs == {"stage"}
MCSafeSlugs == {"email"}
MCFieldMap == "next_step" :> "next_due_task"

deal(chat, record, changes, participants) ==
    [object |-> "deals", chat |-> chat, record |-> record, malformed |-> FALSE,
     changes |-> changes, confidence |-> 80, participants |-> participants,
     person |-> Null]

person(record, changes, confidence, match) ==
    [object |-> "people", chat |-> Null, record |-> record, malformed |-> FALSE,
     changes |-> changes, confidence |-> confidence, participants |-> {},
     person |-> match]

(* A deal proposal that froze the deal its chat was confirmed to have.     *)
OneDeal == <<deal(c1, d1deal, {"next_step", "Stage"}, {ann})>>

(* A deal proposal; people proposals with a slug off the allowlist, and    *)
(* below the threshold without a value for the matching attribute.         *)
DealAndPeople ==
    <<deal(c1, Null, {"next_step"}, {ann}), person(ann, {"email", "salary"}, 95, ann),
      person(bob, {"email"}, 50, Null)>>

RunSymmetry == Permutations(Runs)

=============================================================================
