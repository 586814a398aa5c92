------------------------------- MODULE DealMap --------------------------------
(***************************************************************************)
(* deal_map: which Attio deal a group chat is about (apps/extract/src/     *)
(* deals.ts, packages/db upsertDealMap).  Resolutions overlap: every       *)
(* workflow of a chat starts with one, and so does POST /diag/resolve.     *)
(* Meanwhile deals are renamed in Attio and an operator links chats by     *)
(* hand (make link-deal).                                                  *)
(*                                                                         *)
(* A deal's name matters only through its similarity to the chat's title,  *)
(* in per cent: score[c][d], 0 when they have nothing in common, the deal  *)
(* does not exist or the chat has no title.                                *)
(***************************************************************************)
EXTENDS Integers, FiniteSets

CONSTANTS
    Chats,
    Titled,        \* the chats that have a title
    Deals,
    Runs,          \* resolutions that may overlap
    Scores,        \* the similarities that names can have
    MinScore,      \* MIN_CANDIDATE_SCORE
    AutoConfirm,   \* DEAL_AUTO_CONFIRM_SCORE
    Margin,        \* DEAL_DISAMBIGUATION_MARGIN
    PageSize,      \* the limit of listDeals
    MaxRenames,    \* bound
    Null

(* AutoConfirm - MinScore >= Margin: a deal too unlike the title to be a   *)
(* candidate is no runner-up either.  parseScore does not ensure it; the   *)
(* values of wrangler.jsonc and the defaults do (78 or 82, 40, 15).        *)
ASSUME DealMapAssumption ==
    /\ Titled \subseteq Chats
    /\ IsFiniteSet(Deals)
    /\ Scores \subseteq 0..100
    /\ 0 \in Scores
    /\ MinScore \in 1..100
    /\ AutoConfirm \in 0..100
    /\ Margin \in 0..100
    /\ AutoConfirm - MinScore >= Margin
    /\ PageSize \in Nat
    /\ MaxRenames \in Nat
    /\ Null \notin Deals

VARIABLES
    dealMap,  \* per chat: status, attio_deal_id and match_method
    score,    \* Attio: similarity of each deal's name to each chat's title
    pc,       \* where each resolution is
    chat,     \* the chat it resolves
    match,    \* the row it is about to write
    answer,   \* the last resolution's result per run, for its workflow
    renames,
    linked,   \* history: the deal the operator linked each chat to last
    raced,    \* history: the chats whose last link met a resolution at work
    clear     \* history: deals that were once a clear winner for each chat

run     == <<pc, chat, match, answer>>
history == <<renames, linked, raced, clear>>
vars    == <<dealMap, score, run, history>>

Methods == {"none", "fuzzy_title", "no_match", "no_title", "manual"}

Rows == [status : {"none", "unmatched", "candidate", "confirmed"},
         deal : Deals \cup {Null}, method : Methods]

NoRow == [status |-> "none", deal |-> Null, method |-> "none"]

(* The type invariant; status "none" stands for a chat without a row. *)
TypeOK ==
    /\ dealMap \in [Chats -> Rows]
    /\ score \in [Chats -> [Deals -> Scores]]
    /\ pc \in [Runs -> {"idle", "list", "upsert"}]
    /\ chat \in [Runs -> Chats \cup {Null}]
    /\ \A r \in Runs : pc[r] # "idle" => chat[r] \in Chats
    /\ match \in [Runs -> Rows]
    /\ answer \in [Runs -> Rows]
    /\ renames \in 0..MaxRenames
    /\ linked \in [Chats -> Deals \cup {Null}]
    /\ raced \subseteq Chats
    /\ clear \in [Chats -> SUBSET Deals]

-----------------------------------------------------------------------------
(* Matching                                                                *)

(* The one deal that "must beat the runner-up by at least this margin".    *)
ClearWinners(s) ==
    {d \in Deals : /\ s[d] >= AutoConfirm
                   /\ \A e \in Deals \ {d} : s[d] - s[e] >= Margin}

(* Mutant: the margin is forgotten. *)
NoMargin_isClearWinner(s, d, scored) == s[d] >= AutoConfirm

(* The top score clears the bar and beats the next, or 0 if there is none. *)
isClearWinner(s, d, scored) ==
    /\ s[d] >= AutoConfirm
    /\ s[d] >= Margin
    /\ \A e \in scored \ {d} : s[d] - s[e] >= Margin

unmatched(how) == [status |-> "unmatched", deal |-> Null, method |-> how]

(* Mutant: a candidate keeps its best guess as attio_deal_id. *)
Guess_matched(s, d, scored) ==
    [status |-> IF isClearWinner(s, d, scored) THEN "confirmed" ELSE "candidate",
     deal   |-> d,
     method |-> "fuzzy_title"]

(* Mutant: a status of its own, which the CHECK of schema.sql refuses. *)
Auto_matched(s, d, scored) ==
    [status |-> IF isClearWinner(s, d, scored) THEN "auto_confirmed" ELSE "candidate",
     deal   |-> IF isClearWinner(s, d, scored) THEN d ELSE Null,
     method |-> "fuzzy_title"]

(* The row for the top deal of those scored. *)
matched(s, d, scored) ==
    LET autoConfirm == isClearWinner(s, d, scored)
    IN  [status |-> IF autoConfirm THEN "confirmed" ELSE "candidate",
         deal   |-> IF autoConfirm THEN d ELSE Null,
         method |-> "fuzzy_title"]

(* The rows that the deals of one page of Attio's answer can lead to: the  *)
(* sort leaves one of the best on top.                                     *)
outcomes(s, page) ==
    LET scored == {d \in page : s[d] >= MinScore}
    IN  IF scored = {} THEN {unmatched("no_match")}
        ELSE {matched(s, d, scored) :
                 d \in {t \in scored : \A e \in scored : s[e] <= s[t]}}

(* listDeals asks once: the page is full, or has all the deals there are.  *)
(* A deal without similarity takes up room in it, if it exists.            *)
pages(s) ==
    {page \in SUBSET Deals :
        \/ Cardinality(page) = PageSize
        \/ Cardinality(page) < PageSize /\ {d \in Deals : s[d] > 0} \subseteq page}

-----------------------------------------------------------------------------
(* packages/db                                                             *)

(* Mutant: a confirmed row is never touched. *)
Keep_upsertDealMap(old, new) ==
    IF old.status = "confirmed" THEN [old EXCEPT !.method = new.method] ELSE new

(* Mutant: one of the CASEs, the status, is forgotten. *)
OneCase_upsertDealMap(old, new) ==
    IF old.status = "confirmed" /\ new.status # "confirmed"
    THEN [new EXCEPT !.deal = old.deal]
    ELSE new

(* A confirmed row keeps its status and deal, unless the new one is        *)
(* confirmed too; the method is always the new one.                        *)
upsertDealMap(old, new) ==
    IF old.status = "confirmed" /\ new.status # "confirmed"
    THEN [old EXCEPT !.method = new.method]
    ELSE new

-----------------------------------------------------------------------------
(* resolveDeal                                                             *)

Init ==
    /\ dealMap = [c \in Chats |-> NoRow]
    /\ score \in [Chats -> [Deals -> Scores]]
    /\ \A c \in Chats \ Titled, d \in Deals : score[c][d] = 0
    /\ pc = [r \in Runs |-> "idle"]
    /\ chat = [r \in Runs |-> Null]
    /\ match = [r \in Runs |-> NoRow]
    /\ answer = [r \in Runs |-> NoRow]
    /\ renames = 0
    /\ linked = [c \in Chats |-> Null]
    /\ raced = {}
    /\ clear = [c \in Chats |-> ClearWinners(score[c])]

(* Confirmed mappings are truth: never re-match. *)
AnswerConfirmed(r, c) ==
    /\ pc[r] = "idle"
    /\ dealMap[c].status = "confirmed"
    /\ answer' = [answer EXCEPT ![r] = dealMap[c]]
    /\ chat' = [chat EXCEPT ![r] = c]
    /\ UNCHANGED <<dealMap, score, pc, match, history>>

(* Mutant: a confirmed mapping is re-matched. *)
Rematches_Begin(r, c) ==
    /\ pc[r] = "idle"
    /\ chat' = [chat EXCEPT ![r] = c]
    /\ IF c \in Titled
       THEN /\ pc' = [pc EXCEPT ![r] = "list"]
            /\ UNCHANGED match
       ELSE /\ pc' = [pc EXCEPT ![r] = "upsert"]
            /\ match' = [match EXCEPT ![r] = unmatched("no_title")]
    /\ answer' = [answer EXCEPT ![r] = NoRow]
    /\ UNCHANGED <<dealMap, score, history>>

(* The row is not confirmed when it is read. *)
Begin(r, c) ==
    /\ pc[r] = "idle"
    /\ dealMap[c].status # "confirmed"
    /\ chat' = [chat EXCEPT ![r] = c]
    /\ IF c \in Titled
       THEN /\ pc' = [pc EXCEPT ![r] = "list"]
            /\ UNCHANGED match
       ELSE /\ pc' = [pc EXCEPT ![r] = "upsert"]
            /\ match' = [match EXCEPT ![r] = unmatched("no_title")]
    /\ answer' = [answer EXCEPT ![r] = NoRow]
    /\ UNCHANGED <<dealMap, score, history>>

(* Attio answers, and the title is matched against the names of then. *)
ListDeals(r) ==
    /\ pc[r] = "list"
    /\ \E page \in pages(score[chat[r]]) : \E row \in outcomes(score[chat[r]], page) :
           match' = [match EXCEPT ![r] = row]
    /\ pc' = [pc EXCEPT ![r] = "upsert"]
    /\ UNCHANGED <<dealMap, score, chat, answer, history>>

(* The outcome is persisted and returned; answered is FALSE when the reply *)
(* of D1 is lost, and the step will be tried again.                        *)
Upsert(r, answered) ==
    /\ pc[r] = "upsert"
    /\ dealMap' = [dealMap EXCEPT ![chat[r]] = upsertDealMap(@, match[r])]
    /\ answer' = [answer EXCEPT ![r] = IF answered THEN match[r] ELSE NoRow]
    /\ pc' = [pc EXCEPT ![r] = "idle"]
    /\ match' = [match EXCEPT ![r] = NoRow]
    /\ UNCHANGED <<score, chat, history>>

(* Attio or D1 fails: listDeals throws rather than find nothing. *)
Fail(r) ==
    /\ pc[r] # "idle"
    /\ pc' = [pc EXCEPT ![r] = "idle"]
    /\ match' = [match EXCEPT ![r] = NoRow]
    /\ answer' = [answer EXCEPT ![r] = NoRow]
    /\ UNCHANGED <<dealMap, score, chat, history>>

-----------------------------------------------------------------------------
(* Everyone else                                                           *)

(* make link-deal: always confirmed, whatever the row was. *)
linkRow(d) == [status |-> "confirmed", deal |-> d, method |-> "manual"]

atWork(c) == \E r \in Runs : pc[r] # "idle" /\ chat[r] = c

LinkDeal(c, d) ==
    /\ dealMap' = [dealMap EXCEPT ![c] = linkRow(d)]
    /\ linked' = [linked EXCEPT ![c] = d]
    /\ raced' = IF atWork(c) THEN raced \cup {c} ELSE raced \ {c}
    /\ UNCHANGED <<score, run, renames, clear>>

(* A deal is created, renamed or deleted in Attio. *)
Rename(d, new) ==
    /\ renames < MaxRenames
    /\ \A c \in Chats \ Titled : new[c] = 0
    /\ renames' = renames + 1
    /\ score' = [c \in Chats |-> [score[c] EXCEPT ![d] = new[c]]]
    /\ clear' = [c \in Chats |-> clear[c] \cup ClearWinners(score'[c])]
    /\ UNCHANGED <<dealMap, run, linked, raced>>

Next ==
    \/ \E r \in Runs :
         \/ \E c \in Chats : AnswerConfirmed(r, c) \/ Begin(r, c)
         \/ ListDeals(r)
         \/ \E answered \in BOOLEAN : Upsert(r, answered)
         \/ Fail(r)
    \/ \E c \in Chats, d \in Deals : LinkDeal(c, d)
    \/ \E d \in Deals, new \in [Chats -> Scores] : Rename(d, new)

Spec == Init /\ [][Next]_vars

-----------------------------------------------------------------------------
(* Properties                                                              *)

(* attio_deal_id is set exactly on confirmed rows, however resolutions and *)
(* links interleave: "a candidate is NOT a write target".                  *)
TargetIffConfirmed ==
    \A c \in Chats : dealMap[c].deal # Null <=> dealMap[c].status = "confirmed"

(* A confirmed chat stays confirmed: no stale resolution takes it back     *)
(* (upsertDealMap).                                                        *)
ConfirmedStays ==
    [][\A c \in Chats :
           dealMap[c].status = "confirmed" => dealMap'[c].status = "confirmed"]_vars

(* A confirmed deal was linked by the operator, or its name was once the   *)
(* clear winner for the chat's title ("guards against same-company         *)
(* collisions").                                                           *)
ConfirmedIsEarned ==
    \A c \in Chats :
        dealMap[c].status = "confirmed" => dealMap[c].deal \in {linked[c]} \cup clear[c]

(* The deal that a resolution answers as confirmed, and its workflow       *)
(* proposes to write to, is then the deal of the row in deal_map, though   *)
(* the answer is the match and not the row that the upsert left; and the   *)
(* chat stays confirmed as long as the answer is used (resolveDeal).       *)
AnswerIsTrusted ==
    [][\A r \in Runs : answer'[r].status = "confirmed" =>
           /\ dealMap'[chat'[r]].status = "confirmed"
           /\ answer'[r] # answer[r] => dealMap'[chat'[r]].deal = answer'[r].deal]_vars

(* A link made while no resolution of the chat is at work is the row until *)
(* the operator changes it, method included (resolveDeal, step 1).         *)
QuietLinkIsKept ==
    \A c \in Chats \ raced : linked[c] # Null => dealMap[c] = linkRow(linked[c])

(* "Confirmed mappings are truth: never re-match" (deals.ts:244): what the *)
(* operator linked, only the operator changes.                             *)
LinkIsKept ==
    \A c \in Chats : linked[c] # Null => dealMap[c].deal = linked[c]

=============================================================================
