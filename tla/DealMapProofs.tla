---------------------------- MODULE DealMapProofs -----------------------------
(***************************************************************************)
(* Proofs about DealMap, for any chats, deals, scores and overlapping      *)
(* resolutions.                                                            *)
(*                                                                         *)
(* What a resolution is about to write was decided earlier, so the         *)
(* invariants of deal_map are inductive only with those of match: it has a *)
(* deal exactly when it confirms, and that deal was a clear winner.        *)
(***************************************************************************)
EXTENDS DealMap, FiniteSetTheorems, TLAPS

(* A pending match is well formed. *)
MatchOK ==
    \A r \in Runs : match[r].deal # Null <=> match[r].status = "confirmed"

(* What was answered as confirmed is confirmed. *)
AnsweredConfirmed ==
    \A r \in Runs :
        answer[r].status = "confirmed" => dealMap[chat[r]].status = "confirmed"

(* The inductive invariant. *)
IInv ==
    /\ TypeOK
    /\ MatchOK
    /\ TargetIffConfirmed
    /\ AnsweredConfirmed

(* A pending match that confirms was a clear winner when it was made. *)
MatchEarned ==
    \A r \in Runs :
        pc[r] = "upsert" /\ match[r].status = "confirmed" => match[r].deal \in clear[chat[r]]

(* What is a clear winner now is in the history. *)
ClearNow == \A c \in Chats : ClearWinners(score[c]) \subseteq clear[c]

-----------------------------------------------------------------------------
(* The operators                                                           *)

(* Every outcome is a row with a deal exactly when it is confirmed. *)
LEMMA OutcomeRow ==
    ASSUME NEW s \in [Deals -> Scores], NEW page \in SUBSET Deals, NEW row \in outcomes(s, page)
    PROVE  row \in Rows /\ (row.deal # Null <=> row.status = "confirmed")
<1> DEFINE scored == {d \in page : s[d] >= MinScore}
<1>1. CASE scored = {}
  <2>1. row = unmatched("no_match")
    BY <1>1 DEF outcomes
  <2> QED
    BY <2>1 DEF unmatched, Rows, Methods
<1>2. CASE scored # {}
  <2>1. PICK d \in scored : row = matched(s, d, scored)
    BY <1>2 DEF outcomes
  <2>2. d # Null
    BY DealMapAssumption
  <2>3. CASE isClearWinner(s, d, scored)
    <3>1. row = [status |-> "confirmed", deal |-> d, method |-> "fuzzy_title"]
      BY <2>1, <2>3 DEF matched
    <3> QED
      BY <3>1, <2>2 DEF Rows, Methods
  <2>4. CASE ~ isClearWinner(s, d, scored)
    <3>1. row = [status |-> "candidate", deal |-> Null, method |-> "fuzzy_title"]
      BY <2>1, <2>4 DEF matched
    <3> QED
      BY <3>1 DEF Rows, Methods
  <2> QED
    BY <2>3, <2>4
<1> QED
  BY <1>1, <1>2

(* When the page holds every deal there is, a confirmed outcome is the     *)
(* clear winner among all deals, those below MinScore included.            *)
LEMMA OutcomeEarned ==
    ASSUME Cardinality(Deals) <= PageSize,
           NEW s \in [Deals -> Scores], NEW page \in pages(s), NEW row \in outcomes(s, page),
           row.status = "confirmed"
    PROVE  row.deal \in ClearWinners(s)
<1> DEFINE existing == {d \in Deals : s[d] > 0}
           scored == {d \in page : s[d] >= MinScore}
<1>1. page \subseteq Deals /\ existing \subseteq page
  <2>1. page \subseteq Deals
    BY DEF pages
  <2>2. CASE Cardinality(page) = PageSize
    <3>1. Cardinality(page) <= Cardinality(Deals) /\ Cardinality(page) \in Nat /\ Cardinality(Deals) \in Nat
      BY <2>1, DealMapAssumption, FS_Subset, FS_CardinalityType
    <3>2. Cardinality(page) = Cardinality(Deals)
      BY <3>1, <2>2, DealMapAssumption
    <3>3. page = Deals
      BY <2>1, <3>2, DealMapAssumption, FS_Subset
    <3> QED
      BY <3>3
  <2>3. CASE existing \subseteq page
    BY <2>1, <2>3
  <2> QED
    BY <2>2, <2>3 DEF pages
<1>2. scored # {}
  BY DEF outcomes, unmatched
<1>3. PICK d \in scored : row = matched(s, d, scored)
  BY <1>2 DEF outcomes
<1>4. isClearWinner(s, d, scored) /\ row.deal = d
  BY <1>3 DEF matched
<1>5. \A e \in Deals : s[e] \in 0..100
  BY DealMapAssumption
<1>6. d \in Deals
  BY <1>1
<1>7. ASSUME NEW e \in Deals \ {d} PROVE s[d] - s[e] >= Margin
  <2>1. CASE e \in scored
    BY <1>4, <2>1 DEF isClearWinner
  <2>2. CASE e \notin scored
    <3>1. s[e] < MinScore
      BY <2>2, <1>1, <1>5, DealMapAssumption
    <3>2. s[d] >= AutoConfirm
      BY <1>4 DEF isClearWinner
    <3> QED
      BY <3>1, <3>2, <1>5, <1>6, DealMapAssumption
  <2> QED
    BY <2>1, <2>2
<1> QED
  BY <1>4, <1>6, <1>7 DEF ClearWinners, isClearWinner

(* upsertDealMap keeps a row well formed and a confirmed row confirmed. *)
LEMMA UpsertRow ==
    ASSUME NEW old \in Rows, NEW new \in Rows,
           old.deal # Null <=> old.status = "confirmed",
           new.deal # Null <=> new.status = "confirmed"
    PROVE  LET row == upsertDealMap(old, new)
           IN  /\ row \in Rows
               /\ row.deal # Null <=> row.status = "confirmed"
               /\ old.status = "confirmed" \/ new.status = "confirmed" <=> row.status = "confirmed"
               /\ row.deal \in {old.deal, new.deal}
  BY DEF upsertDealMap, Rows

-----------------------------------------------------------------------------
(* The invariant                                                           *)

(* No chat has a row, nothing is resolved. *)
LEMMA InitIInv == Init => IInv /\ ClearNow /\ MatchEarned /\ ConfirmedIsEarned
  BY DealMapAssumption
  DEF Init, IInv, TypeOK, MatchOK, TargetIffConfirmed, AnsweredConfirmed, ClearNow, MatchEarned,
      ConfirmedIsEarned, NoRow, Rows, Methods, ClearWinners

(* Every step keeps the invariant. *)
LEMMA NextIInv == IInv /\ [Next]_vars => IInv'
<1> SUFFICES ASSUME IInv, [Next]_vars PROVE IInv'
  OBVIOUS
<1>0. NoRow \in Rows /\ NoRow.deal = Null /\ NoRow.status = "none"
  BY DEF NoRow, Rows, Methods
<1>1. ASSUME NEW r \in Runs, NEW c \in Chats, AnswerConfirmed(r, c) PROVE IInv'
  <2>1. TypeOK'
    BY <1>1 DEF IInv, TypeOK, AnswerConfirmed, history
  <2>2. MatchOK' /\ TargetIffConfirmed'
    BY <1>1 DEF IInv, MatchOK, TargetIffConfirmed, AnswerConfirmed
  <2>3. AnsweredConfirmed'
    BY <1>1 DEF IInv, TypeOK, AnsweredConfirmed, AnswerConfirmed
  <2> QED
    BY <2>1, <2>2, <2>3 DEF IInv
<1>2. ASSUME NEW r \in Runs, NEW c \in Chats, Begin(r, c) PROVE IInv'
  <2>1. unmatched("no_title") \in Rows /\ unmatched("no_title").deal = Null
        /\ unmatched("no_title").status = "unmatched"
    BY DEF unmatched, Rows, Methods
  <2>2. match' = match \/ match' = [match EXCEPT ![r] = unmatched("no_title")]
    BY <1>2 DEF Begin
  <2>3. TypeOK'
    <3>1. match' \in [Runs -> Rows] /\ answer' \in [Runs -> Rows]
      BY <1>2, <2>1, <2>2, <1>0 DEF IInv, TypeOK, Begin
    <3>2. pc' \in [Runs -> {"idle", "list", "upsert"}]
      BY <1>2 DEF IInv, TypeOK, Begin
    <3>3. /\ chat' \in [Runs -> Chats \cup {Null}]
          /\ \A q \in Runs : pc'[q] # "idle" => chat'[q] \in Chats
      BY <1>2 DEF IInv, TypeOK, Begin
    <3> QED
      BY <1>2, <3>1, <3>2, <3>3 DEF IInv, TypeOK, Begin, history
  <2>4. MatchOK'
    BY <2>1, <2>2 DEF IInv, TypeOK, MatchOK
  <2>5. TargetIffConfirmed'
    BY <1>2 DEF IInv, TargetIffConfirmed, Begin
  <2>6. AnsweredConfirmed'
    BY <1>2, <1>0 DEF IInv, TypeOK, AnsweredConfirmed, Begin
  <2> QED
    BY <2>3, <2>4, <2>5, <2>6 DEF IInv
<1>3. ASSUME NEW r \in Runs, ListDeals(r) PROVE IInv'
  <2>1. PICK page \in pages(score[chat[r]]) : \E row \in outcomes(score[chat[r]], page) :
          match' = [match EXCEPT ![r] = row]
    BY <1>3 DEF ListDeals
  <2> PICK row \in outcomes(score[chat[r]], page) : match' = [match EXCEPT ![r] = row]
    BY <2>1
  <2>2. chat[r] \in Chats /\ score[chat[r]] \in [Deals -> Scores]
    BY <1>3 DEF ListDeals, IInv, TypeOK
  <2>3. page \in SUBSET Deals
    BY DEF pages
  <2>4. row \in Rows /\ (row.deal # Null <=> row.status = "confirmed")
    BY <2>2, <2>3, OutcomeRow
  <2>5. TypeOK'
    BY <1>3, <2>1, <2>2, <2>4 DEF IInv, TypeOK, ListDeals, history
  <2>6. MatchOK'
    BY <2>1, <2>4 DEF IInv, TypeOK, MatchOK
  <2>7. TargetIffConfirmed' /\ AnsweredConfirmed'
    BY <1>3 DEF IInv, TargetIffConfirmed, AnsweredConfirmed, ListDeals
  <2> QED
    BY <2>5, <2>6, <2>7 DEF IInv
<1>4. ASSUME NEW r \in Runs, NEW answered \in BOOLEAN, Upsert(r, answered) PROVE IInv'
  <2> DEFINE c == chat[r]
             row == upsertDealMap(dealMap[c], match[r])
  <2>1. c \in Chats /\ dealMap[c] \in Rows /\ match[r] \in Rows
    BY <1>4 DEF Upsert, IInv, TypeOK
  <2>2. /\ row \in Rows
        /\ row.deal # Null <=> row.status = "confirmed"
        /\ dealMap[c].status = "confirmed" \/ match[r].status = "confirmed"
               <=> row.status = "confirmed"
    BY <2>1, UpsertRow DEF IInv, TargetIffConfirmed, MatchOK
  <2>3. /\ dealMap' = [dealMap EXCEPT ![c] = row]
        /\ UNCHANGED <<chat, score, history>>
        /\ pc' = [pc EXCEPT ![r] = "idle"]
        /\ match' = [match EXCEPT ![r] = NoRow]
        /\ answer' = [answer EXCEPT ![r] = IF answered THEN match[r] ELSE NoRow]
    BY <1>4 DEF Upsert
  <2> HIDE DEF row
  <2>4. TypeOK'
    BY <2>1, <2>2, <2>3, <1>0 DEF IInv, TypeOK, history
  <2>5. MatchOK'
    BY <2>3, <1>0 DEF IInv, TypeOK, MatchOK
  <2>6. TargetIffConfirmed'
    BY <2>2, <2>3 DEF IInv, TypeOK, TargetIffConfirmed
  <2>7. \A e \in Chats : dealMap[e].status = "confirmed" => dealMap'[e].status = "confirmed"
    BY <2>2, <2>3 DEF IInv, TypeOK
  <2>8. ASSUME NEW q \in Runs, answer'[q].status = "confirmed"
        PROVE  dealMap'[chat[q]].status = "confirmed"
    <3>1. CASE q = r
      BY <3>1, <2>8, <2>1, <2>2, <2>3, <1>0 DEF IInv, TypeOK
    <3>2. CASE q # r
      <4>1. answer'[q] = answer[q]
        BY <3>2, <2>3 DEF IInv, TypeOK
      <4>2. dealMap[chat[q]].status = "confirmed"
        BY <4>1, <2>8 DEF IInv, AnsweredConfirmed
      <4>3. CASE chat[q] = c
        BY <4>2, <4>3, <2>1, <2>7
      <4>4. CASE chat[q] # c
        BY <4>2, <4>4, <2>3 DEF IInv, TypeOK
      <4> QED
        BY <4>3, <4>4
    <3> QED
      BY <3>1, <3>2
  <2>9. AnsweredConfirmed'
    BY <2>8, <2>3 DEF AnsweredConfirmed
  <2> QED
    BY <2>4, <2>5, <2>6, <2>9 DEF IInv
<1>5. ASSUME NEW r \in Runs, Fail(r) PROVE IInv'
  <2>1. TypeOK'
    BY <1>5, <1>0 DEF IInv, TypeOK, Fail, history
  <2>2. MatchOK' /\ TargetIffConfirmed'
    BY <1>5, <1>0 DEF IInv, TypeOK, MatchOK, TargetIffConfirmed, Fail
  <2>3. AnsweredConfirmed'
    BY <1>5, <1>0 DEF IInv, TypeOK, AnsweredConfirmed, Fail
  <2> QED
    BY <2>1, <2>2, <2>3 DEF IInv
<1>6. ASSUME NEW c \in Chats, NEW d \in Deals, LinkDeal(c, d) PROVE IInv'
  <2> DEFINE row == linkRow(d)
  <2>1. row \in Rows /\ row.deal # Null /\ row.status = "confirmed"
    BY DealMapAssumption DEF linkRow, Rows, Methods
  <2>2. dealMap' = [dealMap EXCEPT ![c] = row]
    BY <1>6 DEF LinkDeal
  <2>3. TypeOK'
    BY <1>6, <2>1, <2>2 DEF IInv, TypeOK, LinkDeal, run
  <2>4. MatchOK'
    BY <1>6 DEF IInv, MatchOK, LinkDeal, run
  <2>5. TargetIffConfirmed'
    BY <2>1, <2>2 DEF IInv, TypeOK, TargetIffConfirmed
  <2>6. AnsweredConfirmed'
    <3>1. chat' = chat /\ answer' = answer
      BY <1>6 DEF LinkDeal, run
    <3>2. \A e : dealMap[e].status = "confirmed" /\ e # c => dealMap'[e] = dealMap[e]
      BY <2>2 DEF IInv, TypeOK
    <3>3. dealMap'[c].status = "confirmed"
      BY <2>1, <2>2 DEF IInv, TypeOK
    <3> QED
      BY <3>1, <3>2, <3>3 DEF IInv, AnsweredConfirmed
  <2> QED
    BY <2>3, <2>4, <2>5, <2>6 DEF IInv
<1>7. ASSUME NEW d \in Deals, NEW new \in [Chats -> Scores], Rename(d, new) PROVE IInv'
  <2>1. score' \in [Chats -> [Deals -> Scores]]
    BY <1>7 DEF Rename, IInv, TypeOK
  <2>2. clear' \in [Chats -> SUBSET Deals]
    BY <1>7 DEF Rename, IInv, TypeOK, ClearWinners
  <2>3. TypeOK'
    <3>1. renames' \in 0..MaxRenames
      BY <1>7, DealMapAssumption DEF IInv, TypeOK, Rename
    <3>2. UNCHANGED <<dealMap, pc, chat, match, answer, linked, raced>>
      BY <1>7 DEF Rename, run
    <3> QED
      BY <2>1, <2>2, <3>1, <3>2 DEF IInv, TypeOK
  <2> QED
    BY <1>7, <2>3 DEF IInv, MatchOK, TargetIffConfirmed, AnsweredConfirmed, Rename, run
<1>8. CASE UNCHANGED vars
  BY <1>8 DEF IInv, TypeOK, MatchOK, TargetIffConfirmed, AnsweredConfirmed, vars, run, history
<1> QED
  BY <1>1, <1>2, <1>3, <1>4, <1>5, <1>6, <1>7, <1>8 DEF Next

-----------------------------------------------------------------------------
(* The theorems                                                            *)

(* The invariant is inductive. *)
THEOREM Invariance == Spec => []IInv
<1> QED
  BY InitIInv, NextIInv, PTL DEF Spec

(* The rows, the resolutions and the history keep their types. *)
THEOREM TypeCorrect == Spec => []TypeOK
<1>1. IInv => TypeOK
  BY DEF IInv
<1> QED
  BY Invariance, <1>1, PTL

(* A chat has a deal to write to exactly when it is confirmed. *)
THEOREM TargetsAreConfirmed == Spec => []TargetIffConfirmed
<1>1. IInv => TargetIffConfirmed
  BY DEF IInv
<1> QED
  BY Invariance, <1>1, PTL

(* A new answer that is confirmed names the deal of the chat's row. *)
LEMMA NewAnswer ==
    ASSUME IInv, [Next]_vars, NEW r \in Runs,
           answer'[r].status = "confirmed", answer'[r] # answer[r]
    PROVE  chat'[r] \in Chats /\ dealMap'[chat'[r]].deal = answer'[r].deal
<1>1. ASSUME NEW q \in Runs, NEW c \in Chats, AnswerConfirmed(q, c)
      PROVE  chat'[r] \in Chats /\ dealMap'[chat'[r]].deal = answer'[r].deal
  BY <1>1 DEF AnswerConfirmed, IInv, TypeOK
<1>2. ASSUME NEW q \in Runs, NEW c \in Chats, Begin(q, c) PROVE FALSE
  BY <1>2 DEF Begin, NoRow, IInv, TypeOK
<1>3. ASSUME NEW q \in Runs, ListDeals(q) PROVE FALSE
  BY <1>3 DEF ListDeals
<1>4. ASSUME NEW q \in Runs, NEW answered \in BOOLEAN, Upsert(q, answered)
      PROVE  chat'[r] \in Chats /\ dealMap'[chat'[r]].deal = answer'[r].deal
  <2>1. q = r /\ answer'[r] = match[r] /\ chat[r] \in Chats /\ chat' = chat
    BY <1>4 DEF Upsert, NoRow, IInv, TypeOK
  <2>2. dealMap'[chat[r]] = match[r]
    BY <1>4, <2>1 DEF Upsert, upsertDealMap, IInv, TypeOK
  <2> QED
    BY <2>1, <2>2
<1>5. ASSUME NEW q \in Runs, Fail(q) PROVE FALSE
  BY <1>5 DEF Fail, NoRow, IInv, TypeOK
<1>6. ASSUME NEW c \in Chats, NEW d \in Deals, LinkDeal(c, d) PROVE FALSE
  BY <1>6 DEF LinkDeal, run
<1>7. ASSUME NEW d \in Deals, NEW new \in [Chats -> Scores], Rename(d, new) PROVE FALSE
  BY <1>7 DEF Rename, run
<1>8. CASE UNCHANGED vars
  BY <1>8 DEF vars, run
<1> QED
  BY <1>1, <1>2, <1>3, <1>4, <1>5, <1>6, <1>7, <1>8 DEF Next

(* What a workflow is told is confirmed is the deal of the row then, and   *)
(* the chat stays confirmed, though the answer is not read from the row    *)
(* but is the match that the resolution had made (resolveDeal).            *)
THEOREM AnswersAreTrusted == Spec => AnswerIsTrusted
<1> DEFINE Trusted == \A r \in Runs : answer'[r].status = "confirmed" =>
               /\ dealMap'[chat'[r]].status = "confirmed"
               /\ answer'[r] # answer[r] => dealMap'[chat'[r]].deal = answer'[r].deal
<1>1. IInv /\ IInv' /\ [Next]_vars => [Trusted]_vars
  BY NewAnswer DEF IInv, AnsweredConfirmed
<1> QED
  BY Invariance, <1>1, PTL DEF Spec, AnswerIsTrusted, Trusted

(* No stale resolution takes a confirmed chat back. *)
THEOREM ConfirmedChatsStay == Spec => ConfirmedStays
<1> DEFINE Stays == \A c \in Chats :
             dealMap[c].status = "confirmed" => dealMap'[c].status = "confirmed"
<1>1. IInv /\ [Next]_vars => [Stays]_vars
  <2> SUFFICES ASSUME IInv, [Next]_vars PROVE Stays
    OBVIOUS
  <2>1. CASE UNCHANGED dealMap
    BY <2>1
  <2>2. ASSUME NEW r \in Runs, NEW answered \in BOOLEAN, Upsert(r, answered) PROVE Stays
    BY <2>2 DEF Upsert, upsertDealMap, IInv, TypeOK
  <2>3. ASSUME NEW c \in Chats, NEW d \in Deals, LinkDeal(c, d) PROVE Stays
    BY <2>3 DEF LinkDeal, linkRow, IInv, TypeOK
  <2>4. ASSUME NEW r \in Runs, NEW c \in Chats, AnswerConfirmed(r, c) \/ Begin(r, c)
        PROVE  UNCHANGED dealMap
    BY <2>4 DEF AnswerConfirmed, Begin
  <2>5. ASSUME NEW r \in Runs, ListDeals(r) \/ Fail(r) PROVE UNCHANGED dealMap
    BY <2>5 DEF ListDeals, Fail
  <2>6. ASSUME NEW d \in Deals, NEW new \in [Chats -> Scores], Rename(d, new)
        PROVE  UNCHANGED dealMap
    BY <2>6 DEF Rename
  <2>7. CASE UNCHANGED vars
    BY <2>7 DEF vars
  <2> QED
    BY <2>1, <2>2, <2>3, <2>4, <2>5, <2>6, <2>7 DEF Next
<1> QED
  BY Invariance, <1>1, PTL DEF Spec, ConfirmedStays

(* As long as one page holds all deals, a confirmed deal was linked by the *)
(* operator or was a clear winner.                                         *)
THEOREM ConfirmedAreEarned ==
    ASSUME Cardinality(Deals) <= PageSize
    PROVE  Spec => []ConfirmedIsEarned
<1> DEFINE Earned == ClearNow /\ MatchEarned /\ ConfirmedIsEarned
<1>1. IInv /\ Earned /\ [Next]_vars => Earned'
  <2> SUFFICES ASSUME IInv, ClearNow, MatchEarned, ConfirmedIsEarned, [Next]_vars
               PROVE  Earned'
    OBVIOUS
  <2>1. ASSUME NEW r \in Runs, NEW c \in Chats, AnswerConfirmed(r, c) PROVE Earned'
    <3>1. ASSUME NEW q \in Runs, pc[q] = "upsert" PROVE chat'[q] = chat[q]
      BY <2>1, <3>1 DEF AnswerConfirmed, IInv, TypeOK
    <3> QED
      BY <2>1, <3>1 DEF AnswerConfirmed, history, ClearNow, MatchEarned, ConfirmedIsEarned
  <2>2. ASSUME NEW r \in Runs, NEW c \in Chats, Begin(r, c) PROVE Earned'
    <3>1. ASSUME NEW q \in Runs, pc'[q] = "upsert", match'[q].status = "confirmed"
          PROVE  match'[q] = match[q] /\ chat'[q] = chat[q] /\ pc[q] = "upsert"
      BY <2>2, <3>1 DEF Begin, IInv, TypeOK, unmatched
    <3> QED
      BY <2>2, <3>1 DEF Begin, history, ClearNow, MatchEarned, ConfirmedIsEarned
  <2>3. ASSUME NEW r \in Runs, ListDeals(r) PROVE Earned'
    <3>1. PICK page \in pages(score[chat[r]]) : \E row \in outcomes(score[chat[r]], page) :
            match' = [match EXCEPT ![r] = row]
      BY <2>3 DEF ListDeals
    <3> PICK row \in outcomes(score[chat[r]], page) : match' = [match EXCEPT ![r] = row]
      BY <3>1
    <3>2. chat[r] \in Chats /\ score[chat[r]] \in [Deals -> Scores]
      BY <2>3 DEF ListDeals, IInv, TypeOK
    <3>3. row.status = "confirmed" => row.deal \in clear[chat[r]]
      BY <3>2, OutcomeEarned DEF ClearNow
    <3>4. /\ match'[r] = row
          /\ \A q \in Runs : q # r => match'[q] = match[q] /\ pc'[q] = pc[q]
          /\ UNCHANGED <<chat, clear, dealMap, linked, score>>
      BY <2>3 DEF ListDeals, history, IInv, TypeOK
    <3> QED
      BY <3>3, <3>4 DEF ClearNow, MatchEarned, ConfirmedIsEarned
  <2>4. ASSUME NEW r \in Runs, NEW answered \in BOOLEAN, Upsert(r, answered) PROVE Earned'
    <3> DEFINE c == chat[r]
               row == upsertDealMap(dealMap[c], match[r])
    <3>1. c \in Chats /\ dealMap[c] \in Rows /\ match[r] \in Rows
      BY <2>4 DEF Upsert, IInv, TypeOK
    <3>2. row.status = "confirmed" => row.deal \in {linked[c]} \cup clear[c]
      BY <2>4, <3>1 DEF upsertDealMap, Upsert, MatchEarned, ConfirmedIsEarned, Rows
    <3>3. /\ dealMap' = [dealMap EXCEPT ![c] = row]
          /\ UNCHANGED <<chat, score, history>>
          /\ pc' = [pc EXCEPT ![r] = "idle"]
          /\ match' = [match EXCEPT ![r] = NoRow]
      BY <2>4 DEF Upsert
    <3> HIDE DEF row
    <3>4. ConfirmedIsEarned'
      BY <3>2, <3>3 DEF ConfirmedIsEarned, history, IInv, TypeOK
    <3>5. MatchEarned'
      BY <3>3 DEF MatchEarned, history, IInv, TypeOK
    <3>6. ClearNow'
      BY <3>3 DEF ClearNow, history
    <3> QED
      BY <3>4, <3>5, <3>6
  <2>5. ASSUME NEW r \in Runs, Fail(r) PROVE Earned'
    <3>1. ASSUME NEW q \in Runs, pc'[q] = "upsert"
          PROVE  match'[q] = match[q] /\ pc[q] = "upsert"
      BY <2>5, <3>1 DEF Fail, IInv, TypeOK
    <3> QED
      BY <2>5, <3>1 DEF Fail, history, ClearNow, MatchEarned, ConfirmedIsEarned
  <2>6. ASSUME NEW c \in Chats, NEW d \in Deals, LinkDeal(c, d) PROVE Earned'
    <3>1. ConfirmedIsEarned'
      BY <2>6 DEF LinkDeal, linkRow, ConfirmedIsEarned, IInv, TypeOK
    <3> QED
      BY <2>6, <3>1 DEF LinkDeal, run, ClearNow, MatchEarned
  <2>7. ASSUME NEW d \in Deals, NEW new \in [Chats -> Scores], Rename(d, new) PROVE Earned'
    <3>1. \A c \in Chats : clear'[c] = clear[c] \cup ClearWinners(score'[c])
      BY <2>7 DEF Rename
    <3>2. UNCHANGED <<dealMap, pc, chat, match, linked>>
      BY <2>7 DEF Rename, run
    <3>3. ClearNow'
      BY <3>1 DEF ClearNow
    <3>4. MatchEarned'
      BY <3>1, <3>2 DEF MatchEarned, IInv, TypeOK
    <3>5. ConfirmedIsEarned'
      BY <3>1, <3>2 DEF ConfirmedIsEarned
    <3> QED
      BY <3>3, <3>4, <3>5
  <2>8. CASE UNCHANGED vars
    BY <2>8 DEF vars, run, history, ClearNow, MatchEarned, ConfirmedIsEarned
  <2> QED
    BY <2>1, <2>2, <2>3, <2>4, <2>5, <2>6, <2>7, <2>8 DEF Next
<1>2. Init => Earned
  BY InitIInv
<1> HIDE DEF Earned
<1>3. Spec => []Earned
  BY <1>1, <1>2, Invariance, PTL DEF Spec
<1>4. Earned => ConfirmedIsEarned
  BY DEF Earned
<1> QED
  BY <1>3, <1>4, PTL

(* So each new answer that is confirmed names the deal that the operator   *)
(* has linked the chat to, or one that was a clear winner.                 *)
THEOREM AnswersAreEarned ==
    ASSUME Cardinality(Deals) <= PageSize
    PROVE  Spec => [][\A r \in Runs : answer'[r].status = "confirmed" /\ answer'[r] # answer[r]
                         => answer'[r].deal \in {linked'[chat'[r]]} \cup clear'[chat'[r]]]_vars
<1> DEFINE Earned == \A r \in Runs : answer'[r].status = "confirmed" /\ answer'[r] # answer[r]
                         => answer'[r].deal \in {linked'[chat'[r]]} \cup clear'[chat'[r]]
<1>1. IInv /\ IInv' /\ ConfirmedIsEarned' /\ [Next]_vars => [Earned]_vars
  <2> SUFFICES ASSUME IInv, AnsweredConfirmed', ConfirmedIsEarned', [Next]_vars, NEW r \in Runs,
                      answer'[r].status = "confirmed", answer'[r] # answer[r]
               PROVE  answer'[r].deal \in {linked'[chat'[r]]} \cup clear'[chat'[r]]
    BY DEF IInv
  <2> QED
    BY NewAnswer DEF AnsweredConfirmed, ConfirmedIsEarned
<1> HIDE DEF Earned
<1>2. Spec => []ConfirmedIsEarned
  BY ConfirmedAreEarned
<1>3. Spec => [][Earned]_vars
  BY <1>1, <1>2, Invariance, PTL DEF Spec
<1> QED
  BY <1>3 DEF Earned

(* A link made while no resolution of the chat is at work stays the row:   *)
(* the row is confirmed, so no resolution of the chat begins.              *)
THEOREM LinksAreKept == Spec => []QuietLinkIsKept
<1> DEFINE Quiet == \A c \in Chats \ raced :
             linked[c] # Null => dealMap[c] = linkRow(linked[c]) /\ ~atWork(c)
<1>1. Init => Quiet
  BY DEF Init
<1>2. IInv /\ Quiet /\ [Next]_vars => Quiet'
  <2> SUFFICES ASSUME IInv, Quiet, [Next]_vars,
                      NEW c \in Chats, c \notin raced', linked'[c] # Null
               PROVE  dealMap'[c] = linkRow(linked'[c]) /\ ~atWork(c)'
    OBVIOUS
  <2>1. ASSUME NEW r \in Runs, NEW b \in Chats, AnswerConfirmed(r, b)
        PROVE  dealMap'[c] = linkRow(linked'[c]) /\ ~atWork(c)'
    BY <2>1 DEF AnswerConfirmed, history, atWork, IInv, TypeOK
  <2>2. ASSUME NEW r \in Runs, NEW b \in Chats, Begin(r, b)
        PROVE  dealMap'[c] = linkRow(linked'[c]) /\ ~atWork(c)'
    <3>1. UNCHANGED <<dealMap, linked, raced>>
      BY <2>2 DEF Begin, history
    <3>2. dealMap[c] = linkRow(linked[c]) /\ ~atWork(c)
      BY <3>1
    <3>3. b # c
      BY <2>2, <3>2 DEF Begin, linkRow
    <3>4. \A q \in Runs : q # r => pc'[q] = pc[q] /\ chat'[q] = chat[q]
      BY <2>2 DEF Begin, IInv, TypeOK
    <3>5. chat'[r] = b
      BY <2>2 DEF Begin, IInv, TypeOK
    <3> QED
      BY <3>1, <3>2, <3>3, <3>4, <3>5 DEF atWork
  <2>3. ASSUME NEW r \in Runs, ListDeals(r)
        PROVE  dealMap'[c] = linkRow(linked'[c]) /\ ~atWork(c)'
    BY <2>3 DEF ListDeals, history, atWork, IInv, TypeOK
  <2>4. ASSUME NEW r \in Runs, NEW answered \in BOOLEAN, Upsert(r, answered)
        PROVE  dealMap'[c] = linkRow(linked'[c]) /\ ~atWork(c)'
    <3>1. UNCHANGED <<chat, linked, raced>> /\ pc' = [pc EXCEPT ![r] = "idle"]
      BY <2>4 DEF Upsert, history
    <3>2. dealMap[c] = linkRow(linked[c]) /\ ~atWork(c)
      BY <3>1
    <3>3. chat[r] # c
      BY <2>4, <3>2 DEF Upsert, atWork
    <3>4. dealMap'[c] = dealMap[c]
      BY <2>4, <3>3 DEF Upsert, IInv, TypeOK
    <3> QED
      BY <3>1, <3>2, <3>4 DEF atWork, IInv, TypeOK
  <2>5. ASSUME NEW r \in Runs, Fail(r)
        PROVE  dealMap'[c] = linkRow(linked'[c]) /\ ~atWork(c)'
    BY <2>5 DEF Fail, history, atWork, IInv, TypeOK
  <2>6. ASSUME NEW b \in Chats, NEW d \in Deals, LinkDeal(b, d)
        PROVE  dealMap'[c] = linkRow(linked'[c]) /\ ~atWork(c)'
    <3>1. atWork(c)' = atWork(c)
      BY <2>6 DEF LinkDeal, run, atWork
    <3>2. CASE b = c
      BY <2>6, <3>1, <3>2 DEF LinkDeal, IInv, TypeOK
    <3>3. CASE b # c
      <4>1. dealMap'[c] = dealMap[c] /\ linked'[c] = linked[c] /\ c \notin raced
        BY <2>6, <3>3 DEF LinkDeal, IInv, TypeOK
      <4> QED
        BY <3>1, <4>1
    <3> QED
      BY <3>2, <3>3
  <2>7. ASSUME NEW d \in Deals, NEW new \in [Chats -> Scores], Rename(d, new)
        PROVE  dealMap'[c] = linkRow(linked'[c]) /\ ~atWork(c)'
    BY <2>7 DEF Rename, run, atWork
  <2>8. CASE UNCHANGED vars
    BY <2>8 DEF vars, run, history, atWork
  <2> QED
    BY <2>1, <2>2, <2>3, <2>4, <2>5, <2>6, <2>7, <2>8 DEF Next
<1> HIDE DEF Quiet
<1>3. Spec => []Quiet
  BY <1>1, <1>2, Invariance, PTL DEF Spec
<1>4. Quiet => QuietLinkIsKept
  BY DEF Quiet, QuietLinkIsKept
<1> QED
  BY <1>3, <1>4, PTL

=============================================================================
