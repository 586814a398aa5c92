----------------------------- MODULE IngestProofs -----------------------------
(***************************************************************************)
(* No message is skipped, for any number of chats, runs and messages.      *)
(*                                                                         *)
(* NoGap alone is not inductive: a cursor is set from what a run holds in  *)
(* memory.  Each run knows two marks per chat, and IInv says that the      *)
(* messages up to them are stored too: up to lo always (it starts at a     *)
(* cursor or at 0, and a backfill raises it row by row), up to hi whenever *)
(* the run may set the cursor from it.                                     *)
(***************************************************************************)
EXTENDS Ingest, FiniteSetTheorems, TLAPS

(* Message i of chat c is in D1, or a backfill may drop it as too old. *)
Stored(c, i) == rows[c][i] # "absent" \/ i <= Cutoff

StoredUpTo(c, n) == \A i \in 1..n : Stored(c, i)

LoStored == \A r \in Runs, c \in Chats : StoredUpTo(c, lo[r][c])

HiStored ==
    \A r \in Runs, c \in Chats :
        pc[r] \in {"chats", "cursors"} => StoredUpTo(c, hi[r][c])

(* The inductive invariant. *)
IInv ==
    /\ TypeOK
    /\ NoGap
    /\ LoStored
    /\ HiStored

(* Init implies the inductive invariant. *)
LEMMA InitIInv == Init => IInv
  BY IngestAssumption
  DEF Init, IInv, TypeOK, NoGap, LoStored, HiStored, StoredUpTo, Zero, Ids

-----------------------------------------------------------------------------
(* Type correctness                                                        *)

(* Start keeps the types: lo and hi start from the cursors or from 0. *)
LEMMA StartType == ASSUME TypeOK, NEW r \in Runs, Start(r) PROVE TypeOK'
  <1> DEFINE from == IF Kind[r] = "backfill" THEN Zero ELSE cursor
  <1>1. from \in [Chats -> 0..MaxId]
    BY IngestAssumption DEF TypeOK, Zero
  <1>2. /\ lo' = [lo EXCEPT ![r] = from]
        /\ hi' = [hi EXCEPT ![r] = from]
    BY DEF Start
  <1>3. lo' \in [Runs -> [Chats -> 0..MaxId]] /\ hi' \in [Runs -> [Chats -> 0..MaxId]]
    BY <1>1, <1>2 DEF TypeOK
  <1> QED BY <1>3 DEF TypeOK, Start, d1

(* UpsertMessage keeps the types: hi stays within what is posted. *)
LEMMA UpsertMessageType == ASSUME TypeOK, NEW r \in Runs, UpsertMessage(r) PROVE TypeOK'
  <1>1. PICK c \in Chats :
          /\ more(r, c)
          /\ rows' = [rows EXCEPT ![c] = [rows[c] EXCEPT ![hi[r][c] + 1] = upsert(@)]]
          /\ hi' = [hi EXCEPT ![r] = [hi[r] EXCEPT ![c] = @ + 1]]
    BY DEF UpsertMessage
  <1>2. hi[r][c] + 1 \in 1..MaxId
    BY <1>1, IngestAssumption DEF TypeOK, more
  <1>3. rows' \in [Chats -> [Ids -> {"absent", "new", "extracted"}]]
    BY <1>1, <1>2 DEF TypeOK, upsert, Ids
  <1>4. hi' \in [Runs -> [Chats -> 0..MaxId]]
    BY <1>1, <1>2 DEF TypeOK
  <1> QED BY <1>3, <1>4 DEF TypeOK, UpsertMessage

(* Setting a cursor to a number in range keeps its type. *)
LEMMA SetCursorType ==
    ASSUME TypeOK, NEW c \in Chats, NEW id \in 0..MaxId, setCursor(c, id)
    PROVE  cursor' \in [Chats -> 0..MaxId]
  BY DEF TypeOK, setCursor

(* DialogDone keeps the types. *)
LEMMA DialogDoneType == ASSUME TypeOK, NEW r \in Runs, DialogDone(r) PROVE TypeOK'
  <1>1. PICK c \in Chats :
          /\ IF hi[r][c] > lo[r][c] THEN setCursor(c, hi[r][c]) ELSE UNCHANGED cursor
          /\ left' = [left EXCEPT ![r] = @ \ {c}]
    BY DEF DialogDone
  <1>2. hi[r][c] \in 0..MaxId
    BY DEF TypeOK
  <1>3. cursor' \in [Chats -> 0..MaxId]
    BY <1>1, <1>2, SetCursorType DEF TypeOK
  <1> QED BY <1>1, <1>3 DEF TypeOK, DialogDone

(* Fetch keeps the types: what it returns is posted. *)
LEMMA FetchType == ASSUME TypeOK, NEW r \in Runs, Fetch(r) PROVE TypeOK'
  <1>1. PICK failed \in SUBSET Chats, got \in [Chats -> 0..FetchLimit] :
          /\ faults + Cardinality(failed) <= MaxFaults
          /\ \A c \in Chats :
               LET all == IF posted[c] - lo[r][c] < FetchLimit
                          THEN posted[c] - lo[r][c] ELSE FetchLimit
               IN  IF c \in failed THEN got[c] <= all ELSE got[c] = all
          /\ hi' = [hi EXCEPT ![r] = [c \in Chats |-> lo[r][c] + got[c]]]
          /\ left' = [left EXCEPT ![r] =
                 {c \in Chats : got[c] > 0 /\ (c \in failed => Kind[r] = "backfill")}]
          /\ faults' = faults + Cardinality(failed)
    BY DEF Fetch
  <1>2. ASSUME NEW c \in Chats PROVE lo[r][c] + got[c] \in 0..MaxId
    <2>1. got[c] \in Nat /\ lo[r][c] \in 0..MaxId /\ posted[c] \in 0..MaxId
      BY IngestAssumption DEF TypeOK
    <2>2. got[c] <= posted[c] - lo[r][c]
      <3> DEFINE all == IF posted[c] - lo[r][c] < FetchLimit
                        THEN posted[c] - lo[r][c] ELSE FetchLimit
      <3>1. got[c] <= all
        <4>1. IF c \in failed THEN got[c] <= all ELSE got[c] = all
          BY <1>1
        <4> QED BY <4>1, <2>1, IngestAssumption
      <3> QED BY <3>1, <2>1, IngestAssumption
    <2> QED BY <2>1, <2>2, IngestAssumption
  <1>3. hi' \in [Runs -> [Chats -> 0..MaxId]]
    BY <1>1, <1>2 DEF TypeOK
  <1>4. left' \in [Runs -> SUBSET Chats]
    BY <1>1 DEF TypeOK
  <1>5. faults' \in 0..MaxFaults
    <2>1. IsFiniteSet(failed)
      BY IngestAssumption, FS_Subset
    <2>2. Cardinality(failed) \in Nat
      BY <2>1, FS_CardinalityType
    <2>3. faults \in 0..MaxFaults
      BY DEF TypeOK
    <2> QED BY <1>1, <2>2, <2>3, IngestAssumption
  <1>6. pc' \in [Runs -> {"idle", "chats", "fetch", "write", "cursors"}]
    BY DEF TypeOK, Fetch
  <1> QED BY <1>3, <1>4, <1>5, <1>6 DEF TypeOK, Fetch, d1

(* The write steps keep the types. *)
LEMMA UpsertMessagesType == ASSUME TypeOK, NEW r \in Runs, UpsertMessages(r) PROVE TypeOK'
  <1>1. \A c \in Chats, i \in Ids : rows[c][i] \in {"absent", "new", "extracted"}
    BY DEF TypeOK
  <1>2. rows' \in [Chats -> [Ids -> {"absent", "new", "extracted"}]]
    BY <1>1 DEF UpsertMessages, upsert
  <1> QED BY <1>2 DEF TypeOK, UpsertMessages

(* A backfill's row write keeps the types.                                 *)
LEMMA WriteRowType ==
    ASSUME TypeOK, NEW r \in Runs, NEW c \in Chats, WriteRow(r, c)
    PROVE  TypeOK'
  <1>1. lo[r][c] + 1 \in 1..MaxId
    BY IngestAssumption DEF TypeOK, WriteRow
  <1>2. lo' = [lo EXCEPT ![r] = [lo[r] EXCEPT ![c] = @ + 1]]
    BY DEF WriteRow
  <1>3. lo' \in [Runs -> [Chats -> 0..MaxId]]
    BY <1>1, <1>2 DEF TypeOK
  <1>4. \/ rows' = [rows EXCEPT ![c] = [rows[c] EXCEPT ![lo[r][c] + 1] = upsert(@)]]
        \/ rows' = rows
    BY DEF WriteRow
  <1>5. rows' \in [Chats -> [Ids -> {"absent", "new", "extracted"}]]
    <2>1. rows \in [Chats -> [Ids -> {"absent", "new", "extracted"}]]
      BY DEF TypeOK
    <2>2. CASE rows' = rows
      BY <2>1, <2>2
    <2>3. CASE rows' = [rows EXCEPT ![c] = [rows[c] EXCEPT ![lo[r][c] + 1] = upsert(@)]]
      <3>1. \A row \in {"absent", "new", "extracted"} :
               upsert(row) \in {"absent", "new", "extracted"}
        BY DEF upsert
      <3>2. [rows[c] EXCEPT ![lo[r][c] + 1] = upsert(@)]
               \in [Ids -> {"absent", "new", "extracted"}]
        BY <2>1, <3>1, <1>1 DEF Ids
      <3> QED BY <2>1, <2>3, <3>2
    <2> QED BY <1>4, <2>2, <2>3
  <1> QED BY <1>3, <1>5 DEF TypeOK, WriteRow

(* A cursor write keeps the types. *)
LEMMA AdvanceCursorType ==
    ASSUME TypeOK, NEW r \in Runs, NEW c \in Chats, AdvanceCursor(r, c)
    PROVE  TypeOK'
  <1>1. hi[r][c] \in 0..MaxId
    BY DEF TypeOK
  <1>2. cursor' \in [Chats -> 0..MaxId]
    BY <1>1, SetCursorType DEF AdvanceCursor
  <1> QED BY <1>2 DEF TypeOK, AdvanceCursor

(* A run that ends forgets everything. *)
LEMMA FinishType ==
    ASSUME TypeOK, NEW r \in Runs, NEW beat \in {"none", "ok", "failed"}, finish(r, beat),
           UNCHANGED <<posted, rows, cursor>>, faults' \in 0..MaxFaults
    PROVE  TypeOK'
  <1>1. Zero \in [Chats -> 0..MaxId]
    BY IngestAssumption DEF Zero
  <1> QED BY <1>1 DEF TypeOK, finish

(* Every step keeps the types. *)
LEMMA NextType == TypeOK /\ [Next]_vars => TypeOK'
  <1> SUFFICES ASSUME TypeOK, [Next]_vars PROVE TypeOK'
    OBVIOUS
  <1>1. ASSUME NEW r \in Runs, NEW c \in Chats, NextDialog(r, c) PROVE TypeOK'
    BY <1>1 DEF TypeOK, NextDialog, d1
  <1>2. ASSUME NEW r \in Runs, RowsDone(r) PROVE TypeOK'
    BY <1>2 DEF TypeOK, RowsDone, d1
  <1>3. ASSUME NEW r \in Runs, Finish(r) PROVE TypeOK'
    BY <1>3, FinishType DEF TypeOK, Finish
  <1>4. ASSUME NEW r \in Runs, Fail(r) PROVE TypeOK'
    <2>1. faults' \in 0..MaxFaults
      BY <1>4, IngestAssumption DEF TypeOK, Fail
    <2>2. finish(r, heartbeat) \/ finish(r, "failed")
      BY <1>4 DEF Fail
    <2> QED BY <1>4, <2>1, <2>2, FinishType DEF TypeOK, Fail
  <1>5. ASSUME NEW c \in Chats, Post(c) PROVE TypeOK'
    BY <1>5, IngestAssumption DEF TypeOK, Post, d1, local
  <1>6. ASSUME NEW c \in Chats, NEW i \in Ids, MarkExtracted(c, i) PROVE TypeOK'
    <2>1. rows' = [rows EXCEPT ![c] = [rows[c] EXCEPT ![i] = "extracted"]]
      BY <1>6 DEF MarkExtracted
    <2> QED BY <1>6, <2>1 DEF TypeOK, MarkExtracted, local
  <1>7. CASE UNCHANGED vars
    BY <1>7 DEF TypeOK, vars, d1, local
  <1>8. ASSUME NEW r \in Runs, Step(r) PROVE TypeOK'
    <2>1. CASE Start(r)
      BY <2>1, StartType
    <2>2. CASE UpsertMessage(r)
      BY <2>2, UpsertMessageType
    <2>3. CASE DialogDone(r)
      BY <2>3, DialogDoneType
    <2>4. CASE Fetch(r)
      BY <2>4, FetchType
    <2>5. CASE UpsertMessages(r)
      BY <2>5, UpsertMessagesType
    <2> QED
      BY <1>8, <2>1, <2>2, <2>3, <2>4, <2>5, <1>1, <1>2, <1>3, WriteRowType, AdvanceCursorType DEF Step
  <1> QED
    BY <1>4, <1>5, <1>6, <1>7, <1>8 DEF Next

-----------------------------------------------------------------------------
(* No gap                                                                  *)

(* Rows are never deleted, and stay extracted. *)
RowsGrow ==
    \A c \in Chats, i \in Ids :
        /\ rows[c][i] # "absent" => rows'[c][i] # "absent"
        /\ rows[c][i] = "extracted" => rows'[c][i] = "extracted"

(* What is stored up to a number stays so while rows only grow. *)
LEMMA StoredStays ==
    ASSUME TypeOK, RowsGrow, NEW c \in Chats, NEW n \in 0..MaxId, StoredUpTo(c, n)
    PROVE  StoredUpTo(c, n)'
  <1>1. 1..n \subseteq Ids
    BY IngestAssumption DEF Ids
  <1> QED BY <1>1 DEF StoredUpTo, Stored, RowsGrow

(* One more stored message raises the mark by one. *)
LEMMA StoredNext ==
    ASSUME TypeOK, RowsGrow, NEW c \in Chats, NEW n \in 0..MaxId, StoredUpTo(c, n),
           Stored(c, n + 1)'
    PROVE  StoredUpTo(c, n + 1)'
  <1>1. StoredUpTo(c, n)'
    BY StoredStays
  <1>2. \A i \in 1..(n + 1) : i \in 1..n \/ i = n + 1
    BY IngestAssumption
  <1> QED BY <1>1, <1>2 DEF StoredUpTo

(* A cursor is set to a number up to which everything is stored. *)
LEMMA CursorStored ==
    ASSUME TypeOK, NoGap, NEW c \in Chats, NEW id \in 0..MaxId, setCursor(c, id),
           StoredUpTo(c, id), UNCHANGED rows
    PROVE  NoGap'
  <1>1. ASSUME NEW e \in Chats PROVE StoredUpTo(e, cursor'[e])
    <2>1. StoredUpTo(e, cursor[e])
      BY DEF NoGap, StoredUpTo, Stored
    <2>2. cursor'[e] = cursor[e] \/ (e = c /\ cursor'[e] = id)
      BY DEF setCursor, TypeOK
    <2> QED BY <2>1, <2>2
  <1> QED BY <1>1 DEF NoGap, StoredUpTo, Stored

(* The rows written by a step exist, and no step removes one. *)
LEMMA NextRowsGrow == TypeOK /\ [Next]_vars => RowsGrow
  <1> SUFFICES ASSUME TypeOK, [Next]_vars PROVE RowsGrow
    OBVIOUS
  <1>1. \A row \in {"absent", "new", "extracted"} :
           upsert(row) # "absent" /\ (row = "extracted" => upsert(row) = "extracted")
    BY DEF upsert
  <1>2. ASSUME NEW r \in Runs, UpsertMessage(r) PROVE RowsGrow
    <2>1. PICK c \in Chats :
            rows' = [rows EXCEPT ![c] = [rows[c] EXCEPT ![hi[r][c] + 1] = upsert(@)]]
      BY <1>2 DEF UpsertMessage
    <2>2. \A i \in Ids : /\ rows[c][i] # "absent" => rows'[c][i] # "absent"
                         /\ rows[c][i] = "extracted" => rows'[c][i] = "extracted"
      BY <2>1 DEF TypeOK, upsert
    <2>3. \A e \in Chats : e # c => rows'[e] = rows[e]
      BY <2>1 DEF TypeOK
    <2> QED BY <2>2, <2>3 DEF RowsGrow
  <1>3. ASSUME NEW r \in Runs, UpsertMessages(r) PROVE RowsGrow
    BY <1>3, <1>1 DEF RowsGrow, UpsertMessages, TypeOK
  <1>4. ASSUME NEW r \in Runs, NEW c \in Chats, WriteRow(r, c) PROVE RowsGrow
    <2>1. \/ rows' = [rows EXCEPT ![c] = [rows[c] EXCEPT ![lo[r][c] + 1] = upsert(@)]]
          \/ rows' = rows
      BY <1>4 DEF WriteRow
    <2>2. \A i \in Ids : /\ rows[c][i] # "absent" => rows'[c][i] # "absent"
                         /\ rows[c][i] = "extracted" => rows'[c][i] = "extracted"
      BY <2>1, <1>1 DEF TypeOK
    <2>3. \A e \in Chats : e # c => rows'[e] = rows[e]
      BY <2>1 DEF TypeOK
    <2> QED BY <2>2, <2>3 DEF RowsGrow
  <1>5. ASSUME NEW c \in Chats, NEW i \in Ids, MarkExtracted(c, i) PROVE RowsGrow
    <2>1. rows' = [rows EXCEPT ![c] = [rows[c] EXCEPT ![i] = "extracted"]]
      BY <1>5 DEF MarkExtracted
    <2> QED BY <2>1 DEF RowsGrow, TypeOK
  <1>6. CASE UNCHANGED rows
    BY <1>6 DEF RowsGrow
  <1>7. ASSUME NEW r \in Runs, Step(r) PROVE RowsGrow
    <2>1. ASSUME Start(r) \/ DialogDone(r) \/ Fetch(r) \/ RowsDone(r) \/ Finish(r)
          PROVE  UNCHANGED rows
      BY <2>1 DEF Start, DialogDone, Fetch, RowsDone, Finish, d1
    <2>2. ASSUME NEW c \in Chats, NextDialog(r, c) \/ AdvanceCursor(r, c)
          PROVE  UNCHANGED rows
      BY <2>2 DEF NextDialog, AdvanceCursor, d1
    <2> QED BY <1>7, <2>1, <2>2, <1>2, <1>3, <1>4, <1>6 DEF Step
  <1>8. ASSUME NEW r \in Runs, Fail(r) PROVE UNCHANGED rows
    BY <1>8 DEF Fail
  <1>9. ASSUME NEW c \in Chats, Post(c) PROVE UNCHANGED rows
    BY <1>9 DEF Post, d1
  <1>10. ASSUME UNCHANGED vars PROVE UNCHANGED rows
    BY <1>10 DEF vars, d1
  <1> QED BY <1>5, <1>6, <1>7, <1>8, <1>9, <1>10 DEF Next

(* Quiet steps: the marks, the cursors and the control points that allow a *)
(* run to use hi are as they were.                                         *)
LEMMA QuietStep ==
    ASSUME IInv, RowsGrow, UNCHANGED <<cursor, lo>>,
           \A r \in Runs, c \in Chats :
               pc'[r] \in {"chats", "cursors"} =>
                   \/ pc[r] \in {"chats", "cursors"} /\ hi'[r][c] = hi[r][c]
                   \/ StoredUpTo(c, hi[r][c])'
    PROVE  (NoGap /\ LoStored /\ HiStored)'
  <1>1. NoGap'
    <2>1. \A c \in Chats : cursor[c] \in 0..MaxId /\ StoredUpTo(c, cursor[c])
      BY DEF IInv, TypeOK, NoGap, StoredUpTo, Stored
    <2>2. \A c \in Chats : StoredUpTo(c, cursor[c])'
      BY <2>1, StoredStays DEF IInv
    <2> QED BY <2>2 DEF NoGap, StoredUpTo, Stored
  <1>2. LoStored'
    <2>1. \A r \in Runs, c \in Chats : lo[r][c] \in 0..MaxId /\ StoredUpTo(c, lo[r][c])
      BY DEF IInv, TypeOK, LoStored
    <2> QED BY <2>1, StoredStays DEF IInv, LoStored
  <1>3. HiStored'
    <2>1. \A r \in Runs, c \in Chats : hi[r][c] \in 0..MaxId
      BY DEF IInv, TypeOK
    <2>2. ASSUME NEW r \in Runs, NEW c \in Chats, pc'[r] \in {"chats", "cursors"}
          PROVE  StoredUpTo(c, hi[r][c])'
      <3>1. CASE pc[r] \in {"chats", "cursors"} /\ hi'[r][c] = hi[r][c]
        <4>1. StoredUpTo(c, hi[r][c])
          BY <3>1 DEF IInv, HiStored
        <4>2. \A i \in 1..hi[r][c] : Stored(c, i)'
          BY <2>1, <4>1, StoredStays DEF IInv, StoredUpTo
        <4> QED BY <3>1, <4>2 DEF StoredUpTo
      <3> QED BY <2>2, <3>1
    <2> QED BY <2>2 DEF HiStored
  <1> QED BY <1>1, <1>2, <1>3

(* A run that ends has marks at zero and cannot use them. *)
LEMMA FinishStep ==
    ASSUME IInv, RowsGrow, NEW r \in Runs, NEW beat, finish(r, beat), UNCHANGED cursor
    PROVE  (NoGap /\ LoStored /\ HiStored)'
  <1>1. NoGap'
    <2>1. \A c \in Chats : cursor[c] \in 0..MaxId /\ StoredUpTo(c, cursor[c])
      BY DEF IInv, TypeOK, NoGap, StoredUpTo, Stored
    <2>2. \A c \in Chats : StoredUpTo(c, cursor[c])'
      BY <2>1, StoredStays DEF IInv
    <2> QED BY <2>2 DEF NoGap, StoredUpTo, Stored
  <1>2. ASSUME NEW q \in Runs, NEW c \in Chats
        PROVE  /\ StoredUpTo(c, lo[q][c])'
               /\ pc'[q] \in {"chats", "cursors"} => StoredUpTo(c, hi[q][c])'
    <2>1. CASE q = r
      <3>1. lo'[q][c] = 0 /\ pc'[q] = "idle"
        BY <2>1 DEF finish, Zero, IInv, TypeOK
      <3>2. 1..0 = {}
        OBVIOUS
      <3> QED BY <3>1, <3>2 DEF StoredUpTo
    <2>2. CASE q # r
      <3>1. lo'[q] = lo[q] /\ hi'[q] = hi[q] /\ pc'[q] = pc[q]
        BY <2>2 DEF finish, IInv, TypeOK
      <3>2. lo[q][c] \in 0..MaxId /\ hi[q][c] \in 0..MaxId
        BY DEF IInv, TypeOK
      <3>3. StoredUpTo(c, lo[q][c])
        BY DEF IInv, LoStored
      <3>4. \A i \in 1..lo[q][c] : Stored(c, i)'
        BY <3>2, <3>3, StoredStays DEF IInv, StoredUpTo
      <3>5. ASSUME pc[q] \in {"chats", "cursors"}
            PROVE  \A i \in 1..hi[q][c] : Stored(c, i)'
        <4>1. StoredUpTo(c, hi[q][c])
          BY <3>5 DEF IInv, HiStored
        <4> QED BY <4>1, <3>2, StoredStays DEF IInv, StoredUpTo
      <3> QED BY <3>1, <3>4, <3>5 DEF StoredUpTo
    <2> QED BY <2>1, <2>2
  <1> QED BY <1>1, <1>2 DEF LoStored, HiStored

(* Start: both marks are the cursors, or zero. *)
LEMMA StartStep ==
    ASSUME IInv, NEW r \in Runs, Start(r)
    PROVE  (NoGap /\ LoStored /\ HiStored)'
  <1> DEFINE from == IF Kind[r] = "backfill" THEN Zero ELSE cursor
  <1>1. UNCHANGED <<rows, cursor>>
    BY DEF Start, d1
  <1>2. ASSUME NEW c \in Chats PROVE StoredUpTo(c, from[c])
    <2>1. StoredUpTo(c, cursor[c])
      BY DEF IInv, NoGap, StoredUpTo, Stored
    <2>2. StoredUpTo(c, 0)
      BY DEF StoredUpTo
    <2> QED BY <2>1, <2>2 DEF Zero
  <1>3. \A q \in Runs : /\ lo'[q] = IF q = r THEN from ELSE lo[q]
                        /\ hi'[q] = IF q = r THEN from ELSE hi[q]
                        /\ q # r => pc'[q] = pc[q]
    BY DEF Start, IInv, TypeOK
  <1>4. ASSUME NEW q \in Runs, NEW c \in Chats
        PROVE  /\ StoredUpTo(c, lo[q][c])'
               /\ pc'[q] \in {"chats", "cursors"} => StoredUpTo(c, hi[q][c])'
    <2>1. CASE q = r
      BY <2>1, <1>1, <1>2, <1>3 DEF StoredUpTo, Stored
    <2>2. CASE q # r
      BY <2>2, <1>1, <1>3 DEF StoredUpTo, Stored, IInv, LoStored, HiStored
    <2> QED BY <2>1, <2>2
  <1>5. NoGap'
    BY <1>1 DEF IInv, NoGap
  <1>6. LoStored'
    BY <1>4 DEF LoStored
  <1>7. HiStored'
    BY <1>4 DEF HiStored
  <1> QED BY <1>5, <1>6, <1>7

(* A message is upserted as the next of its chat: hi follows what is stored. *)
LEMMA UpsertMessageStep ==
    ASSUME IInv, RowsGrow, NEW r \in Runs, UpsertMessage(r)
    PROVE  (NoGap /\ LoStored /\ HiStored)'
  <1>1. PICK c \in Chats :
          /\ more(r, c)
          /\ rows' = [rows EXCEPT ![c] = [rows[c] EXCEPT ![hi[r][c] + 1] = upsert(@)]]
          /\ hi' = [hi EXCEPT ![r] = [hi[r] EXCEPT ![c] = @ + 1]]
    BY DEF UpsertMessage
  <1>2. PICK n \in 0..MaxId : n = hi[r][c] /\ n + 1 \in Ids
    BY <1>1, IngestAssumption DEF IInv, TypeOK, more, Ids
  <1>3. StoredUpTo(c, n + 1)'
    <2>1. rows'[c][n + 1] # "absent"
      <3>1. rows[c] \in [Ids -> {"absent", "new", "extracted"}]
        BY DEF IInv, TypeOK
      <3>2. rows'[c] = [rows[c] EXCEPT ![n + 1] = upsert(@)]
        BY <1>1, <1>2 DEF IInv, TypeOK
      <3> QED BY <3>1, <3>2, <1>2 DEF upsert
    <2>2. Stored(c, n + 1)'
      BY <2>1 DEF Stored
    <2>3. StoredUpTo(c, n)
      BY <1>2 DEF IInv, HiStored, UpsertMessage
    <2> QED BY <2>2, <2>3, StoredNext DEF IInv
  <1>4. ASSUME NEW q \in Runs, NEW e \in Chats, pc'[q] \in {"chats", "cursors"}
        PROVE  \/ pc[q] \in {"chats", "cursors"} /\ hi'[q][e] = hi[q][e]
               \/ StoredUpTo(e, hi[q][e])'
    <2>1. pc' = pc
      BY DEF UpsertMessage
    <2>2. CASE q = r /\ e = c
      <3>1. hi'[q][e] = n + 1
        BY <2>2, <1>1, <1>2 DEF IInv, TypeOK
      <3> QED BY <2>2, <3>1, <1>3 DEF StoredUpTo
    <2>3. CASE ~ (q = r /\ e = c)
      BY <1>4, <2>1, <2>3, <1>1 DEF IInv, TypeOK
    <2> QED BY <2>2, <2>3
  <1>5. UNCHANGED <<cursor, lo>>
    BY DEF UpsertMessage
  <1> QED BY <1>4, <1>5, QuietStep

(* Setting the cursor to a run's hi keeps everything else as it is. *)
LEMMA SetCursorStep ==
    ASSUME IInv, NEW c \in Chats, NEW r \in Runs,
           pc[r] \in {"chats", "cursors"},
           setCursor(c, hi[r][c]) \/ UNCHANGED cursor,
           UNCHANGED <<rows, lo, hi, pc>>
    PROVE  (NoGap /\ LoStored /\ HiStored)'
  <1>1. NoGap'
    <2>1. hi[r][c] \in 0..MaxId /\ StoredUpTo(c, hi[r][c])
      BY DEF IInv, TypeOK, HiStored
    <2>2. CASE setCursor(c, hi[r][c])
      BY <2>1, <2>2, CursorStored DEF IInv
    <2>3. CASE UNCHANGED cursor
      BY <2>3 DEF IInv, NoGap
    <2> QED BY <2>2, <2>3
  <1>2. LoStored' /\ HiStored'
    BY DEF IInv, LoStored, HiStored, StoredUpTo, Stored
  <1> QED BY <1>1, <1>2

(* The batch: everything between lo and hi is stored at once. *)
LEMMA UpsertMessagesStep ==
    ASSUME IInv, RowsGrow, NEW r \in Runs, UpsertMessages(r)
    PROVE  (NoGap /\ LoStored /\ HiStored)'
  <1>1. ASSUME NEW c \in Chats PROVE StoredUpTo(c, hi[r][c])'
    <2>1. /\ hi' = hi
          /\ lo[r][c] \in 0..MaxId
          /\ hi[r][c] \in 0..MaxId
      BY DEF UpsertMessages, IInv, TypeOK
    <2>2. ASSUME NEW i \in 1..hi[r][c] PROVE Stored(c, i)'
      <3>1. i \in Ids
        BY <2>1, IngestAssumption DEF Ids
      <3>2. CASE i <= lo[r][c]
        <4>1. Stored(c, i)
          BY <2>1, <3>2 DEF IInv, LoStored, StoredUpTo
        <4> QED BY <3>1, <4>1 DEF RowsGrow, Stored
      <3>3. CASE lo[r][c] < i
        <4>1. rows'[c][i] = upsert(rows[c][i])
          BY <3>1, <3>3 DEF UpsertMessages
        <4> QED BY <4>1 DEF Stored, upsert
      <3> QED BY <2>1, <3>1, <3>2, <3>3 DEF Ids
    <2> QED BY <2>1, <2>2 DEF StoredUpTo
  <1>2. ASSUME NEW q \in Runs, NEW e \in Chats, pc'[q] \in {"chats", "cursors"}
        PROVE  \/ pc[q] \in {"chats", "cursors"} /\ hi'[q][e] = hi[q][e]
               \/ StoredUpTo(e, hi[q][e])'
    BY <1>1, <1>2 DEF UpsertMessages, IInv, TypeOK
  <1>3. UNCHANGED <<cursor, lo>>
    BY DEF UpsertMessages
  <1> QED BY <1>2, <1>3, QuietStep

(* A backfill's row is written, or dropped as too old: lo goes up by one.  *)
LEMMA WriteRowStep ==
    ASSUME IInv, RowsGrow, NEW r \in Runs, NEW c \in Chats, WriteRow(r, c)
    PROVE  (NoGap /\ LoStored /\ HiStored)'
  <1>1. PICK n \in 0..MaxId : n = lo[r][c] /\ n + 1 \in Ids
    BY IngestAssumption DEF IInv, TypeOK, WriteRow, Ids
  <1>2. /\ lo' = [lo EXCEPT ![r] = [lo[r] EXCEPT ![c] = @ + 1]]
        /\ UNCHANGED <<cursor, pc, hi>>
        /\ pc[r] = "write"
    BY DEF WriteRow
  <1>3. StoredUpTo(c, n + 1)'
    <2>1. Stored(c, n + 1)'
      <3>1. CASE keeps(r, n + 1)
        <4>1. rows \in [Chats -> [Ids -> {"absent", "new", "extracted"}]]
          BY DEF IInv, TypeOK
        <4>2. rows' = [rows EXCEPT ![c] = [rows[c] EXCEPT ![n + 1] = upsert(@)]]
          BY <1>1, <3>1 DEF WriteRow
        <4>3. rows'[c] = [rows[c] EXCEPT ![n + 1] = upsert(@)]
          BY <4>1, <4>2
        <4>4. rows'[c][n + 1] = upsert(rows[c][n + 1])
          BY <4>1, <4>3, <1>1
        <4> QED BY <4>4 DEF Stored, upsert
      <3>2. CASE ~ keeps(r, n + 1)
        BY <3>2, IngestAssumption DEF keeps, Stored
      <3> QED BY <3>1, <3>2
    <2>2. StoredUpTo(c, n)
      BY <1>1 DEF IInv, LoStored
    <2> QED BY <2>1, <2>2, StoredNext DEF IInv
  <1>4. LoStored'
    <2>1. ASSUME NEW q \in Runs, NEW e \in Chats PROVE StoredUpTo(e, lo[q][e])'
      <3>1. CASE q = r /\ e = c
        <4>1. lo'[q][e] = n + 1
          BY <3>1, <1>1, <1>2 DEF IInv, TypeOK
        <4> QED BY <3>1, <4>1, <1>3 DEF StoredUpTo
      <3>2. CASE ~ (q = r /\ e = c)
        <4>1. lo'[q][e] = lo[q][e] /\ lo[q][e] \in 0..MaxId /\ StoredUpTo(e, lo[q][e])
          BY <3>2, <1>2 DEF IInv, TypeOK, LoStored
        <4>2. \A i \in 1..lo[q][e] : Stored(e, i)'
          BY <4>1, StoredStays DEF IInv, StoredUpTo
        <4> QED BY <4>1, <4>2 DEF StoredUpTo
      <3> QED BY <3>1, <3>2
    <2> QED BY <2>1 DEF LoStored
  <1>5. ASSUME NEW e \in Chats, NEW m \in 0..MaxId, StoredUpTo(e, m)
        PROVE  StoredUpTo(e, m)'
    BY <1>5, StoredStays DEF IInv
  <1>6. NoGap'
    <2>1. ASSUME NEW e \in Chats PROVE \A i \in 1..cursor[e] : Stored(e, i)'
      <3>1. cursor[e] \in 0..MaxId /\ StoredUpTo(e, cursor[e])
        BY DEF IInv, TypeOK, NoGap, StoredUpTo, Stored
      <3> QED BY <3>1, <1>5 DEF StoredUpTo
    <2> QED BY <2>1, <1>2 DEF NoGap, Stored
  <1>7. HiStored'
    <2>1. ASSUME NEW q \in Runs, NEW e \in Chats, pc[q] \in {"chats", "cursors"}
          PROVE  \A i \in 1..hi[q][e] : Stored(e, i)'
      <3>1. hi[q][e] \in 0..MaxId /\ StoredUpTo(e, hi[q][e])
        BY <2>1 DEF IInv, TypeOK, HiStored
      <3> QED BY <3>1, <1>5 DEF StoredUpTo
    <2> QED BY <2>1, <1>2 DEF HiStored, StoredUpTo
  <1> QED BY <1>4, <1>6, <1>7

(* Every step keeps the marks true. *)
LEMMA NextMarks == IInv /\ [Next]_vars => (NoGap /\ LoStored /\ HiStored)'
  <1> SUFFICES ASSUME IInv, [Next]_vars PROVE (NoGap /\ LoStored /\ HiStored)'
    OBVIOUS
  <1>1. RowsGrow
    BY NextRowsGrow DEF IInv
  <1>2. ASSUME UNCHANGED <<cursor, lo, hi, pc>> PROVE (NoGap /\ LoStored /\ HiStored)'
    BY <1>1, <1>2, QuietStep
  <1>3. ASSUME NEW r \in Runs, RowsDone(r) PROVE (NoGap /\ LoStored /\ HiStored)'
    <2>1. /\ pc' = [pc EXCEPT ![r] = "cursors"]
          /\ lo[r] = hi[r]
          /\ UNCHANGED <<rows, cursor, lo, hi>>
      BY <1>3 DEF RowsDone, d1
    <2>2. ASSUME NEW q \in Runs, NEW e \in Chats, pc'[q] \in {"chats", "cursors"}
          PROVE  \/ pc[q] \in {"chats", "cursors"} /\ hi'[q][e] = hi[q][e]
                 \/ StoredUpTo(e, hi[q][e])'
      BY <2>1, <2>2 DEF IInv, TypeOK, LoStored, StoredUpTo, Stored
    <2> QED BY <2>1, <2>2, <1>1, QuietStep
  <1>4. ASSUME NEW r \in Runs, Fetch(r) PROVE (NoGap /\ LoStored /\ HiStored)'
    <2>1. /\ pc' = [pc EXCEPT ![r] = "write"]
          /\ \A q \in Runs : q # r => hi'[q] = hi[q]
          /\ UNCHANGED <<rows, cursor, lo>>
      BY <1>4 DEF Fetch, d1, IInv, TypeOK
    <2>2. ASSUME NEW q \in Runs, NEW e \in Chats, pc'[q] \in {"chats", "cursors"}
          PROVE  \/ pc[q] \in {"chats", "cursors"} /\ hi'[q][e] = hi[q][e]
                 \/ StoredUpTo(e, hi[q][e])'
      BY <2>1, <2>2 DEF IInv, TypeOK
    <2> QED BY <2>1, <2>2, <1>1, QuietStep
  <1>5. ASSUME NEW r \in Runs, DialogDone(r) PROVE (NoGap /\ LoStored /\ HiStored)'
    <2>1. PICK c \in Chats :
            IF hi[r][c] > lo[r][c] THEN setCursor(c, hi[r][c]) ELSE UNCHANGED cursor
      BY <1>5 DEF DialogDone
    <2>2. pc[r] = "chats" /\ UNCHANGED <<rows, lo, hi, pc>>
      BY <1>5 DEF DialogDone
    <2> QED BY <2>1, <2>2, SetCursorStep
  <1>6. ASSUME NEW r \in Runs, NEW c \in Chats, AdvanceCursor(r, c)
        PROVE  (NoGap /\ LoStored /\ HiStored)'
    BY <1>6, SetCursorStep DEF AdvanceCursor
  <1>7. ASSUME NEW r \in Runs, Finish(r) PROVE (NoGap /\ LoStored /\ HiStored)'
    BY <1>7, <1>1, FinishStep DEF Finish
  <1>8. ASSUME NEW r \in Runs, Fail(r) PROVE (NoGap /\ LoStored /\ HiStored)'
    BY <1>8, <1>1, FinishStep DEF Fail
  <1>9. ASSUME NEW c \in Chats, Post(c) PROVE (NoGap /\ LoStored /\ HiStored)'
    BY <1>9, <1>2 DEF Post, d1, local
  <1>10. ASSUME NEW c \in Chats, NEW i \in Ids, MarkExtracted(c, i)
         PROVE  (NoGap /\ LoStored /\ HiStored)'
    BY <1>10, <1>2 DEF MarkExtracted, local
  <1>11. ASSUME NEW r \in Runs, NEW c \in Chats, NextDialog(r, c)
         PROVE  (NoGap /\ LoStored /\ HiStored)'
    BY <1>11, <1>2 DEF NextDialog, d1
  <1>12. CASE UNCHANGED vars
    BY <1>12, <1>2 DEF vars, d1, local
  <1>13. ASSUME NEW r \in Runs, Step(r) PROVE (NoGap /\ LoStored /\ HiStored)'
    BY <1>13, <1>1, <1>3, <1>4, <1>5, <1>6, <1>7, <1>11, StartStep, UpsertMessageStep,
       UpsertMessagesStep, WriteRowStep DEF Step
  <1> QED BY <1>8, <1>9, <1>10, <1>12, <1>13 DEF Next

-----------------------------------------------------------------------------
(* The theorems                                                            *)

(* The invariant is inductive: what every later theorem rests on. *)
THEOREM Invariance == Spec => []IInv
  <1>1. IInv /\ [Next]_vars => IInv'
    BY NextType, NextMarks DEF IInv
  <1> QED BY InitIInv, <1>1, PTL DEF Spec

(* The tables and the runs keep their types. *)
THEOREM TypeCorrect == Spec => []TypeOK
  <1>1. IInv => TypeOK
    BY DEF IInv
  <1> QED BY Invariance, <1>1, PTL

(* No message is skipped: whatever a cursor has passed is stored, or was   *)
(* dropped by a backfill as too old.                                       *)
THEOREM NoMessageIsSkipped == Spec => []NoGap
  <1>1. IInv => NoGap
    BY DEF IInv
  <1> QED BY Invariance, <1>1, PTL

(* A cursor never moves backwards. *)
THEOREM CursorsMoveForward == Spec => CursorMonotone
  <1>1. TypeOK /\ [Next]_vars => [\A c \in Chats : cursor[c] <= cursor'[c]]_vars
    <2> SUFFICES ASSUME TypeOK, [Next]_vars
                 PROVE  \A c \in Chats : cursor[c] <= cursor'[c]
      OBVIOUS
    <2>1. ASSUME UNCHANGED cursor PROVE \A c \in Chats : cursor[c] <= cursor'[c]
      BY <2>1, IngestAssumption DEF TypeOK
    <2>2. ASSUME NEW c \in Chats, NEW id \in 0..MaxId, setCursor(c, id)
          PROVE  \A e \in Chats : cursor[e] <= cursor'[e]
      BY <2>2, IngestAssumption DEF TypeOK, setCursor
    <2>3. \A r \in Runs, c \in Chats : hi[r][c] \in 0..MaxId
      BY DEF TypeOK
    <2>4. ASSUME NEW r \in Runs, DialogDone(r) PROVE \A c \in Chats : cursor[c] <= cursor'[c]
      BY <2>1, <2>2, <2>3, <2>4 DEF DialogDone
    <2>5. ASSUME NEW r \in Runs, NEW c \in Chats, AdvanceCursor(r, c)
          PROVE  \A e \in Chats : cursor[e] <= cursor'[e]
      BY <2>2, <2>3, <2>5 DEF AdvanceCursor
    <2>6. ASSUME NEW r \in Runs,
                 Start(r) \/ UpsertMessage(r) \/ Fetch(r) \/ UpsertMessages(r)
                     \/ RowsDone(r) \/ Finish(r) \/ Fail(r)
          PROVE  UNCHANGED cursor
      BY <2>6 DEF Start, UpsertMessage, Fetch, UpsertMessages, RowsDone, Finish, Fail, d1
    <2>7. ASSUME NEW r \in Runs, NEW c \in Chats, NextDialog(r, c) \/ WriteRow(r, c)
          PROVE  UNCHANGED cursor
      BY <2>7 DEF NextDialog, WriteRow, d1
    <2>8. ASSUME NEW c \in Chats, Post(c) \/ \E i \in Ids : MarkExtracted(c, i)
          PROVE  UNCHANGED cursor
      BY <2>8 DEF Post, MarkExtracted, d1
    <2>9. CASE UNCHANGED vars
      BY <2>9, <2>1 DEF vars, d1
    <2>10. ASSUME NEW r \in Runs, Step(r) PROVE \A c \in Chats : cursor[c] <= cursor'[c]
      BY <2>10, <2>1, <2>4, <2>5, <2>6, <2>7 DEF Step
    <2> QED BY <2>1, <2>6, <2>8, <2>9, <2>10 DEF Next
  <1> QED BY TypeCorrect, <1>1, PTL DEF Spec, CursorMonotone

(* Ingesting a message again never makes it unextracted again. *)
THEOREM ExtractedMessagesStay == Spec => ExtractedStays
  <1>1. TypeOK /\ [Next]_vars =>
          [\A c \in Chats, i \in Ids :
               rows[c][i] = "extracted" => rows'[c][i] = "extracted"]_vars
    BY NextRowsGrow DEF RowsGrow
  <1> QED BY TypeCorrect, <1>1, PTL DEF Spec, ExtractedStays

=============================================================================
