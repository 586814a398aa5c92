-------------------------------- MODULE Ingest --------------------------------
(***************************************************************************)
(* How Telegram messages reach D1, by the three programs that share        *)
(* telegram_messages and chat_cursors:                                     *)
(*   "local"    scripts/ingest_local.py, the hourly systemd job: upserts   *)
(*              each message as it arrives, then the chat's cursor         *)
(*   "worker"   apps/ingest: the container fetches every chat, the Worker  *)
(*              writes one batch, then the cursors one by one              *)
(*   "backfill" scripts/backfill.ts: fetches from id 0, drops what is      *)
(*              older than --days, writes row by row, then the cursors     *)
(*                                                                         *)
(* A chat's messages are numbered 1, 2, ... in the order Telegram lists    *)
(* them oldest first, so "older than --days" is an id too: Cutoff.         *)
(***************************************************************************)
EXTENDS Integers, FiniteSets

CONSTANTS
    Chats,
    Runs,        \* executions that may overlap
    Kind,        \* which program each run is
    FetchLimit,  \* FETCH_LIMIT_PER_CHAT
    Cutoff,      \* the newest message older than the backfill's --days
    MaxId,       \* bound: messages per chat
    MaxFaults,   \* bound: failed fetches, exceptions and kills
    Null

Kinds == {"local", "worker", "backfill"}

ASSUME IngestAssumption ==
    /\ Kind \in [Runs -> Kinds]
    /\ IsFiniteSet(Chats)
    /\ FetchLimit \in Nat \ {0}
    /\ Cutoff \in Nat
    /\ MaxId \in Nat
    /\ MaxFaults \in Nat
    /\ Null \notin Chats

VARIABLES
    posted,     \* Telegram: number of messages in each chat
    rows,       \* telegram_messages: absent, new (extracted_at IS NULL), extracted
    cursor,     \* chat_cursors.last_message_id; 0 if the chat has no row
    heartbeat,  \* system_status row of component 'ingest'
    pc,         \* where each run is
    at,         \* the chat a local run is iterating over
    left,       \* chats a run has still to do
    lo,         \* per run and chat: min_id, as read from the cursors
    hi,         \* per run and chat: the highest id fetched so far
    faults

d1    == <<rows, cursor, heartbeat>>
local == <<pc, at, left, lo, hi>>
vars  == <<posted, d1, local, faults>>

Ids == 1..MaxId

(* The type invariant of the two tables and of the runs. *)
TypeOK ==
    /\ posted \in [Chats -> 0..MaxId]
    /\ rows \in [Chats -> [Ids -> {"absent", "new", "extracted"}]]
    /\ cursor \in [Chats -> 0..MaxId]
    /\ heartbeat \in {"none", "ok", "failed"}
    /\ pc \in [Runs -> {"idle", "chats", "fetch", "write", "cursors"}]
    /\ at \in [Runs -> Chats \cup {Null}]
    /\ left \in [Runs -> SUBSET Chats]
    /\ lo \in [Runs -> [Chats -> 0..MaxId]]
    /\ hi \in [Runs -> [Chats -> 0..MaxId]]
    /\ faults \in 0..MaxFaults

Zero == [c \in Chats |-> 0]

Init ==
    /\ posted = Zero
    /\ rows = [c \in Chats |-> [i \in Ids |-> "absent"]]
    /\ cursor = Zero
    /\ heartbeat = "none"
    /\ pc = [r \in Runs |-> "idle"]
    /\ at = [r \in Runs |-> Null]
    /\ left = [r \in Runs |-> {}]
    /\ lo = [r \in Runs |-> Zero]
    /\ hi = [r \in Runs |-> Zero]
    /\ faults = 0

-----------------------------------------------------------------------------
(* packages/db                                                             *)

(* Mutant: INSERT OR REPLACE. *)
Replace_upsert(row) == "new"

(* INSERT ... ON CONFLICT refreshes the payload and keeps extracted_at. *)
upsert(row) == IF row = "absent" THEN "new" ELSE row

(* Mutant: the cursor is overwritten. *)
NoGuard_setCursor(c, id) == cursor' = [cursor EXCEPT ![c] = id]

(* Mutant: the cursor names the next message instead of the last. *)
NextId_setCursor(c, id) ==
    cursor' = [cursor EXCEPT ![c] = IF id + 1 > @ THEN id + 1 ELSE @]

(* last_message_id = MAX(chat_cursors.last_message_id, excluded...) *)
setCursor(c, id) ==
    cursor' = [cursor EXCEPT ![c] = IF id > @ THEN id ELSE @]

-----------------------------------------------------------------------------
(* The three programs                                                      *)

(* min_id per chat: the stored cursor, or 0 for a backfill. *)
Start(r) ==
    /\ pc[r] = "idle"
    /\ LET from == IF Kind[r] = "backfill" THEN Zero ELSE cursor
       IN  /\ lo' = [lo EXCEPT ![r] = from]
           /\ hi' = [hi EXCEPT ![r] = from]
    /\ pc' = [pc EXCEPT ![r] = IF Kind[r] = "local" THEN "chats" ELSE "fetch"]
    /\ left' = [left EXCEPT ![r] = Chats]
    /\ UNCHANGED <<posted, d1, at, faults>>

(* iter_messages(offset_id = min_id, limit, reverse = True) has an (n+1)st *)
(* message after the first n.                                              *)
more(r, c) == hi[r][c] < posted[c] /\ hi[r][c] - lo[r][c] < FetchLimit

finish(r, beat) ==
    /\ pc' = [pc EXCEPT ![r] = "idle"]
    /\ at' = [at EXCEPT ![r] = Null]
    /\ left' = [left EXCEPT ![r] = {}]
    /\ lo' = [lo EXCEPT ![r] = Zero]
    /\ hi' = [hi EXCEPT ![r] = Zero]
    /\ heartbeat' = beat

(* The next dialog of a local run, in whatever order Telegram lists them. *)
NextDialog(r, c) ==
    /\ pc[r] = "chats"
    /\ at[r] = Null
    /\ c \in left[r]
    /\ at' = [at EXCEPT ![r] = c]
    /\ UNCHANGED <<posted, d1, pc, left, lo, hi, faults>>

(* One message of that dialog is upserted. *)
UpsertMessage(r) ==
    /\ pc[r] = "chats"
    /\ \E c \in Chats :
         /\ at[r] = c
         /\ more(r, c)
         /\ rows' = [rows EXCEPT ![c][hi[r][c] + 1] = upsert(@)]
         /\ hi' = [hi EXCEPT ![r][c] = @ + 1]
    /\ UNCHANGED <<posted, cursor, heartbeat, pc, at, left, lo, faults>>

(* Mutant: the cursor becomes the dialog's newest message. *)
TopMessage_DialogDone(r) ==
    /\ pc[r] = "chats"
    /\ \E c \in Chats :
         /\ at[r] = c
         /\ ~ more(r, c)
         /\ IF hi[r][c] > lo[r][c] THEN setCursor(c, posted[c]) ELSE UNCHANGED cursor
         /\ left' = [left EXCEPT ![r] = @ \ {c}]
    /\ at' = [at EXCEPT ![r] = Null]
    /\ UNCHANGED <<posted, rows, heartbeat, pc, lo, hi, faults>>

(* The loop over its messages is over: if there were any, the cursor. *)
DialogDone(r) ==
    /\ pc[r] = "chats"
    /\ \E c \in Chats :
         /\ at[r] = c
         /\ ~ more(r, c)
         /\ IF hi[r][c] > lo[r][c] THEN setCursor(c, hi[r][c]) ELSE UNCHANGED cursor
         /\ left' = [left EXCEPT ![r] = @ \ {c}]
    /\ at' = [at EXCEPT ![r] = Null]
    /\ UNCHANGED <<posted, rows, heartbeat, pc, lo, hi, faults>>

(* The container answers /fetch: for each chat the messages after min_id,  *)
(* oldest first.  A chat whose iteration fails is returned in part and its *)
(* cursor is not advanced (only a Worker looks at that).                   *)
Fetch(r) ==
    /\ pc[r] = "fetch"
    /\ \E failed \in SUBSET Chats, got \in [Chats -> 0..FetchLimit] :
         /\ faults + Cardinality(failed) <= MaxFaults
         /\ \A c \in Chats :
              LET all == IF posted[c] - lo[r][c] < FetchLimit
                         THEN posted[c] - lo[r][c] ELSE FetchLimit
              IN  IF c \in failed THEN got[c] <= all ELSE got[c] = all
         /\ hi' = [hi EXCEPT ![r] = [c \in Chats |-> lo[r][c] + got[c]]]
         /\ left' = [left EXCEPT ![r] =
                {c \in Chats : got[c] > 0 /\ (c \in failed => Kind[r] = "backfill")}]
         /\ faults' = faults + Cardinality(failed)
    /\ pc' = [pc EXCEPT ![r] = "write"]
    /\ UNCHANGED <<posted, d1, at, lo>>

(* filterByCutoff for a backfill. *)
keeps(r, i) == Kind[r] = "backfill" => i > Cutoff

(* One db.batch writes all of a Worker's messages. *)
UpsertMessages(r) ==
    /\ pc[r] = "write"
    /\ Kind[r] = "worker"
    /\ rows' = [c \in Chats |-> [i \in Ids |->
           IF lo[r][c] < i /\ i <= hi[r][c] THEN upsert(rows[c][i]) ELSE rows[c][i]]]
    /\ pc' = [pc EXCEPT ![r] = "cursors"]
    /\ UNCHANGED <<posted, cursor, heartbeat, at, left, lo, hi, faults>>

(* A backfill's rows go one at a time; lo marks how far it is. *)
WriteRow(r, c) ==
    /\ pc[r] = "write"
    /\ Kind[r] = "backfill"
    /\ lo[r][c] < hi[r][c]
    /\ lo' = [lo EXCEPT ![r][c] = @ + 1]
    /\ rows' = IF keeps(r, lo[r][c] + 1)
               THEN [rows EXCEPT ![c][lo[r][c] + 1] = upsert(@)] ELSE rows
    /\ UNCHANGED <<posted, cursor, heartbeat, pc, at, left, hi, faults>>

(* Mutant: the cursors do not wait for the rows. *)
NoWait_RowsDone(r) ==
    /\ pc[r] = "write"
    /\ Kind[r] = "backfill"
    /\ pc' = [pc EXCEPT ![r] = "cursors"]
    /\ left' = [left EXCEPT ![r] = {c \in @ : hi[r][c] > Cutoff}]
    /\ UNCHANGED <<posted, d1, at, lo, hi, faults>>

(* The kept messages are all written: a cursor for each chat with any. *)
RowsDone(r) ==
    /\ pc[r] = "write"
    /\ Kind[r] = "backfill"
    /\ lo[r] = hi[r]
    /\ pc' = [pc EXCEPT ![r] = "cursors"]
    /\ left' = [left EXCEPT ![r] = {c \in @ : hi[r][c] > Cutoff}]
    /\ UNCHANGED <<posted, d1, at, lo, hi, faults>>

AdvanceCursor(r, c) ==
    /\ pc[r] = "cursors"
    /\ c \in left[r]
    /\ setCursor(c, hi[r][c])
    /\ left' = [left EXCEPT ![r] = @ \ {c}]
    /\ UNCHANGED <<posted, rows, heartbeat, pc, at, lo, hi, faults>>

(* Only the two scheduled programs record a heartbeat. *)
Finish(r) ==
    /\ pc[r] \in {"chats", "cursors"}
    /\ left[r] = {}
    /\ finish(r, IF Kind[r] = "backfill" THEN heartbeat ELSE "ok")
    /\ UNCHANGED <<posted, rows, cursor, faults>>

(* A Telegram, container or D1 call throws: the run is over, with a failed *)
(* heartbeat, or without one when it is killed or that write throws too.   *)
Fail(r) ==
    /\ pc[r] # "idle"
    /\ faults < MaxFaults
    /\ faults' = faults + 1
    /\ \/ finish(r, heartbeat)
       \/ Kind[r] # "backfill" /\ finish(r, "failed")
    /\ UNCHANGED <<posted, rows, cursor>>

-----------------------------------------------------------------------------
(* Everyone else                                                           *)

Post(c) ==
    /\ posted[c] < MaxId
    /\ posted' = [posted EXCEPT ![c] = @ + 1]
    /\ UNCHANGED <<d1, local, faults>>

(* The extract Worker's markMessagesExtracted. *)
MarkExtracted(c, i) ==
    /\ rows[c][i] = "new"
    /\ rows' = [rows EXCEPT ![c][i] = "extracted"]
    /\ UNCHANGED <<posted, cursor, heartbeat, local, faults>>

Step(r) ==
    \/ Start(r) \/ UpsertMessage(r) \/ DialogDone(r)
    \/ Fetch(r) \/ UpsertMessages(r) \/ RowsDone(r) \/ Finish(r)
    \/ \E c \in Chats : NextDialog(r, c) \/ WriteRow(r, c) \/ AdvanceCursor(r, c)

Next ==
    \/ \E r \in Runs : Step(r) \/ Fail(r)
    \/ \E c \in Chats : Post(c) \/ \E i \in Ids : MarkExtracted(c, i)

Spec == Init /\ [][Next]_vars

(* systemd's timer and cron start a run again and again, and a run that is *)
(* not killed goes on.  Nobody has to run a backfill.                      *)
Scheduled == {r \in Runs : Kind[r] # "backfill"}

FairSpec == Spec /\ \A r \in Scheduled : WF_vars(Step(r))

-----------------------------------------------------------------------------
(* Properties                                                              *)

(* No message is skipped: everything a cursor has passed is in D1, except  *)
(* what a backfill dropped as older than its --days.  The cursor is what   *)
(* the next run resumes from, so a gap would never be filled.              *)
NoGap ==
    \A c \in Chats : \A i \in 1..cursor[c] : rows[c][i] # "absent" \/ i <= Cutoff

(* A cursor never moves backwards, whatever runs overlap (setCursor).      *)
CursorMonotone == [][\A c \in Chats : cursor[c] <= cursor'[c]]_vars

(* Ingesting a message again never makes it unextracted again (upsert), so *)
(* overlapping runs, retries and backfills cause no second proposal.       *)
ExtractedStays ==
    [][\A c \in Chats, i \in Ids :
           rows[c][i] = "extracted" => rows'[c][i] = "extracted"]_vars

(* Every message posted in Telegram is stored at last, though a run takes  *)
(* at most FetchLimit of a chat and a backfill may move the cursor beyond  *)
(* what it dropped.                                                        *)
EveryMessageStored ==
    \A c \in Chats : \A i \in Ids \ 1..Cutoff : posted[c] >= i ~> rows[c][i] # "absent"

=============================================================================
