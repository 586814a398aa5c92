--------------------------------- MODULE Sync ---------------------------------
(***************************************************************************)
(* The sync Worker (apps/sync/src/index.ts) and its Notion client          *)
(* (notion.ts): every deal_map row and the latest proposal of its chat are *)
(* projected into one page of a Notion database, found by the chat's id.   *)
(* Nothing is stored but the pages, and cron and manual runs overlap.      *)
(*                                                                         *)
(* Contents are numbered by the change of D1 that made them: deal is the   *)
(* last change of a row's match and candidates, summary the proposal whose *)
(* rationale, action, participants and date are shown.                     *)
(***************************************************************************)
EXTENDS Integers, Sequences, FiniteSetsExt

CONSTANTS
    Runs,          \* executions of runSync that may overlap
    Chats,         \* a finite set
    MaxDeals,      \* MAX_DEALS_PER_RUN
    MaxProposals,  \* the limit of getDealProposals
    Long,          \* proposals, by number, with a longer summary than Notion keeps
    MaxChanges,    \* bound: changes of D1
    MaxFaults      \* bound: requests to Notion that fail

ASSUME SyncAssumption ==
    /\ IsFiniteSet(Chats)
    /\ MaxDeals \in Nat \ {0}
    /\ MaxProposals \in Nat
    /\ Long \subseteq Nat \ {0}
    /\ MaxChanges \in Nat
    /\ MaxFaults \in Nat

VARIABLES
    deal, updatedAt,  \* deal_map: content of a row, its last upsert; 0: no row
    proposals,        \* crm_proposals: the chat of each, oldest first
    clock,            \* changes of D1 so far
    pages,            \* per chat, its pages in Notion
    pc,               \* where a run is
    todo,             \* per chat, the row it still has to write
    wrote,            \* its result counts a created or an updated page
    raced,            \* history: chats whose page more than one request made
    faults

d1   == <<deal, updatedAt, proposals, clock>>
run  == <<pc, todo, wrote>>
vars == <<d1, pages, run, raced, faults>>

(* The changes that made the rows sync finds, and those it lives through. *)
Before  == Cardinality(Chats)
Changes == 0..Before + MaxChanges

(* A row of the table as desiredProperties writes it, or as a page shows   *)
(* it: activity counts as content while there is no proposal to date it,   *)
(* and cut is a summary that lost its end.                                 *)
Row == [deal: Changes, summary: Changes, activity: Changes, cut: BOOLEAN]

NoRow == [deal |-> 0, summary |-> 0, activity |-> 0, cut |-> FALSE]

(* A row with its updated_at and the page that was found for it, 0: none. *)
Task == [row: Row, at: Changes, page: Nat]

Done == [row |-> NoRow, at |-> 0, page |-> 0]

Points == {"idle", "listProposals", "query", "write"}

(* A row shows no summary, or one of its own chat. *)
isOwn(c, row) ==
    row.summary # 0 => row.summary \in DOMAIN proposals /\ proposals[row.summary] = c

(* The type invariant of the tables, the database of pages and the runs;   *)
(* no page and no row to be written has the summary of another chat.       *)
TypeOK ==
    /\ deal \in [Chats -> Changes]
    /\ updatedAt \in [Chats -> Changes]
    /\ proposals \in Seq(Chats)
    /\ clock \in Changes
    /\ Len(proposals) <= clock
    /\ pages \in [Chats -> Seq(Row)]
    /\ pc \in [Runs -> Points]
    /\ todo \in [Runs -> [Chats -> Task]]
    /\ wrote \in [Runs -> BOOLEAN]
    /\ raced \subseteq Chats
    /\ faults \in 0..MaxFaults
    /\ \A c \in Chats : \A i \in DOMAIN pages[c] : isOwn(c, pages[c][i])
    /\ \A r \in Runs, c \in Chats :
          todo[r][c].page <= Len(pages[c]) /\ isOwn(c, todo[r][c].row)

NoTasks == [c \in Chats |-> Done]

(* Some chats have been matched, none has been extracted yet. *)
Init ==
    /\ updatedAt \in [Chats -> 0..Before]
    /\ {updatedAt[c] : c \in Chats} \ {0} = 1..Cardinality({c \in Chats : updatedAt[c] # 0})
    /\ deal = updatedAt
    /\ proposals = <<>>
    /\ clock = Before
    /\ pages = [c \in Chats |-> <<>>]
    /\ pc = [r \in Runs |-> "idle"]
    /\ todo = [r \in Runs |-> NoTasks]
    /\ wrote = [r \in Runs |-> FALSE]
    /\ raced = {}
    /\ faults = 0

goto(r, point) == pc' = [pc EXCEPT ![r] = point]

(* The run is over and its locals are gone. *)
end(r) ==
    /\ goto(r, "idle")
    /\ todo' = [todo EXCEPT ![r] = NoTasks]
    /\ wrote' = [wrote EXCEPT ![r] = FALSE]

fault == faults < MaxFaults /\ faults' = faults + 1

-----------------------------------------------------------------------------
(* What a page should show                                                 *)

(* Mutant: the latest proposal of any chat. *)
AnyChat_recent(c) == {i \in DOMAIN proposals : i > Len(proposals) - MaxProposals}

(* getDealProposals: the newest MaxProposals of all chats. *)
recent(c) ==
    {i \in DOMAIN proposals : i > Len(proposals) - MaxProposals /\ proposals[i] = c}

latest(c) == Max({0} \cup recent(c))

(* projectRow, from a deal_map row and the proposals as they are now. *)
projectRow(c, content, upsert) ==
    [deal |-> content, summary |-> latest(c),
     activity |-> IF latest(c) = 0 THEN upsert ELSE 0, cut |-> FALSE]

(* richText: Notion gets the first 2000 characters. *)
truncate(row) == [row EXCEPT !.cut = row.summary \in Long]

(* Mutant: the summary is not among the properties that are compared. *)
NoSummary_pageMatches(page, row) == page.deal = row.deal

(* Mutant: what is compared never agrees. *)
Never_pageMatches(page, row) == FALSE

pageMatches(page, row) == page = row

(* The newest MaxDeals of a set of rows, by updated_at. *)
newest(rows, stamp) ==
    {c \in rows : Cardinality({d \in rows : stamp[d] > stamp[c]}) < MaxDeals}

-----------------------------------------------------------------------------
(* The run                                                                 *)

(* listAllDeals *)
ListDeals(r) ==
    /\ pc[r] = "idle"
    /\ goto(r, "listProposals")
    /\ todo' = [todo EXCEPT ![r] = [c \in Chats |->
           [Done EXCEPT !.row.deal = deal[c], !.at = updatedAt[c]]]]
    /\ UNCHANGED <<d1, pages, wrote, raced, faults>>

wanted(r) == {c \in Chats : todo[r][c].row # NoRow}

(* getDealProposals, the projection and the cut to MAX_DEALS_PER_RUN. *)
ListProposals(r) ==
    LET rows == newest(wanted(r), [c \in Chats |-> todo[r][c].at])
    IN  /\ pc[r] = "listProposals"
        /\ goto(r, "query")
        /\ todo' = [todo EXCEPT ![r] = [c \in Chats |->
               IF c \in rows
               THEN [@[c] EXCEPT
                         !.row = projectRow(c, todo[r][c].row.deal, todo[r][c].at)]
               ELSE Done]]
        /\ UNCHANGED <<d1, pages, wrote, raced, faults>>

(* Every page of the database, by its chat and its place among its pages. *)
allPages == UNION {{c} \X DOMAIN pages[c] : c \in Chats}

(* Mutant: the cursor of a full answer is not followed. *)
FirstAnswer_queryDatabaseAll ==
    IF allPages = {} THEN {} ELSE {CHOOSE p \in allPages : TRUE}

queryDatabaseAll == allPages

(* The run finds a page of each chat that has some, the last in the answer, *)
(* and decides which rows it writes.                                       *)
Query(r) ==
    /\ pc[r] = "query"
    /\ \E page \in [Chats -> {0} \cup {p[2] : p \in queryDatabaseAll}] :
          /\ \A c \in Chats : IF \E p \in queryDatabaseAll : p[1] = c
                             THEN <<c, page[c]>> \in queryDatabaseAll ELSE page[c] = 0
          /\ todo' = [todo EXCEPT ![r] = [c \in Chats |->
                 IF \/ c \notin wanted(r)
                    \/ page[c] # 0 /\ pageMatches(pages[c][page[c]], todo[r][c].row)
                 THEN Done ELSE [@[c] EXCEPT !.page = page[c]]]]
    /\ goto(r, "write")
    /\ UNCHANGED <<d1, pages, wrote, raced, faults>>

(* The rows are written newest first. *)
isNext(r, c) ==
    /\ pc[r] = "write"
    /\ c \in wanted(r)
    /\ \A d \in wanted(r) : todo[r][d].at <= todo[r][c].at

(* createPage takes effect. *)
createPage(r, c) ==
    /\ isNext(r, c) /\ todo[r][c].page = 0
    /\ pages' = [pages EXCEPT ![c] = Append(@, truncate(todo[r][c].row))]

(* updatePage takes effect on the page the run found. *)
updatePage(r, c) ==
    /\ isNext(r, c) /\ todo[r][c].page # 0
    /\ pages' = [pages EXCEPT ![c][todo[r][c].page] = truncate(todo[r][c].row)]

(* Other runs that have found no page of c either and will create one. *)
rivals(r, c) ==
    {q \in Runs \ {r} : pc[q] = "write" /\ c \in wanted(q) /\ todo[q][c].page = 0}

Write(r, c) ==
    /\ \/ createPage(r, c) /\ raced' = IF rivals(r, c) = {} THEN raced ELSE raced \cup {c}
       \/ updatePage(r, c) /\ UNCHANGED raced
    /\ todo' = [todo EXCEPT ![r][c] = Done]
    /\ wrote' = [wrote EXCEPT ![r] = TRUE]
    /\ UNCHANGED <<d1, pc, faults>>

(* Notion did it and answers 5xx: request sends it again. *)
WriteRepeated(r, c) ==
    /\ \/ createPage(r, c) /\ raced' = raced \cup {c}
       \/ updatePage(r, c) /\ UNCHANGED raced
    /\ fault
    /\ UNCHANGED <<d1, run>>

EndRun(r) ==
    /\ pc[r] = "write"
    /\ wanted(r) = {}
    /\ end(r)
    /\ UNCHANGED <<d1, pages, raced, faults>>

(* D1 or Notion refuses for good, or the isolate ends.  A request whose    *)
(* reply is lost is WriteRepeated and then this.                           *)
Fail(r) ==
    /\ pc[r] # "idle"
    /\ fault
    /\ end(r)
    /\ UNCHANGED <<d1, pages, raced>>

-----------------------------------------------------------------------------
(* D1 changes                                                              *)

change == clock < Before + MaxChanges /\ clock' = clock + 1

(* upsertDealMap: always a new updated_at, and maybe another match. *)
Match(c) ==
    /\ change
    /\ updatedAt' = [updatedAt EXCEPT ![c] = clock']
    /\ \/ deal' = [deal EXCEPT ![c] = clock']
       \/ deal[c] # 0 /\ UNCHANGED deal
    /\ UNCHANGED <<proposals, pages, run, raced, faults>>

(* insertProposal: resolveDeal has made a row of its chat before. *)
Propose(c) ==
    /\ deal[c] # 0
    /\ change
    /\ proposals' = Append(proposals, c)
    /\ UNCHANGED <<deal, updatedAt, pages, run, raced, faults>>

-----------------------------------------------------------------------------

Step(r) ==
    \/ ListDeals(r) \/ ListProposals(r) \/ Query(r) \/ EndRun(r)
    \/ \E c \in Chats : Write(r, c)

Next ==
    \/ \E r \in Runs : Step(r) \/ Fail(r) \/ \E c \in Chats : WriteRepeated(r, c)
    \/ \E c \in Chats : Match(c) \/ Propose(c)

Spec == Init /\ [][Next]_vars

(* Cron starts a run again and again, and a run goes on. *)
FairSpec == Spec /\ \A r \in Runs : WF_vars(Step(r))

-----------------------------------------------------------------------------
(* Properties                                                              *)

(* A chat has one page, unless two runs looked for it at once or a request *)
(* that took effect was sent again ("one row per group chat").             *)
OnePagePerChat == \A c \in Chats : Len(pages[c]) > 1 => c \in raced

(* What D1 says about the chats that a run projects. *)
shownNow == newest({c \in Chats : deal[c] # 0}, updatedAt)

(* When D1 no longer changes, every projected chat shows in the end what   *)
(* D1 says, whatever older runs wrote in between.                          *)
EveryRowShown ==
    <>[](\A c \in shownNow \ raced :
            pages[c] = <<truncate(projectRow(c, deal[c], updatedAt[c]))>>)

(* "DIFFS ONLY": when D1 no longer changes, runs end up writing nothing,   *)
(* unless a projected summary is longer than Notion keeps.                 *)
DiffsOnly ==
    <>[]((\A c \in shownNow : ~ truncate(projectRow(c, deal[c], updatedAt[c])).cut)
            => \A r \in Runs : ~ wrote[r])

===============================================================================
