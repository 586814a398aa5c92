# A TLA+ model of the Telegram to CRM pipeline

Telegram messages are ingested into a D1 database, Claude turns a group chat's
messages into proposals, a human reviews them, and a Worker applies them to
Attio. Every part is started by cron, most can also be started by hand, nothing
takes a lock, and each writes to two or three stores without a transaction
across them. This directory models those parts, checks them with TLC on small
instances and proves their main invariants with TLAPS for instances of any size.

Paths below are relative to the root of the repository.

## 1. Inventory

| Component | State it keeps | Operations | Talks to |
|---|---|---|---|
| Ingest Worker and container (`apps/ingest`) | none between runs | `runIngest`, container `_fetch`, heartbeat | Telegram; `telegram_messages`, `chat_cursors`, `system_status` |
| Local ingest (`scripts/ingest_local.py`, hourly systemd timer) | none | `run`: message by message, then a chat's cursor | the same tables |
| Backfill (`scripts/backfill.ts`) | none | fetch from id 0, cutoff by date, rows, cursors | the same tables, the same container |
| Extract dispatcher (`apps/extract/src/index.ts`) | none; the workflow ids it used are taken | `runOnce`, `groupIntoThreads`, `dispatch`, `POST /diag/resolve` | reads messages, creates workflows |
| Extract workflow (`workflow.ts`) | one durable instance per `chat-lo-hi` | resolve-deal, participants, extract, propose, mark-extracted | Attio, Claude, `deal_map`, `identity_map`, `crm_proposals`, messages |
| Deal resolution (`deals.ts`) | `deal_map` | `resolveDeal` | Attio's deals; the operator's `make link-deal` |
| Identity resolution (`identity.ts`) | `identity_map` | `resolveParticipants`: look up the senders, record the unknown | people who confirm and reject links |
| Claude extraction (`claude.ts`) | none | `extractFromThread`: ask one model or two, parse defensively | Anthropic's API |
| Reviewer and operator | - | approve, reject, link | `crm_proposals`, `deal_map` |
| Apply Worker (`apps/apply`) | none | `run`: list, decide (`guardrails.ts`), write, mark | `crm_proposals`, `deal_map`, Attio |
| Sync (`apps/sync`) | none; the Notion database is its state | `runSync`: project D1, query all pages, create or update | `deal_map`, `crm_proposals`, Notion |
| Watchdog (`apps/watchdog`) | alert state in `system_status` | `runWatchdog`: two checks, alert on a change or after a cooldown, all clear, ping | ingest's heartbeat, `crm_proposals`, Slack, a dead man's switch |

What makes them hard:

- **Overlap.** Cron does not wait for the previous run, and a manual POST runs
  beside it. Every `await` is a point where another run, a workflow, the
  operator or a salesperson in Attio can act on what was just read.
- **No transaction across stores.** A note is in Attio before its status is in
  D1; rows are written before their cursor; a proposal is inserted before its
  messages are marked.
- **Failure.** A call is refused, or it happens and its reply is lost; a Worker
  or the systemd job is killed anywhere; a workflow step runs at least once.
- **Limits.** Oldest first with a LIMIT (50 proposals, 200 messages, 200 messages
  of a chat): what stays at the head of a list blocks the rest. Newest first with
  one (200 deals of Attio, 200 rows and 500 proposals of a sync): what falls off
  the end is not seen.
- **Memory that silences.** A workflow id that was used, an alert that was
  recorded, a page that looks as it should: each keeps the system from acting
  again, also when the first act had no effect.

What makes each correct, and the hazard it answers, is listed in
`PROJECT.json` under `hazards`, each with the line where it bites and the
properties that watch it.

## 2. Modules

| Module | Models | Main state |
|---|---|---|
| `Guardrails` | `guardrails.ts` as pure operators | - |
| `Apply` | `apps/apply/src/index.ts`, the client calls in `attio.ts`, `listByStatus`/`markStatus` | proposals, deal links, the Attio workspace, each run's locals |
| `Ingest` | the three ingest programs and `upsert*`, `setCursor` | messages, cursors, heartbeat, each run's progress |
| `Lifecycle` | what the apply Worker promises: the life of a proposal, with no runs in it | proposals, their notes and fields, people records written |
| `DealMap` | `resolveDeal`, `isClearWinner`, `upsertDealMap` | rows of `deal_map`, similarities of names, resolutions |
| `Identity` | `resolveParticipants`, `upsertIdentity`, `confirmIdentity` | rows of `identity_map`, the participants each workflow found |
| `Workflow` | `ExtractWorkflow.run`: what its steps pass on | `DealMap` and `Identity`, each workflow's step and record id, proposals |
| `Claude` | `extractFromThread`, `extractJsonObject`, `parseExtraction` | the thread's size, the model asked, its reply, the result |
| `Extract` | `runOnce` and `ExtractWorkflow`: when its steps happen and how often | messages, workflow instances, proposals |
| `Watchdog` | `runWatchdog`, `shouldAlert`, the two checks, `recordStatus` | ages of the heartbeat and of the last alert, alert state, each check's locals, Slack |
| `Sync` | `runSync`, `buildDealRows`, `pageMatches`, the Notion client | rows and proposals as numbered contents, pages, each run's rows |
| `MCApply`, `MCIngest`, `MCDealMap`, `MCWorkflow`, `MCClaude`, `MCExtract`, `MCWatchdog`, `MCSync` | values for TLC | - |
| `ApplyProofs` (with the refinement of `Lifecycle`), `IngestProofs`, `DealMapProofs`, `WorkflowProofs`, `ClaudeProofs`, `ExtractProofs`, `WatchdogProofs`, `SyncProofs` | theorems | - |

`Apply` and `Lifecycle` EXTEND `Guardrails`, and `Apply` implements `Lifecycle`:
`Abstract == INSTANCE Lifecycle` maps the proposals' rows and Attio's records to
it and hides the runs, and `ImplementsLifecycle` says that every step of a run is
one step of one proposal's life, or none. `Workflow` composes `DealMap` and
`Identity` (`DM == INSTANCE DealMap WITH Runs <- Instances`, `ID == INSTANCE
Identity`): its steps are the actions of those modules in the order of
`ExtractWorkflow.run`, and a proposal carries what they answered.

`Extract` and `Workflow` model the same program, one when its steps happen
(dispatch, retries, marks), the other what they carry; what a step carries does
not decide when the next one happens, so neither needs the other's state. The
other state machines share tables, and each models the rest as its environment:
`Apply` has `Propose` (the workflow's insert) and `LinkDeal` (link-deal or an
automatic confirmation), `Ingest` has `MarkExtracted`, `Extract` has `Store`,
`Watchdog` has `Heartbeat` (ingest) and `Queue` (proposals inserted and decided),
`Sync` has `Match` and `Propose`. An environment action is never more restricted
than the module that stands for it, so what one module shows is not spoiled by
another.

### From code to actions

One action is the code between two awaits. A run's program counter names the
await it stands at, and its other local variables are those of the function.

- **Apply.** `ListApproved` and `ListPending` are the two queries of `run`;
  `Consider` is one turn of its loop: `getDealMap`, `decide`, and the branch.
  A deal proposal goes through `CreateDealNote`, `PatchFields`, `ReadContacts`,
  `PatchContacts`, `MarkApplied`; a person through `AssertPerson`,
  `CreatePersonNote`, `MarkApplied`. Every call has a failing twin
  (`callFails`: refused, or done with the reply lost). The catch clauses of the
  code differ and so do the twins: a failed note leads to `WriteBack`, a failed
  field write or association to a soft error, a failed `markStatus` of a person
  to `WriteBack`. Exceptions outside a try end the run (`Crash`). `WriteBack`
  stores `p.status` as the run read it, as the code does. The data of a proposal
  are its set of slugs, its confidence and its participants; note texts and
  values are left out. `approvedEver` and `liveDuring` are history that
  no action reads.
- **Lifecycle.** `Propose`, `Approve` and `Reject` are the people; `WritePerson`,
  `Note`, `WriteFields`, `Apply` and `GiveBack` what any run may do to a proposal.
  The promise has the weaknesses of the code: a proposal may be given back after
  it was applied, and applied after it was rejected (section 5).
- **Ingest.** The kind of a run selects its path. Local: `NextDialog`,
  `UpsertMessage`, `DialogDone`. Worker and backfill: `Fetch` (with any chats
  failing in the middle), then one batch (`UpsertMessages`) or row by row
  (`WriteRow`, `RowsDone`), then `AdvanceCursor` per chat. `Finish` and `Fail`
  end each, with a heartbeat or without. Message ids of a chat are 1, 2, ...;
  a date is its rank, so the backfill's cutoff is an id. The fetch is one step
  though it takes the chats one after the other: it only reads, and chats do
  not influence each other.
- **DealMap.** `AnswerConfirmed` and `Begin` are the read of the row,
  `ListDeals` the answer of Attio with the scoring, `Upsert` the guarded write
  and the return. Names are abstracted to their similarity with the title,
  which any rename may change; scores are per cent, as `round2` would show
  them. A deal without similarity still takes up room in the one page that is read,
  if it exists.
- **Identity.** `Find`, `Miss` and `Record` are one turn of the loop of
  `resolveParticipants`: the row of a sender, or no row and, after another await,
  the upsert of an unmatched one. `Abort` is an attempt that D1 ends anywhere in
  it. `Decide` is a human's link or its rejection. `decided` is history.
- **Workflow.** `ResolveDeal` is the step resolve-deal, made of `DealMap`'s
  actions; `ResolveParticipants` the step participants, made of `Identity`'s.
  `ExtractThread` is Claude naming any deal and the code keeping the record id
  only of a confirmed match; `Propose` the INSERT. A step that failed, or whose
  reply was lost, runs again or errors the instance (`again`), any number of
  times. `Rename`, `LinkDeal` and `Decide` happen at any moment. `Witness` keeps
  the history of what was confirmed while a workflow ran.
- **Claude.** `Ask` picks the model by the thread's length, `callMessages` is any
  reply of up to `MaxLength` characters, `Answer` parses it and returns, or asks
  Sonnet (`escalate`). A character is one of those the scan tells apart: braces,
  quote, backslash, any other. What `JSON.parse` makes of the text that was cut
  out is left open: an exception, or an object of any confidence.
- **Extract.** `List` is the query of `runOnce`, `Dispatch` one `create`. An
  instance goes from step to step with `Prepare`, `Propose`, `MarkExtracted`;
  `StepFails`, `ProposeUnacknowledged` and `MarkUnacknowledged` are the engine's
  retries, and an instance whose step used up `MaxTries` attempts is errored.
  That engine is not in the repository: what is assumed of it is that `create`
  throws on an id that was ever used, that a step is retried a bounded number of
  times and then errors its instance, and that a step may run again although it
  took effect. `unacked` is history: the instances that lost the reply to an
  insert.
- **Watchdog.** `Start` is the call, `Check` one of the two reads of `Promise.all`
  in either order, `LoadAlertState` the last read with the decision that follows;
  then `PostAlert` and `RecordAlert`, or `RecordQuiet`, or `PostClear`,
  `RecordOk` and `Ping`. `postSlack` either arrives or is swallowed. The
  signature is the set of checks that fail. Times are ages that `Tick` advances
  between checks and that stop growing where the code no longer tells them
  apart: at `Stale` and at `Cooldown`. `slack`, `posted`, `sincePost`, `alone` and
  `alerted` are history that no step of a check reads.
- **Sync.** `ListDeals` and `ListProposals` are the two queries of D1, with the
  projection and the cut to `MAX_DEALS_PER_RUN` in the second; `Query` reads all
  pages and compares; `Write` is one request for one row, `WriteRepeated` one that
  took effect and was sent again, `Fail` one that is refused for good. A page's
  properties are the numbers of the changes that made them, and whether the
  summary was cut. `Query` is one step though Notion answers 100 pages at a
  time; what it finds of a chat is what one of these requests found. That Notion
  gives a date back in the form in which it was written is assumed (`sameDate`
  compares texts), and so is that no two rows have the same second as their time: D1
  orders by it, and leaves the order of ties open.

## 3. Runs

Operators whose name has a prefix and an underscore (`Clobber_merged`) are
mutants, plausible mistakes that the property beside them must find; no
specification uses them.

### What holds

| Run | Instance | Shows |
|---|---|---|
| `MCApplyOverlap` | 2 runs, 1 deal proposal, 2 deals, a salesperson, 1 fault of any kind | `TargetWasLive`, `DealWriteHasNote`, `CleanApplyIsComplete`, `SeenContactsKept`, `ImplementsLifecycle` |
| `MCApplySerial` | 1 run at a time, 3 proposals of one chat (a deal and two people), LIMIT 2, 2 faults, fairness | `BatchWithinLimit`, `UnapprovedWritesAreSafe`, `AppliedIsFinal`, `LinkTakesEffect` |
| `MCIngestPrograms` | local job, Worker and backfill on one chat, limit 2, 3 messages, a cutoff, 1 fault, fairness | `NoGap`, `CursorMonotone`, `ExtractedStays`, `EveryMessageStored` |
| `MCDealMapOverlap` | 2 resolutions, a titled and an untitled chat, 2 deals, scores at and under each bar, a rename, links at any time | `TargetIffConfirmed`, `ConfirmedIsEarned`, `AnswerIsTrusted`, `QuietLinkIsKept` |
| `MCWorkflow` | 2 workflows of one chat, 2 deals, 1 sender, 1 person, a rename, links and decisions at any time, any number of retries | `ConfirmedPersonStays`, `RecordWasLive`, `PersonWasConfirmed` |
| `MCClaude` | every reply of up to 6 characters, threads at and over both bars, confidences at, over and beyond theirs | `FindsTheObject`, `WeakFirstPassEscalates` |
| `MCExtractOverlap` | 2 dispatchers, 2 chats, 3 messages in order, batch of 2, 1 fault of any kind, one attempt more than faults, fairness | `ExtractedIsProposed`, `ThreadProposedOnce`, `SkipIsSafe`, `EveryMessageExtracted` |
| `MCWatchdogOverlap` | 2 checks, thresholds of 1 and 2 ticks, heartbeats that stop or fail, a queue that crosses its ceiling at any time, 1 fault of any kind, fairness | `KnownWasAlerted`, `AlertsAreSpaced`, `OutageIsTold` (alerts that arrive, counted as posts and not by what Slack shows), `DeadMansSwitch` |
| `MCSyncOverlap` | 2 runs, 2 chats of which a run writes 1, proposals of which a run reads 1, a long summary, 2 changes of D1, 1 fault of any kind, fairness | `OnePagePerChat`, `EveryRowShown`, `DiffsOnly` |

One run of each module but `Claude` also checks its `TypeOK`.

### What the documents say and the code does not do

Each of these runs violates one property, which states a sentence of a comment
or document; `PROJECT.json` quotes it under `findings`.

| Run | Property | What happens |
|---|---|---|
| `MCApplyTwoNotes` | `AtMostOneNote` | two overlapping runs list the same proposal and both leave a note |
| `MCDealMapRelinked` | `LinkIsKept` | an automatic match replaces a link made while it waited for Attio |
| `MCExtractTwice` | `MessageProposedOnce` | a new message changes the id; older ones are proposed again |

`AppliedIsFinal` speaks of deal proposals. For a person it can fail within a single
run: `markStatus` is inside the try of `applyPerson`, and when its reply is lost the
catch clause writes the old status back. The proposals of `MCApplySerial` share a
chat: with the LIMIT filled by proposals of chats that are never linked, or by
approved ones that fail every time, `LinkTakesEffect` is false (section 5).

### Bounds

- Two runs, checks, dispatchers or resolutions: each interference in this system is
  between a read and a write of one actor and a write of another. The theorems
  hold for any number.
- One proposal is enough for interference on a proposal; two for order and
  limits; one chat with two deals for links that move; two chats for a thread
  that blocks another.
- `MaxFaults` bounds the failed calls of a behaviour and counts nothing in the
  code. One fault in either of two runs meets every step of the other; two, in
  `MCApplySerial`, let a run fail and its retry too. Safety is proved for any
  number of them.
- `MaxId` and `MaxMessage` bound the messages; the fetch and batch limits are
  below them, so that runs stop in the middle of a chat.
- `MaxRenames` bounds changes in Attio; the initial scores are arbitrary, but in
  `MCWorkflow`, where no deal is named like its chat until one is renamed
  (`MCInit`): with two workflows, one rename and links, a match can appear and
  lose its deal under each of them.
- `MaxLength` 6 is the least for an escaped quote in a string of an object,
  `{"\""}`; braces in strings, nested objects and text around them are shorter.
- `NoteCap` merges two and more notes of one proposal on one record: no
  property tells three from two.
- Scores are 0, 40, 77, 78, 93: none, the candidate bar, just below and at the
  auto-confirm bar of `wrangler.jsonc`, and that bar plus the margin.
- `MaxSilence` and `Cooldown` are the least thresholds that differ and leave a
  tick on either side; longer ones add states in which only time passes. The
  theorems hold for all.
- `MaxChanges` counts changes of D1 that runs of sync live through; before them
  any number of the chats has been matched. With `MaxDeals` 1 a run writes one
  row, and which one changes with the newest upsert; several rows of one run
  would be written one after the other to different pages.
- Symmetry is used for runs, workflows and, in `MCWorkflow`, deals, in runs
  without liveness.

`Extract` has no step left when all messages are extracted or skipped, and
`Claude` none when it has returned, so their configurations turn the deadlock
check off. The others never stop.

### Fairness

`FairSpec` assumes weak fairness of what the platform does by itself and of
nothing else. Cron and the systemd timer start runs for ever and a run that is not
killed goes on (`WF(Step(r))`); a dispatcher goes through its threads; the engine
goes on with each instance (`WF(Advance(k))`). Faults, people and new messages
have no fairness, and faults are finitely many, so fairness does not promise that
any one call succeeds. Nobody has to run a backfill: only the `Scheduled` runs of
`Ingest` are fair. `Step` excludes the failing twins: a run makes progress because
calls that are not refused return.

`Watchdog` needs two assumptions more. Checks do not overlap one another for ever
(`[]<>` all idle), since cron starts one every 15 minutes and each takes seconds.
And time goes by between them: `SF_vars(Tick)`, strong because each check that
starts disables `Tick`. A tick changes nothing once every age has reached its bound,
and then none is asked for, so a program that never alerts again is not excluded.

## 4. Proofs

Every theorem is proved for all values of the constants that satisfy the named
assumptions of the modules. TLC evaluates those assumptions in each run.

In each proofs module `IInv` is inductive, and `Invariance` is
`Spec => []IInv`. The properties follow from it. `ApplyProofs` also strengthens
it to `LInv` for the refinement; in `WorkflowProofs` it is `WInv`, in
`ClaudeProofs` `CInv`.

Every safety property of a passing run is stated by a theorem. Most need no
hypothesis. Those that do state it in one of two forms: an assumption on the
constants (`InOrder`, `MaxFaults < MaxTries`, one run), which the instance that TLC
checks satisfies, or a hypothesis on the behaviour (`[]Alone`, `[]NoneErrored`,
`[][ListsInTurn]_vars`), which nothing in the code enforces: such a theorem says
what the property costs, and section 5 what happens when it is not paid.

**Apply.** `TypeOK` is not inductive: `WriteBack` stores what a run remembers, and
only because a busy run remembers "pending" or "approved" is this a legal status.
`RunOK(r)` records what run `r` has achieved at each point: it is at a proposal;
before and during the writes its target is a deal in `liveDuring`; past the note
there is one on its target; past the patch the write part is there or `softError`
is set. The steps split into the step of `r` itself (`RunOK(r)'` from the code of
that step), the effect on another run `q` (`RunOK(q)` speaks of `q`'s locals,
which do not change, and of notes and fields, which only grow: `NoteGrows`,
`FieldsGrow`), and the environment. `AppliedHasNote` and `CleanApplyIsComplete`
then hold at `MarkApplied`, and later because Attio's notes and fields only grow.
From it `TypeCorrect`, `TargetsAreLive`, `DealWritesHaveNotes`,
`AppliedImpliesNoted`, `CleanAppliesAreComplete`. No run checks `AppliedHasNote`
by itself, because `ImplementsLifecycle` says it too. `SeenContactsAreKept` needs
only the types: of all steps only the PATCH of a run and the salesperson touch the
contacts. The proof needs the assumption that a deal proposal has its chat
(`ProposalAssumption`), which `insertProposal` in the workflow guarantees.

**Lifecycle.** `Refinement` is `Spec => ImplementsLifecycle`: deal and people
proposals, any number of runs and faults; TLC's instance has one deal proposal. A
run acts on what it read long before, so the refinement needs to know what of it
still stands: `Standing(r)` says that what a run listed as approved was approved
at some time, that it reaches the writes of a person only through `decidePeople`,
and that it notes only a person it wrote; `Sound(p)` says the same of a proposal,
whoever has decided since. With `IInv` they give `LInv`, and each action of
`Apply` is matched with one of `Lifecycle` (`RunRefines`, `EnvironmentRefines`):
`Note` for a note that arrives, also when its reply is lost, `GiveBack` for
`WriteBack` with what the run remembered, and a stutter for reads and failures
without effect. `UnapprovedWritesStaySafe` follows from `Sound`.
`BatchesStayWithinLimit` needs `BatchOK` and `ListWithinLimit`, that LIMIT n
returns at most n of any number of rows: the number of older rows is an injection
of the rows returned into 0..n-1.

**When no two runs overlap.** A cron tick and a `POST /run` share nothing but D1,
and nothing keeps them apart, so this is a hypothesis (`Alone`): `MCApplyTwoNotes`
shows what happens without it. Under it `Settled` is inductive: no run holds an
applied deal proposal, because what it lists is not applied, only the run itself
applies, and it goes on to the next proposal when it has. A `WriteBack` then never
stores an older status over "applied" (`AppliedStaysApplied`), and a proposal that
has its note is "applied", or its run is about to make it so
(`DealsAreNotedOnce`). The latter needs that no reply is lost and no run is killed
(`Reliable`), but not that no call is refused. A person's proposal may be given
back after it was applied (`applyPerson`), so for people all of this is proved only
without faults (`settles`, `NotedOnceWithoutFaults`). `OneRunAppliesForGood` is
the case of one run at a time, where `Alone` needs no hypothesis.

**Ingest.** `NoGap` speaks of cursors and is not inductive: a run may hold an id
that it will write later. `LoStored` and `HiStored` say that all up to a run's
`lo`, and all it fetched once its rows are written, are stored but for the
backfill's cutoff. Rows never disappear, so another run's progress keeps both.
`CursorsMoveForward` and `ExtractedMessagesStay` follow from single steps under
`TypeOK`.

**DealMap.** `MatchOK` says that the row a resolution is about to write sets
the deal exactly when it is confirmed. `AnswersAreTrusted` compares the answer of
`resolveDeal`, which is the match it made, with the row that the upsert left: by
`NewAnswer` a new answer that is confirmed names the deal of the row at that
moment, since a confirmed match is written over anything, and `AnsweredConfirmed`,
a part of `IInv`, says that the chat stays confirmed. `ConfirmedAreEarned` needs in
addition that a match that confirms was a clear winner (`MatchEarned`), and that
all deals fit on one page; without this it is false (section 5).
`AnswersAreEarned` puts the two together: a new answer names the deal last linked,
or one that was a clear winner. `LinksAreKept` is inductive with
one more fact: a chat whose last link met no resolution at work has none at work
since, because its row is confirmed and every later resolution only reads it.
`ConfirmedChatsStay` (a confirmed chat stays confirmed) follows from the guard of
`upsertDealMap` and is not in a run.

**Workflow.** `ResolvesAsDealMap` proves that the composition implements `DealMap`
(`DealStep`: whatever a workflow or a person does is one of its steps, or leaves
its variables alone), so the invariant of `DealMapProofs` carries over
(`DealInv`). On it `WInv` follows what a proposal will carry through the steps: a
workflow resolves its own chat; an answer that is confirmed names a deal that is in
`liveDuring`, because the row it was read from or written to was confirmed then;
the record id of the propose step is that deal or none; and a participant
with a person was found under a row confirmed at that moment, also when an
attempt was cut short, since `Abort` forgets all it had found. `RecordsWereLive`
and `PersonsWereConfirmed` then look only at the INSERT. `ConfirmedPersonsStay`
rests on the guard of `upsertIdentity` alone.

**Extract.** `Inserted` bounds what an instance may have inserted by the faults so
far, and by one more once it is past the propose step; `MarksProposed` says
that an instance that is marking has inserted, `Started` that one that was never
dispatched has nothing, `Attempts` that one that runs has an attempt left.
`ThreadsAreProposedOnce` excepts the instances whose acknowledgement was lost
(`unacked`); of these it is false (section 5).

*Skips.* A dispatcher that meets an id that was used drops its messages. This is
safe only if the id says which messages the instance has, and an id is only a chat
and its first and last message. `Ordered` says why it does, when `InOrder` holds:
the rows of a chat are stored oldest first and extracted oldest first, a batch is
the oldest of what is left, so a thread is a whole interval of its chat
(`WholeThreads`), and an id determines it. It gives `ThreadsAreCutInOrder`, and
with the hypothesis that no instance has given up, `SkipsAreSafe`: the instance
with the id still runs or has marked the thread. `FewFaultsSkipSafely` replaces the
hypothesis by `MaxFaults < MaxTries`, since each attempt that fails is a fault
(`TriesAreFaults`). `InOrder` is what the scheduled ingest gives; a backfill
that stores older messages later breaks it.

*One message, one proposal.* `OneBatchAtATimeProposesOnce` is the converse of what
`MCExtractTwice` finds: if a batch is listed only when no dispatcher is at one and
all that was proposed is marked (`ListsInTurn`), no message is ever proposed twice,
unless a reply is lost. `Apart` is inductive under it: no message is in two
instances, or in an instance and a batch.

**Watchdog.** `KnownWasAlerted` needs `Posted`: a check on its way to record
failures, loudly or quietly, holds failures that some check posted. `Recorded`
ties the history of the last alert to the table: while there is one, it is on
record with its age, or the check that posted it is about to record it. `Quiet`
says what a check that met no other may rely on: the record is the one it
decided on. `AlertsKeepTheirDistance` follows from the last two: such a check is
at the alert because the record differs from its failures or the cooldown is over.
`NoPingWhileFailing` is the safety half of `DeadMansSwitch`: from the moment when
check `c` fails for good and every run that has read it has found so
(`KnownTo(c)`), no run pings again. `KnownTo` is kept by every step, because a run
forgets what it has found only when it ends. That this moment comes is the
liveness half and needs fairness. `NeverWellNeverPinged` is the case where it has
come at the start.

**Sync.** `OnePagePerChat` needs `Unseen`: a run that will create the page of a
chat is right that there is none, or the chat is marked as raced. A query makes it
true, because it reads the pages of all chats; only a create could make it false
for another run, and that run is then a rival. That no page shows the summary of
another chat (`TypeCorrect`) rests on `LatestIsOwn`, and that on `MaxIsMember`,
which takes the maximum from the well-foundedness of the numbers. `UpToDateStays` is the
safety half of `DiffsOnly`: once every page shows its row (`Shown`) and no run
holds anything older than D1 (`Current`), no step writes a page and the state
remains such until D1 changes. `Shown` asks that no summary on display is cut:
with one that is, pages are written for ever (section 5).

**Claude.** `FindsTheObject` compares the loop of `extractJsonObject`, which
counts braces outside of strings, with a grammar of texts. `StringRule` and
`ContentRule` turn the grammar into rules about a slice of one text: the inside of
a string is empty, or goes on after one plain character or after a backslash and
any other; the inside of an object is empty, or goes on after a character, a
string or an object. `StringIsScanned` and `ContentIsScanned` show that the scan
crosses such a slice and comes out at the depth at which it went in,
`ScannedIsString` and `ScannedIsContent` the converse. Each takes a shortest slice
for which it would be false (`Least`, from the well-foundedness of the numbers:
the induction theorems themselves cannot be used here). `StopsAtItsBrace` then
says that the scan stops at the brace that closes the first one, and nowhere before
it. `CInv` carries this through the state machine: a result is what
`parseExtraction` makes of the reply at hand, and `UnsureRepliesEscalate` follows
from it. The proofs assume that `Null` is no reply (`NullAssumption`).

## 5. Known deviations without a run of their own

TLC finds these in the models when the instance or the property is changed as
described; those about identities, replies and the creation of a person are read
from the code. They bound what the passing runs and theorems may assume.

- A run that ends between `createNote` and `markStatus` (`index.ts:264`), or a
  note whose reply is lost, is repeated by the next run with a second note:
  `AtMostOneNote` fails for a single run with one crash.
- A failed attempt writes back the status it read (`index.ts:174`, `231`, `326`):
  with two runs and one refused call `AppliedIsFinal` fails.
- Old proposals of unlinked chats fill every batch (`index.ts:302`): with two
  chats and LIMIT 1 `LinkTakesEffect` fails.
- A contact added in Attio between the read and the PATCH of `associatePeople`
  (`index.ts:190-199`) is removed; `SeenContactsKept` allows exactly that.
- `markStatus` has no condition on the status (`client.ts:490`): a proposal that
  is rejected while a run is at it becomes applied.
- `applyPerson` writes the record before its note (`index.ts:163`): when the note
  fails the record has none.
- `match_method` is outside the guard of `upsertDealMap` (`client.ts:389`): a
  resolution that is under way turns "manual" into its own method.
- `listDeals` reads one page (`deals.ts:199`): with `PageSize` below the number of
  deals `ConfirmedIsEarned` fails.
- The id of an errored instance is taken as "already being processed"
  (`extract/src/index.ts:83`): with `MaxTries` 1 `SkipIsSafe` fails.
- Errored threads stay the oldest and fill the batch of a dispatcher
  (`extract/src/index.ts:97`), although a comment there says that "individual
  thread failures don't block the rest" (lines 10-11): with LIMIT 1 and two chats
  an errored thread of one keeps the other from ever being dispatched.
- The propose step may insert twice when its acknowledgement is lost
  (`workflow.ts:182`); `ThreadProposedOnce` excepts these instances (`unacked`).
- A pending proposal of a person at or over the threshold creates the record when
  no record matches (`index.ts:163`, a PUT that asserts), though
  `guardrails.ts:13-14` says that unapproved proposals never create.
- The participants of a proposal are those confirmed while its workflow ran
  (`PersonWasConfirmed`); a link that was rejected since is still associated when
  the proposal is applied.
- A workflow that found no row for a sender writes "unmatched" over a rejection
  made meanwhile (`identity.ts:140`): only confirmed rows are guarded, and
  `ConfirmedPersonStays` speaks of these.
- For a chat whose deal is confirmed, a reply that cannot be read becomes a
  proposal without changes, which is applied as a note without review, though
  `claude.ts:178` says that it "routes to human review".
- Sonnet's answer replaces Haiku's also when it cannot be read
  (`claude.ts:286-288`), and a brace in the prose before the object hides the
  object: `FindsTheObject` speaks of the first brace.
- A confidence given in per cent (85) is clamped to 1 and passes every bar.
- An all clear that Slack loses is never told again (`watchdog/src/index.ts:229`):
  the record is cleared all the same, and only the dead man's switch shows the
  recovery.
- Two checks that overlap both read the old alert state and both page
  (`watchdog/src/index.ts:211`); `AlertsAreSpaced` speaks of checks that met no
  other.
- The switch may be pinged for ever while something fails at every moment, when
  the two checks fail in turns and each is read while it passes;
  `DeadMansSwitch` speaks of one check that fails.
- Overlapping syncs, or one POST that is sent again after a 5xx, leave two pages
  for a chat (`sync/src/index.ts:232`, `notion.ts:160`); from then on only one of
  them is updated. `OnePagePerChat` and `EveryRowShown` except these chats (`raced`).
- A summary of more than 2000 characters is cut on the way to Notion and compared
  in full (`notion.ts:48`, `sync/src/index.ts:200`): its page is updated in every run.
- A backfill fetches a chat's oldest messages, not its latest (`backfill.ts:287`,
  `container/main.py:231`): in `Ingest`, `Fetch` from 0 ends at `FetchLimit`.

## 6. Only model-checked

- All liveness (`LinkTakesEffect`, `EveryMessageStored`, `EveryMessageExtracted`,
  `OutageIsTold`, `DeadMansSwitch`, `EveryRowShown`, `DiffsOnly`): fairness and
  ENABLED are beyond the prover. The safety halves of `DeadMansSwitch` and
  `DiffsOnly` are proved (section 4).
- The violations of section 3: TLC shows the behaviours.

## 7. Not modelled

- `resolveIdentity` (`identity.ts:264-393`, the match by phone and name): exported,
  and called by no Worker or script.
- Claude's prompt, and the coercion of texts and changes in its reply: `Apply`
  takes any set of changes, `Workflow` any deal.
- The early return of a workflow without messages (`workflow.ts:131`): the
  dispatcher creates none for an empty thread.
- `titleSimilarity`: only its result matters to `DealMap`.
- `evaluateGuardrails` in the workflow: its verdict is only words in the
  rationale; the status is always "pending".
- The chat limit of ingest (`MAX_CHATS`, 0 for no limit by default), time-outs in
  seconds, and the ingest run by hand, which differs by having no heartbeat. The
  limit of 150 s on the container is all or nothing, as `Fetch` is.
- `rejected` rows of `deal_map`: nothing in the repository writes one.
- HTTP, JSON, note texts, login, deploy and status scripts: no state.

## 8. Plan

Done, in this order: `Guardrails` and `Apply` (the only part that writes to the
CRM), `Ingest`, `DealMap`, `Extract`, `Watchdog` and `Sync`, with their proofs;
then `Lifecycle` with the refinement, `Identity`, `Workflow` as the first
composition, and `Claude`.

Next:

1. `Pipeline`: `Ingest` and `Extract` over one table of messages, and the life of
   a message (posted, stored, proposed, extracted) as its abstract specification.
2. `titleSimilarity` as a pure module, against the two bars.

A new module takes the place of a run above where one instance can answer two
questions.
