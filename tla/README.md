# TLA+ verification of Get Yourself

Get Yourself (`src/`) turns what a student did -- events attended, challenges,
achievement records, journal entries -- into evidence, has language models
assess the evidence, scores abilities from the assessments, and lets a local
command line toolkit carry the result into job applications. It is a Spring
Boot backend (`src/backend`, MySQL, Redis, RabbitMQ, Elasticsearch), a Vue
frontend (`src/frontend`) and a toolkit of Node scripts (`src/cli`).

This directory models the parts of it whose correctness depends on the order of
steps: transactions that overlap, messages that are late, repeated or lost,
processes that die, files that two commands replace, answers that reach a page
which meanwhile shows something else; and the calculations that something is
decided by. TLC checks each part on small instances. TLAPS proves, for instances
of every size, the safety properties of scoring and judging, the assessment
jobs, the outbox, the device binding, the services of the backend, the file lock
and the transactions under it, the sync queue and the sync units, and that
scoring and outbox implement their abstract specifications.

Contents: 1 inventory, 2 modules and how they correspond to the code, 3
modelling decisions, 4 runs and bounds, 5 fairness, 6 proofs, 7 divergences
found, 8 what is not modelled, 9 plan.

To check: `tlc -config X.cfg M` for the pairs of section 4, `tlapm M.tla` for
the six modules whose names end in `Proofs` (`BackendProofs` takes about eight
minutes, the others one or two at most). `PROJECT.json` holds the same
facts as data: `map` names the source lines of every definition, `hazards` what
can go wrong and which property looks for it, `mutants` plausible bugs for
every property, each of which makes TLC report that property.

## 1. Inventory

### Backend

Java root: `src/backend/src/main/java/com/getyourself/backend/`.

| component | state | operations | called by / calls |
|---|---|---|---|
| **ability scoring** (`abilityscore/AbilityScoringService`, calculator, policy) | `ability_score_results`, `user_ability_states` (versioned), `ability_score_appeals` of type replay | `score` over all dimensions of an assessment: reuse, append, correct, supersede, ask for a replay | the assessment jobs; creates judges |
| **judge assessments** (`JudgeAssessmentService`) | `judge_assessments`, `ability_scoring_profiles` (versioned) | `createIfRequired`, `start`, `submit` | requests of the user; the model; writes results, states, profile |
| **evidence assessment jobs** (`EvidenceAssessmentAgentService`, `...PersistenceService`) | `ability_assessment_jobs` (no version), `ability_evidence_assessments`, dimensions | `assessRecord` as short transactions: `findOrCreateJob`, `markRunning`, `markFairnessStatus`, `saveAssessment`, `markFailed` | listener of the record message, or a request; calls `score` |
| **domain event outbox** (`mq`) | `domain_event_outbox`, the broker's queues | `publish` in the caller's transaction, scheduled `dispatchDueEvents`, listeners | every service that sends a message |
| **workbench device binding** (`workbench`, and `src/cli/device-binding.mjs`) | `workbench_devices`; the client's `device-installation.json` and `device-binding.json` | `createCode`, `bind`, `revoke`, `disconnect`; `connect [--replace]` and `disconnect` of the toolkit | page and toolkit, over HTTP |
| **events, review and search index** (`event`, `eventquality`, `retrieval/EventSearchIndex*`) | `events` (no version), the Elasticsearch index, two kinds of messages | create, delete, expire, approve, reject, reanalyze, analyse, `reindexAll`, index listener | editors, scheduler, listeners |
| **user profile snapshots** (`memory`) | `user_profile_snapshots` (no version, one row a user) | `markDirty`, refresh by message, refresh by job | achievements, challenges and coach mark; the agents read |
| **reservations, challenges, schedule, achievements** | `reservations`, `challenges`, `schedule_items`, `achievement_records`, QR codes in Redis | reserve, cancel, scan; make, complete and give up a challenge; make, import, edit, cancel entries; reflect | each other; mark profiles, send assessment messages |
| **growth tags** (`achievement/GrowthTag*`) | `growth_tags`, `growth_tag_evidences` | extract, rebuild, mark a milestone | listener of records, page |
| **coach and memory reviews** (`coach`) | messages, `coach_logs`, `coach_memory_reviews` | talk, make a log, ask again | page; the model |
| **map of abilities** (`abilityscore/AbilityHac*`, `AbilityFeatureVectorizer`, `AbilityDynamicAnchorRegistryService`) | cluster runs, anchors | cluster, promote | page; reads the states of scoring |
| **appeals of users, export and timeline** (`abilityscore`) | appeals | appeal, list, export | page |
| **agent runs, bad cases, trace artifacts** (`agentlog`) | run and step rows in transactions of their own | begin, step, finish, fail | every agent |
| **hybrid retrieval and ranking** (`retrieval`) | session context, traces | search | page; reads events and index |
| **planning agent and model client** (`ai`, `mcp`) | none of its own | plan, complete | most services |
| **accounts and sessions** (`auth`, `wechat`) | users, tokens in Redis | register, log in, log out | every request; its other half is in the frontend |
| **journal, follows, organizations, timeline** | one row each | create, delete, list | page |

What is hard here: only scores, states and profiles of scoring have a version
column. Every other row is written back whole by a transaction that read it
before it waited for a model; Redis is written before a transaction commits;
messages are delivered at least once, in any order, unless they are given up; a
judge may be open while its result is corrected.

### Command line toolkit

| component | state | operations |
|---|---|---|
| **file lock** (`pipeline-lock.mjs`; a second version in `tracker-utils.mjs`) | lock directory with `owner.json`, recover guard directory | acquire, recover, release |
| **tracker transactions** (`tracker-utils.mjs`) | `data/applications.md` and a temporary file | open, read, replace, close |
| **tracker files** (`reserve-report-num`, `merge-tracker`, `dedup-tracker`, `set-status`) | the table, reservation files, reports, `tracker-additions/`, `merged/` | reserve, merge, deduplicate, set a status |
| **status of an application** (`set-status`, `invite-match`, `tracker-sync-check`, `normalize-statuses`, `stats`) | table, `status-log.tsv`, `active-interviews.md` | select a row, apply a mail, compare table and log, count the funnel |
| **follow-up cadence** (`followup-cadence`) | `data/follow-ups.md` | report what is due |
| **imports of contract files** (`scam-check` and the other contract tools) | a package, its document, backups | import `--apply [--replace]` |
| **skill runtime** (`skill-runtime`) | run records | run a plan, resume it |
| **resume chain** (`evidence-package`, `resume-*`) | evidence, materials, final plan with `cv.md`, render, library | import, apply, render, audit |
| **job analysis, interviews, feedback** (`job-analysis`, `interview-*`, `capability-feedback`) | packages bound by hashes | import, inspect |
| **opportunities** (`company-opportunity`) | a package each, its tracker row, records of mutations and mounts | import, change nodes, mount an artifact |
| **local sync queue** (`sync-queue.mjs`) | `data/sync-queue.json`: entries, tombstones, audit | enqueue, retry, cancel, mark, reconfirm |
| **sync units** (`sync-unit.mjs`) | files that hold a unit | preview, build, validate, classify |
| **entries added to the résumé** (`add-entry`) | `cv.md`, `article-digest.md` | add |
| **weights of a job, signs of a fraud** (`job-analysis`, `scam-check`) | none, calculations | match, recommend, conclude |
| **lookups and requests of the scanner** (`providers/_http`, `_dns-cache`, `_ip-guard`) | cache, lookups under way, tokens | fetch, retry, resolve |
| **boards of the portals** (`providers/*`, `scan`) | none | sweep a board |
| **statistics, checks and `gy`** | none | print, start other tools |

What is hard here: no process of the toolkit knows of the others, each may be
killed between two calls of the file system, a file that is loaded, changed and
replaced takes with it what another command wrote in between, and packages that
name each other's hashes are replaced one at a time.

### Frontend

| component (`src/frontend/src`) | state | operations |
|---|---|---|
| **accounts and sessions** (`stores/auth`, `api/client`, `router`) | the session in local storage, a copy in each tab | log in, log out, initialize, call, leave a page |
| **résumé page and library file** (`stores/studentWorkbench`, `StudentResumeView`, `LocalResumeLibraryBridge`, `resumeLibrary.ts`) | lines of versions, the editor, a library file | import, edit, save, export |
| **selection assistant** (`StudentResumeView`, `resumeSelectionSkill.ts`) | text, selection, suggestion | select, suggest, apply |
| **agent console and interview tree** (`studentWorkbench`, `StudentAgentConsoleView`, `StudentInterviewView`) | messages with plans, evidence, stages | send, confirm, reject, edit stages |
| **device panel** (same files) | devices, a code, a poll | create a code, poll, unbind |
| **achievements page** (`StudentAchievementsView`, `JudgeDialog`) | judges, evidences, a dialog | open, start, submit, mark |
| **schedule page** (`StudentScheduleView`) | entries, a dialog, a drag | drag, resize, save, remove |
| **events page** (`StudentEventsView`) | results, relations, plans | search, reserve, follow, ask, import a plan |
| the remaining views | what the stores hold | show, or one call at a time |

What is hard here: a page has several calls under way, an answer changes what
is shown when it comes, and the dialog or the account it was meant for may be
gone; the tabs of a browser share one stored session.

### What makes each modelled component correct

- *Scoring*: a record counts once in an ability however often it is delivered,
  edited or corrected; the score is the end of one chain of results.
- *Judging*: a flagged result or a higher rank takes effect by a passed judge
  only; decisions are final; concurrent decisions lose no confidence update.
- *Jobs*: an open job that is no duplicate has a thread; a completed one has its
  assessment; a duplicate stays blocked.
- *Outbox*: an event is handed to the broker or parked, never reported sent before
  it was handed over, never handed over twice by one instance without a fault.
- *Devices*: a credential is of one device and one client; at most five active
  devices unless binds overlap; what is revoked stays revoked unless a status call
  that overlaps the revoke brings it back.
- *Events*: what the search finds can be seen.
- *Profiles, tags, memories*: what is derived from other rows is what those rows
  say, and a memory is asked for after the interval its uses have earned.
- *Bookings*: what is completed has its record, once; what is cancelled has
  neither record nor schedule entry; a code leads to its own booking.
- *Map*: what is put together belongs together.
- *Locks and tracker*: two processes never hold a lock at once; a dead one does
  not keep it; a change that was reported is in the table; numbers are given out
  once; no evaluation and no application is forgotten.
- *Imports and runs*: what was overwritten is in a backup; a record tells what
  happened.
- *Chain and opportunities*: what is called ready rests on what is installed;
  package and row tell of the same opportunity; a mounted artifact stays.
- *Statuses and cadence*: a status reaches the row it is meant for; the report
  names the file that is behind; what is due is shown from that day on.
- *Sync*: one entry an object; what was deleted on the web is not on its way
  there; no snapshot replaces one it did not know of.
- *Scanner*: who waits for a name shares one lookup and is called back once; a
  sweep whose answers were whole missed no more than the board gave reason for.
- *Pages*: what a page says is what the backend and the user said to it.

## 2. Modules and the code

| module | kind | models |
|---|---|---|
| `AbilityScores` | component | scoring and judging of one user |
| `CreditLedger` | abstract | what scoring promises about a score; `AbilityScores` implements it |
| `AbilityScoresProofs` | proofs | `AbilityScores`, and that it implements `CreditLedger` |
| `AssessmentJobs` | component | `assessRecord` in several threads |
| `AssessmentJobsProofs` | proofs | `AssessmentJobs` |
| `DomainOutbox` | component | outbox, broker, listeners |
| `EventDelivery` | abstract | what the outbox promises to a publisher; `DomainOutbox` implements it |
| `DomainOutboxProofs` | proofs | `DomainOutbox`, and the safety part of that |
| `DeviceBinding`, `EventCatalog`, `ProfileSnapshots`, `Bookings`, `GrowthTags`, `CoachReviews`, `AbilityClusters` | components | services of the backend, scenes of `MCBackend` |
| `BackendProofs` | proofs | `DeviceBinding`, the other services of the backend, and all of them together |
| `PipelineLock`, `TrackerLock`, `Tracker`, `Statuses`, `Cadence` | components | the tracker, its lock and its readers |
| `ContractImport`, `SkillRuntime`, `ArtifactChain`, `CompanyOpportunity` | components | packages, plans and opportunities |
| `SyncQueue`, `SyncUnit`, `AddEntry`, `Assessments`, `ProviderFetch`, `BoardSweep` | components | the other tools; all of these are scenes of `MCCommandLine` |
| `ToolProofs` | proofs | `PipelineLock` with `TrackerLock`, `SyncQueue`, `SyncUnit`, `ContractImport` with `SkillRuntime`, `ArtifactChain`, `CompanyOpportunity`, `ProviderFetch`, `BoardSweep`, `AddEntry` |
| `Session`, `Resumes`, `ResumeSelection`, `AgentConsole`, `DevicePanel`, `JudgePage`, `WeekPlan`, `EventsPage` | components | the frontend, scenes of `MCWebApp` |
| `PageProofs` | proofs | the pages, and `MCWebApp`, which is all of them together |
| `MCAbilityScores`, `MCAssessmentJobs` | instances | one component each |
| `MCBackend`, `MCCommandLine`, `MCWebApp` | instances | the components above, one scene each or two |

The instances extend their components, so that a theorem and a run speak of the
same definition; the services of the backend but `DeviceBinding`, and the tools
without theorems, are used by INSTANCE. `TrackerLock` extends `PipelineLock` and `SkillRuntime` extends
`ContractImport`: there one component runs on top of the other. A module that
holds theorems extends the component, or the instance, that it is about.

### AbilityScores

| variable | in the code |
|---|---|
| `extracted[<<r, e>>]` | the dimensions of the assessment of record `r` with content `e` |
| `timeline[d]` | results of dimension `d` in creation order, each with its judge row |
| `ability[d]` | `user_ability_states`: score, rank, version |
| `profile` | `ability_scoring_profiles`: confidence, version |
| `replays` | appeals of type `EVIDENCE_CHANGED_REPLAY` |
| `tx[c]` | an open transaction of `submit`: its judge, the state and profile it read |

`SaveAssessment` is `saveAssessment`; `Score` is `score` with every dimension of
the assessment in one step; `JudgeStart` is `start`; `SubmitBegin`,
`SubmitCommit` and `SubmitAbort` are the halves of `submit` and its rollback.
The job and outbox steps before `Score` are in the modules below: here any
stored assessment may be scored at any time and any number of times, which is
what they allow.

### AssessmentJobs

`jobs` are the rows, `stored` the assessments, `scored` the jobs `score` was
called for, `worker[w]` where thread `w` is and the row its transaction has
read. `Begin` takes a transaction's snapshot; `FindOrCreateJob`, `MarkRunning`,
`MarkFairnessStatus`, `SaveAssessment` and `MarkFailed` are its commit. Between
them the log of the run is written, in transactions of its own: `Report` is the
last of these, of a blocked duplicate as of a scored job. `Throw` is an exception
once there is a job, after any of the commits, and the catch block marks the job
FAILED; `ThrowBefore` one before; `Crash` a thread that stops.

### DomainOutbox

`row` is the table, `batch[w]` the rest of the list instance `w` iterates over,
`held[w]` the row it has loaded; `sends` counts the copies handed to the broker,
`gone` those that left it, `dropped` are the events of which a copy got lost or
was rejected, `handled` those a listener handled. `Poll`, `Load`,
`Send`/`SendFails`, `SaveSent`/`SaveSentFails`
and `SaveFailed` are the calls of `dispatchOne` one by one. `Send` is a call that
returned, which says nothing of the broker: `Lose` is a copy that does not arrive.
`Handle`,
`HandleUnacked` and `Reject` are the ends of a listener; `DueLists` are the lists that
the query of a poll can return. Its promise,
`EventDelivery`, is a relation between the sets of published, handed over,
handled, dropped, announced and parked events.

### DeviceBinding

`rows` is the table; `late` the codes past ten minutes; `web[p]`, `server[c]` and
`check[c]` the open transactions of the pages of the account, of the clients' binds
and of status calls with their tokens, with what they have read;
`client[c]` the command a client is in; `files[c]` its two files; `lost` counts
lost replies and stopped commands, `opened` the requests of pages and status calls.
A page waits for its request, and a client is in one command at a time: its two
files have no lock, but no process starts the commands by itself.
`races` records that two binds were open together, or that a status call put a
row back that was no longer active.

### EventCatalog

`events` are the rows (review status, expired), `overdue` events that ended,
`open[t]` a transaction and the rows it read, `analyses` and `changes` the
messages, `consumer` the index message being handled, `index` the events in the
index. `Commit` writes back what a transaction changed and sends what the
operation sends; its operations differ by `StatusAfter` and `MessageOf`.

### ProfileSnapshots

`sources[u]` counts the changes of what a profile is computed from, so a
profile is the number of changes it has seen; `changing` and `reading` are open
business transactions and refreshes; `messages` the refresh messages.
`ChangeChallenges` are the changes that mark nothing and send nothing, `missed`
the users whose stored profile does not know of one.

### Bookings

`booking` and `challenge` are the rows of one event and one challenge, `items`
and `records` the schedule entries and achievement records that come of them
and of imported plans, `codes` what Redis holds. A request in `requests` has the
snapshot it began with; what it writes to Redis it writes before its commit.
Its `number` is that of a code, an entry or a record, its `note` a reflection.
`BeginReserve`, `BeginScan`, ... are the requests, `CommitReserve`,
`ScanComplete`, `CommitChallenge` and `CommitItem` their commits, `Fail` the
rollback.

### GrowthTags

`tags` and `evidences` are the two tables, keyed by name and by name and record,
`work` the transactions. `BeginExtraction`, `Rebuild` and `MarkMilestone` compute
rows from their snapshot, `Commit` writes those that changed; unique keys and
foreign keys refuse some pairs of them (`Accepted`). `Candidates` is what the
model or the rules may find in an experience, `Aggregate` what is shown of a tag.

### CoachReviews

`talked` and `lastReply` are the messages of a day in short, `logs` and
`reviews` the tables by date, `talks` the open transactions. A talk may ask
about a memory whose day has come, and a log is made in a talk or on request.
`Intervals` are the days between two uses, `Named` the days a request may name.

### AbilityClusters

`abilities` is a list of labels in the order of their scores. `Similarity`,
`AverageLinkage` and `ClustersOf` are the calculation of
`AbilityHacClusteringService` in integers; the only action, `Rescored`, adds a
label or exchanges two, so TLC looks at every list.

### PipelineLock and TrackerLock

`at[p]` is the program counter of `acquirePipelineLock` and of the release,
`dir` and `guard` the two directories, `judged` who has looked at the directory
that is there now (a directory removed and made again is another one). Each
action is one call of the file system with what the code does on its answer.
`TrackerLock` puts `openTrackerTransaction` (`TakeLock` and what follows) on the
lock of `tracker-utils.mjs`,
which is this protocol without the second look and the reading back of the stamp
(`Confirms = FALSE`): `table` is the set of the changes the file holds, `seen`
what a writer has read, `told` who reported success.

### Tracker

`rows` is the table in file order, `sentinels` and `reports` the files that
take a number, `workers` who has reserved or written what, `pending` and
`archived` the addition files. `Merge` applies the pending additions in their
order, by number, by role, by URL or as a new row, and may stop before it moves
them; `Dedup`, `SetStatus`, `AddRow` and `Collect`, which removes an old
reservation, are one step each, as they run under the lock.

### Statuses and Cadence

In `Statuses`, `stage` is how far an application has come, `sheet`, `ledger` and
`log` the three files, `reply` a mail that `invite-match` has read. `SetStatus`
and `ApplyRejectionStatus` are the two writers with their selectors; `Reached`,
`EverByLedger`, `MatchInterviewRow` and `Verdict` are what `stats` and
`tracker-sync-check` make of the files. In `Cadence`, `notes` are the lines of
`follow-ups.md` in file order and `Report` is what the tool prints of one
application; days pass and the user writes.

### ContractImport, SkillRuntime

`import[p]` is what process `p` has read and the calls it has yet to make, in
the order of the code: copies of what it overwrites, the package, the document.
Any of them can be refused, and any process can stop. `SkillRuntime` runs this
tool from a plan: `record` is the run record, `run[p]` where a run is. A failed
record tells its error as it came (`ErrorsOf`), also where no reader takes it.

### ArtifactChain

`package[k]` is the installed package of each kind with the hashes it names,
`document[k]` the text beside it. `ImportEvidence` to `ImportFeedback` install
one package after the checks of its tool (`ImportFinal` with the sections of
`cv.md`, `ImportLibrary` with any text as that of the current version), the user
edits and removes files, and
`AuditState`, `InspectFinal`, `InspectRender` and `InspectFeedback` are what the
tools report.

### CompanyOpportunity

`opportunity[o]` is the installed package, `tracker` the rows, `mutated` and
`mounted` the recorded plans, `drafts` the plans a user has confirmed. `Import`,
`Mutate` and `Mount` run under the tracker's lock and may die between their two
writes; the user edits rows and removes files.

### SyncQueue and SyncUnit

`queue` is the file, `loaded[c]` the copy a command works on. `Load` reads;
`enqueue`, `retry`, `cancel`, `mark` and `reconfirm` change the copy, check the
limits and replace the file; `Refuse` is every way to end without writing.
`SyncUnit` is what travels: `preview` what a user was shown, `sent` the units,
`known` what a device last saw, `cloud` what the classifications make of them,
`became` the pairs of a snapshot and the one that took its place. `OnOneBasis`
says that no two snapshots were built on the same one.

### AddEntry, Assessments

`AddEntry` has the lines of `cvLines` and `digestLines`, and in `adding` what a run has
yet to write. `Assessments` has a `job` and a `check` that the user revises;
`MatchScore`, `RecommendationStars` and `Conclusion` are calculated from them.

### ProviderFetch, BoardSweep

`request[r]` is the attempt a request is at, `cache`, `inflight`, `lookups` and
`tokens` are the maps and the queue of `_dns-cache.mjs`; an action is what runs
between two callbacks. `BoardSweep` has the `board` as the portal shows it and
the loops of one provider in `sweep`; postings come, go and are put in front
between two requests, and an answer may leave out the postings or the total
(`Blips`). `CutShort` says why a keyword that ended there was read in part.

### The frontend

`Session`: `stored` is what the tabs share, `session[b]` the copy of a tab,
`calls` the calls with the token they carry and, once served, their answer.
`Resumes`: `lines` the store, `editor` the dialog, `library` the file; a file
that was picked may be imported when the editor is open (`ImportFile`). `ResumeSelection`: `content`, `range` and
`advice`. `AgentConsole`: `waiting` texts, `plans`, `tree`. `DevicePanel`:
`device` at the backend, `shown` and `code` on the page, `lists` the answers on
their way. `JudgePage`, `WeekPlan` and `EventsPage` have each the rows of the
backend, what the page holds of them, the dialog, the flags of the buttons, and
`judgeCalls`, `weekCalls` or `eventsCalls`: a call is made by the page, served by the backend in one step and
answered in a later one, in any order; it can be refused, or its answer lost. The
views of the last three (`StudentAchievementsView`, `StudentScheduleView`,
`StudentEventsView`) are in the source and work on the same backend, but as the
router stands (`router/index.ts:5` and 62) no route leads to them and nothing
mounts them: their paths redirect to other pages.

## 3. Modelling decisions

- **Contents are values.** Two equal contents have equal hashes, so a content is
  its hash, fingerprint and idempotency key. No hash collides.
- **Arithmetic of the calculator.** A content has a set of verdicts (a gain and a
  status), chosen on each scoring; experience, ability and uncertainty are
  rebased and replaced together by the code and are one number, `score`. The
  ranks come from floors of the score as in `AbilityScoringPolicyV2`.
- **`Score` is one step.** Two calls of `score` that overlap meet in the version
  of the state row or in a unique key, and the later one rolls back and is
  delivered again; what remains is one after the other. `submit` is different:
  it waits for the model in between, so its reads and its commit are two steps,
  its commit checks the versions of the rows it writes, and the result row,
  which has no version, is overwritten whatever has become of it.
- **Transactions of the other services** have no version column to meet in: a
  transaction works on the snapshot it began with (the database's default
  isolation, which the configuration does not change), and its commit writes
  whole rows. Hibernate does not write a row that did not change;
  the modules have that too. `bind` locks the row of its code from its first
  read, so others wait for it there. What a unique key or a foreign key refuses
  rolls the transaction back. Redis is written at the moment of the call and is
  not rolled back.
- **History variables.** `astray`, `crossed`, `missed`, `races`, `disturbed`, `overlapped`,
  `blurred`, `doubts`, `hazy` and their like record that a row was written by a transaction
  that had not read it as it was, that calls of one thing overlapped, or that an
  answer was lost. The invariants say what holds of everything else; section 7
  says what the exceptions mean. Each exception is as narrow as the code allows:
  it names the row, source, file or entry concerned, and ends where the code
  repairs it (a refresh, a rebuild, a load).
- **The lock's clock.** An unstamped directory gets old unless its maker is just
  about to stamp it: a running process takes less than the grace period (a
  second at least) for two calls of the file system. A behaviour has processes
  that die or calls the file system refuses, not both: with both, or with two
  deaths of which one is in the recovery, exclusion is lost (section 7).
- **Under the tracker's lock** a whole command is one step, as `TrackerLock`
  checks that it may be; what is read before the lock is taken (a mail's row,
  the job analysis, the contract) is a step before it. A command that may stop
  between two files has both outcomes.
- **An import** is the sequence of its calls of the file system. In
  `ArtifactChain` and `CompanyOpportunity` it is one step, and what remains of an
  import that stops is an outcome of its own where it matters (`cut`, a package
  without a row).
- **Pages.** JavaScript runs one callback at a time, so what runs between two
  awaits is one step. A call is served by the backend in one step and answered in
  a later one. A call that fails before it had an effect leaves what no call
  would leave, and so is a step of its own only where the page reacts to it.
  Buttons that a page disables are guards.
- **The coach** lets no request last over midnight, and of the talks of a day
  only the last answer matters.
- **Numbers.** `Assessments` calculates in ten-thousandths and thousandths; the
  sums of doubles that come out below a bound they are equal to are listed in
  `Short`. `AbilityClusters` calculates similarities in ten-thousandths, with
  an integer square root; a label's pairs of letters go with its words.
- **A device's `status` call** is made by no client of the repository; it is an
  endpoint all the same, and a client may make it with the token of its file.
- **One write of a small file** (`writeFileSync` in `add-entry.mjs:261` and 265)
  is one step; the two of a run are two.
- **Two titles of one role** (`SameRole` of `Tracker`) is a relation of the instance;
  the guards of `merge-tracker.mjs:1223` on requisition numbers and channels are part
  of what it relates.
- **The calls of the model, the broker, the index, the resolver and the file
  system** are choices between their outcomes.

## 4. Runs

All bounds are CONSTANTS in the `.cfg` files, or constants given in the INSTANCE
of an MC module. In the runs marked * the system may stop (every event settled,
every code used, every command done), so deadlock is no error there.

| run | instance | distinct states | shows |
|---|---|---|---|
| ScoresTimeline | 2 records × 2 contents, 1 ability, 1 submission; each content may be flagged | 25,973 | `NoDoubleCredit`, `ScoreIsChained`, `RankIsEarned`, `ReplayIsJustified`, the inductive invariant `IInv`, and the refinement `ImplementsCreditLedger` |
| ScoresJudges | 2 records, 1 content, 2 abilities, 2 submissions at once, all results flagged | 198,644 | `FlaggedNeedsPass`, `ConfidenceIsAccounted`, `DecisionIsFinal` |
| JobsRace | 2 threads on 2 records that can have the same content; 1 stop, on one record only | 527,122 | `JobsAreServed`, `DuplicateStaysBlocked`; under fairness `OpenJobIsFinished` |
| OutboxPair * | 2 events in one batch, 2 instances, 2 attempts, 1 crash or failed save, 1 copy lost or rejected | 544,023 | `DuplicatesNeedFaults`, the refinement `ImplementsDelivery` with its liveness |
| Backend * | 7 scenes, below | 1,749,551 | `TablesAgree`, `DerivedIsCurrent`, `MapIsSound`, `RevokedIsFinal` |
| CommandLine * | 20 scenes, below | 1,184,750 | `Consistent`, `TombstonesAreKept`, `MutualExclusion`, `NothingIsHidden`, `ChainIsSound`, `OpportunitiesAreKept`, `EntriesAreKept`, `UserFilesAreTrue`, `CloudIsTrue`, `FetchIsFair`, `SweepIsTrue`; under fairness `LockIsRecovered`, `RequestsEnd` |
| WebApp * | 8 scenes, below | 1,625,255 | `PagesAreTrue`, `ExportIsTrue`, `VersionsAreKept` |
| OneActiveResult, PassNeverDemotes, JobsTwoRecords, LockTwoDeaths, RetryIsAllowed | as small as the behaviour allows | till the first violation | each refutes one statement of the repository's documents or comments, section 7 |

The modules are `MCAbilityScores` for the two Scores runs, OneActiveResult and
PassNeverDemotes, `MCAssessmentJobs` for the Jobs runs, `DomainOutbox`
itself for OutboxPair, `MCBackend` and `MCWebApp` for the runs of these names, and `MCCommandLine` for
CommandLine, LockTwoDeaths and RetryIsAllowed; the `.cfg` has the run's name,
that of JobsTwoRecords is `ContentCountsOnce.cfg`.

Backend, CommandLine and WebApp are sums: their components share neither state
nor calls, so the variable `scene` picks the one a behaviour plays and the
variables of the others keep their initial values. Every state and step of each
component is in the run; no step of one is checked against a state of another,
because there is nothing they could do to each other. A property of such a run
that has one conjunct a scene has one mutant a scene.

| scene | instance | property |
|---|---|---|
| devices | 2 clients, 2 pages, 2 codes, 1 active device, 1 loss, 4 page requests or status calls | `BindingsMatchDevices`, `RevokedIsFinal` |
| events | 1 event, a request thread, listener and scheduler | `IndexHasNoHidden` |
| profiles | 1 user, 2 requests, listener and job, 3 changes, each with or without a mark | `CleanIsCurrent` |
| bookings | 1 event, 1 challenge, 2 callers, 5 requests, 3 entries, 3 records, 2 codes | `BookingsFit` |
| tags | 2 workers, 3 transactions, 2 tags, 2 records | `TagsAddUp` |
| coach | 2 callers, 4 requests, 5 days | `MemoriesAreSpaced` |
| map | every list of up to 4 of 9 labels | `MapIsSound` |
| queue | an opportunity and a trace with 2 contents, 5 audited commands | `Consistent`, `TombstonesAreKept` |
| two commands | an opportunity, 2 contents, 2 commands at once, 5 audited | the same |
| lock | 3 processes, 2 deaths or 2 refused calls | `MutualExclusion`, `LockIsRecovered` |
| writers | 3 writers of the table, 1 death, 1 refused call | `NoUpdateIsLost` |
| two imports, one import | 2 at once; 1 that may die while the user edits | `OverwrittenIsKept` |
| skill | 1 process, 2 contents, 1 death, 1 exchange of the contract | `RecordIsTrue` |
| chain | all nine kinds in six partial chains, 5 imports, 1 accident; a version is `cv.md` or another text | `ReadyIsGrounded`, `NoOrphanSections` |
| rows, nodes | 2 opportunities with 2 identities; 1 with three lists of nodes, a mutation and a mount; 4 commands, 1 death | `RowsFollowPackages`, `MountsAreKept` |
| table | 3 postings, 3 evaluations with scores 1 or 2, 1 worker, 1 stop | `NumbersAreUnique`, `EvaluationsLand`, `ApplicationsAreKept` |
| numbers | 2 workers, 2 evaluations, 1 added row, 1 stop, 1 expiry | the same |
| statuses | 3 applications, 5 steps | `StatusReachesItsRow`, `FunnelIsTrue`, `StaleIsNamed` |
| cadence | days 0 to 3, 3 notes | `DueIsShown`, `LastWordCounts` |
| units | 2 devices, 3 units, 1 deletion, 1 damaged file | `SnapshotsFormAChain`, `ShownWasConfirmed` |
| lookups | 3 requests, 2 names, 1 token, 1 cached entry | `FetchIsFair`, `RequestsEnd` |
| board | 4 postings, 2 keywords, pages of 1, 2 moves, 3 answers without postings or total | `SweepIsTrue` |
| entries | 2 payloads, 4 runs, 2 edits | `EntriesAreKept` |
| analysis, fraud check | every analysis of up to 2 must-haves; all signs | `BetterIsNotWorse`, `SignsAddUp`, parts of `UserFilesAreTrue` |
| resumes | 7 commands, 4 files to import | `ExportIsTrue`, `VersionsAreKept` |
| panel | 2 devices, 2 lists on their way, 2 visits | `AnnouncedOnce` |
| console | 3 texts, 3 stages, 2 changes by hand | `AnswersFit` |
| session | 2 tabs, 2 accounts, 2 tokens, 2 calls | `SessionFits` |
| selection | a draft of 2 headings and 2 equal lines, 1 edit | `AdviceFits` |
| judges | 2 judges, 4 calls, 2 at once | `JudgesFit`, `EvidenceFits` |
| week | 2 entries, 2 times, 4 calls, 2 at once | `WeekIsTrue` |
| events (page) | 2 events, 2 filters that are searched with or only typed, 5 calls, 2 at once | `EventsFit` |

Why the bounds are enough to meet the interesting cases:

- Scores: a correction needs two contents; a correction that must be left to a
  replay needs a second record scored in between; a judge that is overtaken
  needs a correction or a second result while it is open. Two records with two
  contents have all of them, the timeline grows to four results, and with four
  results the ranks reach the judged ones. Conflicts of versions need two
  submissions; two abilities share one profile. The theorems of section 6
  remove these bounds.
- Jobs: what two threads can do to one row, or to the rows of two records with
  one content, needs no third; a stop can come at every step of either thread.
- Outbox: two events leave a batch half done; two attempts show a retry and a
  parked row; two instances hold the same row; of the two events one loses a copy
  and the other does not.
- Devices: two clients compete for one code and for the limit of one; two pages
  make two codes that are pending at once, or revoke what the other has read; a
  status call before and after a revoke; the second code replaces a binding. Four
  requests are two of each kind.
- Events: a message overtaken by a later one, one delivered twice, a listener's
  analysis across a manual review or an expiry: all of them concern one event,
  and nothing in the code relates two.
- Profiles, bookings, tags, coach: a change while another transaction runs, and
  one after it. A booking is made, given up, made again and scanned with an old
  code in four requests, the fifth overlaps one of them; a tag loses its last
  evidence to one of two extractions and is made again by the third; a memory
  made on day 0 is asked for on days 1 and 4, its first two intervals.
- Map: four labels are the fewest at which two clusters of two can meet.
- Locks: one process to hold, one to recover, one to arrive; the violation with
  two deaths needs a fourth.
- Imports: two processes cross anywhere; the copies that are kept outnumber the
  imports that can stop or run at once, as the ten of the code do in practice.
- Chain: a package, one bound to it, its replacement and the re-import of the
  dependent one are four imports; two sections let plans differ in them.
- Opportunities: two ids with one identity, a mount drawn up before its node is
  taken out, and a death between package and row fit in four commands.
- Tracker: two postings of one role, a third with another URL, and a title that
  matches not even itself meet all four rules of the merge; the second
  evaluation has a higher, equal or lower score than the first; a stop leaves
  additions merged but not moved. A row with a number from elsewhere needs
  another worker to reserve it.
- Statuses: a row chosen, removed, and its number given to another are three
  steps, and the status that goes astray the fourth.
- Cadence: the periods are shortened to 1 or 2 days, so four days pass every
  boundary on both sides, with a pin, a retirement and a follow-up on any of them.
- Queue and units: a tombstone of one content and an entry of another of the
  same object, conflict and deletion, cancel and re-entry fit in five commands,
  and a tombstone that is put between the load and the write of another command in
  two (there an upload is not played, as nothing new overlaps);
  a snapshot, one built upon it and one that did not know of it are three.
- Lookups and boards: with one token and one cache entry everything waits for
  everything; the answer to an attempt that is over meets its retry; a posting
  can cross the border of a page in both directions.
- Pages: two objects, so that an answer can meet the dialog of the other; two
  calls at once, as buttons allow no more of one kind; four or five calls leave
  two to repair what two have crossed.

`SYMMETRY` is declared over records, abilities, requests, clients or processes
where they are interchangeable, and only in runs without liveness properties.

## 5. Fairness

| module | assumed | because |
|---|---|---|
| `DomainOutbox` | weak fairness of all of these together (`Progress`): `Poll` and the calls of a dispatcher, the backoff, the listeners | the scheduler runs every five seconds, calls of broker and database return, time passes, containers consume; attempts, sends and copies run out, so going on with one cannot starve another for ever |
| `AssessmentJobs` | weak fairness of each running thread | model calls have a timeout and transactions end; nothing restarts a stopped thread, so the property excepts it |
| `PipelineLock` | weak fairness of each living process and of the ageing of directories | a process in a critical section of the toolkit leaves it; commands are run again; time passes |
| `ProviderFetch` | weak fairness of the callbacks together (`Progress`) | the event loop runs, timers fire, and the resolver answers, with a failure at the latest |

All other modules assume none: users, editors and commands need not come back,
and their properties are safety. Nothing assumes strong fairness.

## 6. Proofs

Six modules hold theorems, each of which TLAPS checks to the last leaf. The
constants are arbitrary -- any number of users, events, devices, threads,
processes, codes and bounds -- up to these assumptions, which TLC evaluates on
the runs:

| assumption | module | says |
|---|---|---|
| `VerdictsAssumption`, `FloorsAssumption`, `ConfidenceAssumption` | `AbilityScores` | a gain is positive; the five floors and the confidence bounds are natural numbers |
| `LegacyAssumption`, `FaultsAssumption` | `AssessmentJobs` | old jobs are jobs; the bound of stops is a number |
| `EventsAssumption`, `AttemptsAssumption`, `BoundsAssumption` | `DomainOutbox` | ids of events are numbers; there is at least one attempt, and a batch of one |
| `BoundsAssumption` | `DeviceBinding` | the limits of codes, active devices and losses are numbers |
| `BackendBounds` | `MCBackend` | the limits are numbers, records are finitely many, candidates are functions from names to findings, intervals a list of numbers that is not empty |
| `ProcessesAssumption`, `CrashesAssumption`, `RefusalsAssumption` | `PipelineLock` | processes are finitely many; the bounds are numbers |
| `LimitsAssumption` | `SyncQueue` | the limits of the queue are numbers |
| `SummariesAssumption` | `SyncUnit` | there is a summary |
| `TextsAssumption` | `ArtifactChain` | what is written by hand, twice or missing is no material and no package |
| `RolesAssumption` | `Session` | an account is a student's or a social one |
| `FetchAssumption` | `ProviderFetch` | tokens, ticks, entries, attempts and times to live are numbers, and each request has a name |
| `PayloadsAssumption` | `AddEntry` | the key of an entry is a spelling of its name; "nothing" is no payload and no file |
| `BoardAssumption` | `BoardSweep` | postings are finitely many; there is a keyword, a page, and a place on it |
| `DeliveredAssumption`, `ForeignAssumption` | `Resumes` | a line delivered with the page, or found in a file, has its type |
| `StagesAssumption` | `AgentConsole` | the first stages are numbered from 1 |
| `DraftsAssumption` | `ResumeSelection` | drafts are sequences of pieces, and pieces are typed |
| `JudgesAssumption`, `WeekAssumption`, `EventsAssumption` | `JudgePage`, `WeekPlan`, `EventsPage` | there is a judge; an entry, a call, a text and a time; an event and a filter |
| `None...Assumption`, `NilAssumption`, `NoSessionAssumption`, `NoDirAssumption`, `NoRowAssumption` | each | "nothing" is no row, entry, message, session or transaction |

Five groups of theorems have a hypothesis of their own:

- what is proved of the lock asks for `MaxCrashes <= 1`: LockTwoDeaths shows two
  processes in the critical section after two deaths;
- what is proved of open jobs and of duplicates for `NoLegacy`, section
  "Assessment jobs";
- the second half of `CloudTrue` for `OnOneBasis`, section "Sync units";
- what is proved of imports for `BackupsSuffice`: more copies are kept than there
  are processes and stopped imports. With fewer, the last copy of a text is
  dropped while its successor is being written;
- `RecordsAreApart` and `CompanyIdsAreApart` say of values that "nothing" is none
  of them, that the plan which is only recorded is no contract, and that the first
  status is a status. They quantify over everything, so TLC cannot evaluate them
  and they are hypotheses, not assumptions.

### Ability scores

`NoDoubleCredit` and `ScoreIsChained` are not inductive: that the result a
correction replaces is the last of the timeline, and that no earlier result of
its record is still in force, follows from how the timeline came to be.
`IInv` says it of each timeline:

- the newest result is never superseded, and a record with a result keeps an
  active one (so "no active result of this record" means it was never scored);
- a correction replaces the result just before it, of its own record, and all
  results of a record but the last are replaced (`ReplacesPrevious`,
  `ReplacedByNext`);
- each result starts from where the last result before it that is not replaced
  ended, the first from 0 (`Chained`), and the score is the end of the last;
- a rank from DEVELOPING up -- of the state, or stored with a result as the one
  to start from -- was proposed by a result whose judge passed (`Earned`);
- an open submission holds the row that is current while its version is the
  current one (`HasRead`), so what a judge writes back is what is there.

A step changes a timeline in one of two ways, and a lemma each carries the
chain over: results keep who they are of, what they replace and where they start
and end while status and judge move (`KeptIsChained`), or one result is appended
and the one it replaces superseded (`GrownIsChained`). The lemmas `WriteStep`,
`ReuseStep`, `StartSteps` and `CommitSteps` show each action to be one of the
two, `EarnedPersists` that an earned rank stays earned. From `Spec => []IInv`
(`Invariance`) follow `TypeCorrect`, `CreditedOnce`, `Chain` and
`RanksAreEarned`; the action properties `Finality` and `Replays` use it at
every step.

`FlaggedNeedsPass` is inductive once it is known that no step but a commit of
`submit` decides (`OnlyCommitsDecide`) and that a correction takes its fresh
status from its own verdict. `ConfidenceIsAccounted` needs `ConfidenceInv`: an
open submission has read either the current profile or one with a smaller
version (so its commit is refused unless it would write back what it read), and
what it has read lies within what the decisions made by now account for -- that
bound is what keeps a submission that read an old profile away from the clamp,
where it would write nothing and its version would not be checked.

`ScoresAreLedger` is the refinement. The mapping calculates the credit of a
record from the results that no other replaces; that a step of a timeline is a
step of the ledger follows from the two ways a timeline moves: results that are
kept keep all credits, and an appended one gives its record a new credit or
replaces the one of the newest record. What the ledger needs beside `IInv` is
that each result adds up (`SumsUp`: its end is its start and its gain).

### Assessment jobs

Threads write whole rows that they read earlier, so the invariants speak of the
rows in their hands as of those in the table. `SoundInv`: a thread past its
first transaction has a job that is there, and a row that says COMPLETED has its
assessment, in the table or in a thread's hands. It needs nothing else, so
`CompletedIsStored` holds with jobs that are older than the fingerprint column.

`ClearInv` is for tables without those. A settled row has its fingerprint and a
duplicate waits for its review; a row in a thread's hands says of duplicates
what the table says (`ThreadIsClear`); an open job has a thread that will write
its end, unless a thread stopped (`OpenIsAttended`), and duplicates are not open,
whatever a failing log makes of their status. It is inductive because no
step makes a duplicate of a job that was none, or the reverse (`Steady`): that is
decided when the row is inserted. Of a legacy job it is decided later, by each of
two threads for itself, and then neither `JobsAreServed` nor
`DuplicateStaysBlocked` holds -- hence `NoLegacy` (and `Legacy = {}` in the run).

### Outbox

`OutboxInv`: what is dispatched was published, and was open when it was loaded;
a row that says SENT is of an event that was handed to the broker; and while one instance
is running, the row in its hands is the one in the table, and an event was sent
at most once more than there were faults. The last is the inductive form of
`DuplicatesNeedFaults` (`ResendsNeedFaults`), and it needs the phase of the row
that is held: after a call that returned and before the save the count is one
ahead of the table. It counts what is handed over, not what listeners make of it.

`OutboxDelivers` shows every step of the outbox to be a step of `EventDelivery`
or a stutter: a table that is written by a second instance from a row it loaded
earlier takes a settled event back, which the abstract specification permits
while instances overlap, and only then. A copy is handled or dropped only if it was
handed over; that what was handed over is handled or dropped in the end, and that
nothing more can be promised, is in the fairness part, which is
checked by OutboxPair.

### Device binding

Nothing keeps the rules but reads made earlier in a transaction and the lock on
the row of a code. `BindingInv` says what these are good for:

- codes are given out in order (`CodesAreDense`), several may be pending;
- what a page will write ends a device, whatever the row is by then, and what a
  status call will write is the row as it is or as it was while it was active
  (`PagesAreSound`, `ChecksAreSound`): all status calls of a device have read the
  same, as a row is bound once;
- two binds are never of one code. One that is open has read every active device
  of its installation, unless a status call brought one back, and leaves room for
  its own, unless it is not alone (`BindsAreSound`), although revocations go on
  beside it;
- a token is in one client's hands, of a code that was bound and whose row names
  the client's installation (`TokensAreOwn`, `DevicesFit`), through the files, the
  reply and the credential that is being replaced, and so do the copies of the row
  in transactions;
- a command is at a place that its file allows (`CommandsAreSound`).

`BindingsMatch` and `RevokedFinal` follow. That at most `MaxActive` are active is
a fact about cardinalities of sets that lose and gain elements; the lemmas about
them are those of the library.

### Services of the backend

`BackendProofs` is about `MCBackend`, so about the composition. `MCSpec => Spec`
(`BackendBindsDevices`) carries the theorems about devices over. For the others
the invariant of all is `ServicesInv`, the conjunction of those of each; a
step of the whole is a step of one service and leaves the rows of the others
alone.

- *Events* (`HiddenIsCured`). That the index has no hidden event once messages
  are settled is not inductive. It is: if something is in the index, or may yet
  be put there -- by the message that is handled, or a reindexing that has read
  it -- and may not be seen, then an index message, a handler that takes it out or
  an analysis that will end with a message is on its way. Each transaction that
  hides an event sends the message with the row, so the cure comes with the
  illness.
- *Profiles* (`CleanIsCurrent`) is inductive: the exception names the users whose
  row was refreshed over a change, and ends with the next refresh that writes the
  row, and those with a change that marked nothing. One that finds nothing to write
  leaves the exception as it is: the first
  attempt at this proof failed where the module had it end there too (section 7).
- *Bookings* (`BookingsInv`). A transaction is proved sound against the rows as
  they are when it commits: what it read is still there (`Stays`), and if it had
  its source for itself, it is as it was (`HasForItself`). A reservation inserts
  its row once (`InsertsAlone`), so entries and records are made once; a code that
  Redis holds is the booking's or that of a reservation about to commit
  (`CodesFit`).
- *Tags* (`TagsInv`). The rows a transaction made add up for themselves, unless
  transactions overlapped; one that runs alone read what is there. Evidence is
  never without its tag (`Rooted`), also where transactions overlap: that rests
  on what the foreign keys refuse (`Accepted`).
- *Coach* (`CoachInv`). A talk commits rows that follow from those it read
  (`Follows`: each memory is as it was, used once, or new); rows that were there
  still are (`Present`), so a commit inserts or overwrites but never loses; and
  an overwritten row is excepted. A memory counts its uses, and its next day is
  the interval after the last (`Spaced`).

### Lock and transactions

`LockInv` is that of the protocol for any number of processes, with at most one
death or any number of refused calls (`OneFailure`, the choice of section 3):
the stamp names who believes to hold the directory, and a directory without a
stamp belongs to its maker (`DirectoriesAreOwned`); one without an owner at work
is a dead one's (`KeepersAreAtWork`); a process that is about to remove the
directory has a dead one's in front of it, and while there may be such a one the
guard keeps recoveries apart (`RecoveriesAreOrderly`). With it `MutualExclusion`
holds for both versions of the code, with and without the second look
(`OneWriterAtATime`). A second death, in the recovery, breaks the last part.

`TransactionInv` adds what a writer has read while it holds the lock: it is the
table. So a change that was reported is in every later table (`NoUpdateLost`),
also when a temporary file is left or a rename refused.

### Sync queue

`Consistent` is about the file, but a command writes a copy it loaded earlier,
with other commands in between. The invariant `IInv` asks the same of every
copy: each loaded copy was the file once and is good. That makes the argument
sequential: every command maps a good queue to a good queue
(`EnqueueIsGood`, `MoveIsGood`, `CancelIsGood`, `DeletionIsGood`,
`MarkIsGood`, `RetryIsGood`), and it does not matter which copy it had. So
`QueueConsistent` holds for any number of commands that overwrite each other's
result. `TombstonesStay` says what they do to each other: a command keeps the
tombstones of the copy it had (`CommandsKeepTombstones`), so one that goes was not
in that copy. For one command at a time that is none.

### Sync units

`SnapshotsFormAChain` speaks of accepted snapshots; `UnitInv` adds that every
step of the chain is that of a unit that was sent, which says what it was built
on, that the chain ends in what is shown, and that nobody has built upon what is
shown (`ChainGrowsAtItsEnd`). The last is true under `OnOneBasis` only: a user
who chooses the content of before once more makes it current a second time, and
what was built upon it the first time is accepted then. `CloudTrue` states both
parts for any number of devices, units, deletions and damaged files.

### Imports and runs

That a text is still in a backup is not inductive, as copies go on being made and
the oldest go. `ImportInv` counts: whoever has made its copy of a file and has yet
to write it has the file's text as the newest copy (`CopyIsNewest`), and the text
that was overwritten last is at most as many places from the newest copy as
importers have copied since, plus those that were stopped before they wrote
(`ReplacedIsNear`). Files that two imports wrote in between each other are
`crossed` and excepted. A plan of calls is a sequence of distinct calls with the
copies first (`PlanIsOrdered`, `TailIsOrdered`); that is all of its order the
proof uses. With `BackupsSuffice` the distance is smaller than the number of
copies (`NearIsKept`).

`RunInv`: as long as contract, record and targets are not changed under a run, it
is the only one, its contract is the approved one, its record says "prepared"
from before the first target changes, and a target that the tool has no call left
for has the approved content. The last makes the fingerprints taken after the
tool those of the plan (`RecordsAreTrue`). A record can be read again, as each
is of one of the kinds a run writes (`RecordFits`); the one exception, a failure
whose error no reader takes, is by its status. `NothingHides` is both together: a run
works by imports, so its steps are theirs, or leave the files alone.

### The chain

`ChainInv` is small: `NoOrphanSections` is inductive once the types are, because a
plan that is imported writes all of its sections or is `cut`. The work is in
`ReadyRestsOnFiles`: what `auditState` calls ready has every package of its chain
there and each bound to the one in front of it, and that the text of its version
is word for word the document: an import takes any text, so that is the work of
the audit. `worst` is a `CHOOSE` over
states in order of severity; `WorstOf` says what it gives. Then `ReadyIsSound`
holds of every state with the right types, for any packages, materials and sections
and for every set of kinds in the chain.

### Opportunities

Package and row are written one after the other, and a death between them leaves
a package without a row. The import that finds it writes the row anew, with the
status of the package. That this is the status an import took over from
the row last is `LostStatusIsKept`: without a row, no one else can have set it (what
the user chose after that import went with the row). The lemma
`Imports` goes through the cases of a row found by its mark, by its number or not
at all. Mounts need `MountsHaveDrafts`: a plan number has one draft, so the plan
that is recorded is the one that was applied, and its package is there, unless
its node was taken out since; a merge of lists of nodes keeps the artifacts of
the nodes that stay (`ArtifactsMove`).

### Lookups

`FetchInv` follows each attempt of a request to its answer. An attempt that is on
its way was begun and waits for the lookup of its own name (`AttemptsWereBegun`);
it is on its way once, as one that waits or as one that is being called back
(`OnItsWayOnce`); and a request that looks up a name has its attempt there
(`NobodyIsForgotten`), although attempts that were given up are called back too.
So one lookup serves all who wait for a name, and no one is called twice. That the
resolver is paced needs a count: tokens left and tokens taken since the last tick
are at most the capacity (`TokensAreCounted`). A failure passes soon
(`FailuresPassSoon`): that a name does not exist is not kept, and that a resolver
refused is kept for its own shorter time.

### Sweeps

`SweepIsTrue` says what a finished sweep may have missed. `BoardInv` says it of
one under way: a posting that stayed on the board is `Overlooked` if it was not
found and its keyword is done, or if it stands before the page that is next; and
unless an answer was cut short, there are no more of these than postings were
taken down (`OverlookedForRemovals`). A posting that is published or renewed
moves those behind it down, to pages yet to be read; one that is taken down moves
each up by one place at most, so one comes to stand before the next page. An
empty page is the end because the positions of those that match follow one
another without a gap (`NoneFurther`): were one behind the page, one would be
on it. That is shown with `LeastNumber` and the pigeonhole principle. The code's
second test, the total, needs `TotalIsAhead`, and an answer that told no total is no test.

### Entries

What is written was decided when the files were read, and the files are written
one after the other. `WritesAreDue` says why a run that stops in between can be
repeated: what a run has yet to write is what it would find missing if it read
the files now. That the entry it finds is the one it looks for, however it is
spelled, needs `PayloadsAssumption`. An entry goes to the end of its section, in
front of the next heading, so headings go on parting entries of one name
(`EnteredOnce`), and what a run has told stays under its heading
(`AnsweredIsWritten`).

### The pages

`PageProofs` is about `MCWebApp`, so about the composition. Each page has an
invariant that says what its calls under way will tell when they are answered,
and `PagesInv` is their conjunction; a step of the whole is a step of one page
(`PagesTakeTurns`). `PagesTellTheTruth` follows.

- *Session* (`SessionInv`). An answer to a login is a token of the account that
  was typed (`LoginsFit`); a tab that starts has one call, which asks with the
  token the tab has (`AskedAlone`), so no other answer can show it a page.
- *Devices* (`PanelInv`). A list on its way, and a code just made, is a view of
  the devices as they were: they only go on from pending to active to gone
  (`ViewsWereTrue`). An announced device is past pending, and unless lists overtook
  each other no view on its way is newer and says pending (`AnnouncedIsPast`).
- *Console* (`ConsoleInv`). The texts of an intent are the plans of it, and one
  more while it waits; the evidence is that of the plans approved, no more and no
  less; the tree has as many stages as were made and each of them. Moving a stage
  takes the tree apart and joins it (`Joined`, `PartOf`).
- *Selection* (`SelectionInv`). A replacement on offer was made of the text that
  is in the editor, at one of the places where the selection occurs, since
  everything that changes the text takes the offer back. The code searches for the
  first such place: that there is a first is `LeastNumber`: every set of
  numbers that is not empty has a least. The induction theorems of the library
  take an operator and cannot be used here, so it is proved by the pigeonhole
  principle.
- *Résumés* (`ResumeInv`). Lines and their versions have numbers of their own, and
  those counted out are ahead of them (`LinesAreSound`); a file that was picked,
  damaged or not, brings only fingerprints that are true (`FileIsTrue`), and an
  editor that is open has its line (`EditorFits`), whatever an import that ends
  meanwhile does to the lines. An export is then what it says it is of
  (`ExportsAreTrue`), and each command leaves the versions that were there, for
  it writes into one line or puts others behind them (`VersionsStay`).
- *Judges* (`JudgeInv`). Unless calls for a judge overlapped (`hazy`), the list
  and the dialog agree with the backend or the one call under way carries the
  difference (`StatusesAgree`); the same for milestones and their evidence
  (`MarksAgree`, with `mixed`); all dialogs under way are of the judge opened
  last, or it is said that one strayed (`WantedIsShown`); a flag of a button or a
  "loading" has its call (`OneWaits`, `EvidenceComes`).
- *Week* (`WeekInv`). A call that was alone all the time is the only one
  (`AloneIsAlone`); then the calendar is the backend's, or becomes it with the
  answer (`WeekAfter`, `AnswersAreTrue`).
- *Events* (`EventsInv`). Results, reservations and follows each are in doubt (as
  results are once a location was typed and not searched with) or known: the backend
  has what is shown and what answers under way will add
  (`Untold`), nothing else (`SearchesFit`, `BookingsFit`, `FollowsFit`). The goal
  of a plan is that of its text or of a later one (`GoalsFit`).

### Only model-checked

- Liveness: `LockIsRecovered`, `OpenJobIsFinished`, `RequestsEnd`, the fairness
  part of `ImplementsDelivery`. Liveness and ENABLED are beyond this prover.
- `MapIsSound`, and what the scores of a tag add up to in numbers: folds over
  data, which need induction over the data. What `UserFilesAreTrue` says of
  `Assessments` is arithmetic over divisions by variable numbers, beyond the
  solver.
- `UserFilesAreTrue`, but for the writers of the tracker (`NoUpdateLost`):
  `Tracker`, `Statuses` and `Cadence` sort, filter and fold rows in file order. `SortSeq`, `SelectSeq` and the folds are
  recursive in the library and the prover has no definition of them. `BoardSweep`
  shows the way around: it says by sets and counting what the page of a board is.
- The types of the instances, `ToolsTypeOK` and `WebTypeOK`, as they include those
  of the modules above. Those of the components with theorems are part of
  their invariants.

## 7. Divergences found

### Refuted statements

Each is a run of its own, with the line it contradicts in `PROJECT.json`.

- **OneActiveResult.** A correction supersedes a result whose judge is open;
  the judge passes and makes it active again beside the correction. The score
  is not affected (`NoDoubleCredit` holds).
- **PassNeverDemotes.** The judge of an older result passes after a newer
  promotion was confirmed and writes the older rank over it.
- **ContentCountsOnce.** Two records with the same content, assessed at the same
  moment, do not see each other's job; both are scored.
- **LockTwoDeaths.** The guard of the recovery is itself removed by a verdict
  followed by an `rm`. With one process dead in the critical section and one in
  the recovery, two others recover at once and the second removes a lock that
  the first has taken meanwhile.
- **RetryIsAllowed.** `retry` hands the stored tombstone of the object to a
  classifier that refuses its fields: an opportunity with a tombstone of an
  earlier content cannot be retried.

The rest of this section was met while modelling. The modules do what the code
does; where an invariant would fail for it, it says so in its exception.

### Backend

- *Events and profiles.* The last writer wins on event rows: an analysis that
  ends after a manual rejection puts its own status over it. A refresh of a
  profile that overlaps a change may leave the old profile marked clean. A
  challenge that is created or cancelled changes the number of active ones a
  profile tells and neither marks it dirty nor sends a message
  (`ChallengeService.java:39` and 98, `UserMemoryService.java:163`): a clean profile
  is old with no overlap at all, until something else marks it. A profile left old by an overlap
  stays so when a second refresh, which read the current profile and makes the
  same again, commits after it: Hibernate finds nothing to write. Likewise a
  change that found the row dirty does not mark it again, although a refresh has
  cleaned it meanwhile; only the message it sends repairs that. A
  reindexing may bring back an event that is hidden while it runs.
- *Assessment jobs.* A job that is older than the fingerprint column and is
  assessed again by two threads at once may be opened by one and blocked as a
  duplicate by the other. A duplicate is committed before the log of its run is
  written (`EvidenceAssessmentAgentService.java:105` and 111): if that fails, the
  catch block marks the job FAILED, the next request makes it PENDING, blocks it
  again, and it stays PENDING with nobody serving it. It is not scored. In the same
  way a job that was scored may be marked FAILED by its log, and is assessed again.
- *Devices.* A code generated while an earlier one is being bound may overwrite,
  and so revoke, the device just bound. A status call that has read a device as
  active writes all of its row back (`WorkbenchDeviceService.java:109`): it undoes a
  revoke, a disconnect or a replacement committed in between, with the token, so the
  device is active again, beside the one that replaced it. Two tabs that create a
  code at once leave both pending. Two binds at once each count the active devices
  before the other has committed, and exceed the limit.
- *Outbox.* README.md:292 says no message is lost ("不丢消息"). `dispatchOne`
  gives an event up when its attempts are used up, and a message whose listener
  throws three times is rejected for good, without a dead-letter queue. A row
  becomes SENT when `convertAndSend` has returned. No publisher confirms, returns,
  mandatory flag or channel transaction is configured (`RabbitMqConfig.java:107`,
  `application.yml:28`), so a message that the broker loses, or cannot route, is one
  of a row that says SENT, and it is never sent again.
- *Bookings.* Two rows of an AI plan for one event make every later import of a
  plan throw. A schedule entry can be made for a challenge that was given up. A
  completion that races giving up leaves a given-up challenge with a record. Two
  completions or scans at once leave two records, after which every later one
  throws. Two reservations at once leave a stray code in Redis, which completes a
  later booking. An edit of an entry that overlaps its cancellation makes it
  active again.
- *Growth tags.* Two extractions that each withdraw their record's evidence of
  one tag at once leave the tag without any. Aggregates of overlapping
  transactions stay wrong till the next refresh that is alone. A rebuild loses
  the milestones that were set by hand.
- *Coach.* `generateLog` saves the placeholder ("今天的对话内容还较少") over a
  real log when the day has no messages or the model returns nothing
  (`CoachService.java:109`). A memory counts as used whether or not the model
  asked about it. Two first requests that both make the memory of a log let one
  roll back, with its message.
- *Map.* Two labels without anchors are at most 0.45 alike, below the
  merge-threshold of 0.62 and the 0.50 that `promoteStableCluster` asks for. So
  abilities without an anchor never come together and no anchor is ever
  discovered. The cap of 0.28 for labels of different anchors decides nothing
  between two single abilities. With ties, the clusters depend on the order of
  the scores.

### Tracker, statuses, cadence

- `merge-tracker.mjs:1444` says only the applied additions are moved; skipped
  ones are moved too. Merging again after a stop can add a second row for an
  addition without a URL whose row got a URL meanwhile, though line 1484 says
  additions are merged once. A new evaluation is folded into an unrelated row of
  the company when that row has taken its number.
- `dedup-tracker.mjs`'s `roleMatch` has no guard for different URLs, as
  `merge-tracker.mjs` has. Check 8 of `verify-pipeline.mjs` removes reservations
  older than four hours without asking whether the owner lives.
- `invite-match --apply` calls `set-status` by bare number without `--role`, so
  the guard of `set-status` against the wrong row does not apply: a rejection of
  an application that is not in the tracker is written to the company's only
  row, over an Offer too. Where a row's number is not its report's, `--apply` is
  always refused.
- `Signed` of `states.yml` is not in the lists of `verify-pipeline` and `stats`,
  and `tracker-sync-check` takes it for earlier than Offer. The alias tables of
  `tracker-sync-check` and `verify-pipeline` are Spanish, those of `states.yml`
  Chinese. "Discarded", "SKIP" and "Hired" in the log of interviews are read as
  an interview, so the difference never settles. The funnel of `stats` reads
  labels as they are: an alias, or a rejected row that is later discarded, drops
  out. A row with the number of a removed one inherits its ledger lines.
- `normalize-statuses.mjs` promises to strip dates and strips two Spanish forms.
- *Cadence.* An answered application without follow-up is "waiting" on days
  after its next date. A follow-up with an impossible date counts, revokes pins
  by comparison of text, and leaves the application waiting without a date. By
  the comment at `followup-cadence.mjs:468` a follow-up on its own day ends a
  pin, by the code only one of a later day does. `stats` counts the rows of the table of follow-ups
  only, the cadence the older bullets too.

### Packages, opportunities, sync units

- After materials are replaced, what is bound to the old ones cannot be read,
  and `import --replace` throws, because it validates the installed package too
  (`resume-final.mjs:326`; docs/RESUME_FINAL_CONTRACT.md:120 asks for a new plan
  then, and line 82 lets `--replace` install it).
  The same holds of opportunities after the analysis was replaced.
- An apply that stops between plan and `cv.md` leaves sections of the previous
  plan for ever (docs/RESUME_FINAL_CONTRACT.md:102); the audit does not see
  them. The audit throws on a heading that is twice in `cv.md`.
- docs/SKILL_RUNTIME_CONTRACT.md:198 lets a run of the same plan be resumed; the
  code asks for `--replace` and takes new fingerprints. An error message that is
  empty, of more than 500 characters, or with control characters is written into the
  failed record as it is (`skill-runtime.mjs:1471`) and refused when it is read (911):
  the record is unreadable, and its run id blocked. `RecordIsTrue` excepts this
  record (`ErrorIsRefused`) and no other.
- docs/COMPANY_OPPORTUNITY_CONTRACT.md:68 says that repeating a node plan is
  idempotent; after a mount the recorded plan answers `mutation-conflict`. By
  line 62 an import changes no order or status of existing nodes;
  `import --replace` writes the incoming ones.
- *Sync units.* A confirmation without `confirmedContentHash` is stamped with
  whatever the content is by then. The first snapshot, delivered again after the
  one that superseded it was deleted on the web, is "first" again
  (docs/SYNC_UNIT_CONTRACT.md:171). Two sync queue commands at once keep the
  later one's file, without the tombstones it had not loaded.
- *Weights.* Four combinations of match and evaluation whose weighted sum is
  exactly 0.40 or 0.55 get one star less than the weights of
  docs/JOB_ANALYSIS_CONTRACT.md:89 say, as their sum of doubles is a little less.
  A job with an unmet threshold can still get four stars.

### Scanner

- `scan.mjs:88` destructures the Promise of `loadProviders` and calls
  `resolveProvider` with its arguments in another order, outside of the `try`:
  with a company to track it throws, and nothing is scanned. Its `normalizeUrl`
  drops the query, the only thing by which postings of three providers differ.
- `tencent` and `alibaba` end a keyword, without a warning, after the page whose
  answer does not tell the total, which they read as 0 (`tencent.mjs:55` and 135,
  `alibaba.mjs:80` and 176): `MissesAreBounded` excepts sweeps that met one.
  `tencent` and `meituan` do not tell an error in the body from an empty board, which
  `alibaba.mjs:154` says must surface.
- The header of `_dns-cache.mjs` says, line 43, that failed resolutions are never
  cached, "so an outage cannot be pinned in". By lines 318-324, and the comment
  there, a refusal of the resolver is cached for `negativeTtlMs`: every name that was
  refused stays so for that time after the outage. `FailuresPassSoon` states what the
  code keeps to, not what the header says.
- A blocked address or a cached failure is tried again though every retry within
  30 seconds is answered from the cache; an expired entry that is replaced keeps
  its place and is dropped as the oldest.

### Frontend

- *Sessions.* Any 401, also of a mistyped password in another tab or of a call of
  an older token, removes the stored session (`client.ts:60`). `initialize`
  writes back a session that another tab has ended. A logout sends the stored
  token: after another tab's login it ends that one and leaves its own valid.
- *Devices.* After leaving the console and coming back a pending code is no
  longer polled for; a list that arrives after leaving polls on; lists out of
  order announce a device twice. After a logout and a login as another user the
  former user's devices are shown.
- *Résumés.* `applySelectionSuggestion` compares a selection with itself, so
  "选区已变化…" never shows (`StudentResumeView.vue:519`) and what is selected by
  then is replaced. The hash of an export contains its time, so two exports of
  the same lines differ. An import that ends while a draft is edited selects
  another line, and saving answers that it is no draft.
- *Agent.* Confirming a "review" plan sets the stage to active also when the user
  had marked it passed, failed or offer, which the plan lists as untouched
  (`studentWorkbench.ts`, about 1115). `confirmSkillPlan` says "已写入" also when
  nothing was written.
- *Schedule.* `remove` filters by the dialog's id after the answer: with the
  dialog opened for another entry, that one vanishes. Any answer closes whatever
  dialog is open; a late list loses or doubles an entry; a retry after a lost
  answer makes a second one; resizing writes the text of when it was grabbed.
- *Achievements.* Late answers replace the judge that another dialog shows; a
  second click on open clears what was typed.
- *Events.* The goal of an imported plan is the last text sent, also when it was
  sent after the plans were made. Searches out of order show the results of older
  filters; a location that is typed (`StudentEventsView.vue:392`) is shown as the
  filter of results that were not searched with it; a late first list erases what was reserved meanwhile.

## 8. Not modelled, and why

- *Appeals of users, export and timeline*: an appeal is a row that nothing
  answers; the others read. Two appeals of one result at once are both pending.
- *Agent runs, bad cases, trace artifacts*: logs, a row in a transaction each.
- *Hybrid retrieval, planning agent, model client*: text, floating point weights
  and HTTP; a choice of outcomes where another module meets them.
- *Journal, follows, organizations, timeline; login of the mini program*: one
  row and one transaction an operation; nothing takes several steps.
- *Statistics, checks that only print, `gy`*: counts and reports of files.
- *`scan.mjs` and the remaining providers*: the runner stops at the first
  company (section 7); the other providers read one page, or the same way.
- *The other views of the frontend*: they show what the stores hold or make one
  call at a time; `app.js` is loaded by no page but `legacy-index.html`.
- Inside modelled components: the arithmetic of scores and confidence, the
  rubric of a judge, the contents of messages, documents of the index, names
  and times, logs, and the agent-run rows. `components` in `PROJECT.json` says
  for each what is left out.

Hazards that are real and that no property here looks for: `submit` saves
FAILED inside the transaction that its exception rolls back
(`JudgeAssessmentService.java:213`); a slow but living process is taken for
dead (`pipeline-lock.mjs:207`); `reindexAll` runs over events that are hidden
meanwhile (`EventSearchIndexService.java:73`; the exception of
`IndexHasNoHidden`); duplicates whose URLs differ are dropped
(`dedup-tracker.mjs:221`).

## 9. Plan

*Done*: scoring, judging, jobs and outbox with their abstract specifications;
the services of the backend that keep derived rows; the toolkit's lock, tracker,
packages, opportunities, plans, queue, units, scanner; the frontend's stores and
pages. The proofs of section 6 (60 theorems that `PROJECT.json` lists, and the
lemmas they rest on) cover the safety of every module of the backend but the map,
of the toolkit's lock, imports, runs, chain, opportunities, queue, units, lookups,
sweeps and added entries, and of every page. From nothing they take about forty minutes,
the longest (`PageProofs`) a quarter of an hour.

Left, in this order:

1. A proof of `NumbersAreUnique` of the tracker, over the set of rows instead of
   the file.
2. Models of the interview and journal pages, and of the bridge that reads local
   files.
3. The appeals of users, with the two at once of section 8.
