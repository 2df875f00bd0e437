# Formal models of Maestro Career Studio

Maestro Career Studio is a job-application copilot for one person.  A FastAPI
backend (`backend/app`) keeps everything in one SQLite file; a Next.js web app,
an MCP server, a browser extension (the Companion) and a small supervisor
(`backend/maestro_cs`) work on it.  The same backend can run twice, on the
user's laptop ("home") and on an always-on machine ("bot"), and the two copies
then keep each other up to date by *sync rounds*.  This directory holds TLA+
models of that system, what TLC finds about small instances of them, and what
TLAPS proves about all instances.

## Inventory

| component | state | operations | what is hard |
|---|---|---|---|
| sync handover (`services/sync/round.py`, `routers/sync.py`, `services/sync/hooks.py`, `offers.py`) | on each copy: a job's `owner_machine` and `handover`, tombstones; home's take-over requests; the bot's records of the ones it decided | queue, keep here, work on it here, write, delete; the round: reconcile, push, pull, answer, take offers, return jobs | two databases and no shared transaction; every call can be lost before or after its effect; either process can stop between two commits; people and agents write during a round |
| sync replication (`round.py` `_push`/`_pull`, `jobs_bundle.py`, `duplicates.py`) | the revision clock, `acked_own`, `since_home`, `retry_own`, `stuck_own`, tombstones, text hashes | list, export, send, store, acknowledge, retry, park, drop | cursors that are read, then used seconds later; refused jobs; two jobs with one text |
| sync requests (`requests.py`, `request_apply.py`) | `sync_requests` on both copies | enqueue and fold, serve, apply once, record, answer | lost answers, a click while the request leaves |
| rounds (`round.py` `run_round`) and seal (`seal.py`) | the round lock, `failures`, `next_attempt_at`, `attempted_at`; time stamps, home's replay cache and lock | start, skip, back off, force; seal, accept, reject | how close two rounds can be; restarts, clock skew, a call that arrives twice |
| pairing (`pairing.py`) | window, code digest, attempts | open, claim, enrol, close | a code used twice |
| proposals (`services/proposals.py`, `routers/proposals.py`, `application_status.py`) | a proposal's status, cap reservation, consent events, evidence; the application's status | create, accept, approve, submit, decline, expire, resume, companion submit | checks and writes with no write lock, the daily cap, a ledger that must match |
| tailoring, versions, artifacts (`tailoring_session.py`, `quick_tailor.py`, `resume_versions.py`, `application_writes.py`, `application_render.py`, `artifacts.py`) | session status and hashes, `customized_json`, its history, PDF paths and files | open, resolve, tailor, edit, restore, render, replace, remove after commit | long model calls and compiles between a read and a commit |
| career knowledge base (`models/career_kb.py`, `routers/career_kb.py`, `kb_claims.py`, `kb_ingest.py`, `kb_consolidation.py`, `kb_base_sync.py`) | items, bullets with a state, a text and a pointer to the claim they word, notes of their use in resumes | ten ways in; approve, reword, retire, combine, split, move; merge and delete items; sync with a base resume | the user and an agent edit the same bullet; pointers, cascades and notes that must follow it |
| desktop supervisor (`maestro_cs/supervisor.py`, `control.py`, `update.py`, `autostart.py`) | processes, ports, the files of the run folder | run, watch, restart, give up; start, stop, restart, update | processes die at any step and leave records; stop requests at any point |
| Companion: the queued run (`extension/shared/queue-run.js`, `panel/actions/run.js`) | the record of a run (status, steps pressed, attempts, hosts, the page it parked on), the locals of a drive, the tab | start, open, read, sign in, fill, repair, press, park, resume, stop, watch | a page of somebody else's site that moves between any two calls; Stop, a closed tab or panel at any point |
| exchange rates | a cached blob | refresh | a fetch that fails |
| scoring, LLM, autofill mapping, MCP tools, web app | none of their own | pure functions, clients | not for a model checker |

How they meet: a sync round is one sealed call after another (`SyncLink`), which
carries handovers (`SyncHandover`), replicas (`SyncPush`) and requests
(`SyncRequests`); a request, once it arrives, runs the rules of a proposal or an
application (`Proposals`); an approved proposal is for an application whose
resume `Tailoring` makes from a base resume, which the career knowledge base
(`Knowledge`) feeds, and is sent from the page that a queued run (`QueueRun`) has brought to
Ready to submit; `Desktop` keeps the processes alive that all of it runs in.

What makes each of them correct, and what could go wrong at which line, is the
`hazards` list of `PROJECT.json`; a hazard without a property says why.

Two ways of modelling return everywhere.  A request of the API that loads rows,
thinks (or asks a model, or compiles) and commits is two steps wherever
something can come between them; SQLAlchemy writes the columns that changed,
by primary key, and compares nothing with what was loaded.  And a rare timing
that breaks a property is a member of the constant `Windows`: with it out, the
property is checked and holds; with it in, TLC shows the break.  So what the
code promises, and on which timing the promise rests, are kept apart.

## What is modelled now

### `SyncHandover`

One module for both copies of the jobs and the bot's round, because the
properties are about the two databases together.

State and code:

| variable | code |
|---|---|
| `home[j]`, `bot[j]` | the row of job `j` on each copy: `owner` is `owner_machine` (or the row is absent), `handover` the column of that name, `version` counts the writes its content holds, `work` is what `_progressed` and `_mid_application` look at |
| `edits[j]` | a history variable: all writes made to `j` so far, on either copy |
| `deleted`, `botDeleted` | the `SyncTombstone` rows |
| `switch`, `offers` | the full-automation setting; a counter that bounds the model |
| `asks`, `decided` | home's `take_over` rows of `sync_requests`; the bot's rows with `origin = "remote"` |
| `queueing` | jobs that a request is about to mark offered: it has read the switch, its flush has not taken the lock |
| `passed` | a write whose `before_flush` guard has passed and which has not taken the write lock yet |
| `late` | requests the bot gave up that home may still receive |
| `step`, `page`, `stored`, `takeovers`, `results`, `current` | the local variables of a running round: which of `_STEPS` it is in and what that step still has to handle |

Actions and code: every action is one commit of one copy, or one read whose
result the round keeps.  `LocalStep` is what people and agents do; it
interleaves with everything.  `RoundStep` goes through `_STEPS` in order:
`StartRound`/`ReconcileOne` (`_reconcile`), `ListPush`/`PushTombstone`/`PushOne`/
`DropIfIdle` (`_push`, `post_jobs`), `ListPull`/`PullOne` (`_pull`, `get_jobs`),
`FetchRequests`/`PostAnswers` (`_answer_home_requests`), `GetOffers`/`StoreOffer`/
`SkipOffer`/`ReadCommit`/`PostCommit`/`TakeCommitted` (`_take_offers`, `post_commit`), and
`DecideReturn`/`CheckApplying`/`HandBack`/`HandBackRefused`/`SettleReturn`/
`FinishReturn`/`PostResults` (`_return_jobs`, `post_return`).  `Failure` is a round
that ends at any point (`GiveUp`: a timeout, a failed call, a stopped process)
with its outstanding request lost, and `Land`, the arrival of such a request.

Abstractions:

- A job's rows, files and proposals are one `version`.  A write adds one; a
  bundle carries one.  That is enough to see a write lost, repeated or made to
  an old copy.
- Which jobs a push or a pull lists is decided by revision cursors.  Here they
  list *any* set of the copy's own jobs, which includes what the cursors pick;
  the cursors themselves belong to the replication module.
- The rule for two jobs with the same text is left to the replication module;
  here job ids never clash.
- Home answers one call of the bot at a time (its `_LOCK`), so a handler's steps
  do not interleave with another handler's; they do interleave with local
  writes where the handler commits more than once.
- A job on its way under the first pairing is not modelled: `Init` is two paired
  copies, each job on the copy that found it.

Five rare timings are switches of the constant `Windows`, so that what holds
without them is kept apart from what each of them breaks:

- `overlap`: a request of an abandoned round can land during a later round.
  After a failure the backoff is at least five minutes and home refuses a stamp
  older than 300 s, so with equal clocks it takes a forced round (or a bot that
  died before it recorded the failure).
- `guard`: a local write is between its flush guard and the write lock.
- `settle`: home's process stops between the two commits of `_store_returned`.
- `peek`: the request that queues a job has read the full-automation switch
  (`mark_when_queued`) and its flush has not taken the write lock.  On in the `handover` run.
- `commit`: the same gap in `post_commit`, between what it read and its flush.  On, with `guard`, in
  `handover_two_jobs`.

### `JobOwnership`

The promise without the protocol: a job has one holder or, while it moves, none;
only the holder writes; it never passes from one copy to the other without being
released; and whoever takes it finds it as it was released.  `SyncHandover`
implements it under the mapping "the holder is the copy whose flush guard lets a
write pass" (`ImplementsOwnership`, checked by TLC and proved).

### `SyncPush`

How the bot's own jobs reach home: the push step of a round, home's handler of
`POST /api/sync/jobs`, and the revision clock they depend on.  Who owns a job is
`SyncHandover`'s subject; here every job stays the bot's, except that home may
have taken one back and deleted it without the bot knowing (`removed`).

| variable | code |
|---|---|
| `clock` | the row `clock` of `sync_state` on the bot |
| `jobs[j]` | the bot's row: `rev` is `sync_rev` and stands for the content written then, `worked` is what `_progressed` sees, `sendable` that `export_job` accepts it |
| `tombs[j]` | the revision of its `SyncTombstone`, 0 for none |
| `acked`, `retry`, `stuck` | `acked_own`, `retry_own`, `stuck_own` of the saved round state |
| `push`, `rows`, `doomed`, `top`, `page`, `answer`, `checked`, `step` | the local variables of `_push`, `_take_page` and `_settle_push`, and where the push is in them |
| `inbox` | the part of a received `POST` home has not handled yet |
| `replica[j]` | home's row: the content it has, and whether it is stored under `replica_hash` because home's own job has the text (`twins`) |

| action | code |
|---|---|
| `Flush`, `Delete` | `hooks._before_flush`: one clock value for all jobs of a flush, a tombstone for a deleted one |
| `SaveTwin`, `DeleteTwin`, `TakeBackAndDelete` | the user at home |
| `StartPush` | `stamp_unsynced_jobs`, `read_state`, `_still_mine`, `_listing` |
| `ListTombstones` | the second select of `_push` |
| `TakeRow`, `Post` | `_take_page` one row at a time, then the call of `_send_page` |
| `DropReplica`, `StoreBundle` | `post_jobs`: `_drop_replica` for all tombstones, then `_refusal_of`, `apply_replica` and what `_store` answers, one commit per bundle |
| `TrackRefusals`, `CheckDrop`, `Drop` | `_settle_push`: `_track_refusals`, then the check and the deletion of `_drop_duplicate` and `_drop_if_idle` as two steps, since the code has no transaction over both |
| `SaveProgress`, `FinishPush` | `_save_progress` after a page, and after the last one with the tombstones' revision |
| `GiveUp` | any failure or stop; home may still handle what it received, or not |

Abstractions: a page is cut after any row (the byte limit makes any cut
possible) or at `PUSH_JOBS`.  An export happens when its row joins the page.  Why
home refuses a bundle is reduced to "it deleted the job" and "something else".
The text of a job never changes (`_correct_job` keeps it), so only a job with no
replica, or one set aside, can meet a twin.  What an abandoned round sent is handled or
lost before the next round lists; the window in which it is not is
`SyncHandover`'s `overlap`, and its effect on replicas is left to the plan.

Rare timings, switched by `Windows`: `ties` (one flush writes several jobs),
`listing` (a deletion between the two selects of `_push`) and `drop` (work begins
between the check and the drop).

### `SyncLink`

How close two rounds can be: one bot, one home, rounds of sealed calls.  It is
the module behind the assumption of `SyncHandover` that no request of an earlier
round lands in a later one.

| variable | code |
|---|---|
| `running`, `rounds` | `_LOCK` of `run_round`; how each round started and ended |
| `failures`, `nextAttempt`, `attempted` | the saved round state that `_held_off` reads |
| `calls`, `current`, `wire` | each call's `X-Sync-Time` and round; the one that is waited for; those that may still arrive, once or more |
| `up`, `started`, `seen`, `handling` | home's process, `_STARTED_AT`, `ReplayCache`, the lock of `routers/sync.py` |
| `accepted` | a history variable: how often home accepted a call, and in which round |

`StartRound` is `run_round` up to its first call, `SendCall` is `_call`,
`FailRound` `_record_failure`, `SkipRound` a `_Skip`, `FinishRound` the save of a good
round, `RoundDies` the end of the process.  `Accept` and `Refuse` are `check_header`
with `_usable`, `_before_process_start` and `ReplayCache.seen`.  Cryptography is taken
as given: nobody else makes a call that opens.  A restart of home takes a tick,
since process start and stamps are compared in whole seconds and `seal.py` says
that it accepts a repeat within the same one.

### `SyncRequests`

A change on a job that the other copy owns: it is stored, travels with a round,
is applied once and answered.  Each change the user makes, on either copy, is a
*click* with a number, so that a value, a payload and an answer can say which
clicks they hold.

| variable | code |
|---|---|
| `rows`, `records` | `sync_requests` with `origin` "local" and "remote" |
| `owner`, `offered` | `owner_machine`; an offer makes the job read-only (`require_owned`) |
| `clicks`, `value`, `uses` | history: who clicked, what each field shows, how often and with what a request was applied |
| `step`, `inbox`, `page`, `results` | the round in `_requests` and what it holds |
| `arriving`, `posted` | what home got of `POST /requests`, and what it may have got in any round |

`Click` is any of the endpoints that call `enqueue` when the job is elsewhere;
`Enqueue` is `enqueue` with `_earlier_pending`.  `ReadRequests`, `MarkSent`,
`AnswerHome`, `PostResults` are the first half of step 8 (`get_requests` and
`post_request_results` at home, `answer` and `settle` at the bot), `ListLocal`,
`SettleStored`, `SendLocal`, `AnswerBot`, `StoreAnswers` the second
(`_send_local_requests`, `settle_stored`, `post_requests`).  `MoveJob` is step 9,
which `SyncHandover` has in full.  Windows: `resend` (a click folds into a row that is on its way, at home served and not answered yet, at
the bot in its round's page: the code sends such a row as its select loaded it, the model with the window
open as it is at the send),
`returned` (a job goes home while home's request for it waits), `direct` (a click is applied at
once although an older one of the same copy still waits).  Left out: profile
additions, take-overs (they are `SyncHandover`'s), the deletion of the job.

### `Proposals`

The ledger of one copy.

| variable | code |
|---|---|
| `props[p]` | `application_proposals`: `status`, `job`, linked application, `reviewed` (what the final reviews among the evidence were taken of), `slot` (the day of `cap_reserved_at`), `manual` (the reason `APPLIED_MANUALLY`), `filed` |
| `ledger[p]` | the actions of its `consent_events` |
| `apps[a]` | an application's status: draft, applied (all `SUBMITTED_STAGES`), closed, gone |
| `requests[r]` | a request between its load and its commit: the rows it saw and what it makes of them |
| `lock` | the write lock that `begin_write` takes |
| `dropped` | the jobs that are deleted, with all that hangs on them |

One action per endpoint: `CreateProposal` (with `LateLink` and `_may_relink`),
`TransitionProposal` (PATCH and each row of the bulk form), `RecordDecision`,
`RequestDecision`, `ResumeProposal`, `ReportFailure`, `UploadEvidence`,
`CompanionSubmitted` and `AppliedYourself` (the two ends of `companion-submitted`),
`DeleteProposal`, `ExpireStale`, of the applications `PatchApplication` (with
`_close_open_proposals`), `DeleteApplication`, `NewDraft`, and `DeleteJob`.  They begin a request; `Commit`
ends it or `Fail` does.  `DELETE /api/jobs/{id}` looks at no proposal: when it commits, the job's applications,
its proposals in whatever status and their consent events go by `ON DELETE CASCADE`, and a link from
another job's proposal to one of its applications is cleared.  Such a link can be: `record_decision`, given
an application, does not ask whose it is, while every other way to link one does.  What several share is
`transition`: `CanMove`, `CanReserve`, `Moved`, `Slot`, `Recorded`, `Sent`.

Windows: `stale` (requests about one job, their own or that of an application they link, overlap) and `cap` (two requests reserve a
slot at once).  Creates may overlap with anything even without them, because
their lock is what `OneOpenProposalPerJob` rests on.  Full automation and the
skip list can be switched at any time, so a request that they refuse is simply one
that does not begin.  Left out: the consent's channel, the accepted and rejected
events, receipts, reasons other than `APPLIED_MANUALLY`, the ownership guard.

### `Tailoring`

The resume of one job: analyses (`sessions`), the application's draft, its
history (`versions`), the PDF at the application's path (`file`) and what a request
still has to remove after its commit (`doomed`).  `content[b]` is a base resume's
content together with the job's extraction, since both are in the hashes that
`staleness_reason` compares; a draft says which base, content and session it was made of, and how
often it was edited.

| action | code |
|---|---|
| `BeginCreate`, `LockCreate`, `CommitCreate` | `create_session`: the base is read with no lock, the score row's flush takes it, the supersede update and the insert are under it, and it is held while a model enriches the gaps; with `quick`, `quick_tailor.run_for_job`, whose look for the user's answers is the first of these steps |
| `BeginSave`/`CommitSave`, `BeginClose`/`CommitClose` | `save_resolutions`, `close_session`: a look, a wait for the lock, a write that compares nothing |
| `BeginFill`/`CommitFill`, `TailorFilled` | `fill_checkpoint_session`, for the tailor route and `apply-profile`: a plan around the answers of the row in hand, a commit of its own, and the tailor's own look; the quick tailor goes the same way after its create, with its plan as the whole list |
| `BeginTailor`, `CommitTailor` | `tailor`: freshness, the model with no lock, then draft, history and session in one commit |
| `FromBase`, `EditDraft`, `ClearDraft`, `Materialize`, `Restore`, `DeleteApplication` | the endpoints of `routers/applications.py` and `resume_versions.py`, through `stage_resume_update`; `RemoveFiles` is the removal after the commit |
| `BeginRender`, `Compile`, `CommitRender` | `application_render.py`: the fill, the compile, the path |
| `Fail`, `Stop`, `EditBase` | a request that fails; the end of the process; new content |

Window: `render`, a draft that changes while its render runs.  Left out: the
deletion of a base resume or of the job, scores, the template, port logs,
`expected_updated_at`.

### `Knowledge`

The career knowledge base: the items (jobs, projects), their bullets
(`points`: item, text, state, the claim it is a wording of, and whether the user said
they cannot confirm it), the notes of one base resume (`kb_port_log`) and a
history variable, `vouched`: the text of each bullet that the user last typed,
brought or approved.

A change of bullets (`Approve`, `Retire`, `Reword`, `AgentRewords`, `Unmerge`,
`Combine`, `Move`) goes through `Save`: at once, or, for the changes in `Slow`, as a
`request` that has loaded the table and commits later (`Commit`) the columns that it
changed.  Intakes, deletions and merges of items may come between.
`Combined` is `kb_claims.combine`, `MovedTo` `patch_point` with an entity, `WithState`
`_apply_point_state`, `AgentReworded` the MCP client's edit, `Without` the foreign keys.  The intakes
differ in what they compare a new text with and in the state they give it:
`CreatePoint`, `Mint`, `Capture`, `IngestDocument`, `AddDraft`, `WriteBack`, `CannotConfirm`, `Import`,
`IngestParsed`, `BaseSync`.  Whether two texts are close, which a model or an
embedding decides, is any answer.  Window: `overlap`, a second change while one is in
flight.  Left out: documents, kept pairs, skills, the profile, tags, the
archived flag; ids are never used again.

### `Desktop`

`maestro run` and the commands that find it.  `runs[r]` is a supervisor at one of its
steps, with its children, the exits it counts and the restarts it made; `servers`
are the processes it spawned, which can listen, find their port taken, or die; `files`
is the run folder (`supervisor.json`, `ready`, `stop`, one record per server);
`command` is the command that runs.  The steps of a run are those of
`supervisor.run` and `watch`: look, clear, record, install the signal handlers, spawn, note,
await, watch, scan, stop the web server, stop the backend, clean up; one action for
each.  The steps of the commands are those of `control.py` and `update.py`: find,
ask, wait, kill the tree, sweep, upgrade, look, launch, wait for ready.  A
supervisor (`Dies`) or a server (`Exits`) can end at any step, and the autostart
unit launches runs of its own.  Windows: `race` (a launch or a command while
another run has not recorded itself) and `orphan` (a supervisor dies while a
server of its is not recorded or does not listen).

### `QueueRun`

One queued run of the browser extension, from the job's link to Ready to submit: the
driver (`drive` of `queue-run.js`), the part of the panel that starts, stops and
resumes it, and a site.  Pages are model values; what the reader makes of one
(`Kind`, `By`), its address and heading (`Place`), the step of the application it
is (`Step`) and its host are tables that the instance gives.  Pages
of one place are redraws: they differ in buttons and number of controls, as
`pageSig` sees them.

| variable | code |
|---|---|
| `tab` | the page it shows, whether that page complains (`errs`), whether it still owes the answer to a press, and, as history, the steps somebody filled |
| `rec` | the run's record in session storage: `step`, `seen`/`left` (the signatures and places pressed or left), `signedIn`, `accountTried`, `hosts`, `parked` (`parkedOn`), `lastBy`, `stop` (`stopRequested`) |
| `drv` | the locals of `drive`; `view` is the page as last read, `on` what `moved()` clears, `pc` the call that is awaited, or the point between two calls |
| `hist` | what was done to the site: logins typed, accounts made, whether an application was sent or an unfilled step pressed; the page the user's last Resume vouches for; and the bounds' counts |

Each call of the driver (`act`) is a step that the site, the user and the panel
can come before: it looks at the tab of *its* moment, and what it answers is
used with the locals of before.  `Call` asks for Stop, `Save` (`update`) does
not.  A drive is `Start`, `OpenTab`, `Read` (with `parkedStill`), `Arrived` (`astray`, `noteHost`), `Judged` (with `Counted`, the count an unknown first page is asked for), then by
kind `Ends`, `SignUp`, `SignIn`, `Posting`, `Chooser` or `OnForm`; a form page
is filled (`Unfilled`, `Fill`, `Filled`, `Upload`, `Attach`), read again, judged (`FillAgain`,
`ParkBald`, `JudgeReview`, `JudgeStep`, `Reviewed`, `Required`, `Last`),
repaired (`Errors`, `Fix`, `Look`, `Recheck`) and pressed (`Press`, `Wait`).  `Think`,
`ThinkPress`, `Thought` are the reasoning step, which looks at a page before the run parks on it.
`Throws` is any call that fails.  The panel is `StartRun`, `StopRun`, `SkipRun`, `ResumeRun`,
`CheckConfirmation`, `CloseTab` and `PanelCloses`; the site and the user `Responds`
and `Goes`.  Two rare timings are constants: `Thinks` with a site that moves, and `Lossy`, the answer of
a page that did what it was asked and is lost.

What is assumed of a site: a page whose one button sends the application
(`Sends`) is reached by the site's links, or opened by the user in the tab of a
run that waits, but the job's own link does not land on it; and a button that was
named on a page can be pressed on a later one only if the later one is a redraw
of the same place with that button.  Left out: labels, fields and the loop that
fills them; a page that changes between the two calls of one read, of its controls (`classify`) and of
its address (`tabUrl`), which `Read` takes at one moment; how long a call waits; several panels and the hand-over of a run
between them; following an Apply into a new tab; the mark as applied after the
user's Submit, with its undo.

### Properties

| property | says | hazard |
|---|---|---|
| `SingleWriter` | the two flush guards never both let a write pass | two rows of one job edited apart |
| `WriterIsCurrent` | the copy that may write holds every write made so far | an offer, return or reconcile that drops one |
| `NoHandBackMidApplication` | home never becomes owner while the bot is applying | submitting twice, or losing the receipt |
| `HandBackIsFrozen` | from the mid-application check on, the bot's row does not change until the decision is recorded | the edit "between the check and the hand-over" |
| `NoOpenAskForAJobHere` | no take-over is open for a job that is home's | a request that is never answered, or takes back the next offer |
| `ImplementsOwnership` | every step is a step of `JobOwnership` or a stutter | all of the above, as one abstract machine |
| `AskIsAnswered` | a take-over is answered in the end | lost answers and repeats |
| `SomeoneMayWrite` | a job does not stay read-only on both copies, but for an offer saved after the switch went off, which waits for the user | a hand-over that got stuck |
| `AckedIsReplicated` | with no round running, a job at or below the ack is at home as it is, tracked, parked, unsendable, or one home removed | an ack that passes a change, which then is never listed again |
| `GoneIsGoneAtHome` | an acknowledged deletion has reached home; a job dropped for home's own left no replica | orphans at home |
| `WorkIsKept` | only the user's own deletion removes a job with work on it | a drop that races an application |
| `ChangesArrive` | once the writing stops, every change and deletion arrives, or is parked as it is | refusals, stopped rounds, jobs older than the clock |
| `AcceptedOnce` | however often a sealed call reaches home, it is accepted at most once | a repeat after the cache forgot it or home restarted |
| `OverlapIsForced` | a call of one round is accepted in a later one only if a round since was forced, or the earlier one died without recording its failure | the window of `SyncHandover` |
| `AppliedOnce` | a request is applied at most once, in whatever round and on whichever copy | lost answers and repeats |
| `AnsweredAsDone` | a request shown as applied had all that is in it applied, one shown as refused nothing | a click folded into a request that has left |
| `NewestStands` | what the user did later on a copy is not replaced by what they did earlier there | requests applied out of order |
| `RequestIsAnswered` | a stored request is applied or refused in the end | a request nobody serves |
| `OneOpenProposalPerJob` | a job has one open proposal | two creates at once |
| `SubmittedIsConsented` | what is approved, sent or perhaps sent has its approval in the ledger | a status without its event |
| `ReviewedIsLinked` | a proposal stays with the application its final review showed | a late link moves it |
| `CapHolds` | an approval holds a slot until it is known not to be used, a rejected one none, and no day has more than the cap | release and reserve on different paths |
| `SentIsKept` | nothing but the deletion of its job deletes or reopens what was sent, or takes an event from it | an order of requests that leads out of submitted |
| `OneOpenSession` | a base resume has one open analysis for the job | two creates, a close, a tailor |
| `TailoredAsReviewed` | what a session tailored was made of the content its gaps were found in | an edit of the base during an analysis |
| `DraftIsVersioned` | the draft is the newest snapshot of the history | a writer that does not record |
| `PdfShowsDraft` | a named PDF exists and shows the draft | a removal or a compile that comes late |
| `UserWorkKept` | a quick tailor or a fill that found the user's answers neither supersedes nor empties their analysis | a quick tailor beside the user |
| `WordingsAreOneLevel` | a wording is retired, on its claim's item, and one step from it | combines, moves, merges, deletions in any order |
| `ApprovedIsVouched` | an approved bullet reads as the user last vouched for it | an agent's edit beside an approval |
| `StoppedMeansStopped` | when stop returns and nothing was launched meanwhile, nothing runs | a dead supervisor's servers |
| `RunningIsRecorded` | the run that watches is the one the records name, with its servers | two runs, a late cleanup |
| `RestartsAreBounded` | a server is restarted at most so often in any span of time | a sliding window |
| `PressedIsFilled` | Next is pressed only on a step that the run or the user has filled | a wizard that moves on between a read and a press |
| `ReadyIsBacked` | a run is ready only after a step or a written field, on a page with a Submit or on the user's word, given on resuming for this page, or for the one it replaced during a second look | a page that only looks like the end |
| `NeverSends` | no press of a run sends the application | a draft whose Submit reads as a posting's Apply |
| `OneAttempt` | over every Stop, crash and Resume, the login is typed once and one account is made | an attempt that is marked late, or unmarked |
| `StopIsHonoured` | once Stop is pressed no new call is made | Stop between a look at it and a call |
| `DriveEnds` | every drive ends, whatever the site answers | steps that lead to each other for ever |

## Runs

All bounds are constants, named in the module that has them.

| run | instance | shows |
|---|---|---|
| `handover` | 1 job, 2 take-overs, 2 writes, 1 offer, 1 late request, `peek`; `FairSpec` | safety, refinement and liveness, 96,610 states |
| `handover_two_jobs` | 2 jobs, 1 take-over, 1 write each, 2 offers, `guard`, `commit` | one writer and no open take-over with jobs that share rounds, about 1.57 million states |
| `push` | 2 jobs, one of which home may find too, pages of up to 2 rows, parked at the second refusal, writing stops at revision 3; `FairSpec` | safety and liveness, 655,261 states |
| `link` | 2 calls, 2 rounds, 7 ticks, skew and first backoff 3, cache 2, force gap 1 | calls are accepted once, an overlap is forced, 4,042,072 states |
| `requests` | 1 job, 1 application, 3 clicks, no rare timing; `FairSpec` | safety, order and liveness, 564,262 states |
| `proposals` | 1 job, 2 proposals, 2 applications, 2 requests at once, a cap of 1, 2 days, no rare timing; states that differ only in what is not read again (`Matters`) are one | the ledger, about 390,000 states (589,630 without the view, with the same result) |
| `tailoring` | 1 base, 2 sessions, 2 slow requests, 1 application, 2 contents, 1 edit, 2 versions, no rare timing; states that differ only in what is not read again (`Matters`) are one | sessions, history and PDF, 536,460 states (2,809,148 without the view, with the same result) |
| `knowledge` | 3 bullets, 2 items, 2 texts, 1 note, a combine may be slow | wordings and approvals, 682,121 states |
| `knowledge_notes` | 1 bullet, 2 items | violates `NotesGoWithTheirPoint` |
| `desktop` | 2 runs, 4 servers, 3 times, 1 restart per span of 2, no rare timing | stop, records and restarts, 926,342 states |
| `queue_run` | two steps, three endings, 1 repair, 1 resume, 1 move of the site or the user | pages pressed, nothing sent, evidence and Stop, 4,288,455 states |
| `queue_run_login` | a career page, a chooser, a sign-up, a sign-in, a first step that may be drawn in the place of the sign-up or read as nothing known, a step that may lead back, and a draft, the reasoning step, 1 repair, 1 resume; `WF(Driver)` | attempts, and that a drive ends, 599,241 states |

`proposals`, `link`, `tailoring`, `desktop` and the queued runs do not check deadlock: ids, days, times and runs
are bounded, so those models come to an end where the program would not; and a queued run that has
ended, in a tab that is closed, is over.

### Why the bounds are of use

- *Handover.*  A job's life on the two copies is offered, committed, asked back, marked,
  returned, and each of these can be cut short once per round; two writes let one
  copy hold an older version than the other in either direction, two take-overs
  let one be repeated while another is decided, and rounds are not bounded, so a
  round can be given up any number of times.  A second job matters only through
  what a round handles together, which `handover_two_jobs` has.
  `WriterIsCurrent` and the refinement are checked with one offer per job: see below for two.
- *Push.*  Two jobs are enough for a page boundary, for a page with a refused
  and a stored job, and for one job's revision to carry the ack past the other's;
  three revisions let a job be written, listed, edited during the push and deleted;
  `MaxClock` stops only the writers, drops and stamps go on counting.
- *Link.*  Two rounds with a call each are what an overlap takes; seven ticks are a
  failed call, a backoff, a second call and the time for the cache to drop the
  first.  The cache never fills: `TimesOK` says that calls in 900 s are fewer than 100,000.
- *Requests.*  Three clicks are a request, one that folds or follows, and one on the
  other copy; rounds are not bounded.
- *Proposals.*  Two proposals are what one open proposal per job, the cap and a re-filing after a
  rejection are about; two applications let a link be late or moved; two
  requests at once are two creates that race for the job; other requests about the one job take
  turns here, and what their overlap does is in the table of windows.  That a proposal may link an
  application of another job takes a second job, which the proofs have and the run has not.
- *Tailoring.*  Two sessions are one and its successor; the two slow requests are every
  pair of a create, save, fill, close, tailor and render; two versions are a
  draft and the one it replaces.
- *Knowledge.*  Three bullets are a claim, its wording and a keeper of both, with a
  chain of two if one could come to be; a second item is where a bullet may move.
- *Desktop.*  Two runs are one that died and its successor, or two that race; four
  servers let one of each be restarted.
- *Queued run.*  A drive needs two steps for a page that is left for another, one
  repair for a page that is read again after it, one resume for what the record
  must remember, and one move that nobody asked for, which can come at any point.  Two
  moves, there and back between two looks of the driver, break `PressedIsFilled` and
  `NeverSends` (see below); of any number of moves the theorems say what must not
  happen between those looks.  Two pages look like the end and are not
  surely it, so that the word given for one could be spent on the other.  The step limit is 2, so that it is met.

### What the violation means

- `knowledge_notes`.  Moving a bullet leaves its notes on the old item, whose
  deletion takes them.

### What the windows show

Not runs, but one edit of a `.cfg` away: set `Windows` (and what else is named) and
keep only the property.

| instance | property | what happens |
|---|---|---|
| `SyncHandover`, `overlap` | `SingleWriter` | a hand-back times out but is on its way; a forced round starts; home says the job is the bot's; the bot clears its `returning` mark and may write; the old hand-back lands, home may write too |
| `SyncHandover`, `guard` | `HandBackIsFrozen` | a write passes the flush guard, waits for the round's `returning` commit, and lands after the round looked at the job, on the bot's row only |
| `SyncHandover`, `settle` | `NoOpenAskForAJobHere` | the return and the settling of the requests are two commits; home's process stops between them |
| `SyncHandover`, 3 writes, 2 offers | `WriterIsCurrent` | *Keep it here*, an edit, and a second offer take the place of the one the bot fetched: the commit names the job, not the revision, and the next push replaces home's edit |
| `SyncHandover`, `peek` | `OffersAreWithdrawn` | queueing a job reads the switch as on; full automation is switched off, which withdraws the offers there are; the queueing commits its offer.  No round fetches it while the switch is off, and home may not edit the job until the user keeps it here or switches on again: "Switching full automation off withdraws every offer that has not moved yet" (`offers.py`) does not hold of it, and `SomeoneMayWrite` names it as its exception |
| `SyncHandover`, `commit` | `WriterIsCurrent` | `post_commit` reads a job as offered; *Keep it here* and an edit commit; its flush gives the job away, the bot has it as it was before the edit |
| `SyncPush`, pages of 1, `ties` | `AckedIsReplicated` | one flush writes two jobs (as `expire_stale` does for every job with a stale proposal), which share a revision; a page is cut between them, its ack is that revision, the round stops; the next listing asks for more |
| `SyncPush`, pages of 1, `listing` | `AckedIsReplicated` | rows are listed, A is edited (2), B deleted (3), tombstones are listed with 3 as their top; the ack ends at 3 and A's edit waits for the next write to A |
| `SyncPush`, pages of 1, `drop` | `WorkIsKept` | `_progressed` says no, an application is created, the job is deleted, without a tombstone |
| `SyncRequests`, an application and a proposal, `resend` | `AnsweredAsDone` | home marks a request sent when it serves it, the bot never does: a second click folds into the row that is on its way, home answers what it got, and the answer settles a payload that nobody applied |
| `SyncRequests`, `returned`; `FairSpec` | `RequestIsAnswered` | a job comes home before home's request for it was served; it is never offered again and stays pending |
| `SyncRequests`, `direct` | `NewestStands` | a job moved; a direct click is followed by the older, stored one |
| `Proposals`, `stale` | `OneOpenProposalPerJob` | a transition that loaded the row before it was closed reopens it after another was filed |
| `Proposals`, `stale` | `SentIsKept` | an agent's report that it needs the user loads an approved proposal, the submit commits, the report commits: submitted is overwritten |
| `Proposals` | `RecordOutlivesJob` | the job of a submitted proposal is deleted, and with it the record that the refusal of `delete_proposal` calls proof; its slot of the day is free again, which `CapHolds` does not count against anyone |
| `Proposals`, `cap` and `stale` | `CapHolds` | two approvals count the day's slots before either commits |
| `Proposals` | `NeverSentAgain` | while one proposal is `submission_uncertain`, which is not open, another can be filed for the job and approved |
| `Tailoring`, `render` | `PdfShowsDraft` | a render commits its path for a draft that was replaced; or the removal that follows a save takes the newer file |
| `Tailoring` | `QuickTailorYields` | the quick tailor finds an open analysis without answers; the user saves some; the quick tailor's flush takes the lock, its update supersedes what is open now |
| `Tailoring` | `EndedStays` | a close, a save's tailor or an older tailor writes the status of an analysis that a create superseded meanwhile |
| `Knowledge`, `overlap`, slow `agent` | `ApprovedIsVouched` | the agent's edit loads a draft, the user approves it, the edit commits: state unchanged, text new |
| `Knowledge`, `overlap`, slow `combine` | `WordingsAreOneLevel` | two combines, each of the other's keeper, leave two wordings that point at each other and no claim |
| `Desktop` | `NothingRunsDuringUpgrade` | the supervisor was killed and its servers live on; `update` sees nothing running, neither stops nor reaps, and uv replaces the files under them |
| `QueueRun`, the site of `queue_run`, `Thinks` | `PressedIsFilled` | the press handed to the reasoning step looks at the driver's last page, the step presses on the page it read itself; a site that moved on in between has its next page pressed, which nobody filled |
| `QueueRun`, the site of `queue_run`, 2 moves | `PressedIsFilled` | the driver reads page one; the tab goes on to page two, the fill works that one, and the tab is back on page one when the driver reads again: it takes page one for filled and presses it.  `WorksItsPage` rules out this and the line above |
| `QueueRun`, the site of `queue_run`, 2 moves | `NeverSends` | the run opens the job; before its first read the tab goes on to the finished draft, whose Submit reads as a posting's Apply; that is pressed as the posting's.  `OpensTheJob` rules it out |
| `QueueRun`, the site of `queue_run` | `VouchIsForItsPage` | the user resumes on a page without a Submit, their word that it is the last (the comment at `queue-run.js:400`); the fill lists nothing though the page has controls, so `pageFilled` is cleared and the page read again; a page that replaced it meanwhile is not told from it, is filled and declared Ready on that word.  `ReadyIsBacked` names the exception |
| `QueueRun`, the site of `queue_run_login`, `Lossy` | `OneAttempt` | the page pressed Create Account and its answer was lost: that is taken for a refusal, the attempt is unmarked, a Resume makes another account |
| `Desktop`, `race` or `orphan` | `StoppedMeansStopped` | a run that has not recorded itself, or a server that was not noted, is not found by stop |

## Fairness

`WF(RoundStep)`: cron (or the agent's `sync_now`) starts a round every five
minutes whatever happened before, and a round that is running does its next
step or is given up.  `WF` of the second commit of a return that home has begun:
a handler that runs finishes.  `Recovers`: from some point on no round is given up
and every offered bundle can be stored; without it a network that never works
again would be a counterexample to any promise.  Nothing is assumed of the user
or of agents, who may write, ask, offer or delete for ever or never.

`SyncPush` assumes the same: `WF(PushStep)`, `WF(HandlePost)` and a `Recovers` of its
own.  A job may be refused for ever; that is what parking is for.

`SyncRequests`: `WF(RoundStep)`, `WF(AnswerBot)` (home answers what it received) and
`Recovers`, `<>[][~GiveUp]_vars`.  `WF(RoundStep)` does not ask for the steps that move a
job: those are decisions of people and of the bot.

`QueueRun`: `WF(Driver)`, since every call answers, throws or runs into its time limit.  Nothing is
assumed of the site or the user.  The other modules state safety only.

## Proofs

`SyncHandover_proofs` holds, for every value of the constants:

- `TypeCorrect`: `Spec => []TypeOK`.
- `OneWriter`: `NoOverlap => (Spec => []SingleWriter)`, where `NoOverlap` says that
  `"overlap"` is not among the `Windows`.  All other rare timings are allowed.
- `NoAskIsLeft`: `NoSettle => (Spec => []NoOpenAskForAJobHere)`; rounds may overlap.
- `HandBackIsAlwaysFrozen` and `NeverHandedBackMidApplication`:
  `NoOverlap /\ NoGuard => (Spec => HandBackIsFrozen)`, and the same of `NoHandBackMidApplication`.
- `WriterIsAlwaysCurrent`:
  `NoOverlap /\ NoGuard /\ NoCommitRead => (Spec /\ [][NotRequeued]_vars => []WriterIsCurrent)`,
  and `HandoverImplementsOwnership`, the same of `ImplementsOwnership`.  `peek` and `settle` are
  allowed: when the switch is read does not touch who may write.
- `OneOfferKeepsTheWriterCurrent` and `OneOfferImplementsOwnership`: with `MaxOffers <= 1`
  in place of `[][NotRequeued]_vars`, which is what the run checks.

`SingleWriter` is not inductive: it says nothing of what a round has read and not
used yet.  The invariant that is, `IInv`, adds to it what each step of the round
may rely on.  The heart of it: when the bot owns a job unmarked, home's row is not
home's to write; a job the bot marked `returning` may be home's already; an
item of the reconcile page that says "remote" is about a job that home still
calls the bot's, and no return of it can land; the jobs in `stored` after the
commit are ones home gave away; and at "checked", "landed" and "handed" the job
being decided is marked on the bot, or home's.  The proof that
a step preserves it has one lemma per action.  Overlap is excluded by an
assumption because it is needed (see the windows), and `SyncLink` says when it
holds.

`NotRequeued` says that no job is queued for the bot again while a round carries an
offer of it.  It is a condition on steps and not on a constant, and it is needed:
*keep it here* and a second offer can slip under a commit, which names the job and
not the revision (see the windows).  `ContentInv` is what then holds of versions.
The owner's row has all writes (`OwnersAreCurrent`).  What a page says of home's own jobs
stays true until the round gives one away (`HomeJobsStay`).  A bundle that was fetched,
stored, or named in a commit still on its way is the row home offers, or the
offer was withdrawn and home will refuse the commit (`OffersAreCurrent`).  A hand-back that
is on its way is the only late request, and carries what the bot's row still says
(`LateReturnsAreCurrent`), which needs the row to be frozen from the check to the flip (`FrozenInv`).
The refinement follows: under the mapping each action writes, deletes,
releases or takes at most one job, or changes nothing that `JobOwnership` sees.

`SyncPush_proofs` holds, for every set of jobs, page size, retry limit and bound:

- `TypeCorrect`: `Spec => []TypeOK`.
- `AckNeverLosesAChange`: `NoGap => (Spec => []AckedIsReplicated)` and
  `DeletionsPrecedeTheAck`: `NoGap => (Spec => []GoneIsGoneAtHome)`, where `NoGap` excludes
  `ties` and `listing`, which both break it.
- `OnlyItsUserDropsWork`: `"drop" \notin Windows => (Spec => WorkIsKept)`.

Their inductive invariant, `IInv`, says that for some revision `h`, the clock at the
last listing, `Inv(h)` holds.  Everything written since has a revision above `h`
and the ack never passes `h`; that is why an edit during the push is safe.  Below
`h`: the rows still to go carry higher revisions than the page, and the page higher
ones than the ack (`RowsHold`); a change above the ack is in the rows or the page
(`Covered`); a bundle of the page that home has handled is stored, refused and tracked, or
its job is to be dropped (`PageHandled`); a deletion above the ack is on its way
or done, and no bundle home may still store is of a job deleted before it was
listed (`Deleted`); home holds nothing of a job it removed or whose text it
answered is its own (`NotHeld`).  When `SaveProgress` moves the ack over a page these
give `AckedIsReplicated` again; `FinishPush` moves it over the tombstones.  One lemma per
action, with `h` replaced by the clock in `StartPush`.

Its last part is about `SyncLink`, whose definitions it also extends, for any number of calls
and rounds and any times that `TimesOK` allows:

- `LinkTypeCorrect`: `LinkSpec => []LinkTypeOK`.
- `NoReplay`: `LinkSpec => []AcceptedOnce`.
- `BackoffOutlastsTheStamp`: `LinkSpec => []OverlapIsForced`.

Three facts carry them.  A call that can still arrive and was accepted before is
either in the cache of the process that accepted it, for longer than its stamp is
usable, or its stamp is older than the process (`Remembers`).  Calls and rounds
are numbered in the order in which they are made, and a stamp is never later
than now (`Numbered`, `StampedCalls`).  And a round that failed left a `nextAttempt` that no
usable stamp of its own reaches (`Settles`): `Skew <= FirstDelay` is the
assumption that this needs, and in the code the two are equal, 300 s each, with
no margin.

`Knowledge_proofs` holds, for any bullets, items and texts and whichever changes
are slow:

- `OneLevel`: `NoOverlap => (Spec => []WordingsAreOneLevel)`.
- `NothingApprovesForTheUser`: `NoOverlap => (Spec => []ApprovedIsVouched)`.
- `TypeCorrect`: `Spec => []TypeOK`, also where requests overlap.

The table alone is easy (`Sorted`, `Vouched`, `Housed`).  What has to be found is
what survives of a table that a request loaded while bullets come, go, and move
with their items: `Pending` says that a bullet which was there and still is was only moved
with all of its item, or lost a pointer; that a bullet which came since has no pointer; and that the change
itself moves a claim and its wordings together.  Then the columns that it
writes, put over the table of now, are a sorted table again (`CommitInv`).
`TypeCorrect` needs none of that, only what both tables of a request have in common
(`Shaped`): the same bullets, and with an item its text, without one no pointer.

`SyncRequests_proofs` holds, for any jobs, targets and number of clicks:

- `TypeCorrect`: `Spec => []TypeOK`.
- `AppliedAtMostOnce`: `Spec => []AppliedOnce`, on every timing.
- `AnswersAreDone`: `NoResend => (Spec => []AnsweredAsDone)`, where `NoResend` says that
  no click folds into a request that is on its way.
- `NewestAlwaysStands`: `NoDirect => (Spec => NewestStands)`, where `NoDirect` excludes a
  change made at once, on a job that came to a copy, over a request of that copy that still waits.

`IInv` says of every request that it was done as often as the record of the other
copy says (`HomeRows`, `BotRows`).  The bot's own requests may also be settled where they
were made, without a record (`settle_stored`), and that is where a second use could come
from: what rules it out is that a request home has decided, or has still to
decide, and that the bot holds no answer to, is about a job of home's.  No job can have
moved meanwhile, because a round stores every answer before its step 9: the last conjuncts of
`BotPage`.  `Faithful` adds that what the round carries is what the request says.

`NewestStands` compares two states, so what has to be invariant is that the next
value will be newer (`Ordered`).  Of the requests of one copy for one target, only the last takes
more clicks, and every payload an earlier one may be applied with is older, field
by field (`Later`).  A request that may still be applied is newer than
what the target shows of the same copy (`Ahead`).  A round that has taken a request has
those before it (`Closed`), so that the smallest number first is the oldest first.
A payload may be the row's, or an older copy of it that the round carries; all of them count
(`Versions`), and so folding into a request on its way does no harm here.

`Proposals_proofs` holds, for any jobs, proposals, applications, requests and caps:

- `TypeCorrect`: `Spec => []TypeOK`, and `ConsentIsRecorded`: `Spec => []SubmittedIsConsented`, on
  every timing.
- With `NoStale` (requests about one job do not overlap, except that creates may try to): `OneOpenAlways` for `OneOpenProposalPerJob`, `SentIsKeptAlways` for `SentIsKept`,
  `ReviewedIsLinkedAlways` for `ReviewedIsLinked`.  `SentIsKept` excepts the deletion of the proposal's job, which the code allows.
- With `NoStale` and `NoCapWindow`: `CapHoldsAlways` for `CapHolds`.

A request keeps the rows it read and the rows it will write until it commits, so the
invariant is about those.  On every timing what a request is about to write is backed
by the events it adds or by the ledger (`Backed`); that is enough for consent, since no commit takes an
event from a row that stays.  Without stale requests, what a request read is what the
table has and what it writes is a legal next row of it (`Current`); two requests have no
job in common (`Separate`), where the jobs of the applications a row links count too, because
deleting one of these writes the row; what a review showed is still what the row links or is gone, in the
table and in what requests hold (`Linked`); and no row outlives its job (`OfJobs`).  For the cap, rows and their slots agree (`Slots`), and a slot taken on a day is
counted while it is taken; that counts a finite set, and is the
one place where `Proposals` has to be assumed finite.

`QueueRun_proofs` holds, for any site, any bounds, the reasoning step on or off, and however often the
site, the user and the panel interfere:

- `TypeCorrect`: `Spec => []TypeOK`, part by part from the invariant below;
- `OneAttemptAlways`: `~Lossy => (Spec => []OneAttempt)`;
- `StopIsAlwaysHonoured`: `Spec => StopIsHonoured`, with answers lost or not;
- `ReadyIsBackedAlways`: `Spec => ReadyIsBacked`, without a condition;
- `NeverSendsAlways`: `SendsAreTold => (Spec /\ [][OpensTheJob]_vars => []NeverSends)`;
- `PressedIsFilledAlways`: `StepsArePlaces => (Spec /\ [][WorksItsPage]_vars => []PressedIsFilled)`.

An attempt that is about to be typed is marked in the record and not counted yet, and
nothing is counted without a mark (`Attempts`).  Nearly every step of the driver is `Calm`: it keeps the marks and the
Stop, and makes no call under it; that is proved once of the verbs (call, save, park, finish)
and follows for each action from the verbs it uses.

The other three are about what the driver believes of a tab that moves under it.  `NeverSends` and
`PressedIsFilled` only speak of what was pressed, so the invariant speaks of the point of the code a drive is at,
or goes on to after a save (`Point`):

- `Sound`: the run is at one of its stages and keeps pages of the site only (`Kept`), the drive is at one of its points
  (`Points`); past a read the page in hand is a page; past a fill the drive remembers a place as filled, and it judges,
  repairs and presses Next only while it does; a page's button is named for its kind.
- `Fit`: what the drive takes the page in hand for is what that page is; the Apply it may press is not a draft's.
- `Worked`: the place that the drive remembers as filled is filled, also through a park on it (`parkedOn`)
  and the Resume that takes it up again.
- `Vouched`: the user's word is about the page that parked, and is about the page in hand until that is looked at once
  more or the reasoning step had it; at the end there is a step or a written field.

Each verb keeps these if what it is given does (`Keeps`), each action is a lemma over its verbs (`Lands`), and
`NextFollows` is what a step of the whole system keeps.  What is asked besides is asked of the world, not of the driver.
`StepsArePlaces`: a step of the application has an address or a heading of its own (on a site that shows all its steps under one
of each the driver has the shape of the page alone to go by).  `SendsAreTold`: no page that sends is read as a step or a chooser, and
no other posting has its address and heading.  `OpensTheJob`: when the tab is first read after the run opened the job, it is not on a
finished draft.  `WorksItsPage`: a fill, and a press of the reasoning step, work the step of the page that the driver
read last.  The site of `queue_run` meets the first two, and each of the last two is needed (see the windows); the run, with one move,
checks the properties without them.

`Tailoring_proofs` holds, for any bases, sessions, slow requests and bounds, on every timing:

- `TypeCorrect`, `OneOpenAlways` (`OneOpenSession`), `TailoredAsReviewedAlways` (`TailoredAsReviewed`),
  `DraftIsVersionedAlways` (`DraftIsVersioned`) and `UserWorkIsKept` (`UserWorkKept`);
- `PdfShowsDraftAlways`: `NoRender => (Spec => []PdfShowsDraft)`, where `NoRender` says that an
  application is left alone while it is rendered and until its old file is removed.

The invariant says what a slow request may rely on when it comes back: a create that
holds the lock has a free session (`ReadyToOpen`); what a quick tailor found of the user's
is not of the base it works on (`PassesBy`), and a fill that found answers in its analysis
has them in hand (`FillsAround`); a draft in hand was made from
what its session reviewed (`Reviewed`), and so were all in the history, since a restore
may bring any of them back.  `Shown` adds for the PDF that a render has in hand what its application has, and
that a file about to be removed is not named by any row.

`Desktop_proofs` holds, for any number of runs and servers, any times, limit and window:

- `TypeCorrect`, and `RestartsStayBounded`: `Spec => []RestartsAreBounded`, on every timing;
- with `NoWindow == Windows = {}`: `OneRunActs`, `StopStopsEverything` for `StoppedMeansStopped` and
  `TheWatcherIsRecorded` for `RunningIsRecorded`.

For the restarts, the exits a supervisor keeps are the last of all restarts of that server,
and those it dropped are too old to share a window with any later one
(`Counted`); the length of the list then bounds what any window holds (`Spaced`).
`Within`, which keeps the recent ones, is a recursive function, about which what is needed is
proved from the well-foundedness of the numbers.  For stop, one run acts at a time, at most one is
not recorded yet, and the record names the one that acts (`Alone`); a command that
has looked keeps launches away until it has stopped (`Commands`); every server that lives is one
the acting run holds, or one a dead run left, which is recorded and listens
(`Held`); and of the run's own servers the record is right where the run has noted them
(`Progress`).

What stays with TLC:

- `AskIsAnswered`, `SomeoneMayWrite`, `ChangesArrive`, `RequestIsAnswered` and `DriveEnds`: the proof
  system does not handle liveness under fairness.
- `VouchIsForItsPage`, `NotesGoWithTheirPoint` and the other properties that fail, which runs and windows show failing.

Each assumption that closes a window is needed: the table above says what breaks the
property when it is open.

## Plan

1. Done: handover, push, requests, rounds and seal; proposals, tailoring, the
   career knowledge base, the desktop supervisor, the queued run; proofs of them all.
2. `SyncPull`: home's cursor, the page's rows, exports and tombstones read one after
   another, replicas set aside, clashes settled on the bot; a late request as a
   window of `SyncPush`, where an old bundle may overwrite a newer replica.
3. Pairing; profile additions among the requests; of the queued run, several panels, the
   mark as applied and its undo, an Apply that opens a new tab.

## Not modelled

- Wording, layout, file contents and the cryptography.
- The profile bundle, which goes one way and is replaced whole.
- Pairing, which happens once and before any round.
- Extraction, scoring, autofill mapping and everything a language model answers,
  which are functions of text.  They are most of the lines of the backend, and where a model's
  answer is used, it is any answer.
- The web app and the MCP tools, which are clients of the modelled operations; of
  the MCP tools only the edit of a bullet has a rule of its own, and it is modelled.
- Exchange rates: one row, fetched once a day, kept when the fetch fails.
- Of the Companion: how pages are read and fields filled, which are functions of
  pages; the rest of the panel.

Differences between the code and its documents that the models showed but no run
is about: a proposal that goes from `needs_human` to `approved` on a later day keeps the slot
of the earlier one; PATCH from `needs_human` to `pending_review` keeps the slot while
resume gives it back; retiring a keeper leaves its wordings pointing at it; an
approval from the web page sends the state only, so it approves whatever the
text is by then; the base sync and the write-back compare with active bullets
only, so a retired text can come back as a draft; the autostart units restart a supervisor that gave up,
since it exits with a failure.  And of the queued run: a Stop that lands while the
record is saved is overlooked if the run parks or finishes next (no further call is made, which is
`StopIsHonoured`, but it ends parked or ready); a page whose press did nothing in time may be
pressed again after a late answer led back to it, since `seen` is looked at only on
a first try; and a run that keeps the user's tab because it shows the job may press the
Apply in it, which the header of `queue-run.js` allows only after the run opened the tab.
