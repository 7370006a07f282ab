# A verification of AI Talent Lab

AI Talent Lab is a recruiting platform: a FastAPI back end on PostgreSQL (asyncpg), Celery workers on
Redis, and a React front end.  A team lead files a hire request, an admin approves it, a recruiter writes
the job description in a chat, a reviewer approves that, and the position opens; the system then finds and
scores candidates, mails them, takes their applications, tests and grades them, and collects the feedback of
the interview panel.

This directory holds TLA+ models of that system, the TLC runs that check them on small instances, and
proofs, checked by TLAPS, of what matters most for every instance.  Back-end paths below are relative to
`src/backend/`, front-end paths to `src/frontend/src/`.

Two facts decide how everything here is modelled.

* Connections **autocommit** (`db/connection.py`): unless a handler opens `conn.transaction()`, each statement
  commits by itself.  Almost every handler reads a row, checks it, and writes it with
  `UPDATE ... WHERE id = $1` that repeats none of the checks.  Anything can run in between.  A handler that is
  one statement, or one transaction with the row locked, is one action of a model; any other is a *call in
  flight* with one action per statement, whose local variables are state.
* A **page is one thread with many answers to come**.  An event handler or an effect runs to its next `await`
  as one step; what it awaits comes back in another step, when the page may show something else, have been left
  and opened again, or have sent the same call once more.  The server may have carried a call out although
  its answer is lost.  Only the chat's stream is ever aborted.

## 1. Inventory

The workflow on the server:

| component | state it keeps | operations | what is hard |
|---|---|---|---|
| Hire requests (`services/hire_requests/*`, `db/repositories/hire_requests.py`, `tasks/hire_request_locks.py`) | status, payload, review lock and its start, recruiter, position | file, edit, begin review, take over, release, approve (modified), reject, accept, cancel, link; the lock sweep | check and write are separate; the lock times out in two ways; the row is fulfilled from two places |
| Positions and JD approval (`services/chat_service.py`, `services/positions/*`, `db/repositories/positions.py`) | status, approval status, reviewer, revision cycle, the session's position | save (draft), submit, resolve the reviewer, approve, request changes, withdraw, cancel, status endpoint | a save takes up to five statements on connections of their own; the reviewer is resolved on one connection and written on another |
| Applications (`tasks/candidate_pipeline.py`, `tasks/email_outreach.py`, `services/apply_service.py`, `services/candidate_service.py`, `services/talent_pool_service.py`, `db/repositories/{candidates,applications}.py`) | lane, score, link sent, event log; the broker's queue | search, score, invite, mail, apply, complete, move, bulk reject, retry | redelivery, retries, a lane that seven writers overwrite without reading it |
| Written tests (`tasks/pre_eval_grade.py`, `routers/pre_evaluations.py`) | test status and answers; a batch's local copy | invite, submit, grade, route, detect collusion, put on hold | the verdict is routed before collusion is looked for; batches are cut anywhere |
| Interviews (`services/interview_service.py`) | rounds, panel links, drafts, scorecards | schedule, draft, submit, decide, debrief | the scorecard is one row that is written over while its mark stays; two last panelists; a submission cut behind its mark; old copies of the round |
| Application session (`services/apply_service.py`, `agents/candidate_chat.py`) | one JSON state per application | consent, message, upload, complete | the state is read, the model is asked, and all of it is written back |
| GDPR (`services/gdpr_service.py`, `tasks/gdpr_cleanup.py`) | consents, deletion requests | request, verify, execute, clean up | the status is read outside the transaction that writes it |
| Accounts (`services/auth_service.py`, `services/quota_service.py`, `routers/candidate_portal.py`) | users, failed logins, lock, single-use links | invite, log in, lock out, deactivate, set up | counters read and written back; limits counted before the INSERT |
| Billing (`services/billing_service.py`) | invoices, the organisation's plan | create, confirm, assign | the provider is asked between read and write |
| Tenant context (`db/connection.py`, `middleware/tenant_context.py`, `utils/async_runner.py`) | a session variable on pooled connections | set, reset, release | a connection that comes back with the last tenant |

The pages:

| component | state it keeps | what is hard |
|---|---|---|
| Chat (`context/ChatContext.jsx`, `components/Chat/ChatPage.jsx`, sidebar) | messages, the stream being read, pending effects, router entries | effects that run twice, history steps, a stream that outlives its session |
| JD editor (`Chat/cards/FinalJDCard.jsx`, `PositionSetupModal.jsx`) | document, check, edits, the modal | the document is streamed, edited, checked and saved at the same time |
| JD tab, status menu (`Positions/tabs/JDTab.jsx`, `PositionHero.jsx`) | the position as it was loaded, an edit | edits and decisions on what has changed since |
| Hire request pages (`HireRequests/*`) | the request as loaded, the form, a filtered list | actions offered on an old status, lists that overtake each other |
| Session and account pages (`context/AuthContext.jsx`, `router.jsx`, `Auth/*`) | user and token in memory and `sessionStorage` | answers that arrive after signing out |
| Settings, platform page (`Settings/*`, `Platform/PlatformPage.jsx`) | lists, editors, switches that move first | late answers into the wrong editor; indices of a filtered list |
| Application chat (`Apply/ApplyPage.jsx`), career page (`Careers/CareerPage.jsx`) | the step of the last answer; filters | several tabs of one candidate |
| Portal, status page (`pages/CandidatePortal/*`, `Status/*`) | a token shared by the tabs, the test | retries after a lost answer |
| Panel page (`Panel/PanelPage.jsx`), interviews tab (`Candidates/tabs/InterviewsTab.jsx`) | the form; a copy of the round | a submission that was in although the page heard of an error |
| Pipeline, candidate page, talent pool (`Positions/*`, `Candidates/*`, `TalentPool/*`) | lists, a stage per row | keys that move what an old list shows |

How they interact: the hire request and the position share `position_id` and are fulfilled from both sides
(`link_session_to_position`, `fulfill_hire_request`); the chat session names its position; an approved
position enqueues a search; a completed application enqueues its scoring, a score above the threshold
enqueues the test; a graded test writes the application's lane; recruiters write the same lane.  On the
server the tables are the only shared state, the Celery queue the only message channel, and there is no
lock other than the review lock, the row locks of a few transactions and the compare-and-set
`WHERE status = ...` of some UPDATEs.  Pages share nothing but the server and, within one browser, its storage.

What makes each part correct:

* *hire requests*: HR gets only what was approved; a decision is not undone; the lock agrees with the status,
  has one holder and always ends; one outcome, one recruiter, the terms that were reviewed.
* *positions*: whatever waits for approval has a reviewer, who is not its submitter; late decisions lose; the
  reviewer's feedback reaches the chat of the JD; a session stays with its position.
* *applications*: nobody who applied is lost; every lane and every test has its cause; who applied is scored.
* *tests*: every lane has its verdict; whoever is flagged is on hold; whatever is submitted is graded.
* *pages*: one intention of a user is one effect on the server; what a page reports as done is done; an answer
  lands where it was asked from; nothing signed out comes back.

`PROJECT.json` lists the hazards at their lines with the properties that would catch them.

## 2. Modules

| module | what it is | theorems in |
|---|---|---|
| `ReviewLease` | abstract specification: a lease with one holder that ends | |
| `HireRequests` | one hire request, any number of overlapping calls; implements `ReviewLease` | `HireRequests_proofs` |
| `JdWorkflow` | chat session, positions, reviewer, and the hand-over of the hire request | `JdWorkflow_proofs` |
| `Applications` | the applications to a position, the broker and its workers | `Applications_proofs` |
| `PreEvaluations` | written tests and the grading batches | `PreEvaluations_proofs` |
| `ChatSessions` | the recruiter's chat over several sessions, and its stream endpoint | `DeskPages_proofs` |
| `JdEditor` | the JD on the canvas, and what it writes | `DeskPages_proofs` |
| `PositionSetup` | the modal that saves the JD as a position, and `save-position`, statement by statement | `DeskPages_proofs` |
| `JdReviewTab` | the JD on the reviewers' pages, and the status menu | `DeskPages_proofs` |
| `HireDesk` | detail, form and list of hire requests in several tabs | `DeskPages_proofs` |
| `StaffSession` | who is signed in in one tab; account pages and route guards | `StaffPages_proofs` |
| `SettingsRail`, `QuestionsTab`, `TemplatesTab`, `TeamTab`, `CompetitorsTab` | the settings page and five of its tabs | `StaffPages_proofs` |
| `PlatformDesk` | the platform administrator's page | `StaffPages_proofs` |
| `ApplyChat` | the application chat in several tabs, and its session | `CandidatePages_proofs` |
| `Careers` | the career page and the application it starts | `CandidatePages_proofs` |
| `CandidatePortal` | setup link, sign-in, test and status page, tabs sharing a token | `CandidatePages_proofs` |
| `PanelFeedback` | the panelists' page and `submit_feedback`, statement by statement | `InterviewPages_proofs` |
| `InterviewRounds` | a round in the tabs of several recruiters | `InterviewPages_proofs` |
| `Erasure` | requests for erasure: public pages, desks, rows | `CandidatePages_proofs` |
| `TalentPool`, `CandidatePage`, `PipelineBoard` | the pages on which staff follow candidates | `InterviewPages_proofs` |
| `MC...` | the instances TLC checks | the two of the pages: `StaffPages_proofs`, `InterviewPages_proofs` |

Definitions called `Bug...` are plausible mistakes in the definition below them.  They are not part of any
specification; each shows that a property notices the mistake.

### The workflow on the server

**HireRequests.**  Rows do not influence one another, so there is one row.  `status`, `terms` (the payload),
the lock holder, `accepted_by` and `position_id` are its columns; `lock_age` is the distance to
`reviewing_locked_at` in ticks and saturates, since the code only compares it with 10 and 30 minutes; `audit`
is the set of decisions in `audit_logs`.  `call[c]` is what a handler remembers between its check (`Admit`,
guards `Admits` and `MayCall`) and its write (one action per operation).  The writes keep the WHERE clause of
the code: `Decide`, `Accept`, `Link` and `Update` have none, `Cancel`, `Takeover` and `Release` are
compare-and-sets on different conditions.  `begin_review` is a compare-and-set first; the loser reads the row
(`ExamineLock`) and may try `Takeover`.  `Sweep` is the Celery task, `FulfillHireRequest` what the position's
approval does, `Abandon` a client that hangs up or a process that dies.

The first recruiter, one outcome and frozen terms hold only **one call at a time**.  With two calls in flight
the code lets a second recruiter overwrite the first, a late edit change approved terms, an approval in flight
overturn a rejection (which `db/repositories/hire_requests.py:293` calls terminal) and a stale
release end the lock of the admin who has just taken over.  These properties are therefore checked and
proved for calls that do not overlap, with time and the sweep running between check and write; what
survives any overlap is stated separately.

**JdWorkflow.**  `status`, `approval_status`, `reviewer_id`, `approved_by`, `revision_cycle` are columns of
`positions`, `submitted_by` is the submission's audit row; `session_position` is the session's column and
`feedback` the revision cycles whose message was injected in the chat; `request` and `request_position` are
the part of the hire request that matters here, moved by `RequestMoves` as `HireRequests` does.  A save is
`Save` (read the session), `SaveAgain` or `SaveNew`, `Attach`, then `Resolve` and `Submit`; the link is
`LinkSession` and `LinkPosition`.  Decision, withdrawal and cancellation are one transaction or one
compare-and-set, so one action.  `Reviewers` is `resolve_reviewer` with the organisation's two settings and its
replacement of whoever would review themselves.  `StatusRequests` are the statuses that callers ask of the
status endpoint.

**Applications.**  `queue` and `worker` model Celery as `celery_app.py` configures it: `acks_late` and
`reject_on_worker_lost` (`Die` puts the task back, `Take` gives it to a worker from its first statement),
`self.retry` up to the task's number (`Fail`).  Only tasks that one event sends, `score` and `invite`, live in
the queue; searches and outreach are also started by a schedule, an approval or a recruiter, so `StartSearch`
and `StartOutreach` are always possible, which covers whatever the queue would do with them.  `unscored`
collects what nothing in the code will ever score: the task was not sent (broker down, process died, both only
logged), or its retries are used up.  Scores are `high` or `low`: on either side of the threshold of the
position.  `Rate` is shared by the search and the scoring task and writes its lane over any other.  The UPDATE of
a lane and the INSERT of its event are two statements, in a task (`Rate`, then `RecordFound` or `RecordScore`)
and in a completion (`CompleteApplication`, then `RecordApplied`): a worker or a handler that ends between them
leaves the lane without the event.  `causes` is therefore a history of its own, of what has written a lane,
its event there or not, and `recording` are the completions before their event; a completion that ends there
has not sent its scoring either, which `unscored` notes.  So `LaneHasCause` speaks of causes and not of events, and
asks for the event only of a completion that got that far.
`GradeTest` stands for the whole of `PreEvaluations`.

**PreEvaluations.**  `eval` are the rows of `pre_evaluations`; `history` keeps outcomes that the status may
lose.  A batch copies the submitted tests (`FetchBatch`), then per test writes the verdict (`GradeSingle`) and
the lane (`RouteSingle`, whose error is only logged), then compares the answers it copied (`DetectCollusion`)
and puts the applications of the flagged tests on hold (`RevertFlagged`).  Answers are copied or not: the
copies are alike, other answers are not.  `submit_evaluation` is `CheckSubmission` and `WriteAnswers`, since it
reads the status and then writes without a condition.  `MoveElsewhere` stands for `Applications`.

### The recruiters' and reviewers' pages

**ChatSessions.**  `session` are the rows of `chat_sessions`, `chat` the `useState` values of the provider,
`current` the turn whose `AbortController` the ref holds, `turn` each POST to the stream endpoint with the
events that are on their way, `page` the router's entry, `ChatPage`'s refs and the effects that are due.
`RunEffects` runs both effects (twice on mount under `StrictMode`); `SeedDue`, `OpenDue` and `InitDue` are
their guards.  A turn is `Send`, `Accept` or `RefuseBudget`, `Emit`, `Persist`, `Receive`, `Close`; `Cancel`
and `Interrupt` are the client that hangs up and the server that dies.  `minted[k]` is the set of sessions that
the pickup of one navigation was sent to.

**JdEditor.**  A text is a number; an edit, an accepted fix or a rewrite makes the next one.  `row` is the
session's row, `editor` what `FinalJDCard` and the part of the context it shows hold, `stream` and `orphan` the
turn that is read and one that no longer is but goes on in the server, `drafts` the calls on their
way.  The reducer's rules for keeping or dropping the check result are `ResetCheck`, `FollowLive`, `BiasCard`;
`Widgets` and `Footer` are the conditions under which the buttons are there.  `Unmounts` is a document that goes
from the page, to another page or session (`LeaveChat`), with its tab (`CloseTab`), or because a turn broke and
left no text: the card and its modal go with all they knew, the calls go on, and `LoadSession` brings the
row as it is by then, whatever is still on its way.

**PositionSetup.**  `saves` are the `save-position` calls with the statement the server has reached, `SaveReads`
(the session's row), `SaveInserts`, `SaveLinks`, `SaveSubmits`; `SaveFails` cuts one anywhere.  `by` says who still
waits for the answer: the modal, a tab whose modal is gone, or nobody.  Closing the modal keeps what it waits for;
leaving the document (`LeaveDocument`, `TimerFires`, `CloseSetupTab`) does not, and a new modal offers the save again,
with the first still on its way.  `held` counts the session's positions, and `leftBehind` notes that a save
was left, lost or cut before the session had one: then a second position is possible (section 5); without it,
whatever the recruiter closes, opens and tries again, it is not (`OnePositionPerSession`).

**JdReviewTab.**  Each reviewer's page works on the position it loaded; the server's checks are in `JdServed`,
and what the recruiter does in the chat is `Resubmit`.  **HireDesk** does the same for a hire request; there a
call is served in one step, because `HireRequests` has its statements; `HappensElsewhere` moves the request as
the other people do.  A page may be left with its call on its way: the answer then moves nothing but what it
navigates to (`DeskGoes`).  `Silenced` is how a new filter makes the answers of the old one unwanted (an effect's
clean-up).

**StaffSession.**  `auth` is the provider's state, `stored` the copy in `sessionStorage`, `place` the route the
guards let through (`Guarded`), `acct` the calls on their way, `mail` the links in the mailbox.  A token may be
refused at any time.  `KeptToken` is the comparison with the current token that `refreshUser` makes when its
answer comes.

**Settings.**  `SettingsRail`: which section a role is shown by rail or address, and switches that move before
the server answers and back when it refuses.  `QuestionsTab`: `AfterDrop` maps a drag in the filtered list back
to the whole one, by the places that the filter shows (`ShownPlaces`, `PlaceAmong`); `ReorderRow`
saves row by row.  `TemplatesTab`: a text is known by the template it was
written for, and `DraftInto` is where a late draft goes.  `TeamTab`: one form for invitations and edits with
its timer.  `CompetitorsTab`: the count and the insert are two statements.  **PlatformDesk**: the keys are
numbered as they are typed, `keySends` are the saves that carried each.

### The candidates' and panelists' pages

**ApplyChat.**  `chatRow` is the `candidate_sessions` row, `acall` a slot per handler and tab, for opening, chatting
and uploading.  `ReadSession` keeps the state that the handler read; `SaveReply` writes back the whole of it after
the model was asked; `StepAfter` is the router of `candidate_chat.py`.  An upload is `StoreResume` and
`AdvanceResume`.  `CompleteByLink` is `POST /apply/{token}/complete`, which no page sends: it sets the status to
`applied` for whoever holds the link, at any step and with no resume.  So what the run claims of the resume is
about the conversation (`ResumeBehindChat`, with `byChat` for an application that the conversation completed), and
not about `applied`.
**Careers**: the reads of a route in any order, and `FindApplication` / `InsertApplication`.
**CandidatePortal**: the link is consumed (`ConsumeLink`) before the password is stored (`StorePassword`), and a
submission is `CheckPending` and `StoreAnswers`.

**PanelFeedback.**  `seat` is a panelist's row and scorecard.  `submit_feedback` is `CheckFeedback`,
`StoreScorecard`, and for final ones `MarkSubmitted`, `LogFeedback` (the event), `CountPanel`, `NotifyRecruiter`.  Each
may fail or die (`FeedbackFails`): behind the mark the retry is refused, and nobody is told unless another panelist
marks later; `notice.cut` notes that.  `notice.creator` is whether the position has somebody to tell.
`FeedbackLost` and `LeavePanel` leave the call running.

**InterviewRounds** keeps each tab's copy of the round (`RoundSeen`) and `CanAct`, the condition on it.
`create_interview` inserts the round (`CreateRound`) and then its panelists; until the last is there
(`PanelOnRecord`) the marks count for those who are, and an empty panel counts as complete.  `PanelFeeds` stands for
`PanelFeedback`: a mark stays, the scorecards (`cards`: every one is there and none is a draft) come and go.
`ReadScorecards` looks at the cards, the page at the marks; `debrief` is what the last debrief was drafted from.  The
copy's field `panel`, whether the panel was on record when it was read, is a history the page cannot see.

**Erasure.**  `reqRow` has a row per candidate and token; `RequestErasure`, `ReadPending`, `WriteRequests`,
`VerifyErasure` are the public page and its calls, `ReadForErasure` and `Erase` the read and the transaction of
`process_deletion`.  `wiped` counts how often a row's erasure was carried out.

**PipelineBoard**, **CandidatePage**, **TalentPool**.  A row shows the stage of the list that came last;
`Listed` are the ranks of the rows that the table shows, in the order of the ranks; `KeyMove` sends the stage
after the one shown.  The candidate page is not mounted anew on a history step, so
answers may come into the page of another candidate (`HistoryTo`).  The talent pool reads its token under a
key that nothing writes (below); `PoolToken` says whether one is there, and the run assumes one.

## 3. Runs

| run | instance | what it shows |
|---|---|---|
| `hire_requests` | 6 users (a lead, an admin in each of two departments, a head, two recruiters), 2 payloads, 2 calls, with fairness | every pair of handlers interleaved at each statement: `LockIffReviewing`, `PickupWasApproved`, `DecidedNeverRequeued`, `PickupNotCancelled`; the lock implements `ReviewLease` (`LeaseSpec`), and no admin keeps it for ever (`LockEventuallyFreed`) |
| `hire_requests_serial` | same, 2 positions, 1 call | the documented lifecycle when calls do not overlap: `OneOutcome`, `FulfilledIsLinked`, `TerminalIsFinal`, `FirstPickupWins`, `TermsFrozenOnceReviewed` |
| `jd_workflow` | 3 users, 1 position, 2 calls, one account deactivated | `PendingHasReviewer`, `NoSelfApproval`, `LateDecisionLoses` |
| `jd_workflow_serial` | 3 users, 2 positions, 1 call, automatic approval, one account deactivated | `FeedbackInChat`, `SessionKeepsPosition` |
| `applications` | 1 application, 2 workers, 1 retry of scoring | `NobodyForgotten`, `LaneHasCause`, `TestsAreEarned` |
| `applications_live` | 1 application, 1 worker, with fairness | `AppliedIsScored` |
| `pre_evaluations` | 2 applications, 2 tests, 1 batch at a time, with fairness | `LaneHasVerdict`, `ColludersHeld`, `SubmittedIsGraded` |
| `desk_pages` | the chat and JD pages, hire request pages, session, settings, platform page: 12 scenes | `PickupMintsOnce`, `OneStreamIsRead`, `OnePositionPerSession`, `ListShowsFilter`, `DropLands`, `TextUnderItsOwn`, `KeysSentOnce`, `SignedOutStaysOut`; all types |
| `hiring_pages` | the candidates', panelists' and pipeline pages: 12 scenes of 9 modules | `ResumeBehindChat`, `DoneIsVerified`, `DoneIsStored`, `AllInAnnounced`, `SuccessIsIn`, `NoEarlyDebrief`, `RepeatMovesOnce`; all types |
| `erased_once` | 1 request, 2 desks | violated: both desks erase |
| `feedback_final` | 1 panelist, 2 tabs | violated: a draft replaces the submitted feedback |
| `locked_once_approved` | 2 reviewers | violated: an edit opened before the approval is stored after it |

**Scenes.**  The page modules share no state with each other, so `MCDeskPages` and `MCHiringPages` check many of
them in one run without composing them: `scene` is chosen in the initial state and never changes, only the
module on the scene moves, and the others keep one initial state.  The states of such a run are the sum of
the modules' states, not their product, and what is checked of a module is what a run of that module alone
would check.  Three modules have two scenes each, bounded differently: `ApplyTabs` (two tabs, one call in flight)
and `ApplyCalls` (one tab, two calls); `PanelRace` (two panelists without notes, who send complete ratings and of
whom one hears every answer, on a position with a creator) and `PanelNotes` (one with notes); `RoundTabs` (one tab
schedules the round, typing in the time, another completes and debriefs it) and `RoundForm` (one tab with all of the form
and the card).

**Types.**  The type invariants of the workflow modules are proved (`TypeCorrect`, `JdTypes`, `AppTypes`,
`TestTypes`), so their runs do not repeat them.  Those of the pages are checked by `DeskPagesTypeOK` and
`HiringPagesTypeOK`, and proved too.  Seven modules, `JdReviewTab` apart from its violated property,
`SettingsRail`, `TeamTab`, `CompetitorsTab`, `Careers`, `TalentPool` and `CandidatePage`, have no other property:
what their code promises is said nowhere, or it is broken in the ways listed in section 5.

**Bounds.**  The races on the server are between two statements of two handlers, so two calls, or two workers,
give every ordering; a third adds no new pair, and the safety properties are proved for any number.  Two
payloads are one change of department; two positions are what a crashed save leaves behind; one application
suffices because no statement but the bulk rejection touches two, and the proofs cover that one.  Lock
thresholds are 1 and 3 ticks, which keeps *fresh*, *stale* and *expired* apart (`StaleAfter < ExpireAfter` is
all that is assumed); `MaxAge`, `MaxCycle` (revision cycles) and `Retries` are the other bounds.  Two tests are
the fewest that can be alike, and one may belong to the other's application, which is the second test a
redelivered invitation creates.  On the pages, what is numbered is bounded: navigations and turns (`Key`, `Turn`:
two, the fewest of which one can outlive the other), texts, fixes and drafts (`MaxText`, `MaxFix`,
`MaxDraft`), saves of a position (`MaxSave`: two, the fewest that overlap), questions (three: one dragged over one hidden by the filter), templates, keys; and the calls
on their way (`Max...Calls`, `MaxMoves`, `MaxReads`, `MaxPoolLoads`): two or three, so that calls
overlap, but one in `JdReviewTab` (two reviewers in its violated run), `QuestionsTab` and `TalentPool`, and one
read per tab in `Careers` and in `PipelineBoard`.  A scene stops when its numbers are used
up, hence `CHECK_DEADLOCK FALSE` in those two runs and in the three violated ones; the runs of the workflow check
deadlock.  Symmetry (of workers, of calls) is used only in runs without liveness.

**Fairness.**  `HireRequests`: time passes and Celery beat runs the sweep every five minutes (weak fairness of
`Tick` and `Sweep`); users owe nothing.  `Applications`: a worker that is alive goes on (weak fairness of
`Work`); the completion's last statement runs or is recorded as lost (`SendScoring`); a scoring task is not
interrupted for ever (strong fairness of taking and running it), as a bound on redelivery that the broker does
not state but that a worker which is not killed each time gives.  `PreEvaluations`: the schedule starts
batches every three hours, a batch goes on, and the model's answers about one test are not unusable for ever
(strong fairness of `GradeSingle` per test).  The pages have no fairness and no liveness property: an answer
may never come, and a user may leave.

## 4. Proofs

All theorems hold for every value of the constants under the assumptions named in the modules: the types of the
constants, bounds that are numbers, a NULL that is not a value, and what the code says of its own lists (the
sweep's threshold is above the takeover's; there is a panelist; a profile question is not a step of the
conversation; the board's stages are listed once; `selected` is a stage).  Some theorems assume more, and
say so: one call at a time (`OneAtATime`, `OneCall`), one batch at a time (`OneBatch`), one
privacy tab (`OneDesk`), no forged status (`NoForgedSubmission`).  Every invariant and every action property that
a passing run checks is stated by a theorem.

The server:

* `HireRequests_proofs`.  `TypeCorrect`; `DecisionsStay`, `PickupSurvivesCancel` step by step from it.
  `LockAgreesWithStatus` and `PickupNeedsApproval` need the strengthened `IInv` (theorem `Invariance`): a call
  on its way to a pickup or a link was admitted on an approved row, so the approval is in the audit log, and
  the row never goes back to the queue.  `LockIsLease` is the safety half of the refinement of `ReviewLease`:
  each step is a lease step or leaves the lock alone.  With `OneAtATime` (one call), `SerialInvariance`
  strengthens the lifecycle by what the check of the call in flight still says about the row, and gives
  `TerminalStays`, `FulfilledHasPosition`, `OutcomesExclude`, `FirstRecruiterStays` and `ReviewedTermsStay`.
* `JdWorkflow_proofs`.  `JdTypes` without assumption.  `ReviewInvariance` adds that the reviewer in the locals
  of a submission was resolved for its submitter and that heads' JDs never wait, because resolution and
  submission are separate statements; from it `EveryPendingJdHasReviewer`, `ReviewersApproveOthers`,
  `LateDecisionsLose`.  They assume `NoForgedSubmission`: nobody asks the status endpoint for
  `pending_jd_approval` or `draft_needs_revision`.  The endpoint would write either over any position, with no
  reviewer; without the assumption the properties are false.  With `OneCall` as well, `SessionInvariance` says
  what the save in flight remembers: a save that found no position attaches the session's first, which nobody
  has reviewed yet.  `SessionsKeepPositions` and `FeedbackReachesChat` follow, crashes included.  With two
  saves in flight both are false.
* `Applications_proofs`.  One inductive invariant, `AppsInv`: every task in the queue is about an application
  and within its retries, an invitation only for somebody who reached the threshold, and each step of a
  worker belongs to its task, which is what makes a redelivery at any statement harmless; plus a score has
  its cause and a bulk rejection has selected low scores.  `OnlyEarnedTests`, `LanesHaveCauses` and
  `NobodyIsForgotten` follow, with workers and handlers that end between a lane and its event; the last by showing that only a completion makes anybody wait, and that a step
  which takes a scoring task away scores, queues it again, or gives it up visibly.  Events only grow
  (`EventsStep`), so causes are never lost.
* `PreEvaluations_proofs`.  `LanesHaveVerdicts` for any number of *overlapping* batches, which the run does not
  cover: outcomes of a test only grow, a test never changes its application, and a batch that is about to
  route or to hold has already written that outcome (`TestsInv`).  `ColludersAreHeld` assumes `OneBatch` and any
  number of tests: the test that is being routed is not yet flagged, and a flagged one is on hold or about to
  be put there by the batch that flagged it (`HeldInv`).  With two batches it is false, since one may route a
  test after the other has flagged it.

The pages.  Each invariant is about what a page remembers of a call that is still on its way.

* `DeskPages_proofs`.  *Chat* (`ChatInv`): a navigation that has sent a pickup no longer carries it, and the page
  that shows the navigation has noted that it seeded it, so that neither a second run of the effects nor a
  return to the entry sends it again (`OnePickupOneSession`); `StreamsDoNotMix` follows from the turns alone.
  *Position setup* (`SetupInv`): unless a save was left behind, of all calls on their way only the one the modal
  waits for can still insert, and whoever has inserted or found a position stands for the one the session has or
  is about to have (`APositionPerSession`).  *Hire request pages* (`ShelfInv`): a list call that may still be used
  asks for the filter its tab has now (`ListsShowTheirFilter`).
* `StaffPages_proofs`.  *Session* (`SessionInv`): storage holds no token once memory holds none; a stored token is
  being validated exactly as long as the provider loads, and no refresh runs meanwhile; a late answer
  therefore finds the token it was asked with, or changes nothing (`OutUntilSignedIn`).  *Templates* (`TemplatesInv`): a text on
  its way is the text of the template its call names (`TextsStayUnderTheirOwn`).  *Keys* (`KeysInv`): what the
  form would send, and what is still to be typed, was not sent (`EachKeyIsSentOnce`).  *Questions*
  (`QuestionsInv`, with every list on its way free of repetitions): places and shown places correspond one to
  one (`ShownAt`), so a drop in the filtered list takes out one place of the whole one and puts it back at one
  place (`DroppedList`); what is shown there, and that all other rows keep their order, is arithmetic on
  places (`MovedPlaces`, `OneDropLands`, `DropsLand`).
* `CandidatePages_proofs`.  *Portal*: an answer "ok" to a submission was given after the answers were stored, and
  stored answers stay (`SubmittedIsTrue`); the call that consumed the setup link is the only one that stores a
  password (`LinkInv`), so that a link sets at most one (`PortalTypes`).  *Erasure* (`ErasureInv`): a page holds a
  token only after the call that asked with it has inserted rows for it, `pending` is written only under a
  token nobody has yet, and so a verified row never goes back (`ConfirmedIsTrue`).  With `OneDesk` a request is
  erased once (`OneDeskErasesOnce`), so what `erased_once` shows takes two desks: a token is known to one page,
  hence a verification that has read pending rows does not write over rows that were erased meanwhile
  (`OnceInv`; a verification that its page gave up is taken not to write later).  *Application chat*
  (`ApplyInv`): a state that is past the upload, in the row or in the locals of a call that will write it back,
  has its resume stored (`ResumeBehind`); nothing of the kind holds of `applied` itself, which the link
  sets.
* `InterviewPages_proofs`.  *Panel* (`PanelInv`) follows a final submission through its statements: past
  `MarkSubmitted` the panelist's row says so, and a page waits for an answer only of its own call.  Hence
  `SuccessIsTrue`; and `LastOneTells`, because whoever marks last counts after its mark, when all others have
  marked, and either tells or is cut, which is noted.  *Rounds* (`IvInv`): marks fall while the panel is put on
  record and no more afterwards, so a copy that shows them all, and a debrief asked for from that copy, are right
  however old they are if the copy is not older than the panel (`DebriefsComeLate`).  *Board* (`MovesInv`): a move made
  for the list that is shown goes one stage from where the list has its candidate (`MovesRepeat`).

The types of each page follow from the same invariants (`ChatTypes`, `PortalTypes`, `CareersTypes`, `BoardTypes`,
and so on).  Where the type of a count is a bound, the bound is proved: `LinkInv` for the passwords of a link,
`CountsFit` for the erasures of a row, `ListedFits` for the focused row of the board.  `DeskPagesTypes` and
`HiringPagesTypes` put them together for the two instances as the runs check them: a step of an instance is a
step of one module that leaves the variables of the others alone (`OnePageMoves`), so that the conjunction of
the modules' invariants is inductive.

Checked by TLC only: the liveness properties `LockEventuallyFreed`, `AppliedIsScored`, `SubmittedIsGraded` and the
liveness half of `LeaseSpec`, because fairness and ENABLED are beyond the prover.

## 5. Findings

Three statements that the code does not keep each have a run that shows it and an entry in `PROJECT.json`:

* `erased_once`: `process_deletion` reads the status before its transaction and writes it without a condition;
  two desks both erase, although the comment at `services/gdpr_service.py:304` says the second fails.
* `feedback_final`: a draft saved after the final submission replaces the scorecard, although
  `Panel/PanelPage.jsx:463` says submitted feedback cannot be edited.
* `locked_once_approved`: an edit that was opened before the approval is stored after it, although
  `Positions/tabs/JDTab.jsx:107` says an approved JD is locked.

Seen while modelling, in the models or beside them, with no run of their own.  On the server:

* `finish_and_save_position` reads whether the session has a position first and links it last: with the document
  left and opened again while a save is on its way, a second save inserts a second position, although
  `docs/qa/bug_fixes_log.md:724` says of the check that it "prevents pipeline duplication".  `PositionSetup` has
  these behaviours, and `OnePositionPerSession` names them as its exception (`leftBehind`).
* The page offers the debrief by the marks, and `generate_debrief` reads the scorecards that are not drafts; one that
  was drafted over is left out, although `README.md:244` says "AI debrief from all scorecards".
  `InterviewRounds` has these debriefs too (`short`).
* Any approver decides under the fresh review lock of another: approve and reject do not look at the lock
  (`services/hire_requests/approvals.py:35`).
* A second save of a session revives a cancelled JD, which the documented state machine ends
  (`services/chat_service.py:309`).
* A save submits the JD before the request is linked, so the team lead who filed it is not asked; the link
  afterwards marks the approval pending although the position may be open
  (`services/hire_requests/crud.py:347`).
* A selection made by a recruiter is overwritten by scoring, searches and grading (`Rate`, `RouteSingle`).
* Overlapping calls on a hire request: second pickup, late edit, stale release, overturned rejection (above).
* Asking the status endpoint for `closed` passes the text `NOW()` as a timestamp, which the driver refuses
  (`services/positions/crud.py:80`).
* Outreach only mails applications that are `sourced`, and a search moves whom it finds to `screening` or
  `on_hold` in its next statement, so of those it reaches only the ones whose scoring failed.  A link that
  a recruiter generates counts as sent.
* A worker that dies between the mail and its mark sends the mail again.
* A grading batch that dies after the verdict leaves the application in screening, one that dies after
  flagging leaves it in the interview lane; neither is found again.  Copies in different batches are never
  compared.
* The limit of three competitors is counted, then the row is inserted: two saves at the limit both pass
  (`services/settings_service.py:140`).
* `POST /apply/{token}/complete` makes an application `applied`, mails and scores it at any step of the conversation and
  without a resume (`routers/apply.py:236`, `services/apply_service.py:321`).
* A submission of feedback that fails behind its mark tells nobody: the retry is refused
  (`services/interview_service.py:444`), so the recruiter may never hear that all feedback is in.
* A completion or a scoring that dies between its UPDATE and its event leaves a lane the timeline does not explain
  (`tasks/candidate_pipeline.py:345`, `services/apply_service.py:361`).
* A round whose creation died before its panelists counts as having all feedback, and is offered a debrief of nothing
  (`Candidates/tabs/InterviewsTab.jsx:61`).  So is one whose copy was read in between.
* A new application session inserts a uuid into `candidate_sessions.id`, a SERIAL (`services/apply_service.py:544`,
  `db/migrations.py:149`), which the database refuses.  In `ApplyChat` the constant `TextKey` says whether the
  column takes it, and the run assumes that it does; without it no session is ever made, and the
  endpoint just named is the only way to `applied`.

On the pages:

* The talent pool page reads its token from `localStorage` under `token`, a key nothing in the front end writes
  (`TalentPool/TalentPoolPage.jsx:78`, 391, 443): its calls go out without one.
* The career page stores late answers: the list of an earlier filter, or the position of an earlier route, may
  be shown under the current one (`Careers/CareerPage.jsx:107`).
* After a history step, answers for the previous candidate arrive in the page of the current one
  (`Candidates/CandidateHero.jsx:111`).
* A second click on an edit in the team form, after the save emptied it and before it closes, sends the default
  role: the member becomes `hr` (`Settings/tabs/TeamTab.jsx:80`).
* A switch of the approval rules that is refused rolls back whatever department is shown by then
  (`Settings/tabs/ApprovalRulesTab.jsx:75`).
* A cancelled edit of a JD stays in the text that is shown, while the approval approves the stored one
  (`JDTab.jsx`).
* The status menu opens a position that waits for its reviewer (`PositionHero.jsx`).
* An API key typed while a save is on its way is dropped when the answer clears the form
  (`Settings/tabs/ProvidersTab.jsx:55`).

## 6. Not modelled

* `PATCH /positions/{id}` writes any column: the text that `JdReviewTab` sends is modelled, arbitrary columns are
  not, since any state can follow.
* Billing: linear calls to the provider; the cases to know are two confirmations of one invoice
  (`services/billing_service.py:121`) and a crash between the payment and the plan, which no retry repairs (132).
* Quotas and failed logins: each is a count and a later write without a lock (`services/quota_service.py:171`,
  `services/auth_service.py:197`); two at the same time pass the limit, or count once.
* Messages that are sent after a commit: the search of an approved position
  (`services/positions/approvals.py:438`), an invitation that failed and is not tried again
  (`tasks/candidate_pipeline.py:465`).  `Applications` starts searches and outreach at any time and so says
  nothing about one that is lost.
* The retention task (`tasks/gdpr_cleanup.py`), which executes what is verified as a desk does; a crash inside
  it leaves the rest of its list to the next day.
* Tenant context, row-level security, permissions beyond the role checks that guard a modelled operation.
* The conversation of the JD chat, reminders, tags, embeddings, transcripts, notifications, mails, calendar,
  audit queries, dashboards, analytics, developer pages, departments, organisation and integrations settings,
  the interview kit, talent pool search, rate limiter: they have no protocol, or nothing modelled reads
  them.
* Code that nothing calls: `services/scorecard_service.py`, `Positions/tabs/PipelineTab.jsx`, `pages/Careers.jsx`, `Chat/MessageList.jsx` and the
  cards only it uses, the agents' bias block.
* Compositions across modules beyond the shared definitions: `GradeTest`, `MoveElsewhere`, `RequestMoves`,
  `PanelFeeds`, `Resubmit`, `HappensElsewhere` each stand for another module and allow at least what it does, which
  is argued in their comments and not proved.
* Language models and providers are external; whatever they answer is a nondeterministic choice.
