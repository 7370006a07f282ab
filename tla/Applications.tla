---------------------------- MODULE Applications ----------------------------
(***************************************************************************)
(* The applications to one position: sourcing, scoring, outreach, applying, *)
(* and what recruiters move.                                               *)
(*                                                                         *)
(* Celery delivers a task at least once: a task whose worker dies comes    *)
(* back (task_acks_late), a task that raises is queued again as long as it *)
(* has retries.  A statement autocommits, so workers and handlers run one   *)
(* statement at a time: the UPDATE of a lane and the INSERT of its event   *)
(* are two, and a worker or a call may end between them.                   *)
(*                                                                         *)
(* Searches and outreach are asked for at any time (approval, schedule,    *)
(* recruiter), so a worker may start one at any time; only tasks that one  *)
(* event sends, score and invite, are kept in the queue.  Scores are       *)
(* abstracted to whether they reach the threshold.                         *)
(***************************************************************************)
EXTENDS Naturals, FiniteSets

CONSTANTS
    Application,  \* candidates that may apply to the position
    NoApp,        \* no application
    Worker,       \* Celery worker processes
    Retries,      \* how often a task of each kind is retried after an error
    Moves         \* the statuses recruiters ask for

Kind == {"search", "score", "invite", "outreach"}

\* What update_status accepts.
AllowedStatuses == {"sourced", "emailed", "applied", "screening", "interview", "on_hold",
                    "selected", "rejected"}

ASSUME ApplicationsAssumption ==
    /\ NoApp \notin Application
    /\ Retries \in [Kind -> Nat]
    /\ Moves \subseteq AllowedStatuses

VARIABLES
    status,      \* candidate_applications.status, "none" before the INSERT
    score,       \* skill_match_score: above the threshold or not
    sent,        \* magic_link_sent_at is set
    events,      \* pipeline_events of the application that matter here: applied,
                 \* and scored above the threshold
    causes,      \* scores and moves given to it, their events written or not: a
                 \* history that no statement reads
    recording,   \* completions that have not reached their event
    tested,      \* applications with a row in pre_evaluations
    completing,  \* completions of the apply chat that have not sent the scoring task
    rejecting,   \* the rows a bulk rejection has selected
    queue,       \* tasks the broker holds
    unscored,    \* applications whose scoring was not sent, or failed for good
    worker       \* local state of each worker

lanes == <<status, score, sent, causes>>
application == <<lanes, events>>
vars == <<application, tested, recording, completing, rejecting, queue, unscored, worker>>

Task == [kind : Kind, app : Application \cup {NoApp}, tries : Nat]
NewTask(kind, a) == [kind |-> kind, app |-> a, tries |-> 0]

\* A worker at rest; otherwise `step` is the statement it runs next.
Idle == [step |-> "idle", task |-> NewTask("search", NoApp), app |-> NoApp, todo |-> {}, rated |-> "none"]

TypeOK ==
    /\ status \in [Application -> AllowedStatuses \cup {"none", "magic_link_sent"}]
    /\ score \in [Application -> {"none", "high", "low"}]
    /\ sent \in [Application -> BOOLEAN]
    /\ events \in [Application -> SUBSET {"applied", "high"}]
    /\ causes \in [Application -> SUBSET {"moved", "high", "low"}]
    /\ recording \subseteq Application
    /\ tested \subseteq Application
    /\ completing \subseteq Application
    /\ rejecting \subseteq Application
    /\ queue \subseteq Task
    /\ unscored \subseteq Application
    /\ worker \in [Worker -> [step : {"idle", "find", "rate", "score", "record", "enqueue", "test",
                                      "mail", "send", "mark"},
                              task : Task, app : Application \cup {NoApp}, todo : SUBSET Application,
                              rated : {"none", "high", "low"}]]

Init ==
    /\ status = [a \in Application |-> "none"]
    /\ score = [a \in Application |-> "none"]
    /\ sent = [a \in Application |-> FALSE]
    /\ events = [a \in Application |-> {}]
    /\ causes = [a \in Application |-> {}]
    /\ recording = {}
    /\ tested = {}
    /\ completing = {}
    /\ rejecting = {}
    /\ queue = {}
    /\ unscored = {}
    /\ worker = [w \in Worker |-> Idle]

\* The INSERT of an event; low scores leave none that matters.
Log(a, event) == events' = [events EXCEPT ![a] = @ \cup ({event} \ {"low"})]

\* The UPDATE that something causes.
Write(a, new, cause) ==
    /\ status' = [status EXCEPT ![a] = new]
    /\ causes' = [causes EXCEPT ![a] = @ \cup {cause}]

-----------------------------------------------------------------------------
(***************************************************************************)
(* The broker and its workers.                                             *)
(***************************************************************************)

Enqueue(task) == queue' = queue \cup {task}
GiveUp(task) == unscored' = IF task.kind = "score" THEN unscored \cup {task.app} ELSE unscored

\* The first statement of a task from the queue.
First(task) == IF task.kind = "score" THEN "score" ELSE "test"

Goto(w, step) == worker' = [worker EXCEPT ![w] = [@ EXCEPT !.step = step]]
Begin(w, step, task, todo) ==
    /\ worker[w].step = "idle"
    /\ worker' = [worker EXCEPT ![w] = [step |-> step, task |-> task, app |-> task.app,
                                        todo |-> todo, rated |-> "none"]]
Done(w) == worker' = [worker EXCEPT ![w] = Idle]

Take(w, task) ==
    /\ task \in queue
    /\ Begin(w, First(task), task, {})
    /\ queue' = queue \ {task}
    /\ UNCHANGED <<application, tested, recording, completing, rejecting, unscored>>

\* Mistake: A task was acknowledged when it was taken.
BugRedeliver(task) == UNCHANGED queue

\* task_acks_late and task_reject_on_worker_lost; a search or outreach may be
\* started again in any case.
Redeliver(task) == IF task.kind \in {"score", "invite"} THEN Enqueue(task) ELSE UNCHANGED queue

Die(w) ==
    /\ worker[w].step # "idle"
    /\ Redeliver(worker[w].task)
    /\ Done(w)
    /\ UNCHANGED <<application, tested, recording, completing, rejecting, unscored>>

\* Mistake: An error ends the task.
BugFail(w) ==
    /\ worker[w].step # "idle"
    /\ Done(w)
    /\ UNCHANGED <<application, tested, recording, completing, rejecting, queue, unscored>>

\* Any statement of a task may raise; self.retry queues it again.
Fail(w) ==
    LET task == worker[w].task IN
    /\ worker[w].step # "idle"
    /\ Done(w)
    /\ IF task.tries < Retries[task.kind]
       THEN Redeliver([task EXCEPT !.tries = @ + 1]) /\ UNCHANGED unscored
       ELSE GiveUp(task) /\ UNCHANGED queue
    /\ UNCHANGED <<application, tested, recording, completing, rejecting>>

-----------------------------------------------------------------------------
(***************************************************************************)
(* Sourcing.                                                               *)
(***************************************************************************)

\* _run_pipeline asks the source for people.
StartSearch(w) ==
    /\ \E found \in SUBSET Application : Begin(w, "find", NewTask("search", NoApp), found)
    /\ UNCHANGED <<application, tested, recording, completing, rejecting, queue, unscored>>

\* create_application: one row per candidate and position.
CreateApplication(a) ==
    status' = IF status[a] = "none" THEN [status EXCEPT ![a] = "sourced"] ELSE status

ProcessCandidate(w) ==
    /\ worker[w].step = "find"
    /\ \E a \in worker[w].todo :
        /\ CreateApplication(a)
        /\ worker' = [worker EXCEPT ![w] =
                        [@ EXCEPT !.step = "rate", !.app = a, !.todo = worker[w].todo \ {a}]]
    /\ UNCHANGED <<score, sent, causes, events, tested, recording, completing, rejecting, queue, unscored>>

\* Mistake: Every scored candidate goes to the screening lane.
BugRate(a, s) ==
    /\ score' = [score EXCEPT ![a] = s]
    /\ Write(a, "screening", s)
    /\ UNCHANGED <<sent, events>>

\* The score, and the lane it leads to, whatever lane the application is in.
Rate(a, s) ==
    /\ score' = [score EXCEPT ![a] = s]
    /\ Write(a, IF s = "high" THEN "screening" ELSE "on_hold", s)
    /\ UNCHANGED <<sent, events>>

Record(w, s) == worker' = [worker EXCEPT ![w] = [@ EXCEPT !.step = "record", !.rated = s]]

\* The next candidate of a search.
NextFound(w) ==
    worker' = [worker EXCEPT ![w] = [@ EXCEPT !.step = "find", !.app = NoApp, !.rated = "none"]]

\* An error in the scoring of one candidate is logged and the search goes on.
RateFound(w) ==
    /\ worker[w].step = "rate"
    /\ \/ \E s \in {"high", "low"} : Rate(worker[w].app, s) /\ Record(w, s)
       \/ UNCHANGED application /\ NextFound(w)
    /\ UNCHANGED <<tested, recording, completing, rejecting, queue, unscored>>

\* The event of the score, in a search; the same error handling.
RecordFound(w) ==
    /\ worker[w].step = "record"
    /\ worker[w].task.kind = "search"
    /\ Log(worker[w].app, worker[w].rated) \/ UNCHANGED events
    /\ NextFound(w)
    /\ UNCHANGED <<lanes, tested, recording, completing, rejecting, queue, unscored>>

EndSearch(w) ==
    /\ worker[w].step = "find"
    /\ worker[w].todo = {}
    /\ Done(w)
    /\ UNCHANGED <<application, tested, recording, completing, rejecting, queue, unscored>>

-----------------------------------------------------------------------------
(***************************************************************************)
(* Scoring an applicant, the invitation to the test, and outreach.         *)
(***************************************************************************)

\* Mistake: Everybody is invited to the test.
BugInvited(s) == TRUE
Invited(s) == s = "high"

ScoreApplication(w) ==
    /\ worker[w].step = "score"
    /\ \E s \in {"high", "low"} :
        /\ Rate(worker[w].app, s)
        /\ Record(w, s)
    /\ UNCHANGED <<tested, recording, completing, rejecting, queue, unscored>>

RecordScore(w) ==
    /\ worker[w].step = "record"
    /\ worker[w].task.kind = "score"
    /\ Log(worker[w].app, worker[w].rated)
    /\ IF Invited(worker[w].rated) THEN Goto(w, "enqueue") ELSE Done(w)
    /\ UNCHANGED <<lanes, tested, recording, completing, rejecting, queue, unscored>>

EnqueueInvite(w) ==
    /\ worker[w].step = "enqueue"
    /\ Enqueue(NewTask("invite", worker[w].app))
    /\ Done(w)
    /\ UNCHANGED <<application, tested, recording, completing, rejecting, unscored>>

\* _trigger_pre_evaluation; a position without interview kit has no test.
TriggerPreEvaluation(w) ==
    /\ worker[w].step = "test"
    /\ \/ Done(w) /\ UNCHANGED tested
       \/ tested' = tested \cup {worker[w].app} /\ Goto(w, "mail")
    /\ UNCHANGED <<application, recording, completing, rejecting, queue, unscored>>

SendInvite(w) ==
    /\ worker[w].step = "mail"
    /\ Done(w)
    /\ UNCHANGED <<application, tested, recording, completing, rejecting, queue, unscored>>

\* send_outreach_batch, for one of the applications of its batch.
StartOutreach(w, a) ==
    /\ status[a] = "sourced"
    /\ ~sent[a]
    /\ Begin(w, "send", NewTask("outreach", a), {})
    /\ UNCHANGED <<application, tested, recording, completing, rejecting, queue, unscored>>

SendOutreach(w) ==
    /\ worker[w].step = "send"
    /\ Goto(w, "mark") \/ Done(w)
    /\ UNCHANGED <<application, tested, recording, completing, rejecting, queue, unscored>>

MarkSent(w) ==
    /\ worker[w].step = "mark"
    /\ status' = [status EXCEPT ![worker[w].app] = "magic_link_sent"]
    /\ sent' = [sent EXCEPT ![worker[w].app] = TRUE]
    /\ Done(w)
    /\ UNCHANGED <<score, causes, events, tested, recording, completing, rejecting, queue, unscored>>

\* The next statement of the task a worker has.
Work(w) ==
    \/ ProcessCandidate(w) \/ RateFound(w) \/ RecordFound(w) \/ EndSearch(w)
    \/ ScoreApplication(w) \/ RecordScore(w) \/ EnqueueInvite(w)
    \/ TriggerPreEvaluation(w) \/ SendInvite(w)
    \/ SendOutreach(w) \/ MarkSent(w)

\* The test of the application is graded, or flagged: module PreEvaluations.
GradeTest(a) ==
    /\ a \in tested
    /\ status' \in {[status EXCEPT ![a] = lane] : lane \in {"interview", "rejected", "on_hold"}}
    /\ UNCHANGED <<score, sent, causes, events, tested, recording, completing, rejecting, queue, unscored, worker>>

-----------------------------------------------------------------------------
(***************************************************************************)
(* What candidates and recruiters do.                                      *)
(***************************************************************************)

\* The career page creates the application, or finds it.
StartApplication(a) ==
    /\ status[a] = "none"
    /\ CreateApplication(a)
    /\ UNCHANGED <<score, sent, causes, events, tested, recording, completing, rejecting, queue, unscored, worker>>

\* complete_application, with no look at the lane the application is in.
CompleteApplication(a) ==
    /\ status[a] # "none"
    /\ status' = [status EXCEPT ![a] = "applied"]
    /\ recording' = recording \cup {a}
    /\ UNCHANGED <<score, sent, causes, events, tested, completing, rejecting, queue, unscored, worker>>

\* Its event; a completion that ends before it does not send the scoring either.
RecordApplied(a) ==
    /\ a \in recording
    /\ recording' = recording \ {a}
    /\ \/ Log(a, "applied") /\ completing' = completing \cup {a} /\ UNCHANGED unscored
       \/ GiveUp(NewTask("score", a)) /\ UNCHANGED <<events, completing>>
    /\ UNCHANGED <<lanes, tested, rejecting, queue, worker>>

\* Its last statement; the task is lost when the broker is down, which is logged,
\* or when the process dies before it.
SendScoring(a) ==
    /\ a \in completing
    /\ completing' = completing \ {a}
    /\ \/ Enqueue(NewTask("score", a)) /\ UNCHANGED unscored
       \/ GiveUp(NewTask("score", a)) /\ UNCHANGED queue
    /\ UNCHANGED <<application, tested, recording, rejecting, worker>>

\* Its event is the next statement; no property is about the events of moves.
UpdateStatus(a, new) ==
    /\ status[a] # "none"
    /\ Write(a, new, "moved")
    /\ UNCHANGED <<score, sent, events, tested, recording, completing, rejecting, queue, unscored, worker>>

MarkSelected(a) == UpdateStatus(a, "selected")

\* A candidate of the talent pool goes to the first lane, also from another one.
AddToPipeline(a) ==
    /\ status' = [status EXCEPT ![a] = "sourced"]
    /\ UNCHANGED <<score, sent, causes, events, tested, recording, completing, rejecting, queue, unscored, worker>>

\* bulk_reject reads the ids first and then writes whatever has them.
Rejectable(a) == status[a] = "on_hold" /\ score[a] = "low"

SelectForRejection ==
    /\ rejecting = {}
    /\ rejecting' = {a \in Application : Rejectable(a)}
    /\ rejecting' # {}
    /\ UNCHANGED <<application, tested, recording, completing, queue, unscored, worker>>

WriteRejections ==
    /\ rejecting # {}
    /\ status' = [a \in Application |-> IF a \in rejecting THEN "rejected" ELSE status[a]]
    /\ rejecting' = {}
    /\ UNCHANGED <<score, sent, causes, events, tested, recording, completing, queue, unscored, worker>>

\* store_magic_link: the link counts as sent.
GenerateApplyLink(a) ==
    /\ status[a] # "none"
    /\ sent' = [sent EXCEPT ![a] = TRUE]
    /\ UNCHANGED <<status, score, causes, events, tested, recording, completing, rejecting, queue, unscored, worker>>

RetryAts(a) ==
    /\ status[a] # "none"
    /\ Enqueue(NewTask("score", a))
    /\ UNCHANGED <<application, tested, recording, completing, rejecting, unscored, worker>>

-----------------------------------------------------------------------------

Background == (\E w \in Worker : Work(w)) \/ (\E a \in Application : GradeTest(a))

Candidates ==
    \E a \in Application :
        StartApplication(a) \/ CompleteApplication(a) \/ RecordApplied(a) \/ SendScoring(a)

Recruiters ==
    \/ SelectForRejection \/ WriteRejections
    \/ \E a \in Application :
        \/ MarkSelected(a) \/ AddToPipeline(a) \/ GenerateApplyLink(a) \/ RetryAts(a)
        \/ \E new \in Moves : UpdateStatus(a, new)

Delivery ==
    \E w \in Worker :
        \/ Die(w) \/ Fail(w) \/ StartSearch(w)
        \/ \E a \in Application : StartOutreach(w, a)
        \/ \E task \in queue : Take(w, task)

Next == Background \/ Candidates \/ Recruiters \/ Delivery

Spec == Init /\ [][Next]_vars

-----------------------------------------------------------------------------

ScoreTasks(a) == [kind : {"score"}, app : {a}, tries : 0 .. Retries["score"]]

\* A scoring task of the application is about to be sent, waits, or is at its
\* scoring.
Scoring(a) ==
    \/ a \in recording \cup completing
    \/ ScoreTasks(a) \cap queue # {}
    \/ \E w \in Worker : worker[w].step = "score" /\ worker[w].app = a

\* An applicant that waits in the applied lane is being scored, or its scoring
\* was not sent or given up: neither a dying worker nor an error, nor a search or
\* an outreach that overwrites the lane in between, loses one
\* (complete_application, acks_late, self.retry).
NobodyForgotten ==
    \A a \in Application :
        \/ status[a] = "applied" /\ "moved" \notin causes[a]
        \/ "applied" \in events[a] /\ score[a] = "none"
        => Scoring(a) \/ a \in unscored

\* Where the automation put an application it has been for a reason: a score of
\* the right side of the threshold, or a test (the ATS lanes of _process_candidate
\* and _score_application, bulk_reject, _grade_single).  The reason is in the
\* timeline too, unless its call is before its event or ended there.
LaneHasCause ==
    \A a \in Application :
        \/ "moved" \in causes[a]
        \/ /\ status[a] = "screening" => "high" \in causes[a]
           /\ status[a] = "interview" => a \in tested
           /\ status[a] \in {"on_hold", "rejected"} => "low" \in causes[a] \/ a \in tested
           /\ status[a] = "applied" => "applied" \in events[a] \/ a \in recording \cup unscored
           /\ status[a] # "selected"

\* Only who reached the threshold gets a test, however often tasks are delivered
\* (_score_application sends trigger_pre_evaluation).
TestsAreEarned == \A a \in tested : "high" \in events[a]

-----------------------------------------------------------------------------
(***************************************************************************)
(* Fairness.  A task that is delivered again and again is not interrupted  *)
(* for ever: strong fairness of taking and of running a scoring task.      *)
(***************************************************************************)

TakeScore(a) == \E w \in Worker, task \in ScoreTasks(a) : Take(w, task)
RunScore(a) == \E w \in Worker : worker[w].app = a /\ ScoreApplication(w)

LiveSpec ==
    /\ Spec
    /\ \A w \in Worker : WF_vars(Work(w))
    /\ \A a \in Application :
        WF_vars(SendScoring(a)) /\ SF_vars(TakeScore(a)) /\ SF_vars(RunScore(a))

\* Everybody who applied is scored, unless the scoring was not sent or failed
\* for good (score_candidate_application with its retries).
AppliedIsScored ==
    \A a \in Application : "applied" \in events[a] ~> (score[a] # "none" \/ a \in unscored)
=============================================================================
