------------------------ MODULE Applications_proofs ------------------------
(***************************************************************************)
(* Proofs about Applications, for any number of applications, workers and  *)
(* retries.  Every theorem follows from one inductive invariant, AppsInv:  *)
(* what a task in the queue or in a worker may assume of its application.  *)
(***************************************************************************)
EXTENDS Applications, TLAPS

\* Whoever reached the threshold once.
Deserving == {a \in Application : "high" \in events[a]}

\* A task of the queue is about an application, was retried as often as allowed,
\* and an invitation goes to somebody who reached the threshold.
SoundTask(task, deserving) ==
    /\ task.kind \in {"score", "invite"}
    /\ task.app \in Application
    /\ task.tries <= Retries[task.kind]
    /\ task.kind = "invite" => task.app \in deserving

\* A worker's step belongs to its task.
SoundWorker(r, deserving) ==
    /\ r.step \in {"find", "rate"} => r.task.kind = "search"
    /\ r.step \in {"send", "mark"} => r.task.kind = "outreach"
    /\ r.step \in {"score", "enqueue", "test", "mail"} => r.app = r.task.app /\ SoundTask(r.task, deserving)
    /\ r.step \in {"score", "enqueue"} => r.task.kind = "score"
    /\ r.step \in {"test", "mail"} => r.task.kind = "invite"
    /\ r.step = "enqueue" => r.app \in deserving
    /\ r.step = "rate" => r.app \in Application
    /\ r.step = "record" =>
         /\ r.app \in Application /\ r.rated \in {"high", "low"}
         /\ r.task.kind \in {"search", "score"}
         /\ r.task.kind = "score" => r.app = r.task.app /\ SoundTask(r.task, deserving)

TasksInv ==
    /\ \A task \in queue : SoundTask(task, Deserving)
    /\ \A w \in Worker : SoundWorker(worker[w], Deserving)

\* A score was given, and a bulk rejection has selected low scores.
ScoresInv ==
    /\ \A a \in Application : score[a] # "none" => score[a] \in causes[a]
    /\ \A a \in rejecting : "low" \in causes[a]

AppsInv == TypeOK /\ TasksInv /\ ScoresInv /\ TestsAreEarned

-----------------------------------------------------------------------------
(***************************************************************************)
(* Types.                                                                  *)
(***************************************************************************)

WorkerRecord == [step : {"idle", "find", "rate", "score", "record", "enqueue", "test", "mail", "send", "mark"},
                 task : Task, app : Application \cup {NoApp}, todo : SUBSET Application,
                 rated : {"none", "high", "low"}]

\* What the steps of a worker do to the table of workers.
LEMMA WorkerType ==
    ASSUME TypeOK, NEW w \in Worker
    PROVE  /\ Done(w) => worker' \in [Worker -> WorkerRecord]
           /\ \A step \in {"enqueue", "mail", "mark"} :
                Goto(w, step) => worker' \in [Worker -> WorkerRecord]
           /\ \A s \in {"high", "low"} : Record(w, s) => worker' \in [Worker -> WorkerRecord]
           /\ NextFound(w) => worker' \in [Worker -> WorkerRecord]
           /\ \A step \in {"find", "score", "test", "send"}, task \in Task, todo \in SUBSET Application :
                Begin(w, step, task, todo) => worker' \in [Worker -> WorkerRecord]
<1>1. worker \in [Worker -> WorkerRecord]
  BY DEF TypeOK, WorkerRecord
<1>2. Idle \in WorkerRecord
  BY DEF Idle, WorkerRecord, NewTask, Task, Kind
<1>3. Done(w) => worker' \in [Worker -> WorkerRecord]
  BY <1>1, <1>2 DEF Done
<1>4. ASSUME NEW step \in {"enqueue", "mail", "mark"}, Goto(w, step)
      PROVE  worker' \in [Worker -> WorkerRecord]
  <2>1. [worker[w] EXCEPT !.step = step] \in WorkerRecord
    BY <1>1 DEF WorkerRecord
  <2> QED
    BY <1>1, <1>4, <2>1 DEF Goto
<1>5. ASSUME NEW step \in {"find", "score", "test", "send"}, NEW task \in Task,
             NEW todo \in SUBSET Application, Begin(w, step, task, todo)
      PROVE  worker' \in [Worker -> WorkerRecord]
  <2>1. [step |-> step, task |-> task, app |-> task.app, todo |-> todo, rated |-> "none"] \in WorkerRecord
    BY DEF WorkerRecord, Task
  <2> QED
    BY <1>1, <1>5, <2>1 DEF Begin
<1>6. ASSUME NEW s \in {"high", "low"}, Record(w, s) PROVE worker' \in [Worker -> WorkerRecord]
  <2>1. [worker[w] EXCEPT !.step = "record", !.rated = s] \in WorkerRecord
    BY <1>1 DEF WorkerRecord
  <2> QED
    BY <1>1, <1>6, <2>1 DEF Record
<1>7. ASSUME NextFound(w) PROVE worker' \in [Worker -> WorkerRecord]
  <2>1. [worker[w] EXCEPT !.step = "find", !.app = NoApp, !.rated = "none"] \in WorkerRecord
    BY <1>1 DEF WorkerRecord
  <2> QED
    BY <1>1, <1>7, <2>1 DEF NextFound
<1> QED
  BY <1>3, <1>4, <1>5, <1>6, <1>7

LEMMA TasksAreTasks ==
    /\ \A a \in Application, kind \in Kind : NewTask(kind, a) \in Task
    /\ NewTask("search", NoApp) \in Task
    /\ \A task \in Task : [task EXCEPT !.tries = @ + 1] \in Task
BY DEF NewTask, Task, Kind

\* Scoring writes a lane and a score, and is a cause.
LEMMA RateType ==
    ASSUME TypeOK, NEW a, NEW s \in {"high", "low"}, Rate(a, s)
    PROVE  /\ status' \in [Application -> AllowedStatuses \cup {"none", "magic_link_sent"}]
           /\ score' \in [Application -> {"none", "high", "low"}]
           /\ causes' \in [Application -> SUBSET {"moved", "high", "low"}]
           /\ sent' = sent /\ events' = events
BY DEF Rate, Write, TypeOK, AllowedStatuses

LEMMA AppTypeStep == TypeOK /\ TasksInv /\ [Next]_vars => TypeOK'
<1> SUFFICES ASSUME TypeOK, TasksInv, [Next]_vars PROVE TypeOK'
  OBVIOUS
<1> USE ApplicationsAssumption DEF ApplicationsAssumption
<1>1. worker \in [Worker -> WorkerRecord]
  BY DEF TypeOK, WorkerRecord
<1>2. ASSUME NEW w \in Worker, NEW task \in queue, Take(w, task) PROVE TypeOK'
  <2>1. task \in Task /\ First(task) \in {"score", "test"}
    BY DEF TypeOK, First
  <2>2. worker' \in [Worker -> WorkerRecord]
    BY <1>2, <2>1, WorkerType DEF Take
  <2> QED
    BY <1>2, <2>2 DEF Take, application, lanes, TypeOK, WorkerRecord
<1>3. ASSUME NEW w \in Worker, Die(w) PROVE TypeOK'
  <2>1. worker' \in [Worker -> WorkerRecord] /\ worker[w].task \in Task
    BY <1>1, <1>3, WorkerType DEF Die, WorkerRecord
  <2>2. queue' \subseteq Task
    BY <1>3, <2>1 DEF Die, Redeliver, Enqueue, TypeOK
  <2> QED
    BY <1>3, <2>1, <2>2 DEF Die, application, lanes, TypeOK, WorkerRecord
<1>4. ASSUME NEW w \in Worker, Fail(w) PROVE TypeOK'
  <2>1. worker' \in [Worker -> WorkerRecord] /\ worker[w].task \in Task
    BY <1>1, <1>4, WorkerType DEF Fail, WorkerRecord
  <2>2. [worker[w].task EXCEPT !.tries = @ + 1] \in Task
    BY <2>1, TasksAreTasks
  <2>3. queue' \subseteq Task
    BY <1>4, <2>2 DEF Fail, Redeliver, Enqueue, TypeOK
  <2>4. worker[w].task.kind = "score" => worker[w].task.app \in Application
    BY <1>1, <1>4 DEF Fail, TasksInv, SoundWorker, SoundTask, WorkerRecord
  <2>5. unscored' \subseteq Application
    BY <1>4, <2>4 DEF Fail, GiveUp, TypeOK
  <2> QED
    BY <1>4, <2>1, <2>3, <2>5 DEF Fail, application, lanes, TypeOK, WorkerRecord
<1>5. ASSUME NEW w \in Worker, StartSearch(w) PROVE TypeOK'
  <2>1. worker' \in [Worker -> WorkerRecord]
    BY <1>5, WorkerType, TasksAreTasks DEF StartSearch
  <2> QED
    BY <1>5, <2>1 DEF StartSearch, application, lanes, TypeOK, WorkerRecord
<1>6. ASSUME NEW w \in Worker, ProcessCandidate(w) PROVE TypeOK'
  <2>1. PICK a \in worker[w].todo :
          /\ CreateApplication(a)
          /\ worker' = [worker EXCEPT ![w] =
                          [@ EXCEPT !.step = "rate", !.app = a, !.todo = worker[w].todo \ {a}]]
    BY <1>6, Zenon DEF ProcessCandidate
  <2> DEFINE after == [worker[w] EXCEPT !.step = "rate", !.app = a, !.todo = worker[w].todo \ {a}]
  <2>2. after \in WorkerRecord
    BY <1>1 DEF WorkerRecord
  <2>3. worker' \in [Worker -> WorkerRecord]
    <3>1. worker' = [worker EXCEPT ![w] = after]
      BY <2>1, Zenon
    <3> HIDE DEF after
    <3> QED
      BY <1>1, <2>2, <3>1
  <2>4. status' \in [Application -> AllowedStatuses \cup {"none", "magic_link_sent"}]
    BY <2>1 DEF CreateApplication, TypeOK, AllowedStatuses
  <2> QED
    BY <1>6, <2>3, <2>4 DEF ProcessCandidate, TypeOK, WorkerRecord
<1>7. ASSUME NEW w \in Worker, RateFound(w) PROVE TypeOK'
  <2>1. CASE UNCHANGED application /\ NextFound(w)
    <3>1. worker' \in [Worker -> WorkerRecord]
      BY <2>1, WorkerType
    <3> QED
      BY <1>7, <2>1, <3>1 DEF RateFound, application, lanes, TypeOK, WorkerRecord
  <2>2. ASSUME NEW s \in {"high", "low"}, Rate(worker[w].app, s), Record(w, s) PROVE TypeOK'
    <3>1. worker' \in [Worker -> WorkerRecord]
      BY <2>2, WorkerType
    <3> QED
      BY <1>7, <2>2, <3>1, RateType DEF RateFound, TypeOK, WorkerRecord
  <2> QED
    BY <1>7, <2>1, <2>2 DEF RateFound
<1>8. ASSUME NEW w \in Worker, ScoreApplication(w) PROVE TypeOK'
  <2>1. PICK s \in {"high", "low"} : Rate(worker[w].app, s) /\ Record(w, s)
    BY <1>8 DEF ScoreApplication
  <2>2. worker' \in [Worker -> WorkerRecord]
    BY <2>1, WorkerType
  <2> QED
    BY <1>8, <2>1, <2>2, RateType DEF ScoreApplication, TypeOK, WorkerRecord
<1>26. ASSUME NEW w \in Worker, RecordFound(w) \/ RecordScore(w) PROVE TypeOK'
  <2>1. worker' \in [Worker -> WorkerRecord]
    BY <1>26, WorkerType DEF RecordFound, RecordScore
  <2>2. worker[w].rated \in {"high", "low"}
    BY <1>26 DEF RecordFound, RecordScore, TasksInv, SoundWorker
  <2>3. events' \in [Application -> SUBSET {"applied", "high"}]
    BY <1>26, <2>2 DEF RecordFound, RecordScore, Log, TypeOK
  <2> QED
    BY <1>26, <2>1, <2>3 DEF RecordFound, RecordScore, lanes, TypeOK, WorkerRecord
<1>9. ASSUME NEW w \in Worker, EnqueueInvite(w) PROVE TypeOK'
  <2>1. worker[w].app \in Application
    BY <1>9 DEF EnqueueInvite, TasksInv, SoundWorker, SoundTask
  <2>2. queue' \subseteq Task
    BY <1>9, <2>1, TasksAreTasks DEF EnqueueInvite, Enqueue, TypeOK, Kind
  <2>3. worker' \in [Worker -> WorkerRecord]
    BY <1>9, WorkerType DEF EnqueueInvite
  <2> QED
    BY <1>9, <2>2, <2>3 DEF EnqueueInvite, application, lanes, TypeOK, WorkerRecord
<1>10. ASSUME NEW w \in Worker, TriggerPreEvaluation(w) PROVE TypeOK'
  <2>1. worker[w].app \in Application
    BY <1>10 DEF TriggerPreEvaluation, TasksInv, SoundWorker, SoundTask
  <2>2. worker' \in [Worker -> WorkerRecord]
    BY <1>10, WorkerType DEF TriggerPreEvaluation
  <2>3. tested' \subseteq Application
    BY <1>10, <2>1 DEF TriggerPreEvaluation, TypeOK
  <2> QED
    BY <1>10, <2>2, <2>3 DEF TriggerPreEvaluation, application, lanes, TypeOK, WorkerRecord
<1>11. ASSUME NEW w \in Worker, EndSearch(w) \/ SendInvite(w) \/ SendOutreach(w) PROVE TypeOK'
  <2>1. worker' \in [Worker -> WorkerRecord]
    BY <1>11, WorkerType DEF EndSearch, SendInvite, SendOutreach
  <2> QED
    BY <1>11, <2>1 DEF EndSearch, SendInvite, SendOutreach, application, lanes, TypeOK, WorkerRecord
<1>12. ASSUME NEW w \in Worker, NEW a \in Application, StartOutreach(w, a) PROVE TypeOK'
  <2>1. worker' \in [Worker -> WorkerRecord]
    BY <1>12, WorkerType, TasksAreTasks DEF StartOutreach, Kind
  <2> QED
    BY <1>12, <2>1 DEF StartOutreach, application, lanes, TypeOK, WorkerRecord
<1>13. ASSUME NEW w \in Worker, MarkSent(w) PROVE TypeOK'
  <2>1. worker' \in [Worker -> WorkerRecord]
    BY <1>13, WorkerType DEF MarkSent
  <2> QED
    BY <1>13, <2>1 DEF MarkSent, TypeOK, WorkerRecord
<1>14. ASSUME NEW a \in Application, GradeTest(a) PROVE TypeOK'
  BY <1>14 DEF GradeTest, TypeOK, AllowedStatuses
<1>15. ASSUME NEW a \in Application, StartApplication(a) PROVE TypeOK'
  BY <1>15 DEF StartApplication, CreateApplication, TypeOK, AllowedStatuses
<1>16. ASSUME NEW a \in Application, CompleteApplication(a) PROVE TypeOK'
  BY <1>16 DEF CompleteApplication, TypeOK, AllowedStatuses
<1>17. ASSUME NEW a \in Application, SendScoring(a) PROVE TypeOK'
  BY <1>17, TasksAreTasks DEF SendScoring, Enqueue, GiveUp, NewTask, application, lanes, TypeOK, Kind
<1>27. ASSUME NEW a \in Application, RecordApplied(a) PROVE TypeOK'
  BY <1>27 DEF RecordApplied, Log, GiveUp, NewTask, lanes, TypeOK
<1>18. ASSUME NEW a \in Application, NEW new \in Moves \cup {"selected"}, UpdateStatus(a, new) PROVE TypeOK'
  BY <1>18 DEF UpdateStatus, Write, TypeOK, AllowedStatuses
<1>19. ASSUME NEW a \in Application, MarkSelected(a) PROVE TypeOK'
  BY <1>18, <1>19 DEF MarkSelected
<1>20. ASSUME NEW a \in Application, AddToPipeline(a) PROVE TypeOK'
  BY <1>20 DEF AddToPipeline, TypeOK, AllowedStatuses
<1>21. CASE SelectForRejection
  BY <1>21 DEF SelectForRejection, application, lanes, TypeOK
<1>22. CASE WriteRejections
  BY <1>22 DEF WriteRejections, TypeOK, AllowedStatuses
<1>23. ASSUME NEW a \in Application, GenerateApplyLink(a) PROVE TypeOK'
  BY <1>23 DEF GenerateApplyLink, TypeOK
<1>24. ASSUME NEW a \in Application, RetryAts(a) PROVE TypeOK'
  BY <1>24, TasksAreTasks DEF RetryAts, Enqueue, application, lanes, TypeOK, Kind
<1>25. CASE UNCHANGED vars
  BY <1>25 DEF vars, application, lanes, TypeOK
<1> QED
  BY <1>2, <1>3, <1>4, <1>5, <1>6, <1>7, <1>8, <1>9, <1>10, <1>11, <1>12, <1>13, <1>14, <1>15,
     <1>16, <1>18, <1>17, <1>19, <1>20, <1>21, <1>22, <1>23, <1>24, <1>25, <1>26, <1>27
  DEF Next, Background, Work, Candidates, Recruiters, Delivery

-----------------------------------------------------------------------------
(***************************************************************************)
(* Events are never taken back, and what a task was allowed to assume of   *)
(* its application stays true.                                             *)
(***************************************************************************)

\* Whoever completed the chat.
Completed == {a \in Application : "applied" \in events[a]} \cup recording \cup unscored

EventsGrow ==
    /\ \A a \in Application : events[a] \subseteq events'[a] /\ causes[a] \subseteq causes'[a]
    /\ Completed \subseteq Completed'

LEMMA RateCauses ==
    ASSUME TypeOK, NEW a, NEW s \in {"high", "low"}, Rate(a, s), UNCHANGED <<recording, unscored>>
    PROVE  EventsGrow /\ (a \in Application => s \in causes'[a])
BY DEF Rate, Write, TypeOK, EventsGrow, Completed

\* The event of a score is written.
LEMMA LogGrows ==
    ASSUME TypeOK, NEW a, NEW event, Log(a, event), UNCHANGED <<causes, recording, unscored>>
    PROVE  EventsGrow /\ (a \in Application /\ event # "low" => event \in events'[a])
BY DEF Log, TypeOK, EventsGrow, Completed

LEMMA EventsStep == TypeOK /\ [Next]_vars => EventsGrow
<1> SUFFICES ASSUME TypeOK, [Next]_vars PROVE EventsGrow
  OBVIOUS
<1> USE DEF application, lanes
<1>1. ASSUME UNCHANGED <<events, causes, recording>>, unscored \subseteq unscored' PROVE EventsGrow
  BY <1>1 DEF EventsGrow, Completed
<1>2. ASSUME NEW a, NEW new, Write(a, new, "moved"), UNCHANGED <<events, recording, unscored>> PROVE EventsGrow
  BY <1>2 DEF Write, EventsGrow, Completed, TypeOK
<1>3. ASSUME NEW w \in Worker, RateFound(w) \/ ScoreApplication(w) PROVE EventsGrow
  BY <1>1, <1>3, RateCauses DEF RateFound, ScoreApplication
<1>4. ASSUME NEW w \in Worker, RecordFound(w) \/ RecordScore(w) PROVE EventsGrow
  BY <1>1, <1>4, LogGrows DEF RecordFound, RecordScore
<1>5. ASSUME NEW w \in Worker, Work(w), ~RateFound(w), ~ScoreApplication(w), ~RecordFound(w), ~RecordScore(w)
      PROVE  EventsGrow
  BY <1>1, <1>5, Zenon DEF Work, ProcessCandidate, EndSearch, EnqueueInvite, TriggerPreEvaluation,
     SendInvite, SendOutreach, MarkSent
<1>6. ASSUME NEW a \in Application, StartApplication(a) \/ SendScoring(a) PROVE EventsGrow
  BY <1>1, <1>6 DEF StartApplication, SendScoring, GiveUp
<1>7. ASSUME NEW a \in Application, CompleteApplication(a) PROVE EventsGrow
  BY <1>7 DEF CompleteApplication, EventsGrow, Completed
<1>8. ASSUME NEW a \in Application, RecordApplied(a) PROVE EventsGrow
  BY <1>8 DEF RecordApplied, Log, GiveUp, NewTask, EventsGrow, Completed, TypeOK
<1>9. CASE Recruiters
  BY <1>1, <1>2, <1>9 DEF Recruiters, SelectForRejection, WriteRejections, MarkSelected, AddToPipeline,
     GenerateApplyLink, RetryAts, UpdateStatus
<1>10. CASE Delivery
  BY <1>1, <1>10 DEF Delivery, Die, Fail, GiveUp, StartSearch, StartOutreach, Take
<1>11. ASSUME NEW a \in Application, GradeTest(a) PROVE EventsGrow
  BY <1>1, <1>11 DEF GradeTest
<1>12. CASE UNCHANGED vars
  BY <1>1, <1>12 DEF vars
<1> QED
  BY <1>3, <1>4, <1>5, <1>6, <1>7, <1>8, <1>9, <1>10, <1>11, <1>12 DEF Next, Background, Candidates

LEMMA SoundStays ==
    ASSUME EventsGrow
    PROVE  /\ \A task : SoundTask(task, Deserving) => SoundTask(task, Deserving')
           /\ \A r : SoundWorker(r, Deserving) => SoundWorker(r, Deserving')
<1>1. Deserving \subseteq Deserving'
  BY DEF EventsGrow, Deserving
<1>2. ASSUME NEW CONSTANT task, SoundTask(task, Deserving) PROVE SoundTask(task, Deserving')
  BY <1>1, <1>2 DEF SoundTask
<1> QED
  BY <1>1, <1>2 DEF SoundWorker

\* A step keeps the tasks sound if what it queues is sound, and the worker it
\* changes is.
LEMMA TasksFrame ==
    ASSUME TasksInv, EventsGrow,
           \A task \in queue' : task \in queue \/ SoundTask(task, Deserving'),
           \A w \in Worker : worker'[w] = worker[w] \/ SoundWorker(worker'[w], Deserving')
    PROVE  TasksInv'
BY SoundStays DEF TasksInv

LEMMA TasksStep == AppsInv /\ [Next]_vars => TasksInv'
<1> SUFFICES ASSUME AppsInv, [Next]_vars PROVE TasksInv'
  OBVIOUS
<1> USE ApplicationsAssumption DEF ApplicationsAssumption
<1>1. TypeOK /\ TasksInv /\ EventsGrow
  BY EventsStep DEF AppsInv
<1>2. worker \in [Worker -> WorkerRecord]
  BY <1>1 DEF TypeOK, WorkerRecord
<1>3. SoundWorker(Idle, Deserving')
  BY DEF Idle, SoundWorker
<1>4. ASSUME NEW w \in Worker, Done(w), UNCHANGED queue PROVE TasksInv'
  BY <1>1, <1>2, <1>3, <1>4, TasksFrame DEF Done
<1>5. ASSUME UNCHANGED <<queue, worker>> PROVE TasksInv'
  BY <1>1, <1>5, TasksFrame
<1>6. ASSUME NEW w \in Worker, NEW task \in queue, Take(w, task) PROVE TasksInv'
  <2>1. SoundTask(task, Deserving')
    BY <1>1, SoundStays DEF TasksInv
  <2>2. SoundWorker(worker'[w], Deserving')
    BY <1>2, <1>6, <2>1 DEF Take, Begin, First, SoundWorker, SoundTask
  <2> QED
    BY <1>1, <1>2, <1>6, <2>2, TasksFrame DEF Take, Begin
<1>7. ASSUME NEW w \in Worker, Die(w) PROVE TasksInv'
  <2>1. worker[w].task.kind \in {"score", "invite"} => SoundTask(worker[w].task, Deserving')
    BY <1>1, <1>2, <1>7, SoundStays DEF Die, TasksInv, SoundWorker, WorkerRecord
  <2> QED
    BY <1>1, <1>2, <1>3, <1>7, <2>1, TasksFrame DEF Die, Done, Redeliver, Enqueue
<1>8. ASSUME NEW w \in Worker, Fail(w) PROVE TasksInv'
  <2> DEFINE task == worker[w].task
             again == [task EXCEPT !.tries = @ + 1]
  <2>1. task.kind \in {"score", "invite"} => SoundTask(task, Deserving')
    BY <1>1, <1>2, <1>8, SoundStays DEF Fail, TasksInv, SoundWorker, WorkerRecord
  <2>2. task \in Task /\ Retries[task.kind] \in Nat
    BY <1>2 DEF WorkerRecord, Task
  <2>3. ASSUME task.tries < Retries[task.kind], task.kind \in {"score", "invite"}
        PROVE  SoundTask(again, Deserving')
    <3>1. again.kind = task.kind /\ again.app = task.app /\ again.tries = task.tries + 1
      BY <2>2 DEF Task
    <3>2. task.tries + 1 <= Retries[task.kind]
      BY <2>2, <2>3 DEF Task
    <3> HIDE DEF again
    <3> QED
      BY <2>1, <2>3, <3>1, <3>2 DEF SoundTask
  <2>4. \A t \in queue' : t \in queue \/ SoundTask(t, Deserving')
    BY <1>8, <2>3 DEF Fail, Redeliver, Enqueue
  <2> QED
    BY <1>1, <1>2, <1>3, <1>8, <2>4, TasksFrame DEF Fail, Done
<1>9. ASSUME NEW w \in Worker, StartSearch(w) PROVE TasksInv'
  <2>1. SoundWorker(worker'[w], Deserving')
    BY <1>2, <1>9 DEF StartSearch, Begin, NewTask, SoundWorker
  <2> QED
    BY <1>1, <1>2, <1>9, <2>1, TasksFrame DEF StartSearch, Begin
<1>10. ASSUME NEW w \in Worker, ProcessCandidate(w) PROVE TasksInv'
  <2>1. SoundWorker(worker'[w], Deserving')
    BY <1>1, <1>2, <1>10 DEF ProcessCandidate, TasksInv, SoundWorker, WorkerRecord
  <2> QED
    BY <1>1, <1>2, <1>10, <2>1, TasksFrame DEF ProcessCandidate
<1>24. ASSUME NEW w \in Worker, NextFound(w), worker[w].task.kind = "search", UNCHANGED queue PROVE TasksInv'
  <2>1. SoundWorker(worker'[w], Deserving')
    BY <1>2, <1>24 DEF NextFound, SoundWorker, WorkerRecord
  <2> QED
    BY <1>1, <1>2, <1>24, <2>1, TasksFrame DEF NextFound
<1>25. ASSUME NEW w \in Worker, NEW s \in {"high", "low"}, Record(w, s), UNCHANGED queue,
              worker[w].step \in {"rate", "score"}
       PROVE  TasksInv'
  <2>1. /\ worker[w].app \in Application /\ worker[w].task.kind \in {"search", "score"}
        /\ worker[w].task.kind = "score" => worker[w].app = worker[w].task.app /\ SoundTask(worker[w].task, Deserving)
    BY <1>1, <1>2, <1>25 DEF TasksInv, SoundWorker, SoundTask
  <2>2. worker[w].task.kind = "score" => SoundTask(worker[w].task, Deserving')
    BY <1>1, <2>1, SoundStays
  <2>3. worker'[w] = [worker[w] EXCEPT !.step = "record", !.rated = s]
    BY <1>2, <1>25 DEF Record
  <2>4. SoundWorker(worker'[w], Deserving')
    BY <1>2, <2>1, <2>2, <2>3 DEF SoundWorker, WorkerRecord
  <2> QED
    BY <1>1, <1>2, <1>25, <2>4, TasksFrame DEF Record
<1>11. ASSUME NEW w \in Worker, RateFound(w) PROVE TasksInv'
  <2>1. worker[w].task.kind = "search"
    BY <1>1, <1>11 DEF RateFound, TasksInv, SoundWorker
  <2> QED
    BY <1>11, <1>24, <1>25, <2>1 DEF RateFound
<1>12. ASSUME NEW w \in Worker, ScoreApplication(w) PROVE TasksInv'
  BY <1>12, <1>25 DEF ScoreApplication
<1>26. ASSUME NEW w \in Worker, RecordFound(w) PROVE TasksInv'
  BY <1>24, <1>26 DEF RecordFound
<1>27. ASSUME NEW w \in Worker, RecordScore(w) PROVE TasksInv'
  <2> DEFINE s == worker[w].rated
  <2>1. CASE ~Invited(s)
    BY <1>4, <1>27, <2>1 DEF RecordScore
  <2>2. CASE Invited(s)
    <3>1. worker[w].task.kind = "score" /\ worker[w].app = worker[w].task.app /\ SoundTask(worker[w].task, Deserving)
      BY <1>1, <1>27 DEF RecordScore, TasksInv, SoundWorker
    <3>2. SoundTask(worker[w].task, Deserving')
      BY <1>1, <3>1, SoundStays
    <3>3. worker[w].app \in Deserving'
      BY <1>1, <1>27, <2>2, <3>1, LogGrows DEF RecordScore, lanes, Invited, Deserving, SoundTask
    <3>4. worker'[w] = [worker[w] EXCEPT !.step = "enqueue"]
      BY <1>2, <1>27, <2>2 DEF RecordScore, Goto
    <3>5. SoundWorker(worker'[w], Deserving')
      BY <1>2, <3>1, <3>2, <3>3, <3>4 DEF SoundWorker, WorkerRecord
    <3> QED
      BY <1>1, <1>2, <1>27, <2>2, <3>5, TasksFrame DEF RecordScore, Goto
  <2> QED
    BY <2>1, <2>2
<1>13. ASSUME NEW w \in Worker, EnqueueInvite(w) PROVE TasksInv'
  <2>1. worker[w].app \in Deserving
    BY <1>1, <1>13 DEF EnqueueInvite, TasksInv, SoundWorker
  <2>2. SoundTask(NewTask("invite", worker[w].app), Deserving)
    BY <2>1 DEF NewTask, SoundTask, Deserving, Kind
  <2>3. SoundTask(NewTask("invite", worker[w].app), Deserving')
    BY <1>1, <1>13, <2>2, SoundStays
  <2> QED
    BY <1>1, <1>2, <1>3, <1>13, <2>3, TasksFrame DEF EnqueueInvite, Enqueue, Done
<1>14. ASSUME NEW w \in Worker, TriggerPreEvaluation(w) PROVE TasksInv'
  <2>1. CASE Done(w)
    BY <1>4, <1>14, <2>1 DEF TriggerPreEvaluation
  <2>2. CASE Goto(w, "mail")
    <3>1. worker[w].task.kind = "invite" /\ worker[w].app = worker[w].task.app /\ SoundTask(worker[w].task, Deserving)
      BY <1>1, <1>14 DEF TriggerPreEvaluation, TasksInv, SoundWorker
    <3>2. SoundTask(worker[w].task, Deserving')
      BY <1>1, <3>1, SoundStays
    <3>3. worker'[w] = [worker[w] EXCEPT !.step = "mail"]
      BY <1>2, <2>2 DEF Goto
    <3>4. SoundWorker(worker'[w], Deserving')
      BY <1>2, <3>1, <3>2, <3>3 DEF SoundWorker, WorkerRecord
    <3> QED
      BY <1>1, <1>2, <1>14, <2>2, <3>4, TasksFrame DEF TriggerPreEvaluation, Goto
  <2> QED
    BY <1>14, <2>1, <2>2 DEF TriggerPreEvaluation
<1>15. ASSUME NEW w \in Worker, EndSearch(w) \/ SendInvite(w) \/ MarkSent(w) PROVE TasksInv'
  BY <1>4, <1>15 DEF EndSearch, SendInvite, MarkSent
<1>16. ASSUME NEW w \in Worker, NEW a \in Application, StartOutreach(w, a) PROVE TasksInv'
  <2>1. SoundWorker(worker'[w], Deserving')
    BY <1>2, <1>16 DEF StartOutreach, Begin, NewTask, SoundWorker
  <2> QED
    BY <1>1, <1>2, <1>16, <2>1, TasksFrame DEF StartOutreach, Begin
<1>17. ASSUME NEW w \in Worker, SendOutreach(w) PROVE TasksInv'
  <2>1. CASE Done(w)
    BY <1>4, <1>17, <2>1 DEF SendOutreach
  <2>2. CASE Goto(w, "mark")
    <3>1. SoundWorker(worker'[w], Deserving')
      BY <1>1, <1>2, <1>17, <2>2 DEF SendOutreach, Goto, TasksInv, SoundWorker, WorkerRecord
    <3> QED
      BY <1>1, <1>2, <1>17, <2>2, <3>1, TasksFrame DEF SendOutreach, Goto
  <2> QED
    BY <1>17, <2>1, <2>2 DEF SendOutreach
<1>18. ASSUME NEW a \in Application, SendScoring(a) \/ RetryAts(a) PROVE TasksInv'
  <2>1. SoundTask(NewTask("score", a), Deserving')
    BY DEF NewTask, SoundTask, Kind
  <2> QED
    BY <1>1, <1>18, <2>1, TasksFrame DEF SendScoring, RetryAts, Enqueue
<1>19. ASSUME NEW a \in Application, GradeTest(a) PROVE TasksInv'
  BY <1>5, <1>19 DEF GradeTest
<1>20. ASSUME NEW a \in Application, StartApplication(a) \/ CompleteApplication(a) \/ RecordApplied(a) PROVE TasksInv'
  BY <1>5, <1>20 DEF StartApplication, CompleteApplication, RecordApplied
<1>21. CASE SelectForRejection \/ WriteRejections
  BY <1>5, <1>21 DEF SelectForRejection, WriteRejections
<1>22. ASSUME NEW a \in Application,
              \/ MarkSelected(a) \/ AddToPipeline(a) \/ GenerateApplyLink(a)
              \/ \E new \in Moves : UpdateStatus(a, new)
       PROVE  TasksInv'
  BY <1>5, <1>22 DEF MarkSelected, AddToPipeline, GenerateApplyLink, UpdateStatus
<1>23. CASE UNCHANGED vars
  BY <1>5, <1>23 DEF vars
<1> QED
  BY <1>6, <1>7, <1>8, <1>9, <1>10, <1>11, <1>12, <1>13, <1>14, <1>15, <1>16, <1>17, <1>18, <1>19,
     <1>20, <1>21, <1>22, <1>23, <1>26, <1>27
  DEF Next, Background, Work, Candidates, Recruiters, Delivery

-----------------------------------------------------------------------------
(***************************************************************************)
(* Scores and tests.                                                       *)
(***************************************************************************)

LEMMA RateScores ==
    ASSUME AppsInv, EventsGrow, NEW b, NEW s \in {"high", "low"}, Rate(b, s)
    PROVE  \A a \in Application : score'[a] # "none" => score'[a] \in causes'[a]
<1> SUFFICES ASSUME NEW a \in Application, score'[a] # "none" PROVE score'[a] \in causes'[a]
  OBVIOUS
<1>1. CASE a = b
  BY <1>1 DEF AppsInv, Rate, Write, TypeOK
<1>2. CASE a # b
  BY <1>2 DEF AppsInv, ScoresInv, Rate, Write, TypeOK, EventsGrow
<1> QED
  BY <1>1, <1>2

LEMMA ScoresStep == AppsInv /\ [Next]_vars => ScoresInv'
<1> SUFFICES ASSUME AppsInv, [Next]_vars PROVE ScoresInv'
  OBVIOUS
<1>1. TypeOK /\ ScoresInv /\ EventsGrow
  BY EventsStep DEF AppsInv
<1>2. ASSUME UNCHANGED <<score, rejecting>> PROVE ScoresInv'
  BY <1>1, <1>2 DEF ScoresInv, EventsGrow, TypeOK
<1> USE DEF application, lanes
<1>3. ASSUME NEW w \in Worker, RateFound(w) \/ ScoreApplication(w) PROVE ScoresInv'
  <2>1. CASE UNCHANGED application
    BY <1>2, <1>3, <2>1 DEF RateFound, ScoreApplication
  <2>2. ASSUME NEW s \in {"high", "low"}, Rate(worker[w].app, s) PROVE ScoresInv'
    BY <1>1, <1>3, <2>2, RateScores DEF RateFound, ScoreApplication, ScoresInv, EventsGrow, TypeOK
  <2> QED
    BY <1>3, <2>1, <2>2 DEF RateFound, ScoreApplication
<1>4. CASE SelectForRejection
  BY <1>1, <1>4 DEF SelectForRejection, Rejectable, ScoresInv
<1>5. CASE WriteRejections
  BY <1>1, <1>5 DEF WriteRejections, ScoresInv
<1>6. ASSUME NEW w \in Worker, Work(w), ~RateFound(w), ~ScoreApplication(w) PROVE ScoresInv'
  BY <1>2, <1>6, Zenon DEF Work, ProcessCandidate, RecordFound, RecordScore, EndSearch, EnqueueInvite, TriggerPreEvaluation,
     SendInvite, SendOutreach, MarkSent
<1>7. ASSUME NEW a \in Application, GradeTest(a) PROVE ScoresInv'
  BY <1>2, <1>7 DEF GradeTest
<1>8. CASE Candidates
  BY <1>2, <1>8 DEF Candidates, StartApplication, CompleteApplication, RecordApplied, SendScoring
<1>9. CASE Recruiters /\ ~SelectForRejection /\ ~WriteRejections
  BY <1>2, <1>9 DEF Recruiters, MarkSelected, AddToPipeline, GenerateApplyLink, RetryAts, UpdateStatus
<1>10. CASE Delivery
  BY <1>2, <1>10 DEF Delivery, Die, Fail, StartSearch, StartOutreach, Take
<1>11. CASE UNCHANGED vars
  BY <1>2, <1>11 DEF vars
<1> QED
  BY <1>3, <1>4, <1>5, <1>6, <1>7, <1>8, <1>9, <1>10, <1>11 DEF Next, Background

LEMMA TestsStep == AppsInv /\ [Next]_vars => TestsAreEarned'
<1> SUFFICES ASSUME AppsInv, [Next]_vars PROVE TestsAreEarned'
  OBVIOUS
<1>1. TypeOK /\ TestsAreEarned /\ TasksInv /\ EventsGrow
  BY EventsStep DEF AppsInv
<1>2. ASSUME UNCHANGED tested PROVE TestsAreEarned'
  BY <1>1, <1>2 DEF TestsAreEarned, EventsGrow, TypeOK
<1>3. ASSUME NEW w \in Worker, TriggerPreEvaluation(w) PROVE TestsAreEarned'
  <2>1. worker[w].app \in Deserving
    BY <1>1, <1>3 DEF TriggerPreEvaluation, TasksInv, SoundWorker, SoundTask
  <2> QED
    BY <1>1, <1>2, <1>3, <2>1 DEF TriggerPreEvaluation, TestsAreEarned, Deserving, EventsGrow, TypeOK
<1>4. ASSUME NEW w \in Worker, Work(w), ~TriggerPreEvaluation(w) PROVE TestsAreEarned'
  BY <1>2, <1>4, Zenon DEF Work, ProcessCandidate, RateFound, RecordFound, EndSearch, ScoreApplication, RecordScore, EnqueueInvite,
     SendInvite, SendOutreach, MarkSent
<1>5. ASSUME NEW a \in Application, GradeTest(a) PROVE TestsAreEarned'
  BY <1>2, <1>5 DEF GradeTest
<1>6. CASE Candidates
  BY <1>2, <1>6 DEF Candidates, StartApplication, CompleteApplication, RecordApplied, SendScoring
<1>7. CASE Recruiters
  BY <1>2, <1>7 DEF Recruiters, SelectForRejection, WriteRejections, MarkSelected, AddToPipeline,
     GenerateApplyLink, RetryAts, UpdateStatus
<1>8. CASE Delivery
  BY <1>2, <1>8 DEF Delivery, Die, Fail, StartSearch, StartOutreach, Take
<1>9. CASE UNCHANGED vars
  BY <1>2, <1>9 DEF vars
<1> QED
  BY <1>3, <1>4, <1>5, <1>6, <1>7, <1>8, <1>9 DEF Next, Background

LEMMA AppsInit == Init => AppsInv
<1> SUFFICES ASSUME Init PROVE AppsInv
  OBVIOUS
<1>1. TypeOK
  BY DEF Init, TypeOK, Idle, NewTask, Task, Kind
<1>2. TasksInv
  BY DEF Init, TasksInv, Idle, SoundWorker
<1> QED
  BY <1>1, <1>2 DEF Init, AppsInv, ScoresInv, TestsAreEarned

LEMMA AppsStep == AppsInv /\ [Next]_vars => AppsInv'
BY AppTypeStep, TasksStep, ScoresStep, TestsStep DEF AppsInv

\* The inductive invariant, and with it the types, holds however many workers
\* die and fail.
THEOREM AppsInvariance == Spec => []AppsInv
BY AppsInit, AppsStep, PTL DEF Spec

\* Applications, tasks and workers keep their types.
THEOREM AppTypes == Spec => []TypeOK
<1>1. AppsInv => TypeOK
  BY DEF AppsInv
<1> QED
  BY <1>1, AppsInvariance, PTL

\* Only who reached the threshold gets a test, however often a task is delivered
\* and whatever else happens to the application: a scoring task enqueues the
\* invitation after the score and its event are written.
THEOREM OnlyEarnedTests == Spec => []TestsAreEarned
<1>1. AppsInv => TestsAreEarned
  BY DEF AppsInv
<1> QED
  BY <1>1, AppsInvariance, PTL

-----------------------------------------------------------------------------
(***************************************************************************)
(* Lanes.                                                                  *)
(***************************************************************************)

\* A lane keeps its cause when no status changes, and tests and events only grow.
LEMMA LanesFrame ==
    ASSUME LaneHasCause, TypeOK, EventsGrow, tested \subseteq tested',
           \A a \in Application :
             \/ status'[a] = status[a]
             \/ "moved" \in causes'[a]
             \/ status'[a] \in {"sourced", "magic_link_sent"}
             \/ status'[a] = "screening" /\ "high" \in causes'[a]
             \/ status'[a] \in {"on_hold", "rejected"} /\ "low" \in causes'[a]
             \/ status'[a] \in {"interview", "on_hold", "rejected"} /\ a \in tested
             \/ status'[a] = "applied" /\ a \in Completed'
    PROVE  LaneHasCause'
<1> SUFFICES ASSUME NEW a \in Application, "moved" \notin causes'[a]
             PROVE  /\ status'[a] = "screening" => "high" \in causes'[a]
                    /\ status'[a] = "interview" => a \in tested'
                    /\ status'[a] \in {"on_hold", "rejected"} => "low" \in causes'[a] \/ a \in tested'
                    /\ status'[a] = "applied" => "applied" \in events'[a] \/ a \in (recording \cup unscored)'
                    /\ status'[a] # "selected"
  BY DEF LaneHasCause
<1>1. causes[a] \subseteq causes'[a] /\ "moved" \notin causes[a]
  BY DEF EventsGrow
<1>2. a \in Completed => "applied" \in events'[a] \/ a \in (recording \cup unscored)'
  BY DEF EventsGrow, Completed
<1>3. a \in Completed' => "applied" \in events'[a] \/ a \in (recording \cup unscored)'
  BY DEF Completed
<1>4. status[a] = "applied" => a \in Completed
  BY <1>1 DEF LaneHasCause, Completed
<1> QED
  BY <1>1, <1>2, <1>3, <1>4 DEF LaneHasCause

LEMMA LanesStep == AppsInv /\ LaneHasCause /\ [Next]_vars => LaneHasCause'
<1> SUFFICES ASSUME AppsInv, LaneHasCause, [Next]_vars PROVE LaneHasCause'
  OBVIOUS
<1> USE DEF application, lanes
<1>1. TypeOK /\ ScoresInv /\ EventsGrow
  BY EventsStep DEF AppsInv
<1>2. ASSUME UNCHANGED status, tested \subseteq tested' PROVE LaneHasCause'
  BY <1>1, <1>2, LanesFrame
<1>3. ASSUME NEW w \in Worker, ProcessCandidate(w) PROVE LaneHasCause'
  BY <1>1, <1>3, LanesFrame DEF ProcessCandidate, CreateApplication, TypeOK
<1>4. ASSUME NEW w \in Worker, RateFound(w) \/ ScoreApplication(w) PROVE LaneHasCause'
  <2>1. CASE UNCHANGED application
    BY <1>2, <1>4, <2>1 DEF RateFound, ScoreApplication
  <2>2. ASSUME NEW s \in {"high", "low"}, Rate(worker[w].app, s) PROVE LaneHasCause'
    <3>1. \A a \in Application :
            \/ status'[a] = status[a]
            \/ status'[a] = "screening" /\ "high" \in causes'[a]
            \/ status'[a] = "on_hold" /\ "low" \in causes'[a]
      BY <1>1, <2>2 DEF Rate, Write, TypeOK
    <3> QED
      BY <1>1, <1>4, <3>1, LanesFrame DEF RateFound, ScoreApplication
  <2> QED
    BY <1>4, <2>1, <2>2 DEF RateFound, ScoreApplication
<1>5. ASSUME NEW w \in Worker, MarkSent(w) PROVE LaneHasCause'
  BY <1>1, <1>5, LanesFrame DEF MarkSent, TypeOK
<1>6. ASSUME NEW w \in Worker, TriggerPreEvaluation(w) \/ EndSearch(w) \/ EnqueueInvite(w)
                               \/ RecordFound(w) \/ RecordScore(w)
                               \/ SendInvite(w) \/ SendOutreach(w)
      PROVE  LaneHasCause'
  BY <1>2, <1>6 DEF TriggerPreEvaluation, RecordFound, RecordScore, EndSearch, EnqueueInvite, SendInvite, SendOutreach
<1>7. ASSUME NEW a \in Application, GradeTest(a) PROVE LaneHasCause'
  BY <1>1, <1>7, LanesFrame DEF GradeTest, TypeOK
<1>8. ASSUME NEW a \in Application, StartApplication(a) PROVE LaneHasCause'
  BY <1>1, <1>8, LanesFrame DEF StartApplication, CreateApplication, TypeOK
<1>9. ASSUME NEW a \in Application, CompleteApplication(a) PROVE LaneHasCause'
  BY <1>1, <1>9, LanesFrame DEF CompleteApplication, Completed, TypeOK
<1>10. ASSUME NEW a \in Application, SendScoring(a) \/ RecordApplied(a) \/ GenerateApplyLink(a) \/ RetryAts(a)
       PROVE  LaneHasCause'
  BY <1>2, <1>10 DEF SendScoring, RecordApplied, GenerateApplyLink, RetryAts
<1>11. ASSUME NEW a \in Application, NEW new, UpdateStatus(a, new) PROVE LaneHasCause'
  BY <1>1, <1>11, LanesFrame DEF UpdateStatus, Write, TypeOK
<1>12. ASSUME NEW a \in Application, MarkSelected(a) PROVE LaneHasCause'
  BY <1>11, <1>12 DEF MarkSelected
<1>13. ASSUME NEW a \in Application, AddToPipeline(a) PROVE LaneHasCause'
  BY <1>1, <1>13, LanesFrame DEF AddToPipeline, TypeOK
<1>14. CASE SelectForRejection
  BY <1>2, <1>14 DEF SelectForRejection
<1>15. CASE WriteRejections
  <2>1. \A a \in Application :
          \/ status'[a] = status[a]
          \/ status'[a] = "rejected" /\ "low" \in causes'[a]
    BY <1>1, <1>15 DEF WriteRejections, ScoresInv
  <2> QED
    BY <1>1, <1>15, <2>1, LanesFrame DEF WriteRejections
<1>16. CASE Delivery
  BY <1>2, <1>16 DEF Delivery, Die, Fail, StartSearch, StartOutreach, Take
<1>17. CASE UNCHANGED vars
  BY <1>2, <1>17 DEF vars
<1> QED
  BY <1>3, <1>4, <1>5, <1>6, <1>7, <1>8, <1>9, <1>10, <1>11, <1>12, <1>13, <1>14, <1>15, <1>16, <1>17
  DEF Next, Background, Work, Candidates, Recruiters

\* Where the automation put an application it has been for a reason, for any
\* number of overlapping searches, scorings, outreach and rejections.
THEOREM LanesHaveCauses == Spec => []LaneHasCause
<1>1. Init => LaneHasCause
  BY DEF Init, LaneHasCause
<1> QED
  BY <1>1, LanesStep, AppsInvariance, PTL DEF Spec

-----------------------------------------------------------------------------
(***************************************************************************)
(* Nobody is forgotten.                                                    *)
(***************************************************************************)

\* Applicants the property is about.
Waiting == {a \in Application : \/ status[a] = "applied" /\ "moved" \notin causes[a]
                                \/ "applied" \in events[a] /\ score[a] = "none"}

\* Applications with a scoring task in the queue, or in a worker that has not
\* scored yet.
Queued == {a \in Application : \E task \in queue : task.kind = "score" /\ task.app = a}
AtWork == {a \in Application : \E w \in Worker : worker[w].step = "score" /\ worker[w].app = a}

Nobody == Waiting \subseteq recording \cup completing \cup Queued \cup AtWork \cup unscored

LEMMA QueuedTasks ==
    ASSUME AppsInv, NEW a \in Application
    PROVE  ScoreTasks(a) \cap queue # {} <=> a \in Queued
<1>1. ASSUME NEW task \in queue, task.kind = "score", task.app = a PROVE task \in ScoreTasks(a)
  <2>1. task \in Task /\ task.tries <= Retries["score"] /\ Retries["score"] \in Nat
    BY <1>1, ApplicationsAssumption
    DEF AppsInv, TypeOK, TasksInv, SoundTask, ApplicationsAssumption, Kind
  <2> QED
    BY <1>1, <2>1 DEF Task, ScoreTasks
<1>2. \A task \in ScoreTasks(a) : task.kind = "score" /\ task.app = a
  BY DEF ScoreTasks
<1> QED
  BY <1>1, <1>2 DEF Queued

LEMMA NobodyIsNobody == AppsInv => (NobodyForgotten <=> Nobody)
BY QueuedTasks DEF NobodyForgotten, Nobody, Scoring, Waiting, AtWork

\* A step forgets nobody if whoever it makes wait or stops scoring is scored
\* another way.
LEMMA NobodyFrame ==
    ASSUME Nobody, unscored \subseteq unscored',
           \A a \in Waiting' : a \in Waiting \/ a \in recording',
           \A a \in Waiting' \cap (recording \cup completing \cup Queued \cup AtWork) :
               a \in recording' \cup completing' \cup Queued' \cup AtWork' \cup unscored'
    PROVE  Nobody'
BY DEF Nobody

\* The same for steps that take no task away.
LEMMA QuietFrame ==
    ASSUME Nobody, Waiting' \subseteq Waiting \cup recording',
           recording \subseteq recording', completing \subseteq completing',
           queue \subseteq queue', unscored \subseteq unscored',
           \A w \in Worker : worker[w].step = "score" => worker'[w] = worker[w]
    PROVE  Nobody'
<1>1. Queued \subseteq Queued'
  BY DEF Queued
<1>2. AtWork \subseteq AtWork'
  BY DEF AtWork
<1> QED
  BY <1>1, <1>2 DEF Nobody

LEMMA RateEndsWaiting ==
    ASSUME TypeOK, NEW b, NEW s \in {"high", "low"}, Rate(b, s)
    PROVE  Waiting' \subseteq Waiting \ {b}
BY DEF Rate, Write, Waiting, TypeOK

LEMMA NobodyStep == AppsInv /\ AppsInv' /\ Nobody /\ [Next]_vars => Nobody'
<1> SUFFICES ASSUME AppsInv, AppsInv', Nobody, [Next]_vars PROVE Nobody'
  OBVIOUS
<1>1. TypeOK /\ TasksInv
  BY DEF AppsInv
<1>2. worker \in [Worker -> WorkerRecord]
  BY <1>1 DEF TypeOK, WorkerRecord
<1>3. ASSUME UNCHANGED application PROVE Waiting' = Waiting
  BY <1>3 DEF application, lanes, Waiting
<1>4. ASSUME Waiting' \subseteq Waiting, UNCHANGED <<recording, completing, queue, unscored, worker>> PROVE Nobody'
  BY <1>4, QuietFrame
<1>5. ASSUME NEW w \in Worker, NEW task \in queue, Take(w, task) PROVE Nobody'
  <2>1. Waiting' = Waiting /\ completing' = completing /\ recording' = recording /\ unscored' = unscored
    BY <1>3, <1>5 DEF Take
  <2>2. AtWork \subseteq AtWork'
    BY <1>2, <1>5 DEF Take, Begin, AtWork
  <2>3. task.kind = "score" => task.app \in AtWork' \/ task.app \notin Application
    BY <1>2, <1>5 DEF Take, Begin, First, AtWork
  <2>4. Queued \subseteq Queued' \cup AtWork'
    BY <1>5, <2>3 DEF Take, Queued
  <2> QED
    BY <2>1, <2>2, <2>4 DEF Nobody
<1>6. ASSUME NEW w \in Worker, Die(w) PROVE Nobody'
  <2>1. Waiting' = Waiting /\ completing' = completing /\ recording' = recording /\ unscored' = unscored
    BY <1>3, <1>6 DEF Die
  <2>2. queue \subseteq queue'
    BY <1>6 DEF Die, Redeliver, Enqueue
  <2>3. ASSUME worker[w].step = "score" PROVE worker[w].task \in queue'
                                              /\ worker[w].task.kind = "score"
                                              /\ worker[w].task.app = worker[w].app
    BY <1>1, <1>6, <2>3 DEF Die, Redeliver, Enqueue, TasksInv, SoundWorker
  <2>4. AtWork \subseteq AtWork' \cup Queued'
    BY <1>2, <1>6, <2>3 DEF Die, Done, AtWork, Queued
  <2>5. Queued \subseteq Queued'
    BY <2>2 DEF Queued
  <2> QED
    BY <2>1, <2>4, <2>5 DEF Nobody
<1>7. ASSUME NEW w \in Worker, Fail(w) PROVE Nobody'
  <2> DEFINE task == worker[w].task
             again == [task EXCEPT !.tries = @ + 1]
  <2>1. Waiting' = Waiting /\ completing' = completing /\ recording' = recording
    BY <1>3, <1>7 DEF Fail
  <2>2. queue \subseteq queue' /\ unscored \subseteq unscored'
    BY <1>7 DEF Fail, Redeliver, Enqueue, GiveUp
  <2>3. again.kind = task.kind /\ again.app = task.app
    BY <1>2 DEF WorkerRecord, Task
  <2>4. ASSUME worker[w].step = "score"
        PROVE  worker[w].app \in Queued' \cup unscored'
    <3>1. task.kind = "score" /\ task.app = worker[w].app /\ task.app \in Application
      BY <1>1, <2>4 DEF TasksInv, SoundWorker, SoundTask
    <3>2. again \in queue' \/ task.app \in unscored'
      BY <1>7, <3>1 DEF Fail, Redeliver, Enqueue, GiveUp
    <3> HIDE DEF again
    <3> QED
      BY <2>3, <3>1, <3>2 DEF Queued
  <2>5. AtWork \subseteq AtWork' \cup Queued' \cup unscored'
    BY <1>2, <1>7, <2>4 DEF Fail, Done, AtWork
  <2>6. Queued \subseteq Queued'
    BY <2>2 DEF Queued
  <2> QED
    BY <2>1, <2>2, <2>5, <2>6 DEF Nobody
<1>8. ASSUME NEW w \in Worker, StartSearch(w) PROVE Nobody'
  BY <1>2, <1>3, <1>8, QuietFrame DEF StartSearch, Begin
<1>9. ASSUME NEW w \in Worker, ProcessCandidate(w) PROVE Nobody'
  <2>1. Waiting' \subseteq Waiting
    BY <1>1, <1>9 DEF ProcessCandidate, CreateApplication, Waiting, TypeOK
  <2> QED
    BY <1>2, <1>9, <2>1, QuietFrame DEF ProcessCandidate
<1>10. ASSUME NEW w \in Worker, RateFound(w) PROVE Nobody'
  <2>1. Waiting' \subseteq Waiting
    BY <1>1, <1>3, <1>10, RateEndsWaiting DEF RateFound
  <2> QED
    BY <1>2, <1>10, <2>1, QuietFrame DEF RateFound, Record, NextFound
<1>11. ASSUME NEW w \in Worker, ScoreApplication(w) PROVE Nobody'
  <2>1. Waiting' \subseteq Waiting \ {worker[w].app}
    BY <1>1, <1>11, RateEndsWaiting DEF ScoreApplication
  <2>2. AtWork \subseteq AtWork' \cup {worker[w].app}
    BY <1>2, <1>11 DEF ScoreApplication, Record, AtWork
  <2>3. Queued' = Queued /\ completing' = completing /\ recording' = recording /\ unscored' = unscored
    BY <1>11 DEF ScoreApplication, Queued
  <2> QED
    BY <2>1, <2>2, <2>3 DEF Nobody
<1>26. ASSUME NEW w \in Worker, RecordFound(w) \/ RecordScore(w) PROVE Nobody'
  <2>1. worker[w].rated \in {"high", "low"}
    BY <1>1, <1>26 DEF RecordFound, RecordScore, TasksInv, SoundWorker
  <2>2. Waiting' \subseteq Waiting
    BY <1>1, <1>26, <2>1 DEF RecordFound, RecordScore, Log, lanes, Waiting, TypeOK
  <2> QED
    BY <1>2, <1>26, <2>2, QuietFrame DEF RecordFound, RecordScore, NextFound, Goto, Done
<1>12. ASSUME NEW w \in Worker,
              EnqueueInvite(w) \/ TriggerPreEvaluation(w) \/ EndSearch(w) \/ SendInvite(w) \/ SendOutreach(w)
       PROVE  Nobody'
  BY <1>2, <1>3, <1>12, QuietFrame
  DEF EnqueueInvite, Enqueue, TriggerPreEvaluation, EndSearch, SendInvite, SendOutreach, Goto, Done
<1>13. ASSUME NEW w \in Worker, NEW a \in Application, StartOutreach(w, a) PROVE Nobody'
  BY <1>2, <1>3, <1>13, QuietFrame DEF StartOutreach, Begin
<1>14. ASSUME NEW w \in Worker, MarkSent(w) PROVE Nobody'
  <2>1. Waiting' \subseteq Waiting
    BY <1>1, <1>14 DEF MarkSent, Waiting, TypeOK
  <2> QED
    BY <1>2, <1>14, <2>1, QuietFrame DEF MarkSent, Done
<1>15. ASSUME NEW a \in Application, GradeTest(a) PROVE Nobody'
  BY <1>1, <1>4, <1>15 DEF GradeTest, Waiting, TypeOK
<1>16. ASSUME NEW a \in Application, StartApplication(a) PROVE Nobody'
  BY <1>1, <1>4, <1>16 DEF StartApplication, CreateApplication, Waiting, TypeOK
<1>17. ASSUME NEW a \in Application, CompleteApplication(a) PROVE Nobody'
  <2>1. Waiting' \subseteq Waiting \cup {a}
    BY <1>1, <1>17 DEF CompleteApplication, Waiting, TypeOK
  <2> QED
    BY <1>17, <2>1, QuietFrame DEF CompleteApplication
<1>27. ASSUME NEW a \in Application, RecordApplied(a) PROVE Nobody'
  <2>1. /\ Waiting' \subseteq Waiting \cup {a} /\ recording \subseteq recording' \cup {a}
        /\ completing \subseteq completing' /\ unscored \subseteq unscored'
        /\ a \in completing' \cup unscored'
    BY <1>1, <1>27 DEF RecordApplied, Log, GiveUp, NewTask, lanes, Waiting, TypeOK
  <2>2. Queued' = Queued /\ AtWork' = AtWork
    BY <1>27 DEF RecordApplied, Queued, AtWork
  <2> QED
    BY <2>1, <2>2 DEF Nobody
<1>18. ASSUME NEW a \in Application, SendScoring(a) PROVE Nobody'
  <2>1. Waiting' = Waiting /\ AtWork' = AtWork
    BY <1>3, <1>18 DEF SendScoring, AtWork
  <2>2. Queued \subseteq Queued' /\ unscored \subseteq unscored'
    BY <1>18 DEF SendScoring, Enqueue, GiveUp, Queued
  <2>3. a \in Queued' \cup unscored'
    <3> DEFINE task == NewTask("score", a)
    <3>1. task.kind = "score" /\ task.app = a
      BY DEF NewTask
    <3> HIDE DEF task
    <3>2. task \in queue' \/ a \in unscored'
      BY <1>18, <3>1 DEF SendScoring, Enqueue, GiveUp, task
    <3> QED
      BY <3>1, <3>2 DEF Queued
  <2> QED
    BY <1>18, <2>1, <2>2, <2>3 DEF SendScoring, Nobody
<1>19. ASSUME NEW a \in Application, NEW new, UpdateStatus(a, new) PROVE Nobody'
  BY <1>1, <1>4, <1>19 DEF UpdateStatus, Write, Waiting, TypeOK
<1>20. ASSUME NEW a \in Application, MarkSelected(a) PROVE Nobody'
  BY <1>19, <1>20 DEF MarkSelected
<1>21. ASSUME NEW a \in Application, AddToPipeline(a) \/ GenerateApplyLink(a) PROVE Nobody'
  BY <1>1, <1>4, <1>21 DEF AddToPipeline, GenerateApplyLink, Waiting, TypeOK
<1>22. ASSUME NEW a \in Application, RetryAts(a) PROVE Nobody'
  BY <1>3, <1>22, QuietFrame DEF RetryAts, Enqueue
<1>23. CASE SelectForRejection
  BY <1>3, <1>4, <1>23 DEF SelectForRejection
<1>24. CASE WriteRejections
  BY <1>1, <1>4, <1>24 DEF WriteRejections, Waiting
<1>25. CASE UNCHANGED vars
  BY <1>3, <1>4, <1>25 DEF vars
<1> QED
  BY <1>5, <1>6, <1>7, <1>8, <1>9, <1>10, <1>11, <1>12, <1>13, <1>14, <1>15, <1>16, <1>17, <1>18,
     <1>19, <1>20, <1>21, <1>22, <1>23, <1>24, <1>25, <1>26, <1>27
  DEF Next, Background, Work, Candidates, Recruiters, Delivery

\* An applicant who waits is being scored, or the scoring was not sent or given
\* up: for any number of workers that die, of retries and of overlapping
\* searches, outreach and moves.
THEOREM NobodyIsForgotten == Spec => []NobodyForgotten
<1>1. Init => Nobody
  BY DEF Init, Nobody, Waiting
<1> QED
  BY <1>1, NobodyStep, NobodyIsNobody, AppsInvariance, PTL DEF Spec
=============================================================================
