----------------------------- MODULE ExamMarking -----------------------------
(***************************************************************************)
(* The marking of one session of an exam (serve/mark): the goroutine that  *)
(* each hand-in starts, the asynq task that has the subjective answers of  *)
(* a student marked by the AI, the watcher that such a task starts to set  *)
(* the session to "marked" once nobody is left, the teachers who mark by   *)
(* hand, and the end handler of exam_service.                              *)
(*                                                                         *)
(* Rows of the database change when a transaction commits; a task is in    *)
(* the queue, and the Redis key set, as soon as the call is made.  What a  *)
(* request of a student starts, a goroutine, a task, a watcher, is named   *)
(* after that request.  Answers do not change once submitted, every        *)
(* student began the exam, and the invigilator does not intervene.         *)
(***************************************************************************)
EXTENDS Naturals, FiniteSets

CONSTANTS
  Student,
  Request,   \* submissions; the client of a student may submit more than once
  By,        \* Request -> the student who makes it
  Marker,    \* those who mark by hand, one request of each at a time
  Papers,    \* kinds of paper: the parts they have
  Modes,     \* mark_mode: 00 by the AI, 10 by a teacher
  MaxRetry,  \* asynq.MaxRetry
  MaxCrash   \* bound on crashes of the service

Part == {"objective", "subjective"}

ASSUME MarkingAssumption ==
  /\ Student # {}
  /\ By \in [Request -> Student]
  /\ Papers \subseteq (SUBSET Part) \ {{}}
  /\ Modes \subseteq {"00", "10"}
  /\ MaxRetry \in Nat /\ MaxCrash \in Nat

VARIABLES
  paper,    \* the parts of the paper of the session
  mode,     \* mark_mode of the session
  over,     \* end_time of the session has passed
  sess,     \* status of the session: 04 runs, 06 ended, 08 marking, 10 marked
  out,      \* students with status 10 in t_examinee: handed in, or closed by the end handler
  scored,   \* Student -> parts whose answer_score is set
  auto,     \* Request -> progress of the goroutine AutoMark
  task,     \* Request -> state of the AI task
  tries,    \* Request -> retries of the task
  key,      \* Redis has the key exam_session:<id>state_update
  watcher,  \* Request -> progress of the watcher that its task started
  saw,      \* Teacher -> the session's status that the request under way has read
  marked,   \* students with a teacher's row in t_mark
  crashes   \* crashes so far

vars == <<paper, mode, over, sess, out, scored, auto, task, tries, key, watcher, saw, marked, crashes>>

exam     == <<paper, mode>>
tasks    == <<task, tries>>
teachers == <<saw, marked>>

None == "none"

AutoState    == {None, "marking", "queued", "done", "failed"}
TaskState    == {None, "queued", "running", "starting", "marked", "done", "archived"}
WatcherState == {"off", "asleep", "count", "update", "delete"}

-----------------------------------------------------------------------------

Init ==
  /\ paper \in Papers /\ mode \in Modes
  /\ over = FALSE
  /\ sess = "04"
  /\ out = {}
  /\ scored = [s \in Student |-> {}]
  /\ auto = [r \in Request |-> None]
  /\ task = [r \in Request |-> None] /\ tries = [r \in Request |-> 0]
  /\ key = FALSE
  /\ watcher = [r \in Request |-> "off"]
  /\ saw = [t \in Marker |-> None]
  /\ marked = {}
  /\ crashes = 0

-----------------------------------------------------------------------------
(* Hand-in and end of the session. *)

(* The client submits, and may again: a student who has an end_time already  *)
(* gets AutoMark all the same.                                               *)
Submit(r) ==
  /\ auto[r] = None
  /\ out' = out \cup {By[r]}
  /\ auto' = [auto EXCEPT ![r] = "marking"]
  /\ UNCHANGED <<exam, over, sess, scored, tasks, key, watcher, teachers, crashes>>

EndTimePasses == /\ ~over /\ over' = TRUE
                 /\ UNCHANGED <<exam, sess, out, scored, auto, tasks, key, watcher, teachers, crashes>>

(* Variant: the status of the session is not looked at. *)
SessionEnd_AnyStatus(closed) ==
  /\ over
  /\ out' = out \cup closed
  /\ sess' = IF out' = Student THEN (IF mode = "00" THEN "08" ELSE "06") ELSE sess
  /\ UNCHANGED <<exam, over, scored, auto, tasks, key, watcher, teachers, crashes>>

(* handleExamSessionEnd closes the students whose time is over; the event    *)
(* comes again as long as there are others, and after a restart.             *)
SessionEnd(closed) ==
  /\ over
  /\ out' = out \cup closed
  /\ sess' = IF sess = "04" /\ out' = Student THEN (IF mode = "00" THEN "08" ELSE "06") ELSE sess
  /\ UNCHANGED <<exam, over, scored, auto, tasks, key, watcher, teachers, crashes>>

-----------------------------------------------------------------------------
(* AutoMark, one transaction. *)

(* generateAIMarkTask, before the commit.  asynq.Unique does not see another *)
(* task of the student: TaskPayload.Timestamp makes the payload different.   *)
Enqueue(r) ==
  /\ auto[r] = "marking" /\ mode = "00"
  /\ task' = [task EXCEPT ![r] = "queued"]
  /\ auto' = [auto EXCEPT ![r] = "queued"]
  /\ UNCHANGED <<exam, over, sess, out, scored, tries, key, watcher, teachers, crashes>>

(* markObjectiveQuestionAnswers and the commit: a paper without subjective   *)
(* questions is submitted as marked.                                         *)
AutoMarkCommit(r) ==
  /\ \/ auto[r] = "queued"
     \/ auto[r] = "marking" /\ mode # "00"
  /\ scored' = [scored EXCEPT ![By[r]] = @ \cup (paper \cap {"objective"})]
  /\ sess' = IF paper = {"objective"} THEN "10" ELSE sess
  /\ auto' = [auto EXCEPT ![r] = "done"]
  /\ UNCHANGED <<exam, over, out, tasks, key, watcher, teachers, crashes>>

(* An error of Redis or of the database, or of asynq.Unique if the student's *)
(* other task was enqueued in the same second: rolled back, and nothing      *)
(* tries again.                                                              *)
AutoMarkFails(r) ==
  /\ auto[r] \in {"marking", "queued"}
  /\ auto' = [auto EXCEPT ![r] = "failed"]
  /\ UNCHANGED <<exam, over, sess, out, scored, tasks, key, watcher, teachers, crashes>>

-----------------------------------------------------------------------------
(* handleAIMarkTask. *)

(* The AI answers, and the transaction begins; without an answer to mark the *)
(* handler fails at the first result.                                        *)
TaskRun(r) ==
  /\ task[r] = "queued" /\ "subjective" \in paper
  /\ task' = [task EXCEPT ![r] = "running"]
  /\ UNCHANGED <<exam, over, sess, out, scored, auto, tries, key, watcher, teachers, crashes>>

(* Redis has the key: another task has started a watcher. *)
TaskSkipsWatcher(r) ==
  /\ task[r] = "running" /\ key
  /\ task' = [task EXCEPT ![r] = "marked"]
  /\ UNCHANGED <<exam, over, sess, out, scored, auto, tries, key, watcher, teachers, crashes>>

(* Variant: the key is set without a watcher. *)
SetKey_Only(r) ==
  /\ key' = TRUE
  /\ UNCHANGED watcher

(* startExamSessionStatusCheck, then Set. *)
SetKey(r) ==
  /\ key' = TRUE
  /\ watcher' = [watcher EXCEPT ![r] = IF @ = "off" THEN "asleep" ELSE @]

(* Exists has found no key; another task may be here at the same time. *)
TaskChecksKey(r) ==
  /\ task[r] = "running" /\ ~key
  /\ task' = [task EXCEPT ![r] = "starting"]
  /\ UNCHANGED <<exam, over, sess, out, scored, auto, tries, key, watcher, teachers, crashes>>

TaskStartsWatcher(r) ==
  /\ task[r] = "starting"
  /\ SetKey(r)
  /\ task' = [task EXCEPT ![r] = "marked"]
  /\ UNCHANGED <<exam, over, sess, out, scored, auto, tries, teachers, crashes>>

TaskCommit(r) ==
  /\ task[r] = "marked"
  /\ scored' = [scored EXCEPT ![By[r]] = @ \cup {"subjective"}]
  /\ task' = [task EXCEPT ![r] = "done"]
  /\ UNCHANGED <<exam, over, sess, out, auto, tries, key, watcher, teachers, crashes>>

Retry(r) == tries[r] < MaxRetry

(* The limiter, the circuit breaker, the AI, Redis or the database. *)
TaskFails(r) ==
  /\ task[r] \in {"queued", "running", "starting", "marked"}
  /\ IF Retry(r) THEN task' = [task EXCEPT ![r] = "queued"] /\ tries' = [tries EXCEPT ![r] = @ + 1]
                 ELSE task' = [task EXCEPT ![r] = "archived"] /\ UNCHANGED tries
  /\ UNCHANGED <<exam, over, sess, out, scored, auto, key, watcher, teachers, crashes>>

-----------------------------------------------------------------------------
(* startExamSessionStatusCheck: it sleeps until the end of the session and   *)
(* then checks every two minutes.                                            *)

(* v_exam_unmarked_student_count. *)
Unmarked == {s \in out : scored[s] # paper}

WatchStep(r, from, to) == watcher[r] = from /\ watcher' = [watcher EXCEPT ![r] = to]

(* Variant: the status is not checked. *)
WatchStatus_Unchecked(r) ==
  /\ over
  /\ WatchStep(r, "asleep", "count")
  /\ UNCHANGED <<exam, over, sess, out, scored, auto, tasks, key, teachers, crashes>>

WatchStatus(r) ==
  /\ over
  /\ \/ sess = "08" /\ WatchStep(r, "asleep", "count")
     \/ sess = "10" /\ WatchStep(r, "asleep", "off")
  /\ UNCHANGED <<exam, over, sess, out, scored, auto, tasks, key, teachers, crashes>>

(* Variant: it does not come back. *)
WatchCount_Once(r) ==
  /\ WatchStep(r, "count", IF Unmarked = {} THEN "update" ELSE "off")
  /\ UNCHANGED <<exam, over, sess, out, scored, auto, tasks, key, teachers, crashes>>

WatchCount(r) ==
  /\ WatchStep(r, "count", IF Unmarked = {} THEN "update" ELSE "asleep")
  /\ UNCHANGED <<exam, over, sess, out, scored, auto, tasks, key, teachers, crashes>>

(* UpdateExamSessionOrPracticeSubmissionStatus has no condition on the status. *)
WatchUpdate(r) ==
  /\ WatchStep(r, "update", "delete")
  /\ sess' = "10"
  /\ UNCHANGED <<exam, over, out, scored, auto, tasks, key, teachers, crashes>>

WatchDelete(r) ==
  /\ WatchStep(r, "delete", "off")
  /\ key' = FALSE
  /\ UNCHANGED <<exam, over, sess, out, scored, auto, tasks, teachers, crashes>>

-----------------------------------------------------------------------------
(* Marking by hand. *)

(* saveMarkingResults reads the status through the pool, before it writes. *)
SaveRead(t) ==
  /\ mode # "00" /\ saw[t] = None
  /\ saw' = [saw EXCEPT ![t] = sess]
  /\ UNCHANGED <<exam, over, sess, out, scored, auto, tasks, key, watcher, marked, crashes>>

Save(t, s) ==
  /\ saw[t] # None /\ s \in out
  /\ sess' = IF saw[t] = "06" THEN "08" ELSE sess
  /\ marked' = marked \cup {s}
  /\ saw' = [saw EXCEPT ![t] = None]
  /\ UNCHANGED <<exam, over, out, scored, auto, tasks, key, watcher, crashes>>

(* submitResult: what is in t_mark becomes the score, whoever is missing. *)
SubmitResult ==
  /\ mode # "00" /\ marked # {}
  /\ scored' = [s \in Student |-> IF s \in marked THEN scored[s] \cup {"subjective"} ELSE scored[s]]
  /\ sess' = "10"
  /\ UNCHANGED <<exam, over, out, auto, tasks, key, watcher, teachers, crashes>>

-----------------------------------------------------------------------------

(* The process is lost with its goroutines and open transactions; asynq      *)
(* hands out again what was not finished; the key stays for seven days.      *)
Crash ==
  /\ crashes < MaxCrash /\ crashes' = crashes + 1
  /\ auto' = [r \in Request |-> IF auto[r] \in {"marking", "queued"} THEN "failed" ELSE auto[r]]
  /\ task' = [r \in Request |-> IF task[r] \in {"running", "starting", "marked"} THEN "queued" ELSE task[r]]
  /\ watcher' = [r \in Request |-> "off"]
  /\ saw' = [t \in Marker |-> None]
  /\ UNCHANGED <<exam, over, sess, out, scored, tries, key, marked>>

AutoMarkStep(r) == Enqueue(r) \/ AutoMarkCommit(r)
AIMarkTask(r) == TaskRun(r) \/ TaskSkipsWatcher(r) \/ TaskChecksKey(r) \/ TaskStartsWatcher(r) \/ TaskCommit(r)
Watch(r)      == WatchStatus(r) \/ WatchCount(r) \/ WatchUpdate(r) \/ WatchDelete(r)

Next == \/ \E r \in Request : \/ Submit(r) \/ AutoMarkStep(r) \/ AutoMarkFails(r)
                              \/ AIMarkTask(r) \/ TaskFails(r) \/ Watch(r)
        \/ EndTimePasses
        \/ \E closed \in SUBSET Student : SessionEnd(closed)
        \/ \E t \in Marker : SaveRead(t) \/ \E s \in Student : Save(t, s)
        \/ SubmitResult
        \/ Crash

Spec == Init /\ [][Next]_vars

(* The session ends for everyone, and goroutines and workers proceed.  No    *)
(* student has to submit and no teacher to mark.                             *)
Fairness == /\ WF_vars(EndTimePasses) /\ WF_vars(SessionEnd(Student))
            /\ \A r \in Request : WF_vars(AutoMarkStep(r)) /\ WF_vars(AIMarkTask(r)) /\ WF_vars(Watch(r))

FairSpec == Spec /\ Fairness

-----------------------------------------------------------------------------
(* Properties. *)

(* Every variable keeps its type: no task is tried more often than asynq's   *)
(* MaxRetry allows.                                                          *)
TypeOK ==
  /\ paper \in Papers /\ mode \in Modes
  /\ over \in BOOLEAN /\ key \in BOOLEAN
  /\ sess \in {"04", "06", "08", "10"}
  /\ out \subseteq Student /\ marked \subseteq Student
  /\ scored \in [Student -> SUBSET Part]
  /\ auto \in [Request -> AutoState]
  /\ task \in [Request -> TaskState] /\ tries \in [Request -> 0..MaxRetry]
  /\ watcher \in [Request -> WatcherState]
  /\ saw \in [Marker -> {None, "04", "06", "08", "10"}]
  /\ crashes \in 0..MaxCrash

(* ExamSessionStatusSubmitted = "10" // 这里其实是“已批改”: when a session that *)
(* is marked by the AI is set to marked, by whichever of several watchers and  *)
(* whatever tasks still run, everybody has handed in and every answer has a    *)
(* score.                                                                      *)
MarkedIsComplete ==
  sess = "10" /\ mode = "00" => out = Student /\ \A s \in Student : scored[s] = paper

(* An end event that comes late or again never takes a session back from       *)
(* marking or marked, and no step of the AI marking takes back "marked".       *)
NotReopened ==
  [][/\ sess \in {"08", "10"} => sess' \notin {"04", "06"}
     /\ sess = "10" /\ mode = "00" => sess' = "10"]_vars

(* The key and the watcher of handleAIMarkTask: as soon as the AI's scores of  *)
(* anybody are written, a watcher waits to set the session to marked, although *)
(* the key is looked up and set in two steps and tasks fail in between; as     *)
(* long as the service does not crash.                                         *)
Watched ==
  crashes = 0 /\ mode = "00" /\ sess # "10" /\ (\E s \in Student : "subjective" \in scored[s]) =>
    \E r \in Request : watcher[r] # "off"

(* The student's answers get all their scores, in the AI's own time. *)
InHand(s) ==
  /\ \E r \in Request : By[r] = s /\ auto[r] = "done"
  /\ \E r \in Request : By[r] = s /\ task[r] \notin {None, "archived"}

(* A session that is marked by the AI is marked in the end, if every student's *)
(* client submits, neither AutoMark nor the AI fails for good and the service  *)
(* does not crash.                                                             *)
MarkingFinishes ==
  /\ mode = "00"
  /\ [](crashes = 0)
  /\ <>[](\A s \in Student : InHand(s))
  => <>(sess = "10")
=============================================================================
