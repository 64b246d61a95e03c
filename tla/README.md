# Verification of the CST examination backend

TLA+ models of the Go backend under `src/backend`, TLC configurations that check them on small
instances, and TLAPS proofs of what matters most for every instance. `PROJECT.json` lists the
components, the runs with the properties each checks, the mutants that show that a property can fail,
the source lines of every definition, the hazards and the theorems.

The backend manages examinations: papers are composed, an exam with its sessions is planned and
published, sessions start and end by themselves, students sit them online, invigilators watch, and
answers are marked automatically, by an AI or by teachers. One Go process serves the HTTP requests
with goroutines and keeps its state in PostgreSQL and Redis. What makes it hard is that the same rows
(`t_exam_info`, `t_exam_session`, `t_examinee`, answers and scores) are written by request handlers
and by timers and background tasks, at two isolation levels, with checks made through the connection
pool outside the transactions, and that part of the state (timers, watchers) lives in memory only.

In what follows paths are relative to `src/backend`; `exam_service` stands for
`exam_service/exam-maintenance-serve_latest.go`.

## 1. Inventory

### Modelled

| component | state | operations | interacts with |
|---|---|---|---|
| timer manager (`exam_service`) | map key -> `time.Timer`, mutex, bounded channel of events, worker goroutines, context | `SetExamSessionTimer`, `CancelExamSessionTimer`, `SetExamTimers`, `CancelExamTimers`, `InitializeExamTimers`, `StopAll`, timer callback, worker loop | called by `exam_mgt`, `exam_site`, the boot and its own event handlers |
| exam life cycle (`serve/exam_mgt/exam-mgt.go`, handlers in `exam_service`) | status of an exam and its sessions, `update_time`, examinees as a group | publish, void, PUT, DELETE; start and end of a session | timers; the rows of the sitting |
| sitting (`serve/paper_respondence`, `serve/invigilation`, end handler) | `start_time`, `end_time`, `status`, `extra_time` of examinees, answers and their lock | enter, begin, answer, hand in; admit, mark, clear, remark, extra time; end of the session | end event; marking starts at hand-in |
| marking (`serve/mark`) | scores, `t_mark`, session status, asynq tasks, a Redis key, watcher goroutines | `AutoMark`, AI task, watcher, teachers' save and submit, end handler | hand-in, end event, AI service, Redis |
| registration plans (`serve/registration`) | a plan's status and deadlines, a timer manager of its own; students' rows, practices' rosters, connections of the pool | edit, release, void, delete, end of the registration and of the review; register, import, review, move | practices' rosters |
| file records (`cmn/file-dml.go`, `examFile`, `invigilationFile`, `cleanupTempExams`) | records by digest, lists of attachments, files on disk, bounded queue, workers | upload, post, delete, cleanup, removal of files | exams, questions, invigilation records |
| edit locks (`cmn/redis-lock.go` and the handlers that lock) | a Redis key with holder and expiry; status and `update_time` of exams | lock, refresh, release; delete, publish and void lists of exams, save a question | exams, papers, question banks |
| practices (`serve/practice_mgt`, practice half of `paper_respondence` and `mark`) | status of a practice and its marking configuration; a student's attempts, collections of wrong questions, answers and scores | release, delete, void; enter, answer, hand in; AI and manual marking | answers shared by an attempt and its collections; asynq tasks |
| time synchronisation (`serve/time_sync`) | map of WebSocket connections, two channels, a goroutine pool | connect, read, heartbeat, broadcast, exit | `HandleExit` of the sitting |

Hard behaviours: deadlock on the bounded queue, callbacks of stopped timers (timer manager); stale
status read before a transaction, write skew, timers set before the commit, restart (life cycle);
snapshot checks against concurrent writers of the same rows at another isolation level (sitting);
duplicate hand-ins, retried tasks, an in-memory watcher behind a persistent key (marking); a callback
that removes a newer timer's key (plans); places counted before the transaction, two pools, row locks
taken in opposite orders (students); a task sent before the commit of the deletion that caused it
(files); answers that an attempt and its collections share (practices); leases that run out during an
operation (locks); full channels and a pool that a slow connection occupies (time). What makes each
component correct is stated by the properties of section 4.

### Not modelled

| component | state and operations | why not |
|---|---|---|
| room and invigilator allocation (`exam-mgt.go:813-964`) | none: loops over lists of rooms and examinees in random order | sequential inside one request; unit tests reach every branch |
| exam sites (`serve/exam_site`) | copies of exams at a site | whole exams copied over HTTP; the data copied is what the other models abstract to one value |
| grades (`serve/grade`) | submission flag of a session | one UPDATE on a session that is marked, and queries |
| papers, question banks, generated papers | CRUD | single transactions over data the models abstract; their lock is in `EditLock` |
| users, roles, login | CRUD, cookies | no state machine |
| knowledge banks, courses, OCR, AI marking and detection | CRUD, external models | the outcome of the AI is an input of `ExamMarking` |
| rate limiter (`cmn/ratelimiter.go`) | token counts in Redis | delays calls whose outcome is left open |
| web server, command line, socket server | routing, start-up | I/O |
| shared library, small handlers, vendored code | helpers, stubs, third-party | generated or not the program's own |

## 2. Modules

```
TimerService   abstract promise of the timer manager
  ^ refined by
ExamTimer      the manager: mutex, map, channel, workers          ExamTimer_proofs
  ^ taken by its promise
ExamLifecycle  status of one exam and its sessions                ExamLifecycle_proofs
  | refines
ExamStatus     abstract promise: whole operations on the statuses
  ^ one running session of ExamLifecycle, in detail
ExamSitting    students, invigilator and end handler              ExamSitting_proofs
  ^ after the hand-in
ExamMarking    automatic, AI and manual marking                   Marking_proofs

RegistrationPlan  status and timers of one plan                   RegistrationPlan_proofs
  ^ that it ends is an action of
Enrollment        students of the plans, rosters, connections     Enrollment_proofs

Practice          attempts, wrong questions and their marking     Marking_proofs

FileStore         records, lists, files, deletion workers         FileStore_proofs
EditLock          leases and the requests under them              EditLock_proofs
TimeSync          connections that are told the time              ExamSitting_proofs
```

`MCx.tla` gives the constants of module `x` their values for TLC; a definition with a comment
"Variant" is a plausible mistake in the definition after it and is used only by the mutants.

### ExamTimer and TimerService

A step is what the mutex and the channel separate. `mutex`, `timers`, `queue` and `ctxDone` are
`tm.mutex`, `tm.timers`, `tm.eventQueue` and `tm.ctx`. Every call of `SetExamSessionTimer` is a
*request*, and `st` says how far it is: armed, stopped, its callback sending, about to delete the map
entry, and so on. `SetFuture` and `SetOverdue` are the two branches of the call (a trigger time ahead
or past); `SendOverdue` is the send inside the mutex, which blocks when the channel is full. `Fire`,
`CallbackSend`, `CallbackDelete` are the runtime timer and its callback. `HandlerDone`, `Rearm` and
`CancelOwnExam` are what event handlers do to the manager.

`TimerService` is the promise: a request is delivered to a worker at most once, and is dropped only
because its key was set again or cancelled or the service stopped. `ImplementsService` is the
refinement, with `Outcome` as the mapping.

### ExamLifecycle

One exam row and its session rows; every handler is a transaction at READ COMMITTED. `status` is what is
committed, `wr[p]` what the transaction of thread `p` has written, and a row with an uncommitted write
is locked (`Free`). An UPDATE whose WHERE clause holds of the committed row waits for the lock and
evaluates the row again; otherwise it skips the row. A statement that waits (`Await`) keeps to the rows
it found when it began (`base[p].rows`): of those it writes the ones that still fit (`Matched`), a
session inserted meanwhile it misses (`Misses`), and a NOT EXISTS is not looked up again (`Closes`).
`base[p]` is what a handler read before its first write and decides on later; `seen[p]` says whether the
optimistic lock on `update_time` would still succeed. `armed` and `fired` are the timers by the promise
of `TimerService`. `CommitFails` is a COMMIT whose error is only logged; `DeadlockAbort` is
PostgreSQL's; `Crash` loses timers, events and transactions and runs `InitializeExamTimers`.

`overtaken` is a history variable: a statement was committed although, when it wrote, what it had read
before it waited, or the count of examinees that the start handler reads in a statement of its own
(`StartRead`, `StartEmpty`), held no more (`base[p].late`). It guards nothing. `Consistent`,
`SessionForward` and `ImplementsStatus` are about the behaviours up to that commit, since the code does
not have them afterwards (section 6).

`PutRead .. PutCheck` are PUT exam, `StatusBegin .. StatusExam` publish and void, `DelRead ..
DelExam` DELETE, `StartSession .. StartExam` and `EndSession .. EndExam` the event handlers.
Examinees are a group (`roll`: none, some unfinished, all done, voided): the handlers count them only.

`ExamStatus` is what readers of the two tables may count on, with the committed `status` as its only
variable: `Publish`, `Void`, `Delete`, `Replace`, `Begin`, `Cancel`, `End` and `Close`, each atomic and
on the statuses as it finds them. An exam that was deleted keeps its rows, and late requests and events
still move its sessions on (`Linger`). `ExamLifecycle` implements it: the steps of a transaction before
its commit are stutters.

### ExamSitting

One session and its examinees. Students' requests are REPEATABLE READ transactions: one step reads and
checks, another writes and commits; `fresh[h]` becomes false when another transaction commits a row that
`h` is to write, and `h` then fails. The invigilator's updates and the end handler are READ COMMITTED:
`SessionEndRead` computes who is over and who is absent, `SessionEndWrite` writes it over whatever was
committed in between. `Due` and `Extendable` are `actual_end_time` and `extendable_time` of the view
`v_examinee_info` (`doc/abilityIndex.sql`). `period` is the session's period mode. `Marks` are the
statuses that the invigilator's requests carry: PATCH writes what it is sent, so the constant is any
set, and a student's status is one of `t_examinee`'s or one of those (`Code`).

### ExamMarking

The paper has objective and subjective parts, and `scored` says which of them have a score. A hand-in
starts the goroutine `AutoMark` (`Enqueue`, `AutoMarkCommit`), which enqueues an asynq task
(`TaskRun .. TaskCommit`, with retries `TaskFails`); a task starts a watcher unless the Redis key
exists (`TaskChecksKey`, `TaskStartsWatcher`: two calls), and the watcher polls status and count and
sets the session to marked (`WatchStatus .. WatchDelete`). `SaveRead`, `Save` and `SubmitResult` are
the teachers. `Crash` loses goroutines and transactions; tasks and key survive.

### RegistrationPlan

One row of `t_register_plan` and its two timers. `armed[k]` is the timer the manager's map leads to
for key `k`, `unseen[k]` those that run although the map has lost them: the callback (`Fire`, then
`Remove`) sends first and deletes the key afterwards, whatever timer it leads to by then. A request
checks the status through the pool (`Request`), writes in its transaction (`Write`) and sets or cancels
the timers from what is committed (`Query`, `Set`, `Cancel`), an edit after its commit, the others
before. `HandleEnd` and `HandleReviewEnd` are the two event handlers, `Crash` a restart with
`InitializeRegisterTimers`.

### Enrollment

Rows of students in several plans. A request is a sequence of statements: `Check` and `Same` before the
transaction, `Begin`, `Read`, `Own`, `Count`, `Write`, `Load`, `Leave`, `Others`, `Roster`, `Clear`,
`Commit`; `AfterWrite` gives the order for each kind. Nothing checks what a registration, a review or a
move names, so any students, any two plans (the same one twice included) and any status of `Sent` are
asked for, and a status is written as it came. Statements that go through the pool (`Count`,
`Load`) need a second connection (`Spare`). `Roster` and `Clear` work on the other pool and are in
place before the request commits. `Abort` is PostgreSQL's answer to a cycle of waits.

### Practice

One practice with one question, and one student. `st` is the status of each submission, an attempt or a
collection of wrong questions; a collection writes the answers of its attempt (`of`, `text`, `open`,
`graded`). As in `ExamSitting` a request of the student is a REPEATABLE READ transaction in two steps:
`EnterPractice` and `NewAttempt`, `EnterWrong` and `NewWrong`, `StudentAnswer` and `SaveAnswer`,
`SubmitPractice` and `HandIn`, or `WindowFails` when a row to be written has changed (`fresh`).
`AutoMark` reads the answers, `Mark` scores them and sets the status, in one transaction if the question
is objective, as an AI task if it is subjective; `TeacherReads` and `TeacherMarks` do it by hand.
`Operate` is the check that a teacher's request makes before its transaction (`Release`, `Delete`,
`Void`).

### FileStore

`rec` is `t_file`, `list` the owners' attachments, `disk` the files. Requests (`Post`, `Delete`,
`Update`, `Select`, `Remove`, `Count`, `Commit`) are transactions; exams and questions delete the old
record first and update the list afterwards, invigilation records the other way round. `Count` sends
the task before the commit and drops it when the queue is full; the workers (`Take`, `CountRecords`,
`RemoveFile`) count again through the pool. `Clean` and `CleanNext` are the cleanup of temporary exams.

### EditLock

`holder` and `ttl` are the Redis keys; the three Lua scripts are atomic. `left[c]` is what a client was
promised. A request on a list of exams takes the locks one by one (`Lock`), checks and remembers
`update_time` (`Exist`, `Stamp`, `Check`), writes in one transaction (`Write`) and releases; nothing
tells it that a lease has run out.

### TimeSync

For every connection a handler (`Open`, `Register`, `Greet`), a reader (`ReadFails`, `Unregister`,
`CloseRead`, `Exit`) and a heartbeat (`BeatFails`); for all of them `startServe`, which is either in its
`select` (`AddClient`, `RemoveClient`, `Broadcast`) or waits for a broadcast on the pool (`PoolSubmit`,
`Send`, `BroadcastEnds`). The read deadline is set when the connection is made and put off by a pong only
while the reader runs, which `AddClient` starts: of a client that waits longer for its admission the
deadline passes (`DeadlinePasses`, `expired`) and the first read fails although the client answers.

## 3. Runs, bounds, fairness

| run | instance | what it shows |
|---|---|---|
| `timer` | 2 callers, 1 worker, 1 session (2 keys), queue of 2, 4 requests | the refinement of `TimerService`; the map of timers is honest; with room in the queue every event reaches a worker and handlers return |
| `life_status` | 2 callers, 2 workers, 2 sessions, publish and void, 1 restart | a running exam is only ended; every session has its timers |
| `life_replace` | 3 callers, 2 workers, PUT, publish, void, DELETE, failing commits | deleted rows stay deleted; until an overtaken statement is committed: statuses of exam and sessions agree with sessions replaced, sessions go forward, the refinement of `ExamStatus` |
| `life_live` | 1 caller, 2 workers, 2 sessions, publish and void, 1 restart | the sessions of a published exam end |
| `sit` | 1 student, 2 requests at a time, 2 invigilator's requests with a status the system does not know, fixed and flexible sessions | one beginning, entry rules, sealed answers, nobody cut short, extra time within the gap, the session ends |
| `mark` | 2 students who submit once, 2 teachers, 1 retry, 1 crash, papers with subjective questions | marked means everybody is marked; nothing is reopened; marking gets finished |
| `plan` | 1 administrator with 3 requests, 1 worker, 1 restart, 3 pairs of deadlines | timers follow the plan; a plan closes in time; void is final |
| `enrol` | 2 requests of any kind on any plans and students with the statuses 02, 06 or 08, 2 plans (one with two places), 2 students, 3 connections | approvals are kept, a student who is moved to another plan keeps a place, every request returns |
| `practice` | 2 windows, 2 teachers with 2 requests on the practice, 2 texts, an attempt with two collections or two attempts with one, both kinds of question and of marking | answers have one writer; what is handed in is what is marked; what is void stays so |
| `files` | 2 users, 2 owners, 2 digests, queue of 1, 2 workers, 3 requests, 1 restart | no recorded file goes, lists and records agree, everything comes to rest |
| `lock` | 2 users with a tab each, 2 exams, a question, leases of 2 and 1, 3 requests, restarts | a lease holds, statuses change as checked, locks come free |
| `time` | 2 connections, channels of 1, a pool of 1 | the map is exact, an exit is of a client that left or was not read in time, a lost connection is released, whoever stays is told the time or was disconnected by its deadline |

Why the bounds are enough to show the interesting cases, and what they leave to the proofs:

- `timer`: with a capacity of 2 and 4 requests the queue fills up, so blocked setters and callbacks
  occur; one session has a start and an end key, and the handler of one cancels or sets the other.
- `life_*`: each caller is one request, so three callers are any three of the requests at once. The two
  sessions begin at times 0 and 1 and end together at 2: overlapping, and both overdue after a restart.
  `MaxTime` leaves one tick for a repeated end event. In `life_replace` a publish, a void and a delete
  each wait for a PUT and miss what it inserts, and a start handler counts before a PUT and writes after
  it. A second PUT that misses what the first has inserted needs a third session, and an end handler
  that waits for a PUT more time: they are left to the proofs. It has no restart, which for the
  committed rows is an aborted transaction and an event that comes again; those are in `life_status` and
  `life_live`.
- `sit`: the properties are about the rows of one student; students share the session row and the end
  handler only. Two handlers are two windows, or a window and the invigilator. The status is an
  unknown one: it keeps the student out as every mark does, and the session open besides. The proofs
  hold for any number of students and handlers and any statuses.
- `mark`: a client that submits again is in the proofs, which take any `By`. A retry and a crash can
  hit the same task. Two teachers make a stale read of the status possible.
- `plan`: two requests at once may leave an older deadline in the map (section 6), so the properties
  are about one administrator; three requests are a release between two edits. The pairs of deadlines
  have the review end before and after the registration.
- `enrol`: two requests make every pair of kinds meet. The first rows are a student who waits in one
  plan and is approved in the other, which lets two moves lock rows in opposite orders (`Abort`), and a
  student without a row, whom requests name all the same. With 3 connections the third is what both
  need; with 2 they would block.
- `practice`: two windows are any two of the student's requests at once. Two collections of one attempt
  are needed for two writers of the same answers, two attempts for a number given twice; one question
  shows everything, since all rows of an attempt are locked and scored together. The two requests on
  the practice are a release and whatever comes after it or overlaps it.
- `files`: three requests are a deletion, a new attachment of the same digest and another deletion;
  with a queue of 1 tasks are dropped. The exam and the invigilation record share a digest.
- `lock`: a request's lease lasts one tick and an editing lease two, so that either may run out within
  a request. A second tab of a user is in the theorem's condition `OneTab`.
- `time`: with capacities of 1 and two connections each channel and the pool is full at times, and a
  deadline may pass at any time before a connection is read.
- `SYMMETRY` is used in runs without liveness properties only, over callers and workers,
  which no definition tells apart.
- Deadlock is not checked: a bounded clock and bounded requests stop in every model. That the timer
  manager may block for good is the condition `HasRoom` of its liveness properties; that requests
  return is a liveness property of `Enrollment` and `FileStore`, of the former with more connections than
  requests: with as many, all of them may wait for a second one for ever, which no run shows.

Fairness:

- `ExamTimer`: strong on steps that take `tm.mutex` (`sync.Mutex` hands the lock to a waiter that has
  starved for a millisecond) and on callbacks; weak on timers and workers, which the Go runtime
  schedules. Nothing obliges anybody to call the service.
- `ExamLifecycle`: weak on the clock and due timers; strong on taking each waiting key (the channel is
  a FIFO) and on the steps of a started transaction (PostgreSQL grants row locks in turn). No request
  has to be made, a commit may fail where `MayFail` says so (nowhere in `life_live`).
- `ExamSitting`: weak on the clock and the end handler only. Neither students nor the invigilator have
  to do or to finish anything.
- `ExamMarking`: weak on the end of the session and on goroutines, tasks and watchers; none for
  hand-ins and teachers. `MarkingFinishes` is conditional on what the code cannot ensure: everybody
  submits, no task fails for good, no crash.
- `RegistrationPlan`: weak on the clock, due timers, taking an event of each key, and the steps of
  started handlers. No request is made by fairness, and a restart may lose everything once.
- `Enrollment`, `FileStore`: weak on the next statement of each started request, and on the workers. A
  request may fail at any statement.
- `EditLock`: weak on the clock alone: keys expire whatever the service and its clients do.
- `TimeSync`: weak on the ticker, on the broadcast's sends (each has a deadline) and on what a
  connection's goroutines go on to do; strong on receiving from a channel (a `select` with several
  ready cases picks one at random). Nobody has to connect or to leave.

## 4. What the properties say

Each component's type invariant is `TypeOK` (`SyncTypeOK` for `TimeSync`): theorems state them. The types
of `Practice` (`PracticeTypes`) are a part of its inductive invariant.

- `MapTracksLive`, `ImplementsService`, `EveryEventHandled`, `HandlersReturn` (ExamTimer): the map
  never leads `Stop` to a past timer, and nothing is lost, repeated or stuck while there is room.
  `QueuedOnce` and `OneSender`, that an event is queued once and that only one goroutine is in the
  blocking send, are theorems.
- `Consistent`, `SessionForward`, `RunningStays`, `DeletedForGood`, `ImplementsStatus`, `Scheduled`,
  `SessionEnds` (ExamLifecycle): what is deleted stays so; until an overtaken statement is committed
  (section 6) the statuses of two tables that eight handlers write in different orders agree, sessions
  never go back, and each commit is one whole operation although its transaction decided on what it had
  read before; a published session has the timers without which nothing starts or ends it; no session of
  a published exam stays as it is for ever.
- `BeginsOnce`, `EntryRespected`, `HandInSeals`, `NotCutShort`, `GrantFits`, `SessionEnds`
  (ExamSitting): what a request checked still holds when it writes; handed-in answers are sealed; the
  end handler takes nobody's time although extra time is granted while it runs (a mark "absent" by the
  invigilator does); a session ends once every student is out of time, unless one has a status that the
  end handler neither counts as finished nor closes.
- `MarkedIsComplete`, `Watched`, `NotReopened`, `MarkingFinishes` (ExamMarking): as the run says; note
  that with teachers (`mark_mode` 10) the session may be marked with students missing, see section 6.
- `Scheduled`, `VoidIsFinal`, `Closes` (RegistrationPlan): between requests a released plan has a timer
  for the deadlines it announces, although callbacks remove keys they do not own; no event that is
  still on its way brings a voided plan back; a plan released before its end is closed.
- `ApprovedKept`, `MovedKeepsPlace`, `RequestsReturn` (Enrollment): an approval is not undone by the
  student's own late request or by a move that read an older row; when a move to another plan turns a
  row "moved", the row there is, in the same commit, what the move had read or an approval (`Marked`
  names the rows that a request marks without moving anything: of a move of a plan onto itself, made
  after the move looked, or by a status "moved" in a review or a registration); transactions that wait
  for each other's rows come to an end.
- `OneWriter`, `MarkedAsHandedIn`, `VoidStays` (Practice): the answers that an attempt and its
  collections share are open to one of them, in however many windows; the score of an attempt is for what
  was handed in, whoever gives it and however late; neither a check made before a void nor marking that
  ends after it resumes what is void.
- `FileKept`, `ListsMatch`, `Settles` (FileStore): a file with a record is not removed although the
  task was sent by a deletion that may yet be rolled back; lists and records agree at every commit.
- `LeaseHolds`, `StatusLawful`, `LockFreed` (EditLock): nobody else's request shortens a lease; a
  deletion between whose check and UPDATE the exam was published is kept out by the lock and nothing
  else; locks left behind by refused and failed requests come free.
- `Tracked`, `ExitsAreReal`, `Released`, `ToldTheTime` (TimeSync): no entry is left behind or put back,
  an exit is counted only of a client that is gone or whose read deadline passed before its reader ran,
  and full channels block nobody for good: whoever stays is told the time again and again, or finds the
  connection closed by that deadline, but is not left on one that nobody serves.

## 5. Proofs

tlapm proves the theorems below for every value of the constants that satisfies the module's
assumption (`TimerAssumption`, `LifecycleAssumption` and so on: what the sets are disjoint from, that
times are natural numbers in order, that maps are functions). An exam has at least one session
(`Initial # {}` in `LifecycleAssumption`), which `validateExamData` asks for.

Two proof modules are about two components each and extend both: `Marking_proofs` those that
`serve/mark` marks (`Practice` and `ExamMarking`), `ExamSitting_proofs` those that a student meets in a
sitting (`ExamSitting` and `TimeSync`). `Practice` and `TimeSync` therefore name their specifications
`PracticeSpec` and `SyncSpec`. A theorem names the specification of one component and its proof uses the
assumption of that component only.

- `ExamTimer_proofs`: `TimerTypeCorrect`, `TimerMapTracksLive`, `TimerQueuedOnce`, `TimerOneSender`, by
  the inductive invariant `IInv`, their conjunction. `MapTracksLive` needs `OneSender`: the event sent
  inline belongs to no timer on the map, so ending the send invalidates no entry.
  `TimerImplementsService`, the refinement of `TimerService`, maps the initial state to its initial
  state and every step of the manager, under `IInv`, to one of `Ask`, `Drop`, `Shut`, `Deliver`,
  `GiveUp` or a stutter. It turns on `Outcome`, a function of a request's `st` and of whether its event
  is queued: since an event is queued once (`QueuedOnce`), the receive that takes it out of the queue is
  the only step that makes it "delivered", for good, however late its callback goes on; since the map
  leads to timers of the same key only (`MapTracksLive`), what a Set or a Cancel drops was a request for
  that key.
- `ExamLifecycle_proofs`: `LifecycleTypeCorrect`; `LifecycleLocksExclusive`, that at most one
  transaction has an uncommitted write on a row; `LifecycleDeletedForGood`. The invariant `LockInv` adds
  `LockExclusive` and `DeletedKept`: a transaction that holds a deleted row's lock writes it back as
  deleted. It is needed because the handlers check a status when they write and the row could change
  until they commit; the lock says that it cannot. `LifecycleConsistent` and `LifecycleSessionForward`
  follow from `StageInv`: what each transaction may have written (`Lawful`) and, at each of its
  statements, what it has pinned of the committed rows (`Stage`): a publish or a void that still holds a
  valid `update_time` has the exam's status it checked; a PUT has all sessions it is to replace locked
  or none; an event handler that has written its session has an exam that runs or is about to. All of it
  is asked as long as nothing overtaken was committed. Only a commit changes a status, and `Lawful` of a
  transaction about to commit is what the property asks of its commit. Both properties speak of the time
  until an overtaken statement is committed. `LifecycleNotOvertaken` says when that is for ever: without
  PUT among the `Kinds` nothing is ever overtaken, and then every commit is consistent, forward and a
  whole operation. Its invariant `AllInTime` is that no statement is late and that the rows a thread
  waits for are still all those it is to write: only a PUT adds sessions or takes their
  examinees away. `LifecycleImplementsStatus`, the refinement of `ExamStatus`, takes from the same
  invariant what each kind of transaction has pinned when it commits: a publish, a void and a delete
  cover all sessions of the exam as it then is (`Covers`) and not as it was when they were asked; a PUT
  inserts beside the very sessions it deletes (`Replaces`); a session begins only in an exam that may
  still run (`Begins`). `LifecycleRunningStays` holds while requests only publish and void: a PUT that
  read "published" may write that back over a running exam (section 6), so the hypothesis is on `Kinds`.
  `LifecycleScheduled` holds without PUT (whose new sessions get no timers, section 6) and if no commit
  fails (a void cancels the timers before a commit that may fail); DELETE, restarts, overdue events and
  aborted transactions are included. Its invariant `TimedInv` adds to `StageInv` when a session relies
  on its events (`Relies`: its exam is published or runs, or a publish of it is about to commit) and
  that each event is then armed, fired, being handled, or past (`Timely`), and that timers carry the
  times of the session's row (`TimerTimes`).
- `ExamSitting_proofs`: `SittingTypeCorrect`, `SittingBeginsOnce`, `SittingEntryRespected`,
  `SittingHandInSeals`, `SittingNotCutShort`, `SittingGrantFits`, by `SInv`, for any set `Marks` of
  statuses that requests carry. Its parts: what the end handler has read still holds when it writes
  (`PlanHolds`; extra time waits for the session's lock, and time only passes), whoever has an end has
  begun (`EndedHasBegun`), and as long as a request is fresh what it checked holds (`Checked`). About
  `TimeSync`: `SyncTypeCorrect`, `SyncTracked`, `SyncExitsAreReal`, by `TInv`. A connection is in a
  channel at most once, in `register` only before it is read and in `unregister` only after
  (`ChannelsOK`); a reader that has left its loop has lost its connection or its deadline had passed
  unread, and one that reaches `Exit` closed such a socket itself (`ClosedOK`); only a broadcast has
  connections to come to (`SelectOK`). `PoolSize` bounds the sends of all connections together: `Busy`
  counts them as a set of pairs of a connection and a number, so that a free goroutine is room for any
  one connection.
- `Marking_proofs`, about `ExamMarking`: `MarkingTypeCorrect`, `MarkingWatched`, `MarkingNotReopened`;
  `MarkingComplete` for every session whose paper has subjective questions (without any, the first
  hand-in ends the marking, section 6). `MInv`: wherever something relies on a watcher (the key, a task
  about to commit, a subjective score) there is one, unless there was a crash. `CInv` adds what a
  watcher has read: past the status check everybody is out, past the count everybody is scored, and no
  step takes either back. About `Practice`: `PracticeOneWriter`, `PracticeMarkedAsHandedIn`,
  `PracticeVoidStays`, by `PInv`. At most one submission in progress writes the answers of an attempt
  (`Alone`); they are open for it, and after a void they stay open only for a submission that nothing
  marks (`OpenOK`); as long as a request is fresh what it read holds (`FreshOK`); what AutoMark and
  teachers have read of an attempt that still waits for its score is what it says (`ReadOK`). The
  numbers of attempts (`no`), the maximum of a set and in no property, are left out of the types.
- `RegistrationPlan_proofs`: `PlanTypeCorrect`, and for one administrator (`OneCaller`)
  `VoidedForGood` and `PlanScheduled`. The strengthening says what an open request knows: the status it
  checked still holds, what it read of the deadlines is what is committed, and a callback that has sent
  removes only what is past or leaves its timer running unseen.
- `Enrollment_proofs`: `EnrollTypeCorrect`; `ApprovalKept` and `MoveKeepsPlace`, from the row locks
  (who has written a row is alone with it, and an upsert that waited sees the approval). Both are for
  requests that name any students, plans and statuses: a commit writes "moved" only for a move or because
  the request said so, and a move to another plan that had found the row has written the row there.
- `FileStore_proofs`: `StoreTypeCorrect`; `RecordedFilesStay`, from an invariant about each worker that
  has counted none; `ListsAgree` for users who edit no owner in common, from what each transaction has
  read, taken and inserted, record ids being handed out once.
- `EditLock_proofs`: `LockTypeCorrect`; `LeasesHold` for users with one tab; `LawfulStatus`, from the
  fact that `update_time` is never given twice and that a request whose leases all still run is alone
  with its exams.

Every safety property that a run checks is stated by a theorem, with the hypotheses named above. Only
model-checked is liveness, which is out of the prover's reach, and what a theorem's hypotheses leave
out: `RunningStays` and `Scheduled` are false there.

## 6. Observations

The models contain these behaviours of the code, which the properties allow or whose conditions exclude
them:

- Timer manager. The callback deletes the map entry by key after its event was sent; if the handler
  has set the same key in between, the newer timer loses its entry and can no longer be cancelled
  (`exam_service:152`). `SetExamSessionTimer` sends inside the mutex: with a full queue the workers'
  own handlers wait for the mutex and nobody drains the queue (`exam_service:134`).
- Life cycle. Of two sessions that end at the same moment neither handler may see the other's end, and
  the exam stays in progress (`exam_service:736`): that the exam itself ends holds with one worker, and
  `SessionEnds` is about its sessions. The UPDATE of the sessions by a publish, a void or a DELETE
  (`exam-mgt.go:1121`, `2872`) finds its rows when it starts. If it has to wait for a PUT that deletes a
  session and inserts another, it skips the first and never sees the second. A PUT on an exam it took to
  be unpublished leaves `update_time` as it is (`1979`), so `updateExamStatus` succeeds: the exam is
  published with a session still in status 00, whose start event is refused (`exam_service:525` asks for
  02), or voided or deleted beside one that is not. In the same way a PUT that waits for another leaves
  the sessions of both, and the UPDATE that ends an exam does not look up its NOT EXISTS again after it
  waited for the exam's row (`exam_service:736`), so it may end beside the sessions a PUT has just
  inserted. The start handler counts the examinees of a session before it sets the exam abnormal
  (`exam_service:446`, `480`) and a PUT may replace the session in between. After such a commit
  (`overtaken`) `Consistent` and the refinement are false of the code; no lock that all of them take
  orders these handlers, since PUT does not take the edit lock. A PUT on a published exam replaces its
  sessions, but its `SetExamTimers` reads the old ones through the pool before the commit
  (`exam-mgt.go:2619`), so that the new sessions have no timers: with `put` among the `Kinds` of
  `life_status`, `Scheduled` is violated. A publish that takes place while the start time passes loses
  the start event. A PUT between the check and the writes of a publish leaves sessions without answer
  papers. A PUT inserts sessions into an exam that a DELETE has just deleted. A void whose commit fails
  leaves the exam published without timers. A PUT that read "published" may write that status back over
  a running exam.
- Sitting. The end handler writes `end_time` of those who handed in early as well, and it does not lock
  answers: they stay editable after the end, and a later hand-in returns early without locking. A
  student who enters while the end handler runs may be marked absent with a `start_time`. A hand-in
  overwrites the invigilator's mark. A mark cleared before the end and written after makes a closed
  student normal again. The status of a PATCH is written unchecked (`invigilation.go:905`, `1048`): a
  student with one that the end handler does not know keeps the end event coming back every minute, and
  the session never ends (`exam_service:664`); so does a makeup (04). An extension that reaches the
  beginning of the next session exactly makes the view look past that session, so that the next
  extension is bounded by a later one or a day.
- Marking. With a paper without subjective questions the first hand-in sets the session to marked
  (`serve/mark/mark.go:1797`). A crash loses the watcher while its Redis key lives on for seven days, so
  that no task starts another (`mark.go:2162`, `2194`). A second hand-in enqueues a second AI task: the
  payload that makes a task unique contains the time (`mark.go:1970`, `cmn/asynq.go:91`), and it marks
  again in a marked session too. A teacher's save that read "06" sets a session that is marked back to
  marking (`mark.go:2632`). `submitResult` does not ask whether everybody is marked. An AI task scores
  what the service returned, which may be fewer answers than it was sent (`mark.go:2092`). Students that
  the end handler closes and whose client never submits are not marked at all; a failed `AutoMark` is
  not tried again. `AutoMark` is started before the hand-in commits.
- Registration plans. A plan that is released after its end never closes: the event that `SetTimer`
  sends at once is handled before the release commits, or by a handler whose WHERE does not hold; a
  release of an ended or reviewed plan leaves it open the same way. A review event that is handled
  before the end event leaves status 04. Of two requests at once the one that read the older deadlines
  may set its timers last. Edits may set deadlines in the past. The callback sends on a bounded queue
  inside the mutex as the exam's timers do (`register.go:1441`).
- Students. The places are counted before the transaction (`serve/registration/dao.go:1564`), so
  concurrent registrations may exceed them; a student who was moved out and registers again, or whose
  begun application is approved by a review, is not counted at all. `UpsertPracticeStudentV2` replaces
  the roster: approving one student removes those approved before; a roster stays when the request
  that replaced it is rolled back. An approval that is committed between a move's SELECT and its
  UPDATE is lost, and a move that is tried again copies "moved" as the new status. Nothing checks what a
  request names: a move of a plan onto itself marks its own students as moved
  (`serve/registration/register.go:1142`), a review or a registration may carry the status "moved" itself
  (`dao.go:1368`, `register.go:1333`), and a row that is inserted between a move's SELECT and its UPDATE
  is marked without being moved; in each case the student has a place nowhere. With as many
  requests as connections all of them wait for a second connection for ever. A plan that is voided or
  deleted may keep rows of a registration that was under way.
- Practices. The summary is read through the pool (`serve/practice_mgt/dao.go:1459`) and nothing makes
  attempts unique: two windows may begin two attempts with one number, exceed the attempts allowed, or
  begin one in a practice that is being voided or deleted. The status of the practice is checked before
  the transaction only (`480`), so that a release may overwrite a void; the next attempt is number 1
  again. A second release inserts a second row of marking configuration, after which AutoMark refuses
  (`mark.go:1641`); a student whose attempt is to be marked by the AI can then begin no other. The update
  that marks a submission has no condition (`serve/mark/dao.go:1447`), so a void one may become marked.
  A collection may be opened while the AI still marks the last one, whose score is then for an older
  text; every collection has number 1, because the view looks for 04 and the code writes 08
  (`abilityIndex.sql:14171`). `elapsed_seconds` is never initialised, so `HandleExit` adds to NULL
  (`paper_respondence.go:1416`).
- Files. The cleanup stops at the first id without a record. A full queue, a restart or a failed count
  leaves a file for ever, and so does a worker that is faster than the commit that sent the task. Two
  users who edit one owner's attachments lose an entry of its list. A record that is committed after
  the worker has counted loses its file. The last attachment of an invigilation record leaves the JSON
  null (`serve/invigilation/invigilation.go:1599`), on which the next query of the record fails (`1382`).
  `examFile`'s test for the user's own file (`exam-mgt.go:4744`) never holds, since `NewFileRecord`
  stores no domain.
- Locks. Two tabs of one user share a lock: one may delete an exam that the other has just published
  (`redis-lock.go:22`, `exam-mgt.go:2886`). A refused deletion of several exams and a failed existence
  check leave their leases to expire. A request on an exam shortens and drops the editing lease of the
  same user. Saving an exam does not ask for the lock, and the paper's lock is commented out in places.
  `updateExamStatus` compares `update_time` with any of those it read, not with the exam's own.
- Time. When the heartbeat closes the connection before the reader does, the reader's `Close` fails and
  `HandleExit` is skipped, so that the exit is not counted (`serve/time_sync/client.go:100`). The other
  way round a student who is there and answers may be counted as having left: the read deadline of 20 s
  runs from the connect (`client.go:159`) and only the reader, which `startServe` starts when it gets to
  the registration, processes the pongs that put it off. While the loop waits in a broadcast for clients
  that no longer answer, the deadline passes, the first read fails, and the client is unregistered,
  disconnected and its exit recorded. `SendResetExamEndTimeMsg` ranges over the map without a lock, but
  only tests call it.

## 7. What is left

- Proofs: liveness (`EveryEventHandled`, `HandlersReturn`, the `SessionEnds` of life cycle and sitting,
  `MarkingFinishes`, `Closes`, `RequestsReturn`, `Settles`, `LockFreed`, `Released`, `ToldTheTime`) stays
  with TLC, and so does that some step is possible in every state that is not final, which needs ENABLED.
- The hypotheses of the theorems mark where the code does not have the property in general: `OneCaller`
  (plans), `OneTab` (locks), a paper with subjective questions (marking), no shared owner (files), no
  PUT and no failing commit (`Scheduled`), no overtaken commit (`Consistent`, `SessionForward`,
  `ImplementsStatus`). Each has its behaviour in section 6.
