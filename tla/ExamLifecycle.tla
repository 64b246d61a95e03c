---------------------------- MODULE ExamLifecycle ----------------------------
(***************************************************************************)
(* One exam, its sessions, the HTTP handlers that publish, void, replace   *)
(* and delete it (serve/exam_mgt) and the timer events that start and end  *)
(* its sessions (exam_service).  All of them are PostgreSQL transactions   *)
(* at READ COMMITTED.  A step is one statement, or several that no other   *)
(* transaction can tell apart: a statement reads what is committed; an     *)
(* UPDATE whose WHERE holds of the committed row waits for the row lock of *)
(* another transaction and reads the row again, one whose WHERE does not   *)
(* hold skips it; and a write is seen by others when it commits.  A        *)
(* statement that waits looks at the rows again that it found when it      *)
(* began, and at no others: what was inserted in the meantime it misses.   *)
(*                                                                         *)
(* The timer manager is taken by its promise (TimerService, implemented by *)
(* ExamTimer): a key is armed for a time, fires, and its event waits for a *)
(* worker; a second waiting event of the same key is merged with it.       *)
(*                                                                         *)
(* The Redis edit lock is not a guard here: the same user re-enters it, it *)
(* lapses after five seconds, and PUT does not take it.                    *)
(***************************************************************************)
EXTENDS Naturals, FiniteSets

CONSTANTS
  Exam,      \* the row of t_exam_info
  Session,   \* rows of t_exam_session, the ones a PUT will insert included
  Initial,   \* the sessions of the exam at the start
  Starts,    \* Session -> start_time
  Ends,      \* Session -> end_time
  Caller,    \* HTTP requests, one each
  Worker,    \* worker goroutines of the timer manager
  Kinds,     \* what requests ask for: "put", "publish", "void", "delete"
  MaxTime,   \* bound on the clock
  MaxCrash,  \* bound on restarts of the service
  MayFail    \* requests and workers whose last COMMIT may fail (it is only logged)

ASSUME LifecycleAssumption ==
  /\ Exam \notin Session
  /\ Initial \subseteq Session /\ Initial # {}  \* validateExamData: no exam without a session
  /\ Caller \cap Worker = {}
  /\ MaxTime \in Nat \ {0} /\ MaxCrash \in Nat
  /\ Starts \in [Session -> 0..MaxTime] /\ Ends \in [Session -> 0..MaxTime]
  /\ \A s \in Session : Starts[s] < Ends[s]
  /\ Kinds \subseteq {"put", "publish", "void", "delete"}
  /\ MayFail \subseteq Caller \cup Worker

VARIABLES
  status,   \* Row -> committed status code, or "none" (not inserted)
  roll,     \* Session -> its examinees: none, open (some unfinished), done, void
  papers,   \* Session -> answer papers were generated for its examinees
  due,      \* Session -> the latest actual_end_time of its examinees
  now,      \* the clock
  armed,    \* Key -> the time its timer is set for, or Never
  fired,    \* keys whose event waits for a worker
  wr,       \* Thread -> Row -> the status its transaction wrote, or Keep
  pc,       \* Thread -> the next statement
  job,      \* Thread -> what it does: a kind of request or event, and its row
  base,     \* Thread -> what the handler read before its first write
  seen,     \* Thread -> the exam's update_time is the one the handler read
  crashes,  \* restarts so far
  overtaken \* history: what a transaction committed was late (base.late)

vars == <<status, roll, papers, due, now, armed, fired, wr, pc, job, base, seen, crashes,
          overtaken>>

data   == <<status, roll, papers, due>>
timing == <<armed, fired>>
frame  == <<now, crashes, overtaken>>

Row    == Session \cup {Exam}
Thread == Caller \cup Worker
Time   == 0..MaxTime
Never  == MaxTime + 1
Key    == {"start", "end"} \X Session
Keep   == "keep"
None   == "none"

(* Status codes of exams and sessions; the two tables agree on 00, 02, 04    *)
(* and 06.  An exam: 10 abnormal, 12 deleted, 14 temporary, 16 voided.  A    *)
(* session: 14 deleted, 16 voided; 06 stands for 08 (marking) as well.       *)
Status == {None, "00", "02", "04", "06", "10", "12", "14", "16"}
Roll   == {"none", "open", "done", "void"}
JobKind == {None, "put", "publish", "void", "delete", "start", "end"}
Label  == {"idle", "done", "commit", "putBegin", "putExam", "putSessions", "putCheck",
           "statusCheck", "statusSessions", "statusExam", "delSessions", "delExam",
           "startSession", "startEmpty", "startExam", "endSession", "endExam"}

(* rows: those that a statement found when it began, while it waits for a    *)
(* lock; late: by the time a statement wrote, what it had read held no more. *)
Base   == [st : Status, old : SUBSET Session, roll : Roll, at : Time, rows : SUBSET Row,
           late : BOOLEAN]
NoBase == [st |-> None, old |-> {}, roll |-> "none", at |-> 0, rows |-> {}, late |-> FALSE]
NoJob  == <<None, Exam>>
Clean  == [r \in Row |-> Keep]

Kind(p) == job[p][1]

Free(p, r) == \A q \in Thread \ {p} : wr[q][r] = Keep

Undeleted == {s \in Session : status[s] \notin {None, "14"}}
Live      == {s \in Session : status[s] \notin {None, "14", "16"}}

(* The sessions that an UPDATE ... WHERE status != '14' writes. *)
Matched(p) == IF base[p].rows = {} THEN Undeleted ELSE base[p].rows \cap Undeleted

(* Others have added sessions since it began. *)
Misses(p) == Undeleted \ Matched(p) # {}

Write(p, rows, to) == wr' = [wr EXCEPT ![p] = [r \in Row |-> IF r \in rows THEN to ELSE @[r]]]

Goto(p, l) == pc' = [pc EXCEPT ![p] = l]

Finish(p) == /\ pc' = [pc EXCEPT ![p] = IF p \in Worker THEN "idle" ELSE "done"]
             /\ wr' = [wr EXCEPT ![p] = Clean]
             /\ job' = [job EXCEPT ![p] = NoJob]
             /\ base' = [base EXCEPT ![p] = NoBase]

(* A handler that returns early; its transaction, if any, rolls back. *)
Leave(p) == Finish(p) /\ seen' = [seen EXCEPT ![p] = FALSE]

-----------------------------------------------------------------------------

Init ==
  /\ status \in {[r \in Row |-> IF r = Exam THEN "00"
                                ELSE IF r \in Initial THEN "00" ELSE None],
                 [r \in Row |-> IF r = Exam THEN "14" ELSE None]}
  /\ \E x \in {"none", "open"} :
        roll = [s \in Session |-> IF status[s] = "00" THEN x ELSE "none"]
  /\ papers = [s \in Session |-> FALSE]
  /\ due = Ends
  /\ now = 0
  /\ armed = [k \in Key |-> Never]
  /\ fired = {}
  /\ wr = [p \in Thread |-> Clean]
  /\ pc = [p \in Thread |-> "idle"]
  /\ job = [p \in Thread |-> NoJob]
  /\ base = [p \in Thread |-> NoBase]
  /\ seen = [p \in Thread |-> FALSE]
  /\ crashes = 0
  /\ overtaken = FALSE

-----------------------------------------------------------------------------
(* Timers. *)

(* Variant: both timers get the start time. *)
At_StartTime(k) == Starts[k[2]]

At(k) == IF k[1] = "start" THEN Starts[k[2]] ELSE Ends[k[2]]

(* SetExamTimers for the sessions the pool sees: committed ones.  Those that *)
(* are overdue go straight to the queue.                                     *)
SetExamTimers(ss) ==
  /\ armed' = [k \in Key |-> IF k[2] \notin ss THEN armed[k]
                             ELSE IF At(k) > now THEN At(k) ELSE Never]
  /\ fired' = fired \cup {k \in Key : k[2] \in ss /\ At(k) <= now}

(* CancelExamTimers: events that have fired are not called back. *)
CancelExamTimers(ss) ==
  /\ armed' = [k \in Key |-> IF k[2] \in ss THEN Never ELSE armed[k]]
  /\ UNCHANGED fired

Fire(k) == /\ armed[k] <= now
           /\ armed' = [armed EXCEPT ![k] = Never]
           /\ fired' = fired \cup {k}
           /\ UNCHANGED <<data, frame, wr, pc, job, base, seen>>

Tick == /\ now < MaxTime
        /\ now' = now + 1
        /\ UNCHANGED <<data, timing, wr, pc, job, base, seen, crashes, overtaken>>

(* A restart loses timers, queue and open transactions; InitializeExamTimers *)
(* then sets the timers of an exam that waits or runs.                       *)
Crash ==
  /\ crashes < MaxCrash
  /\ crashes' = crashes + 1
  /\ LET ss == IF status[Exam] \in {"02", "04"} THEN Live ELSE {}
     IN  /\ armed' = [k \in Key |-> IF k[2] \in ss /\ At(k) > now THEN At(k) ELSE Never]
         /\ fired' = {k \in Key : k[2] \in ss /\ At(k) <= now}
  /\ wr' = [p \in Thread |-> Clean]
  /\ pc' = [p \in Thread |-> IF p \in Worker \/ pc[p] = "idle" THEN "idle" ELSE "done"]
  /\ job' = [p \in Thread |-> NoJob]
  /\ base' = [p \in Thread |-> NoBase]
  /\ seen' = [p \in Thread |-> FALSE]
  /\ UNCHANGED <<data, now, overtaken>>

-----------------------------------------------------------------------------
(* Commit and its failures. *)

(* update_time changes with every write of the exam row, except that of a    *)
(* PUT on an exam it believes to be unpublished or temporary.                *)
Bumps(p) == /\ wr[p][Exam] # Keep
            /\ ~(Kind(p) = "put" /\ base[p].st # "02")

Inserted(p) == {s \in Session : status[s] = None /\ wr[p][s] # Keep}

NewRoll(p, s) ==
  CASE s \in Inserted(p) -> base[p].roll
    [] Kind(p) \in {"put", "delete"} /\ s \in base[p].old -> "none"
    [] Kind(p) = "void" /\ s \in base[p].old /\ roll[s] # "none" -> "void"
    [] job[p] = <<"end", s>> /\ roll[s] = "open" -> "done"
    [] OTHER -> roll[s]

(* The sessions whose examinees got answer papers in p's transaction. *)
Prepared(p) ==
  CASE Kind(p) = "put" /\ base[p].st = "02" /\ base[p].roll = "open" -> Inserted(p)
    [] Kind(p) = "publish" -> {s \in base[p].old : roll[s] = "open"}
    [] OTHER -> {}

Commit(p) ==
  /\ pc[p] = "commit"
  /\ status' = [r \in Row |-> IF wr[p][r] = Keep THEN status[r] ELSE wr[p][r]]
  /\ roll' = [s \in Session |-> NewRoll(p, s)]
  /\ papers' = [s \in Session |-> papers[s] \/ s \in Prepared(p)]
  /\ seen' = [q \in Thread |-> q # p /\ seen[q] /\ ~Bumps(p)]
  /\ Finish(p)
  /\ overtaken' = (overtaken \/ base[p].late)
  /\ UNCHANGED <<due, now, crashes, timing>>

(* The error of a COMMIT is logged and nothing is taken back or tried again. *)
CommitFails(p) == /\ p \in MayFail /\ pc[p] = "commit"
                  /\ Leave(p)
                  /\ UNCHANGED <<data, frame, timing>>

(* Variant: the other sessions of the exam are not looked at. *)
ExamOver_Unchecked(w) == status[Exam] \in {"02", "04"}

(* handleExamSessionEnd: no session, as its statement sees them, is left. *)
ExamOver(w) == /\ status[Exam] \in {"02", "04"}
               /\ \A s \in Session : IF wr[w][s] # Keep THEN wr[w][s] \notin {"02", "04"}
                                       ELSE status[s] \notin {"02", "04"}

(* ... or was left when it began to wait: NOT EXISTS is not looked up again. *)
Closes(w) == IF base[w].rows = {} THEN ExamOver(w) ELSE status[Exam] \in {"02", "04"}

(* The rows the next statement of p waits for. *)
Wants(p) ==
  LET s == job[p][2]
  IN  CASE pc[p] = "putExam" \/ pc[p] = "delExam" -> {r \in {Exam} : status[r] # "12"}
        [] pc[p] = "statusExam" -> {r \in {Exam} : seen[p]}
        [] pc[p] = "startExam" -> {r \in {Exam} : status[r] = "02"}
        [] pc[p] = "endExam" -> {r \in {Exam} : Closes(p)}
        [] pc[p] \in {"putSessions", "statusSessions", "delSessions"} -> Matched(p)
        [] pc[p] = "startSession" -> {r \in {s} : status[r] = "02"}
        [] pc[p] = "startEmpty" -> {r \in {Exam} : status[r] = "02"}
        [] pc[p] = "endSession" -> {s}
        [] OTHER -> {}

(* PostgreSQL ends one of two transactions that wait for each other: the     *)
(* request is answered with an error, the event is lost.                     *)
DeadlockAbort(p) ==
  /\ \E q \in Thread \ {p} : /\ \E r \in Wants(p) : wr[q][r] # Keep
                             /\ \E r \in Wants(q) : wr[p][r] # Keep
  /\ Leave(p)
  /\ UNCHANGED <<data, frame, timing>>

(* A statement that depends on more than the row it waits for begins: it     *)
(* keeps to what it found.  (It takes its locks when it has them all.)       *)
Await(p) ==
  /\ pc[p] \in {"putSessions", "statusSessions", "delSessions", "endExam"}
  /\ base[p].rows = {}
  /\ \E r \in Wants(p) : ~Free(p, r)
  /\ base' = [base EXCEPT ![p].rows = Wants(p)]
  /\ UNCHANGED <<data, frame, timing, wr, pc, job, seen>>

-----------------------------------------------------------------------------
(* PUT exam: replaces the sessions of an unpublished or published exam.      *)

(* The status that decides everything, and the old sessions, are read before *)
(* the transaction.                                                          *)
PutRead(c) ==
  /\ pc[c] = "idle" /\ "put" \in Kinds
  /\ status[Exam] \in {"00", "02", "14"}
  /\ job' = [job EXCEPT ![c] = <<"put", Exam>>]
  /\ base' = [base EXCEPT ![c] = [NoBase EXCEPT !.st = status[Exam], !.old = Undeleted, !.at = now]]
  /\ Goto(c, "putBegin")
  /\ UNCHANGED <<data, frame, timing, wr, seen>>

(* currentUpdateTime is read inside the transaction. *)
PutBegin(c) == /\ pc[c] = "putBegin"
               /\ seen' = [seen EXCEPT ![c] = TRUE]
               /\ Goto(c, "putExam")
               /\ UNCHANGED <<data, frame, timing, wr, job, base>>

PutStatus(c) == IF base[c].st = "14" THEN "00" ELSE base[c].st

(* Variant: no WHERE status != '12'. *)
PutExam_AnyStatus(c) ==
  /\ pc[c] = "putExam" /\ Free(c, Exam)
  /\ Write(c, {Exam}, PutStatus(c))
  /\ Goto(c, "putSessions")
  /\ UNCHANGED <<data, frame, timing, job, base, seen>>

(* UPDATE t_exam_info ... WHERE status != '12'; the row count is not checked. *)
PutExam(c) ==
  /\ pc[c] = "putExam" /\ (status[Exam] # "12" => Free(c, Exam))
  /\ Write(c, {Exam} \ {r \in {Exam} : status[r] = "12"}, PutStatus(c))
  /\ Goto(c, "putSessions")
  /\ UNCHANGED <<data, frame, timing, job, base, seen>>

(* The old sessions become 14, the new ones are inserted; their start lies   *)
(* ahead (validateExamData) and they all have the same examinees.            *)
PutSessions(c) ==
  /\ pc[c] = "putSessions"
  /\ \A s \in Matched(c) : Free(c, s)
  /\ \E new \in SUBSET {s \in Session : status[s] = None /\ Free(c, s) /\ Starts[s] >= base[c].at},
        x \in {"none", "open"} :
       /\ new # {}
       /\ wr' = [wr EXCEPT ![c] = [r \in Row |-> IF r \in new THEN PutStatus(c)
                                                 ELSE IF r \in Matched(c) THEN "14" ELSE @[r]]]
       /\ base' = [base EXCEPT ![c].roll = x, ![c].rows = {}, ![c].late = Misses(c)]
  /\ Goto(c, IF base[c].st = "02" THEN "putCheck" ELSE "commit")
  /\ UNCHANGED <<data, frame, timing, job, seen>>

(* Only a published exam is checked against currentUpdateTime, and gets its  *)
(* timers: SetExamTimers reads through the pool, before the commit.          *)
PutCheck(c) ==
  /\ pc[c] = "putCheck"
  /\ \/ /\ seen[c] /\ Free(c, Exam)
        /\ Write(c, {r \in {Exam} : wr[c][r] = Keep}, status[Exam])
        /\ SetExamTimers(Live)
        /\ Goto(c, "commit")
        /\ UNCHANGED <<job, base, seen>>
     \/ ~seen[c] /\ Leave(c) /\ UNCHANGED timing
  /\ UNCHANGED <<data, frame>>

-----------------------------------------------------------------------------
(* PUT examStatus: publish (02) and void (16). *)

(* The update times are read first, inside the transaction. *)
StatusBegin(c, kind) ==
  /\ pc[c] = "idle" /\ kind \in Kinds
  /\ status[Exam] # "12"
  /\ job' = [job EXCEPT ![c] = <<kind, Exam>>]
  /\ seen' = [seen EXCEPT ![c] = TRUE]
  /\ base' = [base EXCEPT ![c].at = now]
  /\ Goto(c, "statusCheck")
  /\ UNCHANGED <<data, frame, timing, wr>>

(* The status check goes through the pool.  To publish, the sessions whose   *)
(* answer papers are to be generated are read here, and none may have begun. *)
Allowed(c) ==
  \/ Kind(c) = "publish" /\ status[Exam] = "00" /\ \A s \in Live : Starts[s] >= base[c].at
  \/ Kind(c) = "void" /\ status[Exam] \in {"02", "10"}

StatusCheck(c) ==
  /\ pc[c] = "statusCheck"
  /\ IF Allowed(c)
     THEN /\ base' = [base EXCEPT ![c].old = Live]
          /\ Goto(c, "statusSessions")
          /\ UNCHANGED <<wr, job, seen>>
     ELSE Leave(c)
  /\ UNCHANGED <<data, frame, timing>>

Target(c) == IF Kind(c) = "publish" THEN "02" ELSE "16"

(* updateExamSessionStatus: all but the deleted ones, whatever their status. *)
(* A void then voids the examinees of the sessions there are by now.         *)
StatusSessions(c) ==
  /\ pc[c] = "statusSessions"
  /\ \A s \in Matched(c) : Free(c, s)
  /\ Write(c, Matched(c), Target(c))
  /\ LET old == IF Kind(c) = "void" THEN {s \in Session : status[s] # None} ELSE base[c].old
     IN  base' = [base EXCEPT ![c].old = old, ![c].rows = {}, ![c].late = Misses(c)]
  /\ Goto(c, "statusExam")
  /\ UNCHANGED <<data, frame, timing, job, seen>>

(* Variant: no optimistic lock. *)
StatusExam_Unlocked(c) ==
  /\ pc[c] = "statusExam" /\ Free(c, Exam)
  /\ Write(c, {Exam}, Target(c))
  /\ IF Kind(c) = "publish" THEN SetExamTimers(Live) ELSE CancelExamTimers(Live)
  /\ Goto(c, "commit")
  /\ UNCHANGED <<data, frame, job, base, seen>>

(* updateExamStatus: the optimistic lock on update_time.  The timers are set *)
(* or cancelled before the commit.                                           *)
StatusExam(c) ==
  /\ pc[c] = "statusExam"
  /\ \/ /\ seen[c] /\ status[Exam] # "12" /\ Free(c, Exam)
        /\ Write(c, {Exam}, Target(c))
        /\ IF Kind(c) = "publish" THEN SetExamTimers(Live) ELSE CancelExamTimers(Live)
        /\ Goto(c, "commit")
        /\ UNCHANGED <<job, base, seen>>
     \/ /\ ~(seen[c] /\ status[Exam] # "12")
        /\ Leave(c) /\ UNCHANGED timing
  /\ UNCHANGED <<data, frame>>

-----------------------------------------------------------------------------
(* DELETE exam: the status is checked outside the transaction, and nothing   *)
(* is compared with it later.                                                *)

DelRead(c) ==
  /\ pc[c] = "idle" /\ "delete" \in Kinds
  /\ status[Exam] \in {"00", "12"}
  /\ job' = [job EXCEPT ![c] = <<"delete", Exam>>]
  /\ base' = [base EXCEPT ![c].old = Undeleted]
  /\ Goto(c, "delSessions")
  /\ UNCHANGED <<data, frame, timing, wr, seen>>

DelSessions(c) ==
  /\ pc[c] = "delSessions"
  /\ \A s \in Matched(c) : Free(c, s)
  /\ Write(c, Matched(c), "14")
  /\ base' = [base EXCEPT ![c].rows = {}, ![c].late = Misses(c)]
  /\ Goto(c, "delExam")
  /\ UNCHANGED <<data, frame, timing, job, seen>>

DelExam(c) ==
  /\ pc[c] = "delExam" /\ (status[Exam] # "12" => Free(c, Exam))
  /\ Write(c, {r \in {Exam} : status[r] # "12"}, "12")
  /\ CancelExamTimers(Live)
  /\ Goto(c, "commit")
  /\ UNCHANGED <<data, frame, job, base, seen>>

-----------------------------------------------------------------------------
(* The workers: handleExamSessionStart and handleExamSessionEnd. *)

Take(w, k) ==
  /\ pc[w] = "idle" /\ k \in fired
  /\ fired' = fired \ {k}
  /\ job' = [job EXCEPT ![w] = k]
  /\ Goto(w, IF k[1] = "start" THEN "startSession" ELSE "endSession")
  /\ UNCHANGED <<data, frame, armed, wr, base, seen>>

(* The session and its examinees are read before any row is written.  It is *)
(* gone, or a WHERE clause holds no more: an error, and no retry.            *)
StartRefused(w) ==
  LET s == job[w][2]
  IN  /\ \/ pc[w] = "startSession" /\ s \notin Live
         \/ pc[w] = "startSession" /\ roll[s] # "none" /\ (status[s] # "02" \/ Starts[s] > now)
         \/ pc[w] = "startEmpty" /\ (status[Exam] # "02" \/ Starts[s] > now)
      /\ Leave(w)
      /\ UNCHANGED <<data, frame, timing>>

NoExaminee(w) == job[w][2] \in Live /\ roll[job[w][2]] = "none"

StartRead(w) ==
  /\ pc[w] = "startSession" /\ NoExaminee(w)
  /\ Goto(w, "startEmpty")
  /\ UNCHANGED <<data, frame, timing, wr, job, base, seen>>

(* The exam is set abnormal and all its timers are cancelled; of the session *)
(* only the start time is looked at again.                                   *)
StartEmpty(w) ==
  /\ pc[w] = "startEmpty"
  /\ status[Exam] = "02" /\ Starts[job[w][2]] <= now /\ Free(w, Exam)
  /\ Write(w, {Exam}, "10")
  /\ CancelExamTimers(Live)
  /\ base' = [base EXCEPT ![w].late = ~NoExaminee(w)]
  /\ Goto(w, "commit")
  /\ UNCHANGED <<data, frame, job, seen>>

(* Variant: the WHERE clause lacks the status. *)
StartSession_AnyStatus(w) ==
  LET s == job[w][2]
  IN  /\ pc[w] = "startSession" /\ s \in Live /\ roll[s] # "none"
      /\ Starts[s] <= now /\ Free(w, s)
      /\ Write(w, {s}, "04")
      /\ Goto(w, "startExam")
      /\ UNCHANGED <<data, frame, timing, job, base, seen>>

(* With examinees: the session begins, and the exam with its first session. *)
StartSession(w) ==
  LET s == job[w][2]
  IN  /\ pc[w] = "startSession" /\ s \in Live /\ roll[s] # "none"
      /\ status[s] = "02" /\ Starts[s] <= now /\ Free(w, s)
      /\ Write(w, {s}, "04")
      /\ Goto(w, "startExam")
      /\ UNCHANGED <<data, frame, timing, job, base, seen>>

StartExam(w) ==
  /\ pc[w] = "startExam"
  /\ \/ status[Exam] = "02" /\ Free(w, Exam) /\ Write(w, {Exam}, "04")
     \/ status[Exam] # "02" /\ UNCHANGED wr
  /\ Goto(w, "commit")
  /\ UNCHANGED <<data, frame, timing, job, base, seen>>

(* What is left of the examinees after those whose time is over were closed: *)
(* v_examinee_info has no row for an examinee without a paper.               *)
Unfinished(s) ==
  \/ roll[s] = "void"
  \/ roll[s] = "open" /\ ~(papers[s] /\ due[s] <= now /\ status[Exam] \in {"02", "04", "06"})

(* Variant: the end event is not set again. *)
EndRearm_Forgotten(w) ==
  LET s == job[w][2]
  IN  /\ pc[w] = "endSession" /\ Free(w, s) /\ Unfinished(s)
      /\ Leave(w)
      /\ UNCHANGED <<data, frame, timing>>

(* Someone is left: the end event is set again, 60 s (one tick) later. *)
EndRearm(w) ==
  LET s == job[w][2]
  IN  /\ pc[w] = "endSession" /\ Free(w, s) /\ Unfinished(s)
      /\ armed' = [armed EXCEPT ![<<"end", s>>] = IF now < MaxTime THEN now + 1 ELSE MaxTime]
      /\ Leave(w)
      /\ UNCHANGED <<data, frame, fired>>

(* Nobody is left: the session ends, if it waited or ran and its time is over. *)
EndSession(w) ==
  LET s == job[w][2]
  IN  /\ pc[w] = "endSession" /\ Free(w, s) /\ ~Unfinished(s)
      /\ Write(w, {s}, IF status[s] \in {"02", "04"} /\ Ends[s] <= now THEN "06" ELSE status[s])
      /\ Goto(w, "endExam")
      /\ UNCHANGED <<data, frame, timing, job, base, seen>>

EndExam(w) ==
  /\ pc[w] = "endExam"
  /\ \/ Closes(w) /\ Free(w, Exam) /\ Write(w, {Exam}, "06")
     \/ ~Closes(w) /\ UNCHANGED wr
  /\ base' = [base EXCEPT ![w].rows = {}, ![w].late = Closes(w) /\ ~ExamOver(w)]
  /\ Goto(w, "commit")
  /\ UNCHANGED <<data, frame, timing, job, seen>>

-----------------------------------------------------------------------------
(* Students and invigilators, as far as the end of a session depends on them. *)

AllSubmit(s) == /\ status[s] = "04" /\ roll[s] = "open" /\ papers[s]
                /\ roll' = [roll EXCEPT ![s] = "done"]
                /\ UNCHANGED <<status, papers, due, frame, timing, wr, pc, job, base, seen>>

(* Invigilation PATCH 06, once per session in the model: extra time for      *)
(* examinees of a running session, under a lock on its row.                  *)
Extend(s) == /\ status[s] = "04" /\ roll[s] # "none" /\ papers[s]
             /\ \A p \in Thread : wr[p][s] = Keep
             /\ due[s] = Ends[s] /\ due[s] < MaxTime
             /\ due' = [due EXCEPT ![s] = @ + 1]
             /\ UNCHANGED <<status, roll, papers, frame, timing, wr, pc, job, base, seen>>

-----------------------------------------------------------------------------

Request(c) == PutRead(c) \/ DelRead(c) \/ \E k \in {"publish", "void"} : StatusBegin(c, k)

CallerStep(c) == \/ PutBegin(c) \/ PutExam(c) \/ PutSessions(c) \/ PutCheck(c)
                 \/ StatusCheck(c) \/ StatusSessions(c) \/ StatusExam(c)
                 \/ DelSessions(c) \/ DelExam(c)

WorkerStep(w) == \/ StartRefused(w) \/ StartRead(w) \/ StartEmpty(w) \/ StartSession(w)
                 \/ StartExam(w) \/ EndRearm(w) \/ EndSession(w) \/ EndExam(w)

ThreadStep(p) == \/ p \in Caller /\ CallerStep(p)
                 \/ p \in Worker /\ WorkerStep(p)
                 \/ Await(p)
                 \/ Commit(p)
                 \/ DeadlockAbort(p)

Next == \/ \E c \in Caller : Request(c)
        \/ \E p \in Thread : ThreadStep(p) \/ CommitFails(p)
        \/ \E w \in Worker, k \in Key : Take(w, k)
        \/ \E k \in Key : Fire(k)
        \/ \E s \in Session : AllSubmit(s) \/ Extend(s)
        \/ Tick \/ Crash

Spec == Init /\ [][Next]_vars

(* Time passes, due timers fire, workers take every waiting event (each key  *)
(* fairly: the queue is a FIFO) and started transactions proceed, lock waits *)
(* included: PostgreSQL grants row locks in turn.                            *)
Fairness == /\ WF_vars(Tick)
            /\ \A k \in Key : WF_vars(Fire(k)) /\ SF_vars(\E w \in Worker : Take(w, k))
            /\ \A p \in Thread : SF_vars(ThreadStep(p))

FairSpec == Spec /\ Fairness

-----------------------------------------------------------------------------
(* Properties. *)

(* Every variable keeps its type: in particular the handlers give exams and  *)
(* sessions only the status codes of their own tables.                       *)
TypeOK ==
  /\ status \in [Row -> Status]
  /\ roll \in [Session -> Roll]
  /\ papers \in [Session -> BOOLEAN]
  /\ due \in [Session -> Time]
  /\ now \in Time
  /\ armed \in [Key -> Time \cup {Never}]
  /\ fired \subseteq Key
  /\ wr \in [Thread -> [Row -> Status \cup {Keep}]]
  /\ pc \in [Thread -> Label]
  /\ job \in [Thread -> JobKind \X Row]
  /\ base \in [Thread -> Base]
  /\ seen \in [Thread -> BOOLEAN]
  /\ crashes \in 0..MaxCrash
  /\ overtaken \in BOOLEAN

(* What the sessions of an exam may be, given the exam's own status: two     *)
(* tables that eight handlers write in different orders and that every list  *)
(* of exams joins.  Not after an overtaken statement was committed: a publish *)
(* that waited for a PUT leaves the sessions which that inserted unpublished, *)
(* as a PUT of an unpublished exam does not touch update_time.               *)
SessionsOf(e) ==
  CASE e = "00" -> {"00"}
    [] e = "02" -> {"02", "06"}
    [] e = "04" -> {"02", "04", "06"}
    [] e = "06" -> {"06"}
    [] e = "10" -> {"02", "06"}
    [] e = "16" -> {"16"}
    [] OTHER -> {}

Consistent == status[Exam] # "12" /\ ~overtaken =>
                 \A s \in Undeleted : status[s] \in SessionsOf(status[Exam])

(* A session never goes back, whatever requests and events race for it: the  *)
(* WHERE clauses and the optimistic lock of updateExamStatus see to it, as   *)
(* long as no overtaken statement was committed.                             *)
Onward(x) ==
  CASE x = None -> {"00", "02"}
    [] x = "00" -> {"02", "14", "16"}
    [] x = "02" -> {"04", "06", "14", "16"}
    [] x = "04" -> {"06", "14"}
    [] x = "06" -> {"14", "16"}
    [] x = "16" -> {"14"}
    [] OTHER -> {}

SessionForward ==
  [][\A s \in Session : status'[s] # status[s] /\ ~overtaken' =>
                           status'[s] \in Onward(status[s])]_vars

Gone(r) == IF r = Exam THEN "12" ELSE "14"

(* A deleted session and a deleted exam stay deleted: a handler or event that  *)
(* read them before brings none back.                                          *)
DeletedForGood == [][\A r \in Row : status[r] = Gone(r) => status'[r] = Gone(r)]_vars

Pending(k) == armed[k] # Never \/ k \in fired \/ \E w \in Worker : job[w] = k

(* No transaction that has cancelled the timers is about to commit. *)
Settled == \A p \in Thread : wr[p][Exam] \notin {"10", "12", "16"}

(* A session of a published exam has its start event ahead of it until its   *)
(* start time and its end event until it has ended: nothing but a timer      *)
(* starts or ends it, so a session without one stays where it is for ever.   *)
(* "处于发布状态的考试要重新创建考卷、答卷、定时器" (PUT exam).                  *)
Scheduled ==
  status[Exam] \in {"02", "04"} /\ Settled =>
    \A s \in Session :
      /\ status[s] = "02" /\ now < Starts[s] => Pending(<<"start", s>>)
      /\ status[s] \in {"02", "04"} => Pending(<<"end", s>>)

(* An exam that runs is only ever ended: "加乐观锁是是为了防止用户更新考试      *)
(* 状态时与系统内部自动更新冲突" (updateExamStatus).                           *)
RunningStays == [][status[Exam] = "04" => status'[Exam] \in {"04", "06"}]_vars

(* What others see is one whole operation after the other, although each is    *)
(* several statements at READ COMMITTED that decide on what they read before   *)
(* (tx in exam_mgt and exam_service): no commit mixes the exam as one handler  *)
(* left it with the sessions as another did, unless it was overtaken.          *)
Operations == INSTANCE ExamStatus
ImplementsStatus ==
  Operations!EInit /\ [][~overtaken' => Operations!ENext]_status

(* A session of a published exam ends: the two do not stay as they are for      *)
(* ever, whatever restarts, extensions and events interleave.  (The exam alone  *)
(* may, when its sessions end at the same moment in two workers.)               *)
Held(s) == {status[s], status[Exam]} \subseteq {"02", "04"}
SessionEnds == \A s \in Session : Held(s) ~> ~Held(s)
=============================================================================
