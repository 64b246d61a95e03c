----------------------------- MODULE ExamSitting -----------------------------
(***************************************************************************)
(* One session of an exam while it is sat: the requests of the students    *)
(* (serve/paper_respondence), of the invigilator (serve/invigilation) and  *)
(* the end handler of exam_service, all of which write the same rows of    *)
(* t_examinee.                                                             *)
(*                                                                         *)
(* The students' requests are REPEATABLE READ transactions: a step reads   *)
(* and checks, a second one writes and commits, and fails if a row that it *)
(* writes has changed since (fresh).  The invigilator's updates and the    *)
(* end handler run at READ COMMITTED: what they compute from the rows they *)
(* read is written over what a transaction has committed in between.       *)
(*                                                                         *)
(* The exam is online and runs, every student has a paper (v_examinee_info *)
(* has a row for each), and an invigilator's request names one student.    *)
(***************************************************************************)
EXTENDS Naturals, FiniteSets

CONSTANTS
  Student,
  Handler,        \* goroutines that serve the requests of students and invigilators
  Opens, Closes,  \* start_time and end_time of the session
  LatestEntry,    \* allow_entry_time
  EarliestHandIn, \* allow_submit_time
  NextOpens,      \* start_time of the next session of the exam
  Day,            \* what may be added when no session follows
  Duration,       \* duration of a session with a flexible period
  Extensions,     \* extra times an invigilator may ask for
  Marks,          \* statuses the invigilator's requests carry, whatever they are
  Answer,         \* what a student may answer
  MaxTime,        \* bound on the clock
  MaxPatch        \* bound on the invigilator's requests

ASSUME SittingAssumption ==
  /\ {Opens, Closes, LatestEntry, EarliestHandIn, NextOpens, Day, Duration, MaxTime, MaxPatch} \subseteq Nat
  /\ Opens < Closes /\ Closes <= NextOpens /\ Closes <= MaxTime
  /\ Student # {} /\ Answer # {}
  /\ Extensions \subseteq Nat \ {0}

VARIABLES
  now,     \* the clock
  period,  \* period_mode of the session: fixed or flexible
  sess,    \* status of the session: 02 waits, 04 runs, 06 ended
  bell,    \* the time the end event is set for
  plan,    \* rows the end handler has read and is about to write
  start,   \* Student -> start_time, or None
  end,     \* Student -> end_time, or None
  code,    \* Student -> status
  extra,   \* Student -> extra_time
  answer,  \* Student -> the answers saved
  locked,  \* Student -> the answers can no longer be changed
  job,     \* Handler -> the request it serves, after its checks
  fresh,   \* Handler -> the rows it is to write have not changed since
  patches  \* invigilator's requests so far

vars == <<now, period, sess, bell, plan, start, end, code, extra, answer, locked, job, fresh, patches>>

rows    == <<start, end, code, extra, answer, locked>>
session == <<period, sess, bell, plan>>

(* Status of an examinee: 00 normal, 02 absent, 04 makeup, 06 cheating, 08   *)
(* deleted, 10 handed in, 12 to be synchronised, 14 abnormal, 16 allowed to  *)
(* enter late; or what a request put there, which nothing checks.            *)
Code == {"00", "02", "04", "06", "08", "10", "12", "14", "16"} \cup Marks
None == "none"
Time == 0..MaxTime
Unset == MaxTime + Duration + 1

NoPlan == [on |-> FALSE, over |-> {}, absent |-> {}]
Idle   == [op |-> None, who |-> CHOOSE s \in Student : TRUE, set |-> None, add |-> 0, at |-> 0]

(* v_examinee_info: actual_end_time and extendable_time. *)
Due(s) == IF period = "flexible" /\ start[s] # Unset THEN start[s] + Duration
                                                     ELSE Closes + extra[s]

(* Variant: no parentheses around end_time + extra_time. *)
Extendable_Sign(s) == IF NextOpens > Closes + extra[s] THEN NextOpens - Closes + extra[s] ELSE Day

(* extendable_time: up to the first session that begins after the student's  *)
(* time is over, a day if there is none.                                     *)
Extendable(s) == IF NextOpens > Closes + extra[s] THEN NextOpens - (Closes + extra[s]) ELSE Day

(* The check before the update and its WHERE clause. *)
MayExtend(s, x) == x <= Extendable(s) /\ extra[s] + x <= Extendable(s)

-----------------------------------------------------------------------------

Init ==
  /\ now = 0
  /\ period \in {"fixed", "flexible"}
  /\ sess = "02"
  /\ bell = Closes
  /\ plan = NoPlan
  /\ start = [s \in Student |-> Unset]
  /\ end = [s \in Student |-> Unset]
  /\ code = [s \in Student |-> "00"]
  /\ extra = [s \in Student |-> 0]
  /\ answer \in [Student -> Answer] /\ \A s, t \in Student : answer[s] = answer[t]
  /\ locked = [s \in Student |-> FALSE]
  /\ job = [h \in Handler |-> Idle]
  /\ fresh = [h \in Handler |-> FALSE]
  /\ patches = 0

Begin(h, op, s, set, add) ==
  /\ job[h] = Idle
  /\ job' = [job EXCEPT ![h] = [op |-> op, who |-> s, set |-> set, add |-> add, at |-> now]]
  /\ fresh' = [fresh EXCEPT ![h] = TRUE]

Serving(h, op) == job[h].op = op

(* A request ends; the others that are to write what it wrote are stale. *)
Return(h, stale) ==
  /\ job' = [job EXCEPT ![h] = Idle]
  /\ fresh' = [g \in Handler |-> g # h /\ fresh[g] /\ g \notin stale]

Holders(s) == {h \in Handler : job[h] # Idle /\ job[h].who = s}

-----------------------------------------------------------------------------
(* Students. *)

(* Variant: no latest entry time. *)
MayEnter_Late(s) == code[s] = "16" \/ (Opens <= now /\ now <= Due(s))

(* checkExamCondition INIT; not looked at when the invigilator let the student in. *)
MayEnter(s) ==
  \/ code[s] = "16"
  \/ /\ Opens <= now /\ now <= Due(s)
     /\ \/ start[s] # Unset
        \/ now <= LatestEntry \/ LatestEntry = Opens \/ period = "flexible"

InitRespondent(h, s) ==
  /\ end[s] = Unset /\ MayEnter(s)
  /\ Begin(h, "enter", s, None, 0)
  /\ UNCHANGED <<now, session, rows, patches>>

(* Variant: start_time is written whether or not it is set. *)
SaveStart_Always(h) ==
  LET s == job[h].who
  IN  /\ Serving(h, "enter")
      /\ IF fresh[h] /\ end[s] = Unset /\ code[s] \in {"00", "04", "16"}
         THEN start' = [start EXCEPT ![s] = now] /\ Return(h, Holders(s))
         ELSE Return(h, {}) /\ UNCHANGED start
      /\ UNCHANGED <<now, session, end, code, extra, answer, locked, patches>>

(* saveStudentBeginTimeForExam: SELECT FOR UPDATE, then the update. *)
SaveStart(h) ==
  LET s == job[h].who
  IN  /\ Serving(h, "enter")
      /\ IF fresh[h] /\ start[s] = Unset /\ end[s] = Unset /\ code[s] \in {"00", "04", "16"}
         THEN start' = [start EXCEPT ![s] = now] /\ Return(h, Holders(s))
         ELSE Return(h, {}) /\ UNCHANGED start
      /\ UNCHANGED <<now, session, end, code, extra, answer, locked, patches>>

(* Variant: locked answers are overwritten. *)
StudentAnswer_Locked(s, a) ==
  /\ start[s] # Unset
  /\ answer' = [answer EXCEPT ![s] = a]
  /\ fresh' = [h \in Handler |-> fresh[h] /\ ~(Serving(h, "submit") /\ job[h].who = s)]
  /\ UNCHANGED <<now, session, start, end, code, extra, locked, job, patches>>

(* insertOrUpdateAnswer, one statement: neither the time nor the status of   *)
(* the student is looked at.                                                 *)
StudentAnswer(s, a) ==
  /\ start[s] # Unset /\ ~locked[s]
  /\ answer' = [answer EXCEPT ![s] = a]
  /\ fresh' = [h \in Handler |-> fresh[h] /\ ~(Serving(h, "submit") /\ job[h].who = s)]
  /\ UNCHANGED <<now, session, start, end, code, extra, locked, job, patches>>

(* checkExamCondition SUBMIT; a student who has an end_time is told that all *)
(* is well and nothing is written.                                           *)
Submit(h, s) ==
  /\ Opens <= now /\ end[s] = Unset
  /\ now >= EarliestHandIn \/ period = "flexible"
  /\ Begin(h, "submit", s, None, 0)
  /\ UNCHANGED <<now, session, rows, patches>>

(* The update of t_examinee and setAnswerCanNotUpdate. *)
HandIn(h) ==
  LET s == job[h].who
  IN  /\ Serving(h, "submit")
      /\ fresh[h] /\ start[s] # Unset /\ end[s] = Unset
      /\ end' = [end EXCEPT ![s] = now]
      /\ code' = [code EXCEPT ![s] = "10"]
      /\ locked' = [locked EXCEPT ![s] = TRUE]
      /\ Return(h, Holders(s))
      /\ UNCHANGED <<now, session, start, extra, answer, patches>>

(* No row to update, or a serialization failure: an error, all rolled back. *)
HandInFails(h) ==
  LET s == job[h].who
  IN  /\ Serving(h, "submit")
      /\ ~fresh[h] \/ start[s] = Unset
      /\ Return(h, {})
      /\ UNCHANGED <<now, session, rows, patches>>

-----------------------------------------------------------------------------
(* The invigilator. *)

(* AllowStudentCanBeInExam: checkExamCondition ALLOW. *)
AllowStudent(h, s) ==
  /\ patches < MaxPatch /\ patches' = patches + 1
  /\ Opens <= now /\ now <= Due(s) /\ end[s] = Unset
  /\ Begin(h, "allow", s, None, 0)
  /\ UNCHANGED <<now, session, rows>>

Admit(h) ==
  LET s == job[h].who
  IN  /\ Serving(h, "allow")
      /\ IF fresh[h] /\ code[s] = "00"
         THEN code' = [code EXCEPT ![s] = "16"] /\ Return(h, Holders(s))
         ELSE Return(h, {}) /\ UNCHANGED code
      /\ UNCHANGED <<now, session, start, end, extra, answer, locked, patches>>

(* PATCH invigilation: canUpdateInvigilationInfo and the check of the        *)
(* examinee go through the pool, before the transaction.  02 with a status   *)
(* marks the student with it, be it any, 02 without one clears the mark, 04  *)
(* is a remark and 06 extra time.                                            *)
Patch(h, s) ==
  /\ patches < MaxPatch /\ patches' = patches + 1
  /\ sess # "06" /\ code[s] \notin {"08", "16"}
  /\ \/ \E m \in Marks : Begin(h, "mark", s, m, 0)
     \/ Begin(h, "clear", s, None, 0)
     \/ Begin(h, "remark", s, "00", 0)
     \/ \E x \in Extensions : Begin(h, "extend", s, None, x)
  /\ UNCHANGED <<now, session, rows>>

(* The CASE of an update without a status: now is the time of the check. *)
Cleared(h, s) == CASE end[s] # Unset -> "10"
                   [] end[s] = Unset /\ start[s] = Unset /\ Due(s) <= job[h].at -> "02"
                   [] OTHER -> "00"

SetCode(h) ==
  LET s == job[h].who
  IN  /\ Serving(h, "mark") \/ Serving(h, "clear") \/ Serving(h, "remark")
      /\ code' = [code EXCEPT ![s] = IF Serving(h, "clear") THEN Cleared(h, s) ELSE job[h].set]
      /\ Return(h, Holders(s))
      /\ UNCHANGED <<now, session, start, end, extra, answer, locked, patches>>

(* Variant: the session is not locked. *)
Extend_Unlocked(h) ==
  LET s == job[h].who
  IN  /\ Serving(h, "extend")
      /\ IF sess = "04" /\ MayExtend(s, job[h].add)
         THEN extra' = [extra EXCEPT ![s] = @ + job[h].add] /\ Return(h, Holders(s))
         ELSE Return(h, {}) /\ UNCHANGED extra
      /\ UNCHANGED <<now, session, start, end, code, answer, locked, patches>>

(* Under the lock of the session, which the end handler holds as well. *)
Extend(h) ==
  LET s == job[h].who
  IN  /\ Serving(h, "extend") /\ ~plan.on
      /\ IF sess = "04" /\ MayExtend(s, job[h].add)
         THEN extra' = [extra EXCEPT ![s] = @ + job[h].add] /\ Return(h, Holders(s))
         ELSE Return(h, {}) /\ UNCHANGED extra
      /\ UNCHANGED <<now, session, start, end, code, answer, locked, patches>>

-----------------------------------------------------------------------------
(* exam_service. *)

Tick == /\ now < MaxTime
        /\ now' = now + 1
        /\ UNCHANGED <<session, rows, job, fresh, patches>>

(* handleExamSessionStart; the end handler holds the lock of the session.     *)
SessionStart == /\ sess = "02" /\ Opens <= now /\ ~plan.on
                /\ sess' = "04"
                /\ UNCHANGED <<now, period, bell, plan, rows, job, fresh, patches>>

(* handleExamSessionEnd locks the session and reads the rows to update: those *)
(* of students whose time is over and who are normal, handed in or admitted.  *)
SessionEndRead ==
  /\ sess # "06" /\ bell <= now /\ ~plan.on
  /\ LET over == {s \in Student : code[s] \in {"00", "10", "16"} /\ Due(s) <= now}
     IN  plan' = [on |-> TRUE, over   |-> {s \in over : start[s] # Unset},
                               absent |-> {s \in over : start[s] = Unset}]
  /\ UNCHANGED <<now, period, sess, bell, rows, job, fresh, patches>>

Finished == {"02", "06", "08", "10", "12", "14"}

(* Variant: the end event is not set again. *)
Bell_Forgotten(done) == bell' = MaxTime + 1

(* Someone is not finished: the end event is set again, 60 s (one tick) later. *)
Bell(done) == bell' = IF done THEN bell ELSE IF now < MaxTime THEN now + 1 ELSE MaxTime

(* It writes them, whatever they have become, and ends the session if no     *)
(* student is left.                                                          *)
SessionEndWrite ==
  /\ plan.on
  /\ code' = [s \in Student |-> IF s \in plan.over THEN "10"
                                ELSE IF s \in plan.absent THEN "02" ELSE code[s]]
  /\ end' = [s \in Student |-> IF s \in plan.over THEN Due(s) ELSE end[s]]
  /\ LET done == \A s \in Student : code'[s] \in Finished
     IN  /\ sess' = IF done /\ Closes <= now THEN "06" ELSE sess
         /\ Bell(done)
  /\ plan' = NoPlan
  /\ fresh' = [h \in Handler |-> fresh[h] /\ job[h].who \notin plan.over \cup plan.absent]
  /\ UNCHANGED <<now, period, start, extra, answer, locked, job, patches>>

-----------------------------------------------------------------------------

HandlerStep(h) == SaveStart(h) \/ HandIn(h) \/ HandInFails(h) \/ Admit(h) \/ SetCode(h) \/ Extend(h)

Next == \/ \E h \in Handler, s \in Student :
             InitRespondent(h, s) \/ Submit(h, s) \/ AllowStudent(h, s) \/ Patch(h, s)
        \/ \E h \in Handler : HandlerStep(h)
        \/ \E s \in Student, a \in Answer : StudentAnswer(s, a)
        \/ Tick \/ SessionStart \/ SessionEndRead \/ SessionEndWrite

Spec == Init /\ [][Next]_vars

(* Time passes, the timer of the end event fires and its handler proceeds.   *)
(* No request has to come or to end.                                         *)
Fairness == WF_vars(Tick) /\ WF_vars(SessionEndRead) /\ WF_vars(SessionEndWrite)

FairSpec == Spec /\ Fairness

-----------------------------------------------------------------------------
(* Properties. *)

(* Every variable keeps its type.  Of the status of a student it says only     *)
(* that it is one of t_examinee's or one that a request carried: the service   *)
(* writes the invigilator's ExamineeStatus unchecked.                          *)
TypeOK ==
  /\ now \in Time /\ period \in {"fixed", "flexible"} /\ sess \in {"02", "04", "06"}
  /\ bell \in 0..(MaxTime + 1)
  /\ plan \in [on : BOOLEAN, over : SUBSET Student, absent : SUBSET Student]
  /\ start \in [Student -> Time \cup {Unset}]
  /\ end \in [Student -> Nat]
  /\ code \in [Student -> Code]
  /\ extra \in [Student -> Nat]
  /\ answer \in [Student -> Answer]
  /\ locked \in [Student -> BOOLEAN]
  /\ job \in [Handler -> [op : {None, "enter", "submit", "allow", "mark", "clear", "remark", "extend"},
                          who : Student, set : Code \cup {None}, add : Nat, at : Time]]
  /\ fresh \in [Handler -> BOOLEAN]
  /\ patches \in 0..MaxPatch

(* The time a student began is recorded once, however often the page is       *)
(* loaded and in how many windows, and nobody who has not begun has an end     *)
(* time: the duration of a flexible session and the result rest on it.         *)
BeginsOnce ==
  [][\A s \in Student :
       /\ start[s] # Unset => start'[s] = start[s]
       /\ end'[s] # Unset => start[s] # Unset]_vars

(* A student who begins has not handed in, is not marked as cheating or        *)
(* absent, and was in time or let in by the invigilator when the request was   *)
(* checked: what was checked still holds when it is written.                   *)
EntryRespected ==
  [][\A h \in Handler, s \in Student :
       start[s] = Unset /\ start'[s] # Unset /\ job[h] # Idle /\ job'[h] = Idle =>
         /\ end[s] = Unset
         /\ code[s] \in {"00", "04", "16"}
         /\ \/ code[s] = "16" \/ period = "flexible" \/ LatestEntry = Opens
            \/ job[h].at <= LatestEntry]_vars

(* Nothing changes an answer that was handed in, and a student who hands in    *)
(* before the time is over hands in what is saved at that moment.              *)
HandInSeals ==
  [][\A s \in Student :
       /\ locked[s] => locked'[s] /\ answer'[s] = answer[s]
       /\ end[s] = Unset /\ end'[s] # Unset =>
            (locked'[s] /\ answer'[s] = answer[s]) \/ Due(s) <= now]_vars

(* The end handler takes nobody's time away: whoever did not hand in is closed *)
(* when the time, extra time included, is over, although extra time is granted *)
(* while the handler runs; nobody is absent before, unless marked so by the    *)
(* invigilator.                                                                *)
NotCutShort ==
  [][\A s \in Student :
       /\ end[s] = Unset /\ end'[s] # Unset /\ ~locked'[s] => Due(s) <= now
       /\ code[s] # "02" /\ code'[s] = "02" /\ start[s] = Unset =>
            Due(s) <= now \/ \E h \in Holders(s) : job[h].set = "02" /\ job'[h] = Idle]_vars

(* Extra time is granted up to the next session of the exam and not beyond,    *)
(* whatever was granted before and while the session ends.                     *)
GrantFits ==
  [][\A s \in Student : Closes + extra[s] < NextOpens => Closes + extra'[s] <= NextOpens]_vars

(* The session ends, once there is time enough for every student, unless one   *)
(* is left with a status that is neither finished nor closed by the handler:   *)
(* a makeup, or any a request may have carried.                                *)
Settled(s) == Due(s) <= MaxTime /\ code[s] \in Finished \cup {"00", "16"}
SessionEnds == (<>[](now = MaxTime /\ \A s \in Student : Settled(s))) => <>(sess = "06")
=============================================================================
