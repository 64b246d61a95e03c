------------------------------- MODULE Practice -------------------------------
(***************************************************************************)
(* A practice and what one student does with it (serve/practice_mgt,       *)
(* serve/paper_respondence, serve/mark): attempts, the collections of      *)
(* wrong questions that are practised on a marked attempt, both in several *)
(* windows, their marking, and the teachers who release, delete and void   *)
(* the practice.                                                           *)
(*                                                                         *)
(* An attempt and a collection are submissions; a collection writes to the *)
(* rows of t_student_answers of the attempt it belongs to, of which there  *)
(* is one here.  The student's requests are REPEATABLE READ transactions:  *)
(* one step reads and checks, the next one writes and commits unless a row *)
(* that it writes has changed in between (fresh).  Teachers and marking    *)
(* run at READ COMMITTED.                                                  *)
(***************************************************************************)
EXTENDS Naturals, FiniteSets

CONSTANTS
  Window,   \* where the student has the practice open, one request of each at a time
  Teacher,  \* one request of each at a time
  Attempt,  \* rows of t_practice_submissions
  Wrong,    \* rows of t_practice_wrong_submissions
  Text,     \* what may be answered
  Right,    \* the text that gets the full score
  Blank,    \* the text of a new attempt
  Limits,   \* values of allowed_attempts; 0 is no limit
  MaxSubs,  \* bound on the attempts and collections together
  MaxOps    \* bound on the teachers' requests on the practice

ASSUME PracticeAssumption ==
  /\ Attempt \cap Wrong = {}
  /\ {Right, Blank} \subseteq Text
  /\ Limits \subseteq Nat /\ {MaxSubs, MaxOps} \subseteq Nat

VARIABLES
  part,     \* the part the question is in: objective or subjective
  correctMode, \* correct_mode: 00 by the AI, 10 by the teacher
  allowed,  \* allowed_attempts
  practice, \* status: 00 new, 02 released, 04 deleted, 06 void
  config,   \* number of live rows of t_mark_info
  st,       \* submission -> status, or Nothing
  no,       \* attempt -> its number
  of,       \* submission -> the attempt whose answers it writes
  open,     \* attempt -> the answers have status 00, not 02
  text,     \* attempt -> the answers
  graded,   \* attempt -> the text that answer_score was given for, or Nothing
  phase,    \* submission -> progress of AutoMark and of the AI task
  sheet,    \* submission -> the text AutoMark has read
  job,      \* window or teacher -> the request under way
  fresh,    \* window -> the rows it is to write have not changed since it read
  ops       \* teachers' requests on the practice so far

practiceVars == <<part, correctMode, allowed, practice, config, st, no, of, open, text, graded,
                  phase, sheet, job, fresh, ops>>

given    == <<part, correctMode, allowed>>
answers  == <<open, text, graded>>
marking  == <<phase, sheet>>

(* Status of a submission: 00 open, 06 handed in, 08 marked, 10 void; a       *)
(* collection goes to 08 when it is handed in.                                *)
Nothing == "none"
Sub  == Attempt \cup Wrong
Idle == [op |-> Nothing, sub |-> Nothing, arg |-> Nothing]

Begun == {a \in Attempt : st[a] # Nothing}

(* v_latest_unsubmitted_practice, v_latest_pending_mark_practice and          *)
(* v_latest_submitted_practice: an attempt of the status, the highest number. *)
Latest(s) == {a \in Begun : st[a] = s /\ \A b \in Begun : st[b] = s => no[b] <= no[a]}

(* attempt_count: MAX(attempt). *)
Count == IF Begun = {} THEN 0 ELSE CHOOSE n \in {no[a] : a \in Begun} : \A a \in Begun : no[a] <= n

(* The rows that can be inserted. *)
Spare(rows) == {k \in rows : st[k] = Nothing /\ Cardinality({i \in Sub : st[i] # Nothing}) < MaxSubs}

(* Who may change the answers of an attempt. *)
Writers(a) == {k \in Sub : st[k] = "00" /\ of[k] = a}

-----------------------------------------------------------------------------

PracticeInit ==
  /\ part \in {"objective", "subjective"} /\ correctMode \in {"00", "10"} /\ allowed \in Limits
  /\ practice = "00" /\ config = 0
  /\ st = [k \in Sub |-> Nothing]
  /\ no = [a \in Attempt |-> 0]
  /\ of = [k \in Sub |-> k]
  /\ open = [a \in Attempt |-> FALSE]
  /\ text = [a \in Attempt |-> Blank]
  /\ graded = [a \in Attempt |-> Nothing]
  /\ phase = [k \in Sub |-> Nothing]
  /\ sheet = [k \in Sub |-> Blank]
  /\ job = [p \in Window \cup Teacher |-> Idle]
  /\ fresh = [w \in Window |-> FALSE]
  /\ ops = 0

Begin(p, op, sub, arg) ==
  /\ job[p] = Idle
  /\ job' = [job EXCEPT ![p] = [op |-> op, sub |-> sub, arg |-> arg]]
  /\ fresh' = [w \in Window |-> w = p \/ fresh[w]]

Serving(p, op) == job[p].op = op

(* The rows a request is to write: the answers of an attempt and the rows of  *)
(* submissions.                                                               *)
AnswerRow(a) == <<"answers", a>>
Row(k) == <<"submission", k>>
Writes(w) == CASE Serving(w, "submit") -> {AnswerRow(of[job[w].sub]), Row(job[w].sub)}
               [] Serving(w, "save") \/ Serving(w, "wrong") -> {AnswerRow(job[w].sub)}
               [] OTHER -> {}

(* A commit that has written these rows. *)
Stale(rows) == {w \in Window : Writes(w) \cap rows # {}}

Return(p, rows) ==
  /\ job' = [job EXCEPT ![p] = Idle]
  /\ fresh' = [w \in Window |-> w # p /\ fresh[w] /\ w \notin Stale(rows)]

(* Written by a transaction that is one step. *)
Touch(rows) == fresh' = [w \in Window |-> fresh[w] /\ w \notin Stale(rows)]

-----------------------------------------------------------------------------
(* The student. *)

(* EnterPracticeGetPaperDetails reads the summary through the pool, before    *)
(* the transaction has its snapshot: no attempt waits to be marked or is      *)
(* unfinished.  A first attempt is number 1 whatever void ones there are.     *)
EnterPractice(w) ==
  /\ practice = "02"
  /\ Latest("06") = {} /\ Latest("00") = {}
  /\ IF Latest("08") = {} THEN Begin(w, "enter", Nothing, 1)
                          ELSE /\ allowed = 0 \/ Count < allowed
                               /\ Begin(w, "enter", Nothing, Count + 1)
  /\ UNCHANGED <<given, practice, config, st, no, of, answers, marking, ops>>

(* INSERT of the attempt and of its answers: nothing makes numbers unique. *)
NewAttempt(w) ==
  /\ Serving(w, "enter")
  /\ \E a \in Spare(Attempt) :
       /\ st' = [st EXCEPT ![a] = "00"]
       /\ no' = [no EXCEPT ![a] = job[w].arg]
       /\ open' = [open EXCEPT ![a] = TRUE]
  /\ Return(w, {})
  /\ UNCHANGED <<given, practice, config, of, text, graded, marking, ops>>

(* The summary of EnterPracticeWrongCollection, read in the transaction. *)
EnterWrong(w) ==
  /\ Latest("06") = {} /\ Latest("00") = {}
  /\ \E a \in Latest("08") :
       /\ graded[a] \notin {Nothing, Right}
       /\ \A k \in Wrong : of[k] = a => st[k] # "00"
       /\ Begin(w, "wrong", a, Nothing)
  /\ UNCHANGED <<given, practice, config, st, no, of, answers, marking, ops>>

(* Variant: the update of the answers does not meet another transaction's. *)
NewWrong_Unserialised(w) ==
  /\ Serving(w, "wrong")
  /\ \E k \in Spare(Wrong) :
       /\ st' = [st EXCEPT ![k] = "00"]
       /\ of' = [of EXCEPT ![k] = job[w].sub]
  /\ open' = [open EXCEPT ![job[w].sub] = TRUE]
  /\ Return(w, {AnswerRow(job[w].sub)})
  /\ UNCHANGED <<given, practice, config, no, text, graded, marking, ops>>

(* INSERT of the collection, and the wrong answers may be changed again. *)
NewWrong(w) ==
  /\ Serving(w, "wrong") /\ fresh[w]
  /\ \E k \in Spare(Wrong) :
       /\ st' = [st EXCEPT ![k] = "00"]
       /\ of' = [of EXCEPT ![k] = job[w].sub]
  /\ open' = [open EXCEPT ![job[w].sub] = TRUE]
  /\ Return(w, {AnswerRow(job[w].sub)})
  /\ UNCHANGED <<given, practice, config, no, text, graded, marking, ops>>

(* Entering once more what is open, and HandleExit: a time is written. *)
Visit(k) ==
  /\ st[k] = "00"
  /\ Touch({Row(k)})
  /\ UNCHANGED <<given, practice, config, st, no, of, answers, marking, job, ops>>

(* Variant: the WHERE clause of the upsert does not name the status. *)
StudentAnswer_Sealed(w, a) ==
  /\ st[a] \notin {Nothing, "10"}
  /\ Begin(w, "save", a, Nothing)
  /\ UNCHANGED <<given, practice, config, st, no, of, answers, marking, ops>>

(* StudentAnswer: checkPracticeSubmission, and the upsert finds answers that  *)
(* may be changed.                                                            *)
StudentAnswer(w, a) ==
  /\ st[a] \notin {Nothing, "10"} /\ open[a]
  /\ Begin(w, "save", a, Nothing)
  /\ UNCHANGED <<given, practice, config, st, no, of, answers, marking, ops>>

(* The answer that was sent is chosen where it is written. *)
SaveAnswer(w) ==
  /\ Serving(w, "save") /\ fresh[w]
  /\ \E t \in Text : text' = [text EXCEPT ![job[w].sub] = t]
  /\ Return(w, {AnswerRow(job[w].sub)})
  /\ UNCHANGED <<given, practice, config, st, no, of, open, graded, marking, ops>>

(* checkPracticeSubmission or checkWrongPracticeSubmission, and the update    *)
(* finds the submission open.                                                 *)
SubmitPractice(w, k) ==
  /\ st[k] = "00"
  /\ Begin(w, "submit", k, Nothing)
  /\ UNCHANGED <<given, practice, config, st, no, of, answers, marking, ops>>

(* Variant: at READ COMMITTED with the check alone. *)
HandIn_Stale(w) ==
  LET k == job[w].sub
  IN  /\ Serving(w, "submit")
      /\ st' = [st EXCEPT ![k] = IF k \in Attempt THEN "06" ELSE "08"]
      /\ open' = [open EXCEPT ![of[k]] = FALSE]
      /\ phase' = [phase EXCEPT ![k] = "marking"]
      /\ Return(w, {AnswerRow(of[k]), Row(k)})
      /\ UNCHANGED <<given, practice, config, no, of, text, graded, sheet, ops>>

(* setAnswerCanNotUpdate, the status, and the goroutine AutoMark; it is       *)
(* started before the commit, and its update waits for that.                  *)
HandIn(w) ==
  LET k == job[w].sub
  IN  /\ Serving(w, "submit") /\ fresh[w]
      /\ st' = [st EXCEPT ![k] = IF k \in Attempt THEN "06" ELSE "08"]
      /\ open' = [open EXCEPT ![of[k]] = FALSE]
      /\ phase' = [phase EXCEPT ![k] = "marking"]
      /\ Return(w, {AnswerRow(of[k]), Row(k)})
      /\ UNCHANGED <<given, practice, config, no, of, text, graded, sheet, ops>>

(* A serialization failure: a row to write has changed since the snapshot. *)
WindowFails(w) ==
  /\ Writes(w) # {} /\ ~fresh[w]
  /\ Return(w, {})
  /\ UNCHANGED <<given, practice, config, st, no, of, answers, marking, ops>>

-----------------------------------------------------------------------------
(* Marking. *)

(* AutoMark: only the AI needs the row of t_mark_info, and exactly one; a     *)
(* collection is marked by the AI in either mode.                             *)
Configured(k) == (k \in Attempt /\ correctMode = "10") \/ config = 1

Step(k, from, to) == phase[k] = from /\ phase' = [phase EXCEPT ![k] = to]

(* A collection whose question is right by now has nothing to mark, and what  *)
(* the teacher marks is left alone.                                           *)
Wanted(k) == /\ k \in Wrong => graded[of[k]] # Right
             /\ part = "subjective" => k \in Wrong \/ correctMode = "00"

(* The answers are read: an objective one to be scored in this transaction, a *)
(* subjective one, after the configuration, for the payload of the AI task.   *)
AutoMark(k) ==
  /\ phase[k] = "marking"
  /\ IF Wanted(k) THEN /\ part = "subjective" => Configured(k)
                       /\ Step(k, "marking", "read")
                       /\ sheet' = [sheet EXCEPT ![k] = text[of[k]]]
                  ELSE Step(k, "marking", Nothing) /\ UNCHANGED sheet
  /\ UNCHANGED <<given, practice, config, st, no, of, answers, job, fresh, ops>>

(* UpdateStudentAnswerScore and UpdateExamSessionOrPracticeSubmissionStatus.  *)
Score(k) ==
  /\ graded' = [graded EXCEPT ![of[k]] = sheet[k]]
  /\ st' = [st EXCEPT ![k] = "08"]
  /\ Touch({AnswerRow(of[k]), Row(k)})

(* The score and the status, whatever it has become: the commit of AutoMark   *)
(* if the question is objective, of handleAIMarkTask if it is subjective.     *)
Mark(k) ==
  /\ Step(k, "read", Nothing)
  /\ sheet' = [sheet EXCEPT ![k] = Blank]
  /\ part = "objective" => Configured(k)
  /\ Score(k)
  /\ UNCHANGED <<given, practice, config, no, of, open, text, job, ops>>

(* The configuration is not one row; the context of the request is cancelled  *)
(* or the AI fails for the last time: nothing tries again.                    *)
MarkFails(k) ==
  /\ phase[k] \in {"marking", "read"}
  /\ phase' = [phase EXCEPT ![k] = Nothing]
  /\ sheet' = [sheet EXCEPT ![k] = Blank]
  /\ UNCHANGED <<given, practice, config, st, no, of, answers, job, fresh, ops>>

(* The teacher is shown the last attempt that waits and marks what is there.  *)
TeacherReads(t) ==
  /\ part = "subjective"
  /\ \E a \in Latest("06") : Begin(t, "mark", a, text[a])
  /\ UNCHANGED <<given, practice, config, st, no, of, answers, marking, ops>>

(* practiceStudentSubmission: the status is not looked at. *)
TeacherMarks(t) ==
  LET a == job[t].sub
  IN  /\ Serving(t, "mark")
      /\ graded' = [graded EXCEPT ![a] = job[t].arg]
      /\ st' = [st EXCEPT ![a] = "08"]
      /\ Return(t, {AnswerRow(a), Row(a)})
      /\ UNCHANGED <<given, practice, config, no, of, open, text, marking, ops>>

-----------------------------------------------------------------------------
(* The teacher: OperatePracticeStatusV2. *)

(* LoadPracticeByIDs, before the transaction. *)
Operate(t, op) ==
  /\ ops < MaxOps /\ ops' = ops + 1
  /\ practice \notin {"04", "06"}
  /\ Begin(t, op, Nothing, Nothing)
  /\ UNCHANGED <<given, practice, config, st, no, of, answers, marking>>

(* HandleMarkerInfo inserts a row each time. *)
Release(t) ==
  /\ Serving(t, "release")
  /\ practice' = "02" /\ config' = config + 1
  /\ Return(t, {})
  /\ UNCHANGED <<given, st, no, of, answers, marking, ops>>

Delete(t) ==
  /\ Serving(t, "delete")
  /\ IF Begun = {} THEN practice' = "04" /\ config' = 0
                   ELSE UNCHANGED <<practice, config>>
  /\ Return(t, {})
  /\ UNCHANGED <<given, st, no, of, answers, marking, ops>>

(* All attempts and collections are void; the answers are left as they are. *)
Void(t) ==
  /\ Serving(t, "void")
  /\ practice' = "06" /\ config' = 0
  /\ st' = [k \in Sub |-> IF st[k] = Nothing THEN Nothing ELSE "10"]
  /\ Return(t, {Row(k) : k \in {k \in Sub : st[k] # Nothing}})
  /\ UNCHANGED <<given, no, of, answers, marking, ops>>

-----------------------------------------------------------------------------

WindowStep(w) == NewAttempt(w) \/ NewWrong(w) \/ SaveAnswer(w) \/ HandIn(w) \/ WindowFails(w)

TeacherStep(t) == TeacherMarks(t) \/ Release(t) \/ Delete(t) \/ Void(t)

PracticeNext ==
  \/ \E w \in Window : \/ EnterPractice(w) \/ EnterWrong(w) \/ WindowStep(w)
                       \/ \E a \in Attempt : StudentAnswer(w, a)
                       \/ \E k \in Sub : SubmitPractice(w, k)
  \/ \E t \in Teacher : \/ TeacherReads(t) \/ TeacherStep(t)
                        \/ \E op \in {"release", "delete", "void"} : Operate(t, op)
  \/ \E k \in Sub : Visit(k) \/ AutoMark(k) \/ Mark(k) \/ MarkFails(k)

PracticeSpec == PracticeInit /\ [][PracticeNext]_practiceVars

-----------------------------------------------------------------------------
(* Properties. *)

(* The answers of an attempt are written by one submission at a time, the      *)
(* attempt or one collection, and by none when it is handed in, in however     *)
(* many windows the student works: "同一时刻，同个学生的一个练习及其练习错题只存在  *)
(* 一种" (QueryStudentAnswers).  Only a void leaves answers open.               *)
OneWriter ==
  \A a \in Begun :
    /\ Cardinality(Writers(a)) <= 1
    /\ Writers(a) # {} => open[a]
    /\ open[a] => \E k \in Sub : of[k] = a /\ st[k] \in {"00", "10"}

(* What is handed in is what is marked: until an attempt has its score nothing *)
(* changes its answers, and the score is for those, whoever gives it.          *)
MarkedAsHandedIn ==
  [][\A a \in Attempt :
       st[a] = "06" => /\ text'[a] = text[a]
                       /\ st'[a] = "08" => graded'[a] = text[a]]_practiceVars

(* A void submission is not resumed and not handed in, although the check and  *)
(* the void may overlap; only marking that was under way still ends.           *)
VoidStays ==
  [][\A k \in Sub :
       st[k] = "10" => /\ st'[k] \in {"10", "08"}
                       /\ phase[k] = Nothing => phase'[k] = Nothing]_practiceVars
=============================================================================
