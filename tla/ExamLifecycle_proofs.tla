------------------------- MODULE ExamLifecycle_proofs -------------------------
(* Proofs about ExamLifecycle, for any sessions, requests, workers, schedule  *)
(* and bounds.                                                                *)
EXTENDS ExamLifecycle, TLAPS

(* Two transactions never hold the lock of the same row: every UPDATE waits    *)
(* for the row locks it needs, so what a transaction has written cannot be     *)
(* overwritten before it commits.                                             *)
LockExclusive ==
  \A p, q \in Thread, r \in Row : p # q /\ wr[p][r] # Keep => wr[q][r] = Keep

(* A transaction that has written a deleted row wrote the deletion itself: the *)
(* WHERE clauses skip deleted rows, and the lock keeps others from deleting a  *)
(* row that is about to be committed as something else.                        *)
DeletedKept ==
  \A p \in Thread, r \in Row : status[r] = Gone(r) => wr[p][r] \in {Keep, Gone(r)}

LockInv == TypeOK /\ LockExclusive /\ DeletedKept

-----------------------------------------------------------------------------
(* Types. *)

LEMMA RowIsExamOrSession == Exam \in Row /\ Session \subseteq Row /\ Exam \notin Session
  BY LifecycleAssumption DEF Row

LEMMA NoneIsStatus == NoBase \in Base
                      /\ NoJob \in JobKind \X Row
                      /\ Clean \in [Row -> Status \cup {Keep}]
  BY LifecycleAssumption DEF Base, NoBase, NoJob, Clean, Status, Roll, Time, JobKind, Row, None

LEMMA InitType == Init => TypeOK
  <1> SUFFICES ASSUME Init PROVE TypeOK
    OBVIOUS
  <1>1. status \in [Row -> Status]
    BY DEF Init, Status
  <1>2. roll \in [Session -> Roll]
    BY DEF Init, Roll
  <1>3. due \in [Session -> Time] /\ now \in Time /\ crashes \in 0..MaxCrash
    BY LifecycleAssumption DEF Init, Time
  <1>4. armed \in [Key -> Time \cup {Never}] /\ fired \subseteq Key
    BY DEF Init
  <1>5. /\ wr \in [Thread -> [Row -> Status \cup {Keep}]]
        /\ pc \in [Thread -> Label]
        /\ job \in [Thread -> JobKind \X Row]
        /\ base \in [Thread -> Base]
    BY NoneIsStatus DEF Init, Label
  <1>6. QED
    BY <1>1, <1>2, <1>3, <1>4, <1>5 DEF Init, TypeOK

(* What the parts that several actions share do to the types.                 *)
LEMMA WriteType ==
  ASSUME TypeOK, NEW p \in Thread, NEW rows, NEW to \in Status, Write(p, rows, to)
  PROVE  wr' \in [Thread -> [Row -> Status \cup {Keep}]]
  <1>1. [r \in Row |-> IF r \in rows THEN to ELSE wr[p][r]] \in [Row -> Status \cup {Keep}]
    BY DEF TypeOK
  <1>2. wr' = [wr EXCEPT ![p] = [r \in Row |-> IF r \in rows THEN to ELSE wr[p][r]]]
    BY DEF Write
  <1>3. QED
    BY <1>1, <1>2 DEF TypeOK

LEMMA GotoType ==
  ASSUME TypeOK, NEW p \in Thread, NEW l \in Label, Goto(p, l)
  PROVE  pc' \in [Thread -> Label]
  BY DEF TypeOK, Goto

LEMMA FinishType ==
  ASSUME TypeOK, NEW p \in Thread, Finish(p)
  PROVE  /\ wr' \in [Thread -> [Row -> Status \cup {Keep}]]
         /\ pc' \in [Thread -> Label]
         /\ job' \in [Thread -> JobKind \X Row]
         /\ base' \in [Thread -> Base]
  BY NoneIsStatus DEF TypeOK, Finish, Label

LEMMA LeaveType ==
  ASSUME TypeOK, NEW p \in Thread, Leave(p)
  PROVE  /\ wr' \in [Thread -> [Row -> Status \cup {Keep}]]
         /\ pc' \in [Thread -> Label]
         /\ job' \in [Thread -> JobKind \X Row]
         /\ base' \in [Thread -> Base]
         /\ seen' \in [Thread -> BOOLEAN]
  <1>1. Finish(p) /\ seen' = [seen EXCEPT ![p] = FALSE]
    BY DEF Leave
  <1>2. seen' \in [Thread -> BOOLEAN]
    BY <1>1 DEF TypeOK
  <1>3. QED
    BY <1>1, <1>2, FinishType

LEMMA AtType == \A k \in Key : At(k) \in Time
  BY LifecycleAssumption DEF At, Key, Time

LEMMA SetTimersType ==
  ASSUME TypeOK, NEW ss \in SUBSET Session, SetExamTimers(ss)
  PROVE  armed' \in [Key -> Time \cup {Never}] /\ fired' \subseteq Key
  BY AtType DEF TypeOK, SetExamTimers

LEMMA CancelTimersType ==
  ASSUME TypeOK, NEW ss, CancelExamTimers(ss)
  PROVE  armed' \in [Key -> Time \cup {Never}] /\ fired' \subseteq Key
  BY DEF TypeOK, CancelExamTimers

LEMMA LiveType == Undeleted \subseteq Session /\ Live \subseteq Session
  BY DEF Undeleted, Live

LEMMA MatchedType == \A p : Matched(p) \subseteq Undeleted
  BY DEF Matched

(* What the statements note of what they went by.                              *)
LEMMA NoteType ==
  ASSUME TypeOK, NEW p \in Thread, NEW rows \in SUBSET Row, NEW late \in BOOLEAN,
         \/ base' = [base EXCEPT ![p].rows = rows]
         \/ base' = [base EXCEPT ![p].late = late]
         \/ base' = [base EXCEPT ![p].rows = rows, ![p].late = late]
  PROVE  base' \in [Thread -> Base]
  <1>1. base \in [Thread -> Base]
    BY DEF TypeOK
  <1>2. CASE base' = [base EXCEPT ![p].rows = rows]
    BY <1>1, <1>2 DEF Base
  <1>3. CASE base' = [base EXCEPT ![p].late = late]
    BY <1>1, <1>3 DEF Base
  <1>4. CASE base' = [base EXCEPT ![p].rows = rows, ![p].late = late]
    BY <1>1, <1>4 DEF Base
  <1>5. QED
    BY <1>2, <1>3, <1>4

LEMMA NoteOldType ==
  ASSUME TypeOK, NEW p \in Thread, NEW old \in SUBSET Session, NEW rows \in SUBSET Row,
         NEW late \in BOOLEAN,
         base' = [base EXCEPT ![p].old = old, ![p].rows = rows, ![p].late = late]
  PROVE  base' \in [Thread -> Base]
  <1>1. base \in [Thread -> Base]
    BY DEF TypeOK
  <1>2. QED
    BY <1>1 DEF Base

LEMMA NoteRollType ==
  ASSUME TypeOK, NEW p \in Thread, NEW x \in Roll, NEW rows \in SUBSET Row, NEW late \in BOOLEAN,
         base' = [base EXCEPT ![p].roll = x, ![p].rows = rows, ![p].late = late]
  PROVE  base' \in [Thread -> Base]
  <1>1. base \in [Thread -> Base]
    BY DEF TypeOK
  <1>2. QED
    BY <1>1 DEF Base

(* One request, event or clock step at a time.                                 *)
LEMMA ClockType ==
  ASSUME TypeOK
  PROVE  /\ Tick => TypeOK'
         /\ Crash => TypeOK'
         /\ \A k \in Key : Fire(k) => TypeOK'
  <1>1. ASSUME Tick PROVE TypeOK'
    <2>1. now' \in Time
      BY <1>1, LifecycleAssumption DEF Tick, TypeOK, Time
    <2>2. QED
      BY <1>1, <2>1 DEF Tick, TypeOK, data, timing
  <1>2. ASSUME Crash PROVE TypeOK'
    <2>1. crashes' \in 0..MaxCrash
      BY <1>2, LifecycleAssumption DEF Crash, TypeOK
    <2>2. armed' \in [Key -> Time \cup {Never}] /\ fired' \subseteq Key
      <3> DEFINE ss == IF status[Exam] \in {"02", "04"} THEN Live ELSE {}
      <3>1. armed' = [k \in Key |-> IF k[2] \in ss /\ At(k) > now THEN At(k) ELSE Never]
        BY <1>2 DEF Crash
      <3>2. fired' = {k \in Key : k[2] \in ss /\ At(k) <= now}
        BY <1>2 DEF Crash
      <3> HIDE DEF ss
      <3>3. QED
        BY <3>1, <3>2, AtType
    <2>3. /\ wr' \in [Thread -> [Row -> Status \cup {Keep}]]
          /\ pc' \in [Thread -> Label]
          /\ job' \in [Thread -> JobKind \X Row]
          /\ base' \in [Thread -> Base]
          /\ seen' \in [Thread -> BOOLEAN]
      BY <1>2, NoneIsStatus DEF Crash, Label
    <2>4. QED
      BY <1>2, <2>1, <2>2, <2>3 DEF Crash, TypeOK, data
  <1>3. ASSUME NEW k \in Key, Fire(k) PROVE TypeOK'
    BY <1>3 DEF Fire, TypeOK, data, frame
  <1>4. QED
    BY <1>1, <1>2, <1>3

LEMMA CommitType ==
  ASSUME TypeOK, NEW p \in Thread
  PROVE  /\ Commit(p) => TypeOK'
         /\ CommitFails(p) => TypeOK'
         /\ DeadlockAbort(p) => TypeOK'
  <1>1. ASSUME Commit(p) PROVE TypeOK'
    <2>1. status' \in [Row -> Status]
      BY <1>1 DEF Commit, TypeOK
    <2>2. \A s \in Session : NewRoll(p, s) \in Roll
      <3>1. base[p] \in Base /\ base[p].roll \in Roll /\ \A s \in Session : roll[s] \in Roll
        BY DEF TypeOK, Base
      <3>2. QED
        BY <3>1 DEF NewRoll, Roll
    <2>3. roll' \in [Session -> Roll]
      BY <1>1, <2>2 DEF Commit
    <2>4. papers' \in [Session -> BOOLEAN] /\ seen' \in [Thread -> BOOLEAN]
      BY <1>1 DEF Commit
    <2>5. overtaken' \in BOOLEAN
      BY <1>1 DEF Commit, TypeOK, Base
    <2>6. QED
      BY <1>1, <2>1, <2>3, <2>4, <2>5, FinishType DEF Commit, TypeOK, timing
  <1>2. ASSUME CommitFails(p) PROVE TypeOK'
    BY <1>2, LeaveType DEF CommitFails, TypeOK, data, frame, timing
  <1>3. ASSUME DeadlockAbort(p) PROVE TypeOK'
    BY <1>3, LeaveType DEF DeadlockAbort, TypeOK, data, frame, timing
  <1>4. QED
    BY <1>1, <1>2, <1>3

LEMMA RequestType ==
  ASSUME TypeOK, NEW c \in Caller, Request(c)
  PROVE  TypeOK'
  <1>1. c \in Thread
    BY DEF Thread
  <1>2. Undeleted \in SUBSET Session /\ status[Exam] \in Status /\ Exam \in Row
    BY LiveType, RowIsExamOrSession DEF TypeOK
  <1>3. CASE PutRead(c)
    <2>1. base'[c] \in Base
      BY <1>1, <1>2, <1>3, NoneIsStatus DEF PutRead, TypeOK, Base
    <2>2. pc' \in [Thread -> Label] /\ job' \in [Thread -> JobKind \X Row]
      BY <1>1, <1>2, <1>3, GotoType DEF PutRead, TypeOK, Label, JobKind
    <2>3. QED
      BY <1>1, <1>3, <2>1, <2>2 DEF PutRead, TypeOK, data, frame, timing
  <1>4. CASE DelRead(c)
    <2>1. base'[c] \in Base
      BY <1>1, <1>2, <1>4 DEF DelRead, TypeOK, Base
    <2>2. pc' \in [Thread -> Label] /\ job' \in [Thread -> JobKind \X Row]
      BY <1>1, <1>2, <1>4, GotoType DEF DelRead, TypeOK, Label, JobKind
    <2>3. QED
      BY <1>1, <1>4, <2>1, <2>2 DEF DelRead, TypeOK, data, frame, timing
  <1>5. ASSUME NEW k \in {"publish", "void"}, StatusBegin(c, k) PROVE TypeOK'
    <2>1. base'[c] \in Base
      BY <1>1, <1>2, <1>5 DEF StatusBegin, TypeOK, Base
    <2>2. pc' \in [Thread -> Label] /\ job' \in [Thread -> JobKind \X Row]
      BY <1>1, <1>2, <1>5, GotoType DEF StatusBegin, TypeOK, Label, JobKind
    <2>3. seen' \in [Thread -> BOOLEAN]
      BY <1>5 DEF StatusBegin, TypeOK
    <2>4. QED
      BY <1>1, <1>5, <2>1, <2>2, <2>3 DEF StatusBegin, TypeOK, data, frame, timing
  <1>6. QED
    BY <1>3, <1>4, <1>5 DEF Request

LEMMA CallerType ==
  ASSUME TypeOK, NEW c \in Caller, CallerStep(c)
  PROVE  TypeOK'
  <1>0. /\ c \in Thread /\ Undeleted \in SUBSET Session /\ Live \in SUBSET Session
        /\ {} \in SUBSET Row /\ Misses(c) \in BOOLEAN
    BY LiveType DEF Thread, Misses
  <1>1. CASE PutBegin(c)
    <2>1. pc' \in [Thread -> Label] /\ seen' \in [Thread -> BOOLEAN]
      BY <1>0, <1>1, GotoType DEF PutBegin, TypeOK, Label
    <2>2. QED
      BY <1>1, <2>1 DEF PutBegin, TypeOK, data, frame, timing
  <1>2. CASE PutExam(c)
    <2>1. PutStatus(c) \in Status
      BY <1>0 DEF PutStatus, TypeOK, Base, Status
    <2>2. wr' \in [Thread -> [Row -> Status \cup {Keep}]] /\ pc' \in [Thread -> Label]
      BY <1>0, <1>2, <2>1, WriteType, GotoType DEF PutExam, Label
    <2>3. QED
      BY <1>2, <2>2 DEF PutExam, TypeOK, data, frame, timing
  <1>3. CASE PutSessions(c)
    <2>1. PICK new \in SUBSET Session, x \in {"none", "open"} :
            /\ wr' = [wr EXCEPT ![c] = [r \in Row |-> IF r \in new THEN PutStatus(c)
                                                      ELSE IF r \in Matched(c) THEN "14" ELSE @[r]]]
            /\ base' = [base EXCEPT ![c].roll = x, ![c].rows = {}, ![c].late = Misses(c)]
      BY <1>3 DEF PutSessions
    <2>2. PutStatus(c) \in Status /\ "14" \in Status /\ x \in Roll
      BY <1>0 DEF PutStatus, TypeOK, Base, Status, Roll
    <2>3. wr' \in [Thread -> [Row -> Status \cup {Keep}]]
      <3>1. [r \in Row |-> IF r \in new THEN PutStatus(c)
                           ELSE IF r \in Matched(c) THEN "14" ELSE wr[c][r]]
              \in [Row -> Status \cup {Keep}]
        BY <1>0, <2>2 DEF TypeOK
      <3>2. QED
        BY <1>0, <2>1, <3>1 DEF TypeOK
    <2>4. base' \in [Thread -> Base]
      BY <1>0, <2>1, <2>2, NoteRollType
    <2>5. pc' \in [Thread -> Label]
      BY <1>0, <1>3, GotoType DEF PutSessions, Label
    <2>6. QED
      BY <1>3, <2>3, <2>4, <2>5 DEF PutSessions, TypeOK, data, frame, timing
  <1>4. CASE PutCheck(c)
    <2>1. CASE seen[c] /\ Write(c, {r \in {Exam} : wr[c][r] = Keep}, status[Exam])
               /\ SetExamTimers(Live) /\ Goto(c, "commit") /\ UNCHANGED <<job, base, seen>>
      <3>1. status[Exam] \in Status /\ "commit" \in Label
        BY RowIsExamOrSession DEF TypeOK, Label
      <3>2. QED
        BY <1>0, <1>4, <2>1, <3>1, WriteType, GotoType, SetTimersType
           DEF PutCheck, TypeOK, data, frame
    <2>2. CASE Leave(c) /\ UNCHANGED timing
      BY <1>0, <1>4, <2>2, LeaveType DEF PutCheck, TypeOK, data, frame, timing
    <2>3. QED
      BY <1>4, <2>1, <2>2 DEF PutCheck
  <1>5. CASE StatusCheck(c)
    <2>1. CASE base' = [base EXCEPT ![c].old = Live] /\ Goto(c, "statusSessions")
               /\ UNCHANGED <<wr, job, seen>>
      <3>0. base \in [Thread -> Base]
        BY DEF TypeOK
      <3>1. base' \in [Thread -> Base]
        BY <1>0, <2>1, <3>0 DEF Base
      <3>2. pc' \in [Thread -> Label]
        BY <1>0, <2>1, GotoType DEF Label
      <3>3. QED
        BY <1>5, <2>1, <3>1, <3>2 DEF StatusCheck, TypeOK, data, frame, timing
    <2>2. CASE Leave(c)
      BY <1>0, <1>5, <2>2, LeaveType DEF StatusCheck, TypeOK, data, frame, timing
    <2>3. QED
      BY <1>5, <2>1, <2>2 DEF StatusCheck
  <1>6. CASE StatusSessions(c)
    <2>1. Target(c) \in Status
      BY DEF Target, Status
    <2>2. wr' \in [Thread -> [Row -> Status \cup {Keep}]] /\ pc' \in [Thread -> Label]
      BY <1>0, <1>6, <2>1, WriteType, GotoType DEF StatusSessions, Label
    <2> DEFINE old == IF Kind(c) = "void" THEN {s \in Session : status[s] # None} ELSE base[c].old
    <2>3. old \in SUBSET Session
      BY <1>0 DEF TypeOK, Base
    <2>4. base' = [base EXCEPT ![c].old = old, ![c].rows = {}, ![c].late = Misses(c)]
      BY <1>6 DEF StatusSessions
    <2> HIDE DEF old
    <2>5. base' \in [Thread -> Base]
      BY <1>0, <2>3, <2>4, NoteOldType
    <2>6. QED
      BY <1>6, <2>2, <2>5 DEF StatusSessions, TypeOK, data, frame, timing
  <1>7. CASE StatusExam(c)
    <2>1. CASE /\ Write(c, {Exam}, Target(c))
               /\ IF Kind(c) = "publish" THEN SetExamTimers(Live) ELSE CancelExamTimers(Live)
               /\ Goto(c, "commit")
               /\ UNCHANGED <<job, base, seen>>
      <3>1. Target(c) \in Status /\ "commit" \in Label
        BY DEF Target, Status, Label
      <3>2. armed' \in [Key -> Time \cup {Never}] /\ fired' \subseteq Key
        BY <1>0, <2>1, SetTimersType, CancelTimersType
      <3>3. wr' \in [Thread -> [Row -> Status \cup {Keep}]] /\ pc' \in [Thread -> Label]
        BY <1>0, <2>1, <3>1, WriteType, GotoType
      <3>4. QED
        BY <1>7, <2>1, <3>2, <3>3 DEF StatusExam, TypeOK, data, frame
    <2>2. CASE Leave(c) /\ UNCHANGED timing
      BY <1>0, <1>7, <2>2, LeaveType DEF StatusExam, TypeOK, data, frame, timing
    <2>3. QED
      BY <1>7, <2>1, <2>2 DEF StatusExam
  <1>8. CASE DelSessions(c)
    <2>1. wr' \in [Thread -> [Row -> Status \cup {Keep}]] /\ pc' \in [Thread -> Label]
      BY <1>0, <1>8, WriteType, GotoType DEF DelSessions, Label, Status
    <2>2. base' \in [Thread -> Base]
      BY <1>0, <1>8, NoteType DEF DelSessions
    <2>3. QED
      BY <1>8, <2>1, <2>2 DEF DelSessions, TypeOK, data, frame, timing
  <1>9. CASE DelExam(c)
    <2>1. wr' \in [Thread -> [Row -> Status \cup {Keep}]] /\ pc' \in [Thread -> Label]
      BY <1>0, <1>9, WriteType, GotoType DEF DelExam, Label, Status
    <2>2. armed' \in [Key -> Time \cup {Never}] /\ fired' \subseteq Key
      BY <1>9, CancelTimersType DEF DelExam
    <2>3. QED
      BY <1>9, <2>1, <2>2 DEF DelExam, TypeOK, data, frame
  <1>10. QED
    BY <1>1, <1>2, <1>3, <1>4, <1>5, <1>6, <1>7, <1>8, <1>9 DEF CallerStep

LEMMA WorkerType ==
  ASSUME TypeOK, NEW w \in Worker, WorkerStep(w)
  PROVE  TypeOK'
  <1>0. w \in Thread
    BY DEF Thread
  <1>1. CASE StartRefused(w)
    BY <1>0, <1>1, LeaveType DEF StartRefused, TypeOK, data, frame, timing
  <1>2. CASE StartEmpty(w)
    <2>0. (~NoExaminee(w)) \in BOOLEAN
      OBVIOUS
    <2>1. wr' \in [Thread -> [Row -> Status \cup {Keep}]] /\ pc' \in [Thread -> Label]
      BY <1>0, <1>2, WriteType, GotoType DEF StartEmpty, Label, Status
    <2>2. armed' \in [Key -> Time \cup {Never}] /\ fired' \subseteq Key
      BY <1>2, CancelTimersType DEF StartEmpty
    <2>3. base' \in [Thread -> Base]
      BY <1>0, <1>2, <2>0, NoteType DEF StartEmpty
    <2>4. QED
      BY <1>2, <2>1, <2>2, <2>3 DEF StartEmpty, TypeOK, data, frame
  <1>3. CASE StartSession(w)
    <2>1. wr' \in [Thread -> [Row -> Status \cup {Keep}]] /\ pc' \in [Thread -> Label]
      BY <1>0, <1>3, WriteType, GotoType DEF StartSession, Label, Status
    <2>2. QED
      BY <1>3, <2>1 DEF StartSession, TypeOK, data, frame, timing
  <1>4. CASE StartExam(w)
    <2>1. wr' \in [Thread -> [Row -> Status \cup {Keep}]] /\ pc' \in [Thread -> Label]
      <3>1. pc' \in [Thread -> Label]
        BY <1>0, <1>4, GotoType DEF StartExam, Label
      <3>2. "04" \in Status
        BY DEF Status
      <3>3. QED
        BY <1>0, <1>4, <3>1, <3>2, WriteType DEF StartExam, TypeOK
    <2>2. QED
      BY <1>4, <2>1 DEF StartExam, TypeOK, data, frame, timing
  <1>5. CASE EndRearm(w)
    <2>1. (IF now < MaxTime THEN now + 1 ELSE MaxTime) \in Time
      BY LifecycleAssumption DEF TypeOK, Time
    <2>2. armed' \in [Key -> Time \cup {Never}]
      BY <1>5, <2>1 DEF EndRearm, TypeOK
    <2>3. QED
      BY <1>0, <1>5, <2>2, LeaveType DEF EndRearm, TypeOK, data, frame
  <1>6. CASE EndSession(w)
    <2> DEFINE to == IF status[job[w][2]] \in {"02", "04"} /\ Ends[job[w][2]] <= now
                     THEN "06" ELSE status[job[w][2]]
    <2>1. to \in Status
      BY <1>0 DEF TypeOK, Status
    <2>2. Write(w, {job[w][2]}, to) /\ Goto(w, "endExam") /\ "endExam" \in Label
      BY <1>6 DEF EndSession, Label
    <2> HIDE DEF to
    <2>3. wr' \in [Thread -> [Row -> Status \cup {Keep}]] /\ pc' \in [Thread -> Label]
      BY <1>0, <2>1, <2>2, WriteType, GotoType
    <2>4. QED
      BY <1>6, <2>3 DEF EndSession, TypeOK, data, frame, timing
  <1>7. CASE EndExam(w)
    <2>1. wr' \in [Thread -> [Row -> Status \cup {Keep}]] /\ pc' \in [Thread -> Label]
      <3>1. pc' \in [Thread -> Label]
        BY <1>0, <1>7, GotoType DEF EndExam, Label
      <3>2. "06" \in Status
        BY DEF Status
      <3>3. QED
        BY <1>0, <1>7, <3>1, <3>2, WriteType DEF EndExam, TypeOK
    <2>2. base' \in [Thread -> Base]
      <3>1. (Closes(w) /\ ~ExamOver(w)) \in BOOLEAN /\ {} \in SUBSET Row
        OBVIOUS
      <3>2. QED
        BY <1>0, <1>7, <3>1, NoteType DEF EndExam
    <2>3. QED
      BY <1>7, <2>1, <2>2 DEF EndExam, TypeOK, data, frame, timing
  <1>8. CASE StartRead(w)
    BY <1>0, <1>8, GotoType DEF StartRead, TypeOK, Label, data, frame, timing
  <1>9. QED
    BY <1>1, <1>2, <1>3, <1>4, <1>5, <1>6, <1>7, <1>8 DEF WorkerStep

LEMMA AwaitType ==
  ASSUME TypeOK, NEW p \in Thread, Await(p)
  PROVE  TypeOK'
  <1>1. Wants(p) \subseteq Row
    <2>1. Matched(p) \subseteq Row /\ Exam \in Row
      BY MatchedType, LiveType, RowIsExamOrSession
    <2>2. pc[p] = "endExam" => Wants(p) \subseteq {Exam}
      BY DEF Wants
    <2>3. pc[p] \in {"putSessions", "statusSessions", "delSessions"} => Wants(p) = Matched(p)
      BY DEF Wants
    <2>4. QED
      BY <2>1, <2>2, <2>3 DEF Await
  <1>2. base' \in [Thread -> Base]
    BY <1>1, NoteType DEF Await
  <1>3. QED
    BY <1>2 DEF Await, TypeOK, data, frame, timing

LEMMA StudentType ==
  ASSUME TypeOK, NEW s \in Session
  PROVE  (AllSubmit(s) => TypeOK') /\ (Extend(s) => TypeOK')
  <1>1. ASSUME AllSubmit(s) PROVE TypeOK'
    BY <1>1 DEF AllSubmit, TypeOK, Roll, frame, timing
  <1>2. ASSUME Extend(s) PROVE TypeOK'
    <2>1. due[s] + 1 \in Time
      BY <1>2, LifecycleAssumption DEF Extend, TypeOK, Time
    <2>2. QED
      BY <1>2, <2>1 DEF Extend, TypeOK, frame, timing
  <1>3. QED
    BY <1>1, <1>2

LEMMA TakeType ==
  ASSUME TypeOK, NEW w \in Worker, NEW k \in Key, Take(w, k)
  PROVE  TypeOK'
  <1>1. w \in Thread /\ k \in JobKind \X Row
    BY RowIsExamOrSession DEF Thread, Key, JobKind
  <1>2. pc' \in [Thread -> Label]
    BY <1>1, GotoType DEF Take, Label
  <1>3. QED
    BY <1>1, <1>2 DEF Take, TypeOK, data, frame

LEMMA NextType == TypeOK /\ [Next]_vars => TypeOK'
  <1> SUFFICES ASSUME TypeOK, [Next]_vars PROVE TypeOK'
    OBVIOUS
  <1>1. CASE UNCHANGED vars
    BY <1>1 DEF TypeOK, vars
  <1>2. CASE Next
    <2>1. ASSUME NEW p \in Thread, ThreadStep(p) \/ CommitFails(p) PROVE TypeOK'
      BY <2>1, CallerType, WorkerType, CommitType, AwaitType DEF ThreadStep
    <2>2. QED
      BY <1>2, <2>1, RequestType, ClockType, StudentType, TakeType DEF Next
  <1>3. QED
    BY <1>1, <1>2

(* Exams, sessions, timers and transactions keep their types: no handler gives *)
(* an exam or a session a status code of another table.                        *)
THEOREM LifecycleTypeCorrect == Spec => []TypeOK
  BY InitType, NextType, PTL DEF Spec

-----------------------------------------------------------------------------
(* Row locks. *)

LEMMA WriteLocks ==
  ASSUME LockInv, NEW p \in Thread, NEW rows \in SUBSET Row, NEW to \in Status,
         Write(p, rows, to), status' = status,
         \A r \in rows : Free(p, r) /\ (status[r] = Gone(r) => to = Gone(r))
  PROVE  LockExclusive' /\ DeletedKept'
  <1>1. /\ \A r \in Row : wr'[p][r] = IF r \in rows THEN to ELSE wr[p][r]
        /\ \A q \in Thread : q # p => wr'[q] = wr[q]
    BY DEF Write, LockInv, TypeOK
  <1>2. LockExclusive'
    <2> SUFFICES ASSUME NEW a \in Thread, NEW b \in Thread, NEW r \in Row, a # b, wr'[a][r] # Keep
                 PROVE  wr'[b][r] = Keep
      BY DEF LockExclusive
    <2>1. CASE a # p /\ b # p
      BY <1>1, <2>1 DEF LockInv, LockExclusive
    <2>2. CASE a = p /\ r \notin rows
      BY <1>1, <2>2 DEF LockInv, LockExclusive
    <2>3. CASE a = p /\ r \in rows
      BY <1>1, <2>3 DEF Free
    <2>4. CASE b = p /\ r \notin rows
      BY <1>1, <2>4 DEF LockInv, LockExclusive
    <2>5. CASE b = p /\ r \in rows
      BY <1>1, <2>5 DEF Free
    <2>6. QED
      BY <2>1, <2>2, <2>3, <2>4, <2>5
  <1>3. DeletedKept'
    <2>1. \A r \in Row : Gone(r)' = Gone(r)
      BY DEF Gone
    <2>2. QED
      BY <1>1, <2>1 DEF LockInv, DeletedKept, Gone
  <1>4. QED
    BY <1>2, <1>3

LEMMA FinishLocks ==
  ASSUME LockInv, NEW p \in Thread, Finish(p), status' = status
  PROVE  LockExclusive' /\ DeletedKept'
  <1>1. /\ \A r \in Row : wr'[p][r] = Keep
        /\ \A q \in Thread : q # p => wr'[q] = wr[q]
    BY DEF Finish, Clean, LockInv, TypeOK
  <1>2. QED
    BY <1>1 DEF LockInv, LockExclusive, DeletedKept, Gone

LEMMA SameLocks ==
  ASSUME LockInv, wr' = wr, status' = status
  PROVE  LockExclusive' /\ DeletedKept'
  BY DEF LockInv, LockExclusive, DeletedKept, Gone

(* A commit: no other transaction has written the rows that it changes.        *)
LEMMA CommitLocks ==
  ASSUME LockInv, NEW p \in Thread, Commit(p)
  PROVE  LockExclusive' /\ DeletedKept'
  <1>1. /\ \A r \in Row : wr'[p][r] = Keep
        /\ \A q \in Thread : q # p => wr'[q] = wr[q]
    BY DEF Commit, Finish, Clean, LockInv, TypeOK
  <1>2. \A r \in Row : status'[r] = IF wr[p][r] = Keep THEN status[r] ELSE wr[p][r]
    BY DEF Commit
  <1>3. LockExclusive'
    BY <1>1 DEF LockInv, LockExclusive
  <1>4. DeletedKept'
    <2> SUFFICES ASSUME NEW q \in Thread, NEW r \in Row, status'[r] = Gone(r)
                 PROVE  wr'[q][r] \in {Keep, Gone(r)}
      BY DEF DeletedKept, Gone
    <2>1. CASE q = p
      BY <1>1, <2>1
    <2>2. CASE q # p /\ wr[p][r] = Keep
      BY <1>1, <1>2, <2>2 DEF LockInv, DeletedKept
    <2>3. CASE q # p /\ wr[p][r] # Keep
      BY <1>1, <2>3 DEF LockInv, LockExclusive
    <2>4. QED
      BY <2>1, <2>2, <2>3
  <1>5. QED
    BY <1>3, <1>4

LEMMA CallerLocks ==
  ASSUME LockInv, NEW c \in Caller, CallerStep(c)
  PROVE  LockExclusive' /\ DeletedKept'
  <1> USE DEF LockInv
  <1>0. c \in Thread /\ Exam \in Row /\ Matched(c) \in SUBSET Row
        /\ (\A s \in Matched(c) : s \in Session /\ status[s] # Gone(s))
        /\ Gone(Exam) = "12"
    <2>1. \A s \in Undeleted : s \in Session /\ status[s] # Gone(s)
      BY RowIsExamOrSession DEF Undeleted, Gone
    <2>2. QED
      BY <2>1, MatchedType, RowIsExamOrSession DEF Thread, Gone
  <1>1. CASE PutBegin(c)
    BY <1>1, SameLocks DEF PutBegin, data
  <1>2. CASE PutExam(c)
    <2>1. PutStatus(c) \in Status
      BY <1>0 DEF PutStatus, TypeOK, Base, Status
    <2> DEFINE rows == {Exam} \ {r \in {Exam} : status[r] = "12"}
    <2>2. rows \in SUBSET Row /\ \A r \in rows : r = Exam /\ status[r] # "12"
      BY <1>0
    <2>3. Write(c, rows, PutStatus(c)) /\ status' = status /\ (status[Exam] # "12" => Free(c, Exam))
      BY <1>2 DEF PutExam, data
    <2> HIDE DEF rows
    <2>4. QED
      BY <1>0, <2>1, <2>2, <2>3, WriteLocks
  <1>3. CASE PutSessions(c)
    <2>1. PICK new \in SUBSET {s \in Session : status[s] = None /\ Free(c, s)} :
            wr' = [wr EXCEPT ![c] = [r \in Row |-> IF r \in new THEN PutStatus(c)
                                                   ELSE IF r \in Matched(c) THEN "14" ELSE @[r]]]
      BY <1>3 DEF PutSessions
    <2>2. /\ \A q \in Thread : q # c => wr'[q] = wr[q]
          /\ \A r \in Row : wr'[c][r] = IF r \in new THEN PutStatus(c)
                                        ELSE IF r \in Matched(c) THEN "14" ELSE wr[c][r]
      BY <1>0, <2>1 DEF TypeOK
    <2>3. status' = status /\ \A r \in new \cup Matched(c) : Free(c, r)
      BY <1>3 DEF PutSessions, data
    <2>4. LockExclusive'
      <3> SUFFICES ASSUME NEW a \in Thread, NEW b \in Thread, NEW r \in Row,
                          a # b, wr'[a][r] # Keep
                   PROVE  wr'[b][r] = Keep
        BY DEF LockExclusive
      <3>1. CASE r \notin new \cup Matched(c)
        BY <1>0, <2>2, <3>1 DEF LockExclusive
      <3>2. CASE r \in new \cup Matched(c)
        BY <1>0, <2>2, <2>3, <3>2 DEF Free
      <3>3. QED
        BY <3>1, <3>2
    <2>5. DeletedKept'
      <3>1. \A r \in new \cup Matched(c) : status[r] # Gone(r)
        BY <1>0, RowIsExamOrSession DEF Gone, None
      <3>2. QED
        BY <1>0, <2>2, <2>3, <3>1 DEF DeletedKept, Gone
    <2>6. QED
      BY <2>4, <2>5
  <1>4. CASE PutCheck(c)
    <2>1. CASE seen[c] /\ Free(c, Exam)
               /\ Write(c, {r \in {Exam} : wr[c][r] = Keep}, status[Exam])
      <3> DEFINE rows == {r \in {Exam} : wr[c][r] = Keep}
      <3>1. rows \in SUBSET Row /\ status[Exam] \in Status
            /\ \A r \in rows : Free(c, r) /\ (status[r] = Gone(r) => status[Exam] = Gone(r))
        BY <1>0, <2>1 DEF TypeOK
      <3>2. Write(c, rows, status[Exam]) /\ status' = status
        BY <1>4, <2>1 DEF PutCheck, data
      <3> HIDE DEF rows
      <3>3. QED
        BY <1>0, <3>1, <3>2, WriteLocks
    <2>2. CASE Leave(c)
      BY <1>0, <1>4, <2>2, FinishLocks DEF Leave, PutCheck, data
    <2>3. QED
      BY <1>4, <2>1, <2>2 DEF PutCheck
  <1>5. CASE StatusCheck(c)
    BY <1>0, <1>5, SameLocks, FinishLocks DEF StatusCheck, Leave, data
  <1>6. CASE StatusSessions(c)
    <2>1. Target(c) \in Status
      BY DEF Target, Status
    <2>2. QED
      BY <1>0, <1>6, <2>1, WriteLocks DEF StatusSessions, data
  <1>7. CASE StatusExam(c)
    <2>1. Target(c) \in Status
      BY DEF Target, Status
    <2>2. CASE status[Exam] # "12" /\ Free(c, Exam) /\ Write(c, {Exam}, Target(c))
      BY <1>0, <1>7, <2>1, <2>2, WriteLocks DEF StatusExam, data
    <2>3. CASE Leave(c)
      BY <1>0, <1>7, <2>3, FinishLocks DEF Leave, StatusExam, data
    <2>4. QED
      BY <1>7, <2>2, <2>3 DEF StatusExam
  <1>8. CASE DelSessions(c)
    <2>1. "14" \in Status
      BY DEF Status
    <2>2. QED
      BY <1>0, <1>8, <2>1, WriteLocks DEF DelSessions, data
  <1>9. CASE DelExam(c)
    <2> DEFINE rows == {r \in {Exam} : status[r] # "12"}
    <2>1. rows \in SUBSET Row /\ "12" \in Status /\ \A r \in rows : r = Exam /\ status[r] # "12"
      BY <1>0 DEF Status
    <2>2. Write(c, rows, "12") /\ status' = status /\ (status[Exam] # "12" => Free(c, Exam))
      BY <1>9 DEF DelExam, data
    <2> HIDE DEF rows
    <2>3. QED
      BY <1>0, <2>1, <2>2, WriteLocks
  <1>10. QED
    BY <1>1, <1>2, <1>3, <1>4, <1>5, <1>6, <1>7, <1>8, <1>9 DEF CallerStep

LEMMA WorkerLocks ==
  ASSUME LockInv, NEW w \in Worker, WorkerStep(w)
  PROVE  LockExclusive' /\ DeletedKept'
  <1> USE DEF LockInv
  <1>0. w \in Thread /\ Exam \in Row /\ Gone(Exam) = "12" /\ job[w][2] \in Row
        /\ (\A s \in Session : s \in Row /\ Gone(s) = "14")
        /\ {"04", "06", "10"} \subseteq Status
    BY RowIsExamOrSession DEF Thread, Gone, TypeOK, Status
  <1>1. CASE StartRefused(w)
    BY <1>0, <1>1, FinishLocks DEF StartRefused, Leave, data
  <1>2. CASE StartEmpty(w)
    BY <1>0, <1>2, WriteLocks DEF StartEmpty, data
  <1>3. CASE StartSession(w)
    BY <1>0, <1>3, LiveType, WriteLocks DEF StartSession, data
  <1>4. CASE StartExam(w)
    BY <1>0, <1>4, WriteLocks, SameLocks DEF StartExam, data
  <1>5. CASE EndRearm(w)
    BY <1>0, <1>5, FinishLocks DEF EndRearm, Leave, data
  <1>6. CASE EndSession(w)
    <2> DEFINE s == job[w][2]
               to == IF status[s] \in {"02", "04"} /\ Ends[s] <= now THEN "06" ELSE status[s]
    <2>1. to \in Status /\ (status[s] = Gone(s) => to = Gone(s))
      BY <1>0 DEF TypeOK, Gone
    <2>2. Write(w, {s}, to) /\ Free(w, s) /\ status' = status
      BY <1>6 DEF EndSession, data
    <2> HIDE DEF to
    <2>3. QED
      BY <1>0, <2>1, <2>2, WriteLocks
  <1>7. CASE EndExam(w)
    BY <1>0, <1>7, WriteLocks, SameLocks DEF EndExam, Closes, ExamOver, data
  <1>8. CASE StartRead(w)
    BY <1>8, SameLocks DEF StartRead, data
  <1>9. QED
    BY <1>1, <1>2, <1>3, <1>4, <1>5, <1>6, <1>7, <1>8 DEF WorkerStep

LEMMA InitLocks == Init => LockInv
  <1> SUFFICES ASSUME Init PROVE LockInv
    OBVIOUS
  <1>1. \A p \in Thread, r \in Row : wr[p][r] = Keep
    BY DEF Init, Clean
  <1>2. QED
    BY <1>1, InitType DEF LockInv, LockExclusive, DeletedKept

LEMMA NextLocks == LockInv /\ [Next]_vars => LockInv'
  <1> SUFFICES ASSUME LockInv, [Next]_vars PROVE LockExclusive' /\ DeletedKept'
    BY NextType DEF LockInv
  <1>1. CASE UNCHANGED vars
    BY <1>1, SameLocks DEF vars
  <1>2. CASE Next
    <2>1. CASE \E c \in Caller : Request(c)
      BY <2>1, SameLocks DEF Request, PutRead, DelRead, StatusBegin, data
    <2>2. ASSUME NEW p \in Thread, ThreadStep(p) PROVE LockExclusive' /\ DeletedKept'
      <3>1. CASE DeadlockAbort(p)
        BY <3>1, FinishLocks DEF DeadlockAbort, Leave, data
      <3>2. CASE Await(p)
        BY <3>2, SameLocks DEF Await, data
      <3>3. QED
        BY <2>2, <3>1, <3>2, CallerLocks, WorkerLocks, CommitLocks DEF ThreadStep
    <2>3. ASSUME NEW p \in Thread, CommitFails(p) PROVE LockExclusive' /\ DeletedKept'
      BY <2>3, FinishLocks DEF CommitFails, Leave, data
    <2>4. CASE \E w \in Worker, k \in Key : Take(w, k)
      BY <2>4, SameLocks DEF Take, data
    <2>5. CASE \E k \in Key : Fire(k)
      BY <2>5, SameLocks DEF Fire, data
    <2>6. CASE \E s \in Session : AllSubmit(s) \/ Extend(s)
      BY <2>6, SameLocks DEF AllSubmit, Extend
    <2>7. CASE Tick
      BY <2>7, SameLocks DEF Tick, data
    <2>8. CASE Crash
      <3>1. status' = status /\ \A p \in Thread, r \in Row : wr'[p][r] = Keep
        BY <2>8 DEF Crash, data, Clean
      <3>2. QED
        BY <3>1 DEF LockExclusive, DeletedKept
    <2>9. QED
      BY <1>2, <2>1, <2>2, <2>3, <2>4, <2>5, <2>6, <2>7, <2>8 DEF Next
  <1>3. QED
    BY <1>1, <1>2

(* Row locks are exclusive: no two transactions have written the same row.     *)
THEOREM LifecycleLocksExclusive == Spec => []LockExclusive
  <1>1. LockInv => LockExclusive
    BY DEF LockInv
  <1>2. QED
    BY <1>1, InitLocks, NextLocks, PTL DEF Spec

(* No request and no late event brings a deleted session or exam back.         *)
THEOREM LifecycleDeletedForGood == Spec => DeletedForGood
  <1>1. LockInv /\ [Next]_vars
          => [\A r \in Row : status[r] = Gone(r) => status'[r] = Gone(r)]_vars
    <2> SUFFICES ASSUME LockInv, Next, NEW r \in Row, status[r] = Gone(r)
                 PROVE  status'[r] = Gone(r)
      OBVIOUS
    <2>1. ASSUME NEW p \in Thread, Commit(p) PROVE status'[r] = Gone(r)
      BY <2>1 DEF Commit, LockInv, DeletedKept
    <2>2. CASE status' = status
      BY <2>2
    <2>3. QED
      BY <2>1, <2>2 DEF Next, Request, PutRead, DelRead, StatusBegin, ThreadStep, CallerStep,
         WorkerStep, PutBegin, PutExam, PutSessions, PutCheck, StatusCheck, StatusSessions,
         StatusExam, DelSessions, DelExam, Await, DeadlockAbort, CommitFails, Take, Fire, AllSubmit,
         Extend, Tick, Crash, StartRefused, StartRead, StartEmpty, StartSession, StartExam, EndRearm,
         EndSession, EndExam, data
  <1>2. QED
    BY <1>1, InitLocks, NextLocks, PTL DEF Spec, DeletedForGood
-----------------------------------------------------------------------------
(* Stages. *)

(* The stage of each transaction: what it has read still holds, and what it    *)
(* has written is what its statements up to now write.                        *)
Clear(p)      == \A r \in Row : wr[p][r] = Keep
NoSessions(p) == \A s \in Session : wr[p][s] = Keep
Only(p, s)    == \A t \in Session : t # s => wr[p][t] = Keep
Covers(p, to) == \A s \in Session : wr[p][s] = IF s \in Undeleted THEN to ELSE Keep

Labels(p) ==
  CASE Kind(p) = "put" -> {"putBegin", "putExam", "putSessions", "putCheck", "commit"}
    [] Kind(p) \in {"publish", "void"} -> {"statusCheck", "statusSessions", "statusExam", "commit"}
    [] Kind(p) = "delete" -> {"delSessions", "delExam", "commit"}
    [] Kind(p) = "start" -> {"startSession", "startEmpty", "startExam", "commit"}
    [] Kind(p) = "end" -> {"endSession", "endExam", "commit"}
    [] OTHER -> {"idle", "done"}

(* Every session that a transaction has written goes forward with the commit,  *)
(* except that a publish or a void has yet to compare the update time; only a  *)
(* PUT inserts sessions; and none of the first statements is overtaken.        *)
Lawful(p) ==
  /\ pc[p] \in Labels(p)
  /\ Kind(p) \in {"start", "end"} => job[p][2] \in Session
  /\ Kind(p) = "put" => base[p].st \in {"00", "02", "14"}
  /\ \A s \in Session :
       wr[p][s] # Keep => \/ wr[p][s] = status[s]
                          \/ wr[p][s] \in Onward(status[s])
                          \/ Kind(p) \in {"publish", "void"} /\ s \in Undeleted /\ wr[p][s] = Target(p)
  /\ Kind(p) \in {"publish", "void"} /\ pc[p] = "commit" => wr[p][Exam] = Target(p)
  /\ \A s \in base[p].old : status[s] # None
  /\ Kind(p) # "put" => \A s \in Session : status[s] = None => wr[p][s] \in {Keep, None}
  /\ pc[p] \notin {"putCheck", "statusExam", "delExam", "commit"} => ~base[p].late

Replaces(p) ==
  /\ \A s \in Undeleted : wr[p][s] = "14"
  /\ \A s \in Session \ Undeleted : wr[p][s] # Keep => status[s] = None /\ wr[p][s] = PutStatus(p)
  /\ \E s \in Session \ Undeleted : wr[p][s] # Keep

PutStage(p) ==
  /\ pc[p] \in {"putBegin", "putExam"} => Clear(p)
  /\ pc[p] \in {"putSessions", "putCheck", "commit"} => wr[p][Exam] = PutStatus(p)
  /\ pc[p] = "putSessions" => NoSessions(p)
  /\ pc[p] \in {"putCheck", "commit"} => Replaces(p)

From(p) == IF Kind(p) = "publish" THEN {"00"} ELSE {"00", "02", "10"}

StatusStage(p) ==
  /\ pc[p] \in {"statusCheck", "statusSessions"} => Clear(p)
  /\ pc[p] # "statusCheck" => status[Exam] # "14" /\ (seen[p] => status[Exam] \in From(p))
  /\ pc[p] = "statusExam" => wr[p][Exam] = Keep
  /\ pc[p] \in {"statusExam", "commit"} => Covers(p, Target(p))
  /\ pc[p] = "commit" => wr[p][Exam] = Target(p) /\ seen[p]

DeleteStage(p) ==
  /\ status[Exam] # "14"
  /\ pc[p] = "delSessions" => Clear(p)
  /\ pc[p] \in {"delExam", "commit"} => Covers(p, "14")
  /\ pc[p] = "delExam" => wr[p][Exam] = Keep
  /\ pc[p] = "commit" => wr[p][Exam] = "12"

Begins(p, s) ==
  /\ Only(p, s) /\ wr[p][s] = "04" /\ status[s] = "02" /\ roll[s] # "none"
  /\ status[Exam] \in {"02", "04"}

Empties(p) ==
  /\ NoSessions(p) /\ wr[p][Exam] = "10" /\ status[Exam] = "02"
  /\ \A t \in Undeleted : roll[t] = "none"

StartStage(p) ==
  /\ pc[p] \in {"startSession", "startEmpty"} => Clear(p)
  /\ pc[p] = "startExam" => Begins(p, job[p][2]) /\ wr[p][Exam] = Keep
  /\ pc[p] = "commit" =>
       \/ Empties(p)
       \/ /\ Begins(p, job[p][2])
          /\ wr[p][Exam] = IF status[Exam] = "02" THEN "04" ELSE Keep

EndStage(p) ==
  LET s == job[p][2]
  IN  /\ pc[p] = "endSession" => Clear(p)
      /\ pc[p] \in {"endExam", "commit"} =>
           /\ Only(p, s)
           /\ \/ wr[p][s] = status[s]
              \/ status[s] \in {"02", "04"} /\ wr[p][s] = "06"
      /\ pc[p] = "endExam" => wr[p][Exam] = Keep
      /\ pc[p] = "commit" =>
           \/ wr[p][Exam] = Keep
           \/ /\ wr[p][Exam] = "06" /\ status[Exam] \in {"02", "04"}
              /\ \A t \in Undeleted : (IF t = s THEN wr[p][t] ELSE status[t]) = "06"

Stage(p) == ~base[p].late =>
  /\ Kind(p) = None => Clear(p)
  /\ Kind(p) = "put" => PutStage(p)
  /\ Kind(p) \in {"publish", "void"} => StatusStage(p)
  /\ Kind(p) = "delete" => DeleteStage(p)
  /\ Kind(p) = "start" => StartStage(p)
  /\ Kind(p) = "end" => EndStage(p)

SessionCodes == {None, "00", "02", "04", "06", "14", "16"}

(* Of a deleted exam nothing more is asked: it stays deleted.  Nor of one for  *)
(* which an overtaken statement was committed.                                 *)
Firm == status[Exam] # "12" /\ ~overtaken

ExamRows ==
  /\ status[Exam] # None
  /\ status[Exam] # "14" => Undeleted # {}
  /\ \A s \in Undeleted : status[s] \in SessionsOf(status[Exam])
  /\ \A s, t \in Undeleted : roll[s] = "none" => roll[t] = "none"
  /\ status[Exam] = "10" => \A s \in Undeleted : roll[s] = "none"

StageInv ==
  /\ LockInv
  /\ \A s \in Session : status[s] \in SessionCodes
  /\ \A p \in Thread : Lawful(p)
  /\ Firm => ExamRows /\ \A p \in Thread : Stage(p)


(* What the shared parts of the actions do to one transaction and the others.  *)
LEMMA WriteEffect ==
  ASSUME TypeOK, NEW p \in Thread, NEW rows, NEW to, Write(p, rows, to)
  PROVE  /\ \A r \in Row : wr'[p][r] = IF r \in rows THEN to ELSE wr[p][r]
         /\ \A q \in Thread : q # p => wr'[q] = wr[q]
  BY DEF Write, TypeOK

LEMMA GotoEffect ==
  ASSUME TypeOK, NEW p \in Thread, NEW l, Goto(p, l)
  PROVE  pc'[p] = l /\ \A q \in Thread : q # p => pc'[q] = pc[q]
  BY DEF Goto, TypeOK

LEMMA FinishEffect ==
  ASSUME TypeOK, NEW p \in Thread, Finish(p)
  PROVE  /\ pc'[p] \in {"idle", "done"} /\ job'[p] = NoJob /\ base'[p] = NoBase
         /\ \A r \in Row : wr'[p][r] = Keep
         /\ \A q \in Thread : q # p => /\ pc'[q] = pc[q] /\ job'[q] = job[q]
                                       /\ base'[q] = base[q] /\ wr'[q] = wr[q]
  BY DEF Finish, Clean, TypeOK

(* A transaction that is over is at no stage.                                  *)
LEMMA OverStage ==
  ASSUME NEW p \in Thread, pc'[p] \in {"idle", "done"}, job'[p] = NoJob, base'[p] = NoBase,
         \A r \in Row : wr'[p][r] = Keep
  PROVE  Lawful(p)' /\ Stage(p)'
  <1>1. Kind(p)' = None /\ base'[p].old = {} /\ ~base'[p].late
    BY DEF Kind, NoJob, NoBase
  <1>2. Session \subseteq Row
    BY DEF Row
  <1>3. Lawful(p)'
    BY <1>1, <1>2 DEF Lawful, Labels, None
  <1>4. Stage(p)'
    BY <1>1 DEF Stage, Clear, None
  <1>5. QED
    BY <1>3, <1>4

(* A step that commits nothing changes no stage but its own.                   *)
LEMMA OwnStep ==
  ASSUME StageInv, LockInv', NEW p \in Thread, status' = status, roll' = roll,
         overtaken' = overtaken,
         \A q \in Thread : q # p => /\ pc'[q] = pc[q] /\ job'[q] = job[q] /\ seen'[q] = seen[q]
                                    /\ base'[q] = base[q] /\ wr'[q] = wr[q],
         Lawful(p)', Firm => Stage(p)'
  PROVE  StageInv'
  <1>1. Undeleted' = Undeleted /\ (Firm <=> Firm')
    BY DEF Undeleted, Firm
  <1>2. ASSUME NEW q \in Thread, q # p PROVE Lawful(q)'
    BY <1>1, <1>2 DEF StageInv, Lawful, Labels, Kind, Target
  <1>3. ASSUME NEW q \in Thread, q # p, Firm PROVE Stage(q)'
    <2>1. Stage(q)
      BY <1>3 DEF StageInv
    <2>2. Kind(q)' = Kind(q) /\ PutStatus(q)' = PutStatus(q) /\ Target(q)' = Target(q)
          /\ From(q)' = From(q)
      BY <1>3 DEF Kind, PutStatus, Target, From
    <2>3. PutStage(q) => PutStage(q)'
      BY <1>1, <1>3, <2>2 DEF PutStage, Clear, NoSessions, Replaces
    <2>4. StatusStage(q) => StatusStage(q)'
      BY <1>1, <1>3, <2>2 DEF StatusStage, Clear, Covers
    <2>5. DeleteStage(q) => DeleteStage(q)'
      BY <1>1, <1>3, <2>2 DEF DeleteStage, Clear, Covers
    <2>6. StartStage(q) => StartStage(q)'
      BY <1>1, <1>3 DEF StartStage, Clear, Begins, Only, Empties, NoSessions
    <2>7. EndStage(q) => EndStage(q)'
      BY <1>1, <1>3 DEF EndStage, Clear, Only
    <2>8. Clear(q) => Clear(q)'
      BY <1>3 DEF Clear
    <2>9. QED
      BY <2>1, <2>2, <2>3, <2>4, <2>5, <2>6, <2>7, <2>8, <1>3 DEF Stage
  <1>4. ExamRows => ExamRows'
    BY <1>1 DEF ExamRows
  <1>5. ASSUME Firm' PROVE ExamRows' /\ \A q \in Thread : Stage(q)'
    <2>1. Firm /\ ExamRows
      BY <1>1, <1>5 DEF StageInv
    <2>2. QED
      BY <1>3, <1>4, <2>1
  <1>6. \A q \in Thread : Lawful(q)'
    BY <1>2
  <1>7. QED
    BY <1>5, <1>6 DEF StageInv

LEMMA LeaveStep ==
  ASSUME StageInv, LockInv', NEW p \in Thread, Leave(p), status' = status, roll' = roll,
         overtaken' = overtaken
  PROVE  StageInv'
  <1>1. TypeOK /\ Finish(p) /\ seen' = [seen EXCEPT ![p] = FALSE]
    BY DEF Leave, StageInv, LockInv
  <1>2. \A q \in Thread : q # p => seen'[q] = seen[q]
    BY <1>1 DEF TypeOK
  <1>3. Lawful(p)' /\ Stage(p)'
    BY <1>1, FinishEffect, OverStage
  <1>4. QED
    BY <1>1, <1>2, <1>3, FinishEffect, OwnStep

(* The kind of a request or event tells at which statements it can be.         *)
LEMMA KindOf ==
  ASSUME TypeOK, NEW p \in Thread, pc[p] \in Labels(p)
  PROVE  /\ pc[p] \in {"idle", "done"} => Kind(p) = None
         /\ pc[p] \in {"putBegin", "putExam", "putSessions", "putCheck"} => Kind(p) = "put"
         /\ pc[p] \in {"statusCheck", "statusSessions", "statusExam"} => Kind(p) \in {"publish", "void"}
         /\ pc[p] \in {"delSessions", "delExam"} => Kind(p) = "delete"
         /\ pc[p] \in {"startSession", "startEmpty", "startExam"} => Kind(p) = "start"
         /\ pc[p] \in {"endSession", "endExam"} => Kind(p) = "end"
         /\ pc[p] = "commit" => Kind(p) \in {"put", "publish", "void", "delete", "start", "end"}
  <1>1. Kind(p) \in JobKind
    BY DEF TypeOK, Kind
  <1>2. QED
    BY <1>1 DEF Labels, JobKind, None

(* A transaction that has written no row.                                      *)
LEMMA IdleClear ==
  ASSUME StageInv, NEW p \in Thread, Kind(p) = None, Firm
  PROVE  Clear(p)
  <1>1. Lawful(p) /\ Stage(p)
    BY DEF StageInv
  <1>2. pc[p] \in {"idle", "done"}
    BY <1>1 DEF Lawful, Labels, None
  <1>3. ~base[p].late
    BY <1>1, <1>2 DEF Lawful
  <1>4. QED
    BY <1>1, <1>3 DEF Stage

(* An UPDATE that was not overtaken has written every session there is.        *)
LEMMA MatchedAll ==
  ASSUME NEW p \in Thread, ~Misses(p)
  PROVE  Matched(p) = Undeleted
  BY MatchedType DEF Misses

LEMMA RequestStages ==
  ASSUME StageInv, LockInv', NEW c \in Caller, Request(c)
  PROVE  StageInv'
  <1>0. c \in Thread /\ TypeOK
    BY DEF Thread, StageInv, LockInv
  <1>1. pc[c] = "idle" /\ Lawful(c) /\ Kind(c) = None
    BY <1>0, KindOf DEF Request, PutRead, DelRead, StatusBegin, StageInv, Lawful
  <1>2. wr' = wr /\ status' = status /\ roll' = roll /\ overtaken' = overtaken
    BY DEF Request, PutRead, DelRead, StatusBegin, data, frame
  <1>3. Firm => Clear(c) /\ Clear(c)'
    BY <1>0, <1>1, <1>2, IdleClear DEF Clear
  <1>4. CASE PutRead(c)
    <2>1. /\ pc'[c] = "putBegin" /\ job'[c] = <<"put", Exam>>
          /\ base'[c] = [NoBase EXCEPT !.st = status[Exam], !.old = Undeleted, !.at = now]
          /\ status[Exam] \in {"00", "02", "14"}
          /\ \A q \in Thread : q # c => /\ pc'[q] = pc[q] /\ job'[q] = job[q] /\ seen'[q] = seen[q]
                                        /\ base'[q] = base[q] /\ wr'[q] = wr[q]
      BY <1>0, <1>4, GotoEffect DEF PutRead, TypeOK
    <2>2. Kind(c)' = "put" /\ base'[c].st \in {"00", "02", "14"} /\ base'[c].old = Undeleted
          /\ ~base'[c].late
      BY <2>1 DEF Kind, NoBase
    <2>3. Lawful(c)'
      BY <1>1, <1>2, <2>1, <2>2 DEF Lawful, Labels, Undeleted, None
    <2>4. Firm => Stage(c)'
      BY <1>3, <2>1, <2>2 DEF Stage, PutStage, None
    <2>5. QED
      BY <1>0, <1>2, <2>1, <2>3, <2>4, OwnStep
  <1>5. CASE DelRead(c)
    <2>1. /\ pc'[c] = "delSessions" /\ job'[c] = <<"delete", Exam>>
          /\ base'[c].old = Undeleted /\ base'[c].late = base[c].late
          /\ status[Exam] \in {"00", "12"}
          /\ \A q \in Thread : q # c => /\ pc'[q] = pc[q] /\ job'[q] = job[q] /\ seen'[q] = seen[q]
                                        /\ base'[q] = base[q] /\ wr'[q] = wr[q]
      BY <1>0, <1>5, GotoEffect DEF DelRead, TypeOK
    <2>2. Kind(c)' = "delete"
      BY <2>1 DEF Kind
    <2>3. Lawful(c)'
      BY <1>1, <1>2, <2>1, <2>2 DEF Lawful, Labels, Undeleted, None
    <2>4. Firm => Stage(c)'
      BY <1>2, <1>3, <2>1, <2>2 DEF Stage, DeleteStage, None
    <2>5. QED
      BY <1>0, <1>2, <2>1, <2>3, <2>4, OwnStep
  <1>6. ASSUME NEW k \in {"publish", "void"}, StatusBegin(c, k) PROVE StageInv'
    <2>1. /\ pc'[c] = "statusCheck" /\ job'[c] = <<k, Exam>>
          /\ base'[c].old = base[c].old /\ base'[c].late = base[c].late
          /\ \A q \in Thread : q # c => /\ pc'[q] = pc[q] /\ job'[q] = job[q] /\ seen'[q] = seen[q]
                                        /\ base'[q] = base[q] /\ wr'[q] = wr[q]
      BY <1>0, <1>6, GotoEffect DEF StatusBegin, TypeOK
    <2>2. Kind(c)' = k
      BY <2>1 DEF Kind
    <2>3. Lawful(c)'
      BY <1>1, <1>2, <2>1, <2>2 DEF Lawful, Labels, Undeleted, None
    <2>4. Firm => Stage(c)'
      BY <1>2, <1>3, <2>1, <2>2 DEF Stage, StatusStage, None
    <2>5. QED
      BY <1>0, <1>2, <2>1, <2>3, <2>4, OwnStep
  <1>7. QED
    BY <1>4, <1>5, <1>6 DEF Request

LEMMA PutStages ==
  ASSUME StageInv, LockInv', NEW c \in Caller,
         PutBegin(c) \/ PutExam(c) \/ PutSessions(c) \/ PutCheck(c)
  PROVE  StageInv'
  <1>0. c \in Thread /\ TypeOK /\ Lawful(c) /\ Exam \in Row /\ Exam \notin Session /\ Session \subseteq Row
    BY RowIsExamOrSession DEF Thread, StageInv, LockInv
  <1>1. status' = status /\ roll' = roll /\ overtaken' = overtaken /\ Undeleted' = Undeleted /\ Undeleted \subseteq Session
    BY DEF PutBegin, PutExam, PutSessions, PutCheck, data, frame, Undeleted
  <1>2. Kind(c) = "put" /\ base[c].st \in {"00", "02", "14"}
    BY <1>0, KindOf DEF PutBegin, PutExam, PutSessions, PutCheck, Lawful
  <1>3. PutStatus(c) \in {"00", "02"}
    BY <1>2 DEF PutStatus
  <1>4. Firm /\ ~base[c].late => PutStage(c)
    BY <1>0, <1>2 DEF StageInv, Stage
  <1>5. CASE PutBegin(c)
    <2>1. /\ pc[c] = "putBegin" /\ pc'[c] = "putExam" /\ wr' = wr /\ job' = job /\ base' = base
          /\ \A q \in Thread : q # c => pc'[q] = pc[q] /\ seen'[q] = seen[q]
      BY <1>0, <1>5, GotoEffect DEF PutBegin, TypeOK
    <2>2. Kind(c)' = "put"
      BY <1>2, <2>1 DEF Kind
    <2>3. Lawful(c)'
      BY <1>0, <1>1, <1>2, <2>1, <2>2 DEF Lawful, Labels
    <2>4. Firm => Stage(c)'
      BY <1>4, <2>1, <2>2 DEF Stage, PutStage, Clear, None
    <2>5. QED
      BY <1>0, <1>1, <2>1, <2>3, <2>4, OwnStep
  <1>6. CASE PutExam(c)
    <2>1. /\ pc[c] = "putExam" /\ pc'[c] = "putSessions" /\ job' = job /\ base' = base /\ seen' = seen
          /\ \A q \in Thread : q # c => pc'[q] = pc[q]
      BY <1>0, <1>6, GotoEffect DEF PutExam
    <2>2. /\ \A r \in Row : wr'[c][r] = IF r = Exam /\ status[Exam] # "12" THEN PutStatus(c) ELSE wr[c][r]
          /\ \A q \in Thread : q # c => wr'[q] = wr[q]
      BY <1>0, <1>6, WriteEffect DEF PutExam
    <2>3. Kind(c)' = "put" /\ PutStatus(c)' = PutStatus(c)
      BY <1>2, <2>1 DEF Kind, PutStatus
    <2>4. Lawful(c)'
      BY <1>0, <1>1, <1>2, <2>1, <2>2, <2>3 DEF Lawful, Labels
    <2>5. Firm => Stage(c)'
      BY <1>0, <1>4, <2>1, <2>2, <2>3 DEF Stage, PutStage, Clear, NoSessions, None, Firm
    <2>6. QED
      BY <1>0, <1>1, <2>1, <2>2, <2>4, <2>5, OwnStep
  <1>7. CASE PutSessions(c)
    <2>1. PICK new \in SUBSET {s \in Session : status[s] = None}, x \in {"none", "open"} :
            /\ new # {}
            /\ wr' = [wr EXCEPT ![c] = [r \in Row |-> IF r \in new THEN PutStatus(c)
                                                      ELSE IF r \in Matched(c) THEN "14" ELSE @[r]]]
            /\ base' = [base EXCEPT ![c].roll = x, ![c].rows = {}, ![c].late = Misses(c)]
      BY <1>7 DEF PutSessions
    <2>2. /\ \A r \in Row : wr'[c][r] = IF r \in new THEN PutStatus(c)
                                        ELSE IF r \in Matched(c) THEN "14" ELSE wr[c][r]
          /\ \A q \in Thread : q # c => wr'[q] = wr[q]
      BY <1>0, <2>1 DEF TypeOK
    <2>3. /\ base'[c].st = base[c].st /\ base'[c].old = base[c].old
          /\ base'[c].late = Misses(c)
          /\ \A q \in Thread : q # c => base'[q] = base[q]
      <3>1. base \in [Thread -> Base]
        BY <1>0 DEF TypeOK
      <3>2. QED
        BY <1>0, <2>1, <3>1 DEF Base
    <2>4. /\ pc[c] = "putSessions" /\ pc'[c] \in {"putCheck", "commit"} /\ job' = job /\ seen' = seen
          /\ \A q \in Thread : q # c => pc'[q] = pc[q]
      BY <1>0, <1>7, GotoEffect DEF PutSessions
    <2>5. Kind(c)' = "put" /\ PutStatus(c)' = PutStatus(c)
      BY <1>2, <2>3, <2>4 DEF Kind, PutStatus
    <2>6. \A s \in new : s \in Session /\ s \notin Undeleted /\ status[s] = None
      BY DEF Undeleted
    <2>7. \A s \in Undeleted : status[s] \in {"00", "02", "04", "06", "16"}
      BY DEF Undeleted, StageInv, SessionCodes
    <2>8. Lawful(c)'
      <3>1. ASSUME NEW s \in Session, wr'[c][s] # Keep
            PROVE  wr'[c][s] = status[s] \/ wr'[c][s] \in Onward(status[s])
        <4>1. CASE s \in new
          <5>1. wr'[c][s] = PutStatus(c) /\ status[s] = None
            BY <1>0, <2>2, <2>6, <4>1
          <5>2. QED
            BY <1>3, <5>1 DEF Onward, None
        <4>2. CASE s \in Matched(c)
          BY <1>0, <2>2, <2>6, <2>7, <4>2, MatchedType DEF Onward, None
        <4>3. CASE s \notin new /\ s \notin Matched(c)
          BY <1>0, <1>2, <2>2, <3>1, <4>3 DEF Lawful
        <4>4. QED
          BY <4>1, <4>2, <4>3
      <3>2. QED
        BY <1>0, <1>1, <1>2, <2>3, <2>4, <2>5, <3>1 DEF Lawful, Labels
    <2>9. ASSUME Firm, ~base'[c].late PROVE Stage(c)'
      <3>0. ~base[c].late /\ Matched(c) = Undeleted
        BY <1>0, <2>3, <2>4, <2>9, MatchedAll DEF Lawful
      <3>1. NoSessions(c) /\ wr[c][Exam] = PutStatus(c)
        BY <1>4, <2>4, <2>9, <3>0 DEF PutStage
      <3>2. wr'[c][Exam] = PutStatus(c)
        BY <1>0, <1>1, <2>2, <2>6, <3>0, <3>1
      <3>3. Replaces(c)'
        <4>1. \A s \in Session : wr'[c][s] = IF s \in new THEN PutStatus(c)
                                             ELSE IF s \in Undeleted THEN "14" ELSE Keep
          BY <1>0, <2>2, <3>0, <3>1 DEF NoSessions
        <4>2. \E s \in Session \ Undeleted : wr'[c][s] # Keep
          <5>1. PICK s \in new : TRUE
            BY <2>1
          <5>2. s \in Session \ Undeleted /\ wr'[c][s] # Keep
            BY <1>3, <2>6, <4>1, <5>1 DEF Keep
          <5>3. QED
            BY <5>2
        <4>3. /\ \A s \in Undeleted : wr'[c][s] = "14"
              /\ \A s \in Session \ Undeleted :
                   wr'[c][s] # Keep => status[s] = None /\ wr'[c][s] = PutStatus(c)
          BY <1>1, <2>6, <4>1
        <4>4. QED
          BY <1>1, <2>5, <4>2, <4>3 DEF Replaces
      <3>4. QED
        BY <2>4, <2>5, <3>2, <3>3 DEF Stage, PutStage, None
    <2>10. QED
      <3>1. Firm => Stage(c)'
        BY <2>9 DEF Stage
      <3>2. QED
        BY <1>0, <1>1, <2>2, <2>3, <2>4, <2>8, <3>1, OwnStep
  <1>8. CASE PutCheck(c)
    <2>1. CASE /\ Write(c, {r \in {Exam} : wr[c][r] = Keep}, status[Exam])
               /\ Goto(c, "commit")
               /\ UNCHANGED <<job, base, seen>>
      <3>1. /\ pc[c] = "putCheck" /\ pc'[c] = "commit"
            /\ \A q \in Thread : q # c => pc'[q] = pc[q]
        BY <1>0, <1>8, <2>1, GotoEffect DEF PutCheck
      <3>2. /\ \A r \in Row : wr'[c][r] = IF r = Exam /\ wr[c][r] = Keep THEN status[Exam] ELSE wr[c][r]
            /\ \A q \in Thread : q # c => wr'[q] = wr[q]
        BY <1>0, <2>1, WriteEffect
      <3>3. Kind(c)' = "put" /\ PutStatus(c)' = PutStatus(c)
        BY <1>2, <2>1 DEF Kind, PutStatus
      <3>4. Lawful(c)'
        BY <1>0, <1>1, <1>2, <2>1, <3>1, <3>2, <3>3 DEF Lawful, Labels
      <3>5. Firm => Stage(c)'
        BY <1>0, <1>1, <1>3, <1>4, <2>1, <3>1, <3>2, <3>3 DEF Stage, PutStage, Replaces, None, Keep
      <3>6. QED
        BY <1>0, <1>1, <2>1, <3>1, <3>2, <3>4, <3>5, OwnStep
    <2>2. CASE Leave(c)
      BY <1>0, <1>1, <2>2, LeaveStep
    <2>3. QED
      BY <1>8, <2>1, <2>2 DEF PutCheck
  <1>9. QED
    BY <1>5, <1>6, <1>7, <1>8

LEMMA StatusStages ==
  ASSUME StageInv, LockInv', NEW c \in Caller,
         StatusCheck(c) \/ StatusSessions(c) \/ StatusExam(c)
  PROVE  StageInv'
  <1>0. c \in Thread /\ TypeOK /\ Lawful(c) /\ Exam \in Row /\ Exam \notin Session /\ Session \subseteq Row
    BY RowIsExamOrSession DEF Thread, StageInv, LockInv
  <1>1. /\ status' = status /\ roll' = roll /\ overtaken' = overtaken
        /\ Undeleted' = Undeleted /\ Undeleted \subseteq Session /\ Live \subseteq Session
    BY DEF StatusCheck, StatusSessions, StatusExam, data, frame, Undeleted, Live
  <1>2. Kind(c) \in {"publish", "void"}
    BY <1>0, KindOf DEF StatusCheck, StatusSessions, StatusExam, Lawful
  <1>3. Target(c) = (IF Kind(c) = "publish" THEN "02" ELSE "16") /\ Target(c) # Keep
    BY DEF Target, Keep
  <1>4. Firm /\ ~base[c].late => StatusStage(c)
    BY <1>0, <1>2 DEF StageInv, Stage
  <1>5. CASE StatusCheck(c)
    <2>1. CASE Leave(c)
      BY <1>0, <1>1, <2>1, LeaveStep
    <2>2. CASE Allowed(c) /\ base' = [base EXCEPT ![c].old = Live]
               /\ Goto(c, "statusSessions") /\ UNCHANGED <<wr, job, seen>>
      <3>1. /\ pc[c] = "statusCheck" /\ pc'[c] = "statusSessions"
            /\ base'[c].st = base[c].st /\ base'[c].old = Live /\ base'[c].late = base[c].late
            /\ \A q \in Thread : q # c => pc'[q] = pc[q] /\ base'[q] = base[q]
        BY <1>0, <1>5, <2>2, GotoEffect DEF StatusCheck, TypeOK
      <3>2. Kind(c)' = Kind(c) /\ Target(c)' = Target(c)
        BY <2>2 DEF Kind, Target
      <3>3. Lawful(c)'
        BY <1>0, <1>1, <1>2, <2>2, <3>1, <3>2 DEF Lawful, Labels, Live
      <3>4. status[Exam] # "14" /\ status[Exam] \in From(c)
        BY <2>2 DEF Allowed, From
      <3>5. Firm => Stage(c)'
        BY <1>1, <1>2, <1>4, <2>2, <3>1, <3>2, <3>4 DEF Stage, StatusStage, Clear, From, None
      <3>6. QED
        BY <1>0, <1>1, <2>2, <3>1, <3>3, <3>5, OwnStep
    <2>3. QED
      BY <1>5, <2>1, <2>2 DEF StatusCheck
  <1>6. CASE StatusSessions(c)
    <2>1. /\ pc[c] = "statusSessions" /\ pc'[c] = "statusExam"
          /\ job' = job /\ seen' = seen
          /\ \A q \in Thread : q # c => pc'[q] = pc[q]
      BY <1>0, <1>6, GotoEffect DEF StatusSessions
    <2>7. /\ base'[c].st = base[c].st /\ base'[c].late = Misses(c)
          /\ \A s \in base'[c].old : status[s] # None
          /\ \A q \in Thread : q # c => base'[q] = base[q]
      <3>1. base \in [Thread -> Base]
        BY <1>0 DEF TypeOK
      <3>2. PICK old : /\ \A s \in old : status[s] # None
                       /\ base' = [base EXCEPT ![c].old = old, ![c].rows = {}, ![c].late = Misses(c)]
        <4>1. \A s \in base[c].old : status[s] # None
          BY <1>0 DEF Lawful
        <4>2. CASE Kind(c) = "void"
          BY <1>6, <4>2 DEF StatusSessions
        <4>3. CASE Kind(c) # "void"
          BY <1>6, <4>1, <4>3 DEF StatusSessions
        <4>4. QED
          BY <4>2, <4>3
      <3>3. QED
        BY <1>0, <3>1, <3>2 DEF Base
    <2>2. /\ \A r \in Row : wr'[c][r] = IF r \in Matched(c) THEN Target(c) ELSE wr[c][r]
          /\ \A q \in Thread : q # c => wr'[q] = wr[q]
      BY <1>0, <1>6, WriteEffect DEF StatusSessions
    <2>3. Kind(c)' = Kind(c) /\ Target(c)' = Target(c) /\ From(c)' = From(c)
      BY <2>1 DEF Kind, Target, From
    <2>4. Lawful(c)'
      <3>1. ASSUME NEW s \in Session
            PROVE  /\ wr'[c][s] = IF s \in Matched(c) THEN Target(c) ELSE wr[c][s]
                   /\ s \in Matched(c) => s \in Undeleted /\ status[s] # None
        BY <1>0, <2>2, MatchedType DEF Undeleted
      <3>2. QED
        BY <1>0, <1>1, <1>2, <2>1, <2>3, <2>7, <3>1 DEF Lawful, Labels
    <2>5. ASSUME Firm, ~base'[c].late PROVE Stage(c)'
      <3>0. ~base[c].late /\ Matched(c) = Undeleted
        BY <1>0, <2>1, <2>5, <2>7, MatchedAll DEF Lawful
      <3>1. Clear(c) /\ StatusStage(c)
        BY <1>4, <2>1, <2>5, <3>0 DEF StatusStage
      <3>2. Covers(c, Target(c))' /\ wr'[c][Exam] = Keep
        BY <1>0, <1>1, <2>2, <2>3, <3>0, <3>1 DEF Covers, Clear
      <3>3. QED
        BY <1>1, <1>2, <2>1, <2>3, <3>1, <3>2 DEF Stage, StatusStage, None
    <2>6. QED
      <3>1. Firm => Stage(c)'
        BY <2>5 DEF Stage
      <3>2. QED
        BY <1>0, <1>1, <2>1, <2>2, <2>4, <2>7, <3>1, OwnStep
  <1>7. CASE StatusExam(c)
    <2>1. CASE Leave(c)
      BY <1>0, <1>1, <2>1, LeaveStep
    <2>2. CASE /\ seen[c] /\ status[Exam] # "12"
               /\ Write(c, {Exam}, Target(c)) /\ Goto(c, "commit")
               /\ UNCHANGED <<job, base, seen>>
      <3>1. /\ pc[c] = "statusExam" /\ pc'[c] = "commit"
            /\ \A q \in Thread : q # c => pc'[q] = pc[q]
        BY <1>0, <1>7, <2>2, GotoEffect DEF StatusExam
      <3>2. /\ \A r \in Row : wr'[c][r] = IF r = Exam THEN Target(c) ELSE wr[c][r]
            /\ \A q \in Thread : q # c => wr'[q] = wr[q]
        BY <1>0, <2>2, WriteEffect
      <3>3. Kind(c)' = Kind(c) /\ Target(c)' = Target(c) /\ From(c)' = From(c)
        BY <2>2 DEF Kind, Target, From
      <3>4. Lawful(c)'
        BY <1>0, <1>1, <1>2, <2>2, <3>1, <3>2, <3>3 DEF Lawful, Labels
      <3>5. Firm /\ ~base[c].late => Covers(c, Target(c))'
        BY <1>0, <1>1, <1>4, <2>2, <3>1, <3>2, <3>3 DEF StatusStage, Covers
      <3>6. Firm => Stage(c)'
        BY <1>0, <1>1, <1>2, <1>4, <2>2, <3>1, <3>2, <3>3, <3>5 DEF Stage, StatusStage, None
      <3>7. QED
        BY <1>0, <1>1, <2>2, <3>1, <3>2, <3>4, <3>6, OwnStep
    <2>3. QED
      BY <1>7, <2>1, <2>2 DEF StatusExam
  <1>8. QED
    BY <1>5, <1>6, <1>7

LEMMA DeleteStages ==
  ASSUME StageInv, LockInv', NEW c \in Caller, DelSessions(c) \/ DelExam(c)
  PROVE  StageInv'
  <1>0. c \in Thread /\ TypeOK /\ Lawful(c) /\ Exam \in Row /\ Exam \notin Session /\ Session \subseteq Row
    BY RowIsExamOrSession DEF Thread, StageInv, LockInv
  <1>1. /\ status' = status /\ roll' = roll /\ overtaken' = overtaken /\ job' = job /\ seen' = seen
        /\ Undeleted' = Undeleted /\ Undeleted \subseteq Session
    BY DEF DelSessions, DelExam, data, frame, Undeleted
  <1>2. Kind(c) = "delete" /\ Kind(c)' = "delete"
    BY <1>0, <1>1, KindOf DEF DelSessions, DelExam, Lawful, Kind
  <1>3. Firm /\ ~base[c].late => DeleteStage(c)
    BY <1>0, <1>2 DEF StageInv, Stage
  <1>4. \A s \in Undeleted : status[s] \in {"00", "02", "04", "06", "16"}
    BY DEF Undeleted, StageInv, SessionCodes
  <1>5. CASE DelSessions(c)
    <2>1. /\ pc[c] = "delSessions" /\ pc'[c] = "delExam"
          /\ \A q \in Thread : q # c => pc'[q] = pc[q]
      BY <1>0, <1>5, GotoEffect DEF DelSessions
    <2>7. /\ base'[c].st = base[c].st /\ base'[c].old = base[c].old /\ base'[c].late = Misses(c)
          /\ \A q \in Thread : q # c => base'[q] = base[q]
      <3>1. base \in [Thread -> Base]
        BY <1>0 DEF TypeOK
      <3>2. QED
        BY <1>0, <1>5, <3>1 DEF DelSessions, Base
    <2>2. /\ \A r \in Row : wr'[c][r] = IF r \in Matched(c) THEN "14" ELSE wr[c][r]
          /\ \A q \in Thread : q # c => wr'[q] = wr[q]
      BY <1>0, <1>5, WriteEffect DEF DelSessions
    <2>3. \A s \in Undeleted : "14" \in Onward(status[s])
      BY <1>4 DEF Onward, None
    <2>4. Lawful(c)'
      <3>1. ASSUME NEW s \in Session
            PROVE  /\ wr'[c][s] = IF s \in Matched(c) THEN "14" ELSE wr[c][s]
                   /\ s \in Matched(c) => "14" \in Onward(status[s]) /\ status[s] # None
        BY <1>0, <2>2, <2>3, MatchedType DEF Undeleted
      <3>2. QED
        BY <1>0, <1>1, <1>2, <2>1, <2>7, <3>1 DEF Lawful, Labels
    <2>5. ASSUME Firm, ~base'[c].late PROVE Stage(c)'
      <3>0. ~base[c].late /\ Matched(c) = Undeleted
        BY <1>0, <2>1, <2>5, <2>7, MatchedAll DEF Lawful
      <3>1. Clear(c) /\ DeleteStage(c)
        BY <1>3, <2>1, <2>5, <3>0 DEF DeleteStage
      <3>2. Covers(c, "14")' /\ wr'[c][Exam] = Keep
        BY <1>0, <1>1, <2>2, <3>0, <3>1 DEF Covers, Clear
      <3>3. QED
        BY <1>1, <1>2, <2>1, <3>1, <3>2 DEF Stage, DeleteStage, None
    <2>6. QED
      <3>1. Firm => Stage(c)'
        BY <2>5 DEF Stage
      <3>2. QED
        BY <1>0, <1>1, <2>1, <2>2, <2>4, <2>7, <3>1, OwnStep
  <1>6. CASE DelExam(c)
    <2>1. /\ pc[c] = "delExam" /\ pc'[c] = "commit" /\ base' = base
          /\ \A q \in Thread : q # c => pc'[q] = pc[q]
      BY <1>0, <1>6, GotoEffect DEF DelExam
    <2>2. /\ \A r \in Row : wr'[c][r] = IF r = Exam /\ status[r] # "12" THEN "12" ELSE wr[c][r]
          /\ \A q \in Thread : q # c => wr'[q] = wr[q]
      BY <1>0, <1>6, WriteEffect DEF DelExam
    <2>3. Lawful(c)'
      BY <1>0, <1>1, <1>2, <2>1, <2>2 DEF Lawful, Labels
    <2>4. ASSUME Firm, ~base[c].late PROVE Stage(c)'
      <3>1. Covers(c, "14")'
        BY <1>0, <1>1, <1>3, <2>1, <2>2, <2>4 DEF DeleteStage, Covers
      <3>2. QED
        BY <1>0, <1>1, <1>2, <1>3, <2>1, <2>2, <2>4, <3>1 DEF Stage, DeleteStage, None, Firm
    <2>5. QED
      <3>1. Firm => Stage(c)'
        BY <2>1, <2>4 DEF Stage
      <3>2. QED
        BY <1>0, <1>1, <2>1, <2>2, <2>3, <3>1, OwnStep
  <1>7. QED
    BY <1>5, <1>6

LEMMA CallerStages ==
  ASSUME StageInv, LockInv', NEW c \in Caller, CallerStep(c)
  PROVE  StageInv'
  BY PutStages, StatusStages, DeleteStages DEF CallerStep

LEMMA TakeStages ==
  ASSUME StageInv, LockInv', NEW w \in Worker, NEW k \in Key, Take(w, k)
  PROVE  StageInv'
  <1>0. w \in Thread /\ TypeOK /\ Lawful(w)
    BY DEF Thread, StageInv, LockInv
  <1>1. /\ wr' = wr /\ status' = status /\ roll' = roll /\ overtaken' = overtaken /\ base' = base /\ seen' = seen
        /\ pc[w] = "idle" /\ pc'[w] = (IF k[1] = "start" THEN "startSession" ELSE "endSession")
        /\ job'[w] = k
        /\ \A q \in Thread : q # w => pc'[q] = pc[q] /\ job'[q] = job[q]
    BY <1>0, GotoEffect DEF Take, data, frame, TypeOK
  <1>2. Kind(w) = None /\ (Firm => Clear(w) /\ Clear(w)')
    BY <1>0, <1>1, KindOf, IdleClear DEF Lawful, Clear
  <1>3. Kind(w)' = k[1] /\ k[1] \in {"start", "end"} /\ k[2] \in Session
    BY <1>1 DEF Kind, Key
  <1>4. Lawful(w)'
    BY <1>0, <1>1, <1>2, <1>3 DEF Lawful, Labels, None, Undeleted
  <1>5. Firm => Stage(w)'
    BY <1>1, <1>2, <1>3 DEF Stage, StartStage, EndStage, None
  <1>6. QED
    BY <1>0, <1>1, <1>4, <1>5, OwnStep

LEMMA StartStages ==
  ASSUME StageInv, LockInv', NEW w \in Worker, StartRead(w) \/ StartEmpty(w) \/ StartSession(w) \/ StartExam(w)
  PROVE  StageInv'
  <1> DEFINE s == job[w][2]
  <1>0. w \in Thread /\ TypeOK /\ Lawful(w) /\ Exam \in Row /\ Exam \notin Session /\ Session \subseteq Row
    BY RowIsExamOrSession DEF Thread, StageInv, LockInv
  <1>1. /\ status' = status /\ roll' = roll /\ overtaken' = overtaken /\ job' = job /\ seen' = seen
        /\ Undeleted' = Undeleted /\ Undeleted \subseteq Session /\ Live \subseteq Undeleted
    BY DEF StartRead, StartEmpty, StartSession, StartExam, data, frame, Undeleted, Live
  <1>2. Kind(w) = "start" /\ Kind(w)' = "start" /\ s \in Session
    BY <1>0, <1>1, KindOf DEF StartRead, StartEmpty, StartSession, StartExam, Lawful, Kind
  <1>3. /\ pc[w] \in {"startSession", "startEmpty", "startExam"} /\ ~base[w].late
        /\ Firm => StartStage(w) /\ ExamRows
    BY <1>0, <1>2 DEF StageInv, Stage, Lawful, StartRead, StartEmpty, StartSession, StartExam
  <1>8. CASE StartRead(w)
    <2>1. /\ pc[w] = "startSession" /\ pc'[w] = "startEmpty" /\ wr' = wr /\ base' = base
          /\ \A q \in Thread : q # w => pc'[q] = pc[q]
      BY <1>0, <1>8, GotoEffect DEF StartRead
    <2>2. Lawful(w)'
      BY <1>0, <1>1, <1>2, <1>3, <2>1 DEF Lawful, Labels
    <2>3. Firm => Stage(w)'
      BY <1>2, <1>3, <2>1 DEF Stage, StartStage, Clear, None
    <2>4. QED
      BY <1>0, <1>1, <2>1, <2>2, <2>3, OwnStep
  <1>4. CASE StartEmpty(w)
    <2>1. /\ pc[w] = "startEmpty" /\ pc'[w] = "commit" /\ status[Exam] = "02"
          /\ \A q \in Thread : q # w => pc'[q] = pc[q]
      BY <1>0, <1>4, GotoEffect DEF StartEmpty
    <2>2. /\ \A r \in Row : wr'[w][r] = IF r = Exam THEN "10" ELSE wr[w][r]
          /\ \A q \in Thread : q # w => wr'[q] = wr[q]
      BY <1>0, <1>4, WriteEffect DEF StartEmpty
    <2>7. /\ base'[w].st = base[w].st /\ base'[w].old = base[w].old
          /\ base'[w].late = ~NoExaminee(w)
          /\ \A q \in Thread : q # w => base'[q] = base[q]
      <3>1. base \in [Thread -> Base]
        BY <1>0 DEF TypeOK
      <3>2. QED
        BY <1>0, <1>4, <3>1 DEF StartEmpty, Base
    <2>3. Lawful(w)'
      BY <1>0, <1>1, <1>2, <2>1, <2>2, <2>7 DEF Lawful, Labels
    <2>4. ASSUME Firm, ~base'[w].late PROVE Empties(w)'
      <3>0. s \in Live /\ roll[s] = "none"
        BY <2>4, <2>7 DEF NoExaminee
      <3>1. Clear(w) /\ ExamRows
        BY <1>3, <2>1, <2>4 DEF StartStage
      <3>2. \A t \in Undeleted : roll[t] = "none"
        BY <1>1, <3>0, <3>1 DEF ExamRows
      <3>3. QED
        BY <1>0, <1>1, <2>1, <2>2, <3>1, <3>2 DEF Empties, NoSessions, Clear
    <2>5. Firm => Stage(w)'
      BY <1>2, <2>1, <2>4 DEF Stage, StartStage, None
    <2>6. QED
      BY <1>0, <1>1, <2>1, <2>2, <2>3, <2>5, <2>7, OwnStep
  <1>5. CASE StartSession(w)
    <2>1. /\ pc[w] = "startSession" /\ pc'[w] = "startExam" /\ status[s] = "02" /\ base' = base
          /\ s \in Live /\ roll[s] # "none"
          /\ \A q \in Thread : q # w => pc'[q] = pc[q]
      BY <1>0, <1>5, GotoEffect DEF StartSession
    <2>2. /\ \A r \in Row : wr'[w][r] = IF r = s THEN "04" ELSE wr[w][r]
          /\ \A q \in Thread : q # w => wr'[q] = wr[q]
      BY <1>0, <1>5, WriteEffect DEF StartSession
    <2>3. "04" \in Onward(status[s])
      BY <2>1 DEF Onward, None
    <2>4. Lawful(w)'
      BY <1>0, <1>1, <1>2, <2>1, <2>2, <2>3 DEF Lawful, Labels, None
    <2>5. ASSUME Firm PROVE Begins(w, s)' /\ wr'[w][Exam] = Keep
      <3>1. Clear(w) /\ ExamRows
        BY <1>3, <2>1, <2>5 DEF StartStage
      <3>2. "02" \in SessionsOf(status[Exam]) /\ status[Exam] # "10"
        BY <1>1, <2>1, <3>1 DEF ExamRows
      <3>3. status[Exam] \in {"02", "04"}
        BY <3>2 DEF SessionsOf
      <3>4. QED
        BY <1>0, <1>1, <1>2, <2>1, <2>2, <3>1, <3>3 DEF Begins, Only, Clear
    <2>6. Firm => Stage(w)'
      BY <1>1, <1>2, <2>1, <2>5 DEF Stage, StartStage, None
    <2>7. QED
      BY <1>0, <1>1, <2>1, <2>2, <2>4, <2>6, OwnStep
  <1>6. CASE StartExam(w)
    <2>1. /\ pc[w] = "startExam" /\ pc'[w] = "commit" /\ base' = base
          /\ \A q \in Thread : q # w => pc'[q] = pc[q]
      BY <1>0, <1>6, GotoEffect DEF StartExam
    <2>2. /\ \A r \in Row : wr'[w][r] = IF r = Exam /\ status[Exam] = "02" THEN "04" ELSE wr[w][r]
          /\ \A q \in Thread : q # w => wr'[q] = wr[q]
      BY <1>0, <1>6, WriteEffect DEF StartExam
    <2>3. Lawful(w)'
      BY <1>0, <1>1, <1>2, <2>1, <2>2 DEF Lawful, Labels
    <2>4. ASSUME Firm
          PROVE  Begins(w, s)' /\ wr'[w][Exam] = IF status[Exam] = "02" THEN "04" ELSE Keep
      <3>1. Begins(w, s) /\ wr[w][Exam] = Keep
        BY <1>3, <2>1, <2>4 DEF StartStage
      <3>2. QED
        BY <1>0, <1>1, <1>2, <2>2, <3>1 DEF Begins, Only
    <2>5. Firm => Stage(w)'
      BY <1>1, <1>2, <2>1, <2>4 DEF Stage, StartStage, None
    <2>6. QED
      BY <1>0, <1>1, <2>1, <2>2, <2>3, <2>5, OwnStep
  <1>7. QED
    BY <1>4, <1>5, <1>6, <1>8

LEMMA EndStages ==
  ASSUME StageInv, LockInv', NEW w \in Worker, EndSession(w) \/ EndExam(w)
  PROVE  StageInv'
  <1> DEFINE s == job[w][2]
  <1>0. w \in Thread /\ TypeOK /\ Lawful(w) /\ Exam \in Row /\ Exam \notin Session /\ Session \subseteq Row
    BY RowIsExamOrSession DEF Thread, StageInv, LockInv
  <1>1. /\ status' = status /\ roll' = roll /\ overtaken' = overtaken /\ job' = job /\ seen' = seen
        /\ Undeleted' = Undeleted /\ Undeleted \subseteq Session
    BY DEF EndSession, EndExam, data, frame, Undeleted
  <1>2. Kind(w) = "end" /\ Kind(w)' = "end" /\ s \in Session
    BY <1>0, <1>1, KindOf DEF EndSession, EndExam, Lawful, Kind
  <1>3. /\ pc[w] \in {"endSession", "endExam"} /\ ~base[w].late
        /\ Firm => EndStage(w) /\ ExamRows
    BY <1>0, <1>2 DEF StageInv, Stage, Lawful, EndSession, EndExam
  <1>4. CASE EndSession(w)
    <2> DEFINE to == IF status[s] \in {"02", "04"} /\ Ends[s] <= now THEN "06" ELSE status[s]
    <2>1. /\ pc[w] = "endSession" /\ pc'[w] = "endExam" /\ base' = base
          /\ \A q \in Thread : q # w => pc'[q] = pc[q]
      BY <1>0, <1>4, GotoEffect DEF EndSession
    <2>2. Write(w, {s}, to)
      BY <1>4 DEF EndSession
    <2>3. to = status[s] \/ (status[s] \in {"02", "04"} /\ to = "06" /\ to \in Onward(status[s]))
      BY DEF Onward, None
    <2> HIDE DEF to
    <2>4. /\ \A r \in Row : wr'[w][r] = IF r = s THEN to ELSE wr[w][r]
          /\ \A q \in Thread : q # w => wr'[q] = wr[q]
      BY <1>0, <2>2, WriteEffect
    <2>5. Lawful(w)'
      BY <1>0, <1>1, <1>2, <2>1, <2>3, <2>4 DEF Lawful, Labels, None
    <2>6. ASSUME Firm PROVE Stage(w)'
      <3>1. Clear(w)
        BY <1>3, <2>1, <2>6 DEF EndStage
      <3>2. Only(w, s)' /\ wr'[w][Exam] = Keep /\ wr'[w][s] = to
        BY <1>0, <1>1, <1>2, <2>4, <3>1 DEF Only, Clear
      <3>3. QED
        BY <1>1, <1>2, <2>1, <2>3, <3>2 DEF Stage, EndStage, None
    <2>7. QED
      BY <1>0, <1>1, <2>1, <2>4, <2>5, <2>6, OwnStep
  <1>5. CASE EndExam(w)
    <2>1. /\ pc[w] = "endExam" /\ pc'[w] = "commit"
          /\ \A q \in Thread : q # w => pc'[q] = pc[q]
      BY <1>0, <1>5, GotoEffect DEF EndExam
    <2>7. /\ base'[w].st = base[w].st /\ base'[w].old = base[w].old
          /\ base'[w].late = (Closes(w) /\ ~ExamOver(w))
          /\ \A q \in Thread : q # w => base'[q] = base[q]
      <3>1. base \in [Thread -> Base]
        BY <1>0 DEF TypeOK
      <3>2. QED
        BY <1>0, <1>5, <3>1 DEF EndExam, Base
    <2>2. /\ \A r \in Row : wr'[w][r] = IF r = Exam /\ Closes(w) THEN "06" ELSE wr[w][r]
          /\ \A q \in Thread : q # w => wr'[q] = wr[q]
      BY <1>0, <1>5, WriteEffect DEF EndExam
    <2>3. Lawful(w)'
      BY <1>0, <1>1, <1>2, <2>1, <2>2, <2>7 DEF Lawful, Labels
    <2>4. ASSUME Firm, ~base'[w].late PROVE Stage(w)'
      <3>0. Closes(w) => ExamOver(w)
        BY <2>4, <2>7
      <3>1. /\ Only(w, s) /\ wr[w][Exam] = Keep
            /\ wr[w][s] = status[s] \/ (status[s] \in {"02", "04"} /\ wr[w][s] = "06")
        BY <1>3, <2>1, <2>4 DEF EndStage
      <3>2. /\ Only(w, s)' /\ wr'[w][s] = wr[w][s]
            /\ wr'[w][Exam] = IF Closes(w) THEN "06" ELSE Keep
        BY <1>0, <1>1, <1>2, <2>2, <3>1 DEF Only
      <3>3. ASSUME ExamOver(w), NEW t \in Undeleted
            PROVE  (IF t = s THEN wr[w][t] ELSE status[t]) = "06"
        <4>1. status[Exam] \in {"02", "04"} /\ status[t] \in SessionsOf(status[Exam])
          BY <1>3, <2>4, <3>3 DEF ExamOver, ExamRows
        <4>2. status[t] \in {"02", "04", "06"}
          BY <4>1 DEF SessionsOf
        <4>3. IF wr[w][t] # Keep THEN wr[w][t] \notin {"02", "04"} ELSE status[t] \notin {"02", "04"}
          BY <1>1, <3>3 DEF ExamOver
        <4>4. CASE t = s
          BY <3>1, <4>2, <4>3, <4>4 DEF Keep
        <4>5. CASE t # s
          BY <1>1, <3>1, <4>2, <4>3, <4>5 DEF Only
        <4>6. QED
          BY <4>4, <4>5
      <3>4. ExamOver(w) => status[Exam] \in {"02", "04"}
        BY DEF ExamOver
      <3>5. \A t \in Undeleted : wr'[w][t] = wr[w][t]
        BY <1>0, <1>1, <2>2
      <3>6. QED
        BY <1>1, <1>2, <2>1, <3>0, <3>1, <3>2, <3>3, <3>4, <3>5 DEF Stage, EndStage, None
    <2>5. Firm => Stage(w)'
      BY <2>4 DEF Stage
    <2>6. QED
      BY <1>0, <1>1, <2>1, <2>2, <2>3, <2>5, <2>7, OwnStep
  <1>6. QED
    BY <1>4, <1>5

LEMMA WorkerStages ==
  ASSUME StageInv, LockInv', NEW w \in Worker, WorkerStep(w)
  PROVE  StageInv'
  <1>1. w \in Thread
    BY DEF Thread
  <1>2. CASE StartRefused(w)
    BY <1>1, <1>2, LeaveStep DEF StartRefused, data, frame
  <1>3. CASE EndRearm(w)
    BY <1>1, <1>3, LeaveStep DEF EndRearm, data, frame
  <1>4. QED
    BY <1>2, <1>3, StartStages, EndStages DEF WorkerStep

(* To wait for a lock changes only what the statement will look at again.       *)
LEMMA AwaitStages ==
  ASSUME StageInv, LockInv', NEW p \in Thread, Await(p)
  PROVE  StageInv'
  <1>0. TypeOK /\ Lawful(p) /\ (Firm => Stage(p)) /\ base \in [Thread -> Base]
    BY DEF StageInv, LockInv, TypeOK
  <1>1. status' = status /\ roll' = roll /\ overtaken' = overtaken /\ Undeleted' = Undeleted
        /\ wr' = wr /\ pc' = pc /\ job' = job /\ seen' = seen
    BY DEF Await, data, frame, Undeleted
  <1>2. /\ base'[p].st = base[p].st /\ base'[p].old = base[p].old /\ base'[p].late = base[p].late
        /\ \A q \in Thread : q # p => base'[q] = base[q]
    BY <1>0 DEF Await, Base
  <1>3. Kind(p)' = Kind(p) /\ Target(p)' = Target(p) /\ Labels(p)' = Labels(p)
        /\ PutStatus(p)' = PutStatus(p) /\ From(p)' = From(p)
    BY <1>1, <1>2 DEF Kind, Target, Labels, PutStatus, From
  <1>4. Lawful(p)'
    BY <1>0, <1>1, <1>2, <1>3 DEF Lawful
  <1>5. ASSUME Firm, ~base[p].late PROVE Stage(p)'
    <2>1. /\ Clear(p) => Clear(p)'
          /\ Kind(p) = "put" /\ PutStage(p) => PutStage(p)'
          /\ DeleteStage(p) => DeleteStage(p)'
      BY <1>1, <1>3 DEF Clear, PutStage, NoSessions, Replaces, DeleteStage, Covers
    <2>2. StatusStage(p) => StatusStage(p)'
      BY <1>1, <1>3 DEF StatusStage, Clear, Covers
    <2>3. (StartStage(p) => StartStage(p)') /\ (EndStage(p) => EndStage(p)')
      BY <1>1 DEF StartStage, Begins, Empties, NoSessions, Only, EndStage, Clear
    <2>4. QED
      BY <1>0, <1>2, <1>3, <1>5, <2>1, <2>2, <2>3 DEF Stage
  <1>6. Firm => Stage(p)'
    BY <1>2, <1>5 DEF Stage
  <1>7. QED
    BY <1>1, <1>2, <1>4, <1>6, OwnStep

(* A commit makes what the transaction wrote true and leaves the rest as it is. *)
LEMMA CommitEffect ==
  ASSUME StageInv, NEW p \in Thread, Commit(p)
  PROVE  /\ \A r \in Row : status'[r] = IF wr[p][r] = Keep THEN status[r] ELSE wr[p][r]
         /\ \A s \in Session : roll'[s] = NewRoll(p, s)
         /\ Lawful(p)' /\ Stage(p)' /\ pc[p] = "commit"
         /\ \A q \in Thread : q # p => /\ pc'[q] = pc[q] /\ job'[q] = job[q]
                                       /\ base'[q] = base[q] /\ wr'[q] = wr[q]
                                       /\ (seen'[q] <=> seen[q] /\ ~Bumps(p))
                                       /\ \A r \in Row : wr[q][r] # Keep =>
                                            wr[p][r] = Keep /\ status'[r] = status[r]
  <1>1. TypeOK /\ Finish(p)
    BY DEF Commit, StageInv, LockInv
  <1>2. Lawful(p)' /\ Stage(p)'
    BY <1>1, FinishEffect, OverStage
  <1>3. \A r \in Row : status'[r] = IF wr[p][r] = Keep THEN status[r] ELSE wr[p][r]
    BY DEF Commit
  <1>4. \A q \in Thread, r \in Row : q # p /\ wr[q][r] # Keep => wr[p][r] = Keep
    BY DEF StageInv, LockInv, LockExclusive
  <1>5. \A q \in Thread : q # p => (seen'[q] <=> seen[q] /\ ~Bumps(p))
    BY DEF Commit
  <1>6. QED
    BY <1>1, <1>2, <1>3, <1>4, <1>5, FinishEffect DEF Commit

(* What may become of a row and of the examinees of a session in a commit.     *)
LEMMA CommitLawful ==
  ASSUME StageInv, NEW p \in Thread, Commit(p)
  PROVE  /\ \A s \in Session : status'[s] \in SessionCodes
         /\ \A s \in Session : status[s] # None => status'[s] # None
         /\ Kind(p) # "put" => \A s \in Session : status[s] = None => status'[s] = None
         /\ \A q \in Thread : Lawful(q)'
         /\ status[Exam] = "12" => status'[Exam] = "12"
  <1>0. Lawful(p) /\ TypeOK /\ Exam \in Row /\ Session \subseteq Row /\ Exam \notin Session
    BY RowIsExamOrSession DEF StageInv, LockInv
  <1>1. ASSUME NEW s \in Session
        PROVE  status'[s] \in SessionCodes /\ (status[s] # None => status'[s] # None)
    <2>1. status[s] \in SessionCodes /\ Target(p) \in {"02", "16"}
      BY DEF StageInv, Target
    <2>2. \A x \in Onward(status[s]) : x \in SessionCodes /\ x # None
      BY DEF Onward, SessionCodes, None
    <2>3. wr[p][s] # Keep => wr[p][s] = status[s] \/ wr[p][s] \in SessionCodes \ {None}
      BY <1>0, <2>1, <2>2 DEF Lawful, SessionCodes, None
    <2>4. QED
      BY <1>0, <2>1, <2>3, CommitEffect
  <1>2. ASSUME NEW q \in Thread PROVE Lawful(q)'
    <2>1. CASE q = p
      BY <2>1, CommitEffect
    <2>2. CASE q # p
      <3>1. /\ pc'[q] = pc[q] /\ job'[q] = job[q] /\ base'[q] = base[q] /\ wr'[q] = wr[q]
            /\ \A r \in Row : wr[q][r] # Keep => status'[r] = status[r]
        BY <2>2, CommitEffect
      <3>2. Kind(q)' = Kind(q) /\ Target(q)' = Target(q) /\ Labels(q)' = Labels(q) /\ Lawful(q)
        BY <3>1 DEF Kind, Target, Labels, StageInv
      <3>3. \A s \in Session : status'[s] = status[s] => (s \in Undeleted <=> s \in Undeleted')
        BY DEF Undeleted
      <3>4. \A s \in base[q].old : s \in Session
        <4>1. base \in [Thread -> Base]
          BY <1>0 DEF TypeOK
        <4>2. QED
          BY <4>1 DEF Base
      <3>5. QED
        BY <1>0, <1>1, <3>1, <3>2, <3>3, <3>4 DEF Lawful
    <2>3. QED
      BY <2>1, <2>2
  <1>3. status[Exam] = "12" => status'[Exam] = "12"
    BY <1>0, CommitEffect DEF StageInv, LockInv, DeletedKept, Gone
  <1>4. ASSUME Kind(p) # "put", NEW s \in Session, status[s] = None
        PROVE  status'[s] = None
    BY <1>0, <1>4, CommitEffect DEF Lawful
  <1>5. QED
    BY <1>1, <1>2, <1>3, <1>4

(* A PUT, a publish and a void hold the exam and all its sessions when they    *)
(* commit: whoever is under way has written nothing of them.                   *)
LEMMA WholeCommit ==
  ASSUME StageInv, NEW p \in Thread, Commit(p), Firm, ~base[p].late,
         Kind(p) \in {"put", "publish", "void"}
  PROVE  /\ \A r \in Undeleted \cup {Exam} : wr[p][r] # Keep
         /\ status'[Exam] = wr[p][Exam]
         /\ status'[Exam] = (IF Kind(p) = "put" THEN PutStatus(p) ELSE Target(p))
         /\ status'[Exam] \in {"00", "02", "16"}
         /\ \A q \in Thread : q # p /\ seen'[q] => status'[Exam] = "00"
  <1>0. pc[p] = "commit" /\ Stage(p) /\ Lawful(p) /\ Exam \in Row /\ Undeleted \subseteq Session
        /\ Session \subseteq Row
    BY RowIsExamOrSession, CommitEffect DEF StageInv, Undeleted
  <1>1. CASE Kind(p) = "put"
    <2>1. PutStage(p) /\ base[p].st \in {"00", "02", "14"}
      BY <1>0, <1>1 DEF Stage, Lawful
    <2>2. PutStatus(p) \in {"00", "02"} /\ (base[p].st # "02" => PutStatus(p) = "00")
      BY <2>1 DEF PutStatus
    <2>3. wr[p][Exam] = PutStatus(p) /\ \A s \in Undeleted : wr[p][s] = "14"
      BY <1>0, <2>1 DEF PutStage, Replaces
    <2>4. Bumps(p) <=> base[p].st = "02"
      BY <1>1, <2>2, <2>3 DEF Bumps, Keep
    <2>5. QED
      BY <1>0, <1>1, <2>2, <2>3, <2>4, CommitEffect DEF Keep
  <1>2. CASE Kind(p) \in {"publish", "void"}
    <2>1. StatusStage(p)
      BY <1>0, <1>2 DEF Stage
    <2>2. Target(p) \in {"02", "16"}
      BY DEF Target
    <2>3. wr[p][Exam] = Target(p) /\ \A s \in Undeleted : wr[p][s] = Target(p)
      BY <1>0, <2>1 DEF StatusStage, Covers
    <2>4. Bumps(p)
      BY <1>2, <2>2, <2>3 DEF Bumps, Keep
    <2>5. QED
      BY <1>0, <1>2, <2>2, <2>3, <2>4, CommitEffect DEF Keep
  <1>3. QED
    BY <1>1, <1>2

LEMMA WholeCommitOthers ==
  ASSUME StageInv, NEW p \in Thread, Commit(p), Firm, ~base[p].late,
         Kind(p) \in {"put", "publish", "void"}, NEW q \in Thread, q # p, ~base[q].late
  PROVE  Stage(q)'
  <1>0. /\ Stage(q) /\ Lawful(q) /\ ExamRows /\ TypeOK
        /\ Exam \in Row /\ Undeleted \subseteq Session /\ Session \subseteq Row
    BY RowIsExamOrSession DEF StageInv, Undeleted, LockInv
  <1>1. /\ pc'[q] = pc[q] /\ job'[q] = job[q] /\ base'[q] = base[q] /\ wr'[q] = wr[q]
        /\ seen'[q] => seen[q] /\ status'[Exam] = "00"
        /\ \A r \in Row : wr[q][r] # Keep => status'[r] = status[r]
    BY CommitEffect, WholeCommit
  <1>2. \A r \in Undeleted \cup {Exam} : wr[q][r] = Keep
    BY <1>0, CommitEffect, WholeCommit
  <1>3. status'[Exam] \in {"00", "02", "16"}
    BY WholeCommit
  <1>4. Kind(q)' = Kind(q) /\ From(q)' = From(q) /\ "00" \in From(q)
    BY <1>1 DEF Kind, From
  <1>5. status[Exam] # "14" => \E s \in Undeleted : wr[q][s] = Keep
    BY <1>0, <1>2 DEF ExamRows
  <1>6. Clear(q) => Clear(q)'
    BY <1>1 DEF Clear
  <1>7. CASE Kind(q) = "put"
    <2>1. PutStage(q) /\ base[q].st \in {"00", "02", "14"}
      BY <1>0, <1>7 DEF Stage, Lawful
    <2>2. PutStatus(q) # Keep
      BY <2>1 DEF PutStatus, Keep
    <2>3. pc[q] \notin {"putSessions", "putCheck", "commit"}
      BY <1>2, <2>1, <2>2 DEF PutStage
    <2>4. QED
      BY <1>1, <1>4, <1>6, <1>7, <2>1, <2>3 DEF Stage, PutStage, None
  <1>8. CASE Kind(q) \in {"publish", "void"}
    <2>1. StatusStage(q) /\ Target(q) # Keep
      BY <1>0, <1>8 DEF Stage, Target, Keep
    <2>2. pc[q] \notin {"statusExam", "commit"}
      BY <1>5, <2>1, <1>0 DEF StatusStage, Covers
    <2>3. QED
      BY <1>1, <1>3, <1>4, <1>6, <1>8, <2>1, <2>2 DEF Stage, StatusStage, None
  <1>9. CASE Kind(q) = "delete"
    <2>1. DeleteStage(q)
      BY <1>0, <1>9 DEF Stage
    <2>2. pc[q] \notin {"delExam", "commit"}
      BY <1>5, <2>1, <1>0 DEF DeleteStage, Covers, Keep
    <2>3. QED
      BY <1>1, <1>3, <1>4, <1>6, <1>9, <2>1, <2>2 DEF Stage, DeleteStage, None
  <1>10. CASE Kind(q) = "start"
    <2>1. StartStage(q) /\ job[q][2] \in Session
      BY <1>0, <1>10 DEF Stage, Lawful
    <2>2. ~Begins(q, job[q][2])
      BY <1>2, <2>1 DEF Begins, Undeleted, Keep, None
    <2>3. ~Empties(q)
      BY <1>2 DEF Empties, Keep
    <2>4. pc[q] \notin {"startExam", "commit"}
      BY <2>1, <2>2, <2>3 DEF StartStage
    <2>5. QED
      BY <1>1, <1>4, <1>6, <1>10, <2>1, <2>4 DEF Stage, StartStage, None
  <1>11. CASE Kind(q) = "end"
    <2> DEFINE s == job[q][2]
    <2>1. EndStage(q) /\ s \in Session /\ status[s] # Keep
      BY <1>0, <1>11 DEF Stage, Lawful, TypeOK, Status, Keep, None
    <2>2. ASSUME pc[q] \in {"endExam", "commit"}
          PROVE  Only(q, s)' /\ wr'[q][s] = status'[s] /\ wr'[q][Exam] = Keep
      <3>1. Only(q, s) /\ (wr[q][s] = status[s] \/ (status[s] \in {"02", "04"} /\ wr[q][s] = "06"))
        BY <2>1, <2>2 DEF EndStage
      <3>2. s \notin Undeleted
        BY <1>2, <2>1, <3>1 DEF Keep
      <3>3. status[s] \notin {"02", "04"}
        BY <2>1, <3>2 DEF Undeleted, None
      <3>4. QED
        BY <1>0, <1>1, <1>2, <2>1, <3>1, <3>3 DEF Only
    <2>3. s' = s
      BY <1>1
    <2>4. EndStage(q)'
      BY <1>1, <1>6, <2>1, <2>2, <2>3 DEF EndStage
    <2>5. QED
      BY <1>4, <1>11, <2>4 DEF Stage, None
  <1>12. CASE Kind(q) = None
    BY <1>0, <1>4, <1>6, <1>12 DEF Stage, None
  <1>13. Kind(q) \in JobKind
    BY <1>0 DEF TypeOK, Kind
  <1>14. QED
    BY <1>7, <1>8, <1>9, <1>10, <1>11, <1>12, <1>13 DEF JobKind

(* The first session begins, or an exam without examinees is abnormal.         *)
LEMMA StartCommit ==
  ASSUME StageInv, NEW p \in Thread, Commit(p), Firm, ~base[p].late, Kind(p) = "start"
  PROVE  /\ roll' = roll /\ Undeleted' = Undeleted /\ job[p][2] \in Session
         /\ Bumps(p) <=> wr[p][Exam] # Keep
         /\ \/ /\ Empties(p) /\ status'[Exam] = "10"
               /\ \A s \in Session : status'[s] = status[s]
            \/ /\ Begins(p, job[p][2]) /\ status'[Exam] = "04" /\ status'[job[p][2]] = "04"
               /\ wr[p][Exam] = (IF status[Exam] = "02" THEN "04" ELSE Keep)
               /\ \A s \in Session : s # job[p][2] => status'[s] = status[s]
  <1> DEFINE s == job[p][2]
  <1>0. /\ pc[p] = "commit" /\ StartStage(p) /\ s \in Session /\ TypeOK
        /\ Exam \in Row /\ Session \subseteq Row
    BY RowIsExamOrSession, CommitEffect DEF StageInv, Stage, Lawful, LockInv
  <1>1. Empties(p) \/ (Begins(p, s) /\ wr[p][Exam] = IF status[Exam] = "02" THEN "04" ELSE Keep)
    BY <1>0 DEF StartStage
  <1>2. Bumps(p) <=> wr[p][Exam] # Keep
    BY DEF Bumps
  <1>3. Inserted(p) = {}
    BY <1>1 DEF Inserted, Empties, NoSessions, Begins, Only, None
  <1>4. ASSUME NEW t \in Session PROVE roll'[t] = roll[t]
    <2>1. NewRoll(p, t) = roll[t]
      BY <1>3 DEF NewRoll, Kind
    <2>2. QED
      BY <2>1, CommitEffect
  <1>5. roll' = roll
    <2>1. roll' = [t \in Session |-> NewRoll(p, t)]
      BY DEF Commit
    <2>2. roll \in [Session -> Roll]
      BY <1>0 DEF TypeOK
    <2>3. QED
      BY <1>4, <2>1, <2>2
  <1>6. CASE Empties(p)
    <2>1. status'[Exam] = "10" /\ \A t \in Session : status'[t] = status[t]
      BY <1>0, <1>6, CommitEffect DEF Empties, NoSessions, Keep
    <2>2. Undeleted' = Undeleted
      BY <2>1 DEF Undeleted
    <2>3. QED
      BY <1>0, <1>2, <1>5, <1>6, <2>1, <2>2
  <1>7. CASE Begins(p, s) /\ wr[p][Exam] = IF status[Exam] = "02" THEN "04" ELSE Keep
    <2>1. /\ status'[Exam] = "04" /\ status'[s] = "04"
          /\ \A t \in Session : t # s => status'[t] = status[t]
      BY <1>0, <1>7, CommitEffect DEF Begins, Only, Keep
    <2>2. Undeleted' = Undeleted
      BY <1>0, <1>7, <2>1 DEF Undeleted, Begins, None
    <2>3. QED
      BY <1>0, <1>2, <1>5, <1>7, <2>1, <2>2
  <1>8. QED
    BY <1>1, <1>6, <1>7

LEMMA StartCommitOthers ==
  ASSUME StageInv, NEW p \in Thread, Commit(p), Firm, ~base[p].late, Kind(p) = "start",
         NEW q \in Thread, q # p, ~base[q].late
  PROVE  Stage(q)'
  <1> DEFINE s == job[p][2]
             t == job[q][2]
  <1>0. /\ Stage(q) /\ Lawful(q) /\ ExamRows /\ TypeOK
        /\ Exam \in Row /\ Undeleted \subseteq Session /\ Session \subseteq Row
    BY RowIsExamOrSession DEF StageInv, Undeleted, LockInv
  <1>1. /\ pc'[q] = pc[q] /\ job'[q] = job[q] /\ base'[q] = base[q] /\ wr'[q] = wr[q]
        /\ seen'[q] => seen[q] /\ wr[p][Exam] = Keep
        /\ \A r \in Row : wr[q][r] # Keep => wr[p][r] = Keep /\ status'[r] = status[r]
    BY CommitEffect, StartCommit
  <1>2. roll' = roll /\ Undeleted' = Undeleted /\ s \in Session /\ status'[Exam] \in {"04", "10"}
    BY StartCommit
  <1>3. /\ Kind(q)' = Kind(q) /\ From(q)' = From(q) /\ Target(q)' = Target(q)
        /\ PutStatus(q)' = PutStatus(q)
    BY <1>1 DEF Kind, From, Target, PutStatus
  <1>4. Clear(q) => Clear(q)'
    BY <1>1 DEF Clear
  <1>5. \/ /\ wr[q][Exam] = Keep /\ ~seen'[q] /\ status[Exam] = "02" /\ status'[Exam] = "10"
           /\ \A r \in Session : status'[r] = status[r]
           /\ \A r \in Undeleted : roll[r] = "none"
        \/ /\ s \in Undeleted /\ wr[q][s] = Keep /\ status[s] = "02" /\ status'[s] = "04"
           /\ roll[s] # "none"
           /\ status'[Exam] = "04" /\ status[Exam] \in {"02", "04"}
           /\ status[Exam] = "02" => wr[q][Exam] = Keep /\ ~seen'[q]
           /\ \A r \in Session : r # s => status'[r] = status[r]
    <2>1. CASE Empties(p) /\ status'[Exam] = "10" /\ \A r \in Session : status'[r] = status[r]
      BY <1>0, <1>1, <2>1 DEF Empties, Keep
    <2>2. CASE /\ Begins(p, s) /\ status'[Exam] = "04" /\ status'[s] = "04"
               /\ wr[p][Exam] = (IF status[Exam] = "02" THEN "04" ELSE Keep)
               /\ \A r \in Session : r # s => status'[r] = status[r]
      BY <1>0, <1>1, <1>2, <2>2 DEF Begins, Undeleted, Keep, None
    <2>3. QED
      BY <2>1, <2>2, StartCommit
  <1>6. \A x \in Session : wr[q][x] # Keep => status'[x] = status[x]
    BY <1>0, <1>1
  <1>7. CASE Kind(q) = "put"
    <2>1. PutStage(q) /\ base[q].st \in {"00", "02", "14"}
      BY <1>0, <1>7 DEF Stage, Lawful
    <2>2. NoSessions(q) => NoSessions(q)'
      BY <1>1 DEF NoSessions
    <2>3. Replaces(q) => Replaces(q)'
      <3> SUFFICES ASSUME Replaces(q) PROVE Replaces(q)'
        OBVIOUS
      <3>1. \A x \in Undeleted : wr'[q][x] = "14"
        BY <1>1 DEF Replaces
      <3>2. \A x \in Session \ Undeleted : wr'[q][x] # Keep => status'[x] = None /\ wr'[q][x] = PutStatus(q)
        BY <1>1, <1>6 DEF Replaces
      <3>3. \E x \in Session \ Undeleted : wr'[q][x] # Keep
        BY <1>1 DEF Replaces
      <3>4. QED
        BY <1>2, <1>3, <3>1, <3>2, <3>3 DEF Replaces
    <2>4. PutStage(q)'
      BY <1>1, <1>3, <1>4, <2>1, <2>2, <2>3 DEF PutStage
    <2>5. QED
      BY <1>3, <1>7, <2>4 DEF Stage, None
  <1>8. CASE Kind(q) \in {"publish", "void"}
    <2>1. StatusStage(q) /\ Target(q) # Keep
      BY <1>0, <1>8 DEF Stage, Target, Keep
    <2>2. Covers(q, Target(q)) => Covers(q, Target(q))'
      BY <1>1, <1>2, <1>3 DEF Covers
    <2>3. pc[q] # "statusCheck" => ~seen'[q]
      BY <1>1, <1>5, <2>1 DEF StatusStage, From
    <2>4. pc[q] # "commit"
      BY <1>0, <1>1, <1>5, <2>1 DEF StatusStage, Covers, From
    <2>5. StatusStage(q)'
      BY <1>1, <1>2, <1>3, <1>4, <2>1, <2>2, <2>3, <2>4 DEF StatusStage
    <2>6. QED
      BY <1>3, <1>8, <2>5 DEF Stage, None
  <1>9. CASE Kind(q) = "delete"
    <2>1. DeleteStage(q)
      BY <1>0, <1>9 DEF Stage
    <2>2. Covers(q, "14") => Covers(q, "14")'
      BY <1>1, <1>2 DEF Covers
    <2>3. DeleteStage(q)'
      BY <1>1, <1>2, <1>4, <2>1, <2>2 DEF DeleteStage
    <2>4. QED
      BY <1>3, <1>9, <2>3 DEF Stage, None
  <1>10. CASE Kind(q) = "start"
    <2>1. StartStage(q) /\ t \in Session /\ t' = t
      BY <1>0, <1>1, <1>10 DEF Stage, Lawful
    <2>2. Begins(q, t) => Begins(q, t)' /\ status'[Exam] = "04"
      <3> SUFFICES ASSUME Begins(q, t) PROVE Begins(q, t)' /\ status'[Exam] = "04"
        OBVIOUS
      <3>1. t \in Undeleted /\ status'[t] = "02" /\ roll'[t] # "none"
        BY <1>2, <1>6, <2>1 DEF Begins, Undeleted, Keep, None
      <3>2. status'[Exam] = "04"
        BY <1>5, <1>2, <3>1
      <3>3. QED
        BY <1>1, <2>1, <3>1, <3>2 DEF Begins, Only
    <2>3. ~Empties(q)
      BY <1>5 DEF Empties, Keep
    <2>4. pc[q] = "commit" => wr[q][Exam] = Keep
      BY <1>5, <2>1, <2>2, <2>3 DEF StartStage, Begins, Undeleted
    <2>5. StartStage(q)'
      <3>1. pc[q] = "commit" => Begins(q, t) /\ wr[q][Exam] = Keep
        BY <2>1, <2>3, <2>4 DEF StartStage
      <3>2. pc[q] = "startExam" => Begins(q, t) /\ wr[q][Exam] = Keep
        BY <2>1 DEF StartStage
      <3>3. pc[q] \in {"startSession", "startEmpty"} => Clear(q)'
        BY <1>4, <2>1 DEF StartStage
      <3>4. QED
        BY <1>1, <2>1, <2>2, <3>1, <3>2, <3>3 DEF StartStage
    <2>6. QED
      BY <1>3, <1>10, <2>5 DEF Stage, None
  <1>11. CASE Kind(q) = "end"
    <2>1. EndStage(q) /\ t \in Session /\ t' = t /\ status[t] # Keep
      <3>1. EndStage(q) /\ t \in Session
        BY <1>0, <1>11 DEF Stage, Lawful
      <3>2. status[t] # Keep
        BY <1>0, <3>1 DEF TypeOK, Status, Keep, None
      <3>3. QED
        BY <1>1, <3>1, <3>2
    <2>3. Only(q, t) => Only(q, t)'
      BY <1>1 DEF Only
    <2>4. ASSUME pc[q] = "commit" PROVE wr[q][Exam] = Keep
      <3> SUFFICES ASSUME wr[q][Exam] # Keep PROVE FALSE
        OBVIOUS
      <3>1. s \in Undeleted /\ status[s] = "02" /\ wr[q][s] = Keep
        BY <1>5
      <3>2. (IF s = t THEN wr[q][s] ELSE status[s]) = "06"
        BY <2>1, <2>4, <3>1 DEF EndStage
      <3>3. QED
        BY <3>1, <3>2 DEF Keep
    <2>5. wr[q][t] = status[t] \/ (status[t] \in {"02", "04"} /\ wr[q][t] = "06") => status'[t] = status[t]
      BY <1>6, <2>1 DEF Keep
    <2>6. EndStage(q)'
      BY <1>1, <1>4, <2>1, <2>3, <2>4, <2>5 DEF EndStage
    <2>7. QED
      BY <1>3, <1>11, <2>6 DEF Stage, None
  <1>12. CASE Kind(q) = None
    BY <1>0, <1>3, <1>4, <1>12 DEF Stage, None
  <1>13. Kind(q) \in JobKind
    BY <1>0 DEF TypeOK, Kind
  <1>14. QED
    BY <1>7, <1>8, <1>9, <1>10, <1>11, <1>12, <1>13 DEF JobKind

(* A session ends, if its time has come, and perhaps the exam with it.         *)
LEMMA EndCommit ==
  ASSUME StageInv, NEW p \in Thread, Commit(p), Firm, ~base[p].late, Kind(p) = "end"
  PROVE  /\ Undeleted' = Undeleted /\ job[p][2] \in Session
         /\ \A s \in Session : s # job[p][2] => status'[s] = status[s]
         /\ wr[p][job[p][2]] = status'[job[p][2]]
         /\ \/ status'[job[p][2]] = status[job[p][2]]
            \/ status[job[p][2]] \in {"02", "04"} /\ status'[job[p][2]] = "06"
         /\ Bumps(p) <=> wr[p][Exam] # Keep
         /\ \/ wr[p][Exam] = Keep /\ status'[Exam] = status[Exam]
            \/ /\ wr[p][Exam] = "06" /\ status'[Exam] = "06" /\ status[Exam] \in {"02", "04"}
               /\ \A s \in Undeleted : status'[s] = "06"
         /\ \A s \in Undeleted : /\ s # job[p][2] => roll'[s] = roll[s]
                                 /\ roll'[s] = "none" <=> roll[s] = "none"
  <1> DEFINE s == job[p][2]
  <1>0. /\ pc[p] = "commit" /\ EndStage(p) /\ s \in Session /\ TypeOK
        /\ Exam \in Row /\ Session \subseteq Row /\ Undeleted \subseteq Session
    BY RowIsExamOrSession, CommitEffect DEF StageInv, Stage, Lawful, LockInv, Undeleted
  <1>1. /\ Only(p, s)
        /\ wr[p][s] = status[s] \/ (status[s] \in {"02", "04"} /\ wr[p][s] = "06")
        /\ \/ wr[p][Exam] = Keep
           \/ /\ wr[p][Exam] = "06" /\ status[Exam] \in {"02", "04"}
              /\ \A t \in Undeleted : (IF t = s THEN wr[p][t] ELSE status[t]) = "06"
    BY <1>0 DEF EndStage
  <1>2. status[s] # Keep
    BY <1>0 DEF TypeOK, Status, Keep, None
  <1>3. wr[p][s] = status'[s] /\ \A t \in Session : t # s => status'[t] = status[t]
    BY <1>0, <1>1, <1>2, CommitEffect DEF Only, Keep
  <1>4. Undeleted' = Undeleted
    BY <1>0, <1>1, <1>3 DEF Undeleted, None
  <1>5. Bumps(p) <=> wr[p][Exam] # Keep
    BY DEF Bumps
  <1>6. \/ wr[p][Exam] = Keep /\ status'[Exam] = status[Exam]
        \/ /\ wr[p][Exam] = "06" /\ status'[Exam] = "06" /\ status[Exam] \in {"02", "04"}
           /\ \A t \in Undeleted : status'[t] = "06"
    BY <1>0, <1>1, <1>3, CommitEffect DEF Keep
  <1>7. ASSUME NEW t \in Undeleted
        PROVE  (t # s => roll'[t] = roll[t]) /\ (roll'[t] = "none" <=> roll[t] = "none")
    <2>1. t \notin Inserted(p) /\ t \in Session
      BY <1>0 DEF Inserted, Undeleted
    <2>2. roll'[t] = NewRoll(p, t)
      BY <2>1, CommitEffect
    <2>3. NewRoll(p, t) = IF job[p] = <<"end", t>> /\ roll[t] = "open" THEN "done" ELSE roll[t]
      BY <2>1 DEF NewRoll
    <2>4. QED
      BY <2>2, <2>3
  <1>8. QED
    BY <1>0, <1>1, <1>3, <1>4, <1>5, <1>6, <1>7

LEMMA EndCommitOthers ==
  ASSUME StageInv, NEW p \in Thread, Commit(p), Firm, ~base[p].late, Kind(p) = "end",
         NEW q \in Thread, q # p, ~base[q].late
  PROVE  Stage(q)'
  <1> DEFINE s == job[p][2]
             t == job[q][2]
  <1>0. /\ Stage(q) /\ Lawful(q) /\ ExamRows /\ TypeOK
        /\ Exam \in Row /\ Undeleted \subseteq Session /\ Session \subseteq Row
    BY RowIsExamOrSession DEF StageInv, Undeleted, LockInv
  <1>1. /\ pc'[q] = pc[q] /\ job'[q] = job[q] /\ base'[q] = base[q] /\ wr'[q] = wr[q]
        /\ seen'[q] => seen[q] /\ wr[p][Exam] = Keep
        /\ \A r \in Row : wr[q][r] # Keep => wr[p][r] = Keep /\ status'[r] = status[r]
    BY CommitEffect, EndCommit
  <1>2. /\ Undeleted' = Undeleted /\ s \in Session
        /\ \A x \in Session : x # s => status'[x] = status[x]
        /\ status'[s] = status[s] \/ (status[s] \in {"02", "04"} /\ status'[s] = "06")
        /\ \A x \in Undeleted : (x # s => roll'[x] = roll[x]) /\ (roll'[x] = "none" <=> roll[x] = "none")
    BY EndCommit
  <1>3. /\ Kind(q)' = Kind(q) /\ From(q)' = From(q) /\ Target(q)' = Target(q)
        /\ PutStatus(q)' = PutStatus(q)
    BY <1>1 DEF Kind, From, Target, PutStatus
  <1>4. Clear(q) => Clear(q)'
    BY <1>1 DEF Clear
  <1>5. wr[q][s] = Keep
    <2>1. wr[p][s] # Keep
      <3>1. status'[s] # Keep
        BY <1>0, <1>2 DEF TypeOK, Status, Keep, None
      <3>2. QED
        BY <3>1, EndCommit
    <2>2. QED
      BY <1>0, <1>1, <1>2, <2>1
  <1>6. \/ status'[Exam] = status[Exam]
        \/ /\ wr[q][Exam] = Keep /\ ~seen'[q] /\ status'[Exam] = "06"
           /\ \A x \in Undeleted : status'[x] = "06"
    <2>1. CASE wr[p][Exam] = Keep /\ status'[Exam] = status[Exam]
      BY <2>1
    <2>2. CASE /\ wr[p][Exam] = "06" /\ status'[Exam] = "06"
               /\ \A x \in Undeleted : status'[x] = "06"
      BY <1>0, <1>1, <2>2 DEF Keep
    <2>3. QED
      BY <2>1, <2>2, EndCommit
  <1>7. \A x \in Session : wr[q][x] # Keep => status'[x] = status[x]
    BY <1>0, <1>1
  <1>8. CASE Kind(q) = "put"
    <2>1. PutStage(q) /\ base[q].st \in {"00", "02", "14"}
      BY <1>0, <1>8 DEF Stage, Lawful
    <2>2. NoSessions(q) => NoSessions(q)'
      BY <1>1 DEF NoSessions
    <2>3. Replaces(q) => Replaces(q)'
      <3> SUFFICES ASSUME Replaces(q) PROVE Replaces(q)'
        OBVIOUS
      <3>1. \A x \in Undeleted : wr'[q][x] = "14"
        BY <1>1 DEF Replaces
      <3>2. \A x \in Session \ Undeleted : wr'[q][x] # Keep => status'[x] = None /\ wr'[q][x] = PutStatus(q)
        BY <1>1, <1>7 DEF Replaces
      <3>3. \E x \in Session \ Undeleted : wr'[q][x] # Keep
        BY <1>1 DEF Replaces
      <3>4. QED
        BY <1>2, <1>3, <3>1, <3>2, <3>3 DEF Replaces
    <2>4. PutStage(q)'
      BY <1>1, <1>3, <1>4, <2>1, <2>2, <2>3 DEF PutStage
    <2>5. QED
      BY <1>3, <1>8, <2>4 DEF Stage, None
  <1>9. CASE Kind(q) \in {"publish", "void"}
    <2>1. StatusStage(q) /\ Target(q) # Keep
      BY <1>0, <1>9 DEF Stage, Target, Keep
    <2>2. Covers(q, Target(q)) => Covers(q, Target(q))'
      BY <1>1, <1>2, <1>3 DEF Covers
    <2>3. pc[q] = "commit" => seen'[q] /\ status'[Exam] = status[Exam]
      <3> SUFFICES ASSUME pc[q] = "commit" PROVE seen'[q] /\ status'[Exam] = status[Exam]
        OBVIOUS
      <3>1. wr[q][Exam] # Keep /\ seen[q]
        BY <2>1 DEF StatusStage
      <3>2. wr[p][Exam] = Keep
        BY <1>0, <1>1, <3>1
      <3>3. ~Bumps(p)
        BY <3>2 DEF Bumps
      <3>4. QED
        BY <1>0, <1>1, <3>1, <3>3, CommitEffect
    <2>4. pc[q] # "statusCheck" => status'[Exam] # "14" /\ (seen'[q] => status'[Exam] \in From(q))
      BY <1>1, <1>6, <2>1 DEF StatusStage
    <2>5. StatusStage(q)'
      BY <1>1, <1>2, <1>3, <1>4, <2>1, <2>2, <2>3, <2>4 DEF StatusStage
    <2>6. QED
      BY <1>3, <1>9, <2>5 DEF Stage, None
  <1>10. CASE Kind(q) = "delete"
    <2>1. DeleteStage(q)
      BY <1>0, <1>10 DEF Stage
    <2>2. Covers(q, "14") => Covers(q, "14")'
      BY <1>1, <1>2 DEF Covers
    <2>3. DeleteStage(q)'
      BY <1>1, <1>4, <1>6, <2>1, <2>2 DEF DeleteStage
    <2>4. QED
      BY <1>3, <1>10, <2>3 DEF Stage, None
  <1>11. CASE Kind(q) = "start"
    <2>1. StartStage(q) /\ t \in Session /\ t' = t
      BY <1>0, <1>1, <1>11 DEF Stage, Lawful
    <2>2. Begins(q, t) => Begins(q, t)' /\ status'[Exam] = status[Exam]
      <3> SUFFICES ASSUME Begins(q, t) PROVE Begins(q, t)' /\ status'[Exam] = status[Exam]
        OBVIOUS
      <3>1. t # s /\ t \in Undeleted /\ status'[t] = "02"
        BY <1>2, <1>5, <1>7, <2>1 DEF Begins, Undeleted, Keep, None
      <3>2. roll'[t] # "none" /\ status'[Exam] = status[Exam]
        BY <1>2, <1>6, <3>1 DEF Begins
      <3>3. QED
        BY <1>1, <2>1, <3>1, <3>2 DEF Begins, Only
    <2>3. Empties(q) => Empties(q)'
      BY <1>0, <1>1, <1>2 DEF Empties, NoSessions, Keep
    <2>4. StartStage(q)'
      BY <1>1, <1>4, <2>1, <2>2, <2>3 DEF StartStage
    <2>5. QED
      BY <1>3, <1>11, <2>4 DEF Stage, None
  <1>12. CASE Kind(q) = "end"
    <2>1. EndStage(q) /\ t \in Session /\ t' = t /\ status[t] # Keep
      BY <1>0, <1>1, <1>12 DEF Stage, Lawful, TypeOK, Status, Keep, None
    <2>2. Only(q, t) => Only(q, t)'
      BY <1>1 DEF Only
    <2>3. wr[q][t] = status[t] \/ (status[t] \in {"02", "04"} /\ wr[q][t] = "06") => status'[t] = status[t]
      BY <1>7, <2>1 DEF Keep
    <2>4. ASSUME pc[q] = "commit", wr[q][Exam] # Keep
          PROVE  /\ wr[q][Exam] = "06" /\ status'[Exam] \in {"02", "04"}
                 /\ \A x \in Undeleted : (IF x = t THEN wr[q][x] ELSE status'[x]) = "06"
      <3>1. /\ wr[q][Exam] = "06" /\ status[Exam] \in {"02", "04"}
            /\ \A x \in Undeleted : (IF x = t THEN wr[q][x] ELSE status[x]) = "06"
        BY <2>1, <2>4 DEF EndStage
      <3>2. status'[Exam] = status[Exam]
        BY <1>0, <1>1, <2>4
      <3>3. \A x \in Undeleted : x # t => status'[x] = "06"
        BY <1>0, <1>2, <3>1
      <3>4. QED
        BY <3>1, <3>2, <3>3
    <2>5. EndStage(q)'
      BY <1>1, <1>2, <1>4, <2>1, <2>2, <2>3, <2>4 DEF EndStage
    <2>6. QED
      BY <1>3, <1>12, <2>5 DEF Stage, None
  <1>13. CASE Kind(q) = None
    BY <1>0, <1>3, <1>4, <1>13 DEF Stage, None
  <1>14. Kind(q) \in JobKind
    BY <1>0 DEF TypeOK, Kind
  <1>15. QED
    BY <1>8, <1>9, <1>10, <1>11, <1>12, <1>13, <1>14 DEF JobKind

(* After a commit the sessions fit the exam again.                             *)
LEMMA CommitRows ==
  ASSUME StageInv, NEW p \in Thread, Commit(p), Firm, ~base[p].late, status'[Exam] # "12"
  PROVE  ExamRows'
  <1>0. /\ pc[p] = "commit" /\ Stage(p) /\ Lawful(p) /\ ExamRows /\ TypeOK
        /\ Exam \in Row /\ Undeleted \subseteq Session /\ Session \subseteq Row
    BY RowIsExamOrSession, CommitEffect DEF StageInv, LockInv, Undeleted
  <1>1. CASE Kind(p) = "put"
    <2>1. Replaces(p) /\ PutStatus(p) \in {"00", "02"}
      BY <1>0, <1>1 DEF Stage, PutStage, Lawful, PutStatus
    <2>2. status'[Exam] = PutStatus(p)
      BY <1>1, WholeCommit
    <2>3. \A s \in Session : s \in Undeleted' <=> s \notin Undeleted /\ wr[p][s] # Keep
      <3> SUFFICES ASSUME NEW s \in Session
                   PROVE  s \in Undeleted' <=> s \notin Undeleted /\ wr[p][s] # Keep
        OBVIOUS
      <3>1. status'[s] = IF wr[p][s] = Keep THEN status[s] ELSE wr[p][s]
        BY <1>0, CommitEffect
      <3>2. CASE s \in Undeleted
        BY <2>1, <3>1, <3>2 DEF Replaces, Undeleted, Keep
      <3>3. CASE s \notin Undeleted /\ wr[p][s] = Keep
        BY <3>1, <3>3 DEF Undeleted
      <3>4. CASE s \notin Undeleted /\ wr[p][s] # Keep
        BY <2>1, <3>1, <3>4 DEF Replaces, Undeleted, None
      <3>5. QED
        BY <3>2, <3>3, <3>4
    <2>4. Undeleted' # {} /\ Undeleted' \subseteq Session
      BY <2>1, <2>3 DEF Replaces, Undeleted
    <2>5. ASSUME NEW s \in Undeleted' PROVE status'[s] = PutStatus(p) /\ roll'[s] = base[p].roll
      <3>1. s \in Session \ Undeleted /\ wr[p][s] # Keep /\ status[s] = None /\ wr[p][s] = PutStatus(p)
        BY <2>1, <2>3, <2>4, <2>5 DEF Replaces
      <3>2. s \in Inserted(p)
        BY <3>1 DEF Inserted
      <3>3. s \notin base[p].old
        BY <1>0, <3>1 DEF Lawful
      <3>4. NewRoll(p, s) = base[p].roll
        BY <1>1, <3>2, <3>3 DEF NewRoll, Kind
      <3>5. QED
        BY <1>0, <3>1, <3>4, CommitEffect
    <2>6. PutStatus(p) \in SessionsOf(PutStatus(p))
      BY <2>1 DEF SessionsOf
    <2>7. \A s \in Undeleted' : status'[s] \in SessionsOf(status'[Exam])
      BY <2>2, <2>5, <2>6
    <2>8. \A s, t \in Undeleted' : roll'[s] = "none" => roll'[t] = "none"
      BY <2>5
    <2>9. status'[Exam] \notin {None, "10"}
      BY <2>1, <2>2 DEF None
    <2>10. SessionsOf(status[Exam])' = SessionsOf(status'[Exam])
      BY DEF SessionsOf
    <2>11. QED
      BY <2>4, <2>7, <2>8, <2>9, <2>10 DEF ExamRows
  <1>2. CASE Kind(p) \in {"publish", "void"}
    <2>1. Covers(p, Target(p)) /\ Target(p) \in {"02", "16"} /\ status[Exam] # "14"
      BY <1>0, <1>2 DEF Stage, StatusStage, Target
    <2>2. status'[Exam] = Target(p)
      BY <1>2, WholeCommit
    <2>3. \A s \in Session : status'[s] = IF s \in Undeleted THEN Target(p) ELSE status[s]
      BY <1>0, <2>1, CommitEffect DEF Covers, Keep
    <2>4. Undeleted' = Undeleted
      BY <2>1, <2>3 DEF Undeleted, None
    <2>5. ASSUME NEW s \in Undeleted PROVE roll'[s] = "none" <=> roll[s] = "none"
      <3>1. s \in Session /\ s \notin Inserted(p) /\ roll'[s] = NewRoll(p, s)
        BY <1>0, CommitEffect DEF Inserted, Undeleted
      <3>2. job[p] # <<"end", s>>
        BY <1>2 DEF Kind
      <3>3. NewRoll(p, s) = IF Kind(p) = "void" /\ s \in base[p].old /\ roll[s] # "none" THEN "void" ELSE roll[s]
        BY <1>2, <3>1, <3>2 DEF NewRoll
      <3>4. QED
        BY <3>1, <3>3
    <2>6. Target(p) \in SessionsOf(Target(p)) /\ Target(p) \notin {None, "10"}
      BY <2>1 DEF SessionsOf, None
    <2>7. SessionsOf(status[Exam])' = SessionsOf(status'[Exam])
      BY DEF SessionsOf
    <2>8. QED
      BY <1>0, <2>1, <2>2, <2>3, <2>4, <2>5, <2>6, <2>7 DEF ExamRows
  <1>3. CASE Kind(p) = "delete"
    <2>1. wr[p][Exam] = "12"
      BY <1>0, <1>3 DEF Stage, DeleteStage
    <2>2. QED
      BY <1>0, <2>1, CommitEffect DEF Keep
  <1>4. CASE Kind(p) = "start"
    <2> DEFINE s == job[p][2]
    <2>1. roll' = roll /\ Undeleted' = Undeleted
      BY <1>4, StartCommit
    <2>2. CASE /\ Empties(p) /\ status'[Exam] = "10"
               /\ \A t \in Session : status'[t] = status[t]
      <3>1. \A t \in Undeleted : status'[t] \in SessionsOf(status[Exam])
        BY <1>0, <2>2 DEF ExamRows
      <3>2. SessionsOf("02") = SessionsOf("10") /\ status[Exam] = "02"
        BY <2>2 DEF SessionsOf, Empties
      <3>3. QED
        BY <1>0, <2>1, <2>2, <3>1, <3>2 DEF ExamRows, Empties, SessionsOf, None
    <2>3. CASE /\ Begins(p, s) /\ status'[Exam] = "04" /\ status'[s] = "04"
               /\ \A t \in Session : t # s => status'[t] = status[t]
      <3>1. \A t \in Undeleted : status[t] \in SessionsOf(status[Exam]) /\ status[Exam] \in {"02", "04"}
        BY <1>0, <2>3 DEF ExamRows, Begins
      <3>2. \A t \in Undeleted : status'[t] \in {"02", "04", "06"}
        BY <1>0, <2>3, <3>1 DEF SessionsOf
      <3>3. QED
        BY <1>0, <2>1, <2>3, <3>2 DEF ExamRows, Begins, SessionsOf, None
    <2>4. QED
      BY <1>4, <2>2, <2>3, StartCommit
  <1>5. CASE Kind(p) = "end"
    <2> DEFINE s == job[p][2]
    <2>1. /\ Undeleted' = Undeleted /\ \A t \in Session : t # s => status'[t] = status[t]
          /\ status'[s] = status[s] \/ (status[s] \in {"02", "04"} /\ status'[s] = "06")
          /\ \A t \in Undeleted : roll'[t] = "none" <=> roll[t] = "none"
      BY <1>5, EndCommit
    <2>2. CASE status'[Exam] = status[Exam]
      <3>1. \A t \in Undeleted : status'[t] \in SessionsOf(status[Exam])
        <4> SUFFICES ASSUME NEW t \in Undeleted PROVE status'[t] \in SessionsOf(status[Exam])
          OBVIOUS
        <4>1. status[t] \in SessionsOf(status[Exam])
          BY <1>0 DEF ExamRows
        <4>2. status[t] \in {"02", "04"} => "06" \in SessionsOf(status[Exam])
          BY <4>1 DEF SessionsOf
        <4>3. QED
          BY <1>0, <2>1, <4>1, <4>2
      <3>2. SessionsOf(status[Exam])' = SessionsOf(status[Exam])
        BY <2>2 DEF SessionsOf
      <3>3. QED
        BY <1>0, <2>1, <2>2, <3>1, <3>2 DEF ExamRows
    <2>3. CASE /\ status'[Exam] = "06" /\ status[Exam] \in {"02", "04"}
               /\ \A t \in Undeleted : status'[t] = "06"
      BY <1>0, <2>1, <2>3 DEF ExamRows, SessionsOf, None
    <2>4. QED
      BY <1>5, <2>2, <2>3, EndCommit
  <1>6. Kind(p) \in {"put", "publish", "void", "delete", "start", "end"}
    BY <1>0, KindOf DEF Lawful
  <1>7. QED
    BY <1>1, <1>2, <1>3, <1>4, <1>5, <1>6

LEMMA CommitStages ==
  ASSUME StageInv, LockInv', NEW p \in Thread, Commit(p)
  PROVE  StageInv'
  <1>0. TypeOK /\ Lawful(p) /\ pc[p] = "commit"
    BY CommitEffect DEF StageInv, LockInv
  <1>1. Kind(p) \in {"put", "publish", "void", "delete", "start", "end"}
    BY <1>0, KindOf DEF Lawful
  <1>2. ASSUME Firm' PROVE ExamRows' /\ \A q \in Thread : Stage(q)'
    <2>0. status'[Exam] # "12" /\ ~overtaken'
      BY <1>2 DEF Firm
    <2>1. Firm /\ ~base[p].late
      BY <2>0, CommitLawful DEF Commit, Firm
    <2>2. Kind(p) # "delete"
      <3>1. Kind(p) = "delete" => wr[p][Exam] = "12"
        BY <1>0, <2>1 DEF StageInv, Stage, DeleteStage
      <3>2. QED
        BY <2>0, <3>1, CommitEffect, RowIsExamOrSession DEF Keep
    <2>3. ASSUME NEW q \in Thread PROVE Stage(q)'
      <3>1. CASE q = p
        BY <3>1, CommitEffect
      <3>2. CASE q # p
        <4>1. CASE base[q].late
          <5>1. base'[q].late
            BY <3>2, <4>1, CommitEffect
          <5>2. QED
            BY <5>1 DEF Stage
        <4>2. CASE ~base[q].late
          BY <1>1, <2>1, <2>2, <3>2, <4>2, WholeCommitOthers, StartCommitOthers, EndCommitOthers
        <4>3. QED
          BY <4>1, <4>2
      <3>3. QED
        BY <3>1, <3>2
    <2>4. QED
      BY <2>0, <2>1, <2>3, CommitRows
  <1>3. QED
    BY <1>2, CommitLawful DEF StageInv

(* Steps that change neither a transaction nor whether a session has examinees. *)
LEMMA SameStep ==
  ASSUME StageInv, LockInv', status' = status, wr' = wr, pc' = pc, job' = job, base' = base,
         seen' = seen, overtaken' = overtaken,
         \A s \in Session : roll'[s] = "none" <=> roll[s] = "none"
  PROVE  StageInv'
  <1>1. Undeleted' = Undeleted /\ Undeleted \subseteq Session
    BY DEF Undeleted
  <1>2. ASSUME NEW q \in Thread PROVE Lawful(q)'
    BY <1>1 DEF StageInv, Lawful, Labels, Kind, Target
  <1>3. ASSUME NEW q \in Thread, Firm PROVE Stage(q)'
    <2>1. Stage(q) /\ Lawful(q)
      BY <1>3 DEF StageInv
    <2>2. /\ Kind(q)' = Kind(q) /\ PutStatus(q)' = PutStatus(q) /\ Target(q)' = Target(q)
          /\ From(q)' = From(q)
      BY DEF Kind, PutStatus, Target, From
    <2>3. PutStage(q) => PutStage(q)'
      BY <1>1, <2>2 DEF PutStage, Clear, NoSessions, Replaces
    <2>4. StatusStage(q) => StatusStage(q)'
      BY <1>1, <2>2 DEF StatusStage, Clear, Covers
    <2>5. DeleteStage(q) => DeleteStage(q)'
      BY <1>1, <2>2 DEF DeleteStage, Clear, Covers
    <2>6. Kind(q) = "start" /\ StartStage(q) => StartStage(q)'
      <3> SUFFICES ASSUME Kind(q) = "start", StartStage(q) PROVE StartStage(q)'
        OBVIOUS
      <3>1. job[q][2] \in Session
        BY <2>1 DEF Lawful
      <3>2. Begins(q, job[q][2]) => Begins(q, job[q][2])'
        BY <3>1 DEF Begins, Only
      <3>3. Empties(q) => Empties(q)'
        BY <1>1 DEF Empties, NoSessions
      <3>4. QED
        BY <3>2, <3>3 DEF StartStage, Clear
    <2>7. EndStage(q) => EndStage(q)'
      BY <1>1 DEF EndStage, Clear, Only
    <2>8. Clear(q) => Clear(q)'
      BY DEF Clear
    <2>9. QED
      BY <2>1, <2>2, <2>3, <2>4, <2>5, <2>6, <2>7, <2>8 DEF Stage
  <1>4. ExamRows => ExamRows'
    <2>1. SessionsOf(status[Exam])' = SessionsOf(status[Exam])
      BY DEF SessionsOf
    <2>2. QED
      BY <1>1, <2>1 DEF ExamRows
  <1>5. ASSUME Firm' PROVE ExamRows' /\ \A q \in Thread : Stage(q)'
    <2>1. Firm /\ ExamRows
      BY <1>5 DEF StageInv, Firm
    <2>2. QED
      BY <1>3, <1>4, <2>1
  <1>6. QED
    BY <1>2, <1>5 DEF StageInv

LEMMA InitStages == Init => StageInv
  <1> SUFFICES ASSUME Init PROVE StageInv
    OBVIOUS
  <1>1. LockInv
    BY InitLocks
  <1>2. ASSUME NEW p \in Thread PROVE Lawful(p) /\ Stage(p)
    <2>1. pc[p] = "idle" /\ Kind(p) = None /\ base[p].old = {} /\ ~base[p].late /\ \A r \in Row : wr[p][r] = Keep
      BY DEF Init, Clean, NoJob, NoBase, Kind
    <2>2. Lawful(p)
      BY <2>1, RowIsExamOrSession DEF Lawful, Labels, None
    <2>3. Stage(p)
      BY <2>1 DEF Stage, Clear, None
    <2>4. QED
      BY <2>2, <2>3
  <1>3. PICK x \in {"none", "open"} : roll = [s \in Session |-> IF status[s] = "00" THEN x ELSE "none"]
    BY DEF Init
  <1>4. CASE status = [r \in Row |-> IF r = Exam THEN "00" ELSE IF r \in Initial THEN "00" ELSE None]
    <2>1. status[Exam] = "00" /\ \A s \in Session : status[s] = IF s \in Initial THEN "00" ELSE None
      BY <1>4, RowIsExamOrSession
    <2>2. Undeleted = Initial /\ Initial \subseteq Session /\ Initial # {}
      BY <2>1, LifecycleAssumption DEF Undeleted, None
    <2>3. ExamRows
      BY <1>3, <2>1, <2>2 DEF ExamRows, SessionsOf, None
    <2>4. QED
      BY <1>1, <1>2, <2>1, <2>3 DEF StageInv, SessionCodes
  <1>5. CASE status = [r \in Row |-> IF r = Exam THEN "14" ELSE None]
    <2>1. status[Exam] = "14" /\ \A s \in Session : status[s] = None
      BY <1>5, RowIsExamOrSession
    <2>2. Undeleted = {}
      BY <2>1 DEF Undeleted
    <2>3. ExamRows
      BY <2>1, <2>2 DEF ExamRows, None
    <2>4. QED
      BY <1>1, <1>2, <2>1, <2>3 DEF StageInv, SessionCodes
  <1>6. QED
    BY <1>4, <1>5 DEF Init

LEMMA NextStages == StageInv /\ [Next]_vars => StageInv'
  <1> SUFFICES ASSUME StageInv, [Next]_vars PROVE StageInv'
    OBVIOUS
  <1>0. LockInv /\ LockInv' /\ TypeOK
    BY NextLocks DEF StageInv, LockInv
  <1>1. CASE UNCHANGED vars
    BY <1>0, <1>1, SameStep DEF vars
  <1>2. CASE Next
    <2>1. CASE \E c \in Caller : Request(c)
      BY <1>0, <2>1, RequestStages
    <2>2. ASSUME NEW p \in Thread, ThreadStep(p) PROVE StageInv'
      <3>1. CASE DeadlockAbort(p)
        BY <1>0, <3>1, LeaveStep DEF DeadlockAbort, data, frame
      <3>2. QED
        BY <1>0, <2>2, <3>1, AwaitStages, CallerStages, WorkerStages, CommitStages DEF ThreadStep
    <2>3. ASSUME NEW p \in Thread, CommitFails(p) PROVE StageInv'
      BY <1>0, <2>3, LeaveStep DEF CommitFails, data, frame
    <2>4. CASE \E w \in Worker, k \in Key : Take(w, k)
      BY <1>0, <2>4, TakeStages
    <2>5. CASE \E k \in Key : Fire(k)
      BY <1>0, <2>5, SameStep DEF Fire, data, frame
    <2>6. ASSUME NEW s \in Session, AllSubmit(s) \/ Extend(s) PROVE StageInv'
      <3>1. CASE AllSubmit(s)
        <4>1. \A t \in Session : roll'[t] = "none" <=> roll[t] = "none"
          BY <1>0, <3>1 DEF AllSubmit, TypeOK
        <4>2. QED
          BY <1>0, <3>1, <4>1, SameStep DEF AllSubmit, frame
      <3>2. CASE Extend(s)
        BY <1>0, <3>2, SameStep DEF Extend, frame
      <3>3. QED
        BY <2>6, <3>1, <3>2
    <2>7. CASE Tick
      BY <1>0, <2>7, SameStep DEF Tick, data
    <2>8. CASE Crash
      <3>1. /\ status' = status /\ roll' = roll /\ overtaken' = overtaken
            /\ \A p \in Thread : /\ pc'[p] \in {"idle", "done"} /\ job'[p] = NoJob /\ base'[p] = NoBase
                                 /\ \A r \in Row : wr'[p][r] = Keep
        BY <2>8 DEF Crash, data, Clean
      <3>2. \A p \in Thread : Lawful(p)' /\ Stage(p)'
        BY <3>1, OverStage
      <3>3. Undeleted' = Undeleted
        BY <3>1 DEF Undeleted
      <3>4. ExamRows => ExamRows'
        BY <3>1, <3>3 DEF ExamRows, SessionsOf
      <3>5. QED
        BY <1>0, <3>1, <3>2, <3>4 DEF StageInv, Firm
    <2>9. QED
      BY <1>2, <2>1, <2>2, <2>3, <2>4, <2>5, <2>6, <2>7, <2>8 DEF Next
  <1>3. QED
    BY <1>1, <1>2

(* In every state that is committed the sessions of the exam fit the exam's    *)
(* own status: handlers and events that interleave leave no session published, *)
(* running or voided under an exam that is not, as long as no transaction has  *)
(* committed a statement that missed what others did while it waited.          *)
THEOREM LifecycleConsistent == Spec => []Consistent
  <1>1. StageInv => Consistent
    BY DEF StageInv, Firm, ExamRows, Consistent
  <1>2. QED
    BY <1>1, InitStages, NextStages, PTL DEF Spec

(* A step that commits nothing leaves all statuses as they are.                *)
LEMMA OnlyCommits ==
  ASSUME Next, \A p \in Thread : ~Commit(p)
  PROVE  status' = status
  BY DEF Next, Request, PutRead, DelRead, StatusBegin, ThreadStep, CallerStep, WorkerStep,
     PutBegin, PutExam, PutSessions, PutCheck, StatusCheck, StatusSessions, StatusExam,
     DelSessions, DelExam, Await, DeadlockAbort, CommitFails, Take, Fire, AllSubmit, Extend, Tick,
     Crash, StartRefused, StartRead, StartEmpty, StartSession, StartExam, EndRearm, EndSession, EndExam, data

(* The update time that a publish or a void compared still binds the sessions. *)
LEMMA CommitForward ==
  ASSUME StageInv, NEW p \in Thread, Commit(p), NEW s \in Session, status'[s] # status[s],
         ~overtaken'
  PROVE  status'[s] \in Onward(status[s])
  <1>1. /\ pc[p] = "commit" /\ Lawful(p) /\ LockInv /\ Exam \in Row /\ s \in Row
        /\ wr[p][s] # Keep /\ status'[s] = wr[p][s]
    BY CommitEffect, RowIsExamOrSession DEF StageInv
  <1>2. CASE wr[p][s] \in Onward(status[s])
    BY <1>1, <1>2
  <1>3. CASE Kind(p) \in {"publish", "void"} /\ s \in Undeleted /\ wr[p][s] = Target(p)
    <2>1. wr[p][Exam] = Target(p) /\ Target(p) \notin {Keep, "12"}
      BY <1>1, <1>3 DEF Lawful, Target, Keep
    <2>2. status[Exam] # "12"
      BY <1>1, <2>1 DEF LockInv, DeletedKept, Gone
    <2>7. Firm /\ ~base[p].late
      BY <2>2 DEF Commit, Firm
    <2>3. status[Exam] \in From(p) /\ status[s] \in SessionsOf(status[Exam])
      BY <1>1, <1>3, <2>7 DEF StageInv, Stage, StatusStage, ExamRows
    <2>4. CASE Kind(p) = "publish"
      BY <1>1, <1>3, <2>3, <2>4 DEF From, SessionsOf, Target, Onward
    <2>5. CASE Kind(p) = "void"
      <3>1. status[s] \in {"00", "02", "06"} /\ Target(p) = "16"
        BY <2>3, <2>5 DEF From, SessionsOf, Target
      <3>2. QED
        BY <1>1, <1>3, <3>1 DEF Onward, None
    <2>6. QED
      BY <1>3, <2>4, <2>5
  <1>4. QED
    BY <1>1, <1>2, <1>3 DEF Lawful

(* No session goes back, whatever requests and events race for it: what the    *)
(* optimistic lock of updateExamStatus and the WHERE clauses are for.  (They   *)
(* do not bind the sessions once an overtaken statement was committed.)        *)
THEOREM LifecycleSessionForward == Spec => SessionForward
  <1>1. StageInv /\ [Next]_vars
          => [\A s \in Session : status'[s] # status[s] /\ ~overtaken' =>
                                     status'[s] \in Onward(status[s])]_vars
    <2> SUFFICES ASSUME StageInv, Next, NEW s \in Session, status'[s] # status[s], ~overtaken'
                 PROVE  status'[s] \in Onward(status[s])
      OBVIOUS
    <2>1. PICK p \in Thread : Commit(p)
      BY OnlyCommits
    <2>2. QED
      BY <2>1, CommitForward
  <1>2. QED
    BY <1>1, InitStages, NextStages, PTL DEF Spec, SessionForward

-----------------------------------------------------------------------------
(* Whole operations.                                                           *)

LEMMA OperationsNames ==
  /\ Operations!Row = Row /\ Operations!Undeleted = Undeleted /\ Operations!Code = Status
  /\ \A x : Operations!After(x) = Onward(x)
  BY DEF Operations!Row, Row, Operations!Undeleted, Undeleted, None, Operations!Code, Status,
     Operations!After, Onward

LEMMA BecomeWhole ==
  ASSUME TypeOK', NEW e, NEW ss, status'[Exam] = e, \A s \in Session : status'[s] = ss[s]
  PROVE  Operations!Become(e, ss)
  <1>1. status' \in [Row -> Status] /\ \A r \in Row : status'[r] = IF r = Exam THEN e ELSE ss[r]
    BY RowIsExamOrSession DEF TypeOK, Row
  <1>2. QED
    BY <1>1, OperationsNames DEF Operations!Become

LEMMA PutOperation ==
  ASSUME StageInv, TypeOK', NEW p \in Thread, Commit(p), Firm, ~base[p].late, Kind(p) = "put"
  PROVE  Operations!Replace
  <1>0. /\ pc[p] = "commit" /\ Stage(p) /\ Lawful(p)
        /\ Exam \in Row /\ Undeleted \subseteq Session /\ Session \subseteq Row
    BY RowIsExamOrSession, CommitEffect DEF StageInv, Undeleted
  <1>1. Replaces(p) /\ PutStatus(p) \in {"00", "02"}
    BY <1>0 DEF Stage, PutStage, Lawful, PutStatus
  <1> DEFINE e == PutStatus(p)
             new == {s \in Session \ Undeleted : wr[p][s] # Keep}
             ss == [s \in Session |-> IF s \in new THEN e ELSE Operations!AllTo("14")[s]]
  <1>2. new # {} /\ new \in SUBSET {s \in Session : status[s] = "none"}
    BY <1>1 DEF Replaces, None
  <1>3. status'[Exam] = e
    BY WholeCommit
  <1>4. ASSUME NEW s \in Session PROVE status'[s] = ss[s]
    <2>1. status'[s] = IF wr[p][s] = Keep THEN status[s] ELSE wr[p][s]
      BY <1>0, CommitEffect
    <2>2. Operations!AllTo("14")[s] = IF s \in Undeleted THEN "14" ELSE status[s]
      BY OperationsNames DEF Operations!AllTo
    <2>3. CASE s \in Undeleted
      BY <1>1, <2>1, <2>2, <2>3 DEF Replaces, Keep
    <2>4. CASE s \notin Undeleted
      BY <1>1, <2>1, <2>2, <2>4 DEF Replaces
    <2>5. QED
      BY <2>3, <2>4
  <1>5. Operations!Become(e, ss)
    BY <1>3, <1>4, BecomeWhole
  <1> HIDE DEF e, new
  <1>6. e \in {"00", "02"}
    BY <1>1 DEF e
  <1>7. QED
    BY <1>2, <1>5, <1>6 DEF Firm, Operations!Replace

LEMMA WholeOperation ==
  ASSUME StageInv, TypeOK', NEW p \in Thread, Commit(p), Firm, ~base[p].late,
         Kind(p) \in {"publish", "void", "delete"}
  PROVE  Operations!Publish \/ Operations!Void \/ Operations!Delete
  <1>0. /\ pc[p] = "commit" /\ Stage(p)
        /\ Exam \in Row /\ Undeleted \subseteq Session /\ Session \subseteq Row
    BY RowIsExamOrSession, CommitEffect DEF StageInv, Undeleted
  <1>1. ASSUME NEW e \in {"02", "14", "16"}, Covers(p, e), NEW s \in Session
        PROVE  status'[s] = Operations!AllTo(e)[s]
    <2>1. Operations!AllTo(e)[s] = IF s \in Undeleted THEN e ELSE status[s]
      BY OperationsNames DEF Operations!AllTo
    <2>2. status'[s] = IF wr[p][s] = Keep THEN status[s] ELSE wr[p][s]
      BY <1>0, CommitEffect
    <2>3. QED
      BY <1>1, <2>1, <2>2 DEF Covers, Keep
  <1>2. CASE Kind(p) = "delete"
    <2>1. Covers(p, "14") /\ wr[p][Exam] = "12" /\ status[Exam] # "14"
      BY <1>0, <1>2 DEF Stage, DeleteStage
    <2>2. status'[Exam] = "12"
      BY <1>0, <2>1, CommitEffect DEF Keep
    <2>3. Operations!Become("12", Operations!AllTo("14"))
      BY <1>1, <2>1, <2>2, BecomeWhole
    <2>4. QED
      BY <2>1, <2>3 DEF Firm, Operations!Delete
  <1>3. CASE Kind(p) \in {"publish", "void"}
    <2>1. StatusStage(p)
      BY <1>0, <1>3 DEF Stage
    <2>2. Covers(p, Target(p)) /\ status[Exam] \in From(p) /\ Target(p) \in {"02", "16"}
      BY <1>0, <2>1 DEF StatusStage, Target
    <2>3. status'[Exam] = Target(p)
      BY <1>3, WholeCommit
    <2>4. Operations!Become(Target(p), Operations!AllTo(Target(p)))
      BY <1>1, <2>2, <2>3, BecomeWhole
    <2>5. QED
      BY <1>3, <2>2, <2>4 DEF Target, From, Operations!Publish, Operations!Void
  <1>4. QED
    BY <1>2, <1>3

LEMMA StartOperation ==
  ASSUME StageInv, TypeOK', NEW p \in Thread, Commit(p), Firm, ~base[p].late, Kind(p) = "start"
  PROVE  Operations!Cancel \/ \E s \in Session : Operations!Begin(s)
  <1> DEFINE s == job[p][2]
  <1>0. s \in Session /\ Session \subseteq Row /\ status \in [Row -> Status]
    BY StartCommit, RowIsExamOrSession DEF StageInv, LockInv, TypeOK
  <1>1. CASE Empties(p) /\ status'[Exam] = "10" /\ \A t \in Session : status'[t] = status[t]
    <2>1. Operations!Become("10", status)
      BY <1>1, BecomeWhole
    <2>2. QED
      BY <1>1, <2>1 DEF Empties, Operations!Cancel
  <1>2. CASE /\ Begins(p, s) /\ status'[Exam] = "04" /\ status'[s] = "04"
             /\ \A t \in Session : t # s => status'[t] = status[t]
    <2>1. \A t \in Session : status'[t] = [status EXCEPT ![s] = "04"][t]
      BY <1>0, <1>2
    <2>2. Operations!Become("04", [status EXCEPT ![s] = "04"])
      BY <1>2, <2>1, BecomeWhole
    <2>3. Operations!Begin(s)
      BY <1>2, <2>2 DEF Begins, Operations!Begin
    <2>4. QED
      BY <1>0, <2>3
  <1>3. QED
    BY <1>1, <1>2, StartCommit

LEMMA EndOperation ==
  ASSUME StageInv, TypeOK', NEW p \in Thread, Commit(p), Firm, ~base[p].late, Kind(p) = "end"
  PROVE  \/ Operations!Close \/ status' = status
         \/ \E s \in Session : Operations!End(s)
  <1> DEFINE s == job[p][2]
  <1>0. /\ s \in Session /\ Session \subseteq Row /\ Undeleted \subseteq Session
        /\ status \in [Row -> Status] /\ status' \in [Row -> Status]
        /\ \A t \in Session : t # s => status'[t] = status[t]
        /\ \/ status'[s] = status[s]
           \/ status[s] \in {"02", "04"} /\ status'[s] = "06"
    BY EndCommit, RowIsExamOrSession DEF StageInv, LockInv, TypeOK, Undeleted
  <1>1. CASE status'[Exam] = status[Exam]
    <2>1. CASE status'[s] = status[s]
      BY <1>0, <1>1, <2>1 DEF Row
    <2>2. CASE status[s] \in {"02", "04"} /\ status'[s] = "06"
      <3>1. \A t \in Session : status'[t] = [status EXCEPT ![s] = "06"][t]
        BY <1>0, <2>2
      <3>2. Operations!Become(status[Exam], [status EXCEPT ![s] = "06"])
        BY <1>1, <3>1, BecomeWhole
      <3>3. QED
        BY <1>0, <2>2, <3>2 DEF Firm, Operations!End
    <2>3. QED
      BY <1>0, <2>1, <2>2
  <1>2. CASE /\ status'[Exam] = "06" /\ status[Exam] \in {"02", "04"}
             /\ \A t \in Undeleted : status'[t] = "06"
    <2> DEFINE last == {t \in {s} : status'[t] # status[t]}
               ss == [t \in Session |-> IF t \in last THEN "06" ELSE status[t]]
    <2>1. /\ last \in SUBSET {t \in Session : status[t] \in {"02", "04"}}
          /\ \A t, u \in last : t = u
          /\ \A t \in Undeleted : t \in last \/ status[t] = "06"
      BY <1>0, <1>2
    <2>2. \A t \in Session : status'[t] = ss[t]
      BY <1>0
    <2>3. Operations!Become("06", ss)
      BY <1>2, <2>2, BecomeWhole
    <2> HIDE DEF last
    <2>4. QED
      BY <1>2, <2>1, <2>3, OperationsNames DEF Operations!Close
  <1>3. QED
    BY <1>1, <1>2, EndCommit

(* Each commit is one operation on the statuses as they are committed, although *)
(* the transaction decided on what it had read before and wrote exam and        *)
(* sessions in several statements: readers see no parts of two operations,      *)
(* unless a transaction commits a statement that missed what others did.        *)
THEOREM LifecycleImplementsStatus == Spec => ImplementsStatus
  <1>1. Init => Operations!EInit
    BY DEF Init, Operations!EInit, Operations!Row, Row, None
  <1>2. StageInv /\ [Next]_vars => [~overtaken' => Operations!ENext]_status
    <2> SUFFICES ASSUME StageInv, [Next]_vars, status' # status, ~overtaken'
                 PROVE  Operations!ENext
      OBVIOUS
    <2>1. PICK p \in Thread : Commit(p)
      BY OnlyCommits DEF vars
    <2>2. TypeOK /\ TypeOK' /\ Lawful(p) /\ pc[p] = "commit" /\ Exam \in Row
      BY <2>1, NextType, RowIsExamOrSession DEF StageInv, LockInv, Commit
    <2>3. CASE status[Exam] = "12"
      <3>1. status' \in [Row -> Status] /\ status'[Exam] = "12"
        BY <2>1, <2>2, <2>3, CommitLawful DEF TypeOK
      <3>2. \A s \in Session : status'[s] = status[s] \/ status'[s] \in Onward(status[s])
        BY <2>1, CommitForward
      <3>3. Operations!Linger
        BY <2>3, <3>1, <3>2, OperationsNames DEF Operations!Linger
      <3>4. QED
        BY <3>3 DEF Operations!ENext
    <2>4. CASE status[Exam] # "12"
      <3>1. Kind(p) \in {"put", "publish", "void", "delete", "start", "end"}
        BY <2>2, KindOf DEF Lawful
      <3>2. QED
        <4>1. Firm /\ ~base[p].late
          BY <2>1, <2>4 DEF Commit, Firm
        <4>2. QED
          BY <2>1, <2>2, <3>1, <4>1, PutOperation, WholeOperation, StartOperation, EndOperation
             DEF Operations!ENext
    <2>5. QED
      BY <2>3, <2>4
  <1>3. QED
    BY <1>1, <1>2, InitStages, NextStages, PTL DEF Spec, ImplementsStatus

-----------------------------------------------------------------------------
(* Only what requests ask for is done.                                         *)
Asked == \A p \in Thread : Kind(p) \in {"put", "publish", "void", "delete"} => Kind(p) \in Kinds

LEMMA InitAsked == Init => Asked
  BY DEF Init, Asked, Kind, NoJob, None

LEMMA NextAsked == TypeOK /\ Asked /\ [Next]_vars => Asked'
  <1> SUFFICES ASSUME TypeOK, Asked, [Next]_vars PROVE Asked'
    OBVIOUS
  <1>1. CASE job' = job
    BY <1>1 DEF Asked, Kind
  <1>2. ASSUME NEW p \in Thread, NEW j, job' = [job EXCEPT ![p] = j],
               j[1] \in {"put", "publish", "void", "delete"} => j[1] \in Kinds
        PROVE  Asked'
    BY <1>2 DEF Asked, Kind, TypeOK
  <1>3. ASSUME NEW p \in Thread, Finish(p) PROVE Asked'
    <2>1. job' = [job EXCEPT ![p] = NoJob] /\ NoJob[1] \notin {"put", "publish", "void", "delete"}
      BY <1>3 DEF Finish, NoJob, None
    <2>2. QED
      BY <1>2, <2>1
  <1>4. CASE Next
    <2>1. ASSUME NEW c \in Caller, Request(c) PROVE Asked'
      <3>1. c \in Thread
        BY DEF Thread
      <3>2. PICK k \in Kinds : job' = [job EXCEPT ![c] = <<k, Exam>>]
        BY <2>1 DEF Request, PutRead, DelRead, StatusBegin
      <3>3. QED
        BY <1>2, <3>1, <3>2
    <2>2. ASSUME NEW w \in Worker, NEW k \in Key, Take(w, k) PROVE Asked'
      <3>1. w \in Thread /\ k[1] \notin {"put", "publish", "void", "delete"}
        BY DEF Thread, Key
      <3>2. QED
        BY <1>2, <2>2, <3>1 DEF Take
    <2>3. CASE Crash
      BY <2>3 DEF Crash, Asked, Kind, NoJob, None
    <2>4. ASSUME NEW p \in Thread, ThreadStep(p) \/ CommitFails(p) PROVE Asked'
      BY <1>1, <1>3, <2>4 DEF ThreadStep, CallerStep, WorkerStep, PutBegin, PutExam, PutSessions,
         PutCheck, StatusCheck, StatusSessions, StatusExam, DelSessions, DelExam, Await, DeadlockAbort,
         CommitFails, StartRefused, StartRead, StartEmpty, StartSession, StartExam, EndRearm, EndSession,
         EndExam, Commit, Leave
    <2>5. CASE Tick \/ (\E k \in Key : Fire(k)) \/ \E s \in Session : AllSubmit(s) \/ Extend(s)
      BY <1>1, <2>5 DEF Tick, Fire, AllSubmit, Extend
    <2>6. QED
      BY <1>4, <2>1, <2>2, <2>3, <2>4, <2>5 DEF Next
  <1>5. QED
    BY <1>1, <1>4 DEF vars

(* Without a PUT no statement is overtaken: nobody else inserts sessions, so   *)
(* who waits for a lock has found them all; and an exam of which no session is *)
(* left, or whose session has no examinee, stays so until it is closed.        *)
Over(p) == \A s \in Session : IF wr[p][s] # Keep THEN wr[p][s] \notin {"02", "04"}
                                 ELSE status[s] \notin {"02", "04"}

InTime(p) ==
  /\ ~base[p].late
  /\ pc[p] \notin {"putSessions", "statusSessions", "delSessions", "endExam"} => base[p].rows = {}
  /\ pc[p] \in {"statusSessions", "delSessions"} /\ base[p].rows # {}
        => Undeleted \subseteq base[p].rows
  /\ pc[p] = "endExam" /\ base[p].rows # {}
        => status[Exam] = "12" \/ (status[Exam] \notin {"00", "14"} /\ Over(p))
  /\ pc[p] = "startEmpty" => NoExaminee(p) \/ status[Exam] \in {"12", "16"}

AllInTime == ~overtaken /\ \A p \in Thread : InTime(p)

LEMMA SameInTime ==
  ASSUME NEW p \in Thread, InTime(p), status' = status, roll' = roll, wr'[p] = wr[p],
         pc'[p] = pc[p], job'[p] = job[p], base'[p] = base[p]
  PROVE  InTime(p)'
  <1>1. Undeleted' = Undeleted /\ Live' = Live
    BY DEF Undeleted, Live
  <1>2. Over(p) => Over(p)'
    BY DEF Over
  <1>3. NoExaminee(p) => NoExaminee(p)'
    BY <1>1 DEF NoExaminee
  <1>4. QED
    BY <1>1, <1>2, <1>3 DEF InTime

LEMMA OverInTime ==
  ASSUME NEW p \in Thread, pc'[p] \in {"idle", "done"}, base'[p] = NoBase
  PROVE  InTime(p)'
  BY DEF InTime, NoBase

(* A step that commits nothing disturbs only its own transaction.              *)
LEMMA OwnInTime ==
  ASSUME AllInTime, NEW p \in Thread, status' = status, roll' = roll, overtaken' = overtaken,
         \A q \in Thread : q # p => /\ pc'[q] = pc[q] /\ job'[q] = job[q]
                                    /\ base'[q] = base[q] /\ wr'[q] = wr[q],
         InTime(p)'
  PROVE  AllInTime'
  BY SameInTime DEF AllInTime

LEMMA LeaveInTime ==
  ASSUME TypeOK, AllInTime, NEW p \in Thread, Leave(p), status' = status, roll' = roll,
         overtaken' = overtaken
  PROVE  AllInTime'
  <1>1. Finish(p)
    BY DEF Leave
  <1>2. InTime(p)'
    BY <1>1, FinishEffect, OverInTime
  <1>3. QED
    BY <1>1, <1>2, FinishEffect, OwnInTime

(* A label at which nothing is noted to be looked at again.                    *)
LEMMA PlainInTime ==
  ASSUME NEW p \in Thread, ~base'[p].late, base'[p].rows = {}, pc'[p] # "startEmpty"
  PROVE  InTime(p)'
  BY DEF InTime

LEMMA CallerInTime ==
  ASSUME "put" \notin Kinds, StageInv, Asked, AllInTime, NEW c \in Caller,
         Request(c) \/ CallerStep(c)
  PROVE  AllInTime'
  <1>0. /\ c \in Thread /\ TypeOK /\ Lawful(c) /\ InTime(c) /\ base \in [Thread -> Base]
        /\ status' = status /\ roll' = roll /\ overtaken' = overtaken
    BY DEF Thread, StageInv, LockInv, TypeOK, AllInTime, Request, PutRead, DelRead, StatusBegin,
       CallerStep, PutBegin, PutExam, PutSessions, PutCheck, StatusCheck, StatusSessions,
       StatusExam, DelSessions, DelExam, data, frame
  <1>1. ASSUME NEW l, Goto(c, l), wr' = wr \/ \E f : wr' = [wr EXCEPT ![c] = f],
               job' = job \/ \E j : job' = [job EXCEPT ![c] = j],
               \A q \in Thread : q # c => base'[q] = base[q],
               base'[c].rows = {}, ~base'[c].late, l # "startEmpty"
        PROVE  AllInTime'
    <2>1. /\ pc'[c] = l
          /\ \A q \in Thread : q # c => /\ pc'[q] = pc[q] /\ job'[q] = job[q]
                                        /\ base'[q] = base[q] /\ wr'[q] = wr[q]
      BY <1>0, <1>1, GotoEffect DEF TypeOK
    <2>2. InTime(c)'
      BY <1>0, <1>1, <2>1, PlainInTime
    <2>3. QED
      BY <1>0, <2>1, <2>2, OwnInTime
  <1>2. CASE Leave(c)
    BY <1>0, <1>2, LeaveInTime
  <1>3. CASE Request(c) /\ ~PutRead(c)
    <2>1. pc[c] = "idle" /\ base[c].rows = {} /\ ~base[c].late
      BY <1>0, <1>3 DEF Request, DelRead, StatusBegin, InTime
    <2>2. /\ wr' = wr /\ \E l : Goto(c, l) /\ l # "startEmpty"
          /\ \E j : job' = [job EXCEPT ![c] = j]
          /\ (\E x : base' = [base EXCEPT ![c].old = x]) \/ (\E x : base' = [base EXCEPT ![c].at = x])
      BY <1>3 DEF Request, DelRead, StatusBegin
    <2>3. base'[c].rows = {} /\ ~base'[c].late /\ \A q \in Thread : q # c => base'[q] = base[q]
      BY <1>0, <2>1, <2>2 DEF Base
    <2>4. QED
      BY <1>1, <2>2, <2>3
  <1>4. ~(PutRead(c) \/ PutBegin(c) \/ PutExam(c) \/ PutSessions(c) \/ PutCheck(c))
    BY <1>0, KindOf DEF PutRead, PutBegin, PutExam, PutSessions, PutCheck, Asked, Lawful
  <1>5. CASE StatusCheck(c) /\ ~Leave(c)
    <2>1. /\ Goto(c, "statusSessions") /\ wr' = wr /\ job' = job
          /\ base' = [base EXCEPT ![c].old = Live]
          /\ base[c].rows = {} /\ ~base[c].late
      BY <1>0, <1>5 DEF StatusCheck, InTime
    <2>2. base'[c].rows = {} /\ ~base'[c].late /\ \A q \in Thread : q # c => base'[q] = base[q]
      BY <1>0, <2>1 DEF Base
    <2>3. QED
      BY <1>1, <2>1, <2>2
  <1>6. CASE StatusSessions(c) \/ DelSessions(c)
    <2>1. ~Misses(c)
      BY <1>0, <1>6 DEF StatusSessions, DelSessions, InTime, Misses, Matched
    <2>2. /\ job' = job
          /\ Goto(c, "statusExam") \/ Goto(c, "delExam")
          /\ \E f : wr' = [wr EXCEPT ![c] = f]
      <3>1. CASE StatusSessions(c)
        BY <3>1 DEF StatusSessions, Write
      <3>2. CASE DelSessions(c)
        BY <3>2 DEF DelSessions, Write
      <3>3. QED
        BY <1>6, <3>1, <3>2
    <2>3. base'[c].rows = {} /\ base'[c].late = Misses(c) /\ \A q \in Thread : q # c => base'[q] = base[q]
      <3>1. \/ \E x : base' = [base EXCEPT ![c].old = x, ![c].rows = {}, ![c].late = Misses(c)]
            \/ base' = [base EXCEPT ![c].rows = {}, ![c].late = Misses(c)]
        BY <1>6 DEF StatusSessions, DelSessions
      <3>2. QED
        BY <1>0, <3>1 DEF Base
    <2>4. QED
      BY <1>1, <2>1, <2>2, <2>3
  <1>7. CASE (StatusExam(c) /\ ~Leave(c)) \/ DelExam(c)
    <2>1. /\ Goto(c, "commit") /\ job' = job /\ base' = base /\ \E f : wr' = [wr EXCEPT ![c] = f]
          /\ base[c].rows = {} /\ ~base[c].late
      BY <1>0, <1>7 DEF StatusExam, DelExam, Write, InTime
    <2>2. QED
      BY <1>1, <2>1
  <1>8. QED
    BY <1>2, <1>3, <1>4, <1>5, <1>6, <1>7 DEF CallerStep, Request

LEMMA WorkerInTime ==
  ASSUME StageInv, AllInTime, NEW w \in Worker, WorkerStep(w)
  PROVE  AllInTime'
  <1>0. /\ w \in Thread /\ TypeOK /\ Lawful(w) /\ InTime(w) /\ base \in [Thread -> Base]
        /\ status' = status /\ roll' = roll /\ overtaken' = overtaken
    BY DEF Thread, StageInv, LockInv, TypeOK, AllInTime, WorkerStep, StartRefused, StartRead,
       StartEmpty, StartSession, StartExam, EndRearm, EndSession, EndExam, data, frame
  <1>1. CASE StartRefused(w) \/ EndRearm(w)
    BY <1>0, <1>1, LeaveInTime DEF StartRefused, EndRearm
  <1>2. ASSUME NEW l, Goto(w, l), wr' = wr \/ \E f : wr' = [wr EXCEPT ![w] = f], job' = job,
               \A q \in Thread : q # w => base'[q] = base[q], InTime(w)'
        PROVE  AllInTime'
    <2>1. \A q \in Thread : q # w => /\ pc'[q] = pc[q] /\ job'[q] = job[q]
                                     /\ base'[q] = base[q] /\ wr'[q] = wr[q]
      BY <1>0, <1>2, GotoEffect DEF TypeOK
    <2>2. QED
      BY <1>0, <1>2, <2>1, OwnInTime
  <1>3. CASE StartRead(w)
    <2>1. /\ Goto(w, "startEmpty") /\ wr' = wr /\ job' = job /\ base' = base /\ NoExaminee(w)
          /\ base[w].rows = {} /\ ~base[w].late
      BY <1>0, <1>3 DEF StartRead, InTime
    <2>2. NoExaminee(w)' /\ pc'[w] = "startEmpty"
      BY <1>0, <2>1, GotoEffect DEF NoExaminee, Live
    <2>3. InTime(w)'
      BY <2>1, <2>2 DEF InTime
    <2>4. QED
      BY <1>2, <2>1, <2>3
  <1>4. CASE StartEmpty(w)
    <2>1. /\ Goto(w, "commit") /\ job' = job /\ \E f : wr' = [wr EXCEPT ![w] = f]
          /\ base' = [base EXCEPT ![w].late = ~NoExaminee(w)]
          /\ base[w].rows = {} /\ NoExaminee(w)
      BY <1>0, <1>4 DEF StartEmpty, Write, InTime
    <2>2. base'[w].rows = {} /\ ~base'[w].late /\ \A q \in Thread : q # w => base'[q] = base[q]
      BY <1>0, <2>1 DEF Base
    <2>3. pc'[w] = "commit"
      BY <1>0, <2>1, GotoEffect
    <2>4. QED
      BY <1>0, <1>2, <2>1, <2>2, <2>3, PlainInTime
  <1>5. CASE StartSession(w) \/ StartExam(w) \/ EndSession(w)
    <2>1. /\ job' = job /\ base' = base
          /\ wr' = wr \/ \E f : wr' = [wr EXCEPT ![w] = f]
          /\ base[w].rows = {} /\ ~base[w].late
          /\ \E l : Goto(w, l) /\ l # "startEmpty"
      BY <1>0, <1>5 DEF StartSession, StartExam, EndSession, Write, InTime
    <2>2. PICK l : Goto(w, l) /\ l # "startEmpty"
      BY <2>1
    <2>3. InTime(w)'
      BY <1>0, <2>1, <2>2, GotoEffect, PlainInTime
    <2>4. QED
      BY <1>2, <2>1, <2>2, <2>3
  <1>6. CASE EndExam(w)
    <2>1. /\ Goto(w, "commit") /\ job' = job
          /\ wr' = wr \/ \E f : wr' = [wr EXCEPT ![w] = f]
          /\ base' = [base EXCEPT ![w].rows = {}, ![w].late = Closes(w) /\ ~ExamOver(w)]
      BY <1>6 DEF EndExam, Write
    <2>2. Closes(w) => ExamOver(w)
      BY <1>0, <1>6 DEF EndExam, InTime, Closes, ExamOver, Over
    <2>3. base'[w].rows = {} /\ ~base'[w].late /\ \A q \in Thread : q # w => base'[q] = base[q]
      <3>1. base'[w].rows = {} /\ base'[w].late = (Closes(w) /\ ~ExamOver(w))
            /\ \A q \in Thread : q # w => base'[q] = base[q]
        BY <1>0, <2>1 DEF Base
      <3>2. QED
        BY <2>2, <3>1
    <2>4. pc'[w] = "commit"
      BY <1>0, <2>1, GotoEffect
    <2>5. QED
      BY <1>0, <1>2, <2>1, <2>3, <2>4, PlainInTime
  <1>7. QED
    BY <1>1, <1>3, <1>4, <1>5, <1>6 DEF WorkerStep

LEMMA AwaitInTime ==
  ASSUME StageInv, AllInTime, NEW p \in Thread, Await(p)
  PROVE  AllInTime'
  <1>0. /\ TypeOK /\ InTime(p) /\ base \in [Thread -> Base]
        /\ status' = status /\ roll' = roll /\ overtaken' = overtaken
        /\ pc' = pc /\ job' = job /\ wr' = wr
    BY DEF StageInv, LockInv, TypeOK, AllInTime, Await, data, frame
  <1>1. /\ base'[p].rows = Wants(p) /\ base'[p].late = base[p].late
        /\ \A q \in Thread : q # p => base'[q] = base[q]
    BY <1>0 DEF Await, Base
  <1>2. /\ pc[p] \in {"putSessions", "statusSessions", "delSessions", "endExam"}
        /\ base[p].rows = {} /\ Wants(p) # {}
    BY DEF Await
  <1>3. Undeleted' = Undeleted /\ (Over(p) => Over(p)')
    BY <1>0 DEF Undeleted, Over
  <1>4. pc[p] \in {"statusSessions", "delSessions"} => Wants(p) = Undeleted
    BY <1>2 DEF Wants, Matched
  <1>5. pc[p] = "endExam" => status[Exam] \in {"02", "04"} /\ Over(p)
    BY <1>2 DEF Wants, Closes, ExamOver, Over
  <1>6. InTime(p)'
    BY <1>0, <1>1, <1>2, <1>3, <1>4, <1>5 DEF InTime
  <1>7. QED
    BY <1>0, <1>1, <1>6, OwnInTime

(* What a commit does to an exam that nobody replaces.                         *)
LEMMA CommitKeepsOver ==
  ASSUME StageInv, NEW p \in Thread, Commit(p), Firm, ~base[p].late, Kind(p) # "put",
         NEW q \in Thread, q # p
  PROVE  /\ status[Exam] \notin {"00", "14"} /\ Over(q) /\ status'[Exam] # "12"
              => status'[Exam] \notin {"00", "14"} /\ Over(q)'
         /\ NoExaminee(q) \/ status[Exam] = "16" => NoExaminee(q)' \/ status'[Exam] \in {"12", "16"}
  <1> DEFINE j == job[p][2]
  <1>0. /\ pc[p] = "commit" /\ Stage(p) /\ Lawful(p) /\ TypeOK
        /\ Exam \in Row /\ Session \subseteq Row /\ Undeleted \subseteq Session
        /\ wr'[q] = wr[q] /\ job'[q] = job[q]
        /\ \A s \in Session : wr[q][s] # Keep => wr[p][s] = Keep
    BY RowIsExamOrSession, CommitEffect DEF StageInv, LockInv, Undeleted
  <1>1. Kind(p) \in {"publish", "void", "delete", "start", "end"}
    BY <1>0, KindOf DEF Lawful
  <1>2. CASE Kind(p) \in {"publish", "void"}
    <2>1. /\ status'[Exam] = Target(p) /\ status[Exam] \in From(p) /\ Target(p) \in {"02", "16"}
          /\ Covers(p, Target(p))
      BY <1>0, <1>2, WholeCommit DEF Stage, StatusStage, Target
    <2>2. \A s \in Session : status'[s] = IF s \in Undeleted THEN Target(p) ELSE status[s]
      BY <1>0, <2>1, CommitEffect DEF Covers, Keep
    <2>3. CASE Kind(p) = "void"
      <3>1. Target(p) = "16"
        BY <2>3 DEF Target
      <3>2. Over(q) => Over(q)'
        BY <1>0, <2>2, <3>1 DEF Over
      <3>3. QED
        BY <2>1, <3>1, <3>2
    <2>4. CASE Kind(p) = "publish"
      <3>1. status[Exam] = "00" /\ Target(p) = "02"
        BY <2>1, <2>4 DEF From, Target
      <3>2. ASSUME NoExaminee(q) PROVE NoExaminee(q)'
        <4>1. job[q][2] \in Session /\ job[q][2] \in Undeleted /\ roll[job[q][2]] = "none"
          BY <3>2 DEF NoExaminee, Live, Undeleted
        <4>2. status'[job[q][2]] = "02"
          BY <2>2, <3>1, <4>1
        <4>3. roll'[job[q][2]] = "none"
          <5>1. roll'[job[q][2]] = NewRoll(p, job[q][2]) /\ job[q][2] \notin Inserted(p)
            BY <4>1, CommitEffect DEF Inserted, Undeleted
          <5>2. QED
            BY <2>4, <4>1, <5>1 DEF NewRoll
        <4>4. QED
          BY <1>0, <4>1, <4>2, <4>3 DEF NoExaminee, Live, None
      <3>3. QED
        BY <3>1, <3>2
    <2>5. QED
      BY <1>2, <2>3, <2>4
  <1>3. CASE Kind(p) = "delete"
    <2>1. wr[p][Exam] = "12"
      BY <1>0, <1>3 DEF Stage, DeleteStage
    <2>2. status'[Exam] = "12"
      BY <1>0, <2>1, CommitEffect DEF Keep
    <2>3. QED
      BY <2>2
  <1>4. CASE Kind(p) = "start"
    <2>1. roll' = roll /\ Undeleted' = Undeleted /\ j \in Session
      BY <1>4, StartCommit
    <2>2. CASE Empties(p) /\ status'[Exam] = "10" /\ \A s \in Session : status'[s] = status[s]
      <3>1. (Over(q) => Over(q)') /\ (NoExaminee(q) => NoExaminee(q)') /\ status[Exam] = "02"
        BY <1>0, <2>1, <2>2 DEF Over, NoExaminee, Live, Empties
      <3>2. QED
        BY <2>2, <3>1
    <2>3. CASE /\ Begins(p, j) /\ status'[Exam] = "04" /\ status'[j] = "04"
               /\ \A s \in Session : s # j => status'[s] = status[s]
      <3>1. wr[p][j] = "04" /\ status[j] = "02" /\ roll[j] # "none" /\ status[Exam] \in {"02", "04"}
        BY <2>3 DEF Begins
      <3>2. ~Over(q)
        BY <1>0, <2>1, <3>1 DEF Over, Keep
      <3>3. NoExaminee(q) => NoExaminee(q)'
        BY <1>0, <2>1, <2>3, <3>1 DEF NoExaminee, Live
      <3>4. QED
        BY <3>1, <3>2, <3>3
    <2>4. QED
      BY <1>4, <2>2, <2>3, StartCommit
  <1>5. CASE Kind(p) = "end"
    <2>1. /\ j \in Session /\ \A s \in Session : s # j => status'[s] = status[s]
          /\ status'[j] = status[j] \/ (status[j] \in {"02", "04"} /\ status'[j] = "06")
          /\ status'[Exam] = status[Exam] \/ (status'[Exam] = "06" /\ status[Exam] \in {"02", "04"})
          /\ \A s \in Undeleted : roll'[s] = "none" <=> roll[s] = "none"
      BY <1>5, EndCommit
    <2>2. (Over(q) => Over(q)') /\ (NoExaminee(q) => NoExaminee(q)')
      BY <1>0, <2>1 DEF Over, NoExaminee, Live, Undeleted, None
    <2>3. QED
      BY <2>1, <2>2
  <1>6. QED
    BY <1>1, <1>2, <1>3, <1>4, <1>5

LEMMA CommitInTime ==
  ASSUME "put" \notin Kinds, StageInv, Asked, AllInTime, NEW p \in Thread, Commit(p)
  PROVE  AllInTime'
  <1>0. TypeOK /\ Lawful(p) /\ InTime(p) /\ ~overtaken' /\ Finish(p)
    BY DEF StageInv, LockInv, AllInTime, InTime, Commit
  <1>1. Kind(p) # "put"
    BY DEF Asked
  <1>2. InTime(p)'
    BY <1>0, FinishEffect, OverInTime
  <1>3. ASSUME NEW q \in Thread, q # p PROVE InTime(q)'
    <2>1. /\ InTime(q) /\ pc'[q] = pc[q] /\ base'[q] = base[q]
      BY <1>3, CommitEffect DEF AllInTime
    <2>2. Undeleted' \subseteq Undeleted
      <3>1. ASSUME NEW s \in Undeleted', s \notin Undeleted PROVE FALSE
        <4>1. s \in Session /\ s \in Row /\ status[s] \in {None, "14"} /\ status'[s] \notin {None, "14"}
          BY <3>1, RowIsExamOrSession DEF Undeleted
        <4>2. status[s] = "14"
          BY <1>1, <4>1, CommitLawful
        <4>3. status'[s] = "14"
          BY <4>1, <4>2, CommitEffect, RowIsExamOrSession DEF StageInv, LockInv, DeletedKept, Gone
        <4>4. QED
          BY <4>1, <4>3
      <3>2. QED
        BY <3>1
    <2>3. CASE status[Exam] = "12"
      BY <2>1, <2>2, <2>3, CommitLawful DEF InTime
    <2>4. CASE status[Exam] # "12"
      <3>1. Firm /\ ~base[p].late
        BY <1>0, <2>4 DEF AllInTime, InTime, Firm
      <3>2. QED
        BY <1>1, <1>3, <2>1, <2>2, <2>4, <3>1, CommitKeepsOver DEF InTime
    <2>5. QED
      BY <2>3, <2>4
  <1>4. QED
    BY <1>0, <1>2, <1>3 DEF AllInTime

LEMMA InitInTime == Init => AllInTime
  BY DEF Init, AllInTime, InTime, NoBase

LEMMA NextInTime ==
  ASSUME "put" \notin Kinds
  PROVE  StageInv /\ Asked /\ AllInTime /\ [Next]_vars => AllInTime'
  <1> SUFFICES ASSUME StageInv, Asked, AllInTime, [Next]_vars PROVE AllInTime'
    OBVIOUS
  <1>0. TypeOK
    BY DEF StageInv, LockInv
  <1>1. ASSUME status' = status, roll' = roll, overtaken' = overtaken, wr' = wr, pc' = pc,
               job' = job, base' = base
        PROVE  AllInTime'
    BY <1>1, SameInTime DEF AllInTime
  <1>2. CASE UNCHANGED vars
    BY <1>1, <1>2 DEF vars
  <1>3. CASE Next
    <2>1. ASSUME NEW p \in Thread, ThreadStep(p) \/ CommitFails(p) PROVE AllInTime'
      <3>1. CASE DeadlockAbort(p) \/ CommitFails(p)
        BY <1>0, <3>1, LeaveInTime DEF DeadlockAbort, CommitFails, data, frame
      <3>2. QED
        BY <2>1, <3>1, CallerInTime, WorkerInTime, AwaitInTime, CommitInTime DEF ThreadStep
    <2>2. ASSUME NEW w \in Worker, NEW k \in Key, Take(w, k) PROVE AllInTime'
      <3>1. w \in Thread /\ InTime(w) /\ pc[w] = "idle"
        BY <2>2 DEF Thread, AllInTime, Take
      <3>2. /\ status' = status /\ roll' = roll /\ overtaken' = overtaken /\ base' = base /\ wr' = wr
            /\ pc'[w] # "startEmpty"
            /\ \A q \in Thread : q # w => pc'[q] = pc[q] /\ job'[q] = job[q]
        BY <1>0, <2>2, <3>1 DEF Take, Goto, data, frame, TypeOK
      <3>3. InTime(w)'
        BY <3>1, <3>2, PlainInTime DEF InTime
      <3>4. QED
        BY <3>1, <3>2, <3>3, OwnInTime
    <2>3. CASE Tick \/ \E k \in Key : Fire(k)
      BY <1>1, <2>3 DEF Tick, Fire, data, frame
    <2>4. ASSUME NEW s \in Session, AllSubmit(s) \/ Extend(s) PROVE AllInTime'
      <3>1. CASE Extend(s)
        BY <1>1, <3>1 DEF Extend, frame
      <3>2. CASE AllSubmit(s)
        <4>1. /\ status' = status /\ wr' = wr /\ pc' = pc /\ job' = job /\ base' = base
              /\ overtaken' = overtaken
              /\ \A t : roll[t] = "none" /\ t \in Session => roll'[t] = "none"
          BY <1>0, <3>2 DEF AllSubmit, frame, TypeOK
        <4>2. ASSUME NEW p \in Thread PROVE InTime(p)'
          <5>1. NoExaminee(p) => NoExaminee(p)'
            BY <4>1 DEF NoExaminee, Live
          <5>2. QED
            BY <4>1, <5>1 DEF AllInTime, InTime, Over, Undeleted
        <4>3. QED
          BY <4>1, <4>2 DEF AllInTime
      <3>3. QED
        BY <2>4, <3>1, <3>2
    <2>5. CASE Crash
      BY <2>5, OverInTime DEF Crash, AllInTime
    <2>6. QED
      BY <1>3, <2>1, <2>2, <2>3, <2>4, <2>5, CallerInTime DEF Next
  <1>4. QED
    BY <1>2, <1>3

(* Only a PUT, the one handler that inserts sessions, can have others overtake *)
(* a statement that waits for it: without it every commit is of statements     *)
(* whose WHERE clauses held when they wrote, so what is committed is           *)
(* consistent and goes forward by whole operations.                            *)
THEOREM LifecycleNotOvertaken ==
  ASSUME "put" \notin Kinds
  PROVE  Spec => []~overtaken
  <1>1. StageInv /\ Asked /\ [Next]_vars => Asked'
    BY NextAsked DEF StageInv, LockInv
  <1>2. AllInTime => ~overtaken
    BY DEF AllInTime
  <1>3. QED
    BY <1>1, <1>2, InitStages, NextStages, InitAsked, InitInTime, NextInTime, PTL DEF Spec

(* While exams are published and voided, an exam that runs is only ever ended: *)
(* neither request can commit over a start event that it has not seen.         *)
THEOREM LifecycleRunningStays ==
  ASSUME Kinds \subseteq {"publish", "void"}
  PROVE  Spec => RunningStays
  <1>1. StageInv /\ Asked /\ AllInTime /\ [Next]_vars
          => [status[Exam] = "04" => status'[Exam] \in {"04", "06"}]_vars
    <2> SUFFICES ASSUME StageInv, Asked, AllInTime, Next, status[Exam] = "04"
                 PROVE  status'[Exam] \in {"04", "06"}
      OBVIOUS
    <2>1. CASE \A p \in Thread : ~Commit(p)
      BY <2>1, OnlyCommits
    <2>2. ASSUME NEW p \in Thread, Commit(p) PROVE status'[Exam] \in {"04", "06"}
      <3>1. /\ pc[p] = "commit" /\ Stage(p) /\ Lawful(p) /\ TypeOK
            /\ Firm /\ ~base[p].late
        BY <2>2, CommitEffect DEF StageInv, LockInv, AllInTime, InTime, Firm
      <3>2. Kind(p) \in {"publish", "void", "start", "end"}
        BY <3>1, KindOf DEF Lawful, Asked
      <3>3. Kind(p) \notin {"publish", "void"}
        BY <3>1 DEF Stage, StatusStage, From
      <3>4. Kind(p) = "start" => status'[Exam] = "04"
        BY <2>2, <3>1, StartCommit DEF Empties
      <3>5. Kind(p) = "end" => status'[Exam] \in {"04", "06"}
        BY <2>2, <3>1, EndCommit
      <3>6. QED
        BY <3>2, <3>3, <3>4, <3>5
    <2>3. QED
      BY <2>1, <2>2
  <1>2. StageInv /\ Asked /\ [Next]_vars => Asked'
    BY NextAsked DEF StageInv, LockInv
  <1>3. "put" \notin Kinds
    OBVIOUS
  <1>4. StageInv /\ Asked /\ AllInTime /\ [Next]_vars => AllInTime'
    BY <1>3, NextInTime
  <1>5. QED
    BY <1>1, <1>2, <1>4, InitStages, NextStages, InitAsked, InitInTime, PTL DEF Spec, RunningStays

-----------------------------------------------------------------------------
(* Timers. *)

(* An event neither fires nor is handled before its time; an end event that    *)
(* its handler is through with leaves a session that has ended; and a session  *)
(* whose exam is published, or about to be, and is not about to lose its       *)
(* timers, has its events ahead of it.                                         *)
TimerTimes ==
  /\ \A k \in Key : armed[k] # Never => At(k) <= armed[k]
  /\ \A k \in fired : At(k) <= now
  /\ \A w \in Worker : job[w] \in Key => At(job[w]) <= now

EndWritten(p) ==
  Kind(p) = "end" /\ pc[p] \in {"endExam", "commit"} => wr[p][job[p][2]] \notin {"02", "04"}

Timely(s) == /\ Pending(<<"end", s>>)
             /\ now < Starts[s] => Pending(<<"start", s>>)

Relies(s) ==
  /\ status[Exam] # "12"
  /\ \/ status[Exam] \in {"02", "04"} /\ Settled /\ status[s] \in {"02", "04"}
     \/ s \in Undeleted /\ \E p \in Thread : Kind(p) = "publish" /\ pc[p] = "commit"

AllTimely == \A s \in Session : Relies(s) => Timely(s)

TimedInv == /\ StageInv
            /\ Asked
            /\ AllInTime
            /\ TimerTimes
            /\ \A p \in Thread : EndWritten(p)
            /\ AllTimely

LEMMA KeyFacts ==
  /\ NoJob \notin Key
  /\ \A k \in Key : /\ k[1] \in {"start", "end"} /\ k[2] \in Session
                    /\ At(k) \in Time /\ k = <<k[1], k[2]>>
  /\ \A s \in Session : /\ <<"start", s>> \in Key /\ <<"end", s>> \in Key
                        /\ At(<<"start", s>>) = Starts[s] /\ At(<<"end", s>>) = Ends[s]
                        /\ Starts[s] \in Time /\ Ends[s] \in Time
  <1>1. NoJob \notin Key
    BY DEF NoJob, Key, None
  <1>2. \A k \in Key : k[1] \in {"start", "end"} /\ k[2] \in Session /\ k = <<k[1], k[2]>>
    BY DEF Key
  <1>3. \A s \in Session : /\ <<"start", s>> \in Key /\ <<"end", s>> \in Key
                           /\ At(<<"start", s>>) = Starts[s] /\ At(<<"end", s>>) = Ends[s]
    BY DEF Key, At
  <1>4. \A s \in Session : Starts[s] \in Time /\ Ends[s] \in Time
    BY LifecycleAssumption DEF Time
  <1>5. QED
    BY <1>1, <1>2, <1>3, <1>4, AtType

(* Setting and cancelling timers, and what it does to the times.               *)
LEMMA TimesOfSteps ==
  ASSUME TypeOK, TimerTimes, now' = now, job' = job, NEW ss,
         SetExamTimers(ss) \/ CancelExamTimers(ss)
  PROVE  TimerTimes'
  <1>1. \A k \in Key : armed'[k] \in {armed[k], At(k), Never}
    BY DEF SetExamTimers, CancelExamTimers
  <1>2. \A k \in fired' : k \in fired \/ (k \in Key /\ At(k) <= now)
    BY DEF SetExamTimers, CancelExamTimers
  <1>3. \A k \in Key : At(k) <= At(k)
    BY KeyFacts, LifecycleAssumption DEF Time
  <1>4. ASSUME NEW k \in Key, armed'[k] # Never PROVE At(k) <= armed'[k]
    BY <1>1, <1>3, <1>4 DEF TimerTimes
  <1>5. Never' = Never /\ \A k : At(k)' = At(k)
    BY DEF At, Never
  <1>6. QED
    BY <1>2, <1>4, <1>5 DEF TimerTimes

LEMMA TimesOfQuiet ==
  ASSUME TimerTimes, armed' = armed, fired' = fired, now' = now,
         \A w \in Worker : job'[w] \in Key => job'[w] = job[w]
  PROVE  TimerTimes'
  BY DEF TimerTimes, At, Never

LEMMA NextTimes ==
  ASSUME TypeOK, TimerTimes, Next, StageInv
  PROVE  TimerTimes'
  <1>0. now \in Nat /\ MaxTime \in Nat /\ now <= MaxTime /\ \A k \in Key : At(k) \in Nat /\ At(k) <= MaxTime
    BY KeyFacts, LifecycleAssumption DEF TypeOK, Time
  <1>1. ASSUME NEW p \in Thread, Finish(p), now' = now, fired' = fired, armed' = armed
        PROVE  TimerTimes'
    <2>1. \A w \in Worker : job'[w] = job[w] \/ job'[w] = NoJob
      BY <1>1 DEF Finish, TypeOK, Thread
    <2>2. QED
      BY <1>1, <2>1, TimesOfQuiet, KeyFacts
  <1>2. ASSUME NEW c \in Caller, Request(c) PROVE TimerTimes'
    <2>1. \A w \in Worker : w # c
      BY LifecycleAssumption
    <2>2. now' = now /\ armed' = armed /\ fired' = fired /\ \A w \in Worker : job'[w] = job[w]
      BY <1>2, <2>1 DEF Request, PutRead, DelRead, StatusBegin, frame, timing, TypeOK, Thread
    <2>3. QED
      BY <2>2, TimesOfQuiet
  <1>3. ASSUME NEW c \in Caller, CallerStep(c) PROVE TimerTimes'
    <2>0. c \in Thread /\ now' = now
      BY <1>3 DEF Thread, CallerStep, PutBegin, PutExam, PutSessions, PutCheck, StatusCheck,
         StatusSessions, StatusExam, DelSessions, DelExam, frame
    <2>1. \/ job' = job /\ armed' = armed /\ fired' = fired
          \/ Leave(c) /\ armed' = armed /\ fired' = fired
          \/ job' = job /\ (SetExamTimers(Live) \/ CancelExamTimers(Live))
      BY <1>3 DEF CallerStep, PutBegin, PutExam, PutSessions, PutCheck, StatusCheck,
         StatusSessions, StatusExam, DelSessions, DelExam, timing
    <2>2. QED
      BY <1>1, <2>0, <2>1, TimesOfQuiet, TimesOfSteps DEF Leave
  <1>4. ASSUME NEW w \in Worker, EndRearm(w) PROVE TimerTimes'
    <2> DEFINE k0 == <<"end", job[w][2]>>
    <2>1. w \in Thread /\ Finish(w) /\ now' = now /\ fired' = fired
          /\ armed' = [armed EXCEPT ![k0] = IF now < MaxTime THEN now + 1 ELSE MaxTime]
      BY <1>4 DEF Thread, EndRearm, Leave, frame
    <2>2. pc[w] = "endSession" /\ Lawful(w)
      BY <1>4, <2>1 DEF EndRearm, StageInv
    <2>3. Kind(w) = "end" /\ job[w][2] \in Session
      BY <2>1, <2>2, KindOf DEF Lawful
    <2>4. job[w] = k0 /\ k0 \in Key
      <3>1. \A j \in JobKind \X Row : j = <<j[1], j[2]>>
        OBVIOUS
      <3>2. job[w] = <<job[w][1], job[w][2]>> /\ job[w][1] = "end"
        BY <2>1, <2>3, <3>1 DEF TypeOK, Kind
      <3>3. QED
        BY <2>3, <3>2, KeyFacts
    <2>5. At(k0) <= now
      BY <2>4 DEF TimerTimes
    <2>6. \A k \in Key : armed'[k] = IF k = k0 THEN (IF now < MaxTime THEN now + 1 ELSE MaxTime) ELSE armed[k]
      BY <2>1 DEF TypeOK
    <2>7. \A k \in Key : armed'[k] # Never => At(k) <= armed'[k]
      BY <1>0, <2>4, <2>5, <2>6 DEF TimerTimes
    <2>8. \A u \in Worker : job'[u] = job[u] \/ job'[u] = NoJob
      BY <2>1 DEF Finish, TypeOK, Thread
    <2>9. Never' = Never /\ \A k : At(k)' = At(k)
      BY DEF At, Never
    <2>10. QED
      BY <2>1, <2>7, <2>8, <2>9, KeyFacts DEF TimerTimes
  <1>5. ASSUME NEW w \in Worker, WorkerStep(w), ~EndRearm(w) PROVE TimerTimes'
    <2>0. w \in Thread /\ now' = now
      BY <1>5 DEF Thread, WorkerStep, StartRefused, StartRead, StartEmpty, StartSession, StartExam,
         EndSession, EndExam, frame
    <2>1. \/ job' = job /\ armed' = armed /\ fired' = fired
          \/ Leave(w) /\ armed' = armed /\ fired' = fired
          \/ job' = job /\ CancelExamTimers(Live)
      BY <1>5 DEF WorkerStep, StartRefused, StartRead, StartEmpty, StartSession, StartExam,
         EndSession, EndExam, timing
    <2>2. QED
      BY <1>1, <2>0, <2>1, TimesOfQuiet, TimesOfSteps DEF Leave
  <1>6. ASSUME NEW p \in Thread, Commit(p) \/ CommitFails(p) \/ DeadlockAbort(p) PROVE TimerTimes'
    BY <1>1, <1>6 DEF Commit, CommitFails, DeadlockAbort, Leave, frame, timing
  <1>7. ASSUME NEW w \in Worker, NEW k \in Key, Take(w, k) PROVE TimerTimes'
    <2>1. /\ k \in fired /\ fired' \subseteq fired /\ armed' = armed /\ now' = now
          /\ \A u \in Worker : job'[u] = IF u = w THEN k ELSE job[u]
      BY <1>7 DEF Take, frame, TypeOK, Thread
    <2>2. QED
      BY <2>1 DEF TimerTimes, At, Never
  <1>8. ASSUME NEW k \in Key, Fire(k) PROVE TimerTimes'
    <2>1. /\ armed[k] <= now /\ fired' = fired \cup {k} /\ now' = now /\ job' = job
          /\ \A j \in Key : armed'[j] = IF j = k THEN Never ELSE armed[j]
      BY <1>8 DEF Fire, frame, TypeOK
    <2>2. armed[k] # Never /\ armed[k] \in Nat
      BY <1>0, <2>1 DEF Never, TypeOK, Time
    <2>3. At(k) <= armed[k]
      BY <2>2 DEF TimerTimes
    <2>4. At(k) <= now
      BY <1>0, <2>1, <2>2, <2>3
    <2>5. QED
      BY <2>1, <2>4 DEF TimerTimes, At, Never
  <1>9. CASE Tick
    <2>1. now' = now + 1 /\ armed' = armed /\ fired' = fired /\ job' = job
      BY <1>9 DEF Tick, timing
    <2>2. \A k \in Key : At(k) <= now => At(k) <= now'
      BY <1>0, <2>1
    <2>3. fired \subseteq Key
      BY DEF TypeOK
    <2>4. QED
      BY <2>1, <2>2, <2>3 DEF TimerTimes, At, Never
  <1>10. CASE Crash
    <2> DEFINE ss == IF status[Exam] \in {"02", "04"} THEN Live ELSE {}
    <2>1. /\ armed' = [k \in Key |-> IF k[2] \in ss /\ At(k) > now THEN At(k) ELSE Never]
          /\ fired' = {k \in Key : k[2] \in ss /\ At(k) <= now}
          /\ now' = now /\ \A w \in Worker : job'[w] = NoJob
      BY <1>10 DEF Crash, Thread
    <2> HIDE DEF ss
    <2>2. \A k \in Key : armed'[k] # Never => At(k) <= armed'[k]
      BY <1>0, <2>1
    <2>3. Never' = Never /\ \A k : At(k)' = At(k)
      BY DEF At, Never
    <2>4. QED
      BY <2>1, <2>2, <2>3, KeyFacts DEF TimerTimes
  <1>11. ASSUME NEW s \in Session, AllSubmit(s) \/ Extend(s) PROVE TimerTimes'
    BY <1>11, TimesOfQuiet DEF AllSubmit, Extend, frame, timing
  <1>13. ASSUME NEW p \in Thread, Await(p) PROVE TimerTimes'
    BY <1>13, TimesOfQuiet DEF Await, frame, timing
  <1>12. QED
    BY <1>13, <1>2, <1>3, <1>4, <1>5, <1>6, <1>7, <1>8, <1>9, <1>10, <1>11 DEF Next, ThreadStep

(* Unless exams are replaced, the lock of the exam is taken last, so nobody    *)
(* holds it who waits; and who waits for a session holds nothing. Hence no     *)
(* two transactions wait for each other, and no event is lost that way.        *)
LEMMA ExamHeldLast ==
  ASSUME "put" \notin Kinds, StageInv, Asked, AllInTime, status[Exam] # "12",
         NEW p \in Thread, pc[p] # "commit"
  PROVE  wr[p][Exam] = Keep /\ Kind(p) # "put"
  <1>1. Stage(p) /\ Lawful(p) /\ TypeOK /\ Exam \in Row /\ ~base[p].late
    BY RowIsExamOrSession DEF StageInv, LockInv, AllInTime, InTime, Firm
  <1>2. Kind(p) # "put" /\ Kind(p) \in JobKind
    BY <1>1 DEF Asked, TypeOK, Kind
  <1>3. CASE Kind(p) = None
    BY <1>1, <1>2, <1>3 DEF Stage, Clear
  <1>4. CASE Kind(p) \in {"publish", "void"}
    BY <1>1, <1>2, <1>4 DEF Stage, StatusStage, Lawful, Labels, Clear
  <1>5. CASE Kind(p) = "delete"
    BY <1>1, <1>2, <1>5 DEF Stage, DeleteStage, Lawful, Labels, Clear
  <1>6. CASE Kind(p) = "start"
    BY <1>1, <1>2, <1>6 DEF Stage, StartStage, Lawful, Labels, Clear
  <1>7. CASE Kind(p) = "end"
    BY <1>1, <1>2, <1>7 DEF Stage, EndStage, Lawful, Labels, Clear
  <1>8. QED
    BY <1>2, <1>3, <1>4, <1>5, <1>6, <1>7 DEF JobKind

LEMMA NoDeadlock ==
  ASSUME "put" \notin Kinds, StageInv, Asked, AllInTime, status[Exam] # "12", NEW p \in Thread
  PROVE  ~DeadlockAbort(p)
  <1> SUFFICES ASSUME DeadlockAbort(p) PROVE FALSE
    OBVIOUS
  <1>0. TypeOK /\ Session \subseteq Row /\ Exam \in Row
    BY RowIsExamOrSession DEF StageInv, LockInv
  <1>1. PICK q \in Thread \ {p} : /\ \E r \in Wants(p) : wr[q][r] # Keep
                                  /\ \E r \in Wants(q) : wr[p][r] # Keep
    BY DEF DeadlockAbort
  <1>2. ASSUME NEW a \in Thread, NEW r \in Wants(a)
        PROVE  pc[a] # "commit" /\ r \in Row
    <2>1. job[a][2] \in Row /\ Matched(a) \subseteq Row
      BY <1>0, MatchedType DEF TypeOK, Undeleted
    <2>2. QED
      BY <1>0, <1>2, <2>1 DEF Wants
  <1>3. ASSUME NEW a \in Thread, NEW r \in Wants(a), r # Exam PROVE Clear(a)
    <2>1. pc[a] \in {"putSessions", "statusSessions", "delSessions", "startSession", "endSession"}
      BY <1>3 DEF Wants
    <2>2. Stage(a) /\ pc[a] \in Labels(a) /\ Kind(a) # "put" /\ ~base[a].late
      BY <2>1, ExamHeldLast DEF StageInv, Lawful, AllInTime, InTime, Firm
    <2>3. QED
      BY <1>0, <2>1, <2>2, KindOf DEF Stage, StatusStage, DeleteStage, StartStage, EndStage
  <1>4. PICK r \in Wants(p) : wr[q][r] # Keep
    BY <1>1
  <1>5. PICK t \in Wants(q) : wr[p][t] # Keep
    BY <1>1
  <1>6. pc[p] # "commit" /\ pc[q] # "commit" /\ t \in Row /\ r \in Row
    BY <1>1, <1>2, <1>4, <1>5
  <1>7. wr[p][Exam] = Keep /\ wr[q][Exam] = Keep
    BY <1>1, <1>6, ExamHeldLast
  <1>8. QED
    BY <1>1, <1>3, <1>4, <1>5, <1>6, <1>7 DEF Clear

(* Timers, events and handlers pass a pending event on.                        *)
LEMMA StillTimely ==
  ASSUME TypeOK, TypeOK', TimerTimes, NEW s \in Session, Timely(s), now <= now',
         \A k \in {<<"start", s>>, <<"end", s>>} :
            /\ armed[k] # Never => Pending(k)'
            /\ k \in fired => Pending(k)',
         \A w \in Worker : job[w] = <<"end", s>> => Pending(<<"end", s>>)'
  PROVE  Timely(s)'
  <1>1. Pending(<<"end", s>>)'
    BY DEF Timely, Pending
  <1>2. ASSUME now' < Starts[s] PROVE Pending(<<"start", s>>)'
    <2>1. now \in Nat /\ now' \in Nat /\ Starts[s] \in Nat
      BY KeyFacts, LifecycleAssumption DEF TypeOK, Time
    <2>2. now < Starts[s]
      BY <1>2, <2>1
    <2>3. ASSUME NEW w \in Worker, job[w] = <<"start", s>> PROVE FALSE
      <3>1. At(job[w]) <= now /\ At(job[w]) = Starts[s]
        BY <2>3, KeyFacts DEF TimerTimes
      <3>2. QED
        BY <2>1, <2>2, <3>1
    <2>4. QED
      BY <2>2, <2>3 DEF Timely, Pending
  <1>3. QED
    BY <1>1, <1>2 DEF Timely

LEMMA QuietTimely ==
  ASSUME TypeOK, TypeOK', TimerTimes, NEW s \in Session, Timely(s),
         armed' = armed, fired' = fired, now' = now,
         \A w \in Worker : job[w] = <<"end", s>> => job'[w] = job[w]
  PROVE  Timely(s)'
  <1>1. now <= now'
    BY LifecycleAssumption DEF TypeOK, Time
  <1>2. \A k : Pending(k)' <=> armed'[k] # Never \/ k \in fired' \/ \E w \in Worker : job'[w] = k
    BY DEF Pending, Never
  <1>3. QED
    BY <1>1, <1>2, StillTimely

(* A session that relies on its timers after a step that commits nothing did   *)
(* so before.                                                                 *)
LEMMA ReliesBefore ==
  ASSUME NEW s \in Session, Relies(s)', status' = status,
         \A p \in Thread : wr[p][Exam] \in {"10", "12", "16"} => wr'[p][Exam] \in {"10", "12", "16"},
         \A p \in Thread : Kind(p)' = "publish" /\ pc'[p] = "commit"
                             => Kind(p) = "publish" /\ pc[p] = "commit"
  PROVE  Relies(s)
  <1>1. Undeleted' = Undeleted
    BY DEF Undeleted
  <1>2. QED
    BY <1>1 DEF Relies, Settled

(* A step of one transaction, up to its commit, that leaves the timers alone.  *)
LEMMA QuietStep ==
  ASSUME TimedInv, TypeOK', NEW p \in Thread, status' = status, armed' = armed, fired' = fired, now' = now,
         \A q \in Thread : q # p => pc'[q] = pc[q] /\ job'[q] = job[q] /\ wr'[q] = wr[q],
         wr[p][Exam] \in {"10", "12", "16"} => wr'[p][Exam] \in {"10", "12", "16"},
         pc'[p] = "commit" => Kind(p)' # "publish",
         p \in Worker => job'[p] = job[p] \/ job[p][1] # "end"
  PROVE  AllTimely'
  <1> SUFFICES ASSUME NEW s \in Session, Relies(s)' PROVE Timely(s)'
    BY DEF AllTimely
  <1>1. TypeOK /\ TimerTimes
    BY DEF TimedInv, StageInv, LockInv
  <1>2. \A q \in Thread : Kind(q)' = "publish" /\ pc'[q] = "commit" => Kind(q) = "publish" /\ pc[q] = "commit"
    BY DEF Kind
  <1>3. Relies(s)
    BY <1>2, ReliesBefore
  <1>4. \A w \in Worker : job[w] = <<"end", s>> => job'[w] = job[w]
    <2> SUFFICES ASSUME NEW w \in Worker, job[w] = <<"end", s>>, w = p PROVE job'[w] = job[w]
      BY DEF Thread
    <2>1. job[w][1] = "end"
      OBVIOUS
    <2>2. QED
      BY <2>1
  <1>5. QED
    BY <1>1, <1>3, <1>4, QuietTimely DEF TimedInv, AllTimely

(* Who leaves early or waits for his first row had not touched the exam.       *)
LEMMA QuietLeave ==
  ASSUME "put" \notin Kinds, TimedInv, TypeOK', NEW p \in Thread, Leave(p), status' = status,
         status[Exam] # "12", pc[p] # "commit", armed' = armed, fired' = fired, now' = now,
         p \in Worker => job[p][1] # "end"
  PROVE  AllTimely'
  <1>1. wr[p][Exam] = Keep
    BY ExamHeldLast DEF TimedInv
  <1>2. TypeOK /\ Finish(p)
    BY DEF TimedInv, StageInv, LockInv, Leave
  <1>3. QED
    BY <1>1, <1>2, FinishEffect, QuietStep DEF Keep

(* Who cancels timers has written the exam's new status, which nobody else can *)
(* have done: until the commit no session relies on its timers.                *)
LEMMA Unsettled ==
  ASSUME TimedInv, NEW p \in Thread, status' = status, Free(p, Exam),
         wr'[p][Exam] \in {"10", "12", "16"}, Kind(p)' # "publish",
         \A q \in Thread : q # p => pc'[q] = pc[q] /\ job'[q] = job[q] /\ wr'[q] = wr[q]
  PROVE  AllTimely'
  <1> SUFFICES ASSUME NEW s \in Session, Relies(s)' PROVE FALSE
    BY DEF AllTimely
  <1>1. ~Settled'
    BY DEF Settled
  <1>2. PICK q \in Thread : Kind(q)' = "publish" /\ pc'[q] = "commit"
    BY <1>1 DEF Relies
  <1>3. q # p /\ Kind(q) = "publish" /\ pc[q] = "commit"
    BY <1>2 DEF Kind
  <1>4. wr[q][Exam] = "02"
    BY <1>3 DEF TimedInv, StageInv, Lawful, Target
  <1>5. QED
    BY <1>3, <1>4 DEF Free, Keep

LEMMA CallerTimely ==
  ASSUME "put" \notin Kinds, TimedInv, TypeOK', status[Exam] # "12", NEW c \in Caller,
         Request(c) \/ CallerStep(c)
  PROVE  AllTimely'
  <1>0. /\ c \in Thread /\ c \notin Worker /\ StageInv /\ Asked /\ TypeOK /\ Stage(c) /\ Lawful(c)
        /\ Firm /\ ~base[c].late
        /\ Exam \in Row /\ Exam \notin Session /\ Undeleted \subseteq Session /\ Live \subseteq Undeleted
    BY RowIsExamOrSession, LifecycleAssumption
       DEF Thread, TimedInv, StageInv, LockInv, Undeleted, Live, AllInTime, InTime, Firm
  <1>1. CASE Request(c)
    <2>1. /\ status' = status /\ armed' = armed /\ fired' = fired /\ now' = now /\ wr' = wr
          /\ pc'[c] # "commit"
          /\ \A q \in Thread : q # c => pc'[q] = pc[q] /\ job'[q] = job[q]
      BY <1>0, <1>1 DEF Request, PutRead, DelRead, StatusBegin, Goto, data, timing, frame, TypeOK
    <2>2. QED
      BY <1>0, <2>1, QuietStep
  <1>2. ~(PutBegin(c) \/ PutExam(c) \/ PutSessions(c) \/ PutCheck(c))
    BY <1>0, KindOf DEF PutBegin, PutExam, PutSessions, PutCheck, Asked, Lawful
  <1>3. CASE StatusCheck(c)
    <2>1. status' = status /\ armed' = armed /\ fired' = fired /\ now' = now /\ pc[c] = "statusCheck"
      BY <1>3 DEF StatusCheck, data, timing, frame
    <2>2. CASE Goto(c, "statusSessions") /\ UNCHANGED <<wr, job, seen>>
      BY <1>0, <2>1, <2>2, GotoEffect, QuietStep
    <2>3. CASE Leave(c)
      BY <1>0, <2>1, <2>3, QuietLeave
    <2>4. QED
      BY <1>3, <2>2, <2>3 DEF StatusCheck
  <1>4. CASE StatusSessions(c) \/ DelSessions(c)
    <2>1. /\ status' = status /\ armed' = armed /\ fired' = fired /\ now' = now /\ job' = job
          /\ Goto(c, "statusExam") \/ Goto(c, "delExam")
          /\ Write(c, Matched(c), Target(c)) \/ Write(c, Matched(c), "14")
      BY <1>4 DEF StatusSessions, DelSessions, data, timing, frame
    <2>2. /\ wr'[c][Exam] = wr[c][Exam] /\ pc'[c] # "commit"
          /\ \A q \in Thread : q # c => pc'[q] = pc[q] /\ wr'[q] = wr[q]
      <3>1. Exam \notin Matched(c)
        BY <1>0, MatchedType
      <3>2. QED
        BY <1>0, <2>1, <3>1, GotoEffect, WriteEffect
    <2>3. QED
      BY <1>0, <2>1, <2>2, QuietStep
  <1>5. CASE StatusExam(c)
    <2>1. status' = status /\ now' = now /\ pc[c] = "statusExam" /\ Kind(c) \in {"publish", "void"}
      BY <1>0, <1>5, KindOf DEF StatusExam, data, frame, Lawful
    <2>2. CASE Leave(c) /\ UNCHANGED timing
      BY <1>0, <2>1, <2>2, QuietLeave DEF timing
    <2>3. CASE /\ seen[c] /\ Free(c, Exam) /\ Write(c, {Exam}, Target(c))
               /\ IF Kind(c) = "publish" THEN SetExamTimers(Live) ELSE CancelExamTimers(Live)
               /\ Goto(c, "commit")
               /\ UNCHANGED <<job, base, seen>>
      <3>1. /\ wr'[c][Exam] = Target(c) /\ Kind(c)' = Kind(c)
            /\ \A q \in Thread : q # c => pc'[q] = pc[q] /\ job'[q] = job[q] /\ wr'[q] = wr[q]
        BY <1>0, <2>3, GotoEffect, WriteEffect DEF Kind
      <3>2. CASE Kind(c) = "void"
        BY <1>0, <2>1, <2>3, <3>1, <3>2, Unsettled DEF Target
      <3>3. CASE Kind(c) = "publish"
        <4> SUFFICES ASSUME NEW s \in Session, Relies(s)' PROVE Timely(s)'
          BY DEF AllTimely
        <4>1. status[Exam] = "00"
          BY <1>0, <2>1, <2>3, <3>3 DEF Stage, StatusStage, From
        <4>2. s \in Undeleted
          BY <2>1, <4>1 DEF Relies, Undeleted
        <4>3. status[s] = "00"
          BY <1>0, <4>1, <4>2 DEF StageInv, ExamRows, SessionsOf
        <4>4. s \in Live
          BY <4>2, <4>3 DEF Undeleted, Live
        <4>5. \A k \in Key : k[2] = s => armed'[k] = (IF At(k) > now THEN At(k) ELSE Never)
                                         /\ (At(k) <= now => k \in fired')
          BY <2>3, <3>3, <4>4 DEF SetExamTimers
        <4>6. \A k \in Key : At(k) # Never /\ (At(k) > now \/ At(k) <= now)
          BY <1>0, KeyFacts, LifecycleAssumption DEF Never, Time, TypeOK
        <4>7. \A k \in Key : k[2] = s => Pending(k)'
          BY <4>5, <4>6 DEF Pending, Never
        <4>8. QED
          BY <4>7, KeyFacts DEF Timely
      <3>4. QED
        BY <2>1, <3>2, <3>3
    <2>4. QED
      BY <1>5, <2>2, <2>3 DEF StatusExam
  <1>6. CASE DelExam(c)
    <2>1. /\ status' = status /\ job' = job /\ Free(c, Exam) /\ Goto(c, "commit")
          /\ Write(c, {r \in {Exam} : status[r] # "12"}, "12") /\ pc[c] = "delExam"
      BY <1>0, <1>6 DEF DelExam, data
    <2>2. Kind(c) = "delete"
      BY <1>0, <2>1, KindOf DEF Lawful
    <2>3. /\ wr'[c][Exam] = "12" /\ Kind(c)' # "publish"
          /\ \A q \in Thread : q # c => pc'[q] = pc[q] /\ job'[q] = job[q] /\ wr'[q] = wr[q]
      BY <1>0, <2>1, <2>2, GotoEffect, WriteEffect DEF Kind
    <2>4. QED
      BY <1>0, <2>1, <2>3, Unsettled
  <1>7. QED
    BY <1>1, <1>2, <1>3, <1>4, <1>5, <1>6 DEF CallerStep

LEMMA WorkerTimely ==
  ASSUME "put" \notin Kinds, TimedInv, TypeOK', status[Exam] # "12", NEW w \in Worker, WorkerStep(w)
  PROVE  AllTimely'
  <1>0. /\ w \in Thread /\ StageInv /\ Asked /\ TypeOK /\ TimerTimes /\ Lawful(w)
        /\ Exam \in Row /\ Exam \notin Session /\ pc[w] # "commit" /\ pc[w] \in Labels(w)
    BY RowIsExamOrSession
       DEF Thread, TimedInv, StageInv, LockInv, WorkerStep, StartRefused, StartRead, StartEmpty, StartSession,
           StartExam, EndRearm, EndSession, EndExam, Lawful
  <1>1. wr[w][Exam] = Keep
    BY <1>0, ExamHeldLast DEF TimedInv
  <1>2. status' = status /\ now' = now
    BY DEF WorkerStep, StartRefused, StartRead, StartEmpty, StartSession, StartExam, EndRearm, EndSession,
       EndExam, data, frame
  <1>3. CASE StartRefused(w)
    <2>1. Kind(w) = "start"
      BY <1>0, <1>3, KindOf DEF StartRefused
    <2>2. job[w][1] # "end"
      BY <2>1 DEF Kind
    <2>3. QED
      BY <1>0, <1>2, <1>3, <2>2, QuietLeave DEF StartRefused, timing
  <1>4. CASE StartEmpty(w)
    <2>1. /\ Kind(w) = "start" /\ job' = job /\ Free(w, Exam)
          /\ Write(w, {Exam}, "10") /\ Goto(w, "commit")
      BY <1>0, <1>4, KindOf DEF StartEmpty
    <2>2. /\ wr'[w][Exam] = "10" /\ Kind(w)' # "publish"
          /\ \A q \in Thread : q # w => pc'[q] = pc[q] /\ job'[q] = job[q] /\ wr'[q] = wr[q]
      BY <1>0, <2>1, GotoEffect, WriteEffect DEF Kind
    <2>3. QED
      BY <1>0, <1>2, <2>1, <2>2, Unsettled
  <1>5. CASE StartRead(w) \/ StartSession(w) \/ StartExam(w) \/ EndSession(w) \/ EndExam(w)
    <2>1. /\ armed' = armed /\ fired' = fired /\ job' = job
          /\ \/ Goto(w, "startEmpty") \/ Goto(w, "startExam")
             \/ Goto(w, "endExam") \/ Goto(w, "commit")
          /\ wr' = wr \/ \E f : wr' = [wr EXCEPT ![w] = f]
      BY <1>5 DEF StartRead, StartSession, StartExam, EndSession, EndExam, Write, timing
    <2>2. Kind(w) \in {"start", "end"} /\ Kind(w)' = Kind(w)
      BY <1>0, <1>5, <2>1, KindOf DEF StartRead, StartSession, StartExam, EndSession, EndExam, Kind
    <2>3. \A q \in Thread : q # w => pc'[q] = pc[q] /\ wr'[q] = wr[q]
      BY <1>0, <2>1, GotoEffect DEF TypeOK
    <2>4. QED
      BY <1>0, <1>1, <1>2, <2>1, <2>2, <2>3, QuietStep DEF Keep
  <1>6. CASE EndRearm(w)
    <2> DEFINE k0 == <<"end", job[w][2]>>
    <2>1. /\ Leave(w) /\ Finish(w) /\ fired' = fired /\ pc[w] = "endSession"
          /\ armed' = [armed EXCEPT ![k0] = IF now < MaxTime THEN now + 1 ELSE MaxTime]
      BY <1>6 DEF EndRearm, Leave
    <2>2. Kind(w) = "end" /\ job[w][2] \in Session
      BY <1>0, <2>1, KindOf DEF Lawful
    <2>3. k0 \in Key
      BY <2>2, KeyFacts
    <2>4. (IF now < MaxTime THEN now + 1 ELSE MaxTime) # Never
      BY <1>0, LifecycleAssumption DEF TypeOK, Time, Never
    <2>5. armed'[k0] # Never /\ \A k \in Key : k # k0 => armed'[k] = armed[k]
      BY <1>0, <2>1, <2>3, <2>4 DEF TypeOK
    <2> SUFFICES ASSUME NEW s \in Session, Relies(s)' PROVE Timely(s)'
      BY DEF AllTimely
    <2>6. \A q \in Thread : Kind(q)' = "publish" /\ pc'[q] = "commit"
                              => Kind(q) = "publish" /\ pc[q] = "commit"
      BY <1>0, <2>1, FinishEffect DEF Kind
    <2>7. \A q \in Thread : wr[q][Exam] \in {"10", "12", "16"} => wr'[q][Exam] \in {"10", "12", "16"}
      BY <1>0, <1>1, <2>1, FinishEffect DEF Keep
    <2>8. Relies(s)
      BY <1>2, <2>6, <2>7, ReliesBefore
    <2>9. ASSUME NEW k \in Key, armed[k] # Never \/ k \in fired PROVE Pending(k)'
      BY <2>1, <2>5, <2>9 DEF Pending, Never
    <2>10. ASSUME NEW u \in Worker, job[u] = <<"end", s>> PROVE Pending(<<"end", s>>)'
      <3>1. CASE u = w
        <4>1. k0 = <<"end", s>>
          BY <2>10, <3>1
        <4>2. QED
          BY <2>5, <4>1 DEF Pending, Never
      <3>2. CASE u # w
        <4>1. job'[u] = job[u]
          BY <1>0, <2>1, <3>2, FinishEffect DEF Thread
        <4>2. QED
          BY <2>10, <4>1 DEF Pending
      <3>3. QED
        BY <3>1, <3>2
    <2>11. now <= now'
      BY <1>0, <1>2, LifecycleAssumption DEF TypeOK, Time
    <2>12. QED
      BY <1>0, <2>8, <2>9, <2>10, <2>11, KeyFacts, StillTimely DEF TimedInv, AllTimely
  <1>7. QED
    BY <1>3, <1>4, <1>5, <1>6 DEF WorkerStep

LEMMA CommitTimely ==
  ASSUME "put" \notin Kinds, TimedInv, TypeOK', status[Exam] # "12", NEW p \in Thread, Commit(p)
  PROVE  AllTimely'
  <1> DEFINE j == job[p][2]
  <1>0. /\ Firm /\ ~base[p].late /\ \A q \in Thread : ~base[q].late
        /\ StageInv /\ Asked /\ TypeOK /\ TimerTimes /\ ExamRows /\ pc[p] = "commit"
        /\ Lawful(p) /\ Stage(p) /\ EndWritten(p) /\ LockExclusive
        /\ Exam \in Row /\ Session \subseteq Row /\ Exam \notin Session /\ Undeleted \subseteq Session
    BY CommitEffect, RowIsExamOrSession
       DEF TimedInv, StageInv, LockInv, Undeleted, AllInTime, InTime, Firm
  <1>1. Kind(p) \in {"publish", "void", "delete", "start", "end"}
    BY <1>0, KindOf DEF Asked, Lawful
  <1>2. /\ armed' = armed /\ fired' = fired /\ now' = now
        /\ \A q \in Thread : q # p => /\ pc'[q] = pc[q] /\ job'[q] = job[q] /\ wr'[q] = wr[q]
                                      /\ Kind(q)' = Kind(q)
        /\ Kind(p)' = None
    BY <1>0, FinishEffect DEF Commit, timing, frame, Kind, NoJob
  <1> SUFFICES ASSUME NEW s \in Session, Relies(s)' PROVE Timely(s)'
    BY DEF AllTimely
  <1>3. ASSUME Relies(s), Kind(p) = "end" => s # j PROVE Timely(s)'
    <2>1. Timely(s)
      BY <1>3 DEF TimedInv, AllTimely
    <2>2. \A w \in Worker : job[w] = <<"end", s>> => job'[w] = job[w]
      <3> SUFFICES ASSUME NEW w \in Worker, job[w] = <<"end", s>> PROVE w # p
        BY <1>2 DEF Thread
      <3>1. job[w][1] = "end" /\ job[w][2] = s
        OBVIOUS
      <3>2. QED
        BY <1>3, <3>1 DEF Kind
    <2>3. QED
      BY <1>0, <1>2, <2>1, <2>2, QuietTimely
  (* A publish at its commit holds the exam and all sessions.                  *)
  <1>4. ASSUME NEW q \in Thread, Kind(q)' = "publish", pc'[q] = "commit"
        PROVE  /\ q # p /\ Kind(q) = "publish" /\ pc[q] = "commit" /\ wr[p][Exam] = Keep
               /\ status[Exam] = "00" /\ \A r \in Undeleted : wr[p][r] = Keep
    <2>1. q # p /\ Kind(q) = "publish" /\ pc[q] = "commit"
      BY <1>2, <1>4 DEF None
    <2>2. /\ wr[q][Exam] = "02" /\ status[Exam] = "00"
          /\ \A r \in Undeleted : wr[q][r] = "02"
      <3>1. Stage(q)
        BY <1>0 DEF StageInv
      <3>2. QED
        BY <1>0, <2>1, <3>1 DEF Stage, StatusStage, Target, From, Covers
    <2>3. QED
      BY <1>0, <2>1, <2>2 DEF LockExclusive, Keep
  <1>5. CASE Kind(p) = "publish"
    <2>1. Covers(p, "02")
      BY <1>0, <1>5 DEF Stage, StatusStage, Target
    <2>2. \A r \in Session : status'[r] = IF r \in Undeleted THEN "02" ELSE status[r]
      BY <1>0, <2>1, CommitEffect DEF Covers, Keep
    <2>3. Undeleted' = Undeleted
      BY <2>2 DEF Undeleted, None
    <2>4. s \in Undeleted
      BY <2>3 DEF Relies, Undeleted, None
    <2>5. Relies(s)
      BY <1>0, <1>5, <2>4 DEF Relies
    <2>6. QED
      BY <1>3, <1>5, <2>5
  <1>6. CASE Kind(p) \in {"void", "delete"}
    <2>1. wr[p][Exam] \in {"12", "16"}
      BY <1>0, <1>6 DEF Stage, StatusStage, DeleteStage, Target
    <2>2. status'[Exam] \in {"12", "16"}
      BY <1>0, <2>1, CommitEffect DEF Keep
    <2>3. PICK q \in Thread : Kind(q)' = "publish" /\ pc'[q] = "commit"
      BY <2>2 DEF Relies
    <2>4. QED
      BY <1>4, <2>1, <2>3 DEF Keep
  <1>7. CASE Kind(p) = "start"
    <2>1. Undeleted' = Undeleted /\ j \in Session
      BY <1>0, <1>7, StartCommit
    <2>2. ASSUME NEW q \in Thread, Kind(q)' = "publish", pc'[q] = "commit" PROVE FALSE
      <3>1. status[Exam] \in {"02", "04"}
        BY <1>0, <1>7, StartCommit DEF Empties, Begins
      <3>2. QED
        BY <1>4, <2>2, <3>1
    <2>3. status'[Exam] \in {"02", "04"} /\ Settled' /\ status'[s] \in {"02", "04"}
      BY <2>2 DEF Relies
    <2>4. /\ Begins(p, j) /\ status'[j] = "04"
          /\ wr[p][Exam] \in {"04", Keep}
          /\ \A t \in Session : t # j => status'[t] = status[t]
      BY <1>0, <1>7, <2>3, StartCommit
    <2>5. Settled
      BY <1>2, <2>3, <2>4 DEF Settled, Keep
    <2>6. status[s] \in {"02", "04"}
      BY <2>3, <2>4 DEF Begins
    <2>7. Relies(s)
      BY <1>0, <2>4, <2>5, <2>6 DEF Relies, Begins
    <2>8. QED
      BY <1>3, <1>7, <2>7
  <1>8. CASE Kind(p) = "end"
    <2>1. /\ Undeleted' = Undeleted /\ j \in Session /\ wr[p][j] = status'[j]
          /\ \A t \in Session : t # j => status'[t] = status[t]
      BY <1>0, <1>8, EndCommit
    <2>2. CASE \E q \in Thread : s \in Undeleted' /\ Kind(q)' = "publish" /\ pc'[q] = "commit"
      <3>1. PICK q \in Thread : Kind(q)' = "publish" /\ pc'[q] = "commit"
        BY <2>2
      <3>2. Kind(q) = "publish" /\ pc[q] = "commit" /\ s \in Undeleted /\ wr[p][s] = Keep
        BY <1>4, <2>1, <2>2, <3>1
      <3>3. s # j
        BY <1>0, <2>1, <3>2 DEF TypeOK, Status, Keep, None
      <3>4. QED
        BY <1>3, <3>2, <3>3 DEF Relies
    <2>3. CASE status'[Exam] \in {"02", "04"} /\ Settled' /\ status'[s] \in {"02", "04"}
      <3>1. wr[p][j] \notin {"02", "04"}
        BY <1>0, <1>8 DEF EndWritten
      <3>2. s # j /\ status[s] \in {"02", "04"}
        BY <2>1, <2>3, <3>1
      <3>3. status[Exam] \in {"02", "04"} /\ wr[p][Exam] = Keep
        BY <1>0, <1>8, <2>3, EndCommit
      <3>4. Settled
        BY <1>2, <2>3, <3>3 DEF Settled, Keep
      <3>5. QED
        BY <1>3, <3>2, <3>3, <3>4 DEF Relies
    <2>4. QED
      BY <2>2, <2>3 DEF Relies
  <1>9. QED
    BY <1>1, <1>5, <1>6, <1>7, <1>8

LEMMA ClockTimely ==
  ASSUME TimedInv, TypeOK', status[Exam] # "12",
         \/ Tick \/ Crash
         \/ \E s \in Session : AllSubmit(s) \/ Extend(s)
         \/ \E k \in Key : Fire(k)
         \/ \E w \in Worker, k \in Key : Take(w, k)
  PROVE  AllTimely'
  <1>0. StageInv /\ TypeOK /\ TimerTimes /\ now \in Nat
    BY LifecycleAssumption DEF TimedInv, StageInv, LockInv, TypeOK, Time
  <1> SUFFICES ASSUME NEW s \in Session, Relies(s)' PROVE Timely(s)'
    BY DEF AllTimely
  <1>1. ASSUME status' = status, wr' = wr, pc' = pc, job' = job PROVE Timely(s)
    <2>1. Relies(s)
      BY <1>1, ReliesBefore DEF Kind
    <2>2. QED
      BY <2>1 DEF TimedInv, AllTimely
  <1>2. CASE Tick
    <2>1. now <= now' /\ armed' = armed /\ fired' = fired /\ job' = job
      BY <1>0, <1>2 DEF Tick, timing
    <2>2. Timely(s)
      BY <1>1, <1>2 DEF Tick, data
    <2>3. QED
      BY <1>0, <2>1, <2>2, StillTimely DEF Pending, Never
  <1>3. CASE \E t \in Session : AllSubmit(t) \/ Extend(t)
    <2>1. Timely(s)
      BY <1>1, <1>3 DEF AllSubmit, Extend
    <2>2. QED
      BY <1>0, <1>3, <2>1, QuietTimely DEF AllSubmit, Extend, timing, frame
  <1>4. ASSUME NEW k \in Key, Fire(k) PROVE Timely(s)'
    <2>1. /\ now <= now' /\ job' = job /\ fired' = fired \cup {k}
          /\ \A i \in Key : i # k => armed'[i] = armed[i]
      BY <1>0, <1>4 DEF Fire, frame, TypeOK
    <2>2. Timely(s)
      BY <1>1, <1>4 DEF Fire, data
    <2>3. \A i \in Key : armed[i] # Never \/ i \in fired => Pending(i)'
      BY <2>1 DEF Pending, Never
    <2>4. QED
      BY <1>0, <2>1, <2>2, <2>3, KeyFacts, StillTimely DEF Pending
  <1>5. ASSUME NEW w \in Worker, NEW k \in Key, Take(w, k) PROVE Timely(s)'
    <2>0. w \in Thread
      BY DEF Thread
    <2>1. /\ now' = now /\ now <= now' /\ armed' = armed /\ fired' = fired \ {k} /\ job'[w] = k
          /\ status' = status /\ wr' = wr /\ pc[w] = "idle"
          /\ pc'[w] # "commit"
          /\ \A q \in Thread : q # w => job'[q] = job[q] /\ pc'[q] = pc[q]
      BY <1>0, <1>5, <2>0 DEF Take, frame, data, Goto, TypeOK
    <2>2. Relies(s)
      <3>1. \A q \in Thread : Kind(q)' = "publish" /\ pc'[q] = "commit"
                                => Kind(q) = "publish" /\ pc[q] = "commit"
        BY <2>1 DEF Kind
      <3>2. QED
        BY <2>1, <3>1, ReliesBefore
    <2>3. job[w] # <<"end", s>>
      <3>1. Kind(w) = None
        BY <1>0, <2>0, <2>1, KindOf DEF StageInv, Lawful
      <3>2. QED
        BY <3>1 DEF Kind, None
    <2>4. \A i \in Key : armed[i] # Never \/ i \in fired => Pending(i)'
      BY <2>1 DEF Pending, Never
    <2>5. \A u \in Worker : job[u] = <<"end", s>> => Pending(<<"end", s>>)'
      BY <2>1, <2>3 DEF Pending, Thread
    <2>6. QED
      BY <1>0, <2>1, <2>2, <2>4, <2>5, KeyFacts, StillTimely DEF TimedInv, AllTimely
  <1>6. CASE Crash
    <2>1. status' = status /\ now' = now /\ \A p \in Thread : Kind(p)' = None
      BY <1>6 DEF Crash, data, Kind, NoJob
    <2>2. status[Exam] \in {"02", "04"} /\ status[s] \in {"02", "04"}
      BY <2>1 DEF Relies, None
    <2>3. s \in Live
      BY <2>2 DEF Live, None
    <2>4. \A k \in Key : k[2] = s => (armed'[k] = IF At(k) > now THEN At(k) ELSE Never)
                                     /\ (At(k) <= now => k \in fired')
      BY <1>6, <2>2, <2>3 DEF Crash
    <2>5. \A k \in Key : At(k) # Never /\ (At(k) > now \/ At(k) <= now)
      BY <1>0, KeyFacts, LifecycleAssumption DEF Never, Time
    <2>6. \A k \in Key : k[2] = s => Pending(k)'
      BY <2>4, <2>5 DEF Pending, Never
    <2>7. QED
      BY <2>6, KeyFacts DEF Timely
  <1>7. QED
    BY <1>2, <1>3, <1>4, <1>5, <1>6

(* What an end handler writes lets nobody wait for another end event.          *)
LEMMA NextEndWritten ==
  ASSUME TimedInv, Next, NEW p \in Thread
  PROVE  EndWritten(p)'
  <1>0. /\ StageInv /\ TypeOK /\ EndWritten(p) /\ Lawful(p) /\ pc[p] \in Labels(p)
        /\ Exam \notin Session /\ Session \subseteq Row
    BY RowIsExamOrSession DEF TimedInv, StageInv, LockInv, Lawful
  <1>1. ASSUME pc'[p] = pc[p], job'[p] = job[p], wr'[p] = wr[p] PROVE EndWritten(p)'
    BY <1>0, <1>1 DEF EndWritten, Kind
  <1>2. ASSUME pc'[p] \notin {"endExam", "commit"} PROVE EndWritten(p)'
    BY <1>2 DEF EndWritten
  <1>3. ASSUME job'[p] = job[p], Kind(p) # "end" PROVE EndWritten(p)'
    BY <1>3 DEF EndWritten, Kind
  <1>4. ASSUME NEW q \in Thread, Finish(q) PROVE EndWritten(p)'
    BY <1>0, <1>1, <1>2, <1>4, FinishEffect
  <1>5. ASSUME NEW c \in Caller, Request(c) PROVE EndWritten(p)'
    <2>1. c \in Thread /\ wr' = wr /\ pc'[c] \notin {"endExam", "commit"}
          /\ \A q \in Thread : q # c => pc'[q] = pc[q] /\ job'[q] = job[q]
      BY <1>0, <1>5 DEF Thread, Request, PutRead, DelRead, StatusBegin, Goto, TypeOK
    <2>2. QED
      BY <1>1, <1>2, <2>1
  <1>6. ASSUME NEW c \in Caller, CallerStep(c) PROVE EndWritten(p)'
    <2>0. c \in Thread
      BY DEF Thread
    <2>1. \/ Leave(c)
          \/ /\ job' = job /\ (\E l : Goto(c, l))
             /\ wr' = wr \/ \E f : wr' = [wr EXCEPT ![c] = f]
      BY <1>6 DEF CallerStep, PutBegin, PutExam, PutSessions, PutCheck, StatusCheck,
         StatusSessions, StatusExam, DelSessions, DelExam, Write
    <2>2. CASE p # c /\ ~Leave(c)
      BY <1>0, <1>1, <2>0, <2>1, <2>2 DEF Goto, TypeOK
    <2>3. CASE p = c /\ ~Leave(c)
      <3>1. Kind(p) # "end"
        BY <1>0, <1>6, <2>3, KindOf DEF CallerStep, PutBegin, PutExam, PutSessions, PutCheck,
           StatusCheck, StatusSessions, StatusExam, DelSessions, DelExam
      <3>2. QED
        BY <1>3, <2>1, <2>3, <3>1
    <2>4. QED
      BY <1>4, <2>0, <2>2, <2>3 DEF Leave
  <1>7. ASSUME NEW w \in Worker, WorkerStep(w) PROVE EndWritten(p)'
    <2>0. w \in Thread
      BY DEF Thread
    <2>1. \/ Leave(w)
          \/ /\ job' = job /\ (\E l : Goto(w, l))
             /\ wr' = wr \/ \E f : wr' = [wr EXCEPT ![w] = f]
      BY <1>7 DEF WorkerStep, StartRefused, StartRead, StartEmpty, StartSession, StartExam, EndRearm,
         EndSession, EndExam, Write
    <2>2. CASE p # w /\ ~Leave(w)
      BY <1>0, <1>1, <2>0, <2>1, <2>2 DEF Goto, TypeOK
    <2>3. CASE p = w /\ (StartRefused(w) \/ StartRead(w) \/ StartEmpty(w) \/ StartSession(w) \/ StartExam(w)) /\ ~Leave(w)
      <3>1. Kind(p) # "end"
        BY <1>0, <2>3, KindOf DEF StartRefused, StartRead, StartEmpty, StartSession, StartExam
      <3>2. QED
        BY <1>3, <2>1, <2>3, <3>1
    <2>4. CASE p = w /\ EndSession(w)
      <3> DEFINE s == job[w][2]
                 to == IF status[s] \in {"02", "04"} /\ Ends[s] <= now THEN "06" ELSE status[s]
      <3>1. Kind(w) = "end" /\ s \in Session
        BY <1>0, <2>0, <2>4, KindOf DEF EndSession, Lawful
      <3>2. s' = s /\ wr'[w][s] = to /\ job'[w] = job[w]
        BY <1>0, <2>0, <2>4, <3>1 DEF EndSession, Write, TypeOK
      <3>3. Ends[s] <= now
        <4>1. \A x \in JobKind \X Row : x = <<x[1], x[2]>>
          OBVIOUS
        <4>2. job[w] = <<"end", s>>
          BY <1>0, <2>0, <3>1, <4>1 DEF TypeOK, Kind
        <4>3. ASSUME NEW t \in Session, job[w] = <<"end", t>> PROVE Ends[t] <= now
          <5>1. <<"end", t>> \in Key /\ At(<<"end", t>>) = Ends[t]
            BY KeyFacts
          <5>2. At(job[w]) <= now
            BY <4>3, <5>1 DEF TimedInv, TimerTimes
          <5>3. QED
            BY <4>3, <5>1, <5>2
        <4>4. QED
          BY <3>1, <4>2, <4>3
      <3>4. to \notin {"02", "04"}
        BY <3>3
      <3>5. QED
        BY <2>4, <3>2, <3>4 DEF EndWritten
    <2>5. CASE p = w /\ EndExam(w)
      <3>1. Kind(w) = "end" /\ job[w][2] \in Session /\ pc[w] = "endExam" /\ job' = job
        BY <1>0, <2>0, <2>5, KindOf DEF EndExam, Lawful
      <3>2. wr'[w][job[w][2]] = wr[w][job[w][2]]
        BY <1>0, <2>0, <2>5, <3>1 DEF EndExam, Write, TypeOK
      <3>3. QED
        BY <1>0, <2>5, <3>1, <3>2 DEF EndWritten
    <2>6. CASE EndRearm(w)
      BY <1>4, <2>0, <2>6 DEF EndRearm, Leave
    <2>7. QED
      BY <1>4, <1>7, <2>0, <2>2, <2>3, <2>4, <2>5, <2>6 DEF Leave, WorkerStep
  <1>8. ASSUME NEW q \in Thread, Commit(q) \/ CommitFails(q) \/ DeadlockAbort(q) PROVE EndWritten(p)'
    BY <1>4, <1>8 DEF Commit, CommitFails, DeadlockAbort, Leave
  <1>9. ASSUME NEW w \in Worker, NEW k \in Key, Take(w, k) PROVE EndWritten(p)'
    <2>1. w \in Thread /\ wr' = wr /\ pc'[w] \notin {"endExam", "commit"}
          /\ \A q \in Thread : q # w => pc'[q] = pc[q] /\ job'[q] = job[q]
      BY <1>0, <1>9 DEF Thread, Take, Goto, TypeOK
    <2>2. QED
      BY <1>1, <1>2, <2>1
  <1>10. CASE Crash
    BY <1>2, <1>10 DEF Crash
  <1>11. CASE Tick \/ (\E k \in Key : Fire(k)) \/ \E s \in Session : AllSubmit(s) \/ Extend(s)
    BY <1>1, <1>11 DEF Tick, Fire, AllSubmit, Extend
  <1>13. ASSUME NEW q \in Thread, Await(q) PROVE EndWritten(p)'
    BY <1>1, <1>13 DEF Await
  <1>12. QED
    BY <1>13, <1>5, <1>6, <1>7, <1>8, <1>9, <1>10, <1>11 DEF Next, ThreadStep

LEMMA InitTimed == Init => TimedInv
  <1> SUFFICES ASSUME Init PROVE TimedInv
    OBVIOUS
  <1>1. StageInv /\ Asked /\ AllInTime
    BY InitStages, InitAsked, InitInTime
  <1>2. TimerTimes
    BY KeyFacts DEF Init, TimerTimes, Thread
  <1>3. \A p \in Thread : EndWritten(p) /\ Kind(p) = None
    BY DEF Init, EndWritten, Kind, NoJob, None
  <1>4. status[Exam] \in {"00", "14"}
    BY RowIsExamOrSession DEF Init
  <1>5. AllTimely
    BY <1>3, <1>4 DEF AllTimely, Relies, None
  <1>6. QED
    BY <1>1, <1>2, <1>3, <1>5 DEF TimedInv

LEMMA NextTimed ==
  ASSUME "put" \notin Kinds, MayFail = {}
  PROVE  TimedInv /\ [Next]_vars => TimedInv'
  <1> SUFFICES ASSUME TimedInv, [Next]_vars PROVE TimedInv'
    OBVIOUS
  <1>0. StageInv /\ Asked /\ AllInTime /\ TypeOK /\ TimerTimes
    BY DEF TimedInv, StageInv, LockInv
  <1>1. StageInv' /\ Asked' /\ AllInTime' /\ TypeOK'
    BY <1>0, NextStages, NextAsked, NextInTime, NextType
  <1>2. CASE UNCHANGED vars
    <2>1. /\ status' = status /\ armed' = armed /\ fired' = fired /\ now' = now
          /\ wr' = wr /\ pc' = pc /\ job' = job
      BY <1>2 DEF vars
    <2>2. TimerTimes'
      BY <1>0, <2>1, TimesOfQuiet
    <2>3. \A p \in Thread : EndWritten(p)'
      BY <2>1 DEF TimedInv, EndWritten, Kind
    <2>4. ASSUME NEW s \in Session, Relies(s)' PROVE Timely(s)'
      <3>1. Relies(s)
        BY <2>1, <2>4, ReliesBefore DEF Kind
      <3>2. QED
        BY <1>0, <1>1, <2>1, <3>1, QuietTimely DEF TimedInv, AllTimely
    <2>5. QED
      BY <1>1, <2>2, <2>3, <2>4 DEF TimedInv, AllTimely
  <1>3. CASE Next
    <2>1. TimerTimes' /\ \A p \in Thread : EndWritten(p)'
      BY <1>0, <1>3, NextTimes, NextEndWritten
    <2>2. CASE status[Exam] = "12"
      <3>1. status'[Exam] = "12"
        <4>1. CASE \E p \in Thread : Commit(p)
          BY <1>0, <2>2, <4>1, CommitLawful
        <4>2. CASE \A p \in Thread : ~Commit(p)
          BY <1>3, <2>2, <4>2, OnlyCommits
        <4>3. QED
          BY <4>1, <4>2
      <3>2. QED
        BY <1>1, <2>1, <3>1 DEF TimedInv, AllTimely, Relies
    <2>3. CASE status[Exam] # "12"
      <3>1. ASSUME NEW p \in Thread, ThreadStep(p) \/ CommitFails(p) PROVE AllTimely'
        <4>1. ~DeadlockAbort(p) /\ ~CommitFails(p)
          BY <1>0, <2>3, NoDeadlock DEF CommitFails
        <4>2. CASE Await(p)
          <5>1. /\ status' = status /\ armed' = armed /\ fired' = fired /\ now' = now
                /\ wr' = wr /\ pc' = pc /\ job' = job
            BY <4>2 DEF Await, data, frame, timing
          <5>2. ASSUME NEW s \in Session, Relies(s)' PROVE Timely(s)'
            <6>1. Relies(s)
              BY <5>1, <5>2, ReliesBefore DEF Kind
            <6>2. QED
              BY <1>0, <1>1, <5>1, <6>1, QuietTimely DEF TimedInv, AllTimely
          <5>3. QED
            BY <5>2 DEF AllTimely
        <4>3. QED
          BY <1>1, <2>3, <3>1, <4>1, <4>2, CallerTimely, WorkerTimely, CommitTimely DEF ThreadStep
      <3>2. ASSUME NEW c \in Caller, Request(c) PROVE AllTimely'
        BY <1>1, <2>3, <3>2, CallerTimely
      <3>3. AllTimely'
        BY <1>1, <1>3, <2>3, <3>1, <3>2, ClockTimely DEF Next
      <3>4. QED
        BY <1>1, <2>1, <3>3 DEF TimedInv
    <2>4. QED
      BY <2>2, <2>3
  <1>4. QED
    BY <1>2, <1>3

(* As long as exams are not replaced and no commit fails, a session of a       *)
(* published exam has its start event ahead of it until it starts and its end  *)
(* event until it has ended, although SetExamTimers and CancelExamTimers act   *)
(* before the commit, events fire while handlers run, and restarts lose them.  *)
THEOREM LifecycleScheduled ==
  ASSUME "put" \notin Kinds, MayFail = {}
  PROVE  Spec => []Scheduled
  <1>1. TimedInv => Scheduled
    <2> SUFFICES ASSUME TimedInv, status[Exam] \in {"02", "04"}, Settled,
                        NEW s \in Session, status[s] \in {"02", "04"}
                 PROVE  Timely(s)
      BY DEF Scheduled, Timely
    <2>1. Relies(s)
      BY DEF Relies
    <2>2. QED
      BY <2>1 DEF TimedInv, AllTimely
  <1>2. QED
    BY <1>1, InitTimed, NextTimed, PTL DEF Spec
=============================================================================
