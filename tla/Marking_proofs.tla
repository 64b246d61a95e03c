---------------------------- MODULE Marking_proofs ----------------------------
(* Proofs about the two components whose hand-ins serve/mark marks: first      *)
(* Practice, then ExamMarking, both for any numbers of people and submissions  *)
(* and any bounds.                                                             *)
EXTENDS Practice, ExamMarking, FiniteSetTheorems, TLAPS

Person == Window \cup Teacher

(* Types of what the properties are about; no, which is not, is left out.  A   *)
(* job is a record whose fields depend on the request: see JobsOK.             *)
PracticeTypes ==
  /\ practice \in {"00", "02", "04", "06"} /\ config \in Nat /\ ops \in Nat
  /\ st \in [Sub -> {Nothing, "00", "06", "08", "10"}]
  /\ of \in [Sub -> Sub]
  /\ open \in [Attempt -> BOOLEAN]
  /\ text \in [Attempt -> Text]
  /\ graded \in [Attempt -> Text \cup {Nothing}]
  /\ phase \in [Sub -> {Nothing, "marking", "read"}]
  /\ sheet \in [Sub -> Text]
  /\ fresh \in [Window -> BOOLEAN]
  /\ job = [p \in Person |-> job[p]]

Handed(k) == st[k] \notin {Nothing, "00"}

(* A request is about rows that are there; what a teacher marks is handed in.  *)
JobsOK ==
  \A p \in Person :
    /\ job[p].op \in {"wrong", "save"} => job[p].sub \in Attempt
    /\ job[p].op = "submit" => job[p].sub \in Sub /\ st[job[p].sub] # Nothing
    /\ job[p].op = "mark" => /\ job[p].sub \in Attempt /\ Handed(job[p].sub)
                             /\ job[p].arg \in Text

(* A collection belongs to an attempt that was marked, and only what is handed *)
(* in is being marked.                                                         *)
RowsOK ==
  /\ \A a \in Attempt : of[a] = a
  /\ \A k \in Wrong : IF st[k] = Nothing THEN of[k] = k
                      ELSE of[k] \in Attempt /\ st[of[k]] \in {"08", "10"}
  /\ \A k \in Sub : phase[k] # Nothing => Handed(k)

(* No two open submissions write the same answers. *)
Alone == \A j, k \in Sub : st[j] = "00" /\ st[k] = "00" /\ of[j] = of[k] => j = k

(* Nothing is under way that would mark k. *)
Quiet(k) == /\ phase[k] = Nothing
            /\ \A t \in Teacher : ~(job[t].op = "mark" /\ job[t].sub = k)

(* Answers are open for an open submission, and stay open only after a void:   *)
(* the submission that left them open is quiet, so nothing marks it.           *)
OpenOK ==
  /\ \A k \in Sub : st[k] = "00" => open[of[k]]
  /\ \A a \in Attempt :
       open[a] => \E k \in Sub : of[k] = a /\ st[k] \in {"00", "10"} /\ Quiet(k)
  /\ \A a \in Attempt : st[a] = "06" => ~open[a]

(* What a request has read is still so while its snapshot is fresh. *)
FreshOK ==
  \A w \in Window : fresh[w] =>
    /\ job[w].op = "wrong" => /\ st[job[w].sub] \in {"08", "10"}
                              /\ \A k \in Sub : of[k] = job[w].sub => st[k] # "00"
    /\ job[w].op = "save" => open[job[w].sub]
    /\ job[w].op = "submit" => st[job[w].sub] = "00"

(* What has been read of an attempt that still waits is what it says. *)
ReadOK ==
  /\ \A a \in Attempt : phase[a] = "read" /\ st[a] = "06" => sheet[a] = text[a]
  /\ \A t \in Teacher :
       job[t].op = "mark" /\ st[job[t].sub] = "06" => job[t].arg = text[job[t].sub]

PInv == PracticeTypes /\ JobsOK /\ RowsOK /\ Alone /\ OpenOK /\ FreshOK /\ ReadOK

-----------------------------------------------------------------------------
(* Helpers. *)

LEMMA IdleOp == Idle.op = Nothing /\ Idle.op \notin {"enter", "wrong", "save", "submit", "mark"}
  BY DEF Idle, Nothing

(* The jobs and snapshots after a request has read. *)
LEMMA BeginFacts ==
  ASSUME PracticeTypes, NEW p \in Person, NEW op, NEW sub, NEW arg, Begin(p, op, sub, arg)
  PROVE  /\ job[p].op = Nothing
         /\ job' = [q \in Person |-> job'[q]]
         /\ job'[p] = [op |-> op, sub |-> sub, arg |-> arg]
         /\ \A q \in Person : q # p => job'[q] = job[q]
         /\ fresh' \in [Window -> BOOLEAN]
         /\ \A w \in Window : w # p => fresh'[w] = fresh[w]
  <1>1. job = [q \in Person |-> job[q]] /\ fresh \in [Window -> BOOLEAN]
    BY DEF PracticeTypes
  <1>2. job' = [job EXCEPT ![p] = [op |-> op, sub |-> sub, arg |-> arg]]
    BY DEF Begin
  <1>3. job' = [q \in Person |-> job'[q]]
    BY <1>1, <1>2
  <1>4. QED
    BY <1>1, <1>2, <1>3, IdleOp DEF Begin

(* The jobs and snapshots after one has returned having written some rows. *)
LEMMA ReturnFacts ==
  ASSUME PracticeTypes, NEW p \in Person, NEW rows, Return(p, rows)
  PROVE  /\ job' = [q \in Person |-> job'[q]]
         /\ job'[p] = Idle
         /\ \A q \in Person : q # p => job'[q] = job[q]
         /\ fresh' \in [Window -> BOOLEAN]
         /\ \A w \in Window : fresh'[w] => fresh[w] /\ w # p /\ w \notin Stale(rows)
  <1>1. job = [q \in Person |-> job[q]] /\ fresh \in [Window -> BOOLEAN]
    BY DEF PracticeTypes
  <1>2. job' = [job EXCEPT ![p] = Idle]
    BY DEF Return
  <1>3. job' = [q \in Person |-> job'[q]]
    BY <1>1, <1>2
  <1>4. \A w \in Window : fresh'[w] <=> (w # p /\ fresh[w] /\ w \notin Stale(rows))
    BY DEF Return
  <1>5. fresh' \in [Window -> BOOLEAN]
    BY <1>1 DEF Return
  <1>6. QED
    BY <1>1, <1>2, <1>3, <1>4, <1>5

(* A request whose snapshot survives a commit writes none of its rows. *)
LEMMA NotStale ==
  ASSUME NEW w \in Window, NEW rows, w \notin Stale(rows)
  PROVE  /\ job[w].op \in {"wrong", "save"} => AnswerRow(job[w].sub) \notin rows
         /\ job[w].op = "submit" => /\ AnswerRow(of[job[w].sub]) \notin rows
                                    /\ Row(job[w].sub) \notin rows
  <1>1. Writes(w) \cap rows = {}
    BY DEF Stale
  <1>2. job[w].op \in {"wrong", "save"} => Writes(w) = {AnswerRow(job[w].sub)}
    BY DEF Writes, Serving
  <1>3. job[w].op = "submit" => Writes(w) = {AnswerRow(of[job[w].sub]), Row(job[w].sub)}
    BY DEF Writes, Serving
  <1>4. QED
    BY <1>1, <1>2, <1>3

LEMMA InitPInv == PracticeInit => PInv
  <1> SUFFICES ASSUME PracticeInit PROVE PInv
    OBVIOUS
  <1>1. job = [p \in Person |-> job[p]] /\ \A p \in Person : job[p].op = Nothing
    <2>1. job = [p \in Person |-> Idle]
      BY DEF PracticeInit, Person
    <2>2. QED
      BY <2>1, IdleOp
  <1>2. PracticeTypes
    BY <1>1, PracticeAssumption DEF PracticeInit, PracticeTypes, Sub, Nothing
  <1>3. JobsOK /\ FreshOK /\ ReadOK
    BY <1>1 DEF PracticeInit, JobsOK, FreshOK, ReadOK, Person, Nothing, Sub
  <1>4. RowsOK /\ Alone /\ OpenOK
    BY PracticeAssumption DEF PracticeInit, RowsOK, Alone, OpenOK, Sub, Nothing
  <1>5. QED
    BY <1>2, <1>3, <1>4 DEF PInv

-----------------------------------------------------------------------------
(* Requests read: one lemma for all of them, with what each has seen. *)

LEMMA BeginPInv ==
  ASSUME PInv, NEW p \in Person, NEW op, NEW sub, NEW arg, Begin(p, op, sub, arg),
         UNCHANGED <<practice, config, st, no, of, answers, marking>>, ops' \in Nat,
         op = "wrong" => /\ sub \in Attempt /\ st[sub] = "08"
                         /\ \A k \in Sub : of[k] = sub => st[k] # "00",
         op = "save" => sub \in Attempt /\ open[sub],
         op = "submit" => sub \in Sub /\ st[sub] = "00",
         op = "mark" => sub \in Attempt /\ st[sub] = "06" /\ arg = text[sub]
  PROVE  PInv'
  <1> USE DEF PInv, answers, marking
  <1>1. /\ job' = [q \in Person |-> job'[q]]
        /\ job'[p].op = op /\ job'[p].sub = sub /\ job'[p].arg = arg
        /\ \A q \in Person : q # p => job'[q] = job[q]
        /\ fresh' \in [Window -> BOOLEAN]
        /\ \A w \in Window : w # p => fresh'[w] = fresh[w]
    <2>1. job'[p] = [op |-> op, sub |-> sub, arg |-> arg]
      BY BeginFacts
    <2>2. QED
      BY <2>1, BeginFacts
  <1>2. Window \subseteq Person /\ Teacher \subseteq Person
    BY DEF Person
  <1>3. PracticeTypes'
    BY <1>1 DEF PracticeTypes
  <1>4. JobsOK'
    <2> SUFFICES ASSUME NEW q \in Person
                 PROVE  /\ job'[q].op \in {"wrong", "save"} => job'[q].sub \in Attempt
                        /\ job'[q].op = "submit" => job'[q].sub \in Sub /\ st[job'[q].sub] # Nothing
                        /\ job'[q].op = "mark" => /\ job'[q].sub \in Attempt /\ Handed(job'[q].sub)
                                                  /\ job'[q].arg \in Text
      BY DEF JobsOK, Handed
    <2>1. CASE q = p
      BY <1>1, <2>1 DEF Handed, Nothing, PracticeTypes
    <2>2. CASE q # p
      BY <1>1, <2>2 DEF JobsOK
    <2>3. QED
      BY <2>1, <2>2
  <1>5. RowsOK' /\ Alone'
    BY DEF RowsOK, Alone, Handed
  <1>6. OpenOK'
    <2>1. ASSUME NEW k \in Sub, st[k] \in {"00", "10"}, Quiet(k) PROVE Quiet(k)'
      BY <1>1, <1>2, <2>1 DEF Quiet
    <2>2. QED
      BY <2>1 DEF OpenOK
  <1>7. FreshOK'
    <2> SUFFICES ASSUME NEW w \in Window, fresh'[w]
                 PROVE  /\ job'[w].op = "wrong" =>
                             /\ st[job'[w].sub] \in {"08", "10"}
                             /\ \A k \in Sub : of[k] = job'[w].sub => st[k] # "00"
                        /\ job'[w].op = "save" => open[job'[w].sub]
                        /\ job'[w].op = "submit" => st[job'[w].sub] = "00"
      BY DEF FreshOK
    <2>1. CASE w = p
      BY <1>1, <2>1
    <2>2. CASE w # p
      BY <1>1, <1>2, <2>2 DEF FreshOK
    <2>3. QED
      BY <2>1, <2>2
  <1>8. ReadOK'
    BY <1>1, <1>2 DEF ReadOK
  <1>9. QED
    BY <1>3, <1>4, <1>5, <1>6, <1>7, <1>8

(* A request returns without having written a submission or answers. *)
LEMMA ReturnPInv ==
  ASSUME PInv, NEW p \in Person, NEW rows, Return(p, rows),
         UNCHANGED <<st, no, of, answers, marking>>,
         practice' \in {"00", "02", "04", "06"}, config' \in Nat, ops' \in Nat
  PROVE  PInv'
  <1> USE DEF PInv, answers, marking
  <1>1. /\ job' = [q \in Person |-> job'[q]]
        /\ job'[p] = Idle
        /\ \A q \in Person : q # p => job'[q] = job[q]
        /\ fresh' \in [Window -> BOOLEAN]
        /\ \A w \in Window : fresh'[w] => fresh[w] /\ w # p
    BY ReturnFacts
  <1>2. Window \subseteq Person /\ Teacher \subseteq Person
    BY DEF Person
  <1>3. PracticeTypes'
    BY <1>1 DEF PracticeTypes
  <1>4. JobsOK'
    <2>1. \A q \in Person : job'[q].op # Nothing => job'[q] = job[q]
      BY <1>1, IdleOp
    <2>2. QED
      BY <2>1 DEF JobsOK, Handed, Nothing
  <1>5. RowsOK' /\ Alone'
    BY DEF RowsOK, Alone, Handed
  <1>6. OpenOK'
    <2>1. ASSUME NEW k \in Sub, Quiet(k) PROVE Quiet(k)'
      BY <1>1, <1>2, <2>1, IdleOp DEF Quiet
    <2>2. QED
      BY <2>1 DEF OpenOK
  <1>7. FreshOK'
    BY <1>1, <1>2 DEF FreshOK
  <1>8. ReadOK'
    BY <1>1, <1>2, IdleOp DEF ReadOK
  <1>9. QED
    BY <1>3, <1>4, <1>5, <1>6, <1>7, <1>8

LEMMA ReadsPInv ==
  ASSUME PInv,
         \/ \E w \in Window : \/ EnterPractice(w) \/ EnterWrong(w)
                              \/ \E a \in Attempt : StudentAnswer(w, a)
                              \/ \E k \in Sub : SubmitPractice(w, k)
         \/ \E t \in Teacher : \/ TeacherReads(t)
                               \/ \E op \in {"release", "delete", "void"} : Operate(t, op)
  PROVE  PInv'
  <1>1. PracticeTypes /\ Window \subseteq Person /\ Teacher \subseteq Person /\ Begun \subseteq Attempt
    BY DEF PInv, Person, Begun
  <1>2. ASSUME NEW w \in Window, EnterWrong(w) PROVE PInv'
    <2>1. PICK a \in Latest("08") : /\ \A k \in Wrong : of[k] = a => st[k] # "00"
                                    /\ Begin(w, "wrong", a, Nothing)
      BY <1>2 DEF EnterWrong
    <2>2. a \in Attempt /\ st[a] = "08"
      BY <1>1 DEF Latest
    <2>3. \A k \in Sub : of[k] = a => st[k] # "00"
      BY <2>1, <2>2 DEF PInv, RowsOK, Sub
    <2>4. QED
      BY <1>1, <1>2, <2>1, <2>2, <2>3, BeginPInv DEF EnterWrong, PracticeTypes
  <1>3. ASSUME NEW w \in Window, NEW a \in Attempt, StudentAnswer(w, a) PROVE PInv'
    BY <1>1, <1>3, BeginPInv DEF StudentAnswer, PracticeTypes
  <1>4. ASSUME NEW w \in Window, NEW k \in Sub, SubmitPractice(w, k) PROVE PInv'
    BY <1>1, <1>4, BeginPInv DEF SubmitPractice, PracticeTypes
  <1>5. ASSUME NEW t \in Teacher, TeacherReads(t) PROVE PInv'
    <2>1. PICK a \in Latest("06") : Begin(t, "mark", a, text[a])
      BY <1>5 DEF TeacherReads
    <2>2. a \in Attempt /\ st[a] = "06"
      BY <1>1 DEF Latest
    <2>3. QED
      BY <1>1, <1>5, <2>1, <2>2, BeginPInv DEF TeacherReads, PracticeTypes
  <1>6. ASSUME NEW t \in Teacher, NEW op \in {"release", "delete", "void"}, Operate(t, op)
        PROVE  PInv'
    BY <1>1, <1>6, BeginPInv DEF Operate, PracticeTypes
  <1>7. ASSUME NEW w \in Window, EnterPractice(w) PROVE PInv'
    BY <1>1, <1>7, BeginPInv DEF EnterPractice, PracticeTypes
  <1>8. QED
    BY <1>2, <1>3, <1>4, <1>5, <1>6, <1>7

-----------------------------------------------------------------------------
(* Requests write. *)

LEMMA AfterReturn ==
  ASSUME PracticeTypes, NEW p \in Person, NEW rows, Return(p, rows)
  PROVE  /\ job' = [q \in Person |-> job'[q]]
         /\ fresh' \in [Window -> BOOLEAN]
         /\ \A q \in Person : job'[q].op # Nothing => q # p /\ job'[q] = job[q]
         /\ \A w \in Window :
              fresh'[w] /\ job'[w].op # Nothing =>
                /\ fresh[w] /\ job'[w] = job[w]
                /\ job[w].op \in {"wrong", "save"} => AnswerRow(job[w].sub) \notin rows
                /\ job[w].op = "submit" => /\ AnswerRow(of[job[w].sub]) \notin rows
                                           /\ Row(job[w].sub) \notin rows
  BY ReturnFacts, NotStale, IdleOp DEF Person

LEMMA NewAttemptPInv ==
  ASSUME PInv, NEW w \in Window, NewAttempt(w)
  PROVE  PInv'
  <1> USE DEF Nothing
  <1>0. /\ PracticeTypes /\ JobsOK /\ RowsOK /\ Alone /\ OpenOK /\ FreshOK /\ ReadOK
        /\ Window \subseteq Person /\ Teacher \subseteq Person
    BY DEF PInv, Person
  <1>1. PICK a \in Attempt : /\ st[a] = Nothing
                             /\ st' = [st EXCEPT ![a] = "00"]
                             /\ no' = [no EXCEPT ![a] = job[w].arg]
                             /\ open' = [open EXCEPT ![a] = TRUE]
    BY DEF NewAttempt, Spare
  <1>2. UNCHANGED <<practice, config, ops, of, text, graded, phase, sheet>>
    BY DEF NewAttempt, marking
  <1>3. /\ a \in Sub /\ of[a] = a /\ phase[a] = Nothing
        /\ \A k \in Sub : of[k] = a => k = a
    BY <1>0, <1>1 DEF RowsOK, Sub, Handed, PracticeTypes
  <1>4. /\ st'[a] = "00" /\ open'[a] = TRUE
        /\ \A k \in Sub : k # a => st'[k] = st[k]
        /\ \A b \in Attempt : b # a => open'[b] = open[b]
    BY <1>0, <1>1, <1>3 DEF PracticeTypes
  <1>5. /\ job' = [q \in Person |-> job'[q]]
        /\ fresh' \in [Window -> BOOLEAN]
        /\ \A q \in Person : job'[q].op # Nothing => job'[q] = job[q]
        /\ \A v \in Window : fresh'[v] /\ job'[v].op # Nothing => fresh[v] /\ job'[v] = job[v]
    BY <1>0, AfterReturn DEF NewAttempt
  <1>6. PracticeTypes'
    BY <1>0, <1>1, <1>2, <1>5 DEF PracticeTypes
  <1>7. \A q \in Person : job'[q].op = "mark" => job'[q].sub # a
    BY <1>0, <1>1, <1>5 DEF JobsOK, Handed
  <1>8. JobsOK'
    BY <1>0, <1>4, <1>5, <1>7 DEF JobsOK, Handed, Sub
  <1>9. RowsOK'
    BY <1>0, <1>1, <1>2, <1>3, <1>4, PracticeAssumption DEF RowsOK, Handed, Sub
  <1>10. Alone'
    BY <1>0, <1>2, <1>3, <1>4 DEF Alone
  <1>11. OpenOK'
    <2>1. \A k \in Sub : st'[k] = "00" => open'[of'[k]]
      BY <1>0, <1>2, <1>3, <1>4 DEF OpenOK, RowsOK, Sub
    <2>2. ASSUME NEW b \in Attempt, open'[b]
          PROVE  \E k \in Sub : of'[k] = b /\ st'[k] \in {"00", "10"} /\ Quiet(k)'
      <3>1. CASE b = a
        BY <1>0, <1>2, <1>3, <1>4, <1>7, <3>1 DEF Quiet
      <3>2. CASE b # a
        <4>1. PICK k \in Sub : of[k] = b /\ st[k] \in {"00", "10"} /\ Quiet(k)
          BY <1>0, <1>4, <2>2, <3>2 DEF OpenOK
        <4>2. Quiet(k)'
          BY <1>0, <1>2, <1>5, <4>1 DEF Quiet
        <4>3. QED
          BY <1>1, <1>2, <1>4, <4>1, <4>2
      <3>3. QED
        BY <3>1, <3>2
    <2>3. \A b \in Attempt : st'[b] = "06" => ~open'[b]
      BY <1>0, <1>4 DEF OpenOK, Sub
    <2>4. QED
      BY <2>1, <2>2, <2>3 DEF OpenOK
  <1>12. FreshOK'
    BY <1>0, <1>1, <1>2, <1>3, <1>4, <1>5 DEF FreshOK, JobsOK, Sub
  <1>13. ReadOK'
    BY <1>0, <1>2, <1>3, <1>4, <1>5, <1>7 DEF ReadOK, JobsOK, Sub
  <1>14. QED
    BY <1>6, <1>8, <1>9, <1>10, <1>11, <1>12, <1>13 DEF PInv

LEMMA NewWrongPInv ==
  ASSUME PInv, NEW w \in Window, NewWrong(w)
  PROVE  PInv'
  <1> USE DEF Nothing
  <1> DEFINE a == job[w].sub
  <1>0. /\ PracticeTypes /\ JobsOK /\ RowsOK /\ Alone /\ OpenOK /\ FreshOK /\ ReadOK
        /\ Window \subseteq Person /\ Teacher \subseteq Person
    BY DEF PInv, Person
  <1>1. PICK k \in Wrong : /\ st[k] = Nothing
                           /\ st' = [st EXCEPT ![k] = "00"]
                           /\ of' = [of EXCEPT ![k] = a]
    BY DEF NewWrong, Spare
  <1>2. /\ UNCHANGED <<practice, config, ops, text, graded, phase, sheet>>
        /\ open' = [open EXCEPT ![a] = TRUE]
        /\ fresh[w] /\ job[w].op = "wrong"
    BY DEF NewWrong, marking, Serving
  <1>3. PICK c \in Attempt : c = a /\ st[c] \in {"08", "10"}
                             /\ \A j \in Sub : of[j] = c => st[j] # "00"
    BY <1>0, <1>2 DEF FreshOK, JobsOK
  <1>4. k \in Sub /\ k \notin Attempt /\ phase[k] = Nothing
    BY <1>0, <1>1, PracticeAssumption DEF RowsOK, Sub, Handed, PracticeTypes
  <1>5. /\ st'[k] = "00" /\ of'[k] = c /\ open'[c] = TRUE
        /\ \A j \in Sub : j # k => st'[j] = st[j] /\ of'[j] = of[j]
        /\ \A b \in Attempt : b # c => open'[b] = open[b]
    BY <1>0, <1>1, <1>2, <1>3, <1>4 DEF PracticeTypes
  <1>6. /\ job' = [q \in Person |-> job'[q]]
        /\ fresh' \in [Window -> BOOLEAN]
        /\ \A q \in Person : job'[q].op # Nothing => job'[q] = job[q]
        /\ \A v \in Window :
             fresh'[v] /\ job'[v].op # Nothing =>
               /\ fresh[v] /\ job'[v] = job[v]
               /\ job[v].op \in {"wrong", "save"} => job[v].sub # c
    BY <1>0, <1>3, AfterReturn DEF NewWrong
  <1>7. PracticeTypes'
    BY <1>0, <1>1, <1>2, <1>3, <1>6 DEF PracticeTypes, Sub
  <1>8. JobsOK'
    BY <1>0, <1>4, <1>5, <1>6 DEF JobsOK, Handed, Sub
  <1>9. RowsOK'
    BY <1>0, <1>1, <1>2, <1>3, <1>4, <1>5 DEF RowsOK, Handed, Sub
  <1>10. Alone'
    BY <1>0, <1>3, <1>4, <1>5 DEF Alone
  <1>11. OpenOK'
    <2>1. \A j \in Sub : st'[j] = "00" => open'[of'[j]]
      BY <1>0, <1>1, <1>3, <1>4, <1>5 DEF OpenOK, RowsOK, Sub
    <2>2. ASSUME NEW b \in Attempt, open'[b]
          PROVE  \E j \in Sub : of'[j] = b /\ st'[j] \in {"00", "10"} /\ Quiet(j)'
      <3>1. CASE b = c
        <4>1. Quiet(k)'
          BY <1>0, <1>2, <1>4, <1>6 DEF Quiet, JobsOK
        <4>2. QED
          BY <1>4, <1>5, <3>1, <4>1
      <3>2. CASE b # c
        <4>1. PICK j \in Sub : of[j] = b /\ st[j] \in {"00", "10"} /\ Quiet(j)
          BY <1>0, <1>5, <2>2, <3>2 DEF OpenOK
        <4>2. Quiet(j)'
          BY <1>0, <1>2, <1>6, <4>1 DEF Quiet
        <4>3. QED
          BY <1>1, <1>5, <4>1, <4>2
      <3>3. QED
        BY <3>1, <3>2
    <2>3. \A b \in Attempt : st'[b] = "06" => ~open'[b]
      BY <1>0, <1>3, <1>4, <1>5 DEF OpenOK, Sub
    <2>4. QED
      BY <2>1, <2>2, <2>3 DEF OpenOK
  <1>12. FreshOK'
    <2> SUFFICES ASSUME NEW v \in Window, fresh'[v], job'[v].op # Nothing
                 PROVE  /\ job[v].op = "wrong" =>
                             /\ st'[job[v].sub] \in {"08", "10"}
                             /\ \A j \in Sub : of'[j] = job[v].sub => st'[j] # "00"
                        /\ job[v].op = "save" => open'[job[v].sub]
                        /\ job[v].op = "submit" => st'[job[v].sub] = "00"
      BY <1>6 DEF FreshOK
    <2>1. fresh[v] /\ (job[v].op \in {"wrong", "save"} => job[v].sub \in Attempt /\ job[v].sub # c)
      BY <1>0, <1>6 DEF JobsOK
    <2>2. job[v].op = "submit" => job[v].sub \in Sub /\ job[v].sub # k
      BY <1>0, <1>1 DEF JobsOK
    <2>3. QED
      BY <1>0, <1>4, <1>5, <2>1, <2>2 DEF FreshOK, Sub
  <1>13. ReadOK'
    BY <1>0, <1>2, <1>4, <1>5, <1>6 DEF ReadOK, JobsOK, Sub
  <1>14. QED
    BY <1>7, <1>8, <1>9, <1>10, <1>11, <1>12, <1>13 DEF PInv

LEMMA SavePInv ==
  ASSUME PInv, NEW w \in Window, SaveAnswer(w)
  PROVE  PInv'
  <1> USE DEF Nothing
  <1>0. /\ PracticeTypes /\ JobsOK /\ RowsOK /\ Alone /\ OpenOK /\ FreshOK /\ ReadOK
        /\ Window \subseteq Person /\ Teacher \subseteq Person
    BY DEF PInv, Person
  <1>1. PICK a \in Attempt : a = job[w].sub /\ open[a] /\ st[a] # "06"
    BY <1>0 DEF SaveAnswer, Serving, FreshOK, JobsOK, OpenOK
  <1>2. /\ UNCHANGED <<practice, config, ops, st, of, open, graded, phase, sheet>>
        /\ text' \in [Attempt -> Text]
        /\ \A b \in Attempt : b # a => text'[b] = text[b]
    BY <1>0, <1>1 DEF SaveAnswer, marking, PracticeTypes
  <1>3. /\ job' = [q \in Person |-> job'[q]]
        /\ fresh' \in [Window -> BOOLEAN]
        /\ \A q \in Person : job'[q].op # Nothing => job'[q] = job[q]
        /\ \A v \in Window : fresh'[v] /\ job'[v].op # Nothing => fresh[v] /\ job'[v] = job[v]
    BY <1>0, AfterReturn DEF SaveAnswer
  <1>4. PracticeTypes'
    BY <1>0, <1>2, <1>3 DEF PracticeTypes
  <1>5. JobsOK' /\ RowsOK' /\ Alone'
    BY <1>0, <1>2, <1>3 DEF JobsOK, Handed, RowsOK, Alone
  <1>6. OpenOK'
    <2>1. ASSUME NEW k \in Sub, Quiet(k) PROVE Quiet(k)'
      BY <1>0, <1>2, <1>3, <2>1 DEF Quiet
    <2>2. QED
      BY <1>0, <1>2, <2>1 DEF OpenOK
  <1>7. FreshOK'
    BY <1>0, <1>2, <1>3 DEF FreshOK
  <1>8. ReadOK'
    BY <1>0, <1>1, <1>2, <1>3 DEF ReadOK, JobsOK
  <1>9. QED
    BY <1>4, <1>5, <1>6, <1>7, <1>8 DEF PInv

(* The hand-in finds the submission open and closes what only it could write. *)
LEMMA HandInPInv ==
  ASSUME PInv, NEW w \in Window, HandIn(w)
  PROVE  PInv'
  <1> USE DEF Nothing
  <1>0. /\ PracticeTypes /\ JobsOK /\ RowsOK /\ Alone /\ OpenOK /\ FreshOK /\ ReadOK
        /\ Window \subseteq Person /\ Teacher \subseteq Person
    BY DEF PInv, Person
  <1>1. PICK k \in Sub : k = job[w].sub /\ st[k] = "00"
    BY <1>0 DEF HandIn, Serving, FreshOK, JobsOK
  <1>2. PICK a \in Attempt : a = of[k]
    BY <1>0, <1>1 DEF RowsOK, Sub
  <1>3. /\ UNCHANGED <<practice, config, ops, of, text, graded, sheet>>
        /\ st' = [st EXCEPT ![k] = IF k \in Attempt THEN "06" ELSE "08"]
        /\ open' = [open EXCEPT ![a] = FALSE]
        /\ phase' = [phase EXCEPT ![k] = "marking"]
        /\ Return(w, {AnswerRow(a), Row(k)})
    BY <1>1, <1>2 DEF HandIn
  <1>4. /\ st'[k] \in {"06", "08"} /\ open'[a] = FALSE /\ phase'[k] = "marking"
        /\ \A j \in Sub : j # k => st'[j] = st[j] /\ phase'[j] = phase[j]
        /\ \A b \in Attempt : b # a => open'[b] = open[b]
        /\ k \in Wrong => st'[k] = "08" /\ st[a] \in {"08", "10"}
        /\ k \in Attempt => a = k
    BY <1>0, <1>1, <1>2, <1>3, PracticeAssumption DEF PracticeTypes, RowsOK
  <1>5. /\ job' = [q \in Person |-> job'[q]]
        /\ fresh' \in [Window -> BOOLEAN]
        /\ \A q \in Person : job'[q].op # Nothing => job'[q] = job[q]
        /\ \A v \in Window :
             fresh'[v] /\ job'[v].op # Nothing =>
               /\ fresh[v] /\ job'[v] = job[v]
               /\ job[v].op \in {"wrong", "save"} => job[v].sub # a
               /\ job[v].op = "submit" => job[v].sub # k
    BY <1>0, <1>3, AfterReturn
  <1>6. PracticeTypes'
    BY <1>0, <1>3, <1>5 DEF PracticeTypes
  <1>7. JobsOK'
    BY <1>0, <1>4, <1>5 DEF JobsOK, Handed, Sub
  <1>8. RowsOK'
    BY <1>0, <1>1, <1>3, <1>4 DEF RowsOK, Handed, Sub
  <1>9. Alone'
    BY <1>0, <1>3, <1>4 DEF Alone
  <1>10. OpenOK'
    <2>1. \A j \in Sub : st'[j] = "00" => open'[of'[j]]
      <3>1. \A j \in Sub : st'[j] = "00" => st[j] = "00" /\ j # k /\ of[j] # a
        BY <1>0, <1>1, <1>2, <1>4 DEF Alone
      <3>2. \A j \in Sub : st[j] = "00" => of[j] \in Attempt
        BY <1>0 DEF RowsOK, Sub
      <3>3. QED
        BY <1>0, <1>3, <1>4, <3>1, <3>2 DEF OpenOK
    <2>2. ASSUME NEW b \in Attempt, open'[b]
          PROVE  \E j \in Sub : of'[j] = b /\ st'[j] \in {"00", "10"} /\ Quiet(j)'
      <3>1. b # a
        BY <1>4, <2>2
      <3>2. PICK j \in Sub : of[j] = b /\ st[j] \in {"00", "10"} /\ Quiet(j)
        BY <1>0, <1>4, <2>2, <3>1 DEF OpenOK
      <3>3. j # k
        BY <1>2, <3>1, <3>2
      <3>4. Quiet(j)'
        BY <1>0, <1>4, <1>5, <3>2, <3>3 DEF Quiet
      <3>5. QED
        BY <1>3, <1>4, <3>2, <3>3, <3>4
    <2>3. \A b \in Attempt : st'[b] = "06" => ~open'[b]
      BY <1>0, <1>4 DEF OpenOK, Sub
    <2>4. QED
      BY <2>1, <2>2, <2>3 DEF OpenOK
  <1>11. FreshOK'
    <2> SUFFICES ASSUME NEW v \in Window, fresh'[v], job'[v].op # Nothing
                 PROVE  /\ job[v].op = "wrong" =>
                             /\ st'[job[v].sub] \in {"08", "10"}
                             /\ \A j \in Sub : of'[j] = job[v].sub => st'[j] # "00"
                        /\ job[v].op = "save" => open'[job[v].sub]
                        /\ job[v].op = "submit" => st'[job[v].sub] = "00"
      BY <1>5 DEF FreshOK
    <2>1. fresh[v] /\ (job[v].op \in {"wrong", "save"} => job[v].sub \in Attempt /\ job[v].sub # a)
      BY <1>0, <1>5 DEF JobsOK
    <2>2. job[v].op = "submit" => job[v].sub \in Sub /\ job[v].sub # k
      BY <1>0, <1>5 DEF JobsOK
    <2>3. QED
      BY <1>0, <1>1, <1>3, <1>4, <2>1, <2>2 DEF FreshOK, Sub
  <1>12. ReadOK'
    BY <1>0, <1>1, <1>3, <1>4, <1>5 DEF ReadOK, JobsOK, Handed, Sub
  <1>13. QED
    BY <1>6, <1>7, <1>8, <1>9, <1>10, <1>11, <1>12 DEF PInv

(* All submissions become void; the answers stay as they are. *)
LEMMA VoidPInv ==
  ASSUME PInv, NEW t \in Teacher, Void(t)
  PROVE  PInv'
  <1> USE DEF Nothing
  <1>0. /\ PracticeTypes /\ JobsOK /\ RowsOK /\ Alone /\ OpenOK /\ FreshOK /\ ReadOK
        /\ Window \subseteq Person /\ Teacher \subseteq Person
    BY DEF PInv, Person
  <1>1. /\ UNCHANGED <<ops, of, open, text, graded, phase, sheet>>
        /\ practice' = "06" /\ config' = 0
        /\ st' = [k \in Sub |-> IF st[k] = Nothing THEN Nothing ELSE "10"]
    BY DEF Void, answers, marking
  <1>2. /\ job' = [q \in Person |-> job'[q]]
        /\ fresh' \in [Window -> BOOLEAN]
        /\ \A q \in Person : job'[q].op # Nothing => job'[q] = job[q]
        /\ \A v \in Window :
             fresh'[v] /\ job'[v].op # Nothing =>
               /\ fresh[v] /\ job'[v] = job[v]
               /\ job[v].op = "submit" => Row(job[v].sub) \notin {Row(k) : k \in {j \in Sub : st[j] # Nothing}}
    BY <1>0, AfterReturn DEF Void
  <1>3. PracticeTypes'
    BY <1>0, <1>1, <1>2 DEF PracticeTypes
  <1>4. JobsOK'
    BY <1>0, <1>1, <1>2 DEF JobsOK, Handed, Sub
  <1>5. RowsOK' /\ Alone'
    BY <1>0, <1>1 DEF RowsOK, Alone, Handed, Sub
  <1>6. OpenOK'
    <2>1. ASSUME NEW k \in Sub, Quiet(k) PROVE Quiet(k)'
      BY <1>0, <1>1, <1>2, <2>1 DEF Quiet
    <2>2. QED
      BY <1>0, <1>1, <2>1 DEF OpenOK, Sub
  <1>7. FreshOK'
    <2>1. ASSUME NEW v \in Window, fresh'[v] PROVE job'[v].op # "submit"
      BY <1>0, <1>2, <2>1 DEF JobsOK
    <2>2. ASSUME NEW v \in Window, fresh'[v], job'[v].op = "wrong"
          PROVE  st'[job'[v].sub] = "10"
      <3>1. job'[v] = job[v] /\ job[v].sub \in Attempt /\ st[job[v].sub] \in {"08", "10"}
        BY <1>0, <1>2, <2>2 DEF FreshOK, JobsOK
      <3>2. QED
        BY <1>1, <3>1 DEF Sub
    <2>3. QED
      BY <1>0, <1>1, <1>2, <2>1, <2>2 DEF FreshOK
  <1>8. ReadOK'
    BY <1>0, <1>1, <1>2 DEF ReadOK, JobsOK, Sub
  <1>9. QED
    BY <1>3, <1>4, <1>5, <1>6, <1>7, <1>8 DEF PInv

-----------------------------------------------------------------------------
(* Marking, and the visits of open submissions. *)

(* A step that writes a score: whoever marks k takes it to 08, and windows     *)
(* that were about to write its rows have a stale snapshot.                    *)
LEMMA ScorePInv ==
  ASSUME PInv, NEW k \in Sub, Handed(k), ~Quiet(k),
         UNCHANGED <<practice, config, ops, of, open, text>>,
         st' = [st EXCEPT ![k] = "08"],
         graded' \in [Attempt -> Text \cup {Nothing}],
         sheet' \in [Sub -> Text], phase' \in [Sub -> {Nothing, "marking", "read"}],
         \A j \in Sub : phase'[j] \in {phase[j], Nothing},
         \A j \in Sub : phase'[j] # Nothing => sheet'[j] = sheet[j],
         job' = [q \in Person |-> job'[q]],
         \A q \in Person : job'[q].op # Nothing => job'[q] = job[q],
         fresh' \in [Window -> BOOLEAN],
         \A v \in Window :
           fresh'[v] /\ job'[v].op # Nothing =>
             /\ fresh[v]
             /\ job[v].op = "submit" => job[v].sub # k
  PROVE  PInv'
  <1> USE DEF Nothing
  <1>0. /\ PracticeTypes /\ JobsOK /\ RowsOK /\ Alone /\ OpenOK /\ FreshOK /\ ReadOK
        /\ Window \subseteq Person /\ Teacher \subseteq Person
    BY DEF PInv, Person
  <1>1. /\ st[k] \in {"06", "08", "10"} /\ st'[k] = "08"
        /\ \A j \in Sub : j # k => st'[j] = st[j]
    BY <1>0 DEF PracticeTypes, Handed
  <1>2. PracticeTypes'
    BY <1>0 DEF PracticeTypes
  <1>3. JobsOK'
    BY <1>0, <1>1 DEF JobsOK, Handed, Sub
  <1>4. RowsOK'
    BY <1>0, <1>1 DEF RowsOK, Handed, Sub
  <1>5. Alone'
    BY <1>0, <1>1 DEF Alone
  <1>6. OpenOK'
    <2>1. ASSUME NEW j \in Sub, Quiet(j) PROVE Quiet(j)' /\ j # k
      BY <1>0, <2>1 DEF Quiet
    <2>2. QED
      BY <1>0, <1>1, <2>1 DEF OpenOK, Sub
  <1>7. FreshOK'
    <2> SUFFICES ASSUME NEW v \in Window, fresh'[v], job'[v].op # Nothing
                 PROVE  /\ job[v].op = "wrong" =>
                             /\ st'[job[v].sub] \in {"08", "10"}
                             /\ \A j \in Sub : of'[j] = job[v].sub => st'[j] # "00"
                        /\ job[v].op = "save" => open'[job[v].sub]
                        /\ job[v].op = "submit" => st'[job[v].sub] = "00"
      BY <1>0 DEF FreshOK
    <2>1. /\ fresh[v]
          /\ job[v].op \in {"wrong", "save"} => job[v].sub \in Attempt
          /\ job[v].op = "submit" => job[v].sub \in Sub /\ job[v].sub # k
      BY <1>0 DEF JobsOK
    <2>2. QED
      BY <1>0, <1>1, <2>1 DEF FreshOK, Sub
  <1>8. ReadOK'
    BY <1>0, <1>1 DEF ReadOK, JobsOK, Sub
  <1>9. QED
    BY <1>2, <1>3, <1>4, <1>5, <1>6, <1>7, <1>8 DEF PInv

LEMMA MarkPInv ==
  ASSUME PInv, NEW k \in Sub, Mark(k)
  PROVE  PInv'
  <1>0. PracticeTypes /\ RowsOK /\ OpenOK /\ Window \subseteq Person
    BY DEF PInv, Person
  <1>1. /\ phase[k] = "read" /\ phase' = [phase EXCEPT ![k] = Nothing]
        /\ sheet' = [sheet EXCEPT ![k] = Blank]
        /\ st' = [st EXCEPT ![k] = "08"]
        /\ graded' = [graded EXCEPT ![of[k]] = sheet[k]]
        /\ fresh' = [w \in Window |-> fresh[w] /\ w \notin Stale({AnswerRow(of[k]), Row(k)})]
        /\ UNCHANGED <<practice, config, ops, of, open, text, job>>
    BY DEF Mark, Step, Score, Touch
  <1>2. Handed(k) /\ ~Quiet(k)
    BY <1>0, <1>1 DEF RowsOK, Quiet, Nothing
  <1>3. /\ graded' \in [Attempt -> Text \cup {Nothing}]
        /\ sheet' \in [Sub -> Text] /\ phase' \in [Sub -> {Nothing, "marking", "read"}]
        /\ \A j \in Sub : phase'[j] \in {phase[j], Nothing}
        /\ \A j \in Sub : phase'[j] # Nothing => sheet'[j] = sheet[j]
    BY <1>0, <1>1, PracticeAssumption DEF PracticeTypes
  <1>4. /\ job' = [q \in Person |-> job'[q]] /\ job' = job
        /\ fresh' \in [Window -> BOOLEAN]
        /\ \A v \in Window : fresh'[v] => fresh[v] /\ (job[v].op = "submit" => job[v].sub # k)
    <2>1. job' = [q \in Person |-> job'[q]] /\ job' = job /\ fresh' \in [Window -> BOOLEAN]
      BY <1>0, <1>1 DEF PracticeTypes
    <2>2. \A v \in Window : fresh'[v] => fresh[v] /\ v \notin Stale({AnswerRow(of[k]), Row(k)})
      BY <1>1
    <2>3. QED
      BY <2>1, <2>2, NotStale
  <1>5. QED
    BY <1>1, <1>2, <1>3, <1>4, ScorePInv

LEMMA TeacherMarksPInv ==
  ASSUME PInv, NEW t \in Teacher, TeacherMarks(t)
  PROVE  PInv'
  <1>0. PracticeTypes /\ JobsOK /\ Window \subseteq Person /\ Teacher \subseteq Person
    BY DEF PInv, Person
  <1>1. PICK a \in Attempt : a = job[t].sub /\ Handed(a) /\ ~Quiet(a) /\ job[t].arg \in Text
    BY <1>0 DEF TeacherMarks, Serving, JobsOK, Quiet
  <1>2. /\ st' = [st EXCEPT ![a] = "08"]
        /\ graded' = [graded EXCEPT ![a] = job[t].arg]
        /\ Return(t, {AnswerRow(a), Row(a)})
        /\ UNCHANGED <<practice, config, ops, of, open, text, phase, sheet>>
    BY <1>1 DEF TeacherMarks, marking
  <1>3. /\ job' = [q \in Person |-> job'[q]]
        /\ fresh' \in [Window -> BOOLEAN]
        /\ \A q \in Person : job'[q].op # Nothing => job'[q] = job[q]
        /\ \A v \in Window :
             fresh'[v] /\ job'[v].op # Nothing =>
               fresh[v] /\ (job[v].op = "submit" => job[v].sub # a)
    BY <1>0, <1>2, AfterReturn
  <1>4. /\ a \in Sub /\ graded' \in [Attempt -> Text \cup {Nothing}]
        /\ sheet' \in [Sub -> Text] /\ phase' \in [Sub -> {Nothing, "marking", "read"}]
    BY <1>0, <1>1, <1>2 DEF PracticeTypes, Sub
  <1>5. QED
    BY <1>1, <1>2, <1>3, <1>4, ScorePInv

(* Steps that change neither a submission nor its answers nor a job. *)
LEMMA QuietPInv ==
  ASSUME PInv, UNCHANGED <<practice, config, ops, st, of, open, text, graded, job>>,
         sheet' \in [Sub -> Text], phase' \in [Sub -> {Nothing, "marking", "read"}],
         \A k \in Sub : phase[k] = Nothing => phase'[k] = Nothing,
         \A k \in Sub : phase'[k] = "read" => \/ phase[k] = "read" /\ sheet'[k] = sheet[k]
                                              \/ sheet'[k] = text[of[k]],
         fresh' \in [Window -> BOOLEAN], \A w \in Window : fresh'[w] => fresh[w]
  PROVE  PInv'
  <1>0. /\ PracticeTypes /\ JobsOK /\ RowsOK /\ Alone /\ OpenOK /\ FreshOK /\ ReadOK
        /\ Window \subseteq Person /\ Teacher \subseteq Person
    BY DEF PInv, Person
  <1>1. PracticeTypes'
    BY <1>0 DEF PracticeTypes
  <1>2. JobsOK' /\ RowsOK' /\ Alone'
    BY <1>0 DEF JobsOK, Handed, RowsOK, Alone
  <1>3. OpenOK'
    <2>1. ASSUME NEW k \in Sub, Quiet(k) PROVE Quiet(k)'
      BY <2>1 DEF Quiet
    <2>2. QED
      BY <1>0, <2>1 DEF OpenOK
  <1>4. FreshOK'
    BY <1>0 DEF FreshOK
  <1>5. ReadOK'
    BY <1>0 DEF ReadOK, RowsOK, Sub
  <1>6. QED
    BY <1>1, <1>2, <1>3, <1>4, <1>5 DEF PInv

LEMMA MarkingPInv ==
  ASSUME PInv, NEW k \in Sub, Visit(k) \/ AutoMark(k) \/ Mark(k) \/ MarkFails(k)
  PROVE  PInv'
  <1>0. PracticeTypes /\ RowsOK
    BY DEF PInv
  <1>1. CASE Visit(k)
    BY <1>0, <1>1, QuietPInv DEF Visit, Touch, PracticeTypes, answers, marking
  <1>2. CASE AutoMark(k)
    <2>1. UNCHANGED <<practice, config, ops, st, of, open, text, graded, job, fresh>>
      BY <1>2 DEF AutoMark, answers
    <2>2. /\ phase[k] = "marking"
          /\ \/ phase' = [phase EXCEPT ![k] = "read"] /\ sheet' = [sheet EXCEPT ![k] = text[of[k]]]
             \/ phase' = [phase EXCEPT ![k] = Nothing] /\ UNCHANGED sheet
      BY <1>2 DEF AutoMark, Step
    <2>3. of[k] \in Attempt
      BY <1>0, <2>2 DEF RowsOK, Handed, Sub, Nothing
    <2>4. QED
      BY <1>0, <2>1, <2>2, <2>3, QuietPInv DEF PracticeTypes, Nothing
  <1>3. CASE Mark(k)
    BY <1>3, MarkPInv
  <1>4. CASE MarkFails(k)
    BY <1>0, <1>4, QuietPInv, PracticeAssumption DEF MarkFails, PracticeTypes, answers, Nothing
  <1>5. QED
    BY <1>1, <1>2, <1>3, <1>4

(* Every step preserves the invariant. *)
LEMMA NextPInv == PInv /\ [PracticeNext]_practiceVars => PInv'
  <1> SUFFICES ASSUME PInv, [PracticeNext]_practiceVars PROVE PInv'
    OBVIOUS
  <1>0. PracticeTypes /\ Window \subseteq Person /\ Teacher \subseteq Person
    BY DEF PInv, Person
  <1>1. ASSUME NEW w \in Window, WindowStep(w) PROVE PInv'
    <2>1. CASE WindowFails(w)
      BY <1>0, <2>1, ReturnPInv DEF WindowFails, PracticeTypes
    <2>2. QED
      BY <1>1, <2>1, NewAttemptPInv, NewWrongPInv, SavePInv, HandInPInv DEF WindowStep
  <1>2. ASSUME NEW t \in Teacher, TeacherStep(t) PROVE PInv'
    <2>1. CASE Release(t)
      BY <1>0, <2>1, ReturnPInv DEF Release, PracticeTypes
    <2>2. CASE Delete(t)
      BY <1>0, <2>2, ReturnPInv DEF Delete, PracticeTypes
    <2>3. QED
      BY <1>2, <2>1, <2>2, VoidPInv, TeacherMarksPInv DEF TeacherStep
  <1>3. ASSUME NEW k \in Sub, Visit(k) \/ AutoMark(k) \/ Mark(k) \/ MarkFails(k) PROVE PInv'
    BY <1>3, MarkingPInv
  <1>4. CASE UNCHANGED practiceVars
    BY <1>0, <1>4, QuietPInv DEF practiceVars, PracticeTypes
  <1>5. QED
    BY <1>1, <1>2, <1>3, <1>4, ReadsPInv DEF PracticeNext

-----------------------------------------------------------------------------

(* The answers of an attempt have one writer at a time, in however many        *)
(* windows the student works (setAnswerCanNotUpdate, EnterPracticeWrong-       *)
(* Collection): the writer alone keeps them open, and only a void leaves them. *)
THEOREM PracticeOneWriter == PracticeSpec => []OneWriter
  <1>1. PInv => OneWriter
    <2> SUFFICES ASSUME PInv, NEW a \in Begun
                 PROVE  /\ Cardinality(Writers(a)) <= 1
                        /\ Writers(a) # {} => open[a]
                        /\ open[a] => \E k \in Sub : of[k] = a /\ st[k] \in {"00", "10"}
      BY DEF OneWriter
    <2>1. \A j, k \in Writers(a) : j = k
      BY DEF PInv, Alone, Writers
    <2>2. Cardinality(Writers(a)) <= 1
      <3>1. CASE Writers(a) = {}
        BY <3>1, FS_EmptySet
      <3>2. CASE Writers(a) # {}
        <4>1. PICK k : Writers(a) = {k}
          BY <2>1, <3>2
        <4>2. QED
          BY <4>1, FS_Singleton
      <3>3. QED
        BY <3>1, <3>2
    <2>3. QED
      BY <2>2 DEF PInv, OpenOK, Writers, Begun
  <1>2. QED
    BY <1>1, InitPInv, NextPInv, PTL DEF PracticeSpec

(* Until an attempt has its score nothing changes its answers, and the score   *)
(* is for those, whether AutoMark, the AI task or a teacher gives it.          *)
THEOREM PracticeMarkedAsHandedIn == PracticeSpec => MarkedAsHandedIn
  <1> DEFINE Kept == \A a \in Attempt :
               st[a] = "06" => /\ text'[a] = text[a]
                               /\ st'[a] = "08" => graded'[a] = text[a]
  <1>1. PInv /\ [PracticeNext]_practiceVars => [Kept]_practiceVars
    <2> SUFFICES ASSUME PInv, PracticeNext, NEW a \in Attempt, st[a] = "06"
                 PROVE  text'[a] = text[a] /\ (st'[a] = "08" => graded'[a] = text[a])
      OBVIOUS
    <2>0. /\ PracticeTypes /\ JobsOK /\ RowsOK /\ OpenOK /\ FreshOK /\ ReadOK /\ a \in Sub /\ of[a] = a
          /\ Window \subseteq Person /\ Teacher \subseteq Person
      BY DEF PInv, Person, RowsOK, Sub
    <2>1. ASSUME NEW w \in Window, WindowStep(w)
          PROVE  text'[a] = text[a] /\ st'[a] # "08"
      <3>1. CASE SaveAnswer(w)
        BY <2>0, <3>1 DEF SaveAnswer, Serving, FreshOK, OpenOK, JobsOK, PracticeTypes
      <3>2. CASE HandIn(w)
        BY <2>0, <3>2 DEF HandIn, Serving, FreshOK, PracticeTypes
      <3>3. CASE NewAttempt(w) \/ NewWrong(w) \/ WindowFails(w)
        BY <2>0, <3>3 DEF NewAttempt, NewWrong, WindowFails, Spare, answers, PracticeTypes
      <3>4. QED
        BY <2>1, <3>1, <3>2, <3>3 DEF WindowStep
    <2>2. ASSUME NEW t \in Teacher, TeacherStep(t)
          PROVE  text'[a] = text[a] /\ (st'[a] = "08" => graded'[a] = text[a])
      <3>1. CASE TeacherMarks(t)
        BY <2>0, <3>1 DEF TeacherMarks, Serving, ReadOK, JobsOK, PracticeTypes
      <3>2. CASE Release(t) \/ Delete(t)
        BY <3>2 DEF Release, Delete, answers
      <3>3. CASE Void(t)
        BY <2>0, <3>3 DEF Void, answers
      <3>4. QED
        BY <2>2, <3>1, <3>2, <3>3 DEF TeacherStep
    <2>3. ASSUME NEW k \in Sub, Visit(k) \/ AutoMark(k) \/ Mark(k) \/ MarkFails(k)
          PROVE  text'[a] = text[a] /\ (st'[a] = "08" => graded'[a] = text[a])
      <3>1. CASE Mark(k)
        BY <2>0, <3>1 DEF Mark, Step, Score, ReadOK, PracticeTypes
      <3>2. CASE Visit(k) \/ AutoMark(k) \/ MarkFails(k)
        BY <3>2 DEF Visit, AutoMark, MarkFails, answers
      <3>3. QED
        BY <2>3, <3>1, <3>2
    <2>4. ASSUME UNCHANGED <<st, answers>> PROVE text'[a] = text[a] /\ st'[a] # "08"
      BY <2>4 DEF answers
    <2>5. QED
      BY <2>1, <2>2, <2>3, <2>4
         DEF PracticeNext, EnterPractice, EnterWrong, StudentAnswer, SubmitPractice, TeacherReads, Operate
  <1>2. QED
    BY <1>1, InitPInv, NextPInv, PTL DEF PracticeSpec, MarkedAsHandedIn

(* A void submission is not resumed and not handed in, although the check and  *)
(* the void may overlap (OperatePracticeStatusV2, setAnswerCanNotUpdate): only *)
(* marking that was under way still ends.                                      *)
THEOREM PracticeVoidStays == PracticeSpec => VoidStays
  <1> DEFINE Stays == \A k \in Sub :
               st[k] = "10" => /\ st'[k] \in {"10", "08"}
                               /\ phase[k] = Nothing => phase'[k] = Nothing
  <1>1. PInv /\ [PracticeNext]_practiceVars => [Stays]_practiceVars
    <2> SUFFICES ASSUME PInv, PracticeNext, NEW k \in Sub, st[k] = "10"
                 PROVE  st'[k] \in {"10", "08"} /\ (phase[k] = Nothing => phase'[k] = Nothing)
      OBVIOUS
    <2> USE DEF Nothing
    <2>0. /\ PracticeTypes /\ JobsOK /\ RowsOK /\ OpenOK /\ FreshOK
          /\ Window \subseteq Person /\ Teacher \subseteq Person
      BY DEF PInv, Person
    <2>1. ASSUME NEW w \in Window, WindowStep(w)
          PROVE  st'[k] = "10" /\ phase'[k] = phase[k]
      <3>1. CASE HandIn(w)
        BY <2>0, <3>1 DEF HandIn, Serving, FreshOK, PracticeTypes
      <3>2. CASE NewAttempt(w) \/ NewWrong(w)
        BY <2>0, <3>2 DEF NewAttempt, NewWrong, Spare, marking, PracticeTypes
      <3>3. CASE SaveAnswer(w) \/ WindowFails(w)
        BY <3>3 DEF SaveAnswer, WindowFails, marking
      <3>4. QED
        BY <2>1, <3>1, <3>2, <3>3 DEF WindowStep
    <2>2. ASSUME NEW t \in Teacher, TeacherStep(t)
          PROVE  st'[k] \in {"10", "08"} /\ phase'[k] = phase[k]
      BY <2>0, <2>2 DEF TeacherStep, TeacherMarks, Release, Delete, Void, marking, PracticeTypes
    <2>3. ASSUME NEW j \in Sub, Visit(j) \/ AutoMark(j) \/ Mark(j) \/ MarkFails(j)
          PROVE  st'[k] \in {"10", "08"} /\ (phase[k] = Nothing => phase'[k] = Nothing)
      BY <2>0, <2>3 DEF Visit, AutoMark, Mark, MarkFails, Step, Score, marking, PracticeTypes
    <2>4. ASSUME UNCHANGED <<st, marking>> PROVE st'[k] = "10" /\ phase'[k] = phase[k]
      BY <2>4 DEF marking
    <2>5. QED
      BY <2>1, <2>2, <2>3, <2>4
         DEF PracticeNext, EnterPractice, EnterWrong, StudentAnswer, SubmitPractice, TeacherReads, Operate
  <1>2. QED
    BY <1>1, InitPInv, NextPInv, PTL DEF PracticeSpec, VoidStays

-----------------------------------------------------------------------------
(* ExamMarking. *)

(* Some watcher runs. *)
Watching == \E r \in Request : watcher[r] # "off"

(* Tasks and watchers come with the AI and teachers without it, and a watcher  *)
(* that is deleting the key has set the session to marked.                     *)
WatchersOfAI ==
  /\ \A r \in Request :
        /\ task[r] # None \/ watcher[r] # "off" => mode = "00"
        /\ watcher[r] = "delete" => sess = "10"
  /\ \A t \in Marker : saw[t] # None => mode # "00"

(* Watched, with the key and the tasks that are about to commit: wherever one  *)
(* relies on a watcher there is one.                                           *)
Relied ==
  \/ key
  \/ \E r \in Request : task[r] = "marked"
  \/ mode = "00" /\ \E s \in Student : "subjective" \in scored[s]

WatcherThere == crashes = 0 /\ mode = "00" /\ sess # "10" /\ Relied => Watching

MInv == TypeOK /\ WatchersOfAI /\ WatcherThere

(* A session marked by the AI that is no longer running is one that everybody  *)
(* has left, and what the watchers have read of it stays true.                 *)
OutWhenOver == mode = "00" /\ sess \in {"08", "10"} => out = Student

WatcherRead ==
  \A r \in Request :
     /\ watcher[r] \in {"count", "update", "delete"} => sess \in {"08", "10"}
     /\ watcher[r] \in {"update", "delete"} => \A s \in Student : scored[s] = paper

OfPaper == \A s \in Student : scored[s] \subseteq paper

CInv == MInv /\ OutWhenOver /\ WatcherRead /\ OfPaper /\ MarkedIsComplete

-----------------------------------------------------------------------------

LEMMA InitMInv == Init => MInv
  <1> SUFFICES ASSUME Init PROVE MInv
    OBVIOUS
  <1>1. TypeOK
    <2>1. 0 \in 0..MaxRetry /\ 0 \in 0..MaxCrash
      BY MarkingAssumption
    <2>2. /\ scored \in [Student -> SUBSET Part]
          /\ saw \in [Marker -> {None, "04", "06", "08", "10"}]
      BY DEF Init
    <2>3. /\ auto \in [Request -> AutoState] /\ task \in [Request -> TaskState]
          /\ tries \in [Request -> 0..MaxRetry] /\ watcher \in [Request -> WatcherState]
      BY <2>1 DEF Init, AutoState, TaskState, WatcherState
    <2>4. QED
      BY <2>1, <2>2, <2>3 DEF Init, TypeOK
  <1>2. WatchersOfAI
    BY DEF Init, WatchersOfAI, None
  <1>3. WatcherThere
    BY DEF Init, WatcherThere, Relied, None
  <1>4. QED
    BY <1>1, <1>2, <1>3 DEF MInv

LEMMA NextTypeOK == TypeOK /\ [Next]_vars => TypeOK'
  <1> SUFFICES ASSUME TypeOK, [Next]_vars PROVE TypeOK'
    OBVIOUS
  <1> USE MarkingAssumption DEF TypeOK, AutoState, TaskState, WatcherState, Part, None
  <1>1. ASSUME NEW r \in Request, Submit(r) PROVE TypeOK'
    BY <1>1 DEF Submit, exam, tasks, teachers
  <1>2. ASSUME NEW r \in Request, AutoMarkStep(r) \/ AutoMarkFails(r) PROVE TypeOK'
    <2>1. CASE Enqueue(r)
      BY <2>1 DEF Enqueue, exam, tasks, teachers
    <2>2. CASE AutoMarkCommit(r)
      BY <2>2 DEF AutoMarkCommit, exam, tasks, teachers
    <2>3. CASE AutoMarkFails(r)
      BY <2>3 DEF AutoMarkFails, exam, tasks, teachers
    <2>4. QED
      BY <1>2, <2>1, <2>2, <2>3 DEF AutoMarkStep
  <1>3. ASSUME NEW r \in Request, AIMarkTask(r) \/ TaskFails(r) PROVE TypeOK'
    <2>1. CASE TaskRun(r)
      BY <2>1 DEF TaskRun, exam, tasks, teachers
    <2>2. CASE TaskSkipsWatcher(r)
      BY <2>2 DEF TaskSkipsWatcher, exam, tasks, teachers
    <2>3. CASE TaskChecksKey(r)
      BY <2>3 DEF TaskChecksKey, exam, tasks, teachers
    <2>4. CASE TaskStartsWatcher(r)
      BY <2>4 DEF TaskStartsWatcher, SetKey, exam, tasks, teachers
    <2>5. CASE TaskCommit(r)
      BY <2>5 DEF TaskCommit, exam, tasks, teachers
    <2>6. CASE TaskFails(r)
      BY <2>6 DEF TaskFails, Retry, exam, tasks, teachers
    <2>7. QED
      BY <1>3, <2>1, <2>2, <2>3, <2>4, <2>5, <2>6 DEF AIMarkTask
  <1>4. ASSUME NEW r \in Request, Watch(r) PROVE TypeOK'
    <2>1. CASE WatchStatus(r)
      BY <2>1 DEF WatchStatus, WatchStep, exam, tasks, teachers
    <2>2. CASE WatchCount(r)
      BY <2>2 DEF WatchCount, WatchStep, exam, tasks, teachers
    <2>3. CASE WatchUpdate(r)
      BY <2>3 DEF WatchUpdate, WatchStep, exam, tasks, teachers
    <2>4. CASE WatchDelete(r)
      BY <2>4 DEF WatchDelete, WatchStep, exam, tasks, teachers
    <2>5. QED
      BY <1>4, <2>1, <2>2, <2>3, <2>4 DEF Watch
  <1>5. CASE EndTimePasses
    BY <1>5 DEF EndTimePasses, exam, tasks, teachers
  <1>6. ASSUME NEW closed \in SUBSET Student, SessionEnd(closed) PROVE TypeOK'
    BY <1>6 DEF SessionEnd, exam, tasks, teachers
  <1>7. ASSUME NEW t \in Marker, SaveRead(t) PROVE TypeOK'
    BY <1>7 DEF SaveRead, exam, tasks
  <1>8. ASSUME NEW t \in Marker, NEW s \in Student, Save(t, s) PROVE TypeOK'
    BY <1>8 DEF Save, exam, tasks
  <1>9. CASE SubmitResult
    BY <1>9 DEF SubmitResult, exam, tasks, teachers
  <1>10. CASE Crash
    BY <1>10 DEF Crash, exam
  <1>11. CASE UNCHANGED vars
    BY <1>11 DEF vars
  <1>12. QED
    BY <1>1, <1>2, <1>3, <1>4, <1>5, <1>6, <1>7, <1>8, <1>9, <1>10, <1>11 DEF Next

LEMMA NextMInv == MInv /\ [Next]_vars => MInv'
  <1> SUFFICES ASSUME MInv, [Next]_vars PROVE MInv'
    OBVIOUS
  <1>0. TypeOK'
    BY NextTypeOK DEF MInv
  <1> SUFFICES WatchersOfAI' /\ WatcherThere'
    BY <1>0 DEF MInv
  <1>t. /\ task \in [Request -> TaskState] /\ watcher \in [Request -> WatcherState]
        /\ scored \in [Student -> SUBSET Part] /\ crashes \in Nat
        /\ saw \in [Marker -> {None, "04", "06", "08", "10"}]
    BY DEF MInv, TypeOK
  <1>i. WatchersOfAI /\ WatcherThere
    BY DEF MInv
  <1> USE <1>t, <1>i DEF WatchersOfAI, WatcherThere, Relied, Watching, None
  <1>1. ASSUME NEW r \in Request, Submit(r) PROVE WatchersOfAI' /\ WatcherThere'
    BY <1>1 DEF Submit, exam, tasks, teachers
  <1>2. ASSUME NEW r \in Request, AutoMarkStep(r) \/ AutoMarkFails(r) PROVE WatchersOfAI' /\ WatcherThere'
    <2>1. CASE Enqueue(r)
      BY <2>1 DEF Enqueue, exam, tasks, teachers
    <2>2. CASE AutoMarkCommit(r)
      BY <2>2 DEF AutoMarkCommit, exam, tasks, teachers
    <2>3. CASE AutoMarkFails(r)
      BY <2>3 DEF AutoMarkFails, exam, tasks, teachers
    <2>4. QED
      BY <1>2, <2>1, <2>2, <2>3 DEF AutoMarkStep
  <1>3. ASSUME NEW r \in Request, AIMarkTask(r) \/ TaskFails(r) PROVE WatchersOfAI' /\ WatcherThere'
    <2>1. CASE TaskRun(r)
      BY <2>1 DEF TaskRun, exam, tasks, teachers
    <2>2. CASE TaskSkipsWatcher(r)
      BY <2>2 DEF TaskSkipsWatcher, exam, tasks, teachers
    <2>3. CASE TaskChecksKey(r)
      BY <2>3 DEF TaskChecksKey, exam, tasks, teachers
    <2>4. CASE TaskStartsWatcher(r)
      BY <2>4 DEF TaskStartsWatcher, SetKey, exam, tasks, teachers
    <2>5. CASE TaskCommit(r)
      BY <2>5 DEF TaskCommit, exam, tasks, teachers
    <2>6. CASE TaskFails(r)
      BY <2>6 DEF TaskFails, exam, tasks, teachers
    <2>7. QED
      BY <1>3, <2>1, <2>2, <2>3, <2>4, <2>5, <2>6 DEF AIMarkTask
  <1>4. ASSUME NEW r \in Request, Watch(r) PROVE WatchersOfAI' /\ WatcherThere'
    <2>1. CASE WatchStatus(r)
      BY <2>1 DEF WatchStatus, WatchStep, exam, tasks, teachers
    <2>2. CASE WatchCount(r)
      BY <2>2 DEF WatchCount, WatchStep, exam, tasks, teachers
    <2>3. CASE WatchUpdate(r)
      BY <2>3 DEF WatchUpdate, WatchStep, exam, tasks, teachers
    <2>4. CASE WatchDelete(r)
      BY <2>4 DEF WatchDelete, WatchStep, exam, tasks, teachers
    <2>5. QED
      BY <1>4, <2>1, <2>2, <2>3, <2>4 DEF Watch
  <1>5. CASE EndTimePasses
    BY <1>5 DEF EndTimePasses, exam, tasks, teachers
  <1>6. ASSUME NEW closed \in SUBSET Student, SessionEnd(closed) PROVE WatchersOfAI' /\ WatcherThere'
    BY <1>6 DEF SessionEnd, exam, tasks, teachers
  <1>7. ASSUME NEW t \in Marker, SaveRead(t) PROVE WatchersOfAI' /\ WatcherThere'
    BY <1>7 DEF SaveRead, exam, tasks
  <1>8. ASSUME NEW t \in Marker, NEW s \in Student, Save(t, s) PROVE WatchersOfAI' /\ WatcherThere'
    BY <1>8 DEF Save, exam, tasks
  <1>9. CASE SubmitResult
    BY <1>9 DEF SubmitResult, exam, tasks, teachers
  <1>10. CASE Crash
    BY <1>10 DEF Crash, exam
  <1>11. CASE UNCHANGED vars
    BY <1>11 DEF vars
  <1>12. QED
    BY <1>1, <1>2, <1>3, <1>4, <1>5, <1>6, <1>7, <1>8, <1>9, <1>10, <1>11 DEF Next

-----------------------------------------------------------------------------
(* Completeness.  AutoMark sets a session to marked if the paper has no        *)
(* subjective questions; the invariant is about the other papers.              *)

LEMMA PaperFixed == [Next]_vars => paper' = paper
  BY DEF Next, Submit, EndTimePasses, SessionEnd, AutoMarkStep, Enqueue, AutoMarkCommit,
     AutoMarkFails, AIMarkTask, TaskRun, TaskSkipsWatcher, TaskChecksKey, TaskStartsWatcher,
     TaskCommit, TaskFails, Watch, WatchStatus, WatchCount, WatchUpdate, WatchDelete, SaveRead,
     Save, SubmitResult, Crash, exam, vars

LEMMA InitCInv == Init => CInv
  <1> SUFFICES ASSUME Init PROVE CInv
    OBVIOUS
  <1>1. MInv
    BY InitMInv
  <1>2. OutWhenOver /\ WatcherRead /\ OfPaper /\ MarkedIsComplete
    BY DEF Init, OutWhenOver, WatcherRead, OfPaper, MarkedIsComplete
  <1>3. QED
    BY <1>1, <1>2 DEF CInv

LEMMA NextCInv == "subjective" \in paper /\ CInv /\ [Next]_vars => CInv'
  <1> SUFFICES ASSUME "subjective" \in paper, CInv, [Next]_vars PROVE CInv'
    OBVIOUS
  <1>m. MInv'
    BY NextMInv DEF CInv
  <1> DEFINE Kept == OutWhenOver' /\ WatcherRead' /\ OfPaper' /\ MarkedIsComplete'
  <1> SUFFICES Kept
    BY <1>m DEF CInv
  <1>t. /\ task \in [Request -> TaskState] /\ watcher \in [Request -> WatcherState]
        /\ scored \in [Student -> SUBSET Part] /\ out \subseteq Student
        /\ saw \in [Marker -> {None, "04", "06", "08", "10"}]
        /\ sess \in {"04", "06", "08", "10"}
        /\ "subjective" \in paper
        /\ By \in [Request -> Student]
    BY MarkingAssumption DEF CInv, MInv, TypeOK
  <1>i. WatchersOfAI /\ OutWhenOver /\ WatcherRead /\ OfPaper /\ MarkedIsComplete
    BY DEF CInv, MInv
  <1> USE <1>t, <1>i DEF WatchersOfAI, OutWhenOver, WatcherRead, OfPaper, MarkedIsComplete, None
  <1>1. ASSUME NEW r \in Request, Submit(r) PROVE Kept
    BY <1>1 DEF Submit, exam, tasks, teachers
  <1>2. ASSUME NEW r \in Request, AutoMarkStep(r) \/ AutoMarkFails(r) PROVE Kept
    <2>1. CASE Enqueue(r)
      BY <2>1 DEF Enqueue, exam, tasks, teachers
    <2>2. CASE AutoMarkCommit(r)
      <3>1. sess' = sess /\ watcher' = watcher /\ out' = out /\ paper' = paper /\ mode' = mode
        BY <2>2 DEF AutoMarkCommit, exam
      <3>2. \A s \in Student : /\ scored'[s] \subseteq paper
                               /\ scored[s] = paper => scored'[s] = paper
        BY <2>2 DEF AutoMarkCommit
      <3>3. QED
        BY <3>1, <3>2
    <2>3. CASE AutoMarkFails(r)
      BY <2>3 DEF AutoMarkFails, exam, tasks, teachers
    <2>4. QED
      BY <1>2, <2>1, <2>2, <2>3 DEF AutoMarkStep
  <1>3. ASSUME NEW r \in Request, AIMarkTask(r) \/ TaskFails(r) PROVE Kept
    <2>1. CASE TaskRun(r)
      BY <2>1 DEF TaskRun, exam, tasks, teachers
    <2>2. CASE TaskSkipsWatcher(r)
      BY <2>2 DEF TaskSkipsWatcher, exam, tasks, teachers
    <2>3. CASE TaskChecksKey(r)
      BY <2>3 DEF TaskChecksKey, exam, tasks, teachers
    <2>4. CASE TaskStartsWatcher(r)
      BY <2>4 DEF TaskStartsWatcher, SetKey, exam, tasks, teachers
    <2>5. CASE TaskCommit(r)
      <3>1. sess' = sess /\ watcher' = watcher /\ out' = out /\ paper' = paper /\ mode' = mode
        BY <2>5 DEF TaskCommit, exam
      <3>2. \A s \in Student : /\ scored'[s] \subseteq paper
                               /\ scored[s] = paper => scored'[s] = paper
        BY <2>5 DEF TaskCommit
      <3>3. QED
        BY <3>1, <3>2
    <2>6. CASE TaskFails(r)
      BY <2>6 DEF TaskFails, exam, tasks, teachers
    <2>7. QED
      BY <1>3, <2>1, <2>2, <2>3, <2>4, <2>5, <2>6 DEF AIMarkTask
  <1>4. ASSUME NEW r \in Request, Watch(r) PROVE Kept
    <2>1. CASE WatchStatus(r)
      BY <2>1 DEF WatchStatus, WatchStep, exam, tasks, teachers
    <2>2. CASE WatchCount(r)
      <3>1. mode = "00"
        BY <2>2 DEF WatchCount, WatchStep
      <3>2. out = Student
        BY <2>2, <3>1 DEF WatchCount, WatchStep
      <3>3. Unmarked = {} => \A s \in Student : scored[s] = paper
        BY <3>2 DEF Unmarked
      <3>4. QED
        BY <2>2, <3>3 DEF WatchCount, WatchStep, exam, tasks, teachers
    <2>3. CASE WatchUpdate(r)
      BY <2>3 DEF WatchUpdate, WatchStep, exam, tasks, teachers
    <2>4. CASE WatchDelete(r)
      BY <2>4 DEF WatchDelete, WatchStep, exam, tasks, teachers
    <2>5. QED
      BY <1>4, <2>1, <2>2, <2>3, <2>4 DEF Watch
  <1>5. CASE EndTimePasses
    BY <1>5 DEF EndTimePasses, exam, tasks, teachers
  <1>6. ASSUME NEW closed \in SUBSET Student, SessionEnd(closed) PROVE Kept
    BY <1>6 DEF SessionEnd, exam, tasks, teachers
  <1>7. ASSUME NEW t \in Marker, SaveRead(t) PROVE Kept
    BY <1>7 DEF SaveRead, exam, tasks
  <1>8. ASSUME NEW t \in Marker, NEW s \in Student, Save(t, s) PROVE Kept
    BY <1>8 DEF Save, exam, tasks
  <1>9. CASE SubmitResult
    <2>1. mode # "00" /\ mode' = mode /\ watcher' = watcher /\ paper' = paper /\ sess' = "10"
      BY <1>9 DEF SubmitResult, exam
    <2>2. \A r \in Request : watcher[r] = "off"
      BY <2>1
    <2>3. \A s \in Student : scored'[s] \subseteq paper
      BY <1>9 DEF SubmitResult
    <2>4. QED
      BY <2>1, <2>2, <2>3
  <1>10. CASE Crash
    BY <1>10 DEF Crash, exam
  <1>11. CASE UNCHANGED vars
    BY <1>11 DEF vars
  <1>12. QED
    BY <1>1, <1>2, <1>3, <1>4, <1>5, <1>6, <1>7, <1>8, <1>9, <1>10, <1>11 DEF Next

-----------------------------------------------------------------------------

(* Every variable keeps its type; in particular asynq's limit on retries is    *)
(* kept through failures and crashes.                                          *)
THEOREM MarkingTypeCorrect == Spec => []TypeOK
  <1>1. MInv => TypeOK
    BY DEF MInv
  <1>2. (Init => MInv) /\ (MInv /\ [Next]_vars => MInv')
    BY InitMInv, NextMInv
  <1>3. QED
    BY <1>1, <1>2, PTL DEF Spec

(* Until the service crashes, a session in which the AI has marked anybody has *)
(* a watcher (handleAIMarkTask: Exists, startExamSessionStatusCheck, Set).     *)
THEOREM MarkingWatched == Spec => []Watched
  <1>1. MInv => Watched
    BY DEF MInv, WatcherThere, Relied, Watching, Watched
  <1>2. (Init => MInv) /\ (MInv /\ [Next]_vars => MInv')
    BY InitMInv, NextMInv
  <1>3. QED
    BY <1>1, <1>2, PTL DEF Spec

(* A session whose paper has subjective questions and which is marked by the   *)
(* AI is set to marked (startExamSessionStatusCheck) only when everybody is.   *)
THEOREM MarkingComplete == Spec => []("subjective" \in paper => MarkedIsComplete)
  <1> DEFINE Inv == "subjective" \in paper => CInv
  <1>1. Inv => ("subjective" \in paper => MarkedIsComplete)
    BY DEF CInv
  <1>2. Init => Inv
    BY InitCInv
  <1>3. Inv /\ [Next]_vars => Inv'
    BY NextCInv, PaperFixed
  <1>4. QED
    <2> HIDE DEF Inv
    <2> QED  BY <1>1, <1>2, <1>3, PTL DEF Spec

(* No step takes a session back from marking or marked, and none of the AI's    *)
(* marking takes back "marked" (handleExamSessionEnd, saveMarkingResults).      *)
THEOREM MarkingNotReopened == Spec => NotReopened
  <1> DEFINE Forward == /\ sess \in {"08", "10"} => sess' \notin {"04", "06"}
                        /\ sess = "10" /\ mode = "00" => sess' = "10"
  <1>1. MInv /\ [Next]_vars => [Forward]_vars
    <2> SUFFICES ASSUME MInv, [Next]_vars PROVE Forward
      OBVIOUS
    <2>i. WatchersOfAI
      BY DEF MInv
    <2> USE <2>i DEF WatchersOfAI
    <2>1. ASSUME NEW r \in Request, Submit(r) \/ AutoMarkStep(r) \/ AutoMarkFails(r) PROVE Forward
      BY <2>1 DEF Submit, AutoMarkStep, Enqueue, AutoMarkCommit, AutoMarkFails
    <2>2. ASSUME NEW r \in Request, AIMarkTask(r) \/ TaskFails(r) PROVE sess' = sess
      BY <2>2 DEF AIMarkTask, TaskRun, TaskSkipsWatcher, TaskChecksKey, TaskStartsWatcher, TaskCommit, TaskFails
    <2>3. ASSUME NEW r \in Request, Watch(r) PROVE Forward
      BY <2>3 DEF Watch, WatchStatus, WatchCount, WatchUpdate, WatchDelete
    <2>4. ASSUME NEW closed \in SUBSET Student, SessionEnd(closed) PROVE Forward
      BY <2>4 DEF SessionEnd
    <2>5. ASSUME NEW t \in Marker, NEW s \in Student, Save(t, s) PROVE Forward
      BY <2>5 DEF Save
    <2>6. ASSUME NEW t \in Marker, SaveRead(t) PROVE Forward
      BY <2>6 DEF SaveRead
    <2>7. CASE EndTimePasses \/ SubmitResult \/ Crash \/ UNCHANGED vars
      BY <2>7 DEF EndTimePasses, SubmitResult, Crash, vars
    <2>8. QED
      BY <2>1, <2>2, <2>3, <2>4, <2>5, <2>6, <2>7 DEF Next
  <1>2. (Init => MInv) /\ (MInv /\ [Next]_vars => MInv')
    BY InitMInv, NextMInv
  <1>3. QED
    BY <1>1, <1>2, PTL DEF Spec, NotReopened
=============================================================================
