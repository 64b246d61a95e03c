-------------------------- MODULE ExamSitting_proofs --------------------------
(* Proofs about the two components that a student meets while sitting an exam: *)
(* first ExamSitting, for any students, handlers, times, extensions and        *)
(* bounds; then TimeSync, for any finite number of connections and any         *)
(* capacity of the channels and the pool.                                      *)
EXTENDS ExamSitting, TimeSync, SequenceTheorems, FiniteSetTheorems, TLAPS

(* What the end handler has read stays true until it writes: nobody can be     *)
(* given extra time meanwhile (the session is locked), and a start_time is     *)
(* written once.                                                               *)
PlanHolds ==
  plan.on => /\ \A s \in plan.over : start[s] # Unset /\ Due(s) <= now
             /\ \A s \in plan.absent : start[s] = Unset => Due(s) <= now

PlanOff == ~plan.on => plan = NoPlan

(* Only who has begun has an end time.                                         *)
EndedHasBegun == \A s \in Student : end[s] # Unset => start[s] # Unset

(* What a handler has checked, as long as the row has not changed.             *)
Checked(h) ==
  LET s == job[h].who
  IN  /\ job[h].at <= now
      /\ job[h].op = "mark" => job[h].set \in Marks
      /\ job[h].op = "remark" => job[h].set = "00"
      /\ job[h].op = "extend" => job[h].add \in Extensions
      /\ (job[h].op = "enter" /\ fresh[h] /\ start[s] = Unset) =>
           \/ code[s] = "16" \/ period = "flexible" \/ LatestEntry = Opens
           \/ job[h].at <= LatestEntry

SInv == TypeOK /\ PlanOff /\ PlanHolds /\ EndedHasBegun /\ \A h \in Handler : Checked(h)

-----------------------------------------------------------------------------

LEMMA Sizes ==
  /\ Opens \in Nat /\ Closes \in Nat /\ LatestEntry \in Nat /\ NextOpens \in Nat
  /\ Day \in Nat /\ Duration \in Nat /\ MaxTime \in Nat /\ MaxPatch \in Nat
  /\ Closes <= MaxTime /\ Closes <= NextOpens
  /\ Unset \in Nat /\ Unset > MaxTime
  BY SittingAssumption DEF Unset

JobType == [op : {None, "enter", "submit", "allow", "mark", "clear", "remark", "extend"},
            who : Student, set : Code \cup {None}, add : Nat, at : Time]

LEMMA IdleType == Idle \in JobType
  <1>1. (CHOOSE s \in Student : TRUE) \in Student
    <2>1. \E s \in Student : TRUE
      BY SittingAssumption
    <2>2. QED
      BY <2>1
  <1>2. QED
    BY <1>1, Sizes DEF Idle, JobType, Time

LEMMA DueType == TypeOK => \A s \in Student : Due(s) \in Nat
  BY Sizes DEF TypeOK, Due, Time

LEMMA InitSInv == Init => SInv
  <1> SUFFICES ASSUME Init PROVE SInv
    OBVIOUS
  <1>1. TypeOK
    BY IdleType, Sizes DEF Init, TypeOK, JobType, Time, NoPlan, Code
  <1>2. \A h \in Handler : Checked(h)
    BY Sizes DEF Init, Checked, Idle, None
  <1>3. QED
    BY <1>1, <1>2, Sizes DEF Init, SInv, PlanOff, PlanHolds, NoPlan, EndedHasBegun

(* Steps that begin and end a request.                                         *)
LEMMA BeginType ==
  ASSUME TypeOK, NEW h \in Handler, NEW s \in Student, NEW set \in Code \cup {None}, NEW add \in Nat,
         NEW op \in {"enter", "submit", "allow", "mark", "clear", "remark", "extend"},
         Begin(h, op, s, set, add)
  PROVE  /\ job' \in [Handler -> JobType] /\ fresh' \in [Handler -> BOOLEAN]
         /\ job'[h] = [op |-> op, who |-> s, set |-> set, add |-> add, at |-> now]
         /\ \A g \in Handler : g # h => job'[g] = job[g] /\ fresh'[g] = fresh[g]
  <1>1. [op |-> op, who |-> s, set |-> set, add |-> add, at |-> now] \in JobType
    BY DEF TypeOK, JobType
  <1>2. QED
    BY <1>1 DEF Begin, TypeOK, JobType

LEMMA ReturnType ==
  ASSUME TypeOK, NEW h \in Handler, NEW stale, Return(h, stale)
  PROVE  /\ job' \in [Handler -> JobType] /\ fresh' \in [Handler -> BOOLEAN]
         /\ job'[h] = Idle
         /\ \A g \in Handler : g # h => job'[g] = job[g]
         /\ \A g \in Handler : fresh'[g] => fresh[g] /\ g \notin stale
  BY IdleType DEF Return, TypeOK, JobType

(* A check stays true while nobody writes the row.                             *)
LEMMA CheckedKept ==
  ASSUME NEW g \in Handler, Checked(g), job'[g] = job[g], fresh'[g] => fresh[g],
         now \in Nat, now' \in Nat, now <= now', job[g].at \in Nat, period' = period,
         fresh'[g] => /\ code'[job[g].who] = code[job[g].who]
                      /\ start'[job[g].who] = start[job[g].who]
  PROVE  Checked(g)'
  BY DEF Checked

LEMMA IdleChecked ==
  ASSUME NEW g \in Handler, job'[g] = Idle, now' \in Nat
  PROVE  Checked(g)'
  BY DEF Checked, Idle, None

(* What a finished request does to the checks of all handlers.                 *)
LEMMA ReturnChecked ==
  ASSUME SInv, NEW h \in Handler, NEW s \in Student, NEW stale, Return(h, stale),
         now' = now, period' = period,
         \A t \in Student : t # s => code'[t] = code[t] /\ start'[t] = start[t],
         \/ stale = Holders(s)
         \/ code'[s] = code[s] /\ start'[s] = start[s]
  PROVE  \A g \in Handler : Checked(g)'
  <1> SUFFICES ASSUME NEW g \in Handler PROVE Checked(g)'
    OBVIOUS
  <1>1. now \in Nat /\ job[g].at \in Nat /\ job[g].who \in Student
    BY DEF SInv, TypeOK, Time
  <1>2. CASE g = h
    BY <1>1, <1>2, ReturnType, IdleChecked DEF SInv
  <1>3. CASE g # h /\ job[g] = Idle
    BY <1>1, <1>3, ReturnType, IdleChecked DEF SInv
  <1>4. CASE g # h /\ job[g] # Idle
    <2>1. job'[g] = job[g] /\ (fresh'[g] => fresh[g] /\ g \notin stale)
      BY <1>4, ReturnType DEF SInv
    <2>2. stale = Holders(s) /\ job[g].who = s => g \in stale
      BY <1>4 DEF Holders
    <2>3. fresh'[g] => /\ code'[job[g].who] = code[job[g].who]
                       /\ start'[job[g].who] = start[job[g].who]
      BY <1>1, <2>1, <2>2
    <2>4. Checked(g)
      BY DEF SInv
    <2>5. QED
      BY <1>1, <2>1, <2>3, <2>4, CheckedKept
  <1>5. QED
    BY <1>2, <1>3, <1>4

(* A request that has passed its checks.                                       *)
LEMMA BeginChecked ==
  ASSUME SInv, NEW h \in Handler, job'[h].at <= now, now' = now,
         UNCHANGED <<period, code, start>>,
         \A g \in Handler : g # h => job'[g] = job[g] /\ fresh'[g] = fresh[g],
         job'[h].op = "mark" => job'[h].set \in Marks,
         job'[h].op = "remark" => job'[h].set = "00",
         job'[h].op = "extend" => job'[h].add \in Extensions,
         job'[h].op = "enter" =>
           LET s == job'[h].who
           IN  start[s] = Unset =>
                 \/ code[s] = "16" \/ period = "flexible" \/ LatestEntry = Opens
                 \/ job'[h].at <= LatestEntry
  PROVE  \A g \in Handler : Checked(g)'
  <1> SUFFICES ASSUME NEW g \in Handler PROVE Checked(g)'
    OBVIOUS
  <1>1. CASE g = h
    BY <1>1 DEF Checked
  <1>2. CASE g # h
    BY <1>2 DEF SInv, Checked
  <1>3. QED
    BY <1>1, <1>2

-----------------------------------------------------------------------------
(* Requests that begin: only job and fresh change. *)

LEMMA RequestSInv ==
  ASSUME SInv, NEW h \in Handler, NEW s \in Student,
         InitRespondent(h, s) \/ Submit(h, s) \/ AllowStudent(h, s) \/ Patch(h, s)
  PROVE  SInv'
  <1> USE DEF SInv
  <1>1. now \in Nat
    BY DEF TypeOK, Time
  <1>2. ASSUME NEW op \in {"enter", "submit", "allow", "mark", "clear", "remark", "extend"},
               NEW set \in Code \cup {None}, NEW add \in Nat, Begin(h, op, s, set, add),
               op = "mark" => set \in Marks, op = "remark" => set = "00",
               op = "extend" => add \in Extensions, op = "enter" => MayEnter(s),
               UNCHANGED <<now, session, rows>>, patches' \in 0..MaxPatch
        PROVE  SInv'
    <2>1. TypeOK'
      <3>1. job' \in [Handler -> JobType] /\ fresh' \in [Handler -> BOOLEAN]
        BY <1>2, BeginType
      <3>2. QED
        BY <1>2, <3>1 DEF TypeOK, JobType, session, rows
    <2>2. PlanOff' /\ PlanHolds' /\ EndedHasBegun'
      BY <1>2 DEF PlanOff, PlanHolds, EndedHasBegun, Due, session, rows
    <2>3. /\ job'[h] = [op |-> op, who |-> s, set |-> set, add |-> add, at |-> now]
          /\ \A g \in Handler : g # h => job'[g] = job[g] /\ fresh'[g] = fresh[g]
      BY <1>2, BeginType
    <2>4. job'[h].at <= now /\ now' = now /\ UNCHANGED <<period, code, start>>
      BY <1>1, <1>2, <2>3 DEF session, rows
    <2>5. op = "enter" => (start[s] = Unset =>
            \/ code[s] = "16" \/ period = "flexible" \/ LatestEntry = Opens
            \/ now <= LatestEntry)
      BY <1>2 DEF MayEnter
    <2>6. \A g \in Handler : Checked(g)'
      BY <1>2, <2>3, <2>4, <2>5, BeginChecked
    <2>7. QED
      BY <2>1, <2>2, <2>6
  <1>3. None \in Code \cup {None} /\ "00" \in Code \cup {None} /\ Marks \subseteq Code
        /\ Extensions \subseteq Nat /\ patches \in 0..MaxPatch /\ MaxPatch \in Nat
    BY SittingAssumption, Sizes DEF Code, TypeOK
  <1>4. CASE InitRespondent(h, s)
    BY <1>2, <1>3, <1>4 DEF InitRespondent
  <1>5. CASE Submit(h, s)
    BY <1>2, <1>3, <1>5 DEF Submit
  <1>6. CASE AllowStudent(h, s)
    BY <1>2, <1>3, <1>6 DEF AllowStudent
  <1>7. CASE Patch(h, s)
    <2>1. UNCHANGED <<now, session, rows>> /\ patches' \in 0..MaxPatch
      BY <1>3, <1>7 DEF Patch
    <2>2. CASE \E m \in Marks : Begin(h, "mark", s, m, 0)
      BY <1>2, <1>3, <2>1, <2>2
    <2>3. CASE Begin(h, "clear", s, None, 0)
      BY <1>2, <1>3, <2>1, <2>3
    <2>4. CASE Begin(h, "remark", s, "00", 0)
      BY <1>2, <1>3, <2>1, <2>4
    <2>5. CASE \E x \in Extensions : Begin(h, "extend", s, None, x)
      BY <1>2, <1>3, <2>1, <2>5
    <2>6. QED
      BY <1>7, <2>2, <2>3, <2>4, <2>5 DEF Patch
  <1>8. QED
    BY <1>4, <1>5, <1>6, <1>7

-----------------------------------------------------------------------------
(* Requests that write and end. *)

(* The conjuncts of SInv a returning request cannot disturb by itself.         *)
LEMMA SaveStartSInv ==
  ASSUME SInv, NEW h \in Handler, SaveStart(h)
  PROVE  SInv'
  <1> DEFINE s == job[h].who
  <1>1. TypeOK /\ s \in Student /\ now \in Nat /\ now \in Time
    BY DEF SInv, TypeOK, Time
  <1>2. UNCHANGED <<now, session, end, code, extra, answer, locked, patches>>
    BY DEF SaveStart
  <1>3. CASE fresh[h] /\ start[s] = Unset /\ end[s] = Unset /\ code[s] \in {"00", "04", "16"}
    <2>1. start' = [start EXCEPT ![s] = now] /\ Return(h, Holders(s))
      BY <1>3 DEF SaveStart
    <2>2. job' \in [Handler -> JobType] /\ fresh' \in [Handler -> BOOLEAN]
      BY <1>1, <2>1, ReturnType
    <2>3. /\ start' \in [Student -> Time \cup {Unset}]
          /\ start'[s] = now /\ \A t \in Student : t # s => start'[t] = start[t]
      BY <1>1, <2>1 DEF TypeOK
    <2>4. TypeOK'
      BY <1>1, <1>2, <2>2, <2>3 DEF TypeOK, JobType, session
    <2>5. now # Unset
      BY <1>1, Sizes DEF Time
    <2>6. PlanOff' /\ EndedHasBegun'
      BY <1>1, <1>2, <2>3, <2>5 DEF SInv, PlanOff, EndedHasBegun, session
    <2>7. \A t \in Student : t # s => Due(t)' = Due(t)
      BY <1>2, <2>3 DEF Due, session
    <2>8. PlanHolds'
      <3> SUFFICES ASSUME plan.on
                   PROVE  /\ \A t \in plan.over : start'[t] # Unset /\ Due(t)' <= now
                          /\ \A t \in plan.absent : start'[t] = Unset => Due(t)' <= now
        BY <1>2 DEF PlanHolds, session
      <3>1. plan.over \subseteq Student /\ plan.absent \subseteq Student
        BY <1>1 DEF TypeOK
      <3>2. s \notin plan.over
        BY <1>3 DEF SInv, PlanHolds
      <3>3. QED
        BY <2>3, <2>5, <2>7, <3>1, <3>2 DEF SInv, PlanHolds
    <2>9. \A g \in Handler : Checked(g)'
      BY <1>1, <1>2, <2>1, <2>3, ReturnChecked DEF session
    <2>10. QED
      BY <2>4, <2>6, <2>8, <2>9 DEF SInv
  <1>4. CASE ~(fresh[h] /\ start[s] = Unset /\ end[s] = Unset /\ code[s] \in {"00", "04", "16"})
    <2>1. Return(h, {}) /\ UNCHANGED start
      BY <1>4 DEF SaveStart
    <2>2. job' \in [Handler -> JobType] /\ fresh' \in [Handler -> BOOLEAN]
      BY <1>1, <2>1, ReturnType
    <2>3. TypeOK'
      BY <1>1, <1>2, <2>1, <2>2 DEF TypeOK, JobType, session
    <2>4. PlanOff' /\ PlanHolds' /\ EndedHasBegun'
      BY <1>2, <2>1 DEF SInv, PlanOff, PlanHolds, EndedHasBegun, Due, session
    <2>5. \A g \in Handler : Checked(g)'
      BY <1>1, <1>2, <2>1, ReturnChecked DEF session
    <2>6. QED
      BY <2>3, <2>4, <2>5 DEF SInv
  <1>5. QED
    BY <1>3, <1>4

LEMMA HandInSInv ==
  ASSUME SInv, NEW h \in Handler, HandIn(h)
  PROVE  SInv'
  <1> DEFINE s == job[h].who
  <1>1. TypeOK /\ s \in Student /\ now \in Nat /\ now \in Time
    BY DEF SInv, TypeOK, Time
  <1>2. /\ UNCHANGED <<now, session, start, extra, answer, patches>>
        /\ end' = [end EXCEPT ![s] = now] /\ code' = [code EXCEPT ![s] = "10"]
        /\ locked' = [locked EXCEPT ![s] = TRUE]
        /\ Return(h, Holders(s)) /\ start[s] # Unset
    BY DEF HandIn
  <1>3. job' \in [Handler -> JobType] /\ fresh' \in [Handler -> BOOLEAN]
    BY <1>1, <1>2, ReturnType
  <1>4. /\ end' \in [Student -> Nat] /\ code' \in [Student -> Code]
        /\ locked' \in [Student -> BOOLEAN]
        /\ \A t \in Student : t # s => end'[t] = end[t] /\ code'[t] = code[t]
    BY <1>1, <1>2 DEF TypeOK, Code
  <1>5. TypeOK'
    BY <1>1, <1>2, <1>3, <1>4 DEF TypeOK, JobType, session
  <1>6. PlanOff' /\ PlanHolds'
    BY <1>2 DEF SInv, PlanOff, PlanHolds, Due, session
  <1>7. EndedHasBegun'
    BY <1>1, <1>2, <1>4 DEF SInv, EndedHasBegun
  <1>8. \A g \in Handler : Checked(g)'
    BY <1>1, <1>2, <1>4, ReturnChecked DEF session
  <1>9. QED
    BY <1>5, <1>6, <1>7, <1>8 DEF SInv

LEMMA HandInFailsSInv ==
  ASSUME SInv, NEW h \in Handler, HandInFails(h)
  PROVE  SInv'
  <1>1. TypeOK /\ job[h].who \in Student
    BY DEF SInv, TypeOK
  <1>2. Return(h, {}) /\ UNCHANGED <<now, session, rows, patches>>
    BY DEF HandInFails
  <1>3. job' \in [Handler -> JobType] /\ fresh' \in [Handler -> BOOLEAN]
    BY <1>1, <1>2, ReturnType
  <1>4. TypeOK'
    BY <1>1, <1>2, <1>3 DEF TypeOK, JobType, session, rows
  <1>5. PlanOff' /\ PlanHolds' /\ EndedHasBegun'
    BY <1>2 DEF SInv, PlanOff, PlanHolds, EndedHasBegun, Due, session, rows
  <1>6. \A g \in Handler : Checked(g)'
    BY <1>1, <1>2, ReturnChecked DEF session, rows
  <1>7. QED
    BY <1>4, <1>5, <1>6 DEF SInv

(* Requests of the invigilator that write the status only.                     *)
LEMMA CodeSInv ==
  ASSUME SInv, NEW h \in Handler, NEW c \in Code,
         code' = [code EXCEPT ![job[h].who] = c], Return(h, Holders(job[h].who)),
         UNCHANGED <<now, session, start, end, extra, answer, locked, patches>>
  PROVE  SInv'
  <1> DEFINE s == job[h].who
  <1>1. TypeOK /\ s \in Student
    BY DEF SInv, TypeOK
  <1>2. job' \in [Handler -> JobType] /\ fresh' \in [Handler -> BOOLEAN]
    BY <1>1, ReturnType
  <1>3. code' \in [Student -> Code] /\ \A t \in Student : t # s => code'[t] = code[t]
    BY <1>1 DEF TypeOK
  <1>4. TypeOK'
    BY <1>1, <1>2, <1>3 DEF TypeOK, JobType, session
  <1>5. PlanOff' /\ PlanHolds' /\ EndedHasBegun'
    BY DEF SInv, PlanOff, PlanHolds, EndedHasBegun, Due, session
  <1>6. \A g \in Handler : Checked(g)'
    BY <1>1, <1>3, ReturnChecked DEF session
  <1>7. QED
    BY <1>4, <1>5, <1>6 DEF SInv

LEMMA AdmitSInv ==
  ASSUME SInv, NEW h \in Handler, Admit(h)
  PROVE  SInv'
  <1> DEFINE s == job[h].who
  <1>1. TypeOK /\ s \in Student
    BY DEF SInv, TypeOK
  <1>2. CASE fresh[h] /\ code[s] = "00"
    BY <1>2, CodeSInv DEF Admit, Code
  <1>3. CASE ~(fresh[h] /\ code[s] = "00")
    <2>1. Return(h, {}) /\ UNCHANGED <<now, session, rows, patches>>
      BY <1>3 DEF Admit, rows
    <2>2. job' \in [Handler -> JobType] /\ fresh' \in [Handler -> BOOLEAN]
      BY <1>1, <2>1, ReturnType
    <2>3. TypeOK'
      BY <1>1, <2>1, <2>2 DEF TypeOK, JobType, session, rows
    <2>4. PlanOff' /\ PlanHolds' /\ EndedHasBegun'
      BY <2>1 DEF SInv, PlanOff, PlanHolds, EndedHasBegun, Due, session, rows
    <2>5. \A g \in Handler : Checked(g)'
      BY <1>1, <2>1, ReturnChecked DEF session, rows
    <2>6. QED
      BY <2>3, <2>4, <2>5 DEF SInv
  <1>4. QED
    BY <1>2, <1>3

LEMMA SetCodeSInv ==
  ASSUME SInv, NEW h \in Handler, SetCode(h)
  PROVE  SInv'
  <1> DEFINE s == job[h].who
             c == IF Serving(h, "clear") THEN Cleared(h, s) ELSE job[h].set
  <1>1. /\ code' = [code EXCEPT ![s] = c] /\ Return(h, Holders(s))
        /\ UNCHANGED <<now, session, start, end, extra, answer, locked, patches>>
    BY DEF SetCode
  <1>2. c \in Code
    <2>1. CASE Serving(h, "clear")
      BY <2>1 DEF Cleared, Code
    <2>2. CASE ~Serving(h, "clear")
      <3>1. Checked(h) /\ (job[h].op = "mark" \/ job[h].op = "remark")
        BY <2>2 DEF SInv, SetCode, Serving
      <3>2. job[h].set \in Code
        BY <3>1, SittingAssumption DEF Checked, Code
      <3>3. QED
        BY <2>2, <3>2
    <2>3. QED
      BY <2>1, <2>2
  <1> HIDE DEF c
  <1>3. QED
    BY <1>1, <1>2, CodeSInv

LEMMA ExtendSInv ==
  ASSUME SInv, NEW h \in Handler, Extend(h)
  PROVE  SInv'
  <1> DEFINE s == job[h].who
  <1>1. TypeOK /\ s \in Student /\ job[h].add \in Nat
    BY DEF SInv, TypeOK
  <1>2. ~plan.on /\ UNCHANGED <<now, session, start, end, code, answer, locked, patches>>
    BY DEF Extend
  <1>3. extra' \in [Student -> Nat] /\ \E stale : Return(h, stale)
    <2>1. CASE sess = "04" /\ MayExtend(s, job[h].add)
      <3>1. extra' = [extra EXCEPT ![s] = @ + job[h].add] /\ Return(h, Holders(s))
        BY <2>1 DEF Extend
      <3>2. extra[s] + job[h].add \in Nat
        BY <1>1 DEF TypeOK
      <3>3. QED
        BY <1>1, <3>1, <3>2 DEF TypeOK
    <2>2. CASE ~(sess = "04" /\ MayExtend(s, job[h].add))
      BY <1>1, <2>2 DEF Extend, TypeOK
    <2>3. QED
      BY <2>1, <2>2
  <1>4. PICK stale : Return(h, stale)
    BY <1>3
  <1>5. job' \in [Handler -> JobType] /\ fresh' \in [Handler -> BOOLEAN]
    BY <1>1, <1>4, ReturnType
  <1>6. TypeOK'
    BY <1>1, <1>2, <1>3, <1>5 DEF TypeOK, JobType, session
  <1>7. PlanOff' /\ PlanHolds' /\ EndedHasBegun'
    BY <1>2 DEF SInv, PlanOff, PlanHolds, EndedHasBegun, session
  <1>8. \A g \in Handler : Checked(g)'
    BY <1>1, <1>2, <1>4, ReturnChecked DEF session
  <1>9. QED
    BY <1>6, <1>7, <1>8 DEF SInv

LEMMA AnswerSInv ==
  ASSUME SInv, NEW s \in Student, NEW a \in Answer, StudentAnswer(s, a)
  PROVE  SInv'
  <1>1. /\ TypeOK /\ job' = job /\ now \in Nat
        /\ UNCHANGED <<now, session, start, end, code, extra, locked, patches>>
    BY DEF SInv, StudentAnswer, TypeOK, Time
  <1>2. /\ answer' \in [Student -> Answer] /\ fresh' \in [Handler -> BOOLEAN]
        /\ \A h \in Handler : fresh'[h] => fresh[h]
    BY <1>1 DEF StudentAnswer, TypeOK
  <1>3. TypeOK'
    BY <1>1, <1>2 DEF TypeOK, session
  <1>4. PlanOff' /\ PlanHolds' /\ EndedHasBegun'
    BY <1>1 DEF SInv, PlanOff, PlanHolds, EndedHasBegun, Due, session
  <1>5. \A h \in Handler : Checked(h)'
    <2> SUFFICES ASSUME NEW h \in Handler PROVE Checked(h)'
      OBVIOUS
    <2>1. Checked(h) /\ job[h].at \in Nat
      BY <1>1 DEF SInv, TypeOK, Time
    <2>2. QED
      BY <1>1, <1>2, <2>1, CheckedKept DEF session
  <1>6. QED
    BY <1>3, <1>4, <1>5 DEF SInv

-----------------------------------------------------------------------------
(* Time and the handlers of exam_service. *)

LEMMA TickSInv ==
  ASSUME SInv, Tick
  PROVE  SInv'
  <1>1. /\ TypeOK /\ now \in Nat /\ now' \in Time /\ now <= now' /\ now' \in Nat
        /\ UNCHANGED <<session, rows, job, fresh, patches>>
    BY Sizes DEF SInv, Tick, TypeOK, Time
  <1>2. TypeOK'
    BY <1>1 DEF TypeOK, session, rows
  <1>3. PlanOff' /\ EndedHasBegun'
    BY <1>1 DEF SInv, PlanOff, EndedHasBegun, session, rows
  <1>4. PlanHolds'
    <2>1. \A s \in Student : Due(s)' = Due(s) /\ Due(s) \in Nat
      BY <1>1, DueType DEF Due, session, rows
    <2>2. plan.over \subseteq Student /\ plan.absent \subseteq Student
      BY <1>1 DEF TypeOK
    <2>3. \A s \in Student : Due(s) <= now => Due(s)' <= now'
      BY <1>1, <2>1
    <2>4. QED
      BY <1>1, <2>2, <2>3 DEF SInv, PlanHolds, session, rows
  <1>5. \A h \in Handler : Checked(h)'
    <2> SUFFICES ASSUME NEW h \in Handler PROVE Checked(h)'
      OBVIOUS
    <2>1. Checked(h) /\ job[h].at \in Nat
      BY <1>1 DEF SInv, TypeOK, Time
    <2>2. QED
      BY <1>1, <2>1, CheckedKept DEF session, rows
  <1>6. QED
    BY <1>2, <1>3, <1>4, <1>5 DEF SInv

LEMMA SessionStartSInv ==
  ASSUME SInv, SessionStart
  PROVE  SInv'
  <1>1. TypeOK'
    BY DEF SInv, SessionStart, TypeOK, rows
  <1>2. PlanOff' /\ PlanHolds' /\ EndedHasBegun'
    BY DEF SInv, SessionStart, PlanOff, PlanHolds, EndedHasBegun, Due, rows
  <1>3. \A h \in Handler : Checked(h)'
    BY DEF SInv, SessionStart, Checked, rows
  <1>4. QED
    BY <1>1, <1>2, <1>3 DEF SInv

LEMMA SessionEndReadSInv ==
  ASSUME SInv, SessionEndRead
  PROVE  SInv'
  <1> DEFINE late == {s \in Student : code[s] \in {"00", "10", "16"} /\ Due(s) <= now}
             over == {s \in late : start[s] # Unset}
             absent == {s \in late : start[s] = Unset}
  <1>1. /\ plan' = [on |-> TRUE, over |-> over, absent |-> absent]
        /\ UNCHANGED <<now, period, sess, bell, rows, job, fresh, patches>>
    BY DEF SessionEndRead
  <1>2. over \subseteq Student /\ absent \subseteq Student
    OBVIOUS
  <1>3. plan' \in [on : BOOLEAN, over : SUBSET Student, absent : SUBSET Student]
    BY <1>1, <1>2
  <1>4. TypeOK'
    BY <1>1, <1>3 DEF SInv, TypeOK, rows
  <1>5. PlanOff' /\ EndedHasBegun'
    BY <1>1 DEF SInv, PlanOff, EndedHasBegun, rows
  <1>6. PlanHolds'
    BY <1>1 DEF PlanHolds, Due, rows
  <1>7. \A h \in Handler : Checked(h)'
    BY <1>1 DEF SInv, Checked, rows
  <1>8. QED
    BY <1>4, <1>5, <1>6, <1>7 DEF SInv

LEMMA SessionEndWriteSInv ==
  ASSUME SInv, SessionEndWrite
  PROVE  SInv'
  <1>1. /\ TypeOK /\ now \in Nat /\ plan.on /\ plan' = NoPlan
        /\ UNCHANGED <<now, period, start, extra, answer, locked, job, patches>>
        /\ plan.over \subseteq Student /\ plan.absent \subseteq Student
    BY DEF SInv, SessionEndWrite, TypeOK, Time
  <1>2. code' = [s \in Student |-> IF s \in plan.over THEN "10"
                                   ELSE IF s \in plan.absent THEN "02" ELSE code[s]]
    BY DEF SessionEndWrite
  <1>3. end' = [s \in Student |-> IF s \in plan.over THEN Due(s) ELSE end[s]]
    BY DEF SessionEndWrite
  <1>4. fresh' = [h \in Handler |-> fresh[h] /\ job[h].who \notin plan.over \cup plan.absent]
    BY DEF SessionEndWrite
  <1>5. sess' \in {"02", "04", "06"} /\ bell' \in 0..(MaxTime + 1)
    <2>1. sess' = "06" \/ sess' = sess
      BY DEF SessionEndWrite
    <2>2. bell' = bell \/ (now < MaxTime /\ bell' = now + 1) \/ bell' = MaxTime
      BY DEF SessionEndWrite, Bell
    <2>3. QED
      BY <1>1, <2>1, <2>2, Sizes DEF TypeOK
  <1>6. code' \in [Student -> Code] /\ end' \in [Student -> Nat] /\ fresh' \in [Handler -> BOOLEAN]
    <2>1. end' \in [Student -> Nat]
      BY <1>1, <1>3, DueType DEF TypeOK
    <2>2. code' \in [Student -> Code]
      BY <1>1, <1>2 DEF TypeOK, Code
    <2>3. QED
      BY <1>1, <1>4, <2>1, <2>2 DEF TypeOK
  <1>7. plan' \in [on : BOOLEAN, over : SUBSET Student, absent : SUBSET Student]
    BY <1>1 DEF NoPlan
  <1>8. TypeOK'
    BY <1>1, <1>5, <1>6, <1>7 DEF TypeOK
  <1>9. PlanOff' /\ PlanHolds'
    BY <1>1 DEF PlanOff, PlanHolds, NoPlan
  <1>10. EndedHasBegun'
    BY <1>1, <1>3 DEF SInv, EndedHasBegun, PlanHolds
  <1>11. \A h \in Handler : Checked(h)'
    <2> SUFFICES ASSUME NEW h \in Handler PROVE Checked(h)'
      OBVIOUS
    <2>1. Checked(h) /\ job[h].at \in Nat /\ job[h].who \in Student
      BY <1>1 DEF SInv, TypeOK, Time
    <2>2. fresh'[h] => fresh[h] /\ code'[job[h].who] = code[job[h].who]
      BY <1>2, <1>4, <2>1
    <2>3. QED
      BY <1>1, <2>1, <2>2, CheckedKept
  <1>12. QED
    BY <1>8, <1>9, <1>10, <1>11 DEF SInv

LEMMA NextSInv == SInv /\ [Next]_vars => SInv'
  <1> SUFFICES ASSUME SInv, [Next]_vars PROVE SInv'
    OBVIOUS
  <1>1. CASE \E h \in Handler, s \in Student :
               InitRespondent(h, s) \/ Submit(h, s) \/ AllowStudent(h, s) \/ Patch(h, s)
    BY <1>1, RequestSInv
  <1>2. CASE \E h \in Handler : HandlerStep(h)
    <2>1. PICK h \in Handler : HandlerStep(h)
      BY <1>2
    <2>2. QED
      BY <2>1, SaveStartSInv, HandInSInv, HandInFailsSInv, AdmitSInv, SetCodeSInv, ExtendSInv
         DEF HandlerStep
  <1>3. CASE \E s \in Student, a \in Answer : StudentAnswer(s, a)
    BY <1>3, AnswerSInv
  <1>4. CASE Tick \/ SessionStart \/ SessionEndRead \/ SessionEndWrite
    BY <1>4, TickSInv, SessionStartSInv, SessionEndReadSInv, SessionEndWriteSInv
  <1>5. CASE UNCHANGED vars
    <2>1. UNCHANGED <<now, session, rows, job, fresh, patches>>
      BY <1>5 DEF vars, session, rows
    <2>2. TypeOK'
      BY <2>1 DEF SInv, TypeOK, session, rows
    <2>3. PlanOff' /\ PlanHolds' /\ EndedHasBegun'
      BY <2>1 DEF SInv, PlanOff, PlanHolds, EndedHasBegun, Due, session, rows
    <2>4. \A h \in Handler : Checked(h)'
      BY <2>1 DEF SInv, Checked, session, rows
    <2>5. QED
      BY <2>2, <2>3, <2>4 DEF SInv
  <1>6. QED
    BY <1>1, <1>2, <1>3, <1>4, <1>5 DEF Next

LEMMA SpecSInv == Spec => []SInv
  BY InitSInv, NextSInv, PTL DEF Spec

(* Every variable keeps its type, whatever status the invigilator's requests   *)
(* carry: a student has a status of t_examinee or one that a request carried.  *)
THEOREM SittingTypeCorrect == Spec => []TypeOK
  BY SpecSInv, PTL DEF SInv

-----------------------------------------------------------------------------
(* What a step may do. *)

(* The steps that write rows of t_examinee or t_student_answers.               *)
LEMMA Writers ==
  ASSUME [Next]_vars
  PROVE  \/ UNCHANGED rows
         \/ \E h \in Handler : SaveStart(h) \/ HandIn(h) \/ Admit(h) \/ SetCode(h) \/ Extend(h)
         \/ \E s \in Student, a \in Answer : StudentAnswer(s, a)
         \/ SessionEndWrite
  <1>1. ASSUME NEW h \in Handler, NEW s \in Student,
               InitRespondent(h, s) \/ Submit(h, s) \/ AllowStudent(h, s) \/ Patch(h, s)
        PROVE  UNCHANGED rows
    BY <1>1 DEF InitRespondent, Submit, AllowStudent, Patch
  <1>2. ASSUME NEW h \in Handler, HandInFails(h)
        PROVE  UNCHANGED rows
    BY <1>2 DEF HandInFails
  <1>3. ASSUME Tick \/ SessionStart \/ SessionEndRead
        PROVE  UNCHANGED rows
    BY <1>3 DEF Tick, SessionStart, SessionEndRead
  <1>4. ASSUME UNCHANGED vars
        PROVE  UNCHANGED rows
    BY <1>4 DEF vars, rows
  <1>5. QED
    BY <1>1, <1>2, <1>3, <1>4 DEF Next, HandlerStep

(* What each of them writes, for any student.                                  *)
LEMMA SaveStartRows ==
  ASSUME SInv, NEW h \in Handler, SaveStart(h), NEW s \in Student
  PROVE  /\ UNCHANGED <<end, code, extra, answer, locked>>
         /\ start'[s] # start[s] =>
              /\ s = job[h].who /\ job[h].op = "enter" /\ fresh[h]
              /\ start[s] = Unset /\ end[s] = Unset /\ code[s] \in {"00", "04", "16"}
         /\ job[h].who \in Student
  <1>1. job[h].who \in Student /\ start \in [Student -> Time \cup {Unset}]
    BY DEF SInv, TypeOK
  <1>2. QED
    BY <1>1 DEF SaveStart, Serving

LEMMA HandInRows ==
  ASSUME SInv, NEW h \in Handler, HandIn(h), NEW s \in Student
  PROVE  /\ UNCHANGED <<start, extra, answer>>
         /\ s # job[h].who => end'[s] = end[s] /\ code'[s] = code[s] /\ locked'[s] = locked[s]
         /\ s = job[h].who => start[s] # Unset /\ locked'[s] /\ code'[s] = "10"
  <1>1. /\ job[h].who \in Student /\ end \in [Student -> Nat]
        /\ code \in [Student -> Code] /\ locked \in [Student -> BOOLEAN]
    BY DEF SInv, TypeOK
  <1>2. /\ end' = [end EXCEPT ![job[h].who] = now]
        /\ code' = [code EXCEPT ![job[h].who] = "10"]
        /\ locked' = [locked EXCEPT ![job[h].who] = TRUE]
        /\ start[job[h].who] # Unset
        /\ UNCHANGED <<start, extra, answer>>
    BY DEF HandIn
  <1>3. CASE s = job[h].who
    BY <1>1, <1>2, <1>3
  <1>4. CASE s # job[h].who
    BY <1>1, <1>2, <1>4
  <1>5. QED
    BY <1>2, <1>3, <1>4

LEMMA AdmitRows ==
  ASSUME SInv, NEW h \in Handler, Admit(h), NEW s \in Student
  PROVE  /\ UNCHANGED <<start, end, extra, answer, locked>>
         /\ code'[s] = code[s] \/ code'[s] = "16"
  <1>1. job[h].who \in Student /\ code \in [Student -> Code]
    BY DEF SInv, TypeOK
  <1>2. QED
    BY <1>1 DEF Admit

LEMMA SetCodeRows ==
  ASSUME SInv, NEW h \in Handler, SetCode(h), NEW s \in Student
  PROVE  /\ UNCHANGED <<start, end, extra, answer, locked>>
         /\ code[s] # "02" /\ code'[s] = "02" =>
              Due(s) <= now \/ \E g \in Holders(s) : job[g].set = "02" /\ job'[g] = Idle
  <1> DEFINE c == IF Serving(h, "clear") THEN Cleared(h, job[h].who) ELSE job[h].set
  <1>1. /\ job[h].who \in Student /\ code \in [Student -> Code] /\ Checked(h)
        /\ job[h].at \in Nat /\ now \in Nat
    BY DEF SInv, TypeOK, Time
  <1>2. /\ code' = [code EXCEPT ![job[h].who] = c]
        /\ UNCHANGED <<start, end, extra, answer, locked>>
    BY DEF SetCode
  <1>3. c = "02" => Due(job[h].who) <= job[h].at \/ job[h].set = "02"
    BY DEF Cleared
  <1>7. job[h] # Idle /\ job'[h] = Idle
    BY DEF SetCode, Return, Serving, Idle, None, SInv, TypeOK
  <1> HIDE DEF c
  <1>4. CASE s # job[h].who
    BY <1>1, <1>2, <1>4
  <1>5. CASE s = job[h].who
    <2>1. code'[s] = c
      BY <1>1, <1>2, <1>5
    <2>2. job[h].at <= now /\ Due(s) \in Nat
      BY <1>1, DueType DEF Checked, SInv
    <2>3. h \in Holders(s)
      BY <1>5, <1>7 DEF Holders
    <2>4. QED
      BY <1>1, <1>2, <1>3, <1>5, <1>7, <2>1, <2>2, <2>3
  <1>6. QED
    BY <1>4, <1>5

LEMMA ExtendRows ==
  ASSUME SInv, NEW h \in Handler, Extend(h), NEW s \in Student
  PROVE  /\ UNCHANGED <<start, end, code, answer, locked>>
         /\ \/ extra'[s] = extra[s]
            \/ \E x \in Nat : MayExtend(s, x) /\ extra'[s] = extra[s] + x
  <1>1. job[h].who \in Student /\ extra \in [Student -> Nat] /\ job[h].add \in Nat
    BY DEF SInv, TypeOK
  <1>2. QED
    BY <1>1 DEF Extend

LEMMA AnswerRows ==
  ASSUME SInv, NEW t \in Student, NEW a \in Answer, StudentAnswer(t, a), NEW s \in Student
  PROVE  /\ UNCHANGED <<start, end, code, extra, locked>>
         /\ answer'[s] = answer[s] \/ ~locked[s]
  <1>1. answer \in [Student -> Answer]
    BY DEF SInv, TypeOK
  <1>2. QED
    BY <1>1 DEF StudentAnswer

LEMMA SessionEndRows ==
  ASSUME SInv, SessionEndWrite, NEW s \in Student
  PROVE  /\ UNCHANGED <<now, start, extra, answer, locked>>
         /\ end'[s] # end[s] => start[s] # Unset /\ Due(s) <= now
         /\ code[s] # "02" /\ code'[s] = "02" /\ start[s] = Unset => Due(s) <= now
  <1>1. /\ end' = [t \in Student |-> IF t \in plan.over THEN Due(t) ELSE end[t]]
        /\ code' = [t \in Student |-> IF t \in plan.over THEN "10"
                                      ELSE IF t \in plan.absent THEN "02" ELSE code[t]]
        /\ UNCHANGED <<now, start, extra, answer, locked>> /\ plan.on
    BY DEF SessionEndWrite
  <1>2. /\ s \in plan.over => start[s] # Unset /\ Due(s) <= now
        /\ s \in plan.absent => (start[s] = Unset => Due(s) <= now)
    BY <1>1 DEF SInv, PlanHolds
  <1>3. QED
    BY <1>1, <1>2

-----------------------------------------------------------------------------

(* BeginsOnce: start_time is written once and precedes end_time, for any       *)
(* number of windows, handlers and retries.                                    *)
THEOREM SittingBeginsOnce == Spec => BeginsOnce
  <1> DEFINE P(s) == /\ start[s] # Unset => start'[s] = start[s]
                     /\ end'[s] # Unset => start[s] # Unset
  <1>1. ASSUME SInv, [Next]_vars, NEW s \in Student PROVE P(s)
    <2>0. EndedHasBegun
      BY <1>1 DEF SInv
    <2>1. CASE UNCHANGED rows
      BY <2>0, <2>1 DEF rows, EndedHasBegun
    <2>2. ASSUME NEW h \in Handler,
                 SaveStart(h) \/ HandIn(h) \/ Admit(h) \/ SetCode(h) \/ Extend(h)
          PROVE  P(s)
      <3>1. CASE SaveStart(h)
        BY <1>1, <2>0, <3>1, SaveStartRows DEF EndedHasBegun
      <3>2. CASE HandIn(h)
        BY <1>1, <2>0, <3>2, HandInRows DEF EndedHasBegun
      <3>3. CASE Admit(h)
        BY <1>1, <2>0, <3>3, AdmitRows DEF EndedHasBegun
      <3>4. CASE SetCode(h)
        BY <1>1, <2>0, <3>4, SetCodeRows DEF EndedHasBegun
      <3>5. CASE Extend(h)
        BY <1>1, <2>0, <3>5, ExtendRows DEF EndedHasBegun
      <3>6. QED
        BY <2>2, <3>1, <3>2, <3>3, <3>4, <3>5
    <2>3. CASE \E t \in Student, a \in Answer : StudentAnswer(t, a)
      BY <1>1, <2>0, <2>3, AnswerRows DEF EndedHasBegun
    <2>4. CASE SessionEndWrite
      BY <1>1, <2>0, <2>4, SessionEndRows DEF EndedHasBegun
    <2>5. QED
      BY <1>1, <2>1, <2>2, <2>3, <2>4, Writers
  <1>2. SInv /\ [Next]_vars => [\A s \in Student : P(s)]_vars
    BY <1>1
  <1>3. QED
    BY <1>2, SpecSInv, PTL DEF Spec, BeginsOnce

(* HandInSeals: what was handed in is never changed, and only the end of the   *)
(* student's time closes a session without sealing the answers.                *)
THEOREM SittingHandInSeals == Spec => HandInSeals
  <1> DEFINE P(s) == /\ locked[s] => locked'[s] /\ answer'[s] = answer[s]
                     /\ end[s] = Unset /\ end'[s] # Unset =>
                          (locked'[s] /\ answer'[s] = answer[s]) \/ Due(s) <= now
  <1>1. ASSUME SInv, [Next]_vars, NEW s \in Student PROVE P(s)
    <2>1. CASE UNCHANGED rows
      BY <2>1 DEF rows
    <2>2. ASSUME NEW h \in Handler,
                 SaveStart(h) \/ HandIn(h) \/ Admit(h) \/ SetCode(h) \/ Extend(h)
          PROVE  P(s)
      <3>1. CASE SaveStart(h)
        BY <1>1, <3>1, SaveStartRows
      <3>2. CASE HandIn(h)
        BY <1>1, <3>2, HandInRows
      <3>3. CASE Admit(h)
        BY <1>1, <3>3, AdmitRows
      <3>4. CASE SetCode(h)
        BY <1>1, <3>4, SetCodeRows
      <3>5. CASE Extend(h)
        BY <1>1, <3>5, ExtendRows
      <3>6. QED
        BY <2>2, <3>1, <3>2, <3>3, <3>4, <3>5
    <2>3. CASE \E t \in Student, a \in Answer : StudentAnswer(t, a)
      BY <1>1, <2>3, AnswerRows
    <2>4. CASE SessionEndWrite
      BY <1>1, <2>4, SessionEndRows
    <2>5. QED
      BY <1>1, <2>1, <2>2, <2>3, <2>4, Writers
  <1>2. SInv /\ [Next]_vars => [\A s \in Student : P(s)]_vars
    BY <1>1
  <1>3. QED
    BY <1>2, SpecSInv, PTL DEF Spec, HandInSeals

(* NotCutShort: although the end handler writes what it read before, nobody is *)
(* closed before the time, extra time included, is over, nor marked absent but *)
(* by an invigilator's own request.                                            *)
THEOREM SittingNotCutShort == Spec => NotCutShort
  <1> DEFINE P(s) == /\ end[s] = Unset /\ end'[s] # Unset /\ ~locked'[s] => Due(s) <= now
                     /\ code[s] # "02" /\ code'[s] = "02" /\ start[s] = Unset =>
                          Due(s) <= now \/ \E h \in Holders(s) : job[h].set = "02" /\ job'[h] = Idle
  <1>1. ASSUME SInv, [Next]_vars, NEW s \in Student PROVE P(s)
    <2>1. CASE UNCHANGED rows
      BY <2>1 DEF rows
    <2>2. ASSUME NEW h \in Handler,
                 SaveStart(h) \/ HandIn(h) \/ Admit(h) \/ SetCode(h) \/ Extend(h)
          PROVE  P(s)
      <3>1. CASE SaveStart(h)
        BY <1>1, <3>1, SaveStartRows
      <3>2. CASE HandIn(h)
        BY <1>1, <3>2, HandInRows
      <3>3. CASE Admit(h)
        BY <1>1, <3>3, AdmitRows
      <3>4. CASE SetCode(h)
        BY <1>1, <3>4, SetCodeRows
      <3>5. CASE Extend(h)
        BY <1>1, <3>5, ExtendRows
      <3>6. QED
        BY <2>2, <3>1, <3>2, <3>3, <3>4, <3>5
    <2>3. CASE \E t \in Student, a \in Answer : StudentAnswer(t, a)
      BY <1>1, <2>3, AnswerRows
    <2>4. CASE SessionEndWrite
      BY <1>1, <2>4, SessionEndRows
    <2>5. QED
      BY <1>1, <2>1, <2>2, <2>3, <2>4, Writers
  <1>2. SInv /\ [Next]_vars => [\A s \in Student : P(s)]_vars
    BY <1>1
  <1>3. QED
    BY <1>2, SpecSInv, PTL DEF Spec, NotCutShort

(* GrantFits: extra time never reaches into the next session, unless the       *)
(* student's time did already.                                                 *)
THEOREM SittingGrantFits == Spec => GrantFits
  <1> DEFINE P(s) == Closes + extra[s] < NextOpens => Closes + extra'[s] <= NextOpens
  <1>1. ASSUME SInv, [Next]_vars, NEW s \in Student PROVE P(s)
    <2>0. extra[s] \in Nat /\ Closes \in Nat /\ NextOpens \in Nat
      BY <1>1, Sizes DEF SInv, TypeOK
    <2>1. ASSUME extra' = extra PROVE P(s)
      BY <2>0, <2>1
    <2>2. ASSUME NEW h \in Handler, Extend(h) PROVE P(s)
      <3>1. ASSUME NEW x \in Nat, MayExtend(s, x), extra'[s] = extra[s] + x PROVE P(s)
        BY <2>0, <3>1 DEF MayExtend, Extendable
      <3>2. QED
        BY <1>1, <2>0, <2>2, <3>1, ExtendRows
    <2>3. ASSUME NEW h \in Handler, SaveStart(h) \/ HandIn(h) \/ Admit(h) \/ SetCode(h)
          PROVE  extra' = extra
      BY <2>3 DEF SaveStart, HandIn, Admit, SetCode
    <2>4. (\E t \in Student, a \in Answer : StudentAnswer(t, a)) \/ SessionEndWrite
            => extra' = extra
      BY DEF StudentAnswer, SessionEndWrite
    <2>5. UNCHANGED rows => extra' = extra
      BY DEF rows
    <2>6. QED
      BY <1>1, <2>1, <2>2, <2>3, <2>4, <2>5, Writers
  <1>2. SInv /\ [Next]_vars => [\A s \in Student : P(s)]_vars
    BY <1>1
  <1>3. QED
    BY <1>2, SpecSInv, PTL DEF Spec, GrantFits

(* EntryRespected: what was checked when the page was loaded still holds when  *)
(* start_time is written.                                                      *)
THEOREM SittingEntryRespected == Spec => EntryRespected
  <1> DEFINE Q(h, s) == /\ end[s] = Unset
                        /\ code[s] \in {"00", "04", "16"}
                        /\ \/ code[s] = "16" \/ period = "flexible" \/ LatestEntry = Opens
                           \/ job[h].at <= LatestEntry
             P(h, s) == start[s] = Unset /\ start'[s] # Unset /\ job[h] # Idle /\ job'[h] = Idle
                          => Q(h, s)
  <1>1. ASSUME SInv, [Next]_vars, NEW h \in Handler, NEW s \in Student PROVE P(h, s)
    <2>1. ASSUME start'[s] = start[s] PROVE P(h, s)
      BY <2>1
    <2>2. ASSUME NEW g \in Handler, SaveStart(g) PROVE P(h, s)
      <3> SUFFICES ASSUME start[s] = Unset, start'[s] # Unset, job[h] # Idle, job'[h] = Idle
                   PROVE  Q(h, s)
        OBVIOUS
      <3>1. /\ s = job[g].who /\ job[g].op = "enter" /\ fresh[g]
            /\ end[s] = Unset /\ code[s] \in {"00", "04", "16"}
        BY <1>1, <2>2, SaveStartRows
      <3>2. h = g
        <4>1. \E stale : Return(g, stale)
          BY <2>2 DEF SaveStart
        <4>2. h # g => job'[h] = job[h]
          BY <1>1, <4>1, ReturnType DEF SInv
        <4>3. QED
          BY <4>2
      <3>3. Checked(h)
        BY <1>1 DEF SInv
      <3>4. QED
        BY <3>1, <3>2, <3>3 DEF Checked
    <2>3. ASSUME NEW g \in Handler, HandIn(g) \/ Admit(g) \/ SetCode(g) \/ Extend(g)
          PROVE  start' = start
      BY <2>3 DEF HandIn, Admit, SetCode, Extend
    <2>4. (\E t \in Student, a \in Answer : StudentAnswer(t, a)) \/ SessionEndWrite
            => start' = start
      BY DEF StudentAnswer, SessionEndWrite
    <2>5. UNCHANGED rows => start' = start
      BY DEF rows
    <2>6. QED
      BY <1>1, <2>1, <2>2, <2>3, <2>4, <2>5, Writers
  <1>2. SInv /\ [Next]_vars => [\A h \in Handler, s \in Student : P(h, s)]_vars
    BY <1>1
  <1>3. QED
    BY <1>2, SpecSInv, PTL DEF Spec, EntryRespected

-----------------------------------------------------------------------------
(* TimeSync.                                                                   *)

(* A channel has a connection at most once. *)
Once(s) == \A i, j \in 1..Len(s) : s[i] = s[j] => i = j

(* A connection is announced before it is read, and withdrawn after.           *)
ChannelsOK ==
  /\ Once(register) /\ Once(unregister)
  /\ \A c \in Range(register) : handler[c] \in {"greet", "done"} /\ reader[c] = "off"
  /\ \A c \in Range(unregister) : reader[c] \in {"close", "exit", "done"}
  /\ \A c \in Conn : handler[c] \in {"idle", "register"} =>
       c \notin Range(register) /\ reader[c] = "off"

(* A reader that goes on has lost its connection, or its deadline passed       *)
(* before it began; an exit is recorded of a connection the reader found open. *)
ClosedOK ==
  \A c \in Conn :
    /\ reader[c] \in {"unregister", "close"} => NoRead(c)
    /\ reader[c] \in {"exit", "done"} => sock[c] = "closed"
    /\ reader[c] = "exit" => link[c] = "gone" \/ c \in expired
    /\ c \in exited => reader[c] = "done" /\ (link[c] = "gone" \/ c \in expired)

(* Only a broadcast has connections to come to. *)
SelectOK == loop = "select" => todo = {}

TInv == SyncTypeOK /\ ChannelsOK /\ ClosedOK /\ SelectOK /\ Tracked

-----------------------------------------------------------------------------
(* Channels. *)

LEMMA ChannelTail ==
  ASSUME NEW s \in Seq(Conn), s # <<>>, Once(s)
  PROVE  /\ Tail(s) \in Seq(Conn) /\ Len(Tail(s)) = Len(s) - 1
         /\ Once(Tail(s))
         /\ Head(s) \in Conn /\ Head(s) \in Range(s)
         /\ Range(Tail(s)) = Range(s) \ {Head(s)}
  <1>1. /\ Len(s) \in Nat \ {0} /\ Head(s) = s[1] /\ s[1] \in Conn
        /\ Tail(s) \in Seq(Conn) /\ Len(Tail(s)) = Len(s) - 1
        /\ DOMAIN s = 1..Len(s) /\ DOMAIN Tail(s) = 1..(Len(s) - 1)
        /\ \A i \in 1..(Len(s) - 1) : Tail(s)[i] = s[i + 1]
    OBVIOUS
  <1>2. Once(Tail(s))
    BY <1>1 DEF Once
  <1>3. Range(Tail(s)) = Range(s) \ {Head(s)}
    <2>1. ASSUME NEW i \in 1..(Len(s) - 1) PROVE Tail(s)[i] \in Range(s) /\ Tail(s)[i] # s[1]
      BY <1>1 DEF Once, Range
    <2>2. ASSUME NEW i \in 1..Len(s), s[i] # s[1]
          PROVE  \E j \in 1..(Len(s) - 1) : Tail(s)[j] = s[i]
      <3>1. i - 1 \in 1..(Len(s) - 1) /\ (i - 1) + 1 = i
        BY <1>1, <2>2
      <3>2. Tail(s)[i - 1] = s[i]
        BY <1>1, <3>1
      <3>3. QED
        BY <3>1, <3>2
    <2>3. /\ Range(s) = {s[i] : i \in 1..Len(s)}
          /\ Range(Tail(s)) = {Tail(s)[i] : i \in 1..(Len(s) - 1)}
      BY <1>1 DEF Range
    <2>4. Range(Tail(s)) \subseteq Range(s) \ {s[1]}
      BY <2>1, <2>3
    <2>5. Range(s) \ {s[1]} \subseteq Range(Tail(s))
      BY <2>2, <2>3
    <2>6. QED
      BY <1>1, <2>4, <2>5
  <1>4. QED
    BY <1>1, <1>2, <1>3 DEF Range

LEMMA ChannelAppend ==
  ASSUME NEW s \in Seq(Conn), NEW c \in Conn, Once(s), c \notin Range(s)
  PROVE  /\ Append(s, c) \in Seq(Conn) /\ Len(Append(s, c)) = Len(s) + 1
         /\ Once(Append(s, c))
         /\ Range(Append(s, c)) = Range(s) \cup {c}
  <1>1. /\ Len(s) \in Nat
        /\ Append(s, c) \in Seq(Conn) /\ Len(Append(s, c)) = Len(s) + 1
        /\ DOMAIN s = 1..Len(s) /\ DOMAIN Append(s, c) = 1..(Len(s) + 1)
        /\ \A i \in 1..Len(s) : Append(s, c)[i] = s[i]
        /\ Append(s, c)[Len(s) + 1] = c
    OBVIOUS
  <1>2. \A i \in 1..Len(s) : s[i] # c
    BY <1>1 DEF Range
  <1>3. Once(Append(s, c))
    BY <1>1, <1>2 DEF Once
  <1>4. Range(Append(s, c)) = Range(s) \cup {c}
    BY <1>1 DEF Range
  <1>5. QED
    BY <1>1, <1>3, <1>4

LEMMA InChannel == ASSUME NEW s \in Seq(Conn) PROVE Range(s) \subseteq Conn
  BY DEF Range

-----------------------------------------------------------------------------
(* The pool. *)

Slots == {x \in Conn \X (1..PoolSize) : x[2] <= tasks[x[1]]}

LEMMA SlotsFinite == IsFiniteSet(Slots) /\ Busy = Cardinality(Slots)
  <1>1. IsFiniteSet(Conn) /\ IsFiniteSet(1..PoolSize)
    BY FS_Interval, TimeSyncAssumption
  <1>2. IsFiniteSet(Conn \X (1..PoolSize))
    BY <1>1, FS_Product
  <1>3. Slots \subseteq Conn \X (1..PoolSize)
    BY DEF Slots
  <1>4. QED
    BY <1>2, <1>3, FS_Subset DEF Busy, Slots

(* A free goroutine can take any connection's send. *)
LEMMA RoomInPool ==
  ASSUME SyncTypeOK, NEW c \in Conn, Busy < PoolSize
  PROVE  tasks[c] < PoolSize
  <1>1. PoolSize \in Nat \ {0} /\ tasks[c] \in 0..PoolSize
    BY TimeSyncAssumption DEF SyncTypeOK
  <1>2. CASE tasks[c] = PoolSize
    <2> DEFINE f == [i \in 1..PoolSize |-> <<c, i>>]
    <2>1. \A i \in 1..PoolSize : <<c, i>> \in Slots
      BY <1>1, <1>2 DEF Slots
    <2>2. f \in Injection(1..PoolSize, Slots)
      BY <2>1 DEF Injection, IsInjective
    <2>3. Cardinality(1..PoolSize) <= Cardinality(Slots)
      BY <2>2, SlotsFinite, FS_Injection
    <2>4. Cardinality(1..PoolSize) = PoolSize
      BY <1>1, FS_Interval
    <2>5. Cardinality(Slots) \in Nat
      BY SlotsFinite, FS_CardinalityType
    <2>6. QED
      BY <1>1, <2>3, <2>4, <2>5, SlotsFinite
  <1>3. QED
    BY <1>1, <1>2

LEMMA PoolAfter ==
  ASSUME SyncTypeOK, NEW c \in Conn, NEW n \in 0..PoolSize,
         tasks' = [tasks EXCEPT ![c] = n],
         \/ n = tasks[c] + 1 /\ Busy < PoolSize
         \/ n + 1 = tasks[c]
  PROVE  tasks' \in [Conn -> 0..PoolSize] /\ Busy' <= PoolSize
  <1>0. /\ PoolSize \in Nat \ {0} /\ tasks \in [Conn -> 0..PoolSize] /\ tasks[c] \in 0..PoolSize
        /\ IsFiniteSet(Slots) /\ Busy = Cardinality(Slots) /\ Cardinality(Slots) \in Nat
        /\ Busy <= PoolSize
    BY SlotsFinite, FS_CardinalityType, TimeSyncAssumption DEF SyncTypeOK
  <1>1. tasks' \in [Conn -> 0..PoolSize] /\ \A d \in Conn : tasks'[d] = IF d = c THEN n ELSE tasks[d]
    BY <1>0
  <1>2. Busy' = Cardinality({x \in Conn \X (1..PoolSize) : x[2] <= tasks'[x[1]]})
    BY DEF Busy
  <1> DEFINE After == {x \in Conn \X (1..PoolSize) : x[2] <= tasks'[x[1]]}
  <1>3. CASE n = tasks[c] + 1 /\ Busy < PoolSize
    <2>1. After = Slots \cup {<<c, n>>}
      BY <1>0, <1>1, <1>3 DEF Slots
    <2>2. Cardinality(Slots \cup {<<c, n>>}) \in {Cardinality(Slots), Cardinality(Slots) + 1}
      BY <1>0, FS_AddElement
    <2>3. Busy' \in {Cardinality(Slots), Cardinality(Slots) + 1}
      BY <1>2, <2>1, <2>2
    <2>4. QED
      BY <1>0, <1>1, <1>3, <2>3
  <1>4. CASE n + 1 = tasks[c]
    <2>1. After \in SUBSET Slots
      BY <1>0, <1>1, <1>4 DEF Slots
    <2>2. Cardinality(After) <= Cardinality(Slots) /\ IsFiniteSet(After)
      BY <1>0, <2>1, FS_Subset
    <2>3. QED
      BY <1>0, <1>1, <1>2, <2>2, FS_CardinalityType
  <1>5. QED
    BY <1>3, <1>4

-----------------------------------------------------------------------------

LEMMA InitTInv == SyncInit => TInv
  <1> SUFFICES ASSUME SyncInit PROVE TInv
    OBVIOUS
  <1>1. Busy <= PoolSize
    <2>1. PoolSize \in Nat \ {0} /\ \A c \in Conn : tasks[c] = 0
      BY TimeSyncAssumption DEF SyncInit
    <2>2. Slots = {}
      BY <2>1 DEF Slots
    <2>3. QED
      BY <2>1, <2>2, SlotsFinite, FS_EmptySet
  <1>2. SyncTypeOK
    BY <1>1, TimeSyncAssumption DEF SyncInit, SyncTypeOK
  <1>3. Range(register) = {} /\ Range(unregister) = {}
    BY DEF SyncInit, Range
  <1>4. Once(register) /\ Once(unregister)
    BY DEF SyncInit, Once
  <1>5. QED
    BY <1>2, <1>3, <1>4 DEF SyncInit, TInv, ChannelsOK, ClosedOK, SelectOK, Tracked

LEMMA NextSyncType == TInv /\ [SyncNext]_syncVars => SyncTypeOK'
  <1> SUFFICES ASSUME TInv, [SyncNext]_syncVars PROVE SyncTypeOK'
    OBVIOUS
  <1>0. /\ SyncTypeOK /\ SelectOK /\ Once(register) /\ Once(unregister)
        /\ ChanCap \in Nat \ {0} /\ PoolSize \in Nat \ {0}
    BY TimeSyncAssumption DEF TInv, ChannelsOK
  <1>1. ASSUME NEW c \in Conn, Open(c) \/ Lose(c) \/ Greet(c) \/ ReadFails(c)
                               \/ CloseRead(c) \/ Exit(c) \/ BeatFails(c)
                               \/ DeadlinePasses(c)
        PROVE  SyncTypeOK'
    <2>1. UNCHANGED <<server>>
      BY <1>1 DEF Open, Lose, Greet, ReadFails, CloseRead, Exit, BeatFails,
                  DeadlinePasses
    <2>2. Busy' = Busy
      BY <2>1 DEF server, Busy
    <2>3. QED
      BY <1>0, <1>1, <2>1, <2>2
         DEF SyncTypeOK, server, Open, Lose, Greet, ReadFails, CloseRead, Exit, BeatFails,
                  DeadlinePasses
  <1>2. ASSUME NEW c \in Conn, Register(c) \/ Unregister(c) PROVE SyncTypeOK'
    <2>1. UNCHANGED tasks /\ Busy' = Busy
      BY <1>2 DEF Register, Unregister, Busy
    <2>2. /\ register' \in Seq(Conn) /\ Len(register') <= ChanCap
          /\ unregister' \in Seq(Conn) /\ Len(unregister') <= ChanCap
      <3>1. CASE Register(c)
        BY <1>0, <3>1 DEF SyncTypeOK, Register
      <3>2. CASE Unregister(c)
        BY <1>0, <3>2 DEF SyncTypeOK, Unregister
      <3>3. QED
        BY <1>2, <3>1, <3>2
    <2>3. QED
      BY <1>0, <1>2, <2>1, <2>2 DEF SyncTypeOK, Register, Unregister
  <1>3. CASE AddClient
    <2>1. UNCHANGED tasks /\ Busy' = Busy
      BY <1>3 DEF AddClient, Busy
    <2>2. Head(register) \in Conn /\ register' \in Seq(Conn) /\ Len(register') <= ChanCap
      BY <1>0, <1>3, ChannelTail DEF SyncTypeOK, AddClient
    <2>3. QED
      BY <1>0, <1>3, <2>1, <2>2 DEF SyncTypeOK, AddClient
  <1>4. CASE RemoveClient
    <2>1. UNCHANGED tasks /\ Busy' = Busy
      BY <1>4 DEF RemoveClient, Busy
    <2>2. unregister' \in Seq(Conn) /\ Len(unregister') <= ChanCap
      BY <1>0, <1>4, ChannelTail DEF SyncTypeOK, RemoveClient
    <2>3. todo = {}
      BY <1>0, <1>4 DEF SelectOK, RemoveClient
    <2>4. QED
      BY <1>0, <1>4, <2>1, <2>2, <2>3 DEF SyncTypeOK, RemoveClient
  <1>5. CASE Broadcast \/ BroadcastEnds
    <2>1. UNCHANGED tasks /\ Busy' = Busy
      BY <1>5 DEF Broadcast, BroadcastEnds, Busy
    <2>2. QED
      BY <1>0, <1>5, <2>1 DEF SyncTypeOK, Broadcast, BroadcastEnds
  <1>6. ASSUME NEW c \in Conn, PoolSubmit(c) \/ Send(c) PROVE SyncTypeOK'
    <2>1. tasks[c] \in 0..PoolSize
      BY <1>0 DEF SyncTypeOK
    <2>2. tasks' \in [Conn -> 0..PoolSize] /\ Busy' <= PoolSize
      <3>1. CASE PoolSubmit(c)
        <4>1. tasks[c] + 1 \in 0..PoolSize
          BY <1>0, <2>1, <3>1, RoomInPool DEF PoolSubmit
        <4>2. QED
          BY <1>0, <3>1, <4>1, PoolAfter DEF PoolSubmit
      <3>2. CASE Send(c)
        <4>1. tasks[c] - 1 \in 0..PoolSize /\ (tasks[c] - 1) + 1 = tasks[c]
          BY <1>0, <2>1, <3>2 DEF Send
        <4>2. QED
          BY <1>0, <3>2, <4>1, PoolAfter DEF Send
      <3>3. QED
        BY <1>6, <3>1, <3>2
    <2>3. QED
      BY <1>0, <1>6, <2>2 DEF SyncTypeOK, PoolSubmit, Send
  <1>7. CASE UNCHANGED syncVars
    <2>1. UNCHANGED tasks /\ Busy' = Busy
      BY <1>7 DEF syncVars, Busy
    <2>2. QED
      BY <1>0, <1>7, <2>1 DEF SyncTypeOK, syncVars
  <1>8. QED
    BY <1>1, <1>2, <1>3, <1>4, <1>5, <1>6, <1>7 DEF SyncNext, Server, Serve

LEMMA NextTInv == TInv /\ [SyncNext]_syncVars => TInv'
  <1> SUFFICES ASSUME TInv, [SyncNext]_syncVars PROVE TInv'
    OBVIOUS
  <1> DEFINE Kept == ChannelsOK' /\ ClosedOK' /\ SelectOK' /\ Tracked'
  <1> SUFFICES Kept
    BY NextSyncType DEF TInv
  <1>0. /\ SyncTypeOK /\ ChannelsOK /\ ClosedOK /\ SelectOK /\ Tracked
        /\ register \in Seq(Conn) /\ unregister \in Seq(Conn)
        /\ Once(register) /\ Once(unregister)
        /\ Range(register) \subseteq Conn /\ Range(unregister) \subseteq Conn
    BY InChannel DEF TInv, SyncTypeOK, ChannelsOK
  <1>1. ASSUME NEW c \in Conn, Open(c) \/ Lose(c) \/ Greet(c) \/ ReadFails(c)
                               \/ CloseRead(c) \/ Exit(c) \/ BeatFails(c)
                               \/ DeadlinePasses(c)
        PROVE  Kept
    <2>1. UNCHANGED <<register, unregister, clients, loop, todo>>
      BY <1>1 DEF Open, Lose, Greet, ReadFails, CloseRead, Exit, BeatFails,
                  DeadlinePasses, server
    <2>2. /\ Once(register') /\ Range(register') = Range(register)
          /\ Once(unregister') /\ Range(unregister') = Range(unregister)
      BY <1>0, <2>1
    <2>3. ChannelsOK' /\ Tracked' /\ SelectOK'
      <3>1. CASE Open(c)
        BY <1>0, <2>1, <2>2, <3>1 DEF ChannelsOK, Tracked, SelectOK, SyncTypeOK, Open
      <3>2. CASE Greet(c)
        BY <1>0, <2>1, <2>2, <3>2 DEF ChannelsOK, Tracked, SelectOK, SyncTypeOK, Greet
      <3>3. CASE ReadFails(c) \/ CloseRead(c) \/ Exit(c)
        <4>1. UNCHANGED handler /\ \A d \in Conn : d # c => reader'[d] = reader[d]
          BY <1>0, <3>3 DEF SyncTypeOK, ReadFails, CloseRead, Exit
        <4>2. \/ reader[c] = "read" /\ reader'[c] = "unregister"
              \/ reader[c] = "close" /\ reader'[c] \in {"exit", "done"}
              \/ reader[c] = "exit" /\ reader'[c] = "done"
          BY <1>0, <3>3 DEF SyncTypeOK, ReadFails, CloseRead, Exit
        <4>3. QED
          BY <1>0, <2>1, <2>2, <4>1, <4>2 DEF ChannelsOK, Tracked, SelectOK
      <3>4. CASE Lose(c) \/ BeatFails(c) \/ DeadlinePasses(c)
        BY <1>0, <2>1, <2>2, <3>4
           DEF ChannelsOK, Tracked, SelectOK, Lose, BeatFails, DeadlinePasses
      <3>5. QED
        BY <1>1, <3>1, <3>2, <3>3, <3>4
    <2>4. ClosedOK'
      BY <1>0, <1>1 DEF ClosedOK, ChannelsOK, Lost, NoRead, SyncTypeOK,
           Open, Lose, Greet, ReadFails, CloseRead, Exit, BeatFails,
                  DeadlinePasses
    <2>5. QED
      BY <2>3, <2>4
  <1>2. ASSUME NEW c \in Conn, Register(c) PROVE Kept
    <2>1. c \notin Range(register)
      BY <1>0, <1>2 DEF Register, ChannelsOK
    <2>2. Once(register') /\ Range(register') = Range(register) \cup {c}
      BY <1>0, <1>2, <2>1, ChannelAppend DEF Register
    <2>3. QED
      BY <1>0, <1>2, <2>2 DEF Register, ChannelsOK, ClosedOK, SelectOK, Tracked, Lost, NoRead, SyncTypeOK
  <1>3. ASSUME NEW c \in Conn, Unregister(c) PROVE Kept
    <2>1. c \notin Range(unregister)
      BY <1>0, <1>3 DEF Unregister, ChannelsOK
    <2>2. Once(unregister') /\ Range(unregister') = Range(unregister) \cup {c}
      BY <1>0, <1>3, <2>1, ChannelAppend DEF Unregister
    <2>3. QED
      BY <1>0, <1>3, <2>2 DEF Unregister, ChannelsOK, ClosedOK, SelectOK, Tracked, Lost, NoRead, SyncTypeOK
  <1>4. CASE AddClient
    <2>1. PICK c \in Conn : c = Head(register)
      BY <1>0, <1>4, ChannelTail DEF AddClient
    <2>2. /\ Once(register') /\ Range(register') = Range(register) \ {c}
          /\ c \in Range(register)
      BY <1>0, <1>4, <2>1, ChannelTail DEF AddClient
    <2>3. Once(unregister') /\ Range(unregister') = Range(unregister)
      BY <1>0, <1>4 DEF AddClient
    <2>4. ChannelsOK' /\ Tracked'
      BY <1>0, <1>4, <2>1, <2>2, <2>3 DEF AddClient, ChannelsOK, Tracked, SyncTypeOK
    <2>5. ClosedOK' /\ SelectOK'
      BY <1>0, <1>4, <2>1, <2>2 DEF AddClient, ChannelsOK, ClosedOK, SelectOK, Lost, NoRead, SyncTypeOK
    <2>6. QED
      BY <2>4, <2>5
  <1>5. CASE RemoveClient
    <2>1. PICK c \in Conn : c = Head(unregister)
      BY <1>0, <1>5, ChannelTail DEF RemoveClient
    <2>2. /\ Once(unregister') /\ Range(unregister') = Range(unregister) \ {c}
          /\ c \in Range(unregister)
      BY <1>0, <1>5, <2>1, ChannelTail DEF RemoveClient
    <2>3. Once(register') /\ Range(register') = Range(register)
      BY <1>0, <1>5 DEF RemoveClient
    <2>4. ChannelsOK' /\ Tracked'
      BY <1>0, <1>5, <2>1, <2>2, <2>3 DEF RemoveClient, ChannelsOK, Tracked
    <2>5. ClosedOK' /\ SelectOK'
      BY <1>0, <1>5 DEF RemoveClient, ClosedOK, SelectOK, Lost, NoRead
    <2>6. QED
      BY <2>4, <2>5
  <1>6. CASE \/ Broadcast \/ BroadcastEnds \/ UNCHANGED syncVars
             \/ \E c \in Conn : PoolSubmit(c) \/ Send(c)
    <2>1. UNCHANGED <<link, sock, handler, reader, register, unregister, clients, exited, expired>>
      BY <1>6 DEF Broadcast, BroadcastEnds, syncVars, PoolSubmit, Send
    <2>2. /\ Once(register') /\ Range(register') = Range(register)
          /\ Once(unregister') /\ Range(unregister') = Range(unregister)
      BY <1>0, <2>1
    <2>3. ChannelsOK' /\ ClosedOK' /\ Tracked'
      BY <1>0, <2>1, <2>2 DEF ChannelsOK, ClosedOK, Tracked, Lost, NoRead
    <2>4. SelectOK'
      BY <1>0, <1>6 DEF Broadcast, BroadcastEnds, syncVars, PoolSubmit, Send, SelectOK
    <2>5. QED
      BY <2>3, <2>4
  <1>7. QED
    BY <1>1, <1>2, <1>3, <1>4, <1>5, <1>6 DEF SyncNext, Server, Serve

-----------------------------------------------------------------------------

(* The variables keep their types, registerChanel and unregisterChanel their   *)
(* capacity and the ants pool its size, for any number of connections.         *)
THEOREM SyncTypeCorrect == SyncSpec => []SyncTypeOK
  <1>1. TInv => SyncTypeOK
    BY DEF TInv
  <1>2. (SyncInit => TInv) /\ (TInv /\ [SyncNext]_syncVars => TInv')
    BY InitTInv, NextTInv
  <1>3. QED
    BY <1>1, <1>2, PTL DEF SyncSpec

(* The map of startServe has a connection exactly from when it is admitted     *)
(* until its removal is received: an entry is neither left behind nor put back *)
(* by a registration that comes late.                                          *)
THEOREM SyncTracked == SyncSpec => []Tracked
  <1>1. TInv => Tracked
    BY DEF TInv
  <1>2. (SyncInit => TInv) /\ (TInv /\ [SyncNext]_syncVars => TInv')
    BY InitTInv, NextTInv
  <1>3. QED
    BY <1>1, <1>2, PTL DEF SyncSpec

(* HandleExit counts an exit only when the connection is closed and its        *)
(* removal handed in, whichever of its goroutines closed it, and when the      *)
(* client is gone or startServe left it unread past its read deadline.         *)
THEOREM SyncExitsAreReal == SyncSpec => []ExitsAreReal
  <1>1. TInv => ExitsAreReal
    <2> SUFFICES ASSUME TInv, NEW c \in exited
                 PROVE  /\ link[c] = "gone" \/ c \in expired
                        /\ sock[c] = "closed" /\ (c \in clients => c \in Range(unregister))
      BY DEF ExitsAreReal
    <2>1. c \in Conn
      BY DEF TInv, SyncTypeOK
    <2>2. QED
      BY <2>1 DEF TInv, ClosedOK, Tracked
  <1>2. (SyncInit => TInv) /\ (TInv /\ [SyncNext]_syncVars => TInv')
    BY InitTInv, NextTInv
  <1>3. QED
    BY <1>1, <1>2, PTL DEF SyncSpec

=============================================================================
