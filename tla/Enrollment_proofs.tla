-------------------------- MODULE Enrollment_proofs --------------------------
(* Proofs about Enrollment, for any callers, plans, students, limits and       *)
(* connections.                                                                *)
EXTENDS Enrollment, TLAPS

(* A transaction writes after it has begun and read, and no two of them write  *)
(* the same row.                                                               *)
Closed(c) == pc[c] \in {"idle", "check", "same", "begin", "read"} => wr[c] = Nothing
Locks == \A c, d \in Caller : c # d => \A r \in Rows : wr[c][r] = Keep \/ wr[d][r] = Keep

(* What is asked, and which statements serve it. *)
Asks(c) ==
  /\ job[c].kind # "move" => job[c].to = job[c].plan
  /\ job[c].kind \in {"register", "review", "move"} => job[c].st \in Sent
  /\ job[c].kind = "import" => job[c].st = "04"
  /\ job[c].kind = "void" => job[c].st = "10"
  /\ pc[c] = "idle" \/ job[c].kind \in AllKinds
  /\ pc[c] = "read" => job[c].kind \in {"register", "move"}
  /\ pc[c] \in {"own", "count"} => job[c].kind = "register"
  /\ pc[c] = "write" => job[c].kind # "practice"
  /\ pc[c] = "load" => job[c].kind \in {"import", "move", "void"}
  /\ pc[c] = "others" => job[c].kind \in {"review", "practice"}
  /\ pc[c] \in {"alike", "leave"} => job[c].kind = "move"

(* What a transaction wrote: never the absence of a row, only rows of the      *)
(* request's plans and students, "moved" only for a move or when the request   *)
(* says so, and over an approval only what may take it back.                   *)
Writes(c) == \A r \in Rows :
  /\ wr[c][r] # NoRow
  /\ wr[c][r] # Keep => /\ r[1] \in {job[c].plan, job[c].to}
                        /\ job[c].kind # "void" => r[2] \in job[c].ss
  /\ wr[c][r] = "08" => \/ job[c].kind = "move"
                        \/ job[c].kind \in {"register", "review"} /\ job[c].st = "08"
  /\ wr[c][r] \notin {Keep, "04"} /\ row[r] = "04" =>
       job[c].kind \in {"review", "move", "void"} /\ r[1] = job[c].plan

(* A move to another plan writes there what it read, or an approval, and does  *)
(* so before it touches the plan that is left.                                 *)
Gained(c, s) == wr[c][<<job[c].to, s>>] \in {"04", job[c].seen[s]}

Moves(c) == job[c].kind = "move" /\ job[c].to # job[c].plan =>
  \A s \in job[c].ss :
    /\ wr[c][<<job[c].to, s>>] # Keep => Gained(c, s)
    /\ /\ job[c].seen[s] # NoRow
       /\ pc[c] \in {"roster", "load", "alike", "leave"} \/ wr[c][<<job[c].plan, s>>] # Keep
       => Gained(c, s)

Form(c) == Asks(c) /\ Writes(c) /\ Moves(c)

EInv == /\ TypeOK /\ Locks
        /\ \A c \in Caller : Closed(c) /\ Form(c)

-----------------------------------------------------------------------------
(* Types. *)

LEMMA RequestTyped ==
  ASSUME NEW kind \in AllKinds \cup {"none"}, NEW p \in Plan, NEW q \in Plan,
         NEW ss \in SUBSET Student, NEW st \in RowStatus
  PROVE  Request(kind, p, q, ss, st) \in Jobs
  BY DEF Request, Jobs, RowStatus, NoRow

LEMMA NoRequestTyped == NoRequest \in Jobs
  <1>1. (CHOOSE p \in Plan : TRUE) \in Plan
    BY EnrollmentAssumption
  <1>2. QED
    BY <1>1, RequestTyped DEF NoRequest, RowStatus

LEMMA ReturnTyped ==
  ASSUME TypeOK, NEW c \in Caller, Return(c)
  PROVE  /\ wr' \in [Caller -> [Rows -> RowStatus \cup {Keep}]]
         /\ pc' \in [Caller -> Label] /\ job' \in [Caller -> Jobs]
  BY NoRequestTyped DEF TypeOK, Return, Goto, Label, Nothing

(* The value of a written row. *)
LEMMA ValueTyped ==
  ASSUME TypeOK, NEW c \in Caller, Asks(c), pc[c] = "write", NEW r \in Target(c)
  PROVE  /\ r \in Rows /\ r[1] = job[c].to /\ r[1] \in Plan /\ r[2] \in Student
         /\ job[c].kind # "void" => r[2] \in job[c].ss
         /\ Value(c, r) \in RowStatus \ {NoRow}
         /\ job[c].kind = "move" => Value(c, r) \in {"04", job[c].seen[r[2]]}
         /\ Value(c, r) = "08" => \/ job[c].kind = "move"
                                  \/ job[c].kind \in {"register", "review"} /\ job[c].st = "08"
         /\ row[r] = "04" => Value(c, r) = "04" \/ job[c].kind \in {"review", "void"}
  <1>t. /\ job[c] \in Jobs /\ job[c].plan \in Plan /\ job[c].to \in Plan /\ job[c].ss \subseteq Student
        /\ job[c].seen \in [Student -> RowStatus] /\ row \in [Rows -> RowStatus]
        /\ job[c].kind \in {"register", "import", "review", "move", "void"}
        /\ job[c].kind # "move" => job[c].to = job[c].plan
        /\ job[c].kind \in {"register", "review"} => job[c].st \in RowStatus \ {NoRow}
        /\ job[c].kind = "import" => job[c].st = "04"
        /\ job[c].kind = "void" => job[c].st = "10"
    BY EnrollmentAssumption DEF TypeOK, Jobs, Asks, AllKinds, RowStatus
  <1>1. r \in Named(c) \/ (r \in Rows /\ r[1] = job[c].plan /\ job[c].kind = "void")
    BY <1>t DEF Target
  <1>2. r \in Rows /\ r[1] = job[c].to /\ (job[c].kind # "void" => r[2] \in job[c].ss)
    BY <1>1, <1>t DEF Named, Rows
  <1>3. CASE job[c].kind = "move"
    <2>1. job[c].seen[r[2]] \in RowStatus \ {NoRow}
      BY <1>t, <1>2, <1>3 DEF Target, Rows
    <2>2. Value(c, r) = Upserted(r, job[c].seen[r[2]])
      BY <1>3 DEF Value
    <2>3. Value(c, r) \in {"04", job[c].seen[r[2]]} /\ (row[r] = "04" => Value(c, r) = "04")
      BY <2>2 DEF Upserted
    <2>4. "04" \in RowStatus \ {NoRow}
      BY DEF RowStatus, NoRow
    <2>5. Value(c, r) \in RowStatus \ {NoRow}
      BY <2>1, <2>3, <2>4
    <2>6. r[1] \in Plan /\ r[2] \in Student
      BY <1>2 DEF Rows
    <2>7. QED
      BY <1>2, <1>3, <2>3, <2>5, <2>6
  <1>4. CASE job[c].kind \in {"register", "import"}
    <2>1. Value(c, r) = Upserted(r, job[c].st)
      BY <1>4 DEF Value
    <2>2. QED
      BY <1>2, <1>4, <1>t, <2>1 DEF Upserted, RowStatus, NoRow, Rows
  <1>5. CASE job[c].kind \in {"review", "void"}
    <2>1. Value(c, r) = job[c].st
      BY <1>5 DEF Value
    <2>2. QED
      BY <1>2, <1>5, <1>t, <2>1 DEF RowStatus, NoRow, Rows
  <1>6. QED
    BY <1>3, <1>4, <1>5, <1>t

(* What each statement does to the transaction it belongs to. *)
LEMMA WriteStep ==
  ASSUME TypeOK, NEW c \in Caller, Asks(c), Write(c)
  PROVE  /\ wr' \in [Caller -> [Rows -> RowStatus \cup {Keep}]]
         /\ \A d \in Caller \ {c} : wr'[d] = wr[d]
         /\ \A r \in Rows : wr'[c][r] = IF r \in Target(c) THEN Value(c, r) ELSE wr[c][r]
         /\ pc' \in [Caller -> Label] /\ pc'[c] = AfterWrite(job[c])
         /\ \A d \in Caller \ {c} : pc'[d] = pc[d]
         /\ job' = job /\ row' = row
  <1>1. \A r \in Target(c) : Value(c, r) \in RowStatus
    BY ValueTyped DEF Write
  <1>2. AfterWrite(job[c]) \in Label
    BY DEF AfterWrite, Label
  <1>3. QED
    BY <1>1, <1>2 DEF Write, TypeOK, Goto, db

LEMMA LeaveStep ==
  ASSUME TypeOK, NEW c \in Caller, Asks(c), Leave(c)
  PROVE  /\ wr' \in [Caller -> [Rows -> RowStatus \cup {Keep}]]
         /\ \A d \in Caller \ {c} : wr'[d] = wr[d]
         /\ \A r \in Rows : wr'[c][r] = IF /\ r[1] = job[c].plan /\ r[2] \in job[c].ss
                                           /\ row[r] # NoRow
                                        THEN job[c].st ELSE wr[c][r]
         /\ pc' \in [Caller -> Label] /\ pc'[c] = "clear"
         /\ \A d \in Caller \ {c} : pc'[d] = pc[d]
         /\ job' = job /\ row' = row
  <1> DEFINE gone == {r \in {<<job[c].plan, s>> : s \in job[c].ss} : row[r] # NoRow}
  <1>t. job[c].plan \in Plan /\ job[c].ss \subseteq Student
    BY DEF TypeOK, Jobs
  <1>1. \A r \in Rows : r \in gone <=> r[1] = job[c].plan /\ r[2] \in job[c].ss /\ row[r] # NoRow
    BY <1>t DEF Rows
  <1>2. wr' = [wr EXCEPT ![c] = [r \in Rows |-> IF r \in gone THEN job[c].st ELSE wr[c][r]]]
    BY DEF Leave, TypeOK
  <1>3. job[c].st \in RowStatus
    BY DEF TypeOK, Jobs
  <1>4. QED
    BY <1>1, <1>2, <1>3 DEF Leave, TypeOK, Goto, db, Label

(* The steps that write no row: they end the request, or go on with a job in   *)
(* which the kind, the plans, the students and the status are as asked.        *)
Onward(c) ==
  /\ wr' = wr
  /\ pc' \in [Caller -> Label] /\ \A d \in Caller \ {c} : pc'[d] = pc[d] /\ job'[d] = job[d]
  /\ job' \in [Caller -> Jobs]
  /\ job'[c].kind = job[c].kind /\ job'[c].plan = job[c].plan /\ job'[c].to = job[c].to
  /\ job'[c].ss = job[c].ss /\ job'[c].st = job[c].st
  /\ pc[c] # "read" => job'[c].seen = job[c].seen

Plain(c) == \/ Check(c) \/ Same(c) \/ Begin(c) \/ Read(c) \/ Own(c) \/ Count(c)
            \/ Load(c) \/ Others(c) \/ Roster(c) \/ Clear(c)

LEMMA OnwardJob ==
  ASSUME TypeOK, NEW c \in Caller, NEW j \in Jobs, job' = [job EXCEPT ![c] = j],
         j.kind = job[c].kind, j.plan = job[c].plan, j.to = job[c].to,
         j.ss = job[c].ss, j.st = job[c].st, pc[c] # "read" => j.seen = job[c].seen,
         wr' = wr, NEW l \in Label, Goto(c, l)
  PROVE  Onward(c)
  BY DEF Onward, TypeOK, Goto

LEMMA OnwardSame ==
  ASSUME TypeOK, NEW c \in Caller, job' = job, wr' = wr, NEW l \in Label, Goto(c, l), pc[c] # "read"
  PROVE  Onward(c)
  BY DEF Onward, TypeOK, Goto

(* Where a plain step may lead. *)
Leads(c) ==
  \/ pc[c] = "check" /\ pc'[c] = "same" /\ job[c].kind = "review"
  \/ pc[c] = "check" /\ pc'[c] = "begin"
  \/ pc[c] = "same" /\ pc'[c] = "begin"
  \/ pc[c] = "begin" /\ pc'[c] = "read" /\ job[c].kind \in {"register", "move"}
  \/ pc[c] = "begin" /\ pc'[c] = "others" /\ job[c].kind = "practice"
  \/ pc[c] = "begin" /\ pc'[c] = "write" /\ job[c].kind \notin {"register", "move", "practice"}
  \/ /\ pc[c] = "read" /\ pc'[c] \in {"write", "commit"} /\ job[c].kind = "move"
  \/ pc[c] = "read" /\ pc'[c] = "own" /\ job[c].kind # "move"
  \/ pc[c] \in {"own", "count"} /\ pc'[c] \in {"count", "write"}
  \/ pc[c] = "load" /\ pc'[c] \in {"roster", "commit"} /\ job[c].kind # "move"
  \/ pc[c] = "load" /\ pc'[c] \in {"alike", "leave"} /\ job[c].kind = "move"
  \/ pc[c] = "alike" /\ pc'[c] = "leave"
  \/ pc[c] = "others" /\ pc'[c] = "roster" /\ job[c].kind # "move"
  \/ pc[c] = "roster" /\ pc'[c] = "load" /\ job[c].kind = "move"
  \/ pc[c] = "roster" /\ pc'[c] = "commit" /\ job[c].kind # "move"
  \/ pc[c] = "clear" /\ pc'[c] \in {"load", "commit"} /\ (pc'[c] = "load" => job[c].kind = "void")

LEMMA PlainStep ==
  ASSUME TypeOK, NEW c \in Caller, Asks(c), Plain(c)
  PROVE  /\ status' = status /\ row' = row /\ linked' = linked /\ asked' = asked
         /\ roster' \in [Plan -> SUBSET Student]
         /\ Return(c) \/ (Onward(c) /\ Leads(c))
  <1> DEFINE Goal == Return(c) \/ (Onward(c) /\ Leads(c))
             j == job[c]
  <1>t. /\ job \in [Caller -> Jobs] /\ j \in Jobs /\ pc \in [Caller -> Label]
        /\ j.plan \in Plan /\ j.ss \in SUBSET Student /\ roster \in [Plan -> SUBSET Student]
        /\ row \in [Rows -> RowStatus] /\ j.roll \in SUBSET Student
    BY DEF TypeOK, Jobs
  <1>1. status' = status /\ row' = row /\ linked' = linked /\ asked' = asked
    BY DEF Plain, Check, Same, Begin, Read, Own, Count, Load, Others, Roster, Clear, db
  <1>2. roster' \in [Plan -> SUBSET Student]
    BY <1>t DEF Plain, Check, Same, Begin, Read, Own, Count, Load, Others, Roster, Clear, db
  <1>3. Goal
    <2>1. CASE Check(c)
      <3>1. CASE ~Allowed(job[c])
        BY <2>1, <3>1 DEF Check
      <3>2. CASE Allowed(job[c])
        <4> DEFINE k == [j EXCEPT !.linked = j.to \in linked]
        <4>1. k \in Jobs /\ k.kind = j.kind /\ k.plan = j.plan /\ k.to = j.to /\ k.ss = j.ss
              /\ k.st = j.st /\ k.seen = j.seen
          <5>1. ASSUME NEW b \in BOOLEAN, NEW i \in Jobs, i = [j EXCEPT !.linked = b]
                PROVE  /\ i.kind = j.kind /\ i.plan = j.plan /\ i.to = j.to /\ i.ss = j.ss
                       /\ i.st = j.st /\ i.seen = j.seen
            BY <1>t, <5>1 DEF Jobs
          <5>2. ASSUME NEW b \in BOOLEAN PROVE [j EXCEPT !.linked = b] \in Jobs
            BY <1>t DEF Jobs
          <5>3. (j.to \in linked) \in BOOLEAN
            OBVIOUS
          <5>4. k \in Jobs
            BY <5>2, <5>3, Zenon
          <5>5. QED
            BY <5>1, <5>3, <5>4, Zenon
        <4>2. job' = [job EXCEPT ![c] = k] /\ wr' = wr
          BY <2>1, <3>2, <1>t DEF Check
        <4>3. PICK l \in {"same", "begin"} : Goto(c, l) /\ (l = "same" => j.kind = "review")
          BY <2>1, <3>2 DEF Check
        <4>4. Onward(c)
          BY <4>1, <4>2, <4>3, OnwardJob DEF Label
        <4>5. QED
          BY <4>3, <4>4, <2>1, <3>2, <1>t DEF Leads, Check, Goto
      <3>3. QED
        BY <3>1, <3>2
    <2>2. CASE Same(c)
      BY <2>2, <1>t, OnwardSame DEF Same, Leads, Label, Goto
    <2>3. CASE Begin(c)
      <3>1. CASE j.kind \in {"register", "move"}
        <4>1. Goto(c, "read")
          BY <2>3, <3>1 DEF Begin
        <4>2. QED
          BY <2>3, <3>1, <4>1, <1>t, OnwardSame DEF Begin, Leads, Label, Goto
      <3>2. CASE j.kind = "practice"
        <4>1. Goto(c, "others")
          BY <2>3, <3>2 DEF Begin
        <4>2. QED
          BY <2>3, <3>2, <4>1, <1>t, OnwardSame DEF Begin, Leads, Label, Goto
      <3>3. CASE j.kind \notin {"register", "move", "practice"}
        <4>1. Goto(c, "write")
          BY <2>3, <3>3 DEF Begin
        <4>2. QED
          BY <2>3, <3>3, <4>1, <1>t, OnwardSame DEF Begin, Leads, Label, Goto
      <3>4. QED
        BY <3>1, <3>2, <3>3
    <2>4. CASE Read(c)
      <3> DEFINE seen == [s \in Student |-> IF s \in j.ss THEN row[<<j.plan, s>>] ELSE NoRow]
                 k == [j EXCEPT !.seen = seen]
      <3>1. CASE j.kind = "move"
        <4>0. seen \in [Student -> RowStatus]
          BY <1>t DEF Rows, RowStatus, NoRow
        <4>1. k \in Jobs /\ k.kind = j.kind /\ k.plan = j.plan /\ k.to = j.to /\ k.ss = j.ss
              /\ k.st = j.st /\ k.seen = seen
          BY <1>t, <4>0 DEF Jobs
        <4>2. job' = [job EXCEPT ![c] = k] /\ wr' = wr
          BY <2>4, <3>1, <1>t DEF Read
        <4>3. PICK l \in {"write", "commit"} : Goto(c, l)
          BY <2>4, <3>1 DEF Read
        <4>4. Onward(c)
          BY <4>1, <4>2, <4>3, <2>4, OnwardJob DEF Label, Read
        <4>5. QED
          BY <4>3, <4>4, <3>1, <2>4, <1>t DEF Leads, Read, Goto
      <3>2. CASE j.kind # "move" /\ status[j.plan] = "00"
        <4>1. Goto(c, "own") /\ wr' = wr /\ job' = job
          BY <2>4, <3>2 DEF Read
        <4>2. Onward(c)
          BY <4>1, <1>t DEF Onward, Goto, Label
        <4>3. QED
          BY <2>4, <3>2, <4>1, <4>2, <1>t DEF Read, Leads, Goto
      <3>3. CASE j.kind # "move" /\ status[j.plan] # "00"
        BY <2>4, <3>3 DEF Read
      <3>4. QED
        BY <3>1, <3>2, <3>3
    <2>5. CASE Own(c)
      BY <2>5, <1>t, OnwardSame DEF Own, Leads, Label, Goto
    <2>6. CASE Count(c)
      BY <2>6, <1>t, OnwardSame DEF Count, Leads, Label, Goto
    <2>7. CASE Load(c)
      <3>1. CASE j.kind = "import"
        BY <2>7, <3>1, <1>t, OnwardSame DEF Load, Leads, Label, Goto
      <3>2. CASE j.kind = "void"
        <4>1. Goto(c, "commit") /\ wr' = wr /\ job' = job /\ pc[c] = "load"
          BY <2>7, <3>2 DEF Load
        <4>2. QED
          BY <3>2, <4>1, <1>t, OnwardSame DEF Leads, Label, Goto
      <3>3. CASE j.kind = "move"
        <4>1. CASE status[j.plan] = "08"
          BY <2>7, <3>3, <4>1 DEF Load
        <4>2. CASE status[j.plan] # "08"
          <5>1. /\ Goto(c, IF j.st = "08" THEN "leave" ELSE "alike")
                /\ wr' = wr /\ job' = job /\ pc[c] = "load"
            BY <2>7, <3>3, <4>2 DEF Load
          <5>2. QED
            BY <3>3, <5>1, <1>t, OnwardSame DEF Leads, Label, Goto
        <4>3. QED
          BY <4>1, <4>2
      <3>4. QED
        BY <2>7, <3>1, <3>2, <3>3 DEF Load, Asks
    <2>8. CASE Others(c)
      <3> DEFINE roll == IF j.kind = "review" THEN roster[j.plan] \ j.ss
                         ELSE {s \in Student : row[<<j.plan, s>>] \notin {NoRow, "00", "08"}}
                 k == [j EXCEPT !.roll = roll]
      <3>1. roll \in SUBSET Student
        BY <1>t
      <3>2. k \in Jobs /\ k.kind = j.kind /\ k.plan = j.plan /\ k.to = j.to /\ k.ss = j.ss
            /\ k.st = j.st /\ k.seen = j.seen
        BY <1>t, <3>1 DEF Jobs
      <3>3. job' = [job EXCEPT ![c] = k] /\ wr' = wr /\ Goto(c, "roster")
        BY <2>8, <1>t DEF Others
      <3>4. Onward(c)
        BY <3>2, <3>3, OnwardJob DEF Label
      <3>5. QED
        BY <3>3, <3>4, <2>8, <1>t DEF Others, Leads, Goto, Asks
    <2>9. CASE Roster(c)
      BY <2>9, <1>t, OnwardSame DEF Roster, Leads, Label, Goto
    <2>10. CASE Clear(c)
      BY <2>10, <1>t, OnwardSame DEF Clear, Leads, Label, Goto
    <2>11. QED
      BY <2>1, <2>2, <2>3, <2>4, <2>5, <2>6, <2>7, <2>8, <2>9, <2>10 DEF Plain
  <1>4. QED
    BY <1>1, <1>2, <1>3

-----------------------------------------------------------------------------
(* The invariant is inductive.                                               *)

LEMMA InitEInv == Init => EInv
  <1> SUFFICES ASSUME Init PROVE EInv
    OBVIOUS
  <1>1. TypeOK
    <2>1. /\ status \in [Plan -> PlanStatus] /\ row \in [Rows -> RowStatus] /\ linked \subseteq Plan
          /\ asked \in 0..MaxRequests
      BY EnrollmentAssumption DEF Init, PlanStatus
    <2>2. roster \in [Plan -> SUBSET Student] /\ pc \in [Caller -> Label]
      BY DEF Init, Label
    <2>3. wr \in [Caller -> [Rows -> RowStatus \cup {Keep}]] /\ job \in [Caller -> Jobs]
      BY NoRequestTyped DEF Init, Nothing
    <2>4. QED
      BY <2>1, <2>2, <2>3 DEF TypeOK
  <1>2. Locks /\ \A c \in Caller : Closed(c)
    BY DEF Init, Locks, Closed, Nothing
  <1>3. ASSUME NEW c \in Caller PROVE Form(c)
    <2>1. /\ job[c].kind = "none" /\ job[c].to = job[c].plan /\ pc[c] = "idle"
          /\ \A r \in Rows : wr[c][r] = Keep
      <3>1. NoRequest.kind = "none" /\ NoRequest.to = NoRequest.plan
        BY DEF NoRequest, Request
      <3>2. job[c] = NoRequest /\ pc[c] = "idle" /\ wr[c] = Nothing
        BY DEF Init
      <3>3. QED
        BY <3>1, <3>2 DEF Nothing
    <2>2. \A s \in job[c].ss : job[c].kind # "move"
      BY <2>1
    <2>3. QED
      BY <2>1, <2>2 DEF Form, Asks, Writes, Moves, Keep, NoRow
  <1>4. QED
    BY <1>1, <1>2, <1>3 DEF EInv

(* A request that another one's step leaves alone, but for rows it has not     *)
(* written.                                                                    *)
LEMMA FormKept ==
  ASSUME TypeOK, NEW d \in Caller, Closed(d), Form(d),
         pc'[d] = pc[d], job'[d] = job[d], wr'[d] = wr[d],
         \A r \in Rows : wr[d][r] # Keep => row'[r] = row[r]
  PROVE  Closed(d)' /\ Form(d)'
  <1>t. job[d] \in Jobs /\ job[d].plan \in Plan /\ job[d].ss \subseteq Student
    BY DEF TypeOK, Jobs
  <1>1. Closed(d)'
    BY DEF Closed, Nothing
  <1>2. Asks(d)'
    BY <1>t DEF Form, Asks, Rows
  <1>3. Writes(d)'
    BY DEF Form, Writes
  <1>4. Moves(d)'
    BY DEF Form, Moves, Gained
  <1>5. QED
    BY <1>1, <1>2, <1>3, <1>4 DEF Form

LEMMA FormReturned ==
  ASSUME TypeOK, NEW c \in Caller, Return(c)
  PROVE  Closed(c)' /\ Form(c)' /\ (Locks => Locks')
  <1>1. /\ job'[c].kind = "none" /\ job'[c].to = job'[c].plan /\ pc'[c] = "idle"
        /\ \A r \in Rows : wr'[c][r] = Keep
        /\ wr'[c] = Nothing
        /\ \A d \in Caller \ {c} : wr'[d] = wr[d]
    BY DEF TypeOK, Return, Goto, NoRequest, Request, Nothing
  <1>2. QED
    BY <1>1 DEF Form, Asks, Writes, Moves, Closed, Keep, NoRow, Locks

LEMMA FormOnward ==
  ASSUME TypeOK, NEW c \in Caller, Closed(c), Form(c), row' = row, pc[c] # "idle",
         Onward(c), Leads(c)
  PROVE  Closed(c)' /\ Form(c)'
  <1>t. /\ job[c] \in Jobs /\ job[c].plan \in Plan /\ job[c].to \in Plan
        /\ job[c].ss \subseteq Student /\ job[c].kind \in AllKinds
    BY DEF TypeOK, Jobs, Form, Asks
  <1>1. pc'[c] # "idle"
    BY DEF Leads
  <1>2. Asks(c)'
    BY <1>t, <1>1 DEF Form, Asks, Onward, Leads, AllKinds
  <1>3. Writes(c)'
    BY DEF Form, Writes, Onward
  <1>4. Moves(c)'
    <2>1. CASE pc[c] = "read"
      <3>1. \A r \in Rows : wr'[c][r] = Keep
        BY <2>1 DEF Closed, Nothing, Onward
      <3>2. pc'[c] \notin {"roster", "load", "alike", "leave"}
        BY <2>1 DEF Leads
      <3>3. \A s \in Student : <<job[c].plan, s>> \in Rows /\ <<job[c].to, s>> \in Rows
        BY <1>t DEF Rows
      <3>4. \A s \in job[c].ss : wr'[c][<<job[c].plan, s>>] = Keep /\ wr'[c][<<job[c].to, s>>] = Keep
        BY <3>1, <3>3, <1>t
      <3>5. QED
        BY <3>2, <3>4 DEF Moves, Onward
    <2>2. CASE pc[c] # "read"
      <3>1. job[c].kind = "move" /\ pc'[c] \in {"roster", "load", "alike", "leave"} =>
              pc[c] \in {"roster", "load", "alike", "leave"}
        BY DEF Leads, Form, Asks
      <3>2. QED
        BY <2>2, <3>1 DEF Form, Moves, Gained, Onward
    <2>3. QED
      BY <2>1, <2>2
  <1>5. Closed(c)'
    BY DEF Leads, Closed, Onward, Nothing
  <1>6. QED
    BY <1>2, <1>3, <1>4, <1>5 DEF Form

LEMMA WriteForm ==
  ASSUME TypeOK, Locks, NEW c \in Caller, Closed(c), Form(c), Write(c)
  PROVE  Closed(c)' /\ Form(c)' /\ Locks'
  <1> DEFINE j == job[c]
  <1>t. /\ j \in Jobs /\ j.plan \in Plan /\ j.to \in Plan /\ j.ss \subseteq Student
        /\ j.kind \in AllKinds /\ pc[c] = "write" /\ Asks(c) /\ Moves(c) /\ Writes(c)
    BY DEF TypeOK, Jobs, Form, Asks, Write
  <1>w. /\ \A d \in Caller \ {c} : wr'[d] = wr[d] /\ pc'[d] = pc[d]
        /\ \A r \in Rows : wr'[c][r] = IF r \in Target(c) THEN Value(c, r) ELSE wr[c][r]
        /\ job' = job /\ row' = row /\ pc'[c] = AfterWrite(j)
    BY <1>t, WriteStep
  <1>v. ASSUME NEW r \in Target(c)
        PROVE  /\ r \in Rows /\ r[1] = j.to /\ (j.kind # "void" => r[2] \in j.ss)
               /\ Value(c, r) \in RowStatus \ {NoRow}
               /\ j.kind = "move" => Value(c, r) \in {"04", j.seen[r[2]]}
               /\ Value(c, r) = "08" => \/ j.kind = "move"
                                        \/ j.kind \in {"register", "review"} /\ j.st = "08"
               /\ row[r] = "04" => Value(c, r) = "04" \/ j.kind \in {"review", "void"}
    BY <1>t, ValueTyped
  <1>1. /\ AfterWrite(j) \in {"commit", "load", "clear", "roster", "others"}
        /\ AfterWrite(j) = "others" => j.kind = "review"
        /\ AfterWrite(j) = "load" => j.kind \in {"import", "move"}
    BY <1>t DEF AfterWrite, Asks, AllKinds
  <1>2. Asks(c)'
    BY <1>t, <1>w, <1>1 DEF Asks
  <1>3. Writes(c)'
    <2> SUFFICES ASSUME NEW r \in Rows
                 PROVE  /\ wr'[c][r] # NoRow
                        /\ wr'[c][r] # Keep => /\ r[1] \in {j.plan, j.to}
                                               /\ j.kind # "void" => r[2] \in j.ss
                        /\ wr'[c][r] = "08" => \/ j.kind = "move"
                                               \/ /\ j.kind \in {"register", "review"}
                                                  /\ j.st = "08"
                        /\ wr'[c][r] \notin {Keep, "04"} /\ row[r] = "04" =>
                             j.kind \in {"review", "move", "void"} /\ r[1] = j.plan
      BY <1>w DEF Writes
    <2>1. CASE r \in Target(c)
      BY <2>1, <1>w, <1>v, <1>t DEF Asks
    <2>2. CASE r \notin Target(c)
      BY <2>2, <1>w, <1>t DEF Writes
    <2>3. QED
      BY <2>1, <2>2
  <1>4. Moves(c)'
    <2> SUFFICES ASSUME j.kind = "move", j.to # j.plan, NEW s \in j.ss
                 PROVE  /\ wr'[c][<<j.to, s>>] # Keep => wr'[c][<<j.to, s>>] \in {"04", j.seen[s]}
                        /\ j.seen[s] # NoRow /\ (\/ pc'[c] \in {"roster", "load", "alike", "leave"}
                                                 \/ wr'[c][<<j.plan, s>>] # Keep)
                             => wr'[c][<<j.to, s>>] \in {"04", j.seen[s]}
      BY <1>w DEF Moves, Gained
    <2>1. /\ <<j.to, s>> \in Rows /\ <<j.plan, s>> \in Rows
          /\ <<j.to, s>>[2] = s /\ <<j.plan, s>>[1] = j.plan
      BY <1>t DEF Rows
    <2>2. CASE <<j.to, s>> \in Target(c)
      BY <2>1, <2>2, <1>w, <1>v
    <2>3. CASE <<j.to, s>> \notin Target(c)
      <3>1. wr'[c][<<j.to, s>>] = wr[c][<<j.to, s>>]
        BY <2>1, <2>3, <1>w
      <3>2. j.seen[s] = NoRow
        BY <2>1, <2>3 DEF Target, Named
      <3>3. QED
        BY <3>1, <3>2, <1>t DEF Moves, Gained
    <2>4. QED
      BY <2>2, <2>3
  <1>5. Locks'
    <2>1. \A d \in Caller \ {c} : \A r \in Target(c) : wr[d][r] = Keep
      BY DEF Write, Unlocked
    <2>2. QED
      BY <1>w, <2>1 DEF Locks
  <1>6. QED
    BY <1>1, <1>2, <1>3, <1>4, <1>5, <1>w DEF Form, Closed

LEMMA LeaveForm ==
  ASSUME TypeOK, Locks, NEW c \in Caller, Closed(c), Form(c), Leave(c)
  PROVE  Closed(c)' /\ Form(c)' /\ Locks'
  <1> DEFINE j == job[c]
             Gone(r) == r[1] = j.plan /\ r[2] \in j.ss /\ row[r] # NoRow
  <1>t. /\ j \in Jobs /\ j.plan \in Plan /\ j.to \in Plan /\ j.ss \subseteq Student
        /\ j.kind = "move" /\ pc[c] = "leave" /\ Asks(c) /\ Moves(c) /\ Writes(c)
    BY DEF TypeOK, Jobs, Form, Asks, Leave
  <1>w. /\ \A d \in Caller \ {c} : wr'[d] = wr[d] /\ pc'[d] = pc[d]
        /\ \A r \in Rows : wr'[c][r] = IF Gone(r) THEN j.st ELSE wr[c][r]
        /\ job' = job /\ row' = row /\ pc'[c] = "clear"
    BY <1>t, LeaveStep
  <1>1. Asks(c)'
    BY <1>t, <1>w DEF Asks
  <1>2. Writes(c)'
    <2>1. j.st # NoRow
      BY <1>t, EnrollmentAssumption DEF Asks
    <2>2. QED
      BY <1>t, <1>w, <2>1 DEF Writes
  <1>3. Moves(c)'
    <2> SUFFICES ASSUME j.to # j.plan, NEW s \in j.ss
                 PROVE  /\ wr'[c][<<j.to, s>>] # Keep => wr'[c][<<j.to, s>>] \in {"04", j.seen[s]}
                        /\ j.seen[s] # NoRow => wr'[c][<<j.to, s>>] \in {"04", j.seen[s]}
      BY <1>w DEF Moves, Gained
    <2>1. <<j.to, s>> \in Rows /\ ~Gone(<<j.to, s>>)
      BY <1>t DEF Rows
    <2>2. QED
      BY <1>t, <1>w, <2>1 DEF Moves, Gained
  <1>4. Locks'
    <2>1. ASSUME NEW r \in Rows, Gone(r) PROVE r \in {q \in {<<j.plan, s>> : s \in j.ss} : row[q] # NoRow}
      BY <2>1 DEF Rows
    <2>2. \A d \in Caller \ {c} : \A r \in Rows : Gone(r) => wr[d][r] = Keep
      BY <2>1 DEF Leave, Unlocked
    <2>3. QED
      BY <1>w, <2>2 DEF Locks
  <1>5. QED
    BY <1>1, <1>2, <1>3, <1>4, <1>w DEF Form, Closed

LEMMA AskForm ==
  ASSUME TypeOK, Locks, NEW c \in Caller, Closed(c), AskAny(c)
  PROVE  /\ TypeOK' /\ Locks' /\ Closed(c)' /\ Form(c)' /\ row' = row /\ wr' = wr
         /\ \A d \in Caller \ {c} : pc'[d] = pc[d] /\ job'[d] = job[d]
  <1>1. \E kind \in AllKinds, p \in Plan, q \in Plan, ss \in SUBSET Student, st \in RowStatus, l \in Label :
          /\ Ask(c, Request(kind, p, q, ss, st), l)
          /\ l \in {"begin", "check"}
          /\ kind # "move" => q = p
          /\ kind \in {"register", "review", "move"} => st \in Sent
          /\ kind = "import" => st = "04"
          /\ kind = "void" => st = "10"
    <2> USE DEF AllKinds, RowStatus, Label, NoRow
    <2>1. CASE AskRegister(c)
      BY <2>1, Zenon DEF AskRegister
    <2>2. CASE AskImport(c)
      BY <2>2, Zenon DEF AskImport
    <2>3. CASE AskReview(c)
      BY <2>3, Zenon DEF AskReview
    <2>4. CASE AskMove(c)
      BY <2>4, Zenon DEF AskMove
    <2>5. CASE AskVoid(c)
      BY <2>5, Zenon DEF AskVoid
    <2>6. CASE AskPractice(c)
      BY <2>6, Zenon DEF AskPractice
    <2>7. QED
      BY <2>1, <2>2, <2>3, <2>4, <2>5, <2>6 DEF AskAny
  <1>2. PICK kind \in AllKinds, p \in Plan, q \in Plan, ss \in SUBSET Student,
             st \in RowStatus, l \in Label :
          /\ Ask(c, Request(kind, p, q, ss, st), l)
          /\ l \in {"begin", "check"}
          /\ kind # "move" => q = p
          /\ kind \in {"register", "review", "move"} => st \in Sent
          /\ kind = "import" => st = "04"
          /\ kind = "void" => st = "10"
    BY <1>1
  <1>3. PICK j \in Jobs : j = Request(kind, p, q, ss, st)
    BY RequestTyped
  <1>4. j.kind = kind /\ j.plan = p /\ j.to = q /\ j.ss = ss /\ j.st = st
    BY <1>3 DEF Request
  <1>5. /\ pc[c] = "idle" /\ asked < MaxRequests /\ asked' = asked + 1 /\ wr' = wr
        /\ UNCHANGED <<status, row, linked, roster>>
        /\ job' = [job EXCEPT ![c] = j] /\ pc' = [pc EXCEPT ![c] = l]
    BY <1>2, <1>3 DEF Ask, Goto, db
  <1>6. TypeOK'
    BY <1>5, EnrollmentAssumption DEF TypeOK
  <1>7. /\ job'[c] = j /\ pc'[c] = l /\ \A r \in Rows : wr'[c][r] = Keep
        /\ \A d \in Caller \ {c} : pc'[d] = pc[d] /\ job'[d] = job[d]
    BY <1>5 DEF TypeOK, Closed, Nothing
  <1>8. Asks(c)'
    BY <1>2, <1>4, <1>5, <1>7 DEF Asks
  <1>9. Writes(c)' /\ Closed(c)' /\ Locks'
    BY <1>2, <1>5, <1>7 DEF Writes, Closed, Locks, Keep, NoRow
  <1>10. Moves(c)'
    BY <1>2, <1>4, <1>7 DEF Moves, Rows
  <1>11. QED
    BY <1>5, <1>6, <1>7, <1>8, <1>9, <1>10 DEF Form

LEMMA NextEInv == EInv /\ [Next]_vars => EInv'
  <1> SUFFICES ASSUME EInv, [Next]_vars PROVE EInv'
    OBVIOUS
  <1>t. TypeOK /\ Locks /\ \A d \in Caller : Closed(d) /\ Form(d)
    BY DEF EInv
  <1>k. ASSUME NEW c \in Caller, Closed(c)', Form(c)',
               \A d \in Caller \ {c} : pc'[d] = pc[d] /\ job'[d] = job[d] /\ wr'[d] = wr[d],
               row' = row
        PROVE  \A d \in Caller : Closed(d)' /\ Form(d)'
    <2>1. ASSUME NEW d \in Caller \ {c} PROVE Closed(d)' /\ Form(d)'
      BY <1>k, <1>t, <2>1, FormKept
    <2>2. QED
      BY <1>k, <2>1
  <1>1. ASSUME NEW c \in Caller, Return(c), UNCHANGED <<status, row, linked, asked>>,
               roster' \in [Plan -> SUBSET Student]
        PROVE  EInv'
    <2>1. Closed(c)' /\ Form(c)' /\ Locks'
      BY <1>1, <1>t, FormReturned
    <2>2. TypeOK'
      BY <1>1, <1>t, ReturnTyped DEF TypeOK
    <2>3. \A d \in Caller \ {c} : pc'[d] = pc[d] /\ job'[d] = job[d] /\ wr'[d] = wr[d]
      BY <1>1, <1>t DEF Return, Goto, TypeOK
    <2>4. QED
      BY <1>1, <1>k, <2>1, <2>2, <2>3 DEF EInv
  <1>2. ASSUME NEW c \in Caller, AskAny(c) PROVE EInv'
    <2>1. /\ TypeOK' /\ Locks' /\ Closed(c)' /\ Form(c)' /\ row' = row /\ wr' = wr
          /\ \A d \in Caller \ {c} : pc'[d] = pc[d] /\ job'[d] = job[d]
      BY <1>2, <1>t, AskForm
    <2>2. QED
      BY <1>k, <2>1 DEF EInv
  <1>3. ASSUME NEW c \in Caller, Plain(c) PROVE EInv'
    <2>1. /\ status' = status /\ row' = row /\ linked' = linked /\ asked' = asked
          /\ roster' \in [Plan -> SUBSET Student]
          /\ Return(c) \/ (Onward(c) /\ Leads(c))
      BY <1>3, <1>t, PlainStep DEF Form
    <2>2. CASE Return(c)
      BY <1>1, <2>1, <2>2
    <2>3. CASE Onward(c) /\ Leads(c)
      <3>1. pc[c] # "idle"
        BY <1>3 DEF Plain, Check, Same, Begin, Read, Own, Count, Load, Others, Roster, Clear
      <3>2. Closed(c)' /\ Form(c)'
        BY <1>t, <2>1, <2>3, <3>1, FormOnward
      <3>3. TypeOK' /\ Locks'
        BY <1>t, <2>1, <2>3 DEF TypeOK, Locks, Onward
      <3>4. QED
        BY <1>k, <2>1, <2>3, <3>2, <3>3 DEF EInv, Onward
    <2>4. QED
      BY <2>1, <2>2, <2>3
  <1>4. ASSUME NEW c \in Caller, Write(c) \/ Leave(c) PROVE EInv'
    <2>1. Closed(c)' /\ Form(c)' /\ Locks'
      BY <1>4, <1>t, WriteForm, LeaveForm
    <2>2. /\ wr' \in [Caller -> [Rows -> RowStatus \cup {Keep}]] /\ pc' \in [Caller -> Label]
          /\ \A d \in Caller \ {c} : wr'[d] = wr[d] /\ pc'[d] = pc[d]
          /\ job' = job /\ row' = row
      BY <1>4, <1>t, WriteStep, LeaveStep DEF Form
    <2>3. UNCHANGED <<status, linked, roster, asked>>
      BY <1>4 DEF Write, Leave, db
    <2>4. QED
      BY <1>k, <1>t, <2>1, <2>2, <2>3 DEF EInv, TypeOK
  <1>5. ASSUME NEW c \in Caller, Commit(c) PROVE EInv'
    <2>1. /\ Return(c) /\ roster' = roster /\ asked' = asked
          /\ \A r \in Rows : row'[r] = IF wr[c][r] = Keep THEN row[r] ELSE wr[c][r]
      BY <1>5 DEF Commit
    <2>2. Closed(c)' /\ Form(c)' /\ Locks'
      BY <1>t, <2>1, FormReturned
    <2>3. TypeOK'
      <3>1. row' \in [Rows -> RowStatus]
        BY <1>5, <1>t DEF Commit, TypeOK
      <3>2. job[c].plan \in Plan
        BY <1>t DEF TypeOK, Jobs
      <3>3. linked' \subseteq Plan
        <4>1. linked' \in {linked \cup {job[c].plan}, linked \ {job[c].plan}, linked}
          BY <1>5 DEF Commit
        <4>2. QED
          BY <1>t, <3>2, <4>1 DEF TypeOK
      <3>4. status' \in [Plan -> PlanStatus]
        BY <1>5, <1>t, <3>2 DEF Commit, TypeOK, PlanStatus
      <3>5. QED
        BY <1>t, <2>1, <3>1, <3>3, <3>4, ReturnTyped DEF TypeOK
    <2>4. ASSUME NEW d \in Caller \ {c} PROVE Closed(d)' /\ Form(d)'
      <3>1. pc'[d] = pc[d] /\ job'[d] = job[d] /\ wr'[d] = wr[d]
        BY <1>t, <2>1 DEF Return, Goto, TypeOK
      <3>2. \A r \in Rows : wr[d][r] # Keep => row'[r] = row[r]
        BY <1>t, <2>1 DEF Locks
      <3>3. QED
        BY <1>t, <3>1, <3>2, FormKept
    <2>5. QED
      BY <2>2, <2>3, <2>4 DEF EInv
  <1>6. ASSUME NEW p \in Ending, End(p) PROVE EInv'
    <2>1. UNCHANGED <<row, linked, roster, wr, pc, job, asked>>
      BY <1>6 DEF End
    <2>2. status' \in [Plan -> PlanStatus]
      BY <1>6, <1>t, EnrollmentAssumption DEF End, TypeOK, PlanStatus
    <2>3. QED
      BY <1>t, <2>1, <2>2 DEF EInv, TypeOK, Locks, Closed, Form, Asks, Writes, Moves, Gained
  <1>7. CASE UNCHANGED vars
    BY <1>t, <1>7 DEF vars, EInv, TypeOK, Locks, Closed, Form, Asks, Writes, Moves, Gained
  <1>8. ASSUME NEW c \in Caller, Fail(c) \/ Abort(c) PROVE EInv'
    <2>1. Return(c) /\ UNCHANGED <<status, row, linked, roster, asked>>
      BY <1>8 DEF Fail, Abort, db
    <2>2. QED
      BY <1>1, <1>t, <2>1 DEF TypeOK
  <1>9. QED
    <2>1. ASSUME NEW c \in Caller, Step(c)
          PROVE  Plain(c) \/ Write(c) \/ Leave(c) \/ Commit(c) \/ Abort(c)
      BY <2>1 DEF Step, Plain
    <2>2. QED
      BY <1>2, <1>3, <1>4, <1>5, <1>6, <1>7, <1>8, <2>1 DEF Next

-----------------------------------------------------------------------------
(* Theorems. *)

(* Whatever requests interleave, fail or are aborted, every row, lock and      *)
(* request keeps its type (serve/registration/dao.go).                         *)
THEOREM EnrollTypeCorrect == Spec => []TypeOK
  <1>1. EInv => TypeOK
    BY DEF EInv
  <1>2. QED
    BY InitEInv, NextEInv, <1>1, PTL DEF Spec

(* A row that changes was written by a transaction that commits.               *)
LEMMA RowStep ==
  ASSUME EInv, [Next]_vars, NEW r \in Rows, row'[r] # row[r]
  PROVE  \E c \in Caller : Commit(c) /\ wr[c][r] # Keep /\ row'[r] = wr[c][r]
  <1>1. PICK c \in Caller : Commit(c)
    <2>1. ASSUME NEW c \in Caller, Fail(c) \/ AskAny(c) \/ Abort(c) PROVE row' = row
      BY <2>1 DEF Fail, AskAny, AskRegister, AskImport, AskReview, AskMove, AskVoid,
                  AskPractice, Ask, Abort, db
    <2>2. ASSUME NEW c \in Caller, Step(c), ~Commit(c), ~Abort(c) PROVE row' = row
      BY <2>2 DEF Step, Check, Same, Begin, Read, Own, Count, Write, Load, Leave, Others,
                  Roster, Clear, db
    <2>3. ASSUME NEW p \in Ending, End(p) PROVE row' = row
      BY <2>3 DEF End
    <2>4. QED
      BY <2>1, <2>2, <2>3 DEF Next, vars
  <1>2. QED
    BY <1>1 DEF Commit

(* "ON CONFLICT ... DO UPDATE ... WHERE status IS DISTINCT FROM '04'": no late *)
(* registration, import or move into the plan takes an approval back, however  *)
(* it interleaves with the review (UpsertRegisterStudent, MoveStudent).        *)
THEOREM ApprovalKept == Spec => ApprovedKept
  <1> DEFINE A == \A p \in Plan, s \in Student :
                    row[<<p, s>>] = "04" /\ row'[<<p, s>>] # "04" =>
                      \E c \in Caller : /\ Ends(c) /\ job[c].plan = p
                                        /\ job[c].kind \in {"review", "move", "void"}
  <1>1. EInv /\ [Next]_vars => A
    <2> SUFFICES ASSUME EInv, [Next]_vars, NEW p \in Plan, NEW s \in Student,
                        row[<<p, s>>] = "04", row'[<<p, s>>] # "04"
                 PROVE  \E c \in Caller : /\ Ends(c) /\ job[c].plan = p
                                          /\ job[c].kind \in {"review", "move", "void"}
      OBVIOUS
    <2>1. <<p, s>> \in Rows /\ <<p, s>>[1] = p
      BY DEF Rows
    <2>2. PICK c \in Caller : Commit(c) /\ wr[c][<<p, s>>] # Keep /\ row'[<<p, s>>] = wr[c][<<p, s>>]
      BY <2>1, RowStep
    <2>3. job[c].kind \in {"review", "move", "void"} /\ job[c].plan = p
      BY <2>1, <2>2 DEF EInv, Form, Writes
    <2>4. Ends(c)
      BY <2>2 DEF EInv, TypeOK, Commit, Return, Goto, Ends
    <2>5. QED
      BY <2>3, <2>4
  <1>2. QED
    BY InitEInv, NextEInv, <1>1, PTL DEF Spec, ApprovedKept

(* A student who is moved to another plan has there, in the very commit that   *)
(* marks the old row, what the old row was when the move read it: both are in  *)
(* one transaction, and the new one is written first (MoveStudent,             *)
(* OperateRegisterStudentStatus with its tx).  This is for any statuses and    *)
(* any plans and students a request carries.                                   *)
THEOREM MoveKeepsPlace == Spec => MovedKeepsPlace
  <1> DEFINE A == \A p \in Plan, s \in Student :
                    row[<<p, s>>] # "08" /\ row'[<<p, s>>] = "08" =>
                      \E c \in Caller :
                        /\ Ends(c) /\ p \in {job[c].plan, job[c].to}
                        /\ \/ Marked(job[c], s)
                           \/ job[c].kind = "move" /\ row'[<<job[c].to, s>>] \in {"04", job[c].seen[s]}
  <1>1. EInv /\ [Next]_vars => A
    <2> SUFFICES ASSUME EInv, [Next]_vars, NEW p \in Plan, NEW s \in Student,
                        row[<<p, s>>] # "08", row'[<<p, s>>] = "08"
                 PROVE  \E c \in Caller :
                          /\ Ends(c) /\ p \in {job[c].plan, job[c].to}
                          /\ \/ Marked(job[c], s)
                             \/ job[c].kind = "move" /\ row'[<<job[c].to, s>>] \in {"04", job[c].seen[s]}
      OBVIOUS
    <2>1. <<p, s>> \in Rows /\ <<p, s>>[1] = p /\ <<p, s>>[2] = s
      BY DEF Rows
    <2>2. PICK c \in Caller : Commit(c) /\ wr[c][<<p, s>>] # Keep /\ row'[<<p, s>>] = wr[c][<<p, s>>]
      BY <2>1, RowStep
    <2>t. /\ Asks(c) /\ Writes(c) /\ Moves(c) /\ job[c].to \in Plan
          /\ job[c].seen \in [Student -> RowStatus] /\ Ends(c)
          /\ \A r \in Rows : row'[r] = IF wr[c][r] = Keep THEN row[r] ELSE wr[c][r]
      BY <2>2 DEF EInv, TypeOK, Jobs, Form, Commit, Ends, Return, Goto
    <2>3. /\ p \in {job[c].plan, job[c].to}
          /\ job[c].kind # "void" => s \in job[c].ss
          /\ \/ job[c].kind = "move"
             \/ job[c].kind \in {"register", "review"} /\ job[c].st = "08"
      BY <2>1, <2>2, <2>t DEF Writes
    <2>4. CASE job[c].kind = "move" /\ job[c].to # job[c].plan /\ job[c].seen[s] # NoRow
      <3>1. wr[c][<<job[c].to, s>>] \in {"04", job[c].seen[s]}
        BY <2>2, <2>3, <2>4, <2>t DEF Moves, Gained
      <3>2. wr[c][<<job[c].to, s>>] # Keep /\ <<job[c].to, s>> \in Rows
        BY <3>1, <2>t, EnrollmentAssumption DEF RowStatus, Rows, Keep, NoRow
      <3>3. QED
        BY <2>3, <2>4, <2>t, <3>1, <3>2
    <2>5. CASE ~(job[c].kind = "move" /\ job[c].to # job[c].plan /\ job[c].seen[s] # NoRow)
      BY <2>3, <2>5, <2>t DEF Marked
    <2>6. QED
      BY <2>4, <2>5
  <1>2. QED
    BY InitEInv, NextEInv, <1>1, PTL DEF Spec, MovedKeepsPlace
=============================================================================
