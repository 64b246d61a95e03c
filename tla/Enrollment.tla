------------------------------ MODULE Enrollment ------------------------------
(***************************************************************************)
(* The students of registration plans (serve/registration): their rows of  *)
(* t_exam_plan_student, the rosters of the practices tied to the plans,    *)
(* and the requests that register, import, review, move and void.          *)
(*                                                                         *)
(* A request runs its own transaction on a connection of the pgx pool.     *)
(* Some of its queries go through the pool and so need a second            *)
(* connection; the roster is replaced by a transaction of its own on       *)
(* another pool (UpsertPracticeStudentV2), and is in place before the      *)
(* request commits.  Statements run at READ COMMITTED: an upsert or UPDATE *)
(* waits for the row locks, then looks at the rows again.                  *)
(*                                                                         *)
(* Every plan has at most one practice, which belongs to it alone.  That   *)
(* the registration is over is RegistrationPlan's doing (End).             *)
(***************************************************************************)
EXTENDS Naturals, FiniteSets

CONSTANTS
  Caller,       \* HTTP clients: students, reviewers, administrators
  Plan,         \* registration plans
  Student,      \* students
  MaxNumber,    \* Plan -> places, 0 for no limit
  Conns,        \* connections of the pgx pool, the listener's left out
  FirstRows,    \* the students' rows the service may start with
  FirstLinked,  \* and the plans with a practice
  Kinds,        \* what requests ask for
  Sent,         \* and the statuses they carry, which are written as they come
  Ending,       \* plans whose registration may end meanwhile
  MaxRequests   \* bound on requests

VARIABLES
  status,  \* Plan -> committed status of the plan
  row,     \* <<plan, student>> -> committed status of the student's row
  linked,  \* plans with a practice, as committed
  roster,  \* Plan -> students of its practice
  wr,      \* Caller -> what its transaction wrote or locked, or Keep
  pc,      \* Caller -> the next statement
  job,     \* Caller -> the request
  asked    \* requests so far

vars == <<status, row, linked, roster, wr, pc, job, asked>>

db == <<status, row, linked, roster>>

(* 00 applying, 02 pending, 04 approved, 06 rejected, 08 moved, 10 deleted *)
NoRow     == "none"
Keep      == "keep"
RowStatus == {NoRow, "00", "02", "04", "06", "08", "10"} \cup Sent
Rows      == Plan \X Student

ASSUME EnrollmentAssumption ==
  /\ IsFiniteSet(Caller) /\ IsFiniteSet(Student) /\ Plan # {}
  /\ MaxNumber \in [Plan -> Nat]
  /\ FirstRows \subseteq [Rows -> RowStatus]
  /\ FirstLinked \subseteq SUBSET Plan
  /\ {NoRow, Keep} \cap Sent = {} /\ Ending \subseteq Plan
  /\ Conns \in Nat /\ MaxRequests \in Nat

PlanStatus == {"00", "04", "08"}   \* released, ended, voided
AllKinds   == {"register", "import", "review", "move", "void", "practice"}
Label == {"idle", "check", "same", "begin", "read", "own", "count", "write", "load",
          "alike", "others", "roster", "leave", "clear", "commit"}

(* The plan asked about, the plan whose rows are written first, the students, *)
(* their new status, whether that plan has a practice, what was read of the   *)
(* students' rows, and the list handed to UpsertPracticeStudentV2.            *)
Jobs == [kind : AllKinds \cup {"none"}, plan : Plan, to : Plan, ss : SUBSET Student,
         st : RowStatus, linked : BOOLEAN, seen : [Student -> RowStatus], roll : SUBSET Student]

Request(kind, p, q, ss, st) ==
  [ss |-> ss, st |-> st, linked |-> FALSE, kind |-> kind, plan |-> p, to |-> q,
   seen |-> [s \in Student |-> NoRow], roll |-> ss]

NoRequest == LET p == CHOOSE p \in Plan : TRUE IN Request("none", p, p, {}, NoRow)

Nothing == [r \in Rows |-> Keep]

(* Callers whose transaction is open, each on a connection of the pool. *)
InTx == {c \in Caller : pc[c] \notin {"idle", "check", "same", "begin"}}

Spare == Cardinality(InTx) < Conns

Taken(p) == Cardinality({s \in Student : row[<<p, s>>] \notin {NoRow, "00", "08"}})

(* n more students have a place. *)
Fits(p, n) == MaxNumber[p] # 0 => Taken(p) + n <= MaxNumber[p]

Goto(c, l) == pc' = [pc EXCEPT ![c] = l]

(* The request answers and its transaction is over. *)
Return(c) == /\ Goto(c, "idle")
             /\ job' = [job EXCEPT ![c] = NoRequest]
             /\ wr' = [wr EXCEPT ![c] = Nothing]

(* The row locks of the others are not on R. *)
Unlocked(c, R) == \A d \in Caller \ {c} : \A r \in R : wr[d][r] = Keep

-----------------------------------------------------------------------------

Init ==
  /\ status = [p \in Plan |-> "00"]
  /\ row \in FirstRows
  /\ linked \in FirstLinked
  /\ roster = [p \in Plan |-> IF p \in linked THEN {s \in Student : row[<<p, s>>] = "04"} ELSE {}]
  /\ wr = [c \in Caller |-> Nothing]
  /\ pc = [c \in Caller |-> "idle"]
  /\ job = [c \in Caller |-> NoRequest]
  /\ asked = 0

Ask(c, j, l) == /\ pc[c] = "idle" /\ asked < MaxRequests
                /\ j.kind \in Kinds
                /\ job' = [job EXCEPT ![c] = j]
                /\ asked' = asked + 1
                /\ Goto(c, l)
                /\ UNCHANGED <<db, wr>>

(* A student registers with a status of the student's own choice. *)
AskRegister(c) == \E p \in Plan, s \in Student, st \in Sent :
  Ask(c, Request("register", p, p, {s}, st), "begin")

AskImport(c) == \E p \in Plan, ss \in SUBSET Student :
  ss # {} /\ Ask(c, Request("import", p, p, ss, "04"), "check")

(* Reviewers name any students and any status. *)
AskReview(c) == \E p \in Plan, ss \in SUBSET Student, st \in Sent :
  ss # {} /\ Ask(c, Request("review", p, p, ss, st), "check")

(* Neither that the students are in the plan they leave, nor that the other   *)
(* one is another one, nor the status they leave with is looked at.           *)
AskMove(c) == \E p, q \in Plan, ss \in SUBSET Student, st \in Sent :
  ss # {} /\ Ask(c, Request("move", p, q, ss, st), "check")

AskVoid(c) == \E p \in Plan : Ask(c, Request("void", p, p, {}, "10"), "check")

AskPractice(c) == \E p \in Plan : Ask(c, Request("practice", p, p, {}, NoRow), "check")

-----------------------------------------------------------------------------
(* Before the transaction, through the pool: LoadRegisterById.               *)

Allowed(j) ==
  CASE j.kind = "import" -> status[j.plan] = "00" /\ Fits(j.plan, Cardinality(j.ss))
    [] j.kind = "move" -> status[j.to] = "00" /\ Fits(j.to, Cardinality(j.ss))
    [] j.kind = "review" -> status[j.plan] \in {"00", "04"}
    [] j.kind = "void" -> status[j.plan] # "08"
    [] OTHER -> status[j.plan] = "00"

(* Variant: a request that is refused does not return. *)
Check_NoReturn(c) ==
  /\ pc[c] = "check" /\ Spare /\ Allowed(job[c])
  /\ job' = [job EXCEPT ![c].linked = job[c].to \in linked]
  /\ Goto(c, IF job[c].kind = "review" /\ job[c].st # "08" THEN "same" ELSE "begin")
  /\ UNCHANGED <<db, wr, asked>>

Check(c) ==
  /\ pc[c] = "check" /\ Spare
  /\ IF Allowed(job[c])
     THEN /\ job' = [job EXCEPT ![c].linked = job[c].to \in linked]
          /\ Goto(c, IF job[c].kind = "review" /\ job[c].st # "08" THEN "same" ELSE "begin")
          /\ UNCHANGED wr
     ELSE Return(c)
  /\ UNCHANGED <<db, asked>>

(* LoadRegisterStudentStatusByIds: students whose status is changed together  *)
(* are alike.  A review asks before its transaction, a move within it.        *)
Same(c) ==
  /\ pc[c] \in {"same", "alike"} /\ Spare
  /\ LET found == {row[<<job[c].plan, s>>] : s \in job[c].ss} \ {NoRow}
     IN  IF Cardinality(found) = 1
         THEN Goto(c, IF pc[c] = "same" THEN "begin" ELSE "leave") /\ UNCHANGED <<wr, job>>
         ELSE Return(c)
  /\ UNCHANGED <<db, asked>>

Begin(c) ==
  /\ pc[c] = "begin" /\ Spare
  /\ Goto(c, CASE job[c].kind \in {"register", "move"} -> "read"
               [] job[c].kind = "practice" -> "others"
               [] OTHER -> "write")
  /\ UNCHANGED <<db, wr, job, asked>>

-----------------------------------------------------------------------------
(* Reads in the transaction. *)

(* MoveStudent: the rows to copy; strings.Repeat panics on none, and the      *)
(* deferred function commits what is empty.  StudentRegister: the plan.       *)
Read(c) ==
  /\ pc[c] = "read"
  /\ LET j == job[c]
         seen == [s \in Student |-> IF s \in j.ss THEN row[<<j.plan, s>>] ELSE NoRow]
     IN  IF j.kind = "move"
         THEN /\ job' = [job EXCEPT ![c].seen = seen]
              /\ Goto(c, IF \E s \in Student : seen[s] # NoRow THEN "write" ELSE "commit")
              /\ UNCHANGED wr
         ELSE IF status[j.plan] = "00" THEN Goto(c, "own") /\ UNCHANGED <<wr, job>> ELSE Return(c)
  /\ UNCHANGED <<db, asked>>

(* StudentRegister counts the places for a new registration and for one that *)
(* was only begun, but not for a student who comes back.                     *)
Counted(j) == /\ j.st = "02"
              /\ \A s \in j.ss : row[<<j.plan, s>>] \in {NoRow, "00"}

Own(c) ==
  /\ pc[c] = "own"
  /\ Goto(c, IF Counted(job[c]) THEN "count" ELSE "write")
  /\ UNCHANGED <<db, wr, job, asked>>

(* LoadRegisterById, on a second connection. *)
Count(c) ==
  /\ pc[c] = "count" /\ Spare
  /\ IF Fits(job[c].plan, Cardinality(job[c].ss))
     THEN Goto(c, "write") /\ UNCHANGED <<wr, job>>
     ELSE Return(c)
  /\ UNCHANGED <<db, asked>>

-----------------------------------------------------------------------------
(* Writes in the transaction. *)

(* Variant: the upsert has no WHERE. *)
Upserted_Always(r, st) == st

(* ON CONFLICT DO UPDATE ... WHERE status IS DISTINCT FROM '04' *)
Upserted(r, st) == IF row[r] = "04" THEN "04" ELSE st

(* The rows the statement writes, and to what. *)
Named(c) == {<<job[c].to, s>> : s \in job[c].ss}

Target(c) ==
  CASE job[c].kind = "move" -> {r \in Named(c) : job[c].seen[r[2]] # NoRow}
    [] job[c].kind = "review" -> {r \in Named(c) : row[r] # NoRow}
    [] job[c].kind = "void" -> {r \in Rows : r[1] = job[c].plan /\ row[r] # NoRow}
    [] OTHER -> Named(c)

Value(c, r) ==
  CASE job[c].kind = "move" -> Upserted(r, job[c].seen[r[2]])
    [] job[c].kind \in {"register", "import"} -> Upserted(r, job[c].st)
    [] OTHER -> job[c].st

AfterWrite(j) ==
  CASE j.kind = "register" -> "commit"
    [] j.kind = "import" -> "load"
    [] j.kind = "void" -> "clear"
    [] j.kind = "move" -> IF j.linked THEN "roster" ELSE "load"
    [] j.kind = "review" /\ j.linked /\ j.st = "04" -> "roster"
    [] j.kind = "review" /\ j.linked /\ j.st = "06" -> "others"
    [] OTHER -> "commit"

Write(c) ==
  /\ pc[c] = "write" /\ Unlocked(c, Target(c))
  /\ wr' = [wr EXCEPT ![c] = [r \in Rows |-> IF r \in Target(c) THEN Value(c, r) ELSE @[r]]]
  /\ Goto(c, AfterWrite(job[c]))
  /\ UNCHANGED <<db, job, asked>>

(* Through the pool, inside the transaction: an import asks for the practices, *)
(* a move for the status of the plan the students leave and, unless they are   *)
(* marked as moved, for their own (OperateRegisterStudentStatus), a void for   *)
(* the plan whose timers it cancels.                                           *)
Load(c) ==
  /\ pc[c] = "load" /\ Spare
  /\ LET p == job[c].plan
     IN  CASE job[c].kind = "import" ->
                Goto(c, IF p \in linked THEN "roster" ELSE "commit") /\ UNCHANGED <<wr, job>>
           [] job[c].kind = "void" -> Goto(c, "commit") /\ UNCHANGED <<wr, job>>
           [] OTHER -> IF status[p] = "08" THEN Return(c)
                       ELSE /\ Goto(c, IF job[c].st = "08" THEN "leave" ELSE "alike")
                            /\ UNCHANGED <<wr, job>>
  /\ UNCHANGED <<db, asked>>

(* Variant: the source rows are marked by a transaction of their own, as a    *)
(* review without the tx argument does.                                       *)
Leave_Apart(c) ==
  LET gone == {<<job[c].plan, s>> : s \in job[c].ss}
  IN  /\ pc[c] = "leave" /\ Unlocked(c, gone)
      /\ row' = [r \in Rows |-> IF r \in gone /\ row[r] # NoRow THEN job[c].st ELSE row[r]]
      /\ Goto(c, "clear")
      /\ UNCHANGED <<status, linked, roster, wr, job, asked>>

(* The rows in the plan they leave get the request's status. *)
Leave(c) ==
  LET gone == {r \in {<<job[c].plan, s>> : s \in job[c].ss} : row[r] # NoRow}
  IN  /\ pc[c] = "leave" /\ Unlocked(c, gone)
      /\ wr' = [wr EXCEPT ![c] = [r \in Rows |-> IF r \in gone THEN job[c].st ELSE @[r]]]
      /\ Goto(c, "clear")
      /\ UNCHANGED <<db, job, asked>>

-----------------------------------------------------------------------------
(* The practice's roster. *)

(* What the list is to be: a rejection keeps the other students, a practice   *)
(* tied to the plan gets the students of the plan.                            *)
Others(c) ==
  /\ pc[c] = "others"
  /\ LET p == job[c].plan
     IN  job' = [job EXCEPT ![c].roll =
           IF job[c].kind = "review"
           THEN roster[p] \ job[c].ss
           ELSE {s \in Student : row[<<p, s>>] \notin {NoRow, "00", "08"}}]
  /\ Goto(c, "roster")
  /\ UNCHANGED <<db, wr, asked>>

(* UpsertPracticeStudentV2: the roster becomes the list. *)
Roster(c) ==
  /\ pc[c] = "roster"
  /\ roster' = [roster EXCEPT ![job[c].to] = job[c].roll]
  /\ Goto(c, IF job[c].kind = "move" THEN "load" ELSE "commit")
  /\ UNCHANGED <<status, row, linked, wr, job, asked>>

(* DeleteRegisterPracticeStudent, of the plan that is left or voided. *)
Clear(c) ==
  /\ pc[c] = "clear"
  /\ roster' = [roster EXCEPT ![job[c].plan] = {}]
  /\ Goto(c, IF job[c].kind = "void" THEN "load" ELSE "commit")
  /\ UNCHANGED <<status, row, linked, wr, job, asked>>

-----------------------------------------------------------------------------
(* The end of the transaction. *)

Commit(c) ==
  /\ pc[c] = "commit"
  /\ row' = [r \in Rows |-> IF wr[c][r] = Keep THEN row[r] ELSE wr[c][r]]
  /\ status' = IF job[c].kind = "void" THEN [status EXCEPT ![job[c].plan] = "08"] ELSE status
  /\ linked' = CASE job[c].kind = "practice" -> linked \cup {job[c].plan}
                 [] job[c].kind = "void" \/ (job[c].kind = "move" /\ wr[c] # Nothing) ->
                      linked \ {job[c].plan}
                 [] OTHER -> linked
  /\ Return(c)
  /\ UNCHANGED <<roster, asked>>

(* A statement fails, or the client is gone: the transaction is rolled back,  *)
(* a roster replaced by then stays.                                           *)
Fail(c) == pc[c] # "idle" /\ Return(c) /\ UNCHANGED <<db, asked>>

(* The rows c waits for. *)
Wanted(c) == CASE pc[c] = "write" -> Target(c)
               [] pc[c] = "leave" -> {r \in Rows : r[1] = job[c].plan /\ r[2] \in job[c].ss}
               [] OTHER -> {}

Waits(c, d) == c # d /\ \E r \in Wanted(c) : wr[d][r] # Keep

(* The server aborts a transaction of a cycle of waits: moves in opposite      *)
(* directions lock the target before the source.                               *)
Deadlocked(c) == \E S \in SUBSET Caller : c \in S /\ \A d \in S : \E e \in S : Waits(d, e)

Abort(c) == Deadlocked(c) /\ Return(c) /\ UNCHANGED <<db, asked>>

(* handleRegisterEndEvent. *)
End(p) == /\ status[p] = "00"
          /\ status' = [status EXCEPT ![p] = "04"]
          /\ UNCHANGED <<row, linked, roster, wr, pc, job, asked>>

AskAny(c) == \/ AskRegister(c) \/ AskImport(c) \/ AskReview(c)
             \/ AskMove(c) \/ AskVoid(c) \/ AskPractice(c)

Step(c) == \/ Check(c) \/ Same(c) \/ Begin(c) \/ Read(c) \/ Own(c) \/ Count(c) \/ Write(c)
           \/ Load(c) \/ Leave(c) \/ Others(c) \/ Roster(c) \/ Clear(c) \/ Commit(c) \/ Abort(c)

Next == \/ \E c \in Caller : AskAny(c) \/ Step(c) \/ Fail(c)
        \/ \E p \in Ending : End(p)

Spec == Init /\ [][Next]_vars

(* Every request's next statement is run once it can be. *)
FairSpec == Spec /\ \A c \in Caller : WF_vars(Step(c))

-----------------------------------------------------------------------------
(* Properties. *)

(* Every variable keeps its type. *)
TypeOK ==
  /\ status \in [Plan -> PlanStatus]
  /\ row \in [Rows -> RowStatus]
  /\ linked \subseteq Plan
  /\ roster \in [Plan -> SUBSET Student]
  /\ wr \in [Caller -> [Rows -> RowStatus \cup {Keep}]]
  /\ pc \in [Caller -> Label]
  /\ job \in [Caller -> Jobs]
  /\ asked \in 0..MaxRequests

Ends(c) == pc[c] = "commit" /\ pc'[c] = "idle"

(* An approval is taken back by a review, by moving the student or by voiding *)
(* the plan, never by the student's own late request, an import or a move     *)
(* into the plan that read the row before it was approved.                    *)
ApprovedKept ==
  [][\A p \in Plan, s \in Student :
       row[<<p, s>>] = "04" /\ row'[<<p, s>>] # "04" =>
         \E c \in Caller : /\ Ends(c) /\ job[c].plan = p
                           /\ job[c].kind \in {"review", "move", "void"}]_vars

(* A student who leaves a plan for another one keeps the place: when the row   *)
(* turns "moved" the row in the other plan is, in the same commit, what this   *)
(* one was when the move read it, or approved, whatever else runs.  A row that *)
(* the request marks without moving anything is not meant: one that was made   *)
(* after the move had looked for it, a move of a plan onto itself, and the     *)
(* status "moved" in a review or a registration.                               *)
Marked(j, s) ==
  \/ j.kind \in {"review", "register"} /\ j.st = "08" /\ s \in j.ss
  \/ j.kind = "move" /\ (j.to = j.plan \/ j.seen[s] = NoRow)

MovedKeepsPlace ==
  [][\A p \in Plan, s \in Student :
       row[<<p, s>>] # "08" /\ row'[<<p, s>>] = "08" =>
         \E c \in Caller :
           /\ Ends(c) /\ p \in {job[c].plan, job[c].to}
           /\ \/ Marked(job[c], s)
              \/ job[c].kind = "move" /\ row'[<<job[c].to, s>>] \in {"04", job[c].seen[s]}]_vars

(* Every request returns: lock waits end, deadlocks are resolved, and a       *)
(* transaction gets its second connection as long as there are more           *)
(* connections than requests.                                                 *)
RequestsReturn == \A c \in Caller : pc[c] # "idle" ~> pc[c] = "idle"
=============================================================================
