-------------------------------- MODULE EditLock --------------------------------
(***************************************************************************)
(* The edit locks in Redis (cmn/redis-lock.go) and the requests that take  *)
(* them: tabs that hold an editing lease on an exam, a paper or a question, *)
(* and handlers that delete, publish or void several exams, or save a      *)
(* question, under short leases of their own.                              *)
(*                                                                         *)
(* A lock is a key with its user and an expiry.  The three scripts run     *)
(* atomically, so one step stands for each.  A user re-enters its own      *)
(* lock, which resets the expiry to that of the new lease.  Nothing tells  *)
(* a handler that its lease has run out.  A transaction is one step, its   *)
(* commit: the row lock of its UPDATE is held until then, and an UPDATE    *)
(* that waited re-evaluates its WHERE.                                     *)
(***************************************************************************)
EXTENDS Naturals

CONSTANTS
  Client,      \* browser tabs, one request or editing lease at a time each
  User,
  UserOf,      \* Client -> User
  Exam,
  Text,        \* papers and questions
  Kinds,       \* what clients do: "edit", "save", "delete", "publish", "void"
  EditLease,   \* the expiry of an editing lease: 5 or 30 minutes
  OpLease,     \* that of a request on exams: 5 seconds
  MaxAsk       \* bound on requests

NoUser == "nobody"

Key == Exam \union Text

OnExams == {"delete", "publish", "void"}

ASSUME LockAssumption ==
  /\ UserOf \in [Client -> User] /\ NoUser \notin User
  /\ Exam \intersect Text = {}
  /\ Kinds \subseteq OnExams \union {"edit", "save"}
  /\ EditLease \in Nat \ {0} /\ OpLease \in 1..EditLease
  /\ MaxAsk \in Nat

VARIABLES
  holder,  \* Key -> the user the lock names
  ttl,     \* Key -> time until it expires
  status,  \* Exam -> status of t_exam_info
  stamp,   \* Exam -> its update_time
  writes,  \* transactions that changed an exam, the clock of update_time
  pc,      \* Client -> what it is about to do
  job,     \* Client -> the request: kind, keys, keys still to lock or
           \* release, and the update times it read
  left,    \* Client -> Key -> how long the lease it was granted still runs
  asked,   \* requests so far
  late     \* history: a request wrote after one of its leases had run out

vars == <<holder, ttl, status, stamp, writes, pc, job, left, asked, late>>

locks == <<holder, ttl>>
exams == <<status, stamp, writes, late>>

Nothing == [k \in Key |-> 0]

NoJob == [kind |-> "none", keys |-> {}, rest |-> {}, seen |-> {}]

Init ==
  /\ holder = [k \in Key |-> NoUser]
  /\ ttl = Nothing
  /\ status = [e \in Exam |-> "00"]
  /\ stamp = [e \in Exam |-> 0]
  /\ writes = 0
  /\ pc = [c \in Client |-> "idle"]
  /\ job = [c \in Client |-> NoJob]
  /\ left = [c \in Client |-> Nothing]
  /\ asked = 0 /\ late = FALSE

-----------------------------------------------------------------------------
(* The scripts.  luaLock grants a free lock and the caller's own; luaRefresh *)
(* and luaUnlock act on the caller's own only.                               *)

Grantable(c, k) == holder[k] \in {NoUser, UserOf[c]}

(* Variant: the script sets the key and no expiry. *)
Expire_Forgot(c, k, n) == IF holder[k] = NoUser THEN 0 ELSE n

Expire(c, k, n) == n

Grant(c, k, n) ==
  /\ holder' = [holder EXCEPT ![k] = UserOf[c]]
  /\ ttl' = [ttl EXCEPT ![k] = Expire(c, k, n)]
  /\ left' = [left EXCEPT ![c] = [@ EXCEPT ![k] = n]]

Own(c, k) == holder[k] = UserOf[c]

(* Variant: DEL whoever holds the lock. *)
Freed_Any(c, k) == holder[k] # NoUser

Freed(c, k) == Own(c, k)

Unlock(c, k) ==
  /\ holder' = IF Freed(c, k) THEN [holder EXCEPT ![k] = NoUser] ELSE holder
  /\ ttl' = IF Freed(c, k) THEN [ttl EXCEPT ![k] = 0] ELSE ttl

Forget(c) == left' = [left EXCEPT ![c] = Nothing]

-----------------------------------------------------------------------------
(* An editing lease: GET, PUT and DELETE of examLock, PaperLock and          *)
(* QuestionLock, and a tab that is closed without the DELETE.                *)

Goto(c, l) == pc' = [pc EXCEPT ![c] = l]

Open(c) ==
  /\ pc[c] = "idle" /\ "edit" \in Kinds /\ asked < MaxAsk
  /\ \E k \in Key :
       /\ Grantable(c, k)
       /\ Grant(c, k, EditLease)
       /\ job' = [job EXCEPT ![c] = [kind |-> "edit", keys |-> {k}, rest |-> {}, seen |-> {}]]
  /\ Goto(c, "edit")
  /\ asked' = asked + 1
  /\ UNCHANGED exams

Quit(c) ==
  /\ Forget(c)
  /\ Goto(c, "idle")
  /\ job' = [job EXCEPT ![c] = NoJob]

(* The refresh tells the tab whether it still has the lock. *)
Refresh(c) ==
  /\ pc[c] = "edit" /\ asked < MaxAsk
  /\ \E k \in job[c].keys :
       \/ Own(c, k) /\ Grant(c, k, EditLease) /\ UNCHANGED <<pc, job>>
       \/ ~Own(c, k) /\ Quit(c) /\ UNCHANGED locks
  /\ asked' = asked + 1
  /\ UNCHANGED exams

Close(c) ==
  /\ pc[c] = "edit"
  /\ \/ \E k \in job[c].keys : Unlock(c, k)
     \/ UNCHANGED locks
  /\ Quit(c)
  /\ UNCHANGED <<exams, asked>>

-----------------------------------------------------------------------------
(* DELETE exam, PUT examStatus and PUT question. *)

Lease(kind) == IF kind \in OnExams THEN OpLease ELSE EditLease

Begin(c) ==
  /\ pc[c] = "idle" /\ asked < MaxAsk
  /\ \E kind \in Kinds \ {"edit"}, keys \in SUBSET Key \ {{}} :
       /\ IF kind = "save" THEN \E k \in Text : keys = {k} ELSE keys \subseteq Exam
       /\ job' = [job EXCEPT ![c] = [kind |-> kind, keys |-> keys, rest |-> keys, seen |-> {}]]
  /\ Goto(c, "lock")
  /\ asked' = asked + 1
  /\ UNCHANGED <<locks, exams, left>>

Rest(c, keys) == job' = [job EXCEPT ![c] = [@ EXCEPT !.rest = keys]]

Locked(c) ==
  CASE job[c].kind = "delete" -> "check"
    [] job[c].kind = "save" -> "write"
    [] OTHER -> "exist"

(* The locks are taken one by one, in the order of the list. *)
Lock(c) ==
  /\ pc[c] = "lock"
  /\ \E k \in job[c].rest :
       /\ Grantable(c, k)
       /\ Grant(c, k, Lease(job[c].kind))
       /\ IF job[c].rest = {k}
          THEN Goto(c, Locked(c)) /\ Rest(c, job[c].keys)
          ELSE UNCHANGED pc /\ Rest(c, job[c].rest \ {k})
  /\ UNCHANGED <<exams, asked>>

(* A refusal returns before the release is deferred: the locks taken so far  *)
(* stay until they expire.                                                   *)
Refused(c) ==
  /\ pc[c] = "lock"
  /\ \E k \in job[c].rest : ~Grantable(c, k)
  /\ Quit(c)
  /\ UNCHANGED <<locks, exams, asked>>

(* So does the check that the exams exist, in PUT examStatus. *)
Exist(c) ==
  /\ pc[c] = "exist"
  /\ IF \A e \in job[c].keys : status[e] # "12"
     THEN Goto(c, "stamp") /\ UNCHANGED <<job, left>>
     ELSE Quit(c)
  /\ UNCHANGED <<locks, exams, asked>>

(* The update times are read when the transaction has begun. *)
Stamp(c) ==
  /\ pc[c] = "stamp"
  /\ job' = [job EXCEPT ![c] = [@ EXCEPT !.seen = {stamp[e] : e \in job[c].keys}]]
  /\ Goto(c, "check")
  /\ UNCHANGED <<locks, exams, left, asked>>

From(kind) ==
  CASE kind = "delete" -> {"00", "12"}
    [] kind = "publish" -> {"00"}
    [] OTHER -> {"02", "10"}

(* The status check goes through the pool. *)
Check(c) ==
  /\ pc[c] = "check"
  /\ Goto(c, IF \A e \in job[c].keys : status[e] \in From(job[c].kind) THEN "write" ELSE "release")
  /\ UNCHANGED <<locks, exams, job, left, asked>>

To(kind) ==
  CASE kind = "delete" -> "12"
    [] kind = "publish" -> "02"
    [] OTHER -> "16"

(* Variant: no optimistic lock. *)
Matches_Any(c, e) == status[e] # "12"

(* The WHERE of the UPDATE.  That of updateExamStatus compares with any of   *)
(* the update times read, that of the deletion with none.                    *)
Matches(c, e) == status[e] # "12" /\ (job[c].kind # "delete" => stamp[e] \in job[c].seen)

Hit(c) == {e \in job[c].keys : Matches(c, e)}

(* updateExamStatus counts the rows; deleting a deleted exam is no error. *)
Enough(c) == job[c].kind # "delete" => Hit(c) = job[c].keys

Write(c) ==
  /\ pc[c] = "write" /\ job[c].kind \in OnExams
  /\ IF Enough(c)
     THEN /\ status' = [e \in Exam |-> IF e \in Hit(c) THEN To(job[c].kind) ELSE status[e]]
          /\ stamp' = [e \in Exam |-> IF e \in Hit(c) THEN writes + 1 ELSE stamp[e]]
          /\ writes' = writes + 1
          /\ late' = (late \/ \E e \in job[c].keys : left[c][e] = 0)
     ELSE UNCHANGED exams
  /\ Goto(c, "release")
  /\ UNCHANGED <<locks, job, left, asked>>

(* PUT question returns before its release when a check or statement fails. *)
Save(c) ==
  /\ pc[c] = "write" /\ job[c].kind = "save"
  /\ \/ Goto(c, "release") /\ UNCHANGED <<job, left>>
     \/ Quit(c)
  /\ UNCHANGED <<locks, exams, asked>>

(* The deferred release; a failure to reach Redis is only logged. *)
Release(c) ==
  /\ pc[c] = "release"
  /\ \E k \in job[c].rest :
       /\ Unlock(c, k) \/ UNCHANGED locks
       /\ IF job[c].rest = {k}
          THEN Quit(c)
          ELSE /\ Rest(c, job[c].rest \ {k})
               /\ left' = [left EXCEPT ![c] = [@ EXCEPT ![k] = 0]]
               /\ UNCHANGED pc
  /\ UNCHANGED <<exams, asked>>

(* A statement fails: before the release is deferred the handler returns. *)
Fail(c) ==
  /\ pc[c] \in {"lock", "exist", "stamp", "check", "write"} /\ job[c].kind \in OnExams
  /\ IF pc[c] \in {"lock", "exist"}
     THEN Quit(c)
     ELSE Goto(c, "release") /\ UNCHANGED <<job, left>>
  /\ UNCHANGED <<locks, exams, asked>>

-----------------------------------------------------------------------------
(* Time, and a restart of the service: Redis keeps the locks. *)

Less(n) == IF n = 0 THEN 0 ELSE n - 1

Tick ==
  /\ \E k \in Key : ttl[k] > 0 \/ \E c \in Client : left[c][k] > 0
  /\ holder' = [k \in Key |-> IF ttl[k] = 1 THEN NoUser ELSE holder[k]]
  /\ ttl' = [k \in Key |-> Less(ttl[k])]
  /\ left' = [c \in Client |-> [k \in Key |-> Less(left[c][k])]]
  /\ UNCHANGED <<exams, pc, job, asked>>

InRequest(c) == pc[c] \notin {"idle", "edit"}

Crash ==
  /\ \E c \in Client : InRequest(c)
  /\ pc' = [c \in Client |-> IF InRequest(c) THEN "idle" ELSE pc[c]]
  /\ job' = [c \in Client |-> IF InRequest(c) THEN NoJob ELSE job[c]]
  /\ left' = [c \in Client |-> IF InRequest(c) THEN Nothing ELSE left[c]]
  /\ UNCHANGED <<locks, exams, asked>>

Step(c) ==
  \/ Open(c) \/ Refresh(c) \/ Close(c)
  \/ Begin(c) \/ Lock(c) \/ Refused(c) \/ Exist(c) \/ Stamp(c) \/ Check(c)
  \/ Write(c) \/ Save(c) \/ Release(c) \/ Fail(c)

Next == Tick \/ Crash \/ \E c \in Client : Step(c)

Spec == Init /\ [][Next]_vars

(* Redis expires keys whatever the service does. *)
FairSpec == Spec /\ WF_vars(Tick)

-----------------------------------------------------------------------------
(* Properties *)

Job == [kind : Kinds \union {"none"}, keys : SUBSET Key, rest : SUBSET Key, seen : SUBSET Nat]

(* A lock has a user exactly as long as it has time left: no key without an  *)
(* expiry and none without a value (luaLock sets both).                      *)
TypeOK ==
  /\ holder \in [Key -> User \union {NoUser}]
  /\ ttl \in [Key -> 0..EditLease]
  /\ \A k \in Key : ttl[k] = 0 <=> holder[k] = NoUser
  /\ status \in [Exam -> {"00", "02", "12", "16"}]
  /\ stamp \in [Exam -> Nat] /\ writes \in Nat
  /\ pc \in [Client -> {"idle", "edit", "lock", "exist", "stamp", "check", "write", "release"}]
  /\ job \in [Client -> Job]
  /\ \A c \in Client :
       /\ job[c].rest \subseteq job[c].keys
       /\ job[c].kind \in OnExams => job[c].keys \subseteq Exam
  /\ left \in [Client -> [Key -> 0..EditLease]]
  /\ asked \in 0..MaxAsk
  /\ late \in BOOLEAN

(* Every user has one tab. *)
OneTab == \A c, d \in Client : UserOf[c] = UserOf[d] => c = d

(* A client that was granted a lease still has the lock, for at least as     *)
(* long, however others' requests are refused, fail, are cut off by a        *)
(* restart or release what has lapsed: "若锁被其他用户持有，返回 false"         *)
(* (TryLock) and "只有当前持有者才能释放锁" (ReleaseLock).  A user's second     *)
(* tab may shorten or drop the lease of the first.                           *)
LeaseHolds ==
  OneTab => \A c \in Client, k \in Key :
              left[c][k] > 0 => Own(c, k) /\ ttl[k] >= left[c][k]

(* Requests on lists of exams change a status only in the order the code     *)
(* checks, though the check and the UPDATE are apart.  Publishing and        *)
(* voiding rely on update_time.  A deletion relies on the lock alone: an     *)
(* exam that is published meanwhile is deleted only if some request outlived *)
(* its lease, or by the same user from another tab: "只有未发布的考试才允许     *)
(* 删除" (DELETE exam) is as true as that.                                    *)
StatusLawful ==
  [][\A e \in Exam : status'[e] # status[e] =>
       \/ <<status[e], status'[e]>> \in {<<"00", "02">>, <<"00", "12">>, <<"02", "16">>}
       \/ status'[e] = "12" /\ (late' \/ ~OneTab)]_vars

(* Once requests stop, every lock comes free, those that nobody releases     *)
(* included: of a refused list, of a failed check, of a closed tab and of a  *)
(* service that was restarted.                                               *)
LockFreed == (\E k \in Key : holder[k] # NoUser) ~> (\A k \in Key : holder[k] = NoUser)
=============================================================================
