--------------------------- MODULE RegistrationPlan ---------------------------
(***************************************************************************)
(* One registration plan (serve/registration): its row of t_register_plan, *)
(* the HTTP handlers that edit, release, void and delete it, and the two   *)
(* timers that end the registration and the review.                        *)
(*                                                                         *)
(* Statements run at READ COMMITTED, as in ExamLifecycle: an UPDATE whose  *)
(* WHERE holds of the committed row waits for the row lock and looks at    *)
(* the row again, one whose WHERE does not hold skips it at once.  A timer *)
(* handler is one such UPDATE in a transaction of its own.                 *)
(*                                                                         *)
(* This timer manager is not the one of exam_service: its queue is a       *)
(* channel of events that are not merged, and a callback sends its event   *)
(* before it takes the mutex to remove its key from the map: what it       *)
(* removes may be a timer set in between, which runs on unseen.            *)
(***************************************************************************)
EXTENDS Naturals, FiniteSets

CONSTANTS
  Caller,       \* HTTP clients, one request at a time each
  Worker,       \* worker goroutines of the RegistrationTimerManager
  Kinds,        \* what requests ask for: "edit", "release", "void", "delete"
  Deadlines,    \* <<end_time, review_end_time>> a plan may be given
  MaxTime,      \* bound on the clock
  MaxRequests,  \* bound on requests
  MaxCrash      \* bound on restarts of the service

ASSUME PlanAssumption ==
  /\ Caller \cap Worker = {}
  /\ MaxTime \in Nat \ {0} /\ MaxRequests \in Nat /\ MaxCrash \in Nat
  /\ Deadlines \subseteq (1..MaxTime) \X (1..MaxTime)
  /\ Kinds \subseteq {"edit", "release", "void", "delete"}

VARIABLES
  plan,     \* the committed row: status, end_time, review_end_time
  now,      \* the clock
  armed,    \* Key -> the time its timer in the map is set for, Fired or Never
  unseen,   \* Key -> the times of running timers that are not in the map
  removing, \* Key -> callbacks that have sent and have not removed the key yet
  queue,    \* Key -> events in the channel
  wr,       \* Caller -> the row its open transaction wrote, or Keep
  pc,       \* Thread -> the next statement
  job,      \* Thread -> what it does and the times it goes by
  asked,    \* requests so far
  crashes   \* restarts so far

vars == <<plan, now, armed, unseen, removing, queue, wr, pc, job, asked, crashes>>

timing == <<armed, unseen, removing, queue>>
frame  == <<now, asked, crashes>>

Thread == Caller \cup Worker
Time   == 0..MaxTime
Never  == MaxTime + 1
Fired  == MaxTime + 2
Key    == {"end", "review"}   \* register_end, register_review_end
None   == "none"

(* 00 released, 02 unpublished, 04 ended, 06 review over, 08 voided, 10       *)
(* deleted.  Nothing gives a plan the status 12 (cancelled).                  *)
Status == {"00", "02", "04", "06", "08", "10"}
Row    == [st : Status, end : Time, rev : Time]
Label  == {"idle", "check", "write", "query", "set", "cancel", "commit", "handle"}
Jobs   == [kind : {None, "edit", "release", "void", "delete"} \cup Key, end : Time, rev : Time]
NoJob  == [end |-> 0, rev |-> 0, kind |-> None]
Keep   == [st |-> None, end |-> 0, rev |-> 0]

Gone == {"08", "10"}

Goto(p, l) == pc' = [pc EXCEPT ![p] = l]

Free == \A c \in Caller : wr[c] = Keep

Done(p) == /\ pc' = [pc EXCEPT ![p] = "idle"]
           /\ job' = [job EXCEPT ![p] = NoJob]

-----------------------------------------------------------------------------

(* AddRegister: an unpublished plan, without timers. *)
Init ==
  /\ \E d \in Deadlines : plan = [st |-> "02", end |-> d[1], rev |-> d[2]]
  /\ now = 0
  /\ armed = [k \in Key |-> Never]
  /\ unseen = [k \in Key |-> {}]
  /\ removing = [k \in Key |-> 0]
  /\ queue = [k \in Key |-> 0]
  /\ wr = [c \in Caller |-> Keep]
  /\ pc = [p \in Thread |-> "idle"]
  /\ job = [p \in Thread |-> NoJob]
  /\ asked = 0
  /\ crashes = 0

-----------------------------------------------------------------------------
(* The timer manager. *)

(* SetTimer for both keys: the timer in the map is replaced; one that is     *)
(* overdue sends its event at once.                                          *)
SetTimers(at) ==
  /\ armed' = [k \in Key |-> IF at[k] > now THEN at[k] ELSE Never]
  /\ queue' = [k \in Key |-> IF at[k] > now THEN queue[k] ELSE queue[k] + 1]
  /\ UNCHANGED <<unseen, removing>>

Deadline(r) == [k \in Key |-> IF k = "end" THEN r.end ELSE r.rev]

(* CancelRegisterTimers: events in the channel are not called back. *)
CancelTimers == /\ armed' = [k \in Key |-> Never]
                /\ UNCHANGED <<unseen, removing, queue>>

(* The first half of a callback: the event. *)
Fire(k) ==
  /\ \/ armed[k] <= now /\ armed' = [armed EXCEPT ![k] = Fired] /\ UNCHANGED unseen
     \/ \E t \in unseen[k] : /\ t <= now
                            /\ unseen' = [unseen EXCEPT ![k] = @ \ {t}]
                            /\ UNCHANGED armed
  /\ queue' = [queue EXCEPT ![k] = @ + 1]
  /\ removing' = [removing EXCEPT ![k] = @ + 1]
  /\ UNCHANGED <<plan, frame, wr, pc, job>>

(* The second half: the key, whatever timer it leads to now. *)
Remove(k) ==
  /\ removing[k] > 0
  /\ removing' = [removing EXCEPT ![k] = @ - 1]
  /\ armed' = [armed EXCEPT ![k] = Never]
  /\ unseen' = [unseen EXCEPT ![k] = @ \cup ({armed[k]} \cap Time)]
  /\ UNCHANGED <<plan, frame, queue, wr, pc, job>>

Tick == /\ now < MaxTime
        /\ now' = now + 1
        /\ UNCHANGED <<plan, timing, wr, pc, job, asked, crashes>>

(* Variant: a plan whose registration has ended gets no timers. *)
Restored_Released == plan.st \in {"00", "02"}

(* InitializeRegisterTimers: plans that are unpublished, released or ended. *)
Restored == plan.st \in {"00", "02", "04"}

(* A restart loses timers, channel and open transactions. *)
Crash ==
  /\ crashes < MaxCrash
  /\ crashes' = crashes + 1
  /\ LET at == Deadline(plan)
     IN  /\ armed' = [k \in Key |-> IF Restored /\ at[k] > now THEN at[k] ELSE Never]
         /\ queue' = [k \in Key |-> IF Restored /\ at[k] <= now THEN 1 ELSE 0]
  /\ unseen' = [k \in Key |-> {}]
  /\ removing' = [k \in Key |-> 0]
  /\ wr' = [c \in Caller |-> Keep]
  /\ pc' = [p \in Thread |-> "idle"]
  /\ job' = [p \in Thread |-> NoJob]
  /\ UNCHANGED <<plan, now, asked>>

-----------------------------------------------------------------------------
(* Requests.  What decides whether one is allowed is read through the pool   *)
(* before its transaction begins; the UPDATE has no status in its WHERE.     *)

(* Variant: a plan in any status may be operated on. *)
MayOperate_Any(kind) == TRUE

MayOperate(kind) ==
  IF kind = "edit" THEN plan.st \in {"00", "02"}   \* UpsertRegister
                   ELSE plan.st \notin Gone        \* OperateRegisterStatus

Request(c, kind) ==
  /\ pc[c] = "idle" /\ kind \in Kinds
  /\ asked < MaxRequests
  /\ MayOperate(kind)
  /\ asked' = asked + 1
  /\ \E d \in IF kind = "edit" THEN Deadlines ELSE {<<0, 0>>} :
       job' = [job EXCEPT ![c] = [end |-> d[1], rev |-> d[2], kind |-> kind]]
  /\ Goto(c, IF kind = "delete" THEN "check" ELSE "write")
  /\ UNCHANGED <<plan, now, timing, wr, crashes>>

(* A plan with students is not deleted (EXISTS, in the transaction); whether *)
(* there are any is Enrollment's business.                                   *)
DeleteCheck(c) ==
  /\ pc[c] = "check"
  /\ Done(c) \/ (Goto(c, "write") /\ UNCHANGED job)
  /\ UNCHANGED <<plan, frame, timing, wr>>

Written(c) ==
  CASE job[c].kind = "edit" -> [plan EXCEPT !.end = job[c].end, !.rev = job[c].rev]
    [] job[c].kind = "release" -> [plan EXCEPT !.st = "00"]
    [] job[c].kind = "void" -> [plan EXCEPT !.st = "08"]
    [] OTHER -> [plan EXCEPT !.st = "10"]

(* The UPDATE of the row, once no other transaction holds its lock. *)
Write(c) ==
  /\ pc[c] = "write" /\ Free
  /\ wr' = [wr EXCEPT ![c] = Written(c)]
  /\ Goto(c, CASE job[c].kind = "edit" -> "commit"
               [] job[c].kind = "release" -> "query"
               [] OTHER -> "cancel")
  /\ UNCHANGED <<plan, frame, timing, job>>

(* SetRegisterTimers reads the times through the pool: what is committed.    *)
(* An edit has committed by then, a release has not.                         *)
Query(c) ==
  /\ pc[c] = "query"
  /\ IF plan.st \in Gone
     THEN IF wr[c] = Keep THEN Done(c) ELSE Goto(c, "commit") /\ UNCHANGED job
     ELSE /\ job' = [job EXCEPT ![c] = [end |-> plan.end, rev |-> plan.rev, kind |-> @.kind]]
          /\ Goto(c, "set")
  /\ UNCHANGED <<plan, frame, timing, wr>>

Set(c) ==
  /\ pc[c] = "set"
  /\ SetTimers(Deadline(job[c]))
  /\ IF wr[c] = Keep THEN Done(c) ELSE Goto(c, "commit") /\ UNCHANGED job
  /\ UNCHANGED <<plan, frame, wr>>

(* CancelRegisterTimers looks for the plan through the pool too. *)
Cancel(c) ==
  /\ pc[c] = "cancel"
  /\ IF plan.st \in Gone THEN UNCHANGED timing ELSE CancelTimers
  /\ Goto(c, "commit")
  /\ UNCHANGED <<plan, frame, wr, job>>

(* Variant: an edit does not set the timers again. *)
Commit_Unarmed(c) ==
  /\ pc[c] = "commit"
  /\ plan' = wr[c]
  /\ wr' = [wr EXCEPT ![c] = Keep]
  /\ Done(c)
  /\ UNCHANGED <<frame, timing>>

Commit(c) ==
  /\ pc[c] = "commit"
  /\ plan' = wr[c]
  /\ wr' = [wr EXCEPT ![c] = Keep]
  /\ IF job[c].kind = "edit" THEN Goto(c, "query") /\ UNCHANGED job ELSE Done(c)
  /\ UNCHANGED <<frame, timing>>

-----------------------------------------------------------------------------
(* Workers: handleRegisterEndEvent and handleRegisterReviewEndEvent. *)

(* The time the handler compares with is taken before its UPDATE. *)
Take(w, k) ==
  /\ pc[w] = "idle" /\ queue[k] > 0
  /\ queue' = [queue EXCEPT ![k] = @ - 1]
  /\ job' = [job EXCEPT ![w] = [end |-> now, rev |-> now, kind |-> k]]
  /\ Goto(w, "handle")
  /\ UNCHANGED <<plan, frame, armed, unseen, removing, wr>>

Ends(w)    == plan.st \in {"00", "02"} /\ plan.end <= job[w].end
Reviews(w) == plan.st \in {"00", "04"} /\ plan.rev <= job[w].rev

HandleEnd(w) ==
  /\ pc[w] = "handle" /\ job[w].kind = "end"
  /\ Ends(w) => Free
  /\ plan' = IF Ends(w) THEN [plan EXCEPT !.st = "04"] ELSE plan
  /\ Done(w)
  /\ UNCHANGED <<frame, timing, wr>>

HandleReviewEnd(w) ==
  /\ pc[w] = "handle" /\ job[w].kind = "review"
  /\ Reviews(w) => Free
  /\ plan' = IF Reviews(w) THEN [plan EXCEPT !.st = "06"] ELSE plan
  /\ Done(w)
  /\ UNCHANGED <<frame, timing, wr>>

-----------------------------------------------------------------------------

CallerStep(c) == \/ DeleteCheck(c) \/ Write(c) \/ Query(c) \/ Set(c) \/ Cancel(c) \/ Commit(c)
WorkerStep(w) == HandleEnd(w) \/ HandleReviewEnd(w)

Next == \/ \E c \in Caller : CallerStep(c) \/ \E kind \in Kinds : Request(c, kind)
        \/ \E w \in Worker : WorkerStep(w) \/ \E k \in Key : Take(w, k)
        \/ \E k \in Key : Fire(k) \/ Remove(k)
        \/ Tick \/ Crash

Spec == Init /\ [][Next]_vars

(* Time passes, due timers fire, events are taken, and started handlers      *)
(* proceed, lock waits included.  Nobody has to ask for anything.            *)
Fairness == /\ WF_vars(Tick)
            /\ \A k \in Key : WF_vars(Fire(k)) /\ WF_vars(\E w \in Worker : Take(w, k))
            /\ \A c \in Caller : WF_vars(CallerStep(c))
            /\ \A w \in Worker : WF_vars(WorkerStep(w))

FairSpec == Spec /\ Fairness

-----------------------------------------------------------------------------
(* Properties. *)

(* Every variable keeps its type; an open transaction is the caller's own.   *)
TypeOK ==
  /\ plan \in Row
  /\ now \in Time
  /\ armed \in [Key -> 0..Fired]
  /\ unseen \in [Key -> SUBSET Time]
  /\ removing \in [Key -> Nat]
  /\ queue \in [Key -> Nat]
  /\ wr \in [Caller -> Row \cup {Keep}]
  /\ pc \in [Thread -> Label]
  /\ job \in [Thread -> Jobs]
  /\ asked \in 0..MaxRequests
  /\ crashes \in 0..MaxCrash

(* "报名计划状态为作废，无法进行操作" (OperateRegisterStatus): a plan that was    *)
(* voided or deleted stays so, although the events of its timers may still be  *)
(* on their way and no UPDATE of a request looks at the status.                *)
VoidIsFinal == [][plan.st \in Gone => plan'.st = plan.st]_vars

(* A request that has written the new times or cancelled the timers and has   *)
(* not finished yet.                                                           *)
Rearming(c) == \/ job[c].kind = "edit" /\ pc[c] \in {"query", "set"}
               \/ job[c].kind \in {"void", "delete"} /\ pc[c] = "commit"

(* A released plan has its timer set for the end it announces, whatever it    *)
(* was edited to before, and one whose registration has ended the timer that   *)
(* closes the review: nothing else ever ends them.                             *)
Scheduled ==
  (\A c \in Caller : ~Rearming(c)) =>
     /\ plan.st = "00" /\ now < plan.end => plan.end \in unseen["end"] \cup {armed["end"]}
     /\ plan.st \in {"00", "04"} /\ now < plan.rev => plan.rev \in unseen["review"] \cup {armed["review"]}

(* A plan that is released before its end is closed in time, and the review    *)
(* of one that has ended before the end of its review too, through restarts    *)
(* and edits.                                                                   *)
Closes ==
  /\ (plan.st = "00" /\ now < plan.end) ~> (plan.st # "00")
  /\ (plan.st = "04" /\ now < plan.rev) ~> (plan.st # "04")
=============================================================================
