----------------------- MODULE RegistrationPlan_proofs -----------------------
(* Proofs about RegistrationPlan, for any deadlines, workers and bounds.  Type *)
(* correctness holds for any callers; that a voided plan stays voided and that *)
(* the timers match the plan is proved for one caller at a time, and is not    *)
(* so for two.                                                                 *)
EXTENDS RegistrationPlan, TLAPS

(* Who is about to cancel the timers or to commit has written the row. *)
Opened == \A c \in Caller : pc[c] \in {"cancel", "commit"} => wr[c] # Keep

PInv == TypeOK /\ Opened

(* What a caller at each statement is doing; that the times it goes by and     *)
(* writes are the plan's; and that nobody works on a plan that is voided or    *)
(* deleted.                                                                    *)
Working(c) == pc[c] \in {"check", "write", "query", "set"} \/ wr[c] # Keep

Course(c) ==
  /\ Working(c) => plan.st \notin Gone
  /\ pc[c] = "check" => job[c].kind = "delete"
  /\ pc[c] \in {"check", "write"} => wr[c] = Keep
  /\ pc[c] \in {"query", "set"} => job[c].kind = IF wr[c] = Keep THEN "edit" ELSE "release"
  /\ pc[c] = "cancel" => job[c].kind \in {"void", "delete"}
  /\ pc[c] = "set" => job[c].end = plan.end /\ job[c].rev = plan.rev
  /\ wr[c] # Keep => pc[c] \in {"query", "set", "cancel", "commit"}
  /\ wr[c] # Keep => IF job[c].kind = "edit" THEN wr[c].st = plan.st
                     ELSE wr[c].end = plan.end /\ wr[c].rev = plan.rev
  /\ wr[c] # Keep /\ job[c].kind \in {"void", "delete"} => wr[c].st \in Gone
  /\ pc[c] = "write" \/ wr[c] # Keep => job[c].kind \in {"edit", "release", "void", "delete"}

(* A timer runs for every deadline of the plan that is to come. *)
Runs(k, t) == now < t => t \in unseen[k] \cup {armed[k]}
Timers == \A k \in Key : Runs(k, Deadline(plan)[k])

(* Nobody has set a timer yet. *)
Untouched == /\ armed["end"] = Never /\ unseen["end"] = {} /\ queue["end"] = 0
             /\ \A w \in Worker : job[w].kind # "end"

(* An unpublished plan either has its timers or never had any, and a release   *)
(* commits with the timers set.                                                *)
Armed(c) ==
  /\ ~Rearming(c) /\ plan.st \in {"00", "04"} => Timers
  /\ ~Rearming(c) /\ plan.st = "02" => Timers \/ Untouched
  /\ pc[c] = "commit" /\ job[c].kind = "release" => Timers

(* The requests come one at a time. *)
OneCaller == \E c \in Caller : Caller = {c}

-----------------------------------------------------------------------------

LEMMA InitPInv == Init => PInv
  <1> SUFFICES ASSUME Init PROVE PInv
    OBVIOUS
  <1>1. plan \in Row
    <2>1. PICK d \in Deadlines : plan = [st |-> "02", end |-> d[1], rev |-> d[2]]
      BY DEF Init
    <2>2. d[1] \in Time /\ d[2] \in Time
      BY PlanAssumption DEF Time
    <2>3. QED
      BY <2>1, <2>2 DEF Row, Status
  <1>2. /\ now \in Time /\ asked \in 0..MaxRequests /\ crashes \in 0..MaxCrash
        /\ armed \in [Key -> 0..Fired] /\ unseen \in [Key -> SUBSET Time]
        /\ removing \in [Key -> Nat] /\ queue \in [Key -> Nat]
    BY PlanAssumption DEF Init, Time, Never, Fired
  <1>3. wr \in [Caller -> Row \cup {Keep}] /\ pc \in [Thread -> Label] /\ job \in [Thread -> Jobs]
    <2>1. NoJob \in Jobs /\ "idle" \in Label
      BY PlanAssumption DEF NoJob, Jobs, Time, Label
    <2>2. QED
      BY <2>1 DEF Init
  <1>4. Opened
    BY DEF Init, Opened, Thread
  <1>5. QED
    BY <1>1, <1>2, <1>3, <1>4 DEF PInv, TypeOK

LEMMA NextPInv == PInv /\ [Next]_vars => PInv'
  <1> SUFFICES ASSUME PInv, [Next]_vars PROVE PInv'
    OBVIOUS
  <1>t. /\ plan \in Row /\ plan.st \in Status /\ plan.end \in Time /\ plan.rev \in Time
        /\ now \in Nat /\ now <= MaxTime
        /\ armed \in [Key -> 0..Fired] /\ unseen \in [Key -> SUBSET Time]
        /\ removing \in [Key -> Nat] /\ queue \in [Key -> Nat]
        /\ wr \in [Caller -> Row \cup {Keep}] /\ pc \in [Thread -> Label] /\ job \in [Thread -> Jobs]
        /\ asked \in 0..MaxRequests /\ crashes \in 0..MaxCrash
    BY PlanAssumption DEF PInv, TypeOK, Row, Time
  <1>d. \A p \in Thread : /\ job[p].end \in Time /\ job[p].rev \in Time
                          /\ job[p].kind \in {None, "edit", "release", "void", "delete"} \cup Key
    BY <1>t DEF Jobs
  <1>o. Opened
    BY DEF PInv
  <1>n. NoJob \in Jobs
    BY PlanAssumption DEF NoJob, Jobs, Time
  <1> USE PlanAssumption DEF PInv, TypeOK, Opened, Time, Fired, Never, frame, timing, Goto, Thread
  <1>1. ASSUME NEW c \in Caller, CallerStep(c) PROVE PInv'
    <2>1. CASE DeleteCheck(c)
      BY <1>t, <1>o, <1>n, <2>1 DEF DeleteCheck, Done, Label
    <2>2. CASE Write(c)
      <3>1. Written(c) \in Row /\ Written(c) # Keep
        BY <1>t, <1>d DEF Written, Row, Status, Keep, None
      <3>2. QED
        BY <1>t, <1>o, <2>2, <3>1 DEF Write, Label
    <2>3. CASE Query(c)
      <3>1. [end |-> plan.end, rev |-> plan.rev, kind |-> job[c].kind] \in Jobs
        BY <1>t, <1>d DEF Jobs
      <3>2. QED
        BY <1>t, <1>o, <1>n, <2>3, <3>1 DEF Query, Done, Label
    <2>4. CASE Set(c)
      <3>1. \A k \in Key : Deadline(job[c])[k] \in 0..MaxTime
        BY <1>d DEF Deadline
      <3>2. armed' \in [Key -> 0..Fired] /\ queue' \in [Key -> Nat]
        BY <1>t, <2>4, <3>1 DEF Set, SetTimers
      <3>3. QED
        BY <1>t, <1>o, <1>n, <2>4, <3>2 DEF Set, SetTimers, Done, Label
    <2>5. CASE Cancel(c)
      BY <1>t, <1>o, <2>5 DEF Cancel, CancelTimers, Label
    <2>6. CASE Commit(c)
      <3>1. wr[c] \in Row
        BY <1>t, <1>o, <2>6 DEF Commit
      <3>2. QED
        BY <1>t, <1>o, <1>n, <2>6, <3>1 DEF Commit, Done, Label
    <2>7. QED
      BY <1>1, <2>1, <2>2, <2>3, <2>4, <2>5, <2>6 DEF CallerStep
  <1>2. ASSUME NEW c \in Caller, NEW kind \in Kinds, Request(c, kind) PROVE PInv'
    <2>1. PICK d \in IF kind = "edit" THEN Deadlines ELSE {<<0, 0>>} :
            job' = [job EXCEPT ![c] = [end |-> d[1], rev |-> d[2], kind |-> kind]]
      BY <1>2 DEF Request
    <2>2. d[1] \in Time /\ d[2] \in Time
      OBVIOUS
    <2>3. job' \in [Thread -> Jobs]
      BY <1>t, <2>1, <2>2 DEF Jobs
    <2>4. QED
      BY <1>t, <1>o, <1>2, <2>3 DEF Request, Label
  <1>3. ASSUME NEW w \in Worker, WorkerStep(w) PROVE PInv'
    <2>1. plan' \in Row
      BY <1>t, <1>3 DEF WorkerStep, HandleEnd, HandleReviewEnd, Row, Status
    <2>2. QED
      BY <1>t, <1>o, <1>n, <1>3, <2>1 DEF WorkerStep, HandleEnd, HandleReviewEnd, Done, Label
  <1>4. ASSUME NEW w \in Worker, NEW k \in Key, Take(w, k) PROVE PInv'
    <2>1. [end |-> now, rev |-> now, kind |-> k] \in Jobs
      BY <1>t DEF Jobs
    <2>2. QED
      BY <1>t, <1>o, <1>4, <2>1 DEF Take, Label
  <1>5. ASSUME NEW k \in Key, Fire(k) PROVE PInv'
    BY <1>t, <1>o, <1>5 DEF Fire
  <1>6. ASSUME NEW k \in Key, Remove(k) PROVE PInv'
    BY <1>t, <1>o, <1>6 DEF Remove
  <1>7. CASE Tick
    BY <1>t, <1>o, <1>7 DEF Tick
  <1>8. CASE Crash
    <2>1. \A k \in Key : Deadline(plan)[k] \in 0..MaxTime
      BY <1>t DEF Deadline
    <2>2. armed' \in [Key -> 0..Fired] /\ queue' \in [Key -> Nat]
      BY <1>t, <1>8, <2>1 DEF Crash
    <2>3. QED
      BY <1>t, <1>n, <1>8, <2>2 DEF Crash, Label
  <1>9. CASE UNCHANGED vars
    BY <1>t, <1>o, <1>9 DEF vars
  <1>10. QED
    BY <1>1, <1>2, <1>3, <1>4, <1>5, <1>6, <1>7, <1>8, <1>9 DEF Next

(* Whatever requests, events and restarts interleave, the plan, the timers and *)
(* the requests keep their types (RegistrationTimerManager,                    *)
(* OperateRegisterStatus, UpsertRegister).                                     *)
THEOREM PlanTypeCorrect == Spec => []TypeOK
  <1>1. Spec => []PInv
    BY InitPInv, NextPInv, PTL DEF Spec
  <1>2. PInv => TypeOK
    BY DEF PInv
  <1>3. QED
    BY <1>1, <1>2, PTL

-----------------------------------------------------------------------------
(* One caller at a time. *)

LEMMA InitCourse == Init => \A d \in Caller : Course(d)
  BY DEF Init, Course, Working, Thread

LEMMA NextCourse ==
  ASSUME OneCaller, PInv, [Next]_vars, NEW d \in Caller, Course(d)
  PROVE  Course(d)' /\ (plan.st \in Gone => plan'.st = plan.st)
  <1> DEFINE Goal == Course(d)' /\ (plan.st \in Gone => plan'.st = plan.st)
  <1>t. /\ plan \in Row /\ pc \in [Thread -> Label] /\ job \in [Thread -> Jobs]
        /\ wr \in [Caller -> Row \cup {Keep}] /\ d \in Thread
    BY DEF PInv, TypeOK, Thread
  <1>o. pc[d] \in {"cancel", "commit"} => wr[d] # Keep
    BY DEF PInv, Opened
  <1> SUFFICES Goal
    OBVIOUS
  <1> USE DEF Course, Working, Gone, frame, timing, Goto
  <1>1. ASSUME NEW c \in Caller, CallerStep(c) PROVE Goal
    <2>0. c = d
      BY DEF OneCaller
    <2>1. CASE DeleteCheck(c)
      BY <1>t, <2>0, <2>1 DEF DeleteCheck, Done
    <2>2. CASE Write(c)
      <3>1. /\ wr[d] = Keep /\ wr'[d] = Written(d) /\ plan' = plan /\ job' = job
            /\ pc'[d] = CASE job[d].kind = "edit" -> "commit"
                          [] job[d].kind = "release" -> "query"
                          [] OTHER -> "cancel"
        BY <1>t, <2>0, <2>2 DEF Write, Free
      <3>2. /\ job[d].kind # "edit" => Written(d).end = plan.end /\ Written(d).rev = plan.rev
            /\ job[d].kind = "edit" => Written(d).st = plan.st
            /\ job[d].kind \in {"void", "delete"} => Written(d).st \in Gone
            /\ Written(d) # Keep
        BY <1>t DEF Written, Row, Status, Keep, None
      <3>3. QED
        BY <3>1, <3>2, <2>0, <2>2 DEF Write
    <2>3. CASE Query(c)
      BY <1>t, <2>0, <2>3 DEF Query, Done
    <2>4. CASE Set(c)
      BY <1>t, <2>0, <2>4 DEF Set, Done
    <2>5. CASE Cancel(c)
      BY <1>t, <1>o, <2>0, <2>5 DEF Cancel
    <2>6. CASE Commit(c)
      <3>1. /\ plan' = wr[d] /\ wr'[d] = Keep /\ wr[d] # Keep
            /\ \/ job[d].kind = "edit" /\ pc'[d] = "query" /\ job' = job
               \/ job[d].kind # "edit" /\ pc'[d] = "idle"
        BY <1>t, <1>o, <2>0, <2>6 DEF Commit, Done
      <3>2. QED
        BY <3>1
    <2>7. QED
      BY <1>1, <2>1, <2>2, <2>3, <2>4, <2>5, <2>6 DEF CallerStep
  <1>2. ASSUME NEW c \in Caller, NEW kind \in Kinds, Request(c, kind) PROVE Goal
    <2>0. c = d
      BY DEF OneCaller
    <2>1. PICK e \in IF kind = "edit" THEN Deadlines ELSE {<<0, 0>>} :
            job' = [job EXCEPT ![c] = [end |-> e[1], rev |-> e[2], kind |-> kind]]
      BY <1>2 DEF Request
    <2>2. job'[d].kind = kind /\ kind \in {"edit", "release", "void", "delete"}
      BY <1>t, <2>0, <2>1, PlanAssumption
    <2>3. wr[d] = Keep
      BY <1>2, <2>0 DEF Request
    <2>4. QED
      BY <1>t, <1>2, <2>0, <2>2, <2>3 DEF Request, MayOperate
  <1>3. ASSUME NEW w \in Worker, WorkerStep(w) PROVE Goal
    <2>1. w # d /\ w \in Thread
      BY PlanAssumption DEF Thread
    <2>2. pc'[d] = pc[d] /\ job'[d] = job[d] /\ wr' = wr
      BY <1>t, <1>3, <2>1 DEF WorkerStep, HandleEnd, HandleReviewEnd, Done
    <2>3. wr[d] # Keep => plan' = plan
      BY <1>3 DEF WorkerStep, HandleEnd, HandleReviewEnd, Free
    <2>4. /\ plan'.end = plan.end /\ plan'.rev = plan.rev
          /\ plan'.st = plan.st \/ (plan'.st \in {"04", "06"} /\ plan.st \notin Gone)
      <3>1. plan' = plan \/ (plan.st \notin Gone /\ \E st \in {"04", "06"} : plan' = [plan EXCEPT !.st = st])
        BY <1>3 DEF WorkerStep, HandleEnd, HandleReviewEnd, Ends, Reviews
      <3>2. ASSUME NEW st, plan' = [plan EXCEPT !.st = st]
            PROVE  plan'.end = plan.end /\ plan'.rev = plan.rev /\ plan'.st = st
        BY <1>t, <3>2 DEF Row
      <3>3. QED
        BY <3>1, <3>2
    <2>5. QED
      BY <2>2, <2>3, <2>4
  <1>4. ASSUME NEW w \in Worker, NEW k \in Key, Take(w, k) PROVE Goal
    <2>1. w # d /\ w \in Thread
      BY PlanAssumption DEF Thread
    <2>2. QED
      BY <1>t, <1>4, <2>1 DEF Take
  <1>5. ASSUME NEW k \in Key, Fire(k) \/ Remove(k) PROVE Goal
    BY <1>5 DEF Fire, Remove
  <1>6. CASE Tick
    BY <1>6 DEF Tick
  <1>7. CASE Crash
    BY <1>7 DEF Crash, Thread
  <1>8. CASE UNCHANGED vars
    BY <1>8 DEF vars
  <1>9. QED
    BY <1>1, <1>2, <1>3, <1>4, <1>5, <1>6, <1>7, <1>8 DEF Next

(* "报名计划状态为作废，无法进行操作": as long as one request at a time is served,  *)
(* no event and no request brings a voided or deleted plan back; the status    *)
(* that was checked before the transaction still holds when it commits.        *)
THEOREM VoidedForGood == OneCaller => (Spec => VoidIsFinal)
  <1> SUFFICES ASSUME OneCaller PROVE Spec => VoidIsFinal
    OBVIOUS
  <1> DEFINE Inv == PInv /\ \A d \in Caller : Course(d)
  <1>1. Init => Inv
    BY InitPInv, InitCourse
  <1>2. Inv /\ [Next]_vars => Inv' /\ (plan.st \in Gone => plan'.st = plan.st)
    BY NextPInv, NextCourse DEF OneCaller
  <1>3. QED
    BY <1>1, <1>2, PTL DEF Spec, VoidIsFinal

LEMMA InitArmed == Init => \A d \in Caller : Armed(d)
  <1> SUFFICES ASSUME Init, NEW d \in Caller PROVE Armed(d)
    OBVIOUS
  <1>1. plan.st = "02" /\ pc[d] = "idle"
    BY DEF Init, Thread
  <1>2. Untouched
    BY DEF Init, Untouched, Key, Thread, NoJob, None
  <1>3. QED
    BY <1>1, <1>2 DEF Armed

(* A timer that is to fire later goes on running, in the map or out of it.     *)
LEMMA TimersRun ==
  ASSUME PInv, Timers, plan'.end = plan.end, plan'.rev = plan.rev,
         \/ UNCHANGED <<now, armed, unseen>>
         \/ \E k \in Key : Fire(k) \/ Remove(k)
         \/ Tick
  PROVE  Timers'
  <1> SUFFICES ASSUME NEW k \in Key, NEW t \in Time, t = Deadline(plan)[k] PROVE Runs(k, t)'
    <2>1. /\ \A k \in Key : Deadline(plan)[k] \in Time
          /\ \A k \in Key : Deadline(plan)'[k] = Deadline(plan)[k]
      BY DEF PInv, TypeOK, Row, Deadline
    <2>2. QED
      BY <2>1 DEF Timers, Runs
  <1>t. /\ now \in Nat /\ t \in Nat /\ t <= MaxTime /\ Runs(k, t)
        /\ armed \in [Key -> 0..Fired] /\ unseen \in [Key -> SUBSET Time]
    BY PlanAssumption DEF PInv, TypeOK, Time, Timers
  <1>1. CASE UNCHANGED <<now, armed, unseen>>
    BY <1>t, <1>1 DEF Runs
  <1>2. ASSUME NEW h \in Key, Fire(h) PROVE Runs(k, t)'
    BY <1>t, <1>2, PlanAssumption DEF Fire, Runs, frame, Fired
  <1>3. ASSUME NEW h \in Key, Remove(h) PROVE Runs(k, t)'
    BY <1>t, <1>3, PlanAssumption DEF Remove, Runs, frame, Never, Time
  <1>4. CASE Tick
    BY <1>t, <1>4 DEF Tick, Runs, timing
  <1>5. QED
    BY <1>1, <1>2, <1>3, <1>4

LEMMA NextArmed ==
  ASSUME OneCaller, PInv, [Next]_vars, NEW d \in Caller, Course(d), Armed(d)
  PROVE  Armed(d)'
  <1>t. /\ plan \in Row /\ plan.end \in Time /\ plan.rev \in Time
        /\ pc \in [Thread -> Label] /\ job \in [Thread -> Jobs] /\ wr \in [Caller -> Row \cup {Keep}]
        /\ now \in Nat /\ d \in Thread /\ Caller \cap Worker = {}
        /\ \A w \in Worker : w \in Thread
    BY PlanAssumption DEF PInv, TypeOK, Thread, Time, Row
  <1>o. pc[d] \in {"cancel", "commit"} => wr[d] # Keep
    BY DEF PInv, Opened
  <1>k. /\ plan' = plan /\ UNCHANGED timing /\ UNCHANGED <<now>>
        => (Timers => Timers')
    BY TimersRun DEF timing
  <1>s. \A at : SetTimers(at) /\ UNCHANGED <<plan, now>> /\ at = Deadline(plan) => Timers'
    <2> SUFFICES ASSUME SetTimers(Deadline(plan)), UNCHANGED <<plan, now>>, NEW k \in Key
                 PROVE Runs(k, Deadline(plan)[k])'
      BY DEF Timers, Deadline
    <2>1. Deadline(plan)' = Deadline(plan) /\ Deadline(plan)[k] \in Nat
      BY <1>t, PlanAssumption DEF Deadline, Time
    <2>2. QED
      BY <1>t, <2>1 DEF SetTimers, Runs
  <1> USE DEF Armed, Rearming, frame, Goto
  <1>1. ASSUME NEW c \in Caller, CallerStep(c) PROVE Armed(d)'
    <2>0. c = d
      BY DEF OneCaller
    <2>w. \A w \in Worker : w # d
      BY <1>t
    <2>1. CASE DeleteCheck(c)
      <3>1. Untouched => Untouched'
        BY <1>t, <2>0, <2>1, <2>w DEF DeleteCheck, Done, Untouched, timing
      <3>2. QED
        BY <1>t, <1>k, <2>0, <2>1, <3>1 DEF DeleteCheck, Done, Course, NoJob, None
    <2>2. CASE Write(c)
      <3>1. Untouched => Untouched'
        BY <1>t, <2>0, <2>2 DEF Write, Untouched, timing
      <3>2. /\ pc'[d] \in {"query", "cancel"} \/ (job[d].kind = "edit" /\ pc'[d] = "commit")
            /\ job' = job
        BY <1>t, <2>0, <2>2 DEF Write
      <3>3. pc'[d] = "query" => job[d].kind = "release"
        BY <1>t, <2>0, <2>2 DEF Write
      <3>4. QED
        BY <1>k, <2>0, <2>2, <3>1, <3>2, <3>3 DEF Write
    <2>3. CASE Query(c)
      <3>0. pc'[d] = "set" /\ job'[d].kind = job[d].kind /\ plan' = plan /\ now' = now /\ UNCHANGED timing
        BY <1>t, <2>0, <2>3 DEF Query, Course, Working, Gone
      <3>1. Untouched => Untouched'
        BY <1>t, <2>0, <2>3, <2>w, <3>0 DEF Query, Untouched, timing, Done
      <3>2. QED
        BY <1>t, <1>k, <2>0, <2>3, <3>0, <3>1 DEF Query
    <2>4. CASE Set(c)
      <3>1. Deadline(job[c]) = Deadline(plan)
        BY <2>0, <2>4 DEF Set, Course, Deadline
      <3>2. Timers'
        BY <1>s, <2>4, <3>1 DEF Set
      <3>3. QED
        BY <3>2
    <2>5. CASE Cancel(c)
      BY <1>t, <2>0, <2>5 DEF Cancel, Course
    <2>6. CASE Commit(c)
      <3>1. /\ plan' = wr[d] /\ wr[d] # Keep /\ UNCHANGED timing /\ now' = now
            /\ \/ job[d].kind = "edit" /\ pc'[d] = "query" /\ job' = job
               \/ job[d].kind # "edit" /\ pc'[d] = "idle"
        BY <1>t, <1>o, <2>0, <2>6 DEF Commit, Done
      <3>2. CASE job[d].kind = "edit"
        BY <3>1, <3>2
      <3>3. CASE job[d].kind = "release"
        <4>1. Timers
          BY <2>0, <2>6, <3>3 DEF Commit
        <4>2. Timers'
          BY <3>1, <3>3, <4>1, TimersRun DEF Course, timing
        <4>3. QED
          BY <3>1, <3>3, <4>2
      <3>4. CASE job[d].kind \in {"void", "delete"}
        BY <3>1, <3>4 DEF Course, Gone
      <3>5. job[d].kind \in {"edit", "release", "void", "delete"}
        BY <3>1, <2>0, <2>6 DEF Course, Commit
      <3>6. QED
        BY <3>2, <3>3, <3>4, <3>5
    <2>7. QED
      BY <1>1, <2>1, <2>2, <2>3, <2>4, <2>5, <2>6 DEF CallerStep
  <1>2. ASSUME NEW c \in Caller, NEW kind \in Kinds, Request(c, kind) PROVE Armed(d)'
    <2>0. c = d /\ \A w \in Worker : w # d
      BY <1>t DEF OneCaller
    <2>1. Untouched => Untouched'
      BY <1>t, <1>2, <2>0 DEF Request, Untouched, timing
    <2>2. pc[d] = "idle" /\ pc'[d] \in {"check", "write"}
      BY <1>t, <1>2, <2>0 DEF Request
    <2>3. QED
      BY <1>k, <1>2, <2>1, <2>2 DEF Request
  <1>3. ASSUME NEW w \in Worker, WorkerStep(w) PROVE Armed(d)'
    <2>1. w # d /\ w \in Thread
      BY <1>t DEF Thread
    <2>2. pc'[d] = pc[d] /\ job'[d] = job[d] /\ UNCHANGED <<timing, now>>
      BY <1>t, <1>3, <2>1 DEF WorkerStep, HandleEnd, HandleReviewEnd, Done
    <2>3. CASE plan' = plan
      <3>1. Untouched => Untouched'
        BY <1>t, <1>3, <2>1, <2>2
        DEF WorkerStep, HandleEnd, HandleReviewEnd, Done, Untouched, NoJob, None, timing
      <3>2. QED
        BY <1>k, <2>2, <2>3, <3>1
    <2>4. CASE plan' # plan
      <3>1. CASE HandleEnd(w)
        <4>1. plan' = [plan EXCEPT !.st = "04"] /\ plan.st \in {"00", "02"} /\ wr[d] = Keep
          BY <2>4, <3>1 DEF HandleEnd, Ends, Free
        <4>2. ~Untouched
          BY <3>1 DEF HandleEnd, Untouched
        <4>3. Timers => Timers'
          BY <1>t, <2>2, <4>1, TimersRun DEF timing, Row
        <4>4. pc[d] # "commit"
          BY <1>o, <4>1
        <4>5. QED
          BY <2>2, <4>1, <4>2, <4>3, <4>4
      <3>2. CASE HandleReviewEnd(w)
        <4>1. plan' = [plan EXCEPT !.st = "06"] /\ wr[d] = Keep
          BY <2>4, <3>2 DEF HandleReviewEnd, Reviews, Free
        <4>2. plan'.st = "06"
          BY <1>t, <4>1 DEF Row
        <4>3. pc[d] # "commit"
          BY <1>o, <4>1
        <4>4. QED
          BY <2>2, <4>2, <4>3
      <3>3. QED
        BY <1>3, <3>1, <3>2 DEF WorkerStep
    <2>5. QED
      BY <2>3, <2>4
  <1>4. ASSUME NEW w \in Worker, NEW k \in Key, Take(w, k) PROVE Armed(d)'
    <2>1. w # d /\ w \in Thread
      BY <1>t DEF Thread
    <2>2. pc'[d] = pc[d] /\ job'[d] = job[d] /\ UNCHANGED <<plan, now, armed, unseen>>
      BY <1>t, <1>4, <2>1 DEF Take
    <2>3. Untouched => Untouched'
      BY <1>t, <1>4, <2>1 DEF Take, Untouched, Key, PInv, TypeOK
    <2>4. QED
      BY <2>2, <2>3, TimersRun
  <1>5. ASSUME NEW k \in Key, Fire(k) \/ Remove(k) PROVE Armed(d)'
    <2>1. UNCHANGED <<plan, pc, job>>
      BY <1>5 DEF Fire, Remove
    <2>2. Timers => Timers'
      BY <1>5, <2>1, TimersRun
    <2>3. Untouched => Untouched'
      BY <1>t, <1>5, PlanAssumption DEF Fire, Remove, Untouched, Key, PInv, TypeOK, Never, Fired, Time
    <2>4. QED
      BY <2>1, <2>2, <2>3
  <1>6. CASE Tick
    <2>1. UNCHANGED <<plan, pc, job, timing>>
      BY <1>6 DEF Tick
    <2>2. Timers => Timers'
      BY <1>6, <2>1, TimersRun
    <2>3. QED
      BY <2>1, <2>2 DEF Untouched, timing
  <1>7. CASE Crash
    <2>1. pc'[d] = "idle" /\ plan' = plan /\ now' = now
      BY <1>7, <1>t DEF Crash
    <2>2. Restored => Timers'
      <3> SUFFICES ASSUME Restored, NEW k \in Key PROVE Runs(k, Deadline(plan)[k])'
        BY <2>1 DEF Timers, Deadline
      <3>1. Deadline(plan)[k] \in Nat
        BY <1>t, PlanAssumption DEF Deadline, Time
      <3>2. QED
        BY <1>t, <1>7, <2>1, <3>1 DEF Crash, Runs, Deadline
    <2>3. QED
      BY <2>1, <2>2 DEF Restored
  <1>8. CASE UNCHANGED vars
    BY <1>8, <1>k DEF vars, timing, Untouched
  <1>9. QED
    BY <1>1, <1>2, <1>3, <1>4, <1>5, <1>6, <1>7, <1>8 DEF Next

(* A plan that is released, or whose registration has ended, always has the    *)
(* timers for the deadlines it announces, through edits, releases, restarts    *)
(* and callbacks that remove another timer's key, while requests come one at a *)
(* time (SetRegisterTimers, InitializeRegisterTimers).                         *)
THEOREM PlanScheduled == OneCaller => (Spec => []Scheduled)
  <1> SUFFICES ASSUME OneCaller PROVE Spec => []Scheduled
    OBVIOUS
  <1> DEFINE Inv == PInv /\ \A d \in Caller : Course(d) /\ Armed(d)
  <1>1. Init => Inv
    BY InitPInv, InitCourse, InitArmed
  <1>2. Inv /\ [Next]_vars => Inv'
    BY NextPInv, NextCourse, NextArmed
  <1>3. Inv => Scheduled
    <2>1. PICK c \in Caller : Caller = {c}
      BY DEF OneCaller
    <2>2. Inv /\ ~Rearming(c) /\ plan.st \in {"00", "04"} => Timers
      BY <2>1 DEF Armed
    <2>3. Timers => /\ now < plan.end => plan.end \in unseen["end"] \cup {armed["end"]}
                    /\ now < plan.rev => plan.rev \in unseen["review"] \cup {armed["review"]}
      BY DEF Timers, Runs, Deadline, Key
    <2>4. QED
      BY <2>1, <2>2, <2>3 DEF Scheduled
  <1>4. QED
    BY <1>1, <1>2, <1>3, PTL DEF Spec
=============================================================================
