------------------------------ MODULE ExamTimer ------------------------------
(***************************************************************************)
(* The timer manager of exam_service (ExamTimerManager): a mutex over a    *)
(* map of runtime timers, a bounded event queue and a fixed pool of        *)
(* workers.  RegistrationTimerManager of serve/registration has the same   *)
(* shape.  The steps are those the mutex and the channel separate: what    *)
(* runs between Lock and Unlock without blocking is one step, a send on    *)
(* the queue is a step that can block, and so is each Lock.                *)
(*                                                                         *)
(* What a handler does to the database is the subject of ExamLifecycle.    *)
(* Here a handler ends in one of three ways: it is done, it sets the end   *)
(* timer of its session again (an examinee is not finished), or it cancels *)
(* the timers of its exam (the session has no examinee).                   *)
(***************************************************************************)
EXTENDS Naturals, Sequences, FiniteSets, Functions

CONSTANTS
  Exam,         \* exams
  Session,      \* exam sessions
  ExamOf,       \* Session -> Exam
  Caller,       \* goroutines that call the service: the boot, HTTP handlers
  Worker,       \* the worker goroutines (DEFAULT_MAX_WORKERS of them)
  QueueCap,     \* capacity of eventQueue (maxWorkers * 15)
  SlowHandlers, \* a handler may outlast the minute of its own delay before it
                \* sets the end timer again (row locks, a wait for tm.mutex)
  MaxRequests   \* bound on the calls of SetExamSessionTimer in a behaviour

ASSUME TimerAssumption ==
  /\ Session # {}
  /\ ExamOf \in [Session -> Exam]
  /\ Caller \cap Worker = {}
  /\ (Caller \cup Worker) \cap Nat = {}
  /\ QueueCap \in Nat \ {0}
  /\ SlowHandlers \in BOOLEAN
  /\ MaxRequests \in Nat

VARIABLES
  mutex,    \* who holds tm.mutex across steps: a thread that is sending, or Free
  timers,   \* tm.timers: key -> the timer on the map, or NoTimer
  st,       \* request -> how far the call, its timer and its callback are
  key,      \* request -> the key it was made for
  queue,    \* tm.eventQueue: the requests whose events wait for a worker
  ctxDone,  \* tm.ctx is cancelled
  pc,       \* thread -> what it does next
  todo,     \* thread -> the keys it still has to set or cancel
  held      \* thread -> the request whose event it is sending or handling

vars == <<mutex, timers, st, key, queue, ctxDone, pc, todo, held>>

Thread  == Caller \cup Worker
Key     == {"start", "end"} \X Session
Request == 1..MaxRequests
NoTimer == 0
Free    == 0

(* unused: not called yet.  armed: a runtime timer waits.  stopped: Stop()   *)
(* caught it.  sending: its callback tries to send.  unmapping: the event is *)
(* sent and the callback is about to delete the map entry.  inline: overdue, *)
(* the setter sends the event itself.  sent: nothing is left to run.         *)
(* dropped: the context was done first.                                      *)
RequestState == {"unused", "armed", "stopped", "sending", "unmapping",
                 "inline", "sent", "dropped"}
ThreadState  == {"idle", "handling", "setting", "cancelling", "sending", "ended"}

KeysOf(e) == {k \in Key : ExamOf[k[2]] = e}

-----------------------------------------------------------------------------

Init == /\ mutex = Free
        /\ timers = [k \in Key |-> NoTimer]
        /\ st = [r \in Request |-> "unused"]
        /\ key = [r \in Request |-> CHOOSE k \in Key : TRUE]
        /\ queue = <<>>
        /\ ctxDone = FALSE
        /\ pc = [p \in Thread |-> "idle"]
        /\ todo = [p \in Thread |-> {}]
        /\ held = [p \in Thread |-> NoTimer]

(* The next unused request identifier. *)
Fresh(r) == st[r] = "unused" /\ \A q \in 1..(r-1) : st[q] # "unused"

(* Variant for mutation: the map key lacks the event type. *)
StopExisting_SessionKey(k) ==
  [r \in Request |-> IF st[r] = "armed" /\ \E j \in Key : j[2] = k[2] /\ timers[j] = r
                     THEN "stopped" ELSE st[r]]

(* Timer.Stop on the timer the map has for k: it takes effect only on a      *)
(* timer that has not fired.                                                 *)
StopExisting(k) ==
  [r \in Request |-> IF r = timers[k] /\ st[r] = "armed" THEN "stopped" ELSE st[r]]

(* The sessions are walked one by one, the start key of each before its end. *)
NextKey(p, k) == k \in todo[p] /\ (k[1] = "end" => <<"start", k[2]>> \notin todo[p])

(* Where a thread goes when it has dealt with k. *)
Resume(p, k, again) ==
  IF todo[p] = {k} THEN (IF p \in Worker THEN "idle" ELSE "ended") ELSE again

(* SetExamTimers on an exam, or InitializeExamTimers on all that are due.    *)
SetExamTimers(c, e) ==
  /\ pc[c] = "idle" /\ KeysOf(e) # {}
  /\ pc' = [pc EXCEPT ![c] = "setting"]
  /\ todo' = [todo EXCEPT ![c] = KeysOf(e)]
  /\ UNCHANGED <<mutex, timers, st, key, queue, ctxDone, held>>

InitializeExamTimers(c) ==
  /\ pc[c] = "idle" /\ Key # {}
  /\ pc' = [pc EXCEPT ![c] = "setting"]
  /\ todo' = [todo EXCEPT ![c] = Key]
  /\ UNCHANGED <<mutex, timers, st, key, queue, ctxDone, held>>

CancelExamTimers(c, e) ==
  /\ pc[c] = "idle" /\ KeysOf(e) # {}
  /\ pc' = [pc EXCEPT ![c] = "cancelling"]
  /\ todo' = [todo EXCEPT ![c] = KeysOf(e)]
  /\ UNCHANGED <<mutex, timers, st, key, queue, ctxDone, held>>

(* SetExamSessionTimer with a trigger time ahead of the clock. *)
SetFuture(p, k, r) ==
  /\ pc[p] = "setting" /\ mutex = Free /\ NextKey(p, k) /\ Fresh(r)
  /\ st' = [StopExisting(k) EXCEPT ![r] = "armed"]
  /\ key' = [key EXCEPT ![r] = k]
  /\ timers' = [timers EXCEPT ![k] = r]
  /\ todo' = [todo EXCEPT ![p] = @ \ {k}]
  /\ pc' = [pc EXCEPT ![p] = Resume(p, k, "setting")]
  /\ UNCHANGED <<mutex, queue, ctxDone, held>>

(* SetExamSessionTimer with a trigger time already past: the setter keeps    *)
(* the mutex while it waits for room in the queue.                           *)
SetOverdue(p, k, r) ==
  /\ p \in Caller \/ SlowHandlers
  /\ pc[p] = "setting" /\ mutex = Free /\ NextKey(p, k) /\ Fresh(r)
  /\ mutex' = p
  /\ st' = [StopExisting(k) EXCEPT ![r] = "inline"]
  /\ key' = [key EXCEPT ![r] = k]
  /\ timers' = [timers EXCEPT ![k] = NoTimer]
  /\ held' = [held EXCEPT ![p] = r]
  /\ pc' = [pc EXCEPT ![p] = "sending"]
  /\ UNCHANGED <<queue, ctxDone, todo>>

(* Variant: the mutex is not released after the send. *)
SendOverdue_NoUnlock(p) ==
  /\ pc[p] = "sending" /\ Len(queue) < QueueCap
  /\ queue' = Append(queue, held[p])
  /\ st' = [st EXCEPT ![held[p]] = "sent"]
  /\ todo' = [todo EXCEPT ![p] = @ \ {key[held[p]]}]
  /\ pc' = [pc EXCEPT ![p] = Resume(p, key[held[p]], "setting")]
  /\ held' = [held EXCEPT ![p] = NoTimer]
  /\ UNCHANGED <<mutex, timers, key, ctxDone>>

SendOverdue(p) ==
  /\ pc[p] = "sending"
  /\ LET r == held[p]
     IN  /\ \/ /\ Len(queue) < QueueCap
               /\ queue' = Append(queue, r)
               /\ st' = [st EXCEPT ![r] = "sent"]
            \/ /\ ctxDone
               /\ st' = [st EXCEPT ![r] = "dropped"]
               /\ UNCHANGED queue
         /\ todo' = [todo EXCEPT ![p] = @ \ {key[r]}]
         /\ pc' = [pc EXCEPT ![p] = Resume(p, key[r], "setting")]
  /\ mutex' = Free
  /\ held' = [held EXCEPT ![p] = NoTimer]
  /\ UNCHANGED <<timers, key, ctxDone>>

(* CancelExamSessionTimer for the next key of the walk. *)
CancelExamSessionTimer(p, k) ==
  /\ pc[p] = "cancelling" /\ mutex = Free /\ NextKey(p, k)
  /\ st' = StopExisting(k)
  /\ timers' = [timers EXCEPT ![k] = NoTimer]
  /\ todo' = [todo EXCEPT ![p] = @ \ {k}]
  /\ pc' = [pc EXCEPT ![p] = Resume(p, k, "cancelling")]
  /\ UNCHANGED <<mutex, key, queue, ctxDone, held>>

StopAll(c) ==
  /\ pc[c] = "idle" /\ mutex = Free
  /\ st' = [r \in Request |-> IF st[r] = "armed" /\ \E k \in Key : timers[k] = r
                              THEN "stopped" ELSE st[r]]
  /\ timers' = [k \in Key |-> NoTimer]
  /\ ctxDone' = TRUE
  /\ pc' = [pc EXCEPT ![c] = "ended"]
  /\ UNCHANGED <<mutex, key, queue, todo, held>>

-----------------------------------------------------------------------------
(* The callback of time.AfterFunc, a goroutine of its own. *)

Fire(r) == /\ st[r] = "armed"
           /\ st' = [st EXCEPT ![r] = "sending"]
           /\ UNCHANGED <<mutex, timers, key, queue, ctxDone, pc, todo, held>>

CallbackSend(r) ==
  /\ st[r] = "sending"
  /\ \/ /\ Len(queue) < QueueCap
        /\ queue' = Append(queue, r)
        /\ st' = [st EXCEPT ![r] = "unmapping"]
     \/ /\ ctxDone
        /\ st' = [st EXCEPT ![r] = "dropped"]
        /\ UNCHANGED queue
  /\ UNCHANGED <<mutex, timers, key, ctxDone, pc, todo, held>>

(* Variant: the callback forgets the map entry. *)
CallbackDelete_Missing(r) ==
  /\ st[r] = "unmapping" /\ mutex = Free
  /\ st' = [st EXCEPT ![r] = "sent"]
  /\ UNCHANGED <<mutex, timers, key, queue, ctxDone, pc, todo, held>>

(* delete(tm.timers, timerKey): by key, whatever timer the map has there. *)
CallbackDelete(r) ==
  /\ st[r] = "unmapping" /\ mutex = Free
  /\ timers' = [timers EXCEPT ![key[r]] = NoTimer]
  /\ st' = [st EXCEPT ![r] = "sent"]
  /\ UNCHANGED <<mutex, key, queue, ctxDone, pc, todo, held>>

-----------------------------------------------------------------------------
(* A worker. *)

Take(w) ==
  /\ pc[w] = "idle" /\ queue # <<>>
  /\ held' = [held EXCEPT ![w] = Head(queue)]
  /\ queue' = Tail(queue)
  /\ pc' = [pc EXCEPT ![w] = "handling"]
  /\ UNCHANGED <<mutex, timers, st, key, ctxDone, todo>>

Exit(w) == /\ pc[w] = "idle" /\ ctxDone
           /\ pc' = [pc EXCEPT ![w] = "ended"]
           /\ UNCHANGED <<mutex, timers, st, key, queue, ctxDone, todo, held>>

(* Variant: a worker without its for loop. *)
HandlerDone_NoLoop(w) ==
  /\ pc[w] = "handling"
  /\ pc' = [pc EXCEPT ![w] = "ended"]
  /\ held' = [held EXCEPT ![w] = NoTimer]
  /\ UNCHANGED <<mutex, timers, st, key, queue, ctxDone, todo>>

(* The handler has nothing left to do with the timers, or failed. *)
HandlerDone(w) ==
  /\ pc[w] = "handling"
  /\ pc' = [pc EXCEPT ![w] = "idle"]
  /\ held' = [held EXCEPT ![w] = NoTimer]
  /\ UNCHANGED <<mutex, timers, st, key, queue, ctxDone, todo>>

(* Requests that threads which are setting, or have yet to call, will need. *)
Owed == Cardinality({x \in Thread \X Key :
           \/ pc[x[1]] \in {"setting", "sending"} /\ x[2] \in todo[x[1]]
           \/ pc[x[1]] = "idle" /\ x[1] \in Caller})

(* handleExamSessionEnd, unfinished examinees: the end timer is set again.   *)
(* The guard on Owed keeps the behaviour within MaxRequests.                 *)
Rearm(w) ==
  /\ pc[w] = "handling" /\ ~ctxDone
  /\ key[held[w]][1] = "end"
  /\ Cardinality({r \in Request : st[r] = "unused"}) > Owed
  /\ pc' = [pc EXCEPT ![w] = "setting"]
  /\ todo' = [todo EXCEPT ![w] = {key[held[w]]}]
  /\ held' = [held EXCEPT ![w] = NoTimer]
  /\ UNCHANGED <<mutex, timers, st, key, queue, ctxDone>>

(* handleExamSessionStart, no examinee: the timers of the exam are cancelled. *)
CancelOwnExam(w) ==
  /\ pc[w] = "handling" /\ ~ctxDone
  /\ key[held[w]][1] = "start"
  /\ pc' = [pc EXCEPT ![w] = "cancelling"]
  /\ todo' = [todo EXCEPT ![w] = KeysOf(ExamOf[key[held[w]][2]])]
  /\ held' = [held EXCEPT ![w] = NoTimer]
  /\ UNCHANGED <<mutex, timers, st, key, queue, ctxDone>>

-----------------------------------------------------------------------------

CallerStep(c) == \/ InitializeExamTimers(c)
                 \/ StopAll(c)
                 \/ \E e \in Exam : SetExamTimers(c, e) \/ CancelExamTimers(c, e)

(* The steps of a thread inside SetExamSessionTimer or CancelExamSessionTimer. *)
TimerStep(p) == \/ \E k \in Key, r \in Request : SetFuture(p, k, r) \/ SetOverdue(p, k, r)
                \/ \E k \in Key : CancelExamSessionTimer(p, k)
                \/ SendOverdue(p)

HandlerStep(w) == HandlerDone(w) \/ Rearm(w) \/ CancelOwnExam(w)

Callback(r) == CallbackSend(r) \/ CallbackDelete(r)

Next == \/ \E c \in Caller : CallerStep(c)
        \/ \E p \in Thread : TimerStep(p)
        \/ \E w \in Worker : Take(w) \/ Exit(w) \/ HandlerStep(w)
        \/ \E r \in Request : Fire(r) \/ Callback(r)

Spec == Init /\ [][Next]_vars

(* Timers fire, goroutines are scheduled, and a goroutine that waits for     *)
(* tm.mutex gets it (sync.Mutex hands over to a waiter it has starved), so   *)
(* the steps that lock are strongly fair.  Nobody has to call the service.   *)
Fairness == /\ \A p \in Thread : SF_vars(TimerStep(p))
            /\ \A w \in Worker : WF_vars(Take(w)) /\ WF_vars(HandlerStep(w))
            /\ \A r \in Request : WF_vars(Fire(r)) /\ SF_vars(Callback(r))

FairSpec == Spec /\ Fairness

-----------------------------------------------------------------------------
(* Properties. *)

(* Every variable keeps its type; the mutex, as SetExamSessionTimer uses it, *)
(* is held across steps only by the thread that is sending.                  *)
TypeOK ==
  /\ mutex \in Thread \cup {Free}
  /\ timers \in [Key -> Request \cup {NoTimer}]
  /\ st \in [Request -> RequestState]
  /\ key \in [Request -> Key]
  /\ queue \in Seq(Request) /\ Len(queue) <= QueueCap
  /\ ctxDone \in BOOLEAN
  /\ pc \in [Thread -> ThreadState]
  /\ todo \in [Thread -> SUBSET Key]
  /\ held \in [Thread -> Request \cup {NoTimer}]

(* delete and assignment of tm.timers (SetExamSessionTimer, its callback,    *)
(* CancelExamSessionTimer, StopAll) keep the map honest while the service    *)
(* runs: what it has for a key is a timer of that key whose callback has not *)
(* finished, so a Stop through the map is never a Stop of a past timer.      *)
MapTracksLive ==
  \A k \in Key : timers[k] # NoTimer =>
     /\ key[timers[k]] = k
     /\ \/ st[timers[k]] \in {"armed", "sending", "unmapping"}
        \/ ctxDone /\ st[timers[k]] = "dropped"

(* An event waits in eventQueue at most once, and only after its send        *)
(* succeeded: the queue neither repeats nor invents a firing of a timer.     *)
QueuedOnce ==
  /\ \A i, j \in 1..Len(queue) : queue[i] = queue[j] => i = j
  /\ \A i \in 1..Len(queue) : st[queue[i]] \in {"unmapping", "sent"}

(* A setter that waits for room in the queue does so inside the mutex        *)
(* (defer tm.mutex.Unlock()), so at most one thread is sending, and the      *)
(* event it sends is its own and in no other place; a handler has its event. *)
OneSender ==
  \A p \in Thread :
     /\ pc[p] \in {"sending", "handling"} => held[p] \in Request
     /\ pc[p] = "sending" => mutex = p /\ st[held[p]] = "inline"

(* The service promise: the requests as callers see them. *)
Outcome(r) ==
  CASE st[r] = "unused" -> "unused"
    [] st[r] \in {"stopped", "dropped"} -> "dropped"
    [] st[r] \in {"unmapping", "sent"} /\ r \notin Range(queue) -> "delivered"
    [] OTHER -> "pending"

Service == INSTANCE TimerService
             WITH status <- [r \in Request |-> Outcome(r)],
                  wanted <- key, stopped <- ctxDone

(* The manager implements the service: no firing is lost, repeated or        *)
(* dropped for another reason than a newer Set, a Cancel or a stop.          *)
ImplementsService == Service!SSpec

HasRoom == Len(queue) < QueueCap

(* An event that SetExamSessionTimer accepted reaches a worker, unless it is *)
(* replaced or cancelled or the service is stopped (startEventWorkers leaves *)
(* the queue as it is then), as long as the queue never fills up.            *)
EveryEventHandled ==
  []HasRoom =>
    \A r \in Request :
      (Outcome(r) = "pending") ~> (Outcome(r) \in {"delivered", "dropped"} \/ ctxDone)

(* Handlers that decided to set or cancel timers get to do so, as long as the *)
(* queue never fills up: a full one leaves a sender inside the mutex.         *)
HandlersReturn ==
  []HasRoom =>
    \A w \in Worker : (pc[w] \in {"setting", "cancelling"}) ~> (pc[w] \in {"idle", "ended"})
=============================================================================
