--------------------------- MODULE ExamTimer_proofs ---------------------------
(* Proofs about ExamTimer, for any numbers of sessions, callers, workers and  *)
(* requests and any capacity of the queue.                                    *)
EXTENDS ExamTimer, SequenceTheorems, TLAPS

(* The inductive invariant.  MapTracksLive needs OneSender: the event that a  *)
(* thread sends inline belongs to no timer of the map, so finishing the send  *)
(* cannot invalidate an entry; OneSender needs itself only.                   *)
IInv == TypeOK /\ OneSender /\ MapTracksLive /\ QueuedOnce

(* Helpers: what Fresh and StopExisting guarantee.                            *)
LEMMA StopExistingType ==
  ASSUME TypeOK, NEW k \in Key
  PROVE  /\ StopExisting(k) \in [Request -> RequestState]
         /\ \A r \in Request : r # timers[k] => StopExisting(k)[r] = st[r]
         /\ \A r \in Request : st[r] # "armed" => StopExisting(k)[r] = st[r]
         /\ \A r \in Request : StopExisting(k)[r] \in {st[r], "stopped"}
  BY DEF StopExisting, TypeOK, RequestState

LEMMA FreeIsNoThread == \A p \in Thread : p # Free
  BY TimerAssumption DEF Thread, Free

(* The manager's variables keep their types.                                  *)
LEMMA InitIInv == Init => IInv
  <1> SUFFICES ASSUME Init PROVE IInv
    OBVIOUS
  <1>1. Key # {}
    <2>1. PICK s \in Session : TRUE
      BY TimerAssumption
    <2>2. <<"start", s>> \in Key
      BY <2>1 DEF Key
    <2>3. QED
      BY <2>2
  <1>2. TypeOK
    <2>1. key \in [Request -> Key]
      BY <1>1 DEF Init
    <2>2. queue \in Seq(Request) /\ Len(queue) <= QueueCap
      BY TimerAssumption DEF Init
    <2>3. QED
      BY <2>1, <2>2 DEF Init, TypeOK, Free, NoTimer, RequestState, ThreadState
  <1>3. QED
    BY <1>2 DEF Init, IInv, OneSender, MapTracksLive, QueuedOnce, NoTimer

LEMMA ResumeType ==
  ASSUME NEW p \in Thread, NEW k, NEW again \in ThreadState
  PROVE  Resume(p, k, again) \in ThreadState
  BY DEF Resume, ThreadState

LEMMA KeysOfType == \A e : KeysOf(e) \subseteq Key
  BY DEF KeysOf

(* What appending a request that is not in the queue preserves.               *)
LEMMA AppendOnce ==
  ASSUME QueuedOnce, TypeOK, NEW r \in Request, r \notin Range(queue),
         queue' = Append(queue, r),
         \A q \in Request : q # r => st'[q] = st[q],
         st'[r] \in {"unmapping", "sent"}
  PROVE  QueuedOnce'
  <1>1. queue \in Seq(Request)
    BY DEF TypeOK
  <1>2. /\ Len(queue') = Len(queue) + 1
        /\ \A i \in 1..Len(queue) : queue'[i] = queue[i] /\ queue[i] \in Request
        /\ queue'[Len(queue) + 1] = r
    BY <1>1
  <1>3. \A i \in 1..Len(queue) : queue[i] # r
    BY <1>1 DEF Range
  <1>4. QED
    BY <1>1, <1>2, <1>3 DEF QueuedOnce

(* Steps that leave queue alone and take no request back from the queue.      *)
LEMMA SameQueue ==
  ASSUME QueuedOnce, TypeOK, queue' = queue,
         \A q \in Request : st[q] \in {"unmapping", "sent"}
            => st'[q] \in {"unmapping", "sent"}
  PROVE  QueuedOnce'
  <1>1. \A i \in 1..Len(queue) : queue[i] \in Request
    BY DEF TypeOK
  <1>2. QED
    BY <1>1 DEF QueuedOnce

LEMMA SetFutureIInv ==
  ASSUME IInv, NEW p \in Thread, NEW k \in Key, NEW r \in Request, SetFuture(p, k, r)
  PROVE  IInv'
  <1> USE DEF IInv
  <1>1. st[r] = "unused"
    BY DEF SetFuture, Fresh
  <1>2. /\ st' \in [Request -> RequestState]
        /\ st'[r] = "armed"
        /\ \A q \in Request : q # r => st'[q] = StopExisting(k)[q]
    BY StopExistingType DEF SetFuture, RequestState
  <1>3. TypeOK'
    <2>1. pc' \in [Thread -> ThreadState]
      BY ResumeType DEF SetFuture, TypeOK, ThreadState
    <2>2. QED
      BY <1>2, <2>1 DEF SetFuture, TypeOK
  <1>4. OneSender'
    <2>1. \A q \in Thread : pc[q] # "sending"
      BY FreeIsNoThread DEF SetFuture, OneSender
    <2>2. \A q \in Thread : pc'[q] # "sending"
      BY <2>1 DEF SetFuture, TypeOK, Resume
    <2>3. \A q \in Thread : pc'[q] = "handling" => held'[q] \in Request
      BY DEF SetFuture, TypeOK, Resume, OneSender
    <2>4. QED
      BY <2>2, <2>3 DEF OneSender
  <1>5. MapTracksLive'
    <2> SUFFICES ASSUME NEW j \in Key, timers'[j] # NoTimer
                 PROVE  /\ key'[timers'[j]] = j
                        /\ \/ st'[timers'[j]] \in {"armed", "sending", "unmapping"}
                           \/ ctxDone' /\ st'[timers'[j]] = "dropped"
      BY DEF MapTracksLive
    <2>1. CASE j = k
      BY <2>1, <1>2 DEF SetFuture, TypeOK
    <2>2. CASE j # k
      <3>1. timers'[j] = timers[j] /\ timers[j] \in Request
        BY <2>2 DEF SetFuture, TypeOK
      <3>2. timers[j] # r /\ timers[j] # timers[k]
        BY <1>1, <2>2, <3>1 DEF MapTracksLive, NoTimer
      <3>3. st'[timers[j]] = st[timers[j]]
        BY <1>2, <3>1, <3>2, StopExistingType
      <3>4. QED
        BY <3>1, <3>2, <3>3 DEF MapTracksLive, SetFuture, TypeOK
    <2>3. QED
      BY <2>1, <2>2
  <1>6. QueuedOnce'
    <2>1. \A q \in Request : st[q] \in {"unmapping", "sent"}
             => st'[q] \in {"unmapping", "sent"}
      BY <1>1, <1>2, StopExistingType
    <2>2. QED
      BY <2>1, SameQueue DEF SetFuture
  <1>7. QED
    BY <1>3, <1>4, <1>5, <1>6

LEMMA SetOverdueIInv ==
  ASSUME IInv, NEW p \in Thread, NEW k \in Key, NEW r \in Request, SetOverdue(p, k, r)
  PROVE  IInv'
  <1> USE DEF IInv
  <1>1. st[r] = "unused"
    BY DEF SetOverdue, Fresh
  <1>2. /\ st' \in [Request -> RequestState]
        /\ st'[r] = "inline"
        /\ \A q \in Request : q # r => st'[q] = StopExisting(k)[q]
    BY StopExistingType DEF SetOverdue, RequestState
  <1>3. TypeOK'
    BY <1>2 DEF SetOverdue, TypeOK, ThreadState
  <1>4. OneSender'
    <2>1. \A q \in Thread : pc[q] # "sending"
      BY FreeIsNoThread DEF SetOverdue, OneSender
    <2>2. \A q \in Thread : q # p => pc'[q] # "sending"
      BY <2>1 DEF SetOverdue, TypeOK
    <2>3. mutex' = p /\ held'[p] = r
      BY DEF SetOverdue, TypeOK
    <2>4. \A q \in Thread : pc'[q] = "handling" => held'[q] \in Request
      BY DEF SetOverdue, TypeOK, OneSender
    <2>5. QED
      BY <1>2, <2>2, <2>3, <2>4 DEF OneSender
  <1>5. MapTracksLive'
    <2> SUFFICES ASSUME NEW j \in Key, timers'[j] # NoTimer
                 PROVE  /\ key'[timers'[j]] = j
                        /\ \/ st'[timers'[j]] \in {"armed", "sending", "unmapping"}
                           \/ ctxDone' /\ st'[timers'[j]] = "dropped"
      BY DEF MapTracksLive
    <2>1. j # k
      BY DEF SetOverdue, TypeOK
    <2>2. timers'[j] = timers[j] /\ timers[j] \in Request
      BY <2>1 DEF SetOverdue, TypeOK
    <2>3. timers[j] # r /\ timers[j] # timers[k]
      BY <1>1, <2>1, <2>2 DEF MapTracksLive, NoTimer
    <2>4. st'[timers[j]] = st[timers[j]]
      BY <1>2, <2>2, <2>3, StopExistingType
    <2>5. QED
      BY <2>2, <2>3, <2>4 DEF MapTracksLive, SetOverdue, TypeOK
  <1>6. QueuedOnce'
    <2>1. \A q \in Request : st[q] \in {"unmapping", "sent"}
             => st'[q] \in {"unmapping", "sent"}
      BY <1>1, <1>2, StopExistingType
    <2>2. QED
      BY <2>1, SameQueue DEF SetOverdue
  <1>7. QED
    BY <1>3, <1>4, <1>5, <1>6

LEMMA SendOverdueIInv ==
  ASSUME IInv, NEW p \in Thread, SendOverdue(p)
  PROVE  IInv'
  <1> USE DEF IInv
  <1> DEFINE r == held[p]
  <1>1. r \in Request /\ st[r] = "inline" /\ mutex = p
    BY DEF SendOverdue, OneSender
  <1>2. key[r] \in Key
    BY <1>1 DEF TypeOK
  <1>3. pc' \in [Thread -> ThreadState] /\ \A q \in Thread : pc'[q] # "sending"
    <2>1. \A q \in Thread : q # p => pc[q] # "sending"
      BY <1>1 DEF OneSender
    <2>2. QED
      BY <2>1, ResumeType DEF SendOverdue, TypeOK, Resume, ThreadState
  <1>4. /\ st' \in [Request -> RequestState]
        /\ \A q \in Request : q # r => st'[q] = st[q]
    BY <1>1 DEF SendOverdue, TypeOK, RequestState
  <1>5. TypeOK'
    <2>1. queue' \in Seq(Request) /\ Len(queue') <= QueueCap
      BY <1>1, TimerAssumption DEF SendOverdue, TypeOK
    <2>2. QED
      BY <1>3, <1>4, <2>1 DEF SendOverdue, TypeOK
  <1>6. OneSender'
    <2>1. \A q \in Thread : pc'[q] = "handling" => held'[q] \in Request
      BY DEF SendOverdue, TypeOK, Resume, OneSender
    <2>2. QED
      BY <1>3, <2>1 DEF OneSender
  <1>7. MapTracksLive'
    <2>1. \A j \in Key : timers[j] # NoTimer => timers[j] \in Request /\ timers[j] # r
      BY <1>1 DEF MapTracksLive, TypeOK
    <2>2. QED
      BY <1>4, <2>1 DEF MapTracksLive, SendOverdue
  <1>8. QueuedOnce'
    <2>1. CASE queue' = Append(queue, r) /\ st' = [st EXCEPT ![r] = "sent"]
      <3>1. r \notin Range(queue)
        BY <1>1 DEF Range, QueuedOnce, TypeOK
      <3>2. QED
        BY <1>1, <1>4, <2>1, <3>1, AppendOnce DEF TypeOK
    <2>2. CASE UNCHANGED queue /\ st' = [st EXCEPT ![r] = "dropped"]
      BY <1>1, <1>4, <2>2, SameQueue
    <2>3. QED
      BY <2>1, <2>2 DEF SendOverdue
  <1>9. QED
    BY <1>5, <1>6, <1>7, <1>8

LEMMA CancelIInv ==
  ASSUME IInv, NEW p \in Thread, NEW k \in Key, CancelExamSessionTimer(p, k)
  PROVE  IInv'
  <1> USE DEF IInv
  <1>1. st' = StopExisting(k)
    BY DEF CancelExamSessionTimer
  <1>2. TypeOK'
    <2>1. pc' \in [Thread -> ThreadState]
      BY ResumeType DEF CancelExamSessionTimer, TypeOK, ThreadState
    <2>2. QED
      BY <1>1, <2>1, StopExistingType DEF CancelExamSessionTimer, TypeOK
  <1>3. OneSender'
    <2>1. \A q \in Thread : pc[q] # "sending"
      BY FreeIsNoThread DEF CancelExamSessionTimer, OneSender
    <2>2. \A q \in Thread : pc'[q] # "sending"
      BY <2>1 DEF CancelExamSessionTimer, TypeOK, Resume
    <2>3. \A q \in Thread : pc'[q] = "handling" => held'[q] \in Request
      BY DEF CancelExamSessionTimer, TypeOK, Resume, OneSender
    <2>4. QED
      BY <2>2, <2>3 DEF OneSender
  <1>4. MapTracksLive'
    <2> SUFFICES ASSUME NEW j \in Key, timers'[j] # NoTimer
                 PROVE  /\ key'[timers'[j]] = j
                        /\ \/ st'[timers'[j]] \in {"armed", "sending", "unmapping"}
                           \/ ctxDone' /\ st'[timers'[j]] = "dropped"
      BY DEF MapTracksLive
    <2>1. j # k /\ timers'[j] = timers[j] /\ timers[j] \in Request
      BY DEF CancelExamSessionTimer, TypeOK
    <2>2. timers[j] # timers[k]
      BY <2>1 DEF MapTracksLive, NoTimer
    <2>3. QED
      BY <1>1, <2>1, <2>2, StopExistingType DEF MapTracksLive, CancelExamSessionTimer
  <1>5. QueuedOnce'
    <2>1. \A q \in Request : st[q] \in {"unmapping", "sent"} => st'[q] = st[q]
      BY <1>1, StopExistingType
    <2>2. QED
      BY <2>1, SameQueue DEF CancelExamSessionTimer
  <1>6. QED
    BY <1>2, <1>3, <1>4, <1>5

LEMMA StopAllIInv ==
  ASSUME IInv, NEW c \in Caller, StopAll(c)
  PROVE  IInv'
  <1> USE DEF IInv
  <1>1. c \in Thread
    BY DEF Thread
  <1>2. TypeOK'
    BY <1>1 DEF StopAll, TypeOK, RequestState, ThreadState
  <1>3. OneSender'
    <2>1. \A q \in Thread : pc[q] # "sending"
      BY FreeIsNoThread DEF StopAll, OneSender
    <2>2. QED
      BY <2>1 DEF OneSender, StopAll, TypeOK
  <1>4. MapTracksLive'
    BY DEF MapTracksLive, StopAll
  <1>5. QueuedOnce'
    <2>1. \A q \in Request : st[q] \in {"unmapping", "sent"} => st'[q] = st[q]
      BY DEF StopAll
    <2>2. QED
      BY <2>1, SameQueue DEF StopAll
  <1>6. QED
    BY <1>2, <1>3, <1>4, <1>5

LEMMA CallbackIInv ==
  ASSUME IInv, NEW r \in Request, Fire(r) \/ Callback(r)
  PROVE  IInv'
  <1> USE DEF IInv
  <1>1. CASE Fire(r)
    <2>1. TypeOK'
      BY <1>1 DEF Fire, TypeOK, RequestState
    <2>2. OneSender'
      BY <1>1 DEF Fire, OneSender, TypeOK
    <2>3. MapTracksLive'
      BY <1>1 DEF Fire, MapTracksLive, TypeOK
    <2>4. QueuedOnce'
      BY <1>1, SameQueue DEF Fire, TypeOK
    <2>5. QED
      BY <2>1, <2>2, <2>3, <2>4
  <1>2. CASE CallbackSend(r)
    <2>1. /\ st' \in [Request -> RequestState]
          /\ \A q \in Request : q # r => st'[q] = st[q]
          /\ st[r] = "sending"
          /\ \/ st'[r] = "unmapping"
             \/ ctxDone /\ st'[r] = "dropped"
      <3>1. st \in [Request -> RequestState] /\ st[r] = "sending"
        BY <1>2 DEF CallbackSend, TypeOK
      <3>2. CASE st' = [st EXCEPT ![r] = "unmapping"]
        BY <3>1, <3>2 DEF RequestState
      <3>3. CASE ctxDone /\ st' = [st EXCEPT ![r] = "dropped"]
        BY <3>1, <3>3 DEF RequestState
      <3>4. QED
        BY <1>2, <3>2, <3>3 DEF CallbackSend
    <2>2. TypeOK'
      <3>1. queue' \in Seq(Request) /\ Len(queue') <= QueueCap
        BY <1>2, TimerAssumption DEF CallbackSend, TypeOK
      <3>2. QED
        BY <1>2, <2>1, <3>1 DEF CallbackSend, TypeOK
    <2>3. OneSender'
      BY <1>2, <2>1 DEF CallbackSend, OneSender
    <2>4. MapTracksLive'
      BY <1>2, <2>1 DEF CallbackSend, MapTracksLive, TypeOK
    <2>5. QueuedOnce'
      <3>1. CASE queue' = Append(queue, r) /\ st' = [st EXCEPT ![r] = "unmapping"]
        <4>1. r \notin Range(queue)
          BY <2>1 DEF Range, QueuedOnce, TypeOK
        <4>2. QED
          BY <2>1, <3>1, <4>1, AppendOnce DEF TypeOK
      <3>2. CASE UNCHANGED queue /\ st' = [st EXCEPT ![r] = "dropped"]
        BY <2>1, <3>2, SameQueue
      <3>3. QED
        BY <1>2, <3>1, <3>2 DEF CallbackSend
    <2>6. QED
      BY <2>2, <2>3, <2>4, <2>5
  <1>3. CASE CallbackDelete(r)
    <2>1. TypeOK'
      BY <1>3 DEF CallbackDelete, TypeOK, RequestState
    <2>2. OneSender'
      BY <1>3 DEF CallbackDelete, OneSender, TypeOK
    <2>3. MapTracksLive'
      <3> SUFFICES ASSUME NEW j \in Key, timers'[j] # NoTimer
                   PROVE  /\ key'[timers'[j]] = j
                          /\ \/ st'[timers'[j]] \in {"armed", "sending", "unmapping"}
                             \/ ctxDone' /\ st'[timers'[j]] = "dropped"
        BY DEF MapTracksLive
      <3>1. j # key[r] /\ timers'[j] = timers[j] /\ timers[j] \in Request
        BY <1>3 DEF CallbackDelete, TypeOK
      <3>2. timers[j] # r
        BY <3>1 DEF MapTracksLive, NoTimer
      <3>3. QED
        BY <1>3, <3>1, <3>2 DEF CallbackDelete, MapTracksLive, TypeOK
    <2>4. QueuedOnce'
      BY <1>3, SameQueue DEF CallbackDelete, TypeOK
    <2>5. QED
      BY <2>1, <2>2, <2>3, <2>4
  <1>4. QED
    BY <1>1, <1>2, <1>3 DEF Callback

LEMMA TakeIInv ==
  ASSUME IInv, NEW w \in Worker, Take(w)
  PROVE  IInv'
  <1> USE DEF IInv
  <1>1. w \in Thread
    BY DEF Thread
  <1>2. /\ queue \in Seq(Request) /\ queue # <<>>
        /\ queue' \in Seq(Request)
        /\ Len(queue') = Len(queue) - 1
        /\ \A i \in 1..Len(queue') : queue'[i] = queue[i + 1]
        /\ Head(queue) \in Request
    BY DEF Take, TypeOK
  <1>3. TypeOK'
    <2>1. Len(queue') <= QueueCap
      BY <1>2, TimerAssumption DEF TypeOK
    <2>2. QED
      BY <1>1, <1>2, <2>1 DEF Take, TypeOK, ThreadState
  <1>4. OneSender'
    BY <1>1 DEF Take, OneSender, TypeOK
  <1>5. MapTracksLive'
    BY DEF Take, MapTracksLive
  <1>6. QueuedOnce'
    BY <1>2 DEF Take, QueuedOnce
  <1>7. QED
    BY <1>3, <1>4, <1>5, <1>6

(* The steps that only move a thread from one place to another.               *)
LEMMA MoveIInv ==
  ASSUME IInv, NEW p \in Thread, UNCHANGED <<mutex, timers, st, key, queue, ctxDone>>,
         NEW s \in ThreadState \ {"sending", "handling"}, pc' = [pc EXCEPT ![p] = s],
         pc[p] # "sending",
         todo' \in [Thread -> SUBSET Key],
         held' \in [Thread -> Request \cup {NoTimer}],
         \A q \in Thread : q # p => held'[q] = held[q]
  PROVE  IInv'
  <1> USE DEF IInv
  <1>1. TypeOK'
    BY DEF TypeOK
  <1>2. OneSender'
    BY DEF OneSender, TypeOK
  <1>3. MapTracksLive'
    BY DEF MapTracksLive
  <1>4. QueuedOnce'
    BY SameQueue
  <1>5. QED
    BY <1>1, <1>2, <1>3, <1>4

(* Every step of the manager preserves the invariant, one case per action.    *)
LEMMA NextIInv == IInv /\ [Next]_vars => IInv'
  <1> SUFFICES ASSUME IInv, [Next]_vars PROVE IInv'
    OBVIOUS
  <1>0. /\ TypeOK
        /\ \A p \in Thread : p \in Caller \/ p \in Worker
        /\ Caller \subseteq Thread /\ Worker \subseteq Thread
    BY DEF IInv, Thread
  <1>1. ASSUME NEW c \in Caller, CallerStep(c) PROVE IInv'
    <2>1. CASE StopAll(c)
      BY <2>1, StopAllIInv
    <2>2. CASE InitializeExamTimers(c)
      BY <2>2, <1>0, MoveIInv DEF InitializeExamTimers, TypeOK, ThreadState
    <2>3. ASSUME NEW e \in Exam, SetExamTimers(c, e) PROVE IInv'
      BY <2>3, <1>0, MoveIInv, KeysOfType DEF SetExamTimers, TypeOK, ThreadState
    <2>4. ASSUME NEW e \in Exam, CancelExamTimers(c, e) PROVE IInv'
      BY <2>4, <1>0, MoveIInv, KeysOfType DEF CancelExamTimers, TypeOK, ThreadState
    <2>5. QED
      BY <1>1, <2>1, <2>2, <2>3, <2>4 DEF CallerStep
  <1>2. ASSUME NEW p \in Thread, TimerStep(p) PROVE IInv'
    BY <1>2, SetFutureIInv, SetOverdueIInv, CancelIInv, SendOverdueIInv DEF TimerStep
  <1>3. ASSUME NEW w \in Worker, Take(w) \/ Exit(w) \/ HandlerStep(w) PROVE IInv'
    <2>1. CASE Take(w)
      BY <2>1, TakeIInv
    <2>2. CASE Exit(w)
      BY <2>2, <1>0, MoveIInv DEF Exit, TypeOK, ThreadState
    <2>3. CASE HandlerDone(w)
      BY <2>3, <1>0, MoveIInv DEF HandlerDone, TypeOK, ThreadState
    <2>4. CASE Rearm(w)
      <3>1. key[held[w]] \in Key
        BY <2>4, <1>0 DEF Rearm, IInv, OneSender, TypeOK
      <3>2. QED
        BY <2>4, <3>1, <1>0, MoveIInv DEF Rearm, TypeOK, ThreadState
    <2>5. CASE CancelOwnExam(w)
      BY <2>5, <1>0, MoveIInv, KeysOfType DEF CancelOwnExam, TypeOK, ThreadState
    <2>6. QED
      BY <1>3, <2>1, <2>2, <2>3, <2>4, <2>5 DEF HandlerStep
  <1>4. ASSUME NEW r \in Request, Fire(r) \/ Callback(r) PROVE IInv'
    BY <1>4, CallbackIInv
  <1>5. CASE UNCHANGED vars
    BY <1>5, SameQueue DEF vars, IInv, TypeOK, OneSender, MapTracksLive
  <1>6. QED
    BY <1>1, <1>2, <1>3, <1>4, <1>5 DEF Next

(* Type correctness: in every behaviour the manager's variables keep their    *)
(* types and eventQueue never exceeds its capacity, for any instance.         *)
THEOREM TimerTypeCorrect == Spec => []TypeOK
  <1>1. IInv => TypeOK
    BY DEF IInv
  <1>2. QED
    BY <1>1, InitIInv, NextIInv, PTL DEF Spec

(* The map never holds a timer of another key or one whose callback is over.  *)
THEOREM TimerMapTracksLive == Spec => []MapTracksLive
  <1>1. IInv => MapTracksLive
    BY DEF IInv
  <1>2. QED
    BY <1>1, InitIInv, NextIInv, PTL DEF Spec

(* An event is in eventQueue at most once and only after its own send.        *)
THEOREM TimerQueuedOnce == Spec => []QueuedOnce
  <1>1. IInv => QueuedOnce
    BY DEF IInv
  <1>2. QED
    BY <1>1, InitIInv, NextIInv, PTL DEF Spec

(* Only one goroutine waits for room in the queue inside the mutex.           *)
THEOREM TimerOneSender == Spec => []OneSender
  <1>1. IInv => OneSender
    BY DEF IInv
  <1>2. QED
    BY <1>1, InitIInv, NextIInv, PTL DEF Spec

-----------------------------------------------------------------------------
(* ExamTimer implements TimerService: under the invariant every step of the   *)
(* manager is, seen through Outcome, one step of the service or none.         *)

(* What Outcome says, and when it says the same after a step.                 *)
LEMMA OutcomeCases ==
  ASSUME NEW r \in Request
  PROVE  /\ st[r] = "unused" => Outcome(r) = "unused"
         /\ st[r] \in {"stopped", "dropped"} => Outcome(r) = "dropped"
         /\ st[r] \in {"armed", "sending", "inline"} => Outcome(r) = "pending"
         /\ st[r] \in {"unmapping", "sent"} =>
              Outcome(r) = IF r \in Range(queue) THEN "pending" ELSE "delivered"
  BY DEF Outcome

LEMMA OutcomeCasesAfter ==
  ASSUME NEW r \in Request
  PROVE  /\ st'[r] = "unused" => Outcome(r)' = "unused"
         /\ st'[r] \in {"stopped", "dropped"} => Outcome(r)' = "dropped"
         /\ st'[r] \in {"armed", "sending", "inline"} => Outcome(r)' = "pending"
         /\ st'[r] \in {"unmapping", "sent"} =>
              Outcome(r)' = IF r \in Range(queue') THEN "pending" ELSE "delivered"
  BY DEF Outcome

LEMMA OutcomeKept ==
  ASSUME NEW r \in Request, st'[r] = st[r],
         r \in Range(queue') <=> r \in Range(queue)
  PROVE  Outcome(r)' = Outcome(r)
  BY DEF Outcome

LEMMA RangeOfAppend ==
  ASSUME NEW r \in Request, queue \in Seq(Request)
  PROVE  Range(Append(queue, r)) = Range(queue) \cup {r}
  <1>1. /\ Len(Append(queue, r)) = Len(queue) + 1
        /\ \A i \in 1..Len(queue) : Append(queue, r)[i] = queue[i]
        /\ Append(queue, r)[Len(queue) + 1] = r
        /\ DOMAIN queue = 1..Len(queue)
        /\ DOMAIN Append(queue, r) = 1..(Len(queue) + 1)
        /\ Len(queue) \in Nat
    OBVIOUS
  <1>2. QED
    BY <1>1 DEF Range

(* A Set: the new request is pending and the one its Stop caught is dropped.  *)
LEMMA AskStep ==
  ASSUME IInv, NEW k \in Key, NEW r \in Request, Fresh(r),
         NEW s \in {"armed", "inline"}, st' = [StopExisting(k) EXCEPT ![r] = s],
         key' = [key EXCEPT ![r] = k], UNCHANGED <<queue, ctxDone>>
  PROVE  Service!Ask(r, k)
  <1> DEFINE old == {q \in Request : q = timers[k] /\ st[q] = "armed"}
  <1>1. TypeOK /\ MapTracksLive /\ st[r] = "unused"
    BY DEF IInv, Fresh
  <1>2. \A q \in Request : st'[q] = IF q = r THEN s
                                    ELSE IF q \in old THEN "stopped" ELSE st[q]
    BY <1>1 DEF StopExisting, TypeOK
  <1>3. \A q \in old : key[q] = k /\ Outcome(q) = "pending"
    <2>1. \A q \in old : q # NoTimer
      BY DEF Request, NoTimer
    <2>2. QED
      BY <1>1, <2>1, OutcomeCases DEF MapTracksLive
  <1>4. \A q \in Request : Outcome(q)' = IF q = r THEN "pending"
                                         ELSE IF q \in old THEN "dropped"
                                         ELSE Outcome(q)
    BY <1>2, OutcomeCasesAfter, OutcomeKept
  <1>5. Outcome(r) = "unused"
    BY <1>1, OutcomeCases
  <1>6. old \in SUBSET {q \in Request : key[q] = k /\
                          [x \in Request |-> Outcome(x)][q] = "pending"}
    BY <1>3
  <1>7. [q \in Request |-> Outcome(q)]'
          = [q \in Request |-> IF q = r THEN "pending"
                               ELSE IF q \in old THEN "dropped"
                               ELSE [x \in Request |-> Outcome(x)][q]]
    BY <1>4
  <1>8. QED
    BY <1>5, <1>6, <1>7 DEF Service!Ask

(* A cancellation drops at most the request whose timer it stopped.           *)
LEMMA DropStep ==
  ASSUME IInv, NEW p \in Thread, NEW k \in Key, CancelExamSessionTimer(p, k)
  PROVE  Service!Drop(k)
  <1> DEFINE old == {q \in Request : q = timers[k] /\ st[q] = "armed"}
  <1>1. TypeOK /\ MapTracksLive /\ UNCHANGED <<key, queue, ctxDone>>
    BY DEF IInv, CancelExamSessionTimer
  <1>2. \A q \in Request : st'[q] = IF q \in old THEN "stopped" ELSE st[q]
    BY <1>1 DEF StopExisting, TypeOK, CancelExamSessionTimer
  <1>3. \A q \in old : key[q] = k /\ Outcome(q) = "pending"
    <2>1. \A q \in old : q # NoTimer
      BY DEF Request, NoTimer
    <2>2. QED
      BY <1>1, <2>1, OutcomeCases DEF MapTracksLive
  <1>4. \A q \in Request : Outcome(q)' = IF q \in old THEN "dropped" ELSE Outcome(q)
    BY <1>1, <1>2, OutcomeCasesAfter, OutcomeKept
  <1>5. old \in SUBSET {q \in Request : key[q] = k /\
                          [x \in Request |-> Outcome(x)][q] = "pending"}
    BY <1>3
  <1>6. [q \in Request |-> Outcome(q)]'
          = [q \in Request |-> IF q \in old THEN "dropped"
                               ELSE [x \in Request |-> Outcome(x)][q]]
    BY <1>4
  <1>7. QED
    BY <1>1, <1>5, <1>6 DEF Service!Drop

(* StopAll drops the requests whose timers it stopped.                        *)
LEMMA ShutStep ==
  ASSUME IInv, NEW c \in Caller, StopAll(c)
  PROVE  Service!Shut
  <1> DEFINE old == {q \in Request : st[q] = "armed" /\ \E k \in Key : timers[k] = q}
  <1>1. TypeOK /\ UNCHANGED <<key, queue>> /\ ctxDone' = TRUE
    BY DEF IInv, StopAll
  <1>2. \A q \in Request : st'[q] = IF q \in old THEN "stopped" ELSE st[q]
    BY DEF StopAll
  <1>3. \A q \in old : Outcome(q) = "pending"
    BY OutcomeCases
  <1>4. \A q \in Request : Outcome(q)' = IF q \in old THEN "dropped" ELSE Outcome(q)
    BY <1>1, <1>2, OutcomeCasesAfter, OutcomeKept
  <1>5. old \in SUBSET {q \in Request : [x \in Request |-> Outcome(x)][q] = "pending"}
    BY <1>3
  <1>6. [q \in Request |-> Outcome(q)]'
          = [q \in Request |-> IF q \in old THEN "dropped"
                               ELSE [x \in Request |-> Outcome(x)][q]]
    BY <1>4
  <1>7. QED
    BY <1>1, <1>5, <1>6 DEF Service!Shut

(* A send keeps the request pending; given up, it is because of the stop.     *)
LEMMA SendStep ==
  ASSUME IInv, NEW r \in Request, st[r] \in {"sending", "inline"},
         UNCHANGED <<key, ctxDone>>,
         \/ /\ queue' = Append(queue, r)
            /\ \E s \in {"unmapping", "sent"} : st' = [st EXCEPT ![r] = s]
         \/ ctxDone /\ st' = [st EXCEPT ![r] = "dropped"] /\ UNCHANGED queue
  PROVE  Service!GiveUp(r) \/ UNCHANGED Service!svars
  <1>1. TypeOK /\ Outcome(r) = "pending"
    BY OutcomeCases DEF IInv
  <1>2. CASE /\ queue' = Append(queue, r)
             /\ \E s \in {"unmapping", "sent"} : st' = [st EXCEPT ![r] = s]
    <2>1. Range(queue') = Range(queue) \cup {r}
      BY <1>1, <1>2, RangeOfAppend DEF TypeOK
    <2>2. Outcome(r)' = "pending"
      <3>1. st'[r] \in {"unmapping", "sent"}
        BY <1>1, <1>2 DEF TypeOK
      <3>2. QED
        BY <2>1, <3>1, OutcomeCasesAfter
    <2>3. \A q \in Request : q # r => Outcome(q)' = Outcome(q)
      <3>1. \A q \in Request : q # r => st'[q] = st[q]
        BY <1>1, <1>2 DEF TypeOK
      <3>2. QED
        BY <2>1, <3>1, OutcomeKept
    <2>4. QED
      BY <1>1, <2>2, <2>3 DEF Service!svars
  <1>3. CASE ctxDone /\ st' = [st EXCEPT ![r] = "dropped"] /\ UNCHANGED queue
    <2>1. st'[r] = "dropped" /\ \A q \in Request : q # r => st'[q] = st[q]
      BY <1>1, <1>3 DEF TypeOK
    <2>2. Outcome(r)' = "dropped" /\ \A q \in Request : q # r => Outcome(q)' = Outcome(q)
      BY <1>3, <2>1, OutcomeCasesAfter, OutcomeKept
    <2>3. [q \in Request |-> Outcome(q)]'
            = [[q \in Request |-> Outcome(q)] EXCEPT ![r] = "dropped"]
      BY <2>2
    <2>4. QED
      BY <1>1, <1>3, <2>3 DEF Service!GiveUp
  <1>4. QED
    BY <1>2, <1>3

(* A worker that takes an event delivers it: QueuedOnce makes it the last one *)
(* of its request.                                                            *)
LEMMA DeliverStep ==
  ASSUME IInv, NEW w \in Worker, Take(w)
  PROVE  \E r \in Request : Service!Deliver(r)
  <1>1. TypeOK /\ QueuedOnce /\ UNCHANGED <<st, key, ctxDone>>
    BY DEF IInv, Take
  <1>2. PICK r \in Request : r = Head(queue)
    BY <1>1 DEF Take, TypeOK
  <1>3. /\ queue \in Seq(Request) /\ queue # <<>>
        /\ Len(queue) \in Nat \ {0} /\ r = queue[1]
        /\ DOMAIN queue = 1..Len(queue)
        /\ DOMAIN queue' = 1..(Len(queue) - 1)
        /\ \A i \in 1..(Len(queue) - 1) : queue'[i] = queue[i + 1]
    BY <1>1, <1>2 DEF Take, TypeOK
  <1>4. r \in Range(queue) /\ r \notin Range(queue')
    <2>1. \A i \in 1..(Len(queue) - 1) : queue[i + 1] # queue[1]
      BY <1>1, <1>3 DEF QueuedOnce
    <2>2. QED
      BY <1>3, <2>1 DEF Range
  <1>5. ASSUME NEW q \in Request, q # r
        PROVE  q \in Range(queue') <=> q \in Range(queue)
    <2>1. ASSUME NEW i \in 1..Len(queue), queue[i] = q
          PROVE  \E j \in 1..(Len(queue) - 1) : queue'[j] = q
      <3>1. i # 1 /\ i - 1 \in 1..(Len(queue) - 1) /\ (i - 1) + 1 = i
        BY <1>3, <1>5, <2>1
      <3>2. queue'[i - 1] = queue[i]
        BY <1>3, <3>1
      <3>3. QED
        BY <2>1, <3>1, <3>2
    <2>2. ASSUME NEW j \in 1..(Len(queue) - 1), queue'[j] = q
          PROVE  \E i \in 1..Len(queue) : queue[i] = q
      BY <1>3, <2>2
    <2>3. QED
      BY <1>3, <2>1, <2>2 DEF Range
  <1>6. st[r] \in {"unmapping", "sent"}
    BY <1>1, <1>3 DEF QueuedOnce
  <1>7. Outcome(r) = "pending" /\ Outcome(r)' = "delivered"
    BY <1>1, <1>4, <1>6, OutcomeCases, OutcomeCasesAfter
  <1>8. \A q \in Request : q # r => Outcome(q)' = Outcome(q)
    BY <1>1, <1>5, OutcomeKept
  <1>9. [q \in Request |-> Outcome(q)]'
          = [[q \in Request |-> Outcome(q)] EXCEPT ![r] = "delivered"]
    BY <1>7, <1>8
  <1>10. QED
    BY <1>1, <1>7, <1>9 DEF Service!Deliver

(* Steps that the callers of the service do not see.                          *)
LEMMA UnseenStep ==
  ASSUME UNCHANGED <<key, ctxDone, queue>>,
         \A r \in Request : \/ st'[r] = st[r]
                            \/ {st[r], st'[r]} \subseteq {"armed", "sending", "inline"}
                            \/ {st[r], st'[r]} \subseteq {"unmapping", "sent"}
  PROVE  UNCHANGED Service!svars
  <1>1. ASSUME NEW r \in Request PROVE Outcome(r)' = Outcome(r)
    BY OutcomeCases, OutcomeCasesAfter, OutcomeKept
  <1>2. QED
    BY <1>1 DEF Service!svars

LEMMA StepSimulation == IInv /\ [Next]_vars => [Service!SNext]_Service!svars
  <1> SUFFICES ASSUME IInv, [Next]_vars PROVE Service!SNext \/ UNCHANGED Service!svars
    OBVIOUS
  <1>0. TypeOK /\ OneSender /\ Caller \subseteq Thread /\ Worker \subseteq Thread
    BY DEF IInv, Thread
  <1>1. ASSUME NEW c \in Caller, CallerStep(c)
        PROVE  Service!SNext \/ UNCHANGED Service!svars
    <2>1. CASE StopAll(c)
      BY <2>1, ShutStep DEF Service!SNext
    <2>2. CASE ~StopAll(c)
      <3>1. UNCHANGED <<st, key, queue, ctxDone>>
        BY <1>1, <2>2 DEF CallerStep, InitializeExamTimers, SetExamTimers, CancelExamTimers
      <3>2. QED
        BY <3>1, UnseenStep
    <2>3. QED
      BY <2>1, <2>2
  <1>2. ASSUME NEW p \in Thread, TimerStep(p)
        PROVE  Service!SNext \/ UNCHANGED Service!svars
    <2>1. ASSUME NEW k \in Key, NEW r \in Request, SetFuture(p, k, r)
          PROVE  Service!SNext
      <3>1. Service!Ask(r, k)
        BY <2>1, AskStep DEF SetFuture
      <3>2. QED
        BY <3>1 DEF Service!SNext
    <2>2. ASSUME NEW k \in Key, NEW r \in Request, SetOverdue(p, k, r)
          PROVE  Service!SNext
      <3>1. Service!Ask(r, k)
        BY <2>2, AskStep DEF SetOverdue
      <3>2. QED
        BY <3>1 DEF Service!SNext
    <2>3. ASSUME NEW k \in Key, CancelExamSessionTimer(p, k)
          PROVE  Service!SNext
      BY <2>3, DropStep DEF Service!SNext
    <2>4. CASE SendOverdue(p)
      <3>1. held[p] \in Request /\ st[held[p]] = "inline"
        BY <1>0, <2>4 DEF SendOverdue, OneSender
      <3>2. Service!GiveUp(held[p]) \/ UNCHANGED Service!svars
        BY <2>4, <3>1, SendStep DEF SendOverdue
      <3>3. QED
        BY <3>1, <3>2 DEF Service!SNext
    <2>5. QED
      BY <1>2, <2>1, <2>2, <2>3, <2>4 DEF TimerStep
  <1>3. ASSUME NEW w \in Worker, Take(w) \/ Exit(w) \/ HandlerStep(w)
        PROVE  Service!SNext \/ UNCHANGED Service!svars
    <2>1. CASE Take(w)
      BY <2>1, DeliverStep DEF Service!SNext
    <2>2. CASE Exit(w) \/ HandlerStep(w)
      <3>1. UNCHANGED <<st, key, queue, ctxDone>>
        BY <2>2 DEF Exit, HandlerStep, HandlerDone, Rearm, CancelOwnExam
      <3>2. QED
        BY <3>1, UnseenStep
    <2>3. QED
      BY <1>3, <2>1, <2>2
  <1>4. ASSUME NEW r \in Request, Fire(r) \/ Callback(r)
        PROVE  Service!SNext \/ UNCHANGED Service!svars
    <2>1. CASE CallbackSend(r)
      BY <2>1, SendStep DEF CallbackSend, Service!SNext
    <2>2. CASE Fire(r) \/ CallbackDelete(r)
      <3>1. /\ UNCHANGED <<key, queue, ctxDone>>
            /\ \/ st[r] = "armed" /\ st' = [st EXCEPT ![r] = "sending"]
               \/ st[r] = "unmapping" /\ st' = [st EXCEPT ![r] = "sent"]
        BY <2>2 DEF Fire, CallbackDelete
      <3>2. \A q \in Request : \/ st'[q] = st[q]
                               \/ {st[q], st'[q]} \subseteq {"armed", "sending", "inline"}
                               \/ {st[q], st'[q]} \subseteq {"unmapping", "sent"}
        BY <1>0, <3>1 DEF TypeOK
      <3>3. QED
        BY <3>1, <3>2, UnseenStep
    <2>3. QED
      BY <1>4, <2>1, <2>2 DEF Callback
  <1>5. CASE UNCHANGED vars
    BY <1>5, UnseenStep DEF vars
  <1>6. QED
    BY <1>1, <1>2, <1>3, <1>4, <1>5 DEF Next

(* The manager implements the service that its callers rely on: no firing of  *)
(* a timer is lost, repeated, or dropped for another reason than a newer Set, *)
(* a Cancel or a stop, for any number of threads and any capacity of the      *)
(* queue.                                                                     *)
THEOREM TimerImplementsService == Spec => ImplementsService
  <1>1. Init => Service!SInit
    <2> SUFFICES ASSUME Init PROVE Service!SInit
      OBVIOUS
    <2>1. \A r \in Request : st[r] = "unused"
      BY DEF Init
    <2>2. key \in [Request -> Key] /\ ctxDone = FALSE
      BY InitIInv DEF Init, IInv, TypeOK
    <2>3. [r \in Request |-> Outcome(r)] = [r \in Request |-> "unused"]
      BY <2>1, OutcomeCases
    <2>4. QED
      BY <2>2, <2>3 DEF Service!SInit
  <1>2. QED
    BY <1>1, InitIInv, NextIInv, StepSimulation, PTL
       DEF Spec, ImplementsService, Service!SSpec

===============================================================================
