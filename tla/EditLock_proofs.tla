---------------------------- MODULE EditLock_proofs ----------------------------
(* Proofs about EditLock, for any users, tabs, exams, texts, leases and bounds. *)
EXTENDS EditLock, TLAPS

(* The parts of TypeOK. *)
LockOK ==
  /\ holder \in [Key -> User \union {NoUser}]
  /\ ttl \in [Key -> 0..EditLease]
  /\ \A k \in Key : ttl[k] = 0 <=> holder[k] = NoUser

ExamOK ==
  /\ status \in [Exam -> {"00", "02", "12", "16"}]
  /\ stamp \in [Exam -> Nat] /\ writes \in Nat
  /\ late \in BOOLEAN

Place == {"idle", "edit", "lock", "exist", "stamp", "check", "write", "release"}

PcOK == pc \in [Client -> Place]

Fits(j) == j.rest \subseteq j.keys /\ (j.kind \in OnExams => j.keys \subseteq Exam)

JobOK == job \in [Client -> Job] /\ \A c \in Client : Fits(job[c])

LeftOK == left \in [Client -> [Key -> 0..EditLease]]

AskOK == asked \in 0..MaxAsk

(* Only requests on exams read exams. *)
KindOK == \A c \in Client :
  /\ pc[c] = "lock" => job[c].kind \in OnExams \union {"save"}
  /\ pc[c] \in {"exist", "stamp", "check"} => job[c].kind \in OnExams

LEMMA TypeParts == TypeOK <=> LockOK /\ ExamOK /\ PcOK /\ JobOK /\ LeftOK /\ AskOK
BY DEF TypeOK, LockOK, ExamOK, PcOK, Place, JobOK, Fits, LeftOK, AskOK

(* A transaction has read no update time from the future, and an exam whose    *)
(* update time is one it has read is still as the check found it.              *)
Past ==
  /\ \A e \in Exam : stamp[e] <= writes
  /\ \A c \in Client : \A s \in job[c].seen : s <= writes

Fresh(c) ==
  pc[c] = "write" /\ job[c].kind \in {"publish", "void"} =>
    \A e \in job[c].keys : stamp[e] \in job[c].seen => status[e] \in From(job[c].kind)

(* An exam that is about to be deleted is as the check found it as long as the *)
(* lease runs: nothing else tells the deletion of a publication.               *)
Guarded(c) ==
  pc[c] = "write" /\ job[c].kind = "delete" /\ OneTab /\ ~late =>
    \A e \in job[c].keys : left[c][e] > 0 => status[e] \in From("delete")

Order == Past /\ \A c \in Client : Fresh(c) /\ Guarded(c)

-----------------------------------------------------------------------------
(* The scripts keep the locks well formed. *)

(* TryLock and RefreshLock: the caller's lock and the lease it is told of. *)
LEMMA GrantTyped ==
  ASSUME LockOK, LeftOK, NEW c \in Client, NEW k \in Key, NEW n \in 1..EditLease, Grant(c, k, n)
  PROVE  LockOK' /\ LeftOK'
<1> USE LockAssumption
<1>1. holder' \in [Key -> User \union {NoUser}]
  BY DEF LockOK, Grant
<1>2. ttl' \in [Key -> 0..EditLease]
  BY DEF LockOK, Grant, Expire
<1>3. \A x \in Key : ttl'[x] = 0 <=> holder'[x] = NoUser
  BY DEF LockOK, Grant, Expire
<1>4. left' \in [Client -> [Key -> 0..EditLease]]
  <2>1. [left[c] EXCEPT ![k] = n] \in [Key -> 0..EditLease]
    BY DEF LeftOK
  <2> QED  BY <2>1 DEF LeftOK, Grant
<1> QED  BY <1>1, <1>2, <1>3, <1>4 DEF LockOK, LeftOK

(* ReleaseLock. *)
LEMMA UnlockTyped ==
  ASSUME LockOK, NEW c \in Client, NEW k \in Key, Unlock(c, k)
  PROVE  LockOK'
BY LockAssumption DEF LockOK, Unlock, Freed, Own

(* A request that ends promises nothing. *)
LEMMA QuitTyped ==
  ASSUME PcOK, JobOK, LeftOK, NEW c \in Client, Quit(c)
  PROVE  PcOK' /\ JobOK' /\ LeftOK'
<1> USE LockAssumption
<1>1. NoJob \in Job /\ Fits(NoJob)
  BY DEF NoJob, Job, Fits, OnExams
<1>2. Nothing \in [Key -> 0..EditLease]
  BY DEF Nothing
<1> QED  BY <1>1, <1>2 DEF PcOK, Place, JobOK, LeftOK, Quit, Goto, Forget

LEMMA RestTyped ==
  ASSUME JobOK, NEW c \in Client, NEW keys \in SUBSET job[c].keys, Rest(c, keys)
  PROVE  JobOK'
<1> DEFINE j == [job[c] EXCEPT !.rest = keys]
<1>1. job[c] \in Job /\ Fits(job[c])
  BY DEF JobOK
<1>2. j \in Job /\ Fits(j)
  BY <1>1 DEF Job, Fits
<1>3. job' = [job EXCEPT ![c] = j]
  BY DEF Rest
<1> HIDE DEF j
<1> QED  BY <1>2, <1>3 DEF JobOK

LEMMA GotoTyped ==
  ASSUME PcOK, NEW c \in Client, NEW l \in Place, Goto(c, l)
  PROVE  PcOK'
BY DEF PcOK, Goto

(* The part of the state a step leaves alone. *)
LEMMA Kept ==
  /\ LockOK /\ UNCHANGED locks => LockOK'
  /\ ExamOK /\ UNCHANGED exams => ExamOK'
  /\ PcOK /\ UNCHANGED pc => PcOK'
  /\ JobOK /\ UNCHANGED job => JobOK'
  /\ LeftOK /\ UNCHANGED left => LeftOK'
  /\ AskOK /\ UNCHANGED asked => AskOK'
BY DEF LockOK, locks, ExamOK, exams, PcOK, JobOK, LeftOK, AskOK

LEMMA Asked ==
  ASSUME AskOK, asked < MaxAsk, asked' = asked + 1
  PROVE  AskOK'
BY LockAssumption DEF AskOK

LEMMA LeaseTyped ==
  ASSUME NEW kind
  PROVE  Lease(kind) \in 1..EditLease
BY LockAssumption DEF Lease

(* The keys of a request. *)
LEMMA JobKeys ==
  ASSUME JobOK, NEW c \in Client
  PROVE  /\ job[c] \in Job
         /\ job[c].keys \subseteq Key /\ job[c].rest \subseteq job[c].keys
         /\ job[c].kind \in OnExams => job[c].keys \subseteq Exam
BY DEF JobOK, Fits, Job

-----------------------------------------------------------------------------
(* Type correctness. *)

Typed == LockOK /\ ExamOK /\ PcOK /\ JobOK /\ LeftOK /\ AskOK

LEMMA InitTyped == Init => Typed
<1> SUFFICES ASSUME Init PROVE Typed
  OBVIOUS
<1> USE LockAssumption DEF Init
<1>1. LockOK /\ LeftOK
  <2>1. Nothing \in [Key -> 0..EditLease] /\ \A k \in Key : Nothing[k] = 0
    BY DEF Nothing
  <2>2. LockOK
    BY <2>1 DEF LockOK
  <2>3. LeftOK
    BY <2>1 DEF LeftOK
  <2> QED  BY <2>2, <2>3
<1>2. ExamOK /\ PcOK /\ AskOK
  <2>1. late \in BOOLEAN
    BY Zenon
  <2>2. ExamOK
    BY <2>1 DEF ExamOK
  <2>3. PcOK /\ AskOK
    BY DEF PcOK, Place, AskOK
  <2> QED  BY <2>2, <2>3
<1>3. JobOK
  <2>1. NoJob \in Job /\ Fits(NoJob)
    BY DEF NoJob, Job, Fits, OnExams
  <2> QED  BY <2>1 DEF JobOK
<1> QED  BY <1>1, <1>2, <1>3 DEF Typed

(* An editing lease. *)
LEMMA EditTyped ==
  ASSUME Typed, NEW c \in Client, Open(c) \/ Refresh(c) \/ Close(c)
  PROVE  Typed'
<1> USE LockAssumption, Kept DEF Typed
<1>0. EditLease \in 1..EditLease
  OBVIOUS
<1>1. CASE Open(c)
  <2>1. PICK k \in Key :
          /\ Grant(c, k, EditLease)
          /\ job' = [job EXCEPT ![c] = [kind |-> "edit", keys |-> {k}, rest |-> {}, seen |-> {}]]
    BY <1>1 DEF Open
  <2> DEFINE j == [kind |-> "edit", keys |-> {k}, rest |-> {}, seen |-> {}]
  <2>2. j \in Job /\ Fits(j)
    <3>1. "edit" \in Kinds
      BY <1>1 DEF Open
    <3> QED  BY <3>1 DEF Job, Fits, OnExams
  <2>3. JobOK'
    <3>1. job' = [job EXCEPT ![c] = j]
      BY <2>1
    <3> HIDE DEF j
    <3> QED  BY <2>2, <3>1 DEF JobOK
  <2>4. LockOK' /\ LeftOK'
    BY <1>0, <2>1, GrantTyped
  <2>5. PcOK'
    BY <1>1, GotoTyped DEF Open, Place
  <2> QED  BY <1>1, <2>3, <2>4, <2>5, Asked DEF Open
<1>2. CASE Refresh(c)
  <2>1. AskOK' /\ ExamOK'
    BY <1>2, Asked DEF Refresh
  <2>2. PICK k \in job[c].keys :
          \/ Own(c, k) /\ Grant(c, k, EditLease) /\ UNCHANGED <<pc, job>>
          \/ ~Own(c, k) /\ Quit(c) /\ UNCHANGED locks
    BY <1>2 DEF Refresh
  <2>3. k \in Key
    BY <2>2, JobKeys
  <2>4. CASE Grant(c, k, EditLease) /\ UNCHANGED <<pc, job>>
    BY <1>0, <2>1, <2>3, <2>4, GrantTyped
  <2>5. CASE Quit(c) /\ UNCHANGED locks
    BY <2>1, <2>5, QuitTyped
  <2> QED  BY <2>2, <2>4, <2>5
<1>3. CASE Close(c)
  <2>1. PcOK' /\ JobOK' /\ LeftOK'
    BY <1>3, QuitTyped DEF Close
  <2>2. LockOK'
    <3>1. CASE UNCHANGED locks
      BY <3>1
    <3>2. CASE \E k \in job[c].keys : Unlock(c, k)
      BY <3>2, UnlockTyped, JobKeys
    <3> QED  BY <1>3, <3>1, <3>2 DEF Close
  <2> QED  BY <1>3, <2>1, <2>2 DEF Close
<1> QED  BY <1>1, <1>2, <1>3

(* A request that locks, up to its UPDATE. *)
LEMMA LockTyped ==
  ASSUME Typed, KindOK, NEW c \in Client,
         Begin(c) \/ Lock(c) \/ Refused(c) \/ Exist(c) \/ Stamp(c) \/ Check(c)
  PROVE  Typed'
<1> USE LockAssumption, Kept DEF Typed
<1>1. CASE Begin(c)
  <2>1. PICK kind \in Kinds \ {"edit"}, keys \in SUBSET Key \ {{}} :
          /\ IF kind = "save" THEN \E k \in Text : keys = {k} ELSE keys \subseteq Exam
          /\ job' = [job EXCEPT ![c] = [kind |-> kind, keys |-> keys, rest |-> keys, seen |-> {}]]
    BY <1>1 DEF Begin
  <2> DEFINE j == [kind |-> kind, keys |-> keys, rest |-> keys, seen |-> {}]
  <2>2. j \in Job /\ Fits(j)
    BY <2>1 DEF Job, Fits, OnExams
  <2>3. job' = [job EXCEPT ![c] = j]
    BY <2>1
  <2> HIDE DEF j
  <2>4. JobOK'
    BY <2>2, <2>3 DEF JobOK
  <2>5. PcOK'
    BY <1>1, GotoTyped DEF Begin, Place
  <2> QED  BY <1>1, <2>4, <2>5, Asked DEF Begin
<1>2. CASE Lock(c)
  <2>1. PICK k \in job[c].rest :
          /\ Grant(c, k, Lease(job[c].kind))
          /\ IF job[c].rest = {k}
             THEN Goto(c, Locked(c)) /\ Rest(c, job[c].keys)
             ELSE UNCHANGED pc /\ Rest(c, job[c].rest \ {k})
    BY <1>2 DEF Lock
  <2>2. LockOK' /\ LeftOK'
    BY <2>1, JobKeys, GrantTyped, LeaseTyped
  <2>3. PcOK'
    <3>1. Locked(c) \in Place
      BY DEF Locked, Place
    <3> QED  BY <2>1, <3>1, GotoTyped
  <2>4. JobOK'
    <3>1. job[c].rest \ {k} \in SUBSET job[c].keys /\ job[c].keys \in SUBSET job[c].keys
      BY JobKeys
    <3> QED  BY <2>1, <3>1, RestTyped
  <2> QED  BY <1>2, <2>2, <2>3, <2>4 DEF Lock
<1>3. CASE Refused(c)
  BY <1>3, QuitTyped DEF Refused
<1>4. CASE Exist(c)
  <2>1. PcOK' /\ JobOK' /\ LeftOK'
    BY <1>4, QuitTyped, GotoTyped DEF Exist, Place
  <2> QED  BY <1>4, <2>1 DEF Exist
<1>5. CASE Stamp(c)
  <2> DEFINE j == [job[c] EXCEPT !.seen = {stamp[e] : e \in job[c].keys}]
  <2>1. job[c] \in Job /\ Fits(job[c])
    BY DEF JobOK
  <2>2. {stamp[e] : e \in job[c].keys} \subseteq Nat
    <3>1. job[c].keys \subseteq Exam
      BY <1>5, JobKeys DEF KindOK, Stamp
    <3> QED  BY <3>1 DEF ExamOK
  <2>4. j \in Job /\ Fits(j)
    BY <2>1, <2>2 DEF Job, Fits
  <2>5. job' = [job EXCEPT ![c] = j]
    BY <1>5 DEF Stamp
  <2> HIDE DEF j
  <2>6. JobOK'
    BY <2>4, <2>5 DEF JobOK
  <2>7. PcOK'
    BY <1>5, GotoTyped DEF Stamp, Place
  <2> QED  BY <1>5, <2>6, <2>7 DEF Stamp
<1>6. CASE Check(c)
  <2>1. PcOK'
    BY <1>6, GotoTyped DEF Check, Place
  <2> QED  BY <1>6, <2>1 DEF Check
<1> QED  BY <1>1, <1>2, <1>3, <1>4, <1>5, <1>6

(* The rest of a request. *)
LEMMA WorkTyped ==
  ASSUME Typed, KindOK, NEW c \in Client, Write(c) \/ Save(c) \/ Release(c) \/ Fail(c)
  PROVE  Typed'
<1> USE LockAssumption, Kept DEF Typed
<1>1. CASE Write(c)
  <2>1. PcOK'
    BY <1>1, GotoTyped DEF Write, Place
  <2>2. ExamOK'
    <3>1. CASE UNCHANGED exams
      BY <3>1
    <3>2. CASE ~UNCHANGED exams
      <4>1. status' \in [Exam -> {"00", "02", "12", "16"}]
        BY <1>1, <3>2 DEF Write, ExamOK, To
      <4>2. stamp' \in [Exam -> Nat] /\ writes' \in Nat
        BY <1>1, <3>2 DEF Write, ExamOK
      <4>3. late' \in BOOLEAN
        <5>1. late' = (late \/ \E e \in job[c].keys : left[c][e] = 0)
          BY <1>1, <3>2 DEF Write
        <5> QED  BY <5>1, Zenon
      <4> QED  BY <4>1, <4>2, <4>3 DEF ExamOK
    <3> QED  BY <3>1, <3>2
  <2> QED  BY <1>1, <2>1, <2>2 DEF Write
<1>2. CASE Save(c)
  <2>1. PcOK' /\ JobOK' /\ LeftOK'
    BY <1>2, QuitTyped, GotoTyped DEF Save, Place
  <2> QED  BY <1>2, <2>1 DEF Save
<1>3. CASE Release(c)
  <2>1. PICK k \in job[c].rest :
          /\ Unlock(c, k) \/ UNCHANGED locks
          /\ IF job[c].rest = {k}
             THEN Quit(c)
             ELSE /\ Rest(c, job[c].rest \ {k})
                  /\ left' = [left EXCEPT ![c] = [@ EXCEPT ![k] = 0]]
                  /\ UNCHANGED pc
    BY <1>3 DEF Release
  <2>2. k \in Key /\ job[c].rest \ {k} \in SUBSET job[c].keys
    BY <2>1, JobKeys
  <2>3. LockOK'
    BY <2>1, <2>2, UnlockTyped
  <2>4. PcOK' /\ JobOK' /\ LeftOK'
    <3>1. CASE Quit(c)
      BY <3>1, QuitTyped
    <3>2. CASE ~Quit(c)
      <4>1. [left[c] EXCEPT ![k] = 0] \in [Key -> 0..EditLease]
        <5>1. 0 \in 0..EditLease /\ left[c] \in [Key -> 0..EditLease]
          BY DEF LeftOK
        <5> QED  BY <5>1
      <4>2. left' = [left EXCEPT ![c] = [left[c] EXCEPT ![k] = 0]]
        BY <2>1, <3>2 DEF LeftOK
      <4>3. LeftOK'
        BY <4>1, <4>2 DEF LeftOK
      <4>4. JobOK'
        BY <2>1, <2>2, <3>2, RestTyped
      <4> QED  BY <2>1, <3>2, <4>3, <4>4
    <3> QED  BY <3>1, <3>2
  <2> QED  BY <1>3, <2>3, <2>4 DEF Release
<1>4. CASE Fail(c)
  <2>1. PcOK' /\ JobOK' /\ LeftOK'
    BY <1>4, QuitTyped, GotoTyped DEF Fail, Place
  <2> QED  BY <1>4, <2>1 DEF Fail
<1> QED  BY <1>1, <1>2, <1>3, <1>4

LEMMA TickTyped ==
  ASSUME Typed, Tick
  PROVE  Typed'
<1> USE LockAssumption, Kept DEF Typed
<1>1. \A n \in 0..EditLease : Less(n) \in 0..EditLease /\ (Less(n) = 0 <=> n \in {0, 1})
  BY DEF Less
<1>2. LockOK'
  <2>1. holder' \in [Key -> User \union {NoUser}]
    BY DEF LockOK, Tick
  <2>2. ttl' \in [Key -> 0..EditLease]
    BY <1>1 DEF LockOK, Tick
  <2>3. \A k \in Key : ttl'[k] = 0 <=> holder'[k] = NoUser
    <3> SUFFICES ASSUME NEW k \in Key PROVE ttl'[k] = 0 <=> holder'[k] = NoUser
      OBVIOUS
    <3>1. ttl[k] \in 0..EditLease /\ (ttl[k] = 0 <=> holder[k] = NoUser)
      BY DEF LockOK
    <3>2. ttl'[k] = Less(ttl[k]) /\ holder'[k] = IF ttl[k] = 1 THEN NoUser ELSE holder[k]
      BY DEF Tick
    <3> QED  BY <1>1, <3>1, <3>2
  <2> QED  BY <2>1, <2>2, <2>3 DEF LockOK
<1>3. LeftOK'
  BY <1>1 DEF LeftOK, Tick
<1> QED  BY <1>2, <1>3 DEF Tick

LEMMA CrashTyped ==
  ASSUME Typed, Crash
  PROVE  Typed'
<1> USE LockAssumption, Kept DEF Typed
<1>1. PcOK'
  BY DEF PcOK, Place, Crash
<1>2. JobOK'
  <2>1. NoJob \in Job /\ Fits(NoJob)
    BY DEF NoJob, Job, Fits, OnExams
  <2> QED  BY <2>1 DEF JobOK, Crash
<1>3. LeftOK'
  BY DEF LeftOK, Crash, Nothing
<1> QED  BY <1>1, <1>2, <1>3 DEF Crash

(* The kind of a request and where it has got to. *)
LEMMA KindKept ==
  ASSUME Typed, KindOK, [Next]_vars
  PROVE  KindOK'
<1> USE LockAssumption DEF Typed
<1>0. SUFFICES ASSUME NEW d \in Client
               PROVE /\ pc'[d] = "lock" => job'[d].kind \in OnExams \union {"save"}
                     /\ pc'[d] \in {"exist", "stamp", "check"} => job'[d].kind \in OnExams
  BY DEF KindOK
<1>1. CASE UNCHANGED vars \/ Tick
  BY <1>1 DEF vars, Tick, KindOK
<1>2. CASE Crash
  BY <1>2 DEF Crash, KindOK, InRequest, PcOK
<1>3. ASSUME NEW c \in Client, Step(c), c # d
      PROVE  pc'[d] = pc[d] /\ job'[d] = job[d]
  BY <1>3 DEF Step, Open, Refresh, Close, Begin, Lock, Refused, Exist, Stamp, Check, Write, Save,
     Release, Fail, Goto, Quit, Rest, PcOK, JobOK
<1>4. CASE Step(d)
  <2>1. CASE Begin(d)
    BY <2>1 DEF Begin, Goto, PcOK, JobOK
  <2>2. CASE Lock(d)
    <3>1. job'[d].kind = job[d].kind
      <4>1. job[d] \in Job
        BY DEF JobOK
      <4>2. \E keys : job' = [job EXCEPT ![d] = [job[d] EXCEPT !.rest = keys]]
        BY <2>2 DEF Lock, Rest
      <4> QED  BY <4>1, <4>2 DEF Job, JobOK
    <3>2. pc'[d] = pc[d] \/ pc'[d] = Locked(d)
      BY <2>2 DEF Lock, Goto, PcOK
    <3>3. job[d].kind \in OnExams \union {"save"}
      BY <2>2 DEF Lock, KindOK
    <3>4. pc'[d] \in {"exist", "stamp", "check"} => job[d].kind # "save"
      BY <2>2, <3>2 DEF Lock, Locked
    <3> QED  BY <3>1, <3>3, <3>4
  <2>3. CASE Exist(d) \/ Stamp(d)
    <3>1. CASE pc'[d] = "idle"
      BY <3>1
    <3>2. CASE pc'[d] # "idle"
      <4>1. job[d] \in Job /\ job[d].kind \in OnExams
        BY <2>3 DEF Exist, Stamp, JobOK, KindOK
      <4>2. \/ UNCHANGED job
            \/ \E keys : job' = [job EXCEPT ![d] = [job[d] EXCEPT !.seen = keys]]
        BY <2>3, <3>2 DEF Exist, Stamp, Quit, Goto, PcOK
      <4>3. job'[d].kind = job[d].kind
        BY <4>1, <4>2 DEF Job, JobOK
      <4> QED  BY <4>1, <4>3
    <3> QED  BY <3>1, <3>2
  <2>4. CASE Open(d) \/ Refresh(d) \/ Close(d)
    BY <2>4 DEF Open, Refresh, Close, Quit, Goto, PcOK, JobOK
  <2>5. CASE Refused(d) \/ Check(d) \/ Write(d) \/ Save(d) \/ Release(d) \/ Fail(d)
    BY <2>5 DEF Refused, Check, Write, Save, Release, Fail, Quit, Goto, PcOK, JobOK
  <2> QED  BY <1>4, <2>1, <2>2, <2>3, <2>4, <2>5 DEF Step
<1> QED
  BY <1>1, <1>2, <1>3, <1>4 DEF Next, KindOK

LEMMA StepTyped ==
  ASSUME Typed, KindOK, [Next]_vars
  PROVE  Typed' /\ KindOK'
<1>1. Typed'
  <2>1. CASE UNCHANGED vars
    BY <2>1, Kept DEF Typed, vars, locks, exams
  <2>2. ASSUME NEW c \in Client, Step(c)
        PROVE  Typed'
    BY <2>2, EditTyped, LockTyped, WorkTyped DEF Step
  <2> QED  BY <2>1, <2>2, TickTyped, CrashTyped DEF Next
<1> QED  BY <1>1, KindKept

LEMMA TypedAlways == Spec => [](Typed /\ KindOK)
<1>1. Init => Typed /\ KindOK
  BY InitTyped DEF Init, KindOK
<1>2. Typed /\ KindOK /\ [Next]_vars => (Typed /\ KindOK)'
  BY StepTyped
<1> QED  BY <1>1, <1>2, PTL DEF Spec

(* Every step of the locks and of the requests keeps the types: in particular  *)
(* no lock is left without an expiry (luaLock).                                *)
THEOREM LockTypeCorrect == Spec => []TypeOK
<1>1. Typed => TypeOK
  BY TypeParts DEF Typed
<1> QED  BY <1>1, TypedAlways, PTL

-----------------------------------------------------------------------------
(* A granted lease holds. *)

(* Some leases are forgotten, none is prolonged. *)
Fewer == \A d \in Client, x \in Key : left'[d][x] \in {0, left[d][x]}

(* A lock is granted when it is free or the caller's own, and every other      *)
(* user's lease is on another lock.                                            *)
LEMMA GrantHolds ==
  ASSUME Typed, LeaseHolds, NEW c \in Client, NEW k \in Key, NEW n \in 1..EditLease,
         Grantable(c, k), Grant(c, k, n)
  PROVE  LeaseHolds'
<1> SUFFICES ASSUME OneTab, NEW d \in Client, NEW x \in Key, left'[d][x] > 0
             PROVE  holder'[x] = UserOf[d] /\ ttl'[x] >= left'[d][x]
  BY DEF LeaseHolds, Own, OneTab
<1> USE LockAssumption DEF Typed
<1>1. CASE d = c /\ x = k
  <2>1. left'[c][k] = n /\ ttl'[k] = n /\ holder'[k] = UserOf[c]
    BY DEF Grant, Expire, LeftOK, LockOK
  <2> QED  BY <1>1, <2>1
<1>2. CASE ~(d = c /\ x = k)
  <2>1. left'[d][x] = left[d][x]
    BY <1>2 DEF Grant, LeftOK
  <2>2. holder[x] = UserOf[d] /\ ttl[x] >= left[d][x]
    BY <2>1 DEF LeaseHolds, Own
  <2>3. x # k
    <3>1. ASSUME x = k PROVE FALSE
      <4>1. UserOf[d] \in {NoUser, UserOf[c]}
        BY <2>2, <3>1 DEF Grantable
      <4>2. UserOf[d] \in User
        OBVIOUS
      <4>3. d = c
        BY <4>1, <4>2 DEF OneTab
      <4> QED  BY <1>2, <3>1, <4>3
    <3> QED  BY <3>1
  <2>4. holder'[x] = holder[x] /\ ttl'[x] = ttl[x]
    BY <2>3 DEF Grant, LockOK
  <2> QED  BY <2>1, <2>2, <2>4
<1> QED  BY <1>1, <1>2

(* Only the caller's own lock is released, and it promises it no longer. *)
LEMMA UnlockHolds ==
  ASSUME Typed, LeaseHolds, NEW c \in Client, NEW k \in Key,
         Unlock(c, k) \/ UNCHANGED locks, Fewer, left'[c][k] = 0
  PROVE  LeaseHolds'
<1> SUFFICES ASSUME OneTab, NEW d \in Client, NEW x \in Key, left'[d][x] > 0
             PROVE  holder'[x] = UserOf[d] /\ ttl'[x] >= left'[d][x]
  BY DEF LeaseHolds, Own, OneTab
<1> USE LockAssumption DEF Typed
<1>1. left'[d][x] = left[d][x]
  BY DEF Fewer
<1>2. holder[x] = UserOf[d] /\ ttl[x] >= left[d][x]
  BY <1>1 DEF LeaseHolds, Own
<1>3. ~(x = k /\ Own(c, k))
  <2>1. ASSUME x = k, Own(c, k) PROVE FALSE
    <3>1. UserOf[d] = UserOf[c]
      BY <1>2, <2>1 DEF Own
    <3>2. d = c
      BY <3>1 DEF OneTab
    <3> QED  BY <2>1, <3>2
  <2> QED  BY <2>1
<1>4. holder'[x] = holder[x] /\ ttl'[x] = ttl[x]
  BY <1>3 DEF Unlock, Freed, locks, LockOK
<1> QED  BY <1>1, <1>2, <1>4

LEMMA FewerHolds ==
  ASSUME LeaseHolds, UNCHANGED locks, Fewer
  PROVE  LeaseHolds'
BY DEF LeaseHolds, Fewer, locks, Own, OneTab

LEMMA QuitFewer ==
  ASSUME Typed, NEW c \in Client, Quit(c)
  PROVE  Fewer /\ \A k \in Key : left'[c][k] = 0
BY DEF Typed, LeftOK, Quit, Forget, Nothing, Fewer

LEMMA SameFewer ==
  ASSUME UNCHANGED left
  PROVE  Fewer
BY DEF Fewer

LEMMA HoldsKept ==
  ASSUME Typed, KindOK, LeaseHolds, [Next]_vars
  PROVE  LeaseHolds'
<1> USE LockAssumption
<1>1. CASE UNCHANGED vars
  BY <1>1, FewerHolds, SameFewer DEF vars, locks
<1>2. CASE Tick
  <2> SUFFICES ASSUME OneTab, NEW d \in Client, NEW x \in Key, left'[d][x] > 0
               PROVE  holder'[x] = UserOf[d] /\ ttl'[x] >= left'[d][x]
    BY DEF LeaseHolds, Own, OneTab
  <2>1. left[d][x] \in 0..EditLease /\ ttl[x] \in 0..EditLease
    BY DEF Typed, LeftOK, LockOK
  <2>2. left'[d][x] = Less(left[d][x]) /\ ttl'[x] = Less(ttl[x])
    BY <1>2 DEF Tick
  <2>3. left[d][x] > 1
    BY <2>1, <2>2 DEF Less
  <2>4. holder[x] = UserOf[d] /\ ttl[x] >= left[d][x]
    BY <2>1, <2>3 DEF LeaseHolds, Own
  <2>5. holder'[x] = holder[x]
    <3>1. ttl[x] # 1
      BY <2>1, <2>3, <2>4
    <3> QED  BY <1>2, <3>1 DEF Tick
  <2> QED  BY <2>1, <2>2, <2>3, <2>4, <2>5 DEF Less
<1>3. CASE Crash
  <2>1. Fewer
    BY <1>3 DEF Crash, Fewer, Nothing
  <2> QED  BY <1>3, <2>1, FewerHolds DEF Crash
<1>4. ASSUME NEW c \in Client, Step(c)
      PROVE  LeaseHolds'
  <2>1. CASE Open(c) \/ Lock(c)
    <3>1. PICK k \in Key, n \in 1..EditLease : Grantable(c, k) /\ Grant(c, k, n)
      <4>1. CASE Open(c)
        <5>1. EditLease \in 1..EditLease
          OBVIOUS
        <5> QED  BY <4>1, <5>1 DEF Open
      <4>2. CASE Lock(c)
        BY <4>2, JobKeys, LeaseTyped DEF Lock, Typed
      <4> QED  BY <2>1, <4>1, <4>2
    <3> QED  BY <3>1, GrantHolds
  <2>2. CASE Refresh(c)
    <3>1. PICK k \in job[c].keys :
            \/ Own(c, k) /\ Grant(c, k, EditLease) /\ UNCHANGED <<pc, job>>
            \/ ~Own(c, k) /\ Quit(c) /\ UNCHANGED locks
      BY <2>2 DEF Refresh
    <3>2. k \in Key /\ EditLease \in 1..EditLease
      BY <3>1, JobKeys DEF Typed
    <3>3. CASE Own(c, k) /\ Grant(c, k, EditLease)
      BY <3>2, <3>3, GrantHolds DEF Own, Grantable
    <3>4. CASE Quit(c) /\ UNCHANGED locks
      BY <3>4, FewerHolds, QuitFewer
    <3> QED  BY <3>1, <3>3, <3>4
  <2>3. CASE Close(c)
    <3>1. Fewer /\ \A k \in Key : left'[c][k] = 0
      BY <2>3, QuitFewer DEF Close
    <3>2. CASE UNCHANGED locks
      BY <3>1, <3>2, FewerHolds
    <3>3. CASE \E k \in job[c].keys : Unlock(c, k)
      BY <3>1, <3>3, JobKeys, UnlockHolds DEF Typed
    <3> QED  BY <2>3, <3>2, <3>3 DEF Close
  <2>4. CASE Release(c)
    <3>1. PICK k \in job[c].rest :
            /\ Unlock(c, k) \/ UNCHANGED locks
            /\ IF job[c].rest = {k}
               THEN Quit(c)
               ELSE /\ Rest(c, job[c].rest \ {k})
                    /\ left' = [left EXCEPT ![c] = [@ EXCEPT ![k] = 0]]
                    /\ UNCHANGED pc
      BY <2>4 DEF Release
    <3>2. k \in Key
      BY <3>1, JobKeys DEF Typed
    <3>3. Fewer /\ left'[c][k] = 0
      <4>1. CASE Quit(c)
        BY <3>2, <4>1, QuitFewer
      <4>2. CASE ~Quit(c)
        <5>1. left' = [left EXCEPT ![c] = [@ EXCEPT ![k] = 0]]
          BY <3>1, <4>2
        <5> QED  BY <3>2, <5>1 DEF Typed, LeftOK, Fewer
      <4> QED  BY <4>1, <4>2
    <3> QED  BY <3>1, <3>2, <3>3, UnlockHolds
  <2>5. CASE Begin(c) \/ Refused(c) \/ Exist(c) \/ Stamp(c) \/ Check(c) \/ Write(c) \/ Save(c) \/ Fail(c)
    <3>1. UNCHANGED locks /\ (UNCHANGED left \/ Quit(c))
      BY <2>5 DEF Begin, Refused, Exist, Stamp, Check, Write, Save, Fail
    <3> QED  BY <3>1, FewerHolds, SameFewer, QuitFewer
  <2> QED  BY <1>4, <2>1, <2>2, <2>3, <2>4, <2>5 DEF Step
<1> QED  BY <1>1, <1>2, <1>3, <1>4 DEF Next

LEMMA LeasesAlways == Spec => [](Typed /\ KindOK /\ LeaseHolds)
<1>1. Init => LeaseHolds
  BY DEF Init, LeaseHolds, Nothing
<1>2. Typed /\ KindOK /\ LeaseHolds /\ [Next]_vars => LeaseHolds'
  BY HoldsKept
<1> QED  BY <1>1, <1>2, TypedAlways, PTL DEF Spec

(* Whoever was granted a lease still has the lock while it runs, if every user *)
(* has one tab: others' requests, restarts and late releases take it from none. *)
THEOREM LeasesHold == Spec => []LeaseHolds
BY LeasesAlways, PTL

-----------------------------------------------------------------------------
(* Statuses change only as checked. *)

(* A step of one client leaves the others where they are. *)
LEMMA Others ==
  ASSUME Typed, NEW c \in Client, NEW d \in Client \ {c}, Step(c)
  PROVE  pc'[d] = pc[d] /\ job'[d] = job[d] /\ left'[d] = left[d]
BY DEF Typed, Step, Open, Refresh, Close, Begin, Lock, Refused, Exist, Stamp, Check, Write, Save,
   Release, Fail, Goto, Quit, Rest, Forget, Grant, PcOK, JobOK, LeftOK

(* The update times a client knows of are those it knew, or none, or those it  *)
(* reads now.                                                                  *)
LEMMA SeenKept ==
  ASSUME Typed, KindOK, NEW c \in Client, Step(c)
  PROVE  \/ job'[c].seen \subseteq job[c].seen
         \/ job'[c].seen \subseteq {stamp[e] : e \in Exam} /\ UNCHANGED exams
<1> USE DEF Typed
<1>1. job[c] \in Job
  BY DEF JobOK
<1>2. CASE Stamp(c)
  <2>1. job'[c].seen = {stamp[e] : e \in job[c].keys}
    BY <1>1, <1>2 DEF Stamp, JobOK, Job
  <2>2. job[c].keys \subseteq Exam
    BY <1>2, JobKeys DEF KindOK, Stamp
  <2> QED  BY <1>2, <2>1, <2>2 DEF Stamp
<1>3. CASE Open(c) \/ Begin(c)
  BY <1>3 DEF Open, Begin, JobOK
<1>4. CASE Quit(c)
  BY <1>4 DEF Quit, NoJob, JobOK
<1>5. CASE \E keys : Rest(c, keys)
  BY <1>1, <1>5 DEF Rest, JobOK, Job
<1>6. CASE UNCHANGED job
  BY <1>6
<1>7. CASE Refresh(c) \/ Close(c) \/ Lock(c) \/ Refused(c) \/ Exist(c) \/ Check(c) \/ Write(c)
           \/ Save(c) \/ Release(c) \/ Fail(c)
  BY <1>4, <1>5, <1>6, <1>7 DEF Refresh, Close, Lock, Refused, Exist, Check, Write, Save, Release, Fail
<1> QED  BY <1>2, <1>3, <1>7 DEF Step

(* Only Write changes the exams. *)
LEMMA OnlyWrite ==
  ASSUME [Next]_vars, ~UNCHANGED exams
  PROVE  \E c \in Client : Write(c) /\ Enough(c)
BY DEF Next, vars, exams, Tick, Crash, Step, Open, Refresh, Close, Begin, Lock, Refused, Exist, Stamp,
   Check, Write, Save, Release, Fail

LEMMA WriteEffect ==
  ASSUME Typed, NEW c \in Client, Write(c), Enough(c), NEW e \in Exam
  PROVE  \/ e \in Hit(c) /\ status'[e] = To(job[c].kind) /\ stamp'[e] = writes + 1
         \/ e \notin Hit(c) /\ status'[e] = status[e] /\ stamp'[e] = stamp[e]
BY DEF Typed, Write

LEMMA PastKept ==
  ASSUME Typed, KindOK, Past, [Next]_vars
  PROVE  Past'
<1> USE DEF Typed
<1>1. writes \in Nat /\ writes' \in Nat /\ writes <= writes'
  <2>1. CASE UNCHANGED exams
    BY <2>1 DEF ExamOK, exams
  <2>2. CASE ~UNCHANGED exams
    BY <2>2, OnlyWrite DEF Write, ExamOK
  <2> QED  BY <2>1, <2>2
<1>2. \A e \in Exam : stamp[e] \in Nat /\ stamp[e] <= writes
  BY DEF ExamOK, Past
<1>3. \A e \in Exam : stamp'[e] <= writes'
  <2>1. CASE UNCHANGED exams
    BY <2>1, <1>2 DEF exams
  <2>2. CASE ~UNCHANGED exams
    <3>1. PICK c \in Client : Write(c) /\ Enough(c)
      BY <2>2, OnlyWrite
    <3>2. writes' = writes + 1
      BY <3>1 DEF Write
    <3> QED  BY <1>1, <1>2, <3>1, <3>2, WriteEffect
  <2> QED  BY <2>1, <2>2
<1>4. \A d \in Client : job[d].seen \subseteq Nat
  BY DEF JobOK, Job
<1>5. ASSUME NEW d \in Client, NEW s \in job'[d].seen PROVE s <= writes'
  <2>1. CASE s \in job[d].seen
    BY <1>1, <1>4, <2>1 DEF Past
  <2>2. CASE s \in {stamp[e] : e \in Exam} /\ UNCHANGED exams
    BY <1>2, <2>2 DEF exams
  <2>3. CASE UNCHANGED vars \/ Tick
    BY <1>5, <2>1, <2>3 DEF vars, Tick
  <2>4. CASE Crash
    <3>1. job'[d].seen \subseteq job[d].seen
      BY <2>4 DEF Crash, NoJob
    <3> QED  BY <1>5, <2>1, <3>1
  <2>5. ASSUME NEW c \in Client, Step(c) PROVE s <= writes'
    <3>1. CASE c = d
      BY <1>5, <2>1, <2>2, <2>5, <3>1, SeenKept
    <3>2. CASE c # d
      BY <1>5, <2>1, <2>5, <3>2, Others
    <3> QED  BY <3>1, <3>2
  <2> QED  BY <2>3, <2>4, <2>5 DEF Next
<1> QED  BY <1>3, <1>5 DEF Past

(* A client that is about to write is about to after its check, or was before. *)
LEMMA AtWrite ==
  ASSUME Typed, KindOK, [Next]_vars, NEW d \in Client,
         pc'[d] = "write", job'[d].kind \in OnExams
  PROVE  /\ job'[d] = job[d]
         /\ \/ Check(d) /\ \A e \in job[d].keys : status[e] \in From(job[d].kind)
            \/ pc[d] = "write" /\ ~Write(d) /\ \A k \in Key : left'[d][k] > 0 => left[d][k] > 0
<1> USE DEF Typed
<1>1. CASE UNCHANGED vars
  BY <1>1 DEF vars, Write, Goto, PcOK
<1>2. CASE Tick
  <2>1. ~Write(d)
    BY <1>2 DEF Tick, Write, Goto, PcOK
  <2>2. \A k \in Key : left[d][k] \in 0..EditLease /\ left'[d][k] = Less(left[d][k])
    BY <1>2 DEF Tick, LeftOK
  <2> QED  BY <1>2, <2>1, <2>2, LockAssumption DEF Tick, Less
<1>3. CASE Crash
  BY <1>3 DEF Crash, InRequest, PcOK
<1>4. ASSUME NEW c \in Client, Step(c), c # d
      PROVE  job'[d] = job[d] /\ pc[d] = "write" /\ ~Write(d) /\ left'[d] = left[d]
  BY <1>4, Others DEF Write, Goto, PcOK
<1>5. CASE Step(d)
  <2>1. CASE Check(d)
    BY <2>1 DEF Check, Goto, PcOK
  <2>2. CASE Lock(d)
    <3>1. job'[d].kind = job[d].kind
      <4>1. job[d] \in Job
        BY DEF JobOK
      <4>2. \E keys : job' = [job EXCEPT ![d] = [job[d] EXCEPT !.rest = keys]]
        BY <2>2 DEF Lock, Rest
      <4> QED  BY <4>1, <4>2 DEF Job, JobOK
    <3>2. Locked(d) = "write"
      BY <2>2 DEF Lock, Goto, PcOK
    <3> QED  BY <3>1, <3>2 DEF Locked, OnExams
  <2>3. CASE Open(d) \/ Refresh(d) \/ Close(d) \/ Begin(d) \/ Refused(d) \/ Exist(d) \/ Stamp(d)
             \/ Write(d) \/ Release(d) \/ Fail(d)
    BY <2>3 DEF Open, Refresh, Close, Begin, Refused, Exist, Stamp, Write, Release, Fail, Quit, Goto, PcOK
  <2>4. CASE Save(d)
    BY <2>4 DEF Save, Quit, Goto, PcOK
  <2> QED  BY <1>5, <2>1, <2>2, <2>3, <2>4 DEF Step
<1> QED  BY <1>1, <1>2, <1>3, <1>4, <1>5 DEF Next

(* Whoever changes an exam gives it an update time that nobody has read. *)
LEMMA FreshKept ==
  ASSUME Typed, KindOK, Order, [Next]_vars, NEW d \in Client
  PROVE  Fresh(d)'
<1> SUFFICES ASSUME pc'[d] = "write", job'[d].kind \in {"publish", "void"},
                    NEW e \in job'[d].keys, stamp'[e] \in job'[d].seen
             PROVE  status'[e] \in From(job'[d].kind)
  BY DEF Fresh
<1>1. job'[d].kind \in OnExams
  BY DEF OnExams
<1>2. job'[d] = job[d]
  BY <1>1, AtWrite
<1>3. CASE UNCHANGED exams
  BY <1>1, <1>2, <1>3, AtWrite DEF Order, Fresh, exams
<1>4. CASE ~UNCHANGED exams
  <2>1. PICK c \in Client : Write(c) /\ Enough(c)
    BY <1>4, OnlyWrite
  <2>2. pc[d] = "write"
    <3>1. ~Check(d)
      BY <1>4 DEF Check
    <3> QED  BY <1>1, <3>1, AtWrite
  <2>3. e \in Exam
    BY <1>1, <1>2, JobKeys DEF Typed
  <2>4. \A s \in job[d].seen : s \in Nat /\ s <= writes
    BY DEF Typed, JobOK, Job, Order, Past
  <2>5. stamp'[e] # writes + 1
    BY <1>2, <2>4 DEF Typed, ExamOK
  <2>6. status'[e] = status[e] /\ stamp'[e] = stamp[e]
    BY <2>1, <2>3, <2>5, WriteEffect
  <2> QED  BY <1>2, <2>2, <2>6 DEF Order, Fresh
<1> QED  BY <1>3, <1>4

(* Whoever changes an exam within its leases has the lock, so that nobody else *)
(* is about to delete that exam within its own.                                *)
LEMMA GuardedKept ==
  ASSUME Typed, KindOK, LeaseHolds, Order, [Next]_vars, NEW d \in Client
  PROVE  Guarded(d)'
<1> SUFFICES ASSUME pc'[d] = "write", job'[d].kind = "delete", OneTab, ~late',
                    NEW e \in job'[d].keys, left'[d][e] > 0
             PROVE  status'[e] \in From("delete")
  BY DEF Guarded, OneTab
<1>1. job'[d].kind \in OnExams
  BY DEF OnExams
<1>2. job'[d] = job[d]
  BY <1>1, AtWrite
<1>3. e \in Exam /\ e \in Key
  BY <1>1, <1>2, JobKeys DEF Typed
<1>4. CASE UNCHANGED exams
  <2>1. CASE Check(d) /\ \A x \in job[d].keys : status[x] \in From(job[d].kind)
    BY <1>2, <1>4, <2>1 DEF exams
  <2>2. CASE pc[d] = "write" /\ \A k \in Key : left'[d][k] > 0 => left[d][k] > 0
    BY <1>2, <1>3, <1>4, <2>2 DEF Order, Guarded, exams
  <2> QED  BY <1>1, <2>1, <2>2, AtWrite
<1>5. CASE ~UNCHANGED exams
  <2>1. PICK c \in Client : Write(c) /\ Enough(c)
    BY <1>5, OnlyWrite
  <2>2. ~late /\ \A x \in job[c].keys : left[c][x] # 0
    BY <2>1 DEF Write
  <2>3. pc[d] = "write" /\ ~Write(d) /\ left[d][e] > 0
    <3>1. ~Check(d)
      BY <1>5 DEF Check
    <3> QED  BY <1>1, <1>3, <3>1, AtWrite
  <2>4. status[e] \in From("delete")
    BY <1>2, <2>2, <2>3 DEF Order, Guarded
  <2>5. e \notin job[c].keys
    <3>1. ASSUME e \in job[c].keys PROVE FALSE
      <4>1. left[c][e] > 0
        BY <1>3, <2>2, <3>1, LockAssumption DEF Typed, LeftOK
      <4>2. UserOf[c] = UserOf[d]
        BY <1>3, <2>3, <4>1 DEF LeaseHolds, Own
      <4>3. c = d
        BY <4>2 DEF OneTab
      <4> QED  BY <2>1, <2>3, <4>3
    <3> QED  BY <3>1
  <2>6. status'[e] = status[e]
    BY <1>3, <2>1, <2>5, WriteEffect DEF Hit
  <2> QED  BY <2>4, <2>6
<1> QED  BY <1>4, <1>5

LEMMA OrderAlways == Spec => [](Typed /\ KindOK /\ LeaseHolds /\ Order)
<1>1. Init => Order
  BY DEF Init, Order, Past, Fresh, Guarded, NoJob
<1>2. Typed /\ KindOK /\ LeaseHolds /\ Order /\ [Next]_vars => Order'
  BY PastKept, FreshKept, GuardedKept DEF Order
<1> QED  BY <1>1, <1>2, LeasesAlways, PTL DEF Spec

(* Lists of exams are published, voided and deleted as the checks demand: the  *)
(* update times settle the first two, the leases the last.                     *)
THEOREM LawfulStatus == Spec => StatusLawful
<1> DEFINE A == \A e \in Exam : status'[e] # status[e] =>
       \/ <<status[e], status'[e]>> \in {<<"00", "02">>, <<"00", "12">>, <<"02", "16">>}
       \/ status'[e] = "12" /\ (late' \/ ~OneTab)
<1>1. Typed /\ KindOK /\ Order /\ [Next]_vars => [A]_vars
  <2> SUFFICES ASSUME Typed, Order, [Next]_vars, NEW e \in Exam, status'[e] # status[e]
               PROVE  \/ <<status[e], status'[e]>> \in {<<"00", "02">>, <<"00", "12">>, <<"02", "16">>}
                      \/ status'[e] = "12" /\ (late' \/ ~OneTab)
    OBVIOUS
  <2>1. ~UNCHANGED exams
    BY DEF exams
  <2>2. PICK c \in Client : Write(c) /\ Enough(c)
    BY <2>1, OnlyWrite
  <2>3. e \in Hit(c) /\ status'[e] = To(job[c].kind)
    BY <2>2, WriteEffect
  <2>4. e \in job[c].keys /\ Matches(c, e) /\ pc[c] = "write" /\ job[c].kind \in OnExams
    BY <2>2, <2>3 DEF Hit, Write
  <2>5. status[e] \in {"00", "02", "12", "16"}
    BY DEF Typed, ExamOK
  <2>6. CASE job[c].kind \in {"publish", "void"}
    <3>1. status[e] \in From(job[c].kind)
      BY <2>4, <2>6 DEF Order, Fresh, Matches
    <3> QED  BY <2>3, <2>5, <2>6, <3>1 DEF From, To
  <2>7. CASE job[c].kind = "delete"
    <3>1. status'[e] = "12"
      BY <2>3, <2>7 DEF To
    <3>2. CASE ~late' /\ OneTab
      <4>1. ~late /\ left[c][e] # 0
        BY <2>2, <2>4, <3>2 DEF Write
      <4>2. left[c][e] > 0
        BY <4>1, <2>4, JobKeys, LockAssumption DEF Typed, LeftOK
      <4>3. status[e] \in From("delete")
        BY <2>4, <2>7, <3>2, <4>1, <4>2 DEF Order, Guarded
      <4> QED  BY <3>1, <4>3 DEF From
    <3> QED  BY <3>1, <3>2
  <2> QED  BY <2>4, <2>6, <2>7 DEF OnExams
<1>2. Spec => [][A]_vars
  BY <1>1, OrderAlways, PTL DEF Spec
<1> QED  BY <1>2 DEF StatusLawful
=============================================================================
