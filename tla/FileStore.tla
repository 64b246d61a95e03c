------------------------------- MODULE FileStore -------------------------------
(***************************************************************************)
(* Attachments: the records of t_file, the lists of record ids that exams, *)
(* questions and invigilation records keep, the files on disk, which       *)
(* records with one digest share, and the workers that remove a file when  *)
(* its last record is gone (cmn/file-dml.go).                              *)
(*                                                                         *)
(* A request runs in a transaction, at READ COMMITTED: its reads see what  *)
(* is committed, a DELETE or UPDATE waits for the row's lock, and an UPDATE *)
(* writes the whole list as it was read.  The task that has the file       *)
(* removed is sent inside the transaction, before it commits.              *)
(***************************************************************************)
EXTENDS Naturals, Sequences

CONSTANTS
  Client,       \* users, one request at a time each
  Worker,       \* the goroutines of fileDeleteWorker
  Owner,        \* rows with a list of attachments
  Record,       \* those of invigilation; the others are exams and questions
  Temp,         \* temporary exams, which are cleaned up
  Works,        \* Client -> the owners it edits
  Item, Digest, \* attachments, as name and digest, and digests
  DigestOf,     \* Item -> Digest
  First,        \* <<owner, item>> recorded when the service starts
  Kinds,        \* what requests do: "post", "delete"
  Cap,          \* capacity of fileDeleteChan
  MaxId,        \* bound on record ids
  MaxRequests,  \* bound on requests
  MaxCrash      \* bound on restarts

None == "none"

Cleaner == "cleaner"   \* startTempExamCleanup

ASSUME FileAssumption ==
  /\ Record \subseteq Owner /\ Temp \subseteq Owner \ Record
  /\ Works \in [Client -> SUBSET Owner]
  /\ DigestOf \in [Item -> Digest] /\ None \notin Item
  /\ Cleaner \notin Client
  /\ Cap \in Nat \ {0} /\ MaxId \in Nat /\ MaxRequests \in Nat /\ MaxCrash \in Nat
  /\ First \in Seq(Owner \X Item) /\ Len(First) + MaxRequests <= MaxId

VARIABLES
  disk,     \* digests of the files on disk
  rec,      \* record id -> the attachment, or None
  list,     \* Owner -> ids, as committed
  nulls,    \* invigilation records whose list is the JSON null
  alive,    \* owners that exist
  next,     \* the sequence of record ids
  queue,    \* the digests of the tasks in fileDeleteChan
  wk,       \* Worker -> its task and statement
  pc,       \* Process -> the next statement
  job,      \* Process -> the request and what its transaction wrote
  asked,    \* requests so far
  crashes,  \* restarts so far
  late      \* history: records committed without their file, or when a
            \* worker had already counted none of their digest

vars == <<disk, rec, list, nulls, alive, next, queue, wk, pc, job, asked, crashes, late>>

db    == <<rec, list, nulls, alive, next, late>>
other == <<disk, wk, asked, crashes>>

Process == Client \cup {Cleaner}
Id      == 1..MaxId
NoId    == 0
Label   == {"idle", "read", "select", "remove", "count", "update", "commit"}

(* The record to be deleted, the one inserted, the list to be written, the    *)
(* records still to be cleaned up; whether the record was deleted and the     *)
(* owner updated, which locks their rows.                                     *)
Jobs == [kind : {"post", "delete", "clean", None}, owner : Owner \cup {None},
         item : Item \cup {None}, old : Id \cup {NoId}, new : Id \cup {NoId},
         ids : SUBSET Id, todo : SUBSET Id, took : BOOLEAN, wrote : BOOLEAN]

Request(kind, o, i, old, todo) ==
  [kind |-> kind, owner |-> o, item |-> i, old |-> old, new |-> NoId,
   ids |-> {}, todo |-> todo, took |-> FALSE, wrote |-> FALSE]

NoJob == Request(None, None, None, NoId, {})

Rest == [digest |-> None, at |-> "idle"]

Exam(o) == o \notin Record

Goto(p, l) == pc' = [pc EXCEPT ![p] = l]

Return(p) == Goto(p, "idle") /\ job' = [job EXCEPT ![p] = NoJob]

RecordFree(p, id) == \A q \in Process \ {p} : ~(job[q].took /\ job[q].old = id)
OwnerFree(p, o)   == \A q \in Process \ {p} : ~(job[q].wrote /\ job[q].owner = o)

Of(id) == DigestOf[rec[id]]

Recorded(d) == {id \in Id : rec[id] # None /\ Of(id) = d}

-----------------------------------------------------------------------------

Init ==
  /\ rec = [id \in Id |-> IF id \in DOMAIN First THEN First[id][2] ELSE None]
  /\ list = [o \in Owner |-> {id \in DOMAIN First : First[id][1] = o}]
  /\ disk = {DigestOf[First[id][2]] : id \in DOMAIN First}
  /\ alive = Owner /\ nulls = {}
  /\ next = Len(First) + 1
  /\ queue = <<>>
  /\ wk = [w \in Worker |-> Rest]
  /\ pc = [p \in Process |-> "idle"]
  /\ job = [p \in Process |-> NoJob]
  /\ asked = 0 /\ crashes = 0 /\ late = {}

(* The client uploads the file, unless the store has one of that digest       *)
(* (IsDuplicate), and then posts the attachment.                              *)
AskPost(c) ==
  /\ pc[c] = "idle" /\ "post" \in Kinds /\ asked < MaxRequests
  /\ \E o \in Works[c], i \in Item :
       /\ disk' = disk \cup {DigestOf[i]}
       /\ job' = [job EXCEPT ![c] = Request("post", o, i, NoId, {})]
  /\ Goto(c, "read")
  /\ asked' = asked + 1
  /\ UNCHANGED <<db, queue, wk, crashes>>

AskDelete(c) ==
  /\ pc[c] = "idle" /\ "delete" \in Kinds /\ asked < MaxRequests
  /\ \E o \in Works[c], i \in Item :
       job' = [job EXCEPT ![c] = Request("delete", o, i, NoId, {})]
  /\ Goto(c, "read")
  /\ asked' = asked + 1
  /\ UNCHANGED <<disk, db, queue, wk, crashes>>

(* cleanupTempExams: the exam is deleted, then its records one by one, each   *)
(* in a transaction of its own.                                               *)
Clean(o) ==
  /\ pc[Cleaner] = "idle" /\ o \in Temp \cap alive /\ OwnerFree(Cleaner, o)
  /\ alive' = alive \ {o}
  /\ list' = [list EXCEPT ![o] = {}]
  /\ job' = [job EXCEPT ![Cleaner] = Request("clean", None, None, NoId, list[o])]
  /\ Goto(Cleaner, "read")
  /\ UNCHANGED <<rec, nulls, next, late, queue, other>>

CleanNext ==
  /\ pc[Cleaner] = "read"
  /\ IF job[Cleaner].todo = {}
     THEN Return(Cleaner)
     ELSE \E id \in job[Cleaner].todo :
            /\ job' = [job EXCEPT ![Cleaner] = Request("clean", None, None, id, @.todo \ {id})]
            /\ Goto(Cleaner, "select")
  /\ UNCHANGED <<db, queue, other>>

-----------------------------------------------------------------------------
(* Requests. *)

(* A null in place of an array: v_exam_file passes over it, the query of      *)
(* invigilation fails on it ("cannot extract elements from a scalar").        *)
Readable(c) == job[c].owner \notin nulls

Refused(c) == pc[c] = "read" /\ ~Readable(c) /\ Return(c) /\ UNCHANGED <<db, queue, other>>

(* The attachments of the owner that have a record (v_exam_file). *)
Seen(o) == {id \in list[o] : rec[id] # None}

(* An exam or a question replaces its attachment of the same name and digest, *)
(* whoever posts it: NewFileRecord gives no record a domain, so none is the   *)
(* poster's own.  An invigilation record just gets another one.               *)
Replaced(c) == {id \in Seen(job[c].owner) : Exam(job[c].owner) /\ rec[id] = job[c].item}

Post(c) ==
  /\ pc[c] = "read" /\ job[c].kind = "post" /\ Readable(c)
  /\ next \in Id
  /\ next' = next + 1
  /\ \E old \in IF Replaced(c) = {} THEN {NoId} ELSE Replaced(c) :
       /\ job' = [job EXCEPT ![c] = [@ EXCEPT !.old = old, !.new = next,
                                              !.ids = (Seen(job[c].owner) \ {old}) \cup {next}]]
       /\ Goto(c, IF old = NoId THEN "update" ELSE "select")
  /\ UNCHANGED <<rec, list, nulls, alive, late, queue, other>>

(* An attachment that is not there: exams answer with the list as it is,       *)
(* invigilation with an error.                                                 *)
Delete(c) ==
  /\ pc[c] = "read" /\ job[c].kind = "delete" /\ Readable(c)
  /\ LET o == job[c].owner
         found == {id \in Seen(o) : rec[id] = job[c].item}
     IN  IF found = {}
         THEN Return(c)
         ELSE \E id \in found :
                /\ job' = [job EXCEPT ![c] = [@ EXCEPT !.old = id, !.ids = Seen(o) \ {id}]]
                /\ Goto(c, IF Exam(o) THEN "select" ELSE "update")
  /\ UNCHANGED <<db, queue, other>>

(* The exam is looked for first. *)
Absent(c) ==
  /\ pc[c] = "read" /\ Exam(job[c].owner) /\ job[c].owner \notin alive
  /\ Return(c)
  /\ UNCHANGED <<db, queue, other>>

(* UPDATE ... SET files: an owner deleted by then is not updated. *)
Update(c) ==
  /\ pc[c] = "update" /\ OwnerFree(c, job[c].owner)
  /\ job' = [job EXCEPT ![c] = [@ EXCEPT !.wrote = job[c].owner \in alive]]
  /\ Goto(c, IF job[c].kind = "delete" /\ ~Exam(job[c].owner) THEN "select" ELSE "commit")
  /\ UNCHANGED <<db, queue, other>>

-----------------------------------------------------------------------------
(* DeleteFileRecord. *)

(* The digest is read, and for the cleanup that is all that is known of it. *)
Select(p) ==
  /\ pc[p] = "select"
  /\ IF rec[job[p].old] = None
     THEN Return(p)
     ELSE Goto(p, "remove") /\ job' = [job EXCEPT ![p] = [@ EXCEPT !.item = rec[job[p].old]]]
  /\ UNCHANGED <<db, queue, other>>

(* Variant: DeleteFileRecord is not given the request's transaction. *)
Remove_Apart(p) ==
  /\ pc[p] = "remove" /\ RecordFree(p, job[p].old)
  /\ rec' = [rec EXCEPT ![job[p].old] = None]
  /\ Goto(p, "count")
  /\ UNCHANGED <<list, nulls, alive, next, late, job, queue, other>>

(* DELETE FROM t_file: a record deleted by another in between is no error. *)
Remove(p) ==
  /\ pc[p] = "remove" /\ RecordFree(p, job[p].old)
  /\ job' = [job EXCEPT ![p] = [@ EXCEPT !.took = rec[job[p].old] # None]]
  /\ Goto(p, "count")
  /\ UNCHANGED <<db, queue, other>>

(* The send does not block: a full queue drops the task. *)
Room == Len(queue) < Cap

(* The records of the digest as the transaction sees them. *)
Left(p, d) == (Recorded(d) \ IF job[p].took THEN {job[p].old} ELSE {})
              \cup {id \in {job[p].new} \ {NoId} : DigestOf[job[p].item] = d}

Count(p) ==
  /\ pc[p] = "count"
  /\ LET d == DigestOf[job[p].item]
     IN  queue' = IF Left(p, d) = {} /\ Room THEN Append(queue, d) ELSE queue
  /\ Goto(p, IF job[p].kind # "clean" /\ Exam(job[p].owner) THEN "update" ELSE "commit")
  /\ UNCHANGED <<db, job, other>>

-----------------------------------------------------------------------------
(* The end of the transaction. *)

Commit(p) ==
  /\ pc[p] = "commit"
  /\ LET j == job[p]
         d == DigestOf[j.item]
     IN  /\ rec' = [id \in Id |-> IF id = j.new THEN j.item
                                  ELSE IF j.took /\ id = j.old THEN None ELSE rec[id]]
         /\ list' = [o \in Owner |-> IF j.wrote /\ o = j.owner THEN j.ids ELSE list[o]]
         /\ nulls' = IF j.wrote /\ j.owner \in Record /\ j.ids = {} THEN nulls \cup {j.owner} ELSE nulls
         /\ late' = IF j.new # NoId /\ (d \notin disk \/ \E w \in Worker : wk[w] = [digest |-> d, at |-> "remove"])
                    THEN late \cup {j.new} ELSE late
         /\ IF j.kind = "clean"
            THEN Goto(p, "read") /\ job' = [job EXCEPT ![p] = Request("clean", None, None, NoId, j.todo)]
            ELSE Return(p)
  /\ UNCHANGED <<alive, next, queue, other>>

(* A statement fails, or the client is gone: everything is rolled back, but   *)
(* the task is sent and the cleanup gives up.                                 *)
Fail(p) == pc[p] # "idle" /\ Return(p) /\ UNCHANGED <<db, queue, other>>

-----------------------------------------------------------------------------
(* fileDeleteWorker, deleteFileAsync. *)

Take(w) ==
  /\ wk[w].at = "idle" /\ queue # <<>>
  /\ queue' = Tail(queue)
  /\ wk' = [wk EXCEPT ![w] = [digest |-> Head(queue), at |-> "count"]]
  /\ UNCHANGED <<disk, db, pc, job, asked, crashes>>

(* Variant: the sender has counted, so the worker does not. *)
CountRecords_Not(w) ==
  /\ wk[w].at = "count"
  /\ wk' = [wk EXCEPT ![w].at = "remove"]
  /\ UNCHANGED <<disk, db, queue, pc, job, asked, crashes>>

(* The query may fail; the task is dropped then.  *)
CountRecords(w) ==
  /\ wk[w].at = "count"
  /\ \/ Recorded(wk[w].digest) = {} /\ wk' = [wk EXCEPT ![w] = [@ EXCEPT !.at = "remove"]]
     \/ wk' = [wk EXCEPT ![w] = Rest]
  /\ UNCHANGED <<disk, db, queue, pc, job, asked, crashes>>

(* Variant: an error ends the goroutine. *)
RemoveFile_Exits(w) ==
  /\ wk[w].at = "remove" /\ wk[w].digest \in disk
  /\ disk' = disk \ {wk[w].digest}
  /\ wk' = [wk EXCEPT ![w] = Rest]
  /\ UNCHANGED <<db, queue, pc, job, asked, crashes>>

(* A file that is not there is no error (os.IsNotExist). *)
RemoveFile(w) ==
  /\ wk[w].at = "remove"
  /\ disk' = disk \ {wk[w].digest}
  /\ wk' = [wk EXCEPT ![w] = Rest]
  /\ UNCHANGED <<db, queue, pc, job, asked, crashes>>

(* A restart loses the queue and the open transactions. *)
Crash ==
  /\ crashes < MaxCrash
  /\ crashes' = crashes + 1
  /\ queue' = <<>>
  /\ wk' = [w \in Worker |-> Rest]
  /\ pc' = [p \in Process |-> "idle"]
  /\ job' = [p \in Process |-> NoJob]
  /\ UNCHANGED <<disk, db, asked>>

Step(p) == \/ Select(p) \/ Remove(p) \/ Count(p) \/ Commit(p)
           \/ (p \in Client /\ (Refused(p) \/ Post(p) \/ Delete(p) \/ Absent(p) \/ Update(p)))
           \/ (p = Cleaner /\ CleanNext)

WorkerStep(w) == Take(w) \/ CountRecords(w) \/ RemoveFile(w)

Next == \/ \E c \in Client : AskPost(c) \/ AskDelete(c)
        \/ \E o \in Owner : Clean(o)
        \/ \E p \in Process : Step(p) \/ Fail(p)
        \/ \E w \in Worker : WorkerStep(w)
        \/ Crash

Spec == Init /\ [][Next]_vars

FairSpec == /\ Spec
            /\ \A p \in Process : WF_vars(Step(p))
            /\ \A w \in Worker : WF_vars(WorkerStep(w))

-----------------------------------------------------------------------------
(* Properties. *)

(* Every variable keeps its type, and the queue its capacity. *)
TypeOK ==
  /\ disk \subseteq Digest
  /\ rec \in [Id -> Item \cup {None}]
  /\ list \in [Owner -> SUBSET Id]
  /\ nulls \subseteq Record
  /\ alive \subseteq Owner
  /\ next \in 1..(MaxId + 1)
  /\ queue \in Seq(Digest) /\ Len(queue) <= Cap
  /\ wk \in [Worker -> [digest : Digest \cup {None}, at : {"idle", "count", "remove"}]]
  /\ pc \in [Process -> Label]
  /\ job \in [Process -> Jobs]
  /\ asked \in 0..MaxRequests
  /\ crashes \in 0..MaxCrash
  /\ late \subseteq Id

(* "有其他引用，不删物理文件" (deleteFileAsync): a record committed while its     *)
(* file is there, and no worker has counted yet, keeps its file, although the  *)
(* task is sent before the deletion commits and the deletion may be rolled     *)
(* back, and whatever other owners of the digest do.                           *)
FileKept == \A id \in Id : rec[id] # None /\ id \notin late => Of(id) \in disk

(* No two users edit one owner's attachments. *)
Apart == \A c, d \in Client : c # d => Works[c] \cap Works[d] = {}

(* Owners that no two users edit: their lists and the records agree after      *)
(* every commit, rollback and restart.  What is listed is recorded, for one    *)
(* owner only, and until a temporary exam is cleaned up what is recorded is    *)
(* listed.                                                                     *)
ListsMatch ==
  Apart => /\ \A o \in Owner : \A id \in list[o] : rec[id] # None
           /\ \A o, q \in Owner : o # q => list[o] \cap list[q] = {}
           /\ alive = Owner => \A id \in Id : rec[id] # None => \E o \in Owner : id \in list[o]

Quiet == /\ \A p \in Process : pc[p] = "idle"
         /\ \A w \in Worker : wk[w].at = "idle"
         /\ queue = <<>>

(* Every request returns, whatever rows it waits for, and every task gets its  *)
(* worker: the handlers never wait for the workers, nor these for a client.    *)
Settles == <>[]Quiet
=============================================================================
