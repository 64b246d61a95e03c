--------------------------- MODULE FileStore_proofs ---------------------------
(* Proofs about FileStore, for any users, workers, owners, attachments and     *)
(* bounds.                                                                     *)
EXTENDS FileStore, TLAPS

(* What a request names, and the statements that have a record to delete. *)
Named(p) ==
  /\ job[p].kind \in {"post", "delete"} => job[p].owner \in Owner /\ job[p].item \in Item
  /\ p = Cleaner => job[p].kind \notin {"post", "delete"} /\ (pc[p] # "idle" => job[p].kind = "clean")
  /\ pc[p] = "update" => p # Cleaner /\ (job[p].kind = "delete" => job[p].old \in Id)
  /\ pc[p] \in {"select", "remove", "count"} => job[p].old \in Id
  /\ pc[p] \in {"remove", "count"} => job[p].item \in Item
  /\ p # Cleaner /\ pc[p] # "idle" => job[p].kind \in {"post", "delete"}

TInv == TypeOK /\ \A p \in Process : Named(p)

(* A worker about to remove a file: no record has it that was committed while  *)
(* the file was there and before the worker counted.                           *)
Counted == \A w \in Worker : wk[w].at = "remove" =>
             \A id \in Id : rec[id] # None /\ id \notin late => Of(id) # wk[w].digest

KInv == FileKept /\ Counted

(* Ids are handed out in order, and the one a transaction was given is not in  *)
(* any list nor meant by any other transaction.                                *)
Bounded ==
  /\ \A id \in Id : rec[id] # None => id < next
  /\ \A p \in Process : job[p].old < next /\ job[p].new < next /\ \A id \in job[p].todo : id < next

Unused(c) == job[c].new # NoId =>
  /\ rec[job[c].new] = None
  /\ \A o \in Owner : job[c].new \notin list[o]
  /\ \A p \in Process : job[c].new # job[p].old /\ job[c].new \notin job[p].todo
  /\ \A p \in Process \ {c} : job[c].new # job[p].new

(* The transaction of a client, between its reads and its commit: what it is   *)
(* about to write is the list without the record it deletes and with the one   *)
(* it inserts, unless the owner is gone by now.                                *)
Edit(c) == pc[c] \notin {"idle", "read"} =>
  /\ job[c].old # NoId => \A o \in Owner \ {job[c].owner} : job[c].old \notin list[o]
  /\ job[c].owner \in alive =>
       /\ job[c].old # NoId => job[c].old \in list[job[c].owner]
       /\ job[c].ids = (list[job[c].owner] \ {job[c].old}) \cup ({job[c].new} \ {NoId})
       /\ pc[c] = "count" => job[c].took
       /\ pc[c] = "commit" => job[c].wrote /\ (job[c].old # NoId => job[c].took)
       /\ pc[c] = "update" => \/ job[c].old # NoId => job[c].took
                              \/ job[c].kind = "delete" /\ ~Exam(job[c].owner)
       /\ pc[c] \in {"select", "remove", "count"} /\ ~Exam(job[c].owner) => job[c].wrote

(* A client edits the owners it may edit, and locks none that is gone; only a  *)
(* transaction under way has locks or a new id.                                *)
Client_(c) ==
  /\ job[c].kind \in {"post", "delete"} => job[c].owner \in Works[c]
  /\ job[c].wrote => job[c].owner \in alive
  /\ pc[c] \in {"idle", "read"} => ~job[c].wrote /\ ~job[c].took /\ job[c].new = NoId

(* What the cleanup is to delete is in no list, and it writes none.            *)
Cleaning ==
  /\ ~job[Cleaner].wrote /\ job[Cleaner].new = NoId
  /\ \A o \in Owner : list[o] \cap (job[Cleaner].todo \cup {job[Cleaner].old}) = {}

Gone == \A o \in Owner \ alive : list[o] = {}

LInv == /\ ListsMatch /\ Bounded /\ Cleaning /\ Gone
        /\ \A c \in Client : Unused(c) /\ Edit(c) /\ Client_(c)

-----------------------------------------------------------------------------
(* Types. *)

LEMMA RequestTyped ==
  ASSUME NEW kind \in {"post", "delete", "clean", None}, NEW o \in Owner \cup {None},
         NEW i \in Item \cup {None}, NEW old \in Id \cup {NoId}, NEW todo \in SUBSET Id
  PROVE  Request(kind, o, i, old, todo) \in Jobs
  <1>1. /\ NoId \in Id \cup {NoId} /\ {} \in SUBSET Id /\ FALSE \in BOOLEAN
    OBVIOUS
  <1>2. QED
    BY <1>1, Zenon DEF Request, Jobs

LEMMA NoJobTyped ==
  /\ NoJob \in Jobs /\ NoJob.kind = None /\ NoJob.old = NoId /\ NoJob.new = NoId
  /\ NoJob.took = FALSE /\ NoJob.wrote = FALSE /\ NoJob.todo = {}
  <1>1. /\ None \in {"post", "delete", "clean", None} /\ None \in Owner \cup {None}
        /\ None \in Item \cup {None} /\ NoId \in Id \cup {NoId} /\ {} \in SUBSET Id
    OBVIOUS
  <1>2. NoJob \in Jobs
    BY <1>1, RequestTyped DEF NoJob
  <1>3. NoJob.kind = None /\ NoJob.old = NoId /\ NoJob.new = NoId /\ NoJob.todo = {}
    BY DEF NoJob, Request
  <1>4. NoJob.took = FALSE /\ NoJob.wrote = FALSE
    BY Zenon DEF NoJob, Request
  <1>5. QED
    BY <1>2, <1>3, <1>4, Zenon

(* A step of one process: it is enough to look at that process. *)
LEMMA OneProcess ==
  ASSUME TInv, NEW p \in Process, NEW j \in Jobs, NEW l \in Label,
         job' = [job EXCEPT ![p] = j], pc' = [pc EXCEPT ![p] = l]
  PROVE  /\ job' \in [Process -> Jobs] /\ pc' \in [Process -> Label]
         /\ job'[p] = j /\ pc'[p] = l
         /\ \A q \in Process \ {p} : job'[q] = job[q] /\ pc'[q] = pc[q] /\ Named(q)'
  BY DEF TInv, TypeOK, Named

LEMMA ReturnStep ==
  ASSUME TInv, NEW p \in Process, Return(p)
  PROVE  /\ job' = [job EXCEPT ![p] = NoJob] /\ pc' = [pc EXCEPT ![p] = "idle"]
         /\ job' \in [Process -> Jobs] /\ pc' \in [Process -> Label]
         /\ \A q \in Process : Named(q)'
  <1>1. /\ job' = [job EXCEPT ![p] = NoJob] /\ pc' = [pc EXCEPT ![p] = "idle"]
        /\ NoJob \in Jobs /\ "idle" \in Label
    BY NoJobTyped DEF Return, Goto, Label
  <1>2. /\ job' \in [Process -> Jobs] /\ pc' \in [Process -> Label]
        /\ job'[p] = NoJob /\ pc'[p] = "idle"
        /\ \A q \in Process \ {p} : Named(q)'
    BY <1>1, OneProcess
  <1>3. Named(p)'
    BY <1>2, NoJobTyped DEF Named, None
  <1>4. QED
    BY <1>1, <1>2, <1>3

LEMMA InitTyped == Init => TInv
  <1> SUFFICES ASSUME Init PROVE TInv
    OBVIOUS
  <1> USE FileAssumption
  <1>1. /\ DOMAIN First = 1..Len(First) /\ Len(First) \in Nat
        /\ \A id \in DOMAIN First : First[id][1] \in Owner /\ First[id][2] \in Item /\ id \in Id
    BY DEF Id
  <1>2. disk \subseteq Digest /\ rec \in [Id -> Item \cup {None}] /\ list \in [Owner -> SUBSET Id]
    BY <1>1 DEF Init
  <1>3. next \in 1..(MaxId + 1) /\ queue \in Seq(Digest) /\ Len(queue) <= Cap
    BY <1>1 DEF Init
  <1>4. TypeOK
    BY <1>2, <1>3, NoJobTyped DEF Init, TypeOK, Rest, Label
  <1>5. \A p \in Process : Named(p)
    BY NoJobTyped DEF Init, Named, None
  <1>6. QED
    BY <1>4, <1>5 DEF TInv

(* A client asks. *)
LEMMA AskTyped ==
  ASSUME TInv, NEW c \in Client, AskPost(c) \/ AskDelete(c)
  PROVE  TInv'
  <1> USE FileAssumption
  <1>1. PICK kind \in {"post", "delete"}, o \in Works[c], i \in Item :
          /\ job' = [job EXCEPT ![c] = Request(kind, o, i, NoId, {})]
          /\ pc' = [pc EXCEPT ![c] = "read"]
    BY DEF AskPost, AskDelete, Goto
  <1>2. c \in Process /\ o \in Owner /\ c # Cleaner
    BY DEF Process
  <1> DEFINE j == Request(kind, o, i, NoId, {})
  <1>3. j \in Jobs /\ j.kind = kind /\ j.owner = o /\ j.item = i
    <2>1. /\ kind \in {"post", "delete", "clean", None} /\ o \in Owner \cup {None}
          /\ i \in Item \cup {None} /\ NoId \in Id \cup {NoId} /\ {} \in SUBSET Id
      BY <1>2
    <2>2. j \in Jobs
      BY <2>1, RequestTyped
    <2>3. QED
      BY <2>2 DEF Request
  <1>4. /\ job' \in [Process -> Jobs] /\ pc' \in [Process -> Label]
        /\ job'[c] = j /\ pc'[c] = "read" /\ \A q \in Process \ {c} : Named(q)'
    <2>1. "read" \in Label
      BY DEF Label
    <2> HIDE DEF j
    <2>2. job' = [job EXCEPT ![c] = j]
      BY <1>1 DEF j
    <2>3. QED
      BY <1>1, <1>2, <1>3, <2>1, <2>2, OneProcess
  <1>5. Named(c)'
    BY <1>1, <1>2, <1>3, <1>4 DEF Named
  <1>6. disk' \subseteq Digest /\ asked' \in 0..MaxRequests
    BY DEF AskPost, AskDelete, TInv, TypeOK
  <1>7. UNCHANGED <<rec, list, nulls, alive, next, late, queue, wk, crashes>>
    BY DEF AskPost, AskDelete, db
  <1>8. QED
    BY <1>4, <1>5, <1>6, <1>7 DEF TInv, TypeOK

(* The cleanup deletes an exam, and turns to the next record. *)
LEMMA CleanTyped ==
  ASSUME TInv, (\E o \in Owner : Clean(o)) \/ CleanNext
  PROVE  TInv'
  <1> USE FileAssumption
  <1>t. TypeOK /\ Cleaner \in Process
    BY DEF TInv, Process
  <1>1. CASE \E o \in Owner : Clean(o)
    <2>1. PICK o \in Owner : Clean(o)
      BY <1>1
    <2> DEFINE j == Request("clean", None, None, NoId, list[o])
    <2>2. j \in Jobs /\ j.kind = "clean" /\ "read" \in Label
      <3>1. /\ "clean" \in {"post", "delete", "clean", None} /\ None \in Owner \cup {None}
            /\ None \in Item \cup {None} /\ NoId \in Id \cup {NoId} /\ list[o] \in SUBSET Id
        BY <1>t DEF TypeOK
      <3>2. j \in Jobs
        BY <3>1, RequestTyped
      <3>3. QED
        BY <3>2 DEF Label, Request
    <2>3. job' = [job EXCEPT ![Cleaner] = j] /\ pc' = [pc EXCEPT ![Cleaner] = "read"]
      BY <2>1 DEF Clean, Goto
    <2> HIDE DEF j
    <2>4. /\ job' \in [Process -> Jobs] /\ pc' \in [Process -> Label]
          /\ job'[Cleaner] = j /\ pc'[Cleaner] = "read" /\ \A q \in Process \ {Cleaner} : Named(q)'
      BY <1>t, <2>2, <2>3, OneProcess
    <2>5. Named(Cleaner)'
      BY <2>2, <2>4 DEF Named
    <2>6. list' \in [Owner -> SUBSET Id] /\ alive' \subseteq Owner
      BY <1>t, <2>1 DEF Clean, TypeOK
    <2>7. UNCHANGED <<disk, rec, nulls, next, late, queue, wk, asked, crashes>>
      BY <2>1 DEF Clean, other
    <2>8. QED
      BY <1>t, <2>4, <2>5, <2>6, <2>7 DEF TInv, TypeOK
  <1>2. CASE CleanNext /\ job[Cleaner].todo = {}
    <2>1. Return(Cleaner) /\ UNCHANGED <<db, queue, other>>
      BY <1>2 DEF CleanNext
    <2>2. QED
      BY <1>t, <2>1, ReturnStep DEF TInv, TypeOK, db, other
  <1>3. CASE CleanNext /\ job[Cleaner].todo # {}
    <2>1. PICK id \in job[Cleaner].todo :
            /\ job' = [job EXCEPT ![Cleaner] = Request("clean", None, None, id, job[Cleaner].todo \ {id})]
            /\ pc' = [pc EXCEPT ![Cleaner] = "select"]
      BY <1>3, <1>t DEF CleanNext, Goto, TypeOK
    <2> DEFINE j == Request("clean", None, None, id, job[Cleaner].todo \ {id})
    <2>2. job[Cleaner].todo \subseteq Id
      BY <1>t DEF TypeOK, Jobs
    <2>3. j \in Jobs /\ j.kind = "clean" /\ j.old = id /\ id \in Id /\ "select" \in Label
      <3>1. /\ "clean" \in {"post", "delete", "clean", None} /\ None \in Owner \cup {None}
            /\ None \in Item \cup {None} /\ id \in Id \cup {NoId}
            /\ job[Cleaner].todo \ {id} \in SUBSET Id
        BY <2>2
      <3>2. j \in Jobs
        BY <3>1, RequestTyped
      <3>3. QED
        BY <2>2, <3>2 DEF Label, Request
    <2>4. job' = [job EXCEPT ![Cleaner] = j]
      BY <2>1
    <2> HIDE DEF j
    <2>5. /\ job' \in [Process -> Jobs] /\ pc' \in [Process -> Label]
          /\ job'[Cleaner] = j /\ pc'[Cleaner] = "select" /\ \A q \in Process \ {Cleaner} : Named(q)'
      BY <1>t, <2>1, <2>3, <2>4, OneProcess
    <2>6. Named(Cleaner)'
      BY <2>3, <2>5 DEF Named
    <2>7. QED
      BY <1>3, <1>t, <2>5, <2>6 DEF CleanNext, TInv, TypeOK, db, other
  <1>4. QED
    BY <1>1, <1>2, <1>3

(* A process changes nothing but its own state and, maybe, the queue. *)
LEMMA Advanced ==
  ASSUME TInv, NEW p \in Process, NEW j \in Jobs, NEW l \in Label,
         job' = [job EXCEPT ![p] = j], pc' = [pc EXCEPT ![p] = l],
         UNCHANGED <<disk, rec, list, nulls, alive, late, wk, asked, crashes>>,
         next' \in 1..(MaxId + 1), queue' \in Seq(Digest) /\ Len(queue') <= Cap,
         j.kind = job[p].kind, j.owner = job[p].owner,
         j.item = job[p].item \/ j.item \in Item,
         l = "update" => p # Cleaner /\ (j.kind = "delete" => j.old \in Id),
         l \in {"select", "remove", "count"} => j.old \in Id,
         l \in {"remove", "count"} => j.item \in Item,
         pc[p] # "idle"
  PROVE  TInv'
  <1>1. /\ job' \in [Process -> Jobs] /\ pc' \in [Process -> Label]
        /\ job'[p] = j /\ pc'[p] = l
        /\ \A q \in Process \ {p} : Named(q)'
    BY OneProcess
  <1>2. Named(p)
    BY DEF TInv
  <1>3. Named(p)'
    BY <1>1, <1>2 DEF Named
  <1>4. QED
    BY <1>1, <1>3 DEF TInv, TypeOK

LEMMA PostTyped ==
  ASSUME TInv, NEW c \in Client, Post(c)
  PROVE  TInv'
  <1>t. TypeOK /\ c \in Process /\ c # Cleaner /\ Named(c) /\ job[c] \in Jobs
    BY FileAssumption DEF TInv, TypeOK, Process
  <1>1. PICK old \in IF Replaced(c) = {} THEN {NoId} ELSE Replaced(c) :
          /\ job' = [job EXCEPT ![c] = [@ EXCEPT !.old = old, !.new = next,
                                        !.ids = (Seen(job[c].owner) \ {old}) \cup {next}]]
          /\ Goto(c, IF old = NoId THEN "update" ELSE "select")
    BY DEF Post
  <1>2. /\ next \in Id /\ next' = next + 1 /\ pc[c] = "read" /\ job[c].kind = "post"
        /\ UNCHANGED <<rec, list, nulls, alive, late, queue, other>>
    BY DEF Post
  <1>3. Seen(job[c].owner) \subseteq Id /\ Replaced(c) \subseteq Id
    BY <1>t, <1>2 DEF Named, Seen, Replaced, TypeOK
  <1>4. old \in Id \cup {NoId} /\ (old # NoId => old \in Id)
    BY <1>1, <1>3
  <1> DEFINE j == [job[c] EXCEPT !.old = old, !.new = next,
                                 !.ids = (Seen(job[c].owner) \ {old}) \cup {next}]
             l == IF old = NoId THEN "update" ELSE "select"
  <1>5. j \in Jobs /\ j.kind = job[c].kind /\ j.owner = job[c].owner /\ j.item = job[c].item /\ j.old = old
    <2>1. (Seen(job[c].owner) \ {old}) \cup {next} \in SUBSET Id
      BY <1>2, <1>3
    <2>2. QED
      BY <1>t, <1>2, <1>4, <2>1 DEF Jobs
  <1>6. job' = [job EXCEPT ![c] = j] /\ pc' = [pc EXCEPT ![c] = l] /\ l \in Label
    BY <1>1, <1>t DEF Goto, TypeOK, Label
  <1> HIDE DEF j
  <1>7. next' \in 1..(MaxId + 1)
    BY <1>2, FileAssumption DEF Id
  <1>8. QED
    BY <1>t, <1>2, <1>4, <1>5, <1>6, <1>7, Advanced DEF other, TypeOK

LEMMA DeleteTyped ==
  ASSUME TInv, NEW c \in Client, Delete(c)
  PROVE  TInv'
  <1>t. TypeOK /\ c \in Process /\ c # Cleaner /\ Named(c) /\ job[c] \in Jobs
    BY FileAssumption DEF TInv, TypeOK, Process
  <1>1. pc[c] = "read" /\ job[c].kind = "delete" /\ UNCHANGED <<db, queue, other>>
    BY DEF Delete
  <1> DEFINE found == {id \in Seen(job[c].owner) : rec[id] = job[c].item}
  <1>2. CASE found = {}
    <2>1. Return(c)
      BY <1>2 DEF Delete
    <2>2. QED
      BY <1>t, <1>1, <2>1, ReturnStep DEF TInv, TypeOK, db, other
  <1>3. CASE found # {}
    <2>1. PICK id \in found :
            /\ job' = [job EXCEPT ![c] = [@ EXCEPT !.old = id, !.ids = Seen(job[c].owner) \ {id}]]
            /\ Goto(c, IF Exam(job[c].owner) THEN "select" ELSE "update")
      BY <1>3 DEF Delete
    <2>2. Seen(job[c].owner) \subseteq Id /\ id \in Id
      BY <1>t, <1>1 DEF Named, Seen, TypeOK
    <2> DEFINE j == [job[c] EXCEPT !.old = id, !.ids = Seen(job[c].owner) \ {id}]
               l == IF Exam(job[c].owner) THEN "select" ELSE "update"
    <2>3. j \in Jobs /\ j.kind = job[c].kind /\ j.owner = job[c].owner /\ j.item = job[c].item /\ j.old = id
      <3>1. Seen(job[c].owner) \ {id} \in SUBSET Id
        BY <2>2
      <3>2. QED
        BY <1>t, <2>2, <3>1 DEF Jobs
    <2>4. job' = [job EXCEPT ![c] = j] /\ pc' = [pc EXCEPT ![c] = l] /\ l \in {"select", "update"} /\ l \in Label
      BY <2>1, <1>t DEF Goto, TypeOK, Label
    <2> HIDE DEF j, l
    <2>5. QED
      BY <1>t, <1>1, <2>2, <2>3, <2>4, Advanced DEF db, other, TypeOK
  <1>4. QED
    BY <1>2, <1>3

LEMMA UpdateTyped ==
  ASSUME TInv, NEW c \in Client, Update(c)
  PROVE  TInv'
  <1>t. TypeOK /\ c \in Process /\ c # Cleaner /\ Named(c) /\ job[c] \in Jobs
    BY FileAssumption DEF TInv, TypeOK, Process
  <1>1. PICK b \in BOOLEAN : b = (job[c].owner \in alive)
    <2> DEFINE found == job[c].owner \in alive
    <2>1. found \in BOOLEAN
      BY DEF TInv
    <2> HIDE DEF found
    <2>2. \E b \in BOOLEAN : b = found
      BY <2>1, Zenon
    <2>3. QED
      BY <2>2 DEF found
  <1> DEFINE j == [job[c] EXCEPT !.wrote = b]
             l == IF job[c].kind = "delete" /\ ~Exam(job[c].owner) THEN "select" ELSE "commit"
  <1>2. j \in Jobs /\ j.kind = job[c].kind /\ j.owner = job[c].owner /\ j.item = job[c].item /\ j.old = job[c].old
    BY <1>t DEF Jobs
  <1>3. job' = [job EXCEPT ![c] = j]
    BY <1>1, <1>t DEF Update, TypeOK
  <1>4. pc' = [pc EXCEPT ![c] = l] /\ l \in Label /\ l \in {"select", "commit"}
    BY DEF Update, Goto, Label
  <1>5. pc[c] = "update" /\ UNCHANGED <<db, queue, other>> /\ (l = "select" => job[c].kind = "delete")
    BY DEF Update
  <1> HIDE DEF j, l
  <1>6. QED
    BY <1>t, <1>2, <1>3, <1>4, <1>5, Advanced DEF db, other, TypeOK, Named

LEMMA SelectTyped ==
  ASSUME TInv, NEW p \in Process, Select(p)
  PROVE  TInv'
  <1>t. TypeOK /\ Named(p) /\ job[p] \in Jobs
    BY DEF TInv, TypeOK
  <1>1. pc[p] = "select" /\ job[p].old \in Id /\ UNCHANGED <<db, queue, other>>
    BY <1>t DEF Select, Named
  <1>2. CASE rec[job[p].old] = None
    <2>1. Return(p)
      BY <1>2 DEF Select
    <2>2. QED
      BY <1>t, <1>1, <2>1, ReturnStep DEF TInv, TypeOK, db, other
  <1>3. CASE rec[job[p].old] # None
    <2> DEFINE j == [job[p] EXCEPT !.item = rec[job[p].old]]
    <2>1. rec[job[p].old] \in Item
      BY <1>t, <1>1, <1>3 DEF TypeOK
    <2>2. j \in Jobs /\ j.kind = job[p].kind /\ j.owner = job[p].owner /\ j.item \in Item /\ j.old = job[p].old
      BY <1>t, <2>1 DEF Jobs
    <2>3. job' = [job EXCEPT ![p] = j] /\ pc' = [pc EXCEPT ![p] = "remove"] /\ "remove" \in Label
      BY <1>3, <1>t DEF Select, Goto, TypeOK, Label
    <2> HIDE DEF j
    <2>4. QED
      BY <1>t, <1>1, <2>2, <2>3, Advanced DEF db, other, TypeOK
  <1>4. QED
    BY <1>2, <1>3

LEMMA RemoveTyped ==
  ASSUME TInv, NEW p \in Process, Remove(p)
  PROVE  TInv'
  <1>t. TypeOK /\ Named(p) /\ job[p] \in Jobs
    BY DEF TInv, TypeOK
  <1>1. PICK b \in BOOLEAN : b = (rec[job[p].old] # None)
    OBVIOUS
  <1> DEFINE j == [job[p] EXCEPT !.took = b]
  <1>2. j \in Jobs /\ j.kind = job[p].kind /\ j.owner = job[p].owner /\ j.item = job[p].item /\ j.old = job[p].old
    BY <1>t DEF Jobs
  <1>3. job' = [job EXCEPT ![p] = j] /\ pc' = [pc EXCEPT ![p] = "count"] /\ "count" \in Label
    BY <1>1, <1>t DEF Remove, Goto, TypeOK, Label
  <1>4. pc[p] = "remove" /\ UNCHANGED <<db, queue, other>>
    BY DEF Remove
  <1> HIDE DEF j
  <1>5. QED
    BY <1>t, <1>2, <1>3, <1>4, Advanced DEF db, other, TypeOK, Named

LEMMA CountTyped ==
  ASSUME TInv, NEW p \in Process, Count(p)
  PROVE  TInv'
  <1>t. TypeOK /\ Named(p) /\ job[p] \in Jobs
    BY DEF TInv, TypeOK
  <1> DEFINE j == job[p]
             l == IF job[p].kind # "clean" /\ Exam(job[p].owner) THEN "update" ELSE "commit"
  <1>1. pc[p] = "count" /\ job[p].item \in Item /\ job[p].old \in Id /\ UNCHANGED <<db, job, other>>
    BY <1>t DEF Count, Named
  <1>2. queue' \in Seq(Digest) /\ Len(queue') <= Cap
    <2>1. DigestOf[job[p].item] \in Digest
      BY <1>1, FileAssumption
    <2>2. queue' = queue \/ (Len(queue) < Cap /\ queue' = Append(queue, DigestOf[job[p].item]))
      BY DEF Count, Room
    <2>3. queue \in Seq(Digest) /\ Len(queue) <= Cap /\ Cap \in Nat
      BY <1>t, FileAssumption DEF TypeOK
    <2>4. CASE queue' = queue
      BY <2>3, <2>4
    <2>5. CASE Len(queue) < Cap /\ queue' = Append(queue, DigestOf[job[p].item])
      <3>1. queue' \in Seq(Digest) /\ Len(queue') = Len(queue) + 1 /\ Len(queue) \in Nat
        BY <2>1, <2>3, <2>5
      <3>2. QED
        BY <2>3, <2>5, <3>1
    <2>6. QED
      BY <2>2, <2>4, <2>5
  <1>3. job' = [job EXCEPT ![p] = j]
    BY <1>1, <1>t DEF TypeOK
  <1>4. pc' = [pc EXCEPT ![p] = l] /\ l \in Label /\ l \in {"update", "commit"}
    BY DEF Count, Goto, Label
  <1>5. l = "update" => p # Cleaner
    BY <1>t, <1>1 DEF Named
  <1> HIDE DEF l
  <1>6. QED
    BY <1>t, <1>1, <1>2, <1>3, <1>4, <1>5, Advanced DEF db, other, TypeOK

LEMMA CommitTyped ==
  ASSUME TInv, NEW p \in Process, Commit(p)
  PROVE  TInv'
  <1>t. TypeOK /\ Named(p) /\ job[p] \in Jobs
    BY DEF TInv, TypeOK
  <1>1. /\ pc[p] = "commit" /\ UNCHANGED <<alive, next, queue, other>>
        /\ rec' = [id \in Id |-> IF id = job[p].new THEN job[p].item
                                 ELSE IF job[p].took /\ id = job[p].old THEN None ELSE rec[id]]
        /\ list' = [o \in Owner |-> IF job[p].wrote /\ o = job[p].owner THEN job[p].ids ELSE list[o]]
        /\ nulls' = nulls \/ (job[p].owner \in Record /\ nulls' = nulls \cup {job[p].owner})
        /\ late' = late \/ (job[p].new # NoId /\ late' = late \cup {job[p].new})
    BY DEF Commit
  <1>2. rec' \in [Id -> Item \cup {None}] /\ list' \in [Owner -> SUBSET Id]
    BY <1>t, <1>1 DEF TypeOK, Jobs
  <1>3. nulls' \subseteq Record /\ late' \subseteq Id
    BY <1>t, <1>1 DEF TypeOK, Jobs
  <1>4. job' \in [Process -> Jobs] /\ pc' \in [Process -> Label] /\ \A q \in Process : Named(q)'
    <2>1. CASE job[p].kind = "clean"
      <3> DEFINE j == Request("clean", None, None, NoId, job[p].todo)
      <3>1. /\ "clean" \in {"post", "delete", "clean", None} /\ None \in Owner \cup {None}
            /\ None \in Item \cup {None} /\ NoId \in Id \cup {NoId} /\ job[p].todo \in SUBSET Id
        BY <1>t DEF Jobs
      <3>2. j \in Jobs
        BY <3>1, RequestTyped
      <3>3. j.kind = "clean" /\ "read" \in Label
        BY DEF Request, Label
      <3>4. job' = [job EXCEPT ![p] = j] /\ pc' = [pc EXCEPT ![p] = "read"]
        BY <2>1 DEF Commit, Goto
      <3> HIDE DEF j
      <3>5. /\ job' \in [Process -> Jobs] /\ pc' \in [Process -> Label]
            /\ job'[p] = j /\ pc'[p] = "read" /\ \A q \in Process \ {p} : Named(q)'
        BY <3>2, <3>3, <3>4, OneProcess
      <3>6. Named(p)'
        BY <3>3, <3>5, <1>t, <1>1, <2>1 DEF Named
      <3>7. QED
        BY <3>5, <3>6
    <2>2. CASE job[p].kind # "clean"
      <3>1. Return(p)
        BY <2>2 DEF Commit
      <3>2. QED
        BY <3>1, ReturnStep
    <2>3. QED
      BY <2>1, <2>2
  <1>5. QED
    BY <1>t, <1>1, <1>2, <1>3, <1>4 DEF TInv, TypeOK, other

LEMMA ReturnTyped ==
  ASSUME TInv, NEW p \in Process, Return(p), UNCHANGED <<db, queue, other>>
  PROVE  TInv'
  BY ReturnStep DEF TInv, TypeOK, db, other

LEMMA WorkerTyped ==
  ASSUME TInv, NEW w \in Worker, WorkerStep(w)
  PROVE  TInv'
  <1>t. TypeOK /\ wk[w] \in [digest : Digest \cup {None}, at : {"idle", "count", "remove"}]
    BY DEF TInv, TypeOK
  <1>1. UNCHANGED <<db, pc, job, asked, crashes>>
    BY DEF WorkerStep, Take, CountRecords, RemoveFile
  <1>2. disk' \subseteq Digest
    BY <1>t DEF WorkerStep, Take, CountRecords, RemoveFile, TypeOK
  <1>3. /\ wk' \in [Worker -> [digest : Digest \cup {None}, at : {"idle", "count", "remove"}]]
        /\ queue' \in Seq(Digest) /\ Len(queue') <= Cap
    <2>1. CASE Take(w)
      <3>1. Head(queue) \in Digest /\ Tail(queue) \in Seq(Digest) /\ Len(Tail(queue)) <= Cap
        BY <1>t, <2>1, FileAssumption DEF Take, TypeOK
      <3>2. QED
        BY <1>t, <2>1, <3>1 DEF Take, TypeOK
    <2>2. CASE CountRecords(w)
      BY <1>t, <2>2 DEF CountRecords, TypeOK, Rest
    <2>3. CASE RemoveFile(w)
      BY <1>t, <2>3 DEF RemoveFile, TypeOK, Rest
    <2>4. QED
      BY <2>1, <2>2, <2>3 DEF WorkerStep
  <1>4. \A q \in Process : Named(q)'
    BY <1>1 DEF TInv, Named
  <1>5. QED
    BY <1>t, <1>1, <1>2, <1>3, <1>4 DEF TInv, TypeOK, db

LEMMA CrashTyped ==
  ASSUME TInv, Crash
  PROVE  TInv'
  <1>1. job' \in [Process -> Jobs] /\ pc' \in [Process -> Label]
    BY NoJobTyped DEF Crash, Label
  <1>2. \A q \in Process : Named(q)'
    BY NoJobTyped DEF Crash, Named, None
  <1>3. /\ queue' \in Seq(Digest) /\ Len(queue') <= Cap /\ crashes' \in 0..MaxCrash
        /\ wk' \in [Worker -> [digest : Digest \cup {None}, at : {"idle", "count", "remove"}]]
    BY FileAssumption DEF Crash, TInv, TypeOK, Rest
  <1>4. QED
    BY <1>1, <1>2, <1>3 DEF Crash, TInv, TypeOK, db

LEMMA TypedNext ==
  ASSUME TInv, [Next]_vars
  PROVE  TInv'
  <1>1. CASE \E c \in Client : AskPost(c) \/ AskDelete(c)
    BY <1>1, AskTyped
  <1>2. CASE \E o \in Owner : Clean(o)
    BY <1>2, CleanTyped
  <1>3. CASE \E p \in Process : Step(p) \/ Fail(p)
    <2>1. PICK p \in Process : Step(p) \/ Fail(p)
      BY <1>3
    <2>2. CASE Select(p) \/ Remove(p) \/ Count(p) \/ Commit(p)
      BY <2>2, SelectTyped, RemoveTyped, CountTyped, CommitTyped
    <2>3. CASE p \in Client /\ (Post(p) \/ Delete(p) \/ Update(p))
      BY <2>3, PostTyped, DeleteTyped, UpdateTyped
    <2>4. CASE Refused(p) \/ Absent(p) \/ Fail(p)
      BY <2>4, ReturnTyped DEF Refused, Absent, Fail
    <2>5. CASE p = Cleaner /\ CleanNext
      BY <2>5, CleanTyped
    <2>6. QED
      BY <2>1, <2>2, <2>3, <2>4, <2>5 DEF Step
  <1>4. CASE \E w \in Worker : WorkerStep(w)
    BY <1>4, WorkerTyped
  <1>5. CASE Crash
    BY <1>5, CrashTyped
  <1>6. CASE UNCHANGED vars
    BY <1>6 DEF vars, TInv, TypeOK, Named
  <1>7. QED
    BY <1>1, <1>2, <1>3, <1>4, <1>5, <1>6 DEF Next

-----------------------------------------------------------------------------
(* Files. *)

LEMMA InitKept == Init => KInv
  <1> SUFFICES ASSUME Init PROVE KInv
    OBVIOUS
  <1>1. \A id \in Id : rec[id] # None => id \in DOMAIN First /\ rec[id] = First[id][2]
    BY DEF Init
  <1>2. FileKept
    BY <1>1 DEF Init, FileKept, Of
  <1>3. Counted
    BY DEF Init, Counted, Rest
  <1>4. QED
    BY <1>2, <1>3 DEF KInv

LEMMA CommitKept ==
  ASSUME TInv, KInv, NEW p \in Process, Commit(p)
  PROVE  KInv'
  <1> DEFINE j == job[p]
             d == DigestOf[j.item]
  <1>1. /\ rec' = [id \in Id |-> IF id = j.new THEN j.item
                                 ELSE IF j.took /\ id = j.old THEN None ELSE rec[id]]
        /\ late' = IF j.new # NoId /\ (d \notin disk \/ \E w \in Worker : wk[w] = [digest |-> d, at |-> "remove"])
                   THEN late \cup {j.new} ELSE late
        /\ disk' = disk /\ wk' = wk
    BY DEF Commit, other
  <1>2. \A w \in Worker : wk[w] \in [digest : Digest \cup {None}, at : {"idle", "count", "remove"}]
    BY DEF TInv, TypeOK
  <1>3. ASSUME NEW id \in Id, rec'[id] # None, id \notin late'
        PROVE  /\ Of(id)' \in disk
               /\ \A w \in Worker : wk[w].at = "remove" => Of(id)' # wk[w].digest
    <2>1. Of(id)' = DigestOf[rec'[id]]
      BY DEF Of
    <2>2. CASE id = j.new
      <3>1. j.new # NoId /\ Of(id)' = d
        BY <1>1, <2>1, <2>2 DEF Id, NoId
      <3>2. d \in disk /\ \A w \in Worker : wk[w] # [digest |-> d, at |-> "remove"]
        BY <1>1, <1>3, <2>2, <3>1
      <3>3. ASSUME NEW w \in Worker, wk[w].at = "remove", wk[w].digest = d
            PROVE  FALSE
        <4>1. wk[w] = [digest |-> d, at |-> "remove"]
          BY <1>2, <3>3
        <4>2. QED
          BY <3>2, <4>1
      <3>4. QED
        BY <3>1, <3>2, <3>3
    <2>3. CASE id # j.new
      <3>1. rec'[id] = rec[id] /\ rec[id] # None /\ id \notin late
        BY <1>1, <1>3, <2>3
      <3>2. QED
        BY <2>1, <3>1 DEF KInv, FileKept, Counted, Of
    <2>4. QED
      BY <2>2, <2>3
  <1>4. QED
    BY <1>1, <1>3 DEF KInv, FileKept, Counted

LEMMA WorkerKept ==
  ASSUME TInv, KInv, NEW w \in Worker, WorkerStep(w)
  PROVE  KInv'
  <1>t. \A v \in Worker : wk[v] \in [digest : Digest \cup {None}, at : {"idle", "count", "remove"}]
    BY DEF TInv, TypeOK
  <1>u. wk \in [Worker -> [digest : Digest \cup {None}, at : {"idle", "count", "remove"}]]
    BY DEF TInv, TypeOK
  <1>1. rec' = rec /\ late' = late
    BY DEF WorkerStep, Take, CountRecords, RemoveFile, db
  <1>2. CASE Take(w)
    BY <1>1, <1>2, <1>u DEF Take, KInv, FileKept, Counted, Of
  <1>3. CASE CountRecords(w)
    <2>1. \A v \in Worker : wk'[v].at = "remove" =>
            \/ wk[v].at = "remove" /\ wk'[v].digest = wk[v].digest
            \/ Recorded(wk'[v].digest) = {}
      BY <1>3, <1>u DEF CountRecords, Rest
    <2>2. Counted'
      BY <1>1, <2>1 DEF KInv, Counted, Recorded, Of
    <2>3. QED
      BY <1>1, <1>3, <2>2 DEF CountRecords, KInv, FileKept, Of
  <1>4. CASE RemoveFile(w)
    <2>1. wk[w].at = "remove" /\ disk' = disk \ {wk[w].digest}
      BY <1>4 DEF RemoveFile
    <2>2. \A v \in Worker : wk'[v].at = "remove" => wk'[v] = wk[v]
      BY <1>4, <1>u DEF RemoveFile, Rest
    <2>3. QED
      BY <1>1, <2>1, <2>2 DEF KInv, FileKept, Counted, Of
  <1>5. QED
    BY <1>2, <1>3, <1>4 DEF WorkerStep

LEMMA KeptNext ==
  ASSUME TInv, KInv, [Next]_vars
  PROVE  KInv'
  <1>1. CASE /\ rec' = rec /\ late' = late /\ disk \subseteq disk'
             /\ wk' = wk \/ \A w \in Worker : wk'[w] = Rest
    BY <1>1 DEF KInv, FileKept, Counted, Of, Rest
  <1>2. CASE \E c \in Client : AskPost(c) \/ AskDelete(c)
    BY <1>1, <1>2 DEF AskPost, AskDelete, db
  <1>3. CASE \E o \in Owner : Clean(o)
    BY <1>1, <1>3 DEF Clean, other
  <1>4. CASE \E p \in Process : Step(p) \/ Fail(p)
    <2>1. PICK p \in Process : Step(p) \/ Fail(p)
      BY <1>4
    <2>2. CASE Commit(p)
      BY <2>2, CommitKept
    <2>3. CASE Select(p) \/ Remove(p) \/ Count(p) \/ Fail(p) \/ Refused(p) \/ Absent(p) \/ CleanNext
      BY <1>1, <2>3 DEF Select, Remove, Count, Fail, Refused, Absent, CleanNext, db, other
    <2>4. CASE Post(p) \/ Delete(p) \/ Update(p)
      BY <1>1, <2>4 DEF Post, Delete, Update, db, other
    <2>5. QED
      BY <2>1, <2>2, <2>3, <2>4 DEF Step
  <1>5. CASE \E w \in Worker : WorkerStep(w)
    BY <1>5, WorkerKept
  <1>6. CASE Crash
    BY <1>1, <1>6 DEF Crash, db
  <1>7. CASE UNCHANGED vars
    BY <1>1, <1>7 DEF vars
  <1>8. QED
    BY <1>2, <1>3, <1>4, <1>5, <1>6, <1>7 DEF Next

-----------------------------------------------------------------------------
(* Lists. *)

LEMMA InitListed == Init => LInv
  <1> SUFFICES ASSUME Init PROVE LInv
    OBVIOUS
  <1> USE FileAssumption
  <1>1. /\ DOMAIN First = 1..Len(First) /\ Len(First) \in Nat /\ next = Len(First) + 1
        /\ \A id \in DOMAIN First : id \in Id /\ First[id][1] \in Owner /\ First[id][2] \in Item /\ id < next
    BY DEF Init, Id
  <1>2. /\ \A o \in Owner : \A id \in list[o] : id \in DOMAIN First /\ First[id][1] = o
        /\ \A id \in Id : rec[id] # None <=> id \in DOMAIN First
    BY <1>1 DEF Init
  <1>3. ListsMatch
    BY <1>1, <1>2 DEF Init, ListsMatch
  <1>4. Bounded
    BY <1>1, <1>2, NoJobTyped DEF Init, Bounded, NoId
  <1>5. Cleaning /\ Gone
    <2>1. job[Cleaner] = NoJob
      BY DEF Init, Process
    <2>2. \A o \in Owner : NoId \notin list[o]
      BY <1>1, <1>2 DEF Id, NoId
    <2>3. QED
      BY <2>1, <2>2, NoJobTyped DEF Init, Cleaning, Gone
  <1>6. \A c \in Client : Unused(c) /\ Edit(c) /\ Client_(c)
    <2>1. \A c \in Client : job[c] = NoJob /\ pc[c] = "idle"
      BY DEF Init, Process
    <2>2. QED
      BY <2>1, NoJobTyped DEF Unused, Edit, Client_, None
  <1>7. QED
    BY <1>3, <1>4, <1>5, <1>6 DEF LInv

(* A step of one process that commits nothing. *)
LEMMA Local ==
  ASSUME Apart, TInv, LInv, NEW p \in Process, NEW j \in Jobs, NEW l \in Label,
         job' = [job EXCEPT ![p] = j], pc' = [pc EXCEPT ![p] = l],
         UNCHANGED <<rec, list, alive, next>>,
         j.new \in {NoId, job[p].new}, j.todo \subseteq job[p].todo,
         \/ j.old \in {NoId, job[p].old} \cup job[p].todo
         \/ \E o \in Owner : j.old \in list[o],
         p \in Client => Edit(p)' /\ Client_(p)',
         p = Cleaner => Cleaning'
  PROVE  LInv'
  <1>1. /\ job'[p] = j /\ pc'[p] = l
        /\ \A q \in Process \ {p} : job'[q] = job[q] /\ pc'[q] = pc[q]
    BY OneProcess
  <1>2. ListsMatch' /\ Gone'
    BY DEF LInv, ListsMatch, Gone, Apart
  <1>3. next \in Nat /\ next > 0 /\ \A o \in Owner : \A id \in list[o] : id \in Id /\ id < next
    BY DEF LInv, TInv, TypeOK, ListsMatch, Bounded, Id
  <1>4. Bounded'
    <2>1. j.old < next /\ j.new < next /\ \A id \in j.todo : id < next
      BY <1>3 DEF LInv, Bounded, NoId
    <2>2. QED
      BY <1>1, <2>1 DEF LInv, Bounded
  <1>5. Cleaning'
    BY <1>1 DEF LInv, Cleaning, Process
  <1>6. ASSUME NEW c \in Client
        PROVE  Unused(c)' /\ Edit(c)' /\ Client_(c)'
    <2>1. c \in Process
      BY DEF Process
    <2>2. Unused(c)'
      <3>1. job'[c].new \in {NoId, job[c].new}
        BY <1>1, <2>1
      <3>2. CASE job[c].new # NoId
        <4>1. /\ rec[job[c].new] = None
              /\ \A o \in Owner : job[c].new \notin list[o]
              /\ \A q \in Process : job[c].new # job[q].old /\ job[c].new \notin job[q].todo
              /\ \A q \in Process \ {c} : job[c].new # job[q].new
          BY <3>2 DEF LInv, Unused
        <4>2. job[c].new # j.old /\ job[c].new \notin j.todo /\ (c # p => job[c].new # j.new)
          BY <3>2, <4>1, <2>1
        <4>3. \A q \in Process : job[c].new # job'[q].old /\ job[c].new \notin job'[q].todo
          BY <1>1, <4>1, <4>2
        <4>4. \A q \in Process \ {c} : job[c].new # job'[q].new
          BY <1>1, <4>1, <4>2
        <4>5. QED
          BY <3>1, <4>1, <4>3, <4>4 DEF Unused
      <3>3. QED
        BY <3>1, <3>2 DEF Unused
    <2>3. CASE c = p
      BY <2>2, <2>3
    <2>4. CASE c # p
      BY <1>1, <2>1, <2>2, <2>4 DEF LInv, Edit, Client_
    <2>5. QED
      BY <2>3, <2>4
  <1>7. QED
    BY <1>2, <1>4, <1>5, <1>6 DEF LInv

(* A transaction that is over. *)
LEMMA ReturnListed ==
  ASSUME Apart, TInv, LInv, NEW p \in Process, Return(p), UNCHANGED <<rec, list, alive, next>>
  PROVE  LInv'
  <1>1. /\ job' = [job EXCEPT ![p] = NoJob] /\ pc' = [pc EXCEPT ![p] = "idle"]
        /\ NoJob \in Jobs /\ "idle" \in Label
    BY NoJobTyped DEF Return, Goto, Label
  <1>2. job'[p] = NoJob /\ pc'[p] = "idle"
    BY <1>1, OneProcess
  <1>3. p \in Client => Edit(p)' /\ Client_(p)'
    BY <1>2, NoJobTyped DEF Edit, Client_, None
  <1>4. p = Cleaner => Cleaning'
    <2>1. \A o \in Owner : NoId \notin list[o]
      BY DEF TInv, TypeOK, Id, NoId
    <2>2. QED
      BY <1>2, <2>1, NoJobTyped DEF Cleaning
  <1>5. NoJob.new = NoId /\ NoJob.old = NoId /\ NoJob.todo = {}
    BY NoJobTyped
  <1>6. QED
    BY <1>1, <1>3, <1>4, <1>5, Local

LEMMA AskListed ==
  ASSUME Apart, TInv, LInv, NEW c \in Client, AskPost(c) \/ AskDelete(c)
  PROVE  LInv'
  <1>1. PICK kind \in {"post", "delete"}, o \in Works[c], i \in Item :
          /\ job' = [job EXCEPT ![c] = Request(kind, o, i, NoId, {})]
          /\ pc' = [pc EXCEPT ![c] = "read"]
    BY DEF AskPost, AskDelete, Goto
  <1>2. c \in Process /\ o \in Owner /\ c # Cleaner
    BY FileAssumption DEF Process
  <1> DEFINE j == Request(kind, o, i, NoId, {})
  <1>3. j \in Jobs
    <2>1. /\ kind \in {"post", "delete", "clean", None} /\ o \in Owner \cup {None}
          /\ i \in Item \cup {None} /\ NoId \in Id \cup {NoId} /\ {} \in SUBSET Id
      BY <1>2
    <2>2. QED
      BY <2>1, RequestTyped
  <1>4. /\ j.owner = o /\ j.kind = kind /\ j.new = NoId /\ j.old = NoId /\ j.todo = {}
        /\ ~j.took /\ ~j.wrote
    BY Zenon DEF Request
  <1>5. job' = [job EXCEPT ![c] = j] /\ "read" \in Label
    BY <1>1 DEF Label
  <1> HIDE DEF j
  <1>6. job'[c] = j /\ pc'[c] = "read"
    BY <1>1, <1>2, <1>3, <1>5, OneProcess
  <1>7. Edit(c)' /\ Client_(c)'
    BY <1>4, <1>6 DEF Edit, Client_
  <1>8. UNCHANGED <<rec, list, alive, next>>
    BY DEF AskPost, AskDelete, db
  <1>9. QED
    BY <1>1, <1>2, <1>3, <1>4, <1>5, <1>7, <1>8, Local

LEMMA CleanListed ==
  ASSUME Apart, TInv, LInv, NEW o \in Owner, Clean(o)
  PROVE  LInv'
  <1>t. TypeOK /\ Cleaner \in Process /\ \A c \in Client : c \in Process /\ c # Cleaner
    BY FileAssumption DEF TInv, Process
  <1> DEFINE j == Request("clean", None, None, NoId, list[o])
  <1>1. j \in Jobs
    <2>1. /\ "clean" \in {"post", "delete", "clean", None} /\ None \in Owner \cup {None}
          /\ None \in Item \cup {None} /\ NoId \in Id \cup {NoId} /\ list[o] \in SUBSET Id
      BY <1>t DEF TypeOK
    <2>2. QED
      BY <2>1, RequestTyped
  <1>2. j.new = NoId /\ j.old = NoId /\ j.todo = list[o] /\ ~j.wrote
    BY Zenon DEF Request
  <1>3. job' = [job EXCEPT ![Cleaner] = j] /\ pc' = [pc EXCEPT ![Cleaner] = "read"] /\ "read" \in Label
    BY DEF Clean, Goto, Label
  <1> HIDE DEF j
  <1>4. job'[Cleaner] = j /\ \A c \in Process \ {Cleaner} : job'[c] = job[c] /\ pc'[c] = pc[c]
    BY <1>t, <1>1, <1>3, OneProcess
  <1>5. /\ list' = [list EXCEPT ![o] = {}] /\ alive' = alive \ {o} /\ o \in alive
        /\ rec' = rec /\ next' = next
        /\ \A c \in Client : ~(job[c].wrote /\ job[c].owner = o)
    BY <1>t DEF Clean, OwnerFree
  <1>6. \A q \in Owner : list'[q] = IF q = o THEN {} ELSE list[q]
    BY <1>t, <1>5 DEF TypeOK
  <1>7. \A q \in Owner : \A id \in list[q] : id \in Id /\ rec[id] # None /\ id < next /\ id # NoId
    BY <1>t DEF TypeOK, LInv, ListsMatch, Bounded, Id, NoId
  <1>8. \A q, r \in Owner : q # r => list[q] \cap list[r] = {}
    BY DEF LInv, ListsMatch
  <1>9. ListsMatch'
    <2>1. \A q \in Owner : \A id \in list'[q] : rec'[id] # None
      BY <1>5, <1>6, <1>7
    <2>2. \A q, r \in Owner : q # r => list'[q] \cap list'[r] = {}
      BY <1>6, <1>8
    <2>3. alive' # Owner
      BY <1>5
    <2>4. QED
      BY <2>1, <2>2, <2>3 DEF ListsMatch
  <1>10. Bounded'
    <2>1. j.old < next /\ j.new < next /\ \A id \in j.todo : id < next
      BY <1>t, <1>2, <1>7 DEF LInv, Bounded, TypeOK, NoId
    <2>2. QED
      BY <1>t, <1>4, <1>5, <2>1 DEF LInv, Bounded
  <1>11. Cleaning' /\ Gone'
    <2>1. \A q \in Owner : list'[q] \cap (j.todo \cup {j.old}) = {}
      BY <1>2, <1>6, <1>7, <1>8
    <2>2. QED
      BY <1>2, <1>4, <1>5, <1>6, <2>1 DEF LInv, Cleaning, Gone
  <1>12. ASSUME NEW c \in Client
         PROVE  Unused(c)' /\ Edit(c)' /\ Client_(c)'
    <2>1. job'[c] = job[c] /\ pc'[c] = pc[c]
      BY <1>t, <1>4
    <2>2. Unused(c)'
      <3>1. CASE job[c].new # NoId
        <4>1. /\ rec[job[c].new] = None
              /\ \A q \in Owner : job[c].new \notin list[q]
              /\ \A q \in Process : job[c].new # job[q].old /\ job[c].new \notin job[q].todo
              /\ \A q \in Process \ {c} : job[c].new # job[q].new
          BY <3>1 DEF LInv, Unused
        <4>2. \A q \in Process : job[c].new # job'[q].old /\ job[c].new \notin job'[q].todo
          BY <1>2, <1>4, <3>1, <4>1
        <4>3. \A q \in Process \ {c} : job[c].new # job'[q].new
          BY <1>2, <1>4, <3>1, <4>1
        <4>4. QED
          BY <1>5, <1>6, <2>1, <4>1, <4>2, <4>3 DEF Unused
      <3>2. QED
        BY <2>1, <3>1 DEF Unused
    <2>3. Edit(c)'
      BY <1>5, <1>6, <2>1 DEF LInv, Edit
    <2>4. Client_(c)'
      BY <1>5, <2>1 DEF LInv, Client_
    <2>5. QED
      BY <2>2, <2>3, <2>4
  <1>13. QED
    BY <1>9, <1>10, <1>11, <1>12 DEF LInv

LEMMA CleanNextListed ==
  ASSUME Apart, TInv, LInv, CleanNext
  PROVE  LInv'
  <1>t. TypeOK /\ Cleaner \in Process /\ Cleaner \notin Client
    BY FileAssumption DEF TInv, Process
  <1>1. UNCHANGED <<rec, list, alive, next>>
    BY DEF CleanNext, db
  <1>2. CASE job[Cleaner].todo = {}
    <2>1. Return(Cleaner)
      BY <1>2 DEF CleanNext
    <2>2. QED
      BY <1>t, <1>1, <2>1, ReturnListed
  <1>3. CASE job[Cleaner].todo # {}
    <2>1. PICK id \in job[Cleaner].todo :
            /\ job' = [job EXCEPT ![Cleaner] = Request("clean", None, None, id, job[Cleaner].todo \ {id})]
            /\ pc' = [pc EXCEPT ![Cleaner] = "select"]
      BY <1>3, <1>t DEF CleanNext, Goto, TypeOK
    <2> DEFINE j == Request("clean", None, None, id, job[Cleaner].todo \ {id})
    <2>2. j \in Jobs
      <3>1. /\ "clean" \in {"post", "delete", "clean", None} /\ None \in Owner \cup {None}
            /\ None \in Item \cup {None} /\ id \in Id \cup {NoId}
            /\ job[Cleaner].todo \ {id} \in SUBSET Id
        BY <1>t DEF TypeOK, Jobs
      <3>2. QED
        BY <3>1, RequestTyped
    <2>3. j.new = NoId /\ j.old = id /\ j.todo = job[Cleaner].todo \ {id} /\ ~j.wrote
      BY Zenon DEF Request
    <2>4. job' = [job EXCEPT ![Cleaner] = j] /\ "select" \in Label
      BY <2>1 DEF Label
    <2> HIDE DEF j
    <2>5. job'[Cleaner] = j
      BY <1>t, <2>1, <2>2, <2>4, OneProcess
    <2>6. Cleaning'
      BY <1>1, <2>3, <2>5 DEF LInv, Cleaning
    <2>7. QED
      BY <1>t, <1>1, <2>1, <2>2, <2>3, <2>4, <2>6, Local
  <1>4. QED
    BY <1>2, <1>3

(* An id from the sequence is new to every list and every transaction. *)
LEMMA PostListed ==
  ASSUME Apart, TInv, LInv, NEW c \in Client, Post(c)
  PROVE  LInv'
  <1>t. TypeOK /\ c \in Process /\ c # Cleaner /\ Named(c) /\ job[c] \in Jobs
    BY FileAssumption DEF TInv, TypeOK, Process
  <1>1. PICK old \in IF Replaced(c) = {} THEN {NoId} ELSE Replaced(c) :
          /\ job' = [job EXCEPT ![c] = [@ EXCEPT !.old = old, !.new = next,
                                        !.ids = (Seen(job[c].owner) \ {old}) \cup {next}]]
          /\ Goto(c, IF old = NoId THEN "update" ELSE "select")
    BY DEF Post
  <1>2. /\ next \in Id /\ next # NoId /\ next' = next + 1 /\ pc[c] = "read" /\ job[c].kind = "post"
        /\ job[c].owner \in Owner /\ job[c].owner \in Works[c]
        /\ ~job[c].took /\ ~job[c].wrote /\ job[c].new = NoId
        /\ UNCHANGED <<rec, list, alive>>
    BY <1>t DEF Post, Named, LInv, Client_, Id, NoId
  <1> DEFINE o == job[c].owner
  <1>3. Seen(o) = list[o] /\ list[o] \subseteq Id
    BY <1>t, <1>2 DEF LInv, ListsMatch, Seen, TypeOK
  <1>4. /\ old \in Id \cup {NoId} /\ (old # NoId => old \in list[o] /\ Exam(o))
    BY <1>1, <1>3 DEF Replaced
  <1> DEFINE j == [job[c] EXCEPT !.old = old, !.new = next, !.ids = (Seen(o) \ {old}) \cup {next}]
             l == IF old = NoId THEN "update" ELSE "select"
  <1>5. /\ j \in Jobs /\ j.kind = "post" /\ j.owner = o /\ j.old = old /\ j.new = next
        /\ j.ids = (list[o] \ {old}) \cup {next} /\ j.todo = job[c].todo
    <2>1. (Seen(o) \ {old}) \cup {next} \in SUBSET Id
      BY <1>2, <1>3
    <2>2. QED
      BY <1>t, <1>2, <1>3, <1>4, <2>1 DEF Jobs
  <1>w. ~j.wrote
    <2>1. ~job[c].wrote
      BY <1>2
    <2>2. j.wrote = job[c].wrote
      BY <1>t DEF Jobs
    <2>3. QED
      BY <2>1, <2>2, Zenon
  <1>6. job' = [job EXCEPT ![c] = j] /\ pc' = [pc EXCEPT ![c] = l] /\ l \in Label
        /\ (l = "update" => old = NoId) /\ l \in {"update", "select"} /\ (l = "select" => old # NoId)
    BY <1>1, <1>t DEF Goto, TypeOK, Label
  <1> HIDE DEF j, l, o
  <1>7. /\ job'[c] = j /\ pc'[c] = l
        /\ \A q \in Process \ {c} : job'[q] = job[q] /\ pc'[q] = pc[q]
    BY <1>t, <1>5, <1>6, OneProcess
  <1>8. /\ \A q \in Process : /\ job[q].old < next /\ job[q].new < next
                              /\ \A id \in job[q].todo : id < next
        /\ \A q \in Owner : \A id \in list[q] : id < next /\ id \in Id
        /\ rec[next] = None
    BY <1>t, <1>2 DEF LInv, ListsMatch, Bounded, TypeOK, Id
  <1>9. ListsMatch' /\ Gone'
    BY <1>2 DEF LInv, ListsMatch, Gone
  <1>n. next \in Nat /\ next > 0 /\ \A q \in Process : job[q].old \in Nat /\ job[q].new \in Nat /\ job[q].todo \subseteq Nat
    BY <1>t DEF TypeOK, Jobs, Id, NoId
  <1>10. Bounded'
    <2>1. old \in Nat /\ old < next
      <3>1. old # NoId => old < next /\ old \in Nat
        BY <1>2, <1>4, <1>8 DEF o, Id
      <3>2. QED
        BY <1>n, <3>1 DEF NoId
    <2>2. \A q \in Process : /\ job'[q].old < next + 1 /\ job'[q].new < next + 1
                             /\ \A id \in job'[q].todo : id < next + 1
      <3>1. j.old < next + 1 /\ j.new < next + 1 /\ \A id \in j.todo : id < next + 1
        BY <1>t, <1>5, <1>8, <1>n, <2>1
      <3>2. \A q \in Process \ {c} : /\ job[q].old < next + 1 /\ job[q].new < next + 1
                                     /\ \A id \in job[q].todo : id < next + 1
        BY <1>8, <1>n
      <3>3. QED
        BY <1>7, <3>1, <3>2
    <2>3. \A id \in Id : rec[id] # None => id < next + 1
      BY <1>n DEF LInv, Bounded, Id
    <2>4. QED
      BY <1>2, <2>2, <2>3 DEF Bounded
  <1>11. Cleaning'
    BY <1>t, <1>2, <1>7 DEF LInv, Cleaning, Process
  <1>12. Unused(c)' /\ Edit(c)' /\ Client_(c)'
    <2>1. Unused(c)'
      <3>1. \A q \in Process : next # job'[q].old /\ next \notin job'[q].todo
        <4>1. old # next
          BY <1>2, <1>4, <1>8, <1>n DEF o
        <4>2. \A q \in Process : next # job[q].old /\ next \notin job[q].todo
          BY <1>8, <1>n
        <4>3. QED
          BY <1>t, <1>5, <1>7, <4>1, <4>2
      <3>2. \A q \in Process \ {c} : next # job'[q].new
        BY <1>7, <1>8, <1>n
      <3>3. \A q \in Owner : next \notin list[q]
        BY <1>8, <1>n
      <3>4. QED
        BY <1>2, <1>5, <1>7, <1>8, <3>1, <3>2, <3>3 DEF Unused
    <2>2. Edit(c)'
      <3>1. \A q \in Owner : q # o => old \notin list[q]
        BY <1>2, <1>4, <1>8 DEF o, LInv, ListsMatch, NoId, Id
      <3>2. {next} \ {NoId} = {next}
        BY <1>2
      <3>3. QED
        BY <1>2, <1>4, <1>5, <1>6, <1>7, <3>1, <3>2 DEF Edit
    <2>3. Client_(c)'
      BY <1>2, <1>5, <1>6, <1>7, <1>w DEF Client_, o
    <2>4. QED
      BY <2>1, <2>2, <2>3
  <1>13. ASSUME NEW d \in Client, d # c
         PROVE  Unused(d)' /\ Edit(d)' /\ Client_(d)'
    <2>1. d \in Process /\ job'[d] = job[d] /\ pc'[d] = pc[d]
      BY <1>7, <1>13 DEF Process
    <2>2. Unused(d)'
      <3>1. CASE job[d].new # NoId
        <4>1. /\ rec[job[d].new] = None
              /\ \A q \in Owner : job[d].new \notin list[q]
              /\ \A q \in Process : job[d].new # job[q].old /\ job[d].new \notin job[q].todo
              /\ \A q \in Process \ {d} : job[d].new # job[q].new
          BY <3>1 DEF LInv, Unused
        <4>2. job[d].new # old /\ job[d].new # next
          BY <1>2, <1>4, <1>8, <1>n, <2>1, <3>1, <4>1 DEF o
        <4>3. \A q \in Process : job[d].new # job'[q].old /\ job[d].new \notin job'[q].todo
          BY <1>t, <1>5, <1>7, <4>1, <4>2
        <4>4. \A q \in Process \ {d} : job[d].new # job'[q].new
          BY <1>5, <1>7, <4>1, <4>2
        <4>5. QED
          BY <1>2, <2>1, <4>1, <4>3, <4>4 DEF Unused
      <3>2. QED
        BY <2>1, <3>1 DEF Unused
    <2>3. Edit(d)' /\ Client_(d)'
      BY <1>2, <2>1 DEF LInv, Edit, Client_
    <2>4. QED
      BY <2>2, <2>3
  <1>14. QED
    BY <1>9, <1>10, <1>11, <1>12, <1>13 DEF LInv

LEMMA DeleteListed ==
  ASSUME Apart, TInv, LInv, NEW c \in Client, Delete(c)
  PROVE  LInv'
  <1>t. TypeOK /\ c \in Process /\ c # Cleaner /\ Named(c) /\ job[c] \in Jobs
    BY FileAssumption DEF TInv, TypeOK, Process
  <1>1. /\ pc[c] = "read" /\ job[c].kind = "delete" /\ UNCHANGED <<rec, list, alive, next>>
        /\ job[c].owner \in Owner /\ job[c].owner \in Works[c]
        /\ ~job[c].took /\ ~job[c].wrote /\ job[c].new = NoId
    BY <1>t DEF Delete, db, LInv, Client_, Named
  <1> DEFINE o == job[c].owner
             found == {id \in Seen(o) : rec[id] = job[c].item}
  <1>2. CASE found = {}
    <2>1. Return(c)
      BY <1>2 DEF Delete
    <2>2. QED
      BY <1>t, <1>1, <2>1, ReturnListed
  <1>3. CASE found # {}
    <2>1. PICK id \in found :
            /\ job' = [job EXCEPT ![c] = [@ EXCEPT !.old = id, !.ids = Seen(o) \ {id}]]
            /\ Goto(c, IF Exam(o) THEN "select" ELSE "update")
      BY <1>3 DEF Delete
    <2>2. Seen(o) = list[o] /\ list[o] \subseteq Id /\ id \in list[o] /\ id \in Id /\ id # NoId
      BY <1>t, <1>1, <2>1 DEF LInv, ListsMatch, Seen, TypeOK, Id, NoId
    <2> DEFINE j == [job[c] EXCEPT !.old = id, !.ids = Seen(o) \ {id}]
               l == IF Exam(o) THEN "select" ELSE "update"
    <2>3. /\ j \in Jobs /\ j.kind = "delete" /\ j.owner = o /\ j.old = id /\ j.new = NoId
          /\ j.ids = list[o] \ {id} /\ j.todo = job[c].todo
      <3>1. Seen(o) \ {id} \in SUBSET Id
        BY <2>2
      <3>2. QED
        BY <1>t, <1>1, <2>2, <3>1 DEF Jobs
    <2>4. ~j.wrote
      <3>1. ~job[c].wrote
        BY <1>1
      <3>2. j.wrote = job[c].wrote
        BY <1>t DEF Jobs
      <3>3. QED
        BY <3>1, <3>2, Zenon
    <2>5. job' = [job EXCEPT ![c] = j] /\ pc' = [pc EXCEPT ![c] = l] /\ l \in Label
          /\ ((l = "update" /\ ~Exam(o)) \/ (l = "select" /\ Exam(o)))
      BY <2>1, <1>t DEF Goto, TypeOK, Label
    <2> HIDE DEF j, l, o
    <2>6. job'[c] = j /\ pc'[c] = l
      BY <1>t, <2>3, <2>5, OneProcess
    <2>7. Edit(c)'
      <3>1. \A q \in Owner : q # o => id \notin list[q]
        BY <1>1, <2>2 DEF o, LInv, ListsMatch
      <3>2. QED
        BY <1>1, <2>2, <2>3, <2>5, <2>6, <3>1 DEF Edit
    <2>8. Client_(c)'
      BY <1>1, <2>3, <2>4, <2>5, <2>6 DEF Client_, o
    <2>9. \E q \in Owner : j.old \in list[q]
      BY <1>1, <2>2, <2>3 DEF o
    <2>10. j.new \in {NoId, job[c].new} /\ j.todo \subseteq job[c].todo
      BY <2>3
    <2>11. QED
      BY <1>t, <1>1, <2>3, <2>5, <2>7, <2>8, <2>9, <2>10, Local
  <1>4. QED
    BY <1>2, <1>3

LEMMA UpdateListed ==
  ASSUME Apart, TInv, LInv, NEW c \in Client, Update(c)
  PROVE  LInv'
  <1>t. TypeOK /\ c \in Process /\ c # Cleaner /\ Named(c) /\ job[c] \in Jobs
    BY FileAssumption DEF TInv, TypeOK, Process
  <1>1. PICK b \in BOOLEAN : b = (job[c].owner \in alive)
    <2> DEFINE found == job[c].owner \in alive
    <2>1. found \in BOOLEAN
      BY DEF TInv
    <2> HIDE DEF found
    <2>2. \E b \in BOOLEAN : b = found
      BY <2>1, Zenon
    <2>3. QED
      BY <2>2 DEF found
  <1> DEFINE j == [job[c] EXCEPT !.wrote = b]
             l == IF job[c].kind = "delete" /\ ~Exam(job[c].owner) THEN "select" ELSE "commit"
  <1>2. /\ j \in Jobs /\ j.kind = job[c].kind /\ j.owner = job[c].owner
        /\ j.old = job[c].old /\ j.new = job[c].new /\ j.ids = job[c].ids /\ j.todo = job[c].todo
    BY <1>t DEF Jobs
  <1>3. (j.wrote <=> job[c].owner \in alive) /\ (j.took <=> job[c].took)
    <2>1. j.wrote = b /\ j.took = job[c].took
      BY <1>t DEF Jobs
    <2>2. QED
      BY <1>1, <2>1, Zenon
  <1>4. job' = [job EXCEPT ![c] = j]
    BY <1>1, <1>t DEF Update, TypeOK
  <1>5. pc' = [pc EXCEPT ![c] = l] /\ l \in Label
        /\ \/ l = "select" /\ job[c].kind = "delete" /\ ~Exam(job[c].owner)
           \/ l = "commit" /\ ~(job[c].kind = "delete" /\ ~Exam(job[c].owner))
    BY DEF Update, Goto, Label
  <1>6. pc[c] = "update" /\ UNCHANGED <<rec, list, alive, next>>
    BY DEF Update, db
  <1> HIDE DEF j, l
  <1>7. job'[c] = j /\ pc'[c] = l
    BY <1>t, <1>2, <1>4, <1>5, OneProcess
  <1>8. Edit(c)
    BY DEF LInv
  <1>9. Edit(c)'
    <2>1. job[c].owner \in alive => /\ j.wrote
                                    /\ l = "commit" => (j.old # NoId => j.took)
      BY <1>2, <1>3, <1>5, <1>6, <1>8 DEF Edit
    <2>2. QED
      BY <1>2, <1>5, <1>6, <1>7, <1>8, <2>1 DEF Edit
  <1>10. Client_(c)'
    BY <1>2, <1>3, <1>5, <1>6, <1>7 DEF LInv, Client_
  <1>11. QED
    BY <1>t, <1>2, <1>4, <1>5, <1>6, <1>9, <1>10, Local

LEMMA SelectListed ==
  ASSUME Apart, TInv, LInv, NEW p \in Process, Select(p)
  PROVE  LInv'
  <1>t. TypeOK /\ Named(p) /\ job[p] \in Jobs
    BY DEF TInv, TypeOK
  <1>1. pc[p] = "select" /\ job[p].old \in Id /\ UNCHANGED <<rec, list, alive, next>>
    BY <1>t DEF Select, Named, db
  <1>2. CASE rec[job[p].old] = None
    <2>1. Return(p)
      BY <1>2 DEF Select
    <2>2. QED
      BY <1>1, <2>1, ReturnListed
  <1>3. CASE rec[job[p].old] # None
    <2> DEFINE j == [job[p] EXCEPT !.item = rec[job[p].old]]
    <2>1. rec[job[p].old] \in Item
      BY <1>t, <1>1, <1>3 DEF TypeOK
    <2>2. /\ j \in Jobs /\ j.kind = job[p].kind /\ j.owner = job[p].owner
          /\ j.old = job[p].old /\ j.new = job[p].new /\ j.ids = job[p].ids /\ j.todo = job[p].todo
      BY <1>t, <2>1 DEF Jobs
    <2>3. (j.wrote <=> job[p].wrote) /\ (j.took <=> job[p].took)
      <3>1. j.wrote = job[p].wrote /\ j.took = job[p].took
        BY <1>t DEF Jobs
      <3>2. QED
        BY <3>1, Zenon
    <2>4. job' = [job EXCEPT ![p] = j] /\ pc' = [pc EXCEPT ![p] = "remove"] /\ "remove" \in Label
      BY <1>3, <1>t DEF Select, Goto, TypeOK, Label
    <2> HIDE DEF j
    <2>5. job'[p] = j /\ pc'[p] = "remove"
      BY <2>2, <2>4, OneProcess
    <2>6. p \in Client => Edit(p)' /\ Client_(p)'
      BY <1>1, <2>2, <2>3, <2>5 DEF LInv, Edit, Client_
    <2>7. p = Cleaner => Cleaning'
      BY <1>1, <2>2, <2>3, <2>5 DEF LInv, Cleaning
    <2>8. QED
      BY <1>t, <1>1, <2>2, <2>4, <2>6, <2>7, Local
  <1>4. QED
    BY <1>2, <1>3

(* As long as its owner exists, the record to be deleted is in the list and so *)
(* it is recorded.                                                             *)
LEMMA RemoveListed ==
  ASSUME Apart, TInv, LInv, NEW p \in Process, Remove(p)
  PROVE  LInv'
  <1>t. TypeOK /\ Named(p) /\ job[p] \in Jobs
    BY DEF TInv, TypeOK
  <1>1. pc[p] = "remove" /\ job[p].old \in Id /\ UNCHANGED <<rec, list, alive, next>>
    BY <1>t DEF Remove, Named, db
  <1>2. PICK b \in BOOLEAN : b = (rec[job[p].old] # None)
    OBVIOUS
  <1> DEFINE j == [job[p] EXCEPT !.took = b]
  <1>3. /\ j \in Jobs /\ j.kind = job[p].kind /\ j.owner = job[p].owner
        /\ j.old = job[p].old /\ j.new = job[p].new /\ j.ids = job[p].ids /\ j.todo = job[p].todo
    BY <1>t DEF Jobs
  <1>4. (j.wrote <=> job[p].wrote) /\ (j.took <=> rec[job[p].old] # None)
    <2>1. j.wrote = job[p].wrote /\ j.took = b
      BY <1>t DEF Jobs
    <2>2. QED
      BY <1>2, <2>1, Zenon
  <1>5. job' = [job EXCEPT ![p] = j] /\ pc' = [pc EXCEPT ![p] = "count"] /\ "count" \in Label
    BY <1>2, <1>t DEF Remove, Goto, TypeOK, Label
  <1> HIDE DEF j
  <1>6. job'[p] = j /\ pc'[p] = "count"
    BY <1>3, <1>5, OneProcess
  <1>7. p \in Client => Edit(p)'
    <2> SUFFICES ASSUME p \in Client PROVE Edit(p)'
      OBVIOUS
    <2>1. Edit(p) /\ p # Cleaner /\ job[p].owner \in Owner
      BY <1>t, <1>1, FileAssumption DEF LInv, Named
    <2>2. job[p].owner \in alive => rec[job[p].old] # None
      BY <1>1, <2>1 DEF Edit, LInv, ListsMatch, Id, NoId
    <2>3. QED
      BY <1>1, <1>3, <1>4, <1>6, <2>1, <2>2 DEF Edit
  <1>8. p \in Client => Client_(p)'
    BY <1>1, <1>3, <1>4, <1>6 DEF LInv, Client_
  <1>9. p = Cleaner => Cleaning'
    BY <1>1, <1>3, <1>4, <1>6 DEF LInv, Cleaning
  <1>10. QED
    BY <1>t, <1>1, <1>3, <1>5, <1>7, <1>8, <1>9, Local

LEMMA CountListed ==
  ASSUME Apart, TInv, LInv, NEW p \in Process, Count(p)
  PROVE  LInv'
  <1>t. TypeOK /\ Named(p) /\ job[p] \in Jobs
    BY DEF TInv, TypeOK
  <1> DEFINE j == job[p]
             l == IF job[p].kind # "clean" /\ Exam(job[p].owner) THEN "update" ELSE "commit"
  <1>1. pc[p] = "count" /\ UNCHANGED <<rec, list, alive, next, job>>
    BY DEF Count, db
  <1>2. job' = [job EXCEPT ![p] = j]
    BY <1>1, <1>t DEF TypeOK
  <1>3. pc' = [pc EXCEPT ![p] = l] /\ l \in Label
        /\ \/ l = "update" /\ job[p].kind # "clean" /\ Exam(job[p].owner)
           \/ l = "commit" /\ (job[p].kind = "clean" \/ ~Exam(job[p].owner))
    BY DEF Count, Goto, Label
  <1> HIDE DEF l
  <1>4. job'[p] = job[p] /\ pc'[p] = l
    BY <1>t, <1>1, <1>2, <1>3, OneProcess
  <1>5. p \in Client => Edit(p)' /\ Client_(p)'
    <2> SUFFICES ASSUME p \in Client PROVE Edit(p)' /\ Client_(p)'
      OBVIOUS
    <2>1. Edit(p) /\ Client_(p) /\ p # Cleaner /\ job[p].kind # "clean"
      BY <1>t, <1>1, FileAssumption DEF LInv, Named
    <2>2. QED
      BY <1>1, <1>3, <1>4, <2>1 DEF Edit, Client_
  <1>6. p = Cleaner => Cleaning'
    BY <1>1 DEF LInv, Cleaning
  <1>7. QED
    BY <1>t, <1>1, <1>2, <1>3, <1>5, <1>6, Local

(* The commit of a client's transaction. *)
LEMMA CommitListed ==
  ASSUME Apart, TInv, LInv, NEW c \in Client, Commit(c)
  PROVE  LInv'
  <1>t. TypeOK /\ c \in Process /\ c # Cleaner /\ Named(c) /\ job[c] \in Jobs
    BY FileAssumption DEF TInv, TypeOK, Process
  <1> DEFINE o == job[c].owner
             old == job[c].old
             new == job[c].new
  <1>1. /\ pc[c] = "commit" /\ job[c].kind \in {"post", "delete"} /\ job[c].item \in Item
        /\ o \in Owner /\ o \in Works[c] /\ UNCHANGED <<alive, next>>
    BY <1>t DEF Commit, Named, LInv, Client_
  <1>2. /\ \A id \in Id : rec'[id] = IF id = new THEN job[c].item
                                     ELSE IF job[c].took /\ id = old THEN None ELSE rec[id]
        /\ \A q \in Owner : list'[q] = IF job[c].wrote /\ q = o THEN job[c].ids ELSE list[q]
        /\ Return(c)
    BY <1>1 DEF Commit
  <1>3. /\ job'[c] = NoJob /\ pc'[c] = "idle"
        /\ \A q \in Process \ {c} : job'[q] = job[q] /\ pc'[q] = pc[q]
    BY <1>t, <1>2, NoJobTyped, OneProcess DEF Return, Goto, Label
  <1>4. /\ old # NoId => \A q \in Owner \ {o} : old \notin list[q]
        /\ o \in alive => /\ job[c].wrote /\ (old # NoId => job[c].took)
                          /\ job[c].ids = (list[o] \ {old}) \cup ({new} \ {NoId})
        /\ o \notin alive => ~job[c].wrote /\ list[o] = {}
    BY <1>1 DEF LInv, Edit, Client_, Gone
  <1>5. new # NoId => /\ rec[new] = None /\ \A q \in Owner : new \notin list[q]
                      /\ \A q \in Process : new # job[q].old /\ new \notin job[q].todo
                      /\ \A q \in Process \ {c} : new # job[q].new
    BY DEF LInv, Unused
  <1>6. /\ \A q \in Owner : \A id \in list[q] : id \in Id /\ id # NoId /\ rec[id] # None
        /\ \A q, r \in Owner : q # r => list[q] \cap list[r] = {}
        /\ new \in Id \cup {NoId} /\ old \in Id \cup {NoId}
    BY <1>t DEF LInv, ListsMatch, TypeOK, Jobs, Id, NoId
  <1>7. /\ \A q \in Owner \ {o} : list'[q] = list[q]
        /\ o \in alive => list'[o] = (list[o] \ {old}) \cup ({new} \ {NoId})
        /\ o \notin alive => list'[o] = {}
    BY <1>1, <1>2, <1>4
  <1> HIDE DEF o, old, new
  <1>8. ListsMatch'
    <2>1. ASSUME NEW q \in Owner, NEW id \in list'[q]
          PROVE  rec'[id] # None
      <3>1. CASE id = new /\ new # NoId
        BY <1>1, <1>2, <1>6, <3>1, FileAssumption
      <3>2. CASE id # new \/ new = NoId
        <4>1. id \in list[q] /\ id \in Id /\ id # new /\ rec[id] # None
          BY <1>5, <1>6, <1>7, <2>1, <3>2
        <4>2. id # old
          BY <1>4, <1>6, <1>7, <2>1, <3>2, <4>1
        <4>3. QED
          BY <1>2, <4>1, <4>2
      <3>3. QED
        BY <3>1, <3>2
    <2>2. \A q, r \in Owner : q # r => list'[q] \cap list'[r] = {}
      BY <1>5, <1>6, <1>7
    <2>3. ASSUME alive' = Owner, NEW id \in Id, rec'[id] # None
          PROVE  \E q \in Owner : id \in list'[q]
      <3>1. o \in alive
        BY <1>1, <2>3
      <3>2. CASE id = new
        BY <1>1, <1>7, <3>1, <3>2 DEF Id, NoId
      <3>3. CASE id # new
        <4>1. rec[id] # None /\ ~(job[c].took /\ id = old)
          BY <1>2, <2>3, <3>3
        <4>2. id # old
          BY <1>4, <3>1, <4>1 DEF Id, NoId
        <4>3. PICK q \in Owner : id \in list[q]
          BY <1>1, <2>3, <4>1 DEF LInv, ListsMatch
        <4>4. id \in list'[q]
          BY <1>7, <3>1, <4>2, <4>3
        <4>5. QED
          BY <4>4
      <3>4. QED
        BY <3>2, <3>3
    <2>4. QED
      BY <2>1, <2>2, <2>3 DEF ListsMatch
  <1>9. Bounded'
    <2>1. \A id \in Id : rec'[id] # None => id < next
      <3>1. new < next
        BY <1>t DEF LInv, Bounded, new
      <3>2. QED
        BY <1>2, <3>1 DEF LInv, Bounded
    <2>2. NoJob.old < next /\ NoJob.new < next /\ NoJob.todo = {}
      BY <1>t, NoJobTyped DEF TypeOK, NoId
    <2>3. QED
      BY <1>1, <1>3, <2>1, <2>2 DEF LInv, Bounded
  <1>10. Cleaning' /\ Gone'
    <2>1. Cleaner \in Process /\ job'[Cleaner] = job[Cleaner]
      BY <1>t, <1>3 DEF Process
    <2>2. \A q \in Owner : list'[q] \cap (job[Cleaner].todo \cup {job[Cleaner].old}) = {}
      BY <1>5, <1>7, <2>1, <1>1 DEF LInv, Cleaning
    <2>3. Gone'
      BY <1>1, <1>4, <1>7 DEF LInv, Gone
    <2>4. QED
      BY <2>1, <2>2, <2>3 DEF LInv, Cleaning
  <1>11. Unused(c)' /\ Edit(c)' /\ Client_(c)'
    BY <1>3, NoJobTyped DEF Unused, Edit, Client_, None
  <1>12. ASSUME NEW d \in Client, d # c
         PROVE  Unused(d)' /\ Edit(d)' /\ Client_(d)'
    <2>1. d \in Process /\ job'[d] = job[d] /\ pc'[d] = pc[d] /\ d # Cleaner
      BY <1>3, <1>12, FileAssumption DEF Process
    <2>2. Unused(d)'
      <3>1. CASE job[d].new # NoId
        <4>1. /\ rec[job[d].new] = None /\ job[d].new \in Id
              /\ \A q \in Owner : job[d].new \notin list[q]
              /\ \A q \in Process : job[d].new # job[q].old /\ job[d].new \notin job[q].todo
              /\ \A q \in Process \ {d} : job[d].new # job[q].new
          BY <1>t, <2>1, <3>1 DEF LInv, Unused, TypeOK, Jobs
        <4>2. job[d].new # new
          BY <1>t, <1>12, <4>1 DEF new
        <4>3. rec'[job[d].new] = None /\ \A q \in Owner : job[d].new \notin list'[q]
          BY <1>2, <1>7, <1>1, <4>1, <4>2
        <4>4. \A q \in Process : job[d].new # job'[q].old /\ job[d].new \notin job'[q].todo
          BY <1>3, <3>1, <4>1, NoJobTyped
        <4>5. \A q \in Process \ {d} : job[d].new # job'[q].new
          BY <1>3, <3>1, <4>1, NoJobTyped
        <4>6. QED
          BY <2>1, <4>3, <4>4, <4>5 DEF Unused
      <3>2. QED
        BY <2>1, <3>1 DEF Unused
    <2>3. Edit(d)'
      <3> SUFFICES ASSUME pc[d] \notin {"idle", "read"} PROVE Edit(d)'
        BY <2>1 DEF Edit
      <3>1. job[d].owner \in Owner /\ job[d].owner \in Works[d]
        BY <2>1 DEF TInv, Named, LInv, Client_
      <3>2. job[d].owner # o
        BY <1>1, <1>12, <3>1 DEF Apart
      <3>3. list'[job[d].owner] = list[job[d].owner]
        BY <1>7, <3>1, <3>2
      <3>4. ASSUME job[d].old # NoId, NEW q \in Owner \ {job[d].owner}
            PROVE  job[d].old \notin list'[q]
        <4>1. job[d].old \notin list[q] /\ job[d].old \notin list[o]
          BY <1>1, <3>2, <3>4 DEF LInv, Edit
        <4>2. new # NoId => job[d].old # new
          BY <1>5, <2>1
        <4>3. QED
          BY <1>7, <4>1, <4>2
      <3>5. QED
        BY <1>1, <2>1, <3>3, <3>4 DEF LInv, Edit
    <2>4. Client_(d)'
      BY <1>1, <2>1 DEF LInv, Client_
    <2>5. QED
      BY <2>2, <2>3, <2>4
  <1>13. QED
    BY <1>8, <1>9, <1>10, <1>11, <1>12 DEF LInv

(* The commit of one deletion of the cleanup. *)
LEMMA CleanedListed ==
  ASSUME Apart, TInv, LInv, Commit(Cleaner)
  PROVE  LInv'
  <1>t. TypeOK /\ Cleaner \in Process /\ Cleaner \notin Client /\ Named(Cleaner) /\ job[Cleaner] \in Jobs
    BY FileAssumption DEF TInv, TypeOK, Process
  <1>1. pc[Cleaner] = "commit" /\ job[Cleaner].kind = "clean" /\ UNCHANGED <<alive, next>>
    BY <1>t DEF Commit, Named
  <1>2. ~job[Cleaner].wrote /\ job[Cleaner].new = NoId
        /\ \A o \in Owner : list[o] \cap (job[Cleaner].todo \cup {job[Cleaner].old}) = {}
    BY DEF LInv, Cleaning
  <1>3. \A id \in Id : rec'[id] = rec[id] \/ (rec'[id] = None /\ id = job[Cleaner].old)
    BY <1>2 DEF Commit, Id, NoId
  <1>4. list' = list
    <2>1. list' = [o \in Owner |-> list[o]]
      BY <1>2 DEF Commit
    <2>2. QED
      BY <1>t, <2>1 DEF TypeOK
  <1> DEFINE j == Request("clean", None, None, NoId, job[Cleaner].todo)
  <1>5. j \in Jobs
    <2>1. /\ "clean" \in {"post", "delete", "clean", None} /\ None \in Owner \cup {None}
          /\ None \in Item \cup {None} /\ NoId \in Id \cup {NoId} /\ job[Cleaner].todo \in SUBSET Id
      BY <1>t DEF Jobs
    <2>2. QED
      BY <2>1, RequestTyped
  <1>6. j.new = NoId /\ j.old = NoId /\ j.todo = job[Cleaner].todo /\ ~j.wrote
    BY Zenon DEF Request
  <1>7. job' = [job EXCEPT ![Cleaner] = j] /\ pc' = [pc EXCEPT ![Cleaner] = "read"] /\ "read" \in Label
    BY <1>1 DEF Commit, Goto, Label
  <1> HIDE DEF j
  <1>8. job'[Cleaner] = j /\ \A q \in Process \ {Cleaner} : job'[q] = job[q] /\ pc'[q] = pc[q]
    BY <1>t, <1>5, <1>7, OneProcess
  <1>9. \A o \in Owner : \A id \in list[o] : id \in Id /\ id # NoId /\ rec'[id] # None
    BY <1>t, <1>2, <1>3 DEF LInv, ListsMatch, TypeOK, Id, NoId
  <1>10. ListsMatch'
    BY <1>1, <1>3, <1>4, <1>9 DEF LInv, ListsMatch
  <1>11. Bounded'
    <2>1. j.old < next /\ j.new < next /\ \A id \in j.todo : id < next
      BY <1>t, <1>6 DEF LInv, Bounded, TypeOK, NoId
    <2>2. QED
      BY <1>1, <1>3, <1>8, <2>1 DEF LInv, Bounded
  <1>12. Cleaning' /\ Gone'
    BY <1>1, <1>2, <1>4, <1>6, <1>8, <1>9 DEF LInv, Cleaning, Gone
  <1>13. ASSUME NEW c \in Client
         PROVE  Unused(c)' /\ Edit(c)' /\ Client_(c)'
    <2>1. c \in Process /\ job'[c] = job[c] /\ pc'[c] = pc[c] /\ job[c].new \in Id \cup {NoId}
      BY <1>t, <1>8 DEF Process, TypeOK, Jobs
    <2>2. Unused(c)'
      <3>1. CASE job[c].new # NoId
        <4>1. /\ rec[job[c].new] = None /\ job[c].new \in Id
              /\ \A o \in Owner : job[c].new \notin list[o]
              /\ \A q \in Process : job[c].new # job[q].old /\ job[c].new \notin job[q].todo
              /\ \A q \in Process \ {c} : job[c].new # job[q].new
          BY <2>1, <3>1 DEF LInv, Unused
        <4>2. rec'[job[c].new] = None
          BY <1>3, <4>1
        <4>3. \A q \in Process : job[c].new # job'[q].old /\ job[c].new \notin job'[q].todo
          BY <1>6, <1>8, <3>1, <4>1, <1>t
        <4>4. \A q \in Process \ {c} : job[c].new # job'[q].new
          BY <1>6, <1>8, <3>1, <4>1
        <4>5. QED
          BY <1>4, <2>1, <4>1, <4>2, <4>3, <4>4 DEF Unused
      <3>2. QED
        BY <2>1, <3>1 DEF Unused
    <2>3. Edit(c)' /\ Client_(c)'
      BY <1>1, <1>4, <2>1 DEF LInv, Edit, Client_
    <2>4. QED
      BY <2>2, <2>3
  <1>14. QED
    BY <1>10, <1>11, <1>12, <1>13 DEF LInv

LEMMA CrashListed ==
  ASSUME TInv, LInv, Crash
  PROVE  LInv'
  <1>t. TypeOK /\ Cleaner \in Process
    BY DEF TInv, Process
  <1>1. /\ UNCHANGED <<rec, list, alive, next>>
        /\ \A q \in Process : job'[q] = NoJob /\ pc'[q] = "idle"
    BY DEF Crash, db
  <1>2. ListsMatch' /\ Gone'
    BY <1>1 DEF LInv, ListsMatch, Gone
  <1>3. Bounded'
    BY <1>t, <1>1, NoJobTyped DEF LInv, Bounded, TypeOK, NoId
  <1>4. Cleaning'
    <2>1. \A o \in Owner : NoId \notin list[o]
      BY <1>t DEF TypeOK, Id, NoId
    <2>2. QED
      BY <1>t, <1>1, <2>1, NoJobTyped DEF Cleaning
  <1>5. \A c \in Client : Unused(c)' /\ Edit(c)' /\ Client_(c)'
    <2>1. \A c \in Client : job'[c] = NoJob /\ pc'[c] = "idle"
      BY <1>1 DEF Process
    <2>2. QED
      BY <2>1, NoJobTyped DEF Unused, Edit, Client_, None
  <1>6. QED
    BY <1>2, <1>3, <1>4, <1>5 DEF LInv

LEMMA ListedNext ==
  ASSUME Apart, TInv, LInv, [Next]_vars
  PROVE  LInv'
  <1>1. CASE \E c \in Client : AskPost(c) \/ AskDelete(c)
    BY <1>1, AskListed
  <1>2. CASE \E o \in Owner : Clean(o)
    BY <1>2, CleanListed
  <1>3. CASE \E p \in Process : Step(p) \/ Fail(p)
    <2>1. PICK p \in Process : Step(p) \/ Fail(p)
      BY <1>3
    <2>2. CASE Select(p) \/ Remove(p) \/ Count(p)
      BY <2>2, SelectListed, RemoveListed, CountListed
    <2>3. CASE Commit(p)
      BY <2>3, CommitListed, CleanedListed DEF Process
    <2>4. CASE p \in Client /\ (Post(p) \/ Delete(p) \/ Update(p))
      BY <2>4, PostListed, DeleteListed, UpdateListed
    <2>5. CASE Refused(p) \/ Absent(p) \/ Fail(p)
      BY <2>5, ReturnListed DEF Refused, Absent, Fail, db
    <2>6. CASE p = Cleaner /\ CleanNext
      BY <2>6, CleanNextListed
    <2>7. QED
      BY <2>1, <2>2, <2>3, <2>4, <2>5, <2>6 DEF Step
  <1>4. CASE (\E w \in Worker : WorkerStep(w)) \/ UNCHANGED vars
    <2>1. UNCHANGED <<rec, list, alive, next, pc, job>>
      BY <1>4 DEF WorkerStep, Take, CountRecords, RemoveFile, db, vars
    <2>2. QED
      BY <2>1 DEF LInv, ListsMatch, Bounded, Cleaning, Gone, Unused, Edit, Client_
  <1>5. CASE Crash
    BY <1>5, CrashListed
  <1>6. QED
    BY <1>1, <1>2, <1>3, <1>4, <1>5 DEF Next

-----------------------------------------------------------------------------
(* Theorems. *)

(* Files, records, lists, tasks and transactions keep their types, and         *)
(* fileDeleteChan its capacity, whatever fails or is restarted.                *)
THEOREM StoreTypeCorrect == Spec => []TypeOK
  <1>1. Init => TInv
    BY InitTyped
  <1>2. TInv /\ [Next]_vars => TInv'
    BY TypedNext
  <1>3. TInv => TypeOK
    BY DEF TInv
  <1>4. QED
    BY <1>1, <1>2, <1>3, PTL DEF Spec

(* deleteFileAsync removes no file that a record needs, if the record was      *)
(* committed while the file was there and no worker had counted.               *)
THEOREM RecordedFilesStay == Spec => []FileKept
  <1>1. Init => TInv /\ KInv
    BY InitTyped, InitKept
  <1>2. TInv /\ KInv /\ [Next]_vars => (TInv /\ KInv)'
    BY TypedNext, KeptNext
  <1>3. KInv => FileKept
    BY DEF KInv
  <1>4. QED
    BY <1>1, <1>2, <1>3, PTL DEF Spec

(* The lists of attachments and the records agree, for any number of users     *)
(* that edit no owner in common.                                               *)
THEOREM ListsAgree == Spec => []ListsMatch
  <1>1. CASE Apart
    <2>1. Init => TInv /\ LInv
      BY InitTyped, InitListed
    <2>2. TInv /\ LInv /\ [Next]_vars => (TInv /\ LInv)'
      BY <1>1, TypedNext, ListedNext
    <2>3. LInv => ListsMatch
      BY DEF LInv
    <2>4. QED
      BY <2>1, <2>2, <2>3, PTL DEF Spec
  <1>2. CASE ~Apart
    <2>1. ListsMatch
      BY <1>2 DEF ListsMatch
    <2>2. QED
      BY <2>1, PTL
  <1>3. QED
    BY <1>1, <1>2
===============================================================================
