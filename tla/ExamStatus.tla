----------------------------- MODULE ExamStatus -----------------------------
(***************************************************************************)
(* What exam_mgt and the timer events promise to everybody who reads the   *)
(* status of an exam and of its sessions: however requests, events,        *)
(* failures and restarts interleave, what is committed changes by whole    *)
(* operations, each on the statuses as it finds them.  Statements, row     *)
(* locks, transactions and stale reads are left to ExamLifecycle, which    *)
(* implements this module.                                                 *)
(*                                                                         *)
(* Codes as in ExamLifecycle.  A deleted exam keeps its rows and nobody    *)
(* lists them: a late request or event may still move its sessions on.     *)
(***************************************************************************)

CONSTANTS
  Exam,     \* the row of t_exam_info
  Session,  \* rows of t_exam_session, the ones yet to be inserted included
  Initial   \* the sessions of the exam at the start

VARIABLE status  \* Row -> status code, or "none" (not inserted)

Row  == Session \cup {Exam}
Code == {"none", "00", "02", "04", "06", "10", "12", "14", "16"}

Undeleted == {s \in Session : status[s] \notin {"none", "14"}}

(* The exam gets the status e and the sessions those of ss, at once. *)
Become(e, ss) == status' = [r \in Row |-> IF r = Exam THEN e ELSE ss[r]]

AllTo(e) == [s \in Session |-> IF s \in Undeleted THEN e ELSE status[s]]

EInit == status \in {[r \in Row |-> IF r = Exam \/ r \in Initial THEN "00" ELSE "none"],
                     [r \in Row |-> IF r = Exam THEN "14" ELSE "none"]}

Publish == status[Exam] = "00" /\ Become("02", AllTo("02"))

Void == status[Exam] \in {"00", "02", "10"} /\ Become("16", AllTo("16"))

Delete == status[Exam] \notin {"12", "14"} /\ Become("12", AllTo("14"))

(* New sessions in the place of the old ones, as the exam was when asked. *)
Replace ==
  /\ status[Exam] # "12"
  /\ \E e \in {"00", "02"}, new \in SUBSET {s \in Session : status[s] = "none"} :
       /\ new # {}
       /\ Become(e, [s \in Session |-> IF s \in new THEN e ELSE AllTo("14")[s]])

(* A session begins, and the exam with its first session. *)
Begin(s) == /\ status[Exam] \in {"02", "04"} /\ status[s] = "02"
            /\ Become("04", [status EXCEPT ![s] = "04"])

(* The exam turns out to have no examinee. *)
Cancel == status[Exam] = "02" /\ Become("10", status)

End(s) == /\ status[s] \in {"02", "04"} /\ status[Exam] # "12"
          /\ Become(status[Exam], [status EXCEPT ![s] = "06"])

(* The exam ends, with its last session or after it. *)
Close == /\ status[Exam] \in {"02", "04"}
         /\ \E last \in SUBSET {s \in Session : status[s] \in {"02", "04"}} :
              /\ \A s, t \in last : s = t
              /\ \A s \in Undeleted : s \in last \/ status[s] = "06"
              /\ Become("06", [s \in Session |-> IF s \in last THEN "06" ELSE status[s]])

(* Codes that a session of a deleted exam may still go on to. *)
After(x) ==
  CASE x = "none" -> {"00", "02"}
    [] x = "00" -> {"02", "14", "16"}
    [] x = "02" -> {"04", "06", "14", "16"}
    [] x = "04" -> {"06", "14"}
    [] x = "06" -> {"14", "16"}
    [] x = "16" -> {"14"}
    [] OTHER -> {}

Linger == /\ status[Exam] = "12"
          /\ status' \in [Row -> Code]
          /\ status'[Exam] = "12"
          /\ \A s \in Session : status'[s] = status[s] \/ status'[s] \in After(status[s])

ENext == \/ Publish \/ Void \/ Delete \/ Replace \/ Cancel \/ Close \/ Linger
         \/ \E s \in Session : Begin(s) \/ End(s)

ESpec == EInit /\ [][ENext]_status
=============================================================================
