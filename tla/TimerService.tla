---------------------------- MODULE TimerService ----------------------------
(***************************************************************************)
(* What exam_service promises to the handlers of exam_mgt and exam_site    *)
(* that ask for a session timer: a request is for one key, it is delivered *)
(* to a worker at most once, and it is given up only because its key was   *)
(* set again or cancelled, or because the service was stopped.  How the    *)
(* request waits (a runtime timer, a goroutine blocked on the queue, a     *)
(* slot of the queue) is left to ExamTimer, which implements this module.  *)
(***************************************************************************)
EXTENDS Naturals

CONSTANTS
  Key,      \* what a timer is set for: an event type and an exam session
  Request   \* identifiers of the calls of SetExamSessionTimer

VARIABLES
  status,   \* Request -> what has become of the call
  wanted,   \* Request -> the key of the call
  stopped   \* the service's context is cancelled

svars == <<status, wanted, stopped>>

Status == {"unused", "pending", "delivered", "dropped"}

SInit == /\ status = [r \in Request |-> "unused"]
         /\ wanted \in [Request -> Key]
         /\ stopped = FALSE

(* A new request for k; pending requests for k that it replaces are dropped. *)
Ask(r, k) ==
  /\ status[r] = "unused"
  /\ wanted' = [wanted EXCEPT ![r] = k]
  /\ \E old \in SUBSET {q \in Request : wanted[q] = k /\ status[q] = "pending"} :
        status' = [q \in Request |-> IF q = r THEN "pending"
                                     ELSE IF q \in old THEN "dropped"
                                     ELSE status[q]]
  /\ UNCHANGED stopped

(* The event of a pending request reaches a worker. *)
Deliver(r) ==
  /\ status[r] = "pending"
  /\ status' = [status EXCEPT ![r] = "delivered"]
  /\ UNCHANGED <<wanted, stopped>>

(* A cancellation of k drops at most the pending requests for k. *)
Drop(k) ==
  /\ \E old \in SUBSET {q \in Request : wanted[q] = k /\ status[q] = "pending"} :
        status' = [q \in Request |-> IF q \in old THEN "dropped" ELSE status[q]]
  /\ UNCHANGED <<wanted, stopped>>

(* The service stops; from then on any pending request may be dropped. *)
Shut == /\ stopped' = TRUE
        /\ \E old \in SUBSET {q \in Request : status[q] = "pending"} :
              status' = [q \in Request |-> IF q \in old THEN "dropped" ELSE status[q]]
        /\ UNCHANGED wanted

GiveUp(r) == /\ stopped
             /\ status[r] = "pending"
             /\ status' = [status EXCEPT ![r] = "dropped"]
             /\ UNCHANGED <<wanted, stopped>>

SNext == \/ \E r \in Request : Deliver(r) \/ GiveUp(r) \/ \E k \in Key : Ask(r, k)
         \/ \E k \in Key : Drop(k)
         \/ Shut

SSpec == SInit /\ [][SNext]_svars
=============================================================================
