--------------------------- MODULE TaskLifecycle ----------------------------
(***************************************************************************)
(* What the queue promises to a client that polls GET /api/generations:    *)
(* the documented state machine pending -> processing -> completed/failed  *)
(* (queue_manager.py:3, database.py:97), seen through the database only.   *)
(* It knows of no queue, thread, retry, checkpoint or crash; a crash shows *)
(* as every processing task going back to pending in one step.             *)
(***************************************************************************)
CONSTANTS Tasks, Results, None

VARIABLES status, result

vars == <<status, result>>

Init ==
    /\ status = [t \in Tasks |-> "absent"]
    /\ result = [t \in Tasks |-> None]

Submit(t) ==
    /\ status[t] = "absent"
    /\ status' = [status EXCEPT ![t] = "pending"]
    /\ UNCHANGED result

Start(t) ==
    /\ status[t] = "pending"
    /\ status' = [status EXCEPT ![t] = "processing"]
    /\ UNCHANGED result

(* A result is the task's own: no other task shows it.                     *)
Complete(t) ==
    /\ status[t] = "processing"
    /\ status' = [status EXCEPT ![t] = "completed"]
    /\ \E r \in Results :
        /\ \A u \in Tasks : result[u] # r
        /\ result' = [result EXCEPT ![t] = r]

(* A pending task fails only when it cannot be enqueued.                   *)
Fail(t) ==
    /\ status[t] \in {"pending", "processing"}
    /\ status' = [status EXCEPT ![t] = "failed"]
    /\ UNCHANGED result

(* All rows of deleted shots go at once.                                   *)
Delete(T) ==
    /\ \A t \in T : status[t] # "absent"
    /\ status' = [t \in Tasks |-> IF t \in T THEN "deleted" ELSE status[t]]
    /\ result' = [t \in Tasks |-> IF t \in T THEN None ELSE result[t]]

Recover ==
    /\ status' = [t \in Tasks |->
                    IF status[t] = "processing" THEN "pending" ELSE status[t]]
    /\ UNCHANGED result

Next ==
    \/ \E t \in Tasks : Submit(t) \/ Start(t) \/ Complete(t) \/ Fail(t)
    \/ \E T \in SUBSET Tasks : Delete(T)
    \/ Recover

Spec == Init /\ [][Next]_vars
=============================================================================
