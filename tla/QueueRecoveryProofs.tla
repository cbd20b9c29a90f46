------------------------- MODULE QueueRecoveryProofs -------------------------
(* What the queue keeps for the next start: the rows, the shots and the    *)
(* checkpoint files, for every number of tasks, shots, threads, retries    *)
(* and restarts.  Every theorem names the faults or the number of pool     *)
(* threads without which it is false.                                      *)
EXTENDS QueueManagerProofs

(* Tasks that the process has yet to hand to a pool thread.                *)
Waiting == Entering \cup In(queue) \cup In(pool)

(* Where a pool thread stands while its task has not reached its end.      *)
Working == {"mark", "save", "wait", "retry", "complete", "fail"}

(* No one else holds the task of a pool thread that is not free.           *)
LEMMA OwnJob ==
  ASSUME IInv, NEW w \in Workers, pc[w] # "free"
  PROVE  /\ job[w] \in Tasks
         /\ job[w] \notin Waiting
         /\ \A v \in Workers : job[v] = job[w] => v = w
<1>1. job[w] \in Tasks /\ job[w] # None
  BY ConstantsAssumption DEF IInv, TypeInv, Busy
<1>2. job[w] \in Jobs
  BY <1>1 DEF Jobs
<1> QED BY <1>1, <1>2 DEF IInv, ScheduledOnce, Waiting

-----------------------------------------------------------------------------
(* Without faults no unfinished row is forgotten.                          *)

(* NoTaskLost of one task.                                                 *)
Kept(t) ==
    /\ status[t] = "pending" =>
           t \in Waiting \/ \E w \in Workers : job[w] = t /\ pc[w] = "mark"
    /\ status[t] = "processing" =>
           \E w \in Workers : job[w] = t /\ pc[w] \in Working

LEMMA KeptIsNoTaskLost ==
  NoTaskLost <=> (phase # "down" => \A t \in Tasks : Kept(t))
  BY DEF NoTaskLost, Kept, Waiting, Working

(* A step that leaves the pipeline alone and rewrites no row, unless to    *)
(* delete it.                                                              *)
LEMMA StillKept ==
  ASSUME IInv, NEW t \in Tasks, Kept(t),
         status'[t] = status[t] \/ status'[t] \in {"deleted", "absent"},
         Waiting' = Waiting, UNCHANGED <<pc, job>>
  PROVE  Kept(t)'
  BY DEF Kept

LEMMA ThreadKept ==
  ASSUME Faults \subseteq {"unlink"}, IInv, NEW w \in Workers, RunTask(w), NEW t \in Tasks, Kept(t)
  PROVE  Kept(t)'
<1> USE DEF IInv, TypeInv, TypeOK, dbVars, files, rowVars, queueVars, startVars, Kept, Working
<1>1. CASE TakeTask(w)
  <2> DEFINE h == Head(pool)
  <2>1. /\ pool # <<>> /\ pool' = Tail(pool) /\ pc[w] = "free"
        /\ UNCHANGED <<queue, status, handler, restoring>>
    BY <1>1 DEF TakeTask
  <2>2. h \in Tasks /\ In(pool) = {h} \cup In(pool')
    BY <2>1, TailRest
  <2>3. Waiting \subseteq Waiting' \cup {h}
    BY <2>1, <2>2 DEF Waiting, Entering
  <2>4. CASE status[h] \in Stored
    <3>1. /\ job'[w] = h /\ pc'[w] = "mark"
          /\ \A v \in Workers \ {w} : job'[v] = job[v] /\ pc'[v] = pc[v]
      BY <1>1, <2>4 DEF TakeTask
    <3>2. \A v \in Workers : pc[v] # "free" => v # w
      BY <2>1
    <3> QED BY <2>1, <2>3, <3>1, <3>2
  <2>5. CASE status[h] \notin Stored
    <3>1. UNCHANGED <<job, pc>> /\ status[h] \notin Unfinished
      BY <1>1, <2>5 DEF TakeTask, Stored
    <3> QED BY <2>1, <2>3, <3>1 DEF Unfinished
  <2> QED BY <2>4, <2>5
<1>2. CASE ~TakeTask(w)
  <2>1. pc[w] # "free"
    BY <1>2 DEF RunTask, MarkProcessing, SaveAndLaunch, GotResult, GotError, TimedOut,
           NoteRetry, FailTask, CompleteTask, Discard, Settle, SnapshotRow, SnapshotDone,
           SaveRaises, LockExpires
  <2>2. /\ job[w] \in Tasks /\ job[w] \notin Waiting
        /\ \A v \in Workers : job[v] = job[w] => v = w
    BY <2>1, OwnJob
  <2>3. Waiting' = Waiting
    BY <1>2 DEF Waiting, Entering, RunTask, MarkProcessing, SaveAndLaunch, Launch, GotResult,
           GotError, TimedOut, NoteRetry, FailTask, CompleteTask, Discard, Settle,
           SnapshotRow, SnapshotDone, SaveRaises, LockExpires
  <2>4. CASE \/ MarkProcessing(w) \/ SaveAndLaunch(w) \/ GotResult(w) \/ GotError(w)
             \/ TimedOut(w) \/ NoteRetry(w)
    <3>1. /\ job' = job /\ pc'[w] \in Working
          /\ \A v \in Workers \ {w} : pc'[v] = pc[v]
      BY <2>4 DEF MarkProcessing, SaveAndLaunch, Launch, GotResult, GotError, TimedOut,
             NoteRetry
    <3>2. CASE MarkProcessing(w)
      <4>1. status'[job[w]] # "pending" /\ \A u \in Tasks \ {job[w]} : status'[u] = status[u]
        BY <2>2, <3>2 DEF MarkProcessing, WriteTask, Stored, Unfinished
      <4> QED BY <2>2, <2>3, <3>1, <4>1
    <3>3. CASE ~MarkProcessing(w)
      <4>1. status' = status /\ (pc[w] = "mark" => pc'[w] = "mark")
        BY <2>4, <3>3 DEF SaveAndLaunch, GotResult, GotError, TimedOut, NoteRetry
      <4> QED BY <2>2, <2>3, <3>1, <4>1
    <3> QED BY <3>2, <3>3
  <2>5. CASE FailTask(w) \/ CompleteTask(w)
    <3>1. /\ job' = job /\ \A v \in Workers \ {w} : pc'[v] = pc[v]
          /\ pc[w] # "mark" /\ status'[job[w]] \notin Unfinished
          /\ \A u \in Tasks \ {job[w]} : status'[u] = status[u]
      BY <2>2, <2>5 DEF FailTask, CompleteTask, WriteTask, Stored, Unfinished, Terminal
    <3> QED BY <2>2, <2>3, <3>1 DEF Unfinished
  <2>6. CASE \/ Discard(w) \/ Settle(w) \/ SnapshotRow(w) \/ SnapshotDone(w)
    <3>1. /\ pc[w] \notin Working /\ status' = status
          /\ \A v \in Workers \ {w} : pc'[v] = pc[v] /\ job'[v] = job[v]
      BY <2>6 DEF Discard, Settle, SnapshotRow, SnapshotDone, Free
    <3> QED BY <2>3, <3>1
  <2>7. ~(SaveRaises(w) \/ LockExpires(w))
    BY DEF SaveRaises, LockExpires
  <2> QED BY <1>2, <2>4, <2>5, <2>6, <2>7 DEF RunTask
<1> QED BY <1>1, <1>2

LEMMA NoTaskLostStep ==
  ASSUME Faults \subseteq {"unlink"}, IInv, [Next]_vars, NoTaskLost
  PROVE  NoTaskLost'
<1> SUFFICES ASSUME phase' # "down", NEW t \in Tasks PROVE Kept(t)'
  BY DEF NoTaskLost, Kept, Waiting, Working
<1>k. phase # "down" => Kept(t)
  BY KeptIsNoTaskLost
<1> USE DEF IInv, TypeInv, TypeOK, dbVars, files, rowVars, queueVars, startVars, threadVars
<1>1. ASSUME NEW S \in SUBSET Shots, DeleteShots(S) \/ ClearAllProjects PROVE Kept(t)'
  <2>1. /\ status'[t] = status[t] \/ status'[t] \in {"deleted", "absent"}
        /\ phase # "down" /\ UNCHANGED <<pc, job>> /\ Waiting' = Waiting
    BY <1>1 DEF DeleteShots, ClearAllProjects, DeleteRows, Serving, Waiting, Entering
  <2> QED BY <1>k, <2>1, StillKept
<1>2. ASSUME NEW u \in Tasks, Submit(u) PROVE Kept(t)'
  <2>1. /\ \A v \in Tasks \ {u} : status'[v] = status[v]
        /\ phase # "down" /\ UNCHANGED <<pc, job>> /\ Waiting' = Waiting \cup {u}
        /\ status'[u] = "pending"
    BY <1>2 DEF Submit, Serving, Waiting, Entering
  <2> QED BY <1>k, <2>1 DEF Kept
<1>3. ASSUME NEW u \in Tasks, SubmitReturns(u) PROVE Kept(t)'
  <2>1. CASE SubmitEnqueue(u)
    <3>1. In(queue') = In(queue) \cup {u}
      BY <2>1, AppendFresh DEF SubmitEnqueue, Enqueue
    <3>2. Waiting \subseteq Waiting' /\ phase # "down" /\ UNCHANGED <<pc, job, status>>
      BY <2>1, <3>1 DEF SubmitEnqueue, Enqueue, Waiting, Entering, PhaseInv, Quiet
    <3> QED BY <1>k, <3>2 DEF Kept
  <2>2. CASE SubmitEnqueueRaises(u)
    BY <2>2 DEF SubmitEnqueueRaises, EnqueueRaises
  <2>3. CASE SubmitMarkFailed(u)
    <3>1. status'[t] = status[t] \/ status'[t] = "failed"
      BY <2>3 DEF SubmitMarkFailed, WriteTask, Stored
    <3>2. phase # "down" /\ UNCHANGED <<pc, job>> /\ Waiting' = Waiting
      BY <2>3 DEF SubmitMarkFailed, Waiting, Entering, PhaseInv, Quiet
    <3> QED BY <1>k, <3>1, <3>2 DEF Kept
  <2> QED BY <1>3, <2>1, <2>2, <2>3 DEF SubmitReturns
<1>4. CASE Dispatch
  <2>1. /\ queue # <<>> /\ queue' = Tail(queue) /\ pool' = Append(pool, Head(queue))
        /\ UNCHANGED <<status, pc, job, handler, restoring, phase>>
    BY <1>4 DEF Dispatch
  <2>2. In(queue) = {Head(queue)} \cup In(queue') /\ Head(queue) \in Tasks
    BY <2>1, TailRest
  <2>3. In(pool') = In(pool) \cup {Head(queue)}
    BY <2>1, <2>2, AppendFresh
  <2>4. Waiting' = Waiting
    BY <2>1, <2>2, <2>3 DEF Waiting, Entering
  <2>5. phase # "down"
    BY <2>1
  <2> QED BY <1>k, <2>1, <2>4, <2>5, StillKept
<1>5. ASSUME NEW w \in Workers, RunTask(w) PROVE Kept(t)'
  <2>1. phase' = phase
    BY <1>5 DEF RunTask, TakeTask, MarkProcessing, SaveAndLaunch, GotResult, GotError,
           TimedOut, NoteRetry, FailTask, CompleteTask, Discard, Settle, SnapshotRow,
           SnapshotDone, SaveRaises, LockExpires
  <2> QED BY <1>k, <1>5, <2>1, ThreadKept
<1>6. CASE Crash
  BY <1>6 DEF Crash
<1>7. CASE Startup
  <2>1. CASE Resume
    BY <2>1 DEF Resume, Kept, Unfinished, Waiting, Entering
  <2>2. CASE CleanCheckpoint \/ CleanDone
    BY <1>k, <2>2 DEF CleanCheckpoint, CleanDone, Kept, Waiting, Entering
  <2>3. ASSUME NEW u \in Tasks, Restore(u) PROVE Kept(t)'
    <3>1. In(queue') = In(queue) \cup {u}
      BY <2>3, AppendFresh DEF Restore, Enqueue
    <3>2. Waiting \subseteq Waiting' /\ phase # "down" /\ UNCHANGED <<pc, job, status>>
      BY <2>3, <3>1 DEF Restore, Enqueue, Waiting, Entering
    <3> QED BY <1>k, <3>2 DEF Kept
  <2>4. ASSUME NEW u \in Tasks, RestoreRaises(u) PROVE Kept(t)'
    BY <2>4 DEF RestoreRaises, EnqueueRaises
  <2> QED BY <1>7, <2>1, <2>2, <2>3, <2>4 DEF Startup
<1>8. CASE \/ \E s \in Shots : CreateShot(s)
           \/ \E a \in Attempt : Inference(a)
           \/ UNCHANGED vars
  <2>1. UNCHANGED <<status, phase, pc, job, queue, pool, handler, restoring>>
    BY <1>8 DEF CreateShot, Inference, InferenceFails, InferenceWrites, InferenceCommits, vars
  <2>2. Waiting' = Waiting /\ phase # "down"
    BY <2>1 DEF Waiting, Entering
  <2> QED BY <1>k, <2>1, <2>2, StillKept
<1> QED
  BY <1>1, <1>2, <1>3, <1>4, <1>5, <1>6, <1>7, <1>8 DEF Next, Request

(* Without faults, but for files that cannot be removed, a serving process *)
(* forgets no unfinished row, whatever crashed before                      *)
(* (queue_manager.py:100-146, 206-321); each of the three other faults is  *)
(* a way to lose one, see the README.                                      *)
THEOREM NothingLost == Faults \subseteq {"unlink"} => (Spec => []NoTaskLost)
<1> SUFFICES ASSUME Faults \subseteq {"unlink"} PROVE Spec => []NoTaskLost
  OBVIOUS
<1>1. Init => NoTaskLost
  BY DEF Init, NoTaskLost
<1>2. IInv /\ NoTaskLost /\ [Next]_vars => NoTaskLost'
  BY NoTaskLostStep
<1> QED BY <1>1, <1>2, IInvHolds, PTL DEF Spec
-----------------------------------------------------------------------------
(* Without the thread fault every shot agrees with its tasks.              *)

(* A task row lives exactly as long as its shot's row.                     *)
ShotRows ==
    \A t \in Tasks :
        /\ status[t] \in Stored => shotStatus[ShotOf[t]] \notin ShotGone
        /\ status[t] = "deleted" => shotStatus[ShotOf[t]] = "deleted"

(* What ShotAgreesWithTasks says of one shot.                              *)
Agrees(s) ==
    /\ shotStatus[s] \in {"queued", "processing"} =>
           \E t \in Tasks : ShotOf[t] = s /\ status[t] \in Unfinished
    /\ shotStatus[s] = "completed" =>
           \E t \in Tasks : /\ ShotOf[t] = s /\ status[t] = "completed"
                            /\ result[t] = shotResult[s]
                            /\ shotResult[s] \in assets
    /\ shotStatus[s] = "failed" =>
           \E t \in Tasks : ShotOf[t] = s /\ status[t] = "failed"

ShotInv ==
    /\ ShotRows
    /\ workerLoop # "dead"
    /\ \A s \in Shots : Agrees(s)

(* The three commits of a pool thread write a task row and its shot's row  *)
(* with the same status.                                                   *)
LEMMA CommitAgrees ==
  ASSUME IInv, TypeInv', ShotInv, NEW w \in Workers, NEW v \in Stored,
         pc[w] # "free",
         status[job[w]] \in Unfinished \cup {"deleted"},
         WriteTask(job[w], v), WriteShot(ShotOf[job[w]], v),
         v # "pending",
         UNCHANGED <<assets, workerLoop>>,
         \A t \in Tasks \ {job[w]} : result'[t] = result[t],
         \A s \in Shots \ {ShotOf[job[w]]} : shotResult'[s] = shotResult[s],
         v = "completed" /\ status[job[w]] \in Stored =>
             /\ result'[job[w]] = att[w] /\ shotResult'[ShotOf[job[w]]] = att[w]
             /\ att[w] \in assets,
         status[job[w]] = "deleted" \/ v # "completed" =>
             result' = result /\ shotResult' = shotResult
  PROVE  ShotInv'
<1> USE ConstantsAssumption DEF IInv, TypeInv, TypeOK
<1> DEFINE j == job[w]
           k == ShotOf[j]
<1>1. j \in Tasks /\ k \in Shots
  BY DEF Busy
<1>2. CASE status[j] = "deleted"
  <2>1. shotStatus[k] = "deleted"
    BY <1>1, <1>2 DEF ShotInv, ShotRows
  <2>2. UNCHANGED <<status, shotStatus, result, shotResult>>
    BY <1>2, <2>1 DEF WriteTask, WriteShot, ShotGone, Stored, Unfinished, Terminal
  <2> QED BY <2>2 DEF ShotInv, ShotRows, Agrees
<1>3. CASE status[j] \in Unfinished
  <2>1. shotStatus[k] \notin ShotGone /\ status[j] \in Stored
    BY <1>1, <1>3 DEF ShotInv, ShotRows, Stored
  <2>2. /\ status'[j] = v /\ shotStatus'[k] = v
        /\ \A t \in Tasks \ {j} : status'[t] = status[t]
        /\ \A s \in Shots \ {k} : shotStatus'[s] = shotStatus[s]
    BY <1>1, <2>1 DEF WriteTask, WriteShot
  <2>3. ShotRows'
    <3> HIDE DEF IInv, TypeInv, TypeOK
    <3> QED BY <1>1, <2>1, <2>2, ConstantsAssumption
            DEF ShotInv, ShotRows, Stored, Unfinished, Terminal, ShotGone
  <2>4. ASSUME NEW s \in Shots PROVE Agrees(s)'
    <3>1. CASE s = k
      BY <1>1, <2>1, <2>2, <3>1 DEF Agrees, Stored, Unfinished, Terminal
    <3>2. CASE s # k
      <4>1. /\ shotStatus'[s] = shotStatus[s] /\ shotResult'[s] = shotResult[s]
            /\ \A t \in Tasks : ShotOf[t] = s =>
                   status'[t] = status[t] /\ result'[t] = result[t]
        BY <1>1, <2>2, <3>2
      <4>2. Agrees(s)
        BY DEF ShotInv
      <4> QED BY <4>1, <4>2 DEF Agrees
    <3> QED BY <3>1, <3>2
  <2> QED BY <2>3, <2>4 DEF ShotInv
<1> QED BY <1>2, <1>3

LEMMA DeleteAgrees ==
  ASSUME IInv, TypeInv', ShotInv, NEW S \in SUBSET Shots, DeleteRows(S),
         assets' = assets \/ S = Shots, UNCHANGED workerLoop
  PROVE  ShotInv'
<1> USE ConstantsAssumption DEF IInv, TypeInv, TypeOK
<1>1. ShotRows'
  BY DEF DeleteRows, ShotInv, ShotRows, Stored, Unfinished, Terminal, ShotGone, TaskStatus
<1>2. ASSUME NEW s \in Shots PROVE Agrees(s)'
  <2>1. CASE s \in S
    BY <2>1 DEF DeleteRows, Agrees
  <2>2. CASE s \notin S
    <3>1. /\ shotStatus'[s] = shotStatus[s] /\ shotResult'[s] = shotResult[s]
          /\ assets' = assets
          /\ \A t \in Tasks : ShotOf[t] = s =>
                 status'[t] = status[t] /\ result'[t] = result[t]
      BY <2>2 DEF DeleteRows
    <3>2. Agrees(s)
      BY DEF ShotInv
    <3> QED BY <3>1, <3>2 DEF Agrees
  <2> QED BY <2>1, <2>2
<1> QED BY <1>1, <1>2 DEF ShotInv

LEMMA ShotInvStep ==
  ASSUME "thread" \notin Faults, IInv, [Next]_vars, ShotInv
  PROVE  ShotInv'
<1>t. TypeInv'
  BY NextTypeInv DEF IInv
<1> USE <1>t, ConstantsAssumption
    DEF IInv, TypeInv, TypeOK, dbVars, files, rowVars, queueVars, startVars, threadVars
<1>1. ASSUME NEW S \in SUBSET Shots, DeleteShots(S) PROVE ShotInv'
  BY <1>1, DeleteAgrees DEF DeleteShots
<1>2. CASE ClearAllProjects
  BY <1>2, DeleteAgrees DEF ClearAllProjects
<1>3. ASSUME NEW u \in Tasks, Submit(u) PROVE ShotInv'
  <2>1. /\ status' = [status EXCEPT ![u] = "pending"] /\ status[u] = "absent"
        /\ shotStatus' = [shotStatus EXCEPT ![ShotOf[u]] = "queued"]
        /\ shotStatus[ShotOf[u]] \notin ShotGone
        /\ UNCHANGED <<result, shotResult, assets, workerLoop>>
    BY <1>3 DEF Submit
  <2>2. ShotRows'
    BY <2>1 DEF ShotInv, ShotRows, Stored, Unfinished, Terminal, ShotGone
  <2>3. ASSUME NEW s \in Shots PROVE Agrees(s)'
    BY <2>1 DEF ShotInv, Agrees, Unfinished
  <2> QED BY <2>1, <2>2, <2>3 DEF ShotInv
<1>4. ASSUME NEW s \in Shots, CreateShot(s) PROVE ShotInv'
  <2>1. /\ shotStatus' = [shotStatus EXCEPT ![s] = "idle"] /\ shotStatus[s] = "absent"
        /\ UNCHANGED <<status, result, shotResult, assets, workerLoop>>
    BY <1>4 DEF CreateShot
  <2> QED BY <2>1 DEF ShotInv, ShotRows, ShotGone, Agrees
<1>5. ASSUME NEW w \in Workers, RunTask(w) PROVE ShotInv'
  <2>1. CASE MarkProcessing(w)
    <3>1. status[job[w]] \in Unfinished \cup {"deleted"}
      BY <2>1 DEF MarkProcessing, StatusInv
    <3> QED BY <2>1, <3>1, CommitAgrees DEF MarkProcessing, Stored, Unfinished
  <2>2. CASE FailTask(w)
    <3>1. status[job[w]] \in Unfinished \cup {"deleted"}
      BY <2>2 DEF FailTask, StatusInv, Unfinished
    <3> QED BY <2>2, <3>1, CommitAgrees DEF FailTask, Stored, Terminal
  <2>3. CASE CompleteTask(w)
    <3>1. /\ status[job[w]] \in Unfinished \cup {"deleted"}
          /\ job[w] \in Tasks /\ ShotOf[job[w]] \in Shots
      BY <2>3 DEF CompleteTask, StatusInv, Unfinished, Busy
    <3>2. status[job[w]] \in Stored =>
             att[w] \in assets /\ shotStatus[ShotOf[job[w]]] \notin ShotGone
      BY <2>3, <3>1 DEF CompleteTask, ResultInv, SlotInv, ShotInv, ShotRows
    <3>3. status[job[w]] = "deleted" => shotStatus[ShotOf[job[w]]] \in ShotGone
      BY <3>1 DEF ShotInv, ShotRows, ShotGone
    <3>4. "deleted" \notin Stored /\ "completed" \in Stored
      BY DEF Stored, Unfinished, Terminal
    <3> QED BY <2>3, <3>1, <3>2, <3>3, <3>4, CommitAgrees DEF CompleteTask
  <2>4. CASE ~(MarkProcessing(w) \/ FailTask(w) \/ CompleteTask(w))
    <3>1. UNCHANGED <<status, result, shotStatus, shotResult, assets, workerLoop>>
      BY <1>5, <2>4 DEF RunTask, TakeTask, SaveAndLaunch, GotResult, GotError, TimedOut,
             NoteRetry, Discard, Settle, SnapshotRow, SnapshotDone, SaveRaises, LockExpires
    <3> QED BY <3>1 DEF ShotInv, ShotRows, Agrees
  <2> QED BY <2>1, <2>2, <2>3, <2>4
<1>6. ASSUME NEW u \in Tasks, SubmitReturns(u) PROVE ShotInv'
  <2>1. ~SubmitMarkFailed(u) /\ ~SubmitEnqueueRaises(u)
    BY DEF SubmitMarkFailed, SubmitEnqueueRaises, EnqueueRaises, StatusInv, ShotInv
  <2>2. /\ UNCHANGED <<status, result, shotStatus, shotResult, assets>>
        /\ workerLoop' # "dead"
    BY <1>6, <2>1 DEF SubmitReturns, SubmitEnqueue, Enqueue, ShotInv
  <2> QED BY <2>2 DEF ShotInv, ShotRows, Agrees
<1>7. ASSUME NEW a \in Attempt, Inference(a) PROVE ShotInv'
  <2>1. /\ UNCHANGED <<status, result, shotStatus, shotResult, workerLoop>>
        /\ assets \subseteq assets'
    BY <1>7 DEF Inference, InferenceFails, InferenceWrites, InferenceCommits
  <2> QED BY <2>1 DEF ShotInv, ShotRows, Agrees
<1>8. CASE Startup
  <2>1. CASE Resume
    <3> DEFINE R == {t \in Tasks : status[t] \in Unfinished}
    <3>1. /\ status' = [t \in Tasks |-> IF t \in R THEN "pending" ELSE status[t]]
          /\ shotStatus' = [s \in Shots |-> IF \E t \in R : ShotOf[t] = s THEN "queued"
                                            ELSE shotStatus[s]]
          /\ UNCHANGED <<result, shotResult, assets, workerLoop>>
      BY <2>1 DEF Resume
    <3>2. R \subseteq Tasks /\ \A t \in Tasks : t \in R <=> status[t] \in Unfinished
      OBVIOUS
    <3> HIDE DEF R
    <3>3. ShotRows'
      BY <3>1, <3>2 DEF ShotInv, ShotRows, Stored, Unfinished, Terminal, ShotGone
    <3>4. ASSUME NEW s \in Shots PROVE Agrees(s)'
      <4>1. Agrees(s)
        BY DEF ShotInv
      <4>2. CASE \E t \in R : ShotOf[t] = s
        BY <3>1, <3>2, <4>2 DEF Agrees, Unfinished
      <4>3. CASE ~ \E t \in R : ShotOf[t] = s
        <5>1. /\ shotStatus'[s] = shotStatus[s] /\ shotResult'[s] = shotResult[s]
              /\ \A t \in Tasks : ShotOf[t] = s => status'[t] = status[t]
          BY <3>1, <4>3
        <5> QED BY <3>1, <4>1, <5>1 DEF Agrees
      <4> QED BY <4>2, <4>3
    <3> QED BY <3>1, <3>3, <3>4 DEF ShotInv
  <2>2. CASE CleanCheckpoint \/ CleanDone \/ \E t \in Tasks : Restore(t)
    <3>1. /\ UNCHANGED <<status, result, shotStatus, shotResult, assets>>
          /\ workerLoop' # "dead"
      BY <2>2 DEF CleanCheckpoint, CleanDone, Restore, Enqueue, ShotInv
    <3> QED BY <3>1 DEF ShotInv, ShotRows, Agrees
  <2>3. \A t \in Tasks : ~RestoreRaises(t)
    BY DEF RestoreRaises, EnqueueRaises
  <2> QED BY <1>8, <2>1, <2>2, <2>3 DEF Startup
<1>9. CASE Dispatch \/ Crash \/ UNCHANGED vars
  <2>1. /\ UNCHANGED <<status, result, shotStatus, shotResult, assets>>
        /\ workerLoop' # "dead"
    BY <1>9 DEF Dispatch, Crash, vars, ShotInv
  <2> QED BY <2>1 DEF ShotInv, ShotRows, Agrees
<1> QED
  BY <1>1, <1>2, <1>3, <1>4, <1>5, <1>6, <1>7, <1>8, <1>9 DEF Next, Request

(* The shot a user sees agrees with its tasks in every state, over crashes *)
(* and with every other fault, unless the operating system refuses the     *)
(* worker loop its thread (queue_manager.py:206-321, generations.py:88).   *)
THEOREM ShotsAgree == "thread" \notin Faults => (Spec => []ShotAgreesWithTasks)
<1> SUFFICES ASSUME "thread" \notin Faults PROVE Spec => []ShotAgreesWithTasks
  OBVIOUS
<1>1. Init => ShotInv
  BY ConstantsAssumption
  DEF Init, ShotInv, ShotRows, Agrees, Stored, Unfinished, Terminal
<1>2. IInv /\ ShotInv /\ [Next]_vars => ShotInv'
  BY ShotInvStep
<1>3. ShotInv => ShotAgreesWithTasks
  <2> SUFFICES ASSUME NEW s \in Shots, Agrees(s)
               PROVE  LET taskOf == {t \in Tasks : ShotOf[t] = s}
                      IN  /\ shotStatus[s] \in {"queued", "processing"} =>
                                 \E t \in taskOf : status[t] \in Unfinished
                          /\ shotStatus[s] = "completed" =>
                                 \E t \in taskOf : /\ status[t] = "completed"
                                                   /\ result[t] = shotResult[s]
                                                   /\ shotResult[s] \in assets
                          /\ shotStatus[s] = "failed" =>
                                 \E t \in taskOf : status[t] = "failed"
    BY DEF ShotInv, ShotAgreesWithTasks
  <2> QED BY DEF Agrees
<1> QED BY <1>1, <1>2, <1>3, IInvHolds, PTL DEF Spec
-----------------------------------------------------------------------------
(* Checkpoint files of running tasks.                                      *)

LEMMA CheckpointedStep ==
  ASSUME "disk" \notin Faults, IInv, [Next]_vars, RunningIsCheckpointed
  PROVE  RunningIsCheckpointed'
<1> USE DEF IInv, TypeInv, TypeOK, files, RunningIsCheckpointed
<1>1. ASSUME NEW w \in Workers, RunTask(w) PROVE RunningIsCheckpointed'
  <2>1. CASE TakeTask(w)
    BY <2>1 DEF TakeTask
  <2>2. CASE SaveAndLaunch(w)
    BY <2>2 DEF SaveAndLaunch, Launch
  <2>3. CASE Discard(w) \/ Settle(w)
    <3>1. \A v \in Workers : job[v] = job[w] => v = w
      BY <2>3, OwnJob DEF Discard, Settle
    <3>2. /\ ckpt \ {job[w]} \subseteq ckpt' /\ pc'[w] \in {"free", "snapshot"}
          /\ \A v \in Workers \ {w} : pc'[v] = pc[v] /\ job'[v] = job[v]
      BY <2>3 DEF Discard, Settle, RemoveCheckpoint, Free
    <3> QED BY <3>1, <3>2
  <2>4. CASE SnapshotDone(w) \/ SaveRaises(w) \/ LockExpires(w)
    BY <2>4 DEF SnapshotDone, SaveRaises, LockExpires, Free
  <2>5. CASE SnapshotRow(w)
    BY <2>5 DEF SnapshotRow
  <2>6. CASE MarkProcessing(w) \/ NoteRetry(w)
    BY <2>6 DEF MarkProcessing, NoteRetry
  <2>7. CASE \/ GotResult(w) \/ GotError(w) \/ TimedOut(w) \/ FailTask(w)
             \/ CompleteTask(w)
    <3>1. /\ UNCHANGED <<ckpt, job>>
          /\ pc'[w] \in {"wait", "retry", "fail", "complete"} => pc[w] = "wait"
          /\ \A v \in Workers \ {w} : pc'[v] = pc[v]
      BY <2>7 DEF GotResult, GotError, TimedOut, FailTask, CompleteTask
    <3> QED BY <3>1
  <2> QED BY <1>1, <2>1, <2>2, <2>3, <2>4, <2>5, <2>6, <2>7 DEF RunTask
<1>2. CASE CleanCheckpoint
  BY <1>2 DEF CleanCheckpoint, RemoveCheckpoint, PhaseInv, Quiet, threadVars
<1>3. CASE Crash
  BY <1>3 DEF Crash
<1>4. CASE \/ Request \/ \E t \in Tasks : SubmitReturns(t)
           \/ Dispatch \/ \E a \in Attempt : Inference(a)
           \/ UNCHANGED vars \/ Resume \/ CleanDone
           \/ \E t \in Tasks : Restore(t) \/ RestoreRaises(t)
  <2>1. UNCHANGED <<pc, job, ckpt>>
    BY <1>4 DEF Request, CreateShot, DeleteShots, Submit, ClearAllProjects, SubmitReturns,
       SubmitEnqueue, SubmitEnqueueRaises, SubmitMarkFailed, Dispatch, Inference,
       InferenceFails, InferenceWrites, InferenceCommits, vars, Resume, CleanDone, Restore,
       RestoreRaises, threadVars
  <2> QED BY <2>1
<1> QED BY <1>1, <1>2, <1>3, <1>4 DEF Next, Startup

(* A task being run has its checkpoint file, whatever snapshots, deletions *)
(* and other tasks' cleanups do meanwhile, as long as every save succeeds  *)
(* (queue_manager.py:229-240, 314).                                        *)
THEOREM RunningCheckpointed ==
  "disk" \notin Faults => (Spec => []RunningIsCheckpointed)
<1> SUFFICES ASSUME "disk" \notin Faults PROVE Spec => []RunningIsCheckpointed
  OBVIOUS
<1>1. Init => RunningIsCheckpointed
  BY DEF Init, RunningIsCheckpointed
<1>2. IInv /\ RunningIsCheckpointed /\ [Next]_vars => RunningIsCheckpointed'
  BY CheckpointedStep
<1> QED BY <1>1, <1>2, IInvHolds, PTL DEF Spec
-----------------------------------------------------------------------------
(* Checkpoint files of finished tasks, with MAX_CONCURRENCY = 1.           *)

OneThread == \A v, w \in Workers : v = w

(* A file is written only for a submitted task; a task that is still being *)
(* submitted has none unless the worker loop runs, so the handler that     *)
(* marks a task failed leaves no file behind; and the rows a thread has    *)
(* yet to snapshot are as unfinished as when it read them.                 *)
FileInv ==
    /\ \A t \in ckpt : status[t] # "absent"
    /\ workerLoop # "running" => \A t \in ckpt : handler[t] = "none"
    /\ \A w \in Workers : pc[w] = "snapshot" =>
           \A t \in snap[w] : status[t] \in Unfinished \cup {"deleted"}

(* A step that writes no file and finishes no row.                         *)
LEMMA FilesStay ==
  ASSUME IInv, TypeInv', FileInv, NoStaleCheckpoint,
         ckpt' \subseteq ckpt, unremoved \subseteq unremoved',
         \A t \in Tasks : status'[t] \in {status[t], "pending", "deleted"},
         workerLoop' # "running" =>
             \A t \in ckpt : workerLoop # "running" /\ handler'[t] = "none",
         UNCHANGED <<pc, job, snap>>,
         phase' = "up" => phase = "up" \/ StaleOnDisk' = {}
  PROVE  FileInv' /\ NoStaleCheckpoint'
<1> USE DEF IInv, TypeInv, TypeOK
<1>1. FileInv'
  <2>1. \A t \in ckpt' : status'[t] # "absent"
    BY DEF FileInv
  <2>2. workerLoop' # "running" => \A t \in ckpt' : handler'[t] = "none"
    OBVIOUS
  <2>3. ASSUME NEW w \in Workers, pc'[w] = "snapshot", NEW t \in snap'[w]
        PROVE  status'[t] \in Unfinished \cup {"deleted"}
    <3>1. status[t] \in Unfinished \cup {"deleted"} /\ t \in Tasks
      BY <2>3 DEF FileInv
    <3> QED BY <3>1 DEF Unfinished
  <2> QED BY <2>1, <2>2, <2>3 DEF FileInv
<1>2. NoStaleCheckpoint'
  <2> SUFFICES ASSUME phase' = "up", NEW t \in StaleOnDisk'
               PROVE  \E w \in Workers : job'[w] = t /\ pc'[w] \in {"settle", "discard"}
    BY DEF NoStaleCheckpoint
  <2>1. t \in ckpt' /\ status'[t] \in Terminal /\ t \notin unremoved
    BY DEF StaleOnDisk
  <2>2. t \in ckpt /\ status[t] \in Terminal
    BY <2>1 DEF Terminal
  <2> QED BY <2>1, <2>2 DEF NoStaleCheckpoint, StaleOnDisk
<1> QED BY <1>1, <1>2

(* An UPDATE of a task's status changes that row only, and only if it      *)
(* exists.                                                                 *)
LEMMA WriteTaskEffect ==
  ASSUME TypeOK, NEW j \in Tasks, NEW v, WriteTask(j, v)
  PROVE  \A t \in Tasks : \/ status'[t] = status[t]
                          \/ t = j /\ status[t] \in Stored /\ status'[t] = v
  BY DEF TypeOK, WriteTask

LEMMA ThreadFiles ==
  ASSUME OneThread, IInv, TypeInv', FileInv, NoStaleCheckpoint,
         NEW w \in Workers, RunTask(w)
  PROVE  FileInv' /\ NoStaleCheckpoint'
<1> USE ConstantsAssumption DEF IInv, TypeInv, TypeOK, dbVars, files, rowVars, queueVars, startVars
<1>o. \A v \in Workers : v = w
  BY DEF OneThread
<1>1. /\ phase' = phase /\ workerLoop' = workerLoop /\ handler' = handler
      /\ phase = "up" /\ workerLoop = "running"
  <2>1. phase' = phase /\ workerLoop' = workerLoop /\ handler' = handler
    BY DEF RunTask, TakeTask, MarkProcessing, SaveAndLaunch, GotResult, GotError,
       TimedOut, NoteRetry, FailTask, CompleteTask, Discard, Settle, SnapshotRow,
       SnapshotDone, SaveRaises, LockExpires
  <2>2. pc[w] # "free" \/ pool # <<>>
    BY DEF RunTask, TakeTask, MarkProcessing, SaveAndLaunch, GotResult, GotError,
       TimedOut, NoteRetry, FailTask, CompleteTask, Discard, Settle, SnapshotRow,
       SnapshotDone, SaveRaises, LockExpires
  <2> QED BY <2>1, <2>2 DEF PhaseInv, Quiet, LoopInv
<1>u. unremoved \subseteq unremoved'
  BY DEF RunTask, TakeTask, MarkProcessing, SaveAndLaunch, GotResult, GotError, TimedOut,
     NoteRetry, FailTask, CompleteTask, Discard, Settle, RemoveCheckpoint, SnapshotRow,
     SnapshotDone, SaveRaises, LockExpires
<1>2. CASE TakeTask(w)
  <2>1. /\ UNCHANGED <<ckpt, status, snap>> /\ pc[w] = "free"
        /\ pc'[w] \in {"free", "mark"}
    BY <1>2 DEF TakeTask
  <2> QED BY <1>o, <1>u, <1>1, <2>1 DEF FileInv, NoStaleCheckpoint, StaleOnDisk
<1>3. CASE MarkProcessing(w)
  <2>1. /\ pc[w] = "mark" /\ pc'[w] = "save" /\ job' = job /\ ckpt' = ckpt
        /\ \A t \in Tasks : \/ status'[t] = status[t]
                            \/ status[t] # "absent" /\ status'[t] = "processing"
    <3>1. pc[w] = "mark" /\ pc'[w] = "save" /\ job' = job /\ ckpt' = ckpt
      BY <1>3 DEF MarkProcessing
    <3>2. WriteTask(job[w], "processing") /\ job[w] \in Tasks
      BY <1>3 DEF MarkProcessing, Busy
    <3>3. \A t \in Tasks : \/ status'[t] = status[t]
                           \/ t = job[w] /\ status[t] \in Stored /\ status'[t] = "processing"
      <4> HIDE DEF TypeOK
      <4> QED BY <3>2, WriteTaskEffect
    <3>4. "absent" \notin Stored
      BY DEF Stored, Unfinished, Terminal
    <3> QED BY <3>1, <3>3, <3>4
  <2>2. \A t \in StaleOnDisk' : t \in StaleOnDisk
    BY <1>u, <2>1 DEF StaleOnDisk, Terminal
  <2>3. FileInv'
    BY <1>o, <1>1, <2>1 DEF FileInv
  <2> QED BY <1>o, <1>1, <2>1, <2>2, <2>3 DEF NoStaleCheckpoint
<1>4. CASE SaveAndLaunch(w)
  <2>1. /\ pc[w] = "save" /\ pc'[w] = "wait" /\ UNCHANGED <<job, status>>
        /\ ckpt' \subseteq ckpt \cup {job[w]} /\ job[w] \in Tasks
    BY <1>4 DEF SaveAndLaunch, Launch, Busy
  <2>2. status[job[w]] \in {"processing", "deleted"}
    BY <2>1 DEF StatusInv
  <2>3. \A t \in StaleOnDisk' : t \in StaleOnDisk
    BY <1>u, <2>1, <2>2 DEF StaleOnDisk, Terminal
  <2>4. FileInv'
    BY <1>o, <1>1, <2>1, <2>2 DEF FileInv
  <2>5. StaleOnDisk = {}
    BY <1>o, <1>1, <2>1 DEF NoStaleCheckpoint
  <2> QED BY <2>3, <2>4, <2>5 DEF NoStaleCheckpoint
<1>5. CASE GotResult(w) \/ GotError(w) \/ TimedOut(w) \/ NoteRetry(w)
  <2>1. pc[w] \in {"wait", "retry"} /\ UNCHANGED <<job, status, ckpt>>
    BY <1>5 DEF GotResult, GotError, TimedOut, NoteRetry
  <2>2. pc'[w] # "snapshot"
    <3>1. \E p \in {"complete", "retry", "fail", "mark"} : pc' = [pc EXCEPT ![w] = p]
      BY <1>5 DEF GotResult, GotError, TimedOut, NoteRetry
    <3> QED BY <3>1
  <2> QED BY <1>o, <1>u, <1>1, <2>1, <2>2 DEF FileInv, NoStaleCheckpoint, StaleOnDisk
<1>6. CASE FailTask(w) \/ CompleteTask(w)
  <2>1. /\ pc[w] \in {"fail", "complete"} /\ pc'[w] \in {"settle", "discard"}
        /\ UNCHANGED <<job, ckpt>> /\ job[w] \in Tasks
        /\ \A t \in Tasks \ {job[w]} : status'[t] = status[t]
        /\ status'[job[w]] # "absent" \/ status[job[w]] = "absent"
    BY <1>6 DEF FailTask, CompleteTask, WriteTask, Stored, Unfinished, Terminal, Busy
  <2>2. \A t \in StaleOnDisk' : t = job[w] \/ t \in StaleOnDisk
    BY <1>u, <2>1 DEF StaleOnDisk
  <2>3. StaleOnDisk = {}
    BY <1>o, <1>1, <2>1 DEF NoStaleCheckpoint
  <2>4. FileInv'
    BY <1>o, <1>1, <2>1 DEF FileInv
  <2> QED BY <2>1, <2>2, <2>3, <2>4 DEF NoStaleCheckpoint
<1>7. CASE Discard(w) \/ Settle(w)
  <2>1. /\ pc[w] \in {"settle", "discard"} /\ ckpt' \subseteq ckpt /\ status' = status
        /\ job[w] \notin ckpt' \ unremoved'
        /\ pc'[w] = "free" \/ (pc'[w] = "snapshot"
                               /\ snap'[w] = {t \in Tasks : status[t] \in Unfinished})
    BY <1>7 DEF Discard, Settle, RemoveCheckpoint, Free
  <2>2. \A t \in StaleOnDisk : t = job[w]
    BY <1>o, <1>1 DEF NoStaleCheckpoint
  <2>3. StaleOnDisk' = {}
    BY <1>u, <2>1, <2>2 DEF StaleOnDisk
  <2>4. FileInv'
    BY <1>o, <1>1, <2>1 DEF FileInv
  <2> QED BY <2>3, <2>4 DEF NoStaleCheckpoint
<1>8. CASE SnapshotRow(w)
  <2>1. PICK t \in snap[w] : /\ snap' = [snap EXCEPT ![w] = @ \ {t}]
                             /\ ckpt' \subseteq ckpt \cup {t}
    BY <1>8 DEF SnapshotRow
  <2>2. UNCHANGED <<pc, job, status>> /\ pc[w] = "snapshot"
    BY <1>8 DEF SnapshotRow
  <2>3. status[t] \in Unfinished \cup {"deleted"} /\ t \in Tasks
    BY <2>2 DEF FileInv
  <2>4. StaleOnDisk' \subseteq StaleOnDisk
    BY <1>u, <2>1, <2>2, <2>3 DEF StaleOnDisk, Unfinished, Terminal
  <2>5. FileInv'
    BY <1>o, <1>1, <2>1, <2>2, <2>3 DEF FileInv, Unfinished
  <2> QED BY <1>1, <2>2, <2>4, <2>5 DEF NoStaleCheckpoint
<1>9. CASE SnapshotDone(w) \/ SaveRaises(w) \/ LockExpires(w)
  <2>1. /\ pc[w] \notin {"settle", "discard"} /\ pc'[w] = "free"
        /\ UNCHANGED <<status, ckpt>>
    BY <1>9 DEF SnapshotDone, SaveRaises, LockExpires, Free
  <2> QED BY <1>o, <1>u, <1>1, <2>1 DEF FileInv, NoStaleCheckpoint, StaleOnDisk
<1> QED BY <1>2, <1>3, <1>4, <1>5, <1>6, <1>7, <1>8, <1>9 DEF RunTask

LEMMA FileInvStep ==
  ASSUME OneThread, IInv, [Next]_vars, FileInv, NoStaleCheckpoint
  PROVE  FileInv' /\ NoStaleCheckpoint'
<1>t. TypeInv'
  BY NextTypeInv DEF IInv
<1> USE <1>t, ConstantsAssumption
    DEF IInv, TypeInv, TypeOK, dbVars, files, rowVars, queueVars, startVars, threadVars
<1>1. ASSUME NEW S \in SUBSET Shots, DeleteShots(S) \/ ClearAllProjects
      PROVE  FileInv' /\ NoStaleCheckpoint'
  <2>1. /\ \A t \in Tasks : status'[t] \in {status[t], "deleted"}
        /\ UNCHANGED <<phase, handler, workerLoop, ckpt, unremoved, pc, job, snap>>
    BY <1>1 DEF DeleteShots, ClearAllProjects, DeleteRows
  <2> QED BY <2>1, FilesStay DEF FileInv
<1>2. ASSUME NEW u \in Tasks, Submit(u) PROVE FileInv' /\ NoStaleCheckpoint'
  <2>1. /\ status[u] = "absent" /\ status'[u] = "pending" /\ u \notin ckpt
        /\ \A t \in Tasks \ {u} : status'[t] = status[t] /\ handler'[t] = handler[t]
        /\ UNCHANGED <<phase, workerLoop, ckpt, unremoved, pc, job, snap>>
    BY <1>2 DEF Submit, FileInv
  <2> QED BY <2>1, FilesStay DEF FileInv
<1>3. ASSUME NEW u \in Tasks, SubmitReturns(u) PROVE FileInv' /\ NoStaleCheckpoint'
  <2>1. CASE SubmitEnqueue(u)
    <3>1. /\ UNCHANGED <<phase, status, ckpt, unremoved, pc, job, snap>>
          /\ \A t \in Tasks : handler'[t] \in {handler[t], "none"}
          /\ workerLoop' # "running" => workerLoop # "running"
      BY <2>1 DEF SubmitEnqueue, Enqueue
    <3> QED BY <3>1, FilesStay DEF FileInv
  <2>2. CASE SubmitEnqueueRaises(u)
    <3>1. /\ UNCHANGED <<phase, status, ckpt, unremoved, pc, job, snap>>
          /\ workerLoop = "unstarted" /\ handler[u] # "none"
          /\ \A t \in Tasks \ {u} : handler'[t] = handler[t]
      BY <2>2 DEF SubmitEnqueueRaises, EnqueueRaises
    <3>2. \A t \in ckpt : handler'[t] = "none"
      BY <3>1 DEF FileInv
    <3> QED BY <3>1, <3>2, FilesStay
  <2>3. CASE SubmitMarkFailed(u)
    <3>1. /\ workerLoop = "dead" /\ handler[u] # "none"
          /\ \A w \in Workers : pc[w] = "free"
      BY <2>3 DEF SubmitMarkFailed, StatusInv, LoopInv
    <3>2. u \notin ckpt
      BY <3>1 DEF FileInv
    <3>3. /\ UNCHANGED <<phase, ckpt, unremoved, pc, job, snap, workerLoop>>
          /\ \A t \in Tasks : handler'[t] \in {handler[t], "none"}
          /\ \A t \in Tasks \ {u} : status'[t] = status[t]
      BY <2>3 DEF SubmitMarkFailed, WriteTask
    <3>4. StaleOnDisk' = StaleOnDisk
      BY <3>2, <3>3 DEF StaleOnDisk
    <3>5. FileInv'
      BY <3>1, <3>2, <3>3 DEF FileInv
    <3> QED BY <3>3, <3>4, <3>5 DEF NoStaleCheckpoint
  <2> QED BY <1>3, <2>1, <2>2, <2>3 DEF SubmitReturns
<1>4. ASSUME NEW w \in Workers, RunTask(w) PROVE FileInv' /\ NoStaleCheckpoint'
  BY <1>4, ThreadFiles
<1>5. CASE Crash
  <2>1. /\ status' = status /\ ckpt' = ckpt /\ phase' = "down"
        /\ \A t \in Tasks : handler'[t] = "none"
        /\ \A w \in Workers : pc'[w] = "free"
    BY <1>5 DEF Crash
  <2> QED BY <2>1 DEF FileInv, NoStaleCheckpoint
<1>6. CASE Startup
  <2>1. CASE Resume
    <3>1. /\ \A t \in Tasks : status'[t] \in {status[t], "pending"}
          /\ phase' = "clean" /\ UNCHANGED <<ckpt, unremoved, handler, workerLoop, pc, job, snap>>
      BY <2>1 DEF Resume
    <3> QED BY <3>1, FilesStay DEF FileInv
  <2>2. CASE CleanCheckpoint
    BY <2>2, FilesStay DEF CleanCheckpoint, RemoveCheckpoint, FileInv
  <2>3. CASE CleanDone
    <3>1. StaleOnDisk' = {}
      BY <2>3 DEF CleanDone, StaleOnDisk
    <3> QED BY <2>3, <3>1, FilesStay DEF CleanDone, FileInv
  <2>4. ASSUME NEW u \in Tasks, Restore(u) \/ RestoreRaises(u)
        PROVE  FileInv' /\ NoStaleCheckpoint'
    <3>1. /\ UNCHANGED <<phase, status, ckpt, unremoved, pc, job, snap, handler>>
          /\ workerLoop' # "running" => workerLoop # "running"
      BY <2>4 DEF Restore, RestoreRaises, Enqueue, EnqueueRaises
    <3> QED BY <3>1, FilesStay DEF FileInv
  <2> QED BY <1>6, <2>1, <2>2, <2>3, <2>4 DEF Startup
<1>7. CASE \/ \E s \in Shots : CreateShot(s)
           \/ \E a \in Attempt : Inference(a)
           \/ Dispatch \/ UNCHANGED vars
  <2>1. UNCHANGED <<status, phase, ckpt, unremoved, pc, job, snap, handler, workerLoop>>
    BY <1>7 DEF CreateShot, Inference, InferenceFails, InferenceWrites, InferenceCommits,
       Dispatch, vars
  <2> QED BY <2>1, FilesStay DEF FileInv
<1> QED
  BY <1>1, <1>2, <1>3, <1>4, <1>5, <1>6, <1>7 DEF Next, Request

(* One pool thread leaves no checkpoint of a finished task to a serving    *)
(* process but those it failed to remove, whatever faults and crashes do:  *)
(* what a crash leaves, startup tries (queue_manager.py:130-140, 314-317). *)
THEOREM NoStaleFile == OneThread => (Spec => []NoStaleCheckpoint)
<1> SUFFICES ASSUME OneThread PROVE Spec => []NoStaleCheckpoint
  OBVIOUS
<1>1. Init => FileInv /\ NoStaleCheckpoint
  BY DEF Init, FileInv, NoStaleCheckpoint
<1>2. IInv /\ FileInv /\ NoStaleCheckpoint /\ [Next]_vars => FileInv' /\ NoStaleCheckpoint'
  BY FileInvStep
<1> QED BY <1>1, <1>2, IInvHolds, PTL DEF Spec
====
