------------------------- MODULE QueueManagerProofs -------------------------
(* Proofs about QueueManager, for every number of tasks, shots, pool       *)
(* threads, retries and restarts and for every set of faults.              *)
EXTENDS QueueManager, TLAPS

(* A pool thread that is not free works for a task.                        *)
Busy == \A w \in Workers : pc[w] # "free" => job[w] \in Tasks

TypeInv == TypeOK /\ Busy

LEMMA InitTypeInv == Init => TypeInv
  BY ConstantsAssumption
  DEF Init, TypeInv, TypeOK, Busy, TaskStatus, Stored, Unfinished, Terminal,
      ShotStatus, InfState, Live, PC

(* Type correctness of one step; one case per action.                      *)
LEMMA NextTypeInv == TypeInv /\ [Next]_vars => TypeInv'
<1> SUFFICES ASSUME TypeInv, [Next]_vars PROVE TypeInv'
  OBVIOUS
<1> USE ConstantsAssumption
    DEF TypeInv, TypeOK, Busy, TaskStatus, Stored, Unfinished, Terminal,
        ShotStatus, InfState, Live, PC, dbVars, files, rowVars, queueVars, threadVars,
        startVars
<1>1. CASE \/ \E s \in Shots : CreateShot(s)
           \/ \E S \in SUBSET Shots : DeleteShots(S)
  <2>1. ASSUME NEW s \in Shots, CreateShot(s) PROVE TypeInv'
    BY <2>1 DEF CreateShot
  <2>2. ASSUME NEW S \in SUBSET Shots, DeleteShots(S) PROVE TypeInv'
    BY <2>2 DEF DeleteShots, DeleteRows
  <2> QED BY <1>1, <2>1, <2>2
<1>2. CASE \E t \in Tasks : Submit(t)
  BY <1>2 DEF Submit
<1>3. CASE ClearAllProjects
  BY <1>3 DEF ClearAllProjects, DeleteRows
<1>4. CASE \E t \in Tasks : SubmitReturns(t)
  <2>1. ASSUME NEW t \in Tasks, SubmitEnqueue(t) PROVE TypeInv'
    BY <2>1 DEF SubmitEnqueue, Enqueue
  <2>2. ASSUME NEW t \in Tasks, SubmitEnqueueRaises(t) PROVE TypeInv'
    BY <2>2 DEF SubmitEnqueueRaises, EnqueueRaises
  <2>3. ASSUME NEW t \in Tasks, SubmitMarkFailed(t) PROVE TypeInv'
    BY <2>3 DEF SubmitMarkFailed, WriteTask
  <2> QED BY <1>4, <2>1, <2>2, <2>3 DEF SubmitReturns
<1>5. CASE Dispatch
  BY <1>5 DEF Dispatch
<1>6. ASSUME NEW w \in Workers, RunTask(w) PROVE TypeInv'
  <2>1. CASE TakeTask(w)
    <3>1. Head(pool) \in Tasks /\ Tail(pool) \in Seq(Tasks)
      BY <2>1 DEF TakeTask
    <3>2. CASE status[Head(pool)] \in Stored
      <4>1. /\ job' = [job EXCEPT ![w] = Head(pool)]
            /\ pc' = [pc EXCEPT ![w] = "mark"]
        BY <2>1, <3>2 DEF TakeTask
      <4>2. job' \in [Workers -> Tasks \cup {None}] /\ pc' \in [Workers -> PC] /\ Busy'
        BY <3>1, <4>1
      <4> QED BY <2>1, <3>1, <4>2 DEF TakeTask
    <3>3. CASE status[Head(pool)] \notin Stored
      BY <2>1, <3>1, <3>3 DEF TakeTask
    <3> QED BY <3>2, <3>3
  <2>2. CASE MarkProcessing(w) BY <2>2 DEF MarkProcessing, WriteTask, WriteShot
  <2>3. CASE SaveAndLaunch(w)
    BY <2>3 DEF SaveAndLaunch, Launch, Attempt
  <2>4. CASE GotResult(w) BY <2>4 DEF GotResult
  <2>5. CASE GotError(w)
    <3>1. CASE retry[w] < TaskRetryMax
      <4>1. retry[w] + 1 \in 0 .. TaskRetryMax
        BY <3>1
      <4>2. retry' = [retry EXCEPT ![w] = retry[w] + 1]
        BY <2>5, <3>1 DEF GotError
      <4>3. retry' \in [Workers -> 0 .. TaskRetryMax]
        BY <4>1, <4>2
      <4> QED BY <2>5, <3>1, <4>3 DEF GotError
    <3>2. CASE ~(retry[w] < TaskRetryMax)
      BY <2>5, <3>2 DEF GotError
    <3> QED BY <3>1, <3>2
  <2>6. CASE TimedOut(w) BY <2>6 DEF TimedOut
  <2>7. CASE NoteRetry(w) BY <2>7 DEF NoteRetry
  <2>8. CASE FailTask(w) BY <2>8 DEF FailTask, WriteTask, WriteShot
  <2>9. CASE CompleteTask(w) BY <2>9 DEF CompleteTask, WriteTask, WriteShot
  <2>10. CASE Discard(w) BY <2>10 DEF Discard, RemoveCheckpoint, Free
  <2>11. CASE Settle(w)
    <3>1. completedSince' \in 0 .. CheckpointEvery - 1
      BY <2>11 DEF Settle
    <3>2. CASE completedSince + 1 = CheckpointEvery
      <4>1. /\ snap' = [snap EXCEPT ![w] = {t \in Tasks : status[t] \in Unfinished}]
            /\ pc' = [pc EXCEPT ![w] = "snapshot"]
            /\ UNCHANGED <<job, retry, att>>
        BY <2>11, <3>2 DEF Settle
      <4>2. snap' \in [Workers -> SUBSET Tasks] /\ pc' \in [Workers -> PC] /\ Busy'
        BY <2>11, <4>1 DEF Settle
      <4> QED BY <2>11, <3>1, <4>1, <4>2 DEF Settle, RemoveCheckpoint
    <3>3. CASE completedSince + 1 # CheckpointEvery
      <4>1. Free(w)
        BY <2>11, <3>3 DEF Settle
      <4> QED BY <2>11, <3>1, <4>1 DEF Settle, RemoveCheckpoint, Free
    <3> QED BY <3>2, <3>3
  <2>12. CASE SnapshotRow(w) BY <2>12 DEF SnapshotRow
  <2>13. CASE SnapshotDone(w) BY <2>13 DEF SnapshotDone, Free
  <2>14. CASE SaveRaises(w) BY <2>14 DEF SaveRaises, Free
  <2>15. CASE LockExpires(w) BY <2>15 DEF LockExpires, Free
  <2> QED BY <1>6, <2>1, <2>2, <2>3, <2>4, <2>5, <2>6, <2>7, <2>8, <2>9, <2>10,
             <2>11, <2>12, <2>13, <2>14, <2>15 DEF RunTask
<1>7. ASSUME NEW a \in Attempt, Inference(a) PROVE TypeInv'
  <2>1. CASE InferenceFails(a) BY <2>1 DEF InferenceFails
  <2>2. CASE InferenceWrites(a) BY <2>2 DEF InferenceWrites
  <2>3. CASE InferenceCommits(a) BY <2>3 DEF InferenceCommits
  <2> QED BY <1>7, <2>1, <2>2, <2>3 DEF Inference
<1>8. CASE Crash
  BY <1>8 DEF Crash
<1>9. CASE Startup
  <2>1. CASE Resume BY <2>1 DEF Resume
  <2>2. CASE CleanCheckpoint BY <2>2 DEF CleanCheckpoint, RemoveCheckpoint, StaleOnDisk
  <2>3. CASE CleanDone BY <2>3 DEF CleanDone
  <2>4. ASSUME NEW t \in Tasks, Restore(t) PROVE TypeInv'
    BY <2>4 DEF Restore, Enqueue
  <2>5. ASSUME NEW t \in Tasks, RestoreRaises(t) PROVE TypeInv'
    BY <2>5 DEF RestoreRaises, EnqueueRaises
  <2> QED BY <1>9, <2>1, <2>2, <2>3, <2>4, <2>5 DEF Startup
<1>10. CASE UNCHANGED vars
  BY <1>10 DEF vars
<1> QED
  BY <1>1, <1>2, <1>3, <1>4, <1>5, <1>6, <1>7, <1>8, <1>9, <1>10 DEF Next, Request

(* Every reachable state has the types of the schema and of the code.      *)
THEOREM TypeCorrect == Spec => []TypeOK
<1>1. Init => TypeInv
  BY InitTypeInv
<1>2. TypeInv /\ [Next]_vars => TypeInv'
  BY NextTypeInv
<1>3. TypeInv => TypeOK
  BY DEF TypeInv
<1> QED BY <1>1, <1>2, <1>3, PTL DEF Spec
-----------------------------------------------------------------------------
(* The inductive invariant behind the safety properties.                   *)

(* Nothing of the previous process is left before the startup hook ends.   *)
Quiet ==
    /\ queue = <<>> /\ pool = <<>> /\ workerLoop = "unstarted"
    /\ \A w \in Workers : pc[w] = "free"
    /\ \A t \in Tasks : handler[t] = "none"
    /\ \A a \in Attempt : inf[a] \notin Live

PhaseInv ==
    /\ phase # "up" => Quiet
    /\ phase = "down" => restoring = {}
    /\ restoring # {} => \A t \in Tasks : handler[t] = "none"

(* Only a live worker loop feeds the pool.                                 *)
LoopInv ==
    workerLoop # "running" => pool = <<>> /\ \A w \in Workers : pc[w] = "free"

SlotInv ==
    \A w \in Workers :
        /\ pc[w] = "free" <=> job[w] = None
        /\ pc[w] \in {"wait", "complete"} =>
               att[w] \in Attempt /\ att[w][1] = job[w]
        /\ pc[w] = "complete" => inf[att[w]] = "done"

(* The status of a row whose id is still on its way through the pipeline.  *)
StatusInv ==
    /\ \A t \in Entering \cup In(pool) : status[t] \in {"pending", "deleted"}
    /\ workerLoop # "dead" =>
           \A t \in In(queue) : status[t] \in {"pending", "deleted"}
    /\ \A w \in Workers :
           /\ pc[w] = "mark" => status[job[w]] \in Unfinished \cup {"deleted"}
           /\ pc[w] \in {"save", "wait", "retry", "complete", "fail"} =>
                  status[job[w]] \in {"processing", "deleted"}
    /\ \A t \in Tasks : handler[t] = "markFailed" =>
           workerLoop = "dead" /\ status[t] \in {"pending", "deleted"}

(* An id that was never submitted has left no trace anywhere.              *)
FreshInv ==
    \A t \in Tasks : status[t] = "absent" =>
        /\ t \notin Entering \cup In(queue) \cup In(pool) \cup Jobs
        /\ handler[t] = "none"
        /\ result[t] = None
        /\ \A a \in Attempt : a[1] = t => inf[a] = "unused"

(* Whose task a live inference thread may work on: one its own pool thread *)
(* waits for, or one that is failing or no longer in the pipeline.         *)
OwnerInv ==
    \A a \in Attempt : inf[a] \in Live =>
        /\ a[1] \notin Entering \cup In(queue) \cup In(pool)
        /\ \A w \in Workers : job[w] = a[1] =>
               \/ pc[w] = "wait" /\ att[w] = a
               \/ pc[w] \in {"fail", "discard"}

(* Results belong to their task and are backed by an asset row.            *)
ResultInv ==
    /\ \A t \in Tasks : result[t] # None =>
           status[t] = "completed" /\ result[t][1] = t
    /\ \A t \in Tasks : status[t] = "completed" => result[t] \in assets
    /\ \A w \in Workers :
           /\ pc[w] \in {"wait", "complete"}
           /\ inf[att[w]] = "done"
           /\ status[job[w]] \in Stored
           => att[w] \in assets

IInv ==
    /\ TypeInv /\ PhaseInv /\ LoopInv /\ SlotInv /\ ScheduledOnce
    /\ StatusInv /\ FreshInv /\ OwnerInv /\ AttemptsDoNotOverlap /\ ResultInv
-----------------------------------------------------------------------------
(* Sequences as FIFO queues without repetition.                            *)

LEMMA AppendFresh ==
  ASSUME NEW S, NEW q \in Seq(S), NEW e \in S
  PROVE  /\ In(Append(q, e)) = In(q) \cup {e}
         /\ Distinct(q) /\ e \notin In(q) => Distinct(Append(q, e))
<1>1. /\ Len(Append(q, e)) = Len(q) + 1
      /\ DOMAIN Append(q, e) = 1 .. (Len(q) + 1)
      /\ DOMAIN q = 1 .. Len(q)
      /\ \A i \in 1 .. Len(q) : Append(q, e)[i] = q[i]
      /\ Append(q, e)[Len(q) + 1] = e
  OBVIOUS
<1>2. In(Append(q, e)) = In(q) \cup {e}
  BY <1>1 DEF In
<1>3. ASSUME Distinct(q), e \notin In(q) PROVE Distinct(Append(q, e))
  BY <1>1, <1>3 DEF In, Distinct
<1> QED BY <1>2, <1>3

LEMMA TailRest ==
  ASSUME NEW S, NEW q \in Seq(S), q # <<>>
  PROVE  /\ Head(q) \in S /\ Tail(q) \in Seq(S)
         /\ In(q) = {Head(q)} \cup In(Tail(q))
         /\ Distinct(q) => Distinct(Tail(q)) /\ Head(q) \notin In(Tail(q))
<1>1. /\ Len(q) \in Nat /\ Len(q) > 0
      /\ DOMAIN q = 1 .. Len(q)
      /\ Head(q) = q[1] /\ Head(q) \in S /\ Tail(q) \in Seq(S)
      /\ DOMAIN Tail(q) = 1 .. (Len(q) - 1)
      /\ \A i \in 1 .. (Len(q) - 1) : Tail(q)[i] = q[i + 1]
  OBVIOUS
<1>2. In(q) = {Head(q)} \cup In(Tail(q))
  <2>1. ASSUME NEW i \in DOMAIN q PROVE q[i] \in {Head(q)} \cup In(Tail(q))
    <3>1. CASE i = 1
      BY <1>1, <3>1
    <3>2. CASE i # 1
      <4>1. i - 1 \in DOMAIN Tail(q) /\ Tail(q)[i - 1] = q[i]
        BY <1>1, <3>2
      <4> QED BY <4>1 DEF In
    <3> QED BY <3>1, <3>2
  <2>2. ASSUME NEW i \in DOMAIN Tail(q) PROVE Tail(q)[i] \in In(q)
    BY <1>1 DEF In
  <2> QED BY <1>1, <2>1, <2>2 DEF In
<1>3. ASSUME Distinct(q) PROVE Distinct(Tail(q)) /\ Head(q) \notin In(Tail(q))
  BY <1>1, <1>3 DEF In, Distinct
<1> QED BY <1>1, <1>2, <1>3

(* Elements of the empty queue, and of a queue of tasks.                   *)
LEMMA InEmpty == In(<<>>) = {} /\ Distinct(<<>>)
  BY DEF In, Distinct

LEMMA InTasks == ASSUME NEW S, NEW q \in Seq(S) PROVE In(q) \subseteq S
  BY DEF In
-----------------------------------------------------------------------------
(* Steps shared by several actions.                                        *)

LEMMA InitIInv == Init => IInv
<1> SUFFICES ASSUME Init PROVE IInv
  OBVIOUS
<1>1. TypeInv
  BY InitTypeInv
<1>2. In(queue) = {} /\ In(pool) = {} /\ Distinct(queue) /\ Distinct(pool)
  BY InEmpty DEF Init
<1>3. Entering = {} /\ Jobs = {}
  BY DEF Init, Entering, Jobs
<1> QED
  BY <1>1, <1>2, <1>3, ConstantsAssumption
  DEF Init, IInv, PhaseInv, Quiet, LoopInv, SlotInv, ScheduledOnce, StatusInv,
      FreshInv, OwnerInv, AttemptsDoNotOverlap, ResultInv, Live

(* A pool thread that returns, whatever it was doing, harms nothing.       *)
LEMMA FreeKeeps ==
  ASSUME IInv, TypeInv', NEW w \in Workers, Free(w),
         UNCHANGED <<dbVars, startVars, handler, queueVars, inf>>
  PROVE  IInv'
<1> USE DEF IInv, TypeInv, TypeOK, dbVars, queueVars, startVars
<1>1. /\ \A v \in Workers \ {w} : pc'[v] = pc[v] /\ job'[v] = job[v] /\ att'[v] = att[v]
      /\ pc'[w] = "free" /\ job'[w] = None
  BY DEF Free
<1>2. Jobs' \subseteq Jobs
  BY <1>1 DEF Jobs
<1>3. Entering' = Entering /\ In(queue') = In(queue) /\ In(pool') = In(pool)
  BY DEF Entering
<1>4. PhaseInv' /\ LoopInv'
  BY <1>1 DEF PhaseInv, LoopInv, Quiet
<1>5. SlotInv'
  <2>1. inf' = inf
    OBVIOUS
  <2>2. SUFFICES ASSUME NEW v \in Workers
        PROVE /\ pc'[v] = "free" <=> job'[v] = None
              /\ pc'[v] \in {"wait", "complete"} =>
                     att'[v] \in Attempt /\ att'[v][1] = job'[v]
              /\ pc'[v] = "complete" => inf[att'[v]] = "done"
    BY <2>1 DEF SlotInv
  <2>3. CASE v = w
    BY <1>1, <2>3
  <2>4. CASE v # w
    BY <1>1, <2>4 DEF SlotInv
  <2> QED BY <2>3, <2>4
<1>6. ScheduledOnce'
  BY <1>1, <1>2, <1>3 DEF ScheduledOnce
<1>7. StatusInv'
  BY <1>1, <1>3 DEF StatusInv
<1>8. FreshInv'
  BY <1>2, <1>3 DEF FreshInv
<1>9. OwnerInv'
  <2>1. \A a \in Attempt : a[1] # None
    BY ConstantsAssumption DEF Attempt
  <2>2. OwnerInv /\ inf' = inf
    OBVIOUS
  <2> HIDE DEF IInv, TypeInv, TypeOK
  <2> QED BY <1>1, <1>3, <2>1, <2>2 DEF OwnerInv
<1>10. AttemptsDoNotOverlap' /\ ResultInv'
  BY <1>1 DEF AttemptsDoNotOverlap, ResultInv
<1> QED
  BY <1>4, <1>5, <1>6, <1>7, <1>8, <1>9, <1>10

(* Deleting rows under the feet of the pipeline harms nothing either.      *)
LEMMA DeleteKeeps ==
  ASSUME IInv, TypeInv', NEW S \in SUBSET Shots, DeleteRows(S),
         assets' = assets \/ S = Shots,
         UNCHANGED <<startVars, handler, queueVars, threadVars, inf>>
  PROVE  IInv'
<1> USE DEF IInv, TypeInv, TypeOK, queueVars, startVars, threadVars
<1>1. \A t \in Tasks :
        /\ status'[t] = "deleted" \/ (status'[t] = status[t] /\ ShotOf[t] \notin S)
           \/ (status'[t] = "absent" /\ status[t] = "absent")
        /\ status'[t] = "absent" <=> status[t] = "absent"
        /\ result'[t] = None \/ (result'[t] = result[t] /\ ShotOf[t] \notin S)
        /\ ShotOf[t] \in Shots
  BY ConstantsAssumption DEF DeleteRows
<1>2. \A t \in Tasks : status'[t] = status[t] \/ status'[t] = "deleted"
  BY <1>1
<1>3. /\ Entering' = Entering /\ Jobs' = Jobs
      /\ In(queue') = In(queue) /\ In(pool') = In(pool)
      /\ Entering \subseteq Tasks /\ In(queue) \subseteq Tasks /\ In(pool) \subseteq Tasks
  BY InTasks DEF Entering, Jobs
<1>4. PhaseInv' /\ LoopInv' /\ SlotInv' /\ ScheduledOnce'
  BY <1>3 DEF PhaseInv, LoopInv, Quiet, SlotInv, ScheduledOnce
<1>5. StatusInv'
  <2>1. \A w \in Workers : pc[w] # "free" => job[w] \in Tasks
    BY DEF Busy
  <2> QED BY <1>2, <1>3, <2>1 DEF StatusInv
<1>6. FreshInv'
  BY <1>1, <1>3 DEF FreshInv
<1>7. OwnerInv' /\ AttemptsDoNotOverlap'
  BY <1>3 DEF OwnerInv, AttemptsDoNotOverlap
<1>8. ResultInv'
  <2>1. \A t \in Tasks : result'[t] # None =>
           result'[t] = result[t] /\ status'[t] = status[t]
    <3> SUFFICES ASSUME NEW t \in Tasks, result'[t] # None
                 PROVE  result'[t] = result[t] /\ status'[t] = status[t]
      OBVIOUS
    <3>1. result'[t] = result[t] /\ ShotOf[t] \notin S
      BY <1>1
    <3> QED BY <3>1, ConstantsAssumption DEF DeleteRows
  <2>2. \A t \in Tasks : status'[t] \in Stored => status[t] = status'[t] /\ assets' = assets
    BY <1>1 DEF Stored, Unfinished, Terminal
  <2>3. \A t \in Tasks : status'[t] = "completed" => result'[t] = result[t]
    BY ConstantsAssumption DEF DeleteRows
  <2>4. \A w \in Workers : pc[w] \in {"wait", "complete"} => job[w] \in Tasks
    BY DEF Busy
  <2> QED BY <2>1, <2>2, <2>3, <2>4 DEF ResultInv, Stored, Unfinished, Terminal
<1> QED
  BY <1>4, <1>5, <1>6, <1>7, <1>8

(* A submission commits a row that nothing has ever seen.                  *)
LEMMA SubmitKeeps ==
  ASSUME IInv, TypeInv', NEW t \in Tasks, Submit(t)
  PROVE  IInv'
<1> USE DEF IInv, TypeInv, TypeOK, queueVars, startVars, threadVars
<1>1. /\ Entering' = Entering \cup {t} /\ Jobs' = Jobs
      /\ In(queue') = In(queue) /\ In(pool') = In(pool)
  BY DEF Submit, Entering, Jobs
<1>2. /\ t \notin Entering \cup In(queue) \cup In(pool) \cup Jobs
      /\ \A a \in Attempt : a[1] = t => inf[a] = "unused"
  BY DEF Submit, FreshInv
<1>3. /\ status'[t] = "pending" /\ handler'[t] = "enqueue"
      /\ \A u \in Tasks \ {t} : status'[u] = status[u] /\ handler'[u] = handler[u]
      /\ UNCHANGED <<result, assets, inf, phase, restoring, queue, workerLoop, pool>>
      /\ UNCHANGED <<pc, job, att>>
      /\ phase = "up" /\ restoring = {}
  BY DEF Submit, Serving
<1>4. \A w \in Workers : pc[w] # "free" => job[w] \in Jobs /\ job[w] # t
  BY <1>2, ConstantsAssumption DEF Busy, Jobs
<1>5. PhaseInv' /\ LoopInv' /\ SlotInv'
  BY <1>3 DEF PhaseInv, LoopInv, SlotInv
<1>6. ScheduledOnce'
  BY <1>1, <1>2, <1>3 DEF ScheduledOnce
<1>7. StatusInv'
  BY <1>1, <1>2, <1>3, <1>4, InTasks DEF StatusInv, Busy, Entering
<1>8. FreshInv'
  BY <1>1, <1>2, <1>3 DEF FreshInv
<1>9. OwnerInv' /\ AttemptsDoNotOverlap'
  BY <1>1, <1>2, <1>3 DEF OwnerInv, AttemptsDoNotOverlap, Live
<1>10. ResultInv'
  BY <1>2, <1>3, <1>4 DEF ResultInv, FreshInv, Submit
<1> QED
  BY <1>5, <1>6, <1>7, <1>8, <1>9, <1>10

(* enqueue() moves an id from its handler, or from the resumed ids, to the *)
(* queue.                                                                  *)
LEMMA EnqueueKeeps ==
  ASSUME IInv, TypeInv', NEW t \in Entering, Enqueue(t),
         Entering' = Entering \ {t},
         \A u \in Tasks : handler'[u] \in {handler[u], "none"},
         restoring' \subseteq restoring, phase = "up",
         UNCHANGED <<dbVars, phase, threadVars, inf>>
  PROVE  IInv'
<1> USE DEF IInv, TypeInv, TypeOK, dbVars, files, threadVars
<1>1. t \in Tasks
  BY DEF Entering
<1>2. In(queue') = In(queue) \cup {t} /\ Distinct(queue')
  BY <1>1, AppendFresh DEF Enqueue, ScheduledOnce
<1>3. /\ In(pool') = In(pool) /\ pool' = pool /\ Jobs' = Jobs
      /\ workerLoop' # "unstarted" /\ (workerLoop # "unstarted" => workerLoop' = workerLoop)
      /\ (workerLoop = "unstarted" => workerLoop' = "running")
  BY DEF Enqueue, Jobs
<1>4. PhaseInv' /\ LoopInv' /\ SlotInv'
  BY <1>3 DEF PhaseInv, LoopInv, SlotInv
<1>5. ScheduledOnce'
  BY <1>2, <1>3 DEF ScheduledOnce
<1>6. StatusInv'
  BY <1>2, <1>3 DEF StatusInv
<1>7. FreshInv'
  BY <1>2, <1>3 DEF FreshInv
<1>8. OwnerInv' /\ AttemptsDoNotOverlap' /\ ResultInv'
  BY <1>2, <1>3 DEF OwnerInv, AttemptsDoNotOverlap, ResultInv
<1> QED
  BY <1>4, <1>5, <1>6, <1>7, <1>8

(* When the first enqueue() finds no thread, nothing is ever dispatched.   *)
LEMMA EnqueueRaisesKeeps ==
  ASSUME IInv, TypeInv', NEW t \in Entering, EnqueueRaises(t),
         Entering' \subseteq Entering \ {t},
         \A u \in Tasks : handler'[u] \in {handler[u], "none"}
                          \/ (u = t /\ handler'[u] = "markFailed" /\ restoring = {}),
         restoring' \subseteq restoring, phase = "up",
         UNCHANGED <<dbVars, phase, threadVars, inf>>
  PROVE  IInv'
<1> USE DEF IInv, TypeInv, TypeOK, dbVars, files, threadVars
<1>1. t \in Tasks
  BY DEF Entering
<1>2. In(queue') = In(queue) \cup {t} /\ Distinct(queue')
  BY <1>1, AppendFresh DEF EnqueueRaises, ScheduledOnce
<1>3. /\ In(pool') = In(pool) /\ pool' = pool /\ Jobs' = Jobs
      /\ workerLoop = "unstarted" /\ workerLoop' = "dead"
  BY DEF EnqueueRaises, Jobs
<1>4. PhaseInv' /\ LoopInv' /\ SlotInv'
  BY <1>3 DEF PhaseInv, LoopInv, SlotInv
<1>5. ScheduledOnce'
  BY <1>2, <1>3 DEF ScheduledOnce
<1>6. StatusInv'
  BY <1>2, <1>3 DEF StatusInv
<1>7. FreshInv'
  BY <1>2, <1>3 DEF FreshInv
<1>8. OwnerInv' /\ AttemptsDoNotOverlap' /\ ResultInv'
  BY <1>2, <1>3 DEF OwnerInv, AttemptsDoNotOverlap, ResultInv
<1> QED
  BY <1>4, <1>5, <1>6, <1>7, <1>8

(* The handler that could not enqueue writes a row nobody else will touch. *)
LEMMA MarkFailedKeeps ==
  ASSUME IInv, TypeInv', NEW t \in Tasks, SubmitMarkFailed(t)
  PROVE  IInv'
<1> USE DEF IInv, TypeInv, TypeOK, queueVars, startVars, threadVars
<1>1. /\ workerLoop = "dead" /\ pool = <<>> /\ In(pool) = {}
      /\ \A w \in Workers : pc[w] = "free"
      /\ status[t] \in {"pending", "deleted"} /\ restoring = {} /\ t \notin Entering
  BY InEmpty DEF SubmitMarkFailed, StatusInv, LoopInv, PhaseInv, Entering
<1>2. /\ status'[t] \in {"failed", "deleted"} /\ handler'[t] = "none"
      /\ \A u \in Tasks \ {t} : status'[u] = status[u] /\ handler'[u] = handler[u]
      /\ UNCHANGED <<result, assets, inf, phase, restoring, queue, workerLoop, pool>>
      /\ UNCHANGED <<pc, job, att>>
  BY <1>1 DEF SubmitMarkFailed, WriteTask, Stored, Unfinished, Terminal
<1>3. /\ Entering' = Entering /\ Jobs' = Jobs /\ Entering \subseteq Tasks
      /\ In(queue') = In(queue) /\ In(pool') = In(pool)
  BY <1>1, <1>2 DEF Entering, Jobs
<1>4. PhaseInv' /\ LoopInv' /\ SlotInv' /\ ScheduledOnce'
  BY <1>1, <1>2, <1>3 DEF PhaseInv, LoopInv, SlotInv, ScheduledOnce, Quiet
<1>5. StatusInv'
  BY <1>1, <1>2, <1>3 DEF StatusInv
<1>6. FreshInv'
  BY <1>1, <1>2, <1>3 DEF FreshInv
<1>7. OwnerInv' /\ AttemptsDoNotOverlap' /\ ResultInv'
  BY <1>1, <1>2, <1>3 DEF OwnerInv, AttemptsDoNotOverlap, ResultInv
<1> QED
  BY <1>4, <1>5, <1>6, <1>7

(* The worker loop moves the head of the queue to the executor.            *)
LEMMA DispatchKeeps ==
  ASSUME IInv, TypeInv', Dispatch
  PROVE  IInv'
<1> USE DEF IInv, TypeInv, TypeOK, dbVars, files, threadVars, startVars
<1>1. /\ queue # <<>> /\ queue' = Tail(queue) /\ pool' = Append(pool, Head(queue))
      /\ workerLoop = "running" /\ UNCHANGED <<workerLoop, pc, job, att, inf>>
      /\ UNCHANGED <<status, result, assets, handler, phase, restoring>>
  BY DEF Dispatch
<1>2. /\ Head(queue) \in Tasks /\ In(queue) = {Head(queue)} \cup In(queue')
      /\ Distinct(queue') /\ Head(queue) \notin In(queue')
  BY <1>1, TailRest DEF ScheduledOnce
<1>3. In(pool') = In(pool) \cup {Head(queue)} /\ Distinct(pool')
  BY <1>1, <1>2, AppendFresh DEF ScheduledOnce
<1>4. Entering' = Entering /\ Jobs' = Jobs
  BY <1>1 DEF Entering, Jobs
<1>5. PhaseInv' /\ LoopInv' /\ SlotInv'
  BY <1>1 DEF PhaseInv, LoopInv, SlotInv, Quiet
<1>6. ScheduledOnce'
  BY <1>1, <1>2, <1>3, <1>4 DEF ScheduledOnce
<1>7. StatusInv' /\ FreshInv'
  BY <1>1, <1>2, <1>3, <1>4 DEF StatusInv, FreshInv
<1>8. OwnerInv' /\ AttemptsDoNotOverlap' /\ ResultInv'
  BY <1>1, <1>2, <1>3, <1>4 DEF OwnerInv, AttemptsDoNotOverlap, ResultInv
<1> QED
  BY <1>5, <1>6, <1>7, <1>8

(* A pool thread takes the head of the executor's queue, or drops it when  *)
(* its row is gone.                                                        *)
LEMMA TakeKeeps ==
  ASSUME IInv, TypeInv', NEW w \in Workers, TakeTask(w)
  PROVE  IInv'
<1> USE DEF IInv, TypeInv, TypeOK, dbVars, files, startVars
<1> DEFINE h == Head(pool)
<1>1. /\ pool # <<>> /\ pool' = Tail(pool) /\ pc[w] = "free"
      /\ UNCHANGED <<queue, workerLoop, att, inf, status, result, assets, handler>>
      /\ UNCHANGED <<phase, restoring>>
  BY DEF TakeTask
<1>2. /\ h \in Tasks /\ In(pool) = {h} \cup In(pool')
      /\ Distinct(pool') /\ h \notin In(pool')
  BY <1>1, TailRest DEF ScheduledOnce
<1>3. Entering' = Entering /\ In(queue') = In(queue)
  BY <1>1 DEF Entering
<1>4. phase = "up" /\ workerLoop = "running"
  BY <1>1 DEF PhaseInv, LoopInv, Quiet
<1>5. CASE status[h] \in Stored
  <2>1. \A v \in Workers : IF v = w THEN job'[v] = h /\ pc'[v] = "mark"
                           ELSE job'[v] = job[v] /\ pc'[v] = pc[v]
    BY <1>5 DEF TakeTask
  <2>2. h \in In(pool) /\ h \notin Jobs /\ status[h] = "pending"
    BY <1>2, <1>5 DEF ScheduledOnce, StatusInv, Stored, Unfinished, Terminal
  <2>3. Jobs' = Jobs \cup {h}
    <3>1. job[w] = None /\ h # None
      BY <1>1, <1>2, ConstantsAssumption DEF SlotInv
    <3> QED BY <2>1, <3>1 DEF Jobs
  <2>4. \A v \in Workers : job[v] # h
    BY <1>2, <2>2, ConstantsAssumption DEF Jobs
  <2>5. PhaseInv' /\ LoopInv'
    BY <1>1, <1>4 DEF PhaseInv, LoopInv
  <2>6. SlotInv'
    BY <1>1, <1>2, <2>1, ConstantsAssumption DEF SlotInv
  <2>7. ScheduledOnce'
    <3>1. \A u, v \in Workers : job'[u] = job'[v] /\ job'[u] # None => u = v
      BY <2>1, <2>4 DEF ScheduledOnce
    <3> QED BY <1>1, <1>2, <1>3, <2>3, <3>1 DEF ScheduledOnce
  <2>8. StatusInv'
    BY <1>1, <1>2, <1>3, <2>1, <2>2 DEF StatusInv, Unfinished
  <2>9. FreshInv'
    BY <1>1, <1>2, <1>3, <2>2, <2>3 DEF FreshInv
  <2>10. OwnerInv' /\ AttemptsDoNotOverlap'
    BY <1>1, <1>2, <1>3, <2>1 DEF OwnerInv, AttemptsDoNotOverlap
  <2>11. ResultInv'
    BY <1>1, <2>1 DEF ResultInv
  <2> QED BY <2>5, <2>6, <2>7, <2>8, <2>9, <2>10, <2>11
<1>6. CASE status[h] \notin Stored
  <2>1. pc' = pc /\ job' = job /\ Jobs' = Jobs
    BY <1>6 DEF TakeTask, Jobs
  <2>2. PhaseInv' /\ LoopInv' /\ SlotInv' /\ ScheduledOnce'
    BY <1>1, <1>2, <1>3, <1>4, <2>1 DEF PhaseInv, LoopInv, SlotInv, ScheduledOnce
  <2>3. StatusInv' /\ FreshInv'
    BY <1>1, <1>2, <1>3, <2>1 DEF StatusInv, FreshInv
  <2>4. OwnerInv' /\ AttemptsDoNotOverlap' /\ ResultInv'
    BY <1>1, <1>2, <1>3, <2>1 DEF OwnerInv, AttemptsDoNotOverlap, ResultInv
  <2> QED BY <2>2, <2>3, <2>4
<1> QED BY <1>5, <1>6

(* A new inference thread starts only for a task none is alive for.        *)
LEMMA LaunchKeeps ==
  ASSUME IInv, TypeInv', NEW w \in Workers, SaveAndLaunch(w)
  PROVE  IInv'
<1> USE DEF IInv, TypeInv, TypeOK, dbVars, files, startVars, queueVars
<1>1. /\ pc[w] = "save"
      /\ UNCHANGED <<queue, workerLoop, pool, job, status, result, assets, handler>>
      /\ UNCHANGED <<phase, restoring>>
  BY DEF SaveAndLaunch
<1>2. job[w] \in Tasks /\ job[w] \in Jobs
  BY <1>1, ConstantsAssumption DEF Busy, Jobs
<1>3. PICK n \in 1 .. MaxAttempts :
        /\ inf[<<job[w], n>>] = "unused"
        /\ inf' = [inf EXCEPT ![<<job[w], n>>] =
                     IF status[job[w]] \in Stored THEN "running" ELSE "ended"]
        /\ att' = [att EXCEPT ![w] = <<job[w], n>>]
        /\ pc' = [pc EXCEPT ![w] = "wait"]
  BY DEF SaveAndLaunch, Launch
<1> DEFINE a == <<job[w], n>>
<1>4. /\ a \in Attempt /\ a[1] = job[w]
      /\ inf'[a] \in {"running", "ended"} /\ inf[a] = "unused"
      /\ \A b \in Attempt \ {a} : inf'[b] = inf[b]
  BY <1>2, <1>3 DEF Attempt
<1>5. \A v \in Workers : IF v = w THEN pc'[v] = "wait" /\ att'[v] = a
                         ELSE pc'[v] = pc[v] /\ att'[v] = att[v]
  BY <1>3
<1>6. \A b \in Attempt : inf[b] \in Live => b[1] # job[w]
  BY <1>1 DEF OwnerInv
<1>7. Entering' = Entering /\ Jobs' = Jobs
  BY <1>1 DEF Entering, Jobs
<1>8. PhaseInv' /\ LoopInv' /\ ScheduledOnce'
  BY <1>1, <1>7 DEF PhaseInv, LoopInv, Quiet, ScheduledOnce
<1>9. SlotInv'
  <2>1. SUFFICES ASSUME NEW v \in Workers
        PROVE /\ pc'[v] = "free" <=> job[v] = None
              /\ pc'[v] \in {"wait", "complete"} =>
                     att'[v] \in Attempt /\ att'[v][1] = job[v]
              /\ pc'[v] = "complete" => inf'[att'[v]] = "done"
    BY <1>1 DEF SlotInv
  <2>2. CASE v = w
    BY <1>2, <1>4, <1>5, <2>2, ConstantsAssumption
  <2>3. CASE v # w
    <3>1. pc'[v] = pc[v] /\ att'[v] = att[v]
      BY <1>5, <2>3
    <3>2. pc[v] = "complete" => att[v] \in Attempt /\ inf[att[v]] = "done"
      BY DEF SlotInv
    <3>3. pc[v] = "complete" => inf'[att[v]] = "done"
      BY <3>2, <1>4
    <3> QED BY <3>1, <3>3 DEF SlotInv
  <2> QED BY <2>2, <2>3
<1>10. StatusInv'
  BY <1>1, <1>5, <1>7 DEF StatusInv
<1>11. FreshInv'
  BY <1>1, <1>2, <1>4, <1>7 DEF FreshInv
<1>12. OwnerInv'
  <2>1. SUFFICES ASSUME NEW b \in Attempt, inf'[b] \in Live
        PROVE /\ b[1] \notin Entering \cup In(queue) \cup In(pool)
              /\ \A v \in Workers : job[v] = b[1] =>
                     \/ pc'[v] = "wait" /\ att'[v] = b
                     \/ pc'[v] \in {"fail", "discard"}
    BY <1>1, <1>7 DEF OwnerInv
  <2>2. CASE b = a
    BY <1>2, <1>4, <1>5, <2>2, ConstantsAssumption DEF ScheduledOnce
  <2>3. CASE b # a
    <3>1. inf[b] \in Live /\ b[1] # job[w]
      BY <1>4, <1>6, <2>1, <2>3
    <3> QED BY <1>5, <3>1 DEF OwnerInv
  <2> QED BY <2>2, <2>3
<1>13. AttemptsDoNotOverlap'
  BY <1>4, <1>6 DEF AttemptsDoNotOverlap
<1>14. ResultInv'
  <2>1. SUFFICES ASSUME NEW v \in Workers, pc'[v] \in {"wait", "complete"},
                        inf'[att'[v]] = "done", status[job[v]] \in Stored
        PROVE att'[v] \in assets
    BY <1>1 DEF ResultInv
  <2>2. v # w
    BY <1>4, <1>5, <2>1
  <2>3. pc'[v] = pc[v] /\ att'[v] = att[v] /\ att[v] \in Attempt /\ att[v] # a
    BY <1>4, <1>5, <2>1, <2>2 DEF SlotInv
  <2> QED BY <1>4, <2>1, <2>3 DEF ResultInv
<1> QED
  BY <1>8, <1>9, <1>10, <1>11, <1>12, <1>13, <1>14

(* A finished task moves its thread on, to a snapshot or out.              *)
LEMMA SettleKeeps ==
  ASSUME IInv, TypeInv', NEW w \in Workers, Settle(w)
  PROVE  IInv'
<1> USE DEF IInv, TypeInv, TypeOK
<1>1. CASE completedSince + 1 # CheckpointEvery
  BY <1>1, FreeKeeps DEF Settle
<1>2. CASE completedSince + 1 = CheckpointEvery
  <2>1. /\ pc' = [pc EXCEPT ![w] = "snapshot"] /\ pc[w] = "settle"
        /\ UNCHANGED <<job, att, queue, workerLoop, pool, inf, status, result, assets>>
        /\ UNCHANGED <<handler, phase, restoring>>
    BY <1>2 DEF Settle, dbVars, files, startVars, queueVars
  <2>2. Entering' = Entering /\ Jobs' = Jobs
    BY <2>1 DEF Entering, Jobs
  <2>3. PhaseInv' /\ LoopInv' /\ SlotInv' /\ ScheduledOnce'
    BY <2>1, <2>2 DEF PhaseInv, LoopInv, Quiet, SlotInv, ScheduledOnce
  <2>4. StatusInv' /\ FreshInv'
    BY <2>1, <2>2 DEF StatusInv, FreshInv
  <2>5. OwnerInv' /\ AttemptsDoNotOverlap' /\ ResultInv'
    BY <2>1, <2>2 DEF OwnerInv, AttemptsDoNotOverlap, ResultInv
  <2> QED BY <2>3, <2>4, <2>5
<1> QED BY <1>1, <1>2
-----------------------------------------------------------------------------
(* The step lemma: one case per action of the model.                       *)

LEMMA ThreadKeeps ==
  ASSUME IInv, TypeInv', NEW w \in Workers, RunTask(w)
  PROVE  IInv'
<1>1. CASE TakeTask(w)
  BY <1>1, TakeKeeps
<1>2. CASE SaveAndLaunch(w)
  BY <1>2, LaunchKeeps
<1>3. CASE Settle(w)
  BY <1>3, SettleKeeps
<1>4. CASE Discard(w)
  BY <1>4, FreeKeeps DEF Discard
<1>5. CASE SnapshotDone(w)
  BY <1>5, FreeKeeps DEF SnapshotDone
<1>6. CASE SaveRaises(w)
  BY <1>6, FreeKeeps DEF SaveRaises
<1>7. CASE LockExpires(w)
  BY <1>7, FreeKeeps DEF LockExpires
<1>8. CASE MarkProcessing(w)
  <2> USE DEF IInv, TypeInv, TypeOK
  <2>1. /\ pc[w] = "mark" /\ pc' = [pc EXCEPT ![w] = "save"]
        /\ UNCHANGED <<job, att, queue, workerLoop, pool, inf, result, assets>>
        /\ UNCHANGED <<handler, phase, restoring>>
    BY <1>8 DEF MarkProcessing, queueVars, startVars
  <2>2. job[w] \in Tasks /\ job[w] \in Jobs
    BY <2>1, ConstantsAssumption DEF Busy, Jobs
  <2>3. /\ status[job[w]] \in Unfinished \cup {"deleted"}
        /\ \A t \in Tasks \ {job[w]} : status'[t] = status[t]
        /\ status'[job[w]] \in {"processing", "deleted"}
        /\ status'[job[w]] = "deleted" => status[job[w]] = "deleted"
    BY <1>8, <2>1, <2>2
    DEF MarkProcessing, WriteTask, StatusInv, Stored, Unfinished, Terminal
  <2>4. Entering' = Entering /\ Jobs' = Jobs
    BY <2>1 DEF Entering, Jobs
  <2>5. PhaseInv' /\ LoopInv' /\ SlotInv' /\ ScheduledOnce'
    BY <2>1, <2>4 DEF PhaseInv, LoopInv, Quiet, SlotInv, ScheduledOnce
  <2>6. StatusInv'
    <3>1. job[w] \notin Entering \cup In(queue) \cup In(pool)
      BY <2>2 DEF ScheduledOnce
    <3>2. Entering \subseteq Tasks /\ In(queue) \subseteq Tasks /\ In(pool) \subseteq Tasks
      BY InTasks DEF Entering
    <3>3. \A v \in Workers \ {w} :
             pc'[v] = pc[v] /\ (pc[v] # "free" => job[v] \in Tasks /\ job[v] # job[w])
      BY <2>1, <2>2, ConstantsAssumption DEF ScheduledOnce, Busy
    <3>4. \A t \in Tasks : handler[t] = "markFailed" => t # job[w]
      BY <2>1, <2>2 DEF StatusInv, LoopInv
    <3> QED BY <2>1, <2>2, <2>3, <2>4, <3>1, <3>2, <3>3, <3>4 DEF StatusInv
  <2>7. FreshInv'
    BY <2>1, <2>2, <2>3, <2>4 DEF FreshInv
  <2>8. OwnerInv' /\ AttemptsDoNotOverlap'
    BY <2>1, <2>4 DEF OwnerInv, AttemptsDoNotOverlap
  <2>9. ResultInv'
    <3>1. \A v \in Workers : pc'[v] \in {"wait", "complete"} =>
             pc'[v] = pc[v] /\ job[v] \in Tasks /\ job[v] # job[w]
      BY <2>1, <2>2, ConstantsAssumption DEF ScheduledOnce, Busy
    <3>2. result[job[w]] = None
      BY <2>2, <2>3 DEF ResultInv, Unfinished
    <3> QED BY <2>1, <2>2, <2>3, <3>1, <3>2 DEF ResultInv
  <2> QED BY <2>5, <2>6, <2>7, <2>8, <2>9
<1> USE ConstantsAssumption
    DEF IInv, TypeInv, TypeOK, Busy, dbVars, files, rowVars, queueVars, threadVars, startVars,
        PhaseInv, Quiet, LoopInv, SlotInv, ScheduledOnce, StatusInv, FreshInv,
        OwnerInv, AttemptsDoNotOverlap, ResultInv, Entering, Jobs, Live, TaskStatus,
        Stored, Unfinished, Terminal, ShotStatus, ShotGone, InfState, PC
<1>9. CASE GotResult(w)
  BY <1>9 DEF GotResult
<1>10. CASE GotError(w)
  BY <1>10 DEF GotError
<1>11. CASE TimedOut(w)
  BY <1>11 DEF TimedOut
<1>12. CASE NoteRetry(w)
  BY <1>12 DEF NoteRetry
<1>13. CASE FailTask(w)
  BY <1>13 DEF FailTask, WriteTask, WriteShot
<1>14. CASE CompleteTask(w)
  BY <1>14 DEF CompleteTask, WriteTask, WriteShot
<1>15. CASE SnapshotRow(w)
  BY <1>15 DEF SnapshotRow
<1> QED
  BY <1>1, <1>2, <1>3, <1>4, <1>5, <1>6, <1>7, <1>8, <1>9, <1>10, <1>11, <1>12,
     <1>13, <1>14, <1>15 DEF RunTask

LEMMA StartupKeeps ==
  ASSUME IInv, TypeInv', Startup
  PROVE  IInv'
<1> USE DEF dbVars, files, rowVars, queueVars, threadVars, startVars
<1>1. ASSUME NEW t \in Tasks, Restore(t) PROVE IInv'
  <2>1. t \in Entering /\ Entering' = Entering \ {t}
    BY <1>1 DEF Restore, Entering, IInv, PhaseInv
  <2>2. /\ handler' = handler /\ restoring' \subseteq restoring /\ phase = "up"
        /\ Enqueue(t) /\ UNCHANGED <<dbVars, phase, threadVars, inf>>
    BY <1>1 DEF Restore
  <2> QED BY <2>1, <2>2, EnqueueKeeps
<1>2. ASSUME NEW t \in Tasks, RestoreRaises(t) PROVE IInv'
  <2>1. t \in Entering /\ Entering' \subseteq Entering \ {t}
    BY <1>2 DEF RestoreRaises, Entering, IInv, PhaseInv
  <2>2. /\ handler' = handler /\ restoring' \subseteq restoring /\ phase = "up"
        /\ EnqueueRaises(t) /\ UNCHANGED <<dbVars, phase, threadVars, inf>>
    BY <1>2 DEF RestoreRaises
  <2> QED BY <2>1, <2>2, EnqueueRaisesKeeps
<1> USE ConstantsAssumption
    DEF IInv, TypeInv, TypeOK, Busy, PhaseInv, Quiet, LoopInv, SlotInv, ScheduledOnce,
        StatusInv, FreshInv, OwnerInv, AttemptsDoNotOverlap, ResultInv, Entering,
        Jobs, Live, TaskStatus, Stored, Unfinished, Terminal, ShotStatus, InfState, PC
<1>3. CASE Resume
  <2>1. In(queue) = {} /\ In(pool) = {} /\ Distinct(queue) /\ Distinct(pool)
    BY <1>3, InEmpty DEF Resume
  <2> QED BY <1>3, <2>1 DEF Resume
<1>4. CASE CleanCheckpoint
  BY <1>4 DEF CleanCheckpoint
<1>5. CASE CleanDone
  BY <1>5 DEF CleanDone
<1> QED
  BY <1>1, <1>2, <1>3, <1>4, <1>5 DEF Startup

LEMMA ReturnKeeps ==
  ASSUME IInv, TypeInv', NEW t \in Tasks, SubmitReturns(t)
  PROVE  IInv'
<1> USE DEF IInv, TypeInv, TypeOK, dbVars, files, rowVars, queueVars, threadVars, startVars
<1>1. CASE SubmitEnqueue(t)
  <2>1. t \in Entering /\ Entering' = Entering \ {t} /\ phase = "up"
    BY <1>1 DEF SubmitEnqueue, Entering, PhaseInv, Quiet
  <2>2. /\ \A u \in Tasks : handler'[u] \in {handler[u], "none"}
        /\ Enqueue(t) /\ restoring' \subseteq restoring
        /\ UNCHANGED <<dbVars, phase, threadVars, inf>>
    BY <1>1 DEF SubmitEnqueue
  <2> QED BY <2>1, <2>2, EnqueueKeeps
<1>2. CASE SubmitEnqueueRaises(t)
  <2>1. t \in Entering /\ Entering' \subseteq Entering \ {t} /\ phase = "up"
        /\ restoring = {}
    BY <1>2 DEF SubmitEnqueueRaises, Entering, PhaseInv, Quiet
  <2>2. /\ \A u \in Tasks : handler'[u] \in {handler[u], "none"}
                            \/ (u = t /\ handler'[u] = "markFailed" /\ restoring = {})
        /\ EnqueueRaises(t) /\ restoring' \subseteq restoring
        /\ UNCHANGED <<dbVars, phase, threadVars, inf>>
    BY <1>2, <2>1 DEF SubmitEnqueueRaises
  <2> QED BY <2>1, <2>2, EnqueueRaisesKeeps
<1>3. CASE SubmitMarkFailed(t)
  BY <1>3, MarkFailedKeeps
<1> QED
  BY <1>1, <1>2, <1>3 DEF SubmitReturns

LEMMA NextIInv == IInv /\ [Next]_vars => IInv'
<1> SUFFICES ASSUME IInv, [Next]_vars PROVE IInv'
  OBVIOUS
<1>t. TypeInv'
  BY NextTypeInv DEF IInv
<1>1. ASSUME NEW S \in SUBSET Shots, DeleteShots(S) PROVE IInv'
  BY <1>t, <1>1, DeleteKeeps DEF DeleteShots, startVars, queueVars, threadVars
<1>2. CASE ClearAllProjects
  BY <1>t, <1>2, DeleteKeeps DEF ClearAllProjects, startVars, queueVars, threadVars
<1>3. ASSUME NEW t \in Tasks, Submit(t) PROVE IInv'
  BY <1>t, <1>3, SubmitKeeps
<1>4. ASSUME NEW t \in Tasks, SubmitReturns(t) PROVE IInv'
  BY <1>t, <1>4, ReturnKeeps
<1>5. CASE Dispatch
  BY <1>t, <1>5, DispatchKeeps
<1>6. ASSUME NEW w \in Workers, RunTask(w) PROVE IInv'
  BY <1>t, <1>6, ThreadKeeps
<1>7. CASE Startup
  BY <1>t, <1>7, StartupKeeps
<1> USE <1>t, ConstantsAssumption
    DEF IInv, TypeInv, TypeOK, Busy, dbVars, files, rowVars, queueVars, threadVars, startVars,
        PhaseInv, Quiet, LoopInv, SlotInv, ScheduledOnce, StatusInv, FreshInv,
        OwnerInv, AttemptsDoNotOverlap, ResultInv, Entering, Jobs, Live, InfState
<1>8. ASSUME NEW s \in Shots, CreateShot(s) PROVE IInv'
  BY <1>8 DEF CreateShot
<1>9. ASSUME NEW a \in Attempt, Inference(a) PROVE IInv'
  <2>1. CASE InferenceFails(a) BY <2>1 DEF InferenceFails
  <2>2. CASE InferenceWrites(a) BY <2>2 DEF InferenceWrites
  <2>3. CASE InferenceCommits(a) BY <2>3 DEF InferenceCommits
  <2> QED BY <1>9, <2>1, <2>2, <2>3 DEF Inference
<1>10. CASE Crash
  <2>1. In(queue') = {} /\ In(pool') = {} /\ Distinct(queue') /\ Distinct(pool')
    BY <1>10, InEmpty DEF Crash
  <2>2. Entering' = {} /\ Jobs' = {}
    BY <1>10 DEF Crash
  <2> QED BY <1>10, <2>1, <2>2 DEF Crash
<1>11. CASE UNCHANGED vars
  BY <1>11 DEF vars
<1> QED
  BY <1>1, <1>2, <1>3, <1>4, <1>5, <1>6, <1>7, <1>8, <1>9, <1>10, <1>11
  DEF Next, Request

LEMMA IInvHolds == Spec => []IInv
  BY InitIInv, NextIInv, PTL DEF Spec
-----------------------------------------------------------------------------
(* The theorems.                                                           *)

(* No task is scheduled twice by one process: the places an id can be in   *)
(* stay disjoint and repetition-free (queue_manager.py:143-174).           *)
THEOREM SchedulingCorrect == Spec => []ScheduledOnce
<1>1. IInv => ScheduledOnce
  BY DEF IInv
<1> QED BY <1>1, IInvHolds, PTL

(* Two inference threads never work on one task, although a timed-out      *)
(* thread is abandoned alive (queue_manager.py:182-203, 245-293).          *)
THEOREM AttemptsCorrect == Spec => []AttemptsDoNotOverlap
<1>1. IInv => AttemptsDoNotOverlap
  BY DEF IInv
<1> QED BY <1>1, IInvHolds, PTL

(* A completed task always has its own asset row: neither a crash between  *)
(* the two commits nor a deletion leaves a dangling result                 *)
(* (inference.py:225, queue_manager.py:302).                               *)
THEOREM CompletedCorrect == Spec => []CompletedHasItsAsset
<1>1. IInv => CompletedHasItsAsset
  <2> SUFFICES ASSUME IInv, NEW t \in Tasks, status[t] = "completed"
               PROVE  result[t] \in assets /\ result[t][1] = t
    BY DEF CompletedHasItsAsset
  <2>1. result[t] \in assets /\ result[t] # None
    BY ConstantsAssumption DEF IInv, ResultInv, TypeInv, TypeOK
  <2> QED BY <2>1 DEF IInv, ResultInv
<1> QED BY <1>1, IInvHolds, PTL

(* The rows of a step, read through the abstract lifecycle.                *)
LEMMA LifecycleStep ==
  IInv /\ [Next]_vars => [Lifecycle!Next]_(Lifecycle!vars)
<1> SUFFICES ASSUME IInv, [Next]_vars PROVE [Lifecycle!Next]_(Lifecycle!vars)
  OBVIOUS
<1> USE DEF Lifecycle!vars, dbVars, files, rowVars
<1>d. ASSUME NEW S \in SUBSET Shots, DeleteRows(S) PROVE Lifecycle!Next
  <2> DEFINE T == {t \in Tasks : ShotOf[t] \in S /\ status[t] # "absent"}
  <2>1. \A t \in Tasks : status[t] = "absent" => result[t] = None
    BY DEF IInv, FreshInv
  <2>2. status' = [t \in Tasks |-> IF t \in T THEN "deleted" ELSE status[t]]
    BY <1>d DEF DeleteRows
  <2>3. result' = [t \in Tasks |-> IF t \in T THEN None ELSE result[t]]
    <3>1. result' = [t \in Tasks |-> IF ShotOf[t] \in S THEN None ELSE result[t]]
      BY <1>d DEF DeleteRows
    <3>2. \A t \in Tasks : ShotOf[t] \in S /\ t \notin T => result[t] = None
      BY <2>1
    <3>3. \A t \in Tasks : (IF ShotOf[t] \in S THEN None ELSE result[t])
                           = (IF t \in T THEN None ELSE result[t])
      BY <3>2
    <3> QED BY <3>1, <3>3
  <2>4. Lifecycle!Delete(T) /\ T \in SUBSET Tasks
    BY <2>2, <2>3 DEF Lifecycle!Delete
  <2> QED BY <2>4 DEF Lifecycle!Next
<1>1. ASSUME NEW S \in SUBSET Shots, DeleteShots(S) PROVE Lifecycle!Next
  BY <1>1, <1>d DEF DeleteShots
<1>2. CASE ClearAllProjects
  BY <1>2, <1>d DEF ClearAllProjects
<1>3. ASSUME NEW t \in Tasks, Submit(t) PROVE Lifecycle!Next
  BY <1>3 DEF Submit, Lifecycle!Submit, Lifecycle!Next
<1>4. ASSUME NEW t \in Tasks, SubmitReturns(t) PROVE [Lifecycle!Next]_(Lifecycle!vars)
  <2>1. CASE SubmitEnqueue(t) \/ SubmitEnqueueRaises(t)
    BY <2>1 DEF SubmitEnqueue, SubmitEnqueueRaises
  <2>2. CASE SubmitMarkFailed(t)
    <3>1. status[t] \in {"pending", "deleted"}
      BY <2>2 DEF SubmitMarkFailed, IInv, StatusInv
    <3> QED BY <2>2, <3>1 DEF SubmitMarkFailed, WriteTask, Stored, Unfinished, Terminal,
              Lifecycle!Fail, Lifecycle!Next
  <2> QED BY <1>4, <2>1, <2>2 DEF SubmitReturns
<1>5. ASSUME NEW w \in Workers, RunTask(w) PROVE [Lifecycle!Next]_(Lifecycle!vars)
  <2> USE DEF WriteTask, Stored, Unfinished, Terminal, Lifecycle!Next
  <2>1. pc[w] # "free" => job[w] \in Tasks
    BY DEF IInv, TypeInv, Busy
  <2>2. CASE MarkProcessing(w)
    <3>1. status[job[w]] \in {"pending", "processing", "deleted"} /\ job[w] \in Tasks
      BY <2>1, <2>2 DEF MarkProcessing, IInv, StatusInv
    <3>2. CASE status[job[w]] = "pending"
      BY <2>2, <3>1, <3>2 DEF MarkProcessing, Lifecycle!Start
    <3>3. CASE status[job[w]] = "processing"
      BY <2>2, <3>1, <3>3 DEF MarkProcessing, IInv, TypeInv, TypeOK
    <3>4. CASE status[job[w]] = "deleted"
      BY <2>2, <3>1, <3>4 DEF MarkProcessing
    <3> QED BY <3>1, <3>2, <3>3, <3>4
  <2>3. CASE FailTask(w)
    <3>1. status[job[w]] \in {"processing", "deleted"} /\ job[w] \in Tasks
      BY <2>1, <2>3 DEF FailTask, IInv, StatusInv
    <3> QED BY <2>3, <3>1 DEF FailTask, Lifecycle!Fail
  <2>4. CASE CompleteTask(w)
    <3>1. /\ status[job[w]] \in {"processing", "deleted"} /\ job[w] \in Tasks
          /\ att[w] \in Attempt /\ att[w][1] = job[w]
      BY <2>1, <2>4 DEF CompleteTask, IInv, StatusInv, SlotInv
    <3>2. CASE status[job[w]] = "processing"
      <4>1. \A u \in Tasks : result[u] # att[w]
        BY <3>1, <3>2, ConstantsAssumption DEF IInv, ResultInv
      <4>2. /\ status' = [status EXCEPT ![job[w]] = "completed"]
            /\ result' = [result EXCEPT ![job[w]] = att[w]]
        BY <2>4, <3>2 DEF CompleteTask
      <4>3. Lifecycle!Complete(job[w])
        BY <3>1, <3>2, <4>1, <4>2 DEF Lifecycle!Complete
      <4> QED BY <3>1, <4>3
    <3>3. CASE status[job[w]] = "deleted"
      BY <2>4, <3>3 DEF CompleteTask
    <3> QED BY <3>1, <3>2, <3>3
  <2>5. CASE ~(MarkProcessing(w) \/ FailTask(w) \/ CompleteTask(w))
    BY <1>5, <2>5
    DEF RunTask, TakeTask, SaveAndLaunch, GotResult, GotError, TimedOut, NoteRetry,
        Discard, Settle, SnapshotRow, SnapshotDone, SaveRaises, LockExpires
  <2> QED BY <2>2, <2>3, <2>4, <2>5
<1>6. CASE Startup
  <2>1. CASE Resume
    <3>1. status' = [t \in Tasks |-> IF status[t] = "processing" THEN "pending"
                                     ELSE status[t]]
      BY <2>1 DEF Resume, Unfinished
    <3> QED BY <2>1, <3>1 DEF Resume, Lifecycle!Recover, Lifecycle!Next
  <2>2. CASE ~Resume
    BY <1>6, <2>2 DEF Startup, CleanCheckpoint, CleanDone, Restore, RestoreRaises
  <2> QED BY <2>1, <2>2
<1>7. CASE \/ \E s \in Shots : CreateShot(s)
           \/ Dispatch \/ Crash
           \/ \E a \in Attempt : Inference(a)
           \/ UNCHANGED vars
  BY <1>7 DEF CreateShot, Dispatch, Crash, Inference, InferenceFails, InferenceWrites,
              InferenceCommits, vars
<1> QED
  BY <1>1, <1>2, <1>3, <1>4, <1>5, <1>6, <1>7 DEF Next, Request

(* The queue, its threads, retries, timeouts, crashes and restarts         *)
(* implement the documented life of a task, as a polling client sees it    *)
(* (queue_manager.py:3).                                                   *)
THEOREM ImplementsLifecycle == Spec => LifecycleSpec
<1>1. Init => Lifecycle!Init
  BY DEF Init, Lifecycle!Init
<1> QED
  BY <1>1, IInvHolds, LifecycleStep, PTL DEF Spec, LifecycleSpec, Lifecycle!Spec

(* A finished row is never run, retried or overwritten again; it follows   *)
(* from the lifecycle the rows implement (queue_manager.py:108-127).       *)
THEOREM FinishedForGood == Spec => FinishedStaysFinished
<1> DEFINE Keeps ==
      \A t \in Tasks : status[t] \in Terminal =>
          \/ status'[t] = "deleted"
          \/ status'[t] = status[t] /\ result'[t] = result[t]
<1>1. ASSUME IInv, [Lifecycle!Next]_(Lifecycle!vars) PROVE Keeps
  <2> SUFFICES ASSUME NEW t \in Tasks, status[t] \in Terminal
               PROVE  \/ status'[t] = "deleted"
                      \/ status'[t] = status[t] /\ result'[t] = result[t]
    OBVIOUS
  <2> USE DEF IInv, TypeInv, TypeOK, Terminal
  <2>1. ASSUME NEW u \in Tasks, \/ Lifecycle!Submit(u) \/ Lifecycle!Start(u)
                                \/ Lifecycle!Complete(u) \/ Lifecycle!Fail(u)
        PROVE  status'[t] = status[t] /\ result'[t] = result[t]
    <3>1. t # u
      BY <2>1 DEF Lifecycle!Submit, Lifecycle!Start, Lifecycle!Complete, Lifecycle!Fail
    <3>2. status'[t] = status[t]
      <4>1. PICK v \in TaskStatus : status' = [status EXCEPT ![u] = v]
        BY <2>1 DEF Lifecycle!Submit, Lifecycle!Start, Lifecycle!Complete, Lifecycle!Fail,
                    TaskStatus, Stored, Unfinished
      <4> QED BY <3>1, <4>1
    <3>3. result'[t] = result[t]
      <4>1. CASE Lifecycle!Complete(u)
        <5>1. PICK r \in Attempt : result' = [result EXCEPT ![u] = r]
          BY <4>1 DEF Lifecycle!Complete
        <5> QED BY <3>1, <5>1
      <4>2. CASE ~Lifecycle!Complete(u)
        BY <2>1, <4>2 DEF Lifecycle!Submit, Lifecycle!Start, Lifecycle!Fail
      <4> QED BY <4>1, <4>2
    <3> QED BY <3>2, <3>3
  <2>2. ASSUME NEW T \in SUBSET Tasks, Lifecycle!Delete(T)
        PROVE  \/ status'[t] = "deleted"
               \/ status'[t] = status[t] /\ result'[t] = result[t]
    BY <2>2 DEF Lifecycle!Delete
  <2>3. Lifecycle!Recover => status'[t] = status[t] /\ result'[t] = result[t]
    BY DEF Lifecycle!Recover
  <2>4. UNCHANGED Lifecycle!vars => status'[t] = status[t] /\ result'[t] = result[t]
    BY DEF Lifecycle!vars
  <2> QED BY <1>1, <2>1, <2>2, <2>3, <2>4 DEF Lifecycle!Next
<1>2. IInv /\ [Next]_vars => [Keeps]_vars
  BY <1>1, LifecycleStep
<1> QED BY <1>2, IInvHolds, PTL DEF Spec, FinishedStaysFinished
====
