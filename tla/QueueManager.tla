---------------------------- MODULE QueueManager ----------------------------
(***************************************************************************)
(* The generation queue of backend/routers/queue_manager.py together with  *)
(* the handlers and threads it shares state with: submit_generation, the   *)
(* deletions of shots.py and projects.py, the inference threads of         *)
(* inference.py, the checkpoint directory and the startup hook.            *)
(*                                                                         *)
(* Three kinds of state meet here.  The SQLite rows and the checkpoint     *)
(* files survive a crash; the queue, the thread pool and the worker        *)
(* threads do not; and an inference thread that outlived its timeout goes  *)
(* on writing to the database although nobody waits for it.                *)
(***************************************************************************)
EXTENDS Naturals, Sequences, FiniteSets

CONSTANTS
    Tasks,            \* task ids (uuids: an id is submitted at most once)
    Shots,            \* shot ids
    ShotOf,           \* the shot_id of each task row
    Workers,          \* the pool's threads: Cardinality is MAX_CONCURRENCY
    TaskRetryMax,     \* settings.TASK_RETRY_MAX
    CheckpointEvery,  \* settings.CHECKPOINT_EVERY
    MaxRestarts,      \* bound: crashes considered
    Faults,           \* environment failures considered, see FaultKinds
    None              \* no task, no attempt, no result

(* "thread": the operating system refuses a new thread; "disk": a          *)
(* checkpoint cannot be written; "unlink": one cannot be removed; "lock":  *)
(* SQLite's busy timeout expires.                                          *)
FaultKinds == {"thread", "disk", "unlink", "lock"}

(* Inference runs of one task: TASK_RETRY_MAX + 1 per process life.        *)
MaxAttempts == (TaskRetryMax + 1) * (MaxRestarts + 1)

(* One call of run_inference; it also names the asset the call produces.   *)
Attempt == Tasks \X (1 .. MaxAttempts)

ASSUME ConstantsAssumption ==
    /\ ShotOf \in [Tasks -> Shots]
    /\ TaskRetryMax \in Nat
    /\ CheckpointEvery \in Nat \ {0}
    /\ MaxRestarts \in Nat
    /\ Faults \subseteq FaultKinds
    /\ None \notin Tasks \cup Attempt

VARIABLES
    (* the database: durable *)
    status,           \* generation_tasks.status, "absent" before, "deleted" after
    result,           \* generation_tasks.result_asset_id
    shotStatus,       \* shots.status
    shotResult,       \* shots.result_asset_id
    assets,           \* rows of the assets table of kind result
    txn,              \* the attempt whose write transaction is open
    ckpt,             \* tasks with a file in CHECKPOINT_DIR
    (* the process: lost in a crash *)
    phase,            \* where the process is: down, cleaning up, serving
    restoring,        \* rows that resume_unfinished_tasks has yet to enqueue
    handler,          \* where submit_generation is after its INSERT
    queue,            \* _queue
    workerLoop,       \* the thread of _worker_loop and _worker_started
    pool,             \* work items waiting inside the ThreadPoolExecutor
    pc,               \* where each pool thread is in _run_task
    job,              \* its task_id
    retry,            \* its retry_count
    att,              \* the inference call it waits for
    snap,             \* rows its _snapshot_unfinished has yet to write
    inf,              \* the inference threads
    completedSince,   \* _completed_since_checkpoint
    unremoved,        \* tasks whose file this process tried to remove and could not
    restarts          \* crashes so far (bounds the model)

dbVars     == <<status, result, shotStatus, shotResult, assets, txn>>
files      == <<ckpt, unremoved>>
rowVars    == <<status, result, shotStatus, shotResult>>
queueVars  == <<queue, workerLoop, pool>>
threadVars == <<pc, job, retry, att, snap>>
startVars  == <<phase, restoring, restarts>>
vars == <<status, result, shotStatus, shotResult, assets, txn, ckpt, phase,
          restoring, handler, queue, workerLoop, pool, pc, job, retry, att,
          snap, inf, completedSince, unremoved, restarts>>

Unfinished == {"pending", "processing"}
Terminal   == {"completed", "failed"}
Stored     == Unfinished \cup Terminal
TaskStatus == Stored \cup {"absent", "deleted"}
ShotStatus == {"absent", "idle", "queued", "processing", "completed", "failed",
               "deleted"}
ShotGone   == {"absent", "deleted"}
Live       == {"running", "writing"}
InfState   == Live \cup {"unused", "done", "ended"}
PC == {"free", "mark", "save", "wait", "retry", "complete", "fail", "settle",
       "discard", "snapshot"}

TypeOK ==
    /\ status \in [Tasks -> TaskStatus]
    /\ result \in [Tasks -> Attempt \cup {None}]
    /\ shotStatus \in [Shots -> ShotStatus]
    /\ shotResult \in [Shots -> Attempt \cup {None}]
    /\ assets \subseteq Attempt
    /\ txn \in Attempt \cup {None}
    /\ ckpt \subseteq Tasks
    /\ phase \in {"down", "clean", "up"}
    /\ restoring \subseteq Tasks
    /\ handler \in [Tasks -> {"none", "enqueue", "markFailed"}]
    /\ queue \in Seq(Tasks)
    /\ workerLoop \in {"unstarted", "running", "dead"}
    /\ pool \in Seq(Tasks)
    /\ pc \in [Workers -> PC]
    /\ job \in [Workers -> Tasks \cup {None}]
    /\ retry \in [Workers -> 0 .. TaskRetryMax]
    /\ att \in [Workers -> Attempt \cup {None}]
    /\ snap \in [Workers -> SUBSET Tasks]
    /\ inf \in [Attempt -> InfState]
    /\ completedSince \in 0 .. CheckpointEvery - 1
    /\ unremoved \subseteq Tasks
    /\ restarts \in 0 .. MaxRestarts

Init ==
    /\ status = [t \in Tasks |-> "absent"]
    /\ result = [t \in Tasks |-> None]
    /\ shotStatus = [s \in Shots |-> "absent"]
    /\ shotResult = [s \in Shots |-> None]
    /\ assets = {} /\ txn = None /\ ckpt = {}
    /\ phase = "down" /\ restoring = {}
    /\ handler = [t \in Tasks |-> "none"]
    /\ queue = <<>> /\ workerLoop = "unstarted" /\ pool = <<>>
    /\ pc = [w \in Workers |-> "free"]
    /\ job = [w \in Workers |-> None]
    /\ retry = [w \in Workers |-> 0]
    /\ att = [w \in Workers |-> None]
    /\ snap = [w \in Workers |-> {}]
    /\ inf = [a \in Attempt |-> "unused"]
    /\ completedSince = 0 /\ unremoved = {} /\ restarts = 0

-----------------------------------------------------------------------------
(* Helpers: SQL statements and the enqueue operation.                      *)

(* UPDATE generation_tasks SET status=v WHERE id=t: no row, no effect.     *)
WriteTask(t, v) ==
    status' = IF status[t] \in Stored THEN [status EXCEPT ![t] = v] ELSE status

(* UPDATE shots SET status=v WHERE id=s.                                   *)
WriteShot(s, v) ==
    shotStatus' = IF shotStatus[s] \in ShotGone THEN shotStatus
                  ELSE [shotStatus EXCEPT ![s] = v]

(* Every write needs SQLite's only write lock.                             *)
CanWrite == txn = None

(* enqueue(): append under the lock and start the worker loop lazily.      *)
Enqueue(t) ==
    /\ queue' = Append(queue, t)
    /\ workerLoop' = IF workerLoop = "unstarted" THEN "running" ELSE workerLoop
    /\ UNCHANGED pool

(* enqueue() raises out of t.start(): the id is in the queue and           *)
(* _worker_started is set, but no thread runs and none is ever tried again.*)
EnqueueRaises(t) ==
    /\ "thread" \in Faults
    /\ workerLoop = "unstarted"
    /\ queue' = Append(queue, t)
    /\ workerLoop' = "dead"
    /\ UNCHANGED pool

(* CheckpointManager.remove: an unlink that fails is only warned about.    *)
RemoveCheckpoint(t) ==
    \/ ckpt' = ckpt \ {t} /\ UNCHANGED unremoved
    \/ "unlink" \in Faults /\ t \in ckpt
       /\ unremoved' = unremoved \cup {t} /\ UNCHANGED ckpt

Serving == phase = "up" /\ restoring = {}

-----------------------------------------------------------------------------
(* HTTP handlers.                                                          *)

(* POST /api/shots                                                         *)
CreateShot(s) ==
    /\ Serving /\ CanWrite
    /\ shotStatus[s] = "absent"
    /\ shotStatus' = [shotStatus EXCEPT ![s] = "idle"]
    /\ UNCHANGED <<status, result, shotResult, assets, txn, files, startVars,
                   handler, queueVars, threadVars, inf, completedSince>>

(* POST /api/generations: the row and the shot's status in one commit.     *)
Submit(t) ==
    /\ Serving /\ CanWrite
    /\ status[t] = "absent"
    /\ shotStatus[ShotOf[t]] \notin ShotGone
    /\ status' = [status EXCEPT ![t] = "pending"]
    /\ shotStatus' = [shotStatus EXCEPT ![ShotOf[t]] = "queued"]
    /\ handler' = [handler EXCEPT ![t] = "enqueue"]
    /\ UNCHANGED <<result, shotResult, assets, txn, files, startVars, queueVars,
                   threadVars, inf, completedSince>>

SubmitEnqueue(t) ==
    /\ handler[t] = "enqueue"
    /\ Enqueue(t)
    /\ handler' = [handler EXCEPT ![t] = "none"]
    /\ UNCHANGED <<dbVars, files, startVars, threadVars, inf, completedSince>>

SubmitEnqueueRaises(t) ==
    /\ handler[t] = "enqueue"
    /\ EnqueueRaises(t)
    /\ handler' = [handler EXCEPT ![t] = "markFailed"]
    /\ UNCHANGED <<dbVars, files, startVars, threadVars, inf, completedSince>>

(* The except branch: the task becomes failed, the shot stays queued.      *)
SubmitMarkFailed(t) ==
    /\ handler[t] = "markFailed"
    /\ CanWrite
    /\ WriteTask(t, "failed")
    /\ handler' = [handler EXCEPT ![t] = "none"]
    /\ UNCHANGED <<result, shotStatus, shotResult, assets, txn, files, startVars,
                   queueVars, threadVars, inf, completedSince>>

(* DELETE FROM shots / projects with ON DELETE CASCADE to the task rows.   *)
(* The queue, the pool, the running threads and the checkpoints stay.      *)
DeleteRows(S) ==
    /\ \E s \in S : shotStatus[s] \notin ShotGone
    /\ shotStatus' = [s \in Shots |->
                        IF s \in S /\ shotStatus[s] # "absent" THEN "deleted"
                        ELSE shotStatus[s]]
    /\ shotResult' = [s \in Shots |-> IF s \in S THEN None ELSE shotResult[s]]
    /\ status' = [t \in Tasks |->
                        IF ShotOf[t] \in S /\ status[t] # "absent" THEN "deleted"
                        ELSE status[t]]
    /\ result' = [t \in Tasks |-> IF ShotOf[t] \in S THEN None ELSE result[t]]

(* DELETE of one shot, or of a project with the shots S it has.            *)
DeleteShots(S) ==
    /\ Serving /\ CanWrite
    /\ DeleteRows(S)
    /\ UNCHANGED <<assets, txn, files, startVars, handler, queueVars, threadVars,
                   inf, completedSince>>

(* Mutant: only the assets table is emptied.                               *)
ClearAssetsOnly ==
    /\ Serving /\ CanWrite
    /\ assets # {} /\ assets' = {}
    /\ UNCHANGED <<rowVars, txn, files, startVars, handler, queueVars, threadVars,
                   inf, completedSince>>

(* POST /api/projects/clear: every table in one commit, the assets too.    *)
ClearAllProjects ==
    /\ Serving /\ CanWrite
    /\ DeleteRows(Shots)
    /\ assets' = {}
    /\ UNCHANGED <<txn, files, startVars, handler, queueVars, threadVars, inf,
                   completedSince>>

-----------------------------------------------------------------------------
(* The worker loop and the pool threads (_run_task).                       *)

(* _worker_loop: every queued id goes straight into the executor, whose    *)
(* own queue is where tasks really wait.                                   *)
Dispatch ==
    /\ workerLoop = "running"
    /\ queue # <<>>
    /\ queue' = Tail(queue)
    /\ pool' = Append(pool, Head(queue))
    /\ UNCHANGED <<dbVars, files, startVars, handler, workerLoop, threadVars, inf,
                   completedSince>>

(* A pool thread takes a work item; a deleted row ends the task at once.   *)
TakeTask(w) ==
    /\ pc[w] = "free"
    /\ pool # <<>>
    /\ pool' = Tail(pool)
    /\ IF status[Head(pool)] \in Stored
       THEN /\ job' = [job EXCEPT ![w] = Head(pool)]
            /\ pc' = [pc EXCEPT ![w] = "mark"]
       ELSE UNCHANGED <<job, pc>>
    /\ UNCHANGED <<dbVars, files, startVars, handler, queue, workerLoop, retry, att,
                   snap, inf, completedSince>>

(* The pool thread returns from _run_task, or an exception leaves it and   *)
(* is swallowed by the future nobody reads.                                *)
Free(w) ==
    /\ pc' = [pc EXCEPT ![w] = "free"]
    /\ job' = [job EXCEPT ![w] = None]
    /\ retry' = [retry EXCEPT ![w] = 0]
    /\ att' = [att EXCEPT ![w] = None]
    /\ snap' = [snap EXCEPT ![w] = {}]

MarkProcessing(w) ==
    /\ pc[w] = "mark" /\ CanWrite
    /\ WriteTask(job[w], "processing")
    /\ WriteShot(ShotOf[job[w]], "processing")
    /\ pc' = [pc EXCEPT ![w] = "save"]
    /\ UNCHANGED <<result, shotResult, assets, txn, files, startVars, handler,
                   queueVars, job, retry, att, snap, inf, completedSince>>

(* ex.submit(run_inference): a new thread for a new attempt; it fails at   *)
(* once when the row is gone.                                              *)
Launch(w) ==
    \E n \in 1 .. MaxAttempts :
        /\ inf[<<job[w], n>>] = "unused"
        /\ \A m \in 1 .. MaxAttempts : m < n => inf[<<job[w], m>>] # "unused"
        /\ inf' = [inf EXCEPT ![<<job[w], n>>] =
                     IF status[job[w]] \in Stored THEN "running" ELSE "ended"]
        /\ att' = [att EXCEPT ![w] = <<job[w], n>>]
        /\ pc' = [pc EXCEPT ![w] = "wait"]

SaveAndLaunch(w) ==
    /\ pc[w] = "save"
    /\ \/ ckpt' = ckpt \cup {job[w]}
       \/ "disk" \in Faults /\ UNCHANGED ckpt    \* save() warned and went on
    /\ Launch(w)
    /\ UNCHANGED <<dbVars, unremoved, startVars, handler, queueVars, job, retry, snap,
                   completedSince>>

GotResult(w) ==
    /\ pc[w] = "wait"
    /\ inf[att[w]] = "done"
    /\ pc' = [pc EXCEPT ![w] = "complete"]
    /\ UNCHANGED <<dbVars, files, startVars, handler, queueVars, job, retry, att,
                   snap, inf, completedSince>>

(* except Exception: another round while retry_count <= TASK_RETRY_MAX.    *)
GotError(w) ==
    /\ pc[w] = "wait"
    /\ inf[att[w]] = "ended"
    /\ IF retry[w] < TaskRetryMax
       THEN /\ retry' = [retry EXCEPT ![w] = @ + 1]
            /\ pc' = [pc EXCEPT ![w] = "retry"]
       ELSE /\ pc' = [pc EXCEPT ![w] = "fail"]
            /\ UNCHANGED retry
    /\ att' = [att EXCEPT ![w] = None]
    /\ UNCHANGED <<dbVars, files, startVars, handler, queueVars, job, snap, inf,
                   completedSince>>

(* Mutant: the timeout is configured but never enforced.                   *)
TimedOutNever(w) ==
    /\ pc[w] = "wait"
    /\ inf[att[w]] = "ended"
    /\ pc' = [pc EXCEPT ![w] = "fail"]
    /\ att' = [att EXCEPT ![w] = None]
    /\ UNCHANGED <<dbVars, files, startVars, handler, queueVars, job, retry, snap,
                   inf, completedSince>>

(* Mutant: a timeout is retried like any other exception.                  *)
TimedOutRetried(w) ==
    /\ pc[w] = "wait"
    /\ inf[att[w]] \in Live \cup {"ended"}
    /\ IF retry[w] < TaskRetryMax
       THEN /\ retry' = [retry EXCEPT ![w] = @ + 1]
            /\ pc' = [pc EXCEPT ![w] = "retry"]
       ELSE /\ pc' = [pc EXCEPT ![w] = "fail"]
            /\ UNCHANGED retry
    /\ att' = [att EXCEPT ![w] = None]
    /\ UNCHANGED <<dbVars, files, startVars, handler, queueVars, job, snap, inf,
                   completedSince>>

(* fut.result(timeout=...) gives up while the thread still runs, or the    *)
(* engine itself raised TimeoutError (comfy_engine._wait), which is the    *)
(* same class: neither is retried, and a running thread is abandoned.      *)
TimedOut(w) ==
    /\ pc[w] = "wait"
    /\ inf[att[w]] \in Live \cup {"ended"}
    /\ pc' = [pc EXCEPT ![w] = "fail"]
    /\ att' = [att EXCEPT ![w] = None]
    /\ UNCHANGED <<dbVars, files, startVars, handler, queueVars, job, retry, snap,
                   inf, completedSince>>

(* Mutant: the task fails, its shot is forgotten.                          *)
FailTaskOnly(w) ==
    /\ pc[w] = "fail" /\ CanWrite
    /\ WriteTask(job[w], "failed")
    /\ pc' = [pc EXCEPT ![w] = "discard"]
    /\ UNCHANGED <<result, shotStatus, shotResult, assets, txn, files, startVars,
                   handler, queueVars, job, retry, att, snap, inf, completedSince>>

(* UPDATE ... SET error, then sleep(1) and the next round of the loop.     *)
NoteRetry(w) ==
    /\ pc[w] = "retry" /\ CanWrite
    /\ pc' = [pc EXCEPT ![w] = "mark"]
    /\ UNCHANGED <<dbVars, files, startVars, handler, queueVars, job, retry, att,
                   snap, inf, completedSince>>

(* Mutant: the commit of the result does not look at the row's fate: the   *)
(* row is written back when it was deleted meanwhile.                      *)
CompleteTaskUpsert(w) ==
    /\ pc[w] = "complete" /\ CanWrite
    /\ status' = [status EXCEPT ![job[w]] = "completed"]
    /\ WriteShot(ShotOf[job[w]], "completed")
    /\ result' = [result EXCEPT ![job[w]] = att[w]]
    /\ shotResult' = IF shotStatus[ShotOf[job[w]]] \in ShotGone THEN shotResult
                     ELSE [shotResult EXCEPT ![ShotOf[job[w]]] = att[w]]
    /\ pc' = [pc EXCEPT ![w] = "settle"]
    /\ UNCHANGED <<assets, txn, files, startVars, handler, queueVars, job, retry,
                   att, snap, inf, completedSince>>

FailTask(w) ==
    /\ pc[w] = "fail" /\ CanWrite
    /\ WriteTask(job[w], "failed")
    /\ WriteShot(ShotOf[job[w]], "failed")
    /\ pc' = [pc EXCEPT ![w] = "discard"]
    /\ UNCHANGED <<result, shotResult, assets, txn, files, startVars, handler,
                   queueVars, job, retry, att, snap, inf, completedSince>>

CompleteTask(w) ==
    /\ pc[w] = "complete" /\ CanWrite
    /\ WriteTask(job[w], "completed")
    /\ WriteShot(ShotOf[job[w]], "completed")
    /\ result' = IF status[job[w]] \in Stored
                 THEN [result EXCEPT ![job[w]] = att[w]] ELSE result
    /\ shotResult' = IF shotStatus[ShotOf[job[w]]] \in ShotGone THEN shotResult
                     ELSE [shotResult EXCEPT ![ShotOf[job[w]]] = att[w]]
    /\ pc' = [pc EXCEPT ![w] = "settle"]
    /\ UNCHANGED <<assets, txn, files, startVars, handler, queueVars, job, retry,
                   att, snap, inf, completedSince>>

(* A failed task: remove its checkpoint and return.                        *)
Discard(w) ==
    /\ pc[w] = "discard"
    /\ RemoveCheckpoint(job[w])
    /\ Free(w)
    /\ UNCHANGED <<dbVars, startVars, handler, queueVars, inf, completedSince>>

(* Mutant: the counter is never reset.                                     *)
SettleWithoutReset(w) ==
    /\ pc[w] = "settle"
    /\ RemoveCheckpoint(job[w])
    /\ completedSince' = completedSince + 1
    /\ Free(w)
    /\ UNCHANGED <<dbVars, startVars, handler, queueVars, inf>>

(* Mutant: finishing a task empties the checkpoint directory.              *)
SettleWipes(w) ==
    /\ pc[w] = "settle"
    /\ ckpt' = {}
    /\ Free(w)
    /\ UNCHANGED <<unremoved, dbVars, startVars, handler, queueVars, inf, completedSince>>

(* A completed task: remove its checkpoint, count it, and read the rows to *)
(* snapshot when the counter reaches CHECKPOINT_EVERY.                     *)
Settle(w) ==
    /\ pc[w] = "settle"
    /\ RemoveCheckpoint(job[w])
    /\ IF completedSince + 1 = CheckpointEvery
       THEN /\ completedSince' = 0
            /\ snap' = [snap EXCEPT ![w] = {t \in Tasks : status[t] \in Unfinished}]
            /\ pc' = [pc EXCEPT ![w] = "snapshot"]
            /\ UNCHANGED <<job, retry, att>>
       ELSE /\ completedSince' = completedSince + 1
            /\ Free(w)
    /\ UNCHANGED <<dbVars, startVars, handler, queueVars, inf>>

(* _snapshot_unfinished: one file per row, in the database's order; the    *)
(* rows may have changed since they were read.                             *)
SnapshotRow(w) ==
    /\ pc[w] = "snapshot"
    /\ \E t \in snap[w] :
        /\ snap' = [snap EXCEPT ![w] = @ \ {t}]
        /\ \/ ckpt' = ckpt \cup {t}
           \/ "disk" \in Faults /\ UNCHANGED ckpt
    /\ UNCHANGED <<dbVars, unremoved, startVars, handler, queueVars, pc, job, retry, att, inf,
                   completedSince>>

SnapshotDone(w) ==
    /\ pc[w] = "snapshot" /\ snap[w] = {}
    /\ Free(w)
    /\ UNCHANGED <<dbVars, files, startVars, handler, queueVars, inf, completedSince>>

(* save() raises from makedirs or mkstemp, which its try does not cover.   *)
SaveRaises(w) ==
    /\ "disk" \in Faults
    /\ pc[w] = "save" \/ (pc[w] = "snapshot" /\ snap[w] # {})
    /\ Free(w)
    /\ UNCHANGED <<dbVars, files, startVars, handler, queueVars, inf, completedSince>>

(* "database is locked": sqlite3's busy timeout (5 s) expires while an     *)
(* inference thread holds its transaction open across the thumbnail's      *)
(* ffmpeg (up to 30 s).  No UPDATE of _run_task is inside its try.         *)
LockExpires(w) ==
    /\ "lock" \in Faults
    /\ txn # None
    /\ pc[w] \in {"mark", "retry", "fail", "complete"}
    /\ Free(w)
    /\ UNCHANGED <<dbVars, files, startVars, handler, queueVars, inf, completedSince>>

-----------------------------------------------------------------------------
(* The inference threads (run_inference), abandoned or not.                *)

(* The engine raised, or its output is no usable file.                     *)
InferenceFails(a) ==
    /\ inf[a] = "running"
    /\ inf' = [inf EXCEPT ![a] = "ended"]
    /\ UNCHANGED <<dbVars, files, startVars, handler, queueVars, threadVars,
                   completedSince>>

(* The engine returned: the seed's write-back opens the transaction.       *)
InferenceWrites(a) ==
    /\ inf[a] = "running" /\ CanWrite
    /\ inf' = [inf EXCEPT ![a] = "writing"]
    /\ txn' = a
    /\ UNCHANGED <<rowVars, assets, files, startVars, handler, queueVars, threadVars,
                   completedSince>>

(* INSERT INTO assets and commit, whether or not somebody still waits.     *)
InferenceCommits(a) ==
    /\ inf[a] = "writing"
    /\ assets' = assets \cup {a}
    /\ txn' = None
    /\ inf' = [inf EXCEPT ![a] = "done"]
    /\ UNCHANGED <<rowVars, files, startVars, handler, queueVars, threadVars,
                   completedSince>>

-----------------------------------------------------------------------------
(* Crash and startup.                                                      *)

(* The process dies anywhere: the open transaction is rolled back, every   *)
(* thread and all memory is gone.                                          *)
Crash ==
    /\ phase # "down" /\ restarts < MaxRestarts
    /\ phase' = "down" /\ restarts' = restarts + 1
    /\ restoring' = {}
    /\ handler' = [t \in Tasks |-> "none"]
    /\ queue' = <<>> /\ workerLoop' = "unstarted" /\ pool' = <<>>
    /\ pc' = [w \in Workers |-> "free"]
    /\ job' = [w \in Workers |-> None]
    /\ retry' = [w \in Workers |-> 0]
    /\ att' = [w \in Workers |-> None]
    /\ snap' = [w \in Workers |-> {}]
    /\ inf' = [a \in Attempt |-> IF inf[a] \in Live THEN "ended" ELSE inf[a]]
    /\ txn' = None
    /\ completedSince' = 0 /\ unremoved' = {}
    /\ UNCHANGED <<rowVars, assets, ckpt>>

(* Mutant: a task that was processing when the process died is not         *)
(* restored.                                                               *)
ResumePendingOnly ==
    /\ phase = "down"
    /\ restoring' = {t \in Tasks : status[t] = "pending"}
    /\ phase' = "clean"
    /\ UNCHANGED <<dbVars, files, handler, queueVars, threadVars, inf, completedSince,
                   restarts>>

(* Mutant: failed tasks are restored too.                                  *)
ResumeFailed ==
    /\ phase = "down"
    /\ restoring' = {t \in Tasks : status[t] \in Unfinished \cup {"failed"}}
    /\ status' = [t \in Tasks |-> IF t \in restoring' THEN "pending" ELSE status[t]]
    /\ phase' = "clean"
    /\ UNCHANGED <<result, shotStatus, shotResult, assets, txn, files, handler,
                   queueVars, threadVars, inf, completedSince, restarts>>

(* resume_unfinished_tasks: all unfinished rows back to pending, one commit*)
Resume ==
    /\ phase = "down"
    /\ restoring' = {t \in Tasks : status[t] \in Unfinished}
    /\ status' = [t \in Tasks |-> IF t \in restoring' THEN "pending" ELSE status[t]]
    /\ shotStatus' = [s \in Shots |->
                        IF \E t \in restoring' : ShotOf[t] = s THEN "queued"
                        ELSE shotStatus[s]]
    /\ phase' = "clean"
    /\ UNCHANGED <<result, shotResult, assets, txn, files, handler, queueVars,
                   threadVars, inf, completedSince, restarts>>

(* The files of finished tasks, but for those it failed to remove.         *)
StaleOnDisk == {t \in ckpt \ unremoved : status[t] \in Terminal}

(* Mutant: startup serves without cleaning up.                             *)
CleanSkipped ==
    /\ phase = "clean"
    /\ phase' = "up"
    /\ UNCHANGED <<dbVars, files, restoring, restarts, handler, queueVars, threadVars,
                   inf, completedSince>>

(* ... the checkpoints of finished tasks, one unlink at a time,            *)
CleanCheckpoint ==
    /\ phase = "clean"
    /\ \E t \in StaleOnDisk : RemoveCheckpoint(t)
    /\ UNCHANGED <<dbVars, startVars, handler, queueVars, threadVars, inf,
                   completedSince>>

CleanDone ==
    /\ phase = "clean" /\ StaleOnDisk = {}
    /\ phase' = "up"
    /\ UNCHANGED <<dbVars, files, restoring, restarts, handler, queueVars, threadVars,
                   inf, completedSince>>

(* Mutant: the restored id may be enqueued again.                          *)
RestoreTwice(t) ==
    /\ phase = "up" /\ t \in restoring /\ Len(queue) < 3
    /\ Enqueue(t)
    /\ UNCHANGED <<dbVars, files, phase, restoring, restarts, handler, threadVars, inf,
                   completedSince>>

(* ... and enqueue() for each restored id, in no particular order.         *)
Restore(t) ==
    /\ phase = "up" /\ t \in restoring
    /\ Enqueue(t)
    /\ restoring' = restoring \ {t}
    /\ UNCHANGED <<dbVars, files, phase, restarts, handler, threadVars, inf,
                   completedSince>>

(* The exception leaves resume_unfinished_tasks; startup() only warns.     *)
RestoreRaises(t) ==
    /\ phase = "up" /\ t \in restoring
    /\ EnqueueRaises(t)
    /\ restoring' = {}
    /\ UNCHANGED <<dbVars, files, phase, restarts, handler, threadVars, inf,
                   completedSince>>

-----------------------------------------------------------------------------
(* What one pool thread does next.                                         *)
RunTask(w) ==
    \/ TakeTask(w) \/ MarkProcessing(w) \/ SaveAndLaunch(w) \/ GotResult(w)
    \/ GotError(w) \/ TimedOut(w) \/ NoteRetry(w) \/ FailTask(w)
    \/ CompleteTask(w) \/ Discard(w) \/ Settle(w) \/ SnapshotRow(w)
    \/ SnapshotDone(w) \/ SaveRaises(w) \/ LockExpires(w)

Request ==
    \/ \E s \in Shots : CreateShot(s)
    \/ \E S \in SUBSET Shots : DeleteShots(S)
    \/ \E t \in Tasks : Submit(t)
    \/ ClearAllProjects

SubmitReturns(t) ==
    SubmitEnqueue(t) \/ SubmitEnqueueRaises(t) \/ SubmitMarkFailed(t)

Inference(a) == InferenceFails(a) \/ InferenceWrites(a) \/ InferenceCommits(a)

Startup ==
    \/ Resume \/ CleanCheckpoint \/ CleanDone
    \/ \E t \in Tasks : Restore(t) \/ RestoreRaises(t)

Next ==
    \/ Request
    \/ \E t \in Tasks : SubmitReturns(t)
    \/ Dispatch
    \/ \E w \in Workers : RunTask(w)
    \/ \E a \in Attempt : Inference(a)
    \/ Crash
    \/ Startup

Spec == Init /\ [][Next]_vars

(* Threads that are not blocked run, a commit takes bounded time and the   *)
(* operator restarts a dead process.  Users need not act, and an inference *)
(* may hang for ever: only its timeout is certain.                         *)
Fairness ==
    /\ WF_vars(Startup)
    /\ WF_vars(Dispatch)
    /\ \A t \in Tasks : WF_vars(SubmitReturns(t))
    /\ \A w \in Workers : WF_vars(RunTask(w))
    /\ \A a \in Attempt : WF_vars(InferenceCommits(a))

FairSpec == Spec /\ Fairness
-----------------------------------------------------------------------------
(* Properties.                                                             *)

In(s) == {s[i] : i \in DOMAIN s}
Distinct(s) == \A i, j \in DOMAIN s : s[i] = s[j] => i = j
Jobs == {job[w] : w \in Workers} \ {None}
Entering == restoring \cup {t \in Tasks : handler[t] = "enqueue"}

(* An id is in at most one place of the pipeline, and there only once: the *)
(* resumed ids, the handlers about to call enqueue(), _queue, the          *)
(* executor's own queue and the pool threads never share a task, so no     *)
(* task is run twice by one process (queue_manager.py:143-174).            *)
ScheduledOnce ==
    /\ Distinct(queue) /\ Distinct(pool)
    /\ \A v, w \in Workers : job[v] = job[w] /\ job[v] # None => v = w
    /\ In(queue) \cap In(pool) = {}
    /\ (In(queue) \cup In(pool)) \cap Jobs = {}
    /\ Entering \cap (In(queue) \cup In(pool) \cup Jobs) = {}

(* No unfinished row is forgotten by the process that serves it, whatever  *)
(* crashed before: a pending row is still to be enqueued, queued, or just  *)
(* taken; a processing row has a pool thread that has yet to commit its    *)
(* end (queue_manager.py:100-146, 206-321).                                *)
NoTaskLost ==
    phase # "down" =>
        \A t \in Tasks :
            /\ status[t] = "pending" =>
                   \/ t \in Entering \cup In(queue) \cup In(pool)
                   \/ \E w \in Workers : job[w] = t /\ pc[w] = "mark"
            /\ status[t] = "processing" =>
                   \E w \in Workers :
                       /\ job[w] = t
                       /\ pc[w] \in {"mark", "save", "wait", "retry", "complete",
                                     "fail"}

(* Two inference threads never work on the same task: a retry starts only  *)
(* after the previous call ended, a call that timed out is never retried,  *)
(* and only a restart, which kills the threads, runs a task again          *)
(* (queue_manager.py:182-203, 245-293).                                    *)
AttemptsDoNotOverlap ==
    \A a, b \in Attempt : inf[a] \in Live /\ inf[b] \in Live /\ a[1] = b[1] => a = b

(* A completed task points to an asset row that exists and that one of its *)
(* own inference calls inserted, although the INSERT and the status are    *)
(* two commits of two threads (inference.py:225, queue_manager.py:302).    *)
CompletedHasItsAsset ==
    \A t \in Tasks : status[t] = "completed" =>
        result[t] \in assets /\ result[t][1] = t

(* The shot a user sees never waits for nothing and never claims a result  *)
(* that is not there: queued or processing needs an unfinished task of the *)
(* shot, completed one whose result the shot shows, failed a failed one    *)
(* (the shot is updated in the commits of queue_manager.py and             *)
(* generations.py:88).                                                     *)
ShotAgreesWithTasks ==
    \A s \in Shots :
        LET taskOf == {t \in Tasks : ShotOf[t] = s}
        IN  /\ shotStatus[s] \in {"queued", "processing"} =>
                   \E t \in taskOf : status[t] \in Unfinished
            /\ shotStatus[s] = "completed" =>
                   \E t \in taskOf : /\ status[t] = "completed"
                                     /\ result[t] = shotResult[s]
                                     /\ shotResult[s] \in assets
            /\ shotStatus[s] = "failed" => \E t \in taskOf : status[t] = "failed"

(* While a pool thread is past its save() and not past the task's end, the *)
(* task has a checkpoint file, whatever snapshots, deletions and other     *)
(* tasks' cleanups did meanwhile (queue_manager.py:229-240, 314).          *)
RunningIsCheckpointed ==
    \A w \in Workers :
        pc[w] \in {"wait", "retry", "fail", "complete"} => job[w] \in ckpt

(* With one pool thread, a serving process keeps no checkpoint of a        *)
(* finished task except the one it is about to remove and those that it    *)
(* failed to: crashes and the failures of an earlier process leave some,   *)
(* and startup tries them all (queue_manager.py:130-140, 314-317,          *)
(* checkpoint.py:123-128).                                                 *)
NoStaleCheckpoint ==
    phase = "up" =>
        \A t \in StaleOnDisk :
            \E w \in Workers : job[w] = t /\ pc[w] \in {"settle", "discard"}

(* A finished task never runs again and keeps its outcome: retries,        *)
(* abandoned threads, crashes and resumes never touch a completed or       *)
(* failed row, only a deletion removes it (queue_manager.py:108-127).      *)
FinishedStaysFinished ==
    [][\A t \in Tasks : status[t] \in Terminal =>
          \/ status'[t] = "deleted"
          \/ status'[t] = status[t] /\ result'[t] = result[t]]_vars

(* Every submitted task ends or is deleted with its shot, though every     *)
(* inference may hang and the process may crash MaxRestarts times          *)
(* (queue_manager.py:3, 189-191).                                          *)
EverySubmissionSettles ==
    \A t \in Tasks : status[t] = "pending" ~> status[t] \in Terminal \cup {"deleted"}

(* The queue implements the documented life of a task, seen through the    *)
(* database by a client that polls (TaskLifecycle): its retries, threads,  *)
(* timeouts, crashes and restarts show no other transition.                *)
Lifecycle == INSTANCE TaskLifecycle WITH Results <- Attempt
LifecycleSpec == Lifecycle!Spec

(* What test_ops_stability.py T6 says: a task whose inference timed out is *)
(* marked failed and does not stay processing for ever.                    *)
TimedOutDoesNotStayProcessing ==
    \A w \in Workers, t \in Tasks :
        pc[w] = "fail" /\ job[w] = t ~> status[t] # "processing"
=============================================================================
