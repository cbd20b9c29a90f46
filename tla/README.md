# MiniMax-H3-lite in TLA+

Specifications of the generation service in this repository: the FastAPI process over
SQLite in `src/backend`, `src/assets/js/shared.js`, the page that drives it, and the
scripts that sign, check and start it; with the TLC instances that check them and the
TLAPS proofs about them.

| file | what it is |
|---|---|
| `QueueManager.tla` | the generation queue with everything it shares state with |
| `TaskLifecycle.tla` | what a polling client is promised about a task |
| `QueueManagerProofs.tla`, `QueueRecoveryProofs.tla` | theorems about the queue, and about what it keeps for the next start |
| `MCQueueManager.tla`, `qm_*.cfg` | TLC instances of the queue |
| `H3Spec.tla` | the generation grid, in Python and in JavaScript |
| `GenerationRequest.tla` | the checks of a request and the parameters built from it |
| `GenerationPage.tla` | the browser page, the shot row, the request and its attempts |
| `GenerationPageProofs.tla` | theorems about the grid, the request and the page |
| `MCGenerationPage.tla`, `page_*.cfg` | TLC instances of the page |
| `SettingsStore.tla` | the settings file, its two writers, the choice of the engine |
| `InferenceRun.tla` | calls of `run_inference` over the engines, on top of `SettingsStore` |
| `InferenceRunProofs.tla` | theorems about both |
| `MCInferenceRun.tla`, `inference.cfg`, `engine_frames.cfg`, `provenance.cfg` | their instances |
| `Watermark.tla`, `MCWatermark.tla`, `watermark.cfg` | the marking of a video, its reading back, its retry policy |
| `WatermarkProofs.tla` | theorems about it |
| `Release.tla` | manifest, keys, signatures, gates and self-check on several machines |
| `Startup.tla`, `MCStartup.tla`, `release.cfg` | launching, migration and serving, on top of `Release` |
| `StartupProofs.tla` | theorems about both |
| `Library.tla` | projects, shots, uploads, clearing |
| `References.tla` | the references of a shot, numbered by the page and sorted by each engine, on top of `Library` |
| `ProjectPage.tla`, `MCProjectPage.tla`, `library.cfg` | project menu, timeline and polling, on top of `Library`; the instance of these three |
| `ProjectPageProofs.tla` | theorems about the library and the page |
| `SumTheorems.tla` | what a sum over a finite set is, for the theorems about durations and votes |
| `PROJECT.json` | components, runs, mutants, map to source lines, findings, hazards, theorems |

## 1. The system

One process, started by hand on one machine. The browser page talks to it over
HTTP; FastAPI runs each (synchronous) handler in a thread; a daemon thread moves
task ids from a list into a `ThreadPoolExecutor`; every inference runs in a thread
of its own, so that it can be given up after a timeout. All of them share one
SQLite file (WAL, 5 s busy timeout), a directory of checkpoint files and some
module-level variables.

### Components

| component | state | operations | meets |
|---|---|---|---|
| Generation queue and worker (`routers/queue_manager.py`) | `_queue`, `_worker_started`, `_completed_since_checkpoint`, the executor, per-thread locals | `enqueue`, `_worker_loop`, `_run_task`, `_run_with_timeout`, `_on_task_completed`, `_snapshot_unfinished`, `resume_unfinished_tasks` | every row of tasks and shots; checkpoints; inference threads |
| Task submission and polling (`routers/generations.py`) | the new row | validate, insert, `enqueue`, mark failed | the queue; the shot's status |
| Inference run (`routers/inference.py`) | an open transaction, an output file, an asset row | build the parameters, call an engine, write back the seed, thumbnail, insert and commit | the row it read at its start; the database's write lock |
| Task checkpoints (`checkpoint.py`) | one JSON file per task | save (temporary file, fsync, rename), load, remove, list | the queue, startup |
| Shots and projects (`routers/shots.py`, `projects.py`) | `projects`, `shots`, cascades | create, update, delete, clear | rows under tasks that are running |
| Uploads (`routers/uploads.py`) | files, `assets`, `shot_refs` | check the limits, store, insert | references of a shot, deletions |
| H3 grid (`h3/spec.py`) | none | frames, sizes, task type, reference groups | inference, and its copy in the page |
| Runtime settings, engine registry (`settings_store.py`, `engine_registry.py`) | `settings.json` | load, merge, save | every handler, every attempt |
| ComfyUI and vllm-omni adapters (`routers/comfy_engine.py`, ...) | the executor singleton, output directory | run a graph, wait, pick the output | overlapping inferences |
| Startup, health (`main.py`, `runtime_state.py`) | process phase | init database, resume, clean up | the queue, checkpoints |
| Browser page (`assets/js/shared.js`) | DOM chips and fields, a copy of the shots, slots, one poll timer | select, edit, upload, reload, submit, poll | shots, uploads, submissions |
| Watermark (`watermark.py`) | the video, temporary files, a sidecar | embed, mux, read back, retry policy | the finished video; `_attach_provenance` |
| Integrity (`security/`, `scripts/*integrity*`) | manifest, two signatures, keys, a secret | generate, sign, verify, self-check, release gate | startup; git carries some of it between machines |
| Launcher (`scripts/clean_launch.py`) | a port, a child process | probe, start, wait, open the browser | other launchers and processes |
| Configuration, logging, version, history, other scripts | none shared with the above | | |

### Where it is hard

* Three lifetimes. Rows and checkpoint files outlive the process; the queue, the
  executor and the threads do not; an abandoned inference thread outlives the
  `_run_task` that started it and still commits.
* Two commits for one result: the asset is inserted by the inference thread, the
  status by the pool thread.
* Deletions cascade to rows whose tasks are queued, running or between two commits.
* Exceptions leave `_run_task` into a future that nobody reads.
* The page works in promise chains: a save, then a post, or an upload, then a save,
  then a reload; the user goes on in between, and each step can fail.
* The payload goes through the form, the shot, the row and a write-back, and two
  programs in two languages compute the same sizes.
* Coroutines and threads mix: an upload keeps the event loop to itself, but the
  handlers that delete under it run in threads.
* Things are read and acted on later without a lock: the settings file, the next
  shot number, a free port, the executor's outcome, the newest file of a directory.
* One timer and one timeline serve answers that arrive in any order.
* What is written (a manifest, a watermark, a database version) is read by another
  program, or the same at another version, on another machine.

What makes it correct: a task runs at most once at a time and is never forgotten;
a finished task keeps its outcome and its result exists; the shot a user sees agrees
with its tasks; checkpoints exist exactly while they are needed; every submission
ends; what is generated is what the page announced, and attempts of one task agree. A
call delivers its own video; limits of a shot hold and files match rows; the page ends
up on the current project and the newest task; only signed code serves, over a database
that fits it; a mark that was embedded can be read.

## 2. The queue: `QueueManager`

### State

`status`, `result` are `generation_tasks.status` and `.result_asset_id`, `shotStatus`,
`shotResult` the same of `shots`, `assets` the result rows; `"absent"` is a row not yet
inserted, `"deleted"` one that is gone (ids are uuids, so they never come back). `txn`
is SQLite's write lock while an inference thread holds its transaction open; every
other transaction of the code starts and commits inside one handler without waiting
for anything, and is one action guarded by `CanWrite`. `ckpt` is the set of tasks that
have a file. `phase`, `restoring` are the progress of `startup()`. `queue`, `workerLoop`,
`pool` are `_queue`, the worker thread with `_worker_started`, and the executor's own
queue. `pc`, `job`, `retry`, `att`, `snap` are the locals of each pool thread, `inf` the
state of each inference thread, `completedSince` the counter. `handler` is where a
`submit_generation` is after its commit.

### Actions

One per stretch of code between two points where another thread can act visibly:
commits, lock releases, thread starts, file operations. `RunTask(w)` is `_run_task`:
`TakeTask` - `MarkProcessing` - `SaveAndLaunch` - (`GotResult` | `GotError` | `TimedOut`) -
(`CompleteTask` - `Settle` - `SnapshotRow`* - `SnapshotDone` | `NoteRetry`, back to
`MarkProcessing` | `FailTask` - `Discard`). `SaveRaises` and `LockExpires` are the exceptions
that leave it. `RemoveCheckpoint` may fail, which the code only warns about; `unremoved` remembers that.

Merged, because no other actor can tell: the worker loop's pop and `submit`; taking a
work item and the first `SELECT` (the row can only disappear later as well); saving the
checkpoint, starting the thread and its first `SELECT`; removing a checkpoint, counting
and the snapshot's `SELECT`. `TimedOut` covers the expired wait and an engine's own
`TimeoutError`, which is the same class on the Python versions the project supports.

### The abstract specification

`TaskLifecycle` is the state machine that `queue_manager.py:29-33` declares, seen through
the database by a client: submitted, pending, processing, completed with a result or failed,
processing back to pending after a restart, deleted at any time. `QueueManager` implements it
with `status` and `result` themselves as the refinement mapping: retries, threads, timeouts,
late commits and crashes show no other transition. `LifecycleSpec` is checked by
`qm_serial` and proved.

### Fairness

`FairSpec` adds weak fairness of `Startup` (the operator restarts a dead process, and the
hook is straight-line code), `Dispatch` (the daemon thread), `SubmitReturns(t)` (a handler
that has committed finishes), `RunTask(w)` (a pool thread that is not blocked runs: this
includes the timeout of its wait, which is real time) and `InferenceCommits(a)` (after the
engine returned, the thumbnail has a 30 s limit). There is none for users, for the engine
(an inference may hang for ever) or for crashes. `CHECK_DEADLOCK FALSE`: when users stop
asking, the system rests.

### Runs

| run | instance | shows |
|---|---|---|
| `qm_serial` | one pool thread (the default), two tasks on two shots, one retry, snapshot after every completion, files that cannot be removed, one crash | `TypeOK`, `NoStaleCheckpoint`, `LifecycleSpec`, and under fairness `EverySubmissionSettles` |
| `qm_parallel` | two pool threads, three tasks, two of them on one shot, snapshot after two completions, one crash | `NoTaskLost`, `ShotAgreesWithTasks`, `RunningIsCheckpointed` |
| `qm_faults` | two pool threads, one retry, one crash, with every fault: no new thread, checkpoint directory not writable, checkpoint not removable, database locked | `ScheduledOnce`, `AttemptsDoNotOverlap`, `CompletedHasItsAsset`, `FinishedStaysFinished` |
| `qm_lock` | one pool thread, two tasks, locks | violation of `TimedOutDoesNotStayProcessing` |

`MaxRestarts` bounds crashes, and with `TaskRetryMax` the number of attempts. One crash is
enough for the hazards of recovery, since a restart forgets everything but rows and
files, and each of these is in any state when it happens; two threads and two tasks of one shot
are what every race between threads needs, the third task is the one that a snapshot or a
cleanup hits from outside. The proofs remove the bounds. The pool threads are symmetric in
the runs with two; they appear in no property that symmetry could hide, and liveness is
checked without symmetry.

`NoTaskLost`, `ShotAgreesWithTasks` and `RunningIsCheckpointed` are not checked in `qm_faults`,
because faults break them: a locked database or a full disk makes `_run_task` raise with the row
still processing; without its thread the loop never takes what is queued, and the row marked failed
has a shot that stays queued; a file that was not written is not there. `NoStaleCheckpoint` leaves out the files
that this process tried to remove and could not, and needs a single pool thread: with two, a snapshot taken by one thread can recreate the file of a task that the
other one has just finished, until the next startup. Section 6 has which fault each theorem excludes.

## 3. From the page to the parameters

`H3Spec` has the frame grid, presets, ratios and sizes of `h3/spec.py`, and `PageFrames`,
`PageDims`, the formulas that the page evaluates for its readouts; `JsMod` is JavaScript's
remainder. Durations are whole seconds, which is all that the submission accepts.

`GenerationRequest` is the checks of `submit_generation` and `_build_params` as operators. `Knobs` are the
parameters (steps, sampler, denoise, reference size) that a request may leave `Open`: `EffectiveKnobs` takes them from
what `settings.json` holds at the attempt, a value chosen anew for each (`SettingValues`), since any client may post
settings at any time. `reads` remembers it.

`GenerationPage` composes them with the page. `copy` and `shown` are what the page knows of
`row` and `shotRefs` since its last reload; `chips` and `readout` are the switched-on aspect, preset and frame mode
and the size displayed; `drawn` is what `renderFrameSlots` displayed last, and `pushed` what answers of uploads
added since without a new display (`Push`). Fields that are read only at the click are chosen at the click
(`Forms`), whatever number they hold: `Badge` is what stands beside the duration, `ActiveParams` what is posted of it. Uploads and submissions
overlap freely, each known by the number of its start. An upload is three steps, `FileUploaded` (the callback runs after a failure too),
`SlotsSaved` and `Reloaded`; a submission two, `ShotSaved` (the params replace the old ones,
the prompt is read again) and `Posted`. Each step may fail, or succeed and lose its answer.
`StartAttempt`, `AttemptEnds` and `AttemptRecords` are the attempts that the queue orders one
after the other (`AttemptsDoNotOverlap` of `QueueManager` justifies this). `pushed`, `submitted`,
`clicked`, `attempts`, `reads` and `recorded` are history that no code reads.

`FramesAsShown`, `SlotsAsShown`, `AttemptsAgree` and `RecordedIsReproducible` state exactly when the promise holds; what they
leave out is in section 5.

| run | instance | shows |
|---|---|---|
| `page_i2v` | the image page, one shot as one of three earlier visits left it, two images (one that cannot be opened), two starts of an upload or a submission, durations in the range, out of it or none, settings of 20 or 30 steps, one task of the page or of another client, two attempts | `TypeOK`, `FramesAsShown`, `SlotsAsShown`, `AttemptsAgree`, `RecordedIsReproducible`, `SizeFormulasAgree` |
| `page_size` | the text page with two aspects and two presets | violation of `SizeAsShown` |

Bounds: `MaxTasks` posted tasks, after which the user rests (a submission under way may still post another, of which no attempts are
made); `MaxStarts = 2`, so that two uploads, two submissions, or one of each overlap in
every way, over shots that already have an image or a slot map (`Stored`), so that no start is spent on producing them; `MaxAttempts`,
two to compare; one file per upload; `SeedLimit` stands for 2^32, and a
form tries 0. A clock of exactly 0 modulo 2^32 ms is left out. There is
no fairness: nothing here is a promise to the user that something will happen.

## 4. The other components

None of the four runs here states fairness: their properties are about states, and nothing
in this code promises that a user, an engine or an encoder goes on. `CHECK_DEADLOCK FALSE` in
each: when everyone is done, the instance rests.

### Settings and inference calls: `SettingsStore`, `InferenceRun`

`SettingsStore` is `settings.json` (`file`, `stored`) with the handlers that may be inside
`update()` at once. `Update`, `Truncate` and `Write` are its load and merge, the opening for
writing, and the writing; `StoreCrash` cuts anything off. `answered` and `calm` are history: the values
that answers confirmed, and whether any two updates overlapped. A patch may be empty: it truncates and writes as any other. `ActiveEngine` is
`resolve("inference_backend")` followed by the registry's check of the name.

`InferenceRun` is one call of `run_inference` per member of `Calls`. The queue attends to one at a
time (`attended`), but one that it gave up runs on (`GiveUp`), as `QueueManager` shows. What calls share is
here: the executor singleton (`kernel`, `holder`, `success`), the output directory (`generated`,
in the order of modification times), the settings. `SaveVideo`, `ExecuteSucceeds`, `ExecuteFails`, `Check`, `Collect`, `Copy`,
`Move` and `Record` are the stretches of `_run_in_process`, `run` and `run_inference` between which another thread can act; the last two may
fail (`MoveFails`, `RecordFails`), which leaves a video in `assets/` without a row. A video is the
call whose engine made it and whether it is whole. `given` and `shown` are the conditioning inputs
of the task and those that reach the model.

| run | instance | shows |
|---|---|---|
| `inference` | two calls with both frames, every engine in-process and external, two settings handlers, two updates, a registered and an unknown engine name, crashes | `TypeOK`, `SettingsKept`, `OwnVideo`, `FirstFrameKept` |
| `engine_frames` | the same | violation of `FramesReachTheModel` |
| `provenance` | the same | violation of `ProvenanceAttached` |

Two calls, because the property is about another one beside one's own; the second may start while the
first, given up, is anywhere. `MaxUpdates = 2`: an update to overlap with, or one to follow on a torn file.
`SettingsKept` and `OwnVideo` say under which condition the code is right (no two updates at once, no
two calls in the kernel at once). Without the condition both fail, and no document of
the repository promises them then.

### Watermark

A video is its shape, its number of frames and whether it has sound; a block of a frame is a number
that says how strongly it supports the bit that was embedded (`Reading`); the transform, the strength and the bit
flips behind it are not modelled, and a damage is at worst the prediction of another block (`Strong`).
The writer (`Segments`, `Block`) and the reader (`Place`, `Votes`, `Restored`, `DecodesAt`) compute the layout
separately, as the code does: the reader does not know the number of segments and tries them all. `Encode`, `CopyAudio`,
`Mux`, `Replace`, `Cleanup` and `Policy` are `embed_video` and `embed_video_with_policy` with each way to fail. Two of them leave the
policy as an exception: ffprobe that cannot be run or times out (`ProbeRaises`), and a sidecar that cannot be written
("unwritten"). `Unlink` may leave a temporary file (`stuck`). `Results` lists what is returned or raised.

`watermark` checks five shapes (4 blocks, too few to cut a payload; 8, 9 and 28, the last more than a payload needs;
an odd width), payloads of one to three segments and just over the limit, up to ten frames, one damaged block or frame, every failure, one
retry: `EmbeddedIsRecovered`, `DamageIsOutvoted`, `FailureIsAccounted`, `OriginalKept`, `TypeOK`. The numbers of
the code (4096 bits, checkpoints 8 to 48) are scaled down to 27 bits and checkpoints 2, 6 and 9, so that
segments wrap and rotations return to their place within the bound; nothing compares them with anything else.
`DamageIsOutvoted` says when three copies of a segment help: when the rotation puts them in three places (`Spread`). It
does not always: with 9 blocks and 19 bits, three segments and a rotation by a third of the blocks bring a copy back to the same
block after nine frames, and in ten frames one block that is always wrong has two votes of three.

### Release and Startup

`Release` has the working trees of several machines and what git does not carry: the private key and the HMAC secret.
Contents are small numbers, a hash is its content, a signature names its key and what it is over.
`Edit`, `Generate`, `NewKeys` and `WritePublicKey`, `Sign`, `CheckOut` are the scripts and git; `CiGate`, `ReleaseGate` what
a commit is asked, `SelfCheck` what a start is asked. CI's gate has no secret and so passes Ed25519 signatures only; the release gate, as the self-check it
runs, is content with an HMAC of its own machine, so a checkout remembers which gate it `Passed`, and `SignedElsewhere` is the tree that this
gate passes and no other machine starts. `Startup` launches processes on one of the machines: `Launch` (the
search for a port), `Import` (`main.py` loads the modules, before anything is checked), `CheckSelf` (hashes the files, as they are by then), `Create`, `Alter`, `Stamp` (each SQL statement outside a transaction commits by itself), `Resume`,
`Bind`, `WaitPort` (the launcher's), and `End` at any point.

`release` checks two machines, two modules of two versions, two keys, four operations on the trees and two launches:
`GatedStarts`, `RunsSignedCode`, `SchemaFits`, `OpensItsOwn`, `TypeOK`. Four operations are an edit, a generation, a
signing and a checkout, or a rotation in between. Versions of the module `database` are schema
versions, so both an upgrade and a downgrade with a kill in the middle occur. The exceptions are part of the
properties: a file changed between `Import` and `CheckSelf` (`Confirmed`), `torn` (newer code changed tables and was killed before it stamped them, then older code accepts the
database), `overlapped` (a second process migrates below the first), `raced` (two launchers chose one port).

### Library, References and ProjectPage

`Library` has the rows `projects`, `shots`, `assets`, `refs` and the files of `uploads/`. A handler is split where
another can act: `CreateShotReads` / `CreateShotInserts` around the read of the maximum, `UploadStored` / `UploadProbed` / `UploadInserted`
around ffprobe and the insert, `ClearRows` / `ClearLists` / `ClearUnlinks` around each unlink, for each thread that clears. `UploadFails` is any other exception after the file was
written, a locked database's among them, and `Restart` the end of the process with the start of the next. `upload_ref` is a coroutine that
awaits nothing after the body, so `LoopIsFree` is part of its guard; the others are threads.
`References` follows a shot's references out of these rows: `Listed` (`list_shots`), `Tag` (the number that the page gives
each reference among those of its kind), `Materials` (`_build_params`), and the lists that diffusers, vllm-omni and comfy get, each made by code of
its own: `Grouped` and `Pairs` (`group_refs`), `ScaledImages`, `VllmLists`, `Normalised` and `ComfyImages`. `ProjectPage` adds one page: `current`, `view` (the timeline), requests that are read by the
server and answered in any order or fail, and the polling (`timer`, `polls`) of tasks whose life is `Later`, the
transitions of `TaskLifecycle`.

`library` checks two projects, three shots, three uploads, two threads, two tasks, three requests, two clearings (one by the page). Three
uploads are what it takes to exceed a limit of two files, or of one sound beside its video, to pair a sound, and to mix three references of
all kinds; no instance small enough has a fourth, which would exceed `MaxRefs`, but the theorem about the limits has every number. `audience` is a bound: the library is met
by editors from empty, or by uploaders, or by one page, the last two on a library whose projects have shots; the first two beside everything that
deletes and restarts, the page with the deletions that its own buttons ask for.
Properties: `LimitsHold`, `AudioHasItsPicture`, `FilesMatchRows`, `OrderIsTotal`, `TimelineIsCurrent`, `NewestIsFollowed`, `TagsNameTheReferences`, `TypeOK`.
`raced`, `lost`, `stray`, `overtaken` and `crossed` name the races that the code does not exclude: a number
taken from a stale maximum, a clear that meets an upload, a file kept, not unlinked or left by a failing insert, a vanished shot or the end of the process, an overtaken answer, a polling that met another's.

## 5. What disagrees with the documentation

Each of these is a run that TLC must find violated.

* `qm_lock`: the update that marks a timed-out task failed can itself raise "database is locked",
  while another inference holds its transaction across ffmpeg; the row stays processing until a restart.
* `page_size`: aspect and resolution moved to folding groups and are no longer posted; the readout
  still follows them.
* `engine_frames`: the default engine's workflow for image-to-video gets the prompt and the sizes; no code of it reads
  the frames that the README offers.
* `provenance`: every engine returns a path, and only bytes go through `_attach_provenance`.

Met while modelling and left as observations, with no run of their own:

* A timed-out inference goes on beside the next task, although `config.py` calls a concurrency of 1 serial.
* `TaskCheckpoint.save` says that a failure only warns; `makedirs` and `mkstemp` are outside its `try`, and its call is outside
  the `try` of `_run_task`.
* The badge beside the duration shows frames for any number (`shared.js:1029`); one outside 4 to 15 is not posted (`shared.js:624`) and the
  server makes 8 seconds (`inference.py:57`). `FramesAsShown` says that the badge is right for 4 to 15 and for nothing else.
* An upload's answer changes what the next click posts before the slots are drawn again (`shared.js:485`): an image may be posted
  for a slot displayed empty. In last-frame mode the first slot, displayed as disabled, is posted before the last one (`shared.js:931`).
* An explicit seed 0 is replaced by the clock at each attempt, although `generations.py:65` says that retries, resumes and replays
  reuse the seed. What a request leaves open is resolved from `settings.json` at each attempt and not recorded (`inference.py:138`): after an
  update the same seed reproduces nothing.
* `POST /system/settings` neither validates values nor looks at the lock that `POST /engine/switch` answers 409 for.
* `watermark.py:8` and `inference.py:26` say that a failure never affects the output. A mux that fails over its own source can destroy the
  video, and a failed copy of the sound leaves a video without it, reported as marked. `OriginalKept` says what is safe: a video without sound.
* `watermark.py:16` and `inference.py:28` forbid a silent pass with a key. `_probe` raising (called outside the `try` at `watermark.py:403`), or a
  sidecar that cannot be written (`watermark.py:581`), reaches `except Exception` at `inference.py:42` and is ignored, even in the block mode.
* Videos shorter than the first checkpoint are marked and never read back.
* `main.py:78` says that tampered code must not run; the modules are imported at `main.py:14` and on, before the check hashes the files, and some
  only when they are first needed (`inference.py:33`), long after it.
* `verify_release_integrity.py:6` says Ed25519; an HMAC that only its own machine can check passes the gate as well.
* `sign_integrity_manifest.py` leaves a signature that did not read back in place of the one before it.
* A second launch takes the next port and resumes the same tasks; two launchers may choose the same port.
* `group_refs` promises tracks aligned with the videos; they are in the order of the sounds, and a video without one is skipped. The comfy
  engine passes two images and neither videos nor sounds, although `README.md:15` lists all three.
* A foreign key that fails in `upload_ref` because its shot went, an INSERT that raises on a locked database, and a process that ends
  after `write_bytes` leave the file without a row; an INSERT or commit that raises in `run_inference` leaves one in `assets/`.
* Polling a deleted task never ends: the 404 has no status. A deleted project stays the page's current one.

## 6. What is proved

Every safety invariant and action property of the passing runs is a theorem, for every value of the constants: any number of
tasks, threads, uploads, machines, frames or bits, where a run has two or three. The only
assumptions are the named ones on the constants (`ConstantsAssumption`, `RequestAssumption`, `PageAssumption`, `SettingsAssumption`,
`LibraryAssumption`, `ReleaseAssumption`, ...: types, finiteness of what the code can only have finitely many of, `None` being none of the
values). Each proof that a step keeps an invariant has one step per action, and under it one per conjunct that the action disturbs.

### The queue: `QueueManagerProofs`, `QueueRecoveryProofs`

| theorem | property | holds |
|---|---|---|
| `TypeCorrect` | `TypeOK` | always |
| `SchedulingCorrect` | `ScheduledOnce` | always |
| `AttemptsCorrect` | `AttemptsDoNotOverlap` | always |
| `CompletedCorrect` | `CompletedHasItsAsset` | always |
| `ImplementsLifecycle` | `LifecycleSpec`, the refinement of `TaskLifecycle` | always |
| `FinishedForGood` | `FinishedStaysFinished` | always |
| `NothingLost` | `NoTaskLost` | without faults other than failing unlinks |
| `ShotsAgree` | `ShotAgreesWithTasks` | unless a thread cannot be started |
| `RunningCheckpointed` | `RunningIsCheckpointed` | unless the disk refuses a checkpoint |
| `NoStaleFile` | `NoStaleCheckpoint` | with one pool thread; it leaves out files this process could not remove |

The first six follow from one inductive invariant, `IInv`:

* `PhaseInv`: nothing of the process exists while it is down or cleaning up;
* `LoopInv`: what the queue and the pool may hold before the worker thread exists;
* `SlotInv`: a thread is free exactly when it has no job; one that waits or completes holds an attempt of
  its own task, done in the latter case;
* `ScheduledOnce` itself;
* `StatusInv`: the row of a task at each place of the pipeline is unfinished, or was deleted. This is
  what `FinishedForGood` and the refinement need: a thread about to write a row knows what it was;
* `FreshInv`: an id that was never submitted has left no trace, so a submission starts from nothing;
* `OwnerInv`: a live attempt is the one its pool thread waits for, or its task is failing or out of the pipeline.
  Without it `AttemptsDoNotOverlap` is not inductive: a retry could start beside a thread abandoned earlier;
* `ResultInv`: a result belongs to its task, only completed tasks have one, and its asset exists; the asset of
  an attempt that is done exists as long as its task's row does.

The other four rest on `IInv` and on what recovery needs. `NoTaskLost` and `RunningIsCheckpointed` are inductive with `IInv`: at each step the task that leaves one place
arrives at another, and only its own thread removes the file of a task being run. `ShotInv` adds
that a task has its shot's row and that the loop's thread is not dead; the three commits of a pool thread then write both rows with one status.
`FileInv` adds that files belong to submitted tasks, that a task whose handler may yet mark it failed has none, and that the rows
a thread has still to snapshot are as unfinished as when it read them: the conjunct that a second thread breaks.

### From the page to the parameters: `GenerationPageProofs`

| theorem | property or statement |
|---|---|
| `NextOnGrid` | every duration lands on the nearest count of the grid above it |
| `BadgeIsTrue` | the page's and the server's counts are equal for all durations in spite of two remainders |
| `SidesFitTheCanvas` | rounded sides are aligned and fit the canvas |
| `PageTypeCorrect` | `TypeOK` |
| `BadgeKept` | `FramesAsShown`, from the two grid theorems and the exact range in which the badge is right |
| `SlotsKeptToTheEnd` | `SlotsAsShown` |
| `RetriesAgree` | `AttemptsAgree` |
| `SeedReproduces` | `RecordedIsReproducible` |
| `SizesAgree` | `SizeFormulasAgree` |

`PageInv` is `TypeOK` with `SlotInv` (slot maps of the row, of the page's copy and of an upload name images that are uploaded, and the slots
that a click would post `Follow` those displayed: they differ only where an empty slot was filled by an image of `pushed`),
`SubmissionInv` and `TaskInv` (a submission on its way, and a task made from it, agree with what the click saw, `AsShown`; `ReadsInv`: the knobs
of an attempt are those of the request completed by what that attempt read; `SeedInv`: the
seed of an attempt is the stored one, or a clock's until the first attempt that records it). Images are only ever added, so
what was true of the references at the click is still true at each attempt. `Follow` is what makes `SlotsAsShown` more than an equality of
two copies: every action that changes what would be posted has to show that it draws the slots again or only fills an empty one.

### Settings and inference calls: `InferenceRunProofs`

| theorem | property | invariant |
|---|---|---|
| `RunTypeCorrect` | `TypeOK` | `TypeInv`: types; two files of the directory never have one name (`OneName`), and a file named for a call fits where the call stands (`FilesFit`) |
| `SettingsCorrect` | `SettingsKept` | `StoreInv`: while no updates overlap, at most one handler is busy, the object it will write is the confirmed one with its patch merged, and the file holds what was confirmed or is empty because that handler emptied it |
| `OwnVideoCorrect` | `OwnVideo` | `OwnInv`: external and in-process ComfyUI exclude each other, whoever is in the kernel has a holder, two calls in it are both marked as sharing, and the result of one that is not is its own at each stage up to the asset, the newest file of the directory included (`ResultIsOwn`) |
| `FirstFrameCorrect` | `FirstFrameKept` | `FrameInv`: a call outside comfy has shown the first frame and, for each input left out, another of the same argument; only diffusers renames |

### Watermark: `WatermarkProofs`

| theorem | property | argument |
|---|---|---|
| `MarkTypeCorrect` | `TypeOK` | `MarkInv`: types, where the attempts stand (`Attempts`, with the temporary files that could not be unlinked), what the outcome says of the video (`Outcome`), what is left of the original (`Untouched`: only a video with sound reaches the mux), and that only an accepted video was encoded |
| `FailuresAccounted` | `FailureIsAccounted` | `MarkInv` |
| `OriginalSafe` | `OriginalKept` | `MarkInv` |
| `PayloadRecovered` | `EmbeddedIsRecovered` | `ReadInv`: a reading that failed found no readable checkpoint; without damage a checkpoint after the last segment is readable |
| `DamageOutvoted` | `DamageIsOutvoted` | of three copies of a bit at most one is damaged (`OneDamaged`, `ShiftedRest`), and a sum of votes over any number of blocks is decided by the others (`VotesDecide`) |

### Release and startup: `StartupProofs`

| theorem | property | invariant |
|---|---|---|
| `StartTypeCorrect` | `TypeOK` | `RelTypeOK`, and the types of the processes and the database |
| `GatesCoverSelfCheck` | `GatedStarts` | `RelInv`: a gated tree agrees with its manifest and is `Vouched` for, by the key it holds or, after a release gate, by an HMAC made elsewhere; a confirmed signature was reported as made, and a key pair that is half written has signed nothing there |
| `SignedCodeRuns` | `RunsSignedCode` | `RelInv` at the self-check, where a module whose file is still what was imported is the one whose hash is compared; carried to the end of the process |
| `SchemaCorrect` | `SchemaFits` | `MigrationInv`, `AloneInv`, `TornInv`: columns up to the version are there, a process that nothing overlaps is the only one starting, and what exceeds the version is being added or `torn` |
| `LauncherOpensItsOwn` | `OpensItsOwn` | `PortInv`: unless raced, whoever has the same port is dead until the launcher has opened its page |

### Library and page: `ProjectPageProofs`, `SumTheorems`

| theorem | property | invariant |
|---|---|---|
| `LibraryTypeCorrect` | `TypeOK` | types, and a task's row goes with its shot |
| `LimitsCorrect` | `LimitsHold` | `LimitInv`: at most one upload is under way, and there is still room for it; threads only take references away |
| `FilesCorrect` | `FilesMatchRows` | `FilesInv`: a file has a row, an upload, a reason to stray or some clear that has yet to reach it (`Swept`); while any clear runs every row made since has `lost` its file's guarantee |
| `OrderCorrect` | `OrderIsTotal` | a number given is above those in the shot, or its shot is `raced` |
| `PollingCorrect` | `NewestIsFollowed` | `PollInv`: unless crossed, the timer, when set, and every status request under way are the newest task's |
| `TimelineCorrect` | `TimelineIsCurrent` | `TimelineInv`: unless overtaken, the request for shots sent last is for the current project; without one under way the timeline already shows it |
| `AudioCorrect` | `AudioHasItsPicture` | `AudioInv`: rows refer to rows; an upload of a sound that is under way has its picture already or its shot is gone for good, because identifiers are never handed out twice and references go only with their shot |
| `TagsCorrect` | `TagsNameTheReferences` | follows from `LimitInv`, `OrderIsTotal`, `AudioInv` and `PairInv`: only an audio reference, or an audio upload under way, has a pair |

`TagsCorrect` compares a count with a place in a filtered list. `KeptIs` says what the filtering loop `Kept` returns for
any list: each item to keep stands at the number of items to keep up to it, and nothing else is there. It is an induction over
the rounds of the loop. `SortedExists` says that references with different numbers can be listed in their order; `OrderIsTotal` makes
them different and `LimitInv` finite, so that `Listed` is not an arbitrary choice.

`SumTheorems` proves what a sum over a finite set is (nothing sums to 0, an element more adds its value, a sum of naturals
is at least each of them) of the fold the community modules define. The induction it takes is over a set of
numbers or of finite sets instead of an operator, from the well-foundedness of `<`.

### What the proofs changed

* A generated signing key must be one that has been in no tree and no signature (`KeysInUse`); with a key that may be generated twice,
  an old signature confirms code nobody signed. Key generation is random, so the model now says so.
* `DamageIsOutvoted` was false with payloads and lengths outside the first bounds (see `Spread` in section 4); the run now has such a case.
* Two processes that start at one time also end `torn`, not only one killed by an update; a launcher is `raced` by each other one that has chosen
  its port, not only by the last.
* The renaming of a call's arguments is a function of its own (`Aliases`), and so is each signature: facts about them are lemmas.

### Only model-checked

`EverySubmissionSettles`: liveness and ENABLED are outside the prover's reach. The four properties of section 5 are violated, so
there is nothing to prove.

## 7. Not modelled

* Failure to start a thread inside `executor.submit` or in `_run_with_timeout`, `CHECKPOINT_EVERY <= 0`, the `model_loaded` flag, the health answer.
* A busy timeout in the handlers other than `upload_ref`: they answer 500, and their transaction is rolled back before any file is touched.
  That of an upload leaves its file and is `UploadFails`; those of the threads are faults and `RecordFails`.
* Parameters of a request that do not parse as numbers (each attempt fails), and the pairing of videos with sounds, which each attempt reads again
  from `shot_refs` (`inference.py`); the page that can pair is not the one of `GenerationPage`.
* The checkpoint of a deleted task is removed by nobody; it is harmless and stays in `ckpt`.
* How the reference page is edited: the chips inside a prompt, and the numbers they get when two uploads are answered in another order than
  they were sent (`shared.js:483`); the history list, thumbnails and everything that is only visual. Names of projects and shots.
* Which nodes of a ComfyUI workflow the sizes, the seed and the file names are written into: a table of assignments without a state.
* The transform behind a block of the watermark, its strength and the search over bit flips: real arithmetic, out of TLC's reach.
* The steps of the release gate that build, unpack or look at docker and ignore files; `check_config_refs.py`,
  `minimal_verify.py`, `check_compose_mounts.py`, `golden_compare.py`, `backup_data.py` and the other scripts: read files or call tools once, alone.
* Configuration, logging, version and history: constants read at import, text, and a query.

## 8. Plan

What is left, most useful first:

1. Abstract specifications of other components, with the refinement proved: `upload_ref` as one atomic step on rows and files; a call of
   `run_inference` as one step from its parameters to its asset.
2. The reference page as a state machine: tags inserted while uploads are answered and the shots reloaded (`shared.js:289`, `:483`).
3. Backups taken while the service runs: the main file of a WAL database copied without its log.
