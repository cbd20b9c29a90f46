---------------------------- MODULE InferenceRun ----------------------------
(***************************************************************************)
(* One call of run_inference (routers/inference.py) for each member of     *)
(* Calls, over the engine that the runtime settings choose at its start:   *)
(*                                                                         *)
(*   comfy      routers/comfy_engine.py: the ComfyUI kernel inside this    *)
(*              process, or an external ComfyUI when MMH3_COMFY_URL is set *)
(*   vllm-omni  routers/vllm_omni_engine.py: an external HTTP service      *)
(*   diffusers  _run_diffusers: a ModularPipeline inside this process      *)
(*                                                                         *)
(* MAX_CONCURRENCY is 1, so the queue attends to one call at a time, but a *)
(* call that it gave up at the timeout runs on in its thread.  The calls   *)
(* share one PromptExecutor and one output directory.                      *)
(***************************************************************************)
EXTENDS SettingsStore, Sequences, SequencesExt

CONSTANTS
    Calls,           \* calls of run_inference
    InputSets        \* what tasks carry: sets of keyword arguments

(* alias_map of _run_diffusers, in its order. *)
Aliases == << <<"first_image", "image">>, <<"last_image", "image">>,
              <<"ref_images", "image">>, <<"ref_videos", "video">>,
              <<"ref_audios", "audio">>, <<"ref_video_audios", "audio">> >>

ASSUME InferenceAssumption ==
    /\ Engines = {"comfy", "vllm-omni", "diffusers"}
    /\ None \notin Calls
    /\ \A in \in InputSets : in \subseteq {Aliases[i][1] : i \in DOMAIN Aliases}

VARIABLES
    comfyUrl,        \* MMH3_COMFY_URL is set
    pc,              \* where each call is
    attended,        \* the call whose answer the queue still waits for
    eng,             \* the engine of each call
    given,           \* the conditioning inputs of its task
    shown,           \* those of them that reached the model
    kernel,          \* _engine: the call that built the PromptExecutor
    holder,          \* the executor that each call took from _ensure_kernel
    success,         \* executor.success, of each executor
    generated,       \* assets/generated: its mp4 files, oldest first
    src,             \* the file that a call took for its result
    carried,         \* the video that it carries: whose, and whether whole
    asset,           \* the video behind the assets row that it inserted
    mark,            \* what was done about its provenance
    shared           \* history: two calls were in the kernel at once

callVars == <<comfyUrl, pc, attended, eng, given, shown, kernel, holder, success,
              generated, src, carried, asset, mark, shared>>
runVars  == <<storeVars, callVars>>

NoVideo == [of |-> None, whole |-> FALSE]
Video   == [of : Calls \cup {None}, whole : BOOLEAN]
File    == [kind : {"saved", "copy"}, by : Calls, video : Video]
Name(f) == <<f.kind, f.by>>
InKernel == {"executing", "saving", "check", "collect", "copy"}
Active   == InKernel \cup {"loading", "remote", "post", "pipe", "retry", "fetched",
                         "moved"}

Init ==
    /\ StoreInit
    /\ comfyUrl \in BOOLEAN
    /\ pc = [c \in Calls |-> "new"]
    /\ attended = None
    /\ eng = [c \in Calls |-> None]
    /\ given \in [Calls -> InputSets]
    /\ shown = [c \in Calls |-> {}]
    /\ kernel = None
    /\ holder = [c \in Calls |-> None]
    /\ success = [c \in Calls |-> FALSE]
    /\ generated = <<>>
    /\ src = [c \in Calls |-> None]
    /\ carried = [c \in Calls |-> NoVideo]
    /\ asset = [c \in Calls |-> NoVideo]
    /\ mark = [c \in Calls |-> None]
    /\ shared = [c \in Calls |-> FALSE]

Go(c, place) == pc' = [pc EXCEPT ![c] = place]

(* Another call sits between execute() and the copy of its result. *)
Meets(c) == {d \in Calls \ {c} : pc[d] \in InKernel}

EnterKernel(c) ==
    shared' = [d \in Calls |-> \/ shared[d]
                               \/ Meets(c) # {} /\ d \in Meets(c) \cup {c}]

(* The conditioning that each engine passes on.  The comfy workflow gets   *)
(* the prompt and sizes, and for ref2va the images; no code of it reads    *)
(* first_image or last_image.                                              *)
ComfyTakes(in) == in \cap {"ref_images"}

(* The JSON posted to vllm-omni names the references and both frames.      *)
VllmTakes(in) == in

(* The pipeline is called with every input that is there.                  *)
DiffusersTakes(in) == in

PassedOn(e, in) ==
    IF e = "comfy" THEN ComfyTakes(in)
    ELSE IF e = "vllm-omni" THEN VllmTakes(in) ELSE DiffusersTakes(in)

(* Where the map renames an argument. *)
AliasOf(k) == CHOOSE i \in DOMAIN Aliases : Aliases[i][1] = k

(* A mutant of AfterAliasing: a later argument overwrites an earlier one. *)
LastAliasWins(in) ==
    {k \in in : \A j \in in : Aliases[AliasOf(j)][2] = Aliases[AliasOf(k)][2]
                                  => AliasOf(k) >= AliasOf(j)}

(* A retry renames each argument to its alias unless the alias is taken:   *)
(* of two with one alias the first in the map's order is kept.             *)
AfterAliasing(in) ==
    {k \in in : \A j \in in : Aliases[AliasOf(j)][2] = Aliases[AliasOf(k)][2]
                                  => AliasOf(k) <= AliasOf(j)}

FirstPlace(e) ==
    IF e = "vllm-omni" THEN "post"
    ELSE IF e # "comfy" THEN "pipe"
    ELSE IF comfyUrl THEN "remote"
    ELSE IF kernel = None THEN "loading" ELSE "executing"

(* run_inference: parameters, engine, and the engine's run() up to the     *)
(* point where it waits for a model.                                       *)
Start(c) ==
    /\ pc[c] = "new"
    /\ attended = None
    /\ attended' = c
    /\ eng' = [eng EXCEPT ![c] = ActiveEngine]
    /\ Go(c, FirstPlace(ActiveEngine))
    /\ shown' = [shown EXCEPT ![c] = PassedOn(ActiveEngine, given[c])]
    /\ IF FirstPlace(ActiveEngine) = "executing"
       THEN holder' = [holder EXCEPT ![c] = kernel] /\ EnterKernel(c)
       ELSE UNCHANGED <<holder, shared>>
    /\ UNCHANGED <<comfyUrl, given, kernel, success, generated, src, carried, asset, mark>>

(* The inference timeout of the queue: the thread goes on. *)
GiveUp(c) ==
    /\ attended = c
    /\ attended' = None
    /\ UNCHANGED <<comfyUrl, pc, eng, given, shown, kernel, holder, success,
                   generated, src, carried, asset, mark, shared>>

Detach(c) == attended' = IF attended = c THEN None ELSE attended

(* _ensure_kernel without a lock: two first calls build an executor each,  *)
(* and the last one to finish is kept.                                     *)
LoadKernel(c) ==
    /\ pc[c] = "loading"
    /\ kernel' = c
    /\ holder' = [holder EXCEPT ![c] = c]
    /\ Go(c, "executing")
    /\ EnterKernel(c)
    /\ UNCHANGED <<comfyUrl, attended, eng, given, shown, success, generated, src,
                   carried, asset, mark>>

(* SaveVideo creates its file while executor.execute() runs ... *)
SaveVideo(c) ==
    /\ pc[c] = "executing"
    /\ Go(c, "saving")
    /\ generated' = Append(generated, [kind |-> "saved", by |-> c,
                                       video |-> [of |-> c, whole |-> FALSE]])
    /\ UNCHANGED <<comfyUrl, attended, eng, given, shown, kernel, holder, success, src,
                   carried, asset, mark, shared>>

(* The directory without the file of that name, of which it has one at     *)
(* most.                                                                   *)
Without(name) ==
    LET at == {i \in DOMAIN generated : Name(generated[i]) = name}
    IN  IF at = {} THEN generated ELSE RemoveAt(generated, CHOOSE i \in at : TRUE)

(* ... and execute() returns with the file closed, so the newest.          *)
ExecuteSucceeds(c) ==
    /\ pc[c] = "saving"
    /\ Go(c, "check")
    /\ success' = [success EXCEPT ![holder[c]] = TRUE]
    /\ generated' = Append(Without(<<"saved", c>>),
                           [kind |-> "saved", by |-> c,
                            video |-> [of |-> c, whole |-> TRUE]])
    /\ UNCHANGED <<comfyUrl, attended, eng, given, shown, kernel, holder, src, carried,
                   asset, mark, shared>>

(* A node raised, before or while the video was written. *)
ExecuteFails(c) ==
    /\ pc[c] \in {"executing", "saving"}
    /\ Go(c, "check")
    /\ success' = [success EXCEPT ![holder[c]] = FALSE]
    /\ UNCHANGED <<comfyUrl, attended, eng, given, shown, kernel, holder, generated,
                   src, carried, asset, mark, shared>>

(* A mutant of Succeeded: what the executor says is not asked. *)
SuccessNotChecked(c) == TRUE

(* executor.success is an attribute of the shared executor. *)
Succeeded(c) == success[holder[c]]

Check(c) ==
    /\ pc[c] = "check"
    /\ Go(c, IF Succeeded(c) THEN "collect" ELSE "failed")
    /\ IF Succeeded(c) THEN UNCHANGED attended ELSE Detach(c)
    /\ UNCHANGED <<comfyUrl, eng, given, shown, kernel, holder, success, generated, src,
                   carried, asset, mark, shared>>

(* The workflows save under the prefix video/, the listed name is looked   *)
(* up without it and not found, so the newest file of the directory is     *)
(* taken.                                                                  *)
Newest == generated[Len(generated)]

Collect(c) ==
    /\ pc[c] = "collect"
    /\ IF generated = <<>>
       THEN Go(c, "failed") /\ Detach(c) /\ UNCHANGED src
       ELSE Go(c, "copy") /\ src' = [src EXCEPT ![c] = Name(Newest)] /\ UNCHANGED attended
    /\ UNCHANGED <<comfyUrl, eng, given, shown, kernel, holder, success, generated,
                   carried, asset, mark, shared>>

(* dst.write_bytes(src.read_bytes()): a second file in the directory.  The *)
(* source is gone if it was another call's copy and has been moved.        *)
Copy(c) ==
    /\ pc[c] = "copy"
    /\ \E i \in DOMAIN generated :
          /\ Name(generated[i]) = src[c]
          /\ carried' = [carried EXCEPT ![c] = generated[i].video]
          /\ generated' = Append(generated, [kind |-> "copy", by |-> c,
                                             video |-> generated[i].video])
    /\ Go(c, "fetched")
    /\ UNCHANGED <<comfyUrl, attended, eng, given, shown, kernel, holder, success, src,
                   asset, mark, shared>>

(* An external service answered with this call's own video. *)
Answer(c) ==
    /\ pc[c] \in {"remote", "post", "pipe"}
    /\ Go(c, "fetched")
    /\ carried' = [carried EXCEPT ![c] = [of |-> c, whole |-> TRUE]]
    /\ generated' = IF pc[c] = "remote"
                    THEN Append(generated, [kind |-> "copy", by |-> c,
                                            video |-> [of |-> c, whole |-> TRUE]])
                    ELSE generated
    /\ UNCHANGED <<comfyUrl, attended, eng, given, shown, kernel, holder, success,
                   src, asset, mark, shared>>

(* The pipeline knows no argument of that name: one retry under aliases. *)
PipeRejects(c) ==
    /\ pc[c] = "pipe"
    /\ Go(c, "retry")
    /\ UNCHANGED <<comfyUrl, attended, eng, given, shown, kernel, holder, success,
                   generated, src, carried, asset, mark, shared>>

PipeRetry(c) ==
    /\ pc[c] = "retry"
    /\ Go(c, "fetched")
    /\ shown' = [shown EXCEPT ![c] = AfterAliasing(given[c])]
    /\ carried' = [carried EXCEPT ![c] = [of |-> c, whole |-> TRUE]]
    /\ UNCHANGED <<comfyUrl, attended, eng, given, kernel, holder, success, generated,
                   src, asset, mark, shared>>

Fails(c, places) ==
    /\ pc[c] \in places
    /\ Go(c, "failed")
    /\ Detach(c)
    /\ UNCHANGED <<comfyUrl, eng, given, shown, kernel, holder, success, generated, src,
                   carried, asset, mark, shared>>

(* No kernel directory, or its import or its nodes raise. *)
KernelMissing(c) == Fails(c, {"loading"})

(* The workflow does not validate, for one because its weights are not in  *)
(* model/.                                                                 *)
WorkflowRejected(c) == Fails(c, {"executing"})

(* The external ComfyUI answers an HTTP error, reports an error, names no  *)
(* mp4, or is polled for too long.                                         *)
RemoteFails(c) == Fails(c, {"remote"})

(* The vllm-omni service does not answer 200, or with an empty video.      *)
ServiceFails(c) == Fails(c, {"post"})

(* No diffusers, no weights, another exception, or a second TypeError.     *)
PipeFails(c) == Fails(c, {"pipe", "retry"})

(* The source is gone or is empty. *)
CopyFails(c) == Fails(c, {"copy"})

(* Every engine's run() returns the path of a file. *)
ResultKind(e) == "path"

(* Only bytes go through _attach_provenance; a file is moved as it is.     *)
Provenance(kind) == IF kind = "bytes" THEN "attached" ELSE "unmarked"

(* The file of the result moves to assets/ under a new id ...              *)
Move(c) ==
    /\ pc[c] = "fetched"
    /\ Go(c, "moved")
    /\ generated' = Without(<<"copy", c>>)
    /\ mark' = [mark EXCEPT ![c] = Provenance(ResultKind(eng[c]))]
    /\ UNCHANGED <<comfyUrl, attended, eng, given, shown, kernel, holder, success, src,
                   carried, asset, shared>>

(* ... and its row is inserted and committed, after the seed went back to  *)
(* the task if that was possible.                                          *)
Record(c) ==
    /\ pc[c] = "moved"
    /\ Go(c, "done")
    /\ Detach(c)
    /\ asset' = [asset EXCEPT ![c] = carried[c]]
    /\ UNCHANGED <<comfyUrl, eng, given, shown, kernel, holder, success, generated, src,
                   carried, mark, shared>>

(* The file is gone, or assets/ does not take it. *)
MoveFails(c) == Fails(c, {"fetched"})

(* The insertion or its commit raises, as when another connection keeps    *)
(* the database locked: the file stays in assets/ and no row names it.     *)
RecordFails(c) == Fails(c, {"moved"})

(* The process ends: calls and kernel are gone, files and rows stay.       *)
Crash ==
    /\ StoreCrash
    /\ \E c \in Calls : pc[c] \in Active
    /\ pc' = [c \in Calls |-> IF pc[c] \in Active THEN "failed" ELSE pc[c]]
    /\ attended' = None
    /\ kernel' = None
    /\ UNCHANGED <<comfyUrl, eng, given, shown, holder, success, generated, src,
                   carried, asset, mark, shared>>

Call(c) ==
    \/ Start(c) \/ GiveUp(c) \/ LoadKernel(c) \/ SaveVideo(c)
    \/ ExecuteSucceeds(c) \/ ExecuteFails(c) \/ Check(c) \/ Collect(c) \/ Copy(c)
    \/ Answer(c) \/ PipeRejects(c) \/ PipeRetry(c) \/ Move(c) \/ Record(c)
    \/ KernelMissing(c) \/ WorkflowRejected(c) \/ RemoteFails(c) \/ ServiceFails(c)
    \/ PipeFails(c) \/ CopyFails(c) \/ MoveFails(c) \/ RecordFails(c)

Next ==
    \/ StoreStep /\ UNCHANGED callVars
    \/ (\E c \in Calls : Call(c)) /\ UNCHANGED storeVars
    \/ Crash

Spec == Init /\ [][Next]_runVars

-----------------------------------------------------------------------------
TypeOK ==
    /\ StoreTypeOK
    /\ comfyUrl \in BOOLEAN
    /\ pc \in [Calls -> Active \cup {"new", "failed", "done"}]
    /\ attended \in Calls \cup {None}
    /\ eng \in [Calls -> Engines \cup {None}]
    /\ given \in [Calls -> InputSets]
    /\ shown \in [Calls -> SUBSET UNION InputSets]
    /\ \A c \in Calls : shown[c] \subseteq given[c]
    /\ kernel \in Calls \cup {None}
    /\ holder \in [Calls -> Calls \cup {None}]
    /\ success \in [Calls -> BOOLEAN]
    /\ generated \in Seq(File)
    /\ src \in [Calls -> ({"saved", "copy"} \X Calls) \cup {None}]
    /\ carried \in [Calls -> Video]
    /\ asset \in [Calls -> Video]
    /\ mark \in [Calls -> {None, "attached", "unmarked"}]
    /\ shared \in [Calls -> BOOLEAN]

(* The video behind a call's asset is the one its own engine run made, and *)
(* a whole one, unless another call was inside the kernel at the same time *)
(* (comfy_engine reads executor.success and the newest file after the      *)
(* fact): whatever earlier calls, crashes and abandoned threads left in    *)
(* the output directory, a call that failed never passes for done.         *)
OwnVideo ==
    \A c \in Calls :
        pc[c] = "done" /\ ~shared[c] => asset[c] = [of |-> c, whole |-> TRUE]

(* A result of vllm-omni was conditioned on everything that its task       *)
(* carried.  One of diffusers was too, except that a retry under aliases   *)
(* may have left an input out for another of the same pipeline argument,   *)
(* and never the first frame (_run_diffusers, alias_map).                  *)
FirstFrameKept ==
    \A c \in Calls : pc[c] = "done" /\ eng[c] # "comfy" =>
        /\ "first_image" \in given[c] => "first_image" \in shown[c]
        /\ \A k \in given[c] \ shown[c] :
              /\ eng[c] = "diffusers"
              /\ \E j \in shown[c] : Aliases[AliasOf(j)][2] = Aliases[AliasOf(k)][2]

(* README.md:13 offers image-to-video with first, last and both frames: a  *)
(* finished result was conditioned on a frame when its task has one.       *)
FramesReachTheModel ==
    \A c \in Calls :
        pc[c] = "done" /\ given[c] \cap {"first_image", "last_image"} # {}
            => shown[c] # {}

(* _attach_provenance (inference.py:24) attaches the provenance mark after *)
(* a video is stored.                                                      *)
ProvenanceAttached == \A c \in Calls : pc[c] = "done" => mark[c] = "attached"
=============================================================================
