------------------------- MODULE GenerationRequest -------------------------
(***************************************************************************)
(* What the server makes of one generation request: the checks of          *)
(* submit_generation (backend/routers/generations.py) and the parameters   *)
(* that _build_params (backend/routers/inference.py) derives from the row  *)
(* each time an inference starts.                                          *)
(*                                                                         *)
(* A request is a record [shot, mode, prompt, params, refs]; its params    *)
(* are a record whose fields are None when the JSON object lacks the key;  *)
(* "knobs" are those that fall back on the settings file: ref_image_size,  *)
(* sampler, steps and denoise, with 0 for a value that counts as false.    *)
(***************************************************************************)
EXTENDS H3Spec, Sequences, FiniteSetsExt

CONSTANTS
    Assets,      \* ids of uploaded reference assets
    Kind,        \* assets.kind of each: image, video or audio
    Pixels,      \* the size PIL reads from an image, None when it cannot
    TooLong,     \* the prompts of more than MAX_PROMPT_CHARS characters
    SeedLimit,   \* 2^32 in the code
    Knobs,       \* the parameters that resolve_setting completes
    SettingValues,  \* what resolve_setting may return for one of them
    None

ASSUME RequestAssumption ==
    /\ Kind \in [Assets -> {"image", "video", "audio"}]
    /\ \A a \in Assets : Pixels[a] = None \/ Pixels[a] \in (1 .. 9999) \X (1 .. 9999)
    /\ SeedLimit \in Nat \ {0}
    /\ None \notin Assets /\ None \notin Nat

Durations  == 4 .. 15     \* SUPPORTED_DURATIONS
FrameModes == {"first_frame", "last_frame", "first_last"}
Modes      == FrameModes \cup {"text", "ref"}

IsParams(p) ==
    p = [duration |-> p.duration, aspect |-> p.aspect, resolution |-> p.resolution,
         sizeMode |-> p.sizeMode, seed |-> p.seed, knobs |-> p.knobs]

(* params.get(key, default)                                                *)
Given(v, default) == IF v = None THEN default ELSE v

(* Mutant: the range check admits 2^32.                                    *)
SeedInRangeOffByOne(seed) == seed = None \/ seed \in 0 .. SeedLimit

SeedInRange(seed) == seed = None \/ seed \in 0 .. SeedLimit - 1

(* submit_generation answers 422 unless all of this holds.                 *)
Accepts(r, shotDuration) ==
    /\ r.prompt \notin TooLong
    /\ Given(r.params.duration, shotDuration) \in Durations
    /\ r.mode \in FrameModes \cup {"ref"} => r.refs # <<>>
    /\ r.mode = "first_last" => Len(r.refs) >= 2
    /\ SeedInRange(r.params.seed)

-----------------------------------------------------------------------------
(* _build_params                                                           *)

(* Where the images stand among the references; a reference without an     *)
(* asset is none.                                                          *)
Images(refs) == {i \in DOMAIN refs : refs[i] \in Assets /\ Kind[refs[i]] = "image"}

(* The one image of last_frame is the last frame, otherwise the first two  *)
(* images are the first and, in first_last only, the last frame.           *)
FirstImage(mode, refs) ==
    IF mode \in {"first_frame", "first_last"} /\ Images(refs) # {}
    THEN refs[Min(Images(refs))] ELSE None

LastImage(mode, refs) ==
    LET images == Images(refs)
        left == IF mode = "last_frame" THEN images
                ELSE {i \in images : mode = "first_last" /\ i # Min(images)}
    IN  IF left = {} THEN None ELSE refs[Min(left)]

(* An image that PIL cannot open, or none, leaves the chosen size.         *)
OutputSize(mode, params, refs) ==
    LET first == FirstImage(mode, refs)
    IN  IF params.sizeMode = "follow_first" /\ first # None /\ Pixels[first] # None
        THEN FollowFirst(Pixels[first][1], Pixels[first][2])
        ELSE DimsForResolution(Given(params.resolution, DefaultPreset),
                               Given(params.aspect, "16:9"))

(* Mutant: a new seed for every attempt.                                   *)
SeedFromClock(params, clock) == clock

(* params.get("seed") or the clock: a seed of 0 counts as none.            *)
EffectiveSeed(params, clock) ==
    IF params.seed \in {None, 0} THEN clock ELSE params.seed

(* Open to the settings file: absent, empty or 0.                          *)
Open(params, k) == params.knobs[k] \in {None, 0}

(* read is what each resolve_setting finds in the file as it is just then. *)
EffectiveKnobs(params, read) ==
    [k \in Knobs |-> IF Open(params, k) THEN read[k] ELSE params.knobs[k]]

BuildParams(mode, params, refs, clock, read) ==
    [type   |-> TaskType(mode),
     frames |-> FramesForDuration(Given(params.duration, 8)),
     size   |-> OutputSize(mode, params, refs),
     first  |-> FirstImage(mode, refs),
     last   |-> LastImage(mode, refs),
     seed   |-> EffectiveSeed(params, clock),
     knobs  |-> EffectiveKnobs(params, read)]
=============================================================================
