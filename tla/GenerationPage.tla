--------------------------- MODULE GenerationPage ---------------------------
(***************************************************************************)
(* From a click on "generate" to the parameters of an inference: the page  *)
(* of assets/js/shared.js, the shot row that it reads and overwrites, the  *)
(* request it posts, and the attempts that build their parameters from it. *)
(*                                                                         *)
(* The page works in asynchronous steps.  An upload stores the file, then  *)
(* saves the shot's slots, then reloads; a submission saves the shot, then *)
(* posts.  Between two steps the user goes on: edits, selects, uploads,    *)
(* submits again.  Form fields that are read only at the click are chosen  *)
(* at the click.                                                           *)
(***************************************************************************)
EXTENDS GenerationRequest, SequencesExt

CONSTANTS
    Page,          \* PAGE.id: "t2v" or "i2v"
    Shots, Prompts,
    AspectChips, PresetChips,
    Forms,         \* settings of the form's other fields at a click
    Stored,        \* shots as an earlier visit may have left them
    RandomSeeds,   \* what secrets.randbits may return
    Clocks,        \* what time() % 2^32 may be when an attempt starts
    ApiRequests,   \* requests posted by other clients than the page
    MaxTasks, MaxStarts, MaxAttempts

NoSlots == [first |-> None, last |-> None]
PageModes == IF Page = "i2v" THEN FrameModes ELSE {"text"}

(* What an earlier visit leaves in a shot: its mode, its references and    *)
(* the slots of its params.                                                *)
IsStored(shot) ==
    /\ shot.mode \in PageModes
    /\ shot.refs \in Seq(Assets)
    /\ shot.slots \in [{"first", "last"} ->
                         {a \in ToSet(shot.refs) : Kind[a] = "image"} \cup {None}]

(* A clock of exactly 0 milliseconds modulo 2^32 is left out.              *)
ASSUME PageAssumption ==
    /\ Page \in {"t2v", "i2v"}
    /\ TooLong \subseteq Prompts /\ TooLong # Prompts
    /\ AspectChips \subseteq Aspects /\ PresetChips \subseteq Presets
    /\ RandomSeeds \subseteq 0 .. SeedLimit - 1
    /\ Clocks \subseteq 1 .. SeedLimit - 1
    /\ \A form \in Forms : form.duration \in Int \/ form.duration = None
    /\ \A shot \in Stored : IsStored(shot)
    /\ \A r \in ApiRequests : /\ r.shot \in Shots /\ IsParams(r.params)
                               /\ r.refs \in Seq(ToSet(r.refs))
    /\ MaxTasks \in Nat /\ MaxStarts \in Nat /\ MaxAttempts \in Nat

VARIABLES
    row,          \* the shots table: mode, prompt, duration, and of the params
                  \* the preset (or its default) and the i2v slots
    shotRefs,     \* shot_refs in their order
    copy,         \* the page's copy of the rows (segs' dataset)
    shown,        \* its copy of the references (SHOT_REFS)
    active,       \* the selected shot
    prompt,       \* promptInput.value
    chips,        \* the aspect, preset and frame mode switched on
    readout,      \* the output size displayed (resPx)
    drawn,        \* the slots as renderFrameSlots last displayed them
    pushed,       \* what uploads added to the active shot since then; no code reads it
    uploads,      \* the uploads under way
    submissions,  \* the submissions under way
    starts,       \* uploads and submissions so far (bounds the model)
    tasks         \* the task rows, with the attempts made for them

slotVars == <<drawn, pushed>>
pageVars == <<copy, shown, active, prompt, chips, readout, slotVars>>
vars == <<row, shotRefs, pageVars, uploads, submissions, starts, tasks>>

(* An upload or a submission is known by the number of its start.          *)
Starts == 1 .. MaxStarts

(* i2vSlotsFor: the slots of the shot's params, or else the shot's first   *)
(* images as its stored mode would use them.                               *)
SlotsIn(shot, refs) ==
    IF shot.slots # NoSlots THEN shot.slots
    ELSE [first |-> FirstImage(shot.mode, refs), last |-> LastImage(shot.mode, refs)]

SlotsOf(s) == SlotsIn(copy[s], shown[s])

Init ==
    \E left \in [Shots -> Stored] :
        /\ row = [s \in Shots |-> [mode |-> left[s].mode,
                                   prompt |-> CHOOSE p \in Prompts : p \notin TooLong,
                                   duration |-> 8, preset |-> DefaultPreset,
                                   slots |-> left[s].slots]]
        /\ shotRefs = [s \in Shots |-> left[s].refs]
        /\ copy = row /\ shown = shotRefs
        /\ active \in Shots
        /\ prompt = copy[active].prompt
        /\ chips = [aspect |-> "16:9", preset |-> DefaultPreset, mode |-> copy[active].mode]
        /\ readout = PageDims(DefaultPreset, "16:9")
        /\ drawn = SlotsOf(active) /\ pushed = {}
        /\ uploads = [n \in Starts |-> None]
        /\ submissions = [n \in Starts |-> None]
        /\ starts = 0 /\ tasks = <<>>

-----------------------------------------------------------------------------
(* What the user does on the page.                                         *)

(* Mutant: a reload does not draw the slots again.                         *)
DrawsNothing(shot, refs) == UNCHANGED slotVars

(* renderFrameSlots; the text page, whose shots have no images, shows no   *)
(* slots.                                                                  *)
Draw(shot, refs) ==
    /\ drawn' = SlotsIn(shot, refs)
    /\ pushed' = {}

(* selectShot: shows the page's copy, not what was typed since.  Only i2v  *)
(* has preset and frame mode among the controls that readbackParams sets.  *)
Display(s, rows, refs) ==
    /\ active' = s
    /\ prompt' = rows[s].prompt
    /\ chips' = IF Page = "i2v"
                THEN [chips EXCEPT !.preset = rows[s].preset, !.mode = rows[s].mode]
                ELSE chips
    /\ readout' = PageDims(rows[s].preset, "16:9")
    /\ Draw(rows[s], refs[s])

SelectShot(s) ==
    /\ Display(s, copy, shown)
    /\ UNCHANGED <<row, shotRefs, copy, shown, uploads, submissions, starts, tasks>>

(* A click on a frame mode.                                                *)
PickMode(m) ==
    /\ Page = "i2v"
    /\ chips' = [chips EXCEPT !.mode = m]
    /\ Draw(copy[active], shown[active])
    /\ UNCHANGED <<row, shotRefs, copy, shown, active, prompt, readout, uploads,
                   submissions, starts, tasks>>

EditPrompt(p) ==
    /\ prompt' = p
    /\ UNCHANGED <<row, shotRefs, copy, shown, active, chips, readout, slotVars,
                   uploads, submissions, starts, tasks>>

(* A click on an aspect; the i2v page has no preset group to read from.    *)
PickAspect(a) ==
    /\ chips' = [chips EXCEPT !.aspect = a]
    /\ readout' = PageDims(IF Page = "t2v" THEN chips.preset ELSE DefaultPreset, a)
    /\ UNCHANGED <<row, shotRefs, copy, shown, active, prompt, slotVars, uploads,
                   submissions, starts, tasks>>

(* A click on a preset; on i2v it does not refresh the readout.            *)
PickPreset(p) ==
    /\ chips' = [chips EXCEPT !.preset = p]
    /\ readout' = IF Page = "t2v" THEN PageDims(p, chips.aspect) ELSE readout
    /\ UNCHANGED <<row, shotRefs, copy, shown, active, prompt, slotVars, uploads,
                   submissions, starts, tasks>>

-----------------------------------------------------------------------------
(* Upload of an image into a slot (uploadFrame, doUpload).                 *)

UploadFrame(slot) ==
    /\ Page = "i2v" /\ starts < MaxStarts
    /\ starts' = starts + 1
    /\ uploads' = [uploads EXCEPT ![starts + 1] =
                     [stage |-> "file", shot |-> active, slot |-> slot]]
    /\ UNCHANGED <<row, shotRefs, pageVars, submissions, tasks>>

Uploaded == UNION {ToSet(shotRefs[s]) : s \in Shots}

(* The callback gives the slot the shot's newest image and saves the       *)
(* page's copy of the params with it.                                      *)
AfterUpload(n, s, slot, refs) ==
    LET images == Images(refs)
        newest == IF images = {} THEN None ELSE refs[Max(images)]
    IN  uploads' = [uploads EXCEPT ![n] =
                      [stage |-> "slots", shot |-> s, preset |-> copy[s].preset,
                       slots |-> [SlotsIn(copy[s], refs) EXCEPT ![slot] = newest]]]

(* doUpload adds the image to the page's copy and draws nothing.           *)
Push(s, a) ==
    /\ shown' = [shown EXCEPT ![s] = Append(@, a)]
    /\ pushed' = IF s = active THEN pushed \cup {a} ELSE pushed

(* POST /api/upload and its answer, which may be lost on either way.  The  *)
(* callback runs after a failure too.                                      *)
FileUploaded(n) ==
    /\ uploads[n] # None /\ uploads[n].stage = "file"
    /\ LET s == uploads[n].shot
       IN  /\ \/ \E a \in Assets \ Uploaded :
                    /\ shotRefs' = [shotRefs EXCEPT ![s] = Append(@, a)]
                    /\ Push(s, a) \/ UNCHANGED <<shown, pushed>>
              \/ UNCHANGED <<shotRefs, shown, pushed>>
           /\ AfterUpload(n, s, uploads[n].slot, shown'[s])
    /\ UNCHANGED <<row, copy, active, prompt, chips, readout, drawn, submissions,
                   starts, tasks>>

(* PUT /api/shots/{sid} with the params.  Only a lost answer, not an error *)
(* of the server, keeps the page from reloading.                           *)
SlotsSaved(n) ==
    /\ uploads[n] # None /\ uploads[n].stage = "slots"
    /\ LET u == uploads[n]
       IN  /\ \/ row' = [row EXCEPT ![u.shot].slots = u.slots,
                                    ![u.shot].preset = u.preset]
              \/ UNCHANGED row
           /\ \E then \in {None, [stage |-> "load", shot |-> u.shot]} :
                 uploads' = [uploads EXCEPT ![n] = then]
    /\ UNCHANGED <<shotRefs, pageVars, submissions, starts, tasks>>

(* loadProjectShots, which does nothing when its request fails.            *)
Reloaded(n) ==
    /\ uploads[n] # None /\ uploads[n].stage = "load"
    /\ \/ /\ copy' = row /\ shown' = shotRefs
          /\ Display(uploads[n].shot, row, shotRefs)
       \/ UNCHANGED pageVars
    /\ uploads' = [uploads EXCEPT ![n] = None]
    /\ UNCHANGED <<row, shotRefs, submissions, starts, tasks>>

-----------------------------------------------------------------------------
(* Submission (submitGeneration).                                          *)

(* getActiveParams reads the rows of class p-row: on both pages the aspect *)
(* is not one of them, on t2v the preset is not either.                    *)
ActiveParams(form) ==
    [duration   |-> IF form.duration \in Durations THEN form.duration ELSE None,
     aspect     |-> None,
     resolution |-> IF Page = "i2v" THEN chips.preset ELSE None,
     sizeMode   |-> IF Page = "i2v" THEN form.sizeMode ELSE None,
     seed       |-> form.seed,
     knobs      |-> form.knobs]

Filled(a) == IF a = None THEN <<>> ELSE <<a>>

SlotRefs(slots) ==
    Filled(slots.first) \o Filled(slots.last)

(* The badge beside the duration: whatever whole number is in the field,   *)
(* nothing when there is none.                                             *)
Badge(d) ==
    IF d = None THEN None ELSE PageFrames(d)

(* clicked remembers what the page displayed; no code reads it.            *)
Generate(form) ==
    LET slots == SlotsOf(active)
        mode  == chips.mode
    IN  /\ starts < MaxStarts
        /\ starts' = starts + 1
        /\ prompt \notin TooLong
        /\ mode \in {"first_frame", "first_last"} => slots.first # None
        /\ mode \in {"last_frame", "first_last"} => slots.last # None
        /\ submissions' = [submissions EXCEPT ![starts + 1] =
             [stage |-> "save", shot |-> active, mode |-> mode, prompt |-> prompt,
              params |-> ActiveParams(form),
              refs |-> IF Page = "i2v" THEN SlotRefs(slots) ELSE <<>>,
              clicked |-> [slots |-> drawn, pushed |-> pushed, size |-> readout,
                           duration |-> form.duration, frames |-> Badge(form.duration)]]]
        /\ UNCHANGED <<row, shotRefs, pageVars, uploads, tasks>>

(* PUT /api/shots/{sid}: the new params replace the old ones, slots and    *)
(* all.  Whatever its answer, the prompt is now read again to be posted.   *)
ShotSaved(n) ==
    /\ submissions[n] # None /\ submissions[n].stage = "save"
    /\ LET r == submissions[n]
       IN  \/ row' = [row EXCEPT ![r.shot] =
                        [mode |-> r.mode, prompt |-> r.prompt,
                         duration |-> Given(r.params.duration, 8),
                         preset |-> Given(r.params.resolution, DefaultPreset),
                         slots |-> NoSlots]]
           \/ UNCHANGED row
    /\ submissions' = [submissions EXCEPT ![n].stage = "post", ![n].prompt = prompt]
    /\ UNCHANGED <<shotRefs, pageVars, uploads, starts, tasks>>

(* The row that submit_generation inserts: the seed is settled here.       *)
NewTask(r, clicked) ==
    \E seed \in (IF r.params.seed = None THEN RandomSeeds ELSE {r.params.seed}) :
        tasks' = Append(tasks, [mode |-> r.mode, prompt |-> r.prompt,
                                params |-> [r.params EXCEPT !.seed = seed],
                                refs |-> r.refs, submitted |-> seed, clicked |-> clicked,
                                attempts |-> <<>>, reads |-> <<>>, running |-> FALSE,
                                recorded |-> {}])

(* POST /api/generations: accepted, refused, or lost on the way.           *)
Posted(n) ==
    /\ submissions[n] # None /\ submissions[n].stage = "post"
    /\ LET r == submissions[n]
       IN  \/ /\ Accepts(r, row[r.shot].duration)
              /\ NewTask(r, r.clicked)
           \/ UNCHANGED tasks
    /\ submissions' = [submissions EXCEPT ![n] = None]
    /\ UNCHANGED <<row, shotRefs, pageVars, uploads, starts>>

(* Another client may name assets that never existed, but none that is     *)
(* still to come: ids are random.                                          *)
ApiPosted(r) ==
    /\ ToSet(r.refs) \cap Assets \subseteq Uploaded
    /\ Accepts(r, row[r.shot].duration)
    /\ NewTask(r, None)
    /\ UNCHANGED <<row, shotRefs, pageVars, uploads, submissions, starts>>

-----------------------------------------------------------------------------
(* The attempts of a task (run_inference), one after the other, as the     *)
(* retries and restarts of QueueManager order them.  Any client may have   *)
(* changed the settings file before, or between the reads of one attempt;  *)
(* reads remembers what each attempt found there.                          *)

(* References whose asset does not exist count for nothing.                *)
Resolved(refs) == [r \in DOMAIN refs |-> IF refs[r] \in Uploaded THEN refs[r] ELSE None]

StartAttempt(i) ==
    /\ ~tasks[i].running /\ Len(tasks[i].attempts) < MaxAttempts
    /\ \E clock \in Clocks, read \in [Knobs -> SettingValues] :
        LET built == BuildParams(tasks[i].mode, tasks[i].params,
                                 Resolved(tasks[i].refs), clock, read)
        IN  tasks' = [tasks EXCEPT ![i].attempts = Append(@, built),
                                   ![i].reads = Append(@, read),
                                   ![i].running = TRUE]
    /\ UNCHANGED <<row, shotRefs, pageVars, uploads, submissions, starts>>

(* It fails, or it stores its video after a lock refused to let it write   *)
(* its seed, which the code passes over.                                   *)
AttemptEnds(i) ==
    /\ tasks[i].running
    /\ tasks' = [tasks EXCEPT ![i].running = FALSE]
    /\ UNCHANGED <<row, shotRefs, pageVars, uploads, submissions, starts>>

(* Mutant: the seed is not written back.                                   *)
EndsWithoutSeed(i) ==
    /\ tasks[i].running
    /\ tasks' = [tasks EXCEPT ![i].running = FALSE,
                              ![i].recorded = @ \cup {Len(tasks[i].attempts)}]
    /\ UNCHANGED <<row, shotRefs, pageVars, uploads, submissions, starts>>

(* The asset and the seed written back to the payload, in one commit.      *)
AttemptRecords(i) ==
    /\ tasks[i].running
    /\ tasks' = [tasks EXCEPT ![i].running = FALSE,
                              ![i].recorded = @ \cup {Len(tasks[i].attempts)},
                              ![i].params.seed = Last(tasks[i].attempts).seed]
    /\ UNCHANGED <<row, shotRefs, pageVars, uploads, submissions, starts>>

-----------------------------------------------------------------------------
(* Bound: the user rests once MaxTasks are posted; what is under way still *)
(* goes through its steps while the attempts of these MaxTasks run.        *)
User ==
    /\ Len(tasks) < MaxTasks
    /\ \/ \E s \in Shots : SelectShot(s)
       \/ \E p \in Prompts : EditPrompt(p)
       \/ \E m \in FrameModes : PickMode(m)
       \/ \E a \in AspectChips : PickAspect(a)
       \/ \E p \in PresetChips : PickPreset(p)
       \/ \E slot \in {"first", "last"} : UploadFrame(slot)
       \/ \E form \in Forms : Generate(form)
       \/ \E r \in ApiRequests : ApiPosted(r)

Answer ==
    \E n \in Starts : \/ FileUploaded(n) \/ SlotsSaved(n) \/ Reloaded(n)
                      \/ ShotSaved(n) \/ Posted(n)

Attempts ==
    \E i \in DOMAIN tasks :
        /\ i <= MaxTasks
        /\ StartAttempt(i) \/ AttemptEnds(i) \/ AttemptRecords(i)

Next == User \/ Answer \/ Attempts

Spec == Init /\ [][Next]_vars
-----------------------------------------------------------------------------
(* Properties.                                                             *)

AttemptsOf(t) == ToSet(t.attempts)
PageTasks == {t \in ToSet(tasks) : t.clicked # None}

SlotSet == [{"first", "last"} -> Assets \cup {None}]

RowSet == [mode : PageModes, prompt : Prompts, duration : Durations, preset : Presets,
           slots : SlotSet]

ParamSet == [duration : Durations \cup {None}, aspect : {None},
             resolution : Presets \cup {None},
             sizeMode : {None} \cup {form.sizeMode : form \in Forms},
             seed : {form.seed : form \in Forms},
             knobs : {form.knobs : form \in Forms}]

UploadSet ==
    [stage : {"file"}, shot : Shots, slot : {"first", "last"}]
    \cup [stage : {"slots"}, shot : Shots, preset : Presets, slots : SlotSet]
    \cup [stage : {"load"}, shot : Shots]

TypeOK ==
    /\ row \in [Shots -> RowSet] /\ copy \in [Shots -> RowSet]
    /\ shotRefs \in [Shots -> Seq(Assets)] /\ shown \in [Shots -> Seq(Assets)]
    /\ active \in Shots /\ prompt \in Prompts
    /\ chips \in [aspect : Aspects, preset : Presets, mode : PageModes]
    /\ drawn \in SlotSet /\ pushed \subseteq Assets
    /\ uploads \in [Starts -> UploadSet \cup {None}]
    /\ DOMAIN submissions = Starts
    /\ \A n \in Starts : submissions[n] # None =>
         /\ submissions[n].stage \in {"save", "post"} /\ submissions[n].shot \in Shots
         /\ submissions[n].mode \in PageModes /\ submissions[n].prompt \in Prompts
         /\ submissions[n].params \in ParamSet
    /\ starts \in 0 .. MaxStarts
    /\ tasks \in Seq(ToSet(tasks))
    /\ \A i \in DOMAIN tasks :
           /\ tasks[i].params.seed \in 0 .. SeedLimit - 1
           /\ tasks[i].recorded \subseteq DOMAIN tasks[i].attempts

(* Every attempt of a page's task makes a count of frames on the 17k+5     *)
(* grid, the one that the badge beside the duration displayed at the click *)
(* for the numbers 4 to 15, and for no other content of that field, which  *)
(* the page displays a badge for and does not post (shared.js:33, :624 and *)
(* :1029, spec.py:60, inference.py:57).  Two programs compute it and the   *)
(* payload goes through the shot, a retry and a write-back.                *)
FramesAsShown ==
    \A t \in PageTasks : \A b \in AttemptsOf(t) :
        /\ b.frames % 17 = 5
        /\ b.frames = t.clicked.frames <=> t.clicked.duration \in Durations

(* The image is the one displayed in the slot at the click, or was         *)
(* uploaded since the slot was displayed empty.                            *)
InSlot(image, slot, clicked) ==
    /\ image # None
    /\ \/ image = clicked.slots[slot]
       \/ clicked.slots[slot] = None /\ image \in clicked.pushed

(* An attempt uses the images the page displayed in the slots at the       *)
(* click, although it posts what i2vSlotsFor then finds and uploads change *)
(* that without a new display, and whatever is uploaded, saved or reloaded *)
(* afterwards (shared.js:420, :485, :675; inference.py:95-103).  In        *)
(* last-frame mode the first slot, though displayed as disabled, comes     *)
(* before the last one.                                                    *)
SlotsAsShown ==
    \A t \in PageTasks : \A b \in AttemptsOf(t) :
        /\ t.mode \in {"first_frame", "first_last"} => InSlot(b.first, "first", t.clicked)
        /\ t.mode = "first_last" => InSlot(b.last, "last", t.clicked)
        /\ t.mode = "last_frame" =>
               \/ InSlot(b.last, "first", t.clicked)
               \/ t.clicked.slots.first = None /\ InSlot(b.last, "last", t.clicked)

(* What two attempts of one task have in common, the seed apart: all but   *)
(* the knobs that the request leaves open and that the settings file       *)
(* changed meanwhile.                                                      *)
Alike(t, m, n) ==
    /\ \A f \in {"type", "frames", "size", "first", "last"} :
           t.attempts[m][f] = t.attempts[n][f]
    /\ \A k \in Knobs :
           ~Open(t.params, k) \/ t.reads[m][k] = t.reads[n][k]
               => t.attempts[m].knobs[k] = t.attempts[n].knobs[k]

(* Attempts of one task differ in nothing but a seed submitted as 0, and   *)
(* open knobs whose setting was changed between them (inference.py:137,    *)
(* :138-141), whatever is uploaded in between.  generations.py:65 promises *)
(* more: that retries, resumes and replays reuse the seed.                 *)
AttemptsAgree ==
    \A t \in ToSet(tasks) : \A m, n \in DOMAIN t.attempts :
        /\ Alike(t, m, n)
        /\ t.submitted # 0 => t.attempts[m].seed = t.submitted

(* Once an attempt has recorded its seed with its video, the row has it    *)
(* all but the open knobs: every later attempt, after a crash, uses that   *)
(* seed, the clock's for a task submitted with 0 included, and for as long *)
(* as the settings file is left alone builds the very same parameters      *)
(* (inference.py:200-211).                                                 *)
RecordedIsReproducible ==
    \A t \in ToSet(tasks) : \A k \in t.recorded : \A n \in DOMAIN t.attempts :
        n > k => /\ t.attempts[n].seed = t.attempts[k].seed
                 /\ t.reads[n] = t.reads[k] => t.attempts[n] = t.attempts[k]

(* The size the server makes of a request's preset and aspect is the one   *)
(* the page's own formula gives for them, except in follow_first mode      *)
(* (shared.js:43, spec.py:99).                                             *)
SizeFormulasAgree ==
    \A t \in ToSet(tasks) : \A b \in AttemptsOf(t) :
        t.params.sizeMode # "follow_first" =>
            b.size = PageDims(Given(t.params.resolution, DefaultPreset),
                              Given(t.params.aspect, "16:9"))

(* What the size readout is for (res_fold.html:4, shared.js:341): the size *)
(* displayed at the click, for the chosen aspect and preset, is the size   *)
(* of the video.  Neither choice is posted by the t2v page.                *)
SizeAsShown ==
    \A t \in PageTasks : \A b \in AttemptsOf(t) : b.size = t.clicked.size
=============================================================================
