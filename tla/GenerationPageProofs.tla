------------------------ MODULE GenerationPageProofs ------------------------
(***************************************************************************)
(* What GenerationPage promises about a generation, from the click to the  *)
(* parameters of its attempts, for any number of shots, assets, uploads,   *)
(* submissions and attempts.                                               *)
(***************************************************************************)
EXTENDS GenerationPage, TLAPS, WellFoundedInduction, SequenceTheorems

-----------------------------------------------------------------------------
(* The generation grid, for every duration and length, where the runs      *)
(* evaluate a few of them.                                                 *)

LEMMA BaseFramesNat == ASSUME NEW d \in Nat PROVE BaseFrames(d) \in Nat
  BY DEF BaseFrames, AtLeast, Fps, FrameMin

(* frames_for_duration always lands on the 17k+5 grid that the model needs *)
(* (spec.py:29), never below the frames the duration asks for, and on the  *)
(* nearest such count: less than one block is added.                       *)
THEOREM NextOnGrid ==
  ASSUME NEW d \in Nat
  PROVE  /\ FramesForDuration(d) % FrameBlock = FrameMin
         /\ FramesForDuration(d) >= BaseFrames(d)
         /\ FramesForDuration(d) < BaseFrames(d) + FrameBlock
<1> DEFINE b == BaseFrames(d)
<1>1. b \in Nat
  BY BaseFramesNat
<1> HIDE DEF b
<1>2. /\ (b + ((5 - (b % 17)) % 17)) % 17 = 5
      /\ b + ((5 - (b % 17)) % 17) >= b
      /\ b + ((5 - (b % 17)) % 17) < b + 17
  BY <1>1, SMTT(30)
<1> QED
  BY <1>2 DEF FramesForDuration, FrameMin, FrameBlock, b

(* The badge beside the duration (shared.js:33) and the server             *)
(* (spec.py:60) compute the same frame count, although % differs between   *)
(* the two languages when its left operand is negative.                    *)
THEOREM BadgeIsTrue ==
  ASSUME NEW d \in Nat
  PROVE  PageFrames(d) = FramesForDuration(d)
<1> DEFINE b == BaseFrames(d)
<1>1. b \in Nat
  BY BaseFramesNat
<1>2. AtLeast(d * 24, 5) = b
  BY DEF BaseFrames, AtLeast, Fps, FrameMin
<1> HIDE DEF b
<1>3. JsMod(JsMod(5 - JsMod(b, 17), 17) + 17, 17) = (5 - (b % 17)) % 17
  <2>1. JsMod(b, 17) = b % 17 /\ b % 17 \in 0 .. 16
    BY <1>1 DEF JsMod
  <2> DEFINE r == b % 17
  <2> HIDE DEF r
  <2>2. r \in 0 .. 16 => JsMod(JsMod(5 - r, 17) + 17, 17) = (5 - r) % 17
    BY SMTT(30) DEF JsMod
  <2> QED
    BY <2>1, <2>2 DEF r
<1> QED
  BY <1>2, <1>3 DEF FramesForDuration, PageFrames, FrameMin, FrameBlock, b

(* Every side that _rc or _round_multi returns is at least one pixel block *)
(* and within the native canvas, and a multiple of the alignment, which    *)
(* the cap of 1344 pixels respects (spec.py:91 and :120).                  *)
THEOREM SidesFitTheCanvas ==
  ASSUME NEW v \in Nat, NEW m \in {2, Multiple}
  PROVE  Rounded(v, m) \in m .. MaxDim /\ Rounded(v, m) % m = 0
  BY SMTT(30) DEF Rounded, AtMost, AtLeast, MaxDim, Multiple

-----------------------------------------------------------------------------
Seeds == 0 .. SeedLimit - 1

-----------------------------------------------------------------------------
(* Facts about the operators.                                              *)

LEMMA MinMaxIn ==
  ASSUME NEW n \in Nat, NEW S, S \subseteq 1 .. n, S # {}
  PROVE  /\ Min(S) \in S /\ \A j \in S : Min(S) <= j
         /\ Max(S) \in S /\ \A j \in S : Max(S) >= j
<1>1. ASSUME NEW T, T \subseteq Nat, T # {}
      PROVE  \E x \in T : \A y \in T : x <= y
  <2>1. PICK x \in T : \A y \in T : ~(<<y, x>> \in OpToRel(<, Nat))
    BY <1>1, NatLessThanWellFounded, WFMin, Zenon
  <2>2. \A y \in T : x <= y
    <3> SUFFICES ASSUME NEW y \in T PROVE ~(y < x)
      BY <1>1
    <3>1. y \in Nat /\ x \in Nat /\ ~(<<y, x>> \in OpToRel(<, Nat))
      BY <1>1, <2>1
    <3> QED BY <3>1 DEF OpToRel
  <2> QED BY <2>2
<1>2. \E x \in S : \A y \in S : x <= y
  <2>1. S \subseteq Nat
    OBVIOUS
  <2> QED BY <1>1, <2>1
<1>3. \E x \in S : \A y \in S : x >= y
  <2> DEFINE T == {n - i : i \in S}
  <2>0. \A i \in S : i \in Int /\ n - i \in Nat
    OBVIOUS
  <2>1. T \subseteq Nat /\ T # {}
    BY <2>0
  <2>2. PICK m \in T : \A y \in T : m <= y
    BY <1>1, <2>1
  <2>3. PICK x \in S : m = n - x
    OBVIOUS
  <2>4. \A y \in S : n - y \in T
    OBVIOUS
  <2>5. \A y \in S : x >= y
    <3> HIDE DEF T
    <3> SUFFICES ASSUME NEW y \in S PROVE x >= y
      OBVIOUS
    <3>1. n - x <= n - y /\ x \in Int /\ y \in Int
      BY <2>0, <2>2, <2>3, <2>4
    <3> QED BY <3>1
  <2> QED BY <2>5
<1> QED
  BY <1>2, <1>3 DEF Min, Max

(* The two formulas of the output size are the same, whatever the preset   *)
(* and the aspect are called.                                              *)
LEMMA DimsAgree ==
  ASSUME NEW preset, NEW aspect
  PROVE  DimsForResolution(preset, aspect) = PageDims(preset, aspect)
<1> DEFINE p == IF preset \in Presets THEN preset ELSE DefaultPreset
           s == PresetShortSide[p]
           r == Ratio(aspect)
           CeilTo32(v) == AtMost(-((-AtLeast(v, 32)) \div 32) * 32, 1344)
<1>1. p \in Presets
  BY DEF Presets, DefaultPreset
<1>2. s \in {480, 544, 608, 640, 672, 736, 768}
  BY <1>1 DEF PresetShortSide, PresetSize, Size, Presets
<1>3. r \in {<<21, 9>>, <<4, 3>>, <<1, 1>>, <<3, 4>>, <<9, 16>>, <<16, 9>>}
  BY DEF Ratio
<1>4. \A v \in Int : Rounded(v, Multiple) = CeilTo32(v)
  BY SMTT(30) DEF Rounded, AtMost, AtLeast, Multiple, MaxDim
<1> HIDE DEF s, r, CeilTo32
<1>5. /\ s \in Int /\ r[1] \in Nat \ {0} /\ r[2] \in Nat \ {0}
      /\ (s * r[1]) \div r[2] \in Int /\ (s * r[2]) \div r[1] \in Int
  BY <1>2, <1>3
<1>6. Scaled(s, r[1], r[2], Multiple) =
        IF r[1] >= r[2] THEN Size(CeilTo32((s * r[1]) \div r[2]), CeilTo32(s))
        ELSE Size(CeilTo32(s), CeilTo32((s * r[2]) \div r[1]))
  BY <1>4, <1>5 DEF Scaled
<1> QED
  BY <1>6 DEF DimsForResolution, PageDims, s, r, CeilTo32

LEMMA ConcatOfTwo ==
  ASSUME NEW K, NEW a \in K, NEW b \in K
  PROVE  <<a>> \o <<b>> = <<a, b>>
<1> DEFINE s == <<a>>
           t == <<b>>
           c == s \o t
           d == <<a, b>>
<1>1. s \in Seq(K) /\ t \in Seq(K) /\ d \in Seq(K)
  OBVIOUS
<1>2. Len(s) = 1 /\ Len(t) = 1 /\ s[1] = a /\ t[1] = b
  OBVIOUS
<1>3. Len(d) = 2 /\ d[1] = a /\ d[2] = b
  OBVIOUS
<1> HIDE DEF s, t, d
<1>4. /\ c \in Seq(K) /\ Len(c) = Len(s) + Len(t)
      /\ \A i \in 1 .. Len(s) + Len(t) :
             c[i] = IF i <= Len(s) THEN s[i] ELSE t[i - Len(s)]
  BY <1>1, ConcatProperties
<1> HIDE DEF c
<1>5. Len(c) = Len(d) /\ \A i \in 1 .. Len(c) : c[i] = d[i]
  BY <1>2, <1>3, <1>4
<1>6. c = d
  BY <1>1, <1>4, <1>5, SeqEqual
<1> QED
  BY <1>6 DEF s, t, c, d

LEMMA NoneIsNoAsset == None \notin Assets
  BY RequestAssumption

LEMMA NoneIsNoNat == None \notin Nat
  BY RequestAssumption, Zenon

LEMMA NoneIsNoDuration == None \notin Durations
  BY NoneIsNoNat DEF Durations

(* The images of a slot map posted by the page are the ones in its slots;  *)
(* last_frame takes the first of them.                                     *)
LEMMA SlotsPosted ==
  ASSUME NEW slots, NEW K, K \subseteq Assets, \A a \in K : Kind[a] = "image",
         slots \in [{"first", "last"} -> K \cup {None}]
  PROVE  /\ SlotRefs(slots) \in Seq(K)
         /\ slots.first # None =>
              \A mode \in {"first_frame", "first_last"} :
                  FirstImage(mode, SlotRefs(slots)) = slots.first
         /\ slots.first # None /\ slots.last # None =>
              LastImage("first_last", SlotRefs(slots)) = slots.last
         /\ slots.last # None =>
              LastImage("last_frame", SlotRefs(slots)) =
                  IF slots.first # None THEN slots.first ELSE slots.last
<1>1. slots.first \in K \cup {None} /\ slots.last \in K \cup {None}
  OBVIOUS
<1>2. None \notin K
  BY NoneIsNoAsset
<1>3. SlotRefs(slots) =
        IF slots.first = None
        THEN IF slots.last = None THEN <<>> ELSE <<slots.last>>
        ELSE IF slots.last = None THEN <<slots.first>> ELSE <<slots.first, slots.last>>
  <2>1. <<slots.first>> \o <<slots.last>> = <<slots.first, slots.last>>
    BY <1>1, ConcatOfTwo, Zenon
  <2>2. \A a \in K \cup {None} : <<>> \o <<a>> = <<a>> /\ <<a>> \o <<>> = <<a>>
    <3> TAKE a \in K \cup {None}
    <3>1. <<a>> \in Seq(K \cup {None})
      OBVIOUS
    <3> QED BY <3>1, ConcatEmptySeq
  <2>3. <<>> \o <<>> = <<>>
    <3>1. <<>> \in Seq(K)
      OBVIOUS
    <3> QED BY <3>1, ConcatEmptySeq
  <2> QED BY <1>1, <2>1, <2>2, <2>3, Zenon DEF SlotRefs, Filled
<1>4. SlotRefs(slots) \in Seq(K)
  BY <1>1, <1>3
<1>5. Images(SlotRefs(slots)) = DOMAIN SlotRefs(slots)
  <2>1. \A i \in DOMAIN SlotRefs(slots) : SlotRefs(slots)[i] \in K
    BY <1>4
  <2> QED BY <2>1 DEF Images
<1>6. ASSUME slots.first # None, NEW mode \in {"first_frame", "first_last"}
      PROVE  FirstImage(mode, SlotRefs(slots)) = slots.first
  <2>1. /\ 1 \in Images(SlotRefs(slots)) /\ Images(SlotRefs(slots)) \subseteq 1 .. 2
        /\ SlotRefs(slots)[1] = slots.first
    BY <1>3, <1>5, <1>6
  <2>2. Min(Images(SlotRefs(slots))) = 1
    BY <2>1, MinMaxIn
  <2> QED BY <2>1, <2>2 DEF FirstImage
<1>7. ASSUME slots.first # None, slots.last # None
      PROVE  LastImage("first_last", SlotRefs(slots)) = slots.last
  <2>1. /\ Images(SlotRefs(slots)) = {1, 2}
        /\ SlotRefs(slots)[2] = slots.last
    BY <1>3, <1>5, <1>7
  <2>2. Min({1, 2}) = 1 /\ Min({2}) = 2
    <3>1. {1, 2} \subseteq 1 .. 2 /\ {2} \subseteq 1 .. 2
      OBVIOUS
    <3> QED BY <3>1, MinMaxIn
  <2>3. {i \in {1, 2} : "first_last" = "first_last" /\ i # 1} = {2}
    OBVIOUS
  <2> QED BY <2>1, <2>2, <2>3 DEF LastImage
<1>8. ASSUME slots.last # None
      PROVE  LastImage("last_frame", SlotRefs(slots)) =
                 IF slots.first # None THEN slots.first ELSE slots.last
  <2>1. /\ 1 \in Images(SlotRefs(slots)) /\ Images(SlotRefs(slots)) \subseteq 1 .. 2
        /\ SlotRefs(slots)[1] = IF slots.first # None THEN slots.first ELSE slots.last
    BY <1>3, <1>5, <1>8
  <2>2. Min(Images(SlotRefs(slots))) = 1
    BY <2>1, MinMaxIn
  <2> QED BY <2>1, <2>2 DEF LastImage
<1> QED
  BY <1>4, <1>6, <1>7, <1>8

(* The first and the last image are images among the references, or none.  *)
LEMMA ImageIsReference ==
  ASSUME NEW refs, refs \in Seq(ToSet(refs)), NEW mode
  PROVE  /\ FirstImage(mode, refs) \in {refs[i] : i \in Images(refs)} \cup {None}
         /\ LastImage(mode, refs) \in {refs[i] : i \in Images(refs)} \cup {None}
<1>1. Len(refs) \in Nat /\ Images(refs) \subseteq 1 .. Len(refs)
  BY DEF Images
<1>2. ASSUME NEW S \in SUBSET Images(refs), S # {}
      PROVE  refs[Min(S)] \in {refs[i] : i \in Images(refs)}
  BY <1>1, <1>2, MinMaxIn
<1>3. FirstImage(mode, refs) \in {refs[i] : i \in Images(refs)} \cup {None}
  BY <1>2 DEF FirstImage
<1>4. LastImage(mode, refs) \in {refs[i] : i \in Images(refs)} \cup {None}
  <2> DEFINE left == IF mode = "last_frame" THEN Images(refs)
                     ELSE {i \in Images(refs) : mode = "first_last" /\ i # Min(Images(refs))}
  <2>1. left \in SUBSET Images(refs)
    OBVIOUS
  <2>2. LastImage(mode, refs) = IF left = {} THEN None ELSE refs[Min(left)]
    BY DEF LastImage
  <2> HIDE DEF left
  <2> QED BY <1>2, <2>1, <2>2
<1> QED BY <1>3, <1>4

-----------------------------------------------------------------------------
(* The properties say what an attempt is made of; the invariant behind     *)
(* them says what every step hands on to the next one: the slots hold      *)
(* images that are stored, in the row as well as in the page's copy and in *)
(* what is on its way; a request of the page repeats what it displayed;    *)
(* the references of a task stay what they were when it was inserted; and  *)
(* the attempts of a task are built from its row, the seed apart, which is *)
(* fixed once one of them has recorded it.                                 *)
ImagesAmong(assets) == {a \in assets : Kind[a] = "image"}

SlotMaps(assets) == [{"first", "last"} -> ImagesAmong(assets) \cup {None}]

(* Slots that replace those displayed: only an empty one was filled since, *)
(* with an image that is among the new ones.                               *)
Follow(slots, seen, new) ==
    \A slot \in {"first", "last"} :
        slots[slot] = seen[slot] \/ (seen[slot] = None /\ slots[slot] \in new)

UploadInv(u, assets) ==
    u # None /\ u.stage = "slots" => u.slots \in SlotMaps(assets)

SlotInv ==
    /\ \A s \in Shots : /\ row[s].slots \in SlotMaps(Uploaded)
                        /\ copy[s].slots \in SlotMaps(Uploaded)
                        /\ ToSet(shown[s]) \subseteq Uploaded
    /\ \A n \in Starts : UploadInv(uploads[n], Uploaded)
    /\ Follow(SlotsOf(active), drawn, pushed)

(* A request, or a task, of the page agrees with what the click saw.       *)
AsShown(r, assets) ==
    /\ r.mode \in PageModes
    /\ \E slots \in SlotMaps(assets) :
           /\ Follow(slots, r.clicked.slots, r.clicked.pushed)
           /\ r.refs = IF Page = "i2v" THEN SlotRefs(slots) ELSE <<>>
           /\ r.mode \in {"first_frame", "first_last"} => slots.first # None
           /\ r.mode \in {"last_frame", "first_last"} => slots.last # None
    /\ r.clicked.duration \in Int \/ r.clicked.duration = None
    /\ r.clicked.frames = Badge(r.clicked.duration)
    /\ r.params.duration =
           IF r.clicked.duration \in Durations THEN r.clicked.duration ELSE None

RequestFields == {"stage", "shot", "mode", "prompt", "params", "refs", "clicked"}

RequestInv(r, assets) ==
    r # None => DOMAIN r = RequestFields /\ AsShown(r, assets)

SubmissionInv == \A n \in Starts : RequestInv(submissions[n], Uploaded)

Reads == [Knobs -> SettingValues]

(* An attempt of task t that uses seed and what it read of the settings.   *)
Built(t, seed, read) ==
    [type   |-> TaskType(t.mode),
     frames |-> FramesForDuration(Given(t.params.duration, 8)),
     size   |-> OutputSize(t.mode, t.params, t.refs),
     first  |-> FirstImage(t.mode, t.refs),
     last   |-> LastImage(t.mode, t.refs),
     seed   |-> seed,
     knobs  |-> EffectiveKnobs(t.params, read)]

BuiltFrom(t) == {Built(t, seed, read) : seed \in Seeds \ {0}, read \in Reads}

TaskFields == {"mode", "prompt", "params", "refs", "submitted", "clicked", "attempts",
               "reads", "running", "recorded"}

ReadsInv(t) ==
    /\ t.reads \in Seq(Reads) /\ Len(t.reads) = Len(t.attempts)
    /\ \A n \in DOMAIN t.attempts :
           t.attempts[n].knobs = EffectiveKnobs(t.params, t.reads[n])

IsTask(t, assets) ==
    /\ DOMAIN t = TaskFields
    /\ IsParams(t.params)
    /\ t.params.duration \in Durations \cup {None}
    /\ t.params.seed \in Seeds /\ t.submitted \in Seeds
    /\ t.refs \in Seq(ToSet(t.refs)) /\ ToSet(t.refs) \cap Assets \subseteq assets
    /\ t.attempts \in Seq(BuiltFrom(t)) /\ ReadsInv(t)
    /\ t.running => t.attempts # <<>>

SeedInv(t) ==
    /\ t.submitted # 0 =>
           /\ t.params.seed = t.submitted
           /\ \A n \in DOMAIN t.attempts : t.attempts[n].seed = t.submitted
    /\ \A k \in t.recorded :
           /\ k \in DOMAIN t.attempts /\ t.attempts[k].seed = t.params.seed
           /\ \A n \in DOMAIN t.attempts :
                  n > k => t.attempts[n].seed = t.params.seed

TaskInv ==
    \A i \in DOMAIN tasks :
        /\ IsTask(tasks[i], Uploaded) /\ SeedInv(tasks[i])
        /\ tasks[i].clicked # None => AsShown(tasks[i], Uploaded)

PageInv == TypeOK /\ SlotInv /\ SubmissionInv /\ TaskInv

-----------------------------------------------------------------------------
(* What the operators make of known references.                            *)

LEMMA KnownReferences ==
  ASSUME NEW assets, assets \subseteq Assets, NEW refs \in Seq(Assets),
         ToSet(refs) \subseteq assets, NEW mode
  PROVE  /\ FirstImage(mode, refs) \in ImagesAmong(assets) \cup {None}
         /\ LastImage(mode, refs) \in ImagesAmong(assets) \cup {None}
         /\ Images(refs) # {} => refs[Max(Images(refs))] \in ImagesAmong(assets)
<1>1. \A i \in Images(refs) : refs[i] \in ImagesAmong(assets)
  BY DEF Images, ImagesAmong, ToSet
<1>2. refs \in Seq(ToSet(refs))
  <2>1. /\ Len(refs) \in Nat /\ DOMAIN refs = 1 .. Len(refs)
        /\ refs = [i \in 1 .. Len(refs) |-> refs[i]]
    OBVIOUS
  <2>2. \A i \in 1 .. Len(refs) : refs[i] \in ToSet(refs)
    BY <2>1 DEF ToSet
  <2> QED BY <2>1, <2>2, IsASeq
<1>3. /\ FirstImage(mode, refs) \in ImagesAmong(assets) \cup {None}
      /\ LastImage(mode, refs) \in ImagesAmong(assets) \cup {None}
  BY <1>1, <1>2, ImageIsReference
<1>4. ASSUME Images(refs) # {}
      PROVE  refs[Max(Images(refs))] \in ImagesAmong(assets)
  <2>1. Len(refs) \in Nat /\ Images(refs) \subseteq 1 .. Len(refs)
    BY DEF Images
  <2>2. Max(Images(refs)) \in Images(refs)
    BY <1>4, <2>1, MinMaxIn
  <2> QED BY <1>1, <2>2
<1> QED BY <1>3, <1>4

(* References that lack their asset do not change what an attempt builds.  *)
LEMMA ResolvedBuilds ==
  ASSUME NEW t, IsTask(t, Uploaded), Uploaded \subseteq Assets, NEW clock, NEW read
  PROVE  BuildParams(t.mode, t.params, Resolved(t.refs), clock, read)
             = Built(t, EffectiveSeed(t.params, clock), read)
<1> DEFINE refs == t.refs
           res  == Resolved(t.refs)
<1>1. refs \in Seq(ToSet(refs)) /\ ToSet(refs) \cap Assets \subseteq Uploaded
  BY DEF IsTask
<1>2. /\ DOMAIN res = DOMAIN refs
      /\ \A i \in DOMAIN refs : refs[i] \in Assets => res[i] = refs[i]
      /\ \A i \in DOMAIN refs : refs[i] \notin Assets => res[i] = None
  BY <1>1 DEF Resolved, ToSet
<1>3. Images(res) = Images(refs)
  BY <1>2, NoneIsNoAsset DEF Images
<1>4. Len(refs) \in Nat /\ Images(refs) \subseteq 1 .. Len(refs)
  BY <1>1 DEF Images
<1>5. ASSUME NEW S \in SUBSET Images(refs), S # {}
      PROVE  res[Min(S)] = refs[Min(S)]
  <2>1. Min(S) \in Images(refs)
    BY <1>4, <1>5, MinMaxIn
  <2> QED BY <1>2, <2>1 DEF Images
<1> HIDE DEF refs, res
<1>6. FirstImage(t.mode, res) = FirstImage(t.mode, refs)
  BY <1>3, <1>5 DEF FirstImage
<1>7. LastImage(t.mode, res) = LastImage(t.mode, refs)
  <2> DEFINE left == IF t.mode = "last_frame" THEN Images(refs)
                     ELSE {i \in Images(refs) :
                               t.mode = "first_last" /\ i # Min(Images(refs))}
  <2>1. left \in SUBSET Images(refs)
    OBVIOUS
  <2>2. /\ LastImage(t.mode, refs) = IF left = {} THEN None ELSE refs[Min(left)]
        /\ LastImage(t.mode, res) = IF left = {} THEN None ELSE res[Min(left)]
    BY <1>3 DEF LastImage
  <2> HIDE DEF left
  <2> QED BY <1>5, <2>1, <2>2
<1>8. OutputSize(t.mode, t.params, res) = OutputSize(t.mode, t.params, refs)
  BY <1>6 DEF OutputSize
<1> QED
  BY <1>6, <1>7, <1>8 DEF BuildParams, Built, refs, res

LEMMA SeedIsUsed ==
  ASSUME NEW params, params.seed \in Seeds, NEW clock \in Clocks
  PROVE  /\ EffectiveSeed(params, clock) \in Seeds \ {0}
         /\ params.seed # 0 => EffectiveSeed(params, clock) = params.seed
<1>1. Clocks \subseteq 1 .. SeedLimit - 1
  BY PageAssumption, Zenon
<1>2. SeedLimit \in Nat
  BY RequestAssumption, Zenon
<1>3. params.seed # None
  BY <1>2, NoneIsNoNat DEF Seeds
<1> QED BY <1>1, <1>2, <1>3 DEF EffectiveSeed, Seeds

-----------------------------------------------------------------------------
(* What happens to a task.                                                 *)

LEMMA BuiltSame ==
  ASSUME NEW t, NEW u, u.mode = t.mode, u.refs = t.refs,
         u.params.duration = t.params.duration, u.params.aspect = t.params.aspect,
         u.params.resolution = t.params.resolution, u.params.sizeMode = t.params.sizeMode,
         u.params.knobs = t.params.knobs
  PROVE  /\ BuiltFrom(u) = BuiltFrom(t)
         /\ \A read : EffectiveKnobs(u.params, read) = EffectiveKnobs(t.params, read)
<1>1. OutputSize(u.mode, u.params, u.refs) = OutputSize(t.mode, t.params, t.refs)
  BY DEF OutputSize
<1>2. \A read : EffectiveKnobs(u.params, read) = EffectiveKnobs(t.params, read)
  BY DEF EffectiveKnobs, Open
<1>3. \A seed \in Seeds \ {0}, read \in Reads : Built(u, seed, read) = Built(t, seed, read)
  BY <1>1, <1>2 DEF Built
<1> QED BY <1>2, <1>3 DEF BuiltFrom

LEMMA SameParams ==
  ASSUME NEW t, NEW u, u.mode = t.mode, u.refs = t.refs, u.params = t.params
  PROVE  BuiltFrom(u) = BuiltFrom(t)
<1>1. /\ u.params.duration = t.params.duration /\ u.params.aspect = t.params.aspect
      /\ u.params.resolution = t.params.resolution
      /\ u.params.sizeMode = t.params.sizeMode /\ u.params.knobs = t.params.knobs
  OBVIOUS
<1> QED BY <1>1, BuiltSame

LEMMA SettledSeed ==
  ASSUME NEW wanted, SeedInRange(wanted),
         NEW seed \in (IF wanted = None THEN RandomSeeds ELSE {wanted})
  PROVE  seed \in Seeds
<1>1. RandomSeeds \subseteq Seeds
  BY PageAssumption, Zenon DEF Seeds
<1>2. wanted # None => wanted \in Seeds
  BY DEF SeedInRange, Seeds
<1> QED BY <1>1, <1>2

LEMMA TaskInserted ==
  ASSUME NEW assets, NEW r, NEW clicked, NEW shotDuration, Accepts(r, shotDuration),
         IsParams(r.params), r.refs \in Seq(ToSet(r.refs)),
         ToSet(r.refs) \cap Assets \subseteq assets,
         NEW seed \in (IF r.params.seed = None THEN RandomSeeds ELSE {r.params.seed}),
         NEW t, t = [mode |-> r.mode, prompt |-> r.prompt,
                     params |-> [r.params EXCEPT !.seed = seed],
                     refs |-> r.refs, submitted |-> seed, clicked |-> clicked,
                     attempts |-> <<>>, reads |-> <<>>, running |-> FALSE,
                     recorded |-> {}]
  PROVE  /\ IsTask(t, assets) /\ SeedInv(t)
         /\ clicked = r.clicked /\ AsShown(r, assets) => AsShown(t, assets)
<1>1. seed \in Seeds
  BY SettledSeed, Zenon DEF Accepts
<1>2. r.params.duration \in Durations \cup {None}
  BY DEF Accepts, Given
<1>3. t.params = [duration |-> r.params.duration, aspect |-> r.params.aspect,
                  resolution |-> r.params.resolution,
                  sizeMode |-> r.params.sizeMode, seed |-> seed,
                  knobs |-> r.params.knobs]
  BY DEF IsParams
<1>4. IsTask(t, assets)
  <2>1. IsParams(t.params)
    BY <1>3 DEF IsParams
  <2>2. t.attempts \in Seq(BuiltFrom(t)) /\ ReadsInv(t)
    BY DEF ReadsInv
  <2>3. /\ t.params.duration \in Durations \cup {None} /\ t.params.seed \in Seeds
        /\ t.submitted \in Seeds
    BY <1>1, <1>2, <1>3
  <2>4. t.refs \in Seq(ToSet(t.refs)) /\ ToSet(t.refs) \cap Assets \subseteq assets
    OBVIOUS
  <2>5. DOMAIN t = TaskFields /\ (t.running => t.attempts # <<>>)
    BY DEF TaskFields
  <2> QED BY <2>1, <2>2, <2>3, <2>4, <2>5 DEF IsTask
<1>5. SeedInv(t)
  BY <1>3 DEF SeedInv
<1>6. ASSUME clicked = r.clicked, AsShown(r, assets)
      PROVE  AsShown(t, assets)
  <2>1. /\ t.clicked = r.clicked /\ t.mode = r.mode /\ t.refs = r.refs
        /\ t.params.duration = r.params.duration
    BY <1>3, <1>6
  <2> QED BY <1>6, <2>1 DEF AsShown
<1> QED BY <1>4, <1>5, <1>6

Started(t, u, clock, read) ==
    u = [t EXCEPT !.attempts = Append(t.attempts,
                        BuildParams(t.mode, t.params, Resolved(t.refs), clock, read)),
                  !.reads = Append(t.reads, read),
                  !.running = TRUE]

LEMMA TaskStarts ==
  ASSUME NEW t, IsTask(t, Uploaded), SeedInv(t), Uploaded \subseteq Assets,
         NEW clock \in Clocks, NEW read \in Reads, NEW u, Started(t, u, clock, read)
  PROVE  /\ IsTask(u, Uploaded) /\ SeedInv(u)
         /\ AsShown(t, Uploaded) => AsShown(u, Uploaded)
         /\ u.clicked = t.clicked /\ u.params.seed = t.params.seed
         /\ u.recorded \subseteq DOMAIN u.attempts
<1> DEFINE built == Built(t, EffectiveSeed(t.params, clock), read)
           B == BuiltFrom(t)
<1>1. BuildParams(t.mode, t.params, Resolved(t.refs), clock, read) = built
  BY ResolvedBuilds
<1>2. /\ EffectiveSeed(t.params, clock) \in Seeds \ {0}
      /\ t.params.seed # 0 => EffectiveSeed(t.params, clock) = t.params.seed
  BY SeedIsUsed DEF IsTask
<1>3. /\ built \in B /\ built.seed = EffectiveSeed(t.params, clock)
      /\ built.knobs = EffectiveKnobs(t.params, read)
  BY <1>2 DEF BuiltFrom, Built
<1>4. /\ DOMAIN u = TaskFields /\ u.mode = t.mode /\ u.params = t.params
      /\ u.refs = t.refs /\ u.submitted = t.submitted /\ u.clicked = t.clicked
      /\ u.attempts = Append(t.attempts, built) /\ u.reads = Append(t.reads, read)
      /\ u.running = TRUE /\ u.recorded = t.recorded
  <2>1. DOMAIN t = TaskFields
    BY DEF IsTask
  <2> HIDE DEF built
  <2> QED BY <1>1, <2>1 DEF TaskFields, Started
<1> HIDE DEF built, B
<1>5. t.attempts \in Seq(B)
  BY DEF IsTask, B
<1>6. /\ u.attempts \in Seq(B) /\ u.attempts # <<>>
      /\ Len(u.attempts) = Len(t.attempts) + 1 /\ Len(t.attempts) \in Nat
      /\ u.attempts[Len(t.attempts) + 1] = built
      /\ \A n \in DOMAIN t.attempts : u.attempts[n] = t.attempts[n]
      /\ DOMAIN t.attempts = 1 .. Len(t.attempts)
      /\ DOMAIN u.attempts = 1 .. Len(t.attempts) + 1
  BY <1>3, <1>4, <1>5
<1>7. BuiltFrom(u) = B
  BY <1>4, SameParams DEF B
<1>12. ReadsInv(u)
  <2>1. /\ t.reads \in Seq(Reads) /\ Len(t.reads) = Len(t.attempts)
        /\ \A n \in DOMAIN t.attempts :
               t.attempts[n].knobs = EffectiveKnobs(t.params, t.reads[n])
    BY DEF IsTask, ReadsInv
  <2> DEFINE l == Len(t.attempts)
             R == Reads
             reads == u.reads
  <2> HIDE DEF R, l
  <2>2. /\ reads \in Seq(R) /\ Len(reads) = l + 1 /\ reads[l + 1] = read
        /\ \A n \in 1 .. l : reads[n] = t.reads[n]
    BY <1>4, <2>1 DEF R, l
  <2> HIDE DEF reads
  <2>3. \A n \in 1 .. l + 1 : n \in 1 .. l \/ n = l + 1
    BY <1>6 DEF l
  <2>4. \A n \in 1 .. l + 1 : u.attempts[n].knobs = EffectiveKnobs(u.params, reads[n])
    <3> TAKE n \in 1 .. l + 1
    <3>1. CASE n = l + 1
      BY <1>3, <1>4, <1>6, <2>2, <3>1 DEF l
    <3>2. CASE n \in 1 .. l
      BY <1>4, <1>6, <2>1, <2>2, <3>2 DEF l
    <3> QED BY <2>3, <3>1, <3>2
  <2> QED BY <1>6, <2>2, <2>4 DEF ReadsInv, R, l, reads
<1>8. IsTask(u, Uploaded)
  <2>1. /\ IsParams(t.params) /\ t.params.duration \in Durations \cup {None}
        /\ t.params.seed \in Seeds /\ t.submitted \in Seeds
        /\ t.refs \in Seq(ToSet(t.refs)) /\ ToSet(t.refs) \cap Assets \subseteq Uploaded
    BY DEF IsTask
  <2> QED BY <1>4, <1>6, <1>7, <1>12, <2>1 DEF IsTask
<1>9. SeedInv(u)
  <2>1. \A k \in t.recorded : t.params.seed # 0
    <3> SUFFICES ASSUME NEW k \in t.recorded PROVE t.params.seed # 0
      OBVIOUS
    <3>1. k \in DOMAIN t.attempts /\ t.attempts[k].seed = t.params.seed
      BY DEF SeedInv
    <3>2. t.attempts[k] \in B
      BY <1>5, <3>1
    <3>3. \A b \in B : b.seed \in Seeds \ {0}
      BY DEF B, BuiltFrom, Built
    <3> QED BY <3>1, <3>2, <3>3
  <2>2. ASSUME t.submitted # 0
        PROVE  /\ t.params.seed = t.submitted
               /\ \A n \in DOMAIN u.attempts : u.attempts[n].seed = t.submitted
    BY <1>2, <1>3, <1>6, <2>2 DEF SeedInv
  <2>3. ASSUME NEW k \in t.recorded
        PROVE  /\ k \in DOMAIN u.attempts /\ u.attempts[k].seed = t.params.seed
               /\ \A n \in DOMAIN u.attempts : n > k => u.attempts[n].seed = t.params.seed
    BY <1>2, <1>3, <1>6, <2>1 DEF SeedInv
  <2> QED BY <1>4, <2>2, <2>3 DEF SeedInv
<1>10. AsShown(t, Uploaded) => AsShown(u, Uploaded)
  BY <1>4 DEF AsShown
<1>11. u.recorded \subseteq DOMAIN u.attempts
  BY <1>9 DEF SeedInv
<1> QED BY <1>4, <1>8, <1>9, <1>10, <1>11

LEMMA TaskEnds ==
  ASSUME NEW assets, NEW t, IsTask(t, assets), SeedInv(t), NEW u,
         u = [t EXCEPT !.running = FALSE]
  PROVE  /\ IsTask(u, assets) /\ SeedInv(u)
         /\ AsShown(t, assets) => AsShown(u, assets)
         /\ u.clicked = t.clicked /\ u.params.seed = t.params.seed
         /\ u.recorded \subseteq DOMAIN u.attempts
<1>1. /\ DOMAIN u = TaskFields /\ u.mode = t.mode /\ u.params = t.params
      /\ u.refs = t.refs /\ u.submitted = t.submitted /\ u.clicked = t.clicked
      /\ u.attempts = t.attempts /\ u.reads = t.reads /\ u.running = FALSE
      /\ u.recorded = t.recorded
  <2>1. DOMAIN t = TaskFields
    BY DEF IsTask
  <2> QED BY <2>1 DEF TaskFields
<1>2. BuiltFrom(u) = BuiltFrom(t)
  BY <1>1, SameParams
<1>3. IsTask(u, assets)
  BY <1>1, <1>2 DEF IsTask, ReadsInv
<1>4. SeedInv(u) /\ u.recorded \subseteq DOMAIN u.attempts
  BY <1>1 DEF SeedInv
<1>5. AsShown(t, assets) => AsShown(u, assets)
  BY <1>1 DEF AsShown
<1> QED BY <1>1, <1>3, <1>4, <1>5

Recorded(t, u) ==
    u = [t EXCEPT !.running = FALSE,
                  !.recorded = @ \cup {Len(t.attempts)},
                  !.params.seed = Last(t.attempts).seed]

LEMMA TaskRecords ==
  ASSUME NEW assets, NEW t, IsTask(t, assets), SeedInv(t), t.running, NEW u,
         Recorded(t, u)
  PROVE  /\ IsTask(u, assets) /\ SeedInv(u)
         /\ AsShown(t, assets) => AsShown(u, assets)
         /\ u.clicked = t.clicked /\ u.params.seed \in Seeds
         /\ u.recorded \subseteq DOMAIN u.attempts
<1> DEFINE B == BuiltFrom(t)
           l == Len(t.attempts)
           seed == Last(t.attempts).seed
<1>1. t.attempts \in Seq(B) /\ t.attempts # <<>>
  BY DEF IsTask
<1> HIDE DEF B
<1>2. /\ l \in Nat \ {0} /\ DOMAIN t.attempts = 1 .. l /\ t.attempts[l] \in B
      /\ seed = t.attempts[l].seed
  BY <1>1 DEF Last
<1>3. seed \in Seeds \ {0}
  BY <1>2 DEF B, BuiltFrom, Built
<1>4. /\ DOMAIN u = TaskFields /\ u.mode = t.mode /\ u.refs = t.refs
      /\ u.submitted = t.submitted /\ u.clicked = t.clicked /\ u.attempts = t.attempts
      /\ u.reads = t.reads /\ u.running = FALSE /\ u.recorded = t.recorded \cup {l}
      /\ u.params = [t.params EXCEPT !.seed = seed]
  <2>1. DOMAIN t = TaskFields
    BY DEF IsTask
  <2> HIDE DEF l, seed
  <2>2. u = [t EXCEPT !.running = FALSE, !.recorded = @ \cup {l}, !.params.seed = seed]
    BY DEF l, seed, Recorded
  <2> QED BY <2>1, <2>2 DEF TaskFields
<1> HIDE DEF l, seed
<1>5. u.params = [duration |-> t.params.duration, aspect |-> t.params.aspect,
                  resolution |-> t.params.resolution,
                  sizeMode |-> t.params.sizeMode, seed |-> seed,
                  knobs |-> t.params.knobs]
  <2>1. [t.params EXCEPT !.seed = seed] =
            [duration |-> t.params.duration, aspect |-> t.params.aspect,
             resolution |-> t.params.resolution, sizeMode |-> t.params.sizeMode,
             seed |-> seed, knobs |-> t.params.knobs]
    BY DEF IsTask, IsParams
  <2> QED BY <1>4, <2>1
<1>6. /\ u.params.duration = t.params.duration /\ u.params.aspect = t.params.aspect
      /\ u.params.resolution = t.params.resolution
      /\ u.params.sizeMode = t.params.sizeMode /\ u.params.seed = seed
      /\ u.params.knobs = t.params.knobs
  BY <1>5
<1>7. /\ BuiltFrom(u) = B
      /\ \A read : EffectiveKnobs(u.params, read) = EffectiveKnobs(t.params, read)
  <2>1. u.mode = t.mode /\ u.refs = t.refs
    BY <1>4
  <2>2. /\ BuiltFrom(u) = BuiltFrom(t)
        /\ \A read : EffectiveKnobs(u.params, read) = EffectiveKnobs(t.params, read)
    BY <1>6, <2>1, BuiltSame
  <2> QED BY <2>2 DEF B
<1>8. IsTask(u, assets)
  <2>1. IsParams(u.params)
    BY <1>5 DEF IsParams
  <2>2. /\ t.params.duration \in Durations \cup {None} /\ t.submitted \in Seeds
        /\ t.refs \in Seq(ToSet(t.refs)) /\ ToSet(t.refs) \cap Assets \subseteq assets
    BY DEF IsTask
  <2>3. ReadsInv(u)
    <3>1. ReadsInv(t)
      BY DEF IsTask
    <3> QED BY <1>4, <1>7, <3>1 DEF ReadsInv
  <2> QED BY <1>1, <1>3, <1>4, <1>6, <1>7, <2>1, <2>2, <2>3 DEF IsTask
<1>9. SeedInv(u)
  <2>1. t.submitted # 0 =>
            /\ seed = t.submitted
            /\ \A n \in DOMAIN t.attempts : t.attempts[n].seed = t.submitted
    BY <1>2 DEF SeedInv
  <2>2. \A k \in t.recorded : /\ k \in 1 .. l /\ t.attempts[k].seed = seed
                              /\ \A n \in 1 .. l : n > k => t.attempts[n].seed = seed
    <3> SUFFICES ASSUME NEW k \in t.recorded
                 PROVE  /\ k \in 1 .. l /\ t.attempts[k].seed = seed
                        /\ \A n \in 1 .. l : n > k => t.attempts[n].seed = seed
      OBVIOUS
    <3>1. /\ k \in 1 .. l /\ t.attempts[k].seed = t.params.seed
          /\ \A n \in 1 .. l : n > k => t.attempts[n].seed = t.params.seed
      BY <1>2 DEF SeedInv
    <3>2. k = l \/ l > k
      BY <1>2, <3>1
    <3>3. seed = t.params.seed
      BY <1>2, <3>1, <3>2
    <3> QED BY <3>1, <3>3
  <2>3. \A n \in 1 .. l : ~(n > l)
    BY <1>2
  <2> QED BY <1>2, <1>4, <1>6, <2>1, <2>2, <2>3 DEF SeedInv
<1>10. AsShown(t, assets) => AsShown(u, assets)
  BY <1>4, <1>6 DEF AsShown
<1>11. u.recorded \subseteq DOMAIN u.attempts
  BY <1>9 DEF SeedInv
<1> QED BY <1>3, <1>4, <1>6, <1>8, <1>9, <1>10, <1>11

-----------------------------------------------------------------------------
(* The invariant under the steps.                                          *)

LEMMA UploadedAssets == ASSUME TypeOK PROVE Uploaded \subseteq Assets
<1>1. \A s \in Shots : ToSet(shotRefs[s]) \subseteq Assets
  <2> TAKE s \in Shots
  <2>1. shotRefs[s] \in Seq(Assets)
    BY DEF TypeOK
  <2> QED BY <2>1 DEF ToSet
<1> QED BY <1>1 DEF Uploaded

LEMMA UploadedSame == ASSUME UNCHANGED shotRefs PROVE Uploaded' = Uploaded
  BY DEF Uploaded

LEMMA MoreAssets ==
  ASSUME NEW less, NEW more, less \subseteq more
  PROVE  /\ SlotMaps(less) \subseteq SlotMaps(more)
         /\ \A u : UploadInv(u, less) => UploadInv(u, more)
         /\ \A r : AsShown(r, less) => AsShown(r, more)
         /\ \A t : IsTask(t, less) => IsTask(t, more)
<1>1. ImagesAmong(less) \subseteq ImagesAmong(more)
  BY DEF ImagesAmong
<1>2. SlotMaps(less) \subseteq SlotMaps(more)
  BY <1>1 DEF SlotMaps
<1>3. ASSUME NEW r, AsShown(r, less) PROVE AsShown(r, more)
  BY <1>2, <1>3 DEF AsShown
<1>4. ASSUME NEW t, IsTask(t, less) PROVE IsTask(t, more)
  BY <1>4 DEF IsTask
<1>5. ASSUME NEW u, UploadInv(u, less) PROVE UploadInv(u, more)
  BY <1>2, <1>5 DEF UploadInv
<1> QED BY <1>2, <1>3, <1>4, <1>5

LEMMA TasksKept ==
  ASSUME TaskInv, UNCHANGED tasks, Uploaded \subseteq Uploaded'
  PROVE  TaskInv'
<1> SUFFICES ASSUME NEW i \in DOMAIN tasks'
             PROVE  /\ IsTask(tasks'[i], Uploaded') /\ SeedInv(tasks'[i])
                    /\ tasks'[i].clicked # None => AsShown(tasks'[i], Uploaded')
  BY DEF TaskInv
<1>1. /\ IsTask(tasks[i], Uploaded) /\ SeedInv(tasks[i])
      /\ tasks[i].clicked # None => AsShown(tasks[i], Uploaded)
  BY DEF TaskInv
<1>2. tasks'[i] = tasks[i]
  OBVIOUS
<1> QED BY <1>1, <1>2, MoreAssets

LEMMA SubmissionKept ==
  ASSUME SubmissionInv, UNCHANGED submissions, Uploaded \subseteq Uploaded'
  PROVE  SubmissionInv'
<1>1. \A n \in Starts : RequestInv(submissions[n], Uploaded')
  BY MoreAssets DEF SubmissionInv, RequestInv
<1> QED BY <1>1 DEF SubmissionInv

LEMMA SlotsKept ==
  ASSUME SlotInv, UNCHANGED <<row, copy, shown, shotRefs, active, slotVars, uploads>>
  PROVE  SlotInv'
<1>1. Uploaded' = Uploaded /\ SlotsOf(active)' = SlotsOf(active)
  BY UploadedSame DEF SlotsOf
<1> QED BY <1>1 DEF SlotInv, slotVars

TasksTyped ==
    /\ tasks \in Seq(ToSet(tasks))
    /\ \A i \in DOMAIN tasks :
           /\ tasks[i].params.seed \in Seeds
           /\ tasks[i].recorded \subseteq DOMAIN tasks[i].attempts

LEMMA TypedTasks == TypeOK => TasksTyped
  BY DEF TypeOK, TasksTyped, Seeds

LEMMA TaskAdded ==
  ASSUME TasksTyped, TaskInv, UNCHANGED shotRefs, NEW t, tasks' = Append(tasks, t),
         IsTask(t, Uploaded), SeedInv(t), t.clicked # None => AsShown(t, Uploaded)
  PROVE  TasksTyped' /\ TaskInv'
<1> DEFINE n == Len(tasks)
           new == Append(tasks, t)
<1>1. /\ n \in Nat /\ DOMAIN tasks = 1 .. n /\ DOMAIN new = 1 .. n + 1
      /\ new[n + 1] = t /\ \A i \in 1 .. n : new[i] = tasks[i]
      /\ new \in Seq(ToSet(tasks) \cup {t})
  <2>1. tasks \in Seq(ToSet(tasks))
    BY DEF TasksTyped
  <2>2. tasks \in Seq(ToSet(tasks) \cup {t})
    <3> DEFINE T == ToSet(tasks)
    <3> HIDE DEF T
    <3>1. T \subseteq T \cup {t}
      OBVIOUS
    <3> QED BY <2>1, <3>1, SeqMonotonic DEF T
  <2> DEFINE T == ToSet(tasks) \cup {t}
  <2>3. t \in T
    OBVIOUS
  <2> HIDE DEF T
  <2> QED BY <2>2, <2>3 DEF T
<1> HIDE DEF n, new
<1>2. tasks' = new
  BY DEF new
<1>3. \A i \in 1 .. n + 1 : i = n + 1 \/ i \in 1 .. n
  BY <1>1
<1>4. \A i \in 1 .. n + 1 :
         /\ IsTask(new[i], Uploaded) /\ SeedInv(new[i])
         /\ new[i].clicked # None => AsShown(new[i], Uploaded)
  <2> TAKE i \in 1 .. n + 1
  <2>1. CASE i = n + 1
    BY <1>1, <2>1
  <2>2. CASE i \in 1 .. n
    BY <1>1, <2>2 DEF TaskInv
  <2> QED BY <1>3, <2>1, <2>2
<1>5. TaskInv'
  <2>1. Uploaded' = Uploaded
    BY UploadedSame
  <2> SUFFICES ASSUME NEW i \in DOMAIN tasks'
               PROVE  /\ IsTask(tasks'[i], Uploaded') /\ SeedInv(tasks'[i])
                      /\ tasks'[i].clicked # None => AsShown(tasks'[i], Uploaded')
    BY DEF TaskInv
  <2> QED BY <1>1, <1>2, <1>4, <2>1
<1>6. \A i \in DOMAIN new : /\ new[i].params.seed \in Seeds
                            /\ new[i].recorded \subseteq DOMAIN new[i].attempts
  <2> TAKE i \in DOMAIN new
  <2>1. IsTask(new[i], Uploaded) /\ SeedInv(new[i])
    BY <1>1, <1>4
  <2> QED BY <2>1 DEF IsTask, SeedInv
<1>7. new \in Seq(ToSet(new))
  <2>1. /\ Len(new) \in Nat /\ DOMAIN new = 1 .. Len(new)
        /\ new = [i \in 1 .. Len(new) |-> new[i]]
    BY <1>1
  <2>2. \A i \in 1 .. Len(new) : new[i] \in ToSet(new)
    BY <2>1 DEF ToSet
  <2> QED BY <2>1, <2>2, IsASeq
<1>8. TasksTyped'
  BY <1>2, <1>6, <1>7 DEF TasksTyped
<1> QED BY <1>5, <1>8

LEMMA TaskUpdated ==
  ASSUME TasksTyped, TaskInv, UNCHANGED shotRefs, NEW i \in DOMAIN tasks, NEW u,
         DOMAIN tasks' = DOMAIN tasks, tasks' = [j \in DOMAIN tasks |-> tasks'[j]],
         \A j \in DOMAIN tasks \ {i} : tasks'[j] = tasks[j], tasks'[i] = u,
         IsTask(u, Uploaded), SeedInv(u), u.clicked = tasks[i].clicked,
         AsShown(tasks[i], Uploaded) => AsShown(u, Uploaded)
  PROVE  TasksTyped' /\ TaskInv'
<1> DEFINE new == tasks'
<1>1. \A j \in DOMAIN tasks :
         /\ IsTask(new[j], Uploaded) /\ SeedInv(new[j])
         /\ new[j].clicked # None => AsShown(new[j], Uploaded)
  <2> TAKE j \in DOMAIN tasks
  <2>0. /\ IsTask(tasks[j], Uploaded) /\ SeedInv(tasks[j])
        /\ tasks[j].clicked # None => AsShown(tasks[j], Uploaded)
    BY DEF TaskInv
  <2>1. CASE j = i
    BY <2>0, <2>1
  <2>2. CASE j # i
    BY <2>0, <2>2
  <2> QED BY <2>1, <2>2
<1>2. TaskInv'
  <2>1. Uploaded' = Uploaded
    BY UploadedSame
  <2> SUFFICES ASSUME NEW j \in DOMAIN tasks'
               PROVE  /\ IsTask(tasks'[j], Uploaded') /\ SeedInv(tasks'[j])
                      /\ tasks'[j].clicked # None => AsShown(tasks'[j], Uploaded')
    BY DEF TaskInv
  <2> QED BY <1>1, <2>1
<1>3. \A j \in DOMAIN tasks : /\ new[j].params.seed \in Seeds
                              /\ new[j].recorded \subseteq DOMAIN new[j].attempts
  <2> TAKE j \in DOMAIN tasks
  <2>1. IsTask(new[j], Uploaded) /\ SeedInv(new[j])
    BY <1>1
  <2> QED BY <2>1 DEF IsTask, SeedInv
<1>4. new \in Seq(ToSet(new))
  <2>1. tasks \in Seq(ToSet(tasks))
    BY DEF TasksTyped
  <2>2. Len(tasks) \in Nat /\ DOMAIN tasks = 1 .. Len(tasks)
    BY <2>1
  <2>3. \A j \in 1 .. Len(tasks) : new[j] \in ToSet(new)
    BY <2>2 DEF ToSet
  <2>4. new = [j \in 1 .. Len(tasks) |-> new[j]]
    BY <2>2
  <2> HIDE DEF new
  <2> QED BY <2>2, <2>3, <2>4, IsASeq
<1>5. TasksTyped'
  BY <1>3, <1>4 DEF TasksTyped
<1> QED BY <1>2, <1>5

(* TypeOK without the tasks.                                               *)
PageTyped ==
    /\ row \in [Shots -> RowSet] /\ copy \in [Shots -> RowSet]
    /\ shotRefs \in [Shots -> Seq(Assets)] /\ shown \in [Shots -> Seq(Assets)]
    /\ active \in Shots /\ prompt \in Prompts
    /\ chips \in [aspect : Aspects, preset : Presets, mode : PageModes]
    /\ drawn \in SlotSet /\ pushed \subseteq Assets
    /\ uploads \in [Starts -> UploadSet \cup {None}]
    /\ starts \in 0 .. MaxStarts

RequestTyped(r) ==
    r # None =>
         /\ r.stage \in {"save", "post"} /\ r.shot \in Shots
         /\ r.mode \in PageModes /\ r.prompt \in Prompts
         /\ r.params \in ParamSet

SubmissionTyped ==
    /\ DOMAIN submissions = Starts
    /\ \A n \in Starts : RequestTyped(submissions[n])

LEMMA TypeParts == TypeOK <=> PageTyped /\ SubmissionTyped /\ TasksTyped
  BY Zenon DEF TypeOK, PageTyped, SubmissionTyped, RequestTyped, TasksTyped, Seeds

LEMMA TypePartsNext == PageTyped' /\ SubmissionTyped' /\ TasksTyped' => TypeOK'
  BY Zenon DEF TypeOK, PageTyped, SubmissionTyped, RequestTyped, TasksTyped, Seeds

LEMMA SubmissionTypeKept ==
  ASSUME SubmissionTyped, UNCHANGED submissions PROVE SubmissionTyped'
  BY DEF SubmissionTyped

LEMMA TaskTypesKept == ASSUME TasksTyped, UNCHANGED tasks PROVE TasksTyped'
  BY DEF TasksTyped

LEMMA SlotMapsTyped ==
  ASSUME NEW assets, assets \subseteq Assets
  PROVE  SlotMaps(assets) \subseteq SlotSet
<1>1. ImagesAmong(assets) \subseteq Assets
  BY DEF ImagesAmong
<1> QED BY <1>1 DEF SlotMaps, SlotSet

(* What i2vSlotsFor finds are images that are stored.                      *)
LEMMA SlotsInKnown ==
  ASSUME NEW assets, assets \subseteq Assets, NEW shot, shot.slots \in SlotMaps(assets),
         NEW refs \in Seq(Assets), ToSet(refs) \subseteq assets
  PROVE  SlotsIn(shot, refs) \in SlotMaps(assets) /\ SlotsIn(shot, refs) \in SlotSet
<1>1. [first |-> FirstImage(shot.mode, refs), last |-> LastImage(shot.mode, refs)]
          \in SlotMaps(assets)
  BY KnownReferences DEF SlotMaps
<1>2. SlotsIn(shot, refs) \in SlotMaps(assets)
  BY <1>1 DEF SlotsIn
<1> QED BY <1>2, SlotMapsTyped

LEMMA MinKept ==
  ASSUME NEW n \in Nat, NEW S, S \subseteq 1 .. n, NEW T, T \subseteq {n + 1}
  PROVE  /\ S # {} => Min(S \cup T) = Min(S) /\ Min(S) \in S
         /\ S = {} /\ T # {} => Min(S \cup T) = n + 1
<1>1. n + 1 \in Nat /\ S \cup T \subseteq 1 .. n + 1 /\ S \subseteq 1 .. n + 1
  OBVIOUS
<1>2. ASSUME S # {} PROVE Min(S \cup T) = Min(S) /\ Min(S) \in S
  <2>1. Min(S) \in S /\ \A j \in S : Min(S) <= j
    BY <1>1, <1>2, MinMaxIn
  <2>2. Min(S \cup T) \in S \cup T /\ \A j \in S \cup T : Min(S \cup T) <= j
    <3> DEFINE U == S \cup T
    <3>1. U \subseteq 1 .. n + 1 /\ U # {}
      BY <1>1, <1>2
    <3> HIDE DEF U
    <3> QED BY <1>1, <3>1, MinMaxIn DEF U
  <2>3. Min(S) \in 1 .. n /\ Min(S \cup T) <= Min(S)
    BY <2>1, <2>2
  <2>4. Min(S \cup T) \in S
    <3> DEFINE m == Min(S \cup T)
               l == Min(S)
    <3>1. m \in S \/ m = n + 1
      BY <2>2
    <3>2. m <= l /\ l \in 1 .. n
      BY <2>3
    <3> HIDE DEF m, l
    <3>3. m # n + 1
      BY <3>2
    <3> QED BY <3>1, <3>3 DEF m
  <2>5. Min(S) <= Min(S \cup T)
    BY <2>1, <2>4
  <2>6. Min(S) \in Nat /\ Min(S \cup T) \in Nat
    <3>1. S \subseteq Nat
      OBVIOUS
    <3> QED BY <2>1, <2>4, <3>1
  <2> QED BY <2>1, <2>3, <2>5, <2>6
<1>3. ASSUME S = {}, T # {} PROVE Min(S \cup T) = n + 1
  <2>1. S \cup T = {n + 1} /\ {n + 1} \subseteq 1 .. n + 1
    BY <1>1, <1>3
  <2>2. Min({n + 1}) \in {n + 1}
    BY <1>1, <2>1, MinMaxIn
  <2> QED BY <2>1, <2>2
<1> QED BY <1>2, <1>3

LEMMA FollowsOn ==
  ASSUME NEW slots, NEW seen, NEW new, NEW next, NEW a,
         Follow(slots, seen, new), Follow(next, slots, {a})
  PROVE  Follow(next, seen, new \cup {a})
<1> SUFFICES ASSUME NEW slot \in {"first", "last"}
             PROVE  \/ next[slot] = seen[slot]
                    \/ seen[slot] = None /\ next[slot] \in new \cup {a}
  BY Zenon DEF Follow
<1>1. slots[slot] = seen[slot] \/ (seen[slot] = None /\ slots[slot] \in new)
  BY Zenon DEF Follow
<1>2. next[slot] = slots[slot] \/ (slots[slot] = None /\ next[slot] \in {a})
  BY Zenon DEF Follow
<1> QED BY <1>1, <1>2

LEMMA FollowsItself == \A slots, new : Follow(slots, slots, new)
  BY Zenon DEF Follow

(* An image appended to a shot's references fills empty slots only.        *)
LEMMA SlotsAfterPush ==
  ASSUME NEW shot, NEW refs \in Seq(Assets), NEW a \in Assets
  PROVE  Follow(SlotsIn(shot, Append(refs, a)), SlotsIn(shot, refs), {a})
<1> DEFINE n == Len(refs)
           more == Append(refs, a)
           S == Images(refs)
           T == Images(more) \ Images(refs)
           mode == shot.mode
<1>1. /\ n \in Nat /\ DOMAIN refs = 1 .. n /\ DOMAIN more = 1 .. n + 1
      /\ more[n + 1] = a /\ \A i \in 1 .. n : more[i] = refs[i]
  OBVIOUS
<1> HIDE DEF more
<1>2. /\ S \subseteq 1 .. n /\ T \subseteq {n + 1} /\ Images(more) = S \cup T
  <2>1. /\ S \subseteq 1 .. n
        /\ \A i \in 1 .. n : i \in Images(more) <=> i \in S
    BY <1>1 DEF Images
  <2>2. Images(more) \subseteq 1 .. n + 1
    BY <1>1 DEF Images
  <2>3. \A i \in 1 .. n + 1 : i \in 1 .. n \/ i = n + 1
    BY <1>1
  <2>4. S \subseteq Images(more)
    BY <2>1
  <2> QED BY <2>1, <2>2, <2>3, <2>4
<1> HIDE DEF S, T, n
<1>3. S # {} => Min(S \cup T) = Min(S) /\ Min(S) \in S
  BY <1>1, <1>2, MinKept
<1>4. ASSUME NEW P, P \subseteq S, NEW Q, Q \subseteq {n + 1}, P # {}
      PROVE  /\ P \cup Q # {} /\ Min(P \cup Q) = Min(P)
             /\ more[Min(P \cup Q)] = refs[Min(P)]
  <2>1. Min(P \cup Q) = Min(P) /\ Min(P) \in P
    BY <1>1, <1>2, <1>4, MinKept
  <2>2. Min(P) \in 1 .. n
    BY <1>2, <1>4, <2>1
  <2>3. more[Min(P)] = refs[Min(P)]
    BY <1>1, <2>2
  <2>4. P \cup Q # {}
    BY <1>4
  <2> QED BY <2>1, <2>3, <2>4
<1>5. ASSUME NEW Q, Q \subseteq {n + 1}, Q # {}
      PROVE  more[Min(Q)] = a
  <2>1. Min({} \cup Q) = n + 1
    BY <1>1, <1>5, MinKept
  <2>2. {} \cup Q = Q
    OBVIOUS
  <2> QED BY <1>1, <2>1, <2>2
<1>6. \/ FirstImage(mode, more) = FirstImage(mode, refs)
      \/ FirstImage(mode, refs) = None /\ FirstImage(mode, more) = a
  <2>1. CASE mode \in {"first_frame", "first_last"}
    <3>1. /\ FirstImage(mode, refs) = IF S = {} THEN None ELSE refs[Min(S)]
          /\ FirstImage(mode, more) = IF S \cup T = {} THEN None ELSE more[Min(S \cup T)]
      BY <1>2, <2>1 DEF FirstImage, S
    <3>2. CASE S # {}
      <4>1. S \cup T # {} /\ more[Min(S \cup T)] = refs[Min(S)]
        BY <1>2, <1>4, <3>2
      <4> QED BY <3>1, <3>2, <4>1
    <3>3. CASE S = {} /\ T # {}
      <4>1. S \cup T = T /\ more[Min(T)] = a
        BY <1>2, <1>5, <3>3
      <4> QED BY <3>1, <3>3, <4>1
    <3>4. CASE S = {} /\ T = {}
      BY <3>1, <3>4
    <3> QED BY <3>2, <3>3, <3>4
  <2>2. CASE mode \notin {"first_frame", "first_last"}
    BY <2>2 DEF FirstImage
  <2> QED BY <2>1, <2>2
<1>7. \/ LastImage(mode, more) = LastImage(mode, refs)
      \/ LastImage(mode, refs) = None /\ LastImage(mode, more) = a
  <2> DEFINE Left(I) == IF mode = "last_frame" THEN I
                        ELSE {i \in I : mode = "first_last" /\ i # Min(I)}
             P == Left(S)
             U == Left(S \cup T)
  <2>1. /\ LastImage(mode, refs) = IF P = {} THEN None ELSE refs[Min(P)]
        /\ LastImage(mode, more) = IF U = {} THEN None ELSE more[Min(U)]
    BY <1>2 DEF LastImage, S
  <2>2. P \subseteq S /\ \E Q : Q \subseteq {n + 1} /\ U = P \cup Q
    <3>1. CASE mode = "last_frame"
      BY <1>2, <3>1
    <3>2. CASE mode # "last_frame" /\ S # {}
      <4>1. Min(S \cup T) = Min(S)
        BY <1>3, <3>2
      <4>2. U = P \cup {i \in T : mode = "first_last" /\ i # Min(S)}
        BY <3>2, <4>1
      <4> QED BY <1>2, <4>2
    <3>3. CASE mode # "last_frame" /\ S = {}
      <4>1. U \subseteq {n + 1} /\ P = {}
        BY <1>2, <3>3
      <4> QED BY <4>1
    <3> QED BY <3>1, <3>2, <3>3
  <2> HIDE DEF P, U
  <2>3. PICK Q : Q \subseteq {n + 1} /\ U = P \cup Q
    BY <2>2
  <2>4. CASE P # {}
    <3>1. U # {} /\ more[Min(U)] = refs[Min(P)]
      BY <1>4, <2>2, <2>3, <2>4
    <3> QED BY <2>1, <2>4, <3>1
  <2>5. CASE P = {} /\ Q # {}
    <3>1. U = Q /\ more[Min(Q)] = a
      BY <1>5, <2>3, <2>5
    <3> QED BY <2>1, <2>5, <3>1
  <2>6. CASE P = {} /\ Q = {}
    BY <2>1, <2>3, <2>6
  <2> QED BY <2>4, <2>5, <2>6
<1>8. CASE shot.slots # NoSlots
  BY <1>8, FollowsItself DEF SlotsIn
<1>9. CASE shot.slots = NoSlots
  <2> DEFINE old == SlotsIn(shot, refs)
             new == SlotsIn(shot, more)
  <2>1. /\ old.first = FirstImage(mode, refs) /\ old.last = LastImage(mode, refs)
        /\ new.first = FirstImage(mode, more) /\ new.last = LastImage(mode, more)
    BY <1>9 DEF SlotsIn
  <2> HIDE DEF old, new, mode
  <2>2. /\ new.first = old.first \/ (old.first = None /\ new.first \in {a})
        /\ new.last = old.last \/ (old.last = None /\ new.last \in {a})
    <3>1. new.first = old.first \/ (old.first = None /\ new.first \in {a})
      BY <1>6, <2>1, Zenon
    <3>2. new.last = old.last \/ (old.last = None /\ new.last \in {a})
      BY <1>7, <2>1, Zenon
    <3> QED BY <3>1, <3>2, Zenon
  <2>3. Follow(new, old, {a})
    BY <2>2 DEF Follow
  <2> QED BY <2>3 DEF old, new, more
<1> QED BY <1>8, <1>9

-----------------------------------------------------------------------------
(* The steps of the page.                                                  *)

LEMMA PageInvInit == Init => PageInv
<1> SUFFICES ASSUME Init PROVE PageInv
  OBVIOUS
<1>1. PICK left \in [Shots -> Stored] :
        /\ row = [s \in Shots |-> [mode |-> left[s].mode,
                                   prompt |-> CHOOSE p \in Prompts : p \notin TooLong,
                                   duration |-> 8, preset |-> DefaultPreset,
                                   slots |-> left[s].slots]]
        /\ shotRefs = [s \in Shots |-> left[s].refs]
        /\ copy = row /\ shown = shotRefs
        /\ active \in Shots
        /\ prompt = copy[active].prompt
        /\ chips = [aspect |-> "16:9", preset |-> DefaultPreset, mode |-> copy[active].mode]
        /\ drawn = SlotsOf(active) /\ pushed = {}
        /\ uploads = [n \in Starts |-> None]
        /\ submissions = [n \in Starts |-> None]
        /\ starts = 0 /\ tasks = <<>>
  BY DEF Init
<1>2. (CHOOSE p \in Prompts : p \notin TooLong) \in Prompts
  <2>1. \E p \in Prompts : p \notin TooLong
    BY PageAssumption
  <2> QED BY <2>1
<1>3. \A s \in Shots : IsStored(left[s])
  BY PageAssumption
<1>4. 8 \in Durations /\ DefaultPreset \in Presets /\ "16:9" \in Aspects
  BY DEF Durations, DefaultPreset, Presets, Aspects
<1>5. \A s \in Shots : /\ shotRefs[s] \in Seq(Assets) /\ ToSet(shotRefs[s]) \subseteq Assets
                       /\ ToSet(shotRefs[s]) \subseteq Uploaded
  <2>1. \A s \in Shots : shotRefs[s] \in Seq(Assets)
    BY <1>1, <1>3 DEF IsStored
  <2>2. \A s \in Shots : ToSet(shotRefs[s]) \subseteq Assets
    BY <2>1 DEF ToSet
  <2> QED BY <2>1, <2>2 DEF Uploaded
<1>6. Uploaded \subseteq Assets
  BY <1>5 DEF Uploaded
<1>7. \A s \in Shots : row[s].slots \in SlotMaps(Uploaded) /\ row[s].slots \in SlotSet
  <2> TAKE s \in Shots
  <2>1. /\ row[s].slots = left[s].slots
        /\ left[s].slots \in [{"first", "last"} ->
                               {a \in ToSet(shotRefs[s]) : Kind[a] = "image"} \cup {None}]
    BY <1>1, <1>3 DEF IsStored
  <2>2. {a \in ToSet(shotRefs[s]) : Kind[a] = "image"} \subseteq ImagesAmong(Uploaded)
    BY <1>5 DEF ImagesAmong
  <2>3. row[s].slots \in SlotMaps(Uploaded)
    BY <2>1, <2>2 DEF SlotMaps
  <2> QED BY <1>6, <2>3, SlotMapsTyped
<1>8. row \in [Shots -> RowSet]
  <2>1. \A s \in Shots : row[s] \in RowSet
    <3> TAKE s \in Shots
    <3>1. /\ left[s].mode \in PageModes /\ left[s].slots \in SlotSet
          /\ row[s] = [mode |-> left[s].mode,
                       prompt |-> CHOOSE p \in Prompts : p \notin TooLong,
                       duration |-> 8, preset |-> DefaultPreset,
                       slots |-> left[s].slots]
      BY <1>1, <1>3, <1>7 DEF IsStored
    <3> QED BY <1>2, <1>4, <3>1 DEF RowSet
  <2> QED BY <1>1, <2>1
<1>9. SlotsOf(active) \in SlotSet
  BY <1>1, <1>5, <1>6, <1>7, SlotsInKnown DEF SlotsOf
<1>10. PageTyped
  <2>1. shotRefs \in [Shots -> Seq(Assets)]
    BY <1>1, <1>5
  <2>2. row[active].prompt \in Prompts /\ row[active].mode \in PageModes
    BY <1>1, <1>8 DEF RowSet
  <2>3. starts \in 0 .. MaxStarts /\ uploads \in [Starts -> UploadSet \cup {None}]
    BY <1>1, PageAssumption
  <2> QED BY <1>1, <1>4, <1>8, <1>9, <2>1, <2>2, <2>3 DEF PageTyped
<1>11. TasksTyped /\ SubmissionTyped
  BY <1>1 DEF TasksTyped, SubmissionTyped, RequestTyped, ToSet
<1>12. SlotInv
  <2>1. Follow(SlotsOf(active), drawn, pushed)
    BY <1>1, FollowsItself
  <2>2. \A s \in Shots : /\ row[s].slots \in SlotMaps(Uploaded)
                         /\ copy[s].slots \in SlotMaps(Uploaded)
                         /\ ToSet(shown[s]) \subseteq Uploaded
    BY <1>1, <1>5, <1>7
  <2>3. \A n \in Starts : UploadInv(uploads[n], Uploaded)
    BY <1>1 DEF UploadInv
  <2> QED BY <2>1, <2>2, <2>3 DEF SlotInv
<1>13. SubmissionInv /\ TaskInv
  BY <1>1 DEF SubmissionInv, RequestInv, TaskInv
<1> QED BY <1>10, <1>11, <1>12, <1>13, TypeParts DEF PageInv

(* Steps that touch only what the page displays.                           *)
LEMMA ViewStep ==
  ASSUME PageInv, PageTyped', SlotInv', UNCHANGED shotRefs, UNCHANGED submissions,
         UNCHANGED tasks
  PROVE  PageInv'
<1>1. Uploaded \subseteq Uploaded'
  BY UploadedSame
<1>2. SubmissionInv' /\ TaskInv'
  BY <1>1, SubmissionKept, TasksKept DEF PageInv
<1>3. TypeOK'
  BY TypeParts, TypePartsNext, SubmissionTypeKept, TaskTypesKept DEF PageInv
<1> QED BY <1>2, <1>3 DEF PageInv

(* A display of shot s from rows and references that are known leaves the  *)
(* slots drawn as i2vSlotsFor finds them.                                  *)
LEMMA DisplayTyped ==
  ASSUME NEW s \in Shots, NEW rows \in [Shots -> RowSet], NEW refs \in [Shots -> Seq(Assets)],
         Uploaded \subseteq Assets, rows[s].slots \in SlotMaps(Uploaded),
         ToSet(refs[s]) \subseteq Uploaded, Display(s, rows, refs),
         chips \in [aspect : Aspects, preset : Presets, mode : PageModes]
  PROVE  /\ active' = s /\ active' \in Shots /\ prompt' \in Prompts
         /\ chips' \in [aspect : Aspects, preset : Presets, mode : PageModes]
         /\ drawn' \in SlotSet /\ pushed' \subseteq Assets
         /\ drawn' = SlotsIn(rows[s], refs[s])
<1>1. rows[s].prompt \in Prompts /\ rows[s].preset \in Presets /\ rows[s].mode \in PageModes
  BY DEF RowSet
<1>2. /\ active' = s /\ prompt' = rows[s].prompt
      /\ chips' = IF Page = "i2v"
                  THEN [chips EXCEPT !.preset = rows[s].preset, !.mode = rows[s].mode]
                  ELSE chips
      /\ drawn' = SlotsIn(rows[s], refs[s]) /\ pushed' = {}
  BY DEF Display, Draw
<1>3. SlotsIn(rows[s], refs[s]) \in SlotSet
  BY SlotsInKnown
<1>4. chips' \in [aspect : Aspects, preset : Presets, mode : PageModes]
  BY <1>1, <1>2
<1> QED BY <1>1, <1>2, <1>3, <1>4

LEMMA PageInvSelectShot ==
  ASSUME PageInv, NEW s \in Shots, SelectShot(s) PROVE PageInv'
<1>1. PageTyped /\ SlotInv /\ Uploaded \subseteq Assets
  BY TypeParts, UploadedAssets DEF PageInv
<1>2. /\ Display(s, copy, shown)
      /\ UNCHANGED <<row, shotRefs, copy, shown, uploads, submissions, starts, tasks>>
  BY DEF SelectShot
<1>3. /\ active' = s /\ active' \in Shots /\ prompt' \in Prompts
      /\ chips' \in [aspect : Aspects, preset : Presets, mode : PageModes]
      /\ drawn' \in SlotSet /\ pushed' \subseteq Assets
      /\ drawn' = SlotsIn(copy[s], shown[s])
  BY <1>1, <1>2, DisplayTyped DEF PageTyped, SlotInv
<1>4. PageTyped'
  BY <1>1, <1>2, <1>3 DEF PageTyped
<1>5. SlotInv'
  <2>1. SlotsOf(active)' = drawn' /\ Uploaded' = Uploaded
    BY <1>2, <1>3, UploadedSame DEF SlotsOf
  <2> QED BY <1>1, <1>2, <2>1, FollowsItself DEF SlotInv
<1> QED BY <1>2, <1>4, <1>5, ViewStep

LEMMA PageInvEditPrompt ==
  ASSUME PageInv, NEW p \in Prompts, EditPrompt(p) PROVE PageInv'
<1> USE DEF EditPrompt
<1>1. PageTyped
  BY TypeParts DEF PageInv
<1>2. PageTyped'
  BY <1>1 DEF PageTyped, slotVars
<1>3. SlotInv'
  BY SlotsKept DEF PageInv
<1> QED BY <1>2, <1>3, ViewStep

LEMMA PageInvPickMode ==
  ASSUME PageInv, NEW m \in FrameModes, PickMode(m) PROVE PageInv'
<1>1. PageTyped /\ SlotInv /\ Uploaded \subseteq Assets
  BY TypeParts, UploadedAssets DEF PageInv
<1>2. /\ Page = "i2v" /\ chips' = [chips EXCEPT !.mode = m]
      /\ drawn' = SlotsIn(copy[active], shown[active]) /\ pushed' = {}
      /\ UNCHANGED <<row, shotRefs, copy, shown, active, prompt, readout, uploads,
                     submissions, starts, tasks>>
  BY DEF PickMode, Draw
<1>3. drawn' \in SlotSet
  BY <1>1, <1>2, SlotsInKnown DEF PageTyped, SlotInv
<1>4. PageTyped'
  BY <1>1, <1>2, <1>3 DEF PageTyped, PageModes
<1>5. SlotInv'
  <2>1. SlotsOf(active)' = drawn' /\ Uploaded' = Uploaded
    BY <1>2, UploadedSame DEF SlotsOf
  <2> QED BY <1>1, <1>2, <2>1, FollowsItself DEF SlotInv
<1> QED BY <1>2, <1>4, <1>5, ViewStep

LEMMA PageInvPickAspect ==
  ASSUME PageInv, NEW a \in AspectChips, PickAspect(a) PROVE PageInv'
<1> USE DEF PickAspect
<1>1. PageTyped /\ a \in Aspects
  BY TypeParts, PageAssumption DEF PageInv
<1>2. PageTyped'
  BY <1>1 DEF PageTyped, slotVars
<1>3. SlotInv'
  BY SlotsKept DEF PageInv
<1> QED BY <1>2, <1>3, ViewStep

LEMMA PageInvPickPreset ==
  ASSUME PageInv, NEW p \in PresetChips, PickPreset(p) PROVE PageInv'
<1> USE DEF PickPreset
<1>1. PageTyped /\ p \in Presets
  BY TypeParts, PageAssumption DEF PageInv
<1>2. PageTyped'
  BY <1>1 DEF PageTyped, slotVars
<1>3. SlotInv'
  BY SlotsKept DEF PageInv
<1> QED BY <1>2, <1>3, ViewStep

(* A step that puts u in the place of upload n.                            *)
LEMMA UploadsUpdated ==
  ASSUME uploads \in [Starts -> UploadSet \cup {None}], NEW assets,
         \A z \in Starts : UploadInv(uploads[z], assets),
         NEW n \in Starts, NEW u \in UploadSet \cup {None}, UploadInv(u, assets),
         uploads' = [uploads EXCEPT ![n] = u]
  PROVE  /\ uploads' \in [Starts -> UploadSet \cup {None}]
         /\ \A z \in Starts : UploadInv(uploads'[z], assets)
<1> DEFINE Values == UploadSet \cup {None}
<1>1. uploads \in [Starts -> Values] /\ u \in Values
  OBVIOUS
<1> HIDE DEF Values
<1>2. /\ uploads' \in [Starts -> Values] /\ uploads'[n] = u
      /\ \A z \in Starts \ {n} : uploads'[z] = uploads[z]
  BY <1>1
<1>3. \A z \in Starts : UploadInv(uploads'[z], assets)
  <2> TAKE z \in Starts
  <2>1. CASE z = n
    BY <1>2, <2>1
  <2>2. CASE z # n
    BY <1>2, <2>2
  <2> QED BY <2>1, <2>2
<1> QED BY <1>2, <1>3 DEF Values

LEMMA NextStart ==
  ASSUME PageTyped, starts < MaxStarts
  PROVE  starts + 1 \in Starts /\ starts + 1 \in 0 .. MaxStarts
  BY PageAssumption DEF PageTyped, Starts

LEMMA PageInvUploadFrame ==
  ASSUME PageInv, NEW slot \in {"first", "last"}, UploadFrame(slot) PROVE PageInv'
<1> DEFINE u == [stage |-> "file", shot |-> active, slot |-> slot]
<1>1. PageTyped /\ SlotInv
  BY TypeParts DEF PageInv
<1>2. /\ starts < MaxStarts /\ starts' = starts + 1
      /\ uploads' = [uploads EXCEPT ![starts + 1] = u]
      /\ UNCHANGED <<row, shotRefs, copy, shown, active, prompt, chips, readout, drawn,
                     pushed, submissions, tasks>>
  BY DEF UploadFrame, pageVars, slotVars
<1>3. u \in UploadSet \cup {None} /\ UploadInv(u, Uploaded)
  BY <1>1 DEF PageTyped, UploadSet, UploadInv
<1> HIDE DEF u
<1>4. /\ uploads' \in [Starts -> UploadSet \cup {None}]
      /\ \A z \in Starts : UploadInv(uploads'[z], Uploaded)
  BY <1>1, <1>2, <1>3, NextStart, UploadsUpdated DEF PageTyped, SlotInv
<1>5. PageTyped'
  BY <1>1, <1>2, <1>4, NextStart DEF PageTyped
<1>6. SlotInv'
  <2>1. SlotsOf(active)' = SlotsOf(active) /\ Uploaded' = Uploaded
    BY <1>2, UploadedSame DEF SlotsOf
  <2> QED BY <1>1, <1>2, <1>4, <2>1 DEF SlotInv
<1> QED BY <1>2, <1>5, <1>6, ViewStep

(* What an upload saves in the slots is known when its file is.            *)
LEMMA SlotsAfterUpload ==
  ASSUME NEW assets, Uploaded \subseteq assets, assets \subseteq Assets,
         PageTyped, SlotInv, NEW n \in Starts, NEW s \in Shots, NEW slot \in {"first", "last"},
         NEW refs \in Seq(Assets), ToSet(refs) \subseteq assets,
         AfterUpload(n, s, slot, refs)
  PROVE  /\ uploads' \in [Starts -> UploadSet \cup {None}]
         /\ \A z \in Starts : UploadInv(uploads'[z], assets)
<1> DEFINE images == Images(refs)
           newest == IF images = {} THEN None ELSE refs[Max(images)]
           slots  == SlotsIn(copy[s], refs)
<1>1. newest \in ImagesAmong(assets) \cup {None}
  BY KnownReferences
<1>2. slots \in SlotMaps(assets)
  <2>1. copy[s].slots \in SlotMaps(assets)
    BY MoreAssets DEF SlotInv
  <2> QED BY <2>1, SlotsInKnown
<1>3. uploads' = [uploads EXCEPT ![n] =
                    [stage |-> "slots", shot |-> s, preset |-> copy[s].preset,
                     slots |-> [slots EXCEPT ![slot] = newest]]]
  BY DEF AfterUpload
<1> HIDE DEF newest, slots
<1>4. [slots EXCEPT ![slot] = newest] \in SlotMaps(assets)
  BY <1>1, <1>2 DEF SlotMaps
<1>5. SlotMaps(assets) \subseteq SlotSet
  BY SlotMapsTyped
<1>6. copy[s].preset \in Presets
  BY DEF PageTyped, RowSet
<1> DEFINE saved == [slots EXCEPT ![slot] = newest]
           u == [stage |-> "slots", shot |-> s, preset |-> copy[s].preset, slots |-> saved]
<1>7. saved \in SlotSet /\ saved \in SlotMaps(assets)
  BY <1>4, <1>5
<1> HIDE DEF saved
<1>8. u \in UploadSet \cup {None} /\ UploadInv(u, assets)
  BY <1>6, <1>7 DEF UploadSet, UploadInv
<1>9. uploads' = [uploads EXCEPT ![n] = u]
  BY <1>3 DEF saved
<1> HIDE DEF u
<1>10. \A z \in Starts : UploadInv(uploads[z], assets)
  BY MoreAssets DEF SlotInv
<1> QED BY <1>8, <1>9, <1>10, UploadsUpdated DEF PageTyped

LEMMA ToSetOfAppend ==
  ASSUME NEW q \in Seq(Assets), NEW a \in Assets
  PROVE  Append(q, a) \in Seq(Assets) /\ ToSet(Append(q, a)) = ToSet(q) \cup {a}
<1>1. /\ Append(q, a) \in Seq(Assets) /\ Len(q) \in Nat
      /\ DOMAIN q = 1 .. Len(q) /\ DOMAIN Append(q, a) = 1 .. Len(q) + 1
      /\ Append(q, a)[Len(q) + 1] = a
      /\ \A i \in 1 .. Len(q) : Append(q, a)[i] = q[i]
  OBVIOUS
<1>2. \A i \in 1 .. Len(q) + 1 : i = Len(q) + 1 \/ i \in 1 .. Len(q)
  BY <1>1
<1>3. Len(q) + 1 \in 1 .. Len(q) + 1 /\ 1 .. Len(q) \subseteq 1 .. Len(q) + 1
  BY <1>1
<1> QED BY <1>1, <1>2, <1>3 DEF ToSet

(* A file stored for shot s is one more asset that has been uploaded.      *)
LEMMA FileStored ==
  ASSUME PageTyped, NEW s \in Shots, NEW a \in Assets,
         shotRefs' = [shotRefs EXCEPT ![s] = Append(@, a)]
  PROVE  /\ shotRefs' \in [Shots -> Seq(Assets)]
         /\ Uploaded' = Uploaded \cup {a}
<1>1. /\ shotRefs' \in [Shots -> Seq(Assets)]
      /\ ToSet(shotRefs'[s]) = ToSet(shotRefs[s]) \cup {a}
      /\ \A z \in Shots \ {s} : shotRefs'[z] = shotRefs[z]
  BY ToSetOfAppend DEF PageTyped
<1>2. /\ \A x : x \in Uploaded <=> \E z \in Shots : x \in ToSet(shotRefs[z])
      /\ \A x : x \in Uploaded' <=> \E z \in Shots : x \in ToSet(shotRefs'[z])
  BY DEF Uploaded
<1>3. \A x : x \in Uploaded' <=> x \in Uploaded \/ x = a
  <2> TAKE x
  <2>1. ASSUME x \in Uploaded' PROVE x \in Uploaded \/ x = a
    <3>1. PICK z \in Shots : x \in ToSet(shotRefs'[z])
      BY <1>2, <2>1
    <3>2. CASE z = s
      BY <1>1, <1>2, <3>1, <3>2
    <3>3. CASE z # s
      BY <1>1, <1>2, <3>1, <3>3
    <3> QED BY <3>2, <3>3
  <2>2. ASSUME x \in Uploaded PROVE x \in Uploaded'
    <3>1. PICK z \in Shots : x \in ToSet(shotRefs[z])
      BY <1>2, <2>2
    <3>2. CASE z = s
      BY <1>1, <1>2, <3>1, <3>2
    <3>3. CASE z # s
      BY <1>1, <1>2, <3>1, <3>3
    <3> QED BY <3>2, <3>3
  <2>3. a \in Uploaded'
    BY <1>1, <1>2
  <2> QED BY <2>1, <2>2, <2>3
<1> QED BY <1>1, <1>3

LEMMA PageInvFileUploaded ==
  ASSUME PageInv, NEW n \in Starts, FileUploaded(n) PROVE PageInv'
<1> DEFINE s == uploads[n].shot
           slot == uploads[n].slot
<1>1. PageTyped /\ SlotInv /\ Uploaded \subseteq Assets
  BY TypeParts, UploadedAssets DEF PageInv
<1>2. s \in Shots /\ slot \in {"first", "last"}
  <2>1. uploads[n] \in UploadSet /\ uploads[n].stage = "file"
    BY <1>1 DEF FileUploaded, PageTyped
  <2> QED BY <2>1 DEF UploadSet
<1>3. /\ UNCHANGED <<row, copy, active, prompt, chips, readout, drawn, submissions,
                     starts, tasks>>
      /\ AfterUpload(n, s, slot, shown'[s])
      /\ \/ \E a \in Assets \ Uploaded :
              /\ shotRefs' = [shotRefs EXCEPT ![s] = Append(@, a)]
              /\ Push(s, a) \/ UNCHANGED <<shown, pushed>>
         \/ UNCHANGED <<shotRefs, shown, pushed>>
  BY DEF FileUploaded
<1> HIDE DEF s, slot
<1> DEFINE Kept ==
             /\ shotRefs' \in [Shots -> Seq(Assets)] /\ shown' \in [Shots -> Seq(Assets)]
             /\ Uploaded \subseteq Uploaded' /\ Uploaded' \subseteq Assets
             /\ \A z \in Shots : ToSet(shown'[z]) \subseteq Uploaded'
             /\ pushed' \subseteq Assets
             /\ Follow(SlotsIn(copy[active], shown'[active]), drawn, pushed')
<1>4. Kept
  <2>0. /\ shown \in [Shots -> Seq(Assets)] /\ active \in Shots /\ pushed \subseteq Assets
        /\ Follow(SlotsIn(copy[active], shown[active]), drawn, pushed)
        /\ \A z \in Shots : ToSet(shown[z]) \subseteq Uploaded
    BY <1>1 DEF PageTyped, SlotInv, SlotsOf
  <2>1. ASSUME NEW a \in Assets \ Uploaded,
               shotRefs' = [shotRefs EXCEPT ![s] = Append(@, a)], Push(s, a)
        PROVE  Kept
    <3>1. shotRefs' \in [Shots -> Seq(Assets)] /\ Uploaded' = Uploaded \cup {a}
      BY <1>1, <1>2, <2>1, FileStored
    <3>2. /\ shown' = [shown EXCEPT ![s] = Append(@, a)]
          /\ pushed' = IF s = active THEN pushed \cup {a} ELSE pushed
      BY <2>1 DEF Push
    <3>3. /\ shown' \in [Shots -> Seq(Assets)] /\ shown'[s] = Append(shown[s], a)
          /\ \A z \in Shots \ {s} : shown'[z] = shown[z]
          /\ ToSet(shown'[s]) = ToSet(shown[s]) \cup {a}
      BY <1>2, <2>0, <3>2, ToSetOfAppend
    <3>4. \A z \in Shots : ToSet(shown'[z]) \subseteq Uploaded'
      <4> TAKE z \in Shots
      <4>1. CASE z = s
        BY <2>0, <3>1, <3>3, <4>1
      <4>2. CASE z # s
        BY <2>0, <3>1, <3>3, <4>2
      <4> QED BY <4>1, <4>2
    <3>5. Follow(SlotsIn(copy[active], shown'[active]), drawn, pushed')
      <4>1. CASE s = active
        <5>1. Follow(SlotsIn(copy[active], Append(shown[active], a)),
                     SlotsIn(copy[active], shown[active]), {a})
          BY <2>0, SlotsAfterPush
        <5>2. shown'[active] = Append(shown[active], a) /\ pushed' = pushed \cup {a}
          BY <3>2, <3>3, <4>1
        <5> QED BY <2>0, <5>1, <5>2, FollowsOn
      <4>2. CASE s # active
        BY <2>0, <3>2, <3>3, <4>2
      <4> QED BY <4>1, <4>2
    <3> QED BY <1>1, <2>0, <3>1, <3>2, <3>3, <3>4, <3>5
  <2>2. ASSUME NEW a \in Assets \ Uploaded,
               shotRefs' = [shotRefs EXCEPT ![s] = Append(@, a)], UNCHANGED <<shown, pushed>>
        PROVE  Kept
    <3>1. shotRefs' \in [Shots -> Seq(Assets)] /\ Uploaded' = Uploaded \cup {a}
      BY <1>1, <1>2, <2>2, FileStored
    <3>2. shown' = shown /\ pushed' = pushed
      BY <2>2
    <3> QED BY <1>1, <2>0, <3>1, <3>2
  <2>3. CASE UNCHANGED <<shotRefs, shown, pushed>>
    <3>1. Uploaded' = Uploaded
      BY <2>3, UploadedSame
    <3> QED BY <1>1, <2>0, <2>3, <3>1 DEF PageTyped
  <2> HIDE DEF Kept
  <2> QED BY <1>3, <2>1, <2>2, <2>3
<1>5. /\ uploads' \in [Starts -> UploadSet \cup {None}]
      /\ \A z \in Starts : UploadInv(uploads'[z], Uploaded')
  <2>1. shown'[s] \in Seq(Assets) /\ ToSet(shown'[s]) \subseteq Uploaded'
    BY <1>2, <1>4
  <2> QED BY <1>1, <1>2, <1>3, <1>4, <2>1, SlotsAfterUpload
<1>6. PageTyped'
  BY <1>1, <1>3, <1>4, <1>5 DEF PageTyped
<1>7. SlotInv'
  <2>1. \A z \in Shots : /\ row[z].slots \in SlotMaps(Uploaded')
                         /\ copy[z].slots \in SlotMaps(Uploaded')
    BY <1>1, <1>4, MoreAssets DEF SlotInv
  <2>2. SlotsOf(active)' = SlotsIn(copy[active], shown'[active])
    BY <1>3 DEF SlotsOf
  <2> QED BY <1>3, <1>4, <1>5, <2>1, <2>2 DEF SlotInv
<1>8. SubmissionInv' /\ TaskInv'
  BY <1>3, <1>4, SubmissionKept, TasksKept DEF PageInv
<1>9. SubmissionTyped' /\ TasksTyped'
  BY <1>3, SubmissionTypeKept, TaskTypesKept, TypeParts DEF PageInv
<1> QED BY <1>6, <1>7, <1>8, <1>9, TypePartsNext DEF PageInv

LEMMA PageInvSlotsSaved ==
  ASSUME PageInv, NEW n \in Starts, SlotsSaved(n) PROVE PageInv'
<1> DEFINE u == uploads[n]
<1>1. PageTyped /\ SlotInv /\ Uploaded' = Uploaded
  BY TypeParts, UploadedSame DEF PageInv, SlotsSaved
<1>2. /\ UNCHANGED <<shotRefs, copy, shown, active, prompt, chips, readout, drawn,
                     pushed, submissions, starts, tasks>>
      /\ \/ row' = [row EXCEPT ![u.shot].slots = u.slots, ![u.shot].preset = u.preset]
         \/ UNCHANGED row
  BY DEF SlotsSaved, pageVars, slotVars
<1>3. PICK then \in {None, [stage |-> "load", shot |-> u.shot]} :
         uploads' = [uploads EXCEPT ![n] = then]
  BY DEF SlotsSaved
<1>4. /\ u.shot \in Shots /\ u.preset \in Presets /\ u.slots \in SlotSet
      /\ u.slots \in SlotMaps(Uploaded)
  <2>1. /\ u \in UploadSet /\ u.stage = "slots" /\ UploadInv(u, Uploaded) /\ u # None
    BY <1>1 DEF SlotsSaved, PageTyped, SlotInv
  <2> QED BY <2>1 DEF UploadSet, UploadInv
<1>5. then \in UploadSet \cup {None} /\ UploadInv(then, Uploaded)
  BY <1>4 DEF UploadSet, UploadInv
<1> HIDE DEF u
<1>6. /\ uploads' \in [Starts -> UploadSet \cup {None}]
      /\ \A z \in Starts : UploadInv(uploads'[z], Uploaded)
  BY <1>1, <1>3, <1>5, UploadsUpdated DEF PageTyped, SlotInv
<1>7. row' \in [Shots -> RowSet] /\ \A z \in Shots : row'[z].slots \in SlotMaps(Uploaded)
  <2>1. CASE UNCHANGED row
    BY <1>1, <2>1 DEF PageTyped, SlotInv
  <2>2. CASE row' = [row EXCEPT ![u.shot].slots = u.slots, ![u.shot].preset = u.preset]
    <3> DEFINE s == u.shot
               new == [row[s] EXCEPT !.slots = u.slots, !.preset = u.preset]
    <3>1. row[s] \in RowSet
      BY <1>1, <1>4 DEF PageTyped
    <3>2. new \in RowSet /\ new.slots = u.slots
      BY <1>4, <3>1 DEF RowSet
    <3>3. row' = [row EXCEPT ![s] = new]
      BY <1>1, <1>4, <2>2 DEF PageTyped
    <3> HIDE DEF new
    <3>4. /\ row' \in [Shots -> RowSet] /\ row'[s] = new
          /\ \A z \in Shots \ {s} : row'[z] = row[z]
      BY <1>1, <1>4, <3>2, <3>3 DEF PageTyped
    <3>5. ASSUME NEW z \in Shots PROVE row'[z].slots \in SlotMaps(Uploaded)
      <4>1. CASE z = s
        BY <1>4, <3>2, <3>4, <4>1
      <4>2. CASE z # s
        BY <1>1, <3>4, <4>2 DEF SlotInv
      <4> QED BY <4>1, <4>2
    <3> QED BY <3>4, <3>5
  <2> QED BY <1>2, <2>1, <2>2
<1>8. PageTyped'
  BY <1>1, <1>2, <1>6, <1>7 DEF PageTyped
<1>9. SlotInv'
  <2>1. SlotsOf(active)' = SlotsOf(active)
    BY <1>2 DEF SlotsOf
  <2> QED BY <1>1, <1>2, <1>6, <1>7, <2>1 DEF SlotInv
<1> QED BY <1>2, <1>8, <1>9, ViewStep

LEMMA PageInvReloaded ==
  ASSUME PageInv, NEW n \in Starts, Reloaded(n) PROVE PageInv'
<1> DEFINE s == uploads[n].shot
<1>1. PageTyped /\ SlotInv /\ Uploaded' = Uploaded /\ Uploaded \subseteq Assets
  BY TypeParts, UploadedSame, UploadedAssets DEF PageInv, Reloaded
<1>2. s \in Shots
  <2>1. uploads[n] \in UploadSet /\ uploads[n].stage = "load"
    BY <1>1 DEF PageTyped, Reloaded
  <2> QED BY <2>1 DEF UploadSet
<1>3. /\ UNCHANGED <<row, shotRefs, submissions, starts, tasks>>
      /\ uploads' = [uploads EXCEPT ![n] = None]
      /\ \/ copy' = row /\ shown' = shotRefs /\ Display(s, row, shotRefs)
         \/ UNCHANGED pageVars
  BY DEF Reloaded
<1> HIDE DEF s
<1>4. /\ uploads' \in [Starts -> UploadSet \cup {None}]
      /\ \A z \in Starts : UploadInv(uploads'[z], Uploaded)
  <2>1. UploadInv(None, Uploaded)
    BY DEF UploadInv
  <2> QED BY <1>1, <1>3, <2>1, UploadsUpdated DEF PageTyped, SlotInv
<1>5. \A z \in Shots : ToSet(shotRefs[z]) \subseteq Uploaded
  BY DEF Uploaded
<1>6. PageTyped' /\ SlotInv'
  <2>1. CASE copy' = row /\ shown' = shotRefs /\ Display(s, row, shotRefs)
    <3>1. /\ active' = s /\ active' \in Shots /\ prompt' \in Prompts
          /\ chips' \in [aspect : Aspects, preset : Presets, mode : PageModes]
          /\ drawn' \in SlotSet /\ pushed' \subseteq Assets
          /\ drawn' = SlotsIn(row[s], shotRefs[s])
      BY <1>1, <1>2, <1>5, <2>1, DisplayTyped DEF PageTyped, SlotInv
    <3>2. PageTyped'
      BY <1>1, <1>3, <1>4, <2>1, <3>1 DEF PageTyped
    <3>3. SlotInv'
      <4>1. SlotsOf(active)' = drawn'
        BY <2>1, <3>1 DEF SlotsOf
      <4> QED BY <1>1, <1>3, <1>4, <1>5, <2>1, <4>1, FollowsItself DEF SlotInv
    <3> QED BY <3>2, <3>3
  <2>2. CASE UNCHANGED pageVars
    <3>1. UNCHANGED <<copy, shown, active, prompt, chips, readout, drawn, pushed>>
      BY <2>2 DEF pageVars, slotVars
    <3>2. PageTyped'
      BY <1>1, <1>3, <1>4, <3>1 DEF PageTyped
    <3>3. SlotInv'
      <4>1. SlotsOf(active)' = SlotsOf(active)
        BY <3>1 DEF SlotsOf
      <4> QED BY <1>1, <1>3, <1>4, <3>1, <4>1 DEF SlotInv
    <3> QED BY <3>2, <3>3
  <2> QED BY <1>3, <2>1, <2>2
<1> QED BY <1>3, <1>6, ViewStep

(* A step that puts r in the place of submission n.                        *)
LEMMA SubmissionsUpdated ==
  ASSUME SubmissionTyped, SubmissionInv, Uploaded' = Uploaded, NEW n \in Starts, NEW r,
         RequestTyped(r), RequestInv(r, Uploaded),
         submissions' = [submissions EXCEPT ![n] = r]
  PROVE  SubmissionTyped' /\ SubmissionInv'
<1>1. /\ DOMAIN submissions' = Starts /\ submissions'[n] = r
      /\ \A z \in Starts \ {n} : submissions'[z] = submissions[z]
  BY DEF SubmissionTyped
<1>2. \A z \in Starts : RequestTyped(submissions'[z]) /\ RequestInv(submissions'[z], Uploaded)
  <2> TAKE z \in Starts
  <2>1. CASE z = n
    BY <1>1, <2>1
  <2>2. CASE z # n
    BY <1>1, <2>2 DEF SubmissionTyped, SubmissionInv
  <2> QED BY <2>1, <2>2
<1>3. SubmissionTyped'
  BY <1>1, <1>2 DEF SubmissionTyped, RequestTyped
<1>4. SubmissionInv'
  BY <1>2 DEF SubmissionInv
<1> QED BY <1>3, <1>4

LEMMA PageInvGenerate ==
  ASSUME PageInv, NEW form \in Forms, Generate(form) PROVE PageInv'
<1> DEFINE slots  == SlotsOf(active)
           params == ActiveParams(form)
           refs   == IF Page = "i2v" THEN SlotRefs(slots) ELSE <<>>
           clicked == [slots |-> drawn, pushed |-> pushed, size |-> readout,
                       duration |-> form.duration, frames |-> Badge(form.duration)]
           r == [stage |-> "save", shot |-> active, mode |-> chips.mode,
                 prompt |-> prompt, params |-> params, refs |-> refs, clicked |-> clicked]
<1>1. /\ PageTyped /\ SlotInv /\ Uploaded' = Uploaded /\ Uploaded \subseteq Assets
      /\ TasksTyped /\ SubmissionTyped /\ SubmissionInv
  BY TypeParts, UploadedSame, UploadedAssets DEF PageInv, Generate
<1>2. slots \in SlotMaps(Uploaded) /\ Follow(slots, drawn, pushed)
  BY <1>1, SlotsInKnown DEF PageTyped, SlotInv, SlotsOf
<1>3. /\ UNCHANGED <<row, shotRefs, copy, shown, active, prompt, chips, readout,
                     drawn, pushed, uploads, tasks>>
      /\ starts' = starts + 1 /\ starts < MaxStarts
      /\ chips.mode \in {"first_frame", "first_last"} => slots.first # None
      /\ chips.mode \in {"last_frame", "first_last"} => slots.last # None
      /\ submissions' = [submissions EXCEPT ![starts + 1] = r]
  BY DEF Generate, pageVars, slotVars
<1>4. /\ params \in ParamSet
      /\ params.duration = IF form.duration \in Durations THEN form.duration ELSE None
  BY <1>1 DEF ActiveParams, ParamSet, PageTyped
<1>5. /\ form.duration \in Int \/ form.duration = None
      /\ chips.mode \in PageModes /\ active \in Shots /\ prompt \in Prompts
  BY <1>1, PageAssumption DEF PageTyped
<1> HIDE DEF slots, params, refs
<1>6. /\ clicked.slots = drawn /\ clicked.pushed = pushed
      /\ clicked.duration = form.duration /\ clicked.frames = Badge(form.duration)
  OBVIOUS
<1> HIDE DEF clicked
<1>7. /\ r.stage = "save" /\ r.shot = active /\ r.mode = chips.mode /\ r.prompt = prompt
      /\ r.params = params /\ r.refs = refs /\ r.clicked = clicked
      /\ DOMAIN r = RequestFields
  BY DEF RequestFields
<1> HIDE DEF r
<1>8. RequestTyped(r)
  BY <1>4, <1>5, <1>7 DEF RequestTyped
<1>9. RequestInv(r, Uploaded)
  <2>1. /\ r.mode \in {"first_frame", "first_last"} => slots.first # None
        /\ r.mode \in {"last_frame", "first_last"} => slots.last # None
        /\ Follow(slots, r.clicked.slots, r.clicked.pushed)
        /\ r.refs = IF Page = "i2v" THEN SlotRefs(slots) ELSE <<>>
    BY <1>2, <1>3, <1>6, <1>7 DEF refs
  <2>2. /\ r.mode \in PageModes
        /\ r.clicked.duration \in Int \/ r.clicked.duration = None
        /\ r.clicked.frames = Badge(r.clicked.duration)
        /\ r.params.duration =
               IF r.clicked.duration \in Durations THEN r.clicked.duration ELSE None
    BY <1>4, <1>5, <1>6, <1>7
  <2>3. AsShown(r, Uploaded)
    BY <1>2, <2>1, <2>2 DEF AsShown
  <2> QED BY <1>7, <2>3 DEF RequestInv
<1>10. PageTyped'
  BY <1>1, <1>3, NextStart DEF PageTyped
<1>11. SlotInv'
  BY <1>1, <1>3, SlotsKept DEF slotVars
<1>12. SubmissionTyped' /\ SubmissionInv'
  BY <1>1, <1>3, <1>8, <1>9, NextStart, SubmissionsUpdated
<1>13. TaskInv' /\ TasksTyped'
  BY <1>1, <1>3, TasksKept, TaskTypesKept DEF PageInv
<1> QED BY <1>10, <1>11, <1>12, <1>13, TypePartsNext DEF PageInv

LEMMA PageInvShotSaved ==
  ASSUME PageInv, NEW n \in Starts, ShotSaved(n) PROVE PageInv'
<1> DEFINE r == submissions[n]
           s == r.shot
           new == [mode |-> r.mode, prompt |-> r.prompt,
                   duration |-> Given(r.params.duration, 8),
                   preset |-> Given(r.params.resolution, DefaultPreset),
                   slots |-> NoSlots]
           next == [r EXCEPT !.stage = "post", !.prompt = prompt]
<1>1. /\ PageTyped /\ SlotInv /\ Uploaded' = Uploaded /\ SubmissionTyped
      /\ SubmissionInv /\ TasksTyped /\ r # None /\ RequestTyped(r)
      /\ RequestInv(r, Uploaded)
  BY TypeParts, UploadedSame DEF PageInv, ShotSaved, SubmissionTyped, SubmissionInv
<1>2. /\ UNCHANGED <<shotRefs, copy, shown, active, prompt, chips, readout, drawn,
                     pushed, uploads, starts, tasks>>
      /\ submissions' = [submissions EXCEPT ![n].stage = "post", ![n].prompt = prompt]
      /\ row' = [row EXCEPT ![s] = new] \/ row' = row
  BY DEF ShotSaved, pageVars, slotVars
<1>3. new \in RowSet /\ new.slots \in SlotMaps(Uploaded) /\ s \in Shots
  <2>1. NoSlots \in SlotSet /\ NoSlots \in SlotMaps(Uploaded)
    BY DEF NoSlots, SlotSet, SlotMaps
  <2>2. /\ Given(r.params.duration, 8) \in Durations
        /\ Given(r.params.resolution, DefaultPreset) \in Presets
    BY <1>1 DEF RequestTyped, ParamSet, Given, Durations, Presets, DefaultPreset
  <2> QED BY <1>1, <2>1, <2>2 DEF RowSet, RequestTyped
<1>4. submissions' = [submissions EXCEPT ![n] = next]
  BY <1>1, <1>2 DEF SubmissionTyped
<1>5. /\ DOMAIN r = RequestFields /\ AsShown(r, Uploaded)
      /\ r.shot \in Shots /\ r.mode \in PageModes /\ r.params \in ParamSet
  BY <1>1 DEF RequestInv, RequestTyped
<1>6. /\ DOMAIN next = RequestFields /\ next.stage = "post" /\ next.shot = r.shot
      /\ next.mode = r.mode /\ next.prompt = prompt /\ next.params = r.params
      /\ next.refs = r.refs /\ next.clicked = r.clicked
  <2> HIDE DEF r
  <2> QED BY <1>5 DEF RequestFields
<1> HIDE DEF new, s, r, next
<1>7. row' \in [Shots -> RowSet] /\ \A z \in Shots : row'[z].slots \in SlotMaps(Uploaded)
  <2>1. row \in [Shots -> RowSet] /\ \A z \in Shots : row[z].slots \in SlotMaps(Uploaded)
    BY <1>1 DEF PageTyped, SlotInv
  <2> QED BY <1>2, <1>3, <2>1
<1>8. PageTyped'
  BY <1>1, <1>2, <1>7 DEF PageTyped
<1>9. SlotInv'
  <2>1. SlotsOf(active)' = SlotsOf(active)
    BY <1>2 DEF SlotsOf
  <2> QED BY <1>1, <1>2, <1>7, <2>1 DEF SlotInv
<1>10. RequestTyped(next)
  BY <1>1, <1>5, <1>6 DEF RequestTyped, PageTyped
<1>11. RequestInv(next, Uploaded)
  BY <1>5, <1>6 DEF RequestInv, AsShown
<1>12. SubmissionTyped' /\ SubmissionInv'
  BY <1>1, <1>4, <1>10, <1>11, SubmissionsUpdated
<1>13. TaskInv' /\ TasksTyped'
  BY <1>1, <1>2, TasksKept, TaskTypesKept DEF PageInv
<1> QED BY <1>8, <1>9, <1>12, <1>13, TypePartsNext DEF PageInv

LEMMA PageInvPosted ==
  ASSUME PageInv, NEW n \in Starts, Posted(n) PROVE PageInv'
<1> DEFINE r == submissions[n]
           d == row[r.shot].duration
<1>1. /\ PageTyped /\ SlotInv /\ Uploaded' = Uploaded /\ SubmissionTyped
      /\ SubmissionInv /\ TasksTyped /\ TaskInv /\ r # None /\ RequestTyped(r)
      /\ RequestInv(r, Uploaded)
  BY TypeParts, UploadedSame DEF PageInv, Posted, SubmissionTyped, SubmissionInv
<1>2. /\ UNCHANGED <<row, shotRefs, copy, shown, active, prompt, chips, readout, drawn,
                     pushed, uploads, starts>>
      /\ submissions' = [submissions EXCEPT ![n] = None]
      /\ (Accepts(r, d) /\ NewTask(r, r.clicked)) \/ UNCHANGED tasks
  BY DEF Posted, pageVars, slotVars
<1> HIDE DEF r, d
<1>3. PageTyped' /\ SubmissionTyped' /\ SlotInv' /\ SubmissionInv'
  <2>1. PageTyped'
    BY <1>1, <1>2 DEF PageTyped
  <2>2. SlotInv'
    BY <1>1, <1>2, SlotsKept DEF slotVars
  <2>3. RequestTyped(None) /\ RequestInv(None, Uploaded)
    BY DEF RequestTyped, RequestInv
  <2> QED BY <1>1, <1>2, <2>1, <2>2, <2>3, SubmissionsUpdated
<1>4. TasksTyped' /\ TaskInv'
  <2>1. CASE UNCHANGED tasks
    BY <1>1, <1>2, <2>1, TasksKept, TaskTypesKept
  <2>2. CASE Accepts(r, d) /\ NewTask(r, r.clicked)
    <3>1. PICK seed \in (IF r.params.seed = None THEN RandomSeeds ELSE {r.params.seed}) :
             tasks' = Append(tasks, [mode |-> r.mode, prompt |-> r.prompt,
                                     params |-> [r.params EXCEPT !.seed = seed],
                                     refs |-> r.refs, submitted |-> seed,
                                     clicked |-> r.clicked, attempts |-> <<>>,
                                     reads |-> <<>>, running |-> FALSE,
                                     recorded |-> {}])
      BY <2>2 DEF NewTask
    <3> DEFINE t == [mode |-> r.mode, prompt |-> r.prompt,
                     params |-> [r.params EXCEPT !.seed = seed],
                     refs |-> r.refs, submitted |-> seed,
                     clicked |-> r.clicked, attempts |-> <<>>,
                     reads |-> <<>>, running |-> FALSE, recorded |-> {}]
    <3>2. AsShown(r, Uploaded) /\ IsParams(r.params)
      BY <1>1 DEF RequestInv, RequestTyped, ParamSet, IsParams
    <3>3. r.refs \in Seq(ToSet(r.refs)) /\ ToSet(r.refs) \cap Assets \subseteq Uploaded
      <4>1. Uploaded \subseteq Assets
        BY UploadedAssets DEF PageInv
      <4>2. r.refs \in Seq(ImagesAmong(Uploaded))
        <5>1. ImagesAmong(Uploaded) \subseteq Assets
          BY <4>1 DEF ImagesAmong
        <5>2. \A a \in ImagesAmong(Uploaded) : Kind[a] = "image"
          BY DEF ImagesAmong
        <5>3. PICK slots \in [{"first", "last"} -> ImagesAmong(Uploaded) \cup {None}] :
                 r.refs = IF Page = "i2v" THEN SlotRefs(slots) ELSE <<>>
          BY <3>2 DEF AsShown, SlotMaps
        <5>4. SlotRefs(slots) \in Seq(ImagesAmong(Uploaded))
          BY <5>1, <5>2, SlotsPosted
        <5> QED BY <5>3, <5>4
      <4> DEFINE refs == r.refs
      <4> HIDE DEF refs
      <4>3. /\ Len(refs) \in Nat /\ DOMAIN refs = 1 .. Len(refs)
            /\ refs = [i \in 1 .. Len(refs) |-> refs[i]]
            /\ \A i \in 1 .. Len(refs) : refs[i] \in ImagesAmong(Uploaded)
        BY <4>2 DEF refs
      <4>4. \A i \in 1 .. Len(refs) : refs[i] \in ToSet(refs)
        BY <4>3 DEF ToSet
      <4>5. ToSet(refs) \subseteq Uploaded
        BY <4>3 DEF ToSet, ImagesAmong
      <4> QED BY <4>3, <4>4, <4>5, IsASeq DEF refs
    <3>4. IsTask(t, Uploaded) /\ SeedInv(t) /\ AsShown(t, Uploaded)
      BY <2>2, <3>2, <3>3, TaskInserted
    <3>5. tasks' = Append(tasks, t)
      BY <3>1
    <3> HIDE DEF t
    <3> QED BY <1>1, <1>2, <3>4, <3>5, TaskAdded
  <2> QED BY <1>2, <2>1, <2>2
<1> QED BY <1>3, <1>4, TypePartsNext DEF PageInv

(* Steps on tasks only.                                                    *)
LEMMA TaskStep ==
  ASSUME PageInv, TasksTyped', TaskInv',
         UNCHANGED <<row, shotRefs, pageVars, uploads, submissions, starts>>
  PROVE  PageInv'
<1>1. /\ PageTyped /\ SlotInv /\ Uploaded' = Uploaded /\ SubmissionTyped /\ SubmissionInv
  BY TypeParts, UploadedSame DEF PageInv
<1>2. /\ UNCHANGED <<row, shotRefs, copy, shown, active, prompt, chips, readout,
                      uploads, starts>>
      /\ UNCHANGED slotVars
  BY DEF pageVars
<1>3. PageTyped'
  BY <1>1, <1>2 DEF PageTyped, slotVars
<1>4. SlotInv'
  BY <1>1, <1>2, SlotsKept
<1>5. SubmissionTyped' /\ SubmissionInv'
  BY <1>1, SubmissionTypeKept, SubmissionKept
<1> QED BY <1>3, <1>4, <1>5, TypePartsNext DEF PageInv

LEMMA PageInvApiPosted ==
  ASSUME PageInv, NEW r \in ApiRequests, ApiPosted(r) PROVE PageInv'
<1>1. TasksTyped /\ TaskInv
  BY TypeParts DEF PageInv
<1>2. PICK seed \in (IF r.params.seed = None THEN RandomSeeds ELSE {r.params.seed}) :
         tasks' = Append(tasks, [mode |-> r.mode, prompt |-> r.prompt,
                                 params |-> [r.params EXCEPT !.seed = seed],
                                 refs |-> r.refs, submitted |-> seed,
                                 clicked |-> None, attempts |-> <<>>, reads |-> <<>>,
                                 running |-> FALSE, recorded |-> {}])
  BY DEF ApiPosted, NewTask
<1> DEFINE t == [mode |-> r.mode, prompt |-> r.prompt,
                 params |-> [r.params EXCEPT !.seed = seed],
                 refs |-> r.refs, submitted |-> seed,
                 clicked |-> None, attempts |-> <<>>, reads |-> <<>>,
                 running |-> FALSE, recorded |-> {}]
           d == row[r.shot].duration
           none == None
<1>3. /\ Accepts(r, d) /\ ToSet(r.refs) \cap Assets \subseteq Uploaded
      /\ UNCHANGED <<row, shotRefs, pageVars, uploads, submissions, starts>>
  BY DEF ApiPosted
<1>4. IsParams(r.params) /\ r.refs \in Seq(ToSet(r.refs))
  BY PageAssumption
<1> HIDE DEF d
<1>5. IsTask(t, Uploaded) /\ SeedInv(t)
  BY <1>3, <1>4, TaskInserted
<1>6. tasks' = Append(tasks, t) /\ t.clicked = None
  BY <1>2
<1> HIDE DEF t
<1>7. TasksTyped' /\ TaskInv'
  BY <1>1, <1>3, <1>5, <1>6, TaskAdded
<1> QED BY <1>3, <1>7, TaskStep

LEMMA PageInvStartAttempt ==
  ASSUME PageInv, NEW i \in DOMAIN tasks, StartAttempt(i) PROVE PageInv'
<1>1. TasksTyped /\ TaskInv /\ Uploaded \subseteq Assets
  BY TypeParts, UploadedAssets DEF PageInv
<1>2. UNCHANGED <<row, shotRefs, pageVars, uploads, submissions, starts>>
  BY DEF StartAttempt
<1> DEFINE t == tasks[i]
<1>3. PICK clock \in Clocks, read \in Reads :
         tasks' = [tasks EXCEPT
                     ![i].attempts = Append(@, BuildParams(tasks[i].mode, tasks[i].params,
                                                 Resolved(tasks[i].refs), clock, read)),
                     ![i].reads = Append(@, read),
                     ![i].running = TRUE]
  BY DEF StartAttempt, Reads
<1> DEFINE built == BuildParams(t.mode, t.params, Resolved(t.refs), clock, read)
           u == [t EXCEPT !.attempts = Append(t.attempts, built),
                          !.reads = Append(t.reads, read), !.running = TRUE]
<1>4. IsTask(t, Uploaded) /\ SeedInv(t)
  BY <1>1 DEF TaskInv
<1>5. /\ IsTask(u, Uploaded) /\ SeedInv(u) /\ u.clicked = t.clicked
      /\ AsShown(t, Uploaded) => AsShown(u, Uploaded)
  <2>1. Started(t, u, clock, read)
    BY DEF Started
  <2> HIDE DEF t, u, built
  <2> QED BY <1>1, <1>4, <2>1, TaskStarts
<1>6. /\ DOMAIN tasks' = DOMAIN tasks /\ tasks' = [j \in DOMAIN tasks |-> tasks'[j]]
      /\ \A j \in DOMAIN tasks \ {i} : tasks'[j] = tasks[j]
      /\ tasks'[i] = u
  <2> HIDE DEF built
  <2>1. tasks' = [tasks EXCEPT ![i].attempts = Append(@, built),
                               ![i].reads = Append(@, read), ![i].running = TRUE]
    BY <1>3 DEF built
  <2> QED BY <2>1
<1> HIDE DEF u
<1>7. TasksTyped' /\ TaskInv'
  BY <1>1, <1>2, <1>5, <1>6, TaskUpdated
<1> QED BY <1>2, <1>7, TaskStep

LEMMA PageInvAttemptEnds ==
  ASSUME PageInv, NEW i \in DOMAIN tasks, AttemptEnds(i) PROVE PageInv'
<1>1. TasksTyped /\ TaskInv
  BY TypeParts DEF PageInv
<1>2. UNCHANGED <<row, shotRefs, pageVars, uploads, submissions, starts>>
  BY DEF AttemptEnds
<1> DEFINE t == tasks[i]
           u == [t EXCEPT !.running = FALSE]
<1>3. IsTask(t, Uploaded) /\ SeedInv(t)
  BY <1>1 DEF TaskInv
<1>4. /\ IsTask(u, Uploaded) /\ SeedInv(u) /\ u.clicked = t.clicked
      /\ AsShown(t, Uploaded) => AsShown(u, Uploaded)
  <2> HIDE DEF t
  <2> QED BY <1>3, TaskEnds
<1>5. /\ DOMAIN tasks' = DOMAIN tasks /\ tasks' = [j \in DOMAIN tasks |-> tasks'[j]]
      /\ \A j \in DOMAIN tasks \ {i} : tasks'[j] = tasks[j]
      /\ tasks'[i] = u
  BY DEF AttemptEnds
<1> HIDE DEF u
<1>6. TasksTyped' /\ TaskInv'
  BY <1>1, <1>2, <1>4, <1>5, TaskUpdated
<1> QED BY <1>2, <1>6, TaskStep

LEMMA PageInvAttemptRecords ==
  ASSUME PageInv, NEW i \in DOMAIN tasks, AttemptRecords(i) PROVE PageInv'
<1>1. TasksTyped /\ TaskInv
  BY TypeParts DEF PageInv
<1>2. UNCHANGED <<row, shotRefs, pageVars, uploads, submissions, starts>>
  BY DEF AttemptRecords
<1> DEFINE t == tasks[i]
           l == Len(t.attempts)
           seed == Last(t.attempts).seed
           u == [t EXCEPT !.running = FALSE, !.recorded = @ \cup {l}, !.params.seed = seed]
<1>3. IsTask(t, Uploaded) /\ SeedInv(t) /\ t.running
  BY <1>1 DEF TaskInv, AttemptRecords
<1>4. /\ IsTask(u, Uploaded) /\ SeedInv(u) /\ u.clicked = t.clicked
      /\ AsShown(t, Uploaded) => AsShown(u, Uploaded)
  <2>1. Recorded(t, u)
    BY DEF Recorded
  <2> HIDE DEF t, u, l, seed
  <2> QED BY <1>3, <2>1, TaskRecords
<1>5. /\ DOMAIN tasks' = DOMAIN tasks /\ tasks' = [j \in DOMAIN tasks |-> tasks'[j]]
      /\ \A j \in DOMAIN tasks \ {i} : tasks'[j] = tasks[j]
      /\ tasks'[i] = u
  <2>1. tasks' = [tasks EXCEPT ![i].running = FALSE, ![i].recorded = @ \cup {l},
                               ![i].params.seed = seed]
    BY DEF AttemptRecords
  <2> HIDE DEF l, seed
  <2> QED BY <2>1
<1> HIDE DEF u
<1>6. TasksTyped' /\ TaskInv'
  BY <1>1, <1>2, <1>4, <1>5, TaskUpdated
<1> QED BY <1>2, <1>6, TaskStep

LEMMA PageInvStutter == ASSUME PageInv, UNCHANGED vars PROVE PageInv'
<1>1. TasksTyped /\ TaskInv /\ Uploaded' = Uploaded
  BY TypeParts, UploadedSame DEF PageInv, vars
<1>2. TasksTyped' /\ TaskInv'
  BY <1>1, TasksKept, TaskTypesKept DEF vars
<1> QED BY <1>2, TaskStep DEF vars

LEMMA PageInvHolds == Spec => []PageInv
<1>1. PageInv /\ [Next]_vars => PageInv'
  <2> SUFFICES ASSUME PageInv, [Next]_vars PROVE PageInv'
    OBVIOUS
  <2>1. CASE User
    BY <2>1, PageInvSelectShot, PageInvEditPrompt, PageInvPickAspect, PageInvPickPreset,
       PageInvPickMode, PageInvUploadFrame, PageInvGenerate, PageInvApiPosted DEF User
  <2>2. CASE Answer
    BY <2>2, PageInvFileUploaded, PageInvSlotsSaved, PageInvReloaded, PageInvShotSaved,
       PageInvPosted DEF Answer
  <2>3. CASE Attempts
    BY <2>3, PageInvStartAttempt, PageInvAttemptEnds, PageInvAttemptRecords DEF Attempts
  <2>4. CASE UNCHANGED vars
    BY <2>4, PageInvStutter
  <2> QED BY <2>1, <2>2, <2>3, <2>4 DEF Next
<1> QED BY PageInvInit, <1>1, PTL DEF Spec

-----------------------------------------------------------------------------
(* The properties.                                                         *)

(* The rows, the page's copies of them and what is on its way keep their   *)
(* types, and every task has a seed in the range of submit_generation.     *)
THEOREM PageTypeCorrect == Spec => []TypeOK
<1>1. PageInv => TypeOK
  BY DEF PageInv
<1> QED BY <1>1, PageInvHolds, PTL

LEMMA AttemptIsBuilt ==
  ASSUME NEW t, NEW assets, IsTask(t, assets), NEW n \in DOMAIN t.attempts
  PROVE  LET b == t.attempts[n]
         IN  /\ b = Built(t, b.seed, t.reads[n])
             /\ b.type = TaskType(t.mode)
             /\ b.frames = FramesForDuration(Given(t.params.duration, 8))
             /\ b.size = OutputSize(t.mode, t.params, t.refs)
             /\ b.first = FirstImage(t.mode, t.refs)
             /\ b.last = LastImage(t.mode, t.refs)
             /\ b.knobs = EffectiveKnobs(t.params, t.reads[n])
<1> DEFINE b == t.attempts[n]
<1>1. t.attempts \in Seq(BuiltFrom(t)) /\ b.knobs = EffectiveKnobs(t.params, t.reads[n])
  BY DEF IsTask, ReadsInv
<1>2. b \in BuiltFrom(t)
  BY <1>1
<1>3. PICK seed \in Seeds \ {0}, read \in Reads : b = Built(t, seed, read)
  BY <1>2 DEF BuiltFrom
<1> HIDE DEF b
<1>4. b.seed = seed /\ b.knobs = EffectiveKnobs(t.params, read)
  BY <1>3 DEF Built
<1>5. Built(t, seed, read) = Built(t, b.seed, t.reads[n])
  BY <1>1, <1>4 DEF Built, b
<1>6. /\ b.type = TaskType(t.mode)
      /\ b.frames = FramesForDuration(Given(t.params.duration, 8))
      /\ b.size = OutputSize(t.mode, t.params, t.refs)
      /\ b.first = FirstImage(t.mode, t.refs)
      /\ b.last = LastImage(t.mode, t.refs)
  BY <1>3 DEF Built
<1> QED BY <1>1, <1>3, <1>5, <1>6 DEF b

LEMMA AttemptOf ==
  ASSUME NEW t, NEW b \in AttemptsOf(t)
  PROVE  \E n \in DOMAIN t.attempts : b = t.attempts[n]
  BY DEF AttemptsOf, ToSet

LEMMA PageTaskKnown ==
  ASSUME PageInv, NEW t \in ToSet(tasks)
  PROVE  /\ IsTask(t, Uploaded) /\ SeedInv(t)
         /\ t.clicked # None => AsShown(t, Uploaded)
  BY DEF PageInv, TaskInv, ToSet

(* Numbers outside the range of durations have badges of their own: none   *)
(* of them is the count of frames of the 8 seconds that the server then    *)
(* makes.                                                                  *)
LEMMA BadgesApart ==
  ASSUME NEW d \in Int, d \notin Durations
  PROVE  PageFrames(d) # FramesForDuration(8)
<1>1. FramesForDuration(8) = 192
  BY DEF FramesForDuration, BaseFrames, AtLeast, Fps, FrameMin, FrameBlock
<1> DEFINE b == AtLeast(d * 24, 5)
           e == JsMod(JsMod(5 - JsMod(b, 17), 17) + 17, 17)
<1>2. b \in Nat /\ (b <= 72 \/ b >= 384)
  BY DEF AtLeast, Durations
<1>3. PageFrames(d) = b + e
  BY DEF PageFrames
<1> HIDE DEF b
<1>4. e \in 0 .. 16
  <2> DEFINE r == JsMod(b, 17)
             q == JsMod(5 - r, 17)
  <2>1. r \in 0 .. 16
    BY <1>2 DEF JsMod
  <2> HIDE DEF r
  <2>2. q \in -16 .. 16
    BY <2>1 DEF JsMod
  <2> HIDE DEF q
  <2>3. JsMod(q + 17, 17) \in 0 .. 16
    BY <2>2 DEF JsMod
  <2> QED BY <2>3 DEF q, r
<1> HIDE DEF e
<1> QED BY <1>1, <1>2, <1>3, <1>4

(* The badge announces the frames of every attempt, on the grid of the     *)
(* model, exactly when the field holds one of the durations that the page  *)
(* posts, for every sequence of edits, saves and retries.                  *)
THEOREM BadgeKept == Spec => []FramesAsShown
<1>1. PageInv => FramesAsShown
  <2> SUFFICES ASSUME PageInv, NEW t \in PageTasks, NEW b \in AttemptsOf(t)
               PROVE  /\ b.frames % 17 = 5
                      /\ b.frames = t.clicked.frames <=> t.clicked.duration \in Durations
    BY DEF FramesAsShown
  <2>1. IsTask(t, Uploaded) /\ AsShown(t, Uploaded)
    BY PageTaskKnown DEF PageTasks
  <2> DEFINE d == Given(t.params.duration, 8)
             c == t.clicked.duration
  <2>2. d \in Nat /\ d = IF c \in Durations THEN c ELSE 8
    <3>1. t.params.duration = IF c \in Durations THEN c ELSE None
      BY <2>1 DEF AsShown
    <3> QED BY <3>1, NoneIsNoDuration DEF Given, Durations
  <2>3. b.frames = FramesForDuration(d)
    BY <2>1, AttemptOf, AttemptIsBuilt
  <2>4. /\ t.clicked.frames = Badge(c)
        /\ c \in Int \/ c = None
    BY <2>1 DEF AsShown
  <2> HIDE DEF c, d
  <2>5. FramesForDuration(d) % 17 = 5 /\ FramesForDuration(d) \in Nat
    <3>1. FramesForDuration(d) \in Nat
      <4>1. BaseFrames(d) \in Nat
        BY <2>2, BaseFramesNat
      <4> QED BY <4>1 DEF FramesForDuration, FrameMin, FrameBlock
    <3> QED BY <2>2, <3>1, NextOnGrid DEF FrameBlock, FrameMin
  <2>6. CASE c \in Durations
    <3>1. t.clicked.frames = PageFrames(c) /\ c \in Nat
      BY <2>4, <2>6, NoneIsNoDuration DEF Badge, Durations
    <3>2. b.frames = t.clicked.frames
      BY <2>2, <2>3, <2>6, <3>1, BadgeIsTrue
    <3>3. b.frames % 17 = 5
      BY <2>3, <2>5
    <3> QED BY <2>6, <3>2, <3>3, Zenon DEF c
  <2>7. CASE c \notin Durations
    <3>1. d = 8
      BY <2>2, <2>7
    <3>2. CASE c = None
      <4>1. None \notin Nat
        BY NoneIsNoNat
      <4>2. t.clicked.frames = None
        BY <2>4, <3>2 DEF Badge
      <4>3. b.frames # t.clicked.frames
        BY <2>3, <2>5, <4>1, <4>2
      <4>4. b.frames % 17 = 5
        BY <2>3, <2>5
      <4> QED BY <2>7, <4>3, <4>4, Zenon DEF c
    <3>3. CASE c # None
      <4>1. t.clicked.frames = PageFrames(c) /\ c \in Int
        BY <2>4, <3>3 DEF Badge
      <4>2. PageFrames(c) # FramesForDuration(8)
        BY <2>7, <4>1, BadgesApart
      <4>3. b.frames # t.clicked.frames
        BY <2>3, <3>1, <4>1, <4>2, Zenon
      <4>4. b.frames % 17 = 5
        BY <2>3, <2>5
      <4> QED BY <2>7, <4>3, <4>4, Zenon DEF c
    <3> QED BY <3>2, <3>3
  <2> QED BY <2>6, <2>7
<1> QED BY <1>1, PageInvHolds, PTL

(* An image displayed in a slot at the click is the one used, and an empty *)
(* slot is filled by nothing but an upload answered since it was drawn,    *)
(* however uploads, saves, reloads and submissions are interleaved.        *)
THEOREM SlotsKeptToTheEnd == Spec => []SlotsAsShown
<1>1. PageInv => SlotsAsShown
  <2> SUFFICES ASSUME PageInv, NEW t \in PageTasks, NEW b \in AttemptsOf(t)
               PROVE  /\ t.mode \in {"first_frame", "first_last"} =>
                              InSlot(b.first, "first", t.clicked)
                      /\ t.mode = "first_last" => InSlot(b.last, "last", t.clicked)
                      /\ t.mode = "last_frame" =>
                             \/ InSlot(b.last, "first", t.clicked)
                             \/ /\ t.clicked.slots.first = None
                                /\ InSlot(b.last, "last", t.clicked)
    BY DEF SlotsAsShown
  <2> DEFINE known == ImagesAmong(Uploaded)
  <2>1. IsTask(t, Uploaded) /\ AsShown(t, Uploaded) /\ Uploaded \subseteq Assets
    BY PageTaskKnown, UploadedAssets DEF PageTasks, PageInv
  <2>2. b.first = FirstImage(t.mode, t.refs) /\ b.last = LastImage(t.mode, t.refs)
    BY <2>1, AttemptOf, AttemptIsBuilt
  <2>3. known \subseteq Assets /\ \A a \in known : Kind[a] = "image"
    BY <2>1 DEF ImagesAmong
  <2>4. PICK slots \in [{"first", "last"} -> known \cup {None}] :
           /\ Follow(slots, t.clicked.slots, t.clicked.pushed)
           /\ t.refs = IF Page = "i2v" THEN SlotRefs(slots) ELSE <<>>
           /\ t.mode \in {"first_frame", "first_last"} => slots.first # None
           /\ t.mode \in {"last_frame", "first_last"} => slots.last # None
    BY <2>1 DEF AsShown, SlotMaps
  <2> HIDE DEF known
  <2>5. t.mode \in PageModes
    BY <2>1 DEF AsShown
  <2>6. t.mode \in FrameModes => t.refs = SlotRefs(slots)
    BY <2>4, <2>5 DEF PageModes, FrameModes
  <2>7. \A slot \in {"first", "last"} :
           slots[slot] # None => InSlot(slots[slot], slot, t.clicked)
    BY <2>4 DEF Follow, InSlot
  <2>8. ASSUME t.mode \in {"first_frame", "first_last"}
        PROVE  b.first = slots.first /\ InSlot(b.first, "first", t.clicked)
    <3>1. b.first = slots.first
      BY <2>2, <2>3, <2>4, <2>6, <2>8, SlotsPosted DEF FrameModes
    <3> QED BY <2>4, <2>7, <2>8, <3>1
  <2>9. ASSUME t.mode = "first_last"
        PROVE  InSlot(b.last, "last", t.clicked)
    <3>1. slots.first # None /\ slots.last # None /\ t.refs = SlotRefs(slots)
      BY <2>4, <2>6, <2>9 DEF FrameModes
    <3>2. b.last = slots.last
      BY <2>2, <2>3, <2>9, <3>1, SlotsPosted
    <3> QED BY <2>7, <3>1, <3>2
  <2>10. ASSUME t.mode = "last_frame"
         PROVE  \/ InSlot(b.last, "first", t.clicked)
                \/ t.clicked.slots.first = None /\ InSlot(b.last, "last", t.clicked)
    <3>1. slots.last # None /\ t.refs = SlotRefs(slots)
      BY <2>4, <2>6, <2>10 DEF FrameModes
    <3>2. b.last = IF slots.first # None THEN slots.first ELSE slots.last
      BY <2>2, <2>3, <2>10, <3>1, SlotsPosted
    <3>3. CASE slots.first # None
      BY <2>7, <3>2, <3>3
    <3>4. CASE slots.first = None
      <4>1. t.clicked.slots.first = None
        BY <2>4, <3>4 DEF Follow
      <4> QED BY <2>7, <3>1, <3>2, <3>4, <4>1
    <3> QED BY <3>3, <3>4
  <2> QED BY <2>8, <2>9, <2>10
<1> QED BY <1>1, PageInvHolds, PTL

LEMMA AttemptsAlike ==
  ASSUME NEW t, NEW assets, IsTask(t, assets),
         NEW m \in DOMAIN t.attempts, NEW n \in DOMAIN t.attempts
  PROVE  /\ Alike(t, m, n)
         /\ t.attempts[m].seed = t.attempts[n].seed /\ t.reads[m] = t.reads[n] =>
                t.attempts[m] = t.attempts[n]
<1> DEFINE a == t.attempts[m]
           b == t.attempts[n]
<1>1. /\ a = Built(t, a.seed, t.reads[m])
      /\ a.type = TaskType(t.mode)
      /\ a.frames = FramesForDuration(Given(t.params.duration, 8))
      /\ a.size = OutputSize(t.mode, t.params, t.refs)
      /\ a.first = FirstImage(t.mode, t.refs)
      /\ a.last = LastImage(t.mode, t.refs)
      /\ a.knobs = EffectiveKnobs(t.params, t.reads[m])
  BY AttemptIsBuilt
<1>2. /\ b = Built(t, b.seed, t.reads[n])
      /\ b.type = TaskType(t.mode)
      /\ b.frames = FramesForDuration(Given(t.params.duration, 8))
      /\ b.size = OutputSize(t.mode, t.params, t.refs)
      /\ b.first = FirstImage(t.mode, t.refs)
      /\ b.last = LastImage(t.mode, t.refs)
      /\ b.knobs = EffectiveKnobs(t.params, t.reads[n])
  BY AttemptIsBuilt
<1> HIDE DEF a, b
<1>3. \A f \in {"type", "frames", "size", "first", "last"} : a[f] = b[f]
  BY <1>1, <1>2
<1>4. ASSUME NEW k \in Knobs, ~Open(t.params, k) \/ t.reads[m][k] = t.reads[n][k]
      PROVE  a.knobs[k] = b.knobs[k]
  <2>1. /\ a.knobs[k] = IF Open(t.params, k) THEN t.reads[m][k] ELSE t.params.knobs[k]
        /\ b.knobs[k] = IF Open(t.params, k) THEN t.reads[n][k] ELSE t.params.knobs[k]
    BY <1>1, <1>2 DEF EffectiveKnobs
  <2> QED BY <1>4, <2>1
<1>5. a.seed = b.seed /\ t.reads[m] = t.reads[n] => a = b
  BY <1>1, <1>2, Zenon
<1> QED BY <1>3, <1>4, <1>5 DEF Alike, a, b

(* Retries, resumes and replays build the same parameters as the first     *)
(* attempt, but for open knobs whose setting changed: the seed included    *)
(* when one other than 0 was stored.                                       *)
THEOREM RetriesAgree == Spec => []AttemptsAgree
<1>1. PageInv => AttemptsAgree
  <2> SUFFICES ASSUME PageInv, NEW t \in ToSet(tasks),
                      NEW m \in DOMAIN t.attempts, NEW n \in DOMAIN t.attempts
               PROVE  /\ Alike(t, m, n)
                      /\ t.submitted # 0 => t.attempts[m].seed = t.submitted
    BY DEF AttemptsAgree
  <2>1. IsTask(t, Uploaded) /\ SeedInv(t)
    BY PageTaskKnown
  <2> QED BY <2>1, AttemptsAlike DEF SeedInv
<1> QED BY <1>1, PageInvHolds, PTL

(* A recorded seed reproduces its video while the settings are left alone: *)
(* later attempts use that seed and build the same parameters.             *)
THEOREM SeedReproduces == Spec => []RecordedIsReproducible
<1>1. PageInv => RecordedIsReproducible
  <2> SUFFICES ASSUME PageInv, NEW t \in ToSet(tasks), NEW k \in t.recorded,
                      NEW n \in DOMAIN t.attempts, n > k
               PROVE  /\ t.attempts[n].seed = t.attempts[k].seed
                      /\ t.reads[n] = t.reads[k] => t.attempts[n] = t.attempts[k]
    BY DEF RecordedIsReproducible
  <2>1. IsTask(t, Uploaded) /\ SeedInv(t)
    BY PageTaskKnown
  <2>2. k \in DOMAIN t.attempts /\ t.attempts[n].seed = t.attempts[k].seed
    BY <2>1 DEF SeedInv
  <2> QED BY <2>1, <2>2, AttemptsAlike
<1> QED BY <1>1, PageInvHolds, PTL

(* The server's size is that of the page's formula for every preset and    *)
(* every aspect a request can name.                                        *)
THEOREM SizesAgree == Spec => []SizeFormulasAgree
<1>1. PageInv => SizeFormulasAgree
  <2> SUFFICES ASSUME PageInv, NEW t \in ToSet(tasks), NEW b \in AttemptsOf(t),
                      t.params.sizeMode # "follow_first"
               PROVE  b.size = PageDims(Given(t.params.resolution, DefaultPreset),
                                        Given(t.params.aspect, "16:9"))
    BY DEF SizeFormulasAgree
  <2>1. b.size = OutputSize(t.mode, t.params, t.refs)
    BY PageTaskKnown, AttemptOf, AttemptIsBuilt
  <2>2. OutputSize(t.mode, t.params, t.refs) =
            DimsForResolution(Given(t.params.resolution, DefaultPreset),
                              Given(t.params.aspect, "16:9"))
    BY Zenon DEF OutputSize
  <2> QED BY <2>1, <2>2, DimsAgree
<1> QED BY <1>1, PageInvHolds, PTL
=============================================================================
