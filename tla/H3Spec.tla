------------------------------- MODULE H3Spec -------------------------------
(***************************************************************************)
(* The generation grid of backend/h3/spec.py: frame counts and output      *)
(* sizes, and the copies of the same formulas that assets/js/shared.js     *)
(* evaluates in the browser to show the user what a generation will give.  *)
(*                                                                         *)
(* Durations are whole seconds, which is all that generations.py accepts;  *)
(* a float product truncated by int() is an integer division.              *)
(***************************************************************************)
EXTENDS Integers

Fps        == 24
FrameBlock == 17
FrameMin   == 5
ShortSide  == 768
MaxDim     == 1344
Multiple   == 32      \* RESOLUTION_MULTIPLE

AtLeast(v, m) == IF v < m THEN m ELSE v
AtMost(v, m)  == IF v > m THEN m ELSE v

BaseFrames(d) == AtLeast(Fps * d, FrameMin)

(* Mutant: rounds down to the grid.                                        *)
FramesDown(d) ==
    BaseFrames(d) - ((BaseFrames(d) - FrameMin) % FrameBlock)

(* frames_for_duration: the next count of the 17k+5 grid.                  *)
FramesForDuration(d) ==
    BaseFrames(d) + ((FrameMin - (BaseFrames(d) % FrameBlock)) % FrameBlock)

Presets == {"0.4", "0.5", "0.6", "0.7", "0.8", "0.9", "0.98"}
DefaultPreset == "0.98"

Size(w, h) == [width |-> w, height |-> h]

(* RESOLUTION_PRESETS: the size of each preset at 16:9.                    *)
PresetSize ==
    [p \in Presets |->
        CASE p = "0.4" -> Size(864, 480)   [] p = "0.5" -> Size(960, 544)
          [] p = "0.6" -> Size(1056, 608)  [] p = "0.7" -> Size(1152, 640)
          [] p = "0.8" -> Size(1216, 672)  [] p = "0.9" -> Size(1280, 736)
          [] p = "0.98" -> Size(1344, 768)]

(* RESOLUTION_SHORT_SIDE repeats the heights of the table.                 *)
PresetShortSide == [p \in Presets |-> PresetSize[p].height]

Aspects == {"21:9", "16:9", "4:3", "1:1", "3:4", "9:16"}
Ratio(aspect) ==
    CASE aspect = "21:9" -> <<21, 9>> [] aspect = "4:3" -> <<4, 3>>
      [] aspect = "1:1" -> <<1, 1>>   [] aspect = "3:4" -> <<3, 4>>
      [] aspect = "9:16" -> <<9, 16>> [] OTHER -> <<16, 9>>

(* v rounded up to a multiple of m, and capped.                            *)
Rounded(v, m) == AtMost(((AtLeast(v, m) + m - 1) \div m) * m, MaxDim)

(* The size whose short side is s, for the ratio a : b.                    *)
Scaled(s, a, b, m) ==
    IF a >= b THEN Size(Rounded((s * a) \div b, m), Rounded(s, m))
              ELSE Size(Rounded(s, m), Rounded((s * b) \div a, m))

(* Mutant: the ratio is taken as height : width.                           *)
DimsTransposed(preset, aspect) ==
    LET p == IF preset \in Presets THEN preset ELSE DefaultPreset
        r == Ratio(aspect)
    IN  IF aspect = "16:9" THEN PresetSize[p]
        ELSE Scaled(PresetShortSide[p], r[2], r[1], Multiple)

DimsForResolution(preset, aspect) ==
    LET p == IF preset \in Presets THEN preset ELSE DefaultPreset
        r == Ratio(aspect)
    IN  IF aspect = "16:9" THEN PresetSize[p]
        ELSE Scaled(PresetShortSide[p], r[1], r[2], Multiple)

(* size_mode follow_first: the first image's ratio at the native short     *)
(* side, even numbers only (inference.py).                                 *)
FollowFirst(w, h) ==
    LET Even(v) == AtMost(((v + 1) \div 2) * 2, MaxDim)
    IN  IF w >= h THEN Size(Even((ShortSide * w) \div h), Even(ShortSide))
                  ELSE Size(Even(ShortSide), Even((ShortSide * h) \div w))

TaskTypes == {"t2va", "fl2va", "ref2va"}
TaskType(mode) ==
    CASE mode \in {"first_frame", "last_frame", "first_last"} -> "fl2va"
      [] mode = "ref" -> "ref2va"
      [] OTHER -> "t2va"

-----------------------------------------------------------------------------
(* What the browser computes.                                              *)

(* JavaScript's % takes the sign of the dividend.                          *)
JsMod(a, n) == IF a >= 0 THEN a % n ELSE -((-a) % n)

(* framesForDuration                                                       *)
PageFrames(d) ==
    LET b == AtLeast(d * 24, 5)
    IN  b + JsMod(JsMod(5 - JsMod(b, 17), 17) + 17, 17)

(* dimsForResolution                                                       *)
PageDims(preset, aspect) ==
    LET p == IF preset \in Presets THEN preset ELSE DefaultPreset
        r == Ratio(aspect)
        s == PresetShortSide[p]
        CeilTo32(v) == AtMost(-((-AtLeast(v, 32)) \div 32) * 32, 1344)
    IN  IF aspect = "16:9" THEN PresetSize[p]
        ELSE IF r[1] >= r[2] THEN Size(CeilTo32((s * r[1]) \div r[2]), CeilTo32(s))
        ELSE Size(CeilTo32(s), CeilTo32((s * r[2]) \div r[1]))
=============================================================================
