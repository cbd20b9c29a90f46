----------------------------- MODULE Watermark -----------------------------
(***************************************************************************)
(* Provenance marking of a video, backend/watermark.py: the layout of a    *)
(* payload over frames and 8x8 blocks, its reading back by soft vote, and  *)
(* embed_video_with_policy, called as _attach_provenance calls it, with    *)
(* the video as both source and destination.                               *)
(*                                                                         *)
(* A block carries one bit as a signed difference of two coefficients.     *)
(* What counts here is whether a reading supports the bit that was         *)
(* embedded: a reading is a number, positive when it does.  The unit is    *)
(* DELTA * _MARGIN_FACTOR, so an embedded block reads 2.                   *)
(***************************************************************************)
EXTENDS Integers, FiniteSets, FiniteSetsExt, Functions

CONSTANTS
    Shapes,          \* height and width of the videos considered
    PayloadBits,     \* lengths of payloads, in bits
    FrameCounts,     \* numbers of frames
    MaxPayloadBits,  \* _MAX_PAYLOAD_BITS
    CheckPoints,     \* numbers of frames after which extract_video decodes
    EMax, EMaxLarge, \* how many frames it reads, of a small and a large video
    Strong,          \* the reading of a block replaced by a prediction
    Retries,         \* retries of embed_video_with_policy
    None

(* What embed_video_with_policy returns: "ok", "no_key", "sidecar"; or what
   it raises: "blocked" in the block mode, "probe" when ffprobe could not be
   run or timed out, "unwritten" when the sidecar could not be written. *)
Results == {"ok", "no_key", "sidecar", "blocked", "probe", "unwritten"}

ASSUME WatermarkAssumption ==
    /\ \A s \in Shapes : s \in Nat \X Nat
    /\ MaxPayloadBits \in Nat \ {0}
    /\ CheckPoints \subseteq Nat \ {0}
    /\ EMax \in Nat /\ EMaxLarge \in Nat
    /\ Strong \in Nat /\ Retries \in Nat
    /\ PayloadBits \subseteq Nat \ {0} /\ FrameCounts \subseteq Nat
    /\ None \notin Nat /\ None \notin Results \cup {"payload"}
    /\ None \notin [at : {"nowhere", "block", "frame"}, no : Nat, as : Int]

VARIABLES
    shape, bits, frames, \* the video and the payload
    audio,       \* it has an audio track
    key,         \* a signing key is configured
    block,       \* MMH3_WATERMARK_FAIL_BLOCK
    damage,      \* what the encoder did to the blocks
    pc,
    attempts,    \* attempts of the policy so far
    video,       \* the file: "original", "marked", "broken"
    sound,       \* the file has the original's audio track
    temps,       \* temporary files that exist
    sidecar,     \* number of attempts in .provenance.json, None without one
                 \* and 0 when it was left half written
    result,      \* what embed_video_with_policy returned or raised
    read,        \* frames that extract_video has read
    found,       \* what it returned
    stuck        \* history: temporary files that could not be unlinked

input == <<shape, bits, frames, audio, key, block>>
vars  == <<input, damage, pc, attempts, video, sound, temps, sidecar, result, read,
           found, stuck>>

-----------------------------------------------------------------------------
(* Layout.                                                                 *)

Capacity == (shape[1] \div 8) * (shape[2] \div 8)

(* The blocks of a frame that are used. *)
Ncap == Min({Capacity, MaxPayloadBits})

(* How many segments the payload is cut into. *)
Segments == IF bits <= Ncap THEN 1 ELSE (bits + Ncap - 1) \div Ncap

Refused ==
    \/ shape[1] % 2 # 0 \/ shape[2] % 2 # 0
    \/ Capacity < 1
    \/ bits > MaxPayloadBits
    \/ bits > Ncap /\ Ncap < 8
    \/ Segments > frames

(* A mutant of Rotation: every frame uses the same places. *)
NoRotation(e) == 0

(* How far the bits of frame e are rotated. *)
Rotation(e) == e

(* The block in which frame e carries bit i of its segment. *)
Block(e, i) == (i + Rotation(e)) % Ncap

(* The bit of the payload in block q of frame e, None in an unused block. *)
Carried(e, q) ==
    LET mine == {i \in 0 .. Ncap - 1 : Block(e, i) = q /\ (e % Segments) * Ncap + i < bits}
    IN  IF mine = {} THEN None ELSE (e % Segments) * Ncap + CHOOSE i \in mine : TRUE

(* x264 may wipe out or replace one block in every frame, or one frame.    *)
Damages ==
    {[at |-> "nowhere", no |-> 0, as |-> 0]}
    \cup [at : {"block"}, no : 0 .. Ncap - 1, as : {0, -Strong}]
    \cup [at : {"frame"}, no : 0 .. frames - 1, as : {0, -Strong}]

Damaged(e, q) ==
    \/ damage.at = "block" /\ damage.no = q
    \/ damage.at = "frame" /\ damage.no = e

(* What block q of frame e says for bit t of the payload; a block of       *)
(* another bit, or of none, counts against it.                             *)
Reading(e, q, t) ==
    IF Damaged(e, q) THEN damage.as
    ELSE IF Carried(e, q) = t THEN 2 ELSE -Strong

-----------------------------------------------------------------------------
(* Soft vote.                                                              *)

(* The weights: as read first, then clipped at 64, 32 and 16. *)
Clips == {Strong + 2, 4, 2, 1}

Clipped(v, c) == Max({-c, Min({v, c})})

(* A mutant of Place: the reader rotates the other way. *)
PlaceBackwards(e, i) == (i - Rotation(e)) % Ncap

(* The block in which the reader looks for bit i of the segment of frame e. *)
Place(e, i) == (i + Rotation(e)) % Ncap

Votes(t, n, segs, c) ==
    LET copies == {e \in 0 .. n - 1 : e % segs = t \div Ncap}
    IN  SumFunction([e \in copies |-> Clipped(Reading(e, Place(e, t % Ncap), t), c)])

(* Some weight and some number of segments restore every bit, so that the  *)
(* length, the CRC and the HMAC validate.                                  *)
Restored(n) ==
    \E c \in Clips, segs \in 1 .. n : \A t \in 0 .. bits - 1 : Votes(t, n, segs, c) > 0

(* The first bits hold magic and version: flips are tried only over a      *)
(* candidate that has them right.                                          *)
PrefixRight(n) == \E c \in Clips, segs \in 1 .. n : Votes(0, n, segs, c) > 0

FramesRead == Min({frames, IF Capacity >= MaxPayloadBits THEN EMaxLarge ELSE EMax})

DecodesAt(n) ==
    n \in CheckPoints \cup {IF Capacity >= MaxPayloadBits THEN EMaxLarge ELSE EMax}

-----------------------------------------------------------------------------
Init ==
    /\ shape \in Shapes /\ bits \in PayloadBits /\ frames \in FrameCounts
    /\ audio \in BOOLEAN /\ key \in BOOLEAN /\ block \in BOOLEAN
    /\ damage = None
    /\ pc = "policy"
    /\ attempts = 0
    /\ video = "original" /\ sound = audio
    /\ temps = {} /\ sidecar = None /\ result = None
    /\ read = 0 /\ found = None
    /\ stuck = {}

Unread == UNCHANGED <<read, found>>

(* The finally block: an unlink that fails is passed over. *)
Unlink(present) ==
    \E left \in SUBSET present : temps' = left /\ stuck' = stuck \cup left

(* embed_video up to the encoder: what it refuses and whatever fails in    *)
(* decoding leaves the video alone.  A broken video does not get further.  *)
Refuse ==
    /\ pc = "policy"
    /\ attempts' = attempts + 1
    /\ Unlink(temps)
    /\ pc' = "false"
    /\ UNCHANGED <<input, damage, video, sound, sidecar, result>> /\ Unread

(* The frames are written into tmp_v; the encoder may fail on the way. *)
Encoding ==
    /\ pc = "policy"
    /\ video = "original" /\ ~Refused
    /\ attempts' = attempts + 1
    /\ temps' = temps \cup {"video"}
    /\ pc' \in {"encoded", "cleanup"}
    /\ damage' \in IF pc' = "encoded" THEN Damages ELSE {damage}
    /\ UNCHANGED <<input, sound, sidecar, result, stuck>> /\ Unread

(* A mutant of Encode: the encoder writes over the video itself. *)
EncodeInPlace ==
    Encoding /\ video' = IF pc' = "cleanup" THEN "broken" ELSE video

Encode == Encoding /\ UNCHANGED video

(* The audio track is copied into tmp_a; ffprobe and ffmpeg may time out ... *)
CopyAudio ==
    /\ pc = "encoded" /\ sound
    /\ \/ pc' = "mux" /\ temps' = temps \cup {"audio"}
       \/ pc' = "cleanup" /\ temps' \in {temps, temps \cup {"audio"}}
    /\ UNCHANGED <<input, damage, attempts, video, sound, sidecar, result, stuck>> /\ Unread

(* ... and both are muxed over the video itself. *)
Mux ==
    /\ pc = "mux"
    /\ \/ video' = "marked" /\ pc' = "true" /\ Unlink(temps)
       \/ video' \in {"original", "broken"} /\ pc' = "cleanup" /\ UNCHANGED <<temps, stuck>>
    /\ UNCHANGED <<input, damage, attempts, sound, sidecar, result>> /\ Unread

(* Without an audio track, or when copying it failed, the encoded video    *)
(* takes the original's place by a rename, which may fail.                 *)
Replace ==
    /\ pc = "encoded"
    /\ \/ /\ video' = "marked" /\ sound' = FALSE /\ pc' = "true"
          /\ Unlink((temps \cup (IF sound THEN {"audio"} ELSE {})) \ {"video"})
       \/ pc' = "cleanup" /\ UNCHANGED <<video, sound, temps, stuck>>
    /\ UNCHANGED <<input, damage, attempts, sidecar, result>> /\ Unread

Cleanup ==
    /\ pc = "cleanup"
    /\ Unlink(temps)
    /\ pc' = "false"
    /\ UNCHANGED <<input, damage, attempts, video, sound, sidecar, result>> /\ Unread

(* Mutants of Allowed: one attempt too few, one too many. *)
NoRetry == Retries
OneMore == 2 + Retries

(* How many attempts the policy makes with a key. *)
Allowed == 1 + Retries

Finish(r) == result' = r /\ pc' = "settled"

(* _probe is called outside the try of embed_video: what it raises leaves  *)
(* the policy too, without a retry and without a record.                   *)
ProbeRaises ==
    /\ pc = "policy"
    /\ attempts' = attempts + 1
    /\ Finish("probe")
    /\ UNCHANGED <<input, damage, video, sound, temps, sidecar, stuck>> /\ Unread

Policy ==
    /\ pc \in {"true", "false"}
    /\ \/ pc = "true" /\ Finish("ok") /\ UNCHANGED sidecar
       \/ pc = "false" /\ ~key /\ Finish("no_key") /\ UNCHANGED sidecar
       \/ pc = "false" /\ key /\ attempts < Allowed /\ pc' = "policy"
          /\ UNCHANGED <<result, sidecar>>
       \/ pc = "false" /\ key /\ attempts >= Allowed
          /\ \/ block /\ Finish("blocked") /\ UNCHANGED sidecar
             \/ ~block /\ Finish("sidecar") /\ sidecar' = attempts
             \/ ~block /\ Finish("unwritten") /\ sidecar' \in {None, 0}
    /\ UNCHANGED <<input, damage, attempts, video, sound, temps, stuck>> /\ Unread

(* extract_video on the result, frame by frame. *)
ReadFrame ==
    /\ pc = "settled" /\ result = "ok" /\ found = None
    /\ read < FramesRead
    /\ read' = read + 1
    /\ IF ~DecodesAt(read + 1) THEN found' = None
       ELSE IF Restored(read + 1) THEN found' = "payload"
       ELSE found' \in IF PrefixRight(read + 1) THEN {None, "payload"} ELSE {None}
    /\ UNCHANGED <<input, damage, pc, attempts, video, sound, temps, sidecar, result, stuck>>

Next ==
    \/ Refuse \/ Encode \/ CopyAudio \/ Mux \/ Replace \/ Cleanup
    \/ ProbeRaises \/ Policy \/ ReadFrame

Spec == Init /\ [][Next]_vars

-----------------------------------------------------------------------------
TypeOK ==
    /\ shape \in Shapes /\ bits \in PayloadBits /\ frames \in FrameCounts
    /\ audio \in BOOLEAN /\ key \in BOOLEAN /\ block \in BOOLEAN
    /\ damage # None => damage \in Damages
    /\ pc \in {"policy", "encoded", "mux", "cleanup", "true", "false", "settled"}
    /\ attempts \in 0 .. 1 + Retries
    /\ video \in {"original", "marked", "broken"} /\ sound \in BOOLEAN
    /\ temps \subseteq {"video", "audio"}
    /\ sidecar \in {None} \cup 0 .. 1 + Retries
    /\ result \in Results \cup {None}
    /\ read \in Nat /\ found \in {None, "payload"}
    /\ stuck \subseteq {"video", "audio"}

Extracted == result = "ok" /\ read = FramesRead

LastDecode == {n \in 1 .. FramesRead : DecodesAt(n)}

(* The frames of one segment among the first n frames do not return to a   *)
(* place of the frame.                                                     *)
Spread(n) ==
    \A e, g \in 0 .. n - 1 :
        e # g /\ e % Segments = g % Segments => e % Ncap # g % Ncap

(* A payload that was embedded and not damaged is read back, whatever the  *)
(* size of the frames and the cut into segments, provided extract_video    *)
(* decodes once after the last segment went by: embed_video accepts        *)
(* shorter videos, in which the reader has no such checkpoint.             *)
EmbeddedIsRecovered ==
    /\ Extracted
    /\ damage.at = "nowhere"
    /\ \E n \in LastDecode : n >= Segments
    => found = "payload"

(* A place that the encoder wipes out or replaces in every frame, or a     *)
(* frame that it replaces, is outvoted by the other copies, however strong *)
(* the wrong readings are: three copies decide, if the rotation keeps all  *)
(* of them apart.                                                          *)
DamageIsOutvoted ==
    /\ Extracted
    /\ \E n \in LastDecode : n >= 3 * Segments /\ Spread(n)
    => found = "payload"

(* What the policy reports is what became of the video.  With a key, one   *)
(* that is not marked was tried the full number of times and then refused  *)
(* or put on record with that number, unless ffprobe raised in some        *)
(* attempt or the sidecar could not be written: those two go unrecorded.   *)
(* Without a key there is one attempt and never a sidecar; and a temporary *)
(* file stays in the assets directory only if it could not be unlinked.    *)
FailureIsAccounted ==
    pc = "settled" =>
        /\ result = "ok" <=> video = "marked"
        /\ key /\ result \notin {"ok", "probe"} =>
             /\ attempts = 1 + Retries
             /\ IF block THEN result = "blocked"
                ELSE sidecar = 1 + Retries \/ result = "unwritten"
        /\ ~key => attempts = 1 /\ result \in {"ok", "no_key", "probe"} /\ sidecar = None
        /\ temps \subseteq stuck

(* A video without an audio track is never destroyed, whichever step of    *)
(* whichever attempt fails: it is what it was until a rename marks it.     *)
(* Only the mux of a video with sound writes over it and can leave a wreck,*)
(* and that one is never reported as marked.  Unmarked it keeps its sound. *)
OriginalKept ==
    /\ ~audio => video # "broken"
    /\ video = "broken" => result # "ok"
    /\ video = "original" => sound = audio
=============================================================================
