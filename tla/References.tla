----------------------------- MODULE References -----------------------------
(***************************************************************************)
(* The references of a shot on their way to a model: how the page numbers  *)
(* them in the tags <Picture 1>, <Video 1>, <Audio 1> that a prompt cites, *)
(* and how each engine sorts the same references into what it passes on.   *)
(* Operators over the rows of Library, evaluated in every state of it.     *)
(*                                                                         *)
(* A reference is a record [id, kind, pair]; pair is the video an audio    *)
(* track belongs to, None without one.  An asset's file is named after its *)
(* id, so the id stands for the path.                                      *)
(***************************************************************************)
EXTENDS Library, Sequences

(* list_shots: the references in the order of their ord.  The page shows   *)
(* them and posts their ids in this order.                                 *)
Listed(s) ==
    LET n   == Cardinality(RefsOf(s))
        ids == CHOOSE f \in [1 .. n -> RefsOf(s)] :
                   \A i, j \in 1 .. n : i < j => refs[f[i]].ord < refs[f[j]].ord
    IN  [i \in DOMAIN ids |->
            [id |-> ids[i], kind |-> refs[ids[i]].kind, pair |-> refs[ids[i]].pair]]

(* The tag of reference i: its number among those of its kind.             *)
Tag(list, i) ==
    [kind |-> list[i].kind, no |-> Cardinality({j \in 1 .. i : list[j].kind = list[i].kind})]

(* A loop over the list that appends the items of keep.                    *)
Kept(list, keep) ==
    LET upto[n \in 0 .. Len(list)] ==
            IF n = 0 THEN <<>>
            ELSE IF list[n] \in keep THEN Append(upto[n - 1], list[n]) ELSE upto[n - 1]
    IN  upto[Len(list)]

(* _build_params: posted ids without an asset are left out, the others get *)
(* their pair from shot_refs.                                              *)
Materials(list) == Kept(list, {r \in Range(list) : r.id \in DOMAIN assets})

OfKind(list, kind) == Kept(list, {r \in Range(list) : r.kind = kind})

(* A mutant of Grouped: an audio that belongs to a video is only its track. *)
GroupedWithoutTracks(list) ==
    [kind \in Kinds |-> Kept(list, {r \in Range(list) : r.kind = kind /\ r.pair = None})]

(* group_refs, first loop.                                                 *)
Grouped(list) == [kind \in Kinds |-> OfKind(list, kind)]

(* group_refs, second loop: an audio whose video is among the references.  *)
Pairs(list) ==
    LET videos == {v.id : v \in Range(OfKind(list, "video"))}
        tracks == Kept(list, {r \in Range(list) :
                                  r.kind = "audio" /\ r.pair # None /\ r.pair \in videos})
    IN  [n \in DOMAIN tracks |-> [video |-> tracks[n].pair, audio |-> tracks[n].id]]

(* _scale_ref_images: an image becomes a scaled copy, one that PIL cannot  *)
(* open stays what it is.                                                  *)
ScaledImages(images, opens) ==
    [n \in DOMAIN images |-> [of |-> images[n].id, copied |-> images[n].id \in opens]]

(* What reaches the model through diffusers and through vllm-omni: for     *)
(* each kind a list of assets, which one is a copy of.                     *)
DiffusersLists(list, opens) ==
    [kind \in Kinds |->
        IF kind = "image" THEN ScaledImages(Grouped(list).image, opens)
        ELSE [n \in DOMAIN Grouped(list)[kind] |->
                 [of |-> Grouped(list)[kind][n].id, copied |-> FALSE]]]

VllmLists(list) == [kind \in Kinds |-> OfKind(list, kind)]

LoadImageNodes == 2  \* in workflows/api/video_minimax_h3_r2v.api.json

(* The comfy engine binds the first images to the nodes of its workflow,   *)
(* and passes no video and no audio.                                       *)
Normalised(list) == [kind \in Kinds |-> OfKind(list, kind)]

ComfyImages(list) ==
    LET images == Normalised(list).image
    IN  SubSeq(images, 1, Min({2, LoadImageNodes, Len(images)}))

-----------------------------------------------------------------------------
(* Item n of the list is this one. *)
Stands(item, n, list) == n \in DOMAIN list /\ list[n] = item

(* "Prompts cite <Picture 1>/<Video 1>/<Audio 1> in the order of           *)
(* connection": however the references of a shot were uploaded, and        *)
(* whichever images cannot be opened, a tag that the page shows names the  *)
(* same reference in what every engine passes on, and group_refs pairs     *)
(* exactly the tracks that were uploaded with a video.                     *)
TagsNameTheReferences ==
    \A s \in DOMAIN shots :
        LET list == Listed(s)
            sent == Materials(list)
        IN  \A i \in DOMAIN list :
                LET tag == Tag(list, i)
                IN  /\ \A opens \in SUBSET RefsOfKind(s, "image") : \E copied \in BOOLEAN :
                          Stands([of |-> list[i].id, copied |-> copied], tag.no,
                                 DiffusersLists(sent, opens)[tag.kind])
                    /\ Stands(list[i], tag.no, VllmLists(sent)[tag.kind])
                    /\ tag.kind = "image" /\ tag.no <= LoadImageNodes
                        => Stands(list[i], tag.no, ComfyImages(sent))
                    /\ list[i].pair # None
                        <=> [video |-> list[i].pair, audio |-> list[i].id] \in Range(Pairs(sent))
=============================================================================
