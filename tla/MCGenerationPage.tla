-------------------------- MODULE MCGenerationPage --------------------------
(* Instances of GenerationPage for TLC.                                    *)
EXTENDS GenerationPage

CONSTANTS s1, p1, p2

(* Two images; the second one cannot be opened.                            *)
KindOf  == [x \in Assets |-> "image"]
SizeOf  == [x \in Assets |-> IF x = p1 THEN <<3, 4>> ELSE None]

Form(duration, seed, sizeMode, steps) ==
    [duration |-> duration, seed |-> seed, sizeMode |-> sizeMode,
     knobs |-> [k \in Knobs |-> steps]]

(* Durations inside and outside the range, or none; seeds present, absent  *)
(* and 0; a number of steps, none, and 0.                                  *)
FrameForms ==
    {Form(4, 5, "0.98M", None), Form(20, 0, "follow_first", 25),
     Form(None, None, "0.98M", 0)}

TextForms == {Form(4, 5, None, None), Form(4, 0, None, 25)}

(* Shots never used, with one image in use, and left in last-frame mode.   *)
Left(mode, refs, slots) == [mode |-> mode, refs |-> refs, slots |-> slots]

FrameShots ==
    {Left("first_frame", <<>>, NoSlots),
     Left("first_last", <<p1>>, [first |-> None, last |-> p1]),
     Left("last_frame", <<p1>>, NoSlots)}

TextShots == {Left("text", <<>>, NoSlots)}

Request(mode, aspect, preset, seed, refs, steps) ==
    [shot |-> s1, mode |-> mode, prompt |-> "short", refs |-> refs,
     params |-> [duration |-> 15, aspect |-> aspect, resolution |-> preset,
                 sizeMode |-> None, seed |-> seed, knobs |-> [k \in Knobs |-> steps]]]

(* An old preset name, other formats, a seed out of range, a reference     *)
(* that does not exist.                                                    *)
OtherClients ==
    {Request("text", "9:16", "0.5", 0, <<>>, 0),
     Request("text", "21:9", "768P", 8, <<>>, 25),
     Request("text", "4:3", "0.7", None, <<>>, None),
     Request("first_last", None, "0.4", 5, <<"gone", p2, p1>>, None)}

NoClients == {}
=============================================================================
