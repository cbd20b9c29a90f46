--------------------------- MODULE MCInferenceRun ---------------------------
(* Small instances of InferenceRun for TLC. *)
EXTENDS InferenceRun, TLC

CONSTANTS c1, c2, h1, h2

MCEngines == {"comfy", "vllm-omni", "diffusers"}
MCKeys == {"inference_backend", "steps"}

(* A name that no engine has, in the environment or posted, while          *)
(* /engine/switch stores any engine; one number of steps.                  *)
MCPosted == [k \in MCKeys |-> IF k = "steps" THEN {"8"} ELSE {"other"}]

(* A task with both frames. *)
MCInputSets == {{"first_image", "last_image"}}

MCSymmetry == Permutations({c1, c2}) \cup Permutations({h1, h2})
=============================================================================
