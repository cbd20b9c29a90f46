--------------------------- MODULE SettingsStore ---------------------------
(***************************************************************************)
(* Runtime settings: backend/settings_store.py, the two handlers of        *)
(* routers/system.py that change them, and the engine registry that        *)
(* decides from them which inference engine is active.                     *)
(*                                                                         *)
(* The handlers are plain functions, so FastAPI runs them in a thread      *)
(* pool: two updates may be in progress at once, and update() takes no     *)
(* lock between loading the file, merging the patch and writing it back.   *)
(* write_text() truncates the file before it writes.                       *)
(***************************************************************************)
EXTENDS Naturals, FiniteSets

CONSTANTS
    Engines,         \* ENGINES: the registered names
    DefaultEngine,   \* DEFAULT_BACKEND
    Keys,            \* SETTABLE_KEYS; "inference_backend" is one of them
    Posted,          \* the values of each key that requests carry
    Handlers,        \* threads that may be inside update() at once
    MaxUpdates,      \* bound: updates considered
    None             \* no value, no call

ASSUME SettingsAssumption ==
    /\ DefaultEngine \in Engines
    /\ None \notin Engines
    /\ "inference_backend" \in Keys
    /\ Posted \in [Keys -> SUBSET STRING]
    /\ MaxUpdates \in Nat

VARIABLES
    env,         \* MMH3_INFERENCE_BACKEND, None when it is not set
    file,        \* settings.json: "parsed", "empty" (truncated) or "garbage"
    stored,      \* the object in it, when it parses
    upd,         \* where each handler is in update()
    merged,      \* the object that handler is about to write
    patched,     \* the patch that it merged
    updates,     \* how many updates began
    answered,    \* history: the value of each key the last answer confirmed
    calm         \* history: no two updates overlapped, no crash cut one off

storeVars == <<env, file, stored, upd, merged, patched, updates, answered, calm>>

Value   == (UNION {Posted[k] : k \in Keys}) \cup Engines \cup {None}
Content == [Keys -> Value]
Nothing == [k \in Keys |-> None]

StoreTypeOK ==
    /\ env \in Value
    /\ file \in {"parsed", "empty", "garbage"}
    /\ stored \in Content
    /\ upd \in [Handlers -> {"idle", "loaded", "truncated"}]
    /\ merged \in [Handlers -> Content]
    /\ patched \in [Handlers -> Content]
    /\ updates \in 0 .. MaxUpdates
    /\ answered \in Content
    /\ calm \in BOOLEAN

StoreInit ==
    /\ env \in Posted["inference_backend"] \cup {None}
    /\ file = "parsed"
    /\ stored = Nothing
    /\ upd = [h \in Handlers |-> "idle"]
    /\ merged = [h \in Handlers |-> Nothing]
    /\ patched = [h \in Handlers |-> Nothing]
    /\ updates = 0
    /\ answered = Nothing
    /\ calm = TRUE

(* A file that does not parse, or is not there, is an empty object. *)
Load == IF file = "parsed" THEN stored ELSE Nothing

(* A mutant of Merge: the file is replaced by the patch. *)
MergeReplaces(data, patch) == patch

(* A key of a patch that carries no value leaves the stored one alone. *)
Merge(data, patch) == [k \in Keys |-> IF patch[k] = None THEN data[k] ELSE patch[k]]

(* A mutant of ActiveEngine: a name that is no engine is not replaced. *)
ActiveEngineUnchecked ==
    LET wanted == IF env # None THEN env ELSE Load["inference_backend"]
    IN  IF wanted # None THEN wanted ELSE DefaultEngine

(* resolve("inference_backend"): the environment before the file. *)
ActiveEngine ==
    LET wanted == IF env # None THEN env ELSE Load["inference_backend"]
    IN  IF wanted \in Engines THEN wanted ELSE DefaultEngine

LockedByEnv == env # None

(* update(patch) up to the point where the file is opened for writing. *)
Update(h, patch) ==
    /\ upd[h] = "idle"
    /\ updates < MaxUpdates
    /\ upd' = [upd EXCEPT ![h] = "loaded"]
    /\ merged' = [merged EXCEPT ![h] = Merge(Load, patch)]
    /\ patched' = [patched EXCEPT ![h] = patch]
    /\ updates' = updates + 1
    /\ calm' = (calm /\ \A g \in Handlers : upd[g] = "idle")
    /\ UNCHANGED <<env, file, stored, answered>>

(* POST /system/settings: no value is checked, no lock is looked at, and a *)
(* patch without any value rewrites the file as well.                      *)
PostSettings(h) ==
    \E patch \in Content :
        /\ \A k \in Keys : patch[k] \in Posted[k] \cup {None}
        /\ Update(h, patch)

(* POST /engine/switch: an unknown name is refused with 422, a locked      *)
(* engine with 409.                                                        *)
SwitchEngine(h) ==
    /\ ~LockedByEnv
    /\ \E name \in Engines : Update(h, [Nothing EXCEPT !["inference_backend"] = name])

(* write_text opens the file, which empties it ...                         *)
Truncate(h) ==
    /\ upd[h] = "loaded"
    /\ upd' = [upd EXCEPT ![h] = "truncated"]
    /\ file' = "empty"
    /\ UNCHANGED <<env, stored, merged, patched, updates, answered, calm>>

(* ... and writes it from its start.  When another update wrote since this *)
(* one emptied it, a longer text of the other may show behind this one's,  *)
(* and the file does not parse.                                            *)
Write(h) ==
    /\ upd[h] = "truncated"
    /\ upd' = [upd EXCEPT ![h] = "idle"]
    /\ file' \in IF file = "empty" THEN {"parsed"} ELSE {"parsed", "garbage"}
    /\ stored' = merged[h]
    /\ answered' = [k \in Keys |-> IF patched[h][k] # None THEN patched[h][k]
                                   ELSE answered[k]]
    /\ merged' = [merged EXCEPT ![h] = Nothing]
    /\ patched' = [patched EXCEPT ![h] = Nothing]
    /\ UNCHANGED <<env, updates, calm>>

(* The process ends: the updates in progress are lost, the file stays as   *)
(* it is.                                                                  *)
StoreCrash ==
    /\ upd' = [h \in Handlers |-> "idle"]
    /\ merged' = [h \in Handlers |-> Nothing]
    /\ patched' = [h \in Handlers |-> Nothing]
    /\ calm' = (calm /\ \A g \in Handlers : upd[g] = "idle")
    /\ UNCHANGED <<env, file, stored, updates, answered>>

StoreStep ==
    \E h \in Handlers : PostSettings(h) \/ SwitchEngine(h) \/ Truncate(h) \/ Write(h)

(* What the answers confirmed is what the file holds and what the next     *)
(* load finds, for every key, as long as no two updates overlapped and no  *)
(* crash cut one off: the limit of a read-modify-write without a lock.     *)
SettingsKept ==
    calm /\ (\A h \in Handlers : upd[h] # "truncated") => Load = answered
=============================================================================
