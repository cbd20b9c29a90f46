------------------------------ MODULE Library ------------------------------
(***************************************************************************)
(* Projects, their shots, the reference files uploaded to the shots and    *)
(* the clearing of everything: the rows of backend/database.py and the     *)
(* files of uploads/ as the handlers of routers/uploads.py,                *)
(* routers/shots.py and routers/projects.py change them.                   *)
(*                                                                         *)
(* upload_ref is a coroutine that awaits nothing after it has read the     *)
(* body, so one upload keeps the event loop to itself until it answers.    *)
(* The other handlers are plain functions that FastAPI runs in threads:    *)
(* their steps fall between those of an upload.  SQLite gives every        *)
(* transaction of a handler the write lock from its first INSERT or DELETE *)
(* to its commit, which makes it one step here; what a handler read before *)
(* that, it read outside.                                                  *)
(*                                                                         *)
(* new_id never gives an identifier twice: `used` holds those handed out.  *)
(* `raced`, `lost` and `stray` are history variables of the properties.    *)
(***************************************************************************)
EXTENDS Integers, FiniteSets, FiniteSetsExt, Functions

CONSTANTS
    Projects, Shots, Uploads,  \* identifiers of projects, shots and assets
    Threads,                   \* threads of the pool: create_shot, clear_all_projects
    None,
    MaxCount,                  \* references of a kind a shot may have
    MaxRefs,                   \* references of all kinds a shot may have
    MaxSeconds,                \* MAX_TOTAL_KIND_DURATION
    MinSegment, MaxSegment,    \* bounds of one segment's duration
    Lengths,                   \* durations ffprobe may report
    Positions,                 \* positions update_shot may be given
    MaxClears                  \* bound: calls of clear_all_projects

Kinds == {"image", "video", "audio"}

(* The locals of the handlers: of create_shot, of upload_ref after its first
   checks, and of clear_all_projects. *)
NewRow == [project : Projects, ord : Nat]
UploadLocals ==
    [kind : Kinds, shot : Shots \cup {None}, pair : Uploads \cup {None},
     seconds : Lengths \cup {None}, probed : BOOLEAN]
ClearLocals == [listed : BOOLEAN, left : SUBSET Uploads]

ASSUME LibraryAssumption ==
    /\ MaxCount \in [Kinds -> Nat]
    /\ {MaxRefs, MaxSeconds, MinSegment, MaxSegment, MaxClears} \subseteq Nat
    /\ Lengths \subseteq Nat /\ Positions \subseteq Nat
    /\ IsFiniteSet(Shots)
    /\ None \notin Projects \cup Shots \cup Uploads \cup Lengths
    /\ None \notin UploadLocals \cup ClearLocals

VARIABLES
    projects,  \* rows of projects
    shots,     \* rows of shots: a partial function to their project and ord
    assets,    \* rows of assets: a partial function to their kind and seconds
    refs,      \* rows of shot_refs, by the asset they bind
    files,     \* files of uploads/, by the asset they were stored for
    upload,    \* the handler's locals while an upload is under way
    creating,  \* what create_shot read, between its SELECT and its INSERT
    clearing,  \* the files each clear_all_projects still has to unlink
    clears,    \* calls of clear_all_projects so far
    used,      \* identifiers handed out
    raced,     \* shots numbered from a stale maximum, or moved by update_shot
    lost,      \* uploads whose file a clear may have taken
    stray      \* files left behind by a handler that failed or kept them

rowVars == <<projects, shots, assets, refs>>
libVars == <<rowVars, files, upload, creating, clearing, clears, used, raced, lost, stray>>

ShotsOf(p) == {s \in DOMAIN shots : shots[s].project = p}
RefsOf(s) == {a \in DOMAIN refs : refs[a].shot = s}
RefsOfKind(s, k) == {a \in RefsOf(s) : refs[a].kind = k}

(* COALESCE(MAX(ord), -1) + 1 *)
NextOrdCounted(ords) == Cardinality(ords)
NextOrd(ords) == IF ords = {} THEN 0 ELSE Max(ords) + 1
ShotOrds(p) == {shots[s].ord : s \in ShotsOf(p)}
RefOrds(s) == {refs[a].ord : a \in RefsOf(s)}

(* _existing_kind_duration: the durations that are known. *)
KnownSeconds(s, k) ==
    LET known == {a \in RefsOfKind(s, k) : assets[a].seconds # None}
    IN  SumFunction([a \in known |-> assets[a].seconds])

(* Some clear has deleted the rows and not yet gone through the files. *)
Clearing == \E t \in Threads : clearing[t] # None

Without(f, S) == Restrict(f, DOMAIN f \ S)
With(f, x, v) == [y \in DOMAIN f \cup {x} |-> IF y = x THEN v ELSE f[y]]

LibInit ==
    /\ projects = {} /\ shots = <<>> /\ assets = <<>> /\ refs = <<>>
    /\ files = {}
    /\ upload = [u \in Uploads |-> None]
    /\ creating = [t \in Threads |-> None]
    /\ clearing = [t \in Threads |-> None] /\ clears = 0
    /\ used = {} /\ raced = {} /\ lost = {} /\ stray = {}

-----------------------------------------------------------------------------
(* Projects and shots. *)

CreateProject(p) ==
    /\ p \notin used
    /\ projects' = projects \cup {p}
    /\ used' = used \cup {p}
    /\ UNCHANGED <<shots, assets, refs, files, upload, creating, clearing, clears,
                   raced, lost, stray>>

(* create_shot up to its INSERT: the project is there, the maximum is read. *)
CreateShotReads(t, p) ==
    /\ creating[t] = None
    /\ p \in projects
    /\ creating' = [creating EXCEPT ![t] = [project |-> p, ord |-> NextOrd(ShotOrds(p))]]
    /\ UNCHANGED <<rowVars, files, upload, clearing, clears, used, raced, lost, stray>>

(* The INSERT; the foreign key refuses it when the project has gone. *)
CreateShotInserts(t, s) ==
    /\ creating[t] # None
    /\ s \notin used
    /\ LET row == creating[t] IN
         IF row.project \in projects
         THEN /\ shots' = With(shots, s, row)
              /\ raced' = IF row.ord = NextOrd(ShotOrds(row.project)) THEN raced
                          ELSE raced \cup {s}
         ELSE UNCHANGED <<shots, raced>>
    /\ used' = used \cup {s}
    /\ creating' = [creating EXCEPT ![t] = None]
    /\ UNCHANGED <<projects, assets, refs, files, upload, clearing, clears, lost, stray>>

(* update_shot with a position. *)
MoveShot(s, n) ==
    /\ s \in DOMAIN shots
    /\ shots' = [shots EXCEPT ![s].ord = n]
    /\ raced' = raced \cup {s}
    /\ UNCHANGED <<projects, assets, refs, files, upload, creating, clearing, clears,
                   used, lost, stray>>

(* Deleting shots takes their references along (PRAGMA foreign_keys is on in
   every connection); assets and files stay. *)
DropOnlyShots(gone) ==
    /\ shots' = Without(shots, gone)
    /\ UNCHANGED <<assets, refs, files, upload, creating, clearing, clears, used, raced,
                   lost, stray>>
DropShots(gone) ==
    /\ shots' = Without(shots, gone)
    /\ refs' = Without(refs, UNION {RefsOf(s) : s \in gone})
    /\ UNCHANGED <<assets, files, upload, creating, clearing, clears, used, raced, lost, stray>>

DeleteShot(s) == s \in DOMAIN shots /\ DropShots({s}) /\ UNCHANGED projects

DeleteProject(p) ==
    /\ p \in projects
    /\ projects' = projects \ {p}
    /\ DropShots(ShotsOf(p))

-----------------------------------------------------------------------------
(* upload_ref *)

(* No other upload is between its checks and its answer. *)
LoopIsFreeForThreads == TRUE
LoopIsFree == \A u \in Uploads : upload[u] = None

(* The checks on a shot's references.  A shot that has gone has none. *)
Admits(s, k) ==
    /\ Cardinality(RefsOfKind(s, k)) < MaxCount[k]
    /\ Cardinality(RefsOf(s)) < MaxRefs
    /\ k = "audio" => RefsOfKind(s, "image") \cup RefsOfKind(s, "video") # {}

(* The checks have passed and the file is written.  A page knows the shot
   and the asset to pair with, which may have gone since; paired_with is
   read for an audio only. *)
UploadStored(u, k, s, pair) ==
    /\ LoopIsFree
    /\ u \notin used
    /\ s # None => s \in used /\ Admits(s, k)
    /\ pair # None => pair \in used /\ k = "audio"
    /\ files' = files \cup {u}
    /\ used' = used \cup {u}
    /\ upload' = [upload EXCEPT ![u] =
         [kind |-> k, shot |-> s, pair |-> pair, seconds |-> None, probed |-> k = "image"]]
    /\ lost' = IF Clearing THEN lost \cup {u} ELSE lost
    /\ UNCHANGED <<rowVars, creating, clearing, clears, raced, stray>>

(* A refusal after the file was written takes the file away again. *)
RefuseKeepsFile(u) ==
    /\ files' = files
    /\ upload' = [upload EXCEPT ![u] = None]
Refuse(u) ==
    /\ files' = files \ {u}
    /\ upload' = [upload EXCEPT ![u] = None]

(* ffprobe, which knows no duration of a file that a clear has taken. *)
UploadProbed(u, seconds) ==
    /\ upload[u] # None /\ ~upload[u].probed
    /\ seconds # None => u \in files
    /\ LET up == upload[u]
           fits == /\ seconds \in MinSegment .. MaxSegment
                   /\ up.shot # None => seconds + KnownSeconds(up.shot, up.kind) <= MaxSeconds
       IN IF seconds = None \/ fits
          THEN /\ upload' = [upload EXCEPT ![u].seconds = seconds, ![u].probed = TRUE]
               /\ UNCHANGED files
          ELSE Refuse(u)
    /\ UNCHANGED <<rowVars, creating, clearing, clears, used, raced, lost, stray>>

(* paired_with names a video of the shot. *)
PairIsAnyRef(up) == up.pair # None => up.pair \in DOMAIN refs
PairIsVideo(up) ==
    up.pair # None =>
        up.pair \in RefsOf(up.shot) /\ assets[up.pair].kind = "video"

(* The transaction: the asset, and its binding to the shot.  When the shot
   has gone the foreign key raises, the asset is rolled back and the file
   stays. *)
UploadInserted(u) ==
    /\ upload[u] # None /\ upload[u].probed
    /\ LET up == upload[u]
           asset == With(assets, u, [kind |-> up.kind, seconds |-> up.seconds])
       IN \/ /\ up.shot = None
             /\ assets' = asset
             /\ upload' = [upload EXCEPT ![u] = None]
             /\ UNCHANGED <<refs, files, stray>>
          \/ /\ up.shot # None /\ ~PairIsVideo(up)
             /\ Refuse(u)
             /\ UNCHANGED <<assets, refs, stray>>
          \/ /\ up.shot \in DOMAIN shots /\ PairIsVideo(up)
             /\ assets' = asset
             /\ refs' = With(refs, u,
                  [shot |-> up.shot, kind |-> up.kind, ord |-> NextOrd(RefOrds(up.shot)),
                   pair |-> up.pair])
             /\ upload' = [upload EXCEPT ![u] = None]
             /\ UNCHANGED <<files, stray>>
          \/ /\ up.shot \in Shots \ DOMAIN shots /\ PairIsVideo(up)
             /\ upload' = [upload EXCEPT ![u] = None]
             /\ stray' = stray \cup {u}
             /\ UNCHANGED <<assets, refs, files>>
    /\ UNCHANGED <<projects, shots, creating, clearing, clears, used, raced, lost>>

(* Everything after the file was written that raises something else: a
   read, or the INSERT when another connection keeps the database locked.
   The transaction is rolled back and the file stays. *)
UploadFails(u) ==
    /\ upload[u] # None
    /\ upload' = [upload EXCEPT ![u] = None]
    /\ stray' = stray \cup ({u} \cap files)
    /\ UNCHANGED <<rowVars, files, creating, clearing, clears, used, raced, lost>>

-----------------------------------------------------------------------------
(* clear_all_projects *)

(* Every row goes in one transaction.  Until the last file is unlinked an
   upload may lose its file and keep its row. *)
ClearRows(t, keep) ==
    /\ clearing[t] = None /\ clears < MaxClears
    /\ projects' = {} /\ shots' = <<>> /\ assets' = <<>> /\ refs' = <<>>
    /\ clears' = clears + 1
    /\ clearing' = IF keep THEN clearing
                   ELSE [clearing EXCEPT ![t] = [listed |-> FALSE, left |-> {}]]
    /\ stray' = IF keep THEN stray \cup files ELSE stray
    /\ lost' = IF keep THEN lost ELSE lost \cup {u \in Uploads : upload[u] # None}
    /\ UNCHANGED <<files, upload, creating, used, raced>>

(* iterdir lists the directory before the first file is unlinked. *)
ClearLists(t) ==
    /\ clearing[t] # None /\ ~clearing[t].listed
    /\ clearing' = [clearing EXCEPT
         ![t] = IF files = {} THEN None ELSE [listed |-> TRUE, left |-> files]]
    /\ UNCHANGED <<rowVars, files, upload, creating, clears, used, raced, lost, stray>>

(* One file; an OSError is passed over, also that of a file that another
   clear or a refusal has taken meanwhile. *)
ClearUnlinks(t, f) ==
    /\ clearing[t] # None /\ f \in clearing[t].left
    /\ \/ files' = files \ {f} /\ UNCHANGED stray
       \/ f \in files /\ UNCHANGED files /\ stray' = stray \cup {f}
    /\ clearing' = [clearing EXCEPT
         ![t] = IF clearing[t].left = {f} THEN None
                ELSE [clearing[t] EXCEPT !.left = @ \ {f}]]
    /\ UNCHANGED <<rowVars, upload, creating, clears, used, raced, lost>>

(* The process ends and another starts: the handlers' locals are gone, what
   was committed and the files stay. *)
Restart ==
    /\ upload' = [u \in Uploads |-> None]
    /\ creating' = [t \in Threads |-> None]
    /\ clearing' = [t \in Threads |-> None]
    /\ stray' = stray \cup (files \ DOMAIN assets)
    /\ UNCHANGED <<rowVars, files, clears, used, raced, lost>>

EditNext ==
    \/ \E p \in Projects : CreateProject(p)
    \/ \E t \in Threads, p \in Projects : CreateShotReads(t, p)
    \/ \E t \in Threads, s \in Shots : CreateShotInserts(t, s)
    \/ \E s \in Shots, n \in Positions : MoveShot(s, n)

UploadNext ==
    \/ \E u \in Uploads, k \in Kinds, s \in Shots \cup {None}, pair \in Uploads \cup {None} :
         UploadStored(u, k, s, pair)
    \/ \E u \in Uploads, seconds \in Lengths \cup {None} : UploadProbed(u, seconds)
    \/ \E u \in Uploads : UploadInserted(u) \/ UploadFails(u)

RemoveNext ==
    \/ \E p \in Projects : DeleteProject(p)
    \/ \E s \in Shots : DeleteShot(s)
    \/ \E t \in Threads, keep \in BOOLEAN : ClearRows(t, keep)
    \/ \E t \in Threads : ClearLists(t)
    \/ \E t \in Threads, f \in Uploads : ClearUnlinks(t, f)
    \/ Restart

-----------------------------------------------------------------------------
(* The type of every row, file and local of a handler. *)
LibTypeOK ==
    /\ projects \subseteq Projects
    /\ DOMAIN shots \subseteq Shots
    /\ \A s \in DOMAIN shots : shots[s] \in [project : projects, ord : Nat]
    /\ DOMAIN assets \subseteq Uploads
    /\ \A a \in DOMAIN assets : assets[a] \in [kind : Kinds, seconds : Lengths \cup {None}]
    /\ DOMAIN refs \subseteq DOMAIN assets
    /\ \A a \in DOMAIN refs :
         refs[a] \in [shot : DOMAIN shots, kind : Kinds, ord : Nat, pair : Uploads \cup {None}]
    /\ files \subseteq Uploads
    /\ upload \in [Uploads -> UploadLocals \cup {None}]
    /\ creating \in [Threads -> NewRow \cup {None}]
    /\ clearing \in [Threads -> ClearLocals \cup {None}]
    /\ clears \in 0 .. MaxClears
    /\ {lost, stray} \subseteq SUBSET Uploads /\ raced \subseteq Shots

(* No shot ever has more references of a kind, more references altogether
   or more known seconds of a kind than upload_ref allows: its checks are
   made before the file is written and are still true when the row is
   inserted, because no second upload runs in between and the threads only
   take references away. *)
LimitsHold ==
    \A s \in DOMAIN shots :
        /\ Cardinality(RefsOf(s)) <= MaxRefs
        /\ \A k \in Kinds : Cardinality(RefsOfKind(s, k)) <= MaxCount[k]
        /\ \A k \in {"video", "audio"} : KnownSeconds(s, k) <= MaxSeconds

(* An audio reference is never alone: its shot has an image or a video, and
   the video it is paired with, if any, is a reference of the same shot.
   References go only with their shot or with everything. *)
AudioHasItsPicture ==
    \A a \in DOMAIN refs :
        refs[a].kind = "audio" =>
            /\ \E b \in RefsOf(refs[a].shot) : refs[b].kind # "audio"
            /\ refs[a].pair # None =>
                 /\ refs[a].pair \in RefsOf(refs[a].shot)
                 /\ refs[refs[a].pair].kind = "video"

(* Rows and files agree: an asset has its file unless a clear met its
   upload.  A file has its asset while no upload and no clear is under way,
   unless it is one of the strays: a clear was to keep it or could not
   unlink it, its shot vanished before the insert, the insert raised, or
   the process ended in between.  A refused upload never leaves one. *)
FilesMatchRows ==
    /\ \A a \in DOMAIN assets : a \in files \cup lost
    /\ \A f \in files :
         \/ f \in DOMAIN assets \cup stray
         \/ upload[f] # None
         \/ Clearing

(* The references of a shot are totally ordered, and so are the shots of a
   project that were neither moved nor created from a stale maximum. *)
OrderIsTotal ==
    /\ \A a, b \in DOMAIN refs :
         a # b /\ refs[a].shot = refs[b].shot => refs[a].ord # refs[b].ord
    /\ \A s, t \in DOMAIN shots \ raced :
         s # t /\ shots[s].project = shots[t].project => shots[s].ord # shots[t].ord
=============================================================================
