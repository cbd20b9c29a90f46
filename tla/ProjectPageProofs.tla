------------------------- MODULE ProjectPageProofs -------------------------
(***************************************************************************)
(* Proofs about Library and ProjectPage, for every set of projects, shots, *)
(* uploads, threads and tasks and every bound: the polling of the newest   *)
(* task, the timeline of the current project, the company of an audio      *)
(* reference, types, the numbers of references and shots, the files of     *)
(* assets, the limits of upload_ref, and what a tag of the prompt names.   *)
(***************************************************************************)
EXTENDS ProjectPage, References, SumTheorems

-----------------------------------------------------------------------------
(* Polling.  While nothing crossed the newest task's polling, every status *)
(* request under way and the timer are that task's.                        *)

PollTyped == \A q \in polls : q = [task |-> q.task, got |-> q.got]

PollOwn ==
    newest # None /\ newest \notin crossed =>
        /\ \A q \in polls : q.task = newest
        /\ timer \in {None, newest}

PollInv == PollTyped /\ PollOwn /\ NewestIsFollowed

pollVars == <<timer, polls, newest, told, crossed>>

LEMMA PollInit == Init => PollInv
  BY DEF Init, PageInit, PollInv, PollTyped, PollOwn, NewestIsFollowed

(* Only these actions touch what the polling is about. *)
LEMMA PollSteps ==
  ASSUME Next
  PROVE  \/ UNCHANGED pollVars
         \/ \E t \in Tasks : GenerateAnswered(t)
         \/ TimerFires
         \/ \E q \in polls : PollRead(q) \/ PollArrives(q) \/ PollFails(q)
  BY DEF Next, PageNext, pollVars, pageVars, SwitchProject, PageDeletesProject, RequestRead,
         ListArrives, ShotsArrive, RequestFails, Generate, TaskAdvances, PageAsksClear,
         ClearAnswered, ClearAnswerLost

LEMMA PollStep == PollInv /\ [Next]_allVars => PollInv'
  <1> SUFFICES ASSUME PollInv, [Next]_allVars
               PROVE  PollInv'
    OBVIOUS
  <1> USE DEF PollInv, PollTyped, PollOwn, NewestIsFollowed
  <1>1. CASE UNCHANGED pollVars
    BY <1>1 DEF pollVars
  <1>2. ASSUME NEW t \in Tasks, GenerateAnswered(t)
        PROVE  PollInv'
    BY <1>2 DEF GenerateAnswered
  <1>3. CASE TimerFires
    <2>1. /\ timer # None /\ timer' = None
          /\ polls' = polls \cup {[task |-> timer, got |-> None]}
          /\ UNCHANGED <<newest, told, crossed>>
      BY <1>3 DEF TimerFires
    <2>2. PollTyped' /\ PollOwn'
      BY <2>1
    <2>3. NewestIsFollowed'
      <3>1. CASE timer = newest
        <4>1. [task |-> timer, got |-> None] \in polls'
          BY <2>1
        <4>2. [task |-> timer, got |-> None].task = newest
          BY <3>1
        <4> QED
          BY <2>1, <4>1, <4>2
      <3>2. CASE timer # newest
        BY <2>1, <3>2
      <3> QED
        BY <3>1, <3>2
    <2> QED
      BY <2>2, <2>3
  <1>4. ASSUME NEW q \in polls, PollRead(q)
        PROVE  PollInv'
    <2> DEFINE new == [q EXCEPT !.got = IF q.task \in DOMAIN tasks
                                        THEN tasks[q.task].status ELSE "detail"]
    <2>1. q = [task |-> q.task, got |-> q.got]
      OBVIOUS
    <2>2. new = [task |-> new.task, got |-> new.got] /\ new.task = q.task
      BY <2>1
    <2>3. polls' = (polls \ {q}) \cup {new} /\ UNCHANGED <<timer, newest, told, crossed>>
      BY <1>4 DEF PollRead
    <2> HIDE DEF new
    <2> QED
      BY <2>2, <2>3
  <1>5. ASSUME NEW q \in polls, PollArrives(q)
        PROVE  PollInv'
    <2>1. CASE AsksAgain(q.got)
      BY <1>5, <2>1 DEF PollArrives
    <2>2. CASE ~AsksAgain(q.got)
      BY <1>5, <2>2 DEF PollArrives, AsksAgain
    <2> QED
      BY <2>1, <2>2
  <1>6. ASSUME NEW q \in polls, PollFails(q)
        PROVE  PollInv'
    BY <1>6 DEF PollFails
  <1>7. CASE UNCHANGED allVars
    BY <1>1, <1>7 DEF allVars, pageVars, pollVars
  <1> QED
    BY <1>1, <1>2, <1>3, <1>4, <1>5, <1>6, <1>7, PollSteps

(* The page of shared.js never loses the task it was told of last: its     *)
(* timer is set or a status request is under way until the final status    *)
(* has been shown, unless another task's request or a failure came in      *)
(* between.                                                                *)
THEOREM PollingCorrect == Spec => []NewestIsFollowed
  <1>1. PollInv => NewestIsFollowed
    BY DEF PollInv
  <1> QED
    BY <1>1, PollInit, PollStep, PTL DEF Spec

-----------------------------------------------------------------------------
(* Timeline.  Until a request failed or was overtaken, the shots request   *)
(* sent last is for the current project; when none is left the timeline    *)
(* shows that project.                                                     *)

Pending == {r \in requests : r.what = "shots"}

RequestsTyped ==
    /\ sent \in Nat
    /\ \A r \in requests :
         /\ r = [n |-> r.n, what |-> r.what, project |-> r.project, got |-> r.got]
         /\ r.n \in Nat /\ r.n < sent

LastIsCurrent ==
    ~overtaken =>
        /\ Pending = {} => view.project = current
        /\ \A r \in Pending : (\A q \in Pending : q.n <= r.n) => r.project = current

TimelineInv == RequestsTyped /\ LastIsCurrent

timelineVars == <<current, view, requests, sent, overtaken>>

LEMMA TimelineInit == Init => TimelineInv
  BY DEF Init, PageInit, NoView, TimelineInv, RequestsTyped, LastIsCurrent, Pending

LEMMA TimelineSteps ==
  ASSUME Next
  PROVE  \/ UNCHANGED timelineVars
         \/ \E p \in Projects : SwitchProject(p) \/ PageDeletesProject(p)
         \/ \E r \in requests :
              RequestRead(r) \/ ListArrives(r) \/ ShotsArrive(r) \/ RequestFails(r)
         \/ ClearAnswered
  BY DEF Next, PageNext, timelineVars, pageVars, Generate, GenerateAnswered, TimerFires, PollRead,
         PollArrives, PollFails, TaskAdvances, PageAsksClear, ClearAnswerLost

(* A request sent now comes after every other. *)
LEMMA AskTyped ==
  ASSUME RequestsTyped, NEW what, NEW p, NEW others \in SUBSET requests,
         requests' = others \cup {Ask(what, p)}, sent' = sent + 1
  PROVE  /\ RequestsTyped'
         /\ Ask(what, p).what = what /\ Ask(what, p).project = p /\ Ask(what, p).n = sent
         /\ \A r \in others : r.n < sent /\ r.n \in Nat
  BY DEF RequestsTyped, Ask

(* Asking for the shots of the project that becomes current. *)
LEMMA SwitchKeeps ==
  ASSUME TimelineInv, NEW p, NEW others \in SUBSET requests, SwitchTo(p, others),
         UNCHANGED <<view, overtaken>>
  PROVE  TimelineInv'
  <1>1. requests' = others \cup {Ask("shots", p)} /\ sent' = sent + 1 /\ current' = p
    BY DEF SwitchTo
  <1>2. RequestsTyped /\ sent \in Nat
    BY DEF TimelineInv, RequestsTyped
  <1>3. /\ RequestsTyped'
        /\ Ask("shots", p).what = "shots" /\ Ask("shots", p).project = p
        /\ Ask("shots", p).n = sent
        /\ \A r \in others : r.n < sent /\ r.n \in Nat
    BY <1>1, <1>2, AskTyped
  <1>4. Ask("shots", p) \in Pending'
    BY <1>1, <1>3 DEF Pending
  <1>5. ASSUME NEW r \in Pending', \A q \in Pending' : q.n <= r.n
        PROVE  r.project = p
    <2>1. r \in others \cup {Ask("shots", p)}
      BY <1>1 DEF Pending
    <2>2. sent <= r.n
      BY <1>3, <1>4, <1>5
    <2>3. r \notin others
      BY <1>2, <1>3, <2>2
    <2> QED
      BY <1>3, <2>1, <2>3
  <1> QED
    BY <1>1, <1>3, <1>4, <1>5 DEF TimelineInv, LastIsCurrent

(* Asking for the list is not asking for shots. *)
LEMMA ListKeeps ==
  ASSUME TimelineInv, LoadProjects
  PROVE  RequestsTyped' /\ Pending' = Pending
  <1>1. requests' = requests \cup {Ask("list", None)} /\ sent' = sent + 1
    BY DEF LoadProjects
  <1>2. RequestsTyped' /\ Ask("list", None).what = "list"
    BY <1>1, AskTyped DEF TimelineInv
  <1> QED
    BY <1>1, <1>2 DEF Pending

LEMMA TimelineStep == TimelineInv /\ [Next]_allVars => TimelineInv'
  <1> SUFFICES ASSUME TimelineInv, [Next]_allVars
               PROVE  TimelineInv'
    OBVIOUS
  <1>1. CASE UNCHANGED timelineVars
    BY <1>1 DEF timelineVars, TimelineInv, RequestsTyped, LastIsCurrent, Pending
  <1>2. ASSUME NEW p \in Projects, SwitchProject(p)
        PROVE  TimelineInv'
    BY <1>2, SwitchKeeps DEF SwitchProject
  <1>3. ASSUME NEW p \in Projects, PageDeletesProject(p)
        PROVE  TimelineInv'
    <2>1. LoadProjects /\ UNCHANGED <<current, view, overtaken>>
      BY <1>3 DEF PageDeletesProject
    <2>2. RequestsTyped' /\ Pending' = Pending
      BY <2>1, ListKeeps
    <2> QED
      BY <2>1, <2>2 DEF TimelineInv, LastIsCurrent
  <1>4. ASSUME NEW r \in requests, RequestRead(r)
        PROVE  TimelineInv'
    <2> DEFINE new == [r EXCEPT !.got = IF r.what = "list" THEN projects
                                        ELSE ShotsOf(r.project)]
    <2>1. /\ requests' = (requests \ {r}) \cup {new}
          /\ UNCHANGED <<current, view, sent, overtaken>>
      BY <1>4 DEF RequestRead
    <2>2. r = [n |-> r.n, what |-> r.what, project |-> r.project, got |-> r.got]
      BY DEF TimelineInv, RequestsTyped
    <2>3. /\ new = [n |-> new.n, what |-> new.what, project |-> new.project, got |-> new.got]
          /\ new.n = r.n /\ new.what = r.what /\ new.project = r.project
      BY <2>2
    <2> HIDE DEF new
    <2>4. RequestsTyped'
      BY <2>1, <2>3 DEF TimelineInv, RequestsTyped
    <2>5. \A q \in Pending : \E s \in Pending' : s.n = q.n
      BY <2>1, <2>3 DEF Pending
    <2>6. \A s \in Pending' : \E q \in Pending : s.n = q.n /\ s.project = q.project
      BY <2>1, <2>3 DEF Pending
    <2>7. ASSUME ~overtaken, NEW s \in Pending', \A q \in Pending' : q.n <= s.n
          PROVE  s.project = current
      <3>1. PICK q \in Pending : s.n = q.n /\ s.project = q.project
        BY <2>6
      <3>2. \A t \in Pending : t.n <= q.n
        BY <2>5, <2>7, <3>1
      <3> QED
        BY <2>7, <3>1, <3>2 DEF TimelineInv, LastIsCurrent
    <2>8. Pending' = {} => Pending = {}
      BY <2>5
    <2> QED
      BY <2>1, <2>4, <2>7, <2>8 DEF TimelineInv, LastIsCurrent
  <1>5. ASSUME NEW r \in requests, ListArrives(r)
        PROVE  TimelineInv'
    <2>1. r.what = "list" /\ UNCHANGED <<view, overtaken>>
      BY <1>5 DEF ListArrives
    <2>2. CASE \E p : SwitchTo(p, requests \ {r})
      BY <2>1, <2>2, SwitchKeeps
    <2>3. CASE requests' = requests \ {r} /\ UNCHANGED <<current, sent>>
      <3>1. Pending' = Pending
        BY <2>1, <2>3 DEF Pending
      <3> QED
        BY <2>1, <2>3, <3>1 DEF TimelineInv, RequestsTyped, LastIsCurrent
    <2> QED
      BY <1>5, <2>2, <2>3 DEF ListArrives
  <1>6. ASSUME NEW r \in requests, ShotsArrive(r)
        PROVE  TimelineInv'
    <2>1. /\ requests' = requests \ {r} /\ UNCHANGED <<current, sent>>
          /\ view'.project = r.project
          /\ overtaken' = (overtaken \/ \E q \in requests : q.what = "shots" /\ q.n < r.n)
          /\ r \in Pending
      BY <1>6 DEF ShotsArrive, Pending
    <2>2. RequestsTyped'
      BY <2>1 DEF TimelineInv, RequestsTyped
    <2>3. Pending' = Pending \ {r}
      BY <2>1 DEF Pending
    <2>4. ASSUME ~overtaken'
          PROVE  ~overtaken /\ \A q \in Pending : r.n <= q.n
      <3>1. ~overtaken /\ ~\E q \in requests : q.what = "shots" /\ q.n < r.n
        BY <2>1, <2>4, Zenon
      <3>2. \A q \in requests : q.n \in Nat
        BY DEF TimelineInv, RequestsTyped
      <3> QED
        BY <3>1, <3>2 DEF Pending
    <2>5. ASSUME ~overtaken', Pending' = {}
          PROVE  view'.project = current'
      <3>1. \A q \in Pending : q.n <= r.n
        BY <2>3, <2>5 DEF TimelineInv, RequestsTyped, Pending
      <3> QED
        BY <2>1, <2>4, <2>5, <3>1 DEF TimelineInv, LastIsCurrent
    <2>6. ASSUME ~overtaken', NEW s \in Pending', \A q \in Pending' : q.n <= s.n
          PROVE  s.project = current'
      <3>1. \A q \in Pending : q.n <= s.n
        BY <2>3, <2>4, <2>6
      <3> QED
        BY <2>1, <2>3, <2>4, <2>6, <3>1 DEF TimelineInv, LastIsCurrent
    <2> QED
      BY <2>2, <2>5, <2>6 DEF TimelineInv, LastIsCurrent
  <1>7. ASSUME NEW r \in requests, RequestFails(r)
        PROVE  TimelineInv'
    <2>1. /\ requests' = requests \ {r} /\ UNCHANGED <<current, view, sent>>
          /\ overtaken' = (overtaken \/ r.what = "shots")
      BY <1>7 DEF RequestFails
    <2>2. RequestsTyped'
      BY <2>1 DEF TimelineInv, RequestsTyped
    <2>3. ~overtaken' => ~overtaken /\ r.what # "shots"
      BY <2>1, Zenon
    <2>4. r.what # "shots" => Pending' = Pending
      BY <2>1 DEF Pending
    <2> QED
      BY <2>1, <2>2, <2>3, <2>4 DEF TimelineInv, LastIsCurrent
  <1>8. CASE ClearAnswered
    <2>1. /\ LoadProjects /\ current' = None /\ view'.project = None
          /\ overtaken' = (overtaken \/ \E q \in requests : q.what = "shots")
      BY <1>8 DEF ClearAnswered, PageForgets, NoView
    <2>2. RequestsTyped' /\ Pending' = Pending
      BY <2>1, ListKeeps
    <2>3. ~overtaken' => Pending = {}
      BY <2>1 DEF Pending
    <2> QED
      BY <2>1, <2>2, <2>3 DEF TimelineInv, LastIsCurrent
  <1>9. CASE UNCHANGED allVars
    BY <1>1, <1>9 DEF allVars, pageVars, timelineVars
  <1> QED
    BY <1>1, <1>2, <1>3, <1>4, <1>5, <1>6, <1>7, <1>8, <1>9, TimelineSteps

(* When the page's requests have been answered in order, its timeline      *)
(* shows the current project, whatever switches, deletions and clearings   *)
(* happened meanwhile.                                                     *)
THEOREM TimelineCorrect == Spec => []TimelineIsCurrent
  <1>1. TimelineInv => TimelineIsCurrent
    BY DEF TimelineInv, LastIsCurrent, TimelineIsCurrent, Pending
  <1> QED
    BY <1>1, TimelineInit, TimelineStep, PTL DEF Spec

-----------------------------------------------------------------------------
(* References.  What was handed out stays handed out, an upload under way  *)
(* has no row yet, and an audio upload that is bound for a shot that is    *)
(* still there finds the picture that its checks found.                    *)

HasPicture(s) == \E b \in RefsOf(s) : refs[b].kind # "audio"

InCompany(a) ==
    refs[a].kind = "audio" =>
        /\ HasPicture(refs[a].shot)
        /\ refs[a].pair # None =>
             refs[a].pair \in RefsOf(refs[a].shot) /\ refs[refs[a].pair].kind = "video"

RowsKnown ==
    /\ DOMAIN shots \subseteq used \cap Shots /\ DOMAIN assets \subseteq used
    /\ DOMAIN refs \subseteq DOMAIN assets
    /\ \A a \in DOMAIN refs :
         refs[a].shot \in DOMAIN shots /\ refs[a].kind = assets[a].kind

UploadSound(u) ==
    upload[u] # None =>
        /\ upload[u] = [kind |-> upload[u].kind, shot |-> upload[u].shot,
                        pair |-> upload[u].pair, seconds |-> upload[u].seconds,
                        probed |-> upload[u].probed]
        /\ u \in used \ DOMAIN assets
        /\ upload[u].shot \in used \cup {None}
        /\ upload[u].kind = "audio" /\ upload[u].shot \in DOMAIN shots
               => HasPicture(upload[u].shot)

AudioInv ==
    /\ RowsKnown
    /\ upload = [u \in Uploads |-> upload[u]]
    /\ \A u \in Uploads : UploadSound(u)
    /\ AudioHasItsPicture

refVars == <<shots, assets, refs, upload, used>>

LEMMA Company == AudioHasItsPicture <=> \A a \in DOMAIN refs : InCompany(a)
  BY DEF AudioHasItsPicture, InCompany, HasPicture

LEMMA EmptyDomain == DOMAIN <<>> = {}
  OBVIOUS

LEMMA AudioInit == Init => AudioInv
  <1> SUFFICES ASSUME Init
               PROVE  AudioInv
    OBVIOUS
  <1>1. DOMAIN refs = {} /\ DOMAIN assets = {} /\ upload = [u \in Uploads |-> None]
    BY EmptyDomain DEF Init, LibInit
  <1>2. DOMAIN shots \subseteq used \cap Shots
    BY EmptyDomain DEF Init, LibInit
  <1> QED
    BY <1>1, <1>2 DEF AudioInv, RowsKnown, UploadSound, AudioHasItsPicture

(* Identifiers are only ever added, and rows of other kinds do not matter. *)
LEMMA AudioUnchanged ==
  ASSUME AudioInv, UNCHANGED <<assets, refs, upload>>, used \subseteq used',
         DOMAIN shots \subseteq DOMAIN shots', DOMAIN shots' \subseteq used' \cap Shots,
         \A u \in Uploads : upload[u] # None => upload[u].shot \notin DOMAIN shots' \ DOMAIN shots
  PROVE  AudioInv'
  BY DEF AudioInv, RowsKnown, UploadSound, HasPicture, RefsOf, AudioHasItsPicture

(* Deleting shots takes all their references and no others. *)
LEMMA AudioDropped ==
  ASSUME AudioInv, NEW gone, DropShots(gone)
  PROVE  AudioInv'
  <1>1. /\ shots' = Without(shots, gone)
        /\ refs' = Without(refs, UNION {RefsOf(s) : s \in gone})
        /\ UNCHANGED <<assets, upload, used>>
    BY DEF DropShots
  <1>2. DOMAIN shots' = DOMAIN shots \ gone
    BY <1>1 DEF Without, Restrict
  <1>3. /\ DOMAIN refs' = {a \in DOMAIN refs : refs[a].shot \notin gone}
        /\ \A a \in DOMAIN refs' : refs'[a] = refs[a]
    <2>1. DOMAIN refs' = DOMAIN refs \ UNION {RefsOf(s) : s \in gone}
      BY <1>1 DEF Without, Restrict
    <2>2. \A a \in DOMAIN refs' : refs'[a] = refs[a]
      BY <1>1 DEF Without, Restrict
    <2>3. \A a \in DOMAIN refs :
            a \in UNION {RefsOf(s) : s \in gone} <=> refs[a].shot \in gone
      BY DEF RefsOf
    <2> QED
      BY <2>1, <2>2, <2>3
  <1>4. \A s : s \notin gone => RefsOf(s)' = RefsOf(s)
    BY <1>3 DEF RefsOf
  <1>5. RowsKnown'
    BY <1>1, <1>2, <1>3 DEF AudioInv, RowsKnown
  <1>6. \A s \in DOMAIN shots' : HasPicture(s) => HasPicture(s)'
    BY <1>2, <1>3, <1>4 DEF HasPicture, RefsOf
  <1>7. \A u \in Uploads : UploadSound(u)'
    BY <1>1, <1>2, <1>6 DEF AudioInv, UploadSound
  <1>8. ASSUME NEW a \in DOMAIN refs'
        PROVE  InCompany(a)'
    <2>1. /\ a \in DOMAIN refs /\ refs'[a] = refs[a] /\ refs[a].shot \in DOMAIN shots'
          /\ RefsOf(refs[a].shot)' = RefsOf(refs[a].shot)
      BY <1>2, <1>3, <1>4 DEF AudioInv, RowsKnown
    <2>2. \A b \in RefsOf(refs[a].shot) : refs'[b] = refs[b]
      BY <1>3, <2>1 DEF RefsOf
    <2>3. InCompany(a)
      BY <2>1, Company DEF AudioInv
    <2> QED
      BY <1>6, <2>1, <2>2, <2>3 DEF InCompany
  <1>9. AudioHasItsPicture'
    BY <1>8 DEF AudioHasItsPicture, InCompany, HasPicture
  <1> QED
    BY <1>1, <1>5, <1>7, <1>9 DEF AudioInv

(* Clearing leaves no reference and no asset. *)
LEMMA AudioCleared ==
  ASSUME AudioInv, NEW t, NEW keep, ClearRows(t, keep)
  PROVE  AudioInv'
  <1>1. /\ DOMAIN shots' = {} /\ DOMAIN assets' = {} /\ DOMAIN refs' = {}
        /\ UNCHANGED <<upload, used>>
    BY EmptyDomain DEF ClearRows
  <1> QED
    BY <1>1 DEF AudioInv, RowsKnown, UploadSound, AudioHasItsPicture

(* An audio upload passes its checks only beside a picture. *)
LEMMA AudioStored ==
  ASSUME AudioInv, NEW u \in Uploads, NEW k, NEW s \in Shots \cup {None}, NEW pair,
         UploadStored(u, k, s, pair)
  PROVE  AudioInv'
  <1> DEFINE new == [kind |-> k, shot |-> s, pair |-> pair, seconds |-> None,
                     probed |-> k = "image"]
  <1>1. /\ upload' = [upload EXCEPT ![u] = new]
        /\ used' = used \cup {u} /\ u \notin used
        /\ UNCHANGED <<shots, assets, refs>>
        /\ s # None => s \in used /\ Admits(s, k)
    BY DEF UploadStored, rowVars
  <1>2. k = "audio" /\ s # None => HasPicture(s)
    BY <1>1 DEF Admits, HasPicture, RefsOfKind
  <1>3. /\ new.kind = k /\ new.shot = s
        /\ new = [kind |-> new.kind, shot |-> new.shot, pair |-> new.pair,
                  seconds |-> new.seconds, probed |-> new.probed]
    OBVIOUS
  <1> HIDE DEF new
  <1>4. upload'[u] = new /\ \A v \in Uploads \ {u} : upload'[v] = upload[v]
    BY <1>1 DEF AudioInv
  <1>5. None \notin DOMAIN shots
    BY LibraryAssumption DEF AudioInv, RowsKnown
  <1>6. UploadSound(u)'
    BY <1>1, <1>2, <1>3, <1>4, <1>5 DEF AudioInv, RowsKnown, UploadSound, HasPicture, RefsOf
  <1>7. \A v \in Uploads \ {u} : UploadSound(v)'
    BY <1>1, <1>4 DEF AudioInv, UploadSound, HasPicture, RefsOf
  <1>8. RowsKnown' /\ AudioHasItsPicture'
    BY <1>1 DEF AudioInv, RowsKnown, AudioHasItsPicture, RefsOf
  <1> QED
    BY <1>1, <1>6, <1>7, <1>8 DEF AudioInv

(* The probe changes neither what an upload is for nor any row. *)
LEMMA AudioProbed ==
  ASSUME AudioInv, NEW u \in Uploads, NEW seconds, UploadProbed(u, seconds)
  PROVE  AudioInv'
  <1>1. /\ UNCHANGED <<shots, assets, refs, used>>
        /\ upload[u] # None
        /\ \/ upload' = [upload EXCEPT ![u] = None]
           \/ upload' = [upload EXCEPT ![u].seconds = seconds, ![u].probed = TRUE]
    BY DEF UploadProbed, Refuse, rowVars
  <1>2. /\ upload' = [v \in Uploads |-> upload'[v]]
        /\ \A v \in Uploads \ {u} : upload'[v] = upload[v]
    BY <1>1 DEF AudioInv
  <1>3. UploadSound(u)'
    <2>1. CASE upload' = [upload EXCEPT ![u] = None]
      BY <2>1 DEF AudioInv, UploadSound
    <2>2. CASE upload' = [upload EXCEPT ![u].seconds = seconds, ![u].probed = TRUE]
      <3>1. upload'[u].kind = upload[u].kind /\ upload'[u].shot = upload[u].shot
        BY <1>1, <2>2 DEF AudioInv, UploadSound
      <3>2. upload'[u] = [kind |-> upload'[u].kind, shot |-> upload'[u].shot,
                          pair |-> upload'[u].pair, seconds |-> upload'[u].seconds,
                          probed |-> upload'[u].probed]
        BY <1>1, <2>2 DEF AudioInv, UploadSound
      <3> QED
        BY <1>1, <3>1, <3>2 DEF AudioInv, UploadSound, HasPicture, RefsOf
    <2> QED
      BY <1>1, <2>1, <2>2
  <1>4. \A v \in Uploads \ {u} : UploadSound(v)'
    BY <1>1, <1>2 DEF AudioInv, UploadSound, HasPicture, RefsOf
  <1>5. RowsKnown' /\ AudioHasItsPicture'
    BY <1>1 DEF AudioInv, RowsKnown, AudioHasItsPicture, RefsOf
  <1> QED
    BY <1>2, <1>3, <1>4, <1>5 DEF AudioInv

(* An upload that ends without a new reference. *)
LEMMA AudioEnds ==
  ASSUME AudioInv, NEW u \in Uploads, upload[u] # None,
         upload' = [upload EXCEPT ![u] = None], UNCHANGED <<shots, refs, used>>,
         \/ UNCHANGED assets
         \/ \E row : assets' = With(assets, u, row)
  PROVE  AudioInv'
  <1>1. u \in used \ DOMAIN assets
    BY DEF AudioInv, UploadSound
  <1>2. /\ DOMAIN assets \subseteq DOMAIN assets' /\ DOMAIN assets' \subseteq DOMAIN assets \cup {u}
        /\ \A a \in DOMAIN assets : assets'[a] = assets[a]
    BY <1>1 DEF With
  <1>3. /\ upload' = [v \in Uploads |-> upload'[v]]
        /\ upload'[u] = None /\ \A v \in Uploads \ {u} : upload'[v] = upload[v]
    BY DEF AudioInv
  <1>4. \A v \in Uploads : UploadSound(v)'
    BY <1>2, <1>3 DEF AudioInv, UploadSound, HasPicture, RefsOf
  <1>5. RowsKnown' /\ AudioHasItsPicture'
    BY <1>1, <1>2 DEF AudioInv, RowsKnown, AudioHasItsPicture, RefsOf
  <1> QED
    BY <1>3, <1>4, <1>5 DEF AudioInv

(* An upload that becomes a reference of a shot that is there. *)
LEMMA AudioBound ==
  ASSUME AudioInv, NEW u \in Uploads, upload[u] # None,
         upload' = [upload EXCEPT ![u] = None], UNCHANGED <<shots, used>>,
         upload[u].shot \in DOMAIN shots, PairIsVideo(upload[u]),
         NEW asset, asset.kind = upload[u].kind, assets' = With(assets, u, asset),
         NEW row, row.shot = upload[u].shot, row.kind = upload[u].kind,
         row.pair = upload[u].pair, refs' = With(refs, u, row)
  PROVE  AudioInv'
  <1>1. u \in used \ DOMAIN assets /\ u \notin DOMAIN refs
    BY DEF AudioInv, UploadSound, RowsKnown
  <1>2. /\ DOMAIN assets' = DOMAIN assets \cup {u} /\ assets'[u] = asset
        /\ \A a \in DOMAIN assets : assets'[a] = assets[a]
    BY <1>1 DEF With
  <1>3. /\ DOMAIN refs' = DOMAIN refs \cup {u} /\ refs'[u] = row
        /\ \A a \in DOMAIN refs : refs'[a] = refs[a]
    BY <1>1 DEF With
  <1>4. /\ upload' = [v \in Uploads |-> upload'[v]]
        /\ upload'[u] = None /\ \A v \in Uploads \ {u} : upload'[v] = upload[v]
    BY DEF AudioInv
  <1>5. \A s : RefsOf(s) \subseteq RefsOf(s)'
    BY <1>3 DEF RefsOf
  <1>6. \A s : HasPicture(s) => HasPicture(s)'
    BY <1>3, <1>5 DEF HasPicture, RefsOf
  <1>7. RowsKnown'
    BY <1>1, <1>2, <1>3 DEF AudioInv, RowsKnown
  <1>8. \A v \in Uploads : UploadSound(v)'
    BY <1>2, <1>4, <1>6 DEF AudioInv, UploadSound
  <1>9. ASSUME NEW a \in DOMAIN refs'
        PROVE  InCompany(a)'
    <2>1. CASE a \in DOMAIN refs
      <3>1. InCompany(a) /\ refs'[a] = refs[a]
        BY <1>3, <2>1, Company DEF AudioInv
      <3> QED
        BY <1>3, <1>5, <1>6, <3>1 DEF InCompany, RefsOf
    <2>2. CASE a = u
      <3>1. row.kind = "audio" => HasPicture(row.shot)
        BY <1>3, <2>2 DEF AudioInv, UploadSound
      <3>2. row.pair # None =>
              /\ row.pair \in RefsOf(row.shot) /\ refs[row.pair].kind = "video"
        BY DEF PairIsVideo, AudioInv, RowsKnown, RefsOf
      <3> QED
        BY <1>3, <1>5, <1>6, <2>2, <3>1, <3>2 DEF InCompany, RefsOf
    <2> QED
      BY <1>3, <2>1, <2>2
  <1>10. AudioHasItsPicture'
    BY <1>9 DEF AudioHasItsPicture, InCompany, HasPicture
  <1> QED
    BY <1>4, <1>7, <1>8, <1>10 DEF AudioInv

LEMMA AudioInserted ==
  ASSUME AudioInv, NEW u \in Uploads, UploadInserted(u)
  PROVE  AudioInv'
  <1> DEFINE up    == upload[u]
             asset == [kind |-> up.kind, seconds |-> up.seconds]
             row   == [shot |-> up.shot, kind |-> up.kind, ord |-> NextOrd(RefOrds(up.shot)),
                       pair |-> up.pair]
  <1>1. /\ upload[u] # None /\ UNCHANGED <<shots, used>>
        /\ upload' = [upload EXCEPT ![u] = None]
    BY DEF UploadInserted, Refuse
  <1>2. \/ UNCHANGED <<assets, refs>>
        \/ assets' = With(assets, u, asset) /\ UNCHANGED refs
        \/ /\ up.shot \in DOMAIN shots /\ PairIsVideo(up)
           /\ assets' = With(assets, u, asset) /\ refs' = With(refs, u, row)
    BY DEF UploadInserted
  <1>3. /\ asset.kind = up.kind /\ row.shot = up.shot /\ row.kind = up.kind
        /\ row.pair = up.pair
    OBVIOUS
  <1> HIDE DEF asset, row
  <1>4. CASE UNCHANGED <<assets, refs>>
    BY <1>1, <1>4, AudioEnds
  <1>5. CASE assets' = With(assets, u, asset) /\ UNCHANGED refs
    BY <1>1, <1>5, AudioEnds
  <1>6. CASE /\ up.shot \in DOMAIN shots /\ PairIsVideo(up)
             /\ assets' = With(assets, u, asset) /\ refs' = With(refs, u, row)
    BY <1>1, <1>3, <1>6, AudioBound
  <1> QED
    BY <1>2, <1>4, <1>5, <1>6

(* Only these actions touch a shot, an asset, a reference or an upload. *)
LEMMA RefSteps ==
  ASSUME Next
  PROVE  \/ UNCHANGED refVars
         \/ \E p \in Projects : CreateProject(p) \/ DeleteProject(p)
         \/ \E t \in Threads, s \in Shots : CreateShotInserts(t, s)
         \/ \E s \in Shots, n \in Positions : MoveShot(s, n)
         \/ \E s \in Shots : DeleteShot(s)
         \/ \E t \in Threads, keep \in BOOLEAN : ClearRows(t, keep)
         \/ Restart
         \/ \E u \in Uploads :
              \/ \E k \in Kinds, s \in Shots \cup {None}, pair \in Uploads \cup {None} :
                   UploadStored(u, k, s, pair)
              \/ \E seconds \in Lengths \cup {None} : UploadProbed(u, seconds)
              \/ UploadInserted(u) \/ UploadFails(u)
         \/ \E t \in Tasks, s \in Shots : Generate(t, s)
  <1>1. CASE EditNext
    BY <1>1 DEF EditNext, CreateShotReads, rowVars, refVars
  <1>2. CASE UploadNext
    BY <1>2 DEF UploadNext
  <1>3. CASE RemoveNext
    BY <1>3 DEF RemoveNext, ClearLists, ClearUnlinks, rowVars, refVars
  <1>4. CASE PageNext
    BY <1>4 DEF PageNext, SwitchProject, PageDeletesProject, RequestRead, ListArrives,
                ShotsArrive, RequestFails, GenerateAnswered, TaskAdvances, TimerFires, PollRead,
                PollArrives, PollFails, PageAsksClear, ClearAnswered, ClearAnswerLost,
                ClearLists, libVars, rowVars, refVars
  <1> QED
    BY <1>1, <1>2, <1>3, <1>4 DEF Next

LEMMA AudioStep == AudioInv /\ [Next]_allVars => AudioInv'
  <1> SUFFICES ASSUME AudioInv, [Next]_allVars
               PROVE  AudioInv'
    OBVIOUS
  <1>1. CASE UNCHANGED refVars
    BY <1>1, AudioUnchanged DEF refVars, AudioInv, RowsKnown
  <1>2. ASSUME NEW p \in Projects, CreateProject(p)
        PROVE  AudioInv'
    BY <1>2, AudioUnchanged DEF CreateProject, AudioInv, RowsKnown
  <1>3. ASSUME NEW p \in Projects, DeleteProject(p)
        PROVE  AudioInv'
    BY <1>3, AudioDropped DEF DeleteProject
  <1>4. ASSUME NEW t \in Threads, NEW s \in Shots, CreateShotInserts(t, s)
        PROVE  AudioInv'
    <2>1. /\ used' = used \cup {s} /\ s \notin used
          /\ UNCHANGED <<assets, refs, upload>>
          /\ UNCHANGED shots \/ shots' = With(shots, s, creating[t])
      BY <1>4 DEF CreateShotInserts
    <2>2. DOMAIN shots \subseteq DOMAIN shots' /\ DOMAIN shots' \subseteq DOMAIN shots \cup {s}
      BY <2>1 DEF With
    <2>3. \A u \in Uploads : upload[u] # None => upload[u].shot # s
      BY <2>1, LibraryAssumption DEF AudioInv, UploadSound
    <2> QED
      BY <2>1, <2>2, <2>3, AudioUnchanged DEF AudioInv, RowsKnown
  <1>5. ASSUME NEW s \in Shots, NEW n \in Positions, MoveShot(s, n)
        PROVE  AudioInv'
    <2>1. DOMAIN shots' = DOMAIN shots /\ UNCHANGED <<assets, refs, upload, used>>
      BY <1>5 DEF MoveShot
    <2> QED
      BY <2>1, AudioUnchanged DEF AudioInv, RowsKnown
  <1>6. ASSUME NEW s \in Shots, DeleteShot(s)
        PROVE  AudioInv'
    BY <1>6, AudioDropped DEF DeleteShot
  <1>7. ASSUME NEW t \in Threads, NEW keep \in BOOLEAN, ClearRows(t, keep)
        PROVE  AudioInv'
    BY <1>7, AudioCleared
  <1>8. ASSUME NEW u \in Uploads,
               \/ \E k \in Kinds, s \in Shots \cup {None}, pair \in Uploads \cup {None} :
                    UploadStored(u, k, s, pair)
               \/ \E seconds \in Lengths \cup {None} : UploadProbed(u, seconds)
               \/ UploadInserted(u) \/ UploadFails(u)
        PROVE  AudioInv'
    <2>1. CASE UploadFails(u)
      BY <2>1, AudioEnds DEF UploadFails, rowVars
    <2> QED
      BY <1>8, <2>1, AudioStored, AudioProbed, AudioInserted
  <1>9. ASSUME NEW t \in Tasks, NEW s \in Shots, Generate(t, s)
        PROVE  AudioInv'
    BY <1>9, AudioUnchanged DEF Generate, rowVars, AudioInv, RowsKnown
  <1>10. CASE UNCHANGED allVars
    BY <1>1, <1>10 DEF allVars, libVars, rowVars, refVars
  <1>11. CASE Restart
    <2>1. /\ UNCHANGED <<shots, assets, refs, used>>
          /\ upload' = [u \in Uploads |-> None]
      BY <1>11 DEF Restart, rowVars
    <2> QED
      BY <2>1 DEF AudioInv, RowsKnown, UploadSound, AudioHasItsPicture, RefsOf
  <1> QED
    BY <1>1, <1>2, <1>3, <1>4, <1>5, <1>6, <1>7, <1>8, <1>9, <1>10, <1>11, RefSteps

(* upload_ref never leaves an audio reference alone, nor paired with       *)
(* anything but a video of its shot, whatever is deleted, cleared and      *)
(* created between its checks and its insert.                              *)
THEOREM AudioCorrect == Spec => []AudioHasItsPicture
  <1>1. AudioInv => AudioHasItsPicture
    BY DEF AudioInv
  <1> QED
    BY <1>1, AudioInit, AudioStep, PTL DEF Spec

-----------------------------------------------------------------------------
(* Types, and the bounds of the numbers in use.                            *)

(* The number after the last one. *)
LEMMA NextOrdIsNext ==
  ASSUME NEW n \in Nat, NEW S, S \subseteq 0 .. n
  PROVE  /\ NextOrd(S) \in 0 .. n + 1
         /\ \A x \in S : x < NextOrd(S)
  <1>1. CASE S = {}
    BY <1>1 DEF NextOrd
  <1>2. CASE S # {}
    <2> DEFINE T == {n - i : i \in S}
    <2>1. \A i \in S : i \in Int /\ n - i \in Nat
      OBVIOUS
    <2>2. T \subseteq Nat /\ T # {}
      BY <1>2, <2>1
    <2>3. PICK m \in T : \A y \in T : ~(<<y, m>> \in OpToRel(<, Nat))
      BY <2>2, NatLessThanWellFounded, WFMin, Zenon
    <2>4. PICK x \in S : m = n - x
      OBVIOUS
    <2>5. ASSUME NEW y \in S
          PROVE  x >= y
      <3>1. n - y \in T /\ n - y \in Nat /\ m \in Nat
        BY <2>1, <2>2
      <3>2. ~(n - y < m)
        BY <2>3, <3>1 DEF OpToRel
      <3> QED
        BY <2>1, <2>4, <3>1, <3>2
    <2>6. Max(S) \in S /\ \A y \in S : Max(S) >= y
      BY <2>5 DEF Max
    <2>7. NextOrd(S) = Max(S) + 1
      BY <1>2 DEF NextOrd
    <2> HIDE DEF T
    <2>8. \A y \in S : y \in 0 .. n
      OBVIOUS
    <2>9. Max(S) \in 0 .. n
      BY <2>6, <2>8
    <2> QED
      BY <2>6, <2>7, <2>8, <2>9
  <1> QED
    BY <1>1, <1>2

NumbersBounded ==
    /\ \E n \in Nat : \A a \in DOMAIN refs : refs[a].ord \in 0 .. n
    /\ \E n \in Nat : \A s \in DOMAIN shots : shots[s].ord \in 0 .. n

LEMMA NumbersOf ==
  ASSUME NumbersBounded
  PROVE  /\ \A s : /\ NextOrd(RefOrds(s)) \in Nat
                   /\ \A a \in RefsOf(s) : refs[a].ord < NextOrd(RefOrds(s))
         /\ \A p : /\ NextOrd(ShotOrds(p)) \in Nat
                   /\ \A s \in ShotsOf(p) : shots[s].ord < NextOrd(ShotOrds(p))
  <1>1. PICK n \in Nat : \A a \in DOMAIN refs : refs[a].ord \in 0 .. n
    BY DEF NumbersBounded
  <1>2. PICK m \in Nat : \A s \in DOMAIN shots : shots[s].ord \in 0 .. m
    BY DEF NumbersBounded
  <1>3. ASSUME NEW s
        PROVE  /\ NextOrd(RefOrds(s)) \in Nat
               /\ \A a \in RefsOf(s) : refs[a].ord < NextOrd(RefOrds(s))
    <2>1. RefOrds(s) \subseteq 0 .. n /\ \A a \in RefsOf(s) : refs[a].ord \in RefOrds(s)
      BY <1>1 DEF RefOrds, RefsOf
    <2> QED
      BY <2>1, NextOrdIsNext
  <1>4. ASSUME NEW p
        PROVE  /\ NextOrd(ShotOrds(p)) \in Nat
               /\ \A s \in ShotsOf(p) : shots[s].ord < NextOrd(ShotOrds(p))
    <2>1. ShotOrds(p) \subseteq 0 .. m /\ \A s \in ShotsOf(p) : shots[s].ord \in ShotOrds(p)
      BY <1>2 DEF ShotOrds, ShotsOf
    <2> QED
      BY <2>1, NextOrdIsNext
  <1> QED
    BY <1>3, <1>4

LEMMA WithoutFacts ==
  ASSUME NEW f, NEW S
  PROVE  /\ DOMAIN Without(f, S) = DOMAIN f \ S
         /\ \A y \in DOMAIN f \ S : Without(f, S)[y] = f[y]
  BY DEF Without, Restrict

(* The rows of a shot leave with it, and only they. *)
LEMMA Dropped ==
  ASSUME NEW gone, DropShots(gone)
  PROVE  /\ DOMAIN shots' = DOMAIN shots \ gone
         /\ \A s \in DOMAIN shots' : shots'[s] = shots[s]
         /\ DOMAIN refs' = {a \in DOMAIN refs : refs[a].shot \notin gone}
         /\ \A a \in DOMAIN refs' : refs'[a] = refs[a]
  <1>1. /\ shots' = Without(shots, gone)
        /\ refs' = Without(refs, UNION {RefsOf(s) : s \in gone})
    BY DEF DropShots
  <1>2. \A a \in DOMAIN refs : a \in UNION {RefsOf(s) : s \in gone} <=> refs[a].shot \in gone
    BY DEF RefsOf
  <1> DEFINE bound == UNION {RefsOf(s) : s \in gone}
  <1>3. DOMAIN Without(refs, bound) = DOMAIN refs \ bound
        /\ \A a \in DOMAIN refs \ bound : Without(refs, bound)[a] = refs[a]
    BY WithoutFacts
  <1>4. DOMAIN Without(shots, gone) = DOMAIN shots \ gone
        /\ \A s \in DOMAIN shots \ gone : Without(shots, gone)[s] = shots[s]
    BY WithoutFacts
  <1>5. refs' = Without(refs, bound) /\ \A a \in DOMAIN refs : a \in bound <=> refs[a].shot \in gone
    BY <1>1, <1>2
  <1> HIDE DEF bound
  <1> QED
    BY <1>1, <1>3, <1>4, <1>5

(* One step of the library. *)
LibStep ==
    \/ EditNext \/ UploadNext \/ RemoveNext
    \/ \E t \in Tasks, s \in Shots : Generate(t, s)
    \/ UNCHANGED libVars

LEMMA LibSteps == [Next]_allVars => LibStep
  <1> SUFFICES ASSUME [Next]_allVars
               PROVE  LibStep
    OBVIOUS
  <1>1. CASE PageNext
    <2>1. CASE \E p \in Projects : PageDeletesProject(p)
      BY <2>1 DEF PageDeletesProject, LibStep, RemoveNext
    <2>2. CASE PageAsksClear
      BY <2>2 DEF PageAsksClear, LibStep, RemoveNext
    <2>3. CASE \E t \in Threads : ClearLists(t)
      BY <2>3 DEF LibStep, RemoveNext
    <2> QED
      BY <1>1, <2>1, <2>2, <2>3
      DEF PageNext, LibStep, SwitchProject, RequestRead, ListArrives, ShotsArrive, RequestFails,
          GenerateAnswered, TaskAdvances, TimerFires, PollRead, PollArrives, PollFails,
          ClearAnswered, ClearAnswerLost
  <1> QED
    BY <1>1 DEF Next, LibStep, allVars

TypeInv == LibTypeOK /\ NumbersBounded

LEMMA TypeInit == Init => TypeInv
  <1> SUFFICES ASSUME Init
               PROVE  TypeInv
    OBVIOUS
  <1> USE LibraryAssumption
  <1>1. /\ DOMAIN assets = {} /\ DOMAIN refs = {} /\ files = {} /\ clears = 0
        /\ upload = [u \in Uploads |-> None] /\ creating = [t \in Threads |-> None]
        /\ clearing = [t \in Threads |-> None] /\ raced = {} /\ lost = {} /\ stray = {}
    BY EmptyDomain DEF Init, LibInit
  <1>2. \/ DOMAIN shots = {} /\ projects = {}
        \/ projects = Projects /\ shots \in [Shots -> [project : Projects, ord : 0 .. 1]]
    BY EmptyDomain DEF Init, LibInit
  <1>3. LibTypeOK
    BY <1>1, <1>2 DEF LibTypeOK
  <1>4. 1 \in Nat /\ \A s \in DOMAIN shots : shots[s].ord \in 0 .. 1
    BY <1>2
  <1> QED
    BY <1>1, <1>3, <1>4 DEF TypeInv, NumbersBounded

(* Nothing but these rows and locals matters to the types. *)
LEMMA TypeUnchanged ==
  ASSUME TypeInv, UNCHANGED <<shots, assets, refs>>, projects \subseteq projects',
         projects' \subseteq Projects,
         UNCHANGED <<files, upload, creating, clearing, clears, raced, lost, stray>>
  PROVE  TypeInv'
  BY DEF TypeInv, LibTypeOK, NumbersBounded

LEMMA TypeDropped ==
  ASSUME TypeInv, NEW gone, DropShots(gone), projects' \subseteq projects,
         \A s \in DOMAIN shots \ gone : shots[s].project \in projects'
  PROVE  TypeInv'
  <1>1. UNCHANGED <<assets, files, upload, creating, clearing, clears, raced, lost, stray>>
    BY DEF DropShots
  <1>2. \A s \in DOMAIN shots \ gone : shots[s] \in [project : projects', ord : Nat]
    <2>1. \A s \in DOMAIN shots : shots[s] \in [project : projects, ord : Nat]
      BY DEF TypeInv, LibTypeOK
    <2> QED
      BY <2>1
  <1>3. \A a \in DOMAIN refs : refs[a].shot \notin gone =>
          refs[a] \in [shot : DOMAIN shots \ gone, kind : Kinds, ord : Nat,
                      pair : Uploads \cup {None}]
    <2>1. \A a \in DOMAIN refs :
            refs[a] \in [shot : DOMAIN shots, kind : Kinds, ord : Nat, pair : Uploads \cup {None}]
      BY DEF TypeInv, LibTypeOK
    <2> QED
      BY <2>1
  <1>4. LibTypeOK'
    <2>1. /\ DOMAIN shots' = DOMAIN shots \ gone
          /\ \A s \in DOMAIN shots' : shots'[s] = shots[s]
          /\ DOMAIN refs' = {a \in DOMAIN refs : refs[a].shot \notin gone}
          /\ \A a \in DOMAIN refs' : refs'[a] = refs[a]
      BY Dropped
    <2>2. \A s \in DOMAIN shots' : shots'[s] \in [project : projects', ord : Nat]
      BY <1>2, <2>1
    <2>3. \A a \in DOMAIN refs' :
            refs'[a] \in [shot : DOMAIN shots', kind : Kinds, ord : Nat,
                         pair : Uploads \cup {None}]
      BY <1>3, <2>1
    <2>4. projects' \subseteq Projects /\ DOMAIN shots' \subseteq Shots
          /\ DOMAIN refs' \subseteq DOMAIN assets
      BY <2>1 DEF TypeInv, LibTypeOK
    <2> QED
      BY <1>1, <2>2, <2>3, <2>4 DEF TypeInv, LibTypeOK
  <1>5. NumbersBounded'
    BY <1>1, Dropped DEF TypeInv, NumbersBounded
  <1> QED
    BY <1>4, <1>5 DEF TypeInv

LEMMA TypeEdit ==
  ASSUME TypeInv, EditNext
  PROVE  TypeInv'
  <1>1. ASSUME NEW p \in Projects, CreateProject(p)
        PROVE  TypeInv'
    BY <1>1, TypeUnchanged DEF CreateProject, TypeInv, LibTypeOK
  <1>2. ASSUME NEW t \in Threads, NEW p \in Projects, CreateShotReads(t, p)
        PROVE  TypeInv'
    <2>1. NextOrd(ShotOrds(p)) \in Nat
      BY NumbersOf DEF TypeInv
    <2>2. [project |-> p, ord |-> NextOrd(ShotOrds(p))] \in NewRow
      BY <2>1 DEF NewRow
    <2>3. creating' \in [Threads -> NewRow \cup {None}]
      BY <1>2, <2>2 DEF CreateShotReads, TypeInv, LibTypeOK
    <2> QED
      BY <1>2, <2>3 DEF CreateShotReads, TypeInv, LibTypeOK, NumbersBounded, rowVars
  <1>3. ASSUME NEW t \in Threads, NEW s \in Shots, CreateShotInserts(t, s)
        PROVE  TypeInv'
    <2>1. /\ creating[t] \in NewRow /\ creating' \in [Threads -> NewRow \cup {None}]
          /\ UNCHANGED <<projects, assets, refs, files, upload, clearing, clears, lost, stray>>
      BY <1>3 DEF CreateShotInserts, TypeInv, LibTypeOK
    <2>2. \/ UNCHANGED <<shots, raced>>
          \/ /\ shots' = With(shots, s, creating[t])
             /\ creating[t].project \in projects /\ raced' \subseteq raced \cup {s}
      BY <1>3 DEF CreateShotInserts
    <2>3. \/ UNCHANGED <<shots, raced>>
          \/ /\ DOMAIN shots' = DOMAIN shots \cup {s} /\ shots'[s] = creating[t]
             /\ \A r \in DOMAIN shots \ {s} : shots'[r] = shots[r]
             /\ creating[t] \in [project : projects, ord : Nat] /\ raced' \subseteq raced \cup {s}
      <3>1. creating[t].project \in projects => creating[t] \in [project : projects, ord : Nat]
        BY <2>1 DEF NewRow
      <3>2. /\ DOMAIN With(shots, s, creating[t]) = DOMAIN shots \cup {s}
            /\ With(shots, s, creating[t])[s] = creating[t]
            /\ \A r \in DOMAIN shots \ {s} : With(shots, s, creating[t])[r] = shots[r]
        BY DEF With
      <3> QED
        BY <2>2, <3>1, <3>2
    <2>4. LibTypeOK'
      BY <2>1, <2>3 DEF TypeInv, LibTypeOK
    <2>5. \E n \in Nat : \A r \in DOMAIN shots' : shots'[r].ord \in 0 .. n
      <3>1. PICK n \in Nat : \A r \in DOMAIN shots : shots[r].ord \in 0 .. n
        BY DEF TypeInv, NumbersBounded
      <3>2. creating[t].ord \in Nat
        BY <2>1 DEF NewRow
      <3>3. n + creating[t].ord \in Nat
        BY <3>2
      <3>4. \A r \in DOMAIN shots' : shots'[r].ord \in 0 .. n + creating[t].ord
        BY <2>3, <3>1, <3>2
      <3> QED
        BY <3>3, <3>4
    <2> QED
      BY <2>1, <2>4, <2>5 DEF TypeInv, NumbersBounded
  <1>4. ASSUME NEW s \in Shots, NEW n \in Positions, MoveShot(s, n)
        PROVE  TypeInv'
    <2>1. /\ n \in Nat /\ DOMAIN shots' = DOMAIN shots /\ s \in DOMAIN shots
          /\ shots' = [shots EXCEPT ![s].ord = n] /\ raced' = raced \cup {s}
          /\ UNCHANGED <<projects, assets, refs, files, upload, creating, clearing, clears,
                         lost, stray>>
      BY <1>4, LibraryAssumption DEF MoveShot
    <2>2. \A r \in DOMAIN shots : shots[r] \in [project : projects, ord : Nat]
      BY DEF TypeInv, LibTypeOK
    <2>3. /\ \A r \in DOMAIN shots \ {s} : shots'[r] = shots[r]
          /\ shots'[s] \in [project : projects, ord : Nat] /\ shots'[s].ord = n
      BY <2>1, <2>2
    <2>4. LibTypeOK'
      BY <2>1, <2>2, <2>3 DEF TypeInv, LibTypeOK
    <2>5. \E m \in Nat : \A r \in DOMAIN shots' : shots'[r].ord \in 0 .. m
      <3>1. PICK m \in Nat : \A r \in DOMAIN shots : shots[r].ord \in 0 .. m
        BY DEF TypeInv, NumbersBounded
      <3>2. m + n \in Nat /\ \A r \in DOMAIN shots' : shots'[r].ord \in 0 .. m + n
        BY <2>1, <2>3, <3>1
      <3> QED
        BY <3>2
    <2> QED
      BY <2>1, <2>4, <2>5 DEF TypeInv, NumbersBounded
  <1> QED
    BY <1>1, <1>2, <1>3, <1>4 DEF EditNext

(* What an upload under way holds. *)
LEMMA LocalsOf ==
  ASSUME LibTypeOK, NEW u \in Uploads, upload[u] # None
  PROVE  /\ upload[u] \in UploadLocals
         /\ upload[u].kind \in Kinds /\ upload[u].shot \in Shots \cup {None}
         /\ upload[u].pair \in Uploads \cup {None} /\ upload[u].seconds \in Lengths \cup {None}
  <1>1. upload[u] \in UploadLocals
    BY DEF LibTypeOK
  <1> QED
    BY <1>1 DEF UploadLocals

LEMMA TypeUpload ==
  ASSUME TypeInv, AudioInv, UploadNext
  PROVE  TypeInv'
  <1>1. ASSUME NEW u \in Uploads, NEW k \in Kinds, NEW s \in Shots \cup {None},
               NEW pair \in Uploads \cup {None}, UploadStored(u, k, s, pair)
        PROVE  TypeInv'
    <2> DEFINE up == [kind |-> k, shot |-> s, pair |-> pair, seconds |-> None,
                      probed |-> k = "image"]
    <2>1. up \in UploadLocals
      BY DEF UploadLocals
    <2>2. upload' = [upload EXCEPT ![u] = up] /\ files' = files \cup {u}
          /\ lost' \subseteq lost \cup {u}
          /\ UNCHANGED <<projects, shots, assets, refs, creating, clearing, clears, raced, stray>>
      BY <1>1 DEF UploadStored, rowVars
    <2> HIDE DEF up
    <2>3. upload' \in [Uploads -> UploadLocals \cup {None}]
      BY <2>1, <2>2 DEF TypeInv, LibTypeOK
    <2> QED
      BY <2>2, <2>3 DEF TypeInv, LibTypeOK, NumbersBounded
  <1>2. ASSUME NEW u \in Uploads, NEW seconds \in Lengths \cup {None}, UploadProbed(u, seconds)
        PROVE  TypeInv'
    <2>1. /\ UNCHANGED <<projects, shots, assets, refs, creating, clearing, clears, raced, lost,
                         stray>>
          /\ upload[u] # None /\ files' \subseteq files
          /\ \/ upload' = [upload EXCEPT ![u] = None]
             \/ upload' = [upload EXCEPT ![u].seconds = seconds, ![u].probed = TRUE]
      BY <1>2 DEF UploadProbed, Refuse, rowVars
    <2>2. upload' \in [Uploads -> UploadLocals \cup {None}]
      <3>1. upload[u] \in UploadLocals
        BY <2>1, LocalsOf DEF TypeInv
      <3>2. [upload[u] EXCEPT !.seconds = seconds, !.probed = TRUE] \in UploadLocals
        BY <3>1 DEF UploadLocals
      <3> QED
        BY <2>1, <3>2 DEF TypeInv, LibTypeOK
    <2> QED
      BY <2>1, <2>2 DEF TypeInv, LibTypeOK, NumbersBounded
  <1>3. ASSUME NEW u \in Uploads, UploadInserted(u)
        PROVE  TypeInv'
    <2> DEFINE up    == upload[u]
               asset == [kind |-> up.kind, seconds |-> up.seconds]
               row   == [shot |-> up.shot, kind |-> up.kind, ord |-> NextOrd(RefOrds(up.shot)),
                         pair |-> up.pair]
    <2>1. /\ upload[u] # None
          /\ UNCHANGED <<projects, shots, creating, clearing, clears, raced, lost>>
          /\ files' \subseteq files /\ stray' \subseteq stray \cup {u}
          /\ upload' = [upload EXCEPT ![u] = None]
      BY <1>3 DEF UploadInserted, Refuse
    <2>2. /\ UNCHANGED assets \/ assets' = With(assets, u, asset)
          /\ \/ UNCHANGED refs
             \/ /\ up.shot \in DOMAIN shots
                /\ assets' = With(assets, u, asset) /\ refs' = With(refs, u, row)
      BY <1>3 DEF UploadInserted
    <2>3. up.kind \in Kinds /\ up.pair \in Uploads \cup {None}
          /\ up.seconds \in Lengths \cup {None} /\ NextOrd(RefOrds(up.shot)) \in Nat
      BY <2>1, LocalsOf, NumbersOf DEF TypeInv
    <2>4. asset \in [kind : Kinds, seconds : Lengths \cup {None}]
      BY <2>3
    <2>5. up.shot \in DOMAIN shots =>
            row \in [shot : DOMAIN shots, kind : Kinds, ord : Nat, pair : Uploads \cup {None}]
      BY <2>3
    <2>6. row.ord = NextOrd(RefOrds(up.shot))
      OBVIOUS
    <2> HIDE DEF asset, row
    <2>7. /\ DOMAIN assets \subseteq DOMAIN assets' /\ DOMAIN assets' \subseteq DOMAIN assets \cup {u}
          /\ \A a \in DOMAIN assets' :
               assets'[a] \in [kind : Kinds, seconds : Lengths \cup {None}]
      BY <2>2, <2>4 DEF With, TypeInv, LibTypeOK
    <2>8. /\ DOMAIN refs' \subseteq DOMAIN assets'
          /\ \A a \in DOMAIN refs' :
               refs'[a] \in [shot : DOMAIN shots, kind : Kinds, ord : Nat,
                             pair : Uploads \cup {None}]
      <3>1. CASE UNCHANGED refs
        BY <2>7, <3>1 DEF TypeInv, LibTypeOK
      <3>2. CASE /\ up.shot \in DOMAIN shots
                 /\ assets' = With(assets, u, asset) /\ refs' = With(refs, u, row)
        BY <2>5, <3>2 DEF With, TypeInv, LibTypeOK
      <3> QED
        BY <2>2, <3>1, <3>2
    <2>9. upload' \in [Uploads -> UploadLocals \cup {None}]
      BY <2>1 DEF TypeInv, LibTypeOK
    <2>10. LibTypeOK'
      BY <2>1, <2>7, <2>8, <2>9 DEF TypeInv, LibTypeOK
    <2>11. \E n \in Nat : \A a \in DOMAIN refs' : refs'[a].ord \in 0 .. n
      <3>1. PICK n \in Nat : \A a \in DOMAIN refs : refs[a].ord \in 0 .. n
        BY DEF TypeInv, NumbersBounded
      <3>2. row.ord \in Nat /\ n + row.ord \in Nat
        BY <2>3, <2>6
      <3>3. \A a \in DOMAIN refs' : refs'[a].ord \in 0 .. n + row.ord
        BY <2>2, <3>1, <3>2 DEF With
      <3> QED
        BY <3>2, <3>3
    <2> QED
      BY <2>1, <2>10, <2>11 DEF TypeInv, NumbersBounded
  <1>4. ASSUME NEW u \in Uploads, UploadFails(u)
        PROVE  TypeInv'
    BY <1>4 DEF UploadFails, rowVars, TypeInv, LibTypeOK, NumbersBounded
  <1> QED
    BY <1>1, <1>2, <1>3, <1>4 DEF UploadNext

LEMMA TypeRemove ==
  ASSUME TypeInv, RemoveNext
  PROVE  TypeInv'
  <1>1. ASSUME NEW p \in Projects, DeleteProject(p)
        PROVE  TypeInv'
    <2>1. \A s \in DOMAIN shots \ ShotsOf(p) : shots[s].project \in projects \ {p}
      BY DEF ShotsOf, TypeInv, LibTypeOK
    <2> QED
      BY <1>1, <2>1, TypeDropped DEF DeleteProject
  <1>2. ASSUME NEW s \in Shots, DeleteShot(s)
        PROVE  TypeInv'
    <2>1. \A r \in DOMAIN shots \ {s} : shots[r].project \in projects
      BY DEF TypeInv, LibTypeOK
    <2> QED
      BY <1>2, <2>1, TypeDropped DEF DeleteShot
  <1>3. ASSUME NEW t \in Threads, NEW keep \in BOOLEAN, ClearRows(t, keep)
        PROVE  TypeInv'
    <2>1. /\ projects' = {} /\ DOMAIN shots' = {} /\ DOMAIN assets' = {} /\ DOMAIN refs' = {}
          /\ clears' \in 0 .. MaxClears /\ stray' \subseteq stray \cup files
          /\ lost' \subseteq lost \cup Uploads
          /\ UNCHANGED <<files, upload, creating, raced>>
      BY <1>3, EmptyDomain, LibraryAssumption DEF ClearRows, TypeInv, LibTypeOK
    <2>2. clearing' \in [Threads -> ClearLocals \cup {None}]
      BY <1>3 DEF ClearRows, ClearLocals, TypeInv, LibTypeOK
    <2>3. LibTypeOK'
      BY <2>1, <2>2 DEF TypeInv, LibTypeOK
    <2> QED
      BY <2>1, <2>3 DEF TypeInv, NumbersBounded
  <1>4. ASSUME NEW t \in Threads, ClearLists(t)
        PROVE  TypeInv'
    <2>1. clearing' \in [Threads -> ClearLocals \cup {None}]
      BY <1>4 DEF ClearLists, ClearLocals, TypeInv, LibTypeOK
    <2> QED
      BY <1>4, <2>1 DEF ClearLists, rowVars, TypeInv, LibTypeOK, NumbersBounded
  <1>5. ASSUME NEW t \in Threads, NEW f \in Uploads, ClearUnlinks(t, f)
        PROVE  TypeInv'
    <2>1. clearing[t] \in ClearLocals
      BY <1>5 DEF ClearUnlinks, TypeInv, LibTypeOK
    <2>2. [clearing[t] EXCEPT !.left = @ \ {f}] \in ClearLocals
      BY <2>1 DEF ClearLocals
    <2>3. clearing' \in [Threads -> ClearLocals \cup {None}]
      <3> DEFINE row == [clearing[t] EXCEPT !.left = @ \ {f}]
      <3>1. clearing' = [clearing EXCEPT ![t] = IF clearing[t].left = {f} THEN None ELSE row]
        BY <1>5 DEF ClearUnlinks
      <3>2. row \in ClearLocals
        BY <2>2
      <3> HIDE DEF row
      <3> QED
        BY <3>1, <3>2 DEF TypeInv, LibTypeOK
    <2> QED
      BY <1>5, <2>3 DEF ClearUnlinks, rowVars, TypeInv, LibTypeOK, NumbersBounded
  <1>6. CASE Restart
    BY <1>6 DEF Restart, rowVars, TypeInv, LibTypeOK, NumbersBounded
  <1> QED
    BY <1>1, <1>2, <1>3, <1>4, <1>5, <1>6 DEF RemoveNext

LEMMA TypeStep == TypeInv /\ AudioInv /\ [Next]_allVars => TypeInv'
  <1> SUFFICES ASSUME TypeInv, AudioInv, LibStep
               PROVE  TypeInv'
    BY LibSteps
  <1>1. ASSUME NEW t \in Tasks, NEW s \in Shots, Generate(t, s)
        PROVE  TypeInv'
    BY <1>1 DEF Generate, rowVars, TypeInv, LibTypeOK, NumbersBounded
  <1>2. CASE UNCHANGED libVars
    BY <1>2 DEF libVars, rowVars, TypeInv, LibTypeOK, NumbersBounded
  <1> QED
    BY <1>1, <1>2, TypeEdit, TypeUpload, TypeRemove DEF LibStep

-----------------------------------------------------------------------------
(* Orders.  A new number is above all the others, because they are bounded. *)

LEMMA OrderInit == Init => OrderIsTotal
  <1> SUFFICES ASSUME Init
               PROVE  OrderIsTotal
    OBVIOUS
  <1>1. DOMAIN refs = {}
    BY EmptyDomain DEF Init, LibInit
  <1>2. CASE DOMAIN shots = {}
    BY <1>1, <1>2 DEF OrderIsTotal
  <1>3. CASE /\ shots \in [Shots -> [project : Projects, ord : 0 .. 1]]
             /\ \A p \in Projects : ShotOrds(p) = 0 .. Cardinality(ShotsOf(p)) - 1
    <2>1. ASSUME NEW s \in Shots, NEW t \in Shots, s # t, shots[s].project = shots[t].project
          PROVE  shots[s].ord # shots[t].ord
      <3> DEFINE p == shots[s].project
                 n == Cardinality(ShotsOf(p))
                 f == [r \in ShotsOf(p) |-> shots[r].ord]
      <3>1. p \in Projects /\ ShotsOf(p) \subseteq Shots /\ s \in ShotsOf(p) /\ t \in ShotsOf(p)
        BY <1>3, <2>1 DEF ShotsOf
      <3>2. IsFiniteSet(ShotsOf(p)) /\ n \in Nat
        BY <3>1, FS_Subset, FS_CardinalityType, LibraryAssumption
      <3>3. ShotOrds(p) = 0 .. n - 1
        BY <1>3, <3>1
      <3>4. Cardinality(0 .. n - 1) = n
        <4>1. 0 \in Int /\ n - 1 \in Int
          BY <3>2
        <4>2. Cardinality(0 .. n - 1) = IF 0 > n - 1 THEN 0 ELSE (n - 1) - 0 + 1
          BY <4>1, FS_Interval
        <4> HIDE DEF n
        <4> QED
          BY <3>2, <4>2
      <3>5. f \in Surjection(ShotsOf(p), ShotOrds(p))
        BY DEF Surjection, ShotOrds
      <3> HIDE DEF f, n
      <3>6. Cardinality(ShotsOf(p)) = Cardinality(ShotOrds(p))
        BY <3>3, <3>4 DEF n
      <3>7. f \in Injection(ShotsOf(p), ShotOrds(p))
        BY <3>2, <3>5, <3>6, FS_SurjSameCardinalityImpliesInj
      <3>8. f[s] # f[t]
        BY <2>1, <3>1, <3>7 DEF Injection, IsInjective
      <3> QED
        BY <3>1, <3>8 DEF f
    <2> QED
      BY <1>1, <1>3, <2>1 DEF OrderIsTotal
  <1> QED
    BY <1>2, <1>3, EmptyDomain DEF Init, LibInit

LEMMA OrderUnchanged ==
  ASSUME OrderIsTotal, UNCHANGED <<shots, refs>>, raced \subseteq raced'
  PROVE  OrderIsTotal'
  BY DEF OrderIsTotal

LEMMA OrderDropped ==
  ASSUME OrderIsTotal, NEW gone, DropShots(gone)
  PROVE  OrderIsTotal'
  <1>1. /\ DOMAIN shots' = DOMAIN shots \ gone
        /\ \A s \in DOMAIN shots' : shots'[s] = shots[s]
        /\ DOMAIN refs' \subseteq DOMAIN refs
        /\ \A a \in DOMAIN refs' : refs'[a] = refs[a]
        /\ raced' = raced
    BY Dropped DEF DropShots
  <1> QED
    BY <1>1 DEF OrderIsTotal

LEMMA OrderStep == OrderIsTotal /\ TypeInv /\ AudioInv /\ [Next]_allVars => OrderIsTotal'
  <1> SUFFICES ASSUME OrderIsTotal, TypeInv, AudioInv, LibStep
               PROVE  OrderIsTotal'
    BY LibSteps
  <1>1. ASSUME NEW t \in Threads, NEW s \in Shots, CreateShotInserts(t, s)
        PROVE  OrderIsTotal'
    <2> DEFINE row == creating[t]
    <2>1. UNCHANGED refs /\ s \notin DOMAIN shots
      BY <1>1 DEF CreateShotInserts, AudioInv, RowsKnown
    <2>2. CASE UNCHANGED <<shots, raced>>
      BY <2>1, <2>2, OrderUnchanged
    <2>3. CASE /\ shots' = With(shots, s, row)
               /\ raced' = IF row.ord = NextOrd(ShotOrds(row.project)) THEN raced
                           ELSE raced \cup {s}
      <3>1. /\ DOMAIN shots' = DOMAIN shots \cup {s} /\ shots'[s] = row
            /\ \A r \in DOMAIN shots : shots'[r] = shots[r]
        BY <2>1, <2>3 DEF With
      <3>2. raced \subseteq raced' /\ (s \notin raced' => row.ord = NextOrd(ShotOrds(row.project)))
        BY <2>3
      <3>3. \A r \in DOMAIN shots : shots[r].project = row.project /\ s \notin raced' =>
              shots[r].ord # row.ord
        <4>1. ASSUME NEW r \in DOMAIN shots, shots[r].project = row.project, s \notin raced'
              PROVE  shots[r].ord # row.ord
          <5>1. r \in ShotsOf(row.project)
            BY <4>1 DEF ShotsOf
          <5>2. shots[r].ord < NextOrd(ShotOrds(row.project))
            BY <5>1, NumbersOf DEF TypeInv
          <5>3. shots[r].ord \in Nat /\ NextOrd(ShotOrds(row.project)) \in Nat
            BY NumbersOf DEF TypeInv, LibTypeOK
          <5> QED
            BY <3>2, <4>1, <5>2, <5>3
        <4> QED
          BY <4>1
      <3> HIDE DEF row
      <3> QED
        BY <2>1, <3>1, <3>2, <3>3 DEF OrderIsTotal
    <2> QED
      BY <1>1, <2>2, <2>3 DEF CreateShotInserts
  <1>2. ASSUME NEW s \in Shots, NEW n \in Positions, MoveShot(s, n)
        PROVE  OrderIsTotal'
    <2>1. /\ UNCHANGED refs /\ DOMAIN shots' = DOMAIN shots /\ raced' = raced \cup {s}
          /\ \A r \in DOMAIN shots \ {s} : shots'[r] = shots[r]
      BY <1>2 DEF MoveShot
    <2> QED
      BY <2>1 DEF OrderIsTotal
  <1>3. ASSUME NEW u \in Uploads, UploadInserted(u)
        PROVE  OrderIsTotal'
    <2> DEFINE up    == upload[u]
               row   == [shot |-> up.shot, kind |-> up.kind, ord |-> NextOrd(RefOrds(up.shot)),
                         pair |-> up.pair]
    <2>1. UNCHANGED <<shots, raced>> /\ (UNCHANGED refs \/ refs' = With(refs, u, row))
      BY <1>3 DEF UploadInserted
    <2>2. u \notin DOMAIN refs
      BY <1>3 DEF UploadInserted, AudioInv, UploadSound, RowsKnown
    <2>3. row.shot = up.shot /\ row.ord = NextOrd(RefOrds(up.shot))
      OBVIOUS
    <2> HIDE DEF row
    <2>4. \A a \in DOMAIN refs : refs[a].shot = up.shot => refs[a].ord # row.ord
      <3>1. ASSUME NEW a \in DOMAIN refs, refs[a].shot = up.shot
            PROVE  refs[a].ord # row.ord
        <4>1. a \in RefsOf(up.shot)
          BY <3>1 DEF RefsOf
        <4>2. refs[a].ord < NextOrd(RefOrds(up.shot)) /\ NextOrd(RefOrds(up.shot)) \in Nat
          BY <4>1, NumbersOf DEF TypeInv
        <4>3. refs[a].ord \in Nat
          BY DEF TypeInv, LibTypeOK
        <4> QED
          BY <2>3, <4>2, <4>3
      <3> QED
        BY <3>1
    <2>5. CASE refs' = With(refs, u, row)
      <3>1. /\ DOMAIN refs' = DOMAIN refs \cup {u} /\ refs'[u] = row
            /\ \A a \in DOMAIN refs : refs'[a] = refs[a]
        BY <2>2, <2>5 DEF With
      <3> QED
        BY <2>1, <2>2, <2>3, <2>4, <3>1 DEF OrderIsTotal
    <2> QED
      BY <2>1, <2>5, OrderUnchanged
  <1>4. ASSUME NEW t \in Threads, NEW keep \in BOOLEAN, ClearRows(t, keep)
        PROVE  OrderIsTotal'
    BY <1>4, EmptyDomain DEF ClearRows, OrderIsTotal
  <1>5. CASE EditNext
    BY <1>1, <1>2, <1>5, OrderUnchanged
    DEF EditNext, CreateProject, CreateShotReads, rowVars
  <1>6. CASE UploadNext
    BY <1>3, <1>6, OrderUnchanged DEF UploadNext, UploadStored, UploadProbed, UploadFails, rowVars
  <1>7. CASE RemoveNext
    BY <1>4, <1>7, OrderUnchanged, OrderDropped
    DEF RemoveNext, DeleteProject, DeleteShot, ClearLists, ClearUnlinks, Restart, rowVars
  <1>8. ASSUME NEW t \in Tasks, NEW s \in Shots, Generate(t, s)
        PROVE  OrderIsTotal'
    BY <1>8, OrderUnchanged DEF Generate, rowVars
  <1>9. CASE UNCHANGED libVars
    BY <1>9, OrderUnchanged DEF libVars, rowVars
  <1> QED
    BY <1>5, <1>6, <1>7, <1>8, <1>9 DEF LibStep

-----------------------------------------------------------------------------
(* Files.  While a clear is under way every upload it meets is on record as *)
(* one that may lose its file, and a file without a row is still listed.   *)

InFlight == {u \in Uploads : upload[u] # None}

SweptBy(t, f) == clearing[t] # None /\ (~clearing[t].listed \/ f \in clearing[t].left)
Swept(f) == \E t \in Threads : SweptBy(t, f)

FilesInv ==
    /\ DOMAIN assets \cup InFlight \subseteq files \cup lost
    /\ Clearing => DOMAIN assets \cup InFlight \subseteq lost
    /\ \A t \in Threads : clearing[t] # None /\ ~clearing[t].listed => clearing[t].left = {}
    /\ \A f \in files : f \in DOMAIN assets \cup stray \cup InFlight \/ Swept(f)

LEMMA FilesInit == Init => FilesInv
  BY EmptyDomain DEF Init, LibInit, FilesInv, InFlight, Clearing

LEMMA FilesStep == FilesInv /\ TypeInv /\ AudioInv /\ [Next]_allVars => FilesInv'
  <1> SUFFICES ASSUME FilesInv, TypeInv, AudioInv, LibStep
               PROVE  FilesInv'
    BY LibSteps
  <1>0. ASSUME UNCHANGED <<assets, files, upload, clearing, lost, stray>>
        PROVE  FilesInv'
    BY <1>0 DEF FilesInv, InFlight, Swept, SweptBy, Clearing
  <1>1. ASSUME NEW u \in Uploads, NEW k \in Kinds, NEW s \in Shots \cup {None},
               NEW pair \in Uploads \cup {None}, UploadStored(u, k, s, pair)
        PROVE  FilesInv'
    <2> DEFINE up == [kind |-> k, shot |-> s, pair |-> pair, seconds |-> None,
                      probed |-> k = "image"]
    <2>1. up # None
      <3>1. up \in UploadLocals
        BY DEF UploadLocals
      <3> QED
        BY <3>1, LibraryAssumption
    <2>2. /\ upload' = [upload EXCEPT ![u] = up] /\ files' = files \cup {u}
          /\ lost' = IF Clearing THEN lost \cup {u} ELSE lost
          /\ UNCHANGED <<assets, clearing, stray>>
      BY <1>1 DEF UploadStored, rowVars
    <2> HIDE DEF up
    <2>3. InFlight' = InFlight \cup {u}
      BY <2>1, <2>2 DEF InFlight, TypeInv, LibTypeOK
    <2> QED
      BY <2>2, <2>3 DEF FilesInv, Swept, SweptBy, Clearing
  <1>2. ASSUME NEW u \in Uploads, upload[u] # None, upload' = [upload EXCEPT ![u] = None],
               files' = files \ {u}, UNCHANGED <<assets, clearing, lost, stray>>
        PROVE  FilesInv'
    <2>1. InFlight' = InFlight \ {u}
      BY <1>2 DEF InFlight, TypeInv, LibTypeOK
    <2>2. u \notin DOMAIN assets
      BY <1>2 DEF AudioInv, UploadSound
    <2> QED
      BY <1>2, <2>1, <2>2 DEF FilesInv, Swept, SweptBy, Clearing
  <1>3. ASSUME NEW u \in Uploads, NEW seconds \in Lengths \cup {None}, UploadProbed(u, seconds)
        PROVE  FilesInv'
    <2>1. CASE upload' = [upload EXCEPT ![u].seconds = seconds, ![u].probed = TRUE]
               /\ UNCHANGED files
      <3>1. upload[u] # None /\ UNCHANGED <<assets, clearing, lost, stray>>
        BY <1>3 DEF UploadProbed, rowVars
      <3>2. [upload[u] EXCEPT !.seconds = seconds, !.probed = TRUE] \in UploadLocals
        BY <3>1, LocalsOf DEF UploadLocals, TypeInv
      <3>3. upload' = [upload EXCEPT ![u] = [upload[u] EXCEPT !.seconds = seconds, !.probed = TRUE]]
        BY <2>1
      <3>4. InFlight' = InFlight
        BY <3>1, <3>2, <3>3, LibraryAssumption DEF InFlight, TypeInv, LibTypeOK
      <3> QED
        BY <2>1, <3>1, <3>4 DEF FilesInv, Swept, SweptBy, Clearing
    <2>2. CASE Refuse(u)
      BY <1>2, <1>3, <2>2 DEF UploadProbed, Refuse, rowVars
    <2> QED
      BY <1>3, <2>1, <2>2 DEF UploadProbed
  <1>4. ASSUME NEW u \in Uploads, UploadInserted(u)
        PROVE  FilesInv'
    <2>1. upload[u] # None /\ UNCHANGED <<clearing, lost>>
      BY <1>4 DEF UploadInserted
    <2>2. CASE Refuse(u) /\ UNCHANGED <<assets, stray>>
      BY <1>2, <2>1, <2>2 DEF Refuse
    <2>3. CASE /\ upload' = [upload EXCEPT ![u] = None]
               /\ UNCHANGED files
               /\ \/ DOMAIN assets' = DOMAIN assets \cup {u} /\ UNCHANGED stray
                  \/ UNCHANGED assets /\ stray' = stray \cup {u}
      <3>1. InFlight' = InFlight \ {u} /\ u \in InFlight
        BY <2>1, <2>3 DEF InFlight, TypeInv, LibTypeOK
      <3> QED
        BY <2>1, <2>3, <3>1 DEF FilesInv, Swept, SweptBy, Clearing
    <2> QED
      BY <1>4, <2>2, <2>3 DEF UploadInserted, With
  <1>5. ASSUME NEW t \in Threads, NEW keep \in BOOLEAN, ClearRows(t, keep)
        PROVE  FilesInv'
    <2> DEFINE row == [listed |-> FALSE, left |-> {}]
    <2>1. /\ DOMAIN assets' = {} /\ clearing[t] = None /\ UNCHANGED <<files, upload>>
          /\ clearing' = IF keep THEN clearing ELSE [clearing EXCEPT ![t] = row]
          /\ stray' = IF keep THEN stray \cup files ELSE stray
          /\ lost' = IF keep THEN lost ELSE lost \cup InFlight
      BY <1>5, EmptyDomain DEF ClearRows, InFlight
    <2>2. InFlight' = InFlight
      BY <2>1 DEF InFlight
    <2>3. CASE keep
      <3>1. clearing' = clearing /\ stray' = stray \cup files /\ lost' = lost
        BY <2>1, <2>3
      <3> QED
        BY <2>1, <2>2, <3>1 DEF FilesInv, Clearing
    <2>4. CASE ~keep
      <3>1. clearing' = [clearing EXCEPT ![t] = row] /\ lost' = lost \cup InFlight
        BY <2>1, <2>4
      <3>2. row \in ClearLocals /\ row.listed = FALSE /\ row.left = {}
        BY DEF ClearLocals
      <3> HIDE DEF row
      <3>3. /\ clearing'[t] = row /\ row # None
            /\ \A r \in Threads \ {t} : clearing'[r] = clearing[r]
        BY <3>1, <3>2, LibraryAssumption DEF TypeInv, LibTypeOK
      <3>4. \A f : Swept(f)'
        BY <3>2, <3>3 DEF Swept, SweptBy
      <3>5. \A r \in Threads : clearing'[r] # None /\ ~clearing'[r].listed
                                => clearing'[r].left = {}
        BY <3>2, <3>3 DEF FilesInv
      <3> QED
        BY <2>1, <2>2, <3>1, <3>4, <3>5 DEF FilesInv
    <2> QED
      BY <2>3, <2>4
  <1>6. ASSUME NEW t \in Threads, ClearLists(t)
        PROVE  FilesInv'
    <2> DEFINE row == [listed |-> TRUE, left |-> files]
    <2>1. /\ clearing[t] # None /\ UNCHANGED <<assets, files, upload, lost, stray>>
          /\ clearing' = [clearing EXCEPT ![t] = IF files = {} THEN None ELSE row]
      BY <1>6 DEF ClearLists, rowVars
    <2>2. files \in SUBSET Uploads
      BY DEF TypeInv, LibTypeOK
    <2>3. row \in ClearLocals /\ row.listed = TRUE /\ row.left = files
      BY <2>2 DEF ClearLocals
    <2> HIDE DEF row
    <2>4. /\ clearing'[t] = IF files = {} THEN None ELSE row
          /\ row # None
          /\ \A r \in Threads \ {t} : clearing'[r] = clearing[r]
      BY <2>1, <2>3, LibraryAssumption DEF TypeInv, LibTypeOK
    <2>5. InFlight' = InFlight
      BY <2>1 DEF InFlight
    <2>6. \A f \in files : Swept(f)'
      BY <2>3, <2>4 DEF Swept, SweptBy
    <2>7. \A r \in Threads : clearing'[r] # None /\ ~clearing'[r].listed => clearing'[r].left = {}
      BY <2>3, <2>4 DEF FilesInv
    <2>8. Clearing
      BY <2>1 DEF Clearing
    <2> QED
      BY <2>1, <2>5, <2>6, <2>7, <2>8 DEF FilesInv
  <1>7. ASSUME NEW t \in Threads, NEW f \in Uploads, ClearUnlinks(t, f)
        PROVE  FilesInv'
    <2> DEFINE row == [clearing[t] EXCEPT !.left = @ \ {f}]
    <2>1. /\ clearing[t] # None /\ f \in clearing[t].left /\ UNCHANGED <<assets, upload, lost>>
          /\ \/ files' = files \ {f} /\ UNCHANGED stray
             \/ UNCHANGED files /\ stray' = stray \cup {f}
          /\ clearing' = [clearing EXCEPT ![t] = IF clearing[t].left = {f} THEN None ELSE row]
      BY <1>7 DEF ClearUnlinks, rowVars
    <2>2. clearing[t] \in ClearLocals /\ clearing[t].listed = TRUE
      <3>1. clearing[t] \in ClearLocals
        BY <2>1 DEF TypeInv, LibTypeOK
      <3>2. clearing[t].listed \in BOOLEAN
        BY <3>1 DEF ClearLocals
      <3>3. clearing[t].listed
        BY <2>1 DEF FilesInv
      <3> QED
        BY <3>1, <3>2, <3>3
    <2>3. row \in ClearLocals /\ row.listed = TRUE /\ row.left = clearing[t].left \ {f}
      BY <2>2 DEF ClearLocals
    <2> HIDE DEF row
    <2>4. /\ clearing'[t] = IF clearing[t].left = {f} THEN None ELSE row
          /\ row # None
          /\ \A r \in Threads \ {t} : clearing'[r] = clearing[r]
      BY <2>1, <2>3, LibraryAssumption DEF TypeInv, LibTypeOK
    <2>5. InFlight' = InFlight
      BY <2>1 DEF InFlight
    <2>6. DOMAIN assets \cup InFlight \subseteq lost
      BY <2>1 DEF FilesInv, Clearing
    <2>7. ASSUME NEW g \in files', g \notin DOMAIN assets \cup stray' \cup InFlight
          PROVE  Swept(g)'
      <3>1. g \in files /\ g # f /\ g \notin stray
        BY <2>1, <2>7
      <3>2. PICK r \in Threads : SweptBy(r, g)
        BY <2>7, <3>1 DEF FilesInv, Swept
      <3>3. CASE r = t
        <4>1. g \in clearing[t].left
          BY <2>2, <3>2, <3>3 DEF SweptBy
        <4>2. clearing'[t] = row /\ g \in row.left
          BY <2>3, <2>4, <3>1, <4>1
        <4> QED
          BY <2>4, <4>2 DEF Swept, SweptBy
      <3>4. CASE r # t
        BY <2>4, <3>2, <3>4 DEF Swept, SweptBy
      <3> QED
        BY <3>3, <3>4
    <2>8. \A r \in Threads : clearing'[r] # None /\ ~clearing'[r].listed => clearing'[r].left = {}
      BY <2>3, <2>4 DEF FilesInv
    <2> QED
      BY <2>1, <2>5, <2>6, <2>7, <2>8 DEF FilesInv
  <1>13. ASSUME NEW u \in Uploads, UploadFails(u)
         PROVE  FilesInv'
    <2>1. /\ upload[u] # None /\ upload' = [upload EXCEPT ![u] = None]
          /\ stray' = stray \cup ({u} \cap files)
          /\ UNCHANGED <<assets, files, clearing, lost>>
      BY <1>13 DEF UploadFails, rowVars
    <2>2. InFlight' = InFlight \ {u}
      BY <2>1 DEF InFlight, TypeInv, LibTypeOK
    <2> QED
      BY <2>1, <2>2 DEF FilesInv, Swept, SweptBy, Clearing
  <1>14. CASE Restart
    <2>1. /\ upload' = [u \in Uploads |-> None] /\ clearing' = [t \in Threads |-> None]
          /\ stray' = stray \cup (files \ DOMAIN assets)
          /\ UNCHANGED <<assets, files, lost>>
      BY <1>14 DEF Restart, rowVars
    <2>2. InFlight' = {}
      BY <2>1 DEF InFlight
    <2> QED
      BY <2>1, <2>2 DEF FilesInv, Clearing
  <1>8. CASE EditNext
    BY <1>0, <1>8 DEF EditNext, CreateProject, CreateShotReads, CreateShotInserts, MoveShot, rowVars
  <1>9. CASE UploadNext
    BY <1>1, <1>3, <1>4, <1>9, <1>13 DEF UploadNext
  <1>10. CASE RemoveNext
    BY <1>0, <1>5, <1>6, <1>7, <1>10, <1>14 DEF RemoveNext, DeleteProject, DeleteShot, DropShots
  <1>11. ASSUME NEW t \in Tasks, NEW s \in Shots, Generate(t, s)
         PROVE  FilesInv'
    BY <1>0, <1>11 DEF Generate, rowVars
  <1>12. CASE UNCHANGED libVars
    BY <1>0, <1>12 DEF libVars, rowVars
  <1> QED
    BY <1>8, <1>9, <1>10, <1>11, <1>12 DEF LibStep

-----------------------------------------------------------------------------
(* Limits.  One upload at a time is under way, and its shot still has room *)
(* for it: the threads only take references away.                          *)

KnownOf(s, k) == {a \in RefsOfKind(s, k) : assets[a].seconds # None}

WithinLimits(s) ==
    /\ Cardinality(RefsOf(s)) <= MaxRefs
    /\ \A k \in Kinds : Cardinality(RefsOfKind(s, k)) <= MaxCount[k]
    /\ \A k \in {"video", "audio"} : KnownSeconds(s, k) <= MaxSeconds

RoomFor(up) ==
    up.shot \in DOMAIN shots =>
        /\ Cardinality(RefsOf(up.shot)) < MaxRefs
        /\ Cardinality(RefsOfKind(up.shot, up.kind)) < MaxCount[up.kind]
        /\ up.seconds # None => up.seconds + KnownSeconds(up.shot, up.kind) <= MaxSeconds

LimitInv ==
    /\ IsFiniteSet(DOMAIN refs)
    /\ \A u, v \in InFlight : u = v
    /\ \A u \in InFlight : RoomFor(upload[u])
    /\ \A s \in DOMAIN shots : WithinLimits(s)

LEMMA Limits == LimitsHold <=> \A s \in DOMAIN shots : WithinLimits(s)
  BY DEF LimitsHold, WithinLimits

LEMMA RefsFinite ==
  ASSUME IsFiniteSet(DOMAIN refs)
  PROVE  \A s : /\ IsFiniteSet(RefsOf(s)) /\ Cardinality(RefsOf(s)) \in Nat
                /\ \A k : /\ IsFiniteSet(RefsOfKind(s, k)) /\ IsFiniteSet(KnownOf(s, k))
                          /\ Cardinality(RefsOfKind(s, k)) \in Nat
  <1>1. \A s : RefsOf(s) \subseteq DOMAIN refs
    BY DEF RefsOf
  <1>2. \A s, k : RefsOfKind(s, k) \subseteq DOMAIN refs /\ KnownOf(s, k) \subseteq DOMAIN refs
    BY <1>1 DEF RefsOfKind, KnownOf
  <1>3. \A S \in SUBSET DOMAIN refs : IsFiniteSet(S) /\ Cardinality(S) \in Nat
    BY FS_Subset, FS_CardinalityType
  <1> QED
    BY <1>1, <1>2, <1>3

(* A shot without references is within its limits. *)
LEMMA BareShot ==
  ASSUME NEW s, RefsOf(s) = {}
  PROVE  WithinLimits(s)
  <1>1. Cardinality({}) = 0 /\ \A k : RefsOfKind(s, k) = {}
    BY FS_EmptySet DEF RefsOfKind
  <1>2. ASSUME NEW k
        PROVE  KnownSeconds(s, k) = 0
    <2> DEFINE f == [a \in {b \in RefsOfKind(s, k) : assets[b].seconds # None} |->
                      assets[a].seconds]
    <2>1. DOMAIN f = {}
      BY <1>1
    <2>2. KnownSeconds(s, k) = SumFunction(f)
      BY DEF KnownSeconds
    <2> HIDE DEF f
    <2> QED
      BY <2>1, <2>2, SumOfNone
  <1>3. 0 <= MaxRefs /\ 0 <= MaxSeconds /\ \A k \in Kinds : 0 <= MaxCount[k]
    BY LibraryAssumption
  <1> QED
    BY <1>1, <1>2, <1>3 DEF WithinLimits

(* The same references with the same assets last as long. *)
LEMMA KnownSame ==
  ASSUME NEW s, NEW k, RefsOfKind(s, k)' = RefsOfKind(s, k),
         \A a \in RefsOfKind(s, k) : assets'[a] = assets[a]
  PROVE  KnownSeconds(s, k)' = KnownSeconds(s, k)
  <1>1. KnownSeconds(s, k) = SumFunction([a \in KnownOf(s, k) |-> assets[a].seconds])
    BY DEF KnownSeconds, KnownOf
  <1>2. KnownSeconds(s, k)' = SumFunction([a \in KnownOf(s, k)' |-> assets'[a].seconds])
    BY DEF KnownSeconds, KnownOf
  <1>3. KnownOf(s, k)' = KnownOf(s, k) /\ \A a \in KnownOf(s, k) : assets'[a] = assets[a]
    BY DEF KnownOf
  <1>4. [a \in KnownOf(s, k)' |-> assets'[a].seconds] = [a \in KnownOf(s, k) |-> assets[a].seconds]
    BY <1>3
  <1> QED
    BY <1>1, <1>2, <1>4

(* A shot whose references stay as they are. *)
LEMMA SameRefs ==
  ASSUME NEW s, RefsOf(s)' = RefsOf(s), \A a \in RefsOf(s) : refs'[a] = refs[a],
         \A a \in RefsOf(s) : assets'[a] = assets[a]
  PROVE  /\ WithinLimits(s) => WithinLimits(s)'
         /\ \A k : RefsOfKind(s, k)' = RefsOfKind(s, k) /\ KnownSeconds(s, k)' = KnownSeconds(s, k)
  <1>1. ASSUME NEW k
        PROVE  RefsOfKind(s, k)' = RefsOfKind(s, k) /\ KnownSeconds(s, k)' = KnownSeconds(s, k)
    <2>1. RefsOfKind(s, k)' = RefsOfKind(s, k)
      BY DEF RefsOfKind
    <2>2. \A a \in RefsOfKind(s, k) : assets'[a] = assets[a]
      BY DEF RefsOfKind
    <2> QED
      BY <2>1, <2>2, KnownSame
  <1> QED
    BY <1>1 DEF WithinLimits

LEMMA LimitInit == Init => LimitInv
  <1> SUFFICES ASSUME Init
               PROVE  LimitInv
    OBVIOUS
  <1>1. DOMAIN refs = {} /\ InFlight = {}
    BY EmptyDomain DEF Init, LibInit, InFlight
  <1>2. \A s : RefsOf(s) = {}
    BY <1>1 DEF RefsOf
  <1> QED
    BY <1>1, <1>2, BareShot, FS_EmptySet DEF LimitInv

(* Neither references nor uploads: only new shots, which have none. *)
LEMMA LimitUnchanged ==
  ASSUME LimitInv, AudioInv, UNCHANGED <<assets, refs>>,
         InFlight' \subseteq InFlight, \A u \in InFlight' : upload'[u] = upload[u],
         \A u \in InFlight : upload[u].shot \in DOMAIN shots' => upload[u].shot \in DOMAIN shots
  PROVE  LimitInv'
  <1>1. InFlight' \subseteq InFlight
    OBVIOUS
  <1>2. \A s : RefsOf(s)' = RefsOf(s)
    BY DEF RefsOf
  <1>3. ASSUME NEW s \in DOMAIN shots'
        PROVE  WithinLimits(s)'
    <2>1. WithinLimits(s)
      <3>1. CASE s \in DOMAIN shots
        BY <3>1 DEF LimitInv
      <3>2. CASE s \notin DOMAIN shots
        <4>1. RefsOf(s) = {}
          BY <3>2 DEF RefsOf, AudioInv, RowsKnown
        <4> QED
          BY <4>1, BareShot
      <3> QED
        BY <3>1, <3>2
    <2> QED
      BY <1>2, <2>1, SameRefs
  <1>4. ASSUME NEW u \in InFlight'
        PROVE  RoomFor(upload[u])'
    <2>1. RoomFor(upload[u]) /\ upload'[u] = upload[u] /\ u \in InFlight
      BY <1>1, <1>4 DEF LimitInv
    <2>2. \A k : RefsOfKind(upload[u].shot, k)' = RefsOfKind(upload[u].shot, k)
                 /\ KnownSeconds(upload[u].shot, k)' = KnownSeconds(upload[u].shot, k)
      BY <1>2, SameRefs
    <2> QED
      BY <1>2, <2>1, <2>2 DEF RoomFor
  <1> QED
    BY <1>1, <1>3, <1>4 DEF LimitInv

LEMMA LimitDropped ==
  ASSUME LimitInv, NEW gone, DropShots(gone)
  PROVE  LimitInv'
  <1>1. /\ UNCHANGED <<assets, upload>>
        /\ DOMAIN shots' = DOMAIN shots \ gone
        /\ DOMAIN refs' = {a \in DOMAIN refs : refs[a].shot \notin gone}
        /\ \A a \in DOMAIN refs' : refs'[a] = refs[a]
    BY Dropped DEF DropShots
  <1>2. InFlight' = InFlight
    BY <1>1 DEF InFlight
  <1>3. \A s : s \notin gone =>
          RefsOf(s)' = RefsOf(s) /\ \A a \in RefsOf(s) : refs'[a] = refs[a]
    BY <1>1 DEF RefsOf
  <1>4. IsFiniteSet(DOMAIN refs')
    BY <1>1, FS_Subset DEF LimitInv
  <1>5. ASSUME NEW s \in DOMAIN shots'
        PROVE  /\ WithinLimits(s)'
               /\ RefsOf(s)' = RefsOf(s)
               /\ \A k : RefsOfKind(s, k)' = RefsOfKind(s, k)
                         /\ KnownSeconds(s, k)' = KnownSeconds(s, k)
    <2>1. s \in DOMAIN shots /\ s \notin gone
      BY <1>1
    <2>2. RefsOf(s)' = RefsOf(s) /\ \A a \in RefsOf(s) : refs'[a] = refs[a] /\ assets'[a] = assets[a]
      BY <1>1, <1>3, <2>1
    <2> QED
      BY <2>1, <2>2, SameRefs DEF LimitInv
  <1>6. ASSUME NEW u \in InFlight
        PROVE  RoomFor(upload[u])'
    <2>1. RoomFor(upload[u]) /\ DOMAIN shots' \subseteq DOMAIN shots
      BY <1>1, <1>6 DEF LimitInv
    <2> QED
      BY <1>1, <1>5, <2>1 DEF RoomFor
  <1> QED
    BY <1>1, <1>2, <1>4, <1>5, <1>6 DEF LimitInv

LEMMA LimitStored ==
  ASSUME LimitInv, TypeInv, AudioInv, NEW u \in Uploads, NEW k \in Kinds,
         NEW s \in Shots \cup {None}, NEW pair \in Uploads \cup {None},
         UploadStored(u, k, s, pair)
  PROVE  LimitInv'
  <1> DEFINE up == [kind |-> k, shot |-> s, pair |-> pair, seconds |-> None,
                    probed |-> k = "image"]
  <1>1. /\ upload' = [upload EXCEPT ![u] = up] /\ UNCHANGED <<shots, assets, refs>>
        /\ s # None => Admits(s, k)
        /\ InFlight = {}
    BY DEF UploadStored, rowVars, LoopIsFree, InFlight
  <1>2. up.shot = s /\ up.kind = k /\ up.seconds = None
    OBVIOUS
  <1> HIDE DEF up
  <1>3. InFlight' \subseteq {u} /\ upload'[u] = up
    BY <1>1 DEF InFlight, TypeInv, LibTypeOK
  <1>4. \A r : RefsOf(r)' = RefsOf(r)
    BY <1>1 DEF RefsOf
  <1>5. \A r : /\ WithinLimits(r) => WithinLimits(r)'
               /\ \A l : RefsOfKind(r, l)' = RefsOfKind(r, l)
    BY <1>1, <1>4, SameRefs
  <1>6. RoomFor(up)'
    <2>1. None \notin DOMAIN shots
      BY LibraryAssumption DEF AudioInv, RowsKnown
    <2> QED
      BY <1>1, <1>2, <1>4, <1>5, <2>1 DEF RoomFor, Admits
  <1> QED
    BY <1>1, <1>3, <1>5, <1>6 DEF LimitInv

(* An upload that ends leaves no other under way. *)
LEMMA LastUpload ==
  ASSUME LimitInv, TypeInv, NEW u \in Uploads, upload[u] # None,
         upload' = [upload EXCEPT ![u] = None]
  PROVE  InFlight' = {}
  BY DEF LimitInv, InFlight, TypeInv, LibTypeOK

LEMMA LimitProbed ==
  ASSUME LimitInv, TypeInv, AudioInv, NEW u \in Uploads, NEW seconds \in Lengths \cup {None},
         UploadProbed(u, seconds)
  PROVE  LimitInv'
  <1>1. upload[u] # None /\ UNCHANGED <<shots, assets, refs>>
    BY DEF UploadProbed, rowVars
  <1>2. \A r : RefsOf(r)' = RefsOf(r)
    BY <1>1 DEF RefsOf
  <1>3. \A r : /\ WithinLimits(r) => WithinLimits(r)'
               /\ \A l : RefsOfKind(r, l)' = RefsOfKind(r, l)
                         /\ KnownSeconds(r, l)' = KnownSeconds(r, l)
    BY <1>1, <1>2, SameRefs
  <1>4. CASE Refuse(u)
    <2>1. InFlight' = {}
      BY <1>1, <1>4, LastUpload DEF Refuse
    <2> QED
      BY <1>1, <1>3, <2>1 DEF LimitInv
  <1>5. CASE /\ upload' = [upload EXCEPT ![u].seconds = seconds, ![u].probed = TRUE]
             /\ \/ seconds = None
                \/ upload[u].shot # None =>
                     seconds + KnownSeconds(upload[u].shot, upload[u].kind) <= MaxSeconds
    <2>1. upload[u] \in UploadLocals /\ InFlight = {u}
      BY <1>1, LocalsOf DEF TypeInv, LimitInv, InFlight
    <2>2. /\ upload'[u].shot = upload[u].shot /\ upload'[u].kind = upload[u].kind
          /\ upload'[u].seconds = seconds
      BY <1>5, <2>1 DEF UploadLocals, TypeInv, LibTypeOK
    <2>3. \A v \in Uploads \ {u} : upload'[v] = upload[v]
      BY <1>5 DEF TypeInv, LibTypeOK
    <2>4. InFlight' \subseteq {u}
      BY <2>1, <2>3 DEF InFlight
    <2>5. None \notin DOMAIN shots
      BY LibraryAssumption DEF AudioInv, RowsKnown
    <2>6. RoomFor(upload[u])
      BY <2>1 DEF LimitInv
    <2>7. RoomFor(upload[u])'
      <3>1. CASE upload[u].shot \notin DOMAIN shots
        BY <1>1, <2>2, <3>1 DEF RoomFor
      <3>2. CASE upload[u].shot \in DOMAIN shots
        <4>1. seconds # None =>
                seconds + KnownSeconds(upload[u].shot, upload[u].kind) <= MaxSeconds
          BY <1>5, <2>5, <3>2
        <4> QED
          BY <1>1, <1>2, <1>3, <2>2, <2>6, <3>2, <4>1 DEF RoomFor
      <3> QED
        BY <3>1, <3>2
    <2> QED
      BY <1>1, <1>3, <2>4, <2>7 DEF LimitInv
  <1> QED
    BY <1>4, <1>5 DEF UploadProbed

(* The reference of the upload is one more. *)
LEMMA LimitBound ==
  ASSUME LimitInv, TypeInv, AudioInv, NEW u \in Uploads, upload[u] # None, UNCHANGED shots,
         NEW shot \in DOMAIN shots, shot = upload[u].shot, NEW kind, kind = upload[u].kind,
         NEW asset, asset.seconds = upload[u].seconds, assets' = With(assets, u, asset),
         NEW row, row.shot = shot, row.kind = kind, refs' = With(refs, u, row)
  PROVE  IsFiniteSet(DOMAIN refs') /\ \A s \in DOMAIN shots' : WithinLimits(s)'
  <1>1. u \notin DOMAIN assets /\ u \notin DOMAIN refs
    BY DEF AudioInv, UploadSound, RowsKnown
  <1>2. /\ DOMAIN refs' = DOMAIN refs \cup {u} /\ refs'[u] = row
        /\ \A a \in DOMAIN refs : refs'[a] = refs[a]
    BY <1>1 DEF With
  <1>3. assets'[u] = asset /\ \A a \in DOMAIN refs : assets'[a] = assets[a]
    BY <1>1 DEF With, AudioInv, RowsKnown
  <1>4. RoomFor(upload[u])
    BY DEF LimitInv, InFlight
  <1>5. /\ RefsOf(shot)' = RefsOf(shot) \cup {u}
        /\ \A s : s # shot => RefsOf(s)' = RefsOf(s)
    BY <1>1, <1>2 DEF RefsOf
  <1>6. /\ RefsOfKind(shot, kind)' = RefsOfKind(shot, kind) \cup {u}
        /\ \A k : k # kind => RefsOfKind(shot, k)' = RefsOfKind(shot, k)
    BY <1>1, <1>2, <1>5 DEF RefsOfKind, RefsOf
  <1>7. \A s, k : u \notin RefsOf(s) /\ u \notin RefsOfKind(s, k)
                  /\ RefsOf(s) \subseteq DOMAIN refs /\ RefsOfKind(s, k) \subseteq DOMAIN refs
    BY <1>1 DEF RefsOfKind, RefsOf
  <1>8. IsFiniteSet(DOMAIN refs')
    BY <1>2, FS_AddElement DEF LimitInv
  <1>9. WithinLimits(shot) /\ shot \in DOMAIN shots /\ kind \in Kinds
    BY LocalsOf DEF LimitInv, TypeInv
  <1>10. ASSUME NEW s \in DOMAIN shots, s # shot
         PROVE  WithinLimits(s)'
    <2>1. WithinLimits(s) /\ RefsOf(s)' = RefsOf(s)
      BY <1>5, <1>10 DEF LimitInv
    <2>2. \A a \in RefsOf(s) : refs'[a] = refs[a] /\ assets'[a] = assets[a]
      BY <1>2, <1>3, <1>7
    <2> QED
      BY <2>1, <2>2, SameRefs
  <1>11. Cardinality(RefsOf(shot))' <= MaxRefs
    <2>1. Cardinality(RefsOf(shot) \cup {u}) = Cardinality(RefsOf(shot)) + 1
      BY <1>7, RefsFinite, FS_AddElement DEF LimitInv
    <2>2. Cardinality(RefsOf(shot)) \in Nat /\ MaxRefs \in Nat
      BY RefsFinite, LibraryAssumption DEF LimitInv
    <2> QED
      BY <1>4, <1>5, <2>1, <2>2 DEF RoomFor
  <1>12. ASSUME NEW k \in Kinds
         PROVE  Cardinality(RefsOfKind(shot, k))' <= MaxCount[k]
    <2>1. CASE k = kind
      <3>1. Cardinality(RefsOfKind(shot, k) \cup {u}) = Cardinality(RefsOfKind(shot, k)) + 1
        BY <1>7, RefsFinite, FS_AddElement DEF LimitInv
      <3>2. Cardinality(RefsOfKind(shot, k)) \in Nat /\ MaxCount[k] \in Nat
        BY RefsFinite, LibraryAssumption DEF LimitInv
      <3>3. Cardinality(RefsOfKind(shot, k)) < MaxCount[k]
        BY <1>4, <2>1 DEF RoomFor
      <3>4. RefsOfKind(shot, k)' = RefsOfKind(shot, k) \cup {u}
        BY <1>6, <2>1
      <3> QED
        BY <3>1, <3>2, <3>3, <3>4
    <2>2. CASE k # kind
      BY <1>6, <1>9, <2>2 DEF WithinLimits
    <2> QED
      BY <2>1, <2>2
  <1>13. ASSUME NEW k \in {"video", "audio"}
         PROVE  KnownSeconds(shot, k)' <= MaxSeconds
    <2>1. KnownSeconds(shot, k) <= MaxSeconds
      BY <1>9 DEF WithinLimits
    <2>2. CASE k # kind
      <3>1. \A a \in RefsOfKind(shot, k) : assets'[a] = assets[a]
        BY <1>3, <1>7
      <3>2. KnownSeconds(shot, k)' = KnownSeconds(shot, k)
        BY <1>6, <2>2, <3>1, KnownSame
      <3> QED
        BY <2>1, <3>2
    <2>3. CASE k = kind /\ upload[u].seconds = None
      <3>1. KnownOf(shot, k)' = KnownOf(shot, k)
        BY <1>3, <1>6, <1>7, <2>3 DEF KnownOf
      <3>2. KnownSeconds(shot, k) = SumFunction([a \in KnownOf(shot, k) |-> assets[a].seconds])
        BY DEF KnownSeconds, KnownOf
      <3>3. KnownSeconds(shot, k)' = SumFunction([a \in KnownOf(shot, k)' |-> assets'[a].seconds])
        BY DEF KnownSeconds, KnownOf
      <3>4. \A a \in KnownOf(shot, k) : assets'[a] = assets[a]
        BY <1>3, <1>7 DEF KnownOf
      <3>5. [a \in KnownOf(shot, k)' |-> assets'[a].seconds]
              = [a \in KnownOf(shot, k) |-> assets[a].seconds]
        BY <3>1, <3>4
      <3> QED
        BY <2>1, <3>2, <3>3, <3>5
    <2>4. CASE k = kind /\ upload[u].seconds # None
      <3> DEFINE f == [a \in KnownOf(shot, k) |-> assets[a].seconds]
                 e == [a \in KnownOf(shot, k)' |-> assets'[a].seconds]
      <3>1. KnownOf(shot, k)' = KnownOf(shot, k) \cup {u} /\ u \notin KnownOf(shot, k)
        BY <1>3, <1>6, <1>7, <2>4 DEF KnownOf
      <3>2. KnownSeconds(shot, k) = SumFunction(f) /\ KnownSeconds(shot, k)' = SumFunction(e)
        BY DEF KnownSeconds, KnownOf
      <3>3. \A a \in KnownOf(shot, k) : assets'[a] = assets[a]
        BY <1>3, <1>7 DEF KnownOf
      <3>4. DOMAIN f = KnownOf(shot, k) /\ DOMAIN e = KnownOf(shot, k) \cup {u}
            /\ e[u] = upload[u].seconds /\ \A a \in DOMAIN f : e[a] = f[a]
        BY <1>3, <3>1, <3>3
      <3>5. AllIn(Nat, e, DOMAIN e)
        <4>1. upload[u].seconds \in Nat
          BY <2>4, LocalsOf, LibraryAssumption DEF TypeInv
        <4>2. \A a \in KnownOf(shot, k) : assets[a].seconds \in Nat
          BY <1>7, LibraryAssumption DEF KnownOf, TypeInv, LibTypeOK
        <4>3. \A a \in DOMAIN f : f[a] \in Nat
          BY <4>2
        <4> HIDE DEF e, f
        <4> QED
          BY <3>4, <4>1, <4>3 DEF AllIn
      <3>6. IsFiniteSet(DOMAIN f)
        BY <3>4, RefsFinite DEF LimitInv
      <3> HIDE DEF e, f
      <3>7. SumFunction(e) = e[u] + SumFunction(f)
        BY <3>1, <3>4, <3>5, <3>6, SumOfMore
      <3>8. upload[u].seconds + KnownSeconds(shot, k) <= MaxSeconds
        BY <1>4, <1>9, <2>4 DEF RoomFor
      <3> QED
        BY <3>2, <3>4, <3>7, <3>8
    <2> QED
      BY <2>2, <2>3, <2>4
  <1>14. WithinLimits(shot)'
    BY <1>11, <1>12, <1>13 DEF WithinLimits
  <1> QED
    BY <1>8, <1>10, <1>14

LEMMA LimitInserted ==
  ASSUME LimitInv, TypeInv, AudioInv, NEW u \in Uploads, UploadInserted(u)
  PROVE  LimitInv'
  <1> DEFINE up    == upload[u]
             asset == [kind |-> up.kind, seconds |-> up.seconds]
             row   == [shot |-> up.shot, kind |-> up.kind, ord |-> NextOrd(RefOrds(up.shot)),
                       pair |-> up.pair]
  <1>1. /\ upload[u] # None /\ UNCHANGED shots
        /\ upload' = [upload EXCEPT ![u] = None]
    BY DEF UploadInserted, Refuse
  <1>2. InFlight' = {}
    BY <1>1, LastUpload
  <1>3. \/ UNCHANGED refs /\ (UNCHANGED assets \/ assets' = With(assets, u, asset))
        \/ /\ up.shot \in DOMAIN shots
           /\ assets' = With(assets, u, asset) /\ refs' = With(refs, u, row)
    BY DEF UploadInserted
  <1>4. asset.seconds = up.seconds /\ row.shot = up.shot /\ row.kind = up.kind
    OBVIOUS
  <1> HIDE DEF asset, row
  <1>5. CASE UNCHANGED refs /\ (UNCHANGED assets \/ assets' = With(assets, u, asset))
    <2>1. u \notin DOMAIN assets /\ DOMAIN refs \subseteq DOMAIN assets
      BY <1>1 DEF AudioInv, UploadSound, RowsKnown
    <2>2. \A a \in DOMAIN refs : assets'[a] = assets[a]
      BY <1>5, <2>1 DEF With
    <2>3. \A s : RefsOf(s)' = RefsOf(s) /\ RefsOf(s) \subseteq DOMAIN refs
      BY <1>5 DEF RefsOf
    <2>4. \A s : WithinLimits(s) => WithinLimits(s)'
      BY <1>5, <2>2, <2>3, SameRefs
    <2> QED
      BY <1>1, <1>2, <1>5, <2>4 DEF LimitInv
  <1>6. CASE /\ up.shot \in DOMAIN shots
             /\ assets' = With(assets, u, asset) /\ refs' = With(refs, u, row)
    <2>1. PICK shot \in DOMAIN shots : shot = upload[u].shot
      BY <1>6
    <2>2. PICK kind : kind = upload[u].kind
      OBVIOUS
    <2>3. PICK a, r : a = asset /\ r = row
      OBVIOUS
    <2>4. IsFiniteSet(DOMAIN refs') /\ \A s \in DOMAIN shots' : WithinLimits(s)'
      BY <1>1, <1>4, <1>6, <2>1, <2>2, <2>3, LimitBound
    <2> QED
      BY <1>2, <2>4 DEF LimitInv
  <1> QED
    BY <1>3, <1>5, <1>6

LEMMA LimitStep == LimitInv /\ TypeInv /\ AudioInv /\ [Next]_allVars => LimitInv'
  <1> SUFFICES ASSUME LimitInv, TypeInv, AudioInv, LibStep
               PROVE  LimitInv'
    BY LibSteps
  <1>1. ASSUME UNCHANGED <<assets, refs, upload>>, DOMAIN shots' = DOMAIN shots
        PROVE  LimitInv'
    BY <1>1, LimitUnchanged DEF InFlight
  <1>2. ASSUME NEW t \in Threads, NEW s \in Shots, CreateShotInserts(t, s)
        PROVE  LimitInv'
    <2>1. s \notin used /\ UNCHANGED <<assets, refs, upload>>
          /\ (UNCHANGED shots \/ shots' = With(shots, s, creating[t]))
      BY <1>2 DEF CreateShotInserts
    <2>2. DOMAIN shots' \subseteq DOMAIN shots \cup {s}
      BY <2>1 DEF With
    <2>3. \A u \in InFlight : upload[u].shot # s
      BY <2>1, LibraryAssumption DEF InFlight, AudioInv, UploadSound
    <2> QED
      BY <2>1, <2>2, <2>3, LimitUnchanged DEF InFlight
  <1>3. ASSUME NEW s \in Shots, NEW n \in Positions, MoveShot(s, n)
        PROVE  LimitInv'
    <2>1. DOMAIN shots' = DOMAIN shots /\ UNCHANGED <<assets, refs, upload>>
      BY <1>3 DEF MoveShot
    <2> QED
      BY <1>1, <2>1
  <1>4. CASE EditNext
    BY <1>1, <1>2, <1>3, <1>4 DEF EditNext, CreateProject, CreateShotReads, rowVars
  <1>10. ASSUME UNCHANGED <<shots, assets, refs>>, InFlight' \subseteq InFlight,
                \A u \in InFlight' : upload'[u] = upload[u]
         PROVE  LimitInv'
    BY <1>10, LimitUnchanged
  <1>5. CASE UploadNext
    <2>1. ASSUME NEW u \in Uploads, UploadFails(u)
          PROVE  LimitInv'
      <3>1. upload' = [upload EXCEPT ![u] = None] /\ UNCHANGED <<shots, assets, refs>>
        BY <2>1 DEF UploadFails, rowVars
      <3>2. upload'[u] = None /\ \A v \in Uploads \ {u} : upload'[v] = upload[v]
        BY <3>1 DEF AudioInv
      <3> QED
        BY <1>10, <3>1, <3>2 DEF InFlight
    <2> QED
      BY <1>5, <2>1, LimitStored, LimitProbed, LimitInserted DEF UploadNext
  <1>6. ASSUME NEW t \in Threads, NEW keep \in BOOLEAN, ClearRows(t, keep)
        PROVE  LimitInv'
    <2>1. DOMAIN shots' = {} /\ DOMAIN refs' = {} /\ UNCHANGED upload
      BY <1>6, EmptyDomain DEF ClearRows
    <2>2. InFlight' = InFlight /\ IsFiniteSet({})
      BY <2>1, FS_EmptySet DEF InFlight
    <2> QED
      BY <2>1, <2>2 DEF LimitInv, RoomFor
  <1>7. CASE RemoveNext
    <2>1. CASE Restart
      <3>1. UNCHANGED <<shots, assets, refs>> /\ InFlight' = {}
        BY <2>1 DEF Restart, rowVars, InFlight
      <3> QED
        BY <1>10, <3>1
    <2> QED
      BY <1>1, <1>6, <1>7, <2>1, LimitDropped
      DEF RemoveNext, DeleteProject, DeleteShot, ClearLists, ClearUnlinks, rowVars
  <1>8. ASSUME NEW t \in Tasks, NEW s \in Shots, Generate(t, s)
        PROVE  LimitInv'
    BY <1>1, <1>8 DEF Generate, rowVars
  <1>9. CASE UNCHANGED libVars
    BY <1>1, <1>9 DEF libVars, rowVars
  <1> QED
    BY <1>4, <1>5, <1>7, <1>8, <1>9 DEF LibStep

-----------------------------------------------------------------------------
(* The types of the page.  Only its own tasks have rows.                   *)

Idle == audience # "page" => DOMAIN tasks = {}

PageTypeInv == TypeOK /\ Idle

(* What the page keeps of its own. *)
pageTypeVars == <<current, view, requests, tasks, posted, timer, newest, polls, told, crossed>>

LEMMA PageTypeInit == Init => PageTypeInv
  <1> SUFFICES ASSUME Init
               PROVE  PageTypeInv
    OBVIOUS
  <1>1. LibTypeOK
    BY TypeInit DEF TypeInv
  <1>2. \A r \in requests : RequestTypeOK(r)
    BY PageAssumption DEF Init, RequestTypeOK
  <1> QED
    BY <1>1, <1>2, EmptyDomain DEF Init, PageInit, NoView, PageTypeInv, TypeOK, Idle

LEMMA PageTypeKept ==
  ASSUME PageTypeInv, LibTypeOK', UNCHANGED <<tasks, posted, timer, newest, polls, told, crossed>>,
         DOMAIN shots \subseteq DOMAIN shots' \/ DOMAIN tasks = {}, UNCHANGED audience,
         current' \in Projects \cup {None},
         view' \in [project : Projects \cup {None}, shots : SUBSET Shots],
         \A r \in requests' : RequestTypeOK(r)
  PROVE  PageTypeInv'
  <1>1. \A t \in DOMAIN tasks :
          tasks[t] \in [shot : DOMAIN shots', status : {"pending", "processing"} \cup Final]
    <2>1. \A t \in DOMAIN tasks :
            tasks[t] \in [shot : DOMAIN shots, status : {"pending", "processing"} \cup Final]
      BY DEF PageTypeInv, TypeOK
    <2> QED
      BY <2>1
  <1> QED
    BY <1>1 DEF PageTypeInv, TypeOK, Idle, RequestTypeOK

(* A task that lives on keeps its shot. *)
LEMMA TasksDropped ==
  ASSUME PageTypeInv, NEW gone, tasks' = TasksWithout(gone),
         DOMAIN shots \ gone \subseteq DOMAIN shots'
  PROVE  /\ DOMAIN tasks' \subseteq DOMAIN tasks
         /\ \A t \in DOMAIN tasks' :
              tasks'[t] \in [shot : DOMAIN shots', status : {"pending", "processing"} \cup Final]
  <1>1. /\ DOMAIN tasks' = {t \in DOMAIN tasks : tasks[t].shot \notin gone}
        /\ \A t \in DOMAIN tasks' : tasks'[t] = tasks[t]
    BY DEF TasksWithout, Without, Restrict
  <1>2. \A t \in DOMAIN tasks :
          tasks[t] \in [shot : DOMAIN shots, status : {"pending", "processing"} \cup Final]
    BY DEF PageTypeInv, TypeOK
  <1> QED
    BY <1>1, <1>2

LEMMA AskType ==
  ASSUME PageTypeInv, TimelineInv, sent < MaxSent, NEW p \in Projects \cup {None},
         NEW what \in {"list", "shots"}
  PROVE  RequestTypeOK(Ask(what, p))
  <1>1. sent \in 0 .. MaxSent
    BY PageAssumption DEF TimelineInv, RequestsTyped
  <1> QED
    BY <1>1 DEF Ask, RequestTypeOK

LEMMA PageTypeStep ==
  PageTypeInv /\ TypeInv /\ TypeInv' /\ PollInv /\ TimelineInv /\ [Next]_allVars => PageTypeInv'
  <1> SUFFICES ASSUME PageTypeInv, TypeInv, LibTypeOK', PollInv, TimelineInv, [Next]_allVars
               PROVE  PageTypeInv'
    BY DEF TypeInv
  <1>0. /\ current \in Projects \cup {None}
        /\ view \in [project : Projects \cup {None}, shots : SUBSET Shots]
        /\ \A r \in requests : RequestTypeOK(r)
    BY DEF PageTypeInv, TypeOK
  <1>1. ASSUME UNCHANGED <<pageTypeVars, audience>>,
               DOMAIN shots \subseteq DOMAIN shots' \/ DOMAIN tasks = {}
        PROVE  PageTypeInv'
    BY <1>0, <1>1, PageTypeKept DEF pageTypeVars
  <1>2. CASE audience # "page" /\ Next
    <2>1. UNCHANGED <<pageVars, clearAsked, tasks, audience>>
      BY <1>2 DEF Next
    <2> QED
      BY <1>1, <1>2, <2>1 DEF pageVars, pageTypeVars, PageTypeInv, Idle
  <1>3. ASSUME NEW p \in Projects, SwitchProject(p), UNCHANGED audience
        PROVE  PageTypeInv'
    <2>1. RequestTypeOK(Ask("shots", p))
      BY <1>3, AskType DEF SwitchProject, SwitchTo
    <2>2. \A r \in requests' : RequestTypeOK(r)
      BY <1>0, <1>3, <2>1 DEF SwitchProject, SwitchTo
    <2> QED
      BY <1>0, <1>3, <2>2, PageTypeKept DEF SwitchProject, SwitchTo, libVars, rowVars
  <1>4. ASSUME NEW p \in Projects, PageDeletesProject(p), UNCHANGED audience
        PROVE  PageTypeInv'
    <2>1. RequestTypeOK(Ask("list", None))
      BY <1>4, AskType DEF PageDeletesProject, LoadProjects
    <2>2. \A r \in requests' : RequestTypeOK(r)
      BY <1>0, <1>4, <2>1 DEF PageDeletesProject, LoadProjects
    <2>3. DOMAIN shots' = DOMAIN shots \ ShotsOf(p)
      BY <1>4, Dropped DEF PageDeletesProject, DeleteProject
    <2>4. /\ DOMAIN tasks' \subseteq DOMAIN tasks
          /\ \A t \in DOMAIN tasks' :
               tasks'[t] \in [shot : DOMAIN shots', status : {"pending", "processing"} \cup Final]
      BY <1>4, <2>3, TasksDropped DEF PageDeletesProject
    <2>5. UNCHANGED <<current, view, posted, timer, polls, newest, told, crossed, audience>>
      BY <1>4 DEF PageDeletesProject
    <2> QED
      BY <2>2, <2>4, <2>5 DEF PageTypeInv, TypeOK, Idle, RequestTypeOK
  <1>5. ASSUME NEW r \in requests, RequestRead(r), UNCHANGED audience
        PROVE  PageTypeInv'
    <2> DEFINE new == [r EXCEPT !.got = IF r.what = "list" THEN projects
                                        ELSE ShotsOf(r.project)]
    <2>1. r = [n |-> r.n, what |-> r.what, project |-> r.project, got |-> r.got]
      BY DEF TimelineInv, RequestsTyped
    <2>2. /\ new.n = r.n /\ new.what = r.what /\ new.project = r.project
          /\ new.got = IF r.what = "list" THEN projects ELSE ShotsOf(r.project)
      BY <2>1
    <2>3. requests' = (requests \ {r}) \cup {new}
      BY <1>5 DEF RequestRead
    <2> HIDE DEF new
    <2>4. projects \subseteq Projects /\ ShotsOf(r.project) \subseteq Shots
      BY DEF TypeInv, LibTypeOK, ShotsOf
    <2>5. RequestTypeOK(new)
      BY <1>0, <2>2, <2>4 DEF RequestTypeOK
    <2> QED
      BY <1>0, <1>5, <2>3, <2>5, PageTypeKept DEF RequestRead, libVars, rowVars
  <1>6. ASSUME NEW r \in requests, ListArrives(r), UNCHANGED audience
        PROVE  PageTypeInv'
    <2>1. r.what = "list" /\ r.got # None /\ RequestTypeOK(r)
          /\ UNCHANGED <<libVars, view, tasks, posted, timer, polls, newest, told, crossed>>
      BY <1>0, <1>6 DEF ListArrives
    <2>2. r.got \subseteq Projects
      BY <2>1 DEF RequestTypeOK
    <2>3. CASE \E p \in r.got : SwitchTo(p, requests \ {r})
      <3>1. PICK p \in Projects : SwitchTo(p, requests \ {r})
        BY <2>2, <2>3
      <3>2. RequestTypeOK(Ask("shots", p))
        BY <3>1, AskType DEF SwitchTo
      <3>3. \A q \in requests' : RequestTypeOK(q)
        BY <1>0, <3>1, <3>2 DEF SwitchTo
      <3> QED
        BY <1>0, <1>6, <2>1, <3>1, <3>3, PageTypeKept DEF SwitchTo, libVars, rowVars
    <2>4. CASE requests' = requests \ {r} /\ UNCHANGED <<current, sent>>
      BY <1>0, <1>6, <2>1, <2>4, PageTypeKept DEF libVars, rowVars
    <2> QED
      BY <1>6, <2>3, <2>4 DEF ListArrives
  <1>7. ASSUME NEW r \in requests, ShotsArrive(r), UNCHANGED audience
        PROVE  PageTypeInv'
    <2>1. /\ r.what = "shots" /\ r.got # None /\ RequestTypeOK(r)
          /\ view' = [project |-> r.project, shots |-> r.got] /\ requests' = requests \ {r}
          /\ UNCHANGED <<libVars, current, tasks, posted, timer, polls, newest, told, crossed>>
      BY <1>0, <1>7 DEF ShotsArrive
    <2>2. r.got \in SUBSET Shots /\ r.project \in Projects \cup {None}
      BY <2>1 DEF RequestTypeOK
    <2>3. view' \in [project : Projects \cup {None}, shots : SUBSET Shots]
      BY <2>1, <2>2
    <2> QED
      BY <1>0, <1>7, <2>1, <2>3, PageTypeKept DEF libVars, rowVars
  <1>8. ASSUME NEW r \in requests, RequestFails(r), UNCHANGED audience
        PROVE  PageTypeInv'
    BY <1>0, <1>8, PageTypeKept DEF RequestFails, libVars, rowVars
  <1>9. ASSUME NEW t \in Tasks, NEW s \in Shots, Generate(t, s), audience = "page",
               UNCHANGED audience
        PROVE  PageTypeInv'
    <2>1. UNCHANGED <<shots, current, view, requests, timer, polls, newest, told, crossed>>
      BY <1>9 DEF Generate, rowVars
    <2>2. CASE UNCHANGED <<tasks, posted>>
      BY <1>1, <1>9, <2>1, <2>2 DEF pageTypeVars
    <2>3. CASE /\ s \in DOMAIN shots /\ posted' = posted \cup {t}
               /\ tasks' = With(tasks, t, [shot |-> s, status |-> "pending"])
      <3>1. DOMAIN tasks' = DOMAIN tasks \cup {t}
            /\ \A q \in DOMAIN tasks' :
                 tasks'[q] \in [shot : DOMAIN shots, status : {"pending", "processing"} \cup Final]
        BY <2>3 DEF With, PageTypeInv, TypeOK
      <3> QED
        BY <1>9, <2>1, <2>3, <3>1 DEF PageTypeInv, TypeOK, Idle, RequestTypeOK
    <2> QED
      BY <1>9, <2>2, <2>3 DEF Generate
  <1>10. ASSUME NEW t \in Tasks, GenerateAnswered(t), UNCHANGED audience
         PROVE  PageTypeInv'
    BY <1>10 DEF GenerateAnswered, libVars, rowVars, PageTypeInv, TypeOK, Idle, RequestTypeOK
  <1>11. ASSUME NEW t \in Tasks, TaskAdvances(t), UNCHANGED audience
         PROVE  PageTypeInv'
    <2>1. PICK status \in Later[tasks[t].status] : tasks' = [tasks EXCEPT ![t].status = status]
      BY <1>11 DEF TaskAdvances
    <2>2. /\ t \in DOMAIN tasks /\ UNCHANGED <<libVars, pageVars>>
      BY <1>11 DEF TaskAdvances
    <2>3. \A q \in DOMAIN tasks :
            tasks[q] \in [shot : DOMAIN shots, status : {"pending", "processing"} \cup Final]
      BY DEF PageTypeInv, TypeOK
    <2>4. status \in {"pending", "processing"} \cup Final
      BY <2>1, <2>2, <2>3 DEF Later, Final
    <2>5. \A q \in DOMAIN tasks' :
            tasks'[q] \in [shot : DOMAIN shots, status : {"pending", "processing"} \cup Final]
      BY <2>1, <2>2, <2>3, <2>4
    <2>6. DOMAIN tasks' = DOMAIN tasks
      BY <2>1
    <2> QED
      BY <1>11, <2>2, <2>5, <2>6 DEF libVars, rowVars, pageVars, PageTypeInv, TypeOK, Idle,
                                   RequestTypeOK
  <1>12. ASSUME TimerFires, UNCHANGED audience
         PROVE  PageTypeInv'
    <2>1. timer \in Tasks /\ [task |-> timer, got |-> None].task = timer
      BY <1>12 DEF TimerFires, PageTypeInv, TypeOK
    <2>2. \A q \in polls' : q.task \in Tasks
      BY <1>12, <2>1 DEF TimerFires, PageTypeInv, TypeOK
    <2> QED
      BY <1>12, <2>2 DEF TimerFires, libVars, rowVars, PageTypeInv, TypeOK, Idle, RequestTypeOK
  <1>13. ASSUME NEW q \in polls, PollRead(q), UNCHANGED audience
         PROVE  PageTypeInv'
    <2> DEFINE new == [q EXCEPT !.got = IF q.task \in DOMAIN tasks
                                        THEN tasks[q.task].status ELSE "detail"]
    <2>1. q = [task |-> q.task, got |-> q.got]
      BY DEF PollInv, PollTyped
    <2>2. new.task = q.task
      BY <2>1
    <2>3. polls' = (polls \ {q}) \cup {new}
      BY <1>13 DEF PollRead
    <2> HIDE DEF new
    <2>4. \A r \in polls' : r.task \in Tasks
      BY <2>2, <2>3 DEF PageTypeInv, TypeOK
    <2> QED
      BY <1>13, <2>4 DEF PollRead, libVars, rowVars, PageTypeInv, TypeOK, Idle, RequestTypeOK
  <1>14. ASSUME NEW q \in polls, PollArrives(q), UNCHANGED audience
         PROVE  PageTypeInv'
    <2>1. /\ polls' = polls \ {q} /\ timer' \in {timer, q.task} /\ told' \subseteq told \cup {q.task}
          /\ UNCHANGED <<libVars, current, view, requests, sent, tasks, posted, newest, crossed>>
      BY <1>14 DEF PollArrives
    <2> QED
      BY <1>14, <2>1 DEF libVars, rowVars, PageTypeInv, TypeOK, Idle, RequestTypeOK
  <1>15. ASSUME NEW q \in polls, PollFails(q), UNCHANGED audience
         PROVE  PageTypeInv'
    BY <1>15 DEF PollFails, libVars, rowVars, PageTypeInv, TypeOK, Idle, RequestTypeOK
  <1>16. ASSUME PageAsksClear, UNCHANGED audience
         PROVE  PageTypeInv'
    <2>1. DOMAIN tasks' = {} /\ UNCHANGED pageVars
      BY <1>16, EmptyDomain DEF PageAsksClear
    <2> QED
      BY <1>16, <2>1 DEF pageVars, PageTypeInv, TypeOK, Idle, RequestTypeOK
  <1>17. ASSUME ClearAnswered, UNCHANGED audience
         PROVE  PageTypeInv'
    <2>1. RequestTypeOK(Ask("list", None))
      BY <1>17, AskType DEF ClearAnswered, LoadProjects
    <2>2. \A r \in requests' : RequestTypeOK(r)
      BY <1>0, <1>17, <2>1 DEF ClearAnswered, LoadProjects
    <2> QED
      BY <1>17, <2>2, PageTypeKept DEF ClearAnswered, PageForgets, NoView, libVars, rowVars
  <1>18. CASE ClearAnswerLost /\ UNCHANGED audience
    BY <1>1, <1>18 DEF ClearAnswerLost, libVars, rowVars, pageVars, pageTypeVars
  <1>19. ASSUME NEW t \in Threads, ClearLists(t), UNCHANGED <<pageVars, clearAsked, tasks, audience>>
         PROVE  PageTypeInv'
    BY <1>1, <1>19 DEF ClearLists, rowVars, pageVars, pageTypeVars
  <1>20. CASE UNCHANGED allVars
    BY <1>1, <1>20 DEF allVars, libVars, rowVars, pageVars, pageTypeVars
  <1>21. CASE audience = "page" /\ Next
    <2>1. PageNext /\ UNCHANGED audience
      BY <1>21 DEF Next
    <2> QED
      BY <1>21, <2>1, <1>3, <1>4, <1>5, <1>6, <1>7, <1>8, <1>9, <1>10, <1>11, <1>12, <1>13, <1>14, <1>15,
         <1>16, <1>17, <1>18, <1>19 DEF PageNext
  <1> QED
    BY <1>2, <1>20, <1>21

-----------------------------------------------------------------------------
(* Every row, file and local of the handlers, and every request and field  *)
(* of the page, has its type at all times; a task always has its shot.     *)
THEOREM LibraryTypeCorrect == Spec => []TypeOK
  <1>1. PageTypeInv => TypeOK
    BY DEF PageTypeInv
  <1> QED
    BY <1>1, AudioInit, AudioStep, PollInit, PollStep, TimelineInit, TimelineStep, TypeInit,
       TypeStep, PageTypeInit, PageTypeStep, PTL DEF Spec

(* upload_ref never binds more references, nor longer ones, to a shot than *)
(* its limits allow: what it has checked before it writes the file is      *)
(* still true when it inserts the row.                                     *)
THEOREM LimitsCorrect == Spec => []LimitsHold
  <1>1. LimitInv => LimitsHold
    BY Limits DEF LimitInv
  <1> QED
    BY <1>1, AudioInit, AudioStep, TypeInit, TypeStep, LimitInit, LimitStep, PTL DEF Spec

(* An asset has its file unless a clear met its upload, and a file has its *)
(* asset unless it is one of the named strays: kept, not unlinkable, its   *)
(* shot vanished, its insert raised, or the process ended in between.      *)
THEOREM FilesCorrect == Spec => []FilesMatchRows
  <1>1. FilesInv => FilesMatchRows
    BY DEF FilesInv, FilesMatchRows, Swept, SweptBy, Clearing, InFlight
  <1> QED
    BY <1>1, AudioInit, AudioStep, TypeInit, TypeStep, FilesInit, FilesStep, PTL DEF Spec

(* The numbers that upload_ref gives to the references of a shot differ,   *)
(* and so do those that create_shot gives to the shots of a project unless *)
(* two of its calls overlap or a shot is moved.                            *)
THEOREM OrderCorrect == Spec => []OrderIsTotal
  BY AudioInit, AudioStep, TypeInit, TypeStep, OrderInit, OrderStep, PTL DEF Spec
-----------------------------------------------------------------------------
(* References.  The loops that sort them, and the numbers of the tags.     *)

(* How many of the first n items are in keep. *)
No(list, keep, n) == Cardinality({j \in 1 .. n : list[j] \in keep})

LEMMA NoIsNext ==
  ASSUME NEW list, NEW keep
  PROVE  /\ No(list, keep, 0) = 0
         /\ \A n \in Nat :
              /\ No(list, keep, n) \in 0 .. n
              /\ list[n + 1] \in keep => No(list, keep, n + 1) = No(list, keep, n) + 1
              /\ list[n + 1] \notin keep => No(list, keep, n + 1) = No(list, keep, n)
  <1> DEFINE At(n) == {j \in 1 .. n : list[j] \in keep}
  <1>1. \A n \in Nat : IsFiniteSet(At(n)) /\ Cardinality(At(n)) \in 0 .. n
    <2> SUFFICES ASSUME NEW n \in Nat
                 PROVE  IsFiniteSet(At(n)) /\ Cardinality(At(n)) \in 0 .. n
      OBVIOUS
    <2>1. IsFiniteSet(1 .. n) /\ Cardinality(1 .. n) = n
      BY FS_Interval
    <2>2. At(n) \subseteq 1 .. n
      OBVIOUS
    <2> HIDE DEF At
    <2>3. IsFiniteSet(At(n)) /\ Cardinality(At(n)) <= n
      BY <2>1, <2>2, FS_Subset
    <2> QED
      BY <2>3, FS_CardinalityType
  <1>2. At(0) = {}
    OBVIOUS
  <1>3. \A n \in Nat : /\ list[n + 1] \in keep => At(n + 1) = At(n) \cup {n + 1}
                       /\ list[n + 1] \notin keep => At(n + 1) = At(n)
    OBVIOUS
  <1>4. \A n \in Nat : n + 1 \notin At(n)
    OBVIOUS
  <1>5. /\ No(list, keep, 0) = Cardinality(At(0))
        /\ \A n \in Nat : /\ No(list, keep, n) = Cardinality(At(n))
                          /\ No(list, keep, n + 1) = Cardinality(At(n + 1))
    BY DEF No
  <1> HIDE DEF At
  <1>6. ASSUME NEW n \in Nat, list[n + 1] \in keep
        PROVE  Cardinality(At(n + 1)) = Cardinality(At(n)) + 1
    BY <1>1, <1>3, <1>4, <1>6, FS_AddElement
  <1>7. Cardinality(At(0)) = 0
    BY <1>2, FS_EmptySet
  <1> QED
    BY <1>1, <1>3, <1>5, <1>6, <1>7

(* The loop of Kept after n rounds, and a whole run of it. *)
Round(list, keep, g, n) ==
    IF n = 0 THEN <<>>
    ELSE IF list[n] \in keep THEN Append(g[n - 1], list[n]) ELSE g[n - 1]
Run(list, keep, m, g) == g = [n \in 0 .. m |-> Round(list, keep, g, n)]

LEMMA RunExists ==
  ASSUME NEW list, NEW keep, NEW m \in Nat
  PROVE  \E g : Run(list, keep, m, g)
  <1> DEFINE P == {n \in Nat : \E g : Run(list, keep, n, g)}
  <1>1. 0 \in P
    <2>1. Run(list, keep, 0, [n \in 0 .. 0 |-> <<>>])
      BY DEF Run, Round
    <2> QED
      BY <2>1
  <1>2. ASSUME NEW n \in Nat, n \in P
        PROVE  n + 1 \in P
    <2>1. PICK g : Run(list, keep, n, g)
      BY <1>2
    <2> DEFINE h == [i \in 0 .. n + 1 |-> Round(list, keep, g, i)]
    <2>2. \A i \in 0 .. n : g[i] = Round(list, keep, g, i)
      BY <2>1 DEF Run
    <2>3. \A i \in 0 .. n + 1 : h[i] = Round(list, keep, g, i)
      OBVIOUS
    <2>4. \A i \in 0 .. n : i \in 0 .. n + 1
      OBVIOUS
    <2>5. \A i \in 0 .. n : h[i] = g[i]
      BY <2>2, <2>3, <2>4
    <2>6. \A i \in 0 .. n + 1 : i # 0 => i - 1 \in 0 .. n
      OBVIOUS
    <2>7. \A i \in 0 .. n + 1 : Round(list, keep, h, i) = Round(list, keep, g, i)
      <3> SUFFICES ASSUME NEW i \in 0 .. n + 1
                   PROVE  Round(list, keep, h, i) = Round(list, keep, g, i)
        OBVIOUS
      <3>1. CASE i = 0
        BY <3>1 DEF Round
      <3>2. CASE i # 0
        <4>1. h[i - 1] = g[i - 1]
          BY <3>2, <2>5, <2>6
        <4> HIDE DEF h
        <4> QED
          BY <3>2, <4>1 DEF Round
      <3> QED
        BY <3>1, <3>2
    <2>8. h = [i \in 0 .. n + 1 |-> Round(list, keep, h, i)]
      BY <2>7
    <2>9. Run(list, keep, n + 1, h)
      BY <2>8 DEF Run
    <2> QED
      BY <2>9
  <1>3. Nat \subseteq P
    <2> HIDE DEF P
    <2> QED
      BY <1>1, <1>2, NatInduct
  <1> QED
    BY <1>3

LEMMA KeptIsRun ==
  ASSUME NEW list, Len(list) \in Nat, NEW keep
  PROVE  \E g : Run(list, keep, Len(list), g) /\ Kept(list, keep) = g[Len(list)]
  <1> DEFINE it == CHOOSE g : g = [n \in 0 .. Len(list) |->
                      IF n = 0 THEN <<>>
                      ELSE IF list[n] \in keep THEN Append(g[n - 1], list[n]) ELSE g[n - 1]]
  <1>1. Kept(list, keep) = it[Len(list)]
    BY DEF Kept
  <1>2. it = CHOOSE g : Run(list, keep, Len(list), g)
    BY DEF Run, Round
  <1>3. Run(list, keep, Len(list), it)
    BY <1>2, RunExists
  <1> QED
    BY <1>1, <1>3

(* What the loop keeps: the items of keep, each at the place that its      *)
(* number among them gives, and nothing else.                              *)
LEMMA KeptIs ==
  ASSUME NEW X, NEW list \in Seq(X), NEW keep
  PROVE  /\ Kept(list, keep) \in Seq(X)
         /\ Len(Kept(list, keep)) = No(list, keep, Len(list))
         /\ \A i \in DOMAIN list : list[i] \in keep =>
              /\ No(list, keep, i) \in DOMAIN Kept(list, keep)
              /\ Kept(list, keep)[No(list, keep, i)] = list[i]
         /\ \A k \in DOMAIN Kept(list, keep) :
              \E i \in DOMAIN list : list[i] \in keep /\ Kept(list, keep)[k] = list[i]
  <1> DEFINE N(n) == No(list, keep, n)
             Good(n, s) == /\ s \in Seq(X) /\ Len(s) = N(n)
                           /\ \A i \in 1 .. n : list[i] \in keep =>
                                N(i) \in 1 .. N(n) /\ s[N(i)] = list[i]
                           /\ \A k \in 1 .. N(n) :
                                \E i \in 1 .. n : list[i] \in keep /\ s[k] = list[i]
  <1>1. Len(list) \in Nat /\ DOMAIN list = 1 .. Len(list) /\ \A i \in 1 .. Len(list) : list[i] \in X
    OBVIOUS
  <1>2. PICK g : Run(list, keep, Len(list), g) /\ Kept(list, keep) = g[Len(list)]
    BY <1>1, KeptIsRun
  <1>3. \A n \in 0 .. Len(list) : g[n] = Round(list, keep, g, n)
    BY <1>2 DEF Run
  <1>4. /\ N(0) = 0
        /\ \A n \in Nat : /\ N(n) \in 0 .. n
                          /\ list[n + 1] \in keep => N(n + 1) = N(n) + 1
                          /\ list[n + 1] \notin keep => N(n + 1) = N(n)
    BY NoIsNext, Zenon
  <1> HIDE DEF N
  <1> DEFINE P == {n \in Nat : n <= Len(list) => Good(n, g[n])}
  <1>5. 0 \in P
    <2>1. g[0] = <<>>
      BY <1>1, <1>3 DEF Round
    <2>2. <<>> \in Seq(X) /\ Len(<<>>) = 0 /\ 1 .. 0 = {}
      OBVIOUS
    <2>3. Good(0, g[0])
      BY <1>4, <2>1, <2>2
    <2> QED
      BY <2>3
  <1>6. ASSUME NEW n \in Nat, n \in P
        PROVE  n + 1 \in P
    <2> HIDE DEF Good
    <2> SUFFICES ASSUME n + 1 <= Len(list)
                 PROVE  Good(n + 1, g[n + 1])
      OBVIOUS
    <2>1. Good(n, g[n])
      BY <1>1, <1>6
    <2> USE DEF Good
    <2>2. g[n + 1] = IF list[n + 1] \in keep THEN Append(g[n], list[n + 1]) ELSE g[n]
      BY <1>1, <1>3 DEF Round
    <2>3. list[n + 1] \in X
      BY <1>1
    <2>4. /\ N(n) \in Nat
          /\ list[n + 1] \in keep => N(n + 1) = N(n) + 1
          /\ list[n + 1] \notin keep => N(n + 1) = N(n)
      <3> HIDE DEF Good, P
      <3> QED
        BY <1>4
    <2>5. CASE list[n + 1] \in keep
      <3> DEFINE s == g[n]
                 t == g[n + 1]
      <3>1. /\ s \in Seq(X) /\ Len(s) = N(n) /\ t = Append(s, list[n + 1])
        BY <2>1, <2>2, <2>5
      <3>2. /\ t \in Seq(X) /\ Len(t) = N(n) + 1 /\ t[N(n) + 1] = list[n + 1]
            /\ \A k \in 1 .. N(n) : t[k] = s[k]
        <4> HIDE DEF s, t
        <4> QED
          BY <2>3, <2>4, <3>1
      <3>3. N(n + 1) = N(n) + 1
        BY <2>4, <2>5
      <3>4. \A i \in 1 .. n + 1 : list[i] \in keep => N(i) \in 1 .. N(n + 1) /\ t[N(i)] = list[i]
        <4> SUFFICES ASSUME NEW i \in 1 .. n + 1, list[i] \in keep
                     PROVE  N(i) \in 1 .. N(n + 1) /\ t[N(i)] = list[i]
          OBVIOUS
        <4>1. CASE i = n + 1
          BY <4>1, <3>2, <3>3, <2>4
        <4>2. CASE i \in 1 .. n
          <5>1. N(i) \in 1 .. N(n) /\ s[N(i)] = list[i]
            BY <4>2, <2>1
          <5> QED
            BY <5>1, <3>2, <3>3, <2>4
        <4> QED
          BY <4>1, <4>2
      <3>5. \A k \in 1 .. N(n + 1) : \E i \in 1 .. n + 1 : list[i] \in keep /\ t[k] = list[i]
        <4> SUFFICES ASSUME NEW k \in 1 .. N(n + 1)
                     PROVE  \E i \in 1 .. n + 1 : list[i] \in keep /\ t[k] = list[i]
          OBVIOUS
        <4>1. CASE k = N(n) + 1
          BY <4>1, <3>2, <2>5
        <4>2. CASE k \in 1 .. N(n)
          <5>1. PICK i \in 1 .. n : list[i] \in keep /\ s[k] = list[i]
            BY <4>2, <2>1
          <5> QED
            BY <5>1, <4>2, <3>2
        <4> QED
          BY <4>1, <4>2, <3>3, <2>4
      <3> QED
        BY <3>2, <3>3, <3>4, <3>5
    <2>6. CASE list[n + 1] \notin keep
      <3>1. g[n + 1] = g[n] /\ N(n + 1) = N(n)
        BY <2>2, <2>4, <2>6
      <3>2. \A i \in 1 .. n + 1 : list[i] \in keep => i \in 1 .. n
        BY <2>6
      <3>3. \A i \in 1 .. n : i \in 1 .. n + 1
        OBVIOUS
      <3> QED
        BY <2>1, <3>1, <3>2, <3>3
    <2> QED
      BY <2>5, <2>6
  <1>7. Len(list) \in P
    <2>1. Nat \subseteq P
      <3> HIDE DEF P
      <3> QED
        BY <1>5, <1>6, NatInduct
    <2> QED
      BY <1>1, <2>1
  <1>8. Good(Len(list), Kept(list, keep))
    BY <1>1, <1>2, <1>7
  <1>9. DOMAIN Kept(list, keep) = 1 .. N(Len(list))
    BY <1>8
  <1> QED
    BY <1>1, <1>8, <1>9 DEF N

(* Nothing is left out of a list whose items are all to be kept. *)
LEMMA KeptAll ==
  ASSUME NEW X, NEW list \in Seq(X), NEW keep, \A i \in DOMAIN list : list[i] \in keep
  PROVE  Kept(list, keep) = list
  <1>1. \A n \in 0 .. Len(list) : No(list, keep, n) = n
    <2> SUFFICES ASSUME NEW n \in 0 .. Len(list)
                 PROVE  No(list, keep, n) = n
      OBVIOUS
    <2>1. {j \in 1 .. n : list[j] \in keep} = 1 .. n
      OBVIOUS
    <2>2. Cardinality(1 .. n) = n
      BY FS_Interval
    <2> QED
      BY <2>1, <2>2 DEF No
  <1>2. Len(list) \in Nat /\ DOMAIN list = 1 .. Len(list)
    OBVIOUS
  <1>3. /\ Kept(list, keep) \in Seq(X)
        /\ Len(Kept(list, keep)) = Len(list)
        /\ \A i \in DOMAIN list : Kept(list, keep)[i] = list[i]
    <2>1. Len(list) \in 0 .. Len(list) /\ \A i \in DOMAIN list : i \in 0 .. Len(list)
      BY <1>2
    <2> QED
      BY <1>1, <2>1, KeptIs
  <1> QED
    BY <1>2, <1>3

(* The numbers of the elements of a finite set, in the order of their      *)
(* values: a list of the set in this order exists.                         *)
LEMMA SortedExists ==
  ASSUME NEW S, IsFiniteSet(S), NEW v, \A a \in S : v[a] \in Nat,
         \A a, b \in S : a # b => v[a] # v[b]
  PROVE  \E f \in [1 .. Cardinality(S) -> S] :
            \A i, j \in 1 .. Cardinality(S) : i < j => v[f[i]] < v[f[j]]
  <1> DEFINE n == Cardinality(S)
             Below(a) == {b \in S : v[b] <= v[a]}
             rank == [a \in S |-> Cardinality(Below(a))]
  <1>1. n \in Nat /\ IsFiniteSet(1 .. n) /\ Cardinality(1 .. n) = n
    BY FS_CardinalityType, FS_Interval
  <1>2. \A a \in S : Below(a) \subseteq S /\ IsFiniteSet(Below(a)) /\ a \in Below(a)
    BY FS_Subset
  <1>3. \A a, b \in S : v[a] < v[b] =>
           Below(a) \subseteq Below(b) /\ b \notin Below(a)
    OBVIOUS
  <1> HIDE DEF Below
  <1>4. ASSUME NEW a \in S
        PROVE  rank[a] \in 1 .. n
    <2>1. Cardinality(Below(a)) <= n /\ Cardinality(Below(a)) \in Nat
      BY <1>2, FS_Subset, FS_CardinalityType
    <2>2. Cardinality(Below(a)) # 0
      BY <1>2, FS_EmptySet
    <2> QED
      BY <1>1, <2>1, <2>2
  <1>5. ASSUME NEW a \in S, NEW b \in S, v[a] < v[b]
        PROVE  rank[a] < rank[b]
    <2>1. Below(a) \subseteq Below(b) /\ Below(a) # Below(b)
      BY <1>2, <1>3, <1>5
    <2>2. Cardinality(Below(a)) < Cardinality(Below(b))
      <3>1. /\ Cardinality(Below(a)) <= Cardinality(Below(b))
            /\ Cardinality(Below(a)) = Cardinality(Below(b)) => Below(a) = Below(b)
        BY <1>2, <2>1, FS_Subset
      <3>2. Cardinality(Below(a)) \in Nat /\ Cardinality(Below(b)) \in Nat
        BY <1>2, FS_CardinalityType
      <3> QED
        BY <2>1, <3>1, <3>2
    <2> QED
      BY <2>2
  <1>6. rank \in [S -> 1 .. n] /\ \A a, b \in S : a # b => rank[a] # rank[b]
    <2>1. \A a, b \in S : v[a] < v[b] \/ v[b] < v[a] \/ a = b
      OBVIOUS
    <2>2. \A a \in S : rank[a] \in 1 .. n
      BY <1>4
    <2>3. rank \in [S -> 1 .. n]
      BY <2>2
    <2> HIDE DEF rank, n
    <2>4. \A a, b \in S : v[a] < v[b] => rank[a] < rank[b]
      BY <1>5
    <2> QED
      BY <2>1, <2>3, <2>4
  <1> HIDE DEF rank
  <1>7. rank \in Injection(S, 1 .. n)
    BY <1>6 DEF Injection, IsInjective
  <1>8. rank \in Surjection(S, 1 .. n)
    BY <1>1, <1>7, FS_Injection
  <1>9. \A i \in 1 .. n : \E a \in S : rank[a] = i
    BY <1>8 DEF Surjection
  <1> DEFINE f == [i \in 1 .. n |-> CHOOSE a \in S : rank[a] = i]
  <1>10. \A i \in 1 .. n : f[i] \in S /\ rank[f[i]] = i
    BY <1>9
  <1>11. f \in [1 .. n -> S]
    BY <1>10
  <1>12. ASSUME NEW i \in 1 .. n, NEW j \in 1 .. n, i < j
         PROVE  v[f[i]] < v[f[j]]
    <2>1. f[i] \in S /\ f[j] \in S /\ rank[f[i]] = i /\ rank[f[j]] = j
      BY <1>10
    <2> HIDE DEF f
    <2>2. ~(v[f[j]] < v[f[i]])
      BY <1>1, <1>5, <1>12, <2>1
    <2>3. v[f[i]] # v[f[j]]
      BY <1>12, <2>1
    <2> QED
      BY <2>1, <2>2, <2>3
  <1> HIDE DEF f
  <1> QED
    BY <1>11, <1>12

(* Only an audio is uploaded with a video, so only an audio is paired.     *)
PairInv ==
    /\ \A u \in InFlight : upload[u].pair # None => upload[u].kind = "audio"
    /\ \A a \in DOMAIN refs : refs[a].pair # None => refs[a].kind = "audio"

LEMMA PairInit == Init => PairInv
  BY EmptyDomain DEF Init, LibInit, PairInv, InFlight

LEMMA PairStep == PairInv /\ AudioInv /\ [Next]_allVars => PairInv'
  <1> SUFFICES ASSUME PairInv, AudioInv, [Next]_allVars
               PROVE  PairInv'
    OBVIOUS
  <1>1. CASE UNCHANGED <<refs, upload>>
    BY <1>1 DEF PairInv, InFlight
  <1>2. ASSUME NEW gone, DropShots(gone)
        PROVE  PairInv'
    <2>1. UNCHANGED upload
      BY <1>2 DEF DropShots
    <2>2. \A a \in DOMAIN refs' : a \in DOMAIN refs /\ refs'[a] = refs[a]
      BY <1>2, Dropped
    <2> QED
      BY <2>1, <2>2 DEF PairInv, InFlight
  <1>3. ASSUME NEW t \in Threads, NEW keep \in BOOLEAN, ClearRows(t, keep)
        PROVE  PairInv'
    BY <1>3, EmptyDomain DEF ClearRows, PairInv, InFlight
  <1>4. ASSUME NEW u \in Uploads, NEW k \in Kinds, NEW s \in Shots \cup {None},
               NEW pair \in Uploads \cup {None}, UploadStored(u, k, s, pair)
        PROVE  PairInv'
    <2> DEFINE up == [kind |-> k, shot |-> s, pair |-> pair, seconds |-> None,
                      probed |-> k = "image"]
    <2>1. /\ upload' = [upload EXCEPT ![u] = up] /\ UNCHANGED refs
          /\ pair # None => k = "audio"
      BY <1>4 DEF UploadStored, rowVars
    <2>2. up.pair = pair /\ up.kind = k
      OBVIOUS
    <2> HIDE DEF up
    <2>3. upload'[u] = up /\ \A v \in Uploads \ {u} : upload'[v] = upload[v]
      BY <2>1 DEF AudioInv
    <2> QED
      BY <2>1, <2>2, <2>3 DEF PairInv, InFlight
  <1>5. ASSUME NEW u \in Uploads, NEW seconds \in Lengths \cup {None}, UploadProbed(u, seconds)
        PROVE  PairInv'
    <2>1. UNCHANGED refs /\ upload[u] # None
      BY <1>5 DEF UploadProbed, rowVars
    <2>2. CASE upload' = [upload EXCEPT ![u] = None]
      <3>1. upload'[u] = None /\ \A v \in Uploads \ {u} : upload'[v] = upload[v]
        BY <2>2 DEF AudioInv
      <3> QED
        BY <2>1, <3>1 DEF PairInv, InFlight
    <2>3. CASE upload' = [upload EXCEPT ![u].seconds = seconds, ![u].probed = TRUE]
      <3>1. /\ upload'[u].kind = upload[u].kind /\ upload'[u].pair = upload[u].pair
            /\ \A v \in Uploads \ {u} : upload'[v] = upload[v]
        BY <2>1, <2>3 DEF AudioInv, UploadSound
      <3> QED
        BY <2>1, <3>1 DEF PairInv, InFlight
    <2> QED
      BY <1>5, <2>2, <2>3 DEF UploadProbed, Refuse
  <1>6. ASSUME NEW u \in Uploads, UploadInserted(u)
        PROVE  PairInv'
    <2> DEFINE up  == upload[u]
               row == [shot |-> up.shot, kind |-> up.kind, ord |-> NextOrd(RefOrds(up.shot)),
                       pair |-> up.pair]
    <2>1. /\ upload[u] # None /\ upload' = [upload EXCEPT ![u] = None]
          /\ UNCHANGED refs \/ refs' = With(refs, u, row)
      BY <1>6 DEF UploadInserted, Refuse
    <2>2. row.pair = up.pair /\ row.kind = up.kind
      OBVIOUS
    <2> HIDE DEF row
    <2>3. upload'[u] = None /\ \A v \in Uploads \ {u} : upload'[v] = upload[v]
      BY <2>1 DEF AudioInv
    <2>4. \A a \in DOMAIN refs' : \/ a \in DOMAIN refs /\ refs'[a] = refs[a]
                                  \/ a = u /\ refs'[a] = row
      BY <2>1 DEF With
    <2> QED
      BY <2>1, <2>2, <2>3, <2>4 DEF PairInv, InFlight
  <1>7. ASSUME NEW p \in Projects, CreateProject(p) \/ DeleteProject(p)
        PROVE  PairInv'
    BY <1>1, <1>2, <1>7 DEF CreateProject, DeleteProject
  <1>8. ASSUME NEW t \in Threads, NEW s \in Shots, CreateShotInserts(t, s)
        PROVE  PairInv'
    BY <1>1, <1>8 DEF CreateShotInserts
  <1>9. ASSUME NEW s \in Shots, NEW n \in Positions, MoveShot(s, n)
        PROVE  PairInv'
    BY <1>1, <1>9 DEF MoveShot
  <1>10. ASSUME NEW s \in Shots, DeleteShot(s)
         PROVE  PairInv'
    BY <1>2, <1>10 DEF DeleteShot
  <1>11. ASSUME NEW t \in Tasks, NEW s \in Shots, Generate(t, s)
         PROVE  PairInv'
    BY <1>1, <1>11 DEF Generate, rowVars
  <1>12. UNCHANGED allVars \/ UNCHANGED refVars => UNCHANGED <<refs, upload>>
    BY DEF allVars, libVars, rowVars, refVars
  <1>13. ASSUME NEW u \in Uploads, UploadFails(u)
         PROVE  PairInv'
    <2>1. /\ UNCHANGED refs /\ upload' = [upload EXCEPT ![u] = None]
      BY <1>13 DEF UploadFails, rowVars
    <2>2. upload'[u] = None /\ \A v \in Uploads \ {u} : upload'[v] = upload[v]
      BY <2>1 DEF AudioInv
    <2> QED
      BY <2>1, <2>2 DEF PairInv, InFlight
  <1>14. CASE Restart
    BY <1>14 DEF Restart, rowVars, PairInv, InFlight
  <1> QED
    BY <1>1, <1>3, <1>4, <1>5, <1>6, <1>7, <1>8, <1>9, <1>10, <1>11, <1>12, <1>13, <1>14,
       RefSteps

(* What the page shows of a reference.                                     *)
Entry(a) == [id |-> a, kind |-> refs[a].kind, pair |-> refs[a].pair]
Entries(s) == {Entry(a) : a \in RefsOf(s)}

(* The list of a shot is made of its references, every one of them.        *)
LEMMA ListedIs ==
  ASSUME TypeInv, LimitInv, OrderIsTotal, NEW s
  PROVE  /\ Listed(s) \in Seq(Entries(s))
         /\ \A a \in RefsOf(s) : \E i \in DOMAIN Listed(s) : Listed(s)[i] = Entry(a)
  <1> DEFINE R == RefsOf(s)
             n == Cardinality(R)
             v == [a \in R |-> refs[a].ord]
             Sorts(f) == \A i, j \in 1 .. n : i < j => refs[f[i]].ord < refs[f[j]].ord
             ids == CHOOSE f \in [1 .. n -> R] : Sorts(f)
  <1>1. IsFiniteSet(R) /\ n \in Nat
    BY RefsFinite DEF LimitInv
  <1>2. /\ \A a \in R : v[a] = refs[a].ord /\ v[a] \in Nat
        /\ \A a, b \in R : a # b => v[a] # v[b]
    BY DEF RefsOf, OrderIsTotal, TypeInv, LibTypeOK
  <1>3. PICK f \in [1 .. n -> R] : \A i, j \in 1 .. n : i < j => v[f[i]] < v[f[j]]
    <2> HIDE DEF v, R
    <2> QED
      BY <1>1, <1>2, SortedExists
  <1>4. Sorts(f)
    <2>1. \A i \in 1 .. n : v[f[i]] = refs[f[i]].ord
      <3> HIDE DEF v, R
      <3> QED
        BY <1>2, <1>3
    <2> HIDE DEF v, R
    <2> QED
      BY <1>3, <2>1
  <1>5. ids \in [1 .. n -> R] /\ Sorts(ids)
    <2> HIDE DEF Sorts
    <2> QED
      BY <1>3, <1>4
  <1>6. Listed(s) = [i \in DOMAIN ids |-> [id |-> ids[i], kind |-> refs[ids[i]].kind,
                                           pair |-> refs[ids[i]].pair]]
    BY DEF Listed
  <1> HIDE DEF ids
  <1>7. DOMAIN ids = 1 .. n /\ \A i \in 1 .. n : ids[i] \in R /\ refs[ids[i]].ord \in Nat
    <2>1. DOMAIN ids = 1 .. n /\ \A i \in 1 .. n : ids[i] \in R
      BY <1>5
    <2> QED
      BY <2>1, <1>2
  <1> HIDE DEF R, v
  <1>8. Listed(s) = [i \in 1 .. n |-> Entry(ids[i])]
    BY <1>6, <1>7 DEF Entry
  <1>9. Listed(s) \in Seq(Entries(s))
    <2>1. \A i \in 1 .. n : Entry(ids[i]) \in Entries(s)
      BY <1>7 DEF Entries, R
    <2> HIDE DEF n
    <2> QED
      BY <1>1, <1>8, <2>1
  <1>10. ids \in Injection(1 .. n, R)
    <2>1. \A i, j \in 1 .. n : i # j => ids[i] # ids[j]
      <3> SUFFICES ASSUME NEW i \in 1 .. n, NEW j \in 1 .. n, i # j, ids[i] = ids[j]
                   PROVE  FALSE
        OBVIOUS
      <3>1. i < j \/ j < i
        OBVIOUS
      <3> QED
        BY <1>5, <1>7, <3>1
    <2> QED
      BY <1>5, <2>1 DEF Injection, IsInjective
  <1>11. ids \in Surjection(1 .. n, R)
    <2>1. IsFiniteSet(1 .. n) /\ Cardinality(1 .. n) = n
      BY <1>1, FS_Interval
    <2> QED
      BY <1>1, <1>10, <2>1, FS_Injection
  <1>12. \A a \in R : \E i \in 1 .. n : ids[i] = a
    BY <1>11 DEF Surjection
  <1> QED
    BY <1>8, <1>9, <1>12 DEF R

LEMMA KeptRange ==
  ASSUME NEW X, NEW list \in Seq(X), NEW keep
  PROVE  Range(Kept(list, keep)) = Range(list) \cap keep
  <1>1. ASSUME NEW r \in Range(list) \cap keep
        PROVE  r \in Range(Kept(list, keep))
    <2>1. PICK i \in DOMAIN list : list[i] = r
      BY DEF Range
    <2> QED
      BY <2>1, KeptIs DEF Range
  <1>2. ASSUME NEW r \in Range(Kept(list, keep))
        PROVE  r \in Range(list) \cap keep
    <2>1. PICK k \in DOMAIN Kept(list, keep) : Kept(list, keep)[k] = r
      BY DEF Range
    <2>2. PICK i \in DOMAIN list : list[i] \in keep /\ Kept(list, keep)[k] = list[i]
      BY KeptIs
    <2> QED
      BY <2>1, <2>2 DEF Range
  <1> QED
    BY <1>1, <1>2

(* The place of a reference among those of its kind is the number of its   *)
(* tag.                                                                    *)
LEMMA TagIsPlace ==
  ASSUME NEW X, NEW list \in Seq(X), NEW i \in DOMAIN list
  PROVE  /\ Tag(list, i).kind = list[i].kind
         /\ Tag(list, i).no \in Nat \ {0}
         /\ OfKind(list, list[i].kind) \in Seq(X)
         /\ Stands(list[i], Tag(list, i).no, OfKind(list, list[i].kind))
  <1> DEFINE kind == list[i].kind
             keep == {r \in Range(list) : r.kind = kind}
  <1>1. DOMAIN list = 1 .. Len(list) /\ Len(list) \in Nat
    OBVIOUS
  <1>2. \A j \in 1 .. i : list[j] \in keep <=> list[j].kind = kind
    BY <1>1 DEF Range
  <1>3. Tag(list, i).no = No(list, keep, i) /\ Tag(list, i).kind = kind
    <2>1. {j \in 1 .. i : list[j].kind = kind} = {j \in 1 .. i : list[j] \in keep}
      BY <1>2
    <2> HIDE DEF keep
    <2> QED
      BY <2>1 DEF Tag, No
  <1>4. list[i] \in keep
    BY DEF Range
  <1>5. OfKind(list, kind) = Kept(list, keep)
    BY DEF OfKind
  <1> HIDE DEF keep
  <1>6. /\ No(list, keep, i) \in DOMAIN Kept(list, keep)
        /\ Kept(list, keep)[No(list, keep, i)] = list[i]
        /\ Kept(list, keep) \in Seq(X)
    BY <1>4, KeptIs
  <1>7. No(list, keep, i) \in Nat \ {0}
    BY <1>6
  <1> QED
    BY <1>3, <1>5, <1>6, <1>7 DEF Stands

(* The second loop of group_refs pairs an audio with its video when both   *)
(* are among the references.                                               *)
LEMMA PairsAre ==
  ASSUME NEW X, NEW list \in Seq(X), NEW video, NEW audio
  PROVE  [video |-> video, audio |-> audio] \in Range(Pairs(list)) <=>
            \E r \in Range(list) :
               /\ r.kind = "audio" /\ r.id = audio /\ r.pair = video /\ video # None
               /\ \E w \in Range(list) : w.kind = "video" /\ w.id = video
  <1> DEFINE videos == {v.id : v \in Range(OfKind(list, "video"))}
             keep   == {r \in Range(list) :
                          r.kind = "audio" /\ r.pair # None /\ r.pair \in videos}
             tracks == Kept(list, keep)
             pair   == [video |-> video, audio |-> audio]
  <1>1. Range(OfKind(list, "video")) = {r \in Range(list) : r.kind = "video"}
    <2> DEFINE only == {r \in Range(list) : r.kind = "video"}
    <2>1. OfKind(list, "video") = Kept(list, only) /\ Range(list) \cap only = only
      BY DEF OfKind
    <2> HIDE DEF only
    <2>2. Range(OfKind(list, "video")) = only
      BY <2>1, KeptRange
    <2> QED
      BY <2>2 DEF only
  <1>2. video \in videos <=> \E w \in Range(list) : w.kind = "video" /\ w.id = video
    BY <1>1
  <1>3. Pairs(list) = [n \in DOMAIN tracks |-> [video |-> tracks[n].pair, audio |-> tracks[n].id]]
    BY DEF Pairs
  <1> HIDE DEF videos
  <1>4. Range(tracks) = keep
    <2>1. Range(list) \cap keep = keep
      OBVIOUS
    <2> HIDE DEF keep
    <2> QED
      BY <2>1, KeptRange
  <1> HIDE DEF tracks
  <1>5. pair \in Range(Pairs(list)) <=> \E r \in Range(tracks) : r.pair = video /\ r.id = audio
    <2>1. DOMAIN Pairs(list) = DOMAIN tracks
          /\ \A n \in DOMAIN tracks :
               Pairs(list)[n] = [video |-> tracks[n].pair, audio |-> tracks[n].id]
      BY <1>3
    <2>2. \A n \in DOMAIN tracks :
            Pairs(list)[n] = pair <=> tracks[n].pair = video /\ tracks[n].id = audio
      BY <2>1
    <2> HIDE DEF pair
    <2>3. pair \in Range(Pairs(list)) <=> \E n \in DOMAIN tracks : Pairs(list)[n] = pair
      BY <2>1 DEF Range
    <2>4. (\E r \in Range(tracks) : r.pair = video /\ r.id = audio)
            <=> \E n \in DOMAIN tracks : tracks[n].pair = video /\ tracks[n].id = audio
      BY DEF Range
    <2> QED
      BY <2>2, <2>3, <2>4
  <1>6. (\E r \in keep : r.pair = video /\ r.id = audio) <=>
          \E r \in Range(list) : /\ r.kind = "audio" /\ r.id = audio /\ r.pair = video
                                 /\ video # None /\ video \in videos
    OBVIOUS
  <1> QED
    BY <1>2, <1>4, <1>5, <1>6

(* The comfy engine's workflow takes the first two images.                 *)
LEMMA FirstImages ==
  ASSUME NEW X, NEW list \in Seq(X), NEW item, NEW n \in Nat \ {0}, n <= LoadImageNodes,
         Stands(item, n, list)
  PROVE  Stands(item, n, SubSeq(list, 1, Min({2, LoadImageNodes, Len(list)})))
  <1> DEFINE m == Min({2, LoadImageNodes, Len(list)})
  <1>1. Len(list) \in Nat /\ n <= Len(list) /\ n <= 2 /\ list[n] = item
    BY DEF Stands, LoadImageNodes
  <1>2. m \in {2, Len(list)} /\ m <= Len(list)
    <2>1. m = CHOOSE x \in {2, Len(list)} : \A y \in {2, Len(list)} : x <= y
      BY DEF Min, LoadImageNodes
    <2>2. \E x \in {2, Len(list)} : \A y \in {2, Len(list)} : x <= y
      BY <1>1
    <2> QED
      BY <2>1, <2>2
  <1>3. m \in Nat /\ n <= m /\ m <= Len(list)
    BY <1>1, <1>2
  <1> HIDE DEF m
  <1>4. /\ SubSeq(list, 1, m) \in Seq(X) /\ Len(SubSeq(list, 1, m)) = m
        /\ \A i \in 1 .. m : SubSeq(list, 1, m)[i] = list[i]
    BY <1>1, <1>3
  <1> QED
    BY <1>1, <1>3, <1>4 DEF Stands, m

LEMMA TagsHold ==
  ASSUME TypeInv, AudioInv, LimitInv, OrderIsTotal, PairInv
  PROVE  TagsNameTheReferences
  <1> SUFFICES ASSUME NEW s \in DOMAIN shots, NEW i \in DOMAIN Listed(s)
               PROVE  LET list  == Listed(s)
                          given == Materials(list)
                          tag   == Tag(list, i)
                      IN  /\ \A opens \in SUBSET RefsOfKind(s, "image") : \E copied \in BOOLEAN :
                                Stands([of |-> list[i].id, copied |-> copied], tag.no,
                                       DiffusersLists(given, opens)[tag.kind])
                          /\ Stands(list[i], tag.no, VllmLists(given)[tag.kind])
                          /\ tag.kind = "image" /\ tag.no <= LoadImageNodes
                              => Stands(list[i], tag.no, ComfyImages(given))
                          /\ list[i].pair # None
                              <=> [video |-> list[i].pair, audio |-> list[i].id]
                                    \in Range(Pairs(given))
    BY DEF TagsNameTheReferences
  <1> DEFINE list == Listed(s)
             tag  == Tag(list, i)
             kind == list[i].kind
             X    == Entries(s)
  <1>1. list \in Seq(X) /\ \A a \in RefsOf(s) : \E j \in DOMAIN list : list[j] = Entry(a)
    BY ListedIs
  <1>2. \A r \in Range(list) : r.id \in RefsOf(s) /\ r = Entry(r.id)
    <2>1. \A r \in Range(list) : r \in X
      BY <1>1 DEF Range
    <2> QED
      BY <2>1 DEF Entries, Entry
  <1>3. RefsOf(s) \subseteq DOMAIN refs /\ DOMAIN refs \subseteq DOMAIN assets
    BY DEF RefsOf, AudioInv, RowsKnown
  <1> HIDE DEF list, X
  <1>4. list[i] \in Range(list) /\ i \in DOMAIN list
    BY DEF Range, list
  <1>5. kind \in Kinds
    <2>1. list[i].id \in DOMAIN refs /\ list[i] = Entry(list[i].id)
      BY <1>2, <1>3, <1>4
    <2>2. Entry(list[i].id).kind = refs[list[i].id].kind
      BY DEF Entry
    <2> QED
      BY <2>1, <2>2 DEF TypeInv, LibTypeOK
  <1>6. Materials(list) = list
    <2>1. \A j \in DOMAIN list : list[j] \in {r \in Range(list) : r.id \in DOMAIN assets}
      BY <1>2, <1>3 DEF Range
    <2> QED
      BY <1>1, <2>1, KeptAll DEF Materials
  <1>7. /\ tag.kind = kind /\ tag.no \in Nat \ {0} /\ OfKind(list, kind) \in Seq(X)
        /\ Stands(list[i], tag.no, OfKind(list, kind))
    BY <1>1, <1>4, TagIsPlace
  <1> HIDE DEF tag
  <1>8. Stands(list[i], tag.no, VllmLists(list)[tag.kind])
    BY <1>5, <1>7 DEF VllmLists
  <1>9. ASSUME NEW opens \in SUBSET RefsOfKind(s, "image")
        PROVE  \E copied \in BOOLEAN :
                 Stands([of |-> list[i].id, copied |-> copied], tag.no,
                        DiffusersLists(list, opens)[tag.kind])
    <2> DEFINE items == Grouped(list)[kind]
    <2>1. items = OfKind(list, kind)
      BY <1>5 DEF Grouped
    <2>2. tag.no \in DOMAIN items /\ items[tag.no] = list[i]
      BY <1>7, <2>1 DEF Stands
    <2>3. DiffusersLists(list, opens)[kind] =
            IF kind = "image" THEN ScaledImages(Grouped(list).image, opens)
            ELSE [n \in DOMAIN items |-> [of |-> items[n].id, copied |-> FALSE]]
      BY <1>5 DEF DiffusersLists
    <2>4. CASE kind = "image"
      <3>1. DiffusersLists(list, opens)[kind] =
              [n \in DOMAIN items |-> [of |-> items[n].id, copied |-> items[n].id \in opens]]
        BY <2>3, <2>4 DEF ScaledImages
      <3> DEFINE sends == DiffusersLists(list, opens)[kind]
                 scaled == list[i].id \in opens
      <3> HIDE DEF items
      <3>2. tag.no \in DOMAIN sends /\ sends[tag.no] = [of |-> list[i].id, copied |-> scaled]
        BY <2>2, <3>1
      <3>3. scaled \in BOOLEAN
        OBVIOUS
      <3> HIDE DEF sends, scaled
      <3>4. Stands([of |-> list[i].id, copied |-> scaled], tag.no, sends)
        BY <3>2 DEF Stands
      <3> QED
        BY <1>7, <3>3, <3>4 DEF sends
    <2>5. CASE kind # "image"
      <3> HIDE DEF items
      <3> QED
        BY <1>7, <2>2, <2>3, <2>5 DEF Stands
    <2> QED
      BY <2>4, <2>5
  <1>10. tag.kind = "image" /\ tag.no <= LoadImageNodes
           => Stands(list[i], tag.no, ComfyImages(list))
    <2> SUFFICES ASSUME kind = "image", tag.no <= LoadImageNodes
                 PROVE  Stands(list[i], tag.no, ComfyImages(list))
      BY <1>7
    <2> DEFINE images == OfKind(list, "image")
    <2>1. ComfyImages(list) = SubSeq(images, 1, Min({2, LoadImageNodes, Len(images)}))
      BY DEF ComfyImages, Normalised, Kinds
    <2>2. images \in Seq(X) /\ Stands(list[i], tag.no, images)
      BY <1>7
    <2> HIDE DEF images
    <2> QED
      BY <1>7, <2>1, <2>2, FirstImages
  <1>11. list[i].pair # None
           <=> [video |-> list[i].pair, audio |-> list[i].id] \in Range(Pairs(list))
    <2> DEFINE a == list[i].id
               b == list[i].pair
    <2>1. a \in RefsOf(s) /\ list[i] = Entry(a) /\ kind = refs[a].kind /\ b = refs[a].pair
      BY <1>2, <1>4 DEF Entry
    <2>2. ASSUME b # None
          PROVE  kind = "audio" /\ \E w \in Range(list) : w.kind = "video" /\ w.id = b
      <3>1. kind = "audio"
        BY <1>3, <2>1, <2>2 DEF PairInv
      <3>2. b \in RefsOf(s) /\ refs[b].kind = "video"
        <4>1. refs[a].shot = s
          BY <2>1 DEF RefsOf
        <4> QED
          BY <1>3, <2>1, <2>2, <3>1, <4>1 DEF AudioInv, AudioHasItsPicture
      <3>3. PICK j \in DOMAIN list : list[j] = Entry(b)
        BY <1>1, <3>2
      <3>4. Entry(b).kind = "video" /\ Entry(b).id = b
        BY <3>2 DEF Entry
      <3> QED
        BY <3>1, <3>3, <3>4 DEF Range
    <2>3. [video |-> b, audio |-> a] \in Range(Pairs(list)) <=>
            \E r \in Range(list) :
               /\ r.kind = "audio" /\ r.id = a /\ r.pair = b /\ b # None
               /\ \E w \in Range(list) : w.kind = "video" /\ w.id = b
      BY <1>1, PairsAre
    <2> QED
      BY <1>4, <2>2, <2>3
  <1> QED
    BY <1>6, <1>8, <1>9, <1>10, <1>11 DEF list, tag

(* A tag <Picture n>, <Video n> or <Audio n> that the page shows for a     *)
(* reference of a shot names that reference in the lists that _build_params*)
(* and the engines make of the posted ids, whatever was uploaded, deleted  *)
(* and cleared, and group_refs pairs exactly the tracks of its videos.     *)
THEOREM TagsCorrect == Spec => []TagsNameTheReferences
  BY AudioInit, AudioStep, TypeInit, TypeStep, LimitInit, LimitStep, OrderInit, OrderStep,
     PairInit, PairStep, TagsHold, PTL DEF Spec
=============================================================================
