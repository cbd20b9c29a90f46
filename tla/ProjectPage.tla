---------------------------- MODULE ProjectPage ----------------------------
(***************************************************************************)
(* One browser page of assets/js/shared.js beside the handlers of Library: *)
(* the project menu, the timeline of the current project's shots, and the  *)
(* polling of submitted tasks with the page's one timer.                   *)
(*                                                                         *)
(* Requests carry no number in the code and their answers are taken in     *)
(* whatever order they arrive; `n` only tells the properties which was     *)
(* sent last.  Every request may fail.                                     *)
(***************************************************************************)
EXTENDS Library

CONSTANTS
    Tasks,
    MaxSent,     \* bound: list and shot requests of a page
    MaxPageClears  \* bound: times a page asks to clear everything

ASSUME PageAssumption == MaxSent \in Nat /\ MaxPageClears \in Nat /\ None \notin Tasks

VARIABLES
    audience,    \* who is there: clients of the API, or one page
    current,     \* currentProjectId
    view,        \* the project whose shots are in the timeline, and the shots
    requests,    \* list and shot requests under way
    sent,        \* requests sent
    tasks,       \* rows of generation_tasks: shot and status
    clearAsked,  \* the clear button waits for its answer
    posted,      \* submissions whose answer has not arrived
    timer,       \* the task pollTimer is set for
    polls,       \* status requests under way
    newest,      \* the task whose submission was answered last
    told,        \* tasks whose final status the page has shown
    overtaken,   \* history: a shots request failed or arrived after a later one
    crossed      \* history: tasks whose polling met another's or a failure

pageVars == <<current, view, requests, sent, posted, timer, polls, newest, told,
              overtaken, crossed>>
allVars == <<libVars, audience, pageVars, clearAsked, tasks>>

NoView == [project |-> None, shots |-> {}]
Final == {"completed", "failed"}

Ask(what, p) ==
    [n |-> sent, what |-> what, project |-> p, got |-> None]

(* switchProject: the project is current at once, its shots are asked for. *)
SwitchTo(p, others) ==
    /\ sent < MaxSent
    /\ current' = p
    /\ requests' = others \cup {Ask("shots", p)}
    /\ sent' = sent + 1

(* loadProjects *)
LoadProjects ==
    /\ sent < MaxSent
    /\ requests' = requests \cup {Ask("list", None)}
    /\ sent' = sent + 1

PageInit ==
    /\ current = None /\ view = NoView
    /\ posted = {} /\ timer = None /\ polls = {} /\ newest = None /\ told = {}
    /\ tasks = <<>> /\ clearAsked = FALSE
    /\ overtaken = FALSE /\ crossed = {}

(* A click on a project of the menu, which may be older than the rows. *)
SwitchProject(p) ==
    /\ p \in Projects
    /\ SwitchTo(p, requests)
    /\ UNCHANGED <<libVars, view, tasks, posted, timer, polls, newest, told, overtaken, crossed>>

(* The server reads what a request asks for. *)
RequestRead(r) ==
    /\ r.got = None
    /\ requests' = (requests \ {r}) \cup
         {[r EXCEPT !.got = IF r.what = "list" THEN projects ELSE ShotsOf(r.project)]}
    /\ UNCHANGED <<libVars, current, view, sent, tasks, posted, timer, polls, newest, told,
                   overtaken, crossed>>

(* The list has come: without a current project its first one is chosen. *)
ListArrives(r) ==
    /\ r.what = "list" /\ r.got # None
    /\ IF current = None /\ r.got # {}
       THEN \E p \in r.got : SwitchTo(p, requests \ {r})
       ELSE requests' = requests \ {r} /\ UNCHANGED <<current, sent>>
    /\ UNCHANGED <<libVars, view, tasks, posted, timer, polls, newest, told, overtaken, crossed>>

(* The shots have come: the timeline shows them, whatever is current now. *)
ShotsArrive(r) ==
    /\ r.what = "shots" /\ r.got # None
    /\ view' = [project |-> r.project, shots |-> r.got]
    /\ requests' = requests \ {r}
    /\ overtaken' = (overtaken \/ \E q \in requests : q.what = "shots" /\ q.n < r.n)
    /\ UNCHANGED <<libVars, current, sent, tasks, posted, timer, polls, newest, told, crossed>>

(* A request fails: the timeline is left as it was. *)
RequestFails(r) ==
    /\ requests' = requests \ {r}
    /\ overtaken' = (overtaken \/ r.what = "shots")
    /\ UNCHANGED <<libVars, current, view, sent, tasks, posted, timer, polls, newest, told,
                   crossed>>

-----------------------------------------------------------------------------
(* Tasks live and die with their shots; their life is TaskLifecycle's. *)

TasksWithout(gone) == Without(tasks, {t \in DOMAIN tasks : tasks[t].shot \in gone})

Later == [pending |-> {"processing"}, processing |-> Final \cup {"pending"},
          completed |-> {}, failed |-> {}]

TaskAdvances(t) ==
    /\ t \in DOMAIN tasks
    /\ \E status \in Later[tasks[t].status] : tasks' = [tasks EXCEPT ![t].status = status]
    /\ UNCHANGED <<libVars, pageVars>>

(* The menu's delete button: the rows go and the list is loaded again; the
   current project stays current even when it is the one deleted. *)
PageDeletesProject(p) ==
    /\ DeleteProject(p)
    /\ tasks' = TasksWithout(ShotsOf(p))
    /\ LoadProjects
    /\ UNCHANGED <<current, view, posted, timer, polls, newest, told, overtaken, crossed>>

(* The button that clears everything, disabled until the answer comes. *)
PageAsksClear ==
    /\ ~clearAsked /\ clears < MaxPageClears
    /\ \E t \in Threads : ClearRows(t, FALSE)
    /\ clearAsked' = TRUE
    /\ tasks' = <<>>
    /\ UNCHANGED pageVars

(* The answer: no project is current, the timeline is emptied and the list
   is asked for. *)
PageForgetsCurrent == current' = None /\ UNCHANGED view
PageForgets == current' = None /\ view' = NoView
ClearAnswered ==
    /\ clearAsked /\ ~Clearing
    /\ clearAsked' = FALSE
    /\ LoadProjects
    /\ PageForgets
    /\ overtaken' = (overtaken \/ \E q \in requests : q.what = "shots")
    /\ UNCHANGED <<libVars, tasks, posted, timer, polls, newest, told, crossed>>

(* The answer is lost: an alert, and nothing else. *)
ClearAnswerLost ==
    /\ clearAsked /\ ~Clearing
    /\ clearAsked' = FALSE
    /\ UNCHANGED <<libVars, pageVars, tasks>>

(* submitGeneration for a shot of the timeline; the row may have gone. *)
Generate(t, s) ==
    /\ s \in view.shots
    /\ t \notin used
    /\ used' = used \cup {t}
    /\ IF s \in DOMAIN shots
       THEN /\ tasks' = With(tasks, t, [shot |-> s, status |-> "pending"])
            /\ posted' = posted \cup {t}
       ELSE UNCHANGED <<tasks, posted>>
    /\ UNCHANGED <<rowVars, files, upload, creating, clearing, clears, raced, lost, stray,
                   current, view, requests, sent, timer, polls, newest, told, overtaken, crossed>>

(* Its answer starts the polling of the new task and ends the timer of any
   other; a status request of another task may still be under way. *)
GenerateAnswered(t) ==
    /\ t \in posted
    /\ posted' = posted \ {t}
    /\ timer' = t /\ newest' = t
    /\ crossed' = IF \E q \in polls : q.task # t THEN crossed \cup {t} ELSE crossed
    /\ UNCHANGED <<libVars, current, view, requests, sent, tasks, polls, told, overtaken>>

(* The timer has run out: the status is asked for. *)
TimerFires ==
    /\ timer # None
    /\ polls' = polls \cup {[task |-> timer, got |-> None]}
    /\ timer' = None
    /\ UNCHANGED <<libVars, current, view, requests, sent, tasks, posted, newest, told,
                   overtaken, crossed>>

(* get_generation: the status, or 404 for a task that has gone. *)
PollRead(q) ==
    /\ q.got = None
    /\ polls' = (polls \ {q}) \cup
         {[q EXCEPT !.got = IF q.task \in DOMAIN tasks THEN tasks[q.task].status ELSE "detail"]}
    /\ UNCHANGED <<libVars, current, view, requests, sent, tasks, posted, timer, newest, told,
                   overtaken, crossed>>

(* A final status is shown; any other one, and 404, sets the timer again,
   which takes it from whichever task had it. *)
AsksAgainProcessing(status) == status = "processing"
AsksAgain(status) == status \notin Final
PollArrives(q) ==
    /\ q.got # None
    /\ polls' = polls \ {q}
    /\ IF AsksAgain(q.got)
       THEN timer' = q.task /\ UNCHANGED told
       ELSE /\ UNCHANGED timer
            /\ told' = IF q.got \in Final THEN told \cup {q.task} ELSE told
    /\ UNCHANGED <<libVars, current, view, requests, sent, tasks, posted, newest, overtaken,
                   crossed>>

(* A status request fails: the page says so and asks no more. *)
PollFails(q) ==
    /\ polls' = polls \ {q}
    /\ crossed' = crossed \cup {q.task}
    /\ UNCHANGED <<libVars, current, view, requests, sent, tasks, posted, timer, newest, told,
                   overtaken>>

-----------------------------------------------------------------------------
(* Bound: who is there.  Editors of an empty library, or uploaders or one
   page on a library in which every project has shots. *)
Init ==
    /\ PageInit
    /\ \/ /\ audience = "editors"
          /\ LibInit
          /\ requests = {} /\ sent = 0
       \/ /\ audience \in {"uploaders", "page"}
          /\ projects = Projects
          /\ shots \in [Shots -> [project : Projects, ord : 0 .. 1]]
          /\ \A p \in Projects : ShotOrds(p) = 0 .. Cardinality(ShotsOf(p)) - 1
          /\ \A p \in Projects : ShotsOf(p) # {}
          /\ assets = <<>> /\ refs = <<>> /\ files = {}
          /\ upload = [u \in Uploads |-> None]
          /\ creating = [t \in Threads |-> None]
          /\ clearing = [t \in Threads |-> None] /\ clears = 0
          /\ used = Projects \cup Shots
          /\ raced = {} /\ lost = {} /\ stray = {}
          /\ requests = {[n |-> 0, what |-> "list", project |-> None, got |-> None]}
          /\ sent = 1

PageNext ==
    \/ /\ UNCHANGED clearAsked
       /\ \/ \E p \in Projects : SwitchProject(p) \/ PageDeletesProject(p)
          \/ \E r \in requests :
               RequestRead(r) \/ ListArrives(r) \/ ShotsArrive(r) \/ RequestFails(r)
          \/ \E t \in Tasks, s \in Shots : Generate(t, s)
          \/ \E t \in Tasks : GenerateAnswered(t) \/ TaskAdvances(t)
          \/ TimerFires
          \/ \E q \in polls : PollRead(q) \/ PollArrives(q) \/ PollFails(q)
    \/ PageAsksClear
    \/ ClearAnswered
    \/ ClearAnswerLost
    \/ \E t \in Threads : ClearLists(t) /\ UNCHANGED <<pageVars, clearAsked, tasks>>

Next ==
    /\ UNCHANGED audience
    /\ \/ audience = "editors" /\ EditNext /\ UNCHANGED <<pageVars, clearAsked, tasks>>
       \/ audience = "uploaders" /\ UploadNext /\ UNCHANGED <<pageVars, clearAsked, tasks>>
       \/ audience # "page" /\ RemoveNext /\ UNCHANGED <<pageVars, clearAsked, tasks>>
       \/ audience = "page" /\ PageNext

Spec == Init /\ [][Next]_allVars

-----------------------------------------------------------------------------
RequestTypeOK(r) ==
    /\ r.n \in 0 .. MaxSent /\ r.project \in Projects \cup {None}
    /\ \/ r.what = "list" /\ r.got \in {None} \cup SUBSET Projects
       \/ r.what = "shots" /\ r.got \in {None} \cup SUBSET Shots

(* Every row, file, request and field of the page has its type; a task has
   its shot. *)
TypeOK ==
    /\ LibTypeOK
    /\ current \in Projects \cup {None}
    /\ view \in [project : Projects \cup {None}, shots : SUBSET Shots]
    /\ \A r \in requests : RequestTypeOK(r)
    /\ DOMAIN tasks \subseteq Tasks /\ posted \subseteq Tasks
    /\ \A t \in DOMAIN tasks :
         tasks[t] \in [shot : DOMAIN shots, status : {"pending", "processing"} \cup Final]
    /\ {timer, newest} \subseteq Tasks \cup {None}
    /\ \A q \in polls : q.task \in Tasks
    /\ told \subseteq Tasks /\ crossed \subseteq Tasks

(* Once the requests of a page have been answered, in the order they were
   sent and without a failure, the timeline shows the current project. *)
TimelineIsCurrent ==
    requests = {} /\ ~overtaken => view.project = current

(* The newest task is followed until its final status has been shown,
   whether its row is waiting, running or deleted, unless a status request
   of another task was under way when its polling began, or one of its own
   failed. *)
NewestIsFollowed ==
    newest # None /\ newest \notin told \cup crossed =>
        timer = newest \/ \E q \in polls : q.task = newest
=============================================================================
