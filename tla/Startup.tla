------------------------------ MODULE Startup ------------------------------
(***************************************************************************)
(* The start of the service on one machine: scripts/clean_launch.py looks  *)
(* for a free port and starts a process; the process checks itself,        *)
(* creates or migrates the database, resumes the queue and binds the port  *)
(* (backend/main.py, backend/database.py).  Meanwhile the working trees go *)
(* on changing (Release), and the service may be launched more than once,  *)
(* with another version of the code.                                       *)
(***************************************************************************)
EXTENDS Release

CONSTANTS
    Server,      \* the machine that the service runs on
    Database,    \* the module that holds the schema
    Launches,    \* bound: calls of launch()
    Ports        \* find_available_port tries them in this order

ASSUME StartupAssumption ==
    /\ Server \in Machines /\ Database \in Core
    /\ Ports \subseteq Nat
    /\ None \notin Launches \cup Ports
    /\ \A s \in SUBSET Versions : s # None

VARIABLES
    phase,       \* where each launched process is
    port,        \* the port its launcher chose
    loaded,      \* the modules it has imported, until its self-check
    schema,      \* the SCHEMA_VERSION of the code it runs
    target,      \* the migration it has arrived at
    opened,      \* the process whose page the launcher opened in the browser
    version,     \* PRAGMA user_version
    columns,     \* the migrations whose changes the tables have, None without tables
    checked,     \* history: the self-check passed over what it runs, see CheckSelf
    overlapped,  \* history: another process was starting beside it
    raced,       \* history: another launcher chose its port before it was opened
                 \* there and served
    torn         \* history: a start ended between changing tables and stamping
                 \* them, or two of them ran at once

startVars == <<phase, port, loaded, schema, target, opened, version, columns, checked,
               overlapped, raced, torn>>
vars      == <<relVars, startVars>>

Starting  == {"spawned", "imported", "creating", "altering", "stamping", "resuming", "binding"}
Serving   == {l \in Launches : phase[l] = "serving"}
MaxSchema == CHOOSE v \in Versions : \A w \in Versions : w <= v

TypeOK ==
    /\ RelTypeOK
    /\ phase \in [Launches -> Starting \cup {"none", "serving", "dead"}]
    /\ port \in [Launches -> Ports \cup {None}]
    /\ loaded \in [Launches -> [Modules -> Content] \cup {None}]
    /\ schema \in [Launches -> Content]
    /\ target \in [Launches -> 0 .. MaxSchema + 1]
    /\ opened \in [Launches -> Launches \cup {None}]
    /\ version \in 0 .. MaxSchema
    /\ columns = None \/ columns \subseteq Versions
    /\ checked \in [Launches -> BOOLEAN]
    /\ overlapped \in [Launches -> BOOLEAN]
    /\ raced \in [Launches -> BOOLEAN]
    /\ torn \in BOOLEAN

(* A new machine, or one with the database of the code before the first    *)
(* migration.                                                              *)
Init ==
    /\ RelInit
    /\ phase = [l \in Launches |-> "none"]
    /\ port = [l \in Launches |-> None]
    /\ loaded = [l \in Launches |-> None]
    /\ schema = [l \in Launches |-> 0]
    /\ target = [l \in Launches |-> 0]
    /\ opened = [l \in Launches |-> None]
    /\ version = 0
    /\ columns \in {None, {}}
    /\ checked = [l \in Launches |-> FALSE]
    /\ overlapped = [l \in Launches |-> FALSE]
    /\ raced = [l \in Launches |-> FALSE]
    /\ torn = FALSE

Go(l, place) == phase' = [phase EXCEPT ![l] = place]

(* A mutant of Free: the port is taken as it is configured. *)
NotProbed == Ports

(* Ports that can be bound. *)
Free == Ports \ {port[l] : l \in Serving}

(* launch(): the first port that can be bound now; the process is started. *)
Launch(l) ==
    /\ phase[l] = "none"
    /\ Free # {}
    /\ LET p    == CHOOSE q \in Free : \A r \in Free : q <= r
           same == {k \in Launches :
                       port[k] = p /\ (opened[k] = None \/ phase[k] \in Starting)}
           busy == {k \in Launches : phase[k] \in Starting}
       IN  /\ port' = [port EXCEPT ![l] = p]
           /\ raced' = [k \in Launches |-> raced[k] \/ k \in same \/ (k = l /\ same # {})]
           /\ overlapped' = [k \in Launches |-> \/ overlapped[k]
                                                \/ k \in busy \cup Serving
                                                \/ k = l /\ busy # {}]
           /\ torn' = (torn \/ busy # {})
    /\ Go(l, "spawned")
    /\ UNCHANGED <<loaded, schema, target, opened, version, columns, checked>>

(* wait_port connects to the port, whoever serves it. *)
WaitPort(l) ==
    /\ phase[l] # "none" /\ opened[l] = None
    /\ \E k \in Serving : port[k] = port[l] /\ opened' = [opened EXCEPT ![l] = k]
    /\ UNCHANGED <<phase, port, loaded, schema, target, version, columns, checked, overlapped, raced, torn>>

(* main.py imports the modules of the application, as the tree is then.    *)
Import(l) ==
    /\ phase[l] = "spawned"
    /\ loaded' = [loaded EXCEPT ![l] = code[Server]]
    /\ schema' = [schema EXCEPT ![l] = code[Server][Database]]
    /\ Go(l, "imported")
    /\ UNCHANGED <<port, target, opened, version, columns, checked, overlapped, raced, torn>>

(* Some successful signing confirmed what process l runs, but for modules  *)
(* whose file is no longer what it imported.                               *)
Confirmed(l) ==
    \E s \in signed : \A f \in Modules :
        s.code[f] # 0 /\ loaded[l][f] = code[Server][f] => s.code[f] = loaded[l][f]

(* startup(): the self-check, of the files as they are by now.             *)
(* INTEGRITY_ENFORCE is on, its default.                                   *)
CheckSelf(l) ==
    /\ phase[l] = "imported"
    /\ IF SelfCheck(Server, Secrets)
       THEN Go(l, "creating") /\ checked' = [checked EXCEPT ![l] = Confirmed(l)]
       ELSE Go(l, "dead") /\ UNCHANGED checked
    /\ loaded' = [loaded EXCEPT ![l] = None]
    /\ secret' = [secret EXCEPT ![Server] = @ \/ (~EdValid(Server) /\ sigHmac[Server] # None)]
    /\ UNCHANGED <<port, schema, target, opened, version, columns, overlapped, raced, torn>>

(* A mutant of FirstStep: the loop over the migrations stops one short. *)
FirstStepShort(l) == IF version + 1 >= schema[l] THEN "resuming" ELSE "altering"

(* Where the loop over range(current + 1, SCHEMA_VERSION + 1) begins. *)
FirstStep(l) == IF version = schema[l] THEN "resuming" ELSE "altering"

(* init_db creates the tables that are not there, with every column that   *)
(* this code knows, and reads the version: a newer database is refused.    *)
Create(l) ==
    /\ phase[l] = "creating"
    /\ columns' = IF columns = None THEN 1 .. schema[l] ELSE columns
    /\ IF version > schema[l]
       THEN Go(l, "dead") /\ UNCHANGED target
       ELSE /\ target' = [target EXCEPT ![l] = version + 1]
            /\ Go(l, FirstStep(l))
    /\ UNCHANGED <<port, loaded, schema, opened, version, checked, overlapped, raced, torn>>

(* _apply_migrations: the statements of a version; a column that is there  *)
(* already is no error.  Each statement commits by itself ...              *)
Alter(l) ==
    /\ phase[l] = "altering"
    /\ columns' = columns \cup {target[l]}
    /\ Go(l, "stamping")
    /\ UNCHANGED <<port, loaded, schema, target, opened, version, checked, overlapped, raced, torn>>

(* ... and so does the version behind them. *)
Stamp(l) ==
    /\ phase[l] = "stamping"
    /\ version' = target[l]
    /\ target' = [target EXCEPT ![l] = @ + 1]
    /\ Go(l, IF target[l] = schema[l] THEN "resuming" ELSE "altering")
    /\ UNCHANGED <<port, loaded, schema, opened, columns, checked, overlapped, raced, torn>>

(* resume_unfinished_tasks, whose failure does not matter here. *)
Resume(l) ==
    /\ phase[l] = "resuming"
    /\ Go(l, "binding")
    /\ UNCHANGED <<port, loaded, schema, target, opened, version, columns, checked, overlapped, raced, torn>>

(* uvicorn binds after the startup handlers; a port taken meanwhile ends   *)
(* the process.                                                            *)
Bind(l) ==
    /\ phase[l] = "binding"
    /\ Go(l, IF port[l] \in {port[k] : k \in Serving} THEN "dead" ELSE "serving")
    /\ UNCHANGED <<port, loaded, schema, target, opened, version, columns, checked, overlapped, raced, torn>>

(* The process ends, at any point: it is stopped, killed, or a statement   *)
(* finds the database locked.                                              *)
End(l) ==
    /\ phase[l] \in Starting \cup {"serving"}
    /\ Go(l, "dead")
    /\ loaded' = [loaded EXCEPT ![l] = None]
    /\ torn' = (torn \/ phase[l] \in {"altering", "stamping"})
    /\ UNCHANGED <<port, schema, target, opened, version, columns, checked, overlapped, raced>>

Start(l) ==
    \/ Launch(l) \/ WaitPort(l) \/ Import(l) \/ Create(l) \/ Alter(l) \/ Stamp(l) \/ Resume(l)
    \/ Bind(l) \/ End(l)

Next ==
    \/ (\E m \in Machines : RelStep(m)) /\ UNCHANGED startVars
    \/ \E l \in Launches : Start(l) /\ UNCHANGED relVars
    \/ \E l \in Launches :
          CheckSelf(l) /\ UNCHANGED <<trees, private, newKey, signed, gated, ops>>

Spec == Init /\ [][Next]_vars

-----------------------------------------------------------------------------
(* Whatever was edited, generated, signed, rotated and checked out, a      *)
(* process that got past its self-check runs, of every listed module that  *)
(* it had imported by then, content that some successful signing confirmed *)
(* -- unless the file was changed between the import and the self-check,   *)
(* which hashes the files and not what runs.                               *)
RunsSignedCode ==
    \A l \in Launches :
        phase[l] \in (Starting \ {"spawned", "imported"}) \cup {"serving"} => checked[l]

(* A process that serves does so over a database with every change that    *)
(* its code needs, whatever killed the starts before it, and none that it  *)
(* does not know, unless a start of newer code ended between changing the  *)
(* tables and stamping the version, or two starts ran at once.  Nothing    *)
(* keeps a second process with other code from migrating the database      *)
(* below the first: a process that this happens to is left out.            *)
SchemaFits ==
    \A l \in Serving : ~overlapped[l] =>
        /\ version = schema[l] /\ 1 .. schema[l] \subseteq columns
        /\ ~torn => columns = 1 .. schema[l]

(* The page that a launcher opens is served by the process it started,     *)
(* unless another launcher chose the same port: between probing a port and *)
(* binding it the port is free, also when the launcher that probed it has  *)
(* opened the page of a third process since.                               *)
OpensItsOwn ==
    \A l \in Launches : opened[l] # None /\ ~raced[l] => opened[l] = l
=============================================================================
