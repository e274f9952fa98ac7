----------------------------- MODULE CodeDiscovery -----------------------------
(***************************************************************************)
(* shared/discovery.py in one worker process: how a request finds and loads *)
(* the code of a workflow or a data provider, and what that code imports     *)
(* later, while files are saved and deleted by the editor, by git and by     *)
(* other hosts.  With the callers of discovery: the endpoints of             *)
(* endpoints_handlers.py, data_providers_handlers.py, validation, and the    *)
(* import hook of import_restrictor.py.                                      *)
(*                                                                         *)
(* A load has no await, so a process is in one load at a time and its        *)
(* executions stand still meanwhile; the files do not.  The version of a     *)
(* file is its place in the history text[f].                                 *)
(***************************************************************************)
EXTENDS Naturals, Sequences, FiniteSetsExt

CONSTANTS
    Home, Platform,     \* the Python files of the two workspace directories
    Helper,             \* a file in a directory of Home, that others import
    Names,              \* of workflows and data providers
    Requests,
    Nobody,
    Settings,           \* what a behaviour starts from: a set of Setting
    MaxSaves,           \* bound: saves and deletions of files
    MaxFaults,          \* bound: failing requests to storage
    MaxRecycles,        \* bound: restarts of the process
    MaxImports          \* bound: versions of the Helper that one request gets

Files == Home \cup Platform
Kinds == {"workflow", "provider"}

\* A decorated function.  open: what an endpoint makes of it, where closed stands for no
\* endpoint and for other methods, and of a provider, required parameters that were not given.
\* sound: its metadata fits the models of the API.
Def == [kind: Kinds, name: Names, open: {"closed", "async", "sync"}, sound: BOOLEAN]

\* The source of a file.  fine: nothing but an import that fails stops it; helper: how it imports
\* Helper, as module (from directory.helper import ..., which takes it from sys.modules) or as
\* member (from directory import helper, which takes what the directory's module has);
\* internal: it imports such a module of the platform.
Styles == {"module", "member"}
Internals == {"shared", "functions"}
Code == [fine: BOOLEAN, defs: SUBSET Def, helper: Styles \cup {"none"},
         internal: Internals \cup {"none"}]
Deleted == [fine |-> FALSE, defs |-> {}, helper |-> "none", internal |-> "none"]

\* execute: by the engine; options: of a provider; call: an endpoint; list: of all of a kind.
Task == [op: {"execute", "options", "call", "list", "validate"}, kind: Kinds, name: Names]

\* files: what the directories hold; saves: what is saved; hasty: a save may fall into the
\* second of the one before and leave the size as it was, so that a .pyc still matches;
\* locked: files whose .pyc may resist deletion; namespace: Helper's directory has no __init__.py;
\* handlers: internal modules that handlers of the platform import.
Setting == [files: [Files -> Code], saves: SUBSET (Files \X Code), tasks: [Requests -> Task],
            hasty: BOOLEAN, locked: SUBSET Files, namespace: BOOLEAN,
            handlers: SUBSET Internals]

ASSUME DiscoveryAssumption ==
    /\ Home \cap Platform = {} /\ Helper \in Home
    /\ Nobody \notin Requests /\ Nobody \notin Files
    /\ \A s \in Settings :
          /\ s.files \in [Files -> Code] /\ s.tasks \in [Requests -> Task]
          /\ s.saves \subseteq Files \X Code
          /\ s.hasty \in BOOLEAN /\ s.locked \subseteq Files /\ s.namespace \in BOOLEAN
          /\ s.handlers \subseteq Internals
          /\ s.files[Helper].helper = "none"
          /\ \A c \in Code : <<Helper, c>> \in s.saves => c.helper = "none"
    /\ MaxSaves \in Nat /\ MaxFaults \in Nat /\ MaxRecycles \in Nat /\ MaxImports \in Nat

VARIABLES
    setting,
    text,       \* [Files -> Seq([code, stamp])]: a file's history, the last is on disk
    cache,      \* versions, 0 for none: of each file in its .pyc; of the Helper in sys.modules
                \* (imported), and in the module of its directory (member)
    kept,       \* history: files whose .pyc once could not be deleted
    internals,  \* the internal modules in sys.modules
    job,        \* the load in progress
    req,        \* [Requests -> what a request has come to]
    row,        \* [Requests -> status of the execution row of an endpoint call]
    faults, recycles

vars == <<setting, text, cache, kept, internals, job, req, row, faults, recycles>>

Cache == [pyc: [Files -> Nat], imported: Nat, member: Nat]
Got == [style: Styles, version: Nat]    \* an import of the Helper

Idle == [on |-> Nobody, places |-> <<>>, todo |-> {}, file |-> Nobody, read |-> 0]
Fresh == [phase |-> "new", since |-> [f \in Files |-> 0], till |-> [f \in Files |-> 0],
          file |-> Nobody, main |-> 0, got |-> {}, listed |-> {}]

Version(f) == Len(text[f])
Versions == [f \in Files |-> Version(f)]
CodeAt(f, v) == text[f][v].code
OnDisk(f) == CodeAt(f, Version(f)) # Deleted
TaskOf(r) == setting.tasks[r]

DiscoveryInit ==
    /\ setting \in Settings
    /\ text = [f \in Files |-> <<[code |-> setting.files[f], stamp |-> 1]>>]
    /\ cache = [pyc |-> [f \in Files |-> 0], imported |-> 0, member |-> 0]
    /\ kept = {} /\ internals = {}
    /\ job = Idle
    /\ req = [r \in Requests |-> Fresh]
    /\ row = [r \in Requests |-> "none"]
    /\ faults = 0 /\ recycles = 0

-----------------------------------------------------------------------------
\* Files

\* Somebody saves or deletes a file.  A new second, or another size, is a new stamp.
Save(f, code, stamp) ==
    /\ <<f, code>> \in setting.saves \/ code = Deleted
    /\ code # CodeAt(f, Version(f))
    /\ text' = [text EXCEPT ![f] = Append(@, [code |-> code, stamp |-> stamp])]

Saves == MapThenSumSet(LAMBDA f : Version(f) - 1, Files)

SaveFile ==
    /\ Saves < MaxSaves
    /\ \E f \in Files, code \in {s[2] : s \in setting.saves} \cup {Deleted} :
          LET last == text[f][Version(f)].stamp IN
          \E stamp \in {last + 1} \cup (IF setting.hasty THEN {last} ELSE {}) :
             Save(f, code, stamp)
    /\ UNCHANGED <<setting, cache, kept, internals, job, req, row, faults, recycles>>

-----------------------------------------------------------------------------
\* Imports

\* Mutant of Cleared: the module of the Helper stays.
ClearedButModules(c, left) ==
    [c EXCEPT !.pyc = [f \in Files |-> IF f \in left THEN c.pyc[f] ELSE 0]]

\* Mutant of Cleared: the .pyc files stay.
ClearedModules(c, left) ==
    [c EXCEPT !.imported = 0, !.member = IF setting.namespace THEN c.member ELSE 0]

\* Workspace modules leave sys.modules, .packages aside, and their .pyc files are deleted, but
\* for those that resist.  The module of a directory without __init__.py has no file, and stays
\* with the members it has.
Cleared(c, left) ==
    [pyc |-> [f \in Files |-> IF f \in left THEN c.pyc[f] ELSE 0],
     imported |-> 0,
     member |-> IF setting.namespace THEN c.member ELSE 0]

Keep(left) == kept' = kept \cup {f \in left : cache.pyc[f] # 0}

\* What loading f gives: a .pyc counts if it was made from a source of the same time and size.
FromDisk(c, f) ==
    IF c.pyc[f] # 0 /\ text[f][c.pyc[f]].stamp = text[f][Version(f)].stamp
    THEN c.pyc[f] ELSE Version(f)

\* What importing the Helper gives: what is in memory, or else what loading it gives.
InMemory(c, style) == IF style = "member" /\ c.member # 0 THEN c.member ELSE c.imported
HelperFor(c, style) ==
    IF InMemory(c, style) # 0 THEN InMemory(c, style) ELSE FromDisk(c, Helper)

\* That import does not raise.
HelperWorks(c, style) ==
    \/ InMemory(c, style) # 0
    \/ OnDisk(Helper) /\ CodeAt(Helper, FromDisk(c, Helper)).fine

\* And what it leaves behind: where the Helper is loaded, its directory gets it as a member.
WithHelper(c, style) ==
    LET v == FromDisk(c, Helper) IN
    IF InMemory(c, style) # 0 \/ ~OnDisk(Helper) THEN c
    ELSE IF CodeAt(Helper, v).fine
    THEN [pyc |-> [c.pyc EXCEPT ![Helper] = v], imported |-> v, member |-> v]
    ELSE [c EXCEPT !.pyc[Helper] = v]

\* find_spec is asked for what sys.modules does not have.  It refuses all internal modules to
\* files of Home, some to files of Platform, and none to others (Nobody: a temporary file).
Permitted(f, internal) ==
    \/ internal \in internals
    \/ f \in Platform /\ internal = "shared"
    \/ f = Nobody

Importable(c, f, code) ==
    /\ code.fine
    /\ code.helper # "none" => HelperWorks(c, code.helper)
    /\ code.internal # "none" => Permitted(f, code.internal)

\* What is left behind when f was run in this version.
Ran(c, f, v, code) ==
    LET used == IF code.fine /\ code.helper # "none" THEN WithHelper(c, code.helper) ELSE c IN
    IF f = Nobody THEN used
    ELSE [used EXCEPT !.pyc[f] = v,
                      !.imported = IF f = Helper /\ code.fine THEN v ELSE @]

Imports(c, f, v, code) ==
    /\ cache' = Ran(c, f, v, code)
    /\ internals' = internals \cup
         (IF code.internal # "none" /\ Importable(c, f, code) THEN {code.internal} ELSE {})

\* What a load looks for, and what a list takes from a module.
Matches(task, code) ==
    {d \in code.defs : d.kind = task.kind /\ (task.op = "list" \/ d.name = task.name)}

-----------------------------------------------------------------------------
\* Loads and lists

Unmoved == UNCHANGED <<setting, text, row, faults, recycles>>

\* Mutant of Workspaces: the platform's directory comes first.
PlatformFirst == <<Platform, Home>>

Workspaces == <<Home, Platform>>

Begin(r) ==
    /\ job.on = Nobody /\ req[r].phase = "new" /\ TaskOf(r).op # "validate"
    /\ job' = [Idle EXCEPT !.on = r, !.places = Workspaces]
    /\ req' = [req EXCEPT ![r].phase = "loading", ![r].since = Versions]
    /\ \E left \in SUBSET setting.locked : Keep(left) /\ cache' = Cleared(cache, left)
    /\ UNCHANGED internals /\ Unmoved

\* The files of the next directory, as they are when it is listed.
ListDirectory ==
    /\ job.on # Nobody /\ job.file = Nobody /\ job.todo = {} /\ job.places # <<>>
    /\ job' = [job EXCEPT !.places = Tail(@), !.todo = {f \in Head(job.places) : OnDisk(f)}]
    /\ UNCHANGED <<cache, kept, internals, req>> /\ Unmoved

\* import_module_fresh clears everything for each file, then reads it: a file that has been
\* deleted meanwhile cannot be imported, and is passed over.
ReadFile(f) ==
    /\ job.on # Nobody /\ job.file = Nobody /\ f \in job.todo
    /\ \E left \in SUBSET setting.locked :
          LET c == Cleared(cache, left) IN
          /\ Keep(left) /\ cache' = c
          /\ job' = IF OnDisk(f)
                    THEN [job EXCEPT !.todo = @ \ {f}, !.file = f, !.read = FromDisk(c, f)]
                    ELSE [job EXCEPT !.todo = @ \ {f}]
    /\ UNCHANGED <<internals, req>> /\ Unmoved

\* Mutant of After: a file that cannot be imported ends the search.
AfterFailing(f, v, works) == IF works THEN [job EXCEPT !.file = Nobody, !.read = 0]
                             ELSE [job EXCEPT !.file = Nobody, !.read = 0, !.todo = {}, !.places = <<>>]

\* Whether it could be imported or not, the next file is tried.
After(f, v, works) == [job EXCEPT !.file = Nobody, !.read = 0]

\* A list leaves out what the models do not accept.
Converts(d) == d.sound

\* What an endpoint does with its workflow, and a provider's handler with the inputs.
Dispatched(d) == CASE d.open = "closed" -> "refused"
                   [] d.open = "async" -> "queued"
                   [] d.open = "sync" -> "starting"
Accepted(d) == IF d.open = "closed" THEN "refused" ELSE "running"

Answered(task, d) == CASE task.op = "execute" -> "running"
                       [] task.op = "options" -> Accepted(d)
                       [] task.op = "call" -> Dispatched(d)

\* The file is run; a load that finds what it looks for ends there.
RunFile ==
    /\ job.file # Nobody
    /\ LET r == job.on
           f == job.file
           v == job.read
           code == CodeAt(f, v)
           works == Importable(cache, f, code)
           defs == IF works THEN Matches(TaskOf(r), code) ELSE {}
       IN  /\ Imports(cache, f, v, code)
           /\ IF TaskOf(r).op = "list" \/ defs = {}
              THEN /\ job' = After(f, v, works)
                   /\ req' = [req EXCEPT ![r].listed = @ \cup {d \in defs : Converts(d)}]
              ELSE /\ job' = Idle
                   /\ \E d \in defs :
                         req' = [req EXCEPT
                            ![r].phase = Answered(TaskOf(r), d), ![r].till = Versions,
                            ![r].file = f, ![r].main = v,
                            ![r].got = {[style |-> style, version |-> HelperFor(cache, style)] :
                                           style \in Styles \cap {code.helper}}]
    /\ UNCHANGED kept /\ Unmoved

\* All files have been tried: the list is complete, or nothing was found.
RunOut ==
    /\ job.on # Nobody /\ job.file = Nobody /\ job.todo = {} /\ job.places = <<>>
    /\ job' = Idle
    /\ req' = [req EXCEPT ![job.on].till = Versions,
                          ![job.on].phase = IF TaskOf(job.on).op = "list" THEN "listed" ELSE "absent"]
    /\ UNCHANGED <<cache, kept, internals>> /\ Unmoved

\* The file to validate, or the content in a temporary file outside the workspace, is imported
\* like any other, unless there is no such file or it does not compile.
Validate(r) ==
    /\ job.on = Nobody /\ req[r].phase = "new" /\ TaskOf(r).op = "validate"
    /\ req' = [req EXCEPT ![r].phase = "done"]
    /\ \/ UNCHANGED <<cache, kept, internals>>
       \/ \E left \in SUBSET setting.locked :
             LET c == Cleared(cache, left) IN
             /\ Keep(left)
             /\ \/ \E f \in Files : OnDisk(f) /\ Imports(c, f, FromDisk(c, f), CodeAt(f, FromDisk(c, f)))
                \/ \E s \in setting.saves : Imports(c, Nobody, 0, s[2])
    /\ UNCHANGED job /\ Unmoved

-----------------------------------------------------------------------------
\* What was loaded runs

\* A function imports the Helper when it is called.
ImportLate(r, style) ==
    /\ req[r].phase = "running" /\ job.on = Nobody /\ Cardinality(req[r].got) < MaxImports
    /\ HelperWorks(cache, style)
    /\ req' = [req EXCEPT ![r].got =
          @ \cup {[style |-> style, version |-> HelperFor(cache, style)]}]
    /\ cache' = WithHelper(cache, style)
    /\ UNCHANGED <<kept, internals, job>> /\ Unmoved

\* A handler of the platform imports its module.
UseInternal ==
    /\ job.on = Nobody
    /\ \E r \in Requests : req[r].phase = "running"
    /\ \E internal \in setting.handlers : internals' = internals \cup {internal}
    /\ UNCHANGED <<cache, kept, job, req>> /\ Unmoved

\* With the engine, or handed to the client as options.
End(r) ==
    /\ req[r].phase = "running" /\ job.on = Nobody /\ TaskOf(r).op # "call"
    /\ req' = [req EXCEPT ![r].phase = "done"]
    /\ UNCHANGED <<cache, kept, internals, job>> /\ Unmoved

Recycle ==
    /\ recycles < MaxRecycles
    /\ recycles' = recycles + 1
    /\ req' = [r \in Requests |-> IF req[r].phase \in {"loading", "starting", "running", "returned",
                                                         "raised"}
                                  THEN [req[r] EXCEPT !.phase = "killed"] ELSE req[r]]
    /\ job' = Idle /\ internals' = {}
    /\ cache' = [cache EXCEPT !.imported = 0, !.member = 0]
    /\ UNCHANGED <<setting, text, kept, row, faults>>

-----------------------------------------------------------------------------
\* A synchronous endpoint call keeps its own execution row

Still == UNCHANGED <<setting, text, cache, kept, internals, job, recycles>>

\* A request to storage may fail before or after it has written; one that raises is a fault.
Writes(r, status, exists, then, raising) ==
    \/ /\ exists
       /\ row' = [row EXCEPT ![r] = status]
       /\ req' = [req EXCEPT ![r].phase = then]
       /\ UNCHANGED faults
    \/ /\ faults < MaxFaults /\ faults' = faults + 1
       /\ req' = [req EXCEPT ![r].phase = raising]
       /\ \/ exists /\ row' = [row EXCEPT ![r] = status]
          \/ UNCHANGED row
    \/ /\ ~exists
       /\ req' = [req EXCEPT ![r].phase = raising]
       /\ UNCHANGED <<row, faults>>

CreateRow(r) ==
    /\ req[r].phase = "starting" /\ job.on = Nobody
    /\ Writes(r, "Running", TRUE, "running", "raised")
    /\ Still

\* The function is called here, without the engine: with the parameters it declares, converted
\* to their types, and the others dropped.
CallEnds(r) ==
    /\ req[r].phase = "running" /\ job.on = Nobody /\ TaskOf(r).op = "call"
    /\ \E how \in {"returned", "raised"} : req' = [req EXCEPT ![r].phase = how]
    /\ UNCHANGED <<row, faults>> /\ Still

\* Mutant of RecordReturn: what the update raises is logged and forgotten.
RecordQuietly(r) ==
    /\ req[r].phase = "returned" /\ job.on = Nobody
    /\ Writes(r, "Success", row[r] # "none", "Success", "Success")
    /\ Still

\* A failure to record the success is an exception like any of the function's.
RecordReturn(r) ==
    /\ req[r].phase = "returned" /\ job.on = Nobody
    /\ Writes(r, "Success", row[r] # "none", "Success", "raised")
    /\ Still

\* A failure to record the failure is the request's: it is answered with 500.
RecordRaise(r) ==
    /\ req[r].phase = "raised" /\ job.on = Nobody
    /\ Writes(r, "Failed", row[r] # "none", "Failed", "error")
    /\ Still

DiscoveryNext ==
    \/ SaveFile
    \/ \E r \in Requests : Begin(r)
    \/ ListDirectory
    \/ \E f \in Files : ReadFile(f)
    \/ RunFile
    \/ RunOut
    \/ \E r \in Requests : Validate(r)
    \/ \E r \in Requests, style \in Styles : ImportLate(r, style)
    \/ UseInternal
    \/ \E r \in Requests : End(r)
    \/ Recycle
    \/ \E r \in Requests : CreateRow(r)
    \/ \E r \in Requests : CallEnds(r)
    \/ \E r \in Requests : RecordReturn(r)
    \/ \E r \in Requests : RecordRaise(r)

DiscoverySpec == DiscoveryInit /\ [][DiscoveryNext]_vars

-----------------------------------------------------------------------------
\* Properties

\* v is no older than f was when the load of r began; or it came from a .pyc that could not be
\* deleted, made in the same second and of the same size.
Recent(r, f, v) ==
    \/ v >= req[r].since[f]
    \/ f \in kept /\ text[f][v].stamp = text[f][req[r].since[f]].stamp

\* Whatever ran, was validated or was imported in this process before, the code a request runs
\* is what its files held when its load began or something saved since: its own file, the
\* helper that file imported, and the helper it imports late.  Two exceptions are the code's:
\* a .pyc whose deletion failed (discovery.py:164), and a helper taken as member of a directory
\* without __init__.py, whose module is not cleared (discovery.py:181).
CodeIsFresh ==
    \A r \in Requests : req[r].file # Nobody =>
        /\ req[r].main <= req[r].till[req[r].file] /\ Recent(r, req[r].file, req[r].main)
        /\ \A g \in req[r].got :
              (setting.namespace => g.style = "module") => Recent(r, Helper, g.version)

\* f was as it is now during the whole load of r, with no .pyc left of another version, and
\* could be imported throughout.
Stayed(r, f) ==
    LET code == CodeAt(f, req[r].till[f])
        unchanged(g) == req[r].since[g] = req[r].till[g]
        same(g) == unchanged(g) /\ g \notin kept
    IN  /\ same(f) /\ code.fine
        /\ code.helper # "none" => same(Helper) /\ CodeAt(Helper, req[r].till[Helper]).fine
        /\ code.internal # "none" => f \in Platform /\ code.internal = "shared"

Earlier(f, g) == f \in Home /\ g \in Platform

\* Files that are saved, deleted or cannot be imported do not hide the others: what is defined
\* in a file that stayed is listed, and found unless another file defines it, where the user's
\* files come before the platform's; and what is listed was defined by a file then.
\* (discovery.py:316, a file that fails is logged and the scan goes on)
FindsWhatStayed ==
    \A r \in Requests :
        LET due(f) == IF Stayed(r, f) THEN Matches(TaskOf(r), CodeAt(f, req[r].till[f])) ELSE {}
        IN  /\ req[r].phase = "listed" =>
                 /\ \A f \in Files : {d \in due(f) : d.sound} \subseteq req[r].listed
                 /\ \A d \in req[r].listed : \E f \in Files :
                       \E v \in 1..req[r].till[f] : Recent(r, f, v) /\ d \in CodeAt(f, v).defs
            /\ req[r].phase = "absent" => \A f \in Files : due(f) = {}
            /\ req[r].file # Nobody => \A f \in Files : Earlier(f, req[r].file) => due(f) = {}

\* Whichever requests to storage fail, the status a synchronous endpoint call is answered with
\* is the status of its execution row, as far as only the call itself writes that row.
\* (endpoints_handlers.py:206)
AnsweredIsRecorded ==
    \A r \in Requests : req[r].phase \in {"Success", "Failed"} => row[r] = req[r].phase
=============================================================================
