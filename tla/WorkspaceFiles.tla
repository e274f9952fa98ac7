---------------------------- MODULE WorkspaceFiles ----------------------------
(***************************************************************************)
(* A file of the workspace and everybody who writes it: the code editor     *)
(* (functions/http/editor_files.py, shared/editor/file_operations.py), the  *)
(* form requests (shared/handlers/forms_handlers.py,                        *)
(* shared/repositories/forms_file.py), the package installer                *)
(* (functions/queue/package_worker.py, shared/package_manager.py) and       *)
(* workflows (bifrost/files.py).                                            *)
(*                                                                         *)
(* A form file has fields, requirements.txt has packages: both are a        *)
(* function from entries to values here, and every writer but a creation     *)
(* changes one entry of what it read.  Names refer to nodes, as they do in   *)
(* the file system: an open file stays open when its name goes.              *)
(***************************************************************************)
EXTENDS Naturals, FiniteSets, Functions

CONSTANTS
    Entries, Values,
    Newest, Unpinned,   \* what pip takes when no version is asked for, and how that is listed
    Requests,           \* HTTP requests and workflows
    Installs,           \* messages of package-installations
    Nodes,
    Cut,                \* what a file has between its truncation and its write
    None,
    Scenes,             \* records [kinds, origin]: what is asked for, and the file to begin with
    MaxDequeues,        \* extensions.queues.maxDequeueCount of host.json
    MaxCalls,           \* bound: requests and messages 
    MaxBreaks           \* bound: deaths and failed calls

Unset == "unset"
Gone == "gone"
Anything == "anything"

Contents == [Entries -> Values \cup {Unset}]
Kinds == {"create", "update", "archive", "save", "overwrite", "delete", "rename",
          "install", "installAll"}

\* The file, the temporary name next to it, and .archived/ or the new name of a rename.
Paths == {"file", "temp", "aside", "asideTemp"}
TempOf(path) == IF path = "aside" THEN "asideTemp" ELSE "temp"
Calls == Requests \cup Installs

ASSUME FilesAssumption ==
    /\ Requests \cap Installs = {}
    /\ {Newest, Unpinned} \subseteq Values
    /\ Values \cap {Unset, Gone, Anything} = {}
    /\ Entries # {} /\ Cut \notin Contents /\ None \notin Nodes \cup Contents \cup {Cut}
    /\ IsFiniteSet(Nodes) /\ IsFiniteSet(Calls)
    /\ Cardinality(Nodes) >= 4 + Cardinality(Calls)
    /\ \A s \in Scenes : s.kinds \subseteq Kinds /\ s.origin \in Contents \cup {None}
    /\ MaxDequeues \in Nat \ {0} /\ MaxCalls \in Nat /\ MaxBreaks \in Nat

VARIABLES
    names,      \* [Paths -> Nodes or None]
    data,       \* [Nodes -> Contents or Cut]
    installed,  \* .packages: [Entries -> Values or Unset]
    pc, call,
    dequeued,   \* [Installs -> deliveries of the message]
    scene, calls, breaks,
    due,        \* history: what each entry was last set to
    mixed       \* history: since nobody was at work, calls overlapped

fileVars == <<names, data, installed>>
callVars == <<pc, call, dequeued>>
bounds == <<scene, calls, breaks>>
history == <<due, mixed>>
filesVars == <<fileVars, callVars, bounds, history>>

Steps == {"idle", "viewing", "exists", "compare", "open", "write", "find", "load", "openTemp",
          "writeTemp", "replace", "move", "rename", "queued", "list", "copy", "append", "merge"}
Resting == {"idle", "viewing", "queued"}

Call == [kind: Kinds \cup {"none"}, entry: Entries, value: Values \cup {Unset},
         path: Paths, base: Contents \cup {Cut, None}, node: Nodes \cup {None},
         listed: BOOLEAN]

FilesTypeOK ==
    /\ names \in [Paths -> Nodes \cup {None}]
    /\ data \in [Nodes -> Contents \cup {Cut}]
    /\ installed \in [Entries -> Values \cup {Unset}]
    /\ pc \in [Calls -> Steps]
    /\ call \in [Calls -> Call]
    /\ dequeued \in [Installs -> 0..MaxDequeues]
    /\ scene \in Scenes /\ calls \in 0..MaxCalls /\ breaks \in 0..MaxBreaks
    /\ due \in [Entries -> Values \cup {Unset, Gone, Anything}]
    /\ mixed \in BOOLEAN
    \* no two names of one file, and a name for what a writer holds unless another removed it
    /\ \A p, q \in Paths : (p # q /\ names[p] # None) => names[p] # names[q]
    /\ \A c \in Calls : (pc[c] \in {"write", "writeTemp"}) <=> (call[c].node # None)

NoCall == [kind |-> "none", entry |-> CHOOSE e \in Entries : TRUE, value |-> Unset,
           path |-> "file", base |-> None, node |-> None, listed |-> FALSE]

FilesInit ==
    /\ scene \in Scenes
    /\ \E n \in Nodes :
          /\ names = [p \in Paths |-> IF p = "file" /\ scene.origin # None THEN n ELSE None]
          /\ data = [m \in Nodes |-> IF m = n /\ scene.origin # None THEN scene.origin ELSE Cut]
          /\ n = CHOOSE m \in Nodes : TRUE
    /\ installed = [e \in Entries |-> Unset]
    /\ pc = [c \in Calls |-> "idle"] /\ call = [c \in Calls |-> NoCall]
    /\ dequeued = [i \in Installs |-> 0]
    /\ calls = 0 /\ breaks = 0
    /\ due = IF scene.origin = None THEN [e \in Entries |-> Gone] ELSE scene.origin
    /\ mixed = FALSE

-----------------------------------------------------------------------------
(* The file system. *)

Exists(path) == names[path] # None
Read(path) == IF Exists(path) THEN data[names[path]] ELSE None
Blank == [e \in Entries |-> Unset]
Parsed(bytes) == IF bytes \in {Cut, None} THEN Blank ELSE bytes

Open == {call[c].node : c \in Calls} \ {None}
Free == Nodes \ (Range(names) \cup Open)

\* open(path, "w"): the file is there and empty.
Truncate(c, path) ==
    LET node == IF Exists(path) THEN names[path] ELSE CHOOSE n \in Free : TRUE
    IN /\ names' = [names EXCEPT ![path] = node]
       /\ data' = [data EXCEPT ![node] = Cut]
       /\ call' = [call EXCEPT ![c].node = node]

\* What has no name any more cannot be read.
Keep == data' = [n \in Nodes |-> IF n \in Range(names') THEN data[n] ELSE Cut]

Unlink(path) == names' = [names EXCEPT ![path] = None]

\* Over what another has written meanwhile, a shorter text leaves its tail.
Put(c, contents) ==
    LET node == call[c].node
    IN IF node \in Range(names)
       THEN \E bytes \in {contents} \cup ({Cut} \ {data[node]}) :
               data' = [data EXCEPT ![node] = IF @ = Cut THEN contents ELSE bytes]
       ELSE UNCHANGED data

Changed(c) == [Parsed(call[c].base) EXCEPT ![call[c].entry] = call[c].value]

-----------------------------------------------------------------------------
(* Requests and what they owe. *)

Others(c) == {d \in Calls \ {c} : pc[d] \notin Resting}

Begin(c, step) ==
    /\ pc' = [pc EXCEPT ![c] = step]
    /\ mixed' = (mixed \/ Others(c) # {})

Goto(c, step) == pc' = [pc EXCEPT ![c] = step] /\ UNCHANGED mixed

\* The call leaves the entries as owed says, if nothing came in between.
Finish(c, step, owed) ==
    /\ pc' = [pc EXCEPT ![c] = step]
    /\ due' = IF mixed THEN [e \in Entries |-> Anything] ELSE owed
    /\ mixed' = (mixed /\ Others(c) # {})

Answer(c, owed) == Finish(c, "idle", owed) /\ call' = [call EXCEPT ![c] = NoCall]
Refuse(c) == Answer(c, due)

Owing(c) ==
    [e \in Entries |-> IF e = call[c].entry THEN call[c].value
                       ELSE IF due[e] = Gone THEN Unset ELSE due[e]]
Nothing == [e \in Entries |-> Gone]

Counted == calls < MaxCalls /\ calls' = calls + 1

Arrive(c, kind, step) ==
    /\ c \in Requests /\ pc[c] = "idle" /\ kind \in scene.kinds /\ Counted
    /\ \E e \in Entries, v \in Values :
          call' = [call EXCEPT ![c] = [NoCall EXCEPT !.kind = kind, !.entry = e, !.value = v]]
    /\ Begin(c, step)
    /\ UNCHANGED <<fileVars, dequeued, scene, breaks, due>>

ArriveFor(c, kind, step) ==
    /\ c \in Requests /\ pc[c] = "idle" /\ kind \in scene.kinds /\ Counted
    /\ call' = [call EXCEPT ![c] = [NoCall EXCEPT !.kind = kind]]
    /\ Begin(c, step)
    /\ UNCHANGED <<fileVars, dequeued, scene, breaks, due>>

-----------------------------------------------------------------------------
(* The editor and workflows. *)

\* editor_read_file: the browser keeps the text and its etag while the user edits.
View(c) ==
    /\ c \in Requests /\ pc[c] = "idle" /\ "save" \in scene.kinds /\ Exists("file")
    /\ Counted
    /\ \E e \in Entries, v \in Values :
          call' = [call EXCEPT ![c] = [NoCall EXCEPT !.kind = "save", !.entry = e, !.value = v,
                                                     !.base = Read("file")]]
    /\ pc' = [pc EXCEPT ![c] = "viewing"]
    /\ UNCHANGED <<fileVars, dequeued, scene, breaks, history>>

\* editor_write_file with expected_etag.
Save(c) ==
    /\ pc[c] = "viewing"
    /\ Begin(c, "exists")
    /\ UNCHANGED <<fileVars, call, dequeued, bounds, due>>

CheckExists(c) ==
    /\ pc[c] = "exists"
    /\ \/ Exists("file") /\ Goto(c, "compare") /\ UNCHANGED <<call, due>>
       \/ ~Exists("file") /\ Refuse(c)
    /\ UNCHANGED <<fileVars, dequeued, bounds>>

\* Mutant of Compare: the etag is not compared.
CompareNothing(c) ==
    /\ pc[c] = "compare"
    /\ Goto(c, "open")
    /\ UNCHANGED <<fileVars, call, dequeued, bounds, due>>

\* A file that cannot be read, as when it is gone by now, is written all the same.
Compare(c) ==
    /\ pc[c] = "compare"
    /\ \/ Read("file") \in {None, call[c].base} /\ Goto(c, "open") /\ UNCHANGED <<call, due>>
       \/ Read("file") \notin {None, call[c].base} /\ Refuse(c)
    /\ UNCHANGED <<fileVars, dequeued, bounds>>

\* editor_write_file without expected_etag, and files.write of a workflow.
Overwrite(c) == Arrive(c, "overwrite", "open")

\* write_file opens the file, which empties it, and then writes.
OpenFile(c) ==
    /\ pc[c] = "open" /\ call[c].kind # "create"
    /\ Truncate(c, "file")
    /\ Goto(c, "write")
    /\ UNCHANGED <<installed, dequeued, bounds, due>>

\* What write_file is given: a save changes what it saw, an overwriting is a whole text.
WholeText(c) == [e \in Entries |-> call[c].value]
Text(c) == IF call[c].kind = "save" THEN Changed(c) ELSE WholeText(c)

WriteFile(c) ==
    /\ pc[c] = "write" /\ call[c].kind \in {"save", "overwrite"}
    /\ Put(c, Text(c))
    /\ Answer(c, IF call[c].kind = "save" THEN Owing(c) ELSE Text(c))
    /\ UNCHANGED <<names, installed, dequeued, bounds>>

\* editor_delete_path.
Delete(c) ==
    /\ c \in Requests /\ pc[c] = "idle" /\ "delete" \in scene.kinds /\ Exists("file")
    /\ Counted
    /\ Unlink("file")
    /\ mixed' = (Others(c) # {})
    /\ due' = Nothing
    /\ Keep
    /\ UNCHANGED <<installed, callVars, scene, breaks>>

\* editor_rename_path: the target is looked for, then the file is renamed over it.
Rename(c) == Exists("file") /\ ~Exists("aside") /\ ArriveFor(c, "rename", "rename")

RenameTo(c) ==
    /\ pc[c] = "rename"
    /\ \/ /\ Exists("file")
          /\ names' = [names EXCEPT !["aside"] = names["file"], !["file"] = None]
          /\ Answer(c, Nothing)
       \/ ~Exists("file") /\ Refuse(c) /\ UNCHANGED names
    /\ Keep /\ UNCHANGED <<installed, dequeued, bounds>>

-----------------------------------------------------------------------------
(* Forms. *)

\* scan_all_forms and load_form look through the whole workspace, .archived included, and skip
\* what they cannot parse.
Loads(path) == Read(path) \notin {None, Cut}
Found == {p \in {"file", "aside"} : Loads(p)}

\* create_form: no form has the new name yet.
Create(c) == ~Exists("file") /\ Arrive(c, "create", "open")

OpenForm(c) ==
    /\ pc[c] = "open" /\ call[c].kind = "create"
    /\ Truncate(c, "file")
    /\ Goto(c, "write")
    /\ UNCHANGED <<installed, dequeued, bounds, due>>

WriteForm(c) ==
    /\ pc[c] = "write" /\ call[c].kind = "create"
    /\ Put(c, WholeText(c))
    /\ Answer(c, WholeText(c))
    /\ UNCHANGED <<names, installed, dequeued, bounds>>

Update(c) == Arrive(c, "update", "find")

\* update_form finds the form ...
Find(c) ==
    /\ pc[c] = "find"
    /\ \/ Found = {} /\ Refuse(c)
       \/ \E p \in Found : /\ call' = [call EXCEPT ![c].path = p]
                           /\ Goto(c, "load") /\ UNCHANGED due
    /\ UNCHANGED <<fileVars, dequeued, bounds>>

\* ... and reads the file it was in.
Load(c) ==
    /\ pc[c] = "load"
    /\ \/ ~Loads(call[c].path) /\ Refuse(c)
       \/ /\ Loads(call[c].path)
          /\ call' = [call EXCEPT ![c].base = Read(call[c].path)]
          /\ Goto(c, "openTemp") /\ UNCHANGED due
    /\ UNCHANGED <<fileVars, dequeued, bounds>>

\* The temporary file has the form's name: two updates of a form share it.
OpenTemp(c) ==
    LET temp == TempOf(call[c].path)
    IN /\ pc[c] = "openTemp"
       /\ Truncate(c, temp)
       /\ Goto(c, "writeTemp")
       /\ UNCHANGED <<installed, dequeued, bounds, due>>

\* Mutant of WriteTemp: the temporary file is not closed before it is renamed.
WriteTempOpen(c) ==
    /\ pc[c] = "writeTemp"
    /\ Put(c, Changed(c))
    /\ Goto(c, "replace")
    /\ UNCHANGED <<names, installed, call, dequeued, bounds, due>>

WriteTemp(c) ==
    /\ pc[c] = "writeTemp"
    /\ Put(c, Changed(c))
    /\ call' = [call EXCEPT ![c].node = None]
    /\ Goto(c, "replace")
    /\ UNCHANGED <<names, installed, dequeued, bounds, due>>

Replace(c) ==
    LET path == call[c].path
        temp == TempOf(path)
    IN /\ pc[c] = "replace"
       /\ \/ /\ Exists(temp)
             /\ names' = [names EXCEPT ![path] = names[temp], ![temp] = None]
             /\ Answer(c, IF path = "file" THEN Owing(c) ELSE due)
          \/ ~Exists(temp) /\ Refuse(c) /\ UNCHANGED names
       /\ Keep /\ UNCHANGED <<installed, dequeued, bounds>>

\* delete_form: the file the form was found in is moved to .archived.
Archive(c) == ArriveFor(c, "archive", "move")

Move(c) ==
    /\ pc[c] = "move"
    /\ \/ Found = {} /\ Refuse(c) /\ UNCHANGED names
       \/ \E p \in Found :
             /\ names' = [q \in Paths |-> IF q = "aside" THEN names[p]
                                          ELSE IF q = p THEN None ELSE names[q]]
             /\ Answer(c, IF p = "file" THEN Nothing ELSE due)
    /\ Keep /\ UNCHANGED <<installed, dequeued, bounds>>

-----------------------------------------------------------------------------
(* Packages. *)

\* install_package of functions/http/packages.py: a message with or without a version, or
\* without a package.
Enqueue(i) ==
    /\ i \in Installs /\ pc[i] = "idle" /\ Counted
    /\ \E kind \in {"install", "installAll"} \cap scene.kinds, e \in Entries, v \in Values :
          call' = [call EXCEPT ![i] = [NoCall EXCEPT !.kind = kind, !.entry = e, !.value = v]]
    /\ pc' = [pc EXCEPT ![i] = "queued"]
    /\ dequeued' = [dequeued EXCEPT ![i] = 0]
    /\ UNCHANGED <<fileVars, scene, breaks, history>>

Take(i) ==
    /\ i \in Installs /\ pc[i] = "queued"
    /\ dequeued' = [dequeued EXCEPT ![i] = @ + 1]
    /\ Begin(i, "list")
    /\ UNCHANGED <<fileVars, call, bounds, due>>

\* The worker raised or died: the message comes back until its deliveries are used up.
PutBack(i) ==
    LET again == dequeued[i] < MaxDequeues
    IN /\ Finish(i, IF again THEN "queued" ELSE "idle", due)
       /\ call' = [call EXCEPT ![i] = IF again THEN [@ EXCEPT !.node = None, !.base = None,
                                                              !.listed = FALSE]
                                      ELSE NoCall]

Acknowledge(i, owed) == Answer(i, owed)

\* What pip list shows of .packages.
Installed(e) == installed[e]

\* Is it installed already?  With the version asked for there is nothing to do; the list is
\* changed for a new package, or one of a given version.
ListInstalled(i) ==
    LET there == Installed(call[i].entry)
        wanted == call[i].value
    IN /\ pc[i] = "list" /\ call[i].kind = "install"
       /\ \/ there = wanted /\ Acknowledge(i, due)
          \/ /\ there # wanted
             /\ call' = [call EXCEPT ![i].listed = (there = Unset \/ wanted # Unpinned)]
             /\ Goto(i, "copy") /\ UNCHANGED due
       /\ UNCHANGED <<fileVars, dequeued, bounds>>

Fetched(v) == IF v = Unpinned THEN Newest ELSE v

\* Mutant of CopyPackage: what pip could not fetch is listed as well.
CopyNothing(i) ==
    /\ pc[i] = "copy" /\ call[i].kind = "install"
    /\ \/ call[i].listed /\ Goto(i, "append") /\ UNCHANGED <<call, due>>
       \/ ~call[i].listed /\ Acknowledge(i, due)
    /\ UNCHANGED <<fileVars, dequeued, bounds>>

\* pip installs to a directory of its own, which manual_copy_tree copies to .packages.
CopyPackage(i) ==
    /\ pc[i] = "copy" /\ call[i].kind = "install"
    /\ installed' = [installed EXCEPT ![call[i].entry] = Fetched(call[i].value)]
    /\ \/ call[i].listed /\ Goto(i, "append") /\ UNCHANGED <<call, due>>
       \/ ~call[i].listed /\ Acknowledge(i, due)
    /\ UNCHANGED <<names, data, dequeued, bounds>>

\* install_requirements_streaming: pip reads requirements.txt.
ReadRequirements(i) ==
    /\ pc[i] = "list" /\ call[i].kind = "installAll"
    /\ \/ /\ Exists("file")
          /\ call' = [call EXCEPT ![i].base = Read("file")]
          /\ Goto(i, "copy") /\ UNCHANGED due
       \/ ~Exists("file") /\ PutBack(i)
    /\ UNCHANGED <<fileVars, dequeued, bounds>>

CopyAll(i) ==
    LET listed == Parsed(call[i].base)
    IN /\ pc[i] = "copy" /\ call[i].kind = "installAll"
       /\ installed' = [e \in Entries |-> IF listed[e] = Unset THEN installed[e]
                                          ELSE Fetched(listed[e])]
       /\ Acknowledge(i, due)
       /\ UNCHANGED <<names, data, dequeued, bounds>>

\* _append_to_requirements reads the list ...
ReadList(i) ==
    /\ pc[i] = "append"
    /\ call' = [call EXCEPT ![i].base = Read("file")]
    /\ Goto(i, "merge")
    /\ UNCHANGED <<fileVars, dequeued, bounds, due>>

\* ... and write_text empties it before it writes the list with the package.
OpenList(i) ==
    /\ pc[i] = "merge"
    /\ Truncate(i, "file")
    /\ Goto(i, "write")
    /\ UNCHANGED <<installed, dequeued, bounds, due>>

WriteList(i) ==
    /\ pc[i] = "write" /\ i \in Installs
    /\ Put(i, Changed(i))
    /\ Acknowledge(i, Owing(i))
    /\ UNCHANGED <<names, installed, dequeued, bounds>>

-----------------------------------------------------------------------------

\* A process dies, a write of its own fails, or what pip does: whoever has emptied a file leaves
\* it so.  update_form removes the temporary file, if it lives.
Break(c) ==
    /\ breaks < MaxBreaks /\ breaks' = breaks + 1
    /\ pc[c] \notin Resting
    /\ \/ UNCHANGED names
       \/ /\ pc[c] \in {"writeTemp", "replace"}
          /\ Unlink(TempOf(call[c].path))
    /\ LET left == IF pc[c] = "write" THEN [e \in Entries |-> Anything] ELSE due
           again == c \in Installs /\ dequeued[c] < MaxDequeues
       IN /\ Finish(c, IF again THEN "queued" ELSE "idle", left)
          /\ call' = [call EXCEPT ![c] = IF again THEN [@ EXCEPT !.node = None, !.base = None,
                                                                !.listed = FALSE]
                                         ELSE NoCall]
    /\ Keep
    /\ UNCHANGED <<installed, dequeued, scene, calls>>

FilesNext ==
    \E c \in Calls :
        \/ View(c) \/ Save(c) \/ CheckExists(c) \/ Compare(c) \/ Overwrite(c)
        \/ OpenFile(c) \/ WriteFile(c) \/ Delete(c) \/ Rename(c) \/ RenameTo(c)
        \/ Create(c) \/ OpenForm(c) \/ WriteForm(c) \/ Update(c) \/ Find(c) \/ Load(c) \/ OpenTemp(c) \/ WriteTemp(c)
        \/ Replace(c) \/ Archive(c) \/ Move(c)
        \/ Enqueue(c) \/ Take(c) \/ ListInstalled(c) \/ CopyPackage(c)
        \/ ReadRequirements(c) \/ CopyAll(c) \/ ReadList(c) \/ OpenList(c) \/ WriteList(c)
        \/ Break(c)

FilesSpec == FilesInit /\ [][FilesNext]_filesVars

-----------------------------------------------------------------------------

\* With nobody at work, the file has every change since its writers last overlapped: a save
\* with an etag takes nothing back that came after the user opened the file, an install keeps
\* the other packages and an update the other fields, and an update or install that dies
\* before it opens the file to be replaced leaves the file as it was.
ChangesStay ==
    (\A c \in Calls : pc[c] \in Resting) =>
        \A e \in Entries : \/ due[e] = Anything
                           \/ due[e] = Gone /\ ~Exists("file")
                           \/ Exists("file") /\ Read("file") # Cut /\ Read("file")[e] = due[e]

\* What installs alone have put into requirements.txt is installed, whichever of them failed or
\* overlapped: a message that dies leaves a package out of the list, never one in the list only.
ListedIsInstalled ==
    (scene.kinds \subseteq {"install", "installAll"} /\ scene.origin \in {None, Blank}) =>
        \A e \in Entries : Parsed(Read("file"))[e] # Unset => installed[e] # Unset

\* The states of the files: no name or node is lost, and the requirements that are listed are installed.
FilesInv == FilesTypeOK /\ ListedIsInstalled
=============================================================================
