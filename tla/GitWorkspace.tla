----------------------------- MODULE GitWorkspace -----------------------------
(***************************************************************************)
(* shared/services/git_integration_service.py, the requests of              *)
(* functions/http/github_integration.py and functions/queue/               *)
(* git_sync_worker.py: one workspace directory, its git repository and the  *)
(* branch on GitHub it is synchronized with.                                *)
(*                                                                         *)
(* A file has one line, so two different changes of one file conflict.      *)
(* Commits are numbered as they are made, by the workspace or by others on   *)
(* GitHub.  A request goes from one point where another host, the editor or  *)
(* a crash can come in between to the next; nothing holds a lock on the      *)
(* directory (_fetch_lock is one process's, and held by the fetch alone).    *)
(***************************************************************************)
EXTENDS Naturals, Sequences, FiniteSets

CONSTANTS
    Files, Lines,
    Absent,             \* no such file
    Marked,             \* a file with conflict markers
    GitRequests,        \* HTTP requests
    Workers,            \* consumers of git-sync-jobs
    Duties,             \* what the requests of a behaviour are, see Commands: sets of commands
    Origins,            \* what GitHub has, and what the directory has, to begin with
    Workspaces,
    Trees,              \* what others make of the files on GitHub
    MaxCommits,         \* bound: commits made, there and here
    MaxSaves,           \* bound: saves of the editor
    MaxFailures         \* bound: crashes and failed calls of GitHub

Processes == GitRequests \cup Workers
Commands == {"validate", "configure", "disconnect", "fetch", "pull", "push", "sync",
             "commit", "resolve", "discard", "drop"}

\* A conflicted index entry: stages 1 to 3 in place of stage 0.
Unmerged == "unmerged"

ASSUME GitAssumption ==
    /\ Absent \notin Lines /\ Marked \notin Lines /\ Absent # Marked
    /\ Unmerged \notin Lines \cup {Absent, Marked}
    /\ GitRequests \cap Workers = {} /\ IsFiniteSet(GitRequests) /\ IsFiniteSet(Workers)
    /\ Duties \subseteq SUBSET Commands
    /\ Origins \subseteq [Files -> Lines]
    /\ Trees \subseteq [Files -> Lines \cup {Absent}]
    /\ Workspaces \subseteq [Files -> Lines \cup {Absent}]
    /\ MaxCommits \in Nat \ {0} /\ MaxSaves \in Nat /\ MaxFailures \in Nat

Tree == [Files -> Lines \cup {Absent, Marked}]
Commit == [tree: Tree, parents: Seq(1..MaxCommits)]
NoCommit == 0
CommitIds == 0..MaxCommits

VARIABLES
    graph,      \* Seq(Commit)
    github,     \* head of the branch on GitHub
    local,      \* refs/heads/<branch>, NoCommit without a repository
    tracking,   \* refs/remotes/origin/<branch>
    index,      \* [Files -> contents, Absent or Unmerged]
    work,       \* [Files -> contents or Absent]: the directory
    mergeHead,  \* MERGE_HEAD
    config,     \* the Config row: its status, and whether it names a repository
    queue,      \* messages in git-sync-jobs
    at,         \* [Processes -> Points]
    job,        \* [Processes -> Job]: the refs a pull or push has read
    duties, saves, failures,
    touched,    \* history: files the user saved or was asked to merge, or whose merge was forgotten
    skipped,    \* history: files whose change or deletion on GitHub a pull left out
    overlapped, \* history: requests overlapped
    broken,     \* history: a request broke off half way
    retracted   \* history: a push sent a branch without the commit it had read before

repoVars == <<graph, local, tracking, index, work, mergeHead>>
processVars == <<at, job, queue>>
pathVars == <<overlapped, broken, retracted>>
gitVars == <<repoVars, github, config, processVars, duties, saves, failures, touched, skipped,
             pathVars>>

Points == {"idle", "inspecting", "forgetting", "fetching", "applying", "recording", "marking",
           "checkout", "heading", "checking", "pushing", "sending", "noting", "committing",
           "cleaning", "initializing", "saving"}

\* Between two writes that belong together.
HalfWay == {"recording", "marking", "checkout", "heading", "cleaning"}
disturbed == overlapped \/ broken
Job == [kind: Commands \cup {"none"}, local: CommitIds, remote: CommitIds, base: CommitIds]
NoJob == [kind |-> "none", local |-> NoCommit, remote |-> NoCommit, base |-> NoCommit]
Config == [status: {"none", "token_saved", "configured", "disconnected"}, url: BOOLEAN]

GitTypeOK ==
    /\ graph \in Seq(Commit) /\ Len(graph) \in 1..MaxCommits
    /\ github \in DOMAIN graph
    /\ local \in {NoCommit} \cup DOMAIN graph
    /\ tracking \in {NoCommit} \cup DOMAIN graph
    /\ index \in [Files -> Lines \cup {Absent, Marked, Unmerged}]
    /\ work \in Tree
    /\ mergeHead \in {NoCommit} \cup DOMAIN graph
    /\ config \in Config
    /\ queue \in 0..Cardinality(GitRequests)
    /\ at \in [Processes -> Points] /\ job \in [Processes -> Job]
    /\ duties \in Duties /\ saves \in 0..MaxSaves /\ failures \in 0..MaxFailures
    /\ touched \subseteq Files /\ skipped \subseteq Files
    /\ overlapped \in BOOLEAN /\ broken \in BOOLEAN /\ retracted \in BOOLEAN

\* GitHub has one commit; the directory is not a repository yet, and the token is validated
\* unless that is to be done.
GitInit ==
    /\ \E tree \in Origins : graph = <<[tree |-> tree, parents |-> <<>>]>>
    /\ github = 1
    /\ local = NoCommit /\ tracking = NoCommit /\ mergeHead = NoCommit
    /\ index = [f \in Files |-> Absent]
    /\ work \in Workspaces
    /\ queue = 0
    /\ at = [p \in Processes |-> "idle"] /\ job = [p \in Processes |-> NoJob]
    /\ duties \in Duties
    /\ config = [status |-> IF "validate" \in duties THEN "none" ELSE "token_saved",
                 url |-> FALSE]
    /\ saves = 0 /\ failures = 0
    /\ touched = {} /\ skipped = {}
    /\ overlapped = FALSE /\ broken = FALSE /\ retracted = FALSE

-----------------------------------------------------------------------------

IsGitRepo == local # NoCommit

\* A commit of the graph g and all it descends from.
Reach(g, c) ==
    LET reach[n \in 0..Len(g)] ==
            IF n = 0 THEN {}
            ELSE {n} \cup UNION {reach[g[n].parents[i]] : i \in DOMAIN g[n].parents}
    IN reach[c]

Ancestors(c) == Reach(graph, c)

\* is_pushed of the commit history.
Pushed == Ancestors(tracking)

MergeBases(a, b) ==
    LET common == Ancestors(a) \cap Ancestors(b)
    IN {m \in common : \A n \in common \ {m} : m \notin Ancestors(n)}

Staged(head) == {f \in Files : index[f] # graph[head].tree[f]}
Unstaged == {f \in Files : index[f] # Absent /\ work[f] # index[f]}
Untracked == {f \in Files : index[f] = Absent /\ work[f] # Absent}
Conflicts == {f \in Files : index[f] = Unmerged}

\* tree_changes of two commits.
Differing(a, b) == {f \in Files : graph[a].tree[f] # graph[b].tree[f]}

\* three_way_merge, file by file.
MergedFile(base, ours, theirs) ==
    IF theirs = base \/ ours = theirs THEN ours
    ELSE IF ours = base THEN theirs ELSE Unmerged

\* Without a common ancestor every file is new on both sides.
MergedTree(base, ours, theirs) ==
    [f \in Files |-> MergedFile(IF base = NoCommit THEN Absent ELSE graph[base].tree[f],
                                graph[ours].tree[f], graph[theirs].tree[f])]

\* build_index_from_tree writes the files of the tree over the directory, whatever
\* was there, and removes none.
Written(tree) == [f \in Files |-> IF tree[f] = Absent THEN work[f] ELSE tree[f]]
LeftOver(tree) == {f \in Files : tree[f] = Absent /\ work[f] # Absent}

Materialize(tree) ==
    /\ index' = tree
    /\ work' = Written(tree)
    /\ skipped' = skipped \cup LeftOver(tree)

\* A configuration that _get_authenticated_remote_url accepts.
Usable == config.url /\ config.status \in {"token_saved", "configured"}

\* get_changed_files, get_commits_ahead_behind, refresh_status.
ChangedFiles == (Staged(local) \cup Unstaged \cup Untracked) \ Conflicts
Ahead == Ancestors(local) \ Ancestors(tracking)
Behind == Ancestors(tracking) \ Ancestors(local)

\* Nothing is reported of a repository that cannot reach GitHub.
Status ==
    LET shown == IsGitRepo /\ Usable
    IN [initialized |-> IsGitRepo, configured |-> shown,
        changed |-> IF shown THEN ChangedFiles ELSE {},
        conflicts |-> IF shown THEN Conflicts ELSE {},
        merging |-> shown /\ mergeHead # NoCommit,
        ahead |-> IF shown THEN Cardinality(Ahead) ELSE 0,
        behind |-> IF shown THEN Cardinality(Behind) ELSE 0]

AlsoBusy(p) == {q \in Processes \ {p} : at[q] # "idle"}

\* p begins, or does all it does in one step.
Meets(p) ==
    /\ overlapped' = (overlapped \/ AlsoBusy(p) # {})
    /\ UNCHANGED <<broken, retracted>>

BeginRequest(p, kind, step) ==
    /\ at[p] = "idle"
    /\ at' = [at EXCEPT ![p] = step]
    /\ job' = [job EXCEPT ![p] = [NoJob EXCEPT !.kind = kind]]
    /\ Meets(p)

AtOnce(p, kind) ==
    /\ p \in GitRequests /\ kind \in duties /\ at[p] = "idle"
    /\ Meets(p)
    /\ UNCHANGED <<at, job>>

\* A request is answered; a worker's message is deleted, whatever came out.
Ended(p) ==
    /\ at' = [at EXCEPT ![p] = "idle"]
    /\ job' = [job EXCEPT ![p] = NoJob]
    /\ queue' = IF p \in Workers THEN queue - 1 ELSE queue

\* pull() returned success: sync goes on to push().
PullSucceeds(p) ==
    IF job[p].kind = "sync"
    THEN at' = [at EXCEPT ![p] = "checking"] /\ UNCHANGED <<job, queue>>
    ELSE Ended(p)

Continues(p, step, new) ==
    /\ at' = [at EXCEPT ![p] = step]
    /\ job' = [job EXCEPT ![p] = new]
    /\ UNCHANGED queue

-----------------------------------------------------------------------------
(* The editor and GitHub. *)

\* The user saves or deletes a file of the directory.
SaveFile(f, content) ==
    /\ saves < MaxSaves /\ work[f] # content
    /\ saves' = saves + 1
    /\ work' = [work EXCEPT ![f] = content]
    /\ touched' = touched \cup {f}
    /\ UNCHANGED <<graph, local, tracking, index, mergeHead, github, config, processVars,
                   duties, failures, skipped, pathVars>>

\* Somebody else pushes a commit that changes or deletes files.  What GitHub had before
\* the first clone is one commit.
UpstreamCommit(tree) ==
    /\ local # NoCommit /\ Len(graph) < MaxCommits /\ graph[github].tree # tree
    /\ graph' = Append(graph, [tree |-> tree, parents |-> <<github>>])
    /\ github' = Len(graph) + 1
    /\ UNCHANGED <<local, tracking, index, work, mergeHead, config, processVars, duties,
                   saves, failures, touched, skipped, pathVars>>

-----------------------------------------------------------------------------
(* Configuration. *)

\* A token that lists repositories is kept; the integration has to be configured again.
ValidateToken(p) ==
    /\ AtOnce(p, "validate")
    /\ config' = [config EXCEPT !.status = "token_saved"]
    /\ UNCHANGED <<repoVars, github, queue, duties, saves, failures, touched, skipped>>

Disconnect(p) ==
    /\ AtOnce(p, "disconnect")
    /\ config.status # "none"
    /\ config' = [config EXCEPT !.status = "disconnected"]
    /\ UNCHANGED <<repoVars, github, queue, duties, saves, failures, touched, skipped>>

\* The row of any status will do, as long as it names a token.
Configure(p) ==
    /\ p \in GitRequests /\ "configure" \in duties
    /\ config.status # "none"
    /\ BeginRequest(p, "configure", "initializing")
    /\ UNCHANGED <<repoVars, github, config, queue, duties, saves, failures, touched, skipped>>

\* What the directory held is moved to the backup that the answer names.
Clone ==
    /\ ~IsGitRepo
    /\ index' = graph[github].tree
    /\ work' = graph[github].tree
    /\ touched' = {} /\ skipped' = {}

\* An existing repository follows GitHub, without a backup.
UpdateExistingRepo ==
    /\ IsGitRepo
    /\ Materialize(graph[github].tree)
    /\ UNCHANGED touched

InitializeRepo(p) ==
    /\ at[p] = "initializing"
    /\ local' = github /\ tracking' = github
    /\ Clone \/ UpdateExistingRepo
    /\ Continues(p, "saving", job[p])
    /\ UNCHANGED <<graph, mergeHead, github, config, duties, saves, failures, pathVars>>

SaveConfig(p) ==
    /\ at[p] = "saving"
    /\ config' = [status |-> "configured", url |-> TRUE]
    /\ Ended(p)
    /\ UNCHANGED <<repoVars, github, duties, saves, failures, touched, skipped, pathVars>>

-----------------------------------------------------------------------------
(* Fetch, pull and push; a sync job is a pull and then a push. *)

Fetch(p) ==
    /\ AtOnce(p, "fetch")
    /\ IsGitRepo /\ Usable
    /\ tracking' = github
    /\ UNCHANGED <<graph, local, index, work, mergeHead, github, config, queue, duties, saves,
                   failures, touched, skipped>>

\* github_sync puts a job into the queue.
RequestSync(p) ==
    /\ AtOnce(p, "sync")
    /\ IsGitRepo /\ queue < Cardinality(GitRequests)
    /\ queue' = queue + 1
    /\ UNCHANGED <<repoVars, github, config, duties, saves, failures, touched, skipped>>

Takes(p, kind) ==
    \/ p \in GitRequests /\ kind = "pull" /\ "pull" \in duties /\ Usable
    \/ p \in Workers /\ kind = "sync" /\ queue > Cardinality({w \in Workers : at[w] # "idle"})

\* A merge in progress is looked into first.
StartPull(p) ==
    /\ IsGitRepo
    /\ \E kind \in {"pull", "sync"} :
          /\ Takes(p, kind)
          /\ BeginRequest(p, kind, IF mergeHead = NoCommit THEN "fetching" ELSE "inspecting")
    /\ UNCHANGED <<repoVars, github, config, queue, duties, saves, failures, touched, skipped>>

\* Mutant of Inspect: any merge is forgotten.
InspectNothing(p) ==
    /\ at[p] = "inspecting"
    /\ Continues(p, "forgetting", job[p])
    /\ UNCHANGED <<repoVars, github, config, duties, saves, failures, touched, skipped, pathVars>>

\* Conflicts have to be resolved first: the pull, and a sync job with it, ends here.
Inspect(p) ==
    /\ at[p] = "inspecting"
    /\ IF Conflicts # {} THEN Ended(p) ELSE Continues(p, "forgetting", job[p])
    /\ UNCHANGED <<repoVars, github, config, duties, saves, failures, touched, skipped, pathVars>>

\* A merge whose conflicts are resolved but that is not committed is forgotten: what it staged
\* stays, and is the user's own change from then on.  The unlink raises when another request
\* removed MERGE_HEAD.
ForgetMerge(p) ==
    /\ at[p] = "forgetting"
    /\ IF mergeHead = NoCommit THEN Ended(p) /\ UNCHANGED <<mergeHead, touched>>
       ELSE /\ mergeHead' = NoCommit
            /\ touched' = touched \cup Staged(local)
            /\ Continues(p, "fetching", job[p])
    /\ UNCHANGED <<graph, local, tracking, index, work, github, config, duties, saves, failures,
                   skipped, pathVars>>

\* Nothing to merge, or a change that is not committed stands where GitHub has one too.
UpToDate(head) == head = local \/ head \in Ancestors(local)
InTheWay(head) == (Staged(local) \cup Unstaged) \cap Differing(local, head) # {}

PullFetch(p) ==
    /\ at[p] = "fetching"
    /\ IF ~Usable THEN Ended(p) /\ UNCHANGED tracking
       ELSE /\ tracking' = github
            /\ \/ UpToDate(github) /\ PullSucceeds(p)
               \/ ~UpToDate(github) /\ InTheWay(github) /\ Ended(p)
               \/ /\ ~UpToDate(github) /\ ~InTheWay(github)
                  /\ \E base \in MergeBases(local, github) \cup {NoCommit} :
                        /\ base = NoCommit => MergeBases(local, github) = {}
                        /\ Continues(p, "applying", [job[p] EXCEPT !.local = local, !.base = base,
                                                              !.remote = github])
    /\ UNCHANGED <<graph, local, index, work, mergeHead, github, config, duties, saves,
                   failures, touched, skipped, pathVars>>

Merge(p) == MergedTree(job[p].base, job[p].local, job[p].remote)
MergeConflicts(p) == {f \in Files : Merge(p)[f] = Unmerged}

\* Mutant of FastForward: a pull without conflicts takes GitHub's commit.
FastForwardAlways(p) ==
    /\ at[p] = "applying" /\ MergeConflicts(p) = {}
    /\ local' = job[p].remote
    /\ Continues(p, "checkout", job[p])
    /\ UNCHANGED <<graph, tracking, index, work, mergeHead, github, config, duties, saves, failures,
                   touched, skipped, pathVars>>

\* Fast forward: the branch first, then the directory.
FastForward(p) ==
    /\ at[p] = "applying"
    /\ job[p].base = job[p].local
    /\ local' = job[p].remote
    /\ Continues(p, "checkout", job[p])
    /\ UNCHANGED <<graph, tracking, index, work, mergeHead, github, config, duties, saves,
                   failures, touched, skipped, pathVars>>

\* Mutant of Checkout: the index is rebuilt and the directory left as it is.
CheckoutIndex(p) ==
    /\ at[p] = "checkout"
    /\ index' = graph[job[p].remote].tree
    /\ PullSucceeds(p)
    /\ UNCHANGED <<graph, local, tracking, work, mergeHead, github, config, duties, saves, failures,
                   touched, skipped, pathVars>>

Checkout(p) ==
    /\ at[p] = "checkout"
    /\ Materialize(graph[job[p].remote].tree)
    /\ PullSucceeds(p)
    /\ UNCHANGED <<graph, local, tracking, mergeHead, github, config, duties, saves, failures,
                   touched, pathVars>>

\* A merge with conflicts is announced before the index has them.
AnnounceConflicts(p) ==
    /\ at[p] = "applying"
    /\ MergeConflicts(p) # {}
    /\ mergeHead' = job[p].remote
    /\ Continues(p, "recording", job[p])
    /\ UNCHANGED <<graph, local, tracking, index, work, github, config, duties, saves, failures,
                   touched, skipped, pathVars>>

\* The conflicting files go to the index and get markers; the others stay as they are here.
RecordConflicts(p) ==
    /\ at[p] = "recording"
    /\ index' = [f \in Files |-> IF f \in MergeConflicts(p) THEN Unmerged ELSE index[f]]
    /\ touched' = touched \cup MergeConflicts(p)
    /\ skipped' = skipped \cup {f \in Files : Merge(p)[f] # graph[job[p].local].tree[f]}
    /\ Continues(p, "marking", job[p])
    /\ UNCHANGED <<graph, local, tracking, work, mergeHead, github, config, duties, saves,
                   failures, pathVars>>

WriteMarkers(p) ==
    /\ at[p] = "marking"
    /\ work' = [f \in Files |-> IF f \in MergeConflicts(p) THEN Marked ELSE work[f]]
    /\ Ended(p)
    /\ UNCHANGED <<graph, local, tracking, index, mergeHead, github, config, duties, saves,
                   failures, touched, skipped, pathVars>>

\* A merge without conflicts is staged, to be reviewed and committed by the user.
StageMerge(p) ==
    /\ at[p] = "applying"
    /\ job[p].base # job[p].local /\ MergeConflicts(p) = {}
    /\ Materialize(Merge(p))
    /\ Continues(p, "heading", job[p])
    /\ UNCHANGED <<graph, local, tracking, mergeHead, github, config, duties, saves, failures,
                   touched, pathVars>>

WriteMergeHead(p) ==
    /\ at[p] = "heading"
    /\ mergeHead' = job[p].remote
    /\ PullSucceeds(p)
    /\ UNCHANGED <<graph, local, tracking, index, work, github, config, duties, saves, failures,
                   touched, skipped, pathVars>>

Uncommitted == Staged(local) \cup Unstaged \cup Untracked

StartPush(p) ==
    /\ p \in GitRequests /\ "push" \in duties
    /\ IsGitRepo /\ Usable /\ Uncommitted = {}
    /\ BeginRequest(p, "push", "pushing")
    /\ UNCHANGED <<repoVars, github, config, queue, duties, saves, failures, touched, skipped>>

SyncChecks(p) ==
    /\ at[p] = "checking"
    /\ IF Uncommitted = {} THEN Continues(p, "pushing", job[p]) ELSE Ended(p)
    /\ UNCHANGED <<repoVars, github, config, duties, saves, failures, touched, skipped,
                   pathVars>>

\* The branch as push() reads it, to count its commits and to note them later.
ReadRefs(p) ==
    /\ at[p] = "pushing"
    /\ IF local = tracking THEN Ended(p)
       ELSE Continues(p, "sending", [job[p] EXCEPT !.local = local])
    /\ UNCHANGED <<repoVars, github, config, duties, saves, failures, touched, skipped, pathVars>>

\* porcelain.push sends the branch as it is by now; GitHub takes descendants of its head only.
Send(p) ==
    /\ at[p] = "sending"
    /\ \/ /\ github \notin Ancestors(local)
          /\ Ended(p) /\ UNCHANGED <<github, retracted>>
       \/ /\ github \in Ancestors(local)
          /\ github' = local
          /\ retracted' = (retracted \/ job[p].local \notin Ancestors(local))
          /\ Continues(p, "noting", job[p])
    /\ UNCHANGED <<repoVars, config, duties, saves, failures, touched, skipped, overlapped, broken>>

\* Mutant of NotePush: the branch is read again after the push.
NotePushed(p) ==
    /\ at[p] = "noting"
    /\ tracking' = local
    /\ Ended(p)
    /\ UNCHANGED <<graph, local, index, work, mergeHead, github, config, duties, saves, failures,
                   touched, skipped, pathVars>>

\* The commit that was local before the push, whatever the branch names by now.
NotePush(p) ==
    /\ at[p] = "noting"
    /\ tracking' = job[p].local
    /\ Ended(p)
    /\ UNCHANGED <<graph, local, index, work, mergeHead, github, config, duties, saves,
                   failures, touched, skipped, pathVars>>

-----------------------------------------------------------------------------
(* Commits and conflicts. *)

\* All that is in the directory, markers too.
StageAll(p) ==
    /\ p \in GitRequests /\ "commit" \in duties
    /\ IsGitRepo /\ Len(graph) < MaxCommits
    /\ BeginRequest(p, "commit", "committing")
    /\ index' = work
    /\ UNCHANGED <<graph, local, tracking, work, mergeHead, github, config, queue, duties, saves,
                   failures, touched, skipped>>

\* The commit may raise, and does while the index has conflicts.
CommitStaged(p) ==
    /\ at[p] = "committing"
    /\ \/ Ended(p) /\ UNCHANGED <<graph, local>>
       \/ /\ Conflicts = {} /\ Len(graph) < MaxCommits
          /\ graph' = Append(graph, [tree |-> index,
                                     parents |-> IF mergeHead = NoCommit THEN <<local>>
                                                 ELSE <<local, mergeHead>>])
          /\ local' = Len(graph) + 1
          /\ Continues(p, "cleaning", job[p])
    /\ UNCHANGED <<tracking, index, work, mergeHead, github, config, duties, saves, failures,
                   touched, skipped, pathVars>>

\* The merge is over with its commit.
EndMerge(p) ==
    /\ at[p] = "cleaning"
    /\ mergeHead' = NoCommit
    /\ Ended(p)
    /\ UNCHANGED <<graph, local, tracking, index, work, github, config, duties, saves, failures,
                   touched, skipped, pathVars>>

\* The file as the user left it is staged in place of the conflict.
ResolveConflict(p, f) ==
    /\ AtOnce(p, "resolve")
    /\ IsGitRepo /\ work[f] # Absent
    /\ index' = [index EXCEPT ![f] = work[f]]
    /\ UNCHANGED <<graph, local, tracking, work, mergeHead, github, config, queue, duties,
                   saves, failures, touched, skipped>>

\* MERGE_HEAD is left, so the next commit still is the merge; what was merged is not in it.
ResetTo(head) ==
    /\ local' = head
    /\ index' = graph[head].tree
    /\ work' = Written(graph[head].tree)
    /\ skipped' = skipped \cup LeftOver(graph[head].tree) \cup
                    (IF mergeHead = NoCommit THEN {} ELSE Differing(head, mergeHead))

DiscardUnpushed(p) ==
    /\ AtOnce(p, "discard")
    /\ IsGitRepo /\ local # tracking
    /\ ResetTo(tracking)
    /\ UNCHANGED <<graph, tracking, mergeHead, github, config, queue, duties, saves, failures,
                   touched>>

\* Any commit that the repository has, pushed or not, and all after it.
DiscardCommit(p, c) ==
    /\ AtOnce(p, "drop")
    /\ IsGitRepo /\ c \in Ancestors(local) \cup Ancestors(tracking) /\ graph[c].parents # <<>>
    /\ ResetTo(Head(graph[c].parents))
    /\ UNCHANGED <<graph, tracking, mergeHead, github, config, queue, duties, saves, failures,
                   touched>>

-----------------------------------------------------------------------------

Failure == failures < MaxFailures /\ failures' = failures + 1

\* A call of GitHub or Key Vault fails, or its answer is lost.  A directory that was moved to
\* the backup stays there, and the answer does not name it.
CallFails(p) ==
    /\ at[p] \in {"fetching", "pushing", "sending", "noting", "initializing"} /\ Failure
    /\ work' = IF at[p] = "initializing" /\ ~IsGitRepo THEN [f \in Files |-> Absent] ELSE work
    /\ Ended(p)
    /\ UNCHANGED <<graph, local, tracking, index, mergeHead, github, config, duties, saves,
                   touched, skipped, pathVars>>

\* The host dies; a worker's message comes back.
Crash(p) ==
    /\ at[p] # "idle" /\ Failure
    /\ at' = [at EXCEPT ![p] = "idle"]
    /\ job' = [job EXCEPT ![p] = NoJob]
    /\ broken' = (broken \/ at[p] \in HalfWay)
    /\ UNCHANGED <<repoVars, github, config, queue, duties, saves, touched, skipped, overlapped,
                   retracted>>

Step(p) ==
    \/ ValidateToken(p) \/ Disconnect(p) \/ Configure(p) \/ InitializeRepo(p) \/ SaveConfig(p)
    \/ Fetch(p) \/ RequestSync(p) \/ StartPull(p) \/ Inspect(p) \/ ForgetMerge(p) \/ PullFetch(p)
    \/ FastForward(p) \/ Checkout(p) \/ AnnounceConflicts(p) \/ RecordConflicts(p)
    \/ WriteMarkers(p) \/ StageMerge(p) \/ WriteMergeHead(p)
    \/ StartPush(p) \/ SyncChecks(p) \/ ReadRefs(p) \/ Send(p) \/ NotePush(p)
    \/ StageAll(p) \/ CommitStaged(p) \/ EndMerge(p)
    \/ (\E f \in Files : ResolveConflict(p, f)) \/ DiscardUnpushed(p)
    \/ (\E c \in DOMAIN graph : DiscardCommit(p, c))
    \/ CallFails(p) \/ Crash(p)

GitNext ==
    \/ \E p \in Processes : Step(p)
    \/ \E f \in Files, content \in Lines \cup {Absent} : SaveFile(f, content)
    \/ \E tree \in Trees : UpstreamCommit(tree)

GitSpec == GitInit /\ [][GitNext]_gitVars

-----------------------------------------------------------------------------
(* Properties. *)

\* Whatever overlaps or breaks off, the commits that the history calls pushed are on GitHub,
\* unless a push sent the branch without the commit that it had read and then noted as pushed
\* (git_integration_service.py:335, 562, 917).
TrackingIsOnGitHub == retracted \/ Pushed \subseteq Ancestors(github)

\* Unless requests overlap, and wherever one breaks off, a conflict that the status lists is
\* part of a merge that it announces: no conflict is left when the merge is over, and none keeps
\* the pull from working without a merge to commit (1246, 1568, 746).
ConflictsBelongToMerge == (~overlapped /\ Status.conflicts # {}) => Status.merging

\* Unless requests overlap, and wherever one breaks off, a commit leaves the branch only by a
\* discard or when the integration is configured anew (1380, 1656, 1746).
CommitsStay ==
    [][\/ local \in Reach(graph', local')
       \/ local = NoCommit \/ overlapped'
       \/ \E p \in Processes : \/ DiscardUnpushed(p) \/ InitializeRepo(p)
                               \/ \E c \in DOMAIN graph : DiscardCommit(p, c)]_gitVars

\* Once the status says that nothing is behind, a file that it does not list has GitHub's
\* content, and so has the branch, except where the user saved the file, was asked to merge it
\* or let its merge be forgotten: no pull, commit or discard brings an older version back, but
\* for what a pull is known to leave out (1391, 1423, 729).
FollowsUpstream ==
    (~disturbed /\ Status.configured /\ Status.behind = 0) =>
        LET own == touched \cup skipped
        IN /\ Differing(local, tracking) \subseteq own
           /\ \A f \in Files \ (own \cup Status.changed \cup Status.conflicts) :
                 work[f] = graph[tracking].tree[f]

\* The states of the workspace: well formed, pushed commits on GitHub, conflicts only in a merge.
GitInv == GitTypeOK /\ TrackingIsOnGitHub /\ ConflictsBelongToMerge
=============================================================================
