--------------------------- MODULE ExecutionResults ---------------------------
(***************************************************************************)
(* shared/execution_logger.py and the read handlers of                      *)
(* shared/handlers/executions_handlers.py: what a run of a workflow leaves  *)
(* besides its status, and what the history pages show of it.               *)
(*                                                                         *)
(* ExecutionLogger.update_execution uploads a large result and the captured *)
(* variables to blobs and only then calls the repository, which keeps a     *)
(* small result in the primary row.  A reader queries the row first and the *)
(* blobs afterwards.  The list of executions is read page by page, one      *)
(* request per page, from the primary rows (an administrator) or from the   *)
(* index rows of a user.                                                    *)
(*                                                                         *)
(* Extends ExecutionRepository: its callers are the ones that call the      *)
(* logger here.  Executions are numbers in the order of their row keys.     *)
(***************************************************************************)
EXTENDS ExecutionRepository, Naturals, FiniteSetsExt

CONSTANTS
    Readers,        \* requests that read one execution, or list them
    Runs,           \* runs of a workflow's body; each ends with one result
    NoRun,          \* no run: the value of an unset column, an absent blob
    FileOf,         \* [Runs -> FileKinds]: the file its result would be stored in
    Large,          \* runs whose result is over BLOB_THRESHOLD_BYTES
    Empty,          \* runs whose result is None, {}, "" or another false value
    Captured,       \* runs that captured variables
    PageSize,       \* the limit of a page
    Settings        \* what Init picks from; see Setting

\* The blobs result.json, result.html and result.txt.
FileKinds == {"json", "html", "txt"}
Blobs == FileKinds \cup {"variables"}

\* The executions, callers, runs and statuses in use, whether requests fail
\* and callers die, and what the readers do.  A run alone writes Success.
Setting == [executions: SUBSET Executions, callers: SUBSET Callers, runs: SUBSET Runs,
            statuses: SUBSET Writable, faults: BOOLEAN, readers: {"none", "read", "list"}]

ASSUME ResultsAssumption ==
    /\ Executions \subseteq Nat \ {0} /\ IsFiniteSet(Executions)
    /\ NoRun \notin Runs
    /\ FileOf \in [Runs -> FileKinds]
    /\ Large \subseteq Runs /\ Empty \subseteq Runs \ Large /\ Captured \subseteq Runs
    /\ PageSize \in Nat \ {0}
    /\ Settings \subseteq Setting
    /\ "Success" \in Writable /\ \A s \in Settings : "Success" \notin s.statuses

VARIABLES
    setting,        \* the Setting of this behaviour
    inline,         \* [Executions -> Runs or NoRun]: Result of the primary row
    inBlob,         \* [Executions -> BOOLEAN]: ResultInBlob of the primary row
    blob,           \* [Executions -> [Blobs -> Runs or NoRun]]
    record,         \* [Callers -> Record]: the logger's call of each caller
    ended,          \* history: [Executions -> SUBSET Runs], runs that were handed in
    reading,        \* [Readers -> Reading]: a request for one execution
    listing         \* [Readers -> Listing]: a client paging through the list

resultVars == <<inline, inBlob, blob, ended>>
allVars == <<storeVars, setting, resultVars, record, reading, listing>>

MaybeRun == Runs \cup {NoRun}

\* inline: what the repository is to store in the row; read: Result as its query read it.
Record == [step: {"none", "upload", "variables", "row"}, exec: Executions \cup {NoExecution},
         status: StoredStatus, run: MaybeRun, inline: MaybeRun, toBlob: BOOLEAN, read: MaybeRun]

NoRecord == [step |-> "none", exec |-> NoExecution, status |-> Absent, run |-> NoRun,
           inline |-> NoRun, toBlob |-> FALSE, read |-> NoRun]

\* lost: the blobs that this request could not read.
Reading == [step: {"idle", "variables", "done"} \cup FileKinds, exec: Executions \cup {NoExecution},
            status: StoredStatus, all: BOOLEAN, result: MaybeRun, variables: MaybeRun,
            lost: SUBSET Blobs]

NoReading == [step |-> "idle", exec |-> NoExecution, status |-> Absent, all |-> FALSE,
              result |-> NoRun, variables |-> NoRun, lost |-> {}]

\* after: the continuation token; listed: how often each execution was shown; steady: what has
\* matched ever since the first page.
Listing == [step: {"idle", "paging", "done"}, rows: {"primary", "user"},
            filter: StoredStatus, after: Nat, listed: [Executions -> Nat],
            steady: SUBSET Executions]

NoListing == [step |-> "idle", rows |-> "primary", filter |-> Absent, after |-> 0,
              listed |-> [e \in Executions |-> 0], steady |-> {}]

ResultsInit ==
    /\ StoreInit
    /\ setting \in Settings
    /\ inline = [e \in Executions |-> NoRun]
    /\ inBlob = [e \in Executions |-> FALSE]
    /\ blob = [e \in Executions |-> [b \in Blobs |-> NoRun]]
    /\ record = [c \in Callers |-> NoRecord]
    /\ ended = [e \in Executions |-> {}]
    /\ reading = [r \in Readers |-> NoReading]
    /\ listing = [r \in Readers |-> NoListing]

-----------------------------------------------------------------------------
(* Listing.                                                                 *)

\* The status that a listing's rows show of e.
Listed(rows, e) == IF rows = "primary" THEN primary[e] ELSE display[e]

\* e has such a row, and the row passes the status filter (Absent: no filter).
Matches(rows, filter, e) ==
    /\ Listed(rows, e) # Absent
    /\ filter # Absent => Listed(rows, e) = filter

Matching == [rows \in {"primary", "user"} |-> [filter \in StoredStatus |->
                {e \in Executions : Matches(rows, filter, e)}]]

\* The bookkeeping of every step: what no longer matches is not steady.
ListingsGoOn ==
    IF setting.readers = "list"
    THEN listing' = [r \in Readers |-> [listing[r] EXCEPT
                       !.steady = @ \cap Matching'[listing[r].rows][listing[r].filter]]]
    ELSE UNCHANGED listing

BeginListing(r) ==
    /\ setting.readers = "list" /\ listing[r].step = "idle"
    /\ \E rows \in {"primary", "user"}, filter \in setting.statuses \cup {"Running", Absent} :
          listing' = [listing EXCEPT ![r] = [NoListing EXCEPT
              !.step = "paging", !.rows = rows, !.filter = filter,
              !.steady = Matching[rows][filter]]]
    /\ UNCHANGED <<storeVars, setting, resultVars, record, reading>>

\* The rows after the token.
RowsAfter(l) == {e \in Executions : e > l.after /\ Listed(l.rows, e) # Absent}

\* The first of them, in the order of their keys.  The filters apply to these, not to the query.
PageOf(l) == {e \in RowsAfter(l) : Cardinality({f \in RowsAfter(l) : f < e}) < PageSize}

\* The page is shown, as far as it passes the filter.
Shown(l, page) ==
    [e \in Executions |-> IF e \in page /\ Matches(l.rows, l.filter, e) THEN l.listed[e] + 1
                          ELSE l.listed[e]]

\* Mutant of Page: the token counts the rows seen so far.
PageByCount(r) ==
    LET l == listing[r]
        rows == {e \in Executions : Listed(l.rows, e) # Absent}
        page == {e \in rows : Cardinality({f \in rows : f < e})
                                 \in l.after .. l.after + PageSize - 1}
    IN
    /\ l.step = "paging"
    /\ listing' = [listing EXCEPT ![r] = [l EXCEPT
          !.listed = Shown(l, page),
          !.after = @ + PageSize,
          !.step = IF l.after + PageSize >= Cardinality(rows) THEN "done" ELSE "paging"]]
    /\ UNCHANGED <<storeVars, setting, resultVars, record, reading>>

\* One request: a page, and a token as long as there are more rows.
Page(r) ==
    LET l == listing[r]
        page == PageOf(l)
    IN
    /\ l.step = "paging"
    /\ listing' = [listing EXCEPT ![r] = [l EXCEPT
          !.listed = Shown(l, page),
          !.after = IF page = {} THEN @ ELSE Max(page),
          !.step = IF page = RowsAfter(l) THEN "done" ELSE "paging"]]
    /\ UNCHANGED <<storeVars, setting, resultVars, record, reading>>

-----------------------------------------------------------------------------
(* Reading one execution.                                                   *)

\* The result in the model that _entity_to_model makes of the row.
InModel(e) == IF inBlob[e] THEN NoRun ELSE inline[e]

\* get_execution (all) or get_execution_result: the row comes first.  A result
\* in the row ends the search; an execution without row is not found.
ReadRow(r) ==
    /\ setting.readers = "read" /\ reading[r].step = "idle"
    /\ \E e \in setting.executions, all \in BOOLEAN :
          /\ primary[e] # Absent
          /\ reading' = [reading EXCEPT ![r] =
               [step |-> IF all THEN "variables" ELSE IF InModel(e) = NoRun THEN "json" ELSE "done",
                exec |-> e, status |-> primary[e], all |-> all,
                result |-> InModel(e), variables |-> NoRun, lost |-> {}]]
    /\ UNCHANGED <<storeVars, setting, resultVars, record, listing>>

ReadVariables(r) ==
    /\ reading[r].step = "variables"
    /\ reading' = [reading EXCEPT
          ![r].variables = blob[reading[r].exec]["variables"],
          ![r].step = IF reading[r].result = NoRun THEN "json" ELSE "done"]
    /\ UNCHANGED <<storeVars, setting, resultVars, record, listing>>

\* The error of a read that fails is logged, and the request goes on without variables.
VariablesLost(r) ==
    /\ setting.faults /\ reading[r].step = "variables"
    /\ reading' = [reading EXCEPT
          ![r].lost = @ \cup {"variables"},
          ![r].step = IF reading[r].result = NoRun THEN "json" ELSE "done"]
    /\ UNCHANGED <<storeVars, setting, resultVars, record, listing>>

\* get_result looks for the three files in this order, whatever ResultInBlob says.
NextKind(k) == CASE k = "json" -> "html" [] k = "html" -> "txt" [] k = "txt" -> "done"

ReadBlob(r) ==
    LET k == reading[r].step
        found == blob[reading[r].exec][k]
    IN
    /\ k \in FileKinds
    /\ reading' = [reading EXCEPT ![r].result = found,
                                  ![r].step = IF found = NoRun THEN NextKind(k) ELSE "done"]
    /\ UNCHANGED <<storeVars, setting, resultVars, record, listing>>

\* A file that cannot be read is passed over like one that is not there.
BlobLost(r) ==
    LET k == reading[r].step IN
    /\ setting.faults /\ k \in FileKinds
    /\ reading' = [reading EXCEPT ![r].lost = @ \cup {k}, ![r].step = NextKind(k)]
    /\ UNCHANGED <<storeVars, setting, resultVars, record, listing>>

-----------------------------------------------------------------------------
(* ExecutionLogger.update_execution.                                        *)

LoggerIdle(c) == c \in setting.callers /\ ~InFlight(c) /\ record[c].step = "none"

\* A run has ended and its result is handed in, with the status it decides.  A
\* large result goes to a blob; what goes in the row is settled by then.
RecordRun(c, e, run) ==
    /\ LoggerIdle(c)
    /\ \A f \in Executions : run \notin ended[f]
    /\ record' = [record EXCEPT ![c] =
          [step |-> IF run \in Large THEN "upload" ELSE IF run \in Captured THEN "variables" ELSE "row",
           exec |-> e, status |-> "Success", run |-> run,
           inline |-> IF run \in Large THEN NoRun ELSE run,
           toBlob |-> run \in Large, read |-> NoRun]]
    /\ ended' = [ended EXCEPT ![e] = @ \cup {run}]
    /\ UNCHANGED <<storeVars, setting, inline, inBlob, blob, reading>>
    /\ ListingsGoOn

\* A status is written without a result: started, cancelled, timed out, failed.
RecordStatus(c, e, status) ==
    /\ LoggerIdle(c)
    /\ record' = [record EXCEPT ![c] = [NoRecord EXCEPT !.step = "row", !.exec = e, !.status = status]]
    /\ UNCHANGED <<storeVars, setting, resultVars, reading>>
    /\ ListingsGoOn

\* Mutant of UploadResult: the upload is not awaited, and lost with the handler.
UploadUnawaited(c) ==
    /\ record[c].step = "upload"
    /\ record' = [record EXCEPT ![c].step = IF record[c].run \in Captured THEN "variables" ELSE "row"]
    /\ UNCHANGED <<storeVars, setting, resultVars, reading>>
    /\ ListingsGoOn

UploadResult(c) ==
    LET t == record[c] IN
    /\ t.step = "upload"
    /\ blob' = [blob EXCEPT ![t.exec][FileOf[t.run]] = t.run]
    /\ record' = [record EXCEPT ![c].step = IF t.run \in Captured THEN "variables" ELSE "row"]
    /\ UNCHANGED <<storeVars, setting, inline, inBlob, ended, reading>>
    /\ ListingsGoOn

\* The logs are uploaded just before; nothing reads that blob.
UploadVariables(c) ==
    LET t == record[c] IN
    /\ t.step = "variables"
    /\ blob' = [blob EXCEPT ![t.exec]["variables"] = t.run]
    /\ record' = [record EXCEPT ![c].step = "row"]
    /\ UNCHANGED <<storeVars, setting, inline, inBlob, ended, reading>>
    /\ ListingsGoOn

\* An upload that fails raises to the caller, and the row is not written.
UploadFails(c) ==
    /\ setting.faults /\ record[c].step \in {"upload", "variables"}
    /\ record' = [record EXCEPT ![c] = NoRecord]
    /\ UNCHANGED <<storeVars, setting, resultVars, reading>>
    /\ ListingsGoOn

-----------------------------------------------------------------------------
(* The repository's part: its steps, with the columns of the result.        *)

\* The logger's call ends with the repository's.
RecordFollows(c) ==
    record' = [record EXCEPT ![c] = IF call'[c].step \in RestSteps THEN NoRecord ELSE @]

Create(c, e) ==
    /\ LoggerIdle(c) /\ BeginCreate(c, e)
    /\ UNCHANGED <<setting, resultVars, record, reading>>
    /\ ListingsGoOn

CallUpdate(c) ==
    /\ record[c].step = "row" /\ ~InFlight(c)
    /\ BeginUpdate(c, record[c].exec, record[c].status)
    /\ UNCHANGED <<setting, resultVars, record, reading>>
    /\ ListingsGoOn

\* The query reads the whole row, its Result column too.
ReadForUpdate(c) ==
    /\ QueryPrimary(c)
    /\ record' = [record EXCEPT ![c].read = inline[call[c].exec]]
    /\ UNCHANGED <<setting, resultVars, reading>>
    /\ ListingsGoOn

\* The merge of the row is done; its answer may be lost.
MergeRow(c) ==
    \/ WritePrimary(c)
    \/ setting.faults /\ MergeAnswerLost(c)

\* Mutant of WriteResult: the row is replaced, and an unset Result is cleared.
ReplaceResult(c) ==
    LET t == record[c] IN
    /\ MergeRow(c)
    /\ inline' = [inline EXCEPT ![t.exec] = IF t.inline \notin Empty THEN t.inline ELSE NoRun]
    /\ inBlob' = [inBlob EXCEPT ![t.exec] = t.toBlob]
    /\ RecordFollows(c)
    /\ UNCHANGED <<setting, blob, ended, reading>>
    /\ ListingsGoOn

\* The merge writes back what the query read, but for a result that is not
\* empty; a column that was unset is not part of the merge.
WriteResult(c) ==
    LET t == record[c] IN
    /\ MergeRow(c)
    /\ inline' = [inline EXCEPT ![t.exec] =
          IF t.inline \in Runs \ Empty THEN t.inline ELSE IF t.read # NoRun THEN t.read ELSE @]
    /\ inBlob' = [inBlob EXCEPT ![t.exec] = t.toBlob]
    /\ RecordFollows(c)
    /\ UNCHANGED <<setting, blob, ended, reading>>
    /\ ListingsGoOn

WriteRow(c) ==
    /\ \/ InsertPrimary(c) \/ InsertPrimaryExists(c) \/ InsertIndexes(c)
       \/ QueryPrimaryMissing(c) \/ WriteDisplay(c) \/ DeleteOldRow(c) \/ InsertNewRow(c)
    /\ RecordFollows(c)
    /\ UNCHANGED <<setting, resultVars, reading>>
    /\ ListingsGoOn

RowFault(c) ==
    /\ setting.faults
    /\ \/ PrimaryFault(c) \/ InsertAnswerLost(c)
       \/ IndexInsertFault(c) \/ IndexUpdateFault(c)
    /\ RecordFollows(c)
    /\ UNCHANGED <<setting, resultVars, reading>>
    /\ ListingsGoOn

\* The caller dies, or takes what the call returned.
Abandon(c) ==
    /\ InFlight(c) => setting.faults
    /\ AbandonCall(c)
    /\ record' = [record EXCEPT ![c] = NoRecord]
    /\ UNCHANGED <<setting, resultVars, reading>>
    /\ ListingsGoOn

ResultsNext ==
    \/ \E c \in setting.callers, e \in setting.executions : Create(c, e)
    \/ \E c \in setting.callers, e \in setting.executions, run \in setting.runs : RecordRun(c, e, run)
    \/ \E c \in setting.callers, e \in setting.executions, s \in setting.statuses : RecordStatus(c, e, s)
    \/ \E c \in Callers : UploadResult(c)
    \/ \E c \in Callers : UploadVariables(c)
    \/ \E c \in Callers : UploadFails(c)
    \/ \E c \in Callers : CallUpdate(c)
    \/ \E c \in Callers : ReadForUpdate(c)
    \/ \E c \in Callers : WriteResult(c)
    \/ \E c \in Callers : WriteRow(c)
    \/ \E c \in Callers : RowFault(c)
    \/ \E c \in Callers : Abandon(c)
    \/ \E r \in Readers : ReadRow(r)
    \/ \E r \in Readers : ReadVariables(r)
    \/ \E r \in Readers : VariablesLost(r)
    \/ \E r \in Readers : ReadBlob(r)
    \/ \E r \in Readers : BlobLost(r)
    \/ \E r \in Readers : BeginListing(r)
    \/ \E r \in Readers : Page(r)

ResultsSpec == ResultsInit /\ [][ResultsNext]_allVars

-----------------------------------------------------------------------------
(* Properties.                                                              *)

\* What a page shows of a run's result: nothing of an empty one.
Visible(run) == IF run \in Empty THEN NoRun ELSE run

\* Once a reader has seen an execution succeed that only one run was ever handed
\* in for, it shows that run's result and that run's variables, however the
\* reader's steps, the uploads and other updates interleave, fail or break off:
\* update_execution stores everything before the row says so.  Only a blob that
\* holds them and that this reader could not read is missing from what is shown
\* (blob_storage.py:302-309, 470-476); a file that failed beside it is not missed.
SuccessIsComplete ==
    \A r \in Readers : LET x == reading[r] IN
        \A run \in Runs :
            /\ x.step = "done" /\ x.status = "Success" /\ ended[x.exec] = {run}
            => /\ \/ x.result = Visible(run)
                  \/ run \in Large /\ FileOf[run] \in x.lost /\ x.result = NoRun
               /\ x.all => x.variables = IF run \in Captured /\ "variables" \notin x.lost
                                         THEN run ELSE NoRun

\* Where a reader who is not interrupted finds a result.
Readable(e) == InModel(e) # NoRun \/ \E k \in FileKinds : blob[e][k] # NoRun

\* A result that can be read stays readable: no later status, late update or
\* failing request takes it away (the merge in WriteResult, overwrite=True).
ResultsStay == [][\A e \in Executions : Readable(e) => Readable(e)']_allVars

\* Paging through the list shows every execution exactly once that matches from
\* the first page to the last, whatever is created or updated between two pages.
ListsEachOnce ==
    \A r \in Readers : LET l == listing[r] IN
        l.step = "done" => /\ \A e \in Executions : l.listed[e] <= 1
                           /\ \A e \in l.steady : l.listed[e] = 1
=============================================================================
