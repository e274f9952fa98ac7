------------------------- MODULE AsyncExecution_proofs -------------------------
(***************************************************************************)
(* Proofs about the records of executions and everything that writes them,   *)
(* in five parts, each of which cites the assumptions of its own module only: *)
(*   - ExecutionRepository, for any callers and any statuses they write;     *)
(*   - AsyncExecution uses it as it says callers may, so that what is proved *)
(*     of StoreSpec holds of every execution;                               *)
(*   - the queue: what each process may assume at each await, for any number *)
(*     of requests, workers, poison handlers, cancels and cleanups;          *)
(*   - results: the logger's uploads, the readers and the paged list, for any *)
(*     number of callers and readers, any finite set of executions and pages *)
(*     of any size;                                                          *)
(*   - EngineProcess: the executions of one process, for any number of them.  *)
(***************************************************************************)
EXTENDS AsyncExecution, ExecutionResults, EngineProcess, FiniteSetTheorems, SequenceTheorems,
        WellFoundedInduction, TLAPS

-----------------------------------------------------------------------------
(* ExecutionRepository.  The inductive invariant StoreInv says what every     *)
(* call in flight has established so far:                                    *)
(*   CallsSane    what holds of every call, however calls overlap and fail;  *)
(*   SoleCall     an undisturbed execution has one call in flight at most;   *)
(*   SoleProgress how far that call has taken the rows.                      *)

\* Every call in flight works on an execution and writes an execution status.
\* A creation writes Running; an update that is past its query has found the
\* primary row, and has set CompletedAt if it wrote a final status.
CallsSane ==
    \A c \in Callers : InFlight(c) =>
        /\ call[c].exec \in Executions
        /\ call[c].new \in ExecutionStatus
        /\ call[c].step \in {"insertPrimary", "insertIndexes"} => call[c].new = "Running"
        /\ call[c].step \notin {"insertPrimary", "query"} => primary[call[c].exec] # Absent
        /\ call[c].step = "writeDisplay" /\ call[c].new \in FinalStatuses
              => completedAt[call[c].exec]

SoleCall ==
    \A c, d \in Callers :
        /\ InFlight(c) /\ InFlight(d)
        /\ call[c].exec = call[d].exec /\ call[c].exec \notin disturbed
        => c = d

\* The rows of e while the call r on it is the only one.
Progress(r, e) ==
    /\ r.step \in {"insertPrimary", "query", "writePrimary"} => Mirrored(e)
    /\ r.step = "writePrimary" => primary[e] = r.old
    /\ r.step \in {"insertIndexes", "writeDisplay", "deleteRow", "insertRow"}
          => primary[e] = r.new
    /\ r.step = "insertIndexes" => display[e] = Absent
    /\ r.step = "writeDisplay" => display[e] # Absent
    /\ r.step \in {"deleteRow", "insertRow"} => display[e] = r.new
    /\ r.step \in {"insertIndexes", "insertRow"} => OnlyRow(e, Absent)
    /\ r.step \in {"writeDisplay", "deleteRow"} => OnlyRow(e, r.old)

SoleProgress ==
    \A c \in Callers :
        InFlight(c) /\ call[c].exec \notin disturbed => Progress(call[c], call[c].exec)

StoreInv ==
    /\ StoreTypeOK
    /\ NoDanglingIndex /\ FinalDisplayIsCompleted /\ IndexesMirrorPrimary
    /\ CallsSane /\ SoleCall /\ SoleProgress

-----------------------------------------------------------------------------

USE DEF InFlight, InFlightSteps, RestSteps, StoredStatus, ExecutionStatus,
        ActiveStatuses, FinalStatuses, Absent, CallAt, NoCall

LEMMA StoreInitInv == StoreInit => StoreInv
BY DEF StoreInit, StoreInv, StoreTypeOK, CallsSane, NoDanglingIndex, OnlyRow, SoleCall,
       SoleProgress, IndexesMirrorPrimary, Mirrored, CallsOn, FinalDisplayIsCompleted, CallRecord

-----------------------------------------------------------------------------
(* Each step of a call preserves the invariant.                             *)

LEMMA BeginPreserves ==
    ASSUME StoreInv, NEW c \in Callers, NEW e \in Executions, NEW step, NEW s \in ExecutionStatus,
           (step = "insertPrimary" /\ s = "Running") \/ step = "query",
           Begin(c, e, step, s)
    PROVE  StoreInv'
<1> USE DEF StoreInv, StoreTypeOK, CallRecord, Begin
<1>1. StoreTypeOK'
    BY DEF CallsSane
<1>2. NoDanglingIndex'
    BY DEF NoDanglingIndex, OnlyRow, CallsSane
<1>3. FinalDisplayIsCompleted'
    BY DEF FinalDisplayIsCompleted, CallsSane
<1>4. IndexesMirrorPrimary'
    BY DEF IndexesMirrorPrimary, SoleProgress, Progress, CallsOn, Mirrored, OnlyRow, CallsSane
<1>5. CallsSane'
    BY DEF CallsSane
<1>6. SoleCall'
    BY DEF SoleCall, CallsOn
<1>7. SoleProgress'
    BY DEF SoleProgress, SoleCall, Progress, IndexesMirrorPrimary, CallsOn, Mirrored, OnlyRow, CallsSane
<1> QED
    BY <1>1, <1>2, <1>3, <1>4, <1>5, <1>6, <1>7

LEMMA InsertPrimaryPreserves ==
    ASSUME StoreInv, NEW c \in Callers, InsertPrimary(c)
    PROVE  StoreInv'
<1> USE DEF StoreInv, StoreTypeOK, CallRecord, InsertPrimary, Goto
<1>1. StoreTypeOK'
    BY DEF CallsSane
<1>2. NoDanglingIndex'
    BY DEF NoDanglingIndex, OnlyRow, CallsSane
<1>3. FinalDisplayIsCompleted'
    BY DEF FinalDisplayIsCompleted, CallsSane
<1>4. IndexesMirrorPrimary'
    BY DEF IndexesMirrorPrimary, SoleProgress, Progress, CallsOn, Mirrored, OnlyRow, CallsSane
<1>5. CallsSane'
    BY DEF CallsSane
<1>6. SoleCall'
    BY DEF SoleCall, CallsOn
<1>7. SoleProgress'
    BY DEF SoleProgress, SoleCall, Progress, IndexesMirrorPrimary, CallsOn, Mirrored, OnlyRow, CallsSane
<1> QED
    BY <1>1, <1>2, <1>3, <1>4, <1>5, <1>6, <1>7

LEMMA InsertIndexesPreserves ==
    ASSUME StoreInv, NEW c \in Callers, InsertIndexes(c)
    PROVE  StoreInv'
<1> USE DEF StoreInv, StoreTypeOK, CallRecord, InsertIndexes, Finish
<1>1. StoreTypeOK'
    BY DEF CallsSane
<1>2. NoDanglingIndex'
    BY DEF NoDanglingIndex, OnlyRow, CallsSane
<1>3. FinalDisplayIsCompleted'
    BY DEF FinalDisplayIsCompleted, CallsSane
<1>4. IndexesMirrorPrimary'
    BY DEF IndexesMirrorPrimary, SoleProgress, Progress, CallsOn, Mirrored, OnlyRow, CallsSane
<1>5. CallsSane'
    BY DEF CallsSane
<1>6. SoleCall'
    BY DEF SoleCall, CallsOn
<1>7. SoleProgress'
    BY DEF SoleProgress, SoleCall, Progress, IndexesMirrorPrimary, CallsOn, Mirrored, OnlyRow, CallsSane
<1> QED
    BY <1>1, <1>2, <1>3, <1>4, <1>5, <1>6, <1>7

LEMMA QueryPrimaryPreserves ==
    ASSUME StoreInv, NEW c \in Callers, QueryPrimary(c)
    PROVE  StoreInv'
<1> USE DEF StoreInv, StoreTypeOK, CallRecord, QueryPrimary
<1>1. StoreTypeOK'
    BY DEF CallsSane
<1>2. NoDanglingIndex'
    BY DEF NoDanglingIndex, OnlyRow, CallsSane
<1>3. FinalDisplayIsCompleted'
    BY DEF FinalDisplayIsCompleted, CallsSane
<1>4. IndexesMirrorPrimary'
    BY DEF IndexesMirrorPrimary, SoleProgress, Progress, CallsOn, Mirrored, OnlyRow, CallsSane
<1>5. CallsSane'
    BY DEF CallsSane
<1>6. SoleCall'
    BY DEF SoleCall, CallsOn
<1>7. SoleProgress'
    BY DEF SoleProgress, SoleCall, Progress, IndexesMirrorPrimary, CallsOn, Mirrored, OnlyRow, CallsSane
<1> QED
    BY <1>1, <1>2, <1>3, <1>4, <1>5, <1>6, <1>7

LEMMA WritePrimaryPreserves ==
    ASSUME StoreInv, NEW c \in Callers, WritePrimary(c)
    PROVE  StoreInv'
<1> USE DEF StoreInv, StoreTypeOK, CallRecord, WritePrimary, Goto
<1>1. StoreTypeOK'
    BY DEF CallsSane
<1>2. NoDanglingIndex'
    BY DEF NoDanglingIndex, OnlyRow, CallsSane
<1>3. FinalDisplayIsCompleted'
    BY DEF FinalDisplayIsCompleted, CallsSane
<1>4. IndexesMirrorPrimary'
    BY DEF IndexesMirrorPrimary, SoleProgress, Progress, CallsOn, Mirrored, OnlyRow, CallsSane
<1>5. CallsSane'
    BY DEF CallsSane
<1>6. SoleCall'
    BY DEF SoleCall, CallsOn
<1>7. SoleProgress'
    BY DEF SoleProgress, SoleCall, Progress, IndexesMirrorPrimary, CallsOn, Mirrored, OnlyRow, CallsSane
<1> QED
    BY <1>1, <1>2, <1>3, <1>4, <1>5, <1>6, <1>7

LEMMA WriteDisplayPreserves ==
    ASSUME StoreInv, NEW c \in Callers, WriteDisplay(c)
    PROVE  StoreInv'
<1> USE DEF StoreInv, StoreTypeOK, CallRecord, WriteDisplay, Goto
<1>1. StoreTypeOK'
    BY DEF CallsSane
<1>2. NoDanglingIndex'
    BY DEF NoDanglingIndex, OnlyRow, CallsSane
<1>3. FinalDisplayIsCompleted'
    BY DEF FinalDisplayIsCompleted, CallsSane
<1>4. IndexesMirrorPrimary'
    BY DEF IndexesMirrorPrimary, SoleProgress, Progress, CallsOn, Mirrored, OnlyRow, CallsSane
<1>5. CallsSane'
    BY DEF CallsSane
<1>6. SoleCall'
    BY DEF SoleCall, CallsOn
<1>7. SoleProgress'
    BY DEF SoleProgress, SoleCall, Progress, IndexesMirrorPrimary, CallsOn, Mirrored, OnlyRow, CallsSane
<1> QED
    BY <1>1, <1>2, <1>3, <1>4, <1>5, <1>6, <1>7

LEMMA DeleteOldRowPreserves ==
    ASSUME StoreInv, NEW c \in Callers, DeleteOldRow(c)
    PROVE  StoreInv'
<1> USE DEF StoreInv, StoreTypeOK, CallRecord, DeleteOldRow, Goto
<1>1. StoreTypeOK'
    BY DEF CallsSane
<1>2. NoDanglingIndex'
    BY DEF NoDanglingIndex, OnlyRow, CallsSane
<1>3. FinalDisplayIsCompleted'
    BY DEF FinalDisplayIsCompleted, CallsSane
<1>4. IndexesMirrorPrimary'
    BY DEF IndexesMirrorPrimary, SoleProgress, Progress, CallsOn, Mirrored, OnlyRow, CallsSane
<1>5. CallsSane'
    BY DEF CallsSane
<1>6. SoleCall'
    BY DEF SoleCall, CallsOn
<1>7. SoleProgress'
    BY DEF SoleProgress, SoleCall, Progress, IndexesMirrorPrimary, CallsOn, Mirrored, OnlyRow, CallsSane
<1> QED
    BY <1>1, <1>2, <1>3, <1>4, <1>5, <1>6, <1>7

LEMMA InsertNewRowPreserves ==
    ASSUME StoreInv, NEW c \in Callers, InsertNewRow(c)
    PROVE  StoreInv'
<1> USE DEF StoreInv, StoreTypeOK, CallRecord, InsertNewRow, Finish
<1>1. StoreTypeOK'
    BY DEF CallsSane
<1>2. NoDanglingIndex'
    BY DEF NoDanglingIndex, OnlyRow, CallsSane
<1>3. FinalDisplayIsCompleted'
    BY DEF FinalDisplayIsCompleted, CallsSane
<1>4. IndexesMirrorPrimary'
    BY DEF IndexesMirrorPrimary, SoleProgress, Progress, CallsOn, Mirrored, OnlyRow, CallsSane
<1>5. CallsSane'
    BY DEF CallsSane
<1>6. SoleCall'
    BY DEF SoleCall, CallsOn
<1>7. SoleProgress'
    BY DEF SoleProgress, SoleCall, Progress, IndexesMirrorPrimary, CallsOn, Mirrored, OnlyRow, CallsSane
<1> QED
    BY <1>1, <1>2, <1>3, <1>4, <1>5, <1>6, <1>7

LEMMA RefusedCallPreserves ==
    ASSUME StoreInv, NEW c \in Callers, InsertPrimaryExists(c) \/ QueryPrimaryMissing(c) \/ PrimaryFault(c)
    PROVE  StoreInv'
<1> USE DEF StoreInv, StoreTypeOK, CallRecord, Finish
<1>0. /\ call[c].step \in {"insertPrimary", "query", "writePrimary"}
      /\ Finish(c, "raised")
      /\ UNCHANGED <<primary, completedAt, display, statusRows, disturbed>>
    BY DEF InsertPrimaryExists, QueryPrimaryMissing, PrimaryFault
<1>1. StoreTypeOK'
    BY <1>0 DEF CallsSane
<1>2. NoDanglingIndex'
    BY <1>0 DEF NoDanglingIndex, OnlyRow, CallsSane
<1>3. FinalDisplayIsCompleted'
    BY <1>0 DEF FinalDisplayIsCompleted, CallsSane
<1>4. IndexesMirrorPrimary'
    BY <1>0 DEF IndexesMirrorPrimary, SoleProgress, Progress, CallsOn, Mirrored, OnlyRow, CallsSane
<1>5. CallsSane'
    BY <1>0 DEF CallsSane
<1>6. SoleCall'
    BY <1>0 DEF SoleCall, CallsOn
<1>7. SoleProgress'
    BY <1>0 DEF SoleProgress, SoleCall, Progress, IndexesMirrorPrimary, CallsOn, Mirrored, OnlyRow, CallsSane
<1> QED
    BY <1>1, <1>2, <1>3, <1>4, <1>5, <1>6, <1>7

LEMMA InsertAnswerLostPreserves ==
    ASSUME StoreInv, NEW c \in Callers, InsertAnswerLost(c)
    PROVE  StoreInv'
<1> USE DEF StoreInv, StoreTypeOK, CallRecord, InsertAnswerLost, Finish
<1>1. StoreTypeOK'
    BY DEF CallsSane
<1>2. NoDanglingIndex'
    BY DEF NoDanglingIndex, OnlyRow, CallsSane
<1>3. FinalDisplayIsCompleted'
    BY DEF FinalDisplayIsCompleted, CallsSane
<1>4. IndexesMirrorPrimary'
    BY DEF IndexesMirrorPrimary, SoleProgress, Progress, CallsOn, Mirrored, OnlyRow, CallsSane
<1>5. CallsSane'
    BY DEF CallsSane
<1>6. SoleCall'
    BY DEF SoleCall, CallsOn
<1>7. SoleProgress'
    BY DEF SoleProgress, SoleCall, Progress, IndexesMirrorPrimary, CallsOn, Mirrored, OnlyRow, CallsSane
<1> QED
    BY <1>1, <1>2, <1>3, <1>4, <1>5, <1>6, <1>7

LEMMA MergeAnswerLostPreserves ==
    ASSUME StoreInv, NEW c \in Callers, MergeAnswerLost(c)
    PROVE  StoreInv'
<1> USE DEF StoreInv, StoreTypeOK, CallRecord, MergeAnswerLost, Finish
<1>1. StoreTypeOK'
    BY DEF CallsSane
<1>2. NoDanglingIndex'
    BY DEF NoDanglingIndex, OnlyRow, CallsSane
<1>3. FinalDisplayIsCompleted'
    BY DEF FinalDisplayIsCompleted, CallsSane
<1>4. IndexesMirrorPrimary'
    BY DEF IndexesMirrorPrimary, SoleProgress, Progress, CallsOn, Mirrored, OnlyRow, CallsSane
<1>5. CallsSane'
    BY DEF CallsSane
<1>6. SoleCall'
    BY DEF SoleCall, CallsOn
<1>7. SoleProgress'
    BY DEF SoleProgress, SoleCall, Progress, IndexesMirrorPrimary, CallsOn, Mirrored, OnlyRow, CallsSane
<1> QED
    BY <1>1, <1>2, <1>3, <1>4, <1>5, <1>6, <1>7

LEMMA IndexInsertFaultPreserves ==
    ASSUME StoreInv, NEW c \in Callers, IndexInsertFault(c)
    PROVE  StoreInv'
<1> USE DEF StoreInv, StoreTypeOK, CallRecord, IndexInsertFault, Finish
<1>1. StoreTypeOK'
    BY DEF CallsSane
<1>2. NoDanglingIndex'
    BY DEF NoDanglingIndex, OnlyRow, CallsSane
<1>3. FinalDisplayIsCompleted'
    BY DEF FinalDisplayIsCompleted, CallsSane
<1>4. IndexesMirrorPrimary'
    BY DEF IndexesMirrorPrimary, SoleProgress, Progress, CallsOn, Mirrored, OnlyRow, CallsSane
<1>5. CallsSane'
    BY DEF CallsSane
<1>6. SoleCall'
    BY DEF SoleCall, CallsOn
<1>7. SoleProgress'
    BY DEF SoleProgress, SoleCall, Progress, IndexesMirrorPrimary, CallsOn, Mirrored, OnlyRow, CallsSane
<1> QED
    BY <1>1, <1>2, <1>3, <1>4, <1>5, <1>6, <1>7

LEMMA IndexUpdateFaultPreserves ==
    ASSUME StoreInv, NEW c \in Callers, IndexUpdateFault(c)
    PROVE  StoreInv'
<1> USE DEF StoreInv, StoreTypeOK, CallRecord, IndexUpdateFault, Goto, Finish
<1>1. StoreTypeOK'
    BY DEF CallsSane
<1>2. NoDanglingIndex'
    BY DEF NoDanglingIndex, OnlyRow, CallsSane
<1>3. FinalDisplayIsCompleted'
    BY DEF FinalDisplayIsCompleted, CallsSane
<1>4. IndexesMirrorPrimary'
    <2> SUFFICES ASSUME NEW e \in Executions, e \notin disturbed', CallsOn(e)' = {}
                 PROVE  Mirrored(e)'
        BY DEF IndexesMirrorPrimary
    <2>1. e # call[c].exec /\ e \notin disturbed
        OBVIOUS
    <2>2. \A d \in Callers : d # c => call'[d] = call[d]
        OBVIOUS
    <2>3. CallsOn(e) = {}
        BY <2>1, <2>2 DEF CallsOn
    <2> QED
        BY <2>1, <2>3 DEF IndexesMirrorPrimary, Mirrored, OnlyRow
<1>5. CallsSane'
    BY DEF CallsSane
<1>6. SoleCall'
    BY DEF SoleCall, CallsOn
<1>7. SoleProgress'
    <2> SUFFICES ASSUME NEW d \in Callers, InFlight(d)', call'[d].exec \notin disturbed'
                 PROVE  Progress(call[d], call[d].exec)'
        BY DEF SoleProgress
    <2>1. d # c
        OBVIOUS
    <2>2. call'[d] = call[d] /\ call[d].exec \notin disturbed
        BY <2>1
    <2>3. Progress(call[d], call[d].exec)
        BY <2>2 DEF SoleProgress
    <2> QED
        BY <2>2, <2>3 DEF Progress, Mirrored, OnlyRow
<1> QED
    BY <1>1, <1>2, <1>3, <1>4, <1>5, <1>6, <1>7

LEMMA AbandonCallPreserves ==
    ASSUME StoreInv, NEW c \in Callers, AbandonCall(c)
    PROVE  StoreInv'
<1> USE DEF StoreInv, StoreTypeOK, CallRecord, AbandonCall
<1>1. StoreTypeOK'
    BY DEF CallsSane
<1>2. NoDanglingIndex'
    BY DEF NoDanglingIndex, OnlyRow, CallsSane
<1>3. FinalDisplayIsCompleted'
    BY DEF FinalDisplayIsCompleted, CallsSane
<1>4. IndexesMirrorPrimary'
    BY DEF IndexesMirrorPrimary, SoleProgress, Progress, CallsOn, Mirrored, OnlyRow, CallsSane
<1>5. CallsSane'
    BY DEF CallsSane
<1>6. SoleCall'
    BY DEF SoleCall, CallsOn
<1>7. SoleProgress'
    BY DEF SoleProgress, SoleCall, Progress, IndexesMirrorPrimary, CallsOn, Mirrored, OnlyRow, CallsSane
<1> QED
    BY <1>1, <1>2, <1>3, <1>4, <1>5, <1>6, <1>7

-----------------------------------------------------------------------------
(* The theorems.                                                            *)

LEMMA StoreNextInv == StoreInv /\ [StoreNext]_storeVars => StoreInv'
<1> SUFFICES ASSUME StoreInv, [StoreNext]_storeVars PROVE StoreInv'
    OBVIOUS
<1>1. CASE UNCHANGED storeVars
    BY <1>1 DEF storeVars, StoreInv, StoreTypeOK, NoDanglingIndex, OnlyRow, Mirrored,
                FinalDisplayIsCompleted, IndexesMirrorPrimary, CallsOn, CallsSane,
                SoleCall, SoleProgress, Progress
<1>2. CASE StoreNext
    <2> SUFFICES ASSUME NEW c \in Callers,
                        \/ \E e \in Executions : BeginCreate(c, e)
                        \/ \E e \in Executions, s \in Writable : BeginUpdate(c, e, s)
                        \/ CallStep(c)
                        \/ StorageFault(c)
                        \/ AbandonCall(c)
                 PROVE  StoreInv'
        BY <1>2 DEF StoreNext
    <2>1. ASSUME NEW e \in Executions, BeginCreate(c, e) PROVE StoreInv'
        BY <2>1, BeginPreserves DEF BeginCreate
    <2>2. ASSUME NEW e \in Executions, NEW s \in Writable, BeginUpdate(c, e, s)
          PROVE StoreInv'
        BY <2>2, BeginPreserves, WritableAssumption DEF BeginUpdate
    <2>3. CASE CallStep(c)
        BY <2>3, InsertPrimaryPreserves, InsertIndexesPreserves, QueryPrimaryPreserves,
           WritePrimaryPreserves, WriteDisplayPreserves, DeleteOldRowPreserves,
           InsertNewRowPreserves, RefusedCallPreserves DEF CallStep
    <2>4. CASE StorageFault(c)
        BY <2>4, RefusedCallPreserves, InsertAnswerLostPreserves, MergeAnswerLostPreserves,
           IndexInsertFaultPreserves, IndexUpdateFaultPreserves
           DEF StorageFault
    <2>5. CASE AbandonCall(c)
        BY <2>5, AbandonCallPreserves
    <2> QED
        BY <2>1, <2>2, <2>3, <2>4, <2>5
<1> QED
    BY <1>1, <1>2

THEOREM StoreInvariant == StoreSpec => []StoreInv
<1>1. StoreInit => StoreInv
    BY StoreInitInv
<1>2. StoreInv /\ [StoreNext]_storeVars => StoreInv'
    BY StoreNextInv
<1> QED
    BY <1>1, <1>2, PTL DEF StoreSpec

THEOREM StoreTypeCorrect == StoreSpec => []StoreTypeOK
BY StoreInvariant, PTL DEF StoreInv

\* The indexes of an execution agree with its primary row between two calls
\* as long as its calls neither overlap nor break off.
THEOREM IndexesMirrorPrimaryAlways == StoreSpec => []IndexesMirrorPrimary
BY StoreInvariant, PTL DEF StoreInv

\* No index row without a primary row.
THEOREM NoDanglingIndexEver == StoreSpec => []NoDanglingIndex
BY StoreInvariant, PTL DEF StoreInv

\* Display rows are final only after CompletedAt was set.
THEOREM FinalDisplayIsCompletedAlways == StoreSpec => []FinalDisplayIsCompleted
BY StoreInvariant, PTL DEF StoreInv

-----------------------------------------------------------------------------
(* The repository implements ExecutionTable.                                *)

USE DEF Table!Request, Table!Resting, RequestOf

\* A change of one call changes one request.
LEMMA RequestChanges ==
    ASSUME StoreTypeOK, NEW c \in Callers, NEW k, call' = [call EXCEPT ![c] = k]
    PROVE  Requested' = [Requested EXCEPT ![c] = RequestOf(k)]
<1> HIDE DEF RequestOf
<1>1. \A d \in Callers : call'[d] = IF d = c THEN k ELSE call[d]
    BY DEF StoreTypeOK
<1> QED BY ONLY <1>1 DEF Requested

Kind(step) == IF step = "insertPrimary" THEN "create" ELSE "update"

\* A call that begins asks for something.
LEMMA BeginAsks ==
    ASSUME StoreInv, NEW c \in Callers, NEW e \in Executions, NEW s \in ExecutionStatus, NEW step,
           step = "insertPrimary" \/ step = "query", Begin(c, e, step, s)
    PROVE  Table!TableNext
<1>1. Requested' = [Requested EXCEPT ![c] = RequestOf(CallAt(step, e, s, Absent))]
    BY RequestChanges DEF Begin, StoreInv
<1>2. RequestOf(CallAt(step, e, s, Absent)) = Table!Request("asked", e, s, Kind(step))
    BY DEF Kind
<1>3. Requested[c].state \in {"idle", "returned", "raised"}
    BY DEF Begin, Requested, StoreInv, StoreTypeOK, CallRecord
<1>4. Requested'[c] = Table!Request("asked", e, s, Kind(step))
    BY <1>1, <1>2 DEF Requested
<1>5. Requested'[c] \in Table!Asked
    BY <1>4 DEF Table!Asked, Kind
<1>6. Table!Ask(c)
    BY <1>1, <1>2, <1>3, <1>4, <1>5 DEF Table!Ask, Begin
<1> QED
    BY <1>6 DEF Table!TableNext

\* A call takes effect with the write of the primary row.
LEMMA WriteTakesEffect ==
    ASSUME StoreInv, NEW c \in Callers, InsertPrimary(c) \/ WritePrimary(c)
    PROVE  Table!TableNext
<1> DEFINE k == CallAt(IF call[c].step = "insertPrimary" THEN "insertIndexes" ELSE "writeDisplay",
                       call[c].exec, call[c].new, call[c].old)
<1>1. Requested' = [Requested EXCEPT ![c] = RequestOf(k)]
    BY RequestChanges DEF InsertPrimary, WritePrimary, Goto, StoreInv
<1>2. Requested[c] = RequestOf(call[c]) /\ call[c].step \in {"insertPrimary", "writePrimary"}
    BY DEF Requested, InsertPrimary, WritePrimary
<1>3. call[c].step = "insertPrimary" <=> primary[call[c].exec] = Absent
    BY <1>2 DEF InsertPrimary, WritePrimary, StoreInv, CallsSane
<1>4. primary' = [primary EXCEPT ![call[c].exec] = call[c].new]
    BY DEF InsertPrimary, WritePrimary
<1>5. RequestOf(k) = Table!Request("done", call[c].exec, call[c].new, Kind(call[c].step))
    BY <1>2 DEF Kind
<1>6. /\ Requested[c].state = "asked" /\ Requested[c].exec = call[c].exec
      /\ Requested[c].status = call[c].new /\ Requested[c].kind = Kind(call[c].step)
    BY <1>2 DEF Kind
<1>7. Requested[c].kind = "create" <=> primary[Requested[c].exec] = Absent
    BY <1>3, <1>6 DEF Kind
<1> HIDE DEF k
<1>8. Requested' = [Requested EXCEPT ![c] = Table!Request("done", Requested[c].exec,
                                                        Requested[c].status, Requested[c].kind)]
    BY <1>1, <1>5, <1>6
<1>9. Table!TakeEffect(c)
    BY <1>4, <1>6, <1>7, <1>8 DEF Table!TakeEffect, Table!Effect
<1> QED
    BY <1>9 DEF Table!TableNext

\* So it does where the answer to that write is lost.
LEMMA UntoldTakesEffect ==
    ASSUME StoreInv, NEW c \in Callers, InsertAnswerLost(c) \/ MergeAnswerLost(c)
    PROVE  Table!TableNext
<1>1. Requested' = [Requested EXCEPT ![c] = RequestOf(NoCall("raised"))]
    BY RequestChanges DEF InsertAnswerLost, MergeAnswerLost, Finish, StoreInv
<1>2. Requested[c] = RequestOf(call[c]) /\ call[c].step \in {"insertPrimary", "writePrimary"}
    BY DEF Requested, InsertAnswerLost, MergeAnswerLost
<1>3. call[c].step = "insertPrimary" <=> primary[call[c].exec] = Absent
    BY <1>2 DEF InsertAnswerLost, MergeAnswerLost, StoreInv, CallsSane
<1>4. primary' = [primary EXCEPT ![call[c].exec] = call[c].new]
    BY DEF InsertAnswerLost, MergeAnswerLost
<1>5. RequestOf(NoCall("raised")) = Table!Resting("raised")
    OBVIOUS
<1>6. /\ Requested[c].state = "asked" /\ Requested[c].exec = call[c].exec
      /\ Requested[c].status = call[c].new /\ Requested[c].kind = Kind(call[c].step)
    BY <1>2 DEF Kind
<1>7. Requested[c].kind = "create" <=> primary[Requested[c].exec] = Absent
    BY <1>3, <1>6 DEF Kind
<1>8. Table!TakeEffectUntold(c)
    BY <1>1, <1>4, <1>5, <1>6, <1>7 DEF Table!TakeEffectUntold, Table!Effect
<1> QED
    BY <1>8 DEF Table!TableNext

\* A call that ends returns, if it has taken effect; one that raises has not, but for a creation.
LEMMA FinishEnds ==
    ASSUME StoreInv, NEW c \in Callers, NEW end, Finish(c, end), UNCHANGED primary,
           \/ end = "returned" /\ call[c].step \in {"insertIndexes", "insertRow"}
           \/ end = "raised" /\ call[c].step \in {"insertPrimary", "insertIndexes", "query",
                                                  "writePrimary"}
    PROVE  Table!TableNext
<1>1. Requested' = [Requested EXCEPT ![c] = RequestOf(NoCall(end))]
    BY RequestChanges DEF Finish, StoreInv
<1>2. RequestOf(NoCall(end)) = Table!Resting(end)
    OBVIOUS
<1>3. Requested' = [Requested EXCEPT ![c] = Table!Resting(end)]
    BY <1>1, <1>2
<1>4. CASE end = "returned"
    <2>1. Requested[c].state = "done"
        BY <1>4 DEF Requested
    <2>2. Table!Return(c)
        BY <1>3, <1>4, <2>1 DEF Table!Return
    <2> QED
        BY <2>2 DEF Table!TableNext
<1>5. CASE end = "raised"
    <2>1. Requested[c].state = "asked" \/ (Requested[c].state = "done" /\ Requested[c].kind = "create")
        BY <1>5 DEF Requested
    <2>2. Table!Refuse(c)
        BY <1>3, <1>5, <2>1 DEF Table!Refuse
    <2> QED
        BY <2>2 DEF Table!TableNext
<1> QED
    BY <1>4, <1>5

\* The other steps of a call are nothing to its caller.
LEMMA GoingOnIsNothing ==
    ASSUME StoreInv, NEW c \in Callers, NEW k, call' = [call EXCEPT ![c] = k], UNCHANGED primary,
           RequestOf(k) = RequestOf(call[c])
    PROVE  UNCHANGED Table!tableVars
<1>1. Requested' = [Requested EXCEPT ![c] = RequestOf(call[c])]
    BY RequestChanges DEF StoreInv
<1> QED
    BY <1>1 DEF Requested, Table!tableVars

LEMMA CallStepImplements ==
    ASSUME StoreInv, NEW c \in Callers, CallStep(c)
    PROVE  [Table!TableNext]_Table!tableVars
<1>1. CASE InsertPrimary(c) \/ WritePrimary(c)
    BY <1>1, WriteTakesEffect
<1>2. CASE InsertPrimaryExists(c) \/ QueryPrimaryMissing(c)
    BY <1>2, FinishEnds DEF InsertPrimaryExists, QueryPrimaryMissing
<1>3. CASE InsertIndexes(c) \/ InsertNewRow(c)
    BY <1>3, FinishEnds DEF InsertIndexes, InsertNewRow
<1>4. CASE QueryPrimary(c)
    BY <1>4, GoingOnIsNothing DEF QueryPrimary
<1>5. CASE WriteDisplay(c) \/ DeleteOldRow(c)
    BY <1>5, GoingOnIsNothing DEF WriteDisplay, DeleteOldRow, Goto
<1> QED
    BY <1>1, <1>2, <1>3, <1>4, <1>5 DEF CallStep

LEMMA FaultImplements ==
    ASSUME StoreInv, NEW c \in Callers, StorageFault(c)
    PROVE  [Table!TableNext]_Table!tableVars
<1>1. CASE PrimaryFault(c) \/ IndexInsertFault(c)
    BY <1>1, FinishEnds DEF PrimaryFault, IndexInsertFault
<1>2. CASE IndexUpdateFault(c) /\ call[c].step \in {"writeDisplay", "deleteRow"}
    BY <1>2, GoingOnIsNothing DEF IndexUpdateFault, Goto
<1>3. CASE IndexUpdateFault(c) /\ call[c].step = "insertRow"
    BY <1>3, FinishEnds DEF IndexUpdateFault
<1>4. CASE InsertAnswerLost(c) \/ MergeAnswerLost(c)
    BY <1>4, UntoldTakesEffect
<1> QED
    BY <1>1, <1>2, <1>3, <1>4 DEF StorageFault, IndexUpdateFault

LEMMA AbandonImplements ==
    ASSUME StoreInv, NEW c \in Callers, AbandonCall(c)
    PROVE  Table!TableNext
<1>1. Requested' = [Requested EXCEPT ![c] = RequestOf(NoCall("idle"))]
    BY RequestChanges DEF AbandonCall, StoreInv
<1>2. RequestOf(NoCall("idle")) = Table!Resting("idle")
    OBVIOUS
<1>3. Table!Leave(c)
    BY <1>1, <1>2 DEF Table!Leave, AbandonCall
<1> QED
    BY <1>3 DEF Table!TableNext

LEMMA StepImplements ==
    StoreInv /\ [StoreNext]_storeVars => [Table!TableNext]_Table!tableVars
<1> SUFFICES ASSUME StoreInv, [StoreNext]_storeVars PROVE [Table!TableNext]_Table!tableVars
    OBVIOUS
<1>1. CASE UNCHANGED storeVars
    BY <1>1 DEF storeVars, Table!tableVars, Requested
<1>2. CASE StoreNext
    <2> SUFFICES ASSUME NEW c \in Callers,
                        \/ \E e \in Executions : BeginCreate(c, e)
                        \/ \E e \in Executions, s \in Writable : BeginUpdate(c, e, s)
                        \/ CallStep(c)
                        \/ StorageFault(c)
                        \/ AbandonCall(c)
                 PROVE  [Table!TableNext]_Table!tableVars
        BY <1>2 DEF StoreNext
    <2>1. ASSUME NEW e \in Executions, BeginCreate(c, e) PROVE Table!TableNext
        BY <2>1, BeginAsks DEF BeginCreate
    <2>2. ASSUME NEW e \in Executions, NEW s \in Writable, BeginUpdate(c, e, s)
          PROVE Table!TableNext
        BY <2>2, BeginAsks, WritableAssumption DEF BeginUpdate
    <2> QED
        BY <2>1, <2>2, CallStepImplements, FaultImplements, AbandonImplements
<1> QED
    BY <1>1, <1>2

\* However calls overlap, fail and die, the repository is a table on which every call takes effect
\* once or not at all, where it may, and does not raise after that but for a creation's indexes.
THEOREM ImplementsTable == StoreSpec => TableSpec
<1>1. StoreInit => Table!TableInit
    BY DEF StoreInit, Table!TableInit, Requested
<1>2. StoreInv /\ [StoreNext]_storeVars => [Table!TableNext]_Table!tableVars
    BY StepImplements
<1> QED
    BY <1>1, <1>2, StoreInvariant, PTL DEF StoreSpec, TableSpec, Table!TableSpec

HIDE DEF InFlight, InFlightSteps, RestSteps, StoredStatus, Absent, CallAt, NoCall,
         Table!Request, Table!Resting, RequestOf

-----------------------------------------------------------------------------
(* AsyncExecution uses the repository as ExecutionRepository says callers     *)
(* may: each of its steps is a step of StoreSpec or leaves the store alone.   *)
RestingSteps == {"idle", "stopped", "notFound", "refused"}

\* A process inside its handler works on an execution, and the cleanup has found
\* executions only: whatever they pass to the repository is an execution id.
ExecInv ==
    /\ pc \in [Callers -> Steps]
    /\ exec \in [Callers -> Executions \cup {NoExecution}]
    /\ \A c \in Callers \ Cleaners :
          pc[c] \notin RestingSteps => exec[c] \in Executions
    /\ found \in [Cleaners -> SUBSET (ActiveStatuses \X Executions)]

LEMMA RolesAreCallers ==
    /\ Requests \subseteq Callers \ Cleaners /\ Workers \subseteq Callers \ Cleaners
    /\ PoisonHandlers \subseteq Callers \ Cleaners
    /\ Cancellers \subseteq Callers \ Cleaners
    /\ Cleaners \subseteq Callers
BY RolesAssumption
-----------------------------------------------------------------------------
(* Every step is a step of the repository's callers.                         *)

\* An update awaited by a process is a BeginUpdate of StoreNext.
LEMMA UpdateIsStoreStep ==
    ASSUME NEW c \in Callers, NEW e \in Executions, NEW s \in ExecutionStatus,
           BeginUpdate(c, e, s)
    PROVE  StoreNext
BY AnyStatusAssumption DEF StoreNext

\* So is a call whose result is taken.
LEMMA MoveIsStoreStep ==
    ASSUME NEW c \in Callers, NEW next, MoveTo(c, next)
    PROVE  StoreNext
BY DEF StoreNext, MoveTo, AbandonCall, rowVars

LEMMA RequestRefines ==
    ASSUME ExecInv, NEW r \in Requests,
           (\E e \in Executions : SubmitRun(r, e)) \/ RequestStep(r) \/ SyncEnd(r) \/ SendFails(r)
    PROVE  StoreNext
<1>0. r \in Callers \ Cleaners
    BY RolesAreCallers
<1>1. ASSUME NEW e \in Executions, SubmitRun(r, e) PROVE StoreNext
    BY <1>0, <1>1 DEF SubmitRun, StoreNext
<1>2. CASE MarkPending(r)
    BY <1>0, <1>2, UpdateIsStoreStep DEF MarkPending, UpdateAt, ExecInv, RestingSteps
<1>3. CASE SendMessage(r) \/ SendFails(r) \/ EnqueueRaises(r) \/ SyncAnswer(r)
    BY <1>0, <1>3, MoveIsStoreStep DEF SendMessage, SendFails, EnqueueRaises, SyncAnswer, EndAt
<1>4. CASE SyncStart(r)
    BY <1>0, <1>4, MoveIsStoreStep DEF SyncStart
<1>5. CASE SyncEnd(r)
    BY <1>0, <1>5, UpdateIsStoreStep, BoundsAssumption
       DEF SyncEnd, UpdateAt, ExecInv, RestingSteps
<1>6. CASE SyncRaises(r)
    BY <1>0, <1>6, UpdateIsStoreStep DEF SyncRaises, UpdateAt, ExecInv, RestingSteps
<1> QED
    BY <1>1, <1>2, <1>3, <1>4, <1>5, <1>6 DEF RequestStep

LEMMA WorkerRefines ==
    ASSUME ExecInv, NEW w \in Workers,
           (\E e \in Executions : Dequeue(w, e)) \/ WorkerStep(w) \/ ReadFails(w)
    PROVE  StoreNext
<1>0. w \in Callers \ Cleaners
    BY RolesAreCallers
<1>1. CASE \E e \in Executions : Dequeue(w, e)
    BY <1>0, <1>1, MoveIsStoreStep DEF Dequeue
<1>2. CASE StartTask(w)
    BY <1>0, <1>2, MoveIsStoreStep DEF StartTask
<1>3. CASE Acknowledge(w) \/ Release(w)
    BY <1>0, <1>3, MoveIsStoreStep DEF Acknowledge, Release, EndAt
<1>4. ASSUME CheckCancelled(w) \/ LoadFails(w) \/ NotFoundRaises(w) \/ PollEnds(w)
             \/ RecordResult(w) \/ Except(w) \/ ReadFails(w)
      PROVE  StoreNext
    <2>1. exec[w] \in Executions
        BY <1>0, <1>4 DEF CheckCancelled, LoadFails, NotFoundRaises, PollEnds, RecordResult,
                          Except, ReadFails, ExecInv, RestingSteps
    <2>2. \/ \E s \in {"Cancelled", "Running", "Timeout", "Failed"} : BeginUpdate(w, exec[w], s)
          \/ \E s \in EngineStatuses : BeginUpdate(w, exec[w], s)
        BY <1>4
           DEF CheckCancelled, LoadFails, NotFoundRaises, PollEnds, RecordResult, Except,
               ReadFails, UpdateAt
    <2> QED
        BY <1>0, <2>1, <2>2, UpdateIsStoreStep, BoundsAssumption
<1> QED
    BY <1>1, <1>2, <1>3, <1>4 DEF WorkerStep

LEMMA OthersRefine ==
    ASSUME ExecInv,
           \/ \E p \in PoisonHandlers : (\E e \in Executions : Bury(p, e)) \/ Buried(p)
           \/ \E k \in Cancellers : (\E e \in Executions : Cancel(k, e)) \/ CancelAnswer(k)
           \/ \E c \in Cleaners : CleanNext(c) \/ CleanupEnds(c)
    PROVE  StoreNext \/ UNCHANGED storeVars
<1>1. ASSUME NEW p \in PoisonHandlers, NEW e \in Executions, Bury(p, e) PROVE StoreNext
    BY <1>1, UpdateIsStoreStep, RolesAreCallers DEF Bury
<1>2. ASSUME NEW k \in Cancellers, NEW e \in Executions, Cancel(k, e) PROVE StoreNext
    BY <1>2, UpdateIsStoreStep, RolesAreCallers DEF Cancel
<1>3. ASSUME NEW c \in Callers, Buried(c) \/ CancelAnswer(c) \/ CleanupEnds(c) PROVE StoreNext
    BY <1>3, MoveIsStoreStep DEF Buried, CancelAnswer, CleanupEnds, EndAt
<1>4. ASSUME NEW c \in Cleaners, CleanNext(c) PROVE StoreNext \/ UNCHANGED storeVars
    <2>1. PICK row \in found[c] :
             \/ BeginUpdate(c, row[2], "Timeout")
             \/ BeginUpdate(c, row[2], "Cancelled")
             \/ UNCHANGED storeVars
        BY <1>4 DEF CleanNext
    <2>2. row[2] \in Executions
        BY <2>1 DEF ExecInv
    <2> QED
        BY <2>1, <2>2, UpdateIsStoreStep, RolesAreCallers
<1> QED
    BY <1>1, <1>2, <1>3, <1>4, RolesAreCallers

LEMMA NextRefines == ExecInv /\ [Next]_asyncVars => [StoreNext]_storeVars
<1> SUFFICES ASSUME ExecInv, [Next]_asyncVars PROVE StoreNext \/ UNCHANGED storeVars
    BY DEF storeVars
<1>1. CASE UNCHANGED asyncVars
    BY <1>1 DEF asyncVars
<1>2. ASSUME NEW c \in Callers, RepositoryStep(c) \/ RepositoryFault(c) \/ Crash(c)
      PROVE  StoreNext
    BY <1>2 DEF RepositoryStep, RepositoryFault, Crash, StoreNext
<1>3. CASE \/ \E w \in Workers : TaskEnds(w)
           \/ \E k \in Cancellers, e \in Executions : CancelNotFound(k, e) \/ CancelRefused(k, e)
           \/ \E c \in Cleaners : StartCleanup(c) \/ Scan(c) \/ ScanFails(c)
           \/ \E t \in orphans : OrphanEnds(t)
           \/ Tick
    BY <1>3 DEF TaskEnds, CancelNotFound, CancelRefused, StartCleanup, Scan, ScanFails,
                OrphanEnds, Tick
<1> QED
    BY <1>1, <1>2, <1>3, RequestRefines, WorkerRefines, OthersRefine DEF Next, CleanerStep

-----------------------------------------------------------------------------
(* ExecInv is an invariant as long as the store has its type.                *)

LEMMA InitExecInv == Init => ExecInv
BY DEF Init, ExecInv, Steps, RestingSteps

LEMMA RequestKeepsExecInv ==
    ASSUME ExecInv, NEW r \in Requests,
           (\E e \in Executions : SubmitRun(r, e)) \/ RequestStep(r) \/ SyncEnd(r) \/ SendFails(r)
    PROVE  ExecInv'
<1> USE RolesAreCallers DEF ExecInv, Steps, RestingSteps
<1>1. CASE \E e \in Executions : SubmitRun(r, e)
    BY <1>1 DEF SubmitRun
<1>2. CASE MarkPending(r) \/ SyncEnd(r) \/ SyncRaises(r)
    BY <1>2 DEF MarkPending, SyncEnd, SyncRaises, UpdateAt
<1>3. CASE SendMessage(r) \/ SendFails(r) \/ EnqueueRaises(r) \/ SyncAnswer(r)
    BY <1>3 DEF SendMessage, SendFails, EnqueueRaises, SyncAnswer, EndAt, MoveTo
<1>4. CASE SyncStart(r)
    BY <1>4 DEF SyncStart, MoveTo
<1> QED
    BY <1>1, <1>2, <1>3, <1>4 DEF RequestStep

LEMMA WorkerKeepsExecInv ==
    ASSUME ExecInv, NEW w \in Workers,
           (\E e \in Executions : Dequeue(w, e)) \/ WorkerStep(w) \/ TaskEnds(w) \/ ReadFails(w)
    PROVE  ExecInv'
<1> USE RolesAreCallers DEF ExecInv, Steps, RestingSteps
<1>1. CASE \E e \in Executions : Dequeue(w, e)
    BY <1>1 DEF Dequeue, MoveTo
<1>2. CASE StartTask(w) \/ TaskEnds(w)
    BY <1>2 DEF StartTask, TaskEnds, MoveTo
<1>3. CASE Acknowledge(w) \/ Release(w)
    BY <1>3 DEF Acknowledge, Release, EndAt, MoveTo
<1>4. CASE CheckCancelled(w) \/ LoadFails(w) \/ NotFoundRaises(w)
    BY <1>4 DEF CheckCancelled, LoadFails, NotFoundRaises, UpdateAt
<1>5. CASE PollEnds(w) \/ RecordResult(w) \/ Except(w) \/ ReadFails(w)
    BY <1>5 DEF PollEnds, RecordResult, Except, ReadFails, UpdateAt
<1> QED
    BY <1>1, <1>2, <1>3, <1>4, <1>5 DEF WorkerStep

LEMMA PoisonAndCancelKeepExecInv ==
    ASSUME ExecInv,
           \/ \E p \in PoisonHandlers : (\E e \in Executions : Bury(p, e)) \/ Buried(p)
           \/ \E k \in Cancellers :
                 \/ \E e \in Executions :
                       Cancel(k, e) \/ CancelNotFound(k, e) \/ CancelRefused(k, e)
                 \/ CancelAnswer(k)
    PROVE  ExecInv'
<1> USE RolesAreCallers DEF ExecInv, Steps, RestingSteps
<1>1. ASSUME NEW p \in PoisonHandlers, NEW e \in Executions, Bury(p, e) PROVE ExecInv'
    BY <1>1 DEF Bury
<1>2. ASSUME NEW c \in Callers, Buried(c) \/ CancelAnswer(c) PROVE ExecInv'
    BY <1>2 DEF Buried, CancelAnswer, EndAt, MoveTo
<1>3. ASSUME NEW k \in Cancellers, NEW e \in Executions, Cancel(k, e) PROVE ExecInv'
    BY <1>3 DEF Cancel
<1>4. ASSUME NEW k \in Cancellers, NEW e \in Executions,
             CancelNotFound(k, e) \/ CancelRefused(k, e)
      PROVE  ExecInv'
    BY <1>4 DEF CancelNotFound, CancelRefused
<1> QED
    BY <1>1, <1>2, <1>3, <1>4

LEMMA CleanerKeepsExecInv ==
    ASSUME ExecInv, StoreTypeOK, NEW c \in Cleaners,
           StartCleanup(c) \/ CleanerStep(c) \/ ScanFails(c)
    PROVE  ExecInv'
<1> USE RolesAreCallers DEF ExecInv, Steps, RestingSteps
<1>1. CASE StartCleanup(c)
    BY <1>1 DEF StartCleanup
<1>2. CASE Scan(c)
    <2>1. Scanned(c) \subseteq ActiveStatuses \X Executions
        BY <1>2 DEF Scan, NextScan, Scanned, StuckRows, StoreTypeOK
    <2> QED
        BY <1>2, <2>1 DEF Scan, NextScan
<1>3. CASE ScanFails(c)
    BY <1>3 DEF ScanFails, NextScan
<1>4. CASE CleanNext(c)
    BY <1>4 DEF CleanNext
<1>5. CASE CleanupEnds(c)
    BY <1>5 DEF CleanupEnds, EndAt, MoveTo
<1> QED
    BY <1>1, <1>2, <1>3, <1>4, <1>5 DEF CleanerStep

LEMMA NextExecInv == ExecInv /\ StoreTypeOK /\ [Next]_asyncVars => ExecInv'
<1> SUFFICES ASSUME ExecInv, StoreTypeOK, [Next]_asyncVars PROVE ExecInv'
    OBVIOUS
<1>1. CASE UNCHANGED asyncVars
    BY <1>1 DEF asyncVars, ExecInv
<1>2. ASSUME NEW c \in Callers, RepositoryStep(c) \/ RepositoryFault(c) PROVE ExecInv'
    BY <1>2 DEF RepositoryStep, RepositoryFault, ExecInv
<1>3. ASSUME NEW c \in Callers, Crash(c) PROVE ExecInv'
    BY <1>3, RolesAreCallers DEF Crash, ExecInv, Steps, RestingSteps
<1>4. CASE (\E t \in orphans : OrphanEnds(t)) \/ Tick
    BY <1>4 DEF OrphanEnds, Tick, ExecInv
<1> QED
    BY <1>1, <1>2, <1>3, <1>4, RequestKeepsExecInv, WorkerKeepsExecInv,
       PoisonAndCancelKeepExecInv, CleanerKeepsExecInv DEF Next

-----------------------------------------------------------------------------
(* The theorems.                                                             *)

\* The processes are some of the repository's arbitrary callers, so that what is proved of
\* StoreSpec holds here too.
LEMMA ImplementsStore == Spec => StoreSpec
<1>1. Init => StoreInit /\ ExecInv /\ StoreInv
    BY InitExecInv, StoreInitInv DEF Init
<1>2. ExecInv /\ StoreInv /\ [Next]_asyncVars
         => [StoreNext]_storeVars /\ (ExecInv /\ StoreInv)'
    BY NextRefines, NextExecInv, StoreNextInv DEF StoreInv
<1> QED
    BY <1>1, <1>2, PTL DEF Spec, StoreSpec

\* Whatever the processes do, the indexes of an execution agree with its primary
\* row between two calls unless calls on it overlapped or broke off.
THEOREM ExecutionsMirrored == Spec => []IndexesMirrorPrimary
BY ImplementsStore, IndexesMirrorPrimaryAlways, PTL

\* Workers, requests, timers and handlers together see the executions as such a table.
THEOREM ExecutionsImplementTable == Spec => TableSpec
BY ImplementsStore, ImplementsTable, PTL

HIDE DEF ExecutionStatus, ActiveStatuses, FinalStatuses

-----------------------------------------------------------------------------
(* The queue.  What each process of the queue may assume at each await.      *)

RequestSteps == {"creating", "queueing", "syncCreating", "syncRunning", "syncRecording",
                 "syncFailing"}
EndingSteps == {"loading", "loadFailing", "finishing", "excepting"}
WorkerSteps == {"checking", "starting", "monitoring"} \cup EndingSteps
CleanerSteps == {"scanPending", "scanRunning", "scanCancelling", "cleaning"}

Owners == Requests \cup Workers \cup PoisonHandlers
Busy(c) == pc[c] \notin RestingSteps
Updates(c) == call[c].step \notin {"insertPrimary", "insertIndexes"}
\* The update that c awaits, or has awaited, has written the primary row.
Wrote(c) == call[c].step \in {"writeDisplay", "deleteRow", "insertRow", "returned"}
Decided(e) == primary[e] \notin {"Pending", "Running"}

\* A cleanup that found e may write this status.
Overdue(status, e) ==
    \/ status = "Timeout" /\ age[e] > PendingTimeout
    \/ status = "Cancelled" /\ age[e] > CancellingTimeout

\* What one of the theorems assumes of the processes that run together: no poison handler
\* where storage requests may fail.
PoisonReliable == MaxFaults = 0 \/ \A S \in Scenarios : S \cap PoisonHandlers = {}

Absents(roles) == \A c \in roles : pc[c] = "stopped"

ScenarioInv == PoisonReliable => MaxFaults = 0 \/ Absents(PoisonHandlers)

\* A request works on an execution that nobody has queued yet.
RequestInv(r) ==
    /\ pc[r] \in RequestSteps \cup RestingSteps
    /\ Busy(r) => msg[exec[r]] = "none"
    /\ InFlight(r) => Busy(r) /\ call[r].exec = exec[r]
    /\ InFlight(r) /\ Updates(r) => pc[r] = "queueing" \/ call[r].new \in FinalStatuses
    /\ \/ pc[r] = "creating" /\ Returned(r)
       \/ pc[r] = "queueing"
       => primary[exec[r]] # Absent

\* A worker holds the message of the execution it works on.  It alone writes Running, only
\* before it starts the task, and a cancel that it did not see overlaps its update.
WorkerInv(w) ==
    /\ pc[w] \in WorkerSteps \cup RestingSteps
    /\ Busy(w) => msg[exec[w]] = "leased"
    /\ InFlight(w) =>
          /\ pc[w] \in EndingSteps \cup {"starting"}
          /\ call[w].exec = exec[w] /\ Updates(w)
          /\ call[w].new \in IF pc[w] = "starting" THEN {"Running"} ELSE FinalStatuses
    /\ task[w] # "none" => pc[w] = "monitoring"
    /\ pc[w] \in EndingSteps /\ Wrote(w) => Decided(exec[w])
    /\ pc[w] = "monitoring" \/ (pc[w] = "starting" /\ Wrote(w)) => ShownRunning(exec[w])
    /\ pc[w] = "starting" /\ ~Wrote(w) /\ InFlight(w) /\ exec[w] \notin disturbed =>
          primary[exec[w]] # "Cancelling"

PoisonInv(p) ==
    /\ pc[p] \in {"burying"} \cup RestingSteps
    /\ Busy(p) => msg[exec[p]] = "poisonLeased"
    /\ InFlight(p) =>
          Busy(p) /\ call[p].exec = exec[p] /\ Updates(p) /\ call[p].new = "Failed"
    /\ Busy(p) /\ PoisonReliable => InFlight(p) \/ Returned(p)
    /\ Busy(p) /\ Wrote(p) => Decided(exec[p])

CancellerInv(k) ==
    /\ pc[k] \in {"cancelling"} \cup RestingSteps
    /\ InFlight(k) => Busy(k) /\ Updates(k) /\ call[k].new = "Cancelling"
    /\ InFlight(k) /\ ~Wrote(k) /\ call[k].exec \notin disturbed =>
          primary[call[k].exec] \notin FinalStatuses

CleanerInv(c) ==
    /\ pc[c] \in CleanerSteps \cup RestingSteps
    /\ InFlight(c) => pc[c] = "cleaning" /\ Updates(c) /\ Overdue(call[c].new, call[c].exec)
    /\ \A row \in found[c] : Overdue(IF row[1] = "Cancelling" THEN "Cancelled" ELSE "Timeout", row[2])

ProcessInv(c) ==
    /\ c \in Requests => RequestInv(c)
    /\ c \in Workers => WorkerInv(c)
    /\ c \in PoisonHandlers => PoisonInv(c)
    /\ c \in Cancellers => CancellerInv(c)
    /\ c \in Cleaners => CleanerInv(c)

\* The message of e.
MessageInv(e) ==
    /\ msg[e] # "none" => primary[e] # Absent
    /\ msg[e] = "none" => dequeues[e] = 0
    /\ msg[e] = "visible" => dequeues[e] < MaxDequeue
    /\ msg[e] = "leased" => dequeues[e] >= 1
    /\ msg[e] = "deleted" /\ PoisonReliable => Decided(e)

SoleOwner ==
    \A c, d \in Owners : Busy(c) /\ Busy(d) /\ exec[c] = exec[d] => c = d

ProcessesInv ==
    /\ ScenarioInv /\ SoleOwner
    /\ \A c \in Callers : ProcessInv(c)
    /\ \A e \in Executions : MessageInv(e)

LEMMA RolesApart ==
    ASSUME NEW c
    PROVE  /\ c \in Requests => c \notin Workers \cup PoisonHandlers \cup Cancellers \cup Cleaners
           /\ c \in Workers => c \notin Requests \cup PoisonHandlers \cup Cancellers \cup Cleaners
           /\ c \in PoisonHandlers => c \notin Requests \cup Workers \cup Cancellers \cup Cleaners
           /\ c \in Cancellers => c \notin Requests \cup Workers \cup PoisonHandlers \cup Cleaners
           /\ c \in Cleaners => c \notin Requests \cup Workers \cup PoisonHandlers \cup Cancellers
           /\ c \in Callers <=> c \in Requests \cup Workers \cup PoisonHandlers
                                      \cup Cancellers \cup Cleaners
BY RolesAssumption

\* The handler of c moves, and only it; the rows stay.
HandlerMoves(c) ==
    /\ pc[c] # "stopped"
    /\ primary' = primary /\ disturbed \subseteq disturbed' /\ age' = age
    /\ \A d \in Cleaners \ {c} : found'[d] = found[d]
    /\ \A d \in Callers \ {c} :
          pc'[d] = pc[d] /\ exec'[d] = exec[d] /\ call'[d] = call[d]
    /\ \A w \in Workers \ {c} : task'[w] = task[w]

\* The messages that others hold stay.
OthersHold(c) == \A d \in Owners \ {c} : Busy(d) => msg'[exec[d]] = msg[exec[d]]

\* c goes on with its execution, rests, or takes one that nobody else works on.
OwnsStill(c) ==
    c \in Owners /\ pc'[c] \notin RestingSteps =>
        \/ Busy(c) /\ exec'[c] = exec[c]
        \/ \A d \in Owners \ {c} : Busy(d) => exec[d] # exec'[c]

LEMMA OthersStay ==
    ASSUME NEW c \in Callers, HandlerMoves(c), OthersHold(c), NEW d \in Callers \ {c}, ProcessInv(d)
    PROVE  ProcessInv(d)'
<1>1. /\ pc'[d] = pc[d] /\ exec'[d] = exec[d] /\ call'[d] = call[d]
      /\ primary' = primary /\ disturbed \subseteq disturbed' /\ age' = age
      /\ d \in Cleaners => found'[d] = found[d]
      /\ d \in Workers => task'[d] = task[d]
      /\ d \in Owners /\ Busy(d) => msg'[exec[d]] = msg[exec[d]]
    BY DEF HandlerMoves, OthersHold
<1>2. CASE d \in Requests
    BY <1>1, <1>2, RolesApart DEF ProcessInv, RequestInv, Owners, Busy, InFlight, Returned, Updates
<1>3. CASE d \in Workers
    BY <1>1, <1>3, RolesApart
       DEF ProcessInv, WorkerInv, Owners, Busy, InFlight, Updates, Wrote, Decided, ShownRunning
<1>4. CASE d \in PoisonHandlers
    BY <1>1, <1>4, RolesApart
       DEF ProcessInv, PoisonInv, Owners, Busy, InFlight, Returned, Updates, Wrote, Decided
<1>5. CASE d \in Cancellers
    BY <1>1, <1>5, RolesApart DEF ProcessInv, CancellerInv, Busy, InFlight, Updates, Wrote
<1>6. CASE d \in Cleaners
    BY <1>1, <1>6, RolesApart DEF ProcessInv, CleanerInv, Busy, InFlight, Updates, Overdue
<1> QED BY <1>2, <1>3, <1>4, <1>5, <1>6, RolesApart

LEMMA OwnersStaySole ==
    ASSUME SoleOwner, NEW c \in Callers, HandlerMoves(c), OwnsStill(c)
    PROVE  SoleOwner'
<1> SUFFICES ASSUME NEW d \in Owners, NEW f \in Owners, d # f,
                    pc'[d] \notin RestingSteps, pc'[f] \notin RestingSteps
             PROVE  exec'[d] # exec'[f]
    BY DEF SoleOwner, Busy
<1>1. d \in Callers /\ f \in Callers
    BY RolesApart DEF Owners
<1>2. CASE d # c /\ f # c
    BY <1>1, <1>2 DEF HandlerMoves, SoleOwner, Busy
<1>3. ASSUME NEW g \in Owners, g # c, c \in Owners, g \in Callers,
             pc'[g] \notin RestingSteps, pc'[c] \notin RestingSteps
      PROVE  exec'[g] # exec'[c]
    <2>1. pc'[g] = pc[g] /\ exec'[g] = exec[g] /\ Busy(g)
        BY <1>3 DEF HandlerMoves, Busy
    <2> QED BY <1>3, <2>1 DEF OwnsStill, SoleOwner
<1> QED BY <1>1, <1>2, <1>3

LEMMA AbsentStay ==
    ASSUME ScenarioInv, NEW c \in Callers, HandlerMoves(c)
    PROVE  ScenarioInv'
<1>1. \A d \in Callers : pc[d] = "stopped" => pc'[d] = "stopped"
    BY DEF HandlerMoves
<1>2. \A d \in Workers \cup PoisonHandlers \cup Cleaners : d \in Callers
    BY RolesApart
<1> QED BY <1>1, <1>2 DEF ScenarioInv, Absents

LEMMA HandlerStep ==
    ASSUME ProcessesInv, NEW c \in Callers, HandlerMoves(c), OthersHold(c), OwnsStill(c),
           ProcessInv(c)', \A e \in Executions : MessageInv(e)'
    PROVE  ProcessesInv'
BY OthersStay, OwnersStaySole, AbsentStay DEF ProcessesInv

\* A step that leaves the messages alone.
LEMMA QuietHandlerStep ==
    ASSUME ProcessesInv, NEW c \in Callers, HandlerMoves(c), UNCHANGED queueVars,
           c \in Owners => pc'[c] \in RestingSteps \/ (Busy(c) /\ exec'[c] = exec[c]),
           ProcessInv(c)'
    PROVE  ProcessesInv'
<1>1. \A e \in Executions : MessageInv(e)'
    BY DEF ProcessesInv, MessageInv, Decided, queueVars, HandlerMoves
<1>2. OthersHold(c) /\ OwnsStill(c)
    BY DEF OthersHold, OwnsStill, queueVars
<1> QED BY <1>1, <1>2, HandlerStep

\* Ways to move.
LEMMA UpdateMoves ==
    ASSUME TypeOK, NEW c \in Callers, NEW s, NEW next, UpdateAt(c, s, next)
    PROVE  /\ pc'[c] = next
           /\ call'[c] = CallAt("query", exec[c], s, Absent)
           /\ primary' = primary /\ disturbed \subseteq disturbed'
           /\ \A d \in Callers \ {c} : pc'[d] = pc[d] /\ call'[d] = call[d]
BY DEF UpdateAt, BeginUpdate, Begin, TypeOK, StoreTypeOK

LEMMA MoveMoves ==
    ASSUME TypeOK, NEW c \in Callers, NEW next, MoveTo(c, next)
    PROVE  /\ pc'[c] = next
           /\ call'[c] = NoCall("idle")
           /\ primary' = primary /\ disturbed' = disturbed
           /\ \A d \in Callers \ {c} : pc'[d] = pc[d] /\ call'[d] = call[d]
BY DEF MoveTo, TypeOK, StoreTypeOK, rowVars

LEMMA EndMoves ==
    ASSUME TypeOK, NEW c \in Callers, NEW next, EndAt(c, next)
    PROVE  /\ pc'[c] = next /\ exec'[c] = NoExecution
           /\ call'[c] = NoCall("idle")
           /\ primary' = primary /\ disturbed' = disturbed
           /\ \A d \in Callers \ {c} : pc'[d] = pc[d] /\ call'[d] = call[d] /\ exec'[d] = exec[d]
BY MoveMoves DEF EndAt, TypeOK

\* A process at rest, whatever its role.
LEMMA Rests ==
    ASSUME NEW c \in Callers, pc'[c] \in RestingSteps, call'[c] = NoCall("idle"),
           c \in Workers => task'[c] = "none",
           c \in Cleaners => found'[c] = {}
    PROVE  ProcessInv(c)'
<1>1. ~InFlight(c)' /\ ~Busy(c)'
    BY DEF InFlight, InFlightSteps, NoCall, CallAt, Busy
<1> QED BY <1>1
   DEF ProcessInv, RequestInv, WorkerInv, PoisonInv, CancellerInv, CleanerInv, RestingSteps,
       EndingSteps

QueueTypes == TypeOK /\ ExecInv /\ StoreInv

LEMMA RequestKeepsProcesses ==
    ASSUME QueueTypes, ProcessesInv, NEW r \in Requests,
           \/ \E e \in Executions : SubmitRun(r, e)
           \/ RequestStep(r) \/ SyncEnd(r) \/ SendFails(r)
    PROVE  ProcessesInv'
<1>1. /\ r \in Callers /\ r \notin Workers /\ r \in Owners /\ TypeOK
      /\ RequestInv(r) /\ r \notin Cleaners
    BY RolesApart DEF QueueTypes, ProcessesInv, ProcessInv, Owners
<1>2. ASSUME NEW e \in Executions, SubmitRun(r, e) PROVE ProcessesInv'
    <2>1. /\ pc'[r] \in {"creating", "syncCreating"} /\ exec'[r] = e
          /\ call'[r] = CallAt("insertPrimary", e, "Running", Absent)
          /\ HandlerMoves(r) /\ UNCHANGED queueVars
          /\ \A c \in Callers : exec[c] # e
        BY <1>1, <1>2
           DEF SubmitRun, BeginCreate, Begin, HandlerMoves, TypeOK, StoreTypeOK, taskVars, queueVars
    <2>2. msg[e] = "none"
        BY <1>2 DEF SubmitRun, ProcessesInv, MessageInv
    <2>3. RequestInv(r)'
        BY <2>1, <2>2 DEF RequestInv, Busy, InFlight, InFlightSteps, CallAt, RequestSteps,
                          RestingSteps, Returned, queueVars, Updates
    <2>4. ProcessInv(r)'
        BY <2>3, RolesApart DEF ProcessInv
    <2>5. OthersHold(r) /\ OwnsStill(r) /\ \A f \in Executions : MessageInv(f)'
        BY <2>1, RolesApart
           DEF OthersHold, OwnsStill, Owners, queueVars, ProcessesInv, MessageInv, Decided, HandlerMoves
    <2> QED BY <1>1, <2>1, <2>4, <2>5, HandlerStep
\* An update goes on with the same execution.
<1>3. ASSUME NEW s, NEW next \in RequestSteps, UpdateAt(r, s, next), pc[r] \in RequestSteps,
             next = "queueing" => Returned(r) /\ pc[r] = "creating",
             next = "queueing" \/ s \in FinalStatuses,
             next # "creating", UNCHANGED <<exec, taskVars, queueVars, found, age>>
      PROVE  ProcessesInv'
    <2>1. /\ pc'[r] = next /\ exec'[r] = exec[r]
          /\ call'[r] = CallAt("query", exec[r], s, Absent)
          /\ HandlerMoves(r) /\ UNCHANGED queueVars /\ Busy(r)
        BY <1>1, <1>3, UpdateMoves
           DEF HandlerMoves, taskVars, RequestSteps, Busy, RestingSteps
    <2>2. RequestInv(r)'
        BY <1>1, <1>3, <2>1 DEF RequestInv, Busy, InFlight, InFlightSteps, CallAt, RequestSteps,
                     RestingSteps, Returned, queueVars, HandlerMoves
    <2>3. ProcessInv(r)'
        BY <2>2, RolesApart DEF ProcessInv
    <2> QED BY <1>1, <2>1, <2>3, QuietHandlerStep
\* A request that ends.
<1>4. ASSUME EndAt(r, "stopped"), pc[r] \in RequestSteps, UNCHANGED <<taskVars, found, age>>
      PROVE  /\ HandlerMoves(r) /\ ProcessInv(r)' /\ Busy(r)
             /\ pc'[r] = "stopped" /\ OwnsStill(r)
    <2>1. HandlerMoves(r) /\ pc'[r] = "stopped" /\ call'[r] = NoCall("idle") /\ Busy(r)
        BY <1>1, <1>4, EndMoves DEF HandlerMoves, taskVars, RequestSteps, Busy, RestingSteps
    <2>2. ProcessInv(r)'
        BY <1>1, <2>1, Rests DEF RestingSteps
    <2> QED BY <2>1, <2>2 DEF OwnsStill, RestingSteps
<1>5. CASE MarkPending(r)
    BY <1>3, <1>5 DEF MarkPending, RequestSteps
<1>6. CASE SendMessage(r)
    <2>1. /\ pc[r] = "queueing" /\ exec[r] \in Executions
          /\ msg' = [msg EXCEPT ![exec[r]] = "visible"] /\ UNCHANGED <<taskVars, dequeues, found, age>>
          /\ EndAt(r, "stopped") /\ primary[exec[r]] # Absent /\ msg[exec[r]] = "none"
          /\ msg \in [Executions -> MessageStates]
        BY <1>1, <1>6 DEF SendMessage, QueueTypes, ExecInv, RestingSteps, RequestInv, Busy, TypeOK
    <2>2. HandlerMoves(r) /\ ProcessInv(r)' /\ Busy(r) /\ OwnsStill(r)
        BY <1>4, <2>1 DEF RequestSteps
    <2>3. OthersHold(r)
        BY <1>1, <2>1, <2>2 DEF OthersHold, ProcessesInv, SoleOwner
    <2>4. \A e \in Executions : MessageInv(e)'
        BY <2>1, <2>2, BoundsAssumption DEF ProcessesInv, MessageInv, Decided, HandlerMoves
    <2> QED BY <1>1, <2>2, <2>3, <2>4, HandlerStep
<1>7. CASE SendFails(r) \/ EnqueueRaises(r) \/ SyncAnswer(r)
    <2>1. EndAt(r, "stopped") /\ pc[r] \in RequestSteps /\ UNCHANGED <<taskVars, queueVars, found, age>>
        BY <1>7 DEF SendFails, EnqueueRaises, SyncAnswer, RequestSteps
    <2>2. HandlerMoves(r) /\ ProcessInv(r)' /\ pc'[r] \in RestingSteps
        BY <1>4, <2>1 DEF RestingSteps
    <2> QED BY <1>1, <2>1, <2>2, QuietHandlerStep
<1>8. CASE SyncStart(r)
    <2>1. /\ MoveTo(r, "syncRunning") /\ UNCHANGED <<exec, taskVars, queueVars, found, age>> /\ Busy(r)
          /\ pc[r] # "stopped"
        BY <1>8 DEF SyncStart, Busy, RestingSteps
    <2>2. /\ HandlerMoves(r) /\ pc'[r] = "syncRunning" /\ call'[r] = NoCall("idle")
        BY <1>1, <2>1, MoveMoves DEF HandlerMoves, taskVars
    <2>3. RequestInv(r)'
        BY <1>1, <2>1, <2>2 DEF RequestInv, Busy, InFlight, InFlightSteps, NoCall, CallAt,
                                RequestSteps, queueVars
    <2>4. ProcessInv(r)'
        BY <2>3, RolesApart DEF ProcessInv
    <2> QED BY <1>1, <2>1, <2>2, <2>4, QuietHandlerStep
<1>9. CASE SyncEnd(r) \/ SyncRaises(r)
    BY <1>3, <1>9, BoundsAssumption DEF SyncEnd, SyncRaises, RequestSteps, FinalStatuses
<1> QED BY <1>2, <1>5, <1>6, <1>7, <1>8, <1>9 DEF RequestStep

\* A message that its holder gives back: delivered again, or poisoned.
LEMMA PutBackMoves ==
    ASSUME TypeOK, \A e \in Executions : MessageInv(e), NEW f \in Executions, msg[f] # "none",
           PutBack(f), dequeues' = dequeues, primary' = primary
    PROVE  \A e \in Executions : MessageInv(e)' /\ (e # f => msg'[e] = msg[e])
<1> SUFFICES ASSUME NEW e \in Executions PROVE MessageInv(e)' /\ (e # f => msg'[e] = msg[e])
    OBVIOUS
<1>1. /\ e # f => msg'[e] = msg[e]
      /\ msg'[f] = IF dequeues[f] < MaxDequeue THEN "visible" ELSE "poison"
    BY DEF PutBack, TypeOK
<1>2. CASE e = f
    BY <1>1, <1>2 DEF MessageInv, Decided
<1>3. CASE e # f
    BY <1>1, <1>3 DEF MessageInv, Decided
<1> QED BY <1>1, <1>2, <1>3

LEMMA WorkerKeepsProcesses ==
    ASSUME QueueTypes, ProcessesInv, NEW w \in Workers,
           (\E e \in Executions : Dequeue(w, e)) \/ WorkerStep(w) \/ TaskEnds(w) \/ ReadFails(w)
    PROVE  ProcessesInv'
<1>1. /\ w \in Callers /\ w \in Owners /\ TypeOK /\ WorkerInv(w)
      /\ \A e \in Executions : MessageInv(e)
      /\ Busy(w) => exec[w] \in Executions
      /\ msg \in [Executions -> MessageStates] /\ task \in [Workers -> TaskStates]
      /\ dequeues \in [Executions -> 0..MaxDequeue]
    BY RolesApart DEF QueueTypes, ProcessesInv, ProcessInv, Owners, ExecInv, Busy, TypeOK
<1>2. ASSUME NEW e \in Executions, Dequeue(w, e) PROVE ProcessesInv'
    <2>1. /\ msg[e] = "visible" /\ msg' = [msg EXCEPT ![e] = "leased"]
          /\ dequeues' = [dequeues EXCEPT ![e] = @ + 1] /\ exec' = [exec EXCEPT ![w] = e]
          /\ MoveTo(w, "checking") /\ pc[w] = "idle" /\ UNCHANGED <<taskVars, found, age>>
        BY <1>2 DEF Dequeue
    <2>2. /\ HandlerMoves(w) /\ pc'[w] = "checking" /\ exec'[w] = e /\ call'[w] = NoCall("idle")
        BY <1>1, <2>1, MoveMoves DEF HandlerMoves, taskVars, TypeOK
    <2>3. WorkerInv(w)'
        BY <1>1, <2>1, <2>2
           DEF WorkerInv, Busy, InFlight, InFlightSteps, NoCall, CallAt, WorkerSteps, RestingSteps,
               taskVars, EndingSteps
    <2>4. ProcessInv(w)'
        BY <2>3, RolesApart DEF ProcessInv
    <2>5. \A d \in Owners : Busy(d) => exec[d] # e
        BY <2>1, RolesApart
           DEF Owners, ProcessesInv, ProcessInv, RequestInv, WorkerInv, PoisonInv
    <2>6. OthersHold(w) /\ OwnsStill(w)
        BY <1>1, <2>1, <2>2, <2>5 DEF OthersHold, OwnsStill
    <2>7. \A f \in Executions : MessageInv(f)'
        <3> SUFFICES ASSUME NEW f \in Executions PROVE MessageInv(f)'
            OBVIOUS
        <3>1. CASE f = e
            BY <1>1, <2>1, <2>2, <3>1 DEF MessageInv, HandlerMoves
        <3>2. CASE f # e
            BY <1>1, <2>1, <2>2, <3>2 DEF MessageInv, HandlerMoves, Decided
        <3> QED BY <3>1, <3>2
    <2> QED BY <1>1, <2>2, <2>4, <2>6, <2>7, HandlerStep
\* An update with a final status, on the way out.
<1>3. ASSUME NEW s \in FinalStatuses, NEW next \in EndingSteps, UpdateAt(w, s, next), Busy(w),
             UNCHANGED <<exec, queueVars, found, age>>, task'[w] = "none",
             \A v \in Workers \ {w} : task'[v] = task[v]
      PROVE  ProcessesInv'
    <2>1. /\ pc'[w] = next /\ exec'[w] = exec[w]
          /\ call'[w] = CallAt("query", exec[w], s, Absent)
          /\ HandlerMoves(w)
        BY <1>1, <1>3, UpdateMoves DEF HandlerMoves, Busy, RestingSteps
    <2>2. WorkerInv(w)'
        BY <1>1, <1>3, <2>1
           DEF WorkerInv, Busy, InFlight, InFlightSteps, CallAt, WorkerSteps, Updates, Wrote,
               EndingSteps, RestingSteps, queueVars
    <2>3. ProcessInv(w)'
        BY <2>2, RolesApart DEF ProcessInv
    <2> QED BY <1>1, <1>3, <2>1, <2>3, QuietHandlerStep
<1>4. CASE CheckCancelled(w)
    <2>1. /\ pc[w] = "checking" /\ UNCHANGED <<exec, taskVars, queueVars, found, age>>
          /\ Busy(w) /\ task'[w] = "none" /\ \A v \in Workers \ {w} : task'[v] = task[v]
        BY <1>1, <1>4 DEF CheckCancelled, taskVars, Busy, RestingSteps, WorkerInv
    <2>2. CASE UpdateAt(w, "Cancelled", "finishing")
        BY <1>3, <2>1, <2>2 DEF FinalStatuses, EndingSteps
    <2>3. CASE primary[exec[w]] # "Cancelling" /\ UpdateAt(w, "Running", "starting")
        <3>1. /\ pc'[w] = "starting" /\ exec'[w] = exec[w]
              /\ call'[w] = CallAt("query", exec[w], "Running", Absent)
              /\ HandlerMoves(w)
            BY <1>1, <2>1, <2>3, UpdateMoves DEF HandlerMoves
        <3>2. WorkerInv(w)'
            BY <1>1, <2>1, <2>3, <3>1
               DEF WorkerInv, Busy, InFlight, InFlightSteps, CallAt, WorkerSteps, Updates, Wrote,
                   EndingSteps, queueVars, HandlerMoves
        <3>3. ProcessInv(w)'
            BY <3>2, RolesApart DEF ProcessInv
        <3> QED BY <1>1, <2>1, <3>1, <3>3, QuietHandlerStep
    <2> QED BY <1>4, <2>2, <2>3 DEF CheckCancelled
<1>5. CASE LoadFails(w) \/ NotFoundRaises(w) \/ Except(w)
    <2>1. /\ pc[w] # "monitoring" /\ Busy(w) /\ UNCHANGED <<exec, taskVars, queueVars, found, age>>
          /\ \E next \in EndingSteps : UpdateAt(w, "Failed", next)
        BY <1>5 DEF LoadFails, NotFoundRaises, Except, Busy, RestingSteps, EndingSteps
    <2>2. task'[w] = "none" /\ \A v \in Workers \ {w} : task'[v] = task[v]
        BY <1>1, <2>1 DEF WorkerInv, taskVars
    <2> QED BY <1>3, <2>1, <2>2 DEF FinalStatuses
<1>6. CASE PollEnds(w) \/ RecordResult(w) \/ ReadFails(w)
    <2>1. /\ Busy(w) /\ UNCHANGED <<exec, queueVars, found, age>> /\ task' = [task EXCEPT ![w] = "none"]
          /\ \E s \in FinalStatuses, next \in EndingSteps : UpdateAt(w, s, next)
        BY <1>6, BoundsAssumption
           DEF PollEnds, RecordResult, ReadFails, Busy, RestingSteps, EndingSteps, FinalStatuses
    <2>2. task'[w] = "none" /\ \A v \in Workers \ {w} : task'[v] = task[v]
        BY <1>1, <2>1
    <2> QED BY <1>3, <2>1, <2>2
<1>7. CASE StartTask(w) \/ TaskEnds(w)
    <2>1. /\ pc'[w] = "monitoring" /\ HandlerMoves(w) /\ ~InFlight(w)' /\ Busy(w)
          /\ UNCHANGED <<exec, queueVars, found, age>>
          /\ pc[w] = "monitoring" \/ (pc[w] = "starting" /\ Wrote(w))
        <3>1. CASE StartTask(w)
            <4>1. /\ MoveTo(w, "monitoring") /\ pc[w] = "starting" /\ UNCHANGED <<exec, queueVars, found, age>>
                  /\ task' = [task EXCEPT ![w] = "running"] /\ Returned(w)
                BY <3>1 DEF StartTask
            <4> QED BY <1>1, <4>1, MoveMoves
                DEF HandlerMoves, InFlight, InFlightSteps, NoCall, CallAt, Busy, RestingSteps,
                    Wrote, Returned
        <3>2. CASE TaskEnds(w)
            <4>1. /\ UNCHANGED <<storeVars, pc, exec, queueVars, found, age>> /\ task[w] = "running"
                  /\ task' = [task EXCEPT ![w] = "done"]
                BY <3>2 DEF TaskEnds
            <4> QED BY <1>1, <4>1
                DEF WorkerInv, HandlerMoves, storeVars, InFlight, Busy, RestingSteps, EndingSteps
        <3> QED BY <1>7, <3>1, <3>2
    <2>2. WorkerInv(w)'
        BY <1>1, <2>1
           DEF WorkerInv, Busy, WorkerSteps, EndingSteps, RestingSteps, HandlerMoves, queueVars,
               ShownRunning
    <2>3. ProcessInv(w)'
        BY <2>2, RolesApart DEF ProcessInv
    <2> QED BY <1>1, <2>1, <2>3, QuietHandlerStep
\* The message leaves the worker.
<1>8. CASE Acknowledge(w) \/ Release(w)
    <2>1. /\ EndAt(w, "idle") /\ pc[w] \in EndingSteps /\ Busy(w)
          /\ UNCHANGED <<taskVars, dequeues, found, age>> /\ task[w] = "none"
        BY <1>1, <1>8 DEF Acknowledge, Release, EndingSteps, Busy, RestingSteps, WorkerInv
    <2>2. /\ HandlerMoves(w) /\ pc'[w] = "idle" /\ call'[w] = NoCall("idle")
        BY <1>1, <2>1, EndMoves DEF HandlerMoves, taskVars, Busy, RestingSteps
    <2>3. ProcessInv(w)' /\ OwnsStill(w)
        BY <1>1, <2>1, <2>2, Rests, RolesApart DEF RestingSteps, OwnsStill, taskVars
    <2>4. \A e \in Executions : MessageInv(e)' /\ (e # exec[w] => msg'[e] = msg[e])
        <3>1. CASE Acknowledge(w)
            <4>1. msg' = [msg EXCEPT ![exec[w]] = "deleted"] /\ Decided(exec[w])
                BY <1>1, <3>1 DEF Acknowledge, WorkerInv, Wrote, Returned, EndingSteps
            <4>2. primary[exec[w]] # Absent
                BY <1>1, <2>1 DEF WorkerInv, MessageInv
            <4> QED BY <1>1, <2>1, <2>2, <4>1, <4>2 DEF MessageInv, Decided, HandlerMoves
        <3>2. CASE Release(w)
            <4>1. PutBack(exec[w]) /\ msg[exec[w]] # "none" /\ primary' = primary
                BY <1>1, <2>1, <2>2, <3>2 DEF Release, WorkerInv, HandlerMoves
            <4> QED BY <1>1, <2>1, <4>1, PutBackMoves
        <3> QED BY <1>8, <3>1, <3>2
    <2>5. OthersHold(w)
        <3> SUFFICES ASSUME NEW d \in Owners \ {w}, Busy(d) PROVE msg'[exec[d]] = msg[exec[d]]
            BY DEF OthersHold
        <3>1. exec[d] # exec[w]
            BY <1>1, <2>1 DEF ProcessesInv, SoleOwner
        <3>2. exec[d] \in Executions
            BY RolesApart DEF Owners, QueueTypes, ExecInv, Busy
        <3> QED BY <2>4, <3>1, <3>2
    <2> QED BY <1>1, <2>2, <2>3, <2>4, <2>5, HandlerStep
<1> QED BY <1>2, <1>4, <1>5, <1>6, <1>7, <1>8 DEF WorkerStep

LEMMA PoisonKeepsProcesses ==
    ASSUME QueueTypes, ProcessesInv, NEW p \in PoisonHandlers,
           (\E e \in Executions : Bury(p, e)) \/ Buried(p)
    PROVE  ProcessesInv'
<1>1. /\ p \in Callers /\ p \in Owners /\ p \notin Workers /\ TypeOK /\ PoisonInv(p)
      /\ \A e \in Executions : MessageInv(e)
      /\ Busy(p) => exec[p] \in Executions
      /\ msg \in [Executions -> MessageStates]
    BY RolesApart DEF QueueTypes, ProcessesInv, ProcessInv, Owners, ExecInv, Busy, TypeOK
<1>2. ASSUME NEW e \in Executions, Bury(p, e) PROVE ProcessesInv'
    <2>1. /\ msg[e] = "poison" /\ msg' = [msg EXCEPT ![e] = "poisonLeased"]
          /\ exec'[p] = e /\ pc'[p] = "burying" /\ call'[p] = CallAt("query", e, "Failed", Absent)
          /\ HandlerMoves(p) /\ UNCHANGED dequeues
        BY <1>1, <1>2
           DEF Bury, BeginUpdate, Begin, HandlerMoves, TypeOK, StoreTypeOK, taskVars
    <2>2. PoisonInv(p)'
        BY <1>1, <2>1
           DEF PoisonInv, Busy, InFlight, InFlightSteps, CallAt, Updates, Wrote, RestingSteps
    <2>3. ProcessInv(p)'
        BY <2>2, RolesApart DEF ProcessInv
    <2>4. \A d \in Owners : Busy(d) => exec[d] # e
        BY <2>1, RolesApart
           DEF Owners, ProcessesInv, ProcessInv, RequestInv, WorkerInv, PoisonInv
    <2>5. OthersHold(p) /\ OwnsStill(p)
        BY <1>1, <2>1, <2>4 DEF OthersHold, OwnsStill
    <2>6. \A f \in Executions : MessageInv(f)'
        BY <1>1, <2>1 DEF MessageInv, HandlerMoves, Decided
    <2> QED BY <1>1, <2>1, <2>3, <2>5, <2>6, HandlerStep
<1>3. CASE Buried(p)
    <2>1. /\ EndAt(p, "idle") /\ pc[p] = "burying" /\ Busy(p) /\ ~InFlight(p)
          /\ UNCHANGED <<taskVars, dequeues, found, age>> /\ msg' = [msg EXCEPT ![exec[p]] = "deleted"]
        BY <1>3 DEF Buried, Busy, RestingSteps
    <2>2. /\ HandlerMoves(p) /\ pc'[p] = "idle" /\ call'[p] = NoCall("idle")
        BY <1>1, <2>1, EndMoves DEF HandlerMoves, taskVars
    <2>3. ProcessInv(p)' /\ OwnsStill(p)
        BY <1>1, <2>2, Rests, RolesApart DEF RestingSteps, OwnsStill
    <2>4. PoisonReliable => Decided(exec[p])
        BY <1>1, <2>1 DEF PoisonInv, Wrote, Returned
    <2>5. msg[exec[p]] # "none"
        BY <1>1, <2>1 DEF PoisonInv
    <2>6. \A e \in Executions : MessageInv(e)'
        BY <1>1, <2>1, <2>2, <2>4, <2>5 DEF MessageInv, Decided, HandlerMoves
    <2>7. OthersHold(p)
        BY <1>1, <2>1 DEF OthersHold, ProcessesInv, SoleOwner
    <2> QED BY <1>1, <2>2, <2>3, <2>6, <2>7, HandlerStep
<1> QED BY <1>2, <1>3

LEMMA CancellerKeepsProcesses ==
    ASSUME QueueTypes, ProcessesInv, NEW k \in Cancellers,
           \/ \E e \in Executions : Cancel(k, e) \/ CancelNotFound(k, e) \/ CancelRefused(k, e)
           \/ CancelAnswer(k)
    PROVE  ProcessesInv'
<1>1. /\ k \in Callers /\ k \notin Owners /\ k \notin Workers /\ TypeOK /\ CancellerInv(k)
    BY RolesApart DEF QueueTypes, ProcessesInv, ProcessInv, Owners
<1> DEFINE Moved ==
        /\ HandlerMoves(k) /\ UNCHANGED queueVars
        /\ \/ pc'[k] \in RestingSteps /\ call'[k].step \notin InFlightSteps
           \/ /\ pc'[k] = "cancelling"
              /\ call'[k].step = "query" /\ call'[k].new = "Cancelling"
              /\ primary'[call'[k].exec] \notin FinalStatuses
<1>2. Moved
    <2>1. ASSUME NEW e \in Executions, Cancel(k, e) PROVE Moved
        BY <1>1, <2>1
           DEF Cancel, BeginUpdate, Begin, CallAt, HandlerMoves, TypeOK, StoreTypeOK, taskVars,
               FinalStatuses
    <2>2. ASSUME NEW e \in Executions, CancelNotFound(k, e) \/ CancelRefused(k, e) PROVE Moved
        BY <1>1, <2>2
           DEF CancelNotFound, CancelRefused, HandlerMoves, TypeOK, storeVars, taskVars, InFlight,
               CancellerInv, Busy, RestingSteps
    <2>3. CASE CancelAnswer(k)
        BY <1>1, <2>3, EndMoves
           DEF CancelAnswer, HandlerMoves, taskVars, RestingSteps, InFlight, InFlightSteps, NoCall,
               CallAt
    <2> QED BY <2>1, <2>2, <2>3
<1>3. CancellerInv(k)'
    BY <1>1, <1>2
       DEF CancellerInv, Busy, InFlight, InFlightSteps, CallAt, Updates, RestingSteps
<1>4. ProcessInv(k)'
    BY <1>3, RolesApart DEF ProcessInv
<1> QED BY <1>1, <1>2, <1>4, QuietHandlerStep

\* Age of what a query of the cleanup returns.
LEMMA StuckIsOverdue ==
    ASSUME QueueTypes, NEW c \in Cleaners, NextScan(c), NEW row \in Scanned(c)
    PROVE  Overdue(IF row[1] = "Cancelling" THEN "Cancelled" ELSE "Timeout", row[2])
<1>1. row[1] \in {"Pending", "Running"} => age[row[2]] > PendingTimeout
    <2>1. row[1] \in {"Pending", "Running"} =>
              age[row[2]] > PendingTimeout \/ age[row[2]] > RunningTimeout
        BY DEF NextScan, Scanned, StuckRows
    <2>2. age[row[2]] \in Nat
        BY DEF QueueTypes, TypeOK, StoreTypeOK, NextScan, Scanned, StuckRows
    <2> QED BY <2>1, <2>2, BoundsAssumption
<1>2. row[1] = "Cancelling" => age[row[2]] > CancellingTimeout
    BY DEF NextScan, Scanned, StuckRows
<1>3. row[1] \in {"Pending", "Running", "Cancelling"}
    BY DEF NextScan, Scanned, StuckRows
<1> QED BY <1>1, <1>2, <1>3 DEF Overdue

LEMMA CleanerKeepsProcesses ==
    ASSUME QueueTypes, ProcessesInv, NEW c \in Cleaners,
           StartCleanup(c) \/ CleanerStep(c) \/ ScanFails(c)
    PROVE  ProcessesInv'
<1>1. /\ c \in Callers /\ c \notin Owners /\ c \notin Workers /\ TypeOK /\ CleanerInv(c)
      /\ found \in [Cleaners -> SUBSET (ActiveStatuses \X Executions)]
    BY RolesApart DEF QueueTypes, ProcessesInv, ProcessInv, Owners, TypeOK
<1> DEFINE Sane(row) == Overdue(IF row[1] = "Cancelling" THEN "Cancelled" ELSE "Timeout", row[2])
<1> DEFINE Moved ==
        /\ HandlerMoves(c) /\ UNCHANGED queueVars
        /\ \A row \in found'[c] : Sane(row)
        /\ \/ pc'[c] \in CleanerSteps \cup RestingSteps /\ call'[c].step \notin InFlightSteps
           \/ /\ pc'[c] = "cleaning" /\ call'[c].step = "query"
              /\ Overdue(call'[c].new, call'[c].exec)
<1>2. Moved
    <2>1. CASE StartCleanup(c)
        BY <1>1, <2>1
           DEF StartCleanup, HandlerMoves, TypeOK, storeVars, taskVars, InFlight, CleanerInv,
               CleanerSteps
    <2>2. CASE Scan(c) \/ ScanFails(c)
        <3>1. \A row \in found'[c] : row \in found[c] \/ row \in Scanned(c)
            BY <1>1, <2>2 DEF Scan, ScanFails
        <3>2. NextScan(c) /\ \A row \in Scanned(c) : Sane(row)
            BY <2>2, StuckIsOverdue DEF Scan, ScanFails
        <3>3. \A row \in found'[c] : Sane(row)
            BY <1>1, <3>1, <3>2 DEF CleanerInv
        <3> HIDE DEF Sane
        <3> QED BY <1>1, <2>2, <3>3
            DEF Scan, ScanFails, NextScan, HandlerMoves, TypeOK, storeVars, taskVars, InFlight,
                CleanerInv, CleanerSteps
    <2>3. CASE CleanNext(c)
        <3>1. PICK row \in found[c] :
                 /\ found' = [found EXCEPT ![c] = @ \ {row}]
                 /\ \/ row[1] # "Cancelling" /\ BeginUpdate(c, row[2], "Timeout")
                    \/ row[1] = "Cancelling" /\ BeginUpdate(c, row[2], "Cancelled")
                    \/ UNCHANGED storeVars
            BY <2>3 DEF CleanNext
        <3>2. /\ pc[c] = "cleaning" /\ ~InFlight(c)
              /\ UNCHANGED <<pc, exec, taskVars, queueVars, age>>
            BY <2>3 DEF CleanNext
        <3>3. \A r \in found[c] : Sane(r)
            BY <1>1 DEF CleanerInv
        <3>4. /\ \A r \in found'[c] : Sane(r)
              /\ \A d \in Cleaners \ {c} : found'[d] = found[d]
            BY <1>1, <3>1, <3>3
        <3>5. CASE UNCHANGED storeVars
            BY <1>1, <3>2, <3>4, <3>5
               DEF HandlerMoves, storeVars, taskVars, InFlight, CleanerSteps
        <3>6. ASSUME NEW s, BeginUpdate(c, row[2], s), Overdue(s, row[2]) PROVE Moved
            <4>1. /\ HandlerMoves(c) /\ call'[c] = CallAt("query", row[2], s, Absent)
                  /\ age' = age
                BY <1>1, <3>2, <3>4, <3>6
                   DEF BeginUpdate, Begin, HandlerMoves, TypeOK, StoreTypeOK, taskVars
            <4>2. Overdue(call'[c].new, call'[c].exec)
                BY <3>6, <4>1 DEF CallAt
            <4> QED BY <3>2, <3>4, <4>1, <4>2 DEF CallAt
        <3>7. /\ row[1] # "Cancelling" => Overdue("Timeout", row[2])
              /\ row[1] = "Cancelling" => Overdue("Cancelled", row[2])
            BY <3>1, <3>3
        <3> QED BY <3>1, <3>5, <3>6, <3>7
    <2>4. CASE CleanupEnds(c)
        BY <1>1, <2>4, EndMoves
           DEF CleanupEnds, HandlerMoves, taskVars, RestingSteps, InFlight, InFlightSteps, NoCall,
               CallAt
    <2> QED BY <2>1, <2>2, <2>3, <2>4 DEF CleanerStep
<1>3. CleanerInv(c)'
    <2>1. age' = age
        BY <1>2 DEF HandlerMoves
    <2> QED BY <1>1, <1>2, <2>1
        DEF CleanerInv, InFlight, InFlightSteps, CallAt, Updates, CleanerSteps, Overdue
<1>4. ProcessInv(c)'
    BY <1>3, RolesApart DEF ProcessInv
<1> QED BY <1>1, <1>2, <1>4, QuietHandlerStep

LEMMA CrashKeepsProcesses ==
    ASSUME QueueTypes, ProcessesInv, NEW c \in Callers, Crash(c)
    PROVE  ProcessesInv'
<1>1. /\ TypeOK /\ Busy(c) /\ ProcessInv(c) /\ \A e \in Executions : MessageInv(e)
      /\ c \in Owners => exec[c] \in Executions
    BY RolesApart DEF QueueTypes, ProcessesInv, Crash, Busy, RestingSteps, Owners, ExecInv
<1>2. /\ HandlerMoves(c) /\ pc'[c] \in RestingSteps /\ call'[c] = NoCall("idle")
      /\ dequeues' = dequeues /\ (c \in Workers => task'[c] = "none")
      /\ (c \in Cleaners => found'[c] = {})
    BY <1>1 DEF Crash, AbandonCall, HandlerMoves, TypeOK, StoreTypeOK, RestingSteps
<1>3. ProcessInv(c)' /\ OwnsStill(c)
    BY <1>2, Rests DEF OwnsStill
<1>4. /\ \A e \in Executions : MessageInv(e)'
      /\ \A e \in Executions : msg'[e] # msg[e] => c \in Owners /\ e = exec[c]
    <2>1. CASE c \in Workers
        <3>1. PutBack(exec[c]) /\ c \in Owners
            BY <2>1 DEF Crash, Owners
        <3>2. msg[exec[c]] # "none"
            BY <1>1, <2>1, RolesApart DEF ProcessInv, WorkerInv
        <3> QED BY <1>1, <1>2, <3>1, <3>2, PutBackMoves DEF HandlerMoves
    <2>2. CASE c \in PoisonHandlers
        <3>1. msg' = [msg EXCEPT ![exec[c]] = "poison"] /\ c \in Owners
            BY <2>2, RolesApart DEF Crash, Owners
        <3>2. msg[exec[c]] # "none" /\ msg \in [Executions -> MessageStates]
            BY <1>1, <2>2, RolesApart DEF ProcessInv, PoisonInv, TypeOK
        <3> QED BY <1>1, <1>2, <3>1, <3>2 DEF MessageInv, HandlerMoves, Decided
    <2>3. CASE c \notin Workers \cup PoisonHandlers
        <3>1. msg' = msg
            BY <2>3 DEF Crash
        <3> QED BY <1>1, <1>2, <3>1 DEF MessageInv, HandlerMoves, Decided
    <2> QED BY <2>1, <2>2, <2>3
<1>5. OthersHold(c)
    <2> SUFFICES ASSUME NEW d \in Owners \ {c}, Busy(d) PROVE msg'[exec[d]] = msg[exec[d]]
        BY DEF OthersHold
    <2>1. c \in Owners => exec[d] # exec[c]
        BY <1>1 DEF ProcessesInv, SoleOwner
    <2>2. exec[d] \in Executions
        BY RolesApart DEF Owners, QueueTypes, ExecInv, Busy
    <2> QED BY <1>4, <2>1, <2>2
<1> QED BY <1>2, <1>3, <1>4, <1>5, HandlerStep

\* What one request of a repository call does: to the call, to the primary row, to the rest.
LEMMA CallMoves ==
    ASSUME StoreInv, NEW c \in Callers, CallStep(c) \/ StorageFault(c)
    PROVE  /\ InFlight(c) /\ \A d \in Callers \ {c} : call'[d] = call[d]
           /\ disturbed \subseteq disturbed'
           /\ \/ /\ call'[c].step \in InFlightSteps /\ call'[c].exec = call[c].exec
                 /\ call'[c].new = call[c].new /\ (Updates(c) <=> Updates(c)')
              \/ call'[c].step \in {"returned", "raised"}
           /\ \A e \in Executions : primary[e] # Absent => primary'[e] # Absent
           /\ call'[c].step = "returned" => primary[call[c].exec] # Absent
           /\ \/ primary' = primary
              \/ /\ \A e \in Executions \ {call[c].exec} : primary'[e] = primary[e]
                 /\ primary'[call[c].exec] = call[c].new
                 /\ Updates(c) => ~Wrote(c) /\ call'[c].step \in {"writeDisplay", "raised"}
                 /\ ~Updates(c) => primary[call[c].exec] = Absent
           /\ Updates(c) /\ Wrote(c)' =>
                 (Wrote(c) /\ primary' = primary) \/ primary'[call[c].exec] = call[c].new
           /\ Wrote(c) /\ call'[c].step \in InFlightSteps => Wrote(c)'
<1>1. /\ StoreTypeOK /\ CallsSane /\ call[c] \in CallRecord
    BY DEF StoreInv, StoreTypeOK
<1> USE DEF Updates, Wrote, InFlight, InFlightSteps, CallAt, NoCall, StoredStatus, Absent
<1>2. CASE InsertPrimary(c)
    BY <1>1, <1>2 DEF InsertPrimary, Goto, StoreTypeOK, CallsSane, ExecutionStatus,
                      ActiveStatuses, FinalStatuses
<1>3. CASE InsertPrimaryExists(c) \/ InsertIndexes(c)
    BY <1>1, <1>3 DEF InsertPrimaryExists, InsertIndexes, Finish, StoreTypeOK, CallsSane
<1>4. CASE QueryPrimary(c) \/ QueryPrimaryMissing(c)
    BY <1>1, <1>4 DEF QueryPrimary, QueryPrimaryMissing, Finish, StoreTypeOK, CallsSane
<1>5. CASE WritePrimary(c)
    BY <1>1, <1>5 DEF WritePrimary, Goto, StoreTypeOK, CallsSane,
                      ExecutionStatus, ActiveStatuses, FinalStatuses
<1>6. CASE WriteDisplay(c) \/ DeleteOldRow(c) \/ InsertNewRow(c)
    BY <1>1, <1>6 DEF WriteDisplay, DeleteOldRow, InsertNewRow, Goto, Finish, StoreTypeOK, CallsSane
<1>7. CASE PrimaryFault(c) /\ StorageFault(c)
    BY <1>1, <1>7 DEF PrimaryFault, Finish, StoreTypeOK
<1>8. CASE IndexInsertFault(c) /\ StorageFault(c)
    BY <1>1, <1>8 DEF IndexInsertFault, Finish, StoreTypeOK
<1>9. CASE IndexUpdateFault(c) /\ StorageFault(c)
    BY <1>1, <1>9 DEF IndexUpdateFault, Goto, Finish, StoreTypeOK, CallsSane
<1>10. CASE InsertAnswerLost(c) \/ MergeAnswerLost(c)
    BY <1>1, <1>10 DEF InsertAnswerLost, MergeAnswerLost, Finish, StoreTypeOK, CallsSane,
                       ExecutionStatus, ActiveStatuses, FinalStatuses
<1> QED BY <1>2, <1>3, <1>4, <1>5, <1>6, <1>7, <1>8, <1>9, <1>10 DEF CallStep, StorageFault

\* An update raises of its own only where there is no record.
LEMMA UpdateRaises ==
    ASSUME StoreTypeOK, NEW c \in Callers, CallStep(c), Updates(c), call'[c].step = "raised"
    PROVE  primary[call[c].exec] = Absent
<1> USE DEF StoreTypeOK, Updates, CallAt, NoCall
<1>1. CASE InsertPrimary(c) \/ InsertPrimaryExists(c) \/ InsertIndexes(c)
    BY <1>1 DEF InsertPrimary, InsertPrimaryExists, InsertIndexes
<1>2. CASE QueryPrimary(c) \/ WritePrimary(c)
    BY <1>2 DEF QueryPrimary, WritePrimary, Goto
<1>3. CASE QueryPrimaryMissing(c)
    BY <1>3 DEF QueryPrimaryMissing
<1>4. CASE WriteDisplay(c) \/ DeleteOldRow(c) \/ InsertNewRow(c)
    BY <1>4 DEF WriteDisplay, DeleteOldRow, InsertNewRow, Goto, Finish
<1> QED BY <1>1, <1>2, <1>3, <1>4 DEF CallStep

\* Who may call on an execution whose message somebody holds, or nobody needs any more.
LEMMA OnlyCancelsAndCleanups ==
    ASSUME ProcessesInv, NEW c \in Callers, InFlight(c)
    PROVE  /\ c \in Owners => Busy(c) /\ call[c].exec = exec[c]
           /\ msg[call[c].exec] = "deleted" => c \in Cancellers \cup Cleaners
           /\ \A d \in (Workers \cup PoisonHandlers) \ {c} :
                 Busy(d) /\ exec[d] = call[c].exec => c \in Cancellers \cup Cleaners
           /\ c \in Cancellers => call[c].new = "Cancelling" /\ Updates(c)
           /\ c \in Cleaners =>
                 /\ call[c].new \in {"Timeout", "Cancelled"} /\ Updates(c)
                 /\ Overdue(call[c].new, call[c].exec)
<1>1. ProcessInv(c)
    BY DEF ProcessesInv
<1>2. /\ c \in Requests => RequestInv(c)
      /\ c \in Workers => WorkerInv(c)
      /\ c \in PoisonHandlers => PoisonInv(c)
      /\ c \in Cancellers => CancellerInv(c)
      /\ c \in Cleaners => CleanerInv(c)
    BY <1>1, RolesApart DEF ProcessInv
<1>3. c \in Owners => Busy(c) /\ call[c].exec = exec[c]
    BY <1>2, RolesApart
       DEF Owners, RequestInv, WorkerInv, PoisonInv, Busy, RestingSteps, EndingSteps
<1>4. msg[call[c].exec] = "deleted" => c \notin Owners
    BY <1>2, <1>3, RolesApart DEF Owners, RequestInv, WorkerInv, PoisonInv
<1>5. ASSUME NEW d \in (Workers \cup PoisonHandlers) \ {c}, Busy(d), exec[d] = call[c].exec
      PROVE  c \notin Owners
    BY <1>3, <1>5 DEF ProcessesInv, SoleOwner, Owners
<1>6. c \in Owners \cup Cancellers \cup Cleaners
    BY RolesApart DEF Owners
<1> QED BY <1>2, <1>3, <1>4, <1>5, <1>6 DEF CancellerInv, CleanerInv, Overdue

\* The caller itself.
LEMMA CallKeepsCaller ==
    ASSUME QueueTypes, ProcessesInv, NEW c \in Callers, RepositoryStep(c) \/ RepositoryFault(c)
    PROVE  ProcessInv(c)'
<1>1. CallStep(c) \/ StorageFault(c)
    BY DEF RepositoryStep, RepositoryFault
<1>2. /\ pc' = pc /\ exec' = exec /\ msg' = msg /\ task' = task /\ StoreTypeOK
      /\ age' = age /\ found' = found
      /\ CallStep(c) \/ MaxFaults # 0
    BY BoundsAssumption
       DEF RepositoryStep, RepositoryFault, taskVars, queueVars, UseFault, QueueTypes, TypeOK
<1>3. /\ InFlight(c) /\ disturbed \subseteq disturbed'
      /\ \/ /\ call'[c].step \in InFlightSteps /\ call'[c].exec = call[c].exec
            /\ call'[c].new = call[c].new /\ (Updates(c) <=> Updates(c)')
         \/ call'[c].step \in {"returned", "raised"}
      /\ \A e \in Executions : primary[e] # Absent => primary'[e] # Absent
      /\ call'[c].step = "returned" => primary[call[c].exec] # Absent
      /\ \/ primary' = primary
         \/ /\ primary'[call[c].exec] = call[c].new
            /\ Updates(c) => ~Wrote(c) /\ call'[c].step \in {"writeDisplay", "raised"}
      /\ Updates(c) /\ Wrote(c)' =>
            (Wrote(c) /\ primary' = primary) \/ primary'[call[c].exec] = call[c].new
      /\ Wrote(c) /\ call'[c].step \in InFlightSteps => Wrote(c)'
      /\ Updates(c) /\ call'[c].step = "raised" =>
            MaxFaults # 0 \/ primary[call[c].exec] = Absent
    BY <1>1, <1>2, CallMoves, UpdateRaises DEF QueueTypes
<1>4. /\ Busy(c)' <=> Busy(c)
      /\ InFlight(c)' => call'[c].exec = call[c].exec /\ call'[c].new = call[c].new
      /\ InFlight(c)' => (Updates(c) <=> Updates(c)')
      /\ InFlight(c)' /\ ~Wrote(c)' /\ Updates(c) => ~Wrote(c) /\ primary' = primary
    BY <1>2, <1>3 DEF Busy, InFlight, InFlightSteps, Wrote
<1>5. c \in Owners => Busy(c) /\ call[c].exec = exec[c] /\ exec[c] \in Executions
    BY <1>3, OnlyCancelsAndCleanups, RolesApart DEF Owners, QueueTypes, ExecInv, Busy
<1>6. ProcessInv(c) /\ ScenarioInv /\ (c \in Owners => MessageInv(exec[c]))
    BY <1>5 DEF ProcessesInv
<1>7. CASE c \in Requests
    <2>1. RequestInv(c) /\ c \in Owners
        BY <1>6, <1>7 DEF ProcessInv, Owners
    <2>2. RequestInv(c)'
        BY <1>2, <1>3, <1>4, <1>5, <2>1 DEF RequestInv, Returned
    <2> QED BY <1>7, <2>2, RolesApart DEF ProcessInv
<1>8. CASE c \in Workers
    <2>1. WorkerInv(c) /\ c \in Owners /\ Updates(c)
        BY <1>3, <1>6, <1>8 DEF ProcessInv, Owners, WorkerInv
    <2>2. /\ pc[c] \in EndingSteps \cup {"starting"}
          /\ call[c].new \in IF pc[c] = "starting" THEN {"Running"} ELSE FinalStatuses
        BY <1>3, <2>1 DEF WorkerInv
    <2>3. pc[c] \in EndingSteps /\ Wrote(c)' => Decided(exec[c])'
        BY <1>2, <1>3, <1>5, <2>1, <2>2 DEF WorkerInv, Decided, FinalStatuses, EndingSteps
    <2>4. pc[c] = "starting" /\ Wrote(c)' => ShownRunning(exec[c])'
        BY <1>2, <1>3, <1>5, <2>1, <2>2 DEF WorkerInv, ShownRunning
    <2>5. pc[c] = "starting" /\ ~Wrote(c)' /\ InFlight(c)' /\ exec[c] \notin disturbed' =>
              primary'[exec[c]] # "Cancelling"
        BY <1>3, <1>4, <2>1 DEF WorkerInv
    <2>6. WorkerInv(c)'
        BY <1>2, <1>4, <1>5, <2>1, <2>2, <2>3, <2>4, <2>5 DEF WorkerInv, EndingSteps
    <2> QED BY <1>8, <2>6, RolesApart DEF ProcessInv
<1>9. CASE c \in PoisonHandlers
    <2>1. PoisonInv(c) /\ c \in Owners /\ Updates(c) /\ call[c].new = "Failed"
        BY <1>3, <1>6, <1>9 DEF ProcessInv, Owners, PoisonInv
    <2>2. Wrote(c)' => Decided(exec[c])'
        BY <1>2, <1>3, <1>5, <2>1 DEF PoisonInv, Decided
    <2>3. PoisonReliable => MaxFaults = 0
        BY <1>5, <1>6, <1>9, <2>1 DEF ScenarioInv, Absents, Busy, RestingSteps
    <2>4. PoisonReliable => InFlight(c)' \/ Returned(c)'
        <3>1. primary[exec[c]] # Absent
            BY <1>5, <1>6, <2>1 DEF PoisonInv, MessageInv
        <3> QED BY <1>3, <1>5, <2>1, <2>3, <3>1 DEF InFlight, Returned
    <2>5. PoisonInv(c)'
        BY <1>2, <1>4, <1>5, <2>1, <2>2, <2>4 DEF PoisonInv
    <2> QED BY <1>9, <2>5, RolesApart DEF ProcessInv
<1>10. CASE c \in Cancellers
    BY <1>2, <1>4, <1>6, <1>10, OnlyCancelsAndCleanups, RolesApart, <1>3
       DEF ProcessInv, CancellerInv
<1>11. CASE c \in Cleaners
    BY <1>2, <1>4, <1>6, <1>11, OnlyCancelsAndCleanups, RolesApart, <1>3
       DEF ProcessInv, CleanerInv, Overdue
<1> QED BY <1>7, <1>8, <1>9, <1>10, <1>11, RolesApart

\* What a call writes does not contradict what another process has established.
LEMMA CallKeepsOthers ==
    ASSUME QueueTypes, ProcessesInv, NEW c \in Callers, RepositoryStep(c) \/ RepositoryFault(c),
           NEW d \in Callers \ {c}
    PROVE  ProcessInv(d)'
<1>1. /\ pc' = pc /\ exec' = exec /\ msg' = msg /\ task' = task /\ age' = age /\ found' = found
      /\ CallStep(c) \/ StorageFault(c)
    BY DEF RepositoryStep, RepositoryFault, taskVars, queueVars
<1>2. /\ call'[d] = call[d] /\ InFlight(c) /\ disturbed \subseteq disturbed'
      /\ \A e \in Executions : primary[e] # Absent => primary'[e] # Absent
      /\ \/ primary' = primary
         \/ /\ \A e \in Executions \ {call[c].exec} : primary'[e] = primary[e]
            /\ primary'[call[c].exec] = call[c].new
    BY <1>1, CallMoves DEF QueueTypes
<1>3. ProcessInv(d) /\ ScenarioInv
    BY DEF ProcessesInv
<1>4. d \in Owners /\ Busy(d) => exec[d] \in Executions
    BY RolesApart DEF Owners, QueueTypes, ExecInv, Busy
<1>5. /\ Busy(d)' <=> Busy(d)
      /\ InFlight(d)' <=> InFlight(d)
      /\ Updates(d)' <=> Updates(d)
      /\ Wrote(d)' <=> Wrote(d)
      /\ Returned(d)' <=> Returned(d)
    BY <1>1, <1>2 DEF Busy, InFlight, Updates, Wrote, Returned
<1>6. CASE d \in Requests
    <2>1. RequestInv(d) /\ d \in Owners
        BY <1>3, <1>6 DEF ProcessInv, Owners
    <2>2. RequestInv(d)'
        BY <1>1, <1>2, <1>4, <1>5, <2>1 DEF RequestInv, Busy, RestingSteps
    <2> QED BY <1>6, <2>2, RolesApart DEF ProcessInv
<1>7. CASE d \in Workers
    <2> SUFFICES WorkerInv(d)'
        BY <1>7, RolesApart DEF ProcessInv
    <2>1. WorkerInv(d) /\ d \in Owners
        BY <1>3, <1>7 DEF ProcessInv, Owners
    <2>2. CASE ~Busy(d) \/ primary'[exec[d]] = primary[exec[d]]
        BY <1>1, <1>2, <1>5, <2>1, <2>2
           DEF WorkerInv, Decided, Busy, RestingSteps, EndingSteps, ShownRunning
    <2>3. CASE Busy(d) /\ primary'[exec[d]] # primary[exec[d]]
        <3>1. exec[d] = call[c].exec /\ primary'[exec[d]] = call[c].new
            BY <1>2, <1>4, <2>1, <2>3
        <3>2. c \in Cancellers \cup Cleaners
            BY <1>2, <1>7, <2>3, <3>1, OnlyCancelsAndCleanups
        <3>3. /\ call[c].new \in {"Cancelling", "Timeout", "Cancelled"}
              /\ call[c].new = "Cancelling" \/ Overdue(call[c].new, exec[d])
            BY <1>2, <3>1, <3>2, OnlyCancelsAndCleanups
        <3>4. InFlight(d) => exec[d] \in disturbed
            BY <1>2, <2>1, <3>1 DEF WorkerInv, QueueTypes, StoreInv, SoleCall
        <3>5. ShownRunning(exec[d])'
            BY <1>1, <3>1, <3>3 DEF ShownRunning, Overdue
        <3> QED BY <1>1, <1>2, <1>5, <2>1, <3>1, <3>3, <3>4, <3>5 DEF WorkerInv, Decided
    <2> QED BY <2>2, <2>3
<1>8. CASE d \in PoisonHandlers
    <2>1. PoisonInv(d) /\ d \in Owners
        BY <1>3, <1>8 DEF ProcessInv, Owners
    <2>2. Busy(d) /\ Wrote(d) => Decided(exec[d])'
        <3>1. CASE primary'[exec[d]] = primary[exec[d]]
            BY <1>1, <2>1, <3>1 DEF PoisonInv, Decided
        <3>2. CASE Busy(d) /\ primary'[exec[d]] # primary[exec[d]]
            <4>1. exec[d] = call[c].exec /\ primary'[exec[d]] = call[c].new
                BY <1>2, <1>4, <2>1, <3>2
            <4>2. call[c].new \in {"Cancelling", "Timeout", "Cancelled"}
                BY <1>2, <1>8, <3>2, <4>1, OnlyCancelsAndCleanups
            <4> QED BY <1>1, <4>1, <4>2 DEF Decided
        <3> QED BY <3>1, <3>2
    <2>3. PoisonInv(d)'
        BY <1>1, <1>2, <1>5, <2>1, <2>2 DEF PoisonInv
    <2> QED BY <1>8, <2>3, RolesApart DEF ProcessInv
<1>9. CASE d \in Cancellers
    <2>1. CancellerInv(d)
        BY <1>3, <1>9 DEF ProcessInv
    <2>2. ASSUME InFlight(d), call[d].exec \notin disturbed
          PROVE  primary'[call[d].exec] = primary[call[d].exec]
        <3>1. call[d].exec # call[c].exec /\ call[d].exec \in Executions
            BY <1>2, <2>2 DEF QueueTypes, StoreInv, SoleCall, CallsSane
        <3> QED BY <1>2, <3>1
    <2>3. CancellerInv(d)'
        BY <1>1, <1>2, <1>5, <2>1, <2>2 DEF CancellerInv
    <2> QED BY <1>9, <2>3, RolesApart DEF ProcessInv
<1>10. CASE d \in Cleaners
    BY <1>1, <1>2, <1>3, <1>5, <1>10, RolesApart DEF ProcessInv, CleanerInv, Overdue
<1> QED BY <1>6, <1>7, <1>8, <1>9, <1>10, RolesApart

LEMMA CallKeepsProcesses ==
    ASSUME QueueTypes, ProcessesInv, NEW c \in Callers, RepositoryStep(c) \/ RepositoryFault(c)
    PROVE  ProcessesInv'
<1>1. /\ pc' = pc /\ exec' = exec /\ msg' = msg /\ dequeues' = dequeues
      /\ CallStep(c) \/ StorageFault(c)
    BY DEF RepositoryStep, RepositoryFault, taskVars, queueVars
<1>2. /\ InFlight(c)
      /\ \A e \in Executions : primary[e] # Absent => primary'[e] # Absent
      /\ \A e \in Executions :
            primary'[e] # primary[e] => e = call[c].exec /\ primary'[e] = call[c].new
    BY <1>1, CallMoves DEF QueueTypes
<1>3. ScenarioInv' /\ SoleOwner'
    BY <1>1 DEF ProcessesInv, ScenarioInv, SoleOwner, Absents, Busy
<1>4. ASSUME NEW e \in Executions PROVE MessageInv(e)'
    <2>1. MessageInv(e)
        BY DEF ProcessesInv
    <2>2. msg[e] = "deleted" /\ Decided(e) => Decided(e)'
        BY <1>2, OnlyCancelsAndCleanups DEF Decided
    <2> QED BY <1>1, <1>2, <2>1, <2>2 DEF MessageInv
<1>5. \A d \in Callers : ProcessInv(d)'
    BY CallKeepsCaller, CallKeepsOthers
<1> QED BY <1>3, <1>4, <1>5 DEF ProcessesInv

LEMMA InitProcesses == Init => ProcessesInv
<1> SUFFICES ASSUME Init PROVE ProcessesInv
    OBVIOUS
<1>1. PICK present \in Scenarios :
          pc = [c \in Callers |-> IF c \in present THEN "idle" ELSE "stopped"]
    BY DEF Init
<1>2. \A c \in Callers : pc[c] \in {"idle", "stopped"} /\ ~Busy(c) /\ call[c] = NoCall("idle")
    BY <1>1 DEF Init, StoreInit, Busy, RestingSteps
<1>3. ScenarioInv
    BY <1>1, RolesApart DEF ScenarioInv, Absents, PoisonReliable
<1>4. SoleOwner
    BY <1>2, RolesApart DEF SoleOwner, Owners
<1>5. ASSUME NEW c \in Callers PROVE ProcessInv(c)
    BY <1>2, RolesApart
       DEF Init, ProcessInv, RequestInv, WorkerInv, PoisonInv, CancellerInv, CleanerInv, InFlight,
           InFlightSteps, NoCall, CallAt, RestingSteps, EndingSteps
<1>6. \A e \in Executions : MessageInv(e)
    BY DEF Init, MessageInv
<1> QED BY <1>3, <1>4, <1>5, <1>6 DEF ProcessesInv

LEMMA NextProcesses == QueueTypes /\ ProcessesInv /\ [Next]_asyncVars => ProcessesInv'
<1> SUFFICES ASSUME QueueTypes, ProcessesInv, [Next]_asyncVars PROVE ProcessesInv'
    OBVIOUS
<1>1. CASE UNCHANGED asyncVars
    BY <1>1 DEF asyncVars, storeVars, taskVars, queueVars, ProcessesInv, ScenarioInv, Absents,
                SoleOwner, Busy, ProcessInv, RequestInv, WorkerInv, PoisonInv, CancellerInv,
                CleanerInv, MessageInv, InFlight, Updates, Wrote, Returned, Decided,
                ShownRunning, Overdue
<1>2. CASE \E t \in orphans : OrphanEnds(t)
    <2>1. UNCHANGED <<storeVars, pc, exec, task, queueVars, found, age>>
        BY <1>2 DEF OrphanEnds
    <2> QED BY <2>1
        DEF storeVars, queueVars, ProcessesInv, ScenarioInv, Absents,
            SoleOwner, Busy, ProcessInv, RequestInv, WorkerInv, PoisonInv, CancellerInv,
            CleanerInv, MessageInv, InFlight, Updates, Wrote, Returned, Decided, ShownRunning,
            Overdue
\* Nothing gets younger.
<1>3. CASE Tick
    <2>1. UNCHANGED <<storeVars, pc, exec, task, queueVars, found>>
        BY <1>3 DEF Tick, taskVars
    <2>2. ASSUME NEW e \in Executions, NEW n \in Nat, age[e] > n PROVE age'[e] > n
        BY <1>3, <2>2, BoundsAssumption DEF Tick, QueueTypes, TypeOK, MaxAge
    <2>3. ASSUME NEW e \in Executions PROVE ShownRunning(e) => ShownRunning(e)'
        BY <2>1, <2>2, BoundsAssumption DEF ShownRunning, storeVars
    <2>4. ASSUME NEW s, NEW e \in Executions PROVE Overdue(s, e) => Overdue(s, e)'
        BY <2>2, BoundsAssumption DEF Overdue
    <2>5. ASSUME NEW w \in Workers, WorkerInv(w) PROVE WorkerInv(w)'
        <3>1. Busy(w) => exec[w] \in Executions
            BY RolesApart DEF QueueTypes, ExecInv, Busy
        <3> QED BY <2>1, <2>3, <2>5, <3>1
            DEF WorkerInv, storeVars, queueVars, Busy, InFlight, Updates, Wrote, Decided, RestingSteps
    <2>6. ASSUME NEW c \in Cleaners, CleanerInv(c) PROVE CleanerInv(c)'
        <3>1. InFlight(c) => call[c].exec \in Executions
            BY RolesApart DEF QueueTypes, StoreInv, CallsSane
        <3>2. \A row \in found[c] : row[2] \in Executions
            BY DEF QueueTypes, TypeOK
        <3> QED BY <2>1, <2>4, <2>6, <3>1, <3>2 DEF CleanerInv, storeVars, InFlight, Updates
    <2>7. ASSUME NEW c \in Callers, ProcessInv(c) PROVE ProcessInv(c)'
        BY <2>1, <2>5, <2>6, <2>7
           DEF ProcessInv, RequestInv, PoisonInv, CancellerInv, storeVars, queueVars, Busy, InFlight,
               Updates, Wrote, Returned, Decided
    <2> QED BY <2>1, <2>7
        DEF storeVars, queueVars, ProcessesInv, ScenarioInv, Absents, SoleOwner, Busy, MessageInv,
            Decided
<1> QED
    BY <1>1, <1>2, <1>3, RequestKeepsProcesses, WorkerKeepsProcesses, PoisonKeepsProcesses,
       CancellerKeepsProcesses, CleanerKeepsProcesses, CallKeepsProcesses, CrashKeepsProcesses
       DEF Next

\* What TypeOK says besides the rows, the handlers and what the cleanups found.
LEMMA NextTypes ==
    ASSUME QueueTypes, ProcessesInv, [Next]_asyncVars, StoreInv', ExecInv'
    PROVE  TypeOK'
<1> DEFINE QueueTypeOK ==
        /\ task \in [Workers -> TaskStates]
        /\ orphans \subseteq Workers \X Executions
        /\ msg \in [Executions -> MessageStates]
        /\ dequeues \in [Executions -> 0..MaxDequeue]
        /\ age \in [Executions -> 0..MaxAge]
        /\ crashes \in 0..MaxCrashes
        /\ faults \in 0..MaxFaults
<1> SUFFICES QueueTypeOK'
    BY DEF TypeOK, StoreInv, ExecInv
<1>1. QueueTypeOK /\ MaxCrashes \in Nat /\ MaxFaults \in Nat /\ MaxAge \in Nat
    BY BoundsAssumption DEF QueueTypes, TypeOK, MaxAge
<1> USE DEF TaskStates, MessageStates
<1>2. CASE UNCHANGED <<taskVars, queueVars, age, budgetVars>>
    BY <1>1, <1>2 DEF taskVars, queueVars, budgetVars
<1>3. ASSUME UseFault PROVE faults' \in 0..MaxFaults
    BY <1>1, <1>3 DEF UseFault
<1>4. ASSUME NEW r \in Requests,
             \/ \E e \in Executions : SubmitRun(r, e)
             \/ RequestStep(r) \/ SyncEnd(r) \/ SendFails(r)
      PROVE  QueueTypeOK'
    <2>1. CASE SendMessage(r)
        BY <1>1, <2>1 DEF SendMessage, taskVars, budgetVars
    <2>2. CASE SendFails(r)
        BY <1>1, <1>3, <2>2 DEF SendFails, taskVars, queueVars
    <2>3. CASE ~SendMessage(r) /\ ~SendFails(r)
        BY <1>2, <1>4, <2>3
           DEF SubmitRun, RequestStep, MarkPending, EnqueueRaises, SyncStart, SyncEnd, SyncRaises,
               SyncAnswer
    <2> QED BY <2>1, <2>2, <2>3
<1>5. ASSUME NEW w \in Workers,
             (\E e \in Executions : Dequeue(w, e)) \/ WorkerStep(w) \/ TaskEnds(w) \/ ReadFails(w)
      PROVE  QueueTypeOK'
    <2>1. ASSUME NEW e \in Executions, Dequeue(w, e) PROVE QueueTypeOK'
        <3>1. dequeues[e] < MaxDequeue /\ dequeues[e] \in Nat
            BY <1>1, <2>1 DEF Dequeue, ProcessesInv, MessageInv
        <3>2. dequeues' \in [Executions -> 0..MaxDequeue]
            BY <1>1, <2>1, <3>1, BoundsAssumption DEF Dequeue
        <3> QED BY <1>1, <2>1, <3>2 DEF Dequeue, taskVars, budgetVars
    <2>2. CASE StartTask(w) \/ TaskEnds(w) \/ RecordResult(w)
        BY <1>1, <2>2
           DEF StartTask, TaskEnds, RecordResult, queueVars, budgetVars
    <2>3. CASE PollEnds(w) \/ ReadFails(w)
        <3>1. exec[w] \in Executions
            BY <2>3, RolesApart DEF PollEnds, ReadFails, QueueTypes, ExecInv, RestingSteps
        <3>2. orphans' \subseteq orphans \cup {<<w, exec[w]>>}
            BY <2>3 DEF PollEnds, ReadFails, Orphaned
        <3>3. orphans' \subseteq Workers \X Executions
            BY <1>1, <3>1, <3>2
        <3>4. faults' \in 0..MaxFaults /\ crashes' = crashes
            BY <1>1, <1>3, <2>3 DEF PollEnds, ReadFails, budgetVars
        <3> QED BY <1>1, <2>3, <3>3, <3>4 DEF PollEnds, ReadFails, queueVars
    <2>4. CASE Acknowledge(w) \/ Release(w)
        BY <1>1, <2>4 DEF Acknowledge, Release, PutBack, taskVars, budgetVars
    <2>5. CASE CheckCancelled(w) \/ LoadFails(w) \/ NotFoundRaises(w) \/ Except(w)
        BY <1>2, <2>5 DEF CheckCancelled, LoadFails, NotFoundRaises, Except
    <2> QED BY <1>5, <2>1, <2>2, <2>3, <2>4, <2>5 DEF WorkerStep
<1>6. ASSUME NEW p \in PoisonHandlers, (\E e \in Executions : Bury(p, e)) \/ Buried(p)
      PROVE  QueueTypeOK'
    BY <1>1, <1>6 DEF Bury, Buried, taskVars, budgetVars
<1>7. ASSUME NEW k \in Cancellers,
             \/ \E e \in Executions : Cancel(k, e) \/ CancelNotFound(k, e) \/ CancelRefused(k, e)
             \/ CancelAnswer(k)
      PROVE  QueueTypeOK'
    BY <1>2, <1>7 DEF Cancel, CancelNotFound, CancelRefused, CancelAnswer
<1>8. ASSUME NEW c \in Cleaners, StartCleanup(c) \/ CleanerStep(c) \/ ScanFails(c)
      PROVE  QueueTypeOK'
    <2>1. CASE ScanFails(c)
        BY <1>1, <1>3, <2>1 DEF ScanFails, taskVars, queueVars
    <2>2. CASE StartCleanup(c) \/ CleanerStep(c)
        BY <1>2, <2>2 DEF StartCleanup, CleanerStep, Scan, CleanNext, CleanupEnds
    <2> QED BY <1>8, <2>1, <2>2
<1>9. ASSUME NEW c \in Callers, RepositoryStep(c) \/ RepositoryFault(c) \/ Crash(c)
      PROVE  QueueTypeOK'
    <2>1. CASE RepositoryStep(c)
        BY <1>2, <2>1 DEF RepositoryStep
    <2>2. CASE RepositoryFault(c)
        BY <1>1, <1>3, <2>2 DEF RepositoryFault, taskVars, queueVars
    <2>3. CASE Crash(c)
        BY <1>1, <2>3 DEF Crash, PutBack
    <2> QED BY <1>9, <2>1, <2>2, <2>3
<1>10. CASE (\E t \in orphans : OrphanEnds(t)) \/ Tick \/ UNCHANGED asyncVars
    BY <1>1, <1>10
       DEF OrphanEnds, Tick, asyncVars, storeVars, taskVars, queueVars, budgetVars
<1> QED
    BY <1>4, <1>5, <1>6, <1>7, <1>8, <1>9, <1>10 DEF Next

LEMMA InitTypes == Init => TypeOK
BY BoundsAssumption
   DEF Init, TypeOK, StoreInit, StoreTypeOK, Steps, TaskStates, MessageStates, MaxAge, CallRecord,
       NoCall, CallAt, StoredStatus, RestSteps

-----------------------------------------------------------------------------
(* What the steps of the system do to the rows and to the bodies.            *)

\* A row changes by a call that is in flight, which writes what it was asked to write.
LEMMA RowWritten ==
    ASSUME QueueTypes, [Next]_asyncVars, NEW e \in Executions, primary'[e] # primary[e]
    PROVE  \E c \in Callers :
              /\ InFlight(c) /\ call[c].exec = e /\ primary'[e] = call[c].new
              /\ Updates(c) => ~Wrote(c)
              /\ ~Updates(c) => primary[e] = Absent
<1>1. PICK c \in Callers : CallStep(c) \/ StorageFault(c)
    <2>1. [StoreNext]_storeVars
        BY NextRefines DEF QueueTypes
    <2> QED BY <2>1 DEF StoreNext, storeVars, BeginCreate, BeginUpdate, Begin, AbandonCall
<1> QED BY <1>1, CallMoves DEF QueueTypes

\* Where a worker has not yet left its monitoring loop.
Early(w) == pc[w] \in {"checking", "starting", "monitoring"}

\* Messages are not forgotten, only a delivery gives a worker something to run, and only a
\* worker that leaves its loop leaves a body behind.
BodiesMove ==
    /\ \A e \in Executions : msg[e] # "none" => msg'[e] # "none"
    /\ \A e \in Executions : dequeues'[e] \in {dequeues[e], dequeues[e] + 1}
    /\ \A w \in Workers : Early(w)' =>
          \/ Early(w) /\ exec'[w] = exec[w]
          \/ exec'[w] \in Executions /\ dequeues'[exec'[w]] = dequeues[exec'[w]] + 1
    /\ \A t \in orphans' \ orphans : \E w \in Workers :
          /\ t = <<w, exec[w]>> /\ task[w] = "running" /\ ~Early(w)'
          /\ \A v \in Workers \ {w} : (Early(v)' => Early(v)) /\ exec'[v] = exec[v]

LEMMA WorkerMovesBodies ==
    ASSUME QueueTypes, ProcessesInv, NEW w \in Workers,
           (\E e \in Executions : Dequeue(w, e)) \/ WorkerStep(w) \/ TaskEnds(w) \/ ReadFails(w)
    PROVE  BodiesMove
<1>1. /\ w \in Callers /\ Workers \subseteq Callers
      /\ pc \in [Callers -> Steps] /\ exec \in [Callers -> Executions \cup {NoExecution}]
      /\ msg \in [Executions -> MessageStates] /\ dequeues \in [Executions -> 0..MaxDequeue]
      /\ MaxDequeue \in Nat /\ TypeOK
    BY RolesApart, BoundsAssumption DEF QueueTypes, TypeOK
<1>2. \A e \in Executions : dequeues[e] \in Nat
    BY <1>1
<1>3. ASSUME NEW e \in Executions, Dequeue(w, e) PROVE BodiesMove
    <2>1. /\ msg' = [msg EXCEPT ![e] = "leased"] /\ dequeues' = [dequeues EXCEPT ![e] = @ + 1]
          /\ exec' = [exec EXCEPT ![w] = e] /\ orphans' = orphans
          /\ \A v \in Workers \ {w} : pc'[v] = pc[v]
        BY <1>1, <1>3 DEF Dequeue, taskVars, MoveTo
    <2> QED BY <1>1, <1>2, <2>1 DEF BodiesMove, Early
\* A step that delivers nothing and leaves nothing behind.
<1>4. ASSUME \/ exec' = [exec EXCEPT ![w] = NoExecution] /\ ~Early(w)'
             \/ exec' = exec /\ (Early(w)' => Early(w)),
             \A v \in Callers \ {w} : pc'[v] = pc[v], dequeues' = dequeues,
             \A e \in Executions : msg[e] # "none" => msg'[e] # "none",
             \A t \in orphans' \ orphans : t = <<w, exec[w]>> /\ task[w] = "running" /\ ~Early(w)'
      PROVE  BodiesMove
    <2>1. \A v \in Workers \ {w} : (Early(v)' => Early(v)) /\ exec'[v] = exec[v]
        BY <1>1, <1>4 DEF Early
    <2> QED BY <1>1, <1>2, <1>4, <2>1 DEF BodiesMove
<1>5. CASE CheckCancelled(w) \/ LoadFails(w) \/ NotFoundRaises(w) \/ Except(w) \/ RecordResult(w)
    <2>1. /\ exec' = exec /\ orphans' = orphans /\ UNCHANGED queueVars
          /\ \E next \in EndingSteps \cup {"starting"} :
                /\ next = "starting" => pc[w] = "checking"
                /\ pc' = [pc EXCEPT ![w] = next]
        BY <1>5 DEF CheckCancelled, LoadFails, NotFoundRaises, Except, RecordResult, UpdateAt,
                    taskVars, EndingSteps
    <2> QED BY <1>1, <1>4, <2>1 DEF queueVars, Early, EndingSteps
<1>6. CASE PollEnds(w) \/ ReadFails(w)
    <2>1. /\ exec' = exec /\ UNCHANGED queueVars
          /\ \E next \in EndingSteps : pc' = [pc EXCEPT ![w] = next]
          /\ \A t \in orphans' \ orphans : t = <<w, exec[w]>> /\ task[w] = "running"
        BY <1>6 DEF PollEnds, ReadFails, UpdateAt, Orphaned, EndingSteps
    <2> QED BY <1>1, <1>4, <2>1 DEF queueVars, Early, EndingSteps
<1>7. CASE StartTask(w) \/ TaskEnds(w)
    <2>1. /\ exec' = exec /\ orphans' = orphans /\ UNCHANGED queueVars
          /\ pc' = pc \/ (pc[w] = "starting" /\ pc' = [pc EXCEPT ![w] = "monitoring"])
        BY <1>7 DEF StartTask, TaskEnds, MoveTo
    <2> QED BY <1>1, <1>4, <2>1 DEF queueVars, Early
<1>8. CASE Acknowledge(w) \/ Release(w)
    <2>1. /\ exec' = [exec EXCEPT ![w] = NoExecution] /\ pc' = [pc EXCEPT ![w] = "idle"]
          /\ UNCHANGED <<orphans, dequeues>>
          /\ \E m \in {"deleted", "visible", "poison"} : msg' = [msg EXCEPT ![exec[w]] = m]
        BY <1>8 DEF Acknowledge, Release, PutBack, EndAt, MoveTo, taskVars
    <2> QED BY <1>1, <1>4, <2>1 DEF Early
<1> QED BY <1>3, <1>5, <1>6, <1>7, <1>8 DEF WorkerStep

LEMMA NextMovesBodies == QueueTypes /\ ProcessesInv /\ [Next]_asyncVars => BodiesMove
<1> SUFFICES ASSUME QueueTypes, ProcessesInv, [Next]_asyncVars PROVE BodiesMove
    OBVIOUS
<1>1. /\ Workers \subseteq Callers
      /\ pc \in [Callers -> Steps] /\ exec \in [Callers -> Executions \cup {NoExecution}]
      /\ msg \in [Executions -> MessageStates]
      /\ \A e \in Executions : dequeues[e] \in Nat
    BY RolesApart, BoundsAssumption DEF QueueTypes, TypeOK
<1>2. ASSUME \A w \in Workers : (Early(w)' => Early(w) /\ exec'[w] = exec[w]),
             dequeues' = dequeues, orphans' \subseteq orphans,
             msg' = msg \/ \E e \in Executions \cup {NoExecution}, m \in MessageStates \ {"none"} :
                               msg' = [msg EXCEPT ![e] = m]
      PROVE  BodiesMove
    BY <1>1, <1>2 DEF BodiesMove
<1>3. ASSUME NEW r \in Requests,
             \/ \E e \in Executions : SubmitRun(r, e)
             \/ RequestStep(r) \/ SyncEnd(r) \/ SendFails(r)
      PROVE  BodiesMove
    <2>1. /\ \E f : exec' = exec \/ exec' = [exec EXCEPT ![r] = f]
          /\ \E s : pc' = [pc EXCEPT ![r] = s]
          /\ UNCHANGED <<dequeues, orphans>>
          /\ msg' = msg \/ msg' = [msg EXCEPT ![exec[r]] = "visible"]
        BY <1>3
           DEF SubmitRun, RequestStep, MarkPending, SendMessage, SendFails, EnqueueRaises, SyncStart,
               SyncEnd, SyncRaises, SyncAnswer, UpdateAt, MoveTo, EndAt, taskVars, queueVars
    <2> QED BY <1>1, <1>2, <2>1, RolesApart DEF Early, MessageStates
<1>4. ASSUME NEW p \in PoisonHandlers, (\E e \in Executions : Bury(p, e)) \/ Buried(p)
      PROVE  BodiesMove
    <2>1. /\ \E f : exec' = [exec EXCEPT ![p] = f]
          /\ \E s : pc' = [pc EXCEPT ![p] = s]
          /\ UNCHANGED <<dequeues, orphans>>
          /\ \E e \in Executions \cup {exec[p]}, m \in {"poisonLeased", "deleted"} :
                msg' = [msg EXCEPT ![e] = m]
        BY <1>4 DEF Bury, Buried, MoveTo, EndAt, taskVars
    <2> QED BY <1>1, <1>2, <2>1, RolesApart DEF Early, MessageStates
<1>5. ASSUME NEW k \in Cancellers,
             \/ \E e \in Executions : Cancel(k, e) \/ CancelNotFound(k, e) \/ CancelRefused(k, e)
             \/ CancelAnswer(k)
      PROVE  BodiesMove
    <2>1. /\ \E f : exec' = exec \/ exec' = [exec EXCEPT ![k] = f]
          /\ \E s : pc' = [pc EXCEPT ![k] = s]
          /\ UNCHANGED <<msg, dequeues, orphans>>
        BY <1>5 DEF Cancel, CancelNotFound, CancelRefused, CancelAnswer, MoveTo, EndAt, taskVars,
                    queueVars
    <2> QED BY <1>1, <1>2, <2>1, RolesApart DEF Early
<1>6. ASSUME NEW c \in Cleaners, StartCleanup(c) \/ CleanerStep(c) \/ ScanFails(c)
      PROVE  BodiesMove
    <2>1. /\ \E f : exec' = exec \/ exec' = [exec EXCEPT ![c] = f]
          /\ \E s : pc' = pc \/ pc' = [pc EXCEPT ![c] = s]
          /\ UNCHANGED <<msg, dequeues, orphans>>
        BY <1>6 DEF StartCleanup, CleanerStep, Scan, NextScan, CleanNext, CleanupEnds, ScanFails,
                    MoveTo, EndAt, taskVars, queueVars
    <2> QED BY <1>1, <1>2, <2>1, RolesApart DEF Early
<1>7. ASSUME NEW c \in Callers, RepositoryStep(c) \/ RepositoryFault(c) PROVE BodiesMove
    BY <1>2, <1>7 DEF RepositoryStep, RepositoryFault, taskVars, queueVars, Early
<1>8. ASSUME NEW c \in Callers, Crash(c) PROVE BodiesMove
    <2>1. /\ exec' = [exec EXCEPT ![c] = NoExecution]
          /\ \E s \in RestingSteps : pc' = [pc EXCEPT ![c] = s]
          /\ dequeues' = dequeues /\ orphans' \subseteq orphans
          /\ \/ msg' = msg
             \/ \E m \in {"visible", "poison"} : msg' = [msg EXCEPT ![exec[c]] = m]
        BY <1>8 DEF Crash, PutBack, RestingSteps
    <2> QED BY <1>1, <1>2, <2>1 DEF Early, MessageStates, RestingSteps
<1>9. CASE (\E t \in orphans : OrphanEnds(t)) \/ Tick \/ UNCHANGED asyncVars
    BY <1>2, <1>9 DEF OrphanEnds, Tick, asyncVars, taskVars, queueVars, Early
<1> QED BY <1>3, <1>4, <1>5, <1>6, <1>7, <1>8, <1>9, WorkerMovesBodies DEF Next

\* A body that nobody awaits belongs to a message, its record was once shown running, and
\* whoever holds that message got it by another delivery.
BodyInv(t) ==
    /\ msg[t[2]] # "none" /\ dequeues[t[2]] >= 1
    /\ primary[t[2]] \notin {Absent, "Pending"}
    /\ \A w \in Workers : Early(w) /\ exec[w] = t[2] => dequeues[t[2]] >= 2

BodiesInv == \A t \in orphans : BodyInv(t)

LEMMA NextBodies ==
    QueueTypes /\ ProcessesInv /\ BodiesInv /\ [Next]_asyncVars => BodiesInv'
<1> SUFFICES ASSUME QueueTypes, ProcessesInv, BodiesInv, [Next]_asyncVars, NEW t \in orphans'
             PROVE  BodyInv(t)'
    BY DEF BodiesInv
<1>1. /\ BodiesMove /\ orphans \subseteq Workers \X Executions
      /\ \A e \in Executions : dequeues[e] \in Nat
    BY NextMovesBodies, BoundsAssumption DEF QueueTypes, TypeOK
\* What is shown stays shown: only a request writes Pending, before it queues the message.
<1>2. ASSUME NEW e \in Executions, msg[e] # "none", primary[e] \notin {Absent, "Pending"}
      PROVE  primary'[e] \notin {Absent, "Pending"}
    <2> SUFFICES ASSUME primary'[e] # primary[e] PROVE primary'[e] \notin {Absent, "Pending"}
        BY <1>2
    <2>1. PICK c \in Callers :
              /\ InFlight(c) /\ call[c].exec = e /\ primary'[e] = call[c].new /\ Updates(c)
        BY <1>2, RowWritten
    <2>2. ProcessInv(c)
        BY DEF ProcessesInv
    <2>3. CASE c \in Requests
        BY <1>2, <2>1, <2>2, <2>3 DEF ProcessInv, RequestInv
    <2>4. CASE c \in Workers \cup PoisonHandlers
        BY <2>1, <2>2, <2>4 DEF ProcessInv, WorkerInv, PoisonInv, FinalStatuses, Absent
    <2>5. CASE c \in Cancellers \cup Cleaners
        BY <2>1, <2>5, OnlyCancelsAndCleanups DEF Absent
    <2> QED BY <2>3, <2>4, <2>5, RolesApart
<1>3. CASE t \in orphans
    <2>1. t[2] \in Executions /\ BodyInv(t)
        BY <1>1, <1>3 DEF BodiesInv
    <2>2. /\ msg'[t[2]] # "none" /\ dequeues'[t[2]] \in {dequeues[t[2]], dequeues[t[2]] + 1}
          /\ primary'[t[2]] \notin {Absent, "Pending"}
        BY <1>1, <1>2, <2>1 DEF BodyInv, BodiesMove
    <2>3. dequeues[t[2]] \in Nat /\ dequeues[t[2]] >= 1 /\ dequeues'[t[2]] >= 1
        BY <1>1, <2>1, <2>2 DEF BodyInv
    <2>4. ASSUME NEW w \in Workers, Early(w)', exec'[w] = t[2] PROVE dequeues'[t[2]] >= 2
        BY <1>1, <2>1, <2>2, <2>3, <2>4 DEF BodyInv, BodiesMove
    <2> QED BY <2>2, <2>3, <2>4 DEF BodyInv
<1>4. CASE t \notin orphans
    <2>1. PICK w \in Workers :
              /\ t = <<w, exec[w]>> /\ task[w] = "running" /\ ~Early(w)'
              /\ \A v \in Workers \ {w} : (Early(v)' => Early(v)) /\ exec'[v] = exec[v]
        BY <1>1, <1>4 DEF BodiesMove
    <2>2. /\ pc[w] = "monitoring" /\ Busy(w) /\ msg[exec[w]] = "leased" /\ ShownRunning(exec[w])
          /\ exec[w] \in Executions
        BY <2>1, RolesApart
           DEF ProcessesInv, ProcessInv, WorkerInv, Busy, RestingSteps, QueueTypes, ExecInv
    <2>3. /\ msg'[exec[w]] # "none" /\ primary'[exec[w]] \notin {Absent, "Pending"}
        BY <1>1, <1>2, <2>2 DEF BodiesMove, ShownRunning, Absent
    <2>4. dequeues[exec[w]] >= 1 /\ dequeues'[exec[w]] >= 1
        BY <1>1, <2>2 DEF ProcessesInv, MessageInv, BodiesMove
    <2>5. ASSUME NEW v \in Workers, Early(v)' PROVE exec'[v] # exec[w]
        <3>1. v # w /\ Early(v) /\ exec'[v] = exec[v]
            BY <2>1, <2>5
        <3> QED BY <2>2, <3>1 DEF ProcessesInv, SoleOwner, Owners, Busy, Early, RestingSteps
    <2> QED BY <2>1, <2>3, <2>4, <2>5 DEF BodyInv
<1> QED BY <1>3, <1>4

-----------------------------------------------------------------------------
(* What is proved of the queue.                                              *)

\* The inductive invariant of the composed system.
THEOREM QueueInvariant == Spec => [](QueueTypes /\ ProcessesInv /\ BodiesInv)
<1>1. Init => QueueTypes /\ ProcessesInv /\ BodiesInv
    BY InitTypes, InitProcesses, InitExecInv, StoreInitInv DEF Init, QueueTypes, BodiesInv
<1>2. (QueueTypes /\ ProcessesInv /\ BodiesInv) /\ [Next]_asyncVars
         => (QueueTypes /\ ProcessesInv /\ BodiesInv)'
    <2> SUFFICES ASSUME QueueTypes, ProcessesInv, BodiesInv, [Next]_asyncVars
                 PROVE  QueueTypes' /\ ProcessesInv' /\ BodiesInv'
        OBVIOUS
    <2>1. ExecInv' /\ StoreInv'
        BY NextRefines, NextExecInv, StoreNextInv DEF QueueTypes, StoreInv
    <2> QED BY <2>1, NextTypes, NextProcesses, NextBodies DEF QueueTypes
<1> QED BY <1>1, <1>2, PTL DEF Spec

\* Every variable keeps its type, and every message is delivered MaxDequeue times at most.
THEOREM QueueTypeCorrect == Spec => []TypeOK
BY QueueInvariant, PTL DEF QueueTypes

\* What left the queue is decided for good: whatever requests, workers, cancels and cleanups
\* overlap, die or are redelivered, if no update of a poison handler can fail.
THEOREM AcknowledgedIsDecidedAlways ==
    ASSUME PoisonReliable PROVE Spec => []QueueInv
<1>1. QueueTypes /\ ProcessesInv => QueueInv
    BY DEF QueueTypes, ProcessesInv, MessageInv, Decided, QueueInv, AcknowledgedIsDecided
<1> QED BY <1>1, QueueInvariant, PTL

\* The body that a worker watches runs under a record that says so or that a cleanup gave up,
\* and a body that outlived its watch is never shown as not yet started and is joined by a
\* second one only after another delivery of the message.
THEOREM RunsVisiblyAlways == Spec => []RunsVisibly
<1>1. QueueTypes /\ ProcessesInv /\ BodiesInv => RunsVisibly
    <2> SUFFICES ASSUME QueueTypes, ProcessesInv, BodiesInv PROVE RunsVisibly
        OBVIOUS
    <2>1. \A w \in Workers : task[w] = "running" => pc[w] = "monitoring" /\ ShownRunning(exec[w])
        BY RolesApart DEF ProcessesInv, ProcessInv, WorkerInv
    <2>2. \A t \in orphans : dequeues[t[2]] \in Nat
        BY BoundsAssumption DEF QueueTypes, TypeOK
    <2> QED BY <2>1, <2>2 DEF RunsVisibly, BodiesInv, BodyInv, Early
<1> QED BY <1>1, QueueInvariant, PTL

\* A cancel is undone only by a call that overlaps it or by the request that is still enqueuing
\* the execution.
THEOREM CancelHoldsAlways == Spec => CancelHolds
<1>1. QueueTypes /\ ProcessesInv /\ [Next]_asyncVars =>
         \A e \in Executions :
            primary[e] = "Cancelling" /\ primary'[e] \in {"Pending", "Running"} =>
                \/ e \in disturbed
                \/ \E r \in Requests : pc[r] = "queueing" /\ exec[r] = e
    <2> SUFFICES ASSUME QueueTypes, ProcessesInv, [Next]_asyncVars, NEW e \in Executions,
                        primary[e] = "Cancelling", primary'[e] \in {"Pending", "Running"},
                        e \notin disturbed
                 PROVE  \E r \in Requests : pc[r] = "queueing" /\ exec[r] = e
        OBVIOUS
    <2>1. PICK c \in Callers :
              /\ InFlight(c) /\ call[c].exec = e /\ primary'[e] = call[c].new
              /\ Updates(c) /\ ~Wrote(c)
        BY RowWritten DEF Absent
    <2>2. ProcessInv(c)
        BY DEF ProcessesInv
    <2>3. CASE c \in Requests
        BY <2>1, <2>2, <2>3 DEF ProcessInv, RequestInv, FinalStatuses
    <2>4. CASE c \in Workers
        BY <2>1, <2>2, <2>4 DEF ProcessInv, WorkerInv, FinalStatuses
    <2>5. CASE c \in PoisonHandlers
        BY <2>1, <2>2, <2>5 DEF ProcessInv, PoisonInv
    <2>6. CASE c \in Cancellers \cup Cleaners
        BY <2>1, <2>6, OnlyCancelsAndCleanups
    <2> QED BY <2>3, <2>4, <2>5, <2>6, RolesApart
<1> QED BY <1>1, QueueInvariant, PTL DEF Spec, CancelHolds

\* Only the worker that starts its message again, the request that is still enqueuing it and
\* calls that overlapped reopen a final execution.
THEOREM FinalStaysAlways == Spec => FinalStays
<1> DEFINE Reopens(e) ==
        primary[e] \in FinalStatuses /\ primary'[e] \notin FinalStatuses =>
            \/ e \in disturbed
            \/ \E w \in Workers : pc[w] = "starting" /\ exec[w] = e
            \/ \E r \in Requests : pc[r] = "queueing" /\ exec[r] = e
<1>1. QueueTypes /\ ProcessesInv /\ [Next]_asyncVars => \A e \in Executions : Reopens(e)
    <2> SUFFICES ASSUME QueueTypes, ProcessesInv, [Next]_asyncVars, NEW e \in Executions,
                        primary[e] \in FinalStatuses, primary'[e] \notin FinalStatuses,
                        e \notin disturbed
                 PROVE  \/ \E w \in Workers : pc[w] = "starting" /\ exec[w] = e
                        \/ \E r \in Requests : pc[r] = "queueing" /\ exec[r] = e
        OBVIOUS
    <2>1. PICK c \in Callers :
              /\ InFlight(c) /\ call[c].exec = e /\ primary'[e] = call[c].new
              /\ Updates(c) /\ ~Wrote(c)
        BY RowWritten DEF Absent, FinalStatuses
    <2>2. ProcessInv(c)
        BY DEF ProcessesInv
    <2>3. CASE c \in Requests
        BY <2>1, <2>2, <2>3 DEF ProcessInv, RequestInv
    <2>4. CASE c \in Workers
        BY <2>1, <2>2, <2>4 DEF ProcessInv, WorkerInv
    <2>5. CASE c \in PoisonHandlers
        BY <2>1, <2>2, <2>5 DEF ProcessInv, PoisonInv, FinalStatuses
    <2>6. CASE c \in Cancellers
        BY <2>1, <2>2, <2>6 DEF ProcessInv, CancellerInv
    <2>7. CASE c \in Cleaners
        BY <2>1, <2>7, OnlyCancelsAndCleanups DEF FinalStatuses
    <2> QED BY <2>3, <2>4, <2>5, <2>6, <2>7, RolesApart
<1> QED BY <1>1, QueueInvariant, PTL DEF Spec, FinalStays

-----------------------------------------------------------------------------
(* ExecutionResults.  The inductive invariant ResultsInv has, besides types   *)
(* and StoreInv:                                                             *)
(*   SuccessInv  how the logger's call of a caller and its call of the       *)
(*               repository belong together, and that no row says Success    *)
(*               before a run has ended;                                     *)
(*   RunsInv     of an execution for which at most one run was handed in:    *)
(*               row, blobs, open calls and readers hold nothing but that    *)
(*               run's, and all of it once the row says Success;             *)
(*   ListingInv  how far a listing has come, and that it has shown each row  *)
(*               that it was to show up to there once.                       *)

\* What row and blobs of e hold while no result but that of run was handed in.
OnlyOf(e, run) ==
    /\ inline[e] \in {run, NoRun}
    /\ inline[e] = run => run \notin Large \cup Empty
    /\ inBlob[e] => run \in Large
    /\ \A k \in FileKinds : blob[e][k] # NoRun => /\ run \in Large /\ k = FileOf[run]
                                                 /\ blob[e][k] = run
    /\ blob[e]["variables"] # NoRun => run \in Captured /\ blob[e]["variables"] = run

Uploaded(e, run) ==
    /\ run \in Large => blob[e][FileOf[run]] = run
    /\ run \in Captured => blob[e]["variables"] = run

Complete(e, run) == Uploaded(e, run) /\ (run \notin Large \cup Empty => inline[e] = run)

\* What c's call of the logger has done for run, or it writes a status alone.
RecordFits(c, run) ==
    LET t == record[c] IN
    /\ t.read \in {run, NoRun}
    /\ t.read = run => run \notin Large \cup Empty
    /\ \/ /\ t.run = NoRun /\ t.status # "Success" /\ t.inline = NoRun /\ ~t.toBlob
          /\ t.step = "row"
       \/ /\ t.run = run /\ t.status = "Success" /\ t.toBlob = (run \in Large)
          /\ t.inline = IF run \in Large THEN NoRun ELSE run
          /\ t.step = "upload" => run \in Large
          /\ t.step = "variables" => run \in Captured
          /\ t.step \in {"variables", "row"} /\ run \in Large => blob[t.exec][FileOf[run]] = run
          /\ t.step = "row" /\ run \in Captured => blob[t.exec]["variables"] = run

\* The kinds of files at which a reader at step k has looked.
LookedAt(k) == CASE k = "html" -> {"json"} [] k = "txt" -> {"json", "html"}
                 [] k = "done" -> FileKinds [] OTHER -> {}

ShownOf(run, lost) == IF run \in Captured /\ "variables" \notin lost THEN run ELSE NoRun

\* What a reader who saw the success has found so far.
ReadingFits(r, run) ==
    LET x == reading[r] IN
    /\ Complete(x.exec, run)
    /\ x.step = "variables" => /\ x.result = IF run \in Large THEN NoRun ELSE Visible(run)
                               /\ x.lost = {} /\ x.variables = NoRun
    /\ x.step \in FileKinds => /\ x.result = NoRun /\ run \in Large \cup Empty
                               /\ run \in Large => FileOf[run] \notin LookedAt(x.step) \ x.lost
    /\ x.step = "done" => \/ x.result = Visible(run)
                          \/ run \in Large /\ FileOf[run] \in x.lost /\ x.result = NoRun
    /\ x.step # "variables" /\ x.all => x.variables = ShownOf(run, x.lost)

\* All that holds of e while no result but that of run was handed in for it.
RunFits(e, run) ==
    /\ OnlyOf(e, run)
    /\ \A c \in Callers : record[c].step # "none" /\ record[c].exec = e => RecordFits(c, run)
    /\ primary[e] = "Success" => Complete(e, run)
    /\ \A r \in Readers : /\ reading[r].step # "idle" /\ reading[r].exec = e
                          /\ reading[r].status = "Success"
                          => ReadingFits(r, run)

RunsInv == \A e \in Executions, run \in Runs : ended[e] \subseteq {run} => RunFits(e, run)

\* How the logger's call of c and its call of the repository belong together.
Paired(c) ==
    LET t == record[c] IN
    /\ t.step = "none" => t = NoRecord
    /\ InFlight(c) => \/ call[c].step \in {"insertPrimary", "insertIndexes"} /\ t = NoRecord
                      \/ /\ call[c].step \notin {"insertPrimary", "insertIndexes"}
                         /\ t.step = "row" /\ call[c].exec = t.exec /\ call[c].new = t.status
    /\ t.step # "none" => t.exec \in Executions /\ t.status \in Writable
    /\ t.run # NoRun => t.run \in ended[t.exec]
    /\ t.step \in {"upload", "variables"} \/ t.status = "Success" \/ t.toBlob => t.run # NoRun
    /\ t.step \in {"variables", "row"} /\ t.toBlob => blob[t.exec][FileOf[t.run]] # NoRun

SuccessInv ==
    /\ \A c \in Callers : Paired(c)
    /\ \A e \in Executions : primary[e] = "Success" => ended[e] # {}
    /\ \A r \in Readers : reading[r].step # "idle" => 
          reading[r].exec \in Executions /\ (reading[r].status = "Success" => ended[reading[r].exec] # {})

ListingFits(r) ==
    LET l == listing[r] IN
    /\ setting.readers = "list"
    /\ l.steady \subseteq Matching[l.rows][l.filter]
    /\ \A e \in Executions : /\ l.listed[e] <= 1
                             /\ l.listed[e] > 0 => e <= l.after
                             /\ e \in l.steady /\ e <= l.after => l.listed[e] = 1
    /\ l.step = "done" => \A e \in l.steady : e <= l.after

ListingInv == \A r \in Readers : listing[r].step # "idle" => ListingFits(r)

ResultsTypes ==
    /\ setting \in Settings
    /\ inline \in [Executions -> MaybeRun] /\ inBlob \in [Executions -> BOOLEAN]
    /\ blob \in [Executions -> [Blobs -> MaybeRun]]
    /\ record \in [Callers -> Record]
    /\ ended \in [Executions -> SUBSET Runs]
    /\ reading \in [Readers -> Reading]
    /\ listing \in [Readers -> Listing]

-----------------------------------------------------------------------------
(* The callers of the logger use the repository as StoreNext allows.         *)

USE DEF InFlight, InFlightSteps, RestSteps, StoredStatus, ExecutionStatus,
        ActiveStatuses, FinalStatuses, Absent, CallAt, NoCall

\* A request of a reader.
Reads(r) ==
    \/ ReadRow(r) \/ ReadVariables(r) \/ VariablesLost(r) \/ ReadBlob(r) \/ BlobLost(r)

\* Reading and listing change nothing else.
LEMMA ReadersOnlyRead ==
    ASSUME NEW r \in Readers,
           Reads(r) \/ BeginListing(r) \/ Page(r)
    PROVE  UNCHANGED <<storeVars, setting, resultVars, record>>
<1>1. CASE ReadRow(r)
    BY <1>1 DEF ReadRow
<1>2. CASE ReadVariables(r)
    BY <1>2 DEF ReadVariables
<1>3. CASE VariablesLost(r)
    BY <1>3 DEF VariablesLost
<1>4. CASE ReadBlob(r)
    BY <1>4 DEF ReadBlob
<1>5. CASE BlobLost(r)
    BY <1>5 DEF BlobLost
<1>6. CASE BeginListing(r)
    BY <1>6 DEF BeginListing
<1>7. CASE Page(r)
    BY <1>7 DEF Page
<1> QED BY <1>1, <1>2, <1>3, <1>4, <1>5, <1>6, <1>7 DEF Reads

\* The steps of the logger's calls, and those of the readers.
Logs(c) ==
    \/ \E e \in setting.executions : Create(c, e)
    \/ \E e \in setting.executions, run \in setting.runs : RecordRun(c, e, run)
    \/ \E e \in setting.executions, s \in setting.statuses : RecordStatus(c, e, s)
    \/ UploadResult(c) \/ UploadVariables(c) \/ UploadFails(c) \/ CallUpdate(c)
    \/ ReadForUpdate(c) \/ WriteResult(c) \/ WriteRow(c) \/ RowFault(c) \/ Abandon(c)

LEMMA ResultsSteps ==
    ASSUME [ResultsNext]_allVars, ResultsTypes
    PROVE  \/ UNCHANGED allVars
           \/ \E c \in Callers : Logs(c)
           \/ \E r \in Readers : Reads(r) \/ BeginListing(r) \/ Page(r)
<1>1. setting.callers \subseteq Callers
    BY ResultsAssumption DEF ResultsTypes, Setting
<1> QED BY <1>1 DEF ResultsNext, Logs, Reads

\* What the logger's calls leave alone.
LEMMA LogsStoreOnly ==
    ASSUME NEW c \in Callers, Logs(c)
    PROVE  /\ UNCHANGED <<setting, reading>>
           /\ UNCHANGED ended \/ \E e \in setting.executions, run \in setting.runs : RecordRun(c, e, run)
           /\ UNCHANGED blob \/ UploadResult(c) \/ UploadVariables(c)
           /\ UNCHANGED <<inline, inBlob>> \/ WriteResult(c)
<1>1. CASE \E e \in setting.executions : Create(c, e)
    BY <1>1 DEF Create, resultVars
<1>2. CASE \E e \in setting.executions, run \in setting.runs : RecordRun(c, e, run)
    BY <1>2 DEF RecordRun
<1>3. CASE \E e \in setting.executions, s \in setting.statuses : RecordStatus(c, e, s)
    BY <1>3 DEF RecordStatus, resultVars
<1>4. CASE UploadResult(c)
    BY <1>4 DEF UploadResult
<1>5. CASE UploadVariables(c)
    BY <1>5 DEF UploadVariables
<1>6. CASE UploadFails(c)
    BY <1>6 DEF UploadFails, resultVars
<1>7. CASE CallUpdate(c)
    BY <1>7 DEF CallUpdate, resultVars
<1>8. CASE ReadForUpdate(c)
    BY <1>8 DEF ReadForUpdate, resultVars
<1>9. CASE WriteResult(c)
    BY <1>9 DEF WriteResult
<1>10. CASE WriteRow(c)
    BY <1>10 DEF WriteRow, resultVars
<1>11. CASE RowFault(c)
    BY <1>11 DEF RowFault, resultVars
<1>12. CASE Abandon(c)
    BY <1>12 DEF Abandon, resultVars
<1> QED
    BY <1>1, <1>2, <1>3, <1>4, <1>5, <1>6, <1>7, <1>8, <1>9, <1>10, <1>11, <1>12 DEF Logs

\* The callers here use the repository as its specification says callers may.
LEMMA ResultsStepIsStoreStep ==
    SuccessInv /\ ResultsTypes /\ [ResultsNext]_allVars => [StoreNext]_storeVars
<1> SUFFICES ASSUME SuccessInv, ResultsTypes, ResultsNext PROVE [StoreNext]_storeVars
    BY DEF allVars, storeVars
<1>1. ASSUME NEW c \in Callers, NEW e \in setting.executions, Create(c, e) PROVE StoreNext
    BY <1>1, ResultsAssumption DEF ResultsTypes, Setting, Create, StoreNext
<1>2. ASSUME NEW c \in Callers, CallUpdate(c) PROVE StoreNext
    BY <1>2 DEF SuccessInv, Paired, CallUpdate, StoreNext
<1>3. ASSUME NEW c \in Callers,
             ReadForUpdate(c) \/ WriteResult(c) \/ WriteRow(c) \/ RowFault(c) \/ Abandon(c)
      PROVE  StoreNext
    BY <1>3 DEF ReadForUpdate, WriteResult, MergeRow, WriteRow, RowFault, Abandon, CallStep,
                StorageFault, StoreNext
<1>4. ASSUME NEW c \in Callers,
             \/ \E e \in setting.executions, run \in setting.runs : RecordRun(c, e, run)
             \/ \E e \in setting.executions, s \in setting.statuses : RecordStatus(c, e, s)
             \/ UploadResult(c) \/ UploadVariables(c) \/ UploadFails(c)
      PROVE  UNCHANGED storeVars
    BY <1>4 DEF RecordRun, RecordStatus, UploadResult, UploadVariables, UploadFails
<1>5. ASSUME NEW r \in Readers,
             Reads(r) \/ BeginListing(r) \/ Page(r)
      PROVE  UNCHANGED storeVars
    BY <1>5, ReadersOnlyRead
<1>6. setting.callers \subseteq Callers
    BY ResultsAssumption DEF ResultsTypes, Setting
<1> QED
    BY <1>1, <1>2, <1>3, <1>4, <1>5, <1>6 DEF ResultsNext, Reads

-----------------------------------------------------------------------------
(* Types. *)

LEMMA MatchingIsSet ==
    ASSUME NEW rows \in {"primary", "user"}, NEW filter \in StoredStatus
    PROVE  /\ Matching[rows][filter] = {e \in Executions : Matches(rows, filter, e)}
           /\ Matching'[rows][filter] = {e \in Executions : Matches(rows, filter, e)'}
BY DEF Matching, Matches, Listed

\* A finite set of numbers has an upper bound, and so a greatest element.
LEMMA FiniteIsBounded ==
    ASSUME NEW S \in SUBSET Nat, IsFiniteSet(S)
    PROVE  \E b \in Nat : \A x \in S : x <= b
<1> DEFINE Unbounded(T) == ~\E b \in Nat : \A x \in T : x <= b
           Sizes == {n \in Nat : \E T \in SUBSET S : Cardinality(T) = n /\ Unbounded(T)}
<1> SUFFICES ASSUME Unbounded(S) PROVE FALSE
    OBVIOUS
<1>1. \A T \in SUBSET S : IsFiniteSet(T) /\ Cardinality(T) \in Nat
    BY FS_Subset, FS_CardinalityType
<1>2. Sizes # {}
    BY <1>1
<1>3. PICK n \in Sizes : \A m \in Sizes : ~(m < n)
    <2>1. IsWellFoundedOn(OpToRel(<, Nat), Nat)
        BY NatLessThanWellFounded
    <2>2. Sizes \in SUBSET Nat
        OBVIOUS
    <2>3. PICK n \in Sizes : \A m \in Sizes : <<m, n>> \notin OpToRel(<, Nat)
        BY <2>1, <2>2, <1>2, WFMin
    <2> QED
        BY <2>3 DEF OpToRel
<1>4. PICK T \in SUBSET S : Cardinality(T) = n /\ Unbounded(T)
    OBVIOUS
<1>5. PICK x \in T : TRUE
    BY <1>4
<1>6. Cardinality(T \ {x}) = n - 1 /\ n # 0
    BY <1>1, <1>4, <1>5, FS_RemoveElement, FS_EmptySet
<1>7. ~Unbounded(T \ {x})
    <2>1. T \ {x} \in SUBSET S /\ n - 1 \in Nat /\ n - 1 < n
        BY <1>6
    <2>2. n - 1 \notin Sizes
        BY <1>3, <2>1
    <2> QED
        BY <1>6, <2>1, <2>2
<1>8. PICK b \in Nat : \A y \in T \ {x} : y <= b
    BY <1>7
<1>9. x \in Nat
    OBVIOUS
<1>10. CASE x <= b
    BY <1>4, <1>8, <1>10
<1>11. CASE b <= x
    BY <1>4, <1>8, <1>9, <1>11
<1> QED
    BY <1>9, <1>10, <1>11

LEMMA MaxOfFinite ==
    ASSUME NEW S \in SUBSET Nat, IsFiniteSet(S), S # {}
    PROVE  Max(S) \in S /\ \A x \in S : x <= Max(S)
<1> DEFINE Bounds == {b \in Nat : \A x \in S : x <= b}
<1>1. Bounds # {}
    BY FiniteIsBounded
<1>2. PICK b \in Bounds : \A m \in Bounds : ~(m < b)
    <2>1. IsWellFoundedOn(OpToRel(<, Nat), Nat)
        BY NatLessThanWellFounded
    <2>2. PICK b \in Bounds : \A m \in Bounds : <<m, b>> \notin OpToRel(<, Nat)
        BY <2>1, <1>1, WFMin
    <2> QED
        BY <2>2 DEF OpToRel
<1>3. b \in S
    <2> SUFFICES ASSUME b \notin S PROVE FALSE
        OBVIOUS
    <2>1. PICK x \in S : x <= b
        OBVIOUS
    <2>3. b # 0
        BY <2>1
    <2>2. b - 1 \in Bounds
        BY <2>3
    <2> QED
        BY <1>2, <2>2
<1>4. \E x \in S : \A y \in S : x >= y
    BY <1>3
<1> QED
    BY <1>4 DEF Max

LEMMA ResultsInitTypes == ResultsInit => ResultsTypes
BY DEF ResultsInit, ResultsTypes, MaybeRun, Blobs, Record, NoRecord, Reading, NoReading, Listing,
       NoListing

SameButSteady(r) ==
    /\ listing'[r].step = listing[r].step /\ listing'[r].rows = listing[r].rows
    /\ listing'[r].filter = listing[r].filter /\ listing'[r].after = listing[r].after
    /\ listing'[r].listed = listing[r].listed

\* The bookkeeping of the listings changes only what is steady.
LEMMA ListingsGoOnMoves ==
    ASSUME ResultsTypes, ListingsGoOn
    PROVE  /\ listing' \in [Readers -> Listing]
           /\ \A r \in Readers :
                /\ SameButSteady(r)
                /\ setting.readers = "list" =>
                      listing'[r].steady = listing[r].steady \cap
                                             Matching'[listing[r].rows][listing[r].filter]
<1> USE DEF ResultsTypes
<1>1. CASE setting.readers = "list"
    <2>1. ASSUME NEW r \in Readers
          PROVE  /\ listing'[r] \in Listing
                 /\ SameButSteady(r)
                 /\ listing'[r].steady = listing[r].steady \cap
                                            Matching'[listing[r].rows][listing[r].filter]
        <3>1. listing[r] \in Listing
            OBVIOUS
        <3>2. listing'[r] = [listing[r] EXCEPT !.steady =
                  @ \cap Matching'[listing[r].rows][listing[r].filter]]
            BY <1>1 DEF ListingsGoOn
        <3> DEFINE l == listing[r]
                   X == Matching'[l.rows][l.filter]
        <3> HIDE DEF X
        <3>3. l.steady \cap X \in SUBSET Executions
            BY <3>1 DEF Listing
        <3>4. listing'[r] = [l EXCEPT !.steady = l.steady \cap X]
            BY <3>1, <3>2 DEF X
        <3>5. listing'[r] \in Listing /\ listing'[r].steady = l.steady \cap X
            BY <3>1, <3>3, <3>4 DEF Listing
        <3> QED
            BY <3>1, <3>4, <3>5 DEF Listing, SameButSteady, X
    <2>2. listing' = [r \in Readers |-> listing'[r]]
        BY <1>1 DEF ListingsGoOn
    <2> QED
        BY <2>1, <2>2
<1>2. CASE setting.readers # "list"
    BY <1>2 DEF ListingsGoOn, SameButSteady
<1> QED
    BY <1>1, <1>2

LEMMA ResultsNextTypes ==
    ASSUME ResultsTypes, SuccessInv, StoreTypeOK, [ResultsNext]_allVars
    PROVE  ResultsTypes'
<1> USE DEF ResultsTypes
<1>1. CASE UNCHANGED allVars
    BY <1>1 DEF allVars, resultVars
<1>2. ASSUME NEW r \in Readers, Reads(r)
      PROVE  ResultsTypes'
    <2>1. \A e \in Executions : primary[e] \in StoredStatus /\ InModel(e) \in MaybeRun
        BY DEF StoreTypeOK, InModel, MaybeRun
    <2>2. reading[r] \in Reading
        OBVIOUS
    <2>3. reading' \in [Readers -> Reading]
        <3>1. CASE ReadRow(r)
            <4>1. PICK e \in setting.executions, all \in BOOLEAN :
                      reading' = [reading EXCEPT ![r] =
                        [step |-> IF all THEN "variables" ELSE IF InModel(e) = NoRun THEN "json" ELSE "done",
                         exec |-> e, status |-> primary[e], all |-> all,
                         result |-> InModel(e), variables |-> NoRun, lost |-> {}]]
                BY <3>1 DEF ReadRow
            <4>2. e \in Executions
                BY ResultsAssumption DEF Setting
            <4> QED
                BY <2>1, <4>1, <4>2 DEF Reading, MaybeRun, FileKinds
        <3>2. CASE ReadVariables(r)
            <4>1. CASE reading[r].exec \in Executions
                BY <2>2, <3>2, <4>1 DEF ReadVariables, Reading, MaybeRun, Blobs, FileKinds
            <4>2. CASE reading[r].exec \notin Executions
                BY <3>2, <4>2 DEF ReadVariables, SuccessInv
            <4> QED BY <4>1, <4>2
        <3>3. CASE ReadBlob(r)
            <4>1. reading[r].exec \in Executions
                BY <3>3 DEF ReadBlob, SuccessInv, FileKinds
            <4>2. blob[reading[r].exec][reading[r].step] \in MaybeRun
                BY <3>3, <4>1 DEF ReadBlob, Blobs
            <4> QED
                BY <2>2, <3>3, <4>2 DEF ReadBlob, Reading, FileKinds, NextKind
        <3>4. CASE VariablesLost(r) \/ BlobLost(r)
            BY <2>2, <3>4 DEF VariablesLost, BlobLost, Reading, Blobs, FileKinds, NextKind
        <3> QED BY <1>2, <3>1, <3>2, <3>3, <3>4 DEF Reads
    <2> QED
        BY <1>2, <2>3 DEF Reads, ReadRow, ReadVariables, VariablesLost, ReadBlob, BlobLost, resultVars
<1>3. ASSUME NEW r \in Readers, BeginListing(r) PROVE ResultsTypes'
    <2>1. setting.statuses \cup {"Running", Absent} \subseteq StoredStatus
        BY ResultsAssumption, WritableAssumption DEF Setting
    <2>2. PICK rows \in {"primary", "user"}, filter \in StoredStatus :
              listing' = [listing EXCEPT ![r] = [NoListing EXCEPT
                  !.step = "paging", !.rows = rows, !.filter = filter,
                  !.steady = Matching[rows][filter]]]
        BY <1>3, <2>1 DEF BeginListing
    <2>3. Matching[rows][filter] \subseteq Executions
        BY MatchingIsSet
    <2>4. [NoListing EXCEPT !.step = "paging", !.rows = rows, !.filter = filter,
                            !.steady = Matching[rows][filter]] \in Listing
        BY <2>3 DEF NoListing, Listing
    <2> QED
        BY <1>3, <2>2, <2>4 DEF BeginListing, resultVars
<1>4. ASSUME NEW r \in Readers, Page(r) PROVE ResultsTypes'
    <2> DEFINE l == listing[r]
               page == PageOf(l)
    <2>1. l \in Listing
        OBVIOUS
    <2>2. page \subseteq Nat /\ IsFiniteSet(page)
        BY ResultsAssumption, FS_Subset DEF PageOf, RowsAfter
    <2>3. page # {} => Max(page) \in Nat
        BY <2>2, MaxOfFinite
    <2>4. Shown(l, page) \in [Executions -> Nat]
        BY <2>1 DEF Shown, Listing
    <2> HIDE DEF page
    <2>5. listing' = [listing EXCEPT ![r] = [l EXCEPT
              !.listed = Shown(l, page), !.after = IF page = {} THEN @ ELSE Max(page),
              !.step = IF page = RowsAfter(l) THEN "done" ELSE "paging"]]
        BY <1>4 DEF Page, page
    <2>6. [l EXCEPT !.listed = Shown(l, page), !.after = IF page = {} THEN @ ELSE Max(page),
                    !.step = IF page = RowsAfter(l) THEN "done" ELSE "paging"] \in Listing
        BY <2>1, <2>3, <2>4 DEF Listing
    <2> QED
        BY <1>4, <2>5, <2>6 DEF Page, resultVars
<1>5. ASSUME NEW c \in Callers, NEW e \in setting.executions, NEW run \in setting.runs,
             RecordRun(c, e, run)
      PROVE  ResultsTypes'
    <2>1. e \in Executions /\ run \in Runs
        BY ResultsAssumption DEF Setting
    <2> QED
        BY <1>5, <2>1, ListingsGoOnMoves DEF RecordRun, Record, MaybeRun
<1>6. ASSUME NEW c \in Callers, NEW e \in setting.executions, NEW s \in setting.statuses,
             RecordStatus(c, e, s)
      PROVE  ResultsTypes'
    <2>1. e \in Executions /\ s \in StoredStatus
        BY ResultsAssumption, WritableAssumption DEF Setting
    <2> QED
        BY <1>6, <2>1, ListingsGoOnMoves DEF RecordStatus, Record, MaybeRun, NoRecord, resultVars
<1>7. ASSUME NEW c \in Callers, UploadResult(c) \/ UploadVariables(c) PROVE ResultsTypes'
    <2> DEFINE t == record[c]
    <2>1. t \in Record /\ t.exec \in Executions /\ t.run \in Runs
        BY <1>7 DEF UploadResult, UploadVariables, SuccessInv, Paired, Record, MaybeRun
    <2>2. FileOf[t.run] \in Blobs
        BY <2>1, ResultsAssumption DEF Blobs
    <2>3. blob' \in [Executions -> [Blobs -> MaybeRun]]
        <3>1. PICK k \in Blobs : blob' = [blob EXCEPT ![t.exec][k] = t.run]
            BY <1>7, <2>2 DEF UploadResult, UploadVariables, Blobs
        <3> QED BY <2>1, <3>1 DEF MaybeRun
    <2>4. record' \in [Callers -> Record]
        <3>1. PICK step \in {"variables", "row"} : record' = [record EXCEPT ![c].step = step]
            BY <1>7 DEF UploadResult, UploadVariables
        <3> HIDE DEF t
        <3>2. [record[c] EXCEPT !.step = step] \in Record
            BY <2>1, <3>1 DEF Record, t
        <3> QED BY <2>1, <3>1, <3>2
    <2> QED
        BY <1>7, <2>3, <2>4, ListingsGoOnMoves DEF UploadResult, UploadVariables
<1>8. ASSUME NEW c \in Callers, UploadFails(c) PROVE ResultsTypes'
    BY <1>8, ListingsGoOnMoves DEF UploadFails, NoRecord, Record, MaybeRun, resultVars
<1>9. ASSUME NEW c \in Callers, NEW e \in Executions, Create(c, e) PROVE ResultsTypes'
    BY <1>9, ListingsGoOnMoves DEF Create, resultVars
<1>10. ASSUME NEW c \in Callers, CallUpdate(c) PROVE ResultsTypes'
    BY <1>10, ListingsGoOnMoves DEF CallUpdate, resultVars
<1>11. ASSUME NEW c \in Callers, ReadForUpdate(c) PROVE ResultsTypes'
    <2>1. call[c].exec \in Executions /\ inline[call[c].exec] \in MaybeRun
        BY <1>11 DEF ReadForUpdate, QueryPrimary, SuccessInv, Paired
    <2>2. record[c] \in Record
        OBVIOUS
    <2> QED
        BY <1>11, <2>1, <2>2, ListingsGoOnMoves DEF ReadForUpdate, Record, resultVars
<1>12. ASSUME NEW c \in Callers, RecordFollows(c) PROVE record' \in [Callers -> Record]
    BY <1>12 DEF RecordFollows, NoRecord, Record, MaybeRun
<1>13. ASSUME NEW c \in Callers, WriteResult(c) PROVE ResultsTypes'
    <2>1. record[c] \in Record
        OBVIOUS
    <2>2. inline' \in [Executions -> MaybeRun] /\ inBlob' \in [Executions -> BOOLEAN]
        BY <1>13, <2>1 DEF WriteResult, Record, MaybeRun
    <2> QED
        BY <1>13, <2>2, <1>12, ListingsGoOnMoves DEF WriteResult
<1>14. ASSUME NEW c \in Callers, WriteRow(c) \/ RowFault(c) PROVE ResultsTypes'
    BY <1>14, <1>12, ListingsGoOnMoves DEF WriteRow, RowFault, resultVars
<1>15. ASSUME NEW c \in Callers, Abandon(c) PROVE ResultsTypes'
    BY <1>15, ListingsGoOnMoves DEF Abandon, NoRecord, Record, MaybeRun, resultVars
<1>16. setting.callers \subseteq Callers /\ setting.executions \subseteq Executions
    BY ResultsAssumption DEF Setting
<1> QED
    BY <1>1, <1>2, <1>3, <1>4, <1>5, <1>6, <1>7, <1>8, <1>9, <1>10, <1>11, <1>13, <1>14, <1>15, <1>16
       DEF ResultsNext, Reads

-----------------------------------------------------------------------------
(* Calls of the logger and of the repository. *)

Creating(k) == k.step \in {"insertPrimary", "insertIndexes"}

\* A call of the repository ends, or goes on with what it was called for.
CallGoesOn(c) ==
    /\ InFlight(c) /\ call' = [call EXCEPT ![c] = call'[c]]
    /\ \/ call'[c].step \in RestSteps
       \/ /\ call'[c].step \in InFlightSteps
          /\ call'[c].exec = call[c].exec /\ call'[c].new = call[c].new
          /\ Creating(call'[c]) <=> Creating(call[c])

LEMMA RepositoryGoesOn ==
    ASSUME StoreTypeOK, NEW c \in Callers, CallStep(c) \/ StorageFault(c)
    PROVE  CallGoesOn(c)
<1> USE DEF StoreTypeOK, CallRecord, CallGoesOn, Creating
<1>1. CASE CallStep(c)
    BY <1>1 DEF CallStep, InsertPrimary, InsertPrimaryExists, InsertIndexes, QueryPrimary,
                QueryPrimaryMissing, WritePrimary, WriteDisplay, DeleteOldRow, InsertNewRow, Goto,
                Finish
<1>2. CASE StorageFault(c)
    BY <1>2 DEF StorageFault, PrimaryFault, InsertAnswerLost, MergeAnswerLost, IndexInsertFault,
                IndexUpdateFault, Goto, Finish
<1> QED BY <1>1, <1>2

\* Nothing is taken out of ended, and a blob is never removed.
Grows ==
    \A e \in Executions : /\ ended[e] \subseteq ended'[e]
                          /\ \A k \in Blobs : blob[e][k] # NoRun => blob'[e][k] # NoRun

LEMMA StayingPaired ==
    ASSUME ResultsTypes, Grows, NEW c \in Callers, Paired(c),
           record'[c] = record[c], call'[c] = call[c]
    PROVE  Paired(c)'
<1>1. record[c].run \in Runs /\ record[c].exec \in Executions =>
          FileOf[record[c].run] \in Blobs
    BY ResultsAssumption DEF Blobs
<1>2. record[c] \in Record
    BY DEF ResultsTypes
<1> QED
    BY <1>1, <1>2 DEF Paired, Grows, Record, MaybeRun, NoRecord

LEMMA IdlePaired ==
    ASSUME NEW c \in Callers, record'[c] = NoRecord, ~InFlight(c)'
    PROVE  Paired(c)'
BY DEF Paired, NoRecord

\* One caller at a time, as long as the others stay paired.
LEMMA OthersPaired ==
    ASSUME ResultsTypes, \A d \in Callers : Paired(d), Grows, NEW c \in Callers,
           record' = [record EXCEPT ![c] = record'[c]], call' = [call EXCEPT ![c] = call'[c]],
           Paired(c)', StoreTypeOK
    PROVE  \A d \in Callers : Paired(d)'
<1> TAKE d \in Callers
<1>1. CASE d = c
    BY <1>1
<1>2. CASE d # c
    BY <1>2, StayingPaired DEF ResultsTypes, StoreTypeOK
<1> QED BY <1>1, <1>2

LEMMA CallGoingOnPaired ==
    ASSUME ResultsTypes, Grows, NEW c \in Callers, Paired(c), CallGoesOn(c), RecordFollows(c), StoreTypeOK
    PROVE  Paired(c)' /\ record' = [record EXCEPT ![c] = record'[c]]
<1>1. record' = [record EXCEPT ![c] = record'[c]]
    BY DEF ResultsTypes, RecordFollows
<1>2. CASE call'[c].step \in RestSteps
    BY <1>1, <1>2, IdlePaired DEF RecordFollows, ResultsTypes
<1>3. CASE call'[c].step \notin RestSteps
    <2>1. record'[c] = record[c]
        BY <1>3 DEF RecordFollows, ResultsTypes
    <2>2. record[c].run \in Runs /\ record[c].exec \in Executions => FileOf[record[c].run] \in Blobs
        BY ResultsAssumption DEF Blobs
    <2>3. record[c] \in Record
        BY DEF ResultsTypes
    <2>4. /\ InFlight(c) /\ InFlight(c)' /\ call'[c].exec = call[c].exec
          /\ call'[c].new = call[c].new /\ (Creating(call'[c]) <=> Creating(call[c]))
        BY <1>3 DEF CallGoesOn
    <2>5. ASSUME record[c].toBlob, record[c].step \in {"variables", "row"}
          PROVE  blob'[record[c].exec][FileOf[record[c].run]] # NoRun
        BY <2>2, <2>3, <2>5 DEF Paired, Grows, Record, MaybeRun
    <2>6. record[c].run # NoRun => record[c].run \in ended'[record[c].exec]
        BY <2>3 DEF Paired, Grows, NoRecord
    <2>7. record[c].step # "none" => /\ record[c].exec \in Executions
                                     /\ record[c].status \in Writable
        BY DEF Paired
    <2>8. \/ call'[c].step \in {"insertPrimary", "insertIndexes"} /\ record'[c] = NoRecord
          \/ /\ call'[c].step \notin {"insertPrimary", "insertIndexes"}
             /\ record'[c].step = "row" /\ call'[c].exec = record'[c].exec
             /\ call'[c].new = record'[c].status
        BY <2>1, <2>4 DEF Paired, Creating
    <2>9. /\ record[c].step = "none" => record[c] = NoRecord
          /\ record[c].step \in {"upload", "variables"} \/ record[c].status = "Success"
                \/ record[c].toBlob => record[c].run # NoRun
        BY DEF Paired
    <2>10. /\ record'[c].step = "none" => record'[c] = NoRecord
           /\ record'[c].step \in {"upload", "variables"} \/ record'[c].status = "Success"
                \/ record'[c].toBlob => record'[c].run # NoRun
        BY <2>1, <2>9
    <2>11. record'[c].step # "none" => /\ record'[c].exec \in Executions
                                       /\ record'[c].status \in Writable
        BY <2>1, <2>7
    <2>12. /\ record'[c].run # NoRun => record'[c].run \in ended'[record'[c].exec]
           /\ record'[c].step \in {"variables", "row"} /\ record'[c].toBlob
                 => blob'[record'[c].exec][FileOf[record'[c].run]] # NoRun
        BY <2>1, <2>5, <2>6
    <2> QED
        BY <1>1, <2>8, <2>10, <2>11, <2>12 DEF Paired
<1> QED BY <1>1, <1>2, <1>3

-----------------------------------------------------------------------------
(* SuccessInv. *)

\* What a step may do to ended and blob.
LEMMA ResultsGrow ==
    ASSUME ResultsTypes, SuccessInv, [ResultsNext]_allVars
    PROVE  Grows
<1> USE DEF ResultsTypes, Grows
<1>1. CASE UNCHANGED <<ended, blob>>
    BY <1>1
<1>2. ASSUME NEW c \in Callers, NEW e \in setting.executions, NEW run \in setting.runs,
             RecordRun(c, e, run)
      PROVE  Grows
    BY <1>2 DEF RecordRun
<1>3. ASSUME NEW c \in Callers, UploadResult(c) \/ UploadVariables(c) PROVE Grows
    <2> DEFINE t == record[c]
    <2>1. t.run # NoRun
        BY <1>3 DEF UploadResult, UploadVariables, SuccessInv, Paired
    <2>2. PICK k : blob' = [blob EXCEPT ![t.exec][k] = t.run]
        BY <1>3 DEF UploadResult, UploadVariables
    <2>3. UNCHANGED ended
        BY <1>3 DEF UploadResult, UploadVariables
    <2> QED
        BY <2>1, <2>2, <2>3
<1>4. setting.callers \subseteq Callers
    BY ResultsAssumption DEF Setting
<1>5. CASE ~(\E c \in Callers : \/ UploadResult(c) \/ UploadVariables(c)
                                \/ \E e \in setting.executions, run \in setting.runs : RecordRun(c, e, run))
    <2>1. UNCHANGED <<ended, blob>>
        <3>1. CASE UNCHANGED allVars
            BY <3>1 DEF allVars, resultVars
        <3>2. ASSUME NEW c \in Callers, Logs(c) PROVE UNCHANGED <<ended, blob>>
            BY <1>5, <3>2, LogsStoreOnly
        <3>3. ASSUME NEW r \in Readers, Reads(r) \/ BeginListing(r) \/ Page(r)
              PROVE  UNCHANGED <<ended, blob>>
            BY <3>3, ReadersOnlyRead DEF resultVars
        <3> QED BY <3>1, <3>2, <3>3, ResultsSteps
    <2> QED BY <2>1, <1>1
<1> QED
    BY <1>2, <1>3, <1>5

\* The caller of a step stays paired, and no other has moved.
LEMMA ResultsNextPaired ==
    ASSUME ResultsTypes, SuccessInv, StoreTypeOK, [ResultsNext]_allVars
    PROVE  \A c \in Callers : Paired(c)'
<1> USE DEF ResultsTypes, StoreTypeOK
<1>0. Grows /\ \A c \in Callers : Paired(c)
    BY ResultsGrow DEF SuccessInv
<1>a. ASSUME UNCHANGED <<record, call>> PROVE \A c \in Callers : Paired(c)'
    BY <1>0, <1>a, StayingPaired
<1>b. ASSUME NEW c \in Callers, Paired(c)', record' = [record EXCEPT ![c] = record'[c]],
             call' = [call EXCEPT ![c] = call'[c]]
      PROVE  \A d \in Callers : Paired(d)'
    BY <1>0, <1>b, OthersPaired
<1>1. CASE UNCHANGED allVars
    BY <1>1, <1>a DEF allVars, storeVars
<1>2. ASSUME NEW r \in Readers,
             Reads(r) \/ BeginListing(r) \/ Page(r)
      PROVE  \A d \in Callers : Paired(d)'
    BY <1>2, <1>a, ReadersOnlyRead DEF storeVars
<1>3. ASSUME NEW c \in Callers, NEW e \in setting.executions, NEW run \in setting.runs,
             RecordRun(c, e, run)
      PROVE  \A d \in Callers : Paired(d)'
    <2>1. e \in Executions /\ run \in Runs
        BY ResultsAssumption DEF Setting
    <2>2. ~InFlight(c) /\ UNCHANGED call
        BY <1>3 DEF RecordRun, LoggerIdle, storeVars
    <2>3. run \in ended'[e]
        BY <1>3, <2>1 DEF RecordRun
    <2>4. record'[c] = [step |-> IF run \in Large THEN "upload" ELSE IF run \in Captured THEN "variables" ELSE "row",
             exec |-> e, status |-> "Success", run |-> run,
             inline |-> IF run \in Large THEN NoRun ELSE run,
             toBlob |-> run \in Large, read |-> NoRun]
        BY <1>3 DEF RecordRun
    <2>5. Paired(c)'
        <3>1. /\ record'[c].step # "none" /\ record'[c].exec = e /\ record'[c].run = run
              /\ record'[c].status = "Success" /\ record'[c].toBlob = (run \in Large)
              /\ record'[c].step \in {"variables", "row"} => run \notin Large
            BY <2>4
        <3> QED
            BY <2>1, <2>2, <2>3, <3>1, ResultsAssumption DEF Paired
    <2> QED
        BY <1>3, <1>b, <2>2, <2>4, <2>5 DEF RecordRun
<1>4. ASSUME NEW c \in Callers, NEW e \in setting.executions, NEW s \in setting.statuses,
             RecordStatus(c, e, s)
      PROVE  \A d \in Callers : Paired(d)'
    <2>1. e \in Executions /\ s \in Writable /\ s # "Success"
        BY ResultsAssumption DEF Setting
    <2>2. ~InFlight(c) /\ UNCHANGED call
        BY <1>4 DEF RecordStatus, LoggerIdle, storeVars
    <2>3. record'[c] = [NoRecord EXCEPT !.step = "row", !.exec = e, !.status = s]
        BY <1>4 DEF RecordStatus
    <2>4. Paired(c)'
        BY <2>1, <2>2, <2>3 DEF Paired, NoRecord
    <2> QED
        BY <1>4, <1>b, <2>2, <2>3, <2>4 DEF RecordStatus
<1>5. ASSUME NEW c \in Callers, UploadResult(c) \/ UploadVariables(c)
      PROVE  \A d \in Callers : Paired(d)'
    <2> DEFINE t == record[c]
    <2>1. /\ Paired(c) /\ t \in Record /\ t.exec \in Executions /\ t.run \in Runs /\ ~InFlight(c)
        BY <1>0, <1>5 DEF UploadResult, UploadVariables, Paired, Record, MaybeRun, NoRecord
    <2>2. UNCHANGED call
        BY <1>5 DEF UploadResult, UploadVariables, storeVars
    <2>3. PICK step \in {"variables", "row"} : record' = [record EXCEPT ![c].step = step]
        BY <1>5 DEF UploadResult, UploadVariables
    <2>4. record'[c] = [t EXCEPT !.step = step]
        BY <2>3
    <2>5. t.run \in ended'[t.exec]
        BY <1>0, <2>1, ResultsAssumption DEF Grows, Paired
    <2>6. FileOf[t.run] \in Blobs
        BY <2>1, ResultsAssumption DEF Blobs
    <2>7. t.toBlob => blob'[t.exec][FileOf[t.run]] # NoRun
        <3>1. CASE UploadResult(c)
            BY <2>1, <2>6, <3>1, ResultsAssumption DEF UploadResult
        <3>2. CASE UploadVariables(c)
            BY <1>0, <2>1, <2>6, <3>2 DEF UploadVariables, Paired, Grows
        <3> QED BY <1>5, <3>1, <3>2
    <2>8. Paired(c)'
        <3> HIDE DEF t
        <3>1. /\ record'[c].step = step /\ record'[c].exec = t.exec /\ record'[c].run = t.run
              /\ record'[c].status = t.status /\ record'[c].toBlob = t.toBlob
            BY <2>1, <2>4 DEF Record
        <3>2. ~InFlight(c)'
            BY <2>1, <2>2
        <3>3. t.status \in Writable
            BY <2>1, <1>5 DEF Paired, t, UploadResult, UploadVariables
        <3> QED
            BY <2>1, <2>5, <2>7, <3>1, <3>2, <3>3, ResultsAssumption DEF Paired
    <2> QED
        BY <1>b, <2>2, <2>3, <2>4, <2>8
<1>6. ASSUME NEW c \in Callers, UploadFails(c) PROVE \A d \in Callers : Paired(d)'
    <2>1. ~InFlight(c) /\ UNCHANGED call /\ record'[c] = NoRecord
        BY <1>0, <1>6 DEF UploadFails, Paired, storeVars, NoRecord
    <2>2. Paired(c)'
        BY <2>1, IdlePaired
    <2> QED
        BY <1>6, <1>b, <2>1, <2>2 DEF UploadFails
<1>7. ASSUME NEW c \in Callers, NEW e \in Executions, Create(c, e)
      PROVE  \A d \in Callers : Paired(d)'
    <2>1. record[c] = NoRecord /\ UNCHANGED record
        BY <1>0, <1>7 DEF Create, LoggerIdle, Paired
    <2>2. call' = [call EXCEPT ![c] = CallAt("insertPrimary", e, "Running", "Absent")]
        BY <1>7 DEF Create, BeginCreate, Begin
    <2>3. Paired(c)'
        BY <2>1, <2>2 DEF Paired, NoRecord
    <2> QED
        BY <1>b, <2>1, <2>2, <2>3
<1>8. ASSUME NEW c \in Callers, CallUpdate(c) PROVE \A d \in Callers : Paired(d)'
    <2> DEFINE t == record[c]
    <2>1. t.step = "row" /\ UNCHANGED record
        BY <1>8 DEF CallUpdate
    <2>2. call' = [call EXCEPT ![c] = CallAt("query", t.exec, t.status, "Absent")]
        BY <1>8 DEF CallUpdate, BeginUpdate, Begin
    <2>3. UNCHANGED <<ended, blob>>
        BY <1>8 DEF CallUpdate, resultVars
    <2>4. Paired(c)'
        BY <1>0, <2>1, <2>2, <2>3 DEF Paired, NoRecord
    <2> QED
        BY <1>b, <2>1, <2>2, <2>4
<1>9. ASSUME NEW c \in Callers, ReadForUpdate(c) PROVE \A d \in Callers : Paired(d)'
    <2> DEFINE t == record[c]
    <2>1. call' = [call EXCEPT ![c] = CallAt("writePrimary", call[c].exec, call[c].new, primary[call[c].exec])]
        BY <1>9 DEF ReadForUpdate, QueryPrimary
    <2>2. record' = [record EXCEPT ![c].read = inline[call[c].exec]]
        BY <1>9 DEF ReadForUpdate
    <2>3. t \in Record /\ t.step = "row" /\ call[c].exec = t.exec /\ call[c].new = t.status
        BY <1>0, <1>9 DEF ReadForUpdate, QueryPrimary, Paired
    <2>4. UNCHANGED <<ended, blob>>
        BY <1>9 DEF ReadForUpdate, resultVars
    <2>5. Paired(c)'
        <3> HIDE DEF t
        <3>1. /\ record'[c].step = "row" /\ record'[c].exec = t.exec /\ record'[c].run = t.run
              /\ record'[c].status = t.status /\ record'[c].toBlob = t.toBlob
            BY <2>2, <2>3 DEF Record, t
        <3> QED
            BY <1>0, <2>1, <2>3, <2>4, <3>1 DEF Paired, t
    <2> QED
        BY <1>b, <2>1, <2>2, <2>5
<1>10. ASSUME NEW c \in Callers, WriteResult(c) \/ WriteRow(c) \/ RowFault(c)
       PROVE  \A d \in Callers : Paired(d)'
    <2>1. RecordFollows(c) /\ (CallStep(c) \/ StorageFault(c))
        BY <1>10 DEF WriteResult, MergeRow, WriteRow, RowFault, CallStep, StorageFault
    <2>2. CallGoesOn(c)
        BY <2>1, RepositoryGoesOn
    <2>3. call' = [call EXCEPT ![c] = call'[c]]
        BY <2>2 DEF CallGoesOn
    <2> QED
        BY <1>0, <1>b, <2>1, <2>2, <2>3, CallGoingOnPaired
<1>11. ASSUME NEW c \in Callers, Abandon(c) PROVE \A d \in Callers : Paired(d)'
    <2>1. record' = [record EXCEPT ![c] = NoRecord] /\ call' = [call EXCEPT ![c] = NoCall("idle")]
        BY <1>11 DEF Abandon, AbandonCall
    <2>2. Paired(c)'
        BY <2>1, IdlePaired
    <2> QED
        BY <1>b, <2>1, <2>2
<1>12. setting.callers \subseteq Callers /\ setting.executions \subseteq Executions
    BY ResultsAssumption DEF Setting
<1> QED
    BY <1>1, <1>2, <1>3, <1>4, <1>5, <1>6, <1>7, <1>8, <1>9, <1>10, <1>11, <1>12 DEF ResultsNext, Reads


\* The status of a row: an insert writes Running, a merge what the logger was given.
LEMMA PrimaryMoves ==
    ASSUME ResultsTypes, SuccessInv, StoreInv, [ResultsNext]_allVars, NEW e \in Executions
    PROVE  \/ primary'[e] \in {primary[e], "Running"}
           \/ \E c \in Callers : /\ WriteResult(c) /\ record[c].exec = e
                                 /\ record[c].step = "row" /\ primary'[e] = record[c].status
<1> USE DEF ResultsTypes, StoreInv, StoreTypeOK
<1>1. ASSUME NEW c \in Callers, WriteResult(c)
      PROVE  \/ primary'[e] = primary[e]
             \/ record[c].exec = e /\ record[c].step = "row" /\ primary'[e] = record[c].status
    <2>1. call[c].exec = record[c].exec /\ call[c].new = record[c].status /\ record[c].step = "row"
        BY <1>1 DEF WriteResult, MergeRow, MergeAnswerLost, WritePrimary, SuccessInv, Paired
    <2>2. primary' = [primary EXCEPT ![call[c].exec] = call[c].new]
        BY <1>1 DEF WriteResult, MergeRow, MergeAnswerLost, WritePrimary
    <2> QED
        BY <2>1, <2>2
<1>2. ASSUME NEW c \in Callers, WriteRow(c) PROVE primary'[e] \in {primary[e], "Running"}
    <2>1. CASE InsertPrimary(c)
        BY <2>1 DEF InsertPrimary, CallsSane
    <2>2. CASE ~InsertPrimary(c)
        BY <1>2, <2>2 DEF WriteRow, InsertPrimaryExists, InsertIndexes, QueryPrimaryMissing,
              WriteDisplay, DeleteOldRow, InsertNewRow
    <2> QED BY <2>1, <2>2
<1>3. ASSUME NEW c \in Callers, ReadForUpdate(c) \/ Abandon(c) \/ CallUpdate(c)
      PROVE  UNCHANGED primary
    BY <1>3 DEF ReadForUpdate, QueryPrimary, Abandon, AbandonCall, CallUpdate, BeginUpdate, Begin
<1>8. ASSUME NEW c \in Callers, RowFault(c) PROVE primary'[e] \in {primary[e], "Running"}
    <2>1. CASE InsertAnswerLost(c)
        BY <2>1 DEF InsertAnswerLost, CallsSane
    <2>2. CASE ~InsertAnswerLost(c)
        BY <1>8, <2>2 DEF RowFault, PrimaryFault, IndexInsertFault, IndexUpdateFault
    <2> QED BY <2>1, <2>2
<1>4. ASSUME NEW c \in Callers,
             \/ \E x \in setting.executions : Create(c, x)
             \/ \E x \in setting.executions, run \in setting.runs : RecordRun(c, x, run)
             \/ \E x \in setting.executions, s \in setting.statuses : RecordStatus(c, x, s)
             \/ UploadResult(c) \/ UploadVariables(c) \/ UploadFails(c)
      PROVE  UNCHANGED primary
    BY <1>4 DEF Create, BeginCreate, Begin, RecordRun, RecordStatus, UploadResult,
          UploadVariables, UploadFails, storeVars
<1>5. ASSUME NEW r \in Readers,
             Reads(r) \/ BeginListing(r) \/ Page(r)
      PROVE  UNCHANGED primary
    BY <1>5, ReadersOnlyRead DEF storeVars
<1>6. CASE UNCHANGED allVars
    BY <1>6 DEF allVars, storeVars
<1>7. setting.callers \subseteq Callers
    BY ResultsAssumption DEF Setting
<1> QED
    BY <1>1, <1>2, <1>3, <1>4, <1>5, <1>6, <1>7, <1>8 DEF ResultsNext, Reads

\* Only its own requests move a reader.
LEMMA ReadingMoves ==
    ASSUME [ResultsNext]_allVars, ResultsTypes
    PROVE  UNCHANGED reading \/ \E r \in Readers : Reads(r)
<1>1. CASE UNCHANGED allVars
    BY <1>1 DEF allVars
<1>2. ASSUME NEW c \in Callers, Logs(c) PROVE UNCHANGED reading
    BY <1>2, LogsStoreOnly
<1>3. ASSUME NEW r \in Readers, BeginListing(r) \/ Page(r) PROVE UNCHANGED reading
    BY <1>3 DEF BeginListing, Page
<1> QED BY <1>1, <1>2, <1>3, ResultsSteps

LEMMA OtherReadings ==
    ASSUME NEW s \in Readers, NEW r \in Readers, s # r, Reads(s), ResultsTypes
    PROVE  reading'[r] = reading[r]
<1> USE DEF ResultsTypes
<1>1. CASE ReadRow(s)
    BY <1>1 DEF ReadRow
<1>2. CASE ReadVariables(s)
    BY <1>2 DEF ReadVariables
<1>3. CASE VariablesLost(s)
    BY <1>3 DEF VariablesLost
<1>4. CASE ReadBlob(s)
    BY <1>4 DEF ReadBlob
<1>5. CASE BlobLost(s)
    BY <1>5 DEF BlobLost
<1> QED BY <1>1, <1>2, <1>3, <1>4, <1>5 DEF Reads

LEMMA ResultsNextSuccess ==
    ASSUME ResultsTypes, SuccessInv, StoreInv, [ResultsNext]_allVars
    PROVE  SuccessInv'
<1> USE DEF ResultsTypes
<1>1. Grows /\ \A c \in Callers : Paired(c)'
    BY ResultsGrow, ResultsNextPaired DEF StoreInv
<1>2. ASSUME NEW e \in Executions, primary'[e] = "Success" PROVE ended'[e] # {}
    <2>1. CASE primary'[e] = primary[e]
        BY <1>1, <1>2, <2>1 DEF Grows, SuccessInv
    <2>2. ASSUME NEW c \in Callers, record[c].exec = e, record[c].status = "Success"
          PROVE  ended'[e] # {}
        BY <1>1, <2>2 DEF Grows, SuccessInv, Paired, NoRecord
    <2> QED
        BY <1>2, <2>1, <2>2, PrimaryMoves
<1>3. ASSUME NEW r \in Readers, reading'[r].step # "idle"
      PROVE  /\ reading'[r].exec \in Executions
             /\ reading'[r].status = "Success" => ended'[reading'[r].exec] # {}
    <2>1. CASE UNCHANGED reading
        BY <1>1, <1>3, <2>1 DEF Grows, SuccessInv
    <2>2. ASSUME NEW s \in Readers, Reads(s)
          PROVE  /\ reading'[r].exec \in Executions
                 /\ reading'[r].status = "Success" => ended'[reading'[r].exec] # {}
        <3>1. CASE s # r
            <4>1. reading'[r] = reading[r]
                BY <2>2, <3>1, OtherReadings
            <4> QED BY <1>1, <1>3, <4>1 DEF Grows, SuccessInv
        <3>2. CASE s = r /\ ReadRow(r)
            <4>1. PICK e \in setting.executions : /\ reading'[r].exec = e
                                                  /\ reading'[r].status = primary[e]
                BY <3>2 DEF ReadRow
            <4>2. e \in Executions
                BY ResultsAssumption DEF Setting
            <4> QED
                BY <1>1, <4>1, <4>2 DEF Grows, SuccessInv
        <3>3. CASE s = r /\ (ReadVariables(r) \/ VariablesLost(r) \/ ReadBlob(r) \/ BlobLost(r))
            <4>1. /\ reading[r].step # "idle"
                  /\ reading'[r].exec = reading[r].exec /\ reading'[r].status = reading[r].status
                BY <3>3 DEF ReadVariables, VariablesLost, ReadBlob, BlobLost, FileKinds, Reading
            <4> QED
                BY <1>1, <4>1 DEF Grows, SuccessInv
        <3> QED BY <2>2, <3>1, <3>2, <3>3 DEF Reads
    <2> QED
        BY <2>1, <2>2, ReadingMoves
<1> QED
    BY <1>1, <1>2, <1>3 DEF SuccessInv

-----------------------------------------------------------------------------
(* RunsInv. *)

LEMMA ResultsInitRuns == ResultsInit => RunsInv /\ SuccessInv
<1> SUFFICES ASSUME ResultsInit PROVE RunsInv /\ SuccessInv
    OBVIOUS
<1> USE DEF ResultsInit, StoreInit
<1>1. RunsInv
    BY ResultsAssumption DEF RunsInv, RunFits, OnlyOf, Blobs, NoRecord, NoReading, FileKinds
<1>2. SuccessInv
    BY DEF SuccessInv, Paired, NoRecord, NoReading
<1> QED BY <1>1, <1>2

\* What the results' columns of a row and its blobs can become in a step.
InlineMoves(e) ==
    \/ inline'[e] = inline[e] /\ inBlob'[e] = inBlob[e]
    \/ \E c \in Callers : LET t == record[c] IN
          /\ WriteResult(c) /\ t.exec = e /\ t.step = "row"
          /\ inline'[e] = IF t.inline \in Runs \ Empty THEN t.inline
                          ELSE IF t.read # NoRun THEN t.read ELSE inline[e]
          /\ inBlob'[e] = t.toBlob

BlobMoves(e) ==
    \/ blob'[e] = blob[e]
    \/ \E c \in Callers : LET t == record[c] IN
          /\ t.exec = e /\ t.run \in Runs
          /\ \/ t.step = "upload" /\ blob'[e] = [blob[e] EXCEPT ![FileOf[t.run]] = t.run]
             \/ t.step = "variables" /\ blob'[e] = [blob[e] EXCEPT !["variables"] = t.run]

LEMMA ColumnsMove ==
    ASSUME ResultsTypes, SuccessInv, [ResultsNext]_allVars, NEW e \in Executions
    PROVE  InlineMoves(e) /\ BlobMoves(e)
<1> USE DEF ResultsTypes
<1>1. ASSUME NEW c \in Callers, WriteResult(c) PROVE InlineMoves(e) /\ BlobMoves(e)
    <2>1. record[c].step = "row"
        BY <1>1 DEF WriteResult, MergeRow, MergeAnswerLost, WritePrimary, SuccessInv, Paired
    <2>2. blob' = blob
        BY <1>1 DEF WriteResult
    <2>3. CASE record[c].exec = e
        BY <1>1, <2>1, <2>2, <2>3 DEF WriteResult, InlineMoves, BlobMoves
    <2>4. CASE record[c].exec # e
        BY <1>1, <2>2, <2>4 DEF WriteResult, InlineMoves, BlobMoves
    <2> QED BY <2>3, <2>4
<1>2. ASSUME NEW c \in Callers, UploadResult(c) \/ UploadVariables(c)
      PROVE  InlineMoves(e) /\ BlobMoves(e)
    <2>1. record[c] \in Record /\ record[c].run # NoRun /\ UNCHANGED <<inline, inBlob>>
        BY <1>2 DEF UploadResult, UploadVariables, SuccessInv, Paired
    <2>2. record[c].run \in Runs /\ InlineMoves(e)
        BY <2>1 DEF Record, MaybeRun, InlineMoves
    <2>3. BlobMoves(e)
        <3>1. CASE record[c].exec # e
            BY <1>2, <3>1 DEF UploadResult, UploadVariables, BlobMoves
        <3>2. CASE record[c].exec = e /\ UploadResult(c)
            BY <2>2, <3>2 DEF UploadResult, BlobMoves
        <3>3. CASE record[c].exec = e /\ UploadVariables(c)
            BY <2>2, <3>3 DEF UploadVariables, BlobMoves
        <3> QED BY <1>2, <3>1, <3>2, <3>3
    <2> QED BY <2>2, <2>3
<1>3. CASE UNCHANGED <<inline, inBlob, blob>>
    BY <1>3 DEF InlineMoves, BlobMoves
<1>4. setting.callers \subseteq Callers
    BY ResultsAssumption DEF Setting
<1>5. CASE ~\E c \in Callers : WriteResult(c) \/ UploadResult(c) \/ UploadVariables(c)
    <2>1. UNCHANGED <<inline, inBlob, blob>>
        <3>1. CASE UNCHANGED allVars
            BY <3>1 DEF allVars, resultVars
        <3>2. ASSUME NEW c \in Callers, Logs(c) PROVE UNCHANGED <<inline, inBlob, blob>>
            BY <1>5, <3>2, LogsStoreOnly
        <3>3. ASSUME NEW r \in Readers, Reads(r) \/ BeginListing(r) \/ Page(r)
              PROVE  UNCHANGED <<inline, inBlob, blob>>
            BY <3>3, ReadersOnlyRead DEF resultVars
        <3> QED BY <3>1, <3>2, <3>3, ResultsSteps
    <2> QED BY <1>3, <2>1
<1> QED BY <1>1, <1>2, <1>5

\* The row and the blobs hold what is run's, and what was stored of it stays.
LEMMA RowFits ==
    ASSUME ResultsTypes, SuccessInv, StoreInv, [ResultsNext]_allVars,
           NEW e \in Executions, NEW run \in Runs, RunFits(e, run)
    PROVE  /\ OnlyOf(e, run)'
           /\ \A k \in Blobs : blob[e][k] = run => blob'[e][k] = run
           /\ run \notin Large \cup Empty /\ inline[e] = run => inline'[e] = run
<1> USE DEF ResultsTypes
<1>1. NoRun \notin Runs /\ FileOf[run] \in FileKinds /\ FileOf[run] # "variables"
      /\ FileKinds \subseteq Blobs /\ "variables" \in Blobs \ FileKinds
    BY ResultsAssumption DEF Blobs, FileKinds
<1>2. InlineMoves(e) /\ BlobMoves(e)
    BY ColumnsMove
<1>3. ASSUME NEW c \in Callers, record[c].step # "none", record[c].exec = e
      PROVE  RecordFits(c, run)
    BY <1>3 DEF RunFits
<1>4. /\ inline'[e] \in {run, NoRun}
      /\ inline'[e] = run => run \notin Large \cup Empty
      /\ inBlob'[e] => run \in Large
      /\ run \notin Large \cup Empty /\ inline[e] = run => inline'[e] = run
    <2>1. CASE inline'[e] = inline[e] /\ inBlob'[e] = inBlob[e]
        BY <2>1 DEF RunFits, OnlyOf
    <2>2. ASSUME NEW c \in Callers, record[c].exec = e, record[c].step = "row",
                 inline'[e] = IF record[c].inline \in Runs \ Empty THEN record[c].inline
                              ELSE IF record[c].read # NoRun THEN record[c].read ELSE inline[e],
                 inBlob'[e] = record[c].toBlob
          PROVE  /\ inline'[e] \in {run, NoRun}
                 /\ inline'[e] = run => run \notin Large \cup Empty
                 /\ inBlob'[e] => run \in Large
                 /\ run \notin Large \cup Empty /\ inline[e] = run => inline'[e] = run
        BY <1>1, <1>3, <2>2 DEF RunFits, OnlyOf, RecordFits
    <2> QED
        BY <1>2, <2>1, <2>2 DEF InlineMoves
<1>5. /\ \A k \in FileKinds : blob'[e][k] # NoRun => /\ run \in Large /\ k = FileOf[run]
                                                     /\ blob'[e][k] = run
      /\ blob'[e]["variables"] # NoRun => run \in Captured /\ blob'[e]["variables"] = run
      /\ \A k \in Blobs : blob[e][k] = run => blob'[e][k] = run
    <2>1. CASE blob'[e] = blob[e]
        BY <2>1 DEF RunFits, OnlyOf
    <2>2. ASSUME NEW c \in Callers, record[c].exec = e, record[c].run \in Runs,
                 record[c].step = "upload",
                 blob'[e] = [blob[e] EXCEPT ![FileOf[record[c].run]] = record[c].run]
          PROVE  /\ \A k \in FileKinds : blob'[e][k] # NoRun => /\ run \in Large /\ k = FileOf[run]
                                                                /\ blob'[e][k] = run
                 /\ blob'[e]["variables"] # NoRun => run \in Captured /\ blob'[e]["variables"] = run
                 /\ \A k \in Blobs : blob[e][k] = run => blob'[e][k] = run
        <3>1. record[c].run = run /\ run \in Large
            BY <1>3, <2>2 DEF RecordFits
        <3> QED
            BY <1>1, <2>2, <3>1 DEF RunFits, OnlyOf
    <2>3. ASSUME NEW c \in Callers, record[c].exec = e, record[c].run \in Runs,
                 record[c].step = "variables",
                 blob'[e] = [blob[e] EXCEPT !["variables"] = record[c].run]
          PROVE  /\ \A k \in FileKinds : blob'[e][k] # NoRun => /\ run \in Large /\ k = FileOf[run]
                                                                /\ blob'[e][k] = run
                 /\ blob'[e]["variables"] # NoRun => run \in Captured /\ blob'[e]["variables"] = run
                 /\ \A k \in Blobs : blob[e][k] = run => blob'[e][k] = run
        <3>1. record[c].run = run /\ run \in Captured
            BY <1>3, <2>3 DEF RecordFits
        <3> QED
            BY <1>1, <2>3, <3>1 DEF RunFits, OnlyOf
    <2> QED
        BY <1>2, <2>1, <2>2, <2>3 DEF BlobMoves
<1> QED
    BY <1>4, <1>5 DEF OnlyOf

\* The calls of the logger keep handing on what they were given.
LEMMA RecordsFit ==
    ASSUME ResultsTypes, SuccessInv, StoreInv, [ResultsNext]_allVars,
           NEW e \in Executions, NEW run \in Runs, RunFits(e, run), ended'[e] \subseteq {run},
           NEW c \in Callers, record'[c].step # "none", record'[c].exec = e
    PROVE  RecordFits(c, run)'
<1> USE DEF ResultsTypes
<1>0. \A k \in Blobs : blob[e][k] = run => blob'[e][k] = run
    BY RowFits
<1>1. /\ FileOf[run] \in Blobs /\ "variables" \in Blobs /\ NoRun \notin Runs
    BY ResultsAssumption DEF Blobs
<1>2. ASSUME record[c].step # "none", record[c].exec = e, record'[c] = record[c]
      PROVE  RecordFits(c, run)'
    BY <1>0, <1>1, <1>2 DEF RunFits, RecordFits
<1>3. CASE record'[c] = record[c]
    BY <1>2, <1>3
<1>4. ASSUME NEW d \in Callers, record' = [record EXCEPT ![d] = record'[d]], record'[c] # record[c]
      PROVE  d = c
    BY <1>4
<1>5. ASSUME NEW x \in Executions, NEW y \in Runs, RecordRun(c, x, y) PROVE RecordFits(c, run)'
    <2>1. record'[c] = [step |-> IF y \in Large THEN "upload" ELSE IF y \in Captured THEN "variables" ELSE "row",
             exec |-> x, status |-> "Success", run |-> y,
             inline |-> IF y \in Large THEN NoRun ELSE y,
             toBlob |-> y \in Large, read |-> NoRun]
        BY <1>5 DEF RecordRun
    <2>2. x = e /\ y \in ended'[e]
        BY <1>5, <2>1 DEF RecordRun
    <2>3. y = run
        BY <2>2
    <2> QED
        BY <1>1, <2>1, <2>2, <2>3 DEF RecordFits
<1>6. ASSUME NEW x \in Executions, NEW s \in setting.statuses, RecordStatus(c, x, s)
      PROVE  RecordFits(c, run)'
    <2>1. s # "Success"
        BY ResultsAssumption DEF Setting
    <2>2. record'[c] = [NoRecord EXCEPT !.step = "row", !.exec = x, !.status = s]
        BY <1>6 DEF RecordStatus
    <2> QED
        BY <1>1, <2>1, <2>2 DEF RecordFits, NoRecord
<1>7. ASSUME UploadResult(c) \/ UploadVariables(c) PROVE RecordFits(c, run)'
    <2> DEFINE t == record[c]
    <2>1. PICK step \in {"variables", "row"} :
             /\ record'[c] = [t EXCEPT !.step = step]
             /\ step = "variables" => t.run \in Captured
             /\ t.step = "variables" => step = "row"
             /\ t.step = "upload" /\ step = "row" => t.run \notin Captured
        BY <1>7 DEF UploadResult, UploadVariables
    <2>2. t \in Record /\ t.step \in {"upload", "variables"} /\ t.exec = e
        BY <1>7, <2>1 DEF UploadResult, UploadVariables, Record
    <2>3. RecordFits(c, run) /\ t.run = run
        BY <2>2 DEF RunFits, RecordFits
    <2>4. t.step = "upload" => blob'[e][FileOf[run]] = run
        BY <1>1, <1>7, <2>2, <2>3 DEF UploadResult, UploadVariables
    <2>5. t.step = "variables" => blob'[e]["variables"] = run
        BY <1>1, <1>7, <2>2, <2>3 DEF UploadResult, UploadVariables
    <2>6. /\ record'[c].step = step /\ record'[c].exec = e /\ record'[c].run = run
          /\ record'[c].status = t.status /\ record'[c].inline = t.inline
          /\ record'[c].toBlob = t.toBlob /\ record'[c].read = t.read
        BY <2>1, <2>2, <2>3 DEF Record
    <2> HIDE DEF t
    <2>7. /\ t.read \in {run, NoRun} /\ (t.read = run => run \notin Large \cup Empty)
          /\ t.status = "Success" /\ t.toBlob = (run \in Large)
          /\ t.inline = IF run \in Large THEN NoRun ELSE run
          /\ t.step = "variables" /\ run \in Large => blob[e][FileOf[run]] = run
        BY <1>1, <2>2, <2>3 DEF RecordFits, t
    <2> QED
        BY <1>0, <1>1, <2>1, <2>2, <2>3, <2>4, <2>5, <2>6, <2>7 DEF RecordFits
<1>8. ASSUME ReadForUpdate(c) PROVE RecordFits(c, run)'
    <2> DEFINE t == record[c]
    <2>1. /\ t \in Record /\ t.step = "row" /\ call[c].exec = t.exec /\ UNCHANGED blob
          /\ record'[c] = [t EXCEPT !.read = inline[call[c].exec]]
        BY <1>8 DEF ReadForUpdate, QueryPrimary, SuccessInv, Paired, resultVars
    <2>2. /\ record'[c].step = "row" /\ record'[c].exec = t.exec /\ record'[c].run = t.run
          /\ record'[c].status = t.status /\ record'[c].inline = t.inline
          /\ record'[c].toBlob = t.toBlob /\ record'[c].read = inline[t.exec]
        BY <2>1 DEF Record
    <2>3. /\ inline[e] \in {run, NoRun} /\ (inline[e] = run => run \notin Large \cup Empty)
          /\ RecordFits(c, run) /\ t.exec = e
        BY <2>1, <2>2 DEF RunFits, OnlyOf
    <2> HIDE DEF t
    <2>4. \/ t.run = NoRun /\ t.status # "Success" /\ t.inline = NoRun /\ ~t.toBlob
          \/ /\ t.run = run /\ t.status = "Success" /\ t.toBlob = (run \in Large)
             /\ t.inline = IF run \in Large THEN NoRun ELSE run
             /\ run \in Large => blob[e][FileOf[run]] = run
             /\ run \in Captured => blob[e]["variables"] = run
        BY <2>1, <2>3 DEF RecordFits, t
    <2> QED
        BY <2>1, <2>2, <2>3, <2>4 DEF RecordFits
<1>9. CASE record'[c] = NoRecord
    BY <1>9 DEF NoRecord
<1>10. ASSUME RecordFollows(c), record'[c] # record[c] PROVE record'[c] = NoRecord
    BY <1>10 DEF RecordFollows
<1>11. setting.callers \subseteq Callers /\ setting.executions \subseteq Executions /\ setting.runs \subseteq Runs
    BY ResultsAssumption DEF Setting
<1>12. ASSUME NEW d \in Callers, record'[c] # record[c],
              \/ \E x \in setting.executions, y \in setting.runs : RecordRun(d, x, y)
              \/ \E x \in setting.executions, s \in setting.statuses : RecordStatus(d, x, s)
              \/ UploadResult(d) \/ UploadVariables(d) \/ UploadFails(d) \/ ReadForUpdate(d)
              \/ Abandon(d) \/ RecordFollows(d)
       PROVE  d = c
    BY <1>12 DEF RecordRun, RecordStatus, UploadResult, UploadVariables, UploadFails, ReadForUpdate,
       Abandon, RecordFollows
<1>13. ASSUME UploadFails(c) \/ Abandon(c) PROVE record'[c] = NoRecord
    BY <1>13 DEF UploadFails, Abandon
<1>14. ASSUME NEW d \in Callers, WriteResult(d) \/ WriteRow(d) \/ RowFault(d) PROVE RecordFollows(d)
    BY <1>14 DEF WriteResult, WriteRow, RowFault
<1>15. ASSUME NEW d \in Callers, CallUpdate(d) \/ \E x \in setting.executions : Create(d, x)
       PROVE  UNCHANGED record
    BY <1>15 DEF CallUpdate, Create
<1>16. ASSUME NEW r \in Readers,
              Reads(r) \/ BeginListing(r) \/ Page(r)
       PROVE  UNCHANGED record
    BY <1>16, ReadersOnlyRead
<1>17. CASE UNCHANGED allVars
    BY <1>3, <1>17 DEF allVars
<1>18. ASSUME NEW d \in Callers, record'[c] # record[c],
              \/ \E x \in setting.executions, y \in setting.runs : RecordRun(d, x, y)
              \/ \E x \in setting.executions, s \in setting.statuses : RecordStatus(d, x, s)
              \/ UploadResult(d) \/ UploadVariables(d) \/ UploadFails(d) \/ ReadForUpdate(d)
              \/ Abandon(d) \/ RecordFollows(d)
       PROVE  RecordFits(c, run)'
    <2>1. d = c
        BY <1>12, <1>18
    <2> QED
        BY <1>5, <1>6, <1>7, <1>8, <1>9, <1>10, <1>11, <1>13, <1>18, <2>1
<1>19. CASE record'[c] # record[c]
    <2>1. CASE UNCHANGED record
        BY <1>19, <2>1
    <2> QED
        BY <1>11, <1>14, <1>15, <1>16, <1>17, <1>18, <1>19, <2>1 DEF ResultsNext, Reads, allVars
<1> QED
    BY <1>3, <1>19

\* The row says Success only when all of it is stored.
LEMMA SuccessComplete ==
    ASSUME ResultsTypes, SuccessInv, StoreInv, [ResultsNext]_allVars,
           NEW e \in Executions, NEW run \in Runs, RunFits(e, run)
    PROVE  /\ Complete(e, run) => Complete(e, run)'
           /\ primary'[e] = "Success" => Complete(e, run)'
<1>1. FileOf[run] \in Blobs /\ "variables" \in Blobs /\ NoRun \notin Runs
    BY ResultsAssumption DEF Blobs
<1>2. Complete(e, run) => Complete(e, run)'
    BY <1>1, RowFits DEF Complete, Uploaded
<1>3. ASSUME NEW c \in Callers, WriteResult(c), record[c].exec = e, record[c].step = "row",
             record[c].status = "Success"
      PROVE  Complete(e, run)'
    <2>1. /\ record[c].inline = IF run \in Large THEN NoRun ELSE run
          /\ run \in Large => blob[e][FileOf[run]] = run
          /\ run \in Captured => blob[e]["variables"] = run
        BY <1>3 DEF RunFits, RecordFits
    <2>2. run \notin Large \cup Empty => inline'[e] = run
        BY <1>3, <2>1 DEF WriteResult, ResultsTypes
    <2>3. UNCHANGED blob
        BY <1>3 DEF WriteResult
    <2> QED
        BY <2>1, <2>2, <2>3 DEF Complete, Uploaded
<1>4. primary'[e] = "Success" => Complete(e, run)'
    <2>1. CASE primary'[e] = primary[e]
        BY <1>2, <2>1 DEF RunFits
    <2> QED
        BY <1>3, <2>1, PrimaryMoves
<1> QED
    BY <1>2, <1>4

\* A file that is not there, or that could not be read, is passed over.
LEMMA PassedOver ==
    ASSUME NEW r \in Readers, NEW run \in Runs, FileOf[run] \in FileKinds,
           NEW k \in FileKinds, run \in Large \cup Empty, run \in Large => run \notin Empty,
           NEW e \in Executions, reading'[r].exec = e, Complete(e, run)',
           reading'[r].step = NextKind(k), reading'[r].result = NoRun,
           run \in Large => FileOf[run] \notin (LookedAt(k) \cup {k}) \ reading'[r].lost,
           reading'[r].all => reading'[r].variables = ShownOf(run, reading'[r].lost)
    PROVE  ReadingFits(r, run)'
<1>1. CASE k \in {"json", "html"}
    <2>1. /\ reading'[r].step \in {"html", "txt"}
          /\ LookedAt(reading'[r].step) = LookedAt(k) \cup {k}
        BY <1>1 DEF NextKind, LookedAt
    <2> QED BY <2>1 DEF ReadingFits, FileKinds
<1>2. CASE k = "txt"
    <2>1. reading'[r].step = "done" /\ LookedAt(k) \cup {k} = FileKinds
        BY <1>2 DEF NextKind, LookedAt, FileKinds
    <2>2. run \in Large => FileOf[run] \in reading'[r].lost
        BY <2>1
    <2>3. run \notin Large => Visible(run) = NoRun
        BY DEF Visible
    <2> QED BY <2>1, <2>2, <2>3 DEF ReadingFits, FileKinds
<1> QED BY <1>1, <1>2 DEF FileKinds

LEMMA ReadingsFit ==
    ASSUME ResultsTypes, SuccessInv, StoreInv, [ResultsNext]_allVars,
           NEW e \in Executions, NEW run \in Runs, RunFits(e, run),
           NEW r \in Readers, reading'[r].step # "idle", reading'[r].exec = e,
           reading'[r].status = "Success"
    PROVE  ReadingFits(r, run)'
<1> USE DEF ResultsTypes
<1>1. /\ FileOf[run] \in FileKinds /\ NoRun \notin Runs
      /\ run \in Large => run \notin Empty
    BY ResultsAssumption
<1>2. Complete(e, run) => Complete(e, run)'
    BY SuccessComplete
<1>3. ASSUME UNCHANGED <<inline, inBlob, blob>>, Complete(e, run) PROVE Complete(e, run)'
    BY <1>2, <1>3
<1>4. CASE reading'[r] = reading[r]
    BY <1>2, <1>4 DEF RunFits, ReadingFits
<1>5. CASE ReadRow(r)
    <2>1. PICK x \in setting.executions, all \in BOOLEAN :
              reading'[r] =
               [step |-> IF all THEN "variables" ELSE IF InModel(x) = NoRun THEN "json" ELSE "done",
                exec |-> x, status |-> primary[x], all |-> all,
                result |-> InModel(x), variables |-> NoRun, lost |-> {}]
        BY <1>5 DEF ReadRow
    <2>2. x = e /\ primary[e] = "Success"
        BY <2>1
    <2>3. Complete(e, run) /\ OnlyOf(e, run)
        BY <2>2 DEF RunFits
    <2>4. InModel(e) = IF run \in Large THEN NoRun ELSE Visible(run)
        BY <1>1, <2>3 DEF InModel, Complete, OnlyOf, Visible
    <2>5. InModel(e) = NoRun => run \in Large \cup Empty
        BY <1>1, <2>4 DEF Visible
    <2>6. InModel(e) # NoRun => InModel(e) = Visible(run)
        BY <2>4
    <2>7. Complete(e, run)'
        BY <1>2, <2>3
    <2> QED
        BY <2>1, <2>2, <2>4, <2>5, <2>6, <2>7 DEF ReadingFits, LookedAt, FileKinds, Visible
<1>6. ASSUME ReadVariables(r) \/ VariablesLost(r) \/ ReadBlob(r) \/ BlobLost(r)
      PROVE  /\ reading[r] \in Reading /\ reading[r].step # "idle" /\ reading[r].exec = e
             /\ reading'[r].all = reading[r].all
             /\ ReadingFits(r, run) /\ Complete(e, run) /\ OnlyOf(e, run) /\ Complete(e, run)'
    <2>1. reading[r] \in Reading /\ reading[r].step # "idle"
        BY <1>6 DEF ReadVariables, VariablesLost, ReadBlob, BlobLost, FileKinds
    <2>2. /\ reading'[r].exec = reading[r].exec /\ reading'[r].status = reading[r].status
          /\ reading'[r].all = reading[r].all
        BY <1>6, <2>1 DEF ReadVariables, VariablesLost, ReadBlob, BlobLost, Reading
    <2>3. ReadingFits(r, run) /\ reading[r].exec = e
        BY <2>1, <2>2 DEF RunFits
    <2> QED
        BY <1>2, <2>1, <2>2, <2>3 DEF ReadingFits, RunFits
<1>7. CASE ReadVariables(r) \/ VariablesLost(r)
    <2> DEFINE x == reading[r]
    <2>1. /\ x.step = "variables" /\ x.lost = {} /\ x \in Reading
          /\ x.result = IF run \in Large THEN NoRun ELSE Visible(run)
        BY <1>6, <1>7 DEF ReadVariables, VariablesLost, ReadingFits
    <2>2. /\ reading'[r].result = x.result
          /\ reading'[r].step = IF x.result = NoRun THEN "json" ELSE "done"
          /\ \/ reading'[r].variables = blob[e]["variables"] /\ reading'[r].lost = {}
             \/ reading'[r].variables = x.variables /\ reading'[r].lost = {"variables"}
        BY <1>6, <1>7, <2>1 DEF ReadVariables, VariablesLost, Reading
    <2>3. x.variables = NoRun
        BY <1>6, <1>7, <2>1 DEF ReadingFits, Reading
    <2>4. blob[e]["variables"] = IF run \in Captured THEN run ELSE NoRun
        BY <1>1, <1>6, <1>7 DEF Complete, Uploaded, OnlyOf
    <2>5. /\ x.result = NoRun => run \in Large \cup Empty
          /\ x.result # NoRun => x.result = Visible(run)
        BY <1>1, <2>1 DEF Visible
    <2>6. reading'[r].exec = e /\ Complete(e, run)'
        BY <1>6, <1>7
    <2>7. reading'[r].variables = ShownOf(run, reading'[r].lost)
        BY <2>2, <2>3, <2>4 DEF ShownOf
    <2> HIDE DEF x
    <2> QED
        BY <2>2, <2>5, <2>6, <2>7 DEF ReadingFits, LookedAt, FileKinds
<1>8. CASE ReadBlob(r)
    <2> DEFINE x == reading[r]
               got == blob[e][x.step]
    <2>1. /\ x.step \in FileKinds /\ x.exec = e /\ x \in Reading
          /\ reading'[r] = [x EXCEPT !.result = got,
                             !.step = IF got = NoRun THEN NextKind(x.step) ELSE "done"]
        BY <1>6, <1>8 DEF ReadBlob
    <2>2. /\ reading'[r].variables = x.variables /\ reading'[r].result = got
          /\ reading'[r].lost = x.lost
          /\ reading'[r].step = IF got = NoRun THEN NextKind(x.step) ELSE "done"
        BY <2>1 DEF Reading
    <2>3. /\ run \in Large \cup Empty
          /\ run \in Large => FileOf[run] \notin LookedAt(x.step) \ x.lost
          /\ x.all => x.variables = ShownOf(run, x.lost)
        BY <1>6, <1>8, <2>1 DEF ReadingFits, FileKinds
    <2>4. /\ got # NoRun => run \in Large /\ got = run
          /\ run \in Large /\ FileOf[run] = x.step => got = run
        BY <1>6, <1>8, <2>1 DEF OnlyOf, Complete, Uploaded
    <2>5. reading'[r].exec = e /\ Complete(e, run)' /\ reading'[r].all = x.all
        BY <1>6, <1>8
    <2> HIDE DEF x, got
    <2>6. got # NoRun => got = Visible(run)
        BY <1>1, <2>4 DEF Visible
    <2>7. CASE got # NoRun
        BY <2>2, <2>3, <2>5, <2>6, <2>7 DEF ReadingFits, FileKinds
    <2>8. CASE got = NoRun
        <3>1. run \in Large => FileOf[run] # x.step
            BY <1>1, <2>4, <2>8
        <3> QED
            BY <1>1, <2>1, <2>2, <2>3, <2>5, <2>8, <3>1, PassedOver
    <2> QED
        BY <2>7, <2>8
<1>10. CASE BlobLost(r)
    <2> DEFINE x == reading[r]
    <2>1. /\ x.step \in FileKinds /\ x.exec = e /\ x \in Reading /\ x.result = NoRun
          /\ reading'[r] = [x EXCEPT !.lost = @ \cup {x.step}, !.step = NextKind(x.step)]
        BY <1>6, <1>10 DEF BlobLost, ReadingFits
    <2>2. /\ reading'[r].variables = x.variables /\ reading'[r].result = NoRun
          /\ reading'[r].lost = x.lost \cup {x.step} /\ reading'[r].step = NextKind(x.step)
        BY <2>1 DEF Reading
    <2>3. /\ run \in Large \cup Empty
          /\ run \in Large => FileOf[run] \notin LookedAt(x.step) \ x.lost
          /\ x.all => x.variables = ShownOf(run, x.lost)
        BY <1>6, <1>10, <2>1 DEF ReadingFits, FileKinds
    <2>4. reading'[r].exec = e /\ Complete(e, run)' /\ reading'[r].all = x.all
        BY <1>6, <1>10
    <2>5. x.all => x.variables = ShownOf(run, reading'[r].lost)
        BY <2>1, <2>2, <2>3 DEF ShownOf, FileKinds
    <2> QED
        BY <1>1, <2>1, <2>2, <2>3, <2>4, <2>5, PassedOver
<1>9. ASSUME NEW s \in Readers, s # r, Reads(s)
      PROVE  reading'[r] = reading[r]
    BY <1>9 DEF Reads, ReadRow, ReadVariables, VariablesLost, ReadBlob, BlobLost
<1> QED
    BY <1>4, <1>5, <1>7, <1>8, <1>9, <1>10, ReadingMoves DEF Reads

LEMMA ResultsNextRuns ==
    ASSUME ResultsTypes, SuccessInv, StoreInv, RunsInv, [ResultsNext]_allVars
    PROVE  RunsInv'
<1> SUFFICES ASSUME NEW e \in Executions, NEW run \in Runs, ended'[e] \subseteq {run}
             PROVE  RunFits(e, run)'
    BY DEF RunsInv
<1>1. RunFits(e, run)
    BY ResultsGrow DEF RunsInv, Grows
<1>2. OnlyOf(e, run)' /\ (primary'[e] = "Success" => Complete(e, run)')
    BY <1>1, RowFits, SuccessComplete
<1>3. ASSUME NEW c \in Callers, record'[c].step # "none", record'[c].exec = e
      PROVE  RecordFits(c, run)'
    BY <1>1, <1>3, RecordsFit
<1>4. ASSUME NEW r \in Readers, reading'[r].step # "idle", reading'[r].exec = e,
             reading'[r].status = "Success"
      PROVE  ReadingFits(r, run)'
    BY <1>1, <1>4, ReadingsFit
<1> QED
    BY <1>2, <1>3, <1>4 DEF RunFits

-----------------------------------------------------------------------------
(* ListingInv. *)

\* A page goes as far as its last row, and leaves out none before it.
LEMMA PageGoesOn ==
    ASSUME NEW l \in Listing, PageOf(l) # {}
    PROVE  /\ Max(PageOf(l)) \in PageOf(l) /\ \A e \in PageOf(l) : e <= Max(PageOf(l))
           /\ \A e \in RowsAfter(l) : e <= Max(PageOf(l)) => e \in PageOf(l)
<1> DEFINE rows == RowsAfter(l)
           page == PageOf(l)
           Before(e) == {f \in rows : f < e}
<1>1. /\ rows \subseteq Executions /\ page \subseteq rows
      /\ Executions \subseteq Nat /\ IsFiniteSet(Executions) /\ PageSize \in Nat
    BY ResultsAssumption DEF RowsAfter, PageOf
<1>2. \A e \in Executions : IsFiniteSet(Before(e)) /\ Cardinality(Before(e)) \in Nat
    BY <1>1, FS_Subset, FS_CardinalityType
<1>3. page \in SUBSET Nat /\ IsFiniteSet(page)
    BY <1>1, FS_Subset
<1>4. Max(page) \in page /\ \A e \in page : e <= Max(page)
    BY <1>3, MaxOfFinite
<1>5. ASSUME NEW e \in rows, e <= Max(page) PROVE e \in page
    <2> DEFINE m == Max(page)
    <2>1. m \in Executions /\ e \in Executions /\ m \in Nat /\ e \in Nat /\ e <= m
        BY <1>1, <1>4, <1>5
    <2>2. Before(e) \subseteq Before(m)
        <3> HIDE DEF m, rows
        <3> SUFFICES ASSUME NEW f \in rows, f < e PROVE f < m
            OBVIOUS
        <3>1. f \in Nat
            BY <1>1
        <3> QED
            BY <2>1, <3>1
    <2>3. Cardinality(Before(e)) <= Cardinality(Before(m))
        BY <1>2, <2>1, <2>2, FS_Subset
    <2>4. Cardinality(Before(m)) < PageSize
        BY <1>4 DEF PageOf
    <2>5. Cardinality(Before(e)) < PageSize
        BY <1>1, <1>2, <2>1, <2>3, <2>4
    <2> QED
        BY <2>5 DEF PageOf
<1> QED
    BY <1>4, <1>5

LEMMA MatchingStays ==
    ASSUME NEW rows \in {"primary", "user"}, NEW filter \in StoredStatus,
           UNCHANGED <<primary, display>>
    PROVE  Matching'[rows][filter] = Matching[rows][filter]
<1>1. \A e \in Executions : Matches(rows, filter, e)' <=> Matches(rows, filter, e)
    BY DEF Matches, Listed
<1> DEFINE now == {e \in Executions : Matches(rows, filter, e)}
           then == {e \in Executions : Matches(rows, filter, e)'}
<1>2. then = now
    BY <1>1
<1>3. Matching[rows][filter] = now /\ Matching'[rows][filter] = then
    BY MatchingIsSet
<1> QED
    BY <1>2, <1>3

\* What one reader's listing says depends on nothing but it, the setting and the rows.
LEMMA ListingStays ==
    ASSUME ResultsTypes, NEW r \in Readers, ListingFits(r), UNCHANGED setting, SameButSteady(r),
           listing'[r].steady \subseteq listing[r].steady \cap
                                         Matching'[listing[r].rows][listing[r].filter]
    PROVE  ListingFits(r)'
BY DEF ListingFits, SameButSteady

LEMMA PageFits ==
    ASSUME ResultsTypes, NEW r \in Readers, Page(r), ListingFits(r)
    PROVE  ListingFits(r)'
<1> USE DEF ResultsTypes
<1> DEFINE l == listing[r]
           page == PageOf(l)
           after == IF page = {} THEN l.after ELSE Max(page)
<1>1. l \in Listing /\ l.after \in Nat /\ l.listed \in [Executions -> Nat] /\ l.steady \subseteq Executions
    BY DEF Listing
<1>2. /\ listing'[r].step = IF page = RowsAfter(l) THEN "done" ELSE "paging"
      /\ listing'[r].rows = l.rows /\ listing'[r].filter = l.filter
      /\ listing'[r].after = after /\ listing'[r].listed = Shown(l, page)
      /\ listing'[r].steady = l.steady
    BY <1>1 DEF Page, Listing
<1>3. UNCHANGED <<setting, primary, display>>
    BY DEF Page, storeVars
<1>4. page \subseteq RowsAfter(l) /\ RowsAfter(l) \subseteq Executions /\ Executions \subseteq Nat \ {0}
    BY ResultsAssumption DEF PageOf, RowsAfter
<1>5. /\ \A e \in page : e <= after
      /\ \A e \in RowsAfter(l) : e <= after => e \in page
      /\ l.after <= after /\ after \in Nat
    <2>1. CASE page = {}
        BY <1>1, <1>4, <2>1 DEF RowsAfter
    <2>2. CASE page # {}
        <3>1. /\ Max(page) \in page /\ \A e \in page : e <= Max(page)
              /\ \A e \in RowsAfter(l) : e <= Max(page) => e \in page
            BY <1>1, <2>2, PageGoesOn
        <3>2. Max(page) > l.after /\ Max(page) \in Nat
            BY <1>4, <3>1 DEF RowsAfter
        <3> QED
            BY <1>1, <2>2, <3>1, <3>2
    <2> QED BY <2>1, <2>2
<1>6. \A e \in RowsAfter(l) : e > l.after
    BY DEF RowsAfter
<1>7. \A e \in l.steady : /\ Matches(l.rows, l.filter, e)
                          /\ e > l.after => e \in RowsAfter(l)
    <2>1. l.rows \in {"primary", "user"} /\ l.filter \in StoredStatus
        BY <1>1 DEF Listing
    <2>2. Matching[l.rows][l.filter] = {e \in Executions : Matches(l.rows, l.filter, e)}
        BY <2>1, MatchingIsSet
    <2>3. \A e \in l.steady : e \in Executions /\ Matches(l.rows, l.filter, e)
        BY <2>2 DEF ListingFits
    <2> QED
        BY <2>3 DEF Matches, RowsAfter
<1>8. Matching'[l.rows][l.filter] = Matching[l.rows][l.filter]
    <2>1. l.rows \in {"primary", "user"} /\ l.filter \in StoredStatus
        BY <1>1 DEF Listing
    <2> QED
        BY <1>3, <2>1, MatchingStays
<1>9. \A e \in Executions : /\ l.listed[e] <= 1
                            /\ l.listed[e] > 0 => e <= l.after
                            /\ e \in l.steady /\ e <= l.after => l.listed[e] = 1
    BY DEF ListingFits
<1>10. \A e \in Executions : Shown(l, page)[e] = IF e \in page /\ Matches(l.rows, l.filter, e)
                                                 THEN l.listed[e] + 1 ELSE l.listed[e]
    BY DEF Shown
<1> HIDE DEF page, after
<1>11. ASSUME NEW e \in Executions
       PROVE  /\ Shown(l, page)[e] <= 1
              /\ Shown(l, page)[e] > 0 => e <= after
              /\ e \in l.steady /\ e <= after => Shown(l, page)[e] = 1
    <2>1. e \in Nat /\ l.listed[e] \in Nat
        BY <1>1, <1>4
    <2>2. CASE e \in page
        <3>1. e > l.after /\ e <= after
            BY <1>4, <1>5, <1>6, <2>2
        <3>2. l.listed[e] = 0
            BY <1>1, <1>9, <2>1, <3>1
        <3> QED
            BY <1>7, <1>10, <2>2, <3>1, <3>2
    <2>3. CASE e \notin page
        <3>1. Shown(l, page)[e] = l.listed[e]
            BY <1>10, <2>3
        <3>2. l.listed[e] > 0 => e <= after
            BY <1>1, <1>5, <1>9, <2>1
        <3>3. e \in l.steady /\ e <= after => e <= l.after
            BY <1>1, <1>5, <1>7, <2>1, <2>3
        <3> QED
            BY <1>9, <3>1, <3>2, <3>3
    <2> QED BY <2>2, <2>3
<1>12. page = RowsAfter(l) => \A e \in l.steady : e <= after
    <2> SUFFICES ASSUME page = RowsAfter(l), NEW e \in l.steady PROVE e <= after
        OBVIOUS
    <2>1. CASE e > l.after
        BY <1>5, <1>7, <2>1
    <2>2. CASE ~(e > l.after)
        <3>1. e \in Nat /\ l.after \in Nat /\ after \in Nat /\ l.after <= after
            BY <1>1, <1>4, <1>5
        <3> QED
            BY <2>2, <3>1
    <2> QED BY <2>1, <2>2
<1> HIDE DEF l
<1> QED
    BY <1>2, <1>3, <1>8, <1>11, <1>12 DEF ListingFits, l

LEMMA ResultsNextListing ==
    ASSUME ResultsTypes, ListingInv, [ResultsNext]_allVars
    PROVE  ListingInv'
<1> USE DEF ResultsTypes
<1>1. setting.callers \subseteq Callers
    BY ResultsAssumption DEF Setting
<1>2. ASSUME UNCHANGED <<primary, display, setting, listing>> PROVE ListingInv'
    <2> SUFFICES ASSUME NEW r \in Readers, listing[r].step # "idle" PROVE ListingFits(r)'
        BY <1>2 DEF ListingInv
    <2>1. ListingFits(r) /\ listing[r].rows \in {"primary", "user"} /\ listing[r].filter \in StoredStatus
        BY DEF ListingInv, Listing
    <2>2. Matching'[listing[r].rows][listing[r].filter] = Matching[listing[r].rows][listing[r].filter]
        BY <1>2, <2>1, MatchingStays
    <2> QED
        BY <1>2, <2>1, <2>2 DEF ListingFits
<1>3. ASSUME ListingsGoOn, UNCHANGED setting PROVE ListingInv'
    <2> SUFFICES ASSUME NEW r \in Readers, listing'[r].step # "idle" PROVE ListingFits(r)'
        BY DEF ListingInv
    <2>1. SameButSteady(r) /\ (setting.readers = "list" =>
              listing'[r].steady = listing[r].steady \cap Matching'[listing[r].rows][listing[r].filter])
        BY <1>3, ListingsGoOnMoves
    <2>2. ListingFits(r)
        BY <2>1 DEF SameButSteady, ListingInv
    <2>3. setting.readers = "list"
        BY <2>2 DEF ListingFits
    <2> QED
        BY <1>3, <2>1, <2>2, <2>3, ListingStays
<1>4. ASSUME NEW r \in Readers, NEW s \in Readers, r # s, BeginListing(s) \/ Page(s),
             listing'[r].step # "idle"
      PROVE  ListingFits(r)'
    <2>1. listing'[r] = listing[r] /\ UNCHANGED <<primary, display, setting>>
        BY <1>4 DEF BeginListing, Page, storeVars
    <2>2. ListingFits(r) /\ listing[r].rows \in {"primary", "user"} /\ listing[r].filter \in StoredStatus
        BY <1>4, <2>1 DEF ListingInv, Listing
    <2>3. Matching'[listing[r].rows][listing[r].filter] = Matching[listing[r].rows][listing[r].filter]
        BY <2>1, <2>2, MatchingStays
    <2> QED
        BY <2>1, <2>2, <2>3 DEF ListingFits
<1>5. ASSUME NEW r \in Readers, BeginListing(r) PROVE ListingFits(r)'
    <2>1. setting.statuses \cup {"Running", Absent} \subseteq StoredStatus
        BY ResultsAssumption, WritableAssumption DEF Setting
    <2>2. PICK rows \in {"primary", "user"}, filter \in StoredStatus :
              listing'[r] = [NoListing EXCEPT
                  !.step = "paging", !.rows = rows, !.filter = filter,
                  !.steady = Matching[rows][filter]]
        BY <1>5, <2>1 DEF BeginListing
    <2>3. /\ setting'.readers = "list" /\ UNCHANGED <<primary, display>>
        BY <1>5 DEF BeginListing, storeVars
    <2>4. Matching'[rows][filter] = Matching[rows][filter]
        BY <2>3, MatchingStays
    <2>5. \A e \in Executions : e \in Nat \ {0}
        BY ResultsAssumption
    <2>6. /\ listing'[r].step = "paging" /\ listing'[r].rows = rows /\ listing'[r].filter = filter
          /\ listing'[r].steady = Matching[rows][filter] /\ listing'[r].after = 0
          /\ listing'[r].listed = [e \in Executions |-> 0]
        BY <2>2 DEF NoListing
    <2>7. \A e \in Executions : ~(e <= 0)
        BY <2>5
    <2> QED
        BY <2>3, <2>4, <2>6, <2>7 DEF ListingFits
<1>6. ASSUME NEW s \in Readers, BeginListing(s) \/ Page(s) PROVE ListingInv'
    <2> SUFFICES ASSUME NEW r \in Readers, listing'[r].step # "idle" PROVE ListingFits(r)'
        BY DEF ListingInv
    <2>1. CASE r # s
        BY <1>4, <1>6, <2>1
    <2>2. CASE r = s /\ BeginListing(r)
        BY <1>5, <2>2
    <2>3. CASE r = s /\ Page(r)
        <3>1. ListingFits(r)
            BY <2>3 DEF Page, ListingInv
        <3> QED
            BY <2>3, <3>1, PageFits
    <2> QED BY <1>6, <2>1, <2>2, <2>3
<1>7. CASE UNCHANGED allVars
    BY <1>2, <1>7 DEF allVars, storeVars
<1>8. ASSUME NEW r \in Readers, Reads(r)
      PROVE  ListingInv'
    BY <1>2, <1>8 DEF Reads, ReadRow, ReadVariables, VariablesLost, ReadBlob, BlobLost, storeVars
<1>9. CASE ListingsGoOn /\ UNCHANGED setting
    BY <1>3, <1>9
<1> QED
    BY <1>1, <1>6, <1>7, <1>8, <1>9 DEF ResultsNext, Reads, Create, RecordRun, RecordStatus, UploadResult,
       UploadVariables, UploadFails, CallUpdate, ReadForUpdate, WriteResult, WriteRow, RowFault, Abandon

-----------------------------------------------------------------------------
(* The theorems. *)

ResultsInv == ResultsTypes /\ StoreInv /\ SuccessInv /\ RunsInv /\ ListingInv

LEMMA ResultsInitInv == ResultsInit => ResultsInv
<1> SUFFICES ASSUME ResultsInit PROVE ResultsInv
    OBVIOUS
<1>1. StoreInv
    BY StoreInitInv DEF ResultsInit
<1>2. ListingInv
    BY DEF ResultsInit, ListingInv, NoListing
<1> QED
    BY <1>1, <1>2, ResultsInitTypes, ResultsInitRuns DEF ResultsInv

LEMMA ResultsNextInv == ResultsInv /\ [ResultsNext]_allVars => ResultsInv'
<1> SUFFICES ASSUME ResultsInv, [ResultsNext]_allVars PROVE ResultsInv'
    OBVIOUS
<1> USE DEF ResultsInv
<1>1. StoreTypeOK
    BY DEF StoreInv
<1>2. StoreInv'
    BY ResultsStepIsStoreStep, StoreNextInv
<1> QED
    BY <1>1, <1>2, ResultsNextTypes, ResultsNextSuccess, ResultsNextRuns, ResultsNextListing

\* What the logger, the repository, the readers and the listings may rely on at each of their
\* awaits, whoever else is at work.
THEOREM ResultsInvariant == ResultsSpec => []ResultsInv
<1> QED
    BY ResultsInitInv, ResultsNextInv, PTL DEF ResultsSpec

\* A reader who has seen an execution succeed shows the result and the variables of its run, but
\* for what this reader itself could not read: the uploads of execution_logger.py:139-156 are
\* awaited before the row is written.
THEOREM SuccessIsCompleteAlways == ResultsSpec => []SuccessIsComplete
<1>1. ResultsInv => SuccessIsComplete
    <2> SUFFICES ASSUME ResultsInv, NEW r \in Readers, NEW run \in Runs,
                        reading[r].step = "done", reading[r].status = "Success",
                        ended[reading[r].exec] = {run}
                 PROVE  /\ \/ reading[r].result = Visible(run)
                           \/ /\ run \in Large /\ FileOf[run] \in reading[r].lost
                              /\ reading[r].result = NoRun
                        /\ reading[r].all => reading[r].variables =
                              IF run \in Captured /\ "variables" \notin reading[r].lost
                              THEN run ELSE NoRun
        BY DEF SuccessIsComplete
    <2>1. reading[r].exec \in Executions
        BY DEF ResultsInv, SuccessInv
    <2>2. ReadingFits(r, run)
        BY <2>1 DEF ResultsInv, RunsInv, RunFits
    <2> QED
        BY <2>2 DEF ReadingFits, ShownOf
<1> QED
    BY <1>1, ResultsInvariant, PTL

\* Paging shows what matches all the time once, for pages of any size: the token is the key of the
\* last row, not a count of rows (executions_handlers.py:300).
THEOREM ListsEachOnceAlways == ResultsSpec => []ListsEachOnce
<1>1. ResultsInv => ListsEachOnce
    <2> SUFFICES ASSUME ResultsInv, NEW r \in Readers, listing[r].step = "done"
                 PROVE  /\ \A e \in Executions : listing[r].listed[e] <= 1
                        /\ \A e \in listing[r].steady : listing[r].listed[e] = 1
        BY DEF ListsEachOnce
    <2>1. ListingFits(r) /\ listing[r].steady \subseteq Executions
        BY DEF ResultsInv, ResultsTypes, Listing, ListingInv
    <2> QED
        BY <2>1 DEF ListingFits
<1> QED
    BY <1>1, ResultsInvariant, PTL

\* No step of anybody makes a result unreadable: what the merge does not name stays, and ResultInBlob
\* is only set after the upload.
THEOREM ResultsStayAlways == ResultsSpec => ResultsStay
<1>1. ASSUME ResultsInv, [ResultsNext]_allVars, NEW e \in Executions, Readable(e)
      PROVE  Readable(e)'
    <2>0. ResultsTypes /\ SuccessInv
        BY <1>1 DEF ResultsInv
    <2>1. Grows /\ InlineMoves(e)
        BY <1>1, <2>0, ResultsGrow, ColumnsMove
    <2>2. FileKinds \subseteq Blobs /\ NoRun \notin Runs
        BY ResultsAssumption DEF Blobs
    <2>3. CASE \E k \in FileKinds : blob[e][k] # NoRun
        BY <2>1, <2>2, <2>3 DEF Grows, Readable
    <2>4. CASE InModel(e) # NoRun
        <3>1. CASE inline'[e] = inline[e] /\ inBlob'[e] = inBlob[e]
            BY <2>4, <3>1 DEF Readable, InModel
        <3>2. ASSUME NEW c \in Callers, record[c].exec = e, record[c].step = "row", WriteResult(c),
                     inline'[e] = IF record[c].inline \in Runs \ Empty THEN record[c].inline
                                  ELSE IF record[c].read # NoRun THEN record[c].read ELSE inline[e],
                     inBlob'[e] = record[c].toBlob
              PROVE  Readable(e)'
            <4>1. CASE record[c].toBlob
                <5>1. Paired(c) /\ record[c] \in Record
                    BY <2>0 DEF SuccessInv, ResultsTypes
                <5>2. record[c].run \in Runs /\ blob[e][FileOf[record[c].run]] # NoRun
                    BY <3>2, <4>1, <5>1 DEF Paired, Record, MaybeRun
                <5>3. FileOf[record[c].run] \in FileKinds
                    BY <5>2, ResultsAssumption
                <5> QED
                    BY <2>1, <2>2, <5>2, <5>3 DEF Grows, Readable
            <4>2. CASE ~record[c].toBlob
                BY <2>2, <2>4, <3>2, <4>2 DEF Readable, InModel
            <4> QED BY <4>1, <4>2
        <3> QED
            BY <2>1, <3>1, <3>2 DEF InlineMoves
    <2> QED
        BY <1>1, <2>3, <2>4 DEF Readable
<1>2. ResultsInv /\ [ResultsNext]_allVars => [\A e \in Executions : Readable(e) => Readable(e)']_allVars
    BY <1>1
<1> QED
    BY <1>2, ResultsInvariant, PTL DEF ResultsSpec, ResultsStay

HIDE DEF InFlight, InFlightSteps, RestSteps, StoredStatus, ExecutionStatus, ActiveStatuses,
         FinalStatuses, Absent, CallAt, NoCall

-----------------------------------------------------------------------------
(* EngineProcess.  The inductive invariant EngineInOrder has, besides types   *)
(* and OwnLogsKept:                                                          *)
(*   NestedInv   those running, each once, have all met each other;          *)
(*   Stacked     unless one ended out of order, each found at its start what  *)
(*               the one before it had installed, and that is what putting    *)
(*               back what was found is right for;                           *)
(*   AloneInv    an execution that met no other holds its own variables only; *)
(*   FreshInv    nothing is recorded or traced for one that did not start.    *)

\* What the process has after e has installed its own over what s holds.
Installed(s, e) == [stdout |-> e, trace |-> <<e>> \o s.trace,
                    logging |-> IF IsScript(e) THEN e ELSE s.logging]

\* What the process had when the first n of those running had started.
AfterStart(n) == IF n = 0 THEN NothingSaved ELSE Installed(saved[nested[n]], nested[n])

\* Until one ends out of order, each found what the one before it has installed.
Stacked ==
    /\ \A i \in DOMAIN nested : saved[nested[i]] = AfterStart(i - 1)
    /\ [stdout |-> stdout, trace |-> trace, logging |-> logging] = AfterStart(Len(nested))

\* Those running, each once; any two of them have met.
NestedInv ==
    /\ nested \in Seq(Tasks)
    /\ {nested[i] : i \in DOMAIN nested} = Running
    /\ \A i, k \in DOMAIN nested : nested[i] = nested[k] => i = k
    /\ \A e, t \in Running : e # t => e \in met[t]

\* An execution that has met no other, in a process that is in order, has recorded itself alone.
AloneInv ==
    \A e \in Tasks : phase[e] = "running" /\ met[e] = {} /\ ~crossed => vars[e] \subseteq {e}

\* Nothing is recorded for an execution before its start, it has met none, and no trace function of it installed.
FreshInv ==
    /\ \A e \in Tasks : phase[e] = "new" => vars[e] = {} /\ missed[e] = {} /\ met[e] = {}
    /\ \A i \in DOMAIN trace : phase[trace[i]] # "new"
    /\ \A e \in Tasks : \A i \in DOMAIN saved[e].trace : phase[saved[e].trace[i]] # "new"

CacheInv == cache \in [Names -> Tasks \cup {Nobody}]

EngineInOrder ==
    /\ EngineTypeOK /\ OwnLogsKept
    /\ NestedInv /\ AloneInv /\ FreshInv /\ CacheInv
    /\ ~crossed => Stacked

-----------------------------------------------------------------------------

LEMMA EngineInitInOrder == EngineInit => EngineInOrder
<1> SUFFICES ASSUME EngineInit PROVE EngineInOrder
    OBVIOUS
<1> USE EngineAssumption DEF EngineInit
<1>1. EngineTypeOK
    <2>1. Running = {} /\ <<>> \in Seq(Tasks) /\ NothingSaved \in Saved
        BY DEF Running, Saved, NothingSaved
    <2>2. {nested[i] : i \in DOMAIN nested} = {}
        OBVIOUS
    <2>3. /\ saved \in [Tasks -> Saved] /\ phase \in [Tasks -> Phases]
          /\ trace \in Seq(Tasks) /\ handlers = Running
        BY <2>1 DEF Phases
    <2>4. /\ logs \in [Tasks -> SUBSET Tasks] /\ vars \in [Tasks -> SUBSET Tasks]
          /\ missed \in [Tasks -> SUBSET Records] /\ met \in [Tasks -> SUBSET Tasks]
          /\ turns \in [Tasks -> 0..MaxTurns] /\ recycles \in 0..MaxRecycles
        OBVIOUS
    <2> QED
        BY <2>1, <2>2, <2>3, <2>4 DEF EngineTypeOK
<1>2. OwnLogsKept
    BY DEF OwnLogsKept, Recorded
<1>3. NestedInv /\ AloneInv /\ CacheInv /\ FreshInv
    BY DEF NestedInv, AloneInv, CacheInv, FreshInv, Running, NothingSaved
<1>4. Stacked
    BY DEF Stacked, AfterStart, NothingSaved
<1> QED
    BY <1>1, <1>2, <1>3, <1>4 DEF EngineInOrder

-----------------------------------------------------------------------------
(* What the actions have in common. *)

LEMMA TurnTypes ==
    ASSUME EngineTypeOK, NEW e \in Tasks, NEW chain, NEW listening, Turn(e, chain, listening)
    PROVE  /\ logs' \in [Tasks -> SUBSET Tasks] /\ vars' \in [Tasks -> SUBSET Tasks]
           /\ missed' \in [Tasks -> SUBSET Records]
BY DEF EngineTypeOK, Turn, Logged, Taken, Missed, Records

\* A turn is heard by those who listen; its own execution must be one of them.
LEMMA TurnLogs ==
    ASSUME EngineTypeOK, NEW e \in Tasks, NEW chain, NEW listening, Turn(e, chain, listening)
    PROVE  /\ \A t \in Tasks : logs'[t] = IF t \in listening THEN logs[t] \cup {e} ELSE logs[t]
           /\ \A t \in Tasks : t # e => missed'[t] = missed[t]
           /\ e \in listening /\ "logs" \notin missed[e] => "logs" \notin missed'[e]
           /\ Captures(chain, e, e) => "vars" \notin missed'[e]
           /\ \A t \in Tasks : vars'[t] = IF Captures(chain, t, e) THEN vars[t] \cup {e} ELSE vars[t]
BY DEF EngineTypeOK, Turn, Logged, Taken, Missed, Records

\* The one that starts is the last of those running.
LEMMA StartNests ==
    ASSUME EngineTypeOK, NestedInv, NEW e \in Tasks, Start(e)
    PROVE  /\ NestedInv' /\ Running' = Running \cup {e} /\ e \notin Running
           /\ Len(nested') = Len(nested) + 1 /\ nested'[Len(nested) + 1] = e
           /\ \A i \in DOMAIN nested : nested'[i] = nested[i] /\ nested[i] # e
<1> USE DEF EngineTypeOK, NestedInv
<1>1. Running' = Running \cup {e} /\ e \notin Running
    BY DEF Start, Running, Phases
<1>2. /\ nested' \in Seq(Tasks) /\ Len(nested') = Len(nested) + 1 /\ nested'[Len(nested) + 1] = e
      /\ \A i \in DOMAIN nested : nested'[i] = nested[i]
      /\ DOMAIN nested' = DOMAIN nested \cup {Len(nested) + 1}
    BY DEF Start
<1>3. \A i \in DOMAIN nested : nested[i] # e
    BY <1>1
<1>4. {nested'[i] : i \in DOMAIN nested'} = Running'
    <2>1. \A t \in Running : \E i \in DOMAIN nested : nested[i] = t
        OBVIOUS
    <2>2. \A t \in Running' : \E i \in DOMAIN nested' : nested'[i] = t
        BY <1>1, <1>2, <2>1
    <2>3. \A i \in DOMAIN nested' : nested'[i] \in Running'
        BY <1>1, <1>2
    <2> QED
        BY <2>2, <2>3
<1>5. \A i, k \in DOMAIN nested' : nested'[i] = nested'[k] => i = k
    BY <1>2, <1>3
<1>6. \A x, t \in Running' : x # t => x \in met'[t]
    BY <1>1 DEF Start, Running
<1> QED
    BY <1>1, <1>2, <1>3, <1>4, <1>5, <1>6

\* The one that ends goes; in order, it was the last.
LEMMA EndNests ==
    ASSUME EngineTypeOK, NestedInv, NEW e \in Tasks, NEW how \in Phases \ {"running"}, End(e, how)
    PROVE  /\ NestedInv' /\ Running' = Running \ {e} /\ e \in Running
           /\ ~crossed' => /\ ~crossed /\ Len(nested) \in Nat \ {0} /\ nested[Len(nested)] = e
                           /\ Len(nested') = Len(nested) - 1
                           /\ \A i \in 1..(Len(nested) - 1) : nested'[i] = nested[i]
<1> USE DEF EngineTypeOK, NestedInv
<1>1. Running' = Running \ {e} /\ e \in Running
    BY DEF End, Running
<1>2. PICK i \in DOMAIN nested :
         /\ nested[i] = e /\ crossed' = (crossed \/ i # Len(nested))
         /\ nested' = [k \in 1..(Len(nested) - 1) |-> IF k < i THEN nested[k] ELSE nested[k + 1]]
    BY DEF End
<1>3. /\ Len(nested) \in Nat \ {0} /\ i \in 1..Len(nested) /\ DOMAIN nested = 1..Len(nested)
      /\ \A k \in 1..Len(nested) : nested[k] \in Tasks
    BY <1>2
<1>4. nested' \in Seq(Tasks) /\ Len(nested') = Len(nested) - 1 /\ DOMAIN nested' = 1..(Len(nested) - 1)
    BY <1>2, <1>3
<1>5. ASSUME NEW k \in DOMAIN nested, k # i
      PROVE  \E m \in DOMAIN nested' : nested'[m] = nested[k]
    <2>1. CASE k < i
        BY <1>2, <1>3, <1>4, <1>5, <2>1
    <2>2. CASE k > i
        <3>1. k - 1 \in 1..(Len(nested) - 1) /\ ~(k - 1 < i) /\ k - 1 + 1 = k
            BY <1>3, <1>5, <2>2
        <3> QED
            BY <1>2, <1>4, <3>1
    <2> QED
        BY <1>3, <1>5, <2>1, <2>2
<1>6. ASSUME NEW m \in DOMAIN nested'
      PROVE  \E k \in DOMAIN nested : k # i /\ nested'[m] = nested[k] /\ k = IF m < i THEN m ELSE m + 1
    BY <1>2, <1>3, <1>4
<1>7. \A k \in DOMAIN nested : nested[k] = e => k = i
    BY <1>2
<1>8. {nested'[m] : m \in DOMAIN nested'} = Running'
    <2>1. \A m \in DOMAIN nested' : nested'[m] \in Running'
        BY <1>1, <1>6, <1>7
    <2>2. ASSUME NEW t \in Running' PROVE \E m \in DOMAIN nested' : nested'[m] = t
        <3>1. t \in Running /\ t # e
            BY <1>1
        <3>2. PICK k \in DOMAIN nested : nested[k] = t
            BY <3>1
        <3> QED
            BY <1>2, <1>5, <3>1, <3>2
    <2> QED
        BY <2>1, <2>2
<1>9. \A m, n \in DOMAIN nested' : nested'[m] = nested'[n] => m = n
    <2> SUFFICES ASSUME NEW m \in DOMAIN nested', NEW n \in DOMAIN nested', nested'[m] = nested'[n]
                 PROVE  m = n
        OBVIOUS
    <2>1. PICK k \in DOMAIN nested : k # i /\ nested'[m] = nested[k] /\ k = IF m < i THEN m ELSE m + 1
        BY <1>6
    <2>2. PICK l \in DOMAIN nested : l # i /\ nested'[n] = nested[l] /\ l = IF n < i THEN n ELSE n + 1
        BY <1>6
    <2>3. k = l
        BY <2>1, <2>2
    <2>4. m \in 1..(Len(nested) - 1) /\ n \in 1..(Len(nested) - 1)
        BY <1>4
    <2>5. Len(nested) \in Nat /\ i \in Nat
        BY <1>3
    <2>6. m \in Nat /\ n \in Nat
        BY <2>4, <2>5
    <2> QED
        BY <2>1, <2>2, <2>3, <2>5, <2>6
<1>10. \A x, t \in Running' : x # t => x \in met'[t]
    BY <1>1 DEF End
<1>11. ~crossed' => /\ ~crossed /\ Len(nested) \in Nat \ {0} /\ nested[Len(nested)] = e
                    /\ Len(nested') = Len(nested) - 1
                    /\ \A k \in 1..(Len(nested) - 1) : nested'[k] = nested[k]
    <2>1. ~crossed' => ~crossed /\ i = Len(nested)
        BY <1>2
    <2> SUFFICES ASSUME ~crossed' PROVE \A k \in 1..(Len(nested) - 1) : nested'[k] = nested[k]
        BY <1>2, <1>3, <1>4, <2>1
    <2> TAKE k \in 1..(Len(nested) - 1)
    <2>2. k < i
        BY <1>3, <2>1
    <2> QED
        BY <1>2, <2>2
<1> QED
    BY <1>1, <1>4, <1>8, <1>9, <1>10, <1>11

LEMMA StartStacks ==
    ASSUME EngineTypeOK, NestedInv, NEW e \in Tasks, Start(e), Stacked
    PROVE  Stacked'
<1> USE DEF EngineTypeOK, NestedInv
<1>1. /\ Len(nested') = Len(nested) + 1 /\ nested'[Len(nested) + 1] = e
      /\ \A i \in DOMAIN nested : nested'[i] = nested[i] /\ nested[i] # e
      /\ nested' \in Seq(Tasks)
    BY StartNests
<1>2. saved'[e] = [stdout |-> stdout, trace |-> trace, logging |-> logging]
      /\ \A t \in Tasks : t # e => saved'[t] = saved[t]
    BY DEF Start
<1>3. Len(nested) \in Nat /\ DOMAIN nested = 1..Len(nested) /\ DOMAIN nested' = 1..(Len(nested) + 1)
      /\ \A i \in DOMAIN nested : nested[i] \in Tasks
    BY <1>1
<1>4. job' = job
    BY DEF Start
<1>5. ASSUME NEW n \in 0..Len(nested) PROVE AfterStart(n)' = AfterStart(n)
    <2>1. n # 0 => n \in DOMAIN nested
        BY <1>3
    <2>2. n # 0 => nested'[n] = nested[n] /\ saved'[nested[n]] = saved[nested[n]]
        BY <1>1, <1>2, <1>3, <2>1
    <2> QED
        BY <1>4, <2>2 DEF AfterStart, Installed, IsScript
<1>6. ASSUME NEW i \in DOMAIN nested' PROVE (saved[nested[i]] = AfterStart(i - 1))'
    <2>1. CASE i \in DOMAIN nested
        <3>1. i - 1 \in 0..Len(nested)
            BY <1>3, <2>1
        <3> QED
            BY <1>1, <1>2, <1>3, <1>5, <2>1, <3>1 DEF Stacked
    <2>2. CASE i = Len(nested) + 1
        <3>1. i - 1 = Len(nested) /\ Len(nested) \in 0..Len(nested)
            BY <1>3, <2>2
        <3>2. saved'[nested'[i]] = AfterStart(Len(nested))
            BY <1>1, <1>2, <2>2 DEF Stacked
        <3> QED
            BY <1>5, <3>1, <3>2
    <2> QED
        BY <1>3, <2>1, <2>2
<1>7. ([stdout |-> stdout, trace |-> trace, logging |-> logging] = AfterStart(Len(nested)))'
    <2>1. Len(nested') # 0 /\ nested'[Len(nested')] = e
        BY <1>1, <1>3
    <2>2. stdout' = e /\ trace' = <<e>> \o trace /\ logging' = IF IsScript(e) THEN e ELSE logging
        BY DEF Start
    <2>3. AfterStart(Len(nested))' = Installed(saved[e], e)'
        BY <2>1 DEF AfterStart
    <2> QED
        BY <1>2, <1>4, <2>2, <2>3 DEF Installed, IsScript
<1> QED
    BY <1>6, <1>7 DEF Stacked

LEMMA EndStacks ==
    ASSUME EngineTypeOK, NestedInv, NEW e \in Tasks, NEW how \in Phases \ {"running"}, End(e, how),
           ~crossed', Stacked
    PROVE  Stacked'
<1> USE DEF EngineTypeOK, NestedInv
<1>1. /\ Len(nested) \in Nat \ {0} /\ nested[Len(nested)] = e
      /\ Len(nested') = Len(nested) - 1 /\ nested' \in Seq(Tasks)
      /\ \A i \in 1..(Len(nested) - 1) : nested'[i] = nested[i]
    BY EndNests
<1>2. DOMAIN nested' = 1..(Len(nested) - 1) /\ DOMAIN nested = 1..Len(nested)
    BY <1>1
<1>3. saved' = saved /\ job' = job
    BY DEF End
<1>4. ASSUME NEW n \in 0..(Len(nested) - 1) PROVE AfterStart(n)' = AfterStart(n)
    <2>1. n # 0 => n \in 1..(Len(nested) - 1)
        BY <1>1
    <2> QED
        BY <1>1, <1>3, <2>1 DEF AfterStart, Installed, IsScript
<1>5. ASSUME NEW i \in DOMAIN nested' PROVE (saved[nested[i]] = AfterStart(i - 1))'
    <2>1. i - 1 \in 0..(Len(nested) - 1) /\ i \in DOMAIN nested /\ i \in 1..(Len(nested) - 1)
        BY <1>1, <1>2
    <2>2. saved'[nested'[i]] = AfterStart(i - 1)
        BY <1>1, <1>3, <2>1 DEF Stacked
    <2> QED
        BY <1>4, <2>1, <2>2
<1>6. saved[e] = AfterStart(Len(nested) - 1)
    <2>1. Len(nested) \in DOMAIN nested
        BY <1>1, <1>2
    <2> QED
        BY <1>1, <2>1 DEF Stacked
<1>7. [stdout |-> stdout, trace |-> trace, logging |-> logging] = Installed(saved[e], e)
    BY <1>1 DEF Stacked, AfterStart
<1>8. saved[e] = [stdout |-> saved[e].stdout, trace |-> saved[e].trace, logging |-> saved[e].logging]
    BY DEF Saved
<1>9. stdout' = saved[e].stdout /\ trace' = saved[e].trace /\ logging' = saved[e].logging
    BY <1>7 DEF End, Restore, Installed
<1>10. Len(nested) - 1 \in 0..(Len(nested) - 1)
    BY <1>1
<1>11. ([stdout |-> stdout, trace |-> trace, logging |-> logging] = AfterStart(Len(nested)))'
    BY <1>1, <1>4, <1>6, <1>8, <1>9, <1>10
<1> QED
    BY <1>5, <1>11 DEF Stacked

-----------------------------------------------------------------------------
(* What is recorded. *)

\* A step of e that chain traces and the handlers listening hear.
Recording(e, chain, listening) ==
    /\ logs' \in [Tasks -> SUBSET Tasks] /\ vars' \in [Tasks -> SUBSET Tasks]
    /\ missed' \in [Tasks -> SUBSET Records]
    /\ \A t \in Tasks : t # e =>
          /\ missed'[t] = missed[t]
          /\ logs'[t] = IF t \in listening THEN logs[t] \cup {e} ELSE logs[t]
          /\ vars'[t] = IF Captures(chain, t, e) THEN vars[t] \cup {e} ELSE vars[t]
    /\ logs'[e] \subseteq logs[e] \cup {e} /\ vars'[e] \subseteq vars[e] \cup {e}
    /\ phase'[e] # "lost" /\ e \in listening /\ "logs" \notin missed[e]
          => "logs" \notin missed'[e] /\ e \in logs'[e]

LEMMA TurnRecords ==
    ASSUME EngineTypeOK, NEW e \in Tasks, NEW chain, NEW listening, Turn(e, chain, listening)
    PROVE  Recording(e, chain, listening)
<1>1. /\ logs' \in [Tasks -> SUBSET Tasks] /\ vars' \in [Tasks -> SUBSET Tasks]
      /\ missed' \in [Tasks -> SUBSET Records]
    BY TurnTypes
<1>2. \A t \in Tasks : t # e =>
          /\ missed'[t] = missed[t]
          /\ logs'[t] = IF t \in listening THEN logs[t] \cup {e} ELSE logs[t]
          /\ vars'[t] = IF Captures(chain, t, e) THEN vars[t] \cup {e} ELSE vars[t]
    BY TurnLogs
<1>3. logs'[e] = IF e \in listening THEN logs[e] \cup {e} ELSE logs[e]
    BY TurnLogs
<1>4. vars'[e] = IF Captures(chain, e, e) THEN vars[e] \cup {e} ELSE vars[e]
    BY TurnLogs
<1>5. e \in listening /\ "logs" \notin missed[e] => "logs" \notin missed'[e]
    BY TurnLogs
<1>6. logs'[e] \subseteq logs[e] \cup {e} /\ vars'[e] \subseteq vars[e] \cup {e}
    BY <1>3, <1>4
<1> QED
    BY <1>1, <1>2, <1>3, <1>5, <1>6 DEF Recording

LEMMA RaiseRecords ==
    ASSUME EngineTypeOK, NEW e \in Tasks, Raise(e) \/ RaiseTypeError(e)
    PROVE  Recording(e, trace, handlers)
<1> USE DEF EngineTypeOK
<1>1. Taken(e, trace) \in [Tasks -> SUBSET Tasks]
      /\ \A t \in Tasks : Taken(e, trace)[t] = IF Captures(trace, t, e) THEN vars[t] \cup {e} ELSE vars[t]
    BY DEF Taken
<1> DEFINE taken == Taken(e, trace)
<1> HIDE DEF taken
<1>2. CASE Raise(e)
    <2>1. vars' = [taken EXCEPT ![e] = @ \cup {e}]
        BY <1>2 DEF Raise, taken
    <2>2. /\ vars' \in [Tasks -> SUBSET Tasks] /\ vars'[e] \subseteq vars[e] \cup {e}
          /\ \A t \in Tasks : t # e => vars'[t] = IF Captures(trace, t, e) THEN vars[t] \cup {e} ELSE vars[t]
        BY <1>1, <2>1 DEF taken
    <2>3. /\ logs' \in [Tasks -> SUBSET Tasks]
          /\ \A t \in Tasks : logs'[t] = IF t \in handlers THEN logs[t] \cup {e} ELSE logs[t]
        BY <1>2 DEF Raise, Logged
    <2>4. /\ missed' \in [Tasks -> SUBSET Records] /\ \A t \in Tasks : t # e => missed'[t] = missed[t]
          /\ "logs" \in missed'[e] => "logs" \in missed[e] \/ e \notin handlers
        BY <1>2 DEF Raise, Missed, Records
    <2> QED
        BY <2>2, <2>3, <2>4 DEF Recording
<1>3. CASE RaiseTypeError(e)
    <2>1. vars' = [taken EXCEPT ![e] = {}]
        BY <1>3 DEF RaiseTypeError, taken
    <2>2. /\ vars' \in [Tasks -> SUBSET Tasks] /\ vars'[e] \subseteq vars[e] \cup {e}
          /\ \A t \in Tasks : t # e => vars'[t] = IF Captures(trace, t, e) THEN vars[t] \cup {e} ELSE vars[t]
        BY <1>1, <2>1 DEF taken
    <2>3. PICK how \in {"failed", "lost"} :
              /\ phase' = [phase EXCEPT ![e] = how]
              /\ logs' = [t \in Tasks |->
                             IF t = e /\ how = "lost" THEN {}
                             ELSE IF t \in handlers THEN logs[t] \cup {e} ELSE logs[t]]
              /\ missed' = [missed EXCEPT ![e] = IF how = "lost" THEN Records
                                                ELSE Missed(e, FALSE, handlers)]
        BY <1>3 DEF RaiseTypeError, End
    <2>4. phase'[e] = how
        BY <2>3
    <2>5. /\ logs' \in [Tasks -> SUBSET Tasks] /\ logs'[e] \subseteq logs[e] \cup {e}
          /\ \A t \in Tasks : t # e => logs'[t] = IF t \in handlers THEN logs[t] \cup {e} ELSE logs[t]
          /\ how # "lost" /\ e \in handlers => e \in logs'[e]
        BY <2>3
    <2>6. /\ missed' \in [Tasks -> SUBSET Records] /\ \A t \in Tasks : t # e => missed'[t] = missed[t]
          /\ how # "lost" /\ "logs" \in missed'[e] => "logs" \in missed[e] \/ e \notin handlers
        BY <2>3 DEF Missed, Records
    <2> QED
        BY <2>2, <2>4, <2>5, <2>6 DEF Recording
<1> QED BY <1>2, <1>3

\* What a step of e must keep so that everybody has his own records.
LEMMA RecordingKeeps ==
    ASSUME EngineInOrder, NEW e \in Tasks, NEW chain \in Seq(Tasks), NEW listening,
           Recording(e, chain, listening), NestedInv',
           e \in listening, "logs" \notin missed[e],
           \A t \in Tasks : t \in listening /\ t # e => e \in met'[t],
           \A t \in Tasks : met[t] \subseteq met'[t],
           \A t \in Tasks : t # e => phase'[t] = phase[t],
           phase'[e] # "new", \A i \in DOMAIN chain : phase'[chain[i]] # "new",
           \/ phase[e] = "running"
           \/ phase'[e] = "running" /\ vars[e] = {},
           ~crossed' => ~crossed
    PROVE  /\ OwnLogsKept' /\ AloneInv'
           /\ \A t \in Tasks : phase'[t] = "new" => vars'[t] = {} /\ missed'[t] = {}
<1> USE DEF EngineInOrder, EngineTypeOK, Recording
<1>1. ASSUME NEW t \in Tasks
      PROVE  /\ Recorded(t)' \/ phase'[t] = "running" => "logs" \notin missed'[t] /\ t \in logs'[t]
             /\ logs'[t] \subseteq {t} \cup met'[t]
    <2>1. CASE t = e
        BY <2>1 DEF OwnLogsKept, Recorded
    <2>2. CASE t # e
        <3>1. /\ phase'[t] = phase[t] /\ missed'[t] = missed[t] /\ met[t] \subseteq met'[t]
              /\ logs'[t] = IF t \in listening THEN logs[t] \cup {e} ELSE logs[t]
              /\ t \in listening => e \in met'[t]
            BY <2>2
        <3>2. /\ Recorded(t) \/ phase[t] = "running" => "logs" \notin missed[t] /\ t \in logs[t]
              /\ logs[t] \subseteq {t} \cup met[t]
            BY DEF OwnLogsKept
        <3>3. logs'[t] \subseteq {t} \cup met'[t] /\ logs[t] \subseteq logs'[t]
            BY <3>1, <3>2
        <3>4. Recorded(t)' \/ phase'[t] = "running" => Recorded(t) \/ phase[t] = "running"
            BY <3>1 DEF Recorded
        <3> QED
            BY <3>1, <3>2, <3>3, <3>4
    <2> QED BY <2>1, <2>2
<1>2. ASSUME NEW t \in Tasks, phase'[t] = "running", met'[t] = {}, ~crossed'
      PROVE  vars'[t] \subseteq {t}
    <2>1. t = e
        <3> SUFFICES ASSUME t # e PROVE FALSE
            OBVIOUS
        <3>1. phase[t] = "running" /\ t \in Running /\ t \in Running'
            BY <1>2 DEF Running
        <3>2. e \in Running \/ e \in Running'
            BY DEF Running
        <3>3. e \in met[t] \/ e \in met'[t]
            BY <3>1, <3>2 DEF NestedInv
        <3> QED
            BY <1>2, <3>3
    <2>2. met[e] = {}
        BY <1>2, <2>1
    <2> QED
        BY <1>2, <2>1, <2>2 DEF AloneInv
<1>3. ASSUME NEW t \in Tasks, phase'[t] = "new" PROVE vars'[t] = {} /\ missed'[t] = {}
    <2>1. t # e /\ phase[t] = "new"
        BY <1>3
    <2>2. ~Captures(chain, t, e)
        <3> SUFFICES ASSUME Captures(chain, t, e) PROVE FALSE
            OBVIOUS
        <3>1. chain # <<>> /\ t = chain[Len(chain)]
            BY DEF Captures, Tracer
        <3>2. Len(chain) \in DOMAIN chain
            BY <3>1
        <3> QED
            BY <1>3, <3>1, <3>2
    <2> QED
        BY <2>1, <2>2 DEF FreshInv
<1> QED
    BY <1>1, <1>2, <1>3 DEF OwnLogsKept, AloneInv

-----------------------------------------------------------------------------
(* The steps. *)

\* An end records like a turn; it leaves the order as it is or is remembered as crossing it.
LEMMA EndKeeps ==
    ASSUME EngineInOrder, NEW e \in Tasks, NEW how \in Phases \ {"running", "new"}, End(e, how),
           Recording(e, trace, handlers),
           \/ UNCHANGED cache
           \/ /\ IsProvider(e) /\ how = "returned"
              /\ cache' = [cache EXCEPT ![job[e].name] = e]
    PROVE  EngineInOrder'
<1> USE DEF EngineInOrder, EngineTypeOK
<1>1. NestedInv' /\ Running' = Running \ {e} /\ e \in Running /\ (~crossed' => ~crossed)
    BY EndNests DEF End
<1>2. /\ phase[e] = "running" /\ phase' = [phase EXCEPT ![e] = how]
      /\ UNCHANGED <<job, saved, turns, recycles, met>>
    BY DEF End
<1>3. \A t \in Tasks : phase[t] # "new" => phase'[t] # "new"
    BY <1>2
<1>4. "logs" \notin missed[e]
    BY <1>2 DEF OwnLogsKept
<1>5. \A i \in DOMAIN trace : phase'[trace[i]] # "new"
    <2>1. \A i \in DOMAIN trace : trace[i] \in Tasks
        OBVIOUS
    <2> QED
        BY <1>3, <2>1 DEF FreshInv
<1>6. \A t \in Tasks : t \in handlers /\ t # e => e \in met'[t]
    BY <1>1, <1>2 DEF NestedInv
<1>7. /\ OwnLogsKept' /\ AloneInv'
      /\ \A t \in Tasks : phase'[t] = "new" => vars'[t] = {} /\ missed'[t] = {}
    <2>1. /\ \A t \in Tasks : met[t] \subseteq met'[t]
          /\ \A t \in Tasks : t # e => phase'[t] = phase[t]
          /\ phase'[e] # "new" /\ e \in handlers
        BY <1>1, <1>2
    <2> HIDE DEF EngineInOrder, EngineTypeOK
    <2>2. trace \in Seq(Tasks)
        BY DEF EngineInOrder, EngineTypeOK
    <2> QED
        BY <1>1, <1>2, <1>4, <1>5, <1>6, <2>1, <2>2, RecordingKeeps
<1>8. /\ stdout' = saved[e].stdout /\ trace' = saved[e].trace /\ handlers' = handlers \ {e}
      /\ logging' = IF IsScript(e) THEN saved[e].logging ELSE logging
    BY DEF End, Restore
<1>9. FreshInv'
    <2>1. \A t \in Tasks : \A i \in DOMAIN saved[t].trace : saved[t].trace[i] \in Tasks
        BY DEF Saved
    <2>2. \A t \in Tasks : \A i \in DOMAIN saved[t].trace : phase'[saved[t].trace[i]] # "new"
        BY <1>3, <2>1 DEF FreshInv
    <2> QED
        BY <1>2, <1>3, <1>7, <1>8, <2>2 DEF FreshInv
<1>10. CacheInv' /\ \A name \in Names :
          cache'[name] \in {Nobody} \cup {t \in Tasks : /\ IsProvider(t)'
                                                        /\ phase'[t] = "returned"
                                                        /\ job'[t].name = name}
    <2>1. job[e] \in Job /\ job[e].name \in Names /\ job' = job
        BY <1>2, EngineAssumption DEF Job
    <2>2. \A t \in Tasks : phase[t] = "returned" => phase'[t] = "returned"
        BY <1>2
    <2>3. CASE UNCHANGED cache
        BY <2>1, <2>2, <2>3 DEF CacheInv, IsProvider
    <2>4. CASE IsProvider(e) /\ how = "returned" /\ cache' = [cache EXCEPT ![job[e].name] = e]
        BY <1>2, <2>1, <2>2, <2>4 DEF CacheInv, IsProvider
    <2> QED BY <2>3, <2>4
<1>11. EngineTypeOK'
    <2>1. saved[e] \in Saved /\ stdout' \in Tasks \cup {Nobody} /\ logging' \in Tasks \cup {Nobody}
          /\ trace' \in Seq(Tasks)
        BY <1>8 DEF Saved
    <2>2. handlers' = Running' /\ {nested'[i] : i \in DOMAIN nested'} = Running'
        BY <1>1, <1>8 DEF NestedInv
    <2>3. crossed' \in BOOLEAN
        BY DEF End
    <2>4. phase' \in [Tasks -> Phases]
        BY <1>2
    <2>5. /\ logs' \in [Tasks -> SUBSET Tasks] /\ vars' \in [Tasks -> SUBSET Tasks]
          /\ missed' \in [Tasks -> SUBSET Records]
        BY DEF Recording
    <2> QED
        BY <1>2, <1>10, <2>1, <2>2, <2>3, <2>4, <2>5
<1>12. ~crossed' => Stacked'
    <2> HIDE DEF EngineTypeOK
    <2> QED
        BY <1>1, EndStacks
<1> QED
    BY <1>1, <1>7, <1>9, <1>10, <1>11, <1>12

LEMMA StartKeeps ==
    ASSUME EngineInOrder, NEW e \in Tasks, Start(e)
    PROVE  EngineInOrder'
<1> USE DEF EngineInOrder, EngineTypeOK
<1>1. NestedInv' /\ Running' = Running \cup {e} /\ e \notin Running
    BY StartNests
<1>2. /\ phase[e] = "new" /\ phase' = [phase EXCEPT ![e] = "running"]
      /\ saved' = [saved EXCEPT ![e] = [stdout |-> stdout, trace |-> trace, logging |-> logging]]
      /\ UNCHANGED <<job, cache, turns, recycles, crossed>>
      /\ stdout' = e /\ handlers' = handlers \cup {e} /\ trace' = <<e>> \o trace
      /\ logging' = IF IsScript(e) THEN e ELSE logging
      /\ Turn(e, trace', handlers')
      /\ met' = [t \in Tasks |-> IF t = e THEN Running
                                 ELSE IF t \in Running THEN met[t] \cup {e} ELSE met[t]]
    BY DEF Start
<1>3. \A t \in Tasks : phase[t] # "new" => phase'[t] # "new"
    BY <1>2
<1>4. vars[e] = {} /\ missed[e] = {}
    BY <1>2 DEF FreshInv
<1>5. /\ trace' \in Seq(Tasks) /\ DOMAIN trace' = 1..(Len(trace) + 1) /\ trace'[1] = e
      /\ \A i \in 1..Len(trace) : trace'[i + 1] = trace[i]
    BY <1>2
<1>6. \A i \in DOMAIN trace' : phase'[trace'[i]] # "new"
    <2>3. phase'[e] # "new" /\ phase'[trace'[1]] # "new"
        BY <1>2, <1>5
    <2> SUFFICES ASSUME NEW i \in DOMAIN trace', i # 1 PROVE phase'[trace'[i]] # "new"
        BY <2>3
    <2>0. Len(trace) \in Nat /\ DOMAIN trace = 1..Len(trace) /\ i \in 1..(Len(trace) + 1)
        BY <1>5
    <2>1. i - 1 \in 1..Len(trace) /\ i - 1 + 1 = i /\ i - 1 \in DOMAIN trace
        BY <2>0
    <2>2. trace'[i] = trace[i - 1] /\ trace[i - 1] \in Tasks
        BY <1>5, <2>1
    <2> QED
        BY <1>3, <2>1, <2>2 DEF FreshInv
<1>7. /\ OwnLogsKept' /\ AloneInv'
      /\ \A t \in Tasks : phase'[t] = "new" => vars'[t] = {} /\ missed'[t] = {}
    <2>1. /\ \A t \in Tasks : t \in handlers' /\ t # e => e \in met'[t]
          /\ \A t \in Tasks : met[t] \subseteq met'[t]
        <3>1. met[e] = {}
            BY <1>2 DEF FreshInv
        <3> QED
            BY <1>2, <3>1
    <2>2. /\ \A t \in Tasks : t # e => phase'[t] = phase[t]
          /\ phase'[e] = "running" /\ e \in handlers'
        BY <1>2
    <2>3. PICK chain, listening : chain = trace' /\ listening = handlers'
        OBVIOUS
    <2>4. Recording(e, chain, listening)
        <3>1. Turn(e, chain, listening)
            BY <1>2, <2>3 DEF Turn, Logged, Missed, Taken, Captures, Tracer
        <3> QED
            BY <3>1, TurnRecords
    <2>5. /\ chain \in Seq(Tasks) /\ \A i \in DOMAIN chain : phase'[chain[i]] # "new"
          /\ e \in listening /\ \A t \in Tasks : t \in listening /\ t # e => e \in met'[t]
        BY <1>5, <1>6, <2>1, <2>2, <2>3
    <2>6. /\ "logs" \notin missed[e] /\ vars[e] = {} /\ phase'[e] # "new" /\ (~crossed' => ~crossed)
        BY <1>2, <1>4, <2>2
    <2> HIDE DEF EngineInOrder, EngineTypeOK
    <2> QED
        BY <1>1, <2>1, <2>2, <2>4, <2>5, <2>6, RecordingKeeps
<1>8. FreshInv'
    <2>1. ASSUME NEW t \in Tasks, NEW i \in DOMAIN saved'[t].trace PROVE phase'[saved'[t].trace[i]] # "new"
        <3>1. CASE t = e
            <4>1. saved'[t].trace = trace /\ i \in DOMAIN trace /\ trace[i] \in Tasks
                BY <1>2, <2>1, <3>1
            <4> QED
                BY <1>3, <4>1 DEF FreshInv
        <3>2. CASE t # e
            <4>1. saved'[t] = saved[t] /\ i \in DOMAIN saved[t].trace /\ saved[t].trace[i] \in Tasks
                BY <1>2, <2>1, <3>2 DEF Saved
            <4> QED
                BY <1>3, <4>1 DEF FreshInv
        <3> QED BY <3>1, <3>2
    <2>2. \A t \in Tasks : phase'[t] = "new" => t # e /\ t \notin Running /\ met'[t] = {}
        BY <1>2 DEF FreshInv, Running
    <2> QED
        BY <1>6, <1>7, <2>1, <2>2 DEF FreshInv
<1>9. CacheInv' /\ \A name \in Names :
          cache'[name] \in {Nobody} \cup {t \in Tasks : /\ IsProvider(t)'
                                                        /\ phase'[t] = "returned"
                                                        /\ job'[t].name = name}
    <2>1. \A t \in Tasks : phase[t] = "returned" => phase'[t] = "returned"
        BY <1>2
    <2> QED
        BY <1>2, <2>1 DEF CacheInv, IsProvider
<1>10. EngineTypeOK'
    <2>1. saved' \in [Tasks -> Saved] /\ stdout' \in Tasks \cup {Nobody} /\ logging' \in Tasks \cup {Nobody}
        BY <1>2 DEF Saved
    <2>2. handlers' = Running' /\ {nested'[i] : i \in DOMAIN nested'} = Running'
        BY <1>1, <1>2 DEF NestedInv
    <2>3. phase' \in [Tasks -> Phases] /\ met' \in [Tasks -> SUBSET Tasks]
        BY <1>2 DEF Phases, Running
    <2>4. /\ logs' \in [Tasks -> SUBSET Tasks] /\ vars' \in [Tasks -> SUBSET Tasks]
          /\ missed' \in [Tasks -> SUBSET Records]
        BY <1>2, TurnTypes
    <2> QED
        BY <1>2, <1>5, <1>9, <2>1, <2>2, <2>3, <2>4
<1>11. ~crossed' => Stacked'
    <2> HIDE DEF EngineTypeOK
    <2> QED
        BY <1>1, <1>2, StartStacks
<1> QED
    BY <1>1, <1>7, <1>8, <1>9, <1>10, <1>11

LEMMA ResumeKeeps ==
    ASSUME EngineInOrder, NEW e \in Tasks, Resume(e)
    PROVE  EngineInOrder'
<1> USE DEF EngineInOrder, EngineTypeOK
<1>1. /\ phase[e] = "running" /\ turns[e] < MaxTurns /\ turns' = [turns EXCEPT ![e] = @ + 1]
      /\ Turn(e, trace, handlers)
      /\ UNCHANGED <<job, phase, globals, saved, cache, recycles, nested, crossed, met>>
    BY DEF Resume
<1>2. UNCHANGED <<stdout, trace, handlers, logging>> /\ Running' = Running /\ e \in Running
    BY <1>1 DEF globals, Running
<1>3. "logs" \notin missed[e]
    BY <1>1 DEF OwnLogsKept
<1>4. NestedInv' /\ \A t \in Tasks : t \in handlers /\ t # e => e \in met'[t]
    BY <1>1, <1>2 DEF NestedInv
<1>5. \A i \in DOMAIN trace : phase'[trace[i]] # "new"
    BY <1>1 DEF FreshInv
<1>6. /\ OwnLogsKept' /\ AloneInv'
      /\ \A t \in Tasks : phase'[t] = "new" => vars'[t] = {} /\ missed'[t] = {}
    <2>1. /\ \A t \in Tasks : met[t] \subseteq met'[t]
          /\ \A t \in Tasks : t # e => phase'[t] = phase[t]
          /\ phase'[e] # "new" /\ e \in handlers
        BY <1>1, <1>2
    <2>2. Recording(e, trace, handlers)
        BY <1>1, TurnRecords
    <2> HIDE DEF EngineInOrder, EngineTypeOK
    <2>3. trace \in Seq(Tasks)
        BY DEF EngineInOrder, EngineTypeOK
    <2> QED
        BY <1>1, <1>3, <1>4, <1>5, <2>1, <2>2, <2>3, RecordingKeeps
<1>7. FreshInv' /\ CacheInv'
    BY <1>1, <1>2, <1>6 DEF FreshInv, CacheInv
<1>8. EngineTypeOK'
    <2>1. turns' \in [Tasks -> 0..MaxTurns]
        BY <1>1, EngineAssumption
    <2>2. /\ logs' \in [Tasks -> SUBSET Tasks] /\ vars' \in [Tasks -> SUBSET Tasks]
          /\ missed' \in [Tasks -> SUBSET Records]
        BY <1>1, TurnTypes
    <2>3. \A t \in Tasks : IsProvider(t)' = IsProvider(t)
        BY <1>1 DEF IsProvider
    <2> QED
        BY <1>1, <1>2, <2>1, <2>2, <2>3
<1>9. Stacked => Stacked'
    BY <1>1, <1>2 DEF Stacked, AfterStart, Installed, IsScript
<1> QED
    BY <1>1, <1>4, <1>6, <1>7, <1>8, <1>9

LEMMA CacheStepKeeps ==
    ASSUME EngineInOrder,
           (\E e \in Tasks : ServeCached(e)) \/ \E name \in Names : Expire(name)
    PROVE  EngineInOrder'
<1> USE DEF EngineInOrder, EngineTypeOK
<1>1. /\ UNCHANGED <<job, saved, logs, vars, missed, turns, recycles, nested, crossed, met>>
      /\ UNCHANGED <<stdout, trace, handlers, logging>>
    BY DEF ServeCached, Expire, globals
<1>2. /\ phase' \in [Tasks -> Phases]
      /\ \A t \in Tasks : phase'[t] = phase[t] \/ (phase[t] = "new" /\ phase'[t] = "cached")
    <2>1. ASSUME NEW e \in Tasks, ServeCached(e)
          PROVE  phase[e] = "new" /\ phase' = [phase EXCEPT ![e] = "cached"]
        BY <2>1 DEF ServeCached
    <2>2. ASSUME NEW name \in Names, Expire(name) PROVE UNCHANGED phase
        BY <2>2 DEF Expire
    <2>3. "cached" \in Phases
        BY DEF Phases
    <2>4. UNCHANGED phase \/ \E e \in Tasks : phase[e] = "new" /\ phase' = [phase EXCEPT ![e] = "cached"]
        BY <2>1, <2>2
    <2> QED
        BY <2>3, <2>4
<1>3. Running' = Running
    BY <1>2 DEF Running
<1>4. CacheInv' /\ \A name \in Names : cache'[name] \in {cache[name], Nobody}
    BY DEF ServeCached, Expire, CacheInv
<1>5. \A name \in Names : cache'[name] \in {Nobody} \cup {t \in Tasks : /\ IsProvider(t)'
                                                                        /\ phase'[t] = "returned"
                                                                        /\ job'[t].name = name}
    BY <1>1, <1>2, <1>4 DEF IsProvider
<1>6. EngineTypeOK'
    BY <1>1, <1>2, <1>3, <1>5
<1>7. OwnLogsKept' /\ NestedInv' /\ AloneInv'
    <2>1. \A t \in Tasks : /\ phase'[t] = "running" <=> phase[t] = "running"
                           /\ Recorded(t)' <=> Recorded(t)
        BY <1>2 DEF Recorded
    <2>2. OwnLogsKept'
        BY <1>1, <2>1 DEF OwnLogsKept
    <2>3. NestedInv'
        BY <1>1, <1>3 DEF NestedInv
    <2>4. AloneInv'
        BY <1>1, <2>1 DEF AloneInv
    <2> QED BY <2>2, <2>3, <2>4
<1>8. FreshInv'
    <2>1. \A t \in Tasks : phase[t] # "new" => phase'[t] # "new"
        BY <1>2
    <2>2. \A i \in DOMAIN trace : trace[i] \in Tasks
        OBVIOUS
    <2>3. \A t \in Tasks : \A i \in DOMAIN saved[t].trace : saved[t].trace[i] \in Tasks
        BY DEF Saved
    <2> QED
        BY <1>1, <1>2, <2>1, <2>2, <2>3 DEF FreshInv
<1>9. Stacked => Stacked'
    BY <1>1 DEF Stacked, AfterStart, Installed, IsScript
<1> QED
    BY <1>1, <1>4, <1>6, <1>7, <1>8, <1>9

LEMMA RecycleKeeps ==
    ASSUME EngineInOrder, Recycle
    PROVE  EngineInOrder'
<1> USE DEF EngineInOrder, EngineTypeOK
<1>1. /\ phase' = [e \in Tasks |-> IF e \in Running THEN "killed" ELSE phase[e]]
      /\ stdout' = Nobody /\ trace' = <<>> /\ handlers' = {} /\ logging' = Nobody
      /\ cache' = [name \in Names |-> Nobody] /\ nested' = <<>> /\ crossed' = FALSE
      /\ recycles' = recycles + 1 /\ recycles < MaxRecycles
      /\ UNCHANGED <<job, saved, logs, vars, missed, turns, met>>
    BY DEF Recycle
<1>2. phase' \in [Tasks -> Phases] /\ Running' = {}
      /\ \A t \in Tasks : phase[t] # "new" => phase'[t] # "new"
    BY <1>1 DEF Phases, Running
<1>3. \A t \in Tasks : phase'[t] # "running" /\ (phase'[t] \in {"new", "returned", "failed"} => phase'[t] = phase[t])
    BY <1>1 DEF Running
<1>4. recycles' \in 0..MaxRecycles
    BY <1>1, EngineAssumption
<1>5. CacheInv' /\ \A name \in Names : cache'[name] = Nobody
    BY <1>1 DEF CacheInv
<1>6. EngineTypeOK'
    <2>1. {nested'[i] : i \in DOMAIN nested'} = {} /\ trace' \in Seq(Tasks)
        BY <1>1
    <2> QED
        BY <1>1, <1>2, <1>4, <1>5, <2>1
<1>7. OwnLogsKept' /\ AloneInv'
    BY <1>1, <1>3 DEF OwnLogsKept, Recorded, AloneInv
<1>8. NestedInv'
    BY <1>1, <1>2, <1>6 DEF NestedInv
<1>9. FreshInv'
    <2>1. \A t \in Tasks : \A i \in DOMAIN saved[t].trace : saved[t].trace[i] \in Tasks
        BY DEF Saved
    <2> QED
        BY <1>1, <1>2, <1>3, <2>1 DEF FreshInv
<1>10. Stacked'
    BY <1>1 DEF Stacked, AfterStart, NothingSaved
<1> QED
    BY <1>5, <1>6, <1>7, <1>8, <1>9, <1>10

LEMMA EngineNextInOrder == EngineInOrder /\ [EngineNext]_engineVars => EngineInOrder'
<1> SUFFICES ASSUME EngineInOrder, [EngineNext]_engineVars PROVE EngineInOrder'
    OBVIOUS
<1>0. EngineTypeOK
    BY DEF EngineInOrder
<1>1. ASSUME NEW e \in Tasks, Return(e) PROVE EngineInOrder'
    <2>1. End(e, "returned") /\ Recording(e, trace, handlers)
        BY <1>0, <1>1, TurnRecords DEF Return
    <2>2. \/ UNCHANGED cache
          \/ IsProvider(e) /\ cache' = [cache EXCEPT ![job[e].name] = e]
        BY <1>1 DEF Return
    <2>3. "returned" \in Phases \ {"running", "new"}
        BY DEF Phases
    <2> QED
        BY <2>1, <2>2, <2>3, EndKeeps
<1>2. ASSUME NEW e \in Tasks, CancelTask(e) PROVE EngineInOrder'
    <2>1. End(e, "cancelled") /\ Recording(e, trace, handlers) /\ UNCHANGED cache
        BY <1>0, <1>2, TurnRecords DEF CancelTask
    <2>2. "cancelled" \in Phases \ {"running", "new"}
        BY DEF Phases
    <2> QED
        BY <2>1, <2>2, EndKeeps
<1>3. ASSUME NEW e \in Tasks, Raise(e) \/ RaiseTypeError(e) PROVE EngineInOrder'
    <2>1. PICK how \in {"failed", "lost"} : End(e, how)
        BY <1>3 DEF Raise, RaiseTypeError
    <2>2. Recording(e, trace, handlers) /\ UNCHANGED cache
        BY <1>0, <1>3, RaiseRecords DEF Raise, RaiseTypeError
    <2>3. how \in Phases \ {"running", "new"}
        BY DEF Phases
    <2> QED
        BY <2>1, <2>2, <2>3, EndKeeps
<1>4. CASE UNCHANGED engineVars
    <2>1. /\ UNCHANGED <<job, phase, stdout, trace, handlers, logging, saved, logs, vars, missed>>
          /\ UNCHANGED <<cache, turns, recycles, nested, crossed, met>>
        BY <1>4 DEF engineVars, globals
    <2>2. EngineTypeOK'
        BY <1>0, <2>1 DEF EngineTypeOK, IsProvider, Running
    <2>3. OwnLogsKept' /\ NestedInv' /\ AloneInv' /\ FreshInv' /\ CacheInv'
        BY <2>1 DEF EngineInOrder, OwnLogsKept, Recorded, NestedInv, AloneInv, FreshInv, CacheInv, Running
    <2>4. ~crossed' => Stacked'
        BY <2>1 DEF EngineInOrder, Stacked, AfterStart, Installed, IsScript
    <2> QED
        BY <2>2, <2>3, <2>4 DEF EngineInOrder
<1> QED
    BY <1>1, <1>2, <1>3, <1>4, StartKeeps, ResumeKeeps, CacheStepKeeps, RecycleKeeps DEF EngineNext

-----------------------------------------------------------------------------
(* The theorems. *)

\* A process in order has only its own trace function while one runs that has met no other.
LEMMA AloneIsTraced ==
    ASSUME EngineInOrder, NEW e \in Tasks, phase[e] = "running", met[e] = {}, ~crossed
    PROVE  trace = <<e>>
<1> USE DEF EngineInOrder, NestedInv
<1>1. Running = {e}
    BY DEF Running
<1>2. /\ DOMAIN nested = 1..Len(nested) /\ Len(nested) \in Nat
      /\ \A i \in 1..Len(nested) : nested[i] = e
    BY <1>1
<1>3. Len(nested) # 0
    BY <1>1, <1>2
<1>4. ~(Len(nested) > 1)
    <2> SUFFICES ASSUME Len(nested) > 1 PROVE FALSE
        OBVIOUS
    <2>1. 1 \in DOMAIN nested /\ 2 \in DOMAIN nested /\ nested[1] = nested[2]
        BY <1>2
    <2> QED
        BY <2>1
<1>5. Len(nested) = 1 /\ nested[1] = e /\ 1 \in DOMAIN nested
    BY <1>2, <1>3, <1>4
<1>6. saved[e] = NothingSaved
    BY <1>5 DEF Stacked, AfterStart
<1>7. trace = <<e>> \o saved[e].trace
    BY <1>5 DEF Stacked, AfterStart, Installed
<1> QED
    BY <1>6, <1>7 DEF NothingSaved

\* What the executions of a process may rely on at each of their turns, whoever else runs.
THEOREM EngineInOrderAlways == EngineSpec => []EngineInOrder
<1> QED
    BY EngineInitInOrder, EngineNextInOrder, PTL DEF EngineSpec

\* However executions overlap, fail and are cancelled, each keeps its own logs, and an idle process
\* has the interpreter's stdout, trace function and logging module back unless some ended out of order
\* (engine.py:191-203, 911).
THEOREM EngineInvAlways == EngineSpec => []EngineInv
<1>1. ASSUME EngineInOrder, Running = {}, ~crossed
      PROVE  stdout = Nobody /\ trace = <<>> /\ logging = Nobody
    <2>1. nested = <<>>
        BY <1>1 DEF EngineInOrder, NestedInv
    <2> QED
        BY <1>1, <2>1 DEF EngineInOrder, Stacked, AfterStart, NothingSaved
<1>2. EngineInOrder => EngineInv
    BY <1>1 DEF EngineInv, ProcessIsClean, EngineInOrder
<1> QED
    BY <1>2, EngineInOrderAlways, PTL

\* The record of an execution that no other overlapped is its own and complete, in a process where
\* no two executions ended out of order before.
THEOREM IsolatedAlways == EngineSpec => Isolated
<1>1. ASSUME EngineInOrder, EngineInOrder', [EngineNext]_engineVars, NEW e \in Tasks,
             phase[e] = "running", met'[e] = {}, ~crossed
      PROVE  /\ logs'[e] \subseteq {e} /\ vars'[e] \subseteq {e}
             /\ phase'[e] = "returned" => missed'[e] = {} /\ vars'[e] = {e}
    <2>1. logs'[e] \subseteq {e}
        BY <1>1 DEF EngineInOrder, OwnLogsKept
    <2>2. EngineTypeOK /\ EngineTypeOK'
        BY <1>1 DEF EngineInOrder
    <2>3. met[e] \subseteq met'[e]
        <3>1. CASE UNCHANGED met
            BY <3>1
        <3>2. ASSUME NEW x \in Tasks, Start(x) PROVE met[e] \subseteq met'[e]
            BY <1>1, <2>2, <3>2 DEF Start, EngineTypeOK, Running
        <3>3. CASE ~\E x \in Tasks : Start(x)
            BY <1>1, <3>1, <3>3 DEF EngineNext, engineVars, ServeCached, Resume, Return, Raise,
               RaiseTypeError, CancelTask, Expire, Recycle, End
        <3> QED BY <3>2, <3>3
    <2>4. vars[e] \subseteq {e} /\ met[e] = {} /\ "logs" \notin missed[e] /\ handlers = Running /\ e \in Running
        BY <1>1, <2>2, <2>3 DEF EngineInOrder, EngineTypeOK, AloneInv, OwnLogsKept, Running
    <2>5. trace = <<e>>
        BY <1>1, <2>4, AloneIsTraced
    <2>6. ASSUME NEW x \in Tasks, x # e, Start(x) \/ x \in Running PROVE FALSE
        <3>1. ASSUME x \in Running PROVE x \in met[e]
            BY <1>1, <2>4, <2>6, <3>1 DEF EngineInOrder, NestedInv
        <3>2. ASSUME Start(x) PROVE x \in met'[e]
            BY <2>4, <2>6, <3>2 DEF Start
        <3> QED
            BY <1>1, <2>4, <2>6, <3>1, <3>2
    <2>7. ASSUME NEW x \in Tasks, Recording(x, trace, handlers), phase[x] = "running"
          PROVE  vars'[e] \subseteq {e}
        <3>1. x = e
            BY <2>6, <2>7 DEF Running
        <3> QED
            BY <2>4, <2>7, <3>1 DEF Recording
    <2>8. vars'[e] \subseteq {e}
        <3>1. CASE UNCHANGED vars
            BY <2>4, <3>1
        <3>2. ASSUME NEW x \in Tasks, Return(x) \/ CancelTask(x) \/ Resume(x)
              PROVE  vars'[e] \subseteq {e}
            BY <2>2, <2>7, <3>2, TurnRecords DEF Return, CancelTask, Resume, End
        <3>3. ASSUME NEW x \in Tasks, Raise(x) \/ RaiseTypeError(x) PROVE vars'[e] \subseteq {e}
            BY <2>2, <2>7, <3>3, RaiseRecords DEF Raise, RaiseTypeError, End
        <3>4. ASSUME NEW x \in Tasks, Start(x) PROVE FALSE
            BY <1>1, <2>6, <3>4 DEF Start
        <3>5. CASE ~\E x \in Tasks : \/ Return(x) \/ CancelTask(x) \/ Resume(x) \/ Start(x)
                                     \/ Raise(x) \/ RaiseTypeError(x)
            BY <1>1, <3>1, <3>5 DEF EngineNext, engineVars, ServeCached, Expire, Recycle
        <3> QED BY <3>2, <3>3, <3>4, <3>5
    <2>9. ASSUME phase'[e] = "returned" PROVE missed'[e] = {} /\ vars'[e] = {e}
        <3>1. Return(e)
            <4>1. ASSUME NEW x \in Tasks, x # e, Return(x) \/ CancelTask(x) \/ Raise(x) \/ RaiseTypeError(x)
                  PROVE  FALSE
                BY <2>6, <4>1 DEF Return, CancelTask, Raise, RaiseTypeError, End, Running
            <4>2. CASE UNCHANGED phase
                BY <1>1, <2>9, <4>2
            <4>3. ASSUME CancelTask(e) \/ Raise(e) \/ RaiseTypeError(e) PROVE FALSE
                BY <2>2, <2>9, <4>3 DEF EngineTypeOK, CancelTask, Raise, RaiseTypeError, End
            <4>4. ASSUME NEW x \in Tasks, Start(x) \/ ServeCached(x) PROVE FALSE
                BY <1>1, <2>2, <2>9, <4>4 DEF EngineTypeOK, Start, ServeCached
            <4>5. ASSUME Recycle PROVE FALSE
                BY <1>1, <2>4, <2>9, <4>5 DEF Recycle
            <4>6. CASE UNCHANGED engineVars
                BY <4>2, <4>6 DEF engineVars
            <4>7. CASE \E x \in Tasks : Return(x) \/ CancelTask(x) \/ Raise(x) \/ RaiseTypeError(x)
                BY <4>1, <4>3, <4>7
            <4>8. CASE \/ \E x \in Tasks : Start(x) \/ ServeCached(x) \/ Resume(x)
                       \/ (\E name \in Names : Expire(name)) \/ Recycle
                BY <4>2, <4>4, <4>5, <4>8 DEF Resume, Expire
            <4> QED
                BY <1>1, <4>6, <4>7, <4>8 DEF EngineNext
        <3>2. Captures(trace, e, e)
            BY <2>5 DEF Captures, Tracer, Frame
        <3>3. "vars" \notin missed'[e] /\ "logs" \notin missed'[e] /\ vars'[e] = vars[e] \cup {e}
            BY <2>2, <2>4, <3>1, <3>2, TurnLogs DEF Return
        <3>4. missed'[e] \subseteq {"logs", "vars"}
            BY <2>2 DEF EngineTypeOK, Records
        <3> QED
            BY <2>4, <3>3, <3>4
    <2> QED
        BY <2>1, <2>8, <2>9
<1>2. EngineInOrder /\ EngineInOrder' /\ [EngineNext]_engineVars =>
         [\A e \in Tasks :
            phase[e] = "running" /\ met'[e] = {} /\ ~crossed =>
              /\ logs'[e] \subseteq {e} /\ vars'[e] \subseteq {e}
              /\ phase'[e] = "returned" => missed'[e] = {} /\ vars'[e] = {e}]_engineVars
    BY <1>1
<1> QED
    BY <1>2, EngineInOrderAlways, PTL DEF EngineSpec, Isolated
=============================================================================
