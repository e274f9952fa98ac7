----------------------------- MODULE EngineProcess ----------------------------
(***************************************************************************)
(* shared/engine.py: the executions of one worker process.                  *)
(*                                                                         *)
(* They are tasks of one event loop and take turns at their awaits, while    *)
(* what records them belongs to the process: sys.stdout, the trace function, *)
(* the handlers of the root logger, and for scripts sys.modules['logging'].  *)
(* Each execution saves what it finds and puts that back at its end, which   *)
(* is right for executions that nest; queue messages and HTTP requests need  *)
(* not.  A step runs one execution up to its next await.                    *)
(***************************************************************************)
EXTENDS Naturals, Sequences

CONSTANTS
    Tasks,          \* executions
    Names,          \* names of workflow functions and providers
    Nobody,         \* the interpreter's own stdout or logging module, or no cached answer
    Jobs,           \* what the executions of a behaviour run: functions from Tasks to Job
    MaxTurns,       \* bound: turns of an execution after its first
    MaxRecycles     \* bound: restarts of the process

Kinds == {"workflow", "script", "provider"}
Job == [kind: Kinds, name: Names]

ASSUME EngineAssumption ==
    /\ Nobody \notin Tasks
    /\ "main" \notin Names
    /\ Jobs \subseteq [Tasks -> Job]
    /\ MaxTurns \in Nat /\ MaxRecycles \in Nat

VARIABLES
    job,        \* [Tasks -> Job]
    phase,      \* [Tasks -> Phases]
    stdout,     \* whose buffer sys.stdout is
    trace,      \* the trace functions installed, each chained to the next
    handlers,   \* executions with a handler on the root logger
    logging,    \* whose wrapper sys.modules['logging'] is
    saved,      \* [Tasks -> what an execution found at its start]
    logs, vars, \* [Tasks -> executions whose records, or variables, it holds]
    missed,     \* [Tasks -> what of its own is not in its record]
    cache,      \* [Names -> the execution whose answer is cached]
    turns, recycles,
    nested,     \* history: those running, in the order they started
    crossed,    \* history: some execution ended before one that started after it
    met         \* history: [Tasks -> executions that ran while it did]

globals == <<stdout, trace, handlers, logging>>
engineVars == <<job, phase, globals, saved, logs, vars, missed, cache, turns, recycles, nested,
                crossed, met>>

\* failed: the exception was wrapped with the record; lost: it was not, and the record is empty.
Phases == {"new", "running", "returned", "failed", "lost", "cancelled", "cached", "killed"}
Records == {"logs", "vars"}
Saved == [stdout: Tasks \cup {Nobody}, trace: Seq(Tasks),
          logging: Tasks \cup {Nobody}]
NothingSaved == [stdout |-> Nobody, trace |-> <<>>, logging |-> Nobody]

Running == {e \in Tasks : phase[e] = "running"}
IsScript(e) == job[e].kind = "script"
IsProvider(e) == job[e].kind = "provider"

\* Every execution ends once, what is cached is the answer of a provider of that name that
\* returned, and only running executions have a handler.
EngineTypeOK ==
    /\ job \in Jobs /\ phase \in [Tasks -> Phases]
    /\ stdout \in Tasks \cup {Nobody} /\ logging \in Tasks \cup {Nobody}
    /\ trace \in Seq(Tasks) /\ handlers = Running
    /\ saved \in [Tasks -> Saved]
    /\ logs \in [Tasks -> SUBSET Tasks] /\ vars \in [Tasks -> SUBSET Tasks]
    /\ missed \in [Tasks -> SUBSET Records]
    /\ \A name \in Names :
          cache[name] \in {Nobody} \cup {e \in Tasks : /\ IsProvider(e)
                                                           /\ phase[e] = "returned"
                                                           /\ job[e].name = name}
    /\ turns \in [Tasks -> 0..MaxTurns] /\ recycles \in 0..MaxRecycles
    /\ {nested[i] : i \in DOMAIN nested} = Running
    /\ crossed \in BOOLEAN /\ met \in [Tasks -> SUBSET Tasks]

EngineInit ==
    /\ job \in Jobs
    /\ phase = [e \in Tasks |-> "new"]
    /\ stdout = Nobody /\ trace = <<>> /\ handlers = {} /\ logging = Nobody
    /\ saved = [e \in Tasks |-> NothingSaved]
    /\ logs = [e \in Tasks |-> {}] /\ vars = [e \in Tasks |-> {}]
    /\ missed = [e \in Tasks |-> {}]
    /\ cache = [name \in Names |-> Nobody]
    /\ turns = [e \in Tasks |-> 0] /\ recycles = 0
    /\ nested = <<>> /\ crossed = FALSE
    /\ met = [e \in Tasks |-> {}]

-----------------------------------------------------------------------------
\* What a turn records

\* The function trace_func looks for: a script's code is the body of main().
Frame(e) == IF IsScript(e) THEN "main" ELSE job[e].name

\* Of chained trace functions each calls the next and returns what that returned, so the
\* events of a frame go to the last of them, the one installed first.
Tracer(chain) == chain[Len(chain)]

\* t takes e's variables for its own at the end of a turn of e.
Captures(chain, t, e) ==
    chain # <<>> /\ t = Tracer(chain) /\ Frame(e) \in {job[t].name, "main"}

\* Every handler takes the records of all files of the workspace and of all scripts.
Logged(e, listening) ==
    logs' = [t \in Tasks |-> IF t \in listening THEN logs[t] \cup {e} ELSE logs[t]]

Taken(e, chain) ==
    [t \in Tasks |-> IF Captures(chain, t, e) THEN vars[t] \cup {e} ELSE vars[t]]

\* What of its own e has missed by now, when its latest variables were captured or not.
Missed(e, captured, listening) ==
    {r \in Records : IF r = "logs" THEN r \in missed[e] \/ e \notin listening ELSE ~captured}

\* A turn of e, traced by chain and heard by the handlers listening.
Turn(e, chain, listening) ==
    /\ Logged(e, listening)
    /\ vars' = Taken(e, chain)
    /\ missed' = [missed EXCEPT ![e] = Missed(e, Captures(chain, e, e), listening)]

-----------------------------------------------------------------------------
\* Executions

Hit(e) == IsProvider(e) /\ cache[job[e].name] # Nobody

\* The first turn: stdout, handler and trace are installed, and a script's logging module.
Start(e) ==
    /\ phase[e] = "new"
    /\ phase' = [phase EXCEPT ![e] = "running"]
    /\ saved' = [saved EXCEPT ![e] = [stdout |-> stdout, trace |-> trace, logging |-> logging]]
    /\ stdout' = e /\ handlers' = handlers \cup {e} /\ trace' = <<e>> \o trace
    /\ logging' = IF IsScript(e) THEN e ELSE logging
    /\ Turn(e, trace', handlers')
    /\ nested' = Append(nested, e)
    /\ met' = [t \in Tasks |-> IF t = e THEN Running
                                    ELSE IF t \in Running THEN met[t] \cup {e} ELSE met[t]]
    /\ UNCHANGED <<job, cache, turns, recycles, crossed>>

\* A provider whose answer is cached does not run, unless the request says no_cache.
ServeCached(e) ==
    /\ phase[e] = "new" /\ Hit(e)
    /\ phase' = [phase EXCEPT ![e] = "cached"]
    /\ UNCHANGED <<job, globals, saved, logs, vars, missed, cache, turns, recycles, nested,
                   crossed, met>>

Resume(e) ==
    /\ phase[e] = "running" /\ turns[e] < MaxTurns
    /\ turns' = [turns EXCEPT ![e] = @ + 1]
    /\ Turn(e, trace, handlers)
    /\ UNCHANGED <<job, phase, globals, saved, cache, recycles, nested, crossed, met>>

\* Mutant of Restore: the handler stays when the trace function is put back.
RestoreTrace(e) ==
    /\ stdout' = saved[e].stdout
    /\ trace' = saved[e].trace
    /\ handlers' = handlers
    /\ logging' = IF IsScript(e) THEN saved[e].logging ELSE logging

\* Mutant of Restore: all handlers are removed from the root logger.
RestoreRoot(e) ==
    /\ stdout' = saved[e].stdout
    /\ trace' = saved[e].trace
    /\ handlers' = {}
    /\ logging' = IF IsScript(e) THEN saved[e].logging ELSE logging

\* Mutant of Restore: the trace function stays installed.
RestoreHandler(e) ==
    /\ stdout' = saved[e].stdout
    /\ trace' = trace
    /\ handlers' = handlers \ {e}
    /\ logging' = IF IsScript(e) THEN saved[e].logging ELSE logging

\* What the finally clauses put back is what e found, whoever installed his own since.
Restore(e) ==
    /\ stdout' = saved[e].stdout
    /\ trace' = saved[e].trace
    /\ handlers' = handlers \ {e}
    /\ logging' = IF IsScript(e) THEN saved[e].logging ELSE logging

End(e, how) ==
    /\ phase[e] = "running"
    /\ phase' = [phase EXCEPT ![e] = how]
    /\ Restore(e)
    /\ \E i \in DOMAIN nested :
          /\ nested[i] = e
          /\ nested' = [k \in 1..(Len(nested) - 1) |-> IF k < i THEN nested[k] ELSE nested[k + 1]]
          /\ crossed' = (crossed \/ i # Len(nested))
    /\ UNCHANGED <<job, saved, turns, recycles, met>>

\* The result of a provider is cached, by name, parameters and organization.
Return(e) ==
    /\ End(e, "returned")
    /\ Turn(e, trace, handlers)
    /\ cache' = IF IsProvider(e) THEN [cache EXCEPT ![job[e].name] = e] ELSE cache

\* The variables of an exception come from its traceback as well.
Raise(e) ==
    /\ End(e, "failed")
    /\ Logged(e, handlers)
    /\ vars' = [Taken(e, trace) EXCEPT ![e] = @ \cup {e}]
    /\ missed' = [missed EXCEPT ![e] = Missed(e, TRUE, handlers)]
    /\ UNCHANGED cache

\* A TypeError that a call with the wrong arguments raised keeps the logs and drops the
\* variables; any other is raised again as it is, and the record is lost.
RaiseTypeError(e) ==
    /\ \E how \in {"failed", "lost"} :
          /\ End(e, how)
          /\ logs' = [t \in Tasks |->
                         IF t = e /\ how = "lost" THEN {}
                         ELSE IF t \in handlers THEN logs[t] \cup {e} ELSE logs[t]]
          /\ missed' = [missed EXCEPT ![e] = IF how = "lost" THEN Records
                                            ELSE Missed(e, FALSE, handlers)]
    /\ vars' = [Taken(e, trace) EXCEPT ![e] = {}]
    /\ UNCHANGED cache

\* The worker cancels the task, on a timeout or a cancel: nothing is returned, but what the
\* execution does on its way out is still traced and logged.
CancelTask(e) ==
    /\ End(e, "cancelled")
    /\ Turn(e, trace, handlers)
    /\ UNCHANGED cache

Expire(name) ==
    /\ cache[name] # Nobody
    /\ cache' = [cache EXCEPT ![name] = Nobody]
    /\ UNCHANGED <<job, phase, globals, saved, logs, vars, missed, turns, recycles, nested,
                   crossed, met>>

\* The process restarts.
Recycle ==
    /\ recycles < MaxRecycles
    /\ recycles' = recycles + 1
    /\ phase' = [e \in Tasks |-> IF e \in Running THEN "killed" ELSE phase[e]]
    /\ stdout' = Nobody /\ trace' = <<>> /\ handlers' = {} /\ logging' = Nobody
    /\ cache' = [name \in Names |-> Nobody]
    /\ nested' = <<>> /\ crossed' = FALSE
    /\ UNCHANGED <<job, saved, logs, vars, missed, turns, met>>

EngineNext ==
    \/ \E e \in Tasks : Start(e)
    \/ \E e \in Tasks : ServeCached(e)
    \/ \E e \in Tasks : Resume(e)
    \/ \E e \in Tasks : Return(e)
    \/ \E e \in Tasks : Raise(e)
    \/ \E e \in Tasks : RaiseTypeError(e)
    \/ \E e \in Tasks : CancelTask(e)
    \/ \E name \in Names : Expire(name)
    \/ Recycle

EngineSpec == EngineInit /\ [][EngineNext]_engineVars

-----------------------------------------------------------------------------
\* Properties

\* With its record: the others' is dropped, or the worker has none to write.
Recorded(e) == phase[e] \in {"returned", "failed"}

\* The record of an execution that no other overlapped holds its own logs and variables and
\* nobody else's, in a process where no two executions ended out of order before.
\* (engine.py:191, logs and variables are captured for all executions)
Isolated ==
    [][\A e \in Tasks :
          phase[e] = "running" /\ met'[e] = {} /\ ~crossed =>
              /\ logs'[e] \subseteq {e} /\ vars'[e] \subseteq {e}
              /\ phase'[e] = "returned" => missed'[e] = {} /\ vars'[e] = {e}]_engineVars

\* However executions overlap, fail or are cancelled, none loses log records of its own, but by
\* a TypeError, and no log record goes to an execution that did not run at the time.
OwnLogsKept ==
    \A e \in Tasks :
        /\ Recorded(e) \/ phase[e] = "running" => "logs" \notin missed[e] /\ e \in logs[e]
        /\ logs[e] \subseteq {e} \cup met[e]

\* A process in which nothing runs has the interpreter's stdout, trace function and logging
\* module back, whatever the executions ended with, unless some ended out of order.
\* (engine.py:911, the original trace function is restored)
ProcessIsClean ==
    Running = {} /\ ~crossed => stdout = Nobody /\ trace = <<>> /\ logging = Nobody

\* The states of the process: every execution has its own logs, and an idle process is clean.
EngineInv == EngineTypeOK /\ OwnLogsKept /\ ProcessIsClean
=============================================================================
