-------------------------- MODULE MCExecutionResults --------------------------
(* ExecutionResults: two callers write the rows of one execution, with        *)
(* failures; two callers record results; two record a large one, or one        *)
(* another, while it is read; one works on three executions while they are     *)
(* listed.  Run 1 has a small result, 2 a large one, 3 an empty one.           *)
EXTENDS ExecutionResults, TLC

CallerSymmetry == Permutations(Callers)

MCFileOf == [run \in Runs |-> IF run = 2 THEN "html" ELSE "json"]

Rows == [executions |-> {1}, callers |-> Callers, runs |-> {3},
         statuses |-> {"Pending", "Cancelling"}, faults |-> TRUE, readers |-> "none"]

Results == [executions |-> {1}, callers |-> Callers, runs |-> {1, 2},
            statuses |-> {"Failed"}, faults |-> TRUE, readers |-> "none"]

Reads(run, callers) == [executions |-> {1}, callers |-> callers, runs |-> {run},
                        statuses |-> {"Failed"}, faults |-> TRUE, readers |-> "read"]

Lists(c) == [executions |-> Executions, callers |-> {c}, runs |-> {},
             statuses |-> {"Failed"}, faults |-> FALSE, readers |-> "list"]

MCSettings ==
    {Rows, Results, Reads(2, Callers)}
    \cup {Reads(run, {c}) : run \in {1, 3}, c \in Callers}
    \cup {Lists(c) : c \in Callers}
=============================================================================
