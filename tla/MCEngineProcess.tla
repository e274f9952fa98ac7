--------------------------- MODULE MCEngineProcess ----------------------------
(***************************************************************************)
(* Three executions: of the same workflow, of a workflow, a script and       *)
(* another workflow or a data provider, and of one data provider.            *)
(***************************************************************************)
EXTENDS EngineProcess, TLC

CONSTANTS e1, e2, e3

Of(kind, name) == [kind |-> kind, name |-> name]

MCJobs ==
    {e1 :> Of("workflow", "sync") @@ e2 :> Of("workflow", "sync") @@ e3 :> Of("script", "report"),
     e1 :> Of("provider", "sync") @@ e2 :> Of("provider", "sync") @@ e3 :> Of("workflow", "report"),
     e1 :> Of("script", "sync") @@ e2 :> Of("script", "report") @@ e3 :> Of("provider", "report")}
=============================================================================
