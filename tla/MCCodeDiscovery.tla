--------------------------- MODULE MCCodeDiscovery ----------------------------
(***************************************************************************)
(* One user's file, one of the platform's and the helper.  In the first      *)
(* settings both files define the workflow that is executed and the provider *)
(* is asked for; then a file is broken or needs an internal module; then an  *)
(* endpoint; then saves follow each other within a second, and .pyc files    *)
(* may resist deletion; the last ones have the helper in a directory without *)
(* __init__.py, and import it in either way.                                 *)
(***************************************************************************)
EXTENDS CodeDiscovery, TLC

CONSTANTS user, shipped, lib, r1, r2

Define(kind, open) == [kind |-> kind, name |-> "sync", open |-> open, sound |-> TRUE]
Flow == Define("workflow", "async")
Odd == [Define("workflow", "async") EXCEPT !.sound = FALSE]
Hook == Define("workflow", "sync")
Options == Define("provider", "sync")

Source(defs) == [fine |-> TRUE, defs |-> defs, helper |-> "none", internal |-> "none"]
Using(defs) == [Source(defs) EXCEPT !.helper = "module"]
Taking(defs) == [Source(defs) EXCEPT !.helper = "member"]
Inside(defs, internal) == [Source(defs) EXCEPT !.internal = internal]
Broken == [Source({Flow}) EXCEPT !.fine = FALSE]
Lib == Source({})
Lib2 == Source({Options})

Do(op, kind) == [op |-> op, kind |-> kind, name |-> "sync"]
Execute == Do("execute", "workflow")

Holding(u, p) == user :> u @@ shipped :> p @@ Helper :> Lib

\* With no more than this in the settings that do not say otherwise.
Plain(files, saves, task1, task2) ==
    [files |-> files, saves |-> saves, tasks |-> r1 :> task1 @@ r2 :> task2,
     hasty |-> FALSE, locked |-> {}, namespace |-> FALSE, handlers |-> {}]

Validated == Do("validate", "workflow")
Asked == Do("options", "provider")

\* The helper's directory is a namespace package.
Spaced == {[Plain(Holding(Taking({Flow}), Using({Options})), {<<Helper, Lib2>>}, Execute, task)
              EXCEPT !.namespace = TRUE] : task \in {Asked, Validated}}

MCSettings ==
    {Plain(Holding(Using({Flow}), Source({Flow, Options})),
           {<<user, Source({Flow})>>, <<Helper, [Lib EXCEPT !.fine = FALSE]>>, <<Helper, Lib>>},
           Execute, task) : task \in {Execute, Asked, Validated}}
    \cup
    {[Plain(Holding(Inside({Flow}, "shared"), Inside({Options}, internal)),
            {<<user, Broken>>, <<shipped, Using({Options, Odd})>>}, Do("list", kind), Execute)
        EXCEPT !.handlers = Internals] : kind \in Kinds, internal \in Internals}
    \cup
    {Plain(Holding(Source({}), Source({Hook})),
           {<<user, Source({Flow})>>, <<shipped, Source({Define("workflow", "closed")})>>},
           Do("call", "workflow"), task) : task \in {Do("call", "workflow"), Do("list", "workflow")}}
    \cup
    {[Plain(Holding(Taking({Flow}), Using({Options})), {<<Helper, Lib2>>, <<Helper, Lib>>}, Execute, Asked)
        EXCEPT !.hasty = TRUE, !.locked = locked] : locked \in {{user}, {Helper}}}
    \cup Spaced
=============================================================================
