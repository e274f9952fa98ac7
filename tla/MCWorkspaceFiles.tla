--------------------------- MODULE MCWorkspaceFiles ---------------------------
(***************************************************************************)
(* A form, and a list of packages, with two entries.                        *)
(***************************************************************************)
EXTENDS WorkspaceFiles, TLC

CONSTANTS a, b, v1, v2

Whole == [e \in Entries |-> v1]

MCScenes ==
    {[kinds |-> {"create", "update", "archive"}, origin |-> None],
     [kinds |-> {"update", "archive", "save"}, origin |-> Whole],
     [kinds |-> {"update", "overwrite", "delete", "rename"}, origin |-> Whole],
     [kinds |-> {"install", "save"}, origin |-> Blank],
     [kinds |-> {"install", "installAll"}, origin |-> None]}
Symmetry == Permutations(Requests) \cup Permutations(Installs)
=============================================================================
