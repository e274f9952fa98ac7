---------------------------- MODULE MCGitWorkspace ----------------------------
(***************************************************************************)
(* Two files, one request and one worker.  The directory has a version of   *)
(* its own of every file before the first clone.                            *)
(***************************************************************************)
EXTENDS GitWorkspace, TLC

CONSTANTS f1, f2, c1, c2

MCOrigins == {[f \in Files |-> c1]}
MCWorkspaces == {[f \in Files |-> c2]}
MCTrees == {[f \in Files |-> c2]} \cup {[[f \in Files |-> c1] EXCEPT ![g] = Absent] : g \in Files}
Symmetry == Permutations(Files)
=============================================================================
