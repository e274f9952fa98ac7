---- MODULE MCAccessControl ----
EXTENDS AccessControl, TLC
\* Rows that are changed and deleted, batches of users, and lists while assignments and forms change.
MCScenes == {{"create", "update", "delete"},
             {"create", "assignUsers", "changeUser", "remove"},
             {"create", "assignUsers", "assignForms", "remove", "changeForm", "list"}}
MCSymmetry == Permutations(Callers) \cup Permutations(Users) \cup Permutations(Forms)
====
