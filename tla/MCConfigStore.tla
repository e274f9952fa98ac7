---- MODULE MCConfigStore ----
EXTENDS ConfigStore, TLC
\* Sets of a row, secrets and reads meet each other; keys are a table of their own.
MCScenes == {{"setSecret", "setRef", "setPlain", "delete", "deleteSecret", "get"},
             {"setSecret", "setRef", "createSecret", "updateSecret", "deleteSecret", "get"},
             {"createKey", "revoke", "validate"}}
\* All keys belong to one caller.
MCOwnerOf(k) == CHOOSE p \in Callers : TRUE
MCSymmetry == Permutations(Values)
====
