----------------------------- MODULE ConfigStore -----------------------------
(***************************************************************************)
(* The Config table and the secrets behind it: configuration requests       *)
(* (shared/handlers/org_config_handlers.py, shared/repositories/config.py), *)
(* secrets in Key Vault (shared/handlers/secrets_handlers.py,                *)
(* shared/keyvault.py), the configuration workflows read and write           *)
(* (bifrost/config.py, bifrost/secrets.py, shared/config_resolver.py) and    *)
(* the keys that workflows are called with                                   *)
(* (shared/handlers/workflow_keys_handlers.py, shared/workflow_keys.py).     *)
(*                                                                         *)
(* One configuration key, in the partition of an organization and in GLOBAL. *)
(* A row holds a value or names a secret; a key row is revoked or is not.    *)
(***************************************************************************)
EXTENDS Naturals, FiniteSets

CONSTANTS
    Callers,    \* requests and workflows
    Values,
    Given,      \* secret names that people choose
    Generated,  \* secret names with a UUID
    Keys,       \* workflow keys
    None,
    Scenes,     \* sets of kinds: what is asked for in a behaviour
    OwnerOf(_), \* CreatedBy of a workflow key
    MaxCalls,   \* bound: calls
    MaxBreaks   \* bound: calls that fail on the way, processes that die

Scopes == {"org", "GLOBAL"}
Names == Given \cup Generated
Kinds == {"setSecret", "setRef", "setPlain", "delete", "createSecret", "updateSecret",
          "deleteSecret", "get", "createKey", "revoke", "validate"}

NoSecret == "noSecret"   \* Key Vault has never had the name
Deleted == "deleted"     \* soft-deleted: neither read nor set for 90 days
NoRow == "noRow"

ASSUME ConfigAssumption ==
    /\ Given \cap Generated = {} /\ None \notin Names \cup Values
    /\ Values \cap {NoSecret, Deleted, NoRow} = {}
    /\ Scenes \subseteq SUBSET Kinds
    /\ \A k \in Keys : OwnerOf(k) \in Callers
    /\ MaxCalls \in Nat /\ MaxBreaks \in Nat

VARIABLES
    rows,       \* [Scopes -> a row of the key, or its absence]
    vault,      \* [Names -> what Key Vault has]
    keys,       \* [Keys -> "none", "valid" or "revoked"]
    pc, call,
    scene, calls, breaks,
    due,        \* history: what the row of each scope may stand for
    mixed,      \* history: since nobody was changing anything, changes overlapped
    seen,       \* history: what the key stood for while a caller reads it
    sealed      \* history: keys revoked while no validation was under way

storeVars == <<rows, vault, keys>>
bounds == <<scene, calls, breaks>>
configVars == <<storeVars, pc, call, bounds, due, mixed, seen, sealed>>

Types == {"none", "string", "secret_ref"}
Absent == [type |-> "none", value |-> None]
Row == {r \in [type: Types, value: Values \cup Names \cup {None}] :
          /\ r.type = "none" <=> r.value = None
          /\ r.type = "string" => r.value \in Values
          /\ r.type = "secret_ref" => r.value \in Names}
Outcomes == Values \cup {NoSecret, Deleted, NoRow}

Steps == {"idle", "store", "point", "create", "remove", "global", "resolve", "answered",
          "revoke", "touch"}
Call == [kind: Kinds \cup {"none"}, scope: Scopes, name: Names \cup {None},
         value: Outcomes, key: Keys \cup {None}]
NoCall == [kind |-> "none", scope |-> "org", name |-> None, value |-> NoRow, key |-> None]

ConfigTypeOK ==
    /\ rows \in [Scopes -> Row]
    /\ vault \in [Names -> Values \cup {NoSecret, Deleted}]
    /\ keys \in [Keys -> {"none", "valid", "revoked"}]
    /\ pc \in [Callers -> Steps] /\ call \in [Callers -> Call]
    /\ scene \in Scenes /\ calls \in 0..MaxCalls /\ breaks \in 0..MaxBreaks
    /\ due \in [Scopes -> SUBSET Outcomes] /\ mixed \in BOOLEAN
    /\ seen \in [Callers -> [changes: 0..2, values: SUBSET Outcomes]]
    /\ sealed \subseteq Keys
    \* a row that names a generated secret names one that was stored
    /\ \A s \in Scopes :
          rows[s].type = "secret_ref" /\ rows[s].value \in Generated => vault[rows[s].value] # NoSecret

NothingSeen == [changes |-> 0, values |-> {}]

ConfigInit ==
    /\ rows = [s \in Scopes |-> Absent]
    /\ vault = [n \in Names |-> NoSecret]
    /\ keys = [k \in Keys |-> "none"]
    /\ pc = [p \in Callers |-> "idle"] /\ call = [p \in Callers |-> NoCall]
    /\ scene \in Scenes /\ calls = 0 /\ breaks = 0
    /\ due = [s \in Scopes |-> {NoRow}] /\ mixed = FALSE
    /\ seen = [p \in Callers |-> NothingSeen]
    /\ sealed = {}

-----------------------------------------------------------------------------
(* What a key stands for. *)

Resolved(row) == CASE row.type = "none" -> NoRow
                   [] row.type = "string" -> row.value
                   [] OTHER -> vault[row.value]

Lookup(scope) == IF rows[scope] # Absent THEN Resolved(rows[scope])
                 ELSE Resolved(rows["GLOBAL"])

Sharing(name) == {s \in Scopes : rows[s].type = "secret_ref" /\ rows[s].value = name}

-----------------------------------------------------------------------------
(* Calls.  Reading is "get"; every other call may change what a key stands for. *)

Reading(p) == call[p].kind = "get"
Changing == {p \in Callers : pc[p] \in {"store", "point", "create", "remove"}}

Asked(kind) == kind \in scene /\ calls < MaxCalls /\ calls' = calls + 1 /\ UNCHANGED scene
Counted(kind) == Asked(kind) /\ UNCHANGED breaks

Goto(p, step) == pc' = [pc EXCEPT ![p] = step]
Answer(p) == Goto(p, "idle") /\ call' = [call EXCEPT ![p] = NoCall]

\* Calls that are under way note that something was written.
Noted ==
    seen' = [q \in Callers |->
               IF pc[q] \in {"global", "resolve"}
               THEN [changes |-> IF seen[q].changes = 2 THEN 2 ELSE seen[q].changes + 1,
                     values |-> seen[q].values \cup {Lookup("org")'}]
               ELSE seen[q]]

\* The row of scope now stands for one of outcomes, if changes did not overlap.
Owe(p, scope, outcomes) ==
    LET others == Changing \ {p} # {}
    IN /\ due' = [due EXCEPT ![scope] = IF mixed \/ others THEN Outcomes ELSE outcomes]
       /\ mixed' = others

\* Key Vault has a new value under the name: the rows that name it stand for it.
OweSharers(p, name, outcome) ==
    LET others == Changing \ {p} # {}
    IN /\ due' = [s \in Scopes |-> IF s \notin Sharing(name) THEN due[s]
                                   ELSE IF mixed \/ others THEN Outcomes ELSE {outcome}]
       /\ mixed' = others

Begin(p, kind, step, record) ==
    /\ pc[p] = "idle" /\ Counted(kind)
    /\ call' = [call EXCEPT ![p] = record]
    /\ Goto(p, step)

-----------------------------------------------------------------------------
(* set_config and delete_config, of requests and of workflows. *)

Fresh == {n \in Generated : vault[n] = NoSecret /\ \A q \in Callers : call[q].name # n}

\* set_config_handler with type secret_ref and a value: the name the row has, whoever chose
\* it, or a new one ...
SetSecret(p, scope, value) ==
    LET row == rows[scope]
    IN /\ row.type = "secret_ref" \/ Fresh # {}
       /\ Begin(p, "setSecret", "store",
                [NoCall EXCEPT !.kind = "setSecret", !.scope = scope, !.value = value,
                    !.name = IF row.type = "secret_ref" THEN row.value
                             ELSE CHOOSE n \in Fresh : TRUE])
       /\ mixed' = (mixed \/ Changing # {})
       /\ UNCHANGED <<storeVars, due, seen, sealed>>

\* Mutant of StoreSecret: the row is written also when Key Vault has failed.
StoreOrPassOver(p) ==
    /\ pc[p] = "store"
    /\ UNCHANGED <<rows, keys, bounds, call, mixed, sealed>>
    /\ Goto(p, "point")
    /\ \/ /\ vault[call[p].name] # Deleted
          /\ vault' = [vault EXCEPT ![call[p].name] = call[p].value]
          /\ due' = [s \in Scopes |-> IF s \in Sharing(call[p].name)
                                      THEN due[s] \cup {call[p].value} ELSE due[s]]
       \/ UNCHANGED <<vault, due>>
    /\ Noted

\* ... under which the value is stored; Key Vault refuses a soft-deleted one ...
StoreSecret(p) ==
    LET name == call[p].name
    IN /\ pc[p] = "store"
       /\ UNCHANGED <<rows, keys, bounds, sealed>>
       /\ \/ /\ vault[name] # Deleted
             /\ vault' = [vault EXCEPT ![name] = call[p].value]
             /\ due' = [s \in Scopes |-> IF s \in Sharing(name) THEN due[s] \cup {call[p].value}
                                         ELSE due[s]]
             /\ Goto(p, "point")
             /\ Noted
             /\ UNCHANGED <<call, mixed>>
          \/ /\ vault[name] = Deleted
             /\ Answer(p)
             /\ mixed' = (mixed /\ Changing # {p})
             /\ UNCHANGED <<vault, due, seen>>

\* ... and the row names it.
PointRow(p) ==
    /\ pc[p] = "point"
    /\ rows' = [rows EXCEPT ![call[p].scope] = [type |-> "secret_ref", value |-> call[p].name]]
    /\ Owe(p, call[p].scope, {call[p].value})
    /\ Answer(p)
    /\ UNCHANGED <<vault, keys, bounds, sealed>>
    /\ Noted

\* With a plain value, or from a workflow, the row is written without regard to what is there.
SetPlain(p, scope, value) ==
    /\ pc[p] = "idle" /\ Counted("setPlain")
    /\ rows' = [rows EXCEPT ![scope] = [type |-> "string", value |-> value]]
    /\ Owe(p, scope, {value})
    /\ UNCHANGED <<vault, keys, pc, call, sealed>>
    /\ Noted

\* With a secretRef the row names it, be there such a secret or not.  A name with a UUID is
\* known once it is in Key Vault.
SetRef(p, scope, name) ==
    /\ pc[p] = "idle" /\ Counted("setRef")
    /\ name \in Generated => vault[name] # NoSecret
    /\ rows' = [rows EXCEPT ![scope] = [type |-> "secret_ref", value |-> name]]
    /\ Owe(p, scope, {vault[name]})
    /\ UNCHANGED <<vault, keys, pc, call, sealed>>
    /\ Noted

\* Mutant of DeleteRow: without a row of its own, an organization deletes that of GLOBAL.
DeleteFound(p, scope) ==
    LET there == IF rows[scope] # Absent THEN scope ELSE "GLOBAL"
    IN /\ pc[p] = "idle" /\ Counted("delete") /\ rows[there] # Absent
       /\ rows' = [rows EXCEPT ![there] = Absent]
       /\ Owe(p, scope, {NoRow})
       /\ UNCHANGED <<vault, keys, pc, call, sealed>>
       /\ Noted

\* delete_config leaves the secret that the row names.
DeleteRow(p, scope) ==
    /\ pc[p] = "idle" /\ Counted("delete") /\ rows[scope] # Absent
    /\ rows' = [rows EXCEPT ![scope] = Absent]
    /\ Owe(p, scope, {NoRow})
    /\ UNCHANGED <<vault, keys, pc, call, sealed>>
    /\ Noted

-----------------------------------------------------------------------------
(* Secrets. *)

Listed == {n \in Names : vault[n] \in Values}

\* handle_create_secret: refused when the name is listed; a listing that fails is passed over.
CreateSecret(p, name, value) ==
    /\ name \in Given
    /\ \/ name \notin Listed /\ UNCHANGED breaks
       \/ breaks < MaxBreaks /\ breaks' = breaks + 1
    /\ pc[p] = "idle" /\ Asked("createSecret")
    /\ call' = [call EXCEPT ![p] = [NoCall EXCEPT !.kind = "createSecret", !.name = name,
                                                  !.value = value]]
    /\ Goto(p, "create")
    /\ mixed' = (mixed \/ Changing # {})
    /\ UNCHANGED <<storeVars, due, seen, sealed>>

Created(p) ==
    LET name == call[p].name
    IN /\ pc[p] = "create"
       /\ UNCHANGED <<rows, keys, bounds, sealed>>
       /\ \/ /\ vault[name] # Deleted
             /\ vault' = [vault EXCEPT ![name] = call[p].value]
             /\ OweSharers(p, name, call[p].value)
             /\ Noted
          \/ /\ vault[name] = Deleted
             /\ mixed' = (mixed /\ Changing # {p})
             /\ UNCHANGED <<vault, due, seen>>
       /\ Answer(p)

\* handle_update_secret and secrets.set: a name that is not there is created.
UpdateSecret(p, name, value) ==
    /\ pc[p] = "idle" /\ Counted("updateSecret")
    /\ name \in Given \/ vault[name] # NoSecret
    /\ vault[name] # Deleted
    /\ vault' = [vault EXCEPT ![name] = value]
    /\ OweSharers(p, name, value)
    /\ UNCHANGED <<rows, keys, pc, call, sealed>>
    /\ Noted

\* _find_secret_dependencies of handle_delete_secret: the query names no partition, and looks for
\* the type "SECRET_REF", which no row has: it is stored as "secret_ref".
Dependencies(name) ==
    {s \in Scopes : rows[s].type = "SECRET_REF" /\ rows[s].value = name}

DeleteSecret(p, name) ==
    /\ Dependencies(name) = {}
    /\ name \in Given \/ vault[name] # NoSecret
    /\ Begin(p, "deleteSecret", "remove", [NoCall EXCEPT !.kind = "deleteSecret", !.name = name])
    /\ mixed' = (mixed \/ Changing # {})
    /\ UNCHANGED <<storeVars, due, seen, sealed>>

\* A secret that is not there is answered with 404.
RemoveSecret(p) ==
    LET name == call[p].name
    IN /\ pc[p] = "remove"
       /\ UNCHANGED <<rows, keys, bounds, sealed>>
       /\ \/ /\ vault[name] \in Values
             /\ vault' = [vault EXCEPT ![name] = Deleted]
             /\ OweSharers(p, name, Deleted)
             /\ Noted
          \/ /\ vault[name] \notin Values
             /\ mixed' = (mixed /\ Changing # {p})
             /\ UNCHANGED <<vault, due, seen>>
       /\ Answer(p)

-----------------------------------------------------------------------------
(* config.get of a workflow: the row of its scope, that of GLOBAL, the secret. *)

\* A row that was read is a value, or a name to look up.
TakeRow(p, row) ==
    IF row.type = "secret_ref"
    THEN /\ call' = [call EXCEPT ![p].kind = "get", ![p].name = row.value]
         /\ Goto(p, "resolve")
    ELSE /\ call' = [call EXCEPT ![p].kind = "get", ![p].value = Resolved(row)]
         /\ Goto(p, "answered")

\* Mutant of Get: the row of GLOBAL goes before that of the organization.
GetGlobalFirst(p) ==
    /\ pc[p] = "idle" /\ Counted("get")
    /\ seen' = [seen EXCEPT ![p] = [changes |-> 0, values |-> {Lookup("org")}]]
    /\ IF rows["GLOBAL"] # Absent THEN TakeRow(p, rows["GLOBAL"])
       ELSE TakeRow(p, rows["org"])
    /\ UNCHANGED <<storeVars, due, mixed, sealed>>

Get(p) ==
    /\ pc[p] = "idle" /\ Counted("get")
    /\ seen' = [seen EXCEPT ![p] = [changes |-> 0, values |-> {Lookup("org")}]]
    /\ IF rows["org"] # Absent THEN TakeRow(p, rows["org"])
       ELSE /\ call' = [call EXCEPT ![p].kind = "get"]
            /\ Goto(p, "global")
    /\ UNCHANGED <<storeVars, due, mixed, sealed>>

FallBack(p) ==
    /\ pc[p] = "global"
    /\ TakeRow(p, rows["GLOBAL"])
    /\ UNCHANGED <<storeVars, bounds, due, mixed, seen, sealed>>

\* A secret that cannot be read ends the call with an error.
Resolve(p) ==
    /\ pc[p] = "resolve"
    /\ call' = [call EXCEPT ![p].value = vault[call[p].name]]
    /\ Goto(p, "answered")
    /\ UNCHANGED <<storeVars, bounds, due, mixed, seen, sealed>>

Return(p) ==
    /\ pc[p] = "answered"
    /\ Answer(p)
    /\ seen' = [seen EXCEPT ![p] = NothingSeen]
    /\ UNCHANGED <<storeVars, bounds, due, mixed, sealed>>

-----------------------------------------------------------------------------
(* Workflow keys. *)

CreateKey(p, k) ==
    /\ pc[p] = "idle" /\ Counted("createKey") /\ keys[k] = "none" /\ OwnerOf(k) = p
    /\ keys' = [keys EXCEPT ![k] = "valid"]
    /\ UNCHANGED <<rows, vault, pc, call, due, mixed, seen, sealed>>

\* revoke_workflow_key reads the whole row ...
Revoke(p, k) ==
    /\ keys[k] # "none" /\ OwnerOf(k) = p
    /\ Begin(p, "revoke", "revoke", [NoCall EXCEPT !.kind = "revoke", !.key = k])
    /\ UNCHANGED <<storeVars, due, mixed, seen, sealed>>

Accepting(k) == {q \in Callers : pc[q] = "touch" /\ call[q].key = k}

\* ... and writes it with Revoked.
WriteRevoked(p) ==
    LET k == call[p].key
    IN /\ pc[p] = "revoke"
       /\ keys' = [keys EXCEPT ![k] = "revoked"]
       /\ sealed' = IF Accepting(k) = {} THEN sealed \cup {k} ELSE sealed
       /\ Answer(p)
       /\ UNCHANGED <<rows, vault, bounds, due, mixed, seen>>

\* Mutant of Validate: the query asks for the hash only.
ValidateAny(p, k) ==
    /\ keys[k] # "none"
    /\ Begin(p, "validate", "touch", [NoCall EXCEPT !.kind = "validate", !.key = k])
    /\ UNCHANGED <<storeVars, due, mixed, seen, sealed>>

\* validate_workflow_key takes a row that is not revoked ...
Validate(p, k) ==
    /\ keys[k] = "valid"
    /\ Begin(p, "validate", "touch", [NoCall EXCEPT !.kind = "validate", !.key = k])
    /\ UNCHANGED <<storeVars, due, mixed, seen, sealed>>

\* ... and writes all of it back with LastUsedAt, Revoked included, before it accepts the key.
Touch(p) ==
    /\ pc[p] = "touch"
    /\ keys' = [keys EXCEPT ![call[p].key] = "valid"]
    /\ Answer(p)
    /\ UNCHANGED <<rows, vault, bounds, due, mixed, seen, sealed>>

-----------------------------------------------------------------------------

\* A call fails or its process dies: a secret may be stored for a row that was not written.
Break(p) ==
    /\ breaks < MaxBreaks /\ breaks' = breaks + 1
    /\ pc[p] \notin {"idle", "answered"}
    /\ Answer(p)
    /\ seen' = [seen EXCEPT ![p] = NothingSeen]
    /\ \/ /\ p \in Changing
          /\ mixed' = (mixed /\ Changing # {p})
          /\ due' = IF pc[p] = "point"
                    THEN [due EXCEPT ![call[p].scope] = IF mixed THEN Outcomes
                                                        ELSE @ \cup {call[p].value}]
                    ELSE due
       \/ p \notin Changing /\ UNCHANGED <<mixed, due>>
    /\ UNCHANGED <<storeVars, scene, calls, sealed>>

ConfigNext ==
    \/ \E p \in Callers, s \in Scopes, v \in Values : SetSecret(p, s, v) \/ SetPlain(p, s, v)
    \/ \E p \in Callers, s \in Scopes, n \in Names : SetRef(p, s, n)
    \/ \E p \in Callers, s \in Scopes : DeleteRow(p, s)
    \/ \E p \in Callers, n \in Names, v \in Values : CreateSecret(p, n, v) \/ UpdateSecret(p, n, v)
    \/ \E p \in Callers, n \in Names : DeleteSecret(p, n)
    \/ \E p \in Callers, k \in Keys : CreateKey(p, k) \/ Revoke(p, k) \/ Validate(p, k)
    \/ \E p \in Callers :
          \/ StoreSecret(p) \/ PointRow(p) \/ Created(p) \/ RemoveSecret(p)
          \/ Get(p) \/ FallBack(p) \/ Resolve(p) \/ Return(p)
          \/ WriteRevoked(p) \/ Touch(p) \/ Break(p)

ConfigSpec == ConfigInit /\ [][ConfigNext]_configVars

-----------------------------------------------------------------------------

\* With nobody at work, the row of each scope stands for what it was last set to, through the
\* row or through a secret that it names, unless changes overlapped; a set that fails on its
\* way between Key Vault and the table leaves what there was, or what was asked for.
SetsStay == Changing = {} => \A s \in Scopes : Resolved(rows[s]) \in due[s]

\* A read during which there was at most one change answers with what the key stood for at
\* some moment of the read, though it asks the two partitions and Key Vault one by one.
ReadsOneMoment ==
    \A p \in Callers : (pc[p] = "answered" /\ seen[p].changes < 2) => call[p].value \in seen[p].values

\* A key that was revoked while no validation was between its query and its write of LastUsedAt
\* stays revoked, and nobody is about to be accepted with it.
RevokedStays == \A k \in sealed : keys[k] = "revoked" /\ Accepting(k) = {}

\* The states of the configuration: rows name secrets that were stored, and keys have what they were
\* last set to.
ConfigInv == ConfigTypeOK /\ SetsStay
=============================================================================
