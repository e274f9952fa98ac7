---------------------------- MODULE AccessControl ----------------------------
(***************************************************************************)
(* Roles, who and what is assigned to them, organizations, and the list of  *)
(* forms that a user gets (shared/repositories/roles.py,                     *)
(* shared/handlers/roles_handlers.py, shared/repositories/organizations.py,  *)
(* shared/handlers/organizations_handlers.py, shared/authorization.py).      *)
(*                                                                         *)
(* Roles and organizations are rows that a request reads as a whole and      *)
(* writes back as a whole; an assignment is a row of its own, there or not.  *)
(***************************************************************************)
EXTENDS Naturals, FiniteSets

CONSTANTS
    Callers,            \* requests
    Roles, Organizations, Users, Forms,
    Labels,             \* names of roles and organizations
    Scenes,             \* sets of kinds: what is asked for in a behaviour
    None,
    MaxCalls,           \* bound: requests
    MaxBreaks           \* bound: calls that fail, processes that die

Rows == Roles \cup Organizations
Kinds == {"create", "update", "delete", "assignUsers", "assignForms", "remove",
          "changeUser", "changeForm", "list"}
Levels == {"authenticated", "role_based"}   \* a form without a level is role_based
Anything == "any"

ASSUME AccessAssumption ==
    /\ Roles \cap Organizations = {} /\ Users \cap Forms = {} /\ Labels # {}
    /\ None \notin Rows \cup Users \cup Labels /\ Anything \notin Labels
    /\ Scenes \subseteq SUBSET Kinds
    /\ MaxCalls \in Nat /\ MaxBreaks \in Nat

VARIABLES
    rows,       \* [Rows -> state and name]
    members,    \* userrole rows: [Roles -> SUBSET Users]
    grants,     \* formrole rows: [Roles -> SUBSET Forms]
    users,      \* [Users -> "absent", "regular" or "admin"]
    forms,      \* [Forms -> isActive and accessLevel]
    pc, job,
    scene, calls, breaks,
    due,        \* history: what each row was last set to
    mixed,      \* history: rows that overlapping requests are changing
    seen        \* history: what a user could see while the list is made

tables == <<rows, members, grants, users, forms>>
bounds == <<scene, calls, breaks>>
accessVars == <<tables, pc, job, bounds, due, mixed, seen>>

States == {"none", "active", "inactive", "deleted"}
Row == [state: States, name: Labels]
Steps == {"idle", "write", "check", "insert", "refused", "assigned", "roles", "visible", "answered"}
Job == [row: Rows \cup {None}, copy: Row, field: {"state", "name"},
        batch: SUBSET (Users \cup Forms), todo: SUBSET (Users \cup Forms),
        lost: SUBSET (Users \cup Forms),
        done: SUBSET (Users \cup Forms), user: Users \cup {None},
        roles: SUBSET Roles, shown: SUBSET Forms]

Blank == [state |-> "none", name |-> CHOOSE l \in Labels : TRUE]
NoJob == [row |-> None, copy |-> Blank, field |-> "name", batch |-> {}, todo |-> {}, lost |-> {},
          done |-> {}, user |-> None, roles |-> {}, shown |-> {}]
NothingSeen == [changes |-> 0, lists |-> {}]

AccessTypeOK ==
    /\ rows \in [Rows -> Row]
    /\ members \in [Roles -> SUBSET Users] /\ grants \in [Roles -> SUBSET Forms]
    /\ users \in [Users -> {"absent", "regular", "admin"}]
    /\ forms \in [Forms -> [active: BOOLEAN, level: Levels]]
    /\ pc \in [Callers -> Steps] /\ job \in [Callers -> Job]
    /\ scene \in Scenes /\ calls \in 0..MaxCalls /\ breaks \in 0..MaxBreaks
    /\ due \in [Rows -> [state: States \cup {Anything}, name: Labels \cup {Anything}]]
    /\ mixed \subseteq Rows
    /\ seen \in [Callers -> [changes: 0..2, lists: SUBSET SUBSET Forms]]
    \* a role is assigned to and given forms only after it was created
    /\ \A r \in Roles : rows[r].state = "none" => members[r] = {} /\ grants[r] = {}

AccessInit ==
    /\ rows = [r \in Rows |-> Blank]
    /\ members = [r \in Roles |-> {}] /\ grants = [r \in Roles |-> {}]
    /\ users = [u \in Users |-> "regular"]
    /\ forms = [f \in Forms |-> [active |-> TRUE, level |-> "role_based"]]
    /\ pc = [p \in Callers |-> "idle"] /\ job = [p \in Callers |-> NoJob]
    /\ scene \in Scenes /\ calls = 0 /\ breaks = 0
    /\ due = [r \in Rows |-> Blank] /\ mixed = {}
    /\ seen = [p \in Callers |-> NothingSeen]

-----------------------------------------------------------------------------
(* Requests. *)

Ask(p, kind) ==
    /\ pc[p] = "idle" /\ kind \in scene
    /\ calls < MaxCalls /\ calls' = calls + 1
    /\ UNCHANGED <<scene, breaks>>

Goto(p, step) == pc' = [pc EXCEPT ![p] = step]
Begin(p, step, record) == Goto(p, step) /\ job' = [job EXCEPT ![p] = record]
Answer(p) == Begin(p, "idle", NoJob)

\* An insertion or a read that fails.
Failing == breaks < MaxBreaks /\ breaks' = breaks + 1

-----------------------------------------------------------------------------
(* Roles and organizations: whole rows, read and written. *)

Changers(r) == {p \in Callers : pc[p] = "write" /\ job[p].row = r}

\* The row was changed in one field, if nobody else is about to write what it read before.
Owe(p, r, field, value) ==
    LET others == Changers(r) \ {p} # {}
    IN /\ mixed' = IF others THEN mixed \cup {r} ELSE mixed \ {r}
       /\ due' = [due EXCEPT ![r] =
                    IF r \in mixed \/ others THEN [state |-> Anything, name |-> Anything]
                    ELSE [@ EXCEPT ![field] = value]]

\* A new row has a new id.
Create(p, r, label) ==
    /\ Ask(p, "create") /\ rows[r].state = "none"
    /\ rows' = [rows EXCEPT ![r] = [state |-> "active", name |-> label]]
    /\ due' = [due EXCEPT ![r] = [state |-> "active", name |-> label]]
    /\ UNCHANGED <<members, grants, users, forms, pc, job, mixed, seen>>

CreateRole(p, r, label) == r \in Roles /\ Create(p, r, label)
CreateOrganization(p, o, label) == o \in Organizations /\ Create(p, o, label)

There(r) == rows[r].state \in {"active", "inactive"}

ReadToWrite(p, r, field, value) ==
    /\ There(r)
    /\ Begin(p, "write", [NoJob EXCEPT !.row = r, !.field = field,
                                       !.copy = [rows[r] EXCEPT ![field] = value]])
    /\ UNCHANGED <<tables, due, mixed, seen>>

\* update_role: the name; a deleted role may be renamed.
UpdateRole(p, r, label) == Ask(p, "update") /\ ReadToWrite(p, r, "name", label)

\* delete_role only marks the role; what is assigned to it stays and counts.
DeleteRole(p, r) == Ask(p, "delete") /\ ReadToWrite(p, r, "state", "inactive")

\* update_organization: the name, or IsActive.
UpdateOrganization(p, o, field, value) ==
    Ask(p, "update") /\ ReadToWrite(p, o, field, value)

\* Mutant of WriteRow: the row is upserted.
UpsertRow(p) ==
    /\ pc[p] = "write"
    /\ rows' = [rows EXCEPT ![job[p].row] = job[p].copy]
    /\ UNCHANGED <<members, grants, users, forms, bounds, due, mixed, seen>>
    /\ Answer(p)

\* All of the row is written back; one that is gone is not made again.
WriteRow(p) ==
    LET r == job[p].row
    IN /\ pc[p] = "write"
       /\ \/ /\ There(r)
             /\ rows' = [rows EXCEPT ![r] = job[p].copy]
             /\ Owe(p, r, job[p].field, job[p].copy[job[p].field])
          \/ ~There(r) /\ UNCHANGED <<rows, due, mixed>>
       /\ Answer(p)
       /\ UNCHANGED <<members, grants, users, forms, bounds, seen>>

\* delete_organization removes the row, for good, and nothing that belongs to the organization.
DeleteOrganization(p, o) ==
    /\ Ask(p, "delete") /\ There(o)
    /\ rows' = [rows EXCEPT ![o].state = "deleted"]
    /\ due' = [due EXCEPT ![o] = [state |-> "deleted", name |-> Anything]]
    /\ UNCHANGED <<members, grants, users, forms, pc, job, mixed, seen>>

-----------------------------------------------------------------------------
(* What a user sees. *)

Level(f) == forms[f].level
Active == {f \in Forms : forms[f].active}
RolesOf(u) == {r \in Roles : u \in members[r]}
RolesFor(f) == {r \in Roles : f \in grants[r]}
Visible(u) ==
    {f \in Active : Level(f) = "authenticated" \/ RolesOf(u) \cap RolesFor(f) # {}}

\* Lists that are being made note that something was written.
Noted ==
    seen' = [q \in Callers |->
               IF pc[q] \in {"roles", "visible"}
               THEN [changes |-> IF seen[q].changes = 2 THEN 2 ELSE seen[q].changes + 1,
                     lists |-> seen[q].lists \cup {Visible(job[q].user)'}]
               ELSE seen[q]]

\* get_user_visible_forms: the active forms that anybody may see are in the list, the others
\* are looked at one by one ...
List(p, u) ==
    /\ Ask(p, "list") /\ users[u] = "regular"
    /\ Begin(p, "roles",
             [NoJob EXCEPT !.user = u,
                !.todo = {f \in Active : Level(f) = "role_based"},
                !.shown = {f \in Active : Level(f) = "authenticated"}])
    /\ seen' = [seen EXCEPT ![p] = [changes |-> 0, lists |-> {Visible(u)}]]
    /\ UNCHANGED <<tables, due, mixed>>

\* ... after the roles of the user were read, deleted ones included ...
ReadRoles(p) ==
    /\ pc[p] = "roles"
    /\ job' = [job EXCEPT ![p].roles = RolesOf(job[p].user)]
    /\ Goto(p, IF job[p].todo = {} THEN "answered" ELSE "visible")
    /\ UNCHANGED <<tables, bounds, due, mixed, seen>>

Looked(p, f) == Goto(p, IF job[p].todo = {f} THEN "answered" ELSE "visible")

\* Mutant of CheckForm: a form without any role is for everybody.
CheckFormOrOpen(p) ==
    /\ pc[p] = "visible"
    /\ \E f \in job[p].todo :
          /\ Looked(p, f)
          /\ job' = [job EXCEPT ![p].todo = @ \ {f},
                               ![p].shown = IF RolesFor(f) = {} \/ RolesFor(f) \cap job[p].roles # {}
                                            THEN @ \cup {f} ELSE @]
    /\ UNCHANGED <<tables, bounds, due, mixed, seen>>

\* ... each with a read of its roles.
CheckForm(p) ==
    /\ pc[p] = "visible"
    /\ \E f \in job[p].todo :
          /\ Looked(p, f)
          /\ job' = [job EXCEPT ![p].todo = @ \ {f},
                               ![p].shown = IF RolesFor(f) \cap job[p].roles # {}
                                            THEN @ \cup {f} ELSE @]
    /\ UNCHANGED <<tables, bounds, due, mixed, seen>>

Return(p) ==
    /\ pc[p] \in {"answered", "refused", "assigned"}
    /\ Answer(p)
    /\ seen' = [seen EXCEPT ![p] = NothingSeen]
    /\ UNCHANGED <<tables, bounds, due, mixed>>

-----------------------------------------------------------------------------
(* Assignments. *)

\* Mutant of AssignUsers: the role is not looked for.
AssignUnseen(p, r, batch) ==
    /\ Ask(p, "assignUsers") /\ batch # {}
    /\ Begin(p, "check", [NoJob EXCEPT !.row = r, !.batch = batch, !.todo = batch])
    /\ UNCHANGED <<tables, due, mixed, seen>>

\* assign_users_to_role_handler: the role is there, deleted or not ...
AssignUsers(p, r, batch) ==
    /\ Ask(p, "assignUsers") /\ There(r) /\ batch # {}
    /\ Begin(p, "check", [NoJob EXCEPT !.row = r, !.batch = batch, !.todo = batch])
    /\ UNCHANGED <<tables, due, mixed, seen>>

\* Mutant of CheckUser: a user is assigned as soon as it was looked at.
CheckAndInsert(p) ==
    /\ pc[p] = "check"
    /\ \E u \in job[p].todo :
          \/ /\ users[u] = "regular"
             /\ members' = [members EXCEPT ![job[p].row] = @ \cup {u}]
             /\ Goto(p, IF job[p].todo = {u} THEN "assigned" ELSE "check")
             /\ job' = [job EXCEPT ![p].todo = @ \ {u}, ![p].done = @ \cup {u}]
          \/ /\ users[u] # "regular"
             /\ Goto(p, "refused")
             /\ UNCHANGED <<members, job>>
    /\ UNCHANGED <<rows, grants, users, forms, bounds, due, mixed, seen>>

\* ... and each user is read: all of them must be there and none an administrator.
CheckUser(p) ==
    /\ pc[p] = "check"
    /\ \E u \in job[p].todo :
          \/ /\ users[u] = "regular" /\ job[p].todo # {u}
             /\ job' = [job EXCEPT ![p].todo = @ \ {u}]
             /\ UNCHANGED pc
          \/ /\ users[u] = "regular" /\ job[p].todo = {u}
             /\ Begin(p, "insert", [job[p] EXCEPT !.todo = job[p].batch])
          \/ /\ users[u] # "regular"
             /\ Goto(p, "refused")
             /\ UNCHANGED job
    /\ UNCHANGED <<tables, bounds, due, mixed, seen>>

\* assign_forms_to_role_handler asks for the role only.
AssignForms(p, r, batch) ==
    /\ Ask(p, "assignForms") /\ There(r) /\ batch # {}
    /\ Begin(p, "insert", [NoJob EXCEPT !.row = r, !.batch = batch, !.todo = batch])
    /\ UNCHANGED <<tables, due, mixed, seen>>

\* Rows are inserted one by one; a failure is logged and passed over.
Insert(p) ==
    /\ pc[p] = "insert"
    /\ UNCHANGED <<rows, users, forms, scene, calls, due, mixed>>
    /\ \E x \in job[p].todo :
          /\ Goto(p, IF job[p].todo = {x} THEN "assigned" ELSE "insert")
          /\ \/ /\ members' = [r \in Roles |-> IF r = job[p].row /\ x \in Users
                                               THEN members[r] \cup {x} ELSE members[r]]
                /\ grants' = [r \in Roles |-> IF r = job[p].row /\ x \in Forms
                                              THEN grants[r] \cup {x} ELSE grants[r]]
                /\ job' = [job EXCEPT ![p].todo = @ \ {x}, ![p].done = @ \cup {x}]
                /\ UNCHANGED breaks
                /\ Noted
             \/ /\ Failing
                /\ job' = [job EXCEPT ![p].todo = @ \ {x}, ![p].lost = @ \cup {x}]
                /\ UNCHANGED <<members, grants, seen>>

\* The row of the assignment is deleted; another of the reverse order is never there.
Unassign(p, r, x) ==
    /\ Ask(p, "remove")
    /\ members' = [members EXCEPT ![r] = @ \ {x}]
    /\ grants' = [grants EXCEPT ![r] = @ \ {x}]
    /\ job' = [q \in Callers |-> IF q # p /\ job[q].row = r /\ x \in job[q].batch
                                 THEN [job[q] EXCEPT !.lost = @ \cup {x}] ELSE job[q]]
    /\ UNCHANGED <<rows, users, forms, pc, due, mixed>>
    /\ Noted

RemoveUser(p, r, u) == u \in members[r] /\ Unassign(p, r, u)
RemoveForm(p, r, f) == f \in grants[r] /\ Unassign(p, r, f)

\* Users are promoted and deleted, which leaves their roles.
ChangeUser(p, u, state) ==
    /\ Ask(p, "changeUser") /\ users[u] = "regular" /\ state # "regular"
    /\ users' = [users EXCEPT ![u] = state]
    /\ UNCHANGED <<rows, members, grants, forms, pc, job, due, mixed, seen>>

\* Forms are edited.
ChangeForm(p, f, form) ==
    /\ Ask(p, "changeForm") /\ forms[f] # form
    /\ forms' = [forms EXCEPT ![f] = form]
    /\ UNCHANGED <<rows, members, grants, users, pc, job, due, mixed>>
    /\ Noted

\* A process dies, or a read or a write that is not passed over fails.
Break(p) ==
    /\ Failing /\ pc[p] \notin {"idle", "answered", "refused", "assigned"}
    /\ Answer(p)
    /\ mixed' = mixed \ {r \in mixed : Changers(r) \subseteq {p}}
    /\ seen' = [seen EXCEPT ![p] = NothingSeen]
    /\ UNCHANGED <<tables, scene, calls, due>>

AccessNext ==
    \/ \E p \in Callers, r \in Rows, l \in Labels : CreateRole(p, r, l) \/ CreateOrganization(p, r, l)
    \/ \E p \in Callers, r \in Roles, l \in Labels : UpdateRole(p, r, l)
    \/ \E p \in Callers, r \in Roles : DeleteRole(p, r)
    \/ \E p \in Callers, o \in Organizations, l \in Labels : UpdateOrganization(p, o, "name", l)
    \/ \E p \in Callers, o \in Organizations, s \in {"active", "inactive"} :
          UpdateOrganization(p, o, "state", s)
    \/ \E p \in Callers, o \in Organizations : DeleteOrganization(p, o)
    \/ \E p \in Callers, r \in Roles, batch \in SUBSET Users : AssignUsers(p, r, batch)
    \/ \E p \in Callers, r \in Roles, batch \in SUBSET Forms : AssignForms(p, r, batch)
    \/ \E p \in Callers, r \in Roles, u \in Users : RemoveUser(p, r, u)
    \/ \E p \in Callers, r \in Roles, f \in Forms : RemoveForm(p, r, f)
    \/ \E p \in Callers, u \in Users, s \in {"absent", "admin"} : ChangeUser(p, u, s)
    \/ \E p \in Callers, f \in Forms, a \in BOOLEAN, l \in Levels :
          ChangeForm(p, f, [active |-> a, level |-> l])
    \/ \E p \in Callers, u \in Users : List(p, u)
    \/ \E p \in Callers :
          \/ WriteRow(p) \/ ReadRoles(p) \/ CheckForm(p) \/ Return(p)
          \/ CheckUser(p) \/ Insert(p) \/ Break(p)

AccessSpec == AccessInit /\ [][AccessNext]_accessVars

-----------------------------------------------------------------------------

\* When nobody is changing a role or an organization, each of its fields is as it was last set,
\* unless requests overlapped on it; a soft-deleted role comes back only so, and a removed
\* organization not even so.
RowChangesStay ==
    \A r \in Rows : Changers(r) = {} =>
        /\ due[r].state \in {Anything, rows[r].state}
        /\ due[r].name \in {Anything, rows[r].name}

\* A list of forms during which at most one thing was written is what the user could see at
\* some moment, though forms, roles of the user and roles of each form are read one by one.
ListedAtOneMoment ==
    \A p \in Callers : (pc[p] = "answered" /\ seen[p].changes < 2) => job[p].shown \in seen[p].lists

\* A batch that is refused assigns nobody; one that is answered has assigned everybody but
\* those whose insertion failed or who were removed since it was asked for.
BatchIsWhole ==
    \A p \in Callers :
        /\ pc[p] = "refused" => job[p].done = {}
        /\ pc[p] = "assigned" =>
              job[p].batch \ job[p].lost \subseteq members[job[p].row] \cup grants[job[p].row]

\* The states of roles and organizations: assignments belong to roles, batches are whole, and
\* rows have what they were last set to.
AccessInv == AccessTypeOK /\ BatchIsWhole /\ RowChangesStay
=============================================================================
