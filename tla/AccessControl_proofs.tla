-------------------------- MODULE AccessControl_proofs --------------------------
(***************************************************************************)
(* What holds of roles, organizations and lists of forms for any requests,   *)
(* users and forms: rows keep what they were last set to, batches are whole, *)
(* and a list is what the user could see at one moment.                      *)
(***************************************************************************)
EXTENDS AccessControl, TLAPS

Fields == {"state", "name"}

\* The copy that p is about to write is the row, but for the field that p sets, as long as nobody
\* else has written the row.
WriterOK(p) ==
    LET r == job[p].row
    IN /\ r \in Rows /\ rows[r].state # "none"
       /\ job[p].copy.state \in {"active", "inactive"}
       /\ r \notin mixed /\ There(r) =>
             \A g \in Fields \ {job[p].field} : job[p].copy[g] = rows[r][g]

\* A row is what it was last set to.
RowsInv ==
    /\ \A r \in Rows, g \in Fields : due[r][g] \in {Anything, rows[r][g]}
    /\ \A p \in Callers : pc[p] = "write" => WriterOK(p)

\* What is assigned to a role, of the batch of a request.
Assigned(p) == members[job[p].row] \cup grants[job[p].row]

BatchInv ==
    \A p \in Callers :
        /\ pc[p] \in {"check", "insert", "refused", "assigned"} =>
              job[p].row \in Roles /\ rows[job[p].row].state # "none"
        /\ pc[p] \in {"check", "refused"} => job[p].done = {}
        /\ pc[p] = "insert" => job[p].batch \ (job[p].todo \cup job[p].lost) \subseteq Assigned(p)
        /\ pc[p] = "assigned" => job[p].batch \ job[p].lost \subseteq Assigned(p)

RoleBased == {f \in Active : Level(f) = "role_based"}
Authenticated == {f \in Active : Level(f) = "authenticated"}

\* The list that p will answer with if nothing is written any more.
Coming(p) ==
    job[p].shown \cup
        {f \in job[p].todo : RolesFor(f) \cap (IF pc[p] = "roles" THEN RolesOf(job[p].user)
                                               ELSE job[p].roles) # {}}

\* That list is one the user could see, before a second change; before the first it is what the
\* user can see.
ListInv ==
    \A p \in Callers : pc[p] \in {"roles", "visible", "answered"} =>
        /\ job[p].user \in Users /\ job[p].todo \subseteq Forms /\ job[p].shown \cap job[p].todo = {}
        /\ pc[p] = "answered" => job[p].todo = {}
        /\ seen[p].changes < 2 => Coming(p) \in seen[p].lists
        /\ seen[p].changes = 0 /\ pc[p] # "answered" =>
              /\ Coming(p) = Visible(job[p].user)
              /\ job[p].todo \subseteq RoleBased
              /\ pc[p] = "roles" => job[p].todo = RoleBased /\ job[p].shown = Authenticated
              /\ pc[p] = "visible" => job[p].roles = RolesOf(job[p].user)

TablesInv == AccessTypeOK /\ RowsInv /\ BatchInv /\ ListInv

-----------------------------------------------------------------------------
(* Rows, requests and lists.                                                 *)

LEMMA BlankType == Blank \in Row /\ Blank.state = "none"
BY AccessAssumption DEF Blank, Row, States

LEMMA NoJobType == NoJob \in Job
BY BlankType DEF NoJob, Job

LEMMA NothingSeenType == NothingSeen \in [changes: 0..2, lists: SUBSET SUBSET Forms]
BY DEF NothingSeen

LEMMA BoundsType ==
    ASSUME AccessTypeOK
    PROVE  /\ UNCHANGED bounds => scene' = scene /\ calls' \in 0..MaxCalls /\ breaks' \in 0..MaxBreaks
           /\ \A p, k : Ask(p, k) => /\ scene' = scene /\ calls' \in 0..MaxCalls
                                     /\ breaks' \in 0..MaxBreaks /\ pc[p] = "idle"
           /\ Failing => breaks' \in 0..MaxBreaks
BY AccessAssumption DEF AccessTypeOK, bounds, Ask, Failing

\* p goes on with another record.
LEMMA Begun ==
    ASSUME AccessTypeOK, NEW p \in Callers, NEW step \in Steps, NEW record \in Job,
           Begin(p, step, record)
    PROVE  /\ pc' \in [Callers -> Steps] /\ job' \in [Callers -> Job]
           /\ pc'[p] = step /\ job'[p] = record
           /\ \A q \in Callers \ {p} : pc'[q] = pc[q] /\ job'[q] = job[q]
BY DEF AccessTypeOK, Begin, Goto

LEMMA Answered ==
    ASSUME AccessTypeOK, NEW p \in Callers, Answer(p)
    PROVE  /\ pc' \in [Callers -> Steps] /\ job' \in [Callers -> Job]
           /\ pc'[p] = "idle"
           /\ \A q \in Callers \ {p} : pc'[q] = pc[q] /\ job'[q] = job[q]
BY Begun, NoJobType DEF Answer, Steps

\* A step that leaves the assignments of roles alone, or adds to those of a role that is there.
LEMMA TypeStep ==
    ASSUME AccessTypeOK,
           rows' \in [Rows -> Row],
           \A r \in Rows : rows[r].state # "none" => rows'[r].state # "none",
           members' \in [Roles -> SUBSET Users], grants' \in [Roles -> SUBSET Forms],
           \A r \in Roles : rows[r].state = "none" => members'[r] = {} /\ grants'[r] = {},
           users' \in [Users -> {"absent", "regular", "admin"}],
           forms' \in [Forms -> [active: BOOLEAN, level: Levels]],
           pc' \in [Callers -> Steps], job' \in [Callers -> Job],
           scene' = scene, calls' \in 0..MaxCalls, breaks' \in 0..MaxBreaks,
           due' \in [Rows -> [state: States \cup {Anything}, name: Labels \cup {Anything}]],
           mixed' \subseteq Rows,
           seen' \in [Callers -> [changes: 0..2, lists: SUBSET SUBSET Forms]]
    PROVE  AccessTypeOK'
BY DEF AccessTypeOK, Rows

LEMMA RowsUnmoved ==
    ASSUME TablesInv, UNCHANGED <<rows, due, mixed>>,
           \A q \in Callers : pc'[q] = "write" =>
               /\ pc[q] = "write" /\ job'[q].row = job[q].row
               /\ job'[q].copy = job[q].copy /\ job'[q].field = job[q].field
    PROVE  RowsInv'
BY DEF TablesInv, RowsInv, WriterOK, There

LEMMA BatchUnmoved ==
    ASSUME TablesInv, UNCHANGED <<members, grants>>,
           \A r \in Rows : rows[r].state # "none" => rows'[r].state # "none",
           \A q \in Callers : pc'[q] \in {"check", "insert", "refused", "assigned"} =>
               pc[q] = pc'[q] /\ job'[q] = job[q]
    PROVE  BatchInv'
BY DEF TablesInv, BatchInv, Assigned, Rows

\* What readers have of their list stays.
ReadersGoOn ==
    \A q \in Callers : pc'[q] \in {"roles", "visible", "answered"} =>
        /\ pc[q] = pc'[q] /\ job'[q].todo = job[q].todo /\ job'[q].shown = job[q].shown
        /\ job'[q].user = job[q].user /\ job'[q].roles = job[q].roles

LEMMA ListsUnmoved ==
    ASSUME TablesInv, UNCHANGED <<members, grants, forms>>, ReadersGoOn,
           \A q \in Callers : pc'[q] \in {"roles", "visible", "answered"} => seen'[q] = seen[q]
    PROVE  ListInv'
<1>1. Active' = Active /\ RoleBased' = RoleBased /\ Authenticated' = Authenticated
    BY DEF Active, RoleBased, Authenticated, Level
<1>2. \A u : RolesOf(u)' = RolesOf(u) /\ Visible(u)' = Visible(u)
    BY DEF RolesOf, RolesFor, Visible, Active, Level
<1>3. \A f : RolesFor(f)' = RolesFor(f)
    BY DEF RolesFor
<1> SUFFICES ASSUME NEW q \in Callers, pc'[q] \in {"roles", "visible", "answered"}
             PROVE  /\ job'[q].user \in Users /\ job'[q].todo \subseteq Forms
                    /\ job'[q].shown \cap job'[q].todo = {}
                    /\ pc'[q] = "answered" => job'[q].todo = {}
                    /\ seen'[q].changes < 2 => Coming(q)' \in seen'[q].lists
                    /\ seen'[q].changes = 0 /\ pc'[q] # "answered" =>
                          /\ Coming(q)' = Visible(job[q].user)'
                          /\ job'[q].todo \subseteq RoleBased'
                          /\ pc'[q] = "roles" => job'[q].todo = RoleBased' /\ job'[q].shown = Authenticated'
                          /\ pc'[q] = "visible" => job'[q].roles = RolesOf(job[q].user)'
    BY DEF ListInv
<1>4. pc'[q] = pc[q] /\ job'[q].user = job[q].user /\ job'[q].todo = job[q].todo
      /\ job'[q].shown = job[q].shown /\ job'[q].roles = job[q].roles
    BY DEF ReadersGoOn
<1>5. Coming(q)' = Coming(q)
    BY <1>3, <1>4 DEF Coming, RolesOf
<1>6. Visible(job[q].user)' = Visible(job[q].user) /\ RolesOf(job[q].user)' = RolesOf(job[q].user)
    BY <1>1, <1>3, <1>4 DEF Visible, RolesOf, Level
<1> QED BY <1>1, <1>4, <1>5, <1>6 DEF TablesInv, ListInv

-----------------------------------------------------------------------------
(* Roles and organizations.                                                  *)

LEMMA CreateHolds ==
    ASSUME TablesInv, NEW p \in Callers, NEW r \in Rows, NEW l \in Labels, Create(p, r, l)
    PROVE  TablesInv'
<1> DEFINE row == [state |-> "active", name |-> l]
<1>1. AccessTypeOK /\ RowsInv
    BY DEF TablesInv
<1>2. /\ rows' = [rows EXCEPT ![r] = row] /\ due' = [due EXCEPT ![r] = row]
      /\ rows[r].state = "none" /\ Ask(p, "create")
      /\ UNCHANGED <<members, grants, users, forms, pc, job, mixed, seen>>
    BY DEF Create
<1>3. /\ row \in Row /\ row \in [state: States \cup {Anything}, name: Labels \cup {Anything}]
      /\ row.state = "active"
    BY DEF Row, States
<1> HIDE DEF row
<1>4. /\ rows' \in [Rows -> Row] /\ rows'[r] = row /\ \A q \in Rows \ {r} : rows'[q] = rows[q]
      /\ due' \in [Rows -> [state: States \cup {Anything}, name: Labels \cup {Anything}]]
      /\ due'[r] = row /\ \A q \in Rows \ {r} : due'[q] = due[q]
    BY <1>1, <1>2, <1>3 DEF AccessTypeOK
<1>5. \A q \in Rows : rows[q].state # "none" => rows'[q] = rows[q]
    BY <1>2, <1>4
<1>6. RowsInv'
    BY <1>1, <1>2, <1>4, <1>5 DEF RowsInv, WriterOK, There
<1>7. BatchInv' /\ ListInv'
    BY <1>2, <1>5, BatchUnmoved, ListsUnmoved DEF ReadersGoOn
<1>8. AccessTypeOK'
    BY <1>1, <1>2, <1>4, <1>5, BoundsType, TypeStep DEF AccessTypeOK
<1> QED BY <1>6, <1>7, <1>8 DEF TablesInv

LEMMA ReadToWriteHolds ==
    ASSUME TablesInv, NEW p \in Callers, NEW r \in Rows, NEW kind, Ask(p, kind),
           NEW field \in Fields, NEW value,
           field = "state" => value \in {"active", "inactive"}, field = "name" => value \in Labels,
           ReadToWrite(p, r, field, value)
    PROVE  TablesInv'
<1> DEFINE copy == [rows[r] EXCEPT ![field] = value]
           record == [NoJob EXCEPT !.row = r, !.field = field, !.copy = copy]
<1>1. AccessTypeOK /\ RowsInv /\ rows[r] \in Row /\ There(r)
    BY DEF TablesInv, AccessTypeOK, ReadToWrite
<1>2. /\ copy \in Row /\ copy.state \in {"active", "inactive"}
      /\ \A g \in Fields \ {field} : copy[g] = rows[r][g]
    <2>1. CASE field = "state"
        BY <1>1, <2>1 DEF Row, States, Fields
    <2>2. CASE field = "name"
        BY <1>1, <2>2 DEF Row, States, Fields, There
    <2> QED BY <2>1, <2>2 DEF Fields
<1> HIDE DEF copy
<1>3. record \in Job /\ record.row = r /\ record.field = field /\ record.copy = copy
    BY <1>2, NoJobType DEF NoJob, Job, Fields
<1>4. Begin(p, "write", record) /\ UNCHANGED <<tables, due, mixed, seen>>
    BY DEF ReadToWrite, copy
<1> HIDE DEF record
<1>5. /\ pc' \in [Callers -> Steps] /\ job' \in [Callers -> Job]
      /\ pc'[p] = "write" /\ job'[p] = record
      /\ \A q \in Callers \ {p} : pc'[q] = pc[q] /\ job'[q] = job[q]
    BY <1>1, <1>3, <1>4, Begun DEF Steps
<1>6. RowsInv'
    BY <1>1, <1>2, <1>3, <1>4, <1>5 DEF RowsInv, WriterOK, tables, There
<1>7. BatchInv' /\ ListInv'
    BY <1>4, <1>5, BatchUnmoved, ListsUnmoved DEF tables, ReadersGoOn
<1>8. AccessTypeOK'
    BY <1>1, <1>4, <1>5, BoundsType, TypeStep DEF tables, AccessTypeOK
<1> QED BY <1>6, <1>7, <1>8 DEF TablesInv

\* A copy that is up to date but for its field makes the row what it was last set to; if it may
\* not be, anything is expected of the row.
LEMMA WriteRowHolds ==
    ASSUME TablesInv, NEW p \in Callers, WriteRow(p)
    PROVE  TablesInv'
<1>1. AccessTypeOK /\ RowsInv /\ job[p] \in Job
    BY DEF TablesInv, AccessTypeOK
<1>2. PICK r \in Rows, copy \in Row, field \in Fields :
          r = job[p].row /\ copy = job[p].copy /\ field = job[p].field
    BY <1>1 DEF WriteRow, RowsInv, WriterOK, Job, Fields
<1>3. /\ pc' \in [Callers -> Steps] /\ job' \in [Callers -> Job]
      /\ pc'[p] = "idle"
      /\ \A q \in Callers \ {p} : pc'[q] = pc[q] /\ job'[q] = job[q]
    BY <1>1, Answered DEF WriteRow
<1>4. UNCHANGED <<members, grants, users, forms, bounds, seen>> /\ pc[p] = "write"
    BY DEF WriteRow
<1>5. rows[r].state # "none" /\ copy.state \in {"active", "inactive"}
    BY <1>1, <1>2, <1>4 DEF RowsInv, WriterOK
<1>6. CASE ~There(r)
    <2>1. UNCHANGED <<rows, due, mixed>>
        BY <1>2, <1>6 DEF WriteRow
    <2>2. RowsInv' /\ BatchInv' /\ ListInv'
        BY <1>3, <1>4, <2>1, RowsUnmoved, BatchUnmoved, ListsUnmoved DEF ReadersGoOn
    <2>3. AccessTypeOK'
        BY <1>1, <1>3, <1>4, <2>1, BoundsType, TypeStep DEF AccessTypeOK
    <2> QED BY <2>2, <2>3 DEF TablesInv
<1>7. CASE There(r)
    <2> DEFINE others == Changers(r) \ {p} # {}
               any == [state |-> Anything, name |-> Anything]
    <2>1. rows' = [rows EXCEPT ![r] = copy] /\ Owe(p, r, field, copy[field])
        BY <1>2, <1>7 DEF WriteRow
    <2>2. /\ rows' \in [Rows -> Row] /\ rows'[r] = copy
          /\ \A q \in Rows \ {r} : rows'[q] = rows[q]
        BY <1>1, <2>1 DEF AccessTypeOK
    <2>3. mixed' \subseteq Rows /\ \A q \in Rows \ {r} : q \in mixed' <=> q \in mixed
        BY <1>1, <2>1 DEF Owe, AccessTypeOK
    <2>4. others => r \in mixed'
        BY <2>1 DEF Owe
    <2>5. /\ due' \in [Rows -> [state: States \cup {Anything}, name: Labels \cup {Anything}]]
          /\ \A q \in Rows \ {r} : due'[q] = due[q]
          /\ \A g \in Fields : due'[r][g] \in {Anything, copy[g]}
        <3>1. PICK d : /\ due' = [due EXCEPT ![r] = d]
                       /\ d = IF r \in mixed \/ others THEN any
                              ELSE [due[r] EXCEPT ![field] = copy[field]]
            BY <1>1, <2>1 DEF Owe, AccessTypeOK
        <3>2. due[r] \in [state: States \cup {Anything}, name: Labels \cup {Anything}]
            BY <1>1 DEF AccessTypeOK
        <3>3. CASE r \in mixed \/ others
            BY <1>1, <3>1, <3>3 DEF AccessTypeOK, Fields
        <3>4. CASE ~(r \in mixed \/ others)
            <4>1. \A g \in Fields \ {field} : copy[g] = rows[r][g]
                BY <1>1, <1>2, <1>4, <1>7, <3>4 DEF RowsInv, WriterOK
            <4>2. \A g \in Fields \ {field} : due[r][g] \in {Anything, copy[g]}
                BY <1>1, <4>1 DEF RowsInv
            <4>3. d = [due[r] EXCEPT ![field] = copy[field]]
                BY <3>1, <3>4
            <4>4. CASE field = "state"
                <5>1. /\ d \in [state: States \cup {Anything}, name: Labels \cup {Anything}]
                      /\ d["state"] = copy["state"] /\ d["name"] = due[r]["name"]
                    BY <3>2, <4>3, <4>4 DEF Row
                <5> QED BY <1>1, <3>1, <4>2, <4>4, <5>1 DEF AccessTypeOK, Fields
            <4>5. CASE field = "name"
                <5>1. /\ d \in [state: States \cup {Anything}, name: Labels \cup {Anything}]
                      /\ d["name"] = copy["name"] /\ d["state"] = due[r]["state"]
                    BY <3>2, <4>3, <4>5 DEF Row
                <5> QED BY <1>1, <3>1, <4>2, <4>5, <5>1 DEF AccessTypeOK, Fields
            <4> QED BY <4>4, <4>5 DEF Fields
        <3> QED BY <3>3, <3>4
    <2>6. RowsInv'
        <3>1. \A q \in Rows, g \in Fields : due'[q][g] \in {Anything, rows'[q][g]}
            BY <1>1, <2>2, <2>5 DEF RowsInv
        <3>2. ASSUME NEW q \in Callers, pc'[q] = "write"
              PROVE  WriterOK(q)'
            <4>1. q # p /\ pc[q] = "write" /\ job'[q] = job[q]
                BY <1>3, <3>2
            <4>2. CASE job[q].row = r
                BY <1>1, <1>2, <1>3, <1>5, <2>2, <2>4, <3>2, <4>1, <4>2 DEF RowsInv, WriterOK, Changers, There
            <4>3. CASE job[q].row # r
                BY <1>1, <2>2, <2>3, <4>1, <4>3 DEF RowsInv, WriterOK, There
            <4> QED BY <4>2, <4>3
        <3> QED BY <3>1, <3>2 DEF RowsInv
    <2>7. \A q \in Rows : rows[q].state # "none" => rows'[q].state # "none"
        BY <1>5, <2>2
    <2>8. BatchInv' /\ ListInv'
        BY <1>3, <1>4, <2>7, BatchUnmoved, ListsUnmoved DEF ReadersGoOn
    <2>9. AccessTypeOK'
        BY <1>1, <1>3, <1>4, <2>2, <2>3, <2>5, <2>7, BoundsType, TypeStep DEF AccessTypeOK
    <2> QED BY <2>6, <2>8, <2>9 DEF TablesInv
<1> QED BY <1>6, <1>7

LEMMA DeleteOrganizationHolds ==
    ASSUME TablesInv, NEW p \in Callers, NEW o \in Organizations, DeleteOrganization(p, o)
    PROVE  TablesInv'
<1> DEFINE d == [state |-> "deleted", name |-> Anything]
<1>1. AccessTypeOK /\ RowsInv /\ o \in Rows /\ rows[o] \in Row
    BY DEF TablesInv, AccessTypeOK, Rows
<1>2. /\ rows' = [rows EXCEPT ![o] = [rows[o] EXCEPT !.state = "deleted"]]
      /\ due' = [due EXCEPT ![o] = d] /\ Ask(p, "delete")
      /\ UNCHANGED <<members, grants, users, forms, pc, job, mixed, seen>>
    BY <1>1 DEF DeleteOrganization, AccessTypeOK
<1>3. PICK row \in Row : row = [rows[o] EXCEPT !.state = "deleted"] /\ row.state = "deleted"
    <2>1. LET row == [rows[o] EXCEPT !.state = "deleted"]
          IN row \in Row /\ row.state = "deleted"
        BY <1>1 DEF Row, States
    <2> QED BY <2>1
<1>4. /\ rows' \in [Rows -> Row] /\ rows'[o] = row /\ \A q \in Rows \ {o} : rows'[q] = rows[q]
    BY <1>1, <1>2, <1>3 DEF AccessTypeOK
<1>5. d \in [state: States \cup {Anything}, name: Labels \cup {Anything}]
      /\ d["state"] = "deleted" /\ d["name"] = Anything
    BY DEF States
<1> HIDE DEF d
<1>6. /\ due' \in [Rows -> [state: States \cup {Anything}, name: Labels \cup {Anything}]]
      /\ due'[o] = d /\ \A q \in Rows \ {o} : due'[q] = due[q]
    BY <1>1, <1>2, <1>5 DEF AccessTypeOK
<1>7. \A q \in Rows : rows[q].state # "none" => rows'[q].state # "none"
    BY <1>3, <1>4
<1>8. RowsInv'
    <2>1. \A q \in Rows, g \in Fields : due'[q][g] \in {Anything, rows'[q][g]}
        BY <1>1, <1>3, <1>4, <1>5, <1>6 DEF RowsInv, Fields
    <2>2. \A q \in Rows : There(q)' => q # o /\ There(q)
        BY <1>3, <1>4 DEF There
    <2> QED BY <1>1, <1>2, <1>4, <1>7, <2>1, <2>2 DEF RowsInv, WriterOK
<1>9. BatchInv' /\ ListInv'
    BY <1>2, <1>7, BatchUnmoved, ListsUnmoved DEF ReadersGoOn
<1>10. AccessTypeOK'
    BY <1>1, <1>2, <1>4, <1>6, <1>7, BoundsType, TypeStep DEF AccessTypeOK
<1> QED BY <1>8, <1>9, <1>10 DEF TablesInv

-----------------------------------------------------------------------------
(* Writes that lists note.                                                   *)

\* A write changes who has roles, or the roles of one form, or forms.
WritesMembers == UNCHANGED <<grants, forms>>
WritesGrant(f) == UNCHANGED <<members, forms>> /\ \A g \in Forms \ {f} : RolesFor(g)' = RolesFor(g)
WritesForms == UNCHANGED <<members, grants>>
Writes == WritesMembers \/ (\E f \in Forms : WritesGrant(f)) \/ WritesForms

\* The first write after a list was begun makes it the one before the write, or the one after it.
LEMMA ComingNoted ==
    ASSUME TablesInv, NEW q \in Callers, pc[q] \in {"roles", "visible"}, seen[q].changes = 0,
           pc'[q] = pc[q], job'[q].todo = job[q].todo, job'[q].shown = job[q].shown,
           job'[q].user = job[q].user, job'[q].roles = job[q].roles, Writes
    PROVE  Coming(q)' \in seen[q].lists \cup {Visible(job[q].user)'}
<1> DEFINE u == job[q].user
<1>1. /\ Coming(q) \in seen[q].lists /\ Coming(q) = Visible(u) /\ job[q].todo \subseteq RoleBased
      /\ job[q].shown \cap job[q].todo = {}
      /\ pc[q] = "roles" => job[q].todo = RoleBased /\ job[q].shown = Authenticated
      /\ pc[q] = "visible" => job[q].roles = RolesOf(u)
    BY DEF TablesInv, ListInv
<1>2. forms \in [Forms -> [active: BOOLEAN, level: Levels]]
    BY DEF TablesInv, AccessTypeOK
<1>3. CASE WritesMembers
    <2>1. /\ RoleBased' = RoleBased /\ Authenticated' = Authenticated /\ Active' = Active
          /\ \A f : RolesFor(f)' = RolesFor(f) /\ Level(f)' = Level(f)
        BY <1>3 DEF WritesMembers, RoleBased, Authenticated, Active, Level, RolesFor
    <2>2. CASE pc[q] = "visible"
        <3>1. Coming(q)' = Coming(q)
            BY <2>1, <2>2 DEF Coming
        <3> QED BY <1>1, <3>1
    <2>3. CASE pc[q] = "roles"
        <3>1. Coming(q)' = Authenticated \cup {f \in RoleBased : RolesFor(f) \cap RolesOf(u)' # {}}
            BY <1>1, <2>1, <2>3 DEF Coming, RolesOf
        <3>2. Visible(u)' = {f \in Active : Level(f) = "authenticated"
                                             \/ RolesOf(u)' \cap RolesFor(f) # {}}
            BY <2>1 DEF Visible
        <3>3. \A f \in Active : f \in RoleBased \/ f \in Authenticated
            BY <1>2 DEF Active, RoleBased, Authenticated, Level, Levels
        <3>4. Coming(q)' = Visible(u)'
            BY <3>1, <3>2, <3>3 DEF RoleBased, Authenticated
        <3> QED BY <3>4
    <2> QED BY <2>2, <2>3
<1>4. ASSUME NEW f \in Forms, WritesGrant(f)
      PROVE  Coming(q)' \in seen[q].lists \cup {Visible(u)'}
    <2> DEFINE R == IF pc[q] = "roles" THEN RolesOf(u) ELSE job[q].roles
    <2>1. /\ R = RolesOf(u) /\ RolesOf(u)' = RolesOf(u) /\ Active' = Active
          /\ \A g : Level(g)' = Level(g)
          /\ \A g \in Forms \ {f} : RolesFor(g)' = RolesFor(g)
        BY <1>1, <1>4 DEF WritesGrant, RolesOf, Active, Level
    <2>2. /\ Coming(q) = job[q].shown \cup {g \in job[q].todo : RolesFor(g) \cap R # {}}
          /\ Coming(q)' = job[q].shown \cup {g \in job[q].todo : RolesFor(g)' \cap R # {}}
        BY <2>1 DEF Coming, RolesFor
    <2> HIDE DEF R
    <2>3. job[q].todo \subseteq Forms /\ RoleBased \subseteq Active
        BY <1>1 DEF RoleBased, Active
    <2>4. CASE f \notin job[q].todo
        <3>1. Coming(q)' = Coming(q)
            BY <2>1, <2>2, <2>3, <2>4
        <3> QED BY <1>1, <3>1
    <2>5. CASE f \in job[q].todo
        <3>1. /\ Visible(u) = {g \in Active : Level(g) = "authenticated" \/ R \cap RolesFor(g) # {}}
              /\ Visible(u)' = {g \in Active : Level(g) = "authenticated" \/ R \cap RolesFor(g)' # {}}
            BY <2>1 DEF Visible
        <3>2. f \in Active /\ Level(f) = "role_based"
            BY <1>1, <2>5 DEF RoleBased
        <3>3. ASSUME NEW g \in Forms PROVE g \in Coming(q)' <=> g \in Visible(u)'
            <4>1. CASE g # f
                <5>1. g \in Coming(q)' <=> g \in Coming(q)
                    BY <2>1, <2>2, <4>1
                <5>2. g \in Visible(u)' <=> g \in Visible(u)
                    BY <2>1, <3>1, <4>1
                <5> QED BY <1>1, <5>1, <5>2
            <4>2. CASE g = f
                <5>1. f \notin job[q].shown
                    BY <1>1, <2>5
                <5>2. f \in Coming(q)' <=> RolesFor(f)' \cap R # {}
                    BY <2>2, <2>5, <5>1
                <5>3. f \in Visible(u)' <=> RolesFor(f)' \cap R # {}
                    BY <3>1, <3>2
                <5> QED BY <4>2, <5>2, <5>3
            <4> QED BY <4>1, <4>2
        <3>4. Coming(q)' = Visible(u)'
            BY <1>1, <2>2, <2>3, <3>1, <3>3 DEF Active
        <3> QED BY <3>4
    <2> QED BY <2>4, <2>5
<1>5. CASE WritesForms
    <2>1. Coming(q)' = Coming(q)
        BY <1>5 DEF WritesForms, Coming, RolesFor, RolesOf
    <2> QED BY <1>1, <2>1
<1> QED BY <1>3, <1>4, <1>5 DEF Writes

LEMMA ListsNoted ==
    ASSUME TablesInv, ReadersGoOn, Noted, Writes
    PROVE  ListInv'
<1> SUFFICES ASSUME NEW q \in Callers, pc'[q] \in {"roles", "visible", "answered"}
             PROVE  /\ job'[q].user \in Users /\ job'[q].todo \subseteq Forms
                    /\ job'[q].shown \cap job'[q].todo = {}
                    /\ pc'[q] = "answered" => job'[q].todo = {}
                    /\ seen'[q].changes < 2 => Coming(q)' \in seen'[q].lists
                    /\ seen'[q].changes # 0 \/ pc'[q] = "answered"
    BY DEF ListInv
<1>1. /\ pc'[q] = pc[q] /\ job'[q].user = job[q].user /\ job'[q].todo = job[q].todo
      /\ job'[q].shown = job[q].shown /\ job'[q].roles = job[q].roles
      /\ job[q].user \in Users /\ job[q].todo \subseteq Forms
      /\ job[q].shown \cap job[q].todo = {} /\ (pc[q] = "answered" => job[q].todo = {})
      /\ seen[q].changes < 2 => Coming(q) \in seen[q].lists
      /\ seen[q].changes \in 0..2
    BY DEF ReadersGoOn, TablesInv, ListInv, AccessTypeOK
<1>2. CASE pc[q] = "answered"
    <2>1. Coming(q)' = Coming(q)
        BY <1>1, <1>2 DEF Coming
    <2>2. seen'[q] = seen[q]
        BY <1>2 DEF Noted
    <2> QED BY <1>1, <1>2, <2>1, <2>2
<1>3. CASE pc[q] # "answered"
    <2>1. /\ seen'[q].changes # 0 /\ (seen'[q].changes < 2 => seen[q].changes = 0)
          /\ seen'[q].lists = seen[q].lists \cup {Visible(job[q].user)'}
        BY <1>1, <1>3 DEF Noted
    <2>2. seen'[q].changes < 2 => Coming(q)' \in seen[q].lists \cup {Visible(job[q].user)'}
        BY <1>1, <1>3, <2>1, ComingNoted
    <2> QED BY <1>1, <2>1, <2>2
<1> QED BY <1>2, <1>3

LEMMA NotedType ==
    ASSUME AccessTypeOK, Noted, forms' \in [Forms -> [active: BOOLEAN, level: Levels]]
    PROVE  seen' \in [Callers -> [changes: 0..2, lists: SUBSET SUBSET Forms]]
<1>1. ASSUME NEW q \in Callers PROVE seen'[q] \in [changes: 0..2, lists: SUBSET SUBSET Forms]
    <2>1. seen[q] \in [changes: 0..2, lists: SUBSET SUBSET Forms]
        BY DEF AccessTypeOK
    <2>2. Visible(job[q].user)' \in SUBSET Forms
        BY DEF Visible, Active
    <2> QED BY <2>1, <2>2 DEF Noted
<1> QED BY <1>1 DEF Noted

-----------------------------------------------------------------------------
(* Lists.                                                                    *)

\* A reader goes to its next step, with the list that is coming.
LEMMA ReaderMoves ==
    ASSUME TablesInv, NEW p \in Callers, UNCHANGED <<tables, due, mixed>>,
           scene' = scene, calls' \in 0..MaxCalls, breaks' \in 0..MaxBreaks,
           NEW step \in {"idle", "roles", "visible", "answered"}, NEW record \in Job,
           Begin(p, step, record),
           seen' \in [Callers -> [changes: 0..2, lists: SUBSET SUBSET Forms]],
           \A q \in Callers \ {p} : seen'[q] = seen[q],
           step # "idle" =>
              /\ record.user \in Users /\ record.todo \subseteq Forms
              /\ record.shown \cap record.todo = {}
              /\ step = "answered" => record.todo = {}
              /\ seen'[p].changes < 2 => Coming(p)' \in seen'[p].lists
              /\ seen'[p].changes = 0 /\ step # "answered" =>
                    /\ Coming(p)' = Visible(record.user)
                    /\ record.todo \subseteq RoleBased
                    /\ step = "roles" => record.todo = RoleBased /\ record.shown = Authenticated
                    /\ step = "visible" => record.roles = RolesOf(record.user)
    PROVE  TablesInv'
<1>1. AccessTypeOK /\ ListInv
    BY DEF TablesInv
<1>2. /\ pc' \in [Callers -> Steps] /\ job' \in [Callers -> Job]
      /\ pc'[p] = step /\ job'[p] = record
      /\ \A q \in Callers \ {p} : pc'[q] = pc[q] /\ job'[q] = job[q]
    BY <1>1, Begun DEF Steps
<1>3. RowsInv' /\ BatchInv'
    BY <1>2, RowsUnmoved, BatchUnmoved DEF tables
<1>4. /\ RoleBased' = RoleBased /\ Authenticated' = Authenticated
      /\ \A f : RolesFor(f)' = RolesFor(f)
    BY DEF tables, Active, RoleBased, Authenticated, Level, RolesFor
<1>5. ASSUME NEW q \in Callers
      PROVE  /\ Visible(job[q].user)' = Visible(job'[q].user)
             /\ RolesOf(job[q].user)' = RolesOf(job'[q].user)
    BY DEF tables, Visible, RolesOf, RolesFor, Active, Level
<1>6. ListInv'
    <2> SUFFICES ASSUME NEW q \in Callers, pc'[q] \in {"roles", "visible", "answered"}
                 PROVE  /\ job'[q].user \in Users /\ job'[q].todo \subseteq Forms
                        /\ job'[q].shown \cap job'[q].todo = {}
                        /\ pc'[q] = "answered" => job'[q].todo = {}
                        /\ seen'[q].changes < 2 => Coming(q)' \in seen'[q].lists
                        /\ seen'[q].changes = 0 /\ pc'[q] # "answered" =>
                              /\ Coming(q)' = Visible(job'[q].user)
                              /\ job'[q].todo \subseteq RoleBased
                              /\ pc'[q] = "roles" => job'[q].todo = RoleBased /\ job'[q].shown = Authenticated
                              /\ pc'[q] = "visible" => job'[q].roles = RolesOf(job'[q].user)
        BY <1>4, <1>5 DEF ListInv
    <2>1. CASE q = p
        BY <1>2, <2>1
    <2>2. CASE q # p
        <3>1. pc'[q] = pc[q] /\ job'[q] = job[q] /\ seen'[q] = seen[q]
            BY <1>2, <2>2
        <3>2. Coming(q)' = Coming(q)
            BY <1>4, <1>5, <3>1 DEF Coming
        <3> QED BY <1>1, <3>1, <3>2 DEF ListInv
    <2> QED BY <2>1, <2>2
<1>7. AccessTypeOK'
    BY <1>1, <1>2, TypeStep DEF tables, AccessTypeOK
<1> QED BY <1>3, <1>6, <1>7 DEF TablesInv

LEMMA ListHolds ==
    ASSUME TablesInv, NEW p \in Callers, NEW u \in Users, List(p, u)
    PROVE  TablesInv'
<1> DEFINE record == [NoJob EXCEPT !.user = u, !.todo = RoleBased, !.shown = Authenticated]
<1>1. /\ AccessTypeOK /\ Active \subseteq Forms
      /\ \A f \in Active : f \in RoleBased \/ f \in Authenticated
      /\ RoleBased \cap Authenticated = {} /\ RoleBased \subseteq Active /\ Authenticated \subseteq Active
    BY DEF TablesInv, AccessTypeOK, Active, RoleBased, Authenticated, Level, Levels
<1>2. /\ Begin(p, "roles", record) /\ UNCHANGED <<tables, due, mixed>> /\ Ask(p, "list")
      /\ seen' = [seen EXCEPT ![p] = [changes |-> 0, lists |-> {Visible(u)}]]
    BY DEF List, RoleBased, Authenticated
<1>3. /\ record \in Job /\ record.user = u /\ record.todo = RoleBased
      /\ record.shown = Authenticated
    BY <1>1, NoJobType DEF NoJob, Job
<1> HIDE DEF record
<1>4. /\ seen' \in [Callers -> [changes: 0..2, lists: SUBSET SUBSET Forms]]
      /\ seen'[p] = [changes |-> 0, lists |-> {Visible(u)}]
      /\ \A q \in Callers \ {p} : seen'[q] = seen[q]
    BY <1>1, <1>2 DEF AccessTypeOK, Visible
<1>5. pc'[p] = "roles" /\ job'[p] = record
    BY <1>1, <1>2, <1>3, Begun DEF Steps
<1>6. Coming(p)' = Visible(u)
    <2>1. Coming(p)' = Authenticated \cup {f \in RoleBased : RolesFor(f) \cap RolesOf(u) # {}}
        BY <1>2, <1>3, <1>5 DEF tables, Coming, RolesFor, RolesOf
    <2> QED BY <1>1, <2>1 DEF Visible, RoleBased, Authenticated
<1>7. scene' = scene /\ calls' \in 0..MaxCalls /\ breaks' \in 0..MaxBreaks
    BY <1>1, <1>2, BoundsType
<1> QED BY <1>1, <1>2, <1>3, <1>4, <1>6, <1>7, ReaderMoves

LEMMA ReadRolesHolds ==
    ASSUME TablesInv, NEW p \in Callers, ReadRoles(p)
    PROVE  TablesInv'
<1> DEFINE u == job[p].user
           step == IF job[p].todo = {} THEN "answered" ELSE "visible"
           record == [job[p] EXCEPT !.roles = RolesOf(u)]
<1>1. AccessTypeOK /\ job[p] \in Job /\ pc[p] = "roles"
    BY DEF TablesInv, AccessTypeOK, ReadRoles
<1>2. Begin(p, step, record) /\ UNCHANGED <<tables, bounds, due, mixed, seen>>
    BY DEF ReadRoles, Begin
<1>3. /\ record \in Job /\ record.user = u /\ record.todo = job[p].todo
      /\ record.shown = job[p].shown /\ record.roles = RolesOf(u)
    BY <1>1 DEF Job, RolesOf
<1>4. step \in {"visible", "answered"} /\ (step = "answered" => job[p].todo = {})
    OBVIOUS
<1> HIDE DEF record, step
<1>5. pc'[p] = step /\ job'[p] = record
    BY <1>1, <1>2, <1>3, <1>4, Begun DEF Steps
<1>6. Coming(p)' = Coming(p)
    BY <1>1, <1>2, <1>3, <1>4, <1>5 DEF tables, Coming, RolesFor
<1>7. /\ scene' = scene /\ calls' \in 0..MaxCalls /\ breaks' \in 0..MaxBreaks
      /\ seen \in [Callers -> [changes: 0..2, lists: SUBSET SUBSET Forms]]
    BY <1>1, <1>2, BoundsType DEF AccessTypeOK
<1> QED BY <1>1, <1>2, <1>3, <1>4, <1>6, <1>7, ReaderMoves DEF TablesInv, ListInv

LEMMA CheckFormHolds ==
    ASSUME TablesInv, NEW p \in Callers, CheckForm(p)
    PROVE  TablesInv'
<1>1. /\ AccessTypeOK /\ job[p] \in Job /\ pc[p] = "visible" /\ job[p].todo \subseteq Forms
      /\ UNCHANGED <<tables, bounds, due, mixed, seen>>
    BY DEF TablesInv, ListInv, AccessTypeOK, CheckForm
<1>2. PICK f \in job[p].todo :
          /\ Looked(p, f)
          /\ job' = [job EXCEPT ![p].todo = @ \ {f},
                               ![p].shown = IF RolesFor(f) \cap job[p].roles # {}
                                            THEN @ \cup {f} ELSE @]
    BY DEF CheckForm
<1> DEFINE step == IF job[p].todo = {f} THEN "answered" ELSE "visible"
           shown == IF RolesFor(f) \cap job[p].roles # {} THEN job[p].shown \cup {f} ELSE job[p].shown
           record == [job[p] EXCEPT !.todo = job[p].todo \ {f}, !.shown = shown]
<1>3. Begin(p, step, record)
    BY <1>1, <1>2 DEF Looked, Begin, AccessTypeOK
<1>4. shown \in SUBSET Forms
    BY <1>1 DEF Job
<1>5. shown \cap (job[p].todo \ {f}) = {}
    BY <1>1 DEF TablesInv, ListInv
<1>6. /\ record \in Job /\ record.user = job[p].user /\ record.todo = job[p].todo \ {f}
      /\ record.shown = shown /\ record.roles = job[p].roles
    BY <1>1, <1>4 DEF Job
<1>7. step \in {"visible", "answered"} /\ (step = "answered" => job[p].todo \ {f} = {})
    OBVIOUS
<1> HIDE DEF record, step
<1>8. pc'[p] = step /\ job'[p] = record
    BY <1>1, <1>3, <1>6, <1>7, Begun DEF Steps
<1>9. Coming(p)' = Coming(p)
    <2>1. Coming(p)' = shown \cup {g \in job[p].todo \ {f} : RolesFor(g) \cap job[p].roles # {}}
        BY <1>1, <1>6, <1>7, <1>8 DEF tables, Coming, RolesFor
    <2>2. Coming(p) = job[p].shown \cup {g \in job[p].todo : RolesFor(g) \cap job[p].roles # {}}
        BY <1>1 DEF Coming
    <2> QED BY <2>1, <2>2
<1>10. /\ scene' = scene /\ calls' \in 0..MaxCalls /\ breaks' \in 0..MaxBreaks
       /\ seen \in [Callers -> [changes: 0..2, lists: SUBSET SUBSET Forms]]
    BY <1>1, BoundsType DEF AccessTypeOK
<1> HIDE DEF shown
<1> QED BY <1>1, <1>3, <1>5, <1>6, <1>7, <1>9, <1>10, ReaderMoves DEF TablesInv, ListInv

LEMMA ReturnHolds ==
    ASSUME TablesInv, NEW p \in Callers, Return(p)
    PROVE  TablesInv'
<1>1. AccessTypeOK
    BY DEF TablesInv
<1>2. /\ scene' = scene /\ calls' \in 0..MaxCalls /\ breaks' \in 0..MaxBreaks
      /\ Begin(p, "idle", NoJob) /\ UNCHANGED <<tables, due, mixed>>
      /\ seen' \in [Callers -> [changes: 0..2, lists: SUBSET SUBSET Forms]]
      /\ \A q \in Callers \ {p} : seen'[q] = seen[q]
    BY <1>1, BoundsType, NothingSeenType DEF Return, Answer, AccessTypeOK
<1> QED BY <1>2, NoJobType, ReaderMoves

-----------------------------------------------------------------------------
(* Assignments.                                                              *)

\* A batch is taken up, or goes on, with nothing assigned.
LEMMA BatchMoves ==
    ASSUME TablesInv, NEW p \in Callers, UNCHANGED <<tables, due, mixed, seen>>,
           scene' = scene, calls' \in 0..MaxCalls, breaks' \in 0..MaxBreaks,
           NEW step \in {"check", "insert", "refused"}, NEW record \in Job, Begin(p, step, record),
           record.row \in Roles, rows[record.row].state # "none",
           step # "insert" => record.done = {},
           step = "insert" => record.batch = record.todo
    PROVE  TablesInv'
<1>1. AccessTypeOK /\ BatchInv
    BY DEF TablesInv
<1>2. /\ pc' \in [Callers -> Steps] /\ job' \in [Callers -> Job]
      /\ pc'[p] = step /\ job'[p] = record
      /\ \A q \in Callers \ {p} : pc'[q] = pc[q] /\ job'[q] = job[q]
    BY <1>1, Begun DEF Steps
<1>3. RowsInv' /\ ListInv'
    BY <1>2, RowsUnmoved, ListsUnmoved DEF tables, ReadersGoOn
<1>4. BatchInv'
    BY <1>1, <1>2 DEF tables, BatchInv, Assigned
<1>5. AccessTypeOK'
    BY <1>1, <1>2, TypeStep DEF tables, AccessTypeOK
<1> QED BY <1>3, <1>4, <1>5 DEF TablesInv

LEMMA AssignUsersHolds ==
    ASSUME TablesInv, NEW p \in Callers, NEW r \in Roles, NEW batch \in SUBSET Users,
           AssignUsers(p, r, batch)
    PROVE  TablesInv'
<1> DEFINE record == [NoJob EXCEPT !.row = r, !.batch = batch, !.todo = batch]
<1>1. /\ record \in Job /\ record.row = r /\ record.done = {}
    BY NoJobType DEF NoJob, Job, Rows
<1>2. Begin(p, "check", record) /\ UNCHANGED <<tables, due, mixed, seen>>
    BY DEF AssignUsers
<1> HIDE DEF record
<1>3. /\ scene' = scene /\ calls' \in 0..MaxCalls /\ breaks' \in 0..MaxBreaks
      /\ rows[r].state # "none"
    BY BoundsType DEF TablesInv, AssignUsers, There
<1> QED BY <1>1, <1>2, <1>3, BatchMoves

LEMMA AssignFormsHolds ==
    ASSUME TablesInv, NEW p \in Callers, NEW r \in Roles, NEW batch \in SUBSET Forms,
           AssignForms(p, r, batch)
    PROVE  TablesInv'
<1> DEFINE record == [NoJob EXCEPT !.row = r, !.batch = batch, !.todo = batch]
<1>1. /\ record \in Job /\ record.row = r /\ record.batch = record.todo
    BY NoJobType DEF NoJob, Job, Rows
<1>2. Begin(p, "insert", record) /\ UNCHANGED <<tables, due, mixed, seen>>
    BY DEF AssignForms
<1> HIDE DEF record
<1>3. /\ scene' = scene /\ calls' \in 0..MaxCalls /\ breaks' \in 0..MaxBreaks
      /\ rows[r].state # "none"
    BY BoundsType DEF TablesInv, AssignForms, There
<1> QED BY <1>1, <1>2, <1>3, BatchMoves

\* Nobody is assigned before all were looked at.
LEMMA CheckUserHolds ==
    ASSUME TablesInv, NEW p \in Callers, CheckUser(p)
    PROVE  TablesInv'
<1>1. /\ AccessTypeOK /\ job[p] \in Job /\ pc[p] = "check"
      /\ job[p].row \in Roles /\ rows[job[p].row].state # "none" /\ job[p].done = {}
      /\ UNCHANGED <<tables, bounds, due, mixed, seen>>
    BY DEF TablesInv, BatchInv, AccessTypeOK, CheckUser
<1>2. scene' = scene /\ calls' \in 0..MaxCalls /\ breaks' \in 0..MaxBreaks
    BY <1>1, BoundsType
<1>3. pc = [pc EXCEPT ![p] = pc[p]] /\ job = [job EXCEPT ![p] = job[p]]
    BY <1>1 DEF AccessTypeOK
<1>4. CASE \E u \in job[p].todo : /\ job' = [job EXCEPT ![p].todo = @ \ {u}]
                                  /\ UNCHANGED pc
    <2>1. PICK u : /\ job' = [job EXCEPT ![p] = [job[p] EXCEPT !.todo = @ \ {u}]]
                   /\ UNCHANGED pc
        BY <1>1, <1>4 DEF AccessTypeOK
    <2> DEFINE record == [job[p] EXCEPT !.todo = @ \ {u}]
    <2>2. record \in Job /\ record.row = job[p].row /\ record.done = job[p].done
        BY <1>1 DEF Job
    <2>3. Begin(p, "check", record)
        BY <1>1, <1>3, <2>1 DEF Begin, Goto
    <2> HIDE DEF record
    <2> QED BY <1>1, <1>2, <2>2, <2>3, BatchMoves
<1>5. CASE Begin(p, "insert", [job[p] EXCEPT !.todo = job[p].batch])
    <2> DEFINE record == [job[p] EXCEPT !.todo = job[p].batch]
    <2>1. record \in Job /\ record.row = job[p].row /\ record.batch = record.todo
        BY <1>1 DEF Job
    <2> HIDE DEF record
    <2> QED BY <1>1, <1>2, <1>5, <2>1, BatchMoves DEF record
<1>6. CASE Goto(p, "refused") /\ UNCHANGED job
    <2>1. Begin(p, "refused", job[p])
        BY <1>3, <1>6 DEF Begin
    <2> QED BY <1>1, <1>2, <2>1, BatchMoves
<1> QED BY <1>4, <1>5, <1>6 DEF CheckUser

\* An assignment is added to the role of the batch, or the batch has lost it.
LEMMA InsertHolds ==
    ASSUME TablesInv, NEW p \in Callers, Insert(p)
    PROVE  TablesInv'
<1>1. /\ AccessTypeOK /\ BatchInv /\ job[p] \in Job /\ pc[p] = "insert"
      /\ job[p].row \in Roles /\ job[p].row \in Rows /\ rows[job[p].row].state # "none"
      /\ UNCHANGED <<rows, users, forms, scene, calls, due, mixed>>
    BY DEF TablesInv, BatchInv, AccessTypeOK, Insert, Rows
<1>2. PICK x \in job[p].todo :
          /\ Goto(p, IF job[p].todo = {x} THEN "assigned" ELSE "insert")
          /\ \/ /\ members' = [r \in Roles |-> IF r = job[p].row /\ x \in Users
                                               THEN members[r] \cup {x} ELSE members[r]]
                /\ grants' = [r \in Roles |-> IF r = job[p].row /\ x \in Forms
                                              THEN grants[r] \cup {x} ELSE grants[r]]
                /\ job' = [job EXCEPT ![p].todo = @ \ {x}, ![p].done = @ \cup {x}]
                /\ UNCHANGED breaks
                /\ Noted
             \/ /\ Failing
                /\ job' = [job EXCEPT ![p].todo = @ \ {x}, ![p].lost = @ \cup {x}]
                /\ UNCHANGED <<members, grants, seen>>
    BY DEF Insert
<1> DEFINE step == IF job[p].todo = {x} THEN "assigned" ELSE "insert"
<1>3. /\ step \in {"assigned", "insert"} /\ (step = "assigned" => job[p].todo \ {x} = {})
      /\ Goto(p, step) /\ x \in Users \cup Forms /\ step \in Steps
    BY <1>1, <1>2 DEF Job, Steps
<1> HIDE DEF step
<1>4. /\ members \in [Roles -> SUBSET Users] /\ grants \in [Roles -> SUBSET Forms]
      /\ breaks \in 0..MaxBreaks /\ (Failing => breaks' \in 0..MaxBreaks)
    BY <1>1, BoundsType DEF AccessTypeOK
<1>5. CASE /\ members' = [r \in Roles |-> IF r = job[p].row /\ x \in Users
                                          THEN members[r] \cup {x} ELSE members[r]]
           /\ grants' = [r \in Roles |-> IF r = job[p].row /\ x \in Forms
                                         THEN grants[r] \cup {x} ELSE grants[r]]
           /\ job' = [job EXCEPT ![p].todo = @ \ {x}, ![p].done = @ \cup {x}]
           /\ UNCHANGED breaks
           /\ Noted
    <2> DEFINE record == [job[p] EXCEPT !.todo = @ \ {x}, !.done = @ \cup {x}]
    <2>1. /\ record \in Job /\ record.row = job[p].row /\ record.todo = job[p].todo \ {x}
          /\ record.batch = job[p].batch /\ record.lost = job[p].lost
        BY <1>1, <1>3 DEF Job
    <2>2. Begin(p, step, record)
        BY <1>1, <1>3, <1>5 DEF Begin, AccessTypeOK
    <2> HIDE DEF record
    <2>3. /\ pc' \in [Callers -> Steps] /\ job' \in [Callers -> Job]
          /\ pc'[p] = step /\ job'[p] = record
          /\ \A q \in Callers \ {p} : pc'[q] = pc[q] /\ job'[q] = job[q]
        BY <1>1, <1>3, <2>1, <2>2, Begun
    <2>4. /\ members' \in [Roles -> SUBSET Users] /\ grants' \in [Roles -> SUBSET Forms]
          /\ \A r \in Roles : members[r] \subseteq members'[r] /\ grants[r] \subseteq grants'[r]
          /\ \A r \in Roles \ {job[p].row} : members[r] = members'[r] /\ grants[r] = grants'[r]
          /\ x \in members'[job[p].row] \cup grants'[job[p].row]
        BY <1>1, <1>3, <1>4, <1>5
    <2>5. BatchInv'
        BY <1>1, <1>3, <2>1, <2>3, <2>4 DEF BatchInv, Assigned
    <2>6. Writes
        <3>1. CASE x \in Users
            <4>1. grants' = grants
                BY <1>4, <1>5, <3>1, AccessAssumption
            <4> QED BY <1>1, <4>1 DEF Writes, WritesMembers
        <3>2. CASE x \in Forms
            <4>1. members' = members
                BY <1>4, <1>5, <3>2, AccessAssumption
            <4>2. \A g \in Forms \ {x} : RolesFor(g)' = RolesFor(g)
                BY <1>4, <1>5 DEF RolesFor
            <4> QED BY <1>1, <3>2, <4>1, <4>2 DEF Writes, WritesGrant
        <3> QED BY <1>3, <3>1, <3>2
    <2>7. ListInv'
        BY <1>3, <1>5, <2>3, <2>6, ListsNoted DEF ReadersGoOn
    <2>8. RowsInv'
        BY <1>1, <1>3, <2>3, RowsUnmoved
    <2>9. AccessTypeOK'
        BY <1>1, <1>4, <1>5, <2>3, <2>4, TypeStep, NotedType DEF AccessTypeOK
    <2> QED BY <2>5, <2>7, <2>8, <2>9 DEF TablesInv
<1>6. CASE /\ Failing
           /\ job' = [job EXCEPT ![p].todo = @ \ {x}, ![p].lost = @ \cup {x}]
           /\ UNCHANGED <<members, grants, seen>>
    <2> DEFINE record == [job[p] EXCEPT !.todo = @ \ {x}, !.lost = @ \cup {x}]
    <2>1. /\ record \in Job /\ record.row = job[p].row /\ record.todo = job[p].todo \ {x}
          /\ record.batch = job[p].batch /\ record.lost = job[p].lost \cup {x}
        BY <1>1, <1>3 DEF Job
    <2>2. Begin(p, step, record)
        BY <1>1, <1>3, <1>6 DEF Begin, AccessTypeOK
    <2> HIDE DEF record
    <2>3. /\ pc' \in [Callers -> Steps] /\ job' \in [Callers -> Job]
          /\ pc'[p] = step /\ job'[p] = record
          /\ \A q \in Callers \ {p} : pc'[q] = pc[q] /\ job'[q] = job[q]
        BY <1>1, <1>3, <2>1, <2>2, Begun
    <2>4. BatchInv'
        <3> SUFFICES ASSUME NEW q \in Callers
                     PROVE  /\ pc'[q] \in {"check", "insert", "refused", "assigned"} =>
                                  job'[q].row \in Roles /\ rows'[job'[q].row].state # "none"
                            /\ pc'[q] \in {"check", "refused"} => job'[q].done = {}
                            /\ pc'[q] = "insert" =>
                                  job'[q].batch \ (job'[q].todo \cup job'[q].lost) \subseteq Assigned(q)'
                            /\ pc'[q] = "assigned" =>
                                  job'[q].batch \ job'[q].lost \subseteq Assigned(q)'
            BY DEF BatchInv
        <3>1. CASE q = p
            BY <1>1, <1>3, <1>6, <2>1, <2>3, <3>1 DEF BatchInv, Assigned
        <3>2. CASE q # p
            BY <1>1, <1>6, <2>3, <3>2 DEF BatchInv, Assigned
        <3> QED BY <3>1, <3>2
    <2>5. RowsInv' /\ ListInv'
        BY <1>1, <1>3, <1>6, <2>3, RowsUnmoved, ListsUnmoved DEF ReadersGoOn
    <2>6. AccessTypeOK'
        BY <1>1, <1>4, <1>6, <2>3, TypeStep DEF AccessTypeOK
    <2> QED BY <2>4, <2>5, <2>6 DEF TablesInv
<1> QED BY <1>2, <1>5, <1>6

\* A batch under way has lost what is removed.
LEMMA UnassignHolds ==
    ASSUME TablesInv, NEW p \in Callers, NEW r \in Roles, NEW x \in Users \cup Forms,
           Unassign(p, r, x)
    PROVE  TablesInv'
<1>1. /\ AccessTypeOK /\ BatchInv /\ r \in Rows /\ pc[p] = "idle"
      /\ members \in [Roles -> SUBSET Users] /\ grants \in [Roles -> SUBSET Forms]
      /\ UNCHANGED <<rows, users, forms, pc, due, mixed>> /\ Noted
      /\ scene' = scene /\ calls' \in 0..MaxCalls /\ breaks' \in 0..MaxBreaks
    BY BoundsType DEF TablesInv, AccessTypeOK, Unassign, Rows
<1>2. /\ members' = [members EXCEPT ![r] = @ \ {x}]
      /\ grants' = [grants EXCEPT ![r] = @ \ {x}]
    BY DEF Unassign
<1>3. /\ members' \in [Roles -> SUBSET Users] /\ grants' \in [Roles -> SUBSET Forms]
      /\ \A q \in Roles \ {r} : members'[q] = members[q] /\ grants'[q] = grants[q]
      /\ members'[r] = members[r] \ {x} /\ grants'[r] = grants[r] \ {x}
    BY <1>1, <1>2
<1>4. ASSUME NEW q \in Callers
      PROVE  /\ job'[q] \in Job
             /\ \A g \in {"row", "copy", "field", "batch", "todo", "done", "user", "roles", "shown"} :
                   job'[q][g] = job[q][g]
             /\ job[q].lost \subseteq job'[q].lost
             /\ job[q].row = r /\ x \in job[q].batch /\ q # p => x \in job'[q].lost
    <2>1. job[q] \in Job
        BY <1>1 DEF AccessTypeOK
    <2>2. CASE q # p /\ job[q].row = r /\ x \in job[q].batch
        <3>1. job'[q] = [job[q] EXCEPT !.lost = @ \cup {x}]
            BY <2>2 DEF Unassign
        <3> QED BY <2>1, <3>1 DEF Job
    <2>3. CASE ~(q # p /\ job[q].row = r /\ x \in job[q].batch)
        <3>1. job'[q] = job[q]
            BY <2>3 DEF Unassign
        <3> QED BY <2>1, <2>3, <3>1
    <2> QED BY <2>2, <2>3
<1>5. job' \in [Callers -> Job]
    BY <1>4 DEF Unassign
<1>6. ASSUME NEW q \in Callers
      PROVE  /\ job'[q].row = job[q].row /\ job'[q].copy = job[q].copy
             /\ job'[q].field = job[q].field /\ job'[q].batch = job[q].batch
             /\ job'[q].todo = job[q].todo /\ job'[q].done = job[q].done
             /\ job'[q].user = job[q].user /\ job'[q].roles = job[q].roles
             /\ job'[q].shown = job[q].shown
    BY <1>4
<1>7. BatchInv'
    <2> SUFFICES ASSUME NEW q \in Callers
                 PROVE  /\ pc[q] \in {"check", "insert", "refused", "assigned"} =>
                              job'[q].row \in Roles /\ rows[job'[q].row].state # "none"
                        /\ pc[q] \in {"check", "refused"} => job'[q].done = {}
                        /\ pc[q] = "insert" =>
                              job'[q].batch \ (job'[q].todo \cup job'[q].lost) \subseteq Assigned(q)'
                        /\ pc[q] = "assigned" => job'[q].batch \ job'[q].lost \subseteq Assigned(q)'
        BY <1>1 DEF BatchInv
    <2>1. CASE pc[q] \in {"insert", "assigned"}
        <3>1. job[q].row \in Roles /\ q # p
            BY <1>1, <2>1 DEF BatchInv
        <3>2. Assigned(q) \ Assigned(q)' \subseteq {x}
            BY <1>3, <1>6, <3>1 DEF Assigned
        <3>3. job[q].row # r => Assigned(q)' = Assigned(q)
            BY <1>3, <1>6, <3>1 DEF Assigned
        <3>4. job[q].row = r /\ x \in job[q].batch => x \in job'[q].lost
            BY <1>4, <3>1
        <3> QED BY <1>1, <1>4, <1>6, <2>1, <3>2, <3>3, <3>4 DEF BatchInv
    <2>2. CASE pc[q] \notin {"insert", "assigned"}
        BY <1>1, <1>6, <2>2 DEF BatchInv
    <2> QED BY <2>1, <2>2
<1>8. Writes
    <2>1. CASE x \in Users
        <3>1. grants' = grants
            BY <1>1, <1>2, <2>1, AccessAssumption
        <3> QED BY <1>1, <3>1 DEF Writes, WritesMembers
    <2>2. CASE x \in Forms
        <3>1. members' = members
            BY <1>1, <1>2, <2>2, AccessAssumption
        <3>2. \A g \in Forms \ {x} : RolesFor(g)' = RolesFor(g)
            BY <1>1, <1>2 DEF RolesFor
        <3> QED BY <1>1, <2>2, <3>1, <3>2 DEF Writes, WritesGrant
    <2> QED BY <2>1, <2>2
<1>9. ListInv'
    BY <1>1, <1>6, <1>8, ListsNoted DEF ReadersGoOn
<1>10. RowsInv'
    BY <1>1, <1>6, RowsUnmoved
<1>11. AccessTypeOK'
    <2>1. ASSUME NEW q \in Roles, rows[q].state = "none"
          PROVE  members'[q] = {} /\ grants'[q] = {}
        BY <1>1, <1>3, <2>1 DEF AccessTypeOK
    <2> QED BY <1>1, <1>3, <1>5, <2>1, TypeStep, NotedType DEF AccessTypeOK
<1> QED BY <1>7, <1>9, <1>10, <1>11 DEF TablesInv

-----------------------------------------------------------------------------
(* Users, forms and failures.                                                *)

LEMMA ChangeUserHolds ==
    ASSUME TablesInv, NEW p \in Callers, NEW u \in Users, NEW s \in {"absent", "admin"},
           ChangeUser(p, u, s)
    PROVE  TablesInv'
<1>1. /\ AccessTypeOK /\ UNCHANGED <<rows, members, grants, forms, pc, job, due, mixed, seen>>
      /\ scene' = scene /\ calls' \in 0..MaxCalls /\ breaks' \in 0..MaxBreaks
      /\ users' \in [Users -> {"absent", "regular", "admin"}]
    BY BoundsType DEF TablesInv, AccessTypeOK, ChangeUser
<1>2. RowsInv' /\ BatchInv' /\ ListInv'
    BY <1>1, RowsUnmoved, BatchUnmoved, ListsUnmoved DEF ReadersGoOn
<1>3. AccessTypeOK'
    BY <1>1, TypeStep DEF AccessTypeOK
<1> QED BY <1>2, <1>3 DEF TablesInv

LEMMA ChangeFormHolds ==
    ASSUME TablesInv, NEW p \in Callers, NEW f \in Forms,
           NEW form \in [active: BOOLEAN, level: Levels], ChangeForm(p, f, form)
    PROVE  TablesInv'
<1>1. /\ AccessTypeOK /\ UNCHANGED <<rows, members, grants, users, pc, job, due, mixed>> /\ Noted
      /\ scene' = scene /\ calls' \in 0..MaxCalls /\ breaks' \in 0..MaxBreaks
      /\ forms' \in [Forms -> [active: BOOLEAN, level: Levels]]
    BY BoundsType DEF TablesInv, AccessTypeOK, ChangeForm
<1>2. RowsInv' /\ BatchInv'
    BY <1>1, RowsUnmoved, BatchUnmoved
<1>3. ListInv'
    BY <1>1, ListsNoted DEF ReadersGoOn, Writes, WritesForms
<1>4. AccessTypeOK'
    BY <1>1, TypeStep, NotedType DEF AccessTypeOK
<1> QED BY <1>2, <1>3, <1>4 DEF TablesInv

\* Rows are clean again only when nobody is left who would write them.
LEMMA BreakHolds ==
    ASSUME TablesInv, NEW p \in Callers, Break(p)
    PROVE  TablesInv'
<1>1. /\ AccessTypeOK /\ RowsInv /\ UNCHANGED <<tables, due>>
      /\ scene' = scene /\ calls' \in 0..MaxCalls /\ breaks' \in 0..MaxBreaks
      /\ mixed' = mixed \ {r \in mixed : Changers(r) \subseteq {p}}
    BY BoundsType DEF TablesInv, Break, AccessTypeOK
<1>2. /\ pc' \in [Callers -> Steps] /\ job' \in [Callers -> Job] /\ pc'[p] = "idle"
      /\ \A q \in Callers \ {p} : pc'[q] = pc[q] /\ job'[q] = job[q]
    BY <1>1, Answered DEF Break
<1>3. /\ seen' \in [Callers -> [changes: 0..2, lists: SUBSET SUBSET Forms]]
      /\ \A q \in Callers \ {p} : seen'[q] = seen[q]
    BY <1>1, NothingSeenType DEF Break, AccessTypeOK
<1>4. RowsInv'
    <2>1. ASSUME NEW q \in Callers, pc'[q] = "write" PROVE WriterOK(q)'
        <3>1. q # p /\ pc[q] = "write" /\ job'[q] = job[q] /\ WriterOK(q)
            BY <1>1, <1>2, <2>1 DEF RowsInv
        <3>2. q \in Changers(job[q].row)
            BY <3>1 DEF Changers
        <3>3. job[q].row \notin mixed' => job[q].row \notin mixed
            BY <1>1, <3>1, <3>2
        <3> QED BY <1>1, <3>1, <3>3 DEF tables, WriterOK, There
    <2> QED BY <1>1, <2>1 DEF tables, RowsInv
<1>5. BatchInv' /\ ListInv'
    BY <1>1, <1>2, <1>3, BatchUnmoved, ListsUnmoved DEF tables, ReadersGoOn
<1>6. AccessTypeOK'
    BY <1>1, <1>2, <1>3, TypeStep DEF tables, AccessTypeOK
<1> QED BY <1>4, <1>5, <1>6 DEF TablesInv

-----------------------------------------------------------------------------
(* The theorems.                                                             *)

LEMMA InitHolds == AccessInit => TablesInv
<1> SUFFICES ASSUME AccessInit PROVE TablesInv
    OBVIOUS
<1>1. /\ Blank \in Row /\ NoJob \in Job
      /\ NothingSeen \in [changes: 0..2, lists: SUBSET SUBSET Forms]
    BY BlankType, NoJobType, NothingSeenType
<1>2. Blank \in [state: States \cup {Anything}, name: Labels \cup {Anything}]
    BY <1>1 DEF Row
<1>3. AccessTypeOK
    <2>1. /\ rows \in [Rows -> Row] /\ mixed \subseteq Rows
          /\ due \in [Rows -> [state: States \cup {Anything}, name: Labels \cup {Anything}]]
        BY <1>1, <1>2 DEF AccessInit
    <2>2. /\ members \in [Roles -> SUBSET Users] /\ grants \in [Roles -> SUBSET Forms]
          /\ \A r \in Roles : members[r] = {} /\ grants[r] = {}
          /\ users \in [Users -> {"absent", "regular", "admin"}]
        BY DEF AccessInit
    <2>3. forms \in [Forms -> [active: BOOLEAN, level: Levels]]
        BY DEF AccessInit, Levels
    <2>4. /\ pc \in [Callers -> Steps] /\ job \in [Callers -> Job]
          /\ seen \in [Callers -> [changes: 0..2, lists: SUBSET SUBSET Forms]]
        BY <1>1 DEF AccessInit, Steps
    <2>5. scene \in Scenes /\ calls \in 0..MaxCalls /\ breaks \in 0..MaxBreaks
        BY AccessAssumption DEF AccessInit
    <2> QED BY <2>1, <2>2, <2>3, <2>4, <2>5 DEF AccessTypeOK
<1>4. RowsInv /\ BatchInv /\ ListInv
    BY DEF AccessInit, RowsInv, BatchInv, ListInv
<1> QED BY <1>3, <1>4 DEF TablesInv

LEMMA NextHolds == TablesInv /\ [AccessNext]_accessVars => TablesInv'
<1> SUFFICES ASSUME TablesInv, [AccessNext]_accessVars PROVE TablesInv'
    OBVIOUS
<1>1. ASSUME NEW p \in Callers, NEW r \in Rows, NEW l \in Labels,
             CreateRole(p, r, l) \/ CreateOrganization(p, r, l)
      PROVE  TablesInv'
    BY <1>1, CreateHolds DEF CreateRole, CreateOrganization
<1>2. ASSUME NEW p \in Callers, NEW r \in Roles,
             DeleteRole(p, r) \/ \E l \in Labels : UpdateRole(p, r, l)
      PROVE  TablesInv'
    BY <1>2, ReadToWriteHolds DEF DeleteRole, UpdateRole, Rows, Fields
<1>3. ASSUME NEW p \in Callers, NEW o \in Organizations,
             \/ \E l \in Labels : UpdateOrganization(p, o, "name", l)
             \/ \E s \in {"active", "inactive"} : UpdateOrganization(p, o, "state", s)
      PROVE  TablesInv'
    BY <1>3, ReadToWriteHolds DEF UpdateOrganization, Rows, Fields
<1>4. ASSUME NEW p \in Callers, NEW r \in Roles, NEW u \in Users, RemoveUser(p, r, u)
      PROVE  TablesInv'
    BY <1>4, UnassignHolds DEF RemoveUser
<1>5. ASSUME NEW p \in Callers, NEW r \in Roles, NEW f \in Forms, RemoveForm(p, r, f)
      PROVE  TablesInv'
    BY <1>5, UnassignHolds DEF RemoveForm
<1>6. ASSUME NEW p \in Callers, NEW f \in Forms, NEW a \in BOOLEAN, NEW l \in Levels,
             ChangeForm(p, f, [active |-> a, level |-> l])
      PROVE  TablesInv'
    BY <1>6, ChangeFormHolds
<1>7. ASSUME NEW p \in Callers,
             \/ WriteRow(p) \/ ReadRoles(p) \/ CheckForm(p) \/ Return(p)
             \/ CheckUser(p) \/ Insert(p) \/ Break(p)
      PROVE  TablesInv'
    BY <1>7, WriteRowHolds, ReadRolesHolds, CheckFormHolds, ReturnHolds, CheckUserHolds,
       InsertHolds, BreakHolds
<1>8. CASE UNCHANGED accessVars
    <2>1. UNCHANGED <<rows, members, grants, users, forms, pc, job, scene, calls, breaks, due, mixed, seen>>
        BY <1>8 DEF accessVars, tables, bounds
    <2>2. AccessTypeOK'
        BY <2>1 DEF TablesInv, AccessTypeOK
    <2>3. RowsInv' /\ BatchInv' /\ ListInv'
        BY <2>1, RowsUnmoved, BatchUnmoved, ListsUnmoved DEF ReadersGoOn
    <2> QED BY <2>2, <2>3 DEF TablesInv
<1> QED BY <1>1, <1>2, <1>3, <1>4, <1>5, <1>6, <1>7, <1>8, DeleteOrganizationHolds,
        AssignUsersHolds, AssignFormsHolds, ChangeUserHolds, ListHolds DEF AccessNext

\* However requests read, write and break off, roles and organizations have in each field what it
\* was last set to unless changes overlapped (RoleRepository.update_role, delete_role,
\* OrganizationRepository.update_organization), a batch of users that is refused assigns nobody
\* and one that is answered has lost nobody unseen (assign_users_to_role_handler).
THEOREM AccessInvAlways == AccessSpec => []AccessInv
<1>1. ASSUME TablesInv PROVE AccessInv
    <2>1. RowChangesStay
        BY <1>1 DEF TablesInv, RowsInv, RowChangesStay, Fields
    <2>2. BatchIsWhole
        BY <1>1 DEF TablesInv, BatchInv, BatchIsWhole, Assigned
    <2> QED BY <1>1, <2>1, <2>2 DEF TablesInv, AccessInv
<1> QED BY <1>1, InitHolds, NextHolds, PTL DEF AccessSpec

\* The forms that get_user_visible_forms answers with, from reads of forms, roles and one form
\* after the other, are what the user could see at one moment, if at most one thing was written.
THEOREM ListedAtOneMomentAlways == AccessSpec => []ListedAtOneMoment
<1>1. ASSUME TablesInv PROVE ListedAtOneMoment
    <2> SUFFICES ASSUME NEW p \in Callers, pc[p] = "answered", seen[p].changes < 2
                 PROVE  job[p].shown \in seen[p].lists
        BY DEF ListedAtOneMoment
    <2>1. job[p].todo = {} /\ Coming(p) \in seen[p].lists
        BY <1>1 DEF TablesInv, ListInv
    <2>2. Coming(p) = job[p].shown
        BY <2>1 DEF Coming
    <2> QED BY <2>1, <2>2
<1> QED BY <1>1, InitHolds, NextHolds, PTL DEF AccessSpec
=============================================================================
