--------------------------- MODULE UserProvisioning ---------------------------
(***************************************************************************)
(* shared/user_provisioning.py, shared/repositories/users.py and the user   *)
(* handlers of permissions_handlers.py: who exists, who is an administrator *)
(* and who belongs to which organization.                                   *)
(*                                                                         *)
(* A user is one row, keyed by the e-mail address, which may hold the Entra *)
(* id of the person.  A membership is two rows, one for each direction.     *)
(* Logins (GetRoles) create users, follow a changed address and repair      *)
(* missing memberships; operators create, promote, demote and delete users. *)
(* Each request to Table Storage is one step; nothing is locked.            *)
(*                                                                         *)
(* E-mail addresses and organizations are numbers in the order of their row *)
(* keys, because a query returns the smallest key first.                    *)
(***************************************************************************)
EXTENDS Naturals, FiniteSetsExt

CONSTANTS
    Emails, Orgs, NoEmail, NoOrg,
    Persons, NoPerson,  \* Entra ids; a login or a row may have none
    Identities,         \* pairs of person and address the provider sends
    DomainOrgs,         \* [Emails -> SUBSET Orgs]: organizations of its domain
    Logins, Operators,  \* concurrent requests
    Scenarios,          \* bound: the sets of requests that run together
    Calm,               \* bound: those of them that nothing disrupts
    MaxDisruptions      \* bound: failed requests, deaths, changes of IsActive

Processes == Logins \cup Operators

ASSUME UserAssumption ==
    /\ Emails \subseteq Nat /\ Orgs \subseteq Nat
    /\ NoEmail \notin Emails /\ NoOrg \notin Orgs /\ NoPerson \notin Persons
    /\ Identities \subseteq (Persons \cup {NoPerson}) \X Emails
    /\ DomainOrgs \in [Emails -> SUBSET Orgs]
    /\ Logins \cap Operators = {}
    /\ Scenarios \subseteq SUBSET Processes
    /\ MaxDisruptions \in Nat

\* EntraUserId and UserType; IsPlatformAdmin is written together with it.
UserRow == [entra: Persons \cup {NoPerson}, type: {"PLATFORM", "ORG"}]
NoUser == [entra |-> NoPerson, type |-> "none"]

VARIABLES
    users,      \* [Emails -> UserRow or NoUser]
    forward,    \* userperm:{email}:{org} rows
    reverse,    \* orgperm:{org}:{email} rows
    active,     \* organizations with IsActive
    pc,         \* [Processes -> Steps]: the request each process awaits
    job,        \* [Processes -> Job]: its local variables
    overlapped, \* history: addresses that requests worked on at the same time
    disturbed,  \* history: those, and where a request broke off half way
    operated,   \* history: an operator has acted
    disruptions

tableVars == <<users, forward, reverse>>
userVars == <<tableVars, active, pc, job, overlapped, disturbed, operated, disruptions>>

Steps == {"idle", "stopped",
          "byEmail", "anyUsers", "matchingNew", "creating",
          "readingProfile", "rewriting", "inserting", "deletingOld",
          "backfilling", "storingId", "touching", "stamping",
          "membership", "rechecking", "matching",
          "assigning", "mirroring",
          "findingOrg", "removingForward", "removingReverse",
          "storing", "deletingUser"}

\* Awaiting update_entity with the row in job.copy.
StoreSteps == {"rewriting", "storingId", "stamping", "storing"}

\* Between two writes that belong together.
HalfWay == {"deletingOld", "findingOrg", "removingForward", "removingReverse",
            "assigning", "mirroring", "storing"}

\* member: the login takes the user for an ORG user; copy: the row to write.
Job == [kind: {"none", "login", "create", "promote", "demote", "edit", "delete"},
        person: Persons \cup {NoPerson},
        email: Emails \cup {NoEmail},
        old: Emails \cup {NoEmail},
        org: Orgs \cup {NoOrg},
        member: BOOLEAN,
        copy: UserRow \cup {NoUser}]

NoJob == [kind |-> "none", person |-> NoPerson, email |-> NoEmail, old |-> NoEmail,
          org |-> NoOrg, member |-> FALSE, copy |-> NoUser]

UsersTypeOK ==
    /\ users \in [Emails -> UserRow \cup {NoUser}]
    /\ forward \subseteq Emails \X Orgs
    /\ reverse \subseteq Emails \X Orgs
    /\ active \subseteq Orgs
    /\ pc \in [Processes -> Steps]
    /\ job \in [Processes -> Job]
    /\ \A p \in Processes :
          pc[p] \in StoreSteps \cup {"creating", "inserting"} => job[p].copy \in UserRow
    /\ overlapped \subseteq disturbed /\ disturbed \subseteq Emails
    /\ operated \in BOOLEAN
    /\ disruptions \in 0..MaxDisruptions

UsersInit ==
    /\ users = [e \in Emails |-> NoUser]
    /\ forward = {} /\ reverse = {}
    /\ active = Orgs
    /\ \E present \in Scenarios :
          /\ pc = [p \in Processes |-> IF p \in present THEN "idle" ELSE "stopped"]
          /\ disruptions = IF present \in Calm THEN MaxDisruptions ELSE 0
    /\ job = [p \in Processes |-> NoJob]
    /\ overlapped = {} /\ disturbed = {} /\ operated = FALSE

-----------------------------------------------------------------------------

Exists(e) == users[e] # NoUser
RowsOf(person) == {e \in Emails : Exists(e) /\ users[e].entra = person}
OrgsOf(e) == {o \in Orgs : <<e, o>> \in forward}
Working(p) == pc[p] \notin {"idle", "stopped"}

\* The addresses that p works on.
Touches(p) == {job[p].email, job[p].old} \ {NoEmail}

\* Requests that p meets when it begins to work on these addresses.
Met(p, emails, person) ==
    {q \in Processes \ {p} : \/ Touches(q) \cap emails # {}
                             \/ person # NoPerson /\ job[q].person = person}

\* The marked addresses after a request for these emails has met others: theirs
\* and its own, and its own too where a change of address carries a mark along.
Marked(marked, emails, met) ==
    marked \cup (IF met = {} /\ emails \cap marked = {} THEN {} ELSE emails)
           \cup UNION {Touches(q) : q \in met}

\* p begins: requests for the same address, or of the same person, overlap.
Begin(p, step, new) ==
    LET emails == {new.email, new.old} \ {NoEmail}
        met == Met(p, emails, new.person)
    IN
    /\ pc[p] = "idle"
    /\ pc' = [pc EXCEPT ![p] = step]
    /\ job' = [job EXCEPT ![p] = new]
    /\ overlapped' = Marked(overlapped, emails, met)
    /\ disturbed' = Marked(disturbed, emails, met)

Disrupt == disruptions < MaxDisruptions /\ disruptions' = disruptions + 1

Continue(p, step, new) ==
    /\ pc' = [pc EXCEPT ![p] = step]
    /\ job' = [job EXCEPT ![p] = new]
    /\ UNCHANGED <<overlapped, disturbed>>

GoTo(p, step) == Continue(p, step, job[p])

\* The request is answered; an operator sends one only.
Rest(p) == IF p \in Logins THEN "idle" ELSE "stopped"
End(p) == Continue(p, Rest(p), NoJob)

\* The request ends in an error, or its process dies.
BreakOff(p) ==
    /\ pc' = [pc EXCEPT ![p] = Rest(p)]
    /\ job' = [job EXCEPT ![p] = NoJob]
    /\ disturbed' = IF pc[p] \in HalfWay THEN disturbed \cup Touches(p) ELSE disturbed
    /\ UNCHANGED overlapped

-----------------------------------------------------------------------------
(* A login: ensure_user_provisioned.                                         *)

\* get_user_by_entra_id: the first row with the id.  Where the address or the
\* display name changed, the profile is updated next.
BeginLogin(p, person, email) ==
    LET rows == IF person = NoPerson THEN {} ELSE RowsOf(person)
        login == [NoJob EXCEPT !.kind = "login", !.person = person, !.email = email]
    IN
    /\ p \in Logins
    /\ \/ /\ rows = {}
          /\ Begin(p, "byEmail", login)
       \/ /\ rows # {}
          /\ Begin(p, "readingProfile",
                   [login EXCEPT !.old = Min(rows), !.member = users[Min(rows)].type = "ORG"])
       \/ /\ rows # {} /\ Min(rows) = email
          /\ Begin(p, "touching", [login EXCEPT !.member = users[email].type = "ORG"])
    /\ UNCHANGED <<tableVars, active, operated, disruptions>>

\* Mutant of ReadProfile: the row is rebuilt with the default role.
ReadProfileWithoutRole(p) ==
    LET old == job[p].old IN
    /\ pc[p] = "readingProfile" /\ Exists(old)
    /\ Continue(p, IF old = job[p].email THEN "rewriting" ELSE "inserting",
                [job[p] EXCEPT !.old = IF old = job[p].email THEN NoEmail ELSE old,
                               !.copy = [users[old] EXCEPT !.type = "ORG"]])
    /\ UNCHANGED <<tableVars, active, operated, disruptions>>

\* update_user_profile: without a row, the login goes on under the old address.
ReadProfile(p) ==
    LET old == job[p].old IN
    /\ pc[p] = "readingProfile"
    /\ IF ~Exists(old)
       THEN Continue(p, "touching", [job[p] EXCEPT !.email = old, !.old = NoEmail])
       ELSE IF old = job[p].email
       THEN Continue(p, "rewriting", [job[p] EXCEPT !.old = NoEmail, !.copy = users[old],
                                                    !.member = users[old].type = "ORG"])
       ELSE Continue(p, "inserting", [job[p] EXCEPT !.copy = users[old],
                                                    !.member = users[old].type = "ORG"])
    /\ UNCHANGED <<tableVars, active, operated, disruptions>>

\* Mutant of InsertMigrated: the old row goes before the new one is there.
InsertMigratedAfterDelete(p) ==
    /\ pc[p] = "inserting" /\ ~Exists(job[p].email)
    /\ IF Exists(job[p].old)
       THEN /\ users' = [users EXCEPT ![job[p].old] = NoUser]
            /\ UNCHANGED <<pc, job, overlapped, disturbed>>
       ELSE /\ users' = [users EXCEPT ![job[p].email] = job[p].copy]
            /\ GoTo(p, "deletingOld")
    /\ UNCHANGED <<forward, reverse, active, operated, disruptions>>

\* The row of the new address, then the old one goes.
InsertMigrated(p) ==
    /\ pc[p] = "inserting" /\ ~Exists(job[p].email)
    /\ users' = [users EXCEPT ![job[p].email] = job[p].copy]
    /\ Continue(p, "deletingOld", [job[p] EXCEPT !.copy = NoUser])
    /\ UNCHANGED <<forward, reverse, active, operated, disruptions>>

\* Mutant of DeleteOld: the old row stays.
KeepOld(p) ==
    /\ pc[p] = "deletingOld"
    /\ GoTo(p, "findingOrg")
    /\ UNCHANGED <<tableVars, active, operated, disruptions>>

DeleteOld(p) ==
    /\ pc[p] = "deletingOld"
    /\ users' = [users EXCEPT ![job[p].old] = NoUser]
    /\ GoTo(p, "findingOrg")
    /\ UNCHANGED <<forward, reverse, active, operated, disruptions>>

FindByEmail(p) ==
    LET email == job[p].email IN
    /\ pc[p] = "byEmail"
    /\ IF ~Exists(email) THEN GoTo(p, "anyUsers")
       ELSE Continue(p, IF job[p].person # NoPerson /\ users[email].entra = NoPerson
                          THEN "backfilling" ELSE "touching",
                     [job[p] EXCEPT !.member = users[email].type = "ORG"])
    /\ UNCHANGED <<tableVars, active, operated, disruptions>>

\* update_user_entra_id reads the row again.
ReadToBackfill(p) ==
    /\ pc[p] = "backfilling"
    /\ IF Exists(job[p].email)
       THEN Continue(p, "storingId",
                     [job[p] EXCEPT !.copy = [users[job[p].email] EXCEPT !.entra = job[p].person]])
       ELSE GoTo(p, "touching")
    /\ UNCHANGED <<tableVars, active, operated, disruptions>>

\* After the last login: an ORG user needs an organization.
AfterStamp(p) == IF job[p].member THEN "membership" ELSE Rest(p)

\* Mutant of ReadToStamp: the row is written also where there is none.
StampAlways(p) ==
    /\ pc[p] = "touching"
    /\ Continue(p, "stamping", [job[p] EXCEPT !.copy = users[job[p].email]])
    /\ UNCHANGED <<tableVars, active, operated, disruptions>>

\* update_last_login reads the row and writes all of it back.
ReadToStamp(p) ==
    /\ pc[p] = "touching"
    /\ IF Exists(job[p].email)
       THEN Continue(p, "stamping", [job[p] EXCEPT !.copy = users[job[p].email]])
       ELSE Continue(p, AfterStamp(p), IF job[p].member THEN job[p] ELSE NoJob)
    /\ UNCHANGED <<tableVars, active, operated, disruptions>>

\* Mutant of LookForOrg: a user without an organization stays so.
LookOnce(p) ==
    /\ pc[p] \in {"membership", "rechecking"}
    /\ End(p)
    /\ UNCHANGED <<tableVars, active, operated, disruptions>>

\* get_user_org_id, then once more in _provision_org_relationship_by_domain.
LookForOrg(p) ==
    /\ pc[p] \in {"membership", "rechecking"}
    /\ IF OrgsOf(job[p].email) # {} THEN End(p)
       ELSE GoTo(p, IF pc[p] = "membership" THEN "rechecking" ELSE "matching")
    /\ UNCHANGED <<tableVars, active, operated, disruptions>>

\* has_any_users: the first user becomes the administrator.
AnyUsers(p) ==
    /\ pc[p] = "anyUsers"
    /\ IF \E e \in Emails : Exists(e) THEN GoTo(p, "matchingNew")
       ELSE Continue(p, "creating",
                     [job[p] EXCEPT !.copy = [entra |-> job[p].person, type |-> "PLATFORM"]])
    /\ UNCHANGED <<tableVars, active, operated, disruptions>>

\* get_organization_by_domain: the first active one, or the login is refused.
MatchDomain(p) ==
    LET orgs == DomainOrgs[job[p].email] \cap active IN
    /\ pc[p] \in {"matchingNew", "matching"}
    /\ IF orgs = {} THEN End(p)
       ELSE IF pc[p] = "matching"
       THEN Continue(p, "assigning", [job[p] EXCEPT !.org = Min(orgs)])
       ELSE Continue(p, "creating",
                     [job[p] EXCEPT !.org = Min(orgs),
                                    !.copy = [entra |-> job[p].person, type |-> "ORG"]])
    /\ UNCHANGED <<tableVars, active, operated, disruptions>>

-----------------------------------------------------------------------------
(* Requests that logins and operators share.                                 *)

\* create_user, and the membership of a new ORG user.
Create(p) ==
    /\ pc[p] = "creating" /\ ~Exists(job[p].email)
    /\ users' = [users EXCEPT ![job[p].email] = job[p].copy]
    /\ IF job[p].org = NoOrg THEN End(p)
       ELSE Continue(p, "assigning", [job[p] EXCEPT !.copy = NoUser])
    /\ UNCHANGED <<forward, reverse, active, operated, disruptions>>

\* update_entity merges the copy into the row: what the copy does not have stays.
Merged(row, copy) ==
    [copy EXCEPT !.entra = IF copy.entra = NoPerson THEN row.entra ELSE copy.entra]

\* The copy was read earlier, and all it has is written back.
Store(p) ==
    /\ pc[p] \in StoreSteps /\ Exists(job[p].email)
    /\ users' = [users EXCEPT ![job[p].email] = Merged(@, job[p].copy)]
    /\ CASE pc[p] \in {"rewriting", "storingId"} ->
              Continue(p, "touching", [job[p] EXCEPT !.copy = NoUser])
         [] pc[p] = "stamping" /\ job[p].member ->
              Continue(p, "membership", [job[p] EXCEPT !.copy = NoUser])
         [] OTHER -> End(p)
    /\ UNCHANGED <<forward, reverse, active, operated, disruptions>>

\* The last login is only a time stamp: its failure is logged.
StampMissing(p) ==
    /\ pc[p] = "stamping" /\ ~Exists(job[p].email)
    /\ IF job[p].member THEN Continue(p, "membership", [job[p] EXCEPT !.copy = NoUser])
                        ELSE End(p)
    /\ UNCHANGED <<tableVars, active, operated, disruptions>>

\* assign_user_to_org: one row, then the other.
Assign(p) ==
    /\ pc[p] = "assigning" /\ <<job[p].email, job[p].org>> \notin forward
    /\ forward' = forward \cup {<<job[p].email, job[p].org>>}
    /\ GoTo(p, "mirroring")
    /\ UNCHANGED <<users, reverse, active, operated, disruptions>>

\* Mutant of Mirror: the reverse row is forgotten.
ForgetMirror(p) ==
    /\ pc[p] = "mirroring" /\ <<job[p].email, job[p].org>> \notin reverse
    /\ CASE job[p].kind = "demote" -> GoTo(p, "storing")
         [] job[p].kind = "login" /\ job[p].old # NoEmail ->
              Continue(p, "touching", [job[p] EXCEPT !.old = NoEmail, !.org = NoOrg])
         [] OTHER -> End(p)
    /\ UNCHANGED <<tableVars, active, operated, disruptions>>

Mirror(p) ==
    /\ pc[p] = "mirroring" /\ <<job[p].email, job[p].org>> \notin reverse
    /\ reverse' = reverse \cup {<<job[p].email, job[p].org>>}
    /\ CASE job[p].kind = "demote" -> GoTo(p, "storing")
         [] job[p].kind = "login" /\ job[p].old # NoEmail ->
              Continue(p, "touching", [job[p] EXCEPT !.old = NoEmail, !.org = NoOrg])
         [] OTHER -> End(p)
    /\ UNCHANGED <<users, forward, active, operated, disruptions>>

\* insert_entity finds the key taken, or update_entity the row gone.
Conflict(p) ==
    /\ \/ pc[p] \in {"creating", "inserting"} /\ Exists(job[p].email)
       \/ pc[p] = "assigning" /\ <<job[p].email, job[p].org>> \in forward
       \/ pc[p] = "mirroring" /\ <<job[p].email, job[p].org>> \in reverse
       \/ pc[p] \in StoreSteps \ {"stamping"} /\ ~Exists(job[p].email)
    /\ BreakOff(p)
    /\ UNCHANGED <<tableVars, active, operated, disruptions>>

\* Whose membership is removed, and what follows.
Subject(p) == IF job[p].old # NoEmail THEN job[p].old ELSE job[p].email

AfterRemoval(p) ==
    CASE job[p].kind = "login" -> GoTo(p, "assigning")
      [] job[p].kind = "promote" -> Continue(p, "storing", [job[p] EXCEPT !.org = NoOrg])
      [] OTHER -> End(p)

FindOrg(p) ==
    LET orgs == OrgsOf(Subject(p)) IN
    /\ pc[p] = "findingOrg"
    /\ IF orgs # {} THEN Continue(p, "removingForward", [job[p] EXCEPT !.org = Min(orgs)])
       ELSE IF job[p].kind = "login"
       THEN Continue(p, "touching", [job[p] EXCEPT !.old = NoEmail])
       ELSE AfterRemoval(p)
    /\ UNCHANGED <<tableVars, active, operated, disruptions>>

RemoveForward(p) ==
    /\ pc[p] = "removingForward"
    /\ forward' = forward \ {<<Subject(p), job[p].org>>}
    /\ GoTo(p, "removingReverse")
    /\ UNCHANGED <<users, reverse, active, operated, disruptions>>

RemoveReverse(p) ==
    /\ pc[p] = "removingReverse"
    /\ reverse' = reverse \ {<<Subject(p), job[p].org>>}
    /\ AfterRemoval(p)
    /\ UNCHANGED <<users, forward, active, operated, disruptions>>

-----------------------------------------------------------------------------
(* Operators: the user handlers of permissions_handlers.py.                  *)

Operate(k, step, kind, email, org, copy) ==
    /\ k \in Operators
    /\ Begin(k, step, [NoJob EXCEPT !.kind = kind, !.email = email, !.org = org, !.copy = copy])
    /\ operated' = TRUE
    /\ UNCHANGED <<tableVars, active, disruptions>>

\* create_user_handler; an existing user is refused.
CreateUser(k, e) ==
    /\ ~Exists(e)
    /\ \E type \in {"PLATFORM", "ORG"}, o \in Orgs \cup {NoOrg} :
          /\ type = "PLATFORM" => o = NoOrg
          /\ Operate(k, "creating", "create", e, o, [entra |-> NoPerson, type |-> type])

\* Mutant of PromoteUser: the memberships stay.
PromoteKeepingOrg(k, e) ==
    /\ Exists(e) /\ users[e].type = "ORG"
    /\ Operate(k, "storing", "promote", e, NoOrg, [users[e] EXCEPT !.type = "PLATFORM"])

\* update_user: promotion, demotion (which needs an organization), or neither.
PromoteUser(k, e) ==
    /\ Exists(e) /\ users[e].type = "ORG"
    /\ Operate(k, "findingOrg", "promote", e, NoOrg, [users[e] EXCEPT !.type = "PLATFORM"])

DemoteUser(k, e) ==
    /\ Exists(e) /\ users[e].type = "PLATFORM"
    /\ \E o \in Orgs :
          Operate(k, "assigning", "demote", e, o, [users[e] EXCEPT !.type = "ORG"])

EditUser(k, e) ==
    /\ Exists(e)
    /\ Operate(k, "storing", "edit", e, NoOrg, users[e])

\* delete_user_handler: the row, then the membership.
DeleteUser(k, e) ==
    /\ Exists(e)
    /\ Operate(k, "deletingUser", "delete", e, NoOrg, NoUser)

DeleteRow(k) ==
    /\ pc[k] = "deletingUser"
    /\ users' = [users EXCEPT ![job[k].email] = NoUser]
    /\ GoTo(k, "findingOrg")
    /\ UNCHANGED <<forward, reverse, active, operated, disruptions>>

\* update_organization and soft_delete_organization write IsActive.
SetOrgActive(o) ==
    /\ Disrupt
    /\ active' = IF o \in active THEN active \ {o} ELSE active \cup {o}
    /\ UNCHANGED <<tableVars, pc, job, overlapped, disturbed, operated>>

-----------------------------------------------------------------------------
(* Failures.                                                                 *)

\* A storage request fails.  The time stamp and, for an operator, the removal
\* of a membership go on without it; everything else raises.
StorageFails(p) ==
    /\ Working(p) /\ Disrupt
    /\ CASE pc[p] \in {"touching", "stamping"} ->
              IF job[p].member THEN Continue(p, "membership", [job[p] EXCEPT !.copy = NoUser])
                               ELSE End(p)
         [] pc[p] \in {"removingForward", "removingReverse"} /\ p \in Operators ->
              /\ pc' = [pc EXCEPT ![p] = IF pc[p] = "removingForward" THEN "removingReverse"
                                         ELSE IF job[p].kind = "promote" THEN "storing"
                                         ELSE "stopped"]
              /\ job' = [job EXCEPT ![p] = IF pc'[p] = "stopped" THEN NoJob ELSE @]
              /\ disturbed' = disturbed \cup Touches(p)
              /\ UNCHANGED overlapped
         [] OTHER -> BreakOff(p)
    /\ UNCHANGED <<tableVars, active, operated>>

Die(p) ==
    /\ Working(p) /\ Disrupt
    /\ BreakOff(p)
    /\ UNCHANGED <<tableVars, active, operated>>

-----------------------------------------------------------------------------

\* A request that awaits its next answer gets it.
Proceed(p) ==
    \/ ReadProfile(p) \/ InsertMigrated(p) \/ DeleteOld(p)
    \/ FindByEmail(p) \/ ReadToBackfill(p) \/ ReadToStamp(p) \/ LookForOrg(p)
    \/ AnyUsers(p) \/ MatchDomain(p)
    \/ Create(p) \/ Store(p) \/ StampMissing(p) \/ Assign(p) \/ Mirror(p) \/ Conflict(p)
    \/ FindOrg(p) \/ RemoveForward(p) \/ RemoveReverse(p) \/ DeleteRow(p)

UsersNext ==
    \/ \E p \in Logins, id \in Identities : BeginLogin(p, id[1], id[2])
    \/ \E k \in Operators, e \in Emails :
          \/ CreateUser(k, e) \/ PromoteUser(k, e) \/ DemoteUser(k, e)
          \/ EditUser(k, e) \/ DeleteUser(k, e)
    \/ \E p \in Processes : Proceed(p) \/ StorageFails(p) \/ Die(p)
    \/ \E o \in Orgs : SetOrgActive(o)

UsersSpec == UsersInit /\ [][UsersNext]_userVars

\* A request in progress goes on.  Nobody has to log in or to operate.
UsersFairSpec == UsersSpec /\ \A p \in Processes : WF_userVars(Proceed(p))

-----------------------------------------------------------------------------
(* Properties.                                                               *)

\* Nobody is working on e and nothing went wrong on it.
Settled(e) == e \notin disturbed /\ \A p \in Processes : e \notin Touches(p)

\* The two rows of every membership come and go together, wherever requests
\* neither overlapped nor broke off half way.
MembershipsMirror ==
    \A e \in Emails, o \in Orgs :
        Settled(e) => (<<e, o>> \in forward <=> <<e, o>> \in reverse)

\* A user who does not exist or is an administrator has no membership, an ORG
\* user at most one: creation, promotion, demotion, migration and deletion
\* keep the role and the memberships in step.
RolesMatchMemberships ==
    \A e \in Emails :
        Settled(e) => /\ users[e].type = "ORG" => Cardinality(OrgsOf(e)) <= 1
                      /\ users[e].type # "ORG" => OrgsOf(e) = {}

\* Nobody's role changes but by an operator's decision, wherever requests do not
\* overlap: the logins write back whole rows, with the role they read.
OperatorsChangeRoles ==
    [][\A e \in Emails :
          Exists(e) /\ Exists(e)' /\ users'[e].type # users[e].type =>
              \/ e \in overlapped
              \/ \E k \in Operators : pc[k] = "storing" /\ job[k].email = e]_userVars

\* A person has one user row, although a changed address means a new row.
OneRowPerPerson ==
    \A h \in Persons : \A e, f \in RowsOf(h) : e # f => ~Settled(e) \/ ~Settled(f)

\* Without an operator, logins never leave a system that has users without an
\* administrator, whatever fails or dies and whoever is first, unless a user
\* remains whose requests overlapped: a login may then write a role back that it
\* read before another login of the person inserted the row anew.
LoginsKeepAdmin ==
    ~operated /\ (\E e \in Emails : Exists(e)) =>
        \E e \in Emails : Exists(e) /\ (users[e].type = "PLATFORM" \/ e \in overlapped)

\* An ORG user who keeps logging in under one address gets a membership for
\* good, also when the login that created the user died before the assignment,
\* unless no organization of the domain is active.
LoginsRepairMembership ==
    \A id \in Identities :
        LET e == id[2] IN
        (\A other \in Identities : other[1] = id[1] => other = id) =>
        (([]<><<\E p \in Logins : BeginLogin(p, id[1], e)>>_userVars) =>
             <>[](\/ users[e].type # "ORG" \/ OrgsOf(e) # {}
                  \/ DomainOrgs[e] \cap active = {}))

\* User rows, roles and memberships fit together, and somebody is an administrator.
UsersConsistent == RolesMatchMemberships /\ OneRowPerPerson /\ LoginsKeepAdmin
=============================================================================
