------------------------ MODULE UserProvisioning_proofs ------------------------
(***************************************************************************)
(* What holds of users and memberships for any people, addresses,            *)
(* organizations and number of requests: their type, that the two rows of a  *)
(* membership agree, that roles and memberships do, that only an operator    *)
(* changes a role, that a person has one row, and that logins never leave    *)
(* users without an administrator.                                           *)
(***************************************************************************)
EXTENDS UserProvisioning, FiniteSetTheorems, WellFoundedInduction, TLAPS

\* What a request that awaits step holds in its local variables.
JobOK(step, new) ==
    /\ new \in Job
    /\ step \in {"idle", "stopped"} <=> new = NoJob
    /\ step \notin {"idle", "stopped"} => new.email \in Emails
    /\ step \in {"readingProfile", "inserting", "deletingOld"} => new.old \in Emails
    /\ step \in {"assigning", "mirroring", "removingForward", "removingReverse"} => new.org \in Orgs
    /\ step \in StoreSteps \cup {"creating", "inserting"} => new.copy \in UserRow
    /\ new.kind \in {"promote", "demote"} => new.copy \in UserRow
    /\ new.kind = "promote" => step \in {"findingOrg", "removingForward", "removingReverse", "storing"}
    /\ new.kind = "demote" => step \in {"assigning", "mirroring", "storing"}

JobsOK == \A p \in Processes : JobOK(pc[p], job[p])

TypeInv == UsersTypeOK /\ JobsOK

-----------------------------------------------------------------------------
(* Operators of the module.                                                  *)

\* The first row of a query is one of its rows.
LEMMA MinIsMember ==
    ASSUME NEW S \in SUBSET Nat, S # {}
    PROVE  Min(S) \in S
<1>1. PICK x \in S : \A y \in S : ~(<<y, x>> \in OpToRel(<, Nat))
    BY NatLessThanWellFounded, WFMin
<1>2. ASSUME NEW y \in S PROVE x <= y
    <2>1. ~(<<y, x>> \in OpToRel(<, Nat))
        BY <1>1
    <2>2. x \in Nat /\ y \in Nat
        OBVIOUS
    <2>3. ~(y < x)
        BY <2>1, <2>2, Zenon DEF OpToRel
    <2> QED BY <2>2, <2>3
<1> QED BY <1>2 DEF Min

LEMMA SomeStep ==
    /\ StoreSteps \subseteq Steps /\ HalfWay \subseteq Steps
    /\ \A p \in Processes : Rest(p) \in {"idle", "stopped"}
BY DEF StoreSteps, HalfWay, Steps, Rest

LEMMA NoJobOK == JobOK("idle", NoJob) /\ JobOK("stopped", NoJob)
BY DEF JobOK, NoJob, Job, StoreSteps

LEMMA ContinueTypes ==
    ASSUME TypeInv, NEW p \in Processes, NEW step \in Steps, NEW new, JobOK(step, new),
           pc' = [pc EXCEPT ![p] = step], job' = [job EXCEPT ![p] = new]
    PROVE  pc' \in [Processes -> Steps] /\ job' \in [Processes -> Job] /\ JobsOK'
<1>1. pc' \in [Processes -> Steps] /\ job' \in [Processes -> Job]
    BY DEF TypeInv, UsersTypeOK, JobOK
<1>2. ASSUME NEW q \in Processes PROVE JobOK(pc'[q], job'[q])
    <2>1. CASE q = p
        BY <2>1 DEF TypeInv, UsersTypeOK
    <2>2. CASE q # p
        BY <2>2 DEF TypeInv, UsersTypeOK, JobsOK
    <2> QED BY <2>1, <2>2
<1> QED BY <1>1, <1>2 DEF JobsOK, JobOK

LEMMA TouchesEmails ==
    ASSUME TypeInv, NEW p \in Processes
    PROVE  Touches(p) \subseteq Emails
BY DEF TypeInv, UsersTypeOK, Job, Touches

\* A step that leaves the organizations and the counters alone.
LEMMA StepTypes ==
    ASSUME TypeInv, NEW p \in Processes, NEW step \in Steps, NEW new, JobOK(step, new),
           Continue(p, step, new),
           users' \in [Emails -> UserRow \cup {NoUser}],
           forward' \subseteq Emails \X Orgs, reverse' \subseteq Emails \X Orgs,
           active' \subseteq Orgs, operated' \in BOOLEAN, disruptions' \in 0..MaxDisruptions
    PROVE  TypeInv'
<1>1. pc' \in [Processes -> Steps] /\ job' \in [Processes -> Job] /\ JobsOK'
    BY ContinueTypes DEF Continue
<1>2. overlapped' \subseteq disturbed' /\ disturbed' \subseteq Emails
    BY DEF Continue, TypeInv, UsersTypeOK
<1> QED BY <1>1, <1>2 DEF TypeInv, UsersTypeOK, JobsOK, JobOK

\* A step that writes nothing but its process's own variables.
LEMMA QuietStepTypes ==
    ASSUME TypeInv, NEW p \in Processes, NEW step \in Steps, NEW new, JobOK(step, new),
           Continue(p, step, new), UNCHANGED <<tableVars, active, operated, disruptions>>
    PROVE  TypeInv'
BY StepTypes DEF TypeInv, UsersTypeOK, tableVars

LEMMA EndTypes ==
    ASSUME TypeInv, NEW p \in Processes, End(p),
           users' \in [Emails -> UserRow \cup {NoUser}],
           forward' \subseteq Emails \X Orgs, reverse' \subseteq Emails \X Orgs,
           active' \subseteq Orgs, operated' \in BOOLEAN, disruptions' \in 0..MaxDisruptions
    PROVE  TypeInv'
<1>1. Rest(p) \in Steps /\ JobOK(Rest(p), NoJob)
    BY NoJobOK, SomeStep DEF Steps
<1> QED BY <1>1, StepTypes DEF End

LEMMA BreakOffTypes ==
    ASSUME TypeInv, NEW p \in Processes, BreakOff(p),
           UNCHANGED <<tableVars, active, operated>>, disruptions' \in 0..MaxDisruptions
    PROVE  TypeInv'
<1>1. Rest(p) \in Steps /\ JobOK(Rest(p), NoJob)
    BY NoJobOK, SomeStep DEF Steps
<1>2. pc' \in [Processes -> Steps] /\ job' \in [Processes -> Job] /\ JobsOK'
    BY <1>1, ContinueTypes DEF BreakOff
<1>3. overlapped' \subseteq disturbed' /\ disturbed' \subseteq Emails
    BY TouchesEmails DEF BreakOff, TypeInv, UsersTypeOK
<1> QED BY <1>2, <1>3 DEF TypeInv, UsersTypeOK, JobsOK, JobOK, tableVars

LEMMA BeginTypes ==
    ASSUME TypeInv, NEW p \in Processes, NEW step \in Steps, NEW new, JobOK(step, new),
           Begin(p, step, new), UNCHANGED <<tableVars, active, disruptions>>,
           operated' \in BOOLEAN
    PROVE  TypeInv'
<1> DEFINE emails == {new.email, new.old} \ {NoEmail}
           met == Met(p, emails, new.person)
<1>1. pc' \in [Processes -> Steps] /\ job' \in [Processes -> Job] /\ JobsOK'
    BY ContinueTypes DEF Begin
<1>2. emails \subseteq Emails
    BY DEF JobOK, Job
<1>3. UNION {Touches(q) : q \in met} \subseteq Emails
    BY TouchesEmails DEF Met
<1>4. overlapped' = Marked(overlapped, emails, met) /\ disturbed' = Marked(disturbed, emails, met)
    BY DEF Begin
<1>5. overlapped \subseteq disturbed /\ disturbed \subseteq Emails
    BY DEF TypeInv, UsersTypeOK
<1> HIDE DEF emails, met
<1>6. overlapped' \subseteq disturbed' /\ disturbed' \subseteq Emails
    BY <1>2, <1>3, <1>4, <1>5 DEF Marked
<1> QED BY <1>1, <1>6 DEF TypeInv, UsersTypeOK, JobsOK, JobOK, tableVars

-----------------------------------------------------------------------------
(* The steps of a login.                                                     *)

LEMMA RowsOfEmails ==
    ASSUME NEW h, RowsOf(h) # {}
    PROVE  Min(RowsOf(h)) \in RowsOf(h) /\ Min(RowsOf(h)) \in Emails
BY MinIsMember, UserAssumption DEF RowsOf

LEMMA OrgsOfOrgs ==
    ASSUME NEW e, OrgsOf(e) # {}
    PROVE  Min(OrgsOf(e)) \in OrgsOf(e) /\ Min(OrgsOf(e)) \in Orgs
BY MinIsMember, UserAssumption DEF OrgsOf

LEMMA BeginLoginTypes ==
    ASSUME TypeInv, NEW p \in Processes, NEW id \in Identities, BeginLogin(p, id[1], id[2])
    PROVE  TypeInv'
<1> DEFINE person == id[1]
           email == id[2]
           rows == IF person = NoPerson THEN {} ELSE RowsOf(person)
           login == [NoJob EXCEPT !.kind = "login", !.person = person, !.email = email]
<1>1. person \in Persons \cup {NoPerson} /\ email \in Emails
    BY UserAssumption
<1>2. operated' \in BOOLEAN /\ UNCHANGED <<tableVars, active, disruptions>>
    BY DEF BeginLogin, TypeInv, UsersTypeOK
<1>3. rows # {} => Min(rows) \in Emails
    BY RowsOfEmails
<1>4. CASE rows = {} /\ Begin(p, "byEmail", login)
    <2>1. JobOK("byEmail", login)
        BY <1>1, UserAssumption DEF JobOK, Job, NoJob, StoreSteps
    <2> QED BY <1>2, <1>4, <2>1, BeginTypes DEF Steps
<1>5. CASE rows # {} /\ Begin(p, "readingProfile",
                   [login EXCEPT !.old = Min(rows), !.member = users[Min(rows)].type = "ORG"])
    <2>1. JobOK("readingProfile",
                [login EXCEPT !.old = Min(rows), !.member = users[Min(rows)].type = "ORG"])
        BY <1>1, <1>3, <1>5, UserAssumption DEF JobOK, Job, NoJob, StoreSteps
    <2> QED BY <1>2, <1>5, <2>1, BeginTypes DEF Steps
<1>6. CASE Begin(p, "touching", [login EXCEPT !.member = users[email].type = "ORG"])
    <2>1. JobOK("touching", [login EXCEPT !.member = users[email].type = "ORG"])
        BY <1>1, UserAssumption DEF JobOK, Job, NoJob, StoreSteps
    <2> QED BY <1>2, <1>6, <2>1, BeginTypes DEF Steps
<1> QED BY <1>4, <1>5, <1>6 DEF BeginLogin

LEMMA ReadProfileTypes ==
    ASSUME TypeInv, NEW p \in Processes, ReadProfile(p)
    PROVE  TypeInv'
<1> DEFINE old == job[p].old
<1>1. JobOK("readingProfile", job[p])
    BY DEF ReadProfile, TypeInv, JobsOK
<1>2. old \in Emails /\ users[old] \in UserRow \cup {NoUser}
    BY <1>1 DEF JobOK, TypeInv, UsersTypeOK
<1>3. CASE ~Exists(old)
    <2> DEFINE new == [job[p] EXCEPT !.email = old, !.old = NoEmail]
    <2>1. JobOK("touching", new)
        BY <1>1, <1>2, UserAssumption DEF JobOK, Job, NoJob, StoreSteps
    <2>2. Continue(p, "touching", new)
        BY <1>3 DEF ReadProfile
    <2> QED BY <2>1, <2>2, QuietStepTypes DEF ReadProfile, Steps
<1>4. CASE Exists(old) /\ old = job[p].email
    <2> DEFINE member == users[old].type = "ORG"
               new == [job[p] EXCEPT !.old = NoEmail, !.copy = users[old], !.member = member]
    <2>2. Continue(p, "rewriting", new)
        BY <1>4 DEF ReadProfile
    <2>3. member \in BOOLEAN
        OBVIOUS
    <2> HIDE DEF member
    <2>1. JobOK("rewriting", new)
        <3>1. new \in Job /\ new.email \in Emails /\ new.kind = job[p].kind
            BY <1>1, <1>2, <1>4, <2>3 DEF JobOK, Job, Exists
        <3>2. new.copy \in UserRow /\ new # NoJob
            BY <1>1, <1>2, <1>4, <3>1, UserAssumption DEF JobOK, Job, NoJob, Exists
        <3> QED BY <1>1, <3>1, <3>2 DEF JobOK, StoreSteps
    <2> QED BY <2>1, <2>2, QuietStepTypes DEF ReadProfile, Steps
<1>5. CASE Exists(old) /\ old # job[p].email
    <2> DEFINE new == [job[p] EXCEPT !.copy = users[old], !.member = users[old].type = "ORG"]
    <2>1. JobOK("inserting", new)
        BY <1>1, <1>2, <1>5, UserAssumption DEF JobOK, Job, NoJob, StoreSteps, Exists
    <2>2. Continue(p, "inserting", new)
        BY <1>5 DEF ReadProfile
    <2> QED BY <2>1, <2>2, QuietStepTypes DEF ReadProfile, Steps
<1> QED BY <1>3, <1>4, <1>5

LEMMA InsertMigratedTypes ==
    ASSUME TypeInv, NEW p \in Processes, InsertMigrated(p)
    PROVE  TypeInv'
<1> DEFINE new == [job[p] EXCEPT !.copy = NoUser]
<1>1. JobOK("inserting", job[p])
    BY DEF InsertMigrated, TypeInv, JobsOK
<1>2. JobOK("deletingOld", new)
    BY <1>1, UserAssumption DEF JobOK, Job, NoJob, StoreSteps
<1>3. users' \in [Emails -> UserRow \cup {NoUser}]
    BY <1>1 DEF InsertMigrated, TypeInv, UsersTypeOK, JobOK
<1> QED BY <1>2, <1>3, StepTypes DEF InsertMigrated, TypeInv, UsersTypeOK, Steps

LEMMA DeleteOldTypes ==
    ASSUME TypeInv, NEW p \in Processes, DeleteOld(p)
    PROVE  TypeInv'
<1>1. JobOK("deletingOld", job[p])
    BY DEF DeleteOld, TypeInv, JobsOK
<1>2. JobOK("findingOrg", job[p])
    BY <1>1 DEF JobOK, StoreSteps
<1>3. users' \in [Emails -> UserRow \cup {NoUser}]
    BY DEF DeleteOld, TypeInv, UsersTypeOK
<1> QED BY <1>2, <1>3, StepTypes DEF DeleteOld, GoTo, TypeInv, UsersTypeOK, Steps

LEMMA FindByEmailTypes ==
    ASSUME TypeInv, NEW p \in Processes, FindByEmail(p)
    PROVE  TypeInv'
<1>1. JobOK("byEmail", job[p])
    BY DEF FindByEmail, TypeInv, JobsOK
<1>2. CASE ~Exists(job[p].email)
    <2>1. JobOK("anyUsers", job[p])
        BY <1>1 DEF JobOK, StoreSteps
    <2> QED BY <1>2, <2>1, QuietStepTypes DEF FindByEmail, GoTo, Steps
<1>3. CASE Exists(job[p].email)
    <2> DEFINE new == [job[p] EXCEPT !.member = users[job[p].email].type = "ORG"]
               step == IF job[p].person # NoPerson /\ users[job[p].email].entra = NoPerson
                       THEN "backfilling" ELSE "touching"
    <2>2. Continue(p, step, new)
        BY <1>3 DEF FindByEmail
    <2>3. step \in {"backfilling", "touching"}
        OBVIOUS
    <2> HIDE DEF step
    <2>4. new \in Job /\ new.email = job[p].email /\ new.kind = job[p].kind
        BY <1>1 DEF JobOK, Job
    <2>5. new # NoJob
        BY <1>1, <2>4, UserAssumption DEF JobOK, NoJob
    <2>1. JobOK(step, new) /\ step \in Steps
        BY <1>1, <2>3, <2>4, <2>5 DEF JobOK, StoreSteps, Steps
    <2> HIDE DEF new
    <2> QED BY <2>1, <2>2, QuietStepTypes DEF FindByEmail
<1> QED BY <1>2, <1>3

LEMMA ReadToBackfillTypes ==
    ASSUME TypeInv, NEW p \in Processes, ReadToBackfill(p)
    PROVE  TypeInv'
<1>1. JobOK("backfilling", job[p])
    BY DEF ReadToBackfill, TypeInv, JobsOK
<1>2. CASE Exists(job[p].email)
    <2> DEFINE row == [users[job[p].email] EXCEPT !.entra = job[p].person]
               new == [job[p] EXCEPT !.copy = row]
    <2>1. row \in UserRow
        BY <1>1, <1>2 DEF JobOK, Job, Exists, TypeInv, UsersTypeOK, UserRow
    <2>2. JobOK("storingId", new)
        BY <1>1, <2>1, UserAssumption DEF JobOK, Job, NoJob, StoreSteps
    <2> QED BY <1>2, <2>2, QuietStepTypes DEF ReadToBackfill, Steps
<1>3. CASE ~Exists(job[p].email)
    <2>1. JobOK("touching", job[p])
        BY <1>1 DEF JobOK, StoreSteps
    <2> QED BY <1>3, <2>1, QuietStepTypes DEF ReadToBackfill, GoTo, Steps
<1> QED BY <1>2, <1>3

LEMMA ReadToStampTypes ==
    ASSUME TypeInv, NEW p \in Processes, ReadToStamp(p)
    PROVE  TypeInv'
<1>1. JobOK("touching", job[p])
    BY DEF ReadToStamp, TypeInv, JobsOK
<1>2. CASE Exists(job[p].email)
    <2> DEFINE new == [job[p] EXCEPT !.copy = users[job[p].email]]
    <2>1. JobOK("stamping", new)
        BY <1>1, <1>2, UserAssumption DEF JobOK, Job, NoJob, StoreSteps, Exists, TypeInv, UsersTypeOK
    <2> QED BY <1>2, <2>1, QuietStepTypes DEF ReadToStamp, Steps
<1>3. CASE ~Exists(job[p].email) /\ job[p].member
    <2>1. JobOK("membership", job[p])
        BY <1>1 DEF JobOK, StoreSteps
    <2> QED BY <1>3, <2>1, QuietStepTypes DEF ReadToStamp, AfterStamp, Steps
<1>4. CASE ~Exists(job[p].email) /\ ~job[p].member
    <2>1. JobOK(Rest(p), NoJob) /\ Rest(p) \in Steps
        BY NoJobOK, SomeStep DEF Steps
    <2> QED BY <1>4, <2>1, QuietStepTypes DEF ReadToStamp, AfterStamp
<1> QED BY <1>2, <1>3, <1>4

LEMMA LookForOrgTypes ==
    ASSUME TypeInv, NEW p \in Processes, LookForOrg(p)
    PROVE  TypeInv'
<1>1. JobOK(pc[p], job[p])
    BY DEF TypeInv, JobsOK
<1>2. CASE OrgsOf(job[p].email) # {}
    BY <1>2, EndTypes DEF LookForOrg, tableVars, TypeInv, UsersTypeOK
<1>3. CASE OrgsOf(job[p].email) = {}
    <2> DEFINE step == IF pc[p] = "membership" THEN "rechecking" ELSE "matching"
    <2>1. JobOK(step, job[p]) /\ step \in Steps
        BY <1>1 DEF LookForOrg, JobOK, StoreSteps, Steps
    <2>2. GoTo(p, step)
        BY <1>3 DEF LookForOrg
    <2> HIDE DEF step
    <2> QED BY <2>1, <2>2, QuietStepTypes DEF LookForOrg, GoTo
<1> QED BY <1>2, <1>3

LEMMA AnyUsersTypes ==
    ASSUME TypeInv, NEW p \in Processes, AnyUsers(p)
    PROVE  TypeInv'
<1>1. JobOK("anyUsers", job[p])
    BY DEF AnyUsers, TypeInv, JobsOK
<1>2. CASE \E e \in Emails : Exists(e)
    <2>1. JobOK("matchingNew", job[p])
        BY <1>1 DEF JobOK, StoreSteps
    <2> QED BY <1>2, <2>1, QuietStepTypes DEF AnyUsers, GoTo, Steps
<1>3. CASE ~\E e \in Emails : Exists(e)
    <2> DEFINE new == [job[p] EXCEPT !.copy = [entra |-> job[p].person, type |-> "PLATFORM"]]
    <2>1. JobOK("creating", new)
        BY <1>1, UserAssumption DEF JobOK, Job, NoJob, StoreSteps, UserRow
    <2> QED BY <1>3, <2>1, QuietStepTypes DEF AnyUsers, Steps
<1> QED BY <1>2, <1>3

LEMMA MatchDomainTypes ==
    ASSUME TypeInv, NEW p \in Processes, MatchDomain(p)
    PROVE  TypeInv'
<1> DEFINE orgs == DomainOrgs[job[p].email] \cap active
<1>1. JobOK(pc[p], job[p])
    BY DEF TypeInv, JobsOK
<1>2. CASE orgs = {}
    BY <1>2, EndTypes DEF MatchDomain, tableVars, TypeInv, UsersTypeOK
<1>3. CASE orgs # {}
    <2>1. orgs \subseteq Orgs /\ Orgs \subseteq Nat
        BY UserAssumption DEF TypeInv, UsersTypeOK
    <2>2. Min(orgs) \in Orgs
        BY <1>3, <2>1, MinIsMember
    <2> HIDE DEF orgs
    <2>3. CASE pc[p] = "matching"
        <3> DEFINE new == [job[p] EXCEPT !.org = Min(orgs)]
        <3>1. JobOK("assigning", new)
            BY <1>1, <2>2, <2>3, UserAssumption DEF JobOK, Job, NoJob, StoreSteps
        <3>2. Continue(p, "assigning", new)
            BY <1>3, <2>3 DEF MatchDomain, orgs
        <3>3. UNCHANGED <<tableVars, active, operated, disruptions>>
            BY DEF MatchDomain
        <3> HIDE DEF new
        <3> QED BY <3>1, <3>2, <3>3, QuietStepTypes DEF Steps
    <2>4. CASE pc[p] = "matchingNew"
        <3> DEFINE new == [job[p] EXCEPT !.org = Min(orgs),
                                         !.copy = [entra |-> job[p].person, type |-> "ORG"]]
        <3>1. JobOK("creating", new)
            <4>1. /\ job[p] \in Job /\ job[p].email \in Emails
                  /\ job[p].kind \notin {"promote", "demote"}
                BY <1>1, <2>4 DEF JobOK, StoreSteps
            <4>2. [entra |-> job[p].person, type |-> "ORG"] \in UserRow
                BY <4>1 DEF Job, UserRow
            <4>3. /\ new \in Job /\ new.email = job[p].email /\ new.kind = job[p].kind
                  /\ new.copy \in UserRow
                BY <2>2, <4>1, <4>2 DEF Job
            <4>4. new # NoJob
                BY <4>1, <4>3, UserAssumption DEF NoJob
            <4> QED BY <4>1, <4>3, <4>4 DEF JobOK
        <3>2. Continue(p, "creating", new)
            BY <1>3, <2>4 DEF MatchDomain, orgs
        <3>3. UNCHANGED <<tableVars, active, operated, disruptions>>
            BY DEF MatchDomain
        <3> HIDE DEF new
        <3> QED BY <3>1, <3>2, <3>3, QuietStepTypes DEF Steps
    <2> QED BY <2>3, <2>4 DEF MatchDomain
<1> QED BY <1>2, <1>3

-----------------------------------------------------------------------------
(* Steps of logins and operators.                                            *)

LEMMA CreateTypes ==
    ASSUME TypeInv, NEW p \in Processes, Create(p)
    PROVE  TypeInv'
<1>1. JobOK("creating", job[p])
    BY DEF Create, TypeInv, JobsOK
<1>2. users' \in [Emails -> UserRow \cup {NoUser}]
    BY <1>1 DEF Create, TypeInv, UsersTypeOK, JobOK
<1>3. CASE job[p].org = NoOrg
    BY <1>2, <1>3, EndTypes DEF Create, TypeInv, UsersTypeOK
<1>4. CASE job[p].org # NoOrg
    <2> DEFINE new == [job[p] EXCEPT !.copy = NoUser]
    <2>1. JobOK("assigning", new)
        BY <1>1, <1>4, UserAssumption DEF JobOK, Job, NoJob, StoreSteps
    <2> QED BY <1>2, <1>4, <2>1, StepTypes DEF Create, TypeInv, UsersTypeOK, Steps
<1> QED BY <1>3, <1>4

LEMMA MergedType ==
    ASSUME NEW row \in UserRow \cup {NoUser}, NEW new \in UserRow
    PROVE  Merged(row, new) \in UserRow
BY DEF Merged, UserRow, NoUser

LEMMA StoreTypes ==
    ASSUME TypeInv, NEW p \in Processes, Store(p)
    PROVE  TypeInv'
<1> DEFINE new == [job[p] EXCEPT !.copy = NoUser]
<1>1. JobOK(pc[p], job[p])
    BY DEF TypeInv, JobsOK
<1>2. job[p].copy \in UserRow /\ job[p].email \in Emails
    BY <1>1 DEF Store, JobOK, StoreSteps
<1>3. Merged(users[job[p].email], job[p].copy) \in UserRow
    BY <1>2, MergedType DEF TypeInv, UsersTypeOK
<1>4. users' \in [Emails -> UserRow \cup {NoUser}]
    BY <1>3 DEF Store, TypeInv, UsersTypeOK
<1>5. CASE pc[p] \in {"rewriting", "storingId"}
    <2>1. JobOK("touching", new)
        BY <1>1, <1>5, UserAssumption DEF JobOK, Job, NoJob, StoreSteps
    <2> QED BY <1>4, <1>5, <2>1, StepTypes DEF Store, TypeInv, UsersTypeOK, Steps
<1>6. CASE pc[p] = "stamping" /\ job[p].member
    <2>1. JobOK("membership", new)
        BY <1>1, <1>6, UserAssumption DEF JobOK, Job, NoJob, StoreSteps
    <2> QED BY <1>4, <1>6, <2>1, StepTypes DEF Store, TypeInv, UsersTypeOK, Steps
<1>7. CASE pc[p] \notin {"rewriting", "storingId"} /\ ~(pc[p] = "stamping" /\ job[p].member)
    BY <1>4, <1>7, EndTypes DEF Store, TypeInv, UsersTypeOK
<1> QED BY <1>5, <1>6, <1>7

LEMMA StampMissingTypes ==
    ASSUME TypeInv, NEW p \in Processes, StampMissing(p)
    PROVE  TypeInv'
<1> DEFINE new == [job[p] EXCEPT !.copy = NoUser]
<1>1. JobOK("stamping", job[p])
    BY DEF StampMissing, TypeInv, JobsOK
<1>2. CASE job[p].member
    <2>1. JobOK("membership", new)
        BY <1>1, UserAssumption DEF JobOK, Job, NoJob, StoreSteps
    <2> QED BY <1>2, <2>1, QuietStepTypes DEF StampMissing, Steps
<1>3. CASE ~job[p].member
    BY <1>3, EndTypes DEF StampMissing, tableVars, TypeInv, UsersTypeOK
<1> QED BY <1>2, <1>3

LEMMA AssignTypes ==
    ASSUME TypeInv, NEW p \in Processes, Assign(p)
    PROVE  TypeInv'
<1>1. JobOK("assigning", job[p])
    BY DEF Assign, TypeInv, JobsOK
<1>2. JobOK("mirroring", job[p])
    BY <1>1 DEF JobOK, StoreSteps
<1>3. forward' \subseteq Emails \X Orgs
    BY <1>1 DEF Assign, TypeInv, UsersTypeOK, JobOK
<1> QED BY <1>2, <1>3, StepTypes DEF Assign, GoTo, TypeInv, UsersTypeOK, Steps

LEMMA MirrorTypes ==
    ASSUME TypeInv, NEW p \in Processes, Mirror(p)
    PROVE  TypeInv'
<1>1. JobOK("mirroring", job[p])
    BY DEF Mirror, TypeInv, JobsOK
<1>2. reverse' \subseteq Emails \X Orgs
    BY <1>1 DEF Mirror, TypeInv, UsersTypeOK, JobOK
<1>3. CASE job[p].kind = "demote"
    <2>1. JobOK("storing", job[p])
        BY <1>1, <1>3 DEF JobOK, StoreSteps
    <2>2. GoTo(p, "storing")
        BY <1>3 DEF Mirror
    <2>3. Continue(p, "storing", job[p])
        BY <2>2 DEF GoTo
    <2> QED BY <1>2, <2>1, <2>3, StepTypes DEF Mirror, TypeInv, UsersTypeOK, Steps
<1>4. CASE job[p].kind = "login" /\ job[p].old # NoEmail
    <2> DEFINE new == [job[p] EXCEPT !.old = NoEmail, !.org = NoOrg]
    <2>1. JobOK("touching", new)
        BY <1>1, <1>4, UserAssumption DEF JobOK, Job, NoJob, StoreSteps
    <2> QED BY <1>2, <1>4, <2>1, StepTypes DEF Mirror, TypeInv, UsersTypeOK, Steps
<1>5. CASE job[p].kind # "demote" /\ ~(job[p].kind = "login" /\ job[p].old # NoEmail)
    BY <1>2, <1>5, EndTypes DEF Mirror, TypeInv, UsersTypeOK
<1> QED BY <1>3, <1>4, <1>5

LEMMA ConflictTypes ==
    ASSUME TypeInv, NEW p \in Processes, Conflict(p)
    PROVE  TypeInv'
BY BreakOffTypes DEF Conflict, TypeInv, UsersTypeOK

LEMMA AfterRemovalTypes ==
    ASSUME TypeInv, NEW p \in Processes, AfterRemoval(p),
           pc[p] \in {"findingOrg", "removingReverse"},
           job[p].kind = "login" => job[p].org \in Orgs,
           users' \in [Emails -> UserRow \cup {NoUser}],
           forward' \subseteq Emails \X Orgs, reverse' \subseteq Emails \X Orgs,
           UNCHANGED <<active, operated, disruptions>>
    PROVE  TypeInv'
<1>1. JobOK(pc[p], job[p])
    BY DEF TypeInv, JobsOK
<1>2. CASE job[p].kind = "login"
    <2>1. JobOK("assigning", job[p])
        BY <1>1, <1>2 DEF JobOK, StoreSteps
    <2> QED BY <1>2, <2>1, StepTypes DEF AfterRemoval, GoTo, TypeInv, UsersTypeOK, Steps
<1>3. CASE job[p].kind = "promote"
    <2> DEFINE new == [job[p] EXCEPT !.org = NoOrg]
    <2>1. JobOK("storing", new)
        BY <1>1, <1>3, UserAssumption DEF JobOK, Job, NoJob, StoreSteps
    <2> QED BY <1>3, <2>1, StepTypes DEF AfterRemoval, TypeInv, UsersTypeOK, Steps
<1>4. CASE job[p].kind \notin {"login", "promote"}
    BY <1>4, EndTypes DEF AfterRemoval, TypeInv, UsersTypeOK
<1> QED BY <1>2, <1>3, <1>4

LEMMA FindOrgTypes ==
    ASSUME TypeInv, NEW p \in Processes, FindOrg(p)
    PROVE  TypeInv'
<1> DEFINE orgs == OrgsOf(Subject(p))
<1>1. JobOK("findingOrg", job[p])
    BY DEF FindOrg, TypeInv, JobsOK
<1>2. CASE orgs # {}
    <2> DEFINE new == [job[p] EXCEPT !.org = Min(orgs)]
    <2>1. Min(orgs) \in Orgs
        BY <1>2, OrgsOfOrgs
    <2>2. Continue(p, "removingForward", new)
        BY <1>2 DEF FindOrg
    <2> HIDE DEF orgs
    <2>3. JobOK("removingForward", new)
        BY <1>1, <2>1, UserAssumption DEF JobOK, Job, NoJob, StoreSteps
    <2> QED BY <2>2, <2>3, QuietStepTypes DEF FindOrg, Steps
<1>3. CASE orgs = {} /\ job[p].kind = "login"
    <2> DEFINE new == [job[p] EXCEPT !.old = NoEmail]
    <2>1. JobOK("touching", new)
        BY <1>1, <1>3, UserAssumption DEF JobOK, Job, NoJob, StoreSteps
    <2> QED BY <1>3, <2>1, QuietStepTypes DEF FindOrg, Steps
<1>4. CASE orgs = {} /\ job[p].kind # "login"
    BY <1>4, AfterRemovalTypes DEF FindOrg, tableVars, TypeInv, UsersTypeOK
<1> QED BY <1>2, <1>3, <1>4

LEMMA RemoveForwardTypes ==
    ASSUME TypeInv, NEW p \in Processes, RemoveForward(p)
    PROVE  TypeInv'
<1>1. JobOK("removingForward", job[p])
    BY DEF RemoveForward, TypeInv, JobsOK
<1>2. JobOK("removingReverse", job[p])
    BY <1>1 DEF JobOK, StoreSteps
<1>3. forward' \subseteq Emails \X Orgs
    BY DEF RemoveForward, TypeInv, UsersTypeOK
<1> QED BY <1>2, <1>3, StepTypes DEF RemoveForward, GoTo, TypeInv, UsersTypeOK, Steps

LEMMA RemoveReverseTypes ==
    ASSUME TypeInv, NEW p \in Processes, RemoveReverse(p)
    PROVE  TypeInv'
<1>1. job[p].org \in Orgs
    BY DEF RemoveReverse, TypeInv, JobsOK, JobOK
<1>2. reverse' \subseteq Emails \X Orgs
    BY DEF RemoveReverse, TypeInv, UsersTypeOK
<1> QED BY <1>1, <1>2, AfterRemovalTypes DEF RemoveReverse, TypeInv, UsersTypeOK

-----------------------------------------------------------------------------
(* Operators, failures, and the type invariant.                              *)

LEMMA OperateTypes ==
    ASSUME TypeInv, NEW k \in Operators, NEW step \in Steps, NEW kind, NEW e, NEW o, NEW new,
           Operate(k, step, kind, e, o, new),
           JobOK(step, [NoJob EXCEPT !.kind = kind, !.email = e, !.org = o, !.copy = new])
    PROVE  TypeInv'
BY BeginTypes DEF Operate, Processes

LEMMA RowRole ==
    ASSUME TypeInv, NEW e \in Emails, Exists(e)
    PROVE  /\ users[e] \in UserRow
           /\ [users[e] EXCEPT !.type = "PLATFORM"] \in UserRow
           /\ [users[e] EXCEPT !.type = "ORG"] \in UserRow
BY DEF TypeInv, UsersTypeOK, UserRow, Exists

LEMMA OperatorTypes ==
    ASSUME TypeInv, NEW k \in Operators, NEW e \in Emails,
           \/ CreateUser(k, e) \/ PromoteUser(k, e) \/ DemoteUser(k, e)
           \/ EditUser(k, e) \/ DeleteUser(k, e)
    PROVE  TypeInv'
<1>1. CASE CreateUser(k, e)
    <2>1. PICK type \in {"PLATFORM", "ORG"}, o \in Orgs \cup {NoOrg} :
              Operate(k, "creating", "create", e, o, [entra |-> NoPerson, type |-> type])
        BY <1>1 DEF CreateUser
    <2>2. JobOK("creating", [NoJob EXCEPT !.kind = "create", !.email = e, !.org = o,
                                          !.copy = [entra |-> NoPerson, type |-> type]])
        BY UserAssumption DEF JobOK, Job, NoJob, StoreSteps, UserRow
    <2> QED BY <2>1, <2>2, OperateTypes DEF Steps
<1>2. CASE PromoteUser(k, e)
    <2> DEFINE row == [users[e] EXCEPT !.type = "PLATFORM"]
    <2>1. row \in UserRow
        BY <1>2, RowRole DEF PromoteUser
    <2>2. Operate(k, "findingOrg", "promote", e, NoOrg, row)
        BY <1>2 DEF PromoteUser
    <2> HIDE DEF row
    <2>3. JobOK("findingOrg", [NoJob EXCEPT !.kind = "promote", !.email = e, !.org = NoOrg,
                                            !.copy = row])
        BY <2>1, UserAssumption DEF JobOK, Job, NoJob, StoreSteps
    <2> QED BY <2>2, <2>3, OperateTypes DEF Steps
<1>3. CASE DemoteUser(k, e)
    <2> DEFINE row == [users[e] EXCEPT !.type = "ORG"]
    <2>1. row \in UserRow
        BY <1>3, RowRole DEF DemoteUser
    <2>2. PICK o \in Orgs : Operate(k, "assigning", "demote", e, o, row)
        BY <1>3 DEF DemoteUser
    <2> HIDE DEF row
    <2>3. JobOK("assigning", [NoJob EXCEPT !.kind = "demote", !.email = e, !.org = o, !.copy = row])
        BY <2>1, UserAssumption DEF JobOK, Job, NoJob, StoreSteps
    <2> QED BY <2>2, <2>3, OperateTypes DEF Steps
<1>4. CASE EditUser(k, e)
    <2> DEFINE row == users[e]
    <2>1. row \in UserRow /\ Operate(k, "storing", "edit", e, NoOrg, row)
        BY <1>4, RowRole DEF EditUser
    <2> HIDE DEF row
    <2>2. JobOK("storing", [NoJob EXCEPT !.kind = "edit", !.email = e, !.org = NoOrg, !.copy = row])
        BY <2>1, UserAssumption DEF JobOK, Job, NoJob, StoreSteps
    <2> QED BY <2>1, <2>2, OperateTypes DEF Steps
<1>5. CASE DeleteUser(k, e)
    <2>1. JobOK("deletingUser", [NoJob EXCEPT !.kind = "delete", !.email = e, !.org = NoOrg,
                                              !.copy = NoUser])
        BY UserAssumption DEF JobOK, Job, NoJob, StoreSteps
    <2> QED BY <1>5, <2>1, OperateTypes DEF DeleteUser, Steps
<1> QED BY <1>1, <1>2, <1>3, <1>4, <1>5

LEMMA DeleteRowTypes ==
    ASSUME TypeInv, NEW k \in Processes, DeleteRow(k)
    PROVE  TypeInv'
<1>1. JobOK("deletingUser", job[k])
    BY DEF DeleteRow, TypeInv, JobsOK
<1>2. JobOK("findingOrg", job[k])
    BY <1>1 DEF JobOK, StoreSteps
<1>3. users' \in [Emails -> UserRow \cup {NoUser}]
    BY DEF DeleteRow, TypeInv, UsersTypeOK
<1> QED BY <1>2, <1>3, StepTypes DEF DeleteRow, GoTo, TypeInv, UsersTypeOK, Steps

LEMMA DisruptTypes ==
    ASSUME TypeInv, Disrupt
    PROVE  disruptions' \in 0..MaxDisruptions
BY UserAssumption DEF TypeInv, UsersTypeOK, Disrupt

LEMMA SetOrgActiveTypes ==
    ASSUME TypeInv, NEW o \in Orgs, SetOrgActive(o)
    PROVE  TypeInv'
<1>1. active' \subseteq Orgs
    BY DEF SetOrgActive, TypeInv, UsersTypeOK
<1>2. disruptions' \in 0..MaxDisruptions
    BY DisruptTypes DEF SetOrgActive
<1> QED BY <1>1, <1>2 DEF SetOrgActive, TypeInv, UsersTypeOK, JobsOK, tableVars

LEMMA StorageFailsTypes ==
    ASSUME TypeInv, NEW p \in Processes, StorageFails(p)
    PROVE  TypeInv'
<1>1. JobOK(pc[p], job[p])
    BY DEF TypeInv, JobsOK
<1>2. disruptions' \in 0..MaxDisruptions /\ UNCHANGED <<tableVars, active, operated>>
    BY DisruptTypes DEF StorageFails
<1>3. CASE pc[p] \in {"touching", "stamping"} /\ job[p].member
    <2> DEFINE new == [job[p] EXCEPT !.copy = NoUser]
    <2>1. JobOK("membership", new)
        BY <1>1, <1>3, UserAssumption DEF JobOK, Job, NoJob, StoreSteps
    <2>2. Continue(p, "membership", new)
        BY <1>3 DEF StorageFails
    <2> HIDE DEF new
    <2> QED BY <1>2, <2>1, <2>2, StepTypes DEF TypeInv, UsersTypeOK, tableVars, Steps
<1>4. CASE pc[p] \in {"touching", "stamping"} /\ ~job[p].member
    <2>1. End(p)
        BY <1>4 DEF StorageFails
    <2> QED BY <1>2, <2>1, EndTypes DEF TypeInv, UsersTypeOK, tableVars
<1>5. CASE pc[p] \in {"removingForward", "removingReverse"} /\ p \in Operators
    <2> DEFINE step == IF pc[p] = "removingForward" THEN "removingReverse"
                       ELSE IF job[p].kind = "promote" THEN "storing"
                       ELSE "stopped"
               new == IF step = "stopped" THEN NoJob ELSE job[p]
    <2>1. /\ pc' = [pc EXCEPT ![p] = step]
          /\ job' = [job EXCEPT ![p] = IF pc'[p] = "stopped" THEN NoJob ELSE @]
          /\ overlapped' = overlapped /\ disturbed' = disturbed \cup Touches(p)
        BY <1>5 DEF StorageFails
    <2>2. /\ step \in {"removingReverse", "storing", "stopped"}
          /\ step = "removingReverse" => pc[p] = "removingForward"
          /\ step = "storing" => job[p].kind = "promote"
        BY <1>5
    <2> HIDE DEF step
    <2>3. pc'[p] = step
        BY <2>1 DEF TypeInv, UsersTypeOK
    <2>4. job' = [job EXCEPT ![p] = new]
        BY <2>1, <2>3 DEF TypeInv, UsersTypeOK
    <2>5. step = "stopped" => JobOK(step, new)
        BY NoJobOK
    <2>6. step # "stopped" => JobOK(step, new)
        BY <1>1, <1>5, <2>2 DEF JobOK, StoreSteps
    <2>7. JobOK(step, new) /\ step \in Steps
        BY <2>2, <2>5, <2>6 DEF Steps
    <2> HIDE DEF new
    <2>8. pc' \in [Processes -> Steps] /\ job' \in [Processes -> Job] /\ JobsOK'
        BY <2>1, <2>4, <2>7, ContinueTypes
    <2>9. overlapped' \subseteq disturbed' /\ disturbed' \subseteq Emails
        BY <2>1, TouchesEmails DEF TypeInv, UsersTypeOK
    <2> QED BY <1>2, <2>8, <2>9 DEF TypeInv, UsersTypeOK, JobsOK, JobOK, tableVars
<1>6. CASE /\ pc[p] \notin {"touching", "stamping"}
           /\ ~(pc[p] \in {"removingForward", "removingReverse"} /\ p \in Operators)
    <2>1. BreakOff(p)
        BY <1>6 DEF StorageFails
    <2> QED BY <1>2, <2>1, BreakOffTypes
<1> QED BY <1>3, <1>4, <1>5, <1>6

LEMMA DieTypes ==
    ASSUME TypeInv, NEW p \in Processes, Die(p)
    PROVE  TypeInv'
BY DisruptTypes, BreakOffTypes DEF Die

LEMMA InitTypes == UsersInit => TypeInv
<1> SUFFICES ASSUME UsersInit PROVE TypeInv
    OBVIOUS
<1>1. \A p \in Processes : pc[p] \in {"idle", "stopped"} /\ job[p] = NoJob
    BY DEF UsersInit
<1>2. JobsOK
    BY <1>1, NoJobOK DEF JobsOK
<1>3. pc \in [Processes -> Steps] /\ job \in [Processes -> Job]
    BY <1>2 DEF UsersInit, Steps, JobsOK, JobOK
<1>4. users \in [Emails -> UserRow \cup {NoUser}] /\ disruptions \in 0..MaxDisruptions
    BY UserAssumption DEF UsersInit
<1> QED BY <1>2, <1>3, <1>4 DEF TypeInv, UsersTypeOK, UsersInit, JobsOK, JobOK

LEMMA NextTypes == TypeInv /\ [UsersNext]_userVars => TypeInv'
<1> SUFFICES ASSUME TypeInv, [UsersNext]_userVars PROVE TypeInv'
    OBVIOUS
<1>1. ASSUME NEW p \in Logins, NEW id \in Identities, BeginLogin(p, id[1], id[2]) PROVE TypeInv'
    BY <1>1, BeginLoginTypes DEF Processes
<1>2. ASSUME NEW k \in Operators, NEW e \in Emails,
             \/ CreateUser(k, e) \/ PromoteUser(k, e) \/ DemoteUser(k, e)
             \/ EditUser(k, e) \/ DeleteUser(k, e)
      PROVE  TypeInv'
    BY <1>2, OperatorTypes
<1>3. ASSUME NEW p \in Processes, Proceed(p) PROVE TypeInv'
    BY <1>3, ReadProfileTypes, InsertMigratedTypes, DeleteOldTypes, FindByEmailTypes,
       ReadToBackfillTypes, ReadToStampTypes, LookForOrgTypes, AnyUsersTypes, MatchDomainTypes,
       CreateTypes, StoreTypes, StampMissingTypes, AssignTypes, MirrorTypes, ConflictTypes,
       FindOrgTypes, RemoveForwardTypes, RemoveReverseTypes, DeleteRowTypes DEF Proceed
<1>4. ASSUME NEW p \in Processes, StorageFails(p) \/ Die(p) PROVE TypeInv'
    BY <1>4, StorageFailsTypes, DieTypes
<1>5. ASSUME NEW o \in Orgs, SetOrgActive(o) PROVE TypeInv'
    BY <1>5, SetOrgActiveTypes
<1>6. CASE UNCHANGED userVars
    BY <1>6 DEF userVars, tableVars, TypeInv, UsersTypeOK, JobsOK
<1> QED BY <1>1, <1>2, <1>3, <1>4, <1>5, <1>6 DEF UsersNext

\* Users, memberships and requests keep their type: a request about to write a
\* row holds one.
THEOREM UsersTypeCorrect == UsersSpec => []UsersTypeOK
<1>1. UsersSpec => []TypeInv
    BY InitTypes, NextTypes, PTL DEF UsersSpec
<1>2. TypeInv => UsersTypeOK
    BY DEF TypeInv
<1> QED BY <1>1, <1>2, PTL

-----------------------------------------------------------------------------
(* The two rows of a membership.  The property is not inductive: it says       *)
(* nothing of an address that somebody works on.  There the rows may differ,   *)
(* but only on the organization that this one request is at, between its two   *)
(* writes.                                                                     *)

TouchedBy(j) == {j.email, j.old} \ {NoEmail}

Adding(p, e, o) == pc[p] = "mirroring" /\ job[p].email = e /\ job[p].org = o
Removing(p, e, o) == pc[p] = "removingReverse" /\ Subject(p) = e /\ job[p].org = o

\* What the rows say while p works on e.
Fits(p, e, o) ==
    /\ Adding(p, e, o) => <<e, o>> \in forward
    /\ Removing(p, e, o) => <<e, o>> \notin forward
    /\ ~Adding(p, e, o) /\ ~Removing(p, e, o) => (<<e, o>> \in forward <=> <<e, o>> \in reverse)

MirrorInv ==
    \A e \in Emails \ disturbed :
        /\ \A p, q \in Processes : e \in Touches(p) /\ e \in Touches(q) => p = q
        /\ \A p \in Processes, o \in Orgs : e \in Touches(p) => Fits(p, e, o)
        /\ (\A p \in Processes : e \notin Touches(p)) =>
               \A o \in Orgs : <<e, o>> \in forward <=> <<e, o>> \in reverse

\* A step of p that works on nothing new and writes only rows of what p works on.
LEMMA OwnStepMirrors ==
    ASSUME TypeInv, MirrorInv, NEW p \in Processes,
           \A q \in Processes \ {p} : pc'[q] = pc[q] /\ job'[q] = job[q],
           disturbed \subseteq disturbed',
           Touches(p)' \subseteq Touches(p),
           \A e \in Emails \ disturbed', o \in Orgs :
               /\ e \notin Touches(p) => /\ <<e, o>> \in forward' <=> <<e, o>> \in forward
                                         /\ <<e, o>> \in reverse' <=> <<e, o>> \in reverse
               /\ e \in Touches(p)' => Fits(p, e, o)'
               /\ e \in Touches(p) /\ e \notin Touches(p)' =>
                      (<<e, o>> \in forward' <=> <<e, o>> \in reverse')
    PROVE  MirrorInv'
<1> SUFFICES ASSUME NEW e \in Emails \ disturbed'
             PROVE  /\ \A r, q \in Processes : e \in Touches(r)' /\ e \in Touches(q)' => r = q
                    /\ \A q \in Processes, o \in Orgs : e \in Touches(q)' => Fits(q, e, o)'
                    /\ (\A q \in Processes : e \notin Touches(q)') =>
                           \A o \in Orgs : <<e, o>> \in forward' <=> <<e, o>> \in reverse'
    BY DEF MirrorInv
<1>1. e \in Emails \ disturbed
    OBVIOUS
<1>2. \A q \in Processes \ {p} : Touches(q)' = Touches(q)
    BY DEF Touches
<1>3. \A r, q \in Processes : e \in Touches(r)' /\ e \in Touches(q)' => r = q
    BY <1>1, <1>2 DEF MirrorInv
<1>4. ASSUME NEW q \in Processes, NEW o \in Orgs, e \in Touches(q)' PROVE Fits(q, e, o)'
    <2>1. CASE q = p
        BY <1>4, <2>1
    <2>2. CASE q # p
        <3>1. e \in Touches(q) /\ e \notin Touches(p)
            BY <1>1, <1>2, <1>4, <2>2 DEF MirrorInv
        <3>2. Fits(q, e, o)
            BY <1>1, <3>1 DEF MirrorInv
        <3>3. /\ <<e, o>> \in forward' <=> <<e, o>> \in forward
              /\ <<e, o>> \in reverse' <=> <<e, o>> \in reverse
            BY <3>1
        <3> QED BY <2>2, <3>2, <3>3 DEF Fits, Adding, Removing, Subject
    <2> QED BY <2>1, <2>2
<1>5. ASSUME \A q \in Processes : e \notin Touches(q)', NEW o \in Orgs
      PROVE  <<e, o>> \in forward' <=> <<e, o>> \in reverse'
    <2>1. CASE e \in Touches(p)
        BY <1>5, <2>1
    <2>2. CASE e \notin Touches(p)
        <3>1. \A q \in Processes : e \notin Touches(q)
            BY <1>2, <1>5, <2>2
        <3>2. <<e, o>> \in forward <=> <<e, o>> \in reverse
            BY <1>1, <3>1 DEF MirrorInv
        <3> QED BY <2>2, <3>2
    <2> QED BY <2>1, <2>2
<1> QED BY <1>3, <1>4, <1>5

\* A step that is not between the two writes, before or after.
LEMMA QuietStepMirrors ==
    ASSUME TypeInv, MirrorInv, NEW p \in Processes, NEW step, NEW new, Continue(p, step, new),
           pc[p] \notin {"mirroring", "removingReverse"},
           step \notin {"mirroring", "removingReverse"},
           TouchedBy(new) \subseteq Touches(p), UNCHANGED <<forward, reverse>>
    PROVE  MirrorInv'
<1>1. pc' = [pc EXCEPT ![p] = step] /\ job' = [job EXCEPT ![p] = new] /\ disturbed' = disturbed
    BY DEF Continue
<1>2. pc'[p] = step /\ job'[p] = new
    BY <1>1 DEF TypeInv, UsersTypeOK
<1>3. \A q \in Processes \ {p} : pc'[q] = pc[q] /\ job'[q] = job[q]
    BY <1>1 DEF TypeInv, UsersTypeOK
<1>4. Touches(p)' \subseteq Touches(p)
    BY <1>2 DEF Touches, TouchedBy
<1>5. ASSUME NEW e \in Emails \ disturbed', NEW o \in Orgs, e \in Touches(p)
      PROVE  /\ <<e, o>> \in forward' <=> <<e, o>> \in reverse'
             /\ Fits(p, e, o)'
    <2>1. Fits(p, e, o)
        BY <1>1, <1>5 DEF MirrorInv
    <2>2. <<e, o>> \in forward' <=> <<e, o>> \in reverse'
        BY <2>1 DEF Fits, Adding, Removing
    <2> QED BY <1>2, <2>2 DEF Fits, Adding, Removing
<1>6. \A e \in Emails \ disturbed', o \in Orgs :
          /\ e \notin Touches(p) => /\ <<e, o>> \in forward' <=> <<e, o>> \in forward
                                    /\ <<e, o>> \in reverse' <=> <<e, o>> \in reverse
          /\ e \in Touches(p)' => Fits(p, e, o)'
          /\ e \in Touches(p) /\ e \notin Touches(p)' =>
                 (<<e, o>> \in forward' <=> <<e, o>> \in reverse')
    BY <1>4, <1>5
<1>7. disturbed \subseteq disturbed'
    BY <1>1
<1> QED BY <1>3, <1>4, <1>6, <1>7, OwnStepMirrors

LEMMA NothingTouched == TouchedBy(NoJob) = {}
BY DEF TouchedBy, NoJob

LEMMA EndMirrors ==
    ASSUME TypeInv, MirrorInv, NEW p \in Processes, End(p),
           pc[p] \notin {"mirroring", "removingReverse"}, UNCHANGED <<forward, reverse>>
    PROVE  MirrorInv'
<1>1. Rest(p) \notin {"mirroring", "removingReverse"}
    BY SomeStep
<1> QED BY <1>1, NothingTouched, QuietStepMirrors DEF End

LEMMA BreakOffMirrors ==
    ASSUME TypeInv, MirrorInv, NEW p \in Processes, BreakOff(p), UNCHANGED <<forward, reverse>>
    PROVE  MirrorInv'
<1>1. \A q \in Processes \ {p} : pc'[q] = pc[q] /\ job'[q] = job[q]
    BY DEF BreakOff, TypeInv, UsersTypeOK
<1>2. Touches(p)' = {}
    BY DEF BreakOff, TypeInv, UsersTypeOK, Touches, NoJob
<1>3. disturbed \subseteq disturbed'
    BY DEF BreakOff
<1>4. ASSUME NEW e \in Emails \ disturbed', NEW o \in Orgs, e \in Touches(p)
      PROVE  <<e, o>> \in forward' <=> <<e, o>> \in reverse'
    <2>1. pc[p] \notin HalfWay
        BY <1>4 DEF BreakOff
    <2>2. Fits(p, e, o)
        BY <1>3, <1>4 DEF MirrorInv
    <2> QED BY <2>1, <2>2 DEF Fits, Adding, Removing, HalfWay
<1> QED BY <1>1, <1>2, <1>3, <1>4, OwnStepMirrors

LEMMA BeginMirrors ==
    ASSUME TypeInv, MirrorInv, NEW p \in Processes, NEW step, NEW new, Begin(p, step, new),
           step \notin {"mirroring", "removingReverse"}, UNCHANGED <<forward, reverse>>
    PROVE  MirrorInv'
<1> DEFINE emails == TouchedBy(new)
           met == Met(p, emails, new.person)
<1>1. /\ pc' = [pc EXCEPT ![p] = step] /\ job' = [job EXCEPT ![p] = new]
      /\ disturbed' = disturbed \cup (IF met = {} /\ emails \cap disturbed = {} THEN {} ELSE emails)
                                \cup UNION {Touches(q) : q \in met}
    BY DEF Begin, TouchedBy, Marked
<1>2. Touches(p) = {}
    BY DEF Begin, TypeInv, JobsOK, JobOK, Touches, NoJob
<1>3. pc'[p] = step /\ job'[p] = new /\ Touches(p)' = emails
    BY <1>1 DEF TypeInv, UsersTypeOK, Touches, TouchedBy
<1>4. \A q \in Processes \ {p} : pc'[q] = pc[q] /\ job'[q] = job[q] /\ Touches(q)' = Touches(q)
    BY <1>1 DEF TypeInv, UsersTypeOK, Touches
<1> SUFFICES ASSUME NEW e \in Emails \ disturbed'
             PROVE  /\ \A r, q \in Processes : e \in Touches(r)' /\ e \in Touches(q)' => r = q
                    /\ \A q \in Processes, o \in Orgs : e \in Touches(q)' => Fits(q, e, o)'
                    /\ (\A q \in Processes : e \notin Touches(q)') =>
                           \A o \in Orgs : <<e, o>> \in forward' <=> <<e, o>> \in reverse'
    BY DEF MirrorInv
<1>5. e \in Emails \ disturbed
    BY <1>1
<1>6. CASE e \in emails
    <2>1. met = {}
        BY <1>1, <1>6
    <2>2. \A q \in Processes \ {p} : e \notin Touches(q)
        BY <1>6, <2>1 DEF Met
    <2>3. \A o \in Orgs : <<e, o>> \in forward <=> <<e, o>> \in reverse
        BY <1>2, <1>5, <2>2 DEF MirrorInv
    <2>4. \A o \in Orgs : Fits(p, e, o)'
        BY <1>3, <2>3 DEF Fits, Adding, Removing
    <2> QED BY <1>3, <1>4, <1>6, <2>2, <2>3, <2>4
<1>7. CASE e \notin emails
    <2>1. \A q \in Processes : e \in Touches(q)' => q # p /\ e \in Touches(q)
        BY <1>3, <1>4, <1>7
    <2>2. ASSUME NEW q \in Processes, NEW o \in Orgs, e \in Touches(q)' PROVE Fits(q, e, o)'
        <3>1. Fits(q, e, o) /\ q # p
            BY <1>5, <2>1, <2>2 DEF MirrorInv
        <3> QED BY <1>4, <3>1 DEF Fits, Adding, Removing, Subject
    <2>3. ASSUME \A q \in Processes : e \notin Touches(q)', NEW o \in Orgs
          PROVE  <<e, o>> \in forward' <=> <<e, o>> \in reverse'
        <3>1. \A q \in Processes : e \notin Touches(q)
            BY <1>2, <1>4, <2>3
        <3> QED BY <1>5, <3>1 DEF MirrorInv
    <2> QED BY <1>5, <2>1, <2>2, <2>3 DEF MirrorInv
<1> QED BY <1>6, <1>7

\* The steps of a request that write no membership.
LEMMA QuietRequestMirrors ==
    ASSUME TypeInv, MirrorInv, NEW p \in Processes,
           \/ ReadProfile(p) \/ InsertMigrated(p) \/ DeleteOld(p) \/ FindByEmail(p)
           \/ ReadToBackfill(p) \/ ReadToStamp(p) \/ LookForOrg(p) \/ AnyUsers(p)
           \/ MatchDomain(p) \/ Create(p) \/ Store(p) \/ StampMissing(p) \/ DeleteRow(p)
    PROVE  MirrorInv'
<1>0. job[p] \in Job /\ Touches(p) = TouchedBy(job[p])
    BY DEF TypeInv, UsersTypeOK, Touches, TouchedBy
<1>1. \/ End(p)
      \/ \E step, new : /\ Continue(p, step, new)
                        /\ step \notin {"mirroring", "removingReverse"}
                        /\ TouchedBy(new) \subseteq Touches(p)
    <2>1. CASE ReadProfile(p)
        <3> DEFINE old == job[p].old
                   member == users[old].type = "ORG"
        <3>1. CASE ~Exists(old)
            <4> DEFINE new == [job[p] EXCEPT !.email = old, !.old = NoEmail]
            <4>1. Continue(p, "touching", new)
                BY <2>1, <3>1 DEF ReadProfile
            <4>2. TouchedBy(new) \subseteq Touches(p)
                BY <1>0 DEF TouchedBy, Job
            <4> QED BY <4>1, <4>2
        <3>2. CASE Exists(old) /\ old = job[p].email
            <4>1. Continue(p, "rewriting", [job[p] EXCEPT !.old = NoEmail, !.copy = users[old],
                                                          !.member = member])
                BY <2>1, <3>2 DEF ReadProfile
            <4> HIDE DEF member
            <4>2. TouchedBy([job[p] EXCEPT !.old = NoEmail, !.copy = users[old],
                                           !.member = member]) \subseteq Touches(p)
                BY <1>0 DEF TouchedBy, Job
            <4> QED BY <4>1, <4>2
        <3>3. CASE Exists(old) /\ old # job[p].email
            <4>1. Continue(p, "inserting", [job[p] EXCEPT !.copy = users[old], !.member = member])
                BY <2>1, <3>3 DEF ReadProfile
            <4> HIDE DEF member
            <4>2. TouchedBy([job[p] EXCEPT !.copy = users[old], !.member = member]) \subseteq Touches(p)
                BY <1>0 DEF TouchedBy, Job
            <4> QED BY <4>1, <4>2
        <3> QED BY <3>1, <3>2, <3>3
    <2>2. CASE InsertMigrated(p) \/ DeleteOld(p)
        BY <1>0, <2>2 DEF InsertMigrated, DeleteOld, GoTo, TouchedBy, Job
    <2>3. CASE FindByEmail(p) \/ ReadToBackfill(p)
        BY <1>0, <2>3 DEF FindByEmail, ReadToBackfill, GoTo, TouchedBy, Job
    <2>4. CASE ReadToStamp(p)
        <3>1. CASE Exists(job[p].email)
            BY <1>0, <2>4, <3>1 DEF ReadToStamp, TouchedBy, Job
        <3>2. CASE ~Exists(job[p].email)
            BY <1>0, <2>4, <3>2 DEF ReadToStamp, AfterStamp, TouchedBy, Job, End
        <3> QED BY <3>1, <3>2
    <2>5. CASE LookForOrg(p) \/ AnyUsers(p)
        BY <1>0, <2>5 DEF LookForOrg, AnyUsers, GoTo, TouchedBy, Job
    <2>6. CASE MatchDomain(p)
        <3> DEFINE orgs == DomainOrgs[job[p].email] \cap active
                   row == [entra |-> job[p].person, type |-> "ORG"]
        <3>1. CASE orgs = {}
            BY <2>6, <3>1 DEF MatchDomain
        <3>2. CASE orgs # {} /\ pc[p] = "matching"
            <4>1. Continue(p, "assigning", [job[p] EXCEPT !.org = Min(orgs)])
                BY <2>6, <3>2 DEF MatchDomain
            <4>2. TouchedBy([job[p] EXCEPT !.org = Min(orgs)]) \subseteq Touches(p)
                BY <1>0 DEF TouchedBy, Job
            <4> QED BY <4>1, <4>2
        <3>3. CASE orgs # {} /\ pc[p] # "matching"
            <4>1. Continue(p, "creating", [job[p] EXCEPT !.org = Min(orgs), !.copy = row])
                BY <2>6, <3>3 DEF MatchDomain
            <4> HIDE DEF row
            <4>2. TouchedBy([job[p] EXCEPT !.org = Min(orgs), !.copy = row]) \subseteq Touches(p)
                BY <1>0 DEF TouchedBy, Job
            <4> QED BY <4>1, <4>2
        <3> QED BY <3>1, <3>2, <3>3
    <2>7. CASE Create(p) \/ Store(p) \/ StampMissing(p)
        BY <1>0, <2>7 DEF Create, Store, StampMissing, TouchedBy, Job
    <2>8. CASE DeleteRow(p)
        BY <1>0, <2>8 DEF DeleteRow, GoTo
    <2> QED BY <2>1, <2>2, <2>3, <2>4, <2>5, <2>6, <2>7, <2>8
<1>2. UNCHANGED <<forward, reverse>> /\ pc[p] \notin {"mirroring", "removingReverse"}
    BY DEF ReadProfile, InsertMigrated, DeleteOld, FindByEmail, ReadToBackfill, ReadToStamp,
           LookForOrg, AnyUsers, MatchDomain, Create, Store, StampMissing, DeleteRow,
           tableVars, StoreSteps
<1> QED BY <1>1, <1>2, EndMirrors, QuietStepMirrors

LEMMA AssignMirrors ==
    ASSUME TypeInv, MirrorInv, NEW p \in Processes, Assign(p)
    PROVE  MirrorInv'
<1>1. /\ pc'[p] = "mirroring" /\ job'[p] = job[p] /\ disturbed' = disturbed
      /\ \A q \in Processes \ {p} : pc'[q] = pc[q] /\ job'[q] = job[q]
    BY DEF Assign, GoTo, Continue, TypeInv, UsersTypeOK
<1>2. Touches(p)' = Touches(p) /\ job[p].email \in Touches(p)
    BY <1>1, UserAssumption DEF Touches, Assign, TypeInv, JobsOK, JobOK
<1>3. ASSUME NEW e \in Emails \ disturbed', NEW o \in Orgs, e \in Touches(p)
      PROVE  Fits(p, e, o)'
    <2>1. <<e, o>> \in forward <=> <<e, o>> \in reverse
        BY <1>1, <1>3 DEF MirrorInv, Fits, Adding, Removing, Assign
    <2> QED BY <1>1, <2>1 DEF Assign, Fits, Adding, Removing
<1>4. ASSUME NEW e \in Emails, NEW o \in Orgs, e \notin Touches(p)
      PROVE  /\ <<e, o>> \in forward' <=> <<e, o>> \in forward
             /\ <<e, o>> \in reverse' <=> <<e, o>> \in reverse
    BY <1>2, <1>4 DEF Assign
<1> QED BY <1>1, <1>2, <1>3, <1>4, OwnStepMirrors

LEMMA MirrorMirrors ==
    ASSUME TypeInv, MirrorInv, NEW p \in Processes, Mirror(p)
    PROVE  MirrorInv'
<1>1. \E step \in {"storing", "touching", "idle", "stopped"} : \E new :
          Continue(p, step, new) /\ TouchedBy(new) \subseteq Touches(p)
    <2>1. job[p] \in Job /\ Touches(p) = TouchedBy(job[p])
        BY DEF TypeInv, UsersTypeOK, Touches, TouchedBy
    <2>2. CASE job[p].kind = "demote"
        <3>1. GoTo(p, "storing")
            BY <2>2 DEF Mirror
        <3> QED BY <2>1, <3>1 DEF GoTo
    <2>3. CASE job[p].kind = "login" /\ job[p].old # NoEmail
        <3>1. Continue(p, "touching", [job[p] EXCEPT !.old = NoEmail, !.org = NoOrg])
            BY <2>3 DEF Mirror
        <3>2. TouchedBy([job[p] EXCEPT !.old = NoEmail, !.org = NoOrg]) \subseteq Touches(p)
            BY <2>1 DEF TouchedBy, Job
        <3> QED BY <3>1, <3>2
    <2>4. CASE job[p].kind # "demote" /\ ~(job[p].kind = "login" /\ job[p].old # NoEmail)
        <3>1. End(p)
            BY <2>4 DEF Mirror
        <3> QED BY <3>1, NothingTouched, SomeStep DEF End
    <2> QED BY <2>2, <2>3, <2>4
<1>2. PICK step, new : /\ step \in {"storing", "touching", "idle", "stopped"}
                      /\ Continue(p, step, new) /\ TouchedBy(new) \subseteq Touches(p)
    BY <1>1
<1>3. /\ pc'[p] = step /\ job'[p] = new /\ disturbed' = disturbed
      /\ \A q \in Processes \ {p} : pc'[q] = pc[q] /\ job'[q] = job[q]
    BY <1>2 DEF Continue, TypeInv, UsersTypeOK
<1>4. Touches(p)' \subseteq Touches(p) /\ job[p].email \in Touches(p)
    BY <1>2, <1>3, UserAssumption DEF Touches, TouchedBy, Mirror, TypeInv, JobsOK, JobOK
<1>5. ASSUME NEW e \in Emails \ disturbed', NEW o \in Orgs, e \in Touches(p)
      PROVE  /\ <<e, o>> \in forward' <=> <<e, o>> \in reverse'
             /\ Fits(p, e, o)'
    <2>1. Fits(p, e, o)
        BY <1>3, <1>5 DEF MirrorInv
    <2>2. <<e, o>> \in forward' <=> <<e, o>> \in reverse'
        BY <2>1 DEF Mirror, Fits, Adding, Removing
    <2> QED BY <1>2, <1>3, <2>2 DEF Fits, Adding, Removing
<1>6. ASSUME NEW e \in Emails, NEW o \in Orgs, e \notin Touches(p)
      PROVE  /\ <<e, o>> \in forward' <=> <<e, o>> \in forward
             /\ <<e, o>> \in reverse' <=> <<e, o>> \in reverse
    BY <1>4, <1>6 DEF Mirror
<1> QED BY <1>3, <1>4, <1>5, <1>6, OwnStepMirrors

LEMMA SubjectTouched ==
    ASSUME TypeInv, NEW p \in Processes, pc[p] \notin {"idle", "stopped"}
    PROVE  Subject(p) \in Touches(p)
BY UserAssumption DEF Subject, Touches, TypeInv, JobsOK, JobOK

\* What follows the removal of a membership.
LEMMA AfterRemovalContinues ==
    ASSUME TypeInv, NEW p \in Processes, AfterRemoval(p)
    PROVE  \E step \in {"assigning", "storing", "idle", "stopped"} : \E new :
               Continue(p, step, new) /\ TouchedBy(new) \subseteq Touches(p)
<1>1. job[p] \in Job /\ Touches(p) = TouchedBy(job[p])
    BY DEF TypeInv, UsersTypeOK, Touches, TouchedBy
<1>2. CASE job[p].kind = "login"
    <2>1. GoTo(p, "assigning")
        BY <1>2 DEF AfterRemoval
    <2> QED BY <1>1, <2>1 DEF GoTo
<1>3. CASE job[p].kind = "promote"
    <2>1. Continue(p, "storing", [job[p] EXCEPT !.org = NoOrg])
        BY <1>3 DEF AfterRemoval
    <2>2. TouchedBy([job[p] EXCEPT !.org = NoOrg]) \subseteq Touches(p)
        BY <1>1 DEF TouchedBy, Job
    <2> QED BY <2>1, <2>2
<1>4. CASE job[p].kind \notin {"login", "promote"}
    <2>1. End(p)
        BY <1>4 DEF AfterRemoval
    <2> QED BY <2>1, NothingTouched, SomeStep DEF End
<1> QED BY <1>2, <1>3, <1>4

LEMMA FindOrgMirrors ==
    ASSUME TypeInv, MirrorInv, NEW p \in Processes, FindOrg(p)
    PROVE  MirrorInv'
<1> DEFINE orgs == OrgsOf(Subject(p))
<1>1. job[p] \in Job /\ Touches(p) = TouchedBy(job[p])
    BY DEF TypeInv, UsersTypeOK, Touches, TouchedBy
<1>2. CASE orgs # {}
    <2>1. Continue(p, "removingForward", [job[p] EXCEPT !.org = Min(orgs)])
        BY <1>2 DEF FindOrg
    <2>2. TouchedBy([job[p] EXCEPT !.org = Min(orgs)]) \subseteq Touches(p)
        BY <1>1 DEF TouchedBy, Job
    <2> QED BY <2>1, <2>2, QuietStepMirrors DEF FindOrg, tableVars
<1>3. CASE orgs = {} /\ job[p].kind = "login"
    <2>1. Continue(p, "touching", [job[p] EXCEPT !.old = NoEmail])
        BY <1>3 DEF FindOrg
    <2>2. TouchedBy([job[p] EXCEPT !.old = NoEmail]) \subseteq Touches(p)
        BY <1>1 DEF TouchedBy, Job
    <2> QED BY <2>1, <2>2, QuietStepMirrors DEF FindOrg, tableVars
<1>4. CASE orgs = {} /\ job[p].kind # "login"
    <2>1. AfterRemoval(p)
        BY <1>4 DEF FindOrg
    <2> QED BY <2>1, AfterRemovalContinues, QuietStepMirrors DEF FindOrg, tableVars
<1> QED BY <1>2, <1>3, <1>4

LEMMA RemoveForwardMirrors ==
    ASSUME TypeInv, MirrorInv, NEW p \in Processes, RemoveForward(p)
    PROVE  MirrorInv'
<1>1. /\ pc'[p] = "removingReverse" /\ job'[p] = job[p] /\ disturbed' = disturbed
      /\ \A q \in Processes \ {p} : pc'[q] = pc[q] /\ job'[q] = job[q]
    BY DEF RemoveForward, GoTo, Continue, TypeInv, UsersTypeOK
<1>2. Touches(p)' = Touches(p) /\ Subject(p) \in Touches(p) /\ Subject(p)' = Subject(p)
    BY <1>1, SubjectTouched DEF Touches, RemoveForward, Subject
<1>3. ASSUME NEW e \in Emails \ disturbed', NEW o \in Orgs, e \in Touches(p)
      PROVE  Fits(p, e, o)'
    <2>1. <<e, o>> \in forward <=> <<e, o>> \in reverse
        BY <1>1, <1>3 DEF MirrorInv, Fits, Adding, Removing, RemoveForward
    <2> QED BY <1>1, <1>2, <2>1 DEF RemoveForward, Fits, Adding, Removing
<1>4. ASSUME NEW e \in Emails, NEW o \in Orgs, e \notin Touches(p)
      PROVE  /\ <<e, o>> \in forward' <=> <<e, o>> \in forward
             /\ <<e, o>> \in reverse' <=> <<e, o>> \in reverse
    BY <1>2, <1>4 DEF RemoveForward
<1> QED BY <1>1, <1>2, <1>3, <1>4, OwnStepMirrors

LEMMA RemoveReverseMirrors ==
    ASSUME TypeInv, MirrorInv, NEW p \in Processes, RemoveReverse(p)
    PROVE  MirrorInv'
<1>1. PICK step, new : /\ step \in {"assigning", "storing", "idle", "stopped"}
                      /\ Continue(p, step, new) /\ TouchedBy(new) \subseteq Touches(p)
    BY AfterRemovalContinues DEF RemoveReverse
<1>2. /\ pc'[p] = step /\ job'[p] = new /\ disturbed' = disturbed
      /\ \A q \in Processes \ {p} : pc'[q] = pc[q] /\ job'[q] = job[q]
    BY <1>1 DEF Continue, TypeInv, UsersTypeOK
<1>3. Touches(p)' \subseteq Touches(p) /\ Subject(p) \in Touches(p)
    BY <1>1, <1>2, SubjectTouched DEF Touches, TouchedBy, RemoveReverse
<1>4. ASSUME NEW e \in Emails \ disturbed', NEW o \in Orgs, e \in Touches(p)
      PROVE  /\ <<e, o>> \in forward' <=> <<e, o>> \in reverse'
             /\ Fits(p, e, o)'
    <2>1. Fits(p, e, o)
        BY <1>2, <1>4 DEF MirrorInv
    <2>2. <<e, o>> \in forward' <=> <<e, o>> \in reverse'
        BY <2>1 DEF RemoveReverse, Fits, Adding, Removing
    <2> QED BY <1>1, <1>2, <2>2 DEF Fits, Adding, Removing
<1>5. ASSUME NEW e \in Emails, NEW o \in Orgs, e \notin Touches(p)
      PROVE  /\ <<e, o>> \in forward' <=> <<e, o>> \in forward
             /\ <<e, o>> \in reverse' <=> <<e, o>> \in reverse
    BY <1>3, <1>5 DEF RemoveReverse
<1> QED BY <1>2, <1>3, <1>4, <1>5, OwnStepMirrors

\* A failed removal that an operator's request goes on without disturbs the address.
LEMMA StorageFailsMirrors ==
    ASSUME TypeInv, MirrorInv, NEW p \in Processes, StorageFails(p)
    PROVE  MirrorInv'
<1>1. job[p] \in Job /\ Touches(p) = TouchedBy(job[p]) /\ UNCHANGED <<forward, reverse>>
    BY DEF TypeInv, UsersTypeOK, Touches, TouchedBy, StorageFails, tableVars
<1>2. CASE pc[p] \in {"touching", "stamping"} /\ job[p].member
    <2>1. Continue(p, "membership", [job[p] EXCEPT !.copy = NoUser])
        BY <1>2 DEF StorageFails
    <2>2. TouchedBy([job[p] EXCEPT !.copy = NoUser]) \subseteq Touches(p)
        BY <1>1 DEF TouchedBy, Job
    <2> QED BY <1>1, <1>2, <2>1, <2>2, QuietStepMirrors
<1>3. CASE pc[p] \in {"touching", "stamping"} /\ ~job[p].member
    <2>1. End(p)
        BY <1>3 DEF StorageFails
    <2> QED BY <1>1, <1>3, <2>1, EndMirrors
<1>4. CASE pc[p] \in {"removingForward", "removingReverse"} /\ p \in Operators
    <2>1. /\ \A q \in Processes \ {p} : pc'[q] = pc[q] /\ job'[q] = job[q]
          /\ job'[p] \in {NoJob, job[p]}
          /\ disturbed' = disturbed \cup Touches(p)
        BY <1>4 DEF StorageFails, TypeInv, UsersTypeOK
    <2>2. Touches(p)' \subseteq Touches(p)
        BY <2>1 DEF Touches, NoJob
    <2> QED BY <1>1, <2>1, <2>2, OwnStepMirrors
<1>5. CASE /\ pc[p] \notin {"touching", "stamping"}
           /\ ~(pc[p] \in {"removingForward", "removingReverse"} /\ p \in Operators)
    <2>1. BreakOff(p)
        BY <1>5 DEF StorageFails
    <2> QED BY <1>1, <2>1, BreakOffMirrors
<1> QED BY <1>2, <1>3, <1>4, <1>5

LEMMA InitMirrors == UsersInit => MirrorInv
BY NothingTouched DEF UsersInit, MirrorInv, Touches, TouchedBy

LEMMA NextMirrors == TypeInv /\ MirrorInv /\ [UsersNext]_userVars => MirrorInv'
<1> SUFFICES ASSUME TypeInv, MirrorInv, [UsersNext]_userVars PROVE MirrorInv'
    OBVIOUS
<1>1. ASSUME NEW p \in Logins, NEW id \in Identities, BeginLogin(p, id[1], id[2]) PROVE MirrorInv'
    BY <1>1, BeginMirrors DEF BeginLogin, tableVars, Processes
<1>2. ASSUME NEW k \in Operators, NEW e \in Emails,
             \/ CreateUser(k, e) \/ PromoteUser(k, e) \/ DemoteUser(k, e)
             \/ EditUser(k, e) \/ DeleteUser(k, e)
      PROVE  MirrorInv'
    <2>1. PICK step, kind, o, new :
              step \notin {"mirroring", "removingReverse"} /\ Operate(k, step, kind, e, o, new)
        BY <1>2 DEF CreateUser, PromoteUser, DemoteUser, EditUser, DeleteUser, Steps
    <2> QED BY <2>1, BeginMirrors DEF Operate, tableVars, Processes
<1>3. ASSUME NEW p \in Processes, Proceed(p) PROVE MirrorInv'
    <2>1. CASE Conflict(p)
        BY <2>1, BreakOffMirrors DEF Conflict, tableVars
    <2>2. CASE ~Conflict(p)
        BY <1>3, <2>2, QuietRequestMirrors, AssignMirrors, MirrorMirrors, FindOrgMirrors,
           RemoveForwardMirrors, RemoveReverseMirrors DEF Proceed
    <2> QED BY <2>1, <2>2
<1>4. ASSUME NEW p \in Processes, StorageFails(p) \/ Die(p) PROVE MirrorInv'
    BY <1>4, StorageFailsMirrors, BreakOffMirrors DEF Die, tableVars
<1>5. ASSUME NEW o \in Orgs, SetOrgActive(o) PROVE MirrorInv'
    BY <1>5 DEF SetOrgActive, tableVars, MirrorInv, Touches, Fits, Adding, Removing, Subject
<1>6. CASE UNCHANGED userVars
    BY <1>6 DEF userVars, tableVars, MirrorInv, Touches, Fits, Adding, Removing, Subject
<1> QED BY <1>1, <1>2, <1>3, <1>4, <1>5, <1>6 DEF UsersNext

\* For any people, addresses, organizations and number of requests, the two rows
\* of every membership agree wherever requests neither overlapped nor broke off.
THEOREM MembershipsMirrorAlways == UsersSpec => []MembershipsMirror
<1>1. UsersInit => TypeInv /\ MirrorInv
    BY InitTypes, InitMirrors
<1>2. TypeInv /\ MirrorInv /\ [UsersNext]_userVars => (TypeInv /\ MirrorInv)'
    BY NextTypes, NextMirrors
<1>3. MirrorInv => MembershipsMirror
    BY DEF MirrorInv, MembershipsMirror, Settled
<1> QED BY <1>1, <1>2, <1>3, PTL DEF UsersSpec
-----------------------------------------------------------------------------
(* Steps of one request.  Apart from its beginning, a request works on nothing *)
(* new and writes only the rows of the addresses that it works on.             *)

OwnStep(p) ==
    /\ \A q \in Processes \ {p} : pc'[q] = pc[q] /\ job'[q] = job[q]
    /\ Touches(p)' \subseteq Touches(p)
    /\ job'[p].person \in {job[p].person, NoPerson} /\ job'[p].kind \in {job[p].kind, "none"}
    /\ overlapped' = overlapped
    /\ disturbed' = disturbed \/ disturbed' = disturbed \cup Touches(p)
    /\ \A e \in Emails \ Touches(p) : users'[e] = users[e] /\ OrgsOf(e)' = OrgsOf(e)
    /\ operated' = operated

\* What a step does to the variables of the processes.
LEMMA Continues ==
    ASSUME TypeInv, NEW p \in Processes, NEW step, NEW new, Continue(p, step, new)
    PROVE  /\ pc'[p] = step /\ job'[p] = new
           /\ \A q \in Processes \ {p} : pc'[q] = pc[q] /\ job'[q] = job[q]
           /\ overlapped' = overlapped /\ disturbed' = disturbed
BY DEF Continue, TypeInv, UsersTypeOK

LEMMA BreaksOff ==
    ASSUME TypeInv, NEW p \in Processes, BreakOff(p)
    PROVE  /\ pc'[p] = Rest(p) /\ job'[p] = NoJob
           /\ \A q \in Processes \ {p} : pc'[q] = pc[q] /\ job'[q] = job[q]
           /\ overlapped' = overlapped
           /\ disturbed' = IF pc[p] \in HalfWay THEN disturbed \cup Touches(p) ELSE disturbed
BY DEF BreakOff, TypeInv, UsersTypeOK

\* A row that p does not touch.
LEMMA Untouched ==
    ASSUME TypeInv, NEW p \in Processes, Working(p)
    PROVE  /\ job[p].email \in Touches(p) /\ job[p].email \in Emails /\ Subject(p) \in Touches(p)
           /\ job[p].old # NoEmail => job[p].old \in Touches(p) /\ job[p].old \in Emails
BY UserAssumption DEF Touches, Subject, Working, TypeInv, UsersTypeOK, JobsOK, JobOK, Job

LEMMA WorkingTouches ==
    ASSUME TypeInv, NEW p \in Processes, NEW e \in Touches(p)
    PROVE  Working(p)
BY DEF Touches, Working, TypeInv, JobsOK, JobOK, NoJob

\* The new local variables name no address or person that the old ones do not.
Narrows(j, new) ==
    /\ TouchedBy(new) \subseteq TouchedBy(j)
    /\ new.person \in {j.person, NoPerson} /\ new.kind \in {j.kind, "none"}

LEMMA NoJobNarrows == \A j : Narrows(j, NoJob)
BY DEF Narrows, TouchedBy, NoJob

LEMMA OwnContinue ==
    ASSUME TypeInv, NEW p \in Processes, NEW step, NEW new,
           Continue(p, step, new), Narrows(job[p], new),
           \A e \in Emails \ Touches(p) : users'[e] = users[e] /\ OrgsOf(e)' = OrgsOf(e),
           operated' = operated
    PROVE  OwnStep(p)
BY Continues DEF OwnStep, Narrows, Touches, TouchedBy

LEMMA OwnBreakOff ==
    ASSUME TypeInv, NEW p \in Processes, BreakOff(p), UNCHANGED <<users, forward, operated>>
    PROVE  OwnStep(p)
<1>1. /\ Touches(p)' \subseteq Touches(p)
      /\ job'[p].person \in {job[p].person, NoPerson} /\ job'[p].kind \in {job[p].kind, "none"}
    BY BreaksOff DEF Touches, NoJob
<1>2. disturbed' = disturbed \/ disturbed' = disturbed \cup Touches(p)
    BY BreaksOff
<1> QED BY <1>1, <1>2, BreaksOff DEF OwnStep, OrgsOf


\* Requests that are answered and write nothing.
LEMMA OwnReads ==
    ASSUME TypeInv, NEW p \in Processes,
           \/ ReadProfile(p) \/ FindByEmail(p) \/ ReadToBackfill(p) \/ ReadToStamp(p)
           \/ LookForOrg(p) \/ AnyUsers(p) \/ MatchDomain(p) \/ StampMissing(p) \/ FindOrg(p)
    PROVE  OwnStep(p)
<1>1. job[p] \in Job /\ Narrows(job[p], job[p]) /\ Narrows(job[p], NoJob)
    BY NoJobNarrows DEF TypeInv, UsersTypeOK, Narrows
<1>2. /\ operated' = operated
      /\ \A e \in Emails \ Touches(p) : users'[e] = users[e] /\ OrgsOf(e)' = OrgsOf(e)
    BY DEF ReadProfile, FindByEmail, ReadToBackfill, ReadToStamp, LookForOrg, AnyUsers,
           MatchDomain, StampMissing, FindOrg, tableVars, OrgsOf
<1>3. SUFFICES \E step, new : Continue(p, step, new) /\ Narrows(job[p], new)
    BY <1>2, OwnContinue
<1>4. CASE ReadProfile(p)
    <2> DEFINE old == job[p].old
               member == users[old].type = "ORG"
               alone == [job[p] EXCEPT !.email = old, !.old = NoEmail]
               same == [job[p] EXCEPT !.old = NoEmail, !.copy = users[old], !.member = member]
               other == [job[p] EXCEPT !.copy = users[old], !.member = member]
    <2>1. \/ Continue(p, "touching", alone) \/ Continue(p, "rewriting", same)
          \/ Continue(p, "inserting", other)
        BY <1>4 DEF ReadProfile
    <2> HIDE DEF member
    <2>2. Narrows(job[p], alone) /\ Narrows(job[p], same) /\ Narrows(job[p], other)
        BY <1>1 DEF Narrows, TouchedBy, Job
    <2> QED BY <2>1, <2>2
<1>5. CASE FindByEmail(p)
    <2> DEFINE member == users[job[p].email].type = "ORG"
               found == [job[p] EXCEPT !.member = member]
    <2>1. GoTo(p, "anyUsers") \/ \E step : Continue(p, step, found)
        BY <1>5 DEF FindByEmail
    <2> HIDE DEF member
    <2>2. Narrows(job[p], found)
        BY <1>1 DEF Narrows, TouchedBy, Job
    <2> QED BY <1>1, <2>1, <2>2 DEF GoTo
<1>6. CASE ReadToBackfill(p)
    <2> DEFINE row == [users[job[p].email] EXCEPT !.entra = job[p].person]
               found == [job[p] EXCEPT !.copy = row]
    <2>1. GoTo(p, "touching") \/ Continue(p, "storingId", found)
        BY <1>6 DEF ReadToBackfill
    <2> HIDE DEF row
    <2>2. Narrows(job[p], found)
        BY <1>1 DEF Narrows, TouchedBy, Job
    <2> QED BY <1>1, <2>1, <2>2 DEF GoTo
<1>7. CASE ReadToStamp(p)
    <2> DEFINE found == [job[p] EXCEPT !.copy = users[job[p].email]]
    <2>1. \/ Continue(p, "stamping", found) \/ Continue(p, AfterStamp(p), job[p])
          \/ Continue(p, AfterStamp(p), NoJob)
        BY <1>7 DEF ReadToStamp
    <2>2. Narrows(job[p], found)
        BY <1>1 DEF Narrows, TouchedBy, Job
    <2> QED BY <1>1, <2>1, <2>2
<1>8. CASE LookForOrg(p)
    BY <1>1, <1>8 DEF LookForOrg, GoTo, End
<1>9. CASE AnyUsers(p)
    <2> DEFINE first == [job[p] EXCEPT !.copy = [entra |-> job[p].person, type |-> "PLATFORM"]]
    <2>1. GoTo(p, "matchingNew") \/ Continue(p, "creating", first)
        BY <1>9 DEF AnyUsers
    <2>2. Narrows(job[p], first)
        BY <1>1 DEF Narrows, TouchedBy, Job
    <2> QED BY <1>1, <2>1, <2>2 DEF GoTo
<1>10. CASE MatchDomain(p)
    <2> DEFINE org == Min(DomainOrgs[job[p].email] \cap active)
               row == [entra |-> job[p].person, type |-> "ORG"]
               known == [job[p] EXCEPT !.org = org]
               novel == [job[p] EXCEPT !.org = org, !.copy = row]
    <2>1. End(p) \/ Continue(p, "assigning", known) \/ Continue(p, "creating", novel)
        BY <1>10 DEF MatchDomain
    <2> HIDE DEF org, row
    <2>2. Narrows(job[p], known) /\ Narrows(job[p], novel)
        BY <1>1 DEF Narrows, TouchedBy, Job
    <2> QED BY <1>1, <2>1, <2>2 DEF End
<1>11. CASE StampMissing(p)
    <2> DEFINE free == [job[p] EXCEPT !.copy = NoUser]
    <2>1. Continue(p, "membership", free) \/ End(p)
        BY <1>11 DEF StampMissing
    <2>2. Narrows(job[p], free)
        BY <1>1 DEF Narrows, TouchedBy, Job
    <2> QED BY <1>1, <2>1, <2>2 DEF End
<1>12. CASE FindOrg(p)
    <2> DEFINE org == Min(OrgsOf(Subject(p)))
               found == [job[p] EXCEPT !.org = org]
               moved == [job[p] EXCEPT !.old = NoEmail]
               free == [job[p] EXCEPT !.org = NoOrg]
    <2>1. \/ Continue(p, "removingForward", found) \/ Continue(p, "touching", moved)
          \/ GoTo(p, "assigning") \/ Continue(p, "storing", free) \/ End(p)
        BY <1>12 DEF FindOrg, AfterRemoval
    <2> HIDE DEF org
    <2>2. Narrows(job[p], found) /\ Narrows(job[p], moved) /\ Narrows(job[p], free)
        BY <1>1 DEF Narrows, TouchedBy, Job
    <2> QED BY <1>1, <2>1, <2>2 DEF End, GoTo
<1> QED BY <1>4, <1>5, <1>6, <1>7, <1>8, <1>9, <1>10, <1>11, <1>12

\* Requests that write.
LEMMA OwnWrites ==
    ASSUME TypeInv, NEW p \in Processes,
           \/ InsertMigrated(p) \/ DeleteOld(p) \/ Create(p) \/ Store(p) \/ Assign(p)
           \/ Mirror(p) \/ RemoveForward(p) \/ RemoveReverse(p) \/ DeleteRow(p)
    PROVE  OwnStep(p)
<1> DEFINE free == [job[p] EXCEPT !.copy = NoUser]
           moved == [job[p] EXCEPT !.old = NoEmail, !.org = NoOrg]
           loose == [job[p] EXCEPT !.org = NoOrg]
<1>0. job[p] \in Job
    BY DEF TypeInv, UsersTypeOK
<1>1. /\ Narrows(job[p], job[p]) /\ Narrows(job[p], NoJob)
      /\ Narrows(job[p], free) /\ Narrows(job[p], moved) /\ Narrows(job[p], loose)
    BY <1>0, NoJobNarrows DEF Narrows, TouchedBy, Job
<1>2. operated' = operated /\ Working(p)
    BY DEF InsertMigrated, DeleteOld, Create, Store, Assign, Mirror, RemoveForward, RemoveReverse,
           DeleteRow, Working, StoreSteps
<1>3. job[p].email \in Touches(p) /\ Subject(p) \in Touches(p)
    BY <1>2, Untouched
<1>4. \A e \in Emails \ Touches(p) : users'[e] = users[e]
    <2>1. CASE DeleteOld(p)
        <3>1. job[p].old \in Touches(p)
            BY <1>2, <2>1, Untouched, UserAssumption DEF DeleteOld, TypeInv, JobsOK, JobOK
        <3> QED BY <2>1, <3>1 DEF DeleteOld, TypeInv, UsersTypeOK
    <2>2. CASE ~DeleteOld(p)
        BY <1>3, <2>2 DEF InsertMigrated, Create, Store, Assign, Mirror, RemoveForward, RemoveReverse,
           DeleteRow, TypeInv, UsersTypeOK
    <2> QED BY <2>1, <2>2
<1>5. \A e \in Emails \ Touches(p) : OrgsOf(e)' = OrgsOf(e)
    BY <1>3 DEF InsertMigrated, DeleteOld, Create, Store, Assign, Mirror, RemoveForward,
       RemoveReverse, DeleteRow, OrgsOf
<1>6. SUFFICES \E step, new : Continue(p, step, new) /\ Narrows(job[p], new)
    BY <1>2, <1>4, <1>5, OwnContinue
<1>7. \/ \E step : Continue(p, step, job[p]) \/ Continue(p, step, free)
                      \/ Continue(p, step, moved) \/ Continue(p, step, loose)
      \/ End(p)
    <2>1. CASE InsertMigrated(p) \/ DeleteOld(p) \/ Create(p) \/ Assign(p) \/ RemoveForward(p)
               \/ DeleteRow(p)
        BY <2>1 DEF InsertMigrated, DeleteOld, Create, Assign, RemoveForward, DeleteRow, GoTo
    <2>2. CASE Store(p)
        BY <2>2 DEF Store
    <2>3. CASE Mirror(p)
        BY <2>3 DEF Mirror, GoTo
    <2>4. CASE RemoveReverse(p)
        BY <2>4 DEF RemoveReverse, AfterRemoval, GoTo
    <2> QED BY <2>1, <2>2, <2>3, <2>4
<1> QED BY <1>1, <1>7 DEF End

LEMMA OwnFails ==
    ASSUME TypeInv, NEW p \in Processes, StorageFails(p) \/ Die(p)
    PROVE  OwnStep(p)
<1>1. UNCHANGED <<users, forward, operated>>
    BY DEF StorageFails, Die, tableVars
<1>2. CASE BreakOff(p)
    BY <1>1, <1>2, OwnBreakOff
<1>3. CASE pc[p] \in {"touching", "stamping"} /\ StorageFails(p)
    <2> DEFINE free == [job[p] EXCEPT !.copy = NoUser]
    <2>1. Continue(p, "membership", free) \/ End(p)
        BY <1>3 DEF StorageFails
    <2>2. Narrows(job[p], free) /\ Narrows(job[p], NoJob)
        BY NoJobNarrows DEF TypeInv, UsersTypeOK, Narrows, TouchedBy, Job
    <2>3. \A e \in Emails \ Touches(p) : users'[e] = users[e] /\ OrgsOf(e)' = OrgsOf(e)
        BY <1>1 DEF OrgsOf
    <2> QED BY <1>1, <2>1, <2>2, <2>3, OwnContinue DEF End
<1>4. CASE StorageFails(p) /\ pc[p] \in {"removingForward", "removingReverse"} /\ p \in Operators
    <2>1. /\ \A q \in Processes \ {p} : pc'[q] = pc[q] /\ job'[q] = job[q]
          /\ job'[p] \in {NoJob, job[p]}
          /\ overlapped' = overlapped /\ disturbed' = disturbed \cup Touches(p)
        BY <1>4 DEF StorageFails, TypeInv, UsersTypeOK
    <2>2. /\ Touches(p)' \subseteq Touches(p)
          /\ job'[p].person \in {job[p].person, NoPerson} /\ job'[p].kind \in {job[p].kind, "none"}
        BY <2>1 DEF Touches, NoJob
    <2> QED BY <1>1, <2>1, <2>2 DEF OwnStep, OrgsOf
<1>5. \/ BreakOff(p)
      \/ StorageFails(p) /\ pc[p] \in {"touching", "stamping"}
      \/ StorageFails(p) /\ pc[p] \in {"removingForward", "removingReverse"} /\ p \in Operators
    BY DEF StorageFails, Die
<1> QED BY <1>2, <1>3, <1>4, <1>5

LEMMA OwnSteps ==
    ASSUME TypeInv, NEW p \in Processes, Proceed(p) \/ StorageFails(p) \/ Die(p)
    PROVE  OwnStep(p)
<1>1. CASE Conflict(p)
    BY <1>1, OwnBreakOff DEF Conflict, tableVars
<1>2. CASE ~Conflict(p)
    BY <1>2, OwnReads, OwnWrites, OwnFails DEF Proceed
<1> QED BY <1>1, <1>2

-----------------------------------------------------------------------------
(* The marks.  Two requests that work on an address in common, or for the same *)
(* person, carry the mark, and a request carries it on all of its addresses.   *)

Meets(p, q) ==
    \/ Touches(p) \cap Touches(q) # {}
    \/ job[p].person # NoPerson /\ job[p].person = job[q].person

MarksFit(marked) ==
    \A p \in Processes :
        /\ Touches(p) \subseteq marked \/ Touches(p) \cap marked = {}
        /\ \A q \in Processes \ {p} : Meets(p, q) => Touches(p) \subseteq marked

MarksInv == MarksFit(overlapped) /\ MarksFit(disturbed)

LEMMA OwnStepMarks ==
    ASSUME NEW p \in Processes, OwnStep(p), MarksInv
    PROVE  MarksInv'
<1>1. /\ Touches(p)' \subseteq Touches(p)
      /\ job'[p].person \in {job[p].person, NoPerson}
      /\ \A q \in Processes \ {p} : Touches(q)' = Touches(q) /\ job'[q] = job[q]
      /\ overlapped' = overlapped
      /\ disturbed' = disturbed \/ disturbed' = disturbed \cup Touches(p)
    BY DEF OwnStep, Touches
<1>2. \A q, r \in Processes : q # r /\ Meets(q, r)' => Meets(q, r)
    BY <1>1 DEF Meets
<1>3. MarksFit(overlapped)'
    BY <1>1, <1>2 DEF MarksInv, MarksFit
<1>4. MarksFit(disturbed)'
    <2>1. MarksFit(disturbed)
        BY DEF MarksInv
    <2>2. ASSUME NEW q \in Processes
          PROVE  Touches(q)' \subseteq disturbed' \/ Touches(q)' \cap disturbed' = {}
        <3>1. CASE q = p
            BY <1>1, <2>1, <3>1 DEF MarksFit
        <3>2. CASE q # p
            <4>1. Touches(q) \cap Touches(p) = {} \/ Touches(q) \subseteq disturbed
                BY <2>1, <3>2 DEF MarksFit, Meets
            <4>2. Touches(q) \subseteq disturbed \/ Touches(q) \cap disturbed = {}
                BY <2>1 DEF MarksFit
            <4> QED BY <1>1, <3>2, <4>1, <4>2
        <3> QED BY <3>1, <3>2
    <2>3. ASSUME NEW q \in Processes, NEW r \in Processes \ {q}, Meets(q, r)'
          PROVE  Touches(q)' \subseteq disturbed'
        <3>1. Touches(q) \subseteq disturbed
            BY <1>2, <2>1, <2>3 DEF MarksFit
        <3> QED BY <1>1, <3>1
    <2> QED BY <2>2, <2>3 DEF MarksFit
<1> QED BY <1>3, <1>4 DEF MarksInv

\* The address sets of a new request and of those that it meets.
LEMMA Begins ==
    ASSUME TypeInv, NEW p \in Processes, NEW step, NEW new, Begin(p, step, new)
    PROVE  /\ pc[p] = "idle" /\ Touches(p) = {} /\ job[p] = NoJob
           /\ pc'[p] = step /\ job'[p] = new /\ Touches(p)' = TouchedBy(new)
           /\ \A q \in Processes \ {p} :
                  pc'[q] = pc[q] /\ job'[q] = job[q] /\ Touches(q)' = Touches(q)
           /\ overlapped' = Marked(overlapped, TouchedBy(new), Met(p, TouchedBy(new), new.person))
           /\ disturbed' = Marked(disturbed, TouchedBy(new), Met(p, TouchedBy(new), new.person))
<1>1. /\ pc' = [pc EXCEPT ![p] = step] /\ job' = [job EXCEPT ![p] = new] /\ pc[p] = "idle"
      /\ overlapped' = Marked(overlapped, TouchedBy(new), Met(p, TouchedBy(new), new.person))
      /\ disturbed' = Marked(disturbed, TouchedBy(new), Met(p, TouchedBy(new), new.person))
    BY DEF Begin, TouchedBy
<1>2. job[p] = NoJob
    BY <1>1 DEF TypeInv, JobsOK, JobOK
<1>3. Touches(p) = {}
    BY <1>2 DEF Touches, NoJob
<1> QED BY <1>1, <1>2, <1>3 DEF TypeInv, UsersTypeOK, Touches, TouchedBy

LEMMA MarkedFits ==
    ASSUME NEW p \in Processes, NEW new, NEW marked, MarksFit(marked)
    PROVE  LET emails == TouchedBy(new)
               met == Met(p, emails, new.person)
               more == Marked(marked, emails, met)
           IN  /\ marked \subseteq more
               /\ emails \subseteq more \/ emails \cap more = {}
               /\ met # {} => emails \subseteq more
               /\ \A q \in met : Touches(q) \subseteq more
               /\ \A q \in Processes \ {p} :
                      Touches(q) \subseteq more \/ Touches(q) \cap more = {}
<1> DEFINE emails == TouchedBy(new)
           met == Met(p, emails, new.person)
           more == Marked(marked, emails, met)
<1>1. \A q \in met : q \in Processes \ {p} /\ Touches(q) \subseteq more
    BY DEF Marked, Met
<1>2. met # {} => emails \subseteq more
    BY DEF Marked
<1>3. emails \subseteq more \/ emails \cap more = {}
    <2>1. CASE met = {} /\ emails \cap marked = {}
        BY <2>1 DEF Marked
    <2>2. CASE ~(met = {} /\ emails \cap marked = {})
        BY <2>2 DEF Marked
    <2> QED BY <2>1, <2>2
<1>4. ASSUME NEW q \in Processes \ {p}, q \notin met, NEW e \in Touches(q) \cap more
      PROVE  Touches(q) \subseteq more
    <2>1. e \notin emails
        BY <1>4 DEF Met
    <2>2. e \in marked \/ \E r \in met : e \in Touches(r)
        BY <2>1 DEF Marked
    <2>3. Touches(q) \subseteq marked
        BY <1>1, <1>4, <2>2 DEF MarksFit, Meets
    <2> QED BY <2>3 DEF Marked
<1>5. marked \subseteq more
    BY DEF Marked
<1> HIDE DEF emails, met, more
<1>6. \A q \in Processes \ {p} : Touches(q) \subseteq more \/ Touches(q) \cap more = {}
    BY <1>1, <1>4
<1> QED BY <1>1, <1>2, <1>3, <1>5, <1>6 DEF emails, met, more

LEMMA BeginMarks ==
    ASSUME TypeInv, MarksInv, NEW p \in Processes, NEW step, NEW new, Begin(p, step, new)
    PROVE  MarksInv'
<1> DEFINE emails == TouchedBy(new)
           met == Met(p, emails, new.person)
<1>1. /\ Touches(p)' = emails /\ job'[p] = new
      /\ \A q \in Processes \ {p} : job'[q] = job[q] /\ Touches(q)' = Touches(q)
    BY Begins
<1>2. \A q \in Processes \ {p} : Meets(p, q)' \/ Meets(q, p)' => q \in met
    BY <1>1 DEF Meets, Met
<1>3. \A q, r \in Processes \ {p} : Meets(q, r)' => Meets(q, r)
    BY <1>1 DEF Meets
<1>4. MarksFit(overlapped)'
    <2>1. MarksFit(overlapped) /\ overlapped' = Marked(overlapped, emails, met)
        BY Begins DEF MarksInv
    <2>2. /\ overlapped \subseteq overlapped'
          /\ emails \subseteq overlapped' \/ emails \cap overlapped' = {}
          /\ met # {} => emails \subseteq overlapped'
          /\ \A q \in met : Touches(q) \subseteq overlapped'
          /\ \A q \in Processes \ {p} :
                 Touches(q) \subseteq overlapped' \/ Touches(q) \cap overlapped' = {}
        BY <2>1, MarkedFits
    <2> HIDE DEF emails, met
    <2> QED BY <1>1, <1>2, <1>3, <2>1, <2>2 DEF MarksFit
<1>5. MarksFit(disturbed)'
    <2>1. MarksFit(disturbed) /\ disturbed' = Marked(disturbed, emails, met)
        BY Begins DEF MarksInv
    <2>2. /\ disturbed \subseteq disturbed'
          /\ emails \subseteq disturbed' \/ emails \cap disturbed' = {}
          /\ met # {} => emails \subseteq disturbed'
          /\ \A q \in met : Touches(q) \subseteq disturbed'
          /\ \A q \in Processes \ {p} :
                 Touches(q) \subseteq disturbed' \/ Touches(q) \cap disturbed' = {}
        BY <2>1, MarkedFits
    <2> HIDE DEF emails, met
    <2> QED BY <1>1, <1>2, <1>3, <2>1, <2>2 DEF MarksFit
<1> QED BY <1>4, <1>5 DEF MarksInv


-----------------------------------------------------------------------------
(* Roles.  A request holds a copy of the row that it will write: where nobody  *)
(* overlaps with it, the copy is what the row still says (CopyFits), and where *)
(* nothing broke off either, the memberships are where its step expects them   *)
(* (StageFits).                                                                *)

LoginSteps == {"byEmail", "anyUsers", "matchingNew", "readingProfile", "rewriting", "inserting",
               "deletingOld", "backfilling", "storingId", "touching", "stamping",
               "membership", "rechecking", "matching"}
RemovalSteps == {"findingOrg", "removingForward", "removingReverse"}
AssignSteps == {"assigning", "mirroring"}

\* Which requests come to a step, and what they know there.
ShapeOK(step, new) ==
    /\ step \in LoginSteps => new.kind = "login"
    /\ step \in LoginSteps \ {"readingProfile", "inserting", "deletingOld"} => new.old = NoEmail
    /\ step \in {"inserting", "deletingOld"} => new.old # new.email
    /\ step \in RemovalSteps =>
          \/ new.kind = "login" /\ new.old # NoEmail /\ new.old # new.email
          \/ new.kind \in {"promote", "delete"} /\ new.old = NoEmail
    /\ step \in AssignSteps =>
          \/ new.kind = "login" /\ new.old # new.email
          \/ new.kind \in {"create", "demote"} /\ new.old = NoEmail
    /\ step = "creating" =>
          /\ new.kind \in {"login", "create"} /\ new.old = NoEmail
          /\ new.copy.entra = new.person
          /\ new.kind = "login" => (new.copy.type = "ORG" <=> new.org # NoOrg)
          /\ new.org # NoOrg => new.copy.type = "ORG"
    /\ step = "deletingUser" => new.kind = "delete" /\ new.old = NoEmail
    /\ step = "storing" => new.kind \in {"promote", "demote", "edit"} /\ new.old = NoEmail
    /\ new.kind = "promote" => new.copy.type = "PLATFORM"
    /\ new.kind = "demote" => new.copy.type = "ORG"
    /\ step = "readingProfile" => new.old # NoEmail
    /\ step \in {"byEmail", "anyUsers", "matchingNew"} => new.org = NoOrg
    /\ step \in {"readingProfile", "backfilling", "storingId"} => new.person # NoPerson

\* p works on addresses without the mark.
Outside(p, marked) == Working(p) /\ Touches(p) \cap marked = {}

CopyFits(p) ==
    LET e == job[p].email
        old == job[p].old
        new == job[p].copy
        org == users[e].type = "ORG"
    IN
    /\ pc[p] = "readingProfile" => Exists(old) /\ users[old].entra = job[p].person
    /\ pc[p] = "inserting" => Exists(old) /\ new = users[old] /\ (job[p].member <=> new.type = "ORG")
    /\ pc[p] = "deletingOld" => users[e] = users[old]
    /\ pc[p] \in {"rewriting", "stamping"} => new = users[e]
    /\ pc[p] = "storingId" => new.type = users[e].type /\ new.entra = job[p].person
    /\ pc[p] = "storing" /\ job[p].kind = "edit" => new = users[e]
    /\ job[p].kind \in {"promote", "demote"} => new.entra = users[e].entra
    /\ pc[p] \in {"rewriting", "stamping", "storingId", "backfilling", "touching", "deletingOld"} =>
          Exists(e) /\ (job[p].member <=> org)
    /\ pc[p] \in {"membership", "rechecking", "matching"} => org
    /\ pc[p] \in RemovalSteps \cup AssignSteps /\ job[p].kind = "login" =>
          /\ Exists(e)
          /\ IF old = NoEmail THEN org ELSE job[p].member <=> org
    /\ pc[p] \in AssignSteps /\ job[p].kind = "create" => org

AtMostOne(e) == \A o, other \in OrgsOf(e) : o = other
Fit(e) == AtMostOne(e) /\ (OrgsOf(e) # {} => users[e].type = "ORG")

StageFits(p) ==
    LET e == job[p].email
        old == job[p].old
    IN
    /\ pc[p] \notin HalfWay => \A f \in Touches(p) : Fit(f)
    /\ pc[p] = "matching" => OrgsOf(e) = {}
    /\ pc[p] = "deletingOld" => OrgsOf(e) = {} /\ Fit(old)
    /\ pc[p] \in RemovalSteps => AtMostOne(Subject(p))
    /\ pc[p] = "removingForward" => OrgsOf(Subject(p)) \subseteq {job[p].org}
    /\ pc[p] = "removingReverse" => OrgsOf(Subject(p)) = {}
    /\ pc[p] \in RemovalSteps /\ job[p].kind = "login" =>
          /\ OrgsOf(e) = {}
          /\ OrgsOf(old) # {} \/ pc[p] # "findingOrg" => users[e].type = "ORG"
    /\ pc[p] \in AssignSteps =>
          /\ OrgsOf(e) \subseteq {job[p].org}
          /\ old # NoEmail => OrgsOf(old) = {}
          /\ job[p].kind # "demote" => users[e].type = "ORG"
          /\ pc[p] = "assigning" => OrgsOf(e) = {}
    /\ pc[p] = "storing" => /\ AtMostOne(e)
                            /\ job[p].kind = "promote" => OrgsOf(e) = {}
                            /\ job[p].kind = "edit" => Fit(e)

Stands(p) ==
    /\ ShapeOK(pc[p], job[p])
    /\ Outside(p, overlapped) => CopyFits(p)
    /\ Outside(p, disturbed) => StageFits(p)

RolesInv ==
    /\ \A p \in Processes : Stands(p)
    /\ \A e \in Emails : Settled(e) => Fit(e)

\* What a step of p has to show of p itself.
Lands(p) ==
    /\ ShapeOK(pc[p], job[p])'
    /\ Working(p)' /\ Outside(p, overlapped) => CopyFits(p)'
    /\ Working(p)' /\ Outside(p, disturbed) => StageFits(p)' \/ disturbed' # disturbed
    /\ Outside(p, disturbed) /\ disturbed' = disturbed =>
          \A e \in Touches(p) : e \notin Touches(p)' => Fit(e)'


\* The others do not notice, wherever they do not overlap with p.
LEMMA OthersStand ==
    ASSUME TypeInv, MarksInv, NEW p \in Processes, OwnStep(p), NEW q \in Processes \ {p}, Stands(q)
    PROVE  Stands(q)'
<1>1. /\ pc'[q] = pc[q] /\ job'[q] = job[q] /\ Touches(q)' = Touches(q)
      /\ Working(q)' <=> Working(q)
      /\ Subject(q)' = Subject(q)
      /\ overlapped' = overlapped /\ disturbed \subseteq disturbed'
    BY DEF OwnStep, Touches, Working, Subject
<1>2. overlapped \subseteq disturbed
    BY DEF TypeInv, UsersTypeOK
<1>3. ASSUME Outside(q, overlapped)
      PROVE  \A e \in Touches(q) : users'[e] = users[e] /\ OrgsOf(e)' = OrgsOf(e)
    <2>1. Touches(q) \cap Touches(p) = {}
        <3>1. PICK e : e \in Touches(q)
            BY <1>3, Untouched DEF Outside
        <3>2. ~(Touches(q) \subseteq overlapped)
            BY <1>3, <3>1 DEF Outside
        <3> QED BY <3>2 DEF MarksInv, MarksFit, Meets
    <2>2. Touches(q) \subseteq Emails
        BY TouchesEmails
    <2> QED BY <2>1, <2>2 DEF OwnStep
<1>4. Working(q) => /\ job[q].email \in Touches(q) /\ Subject(q) \in Touches(q)
                    /\ job[q].old # NoEmail => job[q].old \in Touches(q)
    BY Untouched
<1>5. JobOK(pc[q], job[q]) /\ ShapeOK(pc[q], job[q])
    BY DEF TypeInv, JobsOK, Stands
<1>6. ASSUME Outside(q, overlapped)' PROVE CopyFits(q)'
    <2>1. Outside(q, overlapped)
        BY <1>1, <1>6 DEF Outside
    <2>2. CopyFits(q)
        BY <2>1 DEF Stands
    <2>3. users'[job[q].email] = users[job[q].email]
        BY <1>3, <1>4, <2>1 DEF Outside
    <2>4. pc[q] \in {"readingProfile", "inserting", "deletingOld"} =>
              users'[job[q].old] = users[job[q].old]
        BY <1>3, <1>4, <1>5, <2>1, UserAssumption DEF Outside, JobOK
    <2> QED BY <1>1, <2>2, <2>3, <2>4 DEF CopyFits, Exists
<1>7. ASSUME Outside(q, disturbed)' PROVE StageFits(q)'
    <2>1. Outside(q, disturbed) /\ Outside(q, overlapped)
        BY <1>1, <1>2, <1>7 DEF Outside
    <2>2. StageFits(q)
        BY <2>1 DEF Stands
    <2>3. /\ OrgsOf(job[q].email)' = OrgsOf(job[q].email)
          /\ OrgsOf(Subject(q))' = OrgsOf(Subject(q))
          /\ users'[job[q].email] = users[job[q].email]
          /\ job[q].old # NoEmail => OrgsOf(job[q].old)' = OrgsOf(job[q].old)
        BY <1>1, <1>3, <1>4, <2>1 DEF Outside
    <2>4. \A e \in Touches(q) : (Fit(e)' <=> Fit(e)) /\ (AtMostOne(e)' <=> AtMostOne(e))
        BY <1>3, <2>1 DEF Fit, AtMostOne
    <2>5. /\ pc[q] = "deletingOld" => job[q].old \in Touches(q)
          /\ pc[q] \in RemovalSteps /\ job[q].kind = "login" => job[q].old # NoEmail
          /\ job[q].email \in Touches(q) /\ Subject(q) \in Touches(q)
        BY <1>4, <1>5, <2>1, UserAssumption DEF Outside, JobOK, ShapeOK
    <2>6. \A S : (OrgsOf(job[q].email)' \subseteq S <=> OrgsOf(job[q].email) \subseteq S)
                 /\ (OrgsOf(Subject(q))' \subseteq S <=> OrgsOf(Subject(q)) \subseteq S)
        BY <2>3
    <2> QED BY <1>1, <2>2, <2>3, <2>4, <2>5, <2>6 DEF StageFits
<1>8. ShapeOK(pc[q], job[q])'
    BY <1>1, <1>5 DEF ShapeOK
<1> QED BY <1>6, <1>7, <1>8 DEF Stands

LEMMA OwnStepRoles ==
    ASSUME TypeInv, TypeInv', MarksInv, RolesInv, NEW p \in Processes, OwnStep(p), Lands(p)
    PROVE  RolesInv'
<1>1. /\ Touches(p)' \subseteq Touches(p)
      /\ \A q \in Processes \ {p} : Touches(q)' = Touches(q)
      /\ overlapped' = overlapped
      /\ disturbed' = disturbed \/ disturbed' = disturbed \cup Touches(p)
    BY DEF OwnStep, Touches
<1>2. /\ Outside(p, overlapped)' => Outside(p, overlapped)
      /\ Outside(p, disturbed)' => Outside(p, disturbed) /\ disturbed' = disturbed
    <2>1. CASE Working(p)'
        <3>1. PICK e : e \in Touches(p)'
            BY <2>1, UserAssumption DEF Touches, Working, TypeInv, JobsOK, JobOK
        <3>2. e \in Touches(p)
            BY <1>1, <3>1
        <3>3. e \notin overlapped' => Touches(p) \cap overlapped = {}
            BY <1>1, <3>2 DEF MarksInv, MarksFit
        <3>4. e \notin disturbed' => Touches(p) \cap disturbed = {} /\ disturbed' = disturbed
            BY <1>1, <3>2 DEF MarksInv, MarksFit
        <3>5. Working(p)
            BY <3>2, WorkingTouches
        <3> QED BY <3>1, <3>3, <3>4, <3>5 DEF Outside
    <2>2. CASE ~Working(p)'
        BY <2>2 DEF Outside
    <2> QED BY <2>1, <2>2
<1>3. Stands(p)'
    <2>1. Outside(p, overlapped)' => CopyFits(p)'
        BY <1>2 DEF Lands, Outside
    <2>2. Outside(p, disturbed)' => StageFits(p)'
        BY <1>2 DEF Lands, Outside
    <2> QED BY <2>1, <2>2 DEF Lands, Stands
<1>4. \A q \in Processes : Stands(q)'
    BY <1>3, OthersStand DEF RolesInv
<1>5. ASSUME NEW e \in Emails, Settled(e)' PROVE Fit(e)'
    <2>1. e \notin disturbed /\ \A q \in Processes \ {p} : e \notin Touches(q)
        BY <1>1, <1>5 DEF Settled
    <2>2. CASE e \in Touches(p)
        <3>1. Touches(p) \cap disturbed = {} /\ disturbed' = disturbed
            BY <1>1, <1>5, <2>1, <2>2 DEF MarksInv, MarksFit, Settled
        <3>2. Working(p)
            BY <2>2, WorkingTouches
        <3> QED BY <1>5, <2>2, <3>1, <3>2 DEF Lands, Outside, Settled
    <2>3. CASE e \notin Touches(p)
        <3>1. Fit(e)
            BY <2>1, <2>3 DEF RolesInv, Settled
        <3>2. users'[e] = users[e] /\ OrgsOf(e)' = OrgsOf(e)
            BY <2>3 DEF OwnStep
        <3> QED BY <3>1, <3>2 DEF Fit, AtMostOne
    <2> QED BY <2>2, <2>3
<1> QED BY <1>4, <1>5 DEF RolesInv

LEMMA BeginRoles ==
    ASSUME TypeInv, MarksInv, RolesInv, NEW p \in Processes, NEW step, NEW new,
           Begin(p, step, new), UNCHANGED <<users, forward>>, ShapeOK(step, new), CopyFits(p)',
           (\A e \in TouchedBy(new) : Fit(e)) => StageFits(p)',
           TouchedBy(new) \subseteq Emails, TouchedBy(new) # {}
    PROVE  RolesInv'
<1> DEFINE emails == TouchedBy(new)
           met == Met(p, emails, new.person)
<1>1. /\ pc[p] = "idle" /\ Touches(p) = {} /\ job[p] = NoJob
      /\ pc'[p] = step /\ job'[p] = new /\ Touches(p)' = emails
      /\ \A q \in Processes \ {p} :
             pc'[q] = pc[q] /\ job'[q] = job[q] /\ Touches(q)' = Touches(q)
      /\ overlapped' = Marked(overlapped, emails, met)
      /\ disturbed' = Marked(disturbed, emails, met)
    BY Begins
<1>2. overlapped \subseteq overlapped' /\ disturbed \subseteq disturbed'
    BY <1>1 DEF Marked
<1>3. \A e : OrgsOf(e)' = OrgsOf(e) /\ (Fit(e)' <=> Fit(e)) /\ (AtMostOne(e)' <=> AtMostOne(e))
    BY DEF OrgsOf, Fit, AtMostOne
<1>4. ASSUME NEW q \in Processes \ {p} PROVE Stands(q)'
    <2>1. /\ Working(q)' <=> Working(q)
          /\ Subject(q)' = Subject(q) /\ Stands(q)
        BY <1>1 DEF Working, Subject, RolesInv
    <2>2. CopyFits(q) => CopyFits(q)'
        BY <1>1 DEF CopyFits, Exists
    <2>3. StageFits(q) => StageFits(q)'
        <3>1. \A f \in Touches(q)' : f \in Touches(q)
            BY <1>1
        <3> QED BY <1>1, <1>3, <2>1, <3>1 DEF StageFits
    <2>4. /\ Outside(q, overlapped)' => Outside(q, overlapped)
          /\ Outside(q, disturbed)' => Outside(q, disturbed)
        BY <1>1, <1>2, <2>1 DEF Outside
    <2>5. ShapeOK(pc[q], job[q])'
        BY <1>1, <2>1 DEF Stands, ShapeOK
    <2> QED BY <2>1, <2>2, <2>3, <2>4, <2>5 DEF Stands
<1>5. Stands(p)'
    <2>1. ASSUME Outside(p, disturbed)' PROVE StageFits(p)'
        <3>1. emails \cap disturbed' = {}
            BY <1>1, <2>1 DEF Outside
        <3>2. met = {} /\ emails \cap disturbed = {}
            <4>1. met = {} \/ emails \subseteq disturbed'
                BY <1>1 DEF Marked
            <4> QED BY <1>2, <3>1, <4>1
        <3>3. \A e \in emails, q \in Processes : e \notin Touches(q)
            BY <1>1, <3>2 DEF Met
        <3>4. \A e \in emails : Fit(e)
            BY <3>2, <3>3 DEF RolesInv, Settled
        <3> QED BY <3>4
    <2>2. ShapeOK(pc[p], job[p])'
        BY <1>1 DEF ShapeOK
    <2> QED BY <2>1, <2>2 DEF Stands
<1>6. ASSUME NEW e \in Emails, Settled(e)' PROVE Fit(e)'
    <2>1. Settled(e)
        <3>1. \A q \in Processes : e \notin Touches(q)
            BY <1>1, <1>6 DEF Settled
        <3> QED BY <1>2, <1>6, <3>1 DEF Settled
    <2> QED BY <1>3, <2>1 DEF RolesInv
<1> QED BY <1>4, <1>5, <1>6 DEF RolesInv


LEMMA NoJobShape ==
    \A step \in {"idle", "stopped"} : ShapeOK(step, NoJob)
BY DEF ShapeOK, NoJob, LoginSteps, RemovalSteps, AssignSteps

\* What is known of p where nothing disturbed it.
LEMMA StandsAlone ==
    ASSUME TypeInv, RolesInv, NEW p \in Processes
    PROVE  /\ ShapeOK(pc[p], job[p])
           /\ Outside(p, disturbed) => Outside(p, overlapped)
           /\ Outside(p, overlapped) => CopyFits(p)
           /\ Outside(p, disturbed) => StageFits(p) /\ CopyFits(p)
BY DEF RolesInv, Stands, Outside, TypeInv, UsersTypeOK

LEMMA EndLands ==
    ASSUME TypeInv, NEW p \in Processes, End(p),
           Outside(p, disturbed) => \A e \in Touches(p) : Fit(e)'
    PROVE  Lands(p)
<1>1. pc'[p] \in {"idle", "stopped"} /\ job'[p] = NoJob
    BY Continues, SomeStep DEF End
<1>2. ShapeOK(pc[p], job[p])'
    BY <1>1, NoJobShape DEF ShapeOK
<1>3. ~Working(p)'
    BY <1>1 DEF Working
<1> QED BY <1>2, <1>3 DEF Lands

LEMMA BreakOffLands ==
    ASSUME TypeInv, RolesInv, NEW p \in Processes, BreakOff(p), UNCHANGED <<users, forward>>
    PROVE  Lands(p)
<1>1. /\ pc'[p] \in {"idle", "stopped"} /\ job'[p] = NoJob
      /\ pc[p] \in HalfWay => disturbed' = disturbed \cup Touches(p)
    BY BreaksOff, SomeStep
<1>2. ShapeOK(pc[p], job[p])'
    BY <1>1, NoJobShape DEF ShapeOK
<1>3. ~Working(p)'
    BY <1>1 DEF Working
<1>4. ASSUME Outside(p, disturbed), disturbed' = disturbed, NEW e \in Touches(p)
      PROVE  Fit(e)'
    <2>1. pc[p] \notin HalfWay
        BY <1>1, <1>4 DEF Outside
    <2>2. Fit(e)
        BY <1>4, <2>1, StandsAlone DEF StageFits
    <2> QED BY <2>2 DEF Fit, AtMostOne, OrgsOf
<1> QED BY <1>2, <1>3, <1>4 DEF Lands

\* A step that writes nothing, between steps where every address fits.
LEMMA QuietLands ==
    ASSUME TypeInv, RolesInv, NEW p \in Processes, NEW step, NEW new,
           Continue(p, step, new), UNCHANGED <<users, forward>>,
           pc[p] \notin HalfWay, step \notin HalfWay,
           step = "matching" => OrgsOf(new.email) = {},
           Narrows(job[p], new), ShapeOK(step, new),
           CopyFits(p) /\ Working(p)' => CopyFits(p)'
    PROVE  Lands(p)
<1>1. pc'[p] = step /\ job'[p] = new /\ Touches(p)' \subseteq Touches(p)
    BY Continues DEF Narrows, Touches, TouchedBy
<1>2. \A e : OrgsOf(e)' = OrgsOf(e) /\ (Fit(e)' <=> Fit(e))
    BY DEF OrgsOf, Fit, AtMostOne
<1>3. ShapeOK(pc[p], job[p])'
    BY <1>1 DEF ShapeOK
<1>4. ASSUME Outside(p, disturbed) PROVE \A f \in Touches(p) : Fit(f)'
    BY <1>2, <1>4, StandsAlone DEF StageFits
<1>5. (\A f \in Touches(p) : Fit(f)') => StageFits(p)'
    BY <1>1, <1>2 DEF StageFits, HalfWay, RemovalSteps, AssignSteps
<1>6. Outside(p, overlapped) => CopyFits(p)
    BY StandsAlone
<1> QED BY <1>3, <1>4, <1>5, <1>6 DEF Lands

LEMMA QuietEndLands ==
    ASSUME TypeInv, RolesInv, NEW p \in Processes, End(p), UNCHANGED <<users, forward>>,
           pc[p] \notin HalfWay
    PROVE  Lands(p)
<1>1. ASSUME Outside(p, disturbed) PROVE \A e \in Touches(p) : Fit(e)'
    <2>1. \A e \in Touches(p) : Fit(e)
        BY <1>1, StandsAlone DEF StageFits
    <2> QED BY <2>1 DEF Fit, AtMostOne, OrgsOf
<1> QED BY <1>1, EndLands

LEMMA ReadProfileLands ==
    ASSUME TypeInv, RolesInv, NEW p \in Processes, ReadProfile(p)
    PROVE  Lands(p)
<1> DEFINE old == job[p].old
           member == users[old].type = "ORG"
           alone == [job[p] EXCEPT !.email = old, !.old = NoEmail]
           same == [job[p] EXCEPT !.old = NoEmail, !.copy = users[old], !.member = member]
           other == [job[p] EXCEPT !.copy = users[old], !.member = member]
<1>1. pc[p] = "readingProfile" /\ UNCHANGED <<users, forward>> /\ pc[p] \notin HalfWay
    BY DEF ReadProfile, tableVars, HalfWay
<1>2. job[p] \in Job /\ ShapeOK(pc[p], job[p]) /\ JobOK(pc[p], job[p])
    BY StandsAlone DEF TypeInv, UsersTypeOK, JobsOK
<1>3. job[p].kind = "login"
    BY <1>1, <1>2 DEF ShapeOK, LoginSteps
<1>4. CASE ~Exists(old)
    <2>1. Continue(p, "touching", alone)
        BY <1>4 DEF ReadProfile
    <2>2. Narrows(job[p], alone)
        BY <1>2 DEF Narrows, TouchedBy, Job
    <2>3. ShapeOK("touching", alone)
        BY <1>2, <1>3 DEF ShapeOK, Job, LoginSteps, RemovalSteps, AssignSteps
    <2>4. ~CopyFits(p)
        BY <1>1, <1>4 DEF CopyFits
    <2> QED BY <1>1, <2>1, <2>2, <2>3, <2>4, QuietLands DEF HalfWay
<1>5. CASE Exists(old) /\ old = job[p].email
    <2>1. Continue(p, "rewriting", same)
        BY <1>5 DEF ReadProfile
    <2>2. member \in BOOLEAN
        OBVIOUS
    <2> HIDE DEF member
    <2>3. /\ Narrows(job[p], same) /\ same.email = old /\ same.old = NoEmail /\ same.kind = "login"
          /\ same.copy = users[old] /\ same.member = member
        BY <1>2, <1>3, <1>5, <2>2 DEF Narrows, TouchedBy, Job
    <2>4. ShapeOK("rewriting", same)
        BY <2>3 DEF ShapeOK, LoginSteps, RemovalSteps, AssignSteps
    <2>5. CopyFits(p)'
        <3>1. pc'[p] = "rewriting" /\ job'[p] = same
            BY <2>1, Continues
        <3> HIDE DEF same
        <3>2. users' = users
            BY <1>1
        <3> QED BY <1>5, <2>3, <3>1, <3>2 DEF CopyFits, Exists, member, RemovalSteps, AssignSteps
    <2> QED BY <1>1, <2>1, <2>3, <2>4, <2>5, QuietLands DEF HalfWay
<1>6. CASE Exists(old) /\ old # job[p].email
    <2>1. Continue(p, "inserting", other)
        BY <1>6 DEF ReadProfile
    <2>2. member \in BOOLEAN
        OBVIOUS
    <2> HIDE DEF member
    <2>3. /\ Narrows(job[p], other) /\ other.email = job[p].email /\ other.old = old
          /\ other.kind = "login" /\ other.copy = users[old] /\ other.member = member
        BY <1>2, <1>3, <2>2 DEF Narrows, TouchedBy, Job
    <2>4. ShapeOK("inserting", other)
        BY <1>6, <2>3 DEF ShapeOK, LoginSteps, RemovalSteps, AssignSteps
    <2>5. CopyFits(p)'
        <3>1. pc'[p] = "inserting" /\ job'[p] = other
            BY <2>1, Continues
        <3> HIDE DEF other
        <3>2. users' = users
            BY <1>1
        <3> QED BY <1>6, <2>3, <3>1, <3>2 DEF CopyFits, Exists, member, RemovalSteps, AssignSteps
    <2> QED BY <1>1, <2>1, <2>3, <2>4, <2>5, QuietLands DEF HalfWay
<1> QED BY <1>4, <1>5, <1>6


LEMMA FindByEmailLands ==
    ASSUME TypeInv, RolesInv, NEW p \in Processes, FindByEmail(p)
    PROVE  Lands(p)
<1> DEFINE e == job[p].email
           member == users[e].type = "ORG"
           found == [job[p] EXCEPT !.member = member]
<1>1. /\ pc[p] = "byEmail" /\ pc[p] \notin HalfWay /\ users' = users
      /\ UNCHANGED <<users, forward>>
    BY DEF FindByEmail, tableVars, HalfWay
<1>2. job[p] \in Job /\ ShapeOK(pc[p], job[p])
    BY StandsAlone DEF TypeInv, UsersTypeOK
<1>3. job[p].kind = "login" /\ job[p].old = NoEmail /\ job[p].org = NoOrg
    BY <1>1, <1>2 DEF ShapeOK, LoginSteps
<1>4. CASE ~Exists(e)
    <2>1. Continue(p, "anyUsers", job[p])
        BY <1>4 DEF FindByEmail, GoTo
    <2>2. Narrows(job[p], job[p]) /\ ShapeOK("anyUsers", job[p])
        BY <1>3 DEF Narrows, ShapeOK, LoginSteps, RemovalSteps, AssignSteps
    <2>3. CopyFits(p)'
        <3>1. pc'[p] = "anyUsers" /\ job'[p] = job[p]
            BY <2>1, Continues
        <3> QED BY <1>3, <3>1 DEF CopyFits, RemovalSteps, AssignSteps
    <2> QED BY <1>1, <2>1, <2>2, <2>3, QuietLands DEF HalfWay
<1>5. ASSUME Exists(e), NEW step \in {"backfilling", "touching"}, Continue(p, step, found),
             step = "backfilling" => job[p].person # NoPerson
      PROVE  Lands(p)
    <2>1. member \in BOOLEAN
        OBVIOUS
    <2> HIDE DEF member
    <2>2. /\ Narrows(job[p], found) /\ found.email = e /\ found.old = NoEmail
          /\ found.kind = "login" /\ found.member = member /\ found.person = job[p].person
        BY <1>2, <1>3, <2>1 DEF Narrows, TouchedBy, Job
    <2>3. ShapeOK(step, found)
        BY <1>5, <2>2 DEF ShapeOK, LoginSteps, RemovalSteps, AssignSteps
    <2>4. CopyFits(p)'
        <3>1. pc'[p] = step /\ job'[p] = found
            BY <1>5, Continues
        <3> HIDE DEF found
        <3> QED BY <1>1, <1>5, <2>2, <3>1 DEF CopyFits, Exists, member, RemovalSteps, AssignSteps
    <2> QED BY <1>1, <1>5, <2>2, <2>3, <2>4, QuietLands DEF HalfWay
<1>6. CASE Exists(e)
    <2>1. Continue(p, IF job[p].person # NoPerson /\ users[e].entra = NoPerson
                      THEN "backfilling" ELSE "touching", found)
        BY <1>6 DEF FindByEmail
    <2>2. CASE job[p].person # NoPerson /\ users[e].entra = NoPerson
        BY <1>5, <1>6, <2>1, <2>2
    <2>3. CASE ~(job[p].person # NoPerson /\ users[e].entra = NoPerson)
        BY <1>5, <1>6, <2>1, <2>3
    <2> QED BY <2>2, <2>3
<1> QED BY <1>4, <1>6

LEMMA ReadToBackfillLands ==
    ASSUME TypeInv, RolesInv, NEW p \in Processes, ReadToBackfill(p)
    PROVE  Lands(p)
<1> DEFINE e == job[p].email
           row == [users[e] EXCEPT !.entra = job[p].person]
           found == [job[p] EXCEPT !.copy = row]
<1>1. /\ pc[p] = "backfilling" /\ pc[p] \notin HalfWay /\ users' = users
      /\ UNCHANGED <<users, forward>>
    BY DEF ReadToBackfill, tableVars, HalfWay
<1>2. job[p] \in Job /\ ShapeOK(pc[p], job[p]) /\ e \in Emails
    BY <1>1, StandsAlone DEF TypeInv, UsersTypeOK, JobsOK, JobOK
<1>3. job[p].kind = "login" /\ job[p].old = NoEmail /\ job[p].person # NoPerson
    BY <1>1, <1>2 DEF ShapeOK, LoginSteps
<1>4. CASE ~Exists(e)
    <2>1. Continue(p, "touching", job[p])
        BY <1>4 DEF ReadToBackfill, GoTo
    <2>2. Narrows(job[p], job[p]) /\ ShapeOK("touching", job[p])
        BY <1>3 DEF Narrows, ShapeOK, LoginSteps, RemovalSteps, AssignSteps
    <2>3. ~CopyFits(p)
        BY <1>1, <1>4 DEF CopyFits
    <2> QED BY <1>1, <2>1, <2>2, <2>3, QuietLands DEF HalfWay
<1>5. CASE Exists(e)
    <2>1. Continue(p, "storingId", found)
        BY <1>5 DEF ReadToBackfill
    <2>2. row \in UserRow /\ row.type = users[e].type /\ row.entra = job[p].person
        BY <1>2, <1>5 DEF Exists, TypeInv, UsersTypeOK, UserRow, Job
    <2> HIDE DEF row
    <2>3. /\ Narrows(job[p], found) /\ found.email = e /\ found.old = NoEmail
          /\ found.kind = "login" /\ found.copy = row /\ found.person = job[p].person
          /\ found.member = job[p].member
        BY <1>2, <1>3, <2>2 DEF Narrows, TouchedBy, Job
    <2>4. ShapeOK("storingId", found)
        BY <1>3, <2>3 DEF ShapeOK, LoginSteps, RemovalSteps, AssignSteps
    <2>5. CopyFits(p) => CopyFits(p)'
        <3>1. pc'[p] = "storingId" /\ job'[p] = found
            BY <2>1, Continues
        <3> HIDE DEF found
        <3> QED BY <1>1, <1>5, <2>2, <2>3, <3>1 DEF CopyFits, Exists, RemovalSteps, AssignSteps
    <2> QED BY <1>1, <2>1, <2>3, <2>4, <2>5, QuietLands DEF HalfWay
<1> QED BY <1>4, <1>5

\* From the time stamp on: an ORG user goes on to the memberships.
LEMMA ToMembershipLands ==
    ASSUME TypeInv, RolesInv, NEW p \in Processes, NEW new,
           pc[p] \in {"touching", "stamping"}, job[p].member,
           Continue(p, "membership", new), UNCHANGED <<users, forward>>,
           new = job[p] \/ new = [job[p] EXCEPT !.copy = NoUser]
    PROVE  Lands(p)
<1>1. pc[p] \notin HalfWay /\ pc[p] \in LoginSteps
    BY DEF HalfWay, LoginSteps
<1>2. job[p] \in Job /\ ShapeOK(pc[p], job[p])
    BY StandsAlone DEF TypeInv, UsersTypeOK
<1>3. job[p].kind = "login" /\ job[p].old = NoEmail
    BY <1>1, <1>2 DEF ShapeOK
<1>4. Narrows(job[p], new) /\ new.email = job[p].email /\ new.old = NoEmail /\ new.kind = "login"
    BY <1>2, <1>3 DEF Narrows, TouchedBy, Job
<1>5. ShapeOK("membership", new)
    BY <1>4 DEF ShapeOK, LoginSteps, RemovalSteps, AssignSteps
<1>6. pc'[p] = "membership" /\ job'[p] = new
    BY Continues
<1>7. CopyFits(p) => CopyFits(p)'
    BY <1>4, <1>6 DEF CopyFits, RemovalSteps, AssignSteps
<1> QED BY <1>1, <1>4, <1>5, <1>7, QuietLands DEF HalfWay

LEMMA ReadToStampLands ==
    ASSUME TypeInv, RolesInv, NEW p \in Processes, ReadToStamp(p)
    PROVE  Lands(p)
<1> DEFINE e == job[p].email
           found == [job[p] EXCEPT !.copy = users[e]]
<1>1. /\ pc[p] = "touching" /\ pc[p] \notin HalfWay /\ users' = users
      /\ UNCHANGED <<users, forward>>
    BY DEF ReadToStamp, tableVars, HalfWay
<1>2. job[p] \in Job /\ ShapeOK(pc[p], job[p])
    BY StandsAlone DEF TypeInv, UsersTypeOK
<1>3. job[p].kind = "login" /\ job[p].old = NoEmail
    BY <1>1, <1>2 DEF ShapeOK, LoginSteps
<1>4. CASE Exists(e)
    <2>1. Continue(p, "stamping", found)
        BY <1>4 DEF ReadToStamp
    <2>2. /\ Narrows(job[p], found) /\ found.email = e /\ found.old = NoEmail
          /\ found.kind = "login" /\ found.copy = users[e] /\ found.member = job[p].member
        BY <1>2, <1>3 DEF Narrows, TouchedBy, Job
    <2>3. ShapeOK("stamping", found)
        BY <2>2 DEF ShapeOK, LoginSteps, RemovalSteps, AssignSteps
    <2>4. CopyFits(p) => CopyFits(p)'
        <3>1. pc'[p] = "stamping" /\ job'[p] = found
            BY <2>1, Continues
        <3> HIDE DEF found
        <3> QED BY <1>1, <1>4, <2>2, <3>1 DEF CopyFits, Exists, RemovalSteps, AssignSteps
    <2> QED BY <1>1, <2>1, <2>2, <2>3, <2>4, QuietLands DEF HalfWay
<1>5. CASE ~Exists(e) /\ job[p].member
    <2>1. Continue(p, "membership", job[p])
        BY <1>5 DEF ReadToStamp, AfterStamp
    <2> QED BY <1>1, <1>5, <2>1, ToMembershipLands
<1>6. CASE ~Exists(e) /\ ~job[p].member
    <2>1. End(p)
        BY <1>6 DEF ReadToStamp, AfterStamp, End
    <2> QED BY <1>1, <2>1, QuietEndLands
<1> QED BY <1>4, <1>5, <1>6

LEMMA StampMissingLands ==
    ASSUME TypeInv, RolesInv, NEW p \in Processes, StampMissing(p)
    PROVE  Lands(p)
<1>1. pc[p] = "stamping" /\ pc[p] \notin HalfWay /\ UNCHANGED <<users, forward>>
    BY DEF StampMissing, tableVars, HalfWay
<1>2. CASE job[p].member
    BY <1>1, <1>2, ToMembershipLands DEF StampMissing
<1>3. CASE ~job[p].member
    BY <1>1, <1>3, QuietEndLands DEF StampMissing
<1> QED BY <1>2, <1>3

LEMMA LookForOrgLands ==
    ASSUME TypeInv, RolesInv, NEW p \in Processes, LookForOrg(p)
    PROVE  Lands(p)
<1> DEFINE e == job[p].email
<1>1. /\ pc[p] \in {"membership", "rechecking"} /\ pc[p] \notin HalfWay /\ users' = users
      /\ UNCHANGED <<users, forward>>
    BY DEF LookForOrg, tableVars, HalfWay
<1>2. ShapeOK(pc[p], job[p])
    BY StandsAlone
<1>3. job[p].kind = "login" /\ job[p].old = NoEmail
    BY <1>1, <1>2 DEF ShapeOK, LoginSteps
<1>4. CASE OrgsOf(e) # {}
    BY <1>1, <1>4, QuietEndLands DEF LookForOrg
<1>5. ASSUME OrgsOf(e) = {}, NEW step \in {"rechecking", "matching"}, Continue(p, step, job[p])
      PROVE  Lands(p)
    <2>1. Narrows(job[p], job[p]) /\ ShapeOK(step, job[p])
        BY <1>3 DEF Narrows, ShapeOK, LoginSteps, RemovalSteps, AssignSteps
    <2>2. pc'[p] = step /\ job'[p] = job[p]
        BY <1>5, Continues
    <2>3. CopyFits(p) => CopyFits(p)'
        BY <1>1, <1>3, <2>2 DEF CopyFits, RemovalSteps, AssignSteps
    <2> QED BY <1>1, <1>5, <2>1, <2>3, QuietLands DEF HalfWay
<1>6. CASE OrgsOf(e) = {}
    <2>1. \/ Continue(p, "rechecking", job[p]) \/ Continue(p, "matching", job[p])
        BY <1>6 DEF LookForOrg, GoTo
    <2> QED BY <1>5, <1>6, <2>1
<1> QED BY <1>4, <1>6

LEMMA AnyUsersLands ==
    ASSUME TypeInv, RolesInv, NEW p \in Processes, AnyUsers(p)
    PROVE  Lands(p)
<1> DEFINE row == [entra |-> job[p].person, type |-> "PLATFORM"]
           first == [job[p] EXCEPT !.copy = row]
<1>1. pc[p] = "anyUsers" /\ pc[p] \notin HalfWay /\ UNCHANGED <<users, forward>>
    BY DEF AnyUsers, tableVars, HalfWay
<1>2. job[p] \in Job /\ ShapeOK(pc[p], job[p])
    BY StandsAlone DEF TypeInv, UsersTypeOK
<1>3. job[p].kind = "login" /\ job[p].old = NoEmail /\ job[p].org = NoOrg
    BY <1>1, <1>2 DEF ShapeOK, LoginSteps
<1>4. CASE \E e \in Emails : Exists(e)
    <2>1. Continue(p, "matchingNew", job[p])
        BY <1>4 DEF AnyUsers, GoTo
    <2>2. Narrows(job[p], job[p]) /\ ShapeOK("matchingNew", job[p])
        BY <1>3 DEF Narrows, ShapeOK, LoginSteps, RemovalSteps, AssignSteps
    <2>3. pc'[p] = "matchingNew" /\ job'[p] = job[p]
        BY <2>1, Continues
    <2>4. CopyFits(p)'
        BY <1>3, <2>3 DEF CopyFits, RemovalSteps, AssignSteps
    <2> QED BY <1>1, <2>1, <2>2, <2>4, QuietLands DEF HalfWay
<1>5. CASE ~\E e \in Emails : Exists(e)
    <2>1. Continue(p, "creating", first)
        BY <1>5 DEF AnyUsers
    <2>2. row.type = "PLATFORM" /\ row.entra = job[p].person /\ row \in UserRow
        BY <1>2 DEF Job, UserRow
    <2> HIDE DEF row
    <2>3. /\ Narrows(job[p], first) /\ first.old = NoEmail /\ first.kind = "login"
          /\ first.copy = row /\ first.person = job[p].person /\ first.org = job[p].org
        BY <1>2, <1>3, <2>2 DEF Narrows, TouchedBy, Job
    <2>4. ShapeOK("creating", first)
        BY <1>3, <2>2, <2>3 DEF ShapeOK, LoginSteps, RemovalSteps, AssignSteps
    <2>5. pc'[p] = "creating" /\ job'[p] = first
        BY <2>1, Continues
    <2>6. CopyFits(p)'
        BY <2>3, <2>5 DEF CopyFits, RemovalSteps, AssignSteps
    <2> QED BY <1>1, <2>1, <2>3, <2>4, <2>6, QuietLands DEF HalfWay
<1> QED BY <1>4, <1>5


\* A step that goes on working on the same addresses.
LEMMA StepLands ==
    ASSUME TypeInv, RolesInv, NEW p \in Processes, NEW step, NEW new,
           Continue(p, step, new), TouchedBy(new) = TouchedBy(job[p]), ShapeOK(step, new),
           CopyFits(p) => CopyFits(p)',
           StageFits(p) /\ CopyFits(p) => StageFits(p)'
    PROVE  Lands(p)
<1>1. pc'[p] = step /\ job'[p] = new /\ Touches(p)' = Touches(p)
    BY Continues DEF Touches, TouchedBy
<1>2. ShapeOK(pc[p], job[p])'
    BY <1>1 DEF ShapeOK
<1> QED BY <1>1, <1>2, StandsAlone DEF Lands

LEMMA NotARow == NoUser \notin UserRow /\ NoUser.type # "ORG"
BY DEF NoUser, UserRow

LEMMA MatchDomainLands ==
    ASSUME TypeInv, RolesInv, NEW p \in Processes, MatchDomain(p)
    PROVE  Lands(p)
<1> DEFINE e == job[p].email
           orgs == DomainOrgs[e] \cap active
           org == Min(orgs)
           row == [entra |-> job[p].person, type |-> "ORG"]
           known == [job[p] EXCEPT !.org = org]
           novel == [job[p] EXCEPT !.org = org, !.copy = row]
<1>1. /\ pc[p] \in {"matchingNew", "matching"} /\ pc[p] \notin HalfWay /\ users' = users
      /\ UNCHANGED <<users, forward>>
    BY DEF MatchDomain, tableVars, HalfWay
<1>2. job[p] \in Job /\ ShapeOK(pc[p], job[p])
    BY StandsAlone DEF TypeInv, UsersTypeOK
<1>3. job[p].kind = "login" /\ job[p].old = NoEmail
    BY <1>1, <1>2 DEF ShapeOK, LoginSteps
<1>4. CASE orgs = {}
    BY <1>1, <1>4, QuietEndLands DEF MatchDomain
<1>5. orgs # {} => org \in Orgs
    <2>1. orgs \subseteq Orgs /\ Orgs \subseteq Nat
        BY UserAssumption DEF TypeInv, UsersTypeOK
    <2> HIDE DEF orgs
    <2> QED BY <2>1, MinIsMember
<1>6. CASE orgs # {} /\ pc[p] = "matching"
    <2>1. Continue(p, "assigning", known)
        BY <1>6 DEF MatchDomain
    <2> HIDE DEF org, orgs
    <2>2. /\ TouchedBy(known) = TouchedBy(job[p]) /\ known.email = e /\ known.old = NoEmail
          /\ known.kind = "login" /\ known.org = org
        BY <1>2, <1>3 DEF TouchedBy, Job
    <2>3. e # NoEmail
        BY <1>6, UserAssumption DEF TypeInv, JobsOK, JobOK
    <2>4. ShapeOK("assigning", known)
        BY <2>2, <2>3 DEF ShapeOK, LoginSteps, RemovalSteps, AssignSteps
    <2>5. pc'[p] = "assigning" /\ job'[p] = known
        BY <2>1, Continues
    <2> HIDE DEF known
    <2>6. CopyFits(p) => CopyFits(p)'
        BY <1>1, <1>3, <1>6, <2>2, <2>5, NotARow DEF CopyFits, Exists, RemovalSteps, AssignSteps
    <2>7. ASSUME StageFits(p), CopyFits(p) PROVE StageFits(p)'
        <3>1. OrgsOf(e) = {} /\ users[e].type = "ORG"
            BY <1>6, <2>7 DEF StageFits, CopyFits
        <3>2. OrgsOf(e)' = {} /\ users'[e].type = "ORG"
            BY <1>1, <2>2, <2>5, <3>1 DEF OrgsOf
        <3> QED BY <1>1, <2>2, <2>5, <3>2 DEF StageFits, HalfWay, RemovalSteps, AssignSteps
    <2> QED BY <2>1, <2>2, <2>4, <2>6, <2>7, StepLands
<1>7. CASE orgs # {} /\ pc[p] = "matchingNew"
    <2>1. Continue(p, "creating", novel)
        BY <1>7 DEF MatchDomain
    <2>2. row.type = "ORG" /\ row.entra = job[p].person /\ row \in UserRow
        BY <1>2 DEF Job, UserRow
    <2>3. org # NoOrg
        BY <1>5, <1>7, UserAssumption
    <2> HIDE DEF org, row
    <2>4. /\ Narrows(job[p], novel) /\ novel.old = NoEmail /\ novel.kind = "login"
          /\ novel.copy = row /\ novel.person = job[p].person /\ novel.org = org
        BY <1>2, <1>3, <1>5, <1>7, <2>2 DEF Narrows, TouchedBy, Job
    <2>5. ShapeOK("creating", novel)
        BY <2>2, <2>3, <2>4 DEF ShapeOK, LoginSteps, RemovalSteps, AssignSteps
    <2>6. pc'[p] = "creating" /\ job'[p] = novel
        BY <2>1, Continues
    <2>7. CopyFits(p)'
        BY <2>4, <2>6 DEF CopyFits, RemovalSteps, AssignSteps
    <2> QED BY <1>1, <2>1, <2>4, <2>5, <2>7, QuietLands DEF HalfWay
<1> QED BY <1>1, <1>4, <1>6, <1>7

\* Nobody has a membership at a free address that fits.
LEMMA FreeFits ==
    ASSUME NEW e, Fit(e), ~Exists(e)
    PROVE  OrgsOf(e) = {}
BY NotARow DEF Fit, Exists

LEMMA CreateLands ==
    ASSUME TypeInv, RolesInv, NEW p \in Processes, Create(p)
    PROVE  Lands(p)
<1> DEFINE e == job[p].email
           free == [job[p] EXCEPT !.copy = NoUser]
<1>1. /\ pc[p] = "creating" /\ pc[p] \notin HalfWay /\ ~Exists(e)
      /\ forward' = forward
    BY DEF Create, HalfWay
<1>2. job[p] \in Job /\ ShapeOK(pc[p], job[p]) /\ JobOK(pc[p], job[p])
    BY StandsAlone DEF TypeInv, UsersTypeOK, JobsOK
<1>3. /\ job[p].kind \in {"login", "create"} /\ job[p].old = NoEmail
      /\ job[p].org # NoOrg => job[p].copy.type = "ORG"
      /\ e \in Emails /\ job[p].copy \in UserRow
    BY <1>1, <1>2 DEF ShapeOK, JobOK
<1>4. users'[e] = job[p].copy
    BY <1>3 DEF Create, TypeInv, UsersTypeOK
<1>5. Touches(p) = {e} /\ e # NoEmail
    BY <1>3, UserAssumption DEF Touches
<1>6. ASSUME StageFits(p) PROVE OrgsOf(e) = {}
    <2>1. Fit(e)
        BY <1>1, <1>5, <1>6 DEF StageFits
    <2> QED BY <1>1, <2>1, FreeFits
<1>0. \A f : OrgsOf(f)' = OrgsOf(f)
    BY <1>1 DEF OrgsOf
<1>7. CASE job[p].org = NoOrg
    <2>1. End(p)
        BY <1>7 DEF Create
    <2>2. ASSUME Outside(p, disturbed) PROVE \A f \in Touches(p) : Fit(f)'
        <3>1. OrgsOf(e) = {}
            BY <1>6, <2>2, StandsAlone
        <3>2. \A f \in Touches(p) : OrgsOf(f)' = {}
            BY <1>0, <1>5, <3>1
        <3> QED BY <3>2 DEF Fit, AtMostOne
    <2> QED BY <2>1, <2>2, EndLands
<1>8. CASE job[p].org # NoOrg
    <2>1. Continue(p, "assigning", free)
        BY <1>8 DEF Create
    <2>2. /\ TouchedBy(free) = TouchedBy(job[p]) /\ free.email = e /\ free.old = NoEmail
          /\ free.kind = job[p].kind /\ free.org = job[p].org
        BY <1>2, <1>3 DEF TouchedBy, Job
    <2>3. ShapeOK("assigning", free)
        BY <1>3, <1>5, <2>2 DEF ShapeOK, LoginSteps, RemovalSteps, AssignSteps
    <2>4. pc'[p] = "assigning" /\ job'[p] = free
        BY <2>1, Continues
    <2> HIDE DEF free
    <2>5. users'[e].type = "ORG" /\ users'[e] # NoUser
        BY <1>3, <1>4, <1>8, NotARow
    <2>6. CopyFits(p)'
        BY <1>3, <2>2, <2>4, <2>5 DEF CopyFits, Exists, RemovalSteps, AssignSteps
    <2>7. ASSUME StageFits(p) PROVE StageFits(p)'
        <3>1. OrgsOf(job[p].email)' = {}
            BY <1>0, <1>6, <2>2, <2>4, <2>7
        <3> QED BY <1>3, <2>2, <2>4, <2>5, <3>1 DEF StageFits, HalfWay, RemovalSteps, AssignSteps
    <2> QED BY <2>1, <2>2, <2>3, <2>6, <2>7, StepLands
<1> QED BY <1>7, <1>8


LEMMA InsertMigratedLands ==
    ASSUME TypeInv, RolesInv, NEW p \in Processes, InsertMigrated(p)
    PROVE  Lands(p)
<1> DEFINE e == job[p].email
           old == job[p].old
           free == [job[p] EXCEPT !.copy = NoUser]
<1>1. /\ pc[p] = "inserting" /\ pc[p] \notin HalfWay /\ ~Exists(e)
      /\ Continue(p, "deletingOld", free)
    BY DEF InsertMigrated, HalfWay
<1>2. job[p] \in Job /\ ShapeOK(pc[p], job[p]) /\ JobOK(pc[p], job[p])
    BY StandsAlone DEF TypeInv, UsersTypeOK, JobsOK
<1>3. /\ job[p].kind = "login" /\ old # e /\ old \in Emails /\ e \in Emails
      /\ job[p].copy \in UserRow
    BY <1>1, <1>2 DEF ShapeOK, JobOK, LoginSteps
<1>4. users'[e] = job[p].copy /\ users'[old] = users[old]
    BY <1>3 DEF InsertMigrated, TypeInv, UsersTypeOK
<1>5. \A f : OrgsOf(f)' = OrgsOf(f)
    BY DEF InsertMigrated, OrgsOf
<1>6. e \in Touches(p) /\ old \in Touches(p)
    BY <1>3, UserAssumption DEF Touches
<1>7. /\ TouchedBy(free) = TouchedBy(job[p]) /\ free.email = e /\ free.old = old
      /\ free.kind = "login" /\ free.member = job[p].member
    BY <1>2, <1>3 DEF TouchedBy, Job
<1>8. ShapeOK("deletingOld", free)
    BY <1>3, <1>7 DEF ShapeOK, LoginSteps, RemovalSteps, AssignSteps
<1>9. pc'[p] = "deletingOld" /\ job'[p] = free
    BY <1>1, Continues
<1> HIDE DEF free
<1>10. CopyFits(p) => CopyFits(p)'
    BY <1>1, <1>3, <1>4, <1>7, <1>9, NotARow DEF CopyFits, Exists, RemovalSteps, AssignSteps
<1>11. ASSUME StageFits(p) PROVE StageFits(p)'
    <2>1. OrgsOf(e) = {} /\ Fit(old)
        BY <1>1, <1>6, <1>11, FreeFits DEF StageFits
    <2>2. OrgsOf(job[p].email)' = {} /\ Fit(job[p].old)'
        BY <1>4, <1>5, <1>7, <1>9, <2>1 DEF Fit, AtMostOne
    <2> QED BY <1>9, <2>2 DEF StageFits, HalfWay, RemovalSteps, AssignSteps
<1> QED BY <1>1, <1>7, <1>8, <1>10, <1>11, StepLands

LEMMA DeleteOldLands ==
    ASSUME TypeInv, RolesInv, NEW p \in Processes, DeleteOld(p)
    PROVE  Lands(p)
<1> DEFINE e == job[p].email
           old == job[p].old
<1>1. pc[p] = "deletingOld" /\ Continue(p, "findingOrg", job[p])
    BY DEF DeleteOld, GoTo
<1>2. job[p] \in Job /\ ShapeOK(pc[p], job[p]) /\ JobOK(pc[p], job[p])
    BY StandsAlone DEF TypeInv, UsersTypeOK, JobsOK
<1>3. /\ job[p].kind = "login" /\ old # e /\ old \in Emails /\ e \in Emails /\ old # NoEmail
    BY <1>1, <1>2, UserAssumption DEF ShapeOK, JobOK, LoginSteps
<1>4. users'[e] = users[e]
    BY <1>3 DEF DeleteOld, TypeInv, UsersTypeOK
<1>5. \A f : OrgsOf(f)' = OrgsOf(f)
    BY DEF DeleteOld, OrgsOf
<1>6. ShapeOK("findingOrg", job[p])
    BY <1>3 DEF ShapeOK, LoginSteps, RemovalSteps, AssignSteps
<1>7. pc'[p] = "findingOrg" /\ job'[p] = job[p]
    BY <1>1, Continues
<1>8. CopyFits(p) => CopyFits(p)'
    BY <1>1, <1>3, <1>4, <1>7 DEF CopyFits, Exists, RemovalSteps, AssignSteps
<1>9. ASSUME StageFits(p), CopyFits(p) PROVE StageFits(p)'
    <2>1. OrgsOf(e) = {} /\ Fit(old) /\ users[e] = users[old]
        BY <1>1, <1>9 DEF StageFits, CopyFits
    <2>2. Subject(p)' = old
        BY <1>3, <1>7 DEF Subject
    <2>3. /\ OrgsOf(job[p].email)' = {} /\ AtMostOne(Subject(p))'
          /\ OrgsOf(job[p].old)' # {} => users'[e].type = "ORG"
        BY <1>4, <1>5, <1>7, <2>1, <2>2 DEF Fit, AtMostOne
    <2> QED BY <1>3, <1>7, <2>3 DEF StageFits, HalfWay, RemovalSteps, AssignSteps
<1> QED BY <1>1, <1>6, <1>8, <1>9, StepLands

LEMMA DeleteRowLands ==
    ASSUME TypeInv, RolesInv, NEW p \in Processes, DeleteRow(p)
    PROVE  Lands(p)
<1> DEFINE e == job[p].email
<1>1. pc[p] = "deletingUser" /\ pc[p] \notin HalfWay /\ Continue(p, "findingOrg", job[p])
    BY DEF DeleteRow, GoTo, HalfWay
<1>2. ShapeOK(pc[p], job[p]) /\ JobOK(pc[p], job[p])
    BY StandsAlone DEF TypeInv, JobsOK
<1>3. job[p].kind = "delete" /\ job[p].old = NoEmail /\ e \in Emails
    BY <1>1, <1>2 DEF ShapeOK, JobOK
<1>4. \A f : OrgsOf(f)' = OrgsOf(f)
    BY DEF DeleteRow, OrgsOf
<1>5. e \in Touches(p)
    BY <1>3, UserAssumption DEF Touches
<1>6. ShapeOK("findingOrg", job[p])
    BY <1>3 DEF ShapeOK, LoginSteps, RemovalSteps, AssignSteps
<1>7. pc'[p] = "findingOrg" /\ job'[p] = job[p]
    BY <1>1, Continues
<1>8. CopyFits(p) => CopyFits(p)'
    BY <1>1, <1>3, <1>7 DEF CopyFits, Exists, RemovalSteps, AssignSteps
<1>9. ASSUME StageFits(p) PROVE StageFits(p)'
    <2>1. Fit(e)
        BY <1>1, <1>5, <1>9 DEF StageFits
    <2>2. Subject(p)' = e
        BY <1>3, <1>7 DEF Subject
    <2>3. AtMostOne(Subject(p))'
        BY <1>4, <2>1, <2>2 DEF Fit, AtMostOne
    <2> QED BY <1>3, <1>7, <2>3 DEF StageFits, HalfWay, RemovalSteps, AssignSteps
<1> QED BY <1>1, <1>6, <1>8, <1>9, StepLands

LEMMA MergedRow ==
    ASSUME NEW row \in UserRow \cup {NoUser}, NEW new \in UserRow
    PROVE  /\ Merged(row, new).type = new.type /\ Merged(row, new) # NoUser
           /\ Merged(row, new).entra = IF new.entra = NoPerson THEN row.entra ELSE new.entra
<1>1. Merged(row, new) # NoUser
    BY MergedType, NotARow
<1>2. /\ Merged(row, new).type = new.type
      /\ Merged(row, new).entra = IF new.entra = NoPerson THEN row.entra ELSE new.entra
    BY DEF Merged, UserRow
<1> QED BY <1>1, <1>2

\* What a store writes: the role of the copy.
LEMMA Stores ==
    ASSUME TypeInv, RolesInv, NEW p \in Processes, Store(p)
    PROVE  /\ job[p].email \in Emails /\ job[p].old = NoEmail /\ job[p].copy \in UserRow
           /\ Touches(p) = {job[p].email}
           /\ users' = [users EXCEPT ![job[p].email] = Merged(users[job[p].email], job[p].copy)]
           /\ users'[job[p].email].type = job[p].copy.type
           /\ users'[job[p].email] # NoUser
           /\ \A f : OrgsOf(f)' = OrgsOf(f)
           /\ pc[p] # "storing" /\ CopyFits(p) =>
                  users'[job[p].email].type = users[job[p].email].type
<1>1. pc[p] \in StoreSteps /\ ShapeOK(pc[p], job[p]) /\ JobOK(pc[p], job[p])
    BY StandsAlone DEF Store, TypeInv, JobsOK
<1>2. job[p].email \in Emails /\ job[p].old = NoEmail /\ job[p].copy \in UserRow
    BY <1>1 DEF StoreSteps, ShapeOK, JobOK, LoginSteps
<1>3. users' = [users EXCEPT ![job[p].email] = Merged(users[job[p].email], job[p].copy)]
    BY DEF Store
<1>4. users'[job[p].email] = Merged(users[job[p].email], job[p].copy)
    BY <1>2, <1>3 DEF TypeInv, UsersTypeOK
<1>5. users'[job[p].email].type = job[p].copy.type /\ users'[job[p].email] # NoUser
    BY <1>2, <1>4, MergedRow DEF TypeInv, UsersTypeOK
<1>6. Touches(p) = {job[p].email}
    BY <1>2, UserAssumption DEF Touches
<1>7. pc[p] # "storing" /\ CopyFits(p) => job[p].copy.type = users[job[p].email].type
    BY <1>1 DEF CopyFits, StoreSteps
<1>8. \A f : OrgsOf(f)' = OrgsOf(f)
    BY DEF Store, OrgsOf
<1> QED BY <1>2, <1>3, <1>5, <1>6, <1>7, <1>8

LEMMA StoreLands ==
    ASSUME TypeInv, RolesInv, NEW p \in Processes, Store(p)
    PROVE  Lands(p)
<1> DEFINE e == job[p].email
           free == [job[p] EXCEPT !.copy = NoUser]
<1>1. job[p] \in Job /\ ShapeOK(pc[p], job[p]) /\ pc[p] \in StoreSteps
    BY StandsAlone DEF TypeInv, UsersTypeOK, Store
<1>2. /\ job[p].old = NoEmail /\ Touches(p) = {e}
      /\ users'[e].type = job[p].copy.type /\ users'[e] # NoUser
      /\ \A f : OrgsOf(f)' = OrgsOf(f)
      /\ pc[p] # "storing" /\ CopyFits(p) => users'[e].type = users[e].type
    BY Stores
<1>3. ASSUME NEW step \in {"touching", "membership"}, Continue(p, step, free),
             pc[p] # "storing", step = "membership" => job[p].member
      PROVE  Lands(p)
    <2>1. pc[p] \in {"rewriting", "storingId", "stamping"}
        BY <1>1, <1>3 DEF StoreSteps
    <2>2. job[p].kind = "login"
        BY <1>1, <2>1 DEF ShapeOK, LoginSteps
    <2>3. /\ TouchedBy(free) = TouchedBy(job[p]) /\ free.email = e /\ free.old = NoEmail
          /\ free.kind = "login" /\ free.member = job[p].member
        BY <1>1, <1>2, <2>2 DEF TouchedBy, Job
    <2>4. ShapeOK(step, free)
        BY <2>3 DEF ShapeOK, LoginSteps, RemovalSteps, AssignSteps
    <2>5. pc'[p] = step /\ job'[p] = free
        BY <1>3, Continues
    <2> HIDE DEF free
    <2>6. CopyFits(p) => CopyFits(p)'
        BY <1>2, <1>3, <2>1, <2>3, <2>5 DEF CopyFits, Exists, RemovalSteps, AssignSteps
    <2>7. ASSUME StageFits(p), CopyFits(p) PROVE StageFits(p)'
        <3>1. Fit(e)
            BY <1>2, <2>1, <2>7 DEF StageFits, HalfWay
        <3>2. Touches(p)' = {e}
            BY <1>2, <2>3, <2>5 DEF Touches, TouchedBy
        <3>3. \A f \in Touches(p)' : Fit(f)'
            BY <1>2, <1>3, <2>7, <3>1, <3>2 DEF Fit, AtMostOne
        <3> QED BY <2>5, <3>3 DEF StageFits, HalfWay, RemovalSteps, AssignSteps
    <2> QED BY <1>3, <2>3, <2>4, <2>6, <2>7, StepLands
<1>4. CASE pc[p] \in {"rewriting", "storingId"}
    BY <1>3, <1>4 DEF Store
<1>5. CASE pc[p] = "stamping" /\ job[p].member
    BY <1>3, <1>5 DEF Store
<1>6. CASE pc[p] \notin {"rewriting", "storingId"} /\ ~(pc[p] = "stamping" /\ job[p].member)
    <2>1. End(p)
        BY <1>6 DEF Store
    <2>2. ASSUME Outside(p, disturbed) PROVE \A f \in Touches(p) : Fit(f)'
        <3>1. StageFits(p) /\ CopyFits(p)
            BY <2>2, StandsAlone
        <3>2. CASE pc[p] = "stamping"
            <4>1. Fit(e)
                BY <1>2, <3>1, <3>2 DEF StageFits, HalfWay
            <4> QED BY <1>2, <3>1, <3>2, <4>1 DEF Fit, AtMostOne
        <3>3. CASE pc[p] = "storing"
            <4>1. /\ AtMostOne(e)
                  /\ job[p].kind = "promote" => OrgsOf(e) = {}
                  /\ job[p].kind = "edit" => Fit(e) /\ job[p].copy = users[e]
                  /\ job[p].kind = "demote" => job[p].copy.type = "ORG"
                  /\ job[p].kind \in {"promote", "demote", "edit"}
                BY <1>1, <3>1, <3>3 DEF StageFits, CopyFits, ShapeOK
            <4>2. AtMostOne(e) /\ (OrgsOf(e) # {} => users'[e].type = "ORG")
                BY <1>2, <4>1 DEF Fit
            <4> QED BY <1>2, <4>2 DEF Fit, AtMostOne
        <3> QED BY <1>1, <1>6, <3>2, <3>3 DEF StoreSteps
    <2> QED BY <2>1, <2>2, EndLands
<1> QED BY <1>4, <1>5, <1>6


LEMMA AssignLands ==
    ASSUME TypeInv, RolesInv, NEW p \in Processes, Assign(p)
    PROVE  Lands(p)
<1> DEFINE e == job[p].email
           old == job[p].old
<1>1. /\ pc[p] = "assigning" /\ Continue(p, "mirroring", job[p]) /\ users' = users
      /\ forward' = forward \cup {<<e, job[p].org>>}
    BY DEF Assign, GoTo
<1>2. ShapeOK(pc[p], job[p])
    BY StandsAlone
<1>3. ShapeOK("mirroring", job[p]) /\ (old # NoEmail => old # e)
    BY <1>1, <1>2 DEF ShapeOK, LoginSteps, RemovalSteps, AssignSteps
<1>4. pc'[p] = "mirroring" /\ job'[p] = job[p]
    BY <1>1, Continues
<1>5. /\ \A f : f # e => OrgsOf(f)' = OrgsOf(f)
      /\ \A f : f = e => OrgsOf(f)' \subseteq OrgsOf(f) \cup {job[p].org}
    BY <1>1 DEF OrgsOf
<1>6. CopyFits(p) => CopyFits(p)'
    BY <1>1, <1>4 DEF CopyFits, Exists, RemovalSteps, AssignSteps
<1>7. ASSUME StageFits(p) PROVE StageFits(p)'
    <2>1. /\ OrgsOf(e) = {} /\ (old # NoEmail => OrgsOf(old) = {})
          /\ job[p].kind # "demote" => users[e].type = "ORG"
        BY <1>1, <1>7 DEF StageFits, AssignSteps
    <2>2. OrgsOf(job[p].email)' \subseteq {job[p].org}
        BY <1>4, <1>5, <2>1
    <2>3. old # NoEmail => OrgsOf(job[p].old)' = {}
        BY <1>3, <1>4, <1>5, <2>1
    <2> QED BY <1>1, <1>4, <2>1, <2>2, <2>3 DEF StageFits, HalfWay, RemovalSteps, AssignSteps
<1> QED BY <1>1, <1>3, <1>6, <1>7, StepLands

\* A login ends the move of its memberships and goes on under the new address.
LEMMA MovedLands ==
    ASSUME TypeInv, RolesInv, NEW p \in Processes, NEW new,
           pc[p] \in {"findingOrg", "mirroring"}, job[p].kind = "login", job[p].old # NoEmail,
           Continue(p, "touching", new), UNCHANGED <<users, forward>>,
           new.email = job[p].email, new.old = NoEmail, new.kind = "login",
           new.member = job[p].member,
           StageFits(p) => /\ OrgsOf(job[p].old) = {}
                           /\ Fit(job[p].email)
    PROVE  Lands(p)
<1> DEFINE e == job[p].email
<1>1. pc'[p] = "touching" /\ job'[p] = new
    BY Continues
<1>2. ShapeOK(pc[p], job[p])'
    BY <1>1 DEF ShapeOK, LoginSteps, RemovalSteps, AssignSteps
<1>3. CopyFits(p) => CopyFits(p)'
    BY <1>1 DEF CopyFits, Exists, RemovalSteps, AssignSteps
<1>4. \A f : OrgsOf(f)' = OrgsOf(f) /\ (Fit(f)' <=> Fit(f))
    BY DEF OrgsOf, Fit, AtMostOne
<1>5. \A f \in Touches(p) : f = e \/ f = job[p].old
    BY DEF Touches
<1>6. \A f \in Touches(p)' : f = e
    BY <1>1 DEF Touches
<1>7. ASSUME StageFits(p) PROVE StageFits(p)' /\ \A f \in Touches(p) : Fit(f)'
    <2>1. Fit(e) /\ OrgsOf(job[p].old) = {}
        BY <1>7
    <2>2. Fit(job[p].old)
        BY <2>1 DEF Fit, AtMostOne
    <2>3. \A f \in Touches(p) : Fit(f)'
        BY <1>4, <1>5, <2>1, <2>2
    <2>4. \A f \in Touches(p)' : Fit(f)'
        BY <1>4, <1>6, <2>1
    <2> QED BY <1>1, <2>3, <2>4 DEF StageFits, HalfWay, RemovalSteps, AssignSteps
<1> QED BY <1>2, <1>3, <1>7, StandsAlone DEF Lands

LEMMA MirrorLands ==
    ASSUME TypeInv, RolesInv, NEW p \in Processes, Mirror(p)
    PROVE  Lands(p)
<1> DEFINE e == job[p].email
           old == job[p].old
           moved == [job[p] EXCEPT !.old = NoEmail, !.org = NoOrg]
<1>1. pc[p] = "mirroring" /\ users' = users /\ forward' = forward
    BY DEF Mirror
<1>2. job[p] \in Job /\ ShapeOK(pc[p], job[p])
    BY StandsAlone DEF TypeInv, UsersTypeOK
<1>3. \/ job[p].kind = "login" /\ old # e
      \/ job[p].kind \in {"create", "demote"} /\ old = NoEmail
    BY <1>1, <1>2 DEF ShapeOK, AssignSteps
<1>4. \A f : OrgsOf(f)' = OrgsOf(f)
    BY <1>1 DEF OrgsOf
<1>5. StageFits(p) => /\ OrgsOf(e) \subseteq {job[p].org} /\ (old # NoEmail => OrgsOf(old) = {})
                      /\ job[p].kind # "demote" => users[e].type = "ORG"
    BY <1>1 DEF StageFits, AssignSteps
<1>6. CASE job[p].kind = "demote"
    <2>1. Continue(p, "storing", job[p])
        BY <1>6 DEF Mirror, GoTo
    <2>2. ShapeOK("storing", job[p])
        BY <1>2, <1>3, <1>6 DEF ShapeOK, LoginSteps, RemovalSteps, AssignSteps
    <2>3. pc'[p] = "storing" /\ job'[p] = job[p]
        BY <2>1, Continues
    <2>4. CopyFits(p) => CopyFits(p)'
        BY <1>1, <1>6, <2>3 DEF CopyFits, Exists, RemovalSteps, AssignSteps
    <2>5. ASSUME StageFits(p) PROVE StageFits(p)'
        <3>1. AtMostOne(job[p].email)'
            BY <1>4, <1>5, <2>3, <2>5 DEF AtMostOne
        <3> QED BY <1>6, <2>3, <3>1 DEF StageFits, HalfWay, RemovalSteps, AssignSteps
    <2> QED BY <2>1, <2>2, <2>4, <2>5, StepLands
<1>7. CASE job[p].kind = "login" /\ old # NoEmail
    <2>1. Continue(p, "touching", moved)
        BY <1>7 DEF Mirror
    <2>2. moved.email = e /\ moved.old = NoEmail /\ moved.kind = "login" /\ moved.member = job[p].member
        BY <1>2, <1>7 DEF Job
    <2>3. StageFits(p) => OrgsOf(job[p].old) = {} /\ Fit(job[p].email)
        BY <1>5, <1>7 DEF Fit, AtMostOne
    <2> HIDE DEF moved
    <2> QED BY <1>1, <1>7, <2>1, <2>2, <2>3, MovedLands
<1>8. CASE job[p].kind # "demote" /\ ~(job[p].kind = "login" /\ old # NoEmail)
    <2>1. End(p)
        BY <1>8 DEF Mirror
    <2>2. \A f \in Touches(p) : f = e
        BY <1>3, <1>8 DEF Touches
    <2>3. ASSUME Outside(p, disturbed) PROVE \A f \in Touches(p) : Fit(f)'
        <3>1. OrgsOf(e) \subseteq {job[p].org} /\ users[e].type = "ORG"
            BY <1>5, <1>8, <2>3, StandsAlone
        <3> QED BY <1>1, <1>4, <2>2, <3>1 DEF Fit, AtMostOne
    <2> QED BY <2>1, <2>3, EndLands
<1> QED BY <1>6, <1>7, <1>8

\* The memberships of the subject are gone.
LEMMA AfterRemovalLands ==
    ASSUME TypeInv, RolesInv, NEW p \in Processes, AfterRemoval(p), UNCHANGED <<users, forward>>,
           pc[p] \in {"findingOrg", "removingReverse"},
           job[p].kind = "login" => pc[p] = "removingReverse",
           StageFits(p) => OrgsOf(Subject(p)) = {}
    PROVE  Lands(p)
<1> DEFINE e == job[p].email
           old == job[p].old
           loose == [job[p] EXCEPT !.org = NoOrg]
<1>1. job[p] \in Job /\ ShapeOK(pc[p], job[p])
    BY StandsAlone DEF TypeInv, UsersTypeOK
<1>2. \/ job[p].kind = "login" /\ old # NoEmail /\ old # e
      \/ job[p].kind \in {"promote", "delete"} /\ old = NoEmail
    BY <1>1 DEF ShapeOK, RemovalSteps
<1>3. \A f : OrgsOf(f)' = OrgsOf(f)
    BY DEF OrgsOf
<1>4. CASE job[p].kind = "login"
    <2>1. Continue(p, "assigning", job[p])
        BY <1>4 DEF AfterRemoval, GoTo
    <2>2. ShapeOK("assigning", job[p])
        BY <1>1, <1>2, <1>4 DEF ShapeOK, LoginSteps, RemovalSteps, AssignSteps
    <2>3. pc'[p] = "assigning" /\ job'[p] = job[p]
        BY <2>1, Continues
    <2>4. CopyFits(p) => CopyFits(p)'
        BY <1>4, <2>3 DEF CopyFits, Exists, RemovalSteps, AssignSteps
    <2>5. ASSUME StageFits(p) PROVE StageFits(p)'
        <3>1. OrgsOf(e) = {} /\ OrgsOf(old) = {} /\ users[e].type = "ORG"
            BY <1>2, <1>4, <2>5 DEF StageFits, Subject, RemovalSteps
        <3>2. OrgsOf(job[p].email)' = {} /\ OrgsOf(job[p].old)' = {}
            BY <1>3, <2>3, <3>1
        <3> QED BY <2>3, <3>1, <3>2 DEF StageFits, HalfWay, RemovalSteps, AssignSteps
    <2> QED BY <2>1, <2>2, <2>4, <2>5, StepLands
<1>5. CASE job[p].kind = "promote"
    <2>1. Continue(p, "storing", loose)
        BY <1>5 DEF AfterRemoval
    <2>2. /\ TouchedBy(loose) = TouchedBy(job[p]) /\ loose.email = e /\ loose.old = NoEmail
          /\ loose.kind = "promote" /\ loose.copy = job[p].copy
        BY <1>1, <1>2, <1>5 DEF TouchedBy, Job
    <2>3. ShapeOK("storing", loose)
        BY <1>1, <1>5, <2>2 DEF ShapeOK, LoginSteps, RemovalSteps, AssignSteps
    <2>4. pc'[p] = "storing" /\ job'[p] = loose
        BY <2>1, Continues
    <2> HIDE DEF loose
    <2>5. CopyFits(p) => CopyFits(p)'
        BY <1>5, <2>2, <2>4 DEF CopyFits, Exists, RemovalSteps, AssignSteps
    <2>6. ASSUME StageFits(p) PROVE StageFits(p)'
        <3>1. OrgsOf(e) = {}
            BY <1>2, <1>5, <2>6 DEF Subject
        <3>2. OrgsOf(job[p].email)' = {} /\ AtMostOne(job[p].email)'
            BY <1>3, <2>2, <2>4, <3>1 DEF AtMostOne
        <3> QED BY <2>2, <2>4, <3>2 DEF StageFits, HalfWay, RemovalSteps, AssignSteps
    <2> QED BY <2>1, <2>2, <2>3, <2>5, <2>6, StepLands
<1>6. CASE job[p].kind = "delete"
    <2>1. End(p)
        BY <1>6 DEF AfterRemoval
    <2>2. \A f \in Touches(p) : f = e
        BY <1>2, <1>6 DEF Touches
    <2>3. ASSUME Outside(p, disturbed) PROVE \A f \in Touches(p) : Fit(f)'
        <3>1. OrgsOf(e) = {}
            BY <1>2, <1>6, <2>3, StandsAlone DEF Subject
        <3> QED BY <1>3, <2>2, <3>1 DEF Fit, AtMostOne
    <2> QED BY <2>1, <2>3, EndLands
<1> QED BY <1>2, <1>4, <1>5, <1>6

LEMMA FindOrgLands ==
    ASSUME TypeInv, RolesInv, NEW p \in Processes, FindOrg(p)
    PROVE  Lands(p)
<1> DEFINE e == job[p].email
           old == job[p].old
           orgs == OrgsOf(Subject(p))
           org == Min(orgs)
           found == [job[p] EXCEPT !.org = org]
           moved == [job[p] EXCEPT !.old = NoEmail]
<1>1. pc[p] = "findingOrg" /\ users' = users /\ UNCHANGED <<users, forward>>
    BY DEF FindOrg, tableVars
<1>2. job[p] \in Job /\ ShapeOK(pc[p], job[p])
    BY StandsAlone DEF TypeInv, UsersTypeOK
<1>3. \/ job[p].kind = "login" /\ old # NoEmail /\ old # e
      \/ job[p].kind \in {"promote", "delete"} /\ old = NoEmail
    BY <1>1, <1>2 DEF ShapeOK, RemovalSteps
<1>4. CASE orgs # {}
    <2>1. Continue(p, "removingForward", found)
        BY <1>4 DEF FindOrg
    <2>2. org \in orgs
        BY <1>4, OrgsOfOrgs
    <2> HIDE DEF org
    <2>3. /\ TouchedBy(found) = TouchedBy(job[p]) /\ found.email = e /\ found.old = old
          /\ found.kind = job[p].kind /\ found.copy = job[p].copy /\ found.org = org
          /\ found.member = job[p].member
        BY <1>2 DEF TouchedBy, Job
    <2>4. ShapeOK("removingForward", found)
        BY <1>2, <1>3, <2>3 DEF ShapeOK, LoginSteps, RemovalSteps, AssignSteps
    <2>5. pc'[p] = "removingForward" /\ job'[p] = found
        BY <2>1, Continues
    <2> HIDE DEF found
    <2>6. CopyFits(p) => CopyFits(p)'
        BY <1>1, <2>3, <2>5 DEF CopyFits, Exists, RemovalSteps, AssignSteps
    <2>7. ASSUME StageFits(p) PROVE StageFits(p)'
        <3>1. Subject(p)' = Subject(p)
            BY <2>3, <2>5 DEF Subject
        <3>2. \A f : OrgsOf(f)' = OrgsOf(f)
            BY <1>1 DEF OrgsOf
        <3>3. orgs \subseteq {org} /\ AtMostOne(Subject(p))
            BY <1>1, <2>2, <2>7 DEF StageFits, AtMostOne, RemovalSteps
        <3>4. job[p].kind = "login" => OrgsOf(e) = {} /\ users[e].type = "ORG"
            BY <1>1, <1>3, <1>4, <2>7 DEF StageFits, Subject, RemovalSteps
        <3>5. OrgsOf(Subject(p))' \subseteq {org} /\ AtMostOne(Subject(p))'
            BY <3>1, <3>2, <3>3 DEF AtMostOne
        <3>6. job[p].kind = "login" => OrgsOf(job[p].email)' = {} /\ users'[e].type = "ORG"
            BY <1>1, <2>3, <2>5, <3>2, <3>4
        <3> QED BY <2>3, <2>5, <3>5, <3>6 DEF StageFits, HalfWay, RemovalSteps, AssignSteps
    <2> QED BY <2>1, <2>3, <2>4, <2>6, <2>7, StepLands
<1>5. CASE orgs = {} /\ job[p].kind = "login"
    <2>1. Continue(p, "touching", moved)
        BY <1>5 DEF FindOrg
    <2>2. moved.email = e /\ moved.old = NoEmail /\ moved.kind = "login" /\ moved.member = job[p].member
        BY <1>2, <1>5 DEF Job
    <2>3. StageFits(p) => OrgsOf(job[p].old) = {} /\ Fit(job[p].email)
        BY <1>1, <1>3, <1>5 DEF Fit, AtMostOne, StageFits, Subject, RemovalSteps
    <2> HIDE DEF moved
    <2> QED BY <1>1, <1>3, <1>5, <2>1, <2>2, <2>3, MovedLands
<1>6. CASE orgs = {} /\ job[p].kind # "login"
    <2>1. AfterRemoval(p)
        BY <1>6 DEF FindOrg
    <2> QED BY <1>1, <1>6, <2>1, AfterRemovalLands
<1> QED BY <1>4, <1>5, <1>6

LEMMA RemoveForwardLands ==
    ASSUME TypeInv, RolesInv, NEW p \in Processes, RemoveForward(p)
    PROVE  Lands(p)
<1> DEFINE e == job[p].email
<1>1. /\ pc[p] = "removingForward" /\ Continue(p, "removingReverse", job[p]) /\ users' = users
      /\ forward' = forward \ {<<Subject(p), job[p].org>>}
    BY DEF RemoveForward, GoTo
<1>2. ShapeOK(pc[p], job[p])
    BY StandsAlone
<1>3. ShapeOK("removingReverse", job[p])
    BY <1>1, <1>2 DEF ShapeOK, LoginSteps, RemovalSteps, AssignSteps
<1>4. pc'[p] = "removingReverse" /\ job'[p] = job[p] /\ Subject(p)' = Subject(p)
    BY <1>1, Continues DEF Subject
<1>5. \A f : OrgsOf(f)' \subseteq OrgsOf(f) /\ (f = Subject(p) => job[p].org \notin OrgsOf(f)')
    BY <1>1 DEF OrgsOf
<1>6. CopyFits(p) => CopyFits(p)'
    BY <1>1, <1>4 DEF CopyFits, Exists, RemovalSteps, AssignSteps
<1>7. ASSUME StageFits(p) PROVE StageFits(p)'
    <2>1. /\ OrgsOf(Subject(p)) \subseteq {job[p].org}
          /\ job[p].kind = "login" => OrgsOf(e) = {} /\ users[e].type = "ORG"
        BY <1>1, <1>7 DEF StageFits, RemovalSteps
    <2>2. OrgsOf(Subject(p))' = {} /\ AtMostOne(Subject(p))'
        BY <1>4, <1>5, <2>1 DEF AtMostOne
    <2>3. job[p].kind = "login" => OrgsOf(job[p].email)' = {}
        BY <1>4, <1>5, <2>1
    <2> QED BY <1>1, <1>4, <2>1, <2>2, <2>3 DEF StageFits, HalfWay, RemovalSteps, AssignSteps
<1> QED BY <1>1, <1>3, <1>6, <1>7, StepLands

LEMMA RemoveReverseLands ==
    ASSUME TypeInv, RolesInv, NEW p \in Processes, RemoveReverse(p)
    PROVE  Lands(p)
<1>1. pc[p] = "removingReverse" /\ AfterRemoval(p) /\ UNCHANGED <<users, forward>>
    BY DEF RemoveReverse
<1>2. StageFits(p) => OrgsOf(Subject(p)) = {}
    BY <1>1 DEF StageFits
<1> QED BY <1>1, <1>2, AfterRemovalLands

LEMMA StorageFailsLands ==
    ASSUME TypeInv, RolesInv, NEW p \in Processes, StorageFails(p)
    PROVE  Lands(p)
<1> DEFINE free == [job[p] EXCEPT !.copy = NoUser]
<1>1. UNCHANGED <<users, forward>> /\ users' = users /\ Working(p)
    BY DEF StorageFails, tableVars
<1>2. CASE pc[p] \in {"touching", "stamping"} /\ job[p].member
    <2>1. Continue(p, "membership", free)
        BY <1>2 DEF StorageFails
    <2> QED BY <1>1, <1>2, <2>1, ToMembershipLands
<1>3. CASE pc[p] \in {"touching", "stamping"} /\ ~job[p].member
    <2>1. End(p) /\ pc[p] \notin HalfWay
        BY <1>3 DEF StorageFails, HalfWay
    <2> QED BY <1>1, <2>1, QuietEndLands
<1>4. CASE pc[p] \in {"removingForward", "removingReverse"} /\ p \in Operators
    <2> DEFINE step == IF pc[p] = "removingForward" THEN "removingReverse"
                       ELSE IF job[p].kind = "promote" THEN "storing"
                       ELSE "stopped"
    <2>1. /\ pc' = [pc EXCEPT ![p] = step]
          /\ job' = [job EXCEPT ![p] = IF pc'[p] = "stopped" THEN NoJob ELSE @]
          /\ disturbed' = disturbed \cup Touches(p)
        BY <1>4 DEF StorageFails
    <2>2. pc'[p] = step /\ step \in {"removingReverse", "storing", "stopped"}
        BY <2>1 DEF TypeInv, UsersTypeOK
    <2>3. job'[p] = IF step = "stopped" THEN NoJob ELSE job[p]
        BY <2>1, <2>2 DEF TypeInv, UsersTypeOK
    <2>4. step = "storing" => job[p].kind = "promote"
        OBVIOUS
    <2> HIDE DEF step
    <2>5. ShapeOK(pc[p], job[p])
        BY StandsAlone
    <2>6. ShapeOK(pc[p], job[p])'
        <3>1. CASE step = "stopped"
            BY <2>2, <2>3, <3>1, NoJobShape DEF ShapeOK
        <3>2. CASE step # "stopped"
            BY <1>4, <2>2, <2>3, <2>4, <2>5, <3>2
               DEF ShapeOK, LoginSteps, RemovalSteps, AssignSteps
        <3> QED BY <3>1, <3>2
    <2>7. CopyFits(p) /\ Working(p)' => CopyFits(p)'
        <3>1. CASE step = "stopped"
            BY <2>2, <3>1 DEF Working
        <3>2. CASE step # "stopped"
            BY <1>1, <1>4, <2>2, <2>3, <2>4, <3>2
               DEF CopyFits, Exists, RemovalSteps, AssignSteps
        <3> QED BY <3>1, <3>2
    <2>8. Outside(p, disturbed) => disturbed' # disturbed
        BY <1>1, <2>1, Untouched DEF Outside
    <2> QED BY <2>6, <2>7, <2>8, StandsAlone DEF Lands
<1>5. CASE /\ pc[p] \notin {"touching", "stamping"}
           /\ ~(pc[p] \in {"removingForward", "removingReverse"} /\ p \in Operators)
    <2>1. BreakOff(p)
        BY <1>5 DEF StorageFails
    <2> QED BY <1>1, <2>1, BreakOffLands
<1> QED BY <1>2, <1>3, <1>4, <1>5

LEMMA StepsLand ==
    ASSUME TypeInv, RolesInv, NEW p \in Processes, Proceed(p) \/ StorageFails(p) \/ Die(p)
    PROVE  Lands(p)
<1>1. CASE Conflict(p) \/ Die(p)
    BY <1>1, BreakOffLands DEF Conflict, Die, tableVars
<1>2. CASE ~Conflict(p) /\ ~Die(p)
    BY <1>2, ReadProfileLands, InsertMigratedLands, DeleteOldLands, FindByEmailLands,
       ReadToBackfillLands, ReadToStampLands, LookForOrgLands, AnyUsersLands, MatchDomainLands,
       CreateLands, StoreLands, StampMissingLands, AssignLands, MirrorLands, FindOrgLands,
       RemoveForwardLands, RemoveReverseLands, DeleteRowLands, StorageFailsLands DEF Proceed
<1> QED BY <1>1, <1>2


-----------------------------------------------------------------------------
(* Where requests begin, and every step.                                     *)

LEMMA BeginLoginRoles ==
    ASSUME TypeInv, MarksInv, RolesInv, NEW p \in Processes, NEW id \in Identities,
           BeginLogin(p, id[1], id[2])
    PROVE  RolesInv'
<1> DEFINE person == id[1]
           email == id[2]
           rows == IF person = NoPerson THEN {} ELSE RowsOf(person)
           login == [NoJob EXCEPT !.kind = "login", !.person = person, !.email = email]
           first == Min(rows)
           member == users[first].type = "ORG"
           changed == [login EXCEPT !.old = first, !.member = member]
           known == [login EXCEPT !.member = users[email].type = "ORG"]
<1>1. person \in Persons \cup {NoPerson} /\ email \in Emails
    BY UserAssumption
<1>2. UNCHANGED <<users, forward>> /\ users' = users
    BY DEF BeginLogin, tableVars
<1>3. rows # {} => person # NoPerson /\ first \in rows
    BY RowsOfEmails
<1>4. \A e \in rows : e \in Emails /\ Exists(e) /\ users[e].entra = person
    BY DEF RowsOf
<1>5. /\ login.kind = "login" /\ login.person = person /\ login.email = email
      /\ login.old = NoEmail /\ login.org = NoOrg
    BY DEF NoJob
<1>6. CASE rows = {} /\ Begin(p, "byEmail", login)
    <2>1. TouchedBy(login) = {email} /\ email \in Emails
        BY <1>1, <1>5, UserAssumption DEF TouchedBy
    <2>2. ShapeOK("byEmail", login)
        BY <1>5 DEF ShapeOK, LoginSteps, RemovalSteps, AssignSteps
    <2>3. pc'[p] = "byEmail" /\ job'[p] = login
        BY <1>6, Begins
    <2> HIDE DEF login, email, rows
    <2>4. CopyFits(p)'
        BY <1>5, <2>3 DEF CopyFits, Exists, RemovalSteps, AssignSteps
    <2>5. ASSUME \A e \in TouchedBy(login) : Fit(e) PROVE StageFits(p)'
        <3>1. Touches(p)' = TouchedBy(login)
            BY <2>3 DEF Touches, TouchedBy
        <3>2. \A e \in Touches(p)' : Fit(e)'
            BY <1>2, <2>5, <3>1 DEF Fit, AtMostOne, OrgsOf
        <3> QED BY <2>3, <3>2 DEF StageFits, HalfWay, RemovalSteps, AssignSteps
    <2> QED BY <1>2, <1>6, <2>1, <2>2, <2>4, <2>5, BeginRoles
<1>7. CASE rows # {} /\ Begin(p, "readingProfile", changed)
    <2>1. /\ changed.kind = "login" /\ changed.person = person /\ changed.email = email
          /\ changed.old = first
        BY DEF NoJob
    <2>2. first \in Emails /\ Exists(first) /\ users[first].entra = person /\ first # NoEmail
        BY <1>3, <1>4, <1>7, UserAssumption
    <2>3. TouchedBy(changed) = {email, first} /\ email \in Emails
        BY <1>1, <2>1, <2>2, UserAssumption DEF TouchedBy
    <2>4. Begin(p, "readingProfile", changed) /\ person # NoPerson
        BY <1>3, <1>7
    <2> HIDE DEF login, email, rows, first, member, changed, person
    <2>5. ShapeOK("readingProfile", changed)
        BY <2>1, <2>2, <2>4 DEF ShapeOK, LoginSteps, RemovalSteps, AssignSteps
    <2>6. pc'[p] = "readingProfile" /\ job'[p] = changed
        BY <2>4, Begins
    <2>7. CopyFits(p)'
        BY <1>2, <2>1, <2>2, <2>6 DEF CopyFits, Exists, RemovalSteps, AssignSteps
    <2>8. ASSUME \A e \in TouchedBy(changed) : Fit(e) PROVE StageFits(p)'
        <3>1. Touches(p)' = TouchedBy(changed)
            BY <2>6 DEF Touches, TouchedBy
        <3>2. \A e \in Touches(p)' : Fit(e)'
            BY <1>2, <2>8, <3>1 DEF Fit, AtMostOne, OrgsOf
        <3> QED BY <2>6, <3>2 DEF StageFits, HalfWay, RemovalSteps, AssignSteps
    <2>9. TouchedBy(changed) \subseteq Emails /\ TouchedBy(changed) # {}
        BY <2>2, <2>3
    <2> QED BY <1>2, <2>4, <2>5, <2>7, <2>8, <2>9, BeginRoles
<1>8. CASE rows # {} /\ first = email /\ Begin(p, "touching", known)
    <2>1. /\ known.kind = "login" /\ known.person = person /\ known.email = email
          /\ known.old = NoEmail /\ known.member = (users[email].type = "ORG")
        BY DEF NoJob
    <2>2. Exists(email)
        BY <1>3, <1>4, <1>8
    <2>3. TouchedBy(known) = {email} /\ email \in Emails
        BY <1>1, <2>1, UserAssumption DEF TouchedBy
    <2>4. Begin(p, "touching", known)
        BY <1>8
    <2> HIDE DEF login, email, rows, first, known, person
    <2>5. ShapeOK("touching", known)
        BY <2>1 DEF ShapeOK, LoginSteps, RemovalSteps, AssignSteps
    <2>6. pc'[p] = "touching" /\ job'[p] = known
        BY <2>4, Begins
    <2>7. CopyFits(p)'
        BY <1>2, <2>1, <2>2, <2>6 DEF CopyFits, Exists, RemovalSteps, AssignSteps
    <2>8. ASSUME \A e \in TouchedBy(known) : Fit(e) PROVE StageFits(p)'
        <3>1. Touches(p)' = TouchedBy(known)
            BY <2>6 DEF Touches, TouchedBy
        <3>2. \A e \in Touches(p)' : Fit(e)'
            BY <1>2, <2>8, <3>1 DEF Fit, AtMostOne, OrgsOf
        <3> QED BY <2>6, <3>2 DEF StageFits, HalfWay, RemovalSteps, AssignSteps
    <2> QED BY <1>2, <2>3, <2>4, <2>5, <2>7, <2>8, BeginRoles
<1> QED BY <1>6, <1>7, <1>8 DEF BeginLogin

\* An operator's request begins with what it knows of the row.
LEMMA OperateRoles ==
    ASSUME TypeInv, MarksInv, RolesInv, NEW k \in Operators, NEW step, NEW kind, NEW e \in Emails,
           NEW o, NEW row, Operate(k, step, kind, e, o, row),
           \/ step = "creating" /\ kind = "create" /\ row.entra = NoPerson
              /\ (o # NoOrg => row.type = "ORG")
           \/ step = "findingOrg" /\ kind = "promote" /\ row.type = "PLATFORM"
              /\ row.entra = users[e].entra
           \/ step = "assigning" /\ kind = "demote" /\ row.type = "ORG"
              /\ row.entra = users[e].entra /\ users[e].type = "PLATFORM"
           \/ step = "storing" /\ kind = "edit" /\ row = users[e]
           \/ step = "deletingUser" /\ kind = "delete"
    PROVE  RolesInv'
<1> DEFINE new == [NoJob EXCEPT !.kind = kind, !.email = e, !.org = o, !.copy = row]
<1>1. k \in Processes /\ Begin(k, step, new) /\ UNCHANGED <<users, forward>> /\ users' = users
    BY DEF Operate, Processes, tableVars
<1>2. /\ new.kind = kind /\ new.email = e /\ new.org = o /\ new.copy = row
      /\ new.old = NoEmail /\ new.person = NoPerson
    BY DEF NoJob
<1> HIDE DEF new
<1>3. TouchedBy(new) = {e}
    BY <1>2, UserAssumption DEF TouchedBy
<1>4. ShapeOK(step, new)
    BY <1>2 DEF ShapeOK, LoginSteps, RemovalSteps, AssignSteps
<1>5. pc'[k] = step /\ job'[k] = new
    BY <1>1, Begins
<1>6. CopyFits(k)'
    BY <1>1, <1>2, <1>5 DEF CopyFits, Exists, RemovalSteps, AssignSteps
<1>7. ASSUME \A f \in TouchedBy(new) : Fit(f) PROVE StageFits(k)'
    <2>1. Touches(k)' = {e} /\ Fit(e) /\ Subject(k)' = e
        BY <1>2, <1>3, <1>5, <1>7 DEF Touches, TouchedBy, Subject
    <2>2. OrgsOf(e)' = OrgsOf(e)
        BY <1>1 DEF OrgsOf
    <2>3. Fit(e)' /\ AtMostOne(e)'
        BY <1>1, <2>1, <2>2 DEF Fit, AtMostOne
    <2>4. step = "assigning" => OrgsOf(e)' = {}
        BY <2>1, <2>2 DEF Fit
    <2>5. OrgsOf(job[k].email)' = OrgsOf(e)'
        BY <1>2, <1>5
    <2>6. AtMostOne(Subject(k))' /\ AtMostOne(job[k].email)' /\ Fit(job[k].email)'
        BY <1>1, <1>2, <1>5, <2>1, <2>2, <2>3 DEF AtMostOne, Fit
    <2>7. \A f \in Touches(k)' : Fit(f)'
        BY <2>1, <2>3
    <2>8. step \in HalfWay \/ step \in {"creating", "deletingUser"}
        BY DEF HalfWay
    <2>9. job'[k].kind = kind /\ job'[k].old = NoEmail
        BY <1>2, <1>5
    <2> QED BY <1>5, <2>4, <2>5, <2>6, <2>7, <2>8, <2>9
            DEF StageFits, HalfWay, RemovalSteps, AssignSteps
<1> QED BY <1>1, <1>3, <1>4, <1>6, <1>7, BeginRoles

LEMMA OperatorRoles ==
    ASSUME TypeInv, MarksInv, RolesInv, NEW k \in Operators, NEW e \in Emails,
           \/ CreateUser(k, e) \/ PromoteUser(k, e) \/ DemoteUser(k, e)
           \/ EditUser(k, e) \/ DeleteUser(k, e)
    PROVE  RolesInv'
<1>1. CASE CreateUser(k, e)
    <2>1. PICK type \in {"PLATFORM", "ORG"}, o \in Orgs \cup {NoOrg} :
              /\ type = "PLATFORM" => o = NoOrg
              /\ Operate(k, "creating", "create", e, o, [entra |-> NoPerson, type |-> type])
        BY <1>1 DEF CreateUser
    <2> DEFINE row == [entra |-> NoPerson, type |-> type]
    <2>2. row.entra = NoPerson /\ row.type = type /\ Operate(k, "creating", "create", e, o, row)
        BY <2>1
    <2> HIDE DEF row
    <2> QED BY <2>1, <2>2, OperateRoles
<1>2. CASE PromoteUser(k, e)
    <2> DEFINE row == [users[e] EXCEPT !.type = "PLATFORM"]
    <2>1. row.type = "PLATFORM" /\ row.entra = users[e].entra
        BY <1>2, RowRole DEF PromoteUser, UserRow
    <2>2. Operate(k, "findingOrg", "promote", e, NoOrg, row)
        BY <1>2 DEF PromoteUser
    <2> HIDE DEF row
    <2> QED BY <2>1, <2>2, OperateRoles
<1>3. CASE DemoteUser(k, e)
    <2> DEFINE row == [users[e] EXCEPT !.type = "ORG"]
    <2>1. row.type = "ORG" /\ row.entra = users[e].entra /\ users[e].type = "PLATFORM"
        BY <1>3, RowRole DEF DemoteUser, UserRow
    <2>2. PICK o \in Orgs : Operate(k, "assigning", "demote", e, o, row)
        BY <1>3 DEF DemoteUser
    <2> HIDE DEF row
    <2> QED BY <2>1, <2>2, OperateRoles
<1>4. CASE EditUser(k, e)
    <2>1. Operate(k, "storing", "edit", e, NoOrg, users[e])
        BY <1>4 DEF EditUser
    <2> QED BY <2>1, OperateRoles
<1>5. CASE DeleteUser(k, e)
    <2>1. Operate(k, "deletingUser", "delete", e, NoOrg, NoUser)
        BY <1>5 DEF DeleteUser
    <2> QED BY <2>1, OperateRoles
<1> QED BY <1>1, <1>2, <1>3, <1>4, <1>5

LEMMA InitRoles == UsersInit => MarksInv /\ RolesInv
<1> SUFFICES ASSUME UsersInit PROVE MarksInv /\ RolesInv
    OBVIOUS
<1>1. \A p \in Processes : pc[p] \in {"idle", "stopped"} /\ job[p] = NoJob
    BY DEF UsersInit
<1>2. \A p \in Processes : Touches(p) = {} /\ job[p].person = NoPerson /\ ~Working(p)
    BY <1>1 DEF Touches, NoJob, Working
<1>3. MarksInv
    BY <1>2 DEF MarksInv, MarksFit, Meets
<1>4. \A p \in Processes : Stands(p)
    BY <1>1, <1>2, NoJobShape DEF Stands, Outside
<1>5. \A e \in Emails : Fit(e)
    BY DEF UsersInit, Fit, AtMostOne, OrgsOf
<1> QED BY <1>3, <1>4, <1>5 DEF RolesInv

LEMMA NextMarks == TypeInv /\ MarksInv /\ [UsersNext]_userVars => MarksInv'
<1> SUFFICES ASSUME TypeInv, MarksInv, [UsersNext]_userVars PROVE MarksInv'
    OBVIOUS
<1>1. ASSUME NEW p \in Logins, NEW id \in Identities, BeginLogin(p, id[1], id[2]) PROVE MarksInv'
    <2>1. PICK step, new : Begin(p, step, new)
        BY <1>1 DEF BeginLogin
    <2> QED BY <2>1, BeginMarks DEF Processes
<1>2. ASSUME NEW k \in Operators, NEW e \in Emails,
             \/ CreateUser(k, e) \/ PromoteUser(k, e) \/ DemoteUser(k, e)
             \/ EditUser(k, e) \/ DeleteUser(k, e)
      PROVE  MarksInv'
    <2>1. PICK step, kind, o, row : Operate(k, step, kind, e, o, row)
        BY <1>2 DEF CreateUser, PromoteUser, DemoteUser, EditUser, DeleteUser
    <2> QED BY <2>1, BeginMarks DEF Operate, Processes
<1>3. ASSUME NEW p \in Processes, Proceed(p) \/ StorageFails(p) \/ Die(p) PROVE MarksInv'
    BY <1>3, OwnSteps, OwnStepMarks
<1>4. CASE (\E o \in Orgs : SetOrgActive(o)) \/ UNCHANGED userVars
    BY <1>4 DEF SetOrgActive, userVars, MarksInv, MarksFit, Meets, Touches
<1> QED BY <1>1, <1>2, <1>3, <1>4 DEF UsersNext

LEMMA NextRoles == TypeInv /\ MarksInv /\ RolesInv /\ [UsersNext]_userVars => RolesInv'
<1> SUFFICES ASSUME TypeInv, MarksInv, RolesInv, [UsersNext]_userVars PROVE RolesInv'
    OBVIOUS
<1>1. ASSUME NEW p \in Logins, NEW id \in Identities, BeginLogin(p, id[1], id[2]) PROVE RolesInv'
    BY <1>1, BeginLoginRoles DEF Processes
<1>2. ASSUME NEW k \in Operators, NEW e \in Emails,
             \/ CreateUser(k, e) \/ PromoteUser(k, e) \/ DemoteUser(k, e)
             \/ EditUser(k, e) \/ DeleteUser(k, e)
      PROVE  RolesInv'
    BY <1>2, OperatorRoles
<1>3. ASSUME NEW p \in Processes, Proceed(p) \/ StorageFails(p) \/ Die(p) PROVE RolesInv'
    BY <1>3, NextTypes, OwnSteps, StepsLand, OwnStepRoles
<1>4. CASE (\E o \in Orgs : SetOrgActive(o)) \/ UNCHANGED userVars
    <2>1. UNCHANGED <<users, forward, pc, job, overlapped, disturbed>>
        BY <1>4 DEF SetOrgActive, userVars, tableVars
    <2>2. \A e : OrgsOf(e)' = OrgsOf(e) /\ (Fit(e)' <=> Fit(e)) /\ (AtMostOne(e)' <=> AtMostOne(e))
        BY <2>1 DEF OrgsOf, Fit, AtMostOne
    <2>3. ASSUME NEW p \in Processes PROVE Stands(p)'
        <3>1. Stands(p)
            BY DEF RolesInv
        <3>2. ShapeOK(pc[p], job[p])'
            BY <2>1, <3>1 DEF Stands
        <3>3. CopyFits(p) => CopyFits(p)'
            BY <2>1 DEF CopyFits, Exists
        <3>4. StageFits(p) => StageFits(p)'
            BY <2>1, <2>2 DEF StageFits, Touches, Subject
        <3>5. /\ Outside(p, overlapped)' => Outside(p, overlapped)
              /\ Outside(p, disturbed)' => Outside(p, disturbed)
            BY <2>1 DEF Outside, Touches, Working
        <3> QED BY <3>1, <3>2, <3>3, <3>4, <3>5 DEF Stands
    <2>4. \A e \in Emails : Settled(e)' => Fit(e)'
        BY <2>1, <2>2 DEF RolesInv, Settled, Touches
    <2> QED BY <2>3, <2>4 DEF RolesInv
<1> QED BY <1>1, <1>2, <1>3, <1>4 DEF UsersNext


\* Which process works for whom, and that an operator has acted.
KindInv ==
    \A p \in Processes :
        /\ job[p].kind = "login" => p \in Logins
        /\ job[p].kind \in {"create", "promote", "demote", "edit", "delete"} =>
               p \in Operators /\ operated

LEMMA NextKinds == TypeInv /\ KindInv /\ [UsersNext]_userVars => KindInv'
<1> SUFFICES ASSUME TypeInv, KindInv, [UsersNext]_userVars PROVE KindInv'
    OBVIOUS
<1>1. ASSUME NEW p \in Logins, NEW id \in Identities, BeginLogin(p, id[1], id[2]) PROVE KindInv'
    <2> DEFINE rows == IF id[1] = NoPerson THEN {} ELSE RowsOf(id[1])
               login == [NoJob EXCEPT !.kind = "login", !.person = id[1], !.email = id[2]]
               changed == [login EXCEPT !.old = Min(rows),
                                        !.member = users[Min(rows)].type = "ORG"]
               known == [login EXCEPT !.member = users[id[2]].type = "ORG"]
    <2>0. login.kind = "login" /\ changed.kind = "login" /\ known.kind = "login"
        BY DEF NoJob
    <2>1. Begin(p, "byEmail", login) \/ Begin(p, "readingProfile", changed)
          \/ Begin(p, "touching", known)
        BY <1>1 DEF BeginLogin
    <2> HIDE DEF login, changed, known
    <2>2. PICK step, new : Begin(p, step, new) /\ new.kind = "login"
        BY <2>0, <2>1
    <2>3. /\ job'[p] = new
          /\ \A q \in Processes \ {p} : job'[q] = job[q]
        BY <2>2, Begins DEF Processes
    <2>4. operated' = operated
        BY <1>1 DEF BeginLogin
    <2> QED BY <2>2, <2>3, <2>4 DEF KindInv
<1>2. ASSUME NEW k \in Operators, NEW e \in Emails,
             \/ CreateUser(k, e) \/ PromoteUser(k, e) \/ DemoteUser(k, e)
             \/ EditUser(k, e) \/ DeleteUser(k, e)
      PROVE  KindInv'
    <2>1. PICK step, kind, o, row : Operate(k, step, kind, e, o, row) /\ kind # "login"
        BY <1>2 DEF CreateUser, PromoteUser, DemoteUser, EditUser, DeleteUser
    <2> DEFINE new == [NoJob EXCEPT !.kind = kind, !.email = e, !.org = o, !.copy = row]
    <2>2. Begin(k, step, new) /\ operated' = TRUE
        BY <2>1 DEF Operate
    <2>3. new.kind = kind
        BY DEF NoJob
    <2> HIDE DEF new
    <2>4. job'[k] = new /\ \A q \in Processes \ {k} : job'[q] = job[q]
        BY <2>2, Begins DEF Processes
    <2> QED BY <2>1, <2>2, <2>3, <2>4 DEF KindInv
<1>3. ASSUME NEW p \in Processes, Proceed(p) \/ StorageFails(p) \/ Die(p) PROVE KindInv'
    BY <1>3, OwnSteps DEF OwnStep, KindInv
<1>4. CASE (\E o \in Orgs : SetOrgActive(o)) \/ UNCHANGED userVars
    BY <1>4 DEF SetOrgActive, userVars, KindInv
<1> QED BY <1>1, <1>2, <1>3, <1>4 DEF UsersNext

\* All that the proofs know of roles and memberships.
UsersInv == TypeInv /\ MarksInv /\ RolesInv /\ KindInv

LEMMA InitUsers == UsersInit => UsersInv
<1>1. UsersInit => KindInv
    BY DEF UsersInit, KindInv, NoJob
<1> QED BY <1>1, InitTypes, InitRoles DEF UsersInv

LEMMA NextUsers == UsersInv /\ [UsersNext]_userVars => UsersInv'
BY NextTypes, NextMarks, NextRoles, NextKinds DEF UsersInv

LEMMA UsersInvAlways == UsersSpec => []UsersInv
BY InitUsers, NextUsers, PTL DEF UsersSpec

\* What the property asks of a settled row.
LEMMA FitRows ==
    ASSUME NEW e, Fit(e)
    PROVE  /\ users[e].type = "ORG" => Cardinality(OrgsOf(e)) <= 1
           /\ users[e].type # "ORG" => OrgsOf(e) = {}
<1>1. OrgsOf(e) = {} \/ \E o : OrgsOf(e) = {o}
    BY DEF Fit, AtMostOne
<1>2. Cardinality(OrgsOf(e)) <= 1
    <2>1. CASE OrgsOf(e) = {}
        BY <2>1, FS_EmptySet
    <2>2. ASSUME NEW o, OrgsOf(e) = {o} PROVE Cardinality(OrgsOf(e)) <= 1
        <3>1. Cardinality({o}) = 1
            BY FS_Singleton
        <3> QED BY <2>2, <3>1
    <2> QED BY <1>1, <2>1, <2>2
<1> QED BY <1>2 DEF Fit

\* A settled user who does not exist or is an administrator has no membership,
\* an ORG user at most one, for any requests: creation, promotion, demotion,
\* migration and deletion keep roles and memberships in step.
THEOREM RolesMatchMembershipsAlways == UsersSpec => []RolesMatchMemberships
<1>1. UsersInv => RolesMatchMemberships
    BY FitRows DEF UsersInv, RolesInv, RolesMatchMemberships
<1> QED BY <1>1, UsersInvAlways, PTL

\* The role of a row that is there before and after a step.
LEMMA RoleStays ==
    ASSUME UsersInv, NEW p \in Processes, Proceed(p), NEW e \in Emails,
           Exists(e), Exists(e)', users'[e].type # users[e].type, e \notin overlapped
    PROVE  p \in Operators /\ pc[p] = "storing" /\ job[p].email = e
<1>1. TypeInv /\ MarksInv /\ RolesInv
    BY DEF UsersInv
<1>2. e \in Touches(p)
    BY <1>1, OwnSteps DEF OwnStep
<1>3. Outside(p, overlapped)
    <2>1. Working(p)
        BY <1>1, <1>2, WorkingTouches
    <2>2. Touches(p) \cap overlapped = {}
        BY <1>1, <1>2 DEF MarksInv, MarksFit
    <2> QED BY <2>1, <2>2 DEF Outside
<1>4. CopyFits(p) /\ ShapeOK(pc[p], job[p])
    BY <1>1, <1>3, StandsAlone
<1>5. CASE Store(p)
    <2>1. e = job[p].email
        BY <1>1, <1>2, <1>5, Stores
    <2>2. pc[p] = "storing"
        BY <1>1, <1>4, <1>5, <2>1, Stores
    <2>3. p \in Operators
        BY <1>4, <2>2 DEF UsersInv, KindInv, ShapeOK
    <2> QED BY <2>1, <2>2, <2>3
<1>6. CASE Create(p) \/ InsertMigrated(p)
    BY <1>1, <1>6 DEF Create, InsertMigrated, TypeInv, UsersTypeOK
<1>7. CASE DeleteOld(p) \/ DeleteRow(p)
    BY <1>1, <1>7 DEF DeleteOld, DeleteRow, Exists, TypeInv, UsersTypeOK
<1>8. CASE UNCHANGED users
    BY <1>8
<1>9. Store(p) \/ Create(p) \/ InsertMigrated(p) \/ DeleteOld(p) \/ DeleteRow(p) \/ UNCHANGED users
    BY DEF Proceed, ReadProfile, FindByEmail, ReadToBackfill, ReadToStamp, LookForOrg, AnyUsers,
           MatchDomain, StampMissing, Assign, Mirror, Conflict, FindOrg, RemoveForward,
           RemoveReverse, tableVars
<1> QED BY <1>5, <1>6, <1>7, <1>8, <1>9

\* A step, whoever takes it.
LEMMA RolesStay ==
    ASSUME UsersInv, [UsersNext]_userVars, NEW e \in Emails,
           Exists(e), Exists(e)', users'[e].type # users[e].type, e \notin overlapped
    PROVE  \E k \in Operators : pc[k] = "storing" /\ job[k].email = e
<1>1. PICK p \in Processes : Proceed(p)
    BY DEF UsersNext, BeginLogin, CreateUser, PromoteUser, DemoteUser, EditUser, DeleteUser,
           Operate, StorageFails, Die, SetOrgActive, userVars, tableVars
<1> QED BY <1>1, RoleStays

\* For any requests, nobody's role changes but where an operator stores the
\* row, or where requests for the address overlapped.
THEOREM OperatorsChangeRolesAlways == UsersSpec => OperatorsChangeRoles
<1>1. UsersInv /\ [UsersNext]_userVars =>
          [\A e \in Emails :
              Exists(e) /\ Exists(e)' /\ users'[e].type # users[e].type =>
                  \/ e \in overlapped
                  \/ \E k \in Operators : pc[k] = "storing" /\ job[k].email = e]_userVars
    BY RolesStay
<1> QED BY <1>1, UsersInvAlways, PTL DEF UsersSpec, OperatorsChangeRoles


-----------------------------------------------------------------------------
(* Persons.  Two rows of a person, neither of them disturbed, are the two rows *)
(* of a change of address; and a login that may still give a row its person    *)
(* knows that no other row has it.                                             *)

NewSteps == {"byEmail", "anyUsers", "matchingNew", "creating", "backfilling", "storingId"}

OfOnePerson(e, f) ==
    /\ Exists(e) /\ Exists(f)
    /\ users[e].entra = users[f].entra /\ users[e].entra # NoPerson

Moving(p, e, f) == pc[p] = "deletingOld" /\ {job[p].email, job[p].old} = {e, f}

KnowsNone(p) ==
    pc[p] \in NewSteps /\ job[p].person # NoPerson => RowsOf(job[p].person) \subseteq disturbed

PersonsInv ==
    /\ \A e, f \in Emails \ disturbed :
           e # f /\ OfOnePerson(e, f) => \E p \in Processes : Moving(p, e, f)
    /\ \A p \in Processes : Outside(p, disturbed) => KnowsNone(p)

\* Requests that change rows.
LEMMA RowWriters ==
    ASSUME NEW p, Proceed(p)
    PROVE  \/ Store(p) \/ Create(p) \/ InsertMigrated(p) \/ DeleteOld(p) \/ DeleteRow(p)
           \/ users' = users
BY DEF Proceed, ReadProfile, FindByEmail, ReadToBackfill, ReadToStamp, LookForOrg, AnyUsers,
       MatchDomain, StampMissing, Assign, Mirror, Conflict, FindOrg, RemoveForward,
       RemoveReverse, tableVars

\* A request that works on an unmarked address is outside the marks.
LEMMA Unmarked ==
    ASSUME UsersInv, NEW p \in Processes, NEW e \in Touches(p), e \notin disturbed
    PROVE  Outside(p, disturbed) /\ Outside(p, overlapped) /\ CopyFits(p)
<1>1. Working(p) /\ Touches(p) \cap disturbed = {}
    BY WorkingTouches DEF UsersInv, MarksInv, MarksFit
<1> QED BY <1>1, StandsAlone DEF UsersInv, Outside

\* Where an undisturbed row has its person from.
Given(p, f) == pc[p] \in {"creating", "storingId"} /\ f = job[p].email
               /\ users'[f].entra = job[p].person

Moved(p, f) ==
    /\ pc[p] = "inserting" /\ f = job[p].email /\ job[p].old \in Touches(p)
    /\ pc'[p] = "deletingOld" /\ job'[p].email = job[p].email /\ job'[p].old = job[p].old
    /\ Exists(job[p].old) /\ users[job[p].old].entra = users'[f].entra

LEMMA PersonOrigin ==
    ASSUME UsersInv, NEW p \in Processes, Proceed(p), NEW f \in Emails \ disturbed,
           Exists(f)', users'[f].entra # NoPerson
    PROVE  \/ Exists(f) /\ users[f].entra = users'[f].entra
           \/ Given(p, f) \/ Moved(p, f)
<1>1. TypeInv /\ RolesInv
    BY DEF UsersInv
<1>2. CASE users'[f] = users[f]
    BY <1>2 DEF Exists
<1>3. CASE users'[f] # users[f]
    <2>1. f \in Touches(p)
        BY <1>1, <1>3, OwnSteps DEF OwnStep
    <2>2. CopyFits(p) /\ ShapeOK(pc[p], job[p]) /\ job[p] \in Job /\ JobOK(pc[p], job[p])
        BY <1>1, <2>1, Unmarked, StandsAlone DEF TypeInv, UsersTypeOK, JobsOK
    <2>3. CASE Store(p)
        <3>1. /\ f = job[p].email /\ job[p].copy \in UserRow /\ f \in Emails
              /\ users'[f] = Merged(users[f], job[p].copy)
            BY <1>1, <2>1, <2>3, Stores DEF TypeInv, UsersTypeOK
        <3>2. users'[f].entra = IF job[p].copy.entra = NoPerson THEN users[f].entra
                                ELSE job[p].copy.entra
            BY <1>1, <3>1, MergedRow DEF TypeInv, UsersTypeOK
        <3>3. CASE pc[p] = "storingId"
            <4>1. job[p].copy.entra = job[p].person /\ job[p].person # NoPerson
                BY <2>2, <3>3 DEF CopyFits, ShapeOK
            <4> QED BY <3>1, <3>2, <3>3, <4>1 DEF Given
        <3>4. CASE pc[p] # "storingId"
            <4>1. pc[p] \in {"rewriting", "stamping", "storing"} /\ Exists(f)
                BY <2>3, <3>1, <3>4 DEF Store, StoreSteps
            <4>2. job[p].copy.entra = users[f].entra
                BY <2>2, <3>1, <4>1 DEF CopyFits, ShapeOK
            <4> QED BY <3>2, <4>1, <4>2
        <3> QED BY <3>3, <3>4
    <2>4. CASE Create(p)
        <3>1. users'[f] = job[p].copy /\ f = job[p].email /\ pc[p] = "creating"
            BY <1>1, <1>3, <2>4 DEF Create, TypeInv, UsersTypeOK
        <3>2. job[p].copy.entra = job[p].person
            BY <2>2, <3>1 DEF ShapeOK
        <3> QED BY <3>1, <3>2 DEF Given
    <2>5. CASE InsertMigrated(p)
        <3> DEFINE free == [job[p] EXCEPT !.copy = NoUser]
        <3>1. /\ users'[f] = job[p].copy /\ f = job[p].email /\ pc[p] = "inserting"
              /\ Continue(p, "deletingOld", free)
            BY <1>1, <1>3, <2>5 DEF InsertMigrated, TypeInv, UsersTypeOK
        <3>2. pc'[p] = "deletingOld" /\ job'[p] = free
            BY <1>1, <3>1, Continues
        <3>3. free.email = job[p].email /\ free.old = job[p].old
            BY <2>2 DEF Job
        <3>4. Exists(job[p].old) /\ job[p].copy = users[job[p].old]
            BY <2>2, <3>1 DEF CopyFits
        <3>5. job[p].old \in Touches(p)
            BY <2>2, <3>1, UserAssumption DEF JobOK, Touches
        <3> QED BY <3>1, <3>2, <3>3, <3>4, <3>5 DEF Moved
    <2>6. CASE DeleteOld(p) \/ DeleteRow(p)
        BY <1>1, <1>3, <2>6 DEF DeleteOld, DeleteRow, Exists, TypeInv, UsersTypeOK
    <2> QED BY <1>3, <2>3, <2>4, <2>5, <2>6, RowWriters
<1> QED BY <1>2, <1>3

\* A login comes to these steps from each other only.
LEMMA StillNew ==
    ASSUME TypeInv, NEW p \in Processes, Proceed(p) \/ StorageFails(p) \/ Die(p),
           pc'[p] \in NewSteps
    PROVE  pc[p] \in NewSteps /\ users' = users
<1>1. \A step, new : Continue(p, step, new) => step \in NewSteps
    BY Continues
<1>2. ~BreakOff(p) /\ ~End(p)
    BY <1>1, BreaksOff, SomeStep DEF NewSteps, End
<1>3. CASE ReadProfile(p) \/ FindByEmail(p) \/ ReadToBackfill(p) \/ LookForOrg(p) \/ AnyUsers(p)
           \/ MatchDomain(p)
    BY <1>1, <1>2, <1>3 DEF ReadProfile, FindByEmail, ReadToBackfill, LookForOrg, AnyUsers,
       MatchDomain, GoTo, NewSteps, tableVars
<1>4. ~ReadToStamp(p) /\ ~StampMissing(p) /\ ~FindOrg(p) /\ ~RemoveReverse(p)
    BY <1>1, <1>2 DEF ReadToStamp, StampMissing, FindOrg, RemoveReverse, AfterRemoval, AfterStamp,
       End, GoTo, NewSteps
<1>5. ~InsertMigrated(p) /\ ~DeleteOld(p) /\ ~DeleteRow(p) /\ ~Assign(p) /\ ~RemoveForward(p)
    BY <1>1 DEF InsertMigrated, DeleteOld, DeleteRow, Assign, RemoveForward, GoTo, NewSteps
<1>6. ~Create(p) /\ ~Store(p) /\ ~Mirror(p) /\ ~Conflict(p) /\ ~Die(p)
    BY <1>1, <1>2 DEF Create, Store, Mirror, Conflict, Die, GoTo, NewSteps
<1>7. ~StorageFails(p)
    <2>1. CASE pc[p] \in {"removingForward", "removingReverse"} /\ p \in Operators
        BY <2>1 DEF StorageFails, NewSteps, TypeInv, UsersTypeOK
    <2>2. CASE ~(pc[p] \in {"removingForward", "removingReverse"} /\ p \in Operators)
        BY <1>1, <1>2, <2>2 DEF StorageFails, NewSteps
    <2> QED BY <2>1, <2>2
<1> QED BY <1>3, <1>4, <1>5, <1>6, <1>7 DEF Proceed


LEMMA ProceedPersons ==
    ASSUME UsersInv, PersonsInv, NEW p \in Processes, Proceed(p)
    PROVE  PersonsInv'
<1>1. /\ \A q \in Processes \ {p} : pc'[q] = pc[q] /\ job'[q] = job[q] /\ Touches(q)' = Touches(q)
      /\ Touches(p)' \subseteq Touches(p) /\ disturbed \subseteq disturbed'
      /\ job'[p].person \in {job[p].person, NoPerson}
    BY OwnSteps DEF UsersInv, OwnStep, Touches
<1>2. TypeInv
    BY DEF UsersInv
<1>3. ASSUME NEW f \in Emails \ disturbed, Given(p, f)
      PROVE  f \in Touches(p) /\ Outside(p, disturbed) /\ pc[p] \in NewSteps
    <2>1. f \in Touches(p)
        BY <1>3, UserAssumption DEF Given, Touches
    <2> QED BY <1>3, <2>1, Unmarked DEF Given, NewSteps
<1>4. ASSUME NEW f \in Emails \ disturbed, Moved(p, f)
      PROVE  f \in Touches(p) /\ job[p].old \in Touches(p) /\ job[p].old \in Emails \ disturbed
    <2>1. f \in Touches(p) /\ job[p].old \in Touches(p)
        BY <1>4, UserAssumption DEF Moved, Touches
    <2> QED BY <1>2, <2>1, <1>4, Unmarked, TouchesEmails DEF Outside
<1>5. ASSUME NEW e \in Emails \ disturbed', NEW f \in Emails \ disturbed', e # f,
             OfOnePerson(e, f)', Exists(e), users[e].entra = users'[e].entra
      PROVE  \E q \in Processes : Moving(q, e, f)'
    <2>1. e \notin disturbed /\ f \notin disturbed
        BY <1>1
    <2>2. /\ Exists(e)' /\ Exists(f)'
          /\ users'[e].entra = users'[f].entra /\ users'[f].entra # NoPerson
        BY <1>5 DEF OfOnePerson
    <2>3. CASE Exists(f) /\ users[f].entra = users'[f].entra
        <3>1. PICK q \in Processes : Moving(q, e, f)
            BY <1>5, <2>1, <2>2, <2>3 DEF PersonsInv, OfOnePerson
        <3>2. CASE q # p
            BY <1>1, <3>1, <3>2 DEF Moving
        <3>3. CASE q = p
            <4>1. pc[p] = "deletingOld" /\ job[p].old \in {e, f}
                BY <3>1, <3>3 DEF Moving
            <4>2. DeleteOld(p)
                BY <4>1 DEF Proceed, ReadProfile, FindByEmail, ReadToBackfill, ReadToStamp,
                   LookForOrg, AnyUsers, MatchDomain, StampMissing, Assign, Mirror, Conflict,
                   FindOrg, RemoveForward, RemoveReverse, InsertMigrated, DeleteRow, Create, Store,
                   StoreSteps
            <4>3. users'[job[p].old] = NoUser
                BY <1>2, <4>1, <4>2 DEF DeleteOld, TypeInv, UsersTypeOK
            <4> QED BY <2>2, <4>1, <4>3 DEF Exists
        <3> QED BY <3>2, <3>3
    <2>4. CASE Given(p, f)
        <3>1. RowsOf(job[p].person) \subseteq disturbed
            BY <1>3, <2>1, <2>2, <2>4 DEF PersonsInv, KnowsNone, Given
        <3>2. e \in RowsOf(job[p].person)
            BY <1>5, <2>2, <2>4 DEF RowsOf, Given
        <3> QED BY <2>1, <3>1, <3>2
    <2>5. CASE Moved(p, f) /\ e = job[p].old
        <3>1. Moving(p, e, f)'
            BY <2>5 DEF Moved, Moving
        <3> QED BY <3>1
    <2>6. CASE Moved(p, f) /\ e # job[p].old
        <3> DEFINE old == job[p].old
        <3>1. old \in Emails \ disturbed /\ old \in Touches(p)
            BY <1>4, <2>1, <2>6
        <3>2. OfOnePerson(e, old)
            BY <1>5, <2>2, <2>6 DEF OfOnePerson, Moved
        <3>3. PICK q \in Processes : Moving(q, e, old)
            BY <2>1, <2>6, <3>1, <3>2 DEF PersonsInv
        <3>4. q # p /\ old \in Touches(q)
            BY <2>6, <3>1, <3>3, UserAssumption DEF Moving, Moved, Touches
        <3> QED BY <3>1, <3>4 DEF UsersInv, MarksInv, MarksFit, Meets
    <2> QED BY <2>1, <2>2, <2>3, <2>4, <2>5, <2>6, PersonOrigin
<1>6. ASSUME NEW e \in Emails \ disturbed', NEW f \in Emails \ disturbed', e # f,
             OfOnePerson(e, f)'
      PROVE  \E q \in Processes : Moving(q, e, f)'
    <2>1. OfOnePerson(f, e)'
        BY <1>6 DEF OfOnePerson
    <2>2. (\E q \in Processes : Moving(q, f, e)') => \E q \in Processes : Moving(q, e, f)'
        BY DEF Moving
    <2>3. CASE Exists(e) /\ users[e].entra = users'[e].entra
        BY <1>5, <1>6, <2>3
    <2>4. CASE Exists(f) /\ users[f].entra = users'[f].entra
        BY <1>5, <1>6, <2>1, <2>2, <2>4
    <2>5. (Given(p, e) \/ Moved(p, e)) /\ (Given(p, f) \/ Moved(p, f)) => FALSE
        BY <1>6 DEF Given, Moved
    <2> QED BY <1>1, <1>6, <2>3, <2>4, <2>5, PersonOrigin DEF OfOnePerson
<1>7. ASSUME NEW q \in Processes, Outside(q, disturbed)', pc'[q] \in NewSteps,
             job'[q].person # NoPerson, NEW f \in RowsOf(job[q].person)', f \notin disturbed'
      PROVE  FALSE
    <2>1. f \in Emails \ disturbed /\ Exists(f)' /\ users'[f].entra = job'[q].person
        BY <1>1, <1>7 DEF RowsOf
    <2>2. CASE q = p
        <3>1. pc[p] \in NewSteps /\ users' = users /\ job'[p].person = job[p].person
            BY <1>1, <1>2, <1>7, <2>2, StillNew
        <3>2. f \in RowsOf(job[p].person)
            BY <2>1, <2>2, <3>1 DEF RowsOf, Exists
        <3>3. Outside(p, disturbed)
            <4>1. job'[p].email \in Touches(p) /\ job'[p].email \notin disturbed
                <5>1. TypeInv'
                    BY <1>2, NextTypes DEF UsersNext
                <5>2. Working(p)'
                    BY <1>7, <2>2 DEF Outside
                <5>3. job'[p].email \in Touches(p)'
                    BY <5>1, <5>2, UserAssumption DEF Touches, Working, TypeInv, JobsOK, JobOK
                <5> QED BY <1>1, <1>7, <2>2, <5>3 DEF Outside
            <4> QED BY <4>1, Unmarked
        <3> QED BY <1>7, <2>1, <2>2, <3>1, <3>2, <3>3 DEF PersonsInv, KnowsNone
    <2>3. CASE q # p
        <3>1. /\ Outside(q, disturbed) /\ pc[q] \in NewSteps /\ job'[q] = job[q]
              /\ Touches(q) \cap disturbed = {} /\ Touches(q) # {}
            <4>1. pc'[q] = pc[q] /\ job'[q] = job[q] /\ Working(q)
                BY <1>1, <1>7, <2>3 DEF Outside, Working
            <4>2. Touches(q) \cap disturbed = {}
                BY <1>1, <1>7, <2>3 DEF Outside
            <4> QED BY <1>2, <1>7, <4>1, <4>2, Untouched DEF Outside
        <3>2. RowsOf(job[q].person) \subseteq disturbed
            BY <1>7, <3>1 DEF PersonsInv, KnowsNone
        <3>3. CASE Exists(f) /\ users[f].entra = users'[f].entra
            BY <2>1, <3>1, <3>2, <3>3 DEF RowsOf
        <3>4. CASE Given(p, f)
            <4>1. Meets(q, p)
                BY <1>7, <2>1, <3>1, <3>4 DEF Given, Meets
            <4> QED BY <2>3, <3>1, <4>1 DEF UsersInv, MarksInv, MarksFit
        <3>5. CASE Moved(p, f)
            <4>1. job[p].old \in Emails \ disturbed
                BY <1>4, <2>1, <3>5
            <4>2. job[p].old \in RowsOf(job[q].person)
                BY <2>1, <3>1, <3>5, <4>1 DEF Moved, RowsOf
            <4> QED BY <3>2, <4>1, <4>2
        <3> QED BY <1>7, <2>1, <3>1, <3>3, <3>4, <3>5, PersonOrigin
    <2> QED BY <2>2, <2>3
<1>8. \A q \in Processes : Outside(q, disturbed)' => KnowsNone(q)'
    BY <1>7 DEF KnowsNone
<1> QED BY <1>6, <1>8 DEF PersonsInv

\* A step that leaves the rows alone.
LEMMA QuietPersons ==
    ASSUME PersonsInv, users' = users, disturbed \subseteq disturbed',
           NEW p, \A q \in Processes \ {p} : pc'[q] = pc[q] /\ job'[q] = job[q],
           p \in Processes =>
               /\ pc[p] = "deletingOld" =>
                      {job[p].email, job[p].old} \subseteq disturbed' \cup {NoEmail}
               /\ Outside(p, disturbed)' => KnowsNone(p)'
    PROVE  PersonsInv'
<1>1. ASSUME NEW e \in Emails \ disturbed', NEW f \in Emails \ disturbed', e # f,
             OfOnePerson(e, f)'
      PROVE  \E q \in Processes : Moving(q, e, f)'
    <2>1. e \notin disturbed /\ f \notin disturbed /\ OfOnePerson(e, f)
        BY <1>1 DEF OfOnePerson, Exists
    <2>2. PICK q \in Processes : Moving(q, e, f)
        BY <1>1, <2>1 DEF PersonsInv
    <2>3. q # p
        BY <1>1, <2>2, UserAssumption DEF Moving
    <2> QED BY <2>2, <2>3 DEF Moving
<1>2. ASSUME NEW q \in Processes, Outside(q, disturbed)' PROVE KnowsNone(q)'
    <2>1. CASE q = p
        BY <1>2, <2>1
    <2>2. CASE q # p
        <3>1. pc'[q] = pc[q] /\ job'[q] = job[q]
            BY <2>2
        <3>2. Outside(q, disturbed)
            BY <1>2, <3>1 DEF Outside, Working, Touches
        <3>3. RowsOf(job[q].person)' = RowsOf(job[q].person)
            BY <3>1 DEF RowsOf, Exists
        <3> QED BY <3>1, <3>2, <3>3 DEF PersonsInv, KnowsNone
    <2> QED BY <2>1, <2>2
<1> QED BY <1>1, <1>2 DEF PersonsInv

LEMMA NextPersons == UsersInv /\ PersonsInv /\ [UsersNext]_userVars => PersonsInv'
<1> SUFFICES ASSUME UsersInv, PersonsInv, [UsersNext]_userVars PROVE PersonsInv'
    OBVIOUS
<1>0. TypeInv
    BY DEF UsersInv
<1>1. ASSUME NEW p \in Logins, NEW id \in Identities, BeginLogin(p, id[1], id[2]) PROVE PersonsInv'
    <2> DEFINE rows == IF id[1] = NoPerson THEN {} ELSE RowsOf(id[1])
               login == [NoJob EXCEPT !.kind = "login", !.person = id[1], !.email = id[2]]
    <2>1. p \in Processes /\ users' = users
        BY <1>1 DEF Processes, BeginLogin, tableVars
    <2>2. PICK step, new : Begin(p, step, new) /\ (step \in NewSteps => rows = {} /\ new = login)
        BY <1>1 DEF BeginLogin, NewSteps
    <2>3. /\ pc[p] = "idle" /\ pc'[p] = step /\ job'[p] = new /\ disturbed \subseteq disturbed'
          /\ \A q \in Processes \ {p} : pc'[q] = pc[q] /\ job'[q] = job[q]
        BY <1>0, <2>1, <2>2, Begins DEF Marked
    <2>4. login.person = id[1]
        BY DEF NoJob
    <2> HIDE DEF login
    <2>5. KnowsNone(p)'
        <3>1. CASE step \in NewSteps
            <4>1. job'[p].person = id[1]
                BY <2>2, <2>3, <2>4, <3>1
            <4>2. job'[p].person # NoPerson => RowsOf(job[p].person)' = {}
                BY <2>1, <2>2, <3>1, <4>1 DEF RowsOf, Exists
            <4> QED BY <4>2 DEF KnowsNone
        <3>2. CASE step \notin NewSteps
            BY <2>3, <3>2 DEF KnowsNone
        <3> QED BY <3>1, <3>2
    <2> QED BY <2>1, <2>3, <2>5, QuietPersons
<1>2. ASSUME NEW k \in Operators, NEW e \in Emails,
             \/ CreateUser(k, e) \/ PromoteUser(k, e) \/ DemoteUser(k, e)
             \/ EditUser(k, e) \/ DeleteUser(k, e)
      PROVE  PersonsInv'
    <2>1. PICK step, kind, o, row : Operate(k, step, kind, e, o, row)
        BY <1>2 DEF CreateUser, PromoteUser, DemoteUser, EditUser, DeleteUser
    <2> DEFINE new == [NoJob EXCEPT !.kind = kind, !.email = e, !.org = o, !.copy = row]
    <2>2. k \in Processes /\ users' = users /\ Begin(k, step, new)
        BY <2>1 DEF Operate, Processes, tableVars
    <2>3. new.person = NoPerson
        BY DEF NoJob
    <2> HIDE DEF new
    <2>4. /\ pc[k] = "idle" /\ job'[k] = new /\ disturbed \subseteq disturbed'
          /\ \A q \in Processes \ {k} : pc'[q] = pc[q] /\ job'[q] = job[q]
        BY <1>0, <2>2, Begins DEF Marked
    <2>5. KnowsNone(k)'
        BY <2>3, <2>4 DEF KnowsNone
    <2> QED BY <2>2, <2>4, <2>5, QuietPersons
<1>3. ASSUME NEW p \in Processes, Proceed(p) PROVE PersonsInv'
    BY <1>3, ProceedPersons
<1>4. ASSUME NEW p \in Processes, StorageFails(p) \/ Die(p) PROVE PersonsInv'
    <2>1. users' = users
        BY <1>4 DEF StorageFails, Die, tableVars
    <2>2. /\ \A q \in Processes \ {p} : pc'[q] = pc[q] /\ job'[q] = job[q]
          /\ disturbed \subseteq disturbed'
        BY <1>0, <1>4, OwnSteps DEF OwnStep
    <2>3. pc'[p] \notin NewSteps
        <3>1. CASE BreakOff(p)
            BY <1>0, <3>1, BreaksOff, SomeStep DEF NewSteps
        <3>2. CASE StorageFails(p) /\ pc[p] \in {"touching", "stamping"}
            <4>1. \E new : Continue(p, "membership", new) \/ Continue(p, Rest(p), new)
                BY <3>2 DEF StorageFails, End
            <4> QED BY <1>0, <4>1, Continues, SomeStep DEF NewSteps
        <3>3. CASE StorageFails(p) /\ pc[p] \in {"removingForward", "removingReverse"}
                   /\ p \in Operators
            BY <1>0, <3>3 DEF StorageFails, NewSteps, TypeInv, UsersTypeOK
        <3> QED BY <1>4, <3>1, <3>2, <3>3 DEF StorageFails, Die
    <2>4. pc[p] = "deletingOld" =>
              {job[p].email, job[p].old} \subseteq disturbed' \cup {NoEmail}
        <3>1. pc[p] = "deletingOld" => BreakOff(p)
            BY <1>4 DEF StorageFails, Die
        <3>2. pc[p] = "deletingOld" => disturbed' = disturbed \cup Touches(p)
            BY <1>0, <3>1, BreaksOff DEF HalfWay
        <3> QED BY <3>2 DEF Touches
    <2>5. KnowsNone(p)'
        BY <2>3 DEF KnowsNone
    <2> QED BY <2>1, <2>2, <2>4, <2>5, QuietPersons
<1>5. CASE (\E o \in Orgs : SetOrgActive(o)) \/ UNCHANGED userVars
    <2>1. UNCHANGED <<users, pc, job, disturbed>>
        BY <1>5 DEF SetOrgActive, userVars, tableVars
    <2>2. PICK p : p \notin Processes
        BY NoSetContainsEverything
    <2> QED BY <2>1, <2>2, QuietPersons
<1> QED BY <1>1, <1>2, <1>3, <1>4, <1>5 DEF UsersNext

LEMMA InitPersons == UsersInit => PersonsInv
BY DEF UsersInit, PersonsInv, OfOnePerson, Exists, Outside, Working

\* Two settled rows never have the same person, although a changed address means
\* a second row for a while: for any logins and operators, whatever fails.
THEOREM OneRowPerPersonAlways == UsersSpec => []OneRowPerPerson
<1>1. UsersInit => UsersInv /\ PersonsInv
    BY InitUsers, InitPersons
<1>2. UsersInv /\ PersonsInv /\ [UsersNext]_userVars => (UsersInv /\ PersonsInv)'
    BY NextUsers, NextPersons
<1>3. PersonsInv => OneRowPerPerson
    <2> SUFFICES ASSUME PersonsInv, NEW h \in Persons, NEW e \in RowsOf(h), NEW f \in RowsOf(h),
                        e # f, Settled(e), Settled(f)
                 PROVE  FALSE
        BY DEF OneRowPerPerson
    <2>1. e \in Emails \ disturbed /\ f \in Emails \ disturbed /\ OfOnePerson(e, f)
        BY UserAssumption DEF RowsOf, OfOnePerson, Settled
    <2>2. PICK p \in Processes : Moving(p, e, f)
        BY <2>1 DEF PersonsInv
    <2>3. e \in Touches(p)
        BY <2>1, <2>2, UserAssumption DEF Moving, Touches
    <2> QED BY <2>3 DEF Settled
<1> QED BY <1>1, <1>2, <1>3, PTL DEF UsersSpec


-----------------------------------------------------------------------------
(* Administrators.  Where requests overlap, roles are lost, but never all rows *)
(* of such addresses: every request about to delete a marked row stands for    *)
(* another marked row, and one more is left over.                              *)

Kept == {e \in Emails : Exists(e) /\ e \in overlapped}
Deleting == {p \in Processes : pc[p] = "deletingOld" /\ job[p].email \in overlapped}
Migrating == {p \in Processes : /\ pc[p] \in {"readingProfile", "inserting"}
                                /\ job[p].old \in overlapped}

\* More rows than requests.
Spare(P, K) ==
    \E f \in [P -> K], x \in K :
        /\ \A p, q \in P : f[p] = f[q] => p = q
        /\ \A p \in P : f[p] # x

KeptInv == ~operated /\ (Kept # {} \/ Deleting # {} \/ Migrating # {}) => Spare(Deleting, Kept)

HasAdmin == \E e \in Emails : Exists(e) /\ (users[e].type = "PLATFORM" \/ e \in overlapped)

\* A login that is about to create an ORG user.
Joining(p) == pc[p] = "matchingNew" \/ (pc[p] = "creating" /\ job[p].org # NoOrg)

AdminInv ==
    ~operated /\ ((\E e \in Emails : Exists(e)) \/ \E p \in Processes : Joining(p)) => HasAdmin

LEMMA SpareFewer ==
    ASSUME NEW P, NEW K, Spare(P, K), NEW Q \in SUBSET P
    PROVE  Spare(Q, K)
<1>1. PICK f \in [P -> K], x \in K :
          (\A p, q \in P : f[p] = f[q] => p = q) /\ \A p \in P : f[p] # x
    BY DEF Spare
<1> DEFINE g == [p \in Q |-> f[p]]
<1>2. /\ g \in [Q -> K] /\ (\A p, q \in Q : g[p] = g[q] => p = q)
      /\ \A p \in Q : g[p] # x
    BY <1>1
<1> QED BY <1>2 DEF Spare

LEMMA SpareMore ==
    ASSUME NEW P, NEW K, Spare(P, K), NEW Q, NEW L, NEW h \in [Q -> L],
           \A p, q \in Q : h[p] = h[q] => p = q,
           P \cap Q = {}, K \cap L = {}
    PROVE  Spare(P \cup Q, K \cup L)
<1>1. PICK f \in [P -> K], x \in K :
          (\A p, q \in P : f[p] = f[q] => p = q) /\ \A p \in P : f[p] # x
    BY DEF Spare
<1> DEFINE g == [p \in P \cup Q |-> IF p \in P THEN f[p] ELSE h[p]]
<1>2. \A p \in P : g[p] = f[p] /\ g[p] \in K
    OBVIOUS
<1>3. \A p \in Q : g[p] = h[p] /\ g[p] \in L
    OBVIOUS
<1>4. g \in [P \cup Q -> K \cup L]
    BY <1>2, <1>3
<1> HIDE DEF g
<1>5. \A p, q \in P \cup Q : g[p] = g[q] => p = q
    <2> SUFFICES ASSUME NEW p \in P \cup Q, NEW q \in P \cup Q, g[p] = g[q] PROVE p = q
        OBVIOUS
    <2>1. CASE p \in P /\ q \in P
        BY <1>1, <1>2, <2>1
    <2>2. CASE p \in Q /\ q \in Q
        BY <1>3, <2>2
    <2>3. CASE (p \in P /\ q \in Q) \/ (p \in Q /\ q \in P)
        BY <1>2, <1>3, <2>3
    <2> QED BY <2>1, <2>2, <2>3
<1>6. \A p \in P \cup Q : g[p] # x
    BY <1>1, <1>2, <1>3
<1> QED BY <1>1, <1>4, <1>5, <1>6 DEF Spare

\* A request deletes one row, and stands for none then.
LEMMA SpareLess ==
    ASSUME NEW P, NEW K, Spare(P, K), NEW r \in P, NEW k
    PROVE  Spare(P \ {r}, K \ {k})
<1>1. PICK f \in [P -> K], x \in K :
          (\A p, q \in P : f[p] = f[q] => p = q) /\ \A p \in P : f[p] # x
    BY DEF Spare
<1> DEFINE g == [p \in P \ {r} |-> IF f[p] = k THEN f[r] ELSE f[p]]
           y == IF x = k THEN f[r] ELSE x
<1>2. g \in [P \ {r} -> K \ {k}] /\ y \in K \ {k}
    BY <1>1
<1>3. \A p, q \in P \ {r} : g[p] = g[q] => p = q
    BY <1>1
<1>4. \A p \in P \ {r} : g[p] # y
    BY <1>1
<1> HIDE DEF g, y
<1> QED BY <1>2, <1>3, <1>4 DEF Spare

\* A row that no request stands for.
LEMMA SpareAlone ==
    ASSUME NEW Q, NEW L, NEW h \in [Q -> L], \A p, q \in Q : h[p] = h[q] => p = q,
           NEW x \in L, \A p \in Q : h[p] # x
    PROVE  Spare(Q, L)
BY DEF Spare

LEMMA SpareSome == ASSUME NEW P, NEW K, Spare(P, K) PROVE K # {}
BY DEF Spare

\* Before an operator acts there are only logins, and no step of an operator's.
LEMMA OnlyLogins ==
    ASSUME UsersInv, ~operated, NEW p \in Processes
    PROVE  /\ pc[p] \notin {"storing", "deletingUser"}
           /\ pc[p] = "creating" => job[p].kind = "login"
<1>1. job[p] \in Job /\ ShapeOK(pc[p], job[p])
    BY StandsAlone DEF UsersInv, TypeInv, UsersTypeOK
<1>2. job[p].kind \in {"login", "none"}
    BY <1>1 DEF UsersInv, KindInv, Job
<1> QED BY <1>1, <1>2 DEF ShapeOK


\* Marked rows: a request works on marked addresses only, or on none.
LEMMA AllOrNone ==
    ASSUME UsersInv, NEW p \in Processes, Working(p)
    PROVE  \/ Touches(p) \subseteq overlapped
           \/ Outside(p, overlapped) /\ CopyFits(p)
BY StandsAlone DEF UsersInv, MarksInv, MarksFit, Outside

\* What a step of p does to the marked rows and to the requests about to delete.
LEMMA KeptSteps ==
    ASSUME UsersInv, NEW p \in Processes, OwnStep(p)
    PROVE  /\ \A e \in Emails \ Touches(p) : e \in Kept' <=> e \in Kept
           /\ \A q \in Processes \ {p} : /\ q \in Deleting' <=> q \in Deleting
                                         /\ q \in Migrating' <=> q \in Migrating
<1>1. overlapped' = overlapped
    BY DEF OwnStep
<1>2. \A e \in Emails \ Touches(p) : users'[e] = users[e]
    BY DEF OwnStep
<1>3. \A e \in Emails \ Touches(p) : e \in Kept' <=> e \in Kept
    BY <1>1, <1>2 DEF Kept, Exists
<1> QED BY <1>1, <1>3 DEF OwnStep, Deleting, Migrating

\* Only a read of the profile leads on to the insertion, and only that to the deletion.
LEMMA ToMigration ==
    ASSUME TypeInv, NEW p \in Processes, Proceed(p) \/ StorageFails(p) \/ Die(p),
           pc'[p] \in {"readingProfile", "inserting", "deletingOld"}
    PROVE  \/ /\ ReadProfile(p) /\ pc'[p] = "inserting" /\ job'[p].old = job[p].old
              /\ Exists(job[p].old)
           \/ InsertMigrated(p) /\ pc'[p] = "deletingOld"
<1> DEFINE Moves == {"readingProfile", "inserting", "deletingOld"}
<1>1. \A step, new : Continue(p, step, new) => pc'[p] = step /\ job'[p] = new /\ step \in Moves
    BY Continues
<1>2. ~BreakOff(p) /\ ~End(p)
    BY <1>1, BreaksOff, SomeStep DEF End
<1>3. CASE ReadProfile(p)
    <2> DEFINE row == users[job[p].old]
               other == [job[p] EXCEPT !.copy = row, !.member = row.type = "ORG"]
    <2>1. Exists(job[p].old) /\ job[p].old # job[p].email /\ Continue(p, "inserting", other)
        BY <1>1, <1>3 DEF ReadProfile
    <2>2. other.old = job[p].old
        BY DEF TypeInv, UsersTypeOK, Job
    <2> HIDE DEF other
    <2>3. pc'[p] = "inserting" /\ job'[p] = other
        BY <2>1, Continues
    <2> QED BY <1>3, <2>1, <2>2, <2>3
<1>4. CASE InsertMigrated(p)
    BY <1>1, <1>4 DEF InsertMigrated
<1>5. ~FindByEmail(p) /\ ~ReadToBackfill(p) /\ ~LookForOrg(p) /\ ~AnyUsers(p) /\ ~MatchDomain(p)
    BY <1>1, <1>2 DEF FindByEmail, ReadToBackfill, LookForOrg, AnyUsers, MatchDomain, GoTo
<1>6. ~ReadToStamp(p) /\ ~StampMissing(p) /\ ~FindOrg(p) /\ ~RemoveReverse(p)
    BY <1>1, <1>2 DEF ReadToStamp, StampMissing, FindOrg, RemoveReverse, AfterRemoval, AfterStamp,
       End, GoTo
<1>7. ~DeleteOld(p) /\ ~DeleteRow(p) /\ ~Assign(p) /\ ~RemoveForward(p)
    BY <1>1 DEF DeleteOld, DeleteRow, Assign, RemoveForward, GoTo
<1>8. ~Create(p) /\ ~Store(p) /\ ~Mirror(p) /\ ~Conflict(p) /\ ~Die(p)
    BY <1>1, <1>2 DEF Create, Store, Mirror, Conflict, Die, GoTo
<1>9. ~StorageFails(p)
    <2>1. CASE pc[p] \in {"removingForward", "removingReverse"} /\ p \in Operators
        BY <2>1 DEF StorageFails, TypeInv, UsersTypeOK
    <2>2. CASE ~(pc[p] \in {"removingForward", "removingReverse"} /\ p \in Operators)
        BY <1>1, <1>2, <2>2 DEF StorageFails
    <2> QED BY <2>1, <2>2
<1> QED BY <1>3, <1>4, <1>5, <1>6, <1>7, <1>8, <1>9 DEF Proceed

LEMMA InsertKeeps ==
    ASSUME UsersInv, KeptInv, NEW p \in Processes, InsertMigrated(p), ~operated
    PROVE  /\ Kept' # {} \/ Deleting' # {} \/ Migrating' # {} => Spare(Deleting, Kept)'
           /\ job[p].email \in overlapped => Spare(Deleting, Kept)'
<1> DEFINE e == job[p].email
           old == job[p].old
           free == [job[p] EXCEPT !.copy = NoUser]
<1>1. TypeInv /\ OwnStep(p) /\ overlapped' = overlapped
    BY OwnSteps DEF UsersInv, Proceed, OwnStep
<1>2. /\ pc[p] = "inserting" /\ ~Exists(e) /\ Continue(p, "deletingOld", free)
      /\ users' = [users EXCEPT ![e] = job[p].copy]
    BY DEF InsertMigrated
<1>3. job[p] \in Job /\ JobOK(pc[p], job[p]) /\ Working(p) /\ ShapeOK(pc[p], job[p])
    BY <1>1, <1>2, StandsAlone DEF UsersInv, TypeInv, UsersTypeOK, JobsOK, Working
<1>4. e \in Emails /\ old \in Emails /\ job[p].copy \in UserRow
    BY <1>2, <1>3 DEF JobOK
<1>5. e \in Touches(p) /\ old \in Touches(p)
    BY <1>4, UserAssumption DEF Touches
<1>6. /\ users'[e] # NoUser /\ \A f \in Emails : f # e => users'[f] = users[f]
    BY <1>1, <1>2, <1>4, NotARow DEF TypeInv, UsersTypeOK
<1>7. pc'[p] = "deletingOld" /\ job'[p].email = e
    BY <1>1, <1>2, <1>3, Continues DEF Job
<1>8. CASE e \in overlapped
    <2>1. old \in overlapped
        BY <1>3, <1>5, <1>8, AllOrNone DEF Outside
    <2>2. Spare(Deleting, Kept)
        BY <1>2, <2>1 DEF KeptInv, Migrating
    <2>3. Kept' = Kept \cup {e} /\ e \notin Kept
        BY <1>1, <1>2, <1>4, <1>6, <1>8 DEF Kept, Exists
    <2>4. Deleting' = Deleting \cup {p} /\ p \notin Deleting
        <3>1. p \in Deleting' /\ p \notin Deleting
            BY <1>1, <1>2, <1>7, <1>8 DEF Deleting
        <3>2. \A q \in Processes \ {p} : q \in Deleting' <=> q \in Deleting
            BY <1>1, KeptSteps
        <3> QED BY <3>1, <3>2 DEF Deleting
    <2> DEFINE h == [q \in {p} |-> e]
    <2>5. h \in [{p} -> {e}] /\ \A q, r \in {p} : h[q] = h[r] => q = r
        OBVIOUS
    <2>6. Spare(Deleting \cup {p}, Kept \cup {e})
        <3>1. Deleting \cap {p} = {} /\ Kept \cap {e} = {}
            BY <2>3, <2>4
        <3> HIDE DEF h, e
        <3> QED BY <2>2, <2>5, <3>1, SpareMore
    <2>7. Spare(Deleting', Kept')
        BY <2>3, <2>4, <2>6
    <2> QED BY <1>8, <2>7 DEF Spare
<1>9. CASE e \notin overlapped
    <2>1. Kept' = Kept
        BY <1>1, <1>2, <1>4, <1>6, <1>9 DEF Kept, Exists
    <2>2. Deleting' = Deleting
        <3>1. p \notin Deleting' /\ p \notin Deleting
            BY <1>1, <1>2, <1>7, <1>9 DEF Deleting
        <3> QED BY <1>1, <3>1, KeptSteps DEF Deleting
    <2>3. Migrating' \subseteq Migrating
        <3>1. p \notin Migrating'
            BY <1>7 DEF Migrating
        <3> QED BY <1>1, <3>1, KeptSteps DEF Migrating
    <2>4. Kept # {} \/ Deleting # {} \/ Migrating # {} => Spare(Deleting', Kept')
        BY <2>1, <2>2 DEF KeptInv
    <2> QED BY <1>9, <2>1, <2>2, <2>3, <2>4 DEF Spare
<1> QED BY <1>8, <1>9


LEMMA DeleteOldKeeps ==
    ASSUME UsersInv, KeptInv, NEW p \in Processes, DeleteOld(p), ~operated
    PROVE  /\ Kept' # {} \/ Deleting' # {} \/ Migrating' # {} => Spare(Deleting, Kept)'
           /\ job[p].email \in overlapped => Spare(Deleting, Kept)'
<1> DEFINE e == job[p].email
           old == job[p].old
<1>1. TypeInv /\ OwnStep(p) /\ overlapped' = overlapped
    BY OwnSteps DEF UsersInv, Proceed, OwnStep
<1>2. /\ pc[p] = "deletingOld" /\ Continue(p, "findingOrg", job[p])
      /\ users' = [users EXCEPT ![old] = NoUser]
    BY DEF DeleteOld, GoTo
<1>3. JobOK(pc[p], job[p]) /\ Working(p)
    BY <1>1, <1>2 DEF TypeInv, JobsOK, Working
<1>4. e \in Emails /\ old \in Emails
    BY <1>2, <1>3 DEF JobOK
<1>5. e \in Touches(p) /\ old \in Touches(p)
    BY <1>4, UserAssumption DEF Touches
<1>6. /\ users'[old] = NoUser /\ \A f \in Emails : f # old => users'[f] = users[f]
    BY <1>1, <1>2, <1>4 DEF TypeInv, UsersTypeOK
<1>7. pc'[p] = "findingOrg"
    BY <1>1, <1>2, Continues
<1>8. Kept' = Kept \ {old}
    BY <1>1, <1>6 DEF Kept, Exists
<1>9. Deleting' = Deleting \ {p} /\ Migrating' \subseteq Migrating
    <2>1. p \notin Deleting' /\ p \notin Migrating'
        BY <1>7 DEF Deleting, Migrating
    <2> QED BY <1>1, <2>1, KeptSteps DEF Deleting, Migrating
<1>10. CASE e \in overlapped
    <2>1. p \in Deleting
        BY <1>2, <1>10 DEF Deleting
    <2>2. Spare(Deleting, Kept)
        BY <2>1 DEF KeptInv
    <2>3. Spare(Deleting \ {p}, Kept \ {old})
        BY <2>1, <2>2, SpareLess
    <2>4. Spare(Deleting', Kept')
        BY <1>8, <1>9, <2>3
    <2> QED BY <2>4 DEF Spare
<1>11. CASE e \notin overlapped
    <2>1. old \notin overlapped /\ p \notin Deleting
        BY <1>3, <1>5, <1>11, AllOrNone DEF Outside, Deleting
    <2>2. Kept' = Kept /\ Deleting' = Deleting
        BY <1>8, <1>9, <2>1 DEF Kept
    <2>3. Kept # {} \/ Deleting # {} \/ Migrating # {} => Spare(Deleting', Kept')
        BY <2>2 DEF KeptInv
    <2> QED BY <1>9, <1>11, <2>2, <2>3 DEF Spare
<1> QED BY <1>10, <1>11

LEMMA CreateKeeps ==
    ASSUME UsersInv, KeptInv, NEW p \in Processes, Create(p), ~operated,
           Kept' # {} \/ Deleting' # {} \/ Migrating' # {}
    PROVE  Spare(Deleting, Kept)'
<1> DEFINE e == job[p].email
<1>1. TypeInv /\ OwnStep(p) /\ overlapped' = overlapped
    BY OwnSteps DEF UsersInv, Proceed, OwnStep
<1>2. /\ pc[p] = "creating" /\ ~Exists(e)
      /\ users' = [users EXCEPT ![e] = job[p].copy]
    BY DEF Create
<1>3. e \in Emails /\ job[p].copy \in UserRow
    BY <1>1, <1>2 DEF TypeInv, JobsOK, JobOK
<1>4. /\ users'[e] # NoUser /\ \A f \in Emails : f # e => users'[f] = users[f]
    BY <1>1, <1>2, <1>3, NotARow DEF TypeInv, UsersTypeOK
<1>5. Deleting' = Deleting /\ Migrating' = Migrating
    <2>1. pc'[p] \notin {"readingProfile", "inserting", "deletingOld"}
        BY <1>1, <1>2, ToMigration DEF Proceed, ReadProfile, InsertMigrated
    <2>2. p \notin Deleting' /\ p \notin Migrating' /\ p \notin Deleting /\ p \notin Migrating
        BY <1>2, <2>1 DEF Deleting, Migrating
    <2> QED BY <1>1, <2>2, KeptSteps DEF Deleting, Migrating
<1>6. CASE Kept # {} \/ Deleting # {} \/ Migrating # {}
    <2> DEFINE L == IF e \in overlapped THEN {e} ELSE {}
               h == [q \in {} |-> e]
    <2>1. Spare(Deleting, Kept)
        BY <1>6 DEF KeptInv
    <2>2. Kept' = Kept \cup L /\ Kept \cap L = {}
        BY <1>1, <1>2, <1>3, <1>4 DEF Kept, Exists
    <2>3. h \in [{} -> L]
        OBVIOUS
    <2> HIDE DEF h, L
    <2>4. Spare(Deleting \cup {}, Kept \cup L)
        BY <2>1, <2>2, <2>3, SpareMore
    <2>5. Deleting \cup {} = Deleting
        OBVIOUS
    <2>6. Spare(Deleting', Kept')
        BY <1>5, <2>2, <2>4, <2>5
    <2> QED BY <2>6 DEF Spare
<1>7. CASE Kept = {} /\ Deleting = {} /\ Migrating = {}
    <2>1. PICK x : x \in Kept'
        BY <1>5, <1>7
    <2> DEFINE h == [q \in {} |-> e]
    <2>2. h \in [{} -> Kept']
        OBVIOUS
    <2> HIDE DEF h
    <2>3. Spare({}, Kept')
        BY <2>1, <2>2, SpareAlone
    <2>4. Spare(Deleting', Kept')
        BY <1>5, <1>7, <2>3
    <2> QED BY <2>4 DEF Spare
<1> QED BY <1>6, <1>7

\* A step that leaves the marked rows there.
LEMMA OtherStepKeeps ==
    ASSUME UsersInv, KeptInv, NEW p \in Processes, Proceed(p) \/ StorageFails(p) \/ Die(p),
           ~operated, ~InsertMigrated(p), ~DeleteOld(p), ~Create(p),
           Kept' # {} \/ Deleting' # {} \/ Migrating' # {}
    PROVE  Spare(Deleting, Kept)'
<1>1. TypeInv /\ RolesInv /\ OwnStep(p) /\ overlapped' = overlapped
    BY OwnSteps DEF UsersInv, OwnStep
<1>2. Kept' = Kept
    <2>1. CASE users' = users
        BY <1>1, <2>1 DEF Kept, Exists
    <2>2. CASE Store(p)
        <3>1. /\ job[p].email \in Emails /\ users'[job[p].email] # NoUser /\ Exists(job[p].email)
              /\ \A f \in Emails : f # job[p].email => users'[f] = users[f]
            BY <1>1, <2>2, Stores DEF TypeInv, UsersTypeOK, Store
        <3> QED BY <1>1, <3>1 DEF Kept, Exists
    <2>3. CASE DeleteRow(p)
        BY <2>3, OnlyLogins DEF DeleteRow
    <2>4. CASE StorageFails(p) \/ Die(p)
        BY <2>1, <2>4 DEF StorageFails, Die, tableVars
    <2> QED BY <2>1, <2>2, <2>3, <2>4, RowWriters
<1>3. Deleting' \subseteq Deleting
    <2>1. p \notin Deleting'
        BY <1>1, ToMigration DEF Deleting
    <2> QED BY <1>1, <2>1, KeptSteps DEF Deleting
<1>4. Migrating' \subseteq Migrating
    <2>1. p \in Migrating' => p \in Migrating
        <3>1. ASSUME p \in Migrating' PROVE p \in Migrating
            <4>1. ReadProfile(p) /\ job'[p].old = job[p].old
                BY <1>1, <3>1, ToMigration DEF Migrating
            <4>2. job'[p].old \in overlapped
                BY <1>1, <3>1 DEF Migrating
            <4> QED BY <4>1, <4>2 DEF ReadProfile, Migrating
        <3> QED BY <3>1
    <2> QED BY <1>1, <2>1, KeptSteps DEF Migrating
<1>5. Spare(Deleting, Kept)
    BY <1>2, <1>3, <1>4 DEF KeptInv
<1>6. Spare(Deleting', Kept')
    BY <1>2, <1>3, <1>5, SpareFewer
<1> QED BY <1>6 DEF Spare

\* A new request marks the rows of those that it meets.
LEMMA BeginKeeps ==
    ASSUME UsersInv, KeptInv, NEW p \in Processes, NEW step, NEW new, Begin(p, step, new),
           users' = users, ~operated, step \notin {"inserting", "deletingOld"},
           step = "readingProfile" => new.old \in Emails /\ Exists(new.old),
           Kept' # {} \/ Deleting' # {} \/ Migrating' # {}
    PROVE  Spare(Deleting, Kept)'
<1> DEFINE Q == Deleting' \ Deleting
           L == Kept' \ Kept
           h == [q \in Q |-> job[q].email]
<1>1. /\ TypeInv /\ pc[p] = "idle" /\ pc'[p] = step /\ job'[p] = new
      /\ \A q \in Processes \ {p} : pc'[q] = pc[q] /\ job'[q] = job[q]
      /\ overlapped' = Marked(overlapped, TouchedBy(new), Met(p, TouchedBy(new), new.person))
      /\ overlapped \subseteq overlapped'
    BY Begins DEF UsersInv, Marked
<1>2. Kept' = Kept \cup L /\ Kept \cap L = {}
    BY <1>1 DEF Kept, Exists
<1>3. Deleting' = Deleting \cup Q /\ Deleting \cap Q = {}
    BY <1>1 DEF Deleting
<1>4. MarksInv'
    BY BeginMarks DEF UsersInv
<1>5. ASSUME NEW q \in Processes, q # p, pc[q] \in {"readingProfile", "inserting", "deletingOld"},
             ~(Touches(q) \subseteq overlapped), NEW e \in Touches(q), e \in overlapped'
      PROVE  /\ job[q].old \in L
             /\ pc[q] = "deletingOld" => job[q].email \in L /\ job[q].old # job[q].email
    <2>1. Working(q)
        BY <1>5 DEF Working
    <2>2. Outside(q, overlapped) /\ CopyFits(q)
        BY <1>5, <2>1, AllOrNone
    <2>3. job[q].email \in Emails /\ job[q].old \in Emails
        BY <1>1, <1>5 DEF TypeInv, JobsOK, JobOK
    <2>4. job[q].email \in Touches(q) /\ job[q].old \in Touches(q)
        BY <2>3, UserAssumption DEF Touches
    <2>5. Touches(q) \subseteq overlapped'
        <3>1. Touches(q)' = Touches(q)
            BY <1>1, <1>5 DEF Touches
        <3> QED BY <1>4, <1>5, <3>1 DEF MarksInv, MarksFit
    <2>6. /\ Exists(job[q].old)
          /\ pc[q] = "deletingOld" => Exists(job[q].email)
        BY <1>5, <2>2 DEF CopyFits, Exists
    <2>7. pc[q] = "deletingOld" => job[q].old # job[q].email
        BY StandsAlone DEF UsersInv, ShapeOK
    <2> QED BY <2>2, <2>3, <2>4, <2>5, <2>6, <2>7 DEF Outside, Kept, Exists
<1>6. \A q \in Q : /\ q \in Processes /\ q # p /\ pc[q] = "deletingOld"
                   /\ job[q].email \in Touches(q) /\ job[q].old \in Touches(q)
                   /\ ~(Touches(q) \subseteq overlapped)
                   /\ job[q].email \in L /\ job[q].old \in L /\ job[q].old # job[q].email
    <2> SUFFICES ASSUME NEW q \in Q
                 PROVE  /\ q \in Processes /\ q # p /\ pc[q] = "deletingOld"
                        /\ job[q].email \in Touches(q) /\ job[q].old \in Touches(q)
                        /\ ~(Touches(q) \subseteq overlapped)
                        /\ job[q].email \in L /\ job[q].old \in L /\ job[q].old # job[q].email
        OBVIOUS
    <2>1. q \in Processes /\ q # p /\ pc[q] = "deletingOld"
        BY <1>1 DEF Deleting
    <2>2. job[q].email \in overlapped' /\ job[q].email \notin overlapped
        BY <1>1, <2>1 DEF Deleting
    <2>3. job[q].email \in Touches(q) /\ job[q].old \in Touches(q)
        BY <1>1, <2>1, UserAssumption DEF TypeInv, JobsOK, JobOK, Touches
    <2>4. ~(Touches(q) \subseteq overlapped)
        BY <2>2, <2>3
    <2> QED BY <1>5, <2>1, <2>2, <2>3, <2>4
<1>7. h \in [Q -> L]
    BY <1>6
<1>8. ASSUME NEW q \in Q, NEW r \in Q, q # r PROVE Touches(q) \cap Touches(r) = {}
    <2>1. ~Meets(q, r)
        BY <1>6, <1>8 DEF UsersInv, MarksInv, MarksFit
    <2> QED BY <2>1 DEF Meets
<1>9. \A q, r \in Q : h[q] = h[r] => q = r
    BY <1>6, <1>8
<1>10. CASE Kept # {} \/ Deleting # {} \/ Migrating # {}
    <2>1. Spare(Deleting, Kept)
        BY <1>10 DEF KeptInv
    <2> HIDE DEF h, Q, L
    <2>2. Spare(Deleting \cup Q, Kept \cup L)
        BY <1>2, <1>3, <1>7, <1>9, <2>1, SpareMore
    <2>3. Spare(Deleting', Kept')
        BY <1>2, <1>3, <2>2
    <2> QED BY <2>3 DEF Spare
<1>11. CASE Kept = {} /\ Deleting = {} /\ Migrating = {}
    <2>1. \E x \in L : \A q \in Q : h[q] # x
        <3>1. CASE Q # {}
            <4>1. PICK r \in Q : TRUE
                BY <3>1
            <4>2. \A q \in Q : h[q] # job[r].old
                BY <1>6, <1>8
            <4> QED BY <1>6, <4>1, <4>2
        <3>2. CASE Q = {} /\ Kept' # {}
            BY <1>11, <3>2
        <3>3. CASE Q = {} /\ Migrating' # {}
            <4>1. PICK q : q \in Migrating'
                BY <3>3
            <4>2. q \in Processes /\ job'[q].old \in overlapped'
                BY <4>1 DEF Migrating
            <4>3. CASE q = p
                <5>1. new.old \in Emails /\ Exists(new.old) /\ new.old \in overlapped'
                    BY <1>1, <4>1, <4>3 DEF Migrating
                <5>2. new.old \in Kept'
                    BY <5>1 DEF Kept, Exists
                <5> QED BY <1>11, <3>3, <5>2
            <4>4. CASE q # p
                <5>1. /\ pc[q] \in {"readingProfile", "inserting"} /\ job[q].old \in overlapped'
                      /\ job[q].old \notin overlapped
                    BY <1>1, <1>11, <4>1, <4>4 DEF Migrating
                <5>2. job[q].old \in Touches(q)
                    BY <1>1, <4>2, <5>1, UserAssumption DEF TypeInv, JobsOK, JobOK, Touches
                <5>3. job[q].old \in L
                    BY <1>5, <4>2, <4>4, <5>1, <5>2
                <5> QED BY <3>3, <5>3
            <4> QED BY <4>3, <4>4
        <3> QED BY <1>3, <1>11, <3>1, <3>2, <3>3
    <2> HIDE DEF h, Q, L
    <2>2. Spare(Q, L)
        BY <1>7, <1>9, <2>1, SpareAlone
    <2>3. Spare(Deleting', Kept')
        BY <1>2, <1>3, <1>11, <2>2
    <2> QED BY <2>3 DEF Spare
<1> QED BY <1>10, <1>11


LEMMA NextKept == UsersInv /\ KeptInv /\ [UsersNext]_userVars => KeptInv'
<1> SUFFICES ASSUME UsersInv, KeptInv, [UsersNext]_userVars, ~operated',
                    Kept' # {} \/ Deleting' # {} \/ Migrating' # {}
             PROVE  Spare(Deleting, Kept)'
    BY DEF KeptInv
<1>0. ~operated
    <2>1. ASSUME NEW p \in Processes, Proceed(p)
          PROVE  operated' = operated
        <3>1. CASE \/ ReadProfile(p) \/ InsertMigrated(p) \/ DeleteOld(p) \/ FindByEmail(p)
                   \/ ReadToBackfill(p) \/ ReadToStamp(p) \/ LookForOrg(p) \/ AnyUsers(p)
                   \/ MatchDomain(p) \/ Create(p) \/ Store(p) \/ StampMissing(p)
            BY <3>1 DEF ReadProfile, InsertMigrated, DeleteOld, FindByEmail, ReadToBackfill,
                        ReadToStamp, LookForOrg, AnyUsers, MatchDomain, Create, Store, StampMissing
        <3>2. CASE \/ Assign(p) \/ Mirror(p) \/ Conflict(p) \/ FindOrg(p) \/ RemoveForward(p)
                   \/ RemoveReverse(p) \/ DeleteRow(p)
            BY <3>2 DEF Assign, Mirror, Conflict, FindOrg, RemoveForward, RemoveReverse, DeleteRow
        <3> QED BY <2>1, <3>1, <3>2 DEF Proceed
    <2>2. ASSUME NEW p \in Operators, NEW e \in Emails,
                 \/ CreateUser(p, e) \/ PromoteUser(p, e) \/ DemoteUser(p, e)
                 \/ EditUser(p, e) \/ DeleteUser(p, e)
          PROVE  operated'
        BY <2>2 DEF CreateUser, PromoteUser, DemoteUser, EditUser, DeleteUser, Operate
    <2> QED BY <2>1, <2>2 DEF UsersNext, BeginLogin, StorageFails, Die, SetOrgActive, userVars
<1>1. ASSUME NEW p \in Logins, NEW id \in Identities, BeginLogin(p, id[1], id[2])
      PROVE  Spare(Deleting, Kept)'
    <2> DEFINE rows == IF id[1] = NoPerson THEN {} ELSE RowsOf(id[1])
               login == [NoJob EXCEPT !.kind = "login", !.person = id[1], !.email = id[2]]
               first == Min(rows)
               changed == [login EXCEPT !.old = first, !.member = users[first].type = "ORG"]
    <2>1. p \in Processes /\ users' = users
        BY <1>1 DEF Processes, BeginLogin, tableVars
    <2>2. PICK step, new : /\ Begin(p, step, new) /\ step \in {"byEmail", "readingProfile", "touching"}
                           /\ step = "readingProfile" => rows # {} /\ new = changed
        BY <1>1 DEF BeginLogin
    <2>3. step = "readingProfile" => new.old \in Emails /\ Exists(new.old)
        <3>1. changed.old = first
            BY DEF NoJob
        <3>2. rows # {} => first \in Emails /\ Exists(first)
            BY RowsOfEmails DEF RowsOf
        <3> HIDE DEF changed
        <3> QED BY <2>2, <3>1, <3>2
    <2> QED BY <1>0, <2>1, <2>2, <2>3, BeginKeeps
<1>2. ASSUME NEW k \in Operators, NEW e \in Emails,
             \/ CreateUser(k, e) \/ PromoteUser(k, e) \/ DemoteUser(k, e)
             \/ EditUser(k, e) \/ DeleteUser(k, e)
      PROVE  FALSE
    BY <1>2 DEF CreateUser, PromoteUser, DemoteUser, EditUser, DeleteUser, Operate
<1>3. ASSUME NEW p \in Processes, Proceed(p) \/ StorageFails(p) \/ Die(p)
      PROVE  Spare(Deleting, Kept)'
    BY <1>0, <1>3, InsertKeeps, DeleteOldKeeps, CreateKeeps, OtherStepKeeps
<1>4. CASE (\E o \in Orgs : SetOrgActive(o)) \/ UNCHANGED userVars
    <2>1. UNCHANGED <<users, pc, job, overlapped>>
        BY <1>4 DEF SetOrgActive, userVars, tableVars
    <2>2. Kept' = Kept /\ Deleting' = Deleting /\ Migrating' = Migrating
        BY <2>1 DEF Kept, Exists, Deleting, Migrating
    <2>3. Spare(Deleting, Kept)
        BY <1>0, <2>2 DEF KeptInv
    <2>4. Spare(Deleting', Kept')
        BY <2>2, <2>3
    <2> QED BY <2>4 DEF Spare
<1> QED BY <1>1, <1>2, <1>3, <1>4 DEF UsersNext

\* Who comes to create an ORG user has seen a user.
LEMMA ToJoining ==
    ASSUME UsersInv, NEW p \in Processes, Proceed(p) \/ StorageFails(p) \/ Die(p), Joining(p)'
    PROVE  (\E e \in Emails : Exists(e)) \/ Joining(p)
<1>1. TypeInv
    BY DEF UsersInv
<1>2. pc'[p] \in {"matchingNew", "creating"} /\ pc[p] \in NewSteps
    BY <1>1, StillNew DEF Joining, NewSteps
<1>3. \A step, new : Continue(p, step, new) => step \in {"matchingNew", "creating"}
    BY <1>1, <1>2, Continues
<1>4. ~BreakOff(p) /\ ~End(p)
    BY <1>1, <1>3, <1>2, BreaksOff, SomeStep DEF End
<1>5. AnyUsers(p) \/ MatchDomain(p)
    <2>1. ~StorageFails(p) /\ ~Die(p) /\ ~Conflict(p)
        BY <1>2, <1>4 DEF StorageFails, Die, Conflict, NewSteps
    <2>2. ~FindByEmail(p) /\ ~ReadToBackfill(p)
        BY <1>3 DEF FindByEmail, ReadToBackfill, GoTo
    <2>3. ~Create(p) /\ ~Store(p)
        BY <1>2, <1>3, <1>4 DEF Create, Store, NewSteps
    <2>4. FindByEmail(p) \/ ReadToBackfill(p) \/ AnyUsers(p) \/ MatchDomain(p) \/ Create(p) \/ Store(p)
        BY <1>2, <2>1 DEF Proceed, NewSteps, ReadProfile, InsertMigrated, DeleteOld, ReadToStamp,
           LookForOrg, StampMissing, Assign, Mirror, FindOrg, RemoveForward, RemoveReverse, DeleteRow
    <2> QED BY <2>2, <2>3, <2>4
<1>6. CASE AnyUsers(p) /\ ~\E e \in Emails : Exists(e)
    <2> DEFINE row == [entra |-> job[p].person, type |-> "PLATFORM"]
               first == [job[p] EXCEPT !.copy = row]
    <2>1. Continue(p, "creating", first)
        BY <1>6 DEF AnyUsers
    <2>2. job[p] \in Job /\ job[p].org = NoOrg
        BY <1>6, StandsAlone DEF UsersInv, TypeInv, UsersTypeOK, ShapeOK, AnyUsers
    <2> HIDE DEF row
    <2>3. first.org = NoOrg
        BY <2>2 DEF Job
    <2> HIDE DEF first
    <2>4. pc'[p] = "creating" /\ job'[p] = first
        BY <1>1, <2>1, Continues
    <2> QED BY <2>3, <2>4 DEF Joining
<1>7. CASE MatchDomain(p)
    <2>1. pc[p] # "matching"
        BY <1>2 DEF NewSteps
    <2> QED BY <1>7, <2>1 DEF MatchDomain, Joining
<1> QED BY <1>5, <1>6, <1>7


LEMMA ProceedAdmin ==
    ASSUME UsersInv, KeptInv, AdminInv, NEW p \in Processes,
           Proceed(p) \/ StorageFails(p) \/ Die(p), ~operated,
           (\E e \in Emails : Exists(e)') \/ \E q \in Processes : Joining(q)'
    PROVE  HasAdmin'
<1> DEFINE email == job[p].email
           old == job[p].old
<1>1. /\ TypeInv /\ RolesInv /\ overlapped' = overlapped
      /\ \A q \in Processes \ {p} : pc'[q] = pc[q] /\ job'[q] = job[q]
    BY OwnSteps DEF UsersInv, OwnStep
<1>2. Kept' # {} => HasAdmin'
    BY DEF Kept, HasAdmin, Exists
<1>3. ASSUME \E e \in Emails : Exists(e)
      PROVE  HasAdmin
    BY <1>3 DEF AdminInv
<1>4. ASSUME NEW e \in Emails, Exists(e)', users'[e].type = "PLATFORM" \/ e \in overlapped
      PROVE  HasAdmin'
    BY <1>1, <1>4 DEF HasAdmin, Exists
<1>5. CASE users' = users
    <2>1. (\E e \in Emails : Exists(e)) \/ \E q \in Processes : Joining(q)
        <3>1. ASSUME NEW q \in Processes, Joining(q)'
              PROVE  (\E e \in Emails : Exists(e)) \/ Joining(q)
            <4>1. CASE q = p
                BY <3>1, <4>1, ToJoining
            <4>2. CASE q # p
                BY <1>1, <3>1, <4>2 DEF Joining
            <4> QED BY <4>1, <4>2
        <3> QED BY <1>5, <3>1 DEF Exists
    <2>2. HasAdmin
        BY <2>1 DEF AdminInv
    <2> QED BY <1>1, <1>5, <2>2 DEF HasAdmin, Exists
<1>6. CASE Store(p)
    <2>1. /\ email \in Emails /\ Exists(email) /\ email \in Touches(p) /\ pc[p] # "storing"
          /\ users' = [users EXCEPT ![email] = Merged(users[email], job[p].copy)]
          /\ users'[email] # NoUser
          /\ CopyFits(p) => users'[email].type = users[email].type
        BY <1>1, <1>6, Stores, OnlyLogins DEF Store
    <2>2. PICK e \in Emails : Exists(e) /\ (users[e].type = "PLATFORM" \/ e \in overlapped)
        BY <1>3, <2>1 DEF HasAdmin
    <2>3. CASE e # email
        <3>1. users'[e] = users[e]
            BY <1>1, <2>1, <2>3 DEF TypeInv, UsersTypeOK
        <3> QED BY <1>4, <2>2, <3>1 DEF Exists
    <2>4. CASE e = email
        <3>1. e \in overlapped \/ CopyFits(p)
            BY <1>1, <2>1, <2>4, AllOrNone, WorkingTouches
        <3> QED BY <1>4, <2>1, <2>2, <2>4, <3>1 DEF Exists
    <2> QED BY <2>3, <2>4
<1>7. CASE Create(p)
    <2>1. /\ pc[p] = "creating" /\ ~Exists(email) /\ email \in Emails
          /\ users' = [users EXCEPT ![email] = job[p].copy] /\ job[p].copy \in UserRow
        BY <1>1, <1>7 DEF Create, TypeInv, JobsOK, JobOK
    <2>2. users'[email] = job[p].copy /\ users'[email] # NoUser
        BY <1>1, <2>1, NotARow DEF TypeInv, UsersTypeOK
    <2>3. CASE job[p].org = NoOrg
        <3>1. job[p].copy.type # "ORG"
            BY <2>1, <2>3, OnlyLogins, StandsAlone DEF UsersInv, ShapeOK
        <3>2. job[p].copy.type = "PLATFORM"
            BY <2>1, <3>1 DEF UserRow
        <3> QED BY <1>4, <2>1, <2>2, <3>2 DEF Exists
    <2>4. CASE job[p].org # NoOrg
        <3>1. HasAdmin
            BY <2>1, <2>4 DEF AdminInv, Joining
        <3>2. PICK e \in Emails : Exists(e) /\ (users[e].type = "PLATFORM" \/ e \in overlapped)
            BY <3>1 DEF HasAdmin
        <3>3. users'[e] = users[e]
            BY <1>1, <2>1, <3>2 DEF TypeInv, UsersTypeOK
        <3> QED BY <1>4, <3>2, <3>3 DEF Exists
    <2> QED BY <2>3, <2>4
<1>8. CASE InsertMigrated(p)
    <2>1. /\ pc[p] = "inserting" /\ ~Exists(email) /\ Working(p)
          /\ users' = [users EXCEPT ![email] = job[p].copy]
        BY <1>8 DEF InsertMigrated, Working
    <2>2. email \in Touches(p) /\ old \in Emails
        BY <1>1, <2>1, UserAssumption DEF Touches, TypeInv, JobsOK, JobOK
    <2>3. CASE email \in overlapped
        <3>1. Spare(Deleting', Kept')
            BY <1>8, <2>3, InsertKeeps DEF Spare
        <3> QED BY <1>2, <3>1, SpareSome
    <2>4. CASE email \notin overlapped
        <3>1. Exists(old)
            BY <2>1, <2>2, <2>4, AllOrNone DEF CopyFits
        <3>2. PICK e \in Emails : Exists(e) /\ (users[e].type = "PLATFORM" \/ e \in overlapped)
            BY <1>3, <2>2, <3>1 DEF HasAdmin
        <3>3. users'[e] = users[e]
            BY <1>1, <2>1, <3>2 DEF TypeInv, UsersTypeOK
        <3> QED BY <1>4, <3>2, <3>3 DEF Exists
    <2> QED BY <2>3, <2>4
<1>9. CASE DeleteOld(p)
    <2>1. /\ pc[p] = "deletingOld" /\ Working(p)
          /\ users' = [users EXCEPT ![old] = NoUser]
        BY <1>9 DEF DeleteOld, Working
    <2>2. /\ email \in Emails /\ email \in Touches(p) /\ old \in Emails /\ old \in Touches(p)
          /\ old # email
        BY <1>1, <2>1, StandsAlone, UserAssumption DEF Touches, TypeInv, JobsOK, JobOK, ShapeOK
    <2>3. CASE email \in overlapped
        <3>1. Spare(Deleting', Kept')
            BY <1>9, <2>3, DeleteOldKeeps DEF Spare
        <3> QED BY <1>2, <3>1, SpareSome
    <2>4. CASE email \notin overlapped
        <3>1. Outside(p, overlapped) /\ CopyFits(p)
            BY <2>1, <2>2, <2>4, AllOrNone
        <3>2. Exists(email) /\ users[email] = users[old] /\ old \notin overlapped
            BY <2>1, <2>2, <3>1 DEF CopyFits, Outside
        <3>3. PICK e \in Emails : Exists(e) /\ (users[e].type = "PLATFORM" \/ e \in overlapped)
            BY <1>3, <2>2, <3>2 DEF HasAdmin
        <3>4. \A f \in Emails : f # old => users'[f] = users[f]
            BY <1>1, <2>1 DEF TypeInv, UsersTypeOK
        <3>5. CASE e # old
            BY <1>4, <3>3, <3>4, <3>5 DEF Exists
        <3>6. CASE e = old
            <4>1. users'[email] = users[email] /\ users[email].type = "PLATFORM"
                BY <2>2, <3>2, <3>3, <3>4, <3>6
            <4> QED BY <1>4, <2>2, <3>2, <4>1 DEF Exists
        <3> QED BY <3>5, <3>6
    <2> QED BY <2>3, <2>4
<1>10. ~DeleteRow(p)
    BY OnlyLogins DEF DeleteRow
<1> QED BY <1>5, <1>6, <1>7, <1>8, <1>9, <1>10, RowWriters DEF StorageFails, Die, tableVars

LEMMA NextAdmin == UsersInv /\ KeptInv /\ AdminInv /\ [UsersNext]_userVars => AdminInv'
<1> SUFFICES ASSUME UsersInv, KeptInv, AdminInv, [UsersNext]_userVars, ~operated',
                    (\E e \in Emails : Exists(e)') \/ \E q \in Processes : Joining(q)'
             PROVE  HasAdmin'
    BY DEF AdminInv
<1>0. TypeInv
    BY DEF UsersInv
<1>1. ASSUME UNCHANGED <<users, operated>>, overlapped \subseteq overlapped',
             \A q \in Processes : Joining(q)' => Joining(q)
      PROVE  HasAdmin'
    <2>1. HasAdmin
        BY <1>1 DEF AdminInv, Exists
    <2> QED BY <1>1, <2>1 DEF HasAdmin, Exists
<1>2. ASSUME NEW p \in Logins, NEW id \in Identities, BeginLogin(p, id[1], id[2]) PROVE HasAdmin'
    <2>1. p \in Processes /\ UNCHANGED <<users, operated>>
        BY <1>2 DEF Processes, BeginLogin, tableVars
    <2>2. PICK step, new : Begin(p, step, new) /\ step \in {"byEmail", "readingProfile", "touching"}
        BY <1>2 DEF BeginLogin
    <2>3. /\ pc'[p] = step /\ overlapped \subseteq overlapped'
          /\ \A q \in Processes \ {p} : pc'[q] = pc[q] /\ job'[q] = job[q]
        BY <1>0, <2>1, <2>2, Begins DEF Marked
    <2>4. \A q \in Processes : Joining(q)' => Joining(q)
        BY <2>2, <2>3 DEF Joining
    <2> QED BY <1>1, <2>1, <2>3, <2>4
<1>3. ASSUME NEW k \in Operators, NEW e \in Emails,
             \/ CreateUser(k, e) \/ PromoteUser(k, e) \/ DemoteUser(k, e)
             \/ EditUser(k, e) \/ DeleteUser(k, e)
      PROVE  FALSE
    BY <1>3 DEF CreateUser, PromoteUser, DemoteUser, EditUser, DeleteUser, Operate
<1>4. ASSUME NEW p \in Processes, Proceed(p) \/ StorageFails(p) \/ Die(p) PROVE HasAdmin'
    <2>1. ~operated
        BY <1>0, <1>4, OwnSteps DEF OwnStep
    <2> QED BY <1>4, <2>1, ProceedAdmin
<1>5. CASE (\E o \in Orgs : SetOrgActive(o)) \/ UNCHANGED userVars
    <2>1. UNCHANGED <<users, pc, job, overlapped, operated>>
        BY <1>5 DEF SetOrgActive, userVars, tableVars
    <2> QED BY <1>1, <2>1 DEF Joining
<1> QED BY <1>2, <1>3, <1>4, <1>5 DEF UsersNext

LEMMA InitAdmin == UsersInit => KeptInv /\ AdminInv
<1> SUFFICES ASSUME UsersInit PROVE KeptInv /\ AdminInv
    OBVIOUS
<1>1. \A p \in Processes : pc[p] \in {"idle", "stopped"}
    BY DEF UsersInit
<1>2. \A e \in Emails : ~Exists(e)
    BY DEF UsersInit, Exists
<1> QED BY <1>1, <1>2 DEF KeptInv, AdminInv, Kept, Deleting, Migrating, Joining

\* Without an operator, for any logins that overlap, fail or die, users are never
\* without an administrator, unless one remains whose requests overlapped.
THEOREM LoginsKeepAdminAlways == UsersSpec => []LoginsKeepAdmin
<1>1. UsersInit => UsersInv /\ KeptInv /\ AdminInv
    BY InitUsers, InitAdmin
<1>2. UsersInv /\ KeptInv /\ AdminInv /\ [UsersNext]_userVars => (UsersInv /\ KeptInv /\ AdminInv)'
    BY NextUsers, NextKept, NextAdmin
<1>3. AdminInv => LoginsKeepAdmin
    BY DEF AdminInv, HasAdmin, LoginsKeepAdmin
<1> QED BY <1>1, <1>2, <1>3, PTL DEF UsersSpec

\* Users, roles and memberships fit together, and somebody is an administrator,
\* for any people, addresses, organizations and number of requests.
THEOREM UsersConsistentAlways == UsersSpec => []UsersConsistent
BY RolesMatchMembershipsAlways, OneRowPerPersonAlways, LoginsKeepAdminAlways, PTL DEF UsersConsistent
=============================================================================
