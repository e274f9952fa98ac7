SPECIFICATION UsersFairSpec
CONSTANTS
    Emails = {1, 2, 3}
    Orgs = {1, 2}
    NoEmail = NoEmail
    NoOrg = NoOrg
    Persons = {"a", "h"}
    NoPerson = "none"
    Identities <- SteadyAndMoving
    DomainOrgs <- TwoDomains
    Logins = {l1, l2}
    Operators = {k1, k2}
    Scenarios = {{l1, l2}, {l1, k1}}
    Calm = {{l1, l2}}
    MaxDisruptions = 1
INVARIANTS
    UsersTypeOK
    MembershipsMirror
    UsersConsistent
PROPERTIES
    LoginsRepairMembership
    OperatorsChangeRoles
