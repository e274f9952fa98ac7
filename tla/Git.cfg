SPECIFICATION GitSpec
CONSTANTS
    f1 = f1
    f2 = f2
    c1 = c1
    c2 = c2
    Files = {f1, f2}
    Lines = {c1, c2}
    Absent = Absent
    Marked = Marked
    GitRequests = {r1}
    Workers = {w1}
    Duties = {{"configure", "sync", "commit", "resolve", "discard"},
              {"configure", "pull", "push", "commit", "resolve", "discard"},
              {"configure", "pull", "commit", "drop", "fetch"},
              {"validate", "configure", "disconnect", "pull", "push", "fetch"}}
    Origins <- MCOrigins
    Workspaces <- MCWorkspaces
    Trees <- MCTrees
    MaxCommits = 4
    MaxSaves = 1
    MaxFailures = 1
SYMMETRY Symmetry
INVARIANTS
    GitInv
    FollowsUpstream
PROPERTY
    CommitsStay
