SPECIFICATION Spec
CONSTANTS
    Tasks = {t1, t2, t3}
    Replicas = {r1, r2}
    Enabled = {r1}
    Incidents = {i1, i2, i3}
    Confirmed = {i1, i2}
    None = None
INVARIANTS TypeOK LockExcludes OnePullRequest BranchHasOneWriter PullRequestRecorded
