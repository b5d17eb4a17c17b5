SPECIFICATION FairSpec
CONSTANTS
    Domains = {d1, d2}
    Upstreams = {u1}
    Adds = {a1, a2}
    Tokens = {t1, t2}
    None = None
    Upserts = TRUE
    Accepted = {"make_csr", "private_bytes"}
    MaxCerts = 2
    MaxCrashes = 1
INVARIANTS TypeOK IssuedIsWhole StuckOnlyIfBroken TokensWithdrawn RoutedIsSaved
PROPERTY DueIsTried
