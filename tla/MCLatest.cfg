\* Two versions that are tagged from old to new, each once, and released at the same time.
CONSTANTS
    c1 = c1
    c2 = c2
    r1 = r1
    r2 = r2
    Versions <- MCVersions
    Commits = {c1, c2}
    Runs = {r1, r2}
    Backports = FALSE
    MaxReruns = 0
SPECIFICATION Spec
INVARIANT LatestIsNewest
