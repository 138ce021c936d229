CONSTANTS
    Skills = {a, b}
    a = a
    b = b
    Reviewers = {r1, r2}
    r1 = r1
    r2 = r2
    Consolidators = {r1}
    Interval = 1
    StaleAfter = 1
    ArchiveAfter = 2
    FirstLibraries <- TwoLibraries
    FirstJobs = {{b}}
    Epoch = 1
    MaxTime = 2
    MaxReviews = 2
    MaxCalls = 2
    Breakable = {"stateRead", "stateSave", "cronRead", "cronWrite", "listing", "raise", "archive", "fork", "reportDir", "crash"}
    MaxUpsets = 1
SPECIFICATION Spec
PROPERTIES LiveSkillsKept
CHECK_DEADLOCK FALSE
