SPECIFICATION Spec
CONSTANTS
    Workers = {w1, w2}
    Repos <- MCRepos
    AzureRepos <- MCAzureRepos
    Listing <- MCListing
    Normal <- MCNormal
    Blank = ""
    MaxBranches = 1
    MaxPullRequests = 1
    MaxComments = 1
    Faults = {"call", "soft", "kill"}
    MaxScans = 2
    MaxFaults = 1
INVARIANTS
    DetectedAreEnriched
CHECK_DEADLOCK FALSE
