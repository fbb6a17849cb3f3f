SPECIFICATION Spec
CONSTANTS
    Platforms = {"github", "azure_devops"}
    Accounts = {"organization", "other"}
    Orgs <- MCOrgs
    Repos <- MCRepos
    Private = {"b"}
    Trees <- MCTrees
    FirstCommits <- MCFirstCommits
    Segments <- MCSegments
    Pulls <- MCPulls
    ReadmeNames <- MCReadmes
    Ecosystem <- MCEcosystem
    ProjectFile <- MCProjectFile
    Extension <- MCExtension
    Reveals <- MCReveals
    PackageNames = {}
    ModuleNames = {"src"}
    ComponentNames = {"docs"}
    Undecodable = {"setup.py", "README.rst"}
    Blank = {"README"}
    PageSize = 1
    MaxItems = 3
    MaxRetries = 1
    MaxChanges = 2
    MaxFailures = 1
    MaxRuns = 1
INVARIANTS
    ExtractorsTypeOK
    AnswersAreFresh
    QuietScanIsComplete
    NoCommitIsLeftOut
    ParentsAreAbove
    PullsAddUp
PROPERTIES
    EveryRunEnds
CHECK_DEADLOCK FALSE
