SPECIFICATION Spec
CONSTANTS
    Repos <- MCRepos
    Packages <- MCPackages
    Services <- MCServices
    Manifests <- MCManifests
    Advisories <- MCAdvisories
    Releases <- MCReleases
    Exclusions <- MCExclusions
    Outage = Outage
    NoCve = NoCve
    Soon = 2
    Publishers = {p1}
    AdoptRepos = 2
    AdoptDays = 1
    TrialRepos = 2
    TrialDays = 0
    AssessRepos = 1
    MaxDay = 1
    MaxAnalyses = 2
    MaxOutages = 1
    MaxRevisions = 1
    MaxPublications = 2
INVARIANTS
    StoredIsBestDeclaration
    ExposureHasCause
    ReadersAgree
    OneLatest
    ExportAgrees
    TimelineLeadsToRadar
    FlagsMatchMovements
CHECK_DEADLOCK FALSE
