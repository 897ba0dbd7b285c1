CONSTANTS
    c1 = c1  c2 = c2
    Clients = {c1, c2}
    Requests <- MCRequests
    Unscoped = Unscoped
    Malformed = Malformed
    NoJob = NoJob
    Default = "default"
    Cleaned <- MCCleaned
    MaxBatch = 2
    AllowedDomains <- MCAllowedDomains
    Registrations <- MCRegistrations
    MaxSends <- MCMaxSends
    MaxCrashes = 1
SPECIFICATION Spec
INVARIANTS AnswerTellsTruth  ScopesAreRespected
PROPERTIES CallsOutliveTheirHandler AcceptedJobsSettle
CHECK_DEADLOCK FALSE
