SPECIFICATION FairSpec
CONSTANTS
    c1 = c1  c2 = c2  c3 = c3  e1 = e1  e2 = e2  o1 = o1  o2 = o2
    Calls <- ThreeCalls
    Executors <- MCExecutors
    NoExecutor = NoExecutor
    Orgs <- MCOrgs
    OrgOf <- MixedOrgOf
    Eligible <- MixedEligible
    MaxInFlight <- MCMaxInFlight
    OrgMax <- MCOrgMax
    LongCalls = FALSE
    MaxErrors = 1
    MaxCrashes = 1
INVARIANTS
    ExecutorLimitKept
    OrgQuotaKept
PROPERTY LeakedPlacesReturn
