CONSTANTS
    Opens = {o1, o2, o3}
    NoOpen = NoOpen
    TotalCapacity = 2
    OrdinaryCapacity = 1
SPECIFICATION FairSpec
INVARIANTS PermitConservation LedgerShowsOwners
PROPERTIES NoOvertaking OpenResolves PromiseKept
