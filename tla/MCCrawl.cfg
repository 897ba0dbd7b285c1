CONSTANTS
    r1 = r1  r2 = r2  r3 = r3  r4 = r4  r5 = r5  a = a  b = b
    Runs = {r1, r2, r3, r4, r5}
    Domains = {a, b}
    DomainOf <- MCDomainOf
    MaxConcurrency = 2
    MaxRetries = 2
    MaxRetryDelay = 2
    BackoffFactor = 2
    RetryAfters = {1, 3}
    NoHeader = NoHeader
SPECIFICATION FairSpec
INVARIANTS TypeOK SlotsAccounted WaitsForItsDomain
PROPERTIES NoOvertaking EveryRunIsServed
