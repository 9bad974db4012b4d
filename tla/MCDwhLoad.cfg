CONSTANTS
    e1 = e1
    e2 = e2
    x1 = x1
    x2 = x2
    s1 = s1
    s2 = s2
    c1 = c1
    a1 = a1
    Unknown = Unknown
    CustomerEvents = {e1, e2}
    AddressEvents = {x1, x2}
    Sales = {s1, s2}
    Customers = {c1}
    Addresses = {a1}
    Loads = {1, 2, 3}
    Run <- MCRun
    Time <- MCTime
    CustomerId <- MCCustomerId
    AddressOf <- MCAddressOf
    EndOfTime = 9
    MaxRunning = 2
SPECIFICATION Spec
INVARIANT TypeOK
INVARIANT NoCustomerSkipped
INVARIANT NoAddressSkipped
INVARIANT UpdatesUnambiguous
INVARIANT VersionsInSequence
INVARIANT NoSaleSkipped
 
CHECK_DEADLOCK FALSE
