CONSTANTS
    customer = customer
    sale = sale
    c1 = c1
    c2 = c2
    d1 = d1
    s1 = s1
    s2 = s2
    HudiEntities = {customer}
    ParquetEntities = {sale}
    Objects = {c1, c2, d1, s1, s2}
    Entity <- MCEntity
    Key <- MCKey
    Time <- MCTime
    MaxFailures = 1
SPECIFICATION Spec
INVARIANT TypeOK
INVARIANT ProcessedIsKept
INVARIANT NewestIsKept
INVARIANT CopiesByFailure
PROPERTY LandedIsProcessed
