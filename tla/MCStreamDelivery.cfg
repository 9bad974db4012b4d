CONSTANTS
    s1 = s1
    c1 = c1
    c2 = c2
    x1 = x1
    x2 = x2
    k1 = k1
    k2 = k2
    a1 = a1
    i1 = i1
    p1 = p1
    NoValue = NoValue
    Sales = {s1}
    CustomerEvents = {c1, c2}
    AddressEvents = {x1, x2}
    Customers = {k1, k2}
    Addresses = {a1}
    Items = {i1}
    Promos = {p1}
    CustomerId <- MCCustomerId
    CustomerAddress <- MCCustomerAddress
    AddressId <- MCAddressId
    BillCustomerId <- MCBillCustomerId
    ShipCustomerId <- MCShipCustomerId
    ItemId <- MCItemId
    PromoId <- MCPromoId
    MaxFailures = 1
SPECIFICATION FairSpec
INVARIANT TypeOK
INVARIANT NoSaleLostOrDuplicated
INVARIANT NoStrandedSale
INVARIANT CommittedIsIndexed
PROPERTY DeliversDenormalizedSales
PROPERTY CheckpointedSaleDelivered
