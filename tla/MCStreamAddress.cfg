CONSTANTS
    s1 = s1
    s2 = s2
    c1 = c1
    c2 = c2
    x1 = x1
    k1 = k1
    a1 = a1
    i1 = i1
    p1 = p1
    NoValue = NoValue
    Sales = {s1, s2}
    CustomerEvents = {c1, c2}
    AddressEvents = {x1}
    Customers = {k1}
    Addresses = {a1}
    Items = {i1}
    Promos = {p1}
    CustomerId <- MCCustomerId
    CustomerAddress <- MCCustomerAddress
    AddressId <- MCAddressId
    BillCustomerId <- MCBillCustomerId
    ShipCustomerId <- MCShipCustomerId
    ItemId <- MCItemId
    PromoId <- MCPromoId
    MaxFailures = 0
SPECIFICATION FairSpec
PROPERTY WaitingCustomerIsJoined
