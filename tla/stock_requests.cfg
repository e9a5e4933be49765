SPECIFICATION FairSpec
CONSTANTS
    p1 = p1
    p2 = p2
    w1 = w1
    w2 = w2
    s1 = s1
    s2 = s2
    s3 = s3
    Products = {p1, p2}
    Warehouses = {w1, w2}
    Sessions = {s1, s2, s3}
    Nobody = Nobody
    Carts <- MCCarts
    Deliveries <- MCDeliveries
    MaxQty = 2
    Base <- MCBase
    FirstIds <- MCFirstIds
INVARIANT TypeOK
INVARIANT KardexExact
INVARIANT WebNeverOversells
INVARIANT SerialReturnsWithinSale
PROPERTY ApiOrderIsWhole
PROPERTY SaleEnds
