------------------------------ MODULE MCInventory ------------------------------
EXTENDS Inventory

CONSTANTS p1, p2, w1, w2, s1, s2, s3

MCLine(p, n) == [p |-> p, n |-> n]

\* Two orders of the same products in opposite order; only the second warehouse
\* can serve the two units of p2 that the first one asks for.
MCCarts == {<<MCLine(p1, 1), MCLine(p2, 2)>>, <<MCLine(p2, 1), MCLine(p1, 1)>>}

MCDeliveries == {[house |-> w2, items |-> <<MCLine(p1, 1)>>]}

\* p1 has one row with a single unit, p2 a first row with one and a second with
\* two.
MCBase == [r \in Products \X Warehouses |->
            IF r = <<p2, w2>> THEN 2 ELSE IF r = <<p1, w2>> THEN 0 ELSE 1]
MCFirstIds == [r \in Products \X Warehouses |->
            IF r = <<p1, w2>> THEN 0 ELSE IF r = <<p2, w2>> THEN 2 ELSE 1]

=============================================================================
