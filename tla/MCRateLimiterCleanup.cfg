SPECIFICATION Spec
CONSTANTS
    ip1 = ip1 ip2 = ip2
    IPs <- OneIP
    Unit = 2
    Rate = 1
    Capacity = 4
    StaleAfter = 1
    MaxTime = 6
    NoBucket = NoBucket
SYMMETRY Symmetry
PROPERTIES
    StaleEntriesAreRemoved
