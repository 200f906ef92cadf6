SPECIFICATION AnySpec
CONSTANTS
    z1 = z1
    z2 = z2
    z3 = z3
    Zones <- ThreeZones
    AddrSpace <- Space
    Subnets <- ParsedSubnets
    MaxStarts = 3
SYMMETRY Symmetry
CHECK_DEADLOCK FALSE
INVARIANTS
    
    ZonesKept
    PoliciesFaithful
PROPERTIES
    ShownReadsBack
