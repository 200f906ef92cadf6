SPECIFICATION AnySpec
CONSTANTS
    p1 = p1
    p2 = p2
    k1 = k1
    k2 = k2
    Pulls <- TwoPulls
    Tags = {"app:1"}
    DigestRefs = {}
    Manifests <- TwoManifests
    Blobs <- TwoBlobs
    ConfigOf <- TwoConfigOf
    LayersOf <- TwoLayersOf
    Registry <- TwoRegistry
    Indexed = {"m3"}
    Unparsable = {"m3"}
    FileOf <- OwnFile
    Removable = {"app:1"}
    MaxFaults = 1
    Faults = {"crash", "disk"}
SYMMETRY Symmetry
INVARIANTS
    LinkedIsStored
    
    
    RowsFaithful
    
