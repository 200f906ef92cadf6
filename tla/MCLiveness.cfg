SPECIFICATION AnySpec
CHECK_DEADLOCK FALSE
PROPERTIES
    
    DaemonGetsOn
