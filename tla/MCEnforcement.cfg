SPECIFICATION AnySpec
CONSTANTS
    Clients = {"k", "l"}
    Names = {"a", "b"}
    CgroupIds = {"c"}
    MaxIds = 3
    MayShutdown = TRUE
    MayFail = TRUE
    MayTalk = FALSE
    Hooks = {"h"}
INVARIANTS
    
    EnforcersConform
    RefsFaithful
PROPERTIES
    KeepsContract
