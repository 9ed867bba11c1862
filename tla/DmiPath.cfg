CONSTANTS
    h1 = h1
    h2 = h2
    Handlers = {h1, h2}
    Kinds = {"read", "write"}
    Accesses <- OneKindEach
    RouterSize = 3
    MemorySize = 2
    Top = 3
    Mappings <- MCMappings
SPECIFICATION Spec
INVARIANTS
    NoStaleGrant
    NoStaleRefusal
    OffMeansNoDirectAccess
