CONSTANTS
    b1 = b1
    b2 = b2
    none = none
    Clients = {b1, b2}
    Catalogs <- Versions
    Policies <- Deployments
    Limits = {1, 2}
    MaxCursors = 1
    None = none
SPECIFICATION Spec
SYMMETRY Symmetry
INVARIANTS
    TypeOK
    PagesOfOneCatalog
    ListedIsSelectable
