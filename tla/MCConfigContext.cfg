SPECIFICATION ContextSpec
CONSTANTS
    Groups = {"g", "h"}
    Leaf <- LeafDef
    SubLeaves <- SubLeavesDef
    Catalogs <- CatalogsDef
    RootLists <- RootListsDef
INVARIANT GroupUsesItsSubscription
CHECK_DEADLOCK FALSE
