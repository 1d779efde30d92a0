\* Two adapters, which may have the same id, or one that is a part of the other's;
\* objects without an id, with a colon and with a suffix of their own.
SPECIFICATION Spec
CONSTANTS
    Texts = {"x", "y"}
    NumAdapters = 2
    AdapterIds <- MCAdapterIds
    ObjectIds <- MCObjectIds
    MaxObjects = 1
    OwnOid <- MCOwnOid
    OtherOids <- MCOtherOids
    Requesters = {"q", "r"}
    DataAccess <- MCDataAccess
INVARIANTS TypeOK RoutedToItsObject
