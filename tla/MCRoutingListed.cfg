SPECIFICATION Spec
CONSTANTS
    Texts = {"x", "y"}
    NumAdapters = 2
    AdapterIds <- MCAdapterIds
    ObjectIds <- MCObjectIds
    MaxObjects = 2
    OwnOid <- MCOwnOid
    OtherOids <- MCOtherOids
    Requesters = {"q", "r"}
    DataAccess <- MCDataAccess
INVARIANT RoutedToListedObject
