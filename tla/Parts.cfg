CONSTANTS
    PolicyRequests <- MCRequests
    Instants <- MCInstants
    MonthStart <- MCMonthStart
    Items = {i1, i2, i3, i4}
    Limits = {1, 2, 3}
    MaxFetches = 5
    Addresses = {d, a, b, u}
    Unparsable = {u}
    Default = d
    NoAddress = NoAddress
    MaxChanges = 4
    Names = {n1, n2}
    Endpoints <- MCEndpoints
    NoAccount = NoAccount
    MaxEdits = 4
    MaxOps = 3
SPECIFICATION Spec
INVARIANTS ShownIsNextFiring TimestampIsScheduled WalkMissesFew PagesMatchItems AddressIsNotStale RestoreUsesItsAccount 
PROPERTIES RepositoryIsKept
CHECK_DEADLOCK FALSE
