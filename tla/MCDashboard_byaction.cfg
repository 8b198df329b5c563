SPECIFICATION Spec
CONSTANTS
    None = None  All = All
    a = a  b = b  p1 = p1  v1 = v1  create = create  autoResponse = autoResponse
    Sections = {"audit-log"}
    MaxOutside = 0
    Ids = {a}
    Payloads = {p1}
    Invalid = Invalid
    PageSize = 1
    StartRows <- OneResponse
    MaxWrites = 0
    Fields = {prefix}
    FieldValues = {v1}
    StartSettings <- AllSetTo1
    MaxSaves = 0
    Actions = {create, update}
    Resources = {autoResponse}
    Filters <- ByAction
    LogPageSize = 1
    MaxLog = 2
    MaxMoves = 3
INVARIANTS FiltersByAction
CHECK_DEADLOCK FALSE
