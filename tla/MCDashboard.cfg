SPECIFICATION Spec
CONSTANTS
    None = None  All = All
    a = a  b = b  p1 = p1  v1 = v1  create = create  autoResponse = autoResponse
    Sections = {"auto-responses", "settings", "audit-log"}
    MaxOutside = 1
    Ids = {a, b}
    Payloads = {p1, p2}
    Invalid = Invalid
    PageSize = 1
    StartRows <- OneResponse
    MaxWrites = 2
    Fields = {prefix}
    FieldValues = {v1, v2, v3}
    StartSettings <- AllSetTo1
    MaxSaves = 2
    Actions = {create}
    Resources = {autoResponse, guildSettings}
    Filters <- ByResource
    LogPageSize = 1
    MaxLog = 3
    MaxMoves = 3
INVARIANTS TypeOK ListShowsOwnChanges PageHasRows WaitsForAFetch SyncedFormHasSave PromisedPagesHaveEntries NothingBetweenPages FormFollowsSettings
PROPERTIES TypingSurvivesRefetch DraftIsTheUsers
CHECK_DEADLOCK FALSE
