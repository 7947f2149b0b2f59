SPECIFICATION DataSpec
CONSTANTS
    Services = {"rows", "alone", "schema", "filter", "page", "group", "join", "keys",
                "calls", "searches", "walks", "writes", "lineage", "engine"}
    Table = {1, 2}
    Index = {1}
    RowId = {1, 2}
    Textual = {1}
    Value = {"a", "A", "b"}
    Folded <- FoldedText
    IndexTable <- OnTableOne
    UniqueIndexes = {1}
    SQLClient = {1, 2}
    MayMove = {1}
    MaxPrefix = 3
    MaxStatements = 4
    MaxFault = 1
    MaxSQLCrash = 1
    NoTable = NoTable
    NoRow = NoRow
    Missing = Missing
    IndexOrder <- CaseFolded
    Printed <- PrintedText
    AvgScale = 12
    Top = 3
    Upper = {1}
    VectorId = {1, 2, 3, 4, 5, 6}
    Vector = {1, 2, 3, 4, 5, 6}
    VectorClient = {1, 2}
    Payload = {NoPayload, "p"}
    M = 2
    EfConstruction = 6
    EfSearch = 2
    MaxLevel = 1
    WalkOrders <- BothWays
    KeyOrder <- VectorsUp
    NoNode = NoNode
    NoVector = NoVector
    NoPayload = NoPayload
    NoEntry = NoEntry
    NoHits = NoHits
    MaxVectorCalls = 3
    MaxVectorFault = 1
    MaxReload = 1
    NodeId = {1, 2, 3, 4}
    EdgeId = {1, 2, 3}
    Label = {1, 2}
    DataId = {1, 2, 3}
    GraphClient = {1, 2}
    NoRecord = NoRecord
    NoPath = NoPath
    NoWalk = NoWalk
    MaxGraphCalls = 3
    MaxGraphFault = 1
    MaxGraphCrash = 1
    StateKey = {"k"}
    StateValue = {"v", "w"}
    Absent = Absent
    Member = {1, 2, 3}
    Configured = {1, 2}
    MaxCommands = 3
    MaxEngineFault = 1
    MaxEngineCrash = 2
INVARIANTS
    IndexComplete
    IndexSound
    UniqueKept
    PrefixesApart
    IndexKeepsAnswer
    OrderedAnswer
    JoinMeans
    GroupsPartition
    LookupsExact
    GraphAgrees
    SearchExact
    GraphIndexed
    WalksExact
    NodeFollowsLog
CHECK_DEADLOCK FALSE
