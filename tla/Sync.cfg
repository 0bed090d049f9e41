CONSTANTS
    None = None
    Schema = {"s"}
    Table = {"t1", "t2", "t3"}
    Column = {"c1"}
    Filter = {"DENYALL", "true", "false", "p"}
    DenyAll = "DENYALL"
    Mirror <- T2Mirror
    FlatPaths = FALSE
    ColumnSecurity = TRUE
    RowSecurity = TRUE
    MaxScopes = 2
    sales = sales
    hr = hr
    ops = ops
    alice = alice
    bob = bob
    carol = carol
    team = team
    SourceRole = {sales, hr, ops}
    Word <- MCWord
    Stem <- ClashingStem
    TableStem <- MCTableStem
    Suffix <- PW
    CleanSuffix <- PW
    ManagedSuffix <- PW
    LowerCase <- MCLowerCase
    DefaultReader <- MCDefaultReader
    DeleteDefaultReaderRole = TRUE
    RoleBased = TRUE
    Principal = {alice, bob, carol, team}
    Directory = {alice, bob, team}
    Export <- RoleBasedExport
    NoExport = NoExport
    RoleId = {i1, i2, i3, i4, i5, i6}
    NoId = NoId
    Admin = Admin
    AdminName <- PlainName
    AdminMembers <- TeamOnly
    TransientErrors = TRUE
    ServicesFail = TRUE
    UnmappedHandler = {"none", "two"}
    AdminsInterleave = FALSE
    ReuseAgent = FALSE
    MaxNumber = 4
SYMMETRY Ids
SPECIFICATION Spec
INVARIANTS TypeOK SkipsOnlyWhenInSync BuiltNamesDistinct RequestNamesDistinct ResolvesAlike ConstraintsTravel SplitKeepsEveryPath
PROPERTIES SyncLeavesNoStaleRole ImplementsPolicySync
