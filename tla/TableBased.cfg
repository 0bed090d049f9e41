CONSTANTS
    None = None
    Schema = {"s"}
    Table = {"t1", "t2", "t3"}
    Column = {"c1"}
    Filter = {"DENYALL", "true", "false", "p"}
    DenyAll = "DENYALL"
    Mirror <- NoMirror
    FlatPaths = FALSE
    ColumnSecurity = TRUE
    RowSecurity = TRUE
    MaxScopes = 1
    sales = sales
    hr = hr
    ops = ops
    alice = alice
    bob = bob
    carol = carol
    team = team
    SourceRole = {sales, hr, ops}
    Word <- MCWord
    Stem <- DistinctStem
    TableStem <- MCTableStem
    Suffix <- PW
    CleanSuffix <- PW
    ManagedSuffix <- PW
    LowerCase <- MCLowerCase
    DefaultReader <- MCDefaultReader
    DeleteDefaultReaderRole = FALSE
    RoleBased = FALSE
    Principal = {alice, bob, carol, team}
    Directory = {alice, bob, team}
    Export <- OddTableExport
    NoExport = NoExport
    RoleId = {i1, i2, i3, i4, i5, i6}
    NoId = NoId
    Admin = Admin
    AdminName <- PlainNames
    AdminMembers <- TeamOnly
    TransientErrors = FALSE
    ServicesFail = TRUE
    UnmappedHandler = {"two", "documented"}
    AdminsInterleave = FALSE
    ReuseAgent = TRUE
    MaxNumber = 4
SYMMETRY Ids
SPECIFICATION Spec
PROPERTIES SyncLeavesNoStaleRole ImplementsPolicySync
