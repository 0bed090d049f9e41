CONSTANTS
    None = None
    Schema = {"s"}
    Table = {"t1", "t2"}
    Column = {"c1"}
    Filter = {"DENYALL", "true", "false", "p"}
    DenyAll = "DENYALL"
    Mirror <- NoMirror
    FlatPaths = TRUE
    ColumnSecurity = TRUE
    RowSecurity = FALSE
    MaxScopes = 2
    sales = sales
    hr = hr
    ops = ops
    alice = alice
    bob = bob
    carol = carol
    team = team
    SourceRole = {sales, hr, ops}
    Word <- MCWord
    Stem <- DistinctStem
    TableStem <- MCTableStem
    Suffix <- PW
    CleanSuffix <- PW
    ManagedSuffix <- PW
    LowerCase <- MCLowerCase
    DefaultReader <- MCDefaultReader
    DeleteDefaultReaderRole = TRUE
    RoleBased = TRUE
    Principal = {alice, bob, carol, team}
    Directory = {alice, bob, team}
    Export <- FilteredExport
    NoExport = NoExport
    RoleId = {i1, i2, i3, i4, i5, i6}
    NoId = NoId
    Admin = Admin
    AdminName <- NoNames
    AdminMembers <- TeamOnly
    TransientErrors = FALSE
    ServicesFail = TRUE
    UnmappedHandler = {"none", "two"}
    AdminsInterleave = FALSE
    ReuseAgent = FALSE
    MaxNumber = 4
SYMMETRY Ids
SPECIFICATION Spec
INVARIANTS RowFiltersAlwaysApply
