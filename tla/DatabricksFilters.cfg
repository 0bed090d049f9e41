CONSTANTS
    ann = ann
    bob = bob
    job = job
    synced = synced
    inner = inner
    outer = outer
    lone = lone
    User = {ann, bob}
    ServicePrincipal = {job}
    EntraGroup = {synced}
    Group = {inner, outer, lone}
    AccountUsers = AccountUsers
    Catalog = "cat"
    Schema = {"s1", "s2"}
    Table = {"t1", "t2", "t3"}
    Column = {"c1", "c2"}
    Row = {"north", "south"}
    Condition <- MCCondition
    Lets <- MCLets
    Bare <- MCBare
    UpToWhen <- MCUpToWhen
    UpToEnd <- MCUpToEnd
    NoElse = NoElse
    SchemaOf <- MCSchemaOf
    Wanted = {"t1", "t2"}
    ColumnSecurity = TRUE
    RowSecurity = TRUE
    ColumnFallback = "deny"
    RowFallback = "deny"
    MaskFunction = {"m", "n"}
    FilterFunction = {"f"}
    Source <- MCNewYork
    Change <- MCNoChange
SPECIFICATION Spec
INVARIANTS DocumentedFiltersKeepRows
