CONSTANTS
    ann = ann
    sue = sue
    bob = bob
    eve = eve
    analyst = analyst
    senior = senior
    boss = boss
    lender = lender
    shared = shared
    ler = ler
    None = None
    User = {ann, sue, bob, eve, boss}
    Role = {analyst, senior, boss, lender, shared, ler}
    Database = "db"
    Schema = {"s1", "s2"}
    Table = {"t1", "t2", "t3"}
    Column = {"c1", "c2"}
    Row = {"north", "south"}
    Condition <- MCCondition
    Lets <- MCLets
    Bare <- MCBare
    Cut <- MCCut
    Found <- MCFound
    SchemaOf <- MCSchemaOf
    EmailLogin = {ann, sue, bob, boss}
    Wanted = {"t1", "t2"}
    ColumnSecurity = TRUE
    RowSecurity = TRUE
    ColumnFallback = "deny"
    RowFallback = "deny"
    Source <- MCProjectionOnly
    Change <- MCNoChange
    QueriesFail = FALSE
SPECIFICATION Spec
INVARIANTS UnsupportedTablesFallBack
